------------------------ MODULE VehicleProfileProofs ------------------------
(***************************************************************************)
(* Theorems about VehicleProfile for any sets of vehicles, drivers,        *)
(* requests, handlers, plates and details.                                 *)
(***************************************************************************)
EXTENDS VehicleProfile, TLAPS

(***************************************************************************)
(* The shapes of rows and tasks.                                           *)
(***************************************************************************)
LEMMA VehicleRows ==
    ASSUME NEW row \in VehicleRow
    PROVE  row.state \in {"LIVE", "ARCHIVED"} => row \in StoredVehicle
  BY DEF VehicleRow, NoVehicle, NoRow

\* A request in the table is a stored row; others have no vehicle.
LEMMA RequestRows ==
    ASSUME NEW row \in RequestRow
    PROVE  /\ row.status \in RequestStatus => row \in StoredRequest
           /\ row.vehicle \in Vehicles \cup {Null}
           /\ row.vehicle \in Vehicles => row \in StoredRequest
  BY NullAssumption
     DEF RequestRow, StoredRequest, NoRequest, RequestStatus, Decisions, NoRow

\* The op of a task tells what it holds.
LEMMA TaskShapes ==
    ASSUME TypeOK, NEW h \in Handlers
    PROVE  /\ task[h].op = "create" => task[h] \in CreateTask
           /\ task[h].op \in {"update", "checked", "delete"}
                => task[h] \in WriteTask
           /\ task[h].op \in {"submit", "free"} => task[h] \in SubmitTask
           /\ task[h].op \in {"cancel", "remove", "decide", "decidable"}
                => task[h] \in RequestTask
  BY DEF TypeOK, Tasks, Idle, CreateTask, WriteTask, SubmitTask, RequestTask

\* A stored vehicle stays one under another profile or approval.
LEMMA StoredVehicleTyped ==
    ASSUME NEW row \in StoredVehicle
    PROVE  /\ row \in VehicleRow
           /\ \A profile \in Profiles :
                 [row EXCEPT !.profile = profile] \in StoredVehicle
  BY DEF StoredVehicle, VehicleRow

\* A profile gives each field a value of its own.
LEMMA ProfileValues ==
    ASSUME NEW profile \in Profiles
    PROVE  /\ profile \in [Fields -> AnyValue]
           /\ \A f \in Fields : profile[f] \in ValuesOf(f)
           /\ profile["plateNumber"] \in Plates
  BY FieldsAssumption DEF Profiles, Assignments, ValuesOf

\* A proposal gives some of the fields a value of their own.
LEMMA ProposalValues ==
    ASSUME NEW proposal \in Proposals
    PROVE  /\ DOMAIN proposal \subseteq Fields
           /\ \A f \in DOMAIN proposal : /\ proposal[f] \in ValuesOf(f)
                                         /\ proposal[f] \in AnyValue
  BY DEF Proposals, Assignments

\* Writing isActive keeps the profile a profile and its plate as it is.
LEMMA WithActiveTyped ==
    ASSUME NEW profile \in Profiles, NEW active \in BOOLEAN
    PROVE  /\ WithActive(profile, active) \in Profiles
           /\ WithActive(profile, active)["plateNumber"] = profile["plateNumber"]
<1>1. ASSUME NEW f \in Fields
      PROVE  /\ WithActive(profile, active)[f] \in ValuesOf(f)
             /\ WithActive(profile, active)[f] \in AnyValue
  BY ProfileValues DEF WithActive, ValuesOf, AnyValue
<1>2. WithActive(profile, active) \in [Fields -> AnyValue]
  BY <1>1 DEF WithActive
<1>3. QED
  BY <1>1, <1>2, FieldsAssumption DEF Profiles, Assignments, WithActive

\* Applying a proposal to a vehicle gives a vehicle.
LEMMA AppliedTyped ==
    ASSUME NEW row \in StoredVehicle, NEW proposal \in Proposals
    PROVE  Applied(row, proposal) \in StoredVehicle
<1> DEFINE profile == [f \in Fields |-> IF f \in DOMAIN proposal
                                        THEN proposal[f] ELSE row.profile[f]]
<1>1. row.profile \in Profiles
  BY DEF StoredVehicle
<1>2. ASSUME NEW f \in Fields
      PROVE  profile[f] \in ValuesOf(f) /\ profile[f] \in AnyValue
  BY <1>1, ProfileValues, ProposalValues
<1>3. profile \in Profiles
  BY <1>2 DEF Profiles, Assignments
<1>4. Applied(row, proposal) = [row EXCEPT !.profile = profile]
  BY DEF Applied
<1>5. QED
  BY <1>3, <1>4, StoredVehicleTyped

----------------------------------------------------------------------------
(***************************************************************************)
(* Type correctness.                                                       *)
(***************************************************************************)
LEMMA TaskTyped ==
    ASSUME TypeOK, NEW h \in Handlers, NEW t \in Tasks,
           task' = [task EXCEPT ![h] = t], UNCHANGED <<vehicles, requests>>
    PROVE  TypeOK'
  BY DEF TypeOK

\* The end of a vehicle write keeps the types when the row is a vehicle.
LEMMA WriteVehicleTyped ==
    ASSUME TypeOK, NEW h \in Handlers, NEW v \in Vehicles,
           NEW row \in StoredVehicle, WriteVehicle(h, v, row)
    PROVE  TypeOK'
  BY StoredVehicleTyped DEF TypeOK, WriteVehicle, End, Tasks

\* The end of a request write keeps the types when the row written is one.
LEMMA WriteRequestTyped ==
    ASSUME TypeOK, NEW h \in Handlers, NEW r \in Requests,
           NEW row \in RequestRow, WriteRequest(h, r, row)
    PROVE  TypeOK'
  BY DEF TypeOK, WriteRequest, End, Tasks

\* The cascade keeps the types.
LEMMA CascadeTyped ==
    ASSUME TypeOK, NEW S \in SUBSET Vehicles, Cascade(S),
           task' \in [Handlers -> Tasks]
    PROVE  TypeOK'
<1>1. NoVehicle("DELETED") \in VehicleRow /\ NoRequest("DELETED") \in RequestRow
  BY DEF VehicleRow, RequestRow, NoRow
<1>2. QED
  BY <1>1 DEF TypeOK, Cascade

\* The empty tables are well typed.
LEMMA InitTyped == Init => TypeOK
<1>1. NoVehicle("UNUSED") \in VehicleRow /\ NoRequest("UNUSED") \in RequestRow
  BY DEF VehicleRow, RequestRow, NoRow
<1>2. QED
  BY <1>1 DEF Init, TypeOK, Tasks

\* createVehicle, updateVehicle and deleteVehicle keep the types.
LEMMA VehicleStepsTyped ==
    ASSUME TypeOK, NEW h \in Handlers, VehicleSteps(h)
    PROVE  TypeOK'
<1>1. ASSUME NEW driver \in Drivers, NEW p \in Plates,
             StartCreateVehicle(h, driver, p)
      PROVE  TypeOK'
  <2>1. [op |-> "create", driver |-> driver, plate |-> p] \in Tasks
    BY DEF Tasks, CreateTask
  <2>2. QED
    BY <1>1, <2>1, TaskTyped DEF StartCreateVehicle, Start
<1>2. CASE CreateVehicle(h)
  <2>1. task[h] \in CreateTask
    BY <1>2, TaskShapes DEF CreateVehicle
  <2>2. PICK v \in Vehicles, profile \in Profiles :
           WriteVehicle(h, v, [state |-> "LIVE", driver |-> task[h].driver,
                               isApproved |-> FALSE, profile |-> profile])
    BY <1>2 DEF CreateVehicle
  <2>3. [state |-> "LIVE", driver |-> task[h].driver, isApproved |-> FALSE,
         profile |-> profile] \in StoredVehicle
    BY <2>1 DEF CreateTask, StoredVehicle
  <2>4. QED
    BY <2>2, <2>3, WriteVehicleTyped
<1>3. ASSUME NEW op \in {"update", "delete"}, NEW role \in Roles,
             NEW v \in Vehicles, StartVehicleWrite(h, op, role, v)
      PROVE  TypeOK'
  <2>1. [op |-> op, role |-> role, vehicle |-> v, plate |-> Null] \in Tasks
    BY DEF Tasks, WriteTask
  <2>2. QED
    BY <1>3, <2>1, TaskTyped DEF StartVehicleWrite, Start
<1>4. ASSUME NEW p \in Plates, CheckPlate(h, p)
      PROVE  TypeOK'
  <2>1. task[h] \in WriteTask
    BY <1>4, TaskShapes DEF CheckPlate
  <2>2. [task[h] EXCEPT !.op = "checked", !.plate = p] \in Tasks
    BY <2>1 DEF WriteTask, Tasks
  <2>3. QED
    BY <1>4, <2>2, TaskTyped DEF CheckPlate, Advance
<1>5. CASE UpdateVehicle(h)
  <2>1. task[h].vehicle \in Vehicles
    BY <1>5, TaskShapes DEF UpdateVehicle, WriteTask
  <2>2. vehicles[task[h].vehicle] \in StoredVehicle
    BY <1>5, <2>1, VehicleRows DEF UpdateVehicle, Exists, TypeOK
  <2>3. PICK profile \in Profiles :
           WriteVehicle(h, task[h].vehicle,
                        [vehicles[task[h].vehicle] EXCEPT !.profile = profile])
    BY <1>5 DEF UpdateVehicle
  <2>4. QED
    BY <2>1, <2>2, <2>3, StoredVehicleTyped, WriteVehicleTyped
<1>6. CASE DeleteVehicle(h)
  <2>1. task[h].vehicle \in Vehicles
    BY <1>6, TaskShapes DEF DeleteVehicle, WriteTask
  <2>2. task' \in [Handlers -> Tasks]
    BY <1>6 DEF DeleteVehicle, End, TypeOK, Tasks
  <2>3. QED
    BY <1>6, <2>1, <2>2, CascadeTyped DEF DeleteVehicle
<1>7. QED
  BY <1>1, <1>2, <1>3, <1>4, <1>5, <1>6 DEF VehicleSteps

\* cancel, adminReview and adminRemove start well-typed tasks.
LEMMA RequestTaskTyped ==
    ASSUME NEW r \in Requests,
           NEW op \in {"cancel", "remove", "decide", "decidable"}
    PROVE  [op |-> op, req |-> r] \in Tasks
  BY DEF Tasks, RequestTask

\* A handler decides the request it has read.
LEMMA DecisionTyped ==
    ASSUME TypeOK, NEW h \in Handlers, task[h] \in RequestTask,
           RequestExists(task[h].req), NEW decision \in Decisions
    PROVE  /\ task[h].req \in Requests
           /\ requests[task[h].req] \in StoredRequest
           /\ [requests[task[h].req] EXCEPT !.status = decision] \in RequestRow
<1>1. task[h].req \in Requests
  BY DEF RequestTask
<1>2. requests[task[h].req] \in StoredRequest
  BY <1>1, RequestRows DEF TypeOK, RequestExists
<1>3. [requests[task[h].req] EXCEPT !.status = decision] \in StoredRequest
  BY <1>2 DEF StoredRequest, RequestStatus
<1>4. QED
  BY <1>1, <1>2, <1>3 DEF RequestRow

\* The change-request handlers keep the types: a request has its vehicle.
LEMMA RequestStepsTyped ==
    ASSUME TypeOK, RequestsHaveVehicle, NEW h \in Handlers, RequestSteps(h)
    PROVE  TypeOK'
<1>1. ASSUME NEW v \in Vehicles, Submit(h, v)
      PROVE  TypeOK'
  <2>1. PICK p \in Proposals :
           Start(h, [op |-> "submit", vehicle |-> v, proposal |-> p])
    BY <1>1 DEF Submit, Changes
  <2>2. [op |-> "submit", vehicle |-> v, proposal |-> p] \in Tasks
    BY DEF Tasks, SubmitTask
  <2>3. QED
    BY <2>1, <2>2, TaskTyped DEF Start
<1>2. CASE FindExistingPending(h)
  <2>1. task[h] \in SubmitTask
    BY <1>2, TaskShapes DEF FindExistingPending
  <2>2. [task[h] EXCEPT !.op = "free"] \in Tasks
    BY <2>1 DEF SubmitTask, Tasks
  <2>3. QED
    BY <1>2, <2>2, TaskTyped DEF FindExistingPending, Advance
<1>3. CASE SubmitCreate(h)
  <2>1. task[h] \in SubmitTask
    BY <1>3, TaskShapes DEF SubmitCreate
  <2>2. [vehicle |-> task[h].vehicle, status |-> "PENDING_REVIEW",
         proposal |-> task[h].proposal] \in RequestRow
    BY <2>1 DEF SubmitTask, RequestRow, StoredRequest, RequestStatus
  <2>3. QED
    BY <1>3, <2>2, WriteRequestTyped DEF SubmitCreate
<1>4. ASSUME NEW r \in Requests,
             \/ CancelRead(h, r) \/ ReviewReadRequest(h, r)
             \/ AdminRemoveRead(h, r)
      PROVE  TypeOK'
  BY <1>4, RequestTaskTyped, TaskTyped
     DEF CancelRead, ReviewReadRequest, AdminRemoveRead, Start
<1>5. CASE CancelWrite(h)
  BY <1>5, TaskShapes, DecisionTyped, WriteRequestTyped
     DEF CancelWrite, Decisions
<1>6. CASE ReviewReadVehicle(h)
  <2>1. task[h] \in RequestTask
    BY <1>6, TaskShapes DEF ReviewReadVehicle
  <2>2. [task[h] EXCEPT !.op = "decidable"] \in Tasks
    BY <2>1 DEF RequestTask, Tasks
  <2>3. QED
    BY <1>6, <2>2, TaskTyped DEF ReviewReadVehicle, Advance
<1>7. CASE ReviewAccept(h)
  <2> DEFINE r == task[h].req
             v == requests[r].vehicle
  <2>1. /\ r \in Requests /\ requests[r] \in StoredRequest
        /\ [requests[r] EXCEPT !.status = "ACCEPTED"] \in RequestRow
    BY <1>7, TaskShapes, DecisionTyped DEF ReviewAccept, Decisions
  <2>2. v \in Vehicles /\ requests[r].proposal \in Proposals
    BY <2>1 DEF StoredRequest
  <2>3. vehicles[v] \in StoredVehicle
    BY <1>7, <2>1, <2>2, VehicleRows
       DEF ReviewAccept, RequestsHaveVehicle, Exists, TypeOK
  <2>4. Applied(vehicles[v], requests[r].proposal) \in VehicleRow
    BY <2>2, <2>3, AppliedTyped, StoredVehicleTyped
  <2>5. vehicles' = [vehicles EXCEPT ![v] =
                        Applied(vehicles[v], requests[r].proposal)]
    BY <1>7 DEF ReviewAccept
  <2>6. requests' = [requests EXCEPT ![r] =
                        [requests[r] EXCEPT !.status = "ACCEPTED"]]
    BY <1>7 DEF ReviewAccept
  <2>7. task' \in [Handlers -> Tasks]
    BY <1>7 DEF ReviewAccept, End, TypeOK, Tasks
  <2>8. QED
    BY <2>1, <2>2, <2>4, <2>5, <2>6, <2>7 DEF TypeOK
<1>8. CASE ReviewReject(h)
  BY <1>8, TaskShapes, DecisionTyped, WriteRequestTyped
     DEF ReviewReject, Decisions
<1>9. CASE AdminRemoveDelete(h)
  <2>1. task[h].req \in Requests
    BY <1>9, TaskShapes DEF AdminRemoveDelete, RequestTask
  <2>2. NoRequest("DELETED") \in RequestRow
    BY DEF RequestRow, NoRow
  <2>3. QED
    BY <1>9, <2>1, <2>2, WriteRequestTyped DEF AdminRemoveDelete
<1>10. QED
  BY <1>1, <1>2, <1>3, <1>4, <1>5, <1>6, <1>7, <1>8, <1>9 DEF RequestSteps

\* A driver's vehicles are stored rows.
LEMMA OwnedRows ==
    ASSUME TypeOK, NEW driver, NEW v \in OwnedBy(driver)
    PROVE  /\ v \in Vehicles /\ Exists(v)
           /\ vehicles[v] \in StoredVehicle /\ vehicles[v].profile \in Profiles
<1>1. v \in Vehicles /\ Exists(v)
  BY DEF OwnedBy
<1>2. vehicles[v] \in StoredVehicle
  BY <1>1, VehicleRows DEF TypeOK, Exists
<1>3. QED
  BY <1>1, <1>2 DEF StoredVehicle

\* An archived or restored vehicle is a stored row.
LEMMA ArchivedTyped ==
    ASSUME NEW row \in StoredVehicle
    PROVE  Archived(row) \in StoredVehicle /\ Restored(row) \in StoredVehicle
<1>1. row.profile \in Profiles
  BY DEF StoredVehicle
<1>2. /\ WithActive(row.profile, FALSE) \in Profiles
      /\ WithActive(row.profile, TRUE) \in Profiles
  BY <1>1, WithActiveTyped
<1>3. QED
  BY <1>2 DEF Archived, Restored, StoredVehicle

\* The handlers of a single statement keep the types.
LEMMA StatementStepsTyped ==
    ASSUME TypeOK, NEW h \in Handlers, StatementSteps(h)
    PROVE  TypeOK'
<1>1. ASSUME NEW driver \in Drivers, DeleteAllVehiclesForDriver(h, driver)
      PROVE  TypeOK'
  <2>1. OwnedBy(driver) \subseteq Vehicles
    BY DEF OwnedBy
  <2>2. QED
    BY <1>1, <2>1, CascadeTyped DEF DeleteAllVehiclesForDriver, TypeOK
<1>2. ASSUME NEW driver \in Drivers,
             \/ ArchiveAllVehiclesForDriver(h, driver)
             \/ RestoreAllVehiclesForDriver(h, driver)
      PROVE  TypeOK'
  <2>1. \A v \in OwnedBy(driver) : /\ Archived(vehicles[v]) \in VehicleRow
                                   /\ Restored(vehicles[v]) \in VehicleRow
    BY OwnedRows, ArchivedTyped, StoredVehicleTyped
  <2>2. QED
    BY <1>2, <2>1
       DEF ArchiveAllVehiclesForDriver, RestoreAllVehiclesForDriver,
           SetVehicles, TypeOK
<1>3. ASSUME NEW v \in Vehicles, NEW b \in BOOLEAN, AdminApproveVehicle(h, v, b)
      PROVE  TypeOK'
  <2>1. vehicles[v] \in StoredVehicle
    BY <1>3, VehicleRows DEF AdminApproveVehicle, Exists, TypeOK
  <2>2. PICK profile \in Profiles :
           SetVehicles(h, [vehicles EXCEPT ![v].isApproved = b,
                                           ![v].profile = profile])
    BY <1>3 DEF AdminApproveVehicle
  <2>3. [vehicles[v] EXCEPT !.isApproved = b, !.profile = profile]
           \in VehicleRow
    BY <2>1 DEF StoredVehicle, VehicleRow
  <2>4. vehicles' = [vehicles EXCEPT ![v] =
                        [vehicles[v] EXCEPT !.isApproved = b,
                                            !.profile = profile]]
    BY <2>2 DEF SetVehicles, TypeOK
  <2>5. QED
    BY <2>2, <2>3, <2>4 DEF SetVehicles, TypeOK
<1>4. ASSUME NEW v \in Vehicles, NEW b \in BOOLEAN, AdminSetActive(h, v, b)
      PROVE  TypeOK'
  <2>1. vehicles[v] \in StoredVehicle
    BY <1>4, VehicleRows DEF AdminSetActive, Exists, TypeOK
  <2>2. [vehicles[v] EXCEPT !.profile = WithActive(vehicles[v].profile, b)]
           \in VehicleRow
    BY <2>1, WithActiveTyped, StoredVehicleTyped DEF StoredVehicle
  <2>3. QED
    BY <1>4, <2>2 DEF AdminSetActive, SetVehicles, TypeOK
<1>5. QED
  BY <1>1, <1>2, <1>3, <1>4 DEF StatementSteps

----------------------------------------------------------------------------
(***************************************************************************)
(* Plates and references.  Every write to the vehicle rows either keeps    *)
(* all plates, or passed the index with the plate it writes; it either     *)
(* keeps all rows, or took their requests with them.                       *)
(***************************************************************************)
Inv == TypeOK /\ RequestsHaveVehicle /\ PlatesUnique

\* One vehicle is written, with a plate that the index lets through.
LEMMA WriteKeepsInv ==
    ASSUME Inv, TypeOK', NEW v \in Vehicles, NEW row \in StoredVehicle,
           vehicles' = [vehicles EXCEPT ![v] = row],
           PlateIndexAllows(v, row.profile["plateNumber"]),
           \A r \in Requests : RequestExists(r)' =>
              RequestExists(r) /\ requests'[r].vehicle = requests[r].vehicle
    PROVE  Inv'
<1>1. vehicles' \in [Vehicles -> VehicleRow] /\ vehicles'[v] = row
  BY StoredVehicleTyped DEF Inv, TypeOK
<1>2. Exists(v)' /\ \A w \in Vehicles : Exists(w) => Exists(w)'
  BY <1>1 DEF Exists, StoredVehicle, Inv, TypeOK
<1>3. RequestsHaveVehicle'
  <2> SUFFICES ASSUME NEW r \in Requests, RequestExists(r)'
               PROVE  Exists(requests[r].vehicle)'
    BY DEF RequestsHaveVehicle
  <2>1. PICK w : w = requests[r].vehicle
    OBVIOUS
  <2>2. w \in Vehicles /\ Exists(w)
    BY <2>1, RequestRows
       DEF Inv, RequestsHaveVehicle, TypeOK, RequestExists, StoredRequest
  <2>3. Exists(w)'
    BY <1>2, <2>2
  <2>4. QED
    BY <2>1, <2>3 DEF Exists
<1>4. \A w \in Vehicles : w # v => vehicles'[w] = vehicles[w]
  BY DEF Inv, TypeOK
<1>5. PlatesUnique'
  BY <1>1, <1>4 DEF PlatesUnique, Inv, Exists, PlateOf, PlateIndexAllows
<1>6. QED
  BY <1>3, <1>5 DEF Inv

\* Vehicles are written, but no plate moves and no vehicle appears or goes.
LEMMA RewriteKeepsInv ==
    ASSUME Inv, TypeOK', UNCHANGED requests,
           \A v \in Vehicles :
              /\ Exists(v)' <=> Exists(v)
              /\ Exists(v) => PlateOf(v)' = PlateOf(v)
    PROVE  Inv'
<1>1. RequestsHaveVehicle'
  <2> SUFFICES ASSUME NEW r \in Requests, RequestExists(r)
               PROVE  Exists(requests[r].vehicle)'
    BY DEF RequestsHaveVehicle, RequestExists
  <2>1. PICK w \in Vehicles : w = requests[r].vehicle
    BY RequestRows DEF Inv, TypeOK, RequestExists, StoredRequest
  <2>2. Exists(w)'
    BY <2>1 DEF Inv, RequestsHaveVehicle
  <2>3. QED
    BY <2>1, <2>2 DEF Exists
<1>2. PlatesUnique'
  BY DEF Inv, PlatesUnique
<1>3. QED
  BY <1>1, <1>2 DEF Inv

\* Vehicles go with the requests about them.
LEMMA CascadeKeepsInv ==
    ASSUME Inv, TypeOK', NEW S \in SUBSET Vehicles, Cascade(S)
    PROVE  Inv'
<1>1. \A v \in Vehicles :
         /\ Exists(v)' <=> Exists(v) /\ v \notin S
         /\ Exists(v)' => PlateOf(v)' = PlateOf(v)
  BY DEF Cascade, Exists, PlateOf, NoVehicle
<1>2. PlatesUnique'
  BY <1>1 DEF Inv, PlatesUnique
<1>3. RequestsHaveVehicle'
  <2> SUFFICES ASSUME NEW r \in Requests, RequestExists(r)'
               PROVE  Exists(requests[r].vehicle)'
    BY DEF RequestsHaveVehicle
  <2>1. requests[r].vehicle \notin S /\ requests'[r] = requests[r]
    BY DEF Cascade, NoRequest, RequestExists, RequestStatus, Decisions
  <2>2. RequestExists(r)
    BY <2>1 DEF RequestExists
  <2>3. PICK w \in Vehicles : w = requests[r].vehicle
    BY <2>2, RequestRows DEF Inv, TypeOK, RequestExists, StoredRequest
  <2>4. Exists(w)'
    BY <1>1, <2>1, <2>2, <2>3 DEF Inv, RequestsHaveVehicle
  <2>5. QED
    BY <2>1, <2>3, <2>4 DEF Exists
<1>4. QED
  BY <1>2, <1>3 DEF Inv

\* Requests and tasks move, vehicles do not.
LEMMA RequestKeepsInv ==
    ASSUME Inv, TypeOK', UNCHANGED vehicles,
           \A r \in Requests : RequestExists(r)' =>
              Exists(requests'[r].vehicle)
    PROVE  Inv'
<1>1. RequestsHaveVehicle'
  BY DEF RequestsHaveVehicle, Exists
<1>2. PlatesUnique'
  BY DEF Inv, PlatesUnique, Exists, PlateOf
<1>3. QED
  BY <1>1, <1>2 DEF Inv

\* What leaves both tables alone keeps the invariant.
LEMMA StutterKeepsInv ==
    ASSUME Inv, TypeOK', UNCHANGED <<vehicles, requests>>
    PROVE  Inv'
  BY DEF Inv, RequestsHaveVehicle, PlatesUnique, Exists, PlateOf,
         RequestExists

\* The plate index and the cascade keep the invariant under vehicle writes.
LEMMA VehicleStepsKeepInv ==
    ASSUME Inv, TypeOK', NEW h \in Handlers, VehicleSteps(h)
    PROVE  Inv'
<1> USE DEF Inv
<1>1. ASSUME UNCHANGED <<vehicles, requests>>
      PROVE  Inv'
  BY <1>1, StutterKeepsInv
<1>2. CASE CreateVehicle(h)
  <2>1. task[h] \in CreateTask
    BY <1>2, TaskShapes DEF CreateVehicle
  <2>2. PICK v \in Vehicles, profile \in Profiles :
           /\ profile["plateNumber"] = task[h].plate
           /\ PlateIndexAllows(v, task[h].plate)
           /\ WriteVehicle(h, v, [state |-> "LIVE", driver |-> task[h].driver,
                                  isApproved |-> FALSE, profile |-> profile])
    BY <1>2 DEF CreateVehicle
  <2>3. [state |-> "LIVE", driver |-> task[h].driver, isApproved |-> FALSE,
         profile |-> profile] \in StoredVehicle
    BY <2>1 DEF CreateTask, StoredVehicle
  <2>4. QED
    BY <2>2, <2>3, WriteKeepsInv DEF WriteVehicle, RequestExists
<1>3. CASE UpdateVehicle(h)
  <2>1. PICK v \in Vehicles : v = task[h].vehicle
    BY <1>3, TaskShapes DEF UpdateVehicle, WriteTask
  <2>2. vehicles[v] \in StoredVehicle
    BY <1>3, <2>1, VehicleRows DEF UpdateVehicle, Exists, TypeOK
  <2>3. PICK profile \in Profiles :
           /\ PlateIndexAllows(v, profile["plateNumber"])
           /\ WriteVehicle(h, v, [vehicles[v] EXCEPT !.profile = profile])
    BY <1>3, <2>1 DEF UpdateVehicle
  <2>4. /\ [vehicles[v] EXCEPT !.profile = profile] \in StoredVehicle
        /\ [vehicles[v] EXCEPT !.profile = profile].profile = profile
    BY <2>2, StoredVehicleTyped DEF StoredVehicle
  <2>5. QED
    BY <2>3, <2>4, WriteKeepsInv DEF WriteVehicle, RequestExists
<1>4. CASE DeleteVehicle(h)
  <2>1. {task[h].vehicle} \in SUBSET Vehicles
    BY <1>4, TaskShapes DEF DeleteVehicle, WriteTask
  <2>2. QED
    BY <1>4, <2>1, CascadeKeepsInv DEF DeleteVehicle
<1>5. QED
  BY <1>1, <1>2, <1>3, <1>4
     DEF VehicleSteps, StartCreateVehicle, StartVehicleWrite, CheckPlate, Start,
         Advance

\* Inserts, decisions and removals of requests keep the invariant.
LEMMA RequestStepsKeepInv ==
    ASSUME Inv, TypeOK', NEW h \in Handlers, RequestSteps(h)
    PROVE  Inv'
<1> USE DEF Inv
<1>1. ASSUME UNCHANGED <<vehicles, requests>>
      PROVE  Inv'
  BY <1>1, StutterKeepsInv
<1>2. CASE SubmitCreate(h)
  <2>1. task[h].vehicle \in Vehicles /\ Exists(task[h].vehicle)
    BY <1>2, TaskShapes DEF SubmitCreate, SubmitTask, VehicleReferenced
  <2>2. PICK r \in Requests :
           WriteRequest(h, r, [vehicle |-> task[h].vehicle,
                               status |-> "PENDING_REVIEW",
                               proposal |-> task[h].proposal])
    BY <1>2 DEF SubmitCreate
  <2>3. \A q \in Requests : RequestExists(q)' => Exists(requests'[q].vehicle)
    BY <2>1, <2>2 DEF WriteRequest, TypeOK, RequestExists, RequestsHaveVehicle
  <2>4. QED
    BY <2>2, <2>3, RequestKeepsInv DEF WriteRequest
<1>3. CASE CancelWrite(h) \/ ReviewReject(h)
  <2>1. PICK decision \in Decisions :
           /\ RequestExists(task[h].req)
           /\ WriteRequest(h, task[h].req,
                           [requests[task[h].req] EXCEPT !.status = decision])
    BY <1>3 DEF CancelWrite, ReviewReject, Decisions
  <2>2. task[h].req \in Requests /\ requests[task[h].req] \in StoredRequest
    BY <1>3, <2>1, TaskShapes, DecisionTyped DEF CancelWrite, ReviewReject
  <2>3. \A q \in Requests : RequestExists(q)' => Exists(requests'[q].vehicle)
    BY <2>1, <2>2
       DEF WriteRequest, TypeOK, RequestExists, RequestsHaveVehicle,
           StoredRequest
  <2>4. QED
    BY <2>1, <2>3, RequestKeepsInv DEF WriteRequest
<1>4. CASE ReviewAccept(h)
  <2> DEFINE r == task[h].req
  <2>1. r \in Requests /\ RequestExists(r) /\ requests[r] \in StoredRequest
    BY <1>4, TaskShapes, DecisionTyped DEF ReviewAccept, Decisions
  <2>2. PICK v \in Vehicles : v = requests[r].vehicle
    BY <2>1 DEF StoredRequest
  <2>3. vehicles[v] \in StoredVehicle
    BY <2>1, <2>2, VehicleRows DEF RequestsHaveVehicle, Exists, TypeOK
  <2> DEFINE row == Applied(vehicles[v], requests[r].proposal)
  <2>4. row \in StoredVehicle
    BY <2>1, <2>3, AppliedTyped DEF StoredRequest
  <2>5. /\ vehicles' = [vehicles EXCEPT ![v] = row]
        /\ PlateIndexAllows(v, row.profile["plateNumber"])
        /\ requests' = [requests EXCEPT ![r].status = "ACCEPTED"]
    BY <1>4, <2>2 DEF ReviewAccept
  <2>6. \A q \in Requests : RequestExists(q)' =>
           RequestExists(q) /\ requests'[q].vehicle = requests[q].vehicle
    BY <2>1, <2>5 DEF TypeOK, RequestExists, StoredRequest
  <2> HIDE DEF row
  <2>7. QED
    BY <2>4, <2>5, <2>6, WriteKeepsInv
<1>5. CASE AdminRemoveDelete(h)
  <2>1. task[h].req \in Requests
    BY <1>5, TaskShapes DEF AdminRemoveDelete, RequestTask
  <2>2. \A q \in Requests : RequestExists(q)' => Exists(requests'[q].vehicle)
    BY <1>5, <2>1
       DEF AdminRemoveDelete, WriteRequest, NoRequest, TypeOK, RequestExists,
           RequestStatus, Decisions, RequestsHaveVehicle
  <2>3. QED
    BY <1>5, <2>2, RequestKeepsInv DEF AdminRemoveDelete, WriteRequest
<1>6. QED
  BY <1>1, <1>2, <1>3, <1>4, <1>5
     DEF RequestSteps, Submit, FindExistingPending, CancelRead,
         ReviewReadRequest, AdminRemoveRead, ReviewReadVehicle, Start, Advance

\* Approvals, archivings, restorings and cascades keep the invariant.
LEMMA StatementStepsKeepInv ==
    ASSUME Inv, TypeOK', NEW h \in Handlers, StatementSteps(h)
    PROVE  Inv'
<1> USE DEF Inv
<1>1. ASSUME NEW driver \in Drivers, DeleteAllVehiclesForDriver(h, driver)
      PROVE  Inv'
  BY <1>1, CascadeKeepsInv DEF DeleteAllVehiclesForDriver, OwnedBy
<1>2. ASSUME NEW driver \in Drivers,
             \/ ArchiveAllVehiclesForDriver(h, driver)
             \/ RestoreAllVehiclesForDriver(h, driver)
      PROVE  Inv'
  <2>1. ASSUME NEW v \in OwnedBy(driver)
        PROVE  /\ Archived(vehicles[v]).state = "ARCHIVED"
               /\ Restored(vehicles[v]).state = "LIVE"
               /\ Archived(vehicles[v]).profile["plateNumber"] = PlateOf(v)
               /\ Restored(vehicles[v]).profile["plateNumber"] = PlateOf(v)
    BY OwnedRows, WithActiveTyped DEF Archived, Restored, StoredVehicle, PlateOf
  <2>2. \A v \in Vehicles :
           /\ Exists(v)' <=> Exists(v)
           /\ Exists(v) => PlateOf(v)' = PlateOf(v)
    BY <1>2, <2>1, OwnedRows
       DEF ArchiveAllVehiclesForDriver, RestoreAllVehiclesForDriver,
           SetVehicles, Exists, PlateOf
  <2>3. QED
    BY <1>2, <2>2, RewriteKeepsInv
       DEF ArchiveAllVehiclesForDriver, RestoreAllVehiclesForDriver, SetVehicles
<1>3. ASSUME NEW v \in Vehicles, NEW b \in BOOLEAN,
             AdminApproveVehicle(h, v, b) \/ AdminSetActive(h, v, b)
      PROVE  Inv'
  <2>1. vehicles[v] \in StoredVehicle /\ vehicles[v].profile \in Profiles
    <3>1. Exists(v)
      BY <1>3 DEF AdminApproveVehicle, AdminSetActive
    <3>2. vehicles[v] \in StoredVehicle
      BY <3>1, VehicleRows DEF Exists, TypeOK
    <3>3. QED
      BY <3>2 DEF StoredVehicle
  <2>2. \E row \in StoredVehicle :
           /\ vehicles' = [vehicles EXCEPT ![v] = row]
           /\ row.state = vehicles[v].state
           /\ row.profile["plateNumber"] = PlateOf(v)
    <3>1. CASE AdminApproveVehicle(h, v, b)
      <4>1. PICK profile \in Profiles :
               /\ profile["plateNumber"] = PlateOf(v)
               /\ SetVehicles(h, [vehicles EXCEPT ![v].isApproved = b,
                                                  ![v].profile = profile])
        BY <3>1, FieldsAssumption DEF AdminApproveVehicle, PlateOf
      <4> DEFINE row == [vehicles[v] EXCEPT !.isApproved = b,
                                            !.profile = profile]
      <4>2. /\ row \in StoredVehicle /\ row.state = vehicles[v].state
            /\ row.profile = profile
        BY <2>1 DEF StoredVehicle
      <4>3. vehicles' = [vehicles EXCEPT ![v] = row]
        BY <4>1 DEF SetVehicles, TypeOK
      <4>4. QED
        BY <4>1, <4>2, <4>3
    <3>2. CASE AdminSetActive(h, v, b)
      <4> DEFINE row == [vehicles[v] EXCEPT
                            !.profile = WithActive(vehicles[v].profile, b)]
      <4>1. /\ row \in StoredVehicle /\ row.state = vehicles[v].state
            /\ row.profile["plateNumber"] = PlateOf(v)
        BY <2>1, WithActiveTyped, StoredVehicleTyped DEF StoredVehicle, PlateOf
      <4>2. vehicles' = [vehicles EXCEPT ![v] = row]
        BY <3>2 DEF AdminSetActive, SetVehicles, TypeOK
      <4>3. QED
        BY <4>1, <4>2
    <3>3. QED
      BY <1>3, <3>1, <3>2
  <2>3. \A w \in Vehicles :
           /\ Exists(w)' <=> Exists(w)
           /\ Exists(w) => PlateOf(w)' = PlateOf(w)
    BY <2>2 DEF Exists, PlateOf, TypeOK
  <2>4. UNCHANGED requests
    BY <1>3 DEF AdminApproveVehicle, AdminSetActive, SetVehicles
  <2>5. QED
    BY <2>3, <2>4, RewriteKeepsInv
<1>4. QED
  BY <1>1, <1>2, <1>3 DEF StatementSteps

\* Rows keep their types, plates stay unique and requests keep their vehicle.
\* The three are proved together: the types of an accepted vehicle rest on
\* its request having one.
THEOREM VehiclesSound == Spec => []Inv
<1>1. Init => Inv
  <2>1. Init => RequestsHaveVehicle /\ PlatesUnique
    BY DEF Init, NoVehicle, NoRequest, RequestsHaveVehicle, PlatesUnique,
           RequestExists, RequestStatus, Decisions, Exists
  <2>2. QED
    BY <2>1, InitTyped DEF Inv
<1>2. Inv /\ [Next]_vars => Inv'
  <2> SUFFICES ASSUME Inv, [Next]_vars
               PROVE  Inv'
    OBVIOUS
  <2>1. TypeOK'
    <3>1. ASSUME NEW h \in Handlers, Abandon(h)
          PROVE  TypeOK'
      BY <3>1 DEF Abandon, End, Inv, TypeOK, Tasks
    <3>2. UNCHANGED vars => TypeOK'
      BY DEF vars, Inv, TypeOK
    <3>3. QED
      BY <3>1, <3>2, VehicleStepsTyped, RequestStepsTyped, StatementStepsTyped
         DEF Next, Inv
  <2>2. ASSUME NEW h \in Handlers, Abandon(h)
        PROVE  Inv'
    BY <2>1, <2>2, StutterKeepsInv DEF Abandon
  <2>3. CASE UNCHANGED vars
    BY <2>1, <2>3, StutterKeepsInv DEF vars
  <2>4. QED
    BY <2>1, <2>2, <2>3, VehicleStepsKeepInv, RequestStepsKeepInv,
       StatementStepsKeepInv DEF Next
<1>3. QED
  BY <1>1, <1>2, PTL DEF Spec

\* No interleaving of creates, updates, accepted requests, archivings and
\* restores gives two vehicles one plate.
THEOREM OnePlatePerVehicle == Spec => []PlatesUnique
  BY VehiclesSound, PTL DEF Inv

\* No request outlives its vehicle.
THEOREM NoOrphanRequests == Spec => []RequestsHaveVehicle
  BY VehiclesSound, PTL DEF Inv

\* Every row and every task keeps its type.
THEOREM TypeCorrect == Spec => []TypeOK
  BY VehiclesSound, PTL DEF Inv

----------------------------------------------------------------------------
(***************************************************************************)
(* VehicleProfile implements ChangeRequestLifecycle: the insert, the       *)
(* decisions, the removal and the cascades are its steps, and what leaves  *)
(* the request rows alone is a stutter.                                    *)
(***************************************************************************)
LStatus == [r \in Requests |-> requests[r].status]
LSubject == [r \in Requests |-> requests[r].vehicle]

\* A status written over a request in the table is a Decide or an Overwrite.
LEMMA DecisionMaps ==
    ASSUME TypeOK, NEW r \in Requests, RequestExists(r),
           NEW decision \in Decisions,
           requests' = [requests EXCEPT ![r] =
                           [requests[r] EXCEPT !.status = decision]]
    PROVE  Lifecycle!LifecycleNext
<1>. requests[r] \in StoredRequest
  BY RequestRows DEF TypeOK, RequestExists
<1>1. LStatus' = [LStatus EXCEPT ![r] = decision] /\ LSubject' = LSubject
  BY DEF LStatus, LSubject, TypeOK, StoredRequest
<1>2. LStatus[r] \in RequestStatus
  BY DEF RequestExists, LStatus
<1>3. Lifecycle!Decide(r, decision) \/ Lifecycle!Overwrite(r, decision)
  BY <1>1, <1>2
     DEF Lifecycle!Decide, Lifecycle!Overwrite, Lifecycle!Decided, RequestStatus,
         Decisions, LStatus, LSubject
<1>4. QED
  BY <1>3 DEF Lifecycle!LifecycleNext, Lifecycle!StrictNext, Lifecycle!Decided,
              Decisions

\* The insert of a request is a FileRequest: the index keeps others away.
LEMMA CreateMaps ==
    ASSUME TypeOK, NEW h \in Handlers, SubmitCreate(h)
    PROVE  Lifecycle!LifecycleNext
<1>1. PICK v \in Vehicles : v = task[h].vehicle
  BY TaskShapes DEF SubmitCreate, SubmitTask
<1>2. PICK r \in Requests :
         /\ requests[r].status = "UNUSED"
         /\ requests' = [requests EXCEPT ![r] =
                [vehicle |-> v, status |-> "PENDING_REVIEW",
                 proposal |-> task[h].proposal]]
  BY <1>1 DEF SubmitCreate, WriteRequest
<1>3. LStatus' = [LStatus EXCEPT ![r] = "PENDING_REVIEW"]
      /\ LSubject' = [LSubject EXCEPT ![r] = v]
  BY <1>2 DEF LStatus, LSubject, TypeOK
<1>4. \A q \in Requests : ~(LStatus[q] = "PENDING_REVIEW" /\ LSubject[q] = v)
  BY <1>1 DEF SubmitCreate, PendingIndexAllows, PendingFor, Pending,
         LStatus, LSubject
<1>5. Lifecycle!FileRequest(r, v)
  BY <1>1, <1>2, <1>3, <1>4 DEF Lifecycle!FileRequest, LStatus, LSubject
<1>6. QED
  BY <1>5 DEF Lifecycle!LifecycleNext, Lifecycle!StrictNext

\* A request that is decided or gone.
Settled(r) == requests[r].status \in Decisions \cup {"DELETED"}

\* A handler that found a request decided and is about to remove it still
\* removes a decided one, since no step makes a request wait again.
RemovalsDecided ==
    \A h \in Handlers : task[h].op = "remove" => Settled(task[h].req)

\* The delete of a request is a Remove, because what it removes is decided.
LEMMA RemoveMaps ==
    ASSUME TypeOK, RemovalsDecided, NEW h \in Handlers, AdminRemoveDelete(h)
    PROVE  Lifecycle!LifecycleNext
<1>1. PICK r \in Requests : r = task[h].req
  BY TaskShapes DEF AdminRemoveDelete, RequestTask
<1>2. LStatus' = [LStatus EXCEPT ![r] = "DELETED"]
      /\ LSubject' = [LSubject EXCEPT ![r] = Null]
  BY <1>1 DEF AdminRemoveDelete, WriteRequest, NoRequest, LStatus, LSubject,
              TypeOK
<1>3. LStatus[r] \in Decisions
  BY <1>1 DEF AdminRemoveDelete, RemovalsDecided, Settled, RequestExists,
              RequestStatus, Decisions, LStatus
<1>4. Lifecycle!Remove(r)
  BY <1>2, <1>3
     DEF Lifecycle!Remove, Lifecycle!Decided, Decisions, LStatus, LSubject
<1>5. QED
  BY <1>4 DEF Lifecycle!LifecycleNext, Lifecycle!StrictNext

\* The cascade is a Purge of the vehicles that go.
LEMMA CascadeMaps ==
    ASSUME TypeOK, NEW S \in SUBSET Vehicles, Cascade(S)
    PROVE  Lifecycle!LifecycleNext
<1> DEFINE gone == {r \in Requests : LStatus[r] \in Lifecycle!Filed
                                        /\ LSubject[r] \in S}
<1>1. \A r \in Requests : r \in gone <=> requests[r].vehicle \in S
  BY RequestRows
     DEF TypeOK, StoredRequest, RequestStatus, Decisions,
         Lifecycle!Filed, Lifecycle!Decided, LStatus, LSubject
<1>2. LStatus' = [r \in Requests |-> IF r \in gone THEN "DELETED" ELSE LStatus[r]]
      /\ LSubject' = [r \in Requests |-> IF r \in gone THEN Null ELSE LSubject[r]]
  BY <1>1 DEF Cascade, NoRequest, LStatus, LSubject
<1>3. Lifecycle!Purge(S)
  BY <1>2 DEF Lifecycle!Purge, LStatus, LSubject
<1>4. QED
  BY <1>3 DEF Lifecycle!LifecycleNext, Lifecycle!StrictNext

\* The write of a vehicle touches no request row, its delete is a Purge.
LEMMA VehicleStepsMap ==
    ASSUME TypeOK, NEW h \in Handlers, VehicleSteps(h)
    PROVE  Lifecycle!LifecycleNext \/ UNCHANGED requests
<1>1. CASE DeleteVehicle(h)
  <2>1. {task[h].vehicle} \in SUBSET Vehicles
    BY <1>1, TaskShapes DEF DeleteVehicle, WriteTask
  <2>2. QED
    BY <1>1, <2>1, CascadeMaps DEF DeleteVehicle
<1>2. QED
  BY <1>1 DEF VehicleSteps, StartCreateVehicle, CreateVehicle,
              StartVehicleWrite, CheckPlate, UpdateVehicle, Start, Advance,
              WriteVehicle

\* Each step of a change-request handler maps to the lifecycle or stutters.
LEMMA RequestStepsMap ==
    ASSUME TypeOK, RemovalsDecided, NEW h \in Handlers, RequestSteps(h)
    PROVE  Lifecycle!LifecycleNext \/ UNCHANGED requests
<1>1. CASE CancelWrite(h) \/ ReviewReject(h) \/ ReviewAccept(h)
  <2>1. PICK r \in Requests : r = task[h].req /\ RequestExists(r)
    BY <1>1, TaskShapes DEF CancelWrite, ReviewReject, ReviewAccept, RequestTask
  <2>2. PICK decision \in Decisions :
           requests' = [requests EXCEPT ![r] =
                           [requests[r] EXCEPT !.status = decision]]
    BY <1>1, <2>1
       DEF CancelWrite, ReviewReject, ReviewAccept, WriteRequest, Decisions
  <2>3. QED
    BY <2>1, <2>2, DecisionMaps
<1>2. QED
  BY <1>1, CreateMaps, RemoveMaps
     DEF RequestSteps, Submit, FindExistingPending, CancelRead,
         ReviewReadRequest, AdminRemoveRead, ReviewReadVehicle, Start, Advance

\* Every step of the system maps to a step or a stutter of the lifecycle.
LEMMA StepMaps ==
    ASSUME TypeOK, RemovalsDecided, [Next]_vars
    PROVE  [Lifecycle!LifecycleNext]_(Lifecycle!lifecycleVars)
<1>1. Lifecycle!LifecycleNext \/ UNCHANGED requests
  <2>1. ASSUME NEW h \in Handlers, StatementSteps(h)
        PROVE  Lifecycle!LifecycleNext \/ UNCHANGED requests
    BY <2>1, CascadeMaps
       DEF StatementSteps, DeleteAllVehiclesForDriver, OwnedBy,
           ArchiveAllVehiclesForDriver, RestoreAllVehiclesForDriver,
           AdminApproveVehicle, AdminSetActive, SetVehicles
  <2>2. ASSUME NEW h \in Handlers, Abandon(h)
        PROVE  UNCHANGED requests
    BY <2>2 DEF Abandon
  <2>3. QED
    BY <2>1, <2>2, VehicleStepsMap, RequestStepsMap DEF Next, vars
<1>2. UNCHANGED requests => UNCHANGED Lifecycle!lifecycleVars
  BY DEF Lifecycle!lifecycleVars
<1>3. QED
  BY <1>1, <1>2

\* A request that is decided or gone stays so: the lifecycle has no way back.
LEMMA SettledStays ==
    ASSUME TypeOK, RemovalsDecided, [Next]_vars, NEW r \in Requests, Settled(r)
    PROVE  Settled(r)'
<1>1. LStatus[r] \in Lifecycle!Decided \cup {"DELETED"}
  BY DEF Settled, LStatus, Lifecycle!Decided, Decisions
<1>2. LStatus'[r] \in Lifecycle!Decided \cup {"DELETED"}
  <2> USE <1>1 DEF LStatus, Lifecycle!Decided, Lifecycle!Filed
  <2>1. ASSUME NEW q \in Requests, NEW s \in Vehicles, Lifecycle!FileRequest(q, s)
        PROVE  LStatus'[r] \in Lifecycle!Decided \cup {"DELETED"}
    BY <2>1 DEF Lifecycle!FileRequest
  <2>2. ASSUME NEW q \in Requests, NEW decision \in Lifecycle!Decided,
               Lifecycle!Decide(q, decision) \/ Lifecycle!Overwrite(q, decision)
        PROVE  LStatus'[r] \in Lifecycle!Decided \cup {"DELETED"}
    BY <2>2 DEF Lifecycle!Decide, Lifecycle!Overwrite
  <2>3. ASSUME NEW q \in Requests, Lifecycle!Remove(q)
        PROVE  LStatus'[r] \in Lifecycle!Decided \cup {"DELETED"}
    BY <2>3 DEF Lifecycle!Remove
  <2>4. ASSUME NEW S \in SUBSET Vehicles, Lifecycle!Purge(S)
        PROVE  LStatus'[r] \in Lifecycle!Decided \cup {"DELETED"}
    BY <2>4 DEF Lifecycle!Purge
  <2>5. CASE UNCHANGED Lifecycle!lifecycleVars
    BY <2>5 DEF Lifecycle!lifecycleVars
  <2>6. QED
    BY StepMaps, <2>1, <2>2, <2>3, <2>4, <2>5
       DEF Lifecycle!LifecycleNext, Lifecycle!StrictNext
<1>3. QED
  BY <1>2 DEF Settled, LStatus, Lifecycle!Decided, Decisions

\* A step gives a handler a removal only where AdminRemoveRead does.
LEMMA NewRemovals ==
    ASSUME TypeOK, [Next]_vars, NEW g \in Handlers, task'[g].op = "remove"
    PROVE  \/ task'[g] = task[g]
           \/ \E r \in Requests : AdminRemoveRead(g, r)
<1>1. ASSUME NEW h \in Handlers, NEW t, t.op # "remove",
             task' = [task EXCEPT ![h] = t]
      PROVE  task'[g] = task[g]
  BY <1>1 DEF TypeOK
<1>2. Idle.op # "remove"
  BY DEF Idle
<1>3. ASSUME NEW h \in Handlers, VehicleSteps(h)
      PROVE  task'[g] = task[g]
  <2>1. CASE CreateVehicle(h) \/ UpdateVehicle(h) \/ DeleteVehicle(h)
    BY <1>1, <1>2, <2>1
       DEF CreateVehicle, UpdateVehicle, DeleteVehicle, WriteVehicle, End
  <2>2. ASSUME NEW p \in Plates, CheckPlate(h, p)
        PROVE  task'[g] = task[g]
    <3>1. [task[h] EXCEPT !.op = "checked", !.plate = p].op = "checked"
      BY <2>2, TaskShapes DEF CheckPlate, WriteTask
    <3>2. QED
      BY <1>1, <2>2, <3>1 DEF CheckPlate, Advance
  <2>3. ASSUME NEW driver \in Drivers, NEW p \in Plates,
               StartCreateVehicle(h, driver, p)
        PROVE  task'[g] = task[g]
    BY <1>1, <2>3 DEF StartCreateVehicle, Start
  <2>4. ASSUME NEW op \in {"update", "delete"}, NEW role \in Roles,
               NEW v \in Vehicles, StartVehicleWrite(h, op, role, v)
        PROVE  task'[g] = task[g]
    BY <1>1, <2>4 DEF StartVehicleWrite, Start
  <2>5. QED
    BY <1>3, <2>1, <2>2, <2>3, <2>4 DEF VehicleSteps
<1>4. ASSUME NEW h \in Handlers, RequestSteps(h)
      PROVE  task'[g] = task[g] \/ \E r \in Requests : AdminRemoveRead(g, r)
  <2>1. CASE \E r \in Requests : AdminRemoveRead(h, r)
    BY <2>1 DEF AdminRemoveRead, Start, TypeOK
  <2>2. ASSUME NEW op \in {"free", "decidable"},
               task[h] \in SubmitTask \cup RequestTask,
               Advance(h, [task[h] EXCEPT !.op = op])
        PROVE  task'[g] = task[g]
    <3>1. [task[h] EXCEPT !.op = op].op # "remove"
      BY <2>2 DEF SubmitTask, RequestTask
    <3>2. QED
      BY <1>1, <2>2, <3>1 DEF Advance
  <2>3. CASE FindExistingPending(h) \/ ReviewReadVehicle(h)
    BY <2>2, <2>3, TaskShapes DEF FindExistingPending, ReviewReadVehicle
  <2>4. CASE \/ SubmitCreate(h) \/ CancelWrite(h) \/ ReviewAccept(h)
             \/ ReviewReject(h) \/ AdminRemoveDelete(h)
    BY <1>1, <1>2, <2>4
       DEF SubmitCreate, CancelWrite, ReviewAccept, ReviewReject,
           AdminRemoveDelete, WriteRequest, End
  <2>5. ASSUME NEW v \in Vehicles, Submit(h, v)
        PROVE  task'[g] = task[g]
    BY <1>1, <2>5 DEF Submit, Start
  <2>6. ASSUME NEW r \in Requests, CancelRead(h, r) \/ ReviewReadRequest(h, r)
        PROVE  task'[g] = task[g]
    BY <1>1, <2>6 DEF CancelRead, ReviewReadRequest, Start
  <2>7. QED
    BY <1>4, <2>1, <2>3, <2>4, <2>5, <2>6 DEF RequestSteps
<1>5. ASSUME NEW h \in Handlers, StatementSteps(h)
      PROVE  task'[g] = task[g]
  BY <1>5 DEF StatementSteps, DeleteAllVehiclesForDriver,
              ArchiveAllVehiclesForDriver, RestoreAllVehiclesForDriver,
              AdminApproveVehicle, AdminSetActive, SetVehicles
<1>6. ASSUME NEW h \in Handlers, Abandon(h)
      PROVE  task'[g] = task[g]
  BY <1>1, <1>2, <1>6 DEF Abandon, End
<1>7. QED
  BY <1>3, <1>4, <1>5, <1>6 DEF Next, vars

\* What a handler that is about to remove a request knows of it stays true:
\* with the types, RemovalsDecided is inductive.
THEOREM RemovalsStayDecided == Spec => []RemovalsDecided
<1>1. Init => RemovalsDecided
  BY DEF Init, RemovalsDecided, Idle
<1>2. TypeOK /\ TypeOK' /\ RemovalsDecided /\ [Next]_vars => RemovalsDecided'
  <2> SUFFICES ASSUME TypeOK, TypeOK', RemovalsDecided, [Next]_vars,
                      NEW g \in Handlers, task'[g].op = "remove"
               PROVE  Settled(task[g].req)'
    BY DEF RemovalsDecided, Settled
  <2>1. CASE task'[g] = task[g]
    <3>1. PICK r \in Requests : r = task[g].req
      BY <2>1, TaskShapes DEF RequestTask
    <3>2. Settled(r)
      BY <2>1, <3>1 DEF RemovalsDecided
    <3>3. Settled(r)'
      BY <3>2, SettledStays
    <3>4. QED
      BY <2>1, <3>1, <3>3 DEF Settled
  <2>2. ASSUME NEW r \in Requests, AdminRemoveRead(g, r)
        PROVE  Settled(task[g].req)'
    <3>1. task'[g].req = r /\ requests' = requests
      BY <2>2 DEF AdminRemoveRead, Start, TypeOK
    <3>2. Settled(r)
      BY <2>2 DEF AdminRemoveRead, Settled, RequestExists, Pending,
                  RequestStatus
    <3>3. QED
      BY <3>1, <3>2 DEF Settled
  <2>3. QED
    BY <2>1, <2>2, NewRemovals
<1>3. QED
  BY TypeCorrect, <1>1, <1>2, PTL DEF Spec

\* Every behaviour of the overlapping handlers, seen as the statuses and the
\* vehicles of the requests, is a behaviour of the abstract lifecycle.
THEOREM ImplementsLifecycle == Spec => RequestsFollowLifecycle
<1>1. Init => Lifecycle!LifecycleInit
  BY DEF Init, NoRequest, Lifecycle!LifecycleInit
<1>2. TypeOK /\ RemovalsDecided /\ [Next]_vars
        => [Lifecycle!LifecycleNext]_(Lifecycle!lifecycleVars)
  BY StepMaps
<1>3. QED
  BY TypeCorrect, RemovalsStayDecided, <1>1, <1>2, PTL
     DEF Spec, RequestsFollowLifecycle, Lifecycle!LifecycleSpec

\* At most one request waits for a vehicle, because the abstract lifecycle
\* has this property and the handlers implement it.
THEOREM OnePendingPerVehicle ==
    Spec => [](\A r, q \in Requests :
        Pending(r) /\ Pending(q) /\ requests[r].vehicle = requests[q].vehicle
            => r = q)
<1>1. Lifecycle!LifecycleSpec => []Lifecycle!LifecycleInv
  BY Lifecycle!LifecycleSafe
<1>2. Lifecycle!LifecycleInv => \A r, q \in Requests :
        Pending(r) /\ Pending(q) /\ requests[r].vehicle = requests[q].vehicle
            => r = q
  BY DEF Lifecycle!LifecycleInv, Lifecycle!OneWaitingPerSubject, Pending
<1>3. QED
  BY ImplementsLifecycle, <1>1, <1>2, PTL DEF RequestsFollowLifecycle

----------------------------------------------------------------------------
(***************************************************************************)
(* What accepting a request writes.                                        *)
(***************************************************************************)
\* A status becomes a decision only where a cancel or a review writes it.
LEMMA OnlyDecisions ==
    ASSUME TypeOK, [Next]_vars, NEW r \in Requests,
           requests'[r].status \in Decisions,
           requests'[r].status # requests[r].status
    PROVE  \E h \in Handlers :
              /\ r = task[h].req
              /\ \/ CancelWrite(h) /\ requests'[r].status = "CANCELLED"
                 \/ ReviewReject(h) /\ requests'[r].status = "REJECTED"
                 \/ ReviewAccept(h) /\ requests'[r].status = "ACCEPTED"
<1>1. ASSUME NEW S \in SUBSET Vehicles, Cascade(S)
      PROVE  FALSE
  BY <1>1 DEF Cascade, NoRequest, Decisions
<1>2. ASSUME NEW h \in Handlers, NEW q, NEW row, row.status \notin Decisions,
             WriteRequest(h, q, row)
      PROVE  FALSE
  BY <1>2 DEF WriteRequest, TypeOK
<1>3. requests' # requests
  OBVIOUS
<1>4. ASSUME NEW h \in Handlers, VehicleSteps(h)
      PROVE  FALSE
  <2>1. CASE DeleteVehicle(h)
    BY <1>1, <2>1, TaskShapes DEF DeleteVehicle, WriteTask
  <2>2. QED
    BY <1>3, <1>4, <2>1
       DEF VehicleSteps, StartCreateVehicle, CreateVehicle, StartVehicleWrite,
           CheckPlate, UpdateVehicle, Start, Advance, WriteVehicle
<1>5. ASSUME NEW h \in Handlers, RequestSteps(h)
      PROVE  /\ r = task[h].req
             /\ \/ CancelWrite(h) /\ requests'[r].status = "CANCELLED"
                \/ ReviewReject(h) /\ requests'[r].status = "REJECTED"
                \/ ReviewAccept(h) /\ requests'[r].status = "ACCEPTED"
  <2>1. CASE SubmitCreate(h)
    BY <1>2, <2>1 DEF SubmitCreate, Decisions
  <2>2. CASE CancelWrite(h) \/ ReviewReject(h) \/ ReviewAccept(h)
    <3>1. PICK q \in Requests : q = task[h].req /\ requests[q] \in StoredRequest
      BY <2>2, TaskShapes, DecisionTyped
         DEF CancelWrite, ReviewReject, ReviewAccept, Decisions
    <3>2. \/ /\ CancelWrite(h)
             /\ requests' = [requests EXCEPT ![q].status = "CANCELLED"]
          \/ /\ ReviewReject(h)
             /\ requests' = [requests EXCEPT ![q].status = "REJECTED"]
          \/ /\ ReviewAccept(h)
             /\ requests' = [requests EXCEPT ![q].status = "ACCEPTED"]
      BY <2>2, <3>1 DEF CancelWrite, ReviewReject, ReviewAccept, WriteRequest,
                        TypeOK
    <3>3. QED
      BY <3>1, <3>2 DEF TypeOK, StoredRequest
  <2>3. CASE AdminRemoveDelete(h)
    BY <1>2, <2>3 DEF AdminRemoveDelete, NoRequest, Decisions
  <2>4. QED
    BY <1>3, <1>5, <2>1, <2>2, <2>3
       DEF RequestSteps, Submit, FindExistingPending, CancelRead,
           ReviewReadRequest, AdminRemoveRead, ReviewReadVehicle, Start, Advance
<1>6. ASSUME NEW h \in Handlers, StatementSteps(h)
      PROVE  FALSE
  BY <1>1, <1>3, <1>6
     DEF StatementSteps, DeleteAllVehiclesForDriver, OwnedBy,
         ArchiveAllVehiclesForDriver, RestoreAllVehiclesForDriver,
         AdminApproveVehicle, AdminSetActive, SetVehicles
<1>7. QED
  BY <1>3, <1>4, <1>5, <1>6 DEF Next, Abandon, vars

\* The step that ends a review and changes a vehicle is its acceptance.
LEMMA ReviewChangesByAccepting ==
    ASSUME TypeOK, [Next]_vars, NEW h \in Handlers, task[h].op = "decidable",
           task'[h] = Idle, vehicles' # vehicles
    PROVE  ReviewAccept(h)
<1>1. task[h].op \notin {"idle", "create", "update", "checked", "delete", "submit",
                       "free", "cancel", "remove", "decide"}
  OBVIOUS
<1>2. task[h] # Idle /\ task'[h] # task[h]
  BY DEF Idle
<1>3. PICK g \in Handlers : VehicleSteps(g) \/ RequestSteps(g) \/ StatementSteps(g)
                              \/ Abandon(g)
  BY <1>2 DEF Next, vars
<1>4. ~StatementSteps(g)
  BY <1>2 DEF StatementSteps, DeleteAllVehiclesForDriver,
     ArchiveAllVehiclesForDriver, RestoreAllVehiclesForDriver,
     AdminApproveVehicle, AdminSetActive, SetVehicles
<1>5. ~Abandon(g)
  BY DEF Abandon
<1>6. ASSUME VehicleSteps(g)
      PROVE  FALSE
  <2>1. CASE CreateVehicle(g) \/ UpdateVehicle(g) \/ DeleteVehicle(g)
    <3>1. End(g) /\ task[g].op # "decidable"
      BY <2>1 DEF CreateVehicle, UpdateVehicle, DeleteVehicle, WriteVehicle
    <3>2. QED
      BY <1>2, <3>1 DEF End, TypeOK
  <2>2. QED
    BY <1>6, <2>1 DEF VehicleSteps, StartCreateVehicle, StartVehicleWrite, CheckPlate,
                      Start, Advance
<1>7. ASSUME RequestSteps(g)
      PROVE  ReviewAccept(h)
  <2>1. ReviewAccept(g)
    BY <1>7 DEF RequestSteps, Submit, FindExistingPending, SubmitCreate, CancelRead,
       ReviewReadRequest, AdminRemoveRead, CancelWrite, ReviewReadVehicle,
       ReviewReject, AdminRemoveDelete, Start, Advance, WriteRequest
  <2>2. g = h
    BY <1>2, <2>1 DEF ReviewAccept, End, TypeOK
  <2>3. QED
    BY <2>1, <2>2
<1>8. QED
  BY <1>3, <1>4, <1>5, <1>6, <1>7

\* Accepting a request writes exactly its proposal to its vehicle, and a
\* review that changes a vehicle accepts its request, with any number of
\* overlapping handlers.
THEOREM AcceptWritesProposal == Spec => AcceptWritesOnlyProposal
<1> DEFINE OnlyProposal(r) ==
        LET v == requests[r].vehicle
            proposal == requests[r].proposal
        IN /\ \A w \in Vehicles \ {v} : vehicles'[w] = vehicles[w]
           /\ vehicles'[v].isApproved = vehicles[v].isApproved
           /\ vehicles'[v].state = vehicles[v].state
           /\ \A f \in Fields : vehicles'[v].profile[f] =
                 IF f \in DOMAIN proposal THEN proposal[f]
                                          ELSE vehicles[v].profile[f]
<1>1. ASSUME Inv, [Next]_vars, NEW r \in Requests,
             requests'[r].status = "ACCEPTED", requests[r].status # "ACCEPTED"
      PROVE  OnlyProposal(r)
  <2> USE DEF Inv
  <2>1. PICK h \in Handlers : ReviewAccept(h) /\ r = task[h].req
    BY <1>1, OnlyDecisions DEF Decisions
  <2>2. requests[r] \in StoredRequest /\ RequestExists(r)
    BY <1>1, <2>1, RequestRows DEF ReviewAccept, TypeOK, RequestExists
  <2>3. PICK v \in Vehicles : v = requests[r].vehicle
    BY <2>2 DEF StoredRequest
  <2>4. vehicles[v] \in StoredVehicle
    BY <1>1, <2>2, <2>3, VehicleRows DEF RequestsHaveVehicle, Exists, TypeOK
  <2>5. vehicles' = [vehicles EXCEPT ![v] =
                        Applied(vehicles[v], requests[r].proposal)]
    BY <2>1, <2>3 DEF ReviewAccept
  <2>6. vehicles'[v] = Applied(vehicles[v], requests[r].proposal)
        /\ \A w \in Vehicles \ {v} : vehicles'[w] = vehicles[w]
    BY <1>1, <2>5 DEF TypeOK
  <2>7. QED
    BY <2>3, <2>4, <2>6 DEF Applied, StoredVehicle
<1>2. ASSUME Inv, [Next]_vars, NEW h \in Handlers, task[h].op = "decidable",
             task'[h] = Idle, vehicles' # vehicles
      PROVE  requests'[task[h].req].status = "ACCEPTED"
  <2>1. ReviewAccept(h)
    BY <1>2, ReviewChangesByAccepting DEF Inv
  <2>2. /\ task[h].req \in Requests
        /\ requests' = [requests EXCEPT ![task[h].req].status = "ACCEPTED"]
    BY <1>2, <2>1, TaskShapes DEF ReviewAccept, RequestTask, Inv
  <2>3. requests[task[h].req] \in StoredRequest
    BY <1>2, <2>1, <2>2, RequestRows DEF ReviewAccept, RequestExists, TypeOK, Inv
  <2>4. QED
    BY <1>2, <2>2, <2>3 DEF TypeOK, StoredRequest, Inv
<1>3. Inv /\ [Next]_vars =>
        [/\ \A r \in Requests :
             requests'[r].status = "ACCEPTED" /\ requests[r].status # "ACCEPTED"
                => OnlyProposal(r)
         /\ \A h \in Handlers :
             task[h].op = "decidable" /\ task'[h] = Idle /\ vehicles' # vehicles
                => requests'[task[h].req].status = "ACCEPTED"]_vars
  BY <1>1, <1>2
<1>4. QED
  BY VehiclesSound, <1>3, PTL DEF Spec, AcceptWritesOnlyProposal
=============================================================================
