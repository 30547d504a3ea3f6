--------------------------- MODULE VehicleProfile ---------------------------
(***************************************************************************)
(* The vehicle rows themselves: created and changed directly while they    *)
(* are not approved, through change requests afterwards, archived and      *)
(* restored with their driver, and deleted with the requests that hang     *)
(* from them.  vehicle.service.ts and vehicle-change-request.service.ts    *)
(* share the rows, and their handlers interleave at every await.           *)
(*                                                                         *)
(* A handler is a task, as in DocumentReview: it holds what the code has   *)
(* read, and ends with its write.                                          *)
(***************************************************************************)
EXTENDS Naturals, FiniteSets

CONSTANTS
    Vehicles,  \* ids of vehicle rows
    Drivers,   \* user ids of drivers
    Requests,  \* ids of vehicle_change_request rows
    Handlers,  \* concurrent HTTP requests; one handler is a serial server
    Fields,    \* the fields in use
    Plates,    \* normalised plate numbers
    Details,   \* make, model, year, colour, type and the two file columns
    Null

AllFields == {"plateNumber", "isActive", "details"}

ASSUME FieldsAssumption == Fields \subseteq AllFields
                             /\ "plateNumber" \in Fields
ASSUME NullAssumption == Null \notin Vehicles \cup Drivers

ValuesOf(f) == CASE f = "plateNumber" -> Plates
                 [] f = "isActive" -> BOOLEAN
                 [] f = "details" -> Details

AnyValue == Plates \cup BOOLEAN \cup Details

\* Some fields with a value each: what a dto carries and a request proposes.
Assignments(S) == {p \in [S -> AnyValue] : \A f \in S : p[f] \in ValuesOf(f)}
Profiles == Assignments(Fields)
Proposals == UNION {Assignments(S) : S \in (SUBSET Fields) \ {{}}}

Decisions == {"ACCEPTED", "REJECTED", "CANCELLED"}
RequestStatus == {"PENDING_REVIEW"} \cup Decisions
NoRow == {"UNUSED", "DELETED"}
Roles == {"DRIVER", "ADMIN"}

NoVehicle(s) == [state |-> s]
NoRequest(s) == [vehicle |-> Null, status |-> s]

StoredVehicle == [state : {"LIVE", "ARCHIVED"}, driver : Drivers,
                  isApproved : BOOLEAN, profile : Profiles]
VehicleRow == StoredVehicle \cup {NoVehicle(s) : s \in NoRow}
StoredRequest == [vehicle : Vehicles, status : RequestStatus,
                  proposal : Proposals]
RequestRow == StoredRequest \cup {NoRequest(s) : s \in NoRow}

VARIABLES
    vehicles,  \* the vehicle rows
    requests,  \* the change-request rows
    task       \* what each handler has read so far

vars == <<vehicles, requests, task>>

Idle == [op |-> "idle"]
CreateTask == [op : {"create"}, driver : Drivers, plate : Plates]
WriteTask == [op : {"update", "checked", "delete"}, role : Roles,
              vehicle : Vehicles, plate : Plates \cup {Null}]
SubmitTask == [op : {"submit", "free"}, vehicle : Vehicles,
               proposal : Proposals]
RequestTask == [op : {"cancel", "remove", "decide", "decidable"},
                req : Requests]
Tasks == {Idle} \cup CreateTask \cup WriteTask \cup SubmitTask
           \cup RequestTask

Exists(v) == vehicles[v].state \in {"LIVE", "ARCHIVED"}
Live(v) == vehicles[v].state = "LIVE"
PlateOf(v) == vehicles[v].profile["plateNumber"]
RequestExists(r) == requests[r].status \in RequestStatus
Pending(r) == requests[r].status = "PENDING_REVIEW"

Init ==
    /\ vehicles = [v \in Vehicles |-> NoVehicle("UNUSED")]
    /\ requests = [r \in Requests |-> NoRequest("UNUSED")]
    /\ task = [h \in Handlers |-> Idle]

Start(h, t) ==
    /\ task[h] = Idle
    /\ task' = [task EXCEPT ![h] = t]
    /\ UNCHANGED <<vehicles, requests>>

Advance(h, t) ==
    /\ task' = [task EXCEPT ![h] = t]
    /\ UNCHANGED <<vehicles, requests>>

End(h) == task' = [task EXCEPT ![h] = Idle]

WriteVehicle(h, v, row) ==
    /\ vehicles' = [vehicles EXCEPT ![v] = row]
    /\ End(h)
    /\ UNCHANGED requests

WriteRequest(h, r, row) ==
    /\ requests' = [requests EXCEPT ![r] = row]
    /\ End(h)
    /\ UNCHANGED vehicles

\* A handler whose only effect is one statement.
SetVehicles(h, rows) ==
    /\ task[h] = Idle
    /\ vehicles' = rows
    /\ UNCHANGED <<requests, task>>

\* onDelete: Cascade.
Cascade(S) ==
    /\ vehicles' = [v \in Vehicles |->
                      IF v \in S THEN NoVehicle("DELETED") ELSE vehicles[v]]
    /\ requests' = [r \in Requests |->
                      IF requests[r].vehicle \in S THEN NoRequest("DELETED")
                                                   ELSE requests[r]]

\* A handler that ends without writing: a check failed, the database or
\* another service refused, or the process died.
Abandon(h) ==
    /\ task[h] # Idle
    /\ End(h)
    /\ UNCHANGED <<vehicles, requests>>

----------------------------------------------------------------------------
(***************************************************************************)
(* Vehicles: create, update, delete.                                       *)
(***************************************************************************)

\* findFirst({plateNumber, isDeleted: false})
LiveHolders(p) == {v \in Vehicles : Live(v) /\ PlateOf(v) = p}

\* Mutant: the index leaves archived rows out, as the handlers' checks do.
PlateIndexOfLive(v, p) == LiveHolders(p) \subseteq {v}

\* plateNumber is @unique over all rows.
PlateIndexAllows(v, p) ==
    \A w \in Vehicles \ {v} : Exists(w) => PlateOf(w) # p

\* assertDriverMayMutateLiveVehicle
MayMutate(role, isApproved) == role = "ADMIN" \/ ~isApproved

StartCreateVehicle(h, driver, p) ==
    /\ LiveHolders(p) = {}
    /\ Start(h, [op |-> "create", driver |-> driver, plate |-> p])

CreateVehicle(h) ==
    /\ task[h].op = "create"
    /\ \E v \in Vehicles, profile \in Profiles :
          /\ vehicles[v].state = "UNUSED"
          /\ profile["plateNumber"] = task[h].plate
          /\ PlateIndexAllows(v, task[h].plate)
          /\ WriteVehicle(h, v, [state |-> "LIVE", driver |-> task[h].driver,
                                 isApproved |-> FALSE, profile |-> profile])

\* Mutant: the handler's search includes archived vehicles.
StartVehicleWriteAny(h, op, role, v) ==
    /\ Exists(v)
    /\ MayMutate(role, vehicles[v].isApproved)
    /\ Start(h, [op |-> op, role |-> role, vehicle |-> v, plate |-> Null])

StartVehicleWrite(h, op, role, v) ==
    /\ Live(v)
    /\ MayMutate(role, vehicles[v].isApproved)
    /\ Start(h, [op |-> op, role |-> role, vehicle |-> v, plate |-> Null])

\* Only when the dto carries a plate number.
CheckPlate(h, p) ==
    /\ task[h].op = "update"
    /\ LiveHolders(p) \subseteq {task[h].vehicle}
    /\ Advance(h, [task[h] EXCEPT !.op = "checked", !.plate = p])

\* The row is written by its id alone: it may have been approved or archived
\* since it was read.  Columns the dto omits are kept.
UpdateVehicle(h) ==
    /\ task[h].op \in {"update", "checked"}
    /\ LET v == task[h].vehicle
           plate == IF task[h].op = "checked" THEN task[h].plate ELSE PlateOf(v)
       IN /\ Exists(v)
          /\ PlateIndexAllows(v, plate)
          /\ \E profile \in Profiles :
                /\ profile["plateNumber"] = plate
                /\ WriteVehicle(h, v, [vehicles[v] EXCEPT !.profile = profile])

DeleteVehicle(h) ==
    /\ task[h].op = "delete"
    /\ Exists(task[h].vehicle)
    /\ Cascade({task[h].vehicle})
    /\ End(h)

----------------------------------------------------------------------------
(***************************************************************************)
(* user-service and the admins write with one statement each; what         *)
(* adminApproveVehicle and adminSetActive read first is only that the row  *)
(* exists, which the update itself requires.                               *)
(***************************************************************************)
OwnedBy(driver) == {v \in Vehicles : Exists(v) /\ vehicles[v].driver = driver}

WithActive(profile, active) ==
    [f \in Fields |-> IF f = "isActive" THEN active ELSE profile[f]]

DeleteAllVehiclesForDriver(h, driver) ==
    /\ task[h] = Idle
    /\ Cascade(OwnedBy(driver))
    /\ UNCHANGED task

Archived(row) == [row EXCEPT !.state = "ARCHIVED",
                             !.profile = WithActive(row.profile, FALSE)]
Restored(row) == [row EXCEPT !.state = "LIVE",
                             !.profile = WithActive(row.profile, TRUE)]

ArchiveAllVehiclesForDriver(h, driver) ==
    SetVehicles(h, [v \in Vehicles |->
                      IF v \in OwnedBy(driver) /\ Live(v)
                      THEN Archived(vehicles[v]) ELSE vehicles[v]])

RestoreAllVehiclesForDriver(h, driver) ==
    SetVehicles(h, [v \in Vehicles |->
                      IF v \in OwnedBy(driver) /\ ~Live(v)
                      THEN Restored(vehicles[v]) ELSE vehicles[v]])

\* The approval may set the vehicle type, one of the details.
AdminApproveVehicle(h, v, approved) ==
    /\ Exists(v)
    /\ \E profile \in Profiles :
          /\ \A f \in Fields \ {"details"} : profile[f] = vehicles[v].profile[f]
          /\ SetVehicles(h, [vehicles EXCEPT ![v].isApproved = approved,
                                             ![v].profile = profile])

AdminSetActive(h, v, active) ==
    /\ Exists(v)
    /\ SetVehicles(h, [vehicles EXCEPT ![v].profile = WithActive(@, active)])

----------------------------------------------------------------------------
(***************************************************************************)
(* Change requests.  The dto arrives with the request: what it changes is  *)
(* settled by the row read first, however late the insert.                 *)
(***************************************************************************)

\* computeVehicleChangedFields: what is proposed differs from the row.
Changes(row) == {p \in Proposals : \A f \in DOMAIN p : p[f] # row.profile[f]}

Submit(h, v) ==
    /\ Exists(v)
    /\ vehicles[v].isApproved
    /\ \E p \in Changes(vehicles[v]) :
          Start(h, [op |-> "submit", vehicle |-> v, proposal |-> p])

PendingFor(v) == {r \in Requests : Pending(r) /\ requests[r].vehicle = v}

FindExistingPending(h) ==
    /\ task[h].op = "submit"
    /\ PendingFor(task[h].vehicle) = {}
    /\ Advance(h, [task[h] EXCEPT !.op = "free"])

\* Mutant: the table has no partial unique index.
NoPendingIndex(v) == v \in Vehicles

\* The partial unique index on vehicleId.
PendingIndexAllows(v) == PendingFor(v) = {}

\* Mutant: the table does not refer to the vehicle.
NoVehicleReference(v) == v \in Vehicles

\* The foreign key on vehicleId.
VehicleReferenced(v) == Exists(v)

SubmitCreate(h) ==
    /\ task[h].op = "free"
    /\ VehicleReferenced(task[h].vehicle)
    /\ PendingIndexAllows(task[h].vehicle)
    /\ \E r \in Requests :
          /\ requests[r].status = "UNUSED"
          /\ WriteRequest(h, r, [vehicle |-> task[h].vehicle,
                                 status |-> "PENDING_REVIEW",
                                 proposal |-> task[h].proposal])

\* Mutant: cancel does not look at the status of the request.
CancelReadAny(h, r) ==
    /\ RequestExists(r)
    /\ Start(h, [op |-> "cancel", req |-> r])

CancelRead(h, r) ==
    /\ Pending(r)
    /\ Start(h, [op |-> "cancel", req |-> r])

\* Mutant: cancel writes a status that is not in the enum.
CancelWriteMisspelt(h) ==
    /\ task[h].op = "cancel"
    /\ RequestExists(task[h].req)
    /\ WriteRequest(h, task[h].req,
                    [requests[task[h].req] EXCEPT !.status = "CANCELED"])

CancelWrite(h) ==
    /\ task[h].op = "cancel"
    /\ RequestExists(task[h].req)
    /\ WriteRequest(h, task[h].req,
                    [requests[task[h].req] EXCEPT !.status = "CANCELLED"])

\* A review is one transaction at READ COMMITTED: its reads lock nothing, its
\* writes become visible together.
ReviewReadRequest(h, r) ==
    /\ Pending(r)
    /\ Start(h, [op |-> "decide", req |-> r])

\* Mutant: the review does not look at the approval.
ReviewReadVehicleAny(h) ==
    /\ task[h].op = "decide"
    /\ RequestExists(task[h].req)
    /\ Advance(h, [task[h] EXCEPT !.op = "decidable"])

ReviewReadVehicle(h) ==
    /\ task[h].op = "decide"
    /\ RequestExists(task[h].req)
    /\ vehicles[requests[task[h].req].vehicle].isApproved
    /\ Advance(h, [task[h] EXCEPT !.op = "decidable"])

\* Mutant: fields that were not proposed fall back to their defaults.
AppliedWithDefaults(row, proposal) ==
    [row EXCEPT !.profile = [f \in Fields |->
        IF f \in DOMAIN proposal THEN proposal[f]
        ELSE IF f = "isActive" THEN TRUE ELSE row.profile[f]]]

\* vehiclePayloadToPartialPrismaUpdate; what a request proposes is not empty.
Applied(row, proposal) ==
    [row EXCEPT !.profile = [f \in Fields |->
        IF f \in DOMAIN proposal THEN proposal[f] ELSE row.profile[f]]]

\* Mutant: the update of the request is not in the transaction of the update
\* of the vehicle, and may fail after it.
ReviewAcceptTorn(h) ==
    /\ task[h].op = "decidable"
    /\ LET r == task[h].req
           v == requests[r].vehicle
           row == Applied(vehicles[v], requests[r].proposal)
       IN /\ RequestExists(r)
          /\ PlateIndexAllows(v, row.profile["plateNumber"])
          /\ vehicles' = [vehicles EXCEPT ![v] = row]
          /\ requests' \in {requests, [requests EXCEPT ![r].status = "ACCEPTED"]}
    /\ End(h)

\* The search for a duplicate plate spans all rows, as the index does that
\* guards the write.
ReviewAccept(h) ==
    /\ task[h].op = "decidable"
    /\ LET r == task[h].req
           v == requests[r].vehicle
           row == Applied(vehicles[v], requests[r].proposal)
       IN /\ RequestExists(r)
          /\ PlateIndexAllows(v, row.profile["plateNumber"])
          /\ vehicles' = [vehicles EXCEPT ![v] = row]
          /\ requests' = [requests EXCEPT ![r].status = "ACCEPTED"]
    /\ End(h)

ReviewReject(h) ==
    /\ task[h].op = "decidable"
    /\ RequestExists(task[h].req)
    /\ WriteRequest(h, task[h].req,
                    [requests[task[h].req] EXCEPT !.status = "REJECTED"])

AdminRemoveRead(h, r) ==
    /\ RequestExists(r) /\ ~Pending(r)
    /\ Start(h, [op |-> "remove", req |-> r])

AdminRemoveDelete(h) ==
    /\ task[h].op = "remove"
    /\ RequestExists(task[h].req)
    /\ WriteRequest(h, task[h].req, NoRequest("DELETED"))

----------------------------------------------------------------------------
VehicleSteps(h) ==
    \/ \E driver \in Drivers, p \in Plates : StartCreateVehicle(h, driver, p)
    \/ CreateVehicle(h)
    \/ \E op \in {"update", "delete"}, role \in Roles, v \in Vehicles :
          StartVehicleWrite(h, op, role, v)
    \/ \E p \in Plates : CheckPlate(h, p)
    \/ UpdateVehicle(h)
    \/ DeleteVehicle(h)

RequestSteps(h) ==
    \/ \E v \in Vehicles : Submit(h, v)
    \/ FindExistingPending(h)
    \/ SubmitCreate(h)
    \/ \E r \in Requests : CancelRead(h, r) \/ ReviewReadRequest(h, r)
                             \/ AdminRemoveRead(h, r)
    \/ CancelWrite(h)
    \/ ReviewReadVehicle(h)
    \/ ReviewAccept(h)
    \/ ReviewReject(h)
    \/ AdminRemoveDelete(h)

StatementSteps(h) ==
    \/ \E driver \in Drivers :
          \/ DeleteAllVehiclesForDriver(h, driver)
          \/ ArchiveAllVehiclesForDriver(h, driver)
          \/ RestoreAllVehiclesForDriver(h, driver)
    \/ \E v \in Vehicles, b \in BOOLEAN :
          AdminApproveVehicle(h, v, b) \/ AdminSetActive(h, v, b)

Next == \E h \in Handlers :
    VehicleSteps(h) \/ RequestSteps(h) \/ StatementSteps(h) \/ Abandon(h)

Spec == Init /\ [][Next]_vars

----------------------------------------------------------------------------
(***************************************************************************)
(* Properties.                                                             *)
(***************************************************************************)

\* Every variable holds rows and tasks of the shapes the code writes.
TypeOK ==
    /\ vehicles \in [Vehicles -> VehicleRow]
    /\ requests \in [Requests -> RequestRow]
    /\ task \in [Handlers -> Tasks]

\* "Plate number already exists": two vehicles, archived ones included, never
\* carry one plate, whichever of createVehicle, updateVehicle, adminReview and
\* restoreAllVehiclesForDriver brought it and however their checks interleave.
PlatesUnique ==
    \A v, w \in Vehicles :
        Exists(v) /\ Exists(w) /\ PlateOf(v) = PlateOf(w) => v = w

\* A submission that read its vehicle before it was deleted leaves no request
\* behind: the foreign key refuses the insert that comes after the cascade.
RequestsHaveVehicle ==
    \A r \in Requests : RequestExists(r) => Exists(requests[r].vehicle)

\* Accepting a request writes its proposal to its vehicle in the same step
\* and nothing else, not what the driver saw of the other fields; and a review
\* that changes any vehicle accepts its request, or it would leave the change
\* behind with the request still open, to be rejected later.
AcceptWritesOnlyProposal ==
    [][/\ \A r \in Requests :
            requests'[r].status = "ACCEPTED" /\ requests[r].status # "ACCEPTED"
              => LET v == requests[r].vehicle
                     proposal == requests[r].proposal
                 IN /\ \A w \in Vehicles \ {v} : vehicles'[w] = vehicles[w]
                    /\ vehicles'[v].isApproved = vehicles[v].isApproved
                    /\ vehicles'[v].state = vehicles[v].state
                    /\ \A f \in Fields : vehicles'[v].profile[f] =
                          IF f \in DOMAIN proposal THEN proposal[f]
                                                   ELSE vehicles[v].profile[f]
       /\ \A h \in Handlers :
            task[h].op = "decidable" /\ task'[h] = Idle /\ vehicles' # vehicles
              => requests'[task[h].req].status = "ACCEPTED"]_vars

\* The handler of h ends with a driver's write to vehicle v.
DriverWrites(h, v) ==
    /\ task[h].op \in {"update", "checked", "delete"}
    /\ task[h].role = "DRIVER" /\ task[h].vehicle = v
    /\ task'[h] = Idle /\ vehicles'[v] # vehicles[v]

\* vehicle-mutation.policy.ts: "Drivers may mutate live vehicles only while
\* not yet approved by admin."
DriversChangeOnlyUnapproved ==
    [][\A h \in Handlers, v \in Vehicles :
          DriverWrites(h, v) => ~vehicles[v].isApproved]_vars

\* While handlers do not overlap, a driver writes neither to an approved
\* vehicle nor to one that was archived with its driver, although updates
\* and deletions go by id alone and approvals and archivings come between.
DriversMutateLiveUnapproved ==
    [][\A h \in Handlers, v \in Vehicles :
          DriverWrites(h, v) => Live(v) /\ ~vehicles[v].isApproved]_vars

\* adminReview: "Vehicle is no longer approved; cannot apply change request";
\* a request is accepted or rejected only while its vehicle is approved.
DecidedOnlyWhileApproved ==
    [][\A r \in Requests :
          Pending(r) /\ requests'[r].status \in {"ACCEPTED", "REJECTED"}
              => vehicles[requests[r].vehicle].isApproved]_vars

\* Each request is a request of the abstract lifecycle, its vehicle the
\* subject.
Lifecycle == INSTANCE ChangeRequestLifecycle WITH
    Subjects <- Vehicles,
    status <- [r \in Requests |-> requests[r].status],
    subject <- [r \in Requests |-> requests[r].vehicle]

\* Overlapping handlers file one request at a time for a vehicle, never
\* reopen a decided one and never remove a waiting one.
RequestsFollowLifecycle == Lifecycle!LifecycleSpec

\* Handled one after the other, requests are decided once.
DecisionsAreFinal == Lifecycle!StrictSpec
=============================================================================
