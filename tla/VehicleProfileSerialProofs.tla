--------------------- MODULE VehicleProfileSerialProofs ---------------------
(***************************************************************************)
(* What the vehicle handlers promise by checks before their writes, proved *)
(* for a server that works on one request at a time, whatever its vehicles *)
(* and requests.  With two handlers these promises do not hold.            *)
(***************************************************************************)
EXTENDS VehicleProfileProofs

\* The server is serial.
OneHandler == \E h : Handlers = {h}

(***************************************************************************)
(* What a handler has read and checked is true until it ends: its vehicle  *)
(* may still be changed by its caller, its request still waits, and the    *)
(* vehicle of a request it may decide is still approved.                   *)
(***************************************************************************)
StillMayMutate(t) ==
    t.op \in {"update", "checked", "delete"} =>
        Live(t.vehicle) /\ MayMutate(t.role, vehicles[t.vehicle].isApproved)

StillWaits(t) ==
    t.op \in {"cancel", "decide", "decidable"} => Pending(t.req)

StillApproved(t) ==
    t.op = "decidable" => vehicles[requests[t.req].vehicle].isApproved

ReadsAreFresh ==
    \A h \in Handlers : /\ StillMayMutate(task[h])
                        /\ StillWaits(task[h])
                        /\ StillApproved(task[h])

\* A handler that has ended holds nothing that could be stale.
LEMMA IdleIsFresh ==
    ASSUME OneHandler, TypeOK, NEW h \in Handlers, End(h)
    PROVE  ReadsAreFresh'
  BY DEF OneHandler, End, Idle, TypeOK, ReadsAreFresh, StillMayMutate,
         StillWaits, StillApproved

\* A handler that goes on without a write needs only its own task looked at.
LEMMA OwnReadsAreFresh ==
    ASSUME OneHandler, TypeOK, NEW h \in Handlers, NEW t,
           task' = [task EXCEPT ![h] = t], UNCHANGED <<vehicles, requests>>,
           StillMayMutate(t), StillWaits(t), StillApproved(t)
    PROVE  ReadsAreFresh'
<1>1. \A g \in Handlers : task'[g] = t
  BY DEF OneHandler, TypeOK
<1>2. QED
  BY <1>1 DEF ReadsAreFresh, StillMayMutate, StillWaits, StillApproved, Live,
              Pending

\* createVehicle, updateVehicle and deleteVehicle keep what they have read.
LEMMA VehicleStepsAreFresh ==
    ASSUME OneHandler, TypeOK, ReadsAreFresh, NEW h \in Handlers,
           VehicleSteps(h)
    PROVE  ReadsAreFresh'
<1> USE DEF StillMayMutate, StillWaits, StillApproved
<1>1. ASSUME NEW driver \in Drivers, NEW p \in Plates,
             StartCreateVehicle(h, driver, p)
      PROVE  ReadsAreFresh'
  BY <1>1, OwnReadsAreFresh DEF StartCreateVehicle, Start
<1>2. ASSUME NEW op \in {"update", "delete"}, NEW role \in Roles,
             NEW v \in Vehicles, StartVehicleWrite(h, op, role, v)
      PROVE  ReadsAreFresh'
  BY <1>2, OwnReadsAreFresh DEF StartVehicleWrite, Start
<1>3. ASSUME NEW p \in Plates, CheckPlate(h, p)
      PROVE  ReadsAreFresh'
  <2> DEFINE t == [task[h] EXCEPT !.op = "checked", !.plate = p]
  <2>1. t.op = "checked" /\ t.role = task[h].role /\ t.vehicle = task[h].vehicle
    BY <1>3, TaskShapes DEF CheckPlate, WriteTask
  <2>2. StillMayMutate(t) /\ StillWaits(t) /\ StillApproved(t)
    BY <1>3, <2>1 DEF CheckPlate, ReadsAreFresh
  <2> HIDE DEF t, StillMayMutate, StillWaits, StillApproved
  <2>3. QED
    BY <1>3, <2>2, OwnReadsAreFresh DEF CheckPlate, Advance, t
<1>4. CASE CreateVehicle(h) \/ UpdateVehicle(h) \/ DeleteVehicle(h)
  BY <1>4, IdleIsFresh
     DEF CreateVehicle, UpdateVehicle, DeleteVehicle, WriteVehicle
<1>5. QED
  BY <1>1, <1>2, <1>3, <1>4 DEF VehicleSteps

\* The change-request handlers keep what they have read.
LEMMA RequestStepsAreFresh ==
    ASSUME OneHandler, TypeOK, ReadsAreFresh, NEW h \in Handlers,
           RequestSteps(h)
    PROVE  ReadsAreFresh'
<1> USE DEF StillMayMutate, StillWaits, StillApproved
<1>1. ASSUME NEW v \in Vehicles, Submit(h, v)
      PROVE  ReadsAreFresh'
  BY <1>1, OwnReadsAreFresh DEF Submit, Start
<1>2. CASE FindExistingPending(h)
  <2>1. [task[h] EXCEPT !.op = "free"].op = "free"
    BY <1>2, TaskShapes DEF FindExistingPending, SubmitTask
  <2>2. QED
    BY <1>2, <2>1, OwnReadsAreFresh DEF FindExistingPending, Advance
<1>3. ASSUME NEW r \in Requests,
             \/ CancelRead(h, r) \/ ReviewReadRequest(h, r)
             \/ AdminRemoveRead(h, r)
      PROVE  ReadsAreFresh'
  BY <1>3, OwnReadsAreFresh
     DEF CancelRead, ReviewReadRequest, AdminRemoveRead, Start
<1>4. CASE ReviewReadVehicle(h)
  <2> DEFINE t == [task[h] EXCEPT !.op = "decidable"]
  <2>1. t.op = "decidable" /\ t.req = task[h].req
    BY <1>4, TaskShapes DEF ReviewReadVehicle, RequestTask
  <2>2. StillMayMutate(t) /\ StillWaits(t) /\ StillApproved(t)
    BY <1>4, <2>1 DEF ReviewReadVehicle, ReadsAreFresh
  <2> HIDE DEF t, StillMayMutate, StillWaits, StillApproved
  <2>3. QED
    BY <1>4, <2>2, OwnReadsAreFresh DEF ReviewReadVehicle, Advance, t
<1>5. CASE \/ SubmitCreate(h) \/ CancelWrite(h) \/ ReviewAccept(h)
           \/ ReviewReject(h) \/ AdminRemoveDelete(h)
  BY <1>5, IdleIsFresh
     DEF SubmitCreate, CancelWrite, ReviewAccept, ReviewReject,
         AdminRemoveDelete, WriteRequest
<1>6. QED
  BY <1>1, <1>2, <1>3, <1>4, <1>5 DEF RequestSteps

\* Approvals, archivings, restorings and cascades run while no handler is
\* between a read and its write.
LEMMA StatementStepsAreFresh ==
    ASSUME OneHandler, TypeOK, NEW h \in Handlers, StatementSteps(h)
    PROVE  ReadsAreFresh'
<1>1. task[h] = Idle /\ task' = task
  BY DEF StatementSteps, DeleteAllVehiclesForDriver,
         ArchiveAllVehiclesForDriver, RestoreAllVehiclesForDriver,
         AdminApproveVehicle, AdminSetActive, SetVehicles
<1>2. End(h)
  BY <1>1 DEF End, TypeOK
<1>3. QED
  BY <1>2, IdleIsFresh

\* What a handler has read is never stale when it writes, when there is no
\* other handler.
THEOREM SerialReadsAreFresh == OneHandler => (Spec => []ReadsAreFresh)
<1> SUFFICES ASSUME OneHandler
             PROVE  Spec => []ReadsAreFresh
  OBVIOUS
<1>1. Init => ReadsAreFresh
  BY DEF Init, Idle, ReadsAreFresh, StillMayMutate, StillWaits, StillApproved
<1>2. TypeOK /\ ReadsAreFresh /\ [Next]_vars => ReadsAreFresh'
  <2> SUFFICES ASSUME TypeOK, ReadsAreFresh, [Next]_vars
               PROVE  ReadsAreFresh'
    OBVIOUS
  <2>1. ASSUME NEW h \in Handlers, Abandon(h)
        PROVE  ReadsAreFresh'
    BY <2>1, IdleIsFresh DEF Abandon
  <2>2. CASE UNCHANGED vars
    BY <2>2 DEF vars, ReadsAreFresh, StillMayMutate, StillWaits, StillApproved,
                Live, Pending
  <2>3. QED
    BY <2>1, <2>2, VehicleStepsAreFresh, RequestStepsAreFresh,
       StatementStepsAreFresh DEF Next
<1>3. QED
  BY TypeCorrect, <1>1, <1>2, PTL DEF Spec

----------------------------------------------------------------------------
(***************************************************************************)
(* The promises.                                                           *)
(***************************************************************************)
\* A driver changes or deletes a vehicle only while it is live and not
\* approved.
THEOREM SerialDriversAreLockedOut ==
    OneHandler => (Spec => DriversMutateLiveUnapproved)
<1> SUFFICES ASSUME OneHandler
             PROVE  Spec => DriversMutateLiveUnapproved
  OBVIOUS
<1>1. ReadsAreFresh /\ [Next]_vars =>
         [\A h \in Handlers, v \in Vehicles :
             DriverWrites(h, v) => Live(v) /\ ~vehicles[v].isApproved]_vars
  BY DEF ReadsAreFresh, StillMayMutate, DriverWrites, MayMutate
<1>2. QED
  BY SerialReadsAreFresh, <1>1, PTL DEF Spec, DriversMutateLiveUnapproved

\* A request is accepted or rejected only while its vehicle is approved.
THEOREM SerialDecisionsNeedApproval ==
    OneHandler => (Spec => DecidedOnlyWhileApproved)
<1> SUFFICES ASSUME OneHandler
             PROVE  Spec => DecidedOnlyWhileApproved
  OBVIOUS
<1>1. ASSUME TypeOK, ReadsAreFresh, [Next]_vars, NEW r \in Requests, Pending(r),
             requests'[r].status \in {"ACCEPTED", "REJECTED"}
      PROVE  vehicles[requests[r].vehicle].isApproved
  <2>1. PICK h \in Handlers : r = task[h].req /\ task[h].op = "decidable"
    BY <1>1, OnlyDecisions DEF Decisions, Pending, ReviewAccept, ReviewReject
  <2>2. QED
    BY <1>1, <2>1 DEF ReadsAreFresh, StillApproved
<1>2. TypeOK /\ ReadsAreFresh /\ [Next]_vars =>
         [\A r \in Requests :
             Pending(r) /\ requests'[r].status \in {"ACCEPTED", "REJECTED"}
                 => vehicles[requests[r].vehicle].isApproved]_vars
  BY <1>1
<1>3. QED
  BY TypeCorrect, SerialReadsAreFresh, <1>2, PTL
     DEF Spec, DecidedOnlyWhileApproved

\* A handler that writes a decision finds the request still waiting, so the
\* lifecycle never sees one decision over another.
LEMMA NothingIsOverwritten ==
    ASSUME TypeOK, ReadsAreFresh, [Next]_vars, NEW r \in Requests,
           NEW decision \in Lifecycle!Decided, Lifecycle!Overwrite(r, decision)
    PROVE  UNCHANGED Lifecycle!lifecycleVars
<1> USE DEF Lifecycle!Overwrite, Lifecycle!Decided, Decisions
<1>1. requests[r].status \in Decisions /\ requests'[r].status = decision
  OBVIOUS
<1>2. requests'[r].status = requests[r].status
  <2> SUFFICES ASSUME requests'[r].status # requests[r].status
               PROVE  FALSE
    OBVIOUS
  <2>1. PICK h \in Handlers :
           /\ r = task[h].req
           /\ task[h].op \in {"cancel", "decidable"}
    BY <1>1, OnlyDecisions DEF CancelWrite, ReviewReject, ReviewAccept
  <2>2. QED
    BY <1>1, <2>1 DEF ReadsAreFresh, StillWaits, Pending
<1>3. LStatus' = [LStatus EXCEPT ![r] = decision] /\ LSubject' = LSubject
  BY DEF LStatus, LSubject
<1>4. LStatus[r] = decision
  BY <1>1, <1>2 DEF LStatus
<1>5. LStatus' = LStatus
  BY <1>3, <1>4 DEF LStatus
<1>6. QED
  BY <1>3, <1>5 DEF LStatus, LSubject, Lifecycle!lifecycleVars

\* Each request is decided once: a serial server implements the strict
\* lifecycle.
THEOREM SerialDecisionsAreFinal == OneHandler => (Spec => DecisionsAreFinal)
<1> SUFFICES ASSUME OneHandler
             PROVE  Spec => DecisionsAreFinal
  OBVIOUS
<1>1. Init => Lifecycle!LifecycleInit
  BY DEF Init, NoRequest, Lifecycle!LifecycleInit
<1>2. TypeOK /\ RemovalsDecided /\ ReadsAreFresh /\ [Next]_vars
        => [Lifecycle!StrictNext]_(Lifecycle!lifecycleVars)
  BY StepMaps, NothingIsOverwritten DEF Lifecycle!LifecycleNext
<1>3. QED
  BY TypeCorrect, RemovalsStayDecided, SerialReadsAreFresh, <1>1, <1>2, PTL
     DEF Spec, DecisionsAreFinal, Lifecycle!StrictSpec
=============================================================================
