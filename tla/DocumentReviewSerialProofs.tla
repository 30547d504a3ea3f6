--------------------- MODULE DocumentReviewSerialProofs ---------------------
(***************************************************************************)
(* What the document handlers promise by checks before their writes,       *)
(* proved for a server that works on one request at a time, whatever its   *)
(* documents and requests.  The vehicle may be archived, restored or       *)
(* deleted at any time all the same.  With two handlers these promises do  *)
(* not hold.                                                               *)
(***************************************************************************)
EXTENDS DocumentReviewProofs

\* The server is serial.
OneHandler == \E h : Handlers = {h}

(***************************************************************************)
(* What a handler has read is true until it ends, unless the vehicle went  *)
(* and took the row: its document has the status that was seen, its        *)
(* request still waits, and the document of a request that it may decide   *)
(* is still accepted.                                                      *)
(***************************************************************************)
StillAsSeen(t) ==
    t.op \in {"update", "delete"} /\ DocExists(t.doc) =>
        docs[t.doc].status = t.seen

StillWaits(t) ==
    t.op \in {"cancel", "decide", "decidable"} /\ RequestExists(t.req) =>
        Pending(t.req)

StillAccepted(t) ==
    t.op = "decidable" /\ RequestExists(t.req) =>
        docs[requests[t.req].target].status = "ACCEPTED"

ReadsAreFresh ==
    \A h \in Handlers : /\ StillAsSeen(task[h])
                        /\ StillWaits(task[h])
                        /\ StillAccepted(task[h])

\* A handler that has ended holds nothing that could be stale.
LEMMA IdleIsFresh ==
    ASSUME OneHandler, TypeOK, NEW h \in Handlers, End(h)
    PROVE  ReadsAreFresh'
  BY DEF OneHandler, End, Idle, TypeOK, ReadsAreFresh, StillAsSeen,
         StillWaits, StillAccepted

\* A handler that goes on without a write needs only its own task looked at.
LEMMA OwnReadsAreFresh ==
    ASSUME OneHandler, TypeOK, NEW h \in Handlers, NEW t,
           task' = [task EXCEPT ![h] = t],
           UNCHANGED <<vehicle, docs, requests>>,
           StillAsSeen(t), StillWaits(t), StillAccepted(t)
    PROVE  ReadsAreFresh'
<1>1. \A g \in Handlers : task'[g] = t
  BY DEF OneHandler, TypeOK
<1>2. QED
  BY <1>1 DEF ReadsAreFresh, StillAsSeen, StillWaits, StillAccepted,
              DocExists, RequestExists, Pending

\* The document handlers keep what they have read.
LEMMA DocumentStepsAreFresh ==
    ASSUME OneHandler, TypeOK, ReadsAreFresh, NEW h \in Handlers,
           DocumentSteps(h)
    PROVE  ReadsAreFresh'
<1> USE DEF StillAsSeen, StillWaits, StillAccepted
<1>1. ASSUME NEW role \in Roles, NEW kind \in Kinds, StartCreate(h, role, kind)
      PROVE  ReadsAreFresh'
  BY <1>1, OwnReadsAreFresh DEF StartCreate, Start
<1>2. ASSUME NEW op \in {"update", "delete"}, NEW role \in Roles,
             NEW d \in Docs, StartMutation(h, op, role, d)
      PROVE  ReadsAreFresh'
  BY <1>2, OwnReadsAreFresh DEF StartMutation, Start
<1>3. ASSUME NEW d \in Docs, StartReview(h, d)
      PROVE  ReadsAreFresh'
  BY <1>3, OwnReadsAreFresh DEF StartReview, Start
<1>4. CASE WriteRich(h) \/ WriteDocumentOnly(h) \/ AdminReviewDocument(h)
  BY <1>4, DocumentWritesAre, IdleIsFresh
<1>5. QED
  BY <1>1, <1>2, <1>3, <1>4 DEF DocumentSteps, StartDocTask

\* The change-request handlers keep what they have read.
LEMMA RequestStepsAreFresh ==
    ASSUME OneHandler, TypeOK, ReadsAreFresh, NEW h \in Handlers,
           RequestSteps(h)
    PROVE  ReadsAreFresh'
<1> USE DEF StillAsSeen, StillWaits, StillAccepted
<1>1. CASE StartSubmit(h)
  <2>1. PICK d \in Docs :
           Start(h, [op |-> "submit", doc |-> d, base |-> docs[d].content])
    BY <1>1 DEF StartSubmit, SubmitInspection, SubmitInsurance, SubmitPcoDoc,
                SubmitPermissionLetter, SubmitSchedule, SubmitLogBookV5, Submit
  <2>2. QED
    BY <2>1, OwnReadsAreFresh DEF Start
<1>2. ASSUME NEW op \in {"accepted", "free"}, task[h] \in SubmitTask,
             Advance(h, op)
      PROVE  ReadsAreFresh'
  <2>1. /\ task' = [task EXCEPT ![h] = [task[h] EXCEPT !.op = op]]
        /\ [task[h] EXCEPT !.op = op].op = op
    BY <1>2 DEF Advance, SubmitTask, TypeOK
  <2>2. QED
    BY <1>2, <2>1, OwnReadsAreFresh DEF Advance
<1>3. CASE AssertAcceptedTarget(h) \/ FindExistingPending(h)
  BY <1>2, <1>3, TaskSubjects DEF AssertAcceptedTarget, FindExistingPending
<1>4. ASSUME NEW r \in Requests,
             \/ CancelRead(h, r) \/ ReviewReadRequest(h, r)
             \/ AdminRemoveRead(h, r)
      PROVE  ReadsAreFresh'
  BY <1>4, OwnReadsAreFresh
     DEF CancelRead, ReviewReadRequest, AdminRemoveRead, Start
<1>5. CASE ReviewReadTarget(h)
  <2> DEFINE t == [task[h] EXCEPT !.op = "decidable"]
  <2>1. t.op = "decidable" /\ t.req = task[h].req
    BY <1>5, TaskSubjects DEF ReviewReadTarget, RequestTask
  <2>2. StillAsSeen(t) /\ StillWaits(t) /\ StillAccepted(t)
    BY <1>5, <2>1 DEF ReviewReadTarget, ReadsAreFresh
  <2>3. task' = [task EXCEPT ![h] = t]
    BY <1>5 DEF ReviewReadTarget, Advance, TypeOK
  <2> HIDE DEF t, StillAsSeen, StillWaits, StillAccepted
  <2>4. QED
    BY <1>5, <2>2, <2>3, OwnReadsAreFresh DEF ReviewReadTarget, Advance
<1>6. CASE \/ CreateChangeRequest(h) \/ CancelWrite(h) \/ ReviewAccept(h)
           \/ ReviewReject(h) \/ AdminRemoveDelete(h)
  BY <1>6, IdleIsFresh
     DEF CreateChangeRequest, CancelWrite, ReviewAccept, ReviewReject,
         AdminRemoveDelete, WriteRequest
<1>7. QED
  BY <1>1, <1>3, <1>4, <1>5, <1>6
     DEF RequestSteps, SubmitSteps, CancelSteps, ReviewSteps, RemoveSteps

\* The vehicle is archived and restored with every row as it is, and deleted
\* with every row.
LEMMA VehicleStepsAreFresh ==
    ASSUME TypeOK, ReadsAreFresh, ArchiveAll \/ RestoreAll \/ DeleteVehicle
    PROVE  ReadsAreFresh'
<1> USE DEF StillAsSeen, StillWaits, StillAccepted, ReadsAreFresh
<1>1. CASE ArchiveAll \/ RestoreAll
  BY <1>1 DEF ArchiveAll, RestoreAll, DocExists, RequestExists, Pending
<1>2. CASE DeleteVehicle
  <2>1. \A d \in Docs : ~DocExists(d)'
    BY <1>2, CascadeEmptiesTables
  <2>2. \A r \in Requests : ~RequestExists(r)'
    BY <1>2, CascadeEmptiesTables
  <2>3. \A h \in Handlers :
           /\ task[h].op \in {"update", "delete"} => task[h].doc \in Docs
           /\ task[h].op \in {"cancel", "decide", "decidable"}
                 => task[h].req \in Requests
    BY TaskSubjects DEF DocTask, RequestTask
  <2>4. task' = task
    BY <1>2 DEF DeleteVehicle
  <2>5. QED
    BY <2>1, <2>2, <2>3, <2>4 DEF DocExists, RequestExists
<1>3. QED
  BY <1>1, <1>2

\* What a handler has read is never stale when it writes, when there is no
\* other handler.
THEOREM SerialReadsAreFresh == OneHandler => (Spec => []ReadsAreFresh)
<1> SUFFICES ASSUME OneHandler
             PROVE  Spec => []ReadsAreFresh
  OBVIOUS
<1>1. Init => ReadsAreFresh
  BY DEF Init, Idle, ReadsAreFresh, StillAsSeen, StillWaits, StillAccepted
<1>2. TypeOK /\ ReadsAreFresh /\ [Next]_vars => ReadsAreFresh'
  <2> SUFFICES ASSUME TypeOK, ReadsAreFresh, [Next]_vars
               PROVE  ReadsAreFresh'
    OBVIOUS
  <2>1. ASSUME NEW h \in Handlers, Abandon(h)
        PROVE  ReadsAreFresh'
    BY <2>1, IdleIsFresh DEF Abandon
  <2>2. CASE UNCHANGED vars
    BY <2>2 DEF vars, ReadsAreFresh, StillAsSeen, StillWaits, StillAccepted,
                DocExists, RequestExists, Pending
  <2>3. QED
    BY <2>1, <2>2, DocumentStepsAreFresh, RequestStepsAreFresh,
       VehicleStepsAreFresh DEF Next
<1>3. QED
  BY TypeCorrect, <1>1, <1>2, PTL DEF Spec

----------------------------------------------------------------------------
(***************************************************************************)
(* The promises.                                                           *)
(***************************************************************************)
\* A document that a driver writes has the status that the handler read.
LEMMA DriversSeeTheStatus ==
    ASSUME TypeOK, ReadsAreFresh, [Next]_vars, NEW h \in Handlers,
           NEW d \in Docs, DriverWrites(h, d)
    PROVE  docs[d].status = task[h].seen
<1>1. DocExists(d)
  BY DriversUpdateOrDelete
<1>2. QED
  BY <1>1 DEF ReadsAreFresh, StillAsSeen, DriverWrites

\* A driver changes or deletes a document only while it is pending or
\* rejected: without another handler no read is stale.
THEOREM SerialDriversAreLockedOut ==
    OneHandler => (Spec => DriversMutateOnlyUnlocked)
<1> SUFFICES ASSUME OneHandler
             PROVE  Spec => DriversMutateOnlyUnlocked
  OBVIOUS
<1>1. /\ TypeOK /\ ReadsAreFresh /\ [Next]_vars
      /\ [\A h \in Handlers, d \in Docs :
             DriverWrites(h, d) /\ docs[d].status = task[h].seen
                 => docs[d].status \in {"PENDING", "REJECTED"}]_vars
      => [\A h \in Handlers, d \in Docs :
             DriverWrites(h, d) => docs[d].status \in {"PENDING", "REJECTED"}]_vars
  BY DriversSeeTheStatus
<1>2. QED
  BY TypeCorrect, SerialReadsAreFresh, OnlyStaleReadsUnlock, <1>1, PTL
     DEF Spec, DriversMutateOnlyUnlocked

\* A document whose content a driver has just changed waits for an admin
\* again.
THEOREM SerialResubmissionsAreQueued ==
    OneHandler => (Spec => ResubmissionIsQueued)
<1> SUFFICES ASSUME OneHandler
             PROVE  Spec => ResubmissionIsQueued
  OBVIOUS
<1>1. /\ TypeOK /\ ReadsAreFresh /\ [Next]_vars
      /\ [\A h \in Handlers, d \in Docs :
             DriverWrites(h, d) /\ docs[d].status = task[h].seen
               /\ DocExists(d)' /\ docs'[d].content # docs[d].content
                 => docs'[d].status = "PENDING"]_vars
      => [\A h \in Handlers, d \in Docs :
             DriverWrites(h, d) /\ DocExists(d)'
               /\ docs'[d].content # docs[d].content
                 => docs'[d].status = "PENDING"]_vars
  BY DriversSeeTheStatus
<1>2. QED
  BY TypeCorrect, SerialReadsAreFresh, OnlyStaleReadsSkipTheQueue, <1>1, PTL
     DEF Spec, ResubmissionIsQueued

\* A request is accepted or rejected only against an accepted document.
THEOREM SerialDecisionsNeedAcceptance ==
    OneHandler => (Spec => DecidedOnlyOnAcceptedTarget)
<1> SUFFICES ASSUME OneHandler
             PROVE  Spec => DecidedOnlyOnAcceptedTarget
  OBVIOUS
<1>1. ASSUME TypeOK, ReadsAreFresh, [Next]_vars, NEW r \in Requests, Pending(r),
             requests'[r].status \in {"ACCEPTED", "REJECTED"}
      PROVE  docs[requests[r].target].status = "ACCEPTED"
  <2>1. PICK h \in Handlers : r = task[h].req /\ task[h].op = "decidable"
    BY <1>1, OnlyDecisions DEF Decisions, Pending, ReviewAccept, ReviewReject
  <2>2. RequestExists(r)
    BY <1>1 DEF Pending, RequestExists, RequestStatus
  <2>3. QED
    BY <1>1, <2>1, <2>2 DEF ReadsAreFresh, StillAccepted
<1>2. TypeOK /\ ReadsAreFresh /\ [Next]_vars =>
         [\A r \in Requests :
             Pending(r) /\ requests'[r].status \in {"ACCEPTED", "REJECTED"}
                 => docs[requests[r].target].status = "ACCEPTED"]_vars
  BY <1>1
<1>3. QED
  BY TypeCorrect, SerialReadsAreFresh, <1>2, PTL
     DEF Spec, DecidedOnlyOnAcceptedTarget

\* A handler that writes a decision finds the request still waiting, so the
\* lifecycle never sees one decision over another.
LEMMA NothingIsOverwritten ==
    ASSUME TypeOK, ReadsAreFresh, [Next]_vars, NEW r \in Requests,
           NEW decision \in Lifecycle!Decided, Lifecycle!Overwrite(r, decision)
    PROVE  UNCHANGED Lifecycle!lifecycleVars
<1> USE DEF Lifecycle!Overwrite, Lifecycle!Decided, Decisions
<1>1. requests[r].status \in Decisions /\ requests'[r].status = decision
  OBVIOUS
<1>2. requests'[r].status = requests[r].status
  <2> SUFFICES ASSUME requests'[r].status # requests[r].status
               PROVE  FALSE
    OBVIOUS
  <2>1. PICK h \in Handlers :
           /\ r = task[h].req
           /\ task[h].op \in {"cancel", "decidable"}
    BY <1>1, OnlyDecisions DEF CancelWrite, ReviewReject, ReviewAccept
  <2>2. QED
    BY <1>1, <2>1
       DEF ReadsAreFresh, StillWaits, Pending, RequestExists, RequestStatus
<1>3. LStatus' = [LStatus EXCEPT ![r] = decision] /\ LSubject' = LSubject
  BY DEF LStatus, LSubject
<1>4. LStatus[r] = decision
  BY <1>1, <1>2 DEF LStatus
<1>5. LStatus' = LStatus
  BY <1>3, <1>4 DEF LStatus
<1>6. QED
  BY <1>3, <1>5 DEF LStatus, LSubject, Lifecycle!lifecycleVars

\* Each request is decided once: a serial server implements the strict
\* lifecycle.
THEOREM SerialDecisionsAreFinal == OneHandler => (Spec => DecisionsAreFinal)
<1> SUFFICES ASSUME OneHandler
             PROVE  Spec => DecisionsAreFinal
  OBVIOUS
<1>1. Init => Lifecycle!LifecycleInit
  BY DEF Init, NoRequest, Lifecycle!LifecycleInit
<1>2. ReviewInv /\ ReadsAreFresh /\ [Next]_vars
        => [Lifecycle!StrictNext]_(Lifecycle!lifecycleVars)
  BY StepMaps, NothingIsOverwritten DEF ReviewInv, Lifecycle!LifecycleNext
<1>3. QED
  BY RemovalsStayDecided, SerialReadsAreFresh, <1>1, <1>2, PTL
     DEF Spec, DecisionsAreFinal, Lifecycle!StrictSpec
=============================================================================
