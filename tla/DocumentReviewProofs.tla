------------------------ MODULE DocumentReviewProofs ------------------------
(***************************************************************************)
(* Theorems about DocumentReview for any sets of documents, requests,      *)
(* handlers, kinds and values.                                             *)
(***************************************************************************)
EXTENDS DocumentReview, TLAPS

(***************************************************************************)
(* Type correctness.  The actions write through Start, Advance, WriteDoc   *)
(* and WriteRequest; each of these keeps the types when what it writes is  *)
(* well formed, so an action has only its row or task to account for.      *)
(***************************************************************************)
LEMMA StartTyped ==
    ASSUME TypeOK, NEW h \in Handlers, NEW t \in Tasks, Start(h, t)
    PROVE  TypeOK'
  BY DEF TypeOK, Start

\* A handler that ends without writing leaves a well-typed state.
LEMMA AbandonTyped ==
    ASSUME TypeOK, NEW h \in Handlers, Abandon(h)
    PROVE  TypeOK'
  BY DEF TypeOK, Abandon, End, Tasks

\* The end of a document write keeps the types when the row written is one.
LEMMA WriteDocTyped ==
    ASSUME TypeOK, NEW h \in Handlers, NEW d \in Docs, NEW row \in DocRow,
           WriteDoc(h, d, row)
    PROVE  TypeOK'
  BY DEF TypeOK, WriteDoc, End, Tasks

\* The end of a request write keeps the types when the row written is one.
LEMMA WriteRequestTyped ==
    ASSUME TypeOK, NEW h \in Handlers, NEW r \in Requests,
           NEW row \in RequestRow, WriteRequest(h, r, row)
    PROVE  TypeOK'
  BY DEF TypeOK, WriteRequest, End, Tasks

\* The subject of a task is a row id, whichever handler runs it.
LEMMA TaskSubjects ==
    ASSUME TypeOK, NEW h \in Handlers
    PROVE  /\ task[h].op = "create" => task[h] \in CreateTask
           /\ task[h].op \in {"update", "delete"} => task[h] \in DocTask
           /\ task[h].op = "review" => task[h] \in DocReviewTask
           /\ task[h].op \in {"submit", "accepted", "free"}
                => task[h] \in SubmitTask
           /\ task[h].op \in {"cancel", "remove", "decide", "decidable"}
                => task[h] \in RequestTask
  BY DEF TypeOK, Tasks, Idle, CreateTask, DocTask, DocReviewTask, SubmitTask,
         RequestTask

\* Every document row has a content, and one in the table is a stored row.
LEMMA DocRows ==
    ASSUME NEW row \in DocRow
    PROVE  /\ row.content \in Content
           /\ row.status \in DocumentStatus => row \in StoredDoc
  BY NullAssumption
     DEF DocRow, StoredDoc, UnusedDoc, NoContent, Content, DocumentStatus

\* Every request row has a payload and a list, and one in the table is stored.
LEMMA RequestRows ==
    ASSUME NEW row \in RequestRow
    PROVE  /\ row.payload \in Content /\ row.changed \in SUBSET Fields
           /\ row.status \in RequestStatus => row \in StoredRequest
           /\ row \in StoredRequest => row.status \in RequestStatus
           /\ row.target \in Docs \cup {Null}
  BY NullAssumption
     DEF RequestRow, StoredRequest, NoRequest, NoContent, Content,
         RequestStatus, Decisions, NoRow

\* A deleted document is still a row.
LEMMA DeletedDocTyped ==
    ASSUME NEW row \in StoredDoc
    PROVE  DeletedDoc(row) \in DocRow
<1>1. NoContent \in Content
  BY NullAssumption DEF NoContent, Content
<1>2. DeletedDoc(row) \in StoredDoc
  BY <1>1 DEF DeletedDoc, StoredDoc
<1>3. QED
  BY <1>2 DEF DocRow

\* An id without a request is a row.
LEMMA NoRequestTyped ==
    ASSUME NEW s \in NoRow
    PROVE  NoRequest(s) \in RequestRow
  BY DEF RequestRow

\* The empty tables are well typed.
LEMMA InitTyped == Init => TypeOK
  BY NullAssumption, NoRequestTyped
     DEF Init, TypeOK, DocRow, NoRow, Tasks

\* create* inserts a well-typed document.
LEMMA CreateTyped ==
    ASSUME TypeOK, NEW h \in Handlers, NEW kind, Create(h, kind)
    PROVE  TypeOK'
<1>1. task[h] \in CreateTask /\ task[h].kind = kind
  BY TaskSubjects DEF Create
<1>2. PICK d \in Docs, s \in StatusOnCreate(task[h].role, kind), c \in Content :
         WriteDoc(h, d, [kind |-> kind, status |-> s, content |-> c])
  BY DEF Create, Storable
<1>3. [kind |-> kind, status |-> s, content |-> c] \in DocRow
  BY <1>1 DEF CreateTask, DocRow, StoredDoc, StatusOnCreate, DocumentStatus
<1>4. QED
  BY <1>2, <1>3, WriteDocTyped

\* update* leaves a well-typed document, whatever status it picks.
LEMMA UpdateTyped ==
    ASSUME TypeOK, NEW h \in Handlers, NEW kind, Update(h, kind)
    PROVE  TypeOK'
<1> DEFINE d == task[h].doc
<1>1. d \in Docs /\ docs[d] \in StoredDoc /\ docs[d].status \in DocumentStatus
  BY TaskSubjects, DocRows DEF Update, DocTask, TypeOK, DocExists
<1>2. PICK c \in Content, touched \in BOOLEAN :
         \E s \in StatusOnUpdate(task[h], docs[d], touched) :
            WriteDoc(h, d, [docs[d] EXCEPT !.status = s, !.content = c])
  BY DEF Update, Storable
<1>. PICK s \in StatusOnUpdate(task[h], docs[d], touched) :
         WriteDoc(h, d, [docs[d] EXCEPT !.status = s, !.content = c])
  BY <1>2
<1>3. s \in DocumentStatus
  BY <1>1 DEF StatusOnUpdate, DocumentStatus
<1>4. [docs[d] EXCEPT !.status = s, !.content = c] \in DocRow
  BY <1>1, <1>3 DEF DocRow, StoredDoc
<1>5. QED
  BY <1>1, <1>2, <1>4, WriteDocTyped

\* delete* leaves a well-typed row.
LEMMA DeleteTyped ==
    ASSUME TypeOK, NEW h \in Handlers, NEW kind, Delete(h, kind)
    PROVE  TypeOK'
<1>1. task[h].doc \in Docs /\ docs[task[h].doc] \in StoredDoc
  BY TaskSubjects, DocRows DEF Delete, DocTask, TypeOK, DocExists
<1>2. QED
  BY <1>1, DeletedDocTyped, WriteDocTyped DEF Delete

\* adminReview* leaves a well-typed document.
LEMMA ReviewTyped ==
    ASSUME TypeOK, NEW h \in Handlers, NEW kind, Review(h, kind)
    PROVE  TypeOK'
<1>1. task[h].doc \in Docs /\ docs[task[h].doc] \in StoredDoc
  BY TaskSubjects, DocRows DEF Review, DocReviewTask, TypeOK, DocExists
<1>2. PICK s \in DocumentStatus :
         WriteDoc(h, task[h].doc, [docs[task[h].doc] EXCEPT !.status = s])
  BY DEF Review
<1>3. [docs[task[h].doc] EXCEPT !.status = s] \in DocRow
  BY <1>1 DEF DocRow, StoredDoc
<1>4. QED
  BY <1>1, <1>2, <1>3, WriteDocTyped

\* The four families of document writes share their typing.
LEMMA DocumentWritesTyped ==
    ASSUME TypeOK, NEW h \in Handlers, DocumentSteps(h)
    PROVE  TypeOK'
<1>1. CASE StartDocTask(h)
  <2>1. ASSUME NEW role \in Roles, NEW kind \in Kinds,
               StartCreate(h, role, kind)
        PROVE  TypeOK'
    <3>1. [op |-> "create", role |-> role, kind |-> kind] \in Tasks
      BY DEF Tasks, CreateTask
    <3>2. QED
      BY <2>1, <3>1, StartTyped DEF StartCreate
  <2>2. ASSUME NEW op \in {"update", "delete"}, NEW role \in Roles,
               NEW d \in Docs, StartMutation(h, op, role, d)
        PROVE  TypeOK'
    <3>1. [op |-> op, role |-> role, doc |-> d, seen |-> docs[d].status]
             \in Tasks
      BY <2>2 DEF StartMutation, DocExists, Tasks, DocTask
    <3>2. QED
      BY <2>2, <3>1, StartTyped DEF StartMutation
  <2>3. ASSUME NEW d \in Docs, StartReview(h, d)
        PROVE  TypeOK'
    <3>1. [op |-> "review", doc |-> d] \in Tasks
      BY DEF Tasks, DocReviewTask
    <3>2. QED
      BY <2>3, <3>1, StartTyped DEF StartReview
  <2>4. QED
    BY <1>1, <2>1, <2>2, <2>3 DEF StartDocTask
<1>2. CASE WriteRich(h)
  BY <1>2, CreateTyped, UpdateTyped, DeleteTyped
     DEF WriteRich, CreateInspection, UpdateInspection, DeleteInspection,
         CreateInsurance, UpdateInsurance, DeleteInsurance,
         CreatePcoDoc, UpdatePcoDoc, DeletePcoDoc
<1>3. CASE WriteDocumentOnly(h)
  BY <1>3, CreateTyped, UpdateTyped, DeleteTyped
     DEF WriteDocumentOnly, CreateLogBookV5, UpdateLogBookV5, DeleteLogBookV5,
         CreatePermissionLetter, UpdatePermissionLetter,
         DeletePermissionLetter, CreateVehicleSchedule,
         UpdateVehicleSchedule, DeleteVehicleSchedule
<1>4. CASE AdminReviewDocument(h)
  BY <1>4, ReviewTyped
     DEF AdminReviewDocument, AdminReviewLogBookV5,
         AdminReviewPermissionLetter, AdminReviewVehicleSchedule
<1>5. QED
  BY <1>1, <1>2, <1>3, <1>4 DEF DocumentSteps

\* A submission starts a well-typed task: what it read is a content.
LEMMA SubmitTyped ==
    ASSUME TypeOK, NEW h \in Handlers, NEW d \in Docs, NEW kind,
           Submit(h, d, kind)
    PROVE  TypeOK'
<1>1. [op |-> "submit", doc |-> d, base |-> docs[d].content] \in Tasks
  BY DocRows DEF Tasks, SubmitTask, TypeOK
<1>2. QED
  BY <1>1, StartTyped DEF Submit

\* A task moves to a later phase of the same handler.
LEMMA AdvanceTyped ==
    ASSUME TypeOK, NEW h \in Handlers, NEW op,
           \/ task[h] \in SubmitTask /\ op \in {"accepted", "free"}
           \/ task[h] \in RequestTask /\ op = "decidable",
           Advance(h, op)
    PROVE  TypeOK'
<1>1. [task[h] EXCEPT !.op = op] \in Tasks
  <2>1. CASE task[h] \in SubmitTask /\ op \in {"accepted", "free"}
    BY <2>1 DEF Tasks, SubmitTask
  <2>2. CASE task[h] \in RequestTask /\ op = "decidable"
    BY <2>2 DEF Tasks, RequestTask
  <2>3. QED
    BY <2>1, <2>2
<1>2. task' = [task EXCEPT ![h] = [task[h] EXCEPT !.op = op]]
  BY DEF Advance
<1>3. QED
  BY <1>1, <1>2 DEF TypeOK, Advance

\* cancel, adminReview and adminRemove start well-typed tasks.
LEMMA RequestTaskTyped ==
    ASSUME NEW r \in Requests,
           NEW op \in {"cancel", "remove", "decide", "decidable"}
    PROVE  [op |-> op, req |-> r] \in Tasks
  BY DEF Tasks, RequestTask

\* Applying a stored request to a document gives a document.
LEMMA AppliedTyped ==
    ASSUME NEW row \in StoredDoc, NEW req \in StoredRequest
    PROVE  Applied(row, req) \in DocRow
<1> DEFINE written == IF req.changed # {} THEN req.changed ELSE Editable(row.kind)
           content == [f \in Fields |-> IF f \in written THEN req.payload[f]
                                                        ELSE row.content[f]]
<1>1. content \in Content
  BY DEF Content, StoredDoc, StoredRequest
<1>2. Applied(row, req) = [row EXCEPT !.content = content]
  BY DEF Applied
<1>3. QED
  BY <1>1, <1>2 DEF DocRow, StoredDoc

\* Every step of the change-request handlers keeps the types.
LEMMA RequestWritesTyped ==
    ASSUME TypeOK, NEW h \in Handlers, RequestSteps(h)
    PROVE  TypeOK'
<1>1. CASE StartSubmit(h)
  BY <1>1, SubmitTyped
     DEF StartSubmit, SubmitInspection, SubmitInsurance, SubmitPcoDoc,
         SubmitPermissionLetter, SubmitSchedule, SubmitLogBookV5
<1>2. CASE AssertAcceptedTarget(h)
  BY <1>2, TaskSubjects, AdvanceTyped DEF AssertAcceptedTarget
<1>3. CASE FindExistingPending(h)
  BY <1>3, TaskSubjects, AdvanceTyped DEF FindExistingPending
<1>4. CASE CreateChangeRequest(h)
  <2>1. task[h] \in SubmitTask
    BY <1>4, TaskSubjects DEF CreateChangeRequest
  <2>2. PICK r \in Requests, p \in Content :
           /\ ChangedFields(task[h].base, p) # {}
           /\ WriteRequest(h, r, [target |-> task[h].doc,
                                  status |-> "PENDING_REVIEW",
                                  payload |-> p,
                                  changed |-> ChangedFields(task[h].base, p)])
    BY <1>4 DEF CreateChangeRequest
  <2>3. ChangedFields(task[h].base, p) \in (SUBSET Fields) \ {{}}
    BY <2>2 DEF ChangedFields
  <2>4. [target |-> task[h].doc, status |-> "PENDING_REVIEW",
         payload |-> p, changed |-> ChangedFields(task[h].base, p)]
           \in RequestRow
    BY <2>1, <2>3 DEF SubmitTask, RequestRow, StoredRequest, RequestStatus
  <2>5. QED
    BY <2>2, <2>4, WriteRequestTyped
<1>5. CASE CancelSteps(h)
  <2>1. CASE CancelWrite(h)
    <3>1. task[h].req \in Requests /\ requests[task[h].req] \in StoredRequest
      BY <2>1, TaskSubjects, RequestRows
         DEF CancelWrite, RequestTask, RequestExists, TypeOK
    <3>2. [requests[task[h].req] EXCEPT !.status = "CANCELLED"] \in RequestRow
      BY <3>1 DEF RequestRow, StoredRequest, RequestStatus, Decisions
    <3>3. QED
      BY <2>1, <3>1, <3>2, WriteRequestTyped DEF CancelWrite
  <2>2. ASSUME NEW r \in Requests, CancelRead(h, r)
        PROVE  TypeOK'
    BY <2>2, RequestTaskTyped, StartTyped DEF CancelRead
  <2>3. QED
    BY <1>5, <2>1, <2>2 DEF CancelSteps
<1>6. CASE ReviewSteps(h)
  <2>1. ASSUME NEW r \in Requests, ReviewReadRequest(h, r)
        PROVE  TypeOK'
    BY <2>1, RequestTaskTyped, StartTyped DEF ReviewReadRequest
  <2>2. CASE ReviewReadTarget(h)
    BY <2>2, TaskSubjects, AdvanceTyped DEF ReviewReadTarget
  <2>3. CASE ReviewAccept(h)
    <3> DEFINE r == task[h].req
               d == requests[r].target
    <3>1. /\ r \in Requests /\ requests[r] \in StoredRequest
          /\ d \in Docs /\ docs[d] \in StoredDoc
      BY <2>3, TaskSubjects, RequestRows, DocRows
         DEF ReviewAccept, RequestTask, RequestExists, DocExists, TypeOK,
             StoredRequest
    <3>2. docs' = [docs EXCEPT ![d] = Applied(docs[d], requests[r])]
      BY <2>3 DEF ReviewAccept
    <3>3. docs' \in [Docs -> DocRow]
      BY <3>1, <3>2, AppliedTyped DEF TypeOK
    <3>4. requests' = [requests EXCEPT ![r].status = "ACCEPTED"]
      BY <2>3 DEF ReviewAccept
    <3>5. [requests[r] EXCEPT !.status = "ACCEPTED"] \in RequestRow
      BY <3>1 DEF RequestRow, StoredRequest, RequestStatus, Decisions
    <3>6. requests' \in [Requests -> RequestRow]
      BY <3>1, <3>4, <3>5 DEF TypeOK
    <3>7. task' \in [Handlers -> Tasks] /\ vehicle' = vehicle
      BY <2>3 DEF ReviewAccept, End, TypeOK, Tasks
    <3>8. QED
      BY <3>3, <3>6, <3>7 DEF TypeOK
  <2>4. CASE ReviewReject(h)
    <3>1. task[h].req \in Requests /\ requests[task[h].req] \in StoredRequest
      BY <2>4, TaskSubjects, RequestRows
         DEF ReviewReject, RequestTask, RequestExists, TypeOK
    <3>2. [requests[task[h].req] EXCEPT !.status = "REJECTED"] \in RequestRow
      BY <3>1 DEF RequestRow, StoredRequest, RequestStatus, Decisions
    <3>3. QED
      BY <2>4, <3>1, <3>2, WriteRequestTyped DEF ReviewReject
  <2>5. QED
    BY <1>6, <2>1, <2>2, <2>3, <2>4 DEF ReviewSteps
<1>7. CASE RemoveSteps(h)
  <2>1. CASE AdminRemoveDelete(h)
    <3>1. task[h].req \in Requests
      BY <2>1, TaskSubjects DEF AdminRemoveDelete, RequestTask
    <3>2. QED
      BY <2>1, <3>1, NoRequestTyped, WriteRequestTyped
         DEF AdminRemoveDelete, NoRow
  <2>2. ASSUME NEW r \in Requests, AdminRemoveRead(h, r)
        PROVE  TypeOK'
    BY <2>2, RequestTaskTyped, StartTyped DEF AdminRemoveRead
  <2>3. QED
    BY <1>7, <2>1, <2>2 DEF RemoveSteps
<1>8. QED
  BY <1>1, <1>2, <1>3, <1>4, <1>5, <1>6, <1>7 DEF RequestSteps, SubmitSteps

\* Archiving, restoring and deleting the vehicle keep the types.
LEMMA VehicleStepsTyped ==
    ASSUME TypeOK, ArchiveAll \/ RestoreAll \/ DeleteVehicle
    PROVE  TypeOK'
<1>1. CASE ArchiveAll \/ RestoreAll
  BY <1>1 DEF ArchiveAll, RestoreAll, TypeOK
<1>2. CASE DeleteVehicle
  BY <1>2, DeletedDocTyped, NoRequestTyped, DocRows
     DEF DeleteVehicle, TypeOK, NoRow, DocExists
<1>3. QED
  BY <1>1, <1>2

\* Every row and every task keeps its type, whatever the handlers do.
THEOREM TypeCorrect == Spec => []TypeOK
<1>1. TypeOK /\ [Next]_vars => TypeOK'
  <2> SUFFICES ASSUME TypeOK, [Next]_vars
               PROVE  TypeOK'
    OBVIOUS
  <2>1. CASE UNCHANGED vars
    BY <2>1 DEF vars, TypeOK
  <2>2. CASE Next
    BY <2>2, DocumentWritesTyped, RequestWritesTyped, AbandonTyped,
       VehicleStepsTyped DEF Next
  <2>3. QED
    BY <2>1, <2>2
<1>2. QED
  BY InitTyped, <1>1, PTL DEF Spec

----------------------------------------------------------------------------
(***************************************************************************)
(* DocumentReview implements ChangeRequestLifecycle.  A step that leaves   *)
(* the request rows alone is a stutter of the lifecycle; the others are    *)
(* the insert, the three decisions, the removal and the vehicle's cascade. *)
(***************************************************************************)
LStatus == [r \in Requests |-> requests[r].status]
LSubject == [r \in Requests |-> requests[r].target]

\* A status written over a request in the table is a Decide or an Overwrite.
LEMMA DecisionMaps ==
    ASSUME TypeOK, NEW r \in Requests, RequestExists(r),
           NEW decision \in Decisions,
           requests' = [requests EXCEPT ![r] =
                           [requests[r] EXCEPT !.status = decision]]
    PROVE  Lifecycle!LifecycleNext
<1>. requests[r] \in StoredRequest
  BY RequestRows DEF TypeOK, RequestExists
<1>1. LStatus' = [LStatus EXCEPT ![r] = decision] /\ LSubject' = LSubject
  BY DEF LStatus, LSubject, TypeOK, StoredRequest
<1>2. LStatus[r] \in RequestStatus
  BY DEF RequestExists, LStatus
<1>3. Lifecycle!Decide(r, decision) \/ Lifecycle!Overwrite(r, decision)
  BY <1>1, <1>2
     DEF Lifecycle!Decide, Lifecycle!Overwrite, Lifecycle!Decided, RequestStatus,
         Decisions, LStatus, LSubject
<1>4. QED
  BY <1>3 DEF Lifecycle!LifecycleNext, Lifecycle!StrictNext, Lifecycle!Decided,
              Decisions

\* The insert of a request is a FileRequest: the index keeps others away.
LEMMA CreateMaps ==
    ASSUME TypeOK, NEW h \in Handlers, CreateChangeRequest(h)
    PROVE  Lifecycle!LifecycleNext
<1>1. PICK d \in Docs : d = task[h].doc
  BY TaskSubjects DEF CreateChangeRequest, SubmitTask
<1>2. PICK r \in Requests, p \in Content :
         /\ requests[r].status = "UNUSED"
         /\ requests' = [requests EXCEPT ![r] =
                [target |-> d, status |-> "PENDING_REVIEW", payload |-> p,
                 changed |-> ChangedFields(task[h].base, p)]]
  BY <1>1 DEF CreateChangeRequest, WriteRequest
<1>3. LStatus' = [LStatus EXCEPT ![r] = "PENDING_REVIEW"]
      /\ LSubject' = [LSubject EXCEPT ![r] = d]
  BY <1>2 DEF LStatus, LSubject, TypeOK
<1>4. \A q \in Requests : ~(LStatus[q] = "PENDING_REVIEW" /\ LSubject[q] = d)
  BY <1>1 DEF CreateChangeRequest, PendingIndexAllows, PendingFor, Pending,
         LStatus, LSubject
<1>5. Lifecycle!FileRequest(r, d)
  BY <1>1, <1>2, <1>3, <1>4 DEF Lifecycle!FileRequest, LStatus, LSubject
<1>6. QED
  BY <1>5 DEF Lifecycle!LifecycleNext, Lifecycle!StrictNext

\* A handler that found a request decided and is about to remove it still
\* removes a decided one, since no step makes a request wait again.
RemovalsDecided ==
    \A h \in Handlers : task[h].op = "remove" =>
        requests[task[h].req].status \in Decisions \cup {"DELETED"}

\* The delete of a request is a Remove, because what it removes is decided.
LEMMA RemoveMaps ==
    ASSUME TypeOK, RemovalsDecided, NEW h \in Handlers, AdminRemoveDelete(h)
    PROVE  Lifecycle!LifecycleNext
<1>1. PICK r \in Requests : r = task[h].req
  BY TaskSubjects DEF AdminRemoveDelete, RequestTask
<1>2. LStatus' = [LStatus EXCEPT ![r] = "DELETED"]
      /\ LSubject' = [LSubject EXCEPT ![r] = Null]
  BY <1>1 DEF AdminRemoveDelete, WriteRequest, NoRequest, LStatus, LSubject,
              TypeOK
<1>3. LStatus[r] \in Decisions
  BY <1>1 DEF AdminRemoveDelete, RemovalsDecided, RequestExists, RequestStatus,
              Decisions, LStatus
<1>4. Lifecycle!Remove(r)
  BY <1>2, <1>3
     DEF Lifecycle!Remove, Lifecycle!Decided, Decisions, LStatus, LSubject
<1>5. QED
  BY <1>4 DEF Lifecycle!LifecycleNext, Lifecycle!StrictNext

\* The cascade is a Purge of every document.
LEMMA DeleteVehicleMaps ==
    ASSUME TypeOK, DeleteVehicle
    PROVE  Lifecycle!LifecycleNext
<1> DEFINE gone == {r \in Requests : LStatus[r] \in Lifecycle!Filed
                                        /\ LSubject[r] \in Docs}
<1>1. \A r \in Requests : r \in gone <=> RequestExists(r)
  BY RequestRows
     DEF RequestExists, TypeOK, StoredRequest, RequestStatus, Decisions,
         Lifecycle!Filed, Lifecycle!Decided, LStatus, LSubject
<1>2. LStatus' = [r \in Requests |-> IF r \in gone THEN "DELETED" ELSE LStatus[r]]
      /\ LSubject' = [r \in Requests |-> IF r \in gone THEN Null ELSE LSubject[r]]
  BY <1>1 DEF DeleteVehicle, NoRequest, LStatus, LSubject
<1>3. Lifecycle!Purge(Docs)
  BY <1>2 DEF Lifecycle!Purge, LStatus, LSubject
<1>4. QED
  BY <1>3 DEF Lifecycle!LifecycleNext, Lifecycle!StrictNext

\* A document write touches no request row.
LEMMA DocumentStepsStutter ==
    ASSUME NEW h \in Handlers, DocumentSteps(h)
    PROVE  UNCHANGED requests
  BY DEF DocumentSteps, StartDocTask, StartCreate, StartMutation, StartReview,
         Start, WriteRich, WriteDocumentOnly, AdminReviewDocument,
         CreateInspection, UpdateInspection, DeleteInspection,
         CreateInsurance, UpdateInsurance, DeleteInsurance,
         CreatePcoDoc, UpdatePcoDoc, DeletePcoDoc,
         CreateLogBookV5, UpdateLogBookV5, DeleteLogBookV5,
         CreatePermissionLetter, UpdatePermissionLetter,
         DeletePermissionLetter, CreateVehicleSchedule,
         UpdateVehicleSchedule, DeleteVehicleSchedule,
         AdminReviewLogBookV5, AdminReviewPermissionLetter,
         AdminReviewVehicleSchedule, Create, Update, Delete, Review, WriteDoc

\* Each step of a change-request handler maps to the lifecycle or stutters.
LEMMA RequestStepsMap ==
    ASSUME TypeOK, RemovalsDecided, NEW h \in Handlers, RequestSteps(h)
    PROVE  Lifecycle!LifecycleNext \/ UNCHANGED requests
<1>1. CASE StartSubmit(h) \/ AssertAcceptedTarget(h) \/ FindExistingPending(h)
  BY <1>1 DEF StartSubmit, SubmitInspection, SubmitInsurance, SubmitPcoDoc,
              SubmitPermissionLetter, SubmitSchedule, SubmitLogBookV5, Submit,
              Start, AssertAcceptedTarget, FindExistingPending, Advance
<1>2. CASE CreateChangeRequest(h)
  BY <1>2, CreateMaps
<1>3. CASE CancelSteps(h)
  <2>1. CASE CancelWrite(h)
    <3>1. PICK r \in Requests : r = task[h].req
      BY <2>1, TaskSubjects DEF CancelWrite, RequestTask
    <3>2. QED
      BY <2>1, <3>1, DecisionMaps DEF CancelWrite, WriteRequest, Decisions
  <2>2. QED
    BY <1>3, <2>1 DEF CancelSteps, CancelRead, Start
<1>4. CASE ReviewSteps(h)
  <2>1. CASE ReviewAccept(h) \/ ReviewReject(h)
    <3>1. PICK r \in Requests : r = task[h].req
      BY <2>1, TaskSubjects DEF ReviewAccept, ReviewReject, RequestTask
    <3>2. QED
      BY <2>1, <3>1, DecisionMaps
         DEF ReviewAccept, ReviewReject, WriteRequest, Decisions
  <2>2. QED
    BY <1>4, <2>1 DEF ReviewSteps, ReviewReadRequest, ReviewReadTarget, Start,
                      Advance
<1>5. CASE RemoveSteps(h)
  BY <1>5, RemoveMaps DEF RemoveSteps, AdminRemoveRead, Start
<1>6. QED
  BY <1>1, <1>2, <1>3, <1>4, <1>5 DEF RequestSteps, SubmitSteps

\* Every step of the system maps to a step or a stutter of the lifecycle.
LEMMA StepMaps ==
    ASSUME TypeOK, RemovalsDecided, [Next]_vars
    PROVE  [Lifecycle!LifecycleNext]_(Lifecycle!lifecycleVars)
<1>1. Lifecycle!LifecycleNext \/ UNCHANGED requests
  <2>1. ASSUME NEW h \in Handlers, Abandon(h)
        PROVE  UNCHANGED requests
    BY <2>1 DEF Abandon
  <2>2. ArchiveAll \/ RestoreAll => UNCHANGED requests
    BY DEF ArchiveAll, RestoreAll
  <2>3. UNCHANGED vars => UNCHANGED requests
    BY DEF vars
  <2>4. QED
    BY <2>1, <2>2, <2>3, DocumentStepsStutter, RequestStepsMap,
       DeleteVehicleMaps DEF Next
<1>2. UNCHANGED requests => UNCHANGED Lifecycle!lifecycleVars
  BY DEF Lifecycle!lifecycleVars
<1>3. QED
  BY <1>1, <1>2

----------------------------------------------------------------------------
(***************************************************************************)
(* RemovalsDecided is inductive: no lifecycle step reopens a request, and  *)
(* a handler comes to remove a request only by finding it decided.         *)
(***************************************************************************)
Settled(r) == requests[r].status \in Decisions \cup {"DELETED"}

\* A request that is decided or gone stays so: the lifecycle has no way back.
LEMMA SettledStays ==
    ASSUME TypeOK, RemovalsDecided, [Next]_vars, NEW r \in Requests, Settled(r)
    PROVE  Settled(r)'
<1>1. LStatus[r] \in Lifecycle!Decided \cup {"DELETED"}
  BY DEF Settled, LStatus, Lifecycle!Decided, Decisions
<1>2. LStatus'[r] \in Lifecycle!Decided \cup {"DELETED"}
  <2> USE <1>1 DEF LStatus, Lifecycle!Decided, Lifecycle!Filed
  <2>1. ASSUME NEW q \in Requests, NEW s \in Docs, Lifecycle!FileRequest(q, s)
        PROVE  LStatus'[r] \in Lifecycle!Decided \cup {"DELETED"}
    BY <2>1 DEF Lifecycle!FileRequest
  <2>2. ASSUME NEW q \in Requests, NEW decision \in Lifecycle!Decided,
               Lifecycle!Decide(q, decision) \/ Lifecycle!Overwrite(q, decision)
        PROVE  LStatus'[r] \in Lifecycle!Decided \cup {"DELETED"}
    BY <2>2 DEF Lifecycle!Decide, Lifecycle!Overwrite
  <2>3. ASSUME NEW q \in Requests, Lifecycle!Remove(q)
        PROVE  LStatus'[r] \in Lifecycle!Decided \cup {"DELETED"}
    BY <2>3 DEF Lifecycle!Remove
  <2>4. ASSUME NEW S \in SUBSET Docs, Lifecycle!Purge(S)
        PROVE  LStatus'[r] \in Lifecycle!Decided \cup {"DELETED"}
    BY <2>4 DEF Lifecycle!Purge
  <2>5. CASE UNCHANGED Lifecycle!lifecycleVars
    BY <2>5 DEF Lifecycle!lifecycleVars
  <2>6. QED
    BY StepMaps, <2>1, <2>2, <2>3, <2>4, <2>5
       DEF Lifecycle!LifecycleNext, Lifecycle!StrictNext
<1>3. QED
  BY <1>2 DEF Settled, LStatus, Lifecycle!Decided, Decisions

\* A step of a handler leaves the tasks of the others alone, and gives the
\* handler a removal only where AdminRemoveRead does.
LEMMA NewRemovals ==
    ASSUME TypeOK, [Next]_vars, NEW g \in Handlers, task'[g].op = "remove"
    PROVE  \/ task'[g] = task[g]
           \/ \E r \in Requests : AdminRemoveRead(g, r)
<1>1. ASSUME NEW h \in Handlers, DocumentSteps(h)
      PROVE  task'[g] = task[g]
  <2>1. CASE StartDocTask(h)
    BY <2>1 DEF StartDocTask, StartCreate, StartMutation, StartReview, Start,
                TypeOK
  <2>2. CASE WriteRich(h) \/ WriteDocumentOnly(h) \/ AdminReviewDocument(h)
    <3>1. ASSUME NEW kind,
                 \/ Create(h, kind) \/ Update(h, kind)
                 \/ Delete(h, kind) \/ Review(h, kind)
          PROVE  End(h)
      BY <3>1 DEF Create, Update, Delete, Review, WriteDoc
    <3>2. End(h)
      BY <2>2, <3>1
         DEF WriteRich, WriteDocumentOnly,
             AdminReviewDocument, CreateInspection, UpdateInspection,
             DeleteInspection, CreateInsurance, UpdateInsurance,
             DeleteInsurance, CreatePcoDoc, UpdatePcoDoc, DeletePcoDoc,
             CreateLogBookV5, UpdateLogBookV5, DeleteLogBookV5,
             CreatePermissionLetter, UpdatePermissionLetter,
             DeletePermissionLetter, CreateVehicleSchedule,
             UpdateVehicleSchedule, DeleteVehicleSchedule,
             AdminReviewLogBookV5, AdminReviewPermissionLetter,
             AdminReviewVehicleSchedule
    <3>3. QED
      BY <3>2 DEF End, Idle, TypeOK
  <2>3. QED
    BY <1>1, <2>1, <2>2 DEF DocumentSteps
<1>2. ASSUME NEW h \in Handlers, RequestSteps(h)
      PROVE  task'[g] = task[g] \/ \E r \in Requests : AdminRemoveRead(g, r)
  <2>1. CASE \E r \in Requests : AdminRemoveRead(h, r)
    BY <2>1 DEF AdminRemoveRead, Start, TypeOK
  <2>2. ASSUME NEW t, task' = [task EXCEPT ![h] = t], t.op # "remove"
        PROVE  task'[g] = task[g]
    BY <2>2 DEF TypeOK
  <2>3. CASE StartSubmit(h)
    <3>1. PICK d \in Docs :
             Start(h, [op |-> "submit", doc |-> d, base |-> docs[d].content])
      BY <2>3
         DEF StartSubmit, SubmitInspection, SubmitInsurance, SubmitPcoDoc,
             SubmitPermissionLetter, SubmitSchedule, SubmitLogBookV5, Submit
    <3>2. [op |-> "submit", doc |-> d, base |-> docs[d].content].op # "remove"
      OBVIOUS
    <3>3. QED
      BY <2>2, <3>1, <3>2 DEF Start
  <2>4. CASE \E r \in Requests : CancelRead(h, r) \/ ReviewReadRequest(h, r)
    <3>1. PICK r \in Requests, op \in {"cancel", "decide"} :
             Start(h, [op |-> op, req |-> r])
      BY <2>4 DEF CancelRead, ReviewReadRequest
    <3>2. [op |-> op, req |-> r].op # "remove"
      BY <3>1
    <3>3. QED
      BY <2>2, <3>1, <3>2 DEF Start
  <2>5. CASE \/ AssertAcceptedTarget(h) \/ FindExistingPending(h)
             \/ ReviewReadTarget(h)
    <3>1. task[h] \in SubmitTask \cup RequestTask
      BY <2>5, TaskSubjects
         DEF AssertAcceptedTarget, FindExistingPending, ReviewReadTarget
    <3>2. PICK op \in {"accepted", "free", "decidable"} :
             task' = [task EXCEPT ![h].op = op]
      BY <2>5 DEF AssertAcceptedTarget, FindExistingPending, ReviewReadTarget,
                  Advance
    <3>3. QED
      BY <3>1, <3>2 DEF TypeOK, SubmitTask, RequestTask
  <2>6. CASE \/ CreateChangeRequest(h) \/ CancelWrite(h) \/ ReviewAccept(h)
             \/ ReviewReject(h) \/ AdminRemoveDelete(h)
    <3>1. End(h)
      BY <2>6 DEF CreateChangeRequest, CancelWrite, ReviewAccept,
                  ReviewReject, AdminRemoveDelete, WriteRequest
    <3>2. QED
      BY <2>2, <3>1 DEF End, Idle
  <2>7. QED
    BY <1>2, <2>1, <2>3, <2>4, <2>5, <2>6
       DEF RequestSteps, SubmitSteps, CancelSteps, ReviewSteps, RemoveSteps
<1>3. ASSUME NEW h \in Handlers, Abandon(h)
      PROVE  task'[g] = task[g]
  BY <1>3 DEF Abandon, End, Idle, TypeOK
<1>4. ArchiveAll \/ RestoreAll \/ DeleteVehicle \/ UNCHANGED vars
        => task'[g] = task[g]
  BY DEF ArchiveAll, RestoreAll, DeleteVehicle, vars
<1>5. QED
  BY <1>1, <1>2, <1>3, <1>4 DEF Next

ReviewInv == TypeOK /\ RemovalsDecided

\* What a handler that is about to remove a request knows of it stays true:
\* TypeOK /\ RemovalsDecided is inductive.
THEOREM RemovalsStayDecided == Spec => []ReviewInv
<1>1. Init => ReviewInv
  <2>1. Init => RemovalsDecided
    BY DEF Init, RemovalsDecided, Idle
  <2>2. QED
    BY <2>1, InitTyped DEF ReviewInv
<1>2. TypeOK /\ TypeOK' /\ RemovalsDecided /\ [Next]_vars => RemovalsDecided'
  <2> SUFFICES ASSUME TypeOK, TypeOK', RemovalsDecided, [Next]_vars,
                      NEW g \in Handlers, task'[g].op = "remove"
               PROVE  Settled(task[g].req)'
    BY DEF RemovalsDecided, Settled
  <2>1. CASE task'[g] = task[g]
    <3>1. PICK r \in Requests : r = task[g].req
      BY <2>1, TaskSubjects DEF RequestTask
    <3>2. Settled(r)
      BY <2>1, <3>1 DEF RemovalsDecided, Settled
    <3>3. Settled(r)'
      BY <3>2, SettledStays
    <3>4. QED
      BY <2>1, <3>1, <3>3 DEF Settled
  <2>2. ASSUME NEW r \in Requests, AdminRemoveRead(g, r)
        PROVE  Settled(task[g].req)'
    <3>1. task'[g].req = r /\ requests' = requests
      BY <2>2 DEF AdminRemoveRead, Start, TypeOK
    <3>2. Settled(r)
      BY <2>2 DEF AdminRemoveRead, Settled, RequestExists, Pending,
                  RequestStatus
    <3>3. QED
      BY <3>1, <3>2 DEF Settled
  <2>3. QED
    BY <2>1, <2>2, NewRemovals
<1>3. QED
  BY TypeCorrect, <1>1, <1>2, PTL DEF Spec, ReviewInv

\* Every behaviour of the overlapping handlers, seen as the statuses and the
\* targets of the requests, is a behaviour of the abstract lifecycle.
THEOREM ImplementsLifecycle == Spec => RequestsFollowLifecycle
<1>1. Init => Lifecycle!LifecycleInit
  BY DEF Init, NoRequest, Lifecycle!LifecycleInit
<1>2. ReviewInv /\ [Next]_vars
        => [Lifecycle!LifecycleNext]_(Lifecycle!lifecycleVars)
  BY StepMaps DEF ReviewInv
<1>3. QED
  BY RemovalsStayDecided, <1>1, <1>2, PTL
     DEF Spec, RequestsFollowLifecycle, Lifecycle!LifecycleSpec

\* At most one request waits for a document, because the abstract lifecycle
\* has this property and the handlers implement it.
THEOREM OnePending == Spec => []OnePendingPerTarget
<1>1. Lifecycle!LifecycleSpec => []Lifecycle!LifecycleInv
  BY Lifecycle!LifecycleSafe
<1>2. Lifecycle!LifecycleInv => OnePendingPerTarget
  BY DEF Lifecycle!LifecycleInv, Lifecycle!OneWaitingPerSubject,
         OnePendingPerTarget, Pending
<1>3. QED
  BY ImplementsLifecycle, <1>1, <1>2, PTL DEF RequestsFollowLifecycle

----------------------------------------------------------------------------
(***************************************************************************)
(* What accepting a request writes.                                        *)
(***************************************************************************)
\* A status becomes a decision only where a cancel or a review writes it.
LEMMA OnlyDecisions ==
    ASSUME TypeOK, [Next]_vars, NEW r \in Requests,
           requests'[r].status \in Decisions,
           requests'[r].status # requests[r].status
    PROVE  \E h \in Handlers :
              /\ task[h].req = r
              /\ \/ CancelWrite(h) /\ requests'[r].status = "CANCELLED"
                 \/ ReviewReject(h) /\ requests'[r].status = "REJECTED"
                 \/ ReviewAccept(h) /\ requests'[r].status = "ACCEPTED"
<1>1. requests' # requests
  OBVIOUS
<1>2. ASSUME NEW h \in Handlers, NEW q, NEW row, WriteRequest(h, q, row),
             row.status \notin Decisions
      PROVE  FALSE
  BY <1>2 DEF WriteRequest, TypeOK
<1>3. ASSUME NEW h \in Handlers, RequestSteps(h)
      PROVE  /\ task[h].req = r
             /\ \/ CancelWrite(h) /\ requests'[r].status = "CANCELLED"
                \/ ReviewReject(h) /\ requests'[r].status = "REJECTED"
                \/ ReviewAccept(h) /\ requests'[r].status = "ACCEPTED"
  <2>1. CASE StartSubmit(h) \/ AssertAcceptedTarget(h) \/ FindExistingPending(h)
    BY <1>1, <2>1
       DEF StartSubmit, SubmitInspection, SubmitInsurance, SubmitPcoDoc,
           SubmitPermissionLetter, SubmitSchedule, SubmitLogBookV5, Submit,
           Start, AssertAcceptedTarget, FindExistingPending, Advance
  <2>2. CASE CreateChangeRequest(h)
    BY <1>2, <2>2 DEF CreateChangeRequest, Decisions
  <2>3. CASE CancelWrite(h) \/ ReviewReject(h) \/ ReviewAccept(h)
    <3>1. PICK q \in Requests : q = task[h].req /\ requests[q] \in StoredRequest
      BY <2>3, TaskSubjects, RequestRows
         DEF CancelWrite, ReviewReject, ReviewAccept, RequestTask,
             RequestExists, TypeOK
    <3>2. \/ /\ CancelWrite(h)
             /\ requests' = [requests EXCEPT ![q].status = "CANCELLED"]
          \/ /\ ReviewReject(h)
             /\ requests' = [requests EXCEPT ![q].status = "REJECTED"]
          \/ /\ ReviewAccept(h)
             /\ requests' = [requests EXCEPT ![q].status = "ACCEPTED"]
      BY <2>3, <3>1
         DEF CancelWrite, ReviewReject, ReviewAccept, WriteRequest, TypeOK
    <3>3. QED
      BY <3>1, <3>2 DEF TypeOK, StoredRequest
  <2>4. CASE AdminRemoveDelete(h)
    BY <1>2, <2>4 DEF AdminRemoveDelete, NoRequest, Decisions
  <2>5. QED
    BY <1>1, <1>3, <2>1, <2>2, <2>3, <2>4
       DEF RequestSteps, SubmitSteps, CancelSteps, CancelRead, ReviewSteps,
           ReviewReadRequest, ReviewReadTarget, RemoveSteps, AdminRemoveRead,
           Start, Advance
<1>4. ASSUME NEW h \in Handlers, DocumentSteps(h) \/ Abandon(h)
      PROVE  FALSE
  BY <1>1, <1>4, DocumentStepsStutter DEF Abandon
<1>5. ~(ArchiveAll \/ RestoreAll \/ UNCHANGED vars)
  BY <1>1 DEF ArchiveAll, RestoreAll, vars
<1>6. ~DeleteVehicle
  BY DEF DeleteVehicle, NoRequest, Decisions
<1>7. QED
  BY <1>3, <1>4, <1>5, <1>6 DEF Next

\* The step that ends a review and changes a document is its acceptance.
LEMMA ReviewChangesByAccepting ==
    ASSUME TypeOK, [Next]_vars, NEW h \in Handlers, task[h].op = "decidable",
           task'[h] = Idle, docs' # docs
    PROVE  ReviewAccept(h)
<1>1. task[h] # Idle /\ task'[h] # task[h]
  BY DEF Idle
<1>2. PICK g \in Handlers : DocumentSteps(g) \/ RequestSteps(g) \/ Abandon(g)
  BY <1>1 DEF Next, vars, ArchiveAll, RestoreAll, DeleteVehicle
<1>3. ~Abandon(g)
  BY DEF Abandon
<1>4. ASSUME DocumentSteps(g)
      PROVE  FALSE
  <2>1. CASE StartDocTask(g)
    BY <2>1 DEF StartDocTask, StartCreate, StartMutation, StartReview, Start
  <2>2. CASE WriteRich(g) \/ WriteDocumentOnly(g) \/ AdminReviewDocument(g)
    <3>1. End(g) /\ task[g].op # "decidable"
      BY <2>2 DEF WriteRich, WriteDocumentOnly, AdminReviewDocument,
         CreateInspection, UpdateInspection, DeleteInspection,
         CreateInsurance, UpdateInsurance, DeleteInsurance,
         CreatePcoDoc, UpdatePcoDoc, DeletePcoDoc,
         CreateLogBookV5, UpdateLogBookV5, DeleteLogBookV5,
         CreatePermissionLetter, UpdatePermissionLetter, DeletePermissionLetter,
         CreateVehicleSchedule, UpdateVehicleSchedule, DeleteVehicleSchedule,
         AdminReviewLogBookV5, AdminReviewPermissionLetter,
         AdminReviewVehicleSchedule, Create, Update, Delete, Review, WriteDoc
    <3>2. QED
      BY <1>1, <3>1 DEF End, TypeOK
  <2>3. QED
    BY <1>4, <2>1, <2>2 DEF DocumentSteps
<1>5. ASSUME RequestSteps(g)
      PROVE  ReviewAccept(h)
  <2>1. ~StartSubmit(g)
    BY DEF StartSubmit, SubmitInspection, SubmitInsurance, SubmitPcoDoc,
       SubmitPermissionLetter, SubmitSchedule, SubmitLogBookV5, Submit, Start
  <2>2. ReviewAccept(g)
    BY <1>5, <2>1 DEF RequestSteps, SubmitSteps, AssertAcceptedTarget,
       FindExistingPending, CreateChangeRequest, CancelSteps, CancelRead, CancelWrite,
       ReviewSteps, ReviewReadRequest, ReviewReadTarget, ReviewReject, RemoveSteps,
       AdminRemoveRead, AdminRemoveDelete, Start, Advance, WriteRequest
  <2>3. g = h
    BY <1>1, <2>2 DEF ReviewAccept, End, TypeOK
  <2>4. QED
    BY <2>2, <2>3
<1>6. QED
  BY <1>2, <1>3, <1>4, <1>5

\* However reviews, updates and submissions overlap, accepting a request
\* writes the fields its driver proposed and leaves every other field, the
\* status of the document and every other document as they are then; and a
\* review that changes a document accepts its request.
THEOREM AcceptWritesProposal == Spec => AcceptWritesOnlyProposal
<1> DEFINE Exactly(r, d) ==
        IF d # requests[r].target THEN docs'[d] = docs[d]
        ELSE /\ DocExists(d)
             /\ docs'[d].status = docs[d].status
             /\ \A f \in Fields : docs'[d].content[f] =
                   IF f \in requests[r].changed
                   THEN requests[r].payload[f]
                   ELSE docs[d].content[f]
<1>1. ASSUME TypeOK, [Next]_vars, NEW r \in Requests,
             requests'[r].status = "ACCEPTED", requests[r].status # "ACCEPTED",
             NEW d \in Docs
      PROVE  Exactly(r, d)
  <2>1. PICK h \in Handlers : ReviewAccept(h) /\ task[h].req = r
    BY <1>1, OnlyDecisions DEF Decisions
  <2>2. /\ RequestExists(r) /\ DocExists(requests[r].target)
        /\ docs' = [docs EXCEPT ![requests[r].target] =
                       Applied(docs[requests[r].target], requests[r])]
    BY <2>1 DEF ReviewAccept
  <2>3. requests[r] \in StoredRequest
    BY <1>1, <2>2, RequestRows DEF TypeOK, RequestExists
  <2>4. CASE d # requests[r].target
    BY <1>1, <2>2, <2>4 DEF TypeOK
  <2>5. CASE d = requests[r].target
    <3>1. docs[d] \in StoredDoc
      BY <1>1, <2>2, <2>5, DocRows DEF TypeOK, DocExists
    <3>2. docs'[d] = Applied(docs[d], requests[r])
      BY <1>1, <2>2, <2>5 DEF TypeOK
    <3>3. requests[r].changed # {}
      BY <2>3 DEF StoredRequest
    <3>4. /\ Applied(docs[d], requests[r]).status = docs[d].status
          /\ \A f \in Fields : Applied(docs[d], requests[r]).content[f] =
                IF f \in requests[r].changed THEN requests[r].payload[f]
                                             ELSE docs[d].content[f]
      BY <3>1, <3>3 DEF Applied, StoredDoc
    <3>5. QED
      BY <2>2, <2>5, <3>2, <3>4
  <2>6. QED
    BY <2>4, <2>5
<1>2. ASSUME TypeOK, [Next]_vars, NEW h \in Handlers, task[h].op = "decidable",
             task'[h] = Idle, docs' # docs
      PROVE  requests'[task[h].req].status = "ACCEPTED"
  <2>1. ReviewAccept(h)
    BY <1>2, ReviewChangesByAccepting
  <2>2. /\ task[h].req \in Requests
        /\ requests[task[h].req] \in StoredRequest
        /\ requests' = [requests EXCEPT ![task[h].req].status = "ACCEPTED"]
    BY <1>2, <2>1, TaskSubjects, RequestRows
       DEF ReviewAccept, RequestTask, RequestExists, TypeOK
  <2>3. QED
    BY <1>2, <2>2 DEF TypeOK, StoredRequest
<1>3. TypeOK /\ [Next]_vars =>
        [/\ \A r \in Requests :
             requests'[r].status = "ACCEPTED" /\ requests[r].status # "ACCEPTED"
                => \A d \in Docs : Exactly(r, d)
         /\ \A h \in Handlers :
             task[h].op = "decidable" /\ task'[h] = Idle /\ docs' # docs
                => requests'[task[h].req].status = "ACCEPTED"]_vars
  BY <1>1, <1>2
<1>4. QED
  BY TypeCorrect, <1>3, PTL DEF Spec, AcceptWritesOnlyProposal

----------------------------------------------------------------------------
(***************************************************************************)
(* Rows go with their vehicle.                                             *)
(***************************************************************************)

\* Only the vehicle's own operations write its row.
LEMMA HandlersLeaveVehicle ==
    ASSUME NEW h \in Handlers, DocumentSteps(h) \/ RequestSteps(h)
    PROVE  vehicle' = vehicle
<1>1. CASE DocumentSteps(h)
  BY <1>1
     DEF DocumentSteps, StartDocTask, StartCreate, StartMutation, StartReview,
         Start, WriteRich, WriteDocumentOnly, AdminReviewDocument,
         CreateInspection, UpdateInspection, DeleteInspection,
         CreateInsurance, UpdateInsurance, DeleteInsurance,
         CreatePcoDoc, UpdatePcoDoc, DeletePcoDoc,
         CreateLogBookV5, UpdateLogBookV5, DeleteLogBookV5,
         CreatePermissionLetter, UpdatePermissionLetter,
         DeletePermissionLetter, CreateVehicleSchedule,
         UpdateVehicleSchedule, DeleteVehicleSchedule,
         AdminReviewLogBookV5, AdminReviewPermissionLetter,
         AdminReviewVehicleSchedule, Create, Update, Delete, Review, WriteDoc
<1>2. CASE RequestSteps(h)
  BY <1>2
     DEF RequestSteps, StartSubmit, SubmitInspection, SubmitInsurance,
         SubmitPcoDoc, SubmitPermissionLetter, SubmitSchedule,
         SubmitLogBookV5, Submit, SubmitSteps, AssertAcceptedTarget,
         FindExistingPending, CreateChangeRequest, CancelSteps, CancelRead,
         CancelWrite, ReviewSteps, ReviewReadRequest, ReviewReadTarget,
         ReviewAccept, ReviewReject, RemoveSteps, AdminRemoveRead,
         AdminRemoveDelete, Start, Advance, WriteRequest
<1>3. QED
  BY <1>1, <1>2

\* Once the vehicle is gone every handler that still runs can only end: the
\* rows it would write are gone and its inserts are refused.
LEMMA NothingIsWrittenAfterwards ==
    ASSUME TypeOK, NothingOutlivesTheVehicle, [Next]_vars, vehicle = "deleted"
    PROVE  UNCHANGED <<vehicle, docs, requests>>
<1> USE DEF NothingOutlivesTheVehicle
<1>1. \A d \in Docs : ~DocExists(d)
  OBVIOUS
<1>2. \A r \in Requests : ~RequestExists(r)
  OBVIOUS
<1>3. ASSUME NEW h \in Handlers, DocumentSteps(h)
      PROVE  UNCHANGED <<vehicle, docs, requests>>
  <2>1. ASSUME NEW kind,
               \/ Create(h, kind) \/ Update(h, kind)
               \/ Delete(h, kind) \/ Review(h, kind)
        PROVE  FALSE
    BY <1>1, <2>1, TaskSubjects
       DEF Create, Update, Delete, Review, VehicleReferenced, DocTask,
           DocReviewTask
  <2>2. CASE StartDocTask(h)
    BY <2>2 DEF StartDocTask, StartCreate, StartMutation, StartReview, Start
  <2>3. QED
    BY <1>3, <2>1, <2>2
       DEF DocumentSteps, WriteRich, WriteDocumentOnly,
           AdminReviewDocument, CreateInspection, UpdateInspection,
           DeleteInspection, CreateInsurance, UpdateInsurance,
           DeleteInsurance, CreatePcoDoc, UpdatePcoDoc, DeletePcoDoc,
           CreateLogBookV5, UpdateLogBookV5, DeleteLogBookV5,
           CreatePermissionLetter, UpdatePermissionLetter,
           DeletePermissionLetter, CreateVehicleSchedule,
           UpdateVehicleSchedule, DeleteVehicleSchedule,
           AdminReviewLogBookV5, AdminReviewPermissionLetter,
           AdminReviewVehicleSchedule
<1>4. ASSUME NEW h \in Handlers, RequestSteps(h)
      PROVE  UNCHANGED <<vehicle, docs, requests>>
  <2>1. ~CreateChangeRequest(h)
    BY DEF CreateChangeRequest, VehicleReferenced
  <2>2. ~CancelWrite(h) /\ ~ReviewReject(h) /\ ~ReviewAccept(h)
          /\ ~AdminRemoveDelete(h)
    BY <1>2, TaskSubjects
       DEF CancelWrite, ReviewReject, ReviewAccept, AdminRemoveDelete,
           RequestTask
  <2>3. QED
    BY <1>4, <2>1, <2>2
       DEF RequestSteps, StartSubmit, SubmitInspection, SubmitInsurance,
           SubmitPcoDoc, SubmitPermissionLetter, SubmitSchedule,
           SubmitLogBookV5, Submit, Start, SubmitSteps, AssertAcceptedTarget,
           FindExistingPending, Advance, CancelSteps, CancelRead, ReviewSteps,
           ReviewReadRequest, ReviewReadTarget, RemoveSteps, AdminRemoveRead
<1>5. ASSUME NEW h \in Handlers, Abandon(h)
      PROVE  UNCHANGED <<vehicle, docs, requests>>
  BY <1>5 DEF Abandon
<1>6. ~ArchiveAll /\ ~RestoreAll /\ ~DeleteVehicle
  BY DEF ArchiveAll, RestoreAll, DeleteVehicle
<1>7. UNCHANGED vars => UNCHANGED <<vehicle, docs, requests>>
  BY DEF vars
<1>8. QED
  BY <1>3, <1>4, <1>5, <1>6, <1>7 DEF Next

\* The delete of the vehicle leaves no row in either table.
LEMMA CascadeEmptiesTables ==
    ASSUME TypeOK, DeleteVehicle
    PROVE  /\ \A d \in Docs : ~DocExists(d)'
           /\ \A r \in Requests : ~RequestExists(r)'
<1>1. ASSUME NEW d \in Docs
      PROVE  ~DocExists(d)'
  <2>1. CASE DocExists(d)
    <3>1. docs[d] \in StoredDoc
      BY <2>1, DocRows DEF TypeOK, DocExists
    <3>2. docs'[d].status = "DELETED"
      BY <2>1, <3>1 DEF DeleteVehicle, DeletedDoc, StoredDoc
    <3>3. QED
      BY <3>2 DEF DocExists, DocumentStatus
  <2>2. CASE ~DocExists(d)
    BY <2>2 DEF DeleteVehicle, DocExists
  <2>3. QED
    BY <2>1, <2>2
<1>2. ASSUME NEW r \in Requests
      PROVE  ~RequestExists(r)'
  BY DEF DeleteVehicle, NoRequest, RequestExists, RequestStatus, Decisions
<1>3. QED
  BY <1>1, <1>2

\* No document and no change request is left when its vehicle is deleted,
\* whatever the handlers that had already read the vehicle were doing.
THEOREM CascadeComplete == Spec => []NothingOutlivesTheVehicle
<1>1. Init => NothingOutlivesTheVehicle
  BY DEF Init, NothingOutlivesTheVehicle
<1>2. TypeOK /\ NothingOutlivesTheVehicle /\ [Next]_vars
        => NothingOutlivesTheVehicle'
  <2> SUFFICES ASSUME TypeOK, NothingOutlivesTheVehicle, [Next]_vars,
                      vehicle' = "deleted"
               PROVE  /\ \A d \in Docs : ~DocExists(d)'
                      /\ \A r \in Requests : ~RequestExists(r)'
    BY DEF NothingOutlivesTheVehicle
  <2>1. CASE vehicle = "deleted"
    BY <2>1, NothingIsWrittenAfterwards
       DEF NothingOutlivesTheVehicle, DocExists, RequestExists
  <2>2. CASE DeleteVehicle
    BY <2>2, CascadeEmptiesTables
  <2>3. CASE vehicle # "deleted" /\ ~DeleteVehicle
    <3>1. ASSUME NEW h \in Handlers,
                 DocumentSteps(h) \/ RequestSteps(h) \/ Abandon(h)
          PROVE  vehicle' = vehicle
      BY <3>1, HandlersLeaveVehicle DEF Abandon
    <3>2. QED
      BY <2>3, <3>1 DEF Next, ArchiveAll, RestoreAll, vars
  <2>4. QED
    BY <2>1, <2>2, <2>3
<1>3. QED
  BY TypeCorrect, <1>1, <1>2, PTL DEF Spec

----------------------------------------------------------------------------
(***************************************************************************)
(* What drivers write.  With overlapping handlers a driver's write breaks  *)
(* the policy only where the status it decided on is stale.                *)
(***************************************************************************)

\* A write of a document is a create, an update, a delete or a review of
\* some kind, and ends its handler.
LEMMA DocumentWritesAre ==
    ASSUME NEW h \in Handlers,
           WriteRich(h) \/ WriteDocumentOnly(h) \/ AdminReviewDocument(h)
    PROVE  /\ \E kind : \/ Create(h, kind) \/ Update(h, kind)
                        \/ Delete(h, kind) \/ Review(h, kind)
           /\ End(h)
<1>1. \E kind : \/ Create(h, kind) \/ Update(h, kind)
                \/ Delete(h, kind) \/ Review(h, kind)
  BY DEF WriteRich, WriteDocumentOnly,
         AdminReviewDocument, CreateInspection, UpdateInspection,
         DeleteInspection, CreateInsurance, UpdateInsurance,
         DeleteInsurance, CreatePcoDoc, UpdatePcoDoc, DeletePcoDoc,
         CreateLogBookV5, UpdateLogBookV5, DeleteLogBookV5,
         CreatePermissionLetter, UpdatePermissionLetter,
         DeletePermissionLetter, CreateVehicleSchedule,
         UpdateVehicleSchedule, DeleteVehicleSchedule,
         AdminReviewLogBookV5, AdminReviewPermissionLetter,
         AdminReviewVehicleSchedule
<1>2. QED
  BY <1>1 DEF Create, Update, Delete, Review, WriteDoc

\* A step that gives a handler another task is a step of that handler.
LEMMA TasksAreOwn ==
    ASSUME TypeOK, [Next]_vars, NEW h \in Handlers, task'[h] # task[h]
    PROVE  DocumentSteps(h) \/ RequestSteps(h) \/ Abandon(h)
<1>1. ASSUME NEW g \in Handlers, g # h
      PROVE  ~DocumentSteps(g)
  <2>1. ASSUME NEW t, task' = [task EXCEPT ![g] = t]
        PROVE  FALSE
    BY <1>1, <2>1 DEF TypeOK
  <2>2. ~StartDocTask(g)
    BY <2>1 DEF StartDocTask, StartCreate, StartMutation, StartReview, Start
  <2>3. ~(WriteRich(g) \/ WriteDocumentOnly(g) \/ AdminReviewDocument(g))
    BY <2>1, DocumentWritesAre DEF End
  <2>4. QED
    BY <2>2, <2>3 DEF DocumentSteps
<1>2. ASSUME NEW g \in Handlers, g # h, RequestSteps(g)
      PROVE  FALSE
  <2>1. \/ \E t : task' = [task EXCEPT ![g] = t]
        \/ \E op : task' = [task EXCEPT ![g].op = op]
    BY <1>2
       DEF RequestSteps, StartSubmit, SubmitInspection, SubmitInsurance,
           SubmitPcoDoc, SubmitPermissionLetter, SubmitSchedule,
           SubmitLogBookV5, Submit, SubmitSteps, AssertAcceptedTarget,
           FindExistingPending, CreateChangeRequest, CancelSteps, CancelRead,
           CancelWrite, ReviewSteps, ReviewReadRequest, ReviewReadTarget,
           ReviewAccept, ReviewReject, RemoveSteps, AdminRemoveRead,
           AdminRemoveDelete, Start, Advance, WriteRequest, End
  <2>2. QED
    BY <1>2, <2>1 DEF TypeOK
<1>3. ASSUME NEW g \in Handlers, g # h, Abandon(g)
      PROVE  FALSE
  BY <1>3 DEF Abandon, End, TypeOK
<1>4. ~(ArchiveAll \/ RestoreAll \/ DeleteVehicle \/ UNCHANGED vars)
  BY DEF ArchiveAll, RestoreAll, DeleteVehicle, vars
<1>5. QED
  BY <1>1, <1>2, <1>3, <1>4 DEF Next

\* A driver's write is an update or a delete of a document that is there.
LEMMA DriversUpdateOrDelete ==
    ASSUME TypeOK, [Next]_vars, NEW h \in Handlers, NEW d \in Docs,
           DriverWrites(h, d)
    PROVE  DocExists(d) /\ \E kind : Update(h, kind) \/ Delete(h, kind)
<1> USE DEF DriverWrites
<1>1. task'[h] # task[h] /\ docs' # docs
  BY DEF Idle
<1>2. DocumentSteps(h) \/ RequestSteps(h) \/ Abandon(h)
  BY <1>1, TasksAreOwn
<1>3. ~RequestSteps(h) /\ ~Abandon(h) /\ ~StartDocTask(h)
  BY <1>1
     DEF RequestSteps, StartSubmit, SubmitInspection, SubmitInsurance,
         SubmitPcoDoc, SubmitPermissionLetter, SubmitSchedule,
         SubmitLogBookV5, Submit, SubmitSteps, AssertAcceptedTarget,
         FindExistingPending, CreateChangeRequest, CancelSteps, CancelRead,
         CancelWrite, ReviewSteps, ReviewReadRequest, ReviewReadTarget,
         ReviewAccept, ReviewReject, RemoveSteps, AdminRemoveRead,
         AdminRemoveDelete, Start, Advance, WriteRequest, Abandon,
         StartDocTask, StartCreate, StartMutation, StartReview
<1>4. PICK kind : \/ Create(h, kind) \/ Update(h, kind)
                  \/ Delete(h, kind) \/ Review(h, kind)
  BY <1>2, <1>3, DocumentWritesAre DEF DocumentSteps
<1>5. Update(h, kind) \/ Delete(h, kind)
  BY <1>4 DEF Create, Review
<1>6. QED
  BY <1>5 DEF Update, Delete

\* A handler holds a mutation only for a caller that the status it read
\* allows it to.
SeenAllows ==
    \A h \in Handlers : task[h].op \in {"update", "delete"} =>
        MayMutate(task[h].role, task[h].seen)

\* Only StartMutation gives a handler a mutation.
LEMMA NewMutations ==
    ASSUME TypeOK, [Next]_vars, NEW h \in Handlers,
           task'[h].op \in {"update", "delete"}, task'[h] # task[h]
    PROVE  MayMutate(task'[h].role, task'[h].seen)
<1>1. ASSUME NEW t, task' = [task EXCEPT ![h] = t]
      PROVE  task'[h] = t
  BY <1>1 DEF TypeOK
<1>2. ASSUME End(h)
      PROVE  FALSE
  BY <1>1, <1>2 DEF End, Idle
<1>3. CASE DocumentSteps(h)
  <2>1. CASE StartDocTask(h)
    <3>1. ASSUME NEW op \in {"update", "delete"}, NEW role \in Roles,
                 NEW d \in Docs, StartMutation(h, op, role, d)
          PROVE  MayMutate(task'[h].role, task'[h].seen)
      BY <1>1, <3>1 DEF StartMutation, Start
    <3>2. ASSUME NEW role \in Roles, NEW kind \in Kinds,
                 StartCreate(h, role, kind)
          PROVE  FALSE
      BY <1>1, <3>2 DEF StartCreate, Start
    <3>3. ASSUME NEW d \in Docs, StartReview(h, d)
          PROVE  FALSE
      BY <1>1, <3>3 DEF StartReview, Start
    <3>4. QED
      BY <2>1, <3>1, <3>2, <3>3 DEF StartDocTask
  <2>2. QED
    BY <1>2, <1>3, <2>1, DocumentWritesAre DEF DocumentSteps
<1>4. ASSUME RequestSteps(h)
      PROVE  FALSE
  <2>1. CASE StartSubmit(h)
    BY <1>1, <2>1
       DEF StartSubmit, SubmitInspection, SubmitInsurance, SubmitPcoDoc,
           SubmitPermissionLetter, SubmitSchedule, SubmitLogBookV5, Submit,
           Start
  <2>2. ASSUME NEW r \in Requests,
               \/ CancelRead(h, r) \/ ReviewReadRequest(h, r)
               \/ AdminRemoveRead(h, r)
        PROVE  FALSE
    BY <1>1, <2>2 DEF CancelRead, ReviewReadRequest, AdminRemoveRead, Start
  <2>3. CASE \/ AssertAcceptedTarget(h) \/ FindExistingPending(h)
             \/ ReviewReadTarget(h)
    <3>1. task[h] \in SubmitTask \cup RequestTask
      BY <2>3, TaskSubjects
         DEF AssertAcceptedTarget, FindExistingPending, ReviewReadTarget
    <3>2. PICK op \in {"accepted", "free", "decidable"} :
             task' = [task EXCEPT ![h].op = op]
      BY <2>3 DEF AssertAcceptedTarget, FindExistingPending, ReviewReadTarget,
                  Advance
    <3>3. QED
      BY <3>1, <3>2 DEF TypeOK, SubmitTask, RequestTask
  <2>4. CASE \/ CreateChangeRequest(h) \/ CancelWrite(h) \/ ReviewAccept(h)
             \/ ReviewReject(h) \/ AdminRemoveDelete(h)
    BY <1>2, <2>4
       DEF CreateChangeRequest, CancelWrite, ReviewAccept, ReviewReject,
           AdminRemoveDelete, WriteRequest
  <2>5. QED
    BY <1>4, <2>1, <2>2, <2>3, <2>4
       DEF RequestSteps, SubmitSteps, CancelSteps, ReviewSteps, RemoveSteps
<1>5. ASSUME Abandon(h)
      PROVE  FALSE
  BY <1>2, <1>5 DEF Abandon
<1>6. QED
  BY <1>3, <1>4, <1>5, TasksAreOwn

\* Every mutation under way was allowed by the status that its handler read.
LEMMA SeenAllowed == Spec => []SeenAllows
<1>1. Init => SeenAllows
  BY DEF Init, Idle, SeenAllows
<1>2. TypeOK /\ SeenAllows /\ [Next]_vars => SeenAllows'
  BY NewMutations DEF SeenAllows
<1>3. QED
  BY TypeCorrect, <1>1, <1>2, PTL DEF Spec

\* A driver changes or deletes an accepted document only when the document
\* was not accepted yet as the handler read it: nothing but a stale read
\* breaks the policy.
THEOREM OnlyStaleReadsUnlock ==
    Spec => [][\A h \in Handlers, d \in Docs :
                  DriverWrites(h, d) /\ docs[d].status = task[h].seen
                      => docs[d].status \in {"PENDING", "REJECTED"}]_vars
<1>1. ASSUME TypeOK, SeenAllows, [Next]_vars, NEW h \in Handlers,
             NEW d \in Docs, DriverWrites(h, d), docs[d].status = task[h].seen
      PROVE  docs[d].status \in {"PENDING", "REJECTED"}
  <2>1. DocExists(d)
    BY <1>1, DriversUpdateOrDelete
  <2>2. docs[d].status # "ACCEPTED"
    BY <1>1 DEF DriverWrites, SeenAllows, MayMutate
  <2>3. QED
    BY <2>1, <2>2 DEF DocExists, DocumentStatus
<1>2. TypeOK /\ SeenAllows /\ [Next]_vars =>
         [\A h \in Handlers, d \in Docs :
             DriverWrites(h, d) /\ docs[d].status = task[h].seen
                 => docs[d].status \in {"PENDING", "REJECTED"}]_vars
  BY <1>1
<1>3. QED
  BY TypeCorrect, SeenAllowed, <1>2, PTL DEF Spec

\* A document whose content a driver has just changed waits for an admin
\* again, unless its status had changed since the handler read it.
THEOREM OnlyStaleReadsSkipTheQueue ==
    Spec => [][\A h \in Handlers, d \in Docs :
                  DriverWrites(h, d) /\ docs[d].status = task[h].seen
                    /\ DocExists(d)' /\ docs'[d].content # docs[d].content
                      => docs'[d].status = "PENDING"]_vars
<1> DEFINE Resubmits(h, d) ==
              DriverWrites(h, d) /\ docs[d].status = task[h].seen
                /\ DocExists(d)' /\ docs'[d].content # docs[d].content
<1>1. ASSUME TypeOK, SeenAllows, [Next]_vars, NEW h \in Handlers,
             NEW d \in Docs, Resubmits(h, d)
      PROVE  docs'[d].status = "PENDING"
  <2>1. PICK kind : Update(h, kind) \/ Delete(h, kind)
    BY <1>1, DriversUpdateOrDelete
  <2>2. DocExists(d) /\ docs[d] \in StoredDoc
    BY <1>1, DriversUpdateOrDelete, DocRows DEF TypeOK, DocExists
  <2>3. task[h].doc = d /\ task[h].role = "DRIVER"
    BY <1>1 DEF DriverWrites
  <2>4. task[h].seen # "ACCEPTED"
    BY <1>1 DEF DriverWrites, SeenAllows, MayMutate
  <2>5. ~Delete(h, kind)
    BY <1>1, <2>2, <2>3
       DEF Delete, WriteDoc, DeletedDoc, StoredDoc, DocExists, DocumentStatus,
           TypeOK
  <2>6. PICK c \in Content, touched \in BOOLEAN :
           /\ c # docs[d].content => touched
           /\ \E s \in StatusOnUpdate(task[h], docs[d], touched) :
                 docs' = [docs EXCEPT ![d] =
                             [docs[d] EXCEPT !.status = s, !.content = c]]
    BY <2>1, <2>3, <2>5 DEF Update, WriteDoc, Storable
  <2>7. PICK s \in StatusOnUpdate(task[h], docs[d], touched) :
           docs' = [docs EXCEPT ![d] =
                       [docs[d] EXCEPT !.status = s, !.content = c]]
    BY <2>6
  <2>8. docs'[d].status = s /\ docs'[d].content = c
    BY <1>1, <2>2, <2>7 DEF TypeOK, StoredDoc
  <2>9. s = IF task[h].seen = "REJECTED" THEN "PENDING" ELSE docs[d].status
    BY <1>1, <2>3, <2>6, <2>7, <2>8 DEF StatusOnUpdate
  <2>10. QED
    BY <1>1, <2>2, <2>4, <2>8, <2>9 DEF DocExists, DocumentStatus
<1>2. TypeOK /\ SeenAllows /\ [Next]_vars =>
         [\A h \in Handlers, d \in Docs :
             Resubmits(h, d) => docs'[d].status = "PENDING"]_vars
  <2> HIDE DEF Resubmits
  <2>1. QED
    BY <1>1
<1>3. QED
  BY TypeCorrect, SeenAllowed, <1>2, PTL DEF Spec
=============================================================================
