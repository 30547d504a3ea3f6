--------------------------- MODULE DocumentReview ---------------------------
(***************************************************************************)
(* The documents of one vehicle, the change requests drivers file against  *)
(* them, and the HTTP handlers that read and write both concurrently.      *)
(*                                                                         *)
(* Every handler of vehicle.service.ts and of                              *)
(* vehicle-document-change-request.service.ts that writes does so after    *)
(* awaits (row reads, user-service, upload-service).  A handler is a task: *)
(* it starts with the reads and checks of the code, remembers what it read,*)
(* and ends with its write.  Handlers interleave at the awaits.            *)
(*                                                                         *)
(* Rows are keyed by uuid, so an id is used once: "UNUSED" is an id not    *)
(* yet given out, "DELETED" the id of a row that is gone.                  *)
(***************************************************************************)
EXTENDS Naturals, FiniteSets

CONSTANTS
    Docs,      \* ids of document rows, of the six tables together
    Requests,  \* ids of vehicle_document_change_request rows
    Handlers,  \* concurrent HTTP requests; one handler is a serial server
    Kinds,     \* the kinds of documents in use
    Values,    \* values of a field, Null among them
    Null

AllKinds == {"INSPECTION", "INSURANCE", "PCO_DOCUMENT",
             "PERMISSION_LETTER", "SCHEDULE", "LOG_BOOK_V5"}

ASSUME KindsAssumption == Kinds \subseteq AllKinds
ASSUME NullAssumption == Null \in Values /\ Null \notin AllKinds

\* Kinds whose status an admin sets through create and update; the other
\* three hold a document alone and have a review endpoint of their own.
RichKinds == {"INSPECTION", "INSURANCE", "PCO_DOCUMENT"}

\* "details" stands for the dates, numbers and type of a rich kind.
Fields == {"document", "details"}
Editable(kind) == IF kind \in RichKinds THEN Fields ELSE {"document"}
Content == [Fields -> Values]
NoContent == [f \in Fields |-> Null]
\* A log book's document is NOT NULL; in the other tables it may be missing.
Storable(kind) == {c \in Content : kind = "LOG_BOOK_V5" => c["document"] # Null}

DocumentStatus == {"PENDING", "ACCEPTED", "REJECTED"}
Decisions == {"ACCEPTED", "REJECTED", "CANCELLED"}
RequestStatus == {"PENDING_REVIEW"} \cup Decisions
NoRow == {"UNUSED", "DELETED"}
Roles == {"DRIVER", "ADMIN"}

UnusedDoc == [kind |-> Null, status |-> "UNUSED", content |-> NoContent]
\* The id still belongs to the table of its kind: change requests name both.
DeletedDoc(row) == [row EXCEPT !.status = "DELETED", !.content = NoContent]
NoRequest(s) == [target |-> Null, status |-> s, payload |-> NoContent,
                 changed |-> {}]

StoredDoc == [kind : Kinds, status : DocumentStatus \cup {"DELETED"},
              content : Content]
DocRow == StoredDoc \cup {UnusedDoc}
StoredRequest == [target : Docs, status : RequestStatus, payload : Content,
                  changed : (SUBSET Fields) \ {{}}]
RequestRow == StoredRequest \cup {NoRequest(s) : s \in NoRow}

VARIABLES
    vehicle,   \* "live", "archived" (isDeleted) or "deleted" (row gone)
    docs,      \* the document rows
    requests,  \* the change-request rows
    task       \* what each handler has read so far

vars == <<vehicle, docs, requests, task>>

(***************************************************************************)
(* Tasks.  `seen` is the status of the document row when it was read and   *)
(* `base` its content; both may be stale when the handler writes.          *)
(***************************************************************************)
Idle == [op |-> "idle"]
CreateTask == [op : {"create"}, role : Roles, kind : Kinds]
DocTask == [op : {"update", "delete"}, role : Roles, doc : Docs,
            seen : DocumentStatus]
DocReviewTask == [op : {"review"}, doc : Docs]
SubmitTask == [op : {"submit", "accepted", "free"}, doc : Docs,
               base : Content]
RequestTask == [op : {"cancel", "remove", "decide", "decidable"},
                req : Requests]
Tasks == {Idle} \cup CreateTask \cup DocTask \cup DocReviewTask
           \cup SubmitTask \cup RequestTask

DocExists(d) == docs[d].status \in DocumentStatus
RequestExists(r) == requests[r].status \in RequestStatus
Pending(r) == requests[r].status = "PENDING_REVIEW"

Init ==
    /\ vehicle = "live"
    /\ docs = [d \in Docs |-> UnusedDoc]
    /\ requests = [r \in Requests |-> NoRequest("UNUSED")]
    /\ task = [h \in Handlers |-> Idle]

Start(h, t) ==
    /\ task[h] = Idle
    /\ task' = [task EXCEPT ![h] = t]
    /\ UNCHANGED <<vehicle, docs, requests>>

Advance(h, op) ==
    /\ task' = [task EXCEPT ![h].op = op]
    /\ UNCHANGED <<vehicle, docs, requests>>

End(h) == task' = [task EXCEPT ![h] = Idle]

WriteDoc(h, d, row) ==
    /\ docs' = [docs EXCEPT ![d] = row]
    /\ End(h)
    /\ UNCHANGED <<vehicle, requests>>

WriteRequest(h, r, row) ==
    /\ requests' = [requests EXCEPT ![r] = row]
    /\ End(h)
    /\ UNCHANGED <<vehicle, docs>>

(***************************************************************************)
(* A handler that ends without writing: a check failed, a row it would     *)
(* write is gone (the database refuses and a transaction rolls back),      *)
(* upload-service refused the file, or the process died.  No handler keeps *)
(* anything outside the database, so nothing else is lost.                 *)
(***************************************************************************)
Abandon(h) ==
    /\ task[h] # Idle
    /\ End(h)
    /\ UNCHANGED <<vehicle, docs, requests>>

----------------------------------------------------------------------------
(***************************************************************************)
(* Live documents: create, update, delete, review.                         *)
(***************************************************************************)

\* Mutant: the policy lets a driver change an accepted document.
MayMutateAlways(role, status) == role \in Roles

\* assertDriverMayMutateLiveVehicleDocument
MayMutate(role, status) == role = "ADMIN" \/ status # "ACCEPTED"

StartCreate(h, role, kind) ==
    /\ vehicle = "live"
    /\ Start(h, [op |-> "create", role |-> role, kind |-> kind])

StartMutation(h, op, role, d) ==
    /\ vehicle = "live"
    /\ DocExists(d)
    /\ MayMutate(role, docs[d].status)
    /\ Start(h, [op |-> op, role |-> role, doc |-> d,
                 seen |-> docs[d].status])

\* adminReview* finds the vehicle whether or not it is archived.
StartReview(h, d) ==
    /\ vehicle # "deleted"
    /\ DocExists(d)
    /\ docs[d].kind \notin RichKinds
    /\ Start(h, [op |-> "review", doc |-> d])

\* mergeAdminReviewFieldsOnCreate: only an admin picks the first status.
StatusOnCreate(role, kind) ==
    IF role = "ADMIN" /\ kind \in RichKinds THEN DocumentStatus
                                            ELSE {"PENDING"}

\* Mutant: the tables do not refer to the vehicle.
NoVehicleReference == TRUE

\* The foreign keys on vehicleId.
VehicleReferenced == vehicle # "deleted"

Create(h, kind) ==
    /\ task[h].op = "create" /\ task[h].kind = kind
    /\ VehicleReferenced
    /\ \E d \in Docs, s \in StatusOnCreate(task[h].role, kind), c \in Storable(kind) :
          /\ docs[d].status = "UNUSED"
          /\ \A f \in Fields \ Editable(kind) : c[f] = Null
          /\ WriteDoc(h, d, [kind |-> kind, status |-> s, content |-> c])

\* Mutant: a driver's resubmission is not queued for review again.
StatusOnUpdateKept(t, row, touched) ==
    IF t.role = "ADMIN" /\ row.kind \in RichKinds THEN DocumentStatus
                                                  ELSE {row.status}

\* applyDriverResubmissionReviewReset and mergeAdminReviewFieldsOnUpdate:
\* the statuses an update may leave, given the status read at its start.
StatusOnUpdate(t, row, touched) ==
    IF t.role = "DRIVER"
    THEN IF touched /\ t.seen = "REJECTED" THEN {"PENDING"} ELSE {row.status}
    ELSE IF row.kind \in RichKinds THEN DocumentStatus ELSE {row.status}

\* The row is updated by its id alone; columns the dto omits are kept.
Update(h, kind) ==
    /\ task[h].op = "update"
    /\ LET d == task[h].doc
           row == docs[d]
       IN /\ DocExists(d) /\ row.kind = kind
          /\ \E c \in Storable(kind), touched \in BOOLEAN :
                /\ \A f \in Fields \ Editable(kind) : c[f] = row.content[f]
                /\ c # row.content => touched
                /\ \E s \in StatusOnUpdate(task[h], row, touched) :
                      WriteDoc(h, d, [row EXCEPT !.status = s, !.content = c])

Delete(h, kind) ==
    /\ task[h].op = "delete"
    /\ DocExists(task[h].doc) /\ docs[task[h].doc].kind = kind
    /\ WriteDoc(h, task[h].doc, DeletedDoc(docs[task[h].doc]))

Review(h, kind) ==
    /\ task[h].op = "review"
    /\ DocExists(task[h].doc) /\ docs[task[h].doc].kind = kind
    /\ \E s \in DocumentStatus :
          WriteDoc(h, task[h].doc, [docs[task[h].doc] EXCEPT !.status = s])

CreateInspection(h) == Create(h, "INSPECTION")
UpdateInspection(h) == Update(h, "INSPECTION")
DeleteInspection(h) == Delete(h, "INSPECTION")

CreateInsurance(h) == Create(h, "INSURANCE")
UpdateInsurance(h) == Update(h, "INSURANCE")
DeleteInsurance(h) == Delete(h, "INSURANCE")

CreatePcoDoc(h) == Create(h, "PCO_DOCUMENT")
UpdatePcoDoc(h) == Update(h, "PCO_DOCUMENT")
DeletePcoDoc(h) == Delete(h, "PCO_DOCUMENT")

CreateLogBookV5(h) == Create(h, "LOG_BOOK_V5")
UpdateLogBookV5(h) == Update(h, "LOG_BOOK_V5")
DeleteLogBookV5(h) == Delete(h, "LOG_BOOK_V5")
AdminReviewLogBookV5(h) == Review(h, "LOG_BOOK_V5")

CreatePermissionLetter(h) == Create(h, "PERMISSION_LETTER")
UpdatePermissionLetter(h) == Update(h, "PERMISSION_LETTER")
DeletePermissionLetter(h) == Delete(h, "PERMISSION_LETTER")
AdminReviewPermissionLetter(h) == Review(h, "PERMISSION_LETTER")

CreateVehicleSchedule(h) == Create(h, "SCHEDULE")
UpdateVehicleSchedule(h) == Update(h, "SCHEDULE")
DeleteVehicleSchedule(h) == Delete(h, "SCHEDULE")
AdminReviewVehicleSchedule(h) == Review(h, "SCHEDULE")

----------------------------------------------------------------------------
(***************************************************************************)
(* Change requests: the driver submits and cancels.                        *)
(***************************************************************************)

\* The vehicle may be archived: this service does not look at isDeleted.
Submit(h, d, kind) ==
    /\ vehicle # "deleted"
    /\ DocExists(d) /\ docs[d].kind = kind
    /\ Start(h, [op |-> "submit", doc |-> d, base |-> docs[d].content])

SubmitInspection(h, d) == Submit(h, d, "INSPECTION")
SubmitInsurance(h, d) == Submit(h, d, "INSURANCE")
SubmitPcoDoc(h, d) == Submit(h, d, "PCO_DOCUMENT")
SubmitPermissionLetter(h, d) == Submit(h, d, "PERMISSION_LETTER")
SubmitSchedule(h, d) == Submit(h, d, "SCHEDULE")
SubmitLogBookV5(h, d) == Submit(h, d, "LOG_BOOK_V5")

AssertAcceptedTarget(h) ==
    /\ task[h].op = "submit"
    /\ docs[task[h].doc].status = "ACCEPTED"
    /\ Advance(h, "accepted")

PendingFor(d) == {r \in Requests : Pending(r) /\ requests[r].target = d}

FindExistingPending(h) ==
    /\ task[h].op = "accepted"
    /\ PendingFor(task[h].doc) = {}
    /\ Advance(h, "free")

\* compute*ChangedFields: the fields that differ from the row read first.
ChangedFields(base, payload) == {f \in Fields : payload[f] # base[f]}

\* Mutant: the table has no partial unique index.
NoPendingIndex(d) == d \in Docs

\* The partial unique index on (targetType, targetDocumentId).
PendingIndexAllows(d) == PendingFor(d) = {}

CreateChangeRequest(h) ==
    /\ task[h].op = "free"
    /\ VehicleReferenced
    /\ PendingIndexAllows(task[h].doc)
    /\ \E r \in Requests, p \in Content :
          LET d == task[h].doc
              changed == ChangedFields(task[h].base, p)
          IN /\ requests[r].status = "UNUSED"
             /\ changed # {}
             /\ changed \subseteq Editable(docs[d].kind)
             /\ WriteRequest(h, r, [target |-> d, status |-> "PENDING_REVIEW",
                                    payload |-> p, changed |-> changed])

\* Mutant: cancel does not look at the status of the request.
CancelReadAny(h, r) ==
    /\ RequestExists(r)
    /\ Start(h, [op |-> "cancel", req |-> r])

CancelRead(h, r) ==
    /\ Pending(r)
    /\ Start(h, [op |-> "cancel", req |-> r])

\* Mutant: cancel writes a status that is not in the enum.
CancelWriteMisspelt(h) ==
    /\ task[h].op = "cancel"
    /\ RequestExists(task[h].req)
    /\ WriteRequest(h, task[h].req,
                    [requests[task[h].req] EXCEPT !.status = "CANCELED"])

CancelWrite(h) ==
    /\ task[h].op = "cancel"
    /\ RequestExists(task[h].req)
    /\ WriteRequest(h, task[h].req,
                    [requests[task[h].req] EXCEPT !.status = "CANCELLED"])

----------------------------------------------------------------------------
(***************************************************************************)
(* Change requests: the admin reviews and removes.  A review is one        *)
(* interactive transaction at READ COMMITTED: its two reads lock nothing,  *)
(* its writes become visible together at the commit.                       *)
(***************************************************************************)
ReviewReadRequest(h, r) ==
    /\ Pending(r)
    /\ Start(h, [op |-> "decide", req |-> r])

\* Mutant: the review does not look at the target's status.
ReviewReadTargetAny(h) ==
    /\ task[h].op = "decide"
    /\ RequestExists(task[h].req)
    /\ DocExists(requests[task[h].req].target)
    /\ Advance(h, "decidable")

\* getTargetDocumentStatus must be ACCEPTED, whatever the decision is.
ReviewReadTarget(h) ==
    /\ task[h].op = "decide"
    /\ RequestExists(task[h].req)
    /\ docs[requests[task[h].req].target].status = "ACCEPTED"
    /\ Advance(h, "decidable")

\* Mutant: accepting always writes the whole stored snapshot.
AppliedInFull(row, req) ==
    [row EXCEPT !.content = [f \in Fields |->
        IF f \in Editable(row.kind) THEN req.payload[f] ELSE row.content[f]]]

\* applyAcceptedPayload: the changed fields alone, or every field of the
\* kind when the stored list is empty.
Applied(row, req) ==
    LET written == IF req.changed # {} THEN req.changed ELSE Editable(row.kind)
    IN [row EXCEPT !.content = [f \in Fields |->
            IF f \in written THEN req.payload[f] ELSE row.content[f]]]

ReviewAccept(h) ==
    /\ task[h].op = "decidable"
    /\ LET r == task[h].req
           d == requests[r].target
       IN /\ RequestExists(r)
          /\ DocExists(d)
          /\ Applied(docs[d], requests[r]).content \in Storable(docs[d].kind)
          /\ docs' = [docs EXCEPT ![d] = Applied(docs[d], requests[r])]
          /\ requests' = [requests EXCEPT ![r].status = "ACCEPTED"]
    /\ End(h)
    /\ UNCHANGED vehicle

ReviewReject(h) ==
    /\ task[h].op = "decidable"
    /\ RequestExists(task[h].req)
    /\ WriteRequest(h, task[h].req,
                    [requests[task[h].req] EXCEPT !.status = "REJECTED"])

\* Mutant: remove accepts a request that still waits.
AdminRemoveReadAny(h, r) ==
    /\ RequestExists(r)
    /\ Start(h, [op |-> "remove", req |-> r])

AdminRemoveRead(h, r) ==
    /\ RequestExists(r) /\ ~Pending(r)
    /\ Start(h, [op |-> "remove", req |-> r])

AdminRemoveDelete(h) ==
    /\ task[h].op = "remove"
    /\ RequestExists(task[h].req)
    /\ WriteRequest(h, task[h].req, NoRequest("DELETED"))

----------------------------------------------------------------------------
(***************************************************************************)
(* The vehicle: archived and restored with its driver, or deleted with     *)
(* every row that hangs from it (onDelete: Cascade).                       *)
(***************************************************************************)
ArchiveAll ==
    /\ vehicle = "live"
    /\ vehicle' = "archived"
    /\ UNCHANGED <<docs, requests, task>>

RestoreAll ==
    /\ vehicle = "archived"
    /\ vehicle' = "live"
    /\ UNCHANGED <<docs, requests, task>>

DeleteVehicle ==
    /\ vehicle # "deleted"
    /\ vehicle' = "deleted"
    /\ docs' = [d \in Docs |-> IF DocExists(d) THEN DeletedDoc(docs[d])
                                              ELSE docs[d]]
    /\ requests' = [r \in Requests |-> IF RequestExists(r)
                                       THEN NoRequest("DELETED")
                                       ELSE requests[r]]
    /\ UNCHANGED task

----------------------------------------------------------------------------
StartDocTask(h) ==
    \/ \E role \in Roles, kind \in Kinds : StartCreate(h, role, kind)
    \/ \E op \in {"update", "delete"}, role \in Roles, d \in Docs :
          StartMutation(h, op, role, d)
    \/ \E d \in Docs : StartReview(h, d)

WriteRich(h) ==
    \/ CreateInspection(h) \/ UpdateInspection(h) \/ DeleteInspection(h)
    \/ CreateInsurance(h) \/ UpdateInsurance(h) \/ DeleteInsurance(h)
    \/ CreatePcoDoc(h) \/ UpdatePcoDoc(h) \/ DeletePcoDoc(h)

WriteDocumentOnly(h) ==
    \/ CreateLogBookV5(h) \/ UpdateLogBookV5(h) \/ DeleteLogBookV5(h)
    \/ CreatePermissionLetter(h) \/ UpdatePermissionLetter(h)
    \/ DeletePermissionLetter(h)
    \/ CreateVehicleSchedule(h) \/ UpdateVehicleSchedule(h)
    \/ DeleteVehicleSchedule(h)

AdminReviewDocument(h) ==
    \/ AdminReviewLogBookV5(h)
    \/ AdminReviewPermissionLetter(h)
    \/ AdminReviewVehicleSchedule(h)

StartSubmit(h) == \E d \in Docs :
    \/ SubmitInspection(h, d) \/ SubmitInsurance(h, d) \/ SubmitPcoDoc(h, d)
    \/ SubmitPermissionLetter(h, d) \/ SubmitSchedule(h, d)
    \/ SubmitLogBookV5(h, d)

SubmitSteps(h) == AssertAcceptedTarget(h) \/ FindExistingPending(h)
                    \/ CreateChangeRequest(h)

CancelSteps(h) == CancelWrite(h) \/ \E r \in Requests : CancelRead(h, r)

ReviewSteps(h) ==
    \/ \E r \in Requests : ReviewReadRequest(h, r)
    \/ ReviewReadTarget(h) \/ ReviewAccept(h) \/ ReviewReject(h)

RemoveSteps(h) == AdminRemoveDelete(h) \/ \E r \in Requests : AdminRemoveRead(h, r)

DocumentSteps(h) ==
    \/ StartDocTask(h) \/ WriteRich(h) \/ WriteDocumentOnly(h)
    \/ AdminReviewDocument(h)

RequestSteps(h) ==
    \/ StartSubmit(h) \/ SubmitSteps(h) \/ CancelSteps(h)
    \/ ReviewSteps(h) \/ RemoveSteps(h)

Next ==
    \/ \E h \in Handlers : DocumentSteps(h) \/ RequestSteps(h) \/ Abandon(h)
    \/ ArchiveAll \/ RestoreAll \/ DeleteVehicle

Spec == Init /\ [][Next]_vars

----------------------------------------------------------------------------
(***************************************************************************)
(* Properties.                                                             *)
(***************************************************************************)

\* Every variable holds rows and tasks of the shapes the code writes.
TypeOK ==
    /\ vehicle \in {"live", "archived", "deleted"}
    /\ docs \in [Docs -> DocRow]
    /\ requests \in [Requests -> RequestRow]
    /\ task \in [Handlers -> Tasks]

\* However submissions for one document interleave between the look for a
\* pending request and the insert, at most one request waits for it.
OnePendingPerTarget ==
    \A r, s \in Requests :
        Pending(r) /\ Pending(s) /\ requests[r].target = requests[s].target
            => r = s

\* Accepting a request writes its proposal to its document in the same step
\* and nothing else: fields the driver did not propose keep what an admin
\* may have written to them since the request was filed.  And a review that
\* changes a document accepts its request.
AcceptWritesOnlyProposal ==
    [][/\ \A r \in Requests :
            requests'[r].status = "ACCEPTED" /\ requests[r].status # "ACCEPTED"
              => \A d \in Docs :
                    IF d # requests[r].target THEN docs'[d] = docs[d]
                    ELSE /\ DocExists(d)
                         /\ docs'[d].status = docs[d].status
                         /\ \A f \in Fields : docs'[d].content[f] =
                               IF f \in requests[r].changed
                               THEN requests[r].payload[f]
                               ELSE docs[d].content[f]
       /\ \A h \in Handlers :
            task[h].op = "decidable" /\ task'[h] = Idle /\ docs' # docs
              => requests'[task[h].req].status = "ACCEPTED"]_vars

\* The handler of h ends with a driver's write to document d.
DriverWrites(h, d) ==
    /\ task[h].op \in {"update", "delete"}
    /\ task[h].role = "DRIVER" /\ task[h].doc = d
    /\ task'[h] = Idle /\ docs'[d] # docs[d]

\* vehicle-document-mutation.policy.ts: "Drivers may mutate live documents
\* only while PENDING or REJECTED."
DriversMutateOnlyUnlocked ==
    [][\A h \in Handlers, d \in Docs :
          DriverWrites(h, d) => docs[d].status \in {"PENDING", "REJECTED"}]_vars

\* reset-document-on-driver-resubmission.util.ts: a document whose content a
\* driver has just changed waits for an admin again.
ResubmissionIsQueued ==
    [][\A h \in Handlers, d \in Docs :
          DriverWrites(h, d) /\ DocExists(d)' /\ docs'[d].content # docs[d].content
              => docs'[d].status = "PENDING"]_vars

\* adminReview: a request is accepted or rejected only against a document
\* that is accepted at that moment.
DecidedOnlyOnAcceptedTarget ==
    [][\A r \in Requests :
          Pending(r) /\ requests'[r].status \in {"ACCEPTED", "REJECTED"}
              => docs[requests[r].target].status = "ACCEPTED"]_vars

\* adminRemove: "Cannot delete a pending change request. Reject it via review
\* ..."; a request that waits can be rejected at once, so its target is
\* accepted.
PendingCanBeReviewed ==
    \A r \in Requests :
        Pending(r) => docs[requests[r].target].status = "ACCEPTED"

\* A handler that read the vehicle before it was deleted leaves no row behind:
\* the foreign keys refuse the inserts that come after the cascade.
NothingOutlivesTheVehicle ==
    vehicle = "deleted" =>
        /\ \A d \in Docs : ~DocExists(d)
        /\ \A r \in Requests : ~RequestExists(r)

\* Each request is a request of the abstract lifecycle, its document the
\* subject.
Lifecycle == INSTANCE ChangeRequestLifecycle WITH
    Subjects <- Docs,
    status <- [r \in Requests |-> requests[r].status],
    subject <- [r \in Requests |-> requests[r].target]

\* Overlapping handlers still file one request at a time for a document,
\* never reopen a decided one and never remove a waiting one.
RequestsFollowLifecycle == Lifecycle!LifecycleSpec

\* The messages of cancel ("Only pending change requests can be cancelled")
\* and adminReview ("Change request is not pending review"): a decision is
\* taken once.
DecisionsAreFinal == Lifecycle!StrictSpec
=============================================================================
