# Vehicle service: TLA+ models, checks and proofs

The vehicle service keeps the vehicles of drivers, the compliance documents of each vehicle, and the
change requests by which a driver proposes to change what an admin has already accepted. This
directory holds TLA+ models of its core, the TLC configurations that check them, and proofs that
TLAPS checks. Paths below are relative to the repository, with `src/src/...` the TypeScript sources
and `src/prisma/...` the schema and its migrations.

    tlc -workers 2 -config MCDocumentReview_requests.cfg MCDocumentReview
    tlapm DocumentReviewProofs.tla

## 1. Inventory

The service is a NestJS process in front of PostgreSQL (Prisma). It asks user-service who a driver
is, asks upload-service who owns a file, reads sessions and blocks from Redis, and sends
notifications over RabbitMQ. **All its durable state is in PostgreSQL**; a handler holds local
variables only. Several processes may run at once, so handlers interleave at every `await`, and
nothing in the code locks a row: the service relies on checks before writes, on three unique indexes
(two of them partial), foreign keys, and on one interactive transaction.

| Component | State | Operations | Hard behaviour | What makes it correct |
|---|---|---|---|---|
| Vehicles (`vehicle.service.ts`, `vehicle-mutation.policy.ts`) | `Vehicle`: profile, `isApproved`, `isActive`, `isDeleted`, plate | create, update, delete, approve, set active, optional-documents flag; internal archive, restore and delete by driver | check-then-write around calls to other services; archiving keeps the plate | a plate belongs to one vehicle; a driver does not change an approved vehicle |
| Images (`vehicle.service.ts`) | `VehicleImage` | list, get, add, delete | an image may share its file with a document that the script moves | an image keeps the file it shows public |
| Documents (`vehicle.service.ts`, `vehicle-document-mutation.policy.ts`, `reset-document-on-driver-resubmission.util.ts`) | six tables, each row with `status` PENDING / ACCEPTED / REJECTED and a content | create, update, delete; admin status through update or through a review endpoint; log-book upsert | the status read before the awaits decides what the write does | drivers change only what is not accepted; a resubmission is queued again |
| Document change requests (`vehicle-document-change-request.service.ts`, payload util) | `VehicleDocumentChangeRequest` | submit, cancel, admin review, admin remove | two handlers on one request; target changes while a request waits | one request waits per document; a decision is final; accepting writes the proposal alone |
| Vehicle change requests (`vehicle-change-request.service.ts`, payload util) | `VehicleChangeRequest` | submit, cancel, admin review, admin remove | the same, and the plate | the same, and the vehicle is approved when a request is decided |
| Status and expiry reads (`document-expiry.util.ts`, `document-review-status.util.ts`) | none | classify documents by date and status | boundaries of instants and days | five reads that filter by themselves agree |
| Listing (`adminListVehicles`) | none | search and filters | filters combined in one object | the list agrees with the expiry reads |
| Upload ownership (`upload-ownership.service.ts`) | none; reads upload-service | resolve a file reference | the old reference is written back when the id is the same; a legacy branch trusts the client's url | a stored reference is one that upload-service vouches for |
| Move-to-private script (`move-vehicle-documents-to-private.ts`) | rewrites file references | find, move, rewrite | runs beside the service; may stop between a move and its rewrites | it never overwrites an edit; a second run finishes the first |
| Notifications (`*-notification.util.ts`) | none | tell drivers and admins after a write | sent after the write, from what was read before it | the outcome told is the outcome stored |
| Authentication (`src/src/auth`) | Redis sessions | JWT, roles, internal key | session looked up once per request | only live sessions enter |
| Car API (`car-api.service.ts`) | in-memory cache | read through | time to live | - |
| Controllers, DTOs, bootstrap | none | routing, validation | - | - |

How they interact: controllers call the three services. The document handlers and the document
change requests share the document rows and no lock: accepting a request writes the document that
`update*` and `delete*` write too. The vehicle handlers and the vehicle change requests share the
vehicle rows the same way. Deleting a vehicle cascades in the database to its documents and
requests. Notifications are sent after the writes and change nothing that a handler reads.

What is hard to test in this code is listed line by line under `hazards` in `PROJECT.json`, each with
the properties that watch over it.

## 2. Modules

    ChangeRequestLifecycle      what both change-request services promise of a request
            ^  implements               ^  implements
    DocumentReview              VehicleProfile           who may write what, and when
            ^                           ^
    MCDocumentReview            MCVehicleProfile         instances for TLC
    DocumentReviewProofs        VehicleProfileProofs     proofs for TLAPS
            ^  extends                  ^  extends
    DocumentReviewSerialProofs  VehicleProfileSerialProofs   proofs for a serial server

                                                         ChangePayload    proposals and dates
                                                                ^  extends
    PrivateFiles                ReviewOutcome            DocumentExpiry   time and the reads
            ^                           ^                       ^
    MCPrivateFiles              MCReviewOutcome          MCDocumentExpiry
    PrivateFilesProofs          ReviewOutcomeProofs      DocumentExpiryProofs

**`ChangeRequestLifecycle`** is the abstract specification. A request has a status and a subject.
It is filed for a subject that has no other request waiting, it is decided, and it is removed only
when decided; a waiting request disappears only with its vehicle (`Purge`). `StrictSpec` decides
each request once, as the error messages of `cancel` and `adminReview` say. `LifecycleSpec` adds
`Overwrite`, a second decision over the first: that is what is left when handlers overlap.

**`DocumentReview`** is one vehicle, its documents of the six kinds and the requests about them.
`vehicle` is the row (`live`, `archived` by `isDeleted`, `deleted`), `docs` and `requests` are the
tables, and `task[h]` is what the handler `h` has read so far.

- A handler of the code is a short sequence of actions. `Start...` is the reads and checks up to
  the first value that is used after an await; the last action is the write. Where two reads
  can be separated by another handler's write and both matter, there are two actions:
  `AssertAcceptedTarget`, `FindExistingPending`, `CreateChangeRequest` for a submission;
  `ReviewReadRequest`, `ReviewReadTarget`, `ReviewAccept` or `ReviewReject` for a review;
  `CancelRead`, `CancelWrite`; `AdminRemoveRead`, `AdminRemoveDelete`. A check whose result is not
  used again is taken together with the read that is.
- The six kinds have an action each for create, update and delete, as the code has a method each;
  the three document-only kinds have a review endpoint, the other three take a status through
  create and update (`StatusOnCreate`, `StatusOnUpdate`).
- Writes go by id alone, as in the code: `Update` does not look again at the status.
  `StatusOnUpdate` uses the status that was read (`seen`) for the reset of a resubmission.
- Content is two fields: `document`, and `details` for the dates, numbers and type of a rich kind.
  A payload is a full snapshot and `changed` is the list of changed fields, as stored. A missing
  document is `Null`, which a log book may not store (`Storable`): an accept that would is refused.
- `adminReview` is a transaction at READ COMMITTED: its reads are steps of their own, its two
  writes one step at the commit.
- The partial unique index is `PendingIndexAllows`, a foreign key `VehicleReferenced`, the
  cascade `DeleteVehicle`.
- `Abandon` ends a handler without a write at any time: a check failed, another service refused,
  the database refused, or the process died.
- Ids are uuids: `UNUSED` is an id not given out yet, `DELETED` one whose row is gone, and an id is
  never used twice.

**`VehicleProfile`** is the vehicle rows of any number of drivers and the requests about them, in
the same style. A vehicle has a plate, `isActive` and `details` (make, model, year, colour, type,
file columns). `LiveHolders` is the search for a duplicate plate in `createVehicle` and
`updateVehicle`, which leaves archived rows out; `PlateIndexAllows` is the unique index, which does
not. A proposal is a function on the fields that change; the unchanged part of the stored snapshot
is left out, since the code applies the changed fields only and never stores an empty list. Archive,
restore and delete by driver, approve and set active are single statements and therefore single
actions. The plate search of `adminReview` spans all rows and is therefore the guard that the
index is.

**`PrivateFiles`** composes upload ownership, the handlers that store file references, the photos
and the script `move-vehicle-documents-to-private.ts`.

- A reference is an upload's id and a form: `public` for `{id, url}`, `private` for
  `{id, isPrivate: true}`, `bare` for the old `{url}`. `uploads` is upload-service's side: the bucket
  a file is in, or `missing` when it answers 404. `files` is the columns of the vehicle and, per
  change request, the columns in its payload.
- A handler reads the row (`Wishes` is what `resolveFileRef` may be asked: nothing, the stored
  reference again, another upload), looks each new upload up (`Lookup`, one call per file), and
  writes. The stored reference is answered from the row that was read, without a lookup, as in
  `upload-ownership.service.ts:142`.
- The script is one action per query, call and statement: the rows are loaded table by table
  (`LoadDocuments`, `LoadRequests`), then the photos; per upload a skip or a move; per reference a
  conditional rewrite (`StillHolds` is the `where` of `updateMany`; a payload is compared as a
  whole, against what the run has itself left in it, `Recorded`). `MoveFails` and `RewriteFails` are
  calls that throw before or after their effect; `Crash` is the container stopping at any point, and
  `LoadDocuments` a new run, for which nothing is kept.
- `disturbed` and `late` are history variables: whether a client wrote or a call failed since the run
  began, and the uploads that became photos after the run had read the photos. Of those alone a run may take the
  file, and nothing repairs the photo: the script rewrites documents only. The header of the script
  says that vehicle photos "stay public" (line 19); for a photo added in that window this fails, and
  `PhotosStayPublic` excuses it.

**`ReviewOutcome`** is what drivers are told: status, reason and age of the document rows, the flag
`requiestOptionalDocuments`, and the emails. A handler reads, awaits, writes, and decides from what
it read (`seen`) whether to send. The update of an inspection, insurance or PCO document awaits one
more query between its write and its email, so these are two steps (`SendOutcome`); the others send
right after the write. `upsertLogBookV5` is `StartUpsert` (the newest row), and then the create or the update that it
calls. `reason` is kept as whether there is one, and
`given` as the rejection it belongs to; `asked`, `mails` and `excused` count each time a document
became REJECTED or the flag true, the emails about it, and the times the handler decided on a read
that was stale by then, or failed between write and email.

**`ChangePayload`** holds the pure functions of `vehicle-document-change-payload.util.ts` and
`vehicle-document-datetime.util.ts`: how a proposal is built for each kind, which fields count as
changed, what an accepted payload writes, what a reviewer is shown. The document of an old row may
have a form that `pickMediaRef` turns into another (`Legacy`, `ReferenceOf`), and
`parseStoredChangedFields` drops the names that are no fields of the kind. Instants are ticks; a date alone
is the first tick of its day. A payload keeps a date as the client wrote it, and the day alone of a
date it took from the row.

**`DocumentExpiry`** extends it with rows, waiting requests and the time, and the reads: the expiry
of a driver's documents, the drivers with expired and with expiring documents, the review statuses,
and the admin's list with its search. Handlers are atomic there, since `DocumentReview` has their
interleavings; the reads are operators over one state, as each is a query or two with no write
between that the properties could see. Each read has filters of its own, as in the code: `Dated` in
what is selected of a vehicle, `ExpiredVehicles` and `ExpiringVehicles` with three alternatives each,
`DriverDocumentStatus` with the status that it shows. `sent` is the history of what a driver sent.
An initial state may hold a request of an earlier version of the service, without a list of changed
fields or with one of `FormerLists`.

In all modules what a client sends is chosen at the step that uses it, the driver is the owner
(others are refused with no effect), and an operator whose comment starts with `Mutant:` is a
plausible bug that stands beside the definition it would replace; no specification uses it.

## 3. Runs

Each `MC` module only adds the symmetry sets and, where a constant is a set of records, its value;
ids, handlers and values other than `Null` are interchangeable model values.
`CHECK_DEADLOCK FALSE` is right because the system may stop: the vehicle can be deleted and the
finite supply of ids used up, or the bounded number of calls and ticks spent. The runs of
`PrivateFiles` check deadlock: the script can always be run again.

| Run | Instance | Shows |
|---|---|---|
| `docs_requests` | 1 document, 2 requests, 2 handlers | types; `OnePendingPerTarget`; `NothingOutlivesTheVehicle`; the handlers implement `LifecycleSpec` |
| `docs_serial` | 1 document of any of the six kinds, 1 request, 1 handler, 3 values | `AcceptWritesOnlyProposal`, `DriversMutateOnlyUnlocked`, `ResubmissionIsQueued`, `DecidedOnlyOnAcceptedTarget`, `DecisionsAreFinal` |
| `docs_lock_race` | 1 document, 2 handlers | violates `DriversMutateOnlyUnlocked` |
| `docs_decision_race` | 1 document, 1 request, 2 handlers | violates `DecisionsAreFinal` |
| `docs_stuck_request` | 1 document, 1 request, 1 handler | violates `PendingCanBeReviewed` |
| `vehicles` | 2 vehicles, 2 plates, 2 requests, 2 handlers, plates only | types; `PlatesUnique`; `RequestsHaveVehicle`; `AcceptWritesOnlyProposal`; the handlers implement `LifecycleSpec` |
| `vehicles_serial` | 1 vehicle, all fields, 1 request, 1 handler | `AcceptWritesOnlyProposal`, `DriversMutateLiveUnapproved`, `DecidedOnlyWhileApproved`, `DecisionsAreFinal` |
| `vehicles_lock_race` | 1 vehicle, 2 handlers | violates `DriversChangeOnlyUnapproved` |
| `files_rerun` | 2 uploads, 2 columns, 1 request, 1 photo, 1 handler beside the script, 2 disturbances | types; `PrivateRefsArePrivate`, `ScriptKeepsFiles`, `UndisturbedRunIsComplete`, `PhotosStayPublic`; `RerunsConverge` under fairness |
| `files_stale_url` | the same | violates `ExitZeroLeavesNoDeadUrl` |
| `reviews_told` | 1 document with an update, 3 log books, 2 handlers, 5 calls | types; `ToldOnce`, `NoReasonOfThePast`, `UpsertsShareARow` |
| `expiry_dates` | 2 drivers, 2 vehicles, 2 documents, 2 ticks a day, 5 instants, 2 calls that write and any number of reviews | types; `ExpiryReadsAgree`, `DaysAreExact`, `NoChangeIsNoChange`; `ExpiryIsForeseen`, `AcceptKeepsTheRest`, `ReviewerSeesWhatIsApplied` |

**Why one handler and two.** A serial server (one handler; it may still be abandoned at any
point) is the reading under which the code's check-then-write promises are written, and the serial
runs show that the checks themselves are right and complete: dropping any of them is caught. Two
handlers are the smallest overlap. The promises the database enforces (indexes, foreign keys, the
transaction) are checked with overlap and hold. The ones that only a check before an await
enforces are violated with overlap; those runs are the findings.

**Bounds.** One document and two requests are enough for every conflict between requests, since
requests conflict only about one document; two vehicles and two plates are enough for a clash, a
swap, and a plate held by an archived vehicle. Two values of a field tell a stale value from a
fresh one; the serial run has a third, so that a log book, which is never without its document, can
change too. Ids are not reused, so a row can be deleted and not created again under its id;
what the code reads by id cannot tell. The proofs below take any number of everything.

In `PrivateFiles` two columns are what it takes for a payload with two references and for one file
in two places, and two uploads for one that is shared with a photo beside one that is not.
`MaxEvents = 2` counts everything beside the script, calls of clients and failures alike: one call
that overlaps a run and one failure, or two of either. `MaxDto = 1` lets a call name one column; a
payload has both all the same. In `ReviewOutcome` five calls are enough for a rejection, a
resubmission, a second rejection and two calls that overlap them; the three log books are enough for
two upserts at once and one after. In `DocumentExpiry` a day has two instants, so that midnight
differs from a time of day, and time runs over three days, so that each boundary of both horizons (1
and 2 days) is crossed; every kind of document occurs initially, accepted, with dates at a
time of day and an old form of a reference, beside another vehicle's insurance that is not accepted
yet; the lists of earlier versions are empty, of names unknown by now, or of both sorts. Calls
that write are bounded (`MaxEvents`), reviews and ticks are not, beyond `MaxTime`.

**Fairness.** One property is about progress: `RerunsConverge`, in `files_rerun`, whose
specification `FairSpec` adds weak fairness of `LoadDocuments` (the operator runs the script again,
as its header asks for after a failed run) and of `ScriptStep` (a run that was started goes on until it finishes, unless it
crashes). Failures are not fair, and are bounded by `MaxEvents`; no fairness is asked of clients. For
the rest none is assumed: a driver or an admin need never act, and a handler may end without its
write for reasons the service does not control (`Abandon`); nothing in the service retries. The one
promise of that sort, that a waiting request can be got rid of, is stated as the invariant
`PendingCanBeReviewed`, and fails.

### Findings

1. *An accepted document changes without review* (`docs_lock_race`). `updateInspection` and its
   siblings check the status they read, await upload-service, and update by id. If an admin accepts
   in between, the document stays ACCEPTED with content no admin has seen.
2. *A decision is overwritten* (`docs_decision_race`). `cancel` and `adminReview` read
   PENDING_REVIEW and write by id, and the transaction locks nothing: a request whose proposal has
   been applied may end as CANCELLED.
3. *A request that an admin can neither reject nor remove* (`docs_stuck_request`). `adminReview` refuses
   even a rejection when the target is no longer ACCEPTED or is gone, and `adminRemove` sends the
   admin back to `adminReview`. An admin may accept a rejected document again, only to reject the
   request; with a deleted document the request stays until the driver cancels it.
4. *An approved vehicle changes* (`vehicles_lock_race`). As 1, for `updateVehicle` and
   `deleteVehicle` against `adminApproveVehicle`.
5. *A dead url after a run that reports success* (`files_stale_url`). `resolveFileRef` answers from
   a row that was read before the script moved the file, or from a lookup before the move, and the
   handler stores the public url after the script has finished with exit code 0. Only another run
   repairs it, and the exit code asks for none.

A conditional write (`updateMany` with the status that was read in its `where`, as the move script
does) would close 1, 2 and 4. For 1 this is more than a guess: `OnlyStaleReadsUnlock` (section 4)
proves, for any number of handlers, that a driver's write hits an accepted document only where the
status is no longer the one that was read.

Divergences between a text and the code that no run could decide, since the code has nothing to
model there:

- `src/prisma/schema.prisma:78` says of the document groups "Mandatory before admin can approve the vehicle (each group
  needs ≥1 ACCEPTED row)"; `adminApproveVehicle` (`vehicle.service.ts:899`) looks at no document.
- `src/src/vehicle/dto/create-vehicle-inspection.dto.ts` calls the reason "required when status is REJECTED";
  nothing requires it.
- `src/src/vehicle/decorators/vehicle-swagger.decorator.ts:769` says the driver "is notified by email on status
  change"; only rejections and requests for documents are mailed, and the helpers for accepted
  documents and approved vehicles have no caller.

One more divergence is in the model, though no run is kept for it, since a single state and a single
query decide it: `src/src/vehicle/dto/list-vehicles-query.dto.ts:85` says of `isExpired` "When true, only vehicles
with at least one expired accepted document (inspection, insurance, or PCO)". In
`adminListVehicles` (`vehicle.service.ts:847-860`, and the operator of that name) `isExpired = true`
replaces the alternatives of the search by its own, and the drivers found by name are appended as
one more alternative: a search that finds a driver by name lists all vehicles of that driver, expired
or not, and what the search matched otherwise is dropped. `ExpiryReadsAgree` therefore speaks of
`isExpired = true` without a search only, and of `isExpired = false` under every search.

## 4. Proofs

Every property of a passing run is also the statement of a theorem, except `RerunsConverge`. The
theorems hold for any sets of documents, vehicles, drivers, requests, handlers, kinds, uploads and
values, any bounds, and any number of ticks to a day. Assumed of the constants, in the modules that
declare them and evaluated by TLC in every run:

- `DocumentReview`, `VehicleProfile`: the kinds and fields are the ones of the schema, and `Null` is
  an element of the values and of none of the other sets;
- `PrivateFiles`: ids, references, rows and `Null` are different things, and no file is private
  before the first run;
- `ReviewOutcome`: log books, other documents and the flag are different topics, and the handlers at
  work are finitely many;
- `ChangePayload`, `DocumentExpiry`: a day has at least one tick; `Null` is no date, instant, text,
  row, answer or list; no old form of a reference is a new one,
  and each has a new one or `Null`; each vehicle has a driver; the horizons are within 1 to 90 days, as the
  DTOs of the two reads validate; what is stored at first are rows and what is searched for are
  queries.

The two modules whose name ends in `SerialProofs` have one hypothesis more, `OneHandler`, in the
statement of each theorem.

`ChangeRequestLifecycle`
- `LifecycleSafe`: `LifecycleSpec => [](LifecycleTypeOK /\ OneWaitingPerSubject)`, inductive as it
  stands because filing looks and files in one step.

`DocumentReviewProofs`
- `TypeCorrect`. Each family of actions writes through `Start`, `Advance`, `WriteDoc` or
  `WriteRequest`, and a lemma about each reduces an action to the row or task it writes.
- `RemovalsStayDecided`: the strengthening. `adminRemove` deletes by id after its check, so that it
  deletes a *decided* request is not visible in the state it deletes in. `RemovalsDecided` says it:
  a handler about to remove holds a request that is decided or gone. It is inductive with `TypeOK`
  because no step leads from decided back to waiting, and ids are not reused.
- `ImplementsLifecycle`: `Spec => LifecycleSpec` under the mapping of `status` and `subject` to the
  columns of the rows. A submission's insert is `FileRequest` thanks to the partial unique index, a
  decision's write is `Decide` or `Overwrite`, a removal is `Remove` thanks to
  `RemovalsDecided`, the cascade is `Purge`, everything else stutters.
- `OnePending`: `[]OnePendingPerTarget`, from `LifecycleSafe` through the refinement.
- `AcceptWritesProposal`: the action property, for overlapping handlers too. Only `ReviewAccept` can
  make a status ACCEPTED, a stored request's list of changed fields is not empty, and a review that
  changes a document is `ReviewAccept` (`ReviewChangesByAccepting`), so that neither half of an
  acceptance is ever stored alone.
- `CascadeComplete`: `[]NothingOutlivesTheVehicle`. Every insert is guarded by the foreign key and
  no other write brings a row back.

- `OnlyStaleReadsUnlock`, `OnlyStaleReadsSkipTheQueue`: what is left of the drivers' promises when
  handlers overlap, which finding 1 shows to fail as they stand. If the document still has the status
  that the handler read, a driver's update or deletion does not touch an accepted one, and an update
  that changes content puts the document back in the queue. `SeenAllows` is the invariant: a handler
  in a mutation has passed `assertDriverMayMutateLiveVehicleDocument` with the status it remembers.

`DocumentReviewSerialProofs`, under `OneHandler == \E h : Handlers = {h}`
- `SerialReadsAreFresh`: `[]ReadsAreFresh`. A document that is about to be mutated has the status
  that was read, a request about to be decided or cancelled still waits, and the document of a
  request whose review has passed its checks is accepted. Between a read and its write only steps
  of the handler itself and of the vehicle (archive, restore, delete) are left, and of these only
  the delete touches documents and requests, by removing them; hence the "if it still exists" in
  each part.
- `SerialDriversAreLockedOut`, `SerialResubmissionsAreQueued`, `SerialDecisionsNeedAcceptance`: the
  properties of the run `docs_serial`, each from `ReadsAreFresh` and the handlers' checks.
- `SerialDecisionsAreFinal`: `Spec` implements `StrictSpec`. The refinement of `LifecycleSpec` is
  known already; a request that still waits is never overwritten (`NothingIsOverwritten`), so each
  step of `LifecycleNext` is one of `StrictNext`.

`VehicleProfileProofs`
- `VehiclesSound`: `[](TypeOK /\ RequestsHaveVehicle /\ PlatesUnique)`. The three are proved
  together: `ReviewAccept` writes the vehicle of the request without looking whether it exists, so
  its type needs `RequestsHaveVehicle`, which needs the cascade and the foreign key. `PlatesUnique`
  survives archiving and restoring because neither changes a plate, and every other write passes the
  index.
- `OnePlatePerVehicle`, `NoOrphanRequests`, `TypeCorrect` are its parts.
- `RemovalsStayDecided`, `ImplementsLifecycle`, `OnePendingPerVehicle`: as for documents. The
  refinement maps the deletion of a vehicle, by driver or internally, to `Purge`. One request
  waits per vehicle for any number of handlers, because of the partial unique index.
- `AcceptWritesProposal`: the action property, for any number of handlers, the vehicles of other
  requests included.

`VehicleProfileSerialProofs`, under `OneHandler`
- `SerialReadsAreFresh`, then `SerialDriversAreLockedOut`, `SerialDecisionsNeedApproval` and
  `SerialDecisionsAreFinal`, by the argument of the documents. Approving, activating and the
  internal archive, restore and delete are statements of a handler of their own, and so need the one
  handler to be idle.

`PrivateFilesProofs`
- `TypeCorrect`. Tasks hold partial functions of the columns, and the lemmas on `Partial` say what
  replacing one value of them does.
- `PrivateRefsStayPrivate`: `[]PrivateRefsArePrivate`. The strengthening says the same of every
  place a private reference can be on its way from or to: what a handler has looked up or read
  (`HandlersHold`), and that the file the script is rewriting has been moved (`FileMoved`). It is inductive because
  no step makes a file public again: a bucket only changes from public to private or to missing.
- `ScriptKeepsEveryFile`: the action property. `WorkIsSeen` ties what is left to do to what was
  read or written by the run itself, so a rewrite that passes `StillHolds` replaces a reference of
  the same upload, and leaves the rest of a payload as the run recorded it.
- `UndisturbedRunsComplete` comes from `RunInv`: while a run is undisturbed, what it has read is what
  is stored, nothing has failed, and every public reference that is not excused (missing, or shared
  with a photo) is either still to be loaded or left to do.
- `PhotosAreLeftAlone`, for runs that anything may disturb, comes from `PhotosKnown`: once a run has
  read the photos, each upload that a photo shows is one it read or one added later (`late`).

`ReviewOutcomeProofs`
- `TypeCorrect`: with `TypeOK`, that finitely many rows have been used, since a new row is as old as
  their number.
- `ReasonsAreCurrent`: `[]NoReasonOfThePast`. Two facts make it inductive: a row not used yet was
  never rejected, and only log books are reviewed by the endpoint that clears no reason.
- `UpsertsAreBounded`: `[]UpsertsShareARow`. A handler that found no row has promised one; rows made
  and rows promised together are at most the handlers. Rows are promised only when none is live,
  for which the newest of the live rows must exist when there are any: a set of naturals has a
  least element, by the well-foundedness theorems of the library.
- `DriversAreToldOnce`: `[]ToldOnce`. Emails sent and emails owed are counted together (`Told`): a
  round so far has one unless excused, a round to come none. That no round passes the bound of the
  counters follows from counting the busy handlers towards the calls.

`DocumentExpiryProofs`
- `TypeCorrect`. The lemmas before it say of each function of `ChangePayload` what it returns: a
  written date becomes an instant, the instant becomes a day alone when a proposal is built, and
  `Day` is idempotent and never later than its argument.
- `ReadsAgree`, `ShownDaysAreExact`: properties of the reads in any state of the right types. For the
  first each read is reduced to the same description by a lemma of its own (`DatedIs`,
  `ExpiredVehiclesAre`, `ExpiringVehiclesAre`, `ListedByExpiry`, `ShownAccepted`); the second rests on
  `DaysRoundUp`, rounding up with any divisor.
- `NoChangeIsRefusedRightly`: the list of changed fields is empty exactly when the proposal shows
  nothing that differs from the row, and then a direct write of the same fields would keep every day
  and every value.
- `NothingExpiresUnforeseen`: the action property of time. A tick turns only a document that
  expires at that instant, which the read with a horizon of a day listed before.
- `AcceptancesKeepTheRest`, `ReviewersSeeWhatIsApplied`: the step alone does not know what the driver
  had sent. `SentIsProposed` ties the history to the table: a request with a history is what the
  payload builder returns for the row of that moment and the fields that were sent, with a list of
  changes that is not empty (`HistoryIsTrue`).

Only model-checked: `RerunsConverge`, since liveness is out of the prover's reach, as are `ENABLED`
and induction over data. The serial promises are proved for one handler only, and no more is true:
`docs_lock_race`, `docs_decision_race` and `vehicles_lock_race` break them with two.

## 5. Not modelled

- The text of reasons, `driver_note`, `reviewed_by_id`, `updatedAt`: no guard depends on them.
- The emails about change requests: they follow each submission or decision unconditionally, best
  effort, and change nothing. `Abandon` ends a handler without them.
- A dry run of the script, which writes nothing, and its report.
- Paging, sorting and the equality filters of the lists; the aggregation of the review statuses
  into one; labels.
- `isActive` of archived vehicles as a property: the model has the behaviour, no document says what
  it means.
- Which url upload-service gives a file, and whether `lookupByUrl` still matches one that has moved:
  decided by a service outside the repository. `LoadPhotos` lets it match any set of files.
- What Prisma makes of a JavaScript `null` for a nullable JSON column: it may be stored (`Update`,
  `ReviewAccept` with `Null`) or refused (`Abandon`), and the properties hold for both.
- Permission letters and schedules in `ReviewOutcome`: they have the handlers of a log book but for
  the upsert, and a review that is the log book's line by line.
- Authentication, which decides role and driver before a handler starts; the Car API cache;
  controllers, DTOs, bootstrap and swagger text.
- Several vehicles in `DocumentReview`, `ReviewOutcome` and `PrivateFiles`: rows of different
  vehicles share nothing there.

## 6. Plan

Done, in this order: `ChangeRequestLifecycle`, `DocumentReview` and its proofs, `VehicleProfile` and
its proofs, `PrivateFiles` and its proofs, `ReviewOutcome` and its proofs, `ChangePayload` and
`DocumentExpiry` and its proofs, the serial promises.

Still worth proving: for the script, the safety half of `RerunsConverge`, that each step of an
undisturbed run leaves less to do, so that only fairness is missing; in `DocumentReview`, which steps
can make a waiting request one that no admin can end (finding 3). What `OnlyStaleReadsUnlock` says
for documents cannot be said for vehicles without a history variable, since their handlers keep
nothing of the approval they read.
