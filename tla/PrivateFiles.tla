---------------------------- MODULE PrivateFiles ----------------------------
(***************************************************************************)
(* The file references that vehicle-service stores, the handlers that      *)
(* write them, upload-service's two buckets, and the script                *)
(* move-vehicle-documents-to-private.ts that moves documents to the        *)
(* private bucket while the service runs.                                  *)
(*                                                                         *)
(* A reference names an upload in one of three forms: "public" is          *)
(* {id, url}, "private" is {id, isPrivate: true}, and "bare" is an old     *)
(* {url} without an id.  References are kept in the file columns of a      *)
(* vehicle (a document table is the case of one column), in the payload    *)
(* of each change request, which has a key for every column, and in the    *)
(* vehicle's photos.                                                       *)
(***************************************************************************)
EXTENDS Naturals, FiniteSets

CONSTANTS
    Uploads,    \* upload ids of upload-service
    Columns,    \* permission_letter, vehicle_schedule
    Requests,   \* ids of change requests
    Photos,     \* ids of vehicle images
    Handlers,   \* concurrent HTTP requests
    Documents,  \* the row that holds the columns themselves
    Null,
    InitialFiles, \* what the columns may hold before the first run
    MaxDto,     \* bound on the columns one request names
    MaxEvents   \* bound on what happens beside the script: requests of
                \* clients, failed calls, crashes and lost files together

ASSUME RowsAssumption == Documents \notin Requests
ASSUME BoundsAssumption == MaxDto \in Nat /\ MaxEvents \in Nat

Rows == {Documents} \cup Requests

Ref == [id : Uploads, form : {"public", "private", "bare"}]
MaybeRef == Ref \cup {Null}
ASSUME IdsAssumption == Uploads \cap MaybeRef = {} /\ Null \notin Ref
Refs == [Columns -> MaybeRef]
ASSUME InitialAssumption ==
    /\ InitialFiles \subseteq Refs
    /\ \A f \in InitialFiles, c \in Columns : f[c] # Null => f[c].form # "private"
NoRefs == [c \in Columns |-> Null]
PrivateRef(u) == [id |-> u, form |-> "private"]

VARIABLES
    uploads,   \* upload-service: "public", "private" or "missing"
    files,     \* the references of every row
    requests,  \* status and changed fields of the change requests
    photos,    \* the reference of every image
    task,      \* what each handler has read and resolved so far
    script,    \* what the running script has read and has left to do
    exit,      \* how the last run ended
    disturbed, \* history: a client wrote or a call failed since a run began
    late,      \* history: uploads added as photos after the run read the photos
    events

store == <<uploads, files, requests, photos>>
job == <<script, exit>>
vars == <<store, task, job, disturbed, late, events>>

Named(ref, form) == ref # Null /\ ref.form = form
PhotoIds == {photos[p].id : p \in {q \in Photos : photos[q] # Null}}

(***************************************************************************)
(* Handlers.  `dto` holds what a client sent for some columns (or one      *)
(* photo): an upload still to be looked up, a resolved reference, or Null. *)
(***************************************************************************)
Idle == [op |-> "idle"]
Wish == Uploads \cup MaybeRef
Dtos(S, W) == UNION {[T -> W] : T \in {T \in SUBSET S : Cardinality(T) \in 1..MaxDto}}
Partial(S, W) == UNION {[T -> W] : T \in SUBSET S}
UpdateTask == [op : {"update"}, dto : Partial(Columns, Wish)]
SubmitTask == [op : {"submit"}, dto : Partial(Columns, Wish), seen : Refs]
AcceptTask == [op : {"accept"}, dto : Partial(Columns, MaybeRef), req : Requests]
PhotoTask == [op : {"photo"}, dto : Partial(Photos, Wish)]
Tasks == {Idle} \cup UpdateTask \cup SubmitTask \cup AcceptTask \cup PhotoTask

RequestStatus == {"unused", "pending", "decided", "deleted"}
RequestRow == [status : RequestStatus, changed : SUBSET Columns]

NotRunning == [phase |-> "idle", seen |-> [r \in Rows |-> NoRefs],
               photos |-> {}, work |-> {}, id |-> Null, again |-> FALSE]

\* Before the first run every file is public.
Init ==
    /\ uploads = [u \in Uploads |-> "public"]
    /\ files \in {[r \in Rows |-> IF r = Documents THEN f ELSE NoRefs] :
                    f \in InitialFiles}
    /\ requests = [r \in Requests |-> [status |-> "unused", changed |-> {}]]
    /\ photos \in [Photos -> {m \in MaybeRef : m # Null => m.form = "public"}]
    /\ task = [h \in Handlers |-> Idle]
    /\ script = NotRunning
    /\ exit = "none"
    /\ disturbed = TRUE
    /\ late = {}
    /\ events = 0

Event == events < MaxEvents /\ events' = events + 1

Start(h, t) ==
    /\ task[h] = Idle
    /\ Event
    /\ task' = [task EXCEPT ![h] = t]
    /\ UNCHANGED <<store, job, disturbed, late>>

\* A handler writes; what is written follows at each use.
Write(h) ==
    /\ task' = [task EXCEPT ![h] = Idle]
    /\ disturbed' = TRUE
    /\ UNCHANGED <<uploads, job, events>>

\* A refused file, a failed check or write, an unreachable upload-service,
\* or the process died: nothing was stored.
Abandon(h) ==
    /\ task[h] # Idle
    /\ task' = [task EXCEPT ![h] = Idle]
    /\ UNCHANGED <<store, job, disturbed, late, events>>

----------------------------------------------------------------------------
(***************************************************************************)
(* UploadOwnershipService.resolveFileRef.                                  *)
(***************************************************************************)

\* What a column may be asked to hold: nothing, the reference that was read
\* (the client sent its id, or the url of a bare one), or another upload.
Wishes(existing) ==
    {Null, existing} \cup
    {u \in Uploads : existing = Null \/ Named(existing, "bare")
                     \/ u # existing.id}

\* Mutant: a 404 of upload-service is taken for an answer.
LookupUnchecked(h, k) ==
    /\ task[h] # Idle /\ k \in DOMAIN task[h].dto
    /\ LET u == task[h].dto[k]
       IN /\ u \in Uploads
          /\ task' = [task EXCEPT ![h].dto[k] =
                                      [id |-> u, form |-> uploads[u]]]
    /\ UNCHANGED <<store, job, disturbed, late, events>>

\* lookup: the reference is rebuilt from upload-service's answer.
Lookup(h, k) ==
    /\ task[h] # Idle /\ k \in DOMAIN task[h].dto
    /\ LET u == task[h].dto[k]
       IN /\ u \in Uploads
          /\ uploads[u] # "missing"
          /\ task' = [task EXCEPT ![h].dto[k] =
                                      [id |-> u, form |-> uploads[u]]]
    /\ UNCHANGED <<store, job, disturbed, late, events>>

Resolved(h) == \A k \in DOMAIN task[h].dto : task[h].dto[k] \in MaybeRef

Overlay(refs, dto) == [c \in Columns |-> IF c \in DOMAIN dto THEN dto[c]
                                                            ELSE refs[c]]

----------------------------------------------------------------------------
(***************************************************************************)
(* Handlers that write references.                                         *)
(***************************************************************************)

StartUpdate(h, dto) ==
    /\ \A c \in DOMAIN dto : dto[c] \in Wishes(files[Documents][c])
    /\ Start(h, [op |-> "update", dto |-> dto])

UpdateDocuments(h) ==
    /\ task[h].op = "update" /\ Resolved(h)
    /\ files' = [files EXCEPT ![Documents] = Overlay(@, task[h].dto)]
    /\ Write(h)
    /\ UNCHANGED <<requests, photos, late>>

StartSubmit(h, dto) ==
    /\ \A c \in DOMAIN dto : dto[c] \in Wishes(files[Documents][c])
    /\ Start(h, [op |-> "submit", dto |-> dto, seen |-> files[Documents]])

\* The payload is a snapshot of every column, with the proposed ones changed.
SubmitCreate(h, r) ==
    /\ task[h].op = "submit" /\ Resolved(h)
    /\ requests[r].status = "unused"
    /\ \A q \in Requests : requests[q].status # "pending"
    /\ LET payload == Overlay(task[h].seen, task[h].dto)
           changed == {c \in Columns : payload[c] # task[h].seen[c]}
       IN /\ changed # {}
          /\ files' = [files EXCEPT ![r] = payload]
          /\ requests' = [requests EXCEPT ![r] = [status |-> "pending",
                                                  changed |-> changed]]
    /\ Write(h)
    /\ UNCHANGED <<photos, late>>

\* adminReview, ACCEPTED: the payload is read, and applied at the commit.
AcceptRead(h, r) ==
    /\ requests[r].status = "pending"
    /\ Start(h, [op |-> "accept", req |-> r,
                 dto |-> [c \in requests[r].changed |-> files[r][c]]])

AcceptWrite(h) ==
    /\ task[h].op = "accept"
    /\ requests[task[h].req].status \notin {"unused", "deleted"}
    /\ files' = [files EXCEPT ![Documents] = Overlay(@, task[h].dto)]
    /\ requests' = [requests EXCEPT ![task[h].req].status = "decided"]
    /\ Write(h)
    /\ UNCHANGED <<photos, late>>

\* A rejection, or the driver's cancellation.
Refuse(r) ==
    /\ requests[r].status = "pending"
    /\ Event
    /\ requests' = [requests EXCEPT ![r].status = "decided"]
    /\ UNCHANGED <<uploads, files, photos, task, job, disturbed, late>>

AdminRemove(r) ==
    /\ requests[r].status = "decided"
    /\ requests' = [requests EXCEPT ![r].status = "deleted"]
    /\ files' = [files EXCEPT ![r] = NoRefs]
    /\ disturbed' = TRUE
    /\ UNCHANGED <<uploads, photos, task, job, late, events>>

StartAddImage(h, p, u) == Start(h, [op |-> "photo", dto |-> [q \in {p} |-> u]])

AddImage(h, p) ==
    /\ task[h].op = "photo" /\ Resolved(h)
    /\ p \in DOMAIN task[h].dto
    /\ photos[p] = Null
    /\ photos' = [photos EXCEPT ![p] = task[h].dto[p]]
    /\ late' = late \cup (PhotoIds' \ PhotoIds)
    /\ Write(h)
    /\ UNCHANGED <<files, requests>>

DeleteImage(p) ==
    /\ photos[p] # Null
    /\ Event
    /\ photos' = [photos EXCEPT ![p] = Null]
    /\ disturbed' = TRUE
    /\ UNCHANGED <<uploads, files, requests, task, job, late>>

----------------------------------------------------------------------------
(***************************************************************************)
(* The script, with --apply.  loadReferences is one query per table; what  *)
(* is written between the queries is seen or not.                          *)
(***************************************************************************)
Work == [row : Rows, col : Columns, id : Uploads]

\* Mutant: the photos are not looked at.
NotShared(u) == FALSE

\* sharedWithPhotos
Shared(u) == u \in script.photos

Set(s) == script' = s

\* Every run loads everything anew; nothing is kept between runs.
LoadDocuments ==
    /\ script.phase = "idle"
    /\ Set([NotRunning EXCEPT !.phase = "documents",
                              !.seen[Documents] = files[Documents]])
    /\ disturbed' = FALSE
    /\ UNCHANGED <<store, task, exit, late, events>>

LoadRequests ==
    /\ script.phase = "documents"
    /\ Set([script EXCEPT !.phase = "requests",
              !.seen = [r \in Rows |-> IF r = Documents THEN @[r]
                                                        ELSE files[r]]])
    /\ UNCHANGED <<store, task, exit, disturbed, late, events>>

\* Mutant: references whose upload is private already are passed over.
CandidatesStillPublic(seen, matched) ==
    {w \in Work : LET ref == seen[w.row][w.col]
                  IN /\ ref # Null /\ ref.id = w.id
                     /\ uploads[w.id] # "private"
                     /\ \/ ref.form = "public"
                        \/ ref.form = "bare" /\ ref.id \in matched}

\* The references to rewrite: public ones, and bare ones whose url
\* upload-service matched.
Candidates(seen, matched) ==
    {w \in Work : LET ref == seen[w.row][w.col]
                  IN /\ ref # Null /\ ref.id = w.id
                     /\ \/ ref.form = "public"
                        \/ ref.form = "bare" /\ ref.id \in matched}

\* lookupByUrl may know an upload by its url, may not, and may have no route.
LoadPhotos ==
    /\ script.phase = "requests"
    /\ \E matched \in SUBSET {u \in Uploads : uploads[u] # "missing"} :
          Set([script EXCEPT !.phase = "move", !.photos = PhotoIds,
                             !.work = Candidates(script.seen, matched)])
    /\ late' = {}
    /\ UNCHANGED <<store, task, exit, disturbed, events>>

Without(u) == [script EXCEPT !.work = {w \in @ : w.id # u}]
Waiting(u) == script.phase = "move" /\ \E w \in script.work : w.id = u

SkipShared(u) ==
    /\ Waiting(u) /\ Shared(u)
    /\ Set(Without(u))
    /\ UNCHANGED <<store, task, exit, disturbed, late, events>>

SkipMissing(u) ==
    /\ Waiting(u) /\ ~Shared(u) /\ uploads[u] = "missing"
    /\ Set(Without(u))
    /\ UNCHANGED <<store, task, exit, disturbed, late, events>>

\* The move is idempotent: a private upload stays private.
MoveToPrivate(u) ==
    /\ Waiting(u) /\ ~Shared(u) /\ uploads[u] # "missing"
    /\ uploads' = [uploads EXCEPT ![u] = "private"]
    /\ Set([script EXCEPT !.phase = "rewrite", !.id = u])
    /\ UNCHANGED <<files, requests, photos, task, exit, disturbed, late, events>>

Fault == Event /\ disturbed' = TRUE

\* Mutant: after a failed move the references are rewritten all the same.
MoveFailsGoesOn(u) ==
    /\ Waiting(u) /\ ~Shared(u) /\ Fault
    /\ uploads' \in {uploads, [uploads EXCEPT ![u] =
                        IF @ = "missing" THEN @ ELSE "private"]}
    /\ Set([script EXCEPT !.phase = "rewrite", !.id = u, !.again = TRUE])
    /\ UNCHANGED <<files, requests, photos, task, exit, late>>

\* The call throws: refused, or the answer was lost after the file moved.
MoveFails(u) ==
    /\ Waiting(u) /\ ~Shared(u) /\ Fault
    /\ uploads' \in {uploads, [uploads EXCEPT ![u] =
                        IF @ = "missing" THEN @ ELSE "private"]}
    /\ Set([Without(u) EXCEPT !.again = TRUE])
    /\ UNCHANGED <<files, requests, photos, task, exit, late>>

\* Mutant: the payload as first read is the one expected, whatever the run
\* has written to it since.
RecordedStale(w) == script.seen

\* current: the column as the run has left it.
Recorded(w) == [script.seen EXCEPT ![w.row][w.col] = PrivateRef(w.id)]

\* Mutant: the row is written by its id, whatever it holds.
StillHoldsAlways(w) == TRUE

\* updateMany where the column equals what was read; a payload is one column.
StillHolds(w) ==
    IF w.row = Documents THEN files[w.row][w.col] = script.seen[w.row][w.col]
                         ELSE files[w.row] = script.seen[w.row]

\* privateColumnValue
Rewritten(w) ==
    [files EXCEPT ![w.row] =
        [(IF w.row = Documents THEN @ ELSE script.seen[w.row])
            EXCEPT ![w.col] = PrivateRef(w.id)]]

Rewriting(w) == script.phase = "rewrite" /\ w \in script.work
                /\ w.id = script.id

\* After its last reference an upload is done.
Past(w, s) ==
    LET left == s.work \ {w}
    IN IF \E v \in left : v.id = w.id
       THEN [s EXCEPT !.work = left]
       ELSE [s EXCEPT !.work = left, !.phase = "move", !.id = Null]

Rewrite(w) ==
    /\ Rewriting(w) /\ StillHolds(w)
    /\ files' = Rewritten(w)
    /\ Set(Past(w, [script EXCEPT !.seen = Recorded(w)]))
    /\ UNCHANGED <<uploads, requests, photos, task, exit, disturbed, late, events>>

\* conflicts: the row changed since it was read, or is gone.
Conflict(w) ==
    /\ Rewriting(w) /\ ~StillHolds(w)
    /\ Set(Past(w, [script EXCEPT !.again = TRUE]))
    /\ UNCHANGED <<store, task, exit, disturbed, late, events>>

\* The database call throws, before or after its effect.
RewriteFails(w) ==
    /\ Rewriting(w) /\ Fault
    /\ files' \in {files} \cup {f \in {Rewritten(w)} : StillHolds(w)}
    /\ Set(Past(w, [script EXCEPT !.again = TRUE]))
    /\ UNCHANGED <<uploads, requests, photos, task, exit, late>>

\* upload-service loses or deletes a file: from then on it answers 404.
FileLost(u) ==
    /\ uploads[u] # "missing" /\ Fault
    /\ uploads' = [uploads EXCEPT ![u] = "missing"]
    /\ UNCHANGED <<files, requests, photos, task, job, late>>

\* Exit code 0 only if nothing failed and no row had changed.
Finish ==
    /\ script.phase = "move" /\ script.work = {}
    /\ exit' = IF script.again THEN "failed" ELSE "ok"
    /\ Set(NotRunning)
    /\ UNCHANGED <<store, task, disturbed, late, events>>

\* The container stops, or loading throws.
Crash ==
    /\ script.phase # "idle" /\ Fault
    /\ exit' = "failed"
    /\ Set(NotRunning)
    /\ UNCHANGED <<store, task, late>>

----------------------------------------------------------------------------
ClientStep ==
    \/ \E h \in Handlers :
          \/ \E dto \in Dtos(Columns, Wish) : StartUpdate(h, dto) \/ StartSubmit(h, dto)
          \/ \E k \in Columns \cup Photos : Lookup(h, k)
          \/ UpdateDocuments(h) \/ AcceptWrite(h) \/ Abandon(h)
          \/ \E r \in Requests : SubmitCreate(h, r) \/ AcceptRead(h, r)
          \/ \E p \in Photos : AddImage(h, p)
          \/ \E p \in Photos, u \in Uploads : StartAddImage(h, p, u)
    \/ \E r \in Requests : Refuse(r) \/ AdminRemove(r)
    \/ \E p \in Photos : DeleteImage(p)

\* What a run does when no call fails.
ScriptStep ==
    \/ LoadRequests \/ LoadPhotos \/ Finish
    \/ \E u \in Uploads : SkipShared(u) \/ SkipMissing(u) \/ MoveToPrivate(u)
    \/ \E w \in Work : Rewrite(w) \/ Conflict(w)

Faults ==
    \/ Crash
    \/ \E u \in Uploads : MoveFails(u) \/ FileLost(u)
    \/ \E w \in Work : RewriteFails(w)

Next == LoadDocuments \/ ScriptStep \/ Faults \/ ClientStep

Spec == Init /\ [][Next]_vars

\* A started run goes on, and the operator runs the script again.
FairSpec == Spec /\ WF_vars(LoadDocuments) /\ WF_vars(ScriptStep)

----------------------------------------------------------------------------
ScriptState == [phase : {"idle", "documents", "requests", "move", "rewrite"},
                seen : [Rows -> Refs], photos : SUBSET Uploads,
                work : SUBSET Work, id : Uploads \cup {Null}, again : BOOLEAN]

\* Rows, tasks and the script's notes have the types of their declarations.
TypeOK ==
    /\ uploads \in [Uploads -> {"public", "private", "missing"}]
    /\ files \in [Rows -> Refs]
    /\ requests \in [Requests -> RequestRow]
    /\ photos \in [Photos -> MaybeRef]
    /\ task \in [Handlers -> Tasks]
    /\ script \in ScriptState
    /\ exit \in {"none", "ok", "failed"}
    /\ disturbed \in BOOLEAN
    /\ late \subseteq Uploads
    /\ events \in 0..MaxEvents

\* A reference stored without a url is of a file that really is in the
\* private bucket, or gone: neither a failed move, nor a lost answer, nor a
\* lookup raced by the script leaves a document that no one can open.
PrivateRefsArePrivate ==
    /\ \A r \in Rows, c \in Columns :
          Named(files[r][c], "private") => uploads[files[r][c].id] # "public"
    /\ \A p \in Photos :
          Named(photos[p], "private") => uploads[photos[p].id] # "public"

\* The script never loses an edit, its own included: where it changes a
\* reference, the new one is the private form of the same upload, however
\* the handlers and its two rewrites of one payload interleave.
ScriptKeepsFiles ==
    [][script' # script =>
         \A r \in Rows, c \in Columns :
            files'[r][c] # files[r][c] =>
               /\ files[r][c] # Null
               /\ files'[r][c] = PrivateRef(files[r][c].id)]_vars

MayStayPublic(u) == uploads[u] = "missing" \/ u \in PhotoIds
StillPublic == {w \in Work : /\ files[w.row][w.col] = [id |-> w.id, form |-> "public"]
                             /\ ~MayStayPublic(w.id)}

\* A run that nothing disturbed exits 0 and leaves no public reference in
\* any column or payload: its own writes are never taken for conflicts.
UndisturbedRunIsComplete ==
    script.phase = "idle" /\ ~disturbed => exit = "ok" /\ StillPublic = {}

\* Whatever clients write and whatever fails meanwhile, and in the runs
\* before it, a run never takes the public file of a photo, a photo added
\* while it was reading the tables included.  Only a photo added after it
\* read the photos may lose its file: see the README.
PhotosStayPublic ==
    [][script' # script =>
         \A u \in PhotoIds \ late :
            uploads[u] = "public" => uploads'[u] = "public"]_vars

\* Whatever crashed, failed or was edited meanwhile, running the script
\* again in the end leaves no public reference of a file it may move.
RerunsConverge == <>[](StillPublic = {})

\* After a run that exited 0, and while none is in progress, no public
\* reference of a private file is stored.  Not so: see the README.
ExitZeroLeavesNoDeadUrl ==
    script.phase = "idle" /\ exit = "ok" =>
        \A r \in Rows, c \in Columns :
            Named(files[r][c], "public") => uploads[files[r][c].id] # "private"
=============================================================================
