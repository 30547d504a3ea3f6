-------------------------- MODULE PrivateFilesProofs --------------------------
(***************************************************************************)
(* Theorems about PrivateFiles for any sets of uploads, columns, requests, *)
(* photos and handlers, however many calls and failures there are.         *)
(***************************************************************************)
EXTENDS PrivateFiles, TLAPS

(***************************************************************************)
(* The bodies that clients send: partial functions.                        *)
(***************************************************************************)
\* A body of bounded size is a body.
LEMMA DtoPartial ==
    ASSUME NEW S, NEW W, NEW dto \in Dtos(S, W)
    PROVE  dto \in Partial(S, W)
  BY DEF Dtos, Partial

\* What a partial function maps and to what.
LEMMA PartialValues ==
    ASSUME NEW S, NEW W, NEW dto \in Partial(S, W)
    PROVE  /\ DOMAIN dto \subseteq S
           /\ dto \in [DOMAIN dto -> W]
           /\ \A k \in DOMAIN dto : dto[k] \in W
  BY DEF Partial

\* Replacing a value keeps a partial function one.
LEMMA PartialExcept ==
    ASSUME NEW S, NEW W, NEW dto \in Partial(S, W),
           NEW k, NEW x \in W
    PROVE  [dto EXCEPT ![k] = x] \in Partial(S, W)
<1>1. PICK T \in SUBSET S : dto \in [T -> W]
  BY DEF Partial
<1>2. [dto EXCEPT ![k] = x] \in [T -> W]
  BY <1>1
<1>3. QED
  BY <1>2 DEF Partial

\* Columns overlaid with resolved references hold references.
LEMMA OverlayTyped ==
    ASSUME NEW refs \in Refs, NEW dto,
           \A k \in DOMAIN dto : dto[k] \in MaybeRef
    PROVE  Overlay(refs, dto) \in Refs
  BY DEF Overlay, Refs

(***************************************************************************)
(* Type correctness.  Requests start with a well-typed task; what a task   *)
(* holds then follows from its operation.                                  *)
(***************************************************************************)
\* The operation of a task tells which of the records it is.
LEMMA TaskKinds ==
    ASSUME TypeOK, NEW h \in Handlers
    PROVE  /\ task[h].op = "update" => task[h] \in UpdateTask
           /\ task[h].op = "submit" => task[h] \in SubmitTask
           /\ task[h].op = "accept" => task[h] \in AcceptTask
           /\ task[h].op = "photo" => task[h] \in PhotoTask
           /\ task[h] # Idle => task[h].op \in {"update", "submit", "accept", "photo"}
  BY DEF TypeOK, Tasks, Idle, UpdateTask, SubmitTask, AcceptTask, PhotoTask

\* The empty columns are columns.
LEMMA NoRefsTyped == NoRefs \in Refs
  BY DEF NoRefs, Refs, MaybeRef

\* A started request is well typed when its task is.
LEMMA StartTyped ==
    ASSUME TypeOK, NEW h \in Handlers, NEW t \in Tasks, Start(h, t)
    PROVE  TypeOK'
  BY BoundsAssumption DEF TypeOK, Start, Event, store, job

\* Everything starts well typed.
LEMMA InitTyped == Init => TypeOK
<1> SUFFICES ASSUME Init PROVE TypeOK
  OBVIOUS
<1>1. files \in [Rows -> Refs]
  BY InitialAssumption, NoRefsTyped DEF Init
<1>2. script \in ScriptState
  BY NoRefsTyped DEF Init, NotRunning, ScriptState
<1>3. task \in [Handlers -> Tasks]
  BY DEF Init, Tasks
<1>4. QED
  BY <1>1, <1>2, <1>3, BoundsAssumption DEF Init, TypeOK, RequestRow, RequestStatus

\* Every request that a client sends starts a well-typed task.
LEMMA StartsTyped ==
    ASSUME TypeOK, NEW h \in Handlers,
           \/ \E dto \in Dtos(Columns, Wish) : StartUpdate(h, dto) \/ StartSubmit(h, dto)
           \/ \E r \in Requests : AcceptRead(h, r)
           \/ \E p \in Photos, u \in Uploads : StartAddImage(h, p, u)
    PROVE  TypeOK'
<1>1. CASE \E dto \in Dtos(Columns, Wish) : StartUpdate(h, dto)
  <2>1. PICK dto \in Dtos(Columns, Wish) : StartUpdate(h, dto)
    BY <1>1
  <2>2. [op |-> "update", dto |-> dto] \in Tasks
    BY DtoPartial DEF Tasks, UpdateTask
  <2>3. QED
    BY <2>1, <2>2, StartTyped DEF StartUpdate
<1>2. CASE \E dto \in Dtos(Columns, Wish) : StartSubmit(h, dto)
  <2>1. PICK dto \in Dtos(Columns, Wish) : StartSubmit(h, dto)
    BY <1>2
  <2>2. files[Documents] \in Refs
    BY DEF TypeOK, Rows
  <2>3. [op |-> "submit", dto |-> dto, seen |-> files[Documents]] \in Tasks
    BY <2>2, DtoPartial DEF Tasks, SubmitTask
  <2>4. QED
    BY <2>1, <2>3, StartTyped DEF StartSubmit
<1>3. CASE \E r \in Requests : AcceptRead(h, r)
  <2>1. PICK r \in Requests : AcceptRead(h, r)
    BY <1>3
  <2> DEFINE dto == [c \in requests[r].changed |-> files[r][c]]
  <2>2. files[r] \in Refs /\ requests[r].changed \in SUBSET Columns
    BY DEF TypeOK, Rows, RequestRow
  <2>3. dto \in Partial(Columns, MaybeRef)
    BY <2>2 DEF Partial, Refs
  <2>4. [op |-> "accept", req |-> r, dto |-> dto] \in Tasks
    BY <2>3 DEF Tasks, AcceptTask
  <2>5. QED
    BY <2>1, <2>4, StartTyped DEF AcceptRead
<1>4. CASE \E p \in Photos, u \in Uploads : StartAddImage(h, p, u)
  <2>1. PICK p \in Photos, u \in Uploads : StartAddImage(h, p, u)
    BY <1>4
  <2>2. [q \in {p} |-> u] \in Partial(Photos, Wish)
    <3>1. {p} \in SUBSET Photos /\ u \in Wish
      BY DEF Wish
    <3>2. [q \in {p} |-> u] \in [{p} -> Wish]
      BY <3>1
    <3>3. QED
      BY <3>1, <3>2 DEF Partial
  <2>3. [op |-> "photo", dto |-> [q \in {p} |-> u]] \in Tasks
    BY <2>2 DEF Tasks, PhotoTask
  <2>4. QED
    BY <2>1, <2>3, StartTyped DEF StartAddImage
<1>5. QED
  BY <1>1, <1>2, <1>3, <1>4

\* A looked up reference replaces an upload in a task of any kind.
LEMMA LookupTyped ==
    ASSUME TypeOK, NEW h \in Handlers, NEW k, Lookup(h, k)
    PROVE  TypeOK'
<1> DEFINE u == task[h].dto[k]
           ref == [id |-> u, form |-> uploads[u]]
           dto == [task[h].dto EXCEPT ![k] = ref]
<1>1. u \in Uploads /\ ref \in MaybeRef /\ ref \in Wish
  BY DEF TypeOK, Lookup, MaybeRef, Ref, Wish
<1>2. [task[h] EXCEPT !.dto = dto] \in Tasks
  <2>1. CASE task[h].op = "update"
    <3>1. task[h] \in UpdateTask
      BY <2>1, TaskKinds
    <3>2. dto \in Partial(Columns, Wish)
      BY <3>1, <1>1, PartialExcept DEF UpdateTask
    <3>3. QED
      BY <3>1, <3>2 DEF UpdateTask, Tasks
  <2>2. CASE task[h].op = "submit"
    <3>1. task[h] \in SubmitTask
      BY <2>2, TaskKinds
    <3>2. dto \in Partial(Columns, Wish)
      BY <3>1, <1>1, PartialExcept DEF SubmitTask
    <3>3. QED
      BY <3>1, <3>2 DEF SubmitTask, Tasks
  <2>3. CASE task[h].op = "accept"
    <3>1. task[h] \in AcceptTask
      BY <2>3, TaskKinds
    <3>2. dto \in Partial(Columns, MaybeRef)
      BY <3>1, <1>1, PartialExcept DEF AcceptTask
    <3>3. QED
      BY <3>1, <3>2 DEF AcceptTask, Tasks
  <2>4. CASE task[h].op = "photo"
    <3>1. task[h] \in PhotoTask
      BY <2>4, TaskKinds
    <3>2. dto \in Partial(Photos, Wish)
      BY <3>1, <1>1, PartialExcept DEF PhotoTask
    <3>3. QED
      BY <3>1, <3>2 DEF PhotoTask, Tasks
  <2>5. QED
    BY <2>1, <2>2, <2>3, <2>4, TaskKinds DEF Lookup
<1>3. task' = [task EXCEPT ![h] = [task[h] EXCEPT !.dto = dto]]
  BY DEF Lookup, TypeOK
<1>4. task' \in [Handlers -> Tasks]
  BY <1>2, <1>3 DEF TypeOK
<1>5. QED
  BY <1>4 DEF TypeOK, Lookup, store, job

\* A task that is resolved holds references alone.
LEMMA ResolvedTyped ==
    ASSUME TypeOK, NEW h \in Handlers, Resolved(h)
    PROVE  \A refs \in Refs : Overlay(refs, task[h].dto) \in Refs
  BY OverlayTyped DEF Resolved

\* An acceptance holds references from the start.
LEMMA AcceptResolved ==
    ASSUME TypeOK, NEW h \in Handlers, task[h].op = "accept"
    PROVE  Resolved(h) /\ task[h].req \in Requests
<1>1. task[h] \in AcceptTask
  BY TaskKinds
<1>2. QED
  BY <1>1, PartialValues DEF AcceptTask, Resolved

\* The writes of the handlers keep the types.
LEMMA WritesTyped ==
    ASSUME TypeOK, NEW h \in Handlers,
           \/ UpdateDocuments(h) \/ AcceptWrite(h) \/ Abandon(h)
           \/ \E r \in Requests : SubmitCreate(h, r)
           \/ \E p \in Photos : AddImage(h, p)
    PROVE  TypeOK'
<1>1. Idle \in Tasks
  BY DEF Tasks
<1>2. files \in [Rows -> Refs] /\ files[Documents] \in Refs
  BY DEF TypeOK, Rows
<1>3. CASE UpdateDocuments(h)
  <2>1. files' \in [Rows -> Refs]
    BY <1>2, <1>3, ResolvedTyped DEF UpdateDocuments
  <2>2. QED
    BY <2>1, <1>1, <1>3 DEF TypeOK, UpdateDocuments, Write, job
<1>4. CASE AcceptWrite(h)
  <2>1. Resolved(h) /\ task[h].req \in Requests
    BY <1>4, AcceptResolved DEF AcceptWrite
  <2>2. files' \in [Rows -> Refs]
    BY <2>1, <1>2, <1>4, ResolvedTyped DEF AcceptWrite
  <2>3. requests' \in [Requests -> RequestRow]
    BY <2>1, <1>4 DEF TypeOK, AcceptWrite, RequestRow, RequestStatus
  <2>4. QED
    BY <2>2, <2>3, <1>1, <1>4 DEF TypeOK, AcceptWrite, Write, job
<1>5. CASE Abandon(h)
  BY <1>1, <1>5 DEF TypeOK, Abandon, store, job
<1>6. CASE \E r \in Requests : SubmitCreate(h, r)
  <2>1. PICK r \in Requests : SubmitCreate(h, r)
    BY <1>6
  <2>2. task[h] \in SubmitTask
    BY <2>1, TaskKinds DEF SubmitCreate
  <2>3. Overlay(task[h].seen, task[h].dto) \in Refs
    BY <2>1, <2>2, ResolvedTyped DEF SubmitTask, SubmitCreate
  <2>4. files' \in [Rows -> Refs] /\ requests' \in [Requests -> RequestRow]
    BY <2>1, <2>3, <1>2 DEF TypeOK, SubmitCreate, RequestRow, RequestStatus
  <2>5. QED
    BY <2>1, <2>4, <1>1 DEF TypeOK, SubmitCreate, Write, job
<1>7. CASE \E p \in Photos : AddImage(h, p)
  <2>1. PICK p \in Photos : AddImage(h, p)
    BY <1>7
  <2>2. task[h].dto[p] \in MaybeRef
    BY <2>1 DEF AddImage, Resolved
  <2>3. photos' \in [Photos -> MaybeRef]
    BY <2>1, <2>2 DEF AddImage, TypeOK
  <2>4. late' \subseteq Uploads
    BY <2>1, <2>3 DEF AddImage, TypeOK, PhotoIds, MaybeRef, Ref
  <2>5. QED
    BY <2>1, <2>3, <2>4, <1>1 DEF TypeOK, AddImage, Write, job
<1>8. QED
  BY <1>3, <1>4, <1>5, <1>6, <1>7

\* Decisions and removals keep the types.
LEMMA RemovalsTyped ==
    ASSUME TypeOK,
           \/ \E r \in Requests : Refuse(r) \/ AdminRemove(r)
           \/ \E p \in Photos : DeleteImage(p)
    PROVE  TypeOK'
<1>1. CASE \E r \in Requests : Refuse(r)
  BY <1>1, BoundsAssumption
     DEF TypeOK, Refuse, Event, RequestRow, RequestStatus, job
<1>2. CASE \E r \in Requests : AdminRemove(r)
  <2>1. files' \in [Rows -> Refs]
    BY <1>2, NoRefsTyped DEF TypeOK, AdminRemove
  <2>2. requests' \in [Requests -> RequestRow]
    BY <1>2 DEF TypeOK, AdminRemove, RequestRow, RequestStatus
  <2>3. QED
    BY <2>1, <2>2, <1>2 DEF TypeOK, AdminRemove, job
<1>3. CASE \E p \in Photos : DeleteImage(p)
  BY <1>3, BoundsAssumption DEF TypeOK, DeleteImage, Event, MaybeRef, job
<1>4. QED
  BY <1>1, <1>2, <1>3

(***************************************************************************)
(* The script's notes keep their types.                                    *)
(***************************************************************************)
\* What is left to do after a move or a skip.
LEMMA WithoutTyped ==
    ASSUME script \in ScriptState, NEW u
    PROVE  Without(u) \in ScriptState
  BY DEF Without, ScriptState

\* What is left to do after a rewrite.
LEMMA PastTyped ==
    ASSUME NEW s \in ScriptState, NEW w
    PROVE  Past(w, s) \in ScriptState
<1>1. s.work \ {w} \subseteq Work
  BY DEF ScriptState
<1>2. CASE \E v \in s.work \ {w} : v.id = w.id
  BY <1>1, <1>2 DEF Past, ScriptState
<1>3. CASE ~ \E v \in s.work \ {w} : v.id = w.id
  BY <1>1, <1>3 DEF Past, ScriptState
<1>4. QED
  BY <1>2, <1>3

\* The row that a rewrite leaves holds references.
LEMMA RewrittenTyped ==
    ASSUME TypeOK, NEW w \in Work
    PROVE  /\ Rewritten(w) \in [Rows -> Refs]
           /\ Recorded(w) \in [Rows -> Refs]
<1>1. w.row \in Rows /\ w.col \in Columns /\ PrivateRef(w.id) \in MaybeRef
  BY DEF Work, PrivateRef, MaybeRef, Ref
<1>2. \A refs \in Refs : [refs EXCEPT ![w.col] = PrivateRef(w.id)] \in Refs
  BY <1>1 DEF Refs
<1>3. files \in [Rows -> Refs] /\ script.seen \in [Rows -> Refs]
  BY DEF TypeOK, ScriptState
<1>4. Recorded(w) \in [Rows -> Refs]
  BY <1>1, <1>2, <1>3 DEF Recorded
<1> DEFINE before == IF w.row = Documents THEN files[w.row] ELSE script.seen[w.row]
<1>5. before \in Refs
  BY <1>1, <1>3
<1>6. [before EXCEPT ![w.col] = PrivateRef(w.id)] \in Refs
  BY <1>2, <1>5
<1>7. Rewritten(w) = [files EXCEPT ![w.row] = [before EXCEPT ![w.col] = PrivateRef(w.id)]]
  BY DEF Rewritten
<1> HIDE DEF before
<1>8. Rewritten(w) \in [Rows -> Refs]
  BY <1>3, <1>6, <1>7
<1>9. QED
  BY <1>4, <1>8

\* Loading, and the end of a run, keep the types.
LEMMA LoadsTyped ==
    ASSUME TypeOK, LoadDocuments \/ LoadRequests \/ LoadPhotos \/ Finish \/ Crash
    PROVE  TypeOK'
<1>1. script \in ScriptState /\ files \in [Rows -> Refs] /\ NotRunning \in ScriptState
  BY NoRefsTyped DEF TypeOK, NotRunning, ScriptState
<1>2. CASE LoadDocuments
  <2>1. script' \in ScriptState
    BY <1>1, <1>2 DEF LoadDocuments, Set, NotRunning, ScriptState, Rows
  <2>2. QED
    BY <2>1, <1>2 DEF TypeOK, LoadDocuments, store
<1>3. CASE LoadRequests
  <2>1. [r \in Rows |-> IF r = Documents THEN script.seen[r] ELSE files[r]] \in [Rows -> Refs]
    BY <1>1 DEF ScriptState
  <2>2. script' \in ScriptState
    BY <2>1, <1>1, <1>3 DEF LoadRequests, Set, ScriptState
  <2>3. QED
    BY <2>2, <1>3 DEF TypeOK, LoadRequests, store
<1>4. CASE LoadPhotos
  <2>1. PICK matched \in SUBSET Uploads :
          Set([script EXCEPT !.phase = "move", !.photos = PhotoIds,
                             !.work = Candidates(script.seen, matched)])
    BY <1>4 DEF LoadPhotos
  <2>2. Candidates(script.seen, matched) \subseteq Work
    BY DEF Candidates
  <2>3. PhotoIds \in SUBSET Uploads
    BY DEF PhotoIds, TypeOK, MaybeRef, Ref
  <2>4. script' \in ScriptState
    BY <2>1, <2>2, <2>3, <1>1 DEF Set, ScriptState
  <2>5. QED
    BY <2>4, <1>4 DEF TypeOK, LoadPhotos, store
<1>5. CASE Finish
  BY <1>1, <1>5 DEF TypeOK, Finish, Set, store
<1>6. CASE Crash
  BY <1>1, <1>6, BoundsAssumption DEF TypeOK, Crash, Set, Fault, Event, store
<1>7. QED
  BY <1>2, <1>3, <1>4, <1>5, <1>6

\* What happens to one upload keeps the types.
LEMMA MovesTyped ==
    ASSUME TypeOK, NEW u \in Uploads,
           \/ SkipShared(u) \/ SkipMissing(u) \/ MoveToPrivate(u)
           \/ MoveFails(u) \/ FileLost(u)
    PROVE  TypeOK'
<1>1. script \in ScriptState /\ Without(u) \in ScriptState
  BY WithoutTyped DEF TypeOK
<1>2. CASE SkipShared(u)
  BY <1>1, <1>2 DEF TypeOK, SkipShared, Set, store
<1>3. CASE SkipMissing(u)
  BY <1>1, <1>3 DEF TypeOK, SkipMissing, Set, store
<1>4. CASE MoveToPrivate(u)
  <2>1. script' \in ScriptState
    BY <1>1, <1>4 DEF MoveToPrivate, Set, ScriptState
  <2>2. QED
    BY <2>1, <1>4 DEF TypeOK, MoveToPrivate
<1>5. CASE MoveFails(u)
  <2>1. script' \in ScriptState
    BY <1>1, <1>5 DEF MoveFails, Set, ScriptState
  <2>2. uploads' \in [Uploads -> {"public", "private", "missing"}]
    BY <1>5 DEF MoveFails, TypeOK
  <2>3. QED
    BY <2>1, <2>2, <1>5, BoundsAssumption DEF TypeOK, MoveFails, Fault, Event
<1>6. CASE FileLost(u)
  <2>1. uploads' \in [Uploads -> {"public", "private", "missing"}]
    BY <1>6 DEF FileLost, TypeOK
  <2>2. QED
    BY <2>1, <1>6, BoundsAssumption DEF TypeOK, FileLost, Fault, Event, job
<1>7. QED
  BY <1>2, <1>3, <1>4, <1>5, <1>6

\* The rewrite of one reference keeps the types, failed or not.
LEMMA RewritesTyped ==
    ASSUME TypeOK, NEW w \in Work, Rewrite(w) \/ Conflict(w) \/ RewriteFails(w)
    PROVE  TypeOK'
<1>1. script \in ScriptState
  BY DEF TypeOK
<1>2. /\ [script EXCEPT !.seen = Recorded(w)] \in ScriptState
      /\ [script EXCEPT !.again = TRUE] \in ScriptState
  BY <1>1, RewrittenTyped DEF ScriptState
<1>3. CASE Rewrite(w)
  <2>1. script' \in ScriptState
    BY <1>2, <1>3, PastTyped DEF Rewrite, Set
  <2>2. files' \in [Rows -> Refs]
    BY <1>3, RewrittenTyped DEF Rewrite
  <2>3. QED
    BY <2>1, <2>2, <1>3 DEF TypeOK, Rewrite
<1>4. CASE Conflict(w)
  <2>1. script' \in ScriptState
    BY <1>2, <1>4, PastTyped DEF Conflict, Set
  <2>2. QED
    BY <2>1, <1>4 DEF TypeOK, Conflict, store
<1>5. CASE RewriteFails(w)
  <2>1. script' \in ScriptState
    BY <1>2, <1>5, PastTyped DEF RewriteFails, Set
  <2>2. files' \in [Rows -> Refs]
    BY <1>5, RewrittenTyped DEF RewriteFails, TypeOK
  <2>3. QED
    BY <2>1, <2>2, <1>5, BoundsAssumption DEF TypeOK, RewriteFails, Fault, Event
<1>6. QED
  BY <1>3, <1>4, <1>5

\* Every step is one of the families of steps above.
LEMMA StepKinds ==
    ASSUME Next
    PROVE  \/ \E h \in Handlers :
                 \/ \E dto \in Dtos(Columns, Wish) : StartUpdate(h, dto) \/ StartSubmit(h, dto)
                 \/ \E r \in Requests : AcceptRead(h, r)
                 \/ \E p \in Photos, u \in Uploads : StartAddImage(h, p, u)
           \/ \E h \in Handlers, k \in Columns \cup Photos : Lookup(h, k)
           \/ \E h \in Handlers :
                 \/ UpdateDocuments(h) \/ AcceptWrite(h) \/ Abandon(h)
                 \/ \E r \in Requests : SubmitCreate(h, r)
                 \/ \E p \in Photos : AddImage(h, p)
           \/ \E r \in Requests : Refuse(r) \/ AdminRemove(r)
           \/ \E p \in Photos : DeleteImage(p)
           \/ LoadDocuments \/ LoadRequests \/ LoadPhotos \/ Finish \/ Crash
           \/ \E u \in Uploads : \/ SkipShared(u) \/ SkipMissing(u) \/ MoveToPrivate(u)
                                 \/ MoveFails(u) \/ FileLost(u)
           \/ \E w \in Work : Rewrite(w) \/ Conflict(w) \/ RewriteFails(w)
  BY Zenon DEF Next, ClientStep, ScriptStep, Faults

\* Every step keeps the types.
LEMMA NextTyped == TypeOK /\ [Next]_vars => TypeOK'
<1> SUFFICES ASSUME TypeOK, [Next]_vars PROVE TypeOK'
  OBVIOUS
<1>1. CASE Next
  BY <1>1, StepKinds, StartsTyped, LookupTyped, WritesTyped, RemovalsTyped,
     LoadsTyped, MovesTyped, RewritesTyped, Zenon
<1>2. CASE UNCHANGED vars
  BY <1>2 DEF TypeOK, vars, store, job
<1>3. QED
  BY <1>1, <1>2

\* Rows, tasks and the notes of the script have the types of their
\* declarations, in every state.
THEOREM TypeCorrect == Spec => []TypeOK
<1>1. Init => TypeOK
  BY InitTyped
<1>2. TypeOK /\ [Next]_vars => TypeOK'
  BY NextTyped
<1>3. QED
  BY <1>1, <1>2, PTL DEF Spec

(***************************************************************************)
(* PrivateRefsArePrivate is not inductive: what is about to be written     *)
(* counts too.  A handler that resolved a reference, or read one, stores   *)
(* it later, and the script rewrites after the move.                       *)
(***************************************************************************)
Honest(up, x) == x \in MaybeRef /\ Named(x, "private") => up[x.id] # "public"

HandlersHold ==
    \A h \in Handlers :
        /\ task[h] # Idle => \A k \in DOMAIN task[h].dto : Honest(uploads, task[h].dto[k])
        /\ task[h].op = "submit" => \A c \in Columns : Honest(uploads, task[h].seen[c])

FileMoved == script.phase = "rewrite" =>
                script.id \in Uploads /\ uploads[script.id] # "public"

PrivateInv == TypeOK /\ PrivateRefsArePrivate /\ HandlersHold /\ FileMoved

\* No file ever becomes public again.
LEMMA NeverPublicAgain ==
    ASSUME TypeOK, [Next]_vars
    PROVE  \A u \in Uploads : uploads[u] # "public" => uploads'[u] # "public"
<1>1. \/ UNCHANGED uploads
      \/ \E u \in Uploads : MoveToPrivate(u) \/ MoveFails(u) \/ FileLost(u)
  <2>1. CASE UNCHANGED vars
    BY <2>1 DEF vars, store
  <2>2. CASE Next
    BY <2>2, StepKinds
       DEF StartUpdate, StartSubmit, AcceptRead, StartAddImage, Start, Lookup,
           UpdateDocuments, AcceptWrite, Abandon, SubmitCreate, AddImage, Write,
           Refuse, AdminRemove, DeleteImage, LoadDocuments, LoadRequests,
           LoadPhotos, Finish, Crash, SkipShared, SkipMissing, Rewrite, Conflict,
           RewriteFails, store
  <2>3. QED
    BY <2>1, <2>2
<1>2. CASE \E u \in Uploads : MoveToPrivate(u) \/ MoveFails(u) \/ FileLost(u)
  BY <1>2 DEF TypeOK, MoveToPrivate, MoveFails, FileLost
<1>3. QED
  BY <1>1, <1>2

\* A reference once honest stays so.
LEMMA HonestStays ==
    ASSUME TypeOK, [Next]_vars, NEW x, Honest(uploads, x)
    PROVE  Honest(uploads', x)
  BY NeverPublicAgain DEF Honest, Named, MaybeRef, Ref

\* An honest overlay of honest columns is honest.
LEMMA OverlayHonest ==
    ASSUME NEW up, NEW refs, NEW dto,
           \A c \in Columns : Honest(up, refs[c]),
           \A k \in DOMAIN dto : Honest(up, dto[k])
    PROVE  \A c \in Columns : Honest(up, Overlay(refs, dto)[c])
  BY DEF Overlay

\* PrivateRefsArePrivate says that all stored references are honest.
LEMMA StoredHonest ==
    ASSUME TypeOK
    PROVE  PrivateRefsArePrivate <=>
             /\ \A r \in Rows, c \in Columns : Honest(uploads, files[r][c])
             /\ \A p \in Photos : Honest(uploads, photos[p])
  BY DEF TypeOK, Refs, PrivateRefsArePrivate, Honest

\* Nothing at all is an honest reference.
LEMMA NullHonest == ASSUME NEW up PROVE Honest(up, Null)
  BY DEF Honest, Named

\* What the script writes is honest: it has moved the file.
LEMMA RewrittenHonest ==
    ASSUME PrivateInv, NEW w \in Work, Rewriting(w), StillHolds(w)
    PROVE  \A r \in Rows, c \in Columns : Honest(uploads, Rewritten(w)[r][c])
<1>1. \A r \in Rows, c \in Columns : Honest(uploads, files[r][c])
  BY StoredHonest DEF PrivateInv
<1>2. Honest(uploads, PrivateRef(w.id))
  BY DEF PrivateInv, FileMoved, Rewriting, Honest, PrivateRef
<1>3. w.row \in Rows /\ w.col \in Columns
  BY DEF Work
<1>4. files \in [Rows -> Refs]
  BY DEF PrivateInv, TypeOK
<1>5. Rewritten(w) = [files EXCEPT ![w.row] = [files[w.row] EXCEPT ![w.col] = PrivateRef(w.id)]]
  BY DEF StillHolds, Rewritten
<1> SUFFICES ASSUME NEW r \in Rows, NEW c \in Columns
             PROVE  Honest(uploads, Rewritten(w)[r][c])
  OBVIOUS
<1>6. files[w.row] \in Refs
  BY <1>3, <1>4
<1>7. CASE r = w.row /\ c = w.col
  BY <1>2, <1>3, <1>4, <1>5, <1>6, <1>7 DEF Refs
<1>8. CASE ~ (r = w.row /\ c = w.col)
  <2>1. Rewritten(w)[r][c] = files[r][c]
    BY <1>3, <1>4, <1>5, <1>6, <1>8 DEF Refs
  <2>2. QED
    BY <2>1, <1>1
<1>9. QED
  BY <1>7, <1>8

\* Every step leaves honest files and photos.
LEMMA StoredStep ==
    ASSUME PrivateInv, [Next]_vars
    PROVE  /\ \A r \in Rows, c \in Columns : Honest(uploads, files'[r][c])
           /\ \A p \in Photos : Honest(uploads, photos'[p])
<1>1. TypeOK
  BY DEF PrivateInv
<1>2. /\ \A r \in Rows, c \in Columns : Honest(uploads, files[r][c])
      /\ \A p \in Photos : Honest(uploads, photos[p])
  BY StoredHonest DEF PrivateInv
<1>3. Documents \in Rows /\ Requests \subseteq Rows
  BY DEF Rows
<1>4. files \in [Rows -> Refs] /\ photos \in [Photos -> MaybeRef]
  BY <1>1 DEF TypeOK
<1>5. \/ UNCHANGED <<files, photos>>
      \/ \E h \in Handlers :
            \/ UpdateDocuments(h) \/ AcceptWrite(h)
            \/ \E r \in Requests : SubmitCreate(h, r)
            \/ \E p \in Photos : AddImage(h, p)
      \/ \E r \in Requests : AdminRemove(r)
      \/ \E p \in Photos : DeleteImage(p)
      \/ \E w \in Work : Rewrite(w) \/ RewriteFails(w)
  <2>1. CASE UNCHANGED vars
    BY <2>1 DEF vars, store
  <2>2. CASE Next
    BY <2>2, StepKinds
       DEF StartUpdate, StartSubmit, AcceptRead, StartAddImage, Start, Lookup,
           Abandon, Refuse, LoadDocuments, LoadRequests, LoadPhotos, Finish, Crash,
           SkipShared, SkipMissing, MoveToPrivate, MoveFails, FileLost, Conflict,
           store
  <2>3. QED
    BY <2>1, <2>2
<1>6. CASE UNCHANGED <<files, photos>>
  BY <1>2, <1>6
<1>7. ASSUME NEW h \in Handlers, UpdateDocuments(h) \/ AcceptWrite(h)
      PROVE  /\ \A r \in Rows, c \in Columns : Honest(uploads, files'[r][c])
             /\ \A p \in Photos : Honest(uploads, photos'[p])
  <2>1. task[h] # Idle
    BY <1>7 DEF UpdateDocuments, AcceptWrite, Idle
  <2>2. \A c \in Columns : Honest(uploads, Overlay(files[Documents], task[h].dto)[c])
    BY <2>1, <1>2, <1>3, OverlayHonest DEF PrivateInv, HandlersHold
  <2>3. /\ files' = [files EXCEPT ![Documents] = Overlay(files[Documents], task[h].dto)]
        /\ photos' = photos
    BY <1>7 DEF UpdateDocuments, AcceptWrite
  <2>4. QED
    BY <2>2, <2>3, <1>2, <1>4
<1>8. ASSUME NEW h \in Handlers, NEW r \in Requests, SubmitCreate(h, r)
      PROVE  /\ \A q \in Rows, c \in Columns : Honest(uploads, files'[q][c])
             /\ \A p \in Photos : Honest(uploads, photos'[p])
  <2>1. task[h] # Idle /\ task[h].op = "submit"
    BY <1>8 DEF SubmitCreate, Idle
  <2>2. \A c \in Columns : Honest(uploads, Overlay(task[h].seen, task[h].dto)[c])
    BY <2>1, OverlayHonest DEF PrivateInv, HandlersHold
  <2>3. /\ files' = [files EXCEPT ![r] = Overlay(task[h].seen, task[h].dto)]
        /\ photos' = photos
    BY <1>8 DEF SubmitCreate
  <2>4. QED
    BY <2>2, <2>3, <1>2, <1>4
<1>9. ASSUME NEW h \in Handlers, NEW p \in Photos, AddImage(h, p)
      PROVE  /\ \A r \in Rows, c \in Columns : Honest(uploads, files'[r][c])
             /\ \A q \in Photos : Honest(uploads, photos'[q])
  <2>1. Honest(uploads, task[h].dto[p])
    BY <1>9 DEF AddImage, Idle, PrivateInv, HandlersHold
  <2>2. QED
    BY <2>1, <1>2, <1>4, <1>9 DEF AddImage
<1>10. CASE \E r \in Requests : AdminRemove(r)
  <2>1. PICK r \in Requests : AdminRemove(r)
    BY <1>10
  <2>2. \A c \in Columns : Honest(uploads, NoRefs[c])
    BY NullHonest DEF NoRefs
  <2>3. files' = [files EXCEPT ![r] = NoRefs] /\ photos' = photos
    BY <2>1 DEF AdminRemove
  <2>4. QED
    BY <2>2, <2>3, <1>2, <1>4
<1>11. CASE \E p \in Photos : DeleteImage(p)
  BY <1>2, <1>4, <1>11, NullHonest DEF DeleteImage
<1>12. ASSUME NEW w \in Work, Rewrite(w) \/ RewriteFails(w)
       PROVE  /\ \A r \in Rows, c \in Columns : Honest(uploads, files'[r][c])
              /\ \A p \in Photos : Honest(uploads, photos'[p])
  <2>1. photos' = photos /\ Rewriting(w)
    BY <1>12 DEF Rewrite, RewriteFails
  <2>2. files' = files \/ (StillHolds(w) /\ files' = Rewritten(w))
    BY <1>12 DEF Rewrite, RewriteFails
  <2>3. QED
    BY <2>1, <2>2, <1>2, RewrittenHonest
<1>13. QED
  BY <1>5, <1>6, <1>7, <1>8, <1>9, <1>10, <1>11, <1>12

\* Every step leaves handlers that hold honest references.
LEMMA HandlersStep ==
    ASSUME PrivateInv, [Next]_vars
    PROVE  HandlersHold'
<1>1. TypeOK /\ TypeOK' /\ HandlersHold
  BY NextTyped DEF PrivateInv
<1>2. /\ \A r \in Rows, c \in Columns : Honest(uploads, files[r][c])
      /\ Documents \in Rows /\ Requests \subseteq Rows
  BY StoredHonest DEF PrivateInv, Rows
<1> DEFINE Holds(up, t) == /\ t # Idle => \A k \in DOMAIN t.dto : Honest(up, t.dto[k])
                           /\ t.op = "submit" => \A c \in Columns : Honest(up, t.seen[c])
<1>3. ASSUME NEW t, Holds(uploads, t) PROVE Holds(uploads', t)
  BY <1>1, <1>3, HonestStays
<1>4. \A h \in Handlers : Holds(uploads, task[h])
  BY <1>1 DEF HandlersHold
<1>5. SUFFICES \A h \in Handlers : Holds(uploads', task'[h])
  BY DEF HandlersHold
<1>6. Holds(uploads, Idle)
  BY DEF Idle
<1>7. \A u \in Uploads : Honest(uploads, u)
  BY IdsAssumption DEF Honest
<1>8. ASSUME NEW h \in Handlers, NEW t, Holds(uploads, t),
             task' = [task EXCEPT ![h] = t]
      PROVE  \A g \in Handlers : Holds(uploads, task'[g])
  BY <1>1, <1>4, <1>8 DEF TypeOK
<1> HIDE DEF Holds
<1>9. CASE UNCHANGED task
  BY <1>3, <1>4, <1>9
<1>10. ASSUME NEW h \in Handlers, NEW dto \in Dtos(Columns, Wish),
              StartUpdate(h, dto) \/ StartSubmit(h, dto)
       PROVE  \A g \in Handlers : Holds(uploads, task'[g])
  <2>1. \A c \in DOMAIN dto : dto[c] \in Wishes(files[Documents][c]) /\ c \in Columns
    BY <1>10, DtoPartial, PartialValues DEF StartUpdate, StartSubmit
  <2>2. \A c \in DOMAIN dto : Honest(uploads, dto[c])
    BY <2>1, <1>2, <1>7, NullHonest DEF Wishes
  <2>3. CASE StartUpdate(h, dto)
    <3>1. Holds(uploads, [op |-> "update", dto |-> dto])
      BY <2>2 DEF Holds
    <3>2. QED
      BY <3>1, <2>3, <1>8 DEF StartUpdate, Start
  <2>4. CASE StartSubmit(h, dto)
    <3>1. Holds(uploads, [op |-> "submit", dto |-> dto, seen |-> files[Documents]])
      BY <2>2, <1>2 DEF Holds
    <3>2. QED
      BY <3>1, <2>4, <1>8 DEF StartSubmit, Start
  <2>5. QED
    BY <1>10, <2>3, <2>4
<1>11. ASSUME NEW h \in Handlers, NEW r \in Requests, AcceptRead(h, r)
       PROVE  \A g \in Handlers : Holds(uploads, task'[g])
  <2>1. requests[r].changed \subseteq Columns
    BY <1>1 DEF TypeOK, RequestRow
  <2> DEFINE dto == [c \in requests[r].changed |-> files[r][c]]
             t == [op |-> "accept", req |-> r, dto |-> dto]
  <2>2. Holds(uploads, t)
    BY <2>1, <1>2 DEF Holds
  <2>3. task' = [task EXCEPT ![h] = t]
    BY <1>11 DEF AcceptRead, Start
  <2>4. QED
    BY <2>2, <2>3, <1>8
<1>12. ASSUME NEW h \in Handlers, NEW p \in Photos, NEW u \in Uploads,
              StartAddImage(h, p, u)
       PROVE  \A g \in Handlers : Holds(uploads, task'[g])
  <2>1. Holds(uploads, [op |-> "photo", dto |-> [q \in {p} |-> u]])
    BY <1>7 DEF Holds
  <2>2. QED
    BY <2>1, <1>8, <1>12 DEF StartAddImage, Start
<1>13. ASSUME NEW h \in Handlers, NEW k, Lookup(h, k)
       PROVE  \A g \in Handlers : Holds(uploads, task'[g])
  <2> DEFINE ref == [id |-> task[h].dto[k], form |-> uploads[task[h].dto[k]]]
             dto == [task[h].dto EXCEPT ![k] = ref]
             t == [task[h] EXCEPT !.dto = dto]
  <2>1. Honest(uploads, ref)
    BY DEF Honest, Named
  <2>2. task' = [task EXCEPT ![h] = t] /\ task[h] # Idle
    BY <1>13, <1>1 DEF Lookup, TypeOK
  <2>3. Holds(uploads, task[h])
    BY <1>4
  <2>4. \A j \in DOMAIN dto : Honest(uploads, dto[j])
    BY <2>1, <2>2, <2>3 DEF Holds
  <2>5. t.dto = dto /\ t.op = task[h].op /\ (t.op = "submit" => t.seen = task[h].seen)
    BY <1>1, <2>2, TaskKinds DEF UpdateTask, SubmitTask, AcceptTask, PhotoTask
  <2>6. Holds(uploads, t)
    BY <2>3, <2>4, <2>5 DEF Holds
  <2>7. QED
    BY <2>2, <2>6, <1>8
<1>14. ASSUME NEW h \in Handlers,
              \/ UpdateDocuments(h) \/ AcceptWrite(h) \/ Abandon(h)
              \/ \E r \in Requests : SubmitCreate(h, r)
              \/ \E p \in Photos : AddImage(h, p)
       PROVE  \A g \in Handlers : Holds(uploads, task'[g])
  <2>1. task' = [task EXCEPT ![h] = Idle]
    BY <1>14 DEF UpdateDocuments, AcceptWrite, Abandon, SubmitCreate, AddImage, Write
  <2>2. QED
    BY <2>1, <1>6, <1>8
<1>15. UNCHANGED task \/ \A h \in Handlers : Holds(uploads, task'[h])
  <2>1. CASE UNCHANGED vars
    BY <2>1 DEF vars
  <2>2. CASE Next
    BY <2>2, StepKinds, <1>10, <1>11, <1>12, <1>13, <1>14
       DEF Refuse, AdminRemove, DeleteImage, LoadDocuments, LoadRequests,
           LoadPhotos, Finish, Crash, SkipShared, SkipMissing, MoveToPrivate,
           MoveFails, FileLost, Rewrite, Conflict, RewriteFails
  <2>3. QED
    BY <2>1, <2>2
<1>16. QED
  BY <1>3, <1>9, <1>15

\* The file whose references are rewritten has been moved.
LEMMA FileMovedStep ==
    ASSUME PrivateInv, [Next]_vars
    PROVE  FileMoved'
<1>1. TypeOK /\ FileMoved
  BY DEF PrivateInv
<1>2. CASE UNCHANGED script
  BY <1>1, <1>2, NeverPublicAgain DEF FileMoved
<1>3. CASE script'.phase # "rewrite"
  BY <1>3 DEF FileMoved
<1>4. ASSUME NEW u \in Uploads, MoveToPrivate(u) PROVE FileMoved'
  BY <1>1, <1>4 DEF FileMoved, MoveToPrivate, Set, TypeOK, ScriptState
<1>5. ASSUME NEW w \in Work, Rewrite(w) \/ Conflict(w) \/ RewriteFails(w)
      PROVE  script'.phase = "rewrite" => script'.id = script.id /\ script.phase = "rewrite"
  BY <1>1, <1>5 DEF Rewrite, Conflict, RewriteFails, Rewriting, Past, Set, TypeOK, ScriptState
<1>6. ASSUME NEW u \in Uploads, SkipShared(u) \/ SkipMissing(u) \/ MoveFails(u)
      PROVE  script'.phase # "rewrite"
  BY <1>1, <1>6 DEF SkipShared, SkipMissing, MoveFails, Without, Waiting, Set, TypeOK, ScriptState
<1>7. ASSUME LoadDocuments \/ LoadRequests \/ LoadPhotos \/ Finish \/ Crash
      PROVE  script'.phase # "rewrite"
  <2>1. NotRunning \in ScriptState
    BY NoRefsTyped DEF NotRunning, ScriptState
  <2>2. CASE LoadDocuments
    BY <2>1, <2>2 DEF LoadDocuments, Set, ScriptState
  <2>3. CASE Finish \/ Crash
    BY <2>3 DEF Finish, Crash, NotRunning, Set
  <2>4. CASE LoadRequests
    BY <2>4, <1>1 DEF LoadRequests, Set, TypeOK, ScriptState
  <2>5. CASE LoadPhotos
    BY <2>5, <1>1 DEF LoadPhotos, Set, TypeOK, ScriptState
  <2>6. QED
    BY <1>7, <2>2, <2>3, <2>4, <2>5
<1>8. \/ UNCHANGED script
      \/ \E u \in Uploads : MoveToPrivate(u)
      \/ script'.phase # "rewrite"
      \/ script'.id = script.id /\ script.phase = "rewrite"
  <2>1. CASE UNCHANGED vars
    BY <2>1 DEF vars, job
  <2>2. CASE Next
    BY <2>2, StepKinds, <1>5, <1>6, <1>7
       DEF StartUpdate, StartSubmit, AcceptRead, StartAddImage, Start, Lookup,
           UpdateDocuments, AcceptWrite, Abandon, SubmitCreate, AddImage, Write,
           Refuse, AdminRemove, DeleteImage, FileLost, job
  <2>3. QED
    BY <2>1, <2>2
<1>9. CASE script'.id = script.id /\ script.phase = "rewrite"
  BY <1>1, <1>9, NeverPublicAgain DEF FileMoved
<1>10. QED
  BY <1>2, <1>3, <1>4, <1>8, <1>9

\* The invariant holds at first.
LEMMA PrivateInvInit == Init => PrivateInv
<1> SUFFICES ASSUME Init PROVE PrivateInv
  OBVIOUS
<1>1. TypeOK
  BY InitTyped
<1>2. PrivateRefsArePrivate
  BY InitialAssumption DEF Init, PrivateRefsArePrivate, Named, NoRefs
<1>3. HandlersHold /\ FileMoved
  BY DEF Init, HandlersHold, FileMoved, Idle, NotRunning
<1>4. QED
  BY <1>1, <1>2, <1>3 DEF PrivateInv

\* A reference stored without a url is of a file that has left the public
\* bucket, whatever fails and however the handlers and the script interleave.
THEOREM PrivateRefsStayPrivate == Spec => []PrivateRefsArePrivate
<1>1. Init => PrivateInv
  BY PrivateInvInit
<1>2. PrivateInv /\ [Next]_vars => PrivateInv'
  <2> SUFFICES ASSUME PrivateInv, [Next]_vars PROVE PrivateInv'
    OBVIOUS
  <2>1. TypeOK /\ TypeOK'
    BY NextTyped DEF PrivateInv
  <2>2. /\ \A r \in Rows, c \in Columns : Honest(uploads', files'[r][c])
        /\ \A p \in Photos : Honest(uploads', photos'[p])
    BY <2>1, StoredStep, HonestStays
  <2>3. PrivateRefsArePrivate'
    BY <2>1, <2>2 DEF TypeOK, Refs, PrivateRefsArePrivate, Honest
  <2>4. QED
    BY <2>1, <2>3, HandlersStep, FileMovedStep DEF PrivateInv
<1>3. PrivateInv => PrivateRefsArePrivate
  BY DEF PrivateInv
<1>4. QED
  BY <1>1, <1>2, <1>3, PTL DEF Spec

(***************************************************************************)
(* ScriptKeepsFiles needs what the script knows of its work: each item is  *)
(* of a column that held a reference to the item's upload when it was      *)
(* read, or as the run itself has written it since.                        *)
(***************************************************************************)
WorkIsSeen ==
    \A w \in script.work : /\ script.seen[w.row][w.col] # Null
                           /\ script.seen[w.row][w.col].id = w.id

NoWorkYet == script.phase = "documents" => script.work = {}

WorkInv == TypeOK /\ WorkIsSeen /\ NoWorkYet

\* A rewrite has one item less to do, and its own item is no other's.
LEMMA RewriteWork ==
    ASSUME WorkInv, NEW w \in script.work, NEW s \in ScriptState,
           s.work = script.work,
           s.seen = script.seen \/ s.seen = Recorded(w),
           s.phase = "rewrite", script' = Past(w, s)
    PROVE  WorkIsSeen' /\ NoWorkYet'
<1>1. script \in ScriptState /\ script.work \subseteq Work /\ w \in Work
  BY DEF WorkInv, TypeOK, ScriptState
<1>2. /\ script'.work = script.work \ {w} /\ script'.seen = s.seen
      /\ script'.phase # "documents"
  BY <1>1 DEF Past, ScriptState
<1>3. ASSUME NEW v \in script.work, v # w
      PROVE  s.seen[v.row][v.col] = script.seen[v.row][v.col]
  <2>1. v.row # w.row \/ v.col # w.col
    BY <1>1, <1>3 DEF WorkInv, WorkIsSeen, Work
  <2>2. script.seen \in [Rows -> Refs] /\ v.row \in Rows /\ v.col \in Columns
    BY <1>1 DEF ScriptState, Work
  <2>3. CASE s.seen = Recorded(w)
    BY <2>1, <2>2, <2>3, <1>1 DEF Recorded, Refs, Work
  <2>4. QED
    BY <2>3
<1>4. ASSUME NEW v \in script'.work
      PROVE  /\ script'.seen[v.row][v.col] # Null
             /\ script'.seen[v.row][v.col].id = v.id
  <2>1. v \in script.work /\ v # w
    BY <1>2
  <2>2. script'.seen[v.row][v.col] = script.seen[v.row][v.col]
    BY <2>1, <1>2, <1>3
  <2>3. QED
    BY <2>1, <2>2 DEF WorkInv, WorkIsSeen
<1>5. WorkIsSeen'
  BY <1>4 DEF WorkIsSeen
<1>6. NoWorkYet'
  BY <1>2 DEF NoWorkYet
<1>7. QED
  BY <1>5, <1>6

\* Every step keeps what the script knows of its work.
LEMMA WorkStep ==
    ASSUME WorkInv, [Next]_vars
    PROVE  WorkInv'
<1>1. TypeOK /\ TypeOK' /\ WorkIsSeen /\ NoWorkYet /\ script \in ScriptState
  BY NextTyped DEF WorkInv, TypeOK
<1>2. CASE UNCHANGED script
  BY <1>1, <1>2 DEF WorkInv, WorkIsSeen, NoWorkYet
<1>3. ASSUME LoadDocuments \/ Finish \/ Crash
      PROVE  WorkIsSeen' /\ NoWorkYet'
  <2>1. NotRunning \in ScriptState /\ NotRunning.work = {}
    BY NoRefsTyped DEF NotRunning, ScriptState
  <2>2. CASE LoadDocuments
    BY <2>1, <2>2 DEF LoadDocuments, Set, ScriptState, WorkIsSeen, NoWorkYet
  <2>3. CASE Finish \/ Crash
    BY <2>1, <2>3 DEF Finish, Crash, Set, WorkIsSeen, NoWorkYet
  <2>4. QED
    BY <1>3, <2>2, <2>3
<1>4. ASSUME LoadRequests
      PROVE  WorkIsSeen' /\ NoWorkYet'
  BY <1>1, <1>4 DEF LoadRequests, Set, ScriptState, WorkIsSeen, NoWorkYet
<1>5. ASSUME LoadPhotos
      PROVE  WorkIsSeen' /\ NoWorkYet'
  <2>1. PICK matched :
          script' = [script EXCEPT !.phase = "move", !.photos = PhotoIds,
                                   !.work = Candidates(script.seen, matched)]
    BY <1>5 DEF LoadPhotos, Set
  <2>2. /\ script'.work = Candidates(script.seen, matched)
        /\ script'.seen = script.seen /\ script'.phase # "documents"
    BY <2>1, <1>1 DEF ScriptState
  <2>3. QED
    BY <2>2 DEF Candidates, WorkIsSeen, NoWorkYet
<1>6. ASSUME NEW u \in Uploads,
             \/ SkipShared(u) \/ SkipMissing(u) \/ MoveToPrivate(u) \/ MoveFails(u)
      PROVE  WorkIsSeen' /\ NoWorkYet'
  <2>1. /\ script'.work \subseteq script.work /\ script'.seen = script.seen
        /\ script'.phase # "documents"
    BY <1>1, <1>6 DEF SkipShared, SkipMissing, MoveToPrivate, MoveFails, Without,
                      Waiting, Set, ScriptState
  <2>2. QED
    BY <2>1, <1>1 DEF WorkIsSeen, NoWorkYet
<1>7. ASSUME NEW w \in Work, Rewrite(w) \/ Conflict(w) \/ RewriteFails(w)
      PROVE  WorkIsSeen' /\ NoWorkYet'
  <2>1. w \in script.work /\ script.phase = "rewrite"
    BY <1>7 DEF Rewrite, Conflict, RewriteFails, Rewriting
  <2>2. CASE Rewrite(w)
    <3> DEFINE s == [script EXCEPT !.seen = Recorded(w)]
    <3>1. s \in ScriptState
      BY <1>1, RewrittenTyped DEF ScriptState
    <3>2. s.work = script.work /\ s.seen = Recorded(w) /\ s.phase = "rewrite"
      BY <1>1, <2>1 DEF ScriptState
    <3>3. script' = Past(w, s)
      BY <2>2 DEF Rewrite, Set
    <3> HIDE DEF s
    <3>4. QED
      BY <3>1, <3>2, <3>3, <2>1, RewriteWork
  <2>3. CASE Conflict(w) \/ RewriteFails(w)
    <3> DEFINE s == [script EXCEPT !.again = TRUE]
    <3>1. /\ s \in ScriptState /\ s.work = script.work /\ s.seen = script.seen
          /\ s.phase = "rewrite"
      BY <1>1, <2>1 DEF ScriptState
    <3>2. script' = Past(w, s)
      BY <2>3 DEF Conflict, RewriteFails, Set
    <3> HIDE DEF s
    <3>3. QED
      BY <3>1, <3>2, <2>1, RewriteWork
  <2>4. QED
    BY <1>7, <2>2, <2>3
<1>8. UNCHANGED script \/ (WorkIsSeen' /\ NoWorkYet')
  <2>1. CASE UNCHANGED vars
    BY <2>1 DEF vars, job
  <2>2. CASE Next
    BY <2>2, StepKinds, <1>3, <1>4, <1>5, <1>6, <1>7
       DEF StartUpdate, StartSubmit, AcceptRead, StartAddImage, Start, Lookup,
           UpdateDocuments, AcceptWrite, Abandon, SubmitCreate, AddImage, Write,
           Refuse, AdminRemove, DeleteImage, FileLost, job
  <2>3. QED
    BY <2>1, <2>2
<1>9. QED
  BY <1>1, <1>2, <1>8 DEF WorkInv

\* A rewrite replaces a reference by the private form of the same upload.
LEMMA RewriteKeeps ==
    ASSUME WorkInv, NEW w \in Work, Rewriting(w), StillHolds(w),
           files' = Rewritten(w), NEW r \in Rows, NEW c \in Columns,
           files'[r][c] # files[r][c]
    PROVE  files[r][c] # Null /\ files'[r][c] = PrivateRef(files[r][c].id)
<1>1. /\ files \in [Rows -> Refs] /\ script.seen \in [Rows -> Refs]
      /\ w.row \in Rows /\ w.col \in Columns /\ w \in script.work
  BY DEF WorkInv, TypeOK, ScriptState, Work, Rewriting
<1>2. files' = [files EXCEPT ![w.row] = [files[w.row] EXCEPT ![w.col] = PrivateRef(w.id)]]
  BY DEF StillHolds, Rewritten
<1>3. r = w.row /\ c = w.col
  BY <1>1, <1>2 DEF Refs
<1>4. files'[r][c] = PrivateRef(w.id)
  BY <1>1, <1>2, <1>3 DEF Refs
<1>5. files[r][c] = script.seen[w.row][w.col]
  BY <1>3 DEF StillHolds
<1>6. QED
  BY <1>1, <1>4, <1>5 DEF WorkInv, WorkIsSeen

\* The script never loses an edit: where it changes a stored reference, the
\* new one is the private form of the same upload.
THEOREM ScriptKeepsEveryFile == Spec => ScriptKeepsFiles
<1>1. Init => WorkInv
  BY InitTyped DEF Init, WorkInv, WorkIsSeen, NoWorkYet, NotRunning
<1>2. WorkInv /\ [Next]_vars => WorkInv'
  BY WorkStep
<1>3. WorkInv /\ [Next]_vars =>
        [script' # script =>
           \A r \in Rows, c \in Columns :
              files'[r][c] # files[r][c] =>
                 /\ files[r][c] # Null
                 /\ files'[r][c] = PrivateRef(files[r][c].id)]_vars
  <2> SUFFICES ASSUME WorkInv, Next, script' # script,
                      NEW r \in Rows, NEW c \in Columns, files'[r][c] # files[r][c]
               PROVE  files[r][c] # Null /\ files'[r][c] = PrivateRef(files[r][c].id)
    BY DEF vars, job
  <2>1. PICK w \in Work : Rewrite(w) \/ RewriteFails(w)
    BY StepKinds
       DEF StartUpdate, StartSubmit, AcceptRead, StartAddImage, Start, Lookup,
           UpdateDocuments, AcceptWrite, Abandon, SubmitCreate, AddImage, Write,
           Refuse, AdminRemove, DeleteImage, LoadDocuments, LoadRequests,
           LoadPhotos, Finish, Crash, SkipShared, SkipMissing, MoveToPrivate,
           MoveFails, FileLost, Conflict, store, job
  <2>2. Rewriting(w) /\ StillHolds(w) /\ files' = Rewritten(w)
    BY <2>1 DEF Rewrite, RewriteFails
  <2>3. QED
    BY <2>2, RewriteKeeps
<1>4. QED
  BY <1>1, <1>2, <1>3, PTL DEF Spec, ScriptKeepsFiles

(***************************************************************************)
(* A run that nothing disturbs.  What it has read so far is what is        *)
(* stored, and what it may not leave public is still on its list.          *)
(***************************************************************************)
Loaded == script.phase \in {"requests", "move", "rewrite"}
Moving == script.phase \in {"move", "rewrite"}

RunInv ==
    ~disturbed =>
        /\ ~script.again
        /\ script.phase = "documents" => script.seen[Documents] = files[Documents]
        /\ Loaded => script.seen = files
        /\ Moving => script.photos = PhotoIds /\ StillPublic \subseteq script.work
        /\ script.phase = "idle" => exit = "ok" /\ StillPublic = {}

UndisturbedInv == TypeOK /\ RunInv

\* Steps that touch neither files, photos nor the script keep RunInv.
LEMMA RunAside ==
    ASSUME UndisturbedInv, UNCHANGED <<files, photos, script, exit, disturbed>>,
           UNCHANGED uploads
    PROVE  RunInv'
<1>1. PhotoIds' = PhotoIds /\ StillPublic' = StillPublic
  BY DEF PhotoIds, StillPublic, MayStayPublic
<1>2. QED
  BY <1>1 DEF UndisturbedInv, RunInv, Loaded, Moving

\* Steps that disturb the run keep RunInv.
LEMMA RunDisturbed == ASSUME disturbed' = TRUE PROVE RunInv'
  BY DEF RunInv

\* What must not stay public does not grow while no row changes.
LEMMA StillPublicSame ==
    ASSUME UNCHANGED <<files, photos>>,
           \A u \in Uploads : uploads[u] = "missing" <=> uploads'[u] = "missing"
    PROVE  PhotoIds' = PhotoIds /\ StillPublic' = StillPublic
<1>1. PhotoIds' = PhotoIds
  BY DEF PhotoIds
<1>2. \A w \in Work : w.id \in Uploads
  BY DEF Work
<1>3. QED
  BY <1>1, <1>2 DEF StillPublic, MayStayPublic

\* Loading what is stored, and ending with nothing left, keep RunInv.
LEMMA RunLoads ==
    ASSUME UndisturbedInv, LoadDocuments \/ LoadRequests \/ LoadPhotos \/ Finish
    PROVE  RunInv'
<1>1. TypeOK /\ script \in ScriptState /\ files \in [Rows -> Refs]
  BY DEF UndisturbedInv, TypeOK
<1>2. PhotoIds' = PhotoIds /\ StillPublic' = StillPublic
  BY StillPublicSame DEF LoadDocuments, LoadRequests, LoadPhotos, Finish, store
<1>3. /\ NotRunning \in ScriptState /\ NotRunning.phase = "idle" /\ ~NotRunning.again
      /\ Documents \in Rows
  BY NoRefsTyped DEF NotRunning, ScriptState, Rows
<1>4. CASE LoadDocuments
  <2>1. /\ script'.phase = "documents" /\ ~script'.again
        /\ script'.seen[Documents] = files[Documents] /\ files' = files
    BY <1>3, <1>4 DEF LoadDocuments, Set, ScriptState, store
  <2>2. QED
    BY <2>1 DEF RunInv, Loaded, Moving
<1>5. CASE LoadRequests
  <2> SUFFICES ASSUME ~disturbed' PROVE RunInv'
    BY DEF RunInv
  <2>1. script.seen[Documents] = files[Documents] /\ ~script.again
    BY <1>5 DEF UndisturbedInv, RunInv, LoadRequests
  <2>2. /\ script'.phase = "requests" /\ ~script'.again
        /\ script'.seen = [r \in Rows |-> IF r = Documents THEN script.seen[r] ELSE files[r]]
        /\ files' = files
    BY <1>1, <1>5, <2>1 DEF LoadRequests, Set, ScriptState, store
  <2>3. script'.seen = files
    BY <2>1, <2>2, <1>1
  <2>4. QED
    BY <2>2, <2>3 DEF RunInv, Loaded, Moving
<1>6. CASE LoadPhotos
  <2> SUFFICES ASSUME ~disturbed' PROVE RunInv'
    BY DEF RunInv
  <2>1. script.seen = files /\ ~script.again
    BY <1>6 DEF UndisturbedInv, RunInv, Loaded, LoadPhotos
  <2>2. PICK matched :
          script' = [script EXCEPT !.phase = "move", !.photos = PhotoIds,
                                   !.work = Candidates(script.seen, matched)]
    BY <1>6 DEF LoadPhotos, Set
  <2>3. /\ script'.phase = "move" /\ ~script'.again /\ script'.photos = PhotoIds
        /\ script'.work = Candidates(files, matched) /\ script'.seen = files /\ files' = files
    BY <2>1, <2>2, <1>1, <1>6 DEF ScriptState, LoadPhotos, store
  <2>4. StillPublic \subseteq Candidates(files, matched)
    BY IdsAssumption DEF StillPublic, Candidates, Ref, Work
  <2>5. QED
    BY <2>3, <2>4, <1>2 DEF RunInv, Loaded, Moving
<1>7. CASE Finish
  <2> SUFFICES ASSUME ~disturbed' PROVE RunInv'
    BY DEF RunInv
  <2>1. ~script.again /\ StillPublic = {}
    BY <1>7 DEF UndisturbedInv, RunInv, Moving, Finish
  <2>2. exit' = "ok" /\ script' = NotRunning
    BY <2>1, <1>7 DEF Finish, Set
  <2>3. QED
    BY <2>1, <2>2, <1>2, <1>3 DEF RunInv, Loaded, Moving
<1>8. QED
  BY <1>4, <1>5, <1>6, <1>7

\* Skipping and moving one file keep RunInv.
LEMMA RunMoves ==
    ASSUME UndisturbedInv, NEW u \in Uploads,
           SkipShared(u) \/ SkipMissing(u) \/ MoveToPrivate(u)
    PROVE  RunInv'
<1>1. script \in ScriptState /\ uploads \in [Uploads -> {"public", "private", "missing"}]
  BY DEF UndisturbedInv, TypeOK
<1>2. PhotoIds' = PhotoIds /\ StillPublic' = StillPublic
  BY <1>1, StillPublicSame DEF SkipShared, SkipMissing, MoveToPrivate, store
<1> SUFFICES ASSUME ~disturbed' PROVE RunInv'
  BY DEF RunInv
<1>3. /\ ~script.again /\ script.seen = files /\ script.photos = PhotoIds
      /\ StillPublic \subseteq script.work /\ files' = files
  BY DEF UndisturbedInv, RunInv, Loaded, Moving, SkipShared, SkipMissing,
         MoveToPrivate, Waiting, store
<1>4. CASE SkipShared(u) \/ SkipMissing(u)
  <2>1. /\ ~script'.again /\ script'.seen = script.seen /\ script'.photos = script.photos
        /\ script'.phase = "move" /\ script'.work = {w \in script.work : w.id # u}
    BY <1>1, <1>3, <1>4 DEF SkipShared, SkipMissing, Without, Waiting, Set, ScriptState
  <2>2. MayStayPublic(u)
    BY <1>3, <1>4 DEF SkipShared, SkipMissing, Shared, MayStayPublic
  <2>3. StillPublic \subseteq script'.work
    BY <1>3, <2>1, <2>2 DEF StillPublic
  <2>4. QED
    BY <2>1, <2>3, <1>2, <1>3 DEF RunInv, Loaded, Moving
<1>5. CASE MoveToPrivate(u)
  <2>1. /\ ~script'.again /\ script'.seen = script.seen /\ script'.photos = script.photos
        /\ script'.phase = "rewrite" /\ script'.work = script.work
    BY <1>1, <1>3, <1>5 DEF MoveToPrivate, Set, ScriptState
  <2>2. QED
    BY <2>1, <1>2, <1>3 DEF RunInv, Loaded, Moving
<1>6. QED
  BY <1>4, <1>5

\* An undisturbed run never takes its own writes for a conflict, and what it
\* writes is what it believes to be stored.
LEMMA RunRewrites ==
    ASSUME UndisturbedInv, NEW w \in Work, Rewrite(w) \/ Conflict(w)
    PROVE  RunInv'
<1>1. /\ script \in ScriptState /\ files \in [Rows -> Refs]
      /\ w.row \in Rows /\ w.col \in Columns
  BY DEF UndisturbedInv, TypeOK, Work
<1> SUFFICES ASSUME ~disturbed' PROVE RunInv'
  BY DEF RunInv
<1>2. /\ ~script.again /\ script.seen = files /\ script.photos = PhotoIds
      /\ StillPublic \subseteq script.work /\ script.phase = "rewrite"
      /\ w \in script.work
  BY DEF UndisturbedInv, RunInv, Loaded, Moving, Rewrite, Conflict, Rewriting, store
<1>3. StillHolds(w)
  BY <1>2 DEF StillHolds
<1>4. Rewrite(w)
  BY <1>3 DEF Conflict
<1> DEFINE s == [script EXCEPT !.seen = Recorded(w)]
<1>5. /\ s \in ScriptState /\ ~s.again /\ s.seen = Recorded(w)
      /\ s.photos = script.photos /\ s.work = script.work /\ s.phase = "rewrite"
  BY <1>1, <1>2, RewrittenTyped DEF ScriptState, UndisturbedInv
<1>6. script' = Past(w, s)
  BY <1>4 DEF Rewrite, Set
<1> HIDE DEF s
<1>7. /\ ~script'.again /\ script'.seen = Recorded(w) /\ script'.photos = PhotoIds
      /\ script'.work = script.work \ {w} /\ script'.phase \in {"move", "rewrite"}
  BY <1>2, <1>5, <1>6 DEF Past, ScriptState
<1>8. files' = [files EXCEPT ![w.row] = [files[w.row] EXCEPT ![w.col] = PrivateRef(w.id)]]
  BY <1>2, <1>4 DEF Rewrite, Rewritten
<1>9. files' = Recorded(w)
  BY <1>1, <1>2, <1>8 DEF Recorded
<1>10. PhotoIds' = PhotoIds
  BY <1>4 DEF Rewrite, PhotoIds
<1>11. ASSUME NEW v \in StillPublic' PROVE v \in StillPublic /\ v # w
  <2>1. /\ v \in Work /\ files'[v.row][v.col] = [id |-> v.id, form |-> "public"]
        /\ ~MayStayPublic(v.id)
    BY <1>4, <1>10 DEF StillPublic, MayStayPublic, Rewrite
  <2>2. v.row \in Rows /\ v.col \in Columns
    BY <2>1 DEF Work
  <2>3. [id |-> v.id, form |-> "public"] # PrivateRef(w.id)
    BY DEF PrivateRef
  <2>4. ~(v.row = w.row /\ v.col = w.col)
    BY <1>1, <1>8, <2>1, <2>3 DEF Refs
  <2>5. files'[v.row][v.col] = files[v.row][v.col]
    BY <1>1, <1>8, <2>2, <2>4 DEF Refs
  <2>6. QED
    BY <2>1, <2>4, <2>5 DEF StillPublic
<1>12. StillPublic' \subseteq script'.work
  BY <1>2, <1>7, <1>11
<1>13. QED
  BY <1>7, <1>9, <1>10, <1>12 DEF RunInv, Loaded, Moving

\* The invariant holds at first: no run has begun.
LEMMA UndisturbedInit == Init => UndisturbedInv
  BY InitTyped DEF Init, UndisturbedInv, RunInv

\* Every step keeps the invariant.
LEMMA UndisturbedStep == UndisturbedInv /\ [Next]_vars => UndisturbedInv'
<1> SUFFICES ASSUME UndisturbedInv, [Next]_vars PROVE UndisturbedInv'
  OBVIOUS
<1>1. TypeOK'
  BY NextTyped DEF UndisturbedInv
<1>2. \/ UNCHANGED <<uploads, files, photos, script, exit, disturbed>>
      \/ disturbed' = TRUE
      \/ LoadDocuments \/ LoadRequests \/ LoadPhotos \/ Finish
      \/ \E u \in Uploads : SkipShared(u) \/ SkipMissing(u) \/ MoveToPrivate(u)
      \/ \E w \in Work : Rewrite(w) \/ Conflict(w)
  <2>1. CASE UNCHANGED vars
    BY <2>1 DEF vars, store, job
  <2>2. CASE Next
    BY <2>2, StepKinds
       DEF StartUpdate, StartSubmit, AcceptRead, StartAddImage, Start, Lookup,
           UpdateDocuments, AcceptWrite, Abandon, SubmitCreate, AddImage, Write,
           Refuse, AdminRemove, DeleteImage, Crash, MoveFails, FileLost,
           RewriteFails, Fault, store, job
  <2>3. QED
    BY <2>1, <2>2
<1>3. RunInv'
  BY <1>2, RunAside, RunDisturbed, RunLoads, RunMoves, RunRewrites
<1>4. QED
  BY <1>1, <1>3 DEF UndisturbedInv

\* A run that nothing disturbed ends with exit code 0 and leaves no public
\* reference of a file that it may move: its own writes to a payload are
\* never taken for somebody else's.
THEOREM UndisturbedRunsComplete == Spec => []UndisturbedRunIsComplete
<1>1. UndisturbedInv => UndisturbedRunIsComplete
  BY DEF UndisturbedInv, RunInv, UndisturbedRunIsComplete
<1>2. QED
  BY <1>1, UndisturbedInit, UndisturbedStep, PTL DEF Spec

(***************************************************************************)
(* PhotosStayPublic needs that a run still knows every photo that was      *)
(* there when it read them, whatever was deleted or added since.           *)
(***************************************************************************)
PhotosKnown == Moving => PhotoIds \subseteq script.photos \cup late

PhotosInv == TypeOK /\ PhotosKnown

\* What a run knows of the photos changes only when it reads them anew or
\* ends.
LEMMA PhotosKept ==
    ASSUME TypeOK, NEW s \in ScriptState, NEW w \in Work,
           s.photos = script.photos
    PROVE  Past(w, s).photos = script.photos
  BY DEF Past, ScriptState

\* Each step leaves the run aware of the photos, or not moving at all.
LEMMA PhotosStep == PhotosInv /\ [Next]_vars => PhotosInv'
<1> SUFFICES ASSUME PhotosInv, [Next]_vars PROVE PhotosKnown'
  BY NextTyped DEF PhotosInv
<1>1. TypeOK /\ script \in ScriptState
  BY DEF PhotosInv, TypeOK
<1>2. NotRunning \in ScriptState /\ NotRunning.phase = "idle"
  BY NoRefsTyped DEF NotRunning, ScriptState
<1>3. ASSUME UNCHANGED <<photos, late>>, Moving, script'.photos = script.photos
      PROVE  PhotosKnown'
  BY <1>3 DEF PhotosInv, PhotosKnown, PhotoIds
<1>4. CASE UNCHANGED <<photos, late, script>>
  BY <1>4 DEF PhotosInv, PhotosKnown, Moving, PhotoIds
<1>5. CASE LoadDocuments \/ LoadRequests \/ Finish \/ Crash
  <2>1. ~Moving'
    BY <1>1, <1>2, <1>5 DEF LoadDocuments, LoadRequests, Finish, Crash, Set,
                            ScriptState, Moving
  <2>2. QED
    BY <2>1 DEF PhotosKnown
<1>6. CASE LoadPhotos
  <2>1. script'.photos = PhotoIds /\ PhotoIds' = PhotoIds
    BY <1>1, <1>6 DEF LoadPhotos, Set, ScriptState, PhotoIds, store
  <2>2. QED
    BY <2>1 DEF PhotosKnown
<1>7. ASSUME NEW u \in Uploads,
             SkipShared(u) \/ SkipMissing(u) \/ MoveToPrivate(u) \/ MoveFails(u)
      PROVE  PhotosKnown'
  <2>1. Moving /\ script'.photos = script.photos /\ UNCHANGED <<photos, late>>
    BY <1>1, <1>7 DEF SkipShared, SkipMissing, MoveToPrivate, MoveFails, Waiting,
                      Without, Set, ScriptState, Moving, store
  <2>2. QED
    BY <2>1, <1>3
<1>8. ASSUME NEW w \in Work, Rewrite(w) \/ Conflict(w) \/ RewriteFails(w)
      PROVE  PhotosKnown'
  <2>1. Moving /\ UNCHANGED <<photos, late>>
    BY <1>8 DEF Rewrite, Conflict, RewriteFails, Rewriting, Moving, store
  <2>2. /\ [script EXCEPT !.seen = Recorded(w)] \in ScriptState
        /\ [script EXCEPT !.again = TRUE] \in ScriptState
    BY <1>1, RewrittenTyped DEF ScriptState
  <2>3. script'.photos = script.photos
    BY <1>1, <1>8, <2>2, PhotosKept DEF Rewrite, Conflict, RewriteFails, Set, ScriptState
  <2>4. QED
    BY <2>1, <2>3, <1>3
<1>9. ASSUME NEW h \in Handlers, NEW p \in Photos, AddImage(h, p)
      PROVE  PhotosKnown'
  BY <1>1, <1>9 DEF AddImage, Write, job, PhotosInv, PhotosKnown, Moving
<1>10. ASSUME NEW p \in Photos, DeleteImage(p) PROVE PhotosKnown'
  <2>1. photos' = [photos EXCEPT ![p] = Null] /\ UNCHANGED <<script, late>>
    BY <1>10 DEF DeleteImage, job
  <2>2. PhotoIds' \subseteq PhotoIds
    BY <1>1, <2>1 DEF PhotoIds, TypeOK
  <2>3. QED
    BY <2>1, <2>2 DEF PhotosInv, PhotosKnown, Moving
<1>11. CASE UNCHANGED vars
  BY <1>11, <1>4 DEF vars, store, job
<1>12. CASE Next
  <2>1. \/ UNCHANGED <<photos, late, script>>
        \/ LoadDocuments \/ LoadRequests \/ LoadPhotos \/ Finish \/ Crash
        \/ \E u \in Uploads : SkipShared(u) \/ SkipMissing(u) \/ MoveToPrivate(u)
                            \/ MoveFails(u)
        \/ \E w \in Work : Rewrite(w) \/ Conflict(w) \/ RewriteFails(w)
        \/ \E h \in Handlers, p \in Photos : AddImage(h, p)
        \/ \E p \in Photos : DeleteImage(p)
    BY <1>12, StepKinds
       DEF StartUpdate, StartSubmit, AcceptRead, StartAddImage, Start, Lookup,
           UpdateDocuments, AcceptWrite, Abandon, SubmitCreate, Write, Refuse,
           AdminRemove, FileLost, store, job
  <2>2. QED
    BY <2>1, <1>4, <1>5, <1>6, <1>7, <1>8, <1>9, <1>10
<1>13. QED
  BY <1>11, <1>12

\* A run never takes the public file of a photo that it could know of,
\* whatever clients write meanwhile and whatever fails.
THEOREM PhotosAreLeftAlone == Spec => PhotosStayPublic
<1>1. Init => PhotosInv
  BY InitTyped DEF Init, PhotosInv, PhotosKnown, Moving, NotRunning
<1>2. PhotosInv /\ [Next]_vars =>
        [script' # script =>
           \A u \in PhotoIds \ late :
              uploads[u] = "public" => uploads'[u] = "public"]_vars
  <2> SUFFICES ASSUME PhotosInv, Next, script' # script,
                      NEW u \in PhotoIds \ late, uploads[u] = "public"
               PROVE  uploads'[u] = "public"
    BY DEF vars, job
  <2>1. UNCHANGED uploads \/ \E v \in Uploads : MoveToPrivate(v) \/ MoveFails(v)
    BY StepKinds
       DEF StartUpdate, StartSubmit, AcceptRead, StartAddImage, Start, Lookup,
           UpdateDocuments, AcceptWrite, Abandon, SubmitCreate, AddImage, Write,
           Refuse, AdminRemove, DeleteImage, LoadDocuments, LoadRequests,
           LoadPhotos, Finish, Crash, SkipShared, SkipMissing, FileLost, Rewrite,
           Conflict, RewriteFails, store, job
  <2>2. ASSUME NEW v \in Uploads, MoveToPrivate(v) \/ MoveFails(v)
        PROVE  uploads'[u] = uploads[u]
    <3>1. u \in script.photos /\ v \notin script.photos
      BY <2>2 DEF MoveToPrivate, MoveFails, Waiting, Shared, PhotosInv,
                  PhotosKnown, Moving
    <3>2. u \in Uploads
      BY <3>1 DEF PhotosInv, TypeOK, ScriptState
    <3>3. QED
      BY <2>2, <3>1, <3>2 DEF MoveToPrivate, MoveFails, PhotosInv, TypeOK
  <2>3. QED
    BY <2>1, <2>2
<1>3. QED
  BY <1>1, <1>2, PhotosStep, PTL DEF Spec, PhotosStayPublic
=============================================================================
