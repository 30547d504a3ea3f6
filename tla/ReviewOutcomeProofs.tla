------------------------- MODULE ReviewOutcomeProofs -------------------------
(***************************************************************************)
(* Theorems about ReviewOutcome for any sets of documents, any finite set  *)
(* of handlers and any number of calls.                                    *)
(***************************************************************************)
EXTENDS ReviewOutcome, FiniteSetTheorems, WellFoundedInduction, TLAPS

(***************************************************************************)
(* Type correctness.                                                       *)
(***************************************************************************)
\* The operation of a task tells which of the records it is.
LEMMA TaskKinds ==
    ASSUME TypeOK, NEW h \in Handlers
    PROVE  /\ task[h].op = "create" => task[h] \in CreateTask
           /\ task[h].op = "upsert" => task[h] \in LookTask
           /\ task[h].op \in {"update", "delete", "review"} => task[h] \in DocTask
           /\ task[h].op = "request" => task[h] \in FlagTask
           /\ task[h].op = "mail" => task[h] \in MailTask
           /\ task[h].op = "idle" => task[h] = Idle
  BY DEF TypeOK, Tasks, Idle, CreateTask, LookTask, DocTask, FlagTask, MailTask

\* Setting a task of one handler keeps the tasks typed.
LEMMA TaskTyped ==
    ASSUME task \in [Handlers -> Tasks], NEW h \in Handlers, NEW t \in Tasks,
           task' = [task EXCEPT ![h] = t]
    PROVE  task' \in [Handlers -> Tasks]
  OBVIOUS

\* Doing nothing is a task.
LEMMA IdleTyped == Idle \in Tasks
  BY DEF Tasks

\* The statuses that a call may give are statuses.
LEMMA OrTyped ==
    ASSUME NEW s \in MaybeStatus, NEW old \in DocumentStatus
    PROVE  Or(s, old) \in DocumentStatus
  BY DEF Or, MaybeStatus

\* Counting and excusing keep the histories typed.
LEMMA HistoryTyped ==
    ASSUME TypeOK, NEW t \in Topics, NEW before, NEW after,
           Count(t, before, after)
    PROVE  /\ asked' \in [Topics -> Nat]
           /\ asked'[t] = IF ~before /\ after THEN asked[t] + 1 ELSE asked[t]
           /\ \A u \in Topics : u # t => asked'[u] = asked[u]
           /\ \A seen : Excuse(t, seen, before, after)
                      => excused' \in [Topics -> SUBSET Nat]
<1>1. asked \in [Topics -> Nat] /\ excused \in [Topics -> SUBSET Nat]
  BY DEF TypeOK
<1>2. asked' \in [Topics -> Nat]
  BY <1>1 DEF Count
<1>3. asked'[t] = IF ~before /\ after THEN asked[t] + 1 ELSE asked[t]
  BY <1>1 DEF Count
<1>4. \A u \in Topics : u # t => asked'[u] = asked[u]
  BY <1>1 DEF Count
<1>5. \A seen : Excuse(t, seen, before, after) => excused' \in [Topics -> SUBSET Nat]
  BY <1>1, <1>2 DEF Excuse
<1>6. QED
  BY <1>2, <1>3, <1>4, <1>5

\* An email adds one to one counter.
LEMMA EmittedTyped ==
    ASSUME TypeOK, NEW t \in Topics, NEW n
    PROVE  Emitted(t, n) \in [Topics -> [Rounds -> Nat]]
<1>1. mails \in [Topics -> [Rounds -> Nat]]
  BY DEF TypeOK
<1>2. [mails[t] EXCEPT ![n] = @ + 1] \in [Rounds -> Nat]
  <2>1. mails[t] \in [Rounds -> Nat]
    BY <1>1
  <2>2. CASE n \in Rounds
    BY <2>1, <2>2
  <2>3. CASE n \notin Rounds
    BY <2>1, <2>3
  <2>4. QED
    BY <2>2, <2>3
<1>3. QED
  BY <1>1, <1>2 DEF Emitted

\* Every document is a topic.
LEMMA DocsAreTopics == Docs \subseteq Topics /\ Optional \in Topics /\ Optional \notin Docs
  BY TopicsAssumption DEF Topics, Docs

\* Storing a status and a reason keeps the rows typed.
LEMMA StoreTyped ==
    ASSUME TypeOK, NEW d \in Docs, NEW status \in DocumentStatus,
           NEW reason \in BOOLEAN, NEW reasoned \in BOOLEAN,
           Store(d, status, reason, reasoned)
    PROVE  /\ docs' \in [Docs -> Row] /\ flag' \in BOOLEAN
           /\ asked' \in [Topics -> Nat] /\ given' \in [Docs -> Nat]
<1>1. docs' \in [Docs -> Row]
  <2> DEFINE row == [docs[d] EXCEPT !.status = status, !.reason = reason]
  <2>1. docs \in [Docs -> Row] /\ docs[d] \in Row
    BY DEF TypeOK
  <2>2. row \in Row
    BY <2>1 DEF Row
  <2>3. docs' = [docs EXCEPT ![d] = row]
    BY <2>1 DEF Store
  <2>4. QED
    BY <2>1, <2>2, <2>3
<1>2. d \in Topics
  BY DocsAreTopics
<1>3. asked' \in [Topics -> Nat]
  BY <1>2, HistoryTyped DEF Store
<1>4. given' \in [Docs -> Nat]
  BY <1>2, <1>3 DEF Store, TypeOK
<1>5. QED
  BY <1>1, <1>3, <1>4 DEF Store, TypeOK

\* So does inserting a row, whose age is the number of rows there have been.
LEMMA InsertTyped ==
    ASSUME TypeOK, NEW d \in Docs, NEW status \in DocumentStatus,
           NEW reason \in BOOLEAN, Insert(d, status, reason),
           Cardinality(Used) \in Nat
    PROVE  /\ docs' \in [Docs -> Row] /\ flag' \in BOOLEAN
           /\ asked' \in [Topics -> Nat] /\ given' \in [Docs -> Nat]
<1>1. docs' \in [Docs -> Row]
  BY DEF Insert, TypeOK, Row
<1>2. asked' \in [Topics -> Nat]
  BY HistoryTyped, DocsAreTopics DEF Insert
<1>3. given' \in [Docs -> Nat]
  BY DEF Insert, TypeOK
<1>4. QED
  BY <1>1, <1>2, <1>3 DEF Insert, TypeOK

(***************************************************************************)
(* TypeOK is inductive once the rows that were ever used are finitely      *)
(* many: a new row is as old as their number.                              *)
(***************************************************************************)
TypeInv == TypeOK /\ IsFiniteSet(Used)

\* Everything starts well typed, with no row used.
LEMMA InitTyped == Init => TypeInv
<1> SUFFICES ASSUME Init PROVE TypeInv
  OBVIOUS
<1>1. docs \in [Docs -> Row]
  BY DEF Init, Row
<1>2. task \in [Handlers -> Tasks]
  BY IdleTyped DEF Init
<1>3. /\ asked \in [Topics -> Nat] /\ given \in [Docs -> Nat]
      /\ excused \in [Topics -> SUBSET Nat]
      /\ mails \in [Topics -> [Rounds -> Nat]]
  BY DEF Init
<1>4. flag \in BOOLEAN /\ upserted \subseteq LogBooks
  BY DEF Init
<1>5. events \in 0..MaxEvents
  BY MaxEventsAssumption DEF Init
<1>6. Used = {}
  BY DEF Used, Init
<1>7. QED
  BY <1>1, <1>2, <1>3, <1>4, <1>5, <1>6, FS_EmptySet DEF TypeInv, TypeOK

\* Unless a row is inserted, the used rows stay the same.
LEMMA UsedSame ==
    ASSUME TypeInv,
           \A e \in Docs : docs'[e].status = "UNUSED" <=> docs[e].status = "UNUSED"
    PROVE  IsFiniteSet(Used')
<1>1. Used' = Used
  BY DEF Used
<1>2. QED
  BY <1>1 DEF TypeInv

\* An inserted row is one more.
LEMMA UsedInsert ==
    ASSUME TypeInv, NEW d \in Docs, NEW status \in DocumentStatus, NEW reason,
           Insert(d, status, reason)
    PROVE  IsFiniteSet(Used') /\ Cardinality(Used) \in Nat
<1>1. Used' = Used \cup {d}
  BY DEF Used, Insert, TypeInv, TypeOK, DocumentStatus
<1>2. QED
  BY <1>1, FS_AddElement, FS_CardinalityType DEF TypeInv

\* A handler starts with a well-typed task.
LEMMA StartTyped ==
    ASSUME TypeInv, NEW h \in Handlers, NEW t \in Tasks, Start(h, t)
    PROVE  TypeInv'
<1>1. Used' = Used
  BY DEF Start, rows, Used
<1>2. task' \in [Handlers -> Tasks]
  BY TaskTyped DEF Start, TypeInv, TypeOK
<1>3. events' \in 0..MaxEvents
  BY MaxEventsAssumption DEF Start, TypeInv, TypeOK
<1>4. QED
  BY <1>1, <1>2, <1>3 DEF Start, rows, history, TypeInv, TypeOK

\* Every request that a client sends starts a well-typed task.
LEMMA StartsTyped ==
    ASSUME TypeInv, NEW h \in Handlers,
           \/ \E role \in Roles :
                 \/ StartCreate(h, role) \/ StartUpsert(h, role)
                 \/ \E d \in Docs, op \in {"update", "delete"} :
                       StartMutation(h, op, role, d)
           \/ \E d \in Docs : StartReview(h, d)
           \/ StartRequest(h)
    PROVE  TypeInv'
<1>1. ASSUME NEW role \in Roles, StartCreate(h, role) PROVE TypeInv'
  <2>1. [op |-> "create", role |-> role] \in Tasks
    BY DEF Tasks, CreateTask
  <2>2. QED
    BY <1>1, <2>1, StartTyped DEF StartCreate
<1>2. ASSUME NEW role \in Roles, StartUpsert(h, role) PROVE TypeInv'
  <2>1. PICK found \in LogBooks \cup {Null} :
           Start(h, [op |-> "upsert", role |-> role, found |-> found])
    BY <1>2 DEF StartUpsert
  <2>2. [op |-> "upsert", role |-> role, found |-> found] \in Tasks
    BY DEF Tasks, LookTask
  <2>3. QED
    BY <2>1, <2>2, StartTyped
<1>3. ASSUME NEW role \in Roles, NEW d \in Docs, NEW op \in {"update", "delete", "review"},
             Exists(d),
             Start(h, [op |-> op, role |-> role, doc |-> d, seen |-> docs[d].status])
      PROVE  TypeInv'
  <2>1. [op |-> op, role |-> role, doc |-> d, seen |-> docs[d].status] \in Tasks
    BY <1>3 DEF Tasks, DocTask, Exists
  <2>2. QED
    BY <1>3, <2>1, StartTyped
<1>4. ASSUME StartRequest(h) PROVE TypeInv'
  <2>1. [op |-> "request", seen |-> flag] \in Tasks
    BY DEF Tasks, FlagTask, TypeInv, TypeOK
  <2>2. QED
    BY <1>4, <2>1, StartTyped DEF StartRequest
<1>5. QED
  BY <1>1, <1>2, <1>3, <1>4 DEF StartMutation, StartReview, Roles

\* A handler that ends keeps the tasks typed.
LEMMA EndTyped ==
    ASSUME TypeInv, NEW h \in Handlers, End(h)
    PROVE  task' \in [Handlers -> Tasks]
  BY TaskTyped, IdleTyped DEF End, TypeInv, TypeOK

\* The handlers that create a row.
LEMMA CreatesTyped ==
    ASSUME TypeInv, NEW h \in Handlers, NEW d \in Docs,
           \/ CreateLogBook(h, d) \/ UpsertCreate(h, d)
           \/ \E s \in MaybeStatus, reason \in BOOLEAN : CreateRich(h, d, s, reason)
    PROVE  TypeInv'
<1>1. ASSUME NEW status \in DocumentStatus, NEW reason \in BOOLEAN,
             Insert(d, status, reason), End(h),
             mails' \in [Topics -> [Rounds -> Nat]], upserted' \subseteq LogBooks,
             UNCHANGED <<excused, events>>
      PROVE  TypeInv'
  <2>1. IsFiniteSet(Used') /\ Cardinality(Used) \in Nat
    BY <1>1, UsedInsert
  <2>2. /\ docs' \in [Docs -> Row] /\ flag' \in BOOLEAN
        /\ asked' \in [Topics -> Nat] /\ given' \in [Docs -> Nat]
    BY <1>1, <2>1, InsertTyped DEF TypeInv
  <2>3. task' \in [Handlers -> Tasks]
    BY <1>1, EndTyped
  <2>4. QED
    BY <1>1, <2>1, <2>2, <2>3 DEF TypeInv, TypeOK
<1>2. mails \in [Topics -> [Rounds -> Nat]] /\ upserted \subseteq LogBooks
  BY DEF TypeInv, TypeOK
<1>3. "PENDING" \in DocumentStatus
  BY DEF DocumentStatus
<1>4. CASE CreateLogBook(h, d)
  BY <1>1, <1>2, <1>3, <1>4 DEF CreateLogBook
<1>5. CASE UpsertCreate(h, d)
  BY <1>1, <1>2, <1>3, <1>5 DEF UpsertCreate
<1>6. ASSUME NEW s \in MaybeStatus, NEW reason \in BOOLEAN, CreateRich(h, d, s, reason)
      PROVE  TypeInv'
  <2>1. Or(s, "PENDING") \in DocumentStatus
    BY <1>3, OrTyped
  <2>2. mails' \in [Topics -> [Rounds -> Nat]]
    BY <1>2, <1>6, EmittedTyped, DocsAreTopics DEF CreateRich, TypeInv
  <2>3. Insert(d, Or(s, "PENDING"), reason) /\ End(h) /\ UNCHANGED <<excused, upserted, events>>
    BY <1>6 DEF CreateRich, ReasonOnCreate
  <2>4. QED
    BY <1>1, <1>2, <2>1, <2>2, <2>3
<1>7. QED
  BY <1>4, <1>5, <1>6

\* The handlers that write the status and the reason of a row.
LEMMA StoresTyped ==
    ASSUME TypeInv, NEW h \in Handlers,
           \/ \E b \in BOOLEAN : UpdateByDriver(h, b)
           \/ \E s \in MaybeStatus, reason \in BOOLEAN :
                 UpdateRichByAdmin(h, s, reason) \/ ReviewLogBook(h, s, reason)
    PROVE  TypeInv'
<1> DEFINE d == task[h].doc
<1>1. task[h].op \in {"update", "review"} => d \in Docs /\ d \in Topics
  BY TaskKinds, DocsAreTopics DEF TypeInv, DocTask
<1>2. ASSUME NEW status \in DocumentStatus, NEW reason \in BOOLEAN,
             NEW reasoned \in BOOLEAN, Exists(d), d \in Docs,
             Store(d, status, reason, reasoned),
             task' \in [Handlers -> Tasks],
             mails' \in [Topics -> [Rounds -> Nat]],
             excused' \in [Topics -> SUBSET Nat],
             UNCHANGED <<upserted, events>>
      PROVE  TypeInv'
  <2>1. /\ docs' \in [Docs -> Row] /\ flag' \in BOOLEAN
        /\ asked' \in [Topics -> Nat] /\ given' \in [Docs -> Nat]
    BY <1>2, StoreTyped DEF TypeInv
  <2>2. IsFiniteSet(Used')
    BY <1>2, UsedSame DEF Store, Exists, DocumentStatus, TypeInv, TypeOK, Row
  <2>3. QED
    BY <1>2, <2>1, <2>2 DEF TypeInv, TypeOK
<1>3. /\ mails \in [Topics -> [Rounds -> Nat]] /\ excused \in [Topics -> SUBSET Nat]
      /\ docs \in [Docs -> Row]
  BY DEF TypeInv, TypeOK
<1>4. ASSUME NEW b \in BOOLEAN, UpdateByDriver(h, b) PROVE TypeInv'
  <2> DEFINE again == b /\ task[h].seen = "REJECTED"
             status == IF again THEN "PENDING" ELSE docs[d].status
             reason == docs[d].reason /\ ~again
  <2>1. d \in Docs /\ Exists(d) /\ Store(d, status, reason, FALSE) /\ End(h)
        /\ UNCHANGED <<mails, excused, upserted, events>>
    BY <1>1, <1>4 DEF UpdateByDriver
  <2>2. status \in DocumentStatus /\ reason \in BOOLEAN
    BY <1>3, <2>1 DEF Exists, DocumentStatus, Row
  <2>3. QED
    BY <1>2, <1>3, <2>1, <2>2, EndTyped
<1>5. ASSUME NEW s \in MaybeStatus, NEW reason \in BOOLEAN, UpdateRichByAdmin(h, s, reason)
      PROVE  TypeInv'
  <2> DEFINE after == Or(s, docs[d].status)
  <2>1. /\ d \in Docs /\ d \in Topics /\ Exists(d)
        /\ Store(d, after, ReasonOnUpdate(docs[d].reason, s, reason), reason)
        /\ UNCHANGED <<mails, upserted, events>>
    BY <1>1, <1>5 DEF UpdateRichByAdmin
  <2>2. after \in DocumentStatus
    BY <2>1, OrTyped DEF Exists
  <2>3. ReasonOnUpdate(docs[d].reason, s, reason) \in BOOLEAN
    BY <1>3, <2>1 DEF ReasonOnUpdate, Row
  <2>4. asked'[d] \in Nat
    BY <2>1, HistoryTyped DEF Store, TypeInv
  <2>5. excused' \in [Topics -> SUBSET Nat]
    BY <1>5, <2>1, HistoryTyped DEF Store, UpdateRichByAdmin, TypeInv
  <2>6. [op |-> "mail", doc |-> d, round |-> asked'[d]] \in Tasks
    BY <2>1, <2>4 DEF Tasks, MailTask
  <2>7. task' \in [Handlers -> Tasks]
    BY <1>5, <2>6, IdleTyped DEF UpdateRichByAdmin, TypeInv, TypeOK
  <2>8. QED
    BY <1>2, <1>3, <2>1, <2>2, <2>3, <2>5, <2>7
<1>6. ASSUME NEW s \in MaybeStatus, NEW reason \in BOOLEAN, ReviewLogBook(h, s, reason)
      PROVE  TypeInv'
  <2> DEFINE after == Or(s, docs[d].status)
  <2>1. /\ d \in Docs /\ d \in Topics /\ Exists(d)
        /\ Store(d, after, reason \/ docs[d].reason, reason)
        /\ End(h) /\ UNCHANGED <<upserted, events>>
    BY <1>1, <1>6 DEF ReviewLogBook
  <2>2. after \in DocumentStatus
    BY <2>1, OrTyped DEF Exists
  <2>3. (reason \/ docs[d].reason) \in BOOLEAN
    OBVIOUS
  <2>4. excused' \in [Topics -> SUBSET Nat]
    BY <1>6, <2>1, HistoryTyped DEF Store, ReviewLogBook, TypeInv
  <2>5. mails' \in [Topics -> [Rounds -> Nat]]
    BY <1>3, <1>6, <2>1, EmittedTyped DEF ReviewLogBook, TypeInv
  <2>6. QED
    BY <1>2, <2>1, <2>2, <2>3, <2>4, <2>5, EndTyped
<1>7. QED
  BY <1>4, <1>5, <1>6

\* The others.
LEMMA OthersTyped ==
    ASSUME TypeInv, NEW h \in Handlers,
           \/ UpsertUpdate(h) \/ UpdateLogBookByAdmin(h)
           \/ \E b \in BOOLEAN : RequestOptionalDocuments(h, b)
           \/ SendOutcome(h) \/ Delete(h) \/ Abandon(h)
    PROVE  TypeInv'
<1>1. CASE UpsertUpdate(h)
  <2> DEFINE d == task[h].found
             t == [op |-> "update", role |-> task[h].role, doc |-> d, seen |-> docs[d].status]
  <2>1. task[h] \in LookTask /\ d # Null
    BY <1>1, TaskKinds DEF UpsertUpdate, TypeInv
  <2>2. t \in Tasks
    BY <1>1, <2>1 DEF UpsertUpdate, LookTask, Docs, Exists, Tasks, DocTask
  <2>3. task' \in [Handlers -> Tasks]
    BY <1>1, <2>2, TaskTyped DEF UpsertUpdate, TypeInv, TypeOK
  <2>4. QED
    BY <1>1, <2>3 DEF UpsertUpdate, rows, history, TypeInv, TypeOK, Used
<1>2. CASE UpdateLogBookByAdmin(h)
  BY <1>2, EndTyped DEF UpdateLogBookByAdmin, rows, history, TypeInv, TypeOK, Used
<1>3. ASSUME NEW b \in BOOLEAN, RequestOptionalDocuments(h, b) PROVE TypeInv'
  <2>1. task' \in [Handlers -> Tasks]
    BY <1>3, EndTyped DEF RequestOptionalDocuments
  <2>2. Optional \in Topics
    BY DocsAreTopics
  <2>3. asked' \in [Topics -> Nat] /\ excused' \in [Topics -> SUBSET Nat]
    BY <1>3, <2>2, HistoryTyped DEF RequestOptionalDocuments, TypeInv
  <2>4. mails' \in [Topics -> [Rounds -> Nat]]
    BY <1>3, <2>2, EmittedTyped DEF RequestOptionalDocuments, TypeInv, TypeOK
  <2>5. QED
    BY <1>3, <2>1, <2>3, <2>4 DEF RequestOptionalDocuments, TypeInv, TypeOK, Used
<1>4. CASE SendOutcome(h)
  <2>1. task' \in [Handlers -> Tasks]
    BY <1>4, EndTyped DEF SendOutcome
  <2>2. task[h].doc \in Topics
    BY <1>4, TaskKinds, DocsAreTopics DEF SendOutcome, MailTask, TypeInv
  <2>3. mails' \in [Topics -> [Rounds -> Nat]]
    BY <1>4, <2>2, EmittedTyped DEF SendOutcome, TypeInv
  <2>4. QED
    BY <1>4, <2>1, <2>3 DEF SendOutcome, rows, TypeInv, TypeOK, Used
<1>5. CASE Delete(h)
  <2> DEFINE d == task[h].doc
             row == [docs[d] EXCEPT !.status = "DELETED", !.reason = FALSE]
  <2>1. d \in Docs /\ docs[d] \in Row
    BY <1>5, TaskKinds DEF Delete, DocTask, TypeInv, TypeOK
  <2>2. row \in Row
    BY <2>1 DEF Row
  <2>3. docs' = [docs EXCEPT ![d] = row]
    BY <1>5, <2>1 DEF Delete, TypeInv, TypeOK
  <2>4. docs' \in [Docs -> Row]
    BY <2>1, <2>2, <2>3 DEF TypeInv, TypeOK
  <2>5. IsFiniteSet(Used')
    BY <1>5, <2>1, <2>3, UsedSame DEF Delete, Exists, DocumentStatus, TypeInv, TypeOK, Row
  <2>6. QED
    BY <1>5, <2>4, <2>5, EndTyped DEF Delete, history, TypeInv, TypeOK
<1>6. CASE Abandon(h)
  <2>1. task' \in [Handlers -> Tasks]
    BY <1>6, EndTyped DEF Abandon
  <2>2. task[h].op = "mail" => task[h].doc \in Topics /\ task[h].round \in Nat
    BY TaskKinds, DocsAreTopics DEF MailTask, TypeInv
  <2>3. excused' \in [Topics -> SUBSET Nat]
    BY <1>6, <2>2 DEF Abandon, TypeInv, TypeOK
  <2>4. QED
    BY <1>6, <2>1, <2>3 DEF Abandon, rows, TypeInv, TypeOK, Used
<1>7. QED
  BY <1>1, <1>2, <1>3, <1>4, <1>5, <1>6

\* Every step keeps the types.
LEMMA StepTyped == TypeInv /\ [Next]_vars => TypeInv'
<1> SUFFICES ASSUME TypeInv, [Next]_vars PROVE TypeInv'
  OBVIOUS
<1>1. CASE UNCHANGED vars
  BY <1>1 DEF vars, rows, history, TypeInv, TypeOK, Used
<1>2. CASE Next
  BY <1>2, StartsTyped, CreatesTyped, StoresTyped, OthersTyped DEF Next
<1>3. QED
  BY <1>1, <1>2

\* So they are invariant.
LEMMA TypeInvariant == Spec => []TypeInv
  BY InitTyped, StepTyped, PTL DEF Spec

\* Rows, tasks and histories always have the types of their declarations.
THEOREM TypeCorrect == Spec => []TypeOK
<1>1. TypeInv => TypeOK
  BY DEF TypeInv
<1>2. QED
  BY TypeInvariant, <1>1, PTL

(***************************************************************************)
(* NoReasonOfThePast.  A row that was never used was never rejected, and   *)
(* the review endpoint, which clears no reason, is for log books only.     *)
(***************************************************************************)
NewRowsNeverRejected == \A d \in Docs : docs[d].status = "UNUSED" => asked[d] = 0
ReviewsAreOfLogBooks == \A h \in Handlers : task[h].op = "review" => task[h].doc \in LogBooks
ReasonInv == TypeInv /\ NoReasonOfThePast /\ NewRowsNeverRejected /\ ReviewsAreOfLogBooks

\* A step that leaves the rows, what was counted about them and what was
\* given alone.
LEMMA ReasonsSame ==
    ASSUME ReasonInv, TypeInv', UNCHANGED <<docs, given>>,
           \A d \in Docs : asked'[d] = asked[d],
           ReviewsAreOfLogBooks'
    PROVE  ReasonInv'
  BY DEF ReasonInv, NoReasonOfThePast, NewRowsNeverRejected, Docs, Exists, Rejected

\* A handler that turns to a task other than a review.
LEMMA ReviewsKept ==
    ASSUME ReasonInv, NEW h \in Handlers, NEW t, task' = [task EXCEPT ![h] = t],
           t.op = "review" => t.doc \in LogBooks
    PROVE  ReviewsAreOfLogBooks'
  BY DEF ReasonInv, ReviewsAreOfLogBooks, TypeInv, TypeOK

\* A handler that ends reviews nothing.
LEMMA EndReviews ==
    ASSUME ReasonInv, NEW h \in Handlers, End(h)
    PROVE  ReviewsAreOfLogBooks'
  BY ReviewsKept DEF End, Idle

\* A new row has a reason only when it was given with it.
LEMMA InsertReason ==
    ASSUME ReasonInv, TypeInv', NEW d \in Docs, NEW status \in DocumentStatus,
           NEW reason \in BOOLEAN, Insert(d, status, reason),
           ReviewsAreOfLogBooks'
    PROVE  ReasonInv'
<1>1. /\ d \in Topics /\ asked[d] = 0
      /\ asked'[d] = IF status = "REJECTED" THEN 1 ELSE 0
      /\ \A u \in Topics : u # d => asked'[u] = asked[u]
  <2>1. d \in Topics /\ asked[d] = 0 /\ TypeOK
    BY DocsAreTopics DEF Insert, ReasonInv, NewRowsNeverRejected, TypeInv
  <2>2. QED
    BY <2>1 DEF Insert, Count, TypeOK
<1>2. /\ docs'[d].status = status /\ docs'[d].reason = reason
      /\ given'[d] = IF reason THEN 1 ELSE given[d]
      /\ \A e \in Docs : e # d => docs'[e] = docs[e] /\ given'[e] = given[e]
  BY DEF Insert, ReasonInv, TypeInv, TypeOK
<1>3. NewRowsNeverRejected'
  <2> SUFFICES ASSUME NEW e \in Docs, docs'[e].status = "UNUSED" PROVE asked'[e] = 0
    BY DEF NewRowsNeverRejected
  <2>1. e # d
    BY <1>2 DEF DocumentStatus
  <2>2. QED
    BY <1>1, <1>2, <2>1, DocsAreTopics DEF ReasonInv, NewRowsNeverRejected
<1>4. NoReasonOfThePast'
  <2> SUFFICES ASSUME NEW e \in RichDocs, Exists(e)', docs'[e].reason
               PROVE  given'[e] >= (IF Rejected(e)' THEN asked'[e] ELSE asked'[e] + 1)
    BY DEF NoReasonOfThePast
  <2>1. e \in Docs /\ e \in Topics
    BY DocsAreTopics DEF Docs
  <2>2. CASE e = d
    BY <1>1, <1>2, <2>2 DEF Rejected
  <2>3. CASE e # d
    BY <1>1, <1>2, <2>1, <2>3 DEF ReasonInv, NoReasonOfThePast, Exists, Rejected
  <2>4. QED
    BY <2>2, <2>3
<1>5. QED
  BY <1>3, <1>4 DEF ReasonInv

\* A stored reason was given now, or it was there and the row did not leave
\* the rejection it belongs to.
LEMMA StoreReason ==
    ASSUME ReasonInv, TypeInv', NEW d \in Docs, NEW status \in DocumentStatus,
           NEW reason \in BOOLEAN, NEW reasoned \in BOOLEAN,
           Exists(d), Store(d, status, reason, reasoned),
           d \in RichDocs /\ reason /\ ~reasoned
             => docs[d].reason /\ status \in {docs[d].status, "REJECTED"},
           ReviewsAreOfLogBooks'
    PROVE  ReasonInv'
<1>1. /\ d \in Topics
      /\ asked'[d] = IF ~Rejected(d) /\ status = "REJECTED" THEN asked[d] + 1 ELSE asked[d]
      /\ \A u \in Topics : u # d => asked'[u] = asked[u]
  <2>1. d \in Topics /\ TypeOK
    BY DocsAreTopics DEF ReasonInv, TypeInv
  <2>2. QED
    BY <2>1 DEF Store, Count, TypeOK
<1>2. /\ docs'[d].status = status /\ docs'[d].reason = reason
      /\ given'[d] = IF ~reasoned THEN given[d]
                     ELSE IF status = "REJECTED" THEN asked'[d] ELSE asked'[d] + 1
      /\ \A e \in Docs : e # d => docs'[e] = docs[e] /\ given'[e] = given[e]
  BY DEF Store, ReasonInv, TypeInv, TypeOK, Row
<1>3. NewRowsNeverRejected'
  <2> SUFFICES ASSUME NEW e \in Docs, docs'[e].status = "UNUSED" PROVE asked'[e] = 0
    BY DEF NewRowsNeverRejected
  <2>1. e # d
    BY <1>2 DEF DocumentStatus
  <2>2. QED
    BY <1>1, <1>2, <2>1, DocsAreTopics DEF ReasonInv, NewRowsNeverRejected
<1>4. NoReasonOfThePast'
  <2> SUFFICES ASSUME NEW e \in RichDocs, Exists(e)', docs'[e].reason
               PROVE  given'[e] >= (IF Rejected(e)' THEN asked'[e] ELSE asked'[e] + 1)
    BY DEF NoReasonOfThePast
  <2>1. e \in Docs /\ e \in Topics
    BY DocsAreTopics DEF Docs
  <2>2. asked'[e] \in Nat /\ asked[e] \in Nat /\ given[e] \in Nat
    BY <2>1 DEF ReasonInv, TypeInv, TypeOK
  <2>3. CASE e = d /\ reasoned
    BY <1>2, <2>2, <2>3 DEF Rejected
  <2>4. CASE e = d /\ ~reasoned
    <3>1. docs[d].reason /\ status \in {docs[d].status, "REJECTED"}
      BY <1>2, <2>4
    <3>2. given[d] >= (IF Rejected(d) THEN asked[d] ELSE asked[d] + 1)
      BY <2>4, <3>1 DEF ReasonInv, NoReasonOfThePast
    <3>3. QED
      BY <1>1, <1>2, <2>2, <2>4, <3>1, <3>2 DEF Rejected
  <2>5. CASE e # d
    BY <1>1, <1>2, <2>1, <2>5 DEF ReasonInv, NoReasonOfThePast, Exists, Rejected
  <2>6. QED
    BY <2>3, <2>4, <2>5
<1>5. QED
  BY <1>3, <1>4 DEF ReasonInv

\* At first there is no reason.
LEMMA InitReason == Init => ReasonInv
<1> SUFFICES ASSUME Init PROVE ReasonInv
  OBVIOUS
<1>1. \A d \in Docs : docs[d].status = "UNUSED" /\ asked[d] = 0
  BY DocsAreTopics DEF Init
<1>2. NoReasonOfThePast
  BY <1>1 DEF NoReasonOfThePast, Exists, DocumentStatus, Docs
<1>3. ReviewsAreOfLogBooks
  BY DEF Init, Idle, ReviewsAreOfLogBooks
<1>4. QED
  BY <1>1, <1>2, <1>3, InitTyped DEF ReasonInv, NewRowsNeverRejected

\* Every step keeps the reasons current, one action after the other.
LEMMA StepReason == ReasonInv /\ [Next]_vars => ReasonInv'
<1> SUFFICES ASSUME ReasonInv, [Next]_vars PROVE ReasonInv'
  OBVIOUS
<1>1. TypeInv /\ TypeInv'
  BY StepTyped DEF ReasonInv
<1>2. CASE UNCHANGED vars
  BY <1>1, <1>2, ReasonsSame DEF vars, rows, history, ReasonInv, ReviewsAreOfLogBooks
<1>3. ASSUME NEW h \in Handlers, NEW t, Start(h, t),
             t.op = "review" => t.doc \in LogBooks
      PROVE  ReasonInv'
  <2>1. ReviewsAreOfLogBooks'
    BY <1>3, ReviewsKept DEF Start
  <2>2. QED
    BY <1>1, <1>3, <2>1, ReasonsSame DEF Start, rows, history
<1>4. ASSUME NEW h \in Handlers, NEW role \in Roles, StartCreate(h, role) PROVE ReasonInv'
  BY <1>3, <1>4 DEF StartCreate
<1>5. ASSUME NEW h \in Handlers, NEW role \in Roles, StartUpsert(h, role) PROVE ReasonInv'
  BY <1>3, <1>5 DEF StartUpsert
<1>6. ASSUME NEW h \in Handlers, NEW role \in Roles, NEW d \in Docs,
             NEW op \in {"update", "delete"}, StartMutation(h, op, role, d)
      PROVE  ReasonInv'
  BY <1>3, <1>6 DEF StartMutation
<1>7. ASSUME NEW h \in Handlers, NEW d \in Docs, StartReview(h, d) PROVE ReasonInv'
  BY <1>3, <1>7 DEF StartReview
<1>8. ASSUME NEW h \in Handlers, StartRequest(h) PROVE ReasonInv'
  BY <1>3, <1>8 DEF StartRequest
<1>9. "PENDING" \in DocumentStatus
  BY DEF DocumentStatus
<1>10. ASSUME NEW h \in Handlers, NEW d \in Docs, CreateLogBook(h, d) PROVE ReasonInv'
  BY <1>1, <1>9, <1>10, EndReviews, InsertReason DEF CreateLogBook
<1>11. ASSUME NEW h \in Handlers, NEW d \in Docs, UpsertCreate(h, d) PROVE ReasonInv'
  BY <1>1, <1>9, <1>11, EndReviews, InsertReason DEF UpsertCreate
<1>12. ASSUME NEW h \in Handlers, NEW s \in MaybeStatus, NEW reason \in BOOLEAN,
              NEW d \in Docs, CreateRich(h, d, s, reason)
       PROVE  ReasonInv'
  BY <1>1, <1>9, <1>12, OrTyped, EndReviews, InsertReason DEF CreateRich, ReasonOnCreate
<1>13. ASSUME NEW h \in Handlers, UpsertUpdate(h) PROVE ReasonInv'
  <2>1. ReviewsAreOfLogBooks'
    BY <1>13, ReviewsKept DEF UpsertUpdate
  <2>2. QED
    BY <1>1, <1>13, <2>1, ReasonsSame DEF UpsertUpdate, rows, history
<1>14. ASSUME NEW h \in Handlers, UpdateLogBookByAdmin(h) PROVE ReasonInv'
  BY <1>1, <1>14, EndReviews, ReasonsSame DEF UpdateLogBookByAdmin, rows, history
<1>15. ASSUME NEW h \in Handlers, task[h].op \in {"update", "review", "delete"}
       PROVE  /\ task[h].doc \in Docs
              /\ Exists(task[h].doc) => /\ docs[task[h].doc].status \in DocumentStatus
                                        /\ docs[task[h].doc].reason \in BOOLEAN
  BY <1>1, <1>15, TaskKinds DEF TypeInv, TypeOK, DocTask, Exists, Row
<1>16. ASSUME NEW h \in Handlers, NEW b \in BOOLEAN, UpdateByDriver(h, b) PROVE ReasonInv'
  <2> DEFINE d == task[h].doc
             again == b /\ task[h].seen = "REJECTED"
             status == IF again THEN "PENDING" ELSE docs[d].status
             reason == docs[d].reason /\ ~again
  <2>1. /\ d \in Docs /\ Exists(d) /\ Store(d, status, reason, FALSE) /\ End(h)
        /\ docs[d].status \in DocumentStatus
    BY <1>15, <1>16 DEF UpdateByDriver
  <2>2. status \in DocumentStatus /\ reason \in BOOLEAN
    BY <1>9, <2>1
  <2>3. reason => docs[d].reason /\ status = docs[d].status
    OBVIOUS
  <2> HIDE DEF status, reason, d
  <2>4. QED
    BY <1>1, <2>1, <2>2, <2>3, EndReviews, StoreReason
<1>17. ASSUME NEW h \in Handlers, NEW s \in MaybeStatus, NEW given1 \in BOOLEAN,
              UpdateRichByAdmin(h, s, given1)
       PROVE  ReasonInv'
  <2> DEFINE d == task[h].doc
             after == Or(s, docs[d].status)
             reason == ReasonOnUpdate(docs[d].reason, s, given1)
  <2>1. /\ d \in Docs /\ Exists(d) /\ Store(d, after, reason, given1)
        /\ docs[d].status \in DocumentStatus /\ docs[d].reason \in BOOLEAN
    BY <1>15, <1>17 DEF UpdateRichByAdmin
  <2>2. after \in DocumentStatus /\ reason \in BOOLEAN
    BY <2>1, OrTyped DEF ReasonOnUpdate
  <2>3. reason /\ ~given1 => docs[d].reason /\ after \in {docs[d].status, "REJECTED"}
    BY DEF ReasonOnUpdate, Or
  <2>4. ReviewsAreOfLogBooks'
    BY <1>17, ReviewsKept DEF UpdateRichByAdmin, Idle
  <2> HIDE DEF after, reason, d
  <2>5. QED
    BY <1>1, <2>1, <2>2, <2>3, <2>4, StoreReason
<1>18. ASSUME NEW h \in Handlers, NEW s \in MaybeStatus, NEW given1 \in BOOLEAN,
              ReviewLogBook(h, s, given1)
       PROVE  ReasonInv'
  <2> DEFINE d == task[h].doc
             after == Or(s, docs[d].status)
             reason == given1 \/ docs[d].reason
  <2>1. /\ d \in Docs /\ Exists(d) /\ Store(d, after, reason, given1) /\ End(h)
        /\ docs[d].status \in DocumentStatus /\ docs[d].reason \in BOOLEAN
    BY <1>15, <1>18 DEF ReviewLogBook
  <2>2. after \in DocumentStatus /\ reason \in BOOLEAN
    BY <2>1, OrTyped
  <2>3. d \notin RichDocs
    BY <1>18, TopicsAssumption DEF ReviewLogBook, ReasonInv, ReviewsAreOfLogBooks
  <2> HIDE DEF after, reason, d
  <2>4. QED
    BY <1>1, <2>1, <2>2, <2>3, EndReviews, StoreReason
<1>19. ASSUME NEW h \in Handlers, NEW b \in BOOLEAN, RequestOptionalDocuments(h, b)
       PROVE  ReasonInv'
  <2>1. \A d \in Docs : asked'[d] = asked[d]
    BY <1>1, <1>19, DocsAreTopics, HistoryTyped DEF RequestOptionalDocuments, TypeInv
  <2>2. QED
    BY <1>1, <1>19, <2>1, EndReviews, ReasonsSame DEF RequestOptionalDocuments
<1>20. ASSUME NEW h \in Handlers, SendOutcome(h) PROVE ReasonInv'
  BY <1>1, <1>20, EndReviews, ReasonsSame DEF SendOutcome, rows
<1>21. ASSUME NEW h \in Handlers, Delete(h) PROVE ReasonInv'
  <2> DEFINE d == task[h].doc
  <2>1. d \in Docs /\ UNCHANGED <<given, asked>> /\ docs'[d].status = "DELETED"
        /\ \A e \in Docs : e # d => docs'[e] = docs[e]
    BY <1>1, <1>15, <1>21 DEF Delete, history, TypeInv, TypeOK, Row
  <2>2. NewRowsNeverRejected'
    BY <2>1 DEF ReasonInv, NewRowsNeverRejected
  <2>3. NoReasonOfThePast'
    BY <2>1 DEF ReasonInv, NoReasonOfThePast, Exists, Rejected, DocumentStatus, Docs
  <2>4. QED
    BY <1>1, <1>21, <2>2, <2>3, EndReviews DEF ReasonInv, Delete
<1>22. ASSUME NEW h \in Handlers, Abandon(h) PROVE ReasonInv'
  BY <1>1, <1>22, EndReviews, ReasonsSame DEF Abandon, rows
<1>23. CASE Next
  BY <1>4, <1>5, <1>6, <1>7, <1>8, <1>10, <1>11, <1>12, <1>13, <1>14, <1>16, <1>17,
     <1>18, <1>19, <1>20, <1>21, <1>22, <1>23 DEF Next
<1>24. QED
  BY <1>2, <1>23

\* No inspection, insurance or PCO document keeps a reason from an earlier
\* rejection, however the handlers of drivers and admins overlap.
THEOREM ReasonsAreCurrent == Spec => []NoReasonOfThePast
<1>1. ReasonInv => NoReasonOfThePast
  BY DEF ReasonInv
<1>2. QED
  BY InitReason, StepReason, <1>1, PTL DEF Spec

(***************************************************************************)
(* The newest of some rows exists: a set of naturals has a least element.  *)
(***************************************************************************)
LEMMA LeastNat ==
    ASSUME NEW T \in SUBSET Nat, T # {}
    PROVE  \E m \in T : \A n \in T : m <= n
<1> DEFINE R == OpToRel(<, Nat)
<1>1. IsWellFoundedOn(R, Nat)
  BY NatLessThanWellFounded
<1>2. \A m, n \in Nat : n < m => <<n, m>> \in R
  BY DEF OpToRel
<1> HIDE DEF R
<1>3. PICK m \in T : \A n \in T : ~(<<n, m>> \in R)
  BY <1>1, WFMin
<1>4. ASSUME NEW n \in T PROVE m <= n
  <2>1. m \in Nat /\ n \in Nat
    BY <1>3, <1>4
  <2>2. ~(n < m)
    BY <1>2, <1>3, <2>1
  <2>3. QED
    BY <2>1, <2>2
<1>5. QED
  BY <1>4

\* If there are live log books, the lookup of the newest finds one.
LEMMA FoundExists ==
    ASSUME TypeInv, \A d \in Used : docs[d].born < Cardinality(Used),
           NEW e \in LiveLogBooks
    PROVE  \E d \in LogBooks : Found(d)
<1> DEFINE n == Cardinality(Used)
           T == {n - docs[d].born : d \in LiveLogBooks}
<1>1. n \in Nat
  BY FS_CardinalityType DEF TypeInv
<1>2. \A d \in LiveLogBooks : docs[d].born \in Nat /\ docs[d].born < n
  BY DEF LiveLogBooks, Exists, DocumentStatus, Used, Docs, TypeInv, TypeOK, Row
<1> HIDE DEF n
<1>3. T \in SUBSET Nat /\ T # {}
  BY <1>1, <1>2
<1>4. PICK m \in T : \A k \in T : m <= k
  BY <1>3, LeastNat
<1>5. PICK d \in LiveLogBooks : m = n - docs[d].born
  BY <1>4
<1>6. \A c \in LiveLogBooks : docs[c].born <= docs[d].born
  <2> SUFFICES ASSUME NEW c \in LiveLogBooks PROVE docs[c].born <= docs[d].born
    OBVIOUS
  <2>1. n - docs[d].born <= n - docs[c].born
    BY <1>4, <1>5
  <2>2. QED
    BY <1>1, <1>2, <2>1
<1>7. QED
  BY <1>5, <1>6 DEF Found, LiveLogBooks

(***************************************************************************)
(* UpsertsShareARow.  A handler that found no row has promised one: rows   *)
(* made and rows promised together are at most as many as the handlers.    *)
(***************************************************************************)
Made == {d \in upserted : Exists(d)}
Promised == {h \in Handlers : task[h].op = "upsert" /\ task[h].found = Null}
UpsertInv ==
    /\ TypeInv
    /\ IsFiniteSet(upserted)
    /\ \A d \in upserted : docs[d].status # "UNUSED"
    /\ \A d \in Used : docs[d].born < Cardinality(Used)
    /\ Cardinality(Made) + Cardinality(Promised) <= Cardinality(Handlers)

\* All of these sets are finite.
LEMMA UpsertsFinite ==
    ASSUME UpsertInv
    PROVE  /\ IsFiniteSet(Made) /\ Cardinality(Made) \in Nat
           /\ IsFiniteSet(Promised) /\ Cardinality(Promised) \in Nat
           /\ Cardinality(Handlers) \in Nat
<1>1. Made \in SUBSET upserted /\ Promised \in SUBSET Handlers
  BY DEF Made, Promised
<1>2. IsFiniteSet(Made) /\ IsFiniteSet(Promised)
  BY <1>1, FS_Subset, HandlersAssumption DEF UpsertInv
<1>3. QED
  BY <1>2, FS_CardinalityType, HandlersAssumption

\* Most steps make no row, promise none and insert none.
LEMMA UpsertsShrink ==
    ASSUME UpsertInv, TypeInv', UNCHANGED upserted,
           \A d \in Docs : /\ docs'[d].born = docs[d].born
                           /\ docs'[d].status = "UNUSED" <=> docs[d].status = "UNUSED"
                           /\ Exists(d)' => Exists(d),
           Promised' \subseteq Promised
    PROVE  UpsertInv'
<1>1. Made' \in SUBSET Made /\ Promised' \in SUBSET Promised
  BY DEF Made, UpsertInv, TypeInv, TypeOK, Docs
<1>2. IsFiniteSet(Made') /\ IsFiniteSet(Promised')
  BY <1>1, UpsertsFinite, FS_Subset
<1>3. /\ Cardinality(Made') <= Cardinality(Made)
      /\ Cardinality(Promised') <= Cardinality(Promised)
  BY <1>1, UpsertsFinite, FS_Subset
<1>4. Cardinality(Made') \in Nat /\ Cardinality(Promised') \in Nat
  BY <1>2, FS_CardinalityType
<1>5. Cardinality(Made') + Cardinality(Promised') <= Cardinality(Handlers)
  BY <1>3, <1>4, UpsertsFinite DEF UpsertInv
<1>6. Used' = Used
  BY DEF Used
<1>7. \A d \in Used' : docs'[d].born < Cardinality(Used')
  BY <1>6 DEF UpsertInv, Used
<1>8. QED
  BY <1>5, <1>7 DEF UpsertInv, TypeInv, TypeOK, Docs

\* A new row is the newest.
LEMMA InsertUpserts ==
    ASSUME UpsertInv, NEW d \in Docs, NEW status \in DocumentStatus, NEW reason,
           Insert(d, status, reason)
    PROVE  /\ d \notin upserted
           /\ \A e \in Docs : e # d => docs'[e] = docs[e]
           /\ docs'[d].status = status
           /\ \A e \in Used' : docs'[e].born < Cardinality(Used')
<1>1. /\ d \notin upserted /\ d \notin Used
      /\ \A e \in Docs : e # d => docs'[e] = docs[e]
      /\ docs'[d].status = status /\ docs'[d].born = Cardinality(Used)
  BY DEF UpsertInv, Insert, TypeInv, TypeOK, Used
<1>2. Used' = Used \cup {d}
  BY <1>1 DEF Used, DocumentStatus
<1>3. Cardinality(Used') = Cardinality(Used) + 1 /\ Cardinality(Used) \in Nat
  BY <1>1, <1>2, FS_AddElement, FS_CardinalityType DEF UpsertInv, TypeInv
<1>4. \A e \in Used : docs[e].born \in Nat /\ docs[e].born < Cardinality(Used)
  BY DEF UpsertInv, TypeInv, TypeOK, Row, Used
<1>5. \A e \in Used' : docs'[e].born < Cardinality(Used')
  BY <1>1, <1>2, <1>3, <1>4 DEF Used
<1>6. QED
  BY <1>1, <1>5

\* Inserting a row outside an upsert.
LEMMA InsertShrinks ==
    ASSUME UpsertInv, TypeInv', UNCHANGED upserted, NEW d \in Docs,
           NEW status \in DocumentStatus, NEW reason, Insert(d, status, reason),
           Promised' \subseteq Promised
    PROVE  UpsertInv'
<1>1. \A e \in upserted : docs'[e] = docs[e]
  BY InsertUpserts DEF UpsertInv, TypeInv, TypeOK, Docs
<1>2. Made' = Made /\ Promised' \in SUBSET Promised
  BY <1>1 DEF Made, Exists
<1>3. /\ IsFiniteSet(Promised')
      /\ Cardinality(Promised') <= Cardinality(Promised)
  BY <1>2, UpsertsFinite, FS_Subset
<1>4. Cardinality(Promised') \in Nat
  BY <1>3, FS_CardinalityType
<1>5. Cardinality(Made') + Cardinality(Promised') <= Cardinality(Handlers)
  BY <1>2, <1>3, <1>4, UpsertsFinite DEF UpsertInv
<1>6. QED
  BY <1>1, <1>5, InsertUpserts DEF UpsertInv

\* A handler that turns to another task promises nothing new.
LEMMA NoNewPromise ==
    ASSUME UpsertInv, NEW h \in Handlers, NEW t, task' = [task EXCEPT ![h] = t],
           t.op = "upsert" => t.found # Null
    PROVE  Promised' \subseteq Promised
  BY DEF Promised, UpsertInv, TypeInv, TypeOK

\* Nor does one that ends.
LEMMA EndPromise ==
    ASSUME UpsertInv, NEW h \in Handlers, End(h)
    PROVE  Promised' \subseteq Promised
  BY NoNewPromise DEF End, Idle

\* A row whose status is stored neither appears nor goes.
LEMMA StoreShrinks ==
    ASSUME UpsertInv, TypeInv', UNCHANGED upserted, NEW d \in Docs, Exists(d),
           NEW status \in DocumentStatus, NEW reason, NEW reasoned,
           Store(d, status, reason, reasoned), Promised' \subseteq Promised
    PROVE  UpsertInv'
<1>1. \A e \in Docs : /\ docs'[e].status = IF e = d THEN status ELSE docs[e].status
                      /\ docs'[e].born = docs[e].born
  BY DEF Store, Row, UpsertInv, TypeInv, TypeOK
<1>2. QED
  BY <1>1, UpsertsShrink DEF Exists, DocumentStatus

\* At first nothing is made and nothing promised.
LEMMA InitUpsert == Init => UpsertInv
<1> SUFFICES ASSUME Init PROVE UpsertInv
  OBVIOUS
<1>1. Made = {} /\ Promised = {} /\ upserted = {} /\ Used = {}
  BY DEF Init, Made, Promised, Idle, Used
<1>2. Cardinality(Handlers) \in Nat
  BY FS_CardinalityType, HandlersAssumption
<1>3. QED
  BY <1>1, <1>2, InitTyped, FS_EmptySet DEF UpsertInv

\* A handler that finds no row promises one when no row is live.
LEMMA PromiseWhenNone ==
    ASSUME UpsertInv, TypeInv', NEW h \in Handlers, NEW role,
           \A d \in LogBooks : ~Found(d),
           Start(h, [op |-> "upsert", role |-> role, found |-> Null])
    PROVE  UpsertInv'
<1>1. LiveLogBooks = {}
  BY FoundExists DEF UpsertInv
<1>2. Made' = {}
  BY <1>1 DEF Made, LiveLogBooks, Start, rows, history, Exists, UpsertInv, TypeInv, TypeOK
<1>3. Promised' \in SUBSET Handlers
  BY DEF Promised
<1>4. /\ IsFiniteSet(Promised') /\ Cardinality(Promised') \in Nat
      /\ Cardinality(Promised') <= Cardinality(Handlers)
  BY <1>3, FS_Subset, FS_CardinalityType, HandlersAssumption
<1>5. Cardinality(Made') + Cardinality(Promised') <= Cardinality(Handlers)
  BY <1>2, <1>4, FS_EmptySet
<1>6. QED
  BY <1>5 DEF UpsertInv, Start, rows, history, Used

\* A handler that makes the row it promised.
LEMMA PromiseKept ==
    ASSUME UpsertInv, TypeInv', NEW h \in Handlers, NEW d \in Docs, UpsertCreate(h, d)
    PROVE  UpsertInv'
<1>1. "PENDING" \in DocumentStatus /\ Insert(d, "PENDING", FALSE)
  BY DEF UpsertCreate, DocumentStatus
<1>2. /\ d \notin upserted /\ upserted' = upserted \cup {d}
      /\ \A e \in upserted : docs'[e] = docs[e]
      /\ docs'[d].status = "PENDING"
      /\ \A e \in Used' : docs'[e].born < Cardinality(Used')
  BY <1>1, InsertUpserts DEF UpsertCreate, UpsertInv, TypeInv, TypeOK, Docs
<1>3. Made' = Made \cup {d} /\ d \notin Made
  BY <1>2 DEF Made, Exists, DocumentStatus
<1>4. Promised' = Promised \ {h} /\ h \in Promised
  BY DEF UpsertCreate, End, Idle, Promised, UpsertInv, TypeInv, TypeOK
<1>5. /\ Cardinality(Made') = Cardinality(Made) + 1
      /\ Cardinality(Promised') = Cardinality(Promised) - 1
  BY <1>3, <1>4, UpsertsFinite, FS_AddElement, FS_RemoveElement
<1>6. IsFiniteSet(upserted')
  BY <1>2, FS_AddElement DEF UpsertInv
<1>7. Cardinality(Made') + Cardinality(Promised') <= Cardinality(Handlers)
  BY <1>5, UpsertsFinite DEF UpsertInv
<1>8. QED
  BY <1>2, <1>6, <1>7 DEF UpsertInv

\* Every step keeps the bound, one action after the other.
LEMMA StepUpsert == UpsertInv /\ [Next]_vars => UpsertInv'
<1> SUFFICES ASSUME UpsertInv, [Next]_vars PROVE UpsertInv'
  OBVIOUS
<1>1. TypeInv /\ TypeInv'
  BY StepTyped DEF UpsertInv
<1>2. ASSUME UNCHANGED <<docs, upserted>>, Promised' \subseteq Promised
      PROVE  UpsertInv'
  BY <1>1, <1>2, UpsertsShrink DEF Exists
<1>3. CASE UNCHANGED vars
  BY <1>2, <1>3 DEF vars, rows, history, Promised
<1>4. ASSUME NEW h \in Handlers, NEW t, Start(h, t), t.op = "upsert" => t.found # Null
      PROVE  UpsertInv'
  BY <1>2, <1>4, NoNewPromise DEF Start, rows, history
<1>5. ASSUME NEW h \in Handlers, NEW role \in Roles, StartCreate(h, role) PROVE UpsertInv'
  BY <1>4, <1>5 DEF StartCreate
<1>6. ASSUME NEW h \in Handlers, NEW role \in Roles, NEW d \in Docs,
             NEW op \in {"update", "delete"}, StartMutation(h, op, role, d)
      PROVE  UpsertInv'
  BY <1>4, <1>6 DEF StartMutation
<1>7. ASSUME NEW h \in Handlers, NEW d \in Docs, StartReview(h, d) PROVE UpsertInv'
  BY <1>4, <1>7 DEF StartReview
<1>8. ASSUME NEW h \in Handlers, StartRequest(h) PROVE UpsertInv'
  BY <1>4, <1>8 DEF StartRequest
<1>9. ASSUME NEW h \in Handlers, NEW role \in Roles, StartUpsert(h, role) PROVE UpsertInv'
  <2>1. ASSUME NEW d \in LogBooks,
               Start(h, [op |-> "upsert", role |-> role, found |-> d])
        PROVE  UpsertInv'
    BY <1>4, <2>1, NullAssumption
  <2>2. QED
    BY <1>1, <1>9, <2>1, PromiseWhenNone DEF StartUpsert
<1>10. ASSUME NEW h \in Handlers, NEW d \in Docs, CreateLogBook(h, d) PROVE UpsertInv'
  BY <1>1, <1>10, EndPromise, InsertShrinks DEF CreateLogBook, DocumentStatus
<1>11. ASSUME NEW h \in Handlers, NEW d \in Docs, UpsertCreate(h, d) PROVE UpsertInv'
  BY <1>1, <1>11, PromiseKept
<1>12. ASSUME NEW h \in Handlers, NEW s \in MaybeStatus, NEW reason \in BOOLEAN,
              NEW d \in Docs, CreateRich(h, d, s, reason)
       PROVE  UpsertInv'
  <2>1. Or(s, "PENDING") \in DocumentStatus
    BY OrTyped DEF DocumentStatus
  <2>2. QED
    BY <1>1, <1>12, <2>1, EndPromise, InsertShrinks DEF CreateRich
<1>13. ASSUME NEW h \in Handlers, UpsertUpdate(h) PROVE UpsertInv'
  BY <1>2, <1>13, NoNewPromise DEF UpsertUpdate, rows, history
<1>14. ASSUME NEW h \in Handlers, UpdateLogBookByAdmin(h) PROVE UpsertInv'
  BY <1>2, <1>14, EndPromise DEF UpdateLogBookByAdmin, rows, history
<1>15. ASSUME NEW h \in Handlers, task[h].op \in {"update", "review", "delete"}
       PROVE  task[h].doc \in Docs
  BY <1>1, <1>15, TaskKinds DEF TypeInv, DocTask
<1>16. ASSUME NEW h \in Handlers, NEW b \in BOOLEAN, UpdateByDriver(h, b) PROVE UpsertInv'
  <2> DEFINE d == task[h].doc
             status == IF b /\ task[h].seen = "REJECTED" THEN "PENDING" ELSE docs[d].status
             reason == docs[d].reason /\ ~(b /\ task[h].seen = "REJECTED")
  <2>1. /\ d \in Docs /\ Exists(d) /\ End(h) /\ Store(d, status, reason, FALSE)
        /\ UNCHANGED upserted
    BY <1>15, <1>16 DEF UpdateByDriver
  <2>2. status \in DocumentStatus
    BY <2>1 DEF Exists, DocumentStatus
  <2> HIDE DEF d, status, reason
  <2>3. QED
    BY <1>1, <2>1, <2>2, EndPromise, StoreShrinks
<1>17. ASSUME NEW h \in Handlers, NEW s \in MaybeStatus, NEW reason \in BOOLEAN,
              UpdateRichByAdmin(h, s, reason)
       PROVE  UpsertInv'
  <2> DEFINE d == task[h].doc
             after == Or(s, docs[d].status)
             stored == ReasonOnUpdate(docs[d].reason, s, reason)
  <2>1. d \in Docs /\ Exists(d) /\ Store(d, after, stored, reason) /\ UNCHANGED upserted
    BY <1>15, <1>17 DEF UpdateRichByAdmin
  <2>2. after \in DocumentStatus
    BY <2>1, OrTyped DEF Exists
  <2>3. Promised' \subseteq Promised
    BY <1>17, NoNewPromise DEF UpdateRichByAdmin, Idle
  <2> HIDE DEF d, after, stored
  <2>4. QED
    BY <1>1, <2>1, <2>2, <2>3, StoreShrinks
<1>18. ASSUME NEW h \in Handlers, NEW s \in MaybeStatus, NEW reason \in BOOLEAN,
              ReviewLogBook(h, s, reason)
       PROVE  UpsertInv'
  <2> DEFINE d == task[h].doc
             after == Or(s, docs[d].status)
             stored == reason \/ docs[d].reason
  <2>1. /\ d \in Docs /\ Exists(d) /\ Store(d, after, stored, reason) /\ End(h)
        /\ UNCHANGED upserted
    BY <1>15, <1>18 DEF ReviewLogBook
  <2>2. after \in DocumentStatus
    BY <2>1, OrTyped DEF Exists
  <2> HIDE DEF d, after, stored
  <2>3. QED
    BY <1>1, <2>1, <2>2, EndPromise, StoreShrinks
<1>19. ASSUME NEW h \in Handlers, NEW b \in BOOLEAN, RequestOptionalDocuments(h, b)
       PROVE  UpsertInv'
  BY <1>2, <1>19, EndPromise DEF RequestOptionalDocuments
<1>20. ASSUME NEW h \in Handlers, SendOutcome(h) PROVE UpsertInv'
  BY <1>2, <1>20, EndPromise DEF SendOutcome, rows
<1>21. ASSUME NEW h \in Handlers, Delete(h) PROVE UpsertInv'
  <2> DEFINE d == task[h].doc
  <2>1. /\ d \in Docs /\ Exists(d) /\ UNCHANGED upserted
        /\ \A e \in Docs : /\ docs'[e].status = IF e = d THEN "DELETED" ELSE docs[e].status
                           /\ docs'[e].born = docs[e].born
    BY <1>1, <1>15, <1>21 DEF Delete, history, TypeInv, TypeOK, Row
  <2>2. \A e \in Docs : /\ docs'[e].status = "UNUSED" <=> docs[e].status = "UNUSED"
                        /\ Exists(e)' => Exists(e)
    BY <2>1 DEF Exists, DocumentStatus
  <2>3. Promised' \subseteq Promised
    BY <1>21, EndPromise DEF Delete
  <2>4. QED
    BY <1>1, <2>1, <2>2, <2>3, UpsertsShrink
<1>22. ASSUME NEW h \in Handlers, Abandon(h) PROVE UpsertInv'
  BY <1>2, <1>22, EndPromise DEF Abandon, rows
<1>23. CASE Next
  BY <1>5, <1>6, <1>7, <1>8, <1>9, <1>10, <1>11, <1>12, <1>13, <1>14, <1>16, <1>17,
     <1>18, <1>19, <1>20, <1>21, <1>22, <1>23 DEF Next
<1>24. QED
  BY <1>3, <1>23

\* Of the log books that upserts create, no more are ever live at once than
\* there are handlers.
THEOREM UpsertsAreBounded == Spec => []UpsertsShareARow
<1>1. UpsertInv => UpsertsShareARow
  BY UpsertsFinite DEF UpsertInv, UpsertsShareARow, Made
<1>2. QED
  BY InitUpsert, StepUpsert, <1>1, PTL DEF Spec

(***************************************************************************)
(* ToldOnce.  A round of a topic is a time it became rejected or asked     *)
(* for.  Each round so far has had its one email sent or owed, unless it   *)
(* is excused, and no round to come has had any.  Rounds stay within the   *)
(* bound because each takes a call of its own: a handler that may still    *)
(* start one counts towards the events.                                    *)
(***************************************************************************)
Busy == {h \in Handlers : task[h].op \notin {"idle", "mail"}}
RoundsBounded == \A t \in Topics : asked[t] + Cardinality(Busy) <= events
Told(t, n) == mails[t][n] + Cardinality(Owed(t, n))
NothingAhead == \A t \in Topics : \A n \in Rounds : n > asked[t] => Told(t, n) = 0
ToldInv == TypeInv /\ RoundsBounded /\ NothingAhead /\ ToldOnce

\* All of these sets are finite.
LEMMA ToldFinite ==
    ASSUME TypeInv
    PROVE  /\ IsFiniteSet(Busy) /\ Cardinality(Busy) \in Nat
           /\ \A t \in Topics, n \in Nat : /\ IsFiniteSet(Owed(t, n))
                                           /\ Cardinality(Owed(t, n)) \in Nat
           /\ \A t \in Topics, n \in Rounds : mails[t][n] \in Nat /\ Told(t, n) \in Nat
<1>1. Busy \in SUBSET Handlers
  BY DEF Busy
<1>2. IsFiniteSet(Busy) /\ Cardinality(Busy) \in Nat
  BY <1>1, FS_Subset, FS_CardinalityType, HandlersAssumption
<1>3. ASSUME NEW t \in Topics, NEW n \in Nat
      PROVE  IsFiniteSet(Owed(t, n)) /\ Cardinality(Owed(t, n)) \in Nat
  <2>1. Owed(t, n) \in SUBSET Handlers
    BY DEF Owed
  <2>2. QED
    BY <2>1, FS_Subset, FS_CardinalityType, HandlersAssumption
<1>4. ASSUME NEW t \in Topics, NEW n \in Rounds
      PROVE  mails[t][n] \in Nat /\ Told(t, n) \in Nat
  <2>1. mails[t] \in [Rounds -> Nat]
    BY DEF TypeInv, TypeOK
  <2>2. mails[t][n] \in Nat
    BY <2>1
  <2>3. n \in Nat
    BY MaxEventsAssumption DEF Rounds
  <2>4. QED
    BY <1>3, <2>2, <2>3 DEF Told
<1>5. QED
  BY <1>2, <1>3, <1>4

\* The busy handlers are finitely many after a step, too.
LEMMA BusyFinite == Cardinality(Busy') \in Nat
<1>1. Busy' \in SUBSET Handlers
  BY DEF Busy
<1>2. QED
  BY <1>1, FS_Subset, FS_CardinalityType, HandlersAssumption

\* The emails owed when a handler turns from one task that is not an email
\* to another.
LEMMA OwedSame ==
    ASSUME TypeInv, NEW h \in Handlers, NEW t, task' = [task EXCEPT ![h] = t],
           task[h].op # "mail", t.op # "mail"
    PROVE  \A u \in Topics, n \in Nat : Owed(u, n)' = Owed(u, n)
  BY DEF Owed, TypeInv, TypeOK

\* The email that a handler turns to is one more owed.
LEMMA OwedMore ==
    ASSUME TypeInv, NEW h \in Handlers, NEW t, task' = [task EXCEPT ![h] = t],
           t.op = "mail", task[h].op # "mail"
    PROVE  \A u \in Topics, n \in Nat :
              Cardinality(Owed(u, n)') = IF u = t.doc /\ n = t.round
                                         THEN Cardinality(Owed(u, n)) + 1
                                         ELSE Cardinality(Owed(u, n))
<1> SUFFICES ASSUME NEW u \in Topics, NEW n \in Nat
             PROVE  Cardinality(Owed(u, n)') = IF u = t.doc /\ n = t.round
                                               THEN Cardinality(Owed(u, n)) + 1
                                               ELSE Cardinality(Owed(u, n))
  OBVIOUS
<1>1. h \notin Owed(u, n)
  BY DEF Owed
<1>2. Owed(u, n)' = IF u = t.doc /\ n = t.round THEN Owed(u, n) \cup {h} ELSE Owed(u, n)
  BY DEF Owed, TypeInv, TypeOK
<1>3. QED
  BY <1>1, <1>2, ToldFinite, FS_AddElement

\* The email that a handler turns from is one less.
LEMMA OwedLess ==
    ASSUME TypeInv, NEW h \in Handlers, End(h), task[h].op = "mail"
    PROVE  \A u \in Topics, n \in Nat :
              Cardinality(Owed(u, n)') = IF u = task[h].doc /\ n = task[h].round
                                         THEN Cardinality(Owed(u, n)) - 1
                                         ELSE Cardinality(Owed(u, n))
<1> SUFFICES ASSUME NEW u \in Topics, NEW n \in Nat
             PROVE  Cardinality(Owed(u, n)') = IF u = task[h].doc /\ n = task[h].round
                                               THEN Cardinality(Owed(u, n)) - 1
                                               ELSE Cardinality(Owed(u, n))
  OBVIOUS
<1>1. h \in Owed(u, n) <=> u = task[h].doc /\ n = task[h].round
  BY DEF Owed
<1>2. Owed(u, n)' = Owed(u, n) \ {h}
  BY DEF Owed, End, Idle, TypeInv, TypeOK
<1>3. Cardinality(Owed(u, n) \ {h}) = IF h \in Owed(u, n) THEN Cardinality(Owed(u, n)) - 1
                                      ELSE Cardinality(Owed(u, n))
  BY ToldFinite, FS_RemoveElement
<1>4. QED
  BY <1>1, <1>2, <1>3

\* A handler that ends, or turns to an email, is busy no longer.
LEMMA BusyLess ==
    ASSUME TypeInv, NEW h \in Handlers, h \in Busy, NEW t,
           task' = [task EXCEPT ![h] = t], t.op \in {"idle", "mail"}
    PROVE  Cardinality(Busy') = Cardinality(Busy) - 1
<1>1. Busy' = Busy \ {h}
  BY DEF Busy, TypeInv, TypeOK
<1>2. QED
  BY <1>1, ToldFinite, FS_RemoveElement

\* A step of a handler that starts no round and tells nothing new.
LEMMA QuietStep ==
    ASSUME ToldInv, TypeInv', UNCHANGED <<asked, mails, excused>>,
           \A t \in Topics, n \in Nat : Owed(t, n)' = Owed(t, n),
           events' - events >= Cardinality(Busy') - Cardinality(Busy)
    PROVE  ToldInv'
<1>1. Cardinality(Busy) \in Nat /\ Cardinality(Busy') \in Nat
  BY ToldFinite, BusyFinite DEF ToldInv
<1>2. /\ events \in Nat /\ events' \in Nat
      /\ \A t \in Topics : asked[t] \in Nat
  BY DEF ToldInv, TypeInv, TypeOK
<1>3. RoundsBounded'
  BY <1>1, <1>2 DEF ToldInv, RoundsBounded
<1>4. \A t \in Topics, n \in Nat : Told(t, n)' = Told(t, n)
  BY DEF Told
<1>5. NothingAhead'
  BY <1>4 DEF ToldInv, NothingAhead, Rounds
<1>6. ToldOnce'
  BY <1>2, <1>4 DEF ToldInv, ToldOnce, Told
<1>7. QED
  BY <1>3, <1>5, <1>6 DEF ToldInv

\* A write about topic u, which was on or off when read, before and after
\* it, that sends or owes one email exactly when the topic was off when
\* read and is on after.
LEMMA WriteTells ==
    ASSUME ToldInv, TypeInv', NEW u \in Topics,
           NEW seen \in BOOLEAN, NEW before \in BOOLEAN, NEW after \in BOOLEAN,
           Count(u, before, after), Excuse(u, seen, before, after),
           UNCHANGED events, Cardinality(Busy') = Cardinality(Busy) - 1,
           \A t \in Topics, n \in Rounds :
              Told(t, n)' = IF t = u /\ n = asked'[u] /\ after /\ ~seen
                            THEN Told(t, n) + 1 ELSE Told(t, n)
    PROVE  ToldInv'
<1>1. /\ Cardinality(Busy) \in Nat /\ Cardinality(Busy') \in Nat
      /\ \A t \in Topics, n \in Rounds : Told(t, n) \in Nat
  BY ToldFinite, BusyFinite DEF ToldInv
<1>2. /\ asked \in [Topics -> Nat] /\ asked' \in [Topics -> Nat]
      /\ excused \in [Topics -> SUBSET Nat] /\ events \in 0..MaxEvents
  BY DEF ToldInv, TypeInv, TypeOK
<1>3. \A t \in Topics : asked'[t] = IF t = u /\ ~before /\ after
                                    THEN asked[t] + 1 ELSE asked[t]
  BY <1>2 DEF Count
<1>4. RoundsBounded'
  BY <1>1, <1>2, <1>3 DEF ToldInv, RoundsBounded
<1>5. \A t \in Topics : asked'[t] \in 0..MaxEvents
  BY <1>1, <1>2, <1>4, MaxEventsAssumption DEF RoundsBounded
<1>6. \A t \in Topics : excused'[t] = IF t = u /\ after /\ seen # before
                                      THEN excused[t] \cup {asked'[u]} ELSE excused[t]
  BY <1>2 DEF Excuse
<1>7. NothingAhead'
  <2> SUFFICES ASSUME NEW t \in Topics, NEW n \in Rounds, n > asked'[t]
               PROVE  Told(t, n)' = 0
    BY DEF NothingAhead
  <2>1. n > asked[t] /\ ~(t = u /\ n = asked'[u])
    BY <1>2, <1>3 DEF Rounds
  <2>2. Told(t, n) = 0
    BY <2>1 DEF ToldInv, NothingAhead
  <2>3. QED
    BY <2>1, <2>2
<1>8. ToldOnce'
  <2> SUFFICES ASSUME NEW t \in Topics, NEW n \in 1..asked'[t], n \notin excused'[t]
               PROVE  Told(t, n)' = 1
    BY DEF ToldOnce, Told
  <2>1. n \in Rounds /\ n \notin excused[t]
    <3>1. asked'[t] \in 0..MaxEvents
      BY <1>5
    <3>2. n \in Rounds
      BY <3>1, MaxEventsAssumption DEF Rounds
    <3>3. n \notin excused[t]
      BY <1>6
    <3>4. QED
      BY <3>2, <3>3
  <2>2. CASE n <= asked[t]
    <3>1. Told(t, n) = 1
      BY <1>2, <2>1, <2>2 DEF ToldInv, ToldOnce, Told, Rounds
    <3>2. ~(t = u /\ n = asked'[u] /\ after /\ ~seen)
      <4> SUFFICES ASSUME t = u, n = asked'[u], after, ~seen PROVE FALSE
        OBVIOUS
      <4>1. before
        BY <1>2, <1>3, <2>2
      <4>2. n \in excused'[t]
        BY <1>6, <4>1
      <4>3. QED
        BY <4>2
    <3>3. QED
      BY <2>1, <3>1, <3>2
  <2>3. CASE ~(n <= asked[t])
    <3>1. t = u /\ n = asked'[u] /\ ~before /\ after
      BY <1>2, <1>3, <2>3
    <3>2. ~seen
      BY <1>6, <3>1
    <3>3. Told(t, n) = 0
      BY <1>2, <2>1, <2>3 DEF ToldInv, NothingAhead, Rounds
    <3>4. QED
      BY <2>1, <3>1, <3>2, <3>3
  <2>4. QED
    BY <2>2, <2>3
<1>9. QED
  BY <1>4, <1>7, <1>8 DEF ToldInv

\* An email adds one to the counter it is meant for.
LEMMA EmittedAt ==
    ASSUME TypeInv, NEW u \in Topics, NEW r
    PROVE  \A t \in Topics, n \in Rounds :
              Emitted(u, r)[t][n] = IF t = u /\ n = r THEN mails[t][n] + 1 ELSE mails[t][n]
<1>1. mails \in [Topics -> [Rounds -> Nat]]
  BY DEF TypeInv, TypeOK
<1> SUFFICES ASSUME NEW t \in Topics, NEW n \in Rounds
             PROVE  Emitted(u, r)[t][n] = IF t = u /\ n = r THEN mails[t][n] + 1
                                          ELSE mails[t][n]
  OBVIOUS
<1>2. Emitted(u, r)[t] = IF t = u THEN [mails[u] EXCEPT ![r] = @ + 1] ELSE mails[t]
  BY <1>1 DEF Emitted
<1>3. [mails[u] EXCEPT ![r] = @ + 1][n] = IF n = r THEN mails[u][n] + 1 ELSE mails[u][n]
  <2>1. mails[u] \in [Rounds -> Nat]
    BY <1>1
  <2>2. QED
    BY <2>1
<1>4. QED
  BY <1>2, <1>3

\* Rounds are numbers.
LEMMA RoundsAreNat == Rounds \subseteq Nat
  BY MaxEventsAssumption DEF Rounds

\* A handler that ends with a write, and an email if there is one to send,
\* has told what WriteTells asks for.
LEMMA EndTells ==
    ASSUME ToldInv, TypeInv', NEW h \in Handlers, h \in Busy, End(h), NEW u \in Topics,
           NEW seen \in BOOLEAN, NEW before \in BOOLEAN, NEW after \in BOOLEAN,
           Count(u, before, after), Excuse(u, seen, before, after),
           UNCHANGED events,
           mails' = IF after /\ ~seen THEN Emitted(u, asked'[u]) ELSE mails
    PROVE  ToldInv'
<1>1. Cardinality(Busy') = Cardinality(Busy) - 1
  BY BusyLess DEF ToldInv, End, Idle
<1>2. \A t \in Topics, n \in Nat : Owed(t, n)' = Owed(t, n)
  <2>1. TypeInv /\ task[h].op # "mail" /\ Idle.op # "mail"
    BY DEF ToldInv, Busy, Idle
  <2>2. task' = [task EXCEPT ![h] = Idle]
    BY DEF End
  <2>3. QED
    BY <2>1, <2>2, OwedSame
<1>3. \A t \in Topics, n \in Rounds : mails[t][n] \in Nat /\ Cardinality(Owed(t, n)) \in Nat
  BY ToldFinite, RoundsAreNat DEF ToldInv
<1>4. ASSUME NEW t \in Topics, NEW n \in Rounds
      PROVE  Told(t, n)' = IF t = u /\ n = asked'[u] /\ after /\ ~seen
                           THEN Told(t, n) + 1 ELSE Told(t, n)
  <2>1. mails'[t][n] = IF t = u /\ n = asked'[u] /\ after /\ ~seen
                       THEN mails[t][n] + 1 ELSE mails[t][n]
    BY EmittedAt DEF ToldInv
  <2>2. Owed(t, n)' = Owed(t, n)
    BY <1>2, RoundsAreNat
  <2>3. QED
    BY <1>3, <2>1, <2>2 DEF Told
<1>5. QED
  BY <1>1, <1>4, WriteTells

\* At first nothing is told and nothing owed.
LEMMA InitTold == Init => ToldInv
<1> SUFFICES ASSUME Init PROVE ToldInv
  OBVIOUS
<1>1. Busy = {} /\ \A t \in Topics, n \in Nat : Owed(t, n) = {}
  BY DEF Init, Busy, Owed, Idle
<1>2. RoundsBounded
  BY <1>1, FS_EmptySet DEF RoundsBounded, Init
<1>3. ASSUME NEW t \in Topics, NEW n \in Rounds PROVE Told(t, n) = 0
  <2>1. mails[t][n] = 0
    BY DEF Init
  <2>2. Cardinality(Owed(t, n)) = 0
    BY <1>1, FS_EmptySet, RoundsAreNat
  <2>3. QED
    BY <2>1, <2>2 DEF Told
<1>4. NothingAhead
  BY <1>3 DEF NothingAhead
<1>5. ToldOnce
  BY DEF Init, ToldOnce
<1>6. QED
  BY <1>2, <1>4, <1>5, InitTyped DEF ToldInv

\* Every step tells what it has to, one action after the other.
LEMMA StepTold == ToldInv /\ [Next]_vars => ToldInv'
<1> SUFFICES ASSUME ToldInv, [Next]_vars PROVE ToldInv'
  OBVIOUS
<1>1. TypeInv /\ TypeInv'
  BY StepTyped DEF ToldInv
<1>2. events \in Nat /\ Cardinality(Busy) \in Nat
  BY <1>1, ToldFinite DEF TypeInv, TypeOK
<1>3. CASE UNCHANGED vars
  <2>1. Busy' = Busy /\ \A t \in Topics, n \in Nat : Owed(t, n)' = Owed(t, n)
    BY <1>3 DEF vars, Busy, Owed
  <2>2. QED
    BY <1>1, <1>2, <1>3, <2>1, QuietStep DEF vars, history
<1>4. ASSUME NEW h \in Handlers, NEW t, Start(h, t), t.op # "mail"
      PROVE  ToldInv'
  <2>1. \A u \in Topics, n \in Nat : Owed(u, n)' = Owed(u, n)
    <3>1. task' = [task EXCEPT ![h] = t] /\ task[h].op # "mail"
      BY <1>4 DEF Start, Idle
    <3>2. QED
      BY <1>1, <1>4, <3>1, OwedSame
  <2>2. Busy' \subseteq Busy \cup {h}
    BY <1>1, <1>4 DEF Start, Busy, TypeInv, TypeOK
  <2>3. /\ IsFiniteSet(Busy \cup {h})
        /\ Cardinality(Busy \cup {h}) <= Cardinality(Busy) + 1
        /\ Cardinality(Busy \cup {h}) \in Nat
    <3>1. IsFiniteSet(Busy)
      BY <1>1, ToldFinite
    <3>2. IsFiniteSet(Busy \cup {h}) /\ Cardinality(Busy \cup {h}) \in Nat
      BY <3>1, FS_AddElement, FS_CardinalityType
    <3>3. Cardinality(Busy \cup {h}) \in {Cardinality(Busy), Cardinality(Busy) + 1}
      BY <3>1, FS_AddElement
    <3>4. QED
      BY <1>2, <3>2, <3>3
  <2>4. Cardinality(Busy') <= Cardinality(Busy \cup {h})
    BY <2>2, <2>3, FS_Subset
  <2>5. events' - events >= Cardinality(Busy') - Cardinality(Busy)
    BY <1>2, <1>4, <2>3, <2>4, BusyFinite DEF Start
  <2>6. QED
    BY <1>1, <1>4, <2>1, <2>5, QuietStep DEF Start, history
<1>5. ASSUME NEW h \in Handlers, NEW role \in Roles, StartCreate(h, role) PROVE ToldInv'
  BY <1>4, <1>5 DEF StartCreate
<1>6. ASSUME NEW h \in Handlers, NEW role \in Roles, NEW d \in Docs,
             NEW op \in {"update", "delete"}, StartMutation(h, op, role, d)
      PROVE  ToldInv'
  BY <1>4, <1>6 DEF StartMutation
<1>7. ASSUME NEW h \in Handlers, NEW d \in Docs, StartReview(h, d) PROVE ToldInv'
  BY <1>4, <1>7 DEF StartReview
<1>8. ASSUME NEW h \in Handlers, StartRequest(h) PROVE ToldInv'
  BY <1>4, <1>8 DEF StartRequest
<1>9. ASSUME NEW h \in Handlers, NEW role \in Roles, StartUpsert(h, role) PROVE ToldInv'
  BY <1>4, <1>9 DEF StartUpsert
<1>10. ASSUME NEW h \in Handlers, h \in Busy, NEW t, task' = [task EXCEPT ![h] = t],
              t.op # "mail", UNCHANGED <<asked, mails, excused, events>>
       PROVE  ToldInv'
  <2>1. \A u \in Topics, n \in Nat : Owed(u, n)' = Owed(u, n)
    BY <1>1, <1>10, OwedSame DEF Busy
  <2>2. Busy' \in SUBSET Busy
    BY <1>1, <1>10 DEF Busy, TypeInv, TypeOK
  <2>3. Cardinality(Busy') <= Cardinality(Busy)
    BY <1>1, <2>2, ToldFinite, FS_Subset
  <2>4. events' - events >= Cardinality(Busy') - Cardinality(Busy)
    BY <1>2, <1>10, <2>3, BusyFinite
  <2>5. QED
    BY <1>1, <1>10, <2>1, <2>4, QuietStep
<1>11. ASSUME NEW h \in Handlers, task[h].op \notin {"idle", "mail"}, End(h),
              UNCHANGED <<asked, mails, excused, events>>
       PROVE  ToldInv'
  <2>1. h \in Busy /\ task' = [task EXCEPT ![h] = Idle] /\ Idle.op # "mail"
    BY <1>11 DEF Busy, End, Idle
  <2>2. QED
    BY <1>10, <1>11, <2>1
<1>12. ASSUME NEW h \in Handlers, UpsertUpdate(h) PROVE ToldInv'
  <2> DEFINE t == [op |-> "update", role |-> task[h].role, doc |-> task[h].found,
                   seen |-> docs[task[h].found].status]
  <2>1. /\ task' = [task EXCEPT ![h] = t] /\ t.op # "mail" /\ h \in Busy
        /\ UNCHANGED <<asked, mails, excused, events>>
    BY <1>12 DEF UpsertUpdate, Busy, history
  <2> HIDE DEF t
  <2>2. QED
    BY <1>10, <2>1
<1>13. ASSUME NEW h \in Handlers, UpdateLogBookByAdmin(h) PROVE ToldInv'
  BY <1>11, <1>13 DEF UpdateLogBookByAdmin, history
<1>14. ASSUME NEW h \in Handlers, Delete(h) PROVE ToldInv'
  BY <1>11, <1>14 DEF Delete, history
<1>15. ASSUME NEW h \in Handlers, NEW d \in Docs, CreateLogBook(h, d) PROVE ToldInv'
  <2>1. UNCHANGED asked
    BY <1>1, <1>15 DEF CreateLogBook, Insert, Count, TypeInv, TypeOK
  <2>2. QED
    BY <1>11, <1>15, <2>1 DEF CreateLogBook
<1>16. ASSUME NEW h \in Handlers, NEW d \in Docs, UpsertCreate(h, d) PROVE ToldInv'
  <2>1. UNCHANGED asked
    BY <1>1, <1>16 DEF UpsertCreate, Insert, Count, TypeInv, TypeOK
  <2>2. QED
    BY <1>11, <1>16, <2>1 DEF UpsertCreate
<1>17. ASSUME NEW h \in Handlers, NEW s \in MaybeStatus, NEW reason \in BOOLEAN,
              NEW d \in Docs, CreateRich(h, d, s, reason)
       PROVE  ToldInv'
  <2> DEFINE after == Or(s, "PENDING")
  <2>1. d \in Topics /\ h \in Busy
    BY <1>17, DocsAreTopics DEF CreateRich, Busy
  <2>2. task[h].role \in {"DRIVER", "ADMIN"}
    BY <1>1, <1>17, TaskKinds DEF CreateRich, CreateTask, Roles, TypeInv
  <2>3. task[h].role = "DRIVER" => after = "PENDING"
    BY <1>17 DEF CreateRich, Or
  <2>4. Count(d, FALSE, after = "REJECTED") /\ End(h) /\ UNCHANGED <<excused, events>>
    BY <1>17 DEF CreateRich, Insert
  <2>5. mails' = IF (after = "REJECTED") /\ ~FALSE THEN Emitted(d, asked'[d]) ELSE mails
    BY <1>17, <2>2, <2>3 DEF CreateRich, OutcomeNew
  <2>6. Excuse(d, FALSE, FALSE, after = "REJECTED")
    BY <2>4 DEF Excuse
  <2> DEFINE on == after = "REJECTED"
  <2>7. on \in BOOLEAN
    OBVIOUS
  <2>8. Count(d, FALSE, on) /\ Excuse(d, FALSE, FALSE, on)
        /\ mails' = IF on /\ ~FALSE THEN Emitted(d, asked'[d]) ELSE mails
    BY <2>4, <2>5, <2>6
  <2>9. FALSE \in BOOLEAN
    OBVIOUS
  <2> HIDE DEF on, after
  <2>10. QED
    BY <1>1, <2>1, <2>4, <2>7, <2>8, <2>9, EndTells
<1>18. ASSUME NEW h \in Handlers, task[h].op \in {"update", "review"}
       PROVE  task[h].doc \in Docs /\ task[h].doc \in Topics /\ h \in Busy
  BY <1>1, <1>18, TaskKinds, DocsAreTopics DEF TypeInv, DocTask, Busy
<1>19. ASSUME NEW h \in Handlers, NEW b \in BOOLEAN, UpdateByDriver(h, b) PROVE ToldInv'
  <2>1. UNCHANGED asked
    BY <1>1, <1>18, <1>19 DEF UpdateByDriver, Store, Count, Rejected, TypeInv, TypeOK
  <2>2. QED
    BY <1>11, <1>19, <2>1 DEF UpdateByDriver
<1>20. ASSUME NEW h \in Handlers, NEW s \in MaybeStatus, NEW reason \in BOOLEAN,
              ReviewLogBook(h, s, reason)
       PROVE  ToldInv'
  <2> DEFINE d == task[h].doc
             seen == task[h].seen = "REJECTED"
             before == Rejected(d)
             after == Or(s, docs[d].status) = "REJECTED"
  <2>1. d \in Topics /\ h \in Busy
    BY <1>18, <1>20 DEF ReviewLogBook
  <2>2. /\ Count(d, before, after) /\ Excuse(d, seen, before, after)
        /\ End(h) /\ UNCHANGED events
    BY <1>20 DEF ReviewLogBook, Store
  <2>3. mails' = IF after /\ ~seen THEN Emitted(d, asked'[d]) ELSE mails
    BY <1>20 DEF ReviewLogBook, OutcomeNew
  <2>4. seen \in BOOLEAN /\ before \in BOOLEAN /\ after \in BOOLEAN
    BY DEF Rejected
  <2> HIDE DEF d, seen, before, after
  <2>5. QED
    BY <1>1, <2>1, <2>2, <2>3, <2>4, EndTells
<1>21. ASSUME NEW h \in Handlers, NEW b \in BOOLEAN, RequestOptionalDocuments(h, b)
       PROVE  ToldInv'
  <2>1. /\ Optional \in Topics /\ h \in Busy /\ task[h].seen \in BOOLEAN /\ flag \in BOOLEAN
    BY <1>1, <1>21, TaskKinds, DocsAreTopics
       DEF RequestOptionalDocuments, Busy, FlagTask, TypeInv, TypeOK
  <2>2. /\ Count(Optional, flag, b) /\ Excuse(Optional, task[h].seen, flag, b)
        /\ End(h) /\ UNCHANGED events
        /\ mails' = IF b /\ ~task[h].seen THEN Emitted(Optional, asked'[Optional]) ELSE mails
    BY <1>21 DEF RequestOptionalDocuments, RequestNew
  <2>3. QED
    BY <1>1, <2>1, <2>2, EndTells
<1>22. ASSUME NEW h \in Handlers, NEW s \in MaybeStatus, NEW reason \in BOOLEAN,
              UpdateRichByAdmin(h, s, reason)
       PROVE  ToldInv'
  <2> DEFINE d == task[h].doc
             seen == task[h].seen = "REJECTED"
             before == Rejected(d)
             after == Or(s, docs[d].status) = "REJECTED"
             mail == [op |-> "mail", doc |-> d, round |-> asked'[d]]
             t == IF after /\ ~seen THEN mail ELSE Idle
  <2>1. d \in Docs /\ d \in Topics /\ h \in Busy /\ task[h].op # "mail"
    BY <1>18, <1>22 DEF UpdateRichByAdmin
  <2>2. /\ Count(d, before, after) /\ Excuse(d, seen, before, after)
        /\ UNCHANGED <<mails, events>>
    BY <1>22 DEF UpdateRichByAdmin, Store
  <2>3. task' = [task EXCEPT ![h] = t]
    BY <1>22 DEF UpdateRichByAdmin, OutcomeNew
  <2>4. seen \in BOOLEAN /\ before \in BOOLEAN /\ after \in BOOLEAN
    BY DEF Rejected
  <2>5. Cardinality(Busy') = Cardinality(Busy) - 1
    <3>1. t.op \in {"idle", "mail"}
      BY DEF Idle
    <3> HIDE DEF t
    <3>2. QED
      BY <1>1, <2>1, <2>3, <3>1, BusyLess
  <2>6. asked'[d] \in Nat
    BY <1>1, <2>1 DEF TypeInv, TypeOK
  <2>7. \A x \in Topics, n \in Nat :
           Cardinality(Owed(x, n)') = IF x = d /\ n = asked'[d] /\ after /\ ~seen
                                      THEN Cardinality(Owed(x, n)) + 1
                                      ELSE Cardinality(Owed(x, n))
    <3>1. CASE after /\ ~seen
      <4>1. task' = [task EXCEPT ![h] = mail]
        BY <2>3, <3>1
      <4>2. mail.op = "mail" /\ mail.doc = d /\ mail.round = asked'[d]
        OBVIOUS
      <4> HIDE DEF mail, d, after, seen
      <4>3. \A x \in Topics, n \in Nat :
               Cardinality(Owed(x, n)') = IF x = mail.doc /\ n = mail.round
                                          THEN Cardinality(Owed(x, n)) + 1
                                          ELSE Cardinality(Owed(x, n))
        BY <1>1, <2>1, <4>1, <4>2, OwedMore
      <4>4. QED
        BY <3>1, <4>2, <4>3
    <3>2. CASE ~(after /\ ~seen)
      <4>1. task' = [task EXCEPT ![h] = Idle] /\ Idle.op # "mail"
        BY <2>3, <3>2 DEF Idle
      <4>2. QED
        BY <1>1, <2>1, <3>2, <4>1, OwedSame
    <3>3. QED
      BY <3>1, <3>2
  <2>8. ASSUME NEW x \in Topics, NEW n \in Rounds
        PROVE  Told(x, n)' = IF x = d /\ n = asked'[d] /\ after /\ ~seen
                             THEN Told(x, n) + 1 ELSE Told(x, n)
    <3>1. /\ mails[x][n] \in Nat /\ mails'[x][n] = mails[x][n]
          /\ n \in Nat /\ Cardinality(Owed(x, n)) \in Nat
      BY <1>1, <2>2, ToldFinite, RoundsAreNat
    <3>2. QED
      BY <2>7, <3>1 DEF Told
  <2> HIDE DEF d, seen, before, after
  <2>9. QED
    BY <1>1, <2>1, <2>2, <2>4, <2>5, <2>8, WriteTells
<1>23. ASSUME NEW h \in Handlers, task[h].op = "mail", End(h)
       PROVE  /\ task[h].doc \in Topics /\ task[h].round \in Nat
              /\ Busy' = Busy
              /\ \A t \in Topics, n \in Nat :
                    Cardinality(Owed(t, n)') =
                       IF t = task[h].doc /\ n = task[h].round
                       THEN Cardinality(Owed(t, n)) - 1 ELSE Cardinality(Owed(t, n))
  <2>1. task[h].doc \in Topics /\ task[h].round \in Nat
    BY <1>1, <1>23, TaskKinds, DocsAreTopics DEF TypeInv, MailTask
  <2>2. Busy' = Busy
    BY <1>1, <1>23 DEF Busy, End, Idle, TypeInv, TypeOK
  <2>3. QED
    BY <1>1, <1>23, <2>1, <2>2, OwedLess
<1>24. ASSUME NEW h \in Handlers, SendOutcome(h) PROVE ToldInv'
  <2> DEFINE d == task[h].doc
             r == task[h].round
  <2>1. /\ d \in Topics /\ r \in Nat /\ Busy' = Busy
        /\ UNCHANGED <<asked, excused, events>> /\ mails' = Emitted(d, r)
    BY <1>23, <1>24 DEF SendOutcome
  <2>2. ASSUME NEW t \in Topics, NEW n \in Rounds PROVE Told(t, n)' = Told(t, n)
    <3>1. mails'[t][n] = IF t = d /\ n = r THEN mails[t][n] + 1 ELSE mails[t][n]
      BY <1>1, <2>1, EmittedAt
    <3>2. n \in Nat /\ mails[t][n] \in Nat /\ Cardinality(Owed(t, n)) \in Nat
      BY <1>1, ToldFinite, RoundsAreNat
    <3>3. Cardinality(Owed(t, n)') = IF t = d /\ n = r THEN Cardinality(Owed(t, n)) - 1
                                     ELSE Cardinality(Owed(t, n))
      BY <1>23, <1>24, <3>2 DEF SendOutcome
    <3>4. QED
      BY <3>1, <3>2, <3>3 DEF Told
  <2>3. RoundsBounded'
    BY <2>1 DEF ToldInv, RoundsBounded
  <2>4. NothingAhead'
    BY <2>1, <2>2 DEF ToldInv, NothingAhead
  <2>5. ToldOnce'
    <3> SUFFICES ASSUME NEW t \in Topics, NEW n \in 1..asked[t], n \notin excused[t]
                 PROVE  Told(t, n)' = 1
      BY <2>1 DEF ToldOnce, Told
    <3>1. n \in Rounds
      BY <1>1, <1>2, MaxEventsAssumption
         DEF ToldInv, RoundsBounded, TypeInv, TypeOK, Rounds
    <3>2. Told(t, n) = 1
      BY DEF ToldInv, ToldOnce, Told
    <3>3. QED
      BY <2>2, <3>1, <3>2
  <2>6. QED
    BY <1>1, <2>3, <2>4, <2>5 DEF ToldInv
<1>25. ASSUME NEW h \in Handlers, Abandon(h), task[h].op = "mail" PROVE ToldInv'
  <2> DEFINE d == task[h].doc
             r == task[h].round
  <2>1. /\ d \in Topics /\ r \in Nat /\ Busy' = Busy
        /\ UNCHANGED <<asked, mails, events>>
        /\ excused' = [excused EXCEPT ![d] = @ \cup {r}]
    BY <1>23, <1>25 DEF Abandon
  <2>2. ASSUME NEW t \in Topics, NEW n \in Rounds
        PROVE  /\ Told(t, n)' = IF t = d /\ n = r THEN Told(t, n) - 1 ELSE Told(t, n)
               /\ Told(t, n)' \in Nat
    <3>1. n \in Nat /\ mails[t][n] \in Nat /\ Cardinality(Owed(t, n)) \in Nat
      BY <1>1, ToldFinite, RoundsAreNat
    <3>2. Cardinality(Owed(t, n)') = IF t = d /\ n = r THEN Cardinality(Owed(t, n)) - 1
                                     ELSE Cardinality(Owed(t, n))
      BY <1>23, <1>25, <3>1 DEF Abandon
    <3>3. Cardinality(Owed(t, n)') \in Nat
      <4>1. Owed(t, n)' \in SUBSET Handlers
        BY DEF Owed
      <4>2. QED
        BY <4>1, FS_Subset, FS_CardinalityType, HandlersAssumption
    <3>4. QED
      BY <2>1, <3>1, <3>2, <3>3 DEF Told
  <2>3. RoundsBounded'
    BY <2>1 DEF ToldInv, RoundsBounded
  <2>4. NothingAhead'
    <3> SUFFICES ASSUME NEW t \in Topics, NEW n \in Rounds, n > asked[t]
                 PROVE  Told(t, n)' = 0
      BY <2>1 DEF NothingAhead
    <3>1. Told(t, n) = 0
      BY DEF ToldInv, NothingAhead
    <3>2. QED
      BY <2>2, <3>1
  <2>5. ToldOnce'
    <3> SUFFICES ASSUME NEW t \in Topics, NEW n \in 1..asked[t], n \notin excused'[t]
                 PROVE  Told(t, n)' = 1
      BY <2>1 DEF ToldOnce, Told
    <3>1. n \in Rounds
      BY <1>1, <1>2, MaxEventsAssumption
         DEF ToldInv, RoundsBounded, TypeInv, TypeOK, Rounds
    <3>2. n \notin excused[t] /\ ~(t = d /\ n = r)
      BY <1>1, <2>1 DEF TypeInv, TypeOK
    <3>3. Told(t, n) = 1
      BY <3>2 DEF ToldInv, ToldOnce, Told
    <3>4. QED
      BY <2>2, <3>1, <3>2, <3>3
  <2>6. QED
    BY <1>1, <2>3, <2>4, <2>5 DEF ToldInv
<1>26. ASSUME NEW h \in Handlers, Abandon(h), task[h].op # "mail" PROVE ToldInv'
  <2>1. task[h].op # "idle"
    BY <1>1, <1>26, TaskKinds DEF Abandon, TypeInv
  <2>2. QED
    BY <1>11, <1>26, <2>1 DEF Abandon
<1>27. CASE Next
  BY <1>5, <1>6, <1>7, <1>8, <1>9, <1>12, <1>13, <1>14, <1>15, <1>16, <1>17, <1>19,
     <1>20, <1>21, <1>22, <1>24, <1>25, <1>26, <1>27 DEF Next
<1>28. QED
  BY <1>3, <1>27

\* Each rejection and each request for optional documents is told exactly
\* once, unless the handler decided on a stale read or failed half way.
THEOREM DriversAreToldOnce == Spec => []ToldOnce
<1>1. ToldInv => ToldOnce
  BY DEF ToldInv
<1>2. QED
  BY InitTold, StepTold, <1>1, PTL DEF Spec
=============================================================================
