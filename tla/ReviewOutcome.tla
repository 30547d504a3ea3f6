---------------------------- MODULE ReviewOutcome ----------------------------
(***************************************************************************)
(* What a driver is told: the review status and the reason of the          *)
(* documents of one vehicle, the request for optional documents, and the   *)
(* emails that the handlers send about both.  DocumentReview models who    *)
(* may write a document and what; here a write is one of its status, its   *)
(* reason and the emails, and the log book's upsert is added.              *)
(*                                                                         *)
(* A handler reads, awaits, writes, and decides from what it read whether  *)
(* to send an email.  Where it awaits once more between its write and the  *)
(* email, the two are separate steps.  Emails are counted when they are    *)
(* handed to the notification broker, which is tried once per email.       *)
(***************************************************************************)
EXTENDS Naturals, FiniteSets

CONSTANTS
    RichDocs,  \* rows of inspections, insurances and PCO documents
    LogBooks,  \* rows of log books
    Optional,  \* the vehicle's request for optional documents
    Handlers,  \* concurrent HTTP requests
    Null,
    MaxEvents  \* bound on the number of HTTP requests

ASSUME TopicsAssumption == /\ RichDocs \cap LogBooks = {}
                           /\ Optional \notin RichDocs \cup LogBooks
ASSUME NullAssumption == Null \notin RichDocs \cup LogBooks
ASSUME MaxEventsAssumption == MaxEvents \in Nat
ASSUME HandlersAssumption == IsFiniteSet(Handlers)

Docs == RichDocs \cup LogBooks
Topics == Docs \cup {Optional}
DocumentStatus == {"PENDING", "ACCEPTED", "REJECTED"}
MaybeStatus == DocumentStatus \cup {Null}
Roles == {"DRIVER", "ADMIN"}
Rounds == 1..MaxEvents

\* `reason` tells whether rejectedReason is set, `born` is createdAt.
Row == [status : DocumentStatus \cup {"UNUSED", "DELETED"},
        reason : BOOLEAN, born : Nat]

VARIABLES
    docs,     \* status, reason and age of the rows
    flag,     \* requiestOptionalDocuments
    task,     \* what each handler has read
    asked,    \* history: how often a row became REJECTED, the flag true
    mails,    \* history: the emails sent about each of these times
    excused,  \* history: the times decided on a stale read, or whose
              \* handler failed between its write and the email
    given,    \* history: the rejection for which the reason was given
    upserted, \* history: the rows that upserts have created
    events

rows == <<docs, flag>>
history == <<asked, mails, excused, given, upserted>>
vars == <<rows, task, history, events>>

Exists(d) == docs[d].status \in DocumentStatus
Rejected(d) == docs[d].status = "REJECTED"

(***************************************************************************)
(* Tasks.  `seen` is the status, or the flag, at the time of the read.     *)
(***************************************************************************)
Idle == [op |-> "idle"]
CreateTask == [op : {"create"}, role : Roles]
LookTask == [op : {"upsert"}, role : Roles, found : LogBooks \cup {Null}]
DocTask == [op : {"update", "delete", "review"}, role : Roles, doc : Docs,
            seen : DocumentStatus]
FlagTask == [op : {"request"}, seen : BOOLEAN]
MailTask == [op : {"mail"}, doc : Docs, round : Nat]
Tasks == {Idle} \cup CreateTask \cup LookTask \cup DocTask \cup FlagTask
           \cup MailTask

Init ==
    /\ docs = [d \in Docs |-> [status |-> "UNUSED", reason |-> FALSE, born |-> 0]]
    /\ flag = FALSE
    /\ task = [h \in Handlers |-> Idle]
    /\ asked = [t \in Topics |-> 0]
    /\ mails = [t \in Topics |-> [n \in Rounds |-> 0]]
    /\ excused = [t \in Topics |-> {}]
    /\ given = [d \in Docs |-> 0]
    /\ upserted = {}
    /\ events = 0

Start(h, t) ==
    /\ task[h] = Idle
    /\ events < MaxEvents
    /\ events' = events + 1
    /\ task' = [task EXCEPT ![h] = t]
    /\ UNCHANGED <<rows, history>>

End(h) == task' = [task EXCEPT ![h] = Idle]

----------------------------------------------------------------------------
(***************************************************************************)
(* Emails.                                                                 *)
(***************************************************************************)

\* Mutant: the status read before the write is not looked at.
OutcomeNewAlways(seen, after) == after = "REJECTED"

\* notifyVehicleDocumentReviewOutcomeIfNeeded
OutcomeNew(seen, after) == after = "REJECTED" /\ seen # "REJECTED"

\* notifyOptionalDocumentsRequestedIfNeeded
RequestNew(seen, after) == ~seen /\ after

Emitted(t, n) == [mails EXCEPT ![t][n] = @ + 1]

\* History: whether topic t was on (rejected, asked for) when it was read,
\* before the write and after it.
Count(t, before, after) ==
    asked' = [asked EXCEPT ![t] = IF ~before /\ after THEN @ + 1 ELSE @]
Excuse(t, seen, before, after) ==
    excused' = IF after /\ seen # before
               THEN [excused EXCEPT ![t] = @ \cup {asked'[t]}] ELSE excused

----------------------------------------------------------------------------
(***************************************************************************)
(* Status and reason of a document.                                        *)
(***************************************************************************)

\* mergeAdminReviewFieldsOnCreate: what an admin does not give is the
\* column's default.
ReasonOnCreate(status, reason) == reason

\* Mutant: an approval keeps the reason of the rejection before it.
ReasonOnUpdateKept(old, status, reason) == reason \/ old

\* mergeAdminReviewFieldsOnUpdate: a status other than REJECTED clears a
\* reason that is not given with it.
ReasonOnUpdate(old, status, reason) ==
    IF status \in {Null, "REJECTED"} THEN reason \/ old ELSE reason

\* Mutant: a status that was not given is written all the same.
OrGiven(status, old) == status

Or(status, old) == IF status = Null THEN old ELSE status

\* The row of d becomes (status, reason); `reasoned` tells whether the call
\* gave the reason.
Store(d, status, reason, reasoned) ==
    /\ docs' = [docs EXCEPT ![d].status = status, ![d].reason = reason]
    /\ Count(d, Rejected(d), status = "REJECTED")
    /\ given' = [given EXCEPT ![d] =
                    IF ~reasoned THEN @
                    ELSE IF status = "REJECTED" THEN asked'[d] ELSE asked'[d] + 1]
    /\ UNCHANGED flag

Used == {d \in Docs : docs[d].status # "UNUSED"}

Insert(d, status, reason) ==
    /\ docs[d].status = "UNUSED"
    /\ docs' = [docs EXCEPT ![d] = [status |-> status, reason |-> reason,
                                    born |-> Cardinality(Used)]]
    /\ Count(d, FALSE, status = "REJECTED")
    /\ given' = [given EXCEPT ![d] = IF reason THEN 1 ELSE @]
    /\ UNCHANGED flag

MayMutate(role, d) == role = "ADMIN" \/ docs[d].status # "ACCEPTED"

StartCreate(h, role) == Start(h, [op |-> "create", role |-> role])

StartMutation(h, op, role, d) ==
    /\ Exists(d) /\ MayMutate(role, d)
    /\ Start(h, [op |-> op, role |-> role, doc |-> d, seen |-> docs[d].status])

StartReview(h, d) ==
    /\ Exists(d) /\ d \in LogBooks
    /\ Start(h, [op |-> "review", role |-> "ADMIN", doc |-> d,
                 seen |-> docs[d].status])

\* createInspection, and the like: the email follows at once.
CreateRich(h, d, status, reason) ==
    /\ task[h].op = "create" /\ d \in RichDocs
    /\ task[h].role = "DRIVER" => status = Null /\ ~reason
    /\ LET after == Or(status, "PENDING")
       IN /\ Insert(d, after, ReasonOnCreate(status, reason))
          /\ mails' = IF task[h].role = "ADMIN" /\ OutcomeNew("PENDING", after)
                      THEN Emitted(d, asked'[d]) ELSE mails
    /\ End(h)
    /\ UNCHANGED <<excused, upserted, events>>

CreateLogBook(h, d) ==
    /\ task[h].op = "create" /\ d \in LogBooks
    /\ Insert(d, "PENDING", FALSE)
    /\ End(h)
    /\ UNCHANGED <<mails, excused, upserted, events>>

\* A driver's update: a rejected document that got new content waits again.
UpdateByDriver(h, content) ==
    /\ task[h].op = "update" /\ task[h].role = "DRIVER"
    /\ LET d == task[h].doc
           again == content /\ task[h].seen = "REJECTED"
       IN /\ Exists(d)
          /\ Store(d, IF again THEN "PENDING" ELSE docs[d].status,
                   docs[d].reason /\ ~again, FALSE)
    /\ End(h)
    /\ UNCHANGED <<mails, excused, upserted, events>>

\* An admin's updateInspection, and the like.  Pending change requests are
\* read before the email goes out.
UpdateRichByAdmin(h, status, reason) ==
    /\ task[h].op = "update" /\ task[h].role = "ADMIN"
    /\ LET d == task[h].doc
           after == Or(status, docs[d].status)
       IN /\ Exists(d) /\ d \in RichDocs
          /\ Store(d, after, ReasonOnUpdate(docs[d].reason, status, reason), reason)
          /\ Excuse(d, task[h].seen = "REJECTED", Rejected(d), after = "REJECTED")
          /\ task' = [task EXCEPT ![h] =
                        IF OutcomeNew(task[h].seen, after)
                        THEN [op |-> "mail", doc |-> d, round |-> asked'[d]]
                        ELSE Idle]
    /\ UNCHANGED <<mails, upserted, events>>

SendOutcome(h) ==
    /\ task[h].op = "mail"
    /\ mails' = Emitted(task[h].doc, task[h].round)
    /\ End(h)
    /\ UNCHANGED <<rows, asked, excused, given, upserted, events>>

\* An admin's updateLogBookV5 changes neither the status nor the reason.
UpdateLogBookByAdmin(h) ==
    /\ task[h].op = "update" /\ task[h].role = "ADMIN"
    /\ task[h].doc \in LogBooks /\ Exists(task[h].doc)
    /\ End(h)
    /\ UNCHANGED <<rows, history, events>>

\* adminReviewLogBookV5 writes what it was given and nothing else.
ReviewLogBook(h, status, reason) ==
    /\ task[h].op = "review"
    /\ LET d == task[h].doc
           after == Or(status, docs[d].status)
       IN /\ Exists(d)
          /\ Store(d, after, reason \/ docs[d].reason, reason)
          /\ Excuse(d, task[h].seen = "REJECTED", Rejected(d), after = "REJECTED")
          /\ mails' = IF OutcomeNew(task[h].seen, after)
                      THEN Emitted(d, asked'[d]) ELSE mails
    /\ End(h)
    /\ UNCHANGED <<upserted, events>>

Delete(h) ==
    /\ task[h].op = "delete"
    /\ Exists(task[h].doc)
    /\ docs' = [docs EXCEPT ![task[h].doc].status = "DELETED",
                            ![task[h].doc].reason = FALSE]
    /\ End(h)
    /\ UNCHANGED <<flag, history, events>>

----------------------------------------------------------------------------
(***************************************************************************)
(* upsertLogBookV5.                                                        *)
(***************************************************************************)
LiveLogBooks == {d \in LogBooks : Exists(d)}

\* Mutant: the lookup misses the rows that were decided.
FoundMissing(d) == d \in LiveLogBooks /\ docs[d].status = "PENDING"

\* findFirst, newest first
Found(d) == d \in LiveLogBooks /\ \A e \in LiveLogBooks : docs[e].born <= docs[d].born

StartUpsert(h, role) ==
    \/ \E d \in LogBooks : Found(d) /\ Start(h, [op |-> "upsert", role |-> role,
                                                 found |-> d])
    \/ /\ \A d \in LogBooks : ~Found(d)
       /\ Start(h, [op |-> "upsert", role |-> role, found |-> Null])

\* createLogBookV5
UpsertCreate(h, d) ==
    /\ task[h].op = "upsert" /\ task[h].found = Null /\ d \in LogBooks
    /\ Insert(d, "PENDING", FALSE)
    /\ upserted' = upserted \cup {d}
    /\ End(h)
    /\ UNCHANGED <<mails, excused, events>>

\* updateLogBookV5 starts: it reads the row by its id and checks the lock.
UpsertUpdate(h) ==
    /\ task[h].op = "upsert" /\ task[h].found # Null
    /\ LET d == task[h].found
       IN /\ Exists(d) /\ MayMutate(task[h].role, d)
          /\ task' = [task EXCEPT ![h] = [op |-> "update", role |-> task[h].role,
                                          doc |-> d, seen |-> docs[d].status]]
    /\ UNCHANGED <<rows, history, events>>

----------------------------------------------------------------------------
(***************************************************************************)
(* The request for optional documents.                                     *)
(***************************************************************************)
StartRequest(h) == Start(h, [op |-> "request", seen |-> flag])

\* adminRequestOptionalDocuments, and updateVehicle by an admin
RequestOptionalDocuments(h, value) ==
    /\ task[h].op = "request"
    /\ flag' = value
    /\ Count(Optional, flag, value)
    /\ Excuse(Optional, task[h].seen, flag, value)
    /\ mails' = IF RequestNew(task[h].seen, value)
                THEN Emitted(Optional, asked'[Optional]) ELSE mails
    /\ End(h)
    /\ UNCHANGED <<docs, given, upserted, events>>

\* A check or a call failed, or the process died: what was not yet written
\* or sent never is.
Abandon(h) ==
    /\ task[h] # Idle
    /\ excused' = IF task[h].op = "mail"
                  THEN [excused EXCEPT ![task[h].doc] = @ \cup {task[h].round}]
                  ELSE excused
    /\ End(h)
    /\ UNCHANGED <<rows, asked, mails, given, upserted, events>>

----------------------------------------------------------------------------
Next ==
    \E h \in Handlers :
       \/ \E role \in Roles :
             \/ StartCreate(h, role) \/ StartUpsert(h, role)
             \/ \E d \in Docs, op \in {"update", "delete"} : StartMutation(h, op, role, d)
       \/ \E d \in Docs : StartReview(h, d) \/ CreateLogBook(h, d) \/ UpsertCreate(h, d)
       \/ StartRequest(h) \/ UpsertUpdate(h) \/ UpdateLogBookByAdmin(h)
       \/ \E s \in MaybeStatus, reason \in BOOLEAN :
             \/ \E d \in Docs : CreateRich(h, d, s, reason)
             \/ UpdateRichByAdmin(h, s, reason) \/ ReviewLogBook(h, s, reason)
       \/ \E b \in BOOLEAN : UpdateByDriver(h, b) \/ RequestOptionalDocuments(h, b)
       \/ SendOutcome(h) \/ Delete(h) \/ Abandon(h)

Spec == Init /\ [][Next]_vars

----------------------------------------------------------------------------
\* Rows, tasks and histories have the types of their declarations.
TypeOK ==
    /\ docs \in [Docs -> Row]
    /\ flag \in BOOLEAN
    /\ task \in [Handlers -> Tasks]
    /\ asked \in [Topics -> Nat]
    /\ mails \in [Topics -> [Rounds -> Nat]]
    /\ excused \in [Topics -> SUBSET Nat]
    /\ given \in [Docs -> Nat]
    /\ upserted \subseteq LogBooks
    /\ events \in 0..MaxEvents

Owed(t, n) == {h \in Handlers : /\ task[h].op = "mail"
                                /\ task[h].doc = t /\ task[h].round = n}

\* Each time a document becomes REJECTED, and each time optional documents
\* are asked for, the driver is sent one email, neither none nor two,
\* except when the handler decided on a stale read or failed half way.
ToldOnce ==
    \A t \in Topics : \A n \in 1..asked[t] :
        n \notin excused[t] => mails[t][n] + Cardinality(Owed(t, n)) = 1

\* A document that is rejected, resubmitted, or approved with no reason does
\* not keep the reason of a rejection that is over, whatever handlers
\* overlap: the next rejection's email never quotes it.
NoReasonOfThePast ==
    \A d \in RichDocs :
        Exists(d) /\ docs[d].reason =>
            given[d] >= (IF Rejected(d) THEN asked[d] ELSE asked[d] + 1)

\* Upserts find the row that another upsert made: of the rows they create,
\* no more are ever live at once than there are concurrent handlers; one,
\* when requests do not overlap.
UpsertsShareARow ==
    Cardinality({d \in upserted : Exists(d)}) <= Cardinality(Handlers)
=============================================================================
