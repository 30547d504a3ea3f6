----------------------- MODULE ChangeRequestLifecycle -----------------------
(***************************************************************************)
(* What the two change-request services promise of a request, whatever it  *)
(* proposes: it is filed for a subject (a document row, or a vehicle) that *)
(* has no other request waiting, it waits until it is decided, and only a  *)
(* decided request may be removed on its own.  A request that waits        *)
(* disappears only with the rows of its whole vehicle.                     *)
(*                                                                         *)
(* StrictSpec adds what the error messages of cancel and adminReview say:  *)
(* a decision is final.  Spec lets a later decision overwrite an earlier   *)
(* one, which is all that overlapping handlers leave.                      *)
(***************************************************************************)
EXTENDS TLAPS

CONSTANTS Requests, Subjects, Null

VARIABLES status, subject

lifecycleVars == <<status, subject>>

Decided == {"ACCEPTED", "REJECTED", "CANCELLED"}
Filed == {"PENDING_REVIEW"} \cup Decided

LifecycleInit ==
    /\ status = [r \in Requests |-> "UNUSED"]
    /\ subject = [r \in Requests |-> Null]

FileRequest(r, s) ==
    /\ status[r] = "UNUSED"
    /\ \A q \in Requests :
          ~(status[q] = "PENDING_REVIEW" /\ subject[q] = s)
    /\ status' = [status EXCEPT ![r] = "PENDING_REVIEW"]
    /\ subject' = [subject EXCEPT ![r] = s]

Decide(r, decision) ==
    /\ status[r] = "PENDING_REVIEW"
    /\ status' = [status EXCEPT ![r] = decision]
    /\ UNCHANGED subject

Overwrite(r, decision) ==
    /\ status[r] \in Decided
    /\ status' = [status EXCEPT ![r] = decision]
    /\ UNCHANGED subject

Remove(r) ==
    /\ status[r] \in Decided
    /\ status' = [status EXCEPT ![r] = "DELETED"]
    /\ subject' = [subject EXCEPT ![r] = Null]

\* The vehicle goes, and with it every request about these subjects.
Purge(S) ==
    LET gone == {r \in Requests : status[r] \in Filed /\ subject[r] \in S}
    IN /\ status' = [r \in Requests |->
                        IF r \in gone THEN "DELETED" ELSE status[r]]
       /\ subject' = [r \in Requests |->
                        IF r \in gone THEN Null ELSE subject[r]]

StrictNext ==
    \/ \E r \in Requests :
          \/ \E s \in Subjects : FileRequest(r, s)
          \/ \E decision \in Decided : Decide(r, decision)
          \/ Remove(r)
    \/ \E S \in SUBSET Subjects : Purge(S)

LifecycleNext ==
    \/ StrictNext
    \/ \E r \in Requests, decision \in Decided : Overwrite(r, decision)

StrictSpec == LifecycleInit /\ [][StrictNext]_lifecycleVars
LifecycleSpec == LifecycleInit /\ [][LifecycleNext]_lifecycleVars

----------------------------------------------------------------------------
LifecycleTypeOK ==
    /\ status \in [Requests -> {"UNUSED", "DELETED"} \cup Filed]
    /\ subject \in [Requests -> Subjects \cup {Null}]

\* No subject has two requests waiting.
OneWaitingPerSubject ==
    \A r, q \in Requests :
        status[r] = "PENDING_REVIEW" /\ status[q] = "PENDING_REVIEW"
            /\ subject[r] = subject[q] => r = q

LifecycleInv == LifecycleTypeOK /\ OneWaitingPerSubject

\* The abstract lifecycle never lets two requests about one subject wait:
\* filing is the only step into PENDING_REVIEW, and it looks first.
THEOREM LifecycleSafe == LifecycleSpec => []LifecycleInv
<1>1. LifecycleInit => LifecycleInv
  BY DEF LifecycleInit, LifecycleInv, LifecycleTypeOK, OneWaitingPerSubject,
         Filed, Decided
<1>2. LifecycleInv /\ [LifecycleNext]_lifecycleVars => LifecycleInv'
  <2> SUFFICES ASSUME LifecycleInv, [LifecycleNext]_lifecycleVars
               PROVE  LifecycleInv'
    OBVIOUS
  <2> USE DEF LifecycleInv, LifecycleTypeOK, OneWaitingPerSubject, Filed,
              Decided
  <2>1. ASSUME NEW r \in Requests, NEW s \in Subjects, FileRequest(r, s)
        PROVE  LifecycleInv'
    BY <2>1 DEF FileRequest
  <2>2. ASSUME NEW r \in Requests, NEW decision \in Decided,
               Decide(r, decision) \/ Overwrite(r, decision)
        PROVE  LifecycleInv'
    BY <2>2 DEF Decide, Overwrite
  <2>3. ASSUME NEW r \in Requests, Remove(r)
        PROVE  LifecycleInv'
    BY <2>3 DEF Remove
  <2>4. ASSUME NEW S \in SUBSET Subjects, Purge(S)
        PROVE  LifecycleInv'
    BY <2>4 DEF Purge
  <2>5. CASE UNCHANGED lifecycleVars
    BY <2>5 DEF lifecycleVars
  <2>6. QED
    BY <2>1, <2>2, <2>3, <2>4, <2>5 DEF LifecycleNext, StrictNext
<1>3. QED
  BY <1>1, <1>2, PTL DEF LifecycleSpec
=============================================================================
