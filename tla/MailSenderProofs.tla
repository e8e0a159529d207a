---------------------------- MODULE MailSenderProofs ----------------------------
(***************************************************************************)
(* Proofs about the mail sender for every set of records, expiry age and  *)
(* restart bound: the type invariant, and that go() deletes a record only  *)
(* after calling sendmail.send for it (or by expiry).                      *)
(***************************************************************************)
EXTENDS MailSender, TLAPS

(* The invariant the proofs rest on: the type invariant, and a record in   *)
(* hand at the delete has been sent.                                       *)
MailInv ==
    /\ MailTypeOK
    /\ pc = "remove" => attempts[cur] > 0

(* The initial state satisfies the invariant.                              *)
LEMMA MailInvInit == MailInit => MailInv
BY MailAssumption DEF MailInit, MailInv, MailTypeOK

(* Every step preserves the invariant.                                     *)
LEMMA MailInvStep == MailInv /\ [MailNext]_mvars => MailInv'
<1> SUFFICES ASSUME MailInv, [MailNext]_mvars PROVE MailInv'
    OBVIOUS
<1> USE MailAssumption DEF MailInv, MailTypeOK
<1>1. ASSUME NEW r \in Records, InsertRecord(r) PROVE MailInv'
    BY <1>1 DEF InsertRecord
<1>2. ASSUME NEW r \in Records, StoreDiagnostic(r) PROVE MailInv'
    BY <1>2 DEF StoreDiagnostic
<1>3. CASE Age
    BY <1>3 DEF Age
<1>4. ASSUME NEW r \in Records, Visit(r) PROVE MailInv'
    BY <1>4 DEF Visit
<1>5. ASSUME NEW ok \in BOOLEAN, Send(ok) PROVE MailInv'
    BY <1>5 DEF Send
<1>6. CASE Remove
    BY <1>6 DEF Remove
<1>7. CASE EndPass
    BY <1>7 DEF EndPass
<1>8. CASE Wake
    BY <1>8 DEF Wake
<1>9. CASE CrashRestart
    BY <1>9 DEF CrashRestart
<1>10. CASE UNCHANGED mvars
    BY <1>10 DEF mvars
<1>11. QED
    BY <1>1, <1>2, <1>3, <1>4, <1>5, <1>6, <1>7, <1>8, <1>9, <1>10
       DEF MailNext, SenderStep

(* The sender's records and counters keep their types in every reachable   *)
(* state of go() and its environment.                                      *)
THEOREM MailTypeCorrect == MailSpec => []MailTypeOK
<1>1. MailSpec => []MailInv
    BY MailInvInit, MailInvStep, PTL DEF MailSpec
<1>2. QED
    BY <1>1, PTL DEF MailInv

-----------------------------------------------------------------------------
(***************************************************************************)
(* Refinement of MailBox.  A pass's cursor holds stored records only, and  *)
(* the record in hand is stored and no longer in the cursor, with its      *)
(* diagnostic info there while the send is pending.  Without these, Send   *)
(* would not be an Answer of a stored record and Remove not a Retire of    *)
(* one: the mail sender's state alone says nothing about `cur`.            *)
(***************************************************************************)
RefInv ==
    /\ MailInv
    /\ cursor \subseteq emailDb
    /\ pc \in {"send", "remove"} => cur \in emailDb \ cursor
    /\ pc = "send" => cur \in diags

(* The initial state satisfies the refinement invariant.                   *)
LEMMA RefInvInit == MailInit => RefInv
BY MailInvInit DEF MailInit, RefInv

(* Every step preserves the refinement invariant.                          *)
LEMMA RefInvStep == RefInv /\ [MailNext]_mvars => RefInv'
<1> SUFFICES ASSUME RefInv, [MailNext]_mvars PROVE RefInv'
    OBVIOUS
<1>0. MailInv'
    BY MailInvStep DEF RefInv
<1> USE DEF RefInv
<1>1. ASSUME NEW r \in Records, InsertRecord(r) PROVE RefInv'
    BY <1>0, <1>1 DEF InsertRecord
<1>2. ASSUME NEW r \in Records, StoreDiagnostic(r) PROVE RefInv'
    BY <1>0, <1>2 DEF StoreDiagnostic
<1>3. CASE Age
    BY <1>0, <1>3 DEF Age
<1>4. ASSUME NEW r \in Records, Visit(r) PROVE RefInv'
    BY <1>0, <1>4 DEF Visit
<1>5. ASSUME NEW ok \in BOOLEAN, Send(ok) PROVE RefInv'
    BY <1>0, <1>5 DEF Send
<1>6. CASE Remove
    BY <1>0, <1>6 DEF Remove
<1>7. CASE EndPass
    BY <1>0, <1>7 DEF EndPass
<1>8. CASE Wake
    BY <1>0, <1>8 DEF Wake
<1>9. CASE CrashRestart
    BY <1>0, <1>9 DEF CrashRestart
<1>10. CASE UNCHANGED mvars
    BY <1>0, <1>10 DEF mvars
<1>11. QED
    BY <1>1, <1>2, <1>3, <1>4, <1>5, <1>6, <1>7, <1>8, <1>9, <1>10
       DEF MailNext, SenderStep

(* The mail sender starts as an empty mail box.                            *)
LEMMA BoxInit == MailInit => Box!Init
BY DEF MailInit, Box!Init, answeredOf

(* Every step of go() and its environment is a step of the mail box or a   *)
(* stutter of it: Send is Answer of the record in hand, Remove and the     *)
(* expiry at the end of a pass are Retire, and Visit, Wake and restarts    *)
(* change nothing the mail box shows.                                      *)
LEMMA BoxStep == RefInv /\ [MailNext]_mvars => [Box!Next]_Box!boxvars
<1> SUFFICES ASSUME RefInv, [MailNext]_mvars PROVE [Box!Next]_Box!boxvars
    OBVIOUS
<1> USE MailAssumption DEF RefInv, MailInv, MailTypeOK
<1>1. ASSUME NEW r \in Records, InsertRecord(r) PROVE [Box!Next]_Box!boxvars
    <2>1. Box!Insert(r)
        BY <1>1 DEF InsertRecord, Box!Insert, answeredOf
    <2>2. QED
        BY <2>1 DEF Box!Next
<1>2. ASSUME NEW r \in Records, StoreDiagnostic(r) PROVE [Box!Next]_Box!boxvars
    <2>1. Box!Diagnose(r)
        BY <1>2 DEF StoreDiagnostic, Box!Diagnose, answeredOf
    <2>2. QED
        BY <2>1 DEF Box!Next
<1>3. CASE Age
    <2>1. Box!Tick
        BY <1>3 DEF Age, Box!Tick, answeredOf
    <2>2. QED
        BY <2>1 DEF Box!Next
<1>4. ASSUME NEW ok \in BOOLEAN, Send(ok) PROVE [Box!Next]_Box!boxvars
    <2>1. cur \in emailDb \cap diags /\ cur \in Records
        BY <1>4 DEF Send
    <2>2. answeredOf' = answeredOf \cup {cur}
        BY <1>4, <2>1 DEF Send, answeredOf
    <2>3. Box!Answer(cur)
        BY <1>4, <2>1, <2>2 DEF Send, Box!Answer
    <2>4. QED
        BY <2>1, <2>3 DEF Box!Next
<1>5. CASE Remove
    <2>1. {cur} \subseteq emailDb /\ cur \in answeredOf
        BY <1>5 DEF Remove, answeredOf
    <2>2. Box!Retire({cur})
        BY <1>5, <2>1 DEF Remove, Box!Retire, answeredOf
    <2>3. {cur} \in SUBSET Records
        BY <2>1
    <2>4. QED
        BY <2>2, <2>3 DEF Box!Next
<1>6. CASE EndPass
    <2> DEFINE R == {r \in emailDb : ~(age[r] < ExpireAge)}
    <2>1. \A r \in R : age[r] = ExpireAge
        OBVIOUS
    <2>2. Box!Retire(R)
        BY <1>6, <2>1 DEF EndPass, Box!Retire, answeredOf
    <2>3. QED
        BY <2>2 DEF Box!Next
<1>7. CASE (\E r \in Records : Visit(r)) \/ Wake \/ CrashRestart \/ UNCHANGED mvars
    BY <1>7 DEF Visit, Wake, CrashRestart, mvars, Box!boxvars, answeredOf
<1>8. QED
    BY <1>1, <1>2, <1>3, <1>4, <1>5, <1>6, <1>7 DEF MailNext, SenderStep

(* go() implements the mail box of its docstring, for every set of        *)
(* records, expiry age and restart bound: replies go out only for stored  *)
(* emails whose diagnostic info has arrived, and records leave only once  *)
(* answered or expired.                                                   *)
THEOREM MailBoxRefinement == MailSpec => MailBoxSpec
<1>1. MailSpec => []RefInv
    BY RefInvInit, RefInvStep, PTL DEF MailSpec
<1>2. QED
    BY <1>1, BoxInit, BoxStep, PTL DEF MailSpec, MailBoxSpec, Box!Spec

=============================================================================
