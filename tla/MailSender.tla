------------------------------ MODULE MailSender ------------------------------
(***************************************************************************)
(* The feedback mail sender, src/EmailResponder/FeedbackDecryptor/        *)
(* mailsender.py.  go() loops over the email-ID records of the datastore:  *)
(* a record whose diagnostic-info record has arrived is answered by mail   *)
(* and then deleted, whether or not the send succeeded; after each pass    *)
(* old records are expired and the loop sleeps.  Other processes insert    *)
(* email-ID records and diagnostic-info records at any time.  A record     *)
(* stands for one email; its diagnostic info is identified with it.        *)
(*                                                                         *)
(* A pass iterates over the records present when it began (the datastore  *)
(* cursor); the process may die at any step and is started again, which   *)
(* begins a fresh pass.                                                    *)
(***************************************************************************)
EXTENDS Naturals

CONSTANTS
    Records,     \* email-ID records (one per feedback email)
    ExpireAge,   \* age at which expire_old_email_diagnostic_info_records drops a record
    MaxCrashes,  \* bound on process restarts
    NoRecord     \* no record in hand

ASSUME MailAssumption ==
    /\ ExpireAge \in Nat \ {0}
    /\ MaxCrashes \in Nat
    /\ NoRecord \notin Records

VARIABLES
    emailDb,    \* email-ID records in the datastore
    age,        \* age of each record, in sleep periods, saturating at ExpireAge
    diags,      \* records whose diagnostic info is in the datastore
    inserted,   \* history: records ever inserted (each email arrives once)
    pc,         \* "next": in a pass; "send", "remove": handling `cur`; "sleep"
    cursor,     \* records the current pass has still to yield
    cur,        \* the record being handled
    attempts,   \* history: sendmail.send calls per record
    delivered,  \* history: records whose reply was sent without SMTPException
    crashes

mvars == <<emailDb, age, diags, inserted, pc, cursor, cur, attempts, delivered, crashes>>

MailTypeOK ==
    /\ emailDb \subseteq inserted /\ inserted \subseteq Records
    /\ age \in [Records -> 0..ExpireAge]
    /\ diags \subseteq Records
    /\ pc \in {"next", "send", "remove", "sleep"}
    /\ cursor \subseteq Records
    /\ cur \in Records \cup {NoRecord}
    /\ (pc \in {"send", "remove"}) <=> (cur # NoRecord)
    /\ attempts \in [Records -> Nat]
    /\ delivered \subseteq Records
    /\ crashes \in 0..MaxCrashes

MailInit ==
    /\ emailDb = {} /\ inserted = {} /\ diags = {}
    /\ age = [r \in Records |-> 0]
    /\ pc = "next" /\ cursor = {} /\ cur = NoRecord
    /\ attempts = [r \in Records |-> 0]
    /\ delivered = {}
    /\ crashes = 0

(* The mail responder stores the email-ID record of a new feedback email.  *)
InsertRecord(r) ==
    /\ r \notin inserted
    /\ emailDb' = emailDb \cup {r}
    /\ inserted' = inserted \cup {r}
    /\ age' = [age EXCEPT ![r] = 0]
    /\ UNCHANGED <<diags, pc, cursor, cur, attempts, delivered, crashes>>

(* The decryptor stores the diagnostic info the email refers to.           *)
StoreDiagnostic(r) ==
    /\ r \notin diags
    /\ diags' = diags \cup {r}
    /\ UNCHANGED <<emailDb, age, inserted, pc, cursor, cur, attempts, delivered, crashes>>

(* Mutant: the age no longer saturates.                                    *)
AgeUncapped ==
    /\ \E r \in emailDb : age[r] < ExpireAge
    /\ age' = [r \in Records |-> IF r \in emailDb THEN age[r] + 1 ELSE age[r]]
    /\ UNCHANGED <<emailDb, diags, inserted, pc, cursor, cur, attempts, delivered, crashes>>

(* Time passes (the 60 s sleeps and the time spent in passes).             *)
Age ==
    /\ \E r \in emailDb : age[r] < ExpireAge
    /\ age' = [r \in Records |-> IF r \in emailDb /\ age[r] < ExpireAge
                                 THEN age[r] + 1 ELSE age[r]]
    /\ UNCHANGED <<emailDb, diags, inserted, pc, cursor, cur, attempts, delivered, crashes>>

(* Mutant: the `continue` on missing diagnostic info dropped.             *)
VisitNoDiagCheck(r) ==
    /\ pc = "next"
    /\ r \in cursor
    /\ cursor' = cursor \ {r}
    /\ pc' = "send" /\ cur' = r
    /\ UNCHANGED <<emailDb, age, diags, inserted, attempts, delivered, crashes>>

(* The iterator yields a record; find_diagnostic_info looks its diagnostic *)
(* info up, and `continue` skips it when there is none yet.                *)
Visit(r) ==
    /\ pc = "next"
    /\ r \in cursor
    /\ cursor' = cursor \ {r}
    /\ IF r \in diags THEN pc' = "send" /\ cur' = r
                      ELSE UNCHANGED <<pc, cur>>
    /\ UNCHANGED <<emailDb, age, diags, inserted, attempts, delivered, crashes>>

(* The reply is formatted and sendmail.send called; an SMTPException is    *)
(* logged and the loop goes on (ok = FALSE).                               *)
Send(ok) ==
    /\ pc = "send"
    /\ attempts' = [attempts EXCEPT ![cur] = @ + 1]
    /\ delivered' = IF ok THEN delivered \cup {cur} ELSE delivered
    /\ pc' = "remove"
    /\ UNCHANGED <<emailDb, age, diags, inserted, cursor, cur, crashes>>

(* remove_email_diagnostic_info: the record is deleted, sent or not.       *)
Remove ==
    /\ pc = "remove"
    /\ emailDb' = emailDb \ {cur}
    /\ pc' = "next" /\ cur' = NoRecord
    /\ UNCHANGED <<age, diags, inserted, cursor, attempts, delivered, crashes>>

(* Mutant: expire_old_email_diagnostic_info_records does nothing.          *)
EndPassNoExpiry ==
    /\ pc = "next" /\ cursor = {}
    /\ pc' = "sleep"
    /\ UNCHANGED <<emailDb, age, diags, inserted, cursor, cur, attempts, delivered, crashes>>

(* The pass is over: old records are expired, then time.sleep.             *)
EndPass ==
    /\ pc = "next" /\ cursor = {}
    /\ emailDb' = {r \in emailDb : age[r] < ExpireAge}
    /\ pc' = "sleep"
    /\ UNCHANGED <<age, diags, inserted, cursor, cur, attempts, delivered, crashes>>

(* After the sleep, get_email_diagnostic_info_iterator starts a new pass.  *)
Wake ==
    /\ pc = "sleep"
    /\ pc' = "next" /\ cursor' = emailDb
    /\ UNCHANGED <<emailDb, age, diags, inserted, cur, attempts, delivered, crashes>>

(* The process dies (an exception other than SMTPException, or a kill)     *)
(* and go() is run again: a fresh pass over the stored records.            *)
CrashRestart ==
    /\ crashes < MaxCrashes
    /\ crashes' = crashes + 1
    /\ pc' = "next" /\ cursor' = emailDb /\ cur' = NoRecord
    /\ UNCHANGED <<emailDb, age, diags, inserted, attempts, delivered>>

SenderStep ==
    \/ \E r \in Records : Visit(r)
    \/ \E ok \in BOOLEAN : Send(ok)
    \/ Remove
    \/ EndPass
    \/ Wake

MailNext ==
    \/ \E r \in Records : InsertRecord(r) \/ StoreDiagnostic(r)
    \/ Age
    \/ SenderStep
    \/ CrashRestart

(* The loop never blocks and time keeps passing: both are weakly fair.     *)
(* Inserts, diagnostics and crashes are the environment's and need not     *)
(* happen.                                                                 *)
MailSpec == MailInit /\ [][MailNext]_mvars /\ WF_mvars(SenderStep) /\ WF_mvars(Age)

-----------------------------------------------------------------------------
(***************************************************************************)
(* Properties.                                                             *)
(***************************************************************************)

(* The module docstring: a record is answered and then deleted, so an      *)
(* email gets at most one reply.  Concerns the send and the delete being   *)
(* two separate datastore steps with no progress recorded in between.      *)
ReplyAtMostOnce == \A r \in Records : attempts[r] <= 1

(* The refinement mapping to MailBox: a record is answered once           *)
(* sendmail.send has been called for it, whether or not the call raised.   *)
answeredOf == {r \in Records : attempts[r] > 0}

Box == INSTANCE MailBox WITH answered <- answeredOf

(* The module docstring, as a specification: go() behaves as a mail box   *)
(* that answers only stored emails whose diagnostic info has arrived and   *)
(* deletes only records it has answered or that have expired.  Send maps   *)
(* to Answer, Remove and the expiry of EndPass to Retire, and passes,      *)
(* cursors and restarts to stutters.  Concerns the `continue` on missing   *)
(* diagnostic info, the delete after a send that may have raised, and a    *)
(* restart between the two.                                                *)
MailBoxSpec == Box!Spec

(* The datastore does not grow without bound: every stored record is      *)
(* eventually gone, answered and deleted or expired, however late its      *)
(* diagnostic info arrives.  Concerns the `continue` path together with    *)
(* the expiry after each pass.                                             *)
RecordsEventuallyRetired == \A r \in Records : (r \in emailDb) ~> (r \notin emailDb)

=============================================================================
