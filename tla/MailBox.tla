------------------------------- MODULE MailBox -------------------------------
(***************************************************************************)
(* What the feedback mail sender promises, without its loop: the          *)
(* datastore of email-ID records, their ages, the diagnostic info that    *)
(* has arrived, and the records that have been answered.  A reply goes    *)
(* out only for a stored email whose diagnostic info is there, and a      *)
(* record leaves the datastore only once answered or expired.  Passes,    *)
(* cursors, failed sends and restarts are the implementation's            *)
(* (MailSender); a record may be answered more than once, because         *)
(* nothing here says otherwise of the code (MCMailSenderCrash).           *)
(***************************************************************************)
EXTENDS Naturals

CONSTANTS
    Records,    \* email-ID records (one per feedback email)
    ExpireAge   \* age at which a record may be expired

VARIABLES
    emailDb,    \* email-ID records in the datastore
    age,        \* age of each record, saturating at ExpireAge
    diags,      \* records whose diagnostic info has arrived
    answered    \* records a reply has been sent for

boxvars == <<emailDb, age, diags, answered>>

Init ==
    /\ emailDb = {} /\ diags = {} /\ answered = {}
    /\ age = [r \in Records |-> 0]

(* A feedback email arrives and its record is stored, aged 0.              *)
Insert(r) ==
    /\ r \notin emailDb
    /\ emailDb' = emailDb \cup {r}
    /\ age' = [age EXCEPT ![r] = 0]
    /\ UNCHANGED <<diags, answered>>

(* Its diagnostic info arrives.                                            *)
Diagnose(r) ==
    /\ r \notin diags
    /\ diags' = diags \cup {r}
    /\ UNCHANGED <<emailDb, age, answered>>

(* Stored records grow older, up to the expiry age.                        *)
Tick ==
    /\ \E r \in emailDb : age[r] < ExpireAge
    /\ age' = [r \in Records |-> IF r \in emailDb /\ age[r] < ExpireAge
                                 THEN age[r] + 1 ELSE age[r]]
    /\ UNCHANGED <<emailDb, diags, answered>>

(* A reply is sent for a stored email whose diagnostic info is there.      *)
Answer(r) ==
    /\ r \in emailDb \cap diags
    /\ answered' = answered \cup {r}
    /\ UNCHANGED <<emailDb, age, diags>>

(* Records are deleted, each of them answered or expired.                  *)
Retire(R) ==
    /\ R \subseteq emailDb
    /\ \A r \in R : r \in answered \/ age[r] = ExpireAge
    /\ emailDb' = emailDb \ R
    /\ UNCHANGED <<age, diags, answered>>

Next ==
    \/ \E r \in Records : Insert(r) \/ Diagnose(r) \/ Answer(r)
    \/ Tick
    \/ \E R \in SUBSET Records : Retire(R)

Spec == Init /\ [][Next]_boxvars

=============================================================================
