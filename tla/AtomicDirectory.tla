--------------------------- MODULE AtomicDirectory ---------------------------
(***************************************************************************)
(* What the Directory Store promises of its Servers sheet (spec section    *)
(* 4.1): an update call locates every target row in the pre-update sheet  *)
(* and applies all of its updates at once, replacing the sheet only when   *)
(* every key was found; rows are otherwise only added, by administrators.  *)
(* A call is issued (Call) and takes effect in one later step (Commit);    *)
(* `pending` holds, per caller, the batch of its call in progress.  A call *)
(* whose keys are not all found never commits and leaves the sheet as it   *)
(* was.                                                                    *)
(***************************************************************************)
EXTENDS PsiDirectory

CONSTANTS
    Updaters,   \* update callers
    InitRows,   \* rows an administrator may put in the sheet
    NRows,      \* rows of the sheet at start
    MaxRows,    \* bound on the rows administrators add
    Batches,    \* the update lists a call may carry
    NoBatch     \* no call in progress

VARIABLES sheet, pending

Init ==
    /\ sheet \in [1..NRows -> InitRows]
    /\ pending = [u \in Updaters |-> NoBatch]

(* A caller starts an update call.                                         *)
Call(u, b) ==
    /\ pending[u] = NoBatch
    /\ pending' = [pending EXCEPT ![u] = b]
    /\ UNCHANGED sheet

(* The call takes effect: all of its updates, against the current sheet.   *)
Commit(u) ==
    /\ pending[u] # NoBatch
    /\ KeysFound(sheet, pending[u])
    /\ sheet' = ApplyUpdates(sheet, pending[u])
    /\ pending' = [pending EXCEPT ![u] = NoBatch]

(* An administrator adds a row.                                            *)
AddRow(r) ==
    /\ Len(sheet) < MaxRows
    /\ sheet' = Append(sheet, r)
    /\ UNCHANGED pending

Next ==
    \/ \E u \in Updaters, b \in Batches : Call(u, b)
    \/ \E u \in Updaters : Commit(u)
    \/ \E r \in InitRows : AddRow(r)

Spec == Init /\ [][Next]_<<sheet, pending>>

=============================================================================
