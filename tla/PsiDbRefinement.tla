---------------------------- MODULE PsiDbRefinement ----------------------------
(***************************************************************************)
(* update_data implements the atomic update of spec section 4.1: with one  *)
(* update_servers caller and no rows added by administrators, every        *)
(* behaviour of PsiDb is, under the mapping sheet <- servers and pending   *)
(* <- pendingOf, a behaviour of AtomicDirectory.  The run MCPsiDbLostRows  *)
(* shows the hypothesis cannot be dropped: a row appended between the open *)
(* and the save is lost, and so is the batch of a second caller.           *)
(***************************************************************************)
EXTENDS PsiDbProofs

(* A batch carries at least one update, so it is never the empty batch.    *)
LEMMA BatchNotNoBatch ==
    ASSUME NEW b \in Batch
    PROVE  b # NoBatch
<1>1. PICK n \in 1..MaxBatch : b \in [1..n -> [key: 1..(MaxRows + 1), secret: Secrets]]
    BY DEF Batch
<1>2. 1 \in DOMAIN b
    BY <1>1, BoundsAssumption
<1>3. DOMAIN NoBatch = {}
    BY DEF NoBatch
<1>4. QED
    BY <1>2, <1>3

-----------------------------------------------------------------------------
(* The hypothesis of the refinement: at most one update_servers caller,   *)
(* and a sheet administrators do not add to.                               *)
OneWriter == (\A u, v \in Updaters : u = v) /\ MaxRows = NRows

(* The initial states satisfy the invariant: no caller has a copy open.    *)
LEMMA UpdateInvInit == Init => UpdateInv
<1> SUFFICES ASSUME Init PROVE UpdateInv
    OBVIOUS
<1>1. TypeOK
    BY TypeInit
<1>2. Len(servers) = NRows
    BY BoundsAssumption DEF Init
<1>3. \A u \in Updaters : upd[u].pc = "idle"
    BY DEF Init
<1>4. QED
    BY <1>1, <1>2, <1>3 DEF UpdateInv

(* With one writer, the sheet changes only by that writer's save, so the   *)
(* copy it holds stays the current sheet with its batch applied.           *)
LEMMA UpdateInvStep ==
    ASSUME OneWriter
    PROVE  UpdateInv /\ [Next]_vars => UpdateInv'
<1> SUFFICES ASSUME UpdateInv, [Next]_vars PROVE UpdateInv'
    OBVIOUS
<1> USE DEF UpdateInv
<1>0. TypeOK'
    BY TypeStep
<1>1. CASE UNCHANGED <<servers, upd>>
    BY <1>0, <1>1
<1>2. ASSUME NEW u \in Updaters, NEW b \in Batch, UpdateOpen(u, b)
      PROVE  UpdateInv'
    <2>1. \A w \in Updaters : w = u
        BY DEF OneWriter
    <2>2. upd'[u].pc = "open" => /\ KeysFound(servers, b)
                                 /\ upd'[u].batch = b
                                 /\ upd'[u].table = ApplyUpdates(servers, b)
        BY <1>2 DEF UpdateOpen, TypeOK
    <2>3. QED
        BY <1>0, <1>2, <2>1, <2>2 DEF UpdateOpen
<1>3. ASSUME NEW u \in Updaters, UpdateSave(u) PROVE UpdateInv'
    <2>1. \A w \in Updaters : w = u
        BY DEF OneWriter
    <2>2. upd'[u].pc = "idle"
        BY <1>3 DEF UpdateSave, TypeOK
    <2>3. servers' = ApplyUpdates(servers, upd[u].batch)
        BY <1>3 DEF UpdateSave
    <2>4. Len(servers') = Len(servers)
        <3>1. DOMAIN servers' = DOMAIN servers
            BY <2>3, ApplyUpdatesLen DEF TypeOK
        <3>2. servers' \in Seq(Row)
            BY <1>0 DEF TypeOK
        <3>3. QED
            BY <3>1, <3>2, LenProperties DEF TypeOK
    <2>5. QED
        BY <1>0, <2>1, <2>2, <2>4
<1>4. ASSUME NEW r \in InitRows, AdminAddServer(r) PROVE FALSE
    BY <1>4, BoundsAssumption DEF AdminAddServer, OneWriter
<1>5. QED
    BY <1>1, <1>2, <1>3, <1>4
       DEF Next, vars, Tick, StartWebServer, Handshake, Embed
-----------------------------------------------------------------------------
(* The initial sheet is an initial sheet of the atomic directory, with no  *)
(* call in progress.                                                       *)
LEMMA RefinementInit == Init => Directory!Init
BY DEF Init, Directory!Init, pendingOf

(* Every step of PsiDb is a step of the atomic directory or leaves the     *)
(* sheet and the calls in progress alone: a successful open is the call,   *)
(* the save is its commit, and every other step is a stutter.              *)
LEMMA RefinementStep ==
    ASSUME OneWriter
    PROVE  UpdateInv /\ [Next]_vars => [Directory!Next]_<<servers, pendingOf>>
<1> SUFFICES ASSUME UpdateInv, [Next]_vars
             PROVE  [Directory!Next]_<<servers, pendingOf>>
    OBVIOUS
<1>1. CASE UNCHANGED <<servers, upd>>
    BY <1>1 DEF pendingOf
<1>2. ASSUME NEW u \in Updaters, NEW b \in Batch, UpdateOpen(u, b)
      PROVE  [Directory!Next]_<<servers, pendingOf>>
    <2>1. CASE KeysFound(servers, b)
        <3>1. pendingOf[u] = NoBatch
            BY <1>2 DEF UpdateOpen, pendingOf
        <3>2. pendingOf' = [pendingOf EXCEPT ![u] = b]
            BY <1>2, <2>1 DEF UpdateOpen, pendingOf, UpdateInv, TypeOK
        <3>3. Directory!Call(u, b)
            BY <1>2, <3>1, <3>2 DEF UpdateOpen, Directory!Call
        <3>4. QED
            BY <3>3 DEF Directory!Next
    <2>2. CASE ~KeysFound(servers, b)
        <3>1. pendingOf' = pendingOf
            BY <1>2, <2>2 DEF UpdateOpen, pendingOf, UpdateInv, TypeOK
        <3>2. QED
            BY <1>2, <3>1 DEF UpdateOpen
    <2>3. QED
        BY <2>1, <2>2
<1>3. ASSUME NEW u \in Updaters, UpdateSave(u)
      PROVE  [Directory!Next]_<<servers, pendingOf>>
    <2>1. upd[u].batch \in Batch /\ KeysFound(servers, upd[u].batch)
          /\ upd[u].table = ApplyUpdates(servers, upd[u].batch)
        BY <1>3 DEF UpdateSave, UpdateInv
    <2>2. pendingOf[u] = upd[u].batch /\ pendingOf[u] # NoBatch
        BY <1>3, <2>1, BatchNotNoBatch DEF UpdateSave, pendingOf
    <2>3. pendingOf' = [pendingOf EXCEPT ![u] = NoBatch]
        BY <1>3 DEF UpdateSave, pendingOf, UpdateInv, TypeOK
    <2>4. Directory!KeysFound(servers, pendingOf[u])
        BY <2>1, <2>2 DEF Directory!KeysFound, KeysFound
    <2>5. servers' = Directory!ApplyUpdates(servers, pendingOf[u])
        <3>1. servers' = upd[u].table
            BY <1>3 DEF UpdateSave
        <3>2. Directory!ApplyUpdates(servers, pendingOf[u]) = ApplyUpdates(servers, upd[u].batch)
            BY <2>2 DEF Directory!ApplyUpdates, ApplyUpdates,
                        Directory!LastUpdateOf, LastUpdateOf
        <3>3. QED
            BY <2>1, <3>1, <3>2
    <2>6. Directory!Commit(u)
        BY <2>2, <2>3, <2>4, <2>5 DEF Directory!Commit
    <2>7. QED
        BY <2>6 DEF Directory!Next
<1>4. ASSUME NEW r \in InitRows, AdminAddServer(r) PROVE FALSE
    BY <1>4, BoundsAssumption DEF AdminAddServer, OneWriter, UpdateInv
<1>5. QED
    BY <1>1, <1>2, <1>3, <1>4
       DEF Next, vars, Tick, StartWebServer, Handshake, Embed

(* update_data is an all-or-nothing update of the sheet (spec section     *)
(* 4.1), for every value of the constants, when a single update_servers    *)
(* caller runs and administrators add no rows.  Concerns the ValueError    *)
(* raised half-way through a batch and the copy saved at the end of the    *)
(* call.                                                                   *)
THEOREM UpdateDataAtomic ==
    ASSUME OneWriter
    PROVE  Spec => AtomicUpdate
<1>1. Spec => []UpdateInv
    BY UpdateInvInit, UpdateInvStep, PTL DEF Spec
<1>2. QED
    BY <1>1, RefinementInit, RefinementStep, PTL DEF Spec, AtomicUpdate, Directory!Spec

=============================================================================
