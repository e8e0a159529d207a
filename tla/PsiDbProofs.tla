------------------------------ MODULE PsiDbProofs ------------------------------
(***************************************************************************)
(* Proofs about PsiDb for every value of its constants: the type           *)
(* invariant, and the lemmas on the operators of the model it rests on.    *)
(***************************************************************************)
EXTENDS PsiDb, TLAPS, FiniteSetTheorems, SequenceTheorems, WellFoundedInduction

-----------------------------------------------------------------------------
(* A nonempty set of naturals with an upper bound has a greatest element.  *)
(* The least element of {n - k : k \in S}, which exists because < is      *)
(* well-founded on Nat, is n minus that element.                          *)
LEMMA MaxExists ==
    ASSUME NEW S \in SUBSET Nat, NEW n \in Nat, \A s \in S : s <= n, S # {}
    PROVE  \E m \in S : \A j \in S : j <= m
<1> DEFINE T == {n - k : k \in S}
<1>1. T \subseteq Nat /\ T # {}
    <2>1. \A k \in S : n - k \in Nat
        OBVIOUS
    <2>2. QED
        BY <2>1
<1>2. PICK x \in T : \A y \in T : ~(<<y, x>> \in OpToRel(<, Nat))
    BY <1>1, NatLessThanWellFounded, WFMin
<1>3. PICK m \in S : x = n - m
    OBVIOUS
<1>4. ASSUME NEW j \in S PROVE j <= m
    <2>1. n - j \in T /\ n - j \in Nat /\ x \in Nat
        BY <1>1
    <2>2. ~(n - j < x)
        BY <1>2, <2>1 DEF OpToRel
    <2>3. QED
        BY <1>3, <2>2
<1>5. QED
    BY <1>4

(* The update of a batch that update_data applies last to row i: it is an  *)
(* update of the batch, it targets i, and no later one does.               *)
LEMMA LastUpdateOfSpec ==
    ASSUME NEW batch \in Batch, NEW i,
           \E k \in DOMAIN batch : batch[k].key = i
    PROVE  /\ LastUpdateOf(batch, i) \in DOMAIN batch
           /\ batch[LastUpdateOf(batch, i)].key = i
           /\ \A j \in DOMAIN batch : batch[j].key = i => j <= LastUpdateOf(batch, i)
<1>1. PICK n \in 1..MaxBatch : batch \in [1..n -> [key: 1..(MaxRows + 1), secret: Secrets]]
    BY DEF Batch
<1> DEFINE K == {k \in DOMAIN batch : batch[k].key = i}
<1>2. DOMAIN batch = 1..n
    BY <1>1
<1>3. n \in Nat /\ K \subseteq 1..n
    BY <1>1, <1>2, BoundsAssumption DEF K
<1>4. K # {}
    BY DEF K
<1>5. K \in SUBSET Nat /\ \A s \in K : s <= n
    BY <1>3
<1>6. \E m \in K : \A j \in K : j <= m
    BY <1>3, <1>4, <1>5, MaxExists
<1>7. \E k \in DOMAIN batch :
        /\ batch[k].key = i
        /\ \A j \in DOMAIN batch : batch[j].key = i => j <= k
    BY <1>6 DEF K
<1>8. QED
    BY <1>7, Zenon DEF LastUpdateOf

(* The rows update_data would save form a sheet: a sequence of rows.      *)
LEMMA ApplyUpdatesType ==
    ASSUME NEW tbl \in Seq(Row), NEW batch \in Batch
    PROVE  ApplyUpdates(tbl, batch) \in Seq(Row)
<1>1. ASSUME NEW i \in DOMAIN tbl, \E k \in DOMAIN batch : batch[k].key = i
      PROVE  batch[LastUpdateOf(batch, i)].secret \in Secrets
    <2>1. LastUpdateOf(batch, i) \in DOMAIN batch
        BY <1>1, LastUpdateOfSpec
    <2>2. batch \in [DOMAIN batch -> [key: 1..(MaxRows + 1), secret: Secrets]]
        BY DEF Batch
    <2>3. QED
        BY <2>1, <2>2
<1>2. \A i \in DOMAIN tbl :
        (IF \E k \in DOMAIN batch : batch[k].key = i
         THEN [tbl[i] EXCEPT !.secret = batch[LastUpdateOf(batch, i)].secret]
         ELSE tbl[i]) \in Row
    <2>1. \A i \in DOMAIN tbl : tbl[i] \in Row
        BY LenProperties
    <2>2. QED
        BY <1>1, <2>1 DEF Row
<1>3. ApplyUpdates(tbl, batch) \in [1..Len(tbl) -> Row]
    BY <1>2, LenProperties DEF ApplyUpdates
<1>4. QED
    BY <1>3, LenProperties, SeqDef

(* Any set of row numbers of a sheet is finite: its size is a natural.     *)
LEMMA RowSetCardinality ==
    ASSUME NEW tbl \in Seq(Row), NEW S \in SUBSET DOMAIN tbl
    PROVE  Cardinality(S) \in Nat
<1>1. IsFiniteSet(1..Len(tbl))
    BY FS_Interval
<1>2. IsFiniteSet(S)
    BY <1>1, FS_Subset
<1>3. QED
    BY <1>2, FS_CardinalityType

(* The servers the bucketer hands out are rows of the sheet.               *)
LEMMA EncodedServerListRows ==
    ASSUME NEW tbl \in Seq(Row), NEW c, NEW ip, NEW d
    PROVE  EncodedServerList(tbl, c, ip, d) \subseteq DOMAIN tbl
BY DEF EncodedServerList, EmbeddedServers, DiscoveryCandidates

-----------------------------------------------------------------------------
(* A disclosure recorded from a sheet is a well-typed history entry.       *)
LEMMA HandshakeEntryType ==
    ASSUME NEW tbl \in Seq(Row), NEW ip \in Ips, NEW c \in Clients, NEW d \in Time
    PROVE  [client |-> c, ip |-> ip, date |-> d,
            n |-> Cardinality(DiscoveryCandidates(tbl, c, d)),
            servers |-> EncodedServerList(tbl, c, ip, d)] \in LogEntry
<1>1. Cardinality(DiscoveryCandidates(tbl, c, d)) \in Nat
    <2>1. DiscoveryCandidates(tbl, c, d) \subseteq DOMAIN tbl
        BY DEF DiscoveryCandidates
    <2>2. QED
        BY <2>1, RowSetCardinality
<1>2. EncodedServerList(tbl, c, ip, d) \subseteq Nat
    BY EncodedServerListRows, LenProperties
<1>3. QED
    BY <1>1, <1>2 DEF LogEntry

LEMMA EmbedEntryType ==
    ASSUME NEW tbl \in Seq(Row), NEW c \in Clients
    PROVE  [client |-> c, ip |-> None, date |-> None,
            n |-> Cardinality(EncodedServerList(tbl, c, None, None)),
            servers |-> EncodedServerList(tbl, c, None, None)] \in LogEntry
<1>1. EncodedServerList(tbl, c, None, None) \subseteq DOMAIN tbl
    BY EncodedServerListRows
<1>2. Cardinality(EncodedServerList(tbl, c, None, None)) \in Nat
    BY <1>1, RowSetCardinality
<1>3. EncodedServerList(tbl, c, None, None) \subseteq Nat
    BY <1>1, LenProperties
<1>4. QED
    BY <1>2, <1>3 DEF LogEntry

(* The initial states are well typed.                                      *)
LEMMA TypeInit == Init => TypeOK
<1>1. Init => TypeOK
    <2> SUFFICES ASSUME Init PROVE TypeOK
        OBVIOUS
    <2>1. servers \in Seq(Row)
        BY InitRowsAssumption, BoundsAssumption, SeqDef DEF Init
    <2>2. now \in Time /\ procDate \in Time
        BY MaxTimeAssumption DEF Init, Time
    <2>3. upd \in [Updaters -> UpdState]
        BY EmptySeq DEF Init, UpdState, NoBatch
    <2>4. QED
        BY <2>1, <2>2, <2>3 DEF Init, TypeOK
<1>2. QED
    BY <1>1

(* Every step of the directory model preserves the type invariant.         *)
LEMMA TypeStep == TypeOK /\ [Next]_vars => TypeOK'
<1>1. TypeOK /\ [Next]_vars => TypeOK'
    <2> SUFFICES ASSUME TypeOK, [Next]_vars PROVE TypeOK'
        OBVIOUS
    <2>1. CASE Tick
        BY <2>1, MaxTimeAssumption DEF Tick, TypeOK, Time
    <2>2. CASE StartWebServer
        BY <2>2 DEF StartWebServer, TypeOK
    <2>3. ASSUME NEW ip \in Ips, NEW c \in Clients, NEW s \in Sponsors,
                 NEW v \in ClientVersions, NEW ok \in BOOLEAN,
                 Handshake(ip, c, s, v, ok)
          PROVE  TypeOK'
        <3>1. status' \in {200, 404, 500}
            BY <2>3 DEF Handshake, HandshakeResponse, NoBody
        <3>2. log' \in SUBSET LogEntry
            BY <2>3, HandshakeEntryType DEF Handshake, Record, TypeOK
        <3>3. QED
            BY <2>3, <3>1, <3>2 DEF Handshake, TypeOK
    <2>4. ASSUME NEW c \in Clients, Embed(c) PROVE TypeOK'
        BY <2>4, EmbedEntryType DEF Embed, Record, TypeOK
    <2>5. ASSUME NEW u \in Updaters, NEW b \in Batch, UpdateOpen(u, b)
          PROVE  TypeOK'
        <3>1. [pc |-> "open", table |-> ApplyUpdates(servers, b), batch |-> b,
               failed |-> FALSE] \in UpdState
            BY ApplyUpdatesType DEF TypeOK, UpdState
        <3>2. [pc |-> "idle", table |-> << >>, batch |-> NoBatch, failed |-> TRUE] \in UpdState
            BY EmptySeq DEF UpdState
        <3>3. QED
            BY <2>5, <3>1, <3>2 DEF UpdateOpen, TypeOK
    <2>6. ASSUME NEW u \in Updaters, UpdateSave(u) PROVE TypeOK'
        <3>1. [pc |-> "idle", table |-> << >>, batch |-> NoBatch, failed |-> FALSE] \in UpdState
            BY EmptySeq DEF UpdState
        <3>2. QED
            BY <2>6, <3>1 DEF UpdateSave, TypeOK, UpdState
    <2>7. ASSUME NEW r \in InitRows, AdminAddServer(r) PROVE TypeOK'
        BY <2>7, InitRowsAssumption, AppendProperties DEF AdminAddServer, TypeOK
    <2>8. CASE UNCHANGED vars
        BY <2>8 DEF vars, TypeOK
    <2>9. QED
        BY <2>1, <2>2, <2>3, <2>4, <2>5, <2>6, <2>7, <2>8 DEF Next
<1>2. QED
    BY <1>1

(* Type correctness of the directory model: the sheet stays a sequence of  *)
(* rows, the clock and the import-time discovery date stay in range, each  *)
(* update_servers caller holds a sheet, a handshake answers 200, 404 or    *)
(* 500, and every disclosure is a well-formed entry.  Concerns             *)
(* update_data's copy-and-save, the handshake status paths and the         *)
(* bucketer's results.                                                     *)
THEOREM TypeCorrect == Spec => []TypeOK
BY TypeInit, TypeStep, PTL DEF Spec

-----------------------------------------------------------------------------
(* A server the bucketer hands out belongs to the client: an embedded one  *)
(* without a window for ip = None, one whose window holds d otherwise.     *)
LEMMA EncodedServerListSound ==
    ASSUME NEW tbl, NEW c, NEW ip, NEW d, NEW i \in EncodedServerList(tbl, c, ip, d)
    PROVE  /\ i \in DOMAIN tbl
           /\ tbl[i].client = c
           /\ ip = None => tbl[i].start = None
           /\ ip # None => InWindow(tbl[i], d)
BY DEF EncodedServerList, EmbeddedServers, DiscoveryCandidates

(* The copy update_data writes differs from the sheet it was made from in  *)
(* secrets only.                                                           *)
LEMMA ApplyUpdatesSameRows ==
    ASSUME NEW tbl \in Seq(Row), NEW batch \in Batch
    PROVE  SameRows(ApplyUpdates(tbl, batch), tbl)
<1>1. \A i \in DOMAIN tbl : tbl[i] \in Row
    BY LenProperties
<1>2. QED
    BY <1>1 DEF SameRows, ApplyUpdates, Identity, Row

(* The copy update_data writes has the sheet's rows, so its length.       *)
LEMMA ApplyUpdatesLen ==
    ASSUME NEW tbl \in Seq(Row), NEW batch
    PROVE  DOMAIN ApplyUpdates(tbl, batch) = DOMAIN tbl
BY DEF ApplyUpdates

(* SameRows is transitive: a copy that matched the sheet still matches it  *)
(* after another copy with the same rows is saved.                         *)
LEMMA SameRowsTrans ==
    ASSUME NEW t1, NEW t2, NEW t3, SameRows(t1, t2), SameRows(t2, t3)
    PROVE  SameRows(t1, t3)
BY DEF SameRows

(* The inductive invariant of need-to-know holds initially.               *)
LEMMA DisclosureInvInit == Init => DisclosureInv
<1> SUFFICES ASSUME Init PROVE DisclosureInv
    OBVIOUS
<1>1. TypeOK
    BY TypeInit
<1>2. Len(servers) = NRows
    BY BoundsAssumption DEF Init
<1>3. QED
    BY <1>1, <1>2, BoundsAssumption DEF Init, DisclosureInv, DisclosureSound

(* Every step keeps the inductive invariant of need-to-know, as long as    *)
(* the sheet is not both appended to and rewritten by update_servers.      *)
LEMMA DisclosureInvStep ==
    ASSUME Updaters = {} \/ MaxRows = NRows
    PROVE  DisclosureInv /\ [Next]_vars => DisclosureInv'
<1> SUFFICES ASSUME DisclosureInv, [Next]_vars PROVE DisclosureInv'
    OBVIOUS
<1> USE DEF DisclosureInv
<1>0. TypeOK'
    BY TypeStep
<1>1. CASE Tick \/ StartWebServer
    BY <1>0, <1>1 DEF Tick, StartWebServer, DisclosureSound
<1>2. ASSUME NEW ip \in Ips, NEW c \in Clients, NEW s \in Sponsors,
             NEW v \in ClientVersions, NEW ok \in BOOLEAN,
             Handshake(ip, c, s, v, ok)
      PROVE  DisclosureInv'
    <2>1. ip # None
        BY NoneAssumption, IpsAssumption
    <2>2. \A i \in EncodedServerList(servers, c, ip, procDate) :
            /\ i \in DOMAIN servers /\ servers[i].client = c
            /\ InWindow(servers[i], procDate)
        BY <2>1, EncodedServerListSound
    <2>3. DisclosureSound'
        BY <1>2, <2>1, <2>2 DEF Handshake, Record, DisclosureSound
    <2>4. QED
        BY <1>0, <1>2, <2>3 DEF Handshake
<1>3. ASSUME NEW c \in Clients, Embed(c) PROVE DisclosureInv'
    <2>1. \A i \in EncodedServerList(servers, c, None, None) :
            /\ i \in DOMAIN servers /\ servers[i].client = c
            /\ servers[i].start = None
        BY EncodedServerListSound
    <2>2. DisclosureSound'
        BY <1>3, <2>1 DEF Embed, Record, DisclosureSound
    <2>3. QED
        BY <1>0, <1>3, <2>2 DEF Embed
<1>4. ASSUME NEW u \in Updaters, NEW b \in Batch, UpdateOpen(u, b)
      PROVE  DisclosureInv'
    <2>1. SameRows(ApplyUpdates(servers, b), servers)
        BY ApplyUpdatesSameRows DEF TypeOK
    <2>2. QED
        BY <1>0, <1>4, <2>1 DEF UpdateOpen, DisclosureSound, TypeOK
<1>5. ASSUME NEW u \in Updaters, UpdateSave(u) PROVE DisclosureInv'
    <2>1. SameRows(servers', servers)
        BY <1>5 DEF UpdateSave
    <2>2. \A i \in DOMAIN servers :
            /\ servers'[i].client = servers[i].client
            /\ servers'[i].start = servers[i].start
            /\ servers'[i].end = servers[i].end
        BY <2>1 DEF SameRows, Identity
    <2>3. DisclosureSound'
        BY <1>5, <2>1, <2>2 DEF UpdateSave, DisclosureSound, SameRows, InWindow
    <2>4. Len(servers') = Len(servers)
        BY <1>0, <2>1, LenProperties DEF SameRows, TypeOK
    <2>5. ASSUME NEW w \in Updaters, upd'[w].pc = "open"
          PROVE  SameRows(upd'[w].table, servers')
        <3>1. w # u /\ upd'[w] = upd[w]
            BY <1>5, <2>5 DEF UpdateSave, TypeOK
        <3>2. SameRows(upd[w].table, servers)
            BY <2>5, <3>1
        <3>3. SameRows(servers, servers')
            BY <2>1 DEF SameRows
        <3>4. QED
            BY <3>1, <3>2, <3>3, SameRowsTrans
    <2>6. QED
        BY <1>0, <2>3, <2>4, <2>5
<1>6. ASSUME NEW r \in InitRows, AdminAddServer(r) PROVE DisclosureInv'
    <2>1. Updaters = {}
        BY <1>6, BoundsAssumption DEF AdminAddServer
    <2>2. \A i \in DOMAIN servers : i \in DOMAIN servers' /\ servers'[i] = servers[i]
        BY <1>6, AppendProperties DEF AdminAddServer, TypeOK
    <2>3. DisclosureSound'
        BY <1>6, <2>2 DEF AdminAddServer, DisclosureSound
    <2>4. Len(servers') = Len(servers) + 1
        BY <1>6, AppendProperties DEF AdminAddServer, TypeOK
    <2>5. NRows <= Len(servers') /\ Len(servers') <= MaxRows
        <3>1. Len(servers) \in Nat
            BY LenProperties DEF TypeOK
        <3>2. QED
            BY <1>6, <2>4, <3>1, BoundsAssumption DEF AdminAddServer
    <2>6. \A w \in Updaters : upd'[w].pc = "open" => SameRows(upd'[w].table, servers')
        BY <2>1
    <2>7. QED
        BY <1>0, <2>3, <2>5, <2>6
<1>7. CASE UNCHANGED vars
    BY <1>0, <1>7 DEF vars, DisclosureSound
<1>8. QED
    BY <1>1, <1>2, <1>3, <1>4, <1>5, <1>6, <1>7 DEF Next

(* Need-to-know holds for every value of the constants, as long as the     *)
(* sheet is not both appended to and rewritten by update_servers: no       *)
(* update_servers caller runs, or administrators add no rows.  Concerns    *)
(* the filters of get_encoded_server_list and update_data saving a copy    *)
(* of the sheet: the violation run MCPsiDbLostRows shows the hypothesis is *)
(* needed.                                                                 *)
THEOREM DisclosureSoundness ==
    ASSUME Updaters = {} \/ MaxRows = NRows
    PROVE  Spec => []DisclosureSound
<1>1. Init => DisclosureInv
    BY DisclosureInvInit
<1>2. DisclosureInv /\ [Next]_vars => DisclosureInv'
    BY DisclosureInvStep
<1>3. DisclosureInv => DisclosureSound
    BY DEF DisclosureInv
<1>4. QED
    BY <1>1, <1>2, <1>3, PTL DEF Spec

=============================================================================
