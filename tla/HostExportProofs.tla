---------------------------- MODULE HostExportProofs ----------------------------
(***************************************************************************)
(* Proofs about the export of make_file_for_host for every value of the    *)
(* constants: the type invariant, and that each file written for a host is *)
(* what the host needs according to one Servers sheet, when no row is      *)
(* appended and every server is assigned to a client.                      *)
(***************************************************************************)
EXTENDS HostExport, PsiDbProofs

(* The rows the server loop writes keep their source row numbers, so they  *)
(* are at most as many as the sheet's rows, and each is a blanked row.     *)
LEMMA ExportServersType ==
    ASSUME NEW tbl \in Seq(Row), Len(tbl) <= MaxRows, NEW h, NEW disc, NEW d
    PROVE  /\ DOMAIN ExportServers(tbl, h, disc, d) \subseteq 1..MaxRows
           /\ ExportServers(tbl, h, disc, d)
                \in [DOMAIN ExportServers(tbl, h, disc, d) -> ExportedRow]
<1>1. \A i \in DOMAIN tbl : tbl[i] \in Row
    BY LenProperties
<1>2. DOMAIN tbl \subseteq 1..MaxRows
    BY LenProperties, BoundsAssumption
<1>3. QED
    BY <1>1, <1>2 DEF ExportServers, ExportRow, ExportedRow, Row

(* Two sheets with the same rows but for secrets give a host the same     *)
(* Discovery_Client_IDs: the second read of get_discovery_client_ids_for_host *)
(* agrees with the first when only update_servers wrote in between.        *)
LEMMA DiscoveryIdsSameRows ==
    ASSUME NEW t, NEW tbl, SameRows(t, tbl), NEW h
    PROVE  DiscoveryClientIdsForHost(t, h) = DiscoveryClientIdsForHost(tbl, h)
BY DEF SameRows, Identity, DiscoveryClientIdsForHost

(* When every server is assigned to a client, the Discovery_Client_IDs of *)
(* a host are the clients it serves.                                       *)
LEMMA DiscoveryIdsAssigned ==
    ASSUME NEW T, NEW h, \A i \in DOMAIN T : T[i].client \in Clients
    PROVE  DiscoveryClientIdsForHost(T, h) = ClientsOfHost(T, h)
BY DEF DiscoveryClientIdsForHost, ClientsOfHost

(* With every server of the sheet assigned to a client and no window left  *)
(* open-ended where the loop would compare it, the filter of the server    *)
(* loop keeps exactly the rows spec section 4.4 says the host needs.       *)
LEMMA ExportFilterExact ==
    ASSUME NEW T \in Seq(Row), NEW h, NEW d \in Nat,
           \A i \in DOMAIN T : T[i].client \in Clients,
           ~ExportRaises(T, h, DiscoveryClientIdsForHost(T, h))
    PROVE  LET E == ExportServers(T, h, DiscoveryClientIdsForHost(T, h), d)
           IN  {E[k] : k \in DOMAIN E} = NeededRows(T, h, d)
<1> DEFINE disc == DiscoveryClientIdsForHost(T, h)
           Needed(i) ==
               \/ T[i].host = h
               \/ /\ T[i].client \in ClientsOfHost(T, h)
                  /\ T[i].start # None /\ T[i].end # None /\ d < T[i].end
<1>1. \A i \in DOMAIN T : T[i] \in Row
    BY LenProperties
<1>2. disc = ClientsOfHost(T, h)
    BY DiscoveryIdsAssigned
<1>3. ASSUME NEW i \in DOMAIN T
      PROVE  ExportKeeps(T[i], h, disc, d) <=> Needed(i)
    <2>1. CASE T[i].host = h
        <3>1. T[i].client \in disc
            BY <2>1 DEF DiscoveryClientIdsForHost
        <3>2. QED
            BY <2>1, <3>1 DEF ExportKeeps
    <2>2. CASE T[i].host # h
        <3>1. T[i].client \in disc /\ T[i].start # None => T[i].end # None
            BY <2>2 DEF ExportRaises
        <3>2. T[i].end # None => T[i].end \in Nat
            BY <1>1, MaxTimeAssumption DEF Row, Time
        <3>3. QED
            BY <1>2, <2>2, <3>1, <3>2 DEF ExportKeeps
    <2>3. QED
        BY <2>1, <2>2
<1>4. {j \in DOMAIN T : ExportKeeps(T[j], h, disc, d)} = {j \in DOMAIN T : Needed(j)}
    BY <1>3
<1>5. QED
    BY <1>4 DEF ExportServers, NeededRows

-----------------------------------------------------------------------------
(* A step of the composed system is a step of the store or leaves the     *)
(* store's variables alone.                                                *)
LEMMA StoreOrDeploy ==
    ASSUME [Next2]_allvars
    PROVE  [Next]_vars
<1>1. CASE StoreStep
    BY <1>1 DEF StoreStep, Next
<1>2. ASSUME NEW h \in Hosts, DeployRead(h) \/ DeployWrite(h) PROVE UNCHANGED vars
    BY <1>2 DEF DeployRead, DeployWrite
<1>3. CASE UNCHANGED allvars
    BY <1>3 DEF allvars
<1>4. QED
    BY <1>1, <1>2, <1>3 DEF Next2

-----------------------------------------------------------------------------
(* Every Servers sheet of the store, of a copy in hand and of a deploy's   *)
(* first read has at most MaxRows rows.                                    *)
SheetsBounded ==
    /\ Len(servers) <= MaxRows
    /\ \A u \in Updaters : Len(upd[u].table) <= MaxRows
    /\ \A h \in Hosts : Len(dep[h].snap) <= MaxRows

ExportTypeInv == ExportTypeOK /\ SheetsBounded

(* The initial state is well typed: no deploy has run.                     *)
LEMMA ExportTypeInit == Init2 => ExportTypeInv
<1> SUFFICES ASSUME Init2 PROVE ExportTypeInv
    OBVIOUS
<1>1. TypeOK
    BY TypeInit DEF Init2
<1>2. Len(servers) = NRows
    BY BoundsAssumption DEF Init2, Init
<1>3. QED
    BY <1>1, <1>2, BoundsAssumption, MaxTimeAssumption
       DEF Init2, Init, ExportTypeInv, ExportTypeOK, SheetsBounded, DepState, Time

(* Every step keeps the export state well typed and the sheets bounded.    *)
LEMMA ExportTypeStep == ExportTypeInv /\ [Next2]_allvars => ExportTypeInv'
<1> SUFFICES ASSUME ExportTypeInv, [Next2]_allvars PROVE ExportTypeInv'
    OBVIOUS
<1> USE DEF ExportTypeInv, ExportTypeOK, SheetsBounded
<1>0. TypeOK'
    BY StoreOrDeploy, TypeStep
<1>1. CASE StoreStep
    <2>1. Len(servers') <= MaxRows /\ \A u \in Updaters : Len(upd'[u].table) <= MaxRows
        <3>1. CASE Tick
            BY <3>1 DEF Tick
        <3>2. ASSUME NEW u \in Updaters, NEW b \in Batch, UpdateOpen(u, b)
              PROVE  Len(servers') <= MaxRows /\ \A w \in Updaters : Len(upd'[w].table) <= MaxRows
            <4>1. Len(ApplyUpdates(servers, b)) = Len(servers)
                BY ApplyUpdatesLen, ApplyUpdatesType, LenProperties DEF TypeOK
            <4>2. QED
                BY <3>2, <4>1, BoundsAssumption DEF UpdateOpen, TypeOK
        <3>3. ASSUME NEW u \in Updaters, UpdateSave(u)
              PROVE  Len(servers') <= MaxRows /\ \A w \in Updaters : Len(upd'[w].table) <= MaxRows
            BY <3>3, BoundsAssumption DEF UpdateSave, TypeOK
        <3>4. ASSUME NEW r \in InitRows, AdminAddServer(r)
              PROVE  Len(servers') <= MaxRows /\ \A w \in Updaters : Len(upd'[w].table) <= MaxRows
            BY <3>4, AppendProperties, InitRowsAssumption, BoundsAssumption
               DEF AdminAddServer, TypeOK
        <3>5. QED
            BY <1>1, <3>1, <3>2, <3>3, <3>4 DEF StoreStep
    <2>2. held' \in [Hosts -> SUBSET Seq(Row)]
        BY <1>0, <1>1 DEF StoreStep, TypeOK
    <2>3. QED
        BY <1>0, <1>1, <2>1, <2>2 DEF StoreStep
<1>2. ASSUME NEW h \in Hosts, DeployRead(h) PROVE ExportTypeInv'
    <2>1. [pc |-> "read", snap |-> servers, date |-> now] \in DepState
        BY DEF TypeOK, DepState
    <2>2. dep' \in [Hosts -> DepState] /\ \A g \in Hosts : Len(dep'[g].snap) <= MaxRows
        BY <1>2, <2>1 DEF DeployRead
    <2>3. held' \in [Hosts -> SUBSET Seq(Row)]
        BY <1>2 DEF DeployRead, TypeOK
    <2>4. UNCHANGED <<vars, deployed, source>>
        BY <1>2 DEF DeployRead
    <2>5. QED
        BY <1>0, <2>2, <2>3, <2>4 DEF vars
<1>3. ASSUME NEW h \in Hosts, DeployWrite(h) PROVE ExportTypeInv'
    <2> DEFINE disc == DiscoveryClientIdsForHost(servers, h)
               snap == dep[h].snap
               d    == dep[h].date
               file == [date |-> d, clients |-> ClientTable \cap disc,
                        rows |-> ExportServers(snap, h, disc, d)]
    <2>1. snap \in Seq(Row) /\ Len(snap) <= MaxRows /\ d \in Time
        BY DEF DepState
    <2>2. IsExportFile(file)
        BY <2>1, ExportServersType, ClientTableAssumption DEF IsExportFile
    <2>3. PICK p \in {"idle", "failed"} :
              dep' = [dep EXCEPT ![h] = [pc |-> p, snap |-> snap, date |-> d]]
        <3>1. dep[h] = [pc |-> dep[h].pc, snap |-> snap, date |-> d]
            BY DEF DepState
        <3>2. QED
            BY <1>3, <3>1 DEF DeployWrite
    <2>4. [pc |-> p, snap |-> snap, date |-> d] \in DepState
        BY <2>1 DEF DepState
    <2>5. dep' \in [Hosts -> DepState] /\ \A g \in Hosts : Len(dep'[g].snap) <= MaxRows
        BY <2>1, <2>3, <2>4
    <2>6. /\ DOMAIN deployed' = Hosts
          /\ \A g \in Hosts : deployed'[g] = None \/ IsExportFile(deployed'[g])
        BY <1>3, <2>2 DEF DeployWrite
    <2>7. source' \in [Hosts -> SUBSET Seq(Row)]
        BY <1>3 DEF DeployWrite
    <2>8. UNCHANGED <<vars, held>>
        BY <1>3 DEF DeployWrite
    <2>9. QED
        BY <1>0, <2>5, <2>6, <2>7, <2>8 DEF vars
<1>4. CASE UNCHANGED allvars
    <2>1. UNCHANGED <<vars, dep, deployed, held, source>>
        BY <1>4 DEF allvars, hvars
    <2>2. QED
        BY <1>0, <2>1 DEF vars, IsExportFile
<1>5. QED
    BY <1>1, <1>2, <1>3, <1>4 DEF Next2

(* make_file_for_host keeps the deploy state and the written files well    *)
(* typed, for every value of the constants: each file has a date, a subset *)
(* of the Clients sheet, and at most MaxRows blanked server rows.          *)
THEOREM ExportTypeCorrect == Spec2 => []ExportTypeOK
<1>1. Spec2 => []ExportTypeInv
    BY ExportTypeInit, ExportTypeStep, PTL DEF Spec2
<1>2. QED
    BY <1>1, PTL DEF ExportTypeInv

-----------------------------------------------------------------------------
(* The hypothesis of the export theorem: administrators add no rows, and   *)
(* every server of the sheet is assigned to a client.  MCHostExportConcurrent *)
(* and MCHostExportReserved show that neither half can be dropped.         *)
ExportHypothesis ==
    /\ MaxRows = NRows
    /\ \A r \in InitRows : r.client \in Clients

(* The inductive invariant: the sheet keeps its rows but for secrets, a   *)
(* deploy between its two reads holds a sheet with the current rows, and  *)
(* every file written matches a sheet of its deploy.                       *)
ExportInv ==
    /\ ExportTypeInv
    /\ DisclosureInv
    /\ \A i \in DOMAIN servers : servers[i].client \in Clients
    /\ \A h \in Hosts : dep[h].pc = "read" =>
           /\ dep[h].snap \in held[h]
           /\ SameRows(dep[h].snap, servers)
    /\ ExportFromOneSnapshot

(* The property reads only the written files and the sheets of their      *)
(* deploys: a step that leaves both alone keeps it.                        *)
LEMMA SnapshotKept ==
    ASSUME ExportFromOneSnapshot, deployed' = deployed, source' = source
    PROVE  ExportFromOneSnapshot'
BY Zenon DEF ExportFromOneSnapshot

(* Initially the sheet holds only assigned servers and no file is written. *)
LEMMA ExportInvInit ==
    ASSUME ExportHypothesis
    PROVE  Init2 => ExportInv
<1> SUFFICES ASSUME Init2 PROVE ExportInv
    OBVIOUS
<1>1. ExportTypeInv
    BY ExportTypeInit
<1>2. DisclosureInv
    BY DisclosureInvInit DEF Init2
<1>3. \A i \in DOMAIN servers : servers[i].client \in Clients
    BY DEF Init2, Init, ExportHypothesis
<1>4. QED
    BY <1>1, <1>2, <1>3 DEF Init2, ExportInv, ExportFromOneSnapshot

(* A store step rewrites at most secrets, so a deploy between its reads    *)
(* still holds a sheet with the current rows, and written files stay.      *)
LEMMA ExportInvStoreStep ==
    ASSUME ExportHypothesis, ExportInv, StoreStep
    PROVE  /\ \A i \in DOMAIN servers' : servers'[i].client \in Clients
           /\ \A h \in Hosts : dep'[h].pc = "read" =>
                  /\ dep'[h].snap \in held'[h]
                  /\ SameRows(dep'[h].snap, servers')
           /\ ExportFromOneSnapshot'
<1> USE DEF ExportInv
<1>1. SameRows(servers, servers')
    <2>1. CASE Tick \/ \E u \in Updaters, b \in Batch : UpdateOpen(u, b)
        BY <2>1 DEF Tick, UpdateOpen, SameRows
    <2>2. ASSUME NEW u \in Updaters, UpdateSave(u) PROVE SameRows(servers, servers')
        <3>1. SameRows(upd[u].table, servers)
            BY <2>2 DEF UpdateSave, DisclosureInv
        <3>2. QED
            BY <2>2, <3>1 DEF UpdateSave, SameRows
    <2>3. ASSUME NEW r \in InitRows, AdminAddServer(r) PROVE FALSE
        BY <2>3, BoundsAssumption DEF AdminAddServer, DisclosureInv, ExportHypothesis
    <2>2a. QED
        BY <2>1, <2>2, <2>3 DEF StoreStep
<1>2. \A i \in DOMAIN servers' : servers'[i].client \in Clients
    BY <1>1 DEF SameRows, Identity
<1>3. ASSUME NEW h \in Hosts, dep'[h].pc = "read"
      PROVE  dep'[h].snap \in held'[h] /\ SameRows(dep'[h].snap, servers')
    <2>1. dep' = dep /\ dep[h].pc = "read"
        BY <1>3 DEF StoreStep
    <2>2. dep[h].snap \in held'[h]
        BY <2>1 DEF StoreStep
    <2>3. SameRows(dep[h].snap, servers')
        BY <1>1, <2>1, SameRowsTrans
    <2>4. QED
        BY <2>1, <2>2, <2>3
<1>4. ExportFromOneSnapshot'
    BY SnapshotKept DEF StoreStep
<1>5. QED
    BY <1>2, <1>3, <1>4

(* The second read of a deploy writes, when the loop does not raise, the   *)
(* file the host needs according to the sheet of the first read.           *)
LEMMA ExportInvWriteStep ==
    ASSUME ExportHypothesis, ExportInv, NEW h \in Hosts, DeployWrite(h)
    PROVE  ExportFromOneSnapshot'
<1> USE DEF ExportInv
<1> DEFINE disc == DiscoveryClientIdsForHost(servers, h)
           snap == dep[h].snap
           d    == dep[h].date
<1>1. dep[h].pc = "read" /\ snap \in held[h] /\ SameRows(snap, servers)
    BY DEF DeployWrite
<1>2. snap \in Seq(Row) /\ d \in Nat
    BY MaxTimeAssumption DEF ExportTypeInv, ExportTypeOK, DepState, Time
<1>3. \A i \in DOMAIN snap : snap[i].client \in Clients
    BY <1>1 DEF SameRows, Identity
<1>4. disc = DiscoveryClientIdsForHost(snap, h)
    BY <1>1, DiscoveryIdsSameRows
<1>5. disc = ClientsOfHost(snap, h)
    BY <1>3, <1>4, DiscoveryIdsAssigned
<1>6. CASE ExportRaises(snap, h, disc)
    <2>1. deployed' = deployed /\ source' = source
        BY <1>6 DEF DeployWrite
    <2>2. QED
        BY <2>1, SnapshotKept
<1>7. CASE ~ExportRaises(snap, h, disc)
    <2> DEFINE E == ExportServers(snap, h, disc, d)
    <2>1. deployed' = [deployed EXCEPT ![h] =
                [date |-> d, clients |-> ClientTable \cap disc, rows |-> E]]
          /\ source' = [source EXCEPT ![h] = held[h]]
        BY <1>7 DEF DeployWrite
    <2>2. {E[k] : k \in DOMAIN E} = NeededRows(snap, h, d)
        BY <1>2, <1>3, <1>4, <1>7, ExportFilterExact
    <2>3. ClientTable \cap disc = ClientsOfHost(snap, h) \cap ClientTable
        BY <1>5
    <2>4. DOMAIN deployed = Hosts /\ DOMAIN source = Hosts
        BY DEF ExportTypeInv, ExportTypeOK
    <2>5. \A g \in Hosts \ {h} : deployed'[g] = deployed[g] /\ source'[g] = source[g]
        BY <2>1, <2>4
    <2>6. QED
        BY <1>1, <2>1, <2>2, <2>3, <2>4, <2>5 DEF ExportFromOneSnapshot
<1>8. QED
    BY <1>6, <1>7

(* Every step keeps the inductive invariant of the export.                 *)
LEMMA ExportInvStep ==
    ASSUME ExportHypothesis
    PROVE  ExportInv /\ [Next2]_allvars => ExportInv'
<1> SUFFICES ASSUME ExportInv, [Next2]_allvars PROVE ExportInv'
    OBVIOUS
<1>1. ExportTypeInv'
    BY ExportTypeStep DEF ExportInv
<1>2. DisclosureInv'
    BY StoreOrDeploy, DisclosureInvStep DEF ExportInv, ExportHypothesis
<1>3. CASE StoreStep
    BY <1>1, <1>2, <1>3, ExportInvStoreStep DEF ExportInv
<1>4. ASSUME NEW h \in Hosts, DeployRead(h) PROVE ExportInv'
    <2>1. /\ dep' = [dep EXCEPT ![h] = [pc |-> "read", snap |-> servers, date |-> now]]
          /\ held' = [held EXCEPT ![h] = {servers}]
          /\ UNCHANGED <<vars, deployed, source>>
        BY <1>4 DEF DeployRead
    <2>2. DOMAIN dep = Hosts /\ DOMAIN held = Hosts
        BY DEF ExportInv, ExportTypeInv, ExportTypeOK
    <2>3. ASSUME NEW g \in Hosts, dep'[g].pc = "read"
          PROVE  dep'[g].snap \in held'[g] /\ SameRows(dep'[g].snap, servers')
        <3>1. CASE g = h
            BY <2>1, <2>2, <3>1 DEF SameRows, vars
        <3>2. CASE g # h
            BY <2>1, <2>2, <2>3, <3>2 DEF ExportInv, vars
        <3>3. QED
            BY <3>1, <3>2
    <2>4. \A i \in DOMAIN servers' : servers'[i].client \in Clients
        BY <2>1 DEF ExportInv, vars
    <2>5. ExportFromOneSnapshot'
        BY <2>1, SnapshotKept DEF ExportInv
    <2>6. QED
        BY <1>1, <1>2, <2>3, <2>4, <2>5 DEF ExportInv
<1>5. ASSUME NEW h \in Hosts, DeployWrite(h) PROVE ExportInv'
    <2>1. ExportFromOneSnapshot'
        BY <1>5, ExportInvWriteStep
    <2>2. PICK p \in {"idle", "failed"} : dep' = [dep EXCEPT ![h].pc = p]
        BY <1>5 DEF DeployWrite
    <2>3. UNCHANGED <<vars, held>>
        BY <1>5 DEF DeployWrite
    <2>4. DOMAIN dep = Hosts
        BY DEF ExportInv, ExportTypeInv, ExportTypeOK
    <2>5. ASSUME NEW g \in Hosts, dep'[g].pc = "read"
          PROVE  dep'[g].snap \in held'[g] /\ SameRows(dep'[g].snap, servers')
        <3>1. g # h /\ dep'[g] = dep[g]
            BY <2>2, <2>4, <2>5
        <3>2. QED
            BY <2>3, <2>5, <3>1 DEF ExportInv, vars
    <2>6. \A i \in DOMAIN servers' : servers'[i].client \in Clients
        BY <2>3 DEF ExportInv, vars
    <2>7. QED
        BY <1>1, <1>2, <2>1, <2>5, <2>6 DEF ExportInv
<1>6. CASE UNCHANGED allvars
    <2>1. UNCHANGED <<vars, dep, deployed, held, source>>
        BY <1>6 DEF allvars, hvars
    <2>2. ExportFromOneSnapshot'
        BY <2>1, SnapshotKept DEF ExportInv
    <2>3. QED
        BY <1>1, <1>2, <2>1, <2>2 DEF ExportInv, vars
<1>7. QED
    BY <1>3, <1>4, <1>5, <1>6 DEF Next2

(* Spec sections 4.4 and 5, for every value of the constants: when no row *)
(* is appended and every server is assigned, each file make_file_for_host *)
(* writes is exactly what its host needs according to one sheet the store *)
(* held during that deploy, although the sheet is read twice and secrets  *)
(* may be rewritten in between.  Concerns the separate reads, the client  *)
(* and server filters and the TypeError of an open-ended window.           *)
THEOREM ExportSnapshotSound ==
    ASSUME ExportHypothesis
    PROVE  Spec2 => []ExportFromOneSnapshot
<1>1. Spec2 => []ExportInv
    BY ExportInvInit, ExportInvStep, PTL DEF Spec2
<1>2. QED
    BY <1>1, PTL DEF ExportInv

=============================================================================
