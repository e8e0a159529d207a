----------------------------- MODULE HostExport -----------------------------
(***************************************************************************)
(* make_file_for_host of src/Data/psi_db.py composed with the store of    *)
(* PsiDb.  One deploy per host at a time; its reads of the sheet are       *)
(* separate: get_clients, get_servers (and the unchanging Home_Pages and  *)
(* Versions sheets) first, then get_discovery_client_ids_for_host, which   *)
(* reads the Servers sheet a second time.  What the step after the second *)
(* read computes is written with wb.save to the file deployed to the host.*)
(* Writers of the sheet (update_servers callers, administrators, the       *)
(* clock) may run between the two reads.                                   *)
(***************************************************************************)
EXTENDS PsiDb

CONSTANT ClientTable    \* Client_ID column of the Clients sheet

ASSUME ClientTableAssumption == ClientTable \subseteq Clients

VARIABLES
    dep,        \* per host: the deploy in progress and its first read
    deployed,   \* per host: the last file written for it
    held,       \* history: every Servers sheet the store held during a deploy
    source      \* history: `held` of the deploy that wrote deployed[h]

hvars == <<dep, deployed, held, source>>

allvars == <<vars, hvars>>

(* A Servers row as make_file_for_host writes it: Host_ID and Notes blank. *)
ExportRow(r) == [r EXCEPT !.host = None]

ExportedRow == [host: {None}, client: Clients \cup {None},
                start: Time \cup {None}, end: Time \cup {None}, secret: Secrets]

(* A written file: its date, its Clients sheet, and its Servers rows keyed *)
(* by the sheet row each was copied from (the file holds them in that      *)
(* order).                                                                 *)
IsExportFile(f) ==
    /\ f = [date |-> f.date, clients |-> f.clients, rows |-> f.rows]
    /\ f.date \in Time /\ f.clients \subseteq Clients
    /\ DOMAIN f.rows \subseteq 1..MaxRows
    /\ f.rows \in [DOMAIN f.rows -> ExportedRow]

DepState == [pc: {"idle", "read", "failed"}, snap: Seq(Row), date: Time]

ExportTypeOK ==
    /\ TypeOK
    /\ dep \in [Hosts -> DepState]
    /\ DOMAIN deployed = Hosts
    /\ \A h \in Hosts : deployed[h] = None \/ IsExportFile(deployed[h])
    /\ held \in [Hosts -> SUBSET Seq(Row)]
    /\ source \in [Hosts -> SUBSET Seq(Row)]

(* get_discovery_client_ids_for_host: the Discovery_Client_ID of every    *)
(* server on the host (None included).  Its discovery_date is unused.     *)
DiscoveryClientIdsForHost(tbl, h) ==
    {tbl[i].client : i \in {j \in DOMAIN tbl : tbl[j].host = h}}

(* Mutant: the test excluding other hosts' embedded servers dropped.       *)
ExportKeepsAnyEmbedded(r, h, disc, d) ==
    /\ r.client \in disc
    /\ ~(r.start # None /\ r.host # h /\ r.end <= d)

(* The condition of the server loop of make_file_for_host.                 *)
ExportKeeps(r, h, disc, d) ==
    /\ r.client \in disc
    /\ ~(r.start # None /\ r.host # h /\ r.end <= d)
    /\ ~(r.start = None /\ r.host # h)

(* `server.Discovery_Time_End <= discovery_date` with End empty raises     *)
(* TypeError (None compared with a datetime) when the tests before it hold.*)
ExportRaises(tbl, h, disc) ==
    \E i \in DOMAIN tbl :
        /\ tbl[i].client \in disc
        /\ tbl[i].start # None /\ tbl[i].host # h
        /\ tbl[i].end = None

(* The server loop: in sheet order, each server the filter keeps is       *)
(* written to the next row of the file.                                    *)
ExportServers(tbl, h, disc, d) ==
    [i \in {j \in DOMAIN tbl : ExportKeeps(tbl[j], h, disc, d)} |-> ExportRow(tbl[i])]

Init2 ==
    /\ Init
    /\ dep = [h \in Hosts |-> [pc |-> "idle", snap |-> <<>>, date |-> 0]]
    /\ deployed = [h \in Hosts |-> None]
    /\ held = [h \in Hosts |-> {}]
    /\ source = [h \in Hosts |-> {}]

(* Mutant: the default argument written discovery_date=None.              *)
DeployReadNoDate(h) ==
    /\ dep[h].pc \in {"idle", "failed"}
    /\ dep' = [dep EXCEPT ![h] = [pc |-> "read", snap |-> servers, date |-> None]]
    /\ held' = [held EXCEPT ![h] = {servers}]
    /\ UNCHANGED <<vars, deployed, source>>

(* make_file_for_host, up to get_versions(): the Servers sheet is read.    *)
(* The deploy tool is started for the deploy, so its import-time default   *)
(* discovery_date is the current time.                                     *)
DeployRead(h) ==
    /\ dep[h].pc \in {"idle", "failed"}
    /\ dep' = [dep EXCEPT ![h] = [pc |-> "read", snap |-> servers, date |-> now]]
    /\ held' = [held EXCEPT ![h] = {servers}]
    /\ UNCHANGED <<vars, deployed, source>>

(* The rest of make_file_for_host: get_discovery_client_ids_for_host reads *)
(* the sheet again, the Clients and Servers sheets are filtered and the    *)
(* workbook is saved; or the server loop raises and nothing is written.    *)
DeployWrite(h) ==
    LET disc == DiscoveryClientIdsForHost(servers, h)
        snap == dep[h].snap
        d    == dep[h].date
    IN  /\ dep[h].pc = "read"
        /\ IF ExportRaises(snap, h, disc)
           THEN /\ dep' = [dep EXCEPT ![h].pc = "failed"]
                /\ UNCHANGED <<deployed, source>>
           ELSE /\ dep' = [dep EXCEPT ![h].pc = "idle"]
                /\ deployed' = [deployed EXCEPT ![h] =
                        [date |-> d, clients |-> ClientTable \cap disc,
                         rows |-> ExportServers(snap, h, disc, d)]]
                /\ source' = [source EXCEPT ![h] = held[h]]
        /\ UNCHANGED <<vars, held>>

(* A step of PsiDb that writes the sheet or moves the clock; every deploy  *)
(* between its two reads sees the new sheet.                               *)
StoreStep ==
    /\ \/ Tick
       \/ \E u \in Updaters, b \in Batch : UpdateOpen(u, b)
       \/ \E u \in Updaters : UpdateSave(u)
       \/ \E r \in InitRows : AdminAddServer(r)
    /\ held' = [h \in Hosts |-> IF dep[h].pc = "read" THEN held[h] \cup {servers'}
                                                      ELSE held[h]]
    /\ UNCHANGED <<dep, deployed, source>>

Next2 ==
    \/ StoreStep
    \/ \E h \in Hosts : DeployRead(h) \/ DeployWrite(h)

Spec2 == Init2 /\ [][Next2]_allvars

-----------------------------------------------------------------------------
(***************************************************************************)
(* Properties.                                                             *)
(***************************************************************************)

(* Spec section 4.4, the servers host h needs as of date d in sheet T: its *)
(* own servers, and the windowed servers of the clients (not the reserved  *)
(* None) it serves whose window has not ended.                            *)
ClientsOfHost(T, h) == {T[i].client : i \in {j \in DOMAIN T : T[j].host = h}} \cap Clients

NeededRows(T, h, d) ==
    {ExportRow(T[i]) : i \in {j \in DOMAIN T :
        \/ T[j].host = h
        \/ /\ T[j].client \in ClientsOfHost(T, h)
           /\ T[j].start # None /\ T[j].end # None /\ d < T[j].end}}

(* Spec sections 4.4 and 5: the file deployed to a host is what that host  *)
(* needs according to one Servers sheet the store held while the deploy    *)
(* that wrote it ran: exactly the servers it needs and the clients it     *)
(* serves.  Concerns the separate sheet reads of make_file_for_host and    *)
(* its filters.                                                            *)
ExportFromOneSnapshot ==
    \A h \in Hosts :
        deployed[h] # None =>
            \E T \in source[h] :
                /\ {deployed[h].rows[k] : k \in DOMAIN deployed[h].rows}
                      = NeededRows(T, h, deployed[h].date)
                /\ deployed[h].clients = ClientsOfHost(T, h) \cap ClientTable

(* What read_data returns for an exported Servers row: the row was written *)
(* from column 0 on while the header starts with Server_ID, so every value *)
(* lands one column to the left of its heading.                            *)
HostView(r) == [client |-> r.start, start |-> r.end, end |-> None]

(* Spec section 6: the exported Servers sheet carries its documented       *)
(* columns, so a host reading it back gets each server's                   *)
(* Discovery_Client_ID and window.  Concerns the ws.write column indices.  *)
HostReadsExportedServers ==
    \A h \in Hosts :
        deployed[h] # None =>
            \A k \in DOMAIN deployed[h].rows :
                LET r == deployed[h].rows[k]
                IN  HostView(r) = [client |-> r.client, start |-> r.start, end |-> r.end]

=============================================================================
