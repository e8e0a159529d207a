-------------------------------- MODULE PsiDb --------------------------------
(***************************************************************************)
(* The directory as the running system sees it: the master Servers sheet  *)
(* read on every call, the web server's handshake handler                  *)
(* (src/Server/psiphonv_web.py calling psi_db.handshake), the embed call   *)
(* that builds a client's bundled server list, and update_servers calls,   *)
(* each of which opens the sheet, builds a modified copy and later saves   *)
(* it over the file.  Administrators edit the sheet out of band; the one   *)
(* edit modelled is appending a server row.                                *)
(*                                                                         *)
(* The discovery date of a handshake is the default argument              *)
(* discovery_date=datetime.datetime.now() of get_encoded_server_list,      *)
(* which Python evaluates once, when the web server process imports        *)
(* psi_db: procDate.  `log` is history only: every server list handed out, *)
(* with the date it was computed for.    *)
(***************************************************************************)
EXTENDS PsiDiscovery

CONSTANTS
    Updaters,       \* concurrent update_servers callers
    InitRows,       \* rows an administrator may put in the sheet
    NRows,          \* rows of the sheet at start
    MaxRows,        \* bound on administrator appends
    MaxBatch,       \* bound on the updates of one update_data call
    ClientVersions, \* client_version request values
    MaxLog          \* bound on distinct recorded disclosures (history only)

ASSUME InitRowsAssumption == InitRows \subseteq Row
ASSUME BoundsAssumption ==
    /\ NRows \in Nat /\ MaxRows \in Nat /\ NRows <= MaxRows
    /\ MaxBatch \in Nat \ {0} /\ MaxLog \in Nat
ASSUME ClientVersionsAssumption == ClientVersions \subseteq Nat \cup {NotANumber}

VARIABLES
    servers,    \* the Servers sheet of psi_db.xls
    now,        \* the wall clock
    procDate,   \* discovery_date bound when the web server imported psi_db
    upd,        \* per update_servers caller: the copy it is about to save
    status,     \* HTTP status of the last handshake response
    log         \* history: every server list handed out

vars == <<servers, now, procDate, upd, status, log>>

Batch == UNION {[1..n -> [key: 1..(MaxRows + 1), secret: Secrets]] : n \in 1..MaxBatch}

(* No update_data call in progress.                                        *)
NoBatch == << >>

UpdState == [pc: {"idle", "open"}, table: Seq(Row), batch: Batch \cup {NoBatch},
             failed: BOOLEAN]

LogEntry == [client: Clients, ip: Ips \cup {None}, date: Time \cup {None},
             n: Nat, servers: SUBSET Nat]

TypeOK ==
    /\ servers \in Seq(Row)
    /\ now \in Time
    /\ procDate \in Time
    /\ upd \in [Updaters -> UpdState]
    /\ status \in {200, 404, 500}
    /\ log \in SUBSET LogEntry

Init ==
    /\ servers \in [1..NRows -> InitRows]
    /\ now = 0
    /\ procDate = now
    /\ upd = [u \in Updaters |-> [pc |-> "idle", table |-> << >>, batch |-> NoBatch,
                                   failed |-> FALSE]]
    /\ status = 404
    /\ log = {}

(* History is bounded: a disclosure not yet recorded needs room.           *)
Record(e) ==
    /\ e \in log \/ Cardinality(log) < MaxLog
    /\ log' = log \cup {e}

(***************************************************************************)
(* Time passes.                                                            *)
(***************************************************************************)
Tick ==
    /\ now < MaxTime
    /\ now' = now + 1
    /\ UNCHANGED <<servers, procDate, upd, status, log>>

(* Mutant: the default argument written discovery_date=None.              *)
StartWebServerNoDate ==
    /\ procDate' = None
    /\ UNCHANGED <<servers, now, upd, status, log>>

(* The web server process starts (or restarts) and imports psi_db: the    *)
(* default discovery_date of get_encoded_server_list is evaluated now.     *)
StartWebServer ==
    /\ procDate' = now
    /\ UNCHANGED <<servers, now, upd, status, log>>

(* psiphonv_web.handshake: a request whose server_secret is wrong or whose *)
(* parameters are missing gets 404 without reaching psi_db; otherwise      *)
(* psi_db.handshake reads the sheet and answers for the import-time date.  *)
Handshake(ip, c, s, v, secretOk) ==
    LET r == IF secretOk THEN HandshakeResponse(servers, ip, c, s, v, procDate)
                         ELSE NoBody(404)
        e == [client |-> c, ip |-> ip, date |-> procDate,
              n |-> Cardinality(DiscoveryCandidates(servers, c, procDate)),
              servers |-> EncodedServerList(servers, c, ip, procDate)]
    IN  /\ status' = r.status
        /\ IF r.status = 200 THEN Record(e) ELSE UNCHANGED log
        /\ UNCHANGED <<servers, now, procDate, upd>>

(* embed(client_id): the embedded server list bundled into a client build. *)
Embed(c) ==
    LET S == EncodedServerList(servers, c, None, None)
    IN  /\ Record([client |-> c, ip |-> None, date |-> None,
                   n |-> Cardinality(S), servers |-> S])
        /\ UNCHANGED <<servers, now, procDate, upd, status>>

(* Mutant: a key that matches no row is skipped instead of raising.       *)
UpdateOpenNoKeyCheck(u, batch) ==
    /\ upd[u].pc = "idle"
    /\ upd' = [upd EXCEPT ![u] = [pc |-> "open", table |-> ApplyUpdates(servers, batch),
                                  batch |-> batch, failed |-> FALSE]]
    /\ UNCHANGED <<servers, now, procDate, status, log>>

(* update_data, first part: open the workbook, copy it and write the new   *)
(* values into the copy.  A key that matches no row raises ValueError and  *)
(* the call ends with nothing saved.                                       *)
UpdateOpen(u, batch) ==
    /\ upd[u].pc = "idle"
    /\ upd' = [upd EXCEPT ![u] =
                 IF KeysFound(servers, batch)
                 THEN [pc |-> "open", table |-> ApplyUpdates(servers, batch),
                       batch |-> batch, failed |-> FALSE]
                 ELSE [pc |-> "idle", table |-> << >>, batch |-> NoBatch, failed |-> TRUE]]
    /\ UNCHANGED <<servers, now, procDate, status, log>>

(* update_data, second part: xls.save(spreadsheet_path) writes the copy    *)
(* over the file, whatever the file holds by then.                         *)
UpdateSave(u) ==
    /\ upd[u].pc = "open"
    /\ servers' = upd[u].table
    /\ upd' = [upd EXCEPT ![u] = [pc |-> "idle", table |-> << >>, batch |-> NoBatch,
                                  failed |-> FALSE]]
    /\ UNCHANGED <<now, procDate, status, log>>

(* An administrator adds a server row to the sheet (out of band).          *)
AdminAddServer(r) ==
    /\ Len(servers) < MaxRows
    /\ servers' = Append(servers, r)
    /\ UNCHANGED <<now, procDate, upd, status, log>>

Next ==
    \/ Tick
    \/ StartWebServer
    \/ \E ip \in Ips, c \in Clients, s \in Sponsors, v \in ClientVersions,
          ok \in BOOLEAN : Handshake(ip, c, s, v, ok)
    \/ \E c \in Clients : Embed(c)
    \/ \E u \in Updaters, b \in Batch : UpdateOpen(u, b)
    \/ \E u \in Updaters : UpdateSave(u)
    \/ \E r \in InitRows : AdminAddServer(r)

Spec == Init /\ [][Next]_vars

-----------------------------------------------------------------------------
(***************************************************************************)
(* Properties.                                                             *)
(***************************************************************************)

(* Need-to-know, over the whole history: every server a client was ever    *)
(* given is still a row of the sheet assigned to that client, an embedded  *)
(* one when it came from embed() and one whose discovery window held the   *)
(* handshake's discovery date otherwise.  Concerns the filters of          *)
(* get_encoded_server_list together with update_data saving stale copies.  *)
DisclosureSound ==
    \A e \in log :
        \A i \in e.servers :
            /\ i \in DOMAIN servers
            /\ servers[i].client = e.client
            /\ e.ip = None => servers[i].start = None
            /\ e.ip # None => InWindow(servers[i], e.date)

(***************************************************************************)
(* The inductive invariant behind DisclosureSound (PsiDbProofs).  The copy *)
(* an update_servers caller holds has the rows of the sheet, differing at  *)
(* most in secrets, and the sheet only grows from NRows to MaxRows.        *)
(***************************************************************************)
SameRows(t, tbl) ==
    /\ DOMAIN t = DOMAIN tbl
    /\ \A i \in DOMAIN tbl : Identity(t[i]) = Identity(tbl[i])

DisclosureInv ==
    /\ TypeOK
    /\ DisclosureSound
    /\ NRows <= Len(servers) /\ Len(servers) <= MaxRows
    /\ \A u \in Updaters : upd[u].pc = "open" => SameRows(upd[u].table, servers)

(* Spec section 8, bucketing: for one client and one discovery date, with  *)
(* n candidates, a handshake gives exactly one server (none when n = 0),   *)
(* and two addresses get the same server iff they agree modulo n.  Over    *)
(* the history, so across updates, restarts and repeated requests.         *)
DiscoveryBuckets ==
    \A e1, e2 \in log :
        /\ e1.ip # None =>
               Cardinality(e1.servers) = IF e1.n = 0 THEN 0 ELSE 1
        /\ (/\ e1.ip # None /\ e2.ip # None /\ e1.client = e2.client
            /\ e1.date = e2.date /\ e1.n = e2.n /\ e1.n > 0)
           => ((e1.servers = e2.servers) <=> (e1.ip % e1.n = e2.ip % e2.n))

(***************************************************************************)
(* The inductive invariant behind DiscoveryBuckets (PsiDbBucketProofs).    *)
(* A handshake's entry was computed over the candidates among the first k  *)
(* rows of the sheet, k its length then: rows are only appended, and an    *)
(* update changes secrets only, so those are still the candidates among    *)
(* the first k rows of the sheet now.                                      *)
(***************************************************************************)
CandidatesUpTo(tbl, c, d, k) == {i \in DiscoveryCandidates(tbl, c, d) : i <= k}

(* Entry e, with its address, was bucketed over the candidates among the  *)
(* first k rows of tbl, for some k.                                       *)
Bucketed(e, tbl) ==
    \E k \in 0..Len(tbl) :
        LET S == CandidatesUpTo(tbl, e.client, e.date, k)
        IN  /\ e.n = Cardinality(S)
            /\ e.servers = IF S = {} THEN {}
                           ELSE {i \in S : Rank(S, i) = Bucket(e.ip, e.n)}

BucketInv == \A e \in log : e.ip # None => Bucketed(e, servers)

(***************************************************************************)
(* The refinement mapping to the atomic update of spec section 4.1: the    *)
(* sheet is the Servers sheet, and a caller's call is in progress from the *)
(* successful open to the save.  A failed open raises before anything is   *)
(* saved and is a stutter of the abstract sheet.                           *)
(***************************************************************************)
pendingOf == [u \in Updaters |-> IF upd[u].pc = "open" THEN upd[u].batch ELSE NoBatch]

Directory == INSTANCE AtomicDirectory
    WITH sheet <- servers, pending <- pendingOf, Batches <- Batch

(* Spec section 4.1: update_data behaves as an all-or-nothing update of    *)
(* the sheet as it is when the update takes effect: the rows of the file   *)
(* after the save are the rows before it with the call's updates applied,  *)
(* and a call with a key that matches no row changes nothing.  Concerns    *)
(* the ValueError raised half-way through a batch and the copy opened      *)
(* before, and saved after, other writers' steps.                          *)
AtomicUpdate == Directory!Spec

(* The inductive invariant behind AtomicUpdate (PsiDbRefinement), for one  *)
(* update_servers caller and no appends: the copy an open caller holds is  *)
(* the sheet with the caller's batch applied, every key of it found.       *)
UpdateInv ==
    /\ TypeOK
    /\ Len(servers) = NRows
    /\ \A u \in Updaters : upd[u].pc = "open" =>
          /\ upd[u].batch \in Batch
          /\ KeysFound(servers, upd[u].batch)
          /\ upd[u].table = ApplyUpdates(servers, upd[u].batch)

(* Spec section 4.2: discovery discloses only a server whose window is     *)
(* open at the instant of the request (start <= now < end): no step hands  *)
(* out a server whose window does not hold the current time.  Concerns the *)
(* default argument discovery_date=datetime.datetime.now().                *)
DisclosedWindowOpenAtRequest ==
    [][\A e \in log' \ log :
          e.ip # None => \A i \in e.servers : InWindow(servers[i], now)
      ]_log

=============================================================================
