---------------------------- MODULE PsiDirectory ----------------------------
(***************************************************************************)
(* The directory of src/Data/psi_db.py: the Servers sheet as a sequence   *)
(* of rows, and update_data, the only operation of the module that writes *)
(* it.  A row keeps the columns that the discovery and export logic read  *)
(* (Host_ID, Discovery_Client_ID, Discovery_Time_Start/End) and the one   *)
(* column update_servers is used to rewrite (Web_Server_Secret).  The     *)
(* address, port and certificate of a server never change and are         *)
(* represented by the server's row number, which is also its Server_ID.   *)
(* An empty cell is read back by read_data as None.                       *)
(***************************************************************************)
EXTENDS Naturals, FiniteSets, Sequences

CONSTANTS
    Clients,    \* Client_ID values
    Hosts,      \* Host_ID values
    Secrets,    \* Web_Server_Secret values
    MaxTime,    \* last instant of the model's clock (dates are 0..MaxTime)
    None        \* what read_data returns for an empty cell

ASSUME NoneAssumption == None \notin Clients \cup Hosts \cup Secrets \cup Nat
ASSUME MaxTimeAssumption == MaxTime \in Nat

Time == 0..MaxTime

(* A row of the Servers sheet as read_data returns it.                     *)
Row == [host: Hosts, client: Clients \cup {None},
        start: Time \cup {None}, end: Time \cup {None}, secret: Secrets]

(* The data invariant of spec section 3: both bounds set or neither, and  *)
(* start < end.  Nothing in the code enforces it.                         *)
WellFormedRow(r) ==
    /\ (r.start = None) <=> (r.end = None)
    /\ r.start # None => r.start < r.end

(***************************************************************************)
(* update_data(SERVERS_SHEET_NAME, update_values): each update names a     *)
(* row by its Server_ID (the key column) and a new Web_Server_Secret.      *)
(* The key is looked up with list.index in the sheet as it was opened;     *)
(* a key that matches no row raises ValueError before xls.save, so no      *)
(* update of the call reaches the file.  When two updates of one call      *)
(* target the same row, the later write wins.                              *)
(***************************************************************************)
Update == [key: Nat, secret: Secrets]

KeysFound(tbl, batch) ==
    \A k \in DOMAIN batch : batch[k].key \in DOMAIN tbl

(* The last update of the batch that targets row i.                        *)
LastUpdateOf(batch, i) ==
    CHOOSE k \in DOMAIN batch :
        /\ batch[k].key = i
        /\ \A j \in DOMAIN batch : batch[j].key = i => j <= k

(* The copy of the sheet that xls.save writes when every key was found.    *)
ApplyUpdates(tbl, batch) ==
    [i \in DOMAIN tbl |->
        IF \E k \in DOMAIN batch : batch[k].key = i
        THEN [tbl[i] EXCEPT !.secret = batch[LastUpdateOf(batch, i)].secret]
        ELSE tbl[i]]

(* The columns of a row that update_servers never writes.                  *)
Identity(r) == <<r.host, r.client, r.start, r.end>>

=============================================================================
