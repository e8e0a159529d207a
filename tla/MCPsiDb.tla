------------------------------- MODULE MCPsiDb -------------------------------
(* A small instance of PsiDb for TLC: addresses 127.0.0.1-127.0.0.3, two   *)
(* clients, windows over three days, three server rows.                    *)
EXTENDS PsiDb, TLC

MCIps == {2130706433, 2130706434, 2130706435}

MCRegionOf == [ip \in MCIps |->
                 IF ip = 2130706433 THEN "CA"
                 ELSE IF ip = 2130706434 THEN "US" ELSE None]

MCHomePages == <<[sponsor |-> "sp1", region |-> "CA"],
                 [sponsor |-> "sp1", region |-> None],
                 [sponsor |-> "sp1", region |-> "CA"]>>

MCVersions == <<1, 2>>

(* Rows of the given clients: embedded or with a well-formed window.       *)
MCRows(cs) ==
    {r \in [host: Hosts, client: cs, start: Time \cup {None},
            end: Time \cup {None}, secret: {"s0"}] : WellFormedRow(r)}

MCInitRows == MCRows(Clients)

(* The row numbers of the sheet, filtered in order, as the list            *)
(* comprehensions of get_encoded_server_list build them.                   *)
RefFilter(t, Test(_)) == SelectSeq([i \in 1..Len(t) |-> i], Test)

(* Reference: get_encoded_server_list written the way the code is, with    *)
(* servers[bucket] indexing the filtered list.                             *)
RefServerList(t, c, ip, d) ==
    IF ip = None
    THEN LET L == RefFilter(t, LAMBDA i : t[i].client = c /\ t[i].start = None)
         IN  {L[k] : k \in 1..Len(L)}
    ELSE LET L == RefFilter(t, LAMBDA i : t[i].client = c /\ InWindow(t[i], d))
         IN  IF Len(L) = 0 THEN {} ELSE {L[(ip % Len(L)) + 1]}

(* The rank-based bucketer of PsiDiscovery returns, on every sheet the     *)
(* system reaches, for every client, address (or none: the embedded case)  *)
(* and date, exactly the servers the list-indexing code of                 *)
(* get_encoded_server_list returns.                                        *)
BucketMatchesListIndex ==
    \A c \in Clients, ip \in Ips \cup {None}, d \in Time :
        EncodedServerList(servers, c, ip, d) = RefServerList(servers, c, ip, d)

MCSymmetry == Permutations(Clients)
=============================================================================
