----------------------------- MODULE MCHostExport -----------------------------
(* Small instances of HostExport: two hosts, two clients, three days.      *)
EXTENDS HostExport, TLC

MCIps == {2130706433}

MCRegionOf == [ip \in MCIps |-> None]

MCHomePages == <<>>

MCVersions == <<1>>

(* Rows of the given clients with a well-formed window.                    *)
MCRows(cs) ==
    {r \in [host: Hosts, client: cs, start: Time \cup {None},
            end: Time \cup {None}, secret: {"s0"}] : WellFormedRow(r)}

MCAssignedRows == MCRows(Clients)

(* Reserved servers too: rows whose Discovery_Client_ID is empty.          *)
MCReservedRows == MCRows(Clients \cup {None})

(* Any window, including the malformed ones spec section 7 says to reject  *)
(* at load time: one bound empty.                                          *)
MCAnyWindowRows ==
    {r \in [host: Hosts, client: Clients, start: Time \cup {None},
            end: Time \cup {None}, secret: {"s0"}] :
        r.start # None /\ r.end # None => r.start < r.end}

MCSymmetry == Permutations(Clients) \cup Permutations(Hosts)
=============================================================================
