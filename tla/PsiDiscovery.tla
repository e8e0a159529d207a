---------------------------- MODULE PsiDiscovery ----------------------------
(***************************************************************************)
(* The pure functions of src/Data/psi_db.py that answer a client:         *)
(* get_encoded_server_list (the discovery bucketer), get_region,          *)
(* get_sponsor_home_pages, get_upgrade and handshake (the encoder).  A    *)
(* list the code builds in table order is modelled as the set of row      *)
(* numbers it holds: the order of the lines is layout, and the one place  *)
(* where order decides something, the bucket index, is modelled by rank.  *)
(***************************************************************************)
EXTENDS PsiDirectory

CONSTANTS
    Sponsors,   \* Sponsor_ID values
    Regions,    \* country codes returned by GeoIP
    Ips,        \* client addresses, as struct.unpack('!L', inet_aton(ip))
    RegionOf,   \* get_region: the GeoIP answer for an address (None: unknown)
    HomePages,  \* the Home_Pages sheet
    Versions,   \* the Versions sheet, Client_Version as integers
    NotANumber  \* a client_version string that int() rejects

\* 32-bit unsigned values; TLC cannot hold 2^32 - 1, so only Nat is checked.
ASSUME IpsAssumption == Ips \subseteq Nat
ASSUME RegionOfAssumption == RegionOf \in [Ips -> Regions \cup {None}]
ASSUME HomePagesAssumption ==
    HomePages \in Seq([sponsor: Sponsors, region: Regions \cup {None}])
ASSUME VersionsAssumption == Versions \in Seq(Nat)
ASSUME NotANumberAssumption == NotANumber \notin Nat \cup {None}

(***************************************************************************)
(* Discovery bucketer.                                                     *)
(***************************************************************************)

(* Mutant: the Discovery_Time_Start test dropped.                          *)
EmbeddedServersAnyStart(tbl, c) ==
    {i \in DOMAIN tbl : tbl[i].client = c}

(* Embedded case: the servers of the client with no Discovery_Time_Start   *)
(* (`not server.Discovery_Time_Start`).                                    *)
EmbeddedServers(tbl, c) ==
    {i \in DOMAIN tbl : tbl[i].client = c /\ tbl[i].start = None}

(* Both bounds set and Discovery_Time_Start <= d < Discovery_Time_End.    *)
InWindow(r, d) ==
    /\ r.start # None
    /\ r.end # None
    /\ r.start <= d
    /\ d < r.end

(* Mutant: the Discovery_Client_ID test dropped.                           *)
DiscoveryCandidatesAnyClient(tbl, c, d) ==
    {i \in DOMAIN tbl : InWindow(tbl[i], d)}

DiscoveryCandidates(tbl, c, d) ==
    {i \in DOMAIN tbl : tbl[i].client = c /\ InWindow(tbl[i], d)}

(* Mutant: position counted 1-based.                                       *)
RankInclusive(S, i) == Cardinality({j \in S : j <= i})

(* The 0-based position of row i in the filtered list `servers`.           *)
Rank(S, i) == Cardinality({j \in S : j < i})

(* Mutant: bucket from the quotient instead of the remainder.              *)
BucketByQuotient(ip, n) == (ip \div n) % n

Bucket(ip, n) == ip % n

(* Mutant: every candidate disclosed, `servers = [servers[bucket]]` lost.  *)
EncodedServerListUnbucketed(tbl, c, ip, d) ==
    IF ip = None THEN EmbeddedServers(tbl, c) ELSE DiscoveryCandidates(tbl, c, d)

(* get_encoded_server_list(client_id, client_ip_address, discovery_date):  *)
(* ip = None is the embedded case; otherwise the one server in the         *)
(* address's bucket, or nothing when bucket_count is 0.                    *)
EncodedServerList(tbl, c, ip, d) ==
    IF ip = None THEN EmbeddedServers(tbl, c)
    ELSE LET S == DiscoveryCandidates(tbl, c, d)
         IN  IF S = {} THEN {}
             ELSE {i \in S : Rank(S, i) = Bucket(ip, Cardinality(S))}

(* hexlify('%s %s %s %s' % (IP_Address, Web_Server_Port, Web_Server_Secret,*)
(* Web_Server_Certificate)): the fields are free of spaces, so the entry   *)
(* determines the server (its row) and the secret it was given with.      *)
Encode(tbl, i) == [server |-> i, secret |-> tbl[i].secret]

(***************************************************************************)
(* Handshake encoder.                                                      *)
(***************************************************************************)

GetRegion(ip) == RegionOf[ip]

(* get_sponsor_home_pages: the sponsor's pages for the region, or when     *)
(* there are none its pages whose Region cell is empty.                    *)
SponsorHomePages(s, region) ==
    LET match(rg) == {k \in DOMAIN HomePages :
                        HomePages[k].sponsor = s /\ HomePages[k].region = rg}
    IN  IF match(region) # {} THEN match(region) ELSE match(None)

(* get_upgrade raises IndexError on an empty Versions sheet and ValueError *)
(* when int(client_version) fails.                                         *)
UpgradeRaises(v) == Len(Versions) = 0 \/ v = NotANumber

GetUpgrade(v) ==
    LET last == Versions[Len(Versions)]
    IN  IF last > v THEN last ELSE None

(* A handshake response: the HTTP status, and for 200 the Homepage,        *)
(* Upgrade and Server lines.  Status 404 is psiphonv_web rejecting a       *)
(* request, 500 an exception escaping psi_db.handshake.                    *)
Response == [status: {200, 404, 500}, homepages: SUBSET Nat,
             upgrade: Nat \cup {None}, servers: SUBSET [server: Nat, secret: Secrets]]

NoBody(status) ==
    [status |-> status, homepages |-> {}, upgrade |-> None, servers |-> {}]

(* psi_db.handshake(client_ip_address, client_id, sponsor_id,              *)
(* client_version) as run with discovery date d.                           *)
HandshakeResponse(tbl, ip, c, s, v, d) ==
    IF UpgradeRaises(v) THEN NoBody(500)
    ELSE [status    |-> 200,
          homepages |-> SponsorHomePages(s, GetRegion(ip)),
          upgrade   |-> GetUpgrade(v),
          servers   |-> {Encode(tbl, i) : i \in EncodedServerList(tbl, c, ip, d)}]

=============================================================================
