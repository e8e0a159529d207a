--------------------------- MODULE PsiDbBucketProofs ---------------------------
(***************************************************************************)
(* Proof of DiscoveryBuckets for every value of the constants: the        *)
(* bucketer of get_encoded_server_list hands a client exactly one of its  *)
(* n candidates, and the bucket of an address is ip % n.  The argument    *)
(* has two parts: the 0-based position Rank(S, _) is a bijection from a   *)
(* finite set of rows S onto 0..Cardinality(S)-1 (so each bucket holds    *)
(* one row), and BucketInv (PsiDb) ties every recorded entry to the       *)
(* candidates among a prefix of the sheet as it is now.                   *)
(***************************************************************************)
EXTENDS PsiDbProofs

-----------------------------------------------------------------------------
(* The position of a row is below the number of candidates.               *)
LEMMA RankType ==
    ASSUME NEW S \in SUBSET Nat, IsFiniteSet(S), NEW i \in S
    PROVE  Rank(S, i) \in 0..(Cardinality(S) - 1)
<1> DEFINE Below == {j \in S : j < i}
<1>1. IsFiniteSet(S \ {i}) /\ Cardinality(S \ {i}) = Cardinality(S) - 1
    BY FS_RemoveElement
<1>2. Below \subseteq S \ {i}
    OBVIOUS
<1>3. IsFiniteSet(Below) /\ Cardinality(Below) <= Cardinality(S) - 1
    BY <1>1, <1>2, FS_Subset
<1>4. Cardinality(Below) \in Nat
    BY <1>3, FS_CardinalityType
<1>5. QED
    BY <1>3, <1>4 DEF Rank

(* A row before another has a smaller position: Rank is strictly monotone. *)
LEMMA RankStrict ==
    ASSUME NEW S \in SUBSET Nat, IsFiniteSet(S), NEW i \in S, NEW j \in S, i < j
    PROVE  Rank(S, i) < Rank(S, j)
<1> DEFINE Bi == {k \in S : k < i}
           Bj == {k \in S : k < j}
<1>1. IsFiniteSet(Bj)
    BY FS_Subset
<1>2. IsFiniteSet(Bj \ {i}) /\ Cardinality(Bj \ {i}) = Cardinality(Bj) - 1
    <2>1. i \in Bj
        OBVIOUS
    <2>2. QED
        BY <1>1, <2>1, FS_RemoveElement
<1>3. Bi \subseteq Bj \ {i}
    <2> SUFFICES ASSUME NEW k \in Bi PROVE k \in Bj /\ k # i
        OBVIOUS
    <2>1. k \in Nat /\ i \in Nat /\ j \in Nat /\ k < i
        OBVIOUS
    <2>2. QED
        BY <2>1, SMT
<1>4. Cardinality(Bi) <= Cardinality(Bj) - 1
    BY <1>2, <1>3, FS_Subset
<1>5. Cardinality(Bi) \in Nat /\ Cardinality(Bj) \in Nat
    BY <1>1, <1>2, <1>3, FS_Subset, FS_CardinalityType
<1>6. QED
    BY <1>4, <1>5 DEF Rank

(* Every bucket 0..n-1 of n candidates holds exactly one row: the         *)
(* position is an injection of S into 0..n-1, hence onto it.              *)
LEMMA RankBucket ==
    ASSUME NEW S \in SUBSET Nat, IsFiniteSet(S),
           NEW b \in 0..(Cardinality(S) - 1)
    PROVE  \E i \in S : {j \in S : Rank(S, j) = b} = {i}
<1> DEFINE n == Cardinality(S)
           f == [i \in S |-> Rank(S, i)]
<1>1. n \in Nat
    BY FS_CardinalityType
<1>2. f \in [S -> 0..(n - 1)]
    BY RankType
<1>3. \A a, c \in S : f[a] = f[c] => a = c
    <2> SUFFICES ASSUME NEW a \in S, NEW c \in S, a # c PROVE f[a] # f[c]
        OBVIOUS
    <2>0. f[a] \in Nat /\ f[c] \in Nat /\ a \in Nat /\ c \in Nat
        BY <1>1, <1>2
    <2>1. CASE a < c
        BY <2>0, <2>1, RankStrict
    <2>2. CASE c < a
        BY <2>0, <2>2, RankStrict
    <2>3. QED
        BY <2>0, <2>1, <2>2
<1>4. f \in Injection(S, 0..(n - 1))
    BY <1>2, <1>3 DEF Injection, IsInjective
<1>5. IsFiniteSet(0..(n - 1)) /\ Cardinality(0..(n - 1)) = n
    BY <1>1, FS_Interval
<1>6. f \in Surjection(S, 0..(n - 1))
    BY <1>4, <1>5, FS_Injection
<1>7. PICK i \in S : f[i] = b
    BY <1>6 DEF Surjection
<1>8. {j \in S : Rank(S, j) = b} = {i}
    BY <1>3, <1>7
<1>9. QED
    BY <1>8

-----------------------------------------------------------------------------
(* The candidates among the first k rows are a finite set of row numbers.  *)
LEMMA CandidatesFinite ==
    ASSUME NEW tbl \in Seq(Row), NEW c, NEW d, NEW k
    PROVE  /\ CandidatesUpTo(tbl, c, d, k) \subseteq Nat
           /\ IsFiniteSet(CandidatesUpTo(tbl, c, d, k))
<1>1. CandidatesUpTo(tbl, c, d, k) \subseteq 1..Len(tbl)
    BY DEF CandidatesUpTo, DiscoveryCandidates
<1>2. IsFiniteSet(1..Len(tbl))
    BY FS_Interval
<1>3. QED
    BY <1>1, <1>2, FS_Subset

(* A handshake's entry, computed over the whole sheet, is bucketed over    *)
(* the candidates among its first Len(tbl) rows, which are all of them.   *)
LEMMA BucketedNew ==
    ASSUME NEW tbl \in Seq(Row), NEW c, NEW ip \in Ips, NEW d
    PROVE  Bucketed([client |-> c, ip |-> ip, date |-> d,
                     n |-> Cardinality(DiscoveryCandidates(tbl, c, d)),
                     servers |-> EncodedServerList(tbl, c, ip, d)], tbl)
<1>1. ip # None
    BY NoneAssumption, IpsAssumption
<1>2. CandidatesUpTo(tbl, c, d, Len(tbl)) = DiscoveryCandidates(tbl, c, d)
    BY DEF CandidatesUpTo, DiscoveryCandidates
<1>3. Len(tbl) \in 0..Len(tbl)
    BY LenProperties
<1>4. QED
    BY <1>1, <1>2, <1>3 DEF Bucketed, EncodedServerList

(* An entry stays bucketed when the sheet keeps the identity of its first  *)
(* rows and only grows: an update_servers save or an appended row.         *)
LEMMA BucketedKept ==
    ASSUME NEW tbl \in Seq(Row), NEW tbl2 \in Seq(Row), Len(tbl) <= Len(tbl2),
           \A i \in 1..Len(tbl) : Identity(tbl2[i]) = Identity(tbl[i]),
           NEW e, Bucketed(e, tbl)
    PROVE  Bucketed(e, tbl2)
<1>1. PICK k \in 0..Len(tbl) :
          LET S == CandidatesUpTo(tbl, e.client, e.date, k)
          IN  /\ e.n = Cardinality(S)
              /\ e.servers = IF S = {} THEN {}
                             ELSE {i \in S : Rank(S, i) = Bucket(e.ip, e.n)}
    BY DEF Bucketed
<1>2. \A i \in 1..Len(tbl) : /\ tbl2[i].client = tbl[i].client
                             /\ tbl2[i].start = tbl[i].start
                             /\ tbl2[i].end = tbl[i].end
    BY DEF Identity
<1>3. CandidatesUpTo(tbl2, e.client, e.date, k) = CandidatesUpTo(tbl, e.client, e.date, k)
    <2>1. \A i : (i \in DOMAIN tbl2 /\ i <= k) <=> (i \in DOMAIN tbl /\ i <= k)
        BY LenProperties
    <2>2. QED
        BY <2>1, <1>2, LenProperties DEF CandidatesUpTo, DiscoveryCandidates, InWindow
<1>4. k \in 0..Len(tbl2)
    BY LenProperties
<1>5. QED
    BY <1>1, <1>3, <1>4 DEF Bucketed

(* A bucketed entry holds one server, or none when there is no candidate. *)
LEMMA EntryCount ==
    ASSUME NEW tbl \in Seq(Row), NEW e, e.ip \in Nat, Bucketed(e, tbl)
    PROVE  Cardinality(e.servers) = IF e.n = 0 THEN 0 ELSE 1
<1>1. PICK k \in 0..Len(tbl) :
          LET S == CandidatesUpTo(tbl, e.client, e.date, k)
          IN  /\ e.n = Cardinality(S)
              /\ e.servers = IF S = {} THEN {}
                             ELSE {i \in S : Rank(S, i) = Bucket(e.ip, e.n)}
    BY DEF Bucketed
<1> DEFINE S == CandidatesUpTo(tbl, e.client, e.date, k)
<1>2. S \subseteq Nat /\ IsFiniteSet(S)
    BY CandidatesFinite
<1>3. CASE S = {}
    BY <1>1, <1>3, FS_EmptySet
<1>4. CASE S # {}
    <2>1. e.n \in Nat /\ e.n # 0
        BY <1>1, <1>2, <1>4, FS_EmptySet, FS_CardinalityType
    <2>2. Bucket(e.ip, e.n) \in 0..(Cardinality(S) - 1)
        BY <1>1, <2>1 DEF Bucket
    <2>3. PICK i \in S : {j \in S : Rank(S, j) = Bucket(e.ip, e.n)} = {i}
        BY <1>2, <2>2, RankBucket
    <2>4. e.servers = {i}
        BY <1>1, <1>4, <2>3
    <2>5. QED
        BY <2>1, <2>4, FS_Singleton
<1>5. QED
    BY <1>3, <1>4

(* Two bucketed entries of one client, date and candidate count were      *)
(* bucketed over the same candidates, so they name the same server iff    *)
(* their addresses agree modulo the count.                                *)
LEMMA EntriesAgree ==
    ASSUME NEW tbl \in Seq(Row), NEW e1, NEW e2, e1.ip \in Nat, e2.ip \in Nat,
           Bucketed(e1, tbl), Bucketed(e2, tbl),
           e1.client = e2.client, e1.date = e2.date, e1.n = e2.n, e1.n > 0
    PROVE  (e1.servers = e2.servers) <=> (e1.ip % e1.n = e2.ip % e2.n)
<1>1. PICK k1 \in 0..Len(tbl) :
          LET S == CandidatesUpTo(tbl, e1.client, e1.date, k1)
          IN  /\ e1.n = Cardinality(S)
              /\ e1.servers = IF S = {} THEN {}
                              ELSE {i \in S : Rank(S, i) = Bucket(e1.ip, e1.n)}
    BY DEF Bucketed
<1>2. PICK k2 \in 0..Len(tbl) :
          LET S == CandidatesUpTo(tbl, e2.client, e2.date, k2)
          IN  /\ e2.n = Cardinality(S)
              /\ e2.servers = IF S = {} THEN {}
                              ELSE {i \in S : Rank(S, i) = Bucket(e2.ip, e2.n)}
    BY DEF Bucketed
<1> DEFINE S1 == CandidatesUpTo(tbl, e1.client, e1.date, k1)
           S2 == CandidatesUpTo(tbl, e2.client, e2.date, k2)
<1>3. S1 \subseteq Nat /\ IsFiniteSet(S1) /\ S2 \subseteq Nat /\ IsFiniteSet(S2)
    BY CandidatesFinite
<1>4. S1 = S2
    <2> DEFINE C == DiscoveryCandidates(tbl, e1.client, e1.date)
    <2>0. /\ C \subseteq Nat /\ k1 \in Nat /\ k2 \in Nat
          /\ S1 = {i \in C : i <= k1} /\ S2 = {i \in C : i <= k2}
        BY LenProperties DEF CandidatesUpTo, DiscoveryCandidates
    <2>1. Cardinality(S1) = Cardinality(S2)
        BY <1>1, <1>2
    <2>2. CASE k1 <= k2
        <3>1. S1 \subseteq S2
            BY <2>0, <2>2
        <3>2. QED
            BY <1>3, <2>1, <3>1, FS_Subset
    <2>3. CASE k2 <= k1
        <3>1. S2 \subseteq S1
            BY <2>0, <2>3
        <3>2. QED
            BY <1>3, <2>1, <3>1, FS_Subset
    <2>4. QED
        BY <2>0, <2>2, <2>3
<1>5. S1 # {}
    BY <1>1, <1>3, FS_EmptySet
<1> DEFINE b1 == Bucket(e1.ip, e1.n)
           b2 == Bucket(e2.ip, e2.n)
<1>6. /\ e1.servers = {i \in S1 : Rank(S1, i) = b1}
      /\ e2.servers = {i \in S1 : Rank(S1, i) = b2}
    BY <1>1, <1>2, <1>4, <1>5
<1>7. b1 \in 0..(Cardinality(S1) - 1) /\ b2 \in 0..(Cardinality(S1) - 1)
    <2>1. e1.n \in Nat
        BY <1>1, <1>3, FS_CardinalityType
    <2>2. QED
        BY <1>1, <2>1 DEF Bucket
<1>8. b1 # b2 => e1.servers # e2.servers
    <2>1. PICK i \in S1 : {j \in S1 : Rank(S1, j) = b1} = {i}
        BY <1>3, <1>7, RankBucket
    <2>2. QED
        BY <1>6, <2>1
<1>9. QED
    BY <1>6, <1>8 DEF Bucket

-----------------------------------------------------------------------------
LEMMA BucketInvInit == Init => BucketInv
BY DEF Init, BucketInv

(* Every step keeps every recorded entry bucketed over a prefix of the     *)
(* sheet.  A save writes a copy with the sheet's rows (DisclosureInv), an  *)
(* append keeps the rows before it, and a handshake records an entry over  *)
(* the whole sheet.                                                        *)
LEMMA BucketInvStep ==
    ASSUME Updaters = {} \/ MaxRows = NRows
    PROVE  DisclosureInv /\ BucketInv /\ [Next]_vars => BucketInv'
<1> SUFFICES ASSUME DisclosureInv, BucketInv, [Next]_vars PROVE BucketInv'
    OBVIOUS
<1>0. TypeOK /\ TypeOK'
    BY TypeStep DEF DisclosureInv
<1>1. CASE UNCHANGED <<servers, log>>
    BY <1>1 DEF BucketInv
<1>2. ASSUME NEW ip \in Ips, NEW c \in Clients, NEW s \in Sponsors,
             NEW v \in ClientVersions, NEW ok \in BOOLEAN,
             Handshake(ip, c, s, v, ok)
      PROVE  BucketInv'
    <2> DEFINE e == [client |-> c, ip |-> ip, date |-> procDate,
                     n |-> Cardinality(DiscoveryCandidates(servers, c, procDate)),
                     servers |-> EncodedServerList(servers, c, ip, procDate)]
    <2>1. log' \subseteq log \cup {e} /\ servers' = servers
        BY <1>2 DEF Handshake, Record
    <2>2. Bucketed(e, servers)
        BY <1>0, BucketedNew DEF TypeOK
    <2>3. QED
        BY <2>1, <2>2 DEF BucketInv
<1>3. ASSUME NEW c \in Clients, Embed(c) PROVE BucketInv'
    <2>1. \A e \in log' \ log : e.ip = None
        BY <1>3 DEF Embed, Record
    <2>2. servers' = servers
        BY <1>3 DEF Embed
    <2>3. QED
        BY <2>1, <2>2 DEF BucketInv
<1>4. ASSUME NEW u \in Updaters, UpdateSave(u) PROVE BucketInv'
    <2>1. SameRows(servers', servers) /\ log' = log
        BY <1>4 DEF UpdateSave, DisclosureInv
    <2>2. Len(servers) <= Len(servers')
        BY <1>0, <2>1, LenProperties DEF SameRows, TypeOK
    <2>3. \A i \in 1..Len(servers) : Identity(servers'[i]) = Identity(servers[i])
        BY <1>0, <2>1, LenProperties DEF SameRows, TypeOK
    <2>4. QED
        BY <1>0, <2>1, <2>2, <2>3, BucketedKept DEF BucketInv, TypeOK
<1>5. ASSUME NEW r \in InitRows, AdminAddServer(r) PROVE BucketInv'
    <2>1. servers' = Append(servers, r) /\ log' = log
        BY <1>5 DEF AdminAddServer
    <2>2. Len(servers) <= Len(servers')
        BY <1>0, <2>1, AppendProperties DEF TypeOK
    <2>3. \A i \in 1..Len(servers) : Identity(servers'[i]) = Identity(servers[i])
        <3>1. \A i \in 1..Len(servers) : servers'[i] = servers[i]
            BY <1>0, <2>1, AppendProperties DEF TypeOK
        <3>2. QED
            BY <3>1
    <2>4. ASSUME NEW e \in log', e.ip # None PROVE Bucketed(e, servers')
        <3>1. Bucketed(e, servers)
            BY <2>1, <2>4 DEF BucketInv
        <3>2. QED
            BY <1>0, <2>2, <2>3, <3>1, BucketedKept DEF TypeOK
    <2>5. QED
        BY <2>4 DEF BucketInv
<1>6. QED
    BY <1>1, <1>2, <1>3, <1>4, <1>5
       DEF Next, vars, Tick, StartWebServer, UpdateOpen

(* Spec section 8, bucketing, for every value of the constants: for one    *)
(* client and date a handshake gives exactly one of the n candidates (none *)
(* when n = 0), and two addresses get the same server iff they agree       *)
(* modulo n, across saves of update_servers, appended rows, restarts and   *)
(* repeated requests.  Concerns get_encoded_server_list's                  *)
(* servers[ip % len(servers)] over the filtered rows.  Hypothesis as for   *)
(* DisclosureSoundness: the sheet is not both appended to and rewritten.   *)
THEOREM DiscoveryBucketsHold ==
    ASSUME Updaters = {} \/ MaxRows = NRows
    PROVE  Spec => []DiscoveryBuckets
<1> DEFINE Inv == DisclosureInv /\ BucketInv
<1>1. Init => Inv
    BY DisclosureInvInit, BucketInvInit
<1>2. Inv /\ [Next]_vars => Inv'
    BY DisclosureInvStep, BucketInvStep
<1>3. Inv => DiscoveryBuckets
    <2> SUFFICES ASSUME Inv, NEW e1 \in log, NEW e2 \in log
                 PROVE  /\ e1.ip # None =>
                             Cardinality(e1.servers) = IF e1.n = 0 THEN 0 ELSE 1
                        /\ (/\ e1.ip # None /\ e2.ip # None /\ e1.client = e2.client
                            /\ e1.date = e2.date /\ e1.n = e2.n /\ e1.n > 0)
                           => ((e1.servers = e2.servers) <=> (e1.ip % e1.n = e2.ip % e2.n))
        BY DEF DiscoveryBuckets
    <2>1. servers \in Seq(Row) /\ e1 \in LogEntry /\ e2 \in LogEntry
        BY DEF DisclosureInv, TypeOK
    <2>2. \A e \in {e1, e2} : e.ip # None => e.ip \in Nat /\ Bucketed(e, servers)
        BY <2>1, IpsAssumption DEF LogEntry, BucketInv
    <2>3. QED
        BY <2>1, <2>2, EntryCount, EntriesAgree
<1>4. QED
    BY <1>1, <1>2, <1>3, PTL DEF Spec

=============================================================================
