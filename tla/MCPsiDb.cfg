CONSTANTS
    None = None
    NotANumber = NotANumber
    Clients = {c1, c2}
    Hosts = {h1}
    Secrets = {"s0", "s1"}
    MaxTime = 2
    Sponsors = {"sp1"}
    Regions = {"CA", "US"}
    Ips <- MCIps
    RegionOf <- MCRegionOf
    HomePages <- MCHomePages
    Versions <- MCVersions
    Updaters = {u1}
    InitRows <- MCInitRows
    NRows = 2
    MaxRows = 2
    MaxBatch = 1
    ClientVersions = {1}
    MaxLog = 2
SYMMETRY MCSymmetry
INIT Init
NEXT Next
INVARIANTS
    TypeOK
    DisclosureSound
    DiscoveryBuckets
PROPERTIES
    AtomicUpdate
