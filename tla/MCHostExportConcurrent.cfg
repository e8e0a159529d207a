CONSTANTS
    None = None
    NotANumber = NotANumber
    Clients = {c1, c2}
    Hosts = {h1, h2}
    Secrets = {"s0", "s1"}
    MaxTime = 2
    Sponsors = {"sp1"}
    Regions = {"CA"}
    Ips <- MCIps
    RegionOf <- MCRegionOf
    HomePages <- MCHomePages
    Versions <- MCVersions
    Updaters = {}
    InitRows <- MCAssignedRows
    NRows = 1
    MaxRows = 3
    MaxBatch = 1
    ClientVersions = {1}
    MaxLog = 0
    ClientTable = {c1, c2}
SYMMETRY MCSymmetry
INIT Init2
NEXT Next2
INVARIANT ExportFromOneSnapshot
