SPECIFICATION FairSpec
CONSTANTS
    Req = {r1, r2}
    Process = {p1, p2}
    Seed = {root, boss}
    SeedUsers <- MCUsers
    SeedTokens <- MCTokens
    Email = {eroot, eboss, enew}
    AdminEmail = eboss
    Workload <- MCWorkload
    MaxStarts = 3
    None = None
    root = root
    boss = boss
    eroot = eroot
    eboss = eboss
    enew = enew
    r1 = r1
    r2 = r2
    p1 = p1
    p2 = p2
INVARIANTS
    AccountsInv
    AdmittedWereEntitled
    ConflictOnlyAtFirstStart
PROPERTIES
    PrivilegeByAdminsOnly
    OnlyIntendedEdits
    BootstrapRestoresAdmin
    EveryCallEnds
