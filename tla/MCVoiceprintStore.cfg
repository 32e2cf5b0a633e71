SPECIFICATION BoundedSpec
CONSTANTS
    wsA = wsA
    wsB = wsB
    vpA = vpA
    alice = alice
    NoName = NoName
    NoEmail = NoEmail
    NoRow = NoRow
    NoEntry = NoEntry
    Free = Free
    Caller = {t1, t2}
    Workspace <- MCWorkspace
    Vid <- MCVid
    Home <- MCHome
    Email <- MCEmail
    Name <- MCName
    Actor <- MCEmail
    Clip = {clip}
    MaxTrail = 2
INVARIANTS
    CacheCoherent
    WorkspaceIsolation
SYMMETRY Threads
