SPECIFICATION FairPlaneSpec
CONSTANTS
    ws = ws
    known = known
    minted = minted
    alice = alice
    bob = bob
    loop = loop
    w1 = w1
    w2 = w2
    NoName = NoName
    NoEmail = NoEmail
    NoRow = NoRow
    NoEntry = NoEntry
    Free = Free
    Service = Service
    EventLoop = loop
    Caller <- MCCaller
    Worker = {w1, w2}
    Workspace = {ws}
    Vid = {known, minted}
    Home <- MCHome
    Identity <- MCIdentity
    Email = {alice, bob}
    SignIn = {alice, bob}
    Name <- MCName
    NameOf <- MCNameOf
    Actor <- MCActor
    Clip = {c1, c2}
    CONSENT_AUTOCONFIRM = FALSE
    Traffic <- AllTraffic
INVARIANTS
    ReceiptSound
    RestoreIsLedgered
    SubjectSetsFlags
    OwnerFirst
    NoThirdPartyNames
PROPERTIES
    UsesTheStore
    ReceiptProtocol
    OptOutHonoured
    RequestsFinish
    ReceiptsArrive
