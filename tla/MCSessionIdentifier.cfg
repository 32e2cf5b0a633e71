SPECIFICATION Spec
CONSTANTS
    meeting = meeting
    a = a
    b = b
    v1 = v1
    v2 = v2
    Session = {meeting}
    Speaker = {a, b}
    Vid = {v1, v2}
    Name = {alice}
    alice = alice
    none = none
    None = none
    Initially <- Named
    Unknown = Unknown
    LOCK_MIN_VOTES = 2
    MAX_EXEMPLARS = 2
    Rejection = {"UNKNOWN"}
    MaxSpans = 4
    MaxChanges = 1
SYMMETRY Alike
INVARIANTS
    TranscriptFollowsLock
    LockHasMajority
    LedgerMatchesLocks
    MintIsGated
CHECK_DEADLOCK FALSE
