SPECIFICATION Spec
CONSTANTS
    NoWallet = NoWallet
    Wallets = {w1, w2}
    Requests = {r1, r2}
    NonceLifetime = 1
    RtLifetime = 1
    JwtHash <- MCJwtHash
    Faulty = FALSE
    MaxTime = 1
    MaxNonces = 2
    MaxSessions = 3
INVARIANTS SessionLineage StoredPairReachesClient
CHECK_DEADLOCK FALSE
SYMMETRY Symmetry
