SPECIFICATION FairSpec
CONSTANTS
    NoWallet = NoWallet
    Wallets = {w1}
    Requests = {r1, r2}
    NonceLifetime = 1
    RtLifetime = 1
    JwtHash <- MCJwtHash
    Faulty = TRUE
    MaxTime = 2
    MaxNonces = 2
    MaxSessions = 3
INVARIANTS TypeOK NonceSingleUse
PROPERTIES RetiredRtRefused ImplementsLedger EveryRequestAnswered
CHECK_DEADLOCK FALSE
