SPECIFICATION FairSpec
CONSTANTS
    t1 = t1
    t2 = t2
    Blank = Blank
    Super = Super
    Requests = {r1, r2}
    Tokens = {Blank, Super, t1, t2}
    Hash <- MCHash
    Types = {Captcha, Huawei, Attestation}
    UnknownType = UnknownType
    TwoChecks = {Huawei}
    ServicePassed = FALSE
    ComponentPassed = {Attestation}
    SuperEnabled = TRUE
    Ttl = 1
    ExpDelta = 1
    MaxTime = 2
    MaxCalls = 2
INVARIANTS TypeOK VerifiedBeforeForward
PROPERTIES RefusedOnlyAfterExpiry OverdueEventuallyCleared EveryRequestDecided
CHECK_DEADLOCK FALSE
