SPECIFICATION Spec
CONSTANTS
    t1 = t1
    t2 = t2
    Blank = Blank
    Super = Super
    Requests = {r1, r2}
    Tokens = {Blank, Super, t1}
    Hash <- MCHash
    Types = {Captcha, Huawei}
    UnknownType = UnknownType
    TwoChecks = {Huawei}
    ServicePassed = FALSE
    ComponentPassed = {}
    SuperEnabled = TRUE
    Ttl = 1
    ExpDelta = 1
    MaxTime = 2
    MaxCalls = 2
CHECK_DEADLOCK FALSE
PROPERTY ReplayRefused

