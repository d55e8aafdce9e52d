SPECIFICATION Spec
CONSTANTS
    Lookups = {u1}
    Checks = {c1, c2}
    Lifetime = 4
    Ttl = 2
    MaxDelay = 1
    MaxTime = 6
    MaxFails = 1
INVARIANTS TypeOK TakenIsAccepted AlwaysServed
PROPERTIES OneRenewalPerLifetime RefreshGoesOn EveryCallerServed
CHECK_DEADLOCK FALSE
