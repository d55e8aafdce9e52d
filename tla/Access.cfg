SPECIFICATION Spec
CONSTANTS
    p = p
    q = q
    A = A
    B = B
    alice = alice
    bob = bob
    BadToken = BadToken
    ErrorPath = ErrorPath
    Paths = {p, q, ErrorPath}
    Methods = {"GET", "POST", "OPTIONS"}
    Authorities = {A, B}
    Clients = {alice, bob}
    AuthoritiesOf <- MCAuthoritiesOf
    Configs <- MCConfigs
    Inputs <- MCInputs
    NoToken = NoToken
    Malformed = Malformed
    NoClient = NoClient
    Sent = Sent
INVARIANTS TypeOK ForwardedIsEntitled ForwardedIdentity
PROPERTY FollowsPolicy
CHECK_DEADLOCK FALSE
