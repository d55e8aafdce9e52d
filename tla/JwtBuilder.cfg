SPECIFICATION Spec
CONSTANTS
    NoWallet = NoWallet
    Wallets = {w1, w2, w3}
    Calls = {c1, c2}
INVARIANTS TypeOK ClaimsFromOverlappingCalls SetClaimsAreRecent
SYMMETRY Symmetry
