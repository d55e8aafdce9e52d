SPECIFICATION Spec
CONSTANTS
    NoWallet = NoWallet
    Wallets = {w1, w2, w3}
    Calls = {c1, c2}
INVARIANT JwtNamesItsWallet
SYMMETRY Symmetry
