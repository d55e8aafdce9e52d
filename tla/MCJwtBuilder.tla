---------------------------- MODULE MCJwtBuilder ----------------------------
(* TLC instances of JwtBuilder.                                             *)
EXTENDS JwtBuilder, TLC

Symmetry == Permutations(Wallets) \cup Permutations(Calls)
=============================================================================
