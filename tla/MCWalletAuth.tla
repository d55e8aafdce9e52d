---------------------------- MODULE MCWalletAuth ----------------------------
(* TLC instances of WalletAuth.                                             *)
EXTENDS WalletAuth, TLC

\* String.hashCode of the JWT string: the same for the same second, and free
\* to collide between wallets.
MCJwtHash(jwt) == jwt.stamp

\* Neither wallets nor request slots are told apart by the specification.
Symmetry == Permutations(Wallets) \cup Permutations(Requests)
=============================================================================
