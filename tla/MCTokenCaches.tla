--------------------------- MODULE MCTokenCaches ----------------------------
(* TLC instance of TokenCaches: a lifetime whose half is the shortest that a  *)
(* delay of one tick allows, and time for a token to expire and be renewed.   *)
EXTENDS TokenCaches
=============================================================================
