------------------------- MODULE MCTokenValidation --------------------------
(* TLC instances of TokenValidation.                                        *)
EXTENDS TokenValidation

CONSTANTS t1, t2

\* t1 has the hash code of the super user token.  (Beyond that, two texts with
\* one hash are to the checker what one text sent twice is.)
MCHash(t) == CASE t = Blank -> 0 [] t = t2 -> 2 [] OTHER -> 1
=============================================================================
