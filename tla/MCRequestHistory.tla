-------------------------- MODULE MCRequestHistory --------------------------
(* TLC instance of RequestHistory: the filter that saves a request first (as *)
(* by default), behind the one that adds the client, and behind the security *)
(* filter.                                                                   *)
EXTENDS RequestHistory

MCRqOrders == {-1, 15, 30}
=============================================================================
