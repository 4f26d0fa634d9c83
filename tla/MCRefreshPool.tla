---------------------------- MODULE MCRefreshPool ----------------------------
(* Model checking of RefreshPool: fleets above, at and below the pool size. *)
EXTENDS RefreshPool
=============================================================================
