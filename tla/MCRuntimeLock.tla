---------------------------- MODULE MCRuntimeLock ----------------------------
(* Model checking of RuntimeLock: three containers, two of them on one host. *)
EXTENDS RuntimeLock

CONSTANTS a, b, c

ThreeOnTwoHosts == [i \in {a, b, c} |-> IF i = c THEN "host2" ELSE "host1"]
=============================================================================
