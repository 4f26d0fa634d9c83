----------------------------- MODULE MCControl ------------------------------
(***************************************************************************)
(* Model checking of Control: three concurrent saves and two tokens, or    *)
(* the backup worker beside a save that changes its settings.              *)
(***************************************************************************)
EXTENDS Control, TLC

\* Requests and tokens of the settings are interchangeable.
ControlSymmetry == Permutations(Requests) \cup Permutations(Tokens)

\* Bound: after the clock was set back nothing is claimed of the snapshots.
ClockSteady == "clock" \notin disturbed
\* Bound: the worker is at work only while there is no token and one save at a time.
\* Listener and worker share the settings row and the process, nothing else.
ListenerOrWorker ==
    \/ keep = 0 /\ snaps = {} /\ clock = 0
    \/ /\ row.token = Off /\ envToken = Off
       /\ Cardinality({r \in Requests : req[r].pc # "idle"}) <= 1

Focus == ClockSteady /\ ListenerOrWorker
=============================================================================
