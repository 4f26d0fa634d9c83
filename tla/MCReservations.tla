--------------------------- MODULE MCReservations ---------------------------
(* Model checking of Reservations: one device and three operations.  *)
EXTENDS Reservations, TLC

\* Operations are interchangeable, and so are devices: nothing in the
\* specification compares two of them.  The run checks safety only.
Interchangeable == Permutations(Ops) \cup Permutations(Devices)
=============================================================================
