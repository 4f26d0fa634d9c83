------------------------------ MODULE MCVault -------------------------------
(* Model checking of Vault: two concurrent requests, two keys.              *)
EXTENDS Vault, TLC

\* Requests are interchangeable, and so are the two keys.
VaultSymmetry == Permutations(Requests) \cup Permutations(Keys)

\* Bound: what follows once keys are mixed, or a reference is lost to a race, is
\* not explored.
Unharmed == ~mishap /\ raced = {}
=============================================================================
