----------------------------- MODULE MCInventory -----------------------------
(* Model checking of Inventory: two devices, two writers, a few operations. *)
EXTENDS Inventory, TLC

\* Writers and devices are interchangeable: only numbers are compared.
InventorySymmetry == Permutations(Writers) \cup Permutations(Devices)
=============================================================================
