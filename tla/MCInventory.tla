----------------------------- MODULE MCInventory -----------------------------
(***************************************************************************)
(* Instances of Inventory for TLC.                                         *)
(***************************************************************************)
EXTENDS Inventory, TLC

CONSTANTS p1, p2, ghost, r1, r2, r3, r4

\* One product seeded with three units, one with a single unit.
TwoProducts == (p1 :> 3) @@ (p2 :> 1)
OneProduct == p1 :> 3

=============================================================================
