----------------------------- MODULE MCInventory -----------------------------
(***************************************************************************)
(* Inventory for TLC.  Orders, transfers and SKUs are interchangeable:     *)
(* every configuration treats all its SKUs alike.                          *)
(***************************************************************************)
EXTENDS Inventory, TLC

CONSTANT OpeningQuantity   \* the opening stock of every SKU

OpeningEverywhere == [s \in Skus |-> OpeningQuantity]

Symmetry == Permutations(Orders) \cup Permutations(Transfers) \cup Permutations(Skus)

=============================================================================
