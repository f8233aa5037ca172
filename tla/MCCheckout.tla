----------------------------- MODULE MCCheckout -----------------------------
(***************************************************************************)
(* Checkout for TLC: carts, SKUs and requests are interchangeable where no *)
(* constant singles one out.                                               *)
(***************************************************************************)
EXTENDS Checkout, TLC

OneOfEach == [s \in Skus |-> 1]
TwoOfEach == [s \in Skus |-> 2]

Symmetry == Permutations(Requests) \cup Permutations(Skus)
AllSymmetry == Symmetry \cup Permutations(Carts)

=============================================================================
