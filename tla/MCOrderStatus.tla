---------------------------- MODULE MCOrderStatus ----------------------------
(***************************************************************************)
(* OrderStatus for TLC: orders, and staff members, are interchangeable.    *)
(***************************************************************************)
EXTENDS OrderStatus, TLC

Symmetry == Permutations(Staff) \cup Permutations(Orders)

=============================================================================
