-------------------------- MODULE MCGatewayPayment --------------------------
(***************************************************************************)
(* GatewayPayment for TLC.  Online attempts are interchangeable, and so    *)
(* are callback requests and staff; the liveness run uses no symmetry.     *)
(***************************************************************************)
EXTENDS GatewayPayment, TLC

Symmetry == Permutations(Attempts \ CodAttempts) \cup Permutations(Callbacks)

=============================================================================
