------------------------------ MODULE CheckoutMC ------------------------------
(***************************************************************************)
(* Checkout for TLC: requests and variants are interchangeable.            *)
(***************************************************************************)
EXTENDS Checkout, TLC

MCSymmetry == Permutations(Request) \cup Permutations(Variant) \cup Permutations(Body)
=============================================================================
