------------------------------ MODULE PaymentsMC ------------------------------
(***************************************************************************)
(* Instances of Payments: one order, which may get a card payment and one  *)
(* that a manager records.                                                 *)
(***************************************************************************)
EXTENDS Payments, TLC

MCOrderOf == [m \in Payment |-> CHOOSE o \in Order : TRUE]

MCSymmetry == Permutations(Client)
=============================================================================
