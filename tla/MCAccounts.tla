----------------------------- MODULE MCAccounts -----------------------------
(***************************************************************************)
(* An instance of Accounts for TLC: one user exists, whose address and     *)
(* another one are asked for.                                              *)
(***************************************************************************)
EXTENDS Accounts, TLC

MCHome == [u \in Known |-> "home"]

Symmetry == Permutations(Calls)
=============================================================================
