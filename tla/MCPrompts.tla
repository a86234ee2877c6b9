----------------------------- MODULE MCPrompts -----------------------------
(***************************************************************************)
(* Instances of Prompts for TLC: two prompts of one tag or of two, each    *)
(* active or not, are there when the calls begin.                          *)
(***************************************************************************)
EXTENDS Prompts, TLC

MCFirst  == [1 .. 2 -> [tag : Tags, content : {Old}, active : BOOLEAN]]
Symmetry == Permutations(Calls)
=============================================================================
