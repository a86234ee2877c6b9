----------------------------- MODULE MCCredits -----------------------------
(***************************************************************************)
(* Instances of Credits for TLC. Payer 1 has the audits of Mine, and       *)
(* credits for exactly one of them: an audit costs 120. Payer 2 has the    *)
(* others, a few credits more, and makes every call.                       *)
(***************************************************************************)
EXTENDS Credits, TLC

CONSTANT Mine

MCPayer  == [a \in Audits |-> IF a \in Mine THEN 1 ELSE 2]
MCCaller == [s \in Syncs |-> 2]
MCTokens == [a \in Audits |-> [input |-> 40000, output |-> 40000]]
MCGrant  == [u \in Payers |-> IF u = 1 THEN 120 ELSE 130]
Symmetry == Permutations(Mine) \cup Permutations(Syncs)
=============================================================================
