---------------------------- MODULE MCContracts ----------------------------
(***************************************************************************)
(* Instances of Contracts for TLC: three networks with one explorer, two   *)
(* mainnets and a testnet, where the code at the one address is a file,    *)
(* files in two pairs of braces, and files; the file and the testnet's     *)
(* files hold the same code.                                               *)
(***************************************************************************)
EXTENDS Contracts, TLC

MCSource == [a \in Addresses |->
    [avax      |-> [form |-> "file",    code |-> "c"],
     mode      |-> [form |-> "wrapped", code |-> "d"],
     avax_fuji |-> [form |-> "sources", code |-> "c"]]]

Of(c, a, n) == [code |-> c, address |-> a, network |-> n]

\* Scans of all mainnets and of the testnet, an upload of the code found on
\* avax, and one that names its address.
MCBodies == {Of(None, "x", Nowhere), Of(None, "x", "avax_fuji"),
             Of("c", None, Nowhere), Of("c", "x", Nowhere)}

Symmetry == Permutations(Requests)
=============================================================================
