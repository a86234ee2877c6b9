-------------------------- MODULE MCAuditLifecycle --------------------------
(***************************************************************************)
(* Instances of AuditLifecycle for TLC. Prompts 1 and 2 are candidates of  *)
(* two tags, and prompt 3 is the reviewer.                                 *)
(***************************************************************************)
EXTENDS AuditLifecycle

MCTag == [p \in Prompts |-> CASE p = 1 -> "access" [] p = 2 -> "math" [] OTHER -> "reviewer"]
=============================================================================
