---------------------------- MODULE MCAuditReads ----------------------------
(***************************************************************************)
(* Instances of AuditReads for TLC, with the prompts of MCAuditLifecycle.  *)
(***************************************************************************)
EXTENDS AuditReads

MCTag == [p \in Prompts |-> CASE p = 1 -> "access" [] p = 2 -> "math" [] OTHER -> "reviewer"]
=============================================================================
