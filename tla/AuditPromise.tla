---------------------------- MODULE AuditPromise ----------------------------
(***************************************************************************)
(* What the service promises about an audit, seen from outside: by a       *)
(* client that polls GET /audit/{id}/status and reads GET /audit/{id}, and *)
(* by the payer. An audit waits, is processed, settles, and may be         *)
(* processed again until it is closed; it is paid for only while its       *)
(* report stands; nothing about it changes once it is closed.              *)
(* AuditLifecycle implements this module: see Promise there.               *)
(***************************************************************************)
EXTENDS Naturals

CONSTANTS Audits, Reports

VARIABLES
    status,    \* AuditStatusEnum, or "NONE" before the audit exists
    result,    \* the stored report, or "none"
    due,       \* a report stands that is still to be paid
    paid,      \* how many times the audit was paid for
    closed     \* no process works, or will work, on the audit

vars == <<status, result, due, paid, closed>>

Init ==
    /\ status = [a \in Audits |-> "NONE"]
    /\ result = [a \in Audits |-> "none"]
    /\ due    = [a \in Audits |-> FALSE]
    /\ paid   = [a \in Audits |-> 0]
    /\ closed = [a \in Audits |-> FALSE]

Open(a) == status[a] # "NONE" /\ ~closed[a]

\* POST /audit answers an id under which the audit is WAITING.
Submit(a) ==
    /\ status[a] = "NONE"
    /\ status' = [status EXCEPT ![a] = "WAITING"]
    /\ UNCHANGED <<result, due, paid, closed>>

\* Processing starts, or starts over.
Begin(a) ==
    /\ Open(a)
    /\ ~due[a]
    /\ status' = [status EXCEPT ![a] = "PROCESSING"]
    /\ UNCHANGED <<result, due, paid, closed>>

Succeed(a) ==
    /\ Open(a)
    /\ status[a] = "PROCESSING"
    /\ status' = [status EXCEPT ![a] = "SUCCESS"]
    /\ \E r \in Reports : result' = [result EXCEPT ![a] = r]
    /\ \E d \in BOOLEAN : due' = [due EXCEPT ![a] = d]
    /\ UNCHANGED <<paid, closed>>

\* A failed audit may keep a report: the one of an earlier run, or one whose
\* own save failed.
Fail(a) ==
    /\ Open(a)
    /\ status[a] = "PROCESSING"
    /\ status' = [status EXCEPT ![a] = "FAILED"]
    /\ \E r \in {result[a]} \cup Reports : result' = [result EXCEPT ![a] = r]
    /\ UNCHANGED <<due, paid, closed>>

\* The payer pays for a report that stands, once.
Pay(a) ==
    /\ Open(a)
    /\ status[a] = "SUCCESS" /\ due[a]
    /\ paid' = [paid EXCEPT ![a] = @ + 1]
    /\ due' = [due EXCEPT ![a] = FALSE]
    /\ UNCHANGED <<status, result, closed>>

\* Faults may make the service forget that some audits are to be paid.
Waive ==
    /\ \E S \in SUBSET Audits :
        due' = [a \in Audits |-> a \notin S /\ due[a]]
    /\ UNCHANGED <<status, result, paid, closed>>

Close(a) ==
    /\ Open(a) /\ ~due[a]
    /\ closed' = [closed EXCEPT ![a] = TRUE]
    /\ UNCHANGED <<status, result, due, paid>>

Next ==
    \/ \E a \in Audits :
        Submit(a) \/ Begin(a) \/ Succeed(a) \/ Fail(a) \/ Pay(a) \/ Close(a)
    \/ Waive

Spec == Init /\ [][Next]_vars
=============================================================================
