--------------------------- MODULE CreditsProofs ---------------------------
(***************************************************************************)
(* Proofs about Credits, for any payers, audits, costs, calls and stops.   *)
(***************************************************************************)
EXTENDS Credits, TLAPS

\* A usage is worth a whole number of parts of a credit.
LEMMA WorthNat == ASSUME NEW usage \in Usages PROVE Worth(usage) \in Nat
BY SMT DEF Usages, Worth, InputCost, OutputCost

(***************************************************************************)
(* What Usage.get_cost charges: no less than the floor, no less than what  *)
(* the tokens are worth, and less than one credit above the larger of the  *)
(* two.                                                                    *)
(***************************************************************************)
THEOREM CostIsTight ==
    ASSUME NEW usage \in Usages
    PROVE  /\ get_cost(usage) \in Nat /\ get_cost(usage) >= FloorCost
           /\ Scale * get_cost(usage) >= Worth(usage)
           /\ \/ get_cost(usage) = FloorCost
              \/ Scale * (get_cost(usage) - 1) < Worth(usage)
<1> DEFINE w == Worth(usage)
           c == (w + 4999) \div 5000
<1>1. w \in Nat
  BY WorthNat
<1> HIDE DEF w
<1>2. c \in Nat /\ 5000 * c >= w /\ 5000 * (c - 1) < w
  BY <1>1, SMT
<1>3. get_cost(usage) = IF c > 100 THEN c ELSE 100
  BY DEF get_cost, w, Scale, FloorCost
<1> HIDE DEF c
<1>4. get_cost(usage) \in Nat /\ get_cost(usage) >= 100 /\ 5000 * get_cost(usage) >= w
  BY <1>1, <1>2, <1>3, SMT
<1>5. get_cost(usage) = 100 \/ 5000 * (get_cost(usage) - 1) < w
  BY <1>2, <1>3
<1> QED
  BY <1>4, <1>5 DEF w, Scale, FloorCost

(***************************************************************************)
(* Adding an answer to a usage never makes the audit cheaper: the usage    *)
(* the coroutines of a run add to is worth at least each part of it.       *)
(***************************************************************************)
THEOREM CostGrows ==
    ASSUME NEW usage \in Usages, NEW answer \in Usages
    PROVE  /\ add(usage, answer) \in Usages
           /\ get_cost(usage) <= get_cost(add(usage, answer))
<1>1. add(usage, answer) \in Usages
  BY DEF add, Usages
<1>2. Worth(add(usage, answer)) = Worth(usage) + Worth(answer)
  BY SMT DEF add, Usages, Worth, InputCost, OutputCost
<1>3. Worth(usage) \in Nat /\ Worth(answer) \in Nat
  BY WorthNat
<1>4. (Worth(usage) + 4999) \div 5000 <= (Worth(usage) + Worth(answer) + 4999) \div 5000
  BY <1>3, SMT
<1>5. get_cost(usage) <= get_cost(add(usage, answer))
  BY <1>2, <1>3, <1>4, SMT DEF get_cost, Scale, FloorCost
<1> QED
  BY <1>1, <1>5

\* Every audit costs something.
LEMMA CostPositive == Cost \in [Audits -> Nat \ {0}]
<1>1. ASSUME NEW a \in Audits PROVE get_cost(Tokens[a]) \in Nat \ {0}
  BY CreditsAssumption, CostIsTight DEF FloorCost
<1> QED
  BY <1>1 DEF Cost

\* A copy of a row, and the cost added to it, are well typed.
LEMMA TypeStep == TypeOK /\ [Next]_vars => TypeOK'
<1> SUFFICES ASSUME TypeOK, [Next]_vars PROVE TypeOK'
  OBVIOUS
<1> USE PayerAssumption, CreditsAssumption, CostPositive
<1> USE DEF TypeOK, row, ledger, jobs, calls, history, Copies
<1>1. ASSUME NEW a \in Audits, Check(a) PROVE TypeOK'
  <2>1. burst' \in [Payers -> Nat]
    <3>1. burst' \in {burst, [burst EXCEPT ![Payer[a]] = 0]}
      BY <1>1 DEF Check
    <3> QED
      BY <3>1
  <2>2. stage' \in [Audits -> Stages]
    BY <1>1 DEF Check, Stages, InFlight
  <2>3. UNCHANGED <<row, ledger, copy, calls, stops, due, paid, overlapped>>
    BY <1>1 DEF Check
  <2> QED
    BY <2>1, <2>2, <2>3
<1>13. ASSUME NEW a \in Audits, Create(a) PROVE TypeOK'
  BY <1>13 DEF Create, Stages, InFlight
<1>2. ASSUME NEW a \in Audits, Start(a) PROVE TypeOK'
  BY <1>2 DEF Start, NoteReader, Row, Stages, InFlight
<1>3. ASSUME NEW a \in Audits, Fail(a) PROVE TypeOK'
  BY <1>3 DEF Fail, Stages
<1>4. ASSUME NEW a \in Audits, Charge(a) PROVE TypeOK'
  BY <1>4 DEF Charge, NewUsed, Stages, InFlight
<1>5. ASSUME NEW a \in Audits, Record(a) PROVE TypeOK'
  BY <1>5 DEF Record, Stages
<1>6. CASE Stop
  BY <1>6 DEF Stop, Struck, Stages, InFlight
<1>7. ASSUME NEW s \in Syncs, ReadRow(s) PROVE TypeOK'
  BY <1>7 DEF ReadRow, NoteReader, Row, CallStages
<1>8. ASSUME NEW s \in Syncs, GetCredits(s) PROVE TypeOK'
  <2>1. quote' \in [Syncs -> Nat]
    BY <1>8 DEF GetCredits, get_user_credits
  <2>2. call' \in [Syncs -> CallStages] /\ UNCHANGED <<row, ledger, jobs, seen, stops, history>>
    BY <1>8 DEF GetCredits, CallStages
  <2> QED
    BY <2>1, <2>2
<1>14. ASSUME NEW s \in Syncs, NoClient(s) PROVE TypeOK'
  BY <1>14 DEF NoClient, CallStages
<1>9. ASSUME NEW s \in Syncs, SaveTotal(s) PROVE TypeOK'
  BY <1>9 DEF SaveTotal, CallStages
<1>10. ASSUME NEW s \in Syncs, RecordSync(s) PROVE TypeOK'
  BY <1>10 DEF RecordSync, CallStages
<1>11. ASSUME NEW s \in Syncs, Drop(s) PROVE TypeOK'
  BY <1>11 DEF Drop, CallStages
<1>12. CASE UNCHANGED vars
  BY <1>12 DEF vars
<1> QED
  BY <1>1, <1>2, <1>3, <1>4, <1>5, <1>6, <1>7, <1>8, <1>9, <1>10, <1>11, <1>12, <1>13, <1>14
     DEF Next

\* The empty ledger and the grants are well typed.
LEMMA TypeInit == Init => TypeOK
BY CreditsAssumption, CostPositive DEF Init, TypeOK, Copies, Stages, InFlight, CallStages

(***************************************************************************)
(* The row and every copy of it stay well typed: no save of a stale copy   *)
(* makes a balance negative.                                               *)
(***************************************************************************)
THEOREM TypeCorrect == Spec => []TypeOK
BY TypeInit, TypeStep, PTL DEF Spec

(***************************************************************************)
(* A job that has not saved the row, or must save it again because a stop  *)
(* struck it after it had, is one whose cost is still to be counted.       *)
(***************************************************************************)
Unpaid ==
    \A a \in Audits :
        stage[a] \in {"none", "refused", "checked", "queued", "running"} => a \notin paid

\* Every step keeps Unpaid: only a stop takes a job back behind its charge.
LEMMA UnpaidStep == TypeOK /\ Unpaid /\ [Next]_vars => Unpaid'
<1> SUFFICES ASSUME TypeOK, Unpaid, [Next]_vars, NEW a \in Audits,
                    stage'[a] \in {"none", "refused", "checked", "queued", "running"}
             PROVE  a \notin paid'
  BY DEF Unpaid
<1> USE DEF TypeOK, Unpaid, row, ledger, jobs, calls, history
<1>1. ASSUME NEW b \in Audits, Check(b) \/ Create(b) \/ Start(b) \/ Fail(b) \/ Record(b)
      PROVE  a \notin paid'
  <2>1. paid' = paid /\ \A c \in Audits : c # b => stage'[c] = stage[c]
    BY <1>1 DEF Check, Create, Start, Fail, Record
  <2>2. a = b => stage[a] \in {"none", "checked", "queued"}
    BY <1>1 DEF Check, Create, Start, Fail, Record
  <2> QED
    BY <2>1, <2>2
<1>2. ASSUME NEW b \in Audits, Charge(b) PROVE a \notin paid'
  <2>1. a # b /\ stage'[a] = stage[a]
    BY <1>2 DEF Charge
  <2> QED
    BY <1>2, <2>1 DEF Charge
<1>3. CASE Stop
  BY <1>3 DEF Stop, Struck
<1>4. ASSUME NEW s \in Syncs,
             ReadRow(s) \/ GetCredits(s) \/ NoClient(s) \/ SaveTotal(s) \/ RecordSync(s) \/ Drop(s)
      PROVE  a \notin paid'
  BY <1>4 DEF ReadRow, GetCredits, NoClient, SaveTotal, RecordSync, Drop
<1>5. CASE UNCHANGED vars
  BY <1>5 DEF vars
<1> QED
  BY <1>1, <1>2, <1>3, <1>4, <1>5 DEF Next

\* No audit is paid for at the start.
LEMMA UnpaidInit == Init => Unpaid
BY DEF Init, Unpaid

\* So every save of a cost is one that is due.
LEMMA ChargeIsDue ==
    ASSUME TypeOK, Unpaid, NEW a \in Audits, Charge(a)
    PROVE  due' = [due EXCEPT ![Payer[a]] = @ + Cost[a]]
<1>1. a \notin paid
  BY DEF Charge, Unpaid
<1> QED
  BY <1>1 DEF Charge

(***************************************************************************)
(* A copy of the row, however old, holds no more than what was due when it *)
(* was read, and what is due only grows.                                   *)
(***************************************************************************)
CopiesBelow ==
    /\ \A u \in Payers : used[u] <= due[u]
    /\ \A a \in Audits : stage[a] = "running" => copy[a].used <= due[Payer[a]]
    /\ \A s \in Syncs : call[s] \in {"read", "quoted"} => seen[s].used <= due[Caller[s]]

\* Every step keeps CopiesBelow: copies are taken from rows below it.
LEMMA CopiesStep == TypeOK /\ Unpaid /\ CopiesBelow /\ [Next]_vars => CopiesBelow'
<1> SUFFICES ASSUME TypeOK, Unpaid, CopiesBelow, [Next]_vars PROVE CopiesBelow'
  OBVIOUS
<1> TypeOK'
  BY TypeStep
<1> USE PayerAssumption, CreditsAssumption, CostPositive
<1> USE DEF TypeOK, CopiesBelow, row, ledger, jobs, calls, history, Copies
<1>1. ASSUME NEW a \in Audits, Check(a) \/ Create(a) \/ Fail(a) \/ Record(a)
      PROVE  CopiesBelow'
  BY <1>1 DEF Check, Create, Fail, Record
<1>2. ASSUME NEW a \in Audits, Start(a) PROVE CopiesBelow'
  BY <1>2 DEF Start, Row
<1>3. ASSUME NEW a \in Audits, Charge(a) PROVE CopiesBelow'
  <2>1. \A u \in Payers : due[u] <= due'[u]
    <3>1. due' = [due EXCEPT ![Payer[a]] = @ + Cost[a]]
      BY <1>3, ChargeIsDue
    <3>2. \A u \in Payers : due[u] \in Nat
      OBVIOUS
    <3>3. Cost[a] \in Nat
      OBVIOUS
    <3> QED
      BY <3>1, <3>2, <3>3
  <2>2. \A u \in Payers : used'[u] <= due'[u]
    <3>1. due' = [due EXCEPT ![Payer[a]] = @ + Cost[a]]
      BY <1>3, ChargeIsDue
    <3>2. used' = [used EXCEPT ![Payer[a]] = copy[a].used + Cost[a]]
      BY <1>3 DEF Charge, NewUsed
    <3>3. copy[a].used <= due[Payer[a]]
      BY <1>3 DEF Charge
    <3>4. \A u \in Payers : due[u] \in Nat /\ used[u] <= due[u]
      OBVIOUS
    <3>5. Cost[a] \in Nat /\ copy[a].used \in Nat /\ Payer[a] \in Payers
      OBVIOUS
    <3> QED
      BY <3>1, <3>2, <3>3, <3>4, <3>5
  <2>3. \A b \in Audits : stage'[b] = "running" => stage[b] = "running"
    BY <1>3 DEF Charge
  <2>4. UNCHANGED <<copy, calls>>
    BY <1>3 DEF Charge
  <2>5. ASSUME NEW b \in Audits, stage'[b] = "running"
        PROVE  copy'[b].used <= due'[Payer[b]]
    <3>1. copy[b].used \in Nat /\ Payer[b] \in Payers /\ copy'[b] = copy[b]
      BY <2>4
    <3>2. copy[b].used <= due[Payer[b]] /\ due[Payer[b]] <= due'[Payer[b]]
      BY <2>1, <2>3, <2>5, <3>1
    <3>3. due[Payer[b]] \in Nat /\ due'[Payer[b]] \in Nat
      BY <3>1
    <3> QED
      BY <3>1, <3>2, <3>3
  <2>6. ASSUME NEW s \in Syncs, call'[s] \in {"read", "quoted"}
        PROVE  seen'[s].used <= due'[Caller[s]]
    <3>1. seen[s].used \in Nat /\ Caller[s] \in Payers /\ UNCHANGED <<seen, call>>
      BY <2>4
    <3>2. seen[s].used <= due[Caller[s]] /\ due[Caller[s]] <= due'[Caller[s]]
      BY <2>1, <2>6, <3>1
    <3>3. due[Caller[s]] \in Nat /\ due'[Caller[s]] \in Nat
      BY <3>1
    <3> QED
      BY <3>1, <3>2, <3>3
  <2> QED
    BY <2>2, <2>5, <2>6
<1>4. CASE Stop
  BY <1>4 DEF Stop, Struck
<1>5. ASSUME NEW s \in Syncs, ReadRow(s) PROVE CopiesBelow'
  BY <1>5 DEF ReadRow, Row
<1>6. ASSUME NEW s \in Syncs, GetCredits(s) \/ NoClient(s) \/ RecordSync(s) \/ Drop(s) PROVE CopiesBelow'
  BY <1>6 DEF GetCredits, NoClient, get_user_credits, RecordSync, Drop
<1>7. ASSUME NEW s \in Syncs, SaveTotal(s) PROVE CopiesBelow'
  BY <1>7 DEF SaveTotal
<1>8. CASE UNCHANGED vars
  BY <1>8 DEF vars
<1> QED
  BY <1>1, <1>2, <1>3, <1>4, <1>5, <1>6, <1>7, <1>8 DEF Next

(***************************************************************************)
(* A stale copy can lose a charge, but used_credits never holds the cost   *)
(* of an audit twice, except once more for every stop that struck its job  *)
(* after the row was saved.                                                *)
(***************************************************************************)
THEOREM ChargedAtMost == Spec => []ChargedOncePerRun
<1>1. Init => CopiesBelow
  BY CreditsAssumption, CostPositive DEF Init, CopiesBelow
<1>2. CopiesBelow => ChargedOncePerRun
  BY DEF CopiesBelow, ChargedOncePerRun
<1> QED
  BY <1>1, <1>2, TypeInit, TypeStep, UnpaidInit, UnpaidStep, CopiesStep, PTL DEF Spec

(***************************************************************************)
(* While no two processes held the row of u at a time, the one that holds  *)
(* it has the row as it is.                                                *)
(***************************************************************************)
Alone(u) ==
    /\ used[u] = due[u]
    /\ \A a, b \in HoldingJobs(u) : a = b
    /\ \A s, t \in HoldingCalls(u) : s = t
    /\ HoldingJobs(u) = {} \/ HoldingCalls(u) = {}
    /\ \A a \in HoldingJobs(u) : copy[a] = Row(u)
    /\ \A s \in HoldingCalls(u) : seen[s] = Row(u)

AloneInv == \A u \in Payers \ overlapped : Alone(u)

\* Every step keeps AloneInv: a copy is as good as the row while no other
\* process holds one.
LEMMA AloneStep == TypeOK /\ Unpaid /\ AloneInv /\ [Next]_vars => AloneInv'
<1> SUFFICES ASSUME TypeOK, Unpaid, AloneInv, [Next]_vars, NEW u \in Payers, u \notin overlapped'
             PROVE  Alone(u)'
  BY DEF AloneInv
<1> USE PayerAssumption, CreditsAssumption, CostPositive
<1> USE DEF TypeOK, row, ledger, jobs, calls, history, Copies, HoldingJobs, HoldingCalls, Row
<1>0. u \notin overlapped => Alone(u)
  BY DEF AloneInv
<1>1. ASSUME NEW a \in Audits, Check(a) \/ Create(a) \/ Fail(a) \/ Record(a)
      PROVE  Alone(u)'
  <2>1. u \notin overlapped /\ UNCHANGED <<row, copy, calls, due>>
    BY <1>1 DEF Check, Create, Fail, Record
  <2>2. HoldingJobs(u)' \subseteq HoldingJobs(u) /\ HoldingCalls(u)' = HoldingCalls(u)
    BY <1>1, <2>1 DEF Check, Create, Fail, Record
  <2> QED
    BY <1>0, <2>1, <2>2 DEF Alone
<1>2. ASSUME NEW a \in Audits, Start(a) PROVE Alone(u)'
  <2>1. u \notin overlapped
    BY <1>2 DEF Start, NoteReader
  <2>2. UNCHANGED <<row, calls, due>>
    BY <1>2 DEF Start
  <2>3. CASE Payer[a] = u
    <3>1. HoldingJobs(u) = {} /\ HoldingCalls(u) = {}
      BY <1>2, <2>3 DEF Start, NoteReader
    <3>2. HoldingJobs(u)' = {a} /\ HoldingCalls(u)' = {}
      BY <1>2, <2>2, <2>3, <3>1 DEF Start
    <3>3. copy'[a] = Row(u)'
      BY <1>2, <2>2, <2>3 DEF Start
    <3> QED
      BY <1>0, <2>1, <2>2, <3>2, <3>3 DEF Alone
  <2>4. CASE Payer[a] # u
    <3>1. /\ HoldingJobs(u)' = HoldingJobs(u) /\ HoldingCalls(u)' = HoldingCalls(u)
          /\ \A b \in HoldingJobs(u) : copy'[b] = copy[b]
      BY <1>2, <2>2, <2>4 DEF Start
    <3> QED
      BY <1>0, <2>1, <2>2, <3>1 DEF Alone
  <2> QED
    BY <2>3, <2>4
<1>3. ASSUME NEW a \in Audits, Charge(a) PROVE Alone(u)'
  <2>1. Alone(u) /\ UNCHANGED <<copy, calls>>
    BY <1>0, <1>3 DEF Charge
  <2>2. HoldingJobs(u)' = HoldingJobs(u) \ {a} /\ HoldingCalls(u)' = HoldingCalls(u)
    BY <1>3 DEF Charge
  <2>3. CASE Payer[a] = u
    <3>1. a \in HoldingJobs(u)
      BY <1>3, <2>3 DEF Charge
    <3>2. HoldingJobs(u)' = {} /\ HoldingCalls(u)' = {}
      BY <2>1, <2>2, <3>1 DEF Alone
    <3>3. copy[a].used = used[u]
      BY <2>1, <3>1 DEF Alone
    <3>4. used'[u] = due'[u]
      <4>1. due' = [due EXCEPT ![Payer[a]] = @ + Cost[a]]
        BY <1>3, ChargeIsDue
      <4>2. used' = [used EXCEPT ![Payer[a]] = copy[a].used + Cost[a]]
        BY <1>3 DEF Charge, NewUsed
      <4>3. used[u] = due[u]
        BY <2>1 DEF Alone
      <4> QED
        BY <2>3, <3>3, <4>1, <4>2, <4>3
    <3> QED
      BY <3>2, <3>4 DEF Alone
  <2>4. CASE Payer[a] # u
    <3>1. used'[u] = used[u] /\ total'[u] = total[u] /\ due'[u] = due[u]
      BY <1>3, <2>4, ChargeIsDue DEF Charge
    <3> QED
      BY <2>1, <2>2, <3>1 DEF Alone
  <2> QED
    BY <2>3, <2>4
<1>4. CASE Stop
  BY <1>0, <1>4 DEF Stop, Struck, Alone
<1>5. ASSUME NEW s \in Syncs, ReadRow(s) PROVE Alone(u)'
  <2>1. u \notin overlapped
    BY <1>5 DEF ReadRow, NoteReader
  <2>2. UNCHANGED <<row, jobs, due>>
    BY <1>5 DEF ReadRow
  <2>3. CASE Caller[s] = u
    <3>1. HoldingJobs(u) = {} /\ HoldingCalls(u) = {}
      BY <1>5, <2>3 DEF ReadRow, NoteReader
    <3>2. HoldingJobs(u)' = {} /\ HoldingCalls(u)' = {s}
      BY <1>5, <2>2, <2>3, <3>1 DEF ReadRow
    <3>3. seen'[s] = Row(u)'
      BY <1>5, <2>2, <2>3 DEF ReadRow
    <3> QED
      BY <1>0, <2>1, <2>2, <3>2, <3>3 DEF Alone
  <2>4. CASE Caller[s] # u
    <3>1. /\ HoldingJobs(u)' = HoldingJobs(u) /\ HoldingCalls(u)' = HoldingCalls(u)
          /\ \A t \in HoldingCalls(u) : seen'[t] = seen[t]
      BY <1>5, <2>2, <2>4 DEF ReadRow
    <3> QED
      BY <1>0, <2>1, <2>2, <3>1 DEF Alone
  <2> QED
    BY <2>3, <2>4
<1>6. ASSUME NEW s \in Syncs, GetCredits(s) \/ NoClient(s) \/ RecordSync(s) \/ Drop(s) PROVE Alone(u)'
  <2>1. Alone(u) /\ UNCHANGED <<row, jobs, seen, due>>
    BY <1>0, <1>6 DEF GetCredits, NoClient, get_user_credits, RecordSync, Drop
  <2>2. HoldingJobs(u)' = HoldingJobs(u)
    BY <2>1
  <2>3. HoldingCalls(u)' \subseteq HoldingCalls(u)
    BY <1>6 DEF GetCredits, NoClient, get_user_credits, RecordSync, Drop
  <2> QED
    BY <2>1, <2>2, <2>3 DEF Alone
<1>7. ASSUME NEW s \in Syncs, SaveTotal(s) PROVE Alone(u)'
  <2>1. Alone(u) /\ UNCHANGED <<jobs, seen, due>>
    BY <1>0, <1>7 DEF SaveTotal
  <2>2. HoldingCalls(u)' = HoldingCalls(u) \ {s} /\ HoldingJobs(u)' = HoldingJobs(u)
    BY <1>7 DEF SaveTotal
  <2>3. CASE Caller[s] = u
    <3>1. s \in HoldingCalls(u)
      BY <1>7, <2>3 DEF SaveTotal
    <3>2. HoldingJobs(u)' = {} /\ HoldingCalls(u)' = {}
      BY <2>1, <2>2, <3>1 DEF Alone
    <3>3. used'[u] = due'[u]
      BY <1>7, <2>1, <2>3, <3>1 DEF SaveTotal, Alone
    <3> QED
      BY <3>2, <3>3 DEF Alone
  <2>4. CASE Caller[s] # u
    <3>1. used'[u] = used[u] /\ total'[u] = total[u]
      BY <1>7, <2>4 DEF SaveTotal
    <3> QED
      BY <2>1, <2>2, <3>1 DEF Alone
  <2> QED
    BY <2>3, <2>4
<1>8. CASE UNCHANGED vars
  BY <1>0, <1>8 DEF vars, Alone
<1> QED
  BY <1>1, <1>2, <1>3, <1>4, <1>5, <1>6, <1>7, <1>8 DEF Next

(***************************************************************************)
(* The balance of a payer is exact as long as no two jobs or calls hold    *)
(* the payer's row at a time.                                              *)
(***************************************************************************)
THEOREM LoneExact == Spec => []LoneWriterIsExact
<1>1. Init => AloneInv
  BY CreditsAssumption, CostPositive, PayerAssumption DEF Init, AloneInv, Alone, HoldingJobs, HoldingCalls
<1>2. AloneInv => LoneWriterIsExact
  BY DEF AloneInv, Alone, LoneWriterIsExact
<1> QED
  BY <1>1, <1>2, TypeInit, TypeStep, UnpaidInit, UnpaidStep, AloneStep, PTL DEF Spec

(***************************************************************************)
(* While no call changes the total of u, the total and every copy of it    *)
(* are the grant; and the row, and every copy a job will save, are below   *)
(* it, but for what was charged since the requests in flight began to be   *)
(* let pass. That restarts at 0 when there are no copies left, and the row *)
(* itself is below the total, since the request passed.                    *)
(***************************************************************************)
Uncalled(u) == \A s \in Syncs : Caller[s] # u

Modest(u) ==
    /\ total[u] = Grant[u]
    /\ used[u] = 0 \/ used[u] < Grant[u] + burst[u]
    /\ \A a \in Audits : Payer[a] = u /\ stage[a] \in InFlight => used[u] < Grant[u] + burst[u]
    /\ \A a \in HoldingJobs(u) :
          copy[a].total = Grant[u] /\ copy[a].used < Grant[u] + burst[u]

ModestInv == \A u \in Payers : Uncalled(u) => Modest(u)

\* Every step keeps ModestInv: a request passes only while credits are left.
LEMMA ModestStep == TypeOK /\ ModestInv /\ [Next]_vars => ModestInv'
<1> SUFFICES ASSUME TypeOK, ModestInv, [Next]_vars, NEW u \in Payers, Uncalled(u)
             PROVE  Modest(u)'
  BY DEF ModestInv, Uncalled
<1> USE PayerAssumption, CreditsAssumption, CostPositive
<1> USE DEF TypeOK, row, ledger, jobs, calls, history, Copies, HoldingJobs
<1>0. Modest(u)
  BY DEF ModestInv
<1>1. ASSUME NEW a \in Audits, Check(a) PROVE Modest(u)'
  <2>1. /\ UNCHANGED <<row, copy>> /\ stage'[a] \in {"checked", "refused"}
        /\ \A b \in Audits : b # a => stage'[b] = stage[b]
    BY <1>1 DEF Check
  <2>2. HoldingJobs(u)' = HoldingJobs(u)
    BY <1>1, <2>1 DEF Check
  <2>3. CASE burst'[u] = burst[u] /\ (Payer[a] = u => stage'[a] = "refused")
    BY <1>0, <2>1, <2>2, <2>3 DEF Modest, InFlight
  <2>4. CASE Payer[a] = u /\ HasCredits(u)
    <3>1. used[u] < Grant[u] + burst'[u] /\ burst'[u] \in {0, burst[u]}
      <4>1. burst'[u] \in {0, burst[u]} /\ used[u] < Grant[u]
        BY <1>0, <1>1, <2>4 DEF Check, HasCredits, Modest
      <4> QED
        BY <4>1
    <3>2. \A b \in HoldingJobs(u) : burst'[u] = burst[u]
      BY <1>1, <2>4 DEF Check, Idle, InFlight
    <3> QED
      BY <1>0, <2>1, <2>2, <3>1, <3>2 DEF Modest
  <2> QED
    BY <1>1, <2>3, <2>4 DEF Check
<1>2. ASSUME NEW a \in Audits, Create(a) \/ Fail(a) \/ Record(a) PROVE Modest(u)'
  <2>1. UNCHANGED <<row, copy, burst>> /\ \A b \in Audits : b # a => stage'[b] = stage[b]
    BY <1>2 DEF Create, Fail, Record
  <2>2. stage'[a] \in InFlight => stage[a] \in InFlight
    BY <1>2 DEF Create, Fail, Record, InFlight
  <2>3. stage'[a] # "running"
    BY <1>2 DEF Create, Fail, Record
  <2>4. HoldingJobs(u)' \subseteq HoldingJobs(u)
    BY <2>1, <2>3
  <2> QED
    BY <1>0, <2>1, <2>2, <2>4 DEF Modest
<1>3. ASSUME NEW a \in Audits, Start(a) PROVE Modest(u)'
  <2>1. /\ UNCHANGED <<row, burst>> /\ stage[a] \in InFlight
        /\ \A b \in Audits : b # a => stage'[b] = stage[b] /\ copy'[b] = copy[b]
    BY <1>3 DEF Start, InFlight
  <2>2. copy'[a] = Row(Payer[a])
    BY <1>3 DEF Start
  <2>3. \A b \in Audits : Payer[b] = u /\ stage'[b] \in InFlight => stage[b] \in InFlight
    BY <2>1
  <2>4. ASSUME NEW b \in HoldingJobs(u)'
        PROVE  copy'[b].total = Grant[u] /\ copy'[b].used < Grant[u] + burst[u]
    <3>1. CASE b = a
      BY <1>0, <2>1, <2>2, <2>4, <3>1 DEF Modest, Row
    <3>2. CASE b # a
      BY <1>0, <2>1, <2>4, <3>2 DEF Modest
    <3> QED
      BY <3>1, <3>2
  <2> QED
    BY <1>0, <2>1, <2>3, <2>4 DEF Modest
<1>4. ASSUME NEW a \in Audits, Charge(a) PROVE Modest(u)'
  <2>1. /\ UNCHANGED copy /\ stage'[a] = "charged" /\ a \in HoldingJobs(Payer[a])
        /\ \A b \in Audits : b # a => stage'[b] = stage[b]
    BY <1>4 DEF Charge
  <2>2. HoldingJobs(u)' = HoldingJobs(u) \ {a}
    BY <2>1
  <2>3. CASE Payer[a] = u
    <3>1. copy[a].total = Grant[u] /\ copy[a].used < Grant[u] + burst[u]
      BY <1>0, <2>1, <2>3 DEF Modest
    <3>2. /\ used'[u] = copy[a].used + Cost[a] /\ total'[u] = copy[a].total
          /\ burst'[u] = burst[u] + Cost[a]
      BY <1>4, <2>3 DEF Charge, NewUsed
    <3>3. Cost[a] \in Nat /\ burst[u] \in Nat /\ Grant[u] \in Nat /\ copy[a].used \in Nat
      OBVIOUS
    <3>4. used'[u] < Grant[u] + burst'[u] /\ burst[u] <= burst'[u]
      BY <3>1, <3>2, <3>3
    <3>5. ASSUME NEW b \in HoldingJobs(u)'
          PROVE  copy'[b].total = Grant[u] /\ copy'[b].used < Grant[u] + burst'[u]
      <4>1. /\ copy'[b].total = Grant[u] /\ copy'[b].used < Grant[u] + burst[u]
            /\ copy'[b].used \in Nat
        BY <1>0, <2>1, <2>2, <3>5 DEF Modest
      <4> QED
        BY <3>2, <3>3, <3>4, <4>1
    <3> QED
      BY <3>1, <3>2, <3>4, <3>5 DEF Modest
  <2>4. CASE Payer[a] # u
    <3>1. used'[u] = used[u] /\ total'[u] = total[u] /\ burst'[u] = burst[u]
      BY <1>4, <2>4 DEF Charge
    <3> QED
      BY <1>0, <2>1, <2>2, <2>4, <3>1 DEF Modest
  <2> QED
    BY <2>3, <2>4
<1>5. CASE Stop
  <2>1. UNCHANGED <<row, copy, burst>>
    BY <1>5 DEF Stop
  <2>2. HoldingJobs(u)' = {}
    BY <1>5 DEF Stop, Struck
  <2>3. \A a \in Audits : stage'[a] \in InFlight => stage[a] \in InFlight
    BY <1>5 DEF Stop, Struck, InFlight
  <2> QED
    BY <1>0, <2>1, <2>2, <2>3 DEF Modest
<1>6. ASSUME NEW s \in Syncs,
             ReadRow(s) \/ GetCredits(s) \/ NoClient(s) \/ SaveTotal(s) \/ RecordSync(s) \/ Drop(s)
      PROVE  Modest(u)'
  <2>1. Caller[s] # u /\ Caller[s] \in Payers
    BY DEF Uncalled
  <2>2. UNCHANGED <<jobs, burst>> /\ used'[u] = used[u] /\ total'[u] = total[u]
    BY <1>6, <2>1 DEF ReadRow, GetCredits, NoClient, get_user_credits, SaveTotal, RecordSync, Drop
  <2> QED
    BY <1>0, <2>2 DEF Modest
<1>7. CASE UNCHANGED vars
  BY <1>0, <1>7 DEF vars, Modest
<1> QED
  BY <1>1, <1>2, <1>3, <1>4, <1>5, <1>6, <1>7 DEF Next

(***************************************************************************)
(* RequireCredits reserves nothing, yet a payer overdraws by less than     *)
(* what was charged since the first of the requests in flight passed.      *)
(***************************************************************************)
THEOREM OverdraftBounded == Spec => []OverdraftBelowBurst
<1>1. Init => ModestInv
  BY CreditsAssumption, CostPositive, PayerAssumption
     DEF Init, ModestInv, Modest, InFlight, HoldingJobs
<1>2. ModestInv => OverdraftBelowBurst
  BY DEF ModestInv, Modest, Uncalled, OverdraftBelowBurst
<1> QED
  BY <1>1, <1>2, TypeInit, TypeStep, ModestStep, PTL DEF Spec

(***************************************************************************)
(* The calls of u that have saved a new total and not its transaction. A   *)
(* function of Sums(u) is the sum, over any set of them, of what their     *)
(* transactions would add to the ledger. That there is one is part of the  *)
(* invariant, so no step has to add up a set.                              *)
(***************************************************************************)
Unrecorded(u) == {s \in Syncs : Caller[s] = u /\ call[s] \in {"saved", "dropped"}}

Owed(s) == quote[s] - seen[s].total

Sums(u) ==
    {g \in [SUBSET Unrecorded(u) -> Int] :
        /\ g[{}] = 0
        /\ \A S \in SUBSET Unrecorded(u) : \A s \in Unrecorded(u) \ S :
              g[S \cup {s}] = g[S] + Owed(s)}

Explained(u) == \E g \in Sums(u) : total[u] = Grant[u] + net[u] + g[Unrecorded(u)]

LedgerInv == AloneInv /\ \A u \in Payers \ overlapped : Explained(u)

\* Nothing about u's ledger changes: it is explained as it was.
LEMMA LedgerUntouched ==
    ASSUME NEW u \in Payers, Explained(u), total'[u] = total[u], net'[u] = net[u],
           Unrecorded(u)' = Unrecorded(u),
           \A s \in Unrecorded(u) : Owed(s)' = Owed(s)
    PROVE  Explained(u)'
<1>1. Sums(u)' = Sums(u)
  BY DEF Sums
<1> QED
  BY <1>1 DEF Explained

\* A call of u saves the total: the sums of the sets with it are those of the
\* sets without it, and what it owes.
LEMMA LedgerSaved ==
    ASSUME NEW u \in Payers, NEW s, s \notin Unrecorded(u), Explained(u),
           Unrecorded(u)' = Unrecorded(u) \cup {s},
           \A t \in Unrecorded(u) : Owed(t) \in Int /\ Owed(t)' = Owed(t),
           Owed(s)' \in Int, total[u] \in Int, net[u] \in Int, Grant[u] \in Int,
           net'[u] = net[u], total'[u] = total[u] + Owed(s)'
    PROVE  Explained(u)'
<1> DEFINE P == Unrecorded(u)
           d == Owed(s)'
<1>1. PICK g \in [SUBSET P -> Int] :
          /\ g[{}] = 0
          /\ \A S \in SUBSET P : \A t \in P \ S : g[S \cup {t}] = g[S] + Owed(t)
          /\ total[u] = Grant[u] + net[u] + g[P]
  BY DEF Explained, Sums
<1> DEFINE h == [S \in SUBSET (P \cup {s}) |-> IF s \in S THEN g[S \ {s}] + d ELSE g[S]]
<1> d \in Int
  OBVIOUS
<1> HIDE DEF P, d
<1>2. s \notin P
  BY DEF P
<1>3. h \in [SUBSET (P \cup {s}) -> Int]
  <2>1. ASSUME NEW S \in SUBSET (P \cup {s}) PROVE h[S] \in Int
    <3>1. CASE s \in S
      <4>1. S \ {s} \in SUBSET P
        OBVIOUS
      <4>2. g[S \ {s}] \in Int
        BY <1>1, <4>1
      <4> QED
        BY <3>1, <4>2
    <3>2. CASE s \notin S
      BY <1>1, <3>2
    <3> QED
      BY <3>1, <3>2
  <2> QED
    BY <2>1
<1>4. h[{}] = 0
  BY <1>1
<1>5. ASSUME NEW S \in SUBSET (P \cup {s}), NEW t \in (P \cup {s}) \ S
      PROVE  h[S \cup {t}] = h[S] + Owed(t)'
  <2>1. CASE t = s
    <3>1. (S \cup {t}) \ {s} = S /\ s \notin S
      BY <2>1
    <3>2. h[S \cup {t}] = g[S] + d /\ h[S] = g[S]
      BY <2>1, <3>1
    <3> QED
      BY <2>1, <3>2 DEF d
  <2>2. CASE t # s /\ s \in S
    <3>1. /\ S \ {s} \in SUBSET P /\ t \in P \ (S \ {s})
          /\ (S \cup {t}) \ {s} = (S \ {s}) \cup {t}
      BY <2>2
    <3>2. g[(S \ {s}) \cup {t}] = g[S \ {s}] + Owed(t)
      BY <1>1, <3>1
    <3>3. h[S \cup {t}] = g[(S \ {s}) \cup {t}] + d
      BY <2>2, <3>1
    <3>4. h[S] = g[S \ {s}] + d
      BY <2>2
    <3>5. g[S \ {s}] \in Int /\ g[(S \ {s}) \cup {t}] \in Int
      BY <1>1, <3>1
    <3>6. Owed(t)' = Owed(t)
      BY <3>1 DEF P
    <3>7. Owed(t) \in Int
      BY <3>1 DEF P
    <3> QED
      BY <3>2, <3>3, <3>4, <3>5, <3>6, <3>7
  <2>3. CASE s \notin S /\ t # s
    <3>1. S \in SUBSET P /\ t \in P \ S /\ s \notin S \cup {t}
      BY <2>3
    <3>2. h[S \cup {t}] = g[S \cup {t}] /\ h[S] = g[S]
      BY <3>1
    <3>3. g[S \cup {t}] = g[S] + Owed(t)
      BY <1>1, <3>1
    <3>4. Owed(t)' = Owed(t)
      BY <3>1 DEF P
    <3> QED
      BY <3>2, <3>3, <3>4
  <2> QED
    BY <2>1, <2>2, <2>3
<1>6. h[P \cup {s}] = g[P] + d
  <2>1. (P \cup {s}) \ {s} = P
    BY <1>2
  <2> QED
    BY <2>1
<1>7. h \in Sums(u)'
  <2>1. Unrecorded(u)' = P \cup {s}
    BY DEF P
  <2> QED
    BY <1>3, <1>4, <1>5, <2>1 DEF Sums
<1>8. total'[u] = Grant[u] + net'[u] + h[P \cup {s}]
  <2>1. g[P] \in Int
    BY <1>1
  <2> QED
    BY <1>1, <1>6, <2>1 DEF d
<1> QED
  BY <1>7, <1>8 DEF Explained, P

\* A call of u saves its transaction, and owes nothing any more.
LEMMA LedgerRecorded ==
    ASSUME NEW u \in Payers, NEW s \in Unrecorded(u), Explained(u),
           Unrecorded(u)' = Unrecorded(u) \ {s},
           \A t \in Unrecorded(u) : Owed(t) \in Int /\ Owed(t)' = Owed(t),
           net[u] \in Int, Grant[u] \in Int,
           total'[u] = total[u], net'[u] = net[u] + Owed(s)
    PROVE  Explained(u)'
<1> DEFINE P == Unrecorded(u)
           Q == P \ {s}
<1>1. PICK g \in [SUBSET P -> Int] :
          /\ g[{}] = 0
          /\ \A S \in SUBSET P : \A t \in P \ S : g[S \cup {t}] = g[S] + Owed(t)
          /\ total[u] = Grant[u] + net[u] + g[P]
  BY DEF Explained, Sums
<1> DEFINE h == [S \in SUBSET Q |-> g[S]]
<1>2. h \in Sums(u)'
  <2>1. h \in [SUBSET Q -> Int] /\ h[{}] = 0
    BY <1>1
  <2>2. ASSUME NEW S \in SUBSET Q, NEW t \in Q \ S PROVE h[S \cup {t}] = h[S] + Owed(t)'
    BY <1>1
  <2> QED
    BY <2>1, <2>2 DEF Sums
<1>3. g[P] = h[Q] + Owed(s) /\ h[Q] \in Int
  <2>1. Q \cup {s} = P /\ Q \in SUBSET P /\ s \in P \ Q
    OBVIOUS
  <2>2. g[Q \cup {s}] = g[Q] + Owed(s)
    BY <1>1, <2>1
  <2> QED
    BY <1>1, <2>1, <2>2
<1>4. total'[u] = Grant[u] + net'[u] + h[Q] /\ Unrecorded(u)' = Q
  <2>1. Owed(s) \in Int
    OBVIOUS
  <2> QED
    BY <1>1, <1>3, <2>1
<1> QED
  BY <1>2, <1>4 DEF Explained

\* Every step keeps LedgerInv: while no two processes hold the row, what a call
\* puts in is what it found there and what its transaction will say.
LEMMA LedgerStep == TypeOK /\ Unpaid /\ LedgerInv /\ [Next]_vars => LedgerInv'
<1> SUFFICES ASSUME TypeOK, Unpaid, LedgerInv, [Next]_vars, NEW u \in Payers, u \notin overlapped'
             PROVE  Explained(u)'
  BY AloneStep DEF LedgerInv
<1> USE PayerAssumption, CreditsAssumption, CostPositive
<1> USE DEF TypeOK, row, ledger, jobs, calls, history, Copies
<1>0. u \notin overlapped
  BY DEF Next, Check, Create, Start, Fail, Charge, Record, Stop, ReadRow, NoteReader, GetCredits,
         NoClient, SaveTotal, RecordSync, Drop, vars
<1>1. Alone(u) /\ Explained(u)
  BY <1>0 DEF LedgerInv, AloneInv
<1>2. total[u] \in Int /\ net[u] \in Int /\ Grant[u] \in Int
  OBVIOUS
<1>3. \A t \in Unrecorded(u) : Owed(t) \in Int
  BY DEF Unrecorded, Owed
<1>4. ASSUME NEW a \in Audits, Check(a) \/ Create(a) \/ Start(a) \/ Fail(a) \/ Record(a)
      PROVE  Explained(u)'
  <2>1. UNCHANGED <<total, net, calls>>
    BY <1>4 DEF Check, Create, Start, Fail, Record
  <2> QED
    BY <1>1, <2>1, LedgerUntouched DEF Unrecorded, Owed
<1>5. ASSUME NEW a \in Audits, Charge(a) PROVE Explained(u)'
  <2>1. UNCHANGED <<net, calls>>
    BY <1>5 DEF Charge
  <2>2. total'[u] = total[u]
    <3>1. CASE Payer[a] = u
      <4>1. copy[a].total = total[u]
        BY <1>1, <1>5, <3>1 DEF Charge, Alone, HoldingJobs, Row
      <4> QED
        BY <1>5, <3>1, <4>1 DEF Charge
    <3>2. CASE Payer[a] # u
      BY <1>5, <3>2 DEF Charge
    <3> QED
      BY <3>1, <3>2
  <2> QED
    BY <1>1, <2>1, <2>2, LedgerUntouched DEF Unrecorded, Owed
<1>6. CASE Stop
  BY <1>1, <1>6, LedgerUntouched DEF Stop, Unrecorded, Owed
<1>7. ASSUME NEW s \in Syncs, ReadRow(s) \/ GetCredits(s) \/ NoClient(s) \/ Drop(s)
      PROVE  Explained(u)'
  <2>1. UNCHANGED <<total, net>>
    BY <1>7 DEF ReadRow, GetCredits, NoClient, Drop
  <2>2. Unrecorded(u)' = Unrecorded(u)
    BY <1>7 DEF ReadRow, GetCredits, NoClient, Drop, Unrecorded
  <2>3. \A t \in Unrecorded(u) : Owed(t)' = Owed(t)
    BY <1>7 DEF ReadRow, GetCredits, NoClient, Drop, Unrecorded, Owed
  <2> QED
    BY <1>1, <2>1, <2>2, <2>3, LedgerUntouched
<1>8. ASSUME NEW s \in Syncs, SaveTotal(s) PROVE Explained(u)'
  <2>1. UNCHANGED <<net, seen, quote>>
    BY <1>8 DEF SaveTotal
  <2>2. \A t \in Unrecorded(u) : Owed(t)' = Owed(t)
    BY <2>1 DEF Owed
  <2>3. CASE Caller[s] = u
    <3>1. seen[s].total = total[u]
      BY <1>1, <1>8, <2>3 DEF SaveTotal, Alone, HoldingCalls, Row
    <3>2. total'[u] = quote[s] /\ s \notin Unrecorded(u)
      BY <1>8, <2>3 DEF SaveTotal, Unrecorded
    <3>3. CASE quote[s] = seen[s].total
      <4>1. Unrecorded(u)' = Unrecorded(u)
        BY <1>8, <3>3 DEF SaveTotal, Unrecorded
      <4> QED
        BY <1>1, <2>1, <2>2, <3>1, <3>2, <3>3, <4>1, LedgerUntouched
    <3>4. CASE quote[s] # seen[s].total
      <4>1. Unrecorded(u)' = Unrecorded(u) \cup {s}
        BY <1>8, <2>3, <3>4 DEF SaveTotal, Unrecorded
      <4>2. Owed(s)' \in Int /\ total'[u] = total[u] + Owed(s)'
        BY <2>1, <3>1, <3>2 DEF Owed
      <4> QED
        BY <1>1, <1>2, <1>3, <2>1, <2>2, <3>2, <4>1, <4>2, LedgerSaved
    <3> QED
      BY <3>3, <3>4
  <2>4. CASE Caller[s] # u
    <3>1. total'[u] = total[u] /\ Unrecorded(u)' = Unrecorded(u)
      BY <1>8, <2>4 DEF SaveTotal, Unrecorded
    <3> QED
      BY <1>1, <2>1, <2>2, <3>1, LedgerUntouched
  <2> QED
    BY <2>3, <2>4
<1>9. ASSUME NEW s \in Syncs, RecordSync(s) PROVE Explained(u)'
  <2>1. UNCHANGED <<total, seen, quote>>
    BY <1>9 DEF RecordSync
  <2>2. \A t \in Unrecorded(u) : Owed(t)' = Owed(t)
    BY <2>1 DEF Owed
  <2>3. CASE Caller[s] = u
    <3>1. s \in Unrecorded(u) /\ Unrecorded(u)' = Unrecorded(u) \ {s}
      BY <1>9, <2>3 DEF RecordSync, Unrecorded
    <3>2. net'[u] = net[u] + Owed(s)
      BY <1>9, <2>3 DEF RecordSync, Owed
    <3> QED
      BY <1>1, <1>2, <1>3, <2>1, <2>2, <3>1, <3>2, LedgerRecorded
  <2>4. CASE Caller[s] # u
    <3>1. net'[u] = net[u] /\ Unrecorded(u)' = Unrecorded(u)
      BY <1>9, <2>4 DEF RecordSync, Unrecorded
    <3> QED
      BY <1>1, <2>1, <2>2, <3>1, LedgerUntouched
  <2> QED
    BY <2>3, <2>4
<1>10. CASE UNCHANGED vars
  BY <1>1, <1>10, LedgerUntouched DEF vars, Unrecorded, Owed
<1> QED
  BY <1>4, <1>5, <1>6, <1>7, <1>8, <1>9, <1>10 DEF Next

(***************************************************************************)
(* The PURCHASE and REFUND transactions explain total_credits of a payer   *)
(* whose row no two processes held at a time, once every transaction is    *)
(* saved, however many calls there were between.                           *)
(***************************************************************************)
THEOREM LedgerExplains == Spec => []LedgerExplainsTotal
<1>1. Init => LedgerInv
  <2> SUFFICES ASSUME Init, NEW u \in Payers PROVE Explained(u)
    BY CreditsAssumption, CostPositive, PayerAssumption
       DEF Init, LedgerInv, AloneInv, Alone, HoldingJobs, HoldingCalls
  <2>1. Unrecorded(u) = {}
    BY DEF Init, Unrecorded
  <2> DEFINE g == [S \in SUBSET {} |-> 0]
  <2>2. g \in Sums(u) /\ g[{}] = 0
    BY <2>1 DEF Sums
  <2>3. total[u] = Grant[u] + net[u] + g[{}]
    BY CreditsAssumption, <2>2 DEF Init
  <2> QED
    BY <2>1, <2>2, <2>3 DEF Explained
<1>2. LedgerInv /\ TypeOK => LedgerExplainsTotal
  <2> SUFFICES ASSUME LedgerInv, TypeOK, NEW u \in Payers \ overlapped,
                      \A s \in Syncs : Caller[s] = u => call[s] \notin {"saved", "dropped"}
               PROVE  total[u] = Grant[u] + net[u]
    BY DEF LedgerExplainsTotal
  <2>1. PICK g \in Sums(u) : total[u] = Grant[u] + net[u] + g[Unrecorded(u)]
    BY DEF LedgerInv, Explained
  <2>2. Unrecorded(u) = {}
    BY DEF Unrecorded
  <2> QED
    BY <2>1, <2>2, CreditsAssumption DEF Sums, TypeOK
<1> QED
  BY <1>1, <1>2, TypeInit, TypeStep, UnpaidInit, UnpaidStep, LedgerStep, PTL DEF Spec

=============================================================================
