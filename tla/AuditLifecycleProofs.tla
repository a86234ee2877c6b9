------------------------ MODULE AuditLifecycleProofs ------------------------
(***************************************************************************)
(* Proofs about AuditLifecycle, for any audits, prompts, tries and faults: *)
(* type correctness, the invariants of one audit (AccountInv: its charges, *)
(* findings and transactions; StepsInv: its steps and its report), the two *)
(* action properties, and that AuditPromise is implemented.                *)
(***************************************************************************)
EXTENDS AuditLifecycle, TLAPS

\* Every step of the API, the worker and the admin keeps the types.
LEMMA TypeStep == TypeOK /\ [Next]_vars => TypeOK'
<1> SUFFICES ASSUME TypeOK, [Next]_vars PROVE TypeOK'
  OBVIOUS
<1> USE PromptsAssumption, BilledAssumption, BoundsAssumption
<1>1. ASSUME NEW a \in Audits, Api(a) PROVE TypeOK'
  BY <1>1 DEF Api, CreateAudit, Enqueue, TypeOK, database, queue, memory, Statuses
<1>2. ASSUME NEW a \in Audits, Work(a) PROVE TypeOK'
  <2>1. CASE StartJob(a)
    BY <2>1 DEF StartJob, MayStart, TypeOK, database, MainPCs, Unguarded
  <2>2. CASE GiveUp(a)
    BY <2>2 DEF GiveUp, TypeOK, database, memory
  <2>3. CASE MarkProcessing(a)
    BY <2>3 DEF MarkProcessing, TypeOK, queue, MainPCs, Guarded, Statuses
  <2>4. CASE SelectCandidates(a)
    BY <2>4 DEF SelectCandidates, TypeOK, database, queue, MainPCs, BranchPCs, Candidates
  <2>5. CASE Gather(a)
    BY <2>5 DEF Gather, GoTo, TypeOK, database, queue, MainPCs, Guarded, Unguarded
  <2>6. CASE BeginReview(a)
    BY <2>6 DEF BeginReview, GoTo, Checkpoint, TypeOK, queue, MainPCs, Reviewers, Rows, Results, Statuses
  <2>7. CASE NoReviewer(a)
    BY <2>7 DEF NoReviewer, GoTo, TypeOK, database, queue, MainPCs, ReviewerError, Unguarded
  <2>8. CASE ReviewAnswer(a)
    BY <2>8 DEF ReviewAnswer, GoTo, AddUsage, TypeOK, database, queue, MainPCs, Guarded, Reports, Reviewers
  <2>9. CASE ReviewNoAnswer(a)
    BY <2>9 DEF ReviewNoAnswer, GoTo, TypeOK, database, queue, MainPCs, Guarded
  <2>10. CASE EndReview(a)
    <3>1. PICK r \in picked[a] \cap Reviewers :
            \E s \in Statuses, x \in Results, to \in MainPCs :
                Checkpoint(a, r, s, x) /\ GoTo(a, to)
      <4>1. CASE pc[a] = "reviewed"
        BY <2>10, <4>1 DEF EndReview, TypeOK, MainPCs, Guarded, Statuses, Results
      <4>2. CASE pc[a] = "review_error"
        BY <2>10, <4>2 DEF EndReview, TypeOK, MainPCs, Unguarded, Statuses, Results
      <4> QED
        BY <2>10, <4>1, <4>2 DEF EndReview
    <3>2. r \in Prompts
      BY DEF Reviewers
    <3>3. row' \in [Audits -> [Prompts -> Rows]] /\ pc' \in [Audits -> MainPCs]
      BY <3>1, <3>2 DEF Checkpoint, GoTo, TypeOK, Rows
    <3> QED
      BY <2>10, <3>3 DEF EndReview, TypeOK, queue
  <2>11. CASE WriteFindings(a)
    BY <2>11 DEF WriteFindings, GoTo, TypeOK, queue, MainPCs, Guarded, Unguarded
  <2>12. CASE StoreReport(a)
    BY <2>12 DEF StoreReport, GoTo, TypeOK, queue, MainPCs, AfterStore, Unguarded, Statuses
  <2>13. CASE StoreFailure(a)
    BY <2>13 DEF StoreFailure, GoTo, TypeOK, queue, MainPCs, Statuses
  <2>14. CASE Charge(a)
    BY <2>14 DEF Charge, GoTo, TypeOK, queue, MainPCs, Unguarded
  <2>15. CASE RecordTransaction(a)
    BY <2>15 DEF RecordTransaction, GoTo, TypeOK, queue, MainPCs
  <2>16. CASE FinishJob(a)
    BY <2>16 DEF FinishJob, GoTo, TypeOK, database, MainPCs, Outcome
  <2> QED
    BY <1>2, <2>1, <2>2, <2>3, <2>4, <2>5, <2>6, <2>7, <2>8, <2>9, <2>10, <2>11,
       <2>12, <2>13, <2>14, <2>15, <2>16 DEF Work
<1>3. ASSUME NEW a \in Audits, LoseRequest(a) PROVE TypeOK'
  BY <1>3 DEF LoseRequest, Mishap, TypeOK, database, queue, memory
<1>4. ASSUME NEW a \in Audits, MainDatabaseError(a) PROVE TypeOK'
  <2>1. \E to \in MainPCs : GoTo(a, to)
    BY <1>4 DEF MainDatabaseError, MainPCs, Unguarded
  <2>2. pc' \in [Audits -> MainPCs]
    BY <2>1 DEF GoTo, TypeOK
  <2>3. held' \in [Audits -> {"none"} \cup Reports]
    BY <1>4 DEF MainDatabaseError, TypeOK
  <2>4. mishaps' \in [Audits -> 0 .. MaxMishaps]
    BY <1>4 DEF MainDatabaseError, Mishap, TypeOK
  <2> QED
    BY <1>4, <2>2, <2>3, <2>4 DEF MainDatabaseError, TypeOK, database, queue
<1>5. ASSUME NEW a \in Audits, Timeout(a) PROVE TypeOK'
  <2>1. Cancelled(a) \in [Prompts -> BranchPCs]
    <3>1. branch[a] \in [Prompts -> BranchPCs]
      BY DEF TypeOK
    <3>2. "off" \in BranchPCs
      BY DEF BranchPCs
    <3> QED
      BY <3>1, <3>2 DEF Cancelled
  <2> QED
    BY <1>5, <2>1 DEF Timeout, Mishap, GoTo, TypeOK, database, queue, MainPCs
<1>6. ASSUME NEW a \in Audits, NEW p \in Candidates, Branch(a, p) PROVE TypeOK'
  <2> p \in Prompts
    BY DEF Candidates
  <2> USE <1>6 DEF MoveBranch, Checkpoint, TypeOK, database, queue, BranchPCs
  <2>1. CASE BranchBegin(a, p)
    BY <2>1 DEF BranchBegin, Rows, Results, Statuses
  <2>2. CASE BranchAnswer(a, p)
    BY <2>2 DEF BranchAnswer, AddUsage
  <2>3. CASE BranchNoAnswer(a, p)
    BY <2>3 DEF BranchNoAnswer
  <2>4. CASE BranchSave(a, p)
    <3>1. \E x \in Results, to \in BranchPCs :
            Checkpoint(a, p, "SUCCESS", x) /\ MoveBranch(a, p, to)
      BY <2>4 DEF BranchSave, Results, Texts
    <3>2. row' \in [Audits -> [Prompts -> Rows]]
      BY <3>1 DEF Rows, Statuses
    <3> QED
      BY <2>4, <3>1, <3>2 DEF BranchSave
  <2>5. CASE BranchFail(a, p)
    BY <2>5 DEF BranchFail, Rows, Results, Statuses
  <2> QED
    BY <2>1, <2>2, <2>3, <2>4, <2>5 DEF Branch
<1>7. ASSUME NEW a \in Audits, NEW p \in Candidates, BranchDatabaseError(a, p)
      PROVE  TypeOK'
  BY <1>7 DEF BranchDatabaseError, Mishap, MoveBranch, TypeOK, database, queue, BranchPCs, Candidates
<1>8. CASE WorkerStops
  BY <1>8 DEF WorkerStops, TypeOK, database, MainPCs, BranchPCs
<1>9. ASSUME NEW p \in Prompts, UpdatePrompt(p) PROVE TypeOK'
  BY <1>9 DEF UpdatePrompt, TypeOK, database, queue, memory
<1>10. CASE UNCHANGED vars
  BY <1>10 DEF vars, TypeOK, database, queue, memory
<1> QED
  BY <1>1, <1>2, <1>3, <1>4, <1>5, <1>6, <1>7, <1>8, <1>9, <1>10 DEF Next

(***************************************************************************)
(* Every variable of the lifecycle keeps its type: in particular a job is  *)
(* never started more than MaxTries times.                                 *)
(***************************************************************************)
THEOREM TypeCorrect == Spec => []TypeOK
<1>1. Init => TypeOK
  BY PromptsAssumption, BoundsAssumption
     DEF Init, TypeOK, MainPCs, BranchPCs, NoRow, Rows, Results, Statuses
<1> QED
  BY <1>1, TypeStep, PTL DEF Spec

(***************************************************************************)
(* How the API call, the job, handle_eval and Audit.status go together.    *)
(***************************************************************************)
Trying == {"select", "gather", "review", "parse", "review_error", "reviewed",
           "write", "store", "fail"}

Control(a) ==
    /\ status[a] = "NONE" <=> request[a] = "none"
    /\ job[a] = "absent" <=> request[a] # "answered"
    /\ job[a] = "absent" => status[a] \in {"NONE", "WAITING"} /\ tries[a] = 0
    /\ job[a] = "running" <=> pc[a] # "off"
    /\ pc[a] \in Trying => status[a] = "PROCESSING"
    /\ pc[a] \in {"charge", "ledger"} => status[a] = "SUCCESS"

\* An audit no fault has hit is in its first run, or after it.
Unhurt(a) ==
    mishaps[a] = 0 =>
        /\ job[a] = "queued" => status[a] = "WAITING" /\ tries[a] = 0
        /\ pc[a] = "mark" => status[a] = "WAITING"
        /\ pc[a] = "finish" \/ job[a] = "finished" => status[a] \in Settled
        /\ status[a] # "SUCCESS" => output[a] = "none"
        /\ pc[a] \in Trying \cup {"mark"} => held[a] = "none"

Accounts(a) ==
    /\ charges[a] <= mishaps[a] + OneIf(PastCharge(a))
    /\ batches[a] <= mishaps[a] + OneIf(PastWrite(a))
    /\ entries[a] <= charges[a]
    /\ pc[a] = "ledger" => entries[a] < charges[a]
    /\ charges[a] <= entries[a] + mishaps[a] + OneIf(pc[a] = "ledger")

AccountInv == TypeOK /\ \A a \in Audits : Control(a) /\ Unhurt(a) /\ Accounts(a)

\* A step keeps what AccountInv says of every audit.
LEMMA AccountStep == AccountInv /\ [Next]_vars => AccountInv'
<1> SUFFICES ASSUME AccountInv, [Next]_vars,
                    NEW b \in Audits
             PROVE  Control(b)' /\ Unhurt(b)' /\ Accounts(b)'
  BY TypeStep DEF AccountInv
<1> USE BoundsAssumption
<1> TypeOK /\ TypeOK' /\ Control(b) /\ Unhurt(b) /\ Accounts(b)
  BY TypeStep DEF AccountInv
<1> USE DEF Control, Unhurt, Accounts, PastCharge, PastWrite, OneIf, Trying, Settled,
            TypeOK, database, queue, memory, GoTo
<1>1. ASSUME NEW a \in Audits, Api(a)
      PROVE  Control(b)' /\ Unhurt(b)' /\ Accounts(b)'
  BY <1>1 DEF Api, CreateAudit, Enqueue
<1>2. ASSUME NEW a \in Audits, Work(a)
      PROVE  Control(b)' /\ Unhurt(b)' /\ Accounts(b)'
  <2>1. CASE StartJob(a)
    BY <2>1 DEF StartJob, MayStart
  <2>2. CASE GiveUp(a)
    BY <2>2 DEF GiveUp
  <2>3. CASE MarkProcessing(a)
    BY <2>3 DEF MarkProcessing
  <2>4. CASE SelectCandidates(a)
    BY <2>4 DEF SelectCandidates
  <2>5. CASE Gather(a)
    BY <2>5 DEF Gather
  <2>6. CASE BeginReview(a)
    BY <2>6 DEF BeginReview, Checkpoint
  <2>7. CASE NoReviewer(a)
    BY <2>7 DEF NoReviewer, ReviewerError
  <2>8. CASE ReviewAnswer(a)
    BY <2>8 DEF ReviewAnswer, AddUsage
  <2>9. CASE ReviewNoAnswer(a)
    BY <2>9 DEF ReviewNoAnswer
  <2>10. CASE EndReview(a)
    BY <2>10 DEF EndReview, Checkpoint
  <2>11. CASE WriteFindings(a)
    BY <2>11 DEF WriteFindings, Creates
  <2>12. CASE StoreReport(a)
    BY <2>12 DEF StoreReport, AfterStore
  <2>13. CASE StoreFailure(a)
    BY <2>13 DEF StoreFailure
  <2>14. CASE Charge(a)
    BY <2>14 DEF Charge
  <2>15. CASE RecordTransaction(a)
    BY <2>15 DEF RecordTransaction
  <2>16. CASE FinishJob(a)
    BY <2>16 DEF FinishJob, Outcome
  <2> QED
    BY <1>2, <2>1, <2>2, <2>3, <2>4, <2>5, <2>6, <2>7, <2>8, <2>9, <2>10, <2>11,
       <2>12, <2>13, <2>14, <2>15, <2>16 DEF Work
<1>3. ASSUME NEW a \in Audits, LoseRequest(a)
      PROVE  Control(b)' /\ Unhurt(b)' /\ Accounts(b)'
  BY <1>3 DEF LoseRequest, Mishap
<1>4. ASSUME NEW a \in Audits, MainDatabaseError(a)
      PROVE  Control(b)' /\ Unhurt(b)' /\ Accounts(b)'
  BY <1>4 DEF MainDatabaseError, Mishap, Guarded, Unguarded
<1>5. ASSUME NEW a \in Audits, Timeout(a)
      PROVE  Control(b)' /\ Unhurt(b)' /\ Accounts(b)'
  BY <1>5 DEF Timeout, Mishap
<1>6. ASSUME NEW a \in Audits, NEW p \in Candidates,
             Branch(a, p) \/ BranchDatabaseError(a, p)
      PROVE  Control(b)' /\ Unhurt(b)' /\ Accounts(b)'
  <2>1. CASE Branch(a, p)
    <3>1. UNCHANGED <<request, status, output, batches, charges, entries, queue,
                      pc, held, mishaps>>
      BY <2>1 DEF Branch, BranchBegin, BranchAnswer, BranchNoAnswer, BranchSave, BranchFail
    <3> QED
      BY <3>1
  <2>2. CASE BranchDatabaseError(a, p)
    BY <2>2 DEF BranchDatabaseError, Mishap
  <2> QED
    BY <1>6, <2>1, <2>2
<1>7. CASE WorkerStops
  BY <1>7 DEF WorkerStops
<1>8. ASSUME NEW p \in Prompts, UpdatePrompt(p)
      PROVE  Control(b)' /\ Unhurt(b)' /\ Accounts(b)'
  BY <1>8 DEF UpdatePrompt
<1>9. CASE UNCHANGED vars
  BY <1>9 DEF vars
<1> QED
  BY <1>1, <1>2, <1>3, <1>4, <1>5, <1>6, <1>7, <1>8, <1>9 DEF Next

\* AccountInv holds at the start.
LEMMA AccountInit == Init => AccountInv
<1> SUFFICES ASSUME Init PROVE AccountInv
  OBVIOUS
<1>1. TypeOK
  BY PromptsAssumption, BoundsAssumption
     DEF Init, TypeOK, MainPCs, BranchPCs, NoRow, Rows, Results, Statuses
<1> QED
  BY <1>1 DEF Init, AccountInv, Control, Unhurt, Accounts, PastCharge, PastWrite,
              OneIf, Trying

\* AccountInv is an invariant.
LEMMA AccountInvariant == Spec => []AccountInv
<1>1. Init => AccountInv
  BY AccountInit
<1> QED
  BY <1>1, AccountStep, PTL DEF Spec

(***************************************************************************)
(* The payer is charged, and the findings are created, at most once for    *)
(* the report that stands, and once more for each fault that hit the job,  *)
(* for any number of audits, tries and faults: arq runs a job again from   *)
(* its start, and handle_eval does not look at what was done before. No    *)
(* SPEND transaction is without a charge, and a charge lacks its           *)
(* transaction only between the two saves or for a fault.                  *)
(***************************************************************************)
THEOREM CountsBounded == Spec => []OncePerMishap
<1>1. AccountInv => ChargesPerMishap
  BY DEF AccountInv, Accounts, ChargesPerMishap
<1>2. AccountInv => FindingsPerMishap
  BY DEF AccountInv, Accounts, FindingsPerMishap
<1>3. AccountInv => LedgerFollowsCharges
  BY DEF AccountInv, Accounts, LedgerFollowsCharges
<1>4. AccountInv => OncePerMishap
  BY <1>1, <1>2, <1>3 DEF OncePerMishap
<1> QED
  BY <1>4, AccountInvariant, PTL

(***************************************************************************)
(* An audit that failed without a fault around it was not charged, has no  *)
(* report and no findings: the charges and the findings are counted        *)
(* against the faults, and nothing stores a report but a success.          *)
(***************************************************************************)
THEOREM FailureIsClean == Spec => []CleanFailure
<1>1. ASSUME AccountInv, NEW a \in Audits, status[a] = "FAILED", mishaps[a] = 0
      PROVE  /\ output[a] = "none" /\ batches[a] = 0
             /\ charges[a] = 0 /\ entries[a] = 0
  <2>1. Control(a) /\ Unhurt(a) /\ Accounts(a)
    BY <1>1 DEF AccountInv
  <2>2. charges[a] \in Nat /\ batches[a] \in Nat /\ entries[a] \in Nat
    BY <1>1 DEF AccountInv, TypeOK
  <2>3. output[a] = "none" /\ pc[a] \notin Trying \cup {"charge", "ledger"}
    BY <1>1, <2>1 DEF Control, Unhurt
  <2>4. ~PastCharge(a) /\ ~PastWrite(a)
    BY <1>1, <2>3 DEF PastCharge, PastWrite, Trying
  <2> QED
    BY <1>1, <2>1, <2>2, <2>3, <2>4 DEF Accounts, OneIf
<1>2. AccountInv => CleanFailure
  BY <1>1 DEF CleanFailure
<1> QED
  BY <1>2, AccountInvariant, PTL

(***************************************************************************)
(* A job that is over and that no fault hit has settled its audit.         *)
(***************************************************************************)
LEMMA FinishedIsSettled == Spec => []EndsSettled
<1>1. AccountInv => EndsSettled
  BY DEF AccountInv, TypeOK, Unhurt, EndsSettled
<1> QED
  BY <1>1, AccountInvariant, PTL

(***************************************************************************)
(* Nothing changes an audit, its findings or its charges once its job is   *)
(* finished: every writer of them is handle_eval, and no step of it is     *)
(* left then.                                                              *)
(***************************************************************************)
LEMMA OutcomeStays ==
    ASSUME AccountInv, [Next]_vars, NEW b \in Audits, job[b] = "finished"
    PROVE  UNCHANGED <<status[b], output[b], batches[b], charges[b], entries[b]>>
<1> TypeOK /\ Control(b) /\ pc[b] = "off"
  BY DEF AccountInv, Control
<1> USE DEF TypeOK, database, queue, memory, Control
<1>1. ASSUME NEW a \in Audits, Api(a) \/ LoseRequest(a)
      PROVE  UNCHANGED <<status[b], output[b], batches[b], charges[b], entries[b]>>
  BY <1>1 DEF Api, CreateAudit, Enqueue, LoseRequest
<1>2. ASSUME NEW a \in Audits, Work(a)
      PROVE  UNCHANGED <<status[b], output[b], batches[b], charges[b], entries[b]>>
  BY <1>2 DEF Work, StartJob, MayStart, GiveUp, MarkProcessing, SelectCandidates,
              Gather, BeginReview, NoReviewer, ReviewAnswer, ReviewNoAnswer,
              EndReview, WriteFindings, StoreReport, StoreFailure, Charge,
              RecordTransaction, FinishJob
<1>3. ASSUME NEW a \in Audits, MainDatabaseError(a) \/ Timeout(a)
      PROVE  UNCHANGED <<status[b], output[b], batches[b], charges[b], entries[b]>>
  BY <1>3 DEF MainDatabaseError, Timeout
<1>4. ASSUME NEW a \in Audits, NEW p \in Candidates,
             Branch(a, p) \/ BranchDatabaseError(a, p)
      PROVE  UNCHANGED <<status[b], output[b], batches[b], charges[b], entries[b]>>
  BY <1>4 DEF Branch, BranchBegin, BranchAnswer, BranchNoAnswer, BranchSave,
              BranchFail, BranchDatabaseError
<1>5. CASE WorkerStops \/ (\E p \in Prompts : UpdatePrompt(p)) \/ UNCHANGED vars
  BY <1>5 DEF WorkerStops, UpdatePrompt, vars
<1> QED
  BY <1>1, <1>2, <1>3, <1>4, <1>5 DEF Next

(***************************************************************************)
(* How the coroutines of a run, its rows and its usage go together.        *)
(***************************************************************************)

\* What the program counter of a candidate says of its row and of the usage.
BranchFacts(a, p) ==
    /\ branch[a][p] # "off" => p \in picked[a] /\ p \in Candidates
    /\ branch[a][p] \in {"save_text", "save_null"} => p \in usage[a]
    /\ branch[a][p] = "text" =>
        /\ row[a][p] = [status |-> "SUCCESS", result |-> "text"]
        /\ p \in usage[a]
    /\ branch[a][p] = "none" =>
        /\ row[a][p].status \in Settled
        /\ row[a][p] # [status |-> "SUCCESS", result |-> "text"]
        /\ row[a][p].status = "SUCCESS" => p \in usage[a]

\* No candidate of an earlier run is left when a run begins, and none of this
\* run once a report is stored.
NoStragglers(a) ==
    /\ job[a] \in {"absent", "queued"} \/ pc[a] \in {"mark", "select"} =>
        \A p \in Prompts : branch[a][p] = "off"
    /\ status[a] = "SUCCESS" =>
        \A p \in Prompts : branch[a][p] \in {"off", "text", "none"}

Gathered  == {"review", "parse", "review_error", "reviewed", "write", "store", "charge"}
Reviewing == Gathered \ {"review"}
Judged    == {"reviewed", "write", "store", "charge"}

\* What is known at each point of generate_report and of the end of handle_eval.
ReviewFacts(a) ==
    /\ pc[a] \in Gathered => Returned(a) /\ Heard(a) # {}
    /\ pc[a] \in {"gather", "review"} => picked[a] \subseteq Candidates
    /\ pc[a] \in Reviewing =>
        \E r \in Reviewers : picked[a] \cap Reviewers = {r}
    /\ pc[a] \in Judged => picked[a] \cap Reviewers \subseteq usage[a]
    /\ pc[a] \in Judged \ {"charge"} => report[a] \in Reports
    /\ pc[a] \in {"write", "store"} =>
        \A r \in picked[a] \cap Reviewers :
            row[a][r] = [status |-> "SUCCESS", result |-> report[a]]
    /\ pc[a] = "store" => report[a] # "broken"
    /\ pc[a] = "store" /\ report[a] = "findings" => batches[a] > 0

\* SuccessDependsOnSteps for one audit.
StepsSettled(a) ==
    status[a] = "SUCCESS" =>
        /\ \A p \in picked[a] : row[a][p].status \in Settled
        /\ \E c \in picked[a] \cap Candidates :
            row[a][c] = [status |-> "SUCCESS", result |-> "text"]
        /\ \E r \in picked[a] \cap Reviewers :
            row[a][r] = [status |-> "SUCCESS", result |-> output[a]]
        /\ output[a] \in Storable
        /\ output[a] = "findings" => batches[a] > 0

StepsOf(a) ==
    /\ \A p \in Prompts : BranchFacts(a, p)
    /\ NoStragglers(a) /\ ReviewFacts(a) /\ StepsSettled(a)

StepsInv == AccountInv /\ \A a \in Audits : StepsOf(a)

\* What StepsOf(b) speaks of.
Seen(b) == <<status[b], output[b], row[b], batches[b], job[b], pc[b], branch[b],
             picked[b], report[b], usage[b]>>

\* A step that changes nothing StepsOf speaks of keeps it.
LEMMA StepsFrame ==
    ASSUME NEW b \in Audits, StepsOf(b), UNCHANGED Seen(b)
    PROVE  StepsOf(b)'
BY DEF Seen, StepsOf, BranchFacts, NoStragglers, ReviewFacts, StepsSettled, Returned, Heard

\* A step of handle_eval keeps what StepsOf says of its audit.
LEMMA StepsWork ==
    ASSUME TypeOK, TypeOK', NEW a \in Audits, Control(a), StepsOf(a), Work(a)
    PROVE  StepsOf(a)'
<1> USE DEF TypeOK, database, queue, memory, GoTo
<1>1. CASE StartJob(a)
  <2>1. \A p \in Prompts : BranchFacts(a, p)'
    BY <1>1 DEF StartJob, MayStart, StepsOf, BranchFacts, NoStragglers, Control
  <2>2. NoStragglers(a)'
    BY <1>1 DEF StartJob, MayStart, StepsOf, NoStragglers, Control, Trying
  <2>3. ReviewFacts(a)'
    BY <1>1 DEF StartJob, MayStart, StepsOf, ReviewFacts, Returned, Heard, Gathered, Reviewing, Judged, Control, Trying
  <2>4. StepsSettled(a)'
    BY <1>1 DEF StartJob, MayStart, StepsOf, StepsSettled, Control, Trying
  <2> QED
    BY <2>1, <2>2, <2>3, <2>4 DEF StepsOf
<1>2. CASE GiveUp(a)
  <2>1. \A p \in Prompts : BranchFacts(a, p)'
    BY <1>2 DEF GiveUp, StepsOf, BranchFacts, NoStragglers, Control
  <2>2. NoStragglers(a)'
    BY <1>2 DEF GiveUp, StepsOf, NoStragglers, Control, Trying
  <2>3. ReviewFacts(a)'
    BY <1>2 DEF GiveUp, StepsOf, ReviewFacts, Returned, Heard, Gathered, Reviewing, Judged, Control, Trying
  <2>4. StepsSettled(a)'
    BY <1>2 DEF GiveUp, StepsOf, StepsSettled, Control, Trying
  <2> QED
    BY <2>1, <2>2, <2>3, <2>4 DEF StepsOf
<1>3. CASE MarkProcessing(a)
  <2>1. \A p \in Prompts : BranchFacts(a, p)'
    BY <1>3 DEF MarkProcessing, StepsOf, BranchFacts, NoStragglers, Control
  <2>2. NoStragglers(a)'
    BY <1>3 DEF MarkProcessing, StepsOf, NoStragglers, Control, Trying
  <2>3. ReviewFacts(a)'
    BY <1>3 DEF MarkProcessing, StepsOf, ReviewFacts, Returned, Heard, Gathered, Reviewing, Judged, Control, Trying
  <2>4. StepsSettled(a)'
    BY <1>3 DEF MarkProcessing, StepsOf, StepsSettled, Control, Trying
  <2> QED
    BY <2>1, <2>2, <2>3, <2>4 DEF StepsOf
<1>4. CASE SelectCandidates(a)
  <2>1. \A p \in Prompts : BranchFacts(a, p)'
    BY <1>4 DEF SelectCandidates, StepsOf, BranchFacts, NoStragglers, Control
  <2>2. NoStragglers(a)'
    BY <1>4 DEF SelectCandidates, StepsOf, NoStragglers, Control, Trying
  <2>3. ReviewFacts(a)'
    BY <1>4 DEF SelectCandidates, StepsOf, ReviewFacts, Returned, Heard, Gathered, Reviewing, Judged, Control, Trying
  <2>4. StepsSettled(a)'
    BY <1>4 DEF SelectCandidates, StepsOf, StepsSettled, Control, Trying
  <2> QED
    BY <2>1, <2>2, <2>3, <2>4 DEF StepsOf
<1>5. CASE Gather(a)
  <2>1. \A p \in Prompts : BranchFacts(a, p)'
    BY <1>5 DEF Gather, StepsOf, BranchFacts, NoStragglers, Control
  <2>2. NoStragglers(a)'
    BY <1>5 DEF Gather, StepsOf, NoStragglers, Control, Trying
  <2>3. ReviewFacts(a)'
    <3>1. UNCHANGED <<branch, picked>>
      BY <1>5 DEF Gather
    <3>2. pc'[a] = "review" => Returned(a) /\ Heard(a) # {}
      BY <1>5 DEF Gather, Wakes
    <3>3. pc'[a] \in {"review", "fail"} /\ picked[a] \subseteq Candidates
      BY <1>5 DEF Gather, StepsOf, ReviewFacts
    <3>4. Returned(a)' <=> Returned(a)
      BY <3>1 DEF Returned
    <3>5. Heard(a)' = Heard(a)
      BY <3>1 DEF Heard
    <3> QED
      BY <3>1, <3>2, <3>3, <3>4, <3>5 DEF ReviewFacts, Gathered, Reviewing, Judged
  <2>4. StepsSettled(a)'
    BY <1>5 DEF Gather, StepsOf, StepsSettled, Control, Trying
  <2> QED
    BY <2>1, <2>2, <2>3, <2>4 DEF StepsOf
<1>6. CASE BeginReview(a)
  <2>1. \A p \in Prompts : BranchFacts(a, p)'
    <3>1. \A p \in Prompts : p \in picked[a] => p \in picked'[a]
      BY <1>6 DEF BeginReview
    <3>2. \A p \in Candidates : row'[a][p] = row[a][p]
      BY <1>6 DEF BeginReview, Checkpoint, Candidates, Reviewers
    <3>3. UNCHANGED <<branch, usage>>
      BY <1>6 DEF BeginReview
    <3> QED
      BY <3>1, <3>2, <3>3 DEF StepsOf, BranchFacts
  <2>2. NoStragglers(a)'
    BY <1>6 DEF BeginReview, Checkpoint, StepsOf, NoStragglers, Control, Trying
  <2>3. ReviewFacts(a)'
    <3>1. PICK r \in Reviewers : picked' = [picked EXCEPT ![a] = @ \cup {r}]
      BY <1>6 DEF BeginReview
    <3>2. picked[a] \subseteq Candidates /\ Returned(a) /\ Heard(a) # {}
      BY <1>6 DEF BeginReview, StepsOf, ReviewFacts, Gathered
    <3>3. picked'[a] \cap Reviewers = {r} /\ picked'[a] \cap Candidates = picked[a] \cap Candidates
      BY <3>1, <3>2 DEF Candidates, Reviewers
    <3>4. UNCHANGED branch /\ pc'[a] = "parse"
      BY <1>6 DEF BeginReview
    <3>5. Returned(a)' /\ Heard(a)' # {}
      BY <3>2, <3>3, <3>4 DEF Returned, Heard
    <3> QED
      BY <3>3, <3>4, <3>5 DEF ReviewFacts, Gathered, Reviewing, Judged
  <2>4. StepsSettled(a)'
    BY <1>6 DEF BeginReview, Checkpoint, StepsOf, StepsSettled, Control, Trying
  <2> QED
    BY <2>1, <2>2, <2>3, <2>4 DEF StepsOf
<1>7. CASE NoReviewer(a)
  <2>1. \A p \in Prompts : BranchFacts(a, p)'
    BY <1>7 DEF NoReviewer, ReviewerError, StepsOf, BranchFacts, NoStragglers, Control
  <2>2. NoStragglers(a)'
    BY <1>7 DEF NoReviewer, ReviewerError, StepsOf, NoStragglers, Control, Trying
  <2>3. ReviewFacts(a)'
    BY <1>7 DEF NoReviewer, ReviewerError, StepsOf, ReviewFacts, Returned, Heard, Gathered, Reviewing, Judged, Control, Trying
  <2>4. StepsSettled(a)'
    BY <1>7 DEF NoReviewer, ReviewerError, StepsOf, StepsSettled, Control, Trying
  <2> QED
    BY <2>1, <2>2, <2>3, <2>4 DEF StepsOf
<1>8. CASE ReviewAnswer(a)
  <2>1. \A p \in Prompts : BranchFacts(a, p)'
    BY <1>8 DEF ReviewAnswer, AddUsage, StepsOf, BranchFacts, NoStragglers, Control
  <2>2. NoStragglers(a)'
    BY <1>8 DEF ReviewAnswer, AddUsage, StepsOf, NoStragglers, Control, Trying
  <2>3. ReviewFacts(a)'
    <3>1. UNCHANGED <<branch, picked>>
      BY <1>8 DEF ReviewAnswer
    <3>2. Returned(a)' <=> Returned(a)
      BY <3>1 DEF Returned
    <3>3. Heard(a)' = Heard(a)
      BY <3>1 DEF Heard
    <3> QED
      BY <1>8, <3>1, <3>2, <3>3 DEF ReviewAnswer, AddUsage, StepsOf, ReviewFacts, Gathered, Reviewing,
         Judged
  <2>4. StepsSettled(a)'
    BY <1>8 DEF ReviewAnswer, AddUsage, StepsOf, StepsSettled, Control, Trying
  <2> QED
    BY <2>1, <2>2, <2>3, <2>4 DEF StepsOf
<1>9. CASE ReviewNoAnswer(a)
  <2>1. \A p \in Prompts : BranchFacts(a, p)'
    BY <1>9 DEF ReviewNoAnswer, StepsOf, BranchFacts, NoStragglers, Control
  <2>2. NoStragglers(a)'
    BY <1>9 DEF ReviewNoAnswer, StepsOf, NoStragglers, Control, Trying
  <2>3. ReviewFacts(a)'
    BY <1>9 DEF ReviewNoAnswer, StepsOf, ReviewFacts, Returned, Heard, Gathered, Reviewing, Judged, Control, Trying
  <2>4. StepsSettled(a)'
    BY <1>9 DEF ReviewNoAnswer, StepsOf, StepsSettled, Control, Trying
  <2> QED
    BY <2>1, <2>2, <2>3, <2>4 DEF StepsOf
<1>10. CASE EndReview(a)
  <2>1. \A p \in Prompts : BranchFacts(a, p)'
    <3>1. \A p \in Candidates : row'[a][p] = row[a][p]
      BY <1>10 DEF EndReview, Checkpoint, Candidates, Reviewers
    <3>2. UNCHANGED <<branch, picked, usage>>
      BY <1>10 DEF EndReview
    <3> QED
      BY <3>1, <3>2 DEF StepsOf, BranchFacts
  <2>2. NoStragglers(a)'
    BY <1>10 DEF EndReview, Checkpoint, StepsOf, NoStragglers, Control, Trying
  <2>3. ReviewFacts(a)'
    <3>1. UNCHANGED <<branch, picked>>
      BY <1>10 DEF EndReview
    <3>2. Returned(a)' <=> Returned(a)
      BY <3>1 DEF Returned
    <3>3. Heard(a)' = Heard(a)
      BY <3>1 DEF Heard
    <3>4. picked[a] \subseteq Prompts /\ Reviewers \subseteq Prompts
      BY DEF Reviewers
    <3>5. CASE pc[a] = "reviewed"
      <4>1. PICK q \in Reviewers : picked[a] \cap Reviewers = {q}
        BY <3>5 DEF StepsOf, ReviewFacts, Reviewing, Gathered
      <4>2. Checkpoint(a, q, "SUCCESS", report[a]) /\ pc'[a] = "write" /\ UNCHANGED <<usage, report>>
        BY <1>10, <3>5, <4>1 DEF EndReview
      <4>3. row'[a][q] = [status |-> "SUCCESS", result |-> report[a]]
        BY <3>4, <4>2 DEF Checkpoint
      <4>4. \A r \in picked'[a] \cap Reviewers :
              row'[a][r] = [status |-> "SUCCESS", result |-> report'[a]]
        BY <3>1, <4>1, <4>2, <4>3
      <4>5. /\ Returned(a) /\ Heard(a) # {} /\ report[a] \in Reports
            /\ picked[a] \cap Reviewers \subseteq usage[a]
        BY <3>5 DEF StepsOf, ReviewFacts, Gathered, Judged
      <4> QED
        BY <3>1, <3>2, <3>3, <4>1, <4>2, <4>4, <4>5
           DEF ReviewFacts, Gathered, Reviewing, Judged
    <3>6. CASE pc[a] = "review_error"
      <4>1. pc'[a] = "fail"
        BY <1>10, <3>6 DEF EndReview
      <4> QED
        BY <4>1 DEF ReviewFacts, Gathered, Reviewing, Judged
    <3> QED
      BY <1>10, <3>5, <3>6 DEF EndReview
  <2>4. StepsSettled(a)'
    BY <1>10 DEF EndReview, Checkpoint, StepsOf, StepsSettled, Control, Trying
  <2> QED
    BY <2>1, <2>2, <2>3, <2>4 DEF StepsOf
<1>11. CASE WriteFindings(a)
  <2>1. \A p \in Prompts : BranchFacts(a, p)'
    BY <1>11 DEF WriteFindings, Creates, StepsOf, BranchFacts, NoStragglers, Control
  <2>2. NoStragglers(a)'
    BY <1>11 DEF WriteFindings, Creates, StepsOf, NoStragglers, Control, Trying
  <2>3. ReviewFacts(a)'
    <3>1. UNCHANGED <<branch, picked>>
      BY <1>11 DEF WriteFindings
    <3>2. Returned(a)' <=> Returned(a)
      BY <3>1 DEF Returned
    <3>3. Heard(a)' = Heard(a)
      BY <3>1 DEF Heard
    <3>4. /\ Returned(a) /\ Heard(a) # {} /\ report[a] \in Reports
          /\ \E r \in Reviewers : picked[a] \cap Reviewers = {r}
          /\ picked[a] \cap Reviewers \subseteq usage[a]
          /\ \A r \in picked[a] \cap Reviewers :
                row[a][r] = [status |-> "SUCCESS", result |-> report[a]]
      BY <1>11 DEF WriteFindings, StepsOf, ReviewFacts, Gathered, Reviewing, Judged
    <3>5. UNCHANGED <<row, usage, report>>
      BY <1>11 DEF WriteFindings
    <3>6. pc'[a] = IF report[a] = "broken" THEN "fail" ELSE "store"
      BY <1>11 DEF WriteFindings
    <3>7. report[a] = "findings" => batches'[a] > 0
      BY <1>11 DEF WriteFindings, Creates
    <3> QED
      BY <3>1, <3>2, <3>3, <3>4, <3>5, <3>6, <3>7
         DEF ReviewFacts, Gathered, Reviewing, Judged
  <2>4. StepsSettled(a)'
    BY <1>11 DEF WriteFindings, Creates, StepsOf, StepsSettled, Control, Trying
  <2> QED
    BY <2>1, <2>2, <2>3, <2>4 DEF StepsOf
<1>12. CASE StoreReport(a)
  <2>1. \A p \in Prompts : BranchFacts(a, p)'
    BY <1>12 DEF StoreReport, AfterStore, StepsOf, BranchFacts, NoStragglers, Control
  <2>2. NoStragglers(a)'
    <3>1. UNCHANGED <<branch, job>> /\ Returned(a) /\ pc'[a] \notin {"mark", "select"}
      BY <1>12 DEF StoreReport, AfterStore, StepsOf, ReviewFacts, Gathered
    <3>2. \A p \in Prompts : branch[a][p] \in {"off", "text", "none"}
      BY <3>1 DEF Returned, StepsOf, BranchFacts
    <3>3. job[a] = "running"
      BY <1>12 DEF StoreReport, Control
    <3> QED
      BY <3>1, <3>2, <3>3 DEF NoStragglers
  <2>3. ReviewFacts(a)'
    <3>1. UNCHANGED <<branch, picked>>
      BY <1>12 DEF StoreReport
    <3>2. Returned(a)' <=> Returned(a)
      BY <3>1 DEF Returned
    <3>3. Heard(a)' = Heard(a)
      BY <3>1 DEF Heard
    <3> QED
      BY <1>12, <3>1, <3>2, <3>3 DEF StoreReport, AfterStore, StepsOf, ReviewFacts, Gathered, Reviewing,
         Judged
  <2>4. StepsSettled(a)'
    <3>1. Returned(a) /\ Heard(a) # {}
      BY <1>12 DEF StoreReport, StepsOf, ReviewFacts, Gathered
    <3>2. PICK r \in Reviewers : picked[a] \cap Reviewers = {r}
      BY <1>12 DEF StoreReport, StepsOf, ReviewFacts, Reviewing, Gathered
    <3>3. row[a][r] = [status |-> "SUCCESS", result |-> report[a]]
      BY <1>12, <3>2 DEF StoreReport, StepsOf, ReviewFacts
    <3>8. \A p \in picked[a] : row[a][p].status \in Settled
      <4>1. ASSUME NEW p \in picked[a] \cap Candidates PROVE row[a][p].status \in Settled
        <5>1. branch[a][p] \in {"text", "none"} /\ p \in Prompts
          BY <3>1 DEF Returned, Candidates
        <5> QED
          BY <5>1 DEF StepsOf, BranchFacts, Settled
      <4>2. row[a][r].status \in Settled
        BY <3>3 DEF Settled
      <4>3. \A p \in picked[a] : p = r \/ p \in picked[a] \cap Candidates
        BY <3>2 DEF Candidates, Reviewers
      <4> QED
        BY <4>1, <4>2, <4>3
    <3>4. \E c \in picked[a] \cap Candidates :
            row[a][c] = [status |-> "SUCCESS", result |-> "text"]
      BY <3>1 DEF Heard, StepsOf, BranchFacts, Candidates
    <3>5. report[a] \in Storable /\ (report[a] = "findings" => batches[a] > 0)
      BY <1>12 DEF StoreReport, StepsOf, ReviewFacts, Judged, Reports, Storable
    <3>6. UNCHANGED <<picked, row, batches>> /\ output'[a] = report[a]
      BY <1>12 DEF StoreReport
    <3> QED
      BY <3>2, <3>3, <3>4, <3>5, <3>6, <3>8 DEF StepsSettled
  <2> QED
    BY <2>1, <2>2, <2>3, <2>4 DEF StepsOf
<1>13. CASE StoreFailure(a)
  <2>1. \A p \in Prompts : BranchFacts(a, p)'
    BY <1>13 DEF StoreFailure, StepsOf, BranchFacts, NoStragglers, Control
  <2>2. NoStragglers(a)'
    BY <1>13 DEF StoreFailure, StepsOf, NoStragglers, Control, Trying
  <2>3. ReviewFacts(a)'
    BY <1>13 DEF StoreFailure, StepsOf, ReviewFacts, Returned, Heard, Gathered, Reviewing, Judged, Control, Trying
  <2>4. StepsSettled(a)'
    BY <1>13 DEF StoreFailure, StepsOf, StepsSettled, Control, Trying
  <2> QED
    BY <2>1, <2>2, <2>3, <2>4 DEF StepsOf
<1>14. CASE Charge(a)
  <2>1. \A p \in Prompts : BranchFacts(a, p)'
    BY <1>14 DEF Charge, StepsOf, BranchFacts, NoStragglers, Control
  <2>2. NoStragglers(a)'
    BY <1>14 DEF Charge, StepsOf, NoStragglers, Control, Trying
  <2>3. ReviewFacts(a)'
    BY <1>14 DEF Charge, StepsOf, ReviewFacts, Returned, Heard, Gathered, Reviewing, Judged, Control, Trying
  <2>4. StepsSettled(a)'
    BY <1>14 DEF Charge, StepsOf, StepsSettled, Control, Trying
  <2> QED
    BY <2>1, <2>2, <2>3, <2>4 DEF StepsOf
<1>15. CASE RecordTransaction(a)
  <2>1. \A p \in Prompts : BranchFacts(a, p)'
    BY <1>15 DEF RecordTransaction, StepsOf, BranchFacts, NoStragglers, Control
  <2>2. NoStragglers(a)'
    BY <1>15 DEF RecordTransaction, StepsOf, NoStragglers, Control, Trying
  <2>3. ReviewFacts(a)'
    BY <1>15 DEF RecordTransaction, StepsOf, ReviewFacts, Returned, Heard, Gathered, Reviewing, Judged, Control, Trying
  <2>4. StepsSettled(a)'
    BY <1>15 DEF RecordTransaction, StepsOf, StepsSettled, Control, Trying
  <2> QED
    BY <2>1, <2>2, <2>3, <2>4 DEF StepsOf
<1>16. CASE FinishJob(a)
  <2>1. \A p \in Prompts : BranchFacts(a, p)'
    BY <1>16 DEF FinishJob, Outcome, StepsOf, BranchFacts, NoStragglers, Control
  <2>2. NoStragglers(a)'
    BY <1>16 DEF FinishJob, Outcome, StepsOf, NoStragglers, Control, Trying
  <2>3. ReviewFacts(a)'
    BY <1>16 DEF FinishJob, Outcome, StepsOf, ReviewFacts, Returned, Heard, Gathered, Reviewing, Judged, Control, Trying
  <2>4. StepsSettled(a)'
    BY <1>16 DEF FinishJob, Outcome, StepsOf, StepsSettled, Control, Trying
  <2> QED
    BY <2>1, <2>2, <2>3, <2>4 DEF StepsOf
<1> QED
  BY <1>1, <1>2, <1>3, <1>4, <1>5, <1>6, <1>7, <1>8, <1>9, <1>10, <1>11,
     <1>12, <1>13, <1>14, <1>15, <1>16 DEF Work

\* A step for one audit leaves the others alone.
LEMMA OthersUnseen ==
    ASSUME TypeOK, NEW a \in Audits, NEW b \in Audits, b # a,
           \/ Api(a) \/ Work(a) \/ LoseRequest(a) \/ MainDatabaseError(a) \/ Timeout(a)
           \/ \E p \in Candidates : Branch(a, p) \/ BranchDatabaseError(a, p)
    PROVE  UNCHANGED Seen(b)
<1> USE DEF TypeOK, database, queue, memory, GoTo, Seen, Checkpoint, MoveBranch, AddUsage
<1>1. CASE Api(a) \/ LoseRequest(a) \/ MainDatabaseError(a) \/ Timeout(a)
  BY <1>1 DEF Api, CreateAudit, Enqueue, LoseRequest, MainDatabaseError, Timeout
<1>2. CASE Work(a)
  <2>1. CASE StartJob(a) \/ GiveUp(a) \/ MarkProcessing(a) \/ SelectCandidates(a) \/ Gather(a)
    BY <2>1 DEF StartJob, MayStart, GiveUp, MarkProcessing, SelectCandidates, Gather
  <2>2. CASE BeginReview(a) \/ NoReviewer(a) \/ ReviewAnswer(a) \/ ReviewNoAnswer(a) \/ EndReview(a)
    BY <2>2 DEF BeginReview, NoReviewer, ReviewAnswer, ReviewNoAnswer, EndReview
  <2>3. CASE \/ WriteFindings(a) \/ StoreReport(a) \/ StoreFailure(a)
             \/ Charge(a) \/ RecordTransaction(a) \/ FinishJob(a)
    BY <2>3 DEF WriteFindings, StoreReport, StoreFailure, Charge, RecordTransaction, FinishJob
  <2> QED
    BY <1>2, <2>1, <2>2, <2>3 DEF Work
<1>3. ASSUME NEW p \in Candidates, Branch(a, p) \/ BranchDatabaseError(a, p)
      PROVE  UNCHANGED Seen(b)
  BY <1>3 DEF Branch, BranchBegin, BranchAnswer, BranchNoAnswer, BranchSave,
              BranchFail, BranchDatabaseError
<1> QED
  BY <1>1, <1>2, <1>3

\* A step of a candidate keeps what StepsOf says of its audit: such a step is
\* only taken before the report, since a report needs every branch to be over.
LEMMA StepsBranch ==
    ASSUME TypeOK, NEW a \in Audits, StepsOf(a), NEW p \in Candidates,
           Branch(a, p) \/ BranchDatabaseError(a, p)
    PROVE  StepsOf(a)'
<1> USE DEF TypeOK, database, queue, Checkpoint, MoveBranch
<1> DEFINE Running == {"begin", "ask", "save_text", "save_null", "error"}
<1>1. p \in Prompts
  BY DEF Candidates
<1>2. /\ branch[a][p] \in Running
      /\ UNCHANGED <<status, output, batches, job, pc, picked, report>>
  BY DEF Branch, BranchBegin, BranchAnswer, BranchNoAnswer, BranchSave, BranchFail,
         BranchDatabaseError
<1>3. p \in picked[a] /\ ~Returned(a)
  BY <1>1, <1>2 DEF StepsOf, BranchFacts, Returned
<1>4. /\ status[a] # "SUCCESS" /\ job[a] \notin {"absent", "queued"}
      /\ pc[a] \notin {"mark", "select"}
  BY <1>1, <1>2 DEF StepsOf, NoStragglers
<1>5. pc[a] \notin Gathered
  BY <1>3 DEF StepsOf, ReviewFacts
<1>6. ASSUME NEW q \in Prompts PROVE BranchFacts(a, q)'
  <2> BranchFacts(a, q) /\ BranchFacts(a, p)
    BY <1>1 DEF StepsOf
  <2> USE <1>1, <1>2 DEF BranchFacts, Settled
  <2>1. CASE BranchBegin(a, p)
    BY <2>1 DEF BranchBegin
  <2>2. CASE BranchAnswer(a, p)
    BY <2>2 DEF BranchAnswer, AddUsage
  <2>3. CASE BranchNoAnswer(a, p)
    BY <2>3 DEF BranchNoAnswer
  <2>4. CASE BranchSave(a, p)
    BY <2>4 DEF BranchSave
  <2>5. CASE BranchFail(a, p)
    BY <2>5 DEF BranchFail
  <2>6. CASE BranchDatabaseError(a, p)
    BY <2>6 DEF BranchDatabaseError
  <2> QED
    BY <2>1, <2>2, <2>3, <2>4, <2>5, <2>6 DEF Branch
<1>7. NoStragglers(a)' /\ StepsSettled(a)'
  BY <1>2, <1>4 DEF NoStragglers, StepsSettled
<1>8. ReviewFacts(a)'
  BY <1>2, <1>5 DEF StepsOf, ReviewFacts, Gathered, Reviewing, Judged
<1> QED
  BY <1>6, <1>7, <1>8 DEF StepsOf

\* Requests, errors of the database, timeouts and stops keep what StepsOf says
\* of the audits they hit.
LEMMA StepsFaults ==
    ASSUME TypeOK, NEW a \in Audits, Control(a), StepsOf(a),
           Api(a) \/ LoseRequest(a) \/ MainDatabaseError(a) \/ Timeout(a) \/ WorkerStops
    PROVE  StepsOf(a)'
<1> USE DEF TypeOK, database, queue, memory, GoTo
<1>1. CASE Api(a) \/ LoseRequest(a)
  <2>1. UNCHANGED <<output, row, batches, pc, branch, picked, report, usage>>
    BY <1>1 DEF Api, CreateAudit, Enqueue, LoseRequest
  <2>2. /\ job[a] = "absent" /\ job'[a] \in {"absent", "queued"}
        /\ status'[a] \in {status[a], "WAITING"}
    BY <1>1 DEF Api, CreateAudit, Enqueue, LoseRequest, Control
  <2>3. (\A p \in Prompts : BranchFacts(a, p)') /\ ReviewFacts(a)'
    BY <2>1 DEF StepsOf, BranchFacts, ReviewFacts, Returned, Heard
  <2>4. NoStragglers(a)' /\ StepsSettled(a)'
    BY <2>1, <2>2 DEF StepsOf, NoStragglers, StepsSettled
  <2> QED
    BY <2>3, <2>4 DEF StepsOf
<1>2. CASE MainDatabaseError(a)
  <2>1. /\ pc'[a] \in {"fail", "finish"} /\ pc[a] # "off"
        /\ UNCHANGED <<status, output, row, batches, job, branch, picked, report, usage>>
    BY <1>2 DEF MainDatabaseError, Guarded, Unguarded
  <2> QED
    BY <2>1 DEF StepsOf, BranchFacts, NoStragglers, ReviewFacts, StepsSettled, Gathered,
                Reviewing, Judged, Control
<1>3. CASE Timeout(a)
  <2>1. /\ pc'[a] = "finish" /\ pc[a] # "off" /\ branch'[a] = Cancelled(a)
        /\ UNCHANGED <<status, output, row, batches, job, picked, report, usage>>
    BY <1>3 DEF Timeout
  <2>2. \A p \in Prompts : branch'[a][p] \in {branch[a][p], "off"}
    BY <2>1 DEF Cancelled
  <2>3. \A p \in Prompts : BranchFacts(a, p)'
    BY <2>1, <2>2 DEF StepsOf, BranchFacts
  <2>4. NoStragglers(a)'
    BY <2>1, <2>2 DEF StepsOf, NoStragglers, Control
  <2>5. ReviewFacts(a)' /\ StepsSettled(a)'
    BY <2>1 DEF StepsOf, ReviewFacts, StepsSettled, Gathered, Reviewing, Judged
  <2> QED
    BY <2>3, <2>4, <2>5 DEF StepsOf
<1>4. CASE WorkerStops
  <2>1. /\ pc'[a] = "off" /\ \A p \in Prompts : branch'[a][p] = "off"
        /\ UNCHANGED <<status, output, row, batches, picked, report, usage>>
    BY <1>4 DEF WorkerStops
  <2> QED
    BY <2>1 DEF StepsOf, BranchFacts, NoStragglers, ReviewFacts, StepsSettled, Gathered,
                Reviewing, Judged
<1> QED
  BY <1>1, <1>2, <1>3, <1>4

\* Every step keeps StepsInv.
LEMMA StepsStep == StepsInv /\ [Next]_vars => StepsInv'
<1> SUFFICES ASSUME StepsInv, [Next]_vars, NEW b \in Audits
             PROVE  StepsOf(b)'
  BY AccountStep DEF StepsInv
<1> TypeOK /\ TypeOK' /\ Control(b) /\ StepsOf(b)
  BY TypeStep DEF StepsInv, AccountInv
<1>1. ASSUME NEW a \in Audits,
             \/ Api(a) \/ Work(a) \/ LoseRequest(a) \/ MainDatabaseError(a) \/ Timeout(a)
             \/ \E p \in Candidates : Branch(a, p) \/ BranchDatabaseError(a, p)
      PROVE  StepsOf(b)'
  <2>1. CASE a = b
    BY <1>1, <2>1, StepsWork, StepsBranch, StepsFaults
  <2>2. CASE a # b
    BY <1>1, <2>2, OthersUnseen, StepsFrame
  <2> QED
    BY <2>1, <2>2
<1>2. CASE WorkerStops
  BY <1>2, StepsFaults
<1>3. CASE (\E p \in Prompts : UpdatePrompt(p)) \/ UNCHANGED vars
  <2>1. UNCHANGED Seen(b)
    BY <1>3 DEF UpdatePrompt, vars, database, queue, memory, Seen
  <2> QED
    BY <2>1, StepsFrame
<1> QED
  BY <1>1, <1>2, <1>3 DEF Next

\* StepsInv is an invariant.
LEMMA StepsInvariant == Spec => []StepsInv
<1>1. Init => StepsInv
  <2> SUFFICES ASSUME Init PROVE StepsInv
    OBVIOUS
  <2>1. AccountInv
    BY AccountInit
  <2> QED
    BY <2>1 DEF Init, StepsInv, StepsOf, BranchFacts, NoStragglers, ReviewFacts,
                StepsSettled, Gathered, Reviewing, Judged
<1> QED
  BY <1>1, StepsStep, PTL DEF Spec

(***************************************************************************)
(* An audit that is SUCCESS agrees with its steps, whatever the            *)
(* interleaving of its candidates, the faults and the runs before it.      *)
(***************************************************************************)
THEOREM SuccessAgrees == Spec => []SuccessDependsOnSteps
<1>1. StepsInv => SuccessDependsOnSteps
  BY DEF StepsInv, StepsOf, StepsSettled, SuccessDependsOnSteps
<1> QED
  BY <1>1, StepsInvariant, PTL

(***************************************************************************)
(* The reviewer is given exactly the answers that are checkpointed.        *)
(***************************************************************************)
THEOREM ReviewAgrees == Spec => []ReviewHearsWhatIsSaved
<1>1. ASSUME StepsInv, NEW a \in Audits,
             pc[a] \in {"review", "parse", "reviewed", "write", "store"}
      PROVE  /\ Heard(a) # {}
             /\ Heard(a) = {c \in picked[a] \cap Candidates :
                             row[a][c] = [status |-> "SUCCESS", result |-> "text"]}
  <2>1. Returned(a) /\ Heard(a) # {}
    BY <1>1 DEF StepsInv, StepsOf, ReviewFacts, Gathered
  <2>2. ASSUME NEW c \in picked[a] \cap Candidates
        PROVE  branch[a][c] = "text" <=>
                 row[a][c] = [status |-> "SUCCESS", result |-> "text"]
    BY <1>1, <2>1 DEF Returned, StepsInv, StepsOf, BranchFacts, Candidates
  <2> QED
    BY <2>1, <2>2 DEF Heard
<1>2. StepsInv => ReviewHearsWhatIsSaved
  BY <1>1 DEF ReviewHearsWhatIsSaved
<1> QED
  BY <1>2, StepsInvariant, PTL

(***************************************************************************)
(* Every answer of the run is in the usage when the payer is charged.      *)
(***************************************************************************)
THEOREM CostCovers == Spec => []CostCoversAnswers
<1>1. ASSUME StepsInv, NEW a \in Audits, pc[a] = "charge",
             NEW p \in picked[a], row[a][p].status = "SUCCESS"
      PROVE  p \in usage[a]
  <2>1. /\ p \in Prompts /\ StepsOf(a)
        /\ Returned(a) /\ picked[a] \cap Reviewers \subseteq usage[a]
    BY <1>1 DEF StepsInv, AccountInv, TypeOK, StepsOf, ReviewFacts, Gathered, Judged
  <2>2. CASE p \in Candidates
    BY <1>1, <2>1, <2>2 DEF Returned, StepsOf, BranchFacts
  <2>3. CASE p \in Reviewers
    BY <1>1, <2>1, <2>3
  <2> QED
    BY <2>1, <2>2, <2>3 DEF Candidates, Reviewers
<1>2. StepsInv => CostCoversAnswers
  BY <1>1 DEF CostCoversAnswers
<1> QED
  BY <1>2, StepsInvariant, PTL

(***************************************************************************)
(* Outside of the gather, a candidate of the audit still runs only if one  *)
(* has raised.                                                             *)
(***************************************************************************)
Idle(a)     == \A p \in Prompts : branch[a][p] \in Over \cup {"off"}
BranchesEnd == \A a \in Audits : pc[a] = "gather" \/ Raised(a) \/ Idle(a)

\* Every step keeps BranchesEnd: only a gather that is pending, or one that
\* raised, has candidates that still run.
LEMMA BranchesStep ==
    StepsInv /\ BranchesEnd /\ [Next]_vars => BranchesEnd'
<1> SUFFICES ASSUME StepsInv, BranchesEnd, [Next]_vars, NEW b \in Audits
             PROVE  (pc[b] = "gather" \/ Raised(b) \/ Idle(b))'
  BY DEF BranchesEnd
<1> /\ TypeOK /\ Control(b) /\ StepsOf(b)
    /\ pc[b] = "gather" \/ Raised(b) \/ Idle(b)
  BY DEF StepsInv, AccountInv, BranchesEnd
<1> USE DEF TypeOK, database, queue, memory, GoTo
<1>1. CASE UNCHANGED <<pc[b], branch[b]>>
  BY <1>1 DEF Raised, Idle
<1>2. ASSUME NEW a \in Audits, Work(a), ~UNCHANGED <<pc[b], branch[b]>>
      PROVE  (pc[b] = "gather" \/ Raised(b) \/ Idle(b))'
  <2>1. a = b
    BY <1>2, OthersUnseen DEF Seen
  <2>2. CASE SelectCandidates(b)
    BY <2>2 DEF SelectCandidates
  <2>3. CASE Gather(b)
    <3>1. UNCHANGED branch
      BY <2>3 DEF Gather
    <3>2. CASE Raised(b)
      BY <3>1, <3>2 DEF Raised
    <3>3. CASE Returned(b)
      <4>1. ASSUME NEW p \in Prompts PROVE branch[b][p] \in Over \cup {"off"}
        BY <3>3 DEF Returned, StepsOf, BranchFacts, Over
      <4> QED
        BY <3>1, <4>1 DEF Idle
    <3> QED
      BY <2>3, <3>2, <3>3 DEF Gather, Wakes
  <2>4. CASE UNCHANGED branch /\ pc[b] # "gather"
    BY <2>4 DEF Raised, Idle
  <2>5. CASE StartJob(b) \/ GiveUp(b) \/ MarkProcessing(b)
    BY <1>2, <2>1, <2>4, <2>5 DEF StartJob, MayStart, GiveUp, MarkProcessing, Control
  <2>6. CASE BeginReview(b) \/ NoReviewer(b) \/ ReviewAnswer(b) \/ ReviewNoAnswer(b) \/ EndReview(b)
    BY <2>4, <2>6 DEF BeginReview, NoReviewer, ReviewAnswer, ReviewNoAnswer, EndReview
  <2>7. CASE \/ WriteFindings(b) \/ StoreReport(b) \/ StoreFailure(b)
             \/ Charge(b) \/ RecordTransaction(b) \/ FinishJob(b)
    BY <2>4, <2>7 DEF WriteFindings, StoreReport, StoreFailure, Charge, RecordTransaction, FinishJob
  <2> QED
    BY <1>2, <2>1, <2>2, <2>3, <2>5, <2>6, <2>7 DEF Work
<1>3. ASSUME NEW a \in Audits, Api(a) \/ LoseRequest(a)
      PROVE  (pc[b] = "gather" \/ Raised(b) \/ Idle(b))'
  BY <1>1, <1>3 DEF Api, CreateAudit, Enqueue, LoseRequest
<1>4. ASSUME NEW a \in Audits, MainDatabaseError(a)
      PROVE  (pc[b] = "gather" \/ Raised(b) \/ Idle(b))'
  BY <1>4 DEF MainDatabaseError, Guarded, Unguarded, Raised, Idle
<1>5. ASSUME NEW a \in Audits, Timeout(a)
      PROVE  (pc[b] = "gather" \/ Raised(b) \/ Idle(b))'
  <2>1. CASE a = b
    <3>1. branch'[b] = Cancelled(b)
      BY <1>5, <2>1 DEF Timeout
    <3>2. CASE pc[b] = "gather" /\ ~Raised(b)
      BY <3>1, <3>2 DEF Cancelled, Idle, Over
    <3>3. CASE ~(pc[b] = "gather" /\ ~Raised(b))
      BY <3>1, <3>3 DEF Cancelled, Idle, Raised
    <3> QED
      BY <3>2, <3>3
  <2> QED
    BY <1>1, <1>5, <2>1, OthersUnseen DEF Seen
<1>6. ASSUME NEW a \in Audits, NEW p \in Candidates,
             Branch(a, p) \/ BranchDatabaseError(a, p)
      PROVE  (pc[b] = "gather" \/ Raised(b) \/ Idle(b))'
  <2>1. CASE a = b
    <3>1. branch[b][p] \notin Over \cup {"off"} /\ p \in Prompts /\ UNCHANGED pc
      BY <1>6, <2>1 DEF Branch, BranchBegin, BranchAnswer, BranchNoAnswer, BranchSave,
                        BranchFail, BranchDatabaseError, Over, Candidates
    <3>2. \A q \in Prompts \ {p} : branch'[b][q] = branch[b][q]
      BY <1>6, <2>1 DEF Branch, BranchBegin, BranchAnswer, BranchNoAnswer, BranchSave,
                        BranchFail, BranchDatabaseError, MoveBranch
    <3> QED
      BY <3>1, <3>2 DEF Raised, Idle, Over
  <2> QED
    BY <1>1, <1>6, <2>1, OthersUnseen DEF Seen
<1>7. CASE WorkerStops
  BY <1>7 DEF WorkerStops, Idle
<1>8. CASE (\E p \in Prompts : UpdatePrompt(p)) \/ UNCHANGED vars
  BY <1>1, <1>8 DEF UpdatePrompt, vars
<1> QED
  BY <1>1, <1>2, <1>3, <1>4, <1>5, <1>6, <1>7, <1>8 DEF Next

(***************************************************************************)
(* Once a job is finished its audit, its findings and its charges stay as  *)
(* they are, and its steps too, unless a candidate raised: nothing of the  *)
(* run is left that could checkpoint.                                      *)
(***************************************************************************)
THEOREM FinishedStays == Spec => FinishedIsFinal
<1>1. Init => BranchesEnd
  BY DEF Init, BranchesEnd, Idle
<1>2. ASSUME StepsInv, BranchesEnd, [Next]_vars, NEW b \in Audits,
             job[b] = "finished", ~Raised(b)
      PROVE  UNCHANGED row[b]
  <2> TypeOK /\ Control(b) /\ pc[b] = "off" /\ Idle(b)
    BY <1>2 DEF StepsInv, AccountInv, Control, BranchesEnd
  <2>1. ASSUME NEW p \in Candidates PROVE ~(Branch(b, p) \/ BranchDatabaseError(b, p))
    BY DEF Branch, BranchBegin, BranchAnswer, BranchNoAnswer, BranchSave, BranchFail,
           BranchDatabaseError, Idle, Over, Candidates
  <2>2. ~Work(b)
    BY <1>2 DEF Work, StartJob, MayStart, GiveUp, MarkProcessing, SelectCandidates,
                Gather, BeginReview, NoReviewer, ReviewAnswer, ReviewNoAnswer,
                EndReview, WriteFindings, StoreReport, StoreFailure, Charge,
                RecordTransaction, FinishJob
  <2>3. ASSUME Api(b) \/ LoseRequest(b) \/ MainDatabaseError(b) \/ Timeout(b)
        PROVE  UNCHANGED row[b]
    BY <2>3 DEF Api, CreateAudit, Enqueue, LoseRequest, MainDatabaseError, Timeout, database
  <2>4. CASE WorkerStops \/ (\E p \in Prompts : UpdatePrompt(p)) \/ UNCHANGED vars
    BY <2>4 DEF WorkerStops, UpdatePrompt, vars, database
  <2>5. ASSUME NEW a \in Audits, a # b,
               \/ Api(a) \/ Work(a) \/ LoseRequest(a) \/ MainDatabaseError(a) \/ Timeout(a)
               \/ \E p \in Candidates : Branch(a, p) \/ BranchDatabaseError(a, p)
        PROVE  UNCHANGED row[b]
    BY <2>5, OthersUnseen DEF Seen
  <2> QED
    BY <1>2, <2>1, <2>2, <2>3, <2>4, <2>5 DEF Next
<1>3. StepsInv /\ BranchesEnd /\ [Next]_vars =>
        [\A a \in Audits : job[a] = "finished" =>
            /\ UNCHANGED <<status[a], output[a], batches[a], charges[a], entries[a]>>
            /\ ~Raised(a) => UNCHANGED row[a]]_vars
  BY <1>2, OutcomeStays DEF StepsInv
<1> QED
  BY <1>1, <1>3, BranchesStep, StepsInvariant, PTL DEF Spec, FinishedIsFinal

(***************************************************************************)
(* While gather waits, every candidate it waits for was started.           *)
(***************************************************************************)
Started(a)  == pc[a] = "gather" => \A p \in picked[a] : branch[a][p] # "off"
StartedInv  == \A a \in Audits : Started(a)

\* Every step keeps StartedInv: only what ends the run switches a branch off.
LEMMA StartedStep == StepsInv /\ StartedInv /\ [Next]_vars => StartedInv'
<1> SUFFICES ASSUME StepsInv, StartedInv, [Next]_vars, NEW b \in Audits
             PROVE  Started(b)'
  BY DEF StartedInv
<1> TypeOK /\ Control(b) /\ Started(b)
  BY DEF StepsInv, AccountInv, StartedInv
<1> USE DEF TypeOK, database, queue, memory, GoTo, Started
<1>1. CASE UNCHANGED Seen(b)
  BY <1>1 DEF Seen
<1>2. ASSUME NEW a \in Audits, a # b,
             \/ Api(a) \/ Work(a) \/ LoseRequest(a) \/ MainDatabaseError(a) \/ Timeout(a)
             \/ \E p \in Candidates : Branch(a, p) \/ BranchDatabaseError(a, p)
      PROVE  Started(b)'
  BY <1>1, <1>2, OthersUnseen
<1>3. ASSUME Api(b) \/ LoseRequest(b) \/ MainDatabaseError(b) \/ Timeout(b) PROVE Started(b)'
  BY <1>3 DEF Api, CreateAudit, Enqueue, LoseRequest, MainDatabaseError, Timeout
<1>4. ASSUME Work(b) PROVE Started(b)'
  <2>1. CASE SelectCandidates(b)
    BY <2>1 DEF SelectCandidates, Candidates
  <2>2. CASE pc'[b] # "gather"
    BY <2>2
  <2>3. CASE StartJob(b) \/ GiveUp(b) \/ MarkProcessing(b) \/ Gather(b)
    BY <2>2, <2>3 DEF StartJob, MayStart, GiveUp, MarkProcessing, Gather, Control
  <2>4. CASE BeginReview(b) \/ NoReviewer(b) \/ ReviewAnswer(b) \/ ReviewNoAnswer(b) \/ EndReview(b)
    BY <2>2, <2>4 DEF BeginReview, NoReviewer, ReviewerError, ReviewAnswer, ReviewNoAnswer, EndReview
  <2>5. CASE \/ WriteFindings(b) \/ StoreReport(b) \/ StoreFailure(b)
             \/ Charge(b) \/ RecordTransaction(b) \/ FinishJob(b)
    BY <2>2, <2>5 DEF WriteFindings, StoreReport, AfterStore, StoreFailure, Charge,
                      RecordTransaction, FinishJob
  <2> QED
    BY <1>4, <2>1, <2>3, <2>4, <2>5 DEF Work
<1>5. ASSUME NEW p \in Candidates, Branch(b, p) \/ BranchDatabaseError(b, p)
      PROVE  Started(b)'
  <2>1. /\ UNCHANGED <<pc, picked>>
        /\ p \in Prompts /\ branch'[b][p] # "off"
        /\ \A q \in Prompts \ {p} : branch'[b][q] = branch[b][q]
    BY <1>5 DEF Branch, BranchBegin, BranchAnswer, BranchNoAnswer, BranchSave, BranchFail,
                BranchDatabaseError, MoveBranch, Candidates
  <2> QED
    BY <2>1
<1>6. CASE WorkerStops
  BY <1>6 DEF WorkerStops
<1>7. CASE (\E p \in Prompts : UpdatePrompt(p)) \/ UNCHANGED vars
  BY <1>1, <1>7 DEF UpdatePrompt, vars, Seen
<1> QED
  BY <1>2, <1>3, <1>4, <1>5, <1>6, <1>7 DEF Next

(***************************************************************************)
(* No accepted request is ever stuck, whatever the candidates, the faults  *)
(* and the admin do: of all waiting in the worker only gather waits for    *)
(* somebody else, and whom it waits for runs or has woken it. When its job *)
(* is over, it is settled, unless a fault hit it. (That every job does end *)
(* under fairness, is AcceptedFinishes, which TLC checks.)                 *)
(***************************************************************************)
THEOREM NobodyIsStuck == Spec => []StuckOnlyByMishap
<1>1. ASSUME StepsInv, StartedInv, NEW a \in Audits, pc[a] = "gather"
      PROVE  Wakes(a) \/ \E p \in picked[a] : branch[a][p] \notin Over \cup {"off"}
  <2>1. SUFFICES ASSUME \A p \in picked[a] : branch[a][p] \in Over \cup {"off"}, ~Raised(a)
                 PROVE  Returned(a)
    BY DEF Wakes
  <2>2. picked[a] \subseteq Prompts
    BY <1>1 DEF StepsInv, AccountInv, TypeOK
  <2> QED
    BY <1>1, <2>1, <2>2 DEF StartedInv, Started, Returned, Raised, Over
<1>2. ASSUME StepsInv, NEW a \in Audits, pc[a] \in {"reviewed", "review_error"}
      PROVE  picked[a] \cap Reviewers # {}
  BY <1>2 DEF StepsInv, StepsOf, ReviewFacts, Reviewing, Gathered
<1>3. ASSUME StepsInv, NEW a \in Audits, request[a] = "answered", job[a] # "finished"
      PROVE  \/ job[a] = "queued" /\ (MayStart(a) \/ tries[a] = MaxTries)
             \/ pc[a] # "off"
  <2>1. Control(a) /\ job[a] \in {"absent", "queued", "running", "finished"}
        /\ tries[a] \in 0 .. MaxTries
    BY <1>3 DEF StepsInv, AccountInv, TypeOK
  <2>2. tries[a] < MaxTries \/ tries[a] = MaxTries
    BY <2>1, BoundsAssumption
  <2> QED
    BY <1>3, <2>1, <2>2 DEF Control, MayStart
<1>4. StepsInv /\ StartedInv => NeverStuck
  BY <1>1, <1>2, <1>3 DEF NeverStuck
<1>5. Init => StartedInv
  BY DEF Init, StartedInv, Started
<1> QED
  BY <1>4, <1>5, StartedStep, StepsInvariant, FinishedIsSettled, PTL
     DEF Spec, StuckOnlyByMishap

(***************************************************************************)
(* The Audit object handle_eval holds has the stored report, until a save  *)
(* of a new one fails: what the except clause may then store.              *)
(***************************************************************************)
HeldFacts(a) ==
    pc[a] \in Trying \cup {"mark"} =>
        \/ held[a] = output[a]
        \/ pc[a] = "fail" /\ held[a] \in Storable

HeldInv == \A a \in Audits : HeldFacts(a)

\* A report that is about to be stored has a structure.
LEMMA StoredReport ==
    ASSUME NEW a \in Audits, StepsOf(a), pc[a] = "store"
    PROVE  report[a] \in Storable
BY DEF StepsOf, ReviewFacts, Judged, Reports, Storable

\* Every step keeps HeldInv.
LEMMA HeldStep == StepsInv /\ HeldInv /\ [Next]_vars => HeldInv'
<1> SUFFICES ASSUME StepsInv, HeldInv, [Next]_vars, NEW b \in Audits
             PROVE  HeldFacts(b)'
  BY DEF HeldInv
<1> TypeOK /\ Control(b) /\ StepsOf(b) /\ HeldFacts(b)
  BY DEF StepsInv, AccountInv, HeldInv
<1> USE DEF TypeOK, HeldFacts, Trying, database, queue, memory, GoTo
<1>1. ASSUME NEW a \in Audits, Api(a) \/ LoseRequest(a) PROVE HeldFacts(b)'
  BY <1>1 DEF Api, CreateAudit, Enqueue, LoseRequest
<1>2. ASSUME NEW a \in Audits, Work(a) PROVE HeldFacts(b)'
  <2>1. CASE StartJob(a) \/ GiveUp(a) \/ MarkProcessing(a)
    BY <2>1 DEF StartJob, MayStart, GiveUp, MarkProcessing
  <2>2. CASE SelectCandidates(a) \/ Gather(a)
    BY <2>2 DEF SelectCandidates, Gather
  <2>3. CASE BeginReview(a) \/ NoReviewer(a) \/ ReviewAnswer(a) \/ ReviewNoAnswer(a)
    BY <2>3 DEF BeginReview, NoReviewer, ReviewerError, ReviewAnswer, ReviewNoAnswer
  <2>4. CASE EndReview(a) \/ WriteFindings(a)
    BY <2>4 DEF EndReview, WriteFindings
  <2>5. CASE StoreReport(a)
    BY <2>5 DEF StoreReport, AfterStore
  <2>6. CASE StoreFailure(a) \/ Charge(a) \/ RecordTransaction(a) \/ FinishJob(a)
    BY <2>6 DEF StoreFailure, Charge, RecordTransaction, FinishJob
  <2> QED
    BY <1>2, <2>1, <2>2, <2>3, <2>4, <2>5, <2>6 DEF Work
<1>3. ASSUME NEW a \in Audits, MainDatabaseError(a) PROVE HeldFacts(b)'
  BY <1>3, StoredReport DEF MainDatabaseError, Guarded, Unguarded
<1>4. ASSUME NEW a \in Audits, Timeout(a) PROVE HeldFacts(b)'
  BY <1>4 DEF Timeout
<1>5. ASSUME NEW a \in Audits, NEW p \in Candidates,
             Branch(a, p) \/ BranchDatabaseError(a, p)
      PROVE  HeldFacts(b)'
  BY <1>5 DEF Branch, BranchBegin, BranchAnswer, BranchNoAnswer, BranchSave,
              BranchFail, BranchDatabaseError
<1>6. CASE WorkerStops \/ (\E p \in Prompts : UpdatePrompt(p)) \/ UNCHANGED vars
  BY <1>6 DEF WorkerStops, UpdatePrompt, vars
<1> QED
  BY <1>1, <1>2, <1>3, <1>4, <1>5, <1>6 DEF Next

\* Every step is a step of AuditPromise, or changes nothing it speaks of.
LEMMA PromiseStep ==
    StepsInv /\ HeldInv /\ [Next]_vars => [Promise!Next]_(Promise!vars)
<1> SUFFICES ASSUME StepsInv, HeldInv, [Next]_vars,
                    ~UNCHANGED Promise!vars
             PROVE  Promise!Next
  OBVIOUS
<1> TypeOK
  BY DEF StepsInv, AccountInv
<1> USE DEF TypeOK, database, queue, memory, GoTo
<1>1. ASSUME NEW a \in Audits, Api(a) \/ LoseRequest(a) PROVE Promise!Next
  <2> Control(a)
    BY DEF StepsInv, AccountInv
  <2>1. CASE CreateAudit(a)
    BY <2>1 DEF CreateAudit, Control, Promise!Next, Promise!Submit
  <2>2. CASE Enqueue(a) \/ LoseRequest(a)
    BY <2>2 DEF Enqueue, LoseRequest, Control, Promise!vars
  <2> QED
    BY <1>1, <2>1, <2>2 DEF Api
<1>2. ASSUME NEW a \in Audits, Work(a) PROVE Promise!Next
  <2> Control(a) /\ StepsOf(a) /\ HeldFacts(a)
    BY DEF StepsInv, AccountInv, HeldInv
  <2> USE DEF Control, Trying
  <2>1. CASE StartJob(a)
    BY <2>1 DEF StartJob, MayStart, Promise!vars
  <2>2. CASE GiveUp(a)
    BY <2>2 DEF GiveUp, Promise!Next, Promise!Close, Promise!Open
  <2>3. CASE MarkProcessing(a)
    <3>1. output' = output
      BY <2>3 DEF MarkProcessing, HeldFacts
    <3> QED
      BY <2>3, <3>1 DEF MarkProcessing, Promise!Next, Promise!Begin, Promise!Open
  <2>4. CASE SelectCandidates(a) \/ Gather(a)
    BY <2>4 DEF SelectCandidates, Gather, Promise!vars
  <2>5. CASE BeginReview(a) \/ NoReviewer(a) \/ ReviewAnswer(a) \/ ReviewNoAnswer(a)
    BY <2>5 DEF BeginReview, NoReviewer, ReviewerError, ReviewAnswer, ReviewNoAnswer, Promise!vars
  <2>6. CASE EndReview(a) \/ WriteFindings(a)
    BY <2>6 DEF EndReview, WriteFindings, Promise!vars
  <2>7. CASE StoreReport(a)
    <3>1. Promise!Open(a) /\ status[a] = "PROCESSING"
      BY <2>7 DEF StoreReport, Promise!Open
    <3>2. /\ status' = [status EXCEPT ![a] = "SUCCESS"]
          /\ output' = [output EXCEPT ![a] = report[a]]
          /\ report[a] \in Storable
          /\ UNCHANGED <<charges, job>>
      BY <2>7, StoredReport DEF StoreReport
    <3>3. [x \in Audits |-> pc'[x] = "charge"]
            = [[x \in Audits |-> pc[x] = "charge"] EXCEPT ![a] = (pc'[a] = "charge")]
      <4>1. \A x \in Audits : x # a => pc'[x] = pc[x]
        BY <2>7 DEF StoreReport
      <4> QED
        BY <4>1
    <3>4. (pc'[a] = "charge") \in BOOLEAN
      OBVIOUS
    <3> QED
      BY <3>1, <3>2, <3>3, <3>4 DEF Promise!Next, Promise!Succeed
  <2>8. CASE StoreFailure(a)
    <3>1. Promise!Open(a) /\ status[a] = "PROCESSING"
      BY <2>8 DEF StoreFailure, Promise!Open
    <3>2. /\ status' = [status EXCEPT ![a] = "FAILED"]
          /\ output' = [output EXCEPT ![a] = held[a]]
          /\ held[a] \in {output[a]} \cup Storable
          /\ UNCHANGED <<charges, job>>
      BY <2>8 DEF StoreFailure, HeldFacts
    <3>3. [x \in Audits |-> pc'[x] = "charge"] = [x \in Audits |-> pc[x] = "charge"]
      BY <2>8 DEF StoreFailure
    <3> QED
      BY <3>1, <3>2, <3>3 DEF Promise!Next, Promise!Fail
  <2>9. CASE Charge(a)
    BY <2>9 DEF Charge, Promise!Next, Promise!Pay, Promise!Open
  <2>10. CASE RecordTransaction(a)
    BY <2>10 DEF RecordTransaction, Promise!vars
  <2>11. CASE FinishJob(a)
    <3>1. Promise!Open(a) /\ pc[a] # "charge"
      BY <2>11 DEF FinishJob, Promise!Open
    <3>2. [x \in Audits |-> job'[x] = "finished"]
            = [[x \in Audits |-> job[x] = "finished"] EXCEPT ![a] = TRUE]
      BY <2>11 DEF FinishJob, Outcome
    <3>3. [x \in Audits |-> pc'[x] = "charge"] = [x \in Audits |-> pc[x] = "charge"]
      BY <2>11 DEF FinishJob
    <3> QED
      BY <2>11, <3>1, <3>2, <3>3 DEF FinishJob, Promise!Next, Promise!Close
  <2> QED
    BY <1>2, <2>1, <2>2, <2>3, <2>4, <2>5, <2>6, <2>7, <2>8, <2>9, <2>10, <2>11 DEF Work
<1>3. ASSUME NEW a \in Audits, MainDatabaseError(a) \/ Timeout(a) PROVE Promise!Next
  <2>1. /\ UNCHANGED <<status, output, charges, job>>
        /\ \A x \in Audits : pc'[x] = "charge" <=> x # a /\ pc[x] = "charge"
    BY <1>3 DEF MainDatabaseError, Timeout
  <2>2. [x \in Audits |-> pc'[x] = "charge"]
          = [x \in Audits |-> x \notin {a} /\ [y \in Audits |-> pc[y] = "charge"][x]]
    BY <2>1
  <2>3. {a} \in SUBSET Audits
    OBVIOUS
  <2> QED
    BY <2>1, <2>2, <2>3 DEF Promise!Next, Promise!Waive
<1>4. ASSUME NEW a \in Audits, NEW p \in Candidates,
             Branch(a, p) \/ BranchDatabaseError(a, p)
      PROVE  Promise!Next
  BY <1>4 DEF Branch, BranchBegin, BranchAnswer, BranchNoAnswer, BranchSave,
              BranchFail, BranchDatabaseError, Promise!vars
<1>5. CASE WorkerStops
  <2>1. UNCHANGED <<status, output, charges>>
    BY <1>5 DEF WorkerStops
  <2>2. [x \in Audits |-> pc'[x] = "charge"]
          = [x \in Audits |-> x \notin Audits /\ [y \in Audits |-> pc[y] = "charge"][x]]
    BY <1>5 DEF WorkerStops
  <2>3. [x \in Audits |-> job'[x] = "finished"] = [x \in Audits |-> job[x] = "finished"]
    BY <1>5 DEF WorkerStops
  <2>4. Audits \in SUBSET Audits
    OBVIOUS
  <2> QED
    BY <2>1, <2>2, <2>3, <2>4 DEF Promise!Next, Promise!Waive
<1>6. CASE (\E p \in Prompts : UpdatePrompt(p)) \/ UNCHANGED vars
  BY <1>6 DEF UpdatePrompt, vars, Promise!vars
<1> QED
  BY <1>1, <1>2, <1>3, <1>4, <1>5, <1>6 DEF Next

(***************************************************************************)
(* AuditLifecycle implements AuditPromise: what its clients and payers see *)
(* of an audit is what that module allows.                                 *)
(***************************************************************************)
THEOREM LifecycleKeepsPromise == Spec => KeepsPromise
<1>1. Init => Promise!Init /\ HeldInv
  BY DEF Init, Promise!Init, HeldInv, HeldFacts, Trying
<1> QED
  BY <1>1, HeldStep, PromiseStep, StepsInvariant, PTL DEF Spec, KeepsPromise, Promise!Spec

=============================================================================
