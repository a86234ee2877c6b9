--------------------------- MODULE AuditLifecycle ---------------------------
(***************************************************************************)
(* The life of an AI audit, from POST /audit to the arq result of its job. *)
(*                                                                         *)
(*  - the API (api/audit/service.py, process_evaluation) creates the Audit *)
(*    row and then enqueues a job whose id is the id of the row;           *)
(*  - the worker (worker/tasks.py, handle_eval) marks the audit, runs the  *)
(*    pipeline, saves the outcome and charges the payer;                   *)
(*  - the pipeline (api/pipeline/audit_generation.py, LlmPipeline) asks    *)
(*    one model per active candidate prompt concurrently, checkpoints each *)
(*    step in an IntermediateResponse row, and gives the collected answers *)
(*    to the active reviewer prompt;                                       *)
(*  - the admin API (api/admin/service.py, update_prompt) changes which    *)
(*    prompts are active while audits run.                                 *)
(*                                                                         *)
(* Every await of the code that reads or writes the database, or waits for *)
(* a model, is a step of its own: the worker can stop, time out or lose    *)
(* the database between any two of them.                                   *)
(***************************************************************************)
EXTENDS Naturals, FiniteSets

CONSTANTS
    Audits,      \* the audits, each also the id of its job
    Prompts,     \* the Prompt rows of one audit_type, numbered by created_at
    Tag,         \* the tag of every prompt: "reviewer", or a candidate's tag
    Billed,      \* audits whose credential consumes credits: a user's, or a
                 \* third-party app's (its owner pays)
    MaxTries,    \* arq's max_tries: a job is started at most so many times
    Faults,      \* the kinds of fault that may happen
    MaxMishaps   \* bound of the model: faults that may hit one audit

FaultKinds == {"stop", "timeout", "database", "lost"}

ASSUME PromptsAssumption == /\ Prompts \subseteq Nat
                            /\ Tag \in [Prompts -> STRING]
ASSUME BilledAssumption == Billed \subseteq Audits
ASSUME BoundsAssumption == /\ MaxTries \in Nat \ {0}
                           /\ MaxMishaps \in Nat
                           /\ Faults \subseteq FaultKinds

Reviewers  == {p \in Prompts : Tag[p] = "reviewer"}
Candidates == {p \in Prompts : Tag[p] # "reviewer"}

VARIABLES
    active,    \* Prompt.is_active: the set of active prompts
    request,   \* the POST /audit call that creates the audit
    status,    \* Audit.status, "NONE" while there is no row
    output,    \* Audit.raw_output
    row,       \* the IntermediateResponse of every prompt: status and result
    batches,   \* how many times Finding.bulk_create ran for the audit
    charges,   \* how many times the payer's used_credits was saved
    entries,   \* how many SPEND transactions the audit has
    job,       \* arq: the job of the audit
    tries,     \* arq: how many times the job was started
    pc,        \* where handle_eval is
    branch,    \* where _generate_candidate is, for every candidate prompt
    picked,    \* the prompts the latest run selected
    held,      \* raw_output of the Audit object handle_eval holds
    report,    \* the answer of the reviewer in this run
    usage,     \* pipeline.usage: the prompts whose tokens were added
    mishaps    \* history: the faults that hit the audit

database == <<status, output, row, batches, charges, entries>>
queue    == <<job, tries>>
memory   == <<pc, branch, picked, held, report, usage>>
vars     == <<active, request, database, queue, memory, mishaps>>

Statuses  == {"WAITING", "PROCESSING", "SUCCESS", "FAILED"}
Settled   == {"SUCCESS", "FAILED"}
\* A candidate answers a text, or nothing (a refusal: content is None).
Texts     == {"text", "null"}
\* The reviewer answers a structure with findings, or without any; a text that
\* is no JSON, which _write_findings skips; or nothing that it can take (None, or
\* JSON of another shape), on which it raises.
Reports   == {"findings", "clean", "garbled", "broken"}
Storable  == {"findings", "clean", "garbled"}
Results   == {"none"} \cup Texts \cup Reports
NoRow     == [status |-> "NONE", result |-> "none"]
Rows      == [status : {"NONE"} \cup Statuses, result : Results]
BranchPCs == {"off", "begin", "ask", "save_text", "save_null", "error",
              "text", "none", "raised"}
\* A branch that has returned or raised.
Over      == {"text", "none", "raised"}
\* Where a database error is caught by the try of handle_eval, and where not.
Guarded   == {"select", "review", "review_error", "reviewed", "write", "store"}
Unguarded == {"mark", "fail", "charge", "ledger"}
MainPCs   == {"off", "gather", "parse", "finish"} \cup Guarded \cup Unguarded

Init ==
    /\ active \in SUBSET Prompts
    /\ request = [a \in Audits |-> "none"]
    /\ status  = [a \in Audits |-> "NONE"]
    /\ output  = [a \in Audits |-> "none"]
    /\ row     = [a \in Audits |-> [p \in Prompts |-> NoRow]]
    /\ batches = [a \in Audits |-> 0]
    /\ charges = [a \in Audits |-> 0]
    /\ entries = [a \in Audits |-> 0]
    /\ job     = [a \in Audits |-> "absent"]
    /\ tries   = [a \in Audits |-> 0]
    /\ pc      = [a \in Audits |-> "off"]
    /\ branch  = [a \in Audits |-> [p \in Prompts |-> "off"]]
    /\ picked  = [a \in Audits |-> {}]
    /\ held    = [a \in Audits |-> "none"]
    /\ report  = [a \in Audits |-> "none"]
    /\ usage   = [a \in Audits |-> {}]
    /\ mishaps = [a \in Audits |-> 0]

(***************************************************************************)
(* The API.                                                                *)
(***************************************************************************)

\* Audit.create: the row appears, WAITING, before there is a job for it.
CreateAudit(a) ==
    /\ request[a] = "none"
    /\ request' = [request EXCEPT ![a] = "created"]
    /\ status' = [status EXCEPT ![a] = "WAITING"]
    /\ UNCHANGED <<active, output, row, batches, charges, entries, queue,
                   memory, mishaps>>

\* enqueue_job, with the id of the audit as the id of the job.
Enqueue(a) ==
    /\ request[a] = "created"
    /\ request' = [request EXCEPT ![a] = "answered"]
    /\ job' = [job EXCEPT ![a] = "queued"]
    /\ UNCHANGED <<active, database, tries, memory, mishaps>>

(***************************************************************************)
(* The worker. A fault of kind k hits audit a.                             *)
(***************************************************************************)
Mishap(k, a) ==
    /\ k \in Faults
    /\ mishaps[a] < MaxMishaps
    /\ mishaps' = [mishaps EXCEPT ![a] = @ + 1]

\* Redis is unreachable, or the API dies, after Audit.create: the row stays.
LoseRequest(a) ==
    /\ request[a] = "created"
    /\ Mishap("lost", a)
    /\ request' = [request EXCEPT ![a] = "lost"]
    /\ UNCHANGED <<active, database, queue, memory>>

\* Mutants of MayStart: the number of tries, and the state of the job, are
\* not looked at.
MayStartAlways(a) == job[a] = "queued"
MayStartTwice(a)  == job[a] \in {"queued", "finished"} /\ tries[a] < MaxTries

\* arq starts a queued job, up to max_tries times.
MayStart(a) == job[a] = "queued" /\ tries[a] < MaxTries

\* arq starts the job; handle_eval reads the audit and builds a new pipeline.
StartJob(a) ==
    /\ MayStart(a)
    /\ job' = [job EXCEPT ![a] = "running"]
    /\ tries' = [tries EXCEPT ![a] = @ + 1]
    /\ pc' = [pc EXCEPT ![a] = "mark"]
    /\ held' = [held EXCEPT ![a] = output[a]]
    /\ report' = [report EXCEPT ![a] = "none"]
    /\ usage' = [usage EXCEPT ![a] = {}]
    /\ UNCHANGED <<active, request, database, branch, picked, mishaps>>

\* arq gives up on a job that was started max_tries times.
GiveUp(a) ==
    /\ job[a] = "queued" /\ tries[a] = MaxTries
    /\ job' = [job EXCEPT ![a] = "finished"]
    /\ UNCHANGED <<active, request, database, tries, memory, mishaps>>

\* Mutant of MarkProcessing: a job that starts over clears the report.
MarkProcessingClears(a) ==
    /\ pc[a] = "mark"
    /\ status' = [status EXCEPT ![a] = "PROCESSING"]
    /\ output' = [output EXCEPT ![a] = "none"]
    /\ held' = [held EXCEPT ![a] = "none"]
    /\ pc' = [pc EXCEPT ![a] = "select"]
    /\ UNCHANGED <<active, request, row, batches, charges, entries, queue,
                   branch, picked, report, usage, mishaps>>

\* audit.status = PROCESSING; audit.save().
MarkProcessing(a) ==
    /\ pc[a] = "mark"
    /\ status' = [status EXCEPT ![a] = "PROCESSING"]
    /\ output' = [output EXCEPT ![a] = held[a]]
    /\ pc' = [pc EXCEPT ![a] = "select"]
    /\ UNCHANGED <<active, request, row, batches, charges, entries, queue,
                   branch, picked, held, report, usage, mishaps>>

\* generate_candidates reads the active candidate prompts and starts one
\* coroutine for each.
SelectCandidates(a) ==
    /\ pc[a] = "select"
    /\ LET chosen == active \cap Candidates IN
        /\ picked' = [picked EXCEPT ![a] = chosen]
        /\ branch' = [branch EXCEPT ![a] =
                        [p \in Prompts |-> IF p \in chosen THEN "begin" ELSE "off"]]
    /\ pc' = [pc EXCEPT ![a] = "gather"]
    /\ UNCHANGED <<active, request, database, queue, held, report, usage, mishaps>>

(***************************************************************************)
(* The candidates: _generate_candidate, one coroutine for each picked      *)
(* prompt.                                                                 *)
(***************************************************************************)

\* _checkpoint: updates the row of the step, or creates it. A checkpoint
\* without a result erases the one that was there.
Checkpoint(a, p, s, r) ==
    row' = [row EXCEPT ![a][p] = [status |-> s, result |-> r]]

MoveBranch(a, p, to) == branch' = [branch EXCEPT ![a][p] = to]

BranchBegin(a, p) ==
    /\ branch[a][p] = "begin"
    /\ Checkpoint(a, p, "PROCESSING", "none")
    /\ MoveBranch(a, p, "ask")
    /\ UNCHANGED <<active, request, status, output, batches, charges, entries,
                   queue, pc, picked, held, report, usage, mishaps>>

\* Mutant of AddUsage: the usage is set and not added to.
SetUsage(a, S) == usage' = [usage EXCEPT ![a] = S]

\* pipeline.usage.add_input, add_output: the tokens of the answers of S.
AddUsage(a, S) == usage' = [usage EXCEPT ![a] = @ \cup S]

\* The model answers, and the tokens of the answer are added to the usage.
BranchAnswer(a, p) ==
    /\ branch[a][p] = "ask"
    /\ \E r \in Texts :
        MoveBranch(a, p, IF r = "text" THEN "save_text" ELSE "save_null")
    /\ AddUsage(a, {p})
    /\ UNCHANGED <<active, request, database, queue, pc, picked, held, report,
                   mishaps>>

\* The call of the model raises.
BranchNoAnswer(a, p) ==
    /\ branch[a][p] = "ask"
    /\ MoveBranch(a, p, "error")
    /\ UNCHANGED <<active, request, database, queue, pc, picked, held, report,
                   usage, mishaps>>

\* The checkpoint of the answer; the coroutine then returns it.
BranchSave(a, p) ==
    /\ \/ /\ branch[a][p] = "save_text"
          /\ Checkpoint(a, p, "SUCCESS", "text")
          /\ MoveBranch(a, p, "text")
       \/ /\ branch[a][p] = "save_null"
          /\ Checkpoint(a, p, "SUCCESS", "null")
          /\ MoveBranch(a, p, "none")
    /\ UNCHANGED <<active, request, status, output, batches, charges, entries,
                   queue, pc, picked, held, report, usage, mishaps>>

\* The except clause: the step is FAILED and the coroutine returns None.
BranchFail(a, p) ==
    /\ branch[a][p] = "error"
    /\ Checkpoint(a, p, "FAILED", "none")
    /\ MoveBranch(a, p, "none")
    /\ UNCHANGED <<active, request, status, output, batches, charges, entries,
                   queue, pc, picked, held, report, usage, mishaps>>

\* Mutant of BranchDatabaseError: an answer whose checkpoint failed is returned.
BranchErrorReturns(a, p) ==
    /\ branch[a][p] \in {"begin", "save_text", "save_null", "error"}
    /\ Mishap("database", a)
    /\ MoveBranch(a, p, IF branch[a][p] = "save_text" THEN "text" ELSE "error")
    /\ UNCHANGED <<active, request, database, queue, pc, picked, held, report,
                   usage>>

\* A checkpoint raises: the except clause catches it, unless it is the
\* checkpoint of the except clause itself.
BranchDatabaseError(a, p) ==
    /\ branch[a][p] \in {"begin", "save_text", "save_null", "error"}
    /\ Mishap("database", a)
    /\ MoveBranch(a, p, IF branch[a][p] = "error" THEN "raised" ELSE "error")
    /\ UNCHANGED <<active, request, database, queue, pc, picked, held, report,
                   usage>>

(***************************************************************************)
(* The pipeline after the candidates, and the rest of handle_eval.         *)
(***************************************************************************)
Raised(a)   == \E p \in Prompts : branch[a][p] = "raised"
Returned(a) == \A p \in picked[a] \cap Candidates : branch[a][p] \in {"text", "none"}
\* The candidates whose answers make up candidate_prompt.
Heard(a)    == {p \in picked[a] \cap Candidates : branch[a][p] = "text"}

GoTo(a, to) == pc' = [pc EXCEPT ![a] = to]

\* Mutants of Wakes: the first branch is enough; a branch that raised is not.
WakesOnFirst(a) == \E p \in picked[a] : branch[a][p] \in Over
WakesOnAll(a)   == Returned(a)

\* What wakes a pending gather.
Wakes(a) == Returned(a) \/ Raised(a)

\* asyncio.gather returns when every branch did, and raises as soon as one
\* raised, which leaves the others running. An empty candidate_prompt makes
\* generate_report raise.
Gather(a) ==
    /\ pc[a] = "gather"
    /\ Wakes(a)
    /\ GoTo(a, IF Raised(a) \/ Heard(a) = {} THEN "fail" ELSE "review")
    /\ UNCHANGED <<active, request, database, queue, branch, picked, held,
                   report, usage, mishaps>>

\* generate_report takes an active reviewer prompt and checkpoints its step.
BeginReview(a) ==
    /\ pc[a] = "review"
    /\ \E r \in active \cap Reviewers :
        /\ picked' = [picked EXCEPT ![a] = @ \cup {r}]
        /\ Checkpoint(a, r, "PROCESSING", "none")
    /\ GoTo(a, "parse")
    /\ UNCHANGED <<active, request, status, output, batches, charges, entries,
                   queue, branch, held, report, usage, mishaps>>

\* Mutant of ReviewerError: the reviewer is looked up outside of the try.
ReviewerErrorUncaught == "finish"

\* Where an error of generate_report leads: to the except of handle_eval.
ReviewerError == "fail"

\* No reviewer prompt is active: first() is None and None has no tag.
NoReviewer(a) ==
    /\ pc[a] = "review"
    /\ active \cap Reviewers = {}
    /\ GoTo(a, ReviewerError)
    /\ UNCHANGED <<active, request, database, queue, branch, picked, held,
                   report, usage, mishaps>>

ReviewAnswer(a) ==
    /\ pc[a] = "parse"
    /\ \E r \in Reports : report' = [report EXCEPT ![a] = r]
    /\ AddUsage(a, picked[a] \cap Reviewers)
    /\ GoTo(a, "reviewed")
    /\ UNCHANGED <<active, request, database, queue, branch, picked, held, mishaps>>

ReviewNoAnswer(a) ==
    /\ pc[a] = "parse"
    /\ GoTo(a, "review_error")
    /\ UNCHANGED <<active, request, database, queue, branch, picked, held,
                   report, usage, mishaps>>

\* The checkpoint of the reviewer's step, with its answer or after an error.
EndReview(a) ==
    /\ \E r \in picked[a] \cap Reviewers :
        \/ /\ pc[a] = "reviewed"
           /\ Checkpoint(a, r, "SUCCESS", report[a])
           /\ GoTo(a, "write")
        \/ /\ pc[a] = "review_error"
           /\ Checkpoint(a, r, "FAILED", "none")
           /\ GoTo(a, "fail")
    /\ UNCHANGED <<active, request, status, output, batches, charges, entries,
                   queue, branch, picked, held, report, usage, mishaps>>

\* Mutant of Creates: findings are created before their shape is validated.
CreatesUnchecked(r) == r \in {"findings", "broken"}

\* Whether _write_findings gets to bulk_create with a report.
Creates(r) == r = "findings"

\* _write_findings: one bulk_create for all findings of the report.
WriteFindings(a) ==
    /\ pc[a] = "write"
    /\ batches' = IF Creates(report[a])
                    THEN [batches EXCEPT ![a] = @ + 1] ELSE batches
    /\ GoTo(a, IF report[a] = "broken" THEN "fail" ELSE "store")
    /\ UNCHANGED <<active, request, status, output, row, charges, entries,
                   queue, branch, picked, held, report, usage, mishaps>>

\* caller_auth.consumes_credits and the type of the client: who pays, if any.
AfterStore(a) == IF a \in Billed THEN "charge" ELSE "finish"

\* audit.raw_output = response; audit.status = SUCCESS; audit.save().
StoreReport(a) ==
    /\ pc[a] = "store"
    /\ status' = [status EXCEPT ![a] = "SUCCESS"]
    /\ output' = [output EXCEPT ![a] = report[a]]
    /\ held' = [held EXCEPT ![a] = report[a]]
    /\ GoTo(a, AfterStore(a))
    /\ UNCHANGED <<active, request, row, batches, charges, entries, queue,
                   branch, picked, report, usage, mishaps>>

\* The except clause of handle_eval, which then raises the error again.
StoreFailure(a) ==
    /\ pc[a] = "fail"
    /\ status' = [status EXCEPT ![a] = "FAILED"]
    /\ output' = [output EXCEPT ![a] = held[a]]
    /\ GoTo(a, "finish")
    /\ UNCHANGED <<active, request, row, batches, charges, entries, queue,
                   branch, picked, held, report, usage, mishaps>>

\* user.used_credits += cost; user.save().
Charge(a) ==
    /\ pc[a] = "charge"
    /\ charges' = [charges EXCEPT ![a] = @ + 1]
    /\ GoTo(a, "ledger")
    /\ UNCHANGED <<active, request, status, output, row, batches, entries,
                   queue, branch, picked, held, report, usage, mishaps>>

\* transaction.save().
RecordTransaction(a) ==
    /\ pc[a] = "ledger"
    /\ entries' = [entries EXCEPT ![a] = @ + 1]
    /\ GoTo(a, "finish")
    /\ UNCHANGED <<active, request, status, output, row, batches, charges,
                   queue, branch, picked, held, report, usage, mishaps>>

\* A database call of handle_eval raises. Inside its try the audit is saved
\* as FAILED; outside of it the job ends with the error.
MainDatabaseError(a) ==
    /\ \/ pc[a] \in Guarded /\ GoTo(a, "fail")
       \/ pc[a] \in Unguarded /\ GoTo(a, "finish")
    /\ pc[a] = "write" => report[a] = "findings"
    /\ Mishap("database", a)
    /\ held' = [held EXCEPT ![a] = IF pc[a] = "store" THEN report[a] ELSE @]
    /\ UNCHANGED <<active, request, database, queue, branch, picked, report, usage>>

(***************************************************************************)
(* arq around handle_eval.                                                 *)
(***************************************************************************)

\* Mutant of Outcome: a job that is over is tried again.
OutcomeRetried == "queued"

\* A job that returned, raised or timed out is not tried again.
Outcome == "finished"

\* The coroutine is over, and arq stores the result of the job.
FinishJob(a) ==
    /\ pc[a] = "finish"
    /\ job' = [job EXCEPT ![a] = Outcome]
    /\ GoTo(a, "off")
    /\ UNCHANGED <<active, request, database, tries, branch, picked, held,
                   report, usage, mishaps>>

\* Mutant of Cancelled: the branches run on.
NotCancelled(a) == branch[a]

\* The branches of a once handle_eval is cancelled: a pending gather cancels
\* those that still run.
Cancelled(a) ==
    IF pc[a] = "gather" /\ ~Raised(a)
        THEN [p \in Prompts |-> IF branch[a][p] \in Over THEN branch[a][p] ELSE "off"]
        ELSE branch[a]

\* job_timeout: handle_eval is cancelled at an await, and CancelledError is
\* no Exception, so no except clause saves anything.
Timeout(a) ==
    /\ pc[a] \notin {"off", "finish"}
    /\ Mishap("timeout", a)
    /\ GoTo(a, "finish")
    /\ branch' = [branch EXCEPT ![a] = Cancelled(a)]
    /\ UNCHANGED <<active, request, database, queue, picked, held, report, usage>>

\* The worker process stops, by a shutdown or a crash: its coroutines are
\* gone and arq starts the jobs that were running again.
WorkerStops ==
    LET live == {a \in Audits : job[a] = "running"} IN
    /\ "stop" \in Faults
    /\ \A a \in live : mishaps[a] < MaxMishaps
    /\ job' = [a \in Audits |-> IF a \in live THEN "queued" ELSE job[a]]
    /\ mishaps' = [a \in Audits |-> IF a \in live THEN mishaps[a] + 1 ELSE mishaps[a]]
    /\ pc' = [a \in Audits |-> "off"]
    /\ branch' = [a \in Audits |-> [p \in Prompts |-> "off"]]
    /\ UNCHANGED <<active, request, database, tries, picked, held, report, usage>>

(***************************************************************************)
(* The admin API: update_prompt with is_active in its body. Activating an  *)
(* inactive prompt demotes the newest other prompt of its tag, active or   *)
(* not. Content and version are not modelled, and tags do not change.      *)
(***************************************************************************)
Demoted(p) ==
    LET others == {q \in Prompts \ {p} : Tag[q] = Tag[p]}
    IN  {q \in others : \A o \in others : o <= q}

UpdatePrompt(p) ==
    /\ active' = IF p \in active THEN active \ {p}
                                 ELSE (active \cup {p}) \ Demoted(p)
    /\ UNCHANGED <<request, database, queue, memory, mishaps>>

-----------------------------------------------------------------------------
Api(a) == CreateAudit(a) \/ Enqueue(a)

\* What a worker that runs does for a job: every step but the faults.
Work(a) ==
    \/ StartJob(a) \/ GiveUp(a) \/ MarkProcessing(a) \/ SelectCandidates(a)
    \/ Gather(a) \/ BeginReview(a) \/ NoReviewer(a)
    \/ ReviewAnswer(a) \/ ReviewNoAnswer(a) \/ EndReview(a)
    \/ WriteFindings(a) \/ StoreReport(a) \/ StoreFailure(a)
    \/ Charge(a) \/ RecordTransaction(a) \/ FinishJob(a)

Branch(a, p) ==
    \/ BranchBegin(a, p) \/ BranchAnswer(a, p) \/ BranchNoAnswer(a, p)
    \/ BranchSave(a, p) \/ BranchFail(a, p)

Next ==
    \/ \E a \in Audits :
        \/ Api(a) \/ Work(a)
        \/ LoseRequest(a) \/ MainDatabaseError(a) \/ Timeout(a)
        \/ \E p \in Candidates : Branch(a, p) \/ BranchDatabaseError(a, p)
    \/ WorkerStops
    \/ \E p \in Prompts : UpdatePrompt(p)

Spec == Init /\ [][Next]_vars

(***************************************************************************)
(* The API answers the requests it has started, the worker runs (docker    *)
(* restarts it), the event loop resumes every coroutine that is ready and  *)
(* a call of a model ends, with an answer or an error. Faults are not fair.*)
(***************************************************************************)
Fairness ==
    \A a \in Audits :
        /\ WF_vars(Enqueue(a))
        /\ WF_vars(Work(a))
        /\ \A p \in Candidates : WF_vars(Branch(a, p))

FairSpec == Spec /\ Fairness
-----------------------------------------------------------------------------
TypeOK ==
    /\ active  \in SUBSET Prompts
    /\ request \in [Audits -> {"none", "created", "answered", "lost"}]
    /\ status  \in [Audits -> {"NONE"} \cup Statuses]
    /\ output  \in [Audits -> {"none"} \cup Reports]
    /\ row     \in [Audits -> [Prompts -> Rows]]
    /\ batches \in [Audits -> Nat]
    /\ charges \in [Audits -> Nat]
    /\ entries \in [Audits -> Nat]
    /\ job     \in [Audits -> {"absent", "queued", "running", "finished"}]
    /\ tries   \in [Audits -> 0 .. MaxTries]
    /\ pc      \in [Audits -> MainPCs]
    /\ branch  \in [Audits -> [Prompts -> BranchPCs]]
    /\ picked  \in [Audits -> SUBSET Prompts]
    /\ held    \in [Audits -> {"none"} \cup Reports]
    /\ report  \in [Audits -> {"none"} \cup Reports]
    /\ usage   \in [Audits -> SUBSET Prompts]
    /\ mishaps \in [Audits -> 0 .. MaxMishaps]

(***************************************************************************)
(* What goes right whatever happens.                                       *)
(***************************************************************************)

\* The run of the job that was started last has written its findings.
PastWrite(a) ==
    \/ pc[a] \in {"store", "charge", "ledger"}
    \/ status[a] = "SUCCESS" /\ (pc[a] = "finish" \/ job[a] = "finished")

\* The run of the job that was started last has charged the payer.
PastCharge(a) ==
    \/ pc[a] = "ledger"
    \/ status[a] = "SUCCESS" /\ (pc[a] = "finish" \/ job[a] = "finished")

OneIf(P) == IF P THEN 1 ELSE 0

\* The status of an audit agrees with its steps (interface.py calls it the
\* "status of entire audit, depends on steps"): an audit that is SUCCESS has
\* ended every step its last run picked, has the text of a candidate, and its
\* raw_output is the result of its reviewer's step, with its findings stored.
\* (_generate_candidate, generate_report and handle_eval save these rows one by
\* one, in different coroutines and in several runs.)
SuccessDependsOnSteps ==
    \A a \in Audits : status[a] = "SUCCESS" =>
        /\ \A p \in picked[a] : row[a][p].status \in Settled
        /\ \E c \in picked[a] \cap Candidates :
            row[a][c] = [status |-> "SUCCESS", result |-> "text"]
        /\ \E r \in picked[a] \cap Reviewers :
            row[a][r] = [status |-> "SUCCESS", result |-> output[a]]
        /\ output[a] \in Storable
        /\ output[a] = "findings" => batches[a] > 0

\* The reviewer is given exactly the answers that are checkpointed: once
\* candidate_prompt is built, the answers in memory and the SUCCESS rows with
\* a text are those of the same prompts, and there is one at least
\* (generate_candidates and _checkpoint).
ReviewHearsWhatIsSaved ==
    \A a \in Audits :
        pc[a] \in {"review", "parse", "reviewed", "write", "store"} =>
            /\ Heard(a) # {}
            /\ Heard(a) = {c \in picked[a] \cap Candidates :
                            row[a][c] = [status |-> "SUCCESS", result |-> "text"]}

\* When the payer is charged, every step of the run that ended with an answer
\* is in the usage the cost is computed from (usage.add_input, add_output in
\* concurrent coroutines, get_cost in handle_eval).
CostCoversAnswers ==
    \A a \in Audits : pc[a] = "charge" =>
        {p \in picked[a] : row[a][p].status = "SUCCESS"} \subseteq usage[a]

\* An audit that failed without a fault around it leaves nothing behind: no
\* report, no finding, no charge, no transaction (the order of the calls in
\* generate_report and handle_eval).
CleanFailure ==
    \A a \in Audits : status[a] = "FAILED" /\ mishaps[a] = 0 =>
        /\ output[a] = "none" /\ batches[a] = 0
        /\ charges[a] = 0 /\ entries[a] = 0

\* A payer is charged at most once for the report that stands, and once more
\* only for each fault that hit the job (arq runs the job again from its
\* start, and handle_eval does not look whether the audit was charged).
ChargesPerMishap ==
    \A a \in Audits : charges[a] <= mishaps[a] + OneIf(PastCharge(a))

\* The findings of an audit are written at most once, and once more only for
\* each fault that hit the job.
FindingsPerMishap ==
    \A a \in Audits : batches[a] <= mishaps[a] + OneIf(PastWrite(a))

\* The ledger follows the charges: no transaction without a charge, and a
\* charge without its transaction only while handle_eval is between the two
\* saves, or for a fault that hit it there.
LedgerFollowsCharges ==
    \A a \in Audits :
        /\ entries[a] <= charges[a]
        /\ charges[a] <= entries[a] + mishaps[a] + OneIf(pc[a] = "ledger")

\* Whatever runs again runs for a fault: the charges, the findings and the
\* transactions of an audit are those of one run and of one more for each fault
\* that hit its job. (No step of handle_eval looks at what an earlier run did.)
OncePerMishap == ChargesPerMishap /\ FindingsPerMishap /\ LedgerFollowsCharges

\* A job that is over has settled its audit, unless a fault hit it.
EndsSettled ==
    \A a \in Audits :
        job[a] = "finished" /\ status[a] \notin Settled => mishaps[a] > 0

\* Until then, an accepted request is never stuck: a queued job is started or given up, a job
\* that runs has a step to take, and the only one that waits, for gather, is
\* woken or waits for a candidate that still runs; whoever ends the review finds
\* the step it began. (gather raises while other candidates run, a cancelled
\* job leaves some of them, and the prompts change between the two selections.)
NeverStuck ==
    \A a \in Audits : request[a] = "answered" /\ job[a] # "finished" =>
        \/ job[a] = "queued" /\ (MayStart(a) \/ tries[a] = MaxTries)
        \/ pc[a] \notin {"off", "gather", "reviewed", "review_error"}
        \/ pc[a] = "gather" /\ (Wakes(a) \/ \E p \in picked[a] : branch[a][p] \notin Over \cup {"off"})
        \/ pc[a] \in {"reviewed", "review_error"} /\ picked[a] \cap Reviewers # {}

\* What a client that polls the status waits for: an accepted request always
\* has somebody who goes on with it, until it is settled; only a fault ends it
\* otherwise.
StuckOnlyByMishap == EndsSettled /\ NeverStuck

\* What the job of an audit has done is final once arq stored its result: no
\* later step changes the audit, its findings or what was charged for it; nor
\* its steps, unless one of its candidates raised: asyncio.gather then let the
\* others run on.
FinishedIsFinal ==
    [][\A a \in Audits : job[a] = "finished" =>
        /\ UNCHANGED <<status[a], output[a], batches[a], charges[a], entries[a]>>
        /\ ~Raised(a) => UNCHANGED row[a]]_vars

\* The service as its clients see it: a report is due from its save to the
\* charge, and an audit is closed when arq has stored the result of its job.
Promise == INSTANCE AuditPromise WITH
    Reports <- Storable,
    result  <- output,
    due     <- [a \in Audits |-> pc[a] = "charge"],
    paid    <- charges,
    closed  <- [a \in Audits |-> job[a] = "finished"]

\* The code keeps that promise: every step of the API, the worker, the
\* pipeline and arq is a step of AuditPromise, or one nobody outside can see.
KeepsPromise == Promise!Spec

\* Every request the API accepts ends: its job is finished whatever faults hit
\* it, by a result, an error, a timeout or arq's max_tries.
AcceptedFinishes ==
    \A a \in Audits : request[a] = "answered" ~> job[a] = "finished"

\* When the worker only ever stops fewer times than a job may be tried, every
\* accepted request settles: its audit ends in SUCCESS or FAILED and stays so.
AcceptedSettles ==
    \A a \in Audits : request[a] = "answered" ~> [](status[a] \in Settled)

\* A client that polls the status of an accepted request until it is settled,
\* as the example in the API's description does, comes to an end. (It does
\* not: a job that times out leaves its audit PROCESSING for ever.)
PollingEnds ==
    \A a \in Audits : request[a] = "answered" ~> status[a] \in Settled

=============================================================================
