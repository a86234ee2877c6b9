-------------------------- MODULE AuditReadsProofs --------------------------
(***************************************************************************)
(* Proofs about AuditReads, for any audits, prompts, tries and faults: the *)
(* answers a client puts together from several queries agree with each     *)
(* other and with the lifecycle that goes on between the queries.          *)
(*                                                                         *)
(* First what a reader depends on: the statuses of an audit go forward, a  *)
(* stored report stays, its findings are there, and the steps of an audit  *)
(* that is settled have ended (LifeInv). Then what the client has been     *)
(* given of it (AnswerFacts).                                              *)
(***************************************************************************)
EXTENDS AuditReads, AuditLifecycleProofs, SequenceTheorems

(***************************************************************************)
(* The lifecycle, as its readers depend on it.                             *)
(***************************************************************************)

\* A step that leaves an audit without a mishap found it without one, and was
\* no fault of that audit.
LEMMA NoMishap ==
    ASSUME TypeOK, TypeOK', [Next]_vars, NEW b \in Audits, mishaps'[b] = 0
    PROVE  /\ mishaps[b] = 0
           /\ ~LoseRequest(b) /\ ~MainDatabaseError(b) /\ ~Timeout(b)
           /\ \A p \in Candidates : ~BranchDatabaseError(b, p)
           /\ WorkerStops => job[b] # "running"
<1> USE BoundsAssumption DEF TypeOK, database, queue, memory
<1>0. ASSUME NEW k, NEW a \in Audits, Mishap(k, a)
      PROVE  mishaps[b] = 0 /\ a # b
  BY <1>0 DEF Mishap
<1>1. ~LoseRequest(b) /\ ~MainDatabaseError(b) /\ ~Timeout(b)
  BY <1>0 DEF LoseRequest, MainDatabaseError, Timeout
<1>2. \A p \in Candidates : ~BranchDatabaseError(b, p)
  BY <1>0 DEF BranchDatabaseError
<1>3. WorkerStops => job[b] # "running" /\ mishaps[b] = 0
  BY DEF WorkerStops
<1>4. ASSUME NEW a \in Audits, Api(a) \/ Work(a) PROVE mishaps[b] = 0
  BY <1>4 DEF Api, CreateAudit, Enqueue, Work, StartJob, MayStart, GiveUp,
              MarkProcessing, SelectCandidates, Gather, BeginReview, NoReviewer,
              ReviewAnswer, ReviewNoAnswer, EndReview, WriteFindings, StoreReport,
              StoreFailure, Charge, RecordTransaction, FinishJob
<1>5. ASSUME NEW a \in Audits, LoseRequest(a) \/ MainDatabaseError(a) \/ Timeout(a)
      PROVE  mishaps[b] = 0
  BY <1>0, <1>5 DEF LoseRequest, MainDatabaseError, Timeout
<1>6. ASSUME NEW a \in Audits, NEW p \in Candidates,
             Branch(a, p) \/ BranchDatabaseError(a, p)
      PROVE  mishaps[b] = 0
  BY <1>0, <1>6 DEF Branch, BranchBegin, BranchAnswer, BranchNoAnswer, BranchSave,
                    BranchFail, BranchDatabaseError
<1>7. ASSUME (\E p \in Prompts : UpdatePrompt(p)) \/ UNCHANGED vars
      PROVE  mishaps[b] = 0 /\ (WorkerStops => job[b] # "running")
  BY <1>3, <1>7 DEF UpdatePrompt, vars
<1> QED
  BY <1>1, <1>2, <1>3, <1>4, <1>5, <1>6, <1>7 DEF Next

\* A status, and the same or a later one.
Before(s, t) == s = t \/ Rank[s] < Rank[t]

\* The order of the statuses.
LEMMA Order ==
    /\ \A s, t, u \in Statuses : Before(s, t) /\ Before(t, u) => Before(s, u)
    /\ \A s \in Settled, t \in Statuses : Before(s, t) => t = s
<1>1. /\ Rank["WAITING"] = 1 /\ Rank["PROCESSING"] = 2
      /\ Rank["SUCCESS"] = 3 /\ Rank["FAILED"] = 3
  BY DEF Rank
<1> QED
  BY <1>1 DEF Before, Statuses, Settled

\* Without a mishap, the status of an audit only goes forward.
LEMMA StatusForward ==
    ASSUME AccountInv, AccountInv', [Next]_vars, NEW b \in Audits,
           mishaps'[b] = 0, status[b] # "NONE"
    PROVE  status'[b] # "NONE" /\ Before(status[b], status'[b])
<1> /\ TypeOK /\ TypeOK' /\ Control(b) /\ Unhurt(b) /\ mishaps[b] = 0
  BY NoMishap DEF AccountInv
<1> USE DEF TypeOK, database, queue, memory, Before
<1>r. /\ Rank["WAITING"] = 1 /\ Rank["PROCESSING"] = 2
      /\ Rank["SUCCESS"] = 3 /\ Rank["FAILED"] = 3
  BY DEF Rank
<1>0. CASE UNCHANGED status
  BY <1>0
<1>1. ASSUME NEW a \in Audits, Api(a)
      PROVE  status'[b] # "NONE" /\ Before(status[b], status'[b])
  BY <1>1 DEF Api, CreateAudit, Enqueue, Control
<1>2. ASSUME NEW a \in Audits, Work(a)
      PROVE  status'[b] # "NONE" /\ Before(status[b], status'[b])
  <2>1. CASE MarkProcessing(a)
    BY <2>1, <1>r DEF MarkProcessing, Unhurt
  <2>2. CASE StoreReport(a)
    BY <2>2, <1>r DEF StoreReport, Control, Trying
  <2>3. CASE StoreFailure(a)
    BY <2>3, <1>r DEF StoreFailure, Control, Trying
  <2>4. CASE \/ StartJob(a) \/ GiveUp(a) \/ SelectCandidates(a) \/ Gather(a)
             \/ BeginReview(a) \/ NoReviewer(a) \/ ReviewAnswer(a)
             \/ ReviewNoAnswer(a) \/ EndReview(a) \/ WriteFindings(a)
             \/ Charge(a) \/ RecordTransaction(a) \/ FinishJob(a)
    BY <1>0, <2>4 DEF StartJob, GiveUp, SelectCandidates, Gather, BeginReview,
         NoReviewer, ReviewAnswer, ReviewNoAnswer, EndReview, WriteFindings,
         Charge, RecordTransaction, FinishJob
  <2> QED
    BY <1>2, <2>1, <2>2, <2>3, <2>4 DEF Work
<1>3. ASSUME NEW a \in Audits, LoseRequest(a) \/ MainDatabaseError(a) \/ Timeout(a)
      PROVE  UNCHANGED status
  BY <1>3 DEF LoseRequest, MainDatabaseError, Timeout
<1>4. ASSUME NEW a \in Audits, NEW p \in Candidates,
             Branch(a, p) \/ BranchDatabaseError(a, p)
      PROVE  UNCHANGED status
  BY <1>4 DEF Branch, BranchBegin, BranchAnswer, BranchNoAnswer, BranchSave,
              BranchFail, BranchDatabaseError
<1>5. CASE WorkerStops \/ (\E p \in Prompts : UpdatePrompt(p)) \/ UNCHANGED vars
  BY <1>0, <1>5 DEF WorkerStops, UpdatePrompt, vars
<1> QED
  BY <1>0, <1>1, <1>2, <1>3, <1>4, <1>5 DEF Next


(***************************************************************************)
(* A report with findings is stored, or held to be stored with a failure,  *)
(* only once its findings are.                                             *)
(***************************************************************************)
FoundFacts(a) ==
    /\ output[a] = "findings" => batches[a] > 0
    /\ pc[a] = "fail" /\ held[a] = "findings" => batches[a] > 0

\* A status that a step keeps, or one of a step that was not begun.
Ended == {"NONE"} \cup Settled

(***************************************************************************)
(* The rows of an audit no fault has hit, of which there is one run: none  *)
(* before it picks its candidates or for a prompt it did not pick, and an  *)
(* ended one for whoever is not at work.                                   *)
(***************************************************************************)
EndedFacts(a) ==
    mishaps[a] = 0 =>
        /\ job[a] \in {"absent", "queued"} \/ pc[a] \in {"mark", "select"} =>
             \A p \in Prompts : row[a][p].status = "NONE"
        /\ \A p \in Prompts \ picked[a] : row[a][p].status = "NONE"
        /\ \A p \in Prompts : branch[a][p] # "raised"
        /\ \A p \in Candidates : branch[a][p] = "off" => row[a][p].status \in Ended
        /\ pc[a] \notin {"parse", "reviewed", "review_error"} =>
             \A p \in Reviewers : row[a][p].status \in Ended

LifeInv == StepsInv /\ HeldInv /\ BranchesEnd /\ \A a \in Audits : FoundFacts(a) /\ EndedFacts(a)

\* No finding is ever deleted.
LEMMA FindingsStay ==
    ASSUME TypeOK, [Next]_vars, NEW b \in Audits
    PROVE  batches'[b] >= batches[b]
<1> USE DEF TypeOK, database, queue, memory
<1>1. CASE UNCHANGED batches
  BY <1>1
<1>2. ASSUME NEW a \in Audits, Api(a) \/ LoseRequest(a) \/ MainDatabaseError(a) \/ Timeout(a)
      PROVE  UNCHANGED batches
  BY <1>2 DEF Api, CreateAudit, Enqueue, LoseRequest, MainDatabaseError, Timeout
<1>3. ASSUME NEW a \in Audits, Work(a), ~WriteFindings(a) PROVE UNCHANGED batches
  BY <1>3 DEF Work, StartJob, GiveUp, MarkProcessing, SelectCandidates, Gather,
              BeginReview, NoReviewer, ReviewAnswer, ReviewNoAnswer, EndReview,
              StoreReport, StoreFailure, Charge, RecordTransaction, FinishJob
<1>4. ASSUME NEW a \in Audits, WriteFindings(a) PROVE batches'[b] >= batches[b]
  BY <1>4 DEF WriteFindings
<1>5. ASSUME NEW a \in Audits, NEW p \in Candidates,
             Branch(a, p) \/ BranchDatabaseError(a, p)
      PROVE  UNCHANGED batches
  BY <1>5 DEF Branch, BranchBegin, BranchAnswer, BranchNoAnswer, BranchSave,
              BranchFail, BranchDatabaseError
<1>6. CASE WorkerStops \/ (\E p \in Prompts : UpdatePrompt(p)) \/ UNCHANGED vars
  BY <1>1, <1>6 DEF WorkerStops, UpdatePrompt, vars
<1> QED
  BY <1>1, <1>2, <1>3, <1>4, <1>5, <1>6 DEF Next

\* A stored report is replaced by one with a structure, or stays.
LEMMA OutputStays ==
    ASSUME StepsInv, HeldInv, [Next]_vars, NEW b \in Audits
    PROVE  output'[b] \in {output[b]} \cup Storable
<1> TypeOK /\ StepsOf(b) /\ HeldFacts(b)
  BY DEF StepsInv, AccountInv, HeldInv
<1> USE DEF TypeOK, database, queue, memory, HeldFacts, Trying
<1>1. CASE UNCHANGED output
  BY <1>1
<1>2. ASSUME NEW a \in Audits, Api(a) \/ LoseRequest(a) \/ MainDatabaseError(a) \/ Timeout(a)
      PROVE  UNCHANGED output
  BY <1>2 DEF Api, CreateAudit, Enqueue, LoseRequest, MainDatabaseError, Timeout
<1>3. ASSUME NEW a \in Audits, Work(a) PROVE output'[b] \in {output[b]} \cup Storable
  <2>1. CASE MarkProcessing(a)
    BY <2>1 DEF MarkProcessing
  <2>2. CASE StoreReport(a)
    BY <2>2, StoredReport DEF StoreReport
  <2>3. CASE StoreFailure(a)
    BY <2>3 DEF StoreFailure
  <2>4. CASE \/ StartJob(a) \/ GiveUp(a) \/ SelectCandidates(a) \/ Gather(a)
             \/ BeginReview(a) \/ NoReviewer(a) \/ ReviewAnswer(a)
             \/ ReviewNoAnswer(a) \/ EndReview(a) \/ WriteFindings(a)
             \/ Charge(a) \/ RecordTransaction(a) \/ FinishJob(a)
    BY <1>1, <2>4 DEF StartJob, GiveUp, SelectCandidates, Gather, BeginReview,
         NoReviewer, ReviewAnswer, ReviewNoAnswer, EndReview, WriteFindings,
         Charge, RecordTransaction, FinishJob
  <2> QED
    BY <1>3, <2>1, <2>2, <2>3, <2>4 DEF Work
<1>4. ASSUME NEW a \in Audits, NEW p \in Candidates,
             Branch(a, p) \/ BranchDatabaseError(a, p)
      PROVE  UNCHANGED output
  BY <1>4 DEF Branch, BranchBegin, BranchAnswer, BranchNoAnswer, BranchSave,
              BranchFail, BranchDatabaseError
<1>5. CASE WorkerStops \/ (\E p \in Prompts : UpdatePrompt(p)) \/ UNCHANGED vars
  BY <1>1, <1>5 DEF WorkerStops, UpdatePrompt, vars
<1> QED
  BY <1>1, <1>2, <1>3, <1>4, <1>5 DEF Next

\* Every step keeps FoundFacts: what may be stored next is the report that is
\* stored, or one whose findings were created in this run.
LEMMA FoundStep ==
    ASSUME StepsInv, HeldInv, [Next]_vars, NEW b \in Audits, FoundFacts(b)
    PROVE  FoundFacts(b)'
<1> TypeOK /\ TypeOK' /\ StepsOf(b) /\ HeldFacts(b) /\ batches'[b] >= batches[b]
  BY TypeStep, FindingsStay DEF StepsInv, AccountInv, HeldInv
<1>0. pc[b] = "store" /\ report[b] = "findings" => batches[b] > 0
  BY DEF StepsOf, ReviewFacts
<1> USE DEF TypeOK, database, queue, memory, HeldFacts, Trying, FoundFacts, GoTo
<1>1. CASE UNCHANGED <<output[b], held[b]>> /\ pc'[b] \in {pc[b], "finish", "off"}
  BY <1>1
<1>2. ASSUME NEW a \in Audits, Api(a) \/ LoseRequest(a) \/ Timeout(a)
      PROVE  FoundFacts(b)'
  BY <1>1, <1>2 DEF Api, CreateAudit, Enqueue, LoseRequest, Timeout
<1>3. ASSUME NEW a \in Audits, MainDatabaseError(a) PROVE FoundFacts(b)'
  BY <1>0, <1>3 DEF MainDatabaseError, Guarded, Unguarded
<1>4. ASSUME NEW a \in Audits, Work(a) PROVE FoundFacts(b)'
  <2>1. CASE StartJob(a) \/ GiveUp(a) \/ MarkProcessing(a) \/ SelectCandidates(a)
    BY <2>1 DEF StartJob, GiveUp, MarkProcessing, SelectCandidates
  <2>2. CASE Gather(a) \/ BeginReview(a) \/ NoReviewer(a)
    BY <2>2 DEF Gather, BeginReview, NoReviewer
  <2>3. CASE ReviewAnswer(a) \/ ReviewNoAnswer(a) \/ EndReview(a) \/ WriteFindings(a)
    BY <2>3 DEF ReviewAnswer, ReviewNoAnswer, EndReview, WriteFindings
  <2>4. CASE StoreReport(a)
    BY <1>0, <2>4 DEF StoreReport, AfterStore
  <2>5. CASE StoreFailure(a) \/ Charge(a) \/ RecordTransaction(a) \/ FinishJob(a)
    BY <2>5 DEF StoreFailure, Charge, RecordTransaction, FinishJob
  <2> QED
    BY <1>4, <2>1, <2>2, <2>3, <2>4, <2>5 DEF Work
<1>5. ASSUME NEW a \in Audits, NEW p \in Candidates,
             Branch(a, p) \/ BranchDatabaseError(a, p)
      PROVE  FoundFacts(b)'
  BY <1>1, <1>5 DEF Branch, BranchBegin, BranchAnswer, BranchNoAnswer, BranchSave,
              BranchFail, BranchDatabaseError
<1>6. CASE WorkerStops \/ (\E p \in Prompts : UpdatePrompt(p)) \/ UNCHANGED vars
  BY <1>1, <1>6 DEF WorkerStops, UpdatePrompt, vars
<1> QED
  BY <1>2, <1>3, <1>4, <1>5, <1>6 DEF Next

\* A step of handle_eval keeps EndedFacts of its audit.
LEMMA EndedWork ==
    ASSUME StepsInv, NEW a \in Audits, mishaps[a] = 0, EndedFacts(a), Work(a)
    PROVE  EndedFacts(a)'
<1> TypeOK /\ Control(a) /\ Unhurt(a) /\ StepsOf(a)
  BY DEF StepsInv, AccountInv
<1> USE DEF TypeOK, database, queue, memory, GoTo, EndedFacts, Control
<1>1. CASE StartJob(a) \/ GiveUp(a)
  BY <1>1 DEF StartJob, MayStart, GiveUp, Unhurt
<1>2. CASE MarkProcessing(a)
  BY <1>2 DEF MarkProcessing
<1>3. CASE SelectCandidates(a)
  <2>1. \A p \in Prompts : row'[a][p].status = "NONE" /\ branch'[a][p] \in {"begin", "off"}
    BY <1>3 DEF SelectCandidates
  <2>2. pc'[a] = "gather" /\ job'[a] = "running"
    BY <1>3 DEF SelectCandidates
  <2> QED
    BY <2>1, <2>2 DEF Ended, Candidates, Reviewers
<1>4. CASE Gather(a) \/ NoReviewer(a) \/ ReviewAnswer(a) \/ ReviewNoAnswer(a)
  BY <1>4 DEF Gather, NoReviewer, ReviewerError, ReviewAnswer, ReviewNoAnswer
<1>5. CASE BeginReview(a)
  <2>1. PICK r \in Reviewers : /\ picked'[a] = picked[a] \cup {r}
                               /\ \A p \in Prompts \ {r} : row'[a][p] = row[a][p]
    BY <1>5 DEF BeginReview, Checkpoint
  <2>2. pc'[a] = "parse" /\ job'[a] = "running" /\ UNCHANGED branch
    BY <1>5 DEF BeginReview
  <2>3. \A p \in Candidates : p \in Prompts \ {r}
    BY DEF Candidates, Reviewers
  <2> QED
    BY <2>1, <2>2, <2>3
<1>6. CASE EndReview(a)
  <2>1. PICK r \in picked[a] \cap Reviewers :
             /\ row'[a][r].status \in Settled
             /\ \A p \in Prompts \ {r} : row'[a][p] = row[a][p]
    <3>1. PICK r \in picked[a] \cap Reviewers :
                 \E s \in Settled : \E x : Checkpoint(a, r, s, x)
      BY <1>6 DEF EndReview, Settled
    <3>2. r \in Prompts
      BY DEF Reviewers
    <3> QED
      BY <3>1, <3>2 DEF Checkpoint
  <2>2. /\ pc[a] \in {"reviewed", "review_error"} /\ pc'[a] \in {"write", "fail"}
        /\ job'[a] = "running" /\ UNCHANGED <<branch, picked>>
    BY <1>6 DEF EndReview
  <2>3. \A p \in Candidates : p \in Prompts \ {r}
    BY <2>1 DEF Candidates, Reviewers
  <2>4. \A p \in Reviewers : p = r \/ p \in Prompts \ picked[a]
    BY <2>1, <2>2 DEF StepsOf, ReviewFacts, Reviewing, Gathered, Reviewers
  <2>5. \A p \in Reviewers : row'[a][p].status \in Ended
    BY <2>1, <2>4 DEF Ended
  <2> QED
    BY <2>1, <2>2, <2>3, <2>5
<1>7. CASE WriteFindings(a) \/ StoreReport(a) \/ StoreFailure(a)
  BY <1>7 DEF WriteFindings, StoreReport, AfterStore, StoreFailure
<1>8. CASE Charge(a) \/ RecordTransaction(a) \/ FinishJob(a)
  BY <1>8 DEF Charge, RecordTransaction, FinishJob, Outcome
<1> QED
  BY <1>1, <1>2, <1>3, <1>4, <1>5, <1>6, <1>7, <1>8 DEF Work

\* A step of a candidate keeps EndedFacts of its audit.
LEMMA EndedBranch ==
    ASSUME StepsInv, NEW a \in Audits, mishaps[a] = 0, EndedFacts(a),
           NEW p \in Candidates, Branch(a, p)
    PROVE  EndedFacts(a)'
<1> TypeOK /\ Control(a) /\ StepsOf(a)
  BY DEF StepsInv, AccountInv
<1> USE DEF TypeOK, database, queue, MoveBranch, Checkpoint
<1>1. /\ p \in Prompts /\ p \notin Reviewers
      /\ branch[a][p] \in {"begin", "ask", "save_text", "save_null", "error"}
      /\ branch'[a][p] \notin {"raised", "off"}
      /\ \A q \in Prompts \ {p} : row'[a][q] = row[a][q] /\ branch'[a][q] = branch[a][q]
      /\ UNCHANGED <<job, pc, picked, mishaps>>
  BY DEF Branch, BranchBegin, BranchAnswer, BranchNoAnswer, BranchSave, BranchFail,
         Candidates, Reviewers
<1>2. p \in picked[a]
  BY <1>1 DEF StepsOf, BranchFacts
<1>3. job[a] \notin {"absent", "queued"} /\ pc[a] \notin {"mark", "select"}
  BY <1>1 DEF StepsOf, NoStragglers
<1> QED
  BY <1>1, <1>2, <1>3 DEF EndedFacts, Candidates, Reviewers

\* Every step keeps EndedFacts.
LEMMA EndedStep ==
    ASSUME StepsInv, BranchesEnd, [Next]_vars, NEW b \in Audits, EndedFacts(b)
    PROVE  EndedFacts(b)'
<1> SUFFICES ASSUME mishaps'[b] = 0 PROVE EndedFacts(b)'
  BY DEF EndedFacts
<1> /\ TypeOK /\ TypeOK' /\ Control(b) /\ StepsOf(b) /\ mishaps[b] = 0
    /\ pc[b] = "gather" \/ Raised(b) \/ Idle(b)
  BY TypeStep, NoMishap DEF StepsInv, AccountInv, BranchesEnd
<1>0. CASE UNCHANGED Seen(b)
  BY <1>0 DEF Seen, EndedFacts
<1>1. ASSUME NEW a \in Audits, a # b,
             \/ Api(a) \/ Work(a) \/ LoseRequest(a) \/ MainDatabaseError(a) \/ Timeout(a)
             \/ \E p \in Candidates : Branch(a, p) \/ BranchDatabaseError(a, p)
      PROVE  EndedFacts(b)'
  BY <1>0, <1>1, OthersUnseen
<1>2. CASE Api(b)
  BY <1>2 DEF Api, CreateAudit, Enqueue, EndedFacts, Control, TypeOK, database, queue, memory
<1>3. CASE Work(b)
  BY <1>3, EndedWork
<1>4. ASSUME NEW p \in Candidates, Branch(b, p) PROVE EndedFacts(b)'
  BY <1>4, EndedBranch
<1>5. CASE WorkerStops
  <2>1. /\ UNCHANGED <<row, picked>> /\ pc'[b] = "off" /\ job'[b] = job[b]
        /\ \A p \in Prompts : branch'[b][p] = "off"
    BY <1>5, NoMishap DEF WorkerStops, TypeOK, database
  <2>2. pc[b] = "off" /\ Idle(b) /\ ~Raised(b)
    BY <1>5, NoMishap DEF Control, TypeOK, Raised, EndedFacts
  <2>3. \A p \in Candidates : row[b][p].status \in Ended
    <3>1. ASSUME NEW p \in Candidates PROVE row[b][p].status \in Ended
      <4>1. p \in Prompts /\ branch[b][p] \in {"text", "none", "off"}
        BY <2>2 DEF Idle, Raised, Over, Candidates
      <4> QED
        BY <4>1 DEF StepsOf, BranchFacts, EndedFacts, Ended, Settled
    <3> QED
      BY <3>1
  <2> QED
    BY <2>1, <2>2, <2>3 DEF EndedFacts
<1>6. CASE (\E p \in Prompts : UpdatePrompt(p)) \/ UNCHANGED vars
  BY <1>0, <1>6 DEF UpdatePrompt, vars, database, queue, memory, Seen
<1> QED
  BY <1>1, <1>2, <1>3, <1>4, <1>5, <1>6, NoMishap DEF Next

\* LifeInv is an invariant.
LEMMA LifeInvariant == Spec => []LifeInv
<1>1. Init => LifeInv
  <2> SUFFICES ASSUME Init PROVE LifeInv
    OBVIOUS
  <2>1. AccountInv
    BY AccountInit
  <2>2. StepsInv
    BY <2>1 DEF Init, StepsInv, StepsOf, BranchFacts, NoStragglers, ReviewFacts,
                StepsSettled, Gathered, Reviewing, Judged
  <2>3. HeldInv /\ BranchesEnd
    BY DEF Init, HeldInv, HeldFacts, Trying, BranchesEnd, Idle
  <2>4. \A a \in Audits : FoundFacts(a) /\ EndedFacts(a)
    BY DEF Init, NoRow, FoundFacts, EndedFacts, Ended, Candidates, Reviewers
  <2> QED
    BY <2>2, <2>3, <2>4 DEF LifeInv
<1>2. LifeInv /\ [Next]_vars => LifeInv'
  BY StepsStep, HeldStep, BranchesStep, FoundStep, EndedStep DEF LifeInv
<1> QED
  BY <1>1, <1>2, PTL DEF Spec

\* The steps of an audit that is settled and that no fault has hit have ended,
\* and those of one that is SUCCESS with a success of each kind.
LEMMA SettledSteps ==
    ASSUME LifeInv, NEW a \in Audits, mishaps[a] = 0, status[a] \in Settled
    PROVE  /\ \A p \in Prompts : row[a][p].status \in Ended
           /\ status[a] = "SUCCESS" =>
                \A S \in {Candidates, Reviewers} : \E p \in S : row[a][p].status = "SUCCESS"
<1> /\ TypeOK /\ Control(a) /\ Unhurt(a) /\ StepsOf(a) /\ EndedFacts(a)
    /\ pc[a] = "gather" \/ Raised(a) \/ Idle(a)
  BY DEF LifeInv, StepsInv, AccountInv, BranchesEnd
<1>1. pc[a] \notin {"gather", "parse", "reviewed", "review_error"}
  BY DEF Control, Trying, Settled
<1>2. Idle(a) /\ ~Raised(a)
  BY <1>1 DEF EndedFacts, Raised
<1>3. ASSUME NEW p \in Prompts PROVE row[a][p].status \in Ended
  <2>1. CASE p \in Reviewers
    BY <1>1, <2>1 DEF EndedFacts
  <2>2. CASE p \in Candidates
    <3>1. branch[a][p] \in {"text", "none", "off"}
      BY <1>2 DEF Idle, Raised, Over
    <3> QED
      BY <2>2, <3>1 DEF StepsOf, BranchFacts, EndedFacts, Ended, Settled
  <2> QED
    BY <2>1, <2>2 DEF Candidates, Reviewers
<1>4. ASSUME status[a] = "SUCCESS"
      PROVE  /\ \E p \in Candidates : row[a][p].status = "SUCCESS"
             /\ \E p \in Reviewers : row[a][p].status = "SUCCESS"
  BY <1>4 DEF StepsOf, StepsSettled
<1> QED
  BY <1>3, <1>4

(***************************************************************************)
(* Every step of AuditReads is one of the lifecycle, or changes nothing of *)
(* it: the readers only read.                                              *)
(***************************************************************************)
LEMMA ReadersOnlyRead == ReadsSpec => Spec
<1>1. ReadsInit => Init
  BY DEF ReadsInit
<1>2. [ReadsNext]_<<vars, reads>> => [Next]_vars
  BY DEF ReadsNext
<1> QED
  BY <1>1, <1>2, PTL DEF ReadsSpec, Spec

(***************************************************************************)
(* What a client has been given, and how it goes with the audit.           *)
(***************************************************************************)
QueryNames == {"row", "steps", "findings"}

Answers == [route  : Routes \cup {"none"},
            left   : Seq(QueryNames),
            status : {"NONE"} \cup Statuses,
            output : {"none"} \cup Reports,
            steps  : [Prompts -> {"NONE"} \cup Statuses],
            found  : BOOLEAN]

AnswerType ==
    /\ answer \in [Audits -> Answers]
    /\ told \in [Audits -> SUBSET Statuses]

\* The row was read, the steps were, the findings were.
RowGot(a)   == answer[a].status # "NONE"
StepsGot(a) == RowGot(a) /\ ReadsSteps(a) /\ answer[a].left \in {<<>>, <<"findings">>}
FoundGot(a) == RowGot(a) /\ ReadsReport(a) /\ answer[a].left = <<>>

\* How far a call is: all of its queries are left, or some of its relations.
Way(a) ==
    /\ answer[a].route = "none" => answer[a].left = <<>> /\ ~RowGot(a)
    /\ answer[a].route # "none" /\ ~RowGot(a) => answer[a].left = Queries(answer[a].route)
    /\ RowGot(a) =>
         /\ answer[a].route = "status" => answer[a].left \in {<<"steps">>, <<>>}
         /\ answer[a].route = "audit" => answer[a].left \in {<<"findings">>, <<>>}
         /\ answer[a].route = "children" =>
              answer[a].left \in {<<"steps", "findings">>, <<"findings">>, <<>>}

\* A report with findings was read once they were there, and they stay.
Findings(a) ==
    /\ RowGot(a) /\ answer[a].output = "findings" => batches[a] > 0
    /\ FoundGot(a) /\ answer[a].output = "findings" => answer[a].found

\* The steps were read when the audit was as settled as its row said.
Steps(a) ==
    StepsGot(a) /\ mishaps[a] = 0 =>
        /\ answer[a].status \in Settled => \A p \in Prompts : answer[a].steps[p] \in Ended
        /\ answer[a].status = "SUCCESS" =>
             \A S \in {Candidates, Reviewers} : \E p \in S : answer[a].steps[p] = "SUCCESS"

\* What was told is no later than what was read, and that no later than what is.
Forward(a) ==
    mishaps[a] = 0 =>
        /\ RowGot(a) \/ told[a] # {} => status[a] # "NONE"
        /\ \A s \in told[a] : Before(s, status[a])
        /\ RowGot(a) =>
             /\ Before(answer[a].status, status[a])
             /\ \A s \in told[a] : Before(s, answer[a].status)

\* The report of a client that knows of a SUCCESS.
Shown(a) ==
    /\ answer[a].status = "SUCCESS" \/ "SUCCESS" \in told[a] => output[a] \in Storable
    /\ RowGot(a) /\ "SUCCESS" \in told[a] => answer[a].output \in Storable

AnswerFacts(a) == Way(a) /\ Findings(a) /\ Steps(a) /\ Forward(a) /\ Shown(a)

ReadsInv == LifeInv /\ AnswerType /\ \A a \in Audits : AnswerFacts(a)

\* The sequences of queries, from their first query on.
LEMMA Preceded ==
    ASSUME NEW T, NEW x \in T, NEW s \in Seq(T)
    PROVE  <<x>> \o s # <<>> /\ Head(<<x>> \o s) = x /\ Tail(<<x>> \o s) = s
<1> DEFINE c == <<x>> \o s
<1>0. <<x>> \in Seq(T) /\ Len(<<x>>) = 1 /\ <<x>>[1] = x
  OBVIOUS
<1>1. /\ c \in Seq(T) /\ Len(c) = 1 + Len(s) /\ c[1] = x
      /\ \A i \in 1 .. Len(s) : c[i + 1] = s[i]
  <2>1. /\ c \in Seq(T) /\ Len(c) = 1 + Len(s)
        /\ \A i \in 1 .. 1 + Len(s) : c[i] = IF i <= 1 THEN x ELSE s[i - 1]
    BY <1>0, ConcatProperties
  <2> QED
    BY <2>1
<1> HIDE DEF c
<1>2. c # <<>> /\ Tail(c) = s
  <2>1. c # <<>>
    BY <1>1
  <2>2. Tail(c) \in Seq(T) /\ Len(Tail(c)) = Len(s) /\ \A i \in 1 .. Len(s) : Tail(c)[i] = s[i]
    BY <1>1, <2>1, HeadTailProperties
  <2> QED
    BY <2>1, <2>2, SeqEqual
<1> QED
  BY <1>1, <1>2 DEF c

\* Relations[route], for each route.
LEMMA RelationsAre ==
    /\ Relations["status"] = <<"steps">>
    /\ Relations["audit"] = <<"findings">>
    /\ Relations["children"] = <<"steps", "findings">>
BY DEF Relations

\* Queries(route) begins with the row, and goes on with the relations.
LEMMA QueriesAre ==
    ASSUME NEW r \in Routes
    PROVE  /\ Queries(r) \in Seq(QueryNames) /\ Queries(r) # <<>>
           /\ Head(Queries(r)) = "row" /\ Tail(Queries(r)) = Relations[r]
           /\ Relations[r] \in Seq(QueryNames)
<1>0. /\ <<"steps">> \in Seq(QueryNames) /\ <<"findings">> \in Seq(QueryNames)
      /\ <<"steps", "findings">> \in Seq(QueryNames) /\ <<"row">> \in Seq(QueryNames)
  BY DEF QueryNames
<1>1. Relations[r] \in Seq(QueryNames)
  BY <1>0, RelationsAre DEF Routes
<1>2. "row" \in QueryNames
  BY DEF QueryNames
<1> QED
  BY <1>0, <1>1, <1>2, Preceded, ConcatProperties DEF Queries

\* The sequences of relations, from their first query on.
LEMMA RelationsGoOn ==
    /\ Head(<<"steps">>) = "steps" /\ Tail(<<"steps">>) = <<>>
    /\ Head(<<"findings">>) = "findings" /\ Tail(<<"findings">>) = <<>>
    /\ Head(<<"steps", "findings">>) = "steps"
    /\ Tail(<<"steps", "findings">>) = <<"findings">>
    /\ <<"steps">> # <<>> /\ <<"findings">> # <<>> /\ <<"steps", "findings">> # <<>>
    /\ <<"steps">> # <<"findings">> /\ <<"steps", "findings">> # <<"findings">>
OBVIOUS

\* What can be due, and how far the call then is.
LEMMA DueIs ==
    ASSUME AnswerType, NEW a \in Audits, Way(a)
    PROVE  /\ Due(a, "row") =>
                /\ answer[a].route \in Routes /\ ~RowGot(a)
                /\ Tail(answer[a].left) = Relations[answer[a].route]
           /\ Due(a, "steps") =>
                /\ RowGot(a) /\ ReadsSteps(a) /\ ~StepsGot(a)
                /\ Tail(answer[a].left) =
                     IF answer[a].route = "status" THEN <<>> ELSE <<"findings">>
           /\ Due(a, "findings") =>
                /\ RowGot(a) /\ ReadsReport(a)
                /\ answer[a].left = <<"findings">> /\ Tail(answer[a].left) = <<>>
<1> /\ answer[a].route \in Routes \cup {"none"}
    /\ answer[a].status \in {"NONE"} \cup Statuses
  BY DEF AnswerType, Answers
<1>1. ASSUME NEW q, Due(a, q)
      PROVE  /\ answer[a].route \in Routes
             /\ RowGot(a) <=> q # "row"
             /\ q = "row" => Tail(answer[a].left) = Relations[answer[a].route]
  BY <1>1, QueriesAre, RelationsGoOn DEF Due, Way, Routes
<1>2. ASSUME Due(a, "steps")
      PROVE  \/ answer[a].route = "status" /\ answer[a].left = <<"steps">>
             \/ answer[a].route = "children" /\ answer[a].left = <<"steps", "findings">>
  BY <1>1, <1>2, RelationsGoOn DEF Due, Way, Routes
<1>3. ASSUME Due(a, "findings")
      PROVE  answer[a].route \in {"audit", "children"} /\ answer[a].left = <<"findings">>
  BY <1>1, <1>3, RelationsGoOn DEF Due, Way, Routes
<1> QED
  BY <1>1, <1>2, <1>3, RelationsGoOn DEF ReadsSteps, ReadsReport, StepsGot

\* The lifecycle goes on, and what a client was given of it stays true.
LEMMA AnswersOutlast ==
    ASSUME LifeInv, LifeInv', AnswerType, [Next]_vars, NEW b \in Audits, AnswerFacts(b),
           answer'[b] = answer[b], told'[b] = told[b]
    PROVE  AnswerFacts(b)'
<1>1. /\ TypeOK /\ TypeOK' /\ AccountInv /\ AccountInv' /\ StepsInv /\ HeldInv
      /\ batches[b] \in Nat /\ batches'[b] \in Nat
      /\ status[b] \in {"NONE"} \cup Statuses /\ status'[b] \in {"NONE"} \cup Statuses
  BY DEF LifeInv, StepsInv, AccountInv, TypeOK
<1>2. /\ answer[b].status \in {"NONE"} \cup Statuses
      /\ told[b] \subseteq Statuses
  BY DEF AnswerType, Answers
<1>3. Way(b)'
  BY DEF AnswerFacts, Way, RowGot
<1>4. Findings(b)'
  <2>1. batches'[b] >= batches[b]
    BY <1>1, FindingsStay
  <2> QED
    BY <1>1, <2>1 DEF AnswerFacts, Findings, RowGot, FoundGot, ReadsReport
<1>5. Steps(b)'
  <2> SUFFICES ASSUME mishaps'[b] = 0 PROVE Steps(b)'
    BY DEF Steps
  <2>1. mishaps[b] = 0
    BY <1>1, NoMishap
  <2> QED
    BY <2>1 DEF AnswerFacts, Steps, StepsGot, RowGot, ReadsSteps
<1>6. Forward(b)'
  <2> SUFFICES ASSUME mishaps'[b] = 0 PROVE Forward(b)'
    BY DEF Forward
  <2>1. mishaps[b] = 0
    BY <1>1, NoMishap
  <2>2. CASE RowGot(b) \/ told[b] # {}
    <3>1. status[b] # "NONE"
      BY <2>1, <2>2 DEF AnswerFacts, Forward
    <3>2. status'[b] # "NONE" /\ Before(status[b], status'[b])
      BY <1>1, <3>1, StatusForward
    <3>3. \A s \in Statuses : Before(s, status[b]) => Before(s, status'[b])
      BY <1>1, <3>1, <3>2, Order
    <3> QED
      BY <1>2, <2>1, <3>2, <3>3 DEF AnswerFacts, Forward, RowGot
  <2>3. CASE ~(RowGot(b) \/ told[b] # {})
    BY <2>3 DEF Forward, RowGot
  <2> QED
    BY <2>2, <2>3
<1>7. Shown(b)'
  <2>1. output'[b] \in {output[b]} \cup Storable
    BY <1>1, OutputStays
  <2> QED
    BY <2>1 DEF AnswerFacts, Shown, RowGot
<1> QED
  BY <1>3, <1>4, <1>5, <1>6, <1>7 DEF AnswerFacts

\* A call that has read nothing yet.
LEMMA NothingYet ==
    /\ NoAnswer.route = "none" /\ NoAnswer.left = <<>> /\ NoAnswer.status = "NONE"
    /\ NoAnswer.output = "none" /\ NoAnswer.found = FALSE
    /\ NoAnswer \in Answers
BY DEF NoAnswer, Answers

\* The next call: it begins with nothing, and what the last one said is told.
LEMMA AskDoes ==
    ASSUME AnswerType, NEW a \in Audits, Ask(a)
    PROVE  /\ AnswerType'
           /\ answer'[a].route \in Routes
           /\ answer'[a].left = Queries(answer'[a].route)
           /\ answer'[a].status = "NONE"
           /\ told'[a] = told[a] \/ (RowGot(a) /\ told'[a] = told[a] \cup {answer[a].status})
           /\ \A b \in Audits \ {a} : answer'[b] = answer[b] /\ told'[b] = told[b]
<1> DEFINE next(r) == [NoAnswer EXCEPT !.route = r, !.left = Queries(r)]
<1>1. PICK r \in Routes : answer' = [answer EXCEPT ![a] = next(r)]
  BY DEF Ask
<1>2. /\ next(r).route = r /\ next(r).left = Queries(r) /\ next(r).status = "NONE"
      /\ next(r) \in Answers
  BY NothingYet, QueriesAre DEF Answers
<1> HIDE DEF next
<1>3. /\ told' \in [Audits -> SUBSET Statuses]
      /\ told'[a] = told[a] \/ (RowGot(a) /\ told'[a] = told[a] \cup {answer[a].status})
      /\ \A b \in Audits \ {a} : told'[b] = told[b]
  BY DEF Ask, AnswerType, Answers, RowGot
<1> QED
  BY <1>1, <1>2, <1>3 DEF AnswerType

\* The row of an audit is read, or there is none.
LEMMA QueryRowDoes ==
    ASSUME TypeOK, AnswerType, NEW a \in Audits, Way(a), QueryRow(a), UNCHANGED told
    PROVE  /\ AnswerType'
           /\ ~RowGot(a) /\ answer[a].route \in Routes
           /\ \/ answer'[a] = NoAnswer
              \/ /\ answer'[a].route = answer[a].route
                 /\ answer'[a].left = Relations[answer[a].route]
                 /\ answer'[a].status = status[a] /\ status[a] # "NONE"
                 /\ answer'[a].output = output[a]
           /\ \A b \in Audits \ {a} : answer'[b] = answer[b]
<1>1. /\ answer[a].route \in Routes /\ ~RowGot(a)
      /\ Tail(answer[a].left) = Relations[answer[a].route]
  BY DueIs DEF QueryRow
<1>2. Relations[answer[a].route] \in Seq(QueryNames)
  BY <1>1, QueriesAre
<1>3. CASE answer' = [answer EXCEPT ![a] = NoAnswer]
  BY <1>1, <1>3, NothingYet DEF AnswerType
<1>4. CASE /\ status[a] # "NONE"
           /\ answer' = [answer EXCEPT ![a].left = Tail(@), ![a].status = status[a],
                                        ![a].output = output[a]]
  <2> DEFINE rest == Relations[answer[a].route]
             next == [answer[a] EXCEPT !.left = rest, !.status = status[a],
                                       !.output = output[a]]
  <2>1. answer' = [answer EXCEPT ![a] = next]
    BY <1>1, <1>4 DEF AnswerType, Answers
  <2>2. answer[a] \in Answers /\ rest \in Seq(QueryNames)
    BY <1>2 DEF AnswerType
  <2>3. status[a] \in {"NONE"} \cup Statuses /\ output[a] \in {"none"} \cup Reports
    BY DEF TypeOK
  <2> HIDE DEF rest
  <2>4. /\ next \in Answers /\ next.route = answer[a].route /\ next.left = rest
        /\ next.status = status[a] /\ next.output = output[a]
    BY <2>2, <2>3 DEF Answers
  <2> HIDE DEF next
  <2>5. AnswerType' /\ answer'[a] = next /\ \A b \in Audits \ {a} : answer'[b] = answer[b]
    BY <2>1, <2>4 DEF AnswerType
  <2> QED
    BY <1>1, <1>4, <2>4, <2>5 DEF rest
<1> QED
  BY <1>3, <1>4 DEF QueryRow

\* The steps of the audit are read as they are.
LEMMA QueryStepsDoes ==
    ASSUME TypeOK, AnswerType, NEW a \in Audits, Way(a), QuerySteps(a), UNCHANGED told
    PROVE  /\ AnswerType'
           /\ RowGot(a) /\ ReadsSteps(a)
           /\ answer'[a].left = IF answer[a].route = "status" THEN <<>> ELSE <<"findings">>
           /\ answer'[a].route = answer[a].route
           /\ answer'[a].status = answer[a].status
           /\ answer'[a].output = answer[a].output
           /\ answer'[a].steps = [p \in Prompts |-> row[a][p].status]
           /\ \A b \in Audits \ {a} : answer'[b] = answer[b]
<1>1. /\ RowGot(a) /\ ReadsSteps(a)
      /\ Tail(answer[a].left) = IF answer[a].route = "status" THEN <<>> ELSE <<"findings">>
  BY DueIs DEF QuerySteps
<1>2. Tail(answer[a].left) \in Seq(QueryNames)
  <2>1. <<>> \in Seq(QueryNames) /\ <<"findings">> \in Seq(QueryNames)
    BY DEF QueryNames
  <2> QED
    BY <1>1, <2>1
<1> DEFINE seen == [p \in Prompts |-> row[a][p].status]
<1>3. seen \in [Prompts -> {"NONE"} \cup Statuses]
  BY DEF TypeOK, Rows
<1>4. answer' = [answer EXCEPT ![a].left = Tail(@), ![a].steps = seen]
  BY DEF QuerySteps
<1> HIDE DEF seen
<1>5. /\ AnswerType'
      /\ answer'[a] = [answer[a] EXCEPT !.left = Tail(@), !.steps = seen]
      /\ \A b \in Audits \ {a} : answer'[b] = answer[b]
  BY <1>2, <1>3, <1>4 DEF AnswerType, Answers
<1> QED
  BY <1>1, <1>5 DEF AnswerType, Answers, seen

\* The findings of the audit are read, last.
LEMMA QueryFindingsDoes ==
    ASSUME TypeOK, AnswerType, NEW a \in Audits, Way(a), QueryFindings(a), UNCHANGED told
    PROVE  /\ AnswerType'
           /\ RowGot(a) /\ ReadsReport(a) /\ answer[a].left = <<"findings">>
           /\ answer'[a].left = <<>>
           /\ answer'[a].route = answer[a].route
           /\ answer'[a].status = answer[a].status
           /\ answer'[a].output = answer[a].output
           /\ answer'[a].steps = answer[a].steps
           /\ answer'[a].found = (batches[a] > 0)
           /\ \A b \in Audits \ {a} : answer'[b] = answer[b]
<1>1. /\ RowGot(a) /\ ReadsReport(a)
      /\ answer[a].left = <<"findings">> /\ Tail(answer[a].left) = <<>>
  BY DueIs DEF QueryFindings
<1>2. <<>> \in Seq(QueryNames)
  OBVIOUS
<1> DEFINE there == batches[a] > 0
<1>3. there \in BOOLEAN
  OBVIOUS
<1>4. answer' = [answer EXCEPT ![a].left = Tail(@), ![a].found = there]
  BY DEF QueryFindings
<1> HIDE DEF there
<1>5. /\ AnswerType'
      /\ answer'[a] = [answer[a] EXCEPT !.left = Tail(@), !.found = there]
      /\ \A b \in Audits \ {a} : answer'[b] = answer[b]
  BY <1>1, <1>2, <1>3, <1>4 DEF AnswerType, Answers
<1> QED
  BY <1>1, <1>5 DEF AnswerType, Answers, there

\* A step of a client keeps what its answer and its memory say of the audit.
LEMMA ClientStep ==
    ASSUME LifeInv, AnswerType, NEW a \in Audits, AnswerFacts(a),
           Ask(a) \/ Read(a), UNCHANGED vars
    PROVE  AnswerFacts(a)' /\ AnswerType'
           /\ \A b \in Audits \ {a} : answer'[b] = answer[b] /\ told'[b] = told[b]
<1>1. /\ TypeOK
      /\ status[a] \in {"NONE"} \cup Statuses /\ batches[a] \in Nat
      /\ FoundFacts(a)
  BY DEF LifeInv, StepsInv, AccountInv, TypeOK
<1>2. /\ answer[a].status \in {"NONE"} \cup Statuses /\ told[a] \subseteq Statuses
      /\ answer[a].output \in {"none"} \cup Reports
      /\ Way(a)
  BY DEF AnswerType, Answers, AnswerFacts
<1>3. UNCHANGED <<status, output, row, batches, mishaps>>
  BY DEF vars, database
<1>4. status[a] = "SUCCESS" => output[a] \in Storable
  BY DEF LifeInv, StepsInv, StepsOf, StepsSettled
<1>5. ASSUME Ask(a)
      PROVE  AnswerFacts(a)' /\ AnswerType'
             /\ \A b \in Audits \ {a} : answer'[b] = answer[b] /\ told'[b] = told[b]
  <2>1. /\ AnswerType'
        /\ answer'[a].route \in Routes
        /\ answer'[a].left = Queries(answer'[a].route)
        /\ answer'[a].status = "NONE"
        /\ told'[a] = told[a] \/ (RowGot(a) /\ told'[a] = told[a] \cup {answer[a].status})
        /\ \A b \in Audits \ {a} : answer'[b] = answer[b] /\ told'[b] = told[b]
    BY <1>5, AskDoes
  <2>2. ~RowGot(a)'
    BY <2>1 DEF RowGot
  <2>3. Way(a)'
    BY <2>1, <2>2 DEF Way, Routes
  <2>4. Findings(a)' /\ Steps(a)'
    BY <2>2 DEF Findings, Steps, FoundGot, StepsGot
  <2>5. Forward(a)'
    BY <1>3, <2>1, <2>2 DEF AnswerFacts, Forward
  <2>6. Shown(a)'
    BY <1>3, <2>1, <2>2 DEF AnswerFacts, Shown
  <2> QED
    BY <2>1, <2>3, <2>4, <2>5, <2>6 DEF AnswerFacts
<1>6. ASSUME QueryRow(a), UNCHANGED told
      PROVE  AnswerFacts(a)' /\ AnswerType'
             /\ \A b \in Audits \ {a} : answer'[b] = answer[b] /\ told'[b] = told[b]
  <2>1. /\ AnswerType'
        /\ ~RowGot(a) /\ answer[a].route \in Routes
        /\ \A b \in Audits \ {a} : answer'[b] = answer[b]
    BY <1>1, <1>2, <1>6, QueryRowDoes
  <2>2. CASE answer'[a] = NoAnswer
    <3>1. /\ answer'[a].route = "none" /\ answer'[a].left = <<>>
          /\ answer'[a].status = "NONE"
      BY <2>2, NothingYet
    <3>2. ~RowGot(a)'
      BY <3>1 DEF RowGot
    <3>3. Way(a)'
      BY <3>1, <3>2 DEF Way
    <3>4. Findings(a)' /\ Steps(a)'
      BY <3>2 DEF Findings, Steps, FoundGot, StepsGot
    <3>5. Forward(a)' /\ Shown(a)'
      BY <1>3, <1>6, <3>1, <3>2 DEF AnswerFacts, Forward, Shown
    <3> QED
      BY <1>6, <2>1, <3>3, <3>4, <3>5 DEF AnswerFacts
  <2>3. CASE answer'[a] # NoAnswer
    <3>1. /\ answer'[a].route = answer[a].route
          /\ answer'[a].left = Relations[answer[a].route]
          /\ answer'[a].status = status[a] /\ status[a] # "NONE"
          /\ answer'[a].output = output[a]
      BY <1>1, <1>2, <1>6, <2>3, QueryRowDoes
    <3>2. Way(a)'
      BY <2>1, <3>1, RelationsAre DEF Way, RowGot, Routes
    <3>3. ~StepsGot(a)' /\ ~FoundGot(a)'
      BY <2>1, <3>1, RelationsAre, RelationsGoOn DEF StepsGot, FoundGot, Routes, ReadsSteps, ReadsReport
    <3>4. Findings(a)' /\ Steps(a)'
      BY <1>1, <1>3, <3>1, <3>3 DEF Findings, Steps, FoundFacts
    <3>5. Forward(a)'
      BY <1>3, <1>6, <3>1 DEF AnswerFacts, Forward, RowGot, Before
    <3>6. Shown(a)'
      BY <1>3, <1>4, <1>6, <3>1 DEF AnswerFacts, Shown, RowGot
    <3> QED
      BY <1>6, <2>1, <3>2, <3>4, <3>5, <3>6 DEF AnswerFacts
  <2> QED
    BY <2>2, <2>3
<1>7. ASSUME QuerySteps(a), UNCHANGED told
      PROVE  AnswerFacts(a)' /\ AnswerType'
             /\ \A b \in Audits \ {a} : answer'[b] = answer[b] /\ told'[b] = told[b]
  <2>1. /\ AnswerType'
        /\ RowGot(a) /\ ReadsSteps(a)
        /\ answer'[a].left = IF answer[a].route = "status" THEN <<>> ELSE <<"findings">>
        /\ answer'[a].route = answer[a].route
        /\ answer'[a].status = answer[a].status
        /\ answer'[a].output = answer[a].output
        /\ answer'[a].steps = [p \in Prompts |-> row[a][p].status]
        /\ \A b \in Audits \ {a} : answer'[b] = answer[b]
    BY <1>1, <1>2, <1>7, QueryStepsDoes
  <2>2. Way(a)'
    BY <2>1 DEF Way, RowGot, ReadsSteps
  <2>3. Findings(a)'
    <3>1. ~FoundGot(a)'
      BY <2>1, RelationsGoOn DEF FoundGot, ReadsReport
    <3> QED
      BY <1>3, <2>1, <3>1 DEF AnswerFacts, Findings, RowGot
  <2>4. Steps(a)'
    <3> SUFFICES ASSUME mishaps[a] = 0, answer[a].status \in Settled
                 PROVE  /\ \A p \in Prompts : answer'[a].steps[p] \in Ended
                        /\ answer[a].status = "SUCCESS" =>
                             \A S \in {Candidates, Reviewers} :
                                \E p \in S : answer'[a].steps[p] = "SUCCESS"
      BY <1>3, <2>1 DEF Steps, Settled
    <3>1. status[a] = answer[a].status
      BY <1>1, <2>1, Order DEF AnswerFacts, Forward, Settled, Statuses
    <3>2. /\ \A p \in Prompts : row[a][p].status \in Ended
          /\ answer[a].status = "SUCCESS" =>
               \A S \in {Candidates, Reviewers} : \E p \in S : row[a][p].status = "SUCCESS"
      BY <3>1, SettledSteps
    <3> QED
      BY <2>1, <3>2 DEF Candidates, Reviewers
  <2>5. Forward(a)' /\ Shown(a)'
    BY <1>3, <1>7, <2>1 DEF AnswerFacts, Forward, Shown, RowGot
  <2> QED
    BY <1>7, <2>1, <2>2, <2>3, <2>4, <2>5 DEF AnswerFacts
<1>8. ASSUME QueryFindings(a), UNCHANGED told
      PROVE  AnswerFacts(a)' /\ AnswerType'
             /\ \A b \in Audits \ {a} : answer'[b] = answer[b] /\ told'[b] = told[b]
  <2>1. /\ AnswerType'
        /\ RowGot(a) /\ ReadsReport(a) /\ answer[a].left = <<"findings">>
        /\ answer'[a].left = <<>>
        /\ answer'[a].route = answer[a].route
        /\ answer'[a].status = answer[a].status
        /\ answer'[a].output = answer[a].output
        /\ answer'[a].steps = answer[a].steps
        /\ answer'[a].found = (batches[a] > 0)
        /\ \A b \in Audits \ {a} : answer'[b] = answer[b]
    BY <1>1, <1>2, <1>8, QueryFindingsDoes
  <2>2. Way(a)'
    BY <2>1 DEF Way, RowGot, ReadsReport
  <2>3. Findings(a)'
    BY <1>3, <2>1 DEF AnswerFacts, Findings, RowGot
  <2>4. Steps(a)'
    BY <1>3, <2>1 DEF AnswerFacts, Steps, StepsGot, RowGot, ReadsSteps
  <2>5. Forward(a)' /\ Shown(a)'
    BY <1>3, <1>8, <2>1 DEF AnswerFacts, Forward, Shown, RowGot
  <2> QED
    BY <1>8, <2>1, <2>2, <2>3, <2>4, <2>5 DEF AnswerFacts
<1> QED
  BY <1>5, <1>6, <1>7, <1>8 DEF Read

\* ReadsInv is an invariant.
LEMMA ReadsInvariant == ReadsSpec => []ReadsInv
<1>1. ReadsInit => AnswerType /\ \A a \in Audits : AnswerFacts(a)
  <2> SUFFICES ASSUME ReadsInit PROVE AnswerType /\ \A a \in Audits : AnswerFacts(a)
    OBVIOUS
  <2>1. AnswerType
    BY NothingYet DEF ReadsInit, InitReads, AnswerType
  <2>2. ASSUME NEW a \in Audits PROVE AnswerFacts(a)
    <3>1. /\ answer[a].route = "none" /\ answer[a].left = <<>>
          /\ answer[a].status = "NONE" /\ told[a] = {}
      BY NothingYet DEF ReadsInit, InitReads
    <3> QED
      BY <3>1 DEF AnswerFacts, Way, Findings, Steps, Forward, Shown, RowGot, StepsGot, FoundGot
  <2> QED
    BY <2>1, <2>2
<1>2. ReadsInv /\ LifeInv' /\ [ReadsNext]_<<vars, reads>> => ReadsInv'
  <2> SUFFICES ASSUME ReadsInv, LifeInv', [ReadsNext]_<<vars, reads>>
               PROVE  AnswerType' /\ \A b \in Audits : AnswerFacts(b)'
    BY DEF ReadsInv
  <2> LifeInv /\ AnswerType /\ \A b \in Audits : AnswerFacts(b)
    BY DEF ReadsInv
  <2>1. CASE [Next]_vars /\ UNCHANGED reads
    <3>1. UNCHANGED answer /\ UNCHANGED told
      BY <2>1 DEF reads
    <3> QED
      BY <2>1, <3>1, AnswersOutlast DEF AnswerType
  <2>2. ASSUME NEW a \in Audits, Ask(a) \/ Read(a), UNCHANGED vars
        PROVE  AnswerType' /\ \A b \in Audits : AnswerFacts(b)'
    <3>1. /\ AnswerFacts(a)' /\ AnswerType'
          /\ \A b \in Audits \ {a} : answer'[b] = answer[b] /\ told'[b] = told[b]
      BY <2>2, ClientStep
    <3> QED
      BY <2>2, <3>1, AnswersOutlast
  <2> QED
    BY <2>1, <2>2 DEF ReadsNext
<1> QED
  BY <1>1, <1>2, ReadersOnlyRead, LifeInvariant, PTL DEF ReadsSpec, ReadsInv

\* An answer that was given has the row.
LEMMA AnsweredGot ==
    ASSUME ReadsInv, NEW a \in Audits, Answered(a)
    PROVE  AnswerFacts(a) /\ RowGot(a)
<1>1. AnswerFacts(a) /\ answer[a].route \in Routes
  BY DEF ReadsInv, AnswerType, Answers, Answered
<1>2. Queries(answer[a].route) # <<>>
  BY <1>1, QueriesAre
<1> QED
  BY <1>1, <1>2 DEF AnswerFacts, Way, Answered

(***************************************************************************)
(* What an answer shows belongs together although get_status and get_audit *)
(* read it query by query while the worker goes on: a report with findings *)
(* comes with its findings, and without a fault a settled audit comes with *)
(* ended steps, and a SUCCESS with a step of each kind that is one.        *)
(***************************************************************************)
THEOREM OneAnswerCoheres == ReadsSpec => []AnswersCohere
<1>1. ASSUME ReadsInv, NEW a \in Audits, Answered(a)
      PROVE  /\ ReadsReport(a) /\ answer[a].output = "findings" => answer[a].found
             /\ ReadsSteps(a) /\ mishaps[a] = 0 =>
                  /\ answer[a].status \in Settled =>
                       \A p \in Prompts : answer[a].steps[p] \in {"NONE"} \cup Settled
                  /\ answer[a].status = "SUCCESS" =>
                       \A S \in {Candidates, Reviewers} :
                          \E p \in S : answer[a].steps[p] = "SUCCESS"
  <2>1. AnswerFacts(a) /\ RowGot(a)
    BY <1>1, AnsweredGot
  <2> QED
    BY <1>1, <2>1 DEF AnswerFacts, Findings, Steps, StepsGot, FoundGot, Answered, Ended
<1>2. ReadsInv => AnswersCohere
  BY <1>1 DEF AnswersCohere
<1> QED
  BY <1>2, ReadsInvariant, PTL

(***************************************************************************)
(* A client that was told SUCCESS is shown a report whenever it asks for   *)
(* one after that, whatever faults make arq run the job again: no step     *)
(* takes a stored report away, and none stores one without a structure.    *)
(***************************************************************************)
THEOREM SuccessKeepsReport == ReadsSpec => []ToldThenShown
<1>1. ASSUME ReadsInv, NEW a \in Audits, Answered(a), ReadsReport(a), "SUCCESS" \in told[a]
      PROVE  answer[a].output \in {"findings", "clean"} \/ Fails(a)
  <2>1. AnswerFacts(a) /\ RowGot(a)
    BY <1>1, AnsweredGot
  <2> QED
    BY <1>1, <2>1 DEF AnswerFacts, Shown, Storable, Fails, ReadsReport
<1>2. ReadsInv => ToldThenShown
  BY <1>1 DEF ToldThenShown
<1> QED
  BY <1>2, ReadsInvariant, PTL

(***************************************************************************)
(* The statuses a client is told go forward and what is settled stays as   *)
(* it was told, unless a fault made arq run the job again.                 *)
(***************************************************************************)
THEOREM ForwardOnly == ReadsSpec => []PollsMoveForward
<1>1. ASSUME ReadsInv, NEW a \in Audits, Answered(a), mishaps[a] = 0, NEW s \in told[a]
      PROVE  s = answer[a].status \/ Rank[s] < Rank[answer[a].status]
  <2>1. AnswerFacts(a) /\ RowGot(a)
    BY <1>1, AnsweredGot
  <2> QED
    BY <1>1, <2>1 DEF AnswerFacts, Forward, Before
<1>2. ReadsInv => PollsMoveForward
  BY <1>1 DEF PollsMoveForward
<1> QED
  BY <1>2, ReadsInvariant, PTL
=============================================================================
