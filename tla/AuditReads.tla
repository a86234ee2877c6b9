----------------------------- MODULE AuditReads -----------------------------
(***************************************************************************)
(* What clients are told of an audit while it runs: the answers of         *)
(* GET /audit/{id}/status, GET /audit/{id} and GET /admin/audit/{id}       *)
(* (api/audit/service.py, api/admin/service.py) beside AuditLifecycle.     *)
(*                                                                         *)
(* An answer is put together from several queries: the row of the audit,   *)
(* then the rows that are prefetched for it. The worker goes on between    *)
(* them. Every audit has one client, which asks again and again, as the    *)
(* examples of openapi.py do.                                              *)
(***************************************************************************)
EXTENDS AuditLifecycle, Sequences

VARIABLES
    answer,   \* the latest call of the client: what was read, what is left
    told      \* history: the statuses earlier answers told the client

reads == <<answer, told>>

\* What each route reads, in this order: prefetch_related runs one query for
\* each relation, once the row is there.
Routes == {"status", "audit", "children"}
Relations ==
    [status |-> <<"steps">>, audit |-> <<"findings">>, children |-> <<"steps", "findings">>]

\* Mutant of Queries: the relations are read before the row.
QueriesRowLast(route) == Relations[route] \o <<"row">>

Queries(route) == <<"row">> \o Relations[route]

\* `found` is whether findings were read, `steps` the statuses of the steps.
NoAnswer == [route |-> "none", left |-> <<>>, status |-> "NONE", output |-> "none",
             steps |-> [p \in Prompts |-> "NONE"], found |-> FALSE]

InitReads ==
    /\ answer = [a \in Audits |-> NoAnswer]
    /\ told = [a \in Audits |-> {}]

Answered(a) == answer[a].route # "none" /\ answer[a].left = <<>>

\* sanitize_data parses the report again, and raises on one that is no JSON.
Fails(a) == answer[a].route \in {"audit", "children"} /\ answer[a].output = "garbled"

\* The client, which has had the answer to its last call, sends the next.
Ask(a) ==
    /\ answer[a].left = <<>>
    /\ \E route \in Routes :
        answer' = [answer EXCEPT ![a] =
                     [NoAnswer EXCEPT !.route = route, !.left = Queries(route)]]
    /\ told' = IF answer[a].status = "NONE" \/ Fails(a) THEN told
               ELSE [told EXCEPT ![a] = @ \cup {answer[a].status}]

\* The next query of a call is q.
Due(a, q) == answer[a].left # <<>> /\ Head(answer[a].left) = q

\* The row of the audit. An audit that does not exist is answered 404.
QueryRow(a) ==
    /\ Due(a, "row")
    /\ \/ /\ status[a] = "NONE"
          /\ answer' = [answer EXCEPT ![a] = NoAnswer]
       \/ /\ status[a] # "NONE"
          /\ answer' = [answer EXCEPT ![a].left = Tail(@), ![a].status = status[a],
                                       ![a].output = output[a]]

QuerySteps(a) ==
    /\ Due(a, "steps")
    /\ answer' = [answer EXCEPT ![a].left = Tail(@),
                                 ![a].steps = [p \in Prompts |-> row[a][p].status]]

QueryFindings(a) ==
    /\ Due(a, "findings")
    /\ answer' = [answer EXCEPT ![a].left = Tail(@), ![a].found = batches[a] > 0]

Read(a) == (QueryRow(a) \/ QuerySteps(a) \/ QueryFindings(a)) /\ UNCHANGED told

-----------------------------------------------------------------------------
ReadsInit == Init /\ InitReads

ReadsNext ==
    \/ Next /\ UNCHANGED reads
    \/ \E a \in Audits : (Ask(a) \/ Read(a)) /\ UNCHANGED vars

ReadsSpec     == ReadsInit /\ [][ReadsNext]_<<vars, reads>>
FairReadsSpec == ReadsSpec /\ Fairness
-----------------------------------------------------------------------------
ReadsTypeOK ==
    /\ TypeOK
    /\ answer \in [Audits ->
         [route  : Routes \cup {"none"},
          left   : {s \o Relations[r] : s \in {<<>>, <<"row">>}, r \in Routes} \cup {<<>>},
          status : {"NONE"} \cup Statuses,
          output : {"none"} \cup Reports,
          steps  : [Prompts -> {"NONE"} \cup Statuses],
          found  : BOOLEAN]]
    /\ told \in [Audits -> SUBSET Statuses]

ReadsSteps(a)    == answer[a].route \in {"status", "children"}
ReadsReport(a)   == answer[a].route \in {"audit", "children"}

\* What one answer shows belongs together although it is read bit by bit: a
\* report with findings comes with its findings, and an answer that says the
\* audit is settled shows no step that is not, nor a SUCCESS without a step
\* that is (the steps may be those of a run after a fault: arq starts over
\* while the answer still has the status of the first run).
AnswersCohere ==
    \A a \in Audits : Answered(a) =>
        /\ ReadsReport(a) /\ answer[a].output = "findings" => answer[a].found
        /\ ReadsSteps(a) /\ mishaps[a] = 0 =>
             /\ answer[a].status \in Settled =>
                  \A p \in Prompts : answer[a].steps[p] \in {"NONE"} \cup Settled
             /\ answer[a].status = "SUCCESS" =>
                  \A S \in {Candidates, Reviewers} :
                     \E p \in S : answer[a].steps[p] = "SUCCESS"

\* A client that was told SUCCESS is shown a report whenever it asks for one
\* after that, as the example of openapi.py goes on to do, whatever happens to
\* the job meanwhile: a run that starts over keeps the raw_output of the first.
\* (Or the call fails, and goes on failing: _write_findings skips a report that
\* is no JSON, and the audit is SUCCESS all the same.)
ToldThenShown ==
    \A a \in Audits :
        Answered(a) /\ ReadsReport(a) /\ "SUCCESS" \in told[a] =>
            answer[a].output \in {"findings", "clean"} \/ Fails(a)

\* The statuses a client is told go forward, and what is settled stays as it
\* was told, unless a fault made arq run the job again.
Rank == [WAITING |-> 1, PROCESSING |-> 2, SUCCESS |-> 3, FAILED |-> 3]
PollsMoveForward ==
    \A a \in Audits : Answered(a) /\ mishaps[a] = 0 =>
        \A s \in told[a] : s = answer[a].status \/ Rank[s] < Rank[answer[a].status]

=============================================================================
