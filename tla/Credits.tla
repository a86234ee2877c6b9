------------------------------ MODULE Credits ------------------------------
(***************************************************************************)
(* The credits of a payer: a user, or the owner of a third-party app.      *)
(*                                                                         *)
(*  - RequireCredits (api/dependencies.py) reads the User row before POST  *)
(*    /audit creates the audit, and never reserves anything;               *)
(*  - handle_eval (worker/tasks.py) reads the row when a job starts, and   *)
(*    saves the whole row it read, plus the cost, when the job ends;       *)
(*  - sync_credits (api/auth/router.py) reads the row, asks the chain for  *)
(*    the credits of the payer, and saves the whole row it read with them. *)
(*                                                                         *)
(* So both columns of the row are written from a copy that may be stale.   *)
(* Jobs run side by side in the worker and calls in the API. What a job    *)
(* does besides is in AuditLifecycle.                                      *)
(***************************************************************************)
EXTENDS Pricing

CONSTANTS
    Payers,    \* the users that pay
    Audits,    \* the audits that consume credits
    Payer,     \* who pays for an audit
    Tokens,    \* pipeline.usage of an audit when its reviewer has answered
    Grant,     \* total_credits of every payer at the start
    Syncs,     \* the calls of POST /auth/sync/credits
    Caller,    \* the payer who makes a call
    Quotes,    \* what the contract on the chain may answer
    MaxStops   \* bound of the model: stops of the worker

ASSUME PayerAssumption == Payer \in [Audits -> Payers] /\ Caller \in [Syncs -> Payers]
ASSUME CreditsAssumption == /\ Tokens \in [Audits -> Usages]
                            /\ Grant \in [Payers -> Nat]
                            /\ Quotes \subseteq Nat
                            /\ MaxStops \in Nat

\* cost = pipeline.usage.get_cost().
Cost == [a \in Audits |-> get_cost(Tokens[a])]

VARIABLES
    total,     \* User.total_credits
    used,      \* User.used_credits
    spend,     \* the sum of the SPEND transactions of every payer
    net,       \* the sum of the PURCHASE minus that of the REFUND transactions
    stage,     \* how far an audit is
    copy,      \* the User row the job of an audit read
    call,      \* how far a call of sync_credits is
    seen,      \* the User row the call read
    quote,     \* the credits the chain answered
    stops,     \* how often the worker stopped
    due,       \* history: what the audits of a payer are to cost so far: each
               \* once, and once more for every stop that struck its job after
               \* the row was saved and before the transaction was
    paid,      \* history: the audits whose cost is in due
    overlapped,\* history: payers whose row two processes held at a time
    burst      \* history: the costs saved to the row of a payer since a request
               \* was let pass while no other of the payer's was in flight

row     == <<total, used>>
ledger  == <<spend, net>>
jobs    == <<stage, copy>>
calls   == <<call, seen, quote>>
history == <<due, paid, overlapped, burst>>
vars    == <<row, ledger, jobs, calls, stops, history>>

Row(u)    == [total |-> total[u], used |-> used[u]]
Copies    == [total : Nat, used : Nat]
InFlight  == {"checked", "queued", "running", "charged"}
Stages    == {"none", "refused", "done", "failed"} \cup InFlight
CallStages == {"none", "read", "quoted", "saved", "dropped", "over"}

Init ==
    /\ total = Grant
    /\ used = [u \in Payers |-> 0]
    /\ spend = [u \in Payers |-> 0]
    /\ net = [u \in Payers |-> 0]
    /\ stage = [a \in Audits |-> "none"]
    /\ copy = [a \in Audits |-> [total |-> 0, used |-> 0]]
    /\ call = [s \in Syncs |-> "none"]
    /\ seen = [s \in Syncs |-> [total |-> 0, used |-> 0]]
    /\ quote = [s \in Syncs |-> 0]
    /\ stops = 0
    /\ due = [u \in Payers |-> 0]
    /\ paid = {}
    /\ overlapped = {}
    /\ burst = [u \in Payers |-> 0]

\* The jobs and the calls that have read the row of u and may save it still.
HoldingJobs(u)  == {a \in Audits : Payer[a] = u /\ stage[a] = "running"}
HoldingCalls(u) == {s \in Syncs : Caller[s] = u /\ call[s] \in {"read", "quoted"}}

\* u's row is read by a process that will save it.
NoteReader(u) ==
    overlapped' = IF HoldingJobs(u) \cup HoldingCalls(u) # {}
                    THEN overlapped \cup {u} ELSE overlapped

(***************************************************************************)
(* POST /audit                                                             *)
(***************************************************************************)

\* Mutant of HasCredits: a payer who used up the credits has some left.
HasCreditsOrZero(u) == total[u] > 0 /\ used[u] <= total[u]

\* What RequireCredits asks of the row.
HasCredits(u) == total[u] > 0 /\ used[u] < total[u]

\* No request that was let pass, and no audit, of u is on its way.
Idle(u) == \A b \in Audits : Payer[b] = u => stage[b] \notin InFlight

\* RequireCredits lets the request pass, or answers 402.
Check(a) ==
    /\ stage[a] = "none"
    /\ stage' = [stage EXCEPT ![a] =
                    IF HasCredits(Payer[a]) THEN "checked" ELSE "refused"]
    /\ burst' = [burst EXCEPT ![Payer[a]] =
                    IF HasCredits(Payer[a]) /\ Idle(Payer[a]) THEN 0 ELSE @]
    /\ UNCHANGED <<row, ledger, copy, calls, stops, due, paid, overlapped>>

\* process_evaluation creates the audit and its job, or answers 404.
Create(a) ==
    /\ stage[a] = "checked"
    /\ \E to \in {"queued", "refused"} : stage' = [stage EXCEPT ![a] = to]
    /\ UNCHANGED <<row, ledger, copy, calls, stops, history>>

(***************************************************************************)
(* The job of an audit.                                                    *)
(***************************************************************************)

\* handle_eval reads the credential and, with it, the row of the payer.
Start(a) ==
    /\ stage[a] = "queued"
    /\ stage' = [stage EXCEPT ![a] = "running"]
    /\ copy' = [copy EXCEPT ![a] = Row(Payer[a])]
    /\ NoteReader(Payer[a])
    /\ UNCHANGED <<row, ledger, calls, stops, due, paid, burst>>

\* The pipeline or a save raises, or the job times out.
Fail(a) ==
    /\ stage[a] \in {"running", "charged"}
    /\ stage' = [stage EXCEPT ![a] = "failed"]
    /\ UNCHANGED <<row, ledger, copy, calls, stops, history>>

\* Mutants of NewUsed: the cost replaces what was used; it is given back.
NewUsedSet(a)   == Cost[a]
NewUsedLess(a)  == copy[a].used - Cost[a]

\* user.used_credits += cost, on the copy.
NewUsed(a) == copy[a].used + Cost[a]

\* user.save(): both columns are written.
Charge(a) ==
    LET u == Payer[a] IN
    /\ stage[a] = "running"
    /\ used' = [used EXCEPT ![u] = NewUsed(a)]
    /\ total' = [total EXCEPT ![u] = copy[a].total]
    /\ due' = [due EXCEPT ![u] = @ + (IF a \in paid THEN 0 ELSE Cost[a])]
    /\ paid' = paid \cup {a}
    /\ burst' = [burst EXCEPT ![u] = @ + Cost[a]]
    /\ stage' = [stage EXCEPT ![a] = "charged"]
    /\ UNCHANGED <<ledger, copy, calls, stops, overlapped>>

\* transaction.save(), of type SPEND.
Record(a) ==
    /\ stage[a] = "charged"
    /\ spend' = [spend EXCEPT ![Payer[a]] = @ + Cost[a]]
    /\ stage' = [stage EXCEPT ![a] = "done"]
    /\ UNCHANGED <<row, net, copy, calls, stops, history>>

\* Mutant of Struck: a job that ended is run again too.
StruckEnded == {a \in Audits : stage[a] \in {"running", "charged", "done"}}

\* The jobs a stop strikes.
Struck == {a \in Audits : stage[a] \in {"running", "charged"}}

\* The worker stops, and arq starts the jobs that ran again from their start:
\* what such a job saved to the row it saves once more.
Stop ==
    /\ stops < MaxStops
    /\ stops' = stops + 1
    /\ stage' = [a \in Audits |-> IF a \in Struck THEN "queued" ELSE stage[a]]
    /\ paid' = paid \ {a \in Audits : stage[a] = "charged"}
    /\ UNCHANGED <<row, ledger, copy, calls, due, overlapped, burst>>

(***************************************************************************)
(* POST /auth/sync/credits                                                 *)
(***************************************************************************)
ReadRow(s) ==
    /\ call[s] = "none"
    /\ call' = [call EXCEPT ![s] = "read"]
    /\ seen' = [seen EXCEPT ![s] = Row(Caller[s])]
    /\ NoteReader(Caller[s])
    /\ UNCHANGED <<row, ledger, jobs, quote, stops, due, paid, burst>>

\* Web3Client.get_user_credits: what the contract says, and 0 whenever it
\* cannot be asked.
get_user_credits == Quotes \cup {0}

\* get_credits answers. (It does where from_deployment gives it a client, as in
\* the tests.)
GetCredits(s) ==
    /\ call[s] = "read"
    /\ \E q \in get_user_credits : quote' = [quote EXCEPT ![s] = q]
    /\ call' = [call EXCEPT ![s] = "quoted"]
    /\ UNCHANGED <<row, ledger, jobs, seen, stops, history>>

\* from_deployment raises (it calls cls._new_, which there is not), and the call
\* is over: "could not connect to network".
NoClient(s) ==
    /\ call[s] = "read"
    /\ call' = [call EXCEPT ![s] = "over"]
    /\ UNCHANGED <<row, ledger, jobs, seen, quote, stops, history>>

\* Mutant of SaveTotal: the credits are added to those of the row.
SaveTotalAdds(s) ==
    LET u == Caller[s] IN
    /\ call[s] = "quoted"
    /\ total' = [total EXCEPT ![u] = seen[s].total + quote[s]]
    /\ used' = [used EXCEPT ![u] = seen[s].used]
    /\ call' = [call EXCEPT ![s] = IF quote[s] # seen[s].total THEN "saved" ELSE "over"]
    /\ UNCHANGED <<ledger, jobs, seen, quote, stops, history>>

\* user.total_credits = credits; user.save(): both columns are written.
SaveTotal(s) ==
    LET u == Caller[s] IN
    /\ call[s] = "quoted"
    /\ total' = [total EXCEPT ![u] = quote[s]]
    /\ used' = [used EXCEPT ![u] = seen[s].used]
    /\ call' = [call EXCEPT ![s] = IF quote[s] # seen[s].total THEN "saved" ELSE "over"]
    /\ UNCHANGED <<ledger, jobs, seen, quote, stops, history>>

\* transaction.save(), of type PURCHASE or REFUND.
RecordSync(s) ==
    /\ call[s] = "saved"
    /\ net' = [net EXCEPT ![Caller[s]] = @ + (quote[s] - seen[s].total)]
    /\ call' = [call EXCEPT ![s] = "over"]
    /\ UNCHANGED <<row, spend, jobs, seen, quote, stops, history>>

\* A save raises or the API stops: the rest of the call does not happen.
Drop(s) ==
    /\ call[s] \in {"read", "quoted", "saved"}
    /\ call' = [call EXCEPT ![s] = IF call[s] = "saved" THEN "dropped" ELSE "over"]
    /\ UNCHANGED <<row, ledger, jobs, seen, quote, stops, history>>

-----------------------------------------------------------------------------
Next ==
    \/ \E a \in Audits :
        Check(a) \/ Create(a) \/ Start(a) \/ Fail(a) \/ Charge(a) \/ Record(a)
    \/ Stop
    \/ \E s \in Syncs :
        \/ ReadRow(s) \/ GetCredits(s) \/ NoClient(s)
        \/ SaveTotal(s) \/ RecordSync(s) \/ Drop(s)

Spec == Init /\ [][Next]_vars
-----------------------------------------------------------------------------
TypeOK ==
    /\ total \in [Payers -> Nat]
    /\ used  \in [Payers -> Nat]
    /\ spend \in [Payers -> Nat]
    /\ net   \in [Payers -> Int]
    /\ stage \in [Audits -> Stages]
    /\ copy  \in [Audits -> Copies]
    /\ call  \in [Syncs -> CallStages]
    /\ seen  \in [Syncs -> Copies]
    /\ quote \in [Syncs -> Nat]
    /\ stops \in 0 .. MaxStops
    /\ due \in [Payers -> Nat]
    /\ paid \in SUBSET Audits
    /\ overlapped \in SUBSET Payers
    /\ burst \in [Payers -> Nat]

\* Whatever saves cross, used_credits of a payer holds the cost of no audit
\* twice, but for a job that a stop struck between user.save() and the end of
\* the job: arq runs it again, and it saves its cost once more for each such
\* stop. A stale copy can lose a charge, never invent one.
ChargedOncePerRun == \A u \in Payers : used[u] <= due[u]

\* The balance is exact for a payer whose row was never held by two jobs or
\* calls at a time: every audit is in used_credits, and is there once, or once
\* more for each stop as above, whatever the retries and the calls that failed
\* half way (user.save() of handle_eval and of sync_credits).
LoneWriterIsExact ==
    \A u \in Payers \ overlapped : used[u] = due[u]

\* For such a payer the PURCHASE and REFUND transactions explain total_credits,
\* once no call is, or was dropped, between its two saves (sync_credits).
LedgerExplainsTotal ==
    \A u \in Payers \ overlapped :
        (\A s \in Syncs : Caller[s] = u => call[s] \notin {"saved", "dropped"})
            => total[u] = Grant[u] + net[u]

\* What RequireCredits achieves without reserving anything: however many
\* requests of a payer pass while others are in flight, and however often a stop
\* has a job charged again, the payer overdraws by less than what was charged
\* since the first of them passed. (One request after the other: by less than
\* one audit.) A payer whose total the calls change is left out.
OverdraftBelowBurst ==
    \A u \in Payers :
        (\A s \in Syncs : Caller[s] # u) =>
            used[u] = 0 \/ used[u] < total[u] + burst[u]

\* Every audit that ended well has consumed its credits, as the description of
\* POST /audit says. (It has not when two jobs of a payer overlap: the copy of
\* the one saves over the charge of the other.)
AuditsConsumeCredits ==
    \A u \in Payers :
        (\A a \in Audits : Payer[a] = u => stage[a] \notin InFlight)
            => used[u] >= spend[u]

=============================================================================
