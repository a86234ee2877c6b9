# certaik-api: a TLA+ verification development

The modules in this directory model the parts of certaik-api (the API and the
worker behind AI audits of smart contracts) whose correctness depends on the
order in which things happen. TLC checks them on small instances. TLAPS proves
what matters most for every value of the constants. `PROJECT.json` lists the
runs, the theorems, the hazards and, definition by definition, the lines of
`src/` each definition stands for.

    tlc -workers 2 -config Lifecycle.cfg MCAuditLifecycle    # one run
    tlapm AuditLifecycleProofs.tla                           # one proof module

## 1. The system

Two processes share a Postgres database and a Redis server.

* **The API** (`app/api`, FastAPI on one asyncio loop) authenticates a request,
  reads and writes rows with Tortoise ORM, and enqueues jobs in Redis through
  arq. Its only transactions create a user or an app with its permission row, or
  save two prompts; nothing locks a row, and `save()` writes *all* columns of the object
  it is called on.
* **The worker** (`app/worker`, arq) takes jobs and runs each of them as a
  coroutine, several at a time. `WorkerSettings` sets no `job_timeout` and no
  `max_tries`, so arq's defaults hold (300 s, 5 tries). arq runs a job again when
  the worker stopped under it. It does not when the job raised or timed out.

Outside are the language models, the block explorers, a credits contract on a
chain, and the clients that poll.

| Component | State | Operations | Talks to |
|---|---|---|---|
| Audit lifecycle (`api/audit/service.py`, `worker/tasks.py`, `api/pipeline/audit_generation.py`) | `Audit`, `IntermediateResponse`, `Finding` rows, the arq job, the pipeline object | `process_evaluation`, `handle_eval`, `generate_candidates`, `generate_report`, `_checkpoint`, `_write_findings` | models, prompts, credits |
| Credits (`api/dependencies.py`, `worker/tasks.py`, `api/auth/router.py`) | `User.total_credits`, `User.used_credits`, `Transaction` rows | `RequireCredits`, the charge in `handle_eval`, `sync_credits` | lifecycle, the chain |
| Contracts (`api/contract/service.py`, `api/blockchain/service.py`) | `Contract` rows | `_get_or_create_contract`, `get_source_code` | explorers |
| Prompts (`api/admin/service.py`) | `Prompt.is_active` per tag | `add_prompt`, `update_prompt` | lifecycle |
| Accounts (`api/user`, `api/app`, `api/auth`, `api/permission`, `api/admin`) | `User`, `App`, `Auth`, `Permission` rows | get or create, key generation, permission updates | every request |
| Authorization (`api/dependencies.py`, `api/auth/service.py`, the routers) | the `AuthState` of a request | `Authentication`, `AuthenticationWithoutDelegation`, `check_delegated_scope`, `RequireCredits` | every handler |
| Audit reads and feedback (`api/audit/service.py`, `api/admin/service.py`) | `Finding` feedback columns | `get_status`, `get_audit`, `get_audit_children`, `get_audits`, `submit_feedback` | lifecycle, authorization |
| Pricing (`api/pricing/service.py`) | `Usage` of a pipeline | `add_input`, `add_output`, `get_cost` | lifecycle, credits |
| Explorer and chain clients (`lib/clients`, `utils/helpers/code_parser.py`) | none | the URL of a network, `SourceCodeParser`, `get_credits` | contracts, credits |

What is left of the repository (templates, statistics, metrics, migrations, and
code that nothing reaches: the WebSocket router, the rate limits, the scan of new
blocks) is text, configuration or dead. `PROJECT.json` lists each part with the reason it is left out.

### What is hard

* **Interleaving.** Candidate coroutines checkpoint their rows in any order, one
  that raises makes `asyncio.gather` raise while its siblings run on, and an
  admin changes the active prompts between the two times the pipeline reads them.
* **Crashes and retries.** A stopped worker starts the job over from its first
  line, over rows, findings and charges of the first run, while clients poll.
* **Timeouts.** `CancelledError` passes every `except Exception`.
* **Partial failure.** Outcome, findings, charge and transaction are separate saves.
* **Stale state.** A payer's row is read minutes before all of it is saved, two
  prompts are saved from copies read before the transaction, and a request goes
  on with what it read of a key that was revoked meanwhile.
* **Torn reads.** An answer is put together from up to five queries.
* **Check, then act.** Credits, contracts, users, apps and keys are looked up and
  created with nothing in between to stop a second request.

### What makes the components correct

* Lifecycle: the status of an audit agrees with its steps, its report and its
  findings. Each fault costs one more charge and one more batch of findings at
  most. A finished job changes nothing any more. Every accepted audit ends.
* Reads: one answer shows what belongs together; what a client was told stands.
* Credits: the cost of an audit is in the row at most once, and once more for each
  stop that struck its job between the two saves; the balance is exact when no two
  writers overlap; a payer overdraws by less than what was charged since the first
  of the requests in flight passed (one audit, if they come one by one).
* Contracts: what is returned is what was asked for and what was published on
  that network; duplicates come from overlapping requests only; what was found is
  found again.
* Prompts: one prompt of a tag is active, no tag goes dark, no edit is undone.
* Accounts: one user per address, one app per owner; the key last delivered is
  the key that works; what is given out was permitted.
* Authorization: but for the six open routes of `BaseRouter`, a handler runs for
  those who may have it run; each sees what is its own and is not denied what it
  created; and who is charged is who was checked.

## 2. The modules

| Module | Contents |
|---|---|
| `AuditPromise` | Abstract: what a client and a payer see of an audit |
| `AuditLifecycle` | The API call, the job, the pipeline, arq and the admin; implements `AuditPromise` |
| `AuditReads` | Composes `AuditLifecycle` with a client that polls each audit |
| `Prompts` | The calls that change prompts, read by read and save by save |
| `Credits` | The payer's row, its ledger, and everything that saves it; extends `Pricing` |
| `Pricing` | What an audit costs: pure definitions |
| `Contracts` | Get or create of contracts; extends `Explorers` |
| `Explorers` | Networks, explorer URLs, the source code parser: pure definitions |
| `Accounts` | Users, apps, permissions and API keys |
| `Access` | Requests on their way through authentication, delegation and credits to their handlers |
| `MCAuditLifecycle`, `MCAuditReads`, `MCPrompts`, `MCCredits`, `MCContracts`, `MCAccounts`, `MCAccess` | The instances TLC checks |
| `AuditLifecycleProofs`, `AuditReadsProofs`, `PromptsProofs`, `CreditsProofs`, `ContractsProofs`, `AccountsProofs`, `AccessProofs` | The theorems, one module per component |

### AuditLifecycle

`status`, `output`, `row`, `batches`, `charges` and `entries` are columns or
counts of rows of the database (`charges` counts the saves of the payer's
`used_credits` for an audit, `entries` its SPEND transactions). `job` and `tries`
are arq's. `pc`, `branch`, `picked`, `held`, `report` and `usage` are the memory
of one run of `handle_eval`: where it is, where each `_generate_candidate` is,
and what the `Audit` and pipeline objects hold. `held` is there because
`audit.save()` writes `raw_output` as the object has it, not as the row has it.

Every `await` that touches the database or a model is an action of its own,
because the job can stop, time out or lose the database between any two:

| Action | Code |
|---|---|
| `CreateAudit`, `Enqueue`, `LoseRequest` | `process_evaluation`: the row, then the job, or no job |
| `StartJob`, `MarkProcessing` | `handle_eval` reads the audit, saves PROCESSING |
| `SelectCandidates`, `Branch...`, `Gather` | `generate_candidates`; `BranchDatabaseError` is a `_checkpoint` that raises, in the `try` or in its `except` |
| `BeginReview`, `NoReviewer`, `ReviewAnswer`, `ReviewNoAnswer`, `EndReview`, `WriteFindings` | `generate_report` |
| `StoreReport`, `StoreFailure`, `Charge`, `RecordTransaction` | the saves of `handle_eval` |
| `MainDatabaseError` | a database call of `handle_eval` raises, inside its `try` or outside |
| `FinishJob`, `GiveUp`, `Timeout`, `WorkerStops` | arq |
| `UpdatePrompt` | `update_prompt` with `is_active` |

Abstracted: texts are `"text"` or `"null"`, reports are `"findings"`, `"clean"`
or `"broken"` (`_write_findings` raises on it), tokens are the set of prompts
whose usage was added, a payer is whether the audit is in `Billed`. An audit is
billed when its credential belongs to a user or to a third-party app, whose
owner then pays. `UpdatePrompt` is one step, a call of `Prompts` that overlaps no
other; `Init` allows any set of active prompts, also those that only races lead
to, so that nothing here depends on it. A row of the `Auth` table that cannot be read at the start of the
job is a database fault at `"mark"`: no `except` catches either.

### AuditReads

Adds a client to every audit of `AuditLifecycle`. `answer` is the call it waits
for: the queries of the route that are still to run (`Queries`: the row, then one
query for each prefetched relation), and what the earlier ones have read. The
worker goes on between any two. `told` is history: the statuses the client was
told. `QueryRow`, `QuerySteps` and `QueryFindings` are the queries, and `Ask` takes the
answer to the last call and begins the next; what they leave alone is the whole of
`AuditLifecycle`, whose fairness is assumed here, too.

Left out: the texts of the report and of the findings, and what
`submit_feedback` writes (it saves a finding that nobody else ever changes).

### Prompts

`prompt` is the table in the order of `created_at`. A call reads the prompt, reads
the one to demote (the newest other one of the tag, active or not) and saves both
rows whole in one transaction, each an action; `held` and `demoted` are its copies.
A content and a version are one value, the call that sent them. `crossed`, `wrote`,
`torn` and `tidy` are history: which calls another one saved in between, what was
last sent for a prompt, which prompts a crossed call saved, and which tags have
had nothing but releases, edits and deactivations that overlapped nobody.

### Credits and Pricing

`total` and `used` are the columns of the payer's row. `copy` is the row a job
read when it started and `seen` the row a call of `sync_credits` read. Both save
*both* columns. `due` (each audit once, and once more for a stop after its row was
saved, which makes arq run the job again), `paid`, `overlapped` and `burst` are
history. `Quotes` is what the contract on the chain may answer; `get_user_credits` answers 0 for every
error of the chain, and that 0 is saved like any other answer. At this commit the
chain is never reached: `Web3Client.from_deployment` (`lib/clients/web3.py:22`)
calls a method that does not exist, which is `NoClient`. The tests replace it, and
`GetCredits` is the call with the replacement.

`Pricing` computes the cost the code computes with floats. Every factor is a
multiple of 1/5000 of a credit for a token, so the ceiling is an exact integer
division; the rounding error of the floats is not modelled. `Cost` of `Credits` is
`get_cost` of the tokens of an audit.

### Contracts and Explorers

`rows` is the table in the order of creation, `found` what the explorers
answered, `left` the answers the loop has still to go through. `Publish` is the
world: somebody verifies source code at an explorer between two requests. An
error of an explorer is `"absent"` (`exists` stays False); an empty code, or one
the parser raises on, is `"unreadable"` and gives a row with `is_available`
False, which no lookup finds again. `by` and `before` are history: who created a
row, and which requests were over when another began.

`Explorers` holds the fourteen networks, the URL of each explorer as a host and a
path (four networks share `api.routescan.io`), and what `SourceCodeParser` makes
of a field in the forms `file`, `sources`, `wrapped` (in a second pair of braces)
and `other`. The answer to a request is that of some network its URL is about
(`AskedAbout`), so that a wrong path would bring the code of another chain.
`allow_testnet` is never set; if it were, the scan would append to the shared list
of mainnets (`contract/service.py:83`).

### Accounts

`address`, `owner`, `perm` and `key` are the tables `User`, `App`, `Permission`
and `Auth`; a row that a call creates has the call as its id, a key is the call
that made it, and the one-to-one index is that `key` has one value per client.
`stage`, `body`, `client` and `answer` are the memory of a call. Each query is an
action; only the creation of a user or an app with its Permission row is one
step, because it is one transaction. `perm` is a function on exactly the users
and the apps, which `TypeOK` states. `before` and `could` are history: which calls
were over when another began, and which permissions there were at some time of a
call. A call of kind `"info"` is `get_info`: its queries for the user, its key,
its app (joined with the key of the app) and its permissions follow each other
outside of any transaction, and `told` is what they found. `UpdatePermissions` reaches users only:
`update_permissions` compares the builtin `type` with `ClientTypeEnum.APP` and so
looks for a user always.

Left out: PATCH /app (it writes a name back), the counts of audits and credits in
`get_info`, and requests of a first-party app without the user header, for which
`owner_id` is NULL and the app found is the first-party app itself.

### Access

A request carries a key and a header (`Receive`; the key may be the one before the
last replacement) and goes through `Authenticate` or `AuthenticateKey`, `Delegate`
and `RequireCredits`, each of which reads a row, to the handler. `Routes` says for
each route that `urls.py` mounts what its dependencies require. `auth` is the Auth
table, `audits` the Audit table in the order of `created_at`, and `state` of a
request its `AuthState`. `ReadRow` and `ReplaceKey` are the read and the save of
`AuthService.generate`: the save writes the scope and `is_revoked` as they were
read (`held`), and so undoes what `Revoke` or `SetScope` did in between. All of
these fall between any two reads of a request. The routes of `BaseRouter`
(`base/router.py:15-20`) have no dependency; `Visit` is a request for one of them,
with any headers or none. Handlers of the audit routes and `is_admin` are here; `Elsewhere`
stands for the others, which are in the modules of their components. A walk
through the list of audits is one request that goes back to authentication for
every page. `by`, `header` and `checked` of an audit and `could` of a request are
history: who created it and for whom, whose credits were looked at, and what the
keys allowed at some time while the request ran. `IsAdmin` looks for the row of the
user the request acts for; a first-party app that sends no header acts for none,
and `user_id=None` is IS NULL in the query, so that the rows found are those of the
apps: the answer is the scope of the only one, or an exception where there are
several.

Whether credits suffice is a choice here and a computation in `Credits`.

## 3. The runs

| Run | What it asks | Bounds | States |
|---|---|---|---|
| `lifecycle` | Everything about one audit, refinement of `AuditPromise`, and that its job ends | 2 candidates and a reviewer, 2 tries, 4 kinds of fault, 2 faults | 418,544 |
| `lifecycle_polling` | *Violated:* that polling ends | 1 timeout | |
| `reads` | What polls are told, and that an accepted audit settles | 1 candidate, 1 reviewer, 2 tries, 1 stop | 607,416 |
| `prompts` | What calls that cross do to the prompts of a tag | 2 prompts, 2 tags, 3 calls, each may fail | 2.3 million |
| `credits` | That stale saves put no cost in twice, a lone writer is exact, and a payer overdraws by little | 2 payers, 3 audits, 2 calls, quotes 200 and 0, 1 stop | 5.0 million |
| `credits_lost` | *Violated:* that every audit consumes credits | 2 jobs | |
| `contracts` | What is returned, stored and found again | 3 requests, 4 bodies, 3 networks of one host, 1 failure | 3.7 million |
| `contracts_again` | *Violated:* that an upload is found again | 2 requests | |
| `accounts` | Who creates what, with which permission, which key works, and what `get_info` tells | 3 calls, 1 user at the start, 2 addresses, 2 updates, 1 failure | 3.1 million |
| `accounts_twice` | *Violated:* that an address denotes one user | 2 calls | |
| `access` | For whom a handler runs, who sees what, who is charged, and what a walk shows | 2 users, 2 apps, 3 audits; 2 requests and 1 change of the Auth table, or 1 and 3 | 9.3 million |
| `access_unreadable` | *Violated:* that the user header may be excluded | 2 requests | |

The bounds are named constants (`MaxMishaps`, `MaxStops`, `MaxFailures`,
`MaxUpdates`, and `changes` in each element of `Traffic`), and guards of the faults,
the admin's updates and the changes of the Auth table only. Why they are enough:

* Two candidates are the least for which `gather` has one that raised and one
  that runs on. Two faults are the least for which the second hits the recovery
  from the first (a stop, then a database error in the second run). A third
  fault has no further handler to reach: the code has no handler of a handler of
  a handler. The safety properties that count faults are proved for any number.
* `reads` needs the run after a stop, which is what makes a later answer disagree
  with an earlier one; which candidate is late matters to `lifecycle` only.
* In `prompts`, two calls cross and a third sees the outcome; the prompt that is
  demoted, the one that is active and the newest are different ones as soon as a
  call has added a third.
* In `credits`, a job and two calls of one payer give every pair of writers of a
  row; quotes lie above and below the grant, so both PURCHASE and REFUND occur. An
  audit costs 120, so a grant of 120 pays exactly for one (the boundary of
  `RequireCredits`) and one of 130 for more than one and fewer than two.
* In `contracts`, three requests give two that overlap and a third that sees the
  outcome; two mainnets and a testnet behind one host give answers in both
  orders that only the path tells apart; the bodies name no network, the testnet
  (whose row then hides the mainnets from a scan without a network), a code, and
  a code with an address.
* In `accounts`, three calls give two that collide and a third that sees the
  outcome, or one that creates an app and two that make its key; two updates let a
  permission be granted and withdrawn.
* In `access`, one request creates an audit while the other, for any route, is
  under way, and one change of the Auth table falls between any two of their reads.
  A request that is alone sees three changes, which let a row be read, revoked and
  written back with a new key while it is under way. A page
  of one makes every audit a page boundary; the audit that is created moves the
  three others to later pages during the walk.
* Requests and calls are symmetric where a configuration says so: no definition
  tells them apart, and those runs check safety only.

Deadlock is checked in `lifecycle` and `reads`, where it says little: the admin
and the clients can always act. That nobody waits for what never comes is
`StuckOnlyByMishap`, and progress is the liveness properties.
`CHECK_DEADLOCK FALSE` stands in the other configurations, where all requests,
jobs and calls end.

### Fairness

`AuditLifecycle!FairSpec` assumes weak fairness of `Enqueue(a)`, of `Work(a)`
(the steps of a running worker for one job) and of `Branch(a, p)` (those of one
candidate). `docker-compose.yml` restarts the worker (`restart: always`), asyncio
resumes every ready coroutine, and a model call ends with an answer or an error.
Each disjunction stands for one coroutine, so its weak fairness says that this
coroutine moves on, and nothing about which way it goes. Nothing is assumed of
faults, of the admin, of clients that poll, or of requests that were not accepted.

### Properties worth reading first

* `SuccessDependsOnSteps`, `ReviewHearsWhatIsSaved`: rows saved one by one by
  several coroutines in several runs agree with the report.
* `OncePerMishap`: what faults can cost, given that `handle_eval` never looks
  whether it did the work before.
* `StuckOnlyByMishap`: a job that waits at `asyncio.gather` is woken or waits for a
  candidate that runs, although candidates raise, are cancelled, and outlive the
  run that started them.
* `FinishedIsFinal`: what a finished job may still change. It needs its
  exception: after a candidate raised, the others write their rows although the
  audit is FAILED and its job is over.
* `AnswersCohere`, `ToldThenShown`, `PollsMoveForward`: what a client may conclude
  from answers that are put together while the rows change.
* `NoTagGoesDark`, `OneActiveByRelease`, `EditsStand`: what is left of "one active
  prompt per tag" when the demoted prompt is the newest other one and both rows
  are saved from old copies.
* `LoneWriterIsExact`, `ChargedOncePerRun`, `OverdraftBelowBurst`: lost updates
  lose charges only, and only among writers that overlap; a check that reserves
  nothing still bounds what a payer may owe.
* `ScansAreGenuine`, `DuplicatesOnlyByOverlap`, `FetchedIsReturned`: what was
  published where it says, and what a check without a lock is still worth.
* `OldKeysStayDead`, `CollisionHasWinner`, `InfoTellsWhatIsDone`: a key that was
  replaced is dead, a call that fails on the index was overtaken by one whose key
  works, and five reads without a transaction are never behind.
* `ChargedIsChecked`, `EachSeesItsOwn`, `HandledIsAuthorized`: rules that the code
  writes down in several places, or evaluates over several reads, agree.

### What disagrees with the documentation

* `PollingEnds` (`lifecycle_polling`): the polling loop of `openapi.py:95-105`
  ends on success or failed. A job that exceeds `job_timeout` is cancelled, no
  `except` catches that, and the audit stays PROCESSING with nobody to change it.
* `AuditsConsumeCredits` (`credits_lost`): `POST /audit` "consumes credits". Of
  two overlapping jobs of one payer, the later save writes over the earlier.
* `PreviouslyUploadedIsReturned` (`contracts_again`): "If contract was previously
  uploaded / fetched, return it." A code uploaded *with* an address is stored
  without it, so the same request never finds it again.
* `UserDenotedByAddress` (`accounts_twice`): "A user is denoted by their address."
  Two overlapping calls for a new address create two users and return both ids.
* `HeaderMayBeExcluded` (`access_unreadable`): an app that excluded the user header
  can exclude it in queries as well. The first-party app has no owner to stand in,
  so its audit has no user, and `get_audit` raises where it builds the user of its
  answer (`audit/service.py:123`).

Two more lines say that fewer are answered than the code answers. No run is about
them: the code follows the rule written at `audit/service.py:57` instead, by which an
app sees what was created through it and the first-party app sees all.
`EachSeesItsOwn` is that rule as a bound on what a client may be shown and do; it
promises an answer only to the client that created the audit and sends the same
header, and so requires nothing that these lines forbid.

* "When querying for the audit, you must include the same Bevor-User-Identifier that
  you used to create the audit" (`openapi.py:194`): `get_audit` and `get_status` look
  at the id of the app alone (`audit/service.py:106`, `:138`), so an app is answered
  with any header and with none.
* "Only the creator of the audit can submit feedback, for now"
  (`audit/openapi.py:59`): `submit_feedback` asks nothing of the first-party app
  (`audit/service.py:163`), which gives feedback on any audit.

Other observations, which no line of the documentation contradicts and no run is
about: a report that is no JSON is stored as SUCCESS and every GET of it raises
(`ToldThenShown` names that case); `get_audits` takes the filter of the status from
`search` and ignores `status`; a `page_size` of 0 divides by zero; a walk that
stops at `total_pages` of its first answer may miss audits that one that follows
`more` does not; `check_delegated_scope` does not ask whether the row is revoked;
a new key writes a revocation made since the row was read back to what it was;
`is_admin` without a header speaks of the apps (the tests give the first-party app
the scope ADMIN, `tests/conftest.py`, so it is a yes there); `GET /test` enqueues
the job `mock` for anyone, and FastAPI's `/openapi.json` is open as well.

## 4. The theorems

Each proof module proves `Init => IInv`, `IInv /\ [Next]_vars => IInv'`, one
case per action, and `IInv => Inv`, and lets PTL combine them. Assumptions are
the named `ASSUME`s of the modules, which TLC evaluates in every run: constants
are of the right kind, and nothing bounds the number of audits, prompts, tries,
faults, payers, requests, calls or networks looked at.

**AuditLifecycleProofs.** `TypeOK` is inductive alone. The others rest on

* `AccountInv` = `TypeOK` and, for each audit, `Control` (which values of `job`,
  `pc`, `status` and `request` go together), `Unhurt` (an audit without a fault
  ran at most once and has kept its books clean) and `Accounts` (`OncePerMishap`,
  with the control state at which each counter moves). `OncePerMishap` is not
  inductive by itself: nothing in it says that a job that starts over was hit by
  a fault, which is what `Control` and `Unhurt` add.
* `StepsInv` = `AccountInv` and, for each audit, `BranchFacts` (where a candidate
  is, against its row and the usage), `NoStragglers` (candidates run only while
  `gather` waits or after one raised), `ReviewFacts` (the reviewer's row and the
  report) and `StepsSettled`. It gives `SuccessAgrees`, `ReviewAgrees`,
  `CostCovers` and `FinishedStays`.
* `HeldInv`, what the `Audit` object holds against the row. With it,
  `LifecycleKeepsPromise` proves that every step of `AuditLifecycle` is a step of
  `AuditPromise` or a stutter under the mapping `Promise`: every charge is for a
  report that stands, and nothing changes once the job is finished.
* `StartedInv`: while `gather` waits, every candidate that was picked has been
  started. With `StepsInv` it gives `NobodyIsStuck`.

**AuditReadsProofs** is about `ReadsSpec`. `ReadersOnlyRead` shows that every step
of `ReadsSpec` is a step of the lifecycle or leaves it alone, so the invariants of
`AuditLifecycleProofs` hold here, too. What readers depend on beyond them is
`LifeInv`: findings are in the table before a report with findings is stored
(`FoundFacts`), and of an audit that no fault hit, the rows of whoever is not at
work have ended (`EndedFacts`). `AnswersCohere`, `ToldThenShown` and
`PollsMoveForward` speak of answers that are complete; `ReadsInv` says the same of
those that are half read: how far a call is (`Way`), that its findings and steps
were read when the audit was at least where its row said (`Findings`, `Steps`),
and that what was told is no later than what was read and that no later than what
is (`Forward`, `Shown`). The last two follow from two facts about single steps: a
status of an audit without a fault only goes forward, and a stored report stays.

**PromptsProofs.** Everything rests on `HoldInv`: a call that nobody crossed holds
the rows as they still are, and what it will demote is still the newest other
prompt of the tag. `EditInv` adds `EditsStand`; `NoTagIsLeftDark` looks at the one
step that writes, `Save`, of such a call. `OneActiveByRelease` is not inductive,
because which row a release demotes goes by its place and not by its
`is_active`: `TidyInv` adds that the active prompt of a tidy tag is its newest.

**CreditsProofs.** `ChargedAtMost` needs `CopiesBelow`: every copy that may still
be saved is below what is due, too, and `Unpaid`: a job that may still save its
cost is one whose cost is not counted in `due` yet, so that the save adds it. `LoneExact` needs `AloneInv`: as long as
a payer has not overlapped, at most one process holds its row and that copy is
the row. `LedgerExplains` adds that the ledger lacks exactly what the calls that
have saved a total and no transaction would add to it. The sum over these calls
enters as a function on the sets of them, and that there is one is part of the
invariant (`Explained`), so no step of the proof has to add up a set. `OverdraftBounded` needs `ModestInv`:
the row, and every copy a job will save, are below the grant but for what was
charged since the first of the requests in flight passed; when none is in flight no
copy is left, and the row that the next one passes on is below the grant itself.
`CostIsTight` and `CostGrows` are about `get_cost` of any usage: it covers the
floor and what the tokens are worth, stays within a credit of the larger of the
two, and never falls when tokens are added.

**ContractsProofs.** `OneUrlEach`: no two of the fourteen networks have one URL.
`TypeCorrect` needs `Known` (what is known of a request at each stage) and
`PublishedCodes`. `DuplicatesOverlap` needs `RowsInv`: a row is one its request
would store (`RowOf`), a request has one row per network (`OneEach`), and a
request that is past its lookup found no matching row of those that were over
before it (`Fresh`). `AnswersMeet` and `FetchedReturned` need `ResultsInv`: what a
request returns meets its body, so an equal body matches it. `GenuineScans` adds
that every answer a request still holds is what was published on the network it
is held for, which is where `OneUrlEach` comes in. `SourcesKept` needs `KeptInv`:
of every network, the answer is still to be gone through, has no code, or is in
the result.

**AccountsProofs.** `TypeCorrect` needs `CallFacts`, what is known of a call at
each stage. The others add one fact per call each: `Twins` (rows that appeared
since a call looked are of calls still running then), `KeyOf` and `Collides`
(whose key is in the row now), `Relies` (the permission a call is about to use is
one it has seen), and for `InfoTells` what each finished query has found. All rest
on `before` holding only calls that are over, so that a call that writes now is in
nobody's `before`.

**AccessProofs.** `TypeCorrect` is inductive alone. `HandledAuthorized` needs
`WayInv`: what a request's dependencies have decided by the stage it has reached
(`Admitted`, `Vouched`), in terms of `could`, which remembers what its keys
allowed while it ran. `RoutesFit` checks the table of routes once, so that the
properties, which name routes, and the dependencies, which read the table, meet:
the routes without a key are the six of `BaseRouter` and no others.
`ChargedChecked` needs `MadeInv`: the user, the app and the checked payer of an
audit are those of the `AuthState` of its client. `EachItsOwn` adds `OwnInv` and
`OwnsIsSees`: the rule of the list, that of a single audit and that of feedback
are one rule. `WalkComplete` needs `WalkInv`: what is old and was in front of the
page that is asked for next has been shown. It rests on how far an audit is from
the front (`Place`): a new audit moves the others back and never forward, so a
page by offset may show one twice and skips none (`FullWindow`, `OldStays`).

### Model-checked only

Every safety invariant and every action property that a passing run checks is a
theorem. `AcceptedFinishes` and `AcceptedSettles` are not: they are liveness under
fairness, out of the prover's reach. Their safety part is proved, `NobodyIsStuck`:
there is always a step to take, and a job that ends without a fault has settled
its audit. `AcceptedSettles` also needs fewer stops than
tries, which the bounds of its run state.

## 5. Not modelled, and the plan

* *Text and pure I/O*: prompts, reports, templates, statistics, metrics, gas
  prices, the LLM client (its answers are inputs of `AuditLifecycle`), migrations
  (one of which drops the unique index on `user.address`: the models here have
  none), `App.get_info` and `get_stats`, the filters of `get_audits` but the one of
  the user.
* *Code that nothing reaches*: the WebSocket router (neither `urls.py` nor
  `main.py` mounts it, and `handle_eval` builds its pipeline with
  `should_publish=False`), `RateLimit` and `RateLimitMiddleware`,
  `get_deployment_contracts`, `agent.py`, the AST functions of the parser,
  `PermissionService.update`.
* *Code that raises first*: `process_token` gets or creates contracts as
  `fetch_from_source` does and then raises at `is_parsable`, a column that does not
  exist, so it never charges.

Hazards without a property. The models have each of these behaviours, but the
repository promises nothing that they break, and what the code does there is no
property worth stating; `PROJECT.json` says for each why:

* a scan of one network hides the others from a later scan without a network
  (`contract/service.py:56`), and an explorer's error looks like an address nobody
  deployed (`blockchain/service.py:58`);
* calls of `update_prompt` that cross, and releases that demote another prompt than
  the active one (`admin/service.py:153`, `:160`, `:176`): the properties of
  `Prompts` say what holds of all other calls;
* twin apps of one owner (`app/service.py:23`), an audit whose job was never
  enqueued (`audit/service.py:268`), reports that are no JSON
  (`audit/service.py:198`);
* feedback of the first-party app on anybody's audit (`audit/service.py:163`);
* a revocation that a new key undoes (`auth/service.py:26`), a revoked admin who
  delegates (`dependencies.py:134`), `is_admin` without a user
  (`admin/service.py:33`).

One is outside the models: the rounding of the floats of a cost
(`pricing/service.py:32`).

Next, in this order:

1. An abstract specification of what a key and a request promise to a client
   (`Accounts` and `Access` name the same `Auth` row), with both shown to
   implement it, as `AuditPromise` is for the lifecycle.
2. An abstract specification of a payer's account as the ledger shows it, which
   `Credits` implements for payers whose writers never overlap; `AloneInv` and
   `LedgerInv` are what its proof needs.
3. Lemmas about `Explorers` and `Pricing` on all inputs: what a body that the
   parser accepts yields, and that a cost is additive up to a rounding.
