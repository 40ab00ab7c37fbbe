# A TLA+ model of neurolab

neurolab runs LLM tasks through a small control plane (a dashboard, a PostgreSQL
ledger, Redis lists and a few queue workers) and keeps an evidence base for its
research (sources, claims, cards, evaluators, solution memory). This directory holds
TLA+ modules of that code, the TLC configurations that check them on small instances,
and proofs checked by TLAPS. Paths below are relative to the repository.

## 1. Inventory

### 1.1 The control plane

| component | code | state | operations |
|---|---|---|---|
| dashboard | `dashboard/app.py` | none of its own; reads Redis and PostgreSQL | `create_task` (queue limit, lane budget, insert of task and outbox row), read-only endpoints |
| task ledger | SQL of `orchestrator/worker.py`, `postgres/migrations` | `tasks`, `provider_attempts`, `cost_events` | `record_queued_task`, `claim_task`, `record_provider_attempt`, `record_completion`, `record_failed`, reset of an expired lease, reaper update |
| outbox | same | `task_outbox` (`delivered_at`, `delivery_claimed_at`, `delivery_claim_id`) | `claim_pending_outbox`, `publish_outbox_claim`, `mark_outbox_delivered`, `cleanup_terminal_outbox` |
| Redis lists | same | `neuro-lab:tasks`, `neuro-lab:tasks:processing`, `neuro-lab:tasks:dead` | RPUSH, BLMOVE, LREM, MULTI of LREM + RPUSH, LRANGE, LLEN |
| queue worker | `run_worker`, `handle_delivery`, `recover_stale_deliveries`, `reap_orphaned_queued_tasks` | program counter and locals only | dispatch, clean up, recover and reap, receive, handle, acknowledge |
| GigaChat client | `GigaChatClient` | two cached bearer tokens | `token`, `request_json`, `authorized_request_json`, `chat` |

The dashboard commits a task and its outbox row in one transaction. A worker loops over
three timers and a blocking pop: it publishes claimed outbox rows with RPUSH, moves the
deliveries of dead workers back to the queue, fails rows whose delivery is gone, and
takes the next message with BLMOVE into the processing list. `handle_delivery` claims the
task (a lease of 900 s), commits an attempt row, calls the provider, commits the result
with its receipt, and only then acknowledges the message with LREM. Two replicas run
under `restart: unless-stopped` (`compose.yaml:45-66`), so messages may be delivered
more than once, a process may die between any two statements, and what is in Redis and
what is in PostgreSQL can disagree at every moment. What makes it correct: a submitted
task is settled once and for all; a result is never shown without a receipt of the call
that produced it; no two workers execute a task at the same time; a call that may have
been charged is never silently repeated; no message is lost, and one that nobody
can execute is kept.

### 1.2 The research library

| component | code (`src/neurolab/`) | state | operations |
|---|---|---|---|
| evaluator evolution | `evaluator_evolution.py`, `evaluator_storage.py` | `evaluator_versions`, `evaluator_runs`, `evaluator_decisions` | register a version, persist a run, decide shadow / promoted / reverted |
| solution memory | `solution_memory.py`, `response_replay_memory.py`, `evaluator_storage.py` | `solution_assets`, `solution_outcomes` | register an asset, persist outcomes and derive the asset's state |
| research corpus | `research_storage.py`, `claim_review.py` | sources, observations, assessments, documents, claims, receipts of licences, publisher pages and repositories | upserts of a discovery run, receipts, claims of humans and models, review |
| coverage and specification gate | `research_corpus.py`, `corpus_spec_observer.py` | `synthesis_runs` | thresholds over the stored corpus; continue, hold, or offer a review-only synthesis |
| discovery and import | `it_research.py`, `research_evidence.py`, `scripts/import_*` | none across runs | three providers in turn, fail-closed minimums, import of one exact record |
| full-text queue | `fulltext_candidate_queue.py`, `scripts/queue_*` | one JSON file | selection by priority and digest |
| licences and documents | `license_verification.py`, `publisher_evidence.py`, `fulltext_verification.py`, `publisher_fulltext_verification.py`, `scripts/run_*_fulltext_cycle.py` | none across runs | licence page, PDF (whole or in byte ranges), then two receipts |
| cards | `diagram_cards.py`, `document_cards.py`, `scripts/run_gigachat_*_card*.py` | cards of diagrams and documents, the packet | diagram cards written by a model page by page, decided by a human, collected into a packet; the program for document cards ends at its imports (`scripts/run_gigachat_document_card.py:23`) |
| failover of manual scripts | `scripts/lib/gigachat_failover.sh` | the pause file | primary lane, then freemium, then a pause of 15 minutes |
| agent workflow | `workflow.py`, `agent_transitions.py`, `agent_receipts.py`, `agent_budget.py` | values of one caller | approval graph, linear transitions, call limits |
| other | migrations, monitor, backup, MCP policy, semantic holdout gate | files, PostgreSQL | see section 6 |

An operator runs the scripts of the evidence base by hand, one at a terminal, and any
number of terminals share PostgreSQL. What makes this part correct: a document rests on the
open licence of the very version it was read from; a card is written about the bytes
of its document's receipt and never rewritten once a human has decided on it; what a model
wrote is never taken for reviewed; a run spends a bounded number of calls, and one
that reports a pause can be repeated.

### 1.3 Hard behaviours

`PROJECT.json` lists them under "hazards", each at its line. The central ones: two
deliveries of one message pass the lookups of `claim_task` together; recovery and the
reaper act on snapshots of lists and rows taken at different times; a worker dies
between the lease, the attempt row, the provider's answer, the completion and the
acknowledgement; a commit succeeds whose answer is lost; timeouts (900 s lease, 90 s outbox
claim, 1800 s orphan age) race slow but live workers; count-then-insert of the dashboard;
read-then-update under READ COMMITTED in the solution memory; tokens that expire
between a check and a retry; messages without the names other parts match them by; preprints
that are replaced between a licence proof, a PDF and a second read of the PDF; static hosts that
answer a range request with another range; scripts that die between two receipts; a second lane
that repeats what the first had done; uploads whose deletion fails after a good answer; a program that fails at
its imports under a wrapper that reports success.

## 2. Modules

| module | models | built on |
|---|---|---|
| `TaskOutcome` | what a submitter is promised: accepted once, open, settled for good, success billed | |
| `TaskLedger` | every transaction on tasks, attempts and receipts, one action each | implements `TaskOutcome` |
| `ControlPlane` | workers, outbox, Redis lists, recovery, reaper, crashes, faults, clocks | EXTENDS `TaskLedger` |
| `ReaperWatch` | the same, with a history variable that watches what moves while a reaper reads | EXTENDS `ControlPlane` |
| `Dashboard` | `create_task` with concurrent handlers, limits and failures | |
| `GigaChatClient` | one worker's calls: token cache, OAuth, retries, single refresh | |
| `EvaluatorEvolution` | versions, runs and decisions | |
| `SolutionMemory` | assets and the outcome transaction, statement by statement | EXTENDS `EvaluatorEvolution` |
| `ResearchCorpus` | sources, claims, receipts, cards, packet and the gate | |
| `RangeFetch` | a PDF put together from byte ranges: which answers are accepted | |
| `EvidenceIntake` | discovery, imports, the queue, licences and documents, with scripts that die | EXTENDS `RangeFetch` |
| `CardScripts` | wrapper, lanes and the programs for cards, beside the intake they read from | EXTENDS `EvidenceIntake` |
| `MC*` | constants, symmetry and model definitions of TLC's instances | |
| `*Proofs` | theorems and lemmas of one module each | EXTENDS the module and `TLAPS` |

### 2.1 How state and actions correspond to the code

**TaskLedger.** `status` and `execution` are columns of `tasks`, and `expired` holds the tasks whose
`started_at` is older than the lease; `owner`, `attempt` are `provider_attempts` (an execution that
only holds a lease has an owner and attempt "none"); `receipts` are rows of `cost_events`. `claim_task` is one action in
`ControlPlane` made of `ClaimUncertain`, `ClaimGranted` and the case where nothing
matches: its decisive statement is a conditional UPDATE that re-evaluates its WHERE clause
on the locked row, so the transaction behaves as if it ran at that statement. The
execution IDs are a finite set of UUIDs, none used twice; `LeaseBudget` in `ControlPlane`
keeps one in reserve for every claim still possible, so that running out of IDs never
disables a claim the code would make.

**ControlPlane.** `waiting` is the task queue, head first; `processing` and `dead` count the copies of
each message, since their order is never used: LREM removes by value, and recovery looks at every entry. A
message is a task's name (the request of `task_outbox` is the same bytes on every
push), or a *nameless* one (no `task_id`: the worker invents one for the row, and
nothing can match the message to it), a *misnamed* one (a `task_id` that is no UUID) or
a *malformed* one (refused by `validate_payload` or by the JSON parser). `outbox[t]` is pending, claimed, lapsed (claimed over 90 s ago) or
delivered, `claimant[t]` the worker whose `delivery_claim_id` it bears. A worker's program counter `at` names the statement
it runs next, and every commit, Redis command and provider request is a step of its own;
`worker[w].todo` and `.seen` are the snapshots recovery and the reaper work from. `produced`,
`called`, `answered`, `published` are histories that properties read.
A database call of a handler may fail before its commit or after it (`Fault`); a Redis error
leaves `run_worker`, so it is a crash followed by a restart. `LeaseRunsOut`,
`OutboxClaimLapses` and `TaskAges` are the clock. With `Stalls = FALSE` time only passes
while no live worker is between two statements, which is the assumption that nothing but
the provider and BLMOVE takes minutes, and a lease does not run out under the worker that
holds it. With `Stalls = TRUE` any worker may be overtaken by any timeout. It can be: the delays of the client
alone add up to 480 s, and the timeout given to `urlopen` bounds each operation on a socket and not the request,
so that a call may outlast the 900 s lease; nothing in the code bounds its time.

**Dashboard.** `stage[r]` is the point a handler thread has reached, `recent` the rows of the
rolling 24 hours, `pending` the outbox, `queue` the Redis list. The count of
`daily_lane_task_count` and the insert of `record_queued_task` are two transactions and
so two steps. `Direct` are tasks a script pushes around the dashboard: they have no row until
they are claimed.

**GigaChatClient.** `at` is the call's next step, `cached[lane]` the bearer token (none, usable, or
ending: fewer than 60 s left), `round` the one refresh `authorized_request_json`
permits, `tries` the attempt `request_json` is at, `requests` the HTTP requests sent and `slept` the
seconds of delay between them, `served` the executions on the provider's side. How long a request
takes is left open. A POST that times out may or may not have been executed.

**EvaluatorEvolution and SolutionMemory.** A script builds its version objects itself, in any state, and
an object keeps that state whatever becomes of the row. `RegisterVersion` therefore takes any state
(`evaluator_storage.py:61-72` inserts it as it is) and `PersistDecision` asks nothing of the baseline's row:
`evaluator_evolution.py:127` looks at the object, `persist_evaluator_decision` (220-262) only at the candidate's
row. That transaction is one action: its UPDATE names the states it may leave and fails otherwise.
`persist_solution_outcomes` takes any set of outcomes and is four steps
(insert, derive, update, commit) and a rollback after any of them, with READ COMMITTED
visibility: a statement sees committed rows and its own. The inserts of one call are one step: no
statement in between reads them. `overlapped` remembers the assets
on which two transactions were open together. Metrics are integers in per cent; the code
compares floats, so a comparison at exactly +0.02 can round either way there.

**ResearchCorpus.** A source is a publication with the form of its identity: OpenAlex reports a DOI
as URL, Crossref bare, arXiv none, and `canonical_source_key` hashes what it is given. Every
publication of the model has a DOI at OpenAlex and Crossref and a PDF at arXiv. `verification`,
`provenance` and `reproducibility` are what the coverage gate reads; `claim` and `assessor` are the
two columns that say who stands behind a claim; `card` is one function for the cards of documents
(page 0) and of diagrams. A transaction is one step where its decisive statement takes a row
lock and re-evaluates its condition (the upsert of a card, the decision on it, the upsert of a
claim) or where what it read before cannot change (a document's page count). Two are more
than one: `persist_public_artifact_receipt` reads the claim's status without a lock
(`LinkClaim`, `InsertReceipt`), and `render_reviewed_card_packet` reads two tables in two statements
and writes a file afterwards (the second, `fetchall` of the diagram cards, is one step with the writing: reviewed cards are
frozen, so that a gap between the two shows nothing more). The packet may be refused for its size (120 kB), and the limit
of 12 cards is left out. Of the scripts that persist, evaluate and record, one runs
at a time; all others run at any moment in between. `humanReviewed` and `seen` are histories: the
claims a human has submitted, and the card texts a reviewer has had before him. `PersistCard` for page 0 is
`persist_document_card`, an operation of the library whose only caller ends at its imports: until that is repaired no
document card is stored, and as a packet starts from one, none is written. Licence and
publisher receipts and where documents come from are in `EvidenceIntake`.

**EvidenceIntake and RangeFetch.** `latest[w]` is arXiv's newest version of a preprint; an
identifier is a work and a version, 0 when it has none (arXiv then serves the newest). `sources`,
`licences`, `documents` are the tables, `queue` the preflight file, `script[t]` the script at a terminal:
its stage, the page its licence was read from, the version whose bytes it has. One
request, one transaction, or the writing of the queue is one step; `PublishVersion` happens in
between, and `ScriptFails` is every uncaught exception, refused answer and death. `CheckLicence` and
`FetchPdf` look up what the identifier leads to *at that moment*. In `RangeFetch` the byte at position p of
a file is p, so that a payload shows which bytes were put where; the host may answer a
range request with any status, range, total and number of bytes. A file of one size that replaces
another between two ranges cannot be told apart there, nor in the code. A cycle
takes any identifier, queued or not (`run_arxiv_fulltext_cycle.py:24-25` checks nothing): the queue is
read by the operator only. An operator who names a
source key and an arXiv identifier that do not belong together is left out; so is the parsing
of answers.

**CardScripts.** `job[c]` is a run of a card script: `at` is the place, `lane` the lane the wrapper has
reached, `pages` the diagram pages to do, `uploads` the pages with an image at the provider, `stored` the cards
written, `calls` the calls over both lanes (a history), `exit` the status of the wrapper. The wrapper judges a lane
by its output: `limited` is what `_gigachat_is_transient_failure` recognises, `broken` any other failure. A run for the
card of a *document* goes from `lane` to `broken`: the program imports `_extract_pdf` from
`neurolab.fulltext_verification`, which does not define it, and ends with an ImportError in whichever lane it is started.
What follows in that program (windows, notes, bounded retries) is reached by nothing and not modelled. A *diagram* run may
fail before its first page for any reason, with the right bytes too. `paused` is the pause file, `decided` the cards a
human has decided on. The scripts are modelled with `--persist`; runs in flight go on during a pause, as
in the code. A terminal runs an intake script or a card script, not both.

Under "Deliberate mistakes" each module defines variants of its actions with one
error; no specification uses them. They are the mutants of `PROJECT.json`: substituted
for the action they vary, each makes TLC refute one property.

## 3. Runs

| run | instance | what it shows |
|---|---|---|
| `faults` | 1 task, 2 workers, 2 executions, 1 crash, 1 fault, stalls | no request without an attempt row; no answer credited to another lease; delivered means pushed; rows of the three tables agree; the attempt behind a success is closed; settled tasks stay so; the audit trail only grows; the message of unfinished work leaves Redis only by a handler without the task's lease; the reaper overlooks no message that was in Redis all along; the whole control plane implements `TaskOutcome` even when every timeout strikes a live worker |
| `concurrent` | 2 workers, a dashboard task, a nameless, a misnamed and a malformed message, 1 crash | one executor per task; a worker about to send has its task's only open attempt; without failures no task is called for twice; invalid messages are kept in some list |
| `single` | 1 worker, 2 tasks (one pushed by a script), 2 crashes, 1 fault, fairness | no unsettled task loses its last delivery; a success completes its attempt; one failure never costs a second call; every task is settled; the outbox drains. All but the last are false for two workers (section 5) |
| `replayed` | 1 worker, 2 crashes | *refutes* `ProviderCalledOnce` |
| `stuck` | 2 workers, 1 crash, fairness | *refutes* `EveryTaskSettles` |
| `admission` | 2 handlers, 5 dashboard requests, 1 direct task, limits of 2 | a lane exceeds its budget by at most one task per further handler |
| `client` | 2 lanes, 3 attempts, Retry-After 0 and 600 s | a revoked cached token never fails a call; calls end and send and sleep a bounded amount (not: take a bounded time) |
| `served` | 2 attempts | *refutes* `ServedOnce` |
| `evaluators` | 2 versions registered in any state, 4 runs, 1 asset, 2 connections that persist any sets of outcomes | decisions promote on the runs the gates ask for only; verdicts are final and the log explains the table; an asset follows its history unless transactions overlapped; no promotion without three successes |
| `overlap` | same | *refutes* `StateFollowsHistory` |
| `corpus` | 1 publication under 3 keys, 2 PDFs, 2 claims (one beyond the last page), a document card and a diagram card, 2 texts | sources are verified by humans and stay so; receipts and packets show reviewed things only |
| `research` | 1 preprint whose second version is not openly licensed, 1 article of 1 or 2 bytes, 1 terminal, 4 scripts; 3 pages with diagrams on 2; fairness | ranges make whole files; documents are licensed by the version they were read from; a paused run stored nothing; no card of a page whose upload remains; cards match the receipt; scripts end |

### 3.1 Bounds

- *Executions* bound how often tasks are granted. Two suffice for one task to lose a
  lease while its first worker still runs; three for the third claim that the
  `replayed` trace needs; six let two tasks survive two crashes and a fault each time.
- *MaxCrashes*, *MaxFaults* bound process deaths and failing calls. Every place of
  the loop has its crash; two crashes are needed for a death during the recovery of a death.
- *MaxCopies* = 2 is the smallest number with a duplicate. `OutboxClaimLapses` waits while a
  message has that many copies.
- *RetryAttempts* = 3 has a first, a middle and a last attempt in `client`; 2 suffice for a
  repetition in `served`. The default of the code is 5: at most 20 requests and 480 s of delays.
- *Threads* = 2 and limits of 2: the smallest values at which both limits can be met
  with something already present. The theorem about them has no bound.
- *MaxDecisions* = 2: a candidate kept in shadow once and then decided, or a second decision after a verdict. The four
  runs give three successes and a regression, an independent and a dependent assessor, a gain and a
  loss of safety. Retirement (a second regression), verdicts for missing frozen cases, small holdouts and unequal
  cohorts are not reached by this instance; the proofs cover them.
- One publication of `corpus` has three source keys, one per provider, which is all
  that sources are told apart by; two texts are the smallest number with an overwriting. The thresholds of
  `CoveragePolicy` are 12 sources, 3 per layer, 2 providers, 4 verified and 0.35; the
  instance has 2, 2, 2, 1 and 35 per cent, so that every threshold but the last is met in
  some state.
- *MaxVersion* = 2: a paper is replaced once, between any two steps of a script. *MaxBytes* = 2 gives a
  file in one range, a file in two, and every wrong range, total and length of those. *MaxScripts* = 4
  allows an import, a queue, a cycle and a card run, and after each death another; the queue's limit
  of 2 exceeds what one preprint can fill.
- *Terminals* = 1 in `research`: scripts share tables only, every transaction is one step, and rows are
  only added or kept, so that what a second terminal does between two steps is what `PublishVersion`,
  deaths and later scripts already show; the theorems are for any number. *PageCount* = 3 and two pages with
  diagrams: one page can succeed before or after one that fails, and one page has none.
- Workers, requests and connections are interchangeable, hence the symmetry sets; none is used
  where a liveness property is checked.
- `admission` and `research` do not check deadlock because their instances stop: when all requests are answered, and when
  all scripts have run. The others do check it.

### 3.2 Fairness

`FairSpec` of `ControlPlane`: weak fairness of every step inside the loop, because every SQL,
Redis and HTTP call is answered, times out or fails (for HTTP with the assumption stated below); of `Restart`, because of `restart:
unless-stopped`; of the clock steps. At the top of the loop a worker may publish,
recover, or receive, and which it does depends on timers: each runs down whatever the
others do, and each branch is left after finitely many steps, so none is passed
over for ever: strong fairness. Nothing is assumed about producers, crashes or
faults. `GigaChatClient` has weak fairness of a call's steps: sleeps are bounded, and
a request ends when it is answered, when the peer closes, or when it stays silent for the timeout of a socket operation; that no peer
drips bytes for ever is an assumption. `CardScripts` has weak fairness of each terminal's next step, for the same
reason; nothing is assumed about failures, new versions, the end of a pause or the operator.

## 4. Proofs

The theorems hold for every value of the constants that satisfies the named assumptions
(`LedgerAssumption`, `ControlPlaneAssumption`, `ClientAssumption`, `DashboardAssumption`,
`EvolutionAssumption`, `MemoryAssumption`, `CorpusAssumption`, `MaxBytesAssumption`, `IntakeAssumption`,
`CardAssumption`: disjointness of null values and of kinds of messages, shapes of records, the
limits that command lines enforce, finiteness of requests). Three theorems of `ControlPlaneProofs` carry a
hypothesis of their own, stated in them: `~ Stalls`. None limits the number of workers.

- `TaskLedgerProofs`: `LedgerInv` is the type invariant, `RowsAgree` and
  `ReceiptBacksResult` together. `RowsAgree` needs the types to know that an unused
  execution has no rows; `ReceiptBacksResult` needs `RowsAgree`, because a completion marks a task
  succeeded only through a lease that names the execution of the new receipt. One
  lemma per transaction. From it follow the action properties `SettledIsFinal`
  and `AuditIsAppendOnly`, and `LedgerImplementsOutcome`: initial states map to initial
  states, every transaction to an `Accept`, `Succeed`, `Fail` or a stutter.
- `ControlPlaneProofs`, for any number of workers, crashes, faults and stalls. `PlaneInv` adds to
  `LedgerInv` what a worker relies on at each place of its loop (`GoodWorker`: a handler holds an
  execution of its task, an attempt row exists where a request may leave, an invalid message at
  "ack" is already a dead letter). `StepIsTransaction` shows every step to be a ledger step or to leave
  the rows alone; hence `PlaneRunsLedger`, which carries all theorems of the ledger, the refinement
  of `TaskOutcome` included, to the composed system.
  - `OneExecutorPerTask` assumes `~ Stalls`. `SoleInv`: the lease a worker holds is the one its
    task names and has not run out. It is inductive because no transaction moves a task whose lease
    stands (`LeaseSurvives`) and a granted claim draws an execution nobody had.
  - `LeaseInv`: a handler keeps the lease it was granted until it lets its message go, and nobody else has the same one,
    since claims draw unused executions. The next four arguments rest on it.
  - `SuccessesCloseAttempts`, with stalls: `AttemptInv` says that the attempt of a call under way is open, or a
    duplicate has closed it as uncertain. So a completion finds it in one of the two, whichever worker was
    granted the task meanwhile, and a failure recorded late finds it closed.
  - `LastCopiesOutliveWork`, with stalls: `AckInv` says what lets a worker acknowledge: the settled row recovery has read, or
    the conclusion of its own execution. Every other command that takes a copy off a list puts it on another.
  - `NoCallsInDoubt` assumes `~ Stalls`. `DoubtInv`: the only open attempt of a leased task is its executor's, because
    a claim is granted when none is open (`LeasesAreGrantedWithoutDoubt`) and attempts are opened by the holder of the
    lease.
  - `NoFailureCallsTwice` assumes `~ Stalls`. `OnceInv` holds as long as nothing has failed: a running task has its executor, so
    that no lease runs out, no execution is replaced, and every call is one of the execution the task names, whatever
    duplicates recovery puts into the queue.
  - `ReapedMessagesArrivedLate` is about `WatchSpec`, with stalls. `SeenOrArrived`: a message in Redis that the reaper has
    not seen came into the task queue after the queue was read. BLMOVE is the only command that adds to the
    processing list (`ProcessingComesFromRedis`), so that a message which moves between the two reads was seen in the
    first or came later.
- `GigaChatClientProofs`: `ClientInv` bounds requests and delays by the round, the attempt and the stage of a
  call (`RequestsSoFar`, `SleptSoFar`), and says that the token of a second round is none of the cache's
  (`TokenOfRound`), for otherwise a revoked token could be met twice. `CallWorkIsBounded` is about work, not time.
- `DashboardProofs`: `OvershootBounded` counts rows; inductive is the sum of rows and of handlers
  that have passed the count and not yet inserted (`CommittedBounded`), with the number of
  running handlers bounded by `Threads`.
- `SolutionMemoryProofs`: `Shape` fixes the types; `SerialInv` adds to
  `SerialStateFollowsHistory` what an open transaction on an asset nobody else touches knows of
  it (that its derivation is that of the complete history it is about to commit); `DecisionInv` joins
  `PromotionIsEarned` to `StateIsLastDecision`: a version with decisions stands where the last one put it, so that no
  registration in another state is accepted and an open state means that no verdict was given. `SuccessInv`, for
  `PromotedHasSuccesses`: a transaction about to promote derived that from outcomes that are in the table
  when it commits, whatever overlaps, because outcomes are only added (`ProvenGrows`).
- `ResearchCorpusProofs`: `CorpusInv` adds to the properties what holds between a check and what is
  built on it: a reviewed claim, and one a receipt is about to refer to, has been
  submitted by a human, and the cards read for a packet in the making are reviewed with the
  text that was read. `ReceiptsFollowReview` and `PacketIsReviewed` are not inductive without:
  a receipt is inserted after its claim may have been demoted, a packet written after
  its cards were read. One lemma per transaction; `CardsKeep` also gives that verdicts
  are final, on which the packet's part rests.
- `EvidenceIntakeProofs`: `IntakeInv` says what a script has at each stage. A payload in the making is
  a prefix of the file (`IsPrefix`, lemmas about one accepted range); a cycle past its licence check has an
  openly licensed page, and past its receipt a stored proof of that page; for an identifier with a
  version the bytes are of that version however often authors replace the paper.
- `CardScriptsProofs`: `Inv` is `IntakeInv` with `CardInv`: per run, `Staged` (the document exists, and past the
  comparison of digests its bytes are those of the receipt), `Tidy` (uploads and stored pages are apart; a run that may
  still end with the pause has stored nothing), `Thrifty` (calls so far plus pages left are at most the pages). `ImplementsIntake`
  shows that card runs leave the intake's behaviour alone, which carries its theorems to the composition.

Proved, and checked by no run: `CorpusTypeOK`, `CardVerdictIsFinal` (a card that has been decided on never changes, on
which `PacketIsReviewed` rests) and `CallsBounded` (each page is asked about once).

Only model-checked: liveness (`EveryTaskSettles`, `OutboxDrains`, `CallEnds`, `ScriptsEnd`) and ENABLED, which are outside
the prover's reach; and `NoDeliveryLost`, `SuccessCompletesAttempt`, `OneFailureOneCall`, which are false for the two deployed
workers, so that a theorem would need the hypothesis of one worker. Every other invariant and action property of a
passing run is the subject of a theorem. What folds compute is not proved: `SolutionMemoryProofs` uses of `NextAssetState` only that it returns a state and
when it can return "promoted".

## 5. Where the code and its documents disagree

Refuted by a run and listed under "findings":

1. `replayed`: `claim_task` closes an inflight attempt as `outcome_unknown` even when it leaves the
   running task alone. A duplicate so erases the mark of an interrupted call; after
   recovery the provider is called again.
2. `stuck`: the last copy of a running task's message can be acknowledged as a duplicate; if its
   worker then dies, the row stays `running` for ever, because recovery walks the processing
   list and the reaper only looks at queued rows.
3. `served`: `request_json` repeats a POST after a timeout although the provider may have
   executed it.
4. `overlap`: two connections that persist outcomes of one asset each derive its state from
   a history without the other's, and the later update wins.

Stated in the modules, not kept by the code, and not made runs of their own; each is refuted in
the instance named here:

- `AnsweredIsReceipted` (1 worker, 1 fault): an answered, charged call whose completion
  fails is recorded as failed, without a receipt.
- `ReaperSparesOutbox` (1 worker, 1 crash, 1 fault): the reaper fails a row whose outbox
  entry is still undelivered.
- `Reaped(t) => ~ InRedis(t)`, that is `ReaperSparesDelivered` without its exception, with 2 workers: a message recovery or the
  dispatcher puts into the task queue after the reaper has read that queue, and which still waits there when it reads the
  processing list, is seen in neither, and the row is failed. `ROADMAP.md:321` grants a residual race.
- `NoDeliveryLost` with 2 workers: the last copy is acknowledged as a duplicate (see `stuck`).
- `OneFailureOneCall` with 2 workers, 1 crash and stalls: a worker's recovery has decided to requeue a message
  while the other claims its task, calls and dies; the copy pushed back then meets the running task and
  closes its attempt as unknown, and a second recovery queues the task again.
- `SuccessCompletesAttempt` with 2 workers: a duplicate closes the attempt of a live call as unknown and the
  call then completes.
- `EveryTaskSettles` with a nameless message and 1 crash: a redelivery gets a row of its own, and
  nothing returns the first one: running it stays so, queued it waits for the reaper.
- `LaneBudgetHolds` (2 threads) and `FullBacklogRefuses` (1 thread, queue depth 1) of the
  dashboard: the first is a count and an insert in two transactions, the second looks at
  Redis while accepted tasks first wait in the outbox.
- `ApprovedContentWasRead` (`corpus`): a reviewer reads a card, a model rewrites it while it
  still needs review, and the decision, which names the card only, approves the new text.
- `ModelClaimsNeedReview` (`corpus`): a claim a model submitted and a human resubmits is reviewed, but
  its assessment keeps `approved_model` as assessor: the upsert does not update the column.
- `ReceiptClaimsStayReviewed` (`corpus`): a model resubmits a reviewed claim and so sends
  it back to `needs_review`, while its receipts and the verified source stay.
- `WorksCountedOnce` (`corpus`): one publication is up to three unique sources for the coverage
  gate.
- `SuccessStoresCard` (`research`): the program for the card of a document, "Create one review-required card from every extractable
  page of a verified arXiv PDF", imports a function that does not exist
  (`run_gigachat_document_card.py:23`) and ends before it has read a document. An ImportError permits no failover, and
  `status=$?` after `if ... fi` is 0 (`gigachat_failover.sh:84-88`), so that the wrapper tells its caller that all went well. The same happens to any lane that
  fails for a reason that permits no failover.
- `UnversionedIsLicensed` (`research`): under an identifier without version, one version's licence is proved and
  another's PDF is stored.
- `QueueNamesOpenWork` (`research`): the queue selects by what claims say (`fulltext_candidate_queue.py:60-77`), so it
  still names sources whose document is stored.

Remark on the gate: `assessments.reproducibility` is only ever written by `persist_run`,
which takes it from `classify_item`, which always says 0.0. The mean over component and
feature sources therefore never reaches 0.35, and `GateNeverOpens` states the
consequence; as a property of a constant it is no run. `docs/research/IT_RESEARCH_PIPELINE.md:97-98` expects receipts to raise it.

Remarks on documents and cards: a run in flight goes on when another run records the pause
(`ROADMAP.md:350` speaks of calls); a 429 on a diagram page is swallowed with the page and brings no failover; the text
of a window is cut at 12 000 characters, so "every extractable page exactly once" holds of
pages and not of their text (of a program nothing can run at present); a timeout of the PDF host under the
diagram program looks like a limited lane, and two of them record the pause without a call to a model; a document
fetched again keeps the licence of its first row.

Remarks on the properties: `ReceiptsFollowReview` reads whether a human has ever reviewed the claim, so a demotion between
the check and the insert cannot violate it; that the claim still counts is `ReceiptClaimsStayReviewed`, which is refuted. `InvalidIsKept`
says that an invalid message is in some list, not that it reaches the dead-letter list.

Remarks on evaluators: the baseline's row is never read: a candidate may be promoted against a version that the table has as
proposed or reverted; two candidates of one baseline may both be promoted; registering a promoted version with
the object a script builds is refused, as the state is compared like an immutable
column; a baseline may be compared on any of its runs.

## 6. Not modelled

- Semantic holdout gate (`semantic_holdout_gate.py`): checks the signature and shape of one receipt and
  derives two metrics; a pure function. What follows from its run is in `EvaluatorEvolution`.
- Agent workflow, transitions, budgets and receipts: the fixtures of an architecture smoke test, a
  graph without cycles, a constant table of five hand-offs and validators of values one
  caller holds. Every statement about them repeats a guard.
- Migrations: one `psql` call per file in the order of their names, each file one transaction, run by hand.
- MCP policy and the synthetic tool servers: allowlists and fixtures, validation without state.
- Monitor, inventory, backups, the read-only endpoints and the static page: input and output.
- The two requests of `artifact_verification.py`, each a function of one answer; the transaction
  that stores their result is in `ResearchCorpus`.
- The rest of the document-card program (windows, notes, retries, `gigachat_retry.py`): no program reaches it at this
  commit.
- `load_evaluator_receipt` and the diagnostic receipts of a replay: written once, read only.
- Prompt texts, tokens counted, prices, the parsing of HTML, Atom, JSON and PDF: data no property
  distinguishes.

## 7. Plan

All modules of the plan are written, and every safety property a run checks that holds for the deployed number of workers is
proved. What could still be added is small: the windows and retries of the document-card program, once its imports
are repaired; and, should the agent workflow grow a store of its own, a module for it.
