# Verification of the Meta OS engine (proto-v2-engine)

TLA+ models of the parts of this repository that decide *what is done, by whose leave, and
what is on record about it*, with TLC runs on small instances and TLAPS proofs for every
size. The code is Python under `src/`; paths below are relative to the repository root.

1. The system 2. Modules 3. Runs 4. Fairness 5. Proofs 6. Where code and documents disagree
7. What is not modelled 8. Plan

## 1. The system

Meta OS turns observations into proposals and lets nothing happen without a human
decision. The top-level `README.md` of the repository says nothing about it; `BOUNDARY`,
`docs/v1_lock/V1_SYSTEM_FLOW.md`, `docs/governance/L4/*` and the LOCK documents under
`Judgment_Data/` do. `infra/api/app.py` mounts four routers (execution, approvals, executor,
ui_status); the rest are command-line tools, shell loops, scheduled jobs and library code.
Three ideas recur: a *gate* that is closed by default, an *append-only record* of who decided
what, and *files or rows shared by processes that take no lock*.

| Component | State it keeps | Operations | Where it is hard |
|---|---|---|---|
| Execution-run approval gate (`infra/api/endpoints`, `jobs`, `workers`, `services`) | tables `execution_runs`, `approvals`, `approval_decision_events`; the audit stream | `POST /execution/run`, `/approvals/{id}/approve`, `/reject`, the expirer job, `execute_job`, `create_execution_run` | rows are read outside a write transaction and written later by primary key; commits fail; the job races the API |
| Gate 2 and the delivery queue (`core/C_action`, `cli/consume_queue`, `cli/build_orch_inbox`) | one file per plan in each of several directories, an index, a scene bundle, authorisation files | build a plan, route it, consume the queue, build the inbox, give or take back an authorisation | separate processes, no lock, killed between any two writes |
| Orchestrator decisions and outbox (`core/orchestrator`, `tools/audit_append_*`) | inbox, decision and outbox files named after the plan; the audit chain | route an inbox file, split a decision, seal a file | a plan that is forwarded again overwrites file by file |
| Decision records (DPA) (`core/judgment`) | an append-only file of record snapshots | create, start_review, submit_human_decision, apply, abort | load, check, append with no version check |
| Constitutional transition (`core/engine`, `core/execution`) | none of its own; applies a record, then runs the engine | `constitutional_transition`, `run_execution` | three reads of shared state in one call; replays |
| Policy learning and store (`core/B_learning`, `core/policy_store`, `jobs/convert_policy_patch_proposals`) | converted proposals, approvals log, versioned policy files, receipts | approve a patch, apply after approvals, save a version, convert | three writes per apply, concurrent appliers sharing a `.tmp`, proposals revalued under their id, version numbering |
| Approval queue and bridges (`infra/storage`, `jobs/bridge_*`, `jobs/run_policy_patch_proposals`, `cli/review_patch`) | an append-only queue file with a merged view, proposals, approvals log, receipts | propose, enqueue, decide, bridge proposals, bridge approvals, apply | three files per proposal, decisions taken back, bridges from an old reading, torn lines |
| Learning OS and governance (`core/learning_os`, `core/governance`) | observations, the rate limiter's stamps, the approval queue, the policy | sample, build, edit, emit, validate, evaluate | sliding windows, forgotten stamps, failing writes, evaluators that read before they write |
| Decision ingest and scenes (`infra/api/routes/decision`, `core/scene`, `infra/storage`, `tools/observe`) | the scene index in memory and on disk, runtime state objects, five files, a hash chain | ingest, set an outcome | a thread pool without a lock, a shared `.tmp`, a crash that loses memory and keeps files |
| Policy engine and memory (`core/engine`, `core/policy`, `core/scene_state`) | a process-wide memory per site and channel | run a window | a memory that decays, two policies one after the other |
| Sentinel loop (`scripts/run_sentinel_live_loop.sh`, `tools/sentinel_*`, `infra/api/routes/executor.py`) | files named by the second, the previous open interest, the intents' chain, a failure streak | a cycle of commands; `POST /execute_market` | two loops over the same files, a stop after any command |
| Sentinel replay and alerts (`tools/local_llm`, `sentinel/`, `tools/sentinel_console_dashboard`, `_build_events`) | fixed file names, an audit log, a record of what was seen last | replay a snapshot; announce changes | two replays share all files; two tools share the record |
| Judgment trail (`tools/llm_generate_intent`, `tools/consume_trade_intent`, `record_outcome`, `replay_judgments`) | snapshots, a signed hash chain of judgment events, outcome files | generate, gate, consume, record, report | consumers that overlap, torn lines, outcomes rewritten beside a report |
| Observer logs (`tools/observer*`, `adapters/sentinel`, `tools/gates/lock3_observer_gate`) | three hash-chained JSONL files | append, verify, gate | each appender hashes something else than its verifier |
| Override registry (`core/override`, `tools/override_*`) | a hash-chained log of overrides | append, verify, ask the guard | forks and torn rows; a request and approvals of several people |
| Core event chain (`core/hasher`, `core/validator`, `core/chain_walker`) | lists of events of producers outside the repository | derive ids and hashes, validate, walk | loss, repetition, reordering, mixing |
| Judgment approval queue, execution adapters, console, CI gates, prototypes, reports | see section 7 | | unreachable, read-only, or batch scripts |

**How they interact.** An applied policy patch leaves a *receipt*; a receipt becomes a
*delivery plan*, which Gate 2 lets into the queue only with an execution authorisation; a
consumer turns the queue item into a processed artifact, a third command hands it to the
orchestrator's inbox, and the orchestrator routes it to a decision and splits that into outbox
files that may be sealed. Automatic proposals enter the policy store through the approval
queue and two bridges; the learning OS has an approval queue of its own. An execution *run* is
separate: `POST /execution/run` creates it `BLOCKED`, and only an approval over the API sets it
to `RUN`. Decision records and the constitutional transition are library code: the transition
asks a judgment port for an approval, applies the record through `DpaService`, and only then
calls the engine. The sentinel tools share files with each other and, through HTTP, the
executor endpoint; nothing else of the system reads them.

**What makes each correct.** Gate: no run starts without exactly one persisted approving
decision; a resolved approval stays resolved; the last announced decision
of a decided run is the persisted one, or its loss was reported; overdue approvals
are resolved. Delivery: nothing reaches a later stage that did not leave its trace at the
earlier ones; an execution plan moves only with an authorisation that was given; queued work
is processed. Orchestrator: no file and no seal falls behind what it was made from. Decision
records: every line follows from an earlier one, and the engine runs only for an applied
record. Policy store and review: only approved proposals change a channel; versions are a log;
what can be applied was reviewed and is documented. Learning: emissions are rationed and
earned; a change replaces the policy it was made for. Ingest: a recorded decision extends a
verified chain, summaries add up. Engine: risk reaches people, an alarm has a cause. Sentinel:
triggers are agreed between timeframes, posts are audited, moves are scored and announced
once. Audit files: a verifier accepts exactly what was written whole and in order, and a broken
log answers nobody. `PROJECT.json` lists the hazards at their lines with the properties that
would catch them.

## 2. Modules

| Module | What it is |
|---|---|
| `ApprovalGate` | the run approval gate, all handlers and jobs |
| `RunAuthorization` | what the gate promises: each run is authorised at most once, a refusal is final |
| `DeliveryQueue` | Gate 2, the delivery queue and the inbox |
| `PlanDelivery` | what the queue promises: each plan moves one stage at a time, never back |
| `DpaService` | the decision records and the constitutional transition |
| `DecisionTrail` | what the records promise an auditor: each line justified by an earlier one |
| `PolicyStore` | proposals, approvals, version files and receipts of policy learning |
| `PolicyLog` | what the store promises its readers: versions are a log of approved changes |
| `ProposalReview` | automatic proposals, the approval queue, the two bridges, apply |
| `LearningCycle` | observations, the emitter's ration, the gates, the evaluators |
| `DecisionIngest` | the ingest handler over its memory and files |
| `WindowEngine` | the policy engine and its memory |
| `SentinelSignal`, `SentinelLoop` | scores, consensus and triggers; the loop and the executor's answers |
| `LocalReplay` | the replay of the local pipeline |
| `SnapshotScore`, `MarketAlerts` | the snapshot's score; the two tools that announce changes |
| `TradeIntent`, `JudgmentTrail` | the rules of a trade intent; the judgment trail and its report |
| `ObserverLog` | three appenders of observer logs with their verifiers |
| `OrchestratorOutbox` | decisions, outbox files and their seals |
| `OverrideRegistry` | the override log and its guard |
| `CoreEventChain` | core events, their hashes, the walker |
| `HashChain` | the shape that hash-chained JSONL files share; used by five of the above |
| `MCApprovalGate`, `MCDeliveryQueue`, `MCDpaService` | instances for TLC of one component |
| `MCReviews` (store, review, learning), `MCDecisions` (ingest, engine), `MCSentinel` (loop, replays, alerts), `MCAuditChains` (overrides, trail, events, observer logs, orchestrator) | several components that share no state, joined: a variable `component` says whose behaviour it is |
| `*_proofs` (eight) | the theorems about the components of the MC module or module of that name |

Each component module has one action per handler step. A step boundary is where
the code can be overtaken: a `SELECT` and the first flush of a session, two file operations of
one command, the load and the append of a record. An operator that nothing uses, placed
directly before the one it is named after, is that operator's faulty form: the mutation
checks put it in place and expect the named property to fail.

A *serial* property is one with a history variable (`overlapped`, `raced`, `crossed`) for its
hypothesis: the code takes no lock, so what it promises of its files, it promises to commands
that do not overlap, though they may stop anywhere. The overlapping behaviours are in the model
all the same: every property that is not serial is checked under them.

### ApprovalGate

`row`, `appr`, `events` are the three tables (an approval is keyed by its run, as its UNIQUE
constraint says); `audit` is the last line written about a decision on a run; `pc` and `ctx` hold
what each API request does next and what it has read; `scan` is what the expirer has read and
`job` what a worker has. A request is its `SELECT`s (`RunLookup`, `RunReread`,
`EnsureApproval`, `DecideRead`) followed by one write step (`RunInsert`, `AddApproval`,
`BackfillExpiry`, `ApproveWrite`, `RejectWrite`, `MarkExpired`): from the first flush to the
commit the session holds the database's write lock. The write steps use what the session had
read, not what the row holds by then, because an ORM `UPDATE` names the assigned columns and the
primary key only. `RunInsertRefused` is the `IntegrityError`, `CommitFails` a decision whose commit
fails after it was emitted, `RequestDies` any other end. `Emit` is `emit_audit_event`, which either
writes the line or swallows the failure and reports an `audit_error` that names no run (`EmitFails`);
the handler commits all the same. The decision's INSERT is flushed when the handler loads the run
(the session's default autoflush), so a second decision is refused before it is emitted, not at the commit where the
code catches the `IntegrityError`. Uniqueness is modelled where
the schema has it: `InsertRow` (index on project and key, scope check), `InsertDecision` (one
decision per approver), `AddApproval` (one approval per run). `Init` also admits the rows older
releases left: a blocked run without an approval, or with one that has no deadline.

Abstracted: a (project, key) pair is one `Key`; a card and its scope one `Payload`; a deadline is
`null`, `future` or `due`; audit lines about creations, expiries, duplicate and conflicting requests, and the
read-only `GET`s, are left out, as is the first of the two `run_execution` functions in
`execution.py` (lines 87-246), which has no route.

### DeliveryQueue

A file is named after its plan, so each directory is a set or a sequence (by mtime) of plans:
`plan`, `indexed`, `packed`, `pending`, `processed`, `inbox`, `bundle`; `named` is the
authorisation a queue item names, `forwarded` the hand-over mark inside a processed artifact.
`request` and `attached` are the authorisation files and their attachment to receipts.
`deliver`, `consume` and `forward` say what each running command does next. A write to a `.tmp`
and its rename are one step. The consumer writes the processed artifact before it removes the queue
item (`ConsumeWrite`, `ConsumeRemove`), so a crash repeats work and loses none. Every
command may stop between any two steps (`DelivererStops`, `ConsumerStops`, `ForwarderStops`,
`MakerStops`); removals and marks may fail silently (`ConsumeKeeps`, `ForwardUnmarked`); one refused
item ends a whole batch (`ConsumeRaises`). Taking an authorisation back (`RemoveRequest`) is an
operator removing its file: external.

Abstracted: file contents other than the fields above; plan ids are fresh (uuid4); a receipt
names at most one scene; the legacy queue and inbox locations are not told apart.

### OrchestratorOutbox

`inbox`, `decision` and `outbox` give, per plan and delivery, the *forwarding* that the file
stems from (what `routing_capsule_sha256` tells; `decision_sha256` does not). `work` is what each
command has in hand. `Forward` is the delivery queue handing a plan over, again if it likes;
`Route`/`WriteDecision`, `Split`/`WriteDelivery`, `ReadFile`/`ReadHash`/`AppendRow` are the three
commands, read before write, each stopped anywhere (`Stop`).

### DpaService

`record` is the last line of each record in the repository's file and `file` the set of all its
lines; a line is its status and the option the human chose (`approved_at` and
`approved_by` are set with it). `pc` and `call` hold what a caller has loaded and the line it will
append. The five operations are a loading half (`CreateDpa`, `StartReview`,
`SubmitHumanDecision`, `Apply`, `Abort`: the guards of `transitions.py`) and a common appending half
(`Save`). `Transition`, `Gate`, `GateApply`, `RunEngine` are `constitutional_transition` with
`DpaService` as its apply port: the approval is read once, the record twice, and the engine runs
last. `ran` is the set of (record, approval) pairs the engine ran for.

Abstracted: the judgment port is external and answers with an approval that passes or
does not (any refusal ends the call, as does a bad envelope: `CallEnds`); one appended line is one
write, which holds for lines within the file buffer; the engine's result. `InMemoryDpaRepository`
hands out the stored object itself and is not modelled.

### PolicyStore

`file` and `tmp` are the version files and their `.tmp` siblings, by version: absent, empty
(opened for writing), garbled (one text written over a longer one) or a policy. `proposals` is
`proposals.jsonl`; `todo` and `draft` are what the running converter has to convert and has computed.
`approvals` is the set of (proposal, reviewer) pairs of the PENDING lines, `receipts` the receipt
files, `applied` the receipts that an APPLIED line was written for. `pc` and `ctx` say what each
person's command does next and what it has read. `apply_after_approvals` is `ApplyCheck` (approvals
log), `ApplyLatest` (latest version), `ApplyFind` (the proposal; the base hash under the strategy),
`SaveVersion` (latest version again), `SaveOpen`, `SaveWrite`, `SaveReplace` (the three system calls of
`_save_json`), `WriteReceipt` and `WriteApplied`; a patch that changes nothing skips the save. Two
commands that save the same version share one `.tmp`: the loser of the rename keeps writing into the
*published* file, which is what the states `late` and `lost` are. Any command, and the converter, may
stop before any step (`CommandStops`, `ConvertStops`); that is also what a raise in the next step does.
`MaxVersion` stands for 9999, the last number that `VERSION_RE` matches: version `MaxVersion + 1`
is written and never listed. `overlapped`: two commands have been between their first read of the
latest version and their rename at once.

Abstracted: hashes are equality of the policies they are of; a policy gives each channel one level
on a scale `0..Top` for the two thresholds the converter moves together, and a patch replaces one
channel's (the converter writes no other operation); a raw proposal with nothing to convert is left
out; a receipt or approval line is one write; their texts and timestamps are not kept.

### ProposalReview

The job that proposes writes three files, one step each (`WriteArtifact`, `WriteReceipt`,
`Enqueue`), and may stop between them. `queue` and `status` are the queue file and its merged
view: the latest update wins, so a decision can be taken back (`Decide`); `torn` is a line cut by
a stop, which swallows the one appended next. A bridge run (`Start` .. `BridgeEnds`) works on
what it read at its start (`bridge`): `BridgeProposal` writes proposals that are not known yet with the
hash of the policy it read, `BridgeApproval` a PENDING line of its reviewer for each approved
item. `ConverterResets` is the converter rewriting `proposals.jsonl`. `Apply` is one step:
its writes are `PolicyStore`'s. `barred` remembers the proposals rejected before any copy of them was
made or begun.

Abstracted: the time stamps of the queue are its order; every proposal is the same patch of one
threshold (`tuned`), the rest of a policy is a value of `Rest`.

### LearningCycle

`Observe` and `Tick` are the caller's; `Build` is what the builder accepts when the learner has
checked `SampleSufficient` and `Stable` on its latest window; `Edit` and `Discard` are the caller between building and
emitting. `Emit` is the emitter: the human gate, the limiter (`stamps`, forgotten a period later,
consumed even where the write fails), the write to the queue. `ReadPolicy` and `Evaluate` are
the evaluator, which reads the policy before it changes it. A patch is the policy it
leads to. `noop`, `duplicate` and the patch are injected by callers of which the repository has only
tests; they do what their names promise.

### DecisionIngest

The handler is a chain of steps, one per access to what requests share: `FindScene`,
`OpenScene`/`PromoteScene`, `SaveIndex` (the `.tmp` and its rename over `active_index.json`, which
two requests may share), `Observe`, `WriteChain`, `WriteEvent`, `GetState`, `UpdateState`,
`Snapshot`, `Summarise` or `KeepOpen`, `ClearActive`, `PopState`. `index`, `runtime`, `object` are
memory and lost in `Crash`; `disk`, `chain`, `observed`, `snapshots`, `summaries`, `samples` are
files. `OutcomeRead`, `OutcomeReplace` are the outcome endpoint, which rewrites the samples from an
earlier reading. A scene has the name of the request that opened it; policy severity is an input.
The getters that the route imports are gone from `infra/api/deps.py`: modelled as the
route's test supplies them, one shared object each.

### WindowEngine

One action, `RunEngine`, for one call: the adapter (`Accepted`, `AdaptedSeverity`), the emotion
signals, v0.3 (`Safe`, `Held`, `Decayed`) over `memory`, v0.2 (`Accumulated`) and what follows
(`Recommended`, `Routed`). Scores are the side of each threshold that they lie on, times are
minutes. Cooldowns, trends and occurrence counts are written and never read; `policy_v0_1` and
`build_scene_state_v0_1` are never called. `alarmed` is a history variable.

### SentinelSignal, SentinelLoop, LocalReplay

`SentinelSignal` is arithmetic: `Score`, `Direction`, `Confidence`, `Consensus`, `Triggers`,
`OrderOf`, with changes of open interest in hundredths of a percent. A cycle of the loop is
`Begin` (which fetches), `EmitScore` and `EmitWrite` per timeframe, `Summarise`, `BuildIntent`, `Dedupe`, `ReadHash`,
`AppendRow`, `Verify`, `EndCycle` or `ReadStreak`, `Post`, `Record`; `Stop` ends it after any of
them. Files are named by the second, so two loops may share them all; `prevOI` is shared by
all cycles. `ExecuteMarket` is the set of answers that the endpoint can give, from its
switches, its live gate and the append it runs. `scored`, `posted`, `overlapped` are history.

In `LocalReplay` every stage of a replay writes one file of a fixed name (`results`), as an open
and a write, and the last appends three lines to the audit log; the model's answer is any
of `ModelAnswer`.

### SnapshotScore, MarketAlerts

`SnapshotItems` is every item a summary can say of snapshot events, computed from every chart
there is; a run of either tool compares item by item with `prev` and writes its own
(`Compare`, `Write`), then reports (`Report`) or fails (`Fail`). `changes` is what two records in
succession call for, `told` what was announced.

### TradeIntent, JudgmentTrail, ObserverLog

`TradeIntent` holds three copies of the intent's rules: the generator's, the gate's, the
consumer's. `JudgmentTrail`: a consumer refuses (`Refuse`) or reads the last line, captures a
snapshot, appends its event (`ReadLast`, `Capture`, `AppendEvent`), or stops in its write (`Stop`).
A snapshot keeps which numbers it has (`Filled`), from what the exchange answered
(`Bundle`); a row keeps the hash computed when it was built, signed or not. `Accepts` is the
verifier. `Truncate` and `Record` rewrite an outcome file while `BeginReport`, `Join`, `EndReport` read.

`ObserverLog`: `kind` chooses one of three logs; a line keeps what its hash was taken over
(`besides`), which is what the appenders and verifiers disagree about. `Draft`, `Write`, `Stop`.

### OverrideRegistry, CoreEventChain, HashChain

`OverrideRegistry`: `AppendRead` (the chain checks of `override_append`) and `AppendWrite` or
`AppendTorn`; `GuardVerify` and `GuardLoad` are the guard's two readings of the file. An event
id hashes four fields, as `_event_id` does. `broken` says that a row was written after another than it
was read after, or in part.

`CoreEventChain`: an id is the tuple it hashes, a chain hash the ids hashed into it.
`Produce` writes a producer's next event, `Receive` lists any event, or a damaged one, next; `Step` is the body of the
walker's loop.

`HashChain`: a hash is the sequence of payloads up to the row, which keeps of SHA-256 what the
properties need: equal hashes are hashes of equal histories. `Torn` is a line that does not parse.

## 3. Runs

| Run | Instance | What it shows |
|---|---|---|
| `gate_safety` | 1 key, 2 payloads and one that the schema refuses, 3 requests, 2 workers, expirer batch 1 | `RunImpliesApproved`, `LedgerMatchesApproval`, `AnnouncedDecisionStands`, `ResolvedNeverReopened`; the gate implements `RunAuthorization` (`ImplementsAuthorization`) |
| `gate_live` | 2 runs, 2 keys, 1 request, 1 worker, batch 1 | `OverdueIsResolved` |
| `gate_expired_runs` | 1 run, 2 requests | *violated*, `ExpiredNeverRuns`: an approve that read before the expiry starts the run after it |
| `delivery_safety` | 2 plans, 1 execution receipt with a scene, 2 deliverers, 2 consumers, 1 forwarder, batches of 2 | `Traceable`, `GateHeld`, `RevokedStaysUnprocessed`; the files implement `PlanDelivery` (`ImplementsStages`) |
| `delivery_live` | 2 plans, an execution and a plain receipt, 1 of each command, batches of 1 | `QueuedIsProcessed`, `ProcessedIsForwarded` |
| `dpa_safety` | 1 record, 2 open options and a blocked one, 3 callers | `RanOnlyApplied`, `TerminalLostOnlyToRace`; the files implement `DecisionTrail` (`ImplementsTrail`) |
| `dpa_replay` | 1 record, 1 caller | *violated*, `ApprovalRunsOnce`: one approval runs the engine twice |
| `reviews` | store: 2 people, 1 proposal, 2 visible versions and the one past them; review: 2 proposals, 2 bridge runs; learning: 1 key, 3 observations in windows of 2, 2 proposals, 2 policies, 2 evaluators | `UnapprovedUntouched`, `SerialReceiptsAccurate`, `SerialStoreIsALog`; `ReviewedBeforeListed`, `SerialBridgesWriteOnce`; `RationHolds`, `QueuedIsHarmlessAndEarned`, `SerialChangesKeepBaseline` |
| `decisions` | ingest: 3 requests of one context, 2 at a time, 1 crash, 2 low decisions close; engine: 1 site, 3 channels, 2 times and one that does not parse | `SnapshotsExtendTheChain`, `SummariesAddUp`; `EngineRiskReachesPeople`, `AlarmHasCause` |
| `sentinel` | a live and a paper loop, 2 cycles at once or 3 one after another; 2 replays, 4 answers of the model; 3 runs of the announcing tools, or 2 at once | `TriggersAreAgreed`, `PostsAreAudited`, `SerialMovesScoredOnce`; `ReplaysAuditResults`; `AlertsAreSound` |
| `audit_chains` | overrides: 2 commands, 8 events of 2 people, 4 lines; trail: 2 consumers, 6 answers of the exchange, 2 outcomes; events: 2 producers of 3 events; observer: 2 appenders, 2 intents (1 large), 3 lines; orchestrator: 2 commands, 1 plan forwarded twice, 2 seals | `BlockNeedsSecondPerson`, `BrokenLogAnswersNobody`; `VerifierFindsDamage`, `EventsHaveTheirSnapshot`, `ReportJoinsRecorded`; `WalkTellsHistories`; `AcceptedLogsAreSerial`; `SerialFilesMoveOn` |
| `window_decay` | the engine's instance | *violated*, `DecayLowers`: after one risky window every safe one is answered critical |

**Why the bounds are enough.** The properties speak of one run, plan, record, chain or file
and of the commands that compete for it, so each instance has one of the former and as many of
the latter as a race needs: two that are in flight at once, and a third where one has to observe
what two did to each other (approve, reject and expire of one approval; three callers of one
record; three ingests of one scene, the third of which finds it closed and reopened). Files are as long as damage
needs to be followed by an append and a later reading (three or four lines). Counters
that the code does not bound are bounded by name: `MaxVersion` (stands for 9999), `MaxRows`,
`MaxLines`, `MaxEvents`, `MaxForwards`, `MaxSeals`, `MaxRuns`, `MaxCycles`, `MaxTogether`,
`MaxOutcomes`, `MaxInvoked`, `MaxCrashes`, `MaxObservations`, `MaxTime`, `MaxDrafts`,
`MaxSecond`. `TailLimit` stands for the 20 plans a scene bundle keeps, `Limit` for the
expirer's 500 and the commands' `--limit` arguments. In
`reviews`, one proposal applied, revalued and applied again uses every version up to the width and one
past it. The theorems have no such limits: they hold for every value of the constants.

Joined components share no state, so the joined instance explores the union of their
behaviours, never their product.

`CHECK_DEADLOCK FALSE` is set where the system really may stop: every plan id is used and
every command has ended (`delivery_*`), or every run, request or command has been used up
(`reviews`, `decisions`, `sentinel`, `audit_chains`).

## 4. Fairness

*Gate* (`ExpirerFairness`): time passes, `expiry_loop` wakes every interval (weak fairness of
the scan), and a pass that is tried again and again is not rolled back for ever (strong fairness of
the write: the loop swallows the exception and tries again). Nothing is assumed of
requests or workers.

*Delivery* (`RerunFairness`): an operator or a scheduler runs the two commands again and again
(weak fairness of the scans), and no step of them is killed or fails every time it is reached
(strong fairness of check, write, remove, inbox and mark). The code has no scheduler of its own;
this is how the commands are meant to be used, and without it nothing is ever consumed. The
deliveries need no fairness. `QueuedIsProcessed` has an exception that the code really has: an item
whose authorisation was removed raises, and ends every batch before the items queued after it.

No other component promises that something happens: the loops, replays and commands of the rest
end where anything fails, by design.

## 5. Proofs

TLAPS proves these for every value of the constants, from the named assumptions only; TLC
evaluates each assumption in a passing run. The assumptions are the types of the constants
(`ConstantsAssumption`, `QueueAssumption`, `DpaAssumption`, `PolicyAssumption`, `ContentAssumption`,
`ReviewAssumption`, `CycleTypes`, `WindowAssumption`, `IngestAssumption`, `SignalAssumption`,
`LoopAssumption`, `ReplaysAssumption`, `AlertsAssumption`, `InputAssumption`,
`TrailAssumption`, `EventAssumption`) and that a marker is none of what it marks (`Null`; `Torn` is no row:
`TornAssumption`, `LogAssumption`; a damaged event is none that was written). A theorem about one component of a joined specification goes through
a lemma saying that a behaviour of the joined one is a behaviour of the component
(`OverridesAlone`, `ReviewsRunReview`, `SentinelRunsLoop` and the like).

**`ApprovalGate_proofs`.** `IInv` is the conjunction of the safety invariants with what makes
them inductive: `RowInv` (the rows of a run that does not exist are absent, and a fingerprinted run
with no approval row is blocked waiting for one), `SessionInv` (what a request between its read and its
write may rely on however old the read is: the key and payload it carries, that the run it found
is fingerprinted, that the approval it found is still a row, and that the counters it will write back from were zero),
`OneDecision` (the unique constraint), `JobInv` (a worker holds an approved run) and `ScanInv` (the
expirer holds real approvals). The argument for `RunImpliesApproved` is that the only
step which sets `RUN` inserts an approving decision in the same transaction, that the insert is
refused when any decision is there, and that nothing deletes decisions: so stale reads elsewhere
can close a run but never open one. Theorems: `TypeCorrect`, `RunNeedsApproval`, `LedgerCorrect`,
`ClosedByDefault`, `AnnouncementsStand`, `KeyIsUnique`, `NeverReopened`, `Implements` (each step maps to a
step of `RunAuthorization` or a stutter).

**`DeliveryQueue_proofs`.** Theorems: `Typed`, `Traced`, `Gated`, `RevocationHolds`,
`ImplementsDelivery`. What a killed command leaves is no different from what a slow one leaves, so
`WorkInv` says what each command in flight may rely on: that the files of the stages before its next write
are there, under the authorisation it carries. Files of a stage are removed only after the next
stage's file was written, and authorisations are remembered as given (`Grows`), so what a command relies on
survives the others' steps. `RevocationHolds` is an action property: once an authorisation is
taken back, only a consumer that had checked the plan before can still process it. For the
refinement, `Bar` maps the files of a plan to its stage; removal of a queue item is the
stutter that needs the processed artifact to be there.

**`DpaService_proofs`.** Nothing can be said of the last line of a record under races, so the
invariant is about its file. `FilesJustified`: every line of a file is one that
`DecisionTrail` allows after the lines of that file. `CallsSound`: what a caller loaded is still
in the file, and what it will append is one of DpaService's changes to it. Lines are never removed, so
both survive any other caller's append (`SoundGrows`, `JustifiedGrows`). Theorems: `TypeCorrect`,
`NoBypass`, `OnlyRacesReopen`, `ImplementsTheTrail`.

**`PolicyStore_proofs`.** Theorems: `TypeCorrect`, `OnlyApprovedChange`, `RejectIsOneStep`,
`ReceiptsAccurate`, `StoreIsALog`. For `OnlyApprovedChange` the files alone are not inductive: `ClosedInv`
says of *every* policy in sight (files, `.tmp` files, what a command has read and what it will write)
that a channel without enough approvals has its initial level, and `SessionInv` that a command past its first
check works on a proposal with a quorum, which cannot be lost since approvals are never removed
(`QuorumGrows`). For `RejectIsOneStep` the invariant (`StepInv`) ties a converted proposal's
level to the policy it names as its base, so the equality of hashes that `ApplyFind` checks makes the
patch one step from what the command has read, and then a command carries that fact to its receipt. The other
two are about commands that do not overlap: `SerialInv` says that one person saves at most, that its
`.tmp` is its own, and that what it read is still the latest version. `StoreIsALog` is the refinement of
`PolicyLog`, whose history is the published versions.

**`Reviews_proofs`.** Theorems: `ReviewTyped`, `Reviewed`, `RejectChanges`, `SerialBridges`,
`ChangesKeepBaseline`, `QueuedIsEarned`, `RationKept`. `ReviewInv` follows a proposal: queued, in a bridge's hand or listed, it is documented, and in hand
or listed it is not barred; a barred one's merged status is not APPROVED until it is
taken up anew. `OnceInv` says that a lone bridge knows all that its file holds. `RationKept` is the
hardest: the limiter forgets stamps, a failed write consumes one, and a period may begin anywhere. `Stamped` says
that for every start of a window that is still remembered there are as many stamps as admissions,
`InOrder` that the queue is in the order of its times, so that the earliest admission of a
burst bounds it; the rest is cardinalities of finite sets of positions.

**`Decisions_proofs`.** Theorems: `EngineTyped`, `RiskHeard`, `AlarmsCaused` about the engine, and
`SnapshotsStand`, `SummariesAgree` about the ingest. `ChainInv` says that what a request will append, and what every snapshot
names, is hashed onto a part of the file that links. `CountInv` bounds the count in a state object by the requests of
its scene that are past observing (`Behind`), whichever of them share it, lose it or replace
it; that is what overlapping and crashing requests keep. Serial requests keep more (`SerialInv`, with
`Alone`, `Saved`, `Contexts`, `States`, `Tallied`, `Recorded`, `Open`, `Closed`): the count of a
scene that is not closed is exactly that of its snapshots, and a closed scene leaves neither an index entry nor
a state behind.

**`Sentinel_proofs`.** Theorems: `TriggersAgreed`, `PostsAudited`, `MovesScoredOnce` about the
loop, `ReplaysAudit` about the replays, `AlertsSound` about the announcing tools. `LoopTyped` ties each step of a
cycle to the files that its second has by then, whoever wrote them. `IntentsInv` is arithmetic over the
thresholds: a sound intent stays sound because every summary comes from two legs (`Summaries`).
`AuditInv` remembers the part of the chain that was verified: an append keeps every prefix (`PrefixKept`). `MovesInv` orders the
compared readings (`Apiece`, `Latest`). `ReplayInv` holds under any overlap (what is audited was made by someone),
`SerialReplays` for replays that do not (what lies in the shared files is one's own). `SerialAlerts` follows what was
shown and not yet recorded (`Shown`, `Behind`); that snapshots call for no trade is arithmetic
again, over every chart.

**`AuditChains_proofs`.** The override log: `Typed`, `SerialLinks`, `BrokenAnswersNobody` (a flaw
once written stays, since files only grow: `BrokenInv`), `SecondPerson` (`VerifiedInv`: what the guard
verified is a prefix that verifies, so a later approval in force was checked, or was appended since). The trail:
`FindsDamage` from `TrailJudged` (the file is flawed *exactly* when a write spoiled it, for which a row must keep the hash
that was computed when it was built), `HaveSnapshot` from `TrailRests`, `JoinsRecorded` from `ReportInv` (what a report has
joined so far, against outcomes that are rewritten beside it). The observer logs: `AcceptedAreSerial` from `LogInv`, the same
"flawed exactly when marred", plus what each log's line was hashed over. The
core events: `WalksTold`. The walker is a recursive function; that it is the one function with its equations
is shown by a least counterexample (`WalkIsOne`), and a list that goes on by one event takes one step of it
(`WalkGoesOn`). `HistoriesInv` says that the walker's last state on a history is what its producer keeps
(`Ends`), and that a hash as long as the list before it is over every id of it (`Placed`); `ReceivedInv` that a list
which has been good so far consists of events in their places, each naming the one before (`Unbroken`). The
orchestrator: `FilesMoveOn` from `SerialOrchestrator` (a lone command, with what it read no newer than
its source and no older than what it will replace).

**Only model-checked.** The liveness properties (`OverdueIsResolved`, `QueuedIsProcessed`,
`ProcessedIsForwarded`) are out of the prover's reach.
Every other property of a passing run is stated by a theorem.

## 6. Where the code and the documents disagree

Three disagreements have a run, and `PROJECT.json` quotes them. (1) An expired approval's run is said to stay
blocked, yet an approve that read the approval earlier starts it (`gate_expired_runs`). (2) An
approval is said to be executed at most once, yet `IdempotencyGuard` is never called and an applied
record runs the engine again (`dpa_replay`). (3) Safe conditions are said to lower the severity one step, yet v0.2, called with no
previous state, raises it again (`window_decay`).

Others were met while modelling and are kept here for the maintainers; the models do what the code does.

*Gate and delivery.* The expirer emits no audit event, though all outcomes are said to be audited, and a
decision is committed although its audit line failed: what is left is an `audit_error` on stderr without the run's id. A
processed artifact's `delivery_status` is undone when a leftover queue item is consumed again
(`queue_consumer.py:146` says otherwise). `judgment_ref` must equal the receipt's path
(`plan_from_receipt.py:86,147`), yet only the plan-time gate looks at it. `ttl_sec` of a request is validated
and never limits `expires_at`.

*Orchestrator.* Inbox files carry no severity, recommendations or decision mode, so the priority is always low
and fnb's `#ops-alerts` is never chosen here; `decision_sha256` covers neither time nor inbox;
lock10 writes its decision to the default `logs/` directory.

*Policy and learning.* Proposals that the human gate holds back can never reach the queue; the validator's
docstring (`proposal_validator.py:39`) promises stability but compares configuration numbers; a failing
write consumes a slot of the ration; a policy that returns to an applied baseline makes every further proposal
DUPLICATE; `auto_propose` says "Always emits an AutoProposalReceipt" (`proposals.py:305-306`) but raises a
`TypeError` (393-395); `cmd_status` shows a reviewer's latest line where apply counts every PENDING one; the
bridges cut to `--limit` before they skip what is done, so old items starve them.

*Ingest and engine.* The route imports names that `infra/api/deps.py` no longer defines; `update_outcome` loses
samples appended since its reading. v0.2 raises every HIGH to CRITICAL at once; cooldowns are never
enforced and occurrences never accumulate; v0.3's uncertainty check never matches its signal's name; `unc or 1.0`
and `missing_ratio or 1.0` turn 0.0 into 1.0; the comment that v0.1 makes the final decision is of code never called.

*Sentinel.* `docs/DOMAIN_MODULES.md:57` has triggers per symbol and timeframe, summary items have no timeframe;
shorts can never trigger and exec_trigger's rules are never evaluated (-0.20 there, -20.0 in the code); the
executor answers 200 for blocked, and 500 rather than 409, because it calls the append tool with an option it lacks;
the live gate wants the keys of another kind of intent, so that enforced it always denies; the dashboard, called
read-only, replaces the record that `build_events` compares with; the first HIGH reading raises no RISK_UP; a
snapshot's score of at most 60 per timeframe never makes a long, a low risk or a consensus.

*Judgments and logs.* `consume_trade_intent` calls signing best-effort, but a missing key ends it; only the schema
gate refuses a key too many; `valid_until` is never compared with the time; 4h candles older than an hour are pruned by the
default stale limit of 60 minutes; `record_outcome` takes any judgment id; a confidence that is NaN passes to APPROVE.
`capture_market_snapshot` returns `audits/sentinel/snapshots/NAME` whatever `--snapshot-dir` says
(`snapshot_service.py:323`), so that with another directory an event's `features_ref` names no file; the model is of the default
directory, with snapshots keyed by judgment, and cannot show it.
`append_observer_event` hashes before it adds `signature_meta`, so the lock3 gate rejects every row, though
`dry_run_adapter.py:10` says "LOCK-3 compliant"; the gate checks no first link; paper-orders rows never pass
`observer_verify_chain`; the intents' appender restarts its chain after a line of more than 8192 bytes; `verify_audit_hash_chain`'s
content hash never matches `append_audit`'s. `chain_walker` gives one event both False and True, and ids do not cover
`prev_event_id`.

*Unused or unreachable.* lock9 exports `METAOS_CI_DETERMINISTIC_ORCH_INBOX`, which nothing reads; lock5, lock6 and
lock7 compare a file with itself; LOCK-4's preflight and its loader disagree on where keyrings and replay
stores may lie, and it is never called; the vault registry's `NameError` makes the trade logger always fail.

## 7. What is not modelled

The *judgment approval queue* has an adapter that raises on every item (it builds `JudgmentApproval` without
`selected_option_id`) and a router that is not mounted; the in-memory repositories serve tests. *Execution
adapters* are a contract and a no-op. The *console* and the read-only commands (`cmd_status`, `ui_status`,
`override_report`) and *reports* (`card_stats`, `fix_pack`, `daily_report`) keep no state that
another actor reads. *CI gates and static scans* check the repository's own files at build time. *Reality,
emotion and trading prototypes* are imported by nothing. Trade logs fail before their first write. The
*constitutional routes* are unmounted and call what is not defined; `core/learning/proposals.py` raises before
it saves; `learner.generate_policy_patch_proposals` and the provider, authority and plan gates have no
caller. Within modelled components: signatures of observer events, replay packets, the schema check of
`verify_chain`, the counting behind a learning proposal, market data and what language models answer (external),
and what `run_engine` computes inside the constitutional transition. `PROJECT.json` has the details per component.

## 8. Plan

1. The counting behind a learning proposal (`jobs/run_policy_patch_proposals`), whose result is an input of
   `ProposalReview` today.
2. The schema check of `verify_chain` and the signatures of observer events, should the code come to rely on
   them.

The runs stay as they are: one for each question asked of a component or of several joined ones.

