# Raphael: TLA+ verification project

Raphael is a local-first assistant backend (`src/src/ai_ecosystem/`): an HTTP API
accepts goals, an agent turns a goal into a plan, an executor runs the plan's
tools behind a policy and a human, a verifier judges the outcome, and a recovery
loop tries again. This project models the parts of it that keep state under
concurrency, failure and restarts, checks them with TLC on small instances, and
proves with TLAPS, for every instance, every safety property the passing runs check,
among them that the executor implements an abstract specification of running a
plan.

File names below are relative to `src/src/ai_ecosystem/` unless they begin with
`docs/` or `tests/`.

## 1. Inventory

| part | state it keeps | operations | what is hard about it |
| --- | --- | --- | --- |
| Executor and task graph (`agent/executor/`) | step states, in-flight futures, child tokens, persisted snapshot | `execute_graph`, `_submit_ready`, `_collect_completed`, `_drain_stuck`, `restore` | coordinator and pool threads race; deadlines and cancellation arrive between two reads of the token; crash between two saves |
| Planner (`agent/planner/`) | draft, attempts, the ordering loop's locals | `plan`, `_repair`, `validate`, `order` | the model answers anything; cycles and repeated dependencies |
| Tool runner, approvals, ledger (`tools/registry/`, `security/policy/`) | approval requests, ledger rows, seen call ids | `run`, `authorize`, `await_approval`, `decide`, `begin`, `recover_unknowns` | several calls at once, an operator, expiry, unlocked sweeps, replay after a crash |
| Database (`core/persistence/sqlite.py`) | one connection, a transaction depth | `transaction`, `write`, `execute` | blocks of several threads overlap on one connection |
| Task lifecycle (`core/runtime/`, `agent/orchestrator/single_agent.py`, `interface/serve.py`, `interface/api.py`) | task row, context row, the agent's own context object, tokens | `run_task`, `resume`, `transition`, `cancel_task`, restart loop | cancel races the worker; a crash anywhere; the state is written before or after the thing it describes |
| Events and views (`core/events/`, `interface/views.py`) | handlers, event table, view, a consumer's cursor | `subscribe`, `publish`, `append`, `events_since`, `ingest` | several publishers, failing handlers, events inside transactions that roll back |
| Models and router (`intelligence/models/`, `intelligence/router/`) | two dictionaries, providers and profiles | `register`, `clear`, `candidates`, `complete`, `set_model_settings` | a switch in the middle of a scan; privacy |
| Recovery (`agent/recovery/`) | attempts, retries, replans, plans seen | `run_with_prior`, `action_for`, `request_replan` | bounds that interact with overrides; results of different executions mixed up |
| Multi-agent (`agent/multi/`, `tools/local/delegate.py`) | agent and task records, inboxes | `run_all`, `run_task`, `fan_out`, `chain`, `send`, `forward`, `resume_interrupted` | pool of agents, timer, inbox limits, deregistration meanwhile, messages relayed in circles |
| Global scheduler (`scheduler/scheduler.py`) | job rows, copies held by `tick` | `submit`, `tick`, `cancel`, `resume_interrupted` | copies that are stale when written back; crash during dispatch |
| Memory (`personalization/memory/`) | memory rows, receipts | `store`, `update`, `archive`, `apply_consolidation`, `purge_expired` | read-modify-write of whole rows; consolidation is a row of calls |
| Learning (`learning/`) | proposals, governor, persisted posture | `generate`, `approve`, `reject`, `rollback`, `kill`, `persist`, `load` | a decision spans several stores; a kill switch and restarts |
| Skills (`skills/registry.py`) | skill rows, candidates in memory | `register`, `new_version`, `set_status`, `approve`, `reject`, `build` | two curators at once |
| MCP (`tools/mcp/`) | configuration, revision, connections, tools on offer | `save`, `enable`, `disable`, `close`, `connect`, `request`, `_dispatch` | an operator between two locks, a thread with a loop of its own, calls that time out |
| Audit log (`security/audit.py`) | chained rows, cached tail | `record`, `verify`, `export`, `rotate`, `purge_older_than` | rotation is many steps without the lock |
| Cloud sync (`cloud/sync.py`) | acknowledged versions | `sync`, `retry_sync`, `resolve` | two devices, lost answers, listing and pushing are apart |
| Cloud availability (`cloud/availability.py`) | presence rows with leases | `heartbeat`, `set_status`, `poll`, `is_available` | rows written back over newer ones |
| Cloud jobs (`cloud/jobs.py`, `external.py`, `routing.py`) | a shared job object, the backend's state, the job row | `rank`, `select_first_available`, `submit_job`, `poll_job`, `cancel_job`, `mark` | poll against cancel; fallback and privacy |
| Verifier, research, local tools, monitor, sandbox, personality, user interface, proactive engine, circuit breaker | none that several actors share, or I/O only | calls to the outside | seen by the models as answers the environment chooses, or left out (section 6) |

How they interact. `serve.py` builds the stack: the API's `create_task` puts work
on the dispatcher's queue; a dispatcher worker runs `SingleAgent.run_task`, which
moves the task with `TaskManager.transition` (in `Database.transaction`), gets a
plan from `ModelReasoningBackend.plan` (through `ModelRouter`), runs
it with `ParallelExecutor.execute_graph`, whose pool threads call
`ToolRunner.run`, which asks the `AuthorizationManager` and its `ApprovalStore`
and records the action in the `ExecutionLedger`. Tools may be local, come from
an MCP session, or delegate to sub-agents. A failed or unverified
execution goes to `RecoveryEngine.run_with_prior`, which calls the executor
again. All of them publish on the `EventBus`, whose handlers run in the
publisher's thread. `cancel_task` runs on an HTTP thread, changes the task row
and then sets the worker's `CancellationToken`. After a crash `build_stack` marks
unfinished ledger rows UNKNOWN and resumes or fails every unfinished task.
`GlobalScheduler`, the cloud layer, skills, learning and the coordinator are
libraries that `serve.py` does not wire in; tests and benchmarks use them.

The properties that make each part correct are the ones of section 4. The hazards
they are for are listed, line by line, in `PROJECT.json`.

## 2. Modules

| module | models | notes |
| --- | --- | --- |
| `PlanRun` | | what running a plan promises: the abstract specification |
| `Executor` | `executor.py`, `graph.py`, `cancellation.py` | coordinator, one worker per step, operator, clock, crash; implements `PlanRun` |
| `Planning` | `planner/backend.py`, `planner/validator.py` | one call of `plan()`, one step per model answer and per turn of the ordering loop |
| `ToolRunner`, `MCToolRunner` | `runner.py`, `execution_ledger.py`, `approvals.py`, `engines.py` | one thread per call |
| `TaskLifecycle` | `state_machine.py`, `task_manager.py`, `single_agent.py`, parts of `serve.py` and `api.py` | one task |
| `Events` | `core/events/`, `interface/views.py`, `get_task_events` | publishers, transactions, a consumer |
| `Models` | `intelligence/models/`, `intelligence/router/`, `set_model_settings` | callers against one switching thread |
| `Skills` | `skills/registry.py` | versions of one skill, curators |
| `Recovery` | `agent/recovery/` | one run of the engine |
| `MessageBus` | `agent/multi/messages.py` | a module of its own and a part of `Agents` |
| `Agents` | `manager.py`, `coordinator.py`, `delegate.py` | one caller thread, pool threads, deregistration, crash |
| `Scheduler` | `scheduler.py` | ticker, cancelling callers, crash |
| `Memory` | `personalization/memory/` | clients and a crash |
| `Learning` | `learning/` | operators, governor, restart |
| `Database` | `Database.transaction`, `write` | SQLite is external |
| `Audit` | `security/audit.py` | recorders at any time, one rotation at a time, archive files, a free clock, crash |
| `Mcp` | `tools/mcp/manager.py`, `client.py` | one server, its sessions by revision |
| `Sync` | `cloud/sync.py` | two devices, one remote |
| `Presence` | `cloud/availability.py` | callers and a clock |
| `Offload` | `cloud/jobs.py`, `external.py`, `routing.py` | one job, the backend is external |
| `ToolRunnerProofs`, `TaskLifecycleProofs` | | theorems about the module each is named after |
| `ExecutorProofs` | | theorems about `Executor` and `Planning` |
| `ServicesProofs` | | theorems about `Skills`, `Events` and `Models` |
| `AgentsProofs` | | theorems about `Recovery`, `MessageBus` and `Agents` |
| `ProactiveProofs` | | theorems about `Scheduler`, `Memory` and `Learning` |
| `StorageProofs` | | theorems about `Database`, `Audit` and `Mcp` |
| `CloudProofs` | | theorems about `Sync`, `Presence` and `Offload` |
| `MCExecutor`, `MCTasks`, `MCAgents`, `MCProactive`, `MCStorage`, `MCCloud` | | instances for TLC |

How the modules fit together. `Planning` yields plans that can be ordered, which
is what `Executor` assumes of them. `Executor` treats a tool call as one step
that returns success or failure; `ToolRunner` opens it up. `TaskLifecycle` treats
an execution and the recovery loop as steps (which tools start, which status
comes back) that `Executor` and `Recovery` open up, and it uses the rule of
`Database` (a block that starts inside another thread's block joins it) for the
task and context rows. `Agents` is composed with `MessageBus`: the requests,
results and handoffs of a run are messages on an instance of it.

An MC module gathers parts that share no state. Its variable `focus` is chosen
in the initial state and says which part moves; the other variables stay at an
initial value. This is a sum of state spaces and not a product: each part is
explored as if it were alone, and one run answers for the parts that belong
together. Fairness conditions carry the focus, so no part is required to move
in another's behaviour.

### PlanRun and Executor

In `Executor`, `state`, `interrupted` are the graph nodes; `inflight` the map of
futures by step; `work` and `left` what the pool thread of a step does and how
many tools it has left; `expired`, `stop` and `pc = "aborted"` are the three
things that make a child token report `cancelled`; `saved` is the snapshot in the
context row; `failFast` the failure policy; `gathered` the steps this call of
`execute_graph` has collected, which is history. One
turn of the loop is four steps: `LoopHead` (loop test, first read of the token,
`_stop_unstarted`), `Submit` (second read, `_submit_ready`), `Drain` or
`AwaitWork`, and `Collect` (completed futures, deadlines, `mark_unsatisfiable`,
fail-fast test, `_persist`). `_persist` may raise, which ends in `aborted` with
pool threads left running. `READY` is assigned and left inside one call and is
never visible. `Restore` is `TaskGraph.restore`, which at present only
`tests/integration/test_executor_restart.py` calls: `SingleAgent.resume` builds
a new graph from the plan and relies on the ledger instead.

`PlanRun` knows nothing of threads, tokens or loops: steps begin when all their
dependencies succeeded, at most `Width` at a time, settle for good, and a crash
falls back to what was last kept. `ImplementsPlanRun` instantiates it with a
status per step computed from the graph (a crashed process shows what its
snapshot would restore) and with `saved` as what is kept.

### Planning

A draft is its steps with their dependency lists (which may repeat or refer
forwards), one verdict for all text, tool and risk checks, and whether it uses a
tool that needs a connection. `kahn` holds the locals of
`DependencyResolver.order`, which pops one step per action; `InPlanOrder` is the
order in which both of its loops append to `ready`. `Orderable` is the
reference definition: there is a ranking in which every step comes after its
dependencies. A result says whether its plan was drafted by the model or is one
of the fixed one-step plans.

### ToolRunner

A call walks through `pc`: `authorize`, `request`, the turns of
`await_approval` (`waiting`, `sweeping`, `polling`), `check`, `granted`, the
three critical sections of `_reserve_action` (`reserve`, `begin`/`insert`,
`seen`), `run` and `running`. All actions belong to one task and one tool, so
equal actions are equal hashes. `ledgered` distinguishes the main runner from
the runner of a sub-agent, which has no ledger. `consent`, `withdrawn`,
`effects`, `earlier` and `lost` are history.

The ledger uses the connection of `runtime.db`. While another thread is inside
`transaction()` on it (`foreign`, entered and left by `BlockOpens` and
`BlockEnds`), a row written by `begin` or `_finish` is part of that thread's
block: it is visible at once, and gone if the block is rolled back or the
process dies before it ends, in which case the rows are those of `kept`. `lost`
records the actions whose row went that way. The rows of the approval store are
taken as committed when they are written.

### TaskLifecycle, Events, Models, Skills

In `TaskLifecycle`, `cur` and `com` are the task and context rows as the
connection shows them and as committed. A transition is three steps, since the
lock is not held across it. `phase` and `step` are the position of the worker,
`mem` its own context object, which it saves whole. `resumed` says that the
worker runs `resume()`. A worker whose `agent_factory()` raises (no provider can
be selected) only logs the error: the phase is `dropped`, and the task stays as
it is until the next restart. `toolruns` counts the tool calls of the plan that
passed `ToolRunner`'s last look at the token, which is before the handler
starts; the tools of `_aware` and `_research_phase` are started without a token,
and `Unguarded` is the worker being in one of these two. `proven` is history.

`Events` is the backbone of one task. A publisher delivers to the handlers that
were subscribed when it began, one per step, and any of them may raise. An event
published inside a transaction is in the table at once, because readers share
the connection, and is taken back by a rollback, which frees its sequence
number (`BeginTx` remembers how long the table was). `view` holds the fields of
`TaskView` that decide the state shown, `shown` the kinds it has taken in: a task
shown as completed has had no failure since the last event that starts it over.

`Models` takes one step per dictionary read of a scan and per dictionary write of
a switch. Providers sit in a sequence in insertion order, because a dictionary
that changes size during an iteration raises; `Http` lists the HTTP providers in
the order an embedding program registers them, and `Ranked` inserts what a scan
finds behind everything that is not dearer, which is the stable sort of the code. A
request is its data class and two flags, an endpoint is where it leads.

`Skills` keeps all versions of one skill; version n stands for `1.0.n`. Reading
a row and writing it back (`WriteSkill`) are two steps; candidates are taken out of the inbox by a
single `pop`, which is why a proposal cannot be decided twice.

### Recovery, Agents, MessageBus

`Recovery` is the loop with its locals as variables; `last` and `judged` are
history. `Overrides` is the policy's dictionary as a set of pairs. `Agents` has one thread per record, walking through the repository
calls of `run_task` one by one, and one caller thread that runs `fan_out`,
`chain`, `run_goal`, `delegate`, or `run_all` on what `resume_interrupted` reset
after a crash. `peers`, `mail` and the variables after them are the team's bus, an
instance of `MessageBus`. In `MessageBus` a message keeps its id when it is relayed;
`received` is what `receive` returned, which is what an agent may forward.

### Scheduler, Memory, Learning

In `Scheduler` the copies that `tick` and `cancel` hold are variables, because
`update` writes the whole copy. In `Memory` a client holds the row it is about
to write back, and the repository's update inserts a row that has gone;
consolidation goes through its calls one at a time. In `Learning` an operator's
call is cut between the proposal's row, the store adopted into and the row's
final write; `governor` is in memory and `posture` is what was persisted;
`adopted` is history: the memories a proposal was ever adopted as (a memory
carries its `proposal_id`), since the row names one of them only.

### Database, Audit, Mcp

A frame of `Database` is one `transaction()` block: thread and nesting level.
`depth` is the shared `_tx_depth`; `pending` and `durable` are the rows written.
`mixed` is history: the blocks that overlapped a block of another thread.
`Audit` takes SHA-256 as injective, so that a hash is the id of the record it
covers. `verify`'s walk along the links is stated by the sets of rows it does
not leave (`Walked`). `rotate` takes the append lock for the checkpoint only, so
recorders run at any step of it. `archive` is a file per path, which an export
empties before it writes; `late` are the records made between an export and the
second listing, `rewritten` those that were in no place but a file that was
opened again. Rows have the stamp of a clock that may stand still or go back,
and after a restart the tail is one of the rows with the greatest stamp
(`Tails`). `broken` says that one of the three things happened that
`ChainIntact` excepts; a rotation that deletes undisturbed resets it. In `Mcp` what holds the
manager's lock is one step; the connection's thread goes through `started`, `looped`, `opening`
and `serving`, and a call through lookup, queue, waiting and giving up.

### Sync, Presence, Offload

In `Sync` one value stands for payload, hash and version (`make_sync_object`
derives one from the other), every request to the transport is a step, and a
request may fail before or after it took effect. `Presence` keeps the table in
the order `list()` returns it, since `_find` takes the first row. `Offload` has
one job object that two threads poll, cancel and store; the backend moves a job
only when it is polled, and turns any state into TIMED_OUT once it was polled too
often, as the test transport does. `Health` is a cloud's answer to a probe, whose
own handshake may fail although the provider is connected. `reached` is history:
the clouds that answered a poll with COMPLETED.

## 3. Bounds and fairness

| run | instance | why it is enough |
| --- | --- | --- |
| `executor` | 3 steps, pool of 2, 1 tool (or none for one step), both policies, 1 restart; 343 drafts of three steps and one for each other reason to refuse, 2 repairs | a chain, a fork, a join and an out-of-order plan fit in three steps, and a pool of two is smaller than the plan; a crash with two steps in flight; three steps out of plan order are the least that reach `_drain_stuck`, because `mark_unsatisfiable` makes one pass. Crashes are explored on plans in dependency order, under both policies |
| `toolrunner_calls` | 2 calls, 2 actions, 2 requests, 2 runs, 1 restart, foreign blocks | equal and different actions, reuse of a request and of an approval, the same call twice. Foreign blocks are explored where there is a ledger and no call waits for a human (`MCSpec`): they touch ledger rows alone, and a call reaches its row the same way with or without an approval |
| `tasks` | task: 1 cancel request, 1 tool, 2 restarts; events: 2 publishers, 1 of them in transactions, 3 events; router: 1 caller, 1 or 2 HTTP providers, 2 switches, 2 calls, 4 endpoints; skills: 2 rows, 2 versions, 1 proposal, 2 curators | every phase crashed into, and a crash of the resumed run; an event between begin and rollback of another thread; two switches meet a scan at every read, of a dictionary whose size they change or leave alone; callers only read, so one sees every interleaving |
| `agents` | recovery: 3 attempts, 1 replan, 3 plans, overrides that retry TRANSIENT, replan VERIFICATION_FAILURE and skip DEPENDENCY_FAILURE; team: 2 agents, 2 records, 2 workers, inbox of 1, 1 crash; bus: 2 peers, 2 ids, inbox of 1, 2 hops | overrides bypass the policy's limits, so only the attempt budget bounds the loop; both records on one agent or on two, an inbox that is full, a circle of relays |
| `proactive` | scheduler: 2 jobs, 1 key, 2 attempts, 1 cancel, 1 crash; memory: 3 memories, 2 contents, one client consolidating and one editing; learning: 1 proposal, 2 objects, 2 operators | dependency or shared key between the two jobs, stale copy on either side; three memories are two sources and their merger; a proposal decided by two operators at once, and adopted by both |
| `storage` | database: 3 threads, nesting 2, 4 blocks, 1 write each; audit: 2 recorders, 4 records, 2 paths, 2 stamps, 1 crash; MCP: 2 revisions, 2 enabling threads, 2 calls, queue of 1 | a joiner whose owner left, joined in turn by a third thread; a crash in a rotation and a rotation after it, to the same file or another; two stamps tie, go on or go back; a revision revoked by the next one while both have threads |
| `cloud` | sync: 2 devices, 1 object, 3 payloads (one secret), 2 edits, 1 failure, one device that retries once and one that never retries, 1 resolution; presence: 1 device, 2 callers, a lease of 1 in 3 ticks, 2 rows; offload: 1 local and 1 cloud provider, 2 callers | concurrent edits, a lost answer that is retried or exhausts the budget, a resolution in the middle of a run; a row read before a tick and written after it, and the second row of a double first heartbeat; poll against cancel |

Constants named `Max...` that are marked "bound" in a module have no counterpart
in the code; they only cut off repetition of environment steps (restarts, edits,
cancel requests, events). Deadlock checking is off in all runs, because all of
these systems may come to rest.

Fairness. `Executor`: the coordinator never blocks (its `wait` has a poll
interval) and a tool call returns (`_run_with_deadline` joins the handler with a
timeout), so coordinator and workers are weakly fair; a crashed executor is
restarted. `TaskLifecycle`: dispatcher workers and HTTP threads keep running, a
crashed backend is started again. `Recovery`: one thread that goes on.
`Agents`: the caller's thread and the pool threads keep running; an executor
returns. `Scheduler`: somebody keeps calling `tick`, which then runs to its end;
quiet hours end (strong fairness of a tick outside them). `Mcp`: enabling threads
and the threads of connections run; a session ends by itself only once it is
cancelled. `Sync`: devices keep calling `retry_sync`. Nobody has to cancel,
crash, approve, edit, deregister, answer a request or let a deadline pass.

## 4. What the runs check

Each property is stated in words above its definition. Several are conjunctions
of named parts, given in brackets with the type invariant left out.

`executor`
* `DependencyOrder`: what has started had its dependencies succeed, in memory and
  in the snapshot. `ReturnsSettled`: nothing is open when `execute_graph` returns.
  `FailFastHalts` (under FAIL_FAST nothing starts once this call of
  `execute_graph` has collected a step while the graph shows a failure, also a
  restored one), `SucceededNotRerun` (across a crash), `AbandonedStop` (threads
  that outlive a failed save enter no further tool), `RunReturns` (liveness).
* `ImplementsPlanRun`: the refinement.
* `PlanningSafe` [`OrderExact`, `FailsClosed`]: the ordering is exact against
  `Orderable`, and `plan()` returns only what can run and what the goal allows.

`toolrunner_calls`
* `EffectSafe`: no handler starts without valid consent, none that was withdrawn,
  and one action has one pending request. `LedgerTruthful`: the action of a
  started handler has a row, unless a foreign block took it, and a call runs once
  in a process. `NoReplayAfterRestart`: what an earlier incarnation started is not
  started again, with the same exception.

`tasks`
* `CrashSafe`: whatever a crash leaves is resumable, and no illegal transition is
  ever asked for. `OutcomeTruthful`: the result says what happened, and COMPLETED
  is proven. `CancelStopsTools`: after an acknowledged cancellation no tool call of
  the plan passes its last look at the token, and the worker enters neither of
  the phases whose tools have none. `TaskSettles` (liveness; a task whose worker
  could not build its agent is excepted).
* `EventsSafe` [`EveryEventLogged`, `CompletionHonest`].
* `RoutingSafe` [`PrivacyKept`, `RefusedOnlyInSwitch`].
* `SkillsSafe` [`DecidedOnce`, `VersionsImmutable`].

`agents`
* `RecoverySafe`: within budget, and RECOVERED only for the execution that was
  verified. `DeniedNotRepeated` (whatever the overrides, unless one maps
  PERMISSION_FAILURE itself to RETRY or REPLAN), `RecoveryReturns` (liveness).
* `ReturnAccounts`: what a run hands back agrees with the durable records, and
  only a deregistered agent strands a record. `SettledNotRerun`, `TeamEnds`
  (liveness).
* `BusSafe` [`DeliveredOnce`]: no agent gets a message twice, hops and ttl agree, inboxes
  keep their bound.

`proactive`
* `JobsSafe` (dependencies succeeded, retries bounded), `DispatchSafe` (nothing
  withdrawn or succeeded is dispatched again), `JobsSettle` (liveness).
* `MemorySafe` [`VerifiedMatches`, `ConsolidationKeeps`].
* `LearningSafe` [`RolledBackGone`, `KillHolds`]: the memory that a rolled-back row
  names is gone, and whatever a proposal adopted once was adopted as; once `kill`
  returned no approval gets past the governor, and a persisted kill outlives
  restarts.

`storage`
* `TransactionsSafe`: BEGIN, COMMIT and ROLLBACK stay paired, and a block that no
  other thread overlaps is atomic.
* `AuditSafe` [`ChainIntact`, `NothingElseLost`]: while no rotation deletes, the chain
  verifies unless a crash or a recorder met the deletions or a tail was misread;
  every record is in the table or in a file unless it came between an export and
  the listing of the rows to delete, or its only file was opened again.
* `McpSafe`: no session or tool outlives its revision. `GivenUpNotStarted`,
  `StoppedEnds` (liveness).

`cloud`
* `SyncSafe`: nothing forbidden leaves, and what is acknowledged was stored.
  `ConflictExplicit`, `DevicesConverge` (liveness).
* `PresenceSafe` [`AvailableIsFresh`]: available only within the lease of a real heartbeat.
* `OffloadSafe` [`PrivateStaysLocal`, `SettledTruthful`]: once nobody is in a call, a
  cancelled job is at work nowhere, and a succeeded one was completed and has its
  result, unless a poll after the completion timed it out.

For each property there is a mutant (an operator named `Mutant...` placed before
the definition it replaces) that changes the code's behaviour the way a plausible
bug would, and which TLC finds to violate the property.

Runs that show a disagreement between the code and its documentation:

* `toolrunner_duplicate`: two calls for one action both pass `ledger.get` before
  either begins a row; `begin` does not refuse, and both handlers start.
  `docs/EXECUTION_MODEL.md:40` says the ledger prevents duplicate side effects.
* `database_rollback`: a block that raised, but had joined another thread's
  transaction, is committed by that thread. `sqlite.py:185` says "exception
  rolls everything back".
* `lifecycle_resumed`: a resumed task has no token, so an acknowledged
  cancellation does not stop its tools (`docs/EXECUTION_MODEL.md:64`).
* `events_poll`: a consumer polls an event that its transaction then rolls back;
  the sequence number is used again and the consumer misses the event that gets
  it. `core/events/bus.py:131` says polling never misses entries.
* `audit_rotation`: a record made between the export and the second listing of
  `rotate` is deleted without having been exported (`security/audit.py:6`).

Seen while modelling, and stated as conditions of the properties rather than as
runs:

* A ledger row that `begin` writes inside another thread's transaction goes when
  that is rolled back or cut off by a crash, and after the restart the action is
  started again; `docs/EXECUTION_MODEL.md:40` says "across retries/restarts" (the
  actions in `lost`, `ToolRunner`).
* A policy that overrides PERMISSION_FAILURE to RETRY or REPLAN executes again what
  was denied; `recovery/policy.py:5` says "never retried under any policy"
  (`DenialRespected`).
* Two operators who approve one proposal at once, or a second approval after a
  crash before the row was written, adopt it twice; the row names one of the two
  memories and the rollback leaves the other. `learning/cycle.py:4` says every arrow
  is reversible (`AdoptedOnce`).
* An approval that had passed `may_adopt` adopts after `kill` returned;
  `learning/safety.py:153` says "no further adoptions, immediately" (`KillHolds`
  speaks of approvals that had not passed).
* A record made while `rotate` deletes links to a row that is gone, and the chain
  does not verify although nothing crashed; `security/audit.py:120` says "live data
  never has legal gaps". After a restart the tail is the row with the last stamp,
  and with equal stamps, or a clock set back, the next record forks the chain;
  `security/audit.py:87` says the tail is not derived from that ordering (`broken`).
* `halting` starts as False in every `execute_graph`, so a graph restored with a
  FAILED step starts what is ready before its first collection, under FAIL_FAST
  too (`executor.py:125`).
* A cancel request that is answered while the worker is in `_aware` or
  `_research_phase` does not stop their tools, nor a tool call that has had its
  last look at the token.
* A task whose worker cannot build its agent (`serve.py:454`, `serve.py:500`) keeps
  its state and gets no result.
* A rotation to a path used before empties that file; after a crash that cut the
  deletions short it may hold the only copy of rows (`audit.py:173`).
* The backend's `status` turns COMPLETED into TIMED_OUT after enough polls
  (`external.py:125`): a poll by another caller before the result is fetched leaves
  a job SUCCEEDED without a result.
* A cancel request whose check and write straddle the worker's last transition
  overwrites a terminal state, and may write back a context without the plan
  just saved (the `cancels = 0` conditions in `TaskLifecycle`).
* With a recovery planner configured, a task may be COMPLETED by the first
  execution's status and a later execution's verification
  (`single_agent.py:442`); `serve.py` configures none, and `tasks` has
  `HasPlanner = FALSE`.
* The unlocked sweep of `await_approval` can replace a decision by EXPIRED
  (`approvals.py:27` speaks of atomic decisions). It never turns a refusal into
  consent, which is part of `EffectSafe`.
* With a ledger, a retry or a resume that reaches a tool that already ran is
  always refused.
* `cancel` during a `tick` is overwritten by the ticker's copy;
  `resume_interrupted` queues a job again whatever its attempts, so the retry
  bound holds without crashes only; dependents of a failed job stay QUEUED.
* `max_replans` does not bind a policy override; the attempt budget does.
* Between `list_versions` and `push` another device's update is lost silently;
  `resolve(keep="remote")` only acknowledges, so the next run pushes the local
  object over the kept remote one; a pull acknowledges the version listed, not
  the one that came, and drops the payload.
* `mark_unsatisfiable` and `_drain_stuck` both give SKIPPED, the latter also to
  steps none of whose dependencies failed; `restore` marks as interrupted only
  steps that were persisted as RUNNING.
* An agent deregistered during `run_task` may be put back by `set_status`, and
  its record stays RUNNING; `run_goal` raises `KeyError` after a cancelled
  `run_all` and loses the results it had; `Coordination.verified` is keyed by
  agent, so of two subtasks of one agent only the last verdict is kept.
* An update that races a deletion stores the memory again. A crash in a rotation
  leaves a chain that does not verify until the next rotation.
* A stale row written back as OFFLINE hides a live device until its next heartbeat;
  `PresenceSafe` is about the other direction.
* Rolling back an adopted preference removes its workflow but does not bring back
  the profile the adoption replaced. After the newest version of a skill is
  disabled, `new_version` reuses its number.
* Two first heartbeats of a device create two rows. Two concurrent `mark` calls
  on a job may overwrite a terminal row.
* A failing `_persist` in `enable` leaves the server shown as "connecting".
* Two concurrent `set_model_settings` may leave two providers registered; the
  model has one switching thread.
* A breaker whose probe raises `CircuitOpenError` keeps the probe marked as in
  flight and rejects every later call (`core/circuit.py`, not modelled).

## 5. What is proved

Every theorem holds for all values of the constants that satisfy the named
assumption of the component's module (`ExecutorAssumption`,
`ToolRunnerAssumption`, ...). The assumptions say that bounds are numbers, that
sets are finite where they are counted, and that a value used for "none" is not
one of the real ones; the code's own limits are at least as strict.

| component | theorem | states |
| --- | --- | --- |
| `Executor` | `TypeCorrect`, `DependenciesFirst`, `PoolBounded`, `SettledOnReturn`, `HaltsOnFailure`, `SuccessIsFinal`, `AbandonedThreadsStop` | the invariants and action properties of the run `executor` |
| | `Refinement` | `Spec => ImplementsPlanRun` |
| `Planning` | `PlanningIsSafe` | `PlanningSafe` |
| `ToolRunner` | `EffectsUnderControl`, `LedgerIsTruthful`, `NotReplayed` | `EffectSafe`, `LedgerTruthful`, `NoReplayAfterRestart` |
| `TaskLifecycle` | `CrashIsSafe`, `CancelIsEffective` | `CrashSafe`, `CancelStopsTools` |
| | `ResultIsTruthful`, `OutcomeIsTruthful` | `ResultTruthful`; `OutcomeTruthful` when no recovery planner is configured |
| `Events` | `EventsAreSafe` | `EventsSafe` |
| `Models` | `RoutingIsSafe` | `RoutingSafe` |
| `Skills` | `SkillsAreSafe` | `SkillsSafe` |
| `Recovery` | `RecoveryIsSafe`, `DenialIsFinal` | `RecoverySafe`, `DeniedNotRepeated` |
| `MessageBus` | `BusIsSafe` | `BusSafe` |
| `Agents` | `ReturnIsAccounted`, `SettledIsFinal` | `ReturnAccounts`, `SettledNotRerun` |
| `Scheduler` | `JobsAreSafe`, `DispatchIsSafe` | `JobsSafe`, `DispatchSafe` |
| `Memory` | `MemoriesAreSafe` | `MemorySafe` |
| `Learning` | `LearningIsSafe` | `LearningSafe` |
| `Database` | `TransactionsAreSafe` | `TransactionsSafe` |
| `Audit` | `AuditIsSafe` | `AuditSafe` |
| `Mcp` | `SessionsAreOwned`, `GivenUpIsNotStarted` | `McpSafe`, `GivenUpNotStarted` |
| `Sync` | `SyncIsSafe`, `ConflictsAreExplicit` | `SyncSafe`, `ConflictExplicit` |
| `Presence` | `PresenceIsSafe` | `PresenceSafe` |
| `Offload` | `OffloadIsSafe` | `OffloadSafe` |

None of these properties is inductive by itself. Each proof module states the
strengthening (`Inv`, `AgentsInv`, `MemoryInv`, ...), proves that the initial states
satisfy it and that each action preserves each part of it, one step per action,
and derives the properties. TLC found each strengthening to hold on the instance
of the component's run as well. What the strengthenings add is what the code relies on
silently:

**Executor.** A thread inside a tool has a tool left (`CallingHasTool`); the
steps in flight are exactly the RUNNING ones (`FlightIsRunning`), and only those
have a thread (`WorkInFlight`); what the snapshot calls SUCCEEDED the graph calls
SUCCEEDED while the process lives (`SavedSucceeded`), which ties a later
incarnation to an earlier one; once the coordinator leaves the loop every step is
terminal (`FinishSettled`); a process that is down has neither threads nor
futures (`DownIsIdle`); under FAIL_FAST a failure in the graph of a call that has collected something
implies `halting` (`FailureHalts`); the pool is not overfull (`PoolNotOverfull`), where
cardinalities enter. The pool bound needs one lemma about the ready steps chosen
by `Startable` (an initial segment of `Ready` in plan order), proved by
well-founded descent on step numbers. `Refinement` maps `Submit` to `Begin`,
whose width is the pool bound; the other steps of the coordinator, and a save, to
`Settle` or a stutter; the workers' steps to stutters; and a crash to `FallBack`,
where what is kept has to agree with what `Restore` will make of the snapshot.

**Planning.** While the ordering loop runs (`LoopInv`), the counter of a step is the
number of its mentions of steps not yet placed, so what is placed or waits is
exactly what has none, each step once, and what is placed comes after its
dependencies. When nothing waits, the placed steps are closed under "all
dependencies placed", and the lowest-ranked step outside them would contradict
any ranking (`ClosedIsAll`, the least-number principle); the other direction
reads a ranking off the ordering (`OrderingRanks`), by counting distinct ids.
Repeated mentions are why the counters are cardinalities of sets of positions
(`MentionsClosed`). `AnswerInv` says when a direct answer may be under way.

**ToolRunner.** An approval is the operator's consent to exactly the action that
its request names, and stays so through expiry and sweeps (`ApprovalInv`: a sweep
only writes over requests that exist, and a cleared call has the consent it
needs). A withdrawn call keeps its token until the process dies (`WithdrawInv`).
A call past the reservation has a row (`ReservedHasRow`), a call that took effect
in this incarnation is among the seen ids (`SeenBeforeEffect`), and what an
earlier incarnation started still has the row that stops every call for it
(`EarlierStopped`), each unless the row was lost with a foreign block; the rows such
a block would go back to are durable ones. The duplicate of `toolrunner_duplicate` is not contradicted:
`LedgerTruthful` is about one call, not about two calls for one action.

**TaskLifecycle.** Four parts. `WayAhead`: a worker in a transition knows where
it goes, and only `_complete` leads to COMPLETED. `ProvenInv`: without a planner
a COMPLETED row, or the intention to write one, has its proof. `TokenInv`: before
the first restart an acknowledged cancel request is visible to the worker. `QuietInv`: as long as
nobody cancels, the worker is the only writer, so that row, phase and path
determine each other and every transition asked for is legal. The last part is
conditional on `cancels = 0` because the condition is in `CrashSafe` (section 4
says what a cancel request may overwrite). `~HasPlanner` is an assumption of
`OutcomeIsTruthful` alone, for the reason given in section 4; `serve.py`
configures no planner. TLC checked this invariant with two cancel requests, with
and without a planner, on about a million states each.

**Events.** A number is given to one event, and what a thread published last is its
latest (`Numbered`); an event is stored once, and exactly when its publisher is
through with the log (`StoredOnceInOrder`), whether or not a rollback then takes
it back; one thread has the transaction, and rows are taken back to where it began
(`OneTransaction`); a failure that nothing started over is shown
(`FailureShown`). That the table stays within the numbers given out is a
pigeonhole argument.

**Models.** Each place of a switch says how far the two dictionaries are
(`SwitchStages`), a profile is that of the provider with its id (`OwnProfiles`), a
call holds only providers its request may be sent to (`RankedAllowed`), and a call
no switch has met scans the table it started with and finds every provider it
looked at (`ScanUndisturbed`). Privacy needs the second and third part whatever
switches do; that a request is refused only during a switch needs the others.

**Skills.** A proposal has one claim to a skill: a curator about to create it, or one
id, under which a row is stored or held by curators who read it (`StoredOnce`,
`ReadOnce`, `CreatedOnce`, `Undecided`); whoever read a row holds the version
that is stored and that everybody else read (`ReadsAgree`), so a late write,
even after a deletion, changes no version.

**Recovery.** The result in hand is of the last execution and has been paid for
(`ResultIsLast`), a verdict in hand is of the last execution too
(`VerdictIsCurrent`), and a denied execution is in hand until the engine returns
(`DeniedInHand`). The budget then follows from the attempts alone, whatever the
overrides.

**MessageBus.** What an agent has in its inbox or received is among the pairs the
bus has seen, with `ttl + hops` equal to the initial ttl (`AllRouted`), and no id
occurs twice in an inbox and the received messages together (`AllDistinct`): this
is where relays in circles end. It needs lemmas about what a relayed message keeps
and about the first message of an inbox that has not expired.

**Agents.** Where the caller is decides which subtasks are on record, taken up and
answered (`Submitting`, `Collecting`); a thread exists only while `run_all` or an
inline call waits for it, and its record is where the thread has brought it
(`ThreadsTracked`), which is what makes a settled record final: `run_task` has read
CREATED or READY and nobody else writes that record meanwhile. An answer agrees
with the record it came from (`GotRecorded`). An owner has a row unless it was
deregistered (`OwnersKnown`): this is the only way a thread raises and leaves its
record RUNNING. The bus does not occur in the argument: what is refused raises,
whatever the inboxes hold.

**Scheduler.** A tick's position determines its batch (`TickPlace`); SUCCEEDED
rows are recorded successes (`SuccessRecorded`); what was picked had its
dependencies succeed (`BatchReady`); a job that is over has a terminal row
whatever stale copy is written to it (`OverIsOver`); and until a crash loses
count every dispatch is paid for by an attempt, in the row or in the ticker's
copy (`AttemptsPaid`).

**Memory.** Rows, and the copies that clients are about to write back, claim to
be verified only for the content in their receipt (`RowsHonest`,
`ClientsHonest`); a client that archives sources has stored the merger, unless
somebody deleted it (`MergedFirst`).

**Learning.** A row in the store or in an operator's hands names the memory it was
adopted as, and no other (`RowsTraceable`, `OperatorsTraceable`); who is about to
file a rollback has undone the adoption (`UndoneBeforeFiled`); what a row or an
operator names is among what its proposal was adopted as (`AdoptedInv`), so that
of a proposal adopted once nothing is left behind a rolled-back row.

**Database.** A block that no other thread overlaps is the outermost one and all
its writes are pending (`AloneOwns`); once left, they are all durable or all gone
(`AloneLeft`); rows belong to the present block of a frame (`RowsCounted`).
`_tx_depth` is the number of active frames, so the proof counts finite sets.

**Audit.** Rows are in the order of their ids (`RowsInOrder`). While no rotation
deletes and nothing broke the chain (`Sound`), each row links to the one before it
(`ChainLinked`) and the tail, cached or held under the append lock, is the last
row's (`TailCurrent`). A rotation that nobody disturbs deletes all there is
(`DeletesAll`), which is why the chain is sound after it; what a rotation lists,
writes and deletes is in its file or came late (`RotationExported`). A lemma by
least counterexample turns the links into what `verify` walks. The theorem has no
assumption on who runs when; `audit_rotation` shows what one of its exceptions lets
happen.

**Mcp.** A session that runs or is about to is the manager's own unless it was
told to stop (`OwnedInv`); tools are offered only of the current revision and
while its connection is held (`OfferedInv`); a queue holds a call at most once,
and only one whose caller waits or let its deadline pass (`QueueInv`). Without the last part a call
given up could come back from the queue.

**Sync.** What is remote, and what a run listed, is part of the remote's past
(`RemoteInPast`, `ListedInPast`); a run looks at objects it was called with
(`TodoGiven`); and until it has looked at one, the listing is still true of it
unless somebody moved it (`UnmovedAsListed`), which is the hypothesis under which
conflicts are explicit.

**Presence.** Every row, in the table or about to be written back, is no fresher than
the last heartbeat of its device (`BackedAt`), however stale it is by then; so a row
within its lease is backed by a real heartbeat within the lease, whichever of two
rows `_find` meets.

**Offload.** A job is placed by one caller while no other drives it (`PlacedAlone`);
private work has no provider and ranks local ones only (`PrivateUnplaced`); only
the job's provider can have it at work (`OneAtWork`); a backend that completed can
only time out (`ReachedStays`), and what a caller knows of a finished one from a
poll is still true, or it has timed out (`DriverKnows`); so the status never claims
more than the backend reached (`StatusHonest`), whatever polls and cancellations
overtake each other.

Only model-checked, and why: liveness (`RunReturns`, `TaskSettles`, `TeamEnds`,
`RecoveryReturns`, `JobsSettle`, `StoppedEnds`, `DevicesConverge`). It needs
fairness and `ENABLED`, which are out of the prover's reach. Where the code sorts,
filters or walks a list, the models say what the result is (an increasing
sequence, an insertion, a closed set of rows) instead of computing it by
recursion, so that the proofs need least counterexamples and no induction over
data. The five runs that expect a violation are counterexamples and have no
theorem.

The type invariant of `Executor` is proved and therefore in no run.

## 6. Not modelled, and why

* Contents of prompts, plans, results and memories: the properties do not
  depend on them; the environment chooses outcomes.
* Policy rules, argument validation, redaction, sandbox confinement: refusals
  that may occur at the place where the code asks for them.
* SQLite's own failures (a failing COMMIT leaves the connection in a transaction
  with depth 0), disk and network formats.
* Durability on the shared connection, other than in `Database`, `TaskLifecycle`,
  `Events` and the ledger rows of `ToolRunner`: the other models take a repository
  call as durable once it is made, although it too may join another thread's open
  block and go with it.
* A handler thread that outlives its timeout.
* Two rotations of the audit log at once, which the code does not exclude.
* `EventAdapter.ingest` tests and sets the shown state without a lock; in `Events` it
  is one step. The kinds that meet in such a test are all emitted by the thread
  that drives the task, so the gap is not visible for one task.
* In `TaskLifecycle` the BEGIN, the read and the check of `transition` are one step;
  a refusal, whose ROLLBACK has nothing to take back, changes no row.
* An exception other than `RoutingError` that leaves `tick` (`scheduler.py:175`), and
  a skill proposal filed again under an id that was decided (`registry.py:344`).
* A full dispatcher queue during the restart loop (`serve.py:507`), which leaves
  the task unsettled until the next start: the lifecycle model has one task.
* Verifier, research and local tools are I/O and text; the monitor reads the
  operating system; workspace, gateway, voice, phone and hardware are user
  interface and device I/O; benchmarks drive the other parts.
* `CircuitBreaker` and `ProactiveEngine` have no user in the package.
* The offline request buffer (`cloud/offline.py`), dataset checks of
  `cloud/external.py`, drift signals of `learning/safety.py`, ranking and
  template filling anywhere.

## 7. Plan

1. Done: all parts above with status modelled or partly; the proofs of section 5,
   which cover every invariant and every action property of the passing runs.
2. An abstract at-most-once action that `ToolRunner` refines for sequential
   callers, and an abstract task (created, running, one of three ends) that
   `TaskLifecycle` refines while nobody cancels. `QuietInv` is most of what the
   second one needs.
3. Several tasks on the dispatcher's bounded queue, and `offline.py`'s buffer.
