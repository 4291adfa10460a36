# Formal model of Ambient Agent

Ambient Agent is a Python backend (`src/backend`) with a React frontend
(`src/frontend`) and a Widget runtime in JavaScript (`src/widget-runtime`).  A
user chats with an agent, has it change a graph database, and has it generate
small Apps ("Widgets").  Everything an agent or an App does for the user is a
*Run*: a durable row in SQLite that a scheduler claims, executes step by step,
suspends for questions, cancels, reviews and retries.  This directory holds TLA+
modules translated from that code, TLC configurations that check them, and
proofs checked by TLAPS.

## 1. Inventory

State, operations, interactions, hard behaviours and correctness, part by part.

| Part (source) | State it keeps | Operations and interactions | What is hard, and what correct means | Module |
| --- | --- | --- | --- | --- |
| **Durable Runs** (`run_service.py`) | tables `runs`, `run_steps`, `run_interactions`, `permission_grant_outbox`; the coordinator's tasks | create, claim, heartbeat, recover, begin and commit a step, wait, resolve, cancel, reconcile, retry | overlapping coordinators, leases that lapse under a live task, crashes between two transactions, cancellation racing every phase.  Sessions are FIFO, limits hold, late tasks leave no trace, manual work is not repeated, nothing stays open for ever | RunStore, SessionLane |
| **Agent workflow** (`agent/durable_workflow.py`) | the checkpoint of an Agent Run: phase, plan, contract, ledger, draft | one `_phase_*` per phase, `_failure` with compensation, `cleanup_state` | writes in threads that cancellation does not stop; compensation of several writes; publication in several stores | RunStore, GraphSaga, WidgetBuild |
| **Draft staging** (`coding_agent_acp.py`, `run_service.py`) | staging, live and backup directories, journals, cleanup tombstones in checkpoints | stage, promote by two renames, discard, startup recovery, reaper | crash between any two file operations; drafts shared by a failed Run and its retries; two processes cleaning up one draft | DraftCleanup, AppDirectory |
| **Graph store** (`graph_db.py`, `neo4j_graph_db.py`) | nodes, edges, schema, ledger of effects | atomic batches, schema proposals, guarded restoration | compensation on a graph or schema others have changed; idempotent replay | GraphSaga, WidgetBuild |
| **Graph subscriptions** (`graph_subscription.py`) | subscriptions of each socket with last results | register, unregister, `broadcast_updates` | subscriptions change while a broadcast awaits a send | GraphFeed |
| **Run event stream** (`run_events.py`, `run_live.py`, `services/runs.ts`, `runLive.ts`, `chatProjection.ts`) | event log with sequence and epoch; the client's cursor; bounded live queues; the projection of a chat | append, replay after a cursor, deduplicate, reset on a new epoch, drop oldest | gaps, duplicates, reconnects, a slow reader, three connections that are not ordered | EventStream, LiveLane |
| **Widget sessions** (`client_widget_runtime.py`, `widget_runtime.py`, `widget-runtime/`) | tickets, sessions, pending calls; the shared Chromium and its leases | issue, consume, call, locate, reconnect; launch, lease, close | single use, answers after a reconnection, closing under a session | WidgetHost, RuntimeBrowser |
| **Backend App processes** (`backend_manager.py`, `app_manager.py`) | MCP clients, approved permissions, App records | start, replace, stop, call, approve; read, edit, delete an App | cancellation in a start or stop, a lost process, deletion racing a promotion | BackendApps, AppDirectory |
| **Skills** (`skill_store.py`, `skill_manager.py`) | installed packages, registry revision, authorizations | install by compare-and-swap, authorize, revoke, pin, check before a model call | revocation and damage between a check and its use | Skills |
| **App store** (`app_store.py`) | registry of capabilities, launcher layout | normalise, arrange, register, generate a UI | stale clients, a stuck "generating" mark | Launcher |
| **Coding agents** (`coding_agent_acp.py`, `coding_agent_repair.py`, `coding_agent_runtime.py`) | one agent process per session; its evidence of file changes; sign-in | ACP session, permissions, repair loop, cleanup | permission for one change used for another, a staging directory that is still written to | CodingSession, ModelAccess |
| **Model access** (`llm_config.py`, `llm_discovery.py`, `coding_agent_runtime.py`) | connections, selection, login, installation | create, edit, delete, sync, discover, sign in and out | answers of a login or endpoint that is gone | ModelAccess |
| **Workspace files** (`workspace_storage.py`) and **chat sockets** (`main.py`) | conversation files, sockets | message, title, connect, delete | a deletion racing sockets and Runs; replies said twice | ChatSessions |
| **Remote workspace** (`remote_workspace.py`) | the grant, the runner, its tunnel | pair, approve, revoke, poll, serve | answers to requests made before the grant changed | RemoteGrant |
| **Mutation tickets** (`mutation_tickets.py`) | tickets with pin and expiry | issue, pin, commit, expire | see section 8 | - |
| **Schema and query tools** (`schema_*.py`, `ontology.py`, ...), **agent decisions** (`agent/router.py`, ...) | none | pure functions; prompts and parsing | data, not control; their outcomes are free choices of the models | - |

`PROJECT.json` lists the same parts with their status, and every hazard with
the line it bites at and the property that watches it.

## 2. Plan

Done, in this order: RunStore with its abstract specification SessionLane;
DraftCleanup; AppDirectory; GraphSaga; Launcher; Skills; RuntimeBrowser;
GraphFeed; WidgetHost; EventStream; LiveLane; BackendApps; ModelAccess;
CodingSession; WidgetBuild; ChatSessions; RemoteGrant.

The first two are checked by runs of their own, because their instances are
large and they need fairness.  The others share no variable with them or with
each other and are checked in two runs, `services` and `stores` (section 5).  What
they have in common they abstract: RunStore has a Run's row and lease, the other modules
only its phase or its end; DraftCleanup makes a promotion one step, AppDirectory
cuts it into renames; RunStore has one effect per Run, GraphSaga the batches,
their ledger and their undoing, WidgetBuild schema and App.

Left: those properties of the services that are only model-checked (section 6);
the canvas file and audit logs of a workspace; scenes and socket reconnection of
the frontend; the composition of AppDirectory with DraftCleanup as a refinement.

## 3. RunStore

### State and actions

`runs[r]` is the row of a Run with its open step attempts (`steps`, by lease
epoch), its pending interaction (`ask`: none, open, or stale when its
`run_version` no longer equals the row's version), the ledger of its checkpoint
(`ledger`: `effects_committed`, `graph_compensations`) and what its error says
of effects (`err`).  `seat` is `created_at`.  `fresh` is a lease that has not
lapsed.  `task[w][r]` is the asyncio task a coordinator holds for a Run: created
but not yet in a step, inside a step, or ended with its done callback still to
run; with its epoch, its external call and a cancellation delivered to it.
`worker[w]` is a coordinator incarnation (each start takes a new worker id).
`effects[r]` is a ghost: external effects of the Run that have been neither
compensated nor reviewed by an operator.

Each action is one SQLite transaction of the store with what its caller does up
to its next await.  `_scheduler_loop` runs recovery, grants and a claim in a row
without awaiting; they are separate actions because they are separate
transactions and another process's transaction may fall between any two.
Transactions are `BEGIN IMMEDIATE`, hence atomic.

| Action | Code |
| --- | --- |
| `Start`, `BeginShutdown`, `ReleaseWorker`, `Crash` | `ensure_started`, `shutdown`, `release_worker`, loss of the process |
| `Heartbeat`, `RecoverOrphaned`, `ClaimNext` | the two loops and `claim_next` |
| `LeaseExpires` | a lease passes its expiry unrenewed; or its owner was suspended |
| `RequirePermission`, `FailBeforeStep`, `BeginStep` | `_execute` up to `begin_step_attempt` |
| `CallAdapter`, `StartWrite`, `WriteReturns` | the effect of a step: an MCP or HTTP request, or a graph write in a thread |
| `CommitProgress`, `CommitSucceeded`, `AdapterFailed`, `AgentFailed` | the outcomes, through `commit_step` |
| `LoseLease`, `UnwindSilently`, `UnwindCancelled`, `Finished` | `StaleLeaseError`, `CancelledError`, `_finished` |
| `Submit`, `Cancel`, `Resolve`, `Reconcile`, `Retry` | user and operator commands |
| `ApplyGrant`, `CompleteGrant` | the two halves of `recover_permission_grants` |

Abstractions: a graph write is keyed by its Run, so a replay adds no second
effect (`effects' = 1`); a read or idempotent adapter call (`RestartSafe`) has no
effect worth counting; an operator's answer in `Reconcile` is true; retained
drafts are not here (they are DraftCleanup's); the transitions only tests use
(`transition`, `claim_specific`, `create_external_run`) are left out.

### Runs of TLC

| Run | Instance | Question |
| --- | --- | --- |
| `pair` | an Agent Run and a manual adapter Run of one chat, 2 incarnations, 1 mishap (crash, error before the step), fair | fencing, answers and approvals, work that must not be repeated, and liveness |
| `saga` | 2 Agent Runs of one chat, 2 incarnations, 1 mishap (crash or stall), 2 claims per Run before the workflow must end | graph writes in threads, a task fenced out by a later claim |
| `mixed` | 3 adapter Runs, one of them manual, 2 chats, 2 Apps approved earlier, limits 2 and 1, 1 crash | both limits, the refinement of SessionLane |
| `prestart` | 1 Run, the smallest instance that shows the disagreement | see Findings |

Bounds: `MaxMishaps` bounds crashes, stalls and pre-step errors together;
`MaxSteps` the claims after which a workflow stops continuing; the number of
Runs bounds submissions and retries, that of Workers restarts (a crash needs an
incarnation that can take over, so the bound never ends the system).  Two Runs
in one lane are what a lane property needs, a third in another lane is what the
limits need; one mishap puts a crash or an error between any two steps, and what
more of them could do is settled by the proofs, which bound nothing.  Deadlock
is checked in every run.  Coordinators are symmetric; so are the two Agent Runs
of `saga`.  No symmetry is used with liveness.

### Fairness (`FairSpec`)

A process manager restarts a stopped backend (`Start`), the loops tick every 0.5
and 10 seconds (`Heartbeat`, `RecoverOrphaned`, `ClaimNext`, `ApplyGrant`,
`CompleteGrant`), a task takes its next step (`Execute`: external calls have
timeouts), a lease nobody renews lapses (`LeaseExpires`), a shutdown ends
(`ReleaseWorker`).  All weak, because each stays possible until it happens.
Users owe nothing: `NoStarvation` excuses a queued Run while some Run waits for
an answer or a review.  A restart-safe adapter whose App is never available is
requeued whenever its lease lapses; in `pair` the bound on mishaps ends that.

### Findings

- `prestart` (`CancelledIsSettled`): cancelling a Run between its claim and its
  first step (in the trace the next step of a Run that continues) ends in `finalize_cancel_requested`, which looks only for an open
  step.  A retry or a continuation whose checkpoint records a committed effect
  becomes `cancelled`; `runs.md` and the comment above the line promise
  `needs_attention`.

Two more are described in section 7.  `ManualIsSafe` states what holds of
crashes and errors before the step, while no lease lapses under a live task: an
adapter that must not be repeated is called once, and a retry confirmed by an
operator does not repeat a call that was made.

### Proofs

`RunStore_proofs` holds three parts.  `TypeCorrect` goes by one lemma per group of
actions.

Of a session's Runs: the invariant `IInv` is the type invariant, a fact of each
row (`RowOK`: an open step belongs to the current epoch of an occupying row; an
interaction is open exactly when the row waits), seats no later than the
clock, `LaneFIFO`, and `GrantBeforeResume`.  Seats are needed because
`LaneAvailable` compares creation times; `RowOK` because recovery and
`commit_step` close only the steps and interactions they know of.  Lemma
`Steps` reduces every step to one of three: all rows `Move` (no row starts to
occupy, none leaves a terminal status), one claimable Run at the head of its
lane is served, or one Run is admitted behind all others.  `IInvStep` and
`LaneRefinement` then treat three cases instead of thirty actions.  `LaneFIFO` is no
property of a run: `LaneSpec`, which `mixed` checks, says it of the abstract lane.  Proved for
every number of Runs, coordinators, sessions and Apps and every limit, from
`RunStoreAssumption` only.

Of the limits, the outcomes and the work nobody can undo, on top of `IInv`:

- `ConcurrencyBoundHolds`.  `Bounded` adds to the property that only finitely
  many Runs occupy a slot: `Runs` may be infinite, and cardinalities mean
  something of finite sets only.  By `Steps` one case of three is left to argue,
  the claim, and there `HasRoom` is what `claim_next` counts.
- `OnlyLeaseholderPublishesHolds`, from the type invariant: every action that
  takes a Run from `running` to an outcome or a question is a step of its task
  under `Fenced`, recovery and cancellation are not.
- `ManualCalledOnceHolds`.  `AllOnce` says of each manual Run that at most one
  task is ever at work on it, that the task has a request out or none, and that
  nothing is outstanding in a Run that may be claimed again.  Most actions are
  `Calm` (they add no task, call or effect), which lemma `CalmKeepsOnce` settles
  once.
- `ManualIsSafeHolds`, for instances without `stall`.  `AllSafe` says that an
  outstanding effect shows in the row (an open step or an error of unknown
  effect) and that every task still has its lease.  The assumption is needed: a
  coordinator suspended for longer than its lease can call the adapter after an
  operator has reviewed the Run (section 7), and TLC shows it within 2 mishaps.

Only model-checked: `CancelSettles`, `RunningSettles`, `GrantsApplied` and
`NoStarvation`, since liveness is out of the prover's reach.

## 4. DraftCleanup

`DraftCleanup.tla` follows a Widget draft, a staging directory, from the agent
that generates it to its publication or its deletion.  The directory and the
row that names it cannot change together; the module is about what lies between.

### State and actions

| Variable | Code |
| --- | --- |
| `rows[r]` | `runs` row: `status`, `owner` (`lease_owner`), `step` (a running row of `run_steps`), `err` (`error_json`: `unknown`, `cleanup` = `staged_artifact_cleanup_failed`, `committed`), `from` (`retry_of`), and of the checkpoint `phase`, `draft` (`staged_app`), `tomb` (`staged_app_cleanup_pending`), `effect` (what `_state_has_unresolved_effect` finds) |
| `disk`, `fault` | each staging directory; what makes `rmtree` fail (`locked`) or `_validated_staging_handle` refuse it (`unsafe`) |
| `live` | `run_id` in `.ambient-promotion.json` of the live App |
| `proc`, `job` | backend processes; the cleanup one of them has in hand, between `recover_pending_staging_cleanup`'s read, deletion and second transaction |
| `task` | the asyncio task of a Run in a process, and the thread of `asyncio.to_thread(promote_coding_agent_staging)` |

| Action | Code |
| --- | --- |
| `Open`, `Tick`, `Discard`, `Settle`, `Recover` | `recover_pending_staging_cleanup` at opening and before `recover_orphaned`: read tombstones, delete one directory, write the outcome; then requeue, close or review orphans |
| `Reap` | `lifespan`: `retained_staging_paths`, `cleanup_orphaned_coding_agent_staging` |
| `RequestCancel`, `Mark`, `Resume` | `RunCoordinator.cancel`, `request_cancel`: work off an earlier tombstone, the marking transaction, the deletion it asked for |
| `Submit`, `Answer`, `Reconcile`, `Retry` | `create_run`, `resolve_interaction`, `reconcile_effect`, `retry` (with or without feedback) |
| `Claim`, `BeginStep`, `CommitGraph`, `Generate`, `Staged`, `Verify`, `Rework`, `Promote`, `Land`, `Publish`, `Fail` | the workflow of a claimed Run: stage_code, verify, wait_override, promote; `Land` is the thread, which goes on when its task is cancelled or fenced |
| `LoseLease`, `Unwind` | `StaleLeaseError`; `CancelledError` with `cleanup_state` and the commit of the outcome |
| `Crash`, `Obstruct`, `Repair` | a process dies, also between a deletion and its commit; a path becomes locked or unsafe; it is put right |

The handlers of a process are coroutines without an `await` inside a cleanup, so
a process with a `job` does nothing else; the promotion thread and other
processes run beside it.  All Runs share one session and one App, the case in
which drafts are shared.  Assumed of the operator: a reconciliation says the
truth and is given when no thread of the Run is left.  The two renames of a
promotion are one step, and so are the reaper's read of the retained paths and
its deletions; lease times are replaced by a lapse that may happen to a dead
process at any time and to a live one as the mishap `stall`.

### Runs of TLC

| Run | Instance | Question and result |
| --- | --- | --- |
| `draft_cleanup` | 2 Runs, 2 drafts, 2 processes one after the other, 2 mishaps of crash, lock, unsafe path | do crashes and failed deletions anywhere leave tombstones, drafts and publications consistent?  Yes |
| `draft_overlap` | 2 Runs, 1 draft, 2 processes at once that clean up, reap and cancel, 2 mishaps of crash and lock | is a published App ever passed over, a tombstone dropped early?  No |
| `draft_settle` | 2 Runs, 1 draft, 2 processes one after the other, 1 crash, lock or lapse of a lease under a live task, fair | is every tombstone worked off?  Yes, unless its directory resists |
| `draft_stuck` | 1 Run, 1 mishap | finding, below |

Bounds: a second Run is the retry of the first or another one that shares its
lane.  Two processes suffice for
each pairwise race, two mishaps for a crash during the recovery from another
fault.  `MaxMishaps` bounds crashes, stalls and faults; nothing else is bounded
but the sets.  Processes and directories are symmetric in the safety runs.

Fairness (`FairSpec`): a process manager starts a process when none runs; a job
in hand goes on, because it is straight-line code; the scheduler ticks under
strong fairness, because the event loop serves callbacks in the order in which
they become ready and a stream of requests cannot keep an expired timer waiting
for ever.  No fairness for users, operators, tasks or repairs.

### Findings

- `draft_stuck`: a Run whose staging handle could not be validated when it was
  cancelled never leaves `needs_attention`.  Reconciliation is refused as long
  as the error and the handle are in the row, the recovery looks only for
  tombstones, and another cancellation is refused too, also after the path has
  been repaired.

What the properties exclude, because the code does not promise it: with two
processes at once, `recover_orphaned` of one may close an owner-less
`cancel_requested` row over the tombstone whose directory the other is about to
delete, and a failed deletion then moves that row out of `cancelled`;
`TombstoneBlocksClosing` and `TerminalIsFinal` are therefore checked for one
process at a time, where `recover_orphaned` finds no tombstone left.
`RetryFindsDraft` and `PromotionUndisturbed` except a failed Run that is retried
twice: both retries then share one directory, and cancelling the one deletes the
draft of the other, also under the thread that promotes it.  A lease that lapses
under a live promotion has the same effect (section 7), on `RetryFindsDraft`
when another process takes the Run over, so that `PromotionUndisturbed`,
`RetryFindsDraft` and `CancelledIsNotPublished` are checked without `stall`.

### Proofs

`DraftCleanup_proofs`: `TypeCorrect` and `TombstoneHolds`, for any number of
Runs, processes, directories and mishaps, from `DraftCleanupAssumption` only.

`TombstoneOutlivesDraft` is not inductive, because `Settle` acts on what an
earlier `Discard` of the same process found, and any step of the other processes
may come between.  The invariant `IInv` closes that window with three facts:

- every directory named by a row, a task, an item of work or a hand has been
  used; so a deletion that succeeds leaves it gone, and not merely unused;
- a hand that reports success holds a directory that is gone.  It stays gone
  because `Generate` takes unused names only (the source draws them from
  `uuid4`), which is `Grows` on every step;
- a row has a tombstone only in `cancel_requested`, `needs_attention` or
  `cancelled`, statuses in which no worker claims it, so that no fenced outcome,
  claim or review replaces the row under a tombstone.

Each action is a lemma that establishes the parts `DiskStep`, `RowsStep`,
`TasksStep` and `JobsStep`, which `Assemble` puts together; `RowsStep` says both
that rows stay in order and that a tombstone changes only once its directory is
gone, so that `IInvStep` yields the invariant and the action property at once.

Its second part leads to one lemma, `Moves`: whatever the action, a row makes one
of eleven moves (it is admitted, answered, claimed, committed by its fenced task,
withdrawn, cleaned, recovered, ...), a task, a process, a cleanup job and the
live App one of a few each.  Thirty actions are looked at once; an invariant
over rows and tasks is afterwards preserved if every move preserves it.

Its third part draws the conclusions:

- `PublishedIsReviewedHolds`, without further assumption.  `Promoting`: as long
  as a Run may still be cancelled without a word, and its App is live or its
  promotion thread is out, its checkpoint is at the promotion and names the
  directory that thread moves.  That is how `request_cancel` finds the marker of
  the live App.
- `CancelledIsNotPublishedHolds`, without `stall`.  `ThreadHasTask`: a promotion
  thread belongs to a Run that occupies its slot, since neither recovery nor a
  cancellation settles a Run whose process lives.
- `TombstoneBlocksClosingHolds` and `TerminalIsFinalHolds`, for `MaxUp = 1`.
  `Solo`: one process is alive and only it has a job; a tombstone is on a Run
  without owner that is being cancelled or reviewed; and a job that cleans up
  before `recover_orphaned` still has every tombstone of a Run being cancelled
  on its list.  So recovery finds none to close over.

Both assumptions are needed: with `MaxUp = 2`, and with `stall`, TLC finds the
properties violated (above and section 7).

Its last part proves `PromotionUndisturbedHolds` and
`RetryFindsDraftHolds`, without `stall` but for any `MaxUp`, which is more than
the run of one process at a time shows.  A directory may be named by several
rows, so the invariant says who has a use for it:

- a directory that two Runs hold (as draft, tombstone, or where a task or a
  thread works) belongs to a failed Run that was retried and to its retry
  (`Sole`).  A Run takes up a directory from its own row, from the failed Run it
  retries, or from no one (`HoldsStep`).  Two Runs cannot take up the same unused
  one, because a session has one Run at its head and what queues is later
  (`OneHead`);
- whoever deletes a draft holds it and has not failed, or is the reaper, which
  spares what open Runs reference (`Deletion`, `DeleterHolds`); so with one retry
  nobody else deletes the draft of a Run that has not failed;
- a Run deletes the draft it needs only by publishing it (`NeededStays`), never
  under its own thread (`PromotedStays`): the thread is the Run's only one and
  works in the draft of its row (`OneThread`, `DirIsDraft`);
- a published Run that queues again is the next of its lane (`PublishedIsNext`),
  so the App is still its own when its promotion is recognised.

Only model-checked: `CleanupSettles`, since liveness is out of the prover's reach.

## 5. The services

`MCServices` instantiates ten modules and `MCStores` five (Launcher, Skills,
LiveLane, RemoteGrant, ModelAccess).  A behaviour picks one of them
(`component`) and is a behaviour of it; the variables it does not use are `None`.
`ServicesTypeOK` is the conjunction of the type invariants of MCServices, those of
LiveLane and ModelAccess are checked with their properties.  Each component has one
property, a conjunction of named parts where it says more than one thing, or two.  The
Runs of GraphSaga and the requests, accounts and connections of ModelAccess, whose
instances are the largest, are symmetric; no other component has them.
Deadlock is not checked: each component may run out of its bounds.  No fairness
is assumed here.

Every module follows one rule of granularity: code without an `await` is one
action (Python and JavaScript run one callback at a time), a transaction of
SQLite or of the graph is one action, and a thread, a process, a timer or a
peer acts between any two of them.  Bounds are constants with the comment
"bound:"; other constants are limits of the code.

### AppDirectory (`coding_agent_acp.py`, `app_manager.py`, `app_records.py`)

The live directory of an App, the drafts that promotions swap in by two renames
under a journal, the tombstones deletions rename it to, its record in SQLite,
data files written meanwhile, a crash between any two of these steps and the
recovery at startup.  An operation on a directory may fail: the second rename of
a promotion and the commit of a deletion then rename the App back, which may fail
as well (the code suppresses or only logs that; both failures have one cause and
count as one mishap).  `DirectoryIsWhole`: where there was a readable App there
is one unless it was deleted or that second rename has failed, too, and nothing
was published since; and no record outlives its directory, with the same exception.
`LastPublished`: the App in place is the one promoted last; it holds while
promotions of one App follow each other and at most one thing goes wrong
(`services`: 2 promotions, 2 deletions, 1 edit, 1 crash or failed operation).

The exception is a divergence (`SwapRestores`, section 7): when the App cannot be put
back, `_promote_staging_app` unlinks the journal all the same, and no startup finds
the backup again.

Run `app_overlap` lets two promotions overlap, which the code allows: after a
crash the recovery works off the journals one by one in directory order and puts
an older version over the newer one (finding).  With `MaxMishaps = 2` the same
happens without an overlap: the first promotion cannot delete its backup, which
leaves backup and journal behind (`_promote_staging_app` only logs that), the
second one crashes between its renames, and startup restores the first one's
older backup before it reaches the second one's journal.

`AppDirectory_proofs` proves `DirectoryIsWhole`, with its exception, for any number
of promotions, overlapping or not, of deletions, edits and mishaps, where the two names a
directory without code has are no promotion's.  The property speaks of settled
states; the invariant `IInv` says what holds between two steps: which files a step
under way has (`HasFiles`), that only a write in the middle of a swap makes a
directory without code (`NoHusk`), and, for an App that ought to be there and is
not, where it will come from (`Sourced`): a thread between its renames, a backup
with its journal, or the tombstone of an App with a record.

`LastPublished` is proved where promotions follow each other and at most one thing
goes wrong, any number of promotions and deletions otherwise; the run above shows
that the first assumption is needed, the paragraph before this one that the second
is.  `OInv` adds whose code is where: the published one is in place, or in the
backup of the only promotion under way, or after a crash in the one backup with a
journal.

### GraphSaga (`durable_workflow.py`, `graph_db.py`, `neo4j_graph_db.py`)

A Run commits batches of graph actions one after the other, each with its
before- and after-image and a ledger entry; when it fails they are undone in
reverse, each only if the graph still is as the batch left it.  A value stands
for the batch that wrote it.  `UndoIsExact`: undoing overwrites only what the
Run itself wrote, restores all it touched, and a replay writes no batch twice.  It
also says when an undo may be refused (`ConflictHasCause`): only because a batch that
is not on the saga's list (of another Run, of an earlier attempt, or one whose
checkpoint a crash has lost) was committed on the same nodes or edges.  The batches
of one saga, undone in reverse and perhaps repeatedly, never stand in each other's
way.

Instance: 2 Runs, one of which is retried, 2 nodes and the edge between them, 5 plans
of one or two batches that create, update and delete nodes with and without edges, so
that the second batch needs or deletes what the first one made, and 1 crash.

### WidgetBuild (`durable_workflow.py`, `graph_db.py`)

Runs of several chats plan an App, have its schema extension approved, stage and
verify code, extend the ontology and put the App live; the two writer threads of
publication go on when their task is cancelled.  A contract is the set of fields
it names.  `BuildIsWhole`: a live App uses only what its user approved last, and
the Run that put it there is not reported as failed or cancelled, nor is its
schema gone unless that Run is in review; and no restoration takes a field away
from records that have it.  Instance: 2 chats, one of which asks for two Apps in one request, 2 fields, 1
mishap.

`Services_proofs` proves it for any number of chats, fields, crashes, retries and
cancellations, given that `None` is not the name of a writer stage.  A builder's
step leaves what the others agree on alone, since an attempt writes under its own
key (`OneMoves`); what is left is one builder, its thread and its contract.
`Sane`: what may still be published was verified against the contract agreed last,
and a thread that writes has a Run in `promote`, active or in review.  `Covered`:
the thread that moves the App has its schema in the ledger, under its key and for
its proposal.  `Shown`: until the Run has noted its App (`committed`), the draft is
gone and the Run stays in `promote` or goes to review, so the only way on is to
find the App live and its commit done.  Without the last part the invariant is not
inductive: a crash between the move and the Run's note could lead to a second
commit that is refused, and a live App would count as failed.

Run `schema_shared` checks `CommittedStays`: restoring the schema of one Run
removes fields that another committed alike, because the fingerprint of the row
is the same (finding).

### Launcher (`app_store.py`, `main.py`, `AppCenter.tsx`)

Registry, catalog, the layout that several windows arrange with stale views, and
the generation of an App for a capability.  `ShelfIsTrue`: whatever is saved,
the layout is acceptable to its own validation and shows every installed item once; a capability is shown as being
generated only while a Run works on it.  Instance: an App, a capability, a folder,
2 windows, 2 layouts.

### Skills (`skill_store.py`, `skill_manager.py`, `skill_market.py`)

Installation, authorization bound to a package's bytes, policy, sources,
damage on disk; a Run pins what it selected and reads it twice before each model
call, while routes in a thread pool act in between.  `PassesWithConsent`: an
external Skill passes that check only with bytes and policy which a user granted
and nothing has withdrawn.  It speaks of consent only; that a disabled Skill or a
damaged package does not pass is a guard of the check, not a property.  It is proved in Skills_proofs for any Skills,
packages, windows and Runs and any bound on the revision, from the
invariant that consent covers every authorized row and that only a Run which is
checking has pins left to check: the second read is what connects the two.
Instance: a bundled and an external Skill, 2 packages, a window with and one
without expected revision, 3 revisions.

### RuntimeBrowser (`widget-runtime/runtime.mjs`)

One Chromium, launched on demand, leased by sessions, closed when idle, lost,
closed by a signal.  `BrowserIsShared`: it is not closed under a lease, there is
never a second one, and a runtime that was told to stop leaves none it could
have closed.  Instance: 2 sockets, 2 launches.

`Sessions_proofs` proves it for any number of sockets, contexts and
launches.  `Counts`: the lease counter is the number of sessions between
`acquire` and `release`, so that the truncation at zero never bites and the idle
timer finds a leased browser in use.  `One`: a process that runs is the browser,
the one being closed or one that could not be closed; a launch under way has
neither of the first two; a failed close ends the service.  `Joined` and `Told`:
nobody waits for a launch that is over, and the stages of the shutdown are in
order, so the last one finds the browser that a late launch brought up.

### WidgetHost (`client_widget_runtime.py`, `main.py`, `IsolatedSandboxWidget.tsx`)

Tickets, the handshake, calls as keyed Runs, the device's location, time limits,
disconnection and remounting.  `AnsweredForAsker`: a frame hears only of the Run
its own call made and of a position measured for it, although a remounted frame
counts its calls anew and devices answer late.  Instance: a window, 2 mounts, 2
calls, 1 ticket and 1 session at a time, one update of the App.

`Sessions_proofs` proves it for any number of mounts and calls.  What a message
says is true when it is sent and stays on the wire as it is (`Sound`): the answer
of a device carries no position but that of the request it names.  `Served`: a
position is taken only while its request is the one waited for, which is what
keeps a late answer from the next request.  `Keyed`: the idempotency key under
which a Run is found again names the call that made it.

### GraphFeed (`graph_subscription.py`, `main.py`, `controller_facade.mjs`)

Subscriptions, commits, and broadcasts that are suspended at every send.
`NeverBackwards`: no subscriber is shown an older result after a newer one,
although overlapping broadcasts take the send lock in turn.  Instance: one
Widget, one subscription, 2 commands, 2 commits.

`Services_proofs` proves it for any number of them.  The lock keeps the messages
of a target in the order in which their results were computed (`Rising`): of one
query they never fall, the first is at least as new as what is shown, and the
last at most as new as the graph.  What a target waits for is of its own
subscriptions, so a delivery to one disturbs no other.

### EventStream and LiveLane (`run_service.py`, `run_live.py`, `services/runs.ts`, `services/runLive.ts`, `chatProjection.ts`)

EventStream: `run_events` with purges and new databases, the socket endpoint
that reads in batches, the cursor, reconnection and reload of the browser.
`NothingSkipped`: a chat on display misses no event behind its cursor.  LiveLane:
the ephemeral deltas with a bounded queue that drops the oldest, and the
projection in which they meet durable events and snapshots.  Left out of it: the cut
of a text to its last 12,000 characters, and the event that carries the reply
(`chatProjection.ts:564`), which may end a stream before the commit of its step.
`LiveTextIsTrue`: a
text not marked as having a gap is what was said, and nothing of a committed
attempt is shown live or comes back.  Instances: 2 Runs, 2 events, 2 databases,
batches of 1, 1 retry; a queue of 1, 2 attempts of 2 chunks, 3 events.

`EventStream_proofs` proves `NothingSkipped` for any number of Runs, events,
databases, reconnections and loads, and any batch and window of at least one
event.  A chat loses an event if the cursor passes it, so the invariant `SInv`
follows a row from the store to the view: what an open loop has not read yet lies
behind its position, what it has read is in the frames under way, in order
(`Following`), and what the client takes for known was shown or precedes what the
view was loaded with (`Heard`).  Two lemmas say what `ORDER BY ... LIMIT` returns
(`RankIsBijection`, `OrderIsRight`): a batch is the first rows after the position,
none left out.

### BackendApps (`backend_manager.py`)

The process of an App: start under the spawn lock, replacement by a new
revision, stop, loss, cancellation at every await, calls with their time limit.
`CallsAreServed`: two processes of one App never serve at once, and whoever
waits is known to a client whose reader works.  Instance: 2 tasks, a stopper, 2
revisions, 2 clients, 1 cancellation each.

`BackendApps_proofs` proves it for any number of tasks, stoppers, revisions,
clients and cancellations, with names that are distinct.  The invariant `BInv`
says who holds the spawn lock at which step and what he found (`Locked`), that
clients are numbered as they are made (`Numbered`), and that a process that runs
is the registered client's or the one a task is initializing under the lock
(`Accounted`); two of the latter would be two holders.

### CodingSession (`coding_agent_acp.py`, `coding_agent_repair.py`)

One session of a coding agent: reports of changes, permissions, writes,
terminals, repairs, the end of the process, and what becomes of the staging
directory, also when the Run is cancelled repeatedly and continued on the same
draft.  `GrantCoversReport`: a new permission covers everything the agent showed
under that tool call, one change at most, and all of it was true of the files.
`QuietStaging`: the directory is removed, promoted or handed on only when the agent
is gone.  Instance: 2 tool calls of which one is remembered at a time, 1
file, 1 text, 4 messages (two reports, a change of the file and a request), 1
repair, 2 cancellations, 2 sessions, with and without patches and promotion.

### ModelAccess (`llm_config.py`, `llm_discovery.py`, `coding_agent_runtime.py`)

Connections, sign-in and installation of the managed Codex, and requests whose
answers arrive after the login or the connection changed.  `ModelsAreCurrent` has
three parts: what a request adds to a connection to Codex was listed under the login
that is there now (`CodexCatalogIsCurrent`); what it adds to another connection was
read from the endpoint that connection has now (`EndpointCatalogIsCurrent`); no sync
brings back a connection deleted under it (`SyncRespectsDeletion`).  A fault of its
own breaks each part.  Instance: 2 accounts, 2 connections, 2 endpoints, 3 requests
(to sync, discover, sign in or out, or install) of which 2 at a time, so that a sync
or discovery waits while one signs out and in again, 1 login, 2 edits.

### ChatSessions (`workspace_storage.py`, `main.py`, `run_service.py`)

The file of a conversation, the handlers of its sockets with their awaits, its
Runs, and DELETE, which refuses, marks, closes sockets and purges.
`ConversationIsWhole`: ids tell messages apart and a Run says one thing even if
its step replays; a conversation with a Run under way is there with its message;
no socket is registered for a conversation that is gone.  Instance: 2 sockets, 2
messages, 1 crash, 1 DELETE.  `StaysDeleted` is stated and does not hold
(section 7).

`Sessions_proofs` proves it for any number of sockets, messages, crashes and
deletions, given that `None` is not itself a file.  `FileIsOrdered`: equal ids, or
two answers of one Run, are one message, and one id is the highest, so what is
saved replaces one message at most (`SavedIs`).  `Awaits` and `Waits`: while a
message awaits its acknowledgement no Run has its text, no other handler holds it
and, unless a deleted file was written again, its id still finds it; so the second
save replaces no other message.  A conversation that is marked as deleting has no
registered socket, so none is left when its file goes.

### RemoteGrant (`remote_workspace.py`)

The grant under which a workspace is reached from the cloud: pairing, approval
and revocation under one lock, and the runner that polls and serves beside them.
A request takes the Gateway's state when it is sent and its answer arrives later
or never.  `GrantIsHonoured`: what is served was confirmed by the user; a revoked
credential is not used again; an approval is not undone by an answer about the
claim; and while one runner is at work a credential is dropped for its own end
only.  Instance: 2 pairings, 2 claims, 2 runners, 1 restart.

### Why the instances are enough

Most hazards of these modules are a race of two: two requests, a request and a
crash, a command and a late answer.  Every instance has both sides of the race its
property is about, and where a hazard takes a sequence its bounds are the length of
that sequence: two batches and a retry in GraphSaga, four messages in CodingSession,
three requests and two edits in ModelAccess, two windows in Launcher.  They are not
larger than that: one crash, one login, one file, two edits.  What more of them
could do is settled only for the modules with a proof.  For each property a fault
put into one definition makes TLC find it violated in that very instance.

## 6. What is proved and what is only model-checked

Proved for every value of the constants, from the modules' assumptions only: of
RunStore `TypeOK`, `LaneFIFO`, `StepsFenced`, `WaitingIsAnswerable`,
`GrantBeforeResume`, `ConcurrencyBound`, `OnlyLeaseholderPublishes`,
`ManualCalledOnce`, `TerminalIsFinal` and the refinement `LaneSpec`; of
DraftCleanup `TypeOK`, `TombstoneOutlivesDraft` and `PublishedIsReviewed`; of
Skills `PassesWithConsent`, where the theorem assumes that `None` is not itself a
row; of the services `DirectoryIsWhole` (which excepts an App that could not be put
back after a failed rename), `BrowserIsShared`, `AnsweredForAsker`,
`ConversationIsWhole` (where `None` is not a file), `BuildIsWhole` (where `None` is
not a writer stage), `NothingSkipped`, `CallsAreServed` and the action property
`NeverBackwards`.  The runs check the properties of the services in `MCServices`,
whose behaviours pick one component; `Sessions_proofs` proves `BrowserIsShared`,
`AnsweredForAsker` and `ConversationIsWhole` over their variables, and
`Services_proofs` `BuildIsWhole` and `NeverBackwards`.
`Services_proofs` also carries the other theorems over to them: it instantiates
the proof modules on the variables of `MCServices` and shows, action by action,
that the component there is the one proved about.

Proved under an assumption that TLC shows to be needed: `ManualIsSafe`,
`CancelledIsNotPublished`, `PromotionUndisturbed` and `RetryFindsDraft` while no
lease lapses under a live process; `TombstoneBlocksClosing` and `TerminalIsFinal`
of DraftCleanup with one process alive at a time; `LastPublished` of AppDirectory
with one promotion at a time and at most one mishap, with the same exception as
`DirectoryIsWhole`.

Only model-checked: `ServicesTypeOK`, `GrantCoversReport`, `QuietStaging`,
`GrantIsHonoured` and `ModelsAreCurrent`, for which no proof was written;
`UndoIsExact`, `ShelfIsTrue` and `LiveTextIsTrue`, which depend on folds over
sequences, so that a proof needs induction over data; and the liveness properties
`CancelSettles`, `RunningSettles`, `GrantsApplied`, `NoStarvation` and
`CleanupSettles`.  Neither induction over data nor liveness is in the prover's reach.

## 7. Known divergences

What the code does against its documents, met while modelling.  The first four
are findings with a run.  For the others no run is kept: most are one reading of
the model away, and a property that states the promise is in the module where
that is said.

- `prestart`, `draft_stuck`, `app_overlap`, `schema_shared`: sections 3 to 5.
- RunStore: the marker of a graph write in flight is in memory only.  After a
  crash the Run is requeued without it, and cancelling it there reports
  `cancelled` with the write in the graph (`durable_workflow.py:1503`).
- RunStore: a task whose lease lapsed while it awaited its runtime calls the
  adapter after an operator confirmed that nothing was committed; the retry that
  this allows repeats the effect (`run_service.py:2927`).
- DraftCleanup: the marker of a promotion in flight is in memory only, too.  When
  the lease lapses under it the requeued Run can be cancelled, and its draft is
  deleted under the thread that publishes it.
- AppDirectory, `SwapRestores`: when the second rename of a promotion fails and so
  does the one that is to put the old App back, the exception of the latter is
  suppressed and the journal unlinked all the same (`coding_agent_acp.py:982`).  The
  App then exists only in a hidden backup directory that no startup looks for,
  against the docstring at line 959 ("restoring the old App if the swap fails") and
  `runs.md:39`.  TLC violates it in the instance of `services` within four steps:
  stage, write the journal, first rename, failed second one.
- GraphSaga, `SucceededIsWhole`: a saga is undone half way and meets a conflict.  Its
  review empties `graph_compensations` (`run_service.py:2458`) but keeps the phase,
  index and results, with which a retry goes on and succeeds with results of batches
  that were undone; the comment at `durable_workflow.py:1053` says what must not
  happen.  A crash between an undo and its checkpoint has the same effect.  TLC
  violates it in the instance of `services`.
- WidgetBuild: the second App of one request uses the schema key of the first
  (`durable_workflow.py:2569`): a different proposal fails in review, an equal
  one whose promotion fails restores the first App's schema.  A plan whose
  refinement failed cannot be retried.  A Run cancelled after a crash between
  schema and promotion leaves its schema extension.
- ChatSessions, `StaysDeleted`: a DELETE that completes while a handler awaits
  its acknowledgement (`main.py:2793`), or before a title is updated, is undone
  by the handler, against the comment at `main.py:2707`.  Of two DELETEs at once
  the second's `finally` clears the mark of the first; a refused one has already
  closed the sockets.  The cached reply of a replayed `_phase_converse` is never
  found, because the user's message of the Run comes first.
- RemoteGrant, `EndedStays`: `approve` saves the state it captured, so a grant
  that the runner has meanwhile ended is paired again until the next poll
  (`remote_workspace.py:593`; `docs/en/architecture/remote-workspace.md` says
  that an answer first rechecks the state version).  `ExpiredIsCleared`: a grant
  that expires while a poll is in flight leaves its credential on disk.
  `OneRunner`: a runner that is closing a tunnel after "revoked" is no longer
  known, a pairing then starts a second one, and both serve.  A cancellation
  delivered while a session is being closed is swallowed, so `stop` waits for the
  runner's pause.
- GraphFeed: a rollback's broadcast calls `send_json` on a Widget's binding,
  which has none, after the result was recorded as sent: that Widget stays behind
  (`graph_subscription.py:18`, `main.py:3232`).  Commits of Agent Runs are not
  broadcast.  A subscription removed during a send is written back to
  `last_results`.
- EventStream: a backup restored under the same epoch and overtaken by new
  events goes unnoticed; after 2048 seen events a reset repeats listener calls.
  LiveLane: an answer to list or cancel applied after a later event overwrites
  the status of a card (`App.tsx:833`, `docs/en/architecture/chat-run-ux.md:14`).
- CodingSession: terminals of the agent run in process groups of their own, which
  nothing ends with the session (`docs/en/integrations/permissions.md:31`).  A
  third cancellation during the cleanup leaves the agent signalled but not waited
  for, and the directory in place.  An evicted id forgets that it was misused.
- ModelAccess: a logout drops the session of a login started meanwhile;
  `test_provider` writes "verified" to a connection edited meanwhile; secrets and
  configuration are two files written one after the other.
- BackendApps: a cancellation while a failed start is being stopped drops a
  client whose process was only signalled.  A reader that blocks on a full pipe
  leaves the client reported as healthy.
- Launcher: a folder of one item survives until the next save; edits accepted
  while a draft is generated are lost at its promotion.  AppDirectory: a deleted
  App comes back after a crash that left its backup and journal.
- A rollback of graph updates or node deletions always fails (`main.py:3202`).

## 8. Not modelled

- **Mutation tickets**: a manager is made per message and its tickets are
  consumed within it, so its memory and soft expiry are never reached.
- **Schema and query tools, agent decisions**: pure functions and prompts; the
  models take every outcome they may have.
- Rendering, layout, parsing of manifests, diffs, frames and Cypher, redaction,
  wording, and the bytes of every protocol.
- The canvas file and audit logs; the migration of old data; scenes and views of
  the frontend; routes that translate a request into one call of a part above.
- Of the remote workspace: allowed routes and headers, sizes, the cooldown after
  a 429.
- Of RunStore: transitions only tests use, the audit log, projections of rows.
