------------------------------ MODULE RunStore ------------------------------
(***************************************************************************)
(* Durable Runs: the rows of backend/run_service.py's RunStore, the        *)
(* coordinator processes that claim and execute them, and the user         *)
(* commands that cancel, answer, reconcile and retry them.                 *)
(*                                                                         *)
(* Granularity: one action per SQLite transaction of the store, together   *)
(* with what its caller does before it next awaits.  Several coordinator   *)
(* incarnations may overlap (each start takes a new worker id), and a      *)
(* coordinator may be suspended long enough for its leases to lapse.       *)
(*                                                                         *)
(* A row's version number is abstracted to what its readers compare it     *)
(* with: whether the stamp of the pending interaction still equals it      *)
(* (field ask).  Retained Widget drafts are the subject of DraftCleanup.   *)
(***************************************************************************)
EXTENDS Naturals, FiniteSets

CONSTANTS
  Runs,            \* identities of the Runs that may be created
  Workers,         \* identities of coordinator incarnations
  NoWorker,        \* lease_owner IS NULL
  SessionOf,       \* session (chat) of a Run, or NoSession
  NoSession,
  AppOf,           \* owner_id: the capability App a Run belongs to
  Agents,          \* Runs with adapter_type = "internal_agent"
  RestartSafe,     \* Runs with recovery = "restart_safe"
  PreGranted,      \* Apps whose permission was approved earlier
  GlobalLimit,     \* RUNNER_MAX_CONCURRENCY
  OwnerLimit,      \* RUNNER_MAX_PER_APP
  CandidateLimit,  \* LIMIT of the candidate query in claim_next
  MaxSteps,        \* bound: claims after which a workflow stops continuing
  Mishaps,         \* kinds of mishap: "crash", "stall", "prestep"
  MaxMishaps       \* bound: mishaps in a behaviour

Apps == {AppOf[r] : r \in Runs}

ASSUME RunStoreAssumption ==
  /\ NoWorker \notin Workers
  /\ DOMAIN SessionOf = Runs
  /\ DOMAIN AppOf = Runs
  /\ Agents \subseteq RestartSafe      \* submit_internal_agent
  /\ RestartSafe \subseteq Runs
  /\ PreGranted \subseteq Apps
  /\ GlobalLimit \in Nat \ {0} /\ OwnerLimit \in Nat \ {0}
  /\ CandidateLimit \in Nat \ {0}
  /\ MaxSteps \in Nat /\ MaxMishaps \in Nat
  /\ Mishaps \subseteq {"crash", "stall", "prestep"}

VARIABLES
  runs,      \* table runs, with the open run_steps and run_interactions of each
  clock,     \* creation timestamps handed out so far (created_at)
  outbox,    \* Runs with a pending permission_grant_outbox intent
  granted,   \* Apps with a persisted permission (backend_manager)
  worker,    \* process state of each coordinator incarnation
  task,      \* asyncio task a coordinator holds for a Run (its _active entry)
  effects,   \* ghost: external effects of a Run neither compensated nor reviewed
  mishaps    \* crashes, stalls and pre-step errors so far

vars == <<runs, clock, outbox, granted, worker, task, effects, mishaps>>

Terminal == {"succeeded", "failed", "cancelled"}
Occupying == {"running", "cancel_requested"}
Holding == Occupying \cup {"waiting_user", "needs_attention"}
Status == Terminal \cup Holding \cup {"absent", "queued"}

NewRow(stamp, ledger) ==
  [status |-> "queued", seat |-> stamp, owner |-> NoWorker, epoch |-> 0,
   fresh |-> FALSE, steps |-> {}, ask |-> "none", ledger |-> ledger,
   err |-> "none"]
AbsentRow == [NewRow(0, FALSE) EXCEPT !.status = "absent"]

NoTask == [pc |-> "none", epoch |-> 0, call |-> "idle", ledger |-> FALSE,
           cancel |-> FALSE]

Created(r) == runs[r].status # "absent"
StatusIn(S) == {r \in Runs : runs[r].status \in S}
SameLane(q, r) == SessionOf[q] = SessionOf[r] /\ SessionOf[r] # NoSession
Active(w) == {r \in Runs : task[w][r].pc # "none"}
Running(w, r) == task[w][r].pc \in {"created", "started"}
InFlight(w, r) == task[w][r].call \in {"out", "failing"}

(* A version bump outdates the stamp of an interaction left pending.       *)
Outdated(ask) == IF ask = "open" THEN "stale" ELSE ask

(* Mutant: the interaction is left as it was.                              *)
ReleasedKeepsAsk(row, target, ask) ==
  [row EXCEPT !.status = target, !.owner = NoWorker, !.fresh = FALSE, !.steps = {}]

(* A row that gives up its lease and closes its open steps.                *)
Released(row, target, ask) ==
  [row EXCEPT !.status = target, !.owner = NoWorker, !.fresh = FALSE,
              !.steps = {}, !.ask = ask]

(***************************************************************************)
(* Recovery of Runs whose lease lapsed or whose worker shuts down.         *)
(***************************************************************************)
(* Mutant: any interrupted Run is requeued.                                *)
RecoveryTargetRequeue(r) ==
  IF runs[r].status = "cancel_requested" THEN "cancelled" ELSE "queued"

RecoveryTarget(r) ==
  IF runs[r].status = "cancel_requested"
  THEN IF runs[r].steps # {} THEN "needs_attention" ELSE "cancelled"
  ELSE IF r \in RestartSafe THEN "queued" ELSE "needs_attention"

(* Mutant: the interrupted step stays open.                                *)
RecoveredStepsOpen(r) ==
  [runs[r] EXCEPT !.status = RecoveryTarget(r), !.owner = NoWorker, !.fresh = FALSE,
                  !.ask = "none"]

Recovered(r) ==
  Released(runs[r], RecoveryTarget(r),
           IF RecoveryTarget(r) = "queued" THEN Outdated(runs[r].ask) ELSE "none")

(* Mutants: the status is not filtered; cancel_requested is forgotten.     *)
OrphansAnyStatus ==
  {r \in Runs : Created(r) /\ (runs[r].owner = NoWorker \/ ~runs[r].fresh)}
OrphansRunningOnly ==
  {r \in StatusIn({"running"}) : runs[r].owner = NoWorker \/ ~runs[r].fresh}

Orphans == {r \in StatusIn(Occupying) : runs[r].owner = NoWorker \/ ~runs[r].fresh}

RecoverSet(S) == runs' = [r \in Runs |-> IF r \in S THEN Recovered(r) ELSE runs[r]]

-----------------------------------------------------------------------------
Init ==
  /\ runs = [r \in Runs |-> AbsentRow]
  /\ clock = 0
  /\ outbox = {}
  /\ granted = PreGranted
  /\ worker = [w \in Workers |-> "idle"]
  /\ task = [w \in Workers |-> [r \in Runs |-> NoTask]]
  /\ effects = [r \in Runs |-> 0]
  /\ mishaps = 0

(***************************************************************************)
(* Coordinator processes.                                                  *)
(***************************************************************************)
SetTask(w, r, t) == task' = [task EXCEPT ![w][r] = t]
EndTask(w, r) == SetTask(w, r, [NoTask EXCEPT !.pc = "ended"])

(* ensure_started: a new worker id, and orphan recovery before the loops.  *)
Start(w) ==
  /\ worker[w] = "idle"
  /\ worker' = [worker EXCEPT ![w] = "up"]
  /\ RecoverSet(Orphans)
  /\ UNCHANGED <<clock, outbox, granted, task, effects, mishaps>>

Mishap(kind) == kind \in Mishaps /\ mishaps < MaxMishaps /\ mishaps' = mishaps + 1

(* The process dies: memory goes, rows stay.  An incarnation remains to    *)
(* take over, so the bound on incarnations never ends the system.          *)
Crash(w) ==
  /\ worker[w] \in {"up", "stopping"}
  /\ Mishap("crash")
  /\ \E v \in Workers : worker[v] = "idle"
  /\ worker' = [worker EXCEPT ![w] = "dead"]
  /\ task' = [task EXCEPT ![w] = [r \in Runs |-> NoTask]]
  /\ UNCHANGED <<runs, clock, outbox, granted, effects>>

(* shutdown stops the loops and cancels every task, then waits for them.   *)
BeginShutdown(w) ==
  /\ worker[w] = "up"
  /\ \E v \in Workers : worker[v] = "idle"
  /\ worker' = [worker EXCEPT ![w] = "stopping"]
  /\ task' = [task EXCEPT ![w] =
       [r \in Runs |-> [task[w][r] EXCEPT !.cancel = @ \/ Running(w, r)]]]
  /\ UNCHANGED <<runs, clock, outbox, granted, effects, mishaps>>

ReleaseWorker(w) ==
  /\ worker[w] = "stopping"
  /\ Active(w) = {}
  /\ worker' = [worker EXCEPT ![w] = "dead"]
  /\ RecoverSet({r \in StatusIn(Occupying) : runs[r].owner = w})
  /\ UNCHANGED <<clock, outbox, granted, task, effects, mishaps>>

(* Mutant: leases are renewed by owner, whether or not a task lives.       *)
RenewedByOwner(w) == {r \in StatusIn(Occupying) : runs[r].owner = w}

Renewed(w) == {r \in StatusIn(Occupying) : runs[r].owner = w /\ r \in Active(w)}

Heartbeat(w) ==
  /\ worker[w] = "up"
  /\ runs' = [r \in Runs |-> IF r \in Renewed(w) THEN [runs[r] EXCEPT !.fresh = TRUE]
                                                 ELSE runs[r]]
  /\ UNCHANGED <<clock, outbox, granted, worker, task, effects, mishaps>>

RecoverOrphaned(w) ==
  /\ worker[w] = "up"
  /\ Orphans # {}
  /\ RecoverSet(Orphans)
  /\ UNCHANGED <<clock, outbox, granted, worker, task, effects, mishaps>>

(* Time passes a lease that nobody renews; or, a mishap, one whose owner   *)
(* is alive but was suspended for longer than the lease.                   *)
LeaseExpires(r) ==
  /\ runs[r].fresh
  /\ runs' = [runs EXCEPT ![r].fresh = FALSE]
  /\ \/ /\ \A w \in Workers : worker[w] = "up" => r \notin Renewed(w)
        /\ UNCHANGED mishaps
     \/ Mishap("stall")
  /\ UNCHANGED <<clock, outbox, granted, worker, task, effects>>

(***************************************************************************)
(* Claiming: claim_next.                                                   *)
(***************************************************************************)
(* Mutant: a grant intent does not hold the Run back.                      *)
ClaimableIgnoresOutbox == StatusIn({"queued"})

Claimable == StatusIn({"queued"}) \ outbox

(* ORDER BY created_at LIMIT CandidateLimit                                *)
Window ==
  {r \in Claimable :
     Cardinality({q \in Claimable : runs[q].seat < runs[r].seat}) < CandidateLimit}

(* Mutants: a waiting Run yields its lane; a failed Run keeps it.          *)
LaneAvailableWaitingYields(r) ==
  \A q \in Runs \ {r} : SameLane(q, r) =>
    /\ runs[q].status \notin Occupying
    /\ runs[q].status = "queued" => runs[r].seat < runs[q].seat
LaneAvailableFailedHolds(r) ==
  \A q \in Runs \ {r} : SameLane(q, r) =>
    /\ runs[q].status \notin Holding \cup {"failed"}
    /\ runs[q].status = "queued" => runs[r].seat < runs[q].seat

LaneAvailable(r) ==
  \A q \in Runs \ {r} : SameLane(q, r) =>
    /\ runs[q].status \notin Holding
    /\ runs[q].status = "queued" => runs[r].seat < runs[q].seat

(* Mutant: the limit per App is not applied.                               *)
HasRoomGlobalOnly(r) == Cardinality(StatusIn(Occupying)) < GlobalLimit

HasRoom(r) ==
  /\ Cardinality(StatusIn(Occupying)) < GlobalLimit
  /\ Cardinality({q \in StatusIn(Occupying) : AppOf[q] = AppOf[r]}) < OwnerLimit

Eligible(w, r) == r \notin Active(w) /\ HasRoom(r) /\ LaneAvailable(r)

Claimed(w, r) ==
  [runs[r] EXCEPT !.status = "running", !.owner = w, !.fresh = TRUE,
                  !.epoch = @ + 1, !.ask = Outdated(@)]

ClaimNext(w) ==
  /\ worker[w] = "up"
  /\ Cardinality(Active(w)) < GlobalLimit
  /\ \E r \in Window :
       /\ Eligible(w, r)
       /\ \A q \in Window : Eligible(w, q) => runs[r].seat <= runs[q].seat
       /\ runs' = [runs EXCEPT ![r] = Claimed(w, r)]
       /\ SetTask(w, r, [NoTask EXCEPT !.pc = "created", !.epoch = runs[r].epoch + 1,
                                       !.ledger = runs[r].ledger])
  /\ UNCHANGED <<clock, outbox, granted, worker, effects, mishaps>>

(***************************************************************************)
(* Executing a claimed Run: _execute.  The lease epoch is the fencing      *)
(* token of every durable write a task makes.                              *)
(***************************************************************************)
Owns(w, r) == runs[r].owner = w /\ runs[r].epoch = task[w][r].epoch
(* Mutant: the status is compared, the lease is not.                       *)
FencedByStatus(w, r) == runs[r].status = "running"

Fenced(w, r) == Owns(w, r) /\ runs[r].status = "running"
StepOpen(w, r) == task[w][r].epoch \in runs[r].steps
Uncancelled(w, r, pc) == task[w][r].pc = pc /\ ~task[w][r].cancel
NeedsGrant(r) == r \notin Agents /\ AppOf[r] \notin granted

(* wait_for_interaction: ask for the App's permission and give up the slot *)
RequirePermission(w, r) ==
  /\ Uncancelled(w, r, "created") /\ NeedsGrant(r) /\ Fenced(w, r)
  /\ runs' = [runs EXCEPT ![r] = Released(@, "waiting_user", "open")]
  /\ EndTask(w, r)
  /\ UNCHANGED <<clock, outbox, granted, worker, effects, mishaps>>

(* An unavailable App or runtime raises before the step exists: _execute   *)
(* returns and leaves the row running until its lease lapses.              *)
FailBeforeStep(w, r) ==
  /\ Uncancelled(w, r, "created") /\ r \notin Agents
  /\ Mishap("prestep")
  /\ EndTask(w, r)
  /\ UNCHANGED <<runs, clock, outbox, granted, worker, effects>>

BeginStep(w, r) ==
  /\ Uncancelled(w, r, "created") /\ ~NeedsGrant(r) /\ Fenced(w, r)
  /\ runs' = [runs EXCEPT ![r].steps = @ \cup {task[w][r].epoch}]
  /\ SetTask(w, r, [task[w][r] EXCEPT !.pc = "started"])
  /\ UNCHANGED <<clock, outbox, granted, worker, effects, mishaps>>

(* StaleLeaseError at any durable write: the task returns without a trace. *)
LoseLease(w, r) ==
  /\ \/ Uncancelled(w, r, "created") /\ ~Fenced(w, r)
     \/ Uncancelled(w, r, "started") /\ ~(Fenced(w, r) /\ StepOpen(w, r))
  /\ r \in Agents => ~InFlight(w, r)
  /\ EndTask(w, r)
  /\ UNCHANGED <<runs, clock, outbox, granted, worker, effects, mishaps>>

(* effect_started, then the MCP or HTTP Agent request leaves the process.  *)
(* Whether it takes effect is not known until it answers.                  *)
CallAdapter(w, r) ==
  /\ Uncancelled(w, r, "started") /\ r \notin Agents /\ task[w][r].call = "idle"
  /\ SetTask(w, r, [task[w][r] EXCEPT !.call = "out"])
  /\ effects' = [effects EXCEPT ![r] = IF r \in RestartSafe THEN @ ELSE @ + 1]
  /\ UNCHANGED <<runs, clock, outbox, granted, worker, mishaps>>

(* An Agent phase hands a graph write to a thread (effect_in_flight), which*)
(* cancelling the task does not stop: it commits ("out") or rolls back     *)
(* ("failing").  The write is keyed by the Run, so a replay adds no second *)
(* effect.                                                                 *)
StartWrite(w, r) ==
  /\ Uncancelled(w, r, "started") /\ r \in Agents /\ task[w][r].call = "idle"
  /\ \/ /\ SetTask(w, r, [task[w][r] EXCEPT !.call = "out"])
        /\ effects' = [effects EXCEPT ![r] = 1]
     \/ /\ SetTask(w, r, [task[w][r] EXCEPT !.call = "failing"])
        /\ UNCHANGED effects
  /\ UNCHANGED <<runs, clock, outbox, granted, worker, mishaps>>

(* The thread returns: the write is recorded in the task's state (the      *)
(* compensation ledger), or it was rolled back.                            *)
WriteReturns(w, r) ==
  /\ Uncancelled(w, r, "started") /\ r \in Agents /\ InFlight(w, r)
  /\ SetTask(w, r, IF task[w][r].call = "out"
                   THEN [task[w][r] EXCEPT !.call = "done", !.ledger = TRUE]
                   ELSE [task[w][r] EXCEPT !.call = "undone"])
  /\ UNCHANGED <<runs, clock, outbox, granted, worker, effects, mishaps>>

(***************************************************************************)
(* commit_step: one transaction publishes state, step, status and          *)
(* interaction, and gives the lease back.                                  *)
(***************************************************************************)
Committed(w, r, target, ledger, err) ==
  [Released(runs[r], target, IF target = "waiting_user" THEN "open"
                             ELSE IF target = "queued" THEN Outdated(runs[r].ask)
                             ELSE "none")
     EXCEPT !.steps = runs[r].steps \ {task[w][r].epoch},
            !.ledger = ledger, !.err = err]

CanCommit(w, r) ==
  /\ Uncancelled(w, r, "started") /\ Fenced(w, r) /\ StepOpen(w, r)
  /\ r \in Agents => ~InFlight(w, r)

Publish(w, r, target, ledger, err) ==
  /\ runs' = [runs EXCEPT ![r] = Committed(w, r, target, ledger, err)]
  /\ EndTask(w, r)
  /\ UNCHANGED <<clock, outbox, granted, worker, mishaps>>

(* Continue requeues, Wait asks the user; also a retryable Failed requeues *)
CommitProgress(w, r) ==
  /\ CanCommit(w, r) /\ r \in Agents /\ task[w][r].call # "undone"
  /\ runs[r].epoch < MaxSteps
  /\ \E target \in {"queued", "waiting_user"} :
       Publish(w, r, target, task[w][r].ledger, runs[r].err)
  /\ UNCHANGED effects

CommitSucceeded(w, r) ==
  /\ CanCommit(w, r)
  /\ task[w][r].call # "undone" /\ (r \notin Agents => task[w][r].call = "out")
  /\ Publish(w, r, "succeeded", task[w][r].ledger, runs[r].err)
  /\ UNCHANGED effects

(* An adapter raised: after effect_started only restart-safe work is known *)
(* to be harmless.                                                         *)
AdapterFailed(w, r) ==
  /\ CanCommit(w, r) /\ r \notin Agents
  /\ IF task[w][r].call = "out" /\ r \notin RestartSafe
     THEN Publish(w, r, "needs_attention", FALSE, "unknown")
     ELSE Publish(w, r, "failed", FALSE, "none")
  /\ UNCHANGED effects

(* _failure of the workflow: undo the recorded writes, unless a touched    *)
(* resource has changed since (GraphCompensationConflict).                 *)
AgentFailed(w, r) ==
  /\ CanCommit(w, r) /\ r \in Agents
  /\ \/ /\ Publish(w, r, "failed", FALSE, "none")
        /\ effects' = [effects EXCEPT ![r] = IF task[w][r].ledger THEN 0 ELSE @]
     \/ /\ task[w][r].ledger
        /\ Publish(w, r, "needs_attention", TRUE, "unknown")
        /\ UNCHANGED effects

(***************************************************************************)
(* Cancellation.                                                           *)
(***************************************************************************)

(* request_cancel, handled by process w, which then cancels its own task.  *)
Cancel(w, r) ==
  /\ worker[w] = "up"
  /\ \/ /\ runs[r].status = "running"
        /\ runs' = [runs EXCEPT ![r] =
             [@ EXCEPT !.status = "cancel_requested", !.ask = "none"]]
     \/ /\ runs[r].status \in {"queued", "waiting_user"}
        /\ runs' = [runs EXCEPT ![r] =
             IF runs[r].ledger
             THEN [@ EXCEPT !.status = "needs_attention", !.ask = "none", !.err = "unknown"]
             ELSE Released(@, "cancelled", "none")]
     \/ /\ runs[r].status = "cancel_requested" /\ Running(w, r)
        /\ UNCHANGED runs
  /\ task' = [task EXCEPT ![w][r].cancel =
       @ \/ (runs'[r].status = "cancel_requested" /\ Running(w, r))]
  /\ UNCHANGED <<clock, outbox, granted, worker, effects, mishaps>>

(* CancelledError before the step exists, or while the process shuts down: *)
(* nothing is written.                                                     *)
UnwindSilently(w, r) ==
  /\ Running(w, r) /\ task[w][r].cancel
  /\ task[w][r].pc = "created" \/ runs[r].status # "cancel_requested"
  /\ EndTask(w, r)
  /\ UNCHANGED <<runs, clock, outbox, granted, worker, effects, mishaps>>

(* CancelledError inside the step of a Run whose cancellation is recorded: *)
(* an Agent undoes its recorded writes (cleanup_state) unless one is still *)
(* in flight, then the outcome is committed if the lease is still held.    *)
Acknowledged(w, r, ledger, unknown) ==
  /\ IF Owns(w, r) /\ StepOpen(w, r)
     THEN runs' = [runs EXCEPT ![r] =
            Committed(w, r, IF unknown THEN "needs_attention" ELSE "cancelled",
                      ledger, runs[r].err)]
     ELSE UNCHANGED runs
  /\ EndTask(w, r)

UnwindCancelled(w, r) ==
  /\ task[w][r].pc = "started" /\ task[w][r].cancel
  /\ runs[r].status = "cancel_requested"
  /\ LET t == task[w][r] IN
     \/ /\ r \notin Agents
        /\ Acknowledged(w, r, t.ledger, t.call = "out" /\ r \notin RestartSafe)
        /\ UNCHANGED effects
     \/ /\ r \in Agents /\ ~InFlight(w, r)
        /\ Acknowledged(w, r, FALSE, FALSE)
        /\ effects' = [effects EXCEPT ![r] = IF t.ledger THEN 0 ELSE @]
     \/ /\ r \in Agents /\ (InFlight(w, r) \/ t.ledger)   \* in flight, or a compensation conflict
        /\ Acknowledged(w, r, TRUE, TRUE)
        /\ UNCHANGED effects
  /\ UNCHANGED <<clock, outbox, granted, worker, mishaps>>

(* The done callback _finished, in a later turn of the event loop: a task  *)
(* that ended without acknowledging a cancellation is settled here.        *)
Finished(w, r) ==
  /\ task[w][r].pc = "ended"
  /\ runs' = IF runs[r].status = "cancel_requested" /\ runs[r].owner = w
             THEN [runs EXCEPT ![r] =
                     Released(@, IF @.steps # {} THEN "needs_attention" ELSE "cancelled", "none")]
             ELSE runs
  /\ SetTask(w, r, NoTask)
  /\ UNCHANGED <<clock, outbox, granted, worker, effects, mishaps>>

(***************************************************************************)
(* User commands.                                                          *)
(***************************************************************************)
SomeUp == \E w \in Workers : worker[w] = "up"

Submit(r) ==
  /\ SomeUp /\ ~Created(r)
  /\ runs' = [runs EXCEPT ![r] = NewRow(clock + 1, FALSE)]
  /\ clock' = clock + 1
  /\ UNCHANGED <<outbox, granted, worker, task, effects, mishaps>>

(* resolve_interaction succeeds only on a pending interaction whose stamp  *)
(* is the row's version.  An approved permission goes through the outbox.  *)
Resolve(r, approved) ==
  /\ SomeUp
  /\ runs[r].status = "waiting_user" /\ runs[r].ask = "open"
  /\ runs' = [runs EXCEPT ![r] =
       [@ EXCEPT !.status = IF r \in Agents \/ approved THEN "queued" ELSE "failed",
                 !.owner = NoWorker, !.fresh = FALSE, !.ask = "none"]]
  /\ outbox' = IF r \notin Agents /\ approved THEN outbox \cup {r} ELSE outbox
  /\ UNCHANGED <<clock, granted, worker, task, effects, mishaps>>

(* recover_permission_grants: the permission file is written first, the    *)
(* intent is completed second.                                             *)
ApplyGrant(r) ==
  /\ SomeUp /\ r \in outbox /\ AppOf[r] \notin granted
  /\ granted' = granted \cup {AppOf[r]}
  /\ UNCHANGED <<runs, clock, outbox, worker, task, effects, mishaps>>

(* Mutant: an intent whose permission is already there is skipped.         *)
CompleteGrantSkipsGranted(r) ==
  /\ SomeUp /\ r \in outbox /\ AppOf[r] \notin granted
  /\ outbox' = outbox \ {r}
  /\ UNCHANGED <<runs, clock, granted, worker, task, effects, mishaps>>

CompleteGrant(r) ==
  /\ SomeUp /\ r \in outbox /\ AppOf[r] \in granted
  /\ outbox' = outbox \ {r}
  /\ UNCHANGED <<runs, clock, granted, worker, task, effects, mishaps>>

(* Mutant: an error code that retry does not test for.                     *)
ReconciledOtherCode(r, committed) ==
  [runs[r] EXCEPT !.status = "failed", !.owner = NoWorker, !.fresh = FALSE,
                  !.err = IF committed THEN "effect_confirmed" ELSE "none"]

(* reconcile_effect; the operator's answer is taken to be true.            *)
Reconciled(r, committed) ==
  [runs[r] EXCEPT !.status = "failed", !.owner = NoWorker, !.fresh = FALSE,
                  !.ledger = runs[r].ledger /\ committed,
                  !.err = IF committed THEN "committed" ELSE "none"]

Reconcile(r, committed) ==
  /\ SomeUp
  /\ runs[r].status = "needs_attention"
  /\ committed => effects[r] > 0
  /\ runs' = [runs EXCEPT ![r] = Reconciled(r, committed)]
  /\ effects' = [effects EXCEPT ![r] = IF committed THEN @ ELSE 0]
  /\ UNCHANGED <<clock, outbox, granted, worker, task, mishaps>>

(* retry: a new Run with the attributes of a failed or cancelled one.  A   *)
(* cancelled Agent Run restarts with its workflow data dropped.            *)
Retryable(r) ==
  runs[r].status \in {"failed", "cancelled"} /\ runs[r].err = "none"

Retry(r, n) ==
  /\ SomeUp /\ Retryable(r) /\ ~Created(n)
  /\ SessionOf[n] = SessionOf[r] /\ AppOf[n] = AppOf[r]
  /\ r \in Agents <=> n \in Agents
  /\ r \in RestartSafe <=> n \in RestartSafe
  /\ runs' = [runs EXCEPT ![n] =
       NewRow(clock + 1, runs[r].status = "failed" /\ runs[r].ledger)]
  /\ clock' = clock + 1
  /\ UNCHANGED <<outbox, granted, worker, task, effects, mishaps>>

-----------------------------------------------------------------------------
Process(w) == Start(w) \/ Crash(w) \/ BeginShutdown(w) \/ ReleaseWorker(w)
Loop(w) == Heartbeat(w) \/ RecoverOrphaned(w) \/ ClaimNext(w)

Execute(w, r) ==
  \/ RequirePermission(w, r) \/ FailBeforeStep(w, r) \/ BeginStep(w, r)
  \/ LoseLease(w, r) \/ CallAdapter(w, r) \/ StartWrite(w, r) \/ WriteReturns(w, r)
  \/ CommitProgress(w, r) \/ CommitSucceeded(w, r) \/ AdapterFailed(w, r)
  \/ AgentFailed(w, r) \/ UnwindSilently(w, r) \/ UnwindCancelled(w, r)
  \/ Finished(w, r)

User(r) ==
  \/ Submit(r)
  \/ \E approved \in BOOLEAN : Resolve(r, approved)
  \/ \E committed \in BOOLEAN : Reconcile(r, committed)
  \/ \E n \in Runs : Retry(r, n)

Next ==
  \/ \E w \in Workers : Process(w) \/ Loop(w)
  \/ \E w \in Workers, r \in Runs : Execute(w, r) \/ Cancel(w, r)
  \/ \E r \in Runs : LeaseExpires(r) \/ User(r) \/ ApplyGrant(r) \/ CompleteGrant(r)

Spec == Init /\ [][Next]_vars

(* What the code's loops run by themselves: the process manager starts a   *)
(* coordinator, its loops tick, its tasks take their next step, leases     *)
(* nobody renews lapse, and intents are retried.  Users owe nothing.       *)
Fairness ==
  /\ WF_vars(\E w \in Workers : Start(w))
  /\ \A w \in Workers :
       /\ WF_vars(ReleaseWorker(w)) /\ WF_vars(Heartbeat(w))
       /\ WF_vars(RecoverOrphaned(w)) /\ WF_vars(ClaimNext(w))
  /\ \A w \in Workers, r \in Runs : WF_vars(Execute(w, r))
  /\ \A r \in Runs : WF_vars(LeaseExpires(r)) /\ WF_vars(ApplyGrant(r))
                     /\ WF_vars(CompleteGrant(r))

FairSpec == Spec /\ Fairness

-----------------------------------------------------------------------------
Row == [status : Status, seat : Nat, owner : Workers \cup {NoWorker}, epoch : Nat,
        fresh : BOOLEAN, steps : SUBSET Nat, ask : {"none", "open", "stale"},
        ledger : BOOLEAN, err : {"none", "unknown", "committed"}]

TaskState == [pc : {"none", "created", "started", "ended"}, epoch : Nat,
              call : {"idle", "out", "failing", "done", "undone"},
              ledger : BOOLEAN, cancel : BOOLEAN]

TypeOK ==
  /\ runs \in [Runs -> Row]
  /\ clock \in Nat
  /\ outbox \in SUBSET Runs
  /\ granted \in SUBSET Apps
  /\ worker \in [Workers -> {"idle", "up", "stopping", "dead"}]
  /\ task \in [Workers -> [Runs -> TaskState]]
  /\ effects \in [Runs -> Nat]
  /\ mishaps \in Nat

(* RunStore implements the promise of SessionLane to every session.        *)
Lane == INSTANCE SessionLane WITH
  seat <- [r \in Runs |-> runs[r].seat],
  open <- StatusIn(Holding \cup {"queued"}),
  begun <- {r \in Runs : runs[r].epoch > 0}
LaneSpec == Lane!Spec

(* A session is a FIFO lane: once a Run has been claimed, every Run that   *)
(* was created before it in its session has ended, and for good.           *)
LaneFIFO ==
  \A q, r \in Runs :
    SameLane(q, r) /\ Created(q) /\ runs[q].seat < runs[r].seat /\ runs[r].epoch > 0
      => runs[q].status \in Terminal

(* Overlapping coordinators together never run more than the global limit, *)
(* nor more of one App than its limit.                                     *)
ConcurrencyBound ==
  /\ Cardinality(StatusIn(Occupying)) <= GlobalLimit
  /\ \A a \in Apps :
       Cardinality({r \in StatusIn(Occupying) : AppOf[r] = a}) <= OwnerLimit

(* An open step belongs to the current lease of a Run that still occupies  *)
(* its slot: every path that takes the lease away closes the step.         *)
StepsFenced ==
  \A r \in Runs : runs[r].steps # {} =>
    runs[r].status \in Occupying /\ runs[r].steps = {runs[r].epoch}

(* A waiting Run can be answered: its interaction is pending and carries   *)
(* the row's version, so resolving it does not raise RunVersionConflict;   *)
(* and no other Run keeps an interaction pending.                          *)
WaitingIsAnswerable ==
  \A r \in Runs : runs[r].ask = (IF runs[r].status = "waiting_user" THEN "open" ELSE "none")

(* An approved permission is persisted before the Run it was asked for     *)
(* executes again.                                                         *)
GrantBeforeResume == \A r \in outbox : runs[r].status \notin Occupying

(* The external request of manual work leaves at most once, whatever       *)
(* crashes, stalls, cancellations and late tasks do, until an operator     *)
(* has reviewed the outcome.                                               *)
ManualCalledOnce == \A r \in Runs \ Agents : effects[r] <= 1

(* An adapter Run that retry accepts left no external effect behind.       *)
AdapterRetryIsSafe ==
  \A r \in Runs \ Agents : Retryable(r) => effects[r] = 0

(* Work whose effects nobody can undo is never done twice                  *)
(* (recover_interrupted_runs, RunCoordinator.retry).                       *)
ManualIsSafe == ManualCalledOnce /\ AdapterRetryIsSafe

(* A cancelled Run has no recorded effect left to resolve.                 *)
CancelledIsSettled ==
  \A r \in Runs : runs[r].status = "cancelled" => ~runs[r].ledger

(* A terminal Run never changes status again.                              *)
TerminalIsFinal ==
  [][\A r \in Runs : runs[r].status \in Terminal
                       => runs'[r].status = runs[r].status]_vars

(* Only the task that holds the current lease epoch publishes an outcome   *)
(* of a running Run: a fenced-out task leaves no result and no question.   *)
OnlyLeaseholderPublishes ==
  [][\A r \in Runs :
       runs[r].status = "running" /\ runs'[r].status \in {"succeeded", "failed", "waiting_user"}
         => \E w \in Workers : Running(w, r) /\ Owns(w, r) /\ task'[w][r].pc = "ended"]_vars

(* A cancellation is eventually settled.                                   *)
CancelSettles ==
  \A r \in Runs : runs[r].status = "cancel_requested" ~> runs[r].status # "cancel_requested"

(* No Run stays running for ever, also when its worker dies or its task    *)
(* ends without writing.                                                   *)
RunningSettles ==
  \A r \in Runs : runs[r].status = "running" ~> runs[r].status # "running"

(* A recorded approval is eventually applied.                              *)
GrantsApplied == \A r \in Runs : r \in outbox ~> r \notin outbox

(* A queued Run is eventually claimed or cancelled, unless the user is     *)
(* owing some Run an answer or a review.                                   *)
UserOwes == StatusIn({"waiting_user", "needs_attention"}) # {}
NoStarvation ==
  \A r \in Runs : runs[r].status = "queued" ~> (runs[r].status # "queued" \/ UserOwes)

=============================================================================
