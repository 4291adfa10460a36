---------------------------- MODULE DraftCleanup ----------------------------
(***************************************************************************)
(* The life of a Widget draft: a staging directory that the workflow of a  *)
(* Run generates, verifies and promotes, that a failed Run leaves to its   *)
(* retries, and that cancelling a Run deletes.                             *)
(*                                                                         *)
(* A directory and a SQLite row cannot change together.  Cancelling a      *)
(* queued or waiting Run first moves the draft's handle to a tombstone in  *)
(* the row (one transaction), then deletes the directory, then clears the  *)
(* tombstone and closes the Run (another transaction); any process that    *)
(* finds a tombstone resumes from there.                                   *)
(*                                                                         *)
(* Granularity: one action per transaction or directory operation.  The    *)
(* handlers of a process run on one event loop, so a process with a        *)
(* cleanup in hand (its job) does nothing else; the thread that renames a  *)
(* draft into place runs beside it.  All Runs belong to one session and    *)
(* one App, which is where drafts are shared; Runs are numbered in order   *)
(* of creation.  Leases and scheduling are RunStore's.                     *)
(***************************************************************************)
EXTENDS Naturals, FiniteSets

CONSTANTS
  Runs,         \* numbers of the Runs that may be created
  NoRun,        \* no Run: an App that no Run of this session published
  Procs,        \* backend processes (a restart is a new one)
  NoProc,       \* lease_owner IS NULL
  MaxUp,        \* backend processes that may overlap
  Drafts,       \* staging directories (names are fresh uuids)
  NoDraft,
  Mishaps,      \* kinds of mishap: "crash", "stall", "locked", "unsafe"
  MaxMishaps    \* bound: mishaps in a behaviour

ASSUME DraftCleanupAssumption ==
  /\ Runs \subseteq Nat /\ NoRun \notin Runs
  /\ NoProc \notin Procs /\ NoDraft \notin Drafts
  /\ MaxUp \in Nat \ {0} /\ MaxMishaps \in Nat
  /\ Mishaps \subseteq {"crash", "stall", "locked", "unsafe"}

VARIABLES
  rows,     \* table runs: status, lease and the draft part of each checkpoint
  disk,     \* each staging directory: unused, a draft, or gone (deleted or renamed)
  fault,    \* what prevents its deletion: "locked"; or its validation too: "unsafe"
  live,     \* the Run named by the promotion marker of the live App
  proc,     \* "idle", "opening" (before it serves requests), "up" or "dead"
  job,      \* cleanup that a process has in hand
  task,     \* asyncio task of a process for a Run, and its promotion thread
  mishaps   \* crashes, stalls and faults so far

vars == <<rows, disk, fault, live, proc, job, task, mishaps>>

Terminal == {"succeeded", "failed", "cancelled"}
Occupying == {"running", "cancel_requested"}
Active == {"queued", "waiting_user", "needs_attention"} \cup Occupying
Phases == {"stage", "verify", "override", "promote"}

NewRow == [status |-> "queued", phase |-> "stage", draft |-> NoDraft, tomb |-> NoDraft,
           effect |-> FALSE, err |-> "none", owner |-> NoProc, step |-> FALSE,
           from |-> NoRun]
AbsentRow == [NewRow EXCEPT !.status = "absent"]

NoTask == [pc |-> "none", cancel |-> FALSE, dir |-> NoDraft, thread |-> "none"]
NoHand == [run |-> NoRun, dir |-> NoDraft, ok |-> FALSE]
IdleJob == [goal |-> "none", run |-> NoRun, todo |-> {}, hand |-> NoHand]

Created(r) == rows[r].status # "absent"
StatusIn(S) == {r \in Runs : rows[r].status \in S}
Idle(p) == proc[p] = "up" /\ job[p].goal = "none"
Serving == \E p \in Procs : Idle(p)
Mishap(kind) == kind \in Mishaps /\ mishaps < MaxMishaps /\ mishaps' = mishaps + 1

(* A row that leaves its worker.                                           *)
Released(row, target) == [row EXCEPT !.status = target, !.owner = NoProc, !.step = FALSE]

Exists(d) == d # NoDraft /\ disk[d] = "draft"
(* shutil.rmtree fails; or the handle is refused before it is tried.       *)
Undeletable(d) == Exists(d) /\ fault[d] # "none"
Refused(d) == fault[d] = "unsafe" \/ Undeletable(d)
Remove(S) == disk' = [d \in Drafts |-> IF d \in S /\ Exists(d) THEN "gone" ELSE disk[d]]

Init ==
  /\ rows = [r \in Runs |-> AbsentRow]
  /\ disk = [d \in Drafts |-> "unused"]
  /\ fault = [d \in Drafts |-> "none"]
  /\ live = NoRun
  /\ proc = [p \in Procs |-> "idle"]
  /\ job = [p \in Procs |-> IdleJob]
  /\ task = [p \in Procs |-> [r \in Runs |-> NoTask]]
  /\ mishaps = 0

-----------------------------------------------------------------------------
(***************************************************************************)
(* Cleanup: recover_pending_staging_cleanup, run when a process opens the  *)
(* store, at every tick of its scheduler, and around a cancellation.       *)
(***************************************************************************)
(* Mutant: a deletion that failed once is not tried again.                 *)
TombstonedOnce == {r \in StatusIn({"cancel_requested"}) : rows[r].tomb # NoDraft}

Tombstoned == {r \in StatusIn({"cancel_requested", "needs_attention", "cancelled"}) :
                 rows[r].tomb # NoDraft}
Worklist(S) == {[run |-> r, dir |-> rows[r].tomb] : r \in S \cap Tombstoned}

Begin(p, goal, r, scope) ==
  job' = [job EXCEPT ![p] =
            [goal |-> goal, run |-> r, todo |-> Worklist(scope), hand |-> NoHand]]
WorkedOff(p, goal) == job[p].goal = goal /\ job[p].todo = {} /\ job[p].hand = NoHand

(* RunStore.__init__.  The process manager starts a process when fewer     *)
(* than MaxUp run.                                                         *)
Open(p) ==
  /\ proc[p] = "idle"
  /\ Cardinality({q \in Procs : proc[q] \in {"opening", "up"}}) < MaxUp
  /\ proc' = [proc EXCEPT ![p] = "opening"]
  /\ Begin(p, "open", NoRun, Runs)
  /\ UNCHANGED <<rows, disk, fault, live, task, mishaps>>

Tick(p) ==
  /\ Idle(p)
  /\ Tombstoned # {} \/ StatusIn(Occupying) # {}
  /\ Begin(p, "tick", NoRun, Runs)
  /\ UNCHANGED <<rows, disk, fault, live, proc, task, mishaps>>

(* Delete the directory, between the two transactions.                     *)
Discard(p) ==
  /\ job[p].hand = NoHand
  /\ \E item \in job[p].todo :
       /\ job' = [job EXCEPT
            ![p].todo = @ \ {item},
            ![p].hand = [run |-> item.run, dir |-> item.dir, ok |-> ~Undeletable(item.dir)]]
       /\ IF Undeletable(item.dir) THEN UNCHANGED disk ELSE Remove({item.dir})
  /\ UNCHANGED <<rows, fault, live, proc, task, mishaps>>

(* Mutant: a deletion that failed settles the row like one that succeeded. *)
SettledRegardless(row, ok) ==
  [Released(row, IF row.effect THEN "needs_attention" ELSE "cancelled")
     EXCEPT !.tomb = NoDraft, !.err = IF row.effect THEN @ ELSE "none"]

Settled(row, ok) ==
  IF ok
  THEN [Released(row, IF row.effect THEN "needs_attention" ELSE "cancelled")
          EXCEPT !.tomb = NoDraft, !.err = IF row.effect THEN @ ELSE "none"]
  ELSE [row EXCEPT !.status = "needs_attention", !.owner = NoProc, !.err = "cleanup"]

(* The second transaction applies only to the tombstone that was read.     *)
Settle(p) ==
  LET hand == job[p].hand IN
  /\ hand # NoHand
  /\ rows' = IF rows[hand.run].tomb = hand.dir
             THEN [rows EXCEPT ![hand.run] = Settled(@, hand.ok)] ELSE rows
  /\ job' = [job EXCEPT ![p].hand = NoHand]
  /\ UNCHANGED <<disk, fault, live, proc, task, mishaps>>

(* Mutant: the reaper protects the drafts of running Runs only.            *)
ReferencedByRunning == {rows[r].draft : r \in StatusIn({"running"})}

(* retained_staging_paths; a failed Run protects its draft for a while.    *)
Referenced == {rows[r].draft : r \in StatusIn(Active)} \cup {rows[r].tomb : r \in StatusIn(Active)}

(* lifespan: reap old unreferenced drafts, then serve.                     *)
Reap(p) ==
  /\ WorkedOff(p, "open")
  /\ \E old \in SUBSET {d \in Drafts \ Referenced : fault[d] = "none" /\ Exists(d)} : Remove(old)
  /\ proc' = [proc EXCEPT ![p] = "up"]
  /\ job' = [job EXCEPT ![p] = IdleJob]
  /\ UNCHANGED <<rows, fault, live, task, mishaps>>

(* Mutant: closed Runs are recovered too.                                  *)
OrphansAnyStatus ==
  {r \in Runs : Created(r) /\ (rows[r].owner = NoProc \/ proc[rows[r].owner] = "dead")}

(* recover_orphaned after its cleanup.  A lease lapses when its process is *)
(* dead; or, a mishap, when its process was suspended.                     *)
Orphans == {r \in StatusIn(Occupying) :
              rows[r].owner = NoProc \/ proc[rows[r].owner] = "dead"}

(* Mutant: the row gets the status of its step.                            *)
RecoveredAsStep(row) ==
  Released(row, IF row.status = "running" THEN "queued"
                ELSE IF row.step THEN "interrupted" ELSE "cancelled")

Recovered(row) ==
  Released(row, IF row.status = "running" THEN "queued"
                ELSE IF row.step THEN "needs_attention" ELSE "cancelled")

Recover(p) ==
  /\ WorkedOff(p, "tick")
  /\ \E lapsed \in SUBSET (StatusIn(Occupying) \ Orphans) :
       /\ IF lapsed = {} THEN UNCHANGED mishaps ELSE Mishap("stall")
       /\ rows' = [r \in Runs |-> IF r \in Orphans \cup lapsed THEN Recovered(rows[r])
                                                               ELSE rows[r]]
  /\ job' = [job EXCEPT ![p] = IdleJob]
  /\ UNCHANGED <<disk, fault, live, proc, task>>

-----------------------------------------------------------------------------
(***************************************************************************)
(* Commands of the user and of the operator.                               *)
(***************************************************************************)
(* request_cancel first resumes a tombstone an earlier attempt left.       *)
RequestCancel(p, r) ==
  /\ Idle(p) /\ Created(r)
  /\ Begin(p, "cancel", r, {r})
  /\ UNCHANGED <<rows, disk, fault, live, proc, task, mishaps>>

Promoted(r) == ~Exists(rows[r].draft) /\ live = r

(* Mutant: the promotion marker is not consulted.                          *)
MarkedUnchecked(r) ==
  LET row == rows[r] IN
  IF row.draft = NoDraft
  THEN IF row.effect THEN [row EXCEPT !.status = "needs_attention", !.err = "unknown"]
                     ELSE Released(row, "cancelled")
  ELSE [row EXCEPT !.status = IF row.effect THEN "needs_attention" ELSE "cancel_requested",
                   !.draft = NoDraft, !.tomb = row.draft]

(* A queued or waiting row after the command: a draft whose handle cannot  *)
(* be validated stays for review, a promoted one is an effect, any other   *)
(* becomes a tombstone.                                                    *)
Marked(r) ==
  LET row == rows[r] IN
  IF row.draft = NoDraft
  THEN IF row.effect THEN [row EXCEPT !.status = "needs_attention", !.err = "unknown"]
                     ELSE Released(row, "cancelled")
  ELSE IF fault[row.draft] = "unsafe"
  THEN [row EXCEPT !.status = "needs_attention", !.err = "cleanup"]
  ELSE IF Promoted(r)
  THEN [row EXCEPT !.status = "needs_attention", !.err = "committed", !.effect = TRUE]
  ELSE [row EXCEPT !.status = IF row.effect THEN "needs_attention" ELSE "cancel_requested",
                   !.err = IF row.effect THEN "unknown" ELSE @,
                   !.draft = NoDraft, !.tomb = row.draft]

(* The marking transaction.  A tombstone it wrote is worked off at once;   *)
(* the task of a Run whose cancellation is requested is cancelled.         *)
Mark(p) ==
  LET r == job[p].run IN
  /\ WorkedOff(p, "cancel")
  /\ rows' = [rows EXCEPT ![r] =
       IF @.status = "running" THEN [@ EXCEPT !.status = "cancel_requested"]
       ELSE IF @.status \in {"queued", "waiting_user"} THEN Marked(r) ELSE @]
  /\ IF rows'[r].tomb # rows[r].tomb
     THEN /\ job' = [job EXCEPT ![p].goal = "resume",
                               ![p].todo = {[run |-> r, dir |-> rows'[r].tomb]}]
          /\ UNCHANGED task
     ELSE /\ job' = [job EXCEPT ![p] = IdleJob]
          /\ task' = [task EXCEPT ![p][r].cancel =
               @ \/ (rows'[r].status = "cancel_requested" /\ task[p][r].pc # "none")]
  /\ UNCHANGED <<disk, fault, live, proc, mishaps>>

Resume(p) ==
  /\ WorkedOff(p, "resume")
  /\ job' = [job EXCEPT ![p] = IdleJob]
  /\ task' = [task EXCEPT ![p][job[p].run].cancel =
       @ \/ (rows[job[p].run].status = "cancel_requested" /\ task[p][job[p].run].pc # "none")]
  /\ UNCHANGED <<rows, disk, fault, live, proc, mishaps>>

Submit(r) ==
  /\ Serving /\ ~Created(r) /\ \A q \in Runs : q < r => Created(q)
  /\ rows' = [rows EXCEPT ![r] = NewRow]
  /\ UNCHANGED <<disk, fault, live, proc, job, task, mishaps>>

(* resolve_interaction                                                     *)
Answer(r) ==
  /\ Serving /\ rows[r].status = "waiting_user"
  /\ rows' = [rows EXCEPT ![r].status = "queued"]
  /\ UNCHANGED <<disk, fault, live, proc, job, task, mishaps>>

(* Mutant: review may close a Run whose draft is not deleted yet.          *)
CleanupBlocksNothing(r) == FALSE

CleanupBlocks(r) ==
  rows[r].tomb # NoDraft \/ (rows[r].draft # NoDraft /\ rows[r].err = "cleanup")

(* reconcile_effect; the operator's answer is taken to be true, and to be  *)
(* given when no thread of the Run is left.                                *)
Reconcile(r, committed) ==
  /\ Serving /\ rows[r].status = "needs_attention" /\ ~CleanupBlocks(r)
  /\ IF committed THEN rows[r].effect \/ live = r ELSE live # r
  /\ \A p \in Procs : task[p][r].thread # "out"
  /\ rows' = [rows EXCEPT ![r] =
       [Released(@, "failed") EXCEPT !.effect = rows[r].effect /\ committed,
                                     !.err = IF committed THEN "committed" ELSE "none"]]
  /\ UNCHANGED <<disk, fault, live, proc, job, task, mishaps>>

(* The checkpoint a retry of a failed Run resumes from.                    *)
Resumed(row) ==
  IF Exists(row.draft)
  THEN [NewRow EXCEPT !.draft = row.draft, !.effect = row.effect,
                      !.phase = IF row.phase = "override" THEN "verify" ELSE row.phase]
  ELSE [NewRow EXCEPT !.effect = row.effect]

(* retry; feedback sends an existing draft back to the coding agent.       *)
Retry(r, n, feedback) ==
  /\ Serving /\ ~Created(n) /\ \A q \in Runs : q < n => Created(q)
  /\ rows[r].status \in {"failed", "cancelled"} /\ rows[r].err = "none"
  /\ rows' = [rows EXCEPT ![n] =
       [(IF rows[r].status = "cancelled" THEN NewRow
         ELSE IF feedback THEN [Resumed(rows[r]) EXCEPT !.phase = "stage"]
         ELSE Resumed(rows[r])) EXCEPT !.from = r]]
  /\ UNCHANGED <<disk, fault, live, proc, job, task, mishaps>>

-----------------------------------------------------------------------------
(***************************************************************************)
(* The workflow of a claimed Run, as far as it touches its draft.          *)
(***************************************************************************)
SetTask(p, r, t) == task' = [task EXCEPT ![p][r] = t]
(* The task ends; a thread it started goes on.                             *)
Ended(t) == IF t.thread = "out" THEN [NoTask EXCEPT !.thread = "out", !.dir = t.dir] ELSE NoTask
EndTask(p, r) == SetTask(p, r, Ended(task[p][r]))

(* One lane: nothing else of the session is open before r.                 *)
Claim(p, r) ==
  /\ Idle(p) /\ rows[r].status = "queued" /\ task[p][r].pc = "none"
  /\ \A q \in Runs \ {r} :
       /\ rows[q].status \notin Active \ {"queued"}
       /\ rows[q].status = "queued" => r < q
  /\ rows' = [rows EXCEPT ![r].status = "running", ![r].owner = p]
  /\ SetTask(p, r, [NoTask EXCEPT !.pc = "created"])
  /\ UNCHANGED <<disk, fault, live, proc, job, mishaps>>

Fenced(p, r) == rows[r].status = "running" /\ rows[r].owner = p
At(p, r, pc) == Idle(p) /\ task[p][r].pc = pc /\ ~task[p][r].cancel
InPhase(p, r, phase) == At(p, r, "started") /\ rows[r].phase = phase /\ Fenced(p, r)

BeginStep(p, r) ==
  /\ At(p, r, "created") /\ Fenced(p, r)
  /\ rows' = [rows EXCEPT ![r].step = TRUE]
  /\ SetTask(p, r, [task[p][r] EXCEPT !.pc = "started"])
  /\ UNCHANGED <<disk, fault, live, proc, job, mishaps>>

(* commit_step of a fenced task: the row moves on and the task ends.       *)
Commit(p, r, row) ==
  /\ Fenced(p, r) /\ rows[r].step
  /\ rows' = [rows EXCEPT ![r] = row]
  /\ EndTask(p, r)
  /\ UNCHANGED <<fault, live, proc, job, mishaps>>

(* An earlier intent of the Run writes to the graph.                       *)
CommitGraph(p, r) ==
  /\ InPhase(p, r, "stage") /\ rows[r].draft = NoDraft
  /\ Commit(p, r, [Released(rows[r], "queued") EXCEPT !.effect = TRUE])
  /\ UNCHANGED disk

(* The coding agent works in the retained draft, or in a new directory.    *)
Generate(p, r) ==
  /\ InPhase(p, r, "stage")
  /\ \/ /\ Exists(rows[r].draft) /\ fault[rows[r].draft] # "unsafe"
        /\ SetTask(p, r, [task[p][r] EXCEPT !.pc = "staging", !.dir = rows[r].draft])
        /\ UNCHANGED disk
     \/ /\ rows[r].draft = NoDraft
        /\ \E d \in Drafts :
             /\ disk[d] = "unused"
             /\ disk' = [disk EXCEPT ![d] = "draft"]
             /\ SetTask(p, r, [task[p][r] EXCEPT !.pc = "staging", !.dir = d])
  /\ UNCHANGED <<rows, fault, live, proc, job, mishaps>>

Staged(p, r) ==
  /\ At(p, r, "staging") /\ Exists(task[p][r].dir)
  /\ Commit(p, r, [Released(rows[r], "queued")
                     EXCEPT !.draft = task[p][r].dir, !.phase = "verify"])
  /\ UNCHANGED disk

Verify(p, r) ==
  /\ InPhase(p, r, "verify") /\ Exists(rows[r].draft) /\ fault[rows[r].draft] # "unsafe"
  /\ \/ Commit(p, r, [Released(rows[r], "queued") EXCEPT !.phase = "promote"])
     \/ Commit(p, r, [Released(rows[r], "waiting_user") EXCEPT !.phase = "override"])
  /\ UNCHANGED disk

(* wait_override after an answer: the draft is edited again, or given up   *)
(* before the checkpoint that forgets it is committed.                     *)
Rework(p, r) ==
  /\ InPhase(p, r, "override")
  /\ \/ /\ Commit(p, r, [Released(rows[r], "queued") EXCEPT !.phase = "stage"])
        /\ UNCHANGED disk
     \/ /\ ~Refused(rows[r].draft)
        /\ Remove({rows[r].draft})
        /\ Commit(p, r, [Released(rows[r], "queued")
                           EXCEPT !.phase = "stage", !.draft = NoDraft])

(* _publish_widget: a publication that a crash cut off is recognised by    *)
(* its marker; otherwise a thread renames the draft into place.            *)
Promote(p, r) ==
  /\ InPhase(p, r, "promote") /\ fault[rows[r].draft] # "unsafe"
  /\ \/ Promoted(r) /\ Commit(p, r, Released(rows[r], "succeeded"))
     \/ /\ Exists(rows[r].draft)
        /\ SetTask(p, r, [task[p][r] EXCEPT !.pc = "promoting", !.thread = "out",
                                            !.dir = rows[r].draft])
        /\ UNCHANGED <<rows, fault, live, proc, job, mishaps>>
  /\ UNCHANGED disk

(* The thread, whether or not its task still waits for it.                 *)
Land(p, r) ==
  LET t == task[p][r] IN
  LET done(result) == IF t.pc = "promoting" THEN [t EXCEPT !.thread = result] ELSE NoTask IN
  /\ t.thread = "out"
  /\ \/ /\ Exists(t.dir) /\ fault[t.dir] = "none"
        /\ Remove({t.dir}) /\ live' = r
        /\ SetTask(p, r, done("landed"))
     \/ /\ ~Exists(t.dir) \/ fault[t.dir] # "none"
        /\ SetTask(p, r, done("failed"))
        /\ UNCHANGED <<disk, live>>
  /\ UNCHANGED <<rows, fault, proc, job, mishaps>>

(* After the rename: the App, canvas and reply are finished, or not.       *)
Publish(p, r) ==
  /\ At(p, r, "promoting") /\ task[p][r].thread = "landed"
  /\ \/ Commit(p, r, Released(rows[r], "succeeded"))
     \/ Commit(p, r, [Released(rows[r], "needs_attention") EXCEPT !.effect = TRUE, !.err = "unknown"])
  /\ UNCHANGED disk

(* Any phase may fail before it publishes (_failure): the draft stays, and *)
(* graph writes are compensated or, in a conflict, left for review; or the *)
(* phase is retried.                                                       *)
Fail(p, r) ==
  /\ \/ At(p, r, "started") \/ At(p, r, "staging")
     \/ At(p, r, "promoting") /\ task[p][r].thread = "failed"
  /\ LET row == [rows[r] EXCEPT !.draft = IF task[p][r].pc = "staging" THEN task[p][r].dir ELSE @]
     IN \/ Commit(p, r, [Released(row, "failed") EXCEPT !.effect = FALSE,
                           !.phase = IF row.effect THEN "stage" ELSE @])
        \/ row.effect /\ Commit(p, r, [Released(row, "needs_attention") EXCEPT !.err = "unknown"])
        \/ task[p][r].pc # "staging" /\ Commit(p, r, Released(row, "queued"))
  /\ UNCHANGED disk

(* StaleLeaseError at the next durable write.                              *)
LoseLease(p, r) ==
  /\ \E pc \in {"created", "started", "staging", "promoting"} : At(p, r, pc)
  /\ task[p][r].thread # "out" /\ ~Fenced(p, r)
  /\ EndTask(p, r)
  /\ UNCHANGED <<rows, disk, fault, live, proc, job, mishaps>>

Acknowledges(p, r) == task[p][r].pc # "created" /\ rows[r].status = "cancel_requested"

(* Mutant: the draft is discarded under its promotion thread.              *)
DoomedInFlight(p, r) ==
  {d \in ((IF Acknowledges(p, r) THEN {rows[r].draft} ELSE {})
           \cup (IF task[p][r].pc = "staging" THEN {task[p][r].dir} \ {rows[r].draft} ELSE {}))
         \ {NoDraft} : ~Refused(d)}

(* What a cancelled task deletes: the directory its runner made and, when  *)
(* no promotion is in flight, the draft (cleanup_state).                   *)
Doomed(p, r) ==
  {d \in ((IF Acknowledges(p, r) /\ task[p][r].thread = "none" THEN {rows[r].draft} ELSE {})
           \cup (IF task[p][r].pc = "staging" THEN {task[p][r].dir} \ {rows[r].draft} ELSE {}))
         \ {NoDraft} : ~Refused(d)}

(* Mutant: the promotion thread is forgotten.                              *)
OutcomesForgetful(p, r) == {u \in BOOLEAN : u => rows[r].effect}

(* May, or must, the outcome of a cancelled step be called unknown?        *)
Outcomes(p, r) ==
  {u \in BOOLEAN : IF task[p][r].thread # "none" THEN u ELSE u => rows[r].effect}

(* CancelledError.  Inside a step of a Run whose cancellation is recorded, *)
(* graph writes are compensated (unless in conflict) and the outcome is    *)
(* committed if the lease is still held; _finished settles the rest.       *)
Unwind(p, r) ==
  LET t == task[p][r] IN
  /\ Idle(p) /\ t.cancel /\ t.pc # "none"
  /\ Remove(Doomed(p, r))
  /\ \E unknown \in Outcomes(p, r) :
       rows' = [rows EXCEPT ![r] =
         IF @.status # "cancel_requested" \/ @.owner # p THEN @
         ELSE IF t.pc = "created"
         THEN Released(@, IF @.step THEN "needs_attention" ELSE "cancelled")
         ELSE [Released(@, IF unknown THEN "needs_attention" ELSE "cancelled") EXCEPT
                 !.draft = IF rows[r].draft \in Doomed(p, r) THEN NoDraft ELSE rows[r].draft,
                 !.effect = unknown]]
  /\ EndTask(p, r)
  /\ UNCHANGED <<fault, live, proc, job, mishaps>>

-----------------------------------------------------------------------------
(* The process dies with its job, its tasks and their threads, perhaps     *)
(* after it deleted a draft and before it committed that.  A process       *)
(* remains to take over, so the bound on processes never ends the system.  *)
Crash(p) ==
  /\ proc[p] \in {"opening", "up"} /\ Mishap("crash")
  /\ \E q \in Procs : proc[q] = "idle"
  /\ \/ UNCHANGED disk
     \/ \E r \in Runs :
          \/ InPhase(p, r, "override") /\ ~Refused(rows[r].draft) /\ Remove({rows[r].draft})
          \/ Idle(p) /\ task[p][r].cancel /\ Remove(Doomed(p, r))
  /\ proc' = [proc EXCEPT ![p] = "dead"]
  /\ job' = [job EXCEPT ![p] = IdleJob]
  /\ task' = [task EXCEPT ![p] = [r \in Runs |-> NoTask]]
  /\ UNCHANGED <<rows, fault, live>>

(* A file is held open, or a path is replaced by a link; and the operator  *)
(* puts it right.                                                          *)
Obstruct(d) ==
  /\ \E kind \in {"locked", "unsafe"} : Mishap(kind) /\ fault' = [fault EXCEPT ![d] = kind]
  /\ Exists(d) /\ fault[d] = "none"
  /\ UNCHANGED <<rows, disk, live, proc, job, task>>

Repair(d) ==
  /\ fault[d] # "none"
  /\ fault' = [fault EXCEPT ![d] = "none"]
  /\ UNCHANGED <<rows, disk, live, proc, job, task, mishaps>>

-----------------------------------------------------------------------------
Cleanup(p) == Discard(p) \/ Settle(p) \/ Reap(p) \/ Recover(p) \/ Mark(p) \/ Resume(p)

Workflow(p, r) ==
  \/ Claim(p, r) \/ BeginStep(p, r) \/ CommitGraph(p, r) \/ Generate(p, r)
  \/ Staged(p, r) \/ Verify(p, r) \/ Rework(p, r) \/ Promote(p, r) \/ Land(p, r)
  \/ Publish(p, r) \/ Fail(p, r) \/ LoseLease(p, r) \/ Unwind(p, r)

User(r) ==
  \/ Submit(r) \/ Answer(r)
  \/ \E committed \in BOOLEAN : Reconcile(r, committed)
  \/ \E n \in Runs, feedback \in BOOLEAN : Retry(r, n, feedback)

Next ==
  \/ \E p \in Procs : Open(p) \/ Tick(p) \/ Cleanup(p) \/ Crash(p)
  \/ \E p \in Procs, r \in Runs : RequestCancel(p, r) \/ Workflow(p, r)
  \/ \E r \in Runs : User(r)
  \/ \E d \in Drafts : Obstruct(d) \/ Repair(d)

Spec == Init /\ [][Next]_vars

(* A process manager keeps a process up, a job it has in hand goes on, and *)
(* its scheduler ticks: the event loop serves callbacks in order, so       *)
(* requests cannot keep an expired timer from its turn for ever.  Users    *)
(* owe nothing; nobody repairs a fault.                                    *)
FairSpec ==
  /\ Spec
  /\ WF_vars(\E p \in Procs : Open(p))
  /\ \A p \in Procs : WF_vars(Cleanup(p)) /\ SF_vars(Tick(p))

-----------------------------------------------------------------------------
Row == [status : Active \cup Terminal \cup {"absent"}, phase : Phases,
        draft : Drafts \cup {NoDraft}, tomb : Drafts \cup {NoDraft}, effect : BOOLEAN,
        err : {"none", "unknown", "cleanup", "committed"},
        owner : Procs \cup {NoProc}, step : BOOLEAN, from : Runs \cup {NoRun}]

TaskState == [pc : {"none", "created", "started", "staging", "promoting"}, cancel : BOOLEAN,
              dir : Drafts \cup {NoDraft}, thread : {"none", "out", "landed", "failed"}]

Item == [run : Runs, dir : Drafts]
Hand == [run : Runs \cup {NoRun}, dir : Drafts \cup {NoDraft}, ok : BOOLEAN]
Job == [goal : {"none", "open", "tick", "cancel", "resume"}, run : Runs \cup {NoRun},
        todo : SUBSET Item, hand : Hand]

TypeOK ==
  /\ rows \in [Runs -> Row]
  /\ disk \in [Drafts -> {"unused", "draft", "gone"}]
  /\ fault \in [Drafts -> {"none", "locked", "unsafe"}]
  /\ live \in Runs \cup {NoRun}
  /\ proc \in [Procs -> {"idle", "opening", "up", "dead"}]
  /\ job \in [Procs -> Job]
  /\ task \in [Procs -> [Runs -> TaskState]]
  /\ mishaps \in Nat

(* Nothing closes a Run over the tombstone of its draft: neither recovery, *)
(* review, a late task nor another cancellation.                           *)
TombstoneBlocksClosing ==
  \A r \in Runs : rows[r].tomb # NoDraft => rows[r].status \in {"cancel_requested", "needs_attention"}

(* A tombstone is cleared only when its directory is gone, whatever        *)
(* crashes or overlaps.                                                    *)
TombstoneOutlivesDraft ==
  [][\A r \in Runs :
       rows[r].tomb # NoDraft /\ rows'[r].tomb # rows[r].tomb
         => disk'[rows[r].tomb] # "draft"]_vars

(* Cancelling a Run that waits, in the queue or for the user, never        *)
(* passes over an App it has published.                                    *)
PublishedIsReviewed ==
  [][\A r \in Runs :
       rows[r].status \in {"queued", "waiting_user"}
       /\ rows'[r].status \in {"cancelled", "cancel_requested"} => live # r]_vars

(* Both retries of a Run that failed once and was retried twice name the   *)
(* directory of its draft.                                                 *)
RetriedTwice == \E m, n \in Runs : m # n /\ rows[m].from = rows[n].from /\ rows[m].from # NoRun

(* While no failed Run is retried twice, a directory is never deleted      *)
(* under a thread that is to promote it.                                   *)
PromotionUndisturbed ==
  RetriedTwice \/ \A p \in Procs, r \in Runs :
                    task[p][r].thread = "out" => disk[task[p][r].dir] = "draft"

(* An App is not published for a Run that was reported cancelled.          *)
CancelledIsNotPublished ==
  [][\A r \in Runs : live' = r /\ live # r => rows[r].status # "cancelled"]_vars

(* A Run that is to verify, promote or ask about a draft has it, unless it *)
(* is published: while no failed Run is retried twice (both retries would  *)
(* share one directory), nothing deletes a draft that is still needed.     *)
NeedsDraft(r) ==
  \/ rows[r].status = "queued" /\ rows[r].phase \in {"verify", "promote"}
  \/ rows[r].status = "waiting_user" /\ rows[r].phase = "override"
RetryFindsDraft ==
  RetriedTwice \/ \A r \in Runs : NeedsDraft(r) => Exists(rows[r].draft) \/ live = r

(* A review can be concluded once its cleanup has been worked off and what *)
(* obstructed it has been repaired.                                        *)
ReviewHasExit ==
  \A r \in Runs :
    rows[r].status = "needs_attention" /\ rows[r].tomb = NoDraft
    /\ (\A d \in Drafts : fault[d] = "none") => ~CleanupBlocks(r)

(* A terminal status is final, as _TRANSITIONS says.                       *)
TerminalIsFinal ==
  [][\A r \in Runs : rows[r].status \in Terminal => rows'[r].status = rows[r].status]_vars

(* Every tombstone is eventually worked off, unless its directory resists. *)
CleanupSettles ==
  \A r \in Runs : rows[r].tomb # NoDraft
    ~> (rows[r].tomb = NoDraft \/ Undeletable(rows[r].tomb))

=============================================================================
