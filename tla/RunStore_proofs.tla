-------------------------- MODULE RunStore_proofs --------------------------
(***************************************************************************)
(* What RunStore promises, for any number of Runs, coordinators, sessions  *)
(* and Apps and any limits: type correctness; the order of a session's     *)
(* Runs and the fencing of steps; the limits, the outcomes and the work    *)
(* that nobody can undo.                                                   *)
(***************************************************************************)
EXTENDS RunStore, FiniteSetTheorems, TLAPS

-----------------------------------------------------------------------------
(* Type correctness of RunStore for every value of its constants.          *)

(* A created row (create_run) is well typed.                               *)
LEMMA NewRowType ==
  ASSUME NEW stamp \in Nat, NEW ledger \in BOOLEAN
  PROVE  NewRow(stamp, ledger) \in Row
  BY DEF NewRow, Row, Status, Holding, Occupying, Terminal

(* Outdating an interaction's stamp stays within its values.               *)
LEMMA OutdatedType ==
  ASSUME NEW ask \in {"none", "open", "stale"}
  PROVE  Outdated(ask) \in {"none", "open", "stale"}
  BY DEF Outdated

(* Giving up a lease keeps a row well typed.                               *)
LEMMA ReleasedType ==
  ASSUME NEW row \in Row, NEW target \in Status, NEW ask \in {"none", "open", "stale"}
  PROVE  Released(row, target, ask) \in Row
  BY DEF Released, Row

(* Recovery of an orphaned row (recover_orphaned) keeps it well typed.     *)
LEMMA RecoveredType ==
  ASSUME TypeOK, NEW r \in Runs
  PROVE  Recovered(r) \in Row
<1>1. runs[r] \in Row
  BY DEF TypeOK
<1>2. RecoveryTarget(r) \in Status
  BY DEF RecoveryTarget, Status, Holding, Occupying, Terminal
<1>3. Outdated(runs[r].ask) \in {"none", "open", "stale"}
  BY <1>1, OutdatedType DEF Row
<1> QED
  BY <1>1, <1>2, <1>3, ReleasedType DEF Recovered

(* commit_step writes a well-typed row.                                    *)
LEMMA CommittedType ==
  ASSUME TypeOK, NEW w \in Workers, NEW r \in Runs, NEW target \in Status,
         NEW ledger \in BOOLEAN, NEW err \in {"none", "unknown", "committed"}
  PROVE  Committed(w, r, target, ledger, err) \in Row
<1>1. runs[r] \in Row
  BY DEF TypeOK
<1>2. Outdated(runs[r].ask) \in {"none", "open", "stale"}
  BY <1>1, OutdatedType DEF Row
<1>3. /\ Released(runs[r], target, "open") \in Row
      /\ Released(runs[r], target, Outdated(runs[r].ask)) \in Row
      /\ Released(runs[r], target, "none") \in Row
  BY <1>1, <1>2, ReleasedType
<1>4. runs[r].steps \ {task[w][r].epoch} \in SUBSET Nat
  BY <1>1 DEF Row
<1> DEFINE base == Released(runs[r], target, IF target = "waiting_user" THEN "open"
                              ELSE IF target = "queued" THEN Outdated(runs[r].ask)
                              ELSE "none")
<1>5. base \in Row
  BY <1>3
<1> HIDE DEF base
<1>6. [base EXCEPT !.steps = runs[r].steps \ {task[w][r].epoch},
                   !.ledger = ledger, !.err = err] \in Row
  BY <1>4, <1>5 DEF Row
<1> QED
  BY <1>6 DEF Committed, base

(* The empty store and idle coordinators are well typed.                   *)
THEOREM InitType == Init => TypeOK
<1> SUFFICES ASSUME Init PROVE TypeOK
  OBVIOUS
<1>1. AbsentRow \in Row
  BY NewRowType DEF AbsentRow, NewRow, Row, Status
<1>2. NoTask \in TaskState
  BY DEF NoTask, TaskState
<1>3. granted \in SUBSET Apps
  BY RunStoreAssumption DEF Init
<1> QED
  BY <1>1, <1>2, <1>3 DEF Init, TypeOK

(* The helpers that write task' and runs' keep their types.                *)
LEMMA SetTaskType ==
  ASSUME TypeOK, NEW w \in Workers, NEW r \in Runs, NEW t \in TaskState, SetTask(w, r, t)
  PROVE  task' \in [Workers -> [Runs -> TaskState]]
  BY DEF TypeOK, SetTask

(* Ending a task keeps the tasks well typed.                               *)
LEMMA EndTaskType ==
  ASSUME TypeOK, NEW w \in Workers, NEW r \in Runs, EndTask(w, r)
  PROVE  task' \in [Workers -> [Runs -> TaskState]]
<1>1. [NoTask EXCEPT !.pc = "ended"] \in TaskState
  BY DEF NoTask, TaskState
<1> QED
  BY <1>1, SetTaskType DEF EndTask

(* Recovering any set of Runs keeps the table well typed.                  *)
LEMMA RecoverSetType ==
  ASSUME TypeOK, NEW S, RecoverSet(S)
  PROVE  runs' \in [Runs -> Row]
  BY RecoveredType DEF TypeOK, RecoverSet

(* Starting, stopping and losing a coordinator keeps the types.            *)
LEMMA ProcessType ==
  ASSUME TypeOK, NEW w \in Workers, Process(w)
  PROVE  TypeOK'
<1>1. CASE Start(w)
  BY <1>1, RecoverSetType DEF Start, TypeOK
<1>2. CASE Crash(w)
  <2>1. NoTask \in TaskState
    BY DEF NoTask, TaskState
  <2> QED
    BY <1>2, <2>1 DEF Crash, Mishap, TypeOK
<1>3. CASE BeginShutdown(w)
  <2>1. \A r \in Runs : [task[w][r] EXCEPT !.cancel = @ \/ Running(w, r)] \in TaskState
    <3> TAKE r \in Runs
    <3>1. task[w][r] \in TaskState
      BY DEF TypeOK
    <3>2. (task[w][r].cancel \/ Running(w, r)) \in BOOLEAN
      OBVIOUS
    <3> HIDE DEF Running
    <3> QED
      BY <3>1, <3>2 DEF TaskState
  <2>2. task' \in [Workers -> [Runs -> TaskState]]
    BY <1>3, <2>1 DEF BeginShutdown, TypeOK
  <2> QED
    BY <1>3, <2>2 DEF BeginShutdown, TypeOK
<1>4. CASE ReleaseWorker(w)
  BY <1>4, RecoverSetType DEF ReleaseWorker, TypeOK
<1> QED
  BY <1>1, <1>2, <1>3, <1>4 DEF Process

(* Renewing a lease, or its lapse, keeps a row well typed.                 *)
LEMMA FreshType ==
  ASSUME NEW row \in Row, NEW fresh \in BOOLEAN
  PROVE  [row EXCEPT !.fresh = fresh] \in Row
  BY DEF Row

(* A tick of a coordinator's loops keeps the types.                        *)
LEMMA LoopType ==
  ASSUME TypeOK, NEW w \in Workers, Loop(w)
  PROVE  TypeOK'
<1>1. CASE Heartbeat(w)
  <2>1. \A r \in Runs : runs[r] \in Row /\ [runs[r] EXCEPT !.fresh = TRUE] \in Row
    BY FreshType DEF TypeOK
  <2> QED
    BY <1>1, <2>1 DEF Heartbeat, TypeOK
<1>2. CASE RecoverOrphaned(w)
  BY <1>2, RecoverSetType DEF RecoverOrphaned, TypeOK
<1>3. CASE ClaimNext(w)
  <2>1. PICK r \in Window :
          /\ runs' = [runs EXCEPT ![r] = Claimed(w, r)]
          /\ SetTask(w, r, [NoTask EXCEPT !.pc = "created", !.epoch = runs[r].epoch + 1,
                                          !.ledger = runs[r].ledger])
    BY <1>3 DEF ClaimNext
  <2>2. r \in Runs
    BY DEF Window, Claimable, StatusIn
  <2>3. runs[r] \in Row
    BY <2>2 DEF TypeOK
  <2>4. Outdated(runs[r].ask) \in {"none", "open", "stale"}
    BY <2>3, OutdatedType DEF Row
  <2>a. /\ runs[r].epoch \in Nat /\ runs[r].epoch + 1 \in Nat
        /\ runs[r].ledger \in BOOLEAN
    BY <2>3 DEF Row
  <2>5. [NoTask EXCEPT !.pc = "created", !.epoch = runs[r].epoch + 1,
                       !.ledger = runs[r].ledger] \in TaskState
    BY <2>a DEF NoTask, TaskState
  <2>6. task' \in [Workers -> [Runs -> TaskState]]
    BY <2>1, <2>2, <2>5, SetTaskType
  <2>7. Claimed(w, r) \in Row
    BY <2>3, <2>4, <2>a DEF Claimed, Row, Status, Holding, Occupying
  <2>8. runs' \in [Runs -> Row]
    BY <2>1, <2>2, <2>7 DEF TypeOK
  <2> QED
    BY <1>3, <2>6, <2>8 DEF ClaimNext, TypeOK
<1> QED
  BY <1>1, <1>2, <1>3 DEF Loop

(* Every step of _execute keeps the types.                                 *)
LEMMA ExecuteType ==
  ASSUME TypeOK, NEW w \in Workers, NEW r \in Runs, Execute(w, r)
  PROVE  TypeOK'
<1>a. runs[r] \in Row /\ task[w][r] \in TaskState
  BY DEF TypeOK
<1>b. /\ task[w][r].epoch \in Nat /\ task[w][r].ledger \in BOOLEAN
      /\ runs[r].err \in {"none", "unknown", "committed"}
  BY <1>a DEF TaskState, Row
<1>c. NoTask \in TaskState
  BY DEF NoTask, TaskState
<1>d. {"queued", "waiting_user", "succeeded", "failed", "cancelled", "needs_attention"}
        \subseteq Status
  BY DEF Status, Holding, Occupying, Terminal
<1>e. ASSUME NEW target \in Status, NEW ledger \in BOOLEAN,
             NEW err \in {"none", "unknown", "committed"},
             Publish(w, r, target, ledger, err), effects' \in [Runs -> Nat]
      PROVE  TypeOK'
  <2>1. runs' \in [Runs -> Row]
    BY <1>e, CommittedType DEF Publish, TypeOK
  <2> QED
    BY <1>e, <2>1, EndTaskType DEF Publish, TypeOK
<1>f. ASSUME effects' = effects
      PROVE  effects' \in [Runs -> Nat]
  BY <1>f DEF TypeOK
<1>g. ASSUME effects' = [effects EXCEPT ![r] = IF task[w][r].ledger THEN 0 ELSE @]
      PROVE  effects' \in [Runs -> Nat]
  <2>1. effects \in [Runs -> Nat]
    BY DEF TypeOK
  <2>2. CASE task[w][r].ledger
    BY <1>g, <2>1, <2>2
  <2>3. CASE ~task[w][r].ledger
    BY <1>g, <2>1, <2>3
  <2> QED
    BY <2>2, <2>3
<1>1. CASE RequirePermission(w, r)
  <2>1. Released(runs[r], "waiting_user", "open") \in Row
    BY <1>a, <1>d, ReleasedType
  <2> QED
    BY <1>1, <2>1, EndTaskType DEF RequirePermission, TypeOK
<1>2. CASE FailBeforeStep(w, r)
  BY <1>2, EndTaskType DEF FailBeforeStep, Mishap, TypeOK
<1>3. CASE BeginStep(w, r)
  <2>1. [runs[r] EXCEPT !.steps = @ \cup {task[w][r].epoch}] \in Row
    BY <1>a, <1>b DEF Row
  <2>2. runs' \in [Runs -> Row]
    BY <1>3, <2>1 DEF BeginStep, TypeOK
  <2>3. [task[w][r] EXCEPT !.pc = "started"] \in TaskState
    BY <1>a DEF TaskState
  <2> QED
    BY <1>3, <2>2, <2>3, SetTaskType DEF BeginStep, TypeOK
<1>4. CASE LoseLease(w, r)
  BY <1>4, EndTaskType DEF LoseLease, TypeOK
<1>5. CASE CallAdapter(w, r)
  <2>1. [task[w][r] EXCEPT !.call = "out"] \in TaskState
    BY <1>a DEF TaskState
  <2> QED
    BY <1>5, <2>1, SetTaskType DEF CallAdapter, TypeOK
<1>6. CASE StartWrite(w, r)
  <2>1. /\ [task[w][r] EXCEPT !.call = "out"] \in TaskState
        /\ [task[w][r] EXCEPT !.call = "failing"] \in TaskState
    BY <1>a DEF TaskState
  <2> QED
    BY <1>6, <2>1, SetTaskType DEF StartWrite, TypeOK
<1>7. CASE WriteReturns(w, r)
  <2>1. /\ [task[w][r] EXCEPT !.call = "done", !.ledger = TRUE] \in TaskState
        /\ [task[w][r] EXCEPT !.call = "undone"] \in TaskState
    BY <1>a DEF TaskState
  <2> QED
    BY <1>7, <2>1, SetTaskType DEF WriteReturns, TypeOK
<1>8. CASE CommitProgress(w, r)
  <2>1. PICK target \in {"queued", "waiting_user"} :
          Publish(w, r, target, task[w][r].ledger, runs[r].err)
    BY <1>8 DEF CommitProgress
  <2>2. target \in Status
    BY <1>d
  <2>3. effects' \in [Runs -> Nat]
    BY <1>8, <1>f DEF CommitProgress
  <2> QED
    BY <2>1, <2>2, <2>3, <1>b, <1>e
<1>9. CASE CommitSucceeded(w, r)
  <2>1. effects' \in [Runs -> Nat]
    BY <1>9, <1>f DEF CommitSucceeded
  <2>2. Publish(w, r, "succeeded", task[w][r].ledger, runs[r].err)
    BY <1>9 DEF CommitSucceeded
  <2> QED
    BY <2>1, <2>2, <1>b, <1>d, <1>e
<1>10. CASE AdapterFailed(w, r)
  <2>1. effects' \in [Runs -> Nat]
    BY <1>10, <1>f DEF AdapterFailed
  <2>2. \/ Publish(w, r, "needs_attention", FALSE, "unknown")
        \/ Publish(w, r, "failed", FALSE, "none")
    BY <1>10 DEF AdapterFailed
  <2> QED
    BY <2>1, <2>2, <1>d, <1>e
<1>11. CASE AgentFailed(w, r)
  <2>1. effects' \in [Runs -> Nat]
    BY <1>11, <1>f, <1>g DEF AgentFailed
  <2> QED
    BY <1>11, <2>1, <1>d, <1>e DEF AgentFailed
<1>12. CASE UnwindSilently(w, r)
  BY <1>12, EndTaskType DEF UnwindSilently, TypeOK
<1>13. CASE UnwindCancelled(w, r)
  <2>1. ASSUME NEW ledger \in BOOLEAN, NEW unknown \in BOOLEAN,
               Acknowledged(w, r, ledger, unknown)
        PROVE  /\ runs' \in [Runs -> Row]
               /\ task' \in [Workers -> [Runs -> TaskState]]
    <3>1. (IF unknown THEN "needs_attention" ELSE "cancelled") \in Status
      BY <1>d
    <3>2. Committed(w, r, IF unknown THEN "needs_attention" ELSE "cancelled",
                    ledger, runs[r].err) \in Row
      BY <1>b, <3>1, CommittedType
    <3> QED
      BY <2>1, <3>2, EndTaskType DEF Acknowledged, TypeOK
  <2>2. effects' \in [Runs -> Nat]
    BY <1>13, <1>f, <1>g DEF UnwindCancelled
  <2>3. /\ runs' \in [Runs -> Row]
        /\ task' \in [Workers -> [Runs -> TaskState]]
    BY <1>13, <1>b, <2>1 DEF UnwindCancelled
  <2> QED
    BY <1>13, <2>2, <2>3 DEF UnwindCancelled, TypeOK
<1>14. CASE Finished(w, r)
  <2>1. Released(runs[r], IF runs[r].steps # {} THEN "needs_attention" ELSE "cancelled",
                 "none") \in Row
    BY <1>a, <1>d, ReleasedType
  <2>2. runs' \in [Runs -> Row]
    BY <1>14, <2>1 DEF Finished, TypeOK
  <2> QED
    BY <1>14, <1>c, <2>2, SetTaskType DEF Finished, TypeOK
<1> QED
  BY <1>1, <1>2, <1>3, <1>4, <1>5, <1>6, <1>7, <1>8, <1>9, <1>10, <1>11, <1>12,
     <1>13, <1>14 DEF Execute

(* request_cancel keeps the types.                                         *)
LEMMA CancelType ==
  ASSUME TypeOK, NEW w \in Workers, NEW r \in Runs, Cancel(w, r)
  PROVE  TypeOK'
<1>1. runs[r] \in Row /\ task[w][r] \in TaskState
  BY DEF TypeOK
<1>2. {"cancelled", "cancel_requested", "needs_attention"} \subseteq Status
  BY DEF Status, Holding, Occupying, Terminal
<1>3. /\ [runs[r] EXCEPT !.status = "cancel_requested", !.ask = "none"] \in Row
      /\ [runs[r] EXCEPT !.status = "needs_attention", !.ask = "none", !.err = "unknown"] \in Row
      /\ Released(runs[r], "cancelled", "none") \in Row
  BY <1>1, <1>2, ReleasedType DEF Row
<1>4. runs' \in [Runs -> Row]
  <2>1. CASE runs' = runs
    BY <2>1 DEF TypeOK
  <2>2. CASE \E row \in Row : runs' = [runs EXCEPT ![r] = row]
    BY <2>2 DEF TypeOK
  <2> QED
    BY <2>1, <2>2, <1>3 DEF Cancel
<1>5. task' \in [Workers -> [Runs -> TaskState]]
  <2>1. PICK c \in BOOLEAN : task' = [task EXCEPT ![w][r].cancel = c]
    BY DEF Cancel
  <2>2. [task[w][r] EXCEPT !.cancel = c] \in TaskState
    BY <1>1 DEF TaskState
  <2>3. task' = [task EXCEPT ![w][r] = [task[w][r] EXCEPT !.cancel = c]]
    BY <2>1
  <2> QED
    BY <2>2, <2>3 DEF TypeOK
<1> QED
  BY <1>4, <1>5 DEF Cancel, TypeOK

(* The lapse of a lease keeps the types.                                   *)
LEMMA LeaseExpiresType ==
  ASSUME TypeOK, NEW r \in Runs, LeaseExpires(r)
  PROVE  TypeOK'
<1>1. [runs[r] EXCEPT !.fresh = FALSE] \in Row
  BY FreshType DEF TypeOK
<1>2. runs' = [runs EXCEPT ![r] = [runs[r] EXCEPT !.fresh = FALSE]]
  BY DEF LeaseExpires
<1>3. runs' \in [Runs -> Row]
  BY <1>1, <1>2 DEF TypeOK
<1> QED
  BY <1>3 DEF LeaseExpires, Mishap, TypeOK

(* Submitting, answering, reviewing and retrying keep the types.           *)
LEMMA UserType ==
  ASSUME TypeOK, NEW r \in Runs, User(r)
  PROVE  TypeOK'
<1>1. runs[r] \in Row
  BY DEF TypeOK
<1>2. {"queued", "failed"} \subseteq Status
  BY DEF Status, Terminal
<1>3. clock + 1 \in Nat
  BY DEF TypeOK
<1>4. CASE Submit(r)
  BY <1>3, <1>4, NewRowType DEF Submit, TypeOK
<1>5. ASSUME NEW approved \in BOOLEAN, Resolve(r, approved)
      PROVE  TypeOK'
  <2> DEFINE target == IF r \in Agents \/ approved THEN "queued" ELSE "failed"
  <2>1. target \in Status
    BY <1>2
  <2> HIDE DEF target
  <2>2. [runs[r] EXCEPT !.status = target, !.owner = NoWorker, !.fresh = FALSE,
                        !.ask = "none"] \in Row
    BY <1>1, <2>1 DEF Row
  <2>3. runs' = [runs EXCEPT ![r] =
          [runs[r] EXCEPT !.status = target, !.owner = NoWorker, !.fresh = FALSE,
                          !.ask = "none"]]
    BY <1>5 DEF Resolve, target
  <2>4. runs' \in [Runs -> Row]
    BY <2>2, <2>3 DEF TypeOK
  <2> QED
    BY <1>5, <2>4 DEF Resolve, TypeOK
<1>6. ASSUME NEW committed \in BOOLEAN, Reconcile(r, committed)
      PROVE  TypeOK'
  <2>1. (runs[r].ledger /\ committed) \in BOOLEAN
    OBVIOUS
  <2>2. (IF committed THEN "committed" ELSE "none") \in {"none", "unknown", "committed"}
    OBVIOUS
  <2>3. Reconciled(r, committed) \in Row
    BY <1>1, <1>2, <2>1, <2>2 DEF Reconciled, Row
  <2>4. runs' \in [Runs -> Row]
    BY <1>6, <2>3 DEF Reconcile, TypeOK
  <2>5. effects' \in [Runs -> Nat]
    BY <1>6 DEF Reconcile, TypeOK
  <2> QED
    BY <1>6, <2>4, <2>5 DEF Reconcile, TypeOK
<1>7. ASSUME NEW n \in Runs, Retry(r, n)
      PROVE  TypeOK'
  <2>1. (runs[r].status = "failed" /\ runs[r].ledger) \in BOOLEAN
    OBVIOUS
  <2>2. NewRow(clock + 1, runs[r].status = "failed" /\ runs[r].ledger) \in Row
    BY <1>3, <2>1, NewRowType
  <2> QED
    BY <1>3, <1>7, <2>2 DEF Retry, TypeOK
<1> QED
  BY <1>4, <1>5, <1>6, <1>7 DEF User

(* The two halves of recover_permission_grants keep the types.             *)
LEMMA GrantType ==
  ASSUME TypeOK, NEW r \in Runs, ApplyGrant(r) \/ CompleteGrant(r)
  PROVE  TypeOK'
  BY DEF ApplyGrant, CompleteGrant, Apps, TypeOK

(* TypeOK is inductive.                                                    *)
LEMMA TypeStep == TypeOK /\ [Next]_vars => TypeOK'
<1> SUFFICES ASSUME TypeOK, [Next]_vars PROVE TypeOK'
  OBVIOUS
<1>1. CASE UNCHANGED vars
  BY <1>1 DEF vars, TypeOK
<1>2. CASE \E w \in Workers : Process(w) \/ Loop(w)
  BY <1>2, ProcessType, LoopType
<1>3. CASE \E w \in Workers, r \in Runs : Execute(w, r) \/ Cancel(w, r)
  BY <1>3, ExecuteType, CancelType
<1>4. CASE \E r \in Runs : LeaseExpires(r) \/ User(r) \/ ApplyGrant(r) \/ CompleteGrant(r)
  BY <1>4, LeaseExpiresType, UserType, GrantType
<1> QED
  BY <1>1, <1>2, <1>3, <1>4 DEF Next

(* Every row, task and counter keeps its type through every step: in       *)
(* particular no path writes a status, an interaction or an error outside  *)
(* the ones its readers test for (the status sets of run_service.py).      *)
THEOREM TypeCorrect == Spec => []TypeOK
  BY InitType, TypeStep, PTL DEF Spec

-----------------------------------------------------------------------------
(***************************************************************************)
(* The FIFO promise of a session, the finality of terminal Runs, the       *)
(* fencing of steps and the answerability of waiting Runs, for any number  *)
(* of Runs, coordinators, sessions and Apps and any limits.                *)
(*                                                                         *)
(* Every step moves each row (Move), or serves the queued head of a lane   *)
(* (Serve), or admits a new Run (Admit): lemma Steps.  The invariant IInv  *)
(* is kept by these three kinds of step, and each implements a step of     *)
(* SessionLane.                                                            *)
(***************************************************************************)

(* The part of the invariant that speaks of one row.                       *)
RowOK(row) ==
  /\ row.status = "absent" => row.epoch = 0 /\ row.seat = 0
  /\ row.steps # {} => row.status \in Occupying /\ row.steps = {row.epoch}
  /\ row.ask = (IF row.status = "waiting_user" THEN "open" ELSE "none")

RowsOK == \A r \in Runs : RowOK(runs[r])

(* What every step but a claim and a submission may do to a row.           *)
Move(old, new) ==
  /\ new.seat = old.seat /\ new.epoch = old.epoch
  /\ old.status = "absent" <=> new.status = "absent"
  /\ old.status \in Terminal => new.status = old.status
  /\ new.status \in Occupying => old.status \in Occupying
  /\ RowOK(new)

Moves == clock' = clock /\ \A r \in Runs : Move(runs[r], runs'[r])

Serve(r) ==
  /\ r \in Claimable /\ LaneAvailable(r) /\ HasRoom(r)
  /\ \E w \in Workers : runs' = [runs EXCEPT ![r] = Claimed(w, r)]
  /\ UNCHANGED <<clock, outbox>>

Admit(r) ==
  /\ ~Created(r)
  /\ \E ledger \in BOOLEAN : runs' = [runs EXCEPT ![r] = NewRow(clock + 1, ledger)]
  /\ clock' = clock + 1 /\ UNCHANGED outbox

(* A row may stay as it is.                                                *)
LEMMA MoveSelf ==
  ASSUME NEW row \in Row, RowOK(row)
  PROVE  Move(row, row)
  BY DEF Move

(* A step that leaves the table alone moves every row.                     *)
LEMMA NoMove ==
  ASSUME TypeOK, RowsOK, runs' = runs, clock' = clock
  PROVE  Moves
  BY MoveSelf DEF Moves, RowsOK, TypeOK

(* A step that moves one row moves every row.                              *)
LEMMA OneMove ==
  ASSUME TypeOK, RowsOK, NEW r \in Runs, NEW row, Move(runs[r], row),
         runs' = [runs EXCEPT ![r] = row], clock' = clock
  PROVE  Moves
<1> SUFFICES ASSUME NEW q \in Runs PROVE Move(runs[q], runs'[q])
  BY DEF Moves
<1>1. CASE q = r
  BY <1>1 DEF TypeOK
<1>2. CASE q # r
  <2>1. runs'[q] = runs[q]
    BY <1>2 DEF TypeOK
  <2> QED
    BY <2>1, MoveSelf DEF RowsOK, TypeOK
<1> QED
  BY <1>1, <1>2

(* Giving up the lease, for a target that is not running.                  *)
LEMMA ReleasedMove ==
  ASSUME NEW row \in Row, RowOK(row), row.status \notin Terminal \cup {"absent"},
         NEW target \in Status \ (Occupying \cup {"absent"}),
         NEW ask, ask = (IF target = "waiting_user" THEN "open" ELSE "none")
  PROVE  Move(row, Released(row, target, ask))
<1>1. /\ Released(row, target, ask).status = target
      /\ Released(row, target, ask).steps = {}
      /\ Released(row, target, ask).ask = ask
      /\ Released(row, target, ask).seat = row.seat
      /\ Released(row, target, ask).epoch = row.epoch
  BY DEF Released, Row
<1> QED
  BY <1>1 DEF Move, RowOK

(* Recovery of an orphan moves its row: it ends, waits for review or is    *)
(* requeued, and its step is closed.                                       *)
LEMMA RecoveredMove ==
  ASSUME TypeOK, RowsOK, NEW r \in Runs, runs[r].status \in Occupying
  PROVE  Move(runs[r], Recovered(r))
<1>1. runs[r] \in Row /\ RowOK(runs[r])
  BY DEF TypeOK, RowsOK
<1>2. RecoveryTarget(r) \in {"queued", "cancelled", "needs_attention"}
  BY DEF RecoveryTarget
<1>3. RecoveryTarget(r) \in Status \ (Occupying \cup {"absent"})
  BY <1>2 DEF Status, Holding, Occupying, Terminal
<1>4. runs[r].ask = "none" /\ Outdated(runs[r].ask) = "none"
  BY <1>1 DEF RowOK, Outdated, Occupying
<1>5. runs[r].status \notin Terminal \cup {"absent"}
  BY DEF Occupying, Terminal
<1>6. Move(runs[r], Released(runs[r], RecoveryTarget(r), "none"))
  BY <1>1, <1>2, <1>3, <1>5, ReleasedMove
<1> QED
  BY <1>4, <1>6 DEF Recovered

(* Recovery of several orphans in one transaction moves every row.         *)
LEMMA RecoverSetMoves ==
  ASSUME TypeOK, RowsOK, NEW S, S \subseteq StatusIn(Occupying), RecoverSet(S),
         clock' = clock
  PROVE  Moves
<1> SUFFICES ASSUME NEW q \in Runs PROVE Move(runs[q], runs'[q])
  BY DEF Moves
<1>1. CASE q \in S
  BY <1>1, RecoveredMove DEF RecoverSet, StatusIn
<1>2. CASE q \notin S
  BY <1>2, MoveSelf DEF RecoverSet, RowsOK, TypeOK
<1> QED
  BY <1>1, <1>2

(* A fenced commit_step moves the row: it closes the one open step.        *)
LEMMA CommittedMove ==
  ASSUME TypeOK, RowsOK, NEW w \in Workers, NEW r \in Runs,
         runs[r].status \in Occupying, Owns(w, r),
         NEW target \in Status \ (Occupying \cup {"absent"}), NEW ledger, NEW err
  PROVE  Move(runs[r], Committed(w, r, target, ledger, err))
<1>1. runs[r] \in Row /\ RowOK(runs[r])
  BY DEF TypeOK, RowsOK
<1>2. runs[r].ask = "none" /\ Outdated(runs[r].ask) = "none"
  BY <1>1 DEF RowOK, Outdated, Occupying
<1>3. runs[r].steps \ {task[w][r].epoch} = {}
  BY <1>1 DEF RowOK, Owns
<1> DEFINE ask == IF target = "waiting_user" THEN "open" ELSE "none"
           base == Released(runs[r], target, ask)
<1>4. Move(runs[r], base)
  BY <1>1, ReleasedMove DEF Occupying, Terminal
<1>5. Committed(w, r, target, ledger, err)
        = [base EXCEPT !.steps = {}, !.ledger = ledger, !.err = err]
  BY <1>2, <1>3 DEF Committed
<1>6. base = [runs[r] EXCEPT !.status = target, !.owner = NoWorker, !.fresh = FALSE,
                             !.steps = {}, !.ask = ask]
  BY DEF Released
<1> HIDE DEF ask
<1>7. /\ Committed(w, r, target, ledger, err).status = base.status
      /\ Committed(w, r, target, ledger, err).steps = {}
      /\ Committed(w, r, target, ledger, err).ask = base.ask
      /\ Committed(w, r, target, ledger, err).seat = base.seat
      /\ Committed(w, r, target, ledger, err).epoch = base.epoch
  BY <1>1, <1>5, <1>6 DEF Row
<1> HIDE DEF base
<1> QED
  BY <1>4, <1>7 DEF Move, RowOK

-----------------------------------------------------------------------------
(* Starting, stopping and losing a coordinator moves every row.            *)
LEMMA ProcessSteps ==
  ASSUME TypeOK, RowsOK, NEW w \in Workers, Process(w)
  PROVE  Moves
<1>1. CASE Start(w)
  BY <1>1, RecoverSetMoves DEF Start, Orphans
<1>2. CASE Crash(w) \/ BeginShutdown(w)
  BY <1>2, NoMove DEF Crash, BeginShutdown
<1>3. CASE ReleaseWorker(w)
  <2>1. {r \in StatusIn(Occupying) : runs[r].owner = w} \subseteq StatusIn(Occupying)
    OBVIOUS
  <2> QED
    BY <1>3, <2>1, RecoverSetMoves DEF ReleaseWorker
<1> QED
  BY <1>1, <1>2, <1>3 DEF Process

(* A tick of the loops moves every row or serves one Run.                  *)
LEMMA LoopSteps ==
  ASSUME TypeOK, RowsOK, NEW w \in Workers, Loop(w)
  PROVE  Moves \/ \E r \in Runs : Serve(r)
<1>1. CASE Heartbeat(w)
  <2> SUFFICES ASSUME NEW q \in Runs PROVE Move(runs[q], runs'[q])
    BY <1>1 DEF Heartbeat, Moves
  <2>1. runs[q] \in Row /\ RowOK(runs[q])
    BY DEF TypeOK, RowsOK
  <2>2. Move(runs[q], runs[q])
    BY <2>1, MoveSelf
  <2>3. Move(runs[q], [runs[q] EXCEPT !.fresh = TRUE])
    BY <2>1 DEF Move, RowOK, Row
  <2> QED
    BY <1>1, <2>2, <2>3 DEF Heartbeat
<1>2. CASE RecoverOrphaned(w)
  BY <1>2, RecoverSetMoves DEF RecoverOrphaned, Orphans
<1>3. CASE ClaimNext(w)
  <2>1. PICK r \in Window : Eligible(w, r) /\ runs' = [runs EXCEPT ![r] = Claimed(w, r)]
    BY <1>3 DEF ClaimNext
  <2>2. r \in Claimable /\ r \in Runs
    BY DEF Window, Claimable, StatusIn
  <2>3. Serve(r)
    BY <1>3, <2>1, <2>2 DEF Serve, Eligible, ClaimNext
  <2> QED
    BY <2>2, <2>3
<1> QED
  BY <1>1, <1>2, <1>3 DEF Loop

(* Every step of _execute moves every row.                                 *)
LEMMA ExecuteSteps ==
  ASSUME TypeOK, RowsOK, NEW w \in Workers, NEW r \in Runs, Execute(w, r)
  PROVE  Moves
<1>a. runs[r] \in Row /\ RowOK(runs[r])
  BY DEF TypeOK, RowsOK
<1>b. {"queued", "waiting_user", "succeeded", "failed", "cancelled", "needs_attention"}
        \subseteq Status \ (Occupying \cup {"absent"})
  BY DEF Status, Holding, Occupying, Terminal
<1>c. ASSUME NEW target \in Status \ (Occupying \cup {"absent"}), NEW ledger, NEW err,
             CanCommit(w, r), Publish(w, r, target, ledger, err)
      PROVE  Moves
  <2>1. runs[r].status \in Occupying /\ Owns(w, r)
    BY <1>c DEF CanCommit, Fenced, Occupying
  <2>2. Move(runs[r], Committed(w, r, target, ledger, err))
    BY <2>1, CommittedMove
  <2> QED
    BY <1>c, <2>2, OneMove DEF Publish
<1>1. CASE RequirePermission(w, r)
  <2>1. Move(runs[r], Released(runs[r], "waiting_user", "open"))
    BY <1>1, <1>a, <1>b, ReleasedMove DEF RequirePermission, Fenced, Terminal
  <2> QED
    BY <1>1, <2>1, OneMove DEF RequirePermission
<1>2. CASE FailBeforeStep(w, r) \/ LoseLease(w, r) \/ CallAdapter(w, r)
           \/ StartWrite(w, r) \/ WriteReturns(w, r) \/ UnwindSilently(w, r)
  BY <1>2, NoMove DEF FailBeforeStep, LoseLease, CallAdapter, StartWrite, WriteReturns,
                      UnwindSilently
<1>3. CASE BeginStep(w, r)
  <2> DEFINE row == [runs[r] EXCEPT !.steps = @ \cup {task[w][r].epoch}]
  <2>1. runs[r].status = "running" /\ runs[r].epoch = task[w][r].epoch
    BY <1>3 DEF BeginStep, Fenced, Owns
  <2>2. runs[r].steps \cup {task[w][r].epoch} = {runs[r].epoch}
    BY <1>a, <2>1 DEF RowOK
  <2>3. Move(runs[r], row)
    BY <1>a, <2>1, <2>2 DEF Move, RowOK, Row, Occupying
  <2>4. runs' = [runs EXCEPT ![r] = row]
    BY <1>3 DEF BeginStep
  <2> HIDE DEF row
  <2>5. clock' = clock
    BY <1>3 DEF BeginStep
  <2> QED
    BY <2>3, <2>4, <2>5, OneMove
<1>4. CASE CommitProgress(w, r)
  BY <1>4, <1>b, <1>c DEF CommitProgress
<1>5. CASE CommitSucceeded(w, r)
  BY <1>5, <1>b, <1>c DEF CommitSucceeded
<1>6. CASE AdapterFailed(w, r)
  BY <1>6, <1>b, <1>c DEF AdapterFailed
<1>7. CASE AgentFailed(w, r)
  BY <1>7, <1>b, <1>c DEF AgentFailed
<1>8. CASE UnwindCancelled(w, r)
  <2>1. ASSUME NEW ledger, NEW unknown, Acknowledged(w, r, ledger, unknown)
        PROVE  Moves
    <3> DEFINE target == IF unknown THEN "needs_attention" ELSE "cancelled"
    <3>1. target \in Status \ (Occupying \cup {"absent"})
      BY <1>b
    <3>2. runs[r].status \in Occupying /\ clock' = clock
      BY <1>8 DEF UnwindCancelled, Occupying
    <3>3. CASE Owns(w, r) /\ StepOpen(w, r)
      <4>1. Move(runs[r], Committed(w, r, target, ledger, runs[r].err))
        BY <3>1, <3>2, <3>3, CommittedMove
      <4> QED
        BY <2>1, <3>2, <3>3, <4>1, OneMove DEF Acknowledged
    <3>4. CASE ~(Owns(w, r) /\ StepOpen(w, r))
      BY <2>1, <3>2, <3>4, NoMove DEF Acknowledged
    <3> QED
      BY <3>3, <3>4
  <2> QED
    BY <1>8, <2>1 DEF UnwindCancelled
<1>9. CASE Finished(w, r)
  <2> DEFINE target == IF runs[r].steps # {} THEN "needs_attention" ELSE "cancelled"
  <2>1. clock' = clock
    BY <1>9 DEF Finished
  <2>2. CASE runs[r].status = "cancel_requested" /\ runs[r].owner = w
    <3>1. target \in Status \ (Occupying \cup {"absent"}) /\ target # "waiting_user"
      BY <1>b
    <3>2. Move(runs[r], Released(runs[r], target, "none"))
      BY <1>a, <2>2, <3>1, ReleasedMove DEF Terminal
    <3>3. runs' = [runs EXCEPT ![r] = Released(runs[r], target, "none")]
      BY <1>9, <2>2 DEF Finished
    <3> QED
      BY <2>1, <3>2, <3>3, OneMove
  <2>3. CASE ~(runs[r].status = "cancel_requested" /\ runs[r].owner = w)
    BY <1>9, <2>1, <2>3, NoMove DEF Finished
  <2> QED
    BY <2>2, <2>3
<1> QED
  BY <1>1, <1>2, <1>3, <1>4, <1>5, <1>6, <1>7, <1>8, <1>9 DEF Execute

(* request_cancel moves every row.                                         *)
LEMMA CancelSteps ==
  ASSUME TypeOK, RowsOK, NEW w \in Workers, NEW r \in Runs, Cancel(w, r)
  PROVE  Moves
<1>a. runs[r] \in Row /\ RowOK(runs[r]) /\ clock' = clock
  BY DEF TypeOK, RowsOK, Cancel
<1>1. CASE runs' = runs
  BY <1>a, <1>1, NoMove
<1>2. CASE /\ runs[r].status = "running"
           /\ runs' = [runs EXCEPT ![r] =
                [@ EXCEPT !.status = "cancel_requested", !.ask = "none"]]
  <2>1. Move(runs[r], [runs[r] EXCEPT !.status = "cancel_requested", !.ask = "none"])
    BY <1>a, <1>2 DEF Move, RowOK, Row, Occupying, Terminal
  <2> QED
    BY <1>a, <1>2, <2>1, OneMove
<1>3. CASE /\ runs[r].status \in {"queued", "waiting_user"}
           /\ runs' = [runs EXCEPT ![r] = Released(@, "cancelled", "none")]
  <2>1. "cancelled" \in Status \ (Occupying \cup {"absent"})
    BY DEF Status, Occupying, Terminal
  <2>2. runs[r].status \notin Terminal \cup {"absent"}
    BY <1>3 DEF Terminal
  <2>3. Move(runs[r], Released(runs[r], "cancelled", "none"))
    BY <1>a, <2>1, <2>2, ReleasedMove
  <2> QED
    BY <1>a, <1>3, <2>3, OneMove
<1>4. CASE /\ runs[r].status \in {"queued", "waiting_user"}
           /\ runs' = [runs EXCEPT ![r] =
                [@ EXCEPT !.status = "needs_attention", !.ask = "none", !.err = "unknown"]]
  <2>1. Move(runs[r], [runs[r] EXCEPT !.status = "needs_attention", !.ask = "none",
                                      !.err = "unknown"])
    BY <1>a, <1>4 DEF Move, RowOK, Row, Occupying, Terminal
  <2> QED
    BY <1>a, <1>4, <2>1, OneMove
<1> QED
  BY <1>1, <1>2, <1>3, <1>4 DEF Cancel

(* The lapse of a lease moves every row.                                   *)
LEMMA LeaseExpiresSteps ==
  ASSUME TypeOK, RowsOK, NEW r \in Runs, LeaseExpires(r)
  PROVE  Moves
<1>1. runs[r] \in Row /\ RowOK(runs[r])
  BY DEF TypeOK, RowsOK
<1>2. Move(runs[r], [runs[r] EXCEPT !.fresh = FALSE])
  BY <1>1 DEF Move, RowOK, Row
<1>3. /\ runs' = [runs EXCEPT ![r] = [runs[r] EXCEPT !.fresh = FALSE]]
      /\ clock' = clock
  BY DEF LeaseExpires
<1> QED
  BY <1>2, <1>3, OneMove

(* A user command moves every row or admits one Run.                       *)
LEMMA UserSteps ==
  ASSUME TypeOK, RowsOK, NEW r \in Runs, User(r)
  PROVE  Moves \/ \E n \in Runs : Admit(n)
<1>a. runs[r] \in Row /\ RowOK(runs[r])
  BY DEF TypeOK, RowsOK
<1>1. CASE Submit(r)
  BY <1>1 DEF Submit, Admit
<1>2. ASSUME NEW approved \in BOOLEAN, Resolve(r, approved)
      PROVE  Moves
  <2> DEFINE target == IF r \in Agents \/ approved THEN "queued" ELSE "failed"
             row == [runs[r] EXCEPT !.status = target, !.owner = NoWorker,
                                    !.fresh = FALSE, !.ask = "none"]
  <2>1. runs[r].status = "waiting_user" /\ target \in {"queued", "failed"}
    BY <1>2 DEF Resolve
  <2>2. runs' = [runs EXCEPT ![r] = row] /\ clock' = clock
    BY <1>2 DEF Resolve
  <2> HIDE DEF target
  <2>3. Move(runs[r], row)
    BY <1>a, <2>1 DEF Move, RowOK, Row, Occupying, Terminal
  <2> HIDE DEF row
  <2> QED
    BY <2>2, <2>3, OneMove
<1>3. ASSUME NEW committed \in BOOLEAN, Reconcile(r, committed)
      PROVE  Moves
  <2>1. runs[r].status = "needs_attention" /\ clock' = clock
    BY <1>3 DEF Reconcile
  <2>2. /\ Reconciled(r, committed).status = "failed"
        /\ Reconciled(r, committed).steps = runs[r].steps
        /\ Reconciled(r, committed).ask = runs[r].ask
        /\ Reconciled(r, committed).seat = runs[r].seat
        /\ Reconciled(r, committed).epoch = runs[r].epoch
    BY <1>a DEF Reconciled, Row
  <2>3. Move(runs[r], Reconciled(r, committed))
    BY <1>a, <2>1, <2>2 DEF Move, RowOK, Occupying, Terminal
  <2> QED
    BY <1>3, <2>1, <2>3, OneMove DEF Reconcile
<1>4. ASSUME NEW n \in Runs, Retry(r, n)
      PROVE  Admit(n)
  <2>1. (runs[r].status = "failed" /\ runs[r].ledger) \in BOOLEAN
    OBVIOUS
  <2> QED
    BY <1>4, <2>1 DEF Retry, Admit
<1> QED
  BY <1>1, <1>2, <1>3, <1>4 DEF User

(* Every step of RunStore is of one of the three kinds.                    *)
LEMMA Steps ==
  ASSUME TypeOK, RowsOK, [Next]_vars
  PROVE  Moves \/ \E r \in Runs : Serve(r) \/ Admit(r)
<1>1. CASE UNCHANGED vars
  BY <1>1, NoMove DEF vars
<1>2. CASE \E w \in Workers : Process(w) \/ Loop(w)
  BY <1>2, ProcessSteps, LoopSteps
<1>3. CASE \E w \in Workers, r \in Runs : Execute(w, r) \/ Cancel(w, r)
  BY <1>3, ExecuteSteps, CancelSteps
<1>4. CASE \E r \in Runs : LeaseExpires(r) \/ User(r)
  BY <1>4, LeaseExpiresSteps, UserSteps
<1>5. CASE \E r \in Runs : ApplyGrant(r) \/ CompleteGrant(r)
  BY <1>5, NoMove DEF ApplyGrant, CompleteGrant
<1> QED
  BY <1>1, <1>2, <1>3, <1>4, <1>5 DEF Next

-----------------------------------------------------------------------------
Seats == \A r \in Runs : runs[r].seat <= clock

(* The inductive invariant.  LaneFIFO alone is not inductive: a new Run    *)
(* must sit behind everybody (Seats), and an absent one must not count as  *)
(* claimed (RowOK).                                                        *)
IInv == TypeOK /\ RowsOK /\ Seats /\ LaneFIFO /\ GrantBeforeResume

(* The invariant holds of the empty store.                                 *)
LEMMA IInvInit == Init => IInv
<1> SUFFICES ASSUME Init PROVE IInv
  OBVIOUS
<1>1. TypeOK
  BY InitType
<1>2. \A r \in Runs : /\ runs[r].status = "absent" /\ runs[r].seat = 0
                      /\ runs[r].epoch = 0 /\ runs[r].steps = {} /\ runs[r].ask = "none"
  BY DEF Init, AbsentRow, NewRow
<1>3. RowsOK /\ Seats /\ LaneFIFO
  BY <1>2 DEF RowsOK, RowOK, Seats, LaneFIFO, Init, Created
<1>4. GrantBeforeResume
  BY DEF GrantBeforeResume, Init
<1> QED
  BY <1>1, <1>3, <1>4 DEF IInv

(* Only an approved answer adds a grant intent, and it leaves the Run      *)
(* queued.                                                                 *)
LEMMA OutboxGrows ==
  ASSUME TypeOK, [Next]_vars, NEW r \in outbox'
  PROVE  r \in outbox \/ runs'[r].status = "queued"
<1>1. CASE UNCHANGED vars
  BY <1>1 DEF vars
<1>2. CASE \E w \in Workers : Process(w) \/ Loop(w)
  BY <1>2 DEF Process, Loop, Start, Crash, BeginShutdown, ReleaseWorker, Heartbeat,
              RecoverOrphaned, ClaimNext
<1>3. ASSUME NEW w \in Workers, NEW q \in Runs, Execute(w, q) \/ Cancel(w, q)
      PROVE  outbox' = outbox
  BY <1>3 DEF Execute, RequirePermission, FailBeforeStep, BeginStep, LoseLease, CallAdapter,
              StartWrite, WriteReturns, CommitProgress, CommitSucceeded, AdapterFailed,
              AgentFailed, Publish, UnwindSilently, UnwindCancelled, Finished, Cancel
<1>4. ASSUME NEW q \in Runs, NEW approved \in BOOLEAN, Resolve(q, approved)
      PROVE  r \in outbox \/ runs'[r].status = "queued"
  <2>1. CASE q \notin Agents /\ approved /\ r = q
    BY <1>4, <2>1 DEF Resolve, TypeOK, Row
  <2>2. CASE ~(q \notin Agents /\ approved /\ r = q)
    BY <1>4, <2>2 DEF Resolve
  <2> QED
    BY <2>1, <2>2
<1>5. ASSUME NEW q \in Runs,
             \/ LeaseExpires(q) \/ ApplyGrant(q) \/ CompleteGrant(q) \/ Submit(q)
             \/ \E committed \in BOOLEAN : Reconcile(q, committed)
             \/ \E n \in Runs : Retry(q, n)
      PROVE  outbox' \subseteq outbox
  BY <1>5 DEF LeaseExpires, ApplyGrant, CompleteGrant, Submit, Reconcile, Retry
<1> QED
  BY <1>1, <1>2, <1>3, <1>4, <1>5 DEF Next, User

(* The three kinds of step, row by row.                                    *)
LEMMA ServeRow ==
  ASSUME TypeOK, RowsOK, NEW r \in Runs, Serve(r), NEW q \in Runs
  PROVE  /\ q # r => runs'[q] = runs[q]
         /\ runs[r].status = "queued" /\ runs'[r].status = "running"
         /\ runs'[r].seat = runs[r].seat /\ runs'[r].epoch = runs[r].epoch + 1
         /\ RowOK(runs'[q])
<1>1. PICK w \in Workers : runs' = [runs EXCEPT ![r] = Claimed(w, r)]
  BY DEF Serve
<1>2. runs[r] \in Row /\ RowOK(runs[r]) /\ RowOK(runs[q]) /\ runs[r].status = "queued"
  BY DEF TypeOK, RowsOK, Serve, Claimable, StatusIn
<1>3. Outdated(runs[r].ask) = "none" /\ runs[r].steps = {}
  BY <1>2 DEF RowOK, Outdated, Occupying
<1>4. /\ Claimed(w, r).status = "running" /\ Claimed(w, r).seat = runs[r].seat
      /\ Claimed(w, r).epoch = runs[r].epoch + 1 /\ Claimed(w, r).steps = {}
      /\ Claimed(w, r).ask = "none"
  BY <1>2, <1>3 DEF Claimed, Row
<1>5. RowOK(Claimed(w, r))
  BY <1>4 DEF RowOK
<1>6. runs'[r] = Claimed(w, r) /\ (q # r => runs'[q] = runs[q])
  BY <1>1 DEF TypeOK
<1> QED
  BY <1>2, <1>4, <1>5, <1>6

(* A Run that is admitted takes a seat behind all others.                  *)
LEMMA AdmitRow ==
  ASSUME TypeOK, RowsOK, NEW r \in Runs, Admit(r), NEW q \in Runs
  PROVE  /\ q # r => runs'[q] = runs[q]
         /\ runs[r].seat = 0 /\ runs[r].epoch = 0 /\ runs[r].status = "absent"
         /\ runs'[r].status = "queued" /\ runs'[r].seat = clock + 1
         /\ runs'[r].epoch = 0
         /\ RowOK(runs'[q])
<1>1. PICK ledger \in BOOLEAN : runs' = [runs EXCEPT ![r] = NewRow(clock + 1, ledger)]
  BY DEF Admit
<1>2. RowOK(runs[r]) /\ RowOK(runs[q]) /\ runs[r].status = "absent"
  BY DEF RowsOK, Admit, Created
<1>3. RowOK(NewRow(clock + 1, ledger))
  BY DEF RowOK, NewRow
<1>4. runs'[r] = NewRow(clock + 1, ledger) /\ (q # r => runs'[q] = runs[q])
  BY <1>1 DEF TypeOK
<1> QED
  BY <1>2, <1>3, <1>4 DEF NewRow, RowOK

(* The invariant is inductive.                                             *)
LEMMA IInvStep == IInv /\ [Next]_vars => IInv'
<1> SUFFICES ASSUME IInv, [Next]_vars PROVE IInv'
  OBVIOUS
<1>a. TypeOK /\ RowsOK /\ Seats /\ LaneFIFO /\ GrantBeforeResume
  BY DEF IInv
<1>b. TypeOK'
  BY <1>a, TypeStep
<1>c. \A r \in Runs : runs[r] \in Row /\ runs'[r] \in Row /\ clock \in Nat
  BY <1>a, <1>b DEF TypeOK
<1>d. \A r \in Runs : /\ runs[r].seat \in Nat /\ runs[r].epoch \in Nat
                      /\ runs[r].status \in Status
  BY <1>c DEF Row
<1>1. CASE Moves
  <2>1. RowsOK' /\ Seats'
    BY <1>1, <1>a DEF Moves, Move, RowsOK, Seats
  <2>2. LaneFIFO'
    <3> SUFFICES ASSUME NEW q \in Runs, NEW r \in Runs, SameLane(q, r), Created(q)',
                        runs'[q].seat < runs'[r].seat, runs'[r].epoch > 0
                 PROVE  runs'[q].status \in Terminal
      BY DEF LaneFIFO, SameLane
    <3>1. Created(q) /\ runs[q].seat < runs[r].seat /\ runs[r].epoch > 0
      BY <1>1 DEF Moves, Move, Created
    <3>2. runs[q].status \in Terminal
      BY <1>a, <3>1 DEF LaneFIFO
    <3> QED
      BY <1>1, <3>2 DEF Moves, Move
  <2>3. GrantBeforeResume'
    <3> SUFFICES ASSUME NEW r \in outbox' PROVE runs'[r].status \notin Occupying
      BY DEF GrantBeforeResume
    <3>1. r \in Runs
      BY <1>b DEF TypeOK
    <3> QED
      BY <1>1, <1>a, <3>1, OutboxGrows DEF Moves, Move, GrantBeforeResume, Occupying
  <2> QED
    BY <1>b, <2>1, <2>2, <2>3 DEF IInv
<1>2. ASSUME NEW n \in Runs, Serve(n)
      PROVE  IInv'
  <2>1. RowsOK'
    BY <1>2, <1>a, ServeRow DEF RowsOK
  <2>2. Seats'
    BY <1>2, <1>a, ServeRow DEF Seats, Serve
  <2>3. LaneFIFO'
    <3> SUFFICES ASSUME NEW q \in Runs, NEW r \in Runs, SameLane(q, r), Created(q)',
                        runs'[q].seat < runs'[r].seat, runs'[r].epoch > 0
                 PROVE  runs'[q].status \in Terminal
      BY DEF LaneFIFO, SameLane
    <3>1. /\ Created(q) /\ q # r
          /\ runs[q].seat < runs[r].seat
      BY <1>2, <1>a, <1>d, ServeRow DEF Created
    <3>2. CASE r = n
      <4>1. runs[q].status \notin Holding \cup {"queued", "absent"}
        BY <1>2, <1>d, <3>1, <3>2 DEF Serve, LaneAvailable, Created
      <4>2. runs[q].status \in Terminal
        BY <1>d, <4>1 DEF Status
      <4> QED
        BY <1>2, <1>a, <3>1, <3>2, <4>2, ServeRow
    <3>3. CASE r # n
      <4>1. runs[q].status \in Terminal
        BY <1>2, <1>a, <3>1, <3>3, ServeRow DEF LaneFIFO
      <4>2. q # n
        BY <1>2, <1>a, <4>1, ServeRow DEF Terminal
      <4> QED
        BY <1>2, <1>a, <4>1, <4>2, ServeRow
    <3> QED
      BY <3>2, <3>3
  <2>4. GrantBeforeResume'
    BY <1>2, <1>a, <1>b, ServeRow DEF GrantBeforeResume, Serve, Claimable, TypeOK
  <2> QED
    BY <1>b, <2>1, <2>2, <2>3, <2>4 DEF IInv
<1>3. ASSUME NEW n \in Runs, Admit(n)
      PROVE  IInv'
  <2>1. RowsOK'
    BY <1>3, <1>a, AdmitRow DEF RowsOK
  <2>2. \A r \in Runs : runs'[r].seat <= clock + 1
    BY <1>3, <1>a, <1>c, <1>d, AdmitRow DEF Seats
  <2>3. Seats'
    BY <1>3, <2>2 DEF Seats, Admit
  <2>4. LaneFIFO'
    <3> SUFFICES ASSUME NEW q \in Runs, NEW r \in Runs, SameLane(q, r), Created(q)',
                        runs'[q].seat < runs'[r].seat, runs'[r].epoch > 0
                 PROVE  runs'[q].status \in Terminal
      BY DEF LaneFIFO, SameLane
    <3>1. r # n /\ runs'[r] = runs[r] /\ runs[r].seat <= clock
      BY <1>3, <1>a, AdmitRow DEF Seats
    <3>2. q # n /\ runs'[q] = runs[q]
      BY <1>3, <1>a, <1>c, <1>d, <3>1, AdmitRow
    <3> QED
      BY <1>a, <3>1, <3>2 DEF LaneFIFO, Created
  <2>5. GrantBeforeResume'
    BY <1>3, <1>a, <1>b, AdmitRow DEF GrantBeforeResume, Admit, TypeOK, Occupying
  <2> QED
    BY <1>b, <2>1, <2>3, <2>4, <2>5 DEF IInv
<1> QED
  BY <1>1, <1>2, <1>3, <1>a, Steps

-----------------------------------------------------------------------------
(* IInv holds in every reachable state: types, rows, seats and lanes of    *)
(* the Runs table are as claim_next and its callers keep them.             *)
THEOREM Invariance == Spec => []IInv
  BY IInvInit, IInvStep, PTL DEF Spec

(* A session is served first come, first served: once a Run was claimed,   *)
(* every Run created before it in its session has ended for good, whatever *)
(* crashes, lapsed leases, retries and cancellations intervene             *)
(* (_lane_available in claim_next).                                        *)
THEOREM LaneFIFOHolds == Spec => []LaneFIFO
<1>1. IInv => LaneFIFO
  BY DEF IInv
<1> QED
  BY <1>1, Invariance, PTL

(* An approved permission is persisted before its Run executes again: a    *)
(* Run with a pending grant intent is never claimed.                       *)
THEOREM GrantBeforeResumeHolds == Spec => []GrantBeforeResume
<1>1. IInv => GrantBeforeResume
  BY DEF IInv
<1> QED
  BY <1>1, Invariance, PTL

(* Steps left open belong to the current lease: recovery, waiting and      *)
(* every outcome close the step of the lease they take away.               *)
THEOREM StepsFencedHolds == Spec => []StepsFenced
<1>1. IInv => StepsFenced
  BY DEF IInv, RowsOK, RowOK, StepsFenced
<1> QED
  BY <1>1, Invariance, PTL

(* A waiting Run can always be answered: its interaction is pending and    *)
(* stamped with the row's version; no other Run keeps one pending.         *)
THEOREM WaitingIsAnswerableHolds == Spec => []WaitingIsAnswerable
<1>1. IInv => WaitingIsAnswerable
  BY DEF IInv, RowsOK, RowOK, WaitingIsAnswerable
<1> QED
  BY <1>1, Invariance, PTL

(* No command, recovery or late task changes the status of a Run that has  *)
(* succeeded, failed or been cancelled.                                    *)
THEOREM TerminalIsFinalHolds == Spec => TerminalIsFinal
<1> DEFINE Final == \A r \in Runs : runs[r].status \in Terminal
                                      => runs'[r].status = runs[r].status
<1>1. IInv /\ [Next]_vars => [Final]_vars
  <2> SUFFICES ASSUME IInv, [Next]_vars PROVE Final
    OBVIOUS
  <2>1. TypeOK /\ RowsOK
    BY DEF IInv
  <2>2. CASE Moves
    BY <2>2 DEF Moves, Move
  <2>3. ASSUME NEW n \in Runs, Serve(n) PROVE Final
    BY <2>1, <2>3, ServeRow DEF Terminal
  <2>4. ASSUME NEW n \in Runs, Admit(n) PROVE Final
    BY <2>1, <2>4, AdmitRow DEF Terminal
  <2> QED
    BY <2>1, <2>2, <2>3, <2>4, Steps
<1> QED
  BY <1>1, Invariance, PTL DEF Spec, TerminalIsFinal

(* RunStore implements the lane that SessionLane promises: arrivals take   *)
(* the last seat, only the head of a lane is served, and a Run that left   *)
(* never returns.                                                          *)
THEOREM LaneRefinement == Spec => LaneSpec
<1>1. Init => Lane!Init
  <2> SUFFICES ASSUME Init PROVE Lane!Init
    OBVIOUS
  <2>1. \A r \in Runs : runs[r] = AbsentRow
    BY DEF Init
  <2>2. /\ AbsentRow.status = "absent" /\ AbsentRow.seat = 0 /\ AbsentRow.epoch = 0
    BY DEF AbsentRow, NewRow
  <2> QED
    BY <2>1, <2>2 DEF Lane!Init, StatusIn, Holding, Occupying
<1>2. IInv /\ [Next]_vars => [Lane!Next]_Lane!vars
  <2> SUFFICES ASSUME IInv, [Next]_vars PROVE Lane!Next
    OBVIOUS
  <2>a. TypeOK /\ RowsOK /\ Seats
    BY DEF IInv
  <2>b. \A r \in Runs : /\ runs[r].status \in Status /\ runs[r].seat \in Nat
                        /\ runs[r].epoch \in Nat /\ clock \in Nat
    BY <2>a DEF TypeOK, Row
  <2>1. CASE Moves
    <3>1. \A r \in Runs : runs'[r].status \in Holding \cup {"queued"}
                            => runs[r].status \in Holding \cup {"queued"}
      BY <2>1, <2>b DEF Moves, Move, Status, Holding, Occupying, Terminal
    <3>2. \A r \in Runs : runs'[r].seat = runs[r].seat /\ runs'[r].epoch = runs[r].epoch
      BY <2>1 DEF Moves, Move
    <3>3. Lane!Leave
      BY <3>1, <3>2 DEF Lane!Leave, StatusIn
    <3> QED
      BY <3>3 DEF Lane!Next
  <2>2. ASSUME NEW n \in Runs, Serve(n) PROVE Lane!Next
    <3>1. \A q \in Runs : runs'[q].status \in Holding \cup {"queued"}
                            <=> runs[q].status \in Holding \cup {"queued"}
      BY <2>2, <2>a, ServeRow DEF Holding, Occupying
    <3>2. \A q \in Runs : runs'[q].seat = runs[q].seat
      BY <2>2, <2>a, ServeRow
    <3>3. \A q \in Runs : runs'[q].epoch > 0 <=> runs[q].epoch > 0 \/ q = n
      BY <2>2, <2>a, <2>b, ServeRow
    <3>4. runs[n].status = "queued"
      BY <2>2, <2>a, ServeRow
    <3>5. \A q \in StatusIn(Holding \cup {"queued"}) \ {n} :
             Lane!SameLane(q, n) => runs[n].seat < runs[q].seat
      BY <2>2 DEF Serve, LaneAvailable, StatusIn, SameLane, Lane!SameLane
    <3>6. Lane!Begin(n)
      BY <3>1, <3>2, <3>3, <3>4, <3>5 DEF Lane!Begin, StatusIn
    <3> QED
      BY <3>6 DEF Lane!Next
  <2>3. ASSUME NEW n \in Runs, Admit(n) PROVE Lane!Next
    <3>1. \A q \in Runs : runs'[q].status \in Holding \cup {"queued"}
                            <=> runs[q].status \in Holding \cup {"queued"} \/ q = n
      BY <2>3, <2>a, AdmitRow
    <3>2. /\ \A q \in Runs : q # n => runs'[q].seat = runs[q].seat
          /\ runs[n].seat = 0 /\ \A q \in Runs : runs[q].seat < runs'[n].seat
      BY <2>3, <2>a, <2>b, AdmitRow DEF Seats
    <3>3. \A q \in Runs : runs'[q].epoch > 0 <=> runs[q].epoch > 0
      BY <2>3, <2>a, AdmitRow
    <3>4. Lane!Arrive(n)
      BY <3>1, <3>2, <3>3 DEF Lane!Arrive, StatusIn
    <3> QED
      BY <3>4 DEF Lane!Next
  <2> QED
    BY <2>1, <2>2, <2>3, <2>a, Steps
<1> QED
  BY <1>1, <1>2, Invariance, PTL DEF Spec, LaneSpec, Lane!Spec

-----------------------------------------------------------------------------
(***************************************************************************)
(* The concurrency limits, the fencing of published outcomes and the       *)
(* handling of work that nobody can undo, for any number of Runs,          *)
(* coordinators, sessions and Apps and any limits.                         *)
(***************************************************************************)

(* The limits are inductive once the running Runs are known to be finitely *)
(* many: nothing bounds Runs.                                              *)
Bounded == IsFiniteSet(StatusIn(Occupying)) /\ ConcurrencyBound

OfApp(a) == {r \in StatusIn(Occupying) : AppOf[r] = a}

(* A smaller set of occupying Runs keeps the limits.                       *)
LEMMA FewerKeepBounds ==
  ASSUME Bounded, StatusIn(Occupying)' \subseteq StatusIn(Occupying)
  PROVE  Bounded'
<1> DEFINE new == StatusIn(Occupying)'
<1>1. IsFiniteSet(StatusIn(Occupying)) /\ new \in SUBSET StatusIn(Occupying)
  BY DEF Bounded
<1>2. IsFiniteSet(new) /\ Cardinality(new) <= Cardinality(StatusIn(Occupying))
  BY <1>1, FS_Subset
<1>3. /\ Cardinality(StatusIn(Occupying)) \in Nat /\ Cardinality(new) \in Nat
      /\ GlobalLimit \in Nat /\ OwnerLimit \in Nat
  BY <1>1, <1>2, FS_CardinalityType, RunStoreAssumption
<1>4. Cardinality(new) <= GlobalLimit
  BY <1>2, <1>3 DEF Bounded, ConcurrencyBound
<1>5. ASSUME NEW a \in Apps
      PROVE  Cardinality({r \in new : AppOf[r] = a}) <= OwnerLimit
  <2> DEFINE part == {r \in new : AppOf[r] = a}
  <2>1. IsFiniteSet(OfApp(a))
    <3>1. OfApp(a) \in SUBSET StatusIn(Occupying)
      BY DEF OfApp
    <3> QED
      BY <1>1, <3>1, FS_Subset
  <2>2. part \in SUBSET OfApp(a)
    BY <1>1 DEF OfApp
  <2>3. Cardinality(part) <= Cardinality(OfApp(a)) /\ IsFiniteSet(part)
    BY <2>1, <2>2, FS_Subset
  <2>4. Cardinality(OfApp(a)) \in Nat /\ Cardinality(part) \in Nat
    BY <2>1, <2>3, FS_CardinalityType
  <2>5. Cardinality(OfApp(a)) <= OwnerLimit
    BY DEF Bounded, ConcurrencyBound, OfApp
  <2> QED
    BY <1>3, <2>3, <2>4, <2>5
<1> QED
  BY <1>2, <1>4, <1>5 DEF Bounded, ConcurrencyBound, StatusIn

(* A claim under HasRoom keeps the limits.                                 *)
LEMMA ClaimKeepsBounds ==
  ASSUME Bounded, NEW n \in Runs, HasRoom(n),
         StatusIn(Occupying)' = StatusIn(Occupying) \cup {n}
  PROVE  Bounded'
<1> DEFINE new == StatusIn(Occupying)'
<1>1. IsFiniteSet(StatusIn(Occupying))
  BY DEF Bounded
<1>2. /\ IsFiniteSet(new)
      /\ Cardinality(new) <= Cardinality(StatusIn(Occupying)) + 1
  <2>1. Cardinality(StatusIn(Occupying)) \in Nat
    BY <1>1, FS_CardinalityType
  <2> QED
    BY <1>1, <2>1, FS_AddElement
<1>3. /\ Cardinality(StatusIn(Occupying)) \in Nat /\ Cardinality(new) \in Nat
      /\ GlobalLimit \in Nat /\ OwnerLimit \in Nat
  BY <1>1, <1>2, FS_CardinalityType, RunStoreAssumption
<1>4. Cardinality(new) <= GlobalLimit
  BY <1>2, <1>3 DEF HasRoom
<1>5. ASSUME NEW a \in Apps
      PROVE  Cardinality({r \in new : AppOf[r] = a}) <= OwnerLimit
  <2> DEFINE part == {r \in new : AppOf[r] = a}
  <2>1. IsFiniteSet(OfApp(a))
    <3>1. OfApp(a) \in SUBSET StatusIn(Occupying)
      BY DEF OfApp
    <3> QED
      BY <1>1, <3>1, FS_Subset
  <2>2. Cardinality(OfApp(a)) \in Nat /\ Cardinality(OfApp(a)) <= OwnerLimit
    BY <2>1, FS_CardinalityType DEF Bounded, ConcurrencyBound, OfApp
  <2>3. CASE AppOf[n] = a
    <3>1. part = OfApp(a) \cup {n}
      BY <2>3 DEF OfApp
    <3>2. Cardinality(part) <= Cardinality(OfApp(a)) + 1 /\ IsFiniteSet(part)
      BY <2>1, <2>2, <3>1, FS_AddElement
    <3>3. Cardinality(part) \in Nat
      BY <3>2, FS_CardinalityType
    <3>4. Cardinality(OfApp(a)) < OwnerLimit
      BY <2>3 DEF HasRoom, OfApp
    <3> QED
      BY <1>3, <2>2, <3>2, <3>3, <3>4
  <2>4. CASE AppOf[n] # a
    <3>1. part = OfApp(a)
      BY <2>4 DEF OfApp
    <3> QED
      BY <2>2, <3>1
  <2> QED
    BY <2>3, <2>4
<1> QED
  BY <1>2, <1>4, <1>5 DEF Bounded, ConcurrencyBound, StatusIn

(* The limits hold initially and every step keeps them.                    *)
LEMMA BoundedInit == Init => Bounded
<1> SUFFICES ASSUME Init PROVE Bounded
  OBVIOUS
<1>1. \A r \in Runs : runs[r].status = "absent"
  BY DEF Init, AbsentRow, NewRow
<1>2. StatusIn(Occupying) = {}
  BY <1>1 DEF StatusIn, Occupying
<1>3. \A a : {r \in StatusIn(Occupying) : AppOf[r] = a} = {}
  BY <1>2
<1>4. IsFiniteSet({}) /\ Cardinality({}) = 0
  BY FS_EmptySet
<1>5. 0 <= GlobalLimit /\ 0 <= OwnerLimit
  BY RunStoreAssumption
<1> QED
  BY <1>2, <1>3, <1>4, <1>5 DEF Bounded, ConcurrencyBound

LEMMA BoundedStep == IInv /\ Bounded /\ [Next]_vars => Bounded'
<1> SUFFICES ASSUME IInv, Bounded, [Next]_vars PROVE Bounded'
  OBVIOUS
<1>1. TypeOK /\ RowsOK
  BY DEF IInv
<1>2. CASE Moves
  <2>1. StatusIn(Occupying)' \subseteq StatusIn(Occupying)
    BY <1>2 DEF Moves, Move, StatusIn
  <2> QED
    BY <2>1, FewerKeepBounds
<1>3. ASSUME NEW n \in Runs, Serve(n)
      PROVE  Bounded'
  <2>1. StatusIn(Occupying)' = StatusIn(Occupying) \cup {n}
    BY <1>1, <1>3, ServeRow DEF StatusIn, Occupying
  <2>2. HasRoom(n)
    BY <1>3 DEF Serve
  <2> QED
    BY <2>1, <2>2, ClaimKeepsBounds
<1>4. ASSUME NEW n \in Runs, Admit(n)
      PROVE  Bounded'
  <2>1. StatusIn(Occupying)' \subseteq StatusIn(Occupying)
    BY <1>1, <1>4, AdmitRow DEF StatusIn, Occupying
  <2> QED
    BY <2>1, FewerKeepBounds
<1> QED
  BY <1>1, <1>2, <1>3, <1>4, Steps

(* Overlapping coordinators together never occupy more slots than the      *)
(* global limit, nor more of one App than its limit: claim_next counts and *)
(* claims in one transaction, and no other path makes a Run occupy a slot. *)
THEOREM ConcurrencyBoundHolds == Spec => []ConcurrencyBound
<1>1. Bounded => ConcurrencyBound
  BY DEF Bounded
<1> QED
  BY <1>1, BoundedInit, BoundedStep, Invariance, PTL DEF Spec

-----------------------------------------------------------------------------
(* Only the task that holds the current lease epoch publishes an outcome   *)
(* or a question of a running Run (commit_step, wait_for_interaction):     *)
(* recovery, cancellation and late tasks never do.                         *)
Published(r) ==
  runs[r].status = "running" /\ runs'[r].status \in {"succeeded", "failed", "waiting_user"}

ByHolder(r) == \E w \in Workers : Running(w, r) /\ Owns(w, r) /\ task'[w][r].pc = "ended"

(* EndTask ends exactly the task it names.                                 *)
LEMMA EndTaskEnds ==
  ASSUME TypeOK, NEW w \in Workers, NEW r \in Runs, EndTask(w, r)
  PROVE  task'[w][r].pc = "ended" /\ task'[w][r].call = "idle"
<1>1. [NoTask EXCEPT !.pc = "ended"].pc = "ended" /\ [NoTask EXCEPT !.pc = "ended"].call = "idle"
  BY DEF NoTask
<1> QED
  BY <1>1 DEF EndTask, SetTask, TypeOK

(* Recovery publishes nothing.                                             *)
LEMMA RecoveryPublishesNothing ==
  ASSUME TypeOK, NEW S, RecoverSet(S), NEW r \in Runs
  PROVE  ~Published(r)
<1>1. CASE r \in S
  <2>1. runs'[r].status = RecoveryTarget(r)
    <3>1. runs[r] \in Row /\ runs'[r] = Recovered(r)
      BY <1>1 DEF TypeOK, RecoverSet
    <3> QED
      BY <3>1 DEF Recovered, Released, Row
  <2> QED
    BY <2>1 DEF RecoveryTarget, Published
<1>2. CASE r \notin S
  BY <1>2 DEF RecoverSet, Published
<1> QED
  BY <1>1, <1>2

(* Of the steps of _execute, only fenced ones publish.                     *)
LEMMA ExecutePublishes ==
  ASSUME TypeOK, NEW w \in Workers, NEW q \in Runs, Execute(w, q), NEW r \in Runs, Published(r)
  PROVE  ByHolder(r)
<1>1. CASE UNCHANGED runs
  BY <1>1 DEF Published
<1>2. CASE BeginStep(w, q)
  <2>1. runs'[r].status = runs[r].status
    BY <1>2 DEF BeginStep, TypeOK, Row
  <2> QED
    BY <2>1 DEF Published
<1>3. CASE RequirePermission(w, q)
  <2>1. runs' = [runs EXCEPT ![q] = Released(runs[q], "waiting_user", "open")]
    BY <1>3 DEF RequirePermission
  <2>2. r = q
    BY <2>1 DEF Published, TypeOK
  <2> QED
    BY <1>3, <2>2, EndTaskEnds DEF RequirePermission, Uncancelled, Fenced, Running, ByHolder
<1>4. CASE CanCommit(w, q) /\ EndTask(w, q)
           /\ \E row : runs' = [runs EXCEPT ![q] = row]
  <2>1. r = q
    BY <1>4 DEF Published, TypeOK
  <2> QED
    BY <1>4, <2>1, EndTaskEnds DEF CanCommit, Uncancelled, Fenced, Running, ByHolder
<1>5. CASE UnwindCancelled(w, q)
  <2>1. runs[q].status = "cancel_requested"
    BY <1>5 DEF UnwindCancelled
  <2>2. runs' = runs \/ \E row : runs' = [runs EXCEPT ![q] = row]
    BY <1>5 DEF UnwindCancelled, Acknowledged
  <2> QED
    BY <2>1, <2>2 DEF Published, TypeOK
<1>6. CASE Finished(w, q)
  <2>1. \/ runs' = runs
        \/ runs[q].status = "cancel_requested" /\ \E row : runs' = [runs EXCEPT ![q] = row]
    BY <1>6 DEF Finished
  <2> QED
    BY <2>1 DEF Published, TypeOK
<1>7. CASE CommitProgress(w, q) \/ CommitSucceeded(w, q) \/ AdapterFailed(w, q)
           \/ AgentFailed(w, q)
  BY <1>4, <1>7 DEF CommitProgress, CommitSucceeded, AdapterFailed, AgentFailed, Publish
<1> QED
  BY <1>1, <1>2, <1>3, <1>5, <1>6, <1>7
  DEF Execute, FailBeforeStep, LoseLease, CallAdapter, StartWrite, WriteReturns, UnwindSilently

(* The other steps leave a running Run running, or publish nothing.        *)
LEMMA OthersPublishNothing ==
  ASSUME TypeOK, Next, NEW r \in Runs, Published(r)
  PROVE  \E w \in Workers, q \in Runs : Execute(w, q)
<1> SUFFICES ASSUME \A w \in Workers, q \in Runs : ~Execute(w, q) PROVE FALSE
  OBVIOUS
<1>1. ASSUME NEW w \in Workers, Process(w) \/ Loop(w) PROVE FALSE
  <2>1. CASE \E S : RecoverSet(S)
    BY <2>1, RecoveryPublishesNothing
  <2>2. CASE Crash(w) \/ BeginShutdown(w)
    BY <2>2 DEF Crash, BeginShutdown, Published
  <2>3. CASE Heartbeat(w)
    BY <2>3 DEF Heartbeat, Published, TypeOK, Row
  <2>4. CASE ClaimNext(w)
    <3>1. PICK q \in Window : runs' = [runs EXCEPT ![q] = Claimed(w, q)]
      BY <2>4 DEF ClaimNext
    <3>2. q \in Runs /\ runs[q].status = "queued"
      BY DEF Window, Claimable, StatusIn
    <3> QED
      BY <3>1, <3>2 DEF Published, TypeOK
  <2> QED
    BY <1>1, <2>1, <2>2, <2>3, <2>4
    DEF Process, Loop, Start, ReleaseWorker, RecoverOrphaned
<1>2. ASSUME NEW w \in Workers, NEW q \in Runs, Cancel(w, q) PROVE FALSE
  <2>1. CASE q = r
    <3>1. \/ runs' = runs
          \/ runs' = [runs EXCEPT ![r] =
               [runs[r] EXCEPT !.status = "cancel_requested", !.ask = "none"]]
      BY <1>2, <2>1 DEF Cancel, Published
    <3>2. runs'[r].status \in {runs[r].status, "cancel_requested"}
      BY <3>1 DEF TypeOK, Row
    <3> QED
      BY <3>2 DEF Published
  <2>2. CASE q # r
    <3>1. runs'[r] = runs[r]
      BY <1>2, <2>2 DEF Cancel, TypeOK
    <3> QED
      BY <3>1 DEF Published
  <2> QED
    BY <2>1, <2>2
<1>3. ASSUME NEW q \in Runs, LeaseExpires(q) PROVE FALSE
  BY <1>3 DEF LeaseExpires, Published, TypeOK, Row
<1>4. ASSUME NEW q \in Runs, User(q) PROVE FALSE
  <2>1. \E n \in Runs : \E row : runs' = [runs EXCEPT ![n] = row] /\ runs[n].status # "running"
    BY <1>4 DEF User, Submit, Resolve, Reconcile, Retry, Created
  <2> QED
    BY <2>1 DEF Published, TypeOK
<1>5. ASSUME NEW q \in Runs, ApplyGrant(q) \/ CompleteGrant(q) PROVE FALSE
  BY <1>5 DEF ApplyGrant, CompleteGrant, Published
<1> QED
  BY <1>1, <1>2, <1>3, <1>4, <1>5 DEF Next

(* A fenced-out task leaves no result and no question, whatever stalls and *)
(* restarts separate it from its lease.                                    *)
THEOREM OnlyLeaseholderPublishesHolds == Spec => OnlyLeaseholderPublishes
<1> DEFINE Rule == \A r \in Runs :
     runs[r].status = "running" /\ runs'[r].status \in {"succeeded", "failed", "waiting_user"}
       => \E w \in Workers : Running(w, r) /\ Owns(w, r) /\ task'[w][r].pc = "ended"
<1>1. TypeOK /\ [Next]_vars => [Rule]_vars
  <2> SUFFICES ASSUME TypeOK, Next, NEW r \in Runs, Published(r) PROVE ByHolder(r)
    BY DEF Published, ByHolder
  <2> QED
    BY OthersPublishNothing, ExecutePublishes
<1> QED
  BY <1>1, TypeCorrect, PTL DEF Spec, OnlyLeaseholderPublishes

-----------------------------------------------------------------------------
(***************************************************************************)
(* Work whose effects nobody can undo: the adapter Runs that are not       *)
(* restart-safe.                                                           *)
(***************************************************************************)
Manual == Runs \ RestartSafe

(* Rows no task may be at work on.                                         *)
Parked == {"absent", "queued", "waiting_user"}

(* At most one task ever works on a manual Run, since recovery never       *)
(* requeues it; before its request leaves, no effect is outstanding; and a *)
(* Run that may be claimed again has neither a task nor an effect.  Lapsed *)
(* leases do not matter here.                                              *)
Once(r) ==
  /\ effects[r] <= 1
  /\ runs[r].status \in Parked => effects[r] = 0 /\ \A w \in Workers : ~Running(w, r)
  /\ \A w \in Workers : Running(w, r) =>
       /\ task[w][r].call \in {"idle", "out"}
       /\ task[w][r].pc = "created" => task[w][r].call = "idle"
       /\ task[w][r].call = "idle" => effects[r] = 0
       /\ \A v \in Workers : Running(v, r) => v = w

AllOnce == \A r \in Manual : Once(r)

(* What most steps do to a manual Run: no task is added to it and those    *)
(* that go on keep their call; an effect is at most resolved; the row does *)
(* not become claimable.                                                   *)
Fewer(r) ==
  \A w \in Workers : Running(w, r)' =>
    /\ Running(w, r) /\ task'[w][r].call = task[w][r].call
    /\ task'[w][r].pc = "created" => task[w][r].pc = "created"

Calm(r) ==
  /\ Fewer(r)
  /\ effects'[r] = effects[r] \/ effects'[r] = 0
  /\ runs'[r].status \in Parked => runs[r].status \in Parked

LEMMA CalmKeepsOnce ==
  ASSUME NEW r \in Manual, effects[r] \in Nat, Once(r), Calm(r)
  PROVE  Once(r)'
<1>1. effects'[r] <= 1
  BY DEF Once, Calm
<1>2. runs'[r].status \in Parked => effects'[r] = 0 /\ \A w \in Workers : ~Running(w, r)'
  BY DEF Once, Calm, Fewer
<1>3. ASSUME NEW w \in Workers, Running(w, r)'
      PROVE  /\ task'[w][r].call \in {"idle", "out"}
             /\ task'[w][r].pc = "created" => task'[w][r].call = "idle"
             /\ task'[w][r].call = "idle" => effects'[r] = 0
             /\ \A v \in Workers : Running(v, r)' => v = w
  BY <1>3 DEF Once, Calm, Fewer
<1> QED
  BY <1>1, <1>2, <1>3 DEF Once

(* Where the tasks and the rows that a step does not name are found.       *)
LEMMA TaskAt ==
  ASSUME TypeOK, NEW w \in Workers, NEW q \in Runs, NEW t, SetTask(w, q, t),
         NEW v \in Workers, NEW r \in Runs
  PROVE  task'[v][r] = IF v = w /\ r = q THEN t ELSE task[v][r]
  BY DEF TypeOK, SetTask

LEMMA SameTasks ==
  ASSUME task' = task, NEW r \in Runs
  PROVE  Fewer(r)
  BY DEF Fewer, Running

(* A task that ends, or goes on with its call, adds nothing to a Run.      *)
LEMMA EndTaskFewer ==
  ASSUME TypeOK, NEW w \in Workers, NEW q \in Runs, EndTask(w, q), NEW r \in Runs
  PROVE  Fewer(r)
<1>1. [NoTask EXCEPT !.pc = "ended"].pc = "ended"
  BY DEF NoTask
<1>2. \A v \in Workers :
        task'[v][r] = IF v = w /\ r = q THEN [NoTask EXCEPT !.pc = "ended"] ELSE task[v][r]
  BY TaskAt DEF EndTask
<1> QED
  BY <1>1, <1>2 DEF Fewer, Running

(* Recovery does not put a manual Run back in the queue.                   *)
LEMMA RecoveryStatus ==
  ASSUME TypeOK, NEW S, RecoverSet(S), NEW r \in Manual
  PROVE  runs'[r].status \in Parked => runs[r].status \in Parked
<1>1. CASE r \in S
  <2>1. runs'[r].status = RecoveryTarget(r)
    <3>1. runs[r] \in Row /\ runs'[r] = Recovered(r)
      BY <1>1 DEF TypeOK, RecoverSet, Manual
    <3> QED
      BY <3>1 DEF Recovered, Released, Row
  <2> QED
    BY <2>1 DEF RecoveryTarget, Parked, Manual
<1>2. CASE r \notin S
  BY <1>2 DEF RecoverSet, Manual
<1> QED
  BY <1>1, <1>2

(* Coordinators that start, stop, die, tick and recover are calm.          *)
LEMMA ProcessCalm ==
  ASSUME TypeOK, NEW w \in Workers, Process(w) \/ Heartbeat(w) \/ RecoverOrphaned(w),
         NEW r \in Manual
  PROVE  Calm(r)
<1>a. r \in Runs
  BY DEF Manual
<1>1. CASE task' = task /\ effects' = effects /\ \E S : RecoverSet(S)
  BY <1>1, <1>a, SameTasks, RecoveryStatus DEF Calm
<1>2. CASE Crash(w)
  <2>1. \A v \in Workers : task'[v][r] = IF v = w THEN NoTask ELSE task[v][r]
    BY <1>2, <1>a DEF Crash, TypeOK
  <2>2. Fewer(r)
    BY <2>1 DEF Fewer, Running, NoTask
  <2> QED
    BY <1>2, <2>2 DEF Crash, Calm
<1>3. CASE BeginShutdown(w)
  <2>1. task[w][r] \in TaskState
    BY <1>a DEF TypeOK
  <2>2. \A v \in Workers : task'[v][r] =
          IF v = w THEN [task[w][r] EXCEPT !.cancel = @ \/ Running(w, r)] ELSE task[v][r]
    BY <1>3, <1>a DEF BeginShutdown, TypeOK
  <2>3. Fewer(r)
    BY <2>1, <2>2 DEF Fewer, Running, TaskState
  <2> QED
    BY <1>3, <2>3 DEF BeginShutdown, Calm
<1>4. CASE Heartbeat(w)
  <2>1. runs'[r].status = runs[r].status
    BY <1>4, <1>a DEF Heartbeat, TypeOK, Row
  <2> QED
    BY <1>4, <1>a, <2>1, SameTasks DEF Heartbeat, Calm
<1> QED
  BY <1>1, <1>2, <1>3, <1>4 DEF Process, Start, ReleaseWorker, RecoverOrphaned

(* A claim gives the Run its only task.                                    *)
LEMMA ClaimOnce ==
  ASSUME TypeOK, AllOnce, NEW w \in Workers, ClaimNext(w), NEW r \in Manual
  PROVE  Once(r)'
<1>1. PICK q \in Window :
        /\ runs' = [runs EXCEPT ![q] = Claimed(w, q)]
        /\ SetTask(w, q, [NoTask EXCEPT !.pc = "created", !.epoch = runs[q].epoch + 1,
                                        !.ledger = runs[q].ledger])
  BY DEF ClaimNext
<1>2. /\ q \in Runs /\ r \in Runs /\ runs[q].status = "queued" /\ Once(r)
      /\ effects[r] \in Nat /\ effects' = effects
  BY DEF Window, Claimable, StatusIn, Manual, AllOnce, TypeOK, ClaimNext
<1> DEFINE t == [NoTask EXCEPT !.pc = "created", !.epoch = runs[q].epoch + 1,
                               !.ledger = runs[q].ledger]
<1>3. t.pc = "created" /\ t.call = "idle"
  BY DEF NoTask
<1>4. \A v \in Workers : task'[v][r] = IF v = w /\ r = q THEN t ELSE task[v][r]
  BY <1>1, <1>2, TaskAt
<1> HIDE DEF t
<1>5. CASE q = r
  <2>1. runs'[r].status = "running"
    BY <1>1, <1>2, <1>5 DEF TypeOK, Claimed, Row
  <2>2. effects'[r] = 0 /\ \A v \in Workers : ~Running(v, r)
    BY <1>2, <1>5 DEF Once, Parked
  <2>3. \A v \in Workers : Running(v, r)' => v = w /\ task'[v][r] = t
    BY <1>4, <2>2 DEF Running
  <2> QED
    BY <1>3, <2>1, <2>2, <2>3 DEF Once, Parked
<1>6. CASE q # r
  <2>1. Calm(r)
    BY <1>1, <1>2, <1>4, <1>6 DEF Calm, Fewer, Running, TypeOK
  <2> QED
    BY <1>2, <2>1, CalmKeepsOnce
<1> QED
  BY <1>5, <1>6

(* The row of a Run after a step that writes one row.                      *)
LEMMA RowAt ==
  ASSUME TypeOK, NEW q \in Runs, NEW row, runs' = [runs EXCEPT ![q] = row], NEW r \in Runs
  PROVE  runs'[r] = IF r = q THEN row ELSE runs[r]
  BY DEF TypeOK

(* A status that a commit publishes for a manual Run is not claimable.     *)
LEMMA CommittedStatus ==
  ASSUME TypeOK, NEW w \in Workers, NEW q \in Runs, NEW target, NEW ledger, NEW err
  PROVE  Committed(w, q, target, ledger, err).status = target
<1>1. runs[q] \in Row
  BY DEF TypeOK
<1> DEFINE base == Released(runs[q], target, IF target = "waiting_user" THEN "open"
                              ELSE IF target = "queued" THEN Outdated(runs[q].ask)
                              ELSE "none")
<1>2. base.status = target /\ DOMAIN base = DOMAIN runs[q]
  BY <1>1 DEF Released, Row
<1> HIDE DEF base
<1>3. Committed(w, q, target, ledger, err).status = base.status
  BY <1>1, <1>2 DEF Committed, Row, base, Released
<1> QED
  BY <1>2, <1>3

(* Publishing an outcome is calm.                                          *)
LEMMA PublishCalm ==
  ASSUME TypeOK, NEW w \in Workers, NEW q \in Runs, NEW target, NEW ledger, NEW err,
         Publish(w, q, target, ledger, err), NEW r \in Manual,
         effects'[r] = effects[r], r = q => target \notin Parked
  PROVE  Calm(r)
<1> DEFINE row == Committed(w, q, target, ledger, err)
<1>1. r \in Runs /\ runs' = [runs EXCEPT ![q] = row]
  BY DEF Publish, Manual
<1> HIDE DEF row
<1>4. runs'[r] = IF r = q THEN row ELSE runs[r]
  BY <1>1, RowAt
<1>2. Fewer(r)
  BY <1>1, EndTaskFewer DEF Publish
<1>3. runs'[r].status \in Parked => runs[r].status \in Parked
  BY <1>4, CommittedStatus DEF row
<1> QED
  BY <1>2, <1>3 DEF Calm

(* The steps of a task keep a manual Run to one call.                      *)
LEMMA ExecuteOnce ==
  ASSUME TypeOK, AllOnce, NEW w \in Workers, NEW q \in Runs, Execute(w, q), NEW r \in Manual
  PROVE  Once(r)'
<1>a. /\ r \in Runs /\ r \notin Agents /\ r \notin RestartSafe /\ Once(r)
      /\ effects[r] \in Nat /\ task[w][q] \in TaskState /\ runs[q] \in Row
  BY RunStoreAssumption DEF Manual, AllOnce, TypeOK
<1>b. ASSUME Calm(r) PROVE Once(r)'
  BY <1>a, <1>b, CalmKeepsOnce
<1>1. CASE RequirePermission(w, q)
  <2>1. EndTask(w, q) /\ effects' = effects
        /\ runs' = [runs EXCEPT ![q] = Released(runs[q], "waiting_user", "open")]
    BY <1>1 DEF RequirePermission
  <2>2. Fewer(r)
    BY <1>a, <2>1, EndTaskFewer
  <2>3. CASE r # q
    BY <1>b, <2>1, <2>2, <2>3, <1>a, RowAt DEF Calm
  <2>4. CASE r = q
    <3>1. Running(w, r) /\ task[w][r].pc = "created"
      BY <1>1, <2>4 DEF RequirePermission, Uncancelled, Running
    <3>2. effects'[r] = 0 /\ \A v \in Workers : Running(v, r) => v = w
      BY <1>a, <2>1, <3>1 DEF Once
    <3>3. task'[w][r].pc = "ended"
      BY <2>1, <2>4, EndTaskEnds
    <3>4. \A v \in Workers : ~Running(v, r)'
      BY <2>2, <3>2, <3>3 DEF Fewer, Running
    <3> QED
      BY <3>2, <3>4 DEF Once
  <2> QED
    BY <2>3, <2>4
<1>2. CASE FailBeforeStep(w, q) \/ LoseLease(w, q) \/ UnwindSilently(w, q)
  BY <1>2, <1>a, <1>b, EndTaskFewer DEF FailBeforeStep, LoseLease, UnwindSilently, Calm
<1>3. CASE BeginStep(w, q)
  <2>1. runs'[r].status = runs[r].status
    BY <1>3, <1>a DEF BeginStep, TypeOK, Row
  <2>2. \A v \in Workers :
          task'[v][r] = IF v = w /\ r = q THEN [task[w][q] EXCEPT !.pc = "started"]
                        ELSE task[v][r]
    BY <1>3, <1>a, TaskAt DEF BeginStep
  <2>3. Running(w, q)
    BY <1>3 DEF BeginStep, Uncancelled, Running
  <2>4. Fewer(r)
    BY <1>a, <2>2, <2>3 DEF Fewer, Running, TaskState
  <2> QED
    BY <1>3, <1>b, <2>1, <2>4 DEF BeginStep, Calm
<1>4. CASE CallAdapter(w, q)
  <2> DEFINE t == [task[w][q] EXCEPT !.call = "out"]
  <2>1. \A v \in Workers : task'[v][r] = IF v = w /\ r = q THEN t ELSE task[v][r]
    BY <1>4, <1>a, TaskAt DEF CallAdapter
  <2>2. t.pc = "started" /\ t.call = "out" /\ runs' = runs
    BY <1>4, <1>a DEF CallAdapter, Uncancelled, TaskState
  <2> HIDE DEF t
  <2>3. CASE r = q
    <3>1. Running(w, r) /\ task[w][r].call = "idle"
      BY <1>4, <2>3 DEF CallAdapter, Uncancelled, Running
    <3>2. /\ effects[r] = 0 /\ \A v \in Workers : Running(v, r) => v = w
          /\ runs[r].status \notin Parked
      BY <1>a, <3>1 DEF Once
    <3>3. effects'[r] = 1
      BY <1>4, <1>a, <2>3, <3>2 DEF CallAdapter, TypeOK
    <3>4. \A v \in Workers : Running(v, r)' => v = w /\ task'[v][r] = t
      BY <2>1, <2>3, <3>2 DEF Running
    <3> QED
      BY <2>2, <3>2, <3>3, <3>4 DEF Once
  <2>4. CASE r # q
    <3>1. effects'[r] = effects[r]
      BY <1>4, <1>a, <2>4 DEF CallAdapter, TypeOK
    <3>2. Fewer(r)
      BY <2>1, <2>4 DEF Fewer, Running
    <3> QED
      BY <1>b, <2>2, <3>1, <3>2 DEF Calm
  <2> QED
    BY <2>3, <2>4
<1>5. CASE StartWrite(w, q) \/ WriteReturns(w, q)
  <2>1. r # q /\ runs' = runs /\ \E t : SetTask(w, q, t)
    BY <1>5, <1>a DEF StartWrite, WriteReturns
  <2>2. effects'[r] = effects[r]
    BY <1>5, <1>a, <2>1 DEF StartWrite, WriteReturns, TypeOK
  <2>3. Fewer(r)
    BY <1>a, <2>1, TaskAt DEF Fewer, Running
  <2> QED
    BY <1>b, <2>1, <2>2, <2>3 DEF Calm
<1>6. CASE CommitProgress(w, q)
  <2>1. r # q /\ effects' = effects
    BY <1>6, <1>a DEF CommitProgress
  <2> QED
    BY <1>6, <1>b, <2>1, PublishCalm DEF CommitProgress
<1>7. CASE CommitSucceeded(w, q)
  <2>1. Publish(w, q, "succeeded", task[w][q].ledger, runs[q].err) /\ effects' = effects
    BY <1>7 DEF CommitSucceeded
  <2> QED
    BY <1>b, <2>1, PublishCalm DEF Parked
<1>8. CASE AdapterFailed(w, q)
  <2>1. /\ \/ Publish(w, q, "needs_attention", FALSE, "unknown")
           \/ Publish(w, q, "failed", FALSE, "none")
        /\ effects' = effects
    BY <1>8 DEF AdapterFailed
  <2>2. "needs_attention" \notin Parked /\ "failed" \notin Parked
    BY DEF Parked
  <2>3. ASSUME NEW target \in {"needs_attention", "failed"}, NEW err,
               Publish(w, q, target, FALSE, err)
        PROVE  Calm(r)
    BY <2>1, <2>2, <2>3, PublishCalm
  <2> QED
    BY <1>b, <2>1, <2>3
<1>9. CASE AgentFailed(w, q)
  <2>1. r # q /\ effects'[r] = effects[r]
    BY <1>9, <1>a DEF AgentFailed, TypeOK
  <2> QED
    BY <1>9, <1>b, <2>1, PublishCalm DEF AgentFailed
<1>10. CASE UnwindCancelled(w, q)
  <2>1. EndTask(w, q)
    BY <1>10 DEF UnwindCancelled, Acknowledged
  <2>2. effects'[r] = effects[r]
    BY <1>10, <1>a DEF UnwindCancelled, TypeOK
  <2>3. runs'[r].status \in {runs[r].status, "needs_attention", "cancelled"}
    <3>1. \/ runs' = runs
          \/ \E target \in {"needs_attention", "cancelled"} : \E ledger, err :
               runs' = [runs EXCEPT ![q] = Committed(w, q, target, ledger, err)]
      BY <1>10 DEF UnwindCancelled, Acknowledged
    <3> QED
      BY <3>1, <1>a, RowAt, CommittedStatus
  <2> QED
    BY <1>a, <1>b, <2>1, <2>2, <2>3, EndTaskFewer DEF Calm, Parked
<1>11. CASE Finished(w, q)
  <2>1. \A v \in Workers : task'[v][r] = IF v = w /\ r = q THEN NoTask ELSE task[v][r]
    BY <1>11, <1>a, TaskAt DEF Finished
  <2>2. Fewer(r)
    BY <2>1 DEF Fewer, Running, NoTask
  <2>3. runs'[r].status \in {runs[r].status, "needs_attention", "cancelled"}
    <3>1. \/ runs' = runs
          \/ \E target \in {"needs_attention", "cancelled"} :
               runs' = [runs EXCEPT ![q] = Released(runs[q], target, "none")]
      BY <1>11 DEF Finished
    <3>2. ASSUME NEW target \in {"needs_attention", "cancelled"}
          PROVE  Released(runs[q], target, "none").status = target
      BY <1>a DEF Released, Row
    <3> QED
      BY <3>1, <3>2, <1>a, RowAt
  <2> QED
    BY <1>11, <1>b, <2>2, <2>3 DEF Finished, Calm, Parked
<1> QED
  BY <1>1, <1>2, <1>3, <1>4, <1>5, <1>6, <1>7, <1>8, <1>9, <1>10, <1>11 DEF Execute

(* Cancelling puts nothing back in the queue and adds no task.             *)
LEMMA CancelCalm ==
  ASSUME TypeOK, NEW w \in Workers, NEW q \in Runs, Cancel(w, q), NEW r \in Manual
  PROVE  Calm(r)
<1>a. r \in Runs /\ task[w][q] \in TaskState /\ runs[q] \in Row
  BY DEF Manual, TypeOK
<1>1. PICK c : task' = [task EXCEPT ![w][q].cancel = c]
  BY DEF Cancel
<1>2. \A v \in Workers :
        task'[v][r] = IF v = w /\ r = q THEN [task[w][q] EXCEPT !.cancel = c] ELSE task[v][r]
  BY <1>1, <1>a DEF TypeOK
<1>3. Fewer(r)
  BY <1>a, <1>2 DEF Fewer, Running, TaskState
<1>4. runs'[r].status \in Parked => runs[r].status \in Parked
  <2>1. CASE r # q
    BY <2>1, <1>a DEF Cancel, TypeOK
  <2>2. CASE r = q
    <3>1. CASE runs[r].status \in Parked
      BY <3>1
    <3>2. CASE runs[r].status \notin Parked
      <4>a. runs[q].status \notin {"queued", "waiting_user"}
        BY <2>2, <3>2 DEF Parked
      <4>1. \/ runs' = runs
            \/ runs' = [runs EXCEPT ![q] =
                 [runs[q] EXCEPT !.status = "cancel_requested", !.ask = "none"]]
        <5>1. CASE runs' = runs
          BY <5>1
        <5>2. CASE runs' # runs
          BY <4>a, <5>2 DEF Cancel
        <5> QED
          BY <5>1, <5>2
      <4> DEFINE row == [runs[q] EXCEPT !.status = "cancel_requested", !.ask = "none"]
      <4>b. row.status = "cancel_requested"
        BY <1>a DEF Row
      <4>c. runs' = runs \/ runs' = [runs EXCEPT ![q] = row]
        BY <4>1
      <4> HIDE DEF row
      <4>2. runs'[r].status \in {runs[r].status, "cancel_requested"}
        BY <1>a, <2>2, <4>b, <4>c, RowAt
      <4> QED
        BY <3>2, <4>2 DEF Parked
    <3> QED
      BY <3>1, <3>2
  <2> QED
    BY <2>1, <2>2
<1> QED
  BY <1>3, <1>4 DEF Calm, Cancel

(* Users, the clock and the grant loop are calm.                           *)
LEMMA UserCalm ==
  ASSUME TypeOK, NEW q \in Runs,
         LeaseExpires(q) \/ User(q) \/ ApplyGrant(q) \/ CompleteGrant(q), NEW r \in Manual
  PROVE  Calm(r)
<1>a. r \in Runs /\ runs[q] \in Row /\ runs[r] \in Row /\ effects \in [Runs -> Nat]
  BY DEF Manual, TypeOK
<1>b. Fewer(r)
  BY <1>a, SameTasks DEF LeaseExpires, User, ApplyGrant, CompleteGrant, Submit, Resolve,
                         Reconcile, Retry
<1>1. CASE LeaseExpires(q) \/ ApplyGrant(q) \/ CompleteGrant(q)
  <2>1. runs'[r].status = runs[r].status /\ effects' = effects
    BY <1>1, <1>a DEF LeaseExpires, ApplyGrant, CompleteGrant, TypeOK, Row
  <2> QED
    BY <1>b, <2>1 DEF Calm
<1>2. CASE Submit(q)
  <2>1. runs[q].status = "absent" /\ effects' = effects
    BY <1>2 DEF Submit, Created
  <2>2. PICK row : runs' = [runs EXCEPT ![q] = row]
    BY <1>2 DEF Submit
  <2> QED
    BY <1>a, <1>b, <2>1, <2>2, RowAt DEF Calm, Parked
<1>3. ASSUME NEW approved \in BOOLEAN, Resolve(q, approved) PROVE Calm(r)
  <2>1. runs[q].status = "waiting_user" /\ effects' = effects
    BY <1>3 DEF Resolve
  <2>2. PICK row : runs' = [runs EXCEPT ![q] = row]
    BY <1>3 DEF Resolve
  <2> QED
    BY <1>a, <1>b, <2>1, <2>2, RowAt DEF Calm, Parked
<1>4. ASSUME NEW committed \in BOOLEAN, Reconcile(q, committed) PROVE Calm(r)
  <2>1. runs'[r].status \in {runs[r].status, "failed"}
    BY <1>a, <1>4, RowAt DEF Reconcile, Reconciled, Row
  <2>2. effects'[r] = effects[r] \/ effects'[r] = 0
    BY <1>a, <1>4 DEF Reconcile
  <2> QED
    BY <1>b, <2>1, <2>2 DEF Calm, Parked
<1>5. ASSUME NEW n \in Runs, Retry(q, n) PROVE Calm(r)
  <2>1. runs[n].status = "absent" /\ effects' = effects
    BY <1>5 DEF Retry, Created
  <2>2. PICK row : runs' = [runs EXCEPT ![n] = row]
    BY <1>5 DEF Retry
  <2> QED
    BY <1>a, <1>b, <2>1, <2>2, RowAt DEF Calm, Parked
<1> QED
  BY <1>1, <1>2, <1>3, <1>4, <1>5 DEF User

LEMMA OnceInit == Init => AllOnce
<1> SUFFICES ASSUME Init, NEW r \in Manual PROVE Once(r)
  BY DEF AllOnce
<1>1. effects[r] = 0 /\ \A w \in Workers : ~Running(w, r)
  BY DEF Init, Manual, Running, NoTask
<1> QED
  BY <1>1 DEF Once

LEMMA OnceStep == TypeOK /\ AllOnce /\ [Next]_vars => AllOnce'
<1> SUFFICES ASSUME TypeOK, AllOnce, [Next]_vars, NEW r \in Manual PROVE Once(r)'
  BY DEF AllOnce, Manual
<1>a. Once(r) /\ effects[r] \in Nat
  BY DEF AllOnce, TypeOK, Manual
<1>b. ASSUME Calm(r) PROVE Once(r)'
  BY <1>a, <1>b, CalmKeepsOnce
<1>1. CASE UNCHANGED vars
  BY <1>1, <1>b, SameTasks DEF vars, Calm, Manual
<1>2. CASE \E w \in Workers : Process(w) \/ Loop(w)
  BY <1>2, <1>b, ProcessCalm, ClaimOnce DEF Loop
<1>3. CASE \E w \in Workers, q \in Runs : Execute(w, q) \/ Cancel(w, q)
  BY <1>3, <1>b, ExecuteOnce, CancelCalm
<1>4. CASE \E q \in Runs : LeaseExpires(q) \/ User(q) \/ ApplyGrant(q) \/ CompleteGrant(q)
  BY <1>4, <1>b, UserCalm
<1> QED
  BY <1>1, <1>2, <1>3, <1>4 DEF Next


-----------------------------------------------------------------------------
(***************************************************************************)
(* As long as no live coordinator is suspended for longer than a lease     *)
(* (no "stall" among the mishaps), an uncancelled task of a manual Run     *)
(* holds the Run's lease, and an effect shows in the row.                  *)
(***************************************************************************)
Leased(w, r) ==
  Running(w, r) /\ ~task[w][r].cancel =>
    /\ worker[w] = "up" /\ Owns(w, r)
    /\ runs[r].fresh /\ runs[r].status \in Occupying
    /\ task[w][r].pc = "started" => StepOpen(w, r)

(* A row whose Run may have left an effect says so.                        *)
Shows(row) ==
  \/ row.steps # {} \/ row.status \in {"needs_attention", "succeeded"}
  \/ row.status = "failed" /\ row.err = "committed"

Safe(r) == (effects[r] > 0 => Shows(runs[r])) /\ \A w \in Workers : Leased(w, r)

AllSafe == \A r \in Manual : Safe(r)

(* A step that leaves a Run's lease and a worker's task for it alone.      *)
RowHeld(old, new) ==
  /\ new.owner = old.owner /\ new.epoch = old.epoch
  /\ old.fresh => new.fresh
  /\ old.status \in Occupying => new.status \in Occupying
  /\ old.steps \subseteq new.steps

TaskKept(w, r) ==
  Running(w, r)' /\ ~task'[w][r].cancel =>
    /\ Running(w, r) /\ ~task[w][r].cancel
    /\ task'[w][r].epoch = task[w][r].epoch /\ task'[w][r].pc = task[w][r].pc
    /\ worker[w] = "up" => worker'[w] = "up"

LEMMA KeptIsLeased ==
  ASSUME NEW w, NEW r, Leased(w, r), TaskKept(w, r),
         Running(w, r) /\ ~task[w][r].cancel => RowHeld(runs[r], runs'[r])
  PROVE  Leased(w, r)'
  BY DEF Leased, TaskKept, RowHeld, Owns, StepOpen

LEMMA SameTaskKept ==
  ASSUME NEW w, NEW r, task'[w][r] = task[w][r], worker'[w] = worker[w]
  PROVE  TaskKept(w, r)
  BY DEF TaskKept, Running

LEMMA SameRowHeld ==
  ASSUME NEW row
  PROVE  RowHeld(row, row)
  BY DEF RowHeld

(* A step that does not concern a Run keeps it safe.                       *)
LEMMA UntouchedSafe ==
  ASSUME NEW r \in Manual, Safe(r), runs'[r] = runs[r], effects'[r] = effects[r],
         \A w \in Workers : TaskKept(w, r)
  PROVE  Safe(r)'
<1>1. \A w \in Workers : Leased(w, r)'
  BY KeptIsLeased, SameRowHeld DEF Safe
<1> QED
  BY <1>1 DEF Safe

(* Recovery leaves a leased Run alone, and shows the effects of the others.*)
LEMMA RecoverySafe ==
  ASSUME TypeOK, NEW S, RecoverSet(S), NEW r \in Manual, Safe(r), effects' = effects,
         \A w \in Workers : TaskKept(w, r),
         \A w \in Workers : Running(w, r) /\ ~task[w][r].cancel => r \notin S,
         r \in S => runs[r].status \in Occupying
  PROVE  Safe(r)'
<1>a. r \in Runs /\ r \notin RestartSafe /\ runs[r] \in Row
  BY DEF Manual, TypeOK
<1>1. CASE r \notin S
  BY <1>1, <1>a, UntouchedSafe DEF RecoverSet
<1>2. CASE r \in S
  <2>1. \A w \in Workers : Leased(w, r)'
    BY <1>2, KeptIsLeased DEF Safe
  <2>2. runs'[r].status = RecoveryTarget(r)
    <3>1. runs'[r] = Recovered(r)
      BY <1>2, <1>a DEF RecoverSet
    <3> QED
      BY <1>a, <3>1 DEF Recovered, Released, Row
  <2>3. effects[r] > 0 => runs[r].steps # {}
    BY <1>2 DEF Safe, Shows, Occupying
  <2>4. effects[r] > 0 => runs'[r].status = "needs_attention"
    BY <1>a, <2>2, <2>3 DEF RecoveryTarget
  <2> QED
    BY <2>1, <2>4 DEF Safe, Shows
<1> QED
  BY <1>1, <1>2

(* Coordinators that start, stop, die, tick and recover.                   *)
LEMMA ProcessSafe ==
  ASSUME TypeOK, NEW w \in Workers, Process(w) \/ Heartbeat(w) \/ RecoverOrphaned(w),
         NEW r \in Manual, Safe(r)
  PROVE  Safe(r)'
<1>a. r \in Runs /\ runs[r] \in Row /\ \A v \in Workers : task[v][r] \in TaskState
  BY DEF Manual, TypeOK
<1>b. \A v \in Workers : Running(v, r) /\ ~task[v][r].cancel =>
        worker[v] = "up" /\ runs[r].owner = v /\ runs[r].fresh
  BY DEF Safe, Leased, Owns
<1>1. CASE Start(w) \/ RecoverOrphaned(w)
  <2>1. RecoverSet(Orphans) /\ effects' = effects /\ task' = task
    BY <1>1 DEF Start, RecoverOrphaned
  <2>2. \A v \in Workers : worker[v] = "up" => worker'[v] = "up"
    BY <1>1 DEF Start, RecoverOrphaned, TypeOK
  <2>3. \A v \in Workers : TaskKept(v, r)
    BY <2>1, <2>2 DEF TaskKept, Running
  <2>4. \A v \in Workers : Running(v, r) /\ ~task[v][r].cancel => r \notin Orphans
    BY <1>b, RunStoreAssumption DEF Orphans
  <2>5. r \in Orphans => runs[r].status \in Occupying
    BY DEF Orphans, StatusIn
  <2> QED
    BY <2>1, <2>3, <2>4, <2>5, RecoverySafe
<1>2. CASE ReleaseWorker(w)
  <2> DEFINE S == {q \in StatusIn(Occupying) : runs[q].owner = w}
  <2>1. RecoverSet(S) /\ effects' = effects /\ task' = task /\ worker[w] = "stopping"
    BY <1>2 DEF ReleaseWorker
  <2>2. \A v \in Workers : worker[v] = "up" => worker'[v] = "up"
    BY <1>2, <2>1 DEF ReleaseWorker, TypeOK
  <2>3. \A v \in Workers : TaskKept(v, r)
    BY <2>1, <2>2 DEF TaskKept, Running
  <2>4. \A v \in Workers : Running(v, r) /\ ~task[v][r].cancel => r \notin S
    BY <1>b, <2>1
  <2>5. r \in S => runs[r].status \in Occupying
    BY DEF StatusIn
  <2> HIDE DEF S
  <2> QED
    BY <2>1, <2>3, <2>4, <2>5, RecoverySafe
<1>3. CASE Crash(w)
  <2>1. \A v \in Workers : task'[v][r] = IF v = w THEN NoTask ELSE task[v][r]
    BY <1>3, <1>a DEF Crash, TypeOK
  <2>2. \A v \in Workers : v # w => worker'[v] = worker[v]
    BY <1>3 DEF Crash, TypeOK
  <2>3. \A v \in Workers : TaskKept(v, r)
    BY <2>1, <2>2 DEF TaskKept, Running, NoTask
  <2> QED
    BY <1>3, <2>3, UntouchedSafe DEF Crash
<1>4. CASE BeginShutdown(w)
  <2> DEFINE t == [task[w][r] EXCEPT !.cancel = @ \/ Running(w, r)]
  <2>1. \A v \in Workers : task'[v][r] = IF v = w THEN t ELSE task[v][r]
    BY <1>4, <1>a DEF BeginShutdown, TypeOK
  <2>2. \A v \in Workers : v # w => worker'[v] = worker[v]
    BY <1>4 DEF BeginShutdown, TypeOK
  <2>3. t.pc = task[w][r].pc /\ (Running(w, r) => t.cancel)
    <3>1. t.pc = task[w][r].pc /\ t.cancel = (task[w][r].cancel \/ Running(w, r))
      BY <1>a DEF TaskState
    <3> QED
      BY <3>1
  <2> HIDE DEF t
  <2>4. \A v \in Workers : TaskKept(v, r)
    BY <2>1, <2>2, <2>3 DEF TaskKept, Running
  <2> QED
    BY <1>4, <2>4, UntouchedSafe DEF BeginShutdown
<1>5. CASE Heartbeat(w)
  <2> DEFINE row == [runs[r] EXCEPT !.fresh = TRUE]
  <2>1. /\ row.owner = runs[r].owner /\ row.epoch = runs[r].epoch /\ row.fresh
        /\ row.status = runs[r].status /\ row.steps = runs[r].steps /\ row.err = runs[r].err
    BY <1>a DEF Row
  <2>2. runs'[r] \in {runs[r], row}
    BY <1>5, <1>a DEF Heartbeat
  <2> HIDE DEF row
  <2>3. RowHeld(runs[r], runs'[r]) /\ (Shows(runs[r]) => Shows(runs'[r]))
    BY <2>1, <2>2 DEF RowHeld, Shows
  <2>4. \A v \in Workers : TaskKept(v, r)
    BY <1>5, SameTaskKept DEF Heartbeat
  <2> QED
    BY <1>5, <2>3, <2>4, KeptIsLeased DEF Heartbeat, Safe
<1> QED
  BY <1>1, <1>2, <1>3, <1>4, <1>5 DEF Process

(* A claim leases the Run to its new task.                                 *)
LEMMA ClaimSafe ==
  ASSUME TypeOK, NEW w \in Workers, ClaimNext(w), NEW r \in Manual, Once(r), Safe(r)
  PROVE  Safe(r)'
<1>1. PICK q \in Window :
        /\ runs' = [runs EXCEPT ![q] = Claimed(w, q)]
        /\ SetTask(w, q, [NoTask EXCEPT !.pc = "created", !.epoch = runs[q].epoch + 1,
                                        !.ledger = runs[q].ledger])
  BY DEF ClaimNext
<1>2. /\ q \in Runs /\ r \in Runs /\ runs[q].status = "queued" /\ runs[q] \in Row
      /\ effects' = effects /\ worker' = worker /\ worker[w] = "up"
  BY DEF Window, Claimable, StatusIn, Manual, TypeOK, ClaimNext
<1> DEFINE t == [NoTask EXCEPT !.pc = "created", !.epoch = runs[q].epoch + 1,
                               !.ledger = runs[q].ledger]
<1>3. t.pc = "created" /\ t.epoch = runs[q].epoch + 1
  BY DEF NoTask
<1>4. \A v \in Workers : task'[v][r] = IF v = w /\ r = q THEN t ELSE task[v][r]
  BY <1>1, <1>2, TaskAt
<1> HIDE DEF t
<1>5. CASE q = r
  <2>1. /\ Claimed(w, q).status = "running" /\ Claimed(w, q).owner = w
        /\ Claimed(w, q).fresh /\ Claimed(w, q).epoch = runs[q].epoch + 1
    BY <1>2 DEF Claimed, Row
  <2>2. runs'[r] = Claimed(w, q)
    BY <1>1, <1>2, <1>5 DEF TypeOK
  <2>3. effects'[r] = 0 /\ \A v \in Workers : ~Running(v, r)
    BY <1>2, <1>5 DEF Once, Parked
  <2>4. ASSUME NEW v \in Workers, Running(v, r)' PROVE v = w /\ task'[v][r] = t
    BY <1>4, <2>3, <2>4 DEF Running
  <2>5. \A v \in Workers : Leased(v, r)'
    BY <1>2, <1>3, <2>1, <2>2, <2>4 DEF Leased, Owns, Occupying
  <2> QED
    BY <2>3, <2>5 DEF Safe
<1>6. CASE q # r
  <2>1. runs'[r] = runs[r] /\ \A v \in Workers : task'[v][r] = task[v][r]
    BY <1>1, <1>2, <1>4, <1>6 DEF TypeOK
  <2> QED
    BY <1>2, <2>1, UntouchedSafe, SameTaskKept
<1> QED
  BY <1>5, <1>6

(* A step of a task for a Run is taken by the only task of that Run; if it *)
(* ends the task, no lease is claimed for it any more.                     *)
LEMMA EndedSafe ==
  ASSUME TypeOK, NEW w \in Workers, NEW r \in Manual, Once(r), Safe(r), Running(w, r),
         task'[w][r].pc = "ended", \A v \in Workers : v # w => task'[v][r] = task[v][r],
         effects'[r] > 0 => Shows(runs'[r])
  PROVE  Safe(r)'
<1>1. \A v \in Workers : ~Running(v, r)'
  BY DEF Once, Running
<1> QED
  BY <1>1 DEF Safe, Leased

(* What a commit writes.                                                   *)
LEMMA CommittedShows ==
  ASSUME TypeOK, NEW w \in Workers, NEW r \in Runs, NEW ledger, NEW err,
         NEW target \in {"needs_attention", "succeeded"}
  PROVE  Shows(Committed(w, r, target, ledger, err))
  BY CommittedStatus DEF Shows

(* The steps of a task keep its Run's lease, and its effect in the row.    *)
LEMMA ExecuteSafe ==
  ASSUME TypeOK, NEW w \in Workers, NEW q \in Runs, Execute(w, q),
         NEW r \in Manual, Once(r), Safe(r)
  PROVE  Safe(r)'
<1>a. /\ r \in Runs /\ r \notin Agents /\ r \notin RestartSafe
      /\ effects \in [Runs -> Nat] /\ task[w][q] \in TaskState /\ runs[q] \in Row
      /\ worker' = worker
  <2>1. worker' = worker
    BY DEF Execute, RequirePermission, FailBeforeStep, BeginStep, LoseLease, CallAdapter,
       StartWrite, WriteReturns, CommitProgress, CommitSucceeded, AdapterFailed,
       AgentFailed, Publish, UnwindSilently, UnwindCancelled, Finished
  <2> QED
    BY <2>1, RunStoreAssumption DEF Manual, TypeOK
<1>b. /\ \E t : SetTask(w, q, t)
      /\ runs' = runs \/ \E row : runs' = [runs EXCEPT ![q] = row]
      /\ effects' = effects \/ \E n : effects' = [effects EXCEPT ![q] = n]
  BY DEF Execute, RequirePermission, FailBeforeStep, BeginStep, LoseLease, CallAdapter,
     StartWrite, WriteReturns, CommitProgress, CommitSucceeded, AdapterFailed,
     AgentFailed, Publish, UnwindSilently, UnwindCancelled, Acknowledged, Finished, EndTask
<1>c. PICK t : \A v \in Workers : task'[v][r] = IF v = w /\ r = q THEN t ELSE task[v][r]
  BY <1>a, <1>b, TaskAt
<1>d. \A v \in Workers : v # w => task'[v][r] = task[v][r]
  BY <1>c
<1>e. effects[r] > 0 => Shows(runs[r])
  BY DEF Safe
<1>1. CASE r # q
  <2>1. effects'[r] = effects[r]
    BY <1>1, <1>a, <1>b
  <2>2. runs'[r] = runs[r]
    <3>1. CASE runs' = runs
      BY <3>1
    <3>2. CASE runs' # runs
      <4>1. PICK row : runs' = [runs EXCEPT ![q] = row]
        BY <1>b, <3>2
      <4> QED
        BY <1>1, <1>a, <4>1, RowAt
    <3> QED
      BY <3>1, <3>2
  <2>3. \A v \in Workers : TaskKept(v, r)
    BY <1>1, <1>a, <1>c, SameTaskKept
  <2> QED
    BY <2>1, <2>2, <2>3, UntouchedSafe
<1>2. CASE r = q
  <2>1. ASSUME EndTask(w, r), Running(w, r), effects'[r] > 0 => Shows(runs'[r])
        PROVE  Safe(r)'
    BY <1>a, <1>d, <2>1, EndTaskEnds, EndedSafe
  <2>2. CASE RequirePermission(w, r)
    <3>1. Running(w, r) /\ task[w][r].pc = "created" /\ EndTask(w, r) /\ effects' = effects
      BY <2>2 DEF RequirePermission, Uncancelled, Running
    <3>2. effects'[r] = 0
      BY <3>1 DEF Once
    <3> QED
      BY <2>1, <3>1, <3>2
  <2>3. CASE FailBeforeStep(w, r) \/ LoseLease(w, r) \/ UnwindSilently(w, r)
    <3>1. EndTask(w, r) /\ Running(w, r) /\ runs' = runs /\ effects' = effects
      BY <2>3 DEF FailBeforeStep, LoseLease, UnwindSilently, Uncancelled, Running
    <3> QED
      BY <1>e, <2>1, <3>1
  <2>4. CASE BeginStep(w, r)
    <3> DEFINE row == [runs[r] EXCEPT !.steps = @ \cup {task[w][r].epoch}]
               s == [task[w][r] EXCEPT !.pc = "started"]
    <3>1. /\ row.owner = runs[r].owner /\ row.epoch = runs[r].epoch
          /\ row.fresh = runs[r].fresh /\ row.status = runs[r].status
          /\ row.steps = runs[r].steps \cup {task[w][r].epoch}
      BY <1>2, <1>a DEF Row
    <3>2. s.pc = "started" /\ s.epoch = task[w][r].epoch /\ s.cancel = task[w][r].cancel
      BY <1>2, <1>a DEF TaskState
    <3>3. runs' = [runs EXCEPT ![r] = row] /\ SetTask(w, r, s) /\ effects' = effects
      BY <2>4 DEF BeginStep
    <3>a. Running(w, r) /\ ~task[w][r].cancel
      BY <2>4 DEF BeginStep, Uncancelled, Running
    <3> HIDE DEF row, s
    <3>b. runs'[r] = row
      BY <1>a, <3>3 DEF TypeOK
    <3>c. task'[w][r] = s
      BY <1>a, <3>3, TaskAt
    <3>4. runs'[r] = row /\ task'[w][r] = s
      BY <3>b, <3>c
    <3>5. Leased(w, r)'
      BY <1>a, <3>1, <3>2, <3>4, <3>a DEF Safe, Leased, Owns, StepOpen
    <3>6. ASSUME NEW v \in Workers, v # w PROVE Leased(v, r)'
      <4>1. ~Running(v, r)
        BY <3>a, <3>6 DEF Once
      <4> QED
        BY <1>d, <3>6, <4>1 DEF Leased, Running
    <3>7. row.steps # {}
      BY <3>1
    <3> QED
      BY <3>4, <3>5, <3>6, <3>7 DEF Safe, Shows
  <2>5. CASE CallAdapter(w, r)
    <3> DEFINE s == [task[w][r] EXCEPT !.call = "out"]
    <3>1. s.pc = task[w][r].pc /\ s.epoch = task[w][r].epoch /\ s.cancel = task[w][r].cancel
      BY <1>2, <1>a DEF TaskState
    <3>2. SetTask(w, r, s) /\ runs' = runs
      BY <2>5 DEF CallAdapter
    <3>3. task[w][r].pc = "started" /\ Running(w, r) /\ ~task[w][r].cancel
      BY <2>5 DEF CallAdapter, Uncancelled, Running
    <3> HIDE DEF s
    <3>4. task'[w][r] = s
      BY <1>a, <3>2, TaskAt
    <3>5. \A v \in Workers : TaskKept(v, r)
      BY <1>a, <1>d, <3>1, <3>3, <3>4 DEF TaskKept, Running
    <3>6. \A v \in Workers : Leased(v, r)'
      BY <3>2, <3>5, KeptIsLeased, SameRowHeld DEF Safe
    <3>7. runs[r].steps # {}
      BY <3>3 DEF Safe, Leased, StepOpen
    <3> QED
      BY <3>2, <3>6, <3>7 DEF Safe, Shows
  <2>6. CASE StartWrite(w, r) \/ WriteReturns(w, r) \/ CommitProgress(w, r)
             \/ AgentFailed(w, r)
    BY <2>6, <1>a DEF StartWrite, WriteReturns, CommitProgress, AgentFailed
  <2>7. CASE CommitSucceeded(w, r)
    <3>1. /\ Running(w, r) /\ EndTask(w, r)
          /\ runs' = [runs EXCEPT ![r] =
               Committed(w, r, "succeeded", task[w][r].ledger, runs[r].err)]
      BY <2>7 DEF CommitSucceeded, CanCommit, Uncancelled, Running, Publish
    <3>2. Shows(runs'[r])
      BY <1>a, <3>1, CommittedShows DEF TypeOK
    <3> QED
      BY <2>1, <3>1, <3>2
  <2>8. CASE AdapterFailed(w, r)
    <3>1. Running(w, r) /\ EndTask(w, r) /\ effects' = effects
      BY <2>8 DEF AdapterFailed, CanCommit, Uncancelled, Running, Publish
    <3>2. CASE task[w][r].call = "out"
      <4>1. runs' = [runs EXCEPT ![r] = Committed(w, r, "needs_attention", FALSE, "unknown")]
        BY <2>8, <1>a, <3>2 DEF AdapterFailed, Publish
      <4>2. Shows(runs'[r])
        BY <1>a, <4>1, CommittedShows DEF TypeOK
      <4> QED
        BY <2>1, <3>1, <4>2
    <3>3. CASE task[w][r].call # "out"
      <4>1. effects'[r] = 0
        BY <3>1, <3>3 DEF Once
      <4> QED
        BY <2>1, <3>1, <4>1
    <3> QED
      BY <3>2, <3>3
  <2>9. CASE UnwindCancelled(w, r)
    <3>1. Running(w, r) /\ EndTask(w, r) /\ effects' = effects
      BY <2>9, <1>a DEF UnwindCancelled, Acknowledged, Running
    <3>2. CASE runs' = runs
      BY <1>e, <2>1, <3>1, <3>2
    <3>3. CASE task[w][r].call = "out" /\ runs' # runs
      <4>1. PICK ledger, err :
              runs' = [runs EXCEPT ![r] = Committed(w, r, "needs_attention", ledger, err)]
        BY <2>9, <1>a, <3>3 DEF UnwindCancelled, Acknowledged
      <4>2. Shows(runs'[r])
        BY <1>a, <4>1, CommittedShows DEF TypeOK
      <4> QED
        BY <2>1, <3>1, <4>2
    <3>4. CASE task[w][r].call # "out"
      <4>1. effects'[r] = 0
        BY <3>1, <3>4 DEF Once
      <4> QED
        BY <2>1, <3>1, <4>1
    <3> QED
      BY <3>2, <3>3, <3>4
  <2>10. CASE Finished(w, r)
    <3>1. task[w][r].pc = "ended" /\ SetTask(w, r, NoTask) /\ effects' = effects
      BY <2>10 DEF Finished
    <3>2. task'[w][r] = NoTask /\ ~Running(w, r)'
      <4>1. task'[w][r] = NoTask
        BY <1>a, <3>1, TaskAt
      <4> QED
        BY <4>1 DEF Running, NoTask
    <3>3. \A v \in Workers : TaskKept(v, r)
      BY <1>a, <1>d, <3>2 DEF TaskKept, Running
    <3>4. CASE runs' = runs
      BY <1>a, <3>1, <3>3, <3>4, UntouchedSafe
    <3>5. CASE runs' # runs
      <4>1. /\ runs[r].status = "cancel_requested" /\ runs[r].owner = w
            /\ runs' = [runs EXCEPT ![r] = Released(runs[r],
                 IF runs[r].steps # {} THEN "needs_attention" ELSE "cancelled", "none")]
        BY <2>10, <3>5 DEF Finished
      <4>2. \A v \in Workers : Leased(v, r)'
        <5> SUFFICES ASSUME NEW v \in Workers, Running(v, r)' /\ ~task'[v][r].cancel
                     PROVE  FALSE
          BY DEF Leased
        <5>1. Running(v, r) /\ ~task[v][r].cancel /\ v # w
          BY <3>2, <3>3 DEF TaskKept
        <5> QED
          BY <4>1, <5>1 DEF Safe, Leased, Owns
      <4>3. effects[r] > 0 => runs[r].steps # {}
        BY <1>e, <4>1 DEF Shows
      <4>4. Released(runs[r], "needs_attention", "none").status = "needs_attention"
        BY <1>2, <1>a DEF Released, Row
      <4>5. effects[r] > 0 => runs'[r].status = "needs_attention"
        BY <1>a, <4>1, <4>3, <4>4 DEF TypeOK
      <4> QED
        BY <3>1, <4>2, <4>5 DEF Safe, Shows
    <3> QED
      BY <3>4, <3>5
  <2> QED
    BY <1>2, <2>2, <2>3, <2>4, <2>5, <2>6, <2>7, <2>8, <2>9, <2>10 DEF Execute
<1> QED
  BY <1>1, <1>2

(* A write to the row of a Run that occupies no slot touches no lease.     *)
LEMMA UnleasedRowSafe ==
  ASSUME TypeOK, NEW q \in Runs, NEW row, runs' = [runs EXCEPT ![q] = row],
         runs[q].status \notin Occupying, NEW r \in Manual, Safe(r),
         \A w \in Workers : TaskKept(w, r),
         effects'[r] > 0 => Shows(runs'[r])
  PROVE  Safe(r)'
<1>1. runs'[r] = IF r = q THEN row ELSE runs[r]
  BY RowAt DEF Manual
<1>2. ASSUME NEW w \in Workers PROVE Leased(w, r)'
  BY <1>1, KeptIsLeased, SameRowHeld DEF Safe, Leased
<1> QED
  BY <1>2 DEF Safe

(* Cancelling a Run takes no lease away: the task that holds it settles it.*)
LEMMA CancelSafe ==
  ASSUME TypeOK, NEW w \in Workers, NEW q \in Runs, Cancel(w, q),
         NEW r \in Manual, Once(r), Safe(r)
  PROVE  Safe(r)'
<1>a. r \in Runs /\ task[w][q] \in TaskState /\ runs[q] \in Row
  BY DEF Manual, TypeOK
<1>b. effects' = effects /\ worker' = worker
  BY DEF Cancel
<1>1. PICK c : /\ task' = [task EXCEPT ![w][q].cancel = c]
               /\ c = (task[w][q].cancel \/ (runs'[q].status = "cancel_requested" /\ Running(w, q)))
  BY DEF Cancel
<1>2. \A v \in Workers :
        task'[v][r] = IF v = w /\ r = q THEN [task[w][q] EXCEPT !.cancel = c] ELSE task[v][r]
  BY <1>1, <1>a DEF TypeOK
<1> DEFINE t == [task[w][q] EXCEPT !.cancel = c]
<1>3. t.pc = task[w][q].pc /\ t.epoch = task[w][q].epoch /\ t.cancel = c
  BY <1>a DEF TaskState
<1>4. \A v \in Workers : task'[v][r] = IF v = w /\ r = q THEN t ELSE task[v][r]
  BY <1>2
<1> HIDE DEF t
<1>5. \A v \in Workers : TaskKept(v, r)
  BY <1>b, <1>1, <1>3, <1>4 DEF TaskKept, Running
<1>6. CASE runs' = runs
  BY <1>a, <1>b, <1>5, <1>6, UntouchedSafe
<1>7. CASE runs' # runs /\ runs[q].status = "running"
  <2> DEFINE row == [runs[q] EXCEPT !.status = "cancel_requested", !.ask = "none"]
  <2>1. /\ row.owner = runs[q].owner /\ row.epoch = runs[q].epoch
        /\ row.fresh = runs[q].fresh /\ row.status = "cancel_requested"
        /\ row.steps = runs[q].steps
    BY <1>a DEF Row
  <2>2. runs' = [runs EXCEPT ![q] = row]
    BY <1>7 DEF Cancel
  <2> HIDE DEF row
  <2>3. runs'[r] = IF r = q THEN row ELSE runs[r]
    BY <1>a, <2>2, RowAt
  <2>4. RowHeld(runs[r], runs'[r])
    BY <2>1, <2>3 DEF RowHeld, Occupying
  <2>5. Shows(runs[r]) => Shows(runs'[r])
    BY <1>7, <2>1, <2>3 DEF Shows
  <2> QED
    BY <1>b, <1>5, <2>4, <2>5, KeptIsLeased DEF Safe
<1>8. CASE runs' # runs /\ runs[q].status \in {"queued", "waiting_user"}
  <2>1. PICK row : runs' = [runs EXCEPT ![q] = row]
    BY <1>8 DEF Cancel
  <2>2. CASE r = q
    <3>1. effects'[r] = 0
      BY <1>b, <1>8, <2>2 DEF Once, Parked
    <3>2. runs[q].status \notin Occupying /\ ~(effects'[r] > 0)
      BY <1>8, <3>1 DEF Occupying
    <3> QED
      BY <1>5, <2>1, <3>2, UnleasedRowSafe
  <2>3. CASE r # q
    BY <1>a, <1>b, <1>5, <2>1, <2>3, RowAt, UntouchedSafe
  <2> QED
    BY <2>2, <2>3
<1> QED
  BY <1>6, <1>7, <1>8 DEF Cancel

(* A leased Run's lease does not lapse.                                    *)
LEMMA LeaseExpiresSafe ==
  ASSUME TypeOK, "stall" \notin Mishaps, NEW q \in Runs, LeaseExpires(q),
         NEW r \in Manual, Safe(r)
  PROVE  Safe(r)'
<1>a. /\ r \in Runs /\ runs[q] \in Row
      /\ effects' = effects /\ worker' = worker /\ task' = task
  BY DEF Manual, TypeOK, LeaseExpires
<1> DEFINE row == [runs[q] EXCEPT !.fresh = FALSE]
<1>1. /\ row.owner = runs[q].owner /\ row.epoch = runs[q].epoch
      /\ row.status = runs[q].status /\ row.steps = runs[q].steps /\ row.err = runs[q].err
  BY <1>a DEF Row
<1>2. runs' = [runs EXCEPT ![q] = row]
  BY DEF LeaseExpires
<1> HIDE DEF row
<1>3. runs'[r] = IF r = q THEN row ELSE runs[r]
  BY <1>a, <1>2, RowAt
<1>4. \A v \in Workers : TaskKept(v, r)
  BY <1>a, SameTaskKept
<1>5. CASE r # q
  BY <1>a, <1>3, <1>4, <1>5, UntouchedSafe
<1>6. CASE r = q
  <2>1. \A v \in Workers : worker[v] = "up" => r \notin Renewed(v)
    BY <1>6 DEF LeaseExpires, Mishap
  <2>2. ASSUME NEW v \in Workers, Running(v, r) /\ ~task[v][r].cancel PROVE FALSE
    <3>1. r \in Active(v)
      BY <1>a, <2>2 DEF Active, Running
    <3>2. worker[v] = "up" /\ runs[r].owner = v /\ runs[r].status \in Occupying
      BY <2>2 DEF Safe, Leased, Owns
    <3> QED
      BY <1>a, <2>1, <3>1, <3>2 DEF Renewed, StatusIn
  <2>3. \A v \in Workers : Leased(v, r)'
    BY <1>4, <2>2, KeptIsLeased DEF Safe
  <2>4. Shows(runs[r]) => Shows(runs'[r])
    BY <1>1, <1>3, <1>6 DEF Shows
  <2> QED
    BY <1>a, <2>3, <2>4 DEF Safe
<1> QED
  BY <1>5, <1>6

(* Users act on Runs without a lease; a review that confirms an effect     *)
(* records it.                                                             *)
LEMMA UserSafe ==
  ASSUME TypeOK, NEW q \in Runs, User(q) \/ ApplyGrant(q) \/ CompleteGrant(q),
         NEW r \in Manual, Once(r), Safe(r)
  PROVE  Safe(r)'
<1>a. r \in Runs /\ runs[q] \in Row /\ effects \in [Runs -> Nat] /\ worker' = worker /\ task' = task
  BY DEF Manual, TypeOK, User, ApplyGrant, CompleteGrant, Submit, Resolve, Reconcile, Retry
<1>b. \A v \in Workers : TaskKept(v, r)
  BY <1>a, SameTaskKept
<1>c. ASSUME effects' = effects, NEW n \in Runs, NEW row, runs' = [runs EXCEPT ![n] = row],
             runs[n].status \in Parked
      PROVE  Safe(r)'
  <2>1. CASE r = n
    <3>1. effects'[r] = 0
      BY <1>c, <2>1 DEF Once
    <3>2. runs[n].status \notin Occupying /\ ~(effects'[r] > 0)
      BY <1>c, <3>1 DEF Occupying, Parked
    <3> QED
      BY <1>b, <1>c, <3>2, UnleasedRowSafe
  <2>2. CASE r # n
    BY <1>a, <1>b, <1>c, <2>2, RowAt, UntouchedSafe
  <2> QED
    BY <2>1, <2>2
<1>1. CASE ApplyGrant(q) \/ CompleteGrant(q)
  BY <1>1, <1>b, UntouchedSafe DEF ApplyGrant, CompleteGrant
<1>2. CASE Submit(q)
  <2>1. PICK row : runs' = [runs EXCEPT ![q] = row]
    BY <1>2 DEF Submit
  <2> QED
    BY <1>2, <1>c, <2>1 DEF Submit, Created, Parked
<1>3. ASSUME NEW approved \in BOOLEAN, Resolve(q, approved) PROVE Safe(r)'
  <2>1. PICK row : runs' = [runs EXCEPT ![q] = row]
    BY <1>3 DEF Resolve
  <2> QED
    BY <1>3, <1>c, <2>1 DEF Resolve, Parked
<1>4. ASSUME NEW n \in Runs, Retry(q, n) PROVE Safe(r)'
  <2>1. PICK row : runs' = [runs EXCEPT ![n] = row]
    BY <1>4 DEF Retry
  <2> QED
    BY <1>4, <1>c, <2>1 DEF Retry, Created, Parked
<1>5. ASSUME NEW committed \in BOOLEAN, Reconcile(q, committed) PROVE Safe(r)'
  <2> DEFINE row == Reconciled(q, committed)
  <2>1. /\ runs[q].status = "needs_attention" /\ runs' = [runs EXCEPT ![q] = row]
        /\ effects' = [effects EXCEPT ![q] = IF committed THEN effects[q] ELSE 0]
    BY <1>5 DEF Reconcile
  <2>2. row.status = "failed" /\ (committed => row.err = "committed")
    BY <1>a DEF Reconciled, Row
  <2> HIDE DEF row
  <2>3. CASE r = q
    <3>1. effects'[r] > 0 => committed
      BY <1>a, <2>1, <2>3
    <3>2. runs'[r] = row
      BY <1>a, <2>1, <2>3 DEF TypeOK
    <3> QED
      BY <1>b, <2>1, <2>2, <3>1, <3>2, UnleasedRowSafe DEF Shows, Occupying
  <2>4. CASE r # q
    <3>1. effects'[r] = effects[r]
      BY <1>a, <2>1, <2>4
    <3> QED
      BY <1>a, <1>b, <2>1, <2>4, <3>1, RowAt, UntouchedSafe
  <2> QED
    BY <2>3, <2>4
<1> QED
  BY <1>1, <1>2, <1>3, <1>4, <1>5 DEF User

LEMMA SafeInit == Init => AllSafe
<1> SUFFICES ASSUME Init, NEW r \in Manual PROVE Safe(r)
  BY DEF AllSafe
<1>1. effects[r] = 0 /\ \A w \in Workers : ~Running(w, r)
  BY DEF Init, Manual, Running, NoTask
<1> QED
  BY <1>1 DEF Safe, Leased

LEMMA SafeStep ==
  ASSUME "stall" \notin Mishaps
  PROVE  TypeOK /\ AllOnce /\ AllSafe /\ [Next]_vars => AllSafe'
<1> SUFFICES ASSUME TypeOK, AllOnce, AllSafe, [Next]_vars, NEW r \in Manual PROVE Safe(r)'
  BY DEF AllSafe, Manual
<1>a. Once(r) /\ Safe(r)
  BY DEF AllOnce, AllSafe
<1>1. CASE UNCHANGED vars
  BY <1>1, <1>a, UntouchedSafe, SameTaskKept DEF vars
<1>2. CASE \E w \in Workers : Process(w) \/ Loop(w)
  BY <1>2, <1>a, ProcessSafe, ClaimSafe DEF Loop
<1>3. CASE \E w \in Workers, q \in Runs : Execute(w, q) \/ Cancel(w, q)
  BY <1>3, <1>a, ExecuteSafe, CancelSafe
<1>4. CASE \E q \in Runs : LeaseExpires(q) \/ User(q) \/ ApplyGrant(q) \/ CompleteGrant(q)
  BY <1>4, <1>a, LeaseExpiresSafe, UserSafe
<1> QED
  BY <1>1, <1>2, <1>3, <1>4 DEF Next

(* A restart-safe adapter Run has no effect to lose.                       *)
Harmless == \A r \in RestartSafe \ Agents : effects[r] = 0

LEMMA HarmlessStep == TypeOK /\ Harmless /\ [Next]_vars => Harmless'
<1> SUFFICES ASSUME TypeOK, Harmless, [Next]_vars, NEW r \in RestartSafe \ Agents
             PROVE  effects'[r] = 0
  BY DEF Harmless
<1>a. r \in Runs /\ effects \in [Runs -> Nat] /\ effects[r] = 0 /\ r \in RestartSafe /\ r \notin Agents
  BY RunStoreAssumption DEF TypeOK, Harmless
<1>1. CASE UNCHANGED effects
  BY <1>1, <1>a
<1>2. ASSUME NEW w \in Workers, NEW q \in Runs, CallAdapter(w, q) PROVE effects'[r] = 0
  BY <1>2, <1>a DEF CallAdapter
<1>3. ASSUME NEW w \in Workers, NEW q \in Runs,
             StartWrite(w, q) \/ AgentFailed(w, q) \/ UnwindCancelled(w, q)
      PROVE  effects'[r] = 0
  BY <1>3, <1>a DEF StartWrite, AgentFailed, UnwindCancelled
<1>4. ASSUME NEW q \in Runs, NEW committed \in BOOLEAN, Reconcile(q, committed)
      PROVE  effects'[r] = 0
  BY <1>4, <1>a DEF Reconcile
<1>5. ASSUME NEW w \in Workers, Process(w) \/ Loop(w) PROVE UNCHANGED effects
  BY <1>5 DEF Process, Loop, Start, Crash, BeginShutdown, ReleaseWorker, Heartbeat,
              RecoverOrphaned, ClaimNext
<1>6. ASSUME NEW w \in Workers, NEW q \in Runs, Execute(w, q) \/ Cancel(w, q)
      PROVE  effects'[r] = 0
  BY <1>6, <1>1, <1>2, <1>3
  DEF Execute, RequirePermission, FailBeforeStep, BeginStep, LoseLease, WriteReturns,
      CommitProgress, CommitSucceeded, AdapterFailed, UnwindSilently, Finished, Cancel
<1>7. ASSUME NEW q \in Runs, LeaseExpires(q) \/ User(q) \/ ApplyGrant(q) \/ CompleteGrant(q)
      PROVE  effects'[r] = 0
  BY <1>7, <1>1, <1>4 DEF LeaseExpires, User, ApplyGrant, CompleteGrant, Submit, Resolve, Retry
<1> QED
  BY <1>1, <1>5, <1>6, <1>7 DEF Next, vars

-----------------------------------------------------------------------------
(* The external request of manual work leaves at most once between two     *)
(* reviews by an operator, whatever crashes, lapsed leases, cancellations  *)
(* and late tasks do: an interrupted one is never requeued                 *)
(* (recover_interrupted_runs), and its Run never has two tasks.            *)
THEOREM ManualCalledOnceHolds == Spec => []ManualCalledOnce
<1>1. Init => Harmless
  BY RunStoreAssumption DEF Init, Harmless
<1>2. AllOnce /\ Harmless => ManualCalledOnce
  <2> SUFFICES ASSUME AllOnce, Harmless, NEW r \in Runs \ Agents PROVE effects[r] <= 1
    BY DEF ManualCalledOnce
  <2> QED
    BY DEF AllOnce, Once, Manual, Harmless
<1> QED
  BY <1>1, <1>2, OnceInit, OnceStep, HarmlessStep, TypeCorrect, PTL DEF Spec

(* Work whose effects nobody can undo is never done twice: its request     *)
(* leaves at most once, and a Run that retry accepts left no effect behind *)
(* (RunCoordinator.retry).  The second half needs leases that outlive      *)
(* their tasks: a coordinator suspended for longer than a lease can send   *)
(* the request of a Run that an operator has reviewed in the meantime.     *)
THEOREM ManualIsSafeHolds ==
  ASSUME "stall" \notin Mishaps
  PROVE  Spec => []ManualIsSafe
<1>1. Init => Harmless
  BY RunStoreAssumption DEF Init, Harmless
<1>2. AllSafe /\ Harmless /\ IInv => AdapterRetryIsSafe
  <2> SUFFICES ASSUME AllSafe, Harmless, IInv, NEW r \in Runs \ Agents, Retryable(r)
               PROVE  effects[r] = 0
    BY DEF AdapterRetryIsSafe
  <2>1. CASE r \in RestartSafe
    BY <2>1 DEF Harmless
  <2>2. CASE r \notin RestartSafe
    <3>1. effects[r] \in Nat /\ runs[r].err = "none" /\ runs[r].status \in {"failed", "cancelled"}
      BY DEF IInv, TypeOK, Retryable
    <3>2. runs[r].steps = {}
      BY <3>1 DEF IInv, RowsOK, RowOK, Occupying
    <3> QED
      BY <2>2, <3>1, <3>2 DEF AllSafe, Safe, Manual, Shows
  <2> QED
    BY <2>1, <2>2
<1> QED
  BY <1>1, <1>2, OnceInit, OnceStep, SafeInit, SafeStep, HarmlessStep, TypeCorrect,
     Invariance, ManualCalledOnceHolds, PTL DEF Spec, ManualIsSafe
=============================================================================
