-------------------------- MODULE DraftCleanup_proofs --------------------------
(***************************************************************************)
(* Type correctness of DraftCleanup, and that a tombstone outlives its     *)
(* draft, for any number of Runs, processes, directories and mishaps.      *)
(*                                                                         *)
(* A directory whose name has left the process that made it is no longer   *)
(* unused, so a deletion that succeeds leaves it gone, and gone it stays:  *)
(* names are not used twice.  Only rows that no worker may claim hold a    *)
(* tombstone, so only the transaction that follows a deletion clears one.  *)
(***************************************************************************)
EXTENDS DraftCleanup, FiniteSetTheorems, TLAPS

DirState == {"unused", "draft", "gone"}
Used(dk, d) == d # NoDraft => dk[d] # "unused"
Unclaimable == {"cancel_requested", "needs_attention", "cancelled"}

RowOK(row, dk) ==
  /\ row \in Row
  /\ Used(dk, row.draft) /\ Used(dk, row.tomb)
  /\ row.tomb # NoDraft => row.status \in Unclaimable

TaskOK(t, dk) == t \in TaskState /\ Used(dk, t.dir)

HandOK(h, dk) ==
  \/ h = NoHand
  \/ h \in [run : Runs, dir : Drafts, ok : BOOLEAN] /\ (h.ok => dk[h.dir] = "gone")

JobOK(j, dk) ==
  /\ j \in Job
  /\ \A item \in j.todo : Used(dk, item.dir)
  /\ j.goal \in {"cancel", "resume"} => j.run \in Runs
  /\ HandOK(j.hand, dk)

(* The inductive invariant.                                                *)
IInv ==
  /\ TypeOK
  /\ \A r \in Runs : RowOK(rows[r], disk)
  /\ \A p \in Procs, r \in Runs : TaskOK(task[p][r], disk)
  /\ \A p \in Procs : JobOK(job[p], disk)

(* What a step may do to the directories, rows, tasks and jobs.            *)
Grows(dk, dk2) ==
  \A d \in Drafts : (dk[d] # "unused" => dk2[d] # "unused") /\ (dk[d] = "gone" => dk2[d] = "gone")
DiskStep == disk' \in [Drafts -> DirState] /\ Grows(disk, disk')

TombKept(old, new) == new.tomb = old.tomb \/ old.tomb = NoDraft \/ disk'[old.tomb] # "draft"
RowsStep ==
  /\ rows' \in [Runs -> Row]
  /\ \A r \in Runs : RowOK(rows'[r], disk') /\ TombKept(rows[r], rows'[r])
TasksStep ==
  /\ task' \in [Procs -> [Runs -> TaskState]]
  /\ \A p \in Procs, r \in Runs : TaskOK(task'[p][r], disk')
JobsStep ==
  /\ job' \in [Procs -> Job]
  /\ \A p \in Procs : JobOK(job'[p], disk')
RestTyped ==
  /\ fault' \in [Drafts -> {"none", "locked", "unsafe"}]
  /\ live' \in Runs \cup {NoRun}
  /\ proc' \in [Procs -> {"idle", "opening", "up", "dead"}]
  /\ mishaps' \in Nat
GoodStep == IInv' /\ RowsStep /\ DiskStep

(* The parts of a step make a good step.                                   *)
LEMMA Assemble ==
  ASSUME DiskStep, RowsStep, TasksStep, JobsStep, RestTyped
  PROVE  GoodStep
  BY DEF DiskStep, RowsStep, TasksStep, JobsStep, RestTyped, GoodStep, IInv, TypeOK, DirState

-----------------------------------------------------------------------------
(* What holds of a row, task or job survives a step of the directories.    *)
LEMMA Survives ==
  ASSUME NEW dk, NEW dk2, Grows(dk, dk2)
  PROVE  /\ \A row : RowOK(row, dk) => RowOK(row, dk2)
         /\ \A t : TaskOK(t, dk) => TaskOK(t, dk2)
         /\ \A j : JobOK(j, dk) => JobOK(j, dk2)
<1>1. ASSUME NEW d \in Drafts \cup {NoDraft}, Used(dk, d)
      PROVE  Used(dk2, d)
  BY <1>1 DEF Used, Grows
<1>2. ASSUME NEW row, RowOK(row, dk)
      PROVE  RowOK(row, dk2)
  <2>1. row.draft \in Drafts \cup {NoDraft} /\ row.tomb \in Drafts \cup {NoDraft}
    BY <1>2 DEF RowOK, Row
  <2> QED
    BY <1>1, <1>2, <2>1 DEF RowOK
<1>3. ASSUME NEW t, TaskOK(t, dk)
      PROVE  TaskOK(t, dk2)
  <2>1. t.dir \in Drafts \cup {NoDraft}
    BY <1>3 DEF TaskOK, TaskState
  <2> QED
    BY <1>1, <1>3, <2>1 DEF TaskOK
<1>4. ASSUME NEW j, JobOK(j, dk)
      PROVE  JobOK(j, dk2)
  <2>1. \A item \in j.todo : item.dir \in Drafts
    BY <1>4 DEF JobOK, Job, Item
  <2>2. \A item \in j.todo : Used(dk2, item.dir)
    BY <1>1, <1>4, <2>1 DEF JobOK
  <2>3. HandOK(j.hand, dk2)
    BY <1>4 DEF JobOK, HandOK, Grows
  <2> QED
    BY <1>4, <2>2, <2>3 DEF JobOK
<1> QED
  BY <1>2, <1>3, <1>4

(* Directories that a step does not touch.                                 *)
LEMMA SameDisk ==
  ASSUME IInv, UNCHANGED disk
  PROVE  DiskStep
  BY DEF IInv, TypeOK, DiskStep, DirState, Grows

(* Deleting or renaming away directories (Remove).                         *)
LEMMA Removing ==
  ASSUME IInv, NEW S, Remove(S)
  PROVE  DiskStep /\ \A d \in Drafts \cap S : disk'[d] # "draft"
<1>1. disk \in [Drafts -> DirState]
  BY DEF IInv, TypeOK, DirState
<1>2. \A d \in Drafts :
        disk'[d] = IF d \in S /\ d # NoDraft /\ disk[d] = "draft" THEN "gone" ELSE disk[d]
  BY DEF Remove, Exists
<1>3. disk' \in [Drafts -> DirState]
  BY <1>1, <1>2 DEF Remove, Exists, DirState
<1>4. Grows(disk, disk')
  BY <1>2 DEF Grows
<1>5. NoDraft \notin Drafts
  BY DraftCleanupAssumption
<1> QED
  BY <1>2, <1>3, <1>4, <1>5 DEF DiskStep

(* Rows that a step does not touch.                                        *)
LEMMA SameRows ==
  ASSUME IInv, DiskStep, UNCHANGED rows
  PROVE  RowsStep
  BY Survives DEF IInv, TypeOK, DiskStep, RowsStep, TombKept

(* Tasks that a step does not touch.                                       *)
LEMMA SameTasks ==
  ASSUME IInv, DiskStep, UNCHANGED task
  PROVE  TasksStep
  BY Survives DEF IInv, TypeOK, DiskStep, TasksStep

(* Cleanup jobs that a step does not touch.                                *)
LEMMA SameJobs ==
  ASSUME IInv, DiskStep, UNCHANGED job
  PROVE  JobsStep
  BY Survives DEF IInv, TypeOK, DiskStep, JobsStep

(* A step that writes one row.                                             *)
LEMMA OneRow ==
  ASSUME IInv, DiskStep, NEW r \in Runs, NEW new, rows' = [rows EXCEPT ![r] = new],
         RowOK(new, disk'), TombKept(rows[r], new)
  PROVE  RowsStep
<1>1. new \in Row
  BY DEF RowOK
<1>2. rows' \in [Runs -> Row] /\ rows'[r] = new
  BY <1>1 DEF IInv, TypeOK
<1>3. ASSUME NEW q \in Runs, q # r
      PROVE  RowOK(rows'[q], disk') /\ TombKept(rows[q], rows'[q])
  <2>1. rows'[q] = rows[q]
    BY <1>3 DEF IInv, TypeOK
  <2> QED
    BY <2>1, Survives DEF IInv, DiskStep, TombKept
<1> QED
  BY <1>2, <1>3 DEF RowsStep

(* A step that writes one task.                                            *)
LEMMA OneTask ==
  ASSUME IInv, DiskStep, NEW p \in Procs, NEW r \in Runs, NEW t,
         task' = [task EXCEPT ![p][r] = t], TaskOK(t, disk')
  PROVE  TasksStep
<1>1. t \in TaskState
  BY DEF TaskOK
<1>2. task' \in [Procs -> [Runs -> TaskState]]
  BY <1>1 DEF IInv, TypeOK
<1>3. ASSUME NEW q \in Procs, NEW s \in Runs
      PROVE  TaskOK(task'[q][s], disk')
  <2>1. task'[q][s] = IF q = p /\ s = r THEN t ELSE task[q][s]
    BY DEF IInv, TypeOK
  <2> QED
    BY <2>1, Survives DEF IInv, DiskStep
<1> QED
  BY <1>2, <1>3 DEF TasksStep

(* A step that writes one cleanup job.                                     *)
LEMMA OneJob ==
  ASSUME IInv, DiskStep, NEW p \in Procs, NEW j,
         job' = [job EXCEPT ![p] = j], JobOK(j, disk')
  PROVE  JobsStep
<1>1. j \in Job
  BY DEF JobOK
<1>2. job' \in [Procs -> Job]
  BY <1>1 DEF IInv, TypeOK
<1>3. ASSUME NEW q \in Procs
      PROVE  JobOK(job'[q], disk')
  <2>1. job'[q] = IF q = p THEN j ELSE job[q]
    BY DEF IInv, TypeOK
  <2> QED
    BY <2>1, Survives DEF IInv, DiskStep
<1> QED
  BY <1>2, <1>3 DEF JobsStep

(* A row without a tombstone may be rewritten by any well-typed row that   *)
(* has none and names a used directory.                                    *)
LEMMA PlainRow ==
  ASSUME NEW row \in Row, NEW dk, row.tomb = NoDraft, Used(dk, row.draft)
  PROVE  RowOK(row, dk)
  BY DEF RowOK, Used

(* An idle job and an absent task are in order.                            *)
LEMMA Nothing ==
  ASSUME NEW dk
  PROVE  JobOK(IdleJob, dk) /\ TaskOK(NoTask, dk)
  BY DEF JobOK, IdleJob, NoHand, HandOK, Job, Hand, Item, TaskOK, TaskState, NoTask, Used

(* The other variables, when a step leaves them alone.                     *)
LEMMA SameRest ==
  ASSUME IInv, UNCHANGED <<fault, live, proc, mishaps>>
  PROVE  RestTyped
  BY DEF IInv, TypeOK, RestTyped

(* A mishap counts one more.                                               *)
LEMMA MishapTyped ==
  ASSUME IInv, NEW kind, Mishap(kind)
  PROVE  mishaps' \in Nat
  BY DEF IInv, TypeOK, Mishap

(* Every status a row may have.                                            *)
Statuses == Active \cup Terminal \cup {"absent"}

(* Giving up a lease leaves the draft part of a row alone.                 *)
LEMMA ReleasedRow ==
  ASSUME NEW row \in Row, NEW target \in Statuses
  PROVE  /\ Released(row, target) \in Row
         /\ Released(row, target).draft = row.draft
         /\ Released(row, target).tomb = row.tomb
         /\ Released(row, target).effect = row.effect
         /\ Released(row, target).err = row.err
         /\ Released(row, target).status = target
  BY DEF Released, Row, Statuses

-----------------------------------------------------------------------------
(* Taking up a cleanup job (Begin).                                        *)
LEMMA Beginning ==
  ASSUME IInv, UNCHANGED disk, NEW p \in Procs,
         NEW goal \in {"open", "tick", "cancel", "resume"}, NEW r \in Runs \cup {NoRun},
         goal \in {"cancel", "resume"} => r \in Runs,
         NEW scope \in SUBSET Runs, Begin(p, goal, r, scope)
  PROVE  JobsStep
<1> DEFINE j == [goal |-> goal, run |-> r, todo |-> Worklist(scope), hand |-> NoHand]
<1>1. \A item \in Worklist(scope) : item \in Item /\ Used(disk', item.dir)
  <2> SUFFICES ASSUME NEW q \in Runs, rows[q].tomb # NoDraft
               PROVE  /\ [run |-> q, dir |-> rows[q].tomb] \in Item
                      /\ Used(disk', rows[q].tomb)
    BY DEF Worklist, Tombstoned, StatusIn
  <2>1. RowOK(rows[q], disk)
    BY DEF IInv
  <2> QED
    BY <2>1 DEF RowOK, Row, Item
<1>2. JobOK(j, disk')
  BY <1>1 DEF JobOK, Job, Hand, NoHand, HandOK
<1>3. job' = [job EXCEPT ![p] = j]
  BY DEF Begin
<1> HIDE DEF j
<1> QED
  BY <1>2, <1>3, SameDisk, OneJob

(* Steps that only take up a job: Tick, RequestCancel and Open.            *)
LEMMA BeginSteps ==
  ASSUME IInv, NEW p \in Procs, Open(p) \/ Tick(p) \/ \E r \in Runs : RequestCancel(p, r)
  PROVE  GoodStep
<1>1. UNCHANGED disk /\ UNCHANGED rows /\ UNCHANGED task
  BY DEF Open, Tick, RequestCancel
<1>2. JobsStep
  <2>1. CASE Open(p) \/ Tick(p)
    BY <1>1, <2>1, Beginning DEF Open, Tick
  <2>2. ASSUME NEW r \in Runs, RequestCancel(p, r)
        PROVE  JobsStep
    <3>1. Begin(p, "cancel", r, {r})
      BY <2>2 DEF RequestCancel
    <3> QED
      BY <1>1, <3>1, Beginning
  <2> QED
    BY <2>1, <2>2
<1>3. RestTyped
  BY DEF IInv, TypeOK, RestTyped, Open, Tick, RequestCancel
<1> QED
  BY <1>1, <1>2, <1>3, SameDisk, SameRows, SameTasks, Assemble

(* Deleting the directory of a tombstone leaves it gone in the hand.       *)
LEMMA DiscardStep ==
  ASSUME IInv, NEW p \in Procs, Discard(p)
  PROVE  GoodStep
<1>1. PICK item \in job[p].todo :
        /\ job' = [job EXCEPT
             ![p].todo = @ \ {item},
             ![p].hand = [run |-> item.run, dir |-> item.dir, ok |-> ~Undeletable(item.dir)]]
        /\ IF Undeletable(item.dir) THEN UNCHANGED disk ELSE Remove({item.dir})
  BY DEF Discard
<1>2. JobOK(job[p], disk) /\ item \in Item /\ Used(disk, item.dir)
  BY DEF IInv, JobOK, Job
<1>3. DiskStep
  BY <1>1, SameDisk, Removing
<1> DEFINE ok == ~Undeletable(item.dir)
           hand == [run |-> item.run, dir |-> item.dir, ok |-> ok]
           j == [job[p] EXCEPT !.todo = @ \ {item}, !.hand = hand]
<1>4. ok \in BOOLEAN
  OBVIOUS
<1>5. ok => disk'[item.dir] = "gone"
  <2> SUFFICES ASSUME ok PROVE disk'[item.dir] = "gone"
    OBVIOUS
  <2>1. item.dir \in Drafts /\ item.dir # NoDraft
    BY <1>2, DraftCleanupAssumption DEF Item
  <2>2. disk'[item.dir] # "draft"
    BY <1>1, <2>1, Removing
  <2>3. disk'[item.dir] # "unused" /\ disk'[item.dir] \in DirState
    BY <1>2, <1>3, <2>1 DEF Used, DiskStep, Grows
  <2> QED
    BY <2>2, <2>3 DEF DirState
<1>6. job' = [job EXCEPT ![p] = j]
  BY <1>1 DEF IInv, TypeOK, Job
<1> HIDE DEF ok
<1>7. hand \in [run : Runs, dir : Drafts, ok : BOOLEAN]
  BY <1>2, <1>4 DEF Item
<1>8. HandOK(hand, disk')
  BY <1>5, <1>7 DEF HandOK
<1>9. hand \in Hand
  BY <1>7 DEF Hand
<1>10. JobOK(job[p], disk')
  BY <1>2, <1>3, Survives DEF DiskStep
<1> HIDE DEF hand
<1>11. JobOK(j, disk')
  BY <1>8, <1>9, <1>10 DEF JobOK, Job
<1> HIDE DEF j
<1>12. JobsStep
  BY <1>3, <1>6, <1>11, OneJob
<1> QED
  BY <1>3, <1>12, SameRows, SameTasks, SameRest, Assemble DEF Discard

(* The outcome of a deletion is a well-typed row, without a tombstone or   *)
(* with the same one.                                                      *)
LEMMA SettledRow ==
  ASSUME NEW row \in Row, NEW ok \in BOOLEAN
  PROVE  /\ Settled(row, ok) \in Row
         /\ Settled(row, ok).draft = row.draft
         /\ Settled(row, ok).tomb = IF ok THEN NoDraft ELSE row.tomb
         /\ Settled(row, ok).status \in Unclaimable
<1>1. CASE ok
  <2> DEFINE target == IF row.effect THEN "needs_attention" ELSE "cancelled"
             base == Released(row, target)
             err == IF row.effect THEN base.err ELSE "none"
  <2>1. target \in Statuses /\ target \in Unclaimable
    BY DEF Statuses, Active, Terminal, Unclaimable
  <2>2. base \in Row /\ base.draft = row.draft /\ base.status = target
    BY <2>1, ReleasedRow
  <2>3. err \in {"none", "unknown", "cleanup", "committed"}
    BY <2>2 DEF Row
  <2>4. Settled(row, ok) = [base EXCEPT !.tomb = NoDraft, !.err = err]
    BY <1>1 DEF Settled
  <2> HIDE DEF base, err, target
  <2> QED
    BY <1>1, <2>1, <2>2, <2>3, <2>4 DEF Row
<1>2. CASE ~ok
  BY <1>2 DEF Settled, Row, Active, Occupying, Unclaimable
<1> QED
  BY <1>1, <1>2

(* The second transaction clears a tombstone only if its directory is gone. *)
LEMMA SettleStep ==
  ASSUME IInv, NEW p \in Procs, Settle(p)
  PROVE  GoodStep
<1> DEFINE hand == job[p].hand
<1>1. DiskStep
  BY SameDisk DEF Settle
<1>2. /\ hand \in [run : Runs, dir : Drafts, ok : BOOLEAN]
      /\ hand.ok => disk'[hand.dir] = "gone"
  BY DEF Settle, IInv, JobOK, HandOK
<1>3. RowsStep
  <2>1. CASE rows[hand.run].tomb # hand.dir
    BY <1>1, <2>1, SameRows DEF Settle
  <2>2. CASE rows[hand.run].tomb = hand.dir
    <3> DEFINE new == Settled(rows[hand.run], hand.ok)
    <3>1. rows' = [rows EXCEPT ![hand.run] = new]
      BY <2>2 DEF Settle
    <3>2. RowOK(rows[hand.run], disk') /\ rows[hand.run] \in Row
      BY <1>1, <1>2, Survives DEF IInv, TypeOK, DiskStep
    <3>3. /\ new \in Row /\ new.draft = rows[hand.run].draft
          /\ new.tomb = IF hand.ok THEN NoDraft ELSE rows[hand.run].tomb
          /\ new.status \in Unclaimable
      BY <1>2, <3>2, SettledRow
    <3> HIDE DEF new
    <3>4. RowOK(new, disk')
      BY <3>2, <3>3 DEF RowOK, Used
    <3>5. TombKept(rows[hand.run], new)
      BY <1>2, <2>2, <3>3 DEF TombKept
    <3> QED
      BY <1>1, <1>2, <3>1, <3>4, <3>5, OneRow
  <2> QED
    BY <2>1, <2>2
<1>4. JobsStep
  <2> DEFINE j == [job[p] EXCEPT !.hand = NoHand]
  <2>1. JobOK(job[p], disk')
    BY <1>1, Survives DEF IInv, DiskStep
  <2>2. JobOK(j, disk')
    BY <2>1 DEF JobOK, Job, HandOK, NoHand, Hand
  <2>3. job' = [job EXCEPT ![p] = j]
    BY DEF Settle
  <2> HIDE DEF j
  <2> QED
    BY <1>1, <2>2, <2>3, OneJob
<1> QED
  BY <1>1, <1>3, <1>4, SameTasks, SameRest, Assemble DEF Settle

(* A process that ends its job.                                            *)
LEMMA JobDone ==
  ASSUME IInv, DiskStep, NEW p \in Procs, job' = [job EXCEPT ![p] = IdleJob]
  PROVE  JobsStep
  BY Nothing, OneJob

(* The startup reaper (Reap).                                              *)
LEMMA ReapStep ==
  ASSUME IInv, NEW p \in Procs, Reap(p)
  PROVE  GoodStep
<1>1. DiskStep
  BY Removing DEF Reap
<1>2. JobsStep
  BY <1>1, JobDone DEF Reap
<1>3. RestTyped
  BY DEF Reap, IInv, TypeOK, RestTyped
<1> QED
  BY <1>1, <1>2, <1>3, SameRows, SameTasks, Assemble DEF Reap

(* Recovery requeues, closes or sends to review, and keeps the draft and   *)
(* the tombstone; a requeued row has none.                                 *)
LEMMA RecoverStep ==
  ASSUME IInv, NEW p \in Procs, Recover(p)
  PROVE  GoodStep
<1>1. DiskStep
  BY SameDisk DEF Recover
<1>2. ASSUME NEW r \in StatusIn(Occupying)
      PROVE  RowOK(Recovered(rows[r]), disk') /\ TombKept(rows[r], Recovered(rows[r]))
  <2> DEFINE target == IF rows[r].status = "running" THEN "queued"
                       ELSE IF rows[r].step THEN "needs_attention" ELSE "cancelled"
             new == Released(rows[r], target)
  <2>1. r \in Runs /\ rows[r].status \in Occupying
    BY <1>2 DEF StatusIn
  <2>2. RowOK(rows[r], disk')
    BY <1>1, <2>1, Survives DEF IInv, DiskStep
  <2>3. target \in Statuses
    BY DEF Statuses, Active, Terminal
  <2>4. new \in Row /\ new.draft = rows[r].draft /\ new.tomb = rows[r].tomb /\ new.status = target
    BY <2>2, <2>3, ReleasedRow DEF RowOK
  <2>5. rows[r].tomb # NoDraft => target \in Unclaimable
    BY <2>2 DEF RowOK, Unclaimable
  <2>6. Recovered(rows[r]) = new
    BY DEF Recovered
  <2> HIDE DEF new, target
  <2> QED
    BY <2>2, <2>4, <2>5, <2>6 DEF RowOK, TombKept
<1>3. PICK S \in SUBSET StatusIn(Occupying) :
        rows' = [r \in Runs |-> IF r \in S THEN Recovered(rows[r]) ELSE rows[r]]
  <2>1. PICK lapsed \in SUBSET (StatusIn(Occupying) \ Orphans) :
          rows' = [r \in Runs |-> IF r \in Orphans \cup lapsed THEN Recovered(rows[r])
                                                              ELSE rows[r]]
    BY DEF Recover
  <2>2. Orphans \cup lapsed \in SUBSET StatusIn(Occupying)
    BY DEF Orphans
  <2> QED
    BY <2>1, <2>2
<1>4. ASSUME NEW r \in Runs
      PROVE  rows'[r] \in Row /\ RowOK(rows'[r], disk') /\ TombKept(rows[r], rows'[r])
  <2>1. CASE r \in S
    BY <1>2, <1>3, <2>1 DEF RowOK
  <2>2. CASE r \notin S
    <3>1. rows'[r] = rows[r]
      BY <1>3, <2>2
    <3> QED
      BY <1>1, <3>1, Survives DEF IInv, TypeOK, DiskStep, TombKept
  <2> QED
    BY <2>1, <2>2
<1>5. RowsStep
  BY <1>3, <1>4 DEF RowsStep
<1>6. JobsStep
  BY <1>1, JobDone DEF Recover
<1>7. mishaps' \in Nat
  BY MishapTyped DEF Recover, IInv, TypeOK
<1>8. RestTyped
  BY <1>7 DEF Recover, IInv, TypeOK, RestTyped
<1> QED
  BY <1>1, <1>5, <1>6, <1>8, SameTasks, Assemble DEF Recover

(* The row that a cancellation marks.                                      *)
LEMMA MarkedRow ==
  ASSUME IInv, NEW r \in Runs, rows[r].status \in {"queued", "waiting_user"}
  PROVE  RowOK(Marked(r), disk) /\ TombKept(rows[r], Marked(r))
<1> DEFINE row == rows[r]
<1>1. RowOK(row, disk) /\ row.tomb = NoDraft
  BY DEF IInv, RowOK, Unclaimable
<1>2. CASE row.draft = NoDraft /\ ~row.effect
  <2>1. "cancelled" \in Statuses /\ Marked(r) = Released(row, "cancelled")
    BY <1>2 DEF Statuses, Terminal, Marked
  <2>2. Released(row, "cancelled") \in Row /\ Released(row, "cancelled").tomb = NoDraft
        /\ Released(row, "cancelled").draft = row.draft
    BY <1>1, <2>1, ReleasedRow DEF RowOK
  <2> QED
    BY <1>1, <2>1, <2>2, PlainRow DEF RowOK, TombKept
<1>3. CASE row.draft = NoDraft /\ row.effect
  BY <1>1, <1>3 DEF Marked, RowOK, Row, Active, TombKept
<1>4. CASE row.draft # NoDraft /\ (fault[row.draft] = "unsafe" \/ Promoted(r))
  <2>1. \/ Marked(r) = [row EXCEPT !.status = "needs_attention", !.err = "cleanup"]
        \/ Marked(r) = [row EXCEPT !.status = "needs_attention", !.err = "committed",
                                    !.effect = TRUE]
    BY <1>4 DEF Marked
  <2> QED
    BY <1>1, <2>1 DEF RowOK, Row, Active, TombKept
<1>5. CASE row.draft # NoDraft /\ fault[row.draft] # "unsafe" /\ ~Promoted(r)
  <2>1. Marked(r) =
          [row EXCEPT !.status = IF row.effect THEN "needs_attention" ELSE "cancel_requested",
                      !.err = IF row.effect THEN "unknown" ELSE @,
                      !.draft = NoDraft, !.tomb = row.draft]
    BY <1>5 DEF Marked
  <2>2. CASE row.effect
    BY <1>1, <2>1, <2>2 DEF RowOK, Row, Active, Used, Unclaimable, TombKept
  <2>3. CASE ~row.effect
    BY <1>1, <2>1, <2>3 DEF RowOK, Row, Active, Occupying, Used, Unclaimable, TombKept
  <2> QED
    BY <2>2, <2>3
<1> QED
  BY <1>2, <1>3, <1>4, <1>5

(* The marking transaction of a cancellation.                              *)
LEMMA MarkStep ==
  ASSUME IInv, NEW p \in Procs, Mark(p)
  PROVE  GoodStep
<1> DEFINE r == job[p].run
           new == IF rows[r].status = "running"
                  THEN [rows[r] EXCEPT !.status = "cancel_requested"]
                  ELSE IF rows[r].status \in {"queued", "waiting_user"} THEN Marked(r)
                  ELSE rows[r]
<1>1. DiskStep /\ disk' = disk
  BY SameDisk DEF Mark
<1>2. r \in Runs /\ JobOK(job[p], disk') /\ RowOK(rows[r], disk')
  BY <1>1 DEF Mark, WorkedOff, IInv, JobOK
<1>3. RowOK(new, disk') /\ TombKept(rows[r], new)
  <2>1. CASE rows[r].status = "running"
    BY <1>2, <2>1 DEF RowOK, Row, Active, Occupying, TombKept, Unclaimable
  <2>2. CASE rows[r].status \in {"queued", "waiting_user"}
    BY <1>1, <1>2, <2>2, MarkedRow
  <2>3. CASE rows[r].status \notin {"running", "queued", "waiting_user"}
    BY <1>2, <2>3 DEF TombKept
  <2> QED
    BY <2>1, <2>2, <2>3
<1>4. rows' = [rows EXCEPT ![r] = new] /\ rows'[r] = new
  BY <1>2 DEF Mark, IInv, TypeOK
<1> HIDE DEF new
<1>5. RowsStep
  BY <1>1, <1>2, <1>3, <1>4, OneRow
<1>6. JobsStep /\ TasksStep
  <2>1. CASE rows'[r].tomb # rows[r].tomb
    <3> DEFINE item == [run |-> r, dir |-> new.tomb]
               j == [job[p] EXCEPT !.goal = "resume", !.todo = {item}]
    <3>1. job' = [job EXCEPT ![p] = j] /\ UNCHANGED task
      BY <1>4, <2>1 DEF Mark, IInv, TypeOK
    <3>2. new.tomb \in Drafts
      <4>1. rows[r].status \in {"queued", "waiting_user"}
        BY <1>4, <2>1 DEF new
      <4>2. rows[r].tomb = NoDraft
        BY <1>2, <4>1 DEF RowOK, Unclaimable
      <4> QED
        BY <1>3, <1>4, <2>1, <4>2 DEF RowOK, Row
    <3>3. item \in Item /\ Used(disk', item.dir)
      BY <1>2, <1>3, <3>2 DEF Item, RowOK
    <3>4. JobOK(j, disk')
      BY <1>2, <3>3 DEF JobOK, Job
    <3> HIDE DEF j
    <3> QED
      BY <1>1, <3>1, <3>4, OneJob, SameTasks
  <2>2. CASE rows'[r].tomb = rows[r].tomb
    <3>1. job' = [job EXCEPT ![p] = IdleJob]
      BY <2>2 DEF Mark
    <3> DEFINE c == task[p][r].cancel
                      \/ (rows'[r].status = "cancel_requested" /\ task[p][r].pc # "none")
               t == [task[p][r] EXCEPT !.cancel = c]
    <3>2. task' = [task EXCEPT ![p][r] = t]
      BY <1>2, <2>2 DEF Mark, IInv, TypeOK, TaskState
    <3>3. TaskOK(task[p][r], disk')
      BY <1>1, <1>2 DEF IInv
    <3>4. c \in BOOLEAN
      BY <3>3 DEF TaskOK, TaskState
    <3> HIDE DEF c
    <3>5. TaskOK(t, disk')
      BY <3>3, <3>4 DEF TaskOK, TaskState
    <3> HIDE DEF t
    <3> QED
      BY <1>1, <1>2, <3>1, <3>2, <3>5, JobDone, OneTask
  <2> QED
    BY <2>1, <2>2
<1> QED
  BY <1>1, <1>5, <1>6, SameRest, Assemble DEF Mark

(* The end of a cancellation's own cleanup (Resume).                       *)
LEMMA ResumeStep ==
  ASSUME IInv, NEW p \in Procs, Resume(p)
  PROVE  GoodStep
<1> DEFINE r == job[p].run
           c == task[p][r].cancel
                \/ (rows[r].status = "cancel_requested" /\ task[p][r].pc # "none")
           t == [task[p][r] EXCEPT !.cancel = c]
<1>1. DiskStep /\ r \in Runs
  BY SameDisk DEF Resume, WorkedOff, IInv, JobOK
<1>2. task' = [task EXCEPT ![p][r] = t]
  BY <1>1 DEF Resume, IInv, TypeOK, TaskState
<1>3. TaskOK(task[p][r], disk')
  BY <1>1, Survives DEF IInv, DiskStep
<1>4. c \in BOOLEAN
  BY <1>3 DEF TaskOK, TaskState
<1> HIDE DEF c
<1>5. TaskOK(t, disk')
  BY <1>3, <1>4 DEF TaskOK, TaskState
<1> HIDE DEF t
<1>6. TasksStep
  BY <1>1, <1>2, <1>5, OneTask
<1>7. JobsStep
  BY <1>1, JobDone DEF Resume
<1> QED
  BY <1>1, <1>6, <1>7, SameRows, SameRest, Assemble DEF Resume

-----------------------------------------------------------------------------
(* A step that only rewrites one row which has no tombstone.               *)
LEMMA RowOnly ==
  ASSUME IInv, UNCHANGED <<disk, fault, live, proc, job, task, mishaps>>,
         NEW r \in Runs, NEW new \in Row, rows' = [rows EXCEPT ![r] = new],
         rows[r].tomb = NoDraft, new.tomb = NoDraft, Used(disk, new.draft)
  PROVE  GoodStep
<1>1. DiskStep
  BY SameDisk
<1>2. RowOK(new, disk') /\ TombKept(rows[r], new)
  BY PlainRow DEF TombKept
<1>3. RowsStep
  BY <1>1, <1>2, OneRow
<1> QED
  BY <1>1, <1>3, SameTasks, SameJobs, SameRest, Assemble

(* A new row is well typed.                                                *)
LEMMA NewRowTyped == NewRow \in Row /\ NewRow.draft = NoDraft /\ NewRow.tomb = NoDraft
  BY DEF NewRow, Row, Active, Phases

(* A Run that is not created yet has no tombstone.                         *)
LEMMA AbsentPlain ==
  ASSUME IInv, NEW r \in Runs, ~Created(r)
  PROVE  rows[r].tomb = NoDraft
  BY DEF IInv, RowOK, Created, Unclaimable

(* Submissions, answers and reviews.                                       *)
LEMMA CommandSteps ==
  ASSUME IInv, NEW r \in Runs,
         Submit(r) \/ Answer(r) \/ \E committed \in BOOLEAN : Reconcile(r, committed)
  PROVE  GoodStep
<1>1. CASE Submit(r)
  BY <1>1, NewRowTyped, AbsentPlain, RowOnly DEF Submit, Used
<1>2. CASE Answer(r)
  <2> DEFINE new == [rows[r] EXCEPT !.status = "queued"]
  <2>1. RowOK(rows[r], disk) /\ rows[r].tomb = NoDraft
    BY <1>2 DEF Answer, IInv, RowOK, Unclaimable
  <2>2. new \in Row /\ new.tomb = NoDraft /\ Used(disk, new.draft)
    BY <2>1 DEF RowOK, Row, Active
  <2>3. rows' = [rows EXCEPT ![r] = new]
    BY <1>2 DEF Answer, IInv, TypeOK
  <2> HIDE DEF new
  <2> QED
    BY <1>2, <2>1, <2>2, <2>3, RowOnly DEF Answer
<1>3. ASSUME NEW committed \in BOOLEAN, Reconcile(r, committed)
      PROVE  GoodStep
  <2> DEFINE base == Released(rows[r], "failed")
             e == rows[r].effect /\ committed
             err == IF committed THEN "committed" ELSE "none"
             new == [base EXCEPT !.effect = e, !.err = err]
  <2>1. RowOK(rows[r], disk) /\ rows[r].tomb = NoDraft
    BY <1>3 DEF Reconcile, CleanupBlocks, IInv
  <2>2. "failed" \in Statuses
    BY DEF Statuses, Terminal
  <2>3. base \in Row /\ base.tomb = NoDraft /\ base.draft = rows[r].draft
    BY <2>1, <2>2, ReleasedRow DEF RowOK
  <2>4. rows' = [rows EXCEPT ![r] = new]
    BY <1>3 DEF Reconcile
  <2>5. e \in BOOLEAN /\ err \in {"none", "unknown", "cleanup", "committed"}
    OBVIOUS
  <2> HIDE DEF e, base, err
  <2>6. new \in Row /\ new.tomb = NoDraft /\ new.draft = rows[r].draft
    BY <2>3, <2>5 DEF Row
  <2>7. Used(disk, new.draft)
    BY <2>1, <2>6 DEF RowOK
  <2> HIDE DEF new
  <2> QED
    BY <1>3, <2>1, <2>4, <2>6, <2>7, RowOnly DEF Reconcile
<1> QED
  BY <1>1, <1>2, <1>3

(* A retry starts from a new row that may name the draft of the old one.   *)
LEMMA RetryStep ==
  ASSUME IInv, NEW r \in Runs, NEW n \in Runs, NEW feedback \in BOOLEAN, Retry(r, n, feedback)
  PROVE  GoodStep
<1> DEFINE old == rows[r]
           base == IF old.status = "cancelled" THEN NewRow
                   ELSE IF feedback THEN [Resumed(old) EXCEPT !.phase = "stage"]
                   ELSE Resumed(old)
           new == [base EXCEPT !.from = r]
<1>1. RowOK(old, disk)
  BY DEF IInv
<1>2. Resumed(old) \in Row /\ Resumed(old).tomb = NoDraft /\ Resumed(old).draft \in {old.draft, NoDraft}
  <2>1. CASE Exists(old.draft)
    <3> DEFINE phase == IF old.phase = "override" THEN "verify" ELSE old.phase
    <3>1. phase \in Phases
      BY <1>1 DEF RowOK, Row, Phases
    <3>2. Resumed(old) = [NewRow EXCEPT !.draft = old.draft, !.effect = old.effect, !.phase = phase]
      BY <2>1 DEF Resumed
    <3>3. old.draft \in Drafts \cup {NoDraft} /\ old.effect \in BOOLEAN
      BY <1>1 DEF RowOK, Row
    <3> HIDE DEF phase, old
    <3> QED
      BY <3>1, <3>2, <3>3, NewRowTyped DEF Row
  <2>2. CASE ~Exists(old.draft)
    <3>1. Resumed(old) = [NewRow EXCEPT !.effect = old.effect]
      BY <2>2 DEF Resumed
    <3>2. old.effect \in BOOLEAN
      BY <1>1 DEF RowOK, Row
    <3> HIDE DEF old
    <3> QED
      BY <3>1, <3>2, NewRowTyped DEF Row
  <2> QED
    BY <2>1, <2>2
<1>3. base \in Row /\ base.tomb = NoDraft /\ base.draft \in {old.draft, NoDraft}
  <2> "stage" \in Phases
    BY DEF Phases
  <2> QED
    BY <1>2, NewRowTyped DEF Row
<1>4. rows' = [rows EXCEPT ![n] = new]
  BY DEF Retry
<1> HIDE DEF base
<1>5. new \in Row /\ new.tomb = NoDraft /\ Used(disk, new.draft)
  BY <1>1, <1>3 DEF RowOK, Row, Used
<1> HIDE DEF new
<1>6. rows[n].tomb = NoDraft
  BY AbsentPlain DEF Retry
<1> QED
  BY <1>4, <1>5, <1>6, RowOnly DEF Retry

-----------------------------------------------------------------------------
(* A task that ends leaves nothing, or a thread that goes on.              *)
LEMMA Ending ==
  ASSUME IInv, DiskStep, NEW p \in Procs, NEW r \in Runs, EndTask(p, r)
  PROVE  TasksStep
<1> DEFINE t == task[p][r]
<1>1. TaskOK(t, disk')
  BY Survives DEF IInv, DiskStep
<1>2. TaskOK(Ended(t), disk')
  <2>1. CASE t.thread = "out"
    BY <1>1, <2>1 DEF Ended, NoTask, TaskOK, TaskState
  <2>2. CASE t.thread # "out"
    BY <2>2, Nothing DEF Ended
  <2> QED
    BY <2>1, <2>2
<1> QED
  BY <1>2, OneTask DEF EndTask, SetTask

(* A step outcome of a fenced task (commit_step): its Run is running, so   *)
(* its row has no tombstone.                                               *)
LEMMA CommitStep ==
  ASSUME IInv, DiskStep, NEW p \in Procs, NEW r \in Runs, NEW row \in Row,
         Commit(p, r, row), row.tomb = rows[r].tomb, Used(disk', row.draft)
  PROVE  GoodStep
<1>1. rows[r].tomb = NoDraft
  BY DEF Commit, Fenced, IInv, RowOK, Unclaimable
<1>2. RowOK(row, disk') /\ TombKept(rows[r], row)
  BY <1>1, PlainRow DEF TombKept
<1>3. RowsStep
  BY <1>2, OneRow DEF Commit
<1>4. TasksStep
  BY Ending DEF Commit
<1> QED
  BY <1>3, <1>4, SameJobs, SameRest, Assemble DEF Commit

(* The same for the common outcome: the lease is given up, the draft kept. *)
LEMMA ReleaseStep ==
  ASSUME IInv, UNCHANGED disk, NEW p \in Procs, NEW r \in Runs, NEW target \in Statuses,
         Commit(p, r, Released(rows[r], target))
  PROVE  GoodStep
<1>1. RowOK(rows[r], disk)
  BY DEF IInv
<1> QED
  BY <1>1, SameDisk, ReleasedRow, CommitStep DEF RowOK

(* Claiming a queued Run and opening its step.                             *)
LEMMA ClaimSteps ==
  ASSUME IInv, NEW p \in Procs, NEW r \in Runs, Claim(p, r) \/ BeginStep(p, r)
  PROVE  GoodStep
<1>1. DiskStep /\ disk' = disk
  BY SameDisk DEF Claim, BeginStep
<1>2. RowOK(rows[r], disk') /\ TaskOK(task[p][r], disk')
  BY <1>1 DEF IInv
<1>3. rows[r].tomb = NoDraft
  BY <1>2 DEF Claim, BeginStep, Fenced, RowOK, Unclaimable
<1>4. PICK new : /\ rows' = [rows EXCEPT ![r] = new]
                 /\ new \in Row /\ new.tomb = NoDraft /\ new.draft = rows[r].draft
  <2>1. CASE Claim(p, r)
    <3>1. rows' = [rows EXCEPT ![r] = [rows[r] EXCEPT !.status = "running", !.owner = p]]
      BY <2>1 DEF Claim, IInv, TypeOK
    <3>2. [rows[r] EXCEPT !.status = "running", !.owner = p] \in Row
      BY <1>2 DEF RowOK, Row, Active, Occupying
    <3> QED
      BY <1>2, <1>3, <3>1, <3>2 DEF RowOK, Row
  <2>2. CASE BeginStep(p, r)
    <3>1. rows' = [rows EXCEPT ![r] = [rows[r] EXCEPT !.step = TRUE]]
      BY <2>2 DEF BeginStep, IInv, TypeOK
    <3>2. [rows[r] EXCEPT !.step = TRUE] \in Row
      BY <1>2 DEF RowOK, Row
    <3> QED
      BY <1>2, <1>3, <3>1, <3>2 DEF RowOK, Row
  <2> QED
    BY <2>1, <2>2
<1>5. Used(disk', new.draft)
  BY <1>2, <1>4 DEF RowOK
<1>6. RowOK(new, disk') /\ TombKept(rows[r], new)
  BY <1>3, <1>4, <1>5, PlainRow DEF TombKept
<1>7. RowsStep
  BY <1>1, <1>4, <1>6, OneRow
<1>8. PICK t : SetTask(p, r, t) /\ TaskOK(t, disk')
  <2>1. CASE Claim(p, r)
    <3>1. TaskOK([NoTask EXCEPT !.pc = "created"], disk')
      BY DEF TaskOK, TaskState, NoTask, Used
    <3> QED
      BY <2>1, <3>1 DEF Claim
  <2>2. CASE BeginStep(p, r)
    <3>1. TaskOK([task[p][r] EXCEPT !.pc = "started"], disk')
      BY <1>2 DEF TaskOK, TaskState
    <3> QED
      BY <2>2, <3>1 DEF BeginStep
  <2> QED
    BY <2>1, <2>2
<1>9. TasksStep
  BY <1>1, <1>8, OneTask DEF SetTask
<1> QED
  BY <1>1, <1>7, <1>9, SameJobs, SameRest, Assemble DEF Claim, BeginStep

(* An outcome that changes neither draft nor tombstone nor a directory.    *)
LEMMA KeepingCommit ==
  ASSUME IInv, UNCHANGED disk, NEW p \in Procs, NEW r \in Runs, NEW row \in Row,
         Commit(p, r, row), row.tomb = rows[r].tomb, row.draft = rows[r].draft
  PROVE  GoodStep
<1>1. DiskStep
  BY SameDisk
<1>2. Used(disk, rows[r].draft)
  BY DEF IInv, RowOK
<1>3. Used(disk', row.draft)
  BY <1>2
<1> QED
  BY <1>1, <1>3, CommitStep

(* What a fenced task may write besides its status.                        *)
LEMMA QueuedRow ==
  ASSUME IInv, NEW r \in Runs
  PROVE  /\ rows[r] \in Row
         /\ \A target \in {"queued", "waiting_user", "succeeded", "failed", "needs_attention"} :
              LET row == Released(rows[r], target) IN
              row \in Row /\ row.draft = rows[r].draft /\ row.tomb = rows[r].tomb
<1>1. rows[r] \in Row
  BY DEF IInv, TypeOK
<1>2. {"queued", "waiting_user", "succeeded", "failed", "needs_attention"} \subseteq Statuses
  BY DEF Statuses, Active, Terminal
<1> QED
  BY <1>1, <1>2, ReleasedRow

(* Phases that leave the directories alone: a graph write, verification,   *)
(* and the end of a publication.                                           *)
LEMMA PhaseSteps ==
  ASSUME IInv, NEW p \in Procs, NEW r \in Runs,
         CommitGraph(p, r) \/ Verify(p, r) \/ Publish(p, r)
  PROVE  GoodStep
<1> DEFINE base(target) == Released(rows[r], target)
<1>1. UNCHANGED disk
  BY DEF CommitGraph, Verify, Publish
<1>2. /\ base("queued") \in Row /\ base("waiting_user") \in Row
      /\ base("succeeded") \in Row /\ base("needs_attention") \in Row
      /\ \A target \in {"queued", "waiting_user", "succeeded", "needs_attention"} :
           base(target).draft = rows[r].draft /\ base(target).tomb = rows[r].tomb
  BY QueuedRow
<1> HIDE DEF base
<1>3. PICK row :
        /\ Commit(p, r, row)
        /\ row \in Row /\ row.tomb = rows[r].tomb /\ row.draft = rows[r].draft
  <2>1. CASE CommitGraph(p, r)
    <3> DEFINE row == [base("queued") EXCEPT !.effect = TRUE]
    <3>1. Commit(p, r, row)
      BY <2>1 DEF CommitGraph, base
    <3>2. row \in Row /\ row.tomb = rows[r].tomb /\ row.draft = rows[r].draft
      BY <1>2 DEF Row
    <3> QED
      BY <3>1, <3>2
  <2>2. CASE Verify(p, r)
    <3>1. \/ Commit(p, r, [base("queued") EXCEPT !.phase = "promote"])
          \/ Commit(p, r, [base("waiting_user") EXCEPT !.phase = "override"])
      BY <2>2 DEF Verify, base
    <3>2. CASE Commit(p, r, [base("queued") EXCEPT !.phase = "promote"])
      BY <1>2, <3>2 DEF Row, Phases
    <3>3. CASE Commit(p, r, [base("waiting_user") EXCEPT !.phase = "override"])
      BY <1>2, <3>3 DEF Row, Phases
    <3> QED
      BY <3>1, <3>2, <3>3
  <2>3. CASE Publish(p, r)
    <3>1. \/ Commit(p, r, base("succeeded"))
          \/ Commit(p, r, [base("needs_attention") EXCEPT !.effect = TRUE, !.err = "unknown"])
      BY <2>3 DEF Publish, base
    <3>2. CASE Commit(p, r, base("succeeded"))
      BY <1>2, <3>2
    <3>3. CASE Commit(p, r, [base("needs_attention") EXCEPT !.effect = TRUE, !.err = "unknown"])
      <4> DEFINE b == base("needs_attention")
                 row == [b EXCEPT !.effect = TRUE, !.err = "unknown"]
      <4>0. b \in Row /\ b.tomb = rows[r].tomb /\ b.draft = rows[r].draft
        BY <1>2
      <4> HIDE DEF b
      <4>1. row \in Row /\ row.tomb = rows[r].tomb /\ row.draft = rows[r].draft
        BY <4>0 DEF Row
      <4>2. Commit(p, r, row)
        BY <3>3 DEF b
      <4> HIDE DEF row
      <4> QED
        BY <4>1, <4>2
    <3> QED
      BY <3>1, <3>2, <3>3
  <2> QED
    BY <2>1, <2>2, <2>3
<1> QED
  BY <1>1, <1>3, KeepingCommit

(* A step that changes directories and one task, and no row.               *)
LEMMA TaskOnly ==
  ASSUME IInv, DiskStep, UNCHANGED rows, UNCHANGED job, RestTyped,
         NEW p \in Procs, NEW r \in Runs, NEW t, SetTask(p, r, t), TaskOK(t, disk')
  PROVE  GoodStep
<1>1. TasksStep
  BY OneTask DEF SetTask
<1> QED
  BY <1>1, SameRows, SameJobs, Assemble

(* The coding agent starts in the retained draft or in a new directory,    *)
(* whose name is used from then on.                                        *)
LEMMA GenerateStep ==
  ASSUME IInv, NEW p \in Procs, NEW r \in Runs, Generate(p, r)
  PROVE  GoodStep
<1>1. UNCHANGED rows /\ UNCHANGED job /\ RestTyped
  BY SameRest DEF Generate
<1>2. TaskOK(task[p][r], disk) /\ RowOK(rows[r], disk)
  BY DEF IInv
<1>3. ASSUME NEW d \in Drafts, DiskStep, Used(disk', d),
             SetTask(p, r, [task[p][r] EXCEPT !.pc = "staging", !.dir = d])
      PROVE  GoodStep
  <2> DEFINE t == [task[p][r] EXCEPT !.pc = "staging", !.dir = d]
  <2>1. t \in TaskState /\ t.dir = d
    BY <1>2 DEF TaskOK, TaskState
  <2>2. TaskOK(t, disk')
    BY <1>3, <2>1 DEF TaskOK
  <2>3. SetTask(p, r, t)
    BY <1>3
  <2> HIDE DEF t
  <2> QED
    BY <1>1, <1>3, <2>2, <2>3, TaskOnly
<1>4. CASE /\ Exists(rows[r].draft) /\ UNCHANGED disk
           /\ SetTask(p, r, [task[p][r] EXCEPT !.pc = "staging", !.dir = rows[r].draft])
  <2>1. rows[r].draft \in Drafts /\ Used(disk', rows[r].draft)
    BY <1>2, <1>4 DEF RowOK, Row, Exists
  <2> QED
    BY <1>3, <1>4, <2>1, SameDisk
<1>5. CASE \E d \in Drafts :
             /\ disk[d] = "unused"
             /\ disk' = [disk EXCEPT ![d] = "draft"]
             /\ SetTask(p, r, [task[p][r] EXCEPT !.pc = "staging", !.dir = d])
  <2>1. PICK d \in Drafts :
          /\ disk[d] = "unused"
          /\ disk' = [disk EXCEPT ![d] = "draft"]
          /\ SetTask(p, r, [task[p][r] EXCEPT !.pc = "staging", !.dir = d])
    BY <1>5
  <2>2. disk \in [Drafts -> DirState]
    BY DEF IInv, TypeOK, DirState
  <2>3. DiskStep
    BY <2>1, <2>2 DEF DiskStep, DirState, Grows
  <2>4. Used(disk', d)
    BY <2>1, <2>2 DEF Used
  <2> QED
    BY <1>3, <2>1, <2>3, <2>4
<1> QED
  BY <1>4, <1>5 DEF Generate

(* A generated or repaired draft enters the row (Staged).                  *)
LEMMA StagedStep ==
  ASSUME IInv, NEW p \in Procs, NEW r \in Runs, Staged(p, r)
  PROVE  GoodStep
<1> DEFINE b == Released(rows[r], "queued")
           d == task[p][r].dir
           row == [b EXCEPT !.draft = d, !.phase = "verify"]
<1>1. DiskStep /\ disk' = disk
  BY SameDisk DEF Staged
<1>2. d \in Drafts \cup {NoDraft} /\ Used(disk', d)
  BY <1>1 DEF IInv, TaskOK, TaskState
<1>3. b \in Row /\ b.tomb = rows[r].tomb
  BY QueuedRow
<1>4. Commit(p, r, row)
  BY DEF Staged
<1> HIDE DEF b, d
<1>5. row \in Row /\ row.tomb = rows[r].tomb /\ row.draft = d
  BY <1>2, <1>3 DEF Row, Phases
<1>6. Used(disk', row.draft)
  BY <1>2, <1>5
<1> HIDE DEF row
<1> QED
  BY <1>1, <1>4, <1>5, <1>6, CommitStep

(* An answered override: the draft is edited again or given up (Rework).   *)
LEMMA ReworkStep ==
  ASSUME IInv, NEW p \in Procs, NEW r \in Runs, Rework(p, r)
  PROVE  GoodStep
<1> DEFINE b == Released(rows[r], "queued")
           kept == [b EXCEPT !.phase = "stage"]
           given == [b EXCEPT !.phase = "stage", !.draft = NoDraft]
<1>1. b \in Row /\ b.tomb = rows[r].tomb /\ b.draft = rows[r].draft
  BY QueuedRow
<1>2. \/ Commit(p, r, kept) /\ UNCHANGED disk
      \/ Commit(p, r, given) /\ Remove({rows[r].draft})
  BY DEF Rework
<1> HIDE DEF b
<1>3. /\ kept \in Row /\ kept.tomb = rows[r].tomb /\ kept.draft = rows[r].draft
      /\ given \in Row /\ given.tomb = rows[r].tomb /\ given.draft = NoDraft
  BY <1>1 DEF Row, Phases
<1> HIDE DEF kept, given
<1>4. CASE Commit(p, r, kept) /\ UNCHANGED disk
  BY <1>3, <1>4, KeepingCommit
<1>5. CASE Commit(p, r, given) /\ Remove({rows[r].draft})
  <2>1. DiskStep
    BY <1>5, Removing
  <2>2. Used(disk', given.draft)
    BY <1>3 DEF Used
  <2> QED
    BY <1>3, <1>5, <2>1, <2>2, CommitStep
<1> QED
  BY <1>2, <1>4, <1>5

(* The promotion is recognised as done, or its thread starts.              *)
LEMMA PromoteStep ==
  ASSUME IInv, NEW p \in Procs, NEW r \in Runs, Promote(p, r)
  PROVE  GoodStep
<1>1. DiskStep /\ disk' = disk
  BY SameDisk DEF Promote
<1>2. CASE Commit(p, r, Released(rows[r], "succeeded"))
  <2>1. "succeeded" \in Statuses
    BY DEF Statuses, Terminal
  <2> QED
    BY <1>1, <1>2, <2>1, ReleaseStep
<1>3. CASE ~Commit(p, r, Released(rows[r], "succeeded"))
  <2> DEFINE d == rows[r].draft
             t == [task[p][r] EXCEPT !.pc = "promoting", !.thread = "out", !.dir = d]
  <2>1. SetTask(p, r, t) /\ UNCHANGED <<rows, fault, live, proc, job, mishaps>>
    BY <1>3 DEF Promote
  <2>2. d \in Drafts \cup {NoDraft} /\ Used(disk', d)
    BY <1>1 DEF IInv, RowOK, Row
  <2>3. task[p][r] \in TaskState
    BY DEF IInv, TypeOK
  <2> HIDE DEF d
  <2>4. t \in TaskState /\ t.dir = d
    BY <2>2, <2>3 DEF TaskState
  <2>5. TaskOK(t, disk')
    BY <2>2, <2>4 DEF TaskOK
  <2> HIDE DEF t
  <2> QED
    BY <1>1, <2>1, <2>5, SameRest, TaskOnly
<1> QED
  BY <1>2, <1>3

(* The promotion thread renames its draft away, or fails.                  *)
LEMMA LandStep ==
  ASSUME IInv, NEW p \in Procs, NEW r \in Runs, Land(p, r)
  PROVE  GoodStep
<1> DEFINE t == task[p][r]
           done(result) == IF t.pc = "promoting" THEN [t EXCEPT !.thread = result] ELSE NoTask
<1>1. PICK result \in {"landed", "failed"} : SetTask(p, r, done(result))
  BY DEF Land
<1>2. DiskStep
  BY Removing, SameDisk DEF Land
<1>3. RestTyped
  BY DEF Land, IInv, TypeOK, RestTyped
<1>4. TaskOK(t, disk')
  BY <1>2, Survives DEF IInv, DiskStep
<1>5. TaskOK([t EXCEPT !.thread = result], disk')
  <2> HIDE DEF t
  <2> QED
    BY <1>4 DEF TaskOK, TaskState
<1>6. TaskOK(done(result), disk')
  BY <1>5, Nothing
<1> HIDE DEF done
<1> QED
  BY <1>1, <1>2, <1>3, <1>6, TaskOnly DEF Land

(* A failure keeps the draft the agent was working in (_failure).          *)
LEMMA FailStep ==
  ASSUME IInv, NEW p \in Procs, NEW r \in Runs, Fail(p, r)
  PROVE  GoodStep
<1> DEFINE d == IF task[p][r].pc = "staging" THEN task[p][r].dir ELSE rows[r].draft
           row == [rows[r] EXCEPT !.draft = d]
           phase == IF row.effect THEN "stage" ELSE Released(row, "failed").phase
           failed == [Released(row, "failed") EXCEPT !.effect = FALSE, !.phase = phase]
           review == [Released(row, "needs_attention") EXCEPT !.err = "unknown"]
           again == Released(rows[r], "queued")
<1>1. DiskStep /\ disk' = disk
  BY SameDisk DEF Fail
<1>2. rows[r] \in Row /\ d \in Drafts \cup {NoDraft} /\ Used(disk', d)
  BY <1>1 DEF IInv, TaskOK, TaskState, RowOK, Row
<1>3. \/ Commit(p, r, failed)
      \/ Commit(p, r, review)
      \/ Commit(p, r, Released(row, "queued")) /\ task[p][r].pc # "staging"
  BY DEF Fail
<1>4. row \in Row /\ row.draft = d /\ row.tomb = rows[r].tomb
  <2> HIDE DEF d
  <2> QED
    BY <1>2 DEF Row
<1> HIDE DEF row
<1>5. \A target \in {"failed", "needs_attention", "queued"} :
        /\ Released(row, target) \in Row
        /\ Released(row, target).draft = d /\ Released(row, target).tomb = rows[r].tomb
  <2>1. {"failed", "needs_attention", "queued"} \subseteq Statuses
    BY DEF Statuses, Active, Terminal
  <2> QED
    BY <1>4, <2>1, ReleasedRow
<1> HIDE DEF d
<1>6. CASE Commit(p, r, failed)
  <2> DEFINE b == Released(row, "failed")
  <2>1. b \in Row /\ b.draft = d /\ b.tomb = rows[r].tomb
    BY <1>5
  <2>2. phase \in Phases
    BY <2>1 DEF Row, Phases
  <2> HIDE DEF phase, b
  <2>3. failed = [b EXCEPT !.effect = FALSE, !.phase = phase]
    BY DEF b
  <2> HIDE DEF failed
  <2>4. failed \in Row /\ failed.draft = d /\ failed.tomb = rows[r].tomb
    BY <2>1, <2>2, <2>3 DEF Row
  <2>5. Used(disk', failed.draft)
    BY <1>2, <2>4
  <2> QED
    BY <1>1, <1>6, <2>4, <2>5, CommitStep
<1>7. CASE Commit(p, r, review)
  <2> DEFINE b == Released(row, "needs_attention")
  <2>1. b \in Row /\ b.draft = d /\ b.tomb = rows[r].tomb
    BY <1>5
  <2> HIDE DEF b
  <2>2. review = [b EXCEPT !.err = "unknown"]
    BY DEF b
  <2> HIDE DEF review
  <2>3. review \in Row /\ review.draft = d /\ review.tomb = rows[r].tomb
    BY <2>1, <2>2 DEF Row
  <2>4. Used(disk', review.draft)
    BY <1>2, <2>3
  <2> QED
    BY <1>1, <1>7, <2>3, <2>4, CommitStep
<1>8. CASE Commit(p, r, Released(row, "queued"))
  <2>1. Used(disk', Released(row, "queued").draft)
    BY <1>2, <1>5
  <2> QED
    BY <1>1, <1>5, <1>8, <2>1, CommitStep
<1> QED
  BY <1>3, <1>6, <1>7, <1>8

(* A fenced-out task ends and writes nothing.                              *)
LEMMA LoseLeaseStep ==
  ASSUME IInv, NEW p \in Procs, NEW r \in Runs, LoseLease(p, r)
  PROVE  GoodStep
<1>1. DiskStep
  BY SameDisk DEF LoseLease
<1>2. TasksStep
  BY <1>1, Ending DEF LoseLease
<1> QED
  BY <1>1, <1>2, SameRows, SameJobs, SameRest, Assemble DEF LoseLease

(* A cancelled task deletes what it may and acknowledges if it holds the   *)
(* lease; the tombstone of its row, if any, stays.                         *)
LEMMA UnwindStep ==
  ASSUME IInv, NEW p \in Procs, NEW r \in Runs, Unwind(p, r)
  PROVE  GoodStep
<1>1. DiskStep
  BY Removing DEF Unwind
<1>2. TasksStep
  BY <1>1, Ending DEF Unwind
<1>3. RowOK(rows[r], disk')
  BY <1>1, Survives DEF IInv, DiskStep
<1>4. ASSUME NEW target \in {"needs_attention", "cancelled"}
      PROVE  /\ RowOK(Released(rows[r], target), disk')
             /\ TombKept(rows[r], Released(rows[r], target))
  <2> DEFINE b == Released(rows[r], target)
  <2>1. target \in Statuses /\ target \in Unclaimable
    BY DEF Statuses, Active, Terminal, Unclaimable
  <2>2. b \in Row /\ b.tomb = rows[r].tomb /\ b.draft = rows[r].draft /\ b.status = target
    BY <1>3, <2>1, ReleasedRow DEF RowOK
  <2> HIDE DEF b
  <2>3. RowOK(b, disk') /\ TombKept(rows[r], b)
    BY <1>3, <2>1, <2>2 DEF RowOK, TombKept
  <2> QED
    BY <2>3 DEF b
<1>5. ASSUME NEW target \in {"needs_attention", "cancelled"}, NEW unknown \in BOOLEAN,
             NEW d \in {rows[r].draft, NoDraft}
      PROVE  LET new == [Released(rows[r], target) EXCEPT !.draft = d, !.effect = unknown]
             IN  RowOK(new, disk') /\ TombKept(rows[r], new)
  <2> DEFINE b == Released(rows[r], target)
             new == [b EXCEPT !.draft = d, !.effect = unknown]
  <2>1. RowOK(b, disk') /\ TombKept(rows[r], b)
    BY <1>4
  <2>2. d \in Drafts \cup {NoDraft} /\ Used(disk', d)
    BY <1>3 DEF RowOK, Row, Used
  <2> HIDE DEF b
  <2>3. /\ new \in Row /\ new.tomb = b.tomb /\ new.draft = d /\ new.status = b.status
    BY <2>1, <2>2 DEF RowOK, Row
  <2> HIDE DEF new
  <2>4. RowOK(new, disk') /\ TombKept(rows[r], new)
    BY <2>1, <2>2, <2>3 DEF RowOK, TombKept
  <2> QED
    BY <2>4 DEF new, b
<1>6. PICK unknown \in BOOLEAN :
        rows' = [rows EXCEPT ![r] =
          IF rows[r].status # "cancel_requested" \/ rows[r].owner # p THEN rows[r]
          ELSE IF task[p][r].pc = "created"
          THEN Released(rows[r], IF rows[r].step THEN "needs_attention" ELSE "cancelled")
          ELSE [Released(rows[r], IF unknown THEN "needs_attention" ELSE "cancelled") EXCEPT
                  !.draft = IF rows[r].draft \in Doomed(p, r) THEN NoDraft ELSE rows[r].draft,
                  !.effect = unknown]]
  BY DEF Unwind, Outcomes
<1> DEFINE new == rows'[r]
<1>7. rows' = [rows EXCEPT ![r] = new]
  BY <1>6 DEF IInv, TypeOK
<1>8. RowOK(new, disk') /\ TombKept(rows[r], new)
  <2>1. CASE rows[r].status # "cancel_requested" \/ rows[r].owner # p
    <3>1. new = rows[r]
      BY <1>6, <2>1 DEF IInv, TypeOK
    <3> QED
      BY <1>3, <3>1 DEF TombKept
  <2>2. CASE rows[r].status = "cancel_requested" /\ rows[r].owner = p /\ task[p][r].pc = "created"
    <3> DEFINE target == IF rows[r].step THEN "needs_attention" ELSE "cancelled"
    <3>1. new = Released(rows[r], target)
      BY <1>6, <2>2 DEF IInv, TypeOK
    <3> QED
      BY <1>4, <3>1
  <2>3. CASE rows[r].status = "cancel_requested" /\ rows[r].owner = p /\ task[p][r].pc # "created"
    <3> DEFINE target == IF unknown THEN "needs_attention" ELSE "cancelled"
               d == IF rows[r].draft \in Doomed(p, r) THEN NoDraft ELSE rows[r].draft
    <3>1. new = [Released(rows[r], target) EXCEPT !.draft = d, !.effect = unknown]
      BY <1>6, <2>3 DEF IInv, TypeOK
    <3>2. target \in {"needs_attention", "cancelled"} /\ d \in {rows[r].draft, NoDraft}
      OBVIOUS
    <3> HIDE DEF target, d, new
    <3> QED
      BY <1>5, <3>1, <3>2
  <2> QED
    BY <2>1, <2>2, <2>3
<1> HIDE DEF new
<1>9. RowsStep
  BY <1>1, <1>7, <1>8, OneRow
<1> QED
  BY <1>1, <1>2, <1>9, SameJobs, SameRest, Assemble DEF Unwind

-----------------------------------------------------------------------------
(* A crash forgets the job and the tasks of a process.                     *)
LEMMA CrashStep ==
  ASSUME IInv, NEW p \in Procs, Crash(p)
  PROVE  GoodStep
<1>1. DiskStep
  BY SameDisk, Removing DEF Crash
<1>2. JobsStep
  BY <1>1, JobDone DEF Crash
<1>3. TasksStep
  <2>1. ASSUME NEW q \in Procs, NEW r \in Runs
        PROVE  /\ task'[q][r] = IF q = p THEN NoTask ELSE task[q][r]
               /\ TaskOK(task'[q][r], disk')
    <3>1. task'[q][r] = IF q = p THEN NoTask ELSE task[q][r]
      BY DEF Crash, IInv, TypeOK
    <3> QED
      BY <1>1, <3>1, Nothing, Survives DEF IInv, DiskStep
  <2>2. NoTask \in TaskState
    BY DEF NoTask, TaskState
  <2>3. task' \in [Procs -> [Runs -> TaskState]]
    BY <2>2 DEF Crash, IInv, TypeOK
  <2> QED
    BY <2>1, <2>3 DEF TasksStep
<1>4. mishaps' \in Nat
  BY MishapTyped DEF Crash
<1>5. RestTyped
  BY <1>4 DEF Crash, IInv, TypeOK, RestTyped
<1> QED
  BY <1>1, <1>2, <1>3, <1>5, SameRows, Assemble DEF Crash

(* A path becomes undeletable, or is put right.                            *)
LEMMA FaultSteps ==
  ASSUME IInv, NEW d \in Drafts, Obstruct(d) \/ Repair(d)
  PROVE  GoodStep
<1>1. DiskStep /\ UNCHANGED <<rows, live, proc, job, task>>
  BY SameDisk DEF Obstruct, Repair
<1>2. mishaps' \in Nat
  BY MishapTyped DEF Obstruct, Repair, IInv, TypeOK
<1>3. fault' \in [Drafts -> {"none", "locked", "unsafe"}]
  BY DEF Obstruct, Repair, IInv, TypeOK
<1>4. RestTyped
  BY <1>1, <1>2, <1>3 DEF IInv, TypeOK, RestTyped
<1> QED
  BY <1>1, <1>4, SameRows, SameTasks, SameJobs, Assemble

-----------------------------------------------------------------------------
(* The initial state satisfies the invariant.                              *)
LEMMA IInvInit == Init => IInv
<1> SUFFICES ASSUME Init PROVE IInv
  OBVIOUS
<1>1. AbsentRow \in Row /\ AbsentRow.draft = NoDraft /\ AbsentRow.tomb = NoDraft
  BY NewRowTyped DEF AbsentRow, Row
<1>2. RowOK(AbsentRow, disk)
  BY <1>1, PlainRow DEF Used
<1>3. JobOK(IdleJob, disk) /\ TaskOK(NoTask, disk)
  BY Nothing
<1>4. IdleJob \in Job /\ NoTask \in TaskState
  BY <1>3 DEF JobOK, TaskOK
<1>5. TypeOK
  BY <1>1, <1>4 DEF Init, TypeOK
<1> QED
  BY <1>2, <1>3, <1>5 DEF Init, IInv

(* Every step keeps the invariant and changes rows only as RowsStep says.  *)
LEMMA IInvStep ==
  ASSUME IInv, [Next]_vars
  PROVE  GoodStep
<1>1. CASE UNCHANGED vars
  BY <1>1, SameDisk, SameRows, SameTasks, SameJobs, SameRest, Assemble DEF vars
<1>2. ASSUME NEW p \in Procs, Open(p) \/ Tick(p) \/ Cleanup(p) \/ Crash(p)
      PROVE  GoodStep
  BY <1>2, BeginSteps, DiscardStep, SettleStep, ReapStep, RecoverStep, MarkStep, ResumeStep,
     CrashStep DEF Cleanup
<1>3. ASSUME NEW p \in Procs, NEW r \in Runs, RequestCancel(p, r) \/ Workflow(p, r)
      PROVE  GoodStep
  BY <1>3, BeginSteps, ClaimSteps, PhaseSteps, GenerateStep, StagedStep, ReworkStep, PromoteStep,
     LandStep, FailStep, LoseLeaseStep, UnwindStep DEF Workflow
<1>4. ASSUME NEW r \in Runs, User(r)
      PROVE  GoodStep
  BY <1>4, CommandSteps, RetryStep DEF User
<1>5. ASSUME NEW d \in Drafts, Obstruct(d) \/ Repair(d)
      PROVE  GoodStep
  BY <1>5, FaultSteps
<1> QED
  BY <1>1, <1>2, <1>3, <1>4, <1>5 DEF Next

(* Every reachable state satisfies the invariant.                          *)
THEOREM Invariance == Spec => []IInv
<1>1. IInv /\ [Next]_vars => IInv'
  BY IInvStep DEF GoodStep
<1> QED
  BY <1>1, IInvInit, PTL DEF Spec

(* Type correctness: rows, directories, jobs and tasks stay well typed.    *)
THEOREM TypeCorrect == Spec => []TypeOK
<1>1. IInv => TypeOK
  BY DEF IInv
<1> QED
  BY <1>1, Invariance, PTL

(* A tombstone is cleared only when its directory is gone, whatever        *)
(* crashes, overlaps, stalls or cannot be deleted.                         *)
THEOREM TombstoneHolds == Spec => TombstoneOutlivesDraft
<1>1. IInv /\ [Next]_vars =>
        [\A r \in Runs :
           rows[r].tomb # NoDraft /\ rows'[r].tomb # rows[r].tomb
             => disk'[rows[r].tomb] # "draft"]_vars
  BY IInvStep DEF GoodStep, RowsStep, TombKept
<1> QED
  BY <1>1, Invariance, PTL DEF Spec, TombstoneOutlivesDraft

-----------------------------------------------------------------------------
(***************************************************************************)
(* What one step of DraftCleanup may do to a row, a task, the published    *)
(* App, a process and a cleanup job; and what follows for publications,    *)
(* tombstones and terminal statuses.                                       *)
(*                                                                         *)
(* The thirty actions reduce to the moves defined here (lemma StepMoves).  *)
(* An invariant over rows and tasks is then preserved if every move        *)
(* preserves it, whichever action makes the move.                          *)
(***************************************************************************)

Alive(p) == proc[p] \in {"opening", "up"}

Becomes(r, from, to) == rows[r].status \in from /\ rows'[r].status \in to
SameDraft(r) ==
  /\ rows'[r].phase = rows[r].phase /\ rows'[r].draft = rows[r].draft
  /\ rows'[r].tomb = rows[r].tomb /\ rows'[r].from = rows[r].from
Kept(r, d) == d # NoDraft /\ disk'[d] = "draft"

(* The moves of a row.                                                     *)
RowAdmitted(r) ==
  /\ Serving /\ Becomes(r, {"absent"}, {"queued"})
  /\ rows'[r].owner = NoProc /\ rows'[r].tomb = NoDraft
  /\ \A q \in Runs : (q < r => Created(q)) /\ (q # r => rows'[q] = rows[q])
  /\ rows'[r].draft # NoDraft =>
       \E q \in Runs : /\ rows[q].status = "failed" /\ rows'[r].from = q
                       /\ rows'[r].draft = rows[q].draft
  /\ rows'[r].phase # "stage" => Kept(r, rows'[r].draft)
RowAnswered(r) ==
  /\ Serving /\ Becomes(r, {"waiting_user"}, {"queued"})
  /\ rows'[r].owner = rows[r].owner /\ SameDraft(r)
RowReviewed(r) ==
  /\ Serving /\ Becomes(r, {"needs_attention"}, {"failed"})
  /\ rows[r].tomb = NoDraft /\ rows'[r].owner = NoProc /\ SameDraft(r)
  /\ \A p \in Procs : task[p][r].thread # "out"
RowClaimed(p, r) ==
  /\ Idle(p) /\ Becomes(r, {"queued"}, {"running"})
  /\ rows'[r].owner = p /\ SameDraft(r)
  /\ task[p][r].pc = "none" /\ task'[p][r].pc = "created"
  /\ \A q \in Runs \ {r} : /\ rows[q].status \notin Active \ {"queued"}
                           /\ rows[q].status = "queued" => r < q
RowOpened(p, r) ==
  /\ Idle(p) /\ Fenced(p, r) /\ task[p][r].pc = "created"
  /\ rows'[r].status = "running" /\ rows'[r].owner = p /\ SameDraft(r)
RowCommitted(p, r) ==
  /\ Idle(p) /\ Fenced(p, r) /\ task'[p][r].pc = "none"
  /\ task[p][r].pc \in {"started", "staging"} \/ task[p][r].thread \in {"landed", "failed"}
  /\ rows'[r].status \in {"queued", "waiting_user", "succeeded", "failed", "needs_attention"}
  /\ rows'[r].owner = NoProc /\ rows'[r].tomb = rows[r].tomb /\ rows'[r].from = rows[r].from
  /\ \/ rows'[r].draft \in {rows[r].draft, NoDraft}
     \/ task[p][r].pc = "staging" /\ rows'[r].draft = task[p][r].dir
  /\ rows'[r].status \in {"queued", "waiting_user"} =>
       \/ task[p][r].pc # "staging" /\ rows'[r].status = "queued" /\ SameDraft(r)
       \/ /\ task[p][r].pc = "staging" \/ rows[r].phase # "promote"
          /\ rows'[r].phase = "stage" \/ Kept(r, rows'[r].draft)
RowCancelled(p, r) ==
  /\ WorkedOff(p, "cancel") /\ Becomes(r, {"running"}, {"cancel_requested"})
  /\ rows'[r].owner = rows[r].owner /\ SameDraft(r)
RowWithdrawn(p, r) ==
  /\ WorkedOff(p, "cancel")
  /\ Becomes(r, {"queued", "waiting_user"}, {"cancelled", "cancel_requested", "needs_attention"})
  /\ rows'[r].status # "needs_attention" => rows[r].draft = NoDraft \/ ~Promoted(r)
  /\ rows'[r].tomb # NoDraft => rows'[r].status # "cancelled"
  /\ rows'[r].owner \in {rows[r].owner, NoProc} /\ rows'[r].from = rows[r].from
  /\ rows'[r].draft \in {rows[r].draft, NoDraft} /\ rows'[r].tomb \in {rows[r].draft, NoDraft}
RowRecovered(p, r) ==
  /\ WorkedOff(p, "tick") /\ rows[r].status \in Occupying
  /\ rows[r].owner \in Procs /\ proc[rows[r].owner] # "dead" => "stall" \in Mishaps
  /\ IF rows[r].status = "running" THEN rows'[r].status = "queued"
     ELSE rows'[r].status \in {"needs_attention", "cancelled"}
  /\ rows'[r].owner = NoProc /\ SameDraft(r)
RowCleaned(p, r) ==
  /\ job[p].hand.run = r /\ rows[r].tomb = job[p].hand.dir /\ rows[r].tomb # NoDraft
  /\ rows'[r].status \in {"needs_attention", "cancelled"}
  /\ \/ rows'[r].tomb = NoDraft
     \/ rows'[r].tomb = rows[r].tomb /\ rows'[r].status = "needs_attention"
  /\ rows'[r].owner = NoProc /\ rows'[r].from = rows[r].from /\ rows'[r].draft = rows[r].draft
RowUnwound(p, r) ==
  /\ Idle(p) /\ Becomes(r, {"cancel_requested"}, {"needs_attention", "cancelled"})
  /\ rows[r].owner = p /\ rows'[r].owner = NoProc /\ task'[p][r].pc = "none"
  /\ task[p][r].thread = "out" /\ task[p][r].pc # "created"
       => rows'[r].status = "needs_attention"
  /\ rows'[r].draft = rows[r].draft \/ (rows'[r].draft = NoDraft /\ task[p][r].thread # "out")
  /\ rows'[r].tomb = rows[r].tomb /\ rows'[r].from = rows[r].from

RowMoves(r) ==
  \/ rows'[r] = rows[r]
  \/ RowAdmitted(r) \/ RowAnswered(r) \/ RowReviewed(r)
  \/ \E p \in Procs :
       \/ RowClaimed(p, r) \/ RowOpened(p, r) \/ RowCommitted(p, r)
       \/ RowCancelled(p, r) \/ RowWithdrawn(p, r) \/ RowRecovered(p, r)
       \/ RowCleaned(p, r) \/ RowUnwound(p, r)

(* The moves of a task and of its promotion thread.                        *)
SameThread(p, r) ==
  task'[p][r].thread = task[p][r].thread /\ task'[p][r].dir = task[p][r].dir
TaskHeld(p, r) ==
  /\ task'[p][r].pc = task[p][r].pc /\ SameThread(p, r)
  /\ task'[p][r].cancel => task[p][r].cancel \/ task[p][r].pc # "none"
TaskOver(p, r) ==
  /\ task'[p][r].pc = "none" /\ ~task'[p][r].cancel
  /\ task'[p][r].thread = "none" \/ (task[p][r].thread = "out" /\ SameThread(p, r))
TaskTaken(p, r) ==
  /\ Idle(p) /\ rows'[r].status = "running" /\ rows'[r].owner = p
  /\ task[p][r].pc = "none" /\ task'[p][r].pc = "created" /\ task'[p][r].thread = "none"
TaskOpened(p, r) ==
  /\ Idle(p) /\ Fenced(p, r) /\ task[p][r].pc = "created"
  /\ task'[p][r].pc = "started" /\ SameThread(p, r)
TaskStages(p, r) ==
  /\ InPhase(p, r, "stage") /\ UNCHANGED rows
  /\ task'[p][r].pc = "staging" /\ task'[p][r].thread = task[p][r].thread
  /\ \/ task'[p][r].dir = rows[r].draft /\ Exists(rows[r].draft)
     \/ task'[p][r].dir \in Drafts /\ disk[task'[p][r].dir] = "unused"
TaskPromotes(p, r) ==
  /\ InPhase(p, r, "promote") /\ UNCHANGED rows /\ UNCHANGED disk
  /\ Exists(rows[r].draft) /\ task'[p][r].dir = rows[r].draft
  /\ task'[p][r].pc = "promoting" /\ task'[p][r].thread = "out"
TaskReturns(p, r) ==
  /\ task[p][r].pc = "promoting" /\ task'[p][r].pc = "promoting" /\ task[p][r].thread = "out"
  /\ task'[p][r].thread \in {"landed", "failed"}

TaskMoves(p, r) ==
  \/ TaskHeld(p, r) \/ TaskOver(p, r) \/ TaskTaken(p, r) \/ TaskOpened(p, r)
  \/ TaskStages(p, r) \/ TaskPromotes(p, r) \/ TaskReturns(p, r)

(* The moves of the published App.                                         *)
LiveMoves ==
  \/ live' = live
  \/ \E p \in Procs, r \in Runs :
       /\ task[p][r].thread = "out" /\ live' = r /\ disk'[task[p][r].dir] = "gone"
       /\ task[p][r].dir \in Drafts /\ UNCHANGED rows

(* The moves of a process.                                                 *)
ProcMoves(p) ==
  \/ proc'[p] = proc[p]
  \/ /\ Cardinality({q \in Procs : Alive(q)}) < MaxUp
     /\ proc[p] = "idle" /\ proc'[p] = "opening"
     /\ \A q \in Procs \ {p} : proc'[q] = proc[q]
  \/ job[p].goal = "open" /\ proc'[p] = "up"
  \/ proc'[p] = "dead" /\ job'[p] = IdleJob /\ \A r \in Runs : task'[p][r] = NoTask

(* The moves of a cleanup job.                                             *)
JobMoves(p) ==
  \/ job'[p] = job[p]
  \/ job'[p] = IdleJob
  \/ /\ Idle(p) \/ proc'[p] = "opening"
     /\ job'[p].hand = NoHand /\ UNCHANGED rows
     /\ \E scope \in SUBSET Runs :
          job'[p].todo = Worklist(scope) /\ (job'[p].goal = "tick" => scope = Runs)
  \/ /\ WorkedOff(p, "cancel") /\ job'[p].goal = "resume" /\ job'[p].hand = NoHand
     /\ job'[p].todo = {[run |-> job[p].run, dir |-> rows'[job[p].run].tomb]}
  \/ /\ UNCHANGED rows /\ job[p].hand = NoHand /\ job'[p].goal = job[p].goal
     /\ \E item \in job[p].todo :
          /\ job'[p].todo = job[p].todo \ {item}
          /\ job'[p].hand.run = item.run /\ job'[p].hand.dir = item.dir
  \/ /\ job[p].hand # NoHand /\ job'[p].hand = NoHand
     /\ job'[p].goal = job[p].goal /\ job'[p].todo = job[p].todo
     /\ \A r \in Runs : job[p].hand.run = r /\ rows[r].tomb = job[p].hand.dir
          => rows'[r].tomb = NoDraft \/ rows'[r].status = "needs_attention"

RowsMove == \A r \in Runs : RowMoves(r)
TasksMove == \A p \in Procs, r \in Runs : TaskMoves(p, r)
ProcsMove == \A p \in Procs : ProcMoves(p)
JobsMove == \A p \in Procs : JobMoves(p)
StepMoves == RowsMove /\ TasksMove /\ LiveMoves /\ ProcsMove /\ JobsMove

-----------------------------------------------------------------------------
(* What a step does not touch does not move.                               *)
LEMMA Still ==
  /\ UNCHANGED rows => RowsMove
  /\ UNCHANGED task => TasksMove
  /\ UNCHANGED live => LiveMoves
  /\ UNCHANGED proc => ProcsMove
  /\ UNCHANGED job => JobsMove
  BY DEF RowsMove, RowMoves, TasksMove, TaskMoves, TaskHeld, SameThread, LiveMoves, ProcsMove,
         ProcMoves, JobsMove, JobMoves

(* A step that writes one row.                                             *)
LEMMA RowMove ==
  ASSUME IInv, NEW r \in Runs, NEW new, rows' = [rows EXCEPT ![r] = new], RowMoves(r)
  PROVE  RowsMove
<1>1. ASSUME NEW q \in Runs, q # r
      PROVE  rows'[q] = rows[q]
  BY <1>1 DEF IInv, TypeOK
<1> QED
  BY <1>1 DEF RowsMove, RowMoves

(* A step that writes one task.                                            *)
LEMMA TaskMove ==
  ASSUME IInv, NEW p \in Procs, NEW r \in Runs, NEW t, SetTask(p, r, t),
         task'[p][r] = t => TaskMoves(p, r)
  PROVE  TasksMove /\ task'[p][r] = t
<1>1. ASSUME NEW q \in Procs, NEW s \in Runs
      PROVE  task'[q][s] = IF q = p /\ s = r THEN t ELSE task[q][s]
  BY DEF SetTask, IInv, TypeOK
<1>2. ASSUME NEW q \in Procs, NEW s \in Runs, task'[q][s] = task[q][s]
      PROVE  TaskMoves(q, s)
  BY <1>2 DEF TaskMoves, TaskHeld, SameThread
<1> QED
  BY <1>1, <1>2 DEF TasksMove

(* A task that ends.                                                       *)
LEMMA EndMove ==
  ASSUME IInv, NEW p \in Procs, NEW r \in Runs, EndTask(p, r)
  PROVE  TasksMove /\ task'[p][r].pc = "none"
<1>1. Ended(task[p][r]).pc = "none"
  BY DEF Ended, NoTask
<1>2. ASSUME task'[p][r] = Ended(task[p][r])
      PROVE  TaskOver(p, r)
  BY <1>2 DEF TaskOver, SameThread, Ended, NoTask
<1> QED
  BY <1>1, <1>2, TaskMove DEF EndTask, TaskMoves

(* A process that writes its job.                                          *)
LEMMA JobMove ==
  ASSUME IInv, NEW p \in Procs, NEW j, job' = [job EXCEPT ![p] = j],
         job'[p] = j => JobMoves(p)
  PROVE  JobsMove
<1>1. ASSUME NEW q \in Procs
      PROVE  job'[q] = IF q = p THEN j ELSE job[q]
  BY DEF IInv, TypeOK
<1> QED
  BY <1>1 DEF JobsMove, JobMoves

-----------------------------------------------------------------------------
(* Taking up a cleanup job.                                                *)
LEMMA BeginMove ==
  ASSUME IInv, UNCHANGED rows, NEW p \in Procs, NEW goal, NEW r, NEW scope \in SUBSET Runs,
         goal = "tick" => scope = Runs, Idle(p) \/ proc'[p] = "opening", Begin(p, goal, r, scope)
  PROVE  JobsMove
<1> DEFINE j == [goal |-> goal, run |-> r, todo |-> Worklist(scope), hand |-> NoHand]
<1>1. job' = [job EXCEPT ![p] = j]
  BY DEF Begin
<1>2. j.goal = goal /\ j.todo = Worklist(scope) /\ j.hand = NoHand
  OBVIOUS
<1> HIDE DEF j
<1> QED
  BY <1>1, <1>2, JobMove DEF JobMoves

LEMMA BeginMoves ==
  ASSUME IInv, NEW p \in Procs, Open(p) \/ Tick(p) \/ \E r \in Runs : RequestCancel(p, r)
  PROVE  StepMoves
<1>1. UNCHANGED <<rows, task, live>>
  BY DEF Open, Tick, RequestCancel
<1>2. CASE Open(p)
  <2>1. /\ proc' = [proc EXCEPT ![p] = "opening"] /\ proc[p] = "idle"
        /\ Cardinality({q \in Procs : Alive(q)}) < MaxUp
    BY <1>2 DEF Open, Alive
  <2>2. proc'[p] = "opening" /\ \A q \in Procs \ {p} : proc'[q] = proc[q]
    BY <2>1 DEF IInv, TypeOK
  <2>3. ProcsMove
    BY <2>1, <2>2 DEF ProcsMove, ProcMoves
  <2>4. JobsMove
    BY <1>1, <1>2, <2>2, BeginMove DEF Open
  <2> QED
    BY <1>1, <2>3, <2>4, Still DEF StepMoves
<1>3. CASE Tick(p)
  <2>1. JobsMove
    BY <1>1, <1>3, BeginMove DEF Tick
  <2> QED
    BY <1>1, <1>3, <2>1, Still DEF StepMoves, Tick
<1>4. ASSUME NEW r \in Runs, RequestCancel(p, r)
      PROVE  StepMoves
  <2>1. JobsMove
    <3>1. Begin(p, "cancel", r, {r}) /\ Idle(p)
      BY <1>4 DEF RequestCancel
    <3> QED
      BY <1>1, <3>1, BeginMove
  <2> QED
    BY <1>1, <1>4, <2>1, Still DEF StepMoves, RequestCancel
<1> QED
  BY <1>2, <1>3, <1>4

(* Deleting a directory, between the two transactions.                     *)
LEMMA DiscardMoves ==
  ASSUME IInv, NEW p \in Procs, Discard(p)
  PROVE  StepMoves
<1>1. PICK item \in job[p].todo :
        job' = [job EXCEPT
           ![p].todo = @ \ {item},
           ![p].hand = [run |-> item.run, dir |-> item.dir, ok |-> ~Undeletable(item.dir)]]
  BY DEF Discard
<1> DEFINE hand == [run |-> item.run, dir |-> item.dir, ok |-> ~Undeletable(item.dir)]
           j == [job[p] EXCEPT !.todo = @ \ {item}, !.hand = hand]
<1>2. job' = [job EXCEPT ![p] = j] /\ job[p] \in Job
  BY <1>1 DEF IInv, TypeOK, Job
<1>3. hand.run = item.run /\ hand.dir = item.dir
  OBVIOUS
<1> HIDE DEF hand
<1>4. j.goal = job[p].goal /\ j.todo = job[p].todo \ {item} /\ j.hand = hand
  BY <1>2 DEF Job
<1> HIDE DEF j
<1>5. job[p].hand = NoHand /\ UNCHANGED rows
  BY DEF Discard
<1>6. job'[p] = j => JobMoves(p)
  BY <1>3, <1>4, <1>5 DEF JobMoves
<1>7. JobsMove
  BY <1>2, <1>6, JobMove
<1> QED
  BY <1>7, Still DEF StepMoves, Discard

(* The fields of a row whose deletion is settled.                          *)
LEMMA SettledFrom ==
  ASSUME NEW row \in Row, NEW ok \in BOOLEAN
  PROVE  /\ Settled(row, ok).owner = NoProc /\ Settled(row, ok).from = row.from
         /\ Settled(row, ok).status \in {"needs_attention", "cancelled"}
         /\ ~ok => Settled(row, ok).status = "needs_attention"
<1> DEFINE target == IF row.effect THEN "needs_attention" ELSE "cancelled"
           b == Released(row, target)
           err == IF row.effect THEN b.err ELSE "none"
<1>1. b.owner = NoProc /\ b.from = row.from /\ b.status = target /\ b \in Row
  BY DEF Released, Row, Active, Terminal
<1>2. ok => Settled(row, ok) = [b EXCEPT !.tomb = NoDraft, !.err = err]
  BY DEF Settled
<1>3. target \in {"needs_attention", "cancelled"}
  OBVIOUS
<1> HIDE DEF b, err, target
<1>4. CASE ok
  BY <1>1, <1>2, <1>3, <1>4 DEF Row
<1>5. CASE ~ok
  BY <1>5 DEF Settled, Row
<1> QED
  BY <1>4, <1>5

(* The transaction after a deletion.                                       *)
LEMMA SettleMoves ==
  ASSUME IInv, NEW p \in Procs, Settle(p)
  PROVE  StepMoves
<1> DEFINE hand == job[p].hand
           q == hand.run
           new == Settled(rows[q], hand.ok)
<1>1. hand \in [run : Runs, dir : Drafts, ok : BOOLEAN]
  BY DEF Settle, IInv, JobOK, HandOK
<1>2. hand.dir # NoDraft
  BY <1>1, DraftCleanupAssumption
<1>3. rows[q] \in Row /\ q \in Runs
  BY <1>1 DEF IInv, TypeOK
<1>4. /\ new.owner = NoProc /\ new.from = rows[q].from /\ new.draft = rows[q].draft
      /\ new.status \in {"needs_attention", "cancelled"}
      /\ new.tomb = NoDraft \/ (new.tomb = rows[q].tomb /\ new.status = "needs_attention")
  BY <1>1, <1>3, SettledFrom, SettledRow
<1>5. CASE rows[q].tomb = hand.dir
  <2>1. rows' = [rows EXCEPT ![q] = new]
    BY <1>5 DEF Settle
  <2>2. rows'[q] = new
    BY <1>3, <2>1 DEF IInv, TypeOK
  <2> HIDE DEF new
  <2>3. RowCleaned(p, q)
    BY <1>2, <1>4, <1>5, <2>2 DEF RowCleaned
  <2>4. RowsMove
    BY <1>3, <2>1, <2>3, RowMove DEF RowMoves
  <2>5. rows'[q].tomb = NoDraft \/ rows'[q].status = "needs_attention"
    BY <1>4, <2>2
  <2> DEFINE j == [job[p] EXCEPT !.hand = NoHand]
  <2>6. j.goal = job[p].goal /\ j.todo = job[p].todo /\ j.hand = NoHand
    BY DEF IInv, TypeOK, Job
  <2>7. job' = [job EXCEPT ![p] = j]
    BY DEF Settle
  <2> HIDE DEF j
  <2>8. job[p].hand # NoHand
    BY DEF Settle
  <2>9. job'[p] = j => JobMoves(p)
    BY <2>5, <2>6, <2>8 DEF JobMoves
  <2>10. JobsMove
    BY <2>7, <2>9, JobMove
  <2> QED
    BY <2>4, <2>10, Still DEF StepMoves, Settle
<1>6. CASE rows[q].tomb # hand.dir
  <2>1. UNCHANGED rows
    BY <1>6 DEF Settle
  <2> DEFINE j == [job[p] EXCEPT !.hand = NoHand]
  <2>2. j.goal = job[p].goal /\ j.todo = job[p].todo /\ j.hand = NoHand
    BY DEF IInv, TypeOK, Job
  <2>3. job' = [job EXCEPT ![p] = j]
    BY DEF Settle
  <2> HIDE DEF j
  <2>4. job[p].hand # NoHand
    BY DEF Settle
  <2>5. job'[p] = j => JobMoves(p)
    BY <1>6, <2>1, <2>2, <2>4 DEF JobMoves
  <2>6. JobsMove
    BY <2>3, <2>5, JobMove
  <2> QED
    BY <2>1, <2>6, Still DEF StepMoves, Settle
<1> QED
  BY <1>5, <1>6

(* A job that ends.                                                        *)
LEMMA IdleMove ==
  ASSUME IInv, NEW p \in Procs, job' = [job EXCEPT ![p] = IdleJob]
  PROVE  JobsMove
<1>1. job'[p] = IdleJob => JobMoves(p)
  BY DEF JobMoves
<1> QED
  BY <1>1, JobMove

(* The reaper at startup.                                                  *)
LEMMA ReapMoves ==
  ASSUME IInv, NEW p \in Procs, Reap(p)
  PROVE  StepMoves
<1>1. \A q \in Procs : proc'[q] = IF q = p THEN "up" ELSE proc[q]
  BY DEF Reap, IInv, TypeOK
<1>2. ProcsMove
  BY <1>1 DEF ProcsMove, ProcMoves, Reap, WorkedOff
<1> QED
  BY <1>2, Still, IdleMove DEF StepMoves, Reap

(* Giving up a lease changes status, lease and step only.                  *)
LEMMA ReleasedFields ==
  ASSUME NEW row \in Row, NEW target
  PROVE  /\ Released(row, target).status = target /\ Released(row, target).owner = NoProc
         /\ Released(row, target).phase = row.phase /\ Released(row, target).draft = row.draft
         /\ Released(row, target).tomb = row.tomb /\ Released(row, target).from = row.from
  BY DEF Released, Row

(* Recovery of orphaned Runs.                                              *)
LEMMA RecoverMoves ==
  ASSUME IInv, NEW p \in Procs, Recover(p)
  PROVE  StepMoves
<1>1. PICK lapsed \in SUBSET (StatusIn(Occupying) \ Orphans) :
        /\ IF lapsed = {} THEN UNCHANGED mishaps ELSE Mishap("stall")
        /\ rows' = [r \in Runs |-> IF r \in Orphans \cup lapsed THEN Recovered(rows[r])
                                                            ELSE rows[r]]
  BY DEF Recover
<1>2. ASSUME NEW r \in Runs
      PROVE  RowMoves(r)
  <2>1. CASE r \notin Orphans \cup lapsed
    BY <1>1, <2>1 DEF RowMoves
  <2>2. CASE r \in Orphans \cup lapsed
    <3>1. rows'[r] = Recovered(rows[r]) /\ rows[r] \in Row
      BY <1>1, <2>2 DEF IInv, TypeOK
    <3>2. rows[r].status \in Occupying
      BY <2>2 DEF Orphans, StatusIn
    <3>3. rows[r].owner \in Procs /\ proc[rows[r].owner] # "dead" => "stall" \in Mishaps
      BY <1>1, <2>2, DraftCleanupAssumption DEF Orphans, Mishap
    <3> DEFINE target == IF rows[r].status = "running" THEN "queued"
                         ELSE IF rows[r].step THEN "needs_attention" ELSE "cancelled"
    <3>4. rows'[r] = Released(rows[r], target)
      BY <3>1 DEF Recovered
    <3>5. IF rows[r].status = "running" THEN target = "queued"
          ELSE target \in {"needs_attention", "cancelled"}
      OBVIOUS
    <3> HIDE DEF target
    <3>6. RowRecovered(p, r)
      BY <3>1, <3>2, <3>3, <3>4, <3>5, ReleasedFields DEF RowRecovered, SameDraft, Recover
    <3> QED
      BY <3>6 DEF RowMoves
  <2> QED
    BY <2>1, <2>2
<1> QED
  BY <1>2, Still, IdleMove DEF StepMoves, RowsMove, Recover

-----------------------------------------------------------------------------
(* The row that a cancellation takes out of the queue.                     *)
LEMMA MarkedFields ==
  ASSUME IInv, NEW r \in Runs, rows[r].status \in {"queued", "waiting_user"}
  PROVE  LET new == Marked(r) IN
         /\ new.status \in {"cancelled", "cancel_requested", "needs_attention"}
         /\ new.status # "needs_attention" => rows[r].draft = NoDraft \/ ~Promoted(r)
         /\ new.tomb # NoDraft => new.status # "cancelled"
         /\ new.owner \in {rows[r].owner, NoProc} /\ new.from = rows[r].from
         /\ new.draft \in {rows[r].draft, NoDraft} /\ new.tomb \in {rows[r].draft, NoDraft}
<1> DEFINE row == rows[r]
<1>1. row \in Row /\ row.tomb = NoDraft
  BY DEF IInv, TypeOK, RowOK, Unclaimable
<1>2. CASE row.draft = NoDraft /\ ~row.effect
  <2>1. Marked(r) = Released(row, "cancelled")
    BY <1>2 DEF Marked
  <2> QED
    BY <1>1, <1>2, <2>1, ReleasedFields
<1>3. CASE row.draft = NoDraft /\ row.effect
  BY <1>1, <1>3 DEF Marked, Row
<1>4. CASE row.draft # NoDraft /\ (fault[row.draft] = "unsafe" \/ Promoted(r))
  <2>1. \/ Marked(r) = [row EXCEPT !.status = "needs_attention", !.err = "cleanup"]
        \/ Marked(r) = [row EXCEPT !.status = "needs_attention", !.err = "committed",
                                    !.effect = TRUE]
    BY <1>4 DEF Marked
  <2> QED
    BY <1>1, <2>1 DEF Row
<1>5. CASE row.draft # NoDraft /\ fault[row.draft] # "unsafe" /\ ~Promoted(r)
  <2> DEFINE target == IF row.effect THEN "needs_attention" ELSE "cancel_requested"
             err == IF row.effect THEN "unknown" ELSE row.err
  <2>1. Marked(r) = [row EXCEPT !.status = target, !.err = err, !.draft = NoDraft, !.tomb = row.draft]
    BY <1>5 DEF Marked
  <2>2. target \in {"cancel_requested", "needs_attention"}
    OBVIOUS
  <2> HIDE DEF target, err
  <2> QED
    BY <1>1, <1>5, <2>1, <2>2 DEF Row
<1> QED
  BY <1>2, <1>3, <1>4, <1>5

(* The marking transaction.                                                *)
LEMMA MarkMoves ==
  ASSUME IInv, NEW p \in Procs, Mark(p)
  PROVE  StepMoves
<1> DEFINE r == job[p].run
           new == IF rows[r].status = "running"
                  THEN [rows[r] EXCEPT !.status = "cancel_requested"]
                  ELSE IF rows[r].status \in {"queued", "waiting_user"} THEN Marked(r)
                  ELSE rows[r]
<1>1. r \in Runs /\ WorkedOff(p, "cancel") /\ rows[r] \in Row
  BY DEF Mark, WorkedOff, IInv, JobOK, TypeOK
<1>2. rows' = [rows EXCEPT ![r] = new] /\ rows'[r] = new
  BY <1>1 DEF Mark, IInv, TypeOK
<1>3. RowMoves(r)
  <2>1. CASE rows[r].status = "running"
    <3>1. rows'[r] = [rows[r] EXCEPT !.status = "cancel_requested"]
      BY <1>2, <2>1
    <3>2. RowCancelled(p, r)
      BY <1>1, <2>1, <3>1 DEF RowCancelled, Becomes, SameDraft, Row
    <3> QED
      BY <3>2 DEF RowMoves
  <2>2. CASE rows[r].status \in {"queued", "waiting_user"}
    <3>1. rows'[r] = Marked(r)
      BY <1>2, <2>2
    <3>2. RowWithdrawn(p, r)
      BY <1>1, <2>2, <3>1, MarkedFields DEF RowWithdrawn, Becomes
    <3> QED
      BY <3>2 DEF RowMoves
  <2>3. CASE rows[r].status \notin {"running", "queued", "waiting_user"}
    BY <1>2, <2>3 DEF RowMoves
  <2> QED
    BY <2>1, <2>2, <2>3
<1> HIDE DEF new
<1>4. RowsMove
  BY <1>1, <1>2, <1>3, RowMove
<1>5. JobsMove /\ TasksMove
  <2>1. CASE rows'[r].tomb # rows[r].tomb
    <3> DEFINE todo == {[run |-> r, dir |-> rows'[r].tomb]}
               j == [job[p] EXCEPT !.goal = "resume", !.todo = todo]
    <3>1. job' = [job EXCEPT ![p] = j] /\ UNCHANGED task
      BY <2>1 DEF Mark, IInv, TypeOK
    <3>2. j.goal = "resume" /\ j.todo = todo /\ j.hand = NoHand
      BY <1>1 DEF IInv, TypeOK, Job, WorkedOff
    <3> HIDE DEF j
    <3>3. JobsMove
      BY <1>1, <3>1, <3>2, JobMove DEF JobMoves
    <3> QED
      BY <3>1, <3>3, Still
  <2>2. CASE rows'[r].tomb = rows[r].tomb
    <3>1. job' = [job EXCEPT ![p] = IdleJob]
      BY <2>2 DEF Mark
    <3> DEFINE c == task[p][r].cancel
                      \/ (rows'[r].status = "cancel_requested" /\ task[p][r].pc # "none")
               t == [task[p][r] EXCEPT !.cancel = c]
    <3>2. SetTask(p, r, t)
      BY <1>1, <2>2 DEF Mark, IInv, TypeOK, TaskState, SetTask
    <3>3. c => task[p][r].cancel \/ task[p][r].pc # "none"
      OBVIOUS
    <3> HIDE DEF c
    <3>4. /\ t.pc = task[p][r].pc /\ t.thread = task[p][r].thread /\ t.dir = task[p][r].dir
          /\ t.cancel = c
      BY <1>1 DEF IInv, TypeOK, TaskState
    <3> HIDE DEF t
    <3>5. task'[p][r] = t => TaskMoves(p, r)
      BY <3>3, <3>4 DEF TaskMoves, TaskHeld, SameThread
    <3> QED
      BY <1>1, <3>1, <3>2, <3>5, IdleMove, TaskMove
  <2> QED
    BY <2>1, <2>2
<1> QED
  BY <1>4, <1>5, Still DEF StepMoves, Mark

(* The end of a cancellation's own cleanup.                                *)
LEMMA ResumeMoves ==
  ASSUME IInv, NEW p \in Procs, Resume(p)
  PROVE  StepMoves
<1> DEFINE r == job[p].run
           c == task[p][r].cancel
                \/ (rows[r].status = "cancel_requested" /\ task[p][r].pc # "none")
           t == [task[p][r] EXCEPT !.cancel = c]
<1>1. r \in Runs
  BY DEF Resume, WorkedOff, IInv, JobOK
<1>2. SetTask(p, r, t)
  BY <1>1 DEF Resume, IInv, TypeOK, TaskState, SetTask
<1>3. c => task[p][r].cancel \/ task[p][r].pc # "none"
  OBVIOUS
<1> HIDE DEF c
<1>4. /\ t.pc = task[p][r].pc /\ t.thread = task[p][r].thread /\ t.dir = task[p][r].dir
      /\ t.cancel = c
  BY <1>1 DEF IInv, TypeOK, TaskState
<1> HIDE DEF t
<1>5. task'[p][r] = t => TaskMoves(p, r)
  BY <1>3, <1>4 DEF TaskMoves, TaskHeld, SameThread
<1>6. TasksMove
  BY <1>1, <1>2, <1>5, TaskMove
<1> QED
  BY <1>6, Still, IdleMove DEF StepMoves, Resume

-----------------------------------------------------------------------------
(* A step that only rewrites one row.                                      *)
LEMMA RowOnlyMoves ==
  ASSUME IInv, UNCHANGED <<live, proc, job, task>>, NEW r \in Runs, NEW new,
         rows' = [rows EXCEPT ![r] = new], rows'[r] = new => RowMoves(r)
  PROVE  StepMoves
<1>1. rows'[r] = new
  BY DEF IInv, TypeOK
<1> QED
  BY <1>1, RowMove, Still DEF StepMoves

(* Submissions, answers and reviews.                                       *)
LEMMA CommandMoves ==
  ASSUME IInv, NEW r \in Runs,
         Submit(r) \/ Answer(r) \/ \E committed \in BOOLEAN : Reconcile(r, committed)
  PROVE  StepMoves
<1>1. CASE Submit(r)
  <2>1. ASSUME rows'[r] = NewRow PROVE RowAdmitted(r)
    <3>1. /\ NewRow.status = "queued" /\ NewRow.owner = NoProc /\ NewRow.tomb = NoDraft
          /\ NewRow.draft = NoDraft /\ NewRow.phase = "stage"
      BY DEF NewRow
    <3>2. \A q \in Runs : (q < r => Created(q)) /\ (q # r => rows'[q] = rows[q])
      BY <1>1 DEF Submit, IInv, TypeOK
    <3> QED
      BY <1>1, <2>1, <3>1, <3>2 DEF RowAdmitted, Becomes, Submit, Created
  <2> QED
    BY <1>1, <2>1, RowOnlyMoves DEF Submit, RowMoves
<1>2. CASE Answer(r)
  <2> DEFINE new == [rows[r] EXCEPT !.status = "queued"]
  <2>1. rows' = [rows EXCEPT ![r] = new]
    BY <1>2 DEF Answer, IInv, TypeOK
  <2>2. rows'[r] = new => RowAnswered(r)
    BY <1>2 DEF Answer, IInv, TypeOK, Row, RowAnswered, Becomes, SameDraft
  <2> HIDE DEF new
  <2> QED
    BY <1>2, <2>1, <2>2, RowOnlyMoves DEF Answer, RowMoves
<1>3. ASSUME NEW committed \in BOOLEAN, Reconcile(r, committed)
      PROVE  StepMoves
  <2> DEFINE b == Released(rows[r], "failed")
             e == rows[r].effect /\ committed
             err == IF committed THEN "committed" ELSE "none"
             new == [b EXCEPT !.effect = e, !.err = err]
  <2>1. rows[r] \in Row
    BY DEF IInv, TypeOK
  <2>2. /\ b \in Row /\ b.status = "failed" /\ b.owner = NoProc /\ b.phase = rows[r].phase
        /\ b.draft = rows[r].draft /\ b.tomb = rows[r].tomb /\ b.from = rows[r].from
    <3>1. "failed" \in Statuses
      BY DEF Statuses, Terminal
    <3> QED
      BY <2>1, <3>1, ReleasedFields, ReleasedRow
  <2>3. rows' = [rows EXCEPT ![r] = new]
    BY <1>3 DEF Reconcile
  <2> HIDE DEF b, e, err
  <2>4. /\ new.status = "failed" /\ new.owner = NoProc /\ new.phase = rows[r].phase
        /\ new.draft = rows[r].draft /\ new.tomb = rows[r].tomb /\ new.from = rows[r].from
    BY <2>2 DEF Row
  <2> HIDE DEF new
  <2>5. rows[r].tomb = NoDraft
    BY <1>3 DEF Reconcile, CleanupBlocks
  <2>6. rows'[r] = new => RowReviewed(r)
    BY <1>3, <2>4, <2>5 DEF Reconcile, RowReviewed, Becomes, SameDraft
  <2> QED
    BY <1>3, <2>3, <2>6, RowOnlyMoves DEF Reconcile, RowMoves
<1> QED
  BY <1>1, <1>2, <1>3

(* The row a retry starts with: an existing draft of the failed Run, or    *)
(* none.                                                                   *)
LEMMA ResumedFields ==
  ASSUME NEW row \in Row
  PROVE  /\ Resumed(row) \in [status : {"queued"}, phase : Phases, draft : {row.draft, NoDraft},
                              tomb : {NoDraft}, effect : BOOLEAN, err : {"none"},
                              owner : {NoProc}, step : {FALSE}, from : {NoRun}]
         /\ Resumed(row).draft # NoDraft => Exists(row.draft)
         /\ Resumed(row).phase # "stage" => Exists(row.draft) /\ Resumed(row).draft = row.draft
<1>1. CASE Exists(row.draft)
  <2> DEFINE phase == IF row.phase = "override" THEN "verify" ELSE row.phase
  <2>1. phase \in Phases
    BY DEF Row, Phases
  <2>2. Resumed(row) = [NewRow EXCEPT !.draft = row.draft, !.effect = row.effect, !.phase = phase]
    BY <1>1 DEF Resumed
  <2>3. row.effect \in BOOLEAN
    BY DEF Row
  <2> HIDE DEF phase
  <2> QED
    BY <1>1, <2>1, <2>2, <2>3 DEF NewRow
<1>2. CASE ~Exists(row.draft)
  <2>1. Resumed(row) = [NewRow EXCEPT !.effect = row.effect]
    BY <1>2 DEF Resumed
  <2> QED
    BY <1>2, <2>1 DEF NewRow, Row, Phases
<1> QED
  BY <1>1, <1>2

LEMMA RetryMoves ==
  ASSUME IInv, NEW r \in Runs, NEW n \in Runs, NEW feedback \in BOOLEAN, Retry(r, n, feedback)
  PROVE  StepMoves
<1> DEFINE old == rows[r]
           base == IF old.status = "cancelled" THEN NewRow
                   ELSE IF feedback THEN [Resumed(old) EXCEPT !.phase = "stage"]
                   ELSE Resumed(old)
           new == [base EXCEPT !.from = r]
           S == [status : {"queued"}, phase : Phases, draft : {old.draft, NoDraft},
                 tomb : {NoDraft}, effect : BOOLEAN, err : {"none"},
                 owner : {NoProc}, step : {FALSE}, from : {NoRun}]
<1>1. old \in Row /\ old.status \in {"failed", "cancelled"}
  BY DEF IInv, TypeOK, Retry
<1>2. /\ base \in S
      /\ base.draft # NoDraft => Exists(old.draft) /\ old.status = "failed" /\ base.draft = old.draft
      /\ base.phase # "stage" => Exists(old.draft) /\ base.draft = old.draft
  <2>1. CASE old.status = "cancelled"
    <3>1. base = NewRow
      BY <2>1
    <3> HIDE DEF old, base
    <3>2. NewRow \in S /\ NewRow.draft = NoDraft /\ NewRow.phase = "stage"
      BY DEF NewRow, Phases
    <3> QED
      BY <3>1, <3>2
  <2>2. CASE old.status # "cancelled" /\ ~feedback
    <3>1. base = Resumed(old)
      BY <2>2
    <3>2. old.status = "failed"
      BY <1>1, <2>2
    <3> QED
      BY <1>1, <3>1, <3>2, ResumedFields
  <2>3. CASE old.status # "cancelled" /\ feedback
    <3> DEFINE b == Resumed(old)
    <3>1. base = [b EXCEPT !.phase = "stage"]
      BY <2>3
    <3>2. old.status = "failed"
      BY <1>1, <2>3
    <3>3. b \in S /\ (b.draft # NoDraft => Exists(old.draft))
      BY <1>1, ResumedFields
    <3> HIDE DEF b, base
    <3> QED
      BY <3>1, <3>2, <3>3 DEF Phases
  <2> QED
    BY <2>1, <2>2, <2>3
<1>3. rows' = [rows EXCEPT ![n] = new]
  BY DEF Retry
<1> HIDE DEF base, old
<1>4. /\ new.status = "queued" /\ new.owner = NoProc /\ new.tomb = NoDraft
      /\ new.draft = base.draft /\ new.phase = base.phase /\ new.from = r
  <2>1. base \in Row /\ base.status = "queued" /\ base.owner = NoProc /\ base.tomb = NoDraft
    BY <1>1, <1>2 DEF Row, Active
  <2> HIDE DEF S
  <2> QED
    BY <2>1 DEF Row
<1> HIDE DEF new
<1>5. \A q \in Runs : (q < n => Created(q)) /\ (q # n => rows'[q] = rows[q])
  BY <1>3 DEF Retry, IInv, TypeOK
<1>6. UNCHANGED <<disk, live, proc, job, task>> /\ Serving /\ rows[n].status = "absent"
  BY DEF Retry, Created
<1>7. ASSUME rows'[n] = new PROVE RowAdmitted(n)
  <2>1. rows'[n].draft # NoDraft =>
          /\ rows[r].status = "failed" /\ rows'[n].from = r /\ rows'[n].draft = rows[r].draft
    BY <1>2, <1>4, <1>7 DEF old
  <2>2. rows'[n].phase # "stage" => Kept(n, rows'[n].draft)
    BY <1>2, <1>4, <1>6, <1>7 DEF Kept, Exists
  <2> QED
    BY <1>4, <1>5, <1>6, <1>7, <2>1, <2>2 DEF RowAdmitted, Becomes
<1> QED
  BY <1>3, <1>6, <1>7, RowOnlyMoves DEF RowMoves

-----------------------------------------------------------------------------
(* Claiming a Run and opening its step.                                    *)
LEMMA ClaimMoves ==
  ASSUME IInv, NEW p \in Procs, NEW r \in Runs, Claim(p, r) \/ BeginStep(p, r)
  PROVE  StepMoves
<1>1. UNCHANGED <<live, proc, job>> /\ rows[r] \in Row /\ task[p][r] \in TaskState
  BY DEF Claim, BeginStep, IInv, TypeOK
<1>2. CASE Claim(p, r)
  <2> DEFINE new == [rows[r] EXCEPT !.status = "running", !.owner = p]
             t == [NoTask EXCEPT !.pc = "created"]
  <2>1. rows' = [rows EXCEPT ![r] = new] /\ rows'[r] = new /\ SetTask(p, r, t)
    BY <1>2 DEF Claim, IInv, TypeOK
  <2>2. /\ new.status = "running" /\ new.owner = p /\ new.phase = rows[r].phase
        /\ new.draft = rows[r].draft /\ new.tomb = rows[r].tomb /\ new.from = rows[r].from
    BY <1>1 DEF Row
  <2>3. t.pc = "created" /\ t.thread = "none"
    BY DEF NoTask
  <2> HIDE DEF new, t
  <2>4. Idle(p) /\ rows[r].status = "queued" /\ task[p][r].pc = "none"
    BY <1>2 DEF Claim
  <2>5. task'[p][r] = t => TaskMoves(p, r)
    BY <2>1, <2>2, <2>3, <2>4 DEF TaskMoves, TaskTaken
  <2>6. TasksMove /\ task'[p][r] = t
    BY <2>1, <2>5, TaskMove
  <2>7. RowClaimed(p, r)
    BY <1>2, <2>1, <2>2, <2>3, <2>4, <2>6 DEF RowClaimed, Becomes, SameDraft, Claim
  <2> QED
    BY <1>1, <2>1, <2>6, <2>7, RowMove, Still DEF StepMoves, RowMoves
<1>3. CASE BeginStep(p, r)
  <2> DEFINE new == [rows[r] EXCEPT !.step = TRUE]
             t == [task[p][r] EXCEPT !.pc = "started"]
  <2>1. rows' = [rows EXCEPT ![r] = new] /\ rows'[r] = new /\ SetTask(p, r, t)
    BY <1>3 DEF BeginStep, IInv, TypeOK
  <2>2. /\ new.status = rows[r].status /\ new.owner = rows[r].owner /\ new.phase = rows[r].phase
        /\ new.draft = rows[r].draft /\ new.tomb = rows[r].tomb /\ new.from = rows[r].from
    BY <1>1 DEF Row
  <2>3. t.pc = "started" /\ t.thread = task[p][r].thread /\ t.dir = task[p][r].dir
    BY <1>1 DEF TaskState
  <2> HIDE DEF new, t
  <2>4. Idle(p) /\ Fenced(p, r) /\ task[p][r].pc = "created"
    BY <1>3 DEF BeginStep, At
  <2>5. task'[p][r] = t => TaskMoves(p, r)
    BY <2>3, <2>4 DEF TaskMoves, TaskOpened, SameThread
  <2>6. RowOpened(p, r)
    BY <2>1, <2>2, <2>4 DEF RowOpened, SameDraft, Fenced
  <2> QED
    BY <1>1, <2>1, <2>5, <2>6, RowMove, TaskMove, Still DEF StepMoves, RowMoves
<1> QED
  BY <1>2, <1>3

(* The outcome a task commits.                                             *)
Outcome(p, r, row) ==
  /\ row.status \in {"queued", "waiting_user", "succeeded", "failed", "needs_attention"}
  /\ row.owner = NoProc /\ row.tomb = rows[r].tomb /\ row.from = rows[r].from
  /\ \/ row.draft \in {rows[r].draft, NoDraft}
     \/ task[p][r].pc = "staging" /\ row.draft = task[p][r].dir
  /\ row.status \in {"queued", "waiting_user"} =>
       \/ /\ task[p][r].pc # "staging" /\ row.status = "queued"
          /\ row.phase = rows[r].phase /\ row.draft = rows[r].draft
       \/ /\ task[p][r].pc = "staging" \/ rows[r].phase # "promote"
          /\ row.phase = "stage" \/ Kept(r, row.draft)

LEMMA CommitMoves ==
  ASSUME IInv, NEW p \in Procs, NEW r \in Runs, NEW row, Commit(p, r, row), Idle(p),
         task[p][r].pc \in {"started", "staging"} \/ task[p][r].thread \in {"landed", "failed"},
         Outcome(p, r, row)
  PROVE  StepMoves
<1>1. rows' = [rows EXCEPT ![r] = row] /\ rows'[r] = row /\ Fenced(p, r)
  BY DEF Commit, IInv, TypeOK
<1>2. TasksMove /\ task'[p][r].pc = "none"
  BY EndMove DEF Commit
<1>3. RowCommitted(p, r)
  BY <1>1, <1>2 DEF RowCommitted, Outcome, SameDraft
<1> QED
  BY <1>1, <1>2, <1>3, RowMove, Still DEF StepMoves, RowMoves, Commit

(* A row that a fenced task gives back.                                    *)
Back(r, target) == Released(rows[r], target)
BackRow(r, target, b) ==
  /\ b \in Row /\ b.status = target /\ b.owner = NoProc /\ b.phase = rows[r].phase
  /\ b.draft = rows[r].draft /\ b.tomb = rows[r].tomb /\ b.from = rows[r].from
LEMMA BackFields ==
  ASSUME IInv, NEW r \in Runs,
         NEW target \in {"queued", "waiting_user", "succeeded", "failed", "needs_attention"}
  PROVE  BackRow(r, target, Back(r, target))
<1>1. target \in Statuses /\ rows[r] \in Row
  BY DEF Statuses, Active, Terminal, IInv, TypeOK
<1> QED
  BY <1>1, ReleasedFields, ReleasedRow DEF Back, BackRow

(* Phases that end their task: a graph write, verification, an override,   *)
(* the end of a publication.                                               *)
LEMMA PhaseMoves ==
  ASSUME IInv, NEW p \in Procs, NEW r \in Runs,
         CommitGraph(p, r) \/ Verify(p, r) \/ Rework(p, r) \/ Publish(p, r)
  PROVE  StepMoves
<1> DEFINE b(target) == Back(r, target)
<1>1. /\ BackRow(r, "queued", b("queued")) /\ BackRow(r, "waiting_user", b("waiting_user"))
      /\ BackRow(r, "succeeded", b("succeeded"))
      /\ BackRow(r, "needs_attention", b("needs_attention"))
  BY BackFields
<1>2. /\ Idle(p)
      /\ task[p][r].pc \in {"started", "staging"} \/ task[p][r].thread \in {"landed", "failed"}
  BY DEF CommitGraph, Verify, Rework, Publish, InPhase, At
<1> HIDE DEF b
<1>3. CASE CommitGraph(p, r)
  <2> DEFINE row == [b("queued") EXCEPT !.effect = TRUE]
  <2>1. Commit(p, r, row) /\ task[p][r].pc = "started"
    BY <1>3 DEF CommitGraph, b, Back, InPhase, At
  <2>2. /\ row.status = "queued" /\ row.owner = NoProc /\ row.phase = rows[r].phase
        /\ row.draft = rows[r].draft /\ row.tomb = rows[r].tomb /\ row.from = rows[r].from
    BY <1>1 DEF BackRow, Row
  <2> HIDE DEF row
  <2>3. Outcome(p, r, row)
    BY <2>1, <2>2 DEF Outcome
  <2> QED
    BY <1>2, <2>1, <2>3, CommitMoves
<1>4. CASE Verify(p, r)
  <2> DEFINE on == [b("queued") EXCEPT !.phase = "promote"]
             ask == [b("waiting_user") EXCEPT !.phase = "override"]
  <2>1. Commit(p, r, on) \/ Commit(p, r, ask)
    BY <1>4 DEF Verify, b, Back
  <2>2. /\ on.status = "queued" /\ ask.status = "waiting_user"
        /\ on.owner = NoProc /\ on.draft = rows[r].draft
        /\ on.tomb = rows[r].tomb /\ on.from = rows[r].from
        /\ ask.owner = NoProc /\ ask.draft = rows[r].draft
        /\ ask.tomb = rows[r].tomb /\ ask.from = rows[r].from
    BY <1>1 DEF BackRow, Row
  <2> HIDE DEF on, ask
  <2>3. rows[r].phase # "promote" /\ Kept(r, rows[r].draft)
    BY <1>4 DEF Verify, InPhase, Kept, Exists
  <2>4. Outcome(p, r, on) /\ Outcome(p, r, ask)
    BY <2>2, <2>3 DEF Outcome
  <2> QED
    BY <1>2, <2>1, <2>4, CommitMoves
<1>5. CASE Rework(p, r)
  <2> DEFINE keep == [b("queued") EXCEPT !.phase = "stage"]
             give == [b("queued") EXCEPT !.phase = "stage", !.draft = NoDraft]
  <2>1. Commit(p, r, keep) \/ Commit(p, r, give)
    BY <1>5 DEF Rework, b, Back
  <2> DEFINE q == b("queued")
  <2>2. BackRow(r, "queued", q)
    BY <1>1
  <2> HIDE DEF q
  <2>3. /\ keep.status = "queued" /\ give.status = "queued"
        /\ keep.phase = "stage" /\ give.phase = "stage"
        /\ keep.owner = NoProc /\ keep.draft = rows[r].draft
        /\ keep.tomb = rows[r].tomb /\ keep.from = rows[r].from
        /\ give.owner = NoProc /\ give.draft = NoDraft
        /\ give.tomb = rows[r].tomb /\ give.from = rows[r].from
    BY <2>2 DEF BackRow, Row, q
  <2> HIDE DEF keep, give
  <2>4. rows[r].phase # "promote"
    BY <1>5 DEF Rework, InPhase
  <2>5. Outcome(p, r, keep) /\ Outcome(p, r, give)
    BY <2>3, <2>4 DEF Outcome
  <2> QED
    BY <1>2, <2>1, <2>5, CommitMoves
<1>6. CASE Publish(p, r)
  <2> DEFINE s == b("succeeded")
             n == b("needs_attention")
             row == [n EXCEPT !.effect = TRUE, !.err = "unknown"]
  <2>1. Commit(p, r, s) \/ Commit(p, r, row)
    BY <1>6 DEF Publish, b, Back
  <2>2. BackRow(r, "succeeded", s) /\ BackRow(r, "needs_attention", n)
    BY <1>1
  <2> HIDE DEF s, n
  <2>3. /\ row.status = "needs_attention" /\ row.owner = NoProc
        /\ row.draft = rows[r].draft /\ row.tomb = rows[r].tomb /\ row.from = rows[r].from
    BY <2>2 DEF BackRow, Row
  <2> HIDE DEF row
  <2>4. Outcome(p, r, s) /\ Outcome(p, r, row)
    BY <2>2, <2>3 DEF Outcome, BackRow
  <2> QED
    BY <1>2, <2>1, <2>4, CommitMoves
<1> QED
  BY <1>3, <1>4, <1>5, <1>6

(* A step that writes one task and no row.                                 *)
LEMMA TaskOnlyMoves ==
  ASSUME IInv, UNCHANGED <<rows, proc, job>>, LiveMoves, NEW p \in Procs, NEW r \in Runs, NEW t,
         SetTask(p, r, t), task'[p][r] = t => TaskMoves(p, r)
  PROVE  StepMoves
  BY TaskMove, Still DEF StepMoves

(* The coding agent starts to work in a directory.                         *)
LEMMA GenerateMoves ==
  ASSUME IInv, NEW p \in Procs, NEW r \in Runs, Generate(p, r)
  PROVE  StepMoves
<1>1. PICK d :
        /\ SetTask(p, r, [task[p][r] EXCEPT !.pc = "staging", !.dir = d])
        /\ (d = rows[r].draft /\ Exists(rows[r].draft)) \/ (d \in Drafts /\ disk[d] = "unused")
  BY DEF Generate
<1> DEFINE t == [task[p][r] EXCEPT !.pc = "staging", !.dir = d]
<1>2. t.pc = "staging" /\ t.dir = d /\ t.thread = task[p][r].thread
  BY DEF IInv, TypeOK, TaskState
<1> HIDE DEF t
<1>3. InPhase(p, r, "stage") /\ UNCHANGED <<rows, live, proc, job>>
  BY DEF Generate
<1>4. task'[p][r] = t => TaskMoves(p, r)
  BY <1>1, <1>2, <1>3 DEF TaskMoves, TaskStages
<1> QED
  BY <1>1, <1>3, <1>4, TaskOnlyMoves, Still DEF t

(* A generated draft enters the row.                                       *)
LEMMA StagedMoves ==
  ASSUME IInv, NEW p \in Procs, NEW r \in Runs, Staged(p, r)
  PROVE  StepMoves
<1> DEFINE b == Back(r, "queued")
           d == task[p][r].dir
           row == [b EXCEPT !.draft = d, !.phase = "verify"]
<1>1. Commit(p, r, row) /\ Idle(p) /\ task[p][r].pc = "staging"
  BY DEF Staged, Back, At
<1>2. BackRow(r, "queued", b)
  BY BackFields
<1>3. Kept(r, d)
  BY DEF Staged, Kept, Exists
<1> HIDE DEF b, d
<1>4. /\ row.status = "queued" /\ row.owner = NoProc /\ row.draft = d
      /\ row.tomb = rows[r].tomb /\ row.from = rows[r].from
  BY <1>2 DEF BackRow, Row
<1> HIDE DEF row
<1>5. Outcome(p, r, row)
  BY <1>1, <1>3, <1>4 DEF Outcome, d
<1> QED
  BY <1>1, <1>5, CommitMoves

(* A publication is recognised, or its thread starts.                      *)
LEMMA PromoteMoves ==
  ASSUME IInv, NEW p \in Procs, NEW r \in Runs, Promote(p, r)
  PROVE  StepMoves
<1>1. InPhase(p, r, "promote") /\ UNCHANGED disk
  BY DEF Promote
<1>2. CASE Commit(p, r, Back(r, "succeeded"))
  <2> DEFINE b == Back(r, "succeeded")
  <2>1. BackRow(r, "succeeded", b)
    BY BackFields
  <2> HIDE DEF b
  <2>2. Outcome(p, r, b)
    BY <2>1 DEF Outcome, BackRow
  <2> QED
    BY <1>1, <1>2, <2>2, CommitMoves DEF b, InPhase, At
<1>3. CASE ~Commit(p, r, Back(r, "succeeded"))
  <2> DEFINE t == [task[p][r] EXCEPT !.pc = "promoting", !.thread = "out", !.dir = rows[r].draft]
  <2>1. /\ SetTask(p, r, t) /\ Exists(rows[r].draft)
        /\ UNCHANGED <<rows, fault, live, proc, job, mishaps>>
    BY <1>3 DEF Promote, Back
  <2>2. t.pc = "promoting" /\ t.thread = "out" /\ t.dir = rows[r].draft
    BY DEF IInv, TypeOK, TaskState
  <2> HIDE DEF t
  <2>3. task'[p][r] = t => TaskMoves(p, r)
    BY <1>1, <2>1, <2>2 DEF TaskMoves, TaskPromotes
  <2> QED
    BY <2>1, <2>3, TaskOnlyMoves, Still
<1> QED
  BY <1>2, <1>3

(* The promotion thread ends.                                              *)
LEMMA LandMoves ==
  ASSUME IInv, NEW p \in Procs, NEW r \in Runs, Land(p, r)
  PROVE  StepMoves
<1> DEFINE t == task[p][r]
           done(result) == IF t.pc = "promoting" THEN [t EXCEPT !.thread = result] ELSE NoTask
<1>1. PICK result \in {"landed", "failed"} : SetTask(p, r, done(result))
  BY DEF Land
<1>2. t.thread = "out" /\ UNCHANGED <<rows, proc, job>> /\ t \in TaskState
  BY DEF Land, IInv, TypeOK
<1>3. LiveMoves
  <2>1. CASE UNCHANGED live
    BY <2>1, Still
  <2>2. CASE Exists(t.dir) /\ Remove({t.dir}) /\ live' = r
    <3>1. t.dir \in Drafts
      BY <1>2, <2>2 DEF TaskState, Exists
    <3>2. disk'[t.dir] = "gone"
      BY <2>2, <3>1 DEF Remove
    <3> QED
      BY <1>2, <2>2, <3>1, <3>2 DEF LiveMoves
  <2> QED
    BY <2>1, <2>2 DEF Land
<1>4. ASSUME task'[p][r] = done(result) PROVE TaskMoves(p, r)
  <2>1. CASE t.pc = "promoting"
    <3> DEFINE u == [t EXCEPT !.thread = result]
    <3>1. u.pc = "promoting" /\ u.thread = result
      BY <1>2, <2>1 DEF TaskState
    <3>2. task'[p][r] = u
      BY <1>4, <2>1
    <3> HIDE DEF u, done
    <3> QED
      BY <1>2, <2>1, <3>1, <3>2 DEF TaskMoves, TaskReturns
  <2>2. CASE t.pc # "promoting"
    BY <1>4, <2>2 DEF TaskMoves, TaskOver, NoTask
  <2> QED
    BY <2>1, <2>2
<1> HIDE DEF done
<1> QED
  BY <1>1, <1>2, <1>3, <1>4, TaskOnlyMoves

(* A failure.                                                              *)
LEMMA FailMoves ==
  ASSUME IInv, NEW p \in Procs, NEW r \in Runs, Fail(p, r)
  PROVE  StepMoves
<1> DEFINE d == IF task[p][r].pc = "staging" THEN task[p][r].dir ELSE rows[r].draft
           row == [rows[r] EXCEPT !.draft = d]
           phase == IF row.effect THEN "stage" ELSE Released(row, "failed").phase
           failed == [Released(row, "failed") EXCEPT !.effect = FALSE, !.phase = phase]
           review == [Released(row, "needs_attention") EXCEPT !.err = "unknown"]
<1>1. /\ Idle(p)
      /\ task[p][r].pc \in {"started", "staging"} \/ task[p][r].thread \in {"landed", "failed"}
  BY DEF Fail, At
<1>2. \/ Commit(p, r, failed)
      \/ Commit(p, r, review)
      \/ Commit(p, r, Released(row, "queued")) /\ task[p][r].pc # "staging"
  BY DEF Fail
<1>3. rows[r] \in Row /\ d \in Drafts \cup {NoDraft}
      /\ (d = rows[r].draft \/ (task[p][r].pc = "staging" /\ d = task[p][r].dir))
  BY DEF IInv, TypeOK, TaskState, Row
<1>4. task[p][r].pc # "staging" => d = rows[r].draft
  OBVIOUS
<1> HIDE DEF d
<1>5. /\ row \in Row /\ row.draft = d /\ row.tomb = rows[r].tomb /\ row.from = rows[r].from
      /\ row.phase = rows[r].phase
  BY <1>3 DEF Row
<1> HIDE DEF row, phase
<1> DEFINE f == Released(row, "failed")
           n == Released(row, "needs_attention")
           q == Released(row, "queued")
<1>6. /\ f \in Row /\ f.status = "failed" /\ f.owner = NoProc /\ f.draft = d
      /\ f.tomb = rows[r].tomb /\ f.from = rows[r].from
      /\ n \in Row /\ n.status = "needs_attention" /\ n.owner = NoProc /\ n.draft = d
      /\ n.tomb = rows[r].tomb /\ n.from = rows[r].from
      /\ q.status = "queued" /\ q.owner = NoProc /\ q.draft = d
      /\ q.tomb = rows[r].tomb /\ q.from = rows[r].from /\ q.phase = rows[r].phase
  <2>1. "failed" \in Statuses /\ "needs_attention" \in Statuses
    BY DEF Statuses, Active, Terminal
  <2> QED
    BY <1>5, <2>1, ReleasedFields, ReleasedRow
<1>7. CASE Commit(p, r, failed)
  <2> HIDE DEF f
  <2>1. failed = [f EXCEPT !.effect = FALSE, !.phase = phase]
    BY DEF f
  <2> HIDE DEF failed
  <2>2. /\ failed.status = "failed" /\ failed.owner = NoProc /\ failed.draft = d
        /\ failed.tomb = rows[r].tomb /\ failed.from = rows[r].from
    BY <1>6, <2>1 DEF Row
  <2>3. Outcome(p, r, failed)
    BY <1>3, <2>2 DEF Outcome
  <2> QED
    BY <1>1, <1>7, <2>3, CommitMoves
<1>8. CASE Commit(p, r, review)
  <2> HIDE DEF n
  <2>1. review = [n EXCEPT !.err = "unknown"]
    BY DEF n
  <2> HIDE DEF review
  <2>2. /\ review.status = "needs_attention" /\ review.owner = NoProc /\ review.draft = d
        /\ review.tomb = rows[r].tomb /\ review.from = rows[r].from
    BY <1>6, <2>1 DEF Row
  <2>3. Outcome(p, r, review)
    BY <1>3, <2>2 DEF Outcome
  <2> QED
    BY <1>1, <1>8, <2>3, CommitMoves
<1>9. CASE Commit(p, r, q) /\ task[p][r].pc # "staging"
  <2> HIDE DEF q
  <2>1. Outcome(p, r, q)
    BY <1>4, <1>6, <1>9 DEF Outcome
  <2> QED
    BY <1>1, <1>9, <2>1, CommitMoves
<1> QED
  BY <1>2, <1>7, <1>8, <1>9

(* A fenced-out task ends.                                                 *)
LEMMA LoseLeaseMoves ==
  ASSUME IInv, NEW p \in Procs, NEW r \in Runs, LoseLease(p, r)
  PROVE  StepMoves
  BY EndMove, Still DEF StepMoves, LoseLease

(* A cancelled task ends, and acknowledges if it may.                      *)
LEMMA UnwindMoves ==
  ASSUME IInv, NEW p \in Procs, NEW r \in Runs, Unwind(p, r)
  PROVE  StepMoves
<1>1. TasksMove /\ task'[p][r].pc = "none"
  BY EndMove DEF Unwind
<1>2. PICK unknown \in Outcomes(p, r) :
        rows' = [rows EXCEPT ![r] =
          IF rows[r].status # "cancel_requested" \/ rows[r].owner # p THEN rows[r]
          ELSE IF task[p][r].pc = "created"
          THEN Released(rows[r], IF rows[r].step THEN "needs_attention" ELSE "cancelled")
          ELSE [Released(rows[r], IF unknown THEN "needs_attention" ELSE "cancelled") EXCEPT
                  !.draft = IF rows[r].draft \in Doomed(p, r) THEN NoDraft ELSE rows[r].draft,
                  !.effect = unknown]]
  BY DEF Unwind
<1> DEFINE new == rows'[r]
<1>3. rows' = [rows EXCEPT ![r] = new] /\ rows[r] \in Row
  BY <1>2 DEF IInv, TypeOK
<1>4. RowMoves(r)
  <2>1. CASE rows[r].status # "cancel_requested" \/ rows[r].owner # p
    BY <1>2, <2>1 DEF IInv, TypeOK, RowMoves
  <2>2. CASE rows[r].status = "cancel_requested" /\ rows[r].owner = p /\ task[p][r].pc = "created"
    <3> DEFINE target == IF rows[r].step THEN "needs_attention" ELSE "cancelled"
    <3>1. new = Released(rows[r], target) /\ target \in {"needs_attention", "cancelled"}
      BY <1>2, <2>2 DEF IInv, TypeOK
    <3> HIDE DEF target
    <3>2. RowUnwound(p, r)
      BY <1>1, <1>3, <2>2, <3>1, ReleasedFields DEF RowUnwound, Becomes, Unwind
    <3> QED
      BY <3>2 DEF RowMoves
  <2>3. CASE rows[r].status = "cancel_requested" /\ rows[r].owner = p /\ task[p][r].pc # "created"
    <3> DEFINE target == IF unknown THEN "needs_attention" ELSE "cancelled"
               d == IF rows[r].draft \in Doomed(p, r) THEN NoDraft ELSE rows[r].draft
               b == Released(rows[r], target)
    <3>1. new = [b EXCEPT !.draft = d, !.effect = unknown]
      BY <1>2, <2>3 DEF IInv, TypeOK
    <3>2. /\ target \in {"needs_attention", "cancelled"}
          /\ d = rows[r].draft \/ (d = NoDraft /\ rows[r].draft \in Doomed(p, r))
      OBVIOUS
    <3>3. /\ task[p][r].thread = "out" => target = "needs_attention"
          /\ rows[r].draft \in Doomed(p, r) => task[p][r].thread # "out"
      BY DEF Outcomes, Doomed
    <3> HIDE DEF target, d, new
    <3>4. /\ b \in Row /\ b.status = target /\ b.owner = NoProc
          /\ b.tomb = rows[r].tomb /\ b.from = rows[r].from
      <4>1. target \in Statuses
        BY <3>2 DEF Statuses, Active, Terminal
      <4> QED
        BY <1>3, <4>1, ReleasedFields, ReleasedRow
    <3> HIDE DEF b
    <3>5. /\ new.status = target /\ new.owner = NoProc /\ new.draft = d
          /\ new.tomb = rows[r].tomb /\ new.from = rows[r].from
      BY <3>1, <3>4 DEF Row
    <3>6. RowUnwound(p, r)
      BY <1>1, <2>3, <3>2, <3>3, <3>5 DEF RowUnwound, Becomes, Unwind, new
    <3> QED
      BY <3>6 DEF RowMoves
  <2> QED
    BY <2>1, <2>2, <2>3
<1> HIDE DEF new
<1> QED
  BY <1>1, <1>3, <1>4, RowMove, Still DEF StepMoves, Unwind

(* A crash.                                                                *)
LEMMA CrashMoves ==
  ASSUME IInv, NEW p \in Procs, Crash(p)
  PROVE  StepMoves
<1>1. \A q \in Procs, r \in Runs : task'[q][r] = IF q = p THEN NoTask ELSE task[q][r]
  BY DEF Crash, IInv, TypeOK
<1>2. TasksMove
  BY <1>1 DEF TasksMove, TaskMoves, TaskOver, TaskHeld, SameThread, NoTask
<1>3. /\ \A q \in Procs : proc'[q] = IF q = p THEN "dead" ELSE proc[q]
      /\ job'[p] = IdleJob
  BY DEF Crash, IInv, TypeOK
<1>4. ProcsMove
  BY <1>1, <1>3 DEF ProcsMove, ProcMoves
<1>5. JobsMove
  BY IdleMove DEF Crash
<1> QED
  BY <1>2, <1>4, <1>5, Still DEF StepMoves, Crash

(* Every step consists of these moves.                                     *)
LEMMA Moves ==
  ASSUME IInv, [Next]_vars
  PROVE  StepMoves
<1>1. CASE UNCHANGED vars
  BY <1>1, Still DEF vars, StepMoves
<1>2. ASSUME NEW p \in Procs, Open(p) \/ Tick(p) \/ Cleanup(p) \/ Crash(p)
      PROVE  StepMoves
  BY <1>2, BeginMoves, DiscardMoves, SettleMoves, ReapMoves, RecoverMoves, MarkMoves,
     ResumeMoves, CrashMoves DEF Cleanup
<1>3. ASSUME NEW p \in Procs, NEW r \in Runs, RequestCancel(p, r) \/ Workflow(p, r)
      PROVE  StepMoves
  BY <1>3, BeginMoves, ClaimMoves, PhaseMoves, GenerateMoves, StagedMoves, PromoteMoves,
     LandMoves, FailMoves, LoseLeaseMoves, UnwindMoves DEF Workflow
<1>4. ASSUME NEW r \in Runs, User(r)
      PROVE  StepMoves
  BY <1>4, CommandMoves, RetryMoves DEF User
<1>5. ASSUME NEW d \in Drafts, Obstruct(d) \/ Repair(d)
      PROVE  StepMoves
  BY <1>5, Still DEF StepMoves, Obstruct, Repair
<1> QED
  BY <1>1, <1>2, <1>3, <1>4, <1>5 DEF Next

-----------------------------------------------------------------------------
(***************************************************************************)
(* What DraftCleanup promises about publications, tombstones and terminal  *)
(* statuses, from the moves of its steps, and that no draft still needed   *)
(* is deleted while no Run is retried twice.                               *)
(***************************************************************************)

Early == {"absent", "queued", "waiting_user", "running"}

(* A step seen as moves; IInv and its facts hold before and after it.      *)
Step == IInv /\ IInv' /\ RowsStep /\ DiskStep /\ StepMoves /\ [Next]_vars

LEMMA Stepping ==
  ASSUME IInv, [Next]_vars
  PROVE  Step
  BY IInvStep, Moves DEF GoodStep, Step

-----------------------------------------------------------------------------
(***************************************************************************)
(* A Run whose App is published, or whose promotion thread is out, is at   *)
(* its promotion until it leaves the queue for good: it keeps the draft    *)
(* that tells, with the marker of the live App, that it is published.      *)
(***************************************************************************)
AtPromotion(r, d) == rows[r].phase = "promote" /\ rows[r].draft = d /\ d # NoDraft

AbsentIsBlank == \A r \in Runs : rows[r].status = "absent" => rows[r].phase = "stage"
ThreadAtPromotion ==
  \A p \in Procs, r \in Runs :
    task[p][r].thread = "out" /\ rows[r].status \in Early => AtPromotion(r, task[p][r].dir)
LiveAtPromotion ==
  \A r \in Runs : live = r /\ rows[r].status \in Early =>
    \E d \in Drafts : AtPromotion(r, d) /\ disk[d] = "gone"
StagingAtStage ==
  \A p \in Procs, r \in Runs :
    task[p][r].pc = "staging" /\ Fenced(p, r) => rows[r].phase = "stage"
ThreadGoesOn ==
  \A p \in Procs, r \in Runs :
    task[p][r].thread = "out" => task[p][r].pc \in {"promoting", "none"}
Promoting ==
  AbsentIsBlank /\ ThreadAtPromotion /\ LiveAtPromotion /\ StagingAtStage /\ ThreadGoesOn

(* A row at its promotion stays there, or leaves Early for good.           *)
LEMMA StaysAtPromotion ==
  ASSUME Step, Promoting, NEW r \in Runs, NEW d, rows'[r].status \in Early,
         rows[r].status \in Early => AtPromotion(r, d)
  PROVE  /\ rows[r].status \in Early
         /\ rows'[r].phase = "promote" /\ rows'[r].draft = d /\ d # NoDraft
<1>1. RowMoves(r)
  BY DEF Step, StepMoves, RowsMove
<1>2. rows[r].status = "absent" => rows[r].phase = "stage"
  BY DEF Promoting, AbsentIsBlank
<1>3. \A p \in Procs : task[p][r].pc = "staging" /\ Fenced(p, r) => rows[r].phase = "stage"
  BY DEF Promoting, StagingAtStage
<1>4. CASE rows'[r] = rows[r] \/ RowAdmitted(r) \/ RowAnswered(r) \/ RowReviewed(r)
  BY <1>2, <1>4 DEF RowAdmitted, RowAnswered, RowReviewed, Becomes, SameDraft, Early, AtPromotion
<1>5. ASSUME NEW p \in Procs, RowCommitted(p, r)
      PROVE  /\ rows[r].status \in Early
             /\ rows'[r].phase = "promote" /\ rows'[r].draft = d /\ d # NoDraft
  BY <1>3, <1>5 DEF RowCommitted, SameDraft, Fenced, Early, AtPromotion
<1>6. ASSUME NEW p \in Procs, RowClaimed(p, r) \/ RowOpened(p, r) \/ RowCancelled(p, r)
                              \/ RowRecovered(p, r)
      PROVE  /\ rows[r].status \in Early
             /\ rows'[r].phase = "promote" /\ rows'[r].draft = d /\ d # NoDraft
  BY <1>6 DEF RowClaimed, RowOpened, RowCancelled, RowRecovered, Becomes, SameDraft, Fenced,
              Occupying, Early, AtPromotion
<1>7. ASSUME NEW p \in Procs, RowWithdrawn(p, r) \/ RowCleaned(p, r) \/ RowUnwound(p, r)
      PROVE  FALSE
  BY <1>7 DEF RowWithdrawn, RowCleaned, RowUnwound, Becomes, Early
<1> QED
  BY <1>1, <1>4, <1>5, <1>6, <1>7 DEF RowMoves

LEMMA PromotingStep ==
  ASSUME Step, Promoting
  PROVE  Promoting'
<1>1. ASSUME NEW r \in Runs
      PROVE  RowMoves(r) /\ \A p \in Procs : TaskMoves(p, r)
  BY DEF Step, StepMoves, RowsMove, TasksMove
<1>2. ASSUME NEW r \in Runs, rows'[r].status = "absent"
      PROVE  rows'[r].phase = "stage"
  <2>1. rows'[r] = rows[r]
    BY <1>1, <1>2 DEF RowMoves, RowAdmitted, RowAnswered, RowReviewed, RowClaimed, RowOpened,
         RowCommitted, RowCancelled, RowWithdrawn, RowRecovered, RowCleaned, RowUnwound, Becomes
  <2> QED
    BY <1>2, <2>1 DEF Promoting, AbsentIsBlank
<1>3. ASSUME NEW p \in Procs, NEW r \in Runs,
             task'[p][r].thread = "out", rows'[r].status \in Early
      PROVE  /\ rows'[r].phase = "promote" /\ rows'[r].draft = task'[p][r].dir
             /\ task'[p][r].dir # NoDraft
  <2>1. CASE task[p][r].thread = "out" /\ task'[p][r].dir = task[p][r].dir
    <3>1. rows[r].status \in Early => AtPromotion(r, task[p][r].dir)
      BY <2>1 DEF Promoting, ThreadAtPromotion
    <3>2. PICK d : d = task[p][r].dir
      OBVIOUS
    <3>3. rows'[r].phase = "promote" /\ rows'[r].draft = d /\ d # NoDraft
      BY <1>3, <3>1, <3>2, StaysAtPromotion
    <3> QED
      BY <2>1, <3>2, <3>3
  <2>2. CASE TaskPromotes(p, r)
    BY <2>2 DEF TaskPromotes, InPhase, Exists, AtPromotion
  <2>3. task[p][r].thread = "out" => task[p][r].pc \in {"promoting", "none"}
    BY DEF Promoting, ThreadGoesOn
  <2> QED
    BY <1>1, <1>3, <2>1, <2>2, <2>3 DEF TaskMoves, TaskHeld, TaskOver, TaskTaken, TaskOpened,
         TaskStages, TaskReturns, SameThread, InPhase, At
<1>4. ASSUME NEW r \in Runs, live' = r, rows'[r].status \in Early
      PROVE  \E d \in Drafts : /\ rows'[r].phase = "promote" /\ rows'[r].draft = d /\ d # NoDraft
                               /\ disk'[d] = "gone"
  <2>1. CASE live = r
    <3>1. ASSUME rows[r].status \notin Early
          PROVE  FALSE
      <4>1. rows[r].status \in Early
        BY <1>4, <3>1, StaysAtPromotion
      <4> QED
        BY <3>1, <4>1
    <3>2. PICK d \in Drafts : AtPromotion(r, d) /\ disk[d] = "gone"
      BY <2>1, <3>1 DEF Promoting, LiveAtPromotion
    <3>3. rows'[r].phase = "promote" /\ rows'[r].draft = d /\ d # NoDraft
      BY <1>4, <3>2, StaysAtPromotion
    <3>4. disk'[d] = "gone"
      BY <3>2 DEF Step, DiskStep, Grows
    <3> QED
      BY <3>3, <3>4
  <2>2. CASE live # r
    <3>1. PICK p \in Procs : /\ task[p][r].thread = "out" /\ disk'[task[p][r].dir] = "gone"
                             /\ task[p][r].dir \in Drafts /\ UNCHANGED rows
      BY <1>4, <2>2 DEF Step, StepMoves, LiveMoves
    <3>2. AtPromotion(r, task[p][r].dir)
      BY <1>4, <3>1 DEF Promoting, ThreadAtPromotion
    <3> QED
      BY <3>1, <3>2 DEF AtPromotion
  <2> QED
    BY <2>1, <2>2
<1>5. ASSUME NEW p \in Procs, NEW r \in Runs, task'[p][r].pc = "staging",
             rows'[r].status = "running", rows'[r].owner = p
      PROVE  rows'[r].phase = "stage"
  <2>1. CASE task[p][r].pc = "staging"
    <3>1. rows'[r] = rows[r]
      BY <1>1, <1>5, <2>1 DEF RowMoves, RowAdmitted, RowAnswered, RowReviewed, RowClaimed,
         RowOpened, RowCommitted, RowCancelled, RowWithdrawn, RowRecovered, RowCleaned,
         RowUnwound, Becomes
    <3> QED
      BY <1>5, <2>1, <3>1 DEF Promoting, StagingAtStage, Fenced
  <2>2. CASE TaskStages(p, r)
    BY <2>2 DEF TaskStages, InPhase
  <2> QED
    BY <1>1, <1>5, <2>1, <2>2 DEF TaskMoves, TaskHeld, TaskOver, TaskTaken, TaskOpened,
         TaskPromotes, TaskReturns
<1>6. AbsentIsBlank'
  BY <1>2 DEF AbsentIsBlank
<1>7. ThreadAtPromotion'
  BY <1>3 DEF ThreadAtPromotion, AtPromotion
<1>8. LiveAtPromotion'
  BY <1>4 DEF LiveAtPromotion, AtPromotion
<1>9. StagingAtStage'
  BY <1>5 DEF StagingAtStage, Fenced
<1>10. ThreadGoesOn'
  <2> SUFFICES ASSUME NEW p \in Procs, NEW r \in Runs, task'[p][r].thread = "out"
               PROVE  task'[p][r].pc \in {"promoting", "none"}
    BY DEF ThreadGoesOn
  <2>1. task[p][r].thread = "out" => task[p][r].pc \in {"promoting", "none"}
    BY DEF Promoting, ThreadGoesOn
  <2> QED
    BY <1>1, <2>1 DEF TaskMoves, TaskHeld, TaskOver, TaskTaken, TaskOpened, TaskStages,
       TaskPromotes, TaskReturns, SameThread, InPhase, At
<1> QED
  BY <1>6, <1>7, <1>8, <1>9, <1>10 DEF Promoting

LEMMA PromotingInit == Init => Promoting
<1> SUFFICES ASSUME Init PROVE Promoting
  OBVIOUS
<1>1. AbsentRow.phase = "stage" /\ NoTask.thread = "none" /\ NoTask.pc = "none"
  BY DEF AbsentRow, NewRow, NoTask
<1> QED
  BY <1>1, DraftCleanupAssumption DEF Init, Promoting, AbsentIsBlank, ThreadAtPromotion,
     LiveAtPromotion, StagingAtStage, ThreadGoesOn

(* Cancelling a Run that waits, in the queue or for the user, never passes *)
(* over an App it has published: whatever crashes, overlaps or stalls.     *)
THEOREM PublishedIsReviewedHolds == Spec => PublishedIsReviewed
<1>1. IInv /\ Promoting /\ [Next]_vars => Promoting'
  BY Stepping, PromotingStep
<1>2. IInv /\ Promoting /\ [Next]_vars =>
        [\A r \in Runs :
           rows[r].status \in {"queued", "waiting_user"}
           /\ rows'[r].status \in {"cancelled", "cancel_requested"} => live # r]_vars
  <2> SUFFICES ASSUME IInv, Promoting, [Next]_vars, NEW r \in Runs,
                      rows[r].status \in {"queued", "waiting_user"},
                      rows'[r].status \in {"cancelled", "cancel_requested"}, live = r
               PROVE  FALSE
    OBVIOUS
  <2>1. RowMoves(r)
    BY Stepping DEF Step, StepMoves, RowsMove
  <2>2. PICK p \in Procs : RowWithdrawn(p, r)
    <3>1. ASSUME NEW p \in Procs, RowCleaned(p, r)
          PROVE  FALSE
      BY <3>1 DEF RowCleaned, IInv, RowOK, Unclaimable
    <3> QED
      BY <2>1, <3>1 DEF RowMoves, RowAdmitted, RowAnswered, RowReviewed, RowClaimed, RowOpened,
         RowCommitted, RowCancelled, RowRecovered, RowUnwound, Becomes, Fenced, Occupying
  <2>3. PICK d \in Drafts : rows[r].draft = d /\ d # NoDraft /\ disk[d] = "gone"
    BY DEF Promoting, LiveAtPromotion, AtPromotion, Early
  <2> QED
    BY <2>2, <2>3 DEF RowWithdrawn, Promoted, Exists
<1> QED
  BY <1>1, <1>2, Invariance, PromotingInit, PTL DEF Spec, PublishedIsReviewed

-----------------------------------------------------------------------------
(***************************************************************************)
(* While no process is suspended, the promotion thread of a Run is out     *)
(* only while its task has the lease, or was cancelled and left the Run    *)
(* for review.                                                             *)
(***************************************************************************)
ThreadHasTask ==
  \A p \in Procs, r \in Runs :
    task[p][r].thread = "out" =>
      /\ task[p][r].pc \in {"promoting", "none"} /\ proc[p] = "up" /\ rows[r].tomb = NoDraft
      /\ \/ rows[r].status \in Occupying /\ rows[r].owner = p
         \/ rows[r].status = "needs_attention"

LEMMA ThreadHasTaskStep ==
  ASSUME Step, ThreadHasTask, "stall" \notin Mishaps
  PROVE  ThreadHasTask'
<1> SUFFICES ASSUME NEW p \in Procs, NEW r \in Runs, task'[p][r].thread = "out"
             PROVE  /\ task'[p][r].pc \in {"promoting", "none"} /\ proc'[p] = "up"
                    /\ rows'[r].tomb = NoDraft
                    /\ \/ rows'[r].status \in Occupying /\ rows'[r].owner = p
                       \/ rows'[r].status = "needs_attention"
  BY DEF ThreadHasTask
<1>1. RowMoves(r) /\ TaskMoves(p, r) /\ ProcMoves(p) /\ NoProc \notin Procs
  BY DraftCleanupAssumption DEF Step, StepMoves, RowsMove, TasksMove, ProcsMove
<1>2. CASE TaskPromotes(p, r)
  <2>1. rows[r].tomb = NoDraft
    BY <1>2 DEF Step, IInv, RowOK, Unclaimable, TaskPromotes, InPhase, Fenced
  <2>2. Idle(p) /\ Fenced(p, r) /\ UNCHANGED rows
    BY <1>2 DEF TaskPromotes, InPhase, At
  <2>3. proc'[p] = "up"
    BY <1>1, <1>2, <2>2 DEF ProcMoves, Idle, TaskPromotes, NoTask
  <2> QED
    BY <1>2, <2>1, <2>2, <2>3 DEF TaskPromotes, Fenced, Occupying
<1>3. CASE task[p][r].thread = "out" /\ task'[p][r].pc \in {task[p][r].pc, "none"}
  <2>1. /\ task[p][r].pc \in {"promoting", "none"} /\ proc[p] = "up" /\ rows[r].tomb = NoDraft
        /\ \/ rows[r].status \in Occupying /\ rows[r].owner = p
           \/ rows[r].status = "needs_attention"
    BY <1>3 DEF ThreadHasTask
  <2>2. proc'[p] = "up"
    BY <1>1, <2>1 DEF ProcMoves, NoTask
  <2>3. /\ rows'[r].tomb = NoDraft
        /\ \/ rows'[r].status \in Occupying /\ rows'[r].owner = p
           \/ rows'[r].status = "needs_attention"
    <3>1. CASE rows'[r] = rows[r] \/ RowAdmitted(r) \/ RowAnswered(r) \/ RowReviewed(r)
      BY <1>3, <2>1, <3>1 DEF RowAdmitted, RowAnswered, RowReviewed, Becomes, Occupying
    <3>2. ASSUME NEW q \in Procs, RowClaimed(q, r) \/ RowOpened(q, r) \/ RowCommitted(q, r)
          PROVE  FALSE
      BY <1>3, <2>1, <3>2 DEF RowClaimed, RowOpened, RowCommitted, Becomes, Fenced, Occupying
    <3>3. ASSUME NEW q \in Procs, RowCancelled(q, r) \/ RowWithdrawn(q, r) \/ RowCleaned(q, r)
          PROVE  rows'[r].tomb = NoDraft /\ rows'[r].status \in Occupying /\ rows'[r].owner = p
      BY <2>1, <3>3 DEF RowCancelled, RowWithdrawn, RowCleaned, Becomes, Occupying, SameDraft
    <3>4. ASSUME NEW q \in Procs, RowRecovered(q, r)
          PROVE  FALSE
      BY <2>1, <3>4 DEF RowRecovered, Occupying
    <3>5. ASSUME NEW q \in Procs, RowUnwound(q, r)
          PROVE  rows'[r].tomb = NoDraft /\ rows'[r].status = "needs_attention"
      BY <1>3, <2>1, <3>5 DEF RowUnwound, Becomes, Occupying
    <3> QED
      BY <1>1, <3>1, <3>2, <3>3, <3>4, <3>5 DEF RowMoves
  <2> QED
    BY <1>3, <2>1, <2>2, <2>3
<1>4. task[p][r].thread = "out" => task[p][r].pc \in {"promoting", "none"}
  BY DEF ThreadHasTask
<1> QED
  BY <1>1, <1>2, <1>3, <1>4 DEF TaskMoves, TaskHeld, TaskOver, TaskTaken, TaskOpened,
     TaskStages, TaskReturns, SameThread, InPhase, At

(* An App is not published for a Run that was reported cancelled, while no *)
(* process is suspended; the number of processes does not matter.  A       *)
(* suspended process breaks it: its Run is recovered and cancelled, and    *)
(* its thread still renames the draft into place.                          *)
THEOREM CancelledIsNotPublishedHolds ==
  ASSUME "stall" \notin Mishaps
  PROVE  Spec => CancelledIsNotPublished
<1>1. Init => ThreadHasTask
  BY DEF Init, ThreadHasTask, NoTask
<1>2. IInv /\ ThreadHasTask /\ [Next]_vars => ThreadHasTask'
  BY Stepping, ThreadHasTaskStep
<1>3. IInv /\ ThreadHasTask /\ [Next]_vars =>
        [\A r \in Runs : live' = r /\ live # r => rows[r].status # "cancelled"]_vars
  <2> SUFFICES ASSUME IInv, ThreadHasTask, [Next]_vars, NEW r \in Runs, live' = r, live # r
               PROVE  rows[r].status # "cancelled"
    OBVIOUS
  <2>1. PICK p \in Procs : task[p][r].thread = "out"
    BY Stepping DEF Step, StepMoves, LiveMoves
  <2> QED
    BY <2>1 DEF ThreadHasTask, Occupying
<1> QED
  BY <1>1, <1>2, <1>3, Invariance, PTL DEF Spec, CancelledIsNotPublished

-----------------------------------------------------------------------------
(***************************************************************************)
(* One process at a time: what it cleans up is not disturbed, so recovery  *)
(* finds no tombstone on a Run whose cancellation is requested.            *)
(***************************************************************************)
OneAlive == \A p, q \in Procs : Alive(p) /\ Alive(q) => p = q
OthersRest == \A p \in Procs : Alive(p) \/ job[p] = IdleJob
LeaseIsHeld == \A r \in Runs : rows[r].status \notin Occupying => rows[r].owner = NoProc
TombIsUnowned ==
  \A r \in Runs : rows[r].tomb # NoDraft =>
    rows[r].owner = NoProc /\ rows[r].status \in {"cancel_requested", "needs_attention"}
Pending(p, r) ==
  \/ \E item \in job[p].todo : item.run = r /\ item.dir = rows[r].tomb
  \/ job[p].hand.run = r /\ job[p].hand.dir = rows[r].tomb
TickSeesTombs ==
  \A p \in Procs, r \in Runs :
    job[p].goal = "tick" /\ rows[r].status = "cancel_requested" /\ rows[r].tomb # NoDraft
      => Pending(p, r)
Solo == OneAlive /\ OthersRest /\ LeaseIsHeld /\ TombIsUnowned /\ TickSeesTombs

(* A job is of a process that is alive, and then no other serves.          *)
LEMMA Busy ==
  ASSUME Solo, NEW p \in Procs, job[p].goal # "none" \/ job[p].hand # NoHand
  PROVE  /\ Alive(p)
         /\ job[p].goal # "none" => \A q \in Procs : ~Idle(q)
         /\ \A q \in Procs : Alive(q) => q = p
<1>1. job[p] # IdleJob
  BY DEF IdleJob
<1>2. Alive(p)
  BY <1>1 DEF Solo, OthersRest
<1>3. \A q \in Procs : Alive(q) => q = p
  BY <1>2 DEF Solo, OneAlive
<1> QED
  BY <1>2, <1>3 DEF Idle, Alive

LEMMA OneAliveStep ==
  ASSUME Step, Solo, MaxUp = 1
  PROVE  OneAlive' /\ OthersRest'
<1>1. ASSUME NEW p \in Procs
      PROVE  ProcMoves(p) /\ JobMoves(p)
  BY DEF Step, StepMoves, ProcsMove, JobsMove
<1>2. CASE \E p \in Procs :
             /\ Cardinality({q \in Procs : Alive(q)}) < MaxUp
             /\ proc[p] = "idle" /\ proc'[p] = "opening"
             /\ \A q \in Procs \ {p} : proc'[q] = proc[q]
  <2>1. PICK p \in Procs :
             /\ Cardinality({q \in Procs : Alive(q)}) < 1
             /\ proc'[p] = "opening"
             /\ \A q \in Procs \ {p} : proc'[q] = proc[q]
    BY <1>2
  <2> DEFINE S == {q \in Procs : Alive(q)}
  <2>2. IsFiniteSet(S) /\ Cardinality(S) \in Nat
    <3>1. CASE S = {}
      BY <3>1, FS_EmptySet
    <3>2. ASSUME NEW q \in Procs, Alive(q)
          PROVE  IsFiniteSet(S) /\ Cardinality(S) \in Nat
      <4>1. S = {q}
        BY <3>2 DEF Solo, OneAlive
      <4>2. IsFiniteSet({q}) /\ Cardinality({q}) = 1
        BY FS_Singleton
      <4> HIDE DEF S
      <4> QED
        BY <4>1, <4>2
    <3> QED
      BY <3>1, <3>2
  <2>3. S = {}
    BY <2>1, <2>2, FS_EmptySet
  <2>4. \A q \in Procs : Alive(q)' <=> q = p
    BY <2>1, <2>3 DEF Alive
  <2>5. ASSUME NEW q \in Procs, q # p
        PROVE  job'[q] = IdleJob
    <3>1. job[q] = IdleJob /\ ~Alive(q)
      BY <2>3 DEF Solo, OthersRest
    <3>2. ~Idle(q) /\ proc'[q] # "opening"
      BY <2>1, <2>5, <3>1 DEF Idle, Alive
    <3>3. IdleJob.goal = "none" /\ IdleJob.todo = {} /\ IdleJob.hand = NoHand
      BY DEF IdleJob
    <3> QED
      BY <1>1, <3>1, <3>2, <3>3 DEF JobMoves, WorkedOff
  <2> QED
    BY <2>4, <2>5 DEF OneAlive, OthersRest
<1>3. CASE ~\E p \in Procs :
             /\ Cardinality({q \in Procs : Alive(q)}) < MaxUp
             /\ proc[p] = "idle" /\ proc'[p] = "opening"
             /\ \A q \in Procs \ {p} : proc'[q] = proc[q]
  <2>1. ASSUME NEW p \in Procs
        PROVE  /\ (Alive(p))' => Alive(p)
               /\ Alive(p) => (Alive(p))' \/ job'[p] = IdleJob
    <3>1. job[p].goal = "open" => Alive(p)
      BY Busy
    <3> QED
      BY <1>1, <1>3, <3>1 DEF ProcMoves, Alive
  <2>2. OneAlive'
    BY <2>1 DEF Solo, OneAlive
  <2>3. ASSUME NEW p \in Procs, ~Alive(p)
        PROVE  job'[p] = IdleJob
    <3>1. job[p] = IdleJob
      BY <2>3 DEF Solo, OthersRest
    <3>2. ~Idle(p) /\ proc'[p] # "opening"
      BY <2>1, <2>3 DEF Idle, Alive
    <3>3. IdleJob.goal = "none" /\ IdleJob.todo = {} /\ IdleJob.hand = NoHand
      BY DEF IdleJob
    <3> QED
      BY <1>1, <3>1, <3>2, <3>3 DEF JobMoves, WorkedOff
  <2>4. OthersRest'
    BY <2>1, <2>3 DEF OthersRest
  <2> QED
    BY <2>2, <2>4
<1> QED
  BY <1>2, <1>3

(* Recovery meets no tombstone.                                            *)
LEMMA RecoveredIsPlain ==
  ASSUME Solo, NEW p \in Procs, NEW r \in Runs, RowRecovered(p, r)
  PROVE  rows[r].tomb = NoDraft
<1>1. job[p].goal = "tick" /\ job[p].todo = {} /\ job[p].hand = NoHand
  BY DEF RowRecovered, WorkedOff
<1>2. ~Pending(p, r)
  BY <1>1, DraftCleanupAssumption DEF Pending, NoHand
<1>3. rows[r].status = "cancel_requested" => rows[r].tomb = NoDraft
  BY <1>1, <1>2 DEF Solo, TickSeesTombs
<1> QED
  BY <1>3 DEF Solo, TombIsUnowned, RowRecovered, Occupying

LEMMA TombIsUnownedStep ==
  ASSUME Step, Solo
  PROVE  LeaseIsHeld' /\ TombIsUnowned'
<1>1. NoProc \notin Procs
  BY DraftCleanupAssumption
<1>2. ASSUME NEW r \in Runs
      PROVE  /\ rows'[r].status \notin Occupying => rows'[r].owner = NoProc
             /\ rows'[r].tomb # NoDraft =>
                  /\ rows'[r].owner = NoProc
                  /\ rows'[r].status \in {"cancel_requested", "needs_attention"}
  <2>1. /\ RowMoves(r)
        /\ rows[r].status \notin Occupying => rows[r].owner = NoProc
        /\ rows[r].tomb # NoDraft =>
             rows[r].owner = NoProc /\ rows[r].status \in {"cancel_requested", "needs_attention"}
    BY DEF Step, StepMoves, RowsMove, Solo, LeaseIsHeld, TombIsUnowned
  <2>2. CASE rows'[r] = rows[r] \/ RowAdmitted(r) \/ RowAnswered(r) \/ RowReviewed(r)
    BY <2>1, <2>2 DEF RowAdmitted, RowAnswered, RowReviewed, Becomes, SameDraft, Occupying
  <2>3. ASSUME NEW p \in Procs, RowClaimed(p, r) \/ RowOpened(p, r) \/ RowCommitted(p, r)
        PROVE  /\ rows'[r].status \notin Occupying => rows'[r].owner = NoProc
               /\ rows'[r].tomb = NoDraft
    BY <2>1, <2>3 DEF RowClaimed, RowOpened, RowCommitted, Becomes, SameDraft, Fenced, Occupying
  <2>4. ASSUME NEW p \in Procs, RowCancelled(p, r)
        PROVE  rows'[r].status \in Occupying /\ rows'[r].tomb = NoDraft
    BY <2>1, <2>4 DEF RowCancelled, Becomes, SameDraft, Occupying
  <2>5. ASSUME NEW p \in Procs, RowWithdrawn(p, r)
        PROVE  /\ rows'[r].owner = NoProc
               /\ rows'[r].tomb # NoDraft =>
                    rows'[r].status \in {"cancel_requested", "needs_attention"}
    BY <2>1, <2>5 DEF RowWithdrawn, Becomes, Occupying
  <2>6. ASSUME NEW p \in Procs, RowRecovered(p, r)
        PROVE  rows'[r].owner = NoProc /\ rows'[r].tomb = NoDraft
    BY <2>6, RecoveredIsPlain DEF RowRecovered, SameDraft
  <2>7. ASSUME NEW p \in Procs, RowCleaned(p, r) \/ RowUnwound(p, r)
        PROVE  /\ rows'[r].owner = NoProc
               /\ rows'[r].tomb # NoDraft => rows'[r].status = "needs_attention"
    BY <1>1, <2>1, <2>7 DEF RowCleaned, RowUnwound, Becomes
  <2> QED
    BY <2>1, <2>2, <2>3, <2>4, <2>5, <2>6, <2>7 DEF RowMoves
<1> QED
  BY <1>2 DEF LeaseIsHeld, TombIsUnowned

LEMMA TickSeesTombsStep ==
  ASSUME Step, Solo
  PROVE  TickSeesTombs'
<1> SUFFICES ASSUME NEW p \in Procs, NEW r \in Runs, job'[p].goal = "tick",
                    rows'[r].status = "cancel_requested", rows'[r].tomb # NoDraft
             PROVE  \/ \E item \in job'[p].todo : item.run = r /\ item.dir = rows'[r].tomb
                    \/ job'[p].hand.run = r /\ job'[p].hand.dir = rows'[r].tomb
  BY DEF TickSeesTombs, Pending
<1>1. RowMoves(r) /\ JobMoves(p) /\ IdleJob.goal = "none"
  BY DEF Step, StepMoves, RowsMove, JobsMove, IdleJob
<1>2. CASE /\ UNCHANGED rows
           /\ \E scope \in SUBSET Runs :
                job'[p].todo = Worklist(scope) /\ (job'[p].goal = "tick" => scope = Runs)
  <2>1. job'[p].todo = Worklist(Runs)
    BY <1>2
  <2>2. r \in Tombstoned
    BY <1>2 DEF Tombstoned, StatusIn
  <2> DEFINE item == [run |-> r, dir |-> rows[r].tomb]
  <2>3. item \in Worklist(Runs) /\ item.run = r /\ item.dir = rows[r].tomb
    BY <2>2 DEF Worklist
  <2> HIDE DEF item
  <2> QED
    BY <1>2, <2>1, <2>3
<1>3. CASE job[p].goal = "tick"
  <2>1. rows'[r] = rows[r]
    <3>1. \A q \in Procs : ~Idle(q)
      BY <1>3, Busy
    <3>2. \A q \in Procs : ~WorkedOff(q, "cancel")
      BY <1>3, Busy DEF WorkedOff
    <3> QED
      BY <1>1, <3>1, <3>2 DEF RowMoves, RowAdmitted, RowAnswered, RowReviewed, RowClaimed,
         RowOpened, RowCommitted, RowCancelled, RowWithdrawn, RowRecovered, RowCleaned,
         RowUnwound, Becomes, Serving
  <2>2. Pending(p, r)
    BY <1>3, <2>1 DEF Solo, TickSeesTombs
  <2>3. CASE job'[p] = job[p]
    BY <2>1, <2>2, <2>3 DEF Pending
  <2>4. CASE /\ job[p].hand = NoHand
             /\ \E item \in job[p].todo :
                  /\ job'[p].todo = job[p].todo \ {item}
                  /\ job'[p].hand.run = item.run /\ job'[p].hand.dir = item.dir
    BY <2>1, <2>2, <2>4, DraftCleanupAssumption DEF Pending, NoHand
  <2>5. CASE /\ job'[p].todo = job[p].todo
             /\ \A s \in Runs : job[p].hand.run = s /\ rows[s].tomb = job[p].hand.dir
                  => rows'[s].tomb = NoDraft \/ rows'[s].status = "needs_attention"
    BY <2>1, <2>2, <2>5 DEF Pending
  <2> QED
    BY <1>1, <1>2, <2>3, <2>4, <2>5 DEF JobMoves
<1> QED
  BY <1>1, <1>2, <1>3 DEF JobMoves

LEMMA SoloInit == Init => Solo
<1> SUFFICES ASSUME Init PROVE Solo
  OBVIOUS
<1>1. AbsentRow.tomb = NoDraft /\ AbsentRow.owner = NoProc
  BY DEF AbsentRow, NewRow
<1> QED
  BY <1>1 DEF Init, Solo, OneAlive, OthersRest, LeaseIsHeld, TombIsUnowned, TickSeesTombs, Alive

LEMMA SoloInvariance ==
  ASSUME MaxUp = 1
  PROVE  Spec => [](IInv /\ Solo)
<1>1. IInv /\ Solo /\ [Next]_vars => Solo'
  BY Stepping, OneAliveStep, TombIsUnownedStep, TickSeesTombsStep DEF Solo
<1> QED
  BY <1>1, SoloInit, Invariance, PTL DEF Spec

(* Nothing closes a Run over the tombstone of its draft, when a new        *)
(* process starts only after the old one has ended: whatever crashes,      *)
(* stalls or cannot be deleted.                                            *)
THEOREM TombstoneBlocksClosingHolds ==
  ASSUME MaxUp = 1
  PROVE  Spec => []TombstoneBlocksClosing
<1>1. IInv /\ Solo => TombstoneBlocksClosing
  BY DEF Solo, TombIsUnowned, TombstoneBlocksClosing
<1> QED
  BY <1>1, SoloInvariance, PTL

(* A terminal status is final, in the same circumstances: a cleanup that   *)
(* settles late is what could reopen a closed Run.                         *)
THEOREM TerminalIsFinalHolds ==
  ASSUME MaxUp = 1
  PROVE  Spec => TerminalIsFinal
<1>1. IInv /\ Solo /\ [Next]_vars =>
        [\A r \in Runs : rows[r].status \in Terminal => rows'[r].status = rows[r].status]_vars
  <2> SUFFICES ASSUME IInv, Solo, [Next]_vars, NEW r \in Runs, rows[r].status \in Terminal
               PROVE  rows'[r].status = rows[r].status
    OBVIOUS
  <2>1. RowMoves(r)
    BY Stepping DEF Step, StepMoves, RowsMove
  <2>2. rows[r].tomb = NoDraft
    BY DEF Solo, TombIsUnowned, Terminal
  <2> QED
    BY <2>1, <2>2 DEF RowMoves, RowAdmitted, RowAnswered, RowReviewed, RowClaimed, RowOpened,
       RowCommitted, RowCancelled, RowWithdrawn, RowRecovered, RowCleaned, RowUnwound, Becomes,
       Fenced, Occupying, Terminal
<1> QED
  BY <1>1, SoloInvariance, PTL DEF Spec, TerminalIsFinal

-----------------------------------------------------------------------------
(***************************************************************************)
(* A retry works in the directory of the Run it repeats.  Proved here, for *)
(* any number of processes none of which is suspended: as long as no       *)
(* failed Run is retried twice, nothing deletes a draft that a Run still   *)
(* needs, nor one that a thread is about to rename into place.             *)
(***************************************************************************)

(* A task that has not ended has the lease.                                *)
TaskIsLeased ==
  \A p \in Procs, r \in Runs :
    task[p][r].pc # "none" =>
      proc[p] = "up" /\ rows[r].status \in Occupying /\ rows[r].owner = p

(* A lease is of an occupying Run, and none of a Run with a tombstone; a   *)
(* cancelled task has not ended.                                           *)
TombHasNoOwner == \A r \in Runs : rows[r].tomb # NoDraft => rows[r].owner = NoProc
CancelHasTask == \A p \in Procs, r \in Runs : task[p][r].cancel => task[p][r].pc # "none"

(* A Run has one promotion thread, which works in the draft of its row.    *)
OneThread ==
  \A p, q \in Procs, r \in Runs : task[p][r].thread = "out" /\ task[q][r].thread = "out" => p = q
DirIsDraft ==
  \A p \in Procs, r \in Runs : task[p][r].thread = "out" => rows[r].draft = task[p][r].dir

(* What a process is to delete is the tombstone of its row, until another  *)
(* process has deleted it.                                                 *)
WorkIsCurrent ==
  \A p \in Procs : \A item \in job[p].todo :
    rows[item.run].tomb = item.dir \/ disk[item.dir] = "gone"

(* Runs are created in the order of their numbers, from nothing.           *)
InOrder == \A q, r \in Runs : Created(r) /\ q < r => Created(q)
UncreatedIsBlank ==
  \A r \in Runs : ~Created(r) =>
    rows[r].from = NoRun /\ rows[r].draft = NoDraft /\ rows[r].tomb = NoDraft

(* The Run at the head of the lane: at most one, and what queues is later. *)
AtHead(r) ==
  \/ rows[r].status \in {"running", "waiting_user"}
  \/ rows[r].status = "cancel_requested" /\ rows[r].owner # NoProc
  \/ \E p \in Procs : task[p][r].thread = "out"
OneHead ==
  \A q, r \in Runs : q # r /\ AtHead(q) /\ rows[r].status \in Active =>
    ~AtHead(r) /\ (rows[r].status = "queued" => q < r)
(* A Run that queues although its App is published is the next of its lane.*)
PublishedIsNext ==
  \A q, r \in Runs :
    q # r /\ live = r /\ rows[r].status = "queued" /\ rows[q].status \in Active =>
      ~AtHead(q) /\ (rows[q].status = "queued" => r < q)

Laned ==
  /\ LeaseIsHeld /\ TombHasNoOwner /\ TaskIsLeased /\ CancelHasTask /\ OneThread /\ DirIsDraft
  /\ WorkIsCurrent /\ InOrder /\ UncreatedIsBlank
  /\ OneHead /\ PublishedIsNext

(* A step under the assumptions of this module.                            *)
Orderly ==
  Step /\ Promoting /\ ThreadHasTask /\ Laned /\ "stall" \notin Mishaps

(* Everything a row's move may be, for one row.                            *)
LEMMA RowMoved ==
  ASSUME Orderly, NEW r \in Runs
  PROVE  /\ RowMoves(r) /\ rows[r] \in Row /\ rows'[r] \in Row
         /\ rows[r].tomb # NoDraft =>
              rows[r].owner = NoProc /\ rows[r].status \in Unclaimable
         /\ \A p \in Procs : TaskMoves(p, r) /\ ProcMoves(p) /\ JobMoves(p)
         /\ NoProc \notin Procs /\ NoDraft \notin Drafts /\ NoRun \notin Runs
  BY DraftCleanupAssumption DEF Orderly, Step, StepMoves, RowsMove, TasksMove, ProcsMove,
     JobsMove, RowsStep, IInv, TypeOK, RowOK, Laned, TombHasNoOwner

-----------------------------------------------------------------------------
LEMMA TaskIsLeasedStep ==
  ASSUME Orderly
  PROVE  TaskIsLeased'
<1> SUFFICES ASSUME NEW p \in Procs, NEW r \in Runs, task'[p][r].pc # "none"
             PROVE  proc'[p] = "up" /\ rows'[r].status \in Occupying /\ rows'[r].owner = p
  BY DEF TaskIsLeased
<1>1. RowMoves(r) /\ TaskMoves(p, r) /\ ProcMoves(p) /\ NoProc \notin Procs
  BY RowMoved
<1>2. proc[p] = "up" => proc'[p] = "up"
  BY <1>1 DEF ProcMoves, NoTask
<1>3. CASE task[p][r].pc # "none"
  <2>1. proc[p] = "up" /\ rows[r].status \in Occupying /\ rows[r].owner = p
    BY <1>3 DEF Orderly, Laned, TaskIsLeased
  <2>2. CASE rows'[r] = rows[r] \/ RowAdmitted(r) \/ RowAnswered(r) \/ RowReviewed(r)
    BY <1>2, <2>1, <2>2 DEF RowAdmitted, RowAnswered, RowReviewed, Becomes, Occupying
  <2>3. ASSUME NEW q \in Procs,
               RowClaimed(q, r) \/ RowCommitted(q, r) \/ RowWithdrawn(q, r) \/ RowUnwound(q, r)
        PROVE  FALSE
    BY <2>1, <2>3 DEF RowClaimed, RowCommitted, RowWithdrawn, RowUnwound, Becomes, Fenced,
       Occupying
  <2>4. ASSUME NEW q \in Procs, RowRecovered(q, r) \/ RowCleaned(q, r)
        PROVE  FALSE
    BY <1>1, <2>1, <2>4, RowMoved DEF RowRecovered, RowCleaned, Orderly
  <2>5. ASSUME NEW q \in Procs, RowOpened(q, r) \/ RowCancelled(q, r)
        PROVE  rows'[r].status \in Occupying /\ rows'[r].owner = p
    BY <2>1, <2>5 DEF RowOpened, RowCancelled, Becomes, Fenced, Occupying
  <2> QED
    BY <1>1, <1>2, <2>1, <2>2, <2>3, <2>4, <2>5 DEF RowMoves
<1>4. CASE task[p][r].pc = "none"
  <2>1. TaskTaken(p, r)
    BY <1>1, <1>4 DEF TaskMoves, TaskHeld, TaskOver, TaskOpened, TaskStages, TaskPromotes,
       TaskReturns, InPhase, At
  <2> QED
    BY <1>2, <2>1 DEF TaskTaken, Idle, Occupying
<1> QED
  BY <1>3, <1>4

(* Who has work to do is alive, and its tombstones are real.               *)
LEMMA WorkTyped ==
  ASSUME IInv, NEW p \in Procs
  PROVE  /\ \A item \in job[p].todo : item \in Item /\ item.run \in Runs /\ item.dir \in Drafts
         /\ job[p].hand # NoHand => job[p].hand.run \in Runs /\ job[p].hand.dir \in Drafts
  BY DEF IInv, JobOK, Job, HandOK, Item

LEMMA WorkIsCurrentStep ==
  ASSUME Orderly
  PROVE  WorkIsCurrent'
<1> SUFFICES ASSUME NEW p \in Procs, NEW item \in job'[p].todo
             PROVE  rows'[item.run].tomb = item.dir \/ disk'[item.dir] = "gone"
  BY DEF WorkIsCurrent
<1>1. JobMoves(p) /\ NoDraft \notin Drafts
  BY DraftCleanupAssumption DEF Orderly, Step, StepMoves, JobsMove
<1>2. CASE item \in job[p].todo
  <2>1. item.run \in Runs /\ item.dir \in Drafts
    BY <1>2, WorkTyped DEF Orderly, Step
  <2>2. rows[item.run].tomb = item.dir \/ disk[item.dir] = "gone"
    BY <1>2 DEF Orderly, Laned, WorkIsCurrent
  <2>3. TombKept(rows[item.run], rows'[item.run])
    BY <2>1 DEF Orderly, Step, RowsStep
  <2>4. disk[item.dir] # "unused"
    BY <1>1, <1>2, <2>1 DEF Orderly, Step, IInv, JobOK, Used
  <2>5. /\ disk'[item.dir] \in {"draft", "gone"}
        /\ disk[item.dir] = "gone" => disk'[item.dir] = "gone"
    BY <2>1, <2>4 DEF Orderly, Step, DiskStep, Grows, DirState
  <2> QED
    BY <1>1, <2>1, <2>2, <2>3, <2>5 DEF TombKept
<1>3. CASE UNCHANGED rows /\ \E scope \in SUBSET Runs : job'[p].todo = Worklist(scope)
  BY <1>3 DEF Worklist
<1>4. CASE job'[p].todo = {[run |-> job[p].run, dir |-> rows'[job[p].run].tomb]}
  BY <1>4
<1>5. IdleJob.todo = {}
  BY DEF IdleJob
<1> QED
  BY <1>1, <1>2, <1>3, <1>4, <1>5 DEF JobMoves

(* Leases and promotion threads.                                           *)
LEMMA LeaseStep ==
  ASSUME Orderly
  PROVE  LeaseIsHeld' /\ TombHasNoOwner'
<1> SUFFICES ASSUME NEW r \in Runs
             PROVE  /\ rows'[r].status \notin Occupying => rows'[r].owner = NoProc
                    /\ rows'[r].tomb # NoDraft => rows'[r].owner = NoProc
  BY DEF LeaseIsHeld, TombHasNoOwner
<1>1. /\ RowMoves(r)
      /\ rows[r].tomb # NoDraft => rows[r].owner = NoProc /\ rows[r].status \in Unclaimable
      /\ rows[r].status \notin Occupying => rows[r].owner = NoProc
  BY RowMoved DEF Orderly, Laned, LeaseIsHeld
<1>2. CASE rows'[r] = rows[r] \/ RowAdmitted(r) \/ RowAnswered(r) \/ RowReviewed(r)
  BY <1>1, <1>2 DEF RowAdmitted, RowAnswered, RowReviewed, Becomes, SameDraft, Occupying
<1>3. ASSUME NEW p \in Procs, RowClaimed(p, r) \/ RowOpened(p, r) \/ RowCommitted(p, r)
      PROVE  /\ rows'[r].status \notin Occupying => rows'[r].owner = NoProc
             /\ rows'[r].tomb = NoDraft
  BY <1>1, <1>3 DEF RowClaimed, RowOpened, RowCommitted, Becomes, SameDraft, Fenced, Occupying,
     Unclaimable
<1>4. ASSUME NEW p \in Procs, RowCancelled(p, r)
      PROVE  rows'[r].status \in Occupying /\ rows'[r].tomb = NoDraft
  BY <1>1, <1>4 DEF RowCancelled, Becomes, SameDraft, Occupying, Unclaimable
<1>5. ASSUME NEW p \in Procs, RowWithdrawn(p, r) \/ RowRecovered(p, r) \/ RowCleaned(p, r)
                              \/ RowUnwound(p, r)
      PROVE  rows'[r].owner = NoProc
  BY <1>1, <1>5 DEF RowWithdrawn, RowRecovered, RowCleaned, RowUnwound, Becomes, Occupying
<1> QED
  BY <1>1, <1>2, <1>3, <1>4, <1>5 DEF RowMoves

LEMMA ThreadStep ==
  ASSUME Orderly
  PROVE  CancelHasTask' /\ OneThread' /\ DirIsDraft'
<1>1. ASSUME NEW p \in Procs, NEW r \in Runs, task'[p][r].cancel
      PROVE  task'[p][r].pc # "none"
  <2>1. TaskMoves(p, r) /\ (task[p][r].cancel => task[p][r].pc # "none")
    BY RowMoved DEF Orderly, Laned, CancelHasTask
  <2> QED
    BY <1>1, <2>1 DEF TaskMoves, TaskHeld, TaskOver, TaskTaken, TaskOpened, TaskStages,
       TaskPromotes, TaskReturns
<1>2. ASSUME NEW p \in Procs, NEW r \in Runs, task'[p][r].thread = "out"
      PROVE  \/ task[p][r].thread = "out" /\ task'[p][r].dir = task[p][r].dir
             \/ TaskPromotes(p, r)
  <2>1. TaskMoves(p, r)
    BY RowMoved
  <2>2. task[p][r].thread = "out" => task[p][r].pc \in {"promoting", "none"}
    BY DEF Orderly, ThreadHasTask
  <2> QED
    BY <1>2, <2>1, <2>2 DEF TaskMoves, TaskHeld, TaskOver, TaskTaken, TaskOpened, TaskStages,
       TaskReturns, SameThread, InPhase, At
<1>3. ASSUME NEW p \in Procs, NEW q \in Procs, NEW r \in Runs, TaskPromotes(p, r),
             task[q][r].thread = "out"
      PROVE  p = q
  BY <1>3 DEF Orderly, ThreadHasTask, TaskPromotes, InPhase, Fenced
<1>4. ASSUME NEW p \in Procs, NEW q \in Procs, NEW r \in Runs, task'[p][r].thread = "out",
             task'[q][r].thread = "out"
      PROVE  p = q
  <2>1. TaskPromotes(p, r) /\ TaskPromotes(q, r) => p = q
    BY DEF TaskPromotes, InPhase, Fenced
  <2>2. task[p][r].thread = "out" /\ task[q][r].thread = "out" => p = q
    BY DEF Orderly, Laned, OneThread
  <2> QED
    BY <1>2, <1>3, <1>4, <2>1, <2>2
<1>5. ASSUME NEW p \in Procs, NEW r \in Runs, task'[p][r].thread = "out"
      PROVE  rows'[r].draft = task'[p][r].dir
  <2>1. CASE TaskPromotes(p, r)
    BY <2>1 DEF TaskPromotes
  <2>2. CASE task[p][r].thread = "out" /\ task'[p][r].dir = task[p][r].dir
    <3>1. /\ RowMoves(r) /\ rows[r].draft = task[p][r].dir
          /\ task[p][r].pc \in {"promoting", "none"} /\ rows[r].tomb = NoDraft
          /\ \/ rows[r].status \in Occupying /\ rows[r].owner = p
             \/ rows[r].status = "needs_attention"
      BY <2>2, RowMoved DEF Orderly, Laned, DirIsDraft, ThreadHasTask
    <3>2. CASE rows'[r] = rows[r] \/ RowAdmitted(r) \/ RowAnswered(r) \/ RowReviewed(r)
      BY <2>2, <3>1, <3>2 DEF RowAdmitted, RowAnswered, RowReviewed, Becomes, Occupying
    <3>3. ASSUME NEW q \in Procs, RowClaimed(q, r) \/ RowOpened(q, r) \/ RowCancelled(q, r)
                                  \/ RowRecovered(q, r) \/ RowCleaned(q, r)
          PROVE  rows'[r].draft = rows[r].draft
      BY <3>3 DEF RowClaimed, RowOpened, RowCancelled, RowRecovered, RowCleaned, SameDraft
    <3>4. ASSUME NEW q \in Procs, RowCommitted(q, r) \/ RowWithdrawn(q, r)
          PROVE  FALSE
      BY <2>2, <3>1, <3>4 DEF RowCommitted, RowWithdrawn, Becomes, Fenced, Occupying
    <3>5. ASSUME NEW q \in Procs, RowUnwound(q, r)
          PROVE  rows'[r].draft = rows[r].draft
      BY <2>2, <3>1, <3>5 DEF RowUnwound, Becomes, Occupying
    <3> QED
      BY <2>2, <3>1, <3>2, <3>3, <3>4, <3>5 DEF RowMoves
  <2> QED
    BY <1>2, <1>5, <2>1, <2>2
<1> QED
  BY <1>1, <1>4, <1>5 DEF CancelHasTask, OneThread, DirIsDraft

-----------------------------------------------------------------------------
(* What a row that a step leaves was before it.                            *)
LEMMA RowHistory ==
  ASSUME Orderly, NEW r \in Runs
  PROVE  /\ (AtHead(r))' => AtHead(r) \/ \E p \in Procs : RowClaimed(p, r)
         /\ rows'[r].status \in Active =>
              \/ rows[r].status \in Active \/ RowAdmitted(r)
              \/ rows[r].status = "cancelled" /\ rows'[r].status = "needs_attention"
         /\ rows'[r].status = "queued" =>
              rows[r].status = "queued" \/ AtHead(r) \/ RowAdmitted(r)
         /\ rows'[r].status = "absent" => rows'[r] = rows[r]
         /\ RowAdmitted(r) \/ rows'[r].from = rows[r].from
<1>1. /\ RowMoves(r) /\ \A p \in Procs : TaskMoves(p, r)
      /\ rows[r].status \notin Occupying => rows[r].owner = NoProc
      /\ rows[r].tomb # NoDraft => rows[r].status \in Unclaimable
  BY RowMoved DEF Orderly, Laned, LeaseIsHeld
<1>2. ASSUME NEW p \in Procs, task'[p][r].thread = "out"
      PROVE  AtHead(r)
  BY <1>1, <1>2 DEF TaskMoves, TaskHeld, TaskOver, TaskTaken, TaskOpened, TaskStages,
     TaskPromotes, TaskReturns, SameThread, AtHead, InPhase, Fenced
<1>3. ASSUME rows'[r].status \in {"running", "waiting_user"}
             \/ (rows'[r].status = "cancel_requested" /\ rows'[r].owner # NoProc)
      PROVE  AtHead(r) \/ \E p \in Procs : RowClaimed(p, r)
  BY <1>1, <1>3 DEF RowMoves, RowAdmitted, RowAnswered, RowReviewed, RowOpened, RowCommitted,
     RowCancelled, RowWithdrawn, RowRecovered, RowCleaned, RowUnwound, Becomes, Fenced, AtHead,
     Occupying
<1>4. rows'[r].status \in Active =>
        \/ rows[r].status \in Active \/ RowAdmitted(r)
        \/ rows[r].status = "cancelled" /\ rows'[r].status = "needs_attention"
  BY <1>1 DEF RowMoves, RowAnswered, RowReviewed, RowClaimed, RowOpened, RowCommitted,
     RowCancelled, RowWithdrawn, RowRecovered, RowCleaned, RowUnwound, Becomes, Fenced, Active,
     Occupying, Unclaimable
<1>5. rows'[r].status = "queued" =>
        rows[r].status = "queued" \/ AtHead(r) \/ RowAdmitted(r)
  BY <1>1 DEF RowMoves, RowAnswered, RowReviewed, RowClaimed, RowOpened, RowCommitted,
     RowCancelled, RowWithdrawn, RowRecovered, RowCleaned, RowUnwound, Becomes, Fenced, AtHead
<1>6. rows'[r].status = "absent" => rows'[r] = rows[r]
  BY <1>1 DEF RowMoves, RowAdmitted, RowAnswered, RowReviewed, RowClaimed, RowOpened,
     RowCommitted, RowCancelled, RowWithdrawn, RowRecovered, RowCleaned, RowUnwound, Becomes
<1>7. RowAdmitted(r) \/ rows'[r].from = rows[r].from
  BY <1>1 DEF RowMoves, RowAnswered, RowReviewed, RowClaimed, RowOpened, RowCommitted,
     RowCancelled, RowWithdrawn, RowRecovered, RowCleaned, RowUnwound, SameDraft
<1>8. (AtHead(r))' => AtHead(r) \/ \E p \in Procs : RowClaimed(p, r)
  BY <1>2, <1>3 DEF AtHead
<1> QED
  BY <1>4, <1>5, <1>6, <1>7, <1>8

LEMMA InOrderStep ==
  ASSUME Orderly
  PROVE  InOrder' /\ UncreatedIsBlank'
<1>1. ASSUME NEW r \in Runs, rows'[r].status = "absent"
      PROVE  /\ rows[r].status = "absent"
             /\ rows'[r].from = NoRun /\ rows'[r].draft = NoDraft /\ rows'[r].tomb = NoDraft
  <2>1. rows'[r] = rows[r]
    BY <1>1, RowHistory
  <2> QED
    BY <1>1, <2>1 DEF Orderly, Laned, UncreatedIsBlank, Created
<1>2. ASSUME NEW q \in Runs, NEW r \in Runs, rows'[r].status # "absent", q < r
      PROVE  rows[q].status # "absent"
  <2>1. CASE rows[r].status # "absent"
    BY <1>2, <2>1 DEF Orderly, Laned, InOrder, Created
  <2>2. CASE rows[r].status = "absent"
    <3>1. RowMoves(r)
      BY RowMoved
    <3>2. RowAdmitted(r)
      BY <1>2, <2>2, <3>1, RowMoved DEF RowMoves, RowAnswered, RowReviewed, RowClaimed,
         RowOpened, RowCommitted, RowCancelled, RowWithdrawn, RowRecovered, RowCleaned,
         RowUnwound, Becomes, Fenced, Occupying, Orderly, Laned, UncreatedIsBlank, Created
    <3> QED
      BY <1>2, <3>2 DEF RowAdmitted, Created
  <2> QED
    BY <2>1, <2>2
<1> QED
  BY <1>1, <1>2 DEF InOrder, UncreatedIsBlank, Created

(* The Run whose thread is out is created, and not queued.                 *)
LEMMA ThreadIsActive ==
  ASSUME Orderly, NEW r \in Runs, AtHead(r)
  PROVE  rows[r].status \in Active \ {"queued"}
  BY DEF Orderly, ThreadHasTask, AtHead, Active, Occupying

(* What waits behind a Run goes on waiting behind it.                      *)
Behind(q, r) == ~AtHead(r) /\ (rows[r].status = "queued" => q < r)
LEMMA StaysBehind ==
  ASSUME Orderly, NEW q \in Runs, NEW r \in Runs, q # r, rows'[r].status \in Active,
         AtHead(q) \/ rows[q].status = "queued",
         rows[r].status \in Active => Behind(q, r)
  PROVE  ~(AtHead(r))' /\ (rows'[r].status = "queued" => q < r)
<1>1. q \in Nat /\ r \in Nat
  BY DraftCleanupAssumption
<1>2. rows[q].status \in Active
  BY ThreadIsActive DEF Active
<1>3. CASE RowAdmitted(r)
  <2>1. ~AtHead(r)
    BY <1>3, ThreadIsActive DEF RowAdmitted, Becomes, Active, Occupying
  <2>2. ~(AtHead(r))'
    BY <1>3, <2>1, RowHistory DEF RowAdmitted, RowClaimed, Becomes
  <2>3. ~(r < q)
    BY <1>2, <1>3 DEF Orderly, Laned, InOrder, RowAdmitted, Becomes, Created, Active, Occupying
  <2> QED
    BY <1>1, <2>2, <2>3
<1>4. CASE rows[r].status \in Active
  <2>1. Behind(q, r)
    BY <1>4
  <2>2. ASSUME NEW p \in Procs, RowClaimed(p, r)
        PROVE  FALSE
    <3>1. rows[q].status \notin Active \ {"queued"} /\ (rows[q].status = "queued" => r < q)
      BY <2>2 DEF RowClaimed
    <3>2. q < r
      BY <2>1, <2>2 DEF Behind, RowClaimed, Becomes
    <3> QED
      BY <1>1, <3>1, <3>2, ThreadIsActive
  <2>3. ~RowAdmitted(r)
    BY <1>4 DEF RowAdmitted, Becomes, Active, Occupying
  <2> QED
    BY <2>1, <2>2, <2>3, RowHistory DEF Behind
<1>5. CASE rows[r].status = "cancelled" /\ rows'[r].status = "needs_attention"
  <2>1. ~AtHead(r)
    BY <1>5, ThreadIsActive DEF Active, Occupying
  <2> QED
    BY <1>5, <2>1, RowHistory DEF RowClaimed, Becomes
<1> QED
  BY <1>3, <1>4, <1>5, RowHistory

LEMMA OneHeadStep ==
  ASSUME Orderly
  PROVE  OneHead'
<1> SUFFICES ASSUME NEW q \in Runs, NEW r \in Runs, q # r, (AtHead(q))',
                    rows'[r].status \in Active
             PROVE  ~(AtHead(r))' /\ (rows'[r].status = "queued" => q < r)
  BY DEF OneHead
<1>1. CASE AtHead(q)
  <2>1. rows[r].status \in Active => Behind(q, r)
    BY <1>1 DEF Orderly, Laned, OneHead, Behind
  <2> QED
    BY <1>1, <2>1, StaysBehind
<1>2. ASSUME NEW p \in Procs, RowClaimed(p, q)
      PROVE  ~(AtHead(r))' /\ (rows'[r].status = "queued" => q < r)
  <2>1. rows[q].status = "queued"
    BY <1>2 DEF RowClaimed, Becomes
  <2>2. rows[r].status \in Active => rows[r].status = "queued" /\ q < r
    BY <1>2 DEF RowClaimed
  <2>3. rows[r].status \in Active => Behind(q, r)
    BY <2>2, ThreadIsActive DEF Behind
  <2> QED
    BY <2>1, <2>3, StaysBehind
<1> QED
  BY <1>1, <1>2, RowHistory

LEMMA PublishedIsNextStep ==
  ASSUME Orderly
  PROVE  PublishedIsNext'
<1> SUFFICES ASSUME NEW q \in Runs, NEW r \in Runs, q # r, live' = r,
                    rows'[r].status = "queued", rows'[q].status \in Active
             PROVE  ~(AtHead(q))' /\ (rows'[q].status = "queued" => r < q)
  BY DEF PublishedIsNext
<1>1. live = r
  <2>1. ASSUME NEW p \in Procs, task[p][r].thread = "out", UNCHANGED rows
        PROVE  FALSE
    BY <2>1, ThreadIsActive DEF AtHead
  <2> QED
    BY <2>1, RowMoved DEF Orderly, Step, StepMoves, LiveMoves
<1>2. ~RowAdmitted(r)
  BY <1>1 DEF RowAdmitted, Becomes, Orderly, Promoting, LiveAtPromotion, AbsentIsBlank,
     AtPromotion, Early
<1>3. rows[r].status = "queued" \/ AtHead(r)
  BY <1>2, RowHistory
<1>4. rows[q].status \in Active => Behind(r, q)
  BY <1>1, <1>3 DEF Orderly, Laned, PublishedIsNext, OneHead, Behind
<1> QED
  BY <1>3, <1>4, StaysBehind

-----------------------------------------------------------------------------
(***************************************************************************)
(* Who deletes a draft: a Run that holds it, or the reaper.                *)
(***************************************************************************)
Deletes(r, d) ==
  \E p \in Procs :
    \/ \E item \in job[p].todo : item.run = r /\ item.dir = d
    \/ InPhase(p, r, "override") /\ rows[r].draft = d
    \/ task[p][r].cancel /\ d \in Doomed(p, r)
    \/ task[p][r].thread = "out" /\ task[p][r].dir = d /\ live' = r /\ task'[p][r].thread # "out"
Reaped(d) == d \notin Referenced

LEMMA LandDeletes ==
  ASSUME IInv, NEW p \in Procs, NEW r \in Runs, Land(p, r), NEW d \in Drafts,
         disk[d] = "draft", disk'[d] # "draft"
  PROVE  Deletes(r, d)
<1> DEFINE t == task[p][r]
           done(result) == IF t.pc = "promoting" THEN [t EXCEPT !.thread = result] ELSE NoTask
<1>1. /\ t.thread = "out" /\ Remove({t.dir}) /\ live' = r
      /\ SetTask(p, r, done("landed"))
  BY DEF Land
<1>2. t.dir = d
  BY <1>1 DEF Remove
<1>3. done("landed").thread # "out"
  BY DEF IInv, TypeOK, TaskState, NoTask
<1> HIDE DEF done
<1>4. task'[p][r] = done("landed")
  BY <1>1 DEF SetTask, IInv, TypeOK
<1> QED
  BY <1>1, <1>2, <1>3, <1>4 DEF Deletes

LEMMA Deletion ==
  ASSUME IInv, [Next]_vars, NEW d \in Drafts, disk[d] = "draft", disk'[d] # "draft"
  PROVE  Reaped(d) \/ \E r \in Runs : Deletes(r, d)
<1>1. disk' # disk
  OBVIOUS
<1>2. ASSUME NEW S, Remove(S)
      PROVE  d \in S
  BY <1>2 DEF Remove
<1>3. ASSUME NEW p \in Procs, Open(p) \/ Tick(p)
      PROVE  FALSE
  BY <1>1, <1>3 DEF Open, Tick
<1>4. ASSUME NEW p \in Procs, Cleanup(p)
      PROVE  Reaped(d) \/ \E r \in Runs : Deletes(r, d)
  <2>1. CASE Discard(p)
    <3>1. PICK item \in job[p].todo : d = item.dir
      BY <1>1, <1>2, <2>1 DEF Discard
    <3>2. item.run \in Runs
      BY <3>1, WorkTyped
    <3> QED
      BY <3>1, <3>2 DEF Deletes
  <2>2. CASE Reap(p)
    <3>1. PICK old \in SUBSET {e \in Drafts \ Referenced : fault[e] = "none" /\ Exists(e)} :
            Remove(old)
      BY <2>2 DEF Reap
    <3>2. d \notin Referenced
      BY <1>2, <3>1
    <3> QED
      BY <3>2 DEF Reaped
  <2> QED
    BY <1>1, <1>4, <2>1, <2>2 DEF Cleanup, Settle, Recover, Mark, Resume
<1>5. ASSUME NEW p \in Procs, Crash(p)
      PROVE  \E r \in Runs : Deletes(r, d)
  <2>1. PICK r \in Runs :
          \/ InPhase(p, r, "override") /\ Remove({rows[r].draft})
          \/ task[p][r].cancel /\ Remove(Doomed(p, r))
    BY <1>1, <1>5 DEF Crash
  <2>2. \/ InPhase(p, r, "override") /\ d = rows[r].draft
        \/ task[p][r].cancel /\ d \in Doomed(p, r)
    BY <1>2, <2>1
  <2> QED
    BY <2>2 DEF Deletes
<1>6. ASSUME NEW p \in Procs, NEW r \in Runs, Workflow(p, r)
      PROVE  Deletes(r, d)
  <2>1. CASE Rework(p, r)
    <3>1. d = rows[r].draft
      BY <1>1, <1>2, <2>1 DEF Rework
    <3> QED
      BY <2>1, <3>1 DEF Rework, Deletes
  <2>2. CASE Unwind(p, r)
    <3>1. d \in Doomed(p, r) /\ task[p][r].cancel
      BY <1>2, <2>2 DEF Unwind
    <3> QED
      BY <3>1 DEF Deletes
  <2>3. ~Generate(p, r)
    BY DEF Generate, IInv, TypeOK
  <2>4. CASE Land(p, r)
    BY <2>4, LandDeletes
  <2>5. ~(Claim(p, r) \/ BeginStep(p, r) \/ CommitGraph(p, r) \/ Staged(p, r) \/ Verify(p, r))
    BY <1>1 DEF Claim, BeginStep, CommitGraph, Staged, Verify
  <2>6. ~(Promote(p, r) \/ Publish(p, r) \/ Fail(p, r) \/ LoseLease(p, r))
    BY <1>1 DEF Promote, Publish, Fail, LoseLease
  <2> QED
    BY <1>6, <2>1, <2>2, <2>3, <2>4, <2>5, <2>6 DEF Workflow
<1>7. ASSUME NEW p \in Procs, NEW r \in Runs, RequestCancel(p, r)
      PROVE  FALSE
  BY <1>1, <1>7 DEF RequestCancel
<1>8. ASSUME NEW r \in Runs, User(r)
      PROVE  FALSE
  BY <1>1, <1>8 DEF User, Submit, Answer, Reconcile, Retry
<1>9. ASSUME NEW e \in Drafts, Obstruct(e) \/ Repair(e)
      PROVE  FALSE
  BY <1>1, <1>9 DEF Obstruct, Repair
<1> QED
  BY <1>1, <1>3, <1>4, <1>5, <1>6, <1>7, <1>8, <1>9 DEF Next, vars

-----------------------------------------------------------------------------
(***************************************************************************)
(* Who holds a directory.  A failed Run lends its draft to its retry; as   *)
(* long as it has one retry only, no two Runs with a use for a directory   *)
(* hold the same.                                                          *)
(***************************************************************************)
Works(p, r) == task[p][r].pc = "staging" \/ task[p][r].thread = "out"
Holds(r, d) ==
  rows[r].draft = d \/ rows[r].tomb = d \/ \E p \in Procs : Works(p, r) /\ task[p][r].dir = d
Spent(r) == rows[r].status = "failed" /\ \E n \in Runs : rows[n].from = r
Sole ==
  RetriedTwice \/ \A q, r \in Runs, d \in Drafts :
                    q # r /\ Holds(q, d) /\ Holds(r, d) => Spent(q) \/ Spent(r)

(* A Run that took up a directory took it from its own row, from the Run   *)
(* it retries, or from no one.                                             *)
LEMMA HoldsStep ==
  ASSUME Orderly, NEW r \in Runs, NEW d \in Drafts, (Holds(r, d))', ~Holds(r, d)
  PROVE  \/ /\ RowAdmitted(r)
            /\ \E s \in Runs : rows[s].status = "failed" /\ rows'[r].from = s /\ Holds(s, d)
         \/ disk[d] = "unused" /\ rows[r].status = "running" /\ UNCHANGED rows
<1>1. /\ RowMoves(r) /\ \A p \in Procs : TaskMoves(p, r)
      /\ rows[r].draft # d /\ rows[r].tomb # d
      /\ \A p \in Procs : Works(p, r) => task[p][r].dir # d
      /\ NoDraft \notin Drafts
  BY RowMoved DEF Holds
<1>2. ASSUME NEW p \in Procs, (Works(p, r))', task'[p][r].dir = d
      PROVE  disk[d] = "unused" /\ rows[r].status = "running" /\ UNCHANGED rows
  <2>1. TaskStages(p, r)
    BY <1>1, <1>2 DEF TaskMoves, TaskHeld, TaskOver, TaskTaken, TaskOpened, TaskPromotes,
       TaskReturns, SameThread, Works, InPhase, At
  <2> QED
    BY <1>1, <1>2, <2>1 DEF TaskStages, InPhase, Fenced
<1>3. CASE rows'[r].draft = d \/ rows'[r].tomb = d
  <2>1. RowAdmitted(r)
    BY <1>1, <1>3 DEF RowMoves, RowAnswered, RowReviewed, RowClaimed, RowOpened, RowCommitted,
       RowCancelled, RowWithdrawn, RowRecovered, RowCleaned, RowUnwound, SameDraft, Works
  <2>2. PICK s \in Runs : rows[s].status = "failed" /\ rows'[r].from = s /\ rows[s].draft = d
    BY <1>1, <1>3, <2>1 DEF RowAdmitted
  <2> QED
    BY <2>1, <2>2 DEF Holds
<1>4. CASE \E p \in Procs : (Works(p, r))' /\ task'[p][r].dir = d
  BY <1>2, <1>4
<1> QED
  BY <1>3, <1>4 DEF Holds

(* A failed Run stays failed, and a retry stays one.                       *)
LEMMA SpentStays ==
  ASSUME Orderly
  PROVE  /\ RetriedTwice => RetriedTwice'
         /\ \A r \in Runs : Spent(r) => (Spent(r))'
<1>1. ASSUME NEW r \in Runs
      PROVE  /\ rows[r].from # NoRun => rows'[r].from = rows[r].from
             /\ rows[r].status = "failed" => rows'[r].status = "failed"
  <2>1. RowAdmitted(r) => rows[r].from = NoRun
    BY DEF RowAdmitted, Becomes, Orderly, Laned, UncreatedIsBlank, Created
  <2>2. rows[r].from # NoRun => rows'[r].from = rows[r].from
    BY <2>1, RowHistory
  <2>3. rows[r].status = "failed" => rows'[r].status = "failed"
    <3>1. RowMoves(r) /\ (rows[r].tomb # NoDraft => rows[r].status # "failed")
      BY RowMoved DEF Unclaimable
    <3> QED
      BY <3>1 DEF RowMoves, RowAdmitted, RowAnswered, RowReviewed, RowClaimed, RowOpened,
         RowCommitted, RowCancelled, RowWithdrawn, RowRecovered, RowCleaned, RowUnwound,
         Becomes, Fenced, Occupying
  <2> QED
    BY <2>2, <2>3
<1>2. NoRun \notin Runs
  BY DraftCleanupAssumption
<1> QED
  BY <1>1, <1>2 DEF RetriedTwice, Spent

LEMMA UnusedIsFree ==
  ASSUME IInv, NEW r \in Runs, NEW d \in Drafts, disk[d] = "unused"
  PROVE  ~Holds(r, d)
<1>1. d # NoDraft
  BY DraftCleanupAssumption
<1>2. rows[r].draft # d /\ rows[r].tomb # d
  BY <1>1 DEF IInv, RowOK, Used
<1>3. ASSUME NEW p \in Procs
      PROVE  task[p][r].dir # d
  BY <1>1 DEF IInv, TaskOK, Used
<1> QED
  BY <1>2, <1>3 DEF Holds

LEMMA TakenUp ==
  ASSUME Orderly, Sole, ~RetriedTwice', NEW q \in Runs, NEW r \in Runs, q # r,
         NEW d \in Drafts, (Holds(q, d))', (Holds(r, d))', ~Holds(r, d)
  PROVE  (Spent(q))'
<1>1. CASE /\ RowAdmitted(r)
           /\ \E s \in Runs : rows[s].status = "failed" /\ rows'[r].from = s /\ Holds(s, d)
  <2>1. PICK s \in Runs : rows[s].status = "failed" /\ rows'[r].from = s /\ Holds(s, d)
    BY <1>1
  <2>2. rows[r].status = "absent" /\ rows'[r].status = "queued" /\ rows[r].from = NoRun
    BY <1>1 DEF RowAdmitted, Becomes, Orderly, Laned, UncreatedIsBlank, Created
  <2>3. \A n \in Runs : n # r => rows'[n] = rows[n]
    BY <1>1 DEF RowAdmitted
  <2>4. Holds(q, d)
    <3>1. ~RowAdmitted(q)
      BY <2>2 DEF RowAdmitted
    <3> QED
      BY <2>2, <3>1, HoldsStep
  <2>5. CASE q = s
    BY <2>1, <2>2, <2>3, <2>5 DEF Spent
  <2>6. CASE q # s
    <3>1. Spent(q) \/ Spent(s)
      BY <2>1, <2>4, <2>6, SpentStays DEF Sole
    <3>2. ASSUME Spent(s)
          PROVE  FALSE
      <4>1. PICK n \in Runs : rows[n].from = s
        BY <3>2 DEF Spent
      <4>2. n # r /\ s # NoRun
        BY <2>2, <4>1, DraftCleanupAssumption
      <4>3. rows'[n].from = rows'[r].from /\ rows'[n].from # NoRun
        BY <2>1, <2>3, <4>1, <4>2
      <4> QED
        BY <4>2, <4>3 DEF RetriedTwice
    <3> QED
      BY <3>1, <3>2, SpentStays
  <2> QED
    BY <2>5, <2>6
<1>2. CASE disk[d] = "unused" /\ rows[r].status = "running" /\ UNCHANGED rows
  <2>1. ~Holds(q, d)
    BY <1>2, UnusedIsFree DEF Orderly, Step
  <2>2. ~RowAdmitted(q)
    BY <1>2 DEF RowAdmitted, Becomes
  <2>3. rows[q].status = "running"
    BY <2>1, <2>2, HoldsStep
  <2> QED
    BY <1>2, <2>3 DEF Orderly, Laned, OneHead, AtHead, Active, Occupying
<1> QED
  BY <1>1, <1>2, HoldsStep

LEMMA SoleStep ==
  ASSUME Orderly, Sole
  PROVE  Sole'
<1> SUFFICES ASSUME ~RetriedTwice', NEW q \in Runs, NEW r \in Runs, NEW d \in Drafts,
                    q # r, (Holds(q, d))', (Holds(r, d))'
             PROVE  (Spent(q))' \/ (Spent(r))'
  BY DEF Sole
<1>1. CASE Holds(q, d) /\ Holds(r, d)
  BY <1>1, SpentStays DEF Sole
<1>2. CASE ~Holds(r, d)
  BY <1>2, TakenUp
<1>3. CASE ~Holds(q, d)
  BY <1>3, TakenUp
<1> QED
  BY <1>1, <1>2, <1>3

-----------------------------------------------------------------------------
(***************************************************************************)
(* A Run that needs its draft, and the thread that promotes it.            *)
(***************************************************************************)
Needs(r) ==
  \/ /\ rows[r].status \in {"queued", "running", "waiting_user"}
     /\ rows[r].phase \in {"verify", "promote"}
  \/ rows[r].status = "waiting_user" /\ rows[r].phase = "override"
HasDraft == RetriedTwice \/ \A r \in Runs : Needs(r) => Exists(rows[r].draft) \/ live = r

(* Who deletes a directory holds it, and has not failed.                   *)
LEMMA DeleterHolds ==
  ASSUME Orderly, NEW r \in Runs, NEW d \in Drafts, disk[d] = "draft", Deletes(r, d)
  PROVE  Holds(r, d) /\ rows[r].status # "failed"
<1>1. PICK p \in Procs :
        \/ \E item \in job[p].todo : item.run = r /\ item.dir = d
        \/ InPhase(p, r, "override") /\ rows[r].draft = d
        \/ d \in Doomed(p, r)
        \/ task[p][r].thread = "out" /\ task[p][r].dir = d
  BY DEF Deletes
<1>2. d # NoDraft
  BY DraftCleanupAssumption
<1>3. CASE \E item \in job[p].todo : item.run = r /\ item.dir = d
  <2>1. rows[r].tomb = d
    BY <1>3 DEF Orderly, Laned, WorkIsCurrent
  <2> QED
    BY <1>2, <2>1, RowMoved DEF Holds, Unclaimable
<1>4. CASE InPhase(p, r, "override") /\ rows[r].draft = d
  BY <1>4 DEF InPhase, Fenced, Holds
<1>5. CASE d \in Doomed(p, r)
  <2>1. \/ rows[r].status = "cancel_requested" /\ rows[r].draft = d
        \/ task[p][r].pc = "staging" /\ task[p][r].dir = d
    BY <1>5 DEF Doomed, Acknowledges
  <2>2. task[p][r].pc = "staging" => rows[r].status \in Occupying
    BY DEF Orderly, Laned, TaskIsLeased
  <2> QED
    BY <2>1, <2>2 DEF Holds, Works, Occupying
<1>6. CASE task[p][r].thread = "out" /\ task[p][r].dir = d
  BY <1>6 DEF Holds, Works, Orderly, ThreadHasTask, Occupying
<1> QED
  BY <1>1, <1>3, <1>4, <1>5, <1>6

(* As long as no failed Run is retried twice, no other Run deletes the     *)
(* directory of one that has not failed.                                   *)
LEMMA NoOtherDeletes ==
  ASSUME Orderly, Sole, ~RetriedTwice, NEW q \in Runs, NEW r \in Runs, NEW d \in Drafts,
         Holds(q, d), rows[q].status # "failed", disk[d] = "draft", Deletes(r, d)
  PROVE  r = q
  BY DeleterHolds DEF Sole, Spent

(* A Run deletes the draft it needs only by publishing it.                 *)
LEMMA NeededStays ==
  ASSUME Orderly, NEW r \in Runs, NEW d \in Drafts, Needs(r), rows[r].draft = d,
         disk[d] = "draft", Deletes(r, d)
  PROVE  live' = r
<1>1. PICK p \in Procs :
        \/ \E item \in job[p].todo : item.run = r /\ item.dir = d
        \/ InPhase(p, r, "override")
        \/ d \in Doomed(p, r)
        \/ live' = r
  BY DEF Deletes
<1>2. d # NoDraft
  BY DraftCleanupAssumption
<1>3. ASSUME NEW item \in job[p].todo, item.run = r, item.dir = d
      PROVE  FALSE
  <2>1. rows[r].tomb = d
    BY <1>3 DEF Orderly, Laned, WorkIsCurrent
  <2> QED
    BY <1>2, <2>1, RowMoved DEF Unclaimable, Needs
<1>4. ~InPhase(p, r, "override") /\ d \notin Doomed(p, r)
  BY DEF InPhase, Fenced, Needs, Doomed, Acknowledges
<1> QED
  BY <1>1, <1>3, <1>4

(* A Run does not delete the directory its thread promotes.                *)
LEMMA PromotedStays ==
  ASSUME Orderly, NEW p \in Procs, NEW r \in Runs, task[p][r].thread = "out",
         task'[p][r].thread = "out", NEW d \in Drafts, disk[d] = "draft"
  PROVE  ~Deletes(r, d)
<1> SUFFICES ASSUME NEW q \in Procs,
                    \/ \E item \in job[q].todo : item.run = r /\ item.dir = d
                    \/ InPhase(q, r, "override")
                    \/ task[q][r].cancel /\ d \in Doomed(q, r)
                    \/ task[q][r].thread = "out" /\ task'[q][r].thread # "out"
             PROVE  FALSE
  BY DEF Deletes
<1>1. /\ task[p][r].pc \in {"promoting", "none"} /\ rows[r].tomb = NoDraft
      /\ \/ rows[r].status \in Occupying /\ rows[r].owner = p
         \/ rows[r].status = "needs_attention"
  BY DEF Orderly, ThreadHasTask
<1>2. ~\E item \in job[q].todo : item.run = r /\ item.dir = d
  BY <1>1, DraftCleanupAssumption DEF Orderly, Laned, WorkIsCurrent
<1>3. task[q][r].pc # "none" \/ task[q][r].thread = "out" => q = p
  BY <1>1 DEF Orderly, Laned, TaskIsLeased, OneThread, Occupying
<1>4. task[q][r].pc # "none" \/ task[q][r].thread = "out"
  BY <1>2 DEF InPhase, At, Orderly, Laned, CancelHasTask
<1> QED
  BY <1>1, <1>2, <1>3, <1>4 DEF InPhase, At, Doomed

(* A Run needs the draft it needed before, or one that is there.           *)
LEMMA NeedHistory ==
  ASSUME Orderly, NEW r \in Runs, (Needs(r))'
  PROVE  Kept(r, rows'[r].draft) \/ (Needs(r) /\ rows'[r].draft = rows[r].draft)
<1>1. RowMoves(r)
  BY RowMoved
<1>2. CASE rows'[r] = rows[r] \/ RowAdmitted(r) \/ RowAnswered(r) \/ RowReviewed(r)
  BY <1>2 DEF RowAdmitted, RowAnswered, RowReviewed, Becomes, SameDraft, Needs
<1>3. ASSUME NEW p \in Procs, RowCommitted(p, r)
      PROVE  Kept(r, rows'[r].draft) \/ (Needs(r) /\ rows'[r].draft = rows[r].draft)
  BY <1>3 DEF RowCommitted, Fenced, SameDraft, Needs
<1>4. ASSUME NEW p \in Procs, RowClaimed(p, r) \/ RowOpened(p, r) \/ RowCancelled(p, r)
                              \/ RowRecovered(p, r)
      PROVE  Needs(r) /\ rows'[r].draft = rows[r].draft
  BY <1>4 DEF RowClaimed, RowOpened, RowCancelled, RowRecovered, Becomes, SameDraft, Fenced,
     Occupying, Needs
<1>5. ASSUME NEW p \in Procs, RowWithdrawn(p, r) \/ RowCleaned(p, r) \/ RowUnwound(p, r)
      PROVE  FALSE
  BY <1>5 DEF RowWithdrawn, RowCleaned, RowUnwound, Becomes, Needs
<1> QED
  BY <1>1, <1>2, <1>3, <1>4, <1>5 DEF RowMoves

(* No other Run is published before one that is published has ended.       *)
LEMMA PublishedStays ==
  ASSUME Orderly, NEW r \in Runs, Needs(r), live = r
  PROVE  live' = r
<1> SUFFICES ASSUME NEW p \in Procs, NEW s \in Runs, task[p][s].thread = "out", s # r
             PROVE  FALSE
  BY DEF Orderly, Step, StepMoves, LiveMoves
<1>1. AtHead(s) /\ rows[s].status \in Active
  BY ThreadIsActive DEF AtHead
<1>2. rows[r].status \in Active /\ (rows[r].status # "queued" => AtHead(r))
  BY DEF Needs, AtHead, Active, Occupying
<1> QED
  BY <1>1, <1>2 DEF Orderly, Laned, OneHead, PublishedIsNext

LEMMA HasDraftStep ==
  ASSUME Orderly, Sole, HasDraft
  PROVE  HasDraft'
<1> SUFFICES ASSUME ~RetriedTwice', NEW r \in Runs, (Needs(r))', live' # r,
                    ~Kept(r, rows'[r].draft)
             PROVE  FALSE
  BY DEF HasDraft, Exists, Kept
<1>1. Needs(r) /\ rows'[r].draft = rows[r].draft /\ ~RetriedTwice
  BY NeedHistory, SpentStays
<1>2. live # r
  BY <1>1, PublishedStays
<1>3. PICK d \in Drafts : rows[r].draft = d /\ disk[d] = "draft" /\ disk'[d] # "draft"
  <2>1. Exists(rows[r].draft) /\ rows[r] \in Row
    BY <1>1, <1>2, RowMoved DEF HasDraft
  <2> QED
    BY <1>1, <2>1 DEF Exists, Row, Kept
<1>4. ~Reaped(d)
  BY <1>1, <1>3 DEF Reaped, Referenced, StatusIn, Needs, Active, Occupying
<1>5. PICK s \in Runs : Deletes(s, d)
  BY <1>3, <1>4, Deletion DEF Orderly, Step
<1>6. s = r
  BY <1>1, <1>3, <1>5, NoOtherDeletes DEF Holds, Needs
<1> QED
  BY <1>1, <1>3, <1>5, <1>6, NeededStays

Intact ==
  RetriedTwice \/ \A p \in Procs, r \in Runs : task[p][r].thread = "out" => Exists(task[p][r].dir)

LEMMA IntactStep ==
  ASSUME Orderly, Sole, Intact
  PROVE  Intact'
<1> SUFFICES ASSUME ~RetriedTwice', NEW p \in Procs, NEW r \in Runs, task'[p][r].thread = "out",
                    ~Kept(r, task'[p][r].dir)
             PROVE  FALSE
  BY DEF Intact, Exists, Kept
<1>1. TaskMoves(p, r) /\ ~RetriedTwice
  BY RowMoved, SpentStays
<1>2. ~TaskPromotes(p, r)
  BY DEF TaskPromotes, Exists, Kept
<1>3. task[p][r].thread = "out" /\ task'[p][r].dir = task[p][r].dir
  <2>1. task[p][r].thread = "out" => task[p][r].pc \in {"promoting", "none"}
    BY DEF Orderly, ThreadHasTask
  <2> QED
    BY <1>1, <1>2, <2>1 DEF TaskMoves, TaskHeld, TaskOver, TaskTaken, TaskOpened, TaskStages,
       TaskReturns, SameThread, InPhase, At
<1>4. PICK d \in Drafts : task[p][r].dir = d /\ disk[d] = "draft" /\ disk'[d] # "draft"
  <2>1. Exists(task[p][r].dir) /\ task[p][r] \in TaskState
    BY <1>1, <1>3 DEF Intact, Orderly, Step, IInv, TypeOK
  <2> QED
    BY <1>3, <2>1 DEF Exists, TaskState, Kept
<1>5. rows[r].status # "failed"
  BY <1>3 DEF Orderly, ThreadHasTask, Occupying
<1>6. ~Reaped(d)
  <2>1. rows[r].draft = d /\ rows[r].status \in Active
    BY <1>3, <1>4 DEF Orderly, Laned, DirIsDraft, ThreadHasTask, Active, Occupying
  <2> QED
    BY <2>1 DEF Reaped, Referenced, StatusIn
<1>7. PICK s \in Runs : Deletes(s, d)
  BY <1>4, <1>6, Deletion DEF Orderly, Step
<1>8. s = r
  BY <1>1, <1>3, <1>4, <1>5, <1>7, NoOtherDeletes DEF Holds, Works
<1> QED
  BY <1>3, <1>4, <1>7, <1>8, PromotedStays

-----------------------------------------------------------------------------
(* The inductive invariant of this module.                                 *)
Sharing == Promoting /\ ThreadHasTask /\ Laned /\ Sole /\ HasDraft /\ Intact

LEMMA SharingInit == Init => Sharing
<1> SUFFICES ASSUME Init PROVE Sharing
  OBVIOUS
<1>1. /\ AbsentRow.status = "absent" /\ AbsentRow.draft = NoDraft /\ AbsentRow.tomb = NoDraft
      /\ AbsentRow.from = NoRun /\ AbsentRow.owner = NoProc
  BY DEF AbsentRow, NewRow
<1>2. NoTask.pc = "none" /\ NoTask.thread = "none" /\ NoTask.cancel = FALSE /\ IdleJob.todo = {}
  BY DEF NoTask, IdleJob
<1>3. NoDraft \notin Drafts /\ NoRun \notin Runs
  BY DraftCleanupAssumption
<1>4. Promoting
  BY PromotingInit
<1>5. ThreadHasTask /\ TaskIsLeased /\ Intact
  BY <1>2 DEF Init, ThreadHasTask, TaskIsLeased, Intact
<1>6. /\ WorkIsCurrent /\ CancelHasTask /\ OneThread /\ DirIsDraft
      /\ LeaseIsHeld /\ TombHasNoOwner
  BY <1>1, <1>2 DEF Init, WorkIsCurrent, CancelHasTask, OneThread, DirIsDraft, LeaseIsHeld,
     TombHasNoOwner
<1>7. InOrder /\ UncreatedIsBlank /\ HasDraft
  BY <1>1 DEF Init, InOrder, UncreatedIsBlank, Created, HasDraft, Needs
<1>8. OneHead /\ PublishedIsNext
  BY <1>1 DEF Init, OneHead, PublishedIsNext, Active, Occupying
<1>9. Sole
  BY <1>1, <1>2, <1>3 DEF Init, Sole, Holds, Works
<1> QED
  BY <1>4, <1>5, <1>6, <1>7, <1>8, <1>9 DEF Sharing, Laned

LEMMA SharingInvariance ==
  ASSUME "stall" \notin Mishaps
  PROVE  Spec => []Sharing
<1>1. IInv /\ Sharing /\ [Next]_vars => Sharing'
  <2> SUFFICES ASSUME IInv, Sharing, [Next]_vars
               PROVE  Sharing'
    OBVIOUS
  <2>1. Step
    BY Stepping
  <2>2. Promoting' /\ ThreadHasTask'
    BY <2>1, PromotingStep, ThreadHasTaskStep DEF Sharing
  <2>3. Orderly
    BY <2>1 DEF Sharing, Orderly
  <2>4. Laned'
    BY <2>3, LeaseStep, TaskIsLeasedStep, ThreadStep, WorkIsCurrentStep, InOrderStep, OneHeadStep,
       PublishedIsNextStep DEF Laned
  <2>5. Sole' /\ HasDraft' /\ Intact'
    BY <2>3, SoleStep, HasDraftStep, IntactStep DEF Sharing
  <2> QED
    BY <2>2, <2>4, <2>5 DEF Sharing
<1> QED
  BY <1>1, SharingInit, Invariance, PTL DEF Spec

(* While no process is suspended and no failed Run is retried twice, a     *)
(* directory is never deleted under a thread that is to promote it:        *)
(* however many processes overlap or crash, whatever cannot be deleted.    *)
THEOREM PromotionUndisturbedHolds ==
  ASSUME "stall" \notin Mishaps
  PROVE  Spec => []PromotionUndisturbed
<1>1. Sharing => PromotionUndisturbed
  BY DEF Sharing, Intact, PromotionUndisturbed, Exists
<1> QED
  BY <1>1, SharingInvariance, PTL

(* In the same circumstances a Run that is to verify, promote or ask about *)
(* a draft has it, unless it is published.                                 *)
THEOREM RetryFindsDraftHolds ==
  ASSUME "stall" \notin Mishaps
  PROVE  Spec => []RetryFindsDraft
<1>1. Sharing => RetryFindsDraft
  BY DEF Sharing, HasDraft, RetryFindsDraft, NeedsDraft, Needs
<1> QED
  BY <1>1, SharingInvariance, PTL
=============================================================================
