---------------------------- MODULE AppDirectory ----------------------------
(***************************************************************************)
(* The directory of one generated App: the live directory, the drafts that *)
(* promotions swap in with two renames and a journal, the tombstones that  *)
(* deletions rename it to, and its lifecycle record in SQLite.             *)
(*                                                                         *)
(* Promotions run in threads (asyncio.to_thread) and take no lock.  The    *)
(* routes of a process run on its event loop, one at a time, and enclose   *)
(* directory and record changes in an immediate SQLite transaction, whose  *)
(* changes to files are undone by compensation hooks.  A crash keeps files *)
(* and committed records; startup restores what it can.                    *)
(*                                                                         *)
(* Granularity: a rename, the deletion of a tree, the write of a journal   *)
(* and a commit are one step each.                                         *)
(***************************************************************************)
EXTENDS Naturals, FiniteSets

CONSTANTS
  Promos,      \* promotions; each has its own draft, backup and journal names
  Dels,        \* deletions; each has its own tombstone name
  MaxThreads,  \* promotions of this App that may run at once
  MaxEdits,    \* bound: accepted edits of the live App
  Mishaps,     \* kinds of mishap: "crash", "io" (a rename or deletion that fails)
  MaxMishaps   \* bound: mishaps in a behaviour

VARIABLES
  live,     \* content of <apps>/<id>
  stage,    \* content of each promotion's draft directory
  backup,   \* content of each promotion's backup directory
  journal,  \* whether each promotion's journal exists
  thread,   \* where each promotion stands
  tomb,     \* content of each deletion's tombstone directory
  record,   \* the committed row of app_records exists
  proc,     \* the process: what its event loop is doing
  mishaps,
  wish      \* ghost: what completed commands asked for

vars == <<live, stage, backup, journal, thread, tomb, record, proc, mishaps, wish>>
files == <<live, stage, backup, journal, tomb>>

(* A directory's content: the promotion that wrote its code ("first": the  *)
(* App was there from the start; "husk": no code, data files only) and how *)
(* many accepted edits (App data files, properties) it holds.              *)
Absent == [code |-> "absent", edits |-> 0]
Exists(dir) == dir # Absent
Intact(dir) == dir.code \notin {"absent", "husk"}

Free == [doing |-> "free", hand |-> "none", todo |-> {}]
Down == [Free EXCEPT !.doing = "down"]

Init ==
  /\ live = [code |-> "first", edits |-> 0]
  /\ stage = [p \in Promos |-> Absent] /\ backup = [p \in Promos |-> Absent]
  /\ journal = [p \in Promos |-> FALSE]
  /\ thread = [p \in Promos |-> "none"]
  /\ tomb = [d \in Dels |-> Absent]
  /\ record = TRUE
  /\ proc = Free /\ mishaps = 0
  /\ wish = [deleted |-> FALSE, asked |-> FALSE, husk |-> FALSE, lost |-> FALSE, code |-> "first",
             edits |-> 0]

Up == proc.doing \notin {"down", "recovering", "clearing"}
Idle == proc.doing = "free"
Mishap(kind) == kind \in Mishaps /\ mishaps < MaxMishaps /\ mishaps' = mishaps + 1

-----------------------------------------------------------------------------
(* Promotion threads.                                                      *)

(* _prepare_staging_app copies the live App into a fresh draft, and the    *)
(* coding agent replaces its code.                                         *)
Stage(p) ==
  /\ Up /\ thread[p] = "none"
  /\ Cardinality({q \in Promos : thread[q] \notin {"none", "done", "failed"}}) < MaxThreads
  /\ stage' = [stage EXCEPT ![p] = [code |-> p, edits |-> live.edits]]
  /\ thread' = [thread EXCEPT ![p] = "drafted"]
  /\ UNCHANGED <<live, backup, journal, tomb, record, proc, mishaps, wish>>

(* live_dir.exists() decides between a rename and a swap with a journal.   *)
Decide(p) ==
  /\ Up /\ thread[p] = "drafted"
  /\ thread' = [thread EXCEPT ![p] = IF Exists(live) THEN "swap" ELSE "direct"]
  /\ journal' = [journal EXCEPT ![p] = Exists(live)]
  /\ UNCHANGED <<live, stage, backup, tomb, record, proc, mishaps, wish>>

Goes(p, where) == thread' = [thread EXCEPT ![p] = where]
Publishes(p) ==
  /\ live' = stage[p] /\ stage' = [stage EXCEPT ![p] = Absent]
  /\ wish' = [wish EXCEPT !.deleted = FALSE, !.lost = FALSE, !.code = p]
(* The rename that was to put the App back fails as well, which is only    *)
(* logged or suppressed.                                                   *)
Loses == wish' = [wish EXCEPT !.lost = TRUE]
(* The journal is unlinked, or that fails, too.                            *)
Unlinks(p) == journal' \in {journal, [journal EXCEPT ![p] = FALSE]}

(* staging_dir.replace(live_dir) when there was no App.                    *)
MoveDirect(p) ==
  /\ Up /\ thread[p] = "direct"
  /\ IF Exists(live) THEN Goes(p, "failed") /\ UNCHANGED <<live, stage, wish>>
     ELSE Publishes(p) /\ Goes(p, "done")
  /\ UNCHANGED <<backup, journal, tomb, record, proc, mishaps>>

(* live_dir.replace(backup_dir), outside the try block.                    *)
MoveOut(p) ==
  /\ Up /\ thread[p] = "swap"
  /\ backup' = [backup EXCEPT ![p] = live]
  /\ live' = Absent
  /\ Goes(p, IF Exists(live) THEN "moved" ELSE "failed")
  /\ UNCHANGED <<stage, journal, tomb, record, proc, mishaps, wish>>

(* staging_dir.replace(live_dir).  If another directory is there by now,   *)
(* neither this rename nor the one that would restore the backup succeeds, *)
(* and the journal is removed all the same.                                *)
MoveIn(p) ==
  /\ Up /\ thread[p] = "moved"
  /\ IF Exists(live)
     THEN Goes(p, "failed") /\ journal' = [journal EXCEPT ![p] = FALSE] /\ UNCHANGED <<live, stage, wish>>
     ELSE Publishes(p) /\ Goes(p, "swapped") /\ UNCHANGED journal
  /\ UNCHANGED <<backup, tomb, record, proc, mishaps>>

(* The rename fails for another reason.  What is then tried, to restore    *)
(* the backup and to remove the journal, may fail for the same reason:     *)
(* contextlib.suppress, so that the journal may go without the backup.     *)
(* Mutant: nothing is restored.                                            *)
MoveInFailsAs(p) ==
  /\ Up /\ thread[p] = "moved" /\ ~Exists(live) /\ Mishap("io")
  /\ journal' = [journal EXCEPT ![p] = FALSE]
  /\ Goes(p, "failed")
  /\ UNCHANGED <<live, stage, backup, tomb, record, proc, wish>>
MoveInFails(p) ==
  /\ Up /\ thread[p] = "moved" /\ ~Exists(live) /\ Mishap("io")
  /\ \/ live' = backup[p] /\ backup' = [backup EXCEPT ![p] = Absent] /\ UNCHANGED wish
     \/ Loses /\ UNCHANGED <<live, backup>>
  /\ Unlinks(p) /\ Goes(p, "failed")
  /\ UNCHANGED <<stage, tomb, record, proc>>

(* rmtree(backup_dir); journal.unlink(); an OSError leaves the rest to the *)
(* next startup.  The promotion has succeeded in either case.              *)
DropBackup(p) ==
  /\ Up /\ thread[p] = "swapped"
  /\ \/ backup' = [backup EXCEPT ![p] = Absent] /\ Goes(p, "cleaned") /\ UNCHANGED mishaps
     \/ Mishap("io") /\ Goes(p, "done") /\ UNCHANGED backup
  /\ UNCHANGED <<live, stage, journal, tomb, record, proc, wish>>
DropJournalAs(p) ==
  /\ Up /\ thread[p] = "cleaned" /\ Goes(p, "published")
  /\ UNCHANGED <<live, stage, backup, journal, tomb, record, proc, mishaps, wish>>
DropJournal(p) ==
  /\ Up /\ thread[p] = "cleaned"
  /\ \/ journal' = [journal EXCEPT ![p] = FALSE] /\ UNCHANGED mishaps
     \/ Mishap("io") /\ UNCHANGED journal
  /\ Goes(p, "done")
  /\ UNCHANGED <<live, stage, backup, tomb, record, proc, wish>>

-----------------------------------------------------------------------------
(* Transactions of AppManager.                                             *)

(* _reconcile_tombstones: a tombstone without a canonical App is restored  *)
(* if the record is there, and deleted after the commit if not.            *)
Restorable(d) == Exists(tomb[d]) /\ ~Exists(live) /\ record
Disposable == {d \in Dels : Exists(tomb[d]) /\ ~Exists(live) /\ ~record}
Swept == [d \in Dels |-> IF d \in Disposable THEN Absent ELSE tomb[d]]
Reconciled ==
  \/ \E d \in Dels : /\ Restorable(d)
                     /\ live' = tomb[d] /\ tomb' = [tomb EXCEPT ![d] = Absent]
  \/ ~(\E d \in Dels : Restorable(d)) /\ tomb' = Swept /\ UNCHANGED live

(* _read_manifest: a readable App without a record gets one.               *)
Adopted == record' = (record \/ Intact(live'))

(* Every read of AppManager (list_apps, get_manifest, get_app_files).      *)
ReadApps ==
  /\ Idle
  /\ Reconciled /\ Adopted
  /\ UNCHANGED <<stage, backup, journal, thread, proc, mishaps, wish>>

(* PATCH /api/apps/{id}: one transaction that rewrites the manifest.  With *)
(* an App in place its reconciliation has nothing to do.                   *)
UpdateProperties ==
  /\ Idle /\ wish.edits < MaxEdits /\ Intact(live)
  /\ live' = [live EXCEPT !.edits = wish.edits + 1]
  /\ wish' = [wish EXCEPT !.edits = @ + 1]
  /\ record' = TRUE
  /\ UNCHANGED <<stage, backup, journal, thread, tomb, proc, mishaps>>

(* POST /api/apps/{id}/files/write: the grant is checked against the       *)
(* manifest, then the file is written below a directory that is created if *)
(* it is missing.                                                          *)
AuthorizeWrite ==
  /\ Idle /\ wish.edits < MaxEdits
  /\ Reconciled /\ Adopted
  /\ Intact(live')
  /\ proc' = [proc EXCEPT !.doing = "writing"]
  /\ UNCHANGED <<stage, backup, journal, thread, mishaps, wish>>
WriteFile ==
  /\ proc.doing = "writing"
  /\ live' = [code |-> IF Exists(live) THEN live.code ELSE "husk", edits |-> wish.edits + 1]
  /\ wish' = [wish EXCEPT !.edits = @ + 1, !.husk = @ \/ ~Exists(live)]
  /\ proc' = Free
  /\ UNCHANGED <<stage, backup, journal, thread, tomb, record, mishaps>>

(* DELETE /api/apps/{id}: rename to a tombstone inside the transaction,    *)
(* delete the record, commit, delete the tree.                             *)
DeleteRename(d) ==
  /\ Idle /\ tomb[d] = Absent /\ Exists(live)
  /\ tomb' = [tomb EXCEPT ![d] = live] /\ live' = Absent
  /\ wish' = [wish EXCEPT !.asked = TRUE]
  /\ proc' = [Free EXCEPT !.doing = "deleting", !.hand = d]
  /\ UNCHANGED <<stage, backup, journal, thread, record, mishaps>>
DeleteCommit ==
  /\ proc.doing = "deleting"
  /\ record' = FALSE
  /\ wish' = [wish EXCEPT !.deleted = ~Exists(live)]
  /\ proc' = [proc EXCEPT !.doing = "disposing"]
  /\ UNCHANGED <<files, thread, mishaps>>
(* The transaction fails: the hook renames the tombstone back, unless an   *)
(* App has appeared in its place.                                          *)
DeleteFails ==
  /\ proc.doing = "deleting" /\ Mishap("io")
  /\ \/ Exists(live) /\ UNCHANGED <<live, tomb, wish>>
     \/ /\ ~Exists(live) /\ live' = tomb[proc.hand]
        /\ tomb' = [tomb EXCEPT ![proc.hand] = Absent] /\ UNCHANGED wish
     \/ ~Exists(live) /\ Loses /\ UNCHANGED <<live, tomb>>
  /\ proc' = Free
  /\ UNCHANGED <<stage, backup, journal, thread, record>>
DeleteDispose ==
  /\ proc.doing = "disposing"
  /\ \/ tomb' = [tomb EXCEPT ![proc.hand] = Absent] /\ UNCHANGED mishaps
     \/ Mishap("io") /\ UNCHANGED tomb
  /\ proc' = Free
  /\ UNCHANGED <<live, stage, backup, journal, thread, record, wish>>

-----------------------------------------------------------------------------
(* Crash and startup.                                                      *)

Crash ==
  /\ proc.doing # "down" /\ Mishap("crash")
  /\ proc' = Down
  /\ thread' = [p \in Promos |-> IF thread[p] \in {"none", "done"} THEN thread[p] ELSE "failed"]
  /\ wish' = [wish EXCEPT !.deleted = @ \/ (proc.doing = "deleting" /\ ~record)]
  /\ UNCHANGED <<files, record>>

(* lifespan: app_store.get_state() reads the Apps before the promotions    *)
(* are recovered.                                                          *)
Restart ==
  /\ proc.doing = "down"
  /\ Reconciled /\ Adopted
  /\ proc' = [Free EXCEPT !.doing = "recovering", !.todo = {p \in Promos : journal[p]}]
  /\ UNCHANGED <<stage, backup, journal, thread, mishaps, wish>>

(* recover_interrupted_coding_agent_promotions, one journal at a time.     *)
RecoverAs(p) ==
  /\ proc.doing = "recovering" /\ p \in proc.todo
  /\ IF Exists(backup[p]) THEN live' = backup[p] /\ backup' = [backup EXCEPT ![p] = Absent]
     ELSE UNCHANGED <<live, backup>>
  /\ proc' = [proc EXCEPT !.doing = "clearing", !.hand = p]
  /\ UNCHANGED <<stage, journal, thread, tomb, record, mishaps, wish>>
Recover(p) ==
  /\ proc.doing = "recovering" /\ p \in proc.todo
  /\ \/ (* between the renames: the previous App comes back *)
        /\ ~Exists(live) /\ Exists(backup[p])
        /\ live' = backup[p] /\ backup' = [backup EXCEPT ![p] = Absent]
        /\ proc' = [proc EXCEPT !.doing = "clearing", !.hand = p]
     \/ (* after the second rename: the rest of the cleanup *)
        /\ Exists(live) /\ Exists(backup[p]) /\ ~Exists(stage[p])
        /\ backup' = [backup EXCEPT ![p] = Absent]
        /\ proc' = [proc EXCEPT !.doing = "clearing", !.hand = p]
        /\ UNCHANGED live
     \/ (* before the first rename *)
        /\ Exists(live) /\ ~Exists(backup[p]) /\ Exists(stage[p])
        /\ proc' = [proc EXCEPT !.doing = "clearing", !.hand = p]
        /\ UNCHANGED <<live, backup>>
     \/ (* anything else is left for manual attention *)
        /\ IF Exists(backup[p]) THEN Exists(live) /\ Exists(stage[p]) ELSE ~Exists(live) \/ ~Exists(stage[p])
        /\ proc' = [proc EXCEPT !.todo = @ \ {p}]
        /\ UNCHANGED <<live, backup>>
  /\ UNCHANGED <<stage, journal, thread, tomb, record, mishaps, wish>>
ClearJournal ==
  /\ proc.doing = "clearing"
  /\ journal' = [journal EXCEPT ![proc.hand] = FALSE]
  /\ proc' = [proc EXCEPT !.doing = "recovering", !.todo = @ \ {proc.hand}]
  /\ UNCHANGED <<live, stage, backup, thread, tomb, record, mishaps, wish>>
Opened ==
  /\ proc.doing = "recovering" /\ proc.todo = {}
  /\ proc' = Free
  /\ UNCHANGED <<files, thread, record, mishaps, wish>>

Next ==
  \/ \E p \in Promos : Stage(p) \/ Decide(p) \/ MoveDirect(p) \/ MoveOut(p) \/ MoveIn(p)
                         \/ MoveInFails(p) \/ DropBackup(p) \/ DropJournal(p) \/ Recover(p)
  \/ ReadApps \/ UpdateProperties \/ AuthorizeWrite \/ WriteFile
  \/ \E d \in Dels : DeleteRename(d)
  \/ DeleteCommit \/ DeleteFails \/ DeleteDispose
  \/ Crash \/ Restart \/ ClearJournal \/ Opened

Spec == Init /\ [][Next]_vars

-----------------------------------------------------------------------------
(* What is true of the directory and its record.                           *)

Contents == [code : Promos \cup {"first", "husk", "absent"}, edits : 0 .. MaxEdits]
TypeOK ==
  /\ live \in Contents /\ stage \in [Promos -> Contents] /\ backup \in [Promos -> Contents]
  /\ journal \in [Promos -> BOOLEAN] /\ tomb \in [Dels -> Contents] /\ record \in BOOLEAN
  /\ thread \in [Promos -> {"none", "drafted", "direct", "swap", "moved", "swapped", "cleaned",
                            "done", "failed"}]
  /\ proc.doing \in {"free", "down", "writing", "deleting", "disposing", "recovering", "clearing"}
  /\ proc.hand \in Promos \cup Dels \cup {"none"} /\ proc.todo \subseteq Promos
  /\ wish.code \in Promos \cup {"first"} /\ wish.edits \in 0 .. MaxEdits
  /\ mishaps \in 0 .. MaxMishaps

(* No command, no startup and no promotion is between two of its steps.    *)
Settled == Idle /\ \A p \in Promos : thread[p] \in {"none", "drafted", "done", "failed"}

(* A failed promotion, a crash at any point and the recovery after it      *)
(* leave a readable App where there was one: only a deletion takes it away *)
(* (or a data file written in the middle of a swap, whose new directory    *)
(* keeps both the draft and the backup out), unless the rename that was to *)
(* put it back failed, too, and nothing has been published since.          *)
AppSurvives == Settled /\ ~wish.deleted /\ ~wish.husk /\ ~wish.lost => Intact(live)

(* The same of promotions alone, whether or not that rename fails:         *)
(* "Promote a validated sibling directory, restoring the old App if the    *)
(* swap fails" (coding_agent_acp.py:959).  Violated: a backup that cannot  *)
(* be renamed back stays where it is, its journal is unlinked all the      *)
(* same, and no startup finds it again.                                    *)
SwapRestores == Settled /\ ~wish.asked /\ ~wish.husk => Intact(live)

(* The App in place is the one whose promotion took effect last, whatever  *)
(* failed or crashed since: "No failure or cleanup path may delete or      *)
(* overwrite the last published App" (docs/en/architecture/runs.md:39).    *)
(* It holds while the promotions of an App follow each other and at most   *)
(* one thing goes wrong (MaxMishaps = 1).  Two things are enough to break  *)
(* it without any overlap: a backup that could not be deleted leaves its   *)
(* journal behind, and when the next promotion crashes between its renames *)
(* startup may take that older journal first and restore the older backup. *)
LastPublished == Settled /\ ~wish.asked /\ ~wish.husk /\ ~wish.lost => live.code = wish.code

(* Record and directory agree: no lifecycle record outlives its App, so no *)
(* tombstone left on disk can be taken for an interrupted deletion; with   *)
(* the same exception.                                                     *)
RecordMatches == Settled /\ ~Exists(live) /\ ~wish.lost => ~record

(* What is on disk of an App, of its promotions and of its deletion agrees *)
(* once they are settled (coding_agent_acp.py promote, app_manager.py      *)
(* delete_app).                                                            *)
DirectoryIsWhole == AppSurvives /\ RecordMatches
=============================================================================
