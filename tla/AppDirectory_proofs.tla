------------------------- MODULE AppDirectory_proofs -------------------------
(***************************************************************************)
(* What is on disk of an App stays whole (AppDirectory): DirectoryIsWhole  *)
(* for any number of promotions, threads, deletions and mishaps, and       *)
(* LastPublished where promotions follow each other and at most one thing  *)
(* goes wrong; both unless the rename that was to put an App back failed,  *)
(* too (wish.lost), which SwapRestores shows to lose it.                   *)
(*                                                                         *)
(* The inductive invariant IInv says which files a step that is under way  *)
(* has (HasFiles), that a directory is a husk only after a write that made *)
(* one (NoHusk), and from where an App that is not in place will come back *)
(* (Sourced).  OInv adds, for one promotion at a time, whose code is where *)
(* (QuietInv).                                                             *)
(***************************************************************************)
EXTENDS AppDirectory, FiniteSetTheorems, TLAPS

(* No promotion has the name of a directory without code.                  *)
Names == Promos \cap {"absent", "husk"} = {}
Bounds == MaxEdits \in Nat /\ MaxMishaps \in Nat

(* Promotions of the App follow each other, and one thing may go wrong.    *)
OneByOne == MaxThreads \in 0 .. 1 /\ MaxMishaps \in 0 .. 1

Places == {"none", "drafted", "direct", "swap", "moved", "swapped", "cleaned", "done", "failed"}
Doings == {"free", "down", "writing", "deleting", "disposing", "recovering", "clearing"}
Procs == [doing : Doings, hand : Promos \cup Dels \cup {"none"}, todo : SUBSET Promos]
Wishes == [deleted : BOOLEAN, asked : BOOLEAN, husk : BOOLEAN, lost : BOOLEAN, code : Promos \cup {"first"},
           edits : 0 .. MaxEdits]

Typed ==
  /\ live \in Contents /\ stage \in [Promos -> Contents] /\ backup \in [Promos -> Contents]
  /\ journal \in [Promos -> BOOLEAN] /\ tomb \in [Dels -> Contents] /\ record \in BOOLEAN
  /\ thread \in [Promos -> Places] /\ proc \in Procs /\ wish \in Wishes
  /\ mishaps \in 0 .. MaxMishaps
  /\ proc.doing = "writing" => wish.edits < MaxEdits

(* A promotion has its draft until it is published, its journal before the *)
(* first rename and the backup after it; a deletion has its tombstone      *)
(* until the commit.  No promotion outlives the process.                   *)
HasFiles ==
  /\ \A p \in Promos :
       /\ thread[p] \in {"drafted", "direct", "swap", "moved"} => stage[p].code = p
       /\ thread[p] \in {"swap", "moved"} => journal[p]
       /\ thread[p] = "moved" => Exists(backup[p])
       /\ thread[p] \in {"none", "done", "failed"} \/ Up
  /\ proc.doing \in {"deleting", "disposing"} => proc.hand \in Dels
  /\ proc.doing = "deleting" => Exists(tomb[proc.hand])
  /\ proc.doing = "clearing" => Exists(live) /\ proc.hand \in Promos
  /\ proc.doing \in {"recovering", "clearing"} => \A p \in proc.todo : journal[p]

Whole(dir) == (dir.code = "absent" => dir = Absent) /\ (dir.code = "husk" => wish.husk)
NoHusk ==
  /\ Whole(live) /\ \A p \in Promos : Whole(stage[p]) /\ Whole(backup[p])
  /\ \A d \in Dels : Whole(tomb[d])

(* An App that is to be there, and is not, is out only for the rest of a   *)
(* swap or of a deletion; after a crash, a backup with a journal or, for   *)
(* an App with a record, a tombstone is left of it.                        *)
Missing == ~Exists(live) /\ ~wish.lost /\ (record \/ ~wish.deleted)
Sourced ==
  /\ proc.doing \in {"free", "writing", "disposing"} /\ Missing => \E p \in Promos : thread[p] = "moved"
  /\ proc.doing = "down" /\ Missing =>
       (\E p \in Promos : journal[p] /\ Exists(backup[p])) \/ (record /\ \E d \in Dels : Exists(tomb[d]))
  /\ proc.doing = "recovering" /\ Missing => \E p \in proc.todo : Exists(backup[p])

IInv == Typed /\ HasFiles /\ NoHusk /\ Sourced

(* One promotion at a time, no deletion so far, no husk so far.            *)
Active == {p \in Promos : thread[p] \notin {"none", "done", "failed"}}
OneThread == \A p, q \in Active : p = q
Quiet == ~wish.asked /\ ~wish.husk
Swapping(p) == thread[p] \in {"swap", "moved", "swapped", "cleaned"}

QuietInv ==
  /\ record /\ (\A d \in Dels : tomb[d] = Absent) /\ proc.doing \notin {"deleting", "disposing"}
  /\ wish.lost => mishaps # 0 /\ Up
  /\ \/ live.code = wish.code \/ wish.lost
     \/ /\ live = Absent
        /\ \E p \in Promos :
             /\ Exists(backup[p]) /\ backup[p].code = wish.code
             /\ Up => thread[p] = "moved"
             /\ ~Up => journal[p]
             /\ proc.doing = "recovering" => p \in proc.todo
  /\ mishaps = 0 => \A p \in Promos : journal[p] => Swapping(p)
  /\ ~Up => \A p, q \in Promos : journal[p] /\ journal[q] => p = q
OInv == OneThread /\ (Quiet => QuietInv)

-----------------------------------------------------------------------------
(* What a command asked for, field by field.                               *)
LEMMA WishIs ==
  ASSUME wish \in Wishes
  PROVE  /\ wish.deleted \in BOOLEAN /\ wish.asked \in BOOLEAN /\ wish.husk \in BOOLEAN
         /\ wish.lost \in BOOLEAN
         /\ wish.code \in Promos \cup {"first"} /\ wish.edits \in 0 .. MaxEdits
BY DEF Wishes

LEMMA PublishesIs ==
  ASSUME Typed, NEW p \in Promos, Publishes(p)
  PROVE  /\ wish' \in Wishes /\ wish'.deleted = FALSE /\ wish'.asked = wish.asked
         /\ wish'.husk = wish.husk /\ wish'.lost = FALSE /\ wish'.code = p
         /\ wish'.edits = wish.edits
         /\ live' = stage[p] /\ stage' = [stage EXCEPT ![p] = Absent]
<1>1. /\ wish \in Wishes
      /\ wish' = [[[wish EXCEPT !.deleted = FALSE] EXCEPT !.lost = FALSE] EXCEPT !.code = p]
  BY DEF Typed, Publishes, Wishes
<1> DEFINE w == [[wish EXCEPT !.deleted = FALSE] EXCEPT !.lost = FALSE]
<1>2. w \in Wishes /\ w.deleted = FALSE /\ w.asked = wish.asked /\ w.husk = wish.husk
      /\ w.lost = FALSE /\ w.code = wish.code /\ w.edits = wish.edits
  BY <1>1 DEF Wishes
<1>3. wish' = [w EXCEPT !.code = p] BY <1>1
<1> HIDE DEF w
<1>4. wish' \in Wishes /\ wish'.deleted = FALSE /\ wish'.asked = wish.asked
      /\ wish'.husk = wish.husk /\ wish'.lost = FALSE /\ wish'.code = p
      /\ wish'.edits = wish.edits
  BY <1>2, <1>3 DEF Wishes
<1> QED BY <1>4 DEF Publishes

LEMMA LosesIs ==
  ASSUME wish \in Wishes, Loses
  PROVE  /\ wish' \in Wishes /\ wish'.lost = TRUE /\ wish'.deleted = wish.deleted
         /\ wish'.asked = wish.asked /\ wish'.husk = wish.husk /\ wish'.code = wish.code
         /\ wish'.edits = wish.edits
BY DEF Loses, Wishes

LEMMA AbsentIs == ASSUME Bounds PROVE Absent \in Contents /\ Absent.code = "absent" /\ Absent.edits = 0
BY DEF Absent, Contents, Bounds

LEMMA Init_IInv == ASSUME Names, Bounds, Init PROVE IInv
<1>1. Typed BY AbsentIs DEF Init, Typed, Contents, Free, Procs, Wishes, Places, Doings, Bounds
<1>2. HasFiles BY DEF Init, HasFiles, Free, Up
<1>3. NoHusk BY DEF Init, NoHusk, Whole, Absent
<1>4. Sourced BY DEF Init, Sourced, Missing, Exists, Absent, Free
<1> QED BY <1>1, <1>2, <1>3, <1>4 DEF IInv

-----------------------------------------------------------------------------
(* The steps of a promotion, which all need the process to be up.          *)
LEMMA StageKeeps == ASSUME Names, Bounds, IInv, NEW p \in Promos, Stage(p) PROVE IInv'
<1> USE DEF IInv, Stage
<1>0. live.edits \in 0 .. MaxEdits BY DEF Typed, Contents
<1> DEFINE draft == [code |-> p, edits |-> live.edits]
<1>1. draft \in Contents /\ draft.code = p BY <1>0 DEF Contents
<1>2. stage' = [stage EXCEPT ![p] = draft] OBVIOUS
<1> HIDE DEF draft
<1>3. Typed' BY <1>1, <1>2 DEF Typed, Places
<1>4. HasFiles' BY <1>1, <1>2 DEF HasFiles, Up, Typed
<1>5. NoHusk' BY <1>1, <1>2 DEF NoHusk, Whole, Typed, Names
<1>6. Sourced' BY DEF Sourced, Missing, Typed
<1> QED BY <1>3, <1>4, <1>5, <1>6

LEMMA DecideKeeps == ASSUME Names, Bounds, IInv, NEW p \in Promos, Decide(p) PROVE IInv'
<1> USE DEF IInv, Decide
<1>3. Typed' BY DEF Typed, Places, Exists
<1>4. HasFiles' BY DEF HasFiles, Up, Typed
<1>5. NoHusk' BY DEF NoHusk, Whole
<1>6. Sourced' BY DEF Sourced, Missing, Typed, Up
<1> QED BY <1>3, <1>4, <1>5, <1>6

LEMMA PublishKeeps ==
  ASSUME Names, Bounds, IInv, NEW p \in Promos, Up, thread[p] \in {"direct", "moved"}, ~Exists(live),
         NEW s \in {"done", "swapped"}, Publishes(p), Goes(p, s),
         UNCHANGED <<backup, journal, tomb, record, proc, mishaps>>
  PROVE  IInv'
<1> USE DEF IInv, Goes
<1>1. /\ wish' \in Wishes /\ wish'.deleted = FALSE /\ wish'.asked = wish.asked
      /\ wish'.husk = wish.husk /\ wish'.code = p /\ wish'.edits = wish.edits
      /\ live' = stage[p] /\ stage' = [stage EXCEPT ![p] = Absent]
  BY PublishesIs
<1>2. stage[p].code = p /\ p # "absent" /\ p # "husk" BY DEF HasFiles, Names
<1>3. live' # Absent BY <1>1, <1>2, AbsentIs
<1>4. Typed' BY <1>1, AbsentIs DEF Typed, Places
<1>5. HasFiles' BY <1>1, <1>3 DEF HasFiles, Up, Typed, Exists
<1>6. NoHusk' BY <1>1, <1>2, AbsentIs DEF NoHusk, Whole, Typed
<1>7. Sourced' BY <1>3 DEF Sourced, Missing, Exists
<1> QED BY <1>4, <1>5, <1>6, <1>7

(* The promotion gives up, or ends: no directory changes.                  *)
LEMMA EndsKeeps ==
  ASSUME Names, Bounds, IInv, NEW p \in Promos, Up, NEW s \in {"failed", "done", "cleaned"},
         Goes(p, s), thread[p] # "moved" \/ Exists(live),
         journal' = journal \/ journal' = [journal EXCEPT ![p] = FALSE],
         backup' = backup \/ backup' = [backup EXCEPT ![p] = Absent],
         mishaps' \in 0 .. MaxMishaps, UNCHANGED <<live, stage, tomb, record, proc, wish>>
  PROVE  IInv'
<1> USE DEF IInv, Goes
<1>3. Typed' BY AbsentIs DEF Typed, Places
<1>4. HasFiles' BY DEF HasFiles, Up, Typed
<1>5. NoHusk' BY AbsentIs DEF NoHusk, Whole, Typed
<1>6. Sourced' BY DEF Sourced, Missing, Typed, Up
<1> QED BY <1>3, <1>4, <1>5, <1>6

LEMMA MoveDirectKeeps == ASSUME Names, Bounds, IInv, NEW p \in Promos, MoveDirect(p) PROVE IInv'
<1>1. mishaps' \in 0 .. MaxMishaps BY DEF IInv, Typed, MoveDirect
<1>2. CASE Exists(live) BY <1>1, <1>2, EndsKeeps DEF MoveDirect
<1>3. CASE ~Exists(live) BY <1>3, PublishKeeps DEF MoveDirect
<1> QED BY <1>2, <1>3

LEMMA MoveOutKeeps == ASSUME Names, Bounds, IInv, NEW p \in Promos, MoveOut(p) PROVE IInv'
<1> USE DEF IInv, MoveOut, Goes
<1>3. Typed' BY AbsentIs DEF Typed, Places
<1>4. HasFiles' BY DEF HasFiles, Up, Typed
<1>5. NoHusk' BY AbsentIs DEF NoHusk, Whole, Typed
<1>6. Sourced' BY DEF Sourced, Missing, Typed, Up, Exists
<1> QED BY <1>3, <1>4, <1>5, <1>6

LEMMA MoveInKeeps == ASSUME Names, Bounds, IInv, NEW p \in Promos, MoveIn(p) PROVE IInv'
<1>1. mishaps' \in 0 .. MaxMishaps BY DEF IInv, Typed, MoveIn
<1>2. CASE Exists(live) BY <1>1, <1>2, EndsKeeps DEF MoveIn
<1>3. CASE ~Exists(live) BY <1>3, PublishKeeps DEF MoveIn
<1> QED BY <1>2, <1>3

LEMMA MoveInFailsKeeps == ASSUME Names, Bounds, IInv, NEW p \in Promos, MoveInFails(p) PROVE IInv'
<1> USE DEF IInv, MoveInFails, Goes, Mishap
<1>1. /\ Up /\ thread[p] = "moved" /\ thread' = [thread EXCEPT ![p] = "failed"]
      /\ journal' = journal \/ journal' = [journal EXCEPT ![p] = FALSE]
      /\ UNCHANGED <<stage, tomb, record, proc>>
  BY DEF Unlinks
<1>2. wish' \in Wishes /\ wish'.husk = wish.husk /\ wish'.edits = wish.edits
  BY LosesIs DEF Typed
<1>3. /\ live' = live \/ live' = backup[p]
      /\ backup' = backup \/ backup' = [backup EXCEPT ![p] = Absent]
      /\ Exists(live') \/ wish'.lost
  BY LosesIs DEF HasFiles, Exists, Typed
<1>4. mishaps' \in 0 .. MaxMishaps BY DEF Typed, Bounds
<1> HIDE DEF MoveInFails, Mishap, Goes
<1>5. Typed'
  <2>1. live' \in Contents /\ backup' \in [Promos -> Contents] BY <1>3, AbsentIs DEF Typed
  <2>2. journal' \in [Promos -> BOOLEAN] /\ thread' \in [Promos -> Places] BY <1>1 DEF Typed, Places
  <2> QED BY <1>1, <1>2, <1>4, <2>1, <2>2 DEF Typed
<1>6. HasFiles' BY <1>1, <1>3 DEF HasFiles, Up, Typed
<1>7. NoHusk' BY <1>1, <1>2, <1>3, AbsentIs DEF NoHusk, Whole, Typed
<1>8. Sourced' BY <1>3 DEF Sourced, Missing
<1> QED BY <1>5, <1>6, <1>7, <1>8

LEMMA DropKeeps ==
  ASSUME Names, Bounds, IInv, NEW p \in Promos, DropBackup(p) \/ DropJournal(p) PROVE IInv'
<1>1. mishaps' \in 0 .. MaxMishaps BY DEF IInv, Typed, DropBackup, DropJournal, Mishap, Bounds
<1> QED BY <1>1, EndsKeeps DEF DropBackup, DropJournal

-----------------------------------------------------------------------------
(* Reconciliation takes an App from a tombstone or leaves it as it is.     *)
LEMMA ReconciledIs ==
  ASSUME Typed, Bounds, Reconciled
  PROVE  /\ live' \in Contents /\ tomb' \in [Dels -> Contents]
         /\ \A d \in Dels : tomb'[d] = tomb[d] \/ tomb'[d] = Absent
         /\ \/ live' = live
            \/ ~Exists(live) /\ record /\ \E d \in Dels : live' = tomb[d] /\ Exists(tomb[d])
         /\ record /\ (\E d \in Dels : Exists(tomb[d])) => Exists(live')
         /\ Exists(live) => live' = live
<1>1. CASE \E d \in Dels : Restorable(d)
  <2>1. PICK d \in Dels : Restorable(d) /\ live' = tomb[d] /\ tomb' = [tomb EXCEPT ![d] = Absent]
    BY <1>1 DEF Reconciled
  <2> QED BY <2>1, AbsentIs DEF Typed, Restorable, Exists
<1>2. CASE ~(\E d \in Dels : Restorable(d))
  <2>1. tomb' = Swept /\ live' = live BY <1>2 DEF Reconciled
  <2>2. Swept \in [Dels -> Contents] /\ \A d \in Dels : Swept[d] = tomb[d] \/ Swept[d] = Absent
    BY AbsentIs DEF Swept, Typed
  <2>3. record /\ (\E d \in Dels : Exists(tomb[d])) => Exists(live) BY <1>2 DEF Restorable
  <2> QED BY <2>1, <2>2, <2>3 DEF Typed, Exists
<1> QED BY <1>1, <1>2

LEMMA AdoptedIs ==
  ASSUME Typed, Adopted, live' \in Contents
  PROVE  record' \in BOOLEAN /\ (record => record') /\ (record' /\ ~Exists(live') => record)
BY DEF Adopted, Intact, Exists, Absent, Typed

(* Reading the Apps, with what the process does next.                      *)
LEMMA ReadKeeps ==
  ASSUME Names, Bounds, IInv, proc.doing \in {"free", "down"}, Reconciled, Adopted,
         UNCHANGED <<stage, backup, journal, thread, mishaps, wish>>,
         proc' \in Procs,
         \/ proc'.doing = proc.doing
         \/ proc.doing = "free" /\ proc'.doing = "writing" /\ wish.edits < MaxEdits
         \/ proc.doing = "down" /\ proc'.doing = "recovering" /\ proc'.todo = {p \in Promos : journal[p]}
  PROVE  IInv'
<1> USE DEF IInv
<1>1. /\ live' \in Contents /\ tomb' \in [Dels -> Contents]
      /\ \A d \in Dels : tomb'[d] = tomb[d] \/ tomb'[d] = Absent
      /\ \/ live' = live
         \/ ~Exists(live) /\ record /\ \E d \in Dels : live' = tomb[d] /\ Exists(tomb[d])
      /\ record /\ (\E d \in Dels : Exists(tomb[d])) => Exists(live')
      /\ Exists(live) => live' = live
  BY ReconciledIs
<1>2. record' \in BOOLEAN /\ (record' /\ ~Exists(live') => record) BY <1>1, AdoptedIs
<1>3. ~Exists(live') => live' = live /\ (record' => record) /\ ~Exists(live)
  BY <1>1, <1>2 DEF Exists
<1>4. Typed' BY <1>1, <1>2 DEF Typed
<1>5. HasFiles' BY DEF HasFiles, Up, Exists
<1>6. NoHusk' BY <1>1, AbsentIs DEF NoHusk, Whole, Typed
<1>7. Missing' => Missing /\ ~(record /\ \E d \in Dels : Exists(tomb[d])) BY <1>1, <1>2, <1>3 DEF Missing
<1>8. Sourced'
  <2>1. CASE proc'.doing = proc.doing
    BY <1>2, <1>3, <1>7, <2>1 DEF Sourced, Exists
  <2>2. CASE proc.doing = "free" /\ proc'.doing = "writing" BY <1>7, <2>2 DEF Sourced
  <2>3. CASE proc.doing = "down" /\ proc'.doing = "recovering" /\ proc'.todo = {p \in Promos : journal[p]}
    BY <1>7, <2>3 DEF Sourced, Exists
  <2> QED BY <2>1, <2>2, <2>3
<1> QED BY <1>4, <1>5, <1>6, <1>8

LEMMA ReadAppsKeeps == ASSUME Names, Bounds, IInv, ReadApps PROVE IInv'
<1>1. proc \in Procs BY DEF IInv, Typed
<1> QED BY <1>1, ReadKeeps DEF ReadApps, Idle

LEMMA AuthorizeWriteKeeps == ASSUME Names, Bounds, IInv, AuthorizeWrite PROVE IInv'
<1>1. proc' \in Procs /\ proc'.doing = "writing" BY DEF IInv, Typed, AuthorizeWrite, Procs, Doings
<1>2. proc.doing = "free" BY DEF AuthorizeWrite, Idle
<1>3. Reconciled /\ Adopted /\ wish.edits < MaxEdits
      /\ UNCHANGED <<stage, backup, journal, thread, mishaps, wish>> BY DEF AuthorizeWrite
<1> QED BY <1>1, <1>2, <1>3, ReadKeeps

LEMMA RestartKeeps == ASSUME Names, Bounds, IInv, Restart PROVE IInv'
<1>1. proc'.doing = "recovering" /\ proc'.todo = {p \in Promos : journal[p]} /\ proc' \in Procs
  BY DEF Restart, Free, Procs, Doings
<1>2. proc.doing = "down" /\ Reconciled /\ Adopted
      /\ UNCHANGED <<stage, backup, journal, thread, mishaps, wish>> BY DEF Restart
<1> QED BY <1>1, <1>2, ReadKeeps

LEMMA UpdatePropertiesKeeps == ASSUME Names, Bounds, IInv, UpdateProperties PROVE IInv'
<1> USE DEF IInv, UpdateProperties
<1>1. live \in Contents /\ wish.edits + 1 \in 0 .. MaxEdits BY WishIs DEF Typed, Bounds
<1>2. live' \in Contents /\ live'.code = live.code BY <1>1 DEF Contents
<1>3. wish' \in Wishes /\ wish'.husk = wish.husk BY <1>1 DEF Typed, Wishes
<1>4. Exists(live') BY <1>2, AbsentIs DEF Intact, Exists
<1>5. proc.doing = "free" BY DEF Idle
<1>6. Typed' BY <1>2, <1>3, <1>5 DEF Typed
<1>7. HasFiles' BY <1>4 DEF HasFiles, Up
<1>8. NoHusk' BY <1>2, <1>3 DEF NoHusk, Whole, Intact
<1>9. Sourced' BY <1>4 DEF Sourced, Missing
<1> QED BY <1>6, <1>7, <1>8, <1>9

LEMMA FreeIs == Free \in Procs /\ Free.doing = "free" /\ Free.todo = {}
BY DEF Free, Procs, Doings

LEMMA WriteFileKeeps == ASSUME Names, Bounds, IInv, WriteFile PROVE IInv'
<1> USE DEF IInv, WriteFile
<1>1. live \in Contents /\ wish \in Wishes /\ wish.edits < MaxEdits /\ wish.edits + 1 \in 0 .. MaxEdits
  BY WishIs DEF Typed, Bounds
<1> DEFINE w == [wish EXCEPT !.edits = wish.edits + 1]
<1>2. w \in Wishes /\ w.deleted = wish.deleted /\ w.asked = wish.asked
      /\ w.husk = wish.husk /\ w.code = wish.code /\ w.edits = wish.edits + 1
  BY <1>1 DEF Wishes
<1>3. wish' = [w EXCEPT !.husk = w.husk \/ ~Exists(live)] BY <1>1, <1>2 DEF Wishes
<1> HIDE DEF w
<1>4. (w.husk \/ ~Exists(live)) \in BOOLEAN OBVIOUS
<1>5. wish' \in Wishes /\ wish'.deleted = wish.deleted /\ wish'.asked = wish.asked
      /\ wish'.code = wish.code BY <1>2, <1>3, <1>4 DEF Wishes
<1>6. wish'.husk <=> (wish.husk \/ ~Exists(live)) BY <1>2, <1>3 DEF Wishes
<1>7. live' \in Contents /\ live'.code = (IF Exists(live) THEN live.code ELSE "husk")
  BY <1>1 DEF Contents
<1>8. Exists(live') /\ live'.code # "absent" BY <1>7, AbsentIs DEF NoHusk, Whole, Exists
<1>9. proc' = Free BY DEF WriteFile
<1>10. Typed' BY <1>5, <1>7, <1>9, FreeIs DEF Typed
<1>11. HasFiles' BY <1>9, FreeIs DEF HasFiles, Up
<1>12. NoHusk' BY <1>6, <1>7, <1>8 DEF NoHusk, Whole
<1>13. Sourced' BY <1>8, <1>9, FreeIs DEF Sourced, Missing
<1> QED BY <1>10, <1>11, <1>12, <1>13

-----------------------------------------------------------------------------
(* The steps of a deletion.                                                *)
LEMMA DeleteRenameKeeps == ASSUME Names, Bounds, IInv, NEW d \in Dels, DeleteRename(d) PROVE IInv'
<1> USE DEF IInv, DeleteRename
<1>1. wish' \in Wishes /\ wish'.deleted = wish.deleted /\ wish'.husk = wish.husk
      /\ wish'.edits = wish.edits
  BY DEF Typed, Wishes
<1> DEFINE f == [Free EXCEPT !.doing = "deleting"]
<1>2. f \in Procs /\ f.doing = "deleting" BY DEF Free, Procs, Doings
<1>3. proc' = [f EXCEPT !.hand = d] BY <1>2 DEF Free
<1> HIDE DEF f
<1>4. proc' \in Procs /\ proc'.doing = "deleting" /\ proc'.hand = d BY <1>2, <1>3 DEF Procs
<1>5. tomb'[d] = live /\ tomb' = [tomb EXCEPT ![d] = live] /\ Exists(live) BY DEF Typed
<1>6. Typed' BY <1>1, <1>4, <1>5, AbsentIs DEF Typed
<1>7. HasFiles' BY <1>4, <1>5 DEF HasFiles, Up, Idle, Exists
<1>8. NoHusk' BY <1>1, <1>5, AbsentIs DEF NoHusk, Whole, Typed
<1>9. Sourced' BY <1>4 DEF Sourced
<1> QED BY <1>6, <1>7, <1>8, <1>9

LEMMA DeleteCommitKeeps == ASSUME Names, Bounds, IInv, DeleteCommit PROVE IInv'
<1> USE DEF IInv, DeleteCommit, files
<1>0. (~Exists(live)) \in BOOLEAN OBVIOUS
<1>1. wish' \in Wishes /\ wish'.husk = wish.husk /\ wish'.edits = wish.edits
  BY <1>0 DEF Typed, Wishes
<1>2. wish'.deleted <=> ~Exists(live) BY DEF Typed, Wishes
<1>3. proc' \in Procs /\ proc'.doing = "disposing" /\ proc'.hand = proc.hand
  BY DEF Typed, Procs, Doings
<1>4. Typed' BY <1>1, <1>3 DEF Typed
<1>5. HasFiles' BY <1>3 DEF HasFiles, Up
<1>6. NoHusk' BY <1>1 DEF NoHusk, Whole
<1>7. Sourced' BY <1>2, <1>3 DEF Sourced, Missing, Exists
<1> QED BY <1>4, <1>5, <1>6, <1>7

LEMMA DeleteFailsKeeps == ASSUME Names, Bounds, IInv, DeleteFails PROVE IInv'
<1> USE DEF IInv, DeleteFails, Mishap
<1>1. proc.hand \in Dels /\ Exists(tomb[proc.hand]) BY DEF HasFiles
<1>2. /\ live' \in {live, tomb[proc.hand]} /\ tomb' \in {tomb, [tomb EXCEPT ![proc.hand] = Absent]}
      /\ Exists(live') \/ wish'.lost
  BY <1>1, LosesIs DEF Exists, Typed
<1>3. proc' = Free /\ UNCHANGED <<stage, backup, journal, thread, record>> OBVIOUS
<1>4. mishaps' \in 0 .. MaxMishaps BY DEF Typed, Bounds
<1>5. wish' \in Wishes /\ wish'.husk = wish.husk /\ wish'.edits = wish.edits
  BY LosesIs DEF Typed
<1>6. Typed' BY <1>1, <1>2, <1>3, <1>4, <1>5, FreeIs, AbsentIs DEF Typed
<1>7. HasFiles' BY <1>3, FreeIs DEF HasFiles, Up
<1>8. NoHusk' BY <1>1, <1>2, <1>3, <1>5, AbsentIs DEF NoHusk, Whole, Typed
<1>9. Sourced' BY <1>2, <1>3, FreeIs DEF Sourced, Missing
<1> QED BY <1>6, <1>7, <1>8, <1>9

LEMMA DeleteDisposeKeeps == ASSUME Names, Bounds, IInv, DeleteDispose PROVE IInv'
<1> USE DEF IInv, DeleteDispose, Mishap
<1>3. proc' = Free OBVIOUS
<1>4. mishaps' \in 0 .. MaxMishaps BY DEF Typed, Bounds
<1>5. Typed' BY <1>3, <1>4, FreeIs, AbsentIs DEF Typed, HasFiles
<1>6. HasFiles' BY <1>3, FreeIs DEF HasFiles, Up
<1>7. NoHusk' BY AbsentIs DEF NoHusk, Whole, Typed
<1>8. Sourced' BY <1>3, FreeIs DEF Sourced, Missing, Exists
<1> QED BY <1>5, <1>6, <1>7, <1>8

-----------------------------------------------------------------------------
(* The end of the process: what was under way is found on disk.            *)
LEMMA CrashKeeps == ASSUME Names, Bounds, IInv, Crash PROVE IInv'
<1> USE DEF IInv, Crash, Mishap, files
<1> DEFINE lost == proc.doing = "deleting" /\ ~record
<1>1. wish' \in Wishes /\ wish'.husk = wish.husk /\ wish'.edits = wish.edits
  <2>1. (wish.deleted \/ lost) \in BOOLEAN OBVIOUS
  <2> HIDE DEF lost
  <2>2. wish' = [wish EXCEPT !.deleted = wish.deleted \/ lost] BY DEF lost, Typed, Wishes
  <2> QED BY <2>1, <2>2 DEF Typed, Wishes
<1>2. (wish'.deleted <=> (wish.deleted \/ lost)) /\ wish'.lost = wish.lost BY DEF Typed, Wishes
<1>3. proc' \in Procs /\ proc'.doing = "down" BY DEF Down, Free, Procs, Doings
<1>4. thread' \in [Promos -> Places] /\ \A p \in Promos : thread'[p] \in {"none", "done", "failed"}
  BY DEF Typed, Places
<1>5. mishaps' \in 0 .. MaxMishaps BY DEF Typed, Bounds
<1>6. Typed' BY <1>1, <1>3, <1>4, <1>5 DEF Typed
<1>7. HasFiles' BY <1>3, <1>4 DEF HasFiles
<1>8. NoHusk' BY <1>1 DEF NoHusk, Whole
<1>9. Sourced'
  <2>1. ASSUME Missing'
        PROVE  (\E p \in Promos : journal[p] /\ Exists(backup[p])) \/ (record /\ \E d \in Dels : Exists(tomb[d]))
    <3>1. Missing BY <2>1, <1>2 DEF Missing, Exists
    <3>2. CASE proc.doing \in {"free", "writing", "disposing"}
      BY <3>1, <3>2 DEF Sourced, HasFiles
    <3>3. CASE proc.doing = "deleting"
      <4>1. record BY <2>1, <3>3, <1>2 DEF Missing
      <4> QED BY <4>1, <3>3 DEF HasFiles
    <3>4. CASE proc.doing = "recovering"
      <4>1. proc.todo \in SUBSET Promos BY DEF Typed, Procs
      <4> QED BY <4>1, <3>1, <3>4 DEF Sourced, HasFiles
    <3>5. CASE proc.doing = "clearing" BY <3>1, <3>5 DEF HasFiles, Missing
    <3>6. proc.doing \in Doings \ {"down"} BY DEF Typed, Procs
    <3> QED BY <3>2, <3>3, <3>4, <3>5, <3>6 DEF Doings
  <2> QED BY <2>1, <1>3 DEF Sourced, Exists
<1> QED BY <1>6, <1>7, <1>8, <1>9

(* The recovery of one journal.                                            *)
LEMMA RecoverKeeps == ASSUME Names, Bounds, IInv, NEW p \in Promos, Recover(p) PROVE IInv'
<1> USE DEF IInv
<1>1. proc.doing = "recovering" /\ p \in proc.todo /\ proc.todo \in SUBSET Promos
      /\ UNCHANGED <<stage, journal, thread, tomb, record, mishaps, wish>>
  BY DEF Recover, Typed, Procs
<1>2. CASE /\ Exists(live') /\ (live' = live \/ live' = backup[p])
           /\ backup' = backup \/ backup' = [backup EXCEPT ![p] = Absent]
           /\ proc' = [proc EXCEPT !.doing = "clearing", !.hand = p]
  <2> DEFINE f == [proc EXCEPT !.doing = "clearing"]
  <2>1. f \in Procs /\ f.doing = "clearing" /\ f.todo = proc.todo BY DEF Typed, Procs, Doings
  <2>2. proc' = [f EXCEPT !.hand = p] BY <1>2 DEF Typed, Procs
  <2> HIDE DEF f
  <2>3. proc' \in Procs /\ proc'.doing = "clearing" /\ proc'.hand = p /\ proc'.todo = proc.todo
    BY <2>1, <2>2 DEF Procs
  <2>4. Typed' BY <1>1, <1>2, <2>3, AbsentIs DEF Typed
  <2>5. HasFiles' BY <1>1, <1>2, <2>3 DEF HasFiles, Up
  <2>6. NoHusk' BY <1>1, <1>2, AbsentIs DEF NoHusk, Whole, Typed
  <2>7. Sourced' BY <2>3 DEF Sourced
  <2> QED BY <2>4, <2>5, <2>6, <2>7
<1>3. CASE /\ Exists(live) \/ ~Exists(backup[p])
           /\ proc' = [proc EXCEPT !.todo = proc.todo \ {p}] /\ UNCHANGED <<live, backup>>
  <2>1. proc' \in Procs /\ proc'.doing = proc.doing /\ proc'.hand = proc.hand
        /\ proc'.todo = proc.todo \ {p}
    BY <1>3, <1>1 DEF Typed, Procs
  <2>2. Typed' BY <1>1, <1>3, <2>1 DEF Typed
  <2>3. HasFiles' BY <1>1, <1>3, <2>1 DEF HasFiles, Up
  <2>4. NoHusk' BY <1>1, <1>3 DEF NoHusk, Whole
  <2>5. Sourced' BY <1>1, <1>3, <2>1 DEF Sourced, Missing, Exists
  <2> QED BY <2>2, <2>3, <2>4, <2>5
<1> QED BY <1>2, <1>3 DEF Recover, Exists, Typed, Procs

LEMMA ClearJournalKeeps == ASSUME Names, Bounds, IInv, ClearJournal PROVE IInv'
<1> USE DEF IInv, ClearJournal
<1>1. proc.hand \in Promos /\ Exists(live) /\ proc.todo \in SUBSET Promos /\ proc \in Procs
  BY DEF HasFiles, Typed, Procs
<1> DEFINE f == [proc EXCEPT !.doing = "recovering"]
<1>2. f \in Procs /\ f.doing = "recovering" /\ f.todo = proc.todo BY <1>1 DEF Procs, Doings
<1>3. proc' = [f EXCEPT !.todo = proc.todo \ {proc.hand}] BY <1>1 DEF Procs
<1> HIDE DEF f
<1>4. proc' \in Procs /\ proc'.doing = "recovering" /\ proc'.todo = proc.todo \ {proc.hand}
  BY <1>1, <1>2, <1>3 DEF Procs
<1>5. Typed' BY <1>1, <1>4 DEF Typed
<1>6. HasFiles' BY <1>1, <1>4 DEF HasFiles, Up, Typed
<1>7. NoHusk' BY DEF NoHusk, Whole
<1>8. Sourced' BY <1>1, <1>4 DEF Sourced, Missing, Exists
<1> QED BY <1>5, <1>6, <1>7, <1>8

LEMMA OpenedKeeps == ASSUME Names, Bounds, IInv, Opened PROVE IInv'
<1> USE DEF IInv, Opened, files
<1>1. proc' = Free OBVIOUS
<1>2. Typed' BY <1>1, FreeIs DEF Typed
<1>3. HasFiles' BY <1>1, FreeIs DEF HasFiles, Up
<1>4. NoHusk' BY DEF NoHusk, Whole
<1>5. Sourced' BY <1>1, FreeIs DEF Sourced, Missing, Exists
<1> QED BY <1>2, <1>3, <1>4, <1>5

LEMMA SameKeeps == ASSUME IInv, UNCHANGED vars PROVE IInv'
<1> USE DEF IInv, vars
<1>1. Typed' BY DEF Typed
<1>2. HasFiles' BY DEF HasFiles, Up, Exists
<1>3. NoHusk' BY DEF NoHusk, Whole
<1>4. Sourced' BY DEF Sourced, Missing, Exists
<1> QED BY <1>1, <1>2, <1>3, <1>4

-----------------------------------------------------------------------------
LEMMA IInvStep == ASSUME Names, Bounds, IInv, [Next]_vars PROVE IInv'
<1>1. CASE UNCHANGED vars BY <1>1, SameKeeps
<1>2. ASSUME NEW p \in Promos,
             Stage(p) \/ Decide(p) \/ MoveDirect(p) \/ MoveOut(p) \/ MoveIn(p)
               \/ MoveInFails(p) \/ DropBackup(p) \/ DropJournal(p) \/ Recover(p)
      PROVE  IInv'
  BY <1>2, StageKeeps, DecideKeeps, MoveDirectKeeps, MoveOutKeeps, MoveInKeeps, MoveInFailsKeeps,
     DropKeeps, RecoverKeeps
<1>3. CASE ReadApps BY <1>3, ReadAppsKeeps
<1>4. CASE UpdateProperties BY <1>4, UpdatePropertiesKeeps
<1>5. CASE AuthorizeWrite BY <1>5, AuthorizeWriteKeeps
<1>6. CASE WriteFile BY <1>6, WriteFileKeeps
<1>7. ASSUME NEW d \in Dels, DeleteRename(d) PROVE IInv' BY <1>7, DeleteRenameKeeps
<1>8. CASE DeleteCommit BY <1>8, DeleteCommitKeeps
<1>9. CASE DeleteFails BY <1>9, DeleteFailsKeeps
<1>10. CASE DeleteDispose BY <1>10, DeleteDisposeKeeps
<1>11. CASE Crash BY <1>11, CrashKeeps
<1>12. CASE Restart BY <1>12, RestartKeeps
<1>13. CASE ClearJournal BY <1>13, ClearJournalKeeps
<1>14. CASE Opened BY <1>14, OpenedKeeps
<1> QED BY <1>1, <1>2, <1>3, <1>4, <1>5, <1>6, <1>7, <1>8, <1>9, <1>10, <1>11, <1>12, <1>13, <1>14
        DEF Next

LEMMA WholeFromIInv == ASSUME IInv PROVE DirectoryIsWhole
<1> SUFFICES ASSUME Settled, ~wish.lost PROVE (~wish.deleted /\ ~wish.husk => Intact(live))
                                              /\ (~Exists(live) => ~record)
  BY DEF DirectoryIsWhole, AppSurvives, RecordMatches
<1>1. ~Missing BY DEF IInv, Sourced, Settled, Idle
<1> QED BY <1>1 DEF IInv, Missing, Intact, NoHusk, Whole, Exists

(* The type invariant: directories, journals, threads and the process are  *)
(* of the kinds the variables of AppDirectory name.                        *)
THEOREM TypeCorrect == ASSUME Names, Bounds PROVE Spec => []TypeOK
<1>1. Init => IInv BY Init_IInv
<1>2. IInv /\ [Next]_vars => IInv' BY IInvStep
<1>3. IInv => TypeOK BY DEF IInv, Typed, TypeOK, Procs, Wishes, Places, Doings
<1> QED BY <1>1, <1>2, <1>3, PTL DEF Spec

(* However often the process crashed, a rename or a deletion failed, and   *)
(* however many promotions overlap: once things have settled, an App that  *)
(* nobody deleted is there and readable, and no lifecycle record outlives  *)
(* its App, unless the rename that was to put the App back failed as well  *)
(* and no promotion has published one since (coding_agent_acp.py promote,  *)
(* app_manager.py delete_app).                                             *)
THEOREM DirectoryIsWholeHolds == ASSUME Names, Bounds PROVE Spec => []DirectoryIsWhole
<1>1. Init => IInv BY Init_IInv
<1>2. IInv /\ [Next]_vars => IInv' BY IInvStep
<1>3. IInv => DirectoryIsWhole BY WholeFromIInv
<1> QED BY <1>1, <1>2, <1>3, PTL DEF Spec

-----------------------------------------------------------------------------
(* One promotion at a time: when one starts, no other is under way.        *)
LEMMA NobodyElse ==
  ASSUME OneByOne, OneThread, NEW p \in Promos, Stage(p) PROVE Active = {}
<1> USE DEF OneThread
<1>1. Active = {} \/ \E q : Active = {q}
  <2>1. ASSUME Active # {} PROVE \E q : Active = {q}
    <3>1. PICK q \in Active : TRUE BY <2>1
    <3>2. Active = {q} BY <3>1
    <3> QED BY <3>2
  <2> QED BY <2>1
<1>2. IsFiniteSet(Active) BY <1>1, FS_EmptySet, FS_Singleton
<1>3. Cardinality(Active) < MaxThreads BY DEF Stage, Active
<1>4. Cardinality(Active) \in Nat BY <1>2, FS_CardinalityType
<1>5. MaxThreads = 0 \/ MaxThreads = 1 BY DEF OneByOne
<1>6. Cardinality(Active) = 0 BY <1>3, <1>4, <1>5
<1> QED BY <1>2, <1>6, FS_EmptySet

LEMMA OneThreadStep ==
  ASSUME Names, Bounds, OneByOne, IInv, OneThread, [Next]_vars PROVE OneThread'
<1> USE DEF IInv, OneThread, Active
<1>1. thread \in [Promos -> Places] BY DEF Typed
<1>2. CASE \E p \in Promos : Stage(p)
  <2>1. PICK p \in Promos : Stage(p) BY <1>2
  <2>2. Active = {} BY <2>1, NobodyElse
  <2>3. thread' = [thread EXCEPT ![p] = "drafted"] BY <2>1 DEF Stage
  <2> QED BY <1>1, <2>2, <2>3
<1>3. ASSUME NEW p \in Promos, NEW s, thread[p] \notin {"none", "done", "failed"},
             thread' = [thread EXCEPT ![p] = s]
      PROVE  OneThread'
  BY <1>1, <1>3
<1>4. ASSUME NEW p \in Promos,
             Decide(p) \/ MoveDirect(p) \/ MoveOut(p) \/ MoveIn(p) \/ MoveInFails(p)
               \/ DropBackup(p) \/ DropJournal(p)
      PROVE  OneThread'
  <2>1. thread[p] \notin {"none", "done", "failed"}
    BY <1>4 DEF Decide, MoveDirect, MoveOut, MoveIn, MoveInFails, DropBackup, DropJournal
  <2>2. \E s : thread' = [thread EXCEPT ![p] = s]
    BY <1>4 DEF Decide, MoveDirect, MoveOut, MoveIn, MoveInFails, DropBackup, DropJournal, Goes
  <2> QED BY <2>1, <2>2, <1>3
<1>5. CASE Crash BY <1>5 DEF Crash
<1>6. CASE UNCHANGED thread BY <1>6
<1>7. CASE \/ \E p \in Promos : Recover(p)
           \/ ReadApps \/ UpdateProperties \/ AuthorizeWrite \/ WriteFile
           \/ \E d \in Dels : DeleteRename(d)
           \/ DeleteCommit \/ DeleteFails \/ DeleteDispose \/ Restart \/ ClearJournal \/ Opened
           \/ UNCHANGED vars
  BY <1>7, <1>6 DEF Recover, ReadApps, UpdateProperties, AuthorizeWrite, WriteFile, DeleteRename,
     DeleteCommit, DeleteFails, DeleteDispose, Restart, ClearJournal, Opened, vars
<1> QED BY <1>2, <1>4, <1>5, <1>7 DEF Next

-----------------------------------------------------------------------------
(* The record stays, no tombstone is made, and whose code is where.        *)
LEMMA CodeIs ==
  ASSUME Names, Bounds, Typed
  PROVE  wish.code # "absent" /\ (live.code = wish.code => Exists(live))
         /\ (live = Absent => live.code # wish.code)
BY AbsentIs DEF Names, Typed, Wishes, Exists

LEMMA Alone ==
  ASSUME OneThread, NEW p \in Promos, NEW q \in Promos,
         thread[p] \notin {"none", "done", "failed"}, thread[q] \notin {"none", "done", "failed"}
  PROVE  p = q
BY DEF OneThread, Active

(* A promotion's step while the process is up, in terms of where its code  *)
(* and the App's are.                                                      *)
Out(p) == Exists(backup[p]) /\ backup[p].code = wish.code /\ thread[p] = "moved"

LEMMA QuietUp ==
  ASSUME QuietInv, Up
  PROVE  live.code = wish.code \/ wish.lost \/ (live = Absent /\ \E p \in Promos : Out(p))
BY DEF QuietInv, Out

LEMMA StageQuiet ==
  ASSUME Names, Bounds, OneByOne, IInv, OInv, Quiet, NEW p \in Promos, Stage(p) \/ Decide(p) PROVE QuietInv'
<1> USE DEF IInv, Typed, OInv, QuietInv, Quiet
<1>1. CASE Stage(p)
  <2>1. thread[p] = "none" /\ thread' = [thread EXCEPT ![p] = "drafted"] /\ Up
        /\ UNCHANGED <<live, backup, journal, tomb, record, proc, mishaps, wish>>
    BY <1>1 DEF Stage
  <2> QED BY <2>1 DEF Up, Swapping, Exists
<1>2. CASE Decide(p)
  <2>1. thread[p] = "drafted" /\ Up /\ UNCHANGED <<live, stage, backup, tomb, record, proc, mishaps, wish>>
        /\ thread' = [thread EXCEPT ![p] = IF Exists(live) THEN "swap" ELSE "direct"]
        /\ journal' = [journal EXCEPT ![p] = Exists(live)]
    BY <1>2 DEF Decide
  <2>2. mishaps' = 0 => \A q \in Promos : journal'[q] => Swapping(q)'
    BY <2>1 DEF Swapping
  <2>3. \/ live'.code = wish'.code \/ wish'.lost
        \/ live' = Absent /\ \E q \in Promos : Exists(backup'[q]) /\ backup'[q].code = wish'.code
                                               /\ thread'[q] = "moved"
    BY <2>1, QuietUp DEF Out, Exists
  <2> QED BY <2>1, <2>2, <2>3 DEF Up, Exists
<1> QED BY <1>1, <1>2

LEMMA PublishQuiet ==
  ASSUME Names, Bounds, OneByOne, IInv, OInv, Quiet, NEW p \in Promos, Up,
         thread[p] \in {"direct", "moved"}, Publishes(p), NEW s \in {"done", "swapped"}, Goes(p, s),
         thread[p] = "moved" => s = "swapped",
         UNCHANGED <<backup, journal, tomb, record, proc, mishaps>>
  PROVE  QuietInv'
<1> USE DEF IInv, Typed, OInv, QuietInv, Quiet
<1>1. wish'.code = p /\ live' = stage[p] /\ ~wish'.lost BY PublishesIs
<1>2. stage[p].code = p BY DEF HasFiles
<1>3. thread' = [thread EXCEPT ![p] = s] BY DEF Goes
<1>4. mishaps' = 0 => \A q \in Promos : journal'[q] => Swapping(q)'
  BY <1>3 DEF Swapping
<1> QED BY <1>1, <1>2, <1>4 DEF Up

LEMMA MoveDirectQuiet ==
  ASSUME Names, Bounds, OneByOne, IInv, OInv, Quiet, NEW p \in Promos, MoveDirect(p) PROVE QuietInv'
<1> USE DEF IInv, OInv
<1>1. CASE Exists(live)
  <2> USE DEF Typed, QuietInv
  <2>1. thread[p] = "direct" /\ Up /\ thread' = [thread EXCEPT ![p] = "failed"]
        /\ UNCHANGED <<live, stage, wish, backup, journal, tomb, record, proc, mishaps>>
    BY <1>1 DEF MoveDirect, Goes
  <2>2. mishaps' = 0 => \A q \in Promos : journal'[q] => Swapping(q)' BY <2>1 DEF Swapping
  <2>3. live.code = wish.code \/ wish.lost BY <1>1 DEF Exists
  <2> QED BY <2>1, <2>2, <2>3 DEF Up
<1>2. CASE ~Exists(live) BY <1>2, PublishQuiet DEF MoveDirect
<1> QED BY <1>1, <1>2

LEMMA MoveOutQuiet ==
  ASSUME Names, Bounds, OneByOne, IInv, OInv, Quiet, NEW p \in Promos, MoveOut(p) PROVE QuietInv'
<1> USE DEF IInv, OInv, Typed, QuietInv
<1>1. thread[p] = "swap" /\ Up /\ live' = Absent /\ backup' = [backup EXCEPT ![p] = live]
      /\ UNCHANGED <<stage, journal, tomb, record, proc, mishaps, wish>>
      /\ thread' = [thread EXCEPT ![p] = IF Exists(live) THEN "moved" ELSE "failed"]
  BY DEF MoveOut, Goes
<1>2. \A q \in Promos : thread[q] # "moved" BY <1>1, Alone
<1>3. live.code = wish.code \/ wish.lost BY <1>1, <1>2, QuietUp DEF Out
<1>4. mishaps' = 0 => \A q \in Promos : journal'[q] => Swapping(q)'
  BY <1>1, <1>3, CodeIs DEF Swapping
<1>5. proc.doing # "recovering" BY <1>1 DEF Up
<1>6. CASE wish.lost BY <1>1, <1>4, <1>5, <1>6 DEF Up
<1>7. CASE live.code = wish.code
  <2>1. Exists(live) BY <1>7, CodeIs
  <2>2. thread'[p] = "moved" /\ backup'[p] = live BY <1>1, <2>1
  <2> QED BY <1>1, <1>4, <1>5, <1>7, <2>1, <2>2 DEF Up, Exists
<1> QED BY <1>3, <1>6, <1>7

LEMMA MoveInQuiet ==
  ASSUME Names, Bounds, OneByOne, IInv, OInv, Quiet, NEW p \in Promos, MoveIn(p) PROVE QuietInv'
<1> USE DEF IInv, OInv
<1>1. CASE Exists(live)
  <2> USE DEF Typed, QuietInv
  <2>1. thread[p] = "moved" /\ Up /\ thread' = [thread EXCEPT ![p] = "failed"]
        /\ journal' = [journal EXCEPT ![p] = FALSE]
        /\ UNCHANGED <<live, stage, wish, backup, tomb, record, proc, mishaps>>
    BY <1>1 DEF MoveIn, Goes
  <2>2. mishaps' = 0 => \A q \in Promos : journal'[q] => Swapping(q)' BY <2>1 DEF Swapping
  <2>3. live.code = wish.code \/ wish.lost BY <1>1 DEF Exists
  <2> QED BY <2>1, <2>2, <2>3 DEF Up
<1>2. CASE ~Exists(live) BY <1>2, PublishQuiet DEF MoveIn
<1> QED BY <1>1, <1>2

LEMMA MoveInFailsQuiet ==
  ASSUME Names, Bounds, OneByOne, IInv, OInv, Quiet, NEW p \in Promos, MoveInFails(p) PROVE QuietInv'
<1> USE DEF IInv, OInv, Typed, QuietInv
<1>1. thread[p] = "moved" /\ Up /\ ~Exists(live) /\ mishaps' = mishaps + 1 /\ UNCHANGED <<tomb, record, proc>>
  BY DEF MoveInFails, Mishap
<1>2. mishaps' # 0 BY <1>1 DEF Bounds
<1>3. CASE live' = backup[p] /\ wish' = wish
  <2>1. wish.lost \/ \E q \in Promos : Out(q) BY <1>1, QuietUp, CodeIs
  <2>2. CASE wish.lost BY <1>1, <1>2, <1>3, <2>2 DEF Up
  <2>3. CASE \E q \in Promos : Out(q)
    <3>1. PICK q \in Promos : Out(q) BY <2>3
    <3>2. q = p BY <1>1, <3>1, Alone DEF Out
    <3> QED BY <1>1, <1>2, <1>3, <3>1, <3>2 DEF Up, Out
  <2> QED BY <2>1, <2>2, <2>3
<1>4. CASE Loses
  <2>1. wish'.lost BY <1>4, LosesIs
  <2> QED BY <1>1, <1>2, <2>1 DEF Up
<1> QED BY <1>3, <1>4 DEF MoveInFails

LEMMA DropQuiet ==
  ASSUME Names, Bounds, OneByOne, IInv, OInv, Quiet, NEW p \in Promos, DropBackup(p) \/ DropJournal(p)
  PROVE  QuietInv'
<1> USE DEF IInv, OInv, Typed, QuietInv
<1>1. thread[p] \in {"swapped", "cleaned"} /\ Up /\ UNCHANGED <<live, stage, tomb, record, proc, wish>>
  BY DEF DropBackup, DropJournal
<1>2. \A q \in Promos : thread[q] # "moved" BY <1>1, Alone
<1>3. live.code = wish.code \/ wish.lost BY <1>1, <1>2, QuietUp DEF Out
<1>4. mishaps' = 0 => \A q \in Promos : journal'[q] => Swapping(q)'
  <2>1. CASE mishaps' = mishaps /\ thread' = [thread EXCEPT ![p] = "cleaned"] /\ journal' = journal
    BY <2>1 DEF Swapping
  <2>2. CASE mishaps' = mishaps + 1 BY <2>2 DEF Bounds
  <2>3. CASE mishaps' = mishaps /\ thread' = [thread EXCEPT ![p] = "done"]
             /\ journal' = [journal EXCEPT ![p] = FALSE]
    BY <2>3 DEF Swapping
  <2> QED BY <2>1, <2>2, <2>3 DEF DropBackup, DropJournal, Mishap, Goes
<1>5. mishaps \in Nat BY DEF Bounds, Typed
<1>6. mishaps # 0 => mishaps' # 0
  <2>1. mishaps' = mishaps \/ mishaps' = mishaps + 1 BY DEF DropBackup, DropJournal, Mishap
  <2> QED BY <1>5, <2>1
<1> QED BY <1>1, <1>3, <1>4, <1>6 DEF Up

(* A step of the event loop of a running process, which changes no code.   *)
LEMMA LoopQuiet ==
  ASSUME Names, Bounds, IInv, QuietInv, Up, Up', wish'.code = wish.code, wish'.lost = wish.lost,
         live'.code = live.code, live = Absent => live' = Absent,
         \A d \in Dels : tomb'[d] = Absent, record', proc'.doing \notin {"deleting", "disposing"},
         UNCHANGED <<backup, journal, thread, mishaps>>
  PROVE  QuietInv'
<1>1. proc'.doing # "recovering" BY DEF Up
<1>2. \/ live'.code = wish'.code \/ wish'.lost
      \/ /\ live' = Absent
         /\ \E p \in Promos : Exists(backup'[p]) /\ backup'[p].code = wish'.code /\ thread'[p] = "moved"
  BY QuietUp DEF Out
<1>3. mishaps' = 0 => \A p \in Promos : journal'[p] => Swapping(p)' BY DEF QuietInv, Swapping
<1> QED BY <1>1, <1>2, <1>3 DEF QuietInv, Exists

LEMMA ReconciledQuiet ==
  ASSUME Bounds, IInv, QuietInv, Reconciled, Adopted
  PROVE  live' = live /\ record' /\ \A d \in Dels : tomb'[d] = Absent
<1>1. live' = live /\ \A d \in Dels : tomb'[d] = Absent
  BY ReconciledIs DEF IInv, QuietInv, Exists
<1>2. record' BY DEF Adopted, QuietInv
<1> QED BY <1>1, <1>2

LEMMA ReadQuiet ==
  ASSUME Names, Bounds, IInv, QuietInv, ReadApps \/ AuthorizeWrite PROVE QuietInv'
<1> USE DEF ReadApps, AuthorizeWrite, Idle
<1>1. live' = live /\ record' /\ \A d \in Dels : tomb'[d] = Absent BY ReconciledQuiet
<1>2. proc'.doing \in {"free", "writing"} BY DEF IInv, Typed, Procs
<1> QED BY <1>1, <1>2, LoopQuiet DEF Up

LEMMA EditQuiet ==
  ASSUME Names, Bounds, IInv, QuietInv, UpdateProperties, Quiet PROVE QuietInv'
<1>1. wish'.code = wish.code /\ wish'.lost = wish.lost /\ live'.code = live.code /\ live # Absent
      /\ proc.doing = "free"
  BY AbsentIs DEF UpdateProperties, IInv, Typed, Wishes, Contents, Intact, Idle
<1> QED BY <1>1, LoopQuiet DEF UpdateProperties, Up, QuietInv

LEMMA WriteQuiet ==
  ASSUME Names, Bounds, IInv, QuietInv, WriteFile, Quiet' PROVE QuietInv'
<1>1. Exists(live) BY DEF WriteFile, Quiet, IInv, Typed, Wishes
<1>2. wish'.code = wish.code /\ wish'.lost = wish.lost /\ live'.code = live.code /\ live # Absent
      /\ proc'.doing = "free"
  BY <1>1 DEF WriteFile, IInv, Typed, Wishes, Contents, Exists, Free
<1> QED BY <1>2, LoopQuiet DEF WriteFile, Up, QuietInv

(* The crash finds one journal at most, and the startup starts from it.    *)
LEMMA CrashQuiet ==
  ASSUME Names, Bounds, OneByOne, IInv, OInv, Quiet, Crash PROVE QuietInv'
<1> USE DEF IInv, OInv, Typed, QuietInv
<1>1. /\ mishaps = 0 /\ mishaps' = 1 /\ proc'.doing = "down" /\ proc.doing # "down"
      /\ UNCHANGED <<live, stage, backup, journal, tomb, record>>
  BY DEF Crash, Mishap, files, Down, Free, OneByOne, Bounds
<1>2. wish'.code = wish.code /\ wish'.lost = wish.lost /\ ~wish.lost BY <1>1 DEF Crash, Wishes
<1>3. \A p, q \in Promos : journal[p] /\ journal[q] => p = q BY <1>1, Alone DEF Swapping
<1>4. \/ live.code = wish.code
      \/ live = Absent /\ \E p \in Promos : Exists(backup[p]) /\ backup[p].code = wish.code /\ journal[p]
  BY <1>2 DEF HasFiles
<1> QED BY <1>1, <1>2, <1>3, <1>4 DEF Up, Exists

LEMMA RestartQuiet ==
  ASSUME Names, Bounds, IInv, QuietInv, Restart PROVE QuietInv'
<1>1. live' = live /\ record' /\ \A d \in Dels : tomb'[d] = Absent BY ReconciledQuiet DEF Restart
<1>2. proc'.doing = "recovering" /\ proc'.todo = {p \in Promos : journal[p]} /\ proc.doing = "down"
  BY DEF Restart, Free
<1>3. UNCHANGED <<stage, backup, journal, thread, mishaps, wish>> BY DEF Restart
<1>4. \/ live'.code = wish'.code
      \/ live' = Absent /\ \E p \in Promos : /\ Exists(backup'[p]) /\ backup'[p].code = wish'.code
                                             /\ journal'[p] /\ p \in proc'.todo
  BY <1>1, <1>2, <1>3 DEF QuietInv, Up, Exists
<1>5. mishaps' = 0 => \A p \in Promos : journal'[p] => Swapping(p)' BY <1>3 DEF QuietInv, Swapping
<1>6. ~Up /\ ~Up' /\ ~wish.lost BY <1>2 DEF Up, QuietInv
<1> QED BY <1>1, <1>2, <1>3, <1>4, <1>5, <1>6 DEF QuietInv

LEMMA RecoverQuiet ==
  ASSUME Names, Bounds, IInv, QuietInv, NEW p \in Promos, Recover(p) PROVE QuietInv'
<1> USE DEF IInv, Typed
<1>1. /\ proc.doing = "recovering" /\ p \in proc.todo /\ proc.todo \in SUBSET Promos /\ journal[p]
      /\ UNCHANGED <<stage, journal, thread, tomb, record, mishaps, wish>>
  BY DEF Recover, Procs, HasFiles
<1>2. proc'.doing \in {"recovering", "clearing"} BY <1>1 DEF Recover, Procs
<1>3. live = Absent => Exists(backup[p]) /\ backup[p].code = wish.code
  BY <1>1, CodeIs DEF QuietInv, Up
<1>4. live'.code = wish.code
  <2>1. CASE live = Absent
    <3>1. Exists(backup[p]) /\ backup[p].code = wish.code BY <1>3, <2>1
    <3>2. live' = backup[p] BY <2>1, <3>1 DEF Recover, Exists
    <3> QED BY <3>1, <3>2
  <2>2. CASE live # Absent
    <3>1. live.code = wish.code BY <1>1, <2>2 DEF QuietInv, Up
    <3>2. live' = live BY <2>2 DEF Recover, Exists
    <3> QED BY <3>1, <3>2
  <2> QED BY <2>1, <2>2
<1>5. mishaps' = 0 => \A q \in Promos : journal'[q] => Swapping(q)' BY <1>1 DEF QuietInv, Swapping
<1>6. ~Up /\ ~Up' /\ ~wish.lost BY <1>1, <1>2 DEF Up, QuietInv
<1> QED BY <1>1, <1>2, <1>4, <1>5, <1>6 DEF QuietInv

LEMMA ClearQuiet ==
  ASSUME Names, Bounds, IInv, QuietInv, ClearJournal \/ Opened PROVE QuietInv'
<1> USE DEF IInv, Typed
<1>1. live.code = wish.code BY CodeIs DEF QuietInv, ClearJournal, Opened, HasFiles, Exists, Up
<1>2. UNCHANGED <<live, stage, backup, thread, tomb, record, mishaps, wish>>
  BY DEF ClearJournal, Opened, files
<1>3. proc'.doing \in {"free", "recovering"} /\ ~Up /\ ~wish.lost
  <2>1. CASE ClearJournal
    <3>1. proc'.doing = "recovering" BY <2>1 DEF ClearJournal, Procs
    <3> QED BY <3>1, <2>1 DEF ClearJournal, Up, QuietInv
  <2>2. CASE Opened BY <2>2 DEF Opened, Free, Up, QuietInv
  <2> QED BY <2>1, <2>2
<1>4. \A p \in Promos : journal'[p] => journal[p] BY DEF ClearJournal, Opened, files
<1>5. mishaps' = 0 => \A p \in Promos : journal'[p] => Swapping(p)'
  BY <1>2, <1>4 DEF QuietInv, Swapping
<1> QED BY <1>1, <1>2, <1>3, <1>4, <1>5 DEF QuietInv

LEMMA SameQuiet == ASSUME QuietInv, UNCHANGED vars PROVE QuietInv'
BY DEF QuietInv, vars, Swapping, Up, Exists

-----------------------------------------------------------------------------
LEMMA QuietStep ==
  ASSUME Names, Bounds, OneByOne, IInv, OInv, [Next]_vars, Quiet' PROVE Quiet /\ QuietInv'
<1> USE DEF OInv
<1>1. wish \in Wishes BY DEF IInv, Typed
<1>2. ASSUME wish' = wish PROVE Quiet BY <1>2 DEF Quiet
<1>3. CASE UNCHANGED vars
  <2>1. Quiet BY <1>2, <1>3 DEF vars
  <2> QED BY <2>1, <1>3, SameQuiet
<1>4. ASSUME NEW p \in Promos, Stage(p) \/ Decide(p) PROVE Quiet /\ QuietInv'
  <2>1. Quiet BY <1>2, <1>4 DEF Stage, Decide
  <2> QED BY <2>1, <1>4, StageQuiet
<1>5. ASSUME NEW p \in Promos, MoveDirect(p) \/ MoveOut(p) \/ MoveIn(p) \/ MoveInFails(p)
      PROVE  Quiet /\ QuietInv'
  <2>1. wish' = wish \/ Publishes(p) \/ Loses BY <1>5 DEF MoveDirect, MoveOut, MoveIn, MoveInFails
  <2>2. Quiet BY <2>1, <1>1, <1>2, PublishesIs, LosesIs DEF Quiet, IInv
  <2> QED BY <2>2, <1>5, MoveDirectQuiet, MoveOutQuiet, MoveInQuiet, MoveInFailsQuiet
<1>6. ASSUME NEW p \in Promos, DropBackup(p) \/ DropJournal(p) PROVE Quiet /\ QuietInv'
  <2>1. Quiet BY <1>2, <1>6 DEF DropBackup, DropJournal
  <2> QED BY <2>1, <1>6, DropQuiet
<1>7. ASSUME NEW p \in Promos, Recover(p) PROVE Quiet /\ QuietInv'
  <2>1. Quiet BY <1>2, <1>7 DEF Recover
  <2> QED BY <2>1, <1>7, RecoverQuiet
<1>8. CASE ReadApps \/ AuthorizeWrite
  <2>1. Quiet BY <1>2, <1>8 DEF ReadApps, AuthorizeWrite
  <2> QED BY <2>1, <1>8, ReadQuiet
<1>9. CASE UpdateProperties
  <2>1. Quiet BY <1>1, <1>9 DEF UpdateProperties, Quiet, Wishes
  <2> QED BY <2>1, <1>9, EditQuiet
<1>10. CASE WriteFile
  <2>1. Quiet BY <1>1, <1>10 DEF WriteFile, Quiet, Wishes
  <2> QED BY <2>1, <1>10, WriteQuiet
<1>11. ASSUME NEW d \in Dels, DeleteRename(d) PROVE FALSE
  BY <1>1, <1>11 DEF DeleteRename, Quiet, Wishes
<1>12. CASE DeleteCommit \/ DeleteFails \/ DeleteDispose
  <2>1. wish'.asked = wish.asked /\ wish'.husk = wish.husk
    BY <1>1, <1>12, LosesIs DEF DeleteCommit, DeleteFails, DeleteDispose, Wishes
  <2> QED BY <2>1, <1>12 DEF DeleteCommit, DeleteFails, DeleteDispose, Quiet, QuietInv
<1>13. CASE Crash
  <2>1. Quiet BY <1>1, <1>13 DEF Crash, Quiet, Wishes
  <2> QED BY <2>1, <1>13, CrashQuiet
<1>14. CASE Restart
  <2>1. Quiet BY <1>2, <1>14 DEF Restart
  <2> QED BY <2>1, <1>14, RestartQuiet
<1>15. CASE ClearJournal \/ Opened
  <2>1. Quiet BY <1>2, <1>15 DEF ClearJournal, Opened
  <2> QED BY <2>1, <1>15, ClearQuiet
<1> QED BY <1>3, <1>4, <1>5, <1>6, <1>7, <1>8, <1>9, <1>10, <1>11, <1>12, <1>13, <1>14, <1>15 DEF Next

(* Of one promotion at a time: the invariant and what it says.             *)
LEMMA Init_OInv == ASSUME Init PROVE OInv
<1>1. OneThread BY DEF Init, OneThread, Active
<1>2. QuietInv BY DEF Init, QuietInv, Free, Up
<1> QED BY <1>1, <1>2 DEF OInv

LEMMA OInvStep == ASSUME Names, Bounds, OneByOne, IInv, OInv, [Next]_vars PROVE OInv'
<1>1. OneThread' BY OneThreadStep DEF OInv
<1>2. Quiet' => QuietInv' BY QuietStep
<1> QED BY <1>1, <1>2 DEF OInv

LEMMA PublishedFromOInv == ASSUME OInv PROVE LastPublished
<1> SUFFICES ASSUME Settled, Quiet, ~wish.lost PROVE live.code = wish.code
  BY DEF LastPublished, Quiet
<1>1. QuietInv BY DEF OInv
<1>2. Up BY DEF Settled, Idle, Up
<1>3. \A p \in Promos : thread[p] # "moved" BY DEF Settled
<1> QED BY <1>1, <1>2, <1>3, QuietUp DEF Out

(* While the promotions of an App follow each other and at most one thing  *)
(* goes wrong, the App in place is the one that was published last, as     *)
(* long as nobody asked to delete it and the rename that was to put it     *)
(* back did not fail as well: "No failure or cleanup path may delete or    *)
(* overwrite the last published App" (runs.md:39).                         *)
THEOREM LastPublishedHolds == ASSUME Names, Bounds, OneByOne PROVE Spec => []LastPublished
<1>1. Init => IInv /\ OInv BY Init_IInv, Init_OInv
<1>2. IInv /\ OInv /\ [Next]_vars => (IInv /\ OInv)' BY IInvStep, OInvStep
<1>3. IInv /\ OInv => LastPublished BY PublishedFromOInv
<1> QED BY <1>1, <1>2, <1>3, PTL DEF Spec

=============================================================================
