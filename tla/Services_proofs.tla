--------------------------- MODULE Services_proofs ---------------------------
(***************************************************************************)
(* Properties of the services (MCServices), for every value of the         *)
(* constants, over the behaviours that MCServices picks, in which the      *)
(* variables of a component are v1, v2, ...  The first two sections call   *)
(* those by the names that WidgetBuild and GraphFeed give them and are     *)
(* proved here; the others are proved in the modules of their components   *)
(* and carried over.                                                       *)
(***************************************************************************)
EXTENDS MCServices, TLAPS

-----------------------------------------------------------------------------
(***************************************************************************)
(* Chats that build and publish Apps in one graph (WidgetBuild), for any   *)
(* number of them, of fields, and of crashes, retries and cancellations.   *)
(*                                                                         *)
(* A writer thread may outlive the task that waits for it, so the Run, its *)
(* thread and the contract its user approved last are related by what each *)
(* may still do: the App goes live under the key of an attempt whose       *)
(* schema stands in the ledger, and until the Run has noted it neither its *)
(* checkpoint nor a retry can stage, fail or compensate that attempt.      *)
(***************************************************************************)
build == v1
writer == v2
ontology == v3
effects == v4
inUse == v5
liveApp == v6
consented == v7
harm == v8
USE DEF build, writer, ontology, effects, inUse, liveApp, consented, harm

Publishing == None \notin {"schema", "app"}

Sub == {"idle", "schema", "again", "app", "finish"}
Early == {"plan", "wait_plan", "align_schema", "wait_schema"}
Late == {"stage_code", "verify", "wait_override", "promote"}
Datas == [approved : SUBSET Build!Fields, contract : SUBSET Build!Fields,
          draft : (SUBSET Build!Fields) \cup {None}, passed : BOOLEAN]
Writers == {None, "schema", "app"}
Builds == [status : {"active", "done", "failed", "review", "cancelled"},
           phase : Early \cup Late, awaiting : {"no", "answer", "refine"}, sub : Sub,
           data : Datas, attempt : Nat, step : Nat, steps : Nat, committed : BOOLEAN]

(* What the Run of a builder, its thread and the contract that was         *)
(* approved last agree on.                                                 *)
Drafted(d) == d.draft # None
Within(d) == Drafted(d) => d.draft \subseteq d.contract
Sane(r, w, agreed) ==
  /\ r.phase \in Late /\ r.status # "cancelled" => r.data.contract = agreed
  /\ Drafted(r.data) => r.phase \in Late
  /\ r.data.passed => r.phase = "promote" /\ Within(r.data)
  /\ r.sub # "idle" => r.status = "active" /\ r.phase = "promote" /\ r.data.passed
  /\ r.sub = "schema" => w = "schema" /\ Drafted(r.data)
  /\ r.sub = "again" => w = "schema"
  /\ r.sub = "app" <=> w = "app" /\ r.status = "active" /\ r.sub # "idle"
  /\ r.sub = "finish" => w = None
  /\ w # None => r.status \in {"active", "review"} /\ r.phase = "promote"
  /\ w = "app" => Drafted(r.data) /\ r.data.passed
  /\ r.committed => r.status \notin {"failed", "cancelled"}

Entered(b) ==
  Build!Standing(Build!Key(b)) /\ effects[Build!Key(b)].fields = build[b].data.approved
Lives(b) == liveApp # None /\ liveApp.by = Build!Key(b)

(* The App of a builder goes live under a schema that stands ...           *)
Covered(b) == writer[b] = "app" => Entered(b) /\ (Lives(b) => build[b].committed)

(* ... and until its Run knows, its draft is gone and nothing is undone.   *)
Shown(b) ==
  LET r == build[b] IN
  Lives(b) =>
    /\ r.status \notin {"failed", "cancelled"}
    /\ Build!Standing(Build!Key(b)) \/ r.status = "review"
    /\ ~r.committed => /\ r.phase = "promote" /\ ~Drafted(r.data)
                       /\ r.status = "active" => r.data.passed /\ Entered(b)
Owned ==
  liveApp # None =>
    /\ \E b \in Builders : liveApp.by = Build!Key(b)
    /\ liveApp.fields \subseteq liveApp.contract

BInv ==
  /\ build \in [Builders -> Builds] /\ writer \in [Builders -> Writers]
  /\ consented \in [Builders -> SUBSET Build!Fields]
  /\ \A b \in Builders : Sane(build[b], writer[b], consented[b]) /\ Covered(b) /\ Shown(b)
  /\ Owned /\ Build!UsedFieldsStay

-----------------------------------------------------------------------------
(* A builder that moves disturbs no other: neither the Run and thread of   *)
(* another nor what the ledger has under its key.                          *)
SameEffects(b) ==
  \A k : k[1] # b =>
    /\ Build!Standing(k)' <=> Build!Standing(k)
    /\ Build!Standing(k) => effects'[k] = effects[k]
Moved(b, r) ==
  /\ Build!Becomes(b, r) /\ SameEffects(b)
  /\ writer' \in [Builders -> Writers] /\ consented' \in [Builders -> SUBSET Build!Fields]
  /\ \A o \in Builders : o # b => writer'[o] = writer[o] /\ consented'[o] = consented[o]

LEMMA OneMoves ==
  ASSUME BInv, NEW b \in Builders, NEW r \in Builds, Moved(b, r),
         \/ UNCHANGED liveApp /\ (Lives(b) => r.attempt = build[b].attempt)
         \/ liveApp'.by = Build!Key(b)' /\ liveApp'.fields \subseteq liveApp'.contract,
         Build!UsedFieldsStay',
         Sane(r, writer'[b], consented'[b]), Covered(b)', Shown(b)'
  PROVE  BInv'
<1>1. /\ build' \in [Builders -> Builds] /\ build'[b] = r
      /\ \A o \in Builders : o # b => build'[o] = build[o]
  BY DEF BInv, Moved, Build!Becomes
<1>2. ASSUME NEW o \in Builders, o # b
      PROVE  Sane(build'[o], writer'[o], consented'[o]) /\ Covered(o)' /\ Shown(o)'
  <2>1. build'[o] = build[o] /\ writer'[o] = writer[o] /\ consented'[o] = consented[o]
    BY <1>1, <1>2 DEF Moved
  <2>2. Build!Key(o)' = Build!Key(o) /\ Build!Key(o)[1] = o BY <2>1 DEF Build!Key
  <2>3. Lives(o)' => Lives(o)
    <3>1. Build!Key(b)'[1] = b BY DEF Build!Key
    <3> QED BY <1>2, <2>2, <3>1 DEF Lives
  <2>4. Build!Standing(Build!Key(o))' <=> Build!Standing(Build!Key(o))
    BY <1>2, <2>2 DEF Moved, SameEffects, Build!Standing
  <2>5. Build!Standing(Build!Key(o)) => effects'[Build!Key(o)'] = effects[Build!Key(o)]
    BY <1>2, <2>2 DEF Moved, SameEffects
  <2>6. Entered(o) => Entered(o)' BY <2>1, <2>4, <2>5 DEF Entered
  <2>7. Sane(build[o], writer[o], consented[o]) /\ Covered(o) /\ Shown(o) BY DEF BInv
  <2>8. Sane(build'[o], writer'[o], consented'[o]) BY <2>1, <2>7
  <2>9. Covered(o)' BY <2>1, <2>3, <2>6, <2>7 DEF Covered
  <2>10. Shown(o)' BY <2>1, <2>3, <2>4, <2>6, <2>7 DEF Shown
  <2> QED BY <2>8, <2>9, <2>10
<1>3. CASE liveApp'.by = Build!Key(b)' /\ liveApp'.fields \subseteq liveApp'.contract
  <2>1. Owned' BY <1>3 DEF Owned
  <2> QED BY <1>1, <1>2, <2>1 DEF BInv, Moved
<1>4. CASE UNCHANGED liveApp /\ (Lives(b) => r.attempt = build[b].attempt)
  <2> SUFFICES Owned' BY <1>1, <1>2 DEF BInv, Moved
  <2> SUFFICES ASSUME liveApp # None
               PROVE  /\ \E o \in Builders : liveApp.by = Build!Key(o)'
                      /\ liveApp.fields \subseteq liveApp.contract
    BY <1>4 DEF Owned
  <2>1. PICK o \in Builders : liveApp.by = Build!Key(o) BY DEF BInv, Owned
  <2>2. Build!Key(o)' = Build!Key(o)
    <3>1. CASE o = b BY <1>1, <1>4, <2>1, <3>1 DEF Lives, Build!Key
    <3>2. CASE o # b BY <1>1, <3>2 DEF Build!Key
    <3> QED BY <3>1, <3>2
  <2> QED BY <2>1, <2>2 DEF BInv, Owned
<1> QED BY <1>3, <1>4

(* Before publication, with the checkpoint in place, nothing is live but   *)
(* what the Run knows of.                                                  *)
LEMMA Prepares ==
  ASSUME Publishing, BInv, NEW b \in Builders, NEW r \in Builds, Build!Becomes(b, r),
         build[b].status = "active", build[b].sub = "idle", build[b].phase # "promote",
         UNCHANGED <<writer, ontology, effects, inUse, liveApp>>,
         consented' \in [Builders -> SUBSET Build!Fields],
         \A o \in Builders : o # b => consented'[o] = consented[o],
         r.attempt = build[b].attempt, r.committed = build[b].committed, r.sub = "idle",
         r.status = "active" \/ r.status = IF r.committed THEN "review" ELSE "failed",
         r.phase \in Late => r.data.contract = consented'[b],
         Drafted(r.data) => r.phase \in Late,
         r.data.passed => r.phase = "promote" /\ Within(r.data)
  PROVE  BInv'
<1>1. Sane(build[b], writer[b], consented[b]) /\ Shown(b) BY DEF BInv
<1>2. writer[b] = None BY <1>1 DEF Sane
<1>3. Moved(b, r)
  <2>1. SameEffects(b) BY DEF SameEffects, Build!Standing
  <2> QED BY <2>1 DEF Moved, BInv
<1>4. build'[b] = r BY DEF Build!Becomes, BInv
<1>5. Sane(r, writer'[b], consented'[b]) BY <1>1, <1>2 DEF Sane, Publishing
<1>6. Covered(b)' BY <1>2 DEF Covered, Publishing
<1>7. Shown(b)'
  <2>1. Build!Key(b)' = Build!Key(b) BY <1>4 DEF Build!Key
  <2>2. /\ Lives(b)' <=> Lives(b)
        /\ Build!Standing(Build!Key(b))' <=> Build!Standing(Build!Key(b))
    BY <2>1 DEF Lives, Build!Standing
  <2> QED BY <1>1, <1>4, <2>2 DEF Shown
<1>8. Build!UsedFieldsStay' BY DEF Build!UsedFieldsStay, BInv
<1> QED BY <1>3, <1>5, <1>6, <1>7, <1>8, OneMoves

LEMMA Fails ==
  ASSUME NEW r \in Builds
  PROVE  /\ Build!Failed(r) \in Builds /\ Build!Failed(r).sub = "idle"
         /\ Build!Failed(r).status = IF r.committed THEN "review" ELSE "failed"
         /\ Build!Failed(r).phase = r.phase /\ Build!Failed(r).data = r.data
         /\ Build!Failed(r).attempt = r.attempt /\ Build!Failed(r).committed = r.committed
<1> DEFINE one == [r EXCEPT !.sub = "idle"]
           to == IF r.committed THEN "review" ELSE "failed"
<1>1. /\ one \in Builds /\ one.sub = "idle" /\ one.phase = r.phase /\ one.data = r.data
      /\ one.attempt = r.attempt /\ one.committed = r.committed
  BY DEF Builds, Sub
<1>2. Build!Failed(r) = [one EXCEPT !.status = to] BY DEF Build!Failed
<1>3. to \in {"failed", "review"} OBVIOUS
<1> HIDE DEF one, to
<1>4. /\ Build!Failed(r) \in Builds /\ Build!Failed(r).sub = "idle"
      /\ Build!Failed(r).status = to
      /\ Build!Failed(r).phase = r.phase /\ Build!Failed(r).data = r.data
      /\ Build!Failed(r).attempt = r.attempt /\ Build!Failed(r).committed = r.committed
  BY <1>1, <1>2, <1>3 DEF Builds
<1> QED BY <1>4 DEF to

LEMMA TakenIs ==
  ASSUME BInv, NEW b \in Builders
  PROVE  /\ build[b] \in Builds /\ Build!Taken(b) \in Builds
         /\ Build!Taken(b).sub = build[b].sub /\ Build!Taken(b).status = build[b].status
         /\ Build!Taken(b).phase = build[b].phase /\ Build!Taken(b).data = build[b].data
         /\ Build!Taken(b).attempt = build[b].attempt
         /\ Build!Taken(b).committed = build[b].committed
BY DEF BInv, Builds, Build!Taken

(* A phase that says nothing new about the App: its data stay.             *)
Aside == UNCHANGED <<writer, ontology, effects, inUse, liveApp, consented>>

LEMMA KeepsData ==
  ASSUME Publishing, BInv, NEW b \in Builders, NEW r \in Builds, Build!Becomes(b, r), Aside,
         NEW from, Build!In(b, from), from # "promote", r.phase \in Late <=> from \in Late,
         r.data = build[b].data, r.attempt = build[b].attempt,
         r.committed = build[b].committed, r.sub = "idle",
         r.status = "active" \/ r.status = IF r.committed THEN "review" ELSE "failed"
  PROVE  BInv'
<1>1. build[b].status = "active" /\ build[b].phase = from /\ build[b].sub = "idle"
  BY DEF Build!In
<1>2. Sane(build[b], writer[b], consented[b]) BY DEF BInv
<1>3. /\ r.phase \in Late => r.data.contract = consented'[b]
      /\ Drafted(r.data) => r.phase \in Late
      /\ r.data.passed => r.phase = "promote" /\ Within(r.data)
  BY <1>1, <1>2 DEF Sane, Aside
<1>4. /\ consented' \in [Builders -> SUBSET Build!Fields]
      /\ \A o \in Builders : o # b => consented'[o] = consented[o]
  BY DEF Aside, BInv
<1> QED BY <1>1, <1>3, <1>4, Prepares DEF Aside

LEMMA AsksStays ==
  ASSUME Publishing, BInv, NEW b \in Builders, NEW from, Build!In(b, from), from # "promote",
         NEW to \in {"wait_plan", "wait_schema", "wait_override"}, to \in Late <=> from \in Late,
         Build!Asks(b, to), Aside
  PROVE  BInv'
<1> DEFINE one == [build[b] EXCEPT !.phase = to]
           r == [one EXCEPT !.awaiting = "answer"]
<1>1. build[b] \in Builds /\ build[b].status = "active" /\ build[b].sub = "idle"
  BY DEF BInv, Build!In
<1>2. /\ one \in Builds /\ one.phase = to /\ one.data = build[b].data
      /\ one.attempt = build[b].attempt /\ one.committed = build[b].committed
      /\ one.status = "active" /\ one.sub = "idle"
  BY <1>1 DEF Builds, Early, Late
<1>3. Build!Becomes(b, r) BY DEF Build!Asks
<1> HIDE DEF one
<1>4. /\ r \in Builds /\ r.phase = to /\ r.data = build[b].data
      /\ r.attempt = build[b].attempt /\ r.committed = build[b].committed
      /\ r.status = "active" /\ r.sub = "idle"
  BY <1>2 DEF Builds
<1> HIDE DEF r
<1> QED BY <1>3, <1>4, KeepsData

LEMMA FailsStays ==
  ASSUME Publishing, BInv, NEW b \in Builders, NEW from, Build!In(b, from), from # "promote",
         NEW old \in {build[b], Build!Taken(b)}, NEW r, r = Build!Failed(old),
         Build!Becomes(b, r), Aside
  PROVE  BInv'
<1>1. /\ old \in Builds /\ old.phase = from /\ old.data = build[b].data
      /\ old.attempt = build[b].attempt /\ old.committed = build[b].committed
  BY TakenIs DEF Build!In
<1>2. /\ r \in Builds /\ r.phase = from /\ r.data = build[b].data /\ r.sub = "idle"
      /\ r.attempt = build[b].attempt /\ r.committed = build[b].committed
      /\ r.status = IF r.committed THEN "review" ELSE "failed"
  BY <1>1, Fails
<1> QED BY <1>2, KeepsData

LEMMA GoesStays ==
  ASSUME Publishing, BInv, NEW b \in Builders, NEW from, Build!In(b, from), from # "promote",
         NEW to \in Early \cup Late, to \in Late <=> from \in Late,
         NEW r, r = [Build!Taken(b) EXCEPT !.phase = to], Build!Becomes(b, r), Aside
  PROVE  BInv'
<1>1. build[b].status = "active" /\ build[b].sub = "idle" BY DEF Build!In
<1>2. /\ r \in Builds /\ r.phase = to /\ r.data = build[b].data /\ r.sub = "idle"
      /\ r.attempt = build[b].attempt /\ r.committed = build[b].committed
      /\ r.status = "active"
  BY <1>1, TakenIs DEF Builds
<1> QED BY <1>2, KeepsData

LEMMA PlanStays ==
  ASSUME Publishing, BInv, NEW b \in Builders,
         Build!ProposePlan(b) \/ Build!AnswerPlan(b) \/ Build!PlanUnresolved(b)
  PROVE  BInv'
<1> USE DEF Aside, Build!Alone, Build!SendsBack, Build!shared, Early, Late
<1>1. CASE Build!ProposePlan(b) BY <1>1, AsksStays DEF Build!ProposePlan
<1>2. CASE Build!PlanUnresolved(b) BY <1>2, FailsStays DEF Build!PlanUnresolved
<1>3. CASE Build!AnswerPlan(b)
  <2>1. Build!In(b, "wait_plan") BY <1>3 DEF Build!AnswerPlan, Build!Answered
  <2>2. CASE Build!Asks(b, "wait_plan") /\ Aside BY <2>1, <2>2, AsksStays
  <2>3. CASE Build!Becomes(b, Build!Failed(Build!Taken(b))) /\ Aside BY <2>1, <2>3, FailsStays
  <2>4. CASE Build!Becomes(b, [Build!Taken(b) EXCEPT !.phase = "align_schema"]) /\ Aside
    BY <2>1, <2>4, GoesStays
  <2> QED BY <1>3, <2>2, <2>3, <2>4 DEF Build!AnswerPlan
<1> QED BY <1>1, <1>2, <1>3

LEMMA SchemaStays ==
  ASSUME Publishing, BInv, NEW b \in Builders,
         Build!ProposeSchema(b) \/ Build!AnswerSchema(b) \/ Build!SchemaUnresolved(b)
  PROVE  BInv'
<1> USE DEF Aside, Build!Alone, Build!SendsBack, Build!shared, Early, Late
<1>1. CASE Build!ProposeSchema(b) BY <1>1, AsksStays DEF Build!ProposeSchema
<1>2. CASE Build!SchemaUnresolved(b)
  <2>1. Build!In(b, "wait_schema") /\ Aside BY <1>2 DEF Build!SchemaUnresolved
  <2>2. CASE Build!Asks(b, "wait_schema") BY <2>1, <2>2, AsksStays
  <2>3. CASE Build!Becomes(b, Build!Failed(build[b])) BY <2>1, <2>3, FailsStays
  <2> QED BY <1>2, <2>2, <2>3 DEF Build!SchemaUnresolved
<1>3. CASE Build!AnswerSchema(b)
  <2>1. Build!In(b, "wait_schema") BY <1>3 DEF Build!AnswerSchema, Build!Answered
  <2>2. CASE Build!Asks(b, "wait_schema") /\ Aside BY <2>1, <2>2, AsksStays
  <2>3. CASE Build!Becomes(b, Build!Failed(Build!Taken(b))) /\ Aside BY <2>1, <2>3, FailsStays
  <2>4. CASE Build!Becomes(b, [Build!Taken(b) EXCEPT !.phase = "plan"]) /\ Aside
    BY <2>1, <2>4, GoesStays
  <2>5. CASE /\ Build!Becomes(b, [Build!Failed(Build!Taken(b)) EXCEPT !.awaiting = "refine"])
             /\ Aside
    <3> DEFINE old == Build!Failed(Build!Taken(b))
               r == [old EXCEPT !.awaiting = "refine"]
    <3>1. /\ old \in Builds /\ old.phase = "wait_schema" /\ old.data = build[b].data
          /\ old.sub = "idle" /\ old.status = IF old.committed THEN "review" ELSE "failed"
          /\ old.attempt = build[b].attempt /\ old.committed = build[b].committed
      BY <2>1, TakenIs, Fails DEF Build!In
    <3>2. Build!Becomes(b, r) BY <2>5
    <3> HIDE DEF old
    <3>3. /\ r \in Builds /\ r.phase = "wait_schema" /\ r.data = build[b].data
          /\ r.sub = "idle" /\ r.status = IF r.committed THEN "review" ELSE "failed"
          /\ r.attempt = build[b].attempt /\ r.committed = build[b].committed
      BY <3>1 DEF Builds
    <3> HIDE DEF r
    <3> QED BY <2>1, <2>5, <3>2, <3>3, KeepsData
  <2> QED BY <1>3, <2>2, <2>3, <2>4, <2>5 DEF Build!AnswerSchema
<1> QED BY <1>1, <1>2, <1>3

(* The contract is what the user approved, with what the entity has.       *)
LEMMA ApproveStays ==
  ASSUME Publishing, BInv, NEW b \in Builders, NEW fields \in SUBSET Build!Fields,
         Build!ApproveSchema(b, fields)
  PROVE  BInv'
<1> DEFINE contract == fields \cup (ontology \cap Extensions)
           old == build[b].data
           chosen == [old EXCEPT !.approved = fields]
           data == [chosen EXCEPT !.contract = contract]
           one == [Build!Taken(b) EXCEPT !.phase = "stage_code"]
           r == [one EXCEPT !.data = data]
<1>1. Build!In(b, "wait_schema") BY DEF Build!ApproveSchema, Build!Answered
<1>2. CASE ~Build!Feasible(fields)
  <2>1. Build!Asks(b, "wait_schema") /\ Aside
    BY <1>2 DEF Build!ApproveSchema, Build!SendsBack, Aside, Build!shared
  <2> QED BY <1>1, <2>1, AsksStays DEF Early, Late
<1>3. CASE Build!Feasible(fields)
  <2>1. /\ Build!Taken(b) \in Builds /\ Build!Taken(b).sub = "idle" /\ Build!Taken(b).data = old
        /\ Build!Taken(b).status = "active" /\ Build!Taken(b).attempt = build[b].attempt
        /\ Build!Taken(b).committed = build[b].committed
    BY <1>1, TakenIs DEF Build!In
  <2>2. build[b] \in Builds /\ build[b].phase = "wait_schema" BY <1>1 DEF BInv, Build!In
  <2>3. old \in Datas /\ contract \in SUBSET Build!Fields BY <2>2 DEF Builds, Build!Fields
  <2>4. ~Drafted(old) /\ ~old.passed
    <3>1. Sane(build[b], writer[b], consented[b]) BY DEF BInv
    <3> QED BY <2>2, <3>1 DEF Sane, Late
  <2>5. r = [Build!Taken(b) EXCEPT !.phase = "stage_code", !.data.approved = fields,
                             !.data.contract = contract]
    BY <2>1 DEF Builds, Datas
  <2>6. /\ Build!Becomes(b, r) /\ consented' = [consented EXCEPT ![b] = contract]
        /\ UNCHANGED <<writer, ontology, effects, inUse, liveApp>>
    BY <1>3, <2>5 DEF Build!ApproveSchema
  <2> HIDE DEF contract, old
  <2>7. chosen \in Datas /\ chosen.draft = old.draft /\ chosen.passed = old.passed
    BY <2>3 DEF Datas
  <2> HIDE DEF chosen
  <2>8. /\ data \in Datas /\ data.draft = old.draft /\ data.passed = old.passed
        /\ data.contract = contract
    BY <2>3, <2>7 DEF Datas
  <2> HIDE DEF data
  <2>9. /\ one \in Builds /\ one.sub = "idle" /\ one.phase = "stage_code"
        /\ one.status = "active" /\ one.attempt = build[b].attempt
        /\ one.committed = build[b].committed
    BY <2>1 DEF Builds, Late
  <2> HIDE DEF one
  <2>10. /\ r \in Builds /\ r.sub = "idle" /\ r.phase = "stage_code"
         /\ r.status = "active" /\ r.attempt = build[b].attempt /\ r.data = data
         /\ r.committed = build[b].committed
    BY <2>8, <2>9 DEF Builds
  <2> HIDE DEF r
  <2>11. ~Drafted(r.data) /\ ~r.data.passed BY <2>4, <2>8, <2>10 DEF Drafted
  <2>12. /\ consented' \in [Builders -> SUBSET Build!Fields] /\ consented'[b] = contract
         /\ \A o \in Builders : o # b => consented'[o] = consented[o]
    BY <2>3, <2>6 DEF BInv
  <2>13. /\ build[b].status = "active" /\ build[b].sub = "idle"
         /\ build[b].phase # "promote"
    BY <1>1 DEF Build!In
  <2> QED BY <2>6, <2>8, <2>10, <2>11, <2>12, <2>13, Prepares
<1> QED BY <1>2, <1>3

LEMMA StageStays ==
  ASSUME Publishing, BInv, NEW b \in Builders, NEW fields \in SUBSET Build!Fields,
         Build!StageCode(b, fields)
  PROVE  BInv'
<1> DEFINE data == [build[b].data EXCEPT !.draft = fields]
           staged == [build[b] EXCEPT !.data = data]
<1>1. Build!In(b, "stage_code") /\ Aside BY DEF Build!StageCode, Build!Alone, Aside, Build!shared
<1>2. build[b] \in Builds /\ Sane(build[b], writer[b], consented[b]) BY DEF BInv
<1>3. /\ build[b].status = "active" /\ build[b].sub = "idle" /\ build[b].phase = "stage_code"
      /\ ~build[b].data.passed /\ build[b].data.contract = consented[b]
  BY <1>1, <1>2 DEF Build!In, Sane, Late
<1>4. /\ data \in Datas /\ data.contract = consented[b] /\ ~data.passed
  BY <1>2, <1>3 DEF Builds, Datas
<1>5. staged = [build[b] EXCEPT !.data.draft = fields] BY <1>2 DEF Builds
<1>6. \/ Build!Becomes(b, [staged EXCEPT !.phase = "verify"])
      \/ Build!Becomes(b, Build!Failed(staged)) \/ Build!Becomes(b, Build!Failed(build[b]))
  BY <1>5 DEF Build!StageCode
<1> HIDE DEF data
<1>7. /\ staged \in Builds /\ staged.status = "active" /\ staged.sub = "idle"
      /\ staged.phase = "stage_code" /\ staged.data = data
      /\ staged.attempt = build[b].attempt /\ staged.committed = build[b].committed
  BY <1>2, <1>3, <1>4 DEF Builds
<1> HIDE DEF staged
<1>8. ASSUME NEW r \in Builds, Build!Becomes(b, r), r.phase \in Late, r.data = data,
             r.attempt = build[b].attempt, r.committed = build[b].committed, r.sub = "idle",
             r.status = "active" \/ r.status = IF r.committed THEN "review" ELSE "failed"
      PROVE  BInv'
  <2>1. /\ consented' \in [Builders -> SUBSET Build!Fields] /\ r.data.contract = consented'[b]
        /\ \A o \in Builders : o # b => consented'[o] = consented[o]
    BY <1>1, <1>4, <1>8 DEF Aside, BInv
  <2>2. UNCHANGED <<writer, ontology, effects, inUse, liveApp>> BY <1>1 DEF Aside
  <2> QED BY <1>3, <1>4, <1>8, <2>1, <2>2, Prepares
<1>9. CASE Build!Becomes(b, [staged EXCEPT !.phase = "verify"])
  <2> DEFINE r == [staged EXCEPT !.phase = "verify"]
  <2>1. /\ r \in Builds /\ r.status = "active" /\ r.sub = "idle" /\ r.phase \in Late
        /\ r.data = data /\ r.attempt = build[b].attempt /\ r.committed = build[b].committed
    BY <1>7 DEF Builds, Late
  <2>2. Build!Becomes(b, r) BY <1>9
  <2> HIDE DEF r
  <2> QED BY <1>8, <2>1, <2>2
<1>10. CASE Build!Becomes(b, Build!Failed(staged))
  <2>1. /\ Build!Failed(staged) \in Builds /\ Build!Failed(staged).sub = "idle"
        /\ Build!Failed(staged).phase \in Late /\ Build!Failed(staged).data = data
        /\ Build!Failed(staged).attempt = build[b].attempt
        /\ Build!Failed(staged).committed = build[b].committed
        /\ Build!Failed(staged).status =
             IF Build!Failed(staged).committed THEN "review" ELSE "failed"
    BY <1>7, Fails DEF Late
  <2> QED BY <1>8, <1>10, <2>1
<1>11. CASE Build!Becomes(b, Build!Failed(build[b])) BY <1>1, <1>11, FailsStays
<1> QED BY <1>6, <1>9, <1>10, <1>11

(* A draft that is passed keeps to the contract.                           *)
LEMMA VerifyStays == ASSUME Publishing, BInv, NEW b \in Builders, Build!Verify(b) PROVE BInv'
<1> DEFINE data == [build[b].data EXCEPT !.passed = TRUE]
           one == [build[b] EXCEPT !.phase = "promote"]
           r == [one EXCEPT !.data = data]
<1>1. Build!In(b, "verify") /\ Aside BY DEF Build!Verify, Build!Alone, Aside, Build!shared
<1>2. build[b] \in Builds /\ Sane(build[b], writer[b], consented[b]) BY DEF BInv
<1>3. CASE build[b].data.draft = None
  <2>1. Build!Becomes(b, Build!Failed(build[b])) BY <1>3 DEF Build!Verify
  <2> QED BY <1>1, <2>1, FailsStays
<1>4. CASE Build!Asks(b, "wait_override") BY <1>1, <1>4, AsksStays DEF Late
<1>5. CASE /\ build[b].data.draft \subseteq build[b].data.contract
           /\ Build!Becomes(b, [build[b] EXCEPT !.phase = "promote", !.data.passed = TRUE])
  <2>1. r = [build[b] EXCEPT !.phase = "promote", !.data.passed = TRUE]
    BY <1>2 DEF Builds
  <2>2. Build!Becomes(b, r) BY <1>5, <2>1
  <2>3. /\ build[b].status = "active" /\ build[b].sub = "idle"
        /\ build[b].phase = "verify" /\ build[b].data.contract = consented[b]
    BY <1>1, <1>2 DEF Build!In, Sane, Late
  <2>4. data \in Datas /\ data.contract = consented[b] /\ Within(data)
    BY <1>2, <1>5, <2>3 DEF Builds, Datas, Within
  <2> HIDE DEF data
  <2>5. /\ one \in Builds /\ one.status = "active" /\ one.sub = "idle"
        /\ one.phase = "promote" /\ one.attempt = build[b].attempt
        /\ one.committed = build[b].committed
    BY <1>2, <2>3 DEF Builds, Late
  <2> HIDE DEF one
  <2>6. /\ r \in Builds /\ r.status = "active" /\ r.sub = "idle" /\ r.phase = "promote"
        /\ r.attempt = build[b].attempt /\ r.committed = build[b].committed /\ r.data = data
    BY <2>4, <2>5 DEF Builds
  <2> HIDE DEF r
  <2>7. /\ consented' \in [Builders -> SUBSET Build!Fields] /\ r.data.contract = consented'[b]
        /\ \A o \in Builders : o # b => consented'[o] = consented[o]
    BY <1>1, <2>4, <2>6 DEF Aside, BInv
  <2>8. UNCHANGED <<writer, ontology, effects, inUse, liveApp>> BY <1>1 DEF Aside
  <2>9. "promote" \in Late BY DEF Late
  <2> QED BY <2>2, <2>3, <2>4, <2>6, <2>7, <2>8, <2>9, Prepares
<1> QED BY <1>3, <1>4, <1>5 DEF Build!Verify

LEMMA FindingsStay ==
  ASSUME Publishing, BInv, NEW b \in Builders, Build!AnswerFindings(b)
  PROVE  BInv'
<1> USE DEF Aside, Build!Alone, Build!SendsBack, Build!shared
<1>1. Build!In(b, "wait_override") /\ Aside BY DEF Build!AnswerFindings, Build!Answered
<1>2. build[b] \in Builds /\ Sane(build[b], writer[b], consented[b]) BY DEF BInv
<1>3. /\ Build!Taken(b) \in Builds /\ Build!Taken(b).status = "active"
      /\ Build!Taken(b).sub = "idle"
      /\ Build!Taken(b).data = build[b].data /\ Build!Taken(b).attempt = build[b].attempt
      /\ Build!Taken(b).committed = build[b].committed
      /\ build[b].status = "active" /\ build[b].sub = "idle"
      /\ build[b].phase = "wait_override" /\ build[b].data.contract = consented[b]
  BY <1>1, <1>2, TakenIs DEF Build!In, Sane, Late
<1>4. /\ consented' \in [Builders -> SUBSET Build!Fields] /\ consented'[b] = consented[b]
      /\ \A o \in Builders : o # b => consented'[o] = consented[o]
  BY <1>1 DEF BInv
<1>5. ASSUME NEW r \in Builds, Build!Becomes(b, r), r.status = "active", r.sub = "idle",
             r.attempt = build[b].attempt, r.committed = build[b].committed, ~r.data.passed,
             \/ r.phase \in Early /\ ~Drafted(r.data)
             \/ r.phase = "stage_code" /\ r.data.contract = consented[b]
      PROVE  BInv'
  <2>1. /\ r.phase \in Late => r.data.contract = consented'[b]
        /\ Drafted(r.data) => r.phase \in Late
    BY <1>4, <1>5 DEF Early, Late
  <2> QED BY <1>1, <1>3, <1>4, <1>5, <2>1, Prepares
<1>6. CASE Build!Becomes(b, Build!Overridden(build[b]))
  <2>1. Build!Becomes(b, build[b]) BY <1>6 DEF Build!Overridden
  <2> QED BY <1>1, <1>2, <1>3, <2>1, KeepsData
<1>7. CASE Build!Becomes(b, Build!Failed(Build!Taken(b))) BY <1>1, <1>7, FailsStays
<1>8. CASE Build!Becomes(b, [Build!Taken(b) EXCEPT !.phase = "stage_code",
                                       !.data.passed = FALSE])
  <2> DEFINE data == [build[b].data EXCEPT !.passed = FALSE]
             one == [Build!Taken(b) EXCEPT !.phase = "stage_code"]
             r == [one EXCEPT !.data = data]
  <2>1. r = [Build!Taken(b) EXCEPT !.phase = "stage_code", !.data.passed = FALSE]
    BY <1>3 DEF Builds
  <2>2. Build!Becomes(b, r) BY <1>8, <2>1
  <2>3. data \in Datas /\ data.contract = consented[b] /\ ~data.passed
    BY <1>2, <1>3 DEF Builds, Datas
  <2> HIDE DEF data
  <2>4. /\ one \in Builds /\ one.status = "active" /\ one.sub = "idle"
        /\ one.phase = "stage_code" /\ one.attempt = build[b].attempt
        /\ one.committed = build[b].committed
    BY <1>3 DEF Builds, Late
  <2> HIDE DEF one
  <2>5. /\ r \in Builds /\ r.status = "active" /\ r.sub = "idle" /\ r.phase = "stage_code"
        /\ r.attempt = build[b].attempt /\ r.committed = build[b].committed /\ r.data = data
    BY <2>3, <2>4 DEF Builds
  <2> HIDE DEF r
  <2> QED BY <1>5, <2>2, <2>3, <2>5
<1>9. ASSUME NEW to \in Early,
             Build!Becomes(b, [Build!Taken(b) EXCEPT !.phase = to, !.data = Build!Blank])
      PROVE  BInv'
  <2> DEFINE one == [Build!Taken(b) EXCEPT !.phase = to]
             r == [one EXCEPT !.data = Build!Blank]
  <2>1. Build!Blank \in Datas /\ ~Build!Blank.passed /\ ~Drafted(Build!Blank)
    BY DEF Build!Blank, Datas, Drafted
  <2>2. /\ one \in Builds /\ one.status = "active" /\ one.sub = "idle" /\ one.phase = to
        /\ one.attempt = build[b].attempt /\ one.committed = build[b].committed
    BY <1>3 DEF Builds
  <2>3. Build!Becomes(b, r) BY <1>9
  <2> HIDE DEF one
  <2>4. /\ r \in Builds /\ r.status = "active" /\ r.sub = "idle" /\ r.phase = to
        /\ r.attempt = build[b].attempt /\ r.committed = build[b].committed
        /\ r.data = Build!Blank
    BY <2>1, <2>2 DEF Builds
  <2> HIDE DEF r
  <2> QED BY <1>5, <2>1, <2>3, <2>4
<1> QED BY <1>6, <1>7, <1>8, <1>9 DEF Build!AnswerFindings, Early

-----------------------------------------------------------------------------
(* Publication.                                                            *)
LEMMA Only ==
  ASSUME BInv, NEW b \in Builders, NEW r \in Builds, Build!Becomes(b, r),
         UNCHANGED <<effects, liveApp, ontology, inUse, consented>>,
         NEW w \in Writers, writer' = [writer EXCEPT ![b] = w]
  PROVE  /\ Moved(b, r) /\ Build!UsedFieldsStay' /\ build'[b] = r /\ writer'[b] = w
         /\ \A k : Build!Standing(k)' <=> Build!Standing(k)
         /\ r.attempt = build[b].attempt =>
              Build!Key(b)' = Build!Key(b) /\ (Lives(b)' <=> Lives(b))
<1>1. SameEffects(b) /\ \A k : Build!Standing(k)' <=> Build!Standing(k)
  BY DEF SameEffects, Build!Standing
<1>2. build'[b] = r /\ writer'[b] = w BY DEF Build!Becomes, BInv
<1>3. r.attempt = build[b].attempt => Build!Key(b)' = Build!Key(b) /\ (Lives(b)' <=> Lives(b))
  BY <1>2 DEF Build!Key, Lives
<1>4. Moved(b, r) BY <1>1 DEF Moved, BInv
<1>5. Build!UsedFieldsStay' BY DEF BInv, Build!UsedFieldsStay
<1> QED BY <1>1, <1>2, <1>3, <1>4, <1>5

LEMMA BeginStays ==
  ASSUME Publishing, BInv, NEW b \in Builders, Build!BeginPublish(b)
  PROVE  BInv'
<1> DEFINE to == IF Build!Recovered(b) THEN "again" ELSE "schema"
           r == [build[b] EXCEPT !.sub = to]
<1>1. /\ build[b] \in Builds /\ Sane(build[b], writer[b], consented[b])
      /\ Covered(b) /\ Shown(b)
  BY DEF BInv
<1>2. /\ build[b].status = "active" /\ build[b].phase = "promote" /\ build[b].sub = "idle"
      /\ writer[b] = None /\ UNCHANGED <<effects, liveApp, ontology, inUse, consented>>
  BY DEF Build!BeginPublish, Build!In, Build!shared
<1>3. CASE build[b].data.passed /\ (Build!Recovered(b) \/ build[b].data.draft # None)
  <2>1. Build!Becomes(b, r) /\ writer' = [writer EXCEPT ![b] = "schema"]
    BY <1>3 DEF Build!BeginPublish
  <2>2. to \in {"again", "schema"} /\ (to = "schema" => Drafted(build[b].data))
    BY <1>3 DEF Drafted
  <2> HIDE DEF to
  <2>3. /\ r \in Builds /\ r.sub = to /\ r.status = "active" /\ r.phase = "promote"
        /\ r.data = build[b].data /\ r.attempt = build[b].attempt
        /\ r.committed = build[b].committed
    BY <1>1, <1>2, <2>2 DEF Builds, Sub
  <2> HIDE DEF r
  <2>4. /\ Moved(b, r) /\ Build!UsedFieldsStay' /\ build'[b] = r /\ writer'[b] = "schema"
        /\ \A k : Build!Standing(k)' <=> Build!Standing(k)
        /\ Build!Key(b)' = Build!Key(b) /\ (Lives(b)' <=> Lives(b))
    BY <1>2, <2>1, <2>3, Only DEF Writers
  <2>5. Sane(r, writer'[b], consented'[b])
    BY <1>1, <1>2, <1>3, <2>2, <2>3, <2>4 DEF Sane, Publishing
  <2>6. Covered(b)' BY <2>4 DEF Covered
  <2>7. Entered(b)' <=> Entered(b) BY <1>2, <2>3, <2>4 DEF Entered
  <2>8. Shown(b)' BY <1>1, <1>2, <2>3, <2>4, <2>7 DEF Shown
  <2> QED BY <1>2, <2>3, <2>4, <2>5, <2>6, <2>8, OneMoves
<1>4. CASE ~(build[b].data.passed /\ (Build!Recovered(b) \/ build[b].data.draft # None))
  <2> DEFINE failed == Build!Failed(build[b])
  <2>1. Build!Becomes(b, failed) /\ writer' = [writer EXCEPT ![b] = None]
    BY <1>2, <1>4 DEF Build!BeginPublish, BInv
  <2>2. /\ failed \in Builds /\ failed.sub = "idle" /\ failed.phase = "promote"
        /\ failed.status = IF failed.committed THEN "review" ELSE "failed"
        /\ failed.data = build[b].data /\ failed.attempt = build[b].attempt
        /\ failed.committed = build[b].committed
    BY <1>1, <1>2, Fails
  <2> HIDE DEF failed
  <2>3. /\ Moved(b, failed) /\ Build!UsedFieldsStay' /\ build'[b] = failed /\ writer'[b] = None
        /\ \A k : Build!Standing(k)' <=> Build!Standing(k)
        /\ Build!Key(b)' = Build!Key(b) /\ (Lives(b)' <=> Lives(b))
    BY <1>2, <2>1, <2>2, Only DEF Writers
  <2>4. Sane(failed, writer'[b], consented'[b])
    BY <1>1, <1>2, <2>2, <2>3 DEF Sane, Publishing
  <2>5. Covered(b)' BY <2>3 DEF Covered, Publishing
  <2>6. Lives(b) => build[b].committed
    BY <1>1, <1>2, <1>4 DEF Shown, Lives, Build!Recovered, Drafted
  <2>7. Shown(b)' BY <2>2, <2>3, <2>6 DEF Shown
  <2> QED BY <1>2, <2>2, <2>3, <2>4, <2>5, <2>7, OneMoves
<1> QED BY <1>3, <1>4

(* The schema is committed once per key, and the thread goes on to the App *)
(* only while its task waits for it.                                       *)
LEMMA CommitStays ==
  ASSUME Publishing, BInv, NEW b \in Builders, Build!CommitSchema(b)
  PROVE  BInv'
<1> DEFINE fields == build[b].data.approved
           ok == Build!Accepted(Build!Key(b), fields)
           to == IF Build!Waits(b, "again") THEN "finish" ELSE "app"
           w == IF Build!Waits(b, "schema") /\ ok /\ to = "app" THEN to ELSE None
<1>1. /\ build[b] \in Builds /\ Sane(build[b], writer[b], consented[b])
      /\ Covered(b) /\ Shown(b) /\ Build!UsedFieldsStay
  BY DEF BInv
<1>2. /\ writer[b] = "schema" /\ writer' = [writer EXCEPT ![b] = w]
      /\ UNCHANGED <<inUse, liveApp, consented>>
      /\ w \in Writers
  BY DEF Build!CommitSchema, Writers
<1>3. IF ok /\ ~Build!Standing(Build!Key(b))
      THEN /\ ontology' = ontology \cup fields
           /\ Build!Record(Build!Key(b), Build!Extension(fields))
      ELSE UNCHANGED <<ontology, effects>>
  BY DEF Build!CommitSchema
<1>4. PICK key : key = Build!Key(b) OBVIOUS
<1>5. key[1] = b BY <1>4 DEF Build!Key
<1>6. /\ SameEffects(b) /\ (Build!Standing(key) => Build!Standing(key)')
      /\ (Build!Standing(key) => effects'[key] = effects[key])
      /\ (ok => Build!Standing(key)' /\ effects'[key].fields = fields)
      /\ Build!UsedFieldsStay'
  <2>1. CASE ok /\ ~Build!Standing(key)
    <3> DEFINE e == Build!Extension(fields)
    <3>1. e.fields = fields /\ e.compensated = FALSE BY DEF Build!Extension
    <3>2. Build!Record(key, e) /\ ontology \subseteq ontology' BY <1>3, <1>4, <2>1
    <3> HIDE DEF e
    <3>3. /\ DOMAIN effects' = DOMAIN effects \cup {key} /\ effects'[key] = e
          /\ \A k \in DOMAIN effects : k # key => effects'[k] = effects[k]
      BY <3>2 DEF Build!Record
    <3>4. SameEffects(b)
      <4> SUFFICES ASSUME NEW k, k[1] # b
                   PROVE  /\ Build!Standing(k)' <=> Build!Standing(k)
                          /\ Build!Standing(k) => effects'[k] = effects[k]
        BY DEF SameEffects
      <4>1. k # key BY <1>5
      <4> QED BY <3>3, <4>1 DEF Build!Standing
    <3>5. Build!Standing(key)' /\ effects'[key].fields = fields
      BY <3>1, <3>3 DEF Build!Standing
    <3> QED BY <1>1, <1>2, <2>1, <3>2, <3>4, <3>5 DEF Build!UsedFieldsStay
  <2>2. CASE ~(ok /\ ~Build!Standing(key))
    <3>1. UNCHANGED <<ontology, effects>> BY <1>3, <1>4, <2>2
    <3>2. ok => Build!Standing(key) /\ effects[key].fields = fields
      BY <1>4, <2>2 DEF Build!Accepted
    <3>3. \A k : Build!Standing(k)' <=> Build!Standing(k) BY <3>1 DEF Build!Standing
    <3>4. Build!UsedFieldsStay' BY <1>1, <1>2, <3>1 DEF Build!UsedFieldsStay
    <3> QED BY <3>1, <3>2, <3>3, <3>4 DEF SameEffects
  <2> QED BY <2>1, <2>2
<1>7. ASSUME NEW r \in Builds, Build!Becomes(b, r), r.attempt = build[b].attempt,
             Sane(r, w, consented[b]), w = "app" => Entered(b)' /\ (Lives(b)' => r.committed),
             Shown(b)'
      PROVE  BInv'
  <2>1. build'[b] = r /\ writer'[b] = w BY <1>2, <1>7 DEF Build!Becomes, BInv
  <2>2. Moved(b, r) BY <1>2, <1>6, <1>7 DEF Moved, BInv
  <2>3. Covered(b)' BY <1>7, <2>1 DEF Covered
  <2> HIDE DEF w
  <2> QED BY <1>2, <1>6, <1>7, <2>1, <2>2, <2>3, OneMoves
<1>8. ASSUME NEW r, Build!Becomes(b, r), r.attempt = build[b].attempt, r.data = build[b].data
      PROVE  /\ build'[b] = r /\ Build!Key(b)' = key /\ (Lives(b)' <=> Lives(b))
             /\ Build!Standing(Build!Key(b))' <=> Build!Standing(key)'
             /\ Entered(b) => Entered(b)'
             /\ ok => Entered(b)'
  <2>1. build'[b] = r BY <1>8 DEF Build!Becomes, BInv
  <2>2. Build!Key(b)' = key BY <1>4, <1>8, <2>1 DEF Build!Key
  <2>3. Lives(b)' <=> Lives(b) BY <1>2, <1>4, <2>2 DEF Lives
  <2>4. Build!Standing(Build!Key(b))' <=> Build!Standing(key)' BY <2>2 DEF Build!Standing
  <2>5. Entered(b) => Entered(b)' BY <1>4, <1>6, <1>8, <2>1, <2>2, <2>4 DEF Entered
  <2>6. ok => Entered(b)' BY <1>6, <1>8, <2>1, <2>2, <2>4 DEF Entered
  <2> QED BY <2>1, <2>2, <2>3, <2>4, <2>5, <2>6
(* Nothing that is live waits for this commit but to find it done.         *)
<1>9. Lives(b) /\ ~build[b].committed /\ build[b].status = "active" =>
        ok /\ ~Drafted(build[b].data)
  BY <1>1 DEF Shown, Entered, Build!Accepted
<1>10. CASE build[b].sub \in {"schema", "again"} /\ ok
  <2> DEFINE r == [build[b] EXCEPT !.sub = to]
  <2>1. Build!Becomes(b, r) BY <1>10 DEF Build!CommitSchema
  <2>2. /\ build[b].status = "active" /\ build[b].phase = "promote" /\ build[b].data.passed
        /\ (build[b].sub = "schema" => Drafted(build[b].data))
    BY <1>1, <1>10 DEF Sane
  <2>3. \/ to = "app" /\ w = "app" /\ build[b].sub = "schema" /\ Drafted(build[b].data)
        \/ to = "finish" /\ w = None
    BY <1>10, <2>2 DEF Build!Waits
  <2> HIDE DEF to, w, ok
  <2>4. /\ r \in Builds /\ r.sub = to /\ r.status = "active" /\ r.phase = "promote"
        /\ r.data = build[b].data /\ r.attempt = build[b].attempt
        /\ r.committed = build[b].committed
    BY <1>1, <2>2, <2>3 DEF Builds, Sub
  <2> HIDE DEF r
  <2>5. /\ build'[b] = r /\ (Lives(b)' <=> Lives(b)) /\ Entered(b)'
    BY <1>8, <1>10, <2>1, <2>4
  <2>6. Sane(r, w, consented[b]) BY <1>1, <2>2, <2>3, <2>4 DEF Sane, Publishing
  <2>7. w = "app" => Entered(b)' /\ (Lives(b)' => r.committed)
    BY <1>9, <2>2, <2>3, <2>4, <2>5 DEF Publishing
  <2>8. Shown(b)' BY <1>1, <2>2, <2>4, <2>5 DEF Shown, Entered
  <2> QED BY <1>7, <2>1, <2>4, <2>6, <2>7, <2>8
<1>11. CASE build[b].sub \in {"schema", "again"} /\ ~ok
  <2> DEFINE r == Build!Failed(build[b])
  <2>1. Build!Becomes(b, r) BY <1>11 DEF Build!CommitSchema
  <2>2. build[b].status = "active" /\ build[b].phase = "promote" BY <1>1, <1>11 DEF Sane
  <2>3. w = None BY <1>11
  <2> HIDE DEF w, ok
  <2>4. /\ r \in Builds /\ r.sub = "idle" /\ r.phase = "promote" /\ r.data = build[b].data
        /\ r.status = IF r.committed THEN "review" ELSE "failed"
        /\ r.attempt = build[b].attempt /\ r.committed = build[b].committed
    BY <1>1, <2>2, Fails
  <2> HIDE DEF r
  <2>5. /\ build'[b] = r /\ (Lives(b)' <=> Lives(b)) BY <1>8, <2>1, <2>4
  <2>6. Sane(r, w, consented[b]) BY <1>1, <2>2, <2>3, <2>4 DEF Sane, Publishing
  <2>7. Lives(b) => r.committed BY <1>9, <1>11, <2>2, <2>4
  <2>8. Shown(b)' BY <2>4, <2>5, <2>7 DEF Shown
  <2> QED BY <1>7, <2>1, <2>3, <2>4, <2>6, <2>8 DEF Publishing
<1>12. CASE build[b].sub \notin {"schema", "again"}
  <2> DEFINE r == build[b]
  <2>1. build' = build BY <1>12 DEF Build!CommitSchema
  <2>2. Build!Becomes(b, r) BY <2>1 DEF Build!Becomes, BInv
  <2>3. w = None BY <1>12 DEF Build!Waits
  <2> HIDE DEF w, ok
  <2>4. /\ build'[b] = r /\ (Lives(b)' <=> Lives(b))
        /\ (Build!Standing(Build!Key(b))' <=> Build!Standing(key)')
        /\ (Entered(b) => Entered(b)')
    BY <1>8, <2>2
  <2>5. Sane(r, w, consented[b]) BY <1>1, <1>2, <1>12, <2>3 DEF Sane, Publishing
  <2>6. Shown(b)' BY <1>1, <1>4, <1>6, <2>4 DEF Shown
  <2> QED BY <1>1, <1>7, <2>2, <2>3, <2>5, <2>6 DEF Publishing
<1> QED BY <1>10, <1>11, <1>12

(* The App replaces the live one; the draft is gone with the move.         *)
LEMMA PromoteStays ==
  ASSUME Publishing, BInv, NEW b \in Builders, Build!PromoteApp(b)
  PROVE  BInv'
<1> DEFINE data == [build[b].data EXCEPT !.draft = None]
           moved == [build[b] EXCEPT !.data = data]
           to == IF Build!Waits(b, "app") THEN "finish" ELSE build[b].sub
           r == [moved EXCEPT !.sub = to]
<1>1. /\ build[b] \in Builds /\ Sane(build[b], writer[b], consented[b])
      /\ Covered(b) /\ Build!UsedFieldsStay
  BY DEF BInv
<1>2. /\ writer[b] = "app" /\ writer' = [writer EXCEPT ![b] = None]
      /\ liveApp' = [by |-> Build!Key(b), fields |-> build[b].data.draft,
                     contract |-> consented[b]]
      /\ UNCHANGED <<ontology, effects, inUse, consented>>
  BY DEF Build!PromoteApp
<1>3. Build!Becomes(b, r)
  <2>1. moved = [build[b] EXCEPT !.data.draft = None] BY <1>1 DEF Builds
  <2>2. moved \in Builds /\ moved.sub = build[b].sub BY <1>1 DEF Builds, Datas
  <2> HIDE DEF moved
  <2>3. Build!Becomes(b, IF Build!Waits(b, "app") THEN [moved EXCEPT !.sub = "finish"]
                   ELSE moved)
    BY <2>1 DEF Build!PromoteApp
  <2>4. moved = [moved EXCEPT !.sub = moved.sub] BY <2>2 DEF Builds
  <2> QED BY <2>2, <2>3, <2>4
<1>4. /\ build[b].status \in {"active", "review"} /\ build[b].phase = "promote"
      /\ Drafted(build[b].data) /\ build[b].data.passed
      /\ build[b].sub \in {"idle", "app"}
  BY <1>1, <1>2 DEF Sane, Builds, Sub, Publishing
<1>5. /\ build[b].data.draft \subseteq build[b].data.contract
      /\ build[b].data.contract = consented[b]
  BY <1>1, <1>4 DEF Sane, Within, Late
<1>6. data \in Datas /\ ~Drafted(data) /\ data.passed
      /\ data.approved = build[b].data.approved /\ data.contract = consented[b]
  BY <1>1, <1>4, <1>5 DEF Builds, Datas, Drafted
<1>7. to \in {"idle", "finish"} /\ (to = "finish" => build[b].status = "active")
  BY <1>1, <1>4 DEF Build!Waits, Sane
<1> HIDE DEF data, to
<1>8. /\ r \in Builds /\ r.sub = to /\ r.data = data /\ r.status = build[b].status
      /\ r.phase = "promote" /\ r.attempt = build[b].attempt
      /\ r.committed = build[b].committed
  BY <1>1, <1>4, <1>6, <1>7 DEF Builds, Sub
<1> HIDE DEF moved, r
<1>9. build'[b] = r /\ writer'[b] = None BY <1>2, <1>3 DEF Build!Becomes, BInv
<1>10. Build!Key(b)' = Build!Key(b) BY <1>8, <1>9 DEF Build!Key
<1>11. \A k : Build!Standing(k)' <=> Build!Standing(k) BY <1>2 DEF Build!Standing
<1>12. Moved(b, r) BY <1>2, <1>3, <1>11 DEF Moved, SameEffects, BInv, Writers
<1>13. Sane(r, writer'[b], consented'[b])
  BY <1>2, <1>4, <1>6, <1>7, <1>8, <1>9 DEF Sane, Within, Publishing, Late
<1>14. Covered(b)' BY <1>9 DEF Covered, Publishing
<1>15. Entered(b)'
  <2>1. Entered(b) BY <1>1, <1>2 DEF Covered
  <2> QED BY <1>2, <1>6, <1>8, <1>9, <1>10, <1>11, <2>1 DEF Entered
<1>16. Shown(b)' BY <1>4, <1>6, <1>8, <1>9, <1>15 DEF Shown, Entered
<1>17. liveApp'.by = Build!Key(b)' /\ liveApp'.fields \subseteq liveApp'.contract
  BY <1>2, <1>5, <1>10
<1>18. Build!UsedFieldsStay' BY <1>1, <1>2 DEF Build!UsedFieldsStay
<1> QED BY <1>8, <1>12, <1>13, <1>14, <1>16, <1>17, <1>18, OneMoves

(* A move that fails takes the schema back only while no App of the Run    *)
(* needs it.                                                               *)
LEMMA PromoteFailsStays ==
  ASSUME Publishing, BInv, NEW b \in Builders, Build!PromoteFails(b)
  PROVE  BInv'
<1>1. /\ build[b] \in Builds /\ Sane(build[b], writer[b], consented[b])
      /\ Covered(b) /\ Shown(b) /\ Build!UsedFieldsStay
  BY DEF BInv
<1>2. /\ writer[b] = "app" /\ writer' = [writer EXCEPT ![b] = None]
      /\ UNCHANGED <<inUse, liveApp, consented>>
  BY DEF Build!PromoteFails
<1>3. /\ build[b].status \in {"active", "review"} /\ build[b].phase = "promote"
      /\ build[b].sub \in {"idle", "app"} /\ (build[b].sub = "app" => build[b].status = "active")
      /\ (Lives(b) => build[b].committed) /\ Build!Standing(Build!Key(b))
  BY <1>1, <1>2 DEF Sane, Builds, Sub, Publishing, Covered, Entered
<1>4. CASE ~Build!Waits(b, "app")
  <2> DEFINE r == build[b]
  <2>1. Build!Becomes(b, r) /\ UNCHANGED <<effects, ontology>>
    BY <1>4 DEF Build!PromoteFails, Build!Becomes, BInv
  <2>2. /\ Moved(b, r) /\ Build!UsedFieldsStay' /\ build'[b] = r /\ writer'[b] = None
        /\ \A k : Build!Standing(k)' <=> Build!Standing(k)
        /\ Build!Key(b)' = Build!Key(b) /\ (Lives(b)' <=> Lives(b))
    BY <1>1, <1>2, <2>1, Only DEF Writers
  <2>3. Sane(r, writer'[b], consented'[b])
    BY <1>1, <1>2, <1>3, <1>4, <2>2 DEF Sane, Build!Waits, Publishing
  <2>4. Covered(b)' BY <2>2 DEF Covered, Publishing
  <2>5. Shown(b)' BY <1>1, <1>3, <2>2 DEF Shown
  <2> QED BY <1>1, <1>2, <2>2, <2>3, <2>4, <2>5, OneMoves
<1>5. CASE Build!Waits(b, "app")
  <2>1. build[b].sub = "app" /\ build[b].status = "active" BY <1>3, <1>5 DEF Build!Waits
  <2>2. CASE ~Build!Restorable(effects[Build!Key(b)])
    <3> DEFINE r == Build!Reviewed(build[b])
               one == [build[b] EXCEPT !.sub = "idle"]
    <3>1. Build!Becomes(b, r) /\ UNCHANGED <<effects, ontology>>
      BY <1>5, <2>2 DEF Build!PromoteFails
    <3>2. /\ one \in Builds /\ one.sub = "idle" /\ one.phase = "promote"
          /\ one.data = build[b].data /\ one.attempt = build[b].attempt
          /\ one.committed = build[b].committed
      BY <1>1, <1>3 DEF Builds, Sub
    <3>3. r = [one EXCEPT !.status = "review"] BY DEF Build!Reviewed
    <3> HIDE DEF one, r
    <3>4. /\ r \in Builds /\ r.sub = "idle" /\ r.phase = "promote" /\ r.status = "review"
          /\ r.data = build[b].data /\ r.attempt = build[b].attempt
          /\ r.committed = build[b].committed
      BY <3>2, <3>3 DEF Builds
    <3>5. /\ Moved(b, r) /\ Build!UsedFieldsStay' /\ build'[b] = r /\ writer'[b] = None
          /\ \A k : Build!Standing(k)' <=> Build!Standing(k)
          /\ Build!Key(b)' = Build!Key(b) /\ (Lives(b)' <=> Lives(b))
      BY <1>2, <3>1, <3>4, Only DEF Writers
    <3>6. Sane(r, writer'[b], consented'[b])
      BY <1>1, <1>2, <1>3, <2>1, <3>4, <3>5 DEF Sane, Publishing
    <3>7. Covered(b)' BY <3>5 DEF Covered, Publishing
    <3>8. Shown(b)' BY <1>3, <3>4, <3>5 DEF Shown
    <3> QED BY <1>2, <3>4, <3>5, <3>6, <3>7, <3>8, OneMoves
  <2>3. CASE Build!Restorable(effects[Build!Key(b)])
    <3> DEFINE r == Build!Failed(build[b])
    <3>1. Build!Becomes(b, r) /\ Build!Restore(Build!Key(b)) BY <1>5, <2>3 DEF Build!PromoteFails
    <3>2. /\ r \in Builds /\ r.sub = "idle" /\ r.phase = "promote" /\ r.data = build[b].data
          /\ r.status = IF r.committed THEN "review" ELSE "failed"
          /\ r.attempt = build[b].attempt /\ r.committed = build[b].committed
      BY <1>1, <1>3, Fails
    <3> HIDE DEF r
    <3>3. build'[b] = r /\ writer'[b] = None BY <1>2, <3>1 DEF Build!Becomes, BInv
    <3>4. Build!Key(b)' = Build!Key(b) /\ Build!Key(b)[1] = b BY <3>2, <3>3 DEF Build!Key
    <3>5. Lives(b)' <=> Lives(b) BY <1>2, <3>4 DEF Lives
    <3>6. SameEffects(b)
      <4> SUFFICES ASSUME NEW k, k[1] # b
                   PROVE  /\ Build!Standing(k)' <=> Build!Standing(k)
                          /\ Build!Standing(k) => effects'[k] = effects[k]
        BY DEF SameEffects
      <4> DEFINE e == [effects[Build!Key(b)] EXCEPT !.compensated = TRUE]
      <4>1. Build!Record(Build!Key(b), e) BY <3>1 DEF Build!Restore
      <4>2. k # Build!Key(b) BY <3>4
      <4> HIDE DEF e
      <4>3. /\ DOMAIN effects' = DOMAIN effects \cup {Build!Key(b)}
            /\ \A x \in DOMAIN effects : x # Build!Key(b) => effects'[x] = effects[x]
        BY <4>1 DEF Build!Record
      <4> QED BY <4>2, <4>3 DEF Build!Standing
    <3>7. Build!UsedFieldsStay'
      BY <1>1, <1>2, <2>3, <3>1 DEF Build!UsedFieldsStay, Build!Restorable, Build!Unused,
         Build!Restore
    <3>8. Moved(b, r) BY <1>2, <3>1, <3>6 DEF Moved, BInv, Writers
    <3>9. Sane(r, writer'[b], consented'[b])
      BY <1>1, <1>2, <1>3, <2>1, <3>2, <3>3 DEF Sane, Publishing
    <3>10. Covered(b)' BY <3>3 DEF Covered, Publishing
    <3>11. Shown(b)' BY <1>3, <3>2, <3>3, <3>5 DEF Shown
    <3> QED BY <1>2, <3>2, <3>7, <3>8, <3>9, <3>10, <3>11, OneMoves
  <2> QED BY <2>2, <2>3
<1> QED BY <1>4, <1>5

-----------------------------------------------------------------------------
(* Steps that move the Run on alone: its key and the ledger stay.          *)
LEMMA RunMoves ==
  ASSUME Publishing, BInv, NEW b \in Builders, NEW r \in Builds, Build!Becomes(b, r),
         UNCHANGED <<writer, effects, liveApp, ontology, inUse, consented>>,
         r.attempt = build[b].attempt, Sane(r, writer[b], consented[b]),
         writer[b] = "app" =>
           r.data = build[b].data /\ (build[b].committed => r.committed),
         Lives(b) /\ Shown(b) =>
           /\ r.status \notin {"failed", "cancelled"}
           /\ build[b].status = "review" => r.status = "review"
           /\ \/ r.committed
              \/ /\ r.phase = build[b].phase /\ r.data = build[b].data
                 /\ r.committed = build[b].committed
                 /\ r.status = "active" => build[b].status = "active"
  PROVE  BInv'
<1>1. Covered(b) /\ Shown(b) BY DEF BInv
<1>2. writer[b] \in Writers /\ writer' = [writer EXCEPT ![b] = writer[b]] BY DEF BInv
<1>3. /\ Moved(b, r) /\ Build!UsedFieldsStay' /\ build'[b] = r /\ writer'[b] = writer[b]
      /\ \A k : Build!Standing(k)' <=> Build!Standing(k)
      /\ Build!Key(b)' = Build!Key(b) /\ (Lives(b)' <=> Lives(b))
  BY <1>2, Only
<1>4. r.data = build[b].data => (Entered(b)' <=> Entered(b)) BY <1>3 DEF Entered
<1>5. Covered(b)' BY <1>1, <1>3, <1>4 DEF Covered
<1>6. Shown(b)' BY <1>1, <1>3, <1>4 DEF Shown
<1> QED BY <1>3, <1>5, <1>6, OneMoves

LEMMA ReviewedIs ==
  ASSUME NEW r \in Builds
  PROVE  /\ Build!Reviewed(r) \in Builds /\ Build!Reviewed(r).sub = "idle"
         /\ Build!Reviewed(r).status = "review"
         /\ Build!Reviewed(r).phase = r.phase /\ Build!Reviewed(r).data = r.data
         /\ Build!Reviewed(r).attempt = r.attempt /\ Build!Reviewed(r).committed = r.committed
<1> DEFINE one == [r EXCEPT !.sub = "idle"]
<1>1. /\ one \in Builds /\ one.sub = "idle" /\ one.phase = r.phase /\ one.data = r.data
      /\ one.attempt = r.attempt /\ one.committed = r.committed
  BY DEF Builds, Sub
<1>2. Build!Reviewed(r) = [one EXCEPT !.status = "review"] BY DEF Build!Reviewed
<1> HIDE DEF one
<1> QED BY <1>1, <1>2 DEF Builds

LEMMA FinishStays ==
  ASSUME Publishing, BInv, NEW b \in Builders, Build!Finish(b) \/ Build!FinishFails(b)
  PROVE  BInv'
<1> DEFINE one == [build[b] EXCEPT !.sub = "idle"]
           told == [one EXCEPT !.committed = TRUE]
           sure == [build[b] EXCEPT !.committed = TRUE]
<1>1. build[b] \in Builds /\ Sane(build[b], writer[b], consented[b]) BY DEF BInv
<1>2. /\ build[b].sub = "finish"
      /\ UNCHANGED <<writer, effects, liveApp, ontology, inUse, consented>>
  BY DEF Build!Finish, Build!FinishFails, Build!Waits, Build!Alone, Build!shared
<1>3. /\ writer[b] = None /\ build[b].status = "active" /\ build[b].phase = "promote"
      /\ build[b].data.contract = consented[b]
  BY <1>1, <1>2 DEF Sane, Late
<1>4. ASSUME NEW r \in Builds, Build!Becomes(b, r), r.attempt = build[b].attempt, r.committed,
             r.sub = "idle", r.status \in {"active", "done", "review"},
             \/ r.phase = "promote" /\ r.data = build[b].data
             \/ r.phase = "plan" /\ r.data = Build!Blank
      PROVE  BInv'
  <2>1. Build!Blank.draft = None /\ ~Build!Blank.passed BY DEF Build!Blank
  <2>2. Sane(r, writer[b], consented[b])
    BY <1>1, <1>3, <1>4, <2>1 DEF Sane, Publishing, Drafted, Within, Late
  <2> QED BY <1>2, <1>3, <1>4, <2>2, RunMoves DEF Publishing
<1>5. CASE Build!Finish(b)
  <2>1. /\ one \in Builds /\ one.sub = "idle" /\ one.phase = "promote" /\ one.status = "active"
        /\ one.data = build[b].data /\ one.attempt = build[b].attempt
    BY <1>1, <1>3 DEF Builds, Sub
  <2>2. told = [build[b] EXCEPT !.sub = "idle", !.committed = TRUE] OBVIOUS
  <2>3. Build!Becomes(b, IF told.step < told.steps
                   THEN [told EXCEPT !.phase = "plan", !.data = Build!Blank, !.step = @ + 1]
                   ELSE [told EXCEPT !.status = "done"])
    BY <1>5 DEF Build!Finish
  <2> HIDE DEF one
  <2>4. /\ told \in Builds /\ told.sub = "idle" /\ told.phase = "promote" /\ told.committed
        /\ told.status = "active" /\ told.data = build[b].data
        /\ told.attempt = build[b].attempt
    BY <2>1 DEF Builds
  <2> HIDE DEF told
  <2>5. CASE told.step < told.steps
    <3> DEFINE plan == [told EXCEPT !.phase = "plan"]
               clean == [plan EXCEPT !.data = Build!Blank]
               r == [clean EXCEPT !.step = told.step + 1]
    <3>1. r = [told EXCEPT !.phase = "plan", !.data = Build!Blank, !.step = @ + 1] OBVIOUS
    <3>2. Build!Becomes(b, r) BY <2>3, <2>5, <3>1
    <3>3. Build!Blank \in Datas BY DEF Build!Blank, Datas
    <3>4. /\ plan \in Builds /\ plan.sub = "idle" /\ plan.phase = "plan" /\ plan.committed
          /\ plan.status = "active" /\ plan.attempt = build[b].attempt
      BY <2>4 DEF Builds, Early
    <3> HIDE DEF plan
    <3>5. /\ clean \in Builds /\ clean.sub = "idle" /\ clean.phase = "plan" /\ clean.committed
          /\ clean.status = "active" /\ clean.attempt = build[b].attempt
          /\ clean.data = Build!Blank
      BY <3>3, <3>4 DEF Builds
    <3> HIDE DEF clean
    <3>6. told.step + 1 \in Nat BY <2>4 DEF Builds
    <3>7. /\ r \in Builds /\ r.sub = "idle" /\ r.phase = "plan" /\ r.committed
          /\ r.status = "active" /\ r.attempt = build[b].attempt /\ r.data = Build!Blank
      BY <3>5, <3>6 DEF Builds
    <3> HIDE DEF r
    <3> QED BY <1>4, <3>2, <3>7
  <2>6. CASE ~(told.step < told.steps)
    <3> DEFINE r == [told EXCEPT !.status = "done"]
    <3>1. Build!Becomes(b, r) BY <2>3, <2>6
    <3>2. /\ r \in Builds /\ r.sub = "idle" /\ r.phase = "promote" /\ r.committed
          /\ r.status = "done" /\ r.attempt = build[b].attempt /\ r.data = build[b].data
      BY <2>4 DEF Builds
    <3> HIDE DEF r
    <3> QED BY <1>4, <3>1, <3>2
  <2> QED BY <2>5, <2>6
<1>6. CASE Build!FinishFails(b)
  <2>1. sure \in Builds /\ sure.phase = "promote" /\ sure.data = build[b].data
        /\ sure.attempt = build[b].attempt /\ sure.committed
    BY <1>1, <1>3 DEF Builds
  <2>2. Build!Becomes(b, Build!Reviewed(sure)) BY <1>6 DEF Build!FinishFails
  <2> HIDE DEF sure
  <2>3. /\ Build!Reviewed(sure) \in Builds /\ Build!Reviewed(sure).sub = "idle"
        /\ Build!Reviewed(sure).status = "review" /\ Build!Reviewed(sure).phase = "promote"
        /\ Build!Reviewed(sure).data = build[b].data /\ Build!Reviewed(sure).committed
        /\ Build!Reviewed(sure).attempt = build[b].attempt
    BY <2>1, ReviewedIs
  <2> QED BY <1>4, <2>2, <2>3
<1> QED BY <1>5, <1>6

(* A writer outlives its task: who ends the Run then leaves what it writes *)
(* for review.                                                             *)
LEMMA EndsStay ==
  ASSUME Publishing, BInv, NEW b \in Builders, Build!StopWorker(b) \/ Build!Cancel(b)
  PROVE  BInv'
<1>1. /\ build[b] \in Builds /\ Sane(build[b], writer[b], consented[b]) /\ Shown(b)
      /\ writer[b] \in Writers
  BY DEF BInv
<1>2. UNCHANGED <<writer, effects, liveApp, ontology, inUse, consented>>
  BY DEF Build!StopWorker, Build!Cancel, Build!shared
<1>3. build[b].status = "active" BY <1>1 DEF Build!StopWorker, Build!Cancel, Sane
<1>4. CASE Build!Becomes(b, [build[b] EXCEPT !.sub = "idle"])
  <2> DEFINE r == [build[b] EXCEPT !.sub = "idle"]
  <2>1. /\ r \in Builds /\ r.sub = "idle" /\ r.phase = build[b].phase
        /\ r.status = build[b].status /\ r.data = build[b].data
        /\ r.attempt = build[b].attempt /\ r.committed = build[b].committed
    BY <1>1 DEF Builds, Sub
  <2>2. Build!Becomes(b, r) BY <1>4
  <2> HIDE DEF r
  <2>3. Sane(r, writer[b], consented[b]) BY <1>1, <2>1 DEF Sane, Publishing
  <2> QED BY <1>2, <1>3, <2>1, <2>2, <2>3, RunMoves
<1>5. CASE Build!Becomes(b, Build!Reviewed(build[b]))
  <2> DEFINE r == Build!Reviewed(build[b])
  <2>1. /\ r \in Builds /\ r.sub = "idle" /\ r.phase = build[b].phase
        /\ r.status = "review" /\ r.data = build[b].data
        /\ r.attempt = build[b].attempt /\ r.committed = build[b].committed
    BY <1>1, ReviewedIs
  <2>2. Build!Becomes(b, r) BY <1>5
  <2> HIDE DEF r
  <2>3. Sane(r, writer[b], consented[b]) BY <1>1, <1>3, <2>1 DEF Sane, Publishing
  <2> QED BY <1>2, <1>3, <2>1, <2>2, <2>3, RunMoves
<1>6. CASE /\ build[b].sub = "idle" /\ writer[b] = None
           /\ ~build[b].committed /\ ~Build!Recovered(b)
           /\ Build!Becomes(b, [build[b] EXCEPT !.status = "cancelled", !.data = Build!Blank])
  <2> DEFINE one == [build[b] EXCEPT !.status = "cancelled"]
             r == [one EXCEPT !.data = Build!Blank]
  <2>1. Build!Becomes(b, r) BY <1>6
  <2>2. Build!Blank \in Datas /\ Build!Blank.draft = None /\ ~Build!Blank.passed
    BY DEF Build!Blank, Datas
  <2>3. /\ one \in Builds /\ one.sub = "idle" /\ one.phase = build[b].phase
        /\ one.status = "cancelled" /\ one.attempt = build[b].attempt /\ ~one.committed
    BY <1>1, <1>6 DEF Builds
  <2> HIDE DEF one
  <2>4. /\ r \in Builds /\ r.sub = "idle" /\ r.phase = build[b].phase
        /\ r.status = "cancelled" /\ r.attempt = build[b].attempt /\ ~r.committed
        /\ r.data = Build!Blank
    BY <2>2, <2>3 DEF Builds
  <2> HIDE DEF r
  <2>5. Sane(r, writer[b], consented[b])
    BY <1>6, <2>2, <2>4 DEF Sane, Publishing, Drafted
  <2>6. ~Lives(b) BY <1>1, <1>6 DEF Shown, Lives, Build!Recovered, Drafted
  <2> QED BY <1>2, <1>6, <2>1, <2>4, <2>5, <2>6, RunMoves DEF Publishing
<1> QED BY <1>4, <1>5, <1>6 DEF Build!StopWorker, Build!Cancel

(* A retry takes the checkpoint over under a key of its own.               *)
LEMMA RetryStays == ASSUME Publishing, BInv, NEW b \in Builders, Build!Retry(b) PROVE BInv'
<1>1. /\ build[b] \in Builds /\ Sane(build[b], writer[b], consented[b]) /\ Shown(b)
  BY DEF BInv
<1>2. PICK feedback \in BOOLEAN :
        Build!Becomes(b, [Build!Resumed(build[b], feedback) EXCEPT
                      !.attempt = build[b].attempt + 1])
  BY DEF Build!Retry
<1>3. /\ UNCHANGED <<writer, effects, liveApp, ontology, inUse, consented>>
      /\ build[b].status \in {"failed", "cancelled"} /\ writer[b] = None
  BY DEF Build!Retry, Build!shared
<1>4. ~Lives(b) /\ build[b].sub = "idle" /\ ~build[b].committed
  BY <1>1, <1>3 DEF Shown, Sane
<1> DEFINE old == build[b]
           res == Build!Resumed(old, feedback)
           r == [res EXCEPT !.attempt = old.attempt + 1]
<1>5. /\ res \in Builds /\ res.sub = "idle" /\ res.status = "active" /\ ~res.committed
      /\ res.phase \in Late => res.data.contract = consented[b]
      /\ Drafted(res.data) => res.phase \in Late
      /\ res.data.passed => res.phase = "promote" /\ Within(res.data)
  <2>1. CASE old.status = "cancelled"
    <3> DEFINE one == [Build!Fresh EXCEPT !.attempt = old.attempt]
    <3>1. Build!Blank \in Datas /\ Build!Blank.draft = None /\ ~Build!Blank.passed
      BY DEF Build!Blank, Datas
    <3>2. /\ Build!Fresh \in Builds /\ Build!Fresh.sub = "idle" /\ Build!Fresh.status = "active"
          /\ ~Build!Fresh.committed /\ Build!Fresh.phase = "plan"
          /\ Build!Fresh.data = Build!Blank
      BY <3>1 DEF Build!Fresh, Builds, Sub, Early
    <3>3. /\ one \in Builds /\ one.sub = "idle" /\ one.status = "active"
          /\ ~one.committed /\ one.phase = "plan" /\ one.data = Build!Blank
      BY <1>1, <3>2 DEF Builds
    <3>4. res = [one EXCEPT !.steps = old.steps] BY <2>1 DEF Build!Resumed
    <3> HIDE DEF one, res
    <3>5. /\ res \in Builds /\ res.sub = "idle" /\ res.status = "active"
          /\ ~res.committed /\ res.phase = "plan" /\ res.data = Build!Blank
      BY <1>1, <3>3, <3>4 DEF Builds
    <3> QED BY <3>1, <3>5 DEF Late, Drafted
  <2>2. CASE old.status # "cancelled"
    <3> DEFINE staged == old.data.draft # None
               reverify == old.phase \in {"verify", "wait_override"} /\ staged
               restage == (old.phase \in {"stage_code", "verify", "wait_override", "promote"}
                           /\ ~staged) \/ (feedback /\ staged)
               to == IF restage THEN "stage_code" ELSE IF reverify THEN "verify" ELSE old.phase
               asked == IF Build!Recoverable(old) THEN "refine" ELSE "no"
               data == [old.data EXCEPT !.passed = @ /\ ~restage /\ ~reverify /\ ~feedback]
               one == [old EXCEPT !.status = "active"]
               two == [one EXCEPT !.awaiting = asked]
               three == [two EXCEPT !.phase = to]
    <3>1. old \in Builds /\ old.data \in Datas BY <1>1 DEF Builds
    <3>2. res = [three EXCEPT !.data = data] BY <2>2, <3>1 DEF Build!Resumed, Builds
    <3>3. /\ to \in {"stage_code", "verify", old.phase}
          /\ to # old.phase => old.phase \in Late
          /\ old.data.passed /\ ~restage /\ ~reverify => to = old.phase
      BY <1>1 DEF Sane, Drafted, Late
    <3>4. /\ data \in Datas /\ data.draft = old.data.draft
          /\ data.contract = old.data.contract
          /\ data.passed => old.data.passed /\ ~restage /\ ~reverify
      BY <3>1 DEF Datas
    <3> HIDE DEF staged, reverify, restage, to, data
    <3>5. asked \in {"no", "refine"} OBVIOUS
    <3> HIDE DEF asked
    <3>6. /\ one \in Builds /\ one.sub = "idle" /\ one.status = "active" /\ ~one.committed
      BY <1>4, <3>1 DEF Builds
    <3> HIDE DEF one
    <3>7. /\ two \in Builds /\ two.sub = "idle" /\ two.status = "active" /\ ~two.committed
      BY <3>5, <3>6 DEF Builds
    <3> HIDE DEF two
    <3>8. to \in Early \cup Late BY <3>1, <3>3 DEF Builds, Early, Late
    <3>9. /\ three \in Builds /\ three.sub = "idle" /\ three.status = "active"
          /\ ~three.committed /\ three.phase = to
      BY <3>7, <3>8 DEF Builds
    <3> HIDE DEF three, res
    <3>10. /\ res \in Builds /\ res.sub = "idle" /\ res.status = "active" /\ ~res.committed
           /\ res.phase = to /\ res.data = data
      BY <3>2, <3>4, <3>9 DEF Builds
    <3>11. to \in Late <=> old.phase \in Late
      BY <3>3 DEF Late
    <3>12. old.phase \in Late => data.contract = consented[b] BY <1>1, <2>2, <3>4 DEF Sane
    <3>13. Drafted(data) => old.phase \in Late BY <1>1, <3>4 DEF Sane, Drafted
    <3>14. data.passed => to = "promote" /\ Within(data)
      BY <1>1, <3>3, <3>4 DEF Sane, Within, Drafted
    <3> QED BY <3>10, <3>11, <3>12, <3>13, <3>14
  <2> QED BY <2>1, <2>2
<1>6. Build!Becomes(b, r) BY <1>2
<1>7. old.attempt + 1 \in Nat /\ old.attempt \in Nat BY <1>1 DEF Builds
<1> HIDE DEF res
<1>8. /\ r \in Builds /\ r.sub = "idle" /\ r.status = "active" /\ ~r.committed
      /\ r.phase = res.phase /\ r.data = res.data /\ r.attempt = old.attempt + 1
  BY <1>5, <1>7 DEF Builds
<1> HIDE DEF r
<1>9. writer' = [writer EXCEPT ![b] = None] BY <1>3 DEF BInv
<1>10. /\ Moved(b, r) /\ Build!UsedFieldsStay' /\ build'[b] = r /\ writer'[b] = None
  BY <1>3, <1>6, <1>8, <1>9, Only DEF Writers
<1>11. Sane(r, writer'[b], consented'[b]) BY <1>3, <1>5, <1>8, <1>10 DEF Sane, Publishing
<1>12. Covered(b)' BY <1>10 DEF Covered, Publishing
<1>13. Shown(b)'
  <2>1. Build!Key(b)' = <<b, old.attempt + 1>> BY <1>8, <1>10 DEF Build!Key
  <2>2. ~Lives(b)'
    <3> SUFFICES ASSUME liveApp # None, liveApp.by = <<b, old.attempt + 1>> PROVE FALSE
      BY <1>3, <2>1 DEF Lives
    <3>1. PICK o \in Builders : liveApp.by = Build!Key(o) BY DEF BInv, Owned
    <3>2. o = b BY <3>1 DEF Build!Key
    <3>3. old.attempt = old.attempt + 1 BY <3>1, <3>2 DEF Build!Key
    <3> QED BY <1>7, <3>3
  <2> QED BY <2>2 DEF Shown
<1> QED BY <1>3, <1>4, <1>8, <1>10, <1>11, <1>12, <1>13, OneMoves

-----------------------------------------------------------------------------
(* What no builder does, and the whole.                                    *)
LEMMA UseStays == ASSUME BInv, NEW f \in Build!Fields, Build!UseField(f) PROVE BInv'
<1>1. UNCHANGED <<build, writer, ontology, effects, liveApp, consented>> BY DEF Build!UseField
<1>2. Build!UsedFieldsStay' BY DEF BInv, Build!UseField, Build!UsedFieldsStay
<1>3. Owned' BY <1>1 DEF BInv, Owned, Build!Key
<1>4. ASSUME NEW b \in Builders
      PROVE  Sane(build[b], writer[b], consented[b])' /\ Covered(b)' /\ Shown(b)'
  <2>1. Sane(build[b], writer[b], consented[b]) /\ Covered(b) /\ Shown(b) BY DEF BInv
  <2>2. /\ Build!Key(b)' = Build!Key(b) /\ (Lives(b)' <=> Lives(b))
        /\ Build!Standing(Build!Key(b))' <=> Build!Standing(Build!Key(b))
        /\ Entered(b)' <=> Entered(b)
    BY <1>1 DEF Build!Key, Lives, Build!Standing, Entered
  <2> QED BY <1>1, <2>1, <2>2 DEF Sane, Covered, Shown
<1> QED BY <1>1, <1>2, <1>3, <1>4 DEF BInv

LEMMA RestartStays == ASSUME Publishing, BInv, Build!Crash PROVE BInv'
<1>1. /\ UNCHANGED <<ontology, effects, inUse, liveApp, consented>>
      /\ build' = [b \in Builders |-> [build[b] EXCEPT !.sub = "idle"]]
      /\ writer' = [b \in Builders |-> None]
  BY DEF Build!Crash, Build!shared
<1>2. ASSUME NEW b \in Builders
      PROVE  /\ build[b] \in Builds /\ build'[b] \in Builds /\ build'[b].sub = "idle"
             /\ build'[b].status = build[b].status /\ build'[b].phase = build[b].phase
             /\ build'[b].data = build[b].data /\ build'[b].attempt = build[b].attempt
             /\ build'[b].committed = build[b].committed
  BY <1>1 DEF BInv, Builds, Sub
<1>3. ASSUME NEW b \in Builders
      PROVE  Sane(build'[b], writer'[b], consented'[b]) /\ Covered(b)' /\ Shown(b)'
  <2>1. Sane(build[b], writer[b], consented[b]) /\ Shown(b) BY DEF BInv
  <2>2. writer'[b] = None /\ consented'[b] = consented[b] BY <1>1
  <2>3. /\ Build!Key(b)' = Build!Key(b) /\ (Lives(b)' <=> Lives(b))
        /\ Build!Standing(Build!Key(b))' <=> Build!Standing(Build!Key(b))
    BY <1>1, <1>2 DEF Build!Key, Lives, Build!Standing
  <2>4. Entered(b)' <=> Entered(b) BY <1>1, <1>2, <2>3 DEF Entered
  <2>5. Sane(build'[b], writer'[b], consented'[b])
    BY <1>2, <2>1, <2>2 DEF Sane, Publishing
  <2>6. Covered(b)' BY <2>2 DEF Covered, Publishing
  <2>7. Shown(b)' BY <1>2, <2>1, <2>3, <2>4 DEF Shown
  <2> QED BY <2>5, <2>6, <2>7
<1>4. Owned' BY <1>1, <1>2 DEF BInv, Owned, Build!Key
<1>5. Build!UsedFieldsStay' BY <1>1 DEF BInv, Build!UsedFieldsStay
<1>6. build' \in [Builders -> Builds] /\ writer' \in [Builders -> Writers]
  BY <1>1, <1>2 DEF Writers
<1> QED BY <1>1, <1>3, <1>4, <1>5, <1>6 DEF BInv

LEMMA BInvInit == ASSUME Publishing, Build!Init PROVE BInv
<1>1. Build!Blank \in Datas /\ ~Drafted(Build!Blank) /\ ~Build!Blank.passed
  BY DEF Build!Blank, Datas, Drafted
<1>2. /\ Build!Fresh \in Builds /\ Build!Fresh.sub = "idle" /\ Build!Fresh.status = "active"
      /\ Build!Fresh.phase = "plan" /\ Build!Fresh.data = Build!Blank /\ ~Build!Fresh.committed
  BY <1>1 DEF Build!Fresh, Builds, Sub, Early
<1>3. ASSUME NEW b \in Builders
      PROVE  /\ build[b] \in Builds /\ build[b].sub = "idle" /\ build[b].status = "active"
             /\ build[b].phase = "plan" /\ build[b].data = Build!Blank /\ ~build[b].committed
  <2> DEFINE n == IF b \in Composite THEN 2 ELSE 1
  <2>1. n \in Nat OBVIOUS
  <2>2. build[b] = [Build!Fresh EXCEPT !.steps = n] BY DEF Build!Init
  <2> HIDE DEF n
  <2> QED BY <1>2, <2>1, <2>2 DEF Builds
<1>4. ASSUME NEW b \in Builders
      PROVE  Sane(build[b], writer[b], consented[b]) /\ Covered(b) /\ Shown(b)
  <2>1. writer[b] = None /\ liveApp = None BY DEF Build!Init
  <2>2. Sane(build[b], writer[b], consented[b])
    BY <1>1, <1>3, <2>1 DEF Sane, Late, Publishing
  <2>3. Covered(b) BY <2>1 DEF Covered, Publishing
  <2>4. Shown(b) BY <2>1 DEF Shown, Lives
  <2> QED BY <2>2, <2>3, <2>4
<1>5. DOMAIN build = Builders /\ build = [b \in Builders |-> build[b]] BY DEF Build!Init
<1>6. build \in [Builders -> Builds] BY <1>3, <1>5
<1>7. /\ writer \in [Builders -> Writers] /\ consented \in [Builders -> SUBSET Build!Fields]
      /\ Build!UsedFieldsStay /\ Owned
  BY DEF Build!Init, Writers, Build!UsedFieldsStay, Owned
<1> QED BY <1>4, <1>6, <1>7 DEF BInv

LEMMA BInvStep == ASSUME Publishing, BInv, [Build!Next]_(Build!buildVars) PROVE BInv'
<1>1. CASE UNCHANGED Build!buildVars
  BY <1>1 DEF Build!buildVars, Build!shared, BInv, Sane, Covered, Shown, Owned,
     Build!UsedFieldsStay, Entered,
              Lives, Build!Standing, Build!Key
<1>2. CASE Build!Next
  <2>1. ASSUME NEW f \in Build!Fields, Build!UseField(f) PROVE BInv' BY <2>1, UseStays
  <2>2. CASE Build!Crash BY <2>2, RestartStays
  <2>3. ASSUME NEW b \in Builders,
               Build!ProposePlan(b) \/ Build!AnswerPlan(b) \/ Build!PlanUnresolved(b)
        PROVE  BInv'
    BY <2>3, PlanStays
  <2>4. ASSUME NEW b \in Builders,
               Build!ProposeSchema(b) \/ Build!AnswerSchema(b) \/ Build!SchemaUnresolved(b)
        PROVE  BInv'
    BY <2>4, SchemaStays
  <2>5. ASSUME NEW b \in Builders, NEW fields \in SUBSET Build!Fields,
               Build!ApproveSchema(b, fields)
        PROVE  BInv'
    BY <2>5, ApproveStays
  <2>6. ASSUME NEW b \in Builders, NEW fields \in {build[b].data.contract, Build!Fields},
               Build!StageCode(b, fields)
        PROVE  BInv'
    <3>1. build[b] \in Builds BY DEF BInv
    <3>2. fields \in SUBSET Build!Fields BY <3>1 DEF Builds, Datas
    <3> QED BY <2>6, <3>2, StageStays
  <2>7. ASSUME NEW b \in Builders, Build!Verify(b) \/ Build!AnswerFindings(b) PROVE BInv'
    BY <2>7, VerifyStays, FindingsStay
  <2>8. ASSUME NEW b \in Builders, Build!BeginPublish(b) \/ Build!CommitSchema(b) PROVE BInv'
    BY <2>8, BeginStays, CommitStays
  <2>9. ASSUME NEW b \in Builders, Build!PromoteApp(b) \/ Build!PromoteFails(b) PROVE BInv'
    BY <2>9, PromoteStays, PromoteFailsStays
  <2>10. ASSUME NEW b \in Builders, Build!Finish(b) \/ Build!FinishFails(b) PROVE BInv'
    BY <2>10, FinishStays
  <2>11. ASSUME NEW b \in Builders, Build!StopWorker(b) \/ Build!Cancel(b) PROVE BInv'
    BY <2>11, EndsStay
  <2>12. ASSUME NEW b \in Builders, Build!Retry(b) PROVE BInv' BY <2>12, RetryStays
  <2> QED
    BY <1>2, <2>1, <2>2, <2>3, <2>4, <2>5, <2>6, <2>7, <2>8, <2>9, <2>10, <2>11, <2>12
       DEF Build!Next
<1> QED BY <1>1, <1>2

LEMMA BInvWhole == ASSUME BInv PROVE Build!BuildIsWhole
<1> SUFFICES Build!PublicationIsWhole BY DEF BInv, Build!BuildIsWhole
<1> SUFFICES ASSUME liveApp # None
             PROVE  LET r == build[liveApp.by[1]]
                        current == r.attempt = liveApp.by[2]
                    IN
                    /\ liveApp.fields \subseteq liveApp.contract
                    /\ current => r.status \notin {"failed", "cancelled"}
                    /\ Build!Standing(liveApp.by) \/ (current /\ r.status = "review")
  BY DEF Build!PublicationIsWhole
<1>1. PICK b \in Builders : liveApp.by = Build!Key(b) BY DEF BInv, Owned
<1>2. Lives(b) BY <1>1 DEF Lives
<1>3. /\ liveApp.by[1] = b /\ liveApp.by[2] = build[b].attempt
      /\ Build!Standing(liveApp.by) <=> Build!Standing(Build!Key(b))
  BY <1>1 DEF Build!Key
<1>4. /\ build[b].status \notin {"failed", "cancelled"}
      /\ Build!Standing(Build!Key(b)) \/ build[b].status = "review"
  BY <1>2 DEF BInv, Shown
<1>5. liveApp.fields \subseteq liveApp.contract BY DEF BInv, Owned
<1> QED BY <1>3, <1>4, <1>5

LEMMA BuildStep ==
  ASSUME [Next]_vars, component = "build"
  PROVE  component' = component /\ [Build!Next]_(Build!buildVars)
<1>1. CASE UNCHANGED vars BY <1>1 DEF vars, Build!buildVars, Build!shared
<1>2. CASE Next
  <2>1. component' = component /\ Build!Next BY <1>2 DEF Next
  <2> QED BY <2>1
<1> QED BY <1>1, <1>2

(* A live App uses only the contract its user approved last, its schema is *)
(* committed unless its Run is in review, that Run neither failed nor was  *)
(* cancelled, and no record loses a field, whatever crashes, retries,      *)
(* cancellations, failed writes and other chats come between the commit of *)
(* the schema and the end of the Run (durable_workflow.py                  *)
(* _publish_widget, restore_schema_snapshot).                              *)
THEOREM AlwaysWholeBuild == ASSUME Publishing PROVE Spec => []BuildIsWhole
<1> DEFINE Inv == component = "build" => BInv
<1>1. Init => Inv
  <2> SUFFICES ASSUME Init, component = "build" PROVE BInv OBVIOUS
  <2>1. Build!Init BY DEF Init
  <2> QED BY <2>1, BInvInit
<1>2. Inv /\ [Next]_vars => Inv'
  <2> SUFFICES ASSUME Inv, [Next]_vars, component' = "build" PROVE BInv' OBVIOUS
  <2>1. component = "build" BY DEF Next, vars
  <2>2. BInv BY <2>1
  <2> QED BY <2>1, <2>2, BuildStep, BInvStep
<1>3. Inv => BuildIsWhole BY BInvWhole DEF BuildIsWhole
<1> QED BY <1>1, <1>2, <1>3, PTL DEF Spec
HIDE DEF build, writer, ontology, effects, inUse, liveApp, consented, harm

-----------------------------------------------------------------------------
(***************************************************************************)
(* Live graph queries (GraphFeed), for any number of targets, queries and  *)
(* commands that broadcast.                                                *)
(*                                                                         *)
(* The send lock keeps the messages of a target in the order in which      *)
(* their results were computed, so what waits in a line is related to what *)
(* is shown: of one query it only rises, from the result shown last to the *)
(* one the graph would give now.                                           *)
(***************************************************************************)
data == v1
commits == v2
granted == v3
opened == v4
subs == v5
last == v6
line == v7
shown == v8
call == v9
USE DEF data, commits, granted, opened, subs, last, line, shown, call

Messages == [sub : Feed!Subs, data : Nat, by : Calls \cup {"answer"}]
Rounds == [at : {"idle", "committed", "next"} \cup Targets, bare : BOOLEAN,
           targets : SUBSET Targets, ids : SUBSET Feed!Subs]

FTyped ==
  /\ data \in [Feed!Subs -> Nat] /\ shown \in [Feed!Subs -> Nat]
  /\ subs \in [Targets -> SUBSET Feed!Subs] /\ call \in [Calls -> Rounds]
  /\ line \in [Targets -> Seq(Messages)] /\ opened \subseteq Targets

(* What waits for a target is of its own subscriptions, in the order of    *)
(* the results, none newer than the graph or older than what is shown.     *)
Rising(t, queue, now, before) ==
  /\ \A n \in DOMAIN queue :
       LET msg == queue[n] IN
       /\ Feed!TargetOf(msg.sub) = t /\ msg.data <= now[msg.sub]
       /\ msg.data # Feed!Nothing => before[msg.sub] <= msg.data
  /\ \A m, n \in DOMAIN queue :
       /\ m < n /\ queue[m].sub = queue[n].sub
       /\ queue[m].data # Feed!Nothing /\ queue[n].data # Feed!Nothing
       => queue[m].data <= queue[n].data

FInv ==
  /\ FTyped
  /\ \A s \in Feed!Subs : shown[s] <= data[s]
  /\ \A t \in Targets : Rising(t, line[t], data, shown)

LEMMA TargetIs == \A s \in Feed!Subs : Feed!TargetOf(s) \in Targets
BY DEF Feed!Subs, Feed!TargetOf

(* The answer and the result of a broadcast are as new as the graph.       *)
LEMMA SendRises ==
  ASSUME FInv, NEW s \in Feed!Subs, NEW msg \in Messages, msg.sub = s,
         msg.data \in {data[s], Feed!Nothing}, Feed!Send(Feed!TargetOf(s), msg),
         UNCHANGED <<data, shown>>
  PROVE  /\ line' \in [Targets -> Seq(Messages)]
         /\ \A t \in Targets : Rising(t, line'[t], data', shown')
<1>1. PICK to \in Targets : to = Feed!TargetOf(s) BY TargetIs
<1> DEFINE queue == line[to]
           next == Append(queue, msg)
<1>2. line' = [line EXCEPT ![to] = next] /\ line \in [Targets -> Seq(Messages)]
  BY <1>1 DEF Feed!Send, FInv, FTyped
<1>3. queue \in Seq(Messages) BY <1>2
<1>4. /\ next \in Seq(Messages) /\ Len(next) = Len(queue) + 1
      /\ next[Len(queue) + 1] = msg /\ \A n \in 1 .. Len(queue) : next[n] = queue[n]
  BY <1>3
<1>5. DOMAIN next = 1 .. Len(queue) + 1 /\ DOMAIN queue = 1 .. Len(queue)
  BY <1>3, <1>4
<1>6. data[s] \in Nat /\ shown[s] \in Nat /\ shown[s] <= data[s] BY DEF FInv, FTyped
<1>7. Rising(to, queue, data, shown) BY DEF FInv
<1>8. Len(queue) \in Nat BY <1>3
<1>9. ASSUME NEW n \in 1 .. Len(queue)
      PROVE queue[n] \in Messages /\ queue[n].data <= data[queue[n].sub]
  BY <1>3, <1>5, <1>7 DEF Rising
<1> HIDE DEF next, queue
<1>10. Rising(to, next, data, shown)
  <2>1. ASSUME NEW n \in DOMAIN next
        PROVE  /\ Feed!TargetOf(next[n].sub) = to /\ next[n].data <= data[next[n].sub]
               /\ next[n].data # Feed!Nothing => shown[next[n].sub] <= next[n].data
    <3>1. CASE n \in 1 .. Len(queue) BY <1>4, <1>5, <1>7, <3>1 DEF Rising
    <3>2. CASE n = Len(queue) + 1 BY <1>1, <1>4, <1>6, <3>2 DEF Feed!Nothing
    <3> QED BY <1>5, <1>8, <2>1, <3>1, <3>2
  <2>2. ASSUME NEW m \in DOMAIN next, NEW n \in DOMAIN next,
               m < n, next[m].sub = next[n].sub,
               next[m].data # Feed!Nothing, next[n].data # Feed!Nothing
        PROVE  next[m].data <= next[n].data
    <3>1. m \in 1 .. Len(queue) BY <1>5, <1>8, <2>2
    <3>2. CASE n \in 1 .. Len(queue)
      BY <1>4, <1>5, <1>7, <2>2, <3>1, <3>2 DEF Rising
    <3>3. CASE n = Len(queue) + 1
      <4>1. next[n].data = data[s] /\ next[m] = queue[m] /\ next[m].sub = s
        BY <1>4, <2>2, <3>1, <3>3
      <4> QED BY <1>9, <3>1, <4>1
    <3> QED BY <1>5, <1>8, <2>2, <3>2, <3>3
  <2> QED BY <2>1, <2>2 DEF Rising
<1>11. \A t \in Targets : Rising(t, line'[t], data', shown')
  <2> SUFFICES ASSUME NEW t \in Targets PROVE Rising(t, line'[t], data, shown) OBVIOUS
  <2>1. CASE t = to BY <1>2, <1>10, <2>1
  <2>2. CASE t # to BY <1>2, <2>2 DEF FInv
  <2> QED BY <2>1, <2>2
<1> QED BY <1>2, <1>4, <1>11

LEMMA SubscribeStays == ASSUME FInv, NEW s \in Feed!Subs, Feed!Subscribe(s) PROVE FInv'
<1> DEFINE msg == [sub |-> s, data |-> data[s], by |-> "answer"]
<1>1. msg \in Messages BY DEF FInv, FTyped, Messages
<1>2. Feed!Send(Feed!TargetOf(s), msg) /\ UNCHANGED <<data, shown, call>>
  BY DEF Feed!Subscribe
<1>3. msg.sub = s /\ msg.data = data[s] OBVIOUS
<1> HIDE DEF msg
<1>4. /\ line' \in [Targets -> Seq(Messages)]
      /\ \A t \in Targets : Rising(t, line'[t], data', shown')
  BY <1>1, <1>2, <1>3, SendRises
<1>5. subs' \in [Targets -> SUBSET Feed!Subs] /\ opened' \subseteq Targets
  BY TargetIs DEF Feed!Subscribe, FInv, FTyped
<1> QED BY <1>2, <1>4, <1>5 DEF FInv, FTyped

LEMMA PushStays == ASSUME FInv, NEW c \in Calls, Feed!Push(c) PROVE FInv'
<1>1. PICK s \in call[c].ids :
        LET t == Feed!TargetOf(s)
            waits == Feed!Reaches(t, call[c].bare)
            told == t \notin granted \/ data[s] # last[s] IN
        /\ call' = [call EXCEPT ![c].ids = @ \ {s},
                                ![c].at = IF told /\ waits THEN t ELSE "next"]
        /\ IF told /\ waits
           THEN Feed!Send(t, [sub |-> s, by |-> c,
                         data |-> IF t \in granted THEN data[s] ELSE Feed!Nothing])
           ELSE UNCHANGED line
        /\ IF t \in granted
           THEN last' = [last EXCEPT ![s] = data[s]] /\ UNCHANGED subs
           ELSE /\ last' = [last EXCEPT ![s] = Feed!Nothing]
                /\ subs' = IF t \in opened THEN [subs EXCEPT ![t] = @ \ {s}] ELSE subs
  BY DEF Feed!Push
<1>2. call[c] \in Rounds /\ s \in Feed!Subs BY <1>1 DEF FInv, FTyped, Rounds
<1>3. UNCHANGED <<data, shown>> BY DEF Feed!Push
<1> DEFINE msg == [sub |-> s, by |-> c,
                   data |-> IF Feed!TargetOf(s) \in granted THEN data[s] ELSE Feed!Nothing]
           one == [call[c] EXCEPT !.ids = @ \ {s}]
<1>4. msg \in Messages /\ msg.sub = s /\ msg.data \in {data[s], Feed!Nothing}
  BY <1>2 DEF FInv, FTyped, Messages, Feed!Nothing
<1>5. Feed!Send(Feed!TargetOf(s), msg) \/ UNCHANGED line BY <1>1
<1>6. PICK to : /\ to \in {Feed!TargetOf(s), "next"}
                /\ call' = [call EXCEPT ![c].ids = @ \ {s}, ![c].at = to]
  BY <1>1
<1> HIDE DEF msg
<1>7. /\ line' \in [Targets -> Seq(Messages)]
      /\ \A t \in Targets : Rising(t, line'[t], data', shown')
  <2>1. CASE Feed!Send(Feed!TargetOf(s), msg) BY <1>2, <1>3, <1>4, <2>1, SendRises
  <2>2. CASE UNCHANGED line BY <1>3, <2>2 DEF FInv, FTyped
  <2> QED BY <1>5, <2>1, <2>2
<1>8. call' \in [Calls -> Rounds]
  <2>1. one \in Rounds BY <1>2 DEF Rounds
  <2>2. call' = [call EXCEPT ![c] = [one EXCEPT !.at = to]]
    BY <1>2, <1>6 DEF FInv, FTyped, Rounds
  <2>3. to \in {"next"} \cup Targets BY <1>2, <1>6, TargetIs
  <2> HIDE DEF one
  <2>4. [one EXCEPT !.at = to] \in Rounds BY <2>1, <2>3 DEF Rounds
  <2> QED BY <2>2, <2>4 DEF FInv, FTyped
<1>9. subs' \in [Targets -> SUBSET Feed!Subs]
  <2>1. subs' \in {subs, [subs EXCEPT ![Feed!TargetOf(s)] = @ \ {s}]} BY <1>1
  <2> QED BY <1>2, <2>1, TargetIs DEF FInv, FTyped
<1>10. opened' \subseteq Targets BY DEF Feed!Push, FInv, FTyped
<1> QED BY <1>3, <1>7, <1>8, <1>9, <1>10 DEF FInv, FTyped

(* The oldest message of a target is the next result that is shown.        *)
LEMMA DeliverStays ==
  ASSUME FInv, NEW t \in Targets, Feed!Deliver(t) PROVE FInv' /\ Feed!NeverBackwardsStep
<1> DEFINE queue == line[t]
           msg == queue[1]
           s == msg.sub
           next == Tail(queue)
<1>1. /\ queue \in Seq(Messages) /\ queue # <<>> /\ line \in [Targets -> Seq(Messages)]
      /\ data \in [Feed!Subs -> Nat] /\ shown \in [Feed!Subs -> Nat]
  BY DEF Feed!Deliver, FInv, FTyped
<1>2. line' = [line EXCEPT ![t] = next]
  <2>1. Feed!RemoveAt(queue, 1) = SubSeq(queue, 1, 0) \o SubSeq(queue, 2, Len(queue))
    BY DEF Feed!RemoveAt
  <2>2. SubSeq(queue, 1, 0) = <<>> BY <1>1
  <2>3. SubSeq(queue, 2, Len(queue)) = Tail(queue) BY <1>1
  <2>4. <<>> \o Tail(queue) = Tail(queue) BY <1>1
  <2>5. line' = [line EXCEPT ![t] = Feed!RemoveAt(queue, 1)]
    BY <1>1 DEF Feed!Deliver, Feed!Leaves
  <2> QED BY <2>1, <2>2, <2>3, <2>4, <2>5
<1>3. /\ next \in Seq(Messages) /\ Len(queue) \in Nat \ {0} /\ Len(next) = Len(queue) - 1
      /\ \A n \in 1 .. Len(next) : next[n] = queue[n + 1]
  BY <1>1
<1>4. DOMAIN next = 1 .. Len(next) /\ DOMAIN queue = 1 .. Len(queue) /\ 1 \in DOMAIN queue
  BY <1>1, <1>3
<1>5. Rising(t, queue, data, shown) /\ \A u \in Feed!Subs : shown[u] <= data[u] BY DEF FInv
<1>6. msg \in Messages /\ s \in Feed!Subs /\ msg.data \in Nat
  <2>1. msg \in Messages BY <1>1, <1>4
  <2> HIDE DEF msg
  <2> QED BY <2>1 DEF Messages
<1>7. /\ Feed!TargetOf(s) = t /\ msg.data <= data[s]
      /\ msg.data # Feed!Nothing => shown[s] <= msg.data
  BY <1>4, <1>5 DEF Rising
<1>8. shown' = shown \/ (msg.data # Feed!Nothing /\ shown' = [shown EXCEPT ![s] = msg.data])
  BY DEF Feed!Deliver, Feed!Leaves
<1>9. UNCHANGED <<data, subs>> BY DEF Feed!Deliver, Feed!Leaves
<1>10. ASSUME NEW n \in 1 .. Len(next)
       PROVE  /\ next[n] = queue[n + 1] /\ next[n] \in Messages
              /\ n + 1 \in DOMAIN queue /\ 1 < n + 1
  BY <1>1, <1>3, <1>4
<1> HIDE DEF next, msg, s
<1>11. /\ shown' \in [Feed!Subs -> Nat]
       /\ \A u \in Feed!Subs : shown[u] <= shown'[u] /\ shown'[u] <= data[u]
       /\ \A u \in Feed!Subs : u # s => shown'[u] = shown[u]
       /\ shown'[s] = shown[s] \/ (msg.data # Feed!Nothing /\ shown'[s] = msg.data)
  <2>1. CASE shown' = shown
    BY <1>1, <1>5, <2>1
  <2>2. CASE msg.data # Feed!Nothing /\ shown' = [shown EXCEPT ![s] = msg.data]
    <3>1. /\ shown' \in [Feed!Subs -> Nat] /\ shown'[s] = msg.data
          /\ \A u \in Feed!Subs : u # s => shown'[u] = shown[u]
      BY <1>1, <1>6, <2>2
    <3>2. ASSUME NEW u \in Feed!Subs PROVE shown[u] <= shown'[u] /\ shown'[u] <= data[u]
      <4>1. CASE u = s BY <1>7, <2>2, <3>1, <4>1
      <4>2. CASE u # s BY <1>1, <1>5, <3>1, <4>2
      <4> QED BY <4>1, <4>2
    <3> QED BY <2>2, <3>1, <3>2
  <2> QED BY <1>8, <2>1, <2>2
<1>12. Rising(t, next, data, shown')
  <2>1. ASSUME NEW n \in DOMAIN next
        PROVE  /\ Feed!TargetOf(next[n].sub) = t /\ next[n].data <= data[next[n].sub]
               /\ next[n].data # Feed!Nothing => shown'[next[n].sub] <= next[n].data
    <3>1. /\ next[n] = queue[n + 1] /\ next[n] \in Messages /\ n + 1 \in DOMAIN queue
          /\ 1 < n + 1
      BY <1>4, <1>10
    <3>2. /\ Feed!TargetOf(next[n].sub) = t /\ next[n].data <= data[next[n].sub]
          /\ next[n].data # Feed!Nothing => shown[next[n].sub] <= next[n].data
      BY <1>5, <3>1 DEF Rising
    <3>3. ASSUME next[n].data # Feed!Nothing, next[n].sub = s, msg.data # Feed!Nothing
          PROVE  msg.data <= next[n].data
      BY <1>4, <1>5, <3>1, <3>3 DEF Rising, msg, s
    <3> QED BY <1>11, <3>1, <3>2, <3>3 DEF Messages
  <2>2. ASSUME NEW m \in DOMAIN next, NEW n \in DOMAIN next,
               m < n, next[m].sub = next[n].sub,
               next[m].data # Feed!Nothing, next[n].data # Feed!Nothing
        PROVE  next[m].data <= next[n].data
    <3>1. /\ next[m] = queue[m + 1] /\ m + 1 \in DOMAIN queue
          /\ next[n] = queue[n + 1] /\ n + 1 \in DOMAIN queue /\ m + 1 < n + 1
      BY <1>4, <1>10, <2>2, <1>3
    <3> QED BY <1>5, <2>2, <3>1 DEF Rising
  <2> QED BY <2>1, <2>2 DEF Rising
<1>13. \A u \in Targets : Rising(u, line'[u], data', shown')
  <2> SUFFICES ASSUME NEW u \in Targets PROVE Rising(u, line'[u], data, shown') BY <1>9
  <2>1. CASE u = t BY <1>1, <1>2, <1>12, <2>1
  <2>2. CASE u # t
    <3>1. line'[u] = line[u] /\ Rising(u, line[u], data, shown) BY <1>1, <1>2, <2>2 DEF FInv
    <3>2. \A n \in DOMAIN line[u] : line[u][n] \in Messages BY <1>1
    <3>3. \A n \in DOMAIN line[u] : line[u][n].sub # s
      BY <1>7, <2>2, <3>1 DEF Rising
    <3> QED BY <1>11, <3>1, <3>2, <3>3 DEF Rising, Messages
  <2> QED BY <2>1, <2>2
<1>14. call' \in [Calls -> Rounds]
  <2>1. CASE call' = call BY <2>1 DEF FInv, FTyped
  <2>2. CASE msg.by \in Calls /\ call' = [call EXCEPT ![msg.by].at = "next"]
    <3>1. call[msg.by] \in Rounds BY <2>2 DEF FInv, FTyped
    <3>2. [call[msg.by] EXCEPT !.at = "next"] \in Rounds BY <3>1 DEF Rounds
    <3> QED BY <2>2, <3>2 DEF FInv, FTyped
  <2> QED BY <2>1, <2>2 DEF Feed!Deliver, Feed!Leaves, msg
<1>15. line' \in [Targets -> Seq(Messages)] BY <1>1, <1>2, <1>3
<1>16. \A u \in Feed!Subs : shown'[u] <= data'[u] BY <1>9, <1>11
<1>17. opened' \subseteq Targets BY DEF Feed!Deliver, Feed!Leaves, FInv, FTyped
<1>18. FInv'
  BY <1>1, <1>9, <1>11, <1>13, <1>14, <1>15, <1>16, <1>17 DEF FInv, FTyped
<1>19. Feed!NeverBackwardsStep BY <1>1, <1>11 DEF Feed!NeverBackwardsStep
<1> QED BY <1>18, <1>19

(* The graph goes on, and whoever is gone hears nothing of it.             *)
LEMMA ChangedStays ==
  ASSUME FInv, Feed!Changed, call' \in [Calls -> Rounds], UNCHANGED <<opened, subs, line, shown>>
  PROVE  FInv'
<1>1. PICK S \in SUBSET Feed!Subs :
        data' = [s \in Feed!Subs |-> IF s \in S THEN data[s] + 1 ELSE data[s]]
  BY DEF Feed!Changed
<1>2. data' \in [Feed!Subs -> Nat] /\ \A s \in Feed!Subs : data[s] <= data'[s]
  BY <1>1 DEF FInv, FTyped
<1>3. \A s \in Feed!Subs : shown'[s] <= data'[s] BY <1>2 DEF FInv, FTyped
<1>4. ASSUME NEW t \in Targets PROVE Rising(t, line'[t], data', shown')
  <2>1. \A n \in DOMAIN line[t] : line[t][n] \in Messages BY DEF FInv, FTyped
  <2>2. Rising(t, line[t], data, shown) BY DEF FInv
  <2> QED BY <1>2, <2>1, <2>2 DEF Rising, Messages, FInv, FTyped
<1> QED BY <1>2, <1>3, <1>4 DEF FInv, FTyped

LEMMA DisconnectStays == ASSUME FInv, NEW t \in Targets, Feed!Disconnect(t) PROVE FInv'
<1>1. line' = [line EXCEPT ![t] = <<>>] /\ UNCHANGED <<data, subs, shown>> BY DEF Feed!Disconnect
<1>2. line' \in [Targets -> Seq(Messages)] BY <1>1 DEF FInv, FTyped
<1>3. Rising(t, <<>>, data, shown) BY DEF Rising
<1>4. \A u \in Targets : Rising(u, line'[u], data', shown')
  <2> SUFFICES ASSUME NEW u \in Targets PROVE Rising(u, line'[u], data, shown) BY <1>1
  <2>1. CASE u = t BY <1>1, <1>3, <2>1 DEF FInv, FTyped
  <2>2. CASE u # t BY <1>1, <2>2 DEF FInv, FTyped
  <2> QED BY <2>1, <2>2
<1>5. call' \in [Calls -> Rounds]
  <2>1. call' = [c \in Calls |-> IF call[c].at = t THEN [call[c] EXCEPT !.at = "next"]
                                 ELSE call[c]]
    BY DEF Feed!Disconnect
  <2>2. ASSUME NEW c \in Calls PROVE call'[c] \in Rounds
    <3>1. call[c] \in Rounds BY DEF FInv, FTyped
    <3>2. [call[c] EXCEPT !.at = "next"] \in Rounds BY <3>1 DEF Rounds
    <3> QED BY <2>1, <3>1, <3>2
  <2> QED BY <2>1, <2>2
<1>6. subs' \in [Targets -> SUBSET Feed!Subs] /\ opened' \subseteq Targets
  BY DEF Feed!Disconnect, FInv, FTyped
<1> QED BY <1>1, <1>2, <1>4, <1>5, <1>6 DEF FInv, FTyped

LEMMA CallsStay ==
  ASSUME FInv, call' \in [Calls -> Rounds], subs' \in [Targets -> SUBSET Feed!Subs],
         UNCHANGED <<data, line, shown>>, opened' \subseteq Targets
  PROVE  FInv'
BY DEF FInv, FTyped

LEMMA TaskMoves ==
  ASSUME FInv, NEW c \in Calls,
         Feed!Commit(c) \/ Feed!FailedRollback(c) \/ Feed!Broadcast(c) \/ Feed!Visit(c)
  PROVE  call' \in [Calls -> Rounds]
<1>1. call \in [Calls -> Rounds] /\ call[c] \in Rounds /\ subs \in [Targets -> SUBSET Feed!Subs]
  BY DEF FInv, FTyped
<1> DEFINE told == [call[c] EXCEPT !.at = "committed"]
           sent == [call[c] EXCEPT !.at = "next"]
<1>2. told \in Rounds /\ sent \in Rounds BY <1>1 DEF Rounds
<1>3. CASE Feed!Commit(c)
  <2>1. PICK bare \in BOOLEAN : call' = [call EXCEPT ![c].at = "committed", ![c].bare = bare]
    BY <1>3 DEF Feed!Commit
  <2>2. call' = [call EXCEPT ![c] = [told EXCEPT !.bare = bare]] BY <1>1, <2>1 DEF Rounds
  <2> HIDE DEF told
  <2>3. [told EXCEPT !.bare = bare] \in Rounds BY <1>2 DEF Rounds
  <2> QED BY <1>1, <2>2, <2>3
<1>4. CASE Feed!FailedRollback(c)
  <2>1. call' = [call EXCEPT ![c].at = "committed", ![c].bare = TRUE]
    BY <1>4 DEF Feed!FailedRollback
  <2>2. call' = [call EXCEPT ![c] = [told EXCEPT !.bare = TRUE]] BY <1>1, <2>1 DEF Rounds
  <2> HIDE DEF told
  <2>3. [told EXCEPT !.bare = TRUE] \in Rounds BY <1>2 DEF Rounds
  <2> QED BY <1>1, <2>2, <2>3
<1>5. CASE Feed!Broadcast(c)
  <2>1. PICK some : /\ some = {t \in opened : subs[t] # {}}
                    /\ call' = [call EXCEPT ![c].at = "next", ![c].targets = some]
    BY <1>5 DEF Feed!Broadcast
  <2>2. call' = [call EXCEPT ![c] = [sent EXCEPT !.targets = some]]
    BY <1>1, <2>1 DEF Rounds
  <2> HIDE DEF sent
  <2>3. some \in SUBSET Targets BY <2>1 DEF FInv, FTyped
  <2>4. [sent EXCEPT !.targets = some] \in Rounds BY <1>2, <2>3 DEF Rounds
  <2> QED BY <1>1, <2>2, <2>4
<1>6. CASE Feed!Visit(c)
  <2>1. CASE call' = [call EXCEPT ![c] = Feed!Idle]
    <3>1. Feed!Idle \in Rounds BY DEF Feed!Idle, Rounds
    <3> QED BY <1>1, <2>1, <3>1
  <2>2. CASE \E t \in call[c].targets :
               call' = [call EXCEPT ![c].targets = @ \ {t}, ![c].ids = subs[t]]
    <3>1. PICK t \in Targets :
            call' = [call EXCEPT ![c].targets = @ \ {t}, ![c].ids = subs[t]]
      BY <1>1, <2>2 DEF Rounds
    <3> DEFINE one == [call[c] EXCEPT !.targets = @ \ {t}]
    <3>2. one \in Rounds BY <1>1 DEF Rounds
    <3>3. call' = [call EXCEPT ![c] = [one EXCEPT !.ids = subs[t]]]
      BY <1>1, <3>1 DEF Rounds
    <3> HIDE DEF one
    <3>4. [one EXCEPT !.ids = subs[t]] \in Rounds BY <1>1, <3>2 DEF Rounds
    <3> QED BY <1>1, <3>3, <3>4
  <2> QED BY <1>6, <2>1, <2>2 DEF Feed!Visit
<1> QED BY <1>3, <1>4, <1>5, <1>6

LEMMA FInvInit == ASSUME Feed!Init PROVE FInv
<1>1. /\ data \in [Feed!Subs -> Nat] /\ shown \in [Feed!Subs -> Nat]
      /\ subs \in [Targets -> SUBSET Feed!Subs] /\ opened \subseteq Targets
      /\ line \in [Targets -> Seq(Messages)] /\ \A s \in Feed!Subs : shown[s] <= data[s]
  BY DEF Feed!Init, Feed!Nothing
<1>2. Feed!Idle \in Rounds BY DEF Feed!Idle, Rounds
<1>3. call \in [Calls -> Rounds] BY <1>2 DEF Feed!Init
<1>4. \A t \in Targets : Rising(t, line[t], data, shown) BY DEF Feed!Init, Rising
<1> QED BY <1>1, <1>3, <1>4 DEF FInv, FTyped

LEMMA FInvStep == ASSUME FInv, [Feed!Next]_(Feed!vars) PROVE FInv' /\ Feed!NeverBackwardsStep
<1>1. UNCHANGED shown => Feed!NeverBackwardsStep
  BY DEF Feed!NeverBackwardsStep, FInv, FTyped
<1>2. CASE UNCHANGED Feed!vars BY <1>1, <1>2, CallsStay DEF Feed!vars, FInv, FTyped
<1>3. ASSUME NEW t \in Targets, Feed!Deliver(t) PROVE FInv' /\ Feed!NeverBackwardsStep
  BY <1>3, DeliverStays
<1>4. ASSUME NEW s \in Feed!Subs, Feed!Subscribe(s) \/ Feed!Unsubscribe(s)
      PROVE  FInv' /\ Feed!NeverBackwardsStep
  <2>1. CASE Feed!Subscribe(s) BY <1>1, <2>1, SubscribeStays DEF Feed!Subscribe
  <2>2. CASE Feed!Unsubscribe(s)
    <3>1. subs' \in [Targets -> SUBSET Feed!Subs]
      BY <2>2, TargetIs DEF Feed!Unsubscribe, FInv, FTyped
    <3> QED BY <1>1, <2>2, <3>1, CallsStay DEF Feed!Unsubscribe, FInv, FTyped
  <2> QED BY <1>4, <2>1, <2>2
<1>5. ASSUME NEW t \in Targets, Feed!Disconnect(t) \/ Feed!Revoke(t)
      PROVE  FInv' /\ Feed!NeverBackwardsStep
  <2>1. CASE Feed!Disconnect(t) BY <1>1, <2>1, DisconnectStays DEF Feed!Disconnect
  <2>2. CASE Feed!Revoke(t) BY <1>1, <2>2, CallsStay DEF Feed!Revoke, FInv, FTyped
  <2> QED BY <1>5, <2>1, <2>2
<1>6. ASSUME NEW c \in Calls, Feed!Commit(c) PROVE FInv' /\ Feed!NeverBackwardsStep
  BY <1>1, <1>6, TaskMoves, ChangedStays DEF Feed!Commit
<1>7. ASSUME NEW c \in Calls, Feed!FailedRollback(c) \/ Feed!Broadcast(c) \/ Feed!Visit(c)
      PROVE  FInv' /\ Feed!NeverBackwardsStep
  <2>1. call' \in [Calls -> Rounds] BY <1>7, TaskMoves
  <2>2. UNCHANGED <<data, opened, subs, line, shown>>
    BY <1>7 DEF Feed!FailedRollback, Feed!Broadcast, Feed!Visit
  <2> QED BY <1>1, <2>1, <2>2, CallsStay DEF FInv, FTyped
<1>8. ASSUME NEW c \in Calls, Feed!Push(c) PROVE FInv' /\ Feed!NeverBackwardsStep
  BY <1>1, <1>8, PushStays DEF Feed!Push
<1>9. CASE Feed!CommitUnseen
  BY <1>1, <1>9, ChangedStays DEF Feed!CommitUnseen, FInv, FTyped
<1> QED BY <1>2, <1>3, <1>4, <1>5, <1>6, <1>7, <1>8, <1>9 DEF Feed!Next

LEMMA FeedStep ==
  ASSUME [Next]_vars, component = "feed"
  PROVE  component' = component /\ [Feed!Next]_(Feed!vars)
<1>1. CASE UNCHANGED vars BY <1>1 DEF vars, Feed!vars
<1>2. CASE Next
  <2>1. component' = component /\ Feed!Next BY <1>2 DEF Next
  <2> QED BY <2>1
<1> QED BY <1>1, <1>2

(* The callback of a live query is never given an older result than the    *)
(* one before, however answers to subscriptions, broadcasts of different   *)
(* commands, revoked grants and disconnections interleave on a connection  *)
(* (graph_subscription.py broadcast_updates, main.py                       *)
(* _send_graph_subscription_payload).                                      *)
THEOREM AlwaysForwards == Spec => NeverBackwards
<1> DEFINE Inv == component = "feed" => FInv
           Forwards == component = "feed" => Feed!NeverBackwardsStep
<1>1. Init => Inv
  <2> SUFFICES ASSUME Init, component = "feed" PROVE FInv OBVIOUS
  <2>1. Feed!Init BY DEF Init
  <2> QED BY <2>1, FInvInit
<1>2. Inv /\ [Next]_vars => Inv'
  <2> SUFFICES ASSUME Inv, [Next]_vars, component' = "feed" PROVE FInv' OBVIOUS
  <2>1. component = "feed" BY DEF Next, vars
  <2>2. FInv BY <2>1
  <2> QED BY <2>1, <2>2, FeedStep, FInvStep
<1>3. Inv /\ [Next]_vars => [Forwards]_vars
  <2> SUFFICES ASSUME Inv, [Next]_vars, component = "feed" PROVE Feed!NeverBackwardsStep
    OBVIOUS
  <2> QED BY FeedStep, FInvStep
<1> QED BY <1>1, <1>2, <1>3, PTL DEF Spec, NeverBackwards
HIDE DEF data, commits, granted, opened, subs, last, line, shown, call

-----------------------------------------------------------------------------
(* App directories (AppDirectory).  The component and the module of its    *)
(* proofs are the same specification, and a behaviour that picked the      *)
(* component is a behaviour of it.                                         *)
D == INSTANCE AppDirectory_proofs WITH
  live <- v1, stage <- v2, backup <- v3, journal <- v4, thread <- v5,
  tomb <- v6, record <- v7, proc <- v8, mishaps <- v9, wish <- v10

LEMMA DirInit == Dir!Init <=> D!Init
BY DEF Dir!Init, Dir!Absent, Dir!Free, D!Init, D!Absent, D!Free
LEMMA DirNext == Dir!Next <=> D!Next
<1>1. \A p : Dir!Stage(p) <=> D!Stage(p)
  BY DEF Dir!Stage, Dir!Up, Dir!Cardinality, D!Stage, D!Up, D!Cardinality
<1>2. \A p : Dir!Decide(p) <=> D!Decide(p)
  BY DEF Dir!Decide, Dir!Absent, Dir!Exists, Dir!Up, D!Decide, D!Absent, D!Exists, D!Up
<1>3. \A p : Dir!MoveDirect(p) <=> D!MoveDirect(p)
  BY DEF Dir!MoveDirect, Dir!Absent, Dir!Exists, Dir!Goes, Dir!Publishes, Dir!Up, D!MoveDirect,
         D!Absent, D!Exists, D!Goes, D!Publishes, D!Up
<1>4. \A p : Dir!MoveOut(p) <=> D!MoveOut(p)
  BY DEF Dir!MoveOut, Dir!Absent, Dir!Exists, Dir!Goes, Dir!Up, D!MoveOut, D!Absent, D!Exists,
         D!Goes, D!Up
<1>5. \A p : Dir!MoveIn(p) <=> D!MoveIn(p)
  BY DEF Dir!MoveIn, Dir!Absent, Dir!Exists, Dir!Goes, Dir!Publishes, Dir!Up, D!MoveIn, D!Absent,
         D!Exists, D!Goes, D!Publishes, D!Up
<1>6. \A p : Dir!MoveInFails(p) <=> D!MoveInFails(p)
  BY DEF Dir!MoveInFails, Dir!Absent, Dir!Exists, Dir!Goes, Dir!Loses, Dir!Mishap, Dir!Unlinks,
         Dir!Up, D!MoveInFails, D!Absent, D!Exists, D!Goes, D!Loses, D!Mishap, D!Unlinks, D!Up
<1>7. \A p : Dir!DropBackup(p) <=> D!DropBackup(p)
  BY DEF Dir!DropBackup, Dir!Absent, Dir!Goes, Dir!Mishap, Dir!Up, D!DropBackup, D!Absent, D!Goes,
         D!Mishap, D!Up
<1>8. \A p : Dir!DropJournal(p) <=> D!DropJournal(p)
  BY DEF Dir!DropJournal, Dir!Goes, Dir!Mishap, Dir!Up, D!DropJournal, D!Goes, D!Mishap, D!Up
<1>9. \A p : Dir!Recover(p) <=> D!Recover(p)
  BY DEF Dir!Recover, Dir!Absent, Dir!Exists, D!Recover, D!Absent, D!Exists
<1>10. Dir!ReadApps <=> D!ReadApps
  BY DEF Dir!ReadApps, Dir!Absent, Dir!Adopted, Dir!Disposable, Dir!Exists, Dir!Idle, Dir!Intact,
         Dir!Reconciled, Dir!Restorable, Dir!Swept, D!ReadApps, D!Absent, D!Adopted, D!Disposable,
         D!Exists, D!Idle, D!Intact, D!Reconciled, D!Restorable, D!Swept
<1>11. Dir!UpdateProperties <=> D!UpdateProperties
  BY DEF Dir!UpdateProperties, Dir!Idle, Dir!Intact, D!UpdateProperties, D!Idle, D!Intact
<1>12. Dir!AuthorizeWrite <=> D!AuthorizeWrite
  BY DEF Dir!AuthorizeWrite, Dir!Absent, Dir!Adopted, Dir!Disposable, Dir!Exists, Dir!Idle,
         Dir!Intact, Dir!Reconciled, Dir!Restorable, Dir!Swept, D!AuthorizeWrite, D!Absent,
         D!Adopted, D!Disposable, D!Exists, D!Idle, D!Intact, D!Reconciled, D!Restorable, D!Swept
<1>13. Dir!WriteFile <=> D!WriteFile
  BY DEF Dir!WriteFile, Dir!Absent, Dir!Exists, Dir!Free, D!WriteFile, D!Absent, D!Exists, D!Free
<1>14. \A d : Dir!DeleteRename(d) <=> D!DeleteRename(d)
  BY DEF Dir!DeleteRename, Dir!Absent, Dir!Exists, Dir!Free, Dir!Idle, D!DeleteRename, D!Absent,
         D!Exists, D!Free, D!Idle
<1>15. Dir!DeleteCommit <=> D!DeleteCommit
  BY DEF Dir!DeleteCommit, Dir!Absent, Dir!Exists, Dir!files, D!DeleteCommit, D!Absent, D!Exists,
         D!files
<1>16. Dir!DeleteFails <=> D!DeleteFails
  BY DEF Dir!DeleteFails, Dir!Absent, Dir!Exists, Dir!Free, Dir!Loses, Dir!Mishap, D!DeleteFails,
         D!Absent, D!Exists, D!Free, D!Loses, D!Mishap
<1>17. Dir!DeleteDispose <=> D!DeleteDispose
  BY DEF Dir!DeleteDispose, Dir!Absent, Dir!Free, Dir!Mishap, D!DeleteDispose, D!Absent, D!Free,
         D!Mishap
<1>18. Dir!Crash <=> D!Crash
  BY DEF Dir!Crash, Dir!Down, Dir!Free, Dir!Mishap, Dir!files, D!Crash, D!Down, D!Free, D!Mishap,
         D!files
<1>19. Dir!Restart <=> D!Restart
  BY DEF Dir!Restart, Dir!Absent, Dir!Adopted, Dir!Disposable, Dir!Exists, Dir!Free, Dir!Intact,
         Dir!Reconciled, Dir!Restorable, Dir!Swept, D!Restart, D!Absent, D!Adopted, D!Disposable,
         D!Exists, D!Free, D!Intact, D!Reconciled, D!Restorable, D!Swept
<1>20. Dir!ClearJournal <=> D!ClearJournal
  BY DEF Dir!ClearJournal, D!ClearJournal
<1>21. Dir!Opened <=> D!Opened
  BY DEF Dir!Opened, Dir!Free, Dir!files, D!Opened, D!Free, D!files
<1> QED BY <1>1, <1>2, <1>3, <1>4, <1>5, <1>6, <1>7, <1>8, <1>9, <1>10, <1>11, <1>12, <1>13,
         <1>14, <1>15, <1>16, <1>17, <1>18, <1>19, <1>20, <1>21
        DEF Dir!Next, D!Next

LEMMA DirStep ==
  ASSUME [Next]_vars, component = "directory" PROVE component' = component /\ [D!Next]_(D!vars)
<1>1. CASE UNCHANGED vars BY <1>1 DEF vars, D!vars
<1>2. CASE Next
  <2>1. component' = component /\ Dir!Next BY <1>2 DEF Next
  <2> QED BY <2>1, DirNext
<1> QED BY <1>1, <1>2

LEMMA DirDirectoryIsWhole == Dir!DirectoryIsWhole <=> D!DirectoryIsWhole
BY DEF Dir!DirectoryIsWhole, Dir!Absent, Dir!AppSurvives, Dir!Exists, Dir!Idle, Dir!Intact,
       Dir!RecordMatches, Dir!Settled, D!DirectoryIsWhole, D!Absent, D!AppSurvives, D!Exists,
       D!Idle, D!Intact, D!RecordMatches, D!Settled

(* However often the process crashed, a rename or a deletion failed, and   *)
(* however many promotions overlap: once things have settled, an App that  *)
(* nobody deleted is there and readable, and no lifecycle record outlives  *)
(* its App, unless the rename that was to put the App back failed as well  *)
(* and no promotion has published one since (coding_agent_acp.py promote,  *)
(* app_manager.py delete_app).                                             *)
THEOREM AlwaysWhole == ASSUME D!Names, D!Bounds PROVE Spec => []DirectoryIsWhole
<1> DEFINE Inv == component = "directory" => D!IInv
<1>1. Init => Inv
  <2> SUFFICES ASSUME Init, component = "directory" PROVE D!IInv OBVIOUS
  <2>1. Dir!Init BY DEF Init
  <2> QED BY <2>1, DirInit, D!Init_IInv
<1>2. Inv /\ [Next]_vars => Inv'
  <2> SUFFICES ASSUME Inv, [Next]_vars, component' = "directory" PROVE D!IInv' OBVIOUS
  <2>1. component = "directory" BY DEF Next, vars
  <2>2. D!IInv BY <2>1
  <2> QED BY <2>1, <2>2, DirStep, D!IInvStep
<1>3. Inv => DirectoryIsWhole
  <2> SUFFICES ASSUME D!IInv PROVE Dir!DirectoryIsWhole BY DEF DirectoryIsWhole
  <2>1. D!DirectoryIsWhole BY D!WholeFromIInv
  <2> QED BY <2>1, DirDirectoryIsWhole
<1> QED BY <1>1, <1>2, <1>3, PTL DEF Spec

LEMMA DirLastPublished == Dir!LastPublished <=> D!LastPublished
BY DEF Dir!LastPublished, Dir!Idle, Dir!Settled, D!LastPublished, D!Idle, D!Settled

(* While the promotions of an App follow each other and at most one thing  *)
(* goes wrong, the App in place is the one that was published last, as     *)
(* long as nobody asked to delete it and the rename that was to put it     *)
(* back did not fail as well (runs.md:39, coding_agent_acp.py promote and  *)
(* recover_interrupted_coding_agent_promotions).                           *)
THEOREM AlwaysLastPublished == ASSUME D!Names, D!Bounds, D!OneByOne PROVE Spec => []LastPublished
<1> DEFINE Inv == component = "directory" => D!IInv /\ D!OInv
<1>1. Init => Inv
  <2> SUFFICES ASSUME Init, component = "directory" PROVE D!IInv /\ D!OInv OBVIOUS
  <2>1. Dir!Init BY DEF Init
  <2> QED BY <2>1, DirInit, D!Init_IInv, D!Init_OInv
<1>2. Inv /\ [Next]_vars => Inv'
  <2> SUFFICES ASSUME Inv, [Next]_vars, component' = "directory" PROVE D!IInv' /\ D!OInv' OBVIOUS
  <2>1. component = "directory" BY DEF Next, vars
  <2>2. D!IInv /\ D!OInv BY <2>1
  <2> QED BY <2>1, <2>2, DirStep, D!IInvStep, D!OInvStep
<1>3. Inv => LastPublished
  <2> SUFFICES ASSUME D!IInv /\ D!OInv PROVE Dir!LastPublished BY DEF LastPublished
  <2>1. D!LastPublished BY D!PublishedFromOInv
  <2> QED BY <2>1, DirLastPublished
<1> QED BY <1>1, <1>2, <1>3, PTL DEF Spec

-----------------------------------------------------------------------------
(* The event stream (EventStream), likewise.                               *)
S == INSTANCE EventStream_proofs WITH
  epoch <- v1, rows <- v2, highest <- v3, ended <- v4, link <- v5,
  asked <- v6, position <- v7, frames <- v8, cursor <- v9,
  replaying <- v10, gap <- v11, known <- v12, timer <- v13, tries <- v14,
  status <- v15, listening <- v16, base <- v17, projected <- v18

LEMMA StreamInit == Stream!Init <=> S!Init
BY DEF Stream!Init, Stream!Gone, Stream!NoEpoch, Stream!NoGap, Stream!Start, S!Init, S!Gone,
       S!NoEpoch, S!NoGap, S!Start
LEMMA StreamNext == Stream!Next <=> S!Next
<1>1. \A r, final : Stream!Record(r, final) <=> S!Record(r, final)
  BY DEF Stream!Record, Stream!reader, Stream!retry, Stream!view, Stream!wire, S!Record, S!reader,
         S!retry, S!view, S!wire
<1>2. \A r, upTo : Stream!Purge(r, upTo) <=> S!Purge(r, upTo)
  BY DEF Stream!Purge, Stream!reader, Stream!retry, Stream!view, Stream!wire, S!Purge, S!reader,
         S!retry, S!view, S!wire
<1>3. Stream!NewStore <=> S!NewStore
  BY DEF Stream!NewStore, Stream!Gone, Stream!reader, Stream!retry, Stream!view, S!NewStore,
         S!Gone, S!reader, S!retry, S!view
<1>4. Stream!Accept <=> S!Accept
  BY DEF Stream!Accept, Stream!Frame, Stream!Gone, Stream!Latest, Stream!NoEpoch, Stream!Start,
         Stream!reader, Stream!store, Stream!view, Stream!Max, S!Accept, S!Frame, S!Gone,
         S!Latest, S!NoEpoch, S!Start, S!reader, S!store, S!view, S!Max
<1>5. Stream!Poll <=> S!Poll
  BY DEF Stream!Poll, Stream!Frame, Stream!Gone, Stream!InOrder, Stream!Rank, Stream!reader,
         Stream!retry, Stream!store, Stream!view, Stream!Min, Stream!Last, Stream!Cardinality,
         S!Poll, S!Frame, S!Gone, S!InOrder, S!Rank, S!reader, S!retry, S!store, S!view, S!Min,
         S!Last, S!Cardinality
<1>6. Stream!TimerFires <=> S!TimerFires
  BY DEF Stream!TimerFires, Stream!Connect, Stream!Gone, Stream!NoEpoch, Stream!store,
         Stream!view, Stream!wire, S!TimerFires, S!Connect, S!Gone, S!NoEpoch, S!store, S!view,
         S!wire
<1>7. Stream!Lose <=> S!Lose
  BY DEF Stream!Lose, Stream!Gone, Stream!HangUp, Stream!NoEpoch, Stream!ScheduleReconnect,
         Stream!Start, Stream!reader, Stream!store, Stream!view, S!Lose, S!Gone, S!HangUp,
         S!NoEpoch, S!ScheduleReconnect, S!Start, S!reader, S!store, S!view
<1>8. Stream!RetryConnection <=> S!RetryConnection
  BY DEF Stream!RetryConnection, Stream!Gone, Stream!NoEpoch, Stream!store, Stream!view,
         S!RetryConnection, S!Gone, S!NoEpoch, S!store, S!view
<1>9. Stream!Receive <=> S!Receive
  BY DEF Stream!Receive, Stream!Gone, Stream!HangUp, Stream!NoEpoch, Stream!NoGap, Stream!Proceed,
         Stream!Remembered, Stream!ResetCursor, Stream!RestartStream, Stream!ScheduleReconnect,
         Stream!Start, Stream!TakeEvent, Stream!TakeGap, Stream!TakeReady, Stream!TakeReset,
         Stream!Unexplained, Stream!reader, Stream!retry, Stream!store, Stream!Contains,
         S!Receive, S!Gone, S!HangUp, S!NoEpoch, S!NoGap, S!Proceed, S!Remembered, S!ResetCursor,
         S!RestartStream, S!ScheduleReconnect, S!Start, S!TakeEvent, S!TakeGap, S!TakeReady,
         S!TakeReset, S!Unexplained, S!reader, S!retry, S!store, S!Contains
<1>10. Stream!Subscribe <=> S!Subscribe
  BY DEF Stream!Subscribe, Stream!Connect, Stream!Gone, Stream!NoEpoch, Stream!Start,
         Stream!store, Stream!wire, S!Subscribe, S!Connect, S!Gone, S!NoEpoch, S!Start, S!store,
         S!wire
<1>11. Stream!LoadRuns <=> S!LoadRuns
  BY DEF Stream!LoadRuns, Stream!NoEpoch, Stream!Start, Stream!reader, Stream!retry, Stream!store,
         Stream!wire, S!LoadRuns, S!NoEpoch, S!Start, S!reader, S!retry, S!store, S!wire
<1>12. Stream!Unsubscribe <=> S!Unsubscribe
  BY DEF Stream!Unsubscribe, Stream!NoEpoch, Stream!Start, Stream!reader, Stream!retry,
         Stream!store, Stream!wire, S!Unsubscribe, S!NoEpoch, S!Start, S!reader, S!retry, S!store,
         S!wire
<1>13. Stream!Reload <=> S!Reload
  BY DEF Stream!Reload, Stream!Gone, Stream!HangUp, Stream!NoEpoch, Stream!NoGap, Stream!Start,
         Stream!store, S!Reload, S!Gone, S!HangUp, S!NoEpoch, S!NoGap, S!Start, S!store
<1> QED BY <1>1, <1>2, <1>3, <1>4, <1>5, <1>6, <1>7, <1>8, <1>9, <1>10, <1>11, <1>12, <1>13
        DEF Stream!Next, S!Next

LEMMA StreamStep ==
  ASSUME [Next]_vars, component = "stream" PROVE component' = component /\ [S!Next]_(S!vars)
<1>1. CASE UNCHANGED vars BY <1>1 DEF vars, S!vars, S!view, S!retry, S!reader, S!wire, S!store
<1>2. CASE Next
  <2>1. component' = component /\ Stream!Next BY <1>2 DEF Next
  <2> QED BY <2>1, StreamNext
<1> QED BY <1>1, <1>2

LEMMA StreamNothingSkipped == Stream!NothingSkipped <=> S!NothingSkipped
BY DEF Stream!NothingSkipped, Stream!NoEpoch, Stream!Start, S!NothingSkipped, S!NoEpoch, S!Start

(* Whatever rows were purged, whichever database the backend was started   *)
(* on and however often the connection was lost or the page loaded again,  *)
(* a chat on display misses no event behind the cursor (websocket_runs,    *)
(* RunService.handleStreamControl, handleRunEvent).                        *)
THEOREM NeverSkipped == ASSUME S!Bounds PROVE Spec => []NothingSkipped
<1> DEFINE Inv == component = "stream" => S!SInv
<1>1. Init => Inv
  <2> SUFFICES ASSUME Init, component = "stream" PROVE S!SInv OBVIOUS
  <2>1. Stream!Init BY DEF Init
  <2> QED BY <2>1, StreamInit, S!SInvInit
<1>2. Inv /\ [Next]_vars => Inv'
  <2> SUFFICES ASSUME Inv, [Next]_vars, component' = "stream" PROVE S!SInv' OBVIOUS
  <2>1. component = "stream" BY DEF Next, vars
  <2>2. S!SInv BY <2>1
  <2> QED BY <2>1, <2>2, StreamStep, S!SInvStep
<1>3. Inv => NothingSkipped
  <2> SUFFICES ASSUME S!SInv PROVE Stream!NothingSkipped BY DEF NothingSkipped
  <2>1. S!NothingSkipped BY DEF S!SInv
  <2> QED BY <2>1, StreamNothingSkipped
<1> QED BY <1>1, <1>2, <1>3, PTL DEF Spec

-----------------------------------------------------------------------------
(* Processes of Backend Apps (BackendApps), likewise.                      *)
B == INSTANCE BackendApps_proofs WITH
  installed <- v1, permitted <- v2, holder <- v3, registered <- v4,
  clients <- v5, at <- v6, wants <- v7, uses <- v8, future <- v9,
  cancels <- v10, agentStatus <- v11

LEMMA BackendInit == Backend!Init <=> B!Init
BY DEF Backend!Init, Backend!ClientIds, Backend!NoClient, Backend!Nobody, Backend!Unmade, B!Init,
       B!ClientIds, B!NoClient, B!Nobody, B!Unmade
LEMMA BackendNext == Backend!Next <=> B!Next
<1>1. \A t : Backend!Ask(t) <=> B!Ask(t)
  BY DEF Backend!Ask, Backend!Go, B!Ask, B!Go
<1>2. \A t : Backend!Acquire(t) <=> B!Acquire(t)
  BY DEF Backend!Acquire, Backend!BeginStop, Backend!Failing, Backend!Go, Backend!Healthy,
         Backend!NoClient, Backend!Nobody, Backend!Request, Backend!Signalled, Backend!Told,
         B!Acquire, B!BeginStop, B!Failing, B!Go, B!Healthy, B!NoClient, B!Nobody, B!Request,
         B!Signalled, B!Told
<1>3. \A t : Backend!Replaced(t) <=> B!Replaced(t)
  BY DEF Backend!Replaced, Backend!Go, Backend!NoClient, Backend!Reaped, B!Replaced, B!Go,
         B!NoClient, B!Reaped
<1>4. \A t : Backend!Spawn(t) <=> B!Spawn(t)
  BY DEF Backend!Spawn, Backend!ClientIds, Backend!Go, Backend!Made, Backend!Nobody,
         Backend!Unmade, Backend!Cardinality, B!Spawn, B!ClientIds, B!Go, B!Made, B!Nobody,
         B!Unmade, B!Cardinality
<1>5. \A t : Backend!SpawnFails(t) <=> B!SpawnFails(t)
  BY DEF Backend!SpawnFails, Backend!Go, Backend!Nobody, B!SpawnFails, B!Go, B!Nobody
<1>6. \A t : Backend!Initialized(t) <=> B!Initialized(t)
  BY DEF Backend!Initialized, Backend!Go, Backend!Nobody, Backend!Request, B!Initialized, B!Go,
         B!Nobody, B!Request
<1>7. \A t : Backend!InitializeFails(t) <=> B!InitializeFails(t)
  BY DEF Backend!InitializeFails, Backend!BeginStop, Backend!Failing, Backend!Go,
         Backend!Signalled, Backend!Told, B!InitializeFails, B!BeginStop, B!Failing, B!Go,
         B!Signalled, B!Told
<1>8. \A t : Backend!Aborted(t) <=> B!Aborted(t)
  BY DEF Backend!Aborted, Backend!Go, Backend!Nobody, Backend!Reaped, B!Aborted, B!Go, B!Nobody,
         B!Reaped
<1>9. \A t : Backend!Return(t) <=> B!Return(t)
  BY DEF Backend!Return, Backend!Go, B!Return, B!Go
<1>10. \A t : Backend!TimeOut(t) <=> B!TimeOut(t)
  BY DEF Backend!TimeOut, Backend!GiveUp, Backend!Go, B!TimeOut, B!GiveUp, B!Go
<1>11. \A t : Backend!Cancel(t) <=> B!Cancel(t)
  BY DEF Backend!Cancel, Backend!BeginStop, Backend!Failing, Backend!GiveUp, Backend!Go,
         Backend!Nobody, Backend!Signalled, Backend!Told, B!Cancel, B!BeginStop, B!Failing,
         B!GiveUp, B!Go, B!Nobody, B!Signalled, B!Told
<1>12. \A t : Backend!AskAgent(t) <=> B!AskAgent(t)
  BY DEF Backend!AskAgent, Backend!Go, B!AskAgent, B!Go
<1>13. \A t, status : Backend!AgentEnds(t, status) <=> B!AgentEnds(t, status)
  BY DEF Backend!AgentEnds, Backend!Go, B!AgentEnds, B!Go
<1>14. \A s : Backend!AskStop(s) <=> B!AskStop(s)
  BY DEF Backend!AskStop, Backend!Go, B!AskStop, B!Go
<1>15. \A s : Backend!AcquireStop(s) <=> B!AcquireStop(s)
  BY DEF Backend!AcquireStop, Backend!BeginStop, Backend!Failing, Backend!Go, Backend!NoClient,
         Backend!Nobody, Backend!Signalled, Backend!Told, B!AcquireStop, B!BeginStop, B!Failing,
         B!Go, B!NoClient, B!Nobody, B!Signalled, B!Told
<1>16. \A s : Backend!Stopped(s) <=> B!Stopped(s)
  BY DEF Backend!Stopped, Backend!Go, Backend!NoClient, Backend!Nobody, Backend!Reaped, B!Stopped,
         B!Go, B!NoClient, B!Nobody, B!Reaped
<1>17. Backend!Made = B!Made
  BY DEF Backend!Made, Backend!ClientIds, Backend!Nobody, B!Made, B!ClientIds, B!Nobody
<1>18. \A c : Backend!Exit(c) <=> B!Exit(c)
  BY DEF Backend!Exit, B!Exit
<1>19. \A c : Backend!ReaderFails(c) <=> B!ReaderFails(c)
  BY DEF Backend!ReaderFails, Backend!Failing, Backend!Signalled, Backend!Told, B!ReaderFails,
         B!Failing, B!Signalled, B!Told
<1>20. \A c, t : Backend!Answer(c, t) <=> B!Answer(c, t)
  BY DEF Backend!Answer, B!Answer
<1>21. \A i : Backend!Permit(i) <=> B!Permit(i)
  BY DEF Backend!Permit, B!Permit
<1>22. \A i : Backend!Upgrade(i) <=> B!Upgrade(i)
  BY DEF Backend!Upgrade, B!Upgrade
<1> QED BY <1>1, <1>2, <1>3, <1>4, <1>5, <1>6, <1>7, <1>8, <1>9, <1>10, <1>11, <1>12, <1>13,
         <1>14, <1>15, <1>16, <1>17, <1>18, <1>19, <1>20, <1>21, <1>22
        DEF Backend!Next, B!Next

LEMMA BackendStep ==
  ASSUME [Next]_vars, component = "backend" PROVE component' = component /\ [B!Next]_(B!vars)
<1>1. CASE UNCHANGED vars BY <1>1 DEF vars, B!vars
<1>2. CASE Next
  <2>1. component' = component /\ Backend!Next BY <1>2 DEF Next
  <2> QED BY <2>1, BackendNext
<1> QED BY <1>1, <1>2

LEMMA BackendCallsAreServed == Backend!CallsAreServed <=> B!CallsAreServed
BY DEF Backend!CallsAreServed, Backend!ClientIds, Backend!OneServing, Backend!WaiterIsKnown,
       Backend!Cardinality, B!CallsAreServed, B!ClientIds, B!OneServing, B!WaiterIsKnown,
       B!Cardinality

(* At most one process of an App is in service, and no caller waits for an *)
(* answer that can no longer come (get_or_start_mcp_client,                *)
(* _stop_unlocked, _fail_transport).                                       *)
THEOREM AlwaysServed == ASSUME B!Named PROVE Spec => []CallsAreServed
<1> DEFINE Inv == component = "backend" => B!BInv
<1>1. Init => Inv
  <2> SUFFICES ASSUME Init, component = "backend" PROVE B!BInv OBVIOUS
  <2>1. Backend!Init BY DEF Init
  <2> QED BY <2>1, BackendInit, B!BInvInit
<1>2. Inv /\ [Next]_vars => Inv'
  <2> SUFFICES ASSUME Inv, [Next]_vars, component' = "backend" PROVE B!BInv' OBVIOUS
  <2>1. component = "backend" BY DEF Next, vars
  <2>2. B!BInv BY <2>1
  <2> QED BY <2>1, <2>2, BackendStep, B!BInvStep
<1>3. Inv => CallsAreServed
  <2> SUFFICES ASSUME B!BInv PROVE Backend!CallsAreServed BY DEF CallsAreServed
  <2>1. B!CallsAreServed BY B!BInvServes
  <2> QED BY <2>1, BackendCallsAreServed
<1> QED BY <1>1, <1>2, <1>3, PTL DEF Spec
=============================================================================
