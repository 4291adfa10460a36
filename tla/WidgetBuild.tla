---------------------------- MODULE WidgetBuild ----------------------------
(***************************************************************************)
(* How Agent Runs build and publish Apps (DurableAgentWorkflow): the user  *)
(* approves a plan and a schema proposal, a coding agent stages an App, a  *)
(* verifier compares it with the approved contract, and publication        *)
(* extends the ontology and puts the App live.  Runs of several chats      *)
(* share the ontology and the effect ledger of the graph.                  *)
(*                                                                         *)
(* Granularity: a phase is one step; publication is cut at its two writer  *)
(* threads, which go on when the task awaiting them is cancelled.  What a  *)
(* proposal, a contract and a draft say is the set of fields they name.    *)
(* The move of the directory is one step (AppDirectory cuts it), and so is *)
(* what the Run store does with an outcome (RunStore).                     *)
(***************************************************************************)
EXTENDS Naturals, FiniteSets

CONSTANTS
  Builders,      \* chats that ask for Apps
  Composite,     \* of them, those who ask for two in one request
  NewEntities,   \* fields that come as an entity of their own
  Extensions,    \* fields added to the entity the proposals reuse
  None,          \* no draft, no thread, no App
  MaxHarm        \* bound: answers that send a Run back, retries, crashes,
                 \* cancellations and failed writes

Fields == NewEntities \cup Extensions

VARIABLES
  build,         \* the Run of each builder: its checkpoint and its task
  writer,        \* the thread writing for it
  ontology,      \* fields in the graph's schema
  effects,       \* graph_effects: schema commits, by idempotency key
  inUse,         \* fields some record has
  liveApp,       \* the published App
  consented,     \* the contract each builder approved last
  harm           \* for the bound

shared == <<ontology, effects, inUse, liveApp, consented>>
buildVars == <<build, writer, shared, harm>>

(* _WIDGET_KEYS of state.data.                                             *)
Blank == [approved |-> {}, contract |-> {}, draft |-> None, passed |-> FALSE]
Fresh == [status |-> "active", phase |-> "plan", awaiting |-> "no", sub |-> "idle",
          data |-> Blank, attempt |-> 1, step |-> 1, steps |-> 1, committed |-> FALSE]

Init ==
  /\ build = [b \in Builders |-> [Fresh EXCEPT !.steps = IF b \in Composite THEN 2 ELSE 1]]
  /\ writer = [b \in Builders |-> None]
  /\ ontology = {} /\ effects = [k \in {} |-> None] /\ inUse = {}
  /\ liveApp = None /\ consented = [b \in Builders |-> {}]
  /\ harm = 0

-----------------------------------------------------------------------------
(* The steps of one Run.                                                   *)
Key(b) == <<b, build[b].attempt>>
In(b, phase) == build[b].status = "active" /\ build[b].phase = phase /\ build[b].sub = "idle"
Becomes(b, r) == build' = [build EXCEPT ![b] = r]
Goes(b, phase) == Becomes(b, [build[b] EXCEPT !.phase = phase])
Alone == UNCHANGED <<writer, shared, harm>>
Harms == harm < MaxHarm /\ harm' = harm + 1
SendsBack == Harms /\ UNCHANGED <<writer, shared>>

(* _wait and _response: the response is taken once.                        *)
Asks(b, phase) == Becomes(b, [build[b] EXCEPT !.phase = phase, !.awaiting = "answer"])
Answered(b, phase) == In(b, phase) /\ build[b].awaiting = "answer"
Taken(b) == [build[b] EXCEPT !.awaiting = "no"]

(* _failure: with an App of the request live, the effect is unknown.       *)
Failed(r) == [r EXCEPT !.sub = "idle", !.status = IF r.committed THEN "review" ELSE "failed"]
Reviewed(r) == [r EXCEPT !.sub = "idle", !.status = "review"]

ProposePlan(b) == In(b, "plan") /\ Asks(b, "wait_plan") /\ Alone
AnswerPlan(b) ==
  /\ Answered(b, "wait_plan")
  /\ \/ Becomes(b, [Taken(b) EXCEPT !.phase = "align_schema"]) /\ Alone
     \/ Asks(b, "wait_plan") /\ SendsBack              \* refine
     \/ Becomes(b, Failed(Taken(b))) /\ Alone          \* deny, or refine fails
PlanUnresolved(b) ==
  In(b, "wait_plan") /\ build[b].awaiting = "no" /\ Becomes(b, Failed(build[b])) /\ Alone

ProposeSchema(b) == In(b, "align_schema") /\ Asks(b, "wait_schema") /\ Alone

(* effective_schemas refuses a new entity that exists.                     *)
Feasible(fields) == fields \cap NewEntities \cap ontology = {}

(* The user may edit the proposal; the contract names the fields it adds   *)
(* and those the reused entity has.                                        *)
ApproveSchema(b, fields) ==
  LET contract == fields \cup (ontology \cap Extensions) IN
  /\ Answered(b, "wait_schema")
  /\ IF Feasible(fields)
     THEN /\ Becomes(b, [Taken(b) EXCEPT !.phase = "stage_code", !.data.approved = fields,
                                         !.data.contract = contract])
          /\ consented' = [consented EXCEPT ![b] = contract]
          /\ UNCHANGED <<writer, ontology, effects, inUse, liveApp, harm>>
     ELSE Asks(b, "wait_schema") /\ SendsBack
AnswerSchema(b) ==
  /\ Answered(b, "wait_schema")
  /\ \/ Asks(b, "wait_schema") /\ SendsBack                                  \* refine
     \/ Becomes(b, [Failed(Taken(b)) EXCEPT !.awaiting = "refine"]) /\ Alone  \* refine fails
     \/ Becomes(b, [Taken(b) EXCEPT !.phase = "plan"]) /\ SendsBack          \* rework_plan
     \/ Becomes(b, Failed(Taken(b))) /\ Alone                                \* deny

(* A retry has the answer that was being worked on, or none.               *)
SchemaUnresolved(b) ==
  /\ In(b, "wait_schema") /\ build[b].awaiting # "answer" /\ Alone
  /\ IF build[b].awaiting = "refine" THEN Asks(b, "wait_schema") ELSE Becomes(b, Failed(build[b]))

(* The coding agent; a failure leaves a draft, if it came that far.        *)
StageCode(b, fields) ==
  LET staged == [build[b] EXCEPT !.data.draft = fields] IN
  /\ In(b, "stage_code") /\ Alone
  /\ \/ Becomes(b, [staged EXCEPT !.phase = "verify"])
     \/ Becomes(b, Failed(staged)) \/ Becomes(b, Failed(build[b]))

Verify(b) ==
  LET draft == build[b].data.draft IN
  /\ In(b, "verify") /\ Alone
  /\ IF draft = None THEN Becomes(b, Failed(build[b]))
     ELSE IF draft \subseteq build[b].data.contract
     THEN Becomes(b, [build[b] EXCEPT !.phase = "promote", !.data.passed = TRUE])
     ELSE Asks(b, "wait_override")

(* Findings cannot be approved away.  Mutant: the draft is published.      *)
OverriddenAs(r) == [r EXCEPT !.phase = "promote", !.data.passed = TRUE]
Overridden(r) == r
AnswerFindings(b) ==
  LET r == Taken(b) IN
  /\ Answered(b, "wait_override")
  /\ \/ Becomes(b, Overridden(build[b])) /\ SendsBack                        \* approve
     \/ Becomes(b, [r EXCEPT !.phase = "stage_code", !.data.passed = FALSE]) /\ SendsBack
     \/ Becomes(b, [r EXCEPT !.phase = "align_schema", !.data = Blank]) /\ SendsBack
     \/ Becomes(b, [r EXCEPT !.phase = "plan", !.data = Blank]) /\ SendsBack
     \/ Becomes(b, Failed(r)) /\ Alone                                       \* deny

-----------------------------------------------------------------------------
(* Publication: _publish_widget.                                           *)
(* validate_coding_agent_promotion: the draft is gone and the live App     *)
(* bears the marker of this Run.  Mutant: the marker is not looked for.    *)
RecoveredAs(b) == b \notin Builders
Recovered(b) == build[b].data.draft = None /\ liveApp # None /\ liveApp.by = Key(b)

BeginPublish(b) ==
  /\ In(b, "promote") /\ writer[b] = None
  /\ IF build[b].data.passed /\ (Recovered(b) \/ build[b].data.draft # None)
     THEN /\ Becomes(b, [build[b] EXCEPT !.sub = IF Recovered(b) THEN "again" ELSE "schema"])
          /\ writer' = [writer EXCEPT ![b] = "schema"]
     ELSE Becomes(b, Failed(build[b])) /\ UNCHANGED writer
  /\ UNCHANGED <<shared, harm>>

Standing(k) == k \in DOMAIN effects /\ ~effects[k].compensated
Record(k, e) == effects' = [x \in DOMAIN effects \cup {k} |-> IF x = k THEN e ELSE effects[x]]
Waits(b, sub) == build[b].sub = sub

(* What the transaction demands: its key stands for the same proposal, or  *)
(* for none and the proposal still fits; and what it records.              *)
Accepted(k, fields) == IF Standing(k) THEN effects[k].fields = fields ELSE Feasible(fields)
Extension(fields) ==
  [fields |-> fields, added |-> fields \ ontology, compensated |-> FALSE,
   after |-> (ontology \cup fields) \cap Extensions]

(* apply_schema_proposal_atomic, in its thread; the task may be gone.      *)
CommitSchema(b) ==
  LET fields == build[b].data.approved
      ok == Accepted(Key(b), fields)
      next == IF Waits(b, "again") THEN "finish" ELSE "app"
  IN
  /\ writer[b] = "schema"
  /\ IF ok /\ ~Standing(Key(b))
     THEN ontology' = ontology \cup fields /\ Record(Key(b), Extension(fields))
     ELSE UNCHANGED <<ontology, effects>>
  /\ IF build[b].sub \in {"schema", "again"}
     THEN Becomes(b, IF ok THEN [build[b] EXCEPT !.sub = next] ELSE Failed(build[b]))
     ELSE UNCHANGED build
  /\ writer' = [writer EXCEPT ![b] = IF Waits(b, "schema") /\ ok /\ next = "app" THEN next ELSE None]
  /\ UNCHANGED <<inUse, liveApp, consented, harm>>

(* promote_coding_agent_staging, in its thread.                            *)
PromoteApp(b) ==
  LET moved == [build[b] EXCEPT !.data.draft = None] IN
  /\ writer[b] = "app" /\ writer' = [writer EXCEPT ![b] = None]
  /\ liveApp' = [by |-> Key(b), fields |-> build[b].data.draft, contract |-> consented[b]]
  /\ Becomes(b, IF Waits(b, "app") THEN [moved EXCEPT !.sub = "finish"] ELSE moved)
  /\ UNCHANGED <<ontology, effects, inUse, consented, harm>>

(* restore_schema_snapshot removes no field that is in use.                *)
Unused(e) == e.added \cap inUse = {}
Restorable(e) ==
  /\ ontology \cap Extensions = e.after /\ e.fields \cap NewEntities \subseteq ontology
  /\ Unused(e)
(* It leaves the entry in the ledger, as compensated.                      *)
Restore(k) ==
  /\ ontology' = ontology \ effects[k].added
  /\ Record(k, [effects[k] EXCEPT !.compensated = TRUE])

(* The move fails: the schema is restored, or a conflict is reported.      *)
PromoteFails(b) ==
  /\ writer[b] = "app" /\ Harms
  /\ writer' = [writer EXCEPT ![b] = None]
  /\ IF ~Waits(b, "app") THEN UNCHANGED <<build, ontology, effects>>
     ELSE IF Restorable(effects[Key(b)])
     THEN Restore(Key(b)) /\ Becomes(b, Failed(build[b]))
     ELSE Becomes(b, Reviewed(build[b])) /\ UNCHANGED <<ontology, effects>>
  /\ UNCHANGED <<inUse, liveApp, consented>>

(* The canvas, the message, the outcome; _finish_subflow goes on with the  *)
(* next App of the request.                                                *)
Finish(b) ==
  LET r == [build[b] EXCEPT !.sub = "idle", !.committed = TRUE] IN
  /\ Waits(b, "finish") /\ Alone
  /\ Becomes(b, IF r.step < r.steps
                THEN [r EXCEPT !.phase = "plan", !.data = Blank, !.step = @ + 1]
                ELSE [r EXCEPT !.status = "done"])
FinishFails(b) ==
  /\ Waits(b, "finish") /\ Harms
  /\ Becomes(b, Reviewed([build[b] EXCEPT !.committed = TRUE]))
  /\ UNCHANGED <<writer, shared>>

-----------------------------------------------------------------------------
(* The process dies: tasks and threads with it; the Runs start again from  *)
(* their checkpoints.                                                      *)
Crash ==
  /\ Harms /\ \E b \in Builders : build[b].sub # "idle"
  /\ build' = [b \in Builders |-> [build[b] EXCEPT !.sub = "idle"]]
  /\ writer' = [b \in Builders |-> None]
  /\ UNCHANGED <<shared>>

(* The worker is stopped; its threads end before the process does.         *)
StopWorker(b) ==
  /\ build[b].sub # "idle" /\ Harms
  /\ Becomes(b, [build[b] EXCEPT !.sub = "idle"]) /\ UNCHANGED <<writer, shared>>

(* The user cancels.  With a writer in flight nobody knows the effect:     *)
(* nothing is rolled back and the Run goes to review.                      *)
Cancel(b) ==
  LET r == build[b] IN
  /\ r.status = "active" /\ Harms
  /\ r.sub # "idle" \/ writer[b] = None
  /\ Becomes(b, IF r.sub # "idle" \/ r.committed \/ Recovered(b) THEN Reviewed(r)
                ELSE [r EXCEPT !.status = "cancelled", !.data = Blank])
  /\ UNCHANGED <<writer, shared>>

(* Of the answers, a retry takes over the one that asked to refine a       *)
(* schema and was being worked on.                                         *)
Recoverable(r) == r.phase = "wait_schema" /\ r.awaiting = "refine"

(* RunCoordinator.retry: a new Run takes over the checkpoint; only a draft *)
(* that is still there is used, and verified anew unless it had passed.    *)
Resumed(r, feedback) ==
  LET staged == r.data.draft # None
      reverify == r.phase \in {"verify", "wait_override"} /\ staged
      restage == (r.phase \in {"stage_code", "verify", "wait_override", "promote"} /\ ~staged)
                 \/ (feedback /\ staged)
  IN
  IF r.status = "cancelled" THEN [Fresh EXCEPT !.attempt = r.attempt, !.steps = r.steps]
  ELSE [r EXCEPT !.status = "active",
                 !.awaiting = IF Recoverable(r) THEN "refine" ELSE "no",
                 !.phase = IF restage THEN "stage_code" ELSE IF reverify THEN "verify" ELSE @,
                 !.data.passed = @ /\ ~restage /\ ~reverify /\ ~feedback]
Retry(b) ==
  LET r == build[b] IN
  /\ r.status \in {"failed", "cancelled"} /\ writer[b] = None /\ Harms
  /\ \E feedback \in BOOLEAN :
       Becomes(b, [Resumed(r, feedback) EXCEPT !.attempt = r.attempt + 1])
  /\ UNCHANGED <<writer, shared>>

(* Records are written with the fields of the schema.                      *)
UseField(f) ==
  /\ f \in ontology \ inUse /\ inUse' = inUse \cup {f}
  /\ UNCHANGED <<build, writer, ontology, effects, liveApp, consented, harm>>

Next ==
  \/ \E b \in Builders :
       \/ ProposePlan(b) \/ AnswerPlan(b) \/ PlanUnresolved(b)
       \/ ProposeSchema(b) \/ AnswerSchema(b) \/ SchemaUnresolved(b)
       \/ \E fields \in SUBSET Fields : ApproveSchema(b, fields)
       \/ \E fields \in {build[b].data.contract, Fields} : StageCode(b, fields)
       \/ Verify(b) \/ AnswerFindings(b)
       \/ BeginPublish(b) \/ CommitSchema(b) \/ PromoteApp(b) \/ PromoteFails(b)
       \/ Finish(b) \/ FinishFails(b) \/ StopWorker(b) \/ Cancel(b) \/ Retry(b)
  \/ \E f \in Fields : UseField(f)
  \/ Crash

Spec == Init /\ [][Next]_buildVars

-----------------------------------------------------------------------------
TypeOK ==
  /\ \A b \in Builders :
       /\ build[b].status \in {"active", "done", "failed", "review", "cancelled"}
       /\ build[b].sub \in {"idle", "schema", "again", "app", "finish"}
       /\ build[b].awaiting \in {"no", "answer", "refine"}
       /\ build[b].data.contract \subseteq Fields
       /\ writer[b] \in {None, "schema", "app"}
  /\ ontology \subseteq Fields

(* A live App uses only what its user approved last, and the Run that put  *)
(* it there does not count as failed or cancelled without effect, so that  *)
(* it could be retried; its schema is committed unless that Run is in      *)
(* review.  Whatever crashes, cancellations and failed writes do between   *)
(* the commit of the schema and the end of the Run (_publish_widget).      *)
PublicationIsWhole ==
  liveApp # None =>
    LET r == build[liveApp.by[1]]
        current == r.attempt = liveApp.by[2]
    IN
    /\ liveApp.fields \subseteq liveApp.contract
    /\ current => r.status \notin {"failed", "cancelled"}
    /\ Standing(liveApp.by) \/ (current /\ r.status = "review")

(* No restoration takes a field away from the records that have it         *)
(* (restore_schema_snapshot).                                              *)
UsedFieldsStay == inUse \subseteq ontology

(* Publication and its compensation keep App, contract and ontology        *)
(* together (_publish_widget, restore_schema_snapshot).                    *)
BuildIsWhole == PublicationIsWhole /\ UsedFieldsStay

(* What a Run has committed to the schema and not compensated is there,    *)
(* whatever other Runs restore.                                            *)
CommittedStays == \A k \in DOMAIN effects : Standing(k) => effects[k].fields \subseteq ontology
=============================================================================
