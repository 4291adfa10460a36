------------------------------ MODULE GraphSaga ------------------------------
(***************************************************************************)
(* Graph mutations of Agent Runs: each Run is a saga of batches that are   *)
(* preflighted, approved and committed one after the other, each in one    *)
(* transaction of the graph store together with its undo data and an entry *)
(* of the effect ledger.  When the saga fails, its batches are undone in   *)
(* reverse, each only if the graph still holds what the batch had left.    *)
(*                                                                         *)
(* Granularity: one action per graph transaction and one per checkpoint    *)
(* (RunStore.commit_step); the worker may die between them and the Run is  *)
(* then executed again from its checkpoint.                                *)
(*                                                                         *)
(* A node or edge is abstracted to the batch that wrote its properties;    *)
(* property validation and Cypher or SQL are left out.                     *)
(***************************************************************************)
EXTENDS Naturals, Sequences, FiniteSets, SequencesExt

CONSTANTS
  Runs,        \* durable Runs; a retry is the next attempt of one
  Nodes,       \* ids of nodes that are mutated
  Pairs,       \* <<from, to>> of the edges that are mutated
  Plans,       \* what the router may ask for: a batch of mutations for each step
  FirstNodes,  \* nodes that are there from the start
  MaxBatches,  \* bound: steps of a saga
  MaxAttempts, \* bound: a Run and its retries
  MaxRetried,  \* bound: Runs that are retried
  MaxCrashes   \* bound: crashes of a worker

VARIABLES
  graph,     \* tables graph_nodes and graph_edges
  ledger,    \* table graph_effects: the result of each committed batch
  undone,    \* table graph_effects, keys compensate:<ticket>
  saga,      \* the checkpointed row of each Run
  task,      \* what its worker does
  applied,   \* ghost: how often each ticket's batch was written
  crashes

vars == <<graph, ledger, undone, saga, task, applied, crashes>>
store == <<graph, ledger, undone, applied>>

Absent == <<"absent">>
First == <<"first">>
Tickets == Runs \X (1 .. MaxAttempts) \X (1 .. MaxBatches)
Values == Tickets \cup {Absent, First}

Incident(n) == {e \in Pairs : n \in {e[1], e[2]}}
Present(g, n) == g.node[n] # Absent
NoEdges == [e \in {} |-> Absent]

Action(op, at, to, edges) == [op |-> op, at |-> at, to |-> to, edges |-> edges]
NodeOps == {"create_node", "update_node_property", "replace_node", "restore_node", "delete_node"}

(* What apply_actions_atomic demands of the graph before an action.        *)
Applicable(g, a) ==
  \/ a.op = "create_node"
  \/ a.op \in {"update_node_property", "replace_node", "delete_node"} /\ Present(g, a.at)
  \/ a.op = "restore_node" /\ \A e \in DOMAIN a.edges : \A n \in {e[1], e[2]} \ {a.at} : Present(g, n)
  \/ a.op = "create_edge" /\ Present(g, a.at[1]) /\ Present(g, a.at[2])
  \/ a.op = "delete_edge" /\ g.edge[a.at] # Absent

(* What it does to the graph; deleting a node deletes its edges.           *)
Applied(g, a) ==
  CASE a.op \in {"create_node", "update_node_property", "replace_node"} ->
         [g EXCEPT !.node[a.at] = a.to]
    [] a.op = "delete_node" ->
         [node |-> [g.node EXCEPT ![a.at] = Absent],
          edge |-> [e \in Pairs |-> IF e \in Incident(a.at) THEN Absent ELSE g.edge[e]]]
    [] a.op = "restore_node" ->
         [node |-> [g.node EXCEPT ![a.at] = a.to],
          edge |-> [e \in Pairs |-> IF e \in DOMAIN a.edges THEN a.edges[e] ELSE g.edge[e]]]
    [] a.op = "create_edge" -> [g EXCEPT !.edge[a.at] = a.to]
    [] a.op = "delete_edge" -> [g EXCEPT !.edge[a.at] = Absent]

(* The inverse it records for an action on a node, or on an edge.          *)
ReverseOfNode(g, a) ==
  IF a.op = "delete_node"
  THEN Action("restore_node", a.at, g.node[a.at],
              [e \in {x \in Incident(a.at) : g.edge[x] # Absent} |-> g.edge[e]])
  ELSE IF Present(g, a.at) THEN Action("replace_node", a.at, g.node[a.at], NoEdges)
  ELSE Action("delete_node", a.at, Absent, NoEdges)
ReverseOfEdge(g, a) ==
  IF g.edge[a.at] # Absent THEN Action("create_edge", a.at, g.edge[a.at], NoEdges)
  ELSE Action("delete_edge", a.at, Absent, NoEdges)
Reverse1(g, a) == IF a.op \in NodeOps THEN ReverseOfNode(g, a) ELSE ReverseOfEdge(g, a)

(* A batch: the actions in order, all or nothing, the inverses reversed.   *)
Outcome(g, actions) ==
  FoldLeft(LAMBDA acc, a :
             IF acc.ok /\ Applicable(acc.graph, a)
             THEN [ok |-> TRUE, graph |-> Applied(acc.graph, a),
                   undo |-> <<Reverse1(acc.graph, a)>> \o acc.undo]
             ELSE [acc EXCEPT !.ok = FALSE],
           [ok |-> TRUE, graph |-> g, undo |-> <<>>], actions)

TouchedNodes(actions) == {actions[i].at : i \in {j \in DOMAIN actions : actions[j].op \in NodeOps}}
TouchedEdges(actions) == {actions[i].at : i \in {j \in DOMAIN actions : actions[j].op \notin NodeOps}}

(* Mutant: the edges at the touched nodes are not looked at.               *)
EvidenceAs(g, actions) ==
  [node |-> [n \in TouchedNodes(actions) |-> g.node[n]],
   edge |-> [e \in TouchedEdges(actions) |-> g.edge[e]]]

(* compensation_guard: touched nodes with their edges, touched edges.      *)
Evidence(g, actions) ==
  [node |-> [n \in TouchedNodes(actions) |-> g.node[n]],
   edge |-> [e \in TouchedEdges(actions) \cup UNION {Incident(n) : n \in TouchedNodes(actions)}
               |-> g.edge[e]]]

(* The entry of graph_effects for a batch: how to undo it, what the graph  *)
(* looked like after it, and (for the properties) before it.               *)
Entry(g, out, batch) ==
  [undo |-> out.undo, guard |-> Evidence(out.graph, batch), before |-> Evidence(g, batch)]

(* The forward actions of a batch, writing the ticket's value.             *)
Forward(batch, ticket) == [i \in DOMAIN batch |-> Action(batch[i][1], batch[i][2], ticket, NoEdges)]

-----------------------------------------------------------------------------
Idle == [doing |-> "idle", ticket |-> <<>>, left |-> 0, cancel |-> FALSE]
Fresh == [status |-> "running", phase |-> "route", plan |-> <<>>, at |-> 1,
          comps |-> <<>>, results |-> <<>>, attempt |-> 1]

Init ==
  /\ graph = [node |-> [n \in Nodes |-> IF n \in FirstNodes THEN First ELSE Absent],
              edge |-> [e \in Pairs |-> Absent]]
  /\ ledger = [t \in {} |-> 0] /\ undone = {}
  /\ saga = [r \in Runs |-> Fresh] /\ task = [r \in Runs |-> Idle]
  /\ applied = [t \in Tickets |-> 0]
  /\ crashes = 0

Ticket(r) == <<r, saga[r].attempt, saga[r].at>>
Batch(r) == Forward(saga[r].plan[saga[r].at], Ticket(r))
(* preflight_actions: whether the store would take the actions now.        *)
Passes(actions) == Outcome(graph, actions).ok
Works(r, phase) == saga[r].status = "running" /\ saga[r].phase = phase /\ task[r] = Idle
Checkpoint(r, row) == saga' = [saga EXCEPT ![r] = row] /\ task' = [task EXCEPT ![r] = Idle]
Turns(r, what) == task' = [task EXCEPT ![r] = what]

(* _failure and cleanup_state undo the recorded batches, the last first.   *)
Fails(r, cancel) ==
  Turns(r, [Idle EXCEPT !.doing = "undoing", !.left = Len(saga[r].comps), !.cancel = cancel])

(* _phase_route, and _phase_multi_preflight: all graph actions against one *)
(* snapshot.                                                               *)
Preflight(r) ==
  /\ Works(r, "route")
  /\ \E plan \in Plans :
       LET actions == FlattenSeq([i \in DOMAIN plan |-> Forward(plan[i], <<r, saga[r].attempt, i>>)]) IN
       IF Passes(actions)
       THEN Checkpoint(r, [saga[r] EXCEPT !.plan = plan, !.phase = "dispatch"])
       ELSE Fails(r, FALSE) /\ UNCHANGED saga
  /\ UNCHANGED <<store, crashes>>

(* _phase_graph_preflight: the next batch is shown to the user.            *)
Offer(r) ==
  IF Passes(Batch(r)) THEN Checkpoint(r, [saga[r] EXCEPT !.phase = "wait"])
  ELSE Fails(r, FALSE) /\ UNCHANGED saga

(* _phase_multi_dispatch of the next step; the saga succeeds after the     *)
(* last one.                                                               *)
Dispatch(r) ==
  /\ Works(r, "dispatch")
  /\ IF saga[r].at > Len(saga[r].plan)
     THEN Checkpoint(r, [saga[r] EXCEPT !.status = "succeeded"])
     ELSE Offer(r)
  /\ UNCHANGED <<store, crashes>>

(* _phase_wait_graph_approval: the user approves or denies.                *)
Answer(r) ==
  /\ Works(r, "wait")
  /\ \E phase \in {"commit", "denied"} : Checkpoint(r, [saga[r] EXCEPT !.phase = phase])
  /\ UNCHANGED <<store, crashes>>
Deny(r) ==
  /\ Works(r, "denied")
  /\ Fails(r, FALSE)
  /\ UNCHANGED <<store, saga, crashes>>

(* _phase_graph_commit: one transaction, keyed by Run and step.            *)
Commit(r) ==
  /\ Works(r, "commit")
  /\ LET out == Outcome(graph, Batch(r)) t == Ticket(r) IN
     IF t \in DOMAIN ledger
     THEN Turns(r, [Idle EXCEPT !.doing = "committed", !.ticket = t]) /\ UNCHANGED <<graph, ledger, applied>>
     ELSE IF out.ok
     THEN /\ graph' = out.graph
          /\ ledger' = [x \in DOMAIN ledger \cup {t} |->
                          IF x = t THEN Entry(graph, out, Batch(r)) ELSE ledger[x]]
          /\ applied' = [applied EXCEPT ![t] = @ + 1]
          /\ Turns(r, [Idle EXCEPT !.doing = "committed", !.ticket = t])
     ELSE Fails(r, FALSE) /\ UNCHANGED <<graph, ledger, applied>>
  /\ UNCHANGED <<undone, saga, crashes>>

(* _finish_subflow and the checkpoint of the step.                         *)
FinishStep(r) ==
  /\ saga[r].status = "running" /\ task[r].doing = "committed"
  /\ Checkpoint(r, [saga[r] EXCEPT !.comps = Append(@, task[r].ticket),
                                   !.results = Append(@, task[r].ticket),
                                   !.at = @ + 1, !.phase = "dispatch"])
  /\ UNCHANGED <<store, crashes>>

(* The batch to be undone next: the last one that is left.  Mutant: the    *)
(* first one.                                                              *)
DueAs(r) == saga[r].comps[Len(saga[r].comps) - task[r].left + 1]
Due(r) == saga[r].comps[task[r].left]

(* _compensate_graph, one batch: idempotent by its key, refused if its     *)
(* evidence no longer holds.                                               *)
Undoes(r, t) ==
  /\ task[r].doing = "undoing" /\ task[r].left > 0 /\ t = Due(r)
  /\ LET out == Outcome(graph, ledger[t].undo) IN
     IF t \in undone
     THEN Turns(r, [task[r] EXCEPT !.left = @ - 1]) /\ UNCHANGED <<graph, undone>>
     ELSE IF /\ \A n \in DOMAIN ledger[t].guard.node : graph.node[n] = ledger[t].guard.node[n]
             /\ \A e \in DOMAIN ledger[t].guard.edge : graph.edge[e] = ledger[t].guard.edge[e]
             /\ out.ok
     THEN /\ graph' = out.graph /\ undone' = undone \cup {t}
          /\ Turns(r, [task[r] EXCEPT !.left = @ - 1])
     ELSE Turns(r, [task[r] EXCEPT !.doing = "conflict"]) /\ UNCHANGED <<graph, undone>>
  /\ UNCHANGED <<ledger, applied, saga, crashes>>
Undo(r) == \E t \in Tickets : Undoes(r, t)

(* The checkpoint of the failure.  A compensated saga starts again at      *)
(* route if it is retried, one that had nothing to undo where it stands.   *)
FinishFailure(r) ==
  /\ task[r].doing = "undoing" /\ task[r].left = 0
  /\ Checkpoint(r,
       IF task[r].cancel THEN [saga[r] EXCEPT !.status = "cancelled", !.comps = <<>>]
       ELSE IF saga[r].comps # <<>> THEN [Fresh EXCEPT !.status = "failed", !.attempt = saga[r].attempt]
       ELSE [saga[r] EXCEPT !.status = "failed"])
  /\ UNCHANGED <<store, crashes>>
FinishConflict(r) ==
  /\ task[r].doing = "conflict"
  /\ Checkpoint(r, [saga[r] EXCEPT !.status = "needs_attention"])
  /\ UNCHANGED <<store, crashes>>

(* request_cancel.  A waiting or queued Run is settled at once, and is not *)
(* undone; a running one undoes its batches, unless one is being written.  *)
Cancel(r) ==
  /\ saga[r].status = "running"
  /\ \/ /\ task[r] = Idle
        /\ Checkpoint(r, [saga[r] EXCEPT !.status =
                            IF saga[r].comps = <<>> THEN "cancelled" ELSE "needs_attention"])
     \/ /\ task[r] = Idle /\ saga[r].phase # "wait"
        /\ Fails(r, TRUE) /\ UNCHANGED saga
     \/ /\ task[r].doing = "committed"
        /\ Checkpoint(r, [saga[r] EXCEPT !.status = "needs_attention"])
  /\ UNCHANGED <<store, crashes>>

(* reconcile_effect: the operator finds nothing of the Run in the graph,   *)
(* or something.                                                           *)
Mine(r, v) == v \notin {Absent, First} /\ v[1] = r
LeftBehind(r) == (\E n \in Nodes : Mine(r, graph.node[n])) \/ \E e \in Pairs : Mine(r, graph.edge[e])
Review(r) ==
  /\ saga[r].status = "needs_attention"
  /\ Checkpoint(r, IF LeftBehind(r) THEN [saga[r] EXCEPT !.status = "closed"]
                   ELSE [saga[r] EXCEPT !.status = "failed", !.comps = <<>>])
  /\ UNCHANGED <<store, crashes>>

(* RunCoordinator.retry: a new Run with the checkpoint of the old one, but *)
(* without its answer; after a cancellation it starts afresh.              *)
Retry(r) ==
  /\ saga[r].status \in {"failed", "cancelled"} /\ saga[r].attempt < MaxAttempts
  /\ Cardinality({q \in Runs \ {r} : saga[q].attempt > 1}) < MaxRetried
  /\ Checkpoint(r, [(IF saga[r].status = "cancelled" THEN Fresh ELSE saga[r]) EXCEPT
                      !.status = "running", !.attempt = saga[r].attempt + 1,
                      !.phase = IF @ = "wait" THEN "denied" ELSE @])
  /\ UNCHANGED <<store, crashes>>

(* The worker dies; the Run is requeued at its checkpoint, or left to an   *)
(* operator if it was being cancelled.                                     *)
Crash(r) ==
  /\ task[r] # Idle /\ crashes < MaxCrashes
  /\ crashes' = crashes + 1
  /\ Checkpoint(r, IF task[r].cancel THEN [saga[r] EXCEPT !.status = "needs_attention"] ELSE saga[r])
  /\ UNCHANGED store

Next == \E r \in Runs :
  \/ Preflight(r) \/ Dispatch(r) \/ Answer(r) \/ Deny(r) \/ Commit(r) \/ FinishStep(r)
  \/ Undo(r) \/ FinishFailure(r) \/ FinishConflict(r)
  \/ Cancel(r) \/ Review(r) \/ Retry(r) \/ Crash(r)

Spec == Init /\ [][Next]_vars

-----------------------------------------------------------------------------
(* Undoing a batch overwrites or deletes only what its own Run wrote: the  *)
(* evidence taken at the commit shows every other change in time, the one  *)
(* to an edge that hangs on a touched node included (graph_db.py:737,      *)
(* "nodes or edges changed after this effect committed").  Values stand    *)
(* for the batch that wrote them: another batch that writes equal          *)
(* properties is not noticed by the code, nor told apart here.             *)
OthersKept == \A r \in Runs : \A t \in Tickets : Undoes(r, t) =>
   /\ \A n \in Nodes : graph'.node[n] # graph.node[n] /\ graph.node[n] # Absent => Mine(r, graph.node[n])
   /\ \A e \in Pairs : graph'.edge[e] # graph.edge[e] /\ graph.edge[e] # Absent => Mine(r, graph.edge[e])

(* A batch that is undone leaves what it had touched as it was before the  *)
(* batch, the edges that went with a deleted node included.                *)
RestoresSnapshot == \A t \in undone' \ undone :
   /\ \A n \in DOMAIN ledger[t].before.node : graph'.node[n] = ledger[t].before.node[n]
   /\ \A e \in DOMAIN ledger[t].before.edge : graph'.edge[e] = ledger[t].before.edge[e]

(* However often a step is executed again after a crash, its batch is      *)
(* written once.                                                           *)
AppliedOnce == \A t \in Tickets : applied[t] <= 1

(* An undo is refused only because of somebody else: a batch that is not   *)
(* on the saga's own list (of another Run, of an earlier attempt, or one   *)
(* whose checkpoint was lost) was committed on the same nodes or edges.    *)
(* The batches of the list never stand in each other's way, whatever they  *)
(* have in common and however often a crash repeats their undoing          *)
(* (durable_workflow.py _compensate_graph).                                *)
Overlap(t, u) ==
  \/ DOMAIN ledger[t].guard.node \cap DOMAIN ledger[u].guard.node # {}
  \/ DOMAIN ledger[t].guard.edge \cap DOMAIN ledger[u].guard.edge # {}
ConflictHasCause == \A r \in Runs : \A t \in Tickets :
  Undoes(r, t) /\ task'[r].doing = "conflict" =>
    \E u \in DOMAIN ledger \ ToSet(saga[r].comps) : Overlap(t, u)

(* The undoing of a batch is exact: it restores what the batch touched and *)
(* nothing else, of batches written once, and is refused for somebody      *)
(* else's change only (graph_db.py compensate_actions_atomic).             *)
UndoIsExactStep == OthersKept /\ RestoresSnapshot /\ AppliedOnce' /\ ConflictHasCause
UndoIsExact == [][UndoIsExactStep]_vars

(* A saga that succeeds reports no step whose batch was undone: "keeping   *)
(* its old index/results would report effects that were just compensated   *)
(* away" (durable_workflow.py:1053).  Violated: the review of a half       *)
(* undone saga drops its list of batches but keeps the phase, index and    *)
(* results, with which a retry goes on.                                    *)
SucceededIsWhole == \A r \in Runs : saga[r].status = "succeeded" =>
   \A i \in DOMAIN saga[r].results : saga[r].results[i] \notin undone
=============================================================================
