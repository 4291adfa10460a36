------------------------------- MODULE GraphFeed -------------------------------
(***************************************************************************)
(* Live graph queries: Widgets and chat sockets subscribe to queries; a    *)
(* committed mutation that was asked for through the API, a Widget or a    *)
(* rollback re-runs the queries and pushes what changed.                   *)
(*                                                                         *)
(* Granularity: the event loop runs one task at a time and switches only   *)
(* where a send has to wait; a query is evaluated between two awaits.      *)
(* A result is the number of commits that changed it.                      *)
(***************************************************************************)
EXTENDS Naturals, Sequences, SequencesExt, FiniteSets

CONSTANTS
  Targets,     \* runtime sessions of Widgets and chat sockets
  Widgets,     \* the targets that are bindings of a Widget runtime
  Ids,         \* subscription ids; a client never uses one twice
  Calls,       \* commands that mutate the graph and then broadcast
  MaxCommits   \* bound: commits

VARIABLES
  data,      \* what each query yields on the committed graph
  commits,   \* number of commits
  granted,   \* targets whose App still has the grants it subscribed with
  opened,    \* keys of active_subscriptions, and sockets to come
  subs,      \* active_subscriptions: target -> ids; kept for tasks that hold it
  last,      \* last_results; 0 for no entry
  line,      \* messages of each target, in the order they took its send lock
  shown,     \* what the callback of each subscription was given last
  call       \* broadcast tasks

vars == <<data, commits, granted, opened, subs, last, line, shown, call>>

Subs == Targets \X Ids
TargetOf(s) == s[1]
Nothing == 0
Idle == [at |-> "idle", bare |-> FALSE, targets |-> {}, ids |-> {}]

Init ==
  /\ data = [s \in Subs |-> 1] /\ commits = 0 /\ granted = Targets
  /\ opened = Targets /\ subs = [t \in Targets |-> {}] /\ last = [s \in Subs |-> Nothing]
  /\ line = [t \in Targets |-> <<>>] /\ shown = [s \in Subs |-> Nothing]
  /\ call = [c \in Calls |-> Idle]

(* _send_graph_subscription_payload, and the sender of a rollback, which   *)
(* calls send_json on the binding of a Widget: that has none, and the      *)
(* error is swallowed like one of a closed socket.                         *)
Reaches(t, bare) == t \in opened /\ ~(bare /\ t \in Widgets)
Send(t, msg) == line' = [line EXCEPT ![t] = Append(@, msg)]

-----------------------------------------------------------------------------
(* graph.subscribe: the query is run, the subscription kept and the answer *)
(* sent.  A target without the grants is refused.                          *)
Subscribe(s) ==
  LET t == TargetOf(s) IN
  /\ t \in opened \cap granted /\ s \notin subs[t] /\ shown[s] = Nothing /\ last[s] = Nothing
  /\ \A n \in DOMAIN line[t] : line[t][n].sub # s
  /\ subs' = [subs EXCEPT ![t] = @ \cup {s}] /\ last' = [last EXCEPT ![s] = data[s]]
  /\ Send(t, [sub |-> s, data |-> data[s], by |-> "answer"])
  /\ UNCHANGED <<data, commits, granted, opened, shown, call>>

(* unregister, for graph.unsubscribe.                                      *)
Unsubscribe(s) ==
  LET t == TargetOf(s) IN
  /\ t \in opened /\ s \in subs[t]
  /\ subs' = [subs EXCEPT ![t] = @ \ {s}] /\ last' = [last EXCEPT ![s] = Nothing]
  /\ UNCHANGED <<data, commits, granted, opened, line, shown, call>>

(* The socket closes: unregister_all drops the target's dictionary, which  *)
(* a broadcast may still hold.                                             *)
Disconnect(t) ==
  /\ t \in opened /\ opened' = opened \ {t}
  /\ last' = [s \in Subs |-> IF s \in subs[t] THEN Nothing ELSE last[s]]
  /\ line' = [line EXCEPT ![t] = <<>>]
  /\ call' = [c \in Calls |-> IF call[c].at = t THEN [call[c] EXCEPT !.at = "next"] ELSE call[c]]
  /\ UNCHANGED <<data, commits, granted, subs, shown>>

(* The App is updated or its grants change: its sessions keep the digests  *)
(* they were opened with.                                                  *)
Revoke(t) ==
  /\ t \in granted /\ granted' = granted \ {t}
  /\ UNCHANGED <<data, commits, opened, subs, last, line, shown, call>>

-----------------------------------------------------------------------------
(* A graph mutation Run commits: of a command that waits for it, of one    *)
(* that stopped waiting after 30 s, or of an Agent.                        *)
Changed ==
  /\ commits < MaxCommits /\ commits' = commits + 1
  /\ \E S \in SUBSET Subs \ {{}} : data' = [s \in Subs |-> IF s \in S THEN data[s] + 1 ELSE data[s]]
Commit(c) ==
  /\ call[c] = Idle /\ Changed
  /\ \E bare \in BOOLEAN : call' = [call EXCEPT ![c].at = "committed", ![c].bare = bare]
  /\ UNCHANGED <<granted, opened, subs, last, line, shown>>
CommitUnseen == Changed /\ UNCHANGED <<granted, opened, subs, last, line, shown, call>>

(* A rollback that fails broadcasts as well.                               *)
FailedRollback(c) ==
  /\ call[c] = Idle
  /\ call' = [call EXCEPT ![c].at = "committed", ![c].bare = TRUE]
  /\ UNCHANGED <<data, commits, granted, opened, subs, last, line, shown>>

(* broadcast_updates: a copy of the targets, and of the ids of each target *)
(* when its turn comes.                                                    *)
Broadcast(c) ==
  /\ call[c].at = "committed"
  /\ call' = [call EXCEPT ![c].at = "next", ![c].targets = {t \in opened : subs[t] # {}}]
  /\ UNCHANGED <<data, commits, granted, opened, subs, last, line, shown>>
Visit(c) ==
  /\ call[c].at = "next" /\ call[c].ids = {}
  /\ IF call[c].targets = {} THEN call' = [call EXCEPT ![c] = Idle]
     ELSE \E t \in call[c].targets :
            call' = [call EXCEPT ![c].targets = @ \ {t}, ![c].ids = subs[t]]
  /\ UNCHANGED <<data, commits, granted, opened, subs, last, line, shown>>

(* One subscription: authorize it, run its query, compare, remember, send. *)
(* The task waits for the send only if something can be sent.              *)
Push(c) ==
  /\ call[c].at = "next"
  /\ \E s \in call[c].ids :
       LET t == TargetOf(s)
           waits == Reaches(t, call[c].bare)
           told == t \notin granted \/ data[s] # last[s] IN
       /\ call' = [call EXCEPT ![c].ids = @ \ {s}, ![c].at = IF told /\ waits THEN t ELSE "next"]
       /\ IF told /\ waits
          THEN Send(t, [sub |-> s, by |-> c, data |-> IF t \in granted THEN data[s] ELSE Nothing])
          ELSE UNCHANGED line
       /\ IF t \in granted
          THEN last' = [last EXCEPT ![s] = data[s]] /\ UNCHANGED subs
          ELSE /\ last' = [last EXCEPT ![s] = Nothing]
               /\ subs' = IF t \in opened THEN [subs EXCEPT ![t] = @ \ {s}] ELSE subs
  /\ UNCHANGED <<data, commits, granted, opened, shown>>

(* The message n of the line leaves; the callback is called if the frame   *)
(* still has the subscription, and the broadcast goes on.                  *)
Leaves(t, n) ==
  LET msg == line[t][n] IN
  /\ line' = [line EXCEPT ![t] = RemoveAt(@, n)]
  /\ shown' = IF msg.sub \in subs[t] /\ msg.data # Nothing
              THEN [shown EXCEPT ![msg.sub] = msg.data] ELSE shown
  /\ call' = IF msg.by \in Calls THEN [call EXCEPT ![msg.by].at = "next"] ELSE call
  /\ UNCHANGED <<data, commits, granted, opened, subs, last>>

(* Mutant: no send lock, messages overtake each other.                     *)
DeliverAs(t) == \E n \in DOMAIN line[t] : Leaves(t, n)
Deliver(t) == line[t] # <<>> /\ Leaves(t, 1)

Next ==
  \/ \E s \in Subs : Subscribe(s) \/ Unsubscribe(s)
  \/ \E t \in Targets : Disconnect(t) \/ Revoke(t) \/ Deliver(t)
  \/ \E c \in Calls : Commit(c) \/ FailedRollback(c) \/ Broadcast(c) \/ Visit(c) \/ Push(c)
  \/ CommitUnseen

Spec == Init /\ [][Next]_vars

-----------------------------------------------------------------------------
TypeOK ==
  /\ data \in [Subs -> Nat] /\ last \in [Subs -> Nat] /\ shown \in [Subs -> Nat]
  /\ granted \subseteq Targets /\ opened \subseteq Targets /\ subs \in [Targets -> SUBSET Subs]
  /\ \A c \in Calls : call[c].at \in {"idle", "committed", "next"} \cup Targets

(* A live query never goes back to an older result, although broadcasts    *)
(* of different commands, answers to subscriptions and disconnections      *)
(* interleave on one connection.                                           *)
NeverBackwardsStep == \A s \in Subs : shown'[s] >= shown[s]
NeverBackwards == [][NeverBackwardsStep]_shown
=============================================================================
