----------------------------- MODULE RemoteGrant -----------------------------
(***************************************************************************)
(* The grant under which a workspace is reached from the cloud             *)
(* (remote_workspace.py).  The user pairs the workspace with a Gateway,    *)
(* an account claims it there, the user confirms the claim locally; then a *)
(* runner keeps a tunnel open and serves requests until the grant is       *)
(* revoked, here or there, or its time is over.                            *)
(*                                                                         *)
(* Concurrency: pair, approve and revoke hold one lock; the runner polls   *)
(* and serves beside them, and outside the lock.  An await is a step       *)
(* boundary.  A request to the Gateway takes the Gateway's state when it   *)
(* is sent; its answer arrives later, or not at all.                       *)
(*                                                                         *)
(* The Gateway is external.  Routes, headers, sizes, scopes and the        *)
(* cooldown after a 429 are left out; an account is part of its grant.     *)
(***************************************************************************)
EXTENDS Naturals, FiniteSets

CONSTANTS
  None,
  MaxPairings, \* bound: pairings
  MaxClaims,   \* bound: claims
  MaxRunners,  \* bound: tasks of _run alive at a time
  MaxRestarts   \* bound: restarts of the process

VARIABLES
  store,      \* node.json and its copy in memory
  cloud,      \* what the Gateway holds of each credential
  due,        \* credentials whose expires_at has passed
  runner,     \* the runner tasks
  current,    \* _runner
  tunnel,     \* _tunnel: the runner that opened it
  open,       \* runners whose tunnel is connected
  channels,   \* _ws and _requests: the runners that opened them
  op,         \* the holder of _mutation
  confirmed,  \* ghost: <<credential, grant>> the user has confirmed
  dropped,    \* ghost: credentials the user has revoked
  restarts

remoteVars == <<store, cloud, due, runner, current, tunnel, open, channels, op, confirmed, dropped, restarts>>

Tokens == 1 .. MaxPairings   \* device credentials, one for each pairing
Grants == 1 .. MaxClaims
Runners == 1 .. MaxRunners
First(S) == CHOOSE x \in S : \A y \in S : x <= y

Lost == [status |-> "lost", grant |-> 0]
Unused == [status |-> "unused", grant |-> 0]
Nothing == [status |-> "disconnected", token |-> None, grant |-> 0, approved |-> FALSE]
(* state is what the request in flight was made with, fresh whether it is  *)
(* still the object that is stored.                                        *)
NoTask == [pc |-> "none", state |-> Nothing, fresh |-> FALSE, reply |-> Lost, waits |-> None]
NoOp == [kind |-> "idle", pc |-> "idle", state |-> Nothing, fresh |-> FALSE, reply |-> Lost,
         token |-> None, grant |-> 0, waits |-> None]
Live == {i \in Runners : runner[i].pc # "none"}

TypeOK ==
  /\ store.status \in {"disconnected", "pending", "claimed", "paired", "revoked", "expired"}
  /\ store.token \in Tokens \cup {None} /\ store.grant \in 0 .. MaxClaims
  /\ store.approved \in BOOLEAN
  /\ \A t \in Tokens : cloud[t].status \in {"unused", "pending", "claimed", "paired", "revoked"}
  /\ due \subseteq Tokens /\ dropped \subseteq Tokens
  /\ \A i \in Runners : runner[i].pc \in {"none", "poll", "asked", "dial", "dialing", "serving", "closing", "leaving"}
  /\ current \in Runners \cup {None} /\ tunnel \in Runners \cup {None}
  /\ open \subseteq Runners /\ channels \subseteq Runners
  /\ op.kind \in {"idle", "pair", "approve", "revoke"}
  /\ confirmed \subseteq Tokens \X Grants

Init ==
  /\ store = Nothing
  /\ cloud = [t \in Tokens |-> Unused] /\ due = {}
  /\ runner = [i \in Runners |-> NoTask]
  /\ current = None /\ tunnel = None /\ open = {} /\ channels = {}
  /\ op = NoOp
  /\ confirmed = {} /\ dropped = {} /\ restarts = 0

-----------------------------------------------------------------------------
Due(s) == s.token # None /\ s.token \in due
(* store.status: what the user and the code's checks are shown.            *)
Status(s) == IF Due(s) THEN "expired" ELSE s.status
(* store.authorize: the grant may be used now.                             *)
Authorized(s, grant) == s.approved /\ ~Due(s) /\ s.grant = grant
(* _terminate and revoke keep the public fields only.                      *)
Ended(status) == [store EXCEPT !.status = status, !.token = None, !.approved = FALSE]

(* Saving replaces the object a request in flight remembers as its state.  *)
Save(s, rs, o) ==
  /\ store' = s
  /\ runner' = [i \in Runners |-> [rs[i] EXCEPT !.fresh = FALSE]]
  /\ op' = [o EXCEPT !.fresh = FALSE]
Leave(rs, o) == UNCHANGED store /\ runner' = rs /\ op' = o

(* stop: the runner is cancelled, unless it calls this itself.  One that   *)
(* waits for a session to close swallows the cancellation.                 *)
Cancelled(by) ==
  LET r == current IN
  IF r \in {None, by} \/ runner[r].pc = "none" THEN {runner}
  ELSE {[runner EXCEPT ![r].pc = "leaving"]} \cup
       (IF runner[r].pc = "closing" /\ channels # {} THEN {runner} ELSE {})
Awaited(by) == IF current \in {None, by} THEN None ELSE current

(* _close_connections: what the object holds, whoever opened it.           *)
Close ==
  /\ channels' = {} /\ tunnel' = None
  /\ open' = IF tunnel = None THEN open ELSE open \ {tunnel}
Connections == <<tunnel, open, channels>>
Ghosts == <<confirmed, dropped>>

(* A request with the credential of the moment.                            *)
Answers(t) == {cloud[t], Lost}

(* _terminate, called by a runner: the grant ends, then what is open; if   *)
(* nothing is, the runner returns at once.                                 *)
Terminate(i, status) ==
  /\ \E rs \in Cancelled(i) :
       Save(Ended(status),
            [rs EXCEPT ![i] = IF channels = {} /\ tunnel = None /\ Awaited(i) = None THEN NoTask
                              ELSE [NoTask EXCEPT !.pc = "closing", !.waits = Awaited(i)]], op)
  /\ current' = None

Goes(i, pc) == Leave([runner EXCEPT ![i] = [NoTask EXCEPT !.pc = pc]], op)
(* The runner's error path: it returns, or closes and tries again later.   *)
Backoff(i) ==
  \/ store.token = None /\ Goes(i, "leaving") /\ UNCHANGED current
  \/ Due(store) /\ Terminate(i, "expired")
  \/ store.token # None /\ ~Due(store) /\ Goes(i, "closing") /\ UNCHANGED current

(* refresh: a claim is taken over while the grant is not approved.         *)
Refreshed(s, reply) ==
  IF ~s.approved /\ reply.status = "claimed" THEN [s EXCEPT !.status = "claimed", !.grant = reply.grant] ELSE s
Agrees(s, reply) == s.approved => Authorized(s, reply.grant)

(* Where _run goes after its refresh.                                      *)
Onward(s) ==
  IF Status(s) \in {"revoked", "expired"} THEN "leaving" ELSE IF s.approved THEN "dial" ELSE "poll"

-----------------------------------------------------------------------------
(* _run: the head of the loop and the request of refresh.                  *)
Poll(i) ==
  /\ runner[i].pc = "poll"
  /\ \/ store.token = None /\ Goes(i, "leaving") /\ UNCHANGED current
     \/ Due(store) /\ Terminate(i, "expired")
     \/ /\ store.token # None /\ ~Due(store)
        /\ \E a \in Answers(store.token) :
             Leave([runner EXCEPT ![i] = [NoTask EXCEPT !.pc = "asked", !.state = store, !.fresh = TRUE, !.reply = a]], op)
        /\ UNCHANGED current
  /\ UNCHANGED <<cloud, due, Connections, Ghosts, restarts>>

(* Mutant: refresh applies an answer to whatever state there is.           *)
AppliesAs(fresh) == TRUE

(* refresh applies an answer only to the state it has asked for.           *)
Applies(fresh) == fresh

Receive(i) ==
  LET task == runner[i] s == Refreshed(task.state, task.reply) IN
  /\ task.pc = "asked"
  /\ \/ task.reply = Lost /\ Backoff(i)
     \/ /\ task.reply # Lost /\ ~Applies(task.fresh)
        /\ Goes(i, Onward(store)) /\ UNCHANGED current
     \/ /\ Applies(task.fresh) /\ task.reply.status = "revoked"
        /\ Terminate(i, "revoked")
     \/ /\ Applies(task.fresh) /\ task.reply.status \notin {"lost", "revoked"}
        /\ ~Agrees(task.state, task.reply) /\ Backoff(i)
     \/ /\ Applies(task.fresh) /\ task.reply.status \notin {"lost", "revoked"}
        /\ Agrees(task.state, task.reply)
        /\ IF task.reply.status = "claimed" /\ ~task.state.approved
           THEN Save(s, [runner EXCEPT ![i] = [NoTask EXCEPT !.pc = Onward(s)]], op)
           ELSE Goes(i, Onward(store))
        /\ UNCHANGED current
  /\ UNCHANGED <<cloud, due, Connections, Ghosts, restarts>>

(* _serve_tunnel up to the handshake.                                      *)
Dial(i) ==
  /\ runner[i].pc = "dial"
  /\ IF store.approved /\ ~Due(store)
     THEN /\ \E a \in Answers(store.token) :
               Leave([runner EXCEPT ![i] = [NoTask EXCEPT !.pc = "dialing", !.state = store, !.reply = a]], op)
          /\ UNCHANGED current
     ELSE Backoff(i)
  /\ UNCHANGED <<cloud, due, Connections, Ghosts, restarts>>

(* The handshake fails, or the Gateway says hello.                         *)
Hello(i) ==
  LET reply == runner[i].reply IN
  /\ runner[i].pc = "dialing"
  /\ \/ reply.status = "revoked" /\ Terminate(i, "revoked") /\ UNCHANGED Connections
     \/ ~(reply.status = "paired" /\ Authorized(store, reply.grant)) /\ Backoff(i) /\ UNCHANGED Connections
     \/ /\ reply.status = "paired" /\ Authorized(store, reply.grant)
        /\ Leave([runner EXCEPT ![i] = [@ EXCEPT !.pc = "serving", !.reply = Lost]], op)
        /\ tunnel' = i /\ open' = open \cup {i}
        /\ UNCHANGED <<current, channels>>
  /\ UNCHANGED <<cloud, due, Ghosts, restarts>>

(* handle_message: a request or session is opened, and ends.               *)
OpenChannel(i) ==
  /\ runner[i].pc = "serving" /\ i \in open /\ i \notin channels
  /\ Authorized(store, cloud[runner[i].state.token].grant)
  /\ channels' = channels \cup {i}
  /\ UNCHANGED <<store, cloud, due, runner, current, tunnel, open, op, Ghosts, restarts>>
CloseChannel(i) ==
  /\ i \in channels /\ channels' = channels \ {i}
  /\ UNCHANGED <<store, cloud, due, runner, current, tunnel, open, op, Ghosts, restarts>>

(* The Gateway tells that the grant is revoked.                            *)
Told(i) ==
  /\ runner[i].pc = "serving" /\ i \in open /\ cloud[runner[i].state.token].status = "revoked"
  /\ Terminate(i, "revoked")
  /\ UNCHANGED <<cloud, due, Connections, Ghosts, restarts>>
(* The tunnel is lost, was closed by others, or the heartbeat finds the    *)
(* grant gone; leaving it closes everything.                               *)
TunnelEnds(i) ==
  /\ runner[i].pc = "serving"
  /\ Backoff(i)
  /\ open' = open \ {i}
  /\ tunnel' = (IF tunnel = i THEN None ELSE tunnel) /\ channels' = channels
  /\ UNCHANGED <<cloud, due, Ghosts, restarts>>

(* The end of _close_connections: the runner goes on if there is a grant.  *)
Closed(i) ==
  /\ runner[i].pc \in {"closing", "leaving"}
  /\ runner[i].waits \notin Live
  /\ channels' = {} /\ tunnel' = None
  /\ open' = open \ {i, tunnel}
  /\ Leave([runner EXCEPT ![i] = IF runner[i].pc = "closing" /\ store.token # None
                                 THEN [NoTask EXCEPT !.pc = "poll"] ELSE NoTask], op)
  /\ UNCHANGED <<cloud, due, current, Ghosts, restarts>>

-----------------------------------------------------------------------------
(* start: unless one runs already.                                         *)
Started(rs) ==
  IF current # None /\ rs[current].pc # "none" THEN runner' = rs /\ UNCHANGED current
  ELSE /\ Live # Runners /\ current' = First(Runners \ Live)
       /\ runner' = [rs EXCEPT ![current'] = [NoTask EXCEPT !.pc = "poll"]]
Stalled == [i \in Runners |-> [runner[i] EXCEPT !.fresh = FALSE]]

(* stop, called under the lock.                                            *)
Stops(s, kind, token) ==
  /\ \E rs \in Cancelled(None) :
       LET o == [NoOp EXCEPT !.kind = kind, !.pc = "stopping", !.waits = Awaited(None), !.token = token] IN
       IF s = store THEN Leave(rs, o) ELSE Save(s, rs, o)
  /\ current' = None
Ready == op.pc = "stopping" /\ op.waits \notin Live

(* pair: only when nothing is connected.                                   *)
Pair ==
  /\ op = NoOp /\ Status(store) \in {"disconnected", "revoked", "expired"}
  /\ \E t \in Tokens : cloud[t] = Unused
  /\ Stops(store, "pair", First({t \in Tokens : cloud[t] = Unused}))
  /\ UNCHANGED <<cloud, due, Connections, Ghosts, restarts>>
PairPost ==
  /\ op.kind = "pair" /\ Ready
  /\ Close
  /\ cloud' = [cloud EXCEPT ![op.token].status = "pending"]
  /\ \E a \in {cloud'[op.token], Lost} :
       Save(Nothing, runner, [op EXCEPT !.pc = "posted", !.reply = a])
  /\ UNCHANGED <<due, current, Ghosts, restarts>>
PairReply ==
  /\ op.kind = "pair" /\ op.pc = "posted"
  /\ op' = NoOp
  /\ IF op.reply = Lost \/ op.token \in due THEN UNCHANGED <<store, runner, current>>
     ELSE /\ store' = [Nothing EXCEPT !.status = "pending", !.token = op.token]
          /\ Started(Stalled)
  /\ UNCHANGED <<cloud, due, Connections, Ghosts, restarts>>

(* approve: refresh first.  Without a credential it changes nothing.       *)
Approve(g) ==
  /\ op = NoOp /\ store.token # None
  /\ IF Due(store) THEN Stops(Ended("expired"), "approve", None)
     ELSE /\ \E a \in Answers(store.token) :
               Leave(runner, [NoOp EXCEPT !.kind = "approve", !.pc = "asked", !.state = store, !.fresh = TRUE,
                                               !.reply = a, !.grant = g])
          /\ UNCHANGED current
  /\ UNCHANGED <<cloud, due, Connections, Ghosts, restarts>>

(* The claim the user has seen, then, must still be there.                 *)
Posts(s) ==
  LET t == s.token o == [op EXCEPT !.pc = "posted", !.state = s, !.fresh = TRUE] IN
  IF s.status = "claimed" /\ s.grant = op.grant /\ ~Due(s)
  THEN /\ cloud' = IF cloud[t].status = "claimed" /\ cloud[t].grant = op.grant
                   THEN [cloud EXCEPT ![t].status = "paired"] ELSE cloud
       /\ confirmed' = confirmed \cup {<<t, op.grant>>}
       /\ \E a \in {cloud'[t], Lost} : op' = [o EXCEPT !.reply = a]
  ELSE op' = NoOp /\ UNCHANGED <<cloud, confirmed>>

ApprovePost ==
  LET s == Refreshed(op.state, op.reply) IN
  /\ op.kind = "approve" /\ op.pc = "asked"
  /\ \/ op.reply = Lost /\ op' = NoOp /\ UNCHANGED <<store, runner, current, cloud, confirmed>>
     \/ /\ Applies(op.fresh) /\ op.reply.status = "revoked"
        /\ Stops(Ended("revoked"), "approve", None)
        /\ UNCHANGED <<cloud, confirmed>>
     \/ /\ Applies(op.fresh) /\ op.reply.status \notin {"lost", "revoked"}
        /\ IF Agrees(op.state, op.reply) THEN store' = s /\ Posts(s)
           ELSE op' = NoOp /\ UNCHANGED <<store, cloud, confirmed>>
        /\ runner' = IF op.reply.status = "claimed" /\ ~op.state.approved THEN Stalled ELSE runner
        /\ UNCHANGED current
     \/ /\ op.reply # Lost /\ ~Applies(op.fresh)
        /\ Posts(store)
        /\ UNCHANGED <<store, runner, current>>
  /\ UNCHANGED <<due, Connections, dropped, restarts>>

(* The answer is applied to the state the request was made with; start     *)
(* then looks at the time.                                                 *)
ApproveReply ==
  /\ op.kind = "approve" /\ op.pc = "posted"
  /\ \/ /\ op.reply.status = "paired" /\ op.reply.grant = op.grant /\ Due(op.state)
        /\ Stops([op.state EXCEPT !.status = "expired", !.token = None], "approve", None)
     \/ /\ op.reply.status = "paired" /\ op.reply.grant = op.grant /\ ~Due(op.state)
        /\ store' = [op.state EXCEPT !.status = "paired", !.approved = TRUE]
        /\ op' = NoOp
        /\ Started(Stalled)
     \/ /\ op.reply.status = "revoked" /\ op.fresh
        /\ Stops(Ended("revoked"), "approve", None)
     \/ /\ op.reply.status = "revoked" => ~op.fresh
        /\ ~(op.reply.status = "paired" /\ op.reply.grant = op.grant)
        /\ op' = NoOp /\ UNCHANGED <<store, runner, current>>
  /\ UNCHANGED <<cloud, due, Connections, Ghosts, restarts>>

(* An approval that found the grant gone ends with its stop.               *)
ApproveEnds ==
  /\ op.kind = "approve" /\ Ready
  /\ Close
  /\ Leave(runner, NoOp)
  /\ UNCHANGED <<cloud, due, current, Ghosts, restarts>>

(* revoke: first the grant, then the connections, then the Gateway.        *)
Revoke ==
  /\ op = NoOp
  /\ Stops(Ended("revoked"), "revoke", store.token)
  /\ dropped' = dropped \cup ({store.token} \ {None})
  /\ UNCHANGED <<cloud, due, Connections, confirmed, restarts>>
Notify ==
  /\ op.kind = "revoke" /\ Ready
  /\ Close
  /\ \/ UNCHANGED cloud
     \/ op.token # None /\ cloud' = [cloud EXCEPT ![op.token].status = "revoked"]
  /\ Leave(runner, NoOp)
  /\ UNCHANGED <<due, current, Ghosts, restarts>>

-----------------------------------------------------------------------------
(* External: an account claims the node, anew with a new grant; it is      *)
(* revoked there; time passes; the process restarts.                       *)
Claim(t) ==
  /\ cloud[t].status \in {"pending", "claimed"}
  /\ \E g \in Grants :
       /\ g = 1 + Cardinality({h \in Grants : \E u \in Tokens : cloud[u].grant >= h})
       /\ cloud' = [cloud EXCEPT ![t] = [status |-> "claimed", grant |-> g]]
  /\ UNCHANGED <<store, due, runner, current, Connections, op, Ghosts, restarts>>
CloudRevokes(t) ==
  /\ cloud[t].status \in {"pending", "claimed", "paired"}
  /\ cloud' = [cloud EXCEPT ![t].status = "revoked"]
  /\ UNCHANGED <<store, due, runner, current, Connections, op, Ghosts, restarts>>
Expires(t) ==
  /\ cloud[t] # Unused /\ t \notin due
  /\ due' = due \cup {t}
  /\ UNCHANGED <<store, cloud, runner, current, Connections, op, Ghosts, restarts>>
Restart ==
  /\ restarts < MaxRestarts /\ restarts' = restarts + 1
  /\ op' = NoOp /\ tunnel' = None /\ open' = {} /\ channels' = {}
  /\ store' = IF Due(store) THEN Ended("expired") ELSE store
  /\ current' = IF store'.token = None THEN None ELSE First(Runners)
  /\ runner' = [i \in Runners |-> IF i = current' THEN [NoTask EXCEPT !.pc = "poll"] ELSE NoTask]
  /\ UNCHANGED <<cloud, due, Ghosts>>

Next ==
  \/ \E i \in Runners : \/ Poll(i) \/ Receive(i) \/ Dial(i) \/ Hello(i) \/ OpenChannel(i) \/ CloseChannel(i)
                        \/ Told(i) \/ TunnelEnds(i) \/ Closed(i)
  \/ Pair \/ PairPost \/ PairReply \/ (\E g \in Grants : Approve(g)) \/ ApprovePost \/ ApproveReply \/ ApproveEnds
  \/ Revoke \/ Notify
  \/ \E t \in Tokens : Claim(t) \/ CloudRevokes(t) \/ Expires(t)
  \/ Restart

Spec == Init /\ [][Next]_remoteVars

-----------------------------------------------------------------------------
(* What is served was confirmed by the user (remote_workspace.py:577,      *)
(* "The claimed account and grant must match local confirmation").         *)
ConfirmedOnly == store.approved => <<store.token, store.grant>> \in confirmed

(* A credential the user has revoked is not used again, whatever answers   *)
(* were on their way.                                                      *)
RevokedStays == store.token \notin dropped

(* "late claimed/paired responses cannot overwrite the newer state"        *)
(* (docs/en/architecture/remote-workspace.md): an approval is not undone   *)
(* by an answer about the claim.                                           *)
ApprovalSticks ==
  store.approved /\ ~store'.approved => store'.token = None /\ store'.status \in {"revoked", "expired", "disconnected"}

(* "old 401/403/410 responses cannot terminate the replacement grant"      *)
(* (same place), as long as a single runner is at work: a credential is    *)
(* dropped for its own end.                                                *)
DroppedForCause ==
  store.token # None /\ store'.token = None /\ Cardinality(Live) <= 1 =>
    \/ cloud[store.token].status = "revoked" \/ store.token \in due \/ store.token \in dropped'

GrantIsHonouredStep == ConfirmedOnly' /\ RevokedStays' /\ ApprovalSticks /\ DroppedForCause
GrantIsHonoured == [][GrantIsHonouredStep]_remoteVars

(* Not kept by the code: see the README.                                   *)
OneRunner == Cardinality({i \in Runners : runner[i].pc \notin {"none", "closing", "leaving"}}) <= 1
EndedStays == [][store.token = None /\ op.kind # "pair" => store'.token = None]_remoteVars
ExpiredIsCleared == Due(store) => Live # {} \/ op # NoOp
=============================================================================
