------------------------------ MODULE WidgetHost ------------------------------
(***************************************************************************)
(* A Widget in the browser and its session with the backend: the single-   *)
(* use ticket, the handshake, the calls of its frame (graph mutations as   *)
(* keyed Runs, the device location), disconnection and reconnection.       *)
(*                                                                         *)
(* Granularity: one action per message, timer or step of a task between    *)
(* two awaits.  A mount is one ClientRuntimeSession of a window, with the  *)
(* backend session its ticket opens; messages of a socket keep their       *)
(* order.  The frame's own rendering, storage and layout are left out.     *)
(***************************************************************************)
EXTENDS Naturals, Sequences, FiniteSets

CONSTANTS
  Windows,      \* places of the workspace that show the Widget
  MaxMounts,    \* bound: sessions mounted one after the other
  MaxCalls,     \* bound: calls of one frame
  MaxPending,   \* tickets kept (256)
  MaxSessions,  \* sessions kept (16)
  MaxVersion    \* bound: updates of the App or its grants

Mounts == 1 .. MaxMounts
CallIds == 1 .. MaxCalls
NoCall == 0
Idle == "idle"

VARIABLES
  app,       \* the App snapshot on disk: manifest, grants and Controller
  tickets,   \* tokens of _tickets, oldest first
  issued,    \* the snapshot each ticket was issued for
  mount,     \* the session in the window: at, win, calls made, asked, locating
  sessions,  \* ClientWidgetRuntimeSessionStore
  serving,   \* what the backend does for each session
  up, down,  \* messages of each socket
  runs,      \* Runs of the store: idempotency key -> the call that made it
  answered   \* ghost: answers the frames received

client == <<mount, answered>>
backend == <<tickets, issued, sessions, serving, runs>>
wires == <<up, down>>
vars == <<app, client, backend, wires>>

Unborn == [at |-> "unborn", win |-> {}, calls |-> NoCall, asked |-> NoCall, locating |-> NoCall]
Free == [at |-> Idle, call |-> NoCall, device |-> Idle, got |-> {}, asking |-> NoCall]

Init ==
  /\ app = 1 /\ tickets = <<>> /\ issued = [m \in Mounts |-> 0]
  /\ mount = [m \in Mounts |-> Unborn] /\ sessions = {} /\ serving = [m \in Mounts |-> Free]
  /\ up = [m \in Mounts |-> <<>>] /\ down = [m \in Mounts |-> <<>>]
  /\ runs = {} /\ answered = {}

SendUp(m, msg) == up' = [up EXCEPT ![m] = Append(@, msg)]
SendDown(m, msg) == down' = [down EXCEPT ![m] = IF m \in sessions THEN Append(@, msg) ELSE @]
Msg(type, call, of) == [type |-> type, call |-> call, of |-> of]
Mounted(m) == mount[m].at \in {"ticket", "connecting", "open"}

-----------------------------------------------------------------------------
(* The effect of IsolatedSandboxWidget: the session of a window is gone    *)
(* before the next is mounted; start fetches a ticket.                     *)
Mount(m, w) ==
  /\ mount[m].at = "unborn" /\ \A k \in 1 .. m - 1 : mount[k].at # "unborn"
  /\ \A k \in Mounts : mount[k].win = {w} => ~Mounted(k)
  /\ mount' = [mount EXCEPT ![m].at = "ticket", ![m].win = {w}]
  /\ tickets' = Append(IF Len(tickets) >= MaxPending THEN Tail(tickets) ELSE tickets, m)
  /\ issued' = [issued EXCEPT ![m] = app]
  /\ UNCHANGED <<app, sessions, serving, runs, answered, wires>>

(* _discard_expired_locked: all tickets live equally long.                 *)
Expire ==
  /\ tickets # <<>> /\ tickets' = Tail(tickets)
  /\ UNCHANGED <<app, client, issued, sessions, serving, runs, wires>>

(* consume: the ticket is taken under the lock, whoever wins.              *)
Connect(m) ==
  /\ mount[m].at = "ticket"
  /\ IF \E n \in DOMAIN tickets : tickets[n] = m
     THEN /\ tickets' = SelectSeq(tickets, LAMBDA t : t # m)
          /\ mount' = [mount EXCEPT ![m].at = "connecting"]
          /\ serving' = [serving EXCEPT ![m].at = "checking"]
     ELSE mount' = [mount EXCEPT ![m].at = "closed"] /\ UNCHANGED <<tickets, serving>>
  /\ UNCHANGED <<app, issued, sessions, runs, answered, wires>>

(* The App is read again, the session opened, the bootstrap sent.          *)
Accept(m) ==
  /\ serving[m].at = "checking"
  /\ IF issued[m] = app /\ Cardinality(sessions) < MaxSessions
     THEN /\ sessions' = sessions \cup {m} /\ serving' = [serving EXCEPT ![m].at = "reading"]
          /\ down' = [down EXCEPT ![m] = <<Msg("bootstrap", NoCall, {})>>] /\ UNCHANGED mount
     ELSE /\ serving' = [serving EXCEPT ![m].at = "closed"]
          /\ mount' = [mount EXCEPT ![m].at = "closed"]
          /\ UNCHANGED <<sessions, down>>
  /\ UNCHANGED <<app, tickets, issued, runs, answered, up>>

(* The App is published anew or its grants change.                         *)
Update ==
  /\ app < MaxVersion /\ app' = app + 1
  /\ UNCHANGED <<client, backend, wires>>

-----------------------------------------------------------------------------
(* The frame calls: a mutation, or its position unless one is under way.   *)
Call(m, type) ==
  LET r == mount[m].calls + 1 IN
  /\ mount[m].at = "open" /\ r <= MaxCalls
  /\ IF type = "location" /\ (mount[m].asked # NoCall \/ mount[m].locating # NoCall)
     THEN mount' = [mount EXCEPT ![m].calls = r] /\ UNCHANGED up
     ELSE /\ mount' = [mount EXCEPT ![m].calls = r, ![m].asked = IF type = "location" THEN r ELSE @]
          /\ SendUp(m, Msg(type, r, {}))
  /\ UNCHANGED <<app, answered, backend, down>>

(* requestDeviceLocation settles, within its own time limit; the answer    *)
(* carries the id of the device request and the position it found.         *)
Located(m) ==
  /\ mount[m].at = "open" /\ mount[m].locating # NoCall
  /\ \E found \in BOOLEAN :
       SendUp(m, Msg("device_response", mount[m].locating,
                    IF found THEN {<<m, mount[m].locating>>} ELSE {}))
  /\ mount' = [mount EXCEPT ![m].locating = NoCall]
  /\ UNCHANGED <<app, answered, backend, down>>

(* handleServerMessage, and the frame it posts answers to.  A refused      *)
(* device request is answered with an error.                               *)
ClientReceive(m) ==
  /\ Mounted(m) /\ down[m] # <<>>
  /\ LET msg == Head(down[m]) IN
     /\ down' = [down EXCEPT ![m] = Tail(@)]
     /\ CASE msg.type = "bootstrap" ->
               mount' = [mount EXCEPT ![m].at = "open"] /\ UNCHANGED <<up, answered>>
          [] msg.type = "device_request" ->
               /\ mount' = [mount EXCEPT ![m].asked = IF @ = msg.call THEN NoCall ELSE @,
                              ![m].locating = IF @ = NoCall /\ mount[m].asked = msg.call THEN msg.call ELSE @]
               /\ IF mount[m].locating = NoCall /\ mount[m].asked = msg.call THEN UNCHANGED up
                  ELSE SendUp(m, Msg("device_response", msg.call, {}))
               /\ UNCHANGED answered
          [] msg.type \in {"run", "position", "error"} ->
               /\ mount' = [mount EXCEPT ![m].asked = IF @ = msg.call THEN NoCall ELSE @]
               /\ answered' = answered \cup {<<m, msg>>} /\ UNCHANGED up
  /\ UNCHANGED <<app, backend>>

(* Unmount, reconnection or a handshake that took too long: the session is *)
(* disposed and its socket closed; a geolocation is aborted.               *)
Dispose(m) ==
  /\ Mounted(m) /\ mount' = [mount EXCEPT ![m].at = "closed", ![m].asked = NoCall, ![m].locating = NoCall]
  /\ down' = [down EXCEPT ![m] = <<>>]
  /\ UNCHANGED <<app, answered, backend, up>>

-----------------------------------------------------------------------------
Authorized(m) == issued[m] = app

(* Mutant: the key leaves out the session.                                 *)
RunKeyAs(m, r) == r
(* The idempotency key of a Widget's Run.                                  *)
RunKey(m, r) == <<m, r>>

(* The receive loop of the socket, which waits for the Run of a mutation;  *)
(* a location call becomes a task of its own unless there is one.          *)
Receive(m) ==
  /\ serving[m].at = "reading" /\ up[m] # <<>>
  /\ LET msg == Head(up[m])
         made == \E run \in runs : run.key = RunKey(m, msg.call) IN
     /\ up' = [up EXCEPT ![m] = Tail(@)]
     /\ \/ /\ msg.type = "mutate" /\ Authorized(m)
           /\ serving' = [serving EXCEPT ![m].at = "waiting", ![m].call = msg.call]
           /\ runs' = IF made THEN runs ELSE runs \cup {[key |-> RunKey(m, msg.call), by |-> <<m, msg.call>>]}
           /\ UNCHANGED down
        \/ /\ \/ msg.type = "mutate" /\ ~Authorized(m)
              \/ msg.type = "location" /\ (serving[m].device # Idle \/ ~Authorized(m))
           /\ SendDown(m, Msg("error", msg.call, {})) /\ UNCHANGED <<serving, runs>>
        \/ /\ msg.type = "location" /\ serving[m].device = Idle /\ Authorized(m)
           /\ serving' = [serving EXCEPT ![m].device = "asked", ![m].asking = msg.call]
           /\ SendDown(m, Msg("device_request", msg.call, {})) /\ UNCHANGED runs
        \/ /\ msg.type = "device_response"
           /\ serving' = IF serving[m].device = "asked" /\ serving[m].asking = msg.call
                         THEN [serving EXCEPT ![m].device = IF msg.of = {} THEN "failed" ELSE "found", ![m].got = msg.of]
                         ELSE serving
           /\ UNCHANGED <<down, runs>>
  /\ UNCHANGED <<app, client, tickets, issued, sessions>>

(* The Run has ended, or was waited for long enough.                       *)
Answer(m) ==
  /\ serving[m].at = "waiting"
  /\ \E run \in runs, ended \in BOOLEAN :
       /\ run.key = RunKey(m, serving[m].call)
       /\ SendDown(m, Msg(IF ended THEN "run" ELSE "error", serving[m].call, IF ended THEN {run.by} ELSE {}))
  /\ serving' = [serving EXCEPT ![m].at = "reading", ![m].call = NoCall]
  /\ UNCHANGED <<app, client, tickets, issued, sessions, runs, up>>

(* request_location times out, a second after the device should have.      *)
DeviceTimeout(m) ==
  /\ serving[m].device = "asked" /\ serving' = [serving EXCEPT ![m].device = "failed"]
  /\ UNCHANGED <<app, client, tickets, issued, sessions, runs, wires>>

(* The location task goes on: the session and the grants are checked again.*)
Settle(m) ==
  /\ serving[m].device \in {"failed", "found"}
  /\ LET good == serving[m].device = "found" /\ m \in sessions /\ Authorized(m) IN
     SendDown(m, IF good THEN Msg("position", serving[m].asking, serving[m].got)
                 ELSE Msg("error", serving[m].asking, {}))
  /\ serving' = [serving EXCEPT ![m].device = Idle, ![m].got = {}, ![m].asking = NoCall]
  /\ UNCHANGED <<app, client, tickets, issued, sessions, runs, up>>

(* The socket is found closed, or fails: unregister, close, cancel.  The   *)
(* loop notices when it reads or answers, also one that waits for a Run.   *)
Hangup(m) ==
  /\ serving[m].at \in {"reading", "waiting"}
  /\ serving' = [serving EXCEPT ![m] = [Free EXCEPT !.at = "closed"]]
  /\ sessions' = sessions \ {m} /\ up' = [up EXCEPT ![m] = <<>>]
  /\ mount' = IF Mounted(m) THEN [mount EXCEPT ![m].at = "closed", ![m].asked = NoCall, ![m].locating = NoCall]
              ELSE mount
  /\ down' = [down EXCEPT ![m] = <<>>]
  /\ UNCHANGED <<app, answered, tickets, issued, runs>>

Next ==
  \/ Expire \/ Update
  \/ \E m \in Mounts :
       \/ \E w \in Windows : Mount(m, w)
       \/ \E type \in {"mutate", "location"} : Call(m, type)
       \/ Connect(m) \/ Accept(m) \/ Located(m) \/ ClientReceive(m) \/ Dispose(m)
       \/ Receive(m) \/ Answer(m) \/ DeviceTimeout(m) \/ Settle(m) \/ Hangup(m)

Spec == Init /\ [][Next]_vars

-----------------------------------------------------------------------------
TypeOK ==
  /\ app \in 1 .. MaxVersion /\ sessions \subseteq Mounts /\ issued \in [Mounts -> 0 .. MaxVersion]
  /\ Len(tickets) <= MaxPending /\ Cardinality(sessions) <= MaxSessions
  /\ \A m \in Mounts : serving[m].at \in {Idle, "checking", "reading", "waiting", "closed"}

(* A frame hears only of the Run its own call made and only the position   *)
(* that was measured for its own call, across reconnections that start     *)
(* counting calls anew, late device answers and time limits.               *)
AnsweredForAsker ==
  \A a \in answered : LET m == a[1] msg == a[2] IN
    msg.type \in {"run", "position"} => msg.of = {<<m, msg.call>>}
=============================================================================
