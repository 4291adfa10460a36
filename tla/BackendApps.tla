---------------------------- MODULE BackendApps ----------------------------
(***************************************************************************)
(* The process of a backend App (BackendManager, StdioJsonRpcClient): when *)
(* it is started, replaced and stopped, and the calls that wait for it.    *)
(* Also the calls to an App that is an HTTP agent.                         *)
(*                                                                         *)
(* Granularity: a task runs from one await to the next in one action; the  *)
(* process, its reader and the clock act in between.  One App.  A client   *)
(* object is never started twice by the manager: clients are numbered in   *)
(* the order they are made.  The contents of requests and answers, and the *)
(* parsing of the frames, are left out: a frame that cannot be parsed is a *)
(* failure of the reader.                                                  *)
(***************************************************************************)
EXTENDS Naturals, FiniteSets

CONSTANTS
  Tasks,        \* tasks of the Runs that call the App
  Stoppers,     \* requests that stop the runtime, and the shutdown
  Manifests,    \* identities of its process: command, arguments, revision
  MaxClients,   \* bound: clients made
  MaxCancels    \* bound: cancellations of one task

Nobody == "nobody"
NoClient == 0
ClientIds == 1 .. MaxClients

VARIABLES
  installed,    \* identity in the manifest of the App
  permitted,    \* identities in backend_permissions.json
  holder,       \* who has the spawn lock
  registered,   \* mcp_clients, with _mcp_runtime_identities
  clients,      \* every client made so far
  at,           \* where each task and stopper is
  wants,        \* the identity a task was started with
  uses,         \* the client it talks to
  future,       \* the future it awaits
  cancels,      \* how often it was cancelled
  agentStatus   \* agent_runtimes

vars == <<installed, permitted, holder, registered, clients, at, wants, uses, future,
          cancels, agentStatus>>

Unmade == [identity |-> Nobody, process |-> "none", initialized |-> FALSE, stopping |-> FALSE,
           failed |-> FALSE, pending |-> {}]
Made == {c \in ClientIds : clients[c].identity # Nobody}

Init ==
  /\ installed \in Manifests /\ permitted = {} /\ holder = Nobody /\ registered = NoClient
  /\ clients = [c \in ClientIds |-> Unmade]
  /\ at = [t \in Tasks \cup Stoppers |-> "idle"]
  /\ wants = [t \in Tasks |-> Nobody] /\ uses = [t \in Tasks |-> NoClient]
  /\ future = [t \in Tasks |-> "none"] /\ cancels = [t \in Tasks |-> 0]
  /\ agentStatus = "none"

-----------------------------------------------------------------------------
(* is_healthy.                                                             *)
Healthy(c) ==
  /\ c # NoClient /\ clients[c].process = "running"
  /\ clients[c].initialized /\ ~clients[c].failed

(* _fail_transport: whoever waits for the client gets the error.           *)
Failing(c) == [clients[c] EXCEPT !.failed = TRUE, !.pending = {}]
Told(c) == [t \in Tasks |-> IF t \in clients[c].pending THEN "error" ELSE future[t]]

(* terminate.  Mutant: the process is left to see its closed input.        *)
SignalledAs(client) == client
Signalled(client) == [client EXCEPT !.process = IF @ = "running" THEN "dying" ELSE @]

(* _stop_unlocked up to the wait for the process.                          *)
BeginStop(c) ==
  /\ clients' = [clients EXCEPT ![c] =
       Signalled([Failing(c) EXCEPT !.stopping = TRUE, !.initialized = FALSE])]
  /\ future' = Told(c)

(* Its end: the process was waited for, killed if need be.                 *)
Reaped(c) == clients[c].process \in {"none", "dead"}

(* _request once the client is ready.                                      *)
Request(t, c) ==
  /\ clients' = [clients EXCEPT ![c].pending = @ \cup {t}, ![c].initialized = TRUE]
  /\ future' = [future EXCEPT ![t] = "awaited"] /\ uses' = [uses EXCEPT ![t] = c]

Go(t, place) == at' = [at EXCEPT ![t] = place]

-----------------------------------------------------------------------------
(* get_or_start_mcp_client.                                                *)
Ask(t) ==
  /\ at[t] = "idle" /\ Go(t, "lock") /\ wants' = [wants EXCEPT ![t] = installed]
  /\ UNCHANGED <<installed, permitted, holder, registered, clients, uses, future, cancels, agentStatus>>

Acquire(t) ==
  /\ at[t] = "lock" /\ holder = Nobody
  /\ IF Healthy(registered) /\ clients[registered].identity = wants[t]
     THEN Request(t, registered) /\ Go(t, "calling") /\ UNCHANGED holder
     ELSE IF wants[t] \notin permitted
     THEN Go(t, "ended") /\ UNCHANGED <<clients, future, uses, holder>>
     ELSE /\ holder' = t /\ UNCHANGED uses
          /\ IF registered # NoClient
             THEN BeginStop(registered) /\ Go(t, "replacing")
             ELSE Go(t, "spawning") /\ UNCHANGED <<clients, future>>
  /\ UNCHANGED <<installed, permitted, registered, wants, cancels, agentStatus>>

Replaced(t) ==
  /\ at[t] = "replacing" /\ Reaped(registered)
  /\ clients' = [clients EXCEPT ![registered].process = "none"]
  /\ registered' = NoClient /\ Go(t, "spawning")
  /\ UNCHANGED <<installed, permitted, holder, wants, uses, future, cancels, agentStatus>>

(* start(): the process and the initialize request.                        *)
Spawn(t) ==
  LET c == Cardinality(Made) + 1 IN
  /\ at[t] = "spawning" /\ c \in ClientIds
  /\ clients' = [clients EXCEPT ![c] =
       [Unmade EXCEPT !.identity = wants[t], !.process = "running", !.pending = {t}]]
  /\ uses' = [uses EXCEPT ![t] = c] /\ future' = [future EXCEPT ![t] = "awaited"]
  /\ Go(t, "initializing")
  /\ UNCHANGED <<installed, permitted, holder, registered, wants, cancels, agentStatus>>

SpawnFails(t) ==
  /\ at[t] = "spawning" /\ holder' = Nobody /\ Go(t, "ended")
  /\ UNCHANGED <<installed, permitted, registered, clients, wants, uses, future, cancels, agentStatus>>

(* The initialize request was answered: the notification is sent, the      *)
(* client is registered and the call is written without an await between.  *)
Initialized(t) ==
  LET c == uses[t] IN
  /\ at[t] = "initializing" /\ future[t] = "result"
  /\ ~clients[c].failed /\ clients[c].process = "running"
  /\ registered' = c /\ holder' = Nobody /\ Request(t, c) /\ Go(t, "calling")
  /\ UNCHANGED <<installed, permitted, wants, cancels, agentStatus>>

(* It was not, or not well, or too late.                                   *)
InitializeFails(t) ==
  /\ at[t] = "initializing" /\ BeginStop(uses[t]) /\ Go(t, "aborting")
  /\ UNCHANGED <<installed, permitted, holder, registered, wants, uses, cancels, agentStatus>>

Aborted(t) ==
  /\ at[t] = "aborting" /\ Reaped(uses[t])
  /\ clients' = [clients EXCEPT ![uses[t]].process = "none"]
  /\ holder' = Nobody /\ Go(t, "ended")
  /\ UNCHANGED <<installed, permitted, registered, wants, uses, future, cancels, agentStatus>>

(* The caller wakes with the answer or the error.                          *)
Return(t) ==
  /\ at[t] = "calling" /\ future[t] \in {"result", "error"} /\ Go(t, "ended")
  /\ UNCHANGED <<installed, permitted, holder, registered, clients, wants, uses, future, cancels, agentStatus>>

GiveUp(t) ==
  /\ clients' = [clients EXCEPT ![uses[t]].pending = @ \ {t}]
  /\ future' = [future EXCEPT ![t] = "none"]

TimeOut(t) ==
  /\ at[t] = "calling" /\ future[t] = "awaited" /\ GiveUp(t) /\ Go(t, "ended")
  /\ UNCHANGED <<installed, permitted, holder, registered, wants, uses, cancels, agentStatus>>

(* The Run is cancelled: CancelledError at the await of its task.  While   *)
(* the reader of a client is being cancelled, the error is swallowed.      *)
Cancel(t) ==
  /\ cancels[t] < MaxCancels /\ cancels' = [cancels EXCEPT ![t] = @ + 1]
  /\ \/ at[t] = "lock" /\ Go(t, "ended") /\ UNCHANGED <<holder, clients, future, agentStatus>>
     \/ at[t] \in {"replacing", "spawning", "aborting"} /\ Go(t, "ended")
        /\ holder' = Nobody /\ UNCHANGED <<clients, future, agentStatus>>
     \/ at[t] \in {"replacing", "aborting"} /\ UNCHANGED <<at, holder, clients, future, agentStatus>>
     \/ at[t] = "initializing" /\ Go(t, "aborting") /\ BeginStop(uses[t])
        /\ UNCHANGED <<holder, agentStatus>>
     \/ at[t] = "calling" /\ Go(t, "ended") /\ GiveUp(t) /\ UNCHANGED <<holder, agentStatus>>
     \/ at[t] = "streaming" /\ Go(t, "ended") /\ agentStatus' = "unknown"
        /\ UNCHANGED <<holder, clients, future>>
  /\ UNCHANGED <<installed, permitted, registered, wants, uses>>

-----------------------------------------------------------------------------
(* stop_runtime.                                                           *)
AskStop(s) ==
  /\ at[s] = "idle" /\ Go(s, "lock")
  /\ UNCHANGED <<installed, permitted, holder, registered, clients, wants, uses, future, cancels, agentStatus>>

AcquireStop(s) ==
  /\ at[s] = "lock" /\ holder = Nobody
  /\ IF registered = NoClient THEN Go(s, "ended") /\ UNCHANGED <<holder, clients, future>>
     ELSE holder' = s /\ BeginStop(registered) /\ Go(s, "stopping")
  /\ UNCHANGED <<installed, permitted, registered, wants, uses, cancels, agentStatus>>

Stopped(s) ==
  /\ at[s] = "stopping" /\ Reaped(registered)
  /\ clients' = [clients EXCEPT ![registered].process = "none"]
  /\ registered' = NoClient /\ holder' = Nobody /\ Go(s, "ended")
  /\ UNCHANGED <<installed, permitted, wants, uses, future, cancels, agentStatus>>

-----------------------------------------------------------------------------
(* The process answers a request; it is the reader that settles the future.*)
Answer(c, t) ==
  /\ clients[c].process \in {"running", "dead"} /\ ~clients[c].failed /\ t \in clients[c].pending
  /\ clients' = [clients EXCEPT ![c].pending = @ \ {t}]
  /\ future' = [future EXCEPT ![t] = "result"]
  /\ UNCHANGED <<installed, permitted, holder, registered, at, wants, uses, cancels, agentStatus>>

(* It ends by itself, or by the signal it was sent.                        *)
Exit(c) ==
  /\ clients[c].process \in {"running", "dying"} /\ clients' = [clients EXCEPT ![c].process = "dead"]
  /\ UNCHANGED <<installed, permitted, holder, registered, at, wants, uses, future, cancels, agentStatus>>

(* _read_loop ends: no more output, or output that is no answer.           *)
ReaderFails(c) ==
  /\ clients[c].process \in {"running", "dead"} /\ ~clients[c].failed /\ ~clients[c].stopping
  /\ clients' = [clients EXCEPT ![c] = Signalled(Failing(c))]
  /\ future' = Told(c)
  /\ UNCHANGED <<installed, permitted, holder, registered, at, wants, uses, cancels, agentStatus>>

(* approve_mcp_identity and a new revision of the App.                     *)
Permit(i) ==
  /\ i \notin permitted /\ permitted' = permitted \cup {i}
  /\ UNCHANGED <<installed, holder, registered, clients, at, wants, uses, future, cancels, agentStatus>>
Upgrade(i) ==
  /\ i # installed /\ installed' = i
  /\ UNCHANGED <<permitted, holder, registered, clients, at, wants, uses, future, cancels, agentStatus>>

-----------------------------------------------------------------------------
(* handle_agent_message: the runtime shows what the last call came to.     *)
AskAgent(t) ==
  /\ at[t] = "idle" /\ Go(t, "streaming") /\ agentStatus' = "connecting"
  /\ UNCHANGED <<installed, permitted, holder, registered, clients, wants, uses, future, cancels>>
AgentEnds(t, status) ==
  /\ at[t] = "streaming" /\ Go(t, "ended") /\ agentStatus' = status
  /\ UNCHANGED <<installed, permitted, holder, registered, clients, wants, uses, future, cancels>>

Next ==
  \/ \E t \in Tasks :
       \/ Ask(t) \/ Acquire(t) \/ Replaced(t) \/ Spawn(t) \/ SpawnFails(t) \/ Initialized(t)
       \/ InitializeFails(t) \/ Aborted(t) \/ Return(t) \/ TimeOut(t) \/ Cancel(t) \/ AskAgent(t)
       \/ \E status \in {"healthy", "unhealthy"} : AgentEnds(t, status)
  \/ \E s \in Stoppers : AskStop(s) \/ AcquireStop(s) \/ Stopped(s)
  \/ \E c \in Made : Exit(c) \/ ReaderFails(c) \/ \E t \in Tasks : Answer(c, t)
  \/ \E i \in Manifests : Permit(i) \/ Upgrade(i)

Spec == Init /\ [][Next]_vars

-----------------------------------------------------------------------------
TypeOK ==
  /\ installed \in Manifests /\ permitted \subseteq Manifests
  /\ holder \in Tasks \cup Stoppers \cup {Nobody} /\ registered \in ClientIds \cup {NoClient}
  /\ \A c \in ClientIds :
       /\ clients[c].process \in {"none", "running", "dying", "dead"}
       /\ {clients[c].initialized, clients[c].stopping, clients[c].failed} \subseteq BOOLEAN
       /\ clients[c].pending \subseteq Tasks
  /\ \A t \in Tasks :
       /\ wants[t] \in Manifests \cup {Nobody} /\ uses[t] \in ClientIds \cup {NoClient}
       /\ future[t] \in {"none", "awaited", "result", "error"} /\ cancels[t] \in 0 .. MaxCancels

(* Two processes of one App are never in service at once: not while one is *)
(* replaced by a new revision, and not when the start or the stop of one   *)
(* fails or is cancelled; what is left over then was told to end           *)
(* (_stop_unlocked, get_or_start_mcp_client).                              *)
OneServing == Cardinality({c \in ClientIds : clients[c].process = "running"}) <= 1

(* Nobody waits out the timeout of a call that can no longer be answered:  *)
(* whoever waits is known to a client whose reader is at work, however the *)
(* process is stopped, replaced or lost meanwhile (_fail_transport,        *)
(* _request).                                                              *)
WaiterIsKnown ==
  \A t \in Tasks : future[t] = "awaited" =>
    /\ t \in clients[uses[t]].pending
    /\ ~clients[uses[t]].failed /\ ~clients[uses[t]].stopping

(* One process serves an App and whoever waits for it will hear            *)
(* (app_manager.py, the backend manager).                                  *)
CallsAreServed == OneServing /\ WaiterIsKnown
=============================================================================
