------------------------- MODULE BackendApps_proofs -------------------------
(***************************************************************************)
(* One process serves an App, and whoever waits for it will hear           *)
(* (BackendApps): CallsAreServed, for any number of tasks, of requests     *)
(* that stop the runtime and of clients made.                              *)
(*                                                                         *)
(* The inductive invariant BInv says who has the spawn lock and what he    *)
(* has found out (Locked), that clients are numbered in the order they are *)
(* made (Numbered), and whose process may run (Accounted).  What a step    *)
(* does to a client is stated field by field first; then one lemma per     *)
(* action shows that it keeps BInv.                                        *)
(***************************************************************************)
EXTENDS BackendApps, FiniteSetTheorems, TLAPS

(* No task, request or identity is called "nobody", and no request that    *)
(* stops the runtime is a task.                                            *)
Named ==
  /\ Nobody \notin Tasks \cup Stoppers \cup Manifests /\ Tasks \cap Stoppers = {}
  /\ {MaxClients, MaxCancels} \subseteq Nat

Callers == Tasks \cup Stoppers
Spots == {"idle", "lock", "replacing", "spawning", "initializing", "aborting", "calling",
          "streaming", "stopping", "ended"}
Holding == {"replacing", "spawning", "initializing", "aborting", "stopping"}
Clients == [identity : Manifests \cup {Nobody}, process : {"none", "running", "dying", "dead"},
            initialized : BOOLEAN, stopping : BOOLEAN, failed : BOOLEAN, pending : SUBSET Tasks]

BTyped ==
  /\ installed \in Manifests /\ permitted \subseteq Manifests
  /\ holder \in Callers \cup {Nobody} /\ registered \in ClientIds \cup {NoClient}
  /\ clients \in [ClientIds -> Clients] /\ at \in [Callers -> Spots]
  /\ wants \in [Tasks -> Manifests \cup {Nobody}]
  /\ uses \in [Tasks -> ClientIds \cup {NoClient}]
  /\ future \in [Tasks -> {"none", "awaited", "result", "error"}]
  /\ cancels \in [Tasks -> 0 .. MaxCancels]

(* Whoever is at a step between taking the spawn lock and giving it back   *)
(* has it; and has found out first what it works on.                       *)
Locked ==
  /\ \A t \in Callers : at[t] \in Holding => holder = t
  /\ \A t \in Tasks :
       /\ at[t] \in Holding \cup {"lock"} => wants[t] # Nobody
       /\ at[t] = "replacing" => registered # NoClient
       /\ at[t] \in {"spawning", "initializing"} => registered = NoClient
       /\ at[t] \in {"initializing", "aborting"} => uses[t] # NoClient
       /\ at[t] = "calling" \/ future[t] = "awaited" => uses[t] # NoClient
  /\ \A s \in Stoppers : at[s] = "stopping" => registered # NoClient

(* Clients are numbered in the order they are made, and none serves before *)
(* it is made or after it was told to stop.                                *)
Numbered ==
  /\ \E n \in 0 .. MaxClients : Made = 1 .. n
  /\ \A c \in ClientIds : c \notin Made => clients[c].process = "none"
  /\ registered # NoClient => registered \in Made
  /\ \A t \in Tasks : uses[t] # NoClient => uses[t] \in Made
  /\ \A c \in ClientIds : clients[c].stopping => clients[c].failed

(* The process that runs is that of the registered client, or of the one   *)
(* that is being initialized.                                              *)
Runs == {c \in ClientIds : clients[c].process = "running"}
Accounted ==
  \A c \in Runs :
    \/ c = registered
    \/ \E t \in Tasks : at[t] = "initializing" /\ uses[t] = c

BInv == BTyped /\ Locked /\ Numbered /\ Accounted /\ WaiterIsKnown

-----------------------------------------------------------------------------
(* What a step may do to one client.                                       *)
OneClient(c) ==
  /\ clients' \in [ClientIds -> Clients]
  /\ \A d \in ClientIds : d # c => clients'[d] = clients[d]
  /\ clients'[c].identity = clients[c].identity
Futures == future' \in [Tasks -> {"none", "awaited", "result", "error"}]

Fails(c) ==
  /\ OneClient(c) /\ Futures
  /\ clients'[c].failed /\ clients'[c].pending = {} /\ clients'[c].process # "running"
  /\ clients[c].process = "none" => clients'[c].process = "none"
  /\ \A t \in Tasks : future'[t] = IF t \in clients[c].pending THEN "error" ELSE future[t]
Requests(t, c) ==
  /\ OneClient(c) /\ Futures /\ uses' = [uses EXCEPT ![t] = c]
  /\ clients'[c].process = clients[c].process /\ clients'[c].failed = clients[c].failed
  /\ clients'[c].stopping = clients[c].stopping
  /\ clients'[c].pending = clients[c].pending \cup {t}
  /\ future' = [future EXCEPT ![t] = "awaited"]
Ends(c) ==
  /\ OneClient(c) /\ UNCHANGED future
  /\ clients'[c].process # "running" /\ clients'[c].failed = clients[c].failed
  /\ clients'[c].stopping = clients[c].stopping /\ clients'[c].pending = clients[c].pending
Forgets(t, c) ==
  /\ OneClient(c) /\ Futures
  /\ clients'[c].process = clients[c].process /\ clients'[c].failed = clients[c].failed
  /\ clients'[c].stopping = clients[c].stopping /\ clients'[c].pending = clients[c].pending \ {t}
  /\ future'[t] # "awaited" /\ \A u \in Tasks : u # t => future'[u] = future[u]

LEMMA StopFails ==
  ASSUME BTyped, NEW c \in ClientIds, BeginStop(c)
  PROVE  Fails(c)
<1> DEFINE old == clients[c]
           fail == [old EXCEPT !.failed = TRUE, !.pending = {}]
           stop == [fail EXCEPT !.stopping = TRUE, !.initialized = FALSE]
           new == [stop EXCEPT !.process = IF @ = "running" THEN "dying" ELSE @]
<1>1. old \in Clients
  BY DEF BTyped
<1>2. /\ new \in Clients /\ new.identity = old.identity /\ new.failed = TRUE /\ new.pending = {}
      /\ new.process = IF old.process = "running" THEN "dying" ELSE old.process
  BY <1>1 DEF Clients
<1>3. clients' = [clients EXCEPT ![c] = new]
  BY DEF BeginStop, Failing, Signalled
<1> HIDE DEF new
<1>4. clients' \in [ClientIds -> Clients] /\ clients'[c] = new
      /\ \A d \in ClientIds : d # c => clients'[d] = clients[d]
  BY <1>2, <1>3 DEF BTyped
<1>5. Futures /\ \A t \in Tasks : future'[t] = IF t \in clients[c].pending THEN "error" ELSE future[t]
  BY DEF BeginStop, Told, BTyped, Futures
<1> QED
  BY <1>2, <1>4, <1>5 DEF Fails, OneClient

LEMMA ReaderStops ==
  ASSUME BTyped, NEW c \in ClientIds, ReaderFails(c)
  PROVE  Fails(c)
<1> DEFINE old == clients[c]
           fail == [old EXCEPT !.failed = TRUE, !.pending = {}]
           new == [fail EXCEPT !.process = IF @ = "running" THEN "dying" ELSE @]
<1>1. old \in Clients
  BY DEF BTyped
<1>2. /\ new \in Clients /\ new.identity = old.identity /\ new.failed = TRUE /\ new.pending = {}
      /\ new.process = IF old.process = "running" THEN "dying" ELSE old.process
  BY <1>1 DEF Clients
<1>3. clients' = [clients EXCEPT ![c] = new]
  BY DEF ReaderFails, Failing, Signalled
<1> HIDE DEF new
<1>4. clients' \in [ClientIds -> Clients] /\ clients'[c] = new
      /\ \A d \in ClientIds : d # c => clients'[d] = clients[d]
  BY <1>2, <1>3 DEF BTyped
<1>5. Futures /\ \A t \in Tasks : future'[t] = IF t \in clients[c].pending THEN "error" ELSE future[t]
  BY DEF ReaderFails, Told, BTyped, Futures
<1> QED
  BY <1>2, <1>4, <1>5 DEF Fails, OneClient

LEMMA RequestMade ==
  ASSUME BTyped, NEW c \in ClientIds, NEW t \in Tasks, Request(t, c)
  PROVE  Requests(t, c)
<1> DEFINE new == [clients[c] EXCEPT !.pending = @ \cup {t}, !.initialized = TRUE]
<1>1. clients[c] \in Clients
  BY DEF BTyped
<1>2. /\ new \in Clients /\ new.identity = clients[c].identity /\ new.failed = clients[c].failed
      /\ new.process = clients[c].process /\ new.stopping = clients[c].stopping
      /\ new.pending = clients[c].pending \cup {t}
  BY <1>1 DEF Clients
<1>3. clients' = [clients EXCEPT ![c] = new]
  BY DEF Request, BTyped
<1> HIDE DEF new
<1>4. clients' \in [ClientIds -> Clients] /\ clients'[c] = new
      /\ \A d \in ClientIds : d # c => clients'[d] = clients[d]
  BY <1>2, <1>3 DEF BTyped
<1> QED
  BY <1>2, <1>4 DEF Requests, OneClient, Futures, Request, BTyped

LEMMA ProcessEnds ==
  ASSUME BTyped, NEW c \in ClientIds, UNCHANGED future, NEW p \in {"none", "dead"},
         clients' = [clients EXCEPT ![c].process = p]
  PROVE  Ends(c)
<1> DEFINE new == [clients[c] EXCEPT !.process = p]
<1>1. clients[c] \in Clients
  BY DEF BTyped
<1>2. /\ new \in Clients /\ new.identity = clients[c].identity /\ new.failed = clients[c].failed
      /\ new.process = p /\ new.stopping = clients[c].stopping
      /\ new.pending = clients[c].pending
  BY <1>1 DEF Clients
<1>3. clients' = [clients EXCEPT ![c] = new]
  BY DEF BTyped
<1> HIDE DEF new
<1>4. clients' \in [ClientIds -> Clients] /\ clients'[c] = new
      /\ \A d \in ClientIds : d # c => clients'[d] = clients[d]
  BY <1>2, <1>3 DEF BTyped
<1> QED
  BY <1>2, <1>4 DEF Ends, OneClient

LEMMA WaiterForgotten ==
  ASSUME BTyped, NEW c \in ClientIds, NEW t \in Tasks, NEW f \in {"none", "result"},
         clients' = [clients EXCEPT ![c].pending = @ \ {t}], future' = [future EXCEPT ![t] = f]
  PROVE  Forgets(t, c)
<1> DEFINE new == [clients[c] EXCEPT !.pending = @ \ {t}]
<1>1. clients[c] \in Clients
  BY DEF BTyped
<1>2. /\ new \in Clients /\ new.identity = clients[c].identity /\ new.failed = clients[c].failed
      /\ new.process = clients[c].process /\ new.stopping = clients[c].stopping
      /\ new.pending = clients[c].pending \ {t}
  BY <1>1 DEF Clients
<1>3. clients' = [clients EXCEPT ![c] = new]
  BY DEF BTyped
<1> HIDE DEF new
<1>4. clients' \in [ClientIds -> Clients] /\ clients'[c] = new
      /\ \A d \in ClientIds : d # c => clients'[d] = clients[d]
  BY <1>2, <1>3 DEF BTyped
<1> QED
  BY <1>2, <1>4 DEF Forgets, OneClient, Futures, BTyped

LEMMA SameMade ==
  ASSUME BTyped, NEW c \in ClientIds, OneClient(c)
  PROVE  Made' = Made
<1>1. \A d \in ClientIds : clients'[d].identity = clients[d].identity
  BY DEF OneClient
<1> QED
  BY <1>1 DEF Made

(* Whoever waits stays known: when one client fails, when one gives up a   *)
(* waiter, and when one takes another request.                             *)
LEMMA FailsKnown ==
  ASSUME BTyped, Locked, WaiterIsKnown, NEW c \in ClientIds, Fails(c), UNCHANGED uses
  PROVE  WaiterIsKnown'
<1> SUFFICES ASSUME NEW u \in Tasks, future'[u] = "awaited"
             PROVE  /\ u \in clients'[uses[u]].pending
                    /\ ~clients'[uses[u]].failed /\ ~clients'[uses[u]].stopping
  BY DEF WaiterIsKnown
<1>1. future[u] = "awaited" /\ u \notin clients[c].pending
  BY DEF Fails
<1>2. uses[u] \in ClientIds
  BY <1>1 DEF Locked, BTyped
<1>3. u \in clients[uses[u]].pending /\ ~clients[uses[u]].failed /\ ~clients[uses[u]].stopping
  BY <1>1 DEF WaiterIsKnown
<1> QED
  BY <1>1, <1>2, <1>3 DEF Fails, OneClient

(* A client that fails takes no other out of service.                      *)
LEMMA FailsAccounted ==
  ASSUME BTyped, Accounted, NEW c \in ClientIds, Fails(c), UNCHANGED <<uses, registered>>,
         \A u \in Tasks : at[u] = "initializing" /\ uses[u] # c => at'[u] = "initializing"
  PROVE  Accounted'
<1> SUFFICES ASSUME NEW d \in ClientIds, clients'[d].process = "running"
             PROVE  d = registered' \/ \E u \in Tasks : at'[u] = "initializing" /\ uses'[u] = d
  BY DEF Accounted, Runs
<1>1. d # c /\ d \in Runs
  BY DEF Fails, OneClient, Runs
<1> QED
  BY <1>1 DEF Accounted

LEMMA ForgetsKnown ==
  ASSUME BTyped, Locked, WaiterIsKnown, NEW c \in ClientIds, NEW t \in Tasks, Forgets(t, c),
         UNCHANGED uses
  PROVE  WaiterIsKnown' /\ Runs' = Runs
<1>1. \A d \in ClientIds :
        /\ clients'[d].process = clients[d].process /\ clients'[d].failed = clients[d].failed
        /\ clients'[d].stopping = clients[d].stopping
        /\ \A u \in Tasks : u # t /\ u \in clients[d].pending => u \in clients'[d].pending
  BY DEF Forgets, OneClient
<1>2. ASSUME NEW u \in Tasks, future'[u] = "awaited"
      PROVE  u # t /\ future[u] = "awaited" /\ uses[u] \in ClientIds
  BY <1>2 DEF Forgets, Locked, BTyped
<1> QED
  BY <1>1, <1>2 DEF WaiterIsKnown, Runs

LEMMA RequestsKnown ==
  ASSUME BTyped, Locked, WaiterIsKnown, NEW c \in ClientIds, NEW t \in Tasks, Requests(t, c),
         ~clients[c].failed, ~clients[c].stopping
  PROVE  WaiterIsKnown'
<1> SUFFICES ASSUME NEW u \in Tasks, future'[u] = "awaited"
             PROVE  /\ u \in clients'[uses'[u]].pending
                    /\ ~clients'[uses'[u]].failed /\ ~clients'[uses'[u]].stopping
  BY DEF WaiterIsKnown
<1>1. CASE u = t
  BY <1>1 DEF Requests, BTyped
<1>2. CASE u # t
  <2>1. future[u] = "awaited" /\ uses'[u] = uses[u] /\ uses[u] \in ClientIds
    BY <1>2 DEF Requests, Locked, BTyped
  <2>2. u \in clients[uses[u]].pending /\ ~clients[uses[u]].failed /\ ~clients[uses[u]].stopping
    BY <2>1 DEF WaiterIsKnown
  <2> QED
    BY <2>1, <2>2 DEF Requests, OneClient
<1> QED
  BY <1>1, <1>2

-----------------------------------------------------------------------------
LEMMA AskKeeps ==
  ASSUME Named, BInv, NEW t \in Tasks, Ask(t)
  PROVE  BInv'
<1> USE DEF BInv
<1>1. BTyped'
  BY DEF Ask, Go, Locked, Holding, OneClient, Futures, BTyped, Callers, Spots, ClientIds,
     NoClient, Nobody, Named
<1>2. Locked'
  BY DEF Ask, Go, Locked, Holding, OneClient, BTyped, Callers, Spots, ClientIds, NoClient,
     Nobody, Named
<1>3. Numbered'
  BY DEF Ask, Go, Numbered, Locked, Holding, OneClient, BTyped, Callers, Spots, ClientIds,
     NoClient, Nobody, Named, Made
<1>4. Accounted'
  BY DEF Ask, Go, Accounted, Runs, Locked, Holding, Numbered, OneClient, BTyped, Callers,
     Spots, ClientIds, NoClient, Nobody, Named
<1>5. WaiterIsKnown'
  BY DEF Ask, Go, WaiterIsKnown, Locked, Holding, Numbered, OneClient, BTyped, Callers, Spots,
     ClientIds, NoClient, Nobody, Named
<1> QED
  BY <1>1, <1>2, <1>3, <1>4, <1>5

LEMMA ReturnKeeps ==
  ASSUME Named, BInv, NEW t \in Tasks, Return(t)
  PROVE  BInv'
<1> USE DEF BInv
<1>1. BTyped'
  BY DEF Return, Go, Locked, Holding, OneClient, Futures, BTyped, Callers, Spots, ClientIds,
     NoClient, Nobody, Named
<1>2. Locked'
  BY DEF Return, Go, Locked, Holding, OneClient, BTyped, Callers, Spots, ClientIds, NoClient,
     Nobody, Named
<1>3. Numbered'
  BY DEF Return, Go, Numbered, Locked, Holding, OneClient, BTyped, Callers, Spots, ClientIds,
     NoClient, Nobody, Named, Made
<1>4. Accounted'
  BY DEF Return, Go, Accounted, Runs, Locked, Holding, Numbered, OneClient, BTyped, Callers,
     Spots, ClientIds, NoClient, Nobody, Named
<1>5. WaiterIsKnown'
  BY DEF Return, Go, WaiterIsKnown, Locked, Holding, Numbered, OneClient, BTyped, Callers,
     Spots, ClientIds, NoClient, Nobody, Named
<1> QED
  BY <1>1, <1>2, <1>3, <1>4, <1>5

LEMMA SpawnFailsKeeps ==
  ASSUME Named, BInv, NEW t \in Tasks, SpawnFails(t)
  PROVE  BInv'
<1> USE DEF BInv
<1>1. BTyped'
  BY DEF SpawnFails, Go, Locked, Holding, OneClient, Futures, BTyped, Callers, Spots,
     ClientIds, NoClient, Nobody, Named
<1>2. Locked'
  BY DEF SpawnFails, Go, Locked, Holding, OneClient, BTyped, Callers, Spots, ClientIds,
     NoClient, Nobody, Named
<1>3. Numbered'
  BY DEF SpawnFails, Go, Numbered, Locked, Holding, OneClient, BTyped, Callers, Spots,
     ClientIds, NoClient, Nobody, Named, Made
<1>4. Accounted'
  BY DEF SpawnFails, Go, Accounted, Runs, Locked, Holding, Numbered, OneClient, BTyped,
     Callers, Spots, ClientIds, NoClient, Nobody, Named
<1>5. WaiterIsKnown'
  BY DEF SpawnFails, Go, WaiterIsKnown, Locked, Holding, Numbered, OneClient, BTyped, Callers,
     Spots, ClientIds, NoClient, Nobody, Named
<1> QED
  BY <1>1, <1>2, <1>3, <1>4, <1>5

LEMMA AskAgentKeeps ==
  ASSUME Named, BInv, NEW t \in Tasks, AskAgent(t)
  PROVE  BInv'
<1> USE DEF BInv
<1>1. BTyped'
  BY DEF AskAgent, Go, Locked, Holding, OneClient, Futures, BTyped, Callers, Spots, ClientIds,
     NoClient, Nobody, Named
<1>2. Locked'
  BY DEF AskAgent, Go, Locked, Holding, OneClient, BTyped, Callers, Spots, ClientIds,
     NoClient, Nobody, Named
<1>3. Numbered'
  BY DEF AskAgent, Go, Numbered, Locked, Holding, OneClient, BTyped, Callers, Spots,
     ClientIds, NoClient, Nobody, Named, Made
<1>4. Accounted'
  BY DEF AskAgent, Go, Accounted, Runs, Locked, Holding, Numbered, OneClient, BTyped, Callers,
     Spots, ClientIds, NoClient, Nobody, Named
<1>5. WaiterIsKnown'
  BY DEF AskAgent, Go, WaiterIsKnown, Locked, Holding, Numbered, OneClient, BTyped, Callers,
     Spots, ClientIds, NoClient, Nobody, Named
<1> QED
  BY <1>1, <1>2, <1>3, <1>4, <1>5

LEMMA AgentEndsKeeps ==
  ASSUME Named, BInv, NEW t \in Tasks, NEW status, AgentEnds(t, status)
  PROVE  BInv'
<1> USE DEF BInv
<1>1. BTyped'
  BY DEF AgentEnds, Go, Locked, Holding, OneClient, Futures, BTyped, Callers, Spots,
     ClientIds, NoClient, Nobody, Named
<1>2. Locked'
  BY DEF AgentEnds, Go, Locked, Holding, OneClient, BTyped, Callers, Spots, ClientIds,
     NoClient, Nobody, Named
<1>3. Numbered'
  BY DEF AgentEnds, Go, Numbered, Locked, Holding, OneClient, BTyped, Callers, Spots,
     ClientIds, NoClient, Nobody, Named, Made
<1>4. Accounted'
  BY DEF AgentEnds, Go, Accounted, Runs, Locked, Holding, Numbered, OneClient, BTyped,
     Callers, Spots, ClientIds, NoClient, Nobody, Named
<1>5. WaiterIsKnown'
  BY DEF AgentEnds, Go, WaiterIsKnown, Locked, Holding, Numbered, OneClient, BTyped, Callers,
     Spots, ClientIds, NoClient, Nobody, Named
<1> QED
  BY <1>1, <1>2, <1>3, <1>4, <1>5

LEMMA AskStopKeeps ==
  ASSUME Named, BInv, NEW s \in Stoppers, AskStop(s)
  PROVE  BInv'
<1> USE DEF BInv
<1>1. BTyped'
  BY DEF AskStop, Go, Locked, Holding, OneClient, Futures, BTyped, Callers, Spots, ClientIds,
     NoClient, Nobody, Named
<1>2. Locked'
  BY DEF AskStop, Go, Locked, Holding, OneClient, BTyped, Callers, Spots, ClientIds, NoClient,
     Nobody, Named
<1>3. Numbered'
  BY DEF AskStop, Go, Numbered, Locked, Holding, OneClient, BTyped, Callers, Spots, ClientIds,
     NoClient, Nobody, Named, Made
<1>4. Accounted'
  BY DEF AskStop, Go, Accounted, Runs, Locked, Holding, Numbered, OneClient, BTyped, Callers,
     Spots, ClientIds, NoClient, Nobody, Named
<1>5. WaiterIsKnown'
  BY DEF AskStop, Go, WaiterIsKnown, Locked, Holding, Numbered, OneClient, BTyped, Callers,
     Spots, ClientIds, NoClient, Nobody, Named
<1> QED
  BY <1>1, <1>2, <1>3, <1>4, <1>5

LEMMA ReviseKeeps ==
  ASSUME Named, BInv, NEW i \in Manifests, Permit(i) \/ Upgrade(i)
  PROVE  BInv'
<1> USE DEF BInv
<1>1. BTyped'
  BY DEF Permit, Upgrade, Locked, Holding, OneClient, Futures, BTyped, Callers, Spots,
     ClientIds, NoClient, Nobody, Named
<1>2. Locked'
  BY DEF Permit, Upgrade, Locked, Holding, OneClient, BTyped, Callers, Spots, ClientIds,
     NoClient, Nobody, Named
<1>3. Numbered'
  BY DEF Permit, Upgrade, Numbered, Made
<1>4. Accounted'
  BY DEF Permit, Upgrade, Accounted, Runs, Locked, Holding, Numbered, OneClient, BTyped,
     Callers, Spots, ClientIds, NoClient, Nobody, Named
<1>5. WaiterIsKnown'
  BY DEF Permit, Upgrade, WaiterIsKnown, Locked, Holding, Numbered, OneClient, BTyped,
     Callers, Spots, ClientIds, NoClient, Nobody, Named
<1> QED
  BY <1>1, <1>2, <1>3, <1>4, <1>5

LEMMA StutterKeeps ==
  ASSUME Named, BInv, UNCHANGED vars
  PROVE  BInv'
<1> USE DEF BInv
<1>1. BTyped'
  BY DEF vars, Locked, Holding, OneClient, Futures, BTyped, Callers, Spots, ClientIds,
     NoClient, Nobody, Named
<1>2. Locked'
  BY DEF vars, Locked, Holding, OneClient, BTyped, Callers, Spots, ClientIds, NoClient,
     Nobody, Named
<1>3. Numbered'
  BY DEF vars, Numbered, Locked, Holding, OneClient, BTyped, Callers, Spots, ClientIds,
     NoClient, Nobody, Named, Made
<1>4. Accounted'
  BY DEF vars, Accounted, Runs, Locked, Holding, Numbered, OneClient, BTyped, Callers, Spots,
     ClientIds, NoClient, Nobody, Named
<1>5. WaiterIsKnown'
  BY DEF vars, WaiterIsKnown, Locked, Holding, Numbered, OneClient, BTyped, Callers, Spots,
     ClientIds, NoClient, Nobody, Named
<1> QED
  BY <1>1, <1>2, <1>3, <1>4, <1>5

LEMMA ReplacedKeeps ==
  ASSUME Named, BInv, NEW t \in Tasks, Replaced(t)
  PROVE  BInv'
<1> USE DEF BInv
<1>1. Ends(registered)
  BY ProcessEnds DEF Replaced, Go, Locked, Holding, BTyped, NoClient
<1>2. registered \in ClientIds /\ Made' = Made
  BY <1>1, SameMade DEF Replaced, Go, Ends, Locked, Holding, BTyped, Callers, Spots,
     ClientIds, NoClient, Nobody, Named
<1>3. BTyped'
  BY <1>1, <1>2 DEF Replaced, Go, Ends, Locked, Holding, OneClient, Futures, BTyped, Callers,
     Spots, ClientIds, NoClient, Nobody, Named
<1>4. Locked'
  BY <1>1, <1>2 DEF Replaced, Go, Ends, Locked, Holding, OneClient, BTyped, Callers, Spots,
     ClientIds, NoClient, Nobody, Named
<1>5. Numbered'
  BY <1>1, <1>2 DEF Replaced, Go, Ends, Numbered, Locked, Holding, OneClient, BTyped, Callers,
     Spots, ClientIds, NoClient, Nobody, Named
<1>6. Accounted'
  BY <1>1, <1>2 DEF Replaced, Go, Ends, Accounted, Runs, Locked, Holding, Numbered, OneClient,
     BTyped, Callers, Spots, ClientIds, NoClient, Nobody, Named
<1>7. WaiterIsKnown'
  BY <1>1, <1>2 DEF Replaced, Go, Ends, WaiterIsKnown, Locked, Holding, Numbered, OneClient,
     BTyped, Callers, Spots, ClientIds, NoClient, Nobody, Named
<1> QED
  BY <1>3, <1>4, <1>5, <1>6, <1>7

LEMMA StoppedKeeps ==
  ASSUME Named, BInv, NEW s \in Stoppers, Stopped(s)
  PROVE  BInv'
<1> USE DEF BInv
<1>1. Ends(registered)
  BY ProcessEnds DEF Stopped, Go, Locked, Holding, BTyped, NoClient
<1>2. registered \in ClientIds /\ Made' = Made
  BY <1>1, SameMade DEF Stopped, Go, Ends, Locked, Holding, BTyped, Callers, Spots, ClientIds,
     NoClient, Nobody, Named
<1>3. BTyped'
  BY <1>1, <1>2 DEF Stopped, Go, Ends, Locked, Holding, OneClient, Futures, BTyped, Callers,
     Spots, ClientIds, NoClient, Nobody, Named
<1>4. Locked'
  BY <1>1, <1>2 DEF Stopped, Go, Ends, Locked, Holding, OneClient, BTyped, Callers, Spots,
     ClientIds, NoClient, Nobody, Named
<1>5. Numbered'
  BY <1>1, <1>2 DEF Stopped, Go, Ends, Numbered, Locked, Holding, OneClient, BTyped, Callers,
     Spots, ClientIds, NoClient, Nobody, Named
<1>6. Accounted'
  BY <1>1, <1>2 DEF Stopped, Go, Ends, Accounted, Runs, Locked, Holding, Numbered, OneClient,
     BTyped, Callers, Spots, ClientIds, NoClient, Nobody, Named
<1>7. WaiterIsKnown'
  BY <1>1, <1>2 DEF Stopped, Go, Ends, WaiterIsKnown, Locked, Holding, Numbered, OneClient,
     BTyped, Callers, Spots, ClientIds, NoClient, Nobody, Named
<1> QED
  BY <1>3, <1>4, <1>5, <1>6, <1>7

LEMMA AbortedKeeps ==
  ASSUME Named, BInv, NEW t \in Tasks, Aborted(t)
  PROVE  BInv'
<1> USE DEF BInv
<1>1. Ends(uses[t])
  BY ProcessEnds DEF Aborted, Go, Locked, Holding, BTyped, NoClient
<1>2. uses[t] \in ClientIds /\ Made' = Made
  BY <1>1, SameMade DEF Aborted, Go, Ends, Locked, Holding, BTyped, Callers, Spots, ClientIds,
     NoClient, Nobody, Named
<1>3. BTyped'
  BY <1>1, <1>2 DEF Aborted, Go, Ends, Locked, Holding, OneClient, Futures, BTyped, Callers,
     Spots, ClientIds, NoClient, Nobody, Named
<1>4. Locked'
  BY <1>1, <1>2 DEF Aborted, Go, Ends, Locked, Holding, OneClient, BTyped, Callers, Spots,
     ClientIds, NoClient, Nobody, Named
<1>5. Numbered'
  BY <1>1, <1>2 DEF Aborted, Go, Ends, Numbered, Locked, Holding, OneClient, BTyped, Callers,
     Spots, ClientIds, NoClient, Nobody, Named
<1>6. Accounted'
  BY <1>1, <1>2 DEF Aborted, Go, Ends, Accounted, Runs, Locked, Holding, Numbered, OneClient,
     BTyped, Callers, Spots, ClientIds, NoClient, Nobody, Named
<1>7. WaiterIsKnown'
  BY <1>1, <1>2 DEF Aborted, Go, Ends, WaiterIsKnown, Locked, Holding, Numbered, OneClient,
     BTyped, Callers, Spots, ClientIds, NoClient, Nobody, Named
<1> QED
  BY <1>3, <1>4, <1>5, <1>6, <1>7

LEMMA ExitKeeps ==
  ASSUME Named, BInv, NEW c \in Made, Exit(c)
  PROVE  BInv'
<1> USE DEF BInv
<1>1. Ends(c)
  BY ProcessEnds DEF Exit, Made, Locked, Holding, BTyped, NoClient
<1>2. c \in ClientIds /\ Made' = Made
  BY <1>1, SameMade DEF Exit, Made, Ends, Locked, Holding, BTyped, Callers, Spots, ClientIds,
     NoClient, Nobody, Named
<1>3. BTyped'
  BY <1>1, <1>2 DEF Exit, Ends, Locked, Holding, OneClient, Futures, BTyped, Callers, Spots,
     ClientIds, NoClient, Nobody, Named
<1>4. Locked'
  BY <1>1, <1>2 DEF Exit, Ends, Locked, Holding, OneClient, BTyped, Callers, Spots, ClientIds,
     NoClient, Nobody, Named
<1>5. Numbered'
  BY <1>1, <1>2 DEF Exit, Ends, Numbered, Locked, Holding, OneClient, BTyped, Callers, Spots,
     ClientIds, NoClient, Nobody, Named
<1>6. Accounted'
  BY <1>1, <1>2 DEF Exit, Ends, Accounted, Runs, Locked, Holding, Numbered, OneClient, BTyped,
     Callers, Spots, ClientIds, NoClient, Nobody, Named
<1>7. WaiterIsKnown'
  BY <1>1, <1>2 DEF Exit, Ends, WaiterIsKnown, Locked, Holding, Numbered, OneClient, BTyped,
     Callers, Spots, ClientIds, NoClient, Nobody, Named
<1> QED
  BY <1>3, <1>4, <1>5, <1>6, <1>7

LEMMA ReaderFailsKeeps ==
  ASSUME Named, BInv, NEW c \in Made, ReaderFails(c)
  PROVE  BInv'
<1> USE DEF BInv
<1>1. Fails(c)
  BY ReaderStops DEF ReaderFails, Made, Locked, Holding, BTyped, NoClient
<1>2. c \in ClientIds /\ Made' = Made
  BY <1>1, SameMade DEF ReaderFails, Made, Fails, Locked, Holding, BTyped, Callers, Spots,
     ClientIds, NoClient, Nobody, Named
<1>3. BTyped'
  BY <1>1, <1>2 DEF ReaderFails, Fails, Locked, Holding, OneClient, Futures, BTyped, Callers,
     Spots, ClientIds, NoClient, Nobody, Named
<1>4. Locked'
  BY <1>1, <1>2 DEF ReaderFails, Fails, Locked, Holding, OneClient, BTyped, Callers, Spots,
     ClientIds, NoClient, Nobody, Named
<1>5. Numbered'
  BY <1>1, <1>2 DEF ReaderFails, Fails, Numbered, Locked, Holding, OneClient, BTyped, Callers,
     Spots, ClientIds, NoClient, Nobody, Named
<1>6. Accounted'
  BY <1>1, <1>2 DEF ReaderFails, Fails, Accounted, Runs, Locked, Holding, Numbered, OneClient,
     BTyped, Callers, Spots, ClientIds, NoClient, Nobody, Named
<1>7. WaiterIsKnown'
  BY <1>1, <1>2, FailsKnown DEF ReaderFails
<1> QED
  BY <1>3, <1>4, <1>5, <1>6, <1>7

LEMMA InitializeFailsKeeps ==
  ASSUME Named, BInv, NEW t \in Tasks, InitializeFails(t)
  PROVE  BInv'
<1> USE DEF BInv
<1>1. Fails(uses[t])
  BY StopFails DEF InitializeFails, Go, Locked, Holding, BTyped, NoClient
<1>2. uses[t] \in ClientIds /\ Made' = Made
  BY <1>1, SameMade DEF InitializeFails, Go, Fails, Locked, Holding, BTyped, Callers, Spots,
     ClientIds, NoClient, Nobody, Named
<1>3. BTyped'
  BY <1>1, <1>2 DEF InitializeFails, Go, Fails, Locked, Holding, OneClient, Futures, BTyped,
     Callers, Spots, ClientIds, NoClient, Nobody, Named
<1>4. Locked'
  BY <1>1, <1>2 DEF InitializeFails, Go, Fails, Locked, Holding, OneClient, BTyped, Callers,
     Spots, ClientIds, NoClient, Nobody, Named
<1>5. Numbered'
  BY <1>1, <1>2 DEF InitializeFails, Go, Fails, Numbered, Locked, Holding, OneClient, BTyped,
     Callers, Spots, ClientIds, NoClient, Nobody, Named
<1>6. Accounted'
  <2>1. \A u \in Tasks : at[u] = "initializing" /\ uses[u] # uses[t] => at'[u] = "initializing"
    BY DEF InitializeFails, Go, BTyped, Callers
  <2> QED
    BY <1>1, <1>2, <2>1, FailsAccounted DEF InitializeFails
<1>7. WaiterIsKnown'
  BY <1>1, <1>2, FailsKnown DEF InitializeFails
<1> QED
  BY <1>3, <1>4, <1>5, <1>6, <1>7

LEMMA InitializedKeeps ==
  ASSUME Named, BInv, NEW t \in Tasks, Initialized(t)
  PROVE  BInv'
<1> USE DEF BInv
<1>1. Requests(t, uses[t])
  BY RequestMade DEF Initialized, Go, Locked, Holding, BTyped, NoClient
<1>2. uses[t] \in ClientIds /\ Made' = Made
  BY <1>1, SameMade DEF Initialized, Go, Requests, Locked, Holding, BTyped, Callers, Spots,
     ClientIds, NoClient, Nobody, Named
<1>3. BTyped'
  BY <1>1, <1>2 DEF Initialized, Go, Requests, Locked, Holding, OneClient, Futures, BTyped,
     Callers, Spots, ClientIds, NoClient, Nobody, Named
<1>4. Locked'
  BY <1>1, <1>2 DEF Initialized, Go, Requests, Locked, Holding, OneClient, BTyped, Callers,
     Spots, ClientIds, NoClient, Nobody, Named
<1>5. Numbered'
  <2>1. uses' = uses /\ registered' = uses[t] /\ uses[t] # NoClient
    BY <1>1, <1>2 DEF Initialized, Requests, BTyped, ClientIds, NoClient
  <2>2. /\ \A c \in ClientIds : clients'[c].process = clients[c].process
        /\ \A c \in ClientIds : clients'[c].stopping => clients'[c].failed
    BY <1>1 DEF Requests, OneClient, Numbered
  <2> QED
    BY <1>2, <2>1, <2>2 DEF Numbered
<1>6. Accounted'
  BY <1>1, <1>2 DEF Initialized, Go, Requests, Accounted, Runs, Locked, Holding, Numbered,
     OneClient, BTyped, Callers, Spots, ClientIds, NoClient, Nobody, Named
<1>7. WaiterIsKnown'
  BY <1>1, <1>2, RequestsKnown DEF Initialized, Numbered
<1> QED
  BY <1>3, <1>4, <1>5, <1>6, <1>7

LEMMA TimeOutKeeps ==
  ASSUME Named, BInv, NEW t \in Tasks, TimeOut(t)
  PROVE  BInv'
<1> USE DEF BInv
<1>1. Forgets(t, uses[t])
  BY WaiterForgotten DEF TimeOut, Go, GiveUp, Locked, Holding, BTyped, NoClient
<1>2. uses[t] \in ClientIds /\ Made' = Made
  BY <1>1, SameMade DEF TimeOut, Go, Forgets, Locked, Holding, BTyped, Callers, Spots,
     ClientIds, NoClient, Nobody, Named
<1>3. BTyped'
  BY <1>1, <1>2 DEF TimeOut, Go, Forgets, Locked, Holding, OneClient, Futures, BTyped,
     Callers, Spots, ClientIds, NoClient, Nobody, Named
<1>4. Locked'
  BY <1>1, <1>2 DEF TimeOut, Go, Forgets, Locked, Holding, OneClient, BTyped, Callers, Spots,
     ClientIds, NoClient, Nobody, Named
<1>5. Numbered'
  <2>1. /\ \A c \in ClientIds : clients'[c].process = clients[c].process
        /\ \A c \in ClientIds : clients'[c].stopping = clients[c].stopping
        /\ \A c \in ClientIds : clients'[c].failed = clients[c].failed
    BY <1>1 DEF Forgets, OneClient
  <2> QED
    BY <1>2, <2>1 DEF Numbered, TimeOut
<1>6. Accounted'
  BY <1>1, <1>2, ForgetsKnown DEF TimeOut, Go, Forgets, Accounted, Runs, Locked, Holding,
     Numbered, OneClient, BTyped, Callers, Spots, ClientIds, NoClient, Nobody, Named
<1>7. WaiterIsKnown'
  BY <1>1, <1>2, ForgetsKnown DEF TimeOut
<1> QED
  BY <1>3, <1>4, <1>5, <1>6, <1>7

LEMMA AnswerKeeps ==
  ASSUME Named, BInv, NEW c \in Made, NEW t \in Tasks, Answer(c, t)
  PROVE  BInv'
<1> USE DEF BInv
<1>1. Forgets(t, c)
  BY WaiterForgotten DEF Answer, Made, Locked, Holding, BTyped, NoClient
<1>2. c \in ClientIds /\ Made' = Made
  BY <1>1, SameMade DEF Answer, Made, Forgets, Locked, Holding, BTyped, Callers, Spots,
     ClientIds, NoClient, Nobody, Named
<1>3. BTyped'
  BY <1>1, <1>2 DEF Answer, Forgets, Locked, Holding, OneClient, Futures, BTyped, Callers,
     Spots, ClientIds, NoClient, Nobody, Named
<1>4. Locked'
  BY <1>1, <1>2 DEF Answer, Forgets, Locked, Holding, OneClient, BTyped, Callers, Spots,
     ClientIds, NoClient, Nobody, Named
<1>5. Numbered'
  BY <1>1, <1>2 DEF Answer, Forgets, Numbered, Locked, Holding, OneClient, BTyped, Callers,
     Spots, ClientIds, NoClient, Nobody, Named
<1>6. Accounted'
  BY <1>1, <1>2, ForgetsKnown DEF Answer, Forgets, Accounted, Runs, Locked, Holding, Numbered,
     OneClient, BTyped, Callers, Spots, ClientIds, NoClient, Nobody, Named
<1>7. WaiterIsKnown'
  BY <1>1, <1>2, ForgetsKnown DEF Answer
<1> QED
  BY <1>3, <1>4, <1>5, <1>6, <1>7

LEMMA AcquireKeeps ==
  ASSUME Named, BInv, NEW t \in Tasks, Acquire(t)
  PROVE  BInv'
<1> USE DEF BInv
<1>0. /\ at[t] = "lock" /\ holder = Nobody
      /\ UNCHANGED <<installed, permitted, registered, wants, cancels>>
  BY DEF Acquire
<1>1. CASE Healthy(registered) /\ clients[registered].identity = wants[t]
  <2>1. registered \in ClientIds /\ ~clients[registered].failed
    BY <1>1 DEF Healthy, BTyped
  <2>2. Requests(t, registered) /\ UNCHANGED holder /\ at' = [at EXCEPT ![t] = "calling"]
    BY <1>1, <2>1, RequestMade DEF Acquire, Go
  <2>3. Made' = Made
    BY <2>1, <2>2, SameMade DEF Requests
  <2>5. BTyped'
    BY <1>0, <2>1, <2>2, <2>3 DEF Requests, Locked, Holding, OneClient, Futures, BTyped,
       Callers, Spots, ClientIds, NoClient, Nobody, Named
  <2>6. Locked'
    BY <1>0, <2>1, <2>2, <2>3 DEF Requests, Locked, Holding, OneClient, BTyped, Callers,
       Spots, ClientIds, NoClient, Nobody, Named
  <2>7. Numbered'
    BY <1>0, <2>1, <2>2, <2>3 DEF Requests, Numbered, Locked, Holding, OneClient, BTyped,
       Callers, Spots, ClientIds, NoClient, Nobody, Named
  <2>8. Accounted'
    BY <1>0, <2>1, <2>2, <2>3 DEF Requests, Accounted, Runs, Locked, Holding, Numbered,
       OneClient, BTyped, Callers, Spots, ClientIds, NoClient, Nobody, Named
  <2>9. WaiterIsKnown'
    BY <1>0, <2>1, <2>2, <2>3 DEF Requests, WaiterIsKnown, Locked, Holding, Numbered,
       OneClient, BTyped, Callers, Spots, ClientIds, NoClient, Nobody, Named
  <2> QED
    BY <2>5, <2>6, <2>7, <2>8, <2>9
<1>2. CASE ~(Healthy(registered) /\ clients[registered].identity = wants[t]) /\ wants[t] \notin permitted
  <2>1. at' = [at EXCEPT ![t] = "ended"] /\ UNCHANGED <<clients, future, uses, holder>>
    BY <1>2 DEF Acquire, Go
  <2>5. BTyped'
    BY <1>0, <2>1 DEF Locked, Holding, OneClient, Futures, BTyped, Callers, Spots, ClientIds,
       NoClient, Nobody, Named
  <2>6. Locked'
    BY <1>0, <2>1 DEF Locked, Holding, OneClient, BTyped, Callers, Spots, ClientIds, NoClient,
       Nobody, Named
  <2>7. Numbered'
    BY <1>0, <2>1 DEF Numbered, Locked, Holding, OneClient, BTyped, Callers, Spots, ClientIds,
       NoClient, Nobody, Named, Made
  <2>8. Accounted'
    BY <1>0, <2>1 DEF Accounted, Runs, Locked, Holding, Numbered, OneClient, BTyped, Callers,
       Spots, ClientIds, NoClient, Nobody, Named
  <2>9. WaiterIsKnown'
    BY <1>0, <2>1 DEF WaiterIsKnown, Locked, Holding, Numbered, OneClient, BTyped, Callers,
       Spots, ClientIds, NoClient, Nobody, Named
  <2> QED
    BY <2>5, <2>6, <2>7, <2>8, <2>9
<1>3. CASE /\ ~(Healthy(registered) /\ clients[registered].identity = wants[t])
           /\ wants[t] \in permitted /\ registered # NoClient
  <2>1. registered \in ClientIds
    BY <1>3 DEF BTyped
  <2>2. /\ Fails(registered) /\ holder' = t /\ UNCHANGED uses
        /\ at' = [at EXCEPT ![t] = "replacing"]
    BY <1>3, <2>1, StopFails DEF Acquire, Go
  <2>3. Made' = Made
    BY <2>1, <2>2, SameMade DEF Fails
  <2>5. BTyped'
    BY <1>0, <1>3, <2>1, <2>2, <2>3 DEF Fails, Locked, Holding, OneClient, Futures, BTyped,
       Callers, Spots, ClientIds, NoClient, Nobody, Named
  <2>6. Locked'
    BY <1>0, <1>3, <2>1, <2>2, <2>3 DEF Fails, Locked, Holding, OneClient, BTyped, Callers,
       Spots, ClientIds, NoClient, Nobody, Named
  <2>7. Numbered'
    BY <1>0, <1>3, <2>1, <2>2, <2>3 DEF Fails, Numbered, Locked, Holding, OneClient, BTyped,
       Callers, Spots, ClientIds, NoClient, Nobody, Named
  <2>8. Accounted'
    BY <1>0, <1>3, <2>1, <2>2, <2>3 DEF Fails, Accounted, Runs, Locked, Holding, Numbered,
       OneClient, BTyped, Callers, Spots, ClientIds, NoClient, Nobody, Named
  <2>9. WaiterIsKnown'
    BY <1>0, <1>3, <2>1, <2>2, <2>3, FailsKnown
  <2> QED
    BY <2>5, <2>6, <2>7, <2>8, <2>9
<1>4. CASE /\ ~(Healthy(registered) /\ clients[registered].identity = wants[t])
           /\ wants[t] \in permitted /\ registered = NoClient
  <2>1. holder' = t /\ at' = [at EXCEPT ![t] = "spawning"] /\ UNCHANGED <<clients, future, uses>>
    BY <1>4 DEF Acquire, Go
  <2>5. BTyped'
    BY <1>0, <1>4, <2>1 DEF Locked, Holding, OneClient, Futures, BTyped, Callers, Spots,
       ClientIds, NoClient, Nobody, Named
  <2>6. Locked'
    BY <1>0, <1>4, <2>1 DEF Locked, Holding, OneClient, BTyped, Callers, Spots, ClientIds,
       NoClient, Nobody, Named
  <2>7. Numbered'
    BY <1>0, <1>4, <2>1 DEF Numbered, Locked, Holding, OneClient, BTyped, Callers, Spots,
       ClientIds, NoClient, Nobody, Named, Made
  <2>8. Accounted'
    BY <1>0, <1>4, <2>1 DEF Accounted, Runs, Locked, Holding, Numbered, OneClient, BTyped,
       Callers, Spots, ClientIds, NoClient, Nobody, Named
  <2>9. WaiterIsKnown'
    BY <1>0, <1>4, <2>1 DEF WaiterIsKnown, Locked, Holding, Numbered, OneClient, BTyped,
       Callers, Spots, ClientIds, NoClient, Nobody, Named
  <2> QED
    BY <2>5, <2>6, <2>7, <2>8, <2>9
<1> QED
  BY <1>1, <1>2, <1>3, <1>4

LEMMA AcquireStopKeeps ==
  ASSUME Named, BInv, NEW s \in Stoppers, AcquireStop(s)
  PROVE  BInv'
<1> USE DEF BInv
<1>0. /\ at[s] = "lock" /\ holder = Nobody
      /\ UNCHANGED <<installed, permitted, registered, wants, uses, cancels>>
  BY DEF AcquireStop
<1>1. CASE registered = NoClient
  <2>1. at' = [at EXCEPT ![s] = "ended"] /\ UNCHANGED <<clients, future, holder>>
    BY <1>1 DEF AcquireStop, Go
  <2>5. BTyped'
    BY <1>0, <2>1 DEF Locked, Holding, OneClient, Futures, BTyped, Callers, Spots, ClientIds,
       NoClient, Nobody, Named
  <2>6. Locked'
    BY <1>0, <2>1 DEF Locked, Holding, OneClient, BTyped, Callers, Spots, ClientIds, NoClient,
       Nobody, Named
  <2>7. Numbered'
    BY <1>0, <2>1 DEF Numbered, Locked, Holding, OneClient, BTyped, Callers, Spots, ClientIds,
       NoClient, Nobody, Named, Made
  <2>8. Accounted'
    BY <1>0, <2>1 DEF Accounted, Runs, Locked, Holding, Numbered, OneClient, BTyped, Callers,
       Spots, ClientIds, NoClient, Nobody, Named
  <2>9. WaiterIsKnown'
    BY <1>0, <2>1 DEF WaiterIsKnown, Locked, Holding, Numbered, OneClient, BTyped, Callers,
       Spots, ClientIds, NoClient, Nobody, Named
  <2> QED
    BY <2>5, <2>6, <2>7, <2>8, <2>9
<1>2. CASE registered # NoClient
  <2>1. registered \in ClientIds
    BY <1>2 DEF BTyped
  <2>2. Fails(registered) /\ holder' = s /\ at' = [at EXCEPT ![s] = "stopping"]
    BY <1>2, <2>1, StopFails DEF AcquireStop, Go
  <2>3. Made' = Made
    BY <2>1, <2>2, SameMade DEF Fails
  <2>5. BTyped'
    BY <1>0, <1>2, <2>1, <2>2, <2>3 DEF Fails, Locked, Holding, OneClient, Futures, BTyped,
       Callers, Spots, ClientIds, NoClient, Nobody, Named
  <2>6. Locked'
    BY <1>0, <1>2, <2>1, <2>2, <2>3 DEF Fails, Locked, Holding, OneClient, BTyped, Callers,
       Spots, ClientIds, NoClient, Nobody, Named
  <2>7. Numbered'
    BY <1>0, <1>2, <2>1, <2>2, <2>3 DEF Fails, Numbered, Locked, Holding, OneClient, BTyped,
       Callers, Spots, ClientIds, NoClient, Nobody, Named
  <2>8. Accounted'
    BY <1>0, <1>2, <2>1, <2>2, <2>3 DEF Fails, Accounted, Runs, Locked, Holding, Numbered,
       OneClient, BTyped, Callers, Spots, ClientIds, NoClient, Nobody, Named
  <2>9. WaiterIsKnown'
    BY <1>0, <1>2, <2>1, <2>2, <2>3, FailsKnown
  <2> QED
    BY <2>5, <2>6, <2>7, <2>8, <2>9
<1> QED
  BY <1>1, <1>2

LEMMA CancelKeeps ==
  ASSUME Named, BInv, NEW t \in Tasks, Cancel(t)
  PROVE  BInv'
<1> USE DEF BInv
<1>0. /\ cancels' \in [Tasks -> 0 .. MaxCancels]
      /\ UNCHANGED <<installed, permitted, registered, wants, uses>>
  <2>1. /\ cancels' = [cancels EXCEPT ![t] = @ + 1] /\ cancels[t] < MaxCancels
        /\ UNCHANGED <<installed, permitted, registered, wants, uses>>
    BY DEF Cancel
  <2>2. cancels \in [Tasks -> 0 .. MaxCancels] /\ MaxCancels \in Nat
    BY DEF BTyped, Named
  <2> QED
    BY <2>1, <2>2
<1>1. CASE /\ at[t] \in {"lock", "replacing", "spawning", "aborting", "streaming"}
           /\ at' = [at EXCEPT ![t] = "ended"] /\ UNCHANGED <<clients, future>>
           /\ holder' = IF at[t] \in {"lock", "streaming"} THEN holder ELSE Nobody
  <2>5. BTyped'
    BY <1>0, <1>1 DEF Locked, Holding, OneClient, Futures, BTyped, Callers, Spots, ClientIds,
       NoClient, Nobody, Named
  <2>6. Locked'
    BY <1>0, <1>1 DEF Locked, Holding, OneClient, BTyped, Callers, Spots, ClientIds, NoClient,
       Nobody, Named
  <2>7. Numbered'
    BY <1>0, <1>1 DEF Numbered, Locked, Holding, OneClient, BTyped, Callers, Spots, ClientIds,
       NoClient, Nobody, Named, Made
  <2>8. Accounted'
    BY <1>0, <1>1 DEF Accounted, Runs, Locked, Holding, Numbered, OneClient, BTyped, Callers,
       Spots, ClientIds, NoClient, Nobody, Named
  <2>9. WaiterIsKnown'
    BY <1>0, <1>1 DEF WaiterIsKnown, Locked, Holding, Numbered, OneClient, BTyped, Callers,
       Spots, ClientIds, NoClient, Nobody, Named
  <2> QED
    BY <2>5, <2>6, <2>7, <2>8, <2>9
<1>2. CASE UNCHANGED <<at, holder, clients, future>>
  <2>5. BTyped'
    BY <1>0, <1>2 DEF Locked, Holding, OneClient, Futures, BTyped, Callers, Spots, ClientIds,
       NoClient, Nobody, Named
  <2>6. Locked'
    BY <1>0, <1>2 DEF Locked, Holding, OneClient, BTyped, Callers, Spots, ClientIds, NoClient,
       Nobody, Named
  <2>7. Numbered'
    BY <1>0, <1>2 DEF Numbered, Locked, Holding, OneClient, BTyped, Callers, Spots, ClientIds,
       NoClient, Nobody, Named, Made
  <2>8. Accounted'
    BY <1>0, <1>2 DEF Accounted, Runs, Locked, Holding, Numbered, OneClient, BTyped, Callers,
       Spots, ClientIds, NoClient, Nobody, Named
  <2>9. WaiterIsKnown'
    BY <1>0, <1>2 DEF WaiterIsKnown, Locked, Holding, Numbered, OneClient, BTyped, Callers,
       Spots, ClientIds, NoClient, Nobody, Named
  <2> QED
    BY <2>5, <2>6, <2>7, <2>8, <2>9
<1>3. CASE at[t] = "initializing" /\ Go(t, "aborting") /\ BeginStop(uses[t]) /\ UNCHANGED holder
  <2>1. uses[t] \in ClientIds
    BY <1>3 DEF BTyped, Locked, Holding
  <2>2. Fails(uses[t]) /\ at' = [at EXCEPT ![t] = "aborting"]
    BY <1>3, <2>1, StopFails DEF Go
  <2>3. Made' = Made
    BY <2>1, <2>2, SameMade DEF Fails
  <2>5. BTyped'
    BY <1>0, <1>3, <2>1, <2>2, <2>3 DEF Fails, Locked, Holding, OneClient, Futures, BTyped,
       Callers, Spots, ClientIds, NoClient, Nobody, Named
  <2>6. Locked'
    BY <1>0, <1>3, <2>1, <2>2, <2>3 DEF Fails, Locked, Holding, OneClient, BTyped, Callers,
       Spots, ClientIds, NoClient, Nobody, Named
  <2>7. Numbered'
    BY <1>0, <1>3, <2>1, <2>2, <2>3 DEF Fails, Numbered, Locked, Holding, OneClient, BTyped,
       Callers, Spots, ClientIds, NoClient, Nobody, Named
  <2>8. Accounted'
    <3>1. \A u \in Tasks : at[u] = "initializing" /\ uses[u] # uses[t] => at'[u] = "initializing"
      BY <2>2 DEF BTyped, Callers
    <3> QED
      BY <1>0, <2>1, <2>2, <3>1, FailsAccounted
  <2>9. WaiterIsKnown'
    BY <1>0, <1>3, <2>1, <2>2, <2>3, FailsKnown
  <2> QED
    BY <2>5, <2>6, <2>7, <2>8, <2>9
<1>4. CASE at[t] = "calling" /\ Go(t, "ended") /\ GiveUp(t) /\ UNCHANGED holder
  <2>1. uses[t] \in ClientIds
    BY <1>4 DEF BTyped, Locked, Holding
  <2>2. Forgets(t, uses[t]) /\ at' = [at EXCEPT ![t] = "ended"]
    BY <1>4, <2>1, WaiterForgotten DEF Go, GiveUp
  <2>3. Made' = Made
    BY <2>1, <2>2, SameMade DEF Forgets
  <2>5. BTyped'
    BY <1>0, <1>4, <2>1, <2>2, <2>3 DEF Forgets, Locked, Holding, OneClient, Futures, BTyped,
       Callers, Spots, ClientIds, NoClient, Nobody, Named
  <2>6. Locked'
    BY <1>0, <1>4, <2>1, <2>2, <2>3 DEF Forgets, Locked, Holding, OneClient, BTyped, Callers,
       Spots, ClientIds, NoClient, Nobody, Named
  <2>7. Numbered'
    <3>1. /\ \A c \in ClientIds : clients'[c].process = clients[c].process
          /\ \A c \in ClientIds : clients'[c].stopping = clients[c].stopping
          /\ \A c \in ClientIds : clients'[c].failed = clients[c].failed
      BY <2>2 DEF Forgets, OneClient
    <3> QED
      BY <1>0, <2>3, <3>1 DEF Numbered
  <2>4. Runs' = Runs
    BY <1>0, <2>1, <2>2, ForgetsKnown
  <2>8. Accounted'
    <3>1. \A u \in Tasks : at[u] = "initializing" => at'[u] = "initializing"
      BY <1>4, <2>2 DEF BTyped, Callers
    <3> QED
      BY <1>0, <2>4, <3>1 DEF Accounted
  <2>9. WaiterIsKnown'
    BY <1>0, <1>4, <2>1, <2>2, <2>3, ForgetsKnown
  <2> QED
    BY <2>5, <2>6, <2>7, <2>8, <2>9
<1> QED
  BY <1>1, <1>2, <1>3, <1>4 DEF Cancel, Go

LEMMA SpawnKeeps ==
  ASSUME Named, BInv, NEW t \in Tasks, Spawn(t)
  PROVE  BInv'
<1> USE DEF BInv
<1> DEFINE c == Cardinality(Made) + 1
           new == [Unmade EXCEPT !.identity = wants[t], !.process = "running", !.pending = {t}]
<1>1. PICK n \in 0 .. MaxClients : Made = 1 .. n
  BY DEF Numbered
<1>2. c = n + 1 /\ c \in ClientIds /\ c \notin Made
  <2>1. n \in Nat /\ MaxClients \in Nat
    BY <1>1 DEF Named
  <2>2. Cardinality(1 .. n) = n
    BY <2>1, FS_Interval
  <2>3. c \in ClientIds
    BY DEF Spawn
  <2> QED
    BY <1>1, <2>1, <2>2, <2>3
<1>3. /\ new \in Clients /\ new.identity = wants[t] /\ new.process = "running"
      /\ new.failed = FALSE /\ new.stopping = FALSE /\ new.pending = {t} /\ wants[t] # Nobody
  BY DEF Clients, Unmade, BTyped, Locked, Holding, Spawn
<1> HIDE DEF new, c
<1>4. /\ at[t] = "spawning" /\ registered = NoClient /\ holder = t
      /\ clients' = [clients EXCEPT ![c] = new]
      /\ uses' = [uses EXCEPT ![t] = c] /\ future' = [future EXCEPT ![t] = "awaited"]
      /\ at' = [at EXCEPT ![t] = "initializing"]
      /\ UNCHANGED <<installed, permitted, holder, registered, wants, cancels>>
  BY DEF Spawn, Go, new, c, Locked, Holding, Callers
<1>5. /\ clients' \in [ClientIds -> Clients] /\ clients'[c] = new
      /\ \A d \in ClientIds : d # c => clients'[d] = clients[d]
  BY <1>2, <1>3, <1>4 DEF BTyped
<1>6. Made' = 1 .. (n + 1)
  <2>1. \A d \in ClientIds : clients'[d].identity # Nobody <=> d = c \/ d \in Made
    BY <1>2, <1>3, <1>5 DEF Made
  <2> QED
    BY <1>1, <1>2, <2>1 DEF Made, ClientIds
<1>7. BTyped'
  BY <1>2, <1>4, <1>5 DEF BTyped, Callers, Spots
<1>8. Locked'
  BY <1>2, <1>4 DEF Locked, Holding, BTyped, ClientIds, NoClient, Callers, Named
<1>9. Numbered'
  BY <1>1, <1>2, <1>3, <1>4, <1>5, <1>6 DEF Numbered, BTyped, ClientIds, NoClient, Named
<1>10. Accounted'
  <2>1. t \in Callers /\ at'[t] = "initializing" /\ uses'[t] = c
    BY <1>4 DEF BTyped, Callers
  <2>2. \A u \in Tasks : at[u] # "initializing"
    BY <1>4 DEF Locked, Holding, Callers
  <2>3. \A d \in ClientIds : clients[d].process # "running"
    BY <1>4, <2>2 DEF Accounted, Runs, NoClient, ClientIds
  <2> QED
    BY <1>5, <2>1, <2>3 DEF Accounted, Runs
<1>11. WaiterIsKnown'
  BY <1>2, <1>3, <1>4, <1>5 DEF WaiterIsKnown, Numbered, Locked, BTyped, NoClient
<1> QED
  BY <1>7, <1>8, <1>9, <1>10, <1>11

-----------------------------------------------------------------------------
LEMMA BInvInit ==
  ASSUME Named, Init
  PROVE  BInv
<1>1. BTyped
  BY DEF Init, BTyped, Callers, Spots, Clients, Unmade, ClientIds, Named
<1>2. Locked
  BY DEF Init, Locked, Holding, Callers
<1>3. Numbered
  <2>1. Made = 1 .. 0
    BY DEF Init, Made, Unmade
  <2> QED
    BY <2>1 DEF Init, Numbered, Unmade, Named
<1>4. Accounted /\ WaiterIsKnown
  BY DEF Init, Accounted, Runs, WaiterIsKnown, Unmade
<1> QED
  BY <1>1, <1>2, <1>3, <1>4 DEF BInv

LEMMA BInvStep ==
  ASSUME Named, BInv, [Next]_vars
  PROVE  BInv'
<1>1. CASE \E t \in Tasks :
             \/ Ask(t) \/ Acquire(t) \/ Replaced(t) \/ Spawn(t) \/ SpawnFails(t) \/ Initialized(t)
             \/ InitializeFails(t) \/ Aborted(t) \/ Return(t) \/ TimeOut(t) \/ Cancel(t)
             \/ AskAgent(t) \/ \E status \in {"healthy", "unhealthy"} : AgentEnds(t, status)
  BY <1>1, AskKeeps, AcquireKeeps, ReplacedKeeps, SpawnKeeps, SpawnFailsKeeps, InitializedKeeps,
     InitializeFailsKeeps, AbortedKeeps, ReturnKeeps, TimeOutKeeps, CancelKeeps, AskAgentKeeps,
     AgentEndsKeeps
<1>2. CASE \E s \in Stoppers : AskStop(s) \/ AcquireStop(s) \/ Stopped(s)
  BY <1>2, AskStopKeeps, AcquireStopKeeps, StoppedKeeps
<1>3. CASE \E c \in Made : Exit(c) \/ ReaderFails(c) \/ \E t \in Tasks : Answer(c, t)
  BY <1>3, ExitKeeps, ReaderFailsKeeps, AnswerKeeps
<1>4. CASE \E i \in Manifests : Permit(i) \/ Upgrade(i)
  BY <1>4, ReviseKeeps
<1>5. CASE UNCHANGED vars
  BY <1>5, StutterKeeps
<1> QED
  BY <1>1, <1>2, <1>3, <1>4, <1>5 DEF Next

(* Of the running processes one is registered, or one is being started by  *)
(* whoever has the lock: never both.                                       *)
LEMMA BInvServes ==
  ASSUME BInv
  PROVE  CallsAreServed
<1>1. ASSUME NEW c \in Runs, NEW d \in Runs
      PROVE  c = d
  <2>1. ASSUME NEW t \in Tasks, NEW u \in Tasks, at[t] = "initializing", at[u] = "initializing"
        PROVE  t = u /\ registered = NoClient
    BY <2>1 DEF BInv, Locked, Holding, Callers
  <2> QED
    BY <2>1 DEF BInv, Accounted, Runs, NoClient, ClientIds
<1>2. Cardinality(Runs) <= 1
  <2>1. CASE Runs = {}
    BY <2>1, FS_EmptySet
  <2>2. CASE Runs # {}
    <3>1. PICK c : Runs = {c}
      BY <1>1, <2>2
    <3> QED
      BY <3>1, FS_Singleton
  <2> QED
    BY <2>1, <2>2
<1> QED
  BY <1>2 DEF CallsAreServed, OneServing, Runs, BInv

(* At most one process of an App is in service, and no caller waits for an *)
(* answer that can no longer come, in every reachable state: however the   *)
(* process is started, replaced, stopped or lost, and whenever a Run is    *)
(* cancelled (get_or_start_mcp_client, _stop_unlocked, _fail_transport).   *)
THEOREM CallsAreServedHolds ==
  ASSUME Named
  PROVE  Spec => []CallsAreServed
<1>1. Init => BInv
  BY BInvInit
<1>2. BInv /\ [Next]_vars => BInv'
  BY BInvStep
<1>3. BInv => CallsAreServed
  BY BInvServes
<1> QED
  BY <1>1, <1>2, <1>3, PTL DEF Spec
=============================================================================
