---------------------------- MODULE RuntimeBrowser ----------------------------
(***************************************************************************)
(* The Widget Runtime process: one managed Chromium, launched on demand,   *)
(* shared by the Widget sessions through leases, closed when it is idle,   *)
(* and the sessions themselves, one per socket of the backend.             *)
(*                                                                         *)
(* Granularity: JavaScript runs one callback at a time; an action is what  *)
(* runs between two awaits.  A wait for a promise that is already settled  *)
(* may take a turn of its own, which adds interleavings.  Pages, frames,   *)
(* input and capability requests are left out.                             *)
(***************************************************************************)
EXTENDS Naturals, FiniteSets

CONSTANTS
  Sockets,      \* connections from the backend; each starts one session
  MaxContexts,  \* WIDGET_RUNTIME_MAX_CONTEXTS
  MaxLaunches   \* bound: Chromium processes started

VARIABLES
  browser,      \* BrowserLifecycle.browser; 0 for null
  launch,       \* launchPromise: none, starting or abandoning (shutting down)
  closing,      \* closingPromise: the browser it closes; 0 for null
  idleTimer, activeLeases, fatalError,
  shuttingDown, \* of BrowserLifecycle
  alive,        \* Chromium processes that run
  events,       \* processes whose "disconnected" event is to come
  launched,     \* processes started so far
  intentional,  \* intentionalClosures
  failedClose,  \* ghost: processes whose close() failed
  job,          \* what becomes of the session of each socket
  runtimeClosed, \* sockets the backend has closed
  exit          \* runtime: no, stopping, browser, awaiting, gone

lifecycle == <<browser, launch, closing, idleTimer, activeLeases, fatalError, shuttingDown>>
processes == <<alive, events, launched, intentional, failedClose>>
vars == <<lifecycle, processes, job, runtimeClosed, exit>>

(* A job is [at, b]: idle, waiting (in acquire), launching, granted,       *)
(* context, open, ready, closing, done; b is the browser of its lease.     *)
At(s, stage) == job[s].at = stage
In(stages) == {s \in Sockets : job[s].at \in stages}
Stage(s, stage) == job' = [job EXCEPT ![s].at = stage]
Opening == In({"waiting", "launching", "granted", "context"})
Sessions == In({"open", "ready", "closing"})
Leased == In({"granted", "context", "open", "ready", "closing"})

Operational == ~shuttingDown /\ ~fatalError
OpeningCancelled(s) == exit # "no" \/ s \in runtimeClosed

Init ==
  /\ browser = 0 /\ launch = "none" /\ closing = 0 /\ idleTimer = FALSE
  /\ activeLeases = 0 /\ fatalError = FALSE /\ shuttingDown = FALSE
  /\ alive = {} /\ events = {} /\ launched = 0 /\ intentional = {} /\ failedClose = {}
  /\ job = [s \in Sockets |-> [at |-> "idle", b |-> 0]]
  /\ runtimeClosed = {} /\ exit = "no"

-----------------------------------------------------------------------------
(* release, and the failure path of acquire; scheduleIdleClose.            *)
GiveUpLease ==
  /\ activeLeases' = IF activeLeases > 0 THEN activeLeases - 1 ELSE 0
  /\ idleTimer' = (idleTimer \/ (activeLeases' = 0 /\ Operational /\ browser # 0))
Drop(s) ==
  /\ GiveUpLease /\ Stage(s, "done")
  /\ UNCHANGED <<browser, launch, closing, fatalError, shuttingDown, processes, runtimeClosed, exit>>

(* Mutant: a session that finds the browser running is not counted.        *)
StartAs(s) ==
  /\ At(s, "idle") /\ exit # "gone"
  /\ IF OpeningCancelled(s) \/ Cardinality(Opening \cup Sessions) >= MaxContexts \/ ~Operational
     THEN Stage(s, "done") /\ UNCHANGED lifecycle
     ELSE /\ Stage(s, "waiting")
          /\ activeLeases' = IF browser = 0 THEN activeLeases + 1 ELSE activeLeases
          /\ UNCHANGED <<browser, launch, closing, idleTimer, fatalError, shuttingDown>>
  /\ UNCHANGED <<processes, runtimeClosed, exit>>

(* openSession as far as acquire, which counts the lease and stops the     *)
(* idle timer before it waits for anything.                                *)
Start(s) ==
  /\ At(s, "idle") /\ exit # "gone"
  /\ IF OpeningCancelled(s) \/ Cardinality(Opening \cup Sessions) >= MaxContexts \/ ~Operational
     THEN Stage(s, "done") /\ UNCHANGED lifecycle
     ELSE /\ Stage(s, "waiting") /\ activeLeases' = activeLeases + 1 /\ idleTimer' = FALSE
          /\ UNCHANGED <<browser, launch, closing, fatalError, shuttingDown>>
  /\ UNCHANGED <<processes, runtimeClosed, exit>>

(* ensureBrowser, once no close is under way.                              *)
EnsureBrowser(s) ==
  /\ At(s, "waiting") /\ closing = 0
  /\ IF ~Operational THEN Drop(s)
     ELSE IF browser \in alive
     THEN /\ job' = [job EXCEPT ![s] = [at |-> "granted", b |-> browser]]
          /\ UNCHANGED <<lifecycle, processes, runtimeClosed, exit>>
     ELSE IF browser # 0
     THEN /\ browser' = 0 /\ fatalError' = TRUE /\ idleTimer' = FALSE
          /\ activeLeases' = IF activeLeases > 0 THEN activeLeases - 1 ELSE 0
          /\ Stage(s, "done")
          /\ UNCHANGED <<launch, closing, shuttingDown, processes, runtimeClosed, exit>>
     ELSE /\ launch = "none" => launched < MaxLaunches
          /\ launch' = IF launch = "none" THEN "starting" ELSE launch
          /\ launched' = IF launch = "none" THEN launched + 1 ELSE launched
          /\ Stage(s, "launching")
          /\ UNCHANGED <<browser, closing, idleTimer, activeLeases, fatalError, shuttingDown,
                         alive, events, intentional, failedClose, runtimeClosed, exit>>

(* launchOnce.  A process that dies before "disconnected" is listened to   *)
(* is not noticed.  The waiters get the browser or the error.              *)
Launched ==
  /\ launch = "starting" /\ exit # "gone"
  /\ \E ok \in BOOLEAN :
       /\ browser' = IF shuttingDown THEN 0 ELSE launched
       /\ launch' = IF shuttingDown THEN "abandoning" ELSE "none"
       /\ closing' = IF shuttingDown THEN launched ELSE closing
       /\ intentional' = IF shuttingDown THEN intentional \cup {launched} ELSE intentional
       /\ alive' = IF ok THEN alive \cup {launched} ELSE alive
       /\ job' = IF shuttingDown THEN job
                 ELSE [s \in Sockets |-> IF At(s, "launching")
                                         THEN [at |-> "granted", b |-> launched] ELSE job[s]]
  /\ UNCHANGED <<idleTimer, activeLeases, fatalError, shuttingDown, events, launched,
                 failedClose, runtimeClosed, exit>>

(* The promise is rejected: each waiter gives its lease back in turn.      *)
Rejected(l, s) ==
  /\ At(s, "launching") /\ GiveUpLease /\ Stage(s, "done")
  /\ launch' = IF In({"launching"}) = {s} THEN "none" ELSE l
  /\ UNCHANGED <<browser, closing, fatalError, shuttingDown, processes, runtimeClosed, exit>>
LaunchFailed(s) == launch \in {"starting", "failing"} /\ exit # "gone" /\ Rejected("failing", s)
LaunchAbandoned(s) == launch = "abandoning" /\ closing = 0 /\ Rejected("abandoning", s)

-----------------------------------------------------------------------------
(* openSession with its lease: the context, the page, the Controller.      *)
Granted(s) ==
  /\ At(s, "granted")
  /\ IF ~Operational \/ OpeningCancelled(s) \/ job[s].b \notin alive THEN Drop(s)
     ELSE Stage(s, "context") /\ UNCHANGED <<lifecycle, processes, runtimeClosed, exit>>
OpenPage(s) ==
  /\ At(s, "context")
  /\ IF OpeningCancelled(s) \/ job[s].b \notin alive THEN Drop(s)
     ELSE Stage(s, "open") /\ UNCHANGED <<lifecycle, processes, runtimeClosed, exit>>
Load(s) ==
  /\ At(s, "open")
  /\ \E ok \in BOOLEAN :
       Stage(s, IF OpeningCancelled(s) \/ job[s].b \notin alive \/ ~ok THEN "closing" ELSE "ready")
  /\ UNCHANGED <<lifecycle, processes, runtimeClosed, exit>>

(* closeSession: after a close message or a protocol failure, or once the  *)
(* socket is closed; its task queue runs that after the opening.           *)
CloseSession(s) ==
  /\ At(s, "ready") /\ Stage(s, "closing")
  /\ UNCHANGED <<lifecycle, processes, runtimeClosed, exit>>
(* The context is closed, or was lost with its browser.                    *)
SessionClosed(s) == At(s, "closing") /\ Drop(s)
SocketClose(s) ==
  /\ runtimeClosed' = runtimeClosed \cup {s}
  /\ UNCHANGED <<lifecycle, processes, job, exit>>

-----------------------------------------------------------------------------
(* closeIntentionally(b), when no other close is under way.                *)
Close(b) == browser' = 0 /\ closing' = b /\ intentional' = intentional \cup {b}

(* closeIfIdle, when the timer fires.                                      *)
IdleClose ==
  /\ idleTimer /\ idleTimer' = FALSE
  /\ IF shuttingDown \/ activeLeases # 0 \/ browser = 0 \/ closing # 0
     THEN UNCHANGED <<browser, closing, intentional>> ELSE Close(browser)
  /\ UNCHANGED <<launch, activeLeases, fatalError, shuttingDown, alive, events, launched,
                 failedClose, job, runtimeClosed, exit>>

(* browser.close() returns or fails.                                       *)
Closed ==
  /\ closing # 0 /\ closing' = 0
  /\ \/ alive' = alive \ {closing} /\ UNCHANGED <<browser, fatalError, failedClose>>
     \/ /\ closing \in alive
        /\ failedClose' = failedClose \cup {closing}
        /\ IF shuttingDown THEN UNCHANGED <<browser, fatalError>>
           ELSE /\ browser' = IF browser = 0 THEN closing ELSE browser
                /\ fatalError' = TRUE
        /\ UNCHANGED alive
  /\ UNCHANGED <<launch, idleTimer, activeLeases, shuttingDown, events, launched, intentional,
                 job, runtimeClosed, exit>>

(* A Chromium process dies; handleDisconnect hears of it.                  *)
Crash(b) ==
  /\ b \in alive /\ alive' = alive \ {b} /\ events' = events \cup {b}
  /\ UNCHANGED <<lifecycle, launched, intentional, failedClose, job, runtimeClosed, exit>>

(* onFatal closes every session and ends the process soon after.           *)
HandleDisconnect(b) ==
  /\ b \in events /\ events' = events \ {b}
  /\ IF b \in intentional \/ b # browser THEN UNCHANGED <<lifecycle, job>>
     ELSE /\ browser' = 0
          /\ IF shuttingDown THEN UNCHANGED <<fatalError, idleTimer, job>>
             ELSE /\ fatalError' = TRUE /\ idleTimer' = FALSE
                  /\ job' = IF exit = "no" /\ ~fatalError
                            THEN [s \in Sockets |-> IF job[s].at \in {"open", "ready"}
                                                    THEN [job[s] EXCEPT !.at = "closing"] ELSE job[s]]
                            ELSE job
          /\ UNCHANGED <<launch, closing, activeLeases, shuttingDown>>
  /\ UNCHANGED <<alive, launched, intentional, failedClose, runtimeClosed, exit>>

-----------------------------------------------------------------------------
(* shutdown on SIGTERM: sessions one after the other, then the browser.    *)
Leave(next) == exit' = next /\ UNCHANGED <<processes, runtimeClosed>>
Sigterm == exit = "no" /\ Leave("stopping") /\ UNCHANGED <<lifecycle, job>>
StopSession(s) ==
  /\ exit = "stopping" /\ At(s, "open") /\ Stage(s, "closing")
  /\ UNCHANGED <<lifecycle, processes, runtimeClosed, exit>>
StopLifecycle ==
  /\ exit = "stopping" /\ Sessions = {}
  /\ shuttingDown' = TRUE /\ idleTimer' = FALSE /\ Leave("browser")
  /\ UNCHANGED <<browser, launch, closing, activeLeases, fatalError, job>>
StopBrowser ==
  /\ exit = "browser" /\ launch = "none"
  /\ IF browser # 0 /\ closing = 0 THEN Close(browser) ELSE UNCHANGED <<browser, closing, intentional>>
  /\ exit' = "awaiting"
  /\ UNCHANGED <<launch, idleTimer, activeLeases, fatalError, shuttingDown, alive, events, launched,
                 failedClose, job, runtimeClosed>>
Exit ==
  /\ \/ exit = "awaiting" /\ closing = 0
     \/ exit = "no" /\ fatalError
  /\ Leave("gone") /\ UNCHANGED <<lifecycle, job>>

Next ==
  /\ exit # "gone"
  /\ \/ \E s \in Sockets :
          \/ Start(s) \/ EnsureBrowser(s) \/ LaunchFailed(s) \/ LaunchAbandoned(s)
          \/ Granted(s) \/ OpenPage(s) \/ Load(s)
          \/ CloseSession(s) \/ SessionClosed(s) \/ SocketClose(s) \/ StopSession(s)
     \/ Launched \/ IdleClose \/ Closed
     \/ \E b \in 1 .. MaxLaunches : Crash(b) \/ HandleDisconnect(b)
     \/ Sigterm \/ StopLifecycle \/ StopBrowser \/ Exit

Spec == Init /\ [][Next]_vars

-----------------------------------------------------------------------------
TypeOK ==
  /\ {browser, closing} \subseteq 0 .. MaxLaunches /\ launch \in {"none", "starting", "failing", "abandoning"}
  /\ {idleTimer, fatalError, shuttingDown} \subseteq BOOLEAN /\ activeLeases \in 0 .. Cardinality(Sockets)
  /\ UNION {alive, events, intentional, failedClose} \subseteq 1 .. MaxLaunches
  /\ runtimeClosed \subseteq Sockets

(* Nobody closes Chromium on purpose under a session that holds a lease,   *)
(* however idle timers, failed openings and late launches interleave;      *)
(* only the shutdown of the runtime does.                                  *)
NeverClosedUnderLease ==
  \A s \in Leased : job[s].b \in intentional => shuttingDown

(* There is never a second Chromium, and a runtime that was told to stop   *)
(* leaves none behind that it could close, not even one whose launch was   *)
(* under way.                                                              *)
OneChromium ==
  /\ Cardinality(alive) <= 1
  /\ exit = "gone" /\ shuttingDown => launch = "none" /\ alive \subseteq failedClose

(* The sessions of the runtime share one Chromium for as long as they need *)
(* it and no longer (runtime.mjs, BrowserLifecycle).                       *)
BrowserIsShared == NeverClosedUnderLease /\ OneChromium
=============================================================================
