---------------------------- MODULE Sessions_proofs ----------------------------
(***************************************************************************)
(* The invariants of the sessions that a user works in, for every value of *)
(* the constants.  They are proved where the runs check them, over the     *)
(* variables of MCServices; each section calls those by the names that     *)
(* its component gives them.                                               *)
(***************************************************************************)
EXTENDS MCServices, FiniteSetTheorems, SequenceTheorems, TLAPS

-----------------------------------------------------------------------------
(***************************************************************************)
(* The sessions of a Widget Runtime share one Chromium (RuntimeBrowser),   *)
(* for any number of sockets and launches.                                 *)
(*                                                                         *)
(* The count of leases is the number of sessions between acquire and       *)
(* release, so while one of them holds the browser the idle timer finds    *)
(* it in use.  A process that runs is the browser, the one that is being   *)
(* closed or one that could not be closed, and a launch begins only when   *)
(* there is neither of the first two.                                      *)
(***************************************************************************)
browser == v1
launch == v2
closing == v3
idleTimer == v4
activeLeases == v5
fatalError == v6
shuttingDown == v7
alive == v8
events == v9
launched == v10
intentional == v11
failedClose == v12
job == v13
runtimeClosed == v14
exit == v15
USE DEF browser, launch, closing, idleTimer, activeLeases, fatalError, shuttingDown, alive,
        events, launched, intentional, failedClose, job, runtimeClosed, exit

Spare == {"idle", "done"}
Stages == Spare \cup {"waiting", "launching", "granted", "context", "open", "ready", "closing"}
Jobs == [at : Stages, b : 0 .. launched]
Counted == {s \in Sockets : job[s].at \notin Spare}

CTyped ==
  /\ MaxLaunches \in Nat
  /\ browser \in 0 .. launched /\ closing \in 0 .. launched /\ launched \in 0 .. MaxLaunches
  /\ launch \in {"none", "starting", "failing", "abandoning"} /\ job \in [Sockets -> Jobs]
  /\ alive \subseteq 1 .. launched /\ events \subseteq 1 .. launched
  /\ intentional \subseteq 1 .. launched /\ failedClose \subseteq 1 .. launched
Counts == IsFiniteSet(Counted) /\ activeLeases = Cardinality(Counted)

(* A process that runs is the browser, one that is being closed, or one    *)
(* that could not be closed; a launch starts from nothing.                 *)
One ==
  /\ \A x, y \in alive : x = y
  /\ alive \subseteq {browser, closing} \cup failedClose
  /\ \A x \in alive : x \notin events
  /\ closing # 0 => browser = 0
  /\ failedClose # {} => ~Chromium!Operational
  /\ launch \in {"starting", "failing"} => browser = 0 /\ closing = 0
  /\ launch = "starting" =>
       alive = {} /\ launched > 0 /\ launched \notin events \cup intentional \cup failedClose
  /\ launch = "abandoning" => shuttingDown
Joined == launch = "none" => \A s \in Sockets : job[s].at # "launching"
Told ==
  /\ browser \in intentional => ~Chromium!Operational
  /\ shuttingDown => exit \in {"browser", "awaiting", "gone"}
  /\ exit \in {"browser", "awaiting"} => shuttingDown
  /\ exit = "awaiting" => browser = 0 /\ launch = "none"
  /\ exit = "gone" /\ shuttingDown => launch = "none" /\ alive \subseteq failedClose

CInv == CTyped /\ Counts /\ One /\ Joined /\ Told /\ Chromium!NeverClosedUnderLease

-----------------------------------------------------------------------------
(* The lease of a socket that gives up is counted no more.                 *)
LEMMA OneLess ==
  ASSUME CTyped, Counts, NEW s \in Counted, Chromium!Stage(s, "done"), launched' = launched,
         activeLeases' = IF activeLeases > 0 THEN activeLeases - 1 ELSE 0
  PROVE  /\ Counts' /\ job' \in [Sockets -> Jobs'] /\ s \in Sockets
         /\ job'[s].at = "done" /\ \A t \in Sockets : t # s => job'[t] = job[t]
<1>1. s \in Sockets /\ job[s] \in Jobs BY DEF CTyped, Counted
<1> DEFINE new == [job[s] EXCEPT !.at = "done"]
<1>2. new \in Jobs /\ new.at = "done" BY <1>1 DEF Jobs, Stages, Spare
<1>3. job' = [job EXCEPT ![s] = new] BY DEF Chromium!Stage
<1> HIDE DEF new
<1>4. job'[s] = new /\ \A t \in Sockets : t # s => job'[t] = job[t] BY <1>1, <1>3 DEF CTyped
<1>5. job' \in [Sockets -> Jobs'] BY <1>2, <1>3 DEF CTyped, Jobs
<1>6. Counted' = Counted \ {s} BY <1>1, <1>2, <1>4 DEF Counted, Spare
<1>7. IsFiniteSet(Counted) BY DEF Counts
<1>8. IsFiniteSet(Counted') /\ Cardinality(Counted') = Cardinality(Counted) - 1
  BY <1>6, <1>7, FS_RemoveElement
<1>9. Cardinality(Counted) \in Nat /\ Cardinality(Counted) # 0
  BY <1>7, FS_CardinalityType, FS_EmptySet
<1>10. activeLeases' = activeLeases - 1 BY <1>9 DEF Counts
<1> QED BY <1>1, <1>2, <1>4, <1>5, <1>8, <1>10 DEF Counts

(* A socket goes on in its session.                                        *)
LEMMA GoesOn ==
  ASSUME CTyped, Counts, NEW s \in Sockets, NEW new \in Jobs, job' = [job EXCEPT ![s] = new],
         launched' = launched, activeLeases' = activeLeases,
         new.at \in Spare <=> job[s].at \in Spare
  PROVE  /\ Counts' /\ job' \in [Sockets -> Jobs']
         /\ job'[s] = new /\ \A t \in Sockets : t # s => job'[t] = job[t]
<1>1. job'[s] = new /\ \A t \in Sockets : t # s => job'[t] = job[t] BY DEF CTyped
<1>2. job' \in [Sockets -> Jobs'] BY DEF CTyped, Jobs
<1>3. Counted' = Counted BY <1>1 DEF Counted
<1> QED BY <1>1, <1>2, <1>3 DEF Counts

(* A step of one session in which no process, and no lease, changes.       *)
LEMMA SessionStep ==
  ASSUME CInv, NEW s \in Sockets, NEW stage \in Stages, Chromium!Stage(s, stage),
         stage \in Spare <=> job[s].at \in Spare,
         stage # "launching",
         stage \in {"granted", "context", "open", "ready", "closing"} =>
           job[s].at \in {"granted", "context", "open", "ready", "closing"},
         UNCHANGED <<Chromium!lifecycle, Chromium!processes, exit>>
  PROVE  CInv'
<1> USE DEF CInv, Chromium!lifecycle, Chromium!processes
<1> DEFINE new == [job[s] EXCEPT !.at = stage]
<1>1. job[s] \in Jobs BY DEF CTyped
<1>2. new \in Jobs /\ new.at = stage /\ new.b = job[s].b BY <1>1 DEF Jobs
<1>3. job' = [job EXCEPT ![s] = new] BY DEF Chromium!Stage
<1> HIDE DEF new
<1>4. /\ Counts' /\ job' \in [Sockets -> Jobs']
      /\ job'[s] = new /\ \A t \in Sockets : t # s => job'[t] = job[t]
  BY <1>2, <1>3, GoesOn
<1>5. CTyped' BY <1>4 DEF CTyped
<1>6. One' BY DEF One, Chromium!Operational
<1>7. Joined' BY <1>2, <1>4 DEF Joined
<1>8. Told' BY DEF Told, Chromium!Operational
<1>9. Chromium!NeverClosedUnderLease'
  BY <1>2, <1>4 DEF Chromium!NeverClosedUnderLease, Chromium!Leased, Chromium!In
<1> QED BY <1>4, <1>5, <1>6, <1>7, <1>8, <1>9

(* A session gives up its lease.                                           *)
LEMMA DropStep ==
  ASSUME CInv, NEW s \in Sockets, job[s].at \notin Spare, Chromium!Drop(s)
  PROVE  CInv'
<1> USE DEF CInv, Chromium!processes
<1>1. s \in Counted BY DEF Counted
<1>2. UNCHANGED <<browser, launch, closing, fatalError, shuttingDown, alive, events, launched,
                 intentional, failedClose, exit>>
  BY DEF Chromium!Drop
<1>3. /\ Counts' /\ job' \in [Sockets -> Jobs']
      /\ job'[s].at = "done" /\ \A t \in Sockets : t # s => job'[t] = job[t]
  BY <1>1, <1>2, OneLess DEF Chromium!Drop, Chromium!GiveUpLease
<1>4. CTyped' BY <1>2, <1>3 DEF CTyped
<1>5. One' BY <1>2 DEF One, Chromium!Operational
<1>6. Joined' BY <1>2, <1>3 DEF Joined
<1>7. Told' BY <1>2 DEF Told, Chromium!Operational
<1>8. Chromium!NeverClosedUnderLease'
  BY <1>2, <1>3 DEF Chromium!NeverClosedUnderLease, Chromium!Leased, Chromium!In
<1> QED BY <1>3, <1>4, <1>5, <1>6, <1>7, <1>8

-----------------------------------------------------------------------------
(* The actions, one by one, keep the invariant.                            *)
LEMMA StartKeeps ==
  ASSUME CInv, NEW s \in Sockets, Chromium!Start(s)
  PROVE  CInv'
<1> USE DEF CInv, Chromium!processes, Chromium!lifecycle
<1>0. job[s].at = "idle" BY DEF Chromium!Start, Chromium!At
<1>1. CASE Chromium!Stage(s, "done") /\ UNCHANGED Chromium!lifecycle
  BY <1>0, <1>1, SessionStep DEF Chromium!Start, Stages, Spare
<1>2. CASE /\ Chromium!Stage(s, "waiting") /\ activeLeases' = activeLeases + 1
           /\ UNCHANGED <<browser, launch, closing, fatalError, shuttingDown>>
  <2>1. UNCHANGED <<browser, launch, closing, fatalError, shuttingDown, alive, events, launched,
                   intentional, failedClose, exit>>
    BY <1>2 DEF Chromium!Start
  <2> DEFINE new == [job[s] EXCEPT !.at = "waiting"]
  <2>2. new \in Jobs /\ new.at = "waiting" BY DEF CTyped, Jobs, Stages
  <2>3. job' = [job EXCEPT ![s] = new] BY <1>2 DEF Chromium!Stage
  <2> HIDE DEF new
  <2>4. job'[s] = new /\ \A t \in Sockets : t # s => job'[t] = job[t] BY <2>3 DEF CTyped
  <2>5. job' \in [Sockets -> Jobs'] BY <2>1, <2>2, <2>3 DEF CTyped, Jobs
  <2>6. Counted' = Counted \cup {s} /\ s \notin Counted BY <1>0, <2>2, <2>4 DEF Counted, Spare
  <2>7. Counts' BY <1>2, <2>6, FS_AddElement DEF Counts
  <2>8. CTyped' BY <2>1, <2>5 DEF CTyped
  <2>9. One' BY <2>1 DEF One, Chromium!Operational
  <2>10. Joined' BY <2>1, <2>2, <2>4 DEF Joined
  <2>11. Told' BY <2>1 DEF Told, Chromium!Operational
  <2>12. Chromium!NeverClosedUnderLease'
    BY <2>1, <2>2, <2>4 DEF Chromium!NeverClosedUnderLease, Chromium!Leased, Chromium!In
  <2> QED BY <2>7, <2>8, <2>9, <2>10, <2>11, <2>12
<1> QED BY <1>1, <1>2 DEF Chromium!Start

LEMMA EnsureBrowserKeeps ==
  ASSUME CInv, NEW s \in Sockets, Chromium!EnsureBrowser(s)
  PROVE  CInv'
<1> USE DEF CInv, Chromium!processes, Chromium!lifecycle
<1>0. job[s].at = "waiting" /\ closing = 0 /\ job[s] \in Jobs
  BY DEF Chromium!EnsureBrowser, Chromium!At, CTyped
<1>1. CASE Chromium!Drop(s) BY <1>0, <1>1, DropStep DEF Spare
<1>2. CASE /\ Chromium!Operational /\ browser \in alive
           /\ job' = [job EXCEPT ![s] = [at |-> "granted", b |-> browser]]
           /\ UNCHANGED <<Chromium!lifecycle, Chromium!processes, runtimeClosed, exit>>
  <2> DEFINE new == [at |-> "granted", b |-> browser]
  <2>1. new \in Jobs /\ new.at = "granted" /\ new.b = browser BY DEF CTyped, Jobs, Stages
  <2>2. job' = [job EXCEPT ![s] = new] BY <1>2
  <2> HIDE DEF new
  <2>3. /\ Counts' /\ job' \in [Sockets -> Jobs']
        /\ job'[s] = new /\ \A t \in Sockets : t # s => job'[t] = job[t]
    BY <1>0, <1>2, <2>1, <2>2, GoesOn DEF Spare
  <2>4. CTyped' BY <1>2, <2>3 DEF CTyped
  <2>5. One' BY <1>2 DEF One, Chromium!Operational
  <2>6. Joined' BY <1>2, <2>1, <2>3 DEF Joined
  <2>7. Told' BY <1>2 DEF Told, Chromium!Operational
  <2>8. browser \notin intentional BY <1>2 DEF Told
  <2>9. Chromium!NeverClosedUnderLease'
    BY <1>2, <2>1, <2>3, <2>8 DEF Chromium!NeverClosedUnderLease, Chromium!Leased, Chromium!In
  <2> QED BY <2>3, <2>4, <2>5, <2>6, <2>7, <2>9
<1>3. CASE /\ browser \notin alive /\ browser # 0 /\ browser' = 0 /\ fatalError' = TRUE
           /\ activeLeases' = (IF activeLeases > 0 THEN activeLeases - 1 ELSE 0)
           /\ idleTimer' = FALSE
           /\ Chromium!Stage(s, "done")
           /\ UNCHANGED <<launch, closing, shuttingDown, Chromium!processes, runtimeClosed,
                          exit>>
  <2>1. s \in Counted BY <1>0 DEF Counted, Spare
  <2>2. /\ Counts' /\ job' \in [Sockets -> Jobs']
        /\ job'[s].at = "done" /\ \A t \in Sockets : t # s => job'[t] = job[t]
    BY <1>3, <2>1, OneLess
  <2>3. CTyped' BY <1>3, <2>2 DEF CTyped
  <2>4. One' BY <1>3 DEF One, Chromium!Operational, CTyped
  <2>5. Joined' BY <1>3, <2>2 DEF Joined
  <2>6. Told' BY <1>3 DEF Told, Chromium!Operational, CTyped
  <2>7. Chromium!NeverClosedUnderLease'
    BY <1>3, <2>2 DEF Chromium!NeverClosedUnderLease, Chromium!Leased, Chromium!In
  <2> QED BY <2>2, <2>3, <2>4, <2>5, <2>6, <2>7
<1>4. CASE /\ browser = 0 /\ Chromium!Operational
           /\ launch = "none" => launched < MaxLaunches
           /\ launch' = (IF launch = "none" THEN "starting" ELSE launch)
           /\ launched' = (IF launch = "none" THEN launched + 1 ELSE launched)
           /\ Chromium!Stage(s, "launching")
           /\ UNCHANGED <<browser, closing, idleTimer, activeLeases, fatalError, shuttingDown,
                          alive, events, intentional, failedClose, runtimeClosed, exit>>
  <2> DEFINE new == [job[s] EXCEPT !.at = "launching"]
  <2>1. new \in Jobs /\ new.at = "launching" BY <1>0 DEF Jobs, Stages
  <2>2. job' = [job EXCEPT ![s] = new] BY <1>4 DEF Chromium!Stage
  <2> HIDE DEF new
  <2>3. job'[s] = new /\ \A t \in Sockets : t # s => job'[t] = job[t] BY <2>2 DEF CTyped
  <2>4. launched' \in 0 .. MaxLaunches /\ 0 .. launched \subseteq 0 .. launched'
        /\ 1 .. launched \subseteq 1 .. launched'
    BY <1>4 DEF CTyped
  <2>5. Jobs \subseteq Jobs' BY <2>4 DEF Jobs
  <2>6. job' \in [Sockets -> Jobs'] BY <2>1, <2>2, <2>5 DEF CTyped
  <2>7. Counted' = Counted BY <1>0, <2>1, <2>3 DEF Counted, Spare
  <2>8. Counts' BY <1>4, <2>7 DEF Counts
  <2>9. CTyped' BY <1>4, <2>4, <2>6 DEF CTyped
  <2>10. alive = {} BY <1>0, <1>4 DEF One, CTyped, Chromium!Operational
  <2>11. launch = "none" => launched' = launched + 1 /\ launched \in Nat
    BY <1>4 DEF CTyped
  <2>12. launch = "none" => launched' > 0 /\ launched' \notin events \cup intentional \cup failedClose
    BY <2>11 DEF CTyped
  <2>13. One' BY <1>0, <1>4, <2>10, <2>12 DEF One, Chromium!Operational
  <2>14. Joined' BY <1>4 DEF Joined
  <2>15. Told' BY <1>4 DEF Told, Chromium!Operational
  <2>16. Chromium!NeverClosedUnderLease'
    BY <1>4, <2>1, <2>3 DEF Chromium!NeverClosedUnderLease, Chromium!Leased, Chromium!In
  <2> QED BY <2>8, <2>9, <2>13, <2>14, <2>15, <2>16
<1> QED BY <1>0, <1>1, <1>2, <1>3, <1>4 DEF Chromium!EnsureBrowser

LEMMA LaunchedKeeps ==
  ASSUME CInv, Chromium!Launched
  PROVE  CInv'
<1> USE DEF CInv
<1>1. /\ launch = "starting" /\ exit # "gone" /\ alive = {} /\ browser = 0 /\ closing = 0
      /\ launched \in 1 .. launched /\ launched \in 0 .. launched
      /\ launched \notin events \cup intentional \cup failedClose
      /\ UNCHANGED <<activeLeases, fatalError, shuttingDown, events, launched, failedClose, exit>>
      /\ alive' \subseteq {launched}
  BY DEF Chromium!Launched, One, CTyped
<1>2. CASE shuttingDown
  <2>1. /\ browser' = 0 /\ launch' = "abandoning" /\ closing' = launched /\ job' = job
        /\ intentional' = intentional \cup {launched}
    BY <1>2 DEF Chromium!Launched
  <2>2. Counted' = Counted BY <2>1 DEF Counted
  <2>3. Counts' BY <1>1, <2>2 DEF Counts
  <2>4. CTyped' BY <1>1, <2>1 DEF CTyped, Jobs
  <2>5. One' BY <1>1, <1>2, <2>1 DEF One, Chromium!Operational
  <2>6. Joined' BY <2>1 DEF Joined
  <2>7. Told' BY <1>1, <1>2, <2>1 DEF Told, Chromium!Operational
  <2>8. Chromium!NeverClosedUnderLease' BY <1>1, <1>2 DEF Chromium!NeverClosedUnderLease
  <2> QED BY <2>3, <2>4, <2>5, <2>6, <2>7, <2>8
<1>3. CASE ~shuttingDown
  <2>1. /\ browser' = launched /\ launch' = "none" /\ closing' = 0 /\ intentional' = intentional
        /\ job' = [s \in Sockets |-> IF job[s].at = "launching"
                                     THEN [at |-> "granted", b |-> launched] ELSE job[s]]
    BY <1>1, <1>3 DEF Chromium!Launched, Chromium!At
  <2>2. [at |-> "granted", b |-> launched] \in Jobs BY <1>1 DEF Jobs, Stages
  <2>3. job' \in [Sockets -> Jobs'] BY <1>1, <2>1, <2>2 DEF CTyped, Jobs
  <2>4. \A s \in Sockets : \/ job'[s] = job[s] /\ job[s].at # "launching"
                           \/ job[s].at = "launching" /\ job'[s].at = "granted" /\ job'[s].b = launched
    BY <2>1
  <2>5. Counted' = Counted BY <2>4 DEF Counted, Spare
  <2>6. Counts' BY <1>1, <2>5 DEF Counts
  <2>7. CTyped' BY <1>1, <2>1, <2>3 DEF CTyped
  <2>8. One' BY <1>1, <1>3, <2>1 DEF One, Chromium!Operational
  <2>9. Joined' BY <2>4 DEF Joined
  <2>10. Told' BY <1>1, <1>3, <2>1 DEF Told, Chromium!Operational
  <2>11. Chromium!NeverClosedUnderLease'
    BY <1>1, <2>1, <2>4 DEF Chromium!NeverClosedUnderLease, Chromium!Leased, Chromium!In
  <2> QED BY <2>6, <2>7, <2>8, <2>9, <2>10, <2>11
<1> QED BY <1>2, <1>3

LEMMA RejectedKeeps ==
  ASSUME CInv, NEW s \in Sockets, Chromium!LaunchFailed(s) \/ Chromium!LaunchAbandoned(s)
  PROVE  CInv'
<1> USE DEF CInv, Chromium!processes
<1>1. /\ job[s].at = "launching" /\ Chromium!Stage(s, "done")
      /\ launch \in {"starting", "failing", "abandoning"} /\ (exit # "gone" \/ shuttingDown)
      /\ activeLeases' = IF activeLeases > 0 THEN activeLeases - 1 ELSE 0
      /\ UNCHANGED <<browser, closing, fatalError, shuttingDown, alive, events, launched,
                     intentional, failedClose, exit>>
  BY DEF Chromium!LaunchFailed, Chromium!LaunchAbandoned, Chromium!Rejected, Chromium!At,
     Chromium!GiveUpLease, One
<1>2. \/ launch' = "none"
      \/ launch' = "failing" /\ launch \in {"starting", "failing"}
      \/ launch' = "abandoning" /\ launch = "abandoning"
  BY DEF Chromium!LaunchFailed, Chromium!LaunchAbandoned, Chromium!Rejected
<1>3. launch' = "none" => Chromium!In({"launching"}) = {s}
  BY DEF Chromium!LaunchFailed, Chromium!LaunchAbandoned, Chromium!Rejected
<1>4. s \in Counted BY <1>1 DEF Counted, Spare
<1>5. /\ Counts' /\ job' \in [Sockets -> Jobs']
      /\ job'[s].at = "done" /\ \A t \in Sockets : t # s => job'[t] = job[t]
  BY <1>1, <1>4, OneLess
<1>6. CTyped' BY <1>1, <1>2, <1>5 DEF CTyped
<1>7. One' BY <1>1, <1>2 DEF One, Chromium!Operational
<1>8. Joined' BY <1>3, <1>5 DEF Joined, Chromium!In
<1>9. exit = "awaiting" \/ (exit = "gone" /\ shuttingDown) => FALSE
  BY <1>1 DEF Told, Joined
<1>10. Told' BY <1>1, <1>9 DEF Told, Chromium!Operational
<1>11. Chromium!NeverClosedUnderLease'
  BY <1>1, <1>5 DEF Chromium!NeverClosedUnderLease, Chromium!Leased, Chromium!In
<1> QED BY <1>5, <1>6, <1>7, <1>8, <1>10, <1>11

-----------------------------------------------------------------------------
(* Nobody holds a lease when the count is zero.                            *)
LEMMA NobodyLeased ==
  ASSUME CTyped, Counts, activeLeases = 0
  PROVE  \A s \in Sockets : job[s].at \in Spare
BY FS_EmptySet DEF Counts, Counted

LEMMA CloseKeeps ==
  ASSUME CInv, browser # 0, closing = 0, Chromium!Close(browser),
         launch = "none" \/ ~shuttingDown,
         (\A s \in Sockets : job[s].at \in Spare) \/ shuttingDown,
         exit' = exit \/ (exit = "browser" /\ exit' = "awaiting" /\ launch = "none"),
         UNCHANGED <<launch, activeLeases, fatalError, shuttingDown, alive, events, launched,
                     failedClose, job>>
  PROVE  CInv'
<1> USE DEF CInv
<1>1. /\ browser' = 0 /\ closing' = browser /\ intentional' = intentional \cup {browser}
      /\ launch \notin {"starting", "failing"} /\ browser \in 1 .. launched
      /\ exit # "awaiting"
  BY DEF Chromium!Close, One, CTyped, Told
<1>2. Counts' BY DEF Counts, Counted
<1>3. CTyped' BY <1>1 DEF CTyped, Jobs
<1>4. One' BY <1>1 DEF One, Chromium!Operational, CTyped
<1>5. Joined' BY DEF Joined
<1>6. Told' BY <1>1 DEF Told, Chromium!Operational, CTyped
<1>7. Chromium!NeverClosedUnderLease'
  BY <1>1 DEF Chromium!NeverClosedUnderLease, Chromium!Leased, Chromium!In, Spare
<1> QED BY <1>2, <1>3, <1>4, <1>5, <1>6, <1>7

(* Nothing but the idle timer, the sockets that are closed, or what the    *)
(* runtime is told changes.                                                *)
LEMMA IdleKeeps ==
  ASSUME CInv,
         UNCHANGED <<browser, launch, closing, activeLeases, fatalError, shuttingDown,
                     Chromium!processes, job>>,
         \/ exit' = exit
         \/ exit = "no" /\ exit' = "stopping"
         \/ exit = "browser" /\ exit' = "awaiting" /\ launch = "none" /\ browser = 0
         \/ exit' = "gone" /\ (shuttingDown => exit = "awaiting" /\ closing = 0)
  PROVE  CInv'
<1> USE DEF CInv, Chromium!processes
<1>1. Counts' BY DEF Counts, Counted
<1>2. CTyped' BY DEF CTyped, Jobs
<1>3. One' BY DEF One, Chromium!Operational
<1>4. Joined' BY DEF Joined
<1>5. Told' BY DEF Told, Chromium!Operational, One, CTyped
<1>6. Chromium!NeverClosedUnderLease'
  BY DEF Chromium!NeverClosedUnderLease, Chromium!Leased, Chromium!In
<1> QED BY <1>1, <1>2, <1>3, <1>4, <1>5, <1>6

LEMMA IdleCloseKeeps ==
  ASSUME CInv, Chromium!IdleClose
  PROVE  CInv'
<1>1. CASE shuttingDown \/ activeLeases # 0 \/ browser = 0 \/ closing # 0
  BY <1>1, IdleKeeps DEF Chromium!IdleClose, Chromium!processes
<1>2. CASE ~(shuttingDown \/ activeLeases # 0 \/ browser = 0 \/ closing # 0)
  BY <1>2, CloseKeeps, NobodyLeased DEF Chromium!IdleClose, CInv
<1> QED BY <1>1, <1>2

LEMMA StopBrowserKeeps ==
  ASSUME CInv, Chromium!StopBrowser
  PROVE  CInv'
<1>1. shuttingDown BY DEF Chromium!StopBrowser, CInv, Told
<1>2. CASE browser # 0 /\ closing = 0
  BY <1>1, <1>2, CloseKeeps DEF Chromium!StopBrowser
<1>3. CASE browser = 0
  BY <1>3, IdleKeeps DEF Chromium!StopBrowser, Chromium!processes
<1>4. browser = 0 \/ closing = 0 BY DEF CInv, One
<1> QED BY <1>2, <1>3, <1>4

LEMMA ClosedKeeps ==
  ASSUME CInv, Chromium!Closed
  PROVE  CInv'
<1> USE DEF CInv
<1>1. /\ closing # 0 /\ closing' = 0 /\ browser = 0 /\ launch \notin {"starting", "failing"}
      /\ UNCHANGED <<launch, activeLeases, shuttingDown, events, launched, intentional, job, exit>>
  BY DEF Chromium!Closed, One
<1>2. Counts' BY <1>1 DEF Counts, Counted
<1>3. Joined' BY <1>1 DEF Joined
<1>4. Chromium!NeverClosedUnderLease'
  BY <1>1 DEF Chromium!NeverClosedUnderLease, Chromium!Leased, Chromium!In
<1>5. CASE alive' = alive \ {closing} /\ UNCHANGED <<browser, fatalError, failedClose>>
  <2>1. CTyped' BY <1>1, <1>5 DEF CTyped, Jobs
  <2>2. One' BY <1>1, <1>5 DEF One, Chromium!Operational
  <2>3. Told' BY <1>1, <1>5 DEF Told, Chromium!Operational
  <2> QED BY <1>2, <1>3, <1>4, <2>1, <2>2, <2>3
<1>6. CASE /\ closing \in alive /\ alive' = alive /\ failedClose' = failedClose \cup {closing}
           /\ ~Chromium!Operational'
           /\ shuttingDown => browser' = 0
           /\ browser' \in {browser, closing}
  <2>1. CTyped' BY <1>1, <1>6 DEF CTyped, Jobs
  <2>2. One' BY <1>1, <1>6 DEF One
  <2>3. Told' BY <1>1, <1>6 DEF Told
  <2> QED BY <1>2, <1>3, <1>4, <2>1, <2>2, <2>3
<1>7. \/ alive' = alive \ {closing} /\ UNCHANGED <<browser, fatalError, failedClose>>
      \/ /\ closing \in alive /\ alive' = alive /\ failedClose' = failedClose \cup {closing}
         /\ ~Chromium!Operational'
         /\ shuttingDown => browser' = 0
         /\ browser' \in {browser, closing}
  BY <1>1 DEF Chromium!Closed, Chromium!Operational
<1> QED BY <1>5, <1>6, <1>7

LEMMA CrashKeeps ==
  ASSUME CInv, NEW b \in 1 .. MaxLaunches, Chromium!Crash(b)
  PROVE  CInv'
<1> USE DEF CInv, Chromium!lifecycle
<1>1. /\ b \in alive /\ alive' = alive \ {b} /\ events' = events \cup {b}
      /\ UNCHANGED <<browser, launch, closing, activeLeases, fatalError, shuttingDown, launched,
                     intentional, failedClose, job, exit>>
  BY DEF Chromium!Crash
<1>2. Counts' BY <1>1 DEF Counts, Counted
<1>3. CTyped' BY <1>1 DEF CTyped, Jobs
<1>4. One' BY <1>1 DEF One, Chromium!Operational
<1>5. Joined' BY <1>1 DEF Joined
<1>6. Told' BY <1>1 DEF Told, Chromium!Operational
<1>7. Chromium!NeverClosedUnderLease'
  BY <1>1 DEF Chromium!NeverClosedUnderLease, Chromium!Leased, Chromium!In
<1> QED BY <1>2, <1>3, <1>4, <1>5, <1>6, <1>7

LEMMA HandleDisconnectKeeps ==
  ASSUME CInv, NEW b \in 1 .. MaxLaunches, Chromium!HandleDisconnect(b)
  PROVE  CInv'
<1> USE DEF CInv
<1>1. /\ b \in events /\ events' = events \ {b}
      /\ UNCHANGED <<launch, closing, activeLeases, shuttingDown, alive, launched, intentional,
                     failedClose, exit>>
      /\ browser' = browser \/ (b = browser /\ browser' = 0)
      /\ fatalError' = fatalError \/ fatalError' = TRUE
  BY DEF Chromium!HandleDisconnect, Chromium!lifecycle
<1>2. job' = job \/ job' = [s \in Sockets |-> IF job[s].at \in {"open", "ready"}
                                               THEN [job[s] EXCEPT !.at = "closing"] ELSE job[s]]
  BY DEF Chromium!HandleDisconnect
<1>3. \A s \in Sockets :
        /\ job'[s] \in Jobs /\ job'[s].b = job[s].b
        /\ job'[s].at = job[s].at \/ (job[s].at \in {"open", "ready"} /\ job'[s].at = "closing")
  <2>1. ASSUME NEW s \in Sockets
        PROVE  job[s] \in Jobs /\ [job[s] EXCEPT !.at = "closing"] \in Jobs
               /\ [job[s] EXCEPT !.at = "closing"].b = job[s].b
               /\ [job[s] EXCEPT !.at = "closing"].at = "closing"
    BY DEF CTyped, Jobs, Stages
  <2> QED BY <1>2, <2>1
<1>4. job' \in [Sockets -> Jobs'] BY <1>1, <1>2, <1>3 DEF CTyped, Jobs
<1>5. Counted' = Counted BY <1>3 DEF Counted, Spare
<1>6. Counts' BY <1>1, <1>5 DEF Counts
<1>7. CTyped' BY <1>1, <1>4 DEF CTyped
<1>8. One' BY <1>1 DEF One, Chromium!Operational, CTyped
<1>9. Joined' BY <1>1, <1>3 DEF Joined
<1>10. Told' BY <1>1 DEF Told, Chromium!Operational, CTyped
<1>11. Chromium!NeverClosedUnderLease'
  BY <1>1, <1>3 DEF Chromium!NeverClosedUnderLease, Chromium!Leased, Chromium!In
<1> QED BY <1>6, <1>7, <1>8, <1>9, <1>10, <1>11

LEMMA StopLifecycleKeeps ==
  ASSUME CInv, Chromium!StopLifecycle
  PROVE  CInv'
<1> USE DEF CInv
<1>1. /\ exit = "stopping" /\ shuttingDown' = TRUE /\ exit' = "browser"
      /\ UNCHANGED <<browser, launch, closing, activeLeases, fatalError, Chromium!processes, job>>
  BY DEF Chromium!StopLifecycle, Chromium!Leave
<1> USE DEF Chromium!processes
<1>2. Counts' BY <1>1 DEF Counts, Counted
<1>3. CTyped' BY <1>1 DEF CTyped, Jobs
<1>4. One' BY <1>1 DEF One, Chromium!Operational
<1>5. Joined' BY <1>1 DEF Joined
<1>6. Told' BY <1>1 DEF Told, Chromium!Operational
<1>7. Chromium!NeverClosedUnderLease' BY <1>1 DEF Chromium!NeverClosedUnderLease
<1> QED BY <1>2, <1>3, <1>4, <1>5, <1>6, <1>7

-----------------------------------------------------------------------------
(* It holds at first, every step keeps it, and it says what is promised.   *)
LEMMA CInvInit ==
  ASSUME MaxLaunches \in Nat, Chromium!Init
  PROVE  CInv
<1>1. \A s \in Sockets : job[s].at = "idle" /\ job[s] = [at |-> "idle", b |-> 0]
  BY DEF Chromium!Init
<1>2. Counted = {} BY <1>1 DEF Counted, Spare
<1>3. Counts BY <1>2, FS_EmptySet DEF Counts, Chromium!Init
<1>4. [at |-> "idle", b |-> 0] \in [at : Stages, b : 0 .. 0] BY DEF Stages, Spare
<1>5. CTyped BY <1>4 DEF CTyped, Chromium!Init, Jobs
<1>6. One /\ Joined /\ Told BY <1>1 DEF One, Joined, Told, Chromium!Init
<1>7. Chromium!NeverClosedUnderLease BY DEF Chromium!Init, Chromium!NeverClosedUnderLease
<1> QED BY <1>3, <1>5, <1>6, <1>7 DEF CInv

LEMMA CInvStep ==
  ASSUME CInv, [Chromium!Next]_(Chromium!vars)
  PROVE  CInv'
<1>1. ASSUME NEW s \in Sockets, Chromium!Granted(s) \/ Chromium!OpenPage(s) \/ Chromium!Load(s)
      PROVE  CInv'
  <2>1. CASE Chromium!Drop(s)
    BY <1>1, <2>1, DropStep DEF Chromium!Granted, Chromium!OpenPage, Chromium!Load, Chromium!At,
       Spare
  <2>2. CASE \E stage \in {"context", "open", "closing", "ready"} :
               Chromium!Stage(s, stage) /\ UNCHANGED <<Chromium!lifecycle, Chromium!processes, exit>>
    <3>1. PICK stage \in {"context", "open", "closing", "ready"} :
            Chromium!Stage(s, stage) /\ UNCHANGED <<Chromium!lifecycle, Chromium!processes, exit>>
      BY <2>2
    <3>2. job[s].at \in {"granted", "context", "open"}
      BY <1>1 DEF Chromium!Granted, Chromium!OpenPage, Chromium!Load, Chromium!At
    <3> QED BY <3>1, <3>2, SessionStep DEF Stages, Spare
  <2> QED BY <1>1, <2>1, <2>2 DEF Chromium!Granted, Chromium!OpenPage, Chromium!Load
<1>2. ASSUME NEW s \in Sockets, Chromium!CloseSession(s) \/ Chromium!StopSession(s) PROVE CInv'
  <2>1. /\ job[s].at \in {"ready", "open"} /\ Chromium!Stage(s, "closing")
        /\ UNCHANGED <<Chromium!lifecycle, Chromium!processes, exit>>
    BY <1>2 DEF Chromium!CloseSession, Chromium!StopSession, Chromium!At
  <2> QED BY <2>1, SessionStep DEF Stages, Spare
<1>3. ASSUME NEW s \in Sockets, Chromium!SessionClosed(s) PROVE CInv'
  BY <1>3, DropStep DEF Chromium!SessionClosed, Chromium!At, Spare
<1>4. ASSUME NEW s \in Sockets, Chromium!SocketClose(s) PROVE CInv'
  BY <1>4, IdleKeeps DEF Chromium!SocketClose, Chromium!lifecycle
<1>5. CASE Chromium!Sigterm \/ Chromium!Exit
  BY <1>5, IdleKeeps DEF Chromium!Sigterm, Chromium!Exit, Chromium!Leave, Chromium!lifecycle,
     CInv, Told
<1>6. CASE UNCHANGED Chromium!vars
  BY <1>6, IdleKeeps DEF Chromium!vars, Chromium!lifecycle
<1> QED
  BY <1>1, <1>2, <1>3, <1>4, <1>5, <1>6, StartKeeps, EnsureBrowserKeeps, RejectedKeeps,
     LaunchedKeeps, IdleCloseKeeps, ClosedKeeps, CrashKeeps, HandleDisconnectKeeps,
     StopLifecycleKeeps, StopBrowserKeeps
  DEF Chromium!Next

LEMMA SameCardinality == \A set : Chromium!Cardinality(set) = Cardinality(set)
BY DEF Chromium!Cardinality, Cardinality

LEMMA CInvShared ==
  ASSUME CInv
  PROVE  Chromium!BrowserIsShared
<1>1. Cardinality(alive) <= 1
  <2>1. CASE alive = {} BY <2>1, FS_EmptySet
  <2>2. ASSUME NEW x \in alive PROVE Cardinality(alive) <= 1
    <3>1. alive = {x} BY DEF CInv, One
    <3> QED BY <3>1, FS_Singleton
  <2> QED BY <2>1, <2>2
<1> QED BY <1>1, SameCardinality DEF CInv, Told, Chromium!OneChromium, Chromium!BrowserIsShared

LEMMA ChromiumStep ==
  ASSUME [Next]_vars, component = "chromium"
  PROVE  component' = component /\ [Chromium!Next]_(Chromium!vars)
<1>1. CASE UNCHANGED vars
  BY <1>1 DEF vars, Chromium!vars, Chromium!lifecycle, Chromium!processes
<1>2. CASE Next
  <2>1. component' = component /\ Chromium!Next BY <1>2 DEF Next
  <2> QED BY <2>1
<1> QED BY <1>1, <1>2

(* However idle timers, failed openings, late launches, dying processes    *)
(* and the shutdown interleave, there is one Chromium at most, nobody      *)
(* closes it under a lease but the shutdown, and a runtime that was told   *)
(* to stop leaves none behind that it could close (BrowserLifecycle and    *)
(* shutdown of runtime.mjs).                                               *)
THEOREM AlwaysShared == ASSUME MaxLaunches \in Nat PROVE Spec => []BrowserIsShared
<1> DEFINE Inv == component = "chromium" => CInv
<1>1. Init => Inv
  <2> SUFFICES ASSUME Init, component = "chromium" PROVE CInv OBVIOUS
  <2>1. Chromium!Init BY DEF Init
  <2> QED BY <2>1, CInvInit
<1>2. Inv /\ [Next]_vars => Inv'
  <2> SUFFICES ASSUME Inv, [Next]_vars, component' = "chromium" PROVE CInv' OBVIOUS
  <2>1. component = "chromium" BY DEF Next, vars
  <2>2. CInv BY <2>1
  <2> QED BY <2>1, <2>2, ChromiumStep, CInvStep
<1>3. Inv => BrowserIsShared BY CInvShared DEF BrowserIsShared
<1> QED BY <1>1, <1>2, <1>3, PTL DEF Spec
HIDE DEF browser, launch, closing, idleTimer, activeLeases, fatalError, shuttingDown, alive,
        events, launched, intentional, failedClose, job, runtimeClosed, exit


-----------------------------------------------------------------------------
(***************************************************************************)
(* The session of a Widget (WidgetHost) is proved about here, over the     *)
(* variables of MCServices, which this section calls by their own names.   *)
(*                                                                         *)
(* What a message carries is true when it is sent and stays on the wire    *)
(* as it is: a device names the request it answers, the backend keeps a    *)
(* position only while it waits for that request, and the key under which  *)
(* a Run is found again names the call that made it.                       *)
(***************************************************************************)
app == v1
tickets == v2
issued == v3
mount == v4
sessions == v5
serving == v6
up == v7
down == v8
runs == v9
answered == v10
USE DEF app, tickets, issued, mount, sessions, serving, up, down, runs, answered

Numbers == MaxMounts \in Nat /\ MaxCalls \in Nat

Upward == {"mutate", "location", "device_response"}
Downward == {"bootstrap", "device_request", "run", "position", "error"}
Messages(types) ==
  [type : types, call : 0 .. MaxCalls, of : SUBSET (Host!Mounts \X (0 .. MaxCalls))]
Servings ==
  [at : {Host!Idle, "checking", "reading", "waiting", "closed"}, call : 0 .. MaxCalls,
   device : {Host!Idle, "asked", "failed", "found"},
   got : SUBSET (Host!Mounts \X (0 .. MaxCalls)), asking : 0 .. MaxCalls]
Views == [at : {"unborn", "ticket", "connecting", "open", "closed"}, win : SUBSET Windows,
          calls : 0 .. MaxCalls, asked : 0 .. MaxCalls, locating : 0 .. MaxCalls]

(* The answer of a device carries no position but that of the request it   *)
(* names, and an answer to a frame nothing but what the frame asked for.   *)
Sound(m, msg) ==
  /\ msg.type = "device_response" => msg.of \subseteq {<<m, msg.call>>}
  /\ msg.type \in {"run", "position"} => msg.of = {<<m, msg.call>>}
Lines(wire, types) ==
  /\ wire \in [Host!Mounts -> Seq(Messages(types))]
  /\ \A m \in Host!Mounts : \A i \in 1 .. Len(wire[m]) : Sound(m, wire[m][i])

(* A position that was found is that of the request waited for; the key of *)
(* a Run names the call that made it.                                      *)
Served ==
  \A m \in Host!Mounts :
    serving[m].device = "found" => serving[m].got = {<<m, serving[m].asking>>}
Keyed == \A run \in runs : run.by = run.key

HInv ==
  /\ mount \in [Host!Mounts -> Views] /\ serving \in [Host!Mounts -> Servings]
  /\ Lines(up, Upward) /\ Lines(down, Downward) /\ Served /\ Keyed /\ Host!AnsweredForAsker

-----------------------------------------------------------------------------
LEMMA Msgs ==
  ASSUME NEW types, NEW type \in types, NEW call \in 0 .. MaxCalls,
         NEW of \in SUBSET (Host!Mounts \X (0 .. MaxCalls))
  PROVE  /\ Host!Msg(type, call, of) \in Messages(types) /\ Host!Msg(type, call, of).type = type
         /\ Host!Msg(type, call, of).call = call /\ Host!Msg(type, call, of).of = of
BY DEF Host!Msg, Messages

LEMMA Appended ==
  ASSUME NEW types, NEW wire, NEW next, Lines(wire, types), NEW m \in Host!Mounts,
         NEW msg \in Messages(types), Sound(m, msg),
         next = [wire EXCEPT ![m] = Append(@, msg)]
  PROVE  Lines(next, types)
<1>1. wire[m] \in Seq(Messages(types)) BY DEF Lines
<1> DEFINE line == Append(wire[m], msg)
<1>2. /\ line \in Seq(Messages(types)) /\ Len(line) = Len(wire[m]) + 1
      /\ line[Len(wire[m]) + 1] = msg
      /\ \A i \in 1 .. Len(wire[m]) : line[i] = wire[m][i]
  BY <1>1, AppendProperties
<1>3. next = [wire EXCEPT ![m] = line] BY DEF Lines
<1> HIDE DEF line
<1>4. next \in [Host!Mounts -> Seq(Messages(types))] BY <1>2, <1>3 DEF Lines
<1>5. ASSUME NEW k \in Host!Mounts, NEW i \in 1 .. Len(next[k]) PROVE Sound(k, next[k][i])
  <2>1. CASE k # m BY <1>3, <1>5, <2>1 DEF Lines
  <2>2. CASE k = m
    <3>1. next[k] = line BY <1>3, <2>2 DEF Lines
    <3>2. Len(wire[m]) \in Nat BY <1>1, LenProperties
    <3>3. i = Len(wire[m]) + 1 \/ i \in 1 .. Len(wire[m]) BY <1>2, <1>5, <3>1, <3>2
    <3> QED BY <1>2, <2>2, <3>1, <3>3 DEF Lines
  <2> QED BY <2>1, <2>2
<1> QED BY <1>4, <1>5 DEF Lines

LEMMA Taken ==
  ASSUME NEW types, NEW wire, NEW next, Lines(wire, types), NEW m \in Host!Mounts,
         wire[m] # <<>>,
         next = [wire EXCEPT ![m] = Tail(@)]
  PROVE  Lines(next, types) /\ Head(wire[m]) \in Messages(types) /\ Sound(m, Head(wire[m]))
<1>1. wire[m] \in Seq(Messages(types)) BY DEF Lines
<1> DEFINE line == Tail(wire[m])
<1>2. /\ Head(wire[m]) \in Messages(types) /\ line \in Seq(Messages(types))
      /\ Len(line) = Len(wire[m]) - 1
      /\ \A i \in 1 .. Len(line) : line[i] = wire[m][i + 1]
  BY <1>1, HeadTailProperties
<1>3. Len(wire[m]) \in Nat /\ Len(wire[m]) # 0 /\ Head(wire[m]) = wire[m][1]
  BY <1>1, LenProperties, EmptySeq
<1>4. next = [wire EXCEPT ![m] = line] BY DEF Lines
<1> HIDE DEF line
<1>5. next \in [Host!Mounts -> Seq(Messages(types))] BY <1>2, <1>4 DEF Lines
<1>6. ASSUME NEW k \in Host!Mounts, NEW i \in 1 .. Len(next[k]) PROVE Sound(k, next[k][i])
  <2>1. CASE k # m BY <1>4, <1>6, <2>1 DEF Lines
  <2>2. CASE k = m
    <3>1. next[k] = line BY <1>4, <2>2 DEF Lines
    <3>2. i \in 1 .. Len(line) /\ i + 1 \in 1 .. Len(wire[m]) BY <1>2, <1>3, <1>6, <3>1
    <3> QED BY <1>2, <2>2, <3>1, <3>2 DEF Lines
  <2> QED BY <2>1, <2>2
<1>7. Sound(m, wire[m][1]) BY <1>3 DEF Lines
<1> QED BY <1>2, <1>3, <1>5, <1>6, <1>7 DEF Lines

LEMMA Emptied ==
  ASSUME NEW types, NEW wire, NEW next, Lines(wire, types), NEW m \in Host!Mounts,
         next = [wire EXCEPT ![m] = <<>>]
  PROVE  Lines(next, types)
<1>1. next \in [Host!Mounts -> Seq(Messages(types))] BY EmptySeq DEF Lines
<1>2. ASSUME NEW k \in Host!Mounts, NEW i \in 1 .. Len(next[k]) PROVE Sound(k, next[k][i])
  <2>1. CASE k # m BY <1>2, <2>1 DEF Lines
  <2>2. CASE k = m
    <3>1. next[k] = <<>> /\ Len(next[k]) = 0 BY <2>2, EmptySeq DEF Lines
    <3> QED BY <1>2, <3>1
  <2> QED BY <2>1, <2>2
<1> QED BY <1>1, <1>2 DEF Lines

(* The client's view of a session, and what the backend does for it.       *)
LEMMA Viewed ==
  ASSUME mount \in [Host!Mounts -> Views], NEW m \in Host!Mounts, NEW new \in Views,
         mount' = [mount EXCEPT ![m] = new]
  PROVE  mount' \in [Host!Mounts -> Views]
OBVIOUS

LEMMA ServedOn ==
  ASSUME serving \in [Host!Mounts -> Servings], Served, NEW m \in Host!Mounts,
         NEW new \in Servings,
         new.device = "found" => new.got = {<<m, new.asking>>},
         serving' = [serving EXCEPT ![m] = new]
  PROVE  serving' \in [Host!Mounts -> Servings] /\ Served'
BY DEF Served

LEMMA Whole ==
  ASSUME mount' \in [Host!Mounts -> Views], serving' \in [Host!Mounts -> Servings], Lines(up',
         Upward),
         Lines(down', Downward), Served', Keyed', Host!AnsweredForAsker'
  PROVE  HInv'
BY DEF HInv, Lines

(* What a step leaves alone stays as it was.                               *)
LEMMA Left ==
  ASSUME HInv
  PROVE  /\ UNCHANGED mount => mount' \in [Host!Mounts -> Views]
         /\ UNCHANGED serving => serving' \in [Host!Mounts -> Servings] /\ Served'
         /\ UNCHANGED up => Lines(up', Upward)
         /\ UNCHANGED down => Lines(down', Downward)
         /\ UNCHANGED runs => Keyed'
         /\ UNCHANGED answered => Host!AnsweredForAsker'
BY DEF HInv, Lines, Served, Keyed, Host!AnsweredForAsker

(* An answer of the backend reaches the client or is dropped.              *)
LEMMA Sent ==
  ASSUME HInv, NEW m \in Host!Mounts, NEW msg \in Messages(Downward), Sound(m, msg),
         Host!SendDown(m, msg)
  PROVE  Lines(down', Downward)
<1>1. CASE m \in sessions
  <2>1. down' = [down EXCEPT ![m] = Append(@, msg)] BY <1>1 DEF Host!SendDown
  <2> QED BY <2>1, Appended DEF HInv
<1>2. CASE m \notin sessions
  <2>1. down' = down BY <1>2 DEF Host!SendDown, HInv, Lines
  <2> QED BY <2>1, Left
<1> QED BY <1>1, <1>2

LEMMA MountKeeps ==
  ASSUME Numbers, HInv, NEW m \in Host!Mounts, NEW w \in Windows, Host!Mount(m, w)
  PROVE  HInv'
<1> DEFINE view == [mount[m] EXCEPT !.at = "ticket"]
           new == [view EXCEPT !.win = {w}]
<1>1. mount[m] \in Views BY DEF HInv
<1>2. view \in Views BY <1>1 DEF Views
<1>3. new \in Views BY <1>2 DEF Views
<1>4. mount' = [mount EXCEPT ![m] = new] BY DEF Host!Mount
<1> HIDE DEF new
<1>5. mount' \in [Host!Mounts -> Views] BY <1>3, <1>4, Viewed DEF HInv
<1> QED BY <1>5, Left, Whole DEF Host!Mount, Host!wires

LEMMA ConnectKeeps ==
  ASSUME Numbers, HInv, NEW m \in Host!Mounts, Host!Connect(m)
  PROVE  HInv'
<1> DEFINE view(at) == [mount[m] EXCEPT !.at = at]
           task == [serving[m] EXCEPT !.at = "checking"]
<1>1. mount[m] \in Views /\ serving[m] \in Servings BY DEF HInv
<1>2. view("connecting") \in Views /\ view("closed") \in Views BY <1>1 DEF Views
<1>3. task \in Servings /\ task.device = serving[m].device /\ task.got = serving[m].got
      /\ task.asking = serving[m].asking
  BY <1>1 DEF Servings
<1>4. \/ /\ mount' = [mount EXCEPT ![m] = view("connecting")]
         /\ serving' = [serving EXCEPT ![m] = task]
      \/ mount' = [mount EXCEPT ![m] = view("closed")] /\ UNCHANGED serving
  BY DEF Host!Connect
<1> HIDE DEF view, task
<1>5. mount' \in [Host!Mounts -> Views] BY <1>2, <1>4, Viewed DEF HInv
<1>6. serving[m].device = "found" => serving[m].got = {<<m, serving[m].asking>>}
  BY DEF HInv, Served
<1>7. serving' \in [Host!Mounts -> Servings] /\ Served'
  BY <1>3, <1>4, <1>6, ServedOn, Left DEF HInv
<1> QED BY <1>5, <1>7, Left, Whole DEF Host!Connect, Host!wires

LEMMA AcceptKeeps ==
  ASSUME Numbers, HInv, NEW m \in Host!Mounts, Host!Accept(m)
  PROVE  HInv'
<1> DEFINE view == [mount[m] EXCEPT !.at = "closed"]
           task(at) == [serving[m] EXCEPT !.at = at]
           msg == Host!Msg("bootstrap", Host!NoCall, {})
<1>1. mount[m] \in Views /\ serving[m] \in Servings BY DEF HInv
<1>2. view \in Views BY <1>1 DEF Views
<1>3. \A at \in {"reading", "closed"} :
        /\ task(at) \in Servings /\ task(at).device = serving[m].device
        /\ task(at).got = serving[m].got /\ task(at).asking = serving[m].asking
  BY <1>1 DEF Servings
<1>4. \/ /\ serving' = [serving EXCEPT ![m] = task("reading")] /\ UNCHANGED mount
         /\ down' = [down EXCEPT ![m] = <<msg>>]
      \/ /\ serving' = [serving EXCEPT ![m] = task("closed")]
         /\ mount' = [mount EXCEPT ![m] = view]
         /\ UNCHANGED down
  BY DEF Host!Accept
<1>5. msg \in Messages(Downward) /\ Sound(m, msg)
  <2>1. Host!NoCall \in 0 .. MaxCalls BY DEF Numbers, Host!NoCall
  <2>2. {} \in SUBSET (Host!Mounts \X (0 .. MaxCalls)) /\ "bootstrap" \in Downward
    BY DEF Downward
  <2>3. msg \in Messages(Downward) /\ msg.type = "bootstrap" BY <2>1, <2>2, Msgs
  <2> HIDE DEF msg
  <2> QED BY <2>3 DEF Sound
<1> HIDE DEF view, task, msg
<1>6. mount' \in [Host!Mounts -> Views] BY <1>2, <1>4, Viewed, Left DEF HInv
<1>7. serving[m].device = "found" => serving[m].got = {<<m, serving[m].asking>>}
  BY DEF HInv, Served
<1>8. serving' \in [Host!Mounts -> Servings] /\ Served' BY <1>3, <1>4, <1>7, ServedOn DEF HInv
<1>9. Lines(down', Downward)
  <2>1. CASE UNCHANGED down BY <2>1, Left
  <2>2. CASE down' = [down EXCEPT ![m] = <<msg>>]
    <3> DEFINE none == [down EXCEPT ![m] = <<>>]
    <3>1. Lines(none, Downward) BY Emptied DEF HInv
    <3>2. <<msg>> = Append(<<>>, msg) OBVIOUS
    <3>3. none[m] = <<>> /\ down' = [none EXCEPT ![m] = Append(@, msg)]
      BY <2>2, <3>2 DEF HInv, Lines
    <3> HIDE DEF none
    <3> QED BY <1>5, <3>1, <3>3, Appended
  <2> QED BY <1>4, <2>1, <2>2
<1> QED BY <1>6, <1>8, <1>9, Left, Whole DEF Host!Accept

LEMMA CallKeeps ==
  ASSUME Numbers, HInv, NEW m \in Host!Mounts, NEW type \in {"mutate", "location"}, Host!Call(m,
         type)
  PROVE  HInv'
<1> DEFINE r == mount[m].calls + 1
           counted == [mount[m] EXCEPT !.calls = r]
           asking == [counted EXCEPT !.asked = r]
           msg == Host!Msg(type, r, {})
<1>1. mount[m] \in Views BY DEF HInv
<1>2. r \in 0 .. MaxCalls BY <1>1 DEF Views, Host!Call, Numbers
<1>3. counted \in Views BY <1>1, <1>2 DEF Views
<1>4. asking \in Views
  <2> HIDE DEF counted, r
  <2> QED BY <1>2, <1>3 DEF Views
<1>5. msg \in Messages(Upward) /\ Sound(m, msg)
  <2>1. {} \in SUBSET (Host!Mounts \X (0 .. MaxCalls)) /\ type \in Upward
    BY DEF Upward
  <2>2. msg \in Messages(Upward) /\ msg.type = type
    <3> HIDE DEF r
    <3> QED BY <1>2, <2>1, Msgs
  <2> HIDE DEF msg
  <2> QED BY <2>2 DEF Sound
<1>6. mount' = [mount EXCEPT ![m] = counted] \/ mount' = [mount EXCEPT ![m] = asking]
  BY DEF Host!Call, HInv, Views
<1>7. UNCHANGED up \/ up' = [up EXCEPT ![m] = Append(@, msg)]
  BY DEF Host!Call, Host!SendUp
<1> HIDE DEF counted, asking, msg
<1>8. mount' \in [Host!Mounts -> Views] BY <1>3, <1>4, <1>6, Viewed DEF HInv
<1>9. Lines(up', Upward) BY <1>5, <1>7, Appended, Left DEF HInv
<1> QED BY <1>8, <1>9, Left, Whole DEF Host!Call, Host!backend

LEMMA LocatedKeeps ==
  ASSUME Numbers, HInv, NEW m \in Host!Mounts, Host!Located(m)
  PROVE  HInv'
<1> DEFINE new == [mount[m] EXCEPT !.locating = Host!NoCall]
           call == mount[m].locating
<1>1. mount[m] \in Views BY DEF HInv
<1>2. new \in Views /\ call \in 0 .. MaxCalls BY <1>1 DEF Views, Host!NoCall, Numbers
<1>3. mount' = [mount EXCEPT ![m] = new] BY DEF Host!Located
<1>4. PICK of \in {{}, {<<m, call>>}} :
        up' = [up EXCEPT ![m] = Append(@, Host!Msg("device_response", call, of))]
  BY DEF Host!Located, Host!SendUp
<1> HIDE DEF new, call
<1>5. of \in SUBSET (Host!Mounts \X (0 .. MaxCalls)) BY <1>2
<1>6. /\ Host!Msg("device_response", call, of) \in Messages(Upward)
      /\ Sound(m, Host!Msg("device_response", call, of))
  <2> DEFINE msg == Host!Msg("device_response", call, of)
  <2>1. "device_response" \in Upward BY DEF Upward
  <2>2. /\ msg \in Messages(Upward) /\ msg.type = "device_response"
        /\ msg.call = call /\ msg.of = of
    BY <1>2, <1>5, <2>1, Msgs
  <2> HIDE DEF msg
  <2>3. of \subseteq {<<m, msg.call>>} BY <1>4, <2>2
  <2>4. Sound(m, msg) BY <2>2, <2>3 DEF Sound
  <2> QED BY <2>2, <2>4 DEF msg
<1>7. mount' \in [Host!Mounts -> Views] BY <1>2, <1>3, Viewed DEF HInv
<1>8. Lines(up', Upward) BY <1>4, <1>6, Appended DEF HInv
<1> QED BY <1>7, <1>8, Left, Whole DEF Host!Located, Host!backend

LEMMA ClientReceiveKeeps ==
  ASSUME Numbers, HInv, NEW m \in Host!Mounts, Host!ClientReceive(m)
  PROVE  HInv'
<1> DEFINE msg == Head(down[m])
           opened == [mount[m] EXCEPT !.at = "open"]
           asked == IF mount[m].asked = msg.call THEN Host!NoCall ELSE mount[m].asked
           located == IF mount[m].locating = Host!NoCall /\ mount[m].asked = msg.call
                      THEN msg.call ELSE mount[m].locating
           settled == [mount[m] EXCEPT !.asked = asked]
           locating == [settled EXCEPT !.locating = located]
           refusal == Host!Msg("device_response", msg.call, {})
<1>1. mount[m] \in Views BY DEF HInv
<1>2. Lines(down', Downward) /\ msg \in Messages(Downward) /\ Sound(m, msg)
  BY Taken DEF HInv, Host!ClientReceive
<1>3. msg.call \in 0 .. MaxCalls /\ Host!NoCall \in 0 .. MaxCalls
  BY <1>2 DEF Messages, Host!NoCall, Numbers
<1>4. opened \in Views /\ settled \in Views BY <1>1, <1>3 DEF Views
<1>5. locating \in Views BY <1>3, <1>4 DEF Views
<1>6. refusal \in Messages(Upward) /\ Sound(m, refusal) BY <1>3, Msgs DEF Sound, Upward
<1>7. \/ mount' = [mount EXCEPT ![m] = opened] /\ UNCHANGED <<up, answered>>
      \/ /\ mount' = [mount EXCEPT ![m] = locating] /\ UNCHANGED answered
         /\ UNCHANGED up \/ up' = [up EXCEPT ![m] = Append(@, refusal)]
      \/ /\ mount' = [mount EXCEPT ![m] = settled] /\ answered' = answered \cup {<<m, msg>>}
         /\ UNCHANGED up
  <2>1. CASE msg.type = "bootstrap" BY <2>1 DEF Host!ClientReceive
  <2>2. CASE msg.type = "device_request"
    <3>1. mount' = [mount EXCEPT ![m].asked = asked, ![m].locating = located]
      BY <2>2 DEF Host!ClientReceive
    <3>2. mount' = [mount EXCEPT ![m] = locating]
      <4> HIDE DEF asked, located
      <4> QED BY <1>1, <3>1 DEF HInv
    <3>3. UNCHANGED answered /\ (UNCHANGED up \/ up' = [up EXCEPT ![m] = Append(@, refusal)])
      BY <2>2 DEF Host!ClientReceive, Host!SendUp
    <3> QED BY <3>2, <3>3
  <2>3. CASE msg.type \in {"run", "position", "error"} BY <2>3 DEF Host!ClientReceive
  <2> QED BY <1>2, <2>1, <2>2, <2>3 DEF Messages, Downward
<1> HIDE DEF msg, asked, located, opened, settled, locating, refusal
<1>8. mount' \in [Host!Mounts -> Views] BY <1>4, <1>5, <1>7, Viewed DEF HInv
<1>9. Lines(up', Upward) BY <1>6, <1>7, Appended, Left DEF HInv
<1>10. Host!AnsweredForAsker'
  <2>1. CASE UNCHANGED answered BY <2>1, Left
  <2>2. CASE answered' = answered \cup {<<m, msg>>}
    BY <1>2, <2>2 DEF HInv, Host!AnsweredForAsker, Sound
  <2> QED BY <1>7, <2>1, <2>2
<1> QED BY <1>2, <1>8, <1>9, <1>10, Left, Whole DEF Host!ClientReceive, Host!backend

LEMMA DisposeKeeps ==
  ASSUME Numbers, HInv, NEW m \in Host!Mounts, Host!Dispose(m)
  PROVE  HInv'
<1> DEFINE view == [mount[m] EXCEPT !.at = "closed"]
           heard == [view EXCEPT !.asked = Host!NoCall]
           new == [heard EXCEPT !.locating = Host!NoCall]
<1>1. mount' = [mount EXCEPT ![m] = new] BY DEF Host!Dispose
<1>2. view \in Views BY DEF HInv, Views
<1> HIDE DEF view
<1>3. heard \in Views BY <1>2 DEF Views, Host!NoCall, Numbers
<1> HIDE DEF heard
<1>5. new \in Views BY <1>3 DEF Views, Host!NoCall, Numbers
<1> HIDE DEF new
<1>4. mount' \in [Host!Mounts -> Views] BY <1>1, <1>5, Viewed DEF HInv
<1>6. Lines(down', Downward) BY Emptied DEF Host!Dispose, HInv
<1> QED BY <1>4, <1>6, Left, Whole DEF Host!Dispose, Host!backend

-----------------------------------------------------------------------------
LEMMA ReceiveKeeps ==
  ASSUME Numbers, HInv, NEW m \in Host!Mounts, Host!Receive(m)
  PROVE  HInv'
<1> DEFINE msg == Head(up[m])
           task == serving[m]
<1>1. Lines(up', Upward) /\ msg \in Messages(Upward) /\ Sound(m, msg)
  BY Taken DEF HInv, Host!Receive
<1>2. /\ msg.call \in 0 .. MaxCalls /\ msg.of \in SUBSET (Host!Mounts \X (0 .. MaxCalls))
      /\ msg.type \in Upward
  BY <1>1 DEF Messages
<1>3. /\ task \in Servings
      /\ task.device = "found" => task.got = {<<m, task.asking>>}
  BY DEF HInv, Served
<1>4. UNCHANGED <<mount, answered>> BY DEF Host!Receive, Host!client
<1>5. ASSUME serving' \in [Host!Mounts -> Servings] /\ Served' /\ Lines(down', Downward),
             Keyed'
      PROVE  HInv'
  BY <1>1, <1>4, <1>5, Left, Whole
<1>6. CASE /\ serving' = [serving EXCEPT ![m].at = "waiting", ![m].call = msg.call]
           /\ \/ runs' = runs
              \/ runs' = runs \cup {[key |-> Host!RunKey(m, msg.call), by |-> <<m, msg.call>>]}
           /\ UNCHANGED down
  <2> DEFINE stage == [task EXCEPT !.at = "waiting"]
             new == [stage EXCEPT !.call = msg.call]
  <2>1. serving' = [serving EXCEPT ![m] = new] BY <1>6
  <2>2. /\ stage \in Servings /\ stage.device = task.device /\ stage.got = task.got
        /\ stage.asking = task.asking
    BY <1>3 DEF Servings
  <2> HIDE DEF stage
  <2>3. /\ new \in Servings /\ new.device = task.device /\ new.got = task.got
        /\ new.asking = task.asking
    BY <1>2, <2>2 DEF Servings
  <2> HIDE DEF new, task
  <2>4. serving' \in [Host!Mounts -> Servings] /\ Served' BY <1>3, <2>1, <2>3, ServedOn DEF HInv
  <2>5. Keyed' BY <1>6 DEF HInv, Keyed, Host!RunKey
  <2> QED BY <1>5, <1>6, <2>4, <2>5, Left
<1>7. CASE Host!SendDown(m, Host!Msg("error", msg.call, {})) /\ UNCHANGED <<serving, runs>>
  <2>1. /\ Host!Msg("error", msg.call, {}) \in Messages(Downward)
        /\ Sound(m, Host!Msg("error", msg.call, {}))
    BY <1>2, Msgs DEF Sound, Downward
  <2> QED BY <1>5, <1>7, <2>1, Sent, Left
<1>8. CASE /\ serving' = [serving EXCEPT ![m].device = "asked", ![m].asking = msg.call]
           /\ Host!SendDown(m, Host!Msg("device_request", msg.call, {})) /\ UNCHANGED runs
  <2> DEFINE stage == [task EXCEPT !.device = "asked"]
             new == [stage EXCEPT !.asking = msg.call]
  <2>1. serving' = [serving EXCEPT ![m] = new] BY <1>8
  <2>2. stage \in Servings /\ stage.device = "asked" BY <1>3 DEF Servings
  <2> HIDE DEF stage
  <2>3. new \in Servings /\ new.device = "asked" BY <1>2, <2>2 DEF Servings
  <2> HIDE DEF new
  <2>4. serving' \in [Host!Mounts -> Servings] /\ Served' BY <2>1, <2>3, ServedOn DEF HInv
  <2>5. /\ Host!Msg("device_request", msg.call, {}) \in Messages(Downward)
        /\ Sound(m, Host!Msg("device_request", msg.call, {}))
    BY <1>2, Msgs DEF Sound, Downward
  <2>6. Lines(down', Downward) BY <1>8, <2>5, Sent
  <2> QED BY <1>5, <1>8, <2>4, <2>6, Left
<1>9. CASE UNCHANGED <<serving, down, runs>>
  BY <1>5, <1>9, Left
<1>10. CASE /\ msg.type = "device_response" /\ task.asking = msg.call
            /\ serving' = [serving EXCEPT ![m].device = IF msg.of = {} THEN "failed" ELSE "found",
                                         ![m].got = msg.of]
            /\ UNCHANGED <<down, runs>>
  <2> DEFINE device == IF msg.of = {} THEN "failed" ELSE "found"
             stage == [task EXCEPT !.device = device]
             new == [stage EXCEPT !.got = msg.of]
  <2>1. serving' = [serving EXCEPT ![m] = new] BY <1>10
  <2>2. stage \in Servings /\ stage.device = device /\ stage.asking = task.asking
    BY <1>3 DEF Servings
  <2> HIDE DEF stage
  <2>3. /\ new \in Servings /\ new.device = device /\ new.asking = task.asking
        /\ new.got = msg.of
    BY <1>2, <2>2 DEF Servings
  <2> HIDE DEF new
  <2>4. device = "found" => msg.of = {<<m, task.asking>>}
    <3>1. msg.of \subseteq {<<m, task.asking>>} BY <1>1, <1>10 DEF Sound
    <3> QED BY <3>1
  <2> HIDE DEF task, device
  <2>5. serving' \in [Host!Mounts -> Servings] /\ Served' BY <2>1, <2>3, <2>4, ServedOn DEF HInv
  <2> QED BY <1>5, <1>10, <2>5, Left
<1> QED BY <1>6, <1>7, <1>8, <1>9, <1>10 DEF Host!Receive

LEMMA AnswerKeeps ==
  ASSUME Numbers, HInv, NEW m \in Host!Mounts, Host!Answer(m)
  PROVE  HInv'
<1> DEFINE task == serving[m]
           stage == [task EXCEPT !.at = "reading"]
           new == [stage EXCEPT !.call = Host!NoCall]
<1>1. /\ task \in Servings
      /\ task.device = "found" => task.got = {<<m, task.asking>>}
  BY DEF HInv, Served
<1>2. serving' = [serving EXCEPT ![m] = new] BY DEF Host!Answer
<1>3. /\ stage \in Servings /\ stage.device = task.device /\ stage.got = task.got
      /\ stage.asking = task.asking
  BY <1>1 DEF Servings
<1> HIDE DEF stage
<1>4. /\ new \in Servings /\ new.device = task.device /\ new.got = task.got
      /\ new.asking = task.asking
  BY <1>3 DEF Servings, Host!NoCall, Numbers
<1> HIDE DEF new
<1>5. serving' \in [Host!Mounts -> Servings] /\ Served' BY <1>1, <1>2, <1>4, ServedOn DEF HInv
<1>6. PICK run \in runs, ended \in BOOLEAN :
        /\ run.key = Host!RunKey(m, task.call)
        /\ Host!SendDown(m, Host!Msg(IF ended THEN "run" ELSE "error", task.call,
                                     IF ended THEN {run.by} ELSE {}))
  BY DEF Host!Answer
<1>7. run.by = <<m, task.call>> BY <1>6 DEF HInv, Keyed, Host!RunKey
<1>8. task.call \in 0 .. MaxCalls BY <1>1 DEF Servings
<1> HIDE DEF task
<1>9. CASE ended
  <2> DEFINE msg == Host!Msg("run", task.call, {<<m, task.call>>})
  <2>1. msg \in Messages(Downward) /\ Sound(m, msg) BY <1>8, Msgs DEF Sound, Downward
  <2>2. Host!SendDown(m, msg) BY <1>6, <1>7, <1>9
  <2> HIDE DEF msg
  <2> QED BY <1>5, <2>1, <2>2, Sent, Left, Whole DEF Host!Answer, Host!client
<1>10. CASE ~ended
  <2> DEFINE msg == Host!Msg("error", task.call, {})
  <2>1. msg \in Messages(Downward) /\ Sound(m, msg) BY <1>8, Msgs DEF Sound, Downward
  <2>2. Host!SendDown(m, msg) BY <1>6, <1>10
  <2> HIDE DEF msg
  <2> QED BY <1>5, <2>1, <2>2, Sent, Left, Whole DEF Host!Answer, Host!client
<1> QED BY <1>9, <1>10

LEMMA DeviceTimeoutKeeps ==
  ASSUME Numbers, HInv, NEW m \in Host!Mounts, Host!DeviceTimeout(m)
  PROVE  HInv'
<1> DEFINE new == [serving[m] EXCEPT !.device = "failed"]
<1>1. new \in Servings /\ new.device = "failed" BY DEF HInv, Servings
<1>2. serving' = [serving EXCEPT ![m] = new] BY DEF Host!DeviceTimeout
<1> HIDE DEF new
<1>3. serving' \in [Host!Mounts -> Servings] /\ Served' BY <1>1, <1>2, ServedOn DEF HInv
<1> QED BY <1>3, Left, Whole DEF Host!DeviceTimeout, Host!client, Host!wires

LEMMA SettleKeeps ==
  ASSUME Numbers, HInv, NEW m \in Host!Mounts, Host!Settle(m)
  PROVE  HInv'
<1> DEFINE task == serving[m]
           idle == [task EXCEPT !.device = Host!Idle]
           bare == [idle EXCEPT !.got = {}]
           new == [bare EXCEPT !.asking = Host!NoCall]
<1>1. /\ task \in Servings
      /\ task.device = "found" => task.got = {<<m, task.asking>>}
  BY DEF HInv, Served
<1>2. serving' = [serving EXCEPT ![m] = new] BY DEF Host!Settle
<1>3. idle \in Servings /\ idle.device = Host!Idle BY <1>1 DEF Servings
<1> HIDE DEF idle
<1>4. bare \in Servings /\ bare.device = Host!Idle BY <1>3 DEF Servings
<1> HIDE DEF bare
<1>5. new \in Servings /\ new.device = Host!Idle BY <1>4 DEF Servings, Host!NoCall, Numbers
<1> HIDE DEF new
<1>6. Host!Idle # "found" BY DEF Host!Idle
<1>7. serving' \in [Host!Mounts -> Servings] /\ Served' BY <1>2, <1>5, <1>6, ServedOn DEF HInv
<1>8. \/ Host!SendDown(m, Host!Msg("error", task.asking, {}))
      \/ task.device = "found" /\ Host!SendDown(m, Host!Msg("position", task.asking, task.got))
  BY DEF Host!Settle
<1>9. task.asking \in 0 .. MaxCalls /\ task.got \in SUBSET (Host!Mounts \X (0 .. MaxCalls))
  BY <1>1 DEF Servings
<1> HIDE DEF task
<1>10. /\ Host!Msg("error", task.asking, {}) \in Messages(Downward)
       /\ Sound(m, Host!Msg("error", task.asking, {}))
  BY <1>9, Msgs DEF Sound, Downward
<1>11. task.device = "found" =>
         /\ Host!Msg("position", task.asking, task.got) \in Messages(Downward)
         /\ Sound(m, Host!Msg("position", task.asking, task.got))
  BY <1>1, <1>9, Msgs DEF Sound, Downward
<1>12. Lines(down', Downward) BY <1>8, <1>10, <1>11, Sent
<1> QED BY <1>7, <1>12, Left, Whole DEF Host!Settle, Host!client

LEMMA HangupKeeps ==
  ASSUME Numbers, HInv, NEW m \in Host!Mounts, Host!Hangup(m)
  PROVE  HInv'
<1> DEFINE view == [mount[m] EXCEPT !.at = "closed"]
           heard == [view EXCEPT !.asked = Host!NoCall]
           shut == [heard EXCEPT !.locating = Host!NoCall]
           new == [Host!Free EXCEPT !.at = "closed"]
<1>1. mount' = mount \/ mount' = [mount EXCEPT ![m] = shut] BY DEF Host!Hangup
<1>2. view \in Views BY DEF HInv, Views
<1> HIDE DEF view
<1>3. heard \in Views BY <1>2 DEF Views, Host!NoCall, Numbers
<1> HIDE DEF heard
<1>4. shut \in Views BY <1>3 DEF Views, Host!NoCall, Numbers
<1> HIDE DEF shut
<1>5. mount' \in [Host!Mounts -> Views] BY <1>1, <1>4, Viewed, Left DEF HInv
<1>6. new \in Servings /\ new.device # "found"
  BY DEF Servings, Host!Free, Host!Idle, Host!NoCall, Numbers
<1>7. serving' = [serving EXCEPT ![m] = new] BY DEF Host!Hangup
<1> HIDE DEF new
<1>8. serving' \in [Host!Mounts -> Servings] /\ Served' BY <1>6, <1>7, ServedOn DEF HInv
<1>9. Lines(up', Upward) /\ Lines(down', Downward) BY Emptied DEF Host!Hangup, HInv
<1> QED BY <1>5, <1>8, <1>9, Left, Whole DEF Host!Hangup

-----------------------------------------------------------------------------
(* It holds at first, and every step keeps it.                             *)
LEMMA HInvInit ==
  ASSUME Numbers, Host!Init
  PROVE  HInv
<1>1. Host!Unborn \in Views /\ Host!Free \in Servings /\ Host!Free.device # "found"
  BY DEF Host!Unborn, Host!Free, Views, Servings, Host!Idle, Host!NoCall, Numbers
<1>2. mount \in [Host!Mounts -> Views] /\ serving \in [Host!Mounts -> Servings] /\ Served
  BY <1>1 DEF Host!Init, Served
<1>3. ASSUME NEW wire, NEW types, wire = [m \in Host!Mounts |-> <<>>] PROVE Lines(wire, types)
  BY <1>3, EmptySeq DEF Lines
<1> QED BY <1>2, <1>3 DEF Host!Init, HInv, Keyed, Host!AnsweredForAsker

LEMMA HInvStep ==
  ASSUME Numbers, HInv, [Host!Next]_(Host!vars)
  PROVE  HInv'
<1>1. CASE Host!Expire \/ Host!Update \/ UNCHANGED Host!vars
  BY <1>1, Left, Whole DEF Host!Expire, Host!Update, Host!vars, Host!client, Host!backend,
     Host!wires
<1>2. ASSUME NEW m \in Host!Mounts,
             \/ \E w \in Windows : Host!Mount(m, w)
             \/ \E type \in {"mutate", "location"} : Host!Call(m, type)
             \/ Host!Connect(m) \/ Host!Accept(m) \/ Host!Located(m) \/ Host!ClientReceive(m)
             \/ Host!Dispose(m)
             \/ Host!Receive(m) \/ Host!Answer(m) \/ Host!DeviceTimeout(m) \/ Host!Settle(m)
             \/ Host!Hangup(m)
      PROVE  HInv'
  BY <1>2, MountKeeps, CallKeeps, ConnectKeeps, AcceptKeeps, LocatedKeeps, ClientReceiveKeeps,
     DisposeKeeps, ReceiveKeeps, AnswerKeeps, DeviceTimeoutKeeps, SettleKeeps, HangupKeeps
<1> QED BY <1>1, <1>2 DEF Host!Next

LEMMA WidgetStep ==
  ASSUME [Next]_vars,
         component = "widget" PROVE component' = component /\ [Host!Next]_(Host!vars)
<1>1. CASE UNCHANGED vars
  BY <1>1 DEF vars, Host!vars, Host!client, Host!backend, Host!wires
<1>2. CASE Next
  <2>1. component' = component /\ Host!Next BY <1>2 DEF Next
  <2> QED BY <2>1
<1> QED BY <1>1, <1>2

(* A frame hears only of the Run that its own call made and of the         *)
(* position measured for it, across reconnections, late answers of the     *)
(* device and time limits (client_widget_runtime.py, main.py).             *)
THEOREM AlwaysAnsweredForAsker == ASSUME Numbers PROVE Spec => []AnsweredForAsker
<1> DEFINE Inv == component = "widget" => HInv
<1>1. Init => Inv
  <2> SUFFICES ASSUME Init, component = "widget" PROVE HInv OBVIOUS
  <2>1. Host!Init BY DEF Init
  <2> QED BY <2>1, HInvInit
<1>2. Inv /\ [Next]_vars => Inv'
  <2> SUFFICES ASSUME Inv, [Next]_vars, component' = "widget" PROVE HInv' OBVIOUS
  <2>1. component = "widget" BY DEF Next, vars
  <2>2. HInv BY <2>1
  <2> QED BY <2>1, <2>2, WidgetStep, HInvStep
<1>3. Inv => AnsweredForAsker BY DEF AnsweredForAsker, HInv
<1> QED BY <1>1, <1>2, <1>3, PTL DEF Spec
HIDE DEF app, tickets, issued, mount, sessions, serving, up, down, runs, answered

-----------------------------------------------------------------------------
(***************************************************************************)
(* A conversation, its Runs and its connections (ChatSessions), for any    *)
(* number of connections, messages, crashes and deletions.                 *)
(*                                                                         *)
(* Ids and Runs tell the messages of the file apart, so what is saved      *)
(* under an id replaces one message at most.  While a message awaits its   *)
(* acknowledgement no Run has its text yet, and unless a deleted file was  *)
(* written again the message itself is what its id finds.                  *)
(***************************************************************************)
conversation == v1
tab == v2
connected == v3
deleting == v4
unclosed == v5
chatRun == v6
revived == v7
sends == v8
boots == v9
deletes == v10
USE DEF conversation, tab, connected, deleting, unclosed, chatRun, revived,
        sends, boots, deletes

Titles == {"placeholder", "named"}
Rows == [id : Nat, role : {"user", "agent"}, run : 0 .. MaxSends, text : 0 .. MaxSends]
Files == [title : Titles, messages : Seq(Rows)]
Handlers == [pc : {"closed", "handshake", "open", "acking", "titling"}, shut : BOOLEAN,
             id : Nat, text : 0 .. MaxSends, title : Titles]
ChatRuns == [status : Chat!Active \cup {"none", "succeeded", "failed", "cancelled"}, key : Nat]
Chatting == MaxSends \in Nat /\ None \notin Files

KTyped ==
  /\ conversation \in Files \cup {None} /\ tab \in [Sockets -> Handlers]
  /\ chatRun \in [Chat!Posts -> ChatRuns] /\ sends \in 0 .. MaxSends
  /\ revived \in BOOLEAN /\ deleting \in BOOLEAN

(* Messages with the same id, or of an agent for the same Run, are one;    *)
(* and one of the ids, if there are any, is the highest.                   *)
Same(m, n) == m.id = n.id \/ (m.role = "agent" /\ n.role = "agent" /\ m.run = n.run)
Apart(ms) == \A i, j \in DOMAIN ms : Same(ms[i], ms[j]) => i = j
Highest(ms, top) ==
  /\ top \in Nat /\ top \in {ms[i].id : i \in DOMAIN ms} \cup {0}
  /\ \A i \in DOMAIN ms : ms[i].id <= top
Ordered(ms) == ms \in Seq(Rows) /\ Apart(ms) /\ \E top \in Nat : Highest(ms, top)
FileIsOrdered == conversation # None => Ordered(conversation.messages)

(* A handler that awaits its acknowledgement has the next Run to submit,   *)
(* and its message is in a conversation that was never deleted.            *)
Acking == {x \in Sockets : tab[x].pc = "acking"}
Awaits ==
  /\ \A x \in Acking :
       /\ tab[x].id # 0 /\ tab[x].text \in 1 .. sends
       /\ chatRun[tab[x].text].status = "none"
  /\ \A x, y \in Acking : tab[x].text = tab[y].text => x = y
  /\ \A t \in Chat!Posts : t > sends => chatRun[t].status = "none"
Waits ==
  ~revived /\ conversation # None =>
    \A x \in Acking :
      \E m \in Chat!Said : m.id = tab[x].id /\ m.role = "user" /\ m.text = tab[x].text

KInv ==
  /\ KTyped /\ FileIsOrdered /\ Awaits /\ Waits /\ Chat!TaskHasMessage /\ Chat!NoGhost
  /\ deleting => connected = {}

-----------------------------------------------------------------------------
(* What _save_message does to the messages of a file.                      *)
MessagesOf(ms) == {ms[i] : i \in DOMAIN ms}

LEMMA NextIdIs ==
  ASSUME NEW ms \in Seq(Rows), NEW top \in Nat, Highest(ms, top)
  PROVE  Chat!NextId(ms) = top + 1
<1> DEFINE S == {ms[i].id : i \in DOMAIN ms} \cup {0}
<1>1. \A i \in DOMAIN ms : ms[i] \in Rows BY ElementOfSeq, LenProperties
<1>2. S \in SUBSET Nat BY <1>1 DEF Rows
<1>3. top \in S /\ \A y \in S : top >= y BY <1>1, <1>2 DEF Highest
<1>4. Chat!NextId(ms) = 1 + Chat!Max(S) BY DEF Chat!NextId
<1> HIDE DEF S
<1>5. \E x \in S : \A y \in S : x >= y BY <1>3
<1>6. Chat!Max(S) \in S /\ \A y \in S : Chat!Max(S) >= y BY <1>5 DEF Chat!Max
<1>7. Chat!Max(S) \in Nat /\ Chat!Max(S) >= top /\ top >= Chat!Max(S) BY <1>2, <1>3, <1>6
<1> QED BY <1>4, <1>7

LEMMA MinOne == \A i \in Nat : Chat!Min({i}) = i
<1> TAKE i \in Nat
<1>1. \E x \in {i} : \A y \in {i} : x <= y OBVIOUS
<1>2. Chat!Min({i}) \in {i} BY <1>1 DEF Chat!Min
<1> QED BY <1>2

(* A message takes the place of the one with its id ...                    *)
LEMMA Replaced ==
  ASSUME NEW ms, Ordered(ms), NEW j \in DOMAIN ms, NEW row \in Rows, row.id = ms[j].id,
         row.role = "agent" => ms[j].role = "agent" /\ ms[j].run = row.run,
         NEW next, next = [ms EXCEPT ![j] = row]
  PROVE  /\ Ordered(next) /\ row \in MessagesOf(next)
         /\ \A m \in MessagesOf(ms) : m.id # row.id => m \in MessagesOf(next)
<1>1. ms \in Seq(Rows) /\ Len(ms) \in Nat /\ DOMAIN ms = 1 .. Len(ms)
  BY LenProperties DEF Ordered
<1>2. \A i \in DOMAIN ms : ms[i] \in Rows BY <1>1, ElementOfSeq
<1>3. /\ DOMAIN next = DOMAIN ms /\ next[j] = row
      /\ \A i \in DOMAIN ms : i # j => next[i] = ms[i]
  BY <1>1
<1>4. next \in Seq(Rows) BY <1>1, ExceptSeq
<1>5. Apart(next)
  <2> SUFFICES ASSUME NEW i \in DOMAIN ms, NEW k \in DOMAIN ms, Same(next[i], next[k])
               PROVE i = k
    BY <1>3 DEF Apart
  <2>1. Same(ms[i], ms[k])
    BY <1>3 DEF Same
  <2> QED BY <2>1 DEF Ordered, Apart
<1>6. PICK top \in Nat : Highest(ms, top) BY DEF Ordered
<1>7. \A i \in DOMAIN ms : next[i].id = ms[i].id BY <1>3
<1>8. Highest(next, top) BY <1>3, <1>6, <1>7 DEF Highest
<1>9. row \in MessagesOf(next) BY <1>3 DEF MessagesOf
<1>10. \A m \in MessagesOf(ms) : m.id # row.id => m \in MessagesOf(next)
  BY <1>3 DEF MessagesOf
<1> QED BY <1>4, <1>5, <1>8, <1>9, <1>10 DEF Ordered

(* ... or comes last.                                                      *)
LEMMA Added ==
  ASSUME NEW ms, Ordered(ms), NEW row \in Rows, \A i \in DOMAIN ms : ~Same(ms[i], row),
         NEW next, next = Append(ms, row)
  PROVE  Ordered(next) /\ row \in MessagesOf(next) /\ MessagesOf(ms) \subseteq MessagesOf(next)
<1>1. ms \in Seq(Rows) /\ Len(ms) \in Nat /\ DOMAIN ms = 1 .. Len(ms)
  BY LenProperties DEF Ordered
<1>2. \A i \in DOMAIN ms : ms[i] \in Rows BY <1>1, ElementOfSeq
<1> DEFINE n == Len(ms) + 1
<1>3. /\ next \in Seq(Rows) /\ Len(next) = n /\ next[n] = row
      /\ \A i \in 1 .. Len(ms) : next[i] = ms[i]
  BY <1>1, AppendProperties
<1>4. DOMAIN next = 1 .. n BY <1>3, LenProperties
<1>5. DOMAIN next = DOMAIN ms \cup {n} /\ n \notin DOMAIN ms BY <1>1, <1>4
<1> HIDE DEF n
<1>6. Apart(next)
  <2> SUFFICES ASSUME NEW i \in DOMAIN next, NEW k \in DOMAIN next, Same(next[i], next[k])
               PROVE i = k
    BY DEF Apart
  <2>1. CASE i \in DOMAIN ms /\ k \in DOMAIN ms
    BY <1>1, <1>3, <2>1 DEF Ordered, Apart
  <2>2. CASE i \in DOMAIN ms /\ k = n
    BY <1>1, <1>3, <2>2
  <2>3. CASE i = n /\ k \in DOMAIN ms
    <3>1. Same(ms[k], row) BY <1>1, <1>3, <2>3 DEF Same
    <3> QED BY <3>1, <2>3
  <2> QED BY <1>5, <2>1, <2>2, <2>3
<1>7. PICK top \in Nat : Highest(ms, top) BY DEF Ordered
<1>8. row.id \in Nat BY DEF Rows
<1>9. CASE row.id <= top
  <2>1. Highest(next, top) BY <1>1, <1>3, <1>5, <1>7, <1>9 DEF Highest
  <2> QED BY <1>1, <1>3, <1>5, <1>6, <2>1 DEF Ordered, MessagesOf
<1>10. CASE ~(row.id <= top)
  <2>1. \A i \in DOMAIN ms : ms[i].id \in Nat BY <1>2 DEF Rows
  <2>2. Highest(next, row.id) BY <1>1, <1>3, <1>5, <1>7, <1>8, <1>10, <2>1 DEF Highest
  <2> QED BY <1>1, <1>3, <1>5, <1>6, <1>8, <2>2 DEF Ordered, MessagesOf
<1> QED BY <1>9, <1>10

(* Every message that is saved: of a user, or what a Run says.             *)
Savable(m) == m \in Rows /\ (m.role = "agent" => m.id = 0 /\ m.run # 0)
                         /\ (m.role = "user" => m.id # 0 \/ m.run = 0)
RowOf(ms, m) == [m EXCEPT !.id = Chat!IdOf(ms, m)]
Outlives(n, m, row) == n.id # row.id \/ (m.id = 0 /\ n.role = "user")

LEMMA SavedIs ==
  ASSUME NEW ms, Ordered(ms), NEW m, Savable(m), NEW row, row = RowOf(ms, m)
  PROVE  /\ row \in Rows /\ Ordered(Chat!Saved(ms, m))
         /\ row \in MessagesOf(Chat!Saved(ms, m))
         /\ \A n \in MessagesOf(ms) : Outlives(n, m, row) => n \in MessagesOf(Chat!Saved(ms, m))
<1> DEFINE at == Chat!Places(ms, LAMBDA k : k.id = row.id)
           next == Chat!Saved(ms, m)
<1>1. next = IF at = {} THEN Append(ms, row) ELSE [ms EXCEPT ![Chat!Min(at)] = row]
  BY DEF Chat!Saved, RowOf
<1>2. at = {i \in DOMAIN ms : ms[i].id = row.id} BY DEF Chat!Places
<1>3. Chat!Projection(ms, m) =
        {i \in DOMAIN ms : m.run # 0 /\ ms[i].run = m.run /\ ms[i].role = m.role}
  BY DEF Chat!Projection, Chat!Places
<1>4. /\ ms \in Seq(Rows) /\ Len(ms) \in Nat /\ DOMAIN ms = 1 .. Len(ms)
      /\ \A i \in DOMAIN ms : ms[i] \in Rows
  BY LenProperties, ElementOfSeq DEF Ordered
<1>5. PICK top \in Nat : Highest(ms, top) BY DEF Ordered
<1>6. Chat!NextId(ms) = top + 1 BY <1>4, <1>5, NextIdIs
<1>7. \A i \in DOMAIN ms : ms[i].id # top + 1
  <2>1. \A i \in DOMAIN ms : ms[i].id <= top BY <1>5 DEF Highest
  <2>2. \A i \in DOMAIN ms : ms[i].id \in Nat BY <1>4 DEF Rows
  <2> QED BY <2>1, <2>2
<1> HIDE DEF at, next
<1>8. m \in Rows /\ m.id \in Nat /\ m.role \in {"user", "agent"} BY DEF Savable, Rows
<1>9. CASE m.id = 0 /\ Chat!Projection(ms, m) = {}
  <2>1. row = [m EXCEPT !.id = top + 1] BY <1>6, <1>9 DEF RowOf, Chat!IdOf
  <2>2. row \in Rows /\ row.id = top + 1 /\ row.run = m.run /\ row.role = m.role
    BY <2>1, <1>8 DEF Rows
  <2>3. at = {} BY <1>2, <1>7, <2>2
  <2>4. next = Append(ms, row) BY <1>1, <2>3
  <2>5. \A i \in DOMAIN ms : ~Same(ms[i], row)
    <3> SUFFICES ASSUME NEW i \in DOMAIN ms, Same(ms[i], row) PROVE FALSE OBVIOUS
    <3>1. ms[i].role = "agent" /\ m.role = "agent" /\ ms[i].run = m.run
      BY <1>7, <2>2 DEF Same
    <3>2. m.run # 0 BY <3>1 DEF Savable
    <3>3. i \in Chat!Projection(ms, m) BY <1>3, <3>1, <3>2
    <3> QED BY <3>3, <1>9
  <2>6. Ordered(next) /\ row \in MessagesOf(next) /\ MessagesOf(ms) \subseteq MessagesOf(next)
    BY <2>2, <2>4, <2>5, Added
  <2> QED BY <2>2, <2>6 DEF next
<1>10. ASSUME NEW j \in DOMAIN ms, row.id = ms[j].id, row \in Rows,
              row.role = "agent" => ms[j].role = "agent" /\ ms[j].run = row.run,
              m.id = 0 => ms[j].role = "agent"
       PROVE  /\ row \in Rows /\ Ordered(next) /\ row \in MessagesOf(next)
              /\ \A n \in MessagesOf(ms) : Outlives(n, m, row) => n \in MessagesOf(next)
  <2>1. \A i \in DOMAIN ms : ms[i].id = row.id => i = j
    BY <1>10 DEF Ordered, Apart, Same
  <2>2. at = {j} BY <1>2, <1>10, <2>1
  <2>3. Chat!Min(at) = j BY <1>4, <2>2, MinOne
  <2>6. at # {} BY <2>2
  <2>7. next = [ms EXCEPT ![j] = row] BY <1>1, <2>3, <2>6
  <2>8. row.role = "agent" => ms[j].role = "agent" /\ ms[j].run = row.run BY <1>10
  <2>4. /\ Ordered(next) /\ row \in MessagesOf(next)
        /\ \A n \in MessagesOf(ms) : n.id # row.id => n \in MessagesOf(next)
    BY <1>10, <2>7, <2>8, Replaced
  <2>5. ASSUME NEW n \in MessagesOf(ms), Outlives(n, m, row) PROVE n.id # row.id
    <3>1. PICK i \in DOMAIN ms : n = ms[i] BY DEF MessagesOf
    <3>2. CASE n.id = row.id
      <4>1. i = j BY <2>1, <3>1, <3>2
      <4> QED BY <2>5, <3>1, <3>2, <4>1, <1>10 DEF Outlives
    <3> QED BY <3>2
  <2> QED BY <1>10, <2>4, <2>5
<1>11. CASE m.id = 0 /\ Chat!Projection(ms, m) # {}
  <2>1. PICK j \in DOMAIN ms : m.run # 0 /\ ms[j].run = m.run /\ ms[j].role = m.role
    BY <1>3, <1>11
  <2>2. m.role = "agent" BY <1>8, <1>11, <2>1 DEF Savable
  <2>3. \A i \in Chat!Projection(ms, m) : i = j BY <1>3, <2>1, <2>2 DEF Ordered, Apart, Same
  <2>4. Chat!Projection(ms, m) = {j} BY <1>3, <2>1, <2>3
  <2>5. row = [m EXCEPT !.id = ms[j].id] BY <1>4, <1>11, <2>1, <2>4, MinOne DEF RowOf, Chat!IdOf
  <2>6. /\ row.id = ms[j].id /\ row \in Rows /\ row.role = "agent" /\ ms[j].role = "agent"
        /\ ms[j].run = row.run
    BY <1>4, <1>8, <2>1, <2>2, <2>5 DEF Rows
  <2> QED BY <1>10, <2>1, <2>6 DEF next
<1>12. CASE m.id # 0
  <2>1. row = m BY <1>8, <1>12 DEF RowOf, Chat!IdOf, Rows
  <2>2. m.role = "user" BY <1>8, <1>12 DEF Savable
  <2>3. CASE at = {}
    <3>1. next = Append(ms, row) BY <1>1, <2>3
    <3>2. \A i \in DOMAIN ms : ~Same(ms[i], row) BY <1>2, <2>1, <2>2, <2>3 DEF Same
    <3>3. Ordered(next) /\ row \in MessagesOf(next) /\ MessagesOf(ms) \subseteq MessagesOf(next)
      BY <1>8, <2>1, <3>1, <3>2, Added
    <3> QED BY <1>8, <1>12, <2>1, <3>3 DEF next
  <2>4. CASE at # {}
    <3>1. PICK j \in DOMAIN ms : row.id = ms[j].id BY <1>2, <2>4
    <3> QED BY <1>8, <1>10, <1>12, <2>1, <2>2, <3>1 DEF next
  <2> QED BY <2>3, <2>4
<1> QED BY <1>9, <1>11, <1>12

LEMMA SaveStays ==
  ASSUME Chatting, KTyped, FileIsOrdered, NEW m, Savable(m), Chat!SaveMessage(m),
         NEW row, row = RowOf(Chat!Kept.messages, m)
  PROVE  /\ conversation' \in Files /\ conversation' # None /\ FileIsOrdered'
         /\ revived' \in BOOLEAN /\ (~revived' => ~revived /\ conversation # None)
         /\ row \in Rows /\ row \in Chat!Said' /\ Ordered(Chat!Kept.messages)
         /\ \A n \in Chat!Said : Outlives(n, m, row) => n \in Chat!Said'
<1> DEFINE ms == Chat!Kept.messages
           next == Chat!Saved(ms, m)
<1>1. Chat!Untitled \in Files /\ Chat!Untitled.messages = <<>>
  BY EmptySeq DEF Chat!Untitled, Files, Titles
<1>2. Chat!Kept \in Files BY <1>1 DEF Chat!Kept, KTyped
<1>3. Ordered(<<>>) /\ MessagesOf(<<>>) = {}
  <2>1. <<>> \in Seq(Rows) /\ DOMAIN <<>> = {} BY EmptySeq
  <2>2. Apart(<<>>) /\ Highest(<<>>, 0) BY <2>1 DEF Apart, Highest
  <2> QED BY <2>1, <2>2 DEF Ordered, MessagesOf
<1>4. Ordered(ms) /\ Chat!Said = MessagesOf(ms)
  <2>1. CASE conversation = None BY <1>1, <1>3, <2>1 DEF Chat!Kept, Chat!Said
  <2>2. CASE conversation # None BY <2>2 DEF Chat!Kept, Chat!Said, MessagesOf, FileIsOrdered
  <2> QED BY <2>1, <2>2
<1>5. /\ conversation' = [Chat!Kept EXCEPT !.messages = next]
      /\ revived' = (revived \/ conversation = None)
  BY DEF Chat!SaveMessage, Chat!Writes
<1> HIDE DEF ms
<1>6. /\ row \in Rows /\ Ordered(next) /\ row \in MessagesOf(next)
      /\ \A n \in MessagesOf(ms) : Outlives(n, m, row) => n \in MessagesOf(next)
  <2>1. row = RowOf(ms, m) BY DEF ms
  <2> QED BY <1>4, <2>1, SavedIs
<1> HIDE DEF next
<1>7. next \in Seq(Rows) BY <1>6 DEF Ordered
<1>8. conversation' \in Files /\ conversation'.messages = next BY <1>2, <1>5, <1>7 DEF Files
<1>9. conversation' # None BY <1>8 DEF Chatting
<1>10. Chat!Said' = MessagesOf(next) BY <1>8, <1>9 DEF Chat!Said, MessagesOf
<1>11. FileIsOrdered' BY <1>6, <1>8 DEF FileIsOrdered
<1>12. revived' \in BOOLEAN /\ (~revived' => ~revived /\ conversation # None)
  BY <1>5 DEF KTyped
<1> QED BY <1>4, <1>6, <1>8, <1>9, <1>10, <1>11, <1>12 DEF ms

-----------------------------------------------------------------------------
(* Most steps leave the messages of users, begin no Run and save nothing   *)
(* new that awaits its acknowledgement.                                    *)
Calmer ==
  /\ tab' \in [Sockets -> Handlers]
  /\ \A y \in Acking' : y \in Acking /\ tab'[y].id = tab[y].id /\ tab'[y].text = tab[y].text
Remembers ==
  ~revived' =>
    /\ ~revived /\ (conversation' # None => conversation # None)
    /\ \A n \in Chat!Said : n.role = "user" => n \in Chat!Said'
Fewer ==
  /\ chatRun' \in [Chat!Posts -> ChatRuns]
  /\ \A t \in Chat!Posts :
       /\ chatRun'[t].status \in Chat!Active => chatRun[t].status \in Chat!Active
       /\ chatRun[t].status = "none" => chatRun'[t].status = "none"

LEMMA Stays ==
  ASSUME Chatting, KInv, Calmer, Remembers, Fewer, UNCHANGED sends
  PROVE  Awaits' /\ Waits' /\ Chat!TaskHasMessage'
<1> USE DEF KInv
<1>1. Awaits'
  <2>1. \A t \in Chat!Posts : t > sends' => chatRun'[t].status = "none" BY DEF Awaits, Fewer
  <2>2. \A x \in Acking : tab[x].text \in Chat!Posts
    BY DEF Awaits, KTyped, Chatting, Chat!Posts
  <2>3. \A x \in Acking' :
          /\ tab'[x].id # 0 /\ tab'[x].text \in 1 .. sends'
          /\ chatRun'[tab'[x].text].status = "none"
    BY <2>2 DEF Awaits, Calmer, Fewer
  <2>4. \A x, y \in Acking' : tab'[x].text = tab'[y].text => x = y BY DEF Awaits, Calmer
  <2> QED BY <2>1, <2>3, <2>4 DEF Awaits
<1>2. Waits'
  <2> SUFFICES ASSUME ~revived', conversation' # None, NEW x \in Acking'
               PROVE  \E m \in Chat!Said' :
                        m.id = tab'[x].id /\ m.role = "user" /\ m.text = tab'[x].text
    BY DEF Waits
  <2>1. x \in Acking /\ tab'[x].id = tab[x].id /\ tab'[x].text = tab[x].text BY DEF Calmer
  <2>2. ~revived /\ conversation # None BY DEF Remembers
  <2>3. PICK m \in Chat!Said : m.id = tab[x].id /\ m.role = "user" /\ m.text = tab[x].text
    BY <2>1, <2>2 DEF Waits
  <2>4. m \in Chat!Said' BY <2>3 DEF Remembers
  <2> QED BY <2>1, <2>3, <2>4
<1>3. Chat!TaskHasMessage'
  <2> SUFFICES ASSUME ~revived', NEW t \in Chat!Posts, chatRun'[t].status \in Chat!Active
               PROVE  \E m \in Chat!Said' : m.role = "user" /\ m.run = t /\ m.text = t
    BY DEF Chat!TaskHasMessage, Chat!Posts, Chat!Active
  <2>1. ~revived /\ chatRun[t].status \in Chat!Active BY DEF Remembers, Fewer
  <2>2. PICK m \in Chat!Said : m.role = "user" /\ m.run = t /\ m.text = t
    BY <2>1 DEF Chat!TaskHasMessage
  <2>3. m \in Chat!Said' BY <2>2 DEF Remembers
  <2> QED BY <2>2, <2>3
<1> QED BY <1>1, <1>2, <1>3

LEMMA FewerStill == ASSUME KTyped, UNCHANGED chatRun PROVE Fewer
BY DEF KTyped, Fewer
LEMMA Calm == ASSUME KTyped, UNCHANGED tab PROVE Calmer
BY DEF KTyped, Calmer, Acking
LEMMA SameFile == ASSUME UNCHANGED <<conversation, revived>>
                  PROVE  Remembers /\ (FileIsOrdered => FileIsOrdered')
BY DEF Remembers, Chat!Said, FileIsOrdered

LEMMA MovesCalmly ==
  ASSUME KTyped, NEW x \in Sockets, NEW r \in Handlers, Chat!Moves(x, r),
         r.pc = "acking" => tab[x].pc = "acking" /\ r.id = tab[x].id /\ r.text = tab[x].text
  PROVE  Calmer
BY DEF KTyped, Calmer, Chat!Moves, Acking

LEMMA HandlerStays ==
  ASSUME Chatting, KInv, Calmer, UNCHANGED <<conversation, chatRun, revived, sends>>,
         deleting' \in BOOLEAN, conversation = None => connected' = {},
         deleting' => connected' = {}
  PROVE  KInv'
<1>1. Remembers /\ FileIsOrdered' BY SameFile DEF KInv
<1>2. Fewer BY FewerStill DEF KInv
<1>3. KTyped' BY DEF KInv, KTyped, Calmer
<1>4. Chat!NoGhost' BY DEF Chat!NoGhost
<1> QED BY <1>1, <1>2, <1>3, <1>4, Stays DEF KInv

LEMMA TurnsFewer ==
  ASSUME KTyped, NEW t \in Chat!Posts, NEW before \in SUBSET Chat!Active,
         NEW after \in Chat!Active \cup {"succeeded", "failed", "cancelled"}, Chat!Turns(t,
         before, after)
  PROVE  Fewer
<1>1. [chatRun[t] EXCEPT !.status = after] \in ChatRuns BY DEF KTyped, ChatRuns
<1>2. chatRun' \in [Chat!Posts -> ChatRuns] BY <1>1 DEF Chat!Turns, KTyped
<1>3. chatRun[t].status \in Chat!Active /\ chatRun[t].status # "none"
  BY DEF Chat!Turns, Chat!Active
<1>4. \A o \in Chat!Posts : o # t => chatRun'[o] = chatRun[o] BY DEF Chat!Turns, KTyped
<1> QED BY <1>2, <1>3, <1>4 DEF Fewer

LEMMA TurnStays ==
  ASSUME Chatting, KInv, Fewer, UNCHANGED <<conversation, revived>>, Chat!Still
  PROVE  KInv'
<1> USE DEF Chat!Still, Chat!counts
<1>1. Remembers /\ FileIsOrdered' BY SameFile DEF KInv
<1>2. Calmer BY Calm DEF KInv
<1>3. KTyped' BY DEF KInv, KTyped, Fewer
<1>4. Chat!NoGhost' BY DEF KInv, Chat!NoGhost
<1> QED BY <1>1, <1>2, <1>3, <1>4, Stays DEF KInv

LEMMA SayStays ==
  ASSUME Chatting, KInv, NEW t \in Chat!Posts, Fewer, Chat!Say(t)
  PROVE  KInv'
<1> DEFINE m == Chat!Message(0, "agent", t, t)
           row == RowOf(Chat!Kept.messages, m)
<1>1. /\ m.id = 0 /\ m.role = "agent" /\ m.run = t
      /\ m \in Rows
  BY DEF Chat!Message, Rows, Chat!Posts, Chatting
<1>2. t # 0 BY DEF Chat!Posts
<1>3. Chat!SaveMessage(m) /\ UNCHANGED <<tab, connected, deleting, sends>>
  BY DEF Chat!Say, Chat!Still, Chat!counts
<1> HIDE DEF m
<1>4. Savable(m) BY <1>1, <1>2 DEF Savable
<1>5. /\ conversation' \in Files /\ conversation' # None /\ FileIsOrdered'
      /\ revived' \in BOOLEAN /\ (~revived' => ~revived /\ conversation # None)
      /\ \A n \in Chat!Said : Outlives(n, m, row) => n \in Chat!Said'
  <2> HIDE DEF row
  <2>1. row = RowOf(Chat!Kept.messages, m) BY DEF row
  <2> QED BY <1>3, <1>4, <2>1, SaveStays DEF KInv
<1> HIDE DEF row
<1>6. Remembers BY <1>1, <1>5 DEF Remembers, Outlives
<1>7. Calmer BY <1>3, Calm DEF KInv
<1>8. KTyped' BY <1>3, <1>5 DEF KInv, KTyped, Fewer
<1>9. Chat!NoGhost' BY <1>5 DEF Chat!NoGhost
<1> QED BY <1>3, <1>5, <1>6, <1>7, <1>8, <1>9, Stays DEF KInv

-----------------------------------------------------------------------------
(* A message that is saved awaits its acknowledgement under the next id.   *)
LEMMA SendStays ==
  ASSUME Chatting, KInv, NEW x \in Sockets, Chat!Send(x)
  PROVE  KInv'
<1> DEFINE m == Chat!Message(0, "user", 0, sends + 1)
           row == RowOf(Chat!Kept.messages, m)
           id == Chat!NextId(Chat!Kept.messages)
           r == [tab[x] EXCEPT !.pc = "acking", !.id = id, !.text = sends + 1]
<1>1. /\ tab[x].pc = "open" /\ sends < MaxSends /\ sends' = sends + 1
      /\ Chat!SaveMessage(m) /\ Chat!Moves(x, r)
      /\ UNCHANGED <<connected, deleting, chatRun>>
  BY DEF Chat!Send
<1>2. sends + 1 \in Chat!Posts /\ sends' \in 0 .. MaxSends /\ sends \in Nat
  BY <1>1 DEF KInv, KTyped, Chatting, Chat!Posts
<1>3. /\ m \in Rows /\ m.id = 0 /\ m.run = 0 /\ m.role = "user" /\ m.text = sends + 1
  BY <1>2 DEF Chat!Message, Rows, Chat!Posts, Chatting
<1> HIDE DEF m
<1>4. Savable(m) BY <1>3 DEF Savable
<1>5. /\ conversation' \in Files /\ conversation' # None /\ FileIsOrdered'
      /\ revived' \in BOOLEAN /\ (~revived' => ~revived /\ conversation # None)
      /\ row \in Rows /\ row \in Chat!Said' /\ Ordered(Chat!Kept.messages)
      /\ \A n \in Chat!Said : Outlives(n, m, row) => n \in Chat!Said'
  <2> HIDE DEF row
  <2>1. row = RowOf(Chat!Kept.messages, m) BY DEF row
  <2> QED BY <1>1, <1>4, <2>1, SaveStays DEF KInv
<1>6. row.id = id /\ row.role = "user" /\ row.text = sends + 1
  <2>1. Chat!Projection(Chat!Kept.messages, m) = {} BY <1>3 DEF Chat!Projection, Chat!Places
  <2>2. Chat!IdOf(Chat!Kept.messages, m) = id BY <1>3, <2>1 DEF Chat!IdOf
  <2> QED BY <1>3, <2>2 DEF RowOf, Rows
<1>7. id \in Nat /\ id # 0
  <2>1. PICK top \in Nat : Highest(Chat!Kept.messages, top) BY <1>5 DEF Ordered
  <2>2. Chat!Kept.messages \in Seq(Rows) BY <1>5 DEF Ordered
  <2>3. id = top + 1 BY <2>1, <2>2, NextIdIs
  <2> QED BY <2>3
<1> HIDE DEF row, id
<1>8. r \in Handlers /\ r.id = id /\ r.text = sends + 1
  <2>1. tab[x] \in Handlers BY DEF KInv, KTyped
  <2>2. sends + 1 \in 0 .. MaxSends BY <1>2 DEF Chat!Posts, Chatting
  <2> DEFINE one == [tab[x] EXCEPT !.pc = "acking"]
             two == [one EXCEPT !.id = id]
  <2>3. one \in Handlers BY <2>1 DEF Handlers
  <2>4. r = [two EXCEPT !.text = sends + 1] OBVIOUS
  <2> HIDE DEF one, r
  <2>5. two \in Handlers /\ two.id = id BY <1>7, <2>3 DEF Handlers
  <2> HIDE DEF two
  <2> QED BY <2>2, <2>4, <2>5 DEF Handlers
<1> HIDE DEF r
<1>9. /\ tab' \in [Sockets -> Handlers] /\ tab'[x] = r
      /\ \A y \in Sockets : y # x => tab'[y] = tab[y]
  BY <1>1, <1>8 DEF Chat!Moves, KInv, KTyped
<1>10. \A y \in Acking' : y # x => y \in Acking /\ tab'[y] = tab[y] BY <1>9 DEF Acking
<1>11. \A n \in Chat!Said : n.role = "user" => n \in Chat!Said' BY <1>3, <1>5 DEF Outlives
<1>12. KTyped' BY <1>1, <1>2, <1>5, <1>9 DEF KInv, KTyped
<1>13. chatRun[sends + 1].status = "none" BY <1>2 DEF KInv, Awaits
<1>14. Awaits'
  <2>1. \A y \in Acking : tab[y].text \in 1 .. sends BY DEF KInv, Awaits
  <2>2. \A y \in Acking' :
          /\ tab'[y].id # 0 /\ tab'[y].text \in 1 .. sends'
          /\ chatRun'[tab'[y].text].status = "none"
    <3> SUFFICES ASSUME NEW y \in Acking'
                 PROVE  /\ tab'[y].id # 0 /\ tab'[y].text \in 1 .. sends'
                        /\ chatRun'[tab'[y].text].status = "none"
      OBVIOUS
    <3>1. CASE y = x BY <1>1, <1>2, <1>7, <1>8, <1>9, <1>13, <3>1
    <3>2. CASE y # x
      <4>1. tab[y].id # 0 /\ tab[y].text \in 1 .. sends /\ chatRun[tab[y].text].status = "none"
        BY <1>10, <3>2 DEF KInv, Awaits
      <4> QED BY <1>1, <1>2, <1>10, <3>2, <4>1
    <3> QED BY <3>1, <3>2
  <2>3. \A y, z \in Acking' : tab'[y].text = tab'[z].text => y = z
    <3>1. \A y \in Acking' : y # x => tab'[y].text # tab'[x].text
      BY <1>2, <1>8, <1>9, <1>10, <2>1
    <3> QED BY <1>10, <3>1 DEF KInv, Awaits
  <2>4. \A t \in Chat!Posts : t > sends' => chatRun'[t].status = "none"
    BY <1>1, <1>2 DEF KInv, Awaits, Chat!Posts
  <2> QED BY <2>2, <2>3, <2>4 DEF Awaits
<1>15. Waits'
  <2> SUFFICES ASSUME ~revived', NEW y \in Acking'
               PROVE  \E n \in Chat!Said' :
                        n.id = tab'[y].id /\ n.role = "user" /\ n.text = tab'[y].text
    BY DEF Waits
  <2>1. CASE y = x BY <1>5, <1>6, <1>8, <1>9, <2>1
  <2>2. CASE y # x
    <3>1. PICK n \in Chat!Said : n.id = tab[y].id /\ n.role = "user" /\ n.text = tab[y].text
      BY <1>5, <1>10, <2>2 DEF KInv, Waits
    <3> QED BY <1>10, <1>11, <2>2, <3>1
  <2> QED BY <2>1, <2>2
<1>16. Chat!TaskHasMessage'
  <2> SUFFICES ASSUME ~revived', NEW t \in Chat!Posts, chatRun'[t].status \in Chat!Active
               PROVE  \E n \in Chat!Said' : n.role = "user" /\ n.run = t /\ n.text = t
    BY DEF Chat!TaskHasMessage, Chat!Posts, Chat!Active
  <2>1. PICK n \in Chat!Said : n.role = "user" /\ n.run = t /\ n.text = t
    BY <1>1, <1>5 DEF KInv, Chat!TaskHasMessage
  <2> QED BY <1>11, <2>1
<1>17. Chat!NoGhost' BY <1>5 DEF Chat!NoGhost
<1> QED BY <1>1, <1>5, <1>12, <1>14, <1>15, <1>16, <1>17 DEF KInv

(* Its Run is submitted, and the message is saved over itself: no other    *)
(* has its id.                                                             *)
LEMMA SubmitStays ==
  ASSUME Chatting, KInv, NEW x \in Sockets, NEW key \in Nat, tab[x].pc = "acking",
         chatRun' = [chatRun EXCEPT ![tab[x].text] = [status |-> "queued", key |-> key]],
         Chat!SaveMessage(Chat!Message(tab[x].id, "user", tab[x].text, tab[x].text)),
         Chat!After(x, "titling"), UNCHANGED <<connected, deleting, sends>>
  PROVE  KInv'
<1> DEFINE t == tab[x].text
           m == Chat!Message(tab[x].id, "user", t, t)
           row == RowOf(Chat!Kept.messages, m)
<1>1. x \in Acking BY DEF Acking
<1>2. tab[x].id # 0 /\ t \in Chat!Posts /\ t \in 1 .. sends
  BY <1>1 DEF KInv, KTyped, Awaits, Chat!Posts, Chatting
<1>3. tab[x].id \in Nat /\ t \in 0 .. MaxSends BY DEF KInv, KTyped, Handlers
<1>4. /\ m \in Rows /\ m.id = tab[x].id /\ m.run = t /\ m.role = "user" /\ m.text = t
  BY <1>2, <1>3 DEF Chat!Message, Rows
<1> HIDE DEF m
<1>5. Savable(m) BY <1>2, <1>4 DEF Savable
<1>6. Chat!SaveMessage(m) BY DEF m
<1>7. /\ conversation' \in Files /\ conversation' # None /\ FileIsOrdered'
      /\ revived' \in BOOLEAN /\ (~revived' => ~revived /\ conversation # None)
      /\ row \in Rows /\ row \in Chat!Said'
      /\ \A n \in Chat!Said : Outlives(n, m, row) => n \in Chat!Said'
  <2> HIDE DEF row
  <2>1. row = RowOf(Chat!Kept.messages, m) BY DEF row
  <2> QED BY <1>5, <1>6, <2>1, SaveStays DEF KInv
<1>8. row = m BY <1>2, <1>4 DEF RowOf, Chat!IdOf, Rows
<1> HIDE DEF row
<1>9. Calmer /\ x \notin Acking'
  <2>1. Chat!Closed \in Handlers /\ [tab[x] EXCEPT !.pc = "titling"] \in Handlers
    BY DEF KInv, KTyped, Handlers, Chat!Closed, Titles, Chatting
  <2>2. PICK r \in Handlers : Chat!Moves(x, r) /\ r.pc # "acking"
    BY <2>1 DEF Chat!After, Chat!Closed, KInv, KTyped, Handlers
  <2>3. Calmer BY <2>2, MovesCalmly DEF KInv
  <2>4. tab'[x] = r BY <2>2 DEF Chat!Moves, KInv, KTyped
  <2> QED BY <2>2, <2>3, <2>4 DEF Acking
<1>10. /\ chatRun' \in [Chat!Posts -> ChatRuns] /\ chatRun'[t].status = "queued"
       /\ \A o \in Chat!Posts : o # t => chatRun'[o] = chatRun[o]
  <2>1. [status |-> "queued", key |-> key] \in ChatRuns BY DEF ChatRuns, Chat!Active
  <2> QED BY <1>2, <2>1 DEF KInv, KTyped
<1>11. KTyped' BY <1>7, <1>9, <1>10 DEF KInv, KTyped, Calmer
<1>12. \A y \in Acking' :
         /\ y \in Acking /\ tab[y].text # t
         /\ tab'[y].id = tab[y].id /\ tab'[y].text = tab[y].text
  BY <1>1, <1>9 DEF KInv, Awaits, Calmer
(* The message of another text has another id.                             *)
<1>13. ASSUME ~revived', NEW n \in Chat!Said, n.role = "user", n.text # t PROVE n \in Chat!Said'
  <2>1. PICK own \in Chat!Said : own.id = m.id /\ own.text = t
    BY <1>1, <1>4, <1>7, <1>13 DEF KInv, Waits
  <2>2. PICK i, j \in DOMAIN conversation.messages :
          n = conversation.messages[i] /\ own = conversation.messages[j]
    BY <1>7, <1>13 DEF Chat!Said
  <2>3. n.id # m.id
    BY <1>7, <1>13, <2>1, <2>2 DEF KInv, FileIsOrdered, Ordered, Apart, Same
  <2> QED BY <1>7, <1>8, <2>3 DEF Outlives
<1>14. Awaits'
  <2>1. \A y \in Acking :
          /\ tab[y].id # 0 /\ tab[y].text \in 1 .. sends /\ tab[y].text \in Chat!Posts
          /\ chatRun[tab[y].text].status = "none"
    BY DEF KInv, KTyped, Awaits, Chat!Posts, Chatting
  <2>2. \A y \in Acking' :
          /\ tab'[y].id # 0 /\ tab'[y].text \in 1 .. sends'
          /\ chatRun'[tab'[y].text].status = "none"
    BY <1>10, <1>12, <2>1
  <2>3. \A y, z \in Acking' : tab'[y].text = tab'[z].text => y = z BY <1>12 DEF KInv, Awaits
  <2>4. \A o \in Chat!Posts : o > sends' => chatRun'[o].status = "none"
    BY <1>2, <1>10 DEF KInv, KTyped, Awaits, Chat!Posts
  <2> QED BY <2>2, <2>3, <2>4 DEF Awaits
<1>15. Waits'
  <2> SUFFICES ASSUME ~revived', NEW y \in Acking'
               PROVE  \E n \in Chat!Said' :
                        n.id = tab'[y].id /\ n.role = "user" /\ n.text = tab'[y].text
    BY DEF Waits
  <2>1. PICK n \in Chat!Said : n.id = tab[y].id /\ n.role = "user" /\ n.text = tab[y].text
    BY <1>7, <1>12 DEF KInv, Waits
  <2>2. n \in Chat!Said' BY <1>12, <1>13, <2>1
  <2> QED BY <1>12, <2>1, <2>2
<1>16. Chat!TaskHasMessage'
  <2> SUFFICES ASSUME ~revived', NEW o \in Chat!Posts, chatRun'[o].status \in Chat!Active
               PROVE  \E n \in Chat!Said' : n.role = "user" /\ n.run = o /\ n.text = o
    BY DEF Chat!TaskHasMessage, Chat!Posts, Chat!Active
  <2>1. CASE o = t BY <1>4, <1>7, <1>8, <2>1
  <2>2. CASE o # t
    <3>1. PICK n \in Chat!Said : n.role = "user" /\ n.run = o /\ n.text = o
      BY <1>7, <1>10, <2>2 DEF KInv, Chat!TaskHasMessage
    <3>2. n \in Chat!Said' BY <1>13, <2>2, <3>1
    <3> QED BY <3>1, <3>2
  <2> QED BY <2>1, <2>2
<1>17. Chat!NoGhost' BY <1>7 DEF Chat!NoGhost
<1> QED BY <1>7, <1>11, <1>14, <1>15, <1>16, <1>17 DEF KInv

-----------------------------------------------------------------------------
LEMMA ConnectStays == ASSUME Chatting, KInv, NEW x \in Sockets, Chat!Connect(x) PROVE KInv'
<1> DEFINE r == [Chat!Closed EXCEPT !.pc = "handshake"]
<1>1. Chat!Closed \in Handlers BY DEF Chat!Closed, Handlers, Titles, Chatting
<1>2. r \in Handlers /\ r.pc = "handshake" BY <1>1 DEF Handlers
<1>3. Chat!Moves(x, r) BY DEF Chat!Connect
<1> HIDE DEF r
<1>4. Calmer BY <1>2, <1>3, MovesCalmly DEF KInv
<1> QED BY <1>4, HandlerStays DEF Chat!Connect, Chat!alone, Chat!counts, KInv, KTyped,
           Chat!NoGhost

LEMMA AcceptedStays == ASSUME Chatting, KInv, NEW x \in Sockets, Chat!Accepted(x) PROVE KInv'
<1>1. Chat!Closed \in Handlers /\ Chat!Closed.pc = "closed"
  BY DEF Chat!Closed, Handlers, Titles, Chatting
<1>2. CASE Chat!Refused
  <2>1. Calmer BY <1>1, <1>2, MovesCalmly DEF Chat!Accepted, KInv
  <2> QED BY <1>2, <2>1, HandlerStays DEF Chat!Accepted, Chat!alone, Chat!counts, KInv, KTyped,
             Chat!NoGhost
<1>3. CASE ~Chat!Refused
  <2> DEFINE one == [Chat!Closed EXCEPT !.pc = "open"]
             r == [one EXCEPT !.title = conversation.title]
  <2>1. conversation # None /\ ~deleting /\ conversation.title \in Titles
    BY <1>3 DEF Chat!Refused, KInv, KTyped, Files
  <2>2. one \in Handlers /\ one.pc = "open" BY <1>1 DEF Handlers
  <2>3. Chat!Moves(x, r) BY <1>3 DEF Chat!Accepted
  <2> HIDE DEF one
  <2>4. r \in Handlers /\ r.pc = "open" BY <2>1, <2>2 DEF Handlers
  <2> HIDE DEF r
  <2>5. Calmer BY <2>3, <2>4, MovesCalmly DEF KInv
  <2> QED BY <2>1, <2>5, HandlerStays DEF Chat!Accepted, Chat!alone, Chat!counts, KInv, KTyped
<1> QED BY <1>2, <1>3

LEMMA AfterCalm ==
  ASSUME Chatting, KTyped, NEW x \in Sockets, NEW pc \in {"open", "titling"}, Chat!After(x, pc)
  PROVE  Calmer
<1>1. Chat!Closed \in Handlers /\ [tab[x] EXCEPT !.pc = pc] \in Handlers
  BY DEF KTyped, Handlers, Chat!Closed, Titles, Chatting
<1>2. PICK r \in Handlers : Chat!Moves(x, r) /\ r.pc # "acking"
  BY <1>1 DEF Chat!After, Chat!Closed, KTyped, Handlers
<1> QED BY <1>2, MovesCalmly

LEMMA NoModelStays == ASSUME Chatting, KInv, NEW x \in Sockets, Chat!NoModel(x) PROVE KInv'
<1>1. Calmer BY AfterCalm DEF Chat!NoModel, KInv
<1> QED BY <1>1, HandlerStays DEF Chat!NoModel, Chat!alone, Chat!counts, KInv, KTyped,
           Chat!NoGhost

LEMMA LeaveStays ==
  ASSUME Chatting, KInv, NEW x \in Sockets, Chat!Moves(x, Chat!Closed),
         connected' = connected \ {x},
         UNCHANGED <<conversation, deleting, chatRun, revived, sends>>
  PROVE  KInv'
<1>1. Chat!Closed \in Handlers /\ Chat!Closed.pc = "closed"
  BY DEF Chat!Closed, Handlers, Titles, Chatting
<1>2. Calmer BY <1>1, MovesCalmly DEF KInv
<1> QED BY <1>2, HandlerStays DEF KInv, KTyped, Chat!NoGhost

LEMMA CloseSocketStays ==
  ASSUME Chatting, KInv, NEW x \in Sockets, Chat!CloseSocket(x) PROVE KInv'
<1>1. Chat!Closed \in Handlers /\ Chat!Closed.pc = "closed"
  BY DEF Chat!Closed, Handlers, Titles, Chatting
<1>2. tab[x] \in Handlers BY DEF KInv, KTyped
<1>3. [tab[x] EXCEPT !.shut = TRUE] \in Handlers BY <1>2 DEF Handlers
<1>4. PICK r \in Handlers :
        Chat!Moves(x, r)
        /\ (r.pc = "acking" => tab[x].pc = "acking" /\ r.id = tab[x].id /\ r.text = tab[x].text)
  BY <1>1, <1>2, <1>3 DEF Chat!CloseSocket, Handlers
<1>5. Calmer BY <1>4, MovesCalmly DEF KInv
<1> QED BY <1>5, HandlerStays DEF Chat!CloseSocket, Chat!alone, Chat!counts, KInv, KTyped,
           Chat!NoGhost

LEMMA TitleStays == ASSUME Chatting, KInv, NEW x \in Sockets, Chat!Title(x) PROVE KInv'
<1>1. Calmer BY AfterCalm DEF Chat!Title, KInv
<1>2. Fewer BY FewerStill DEF Chat!Title, KInv
<1>3. UNCHANGED <<connected, deleting, sends>> BY DEF Chat!Title, Chat!counts
<1>4. CASE UNCHANGED <<conversation, revived>>
  BY <1>1, <1>4, HandlerStays DEF Chat!Title, Chat!counts, KInv, KTyped, Chat!NoGhost
<1>5. CASE Chat!Writes([Chat!Loaded(x) EXCEPT !.title = "named"])
  <2>1. tab[x].title \in Titles BY DEF KInv, KTyped, Handlers
  <2>2. /\ Chat!Loaded(x) \in Files
        /\ conversation # None => Chat!Loaded(x) = conversation
        /\ conversation = None => Chat!Loaded(x).messages = <<>>
    <3>1. <<>> \in Seq(Rows) BY EmptySeq
    <3>2. Chat!Untitled \in Files /\ Chat!Untitled.messages = <<>>
      BY <3>1 DEF Chat!Untitled, Files, Titles
    <3> QED BY <2>1, <3>2 DEF Chat!Loaded, Files, KInv, KTyped
  <2>3. conversation' \in Files /\ conversation'.messages = Chat!Loaded(x).messages
    BY <1>5, <2>2 DEF Chat!Writes, Files, Titles
  <2>4. conversation' # None BY <2>3 DEF Chatting
  <2>5. revived' \in BOOLEAN /\ (~revived' => ~revived /\ conversation # None)
    BY <1>5 DEF Chat!Writes, KInv, KTyped
  <2>6. conversation # None => Chat!Said' = Chat!Said BY <2>2, <2>3, <2>4 DEF Chat!Said
  <2>7. Remembers BY <2>5, <2>6 DEF Remembers
  <2>8. FileIsOrdered'
    <3>1. <<>> \in Seq(Rows) /\ DOMAIN <<>> = {} BY EmptySeq
    <3>2. Apart(<<>>) /\ Highest(<<>>, 0) BY <3>1 DEF Apart, Highest
    <3>3. Ordered(<<>>) BY <3>1, <3>2 DEF Ordered
    <3> QED BY <2>2, <2>3, <3>3 DEF KInv, FileIsOrdered
  <2>9. KTyped' BY <1>1, <1>2, <1>3, <2>3, <2>5 DEF KInv, KTyped, Calmer, Fewer
  <2>10. Chat!NoGhost' BY <2>4 DEF Chat!NoGhost
  <2> QED BY <1>1, <1>2, <1>3, <2>7, <2>8, <2>9, <2>10, Stays DEF KInv
<1> QED BY <1>4, <1>5 DEF Chat!Title

LEMMA DeleteStays == ASSUME Chatting, KInv, Chat!Delete PROVE KInv'
<1>1. /\ deleting /\ deleting' = FALSE
      /\ UNCHANGED <<tab, connected, revived, sends>>
  BY DEF Chat!Delete, Chat!alone, Chat!counts
<1>2. connected' = {} BY <1>1 DEF KInv
<1>3. Calmer BY <1>1, Calm DEF KInv
<1>4. CASE UNCHANGED <<conversation, chatRun>> BY <1>1, <1>2, <1>3, <1>4, HandlerStays
<1>5. CASE /\ chatRun' = [t \in Chat!Posts |-> Chat!NoTask]
           /\ conversation' \in {None, conversation}
  <2>1. Chat!NoTask \in ChatRuns /\ Chat!NoTask.status = "none" BY DEF Chat!NoTask, ChatRuns
  <2>2. /\ chatRun' \in [Chat!Posts -> ChatRuns]
        /\ \A t \in Chat!Posts : chatRun'[t].status = "none"
    BY <1>5, <2>1
  <2>3. KTyped' BY <1>1, <1>3, <1>5, <2>2 DEF KInv, KTyped, Calmer
  <2>4. Chat!TaskHasMessage' BY <2>2 DEF Chat!TaskHasMessage, Chat!Posts, Chat!Active
  <2>5. FileIsOrdered' BY <1>5 DEF KInv, FileIsOrdered
  <2>6. Waits'
    <3>1. CASE conversation' = None BY <3>1 DEF Waits
    <3>2. CASE conversation' = conversation BY <1>1, <3>2 DEF KInv, Waits, Chat!Said, Acking
    <3> QED BY <1>5, <3>1, <3>2
  <2>7. Awaits'
    <3>1. Acking' = Acking BY <1>1 DEF Acking
    <3>2. \A x \in Acking : tab[x].text \in Chat!Posts
      BY DEF KInv, KTyped, Awaits, Chat!Posts, Chatting
    <3> QED BY <1>1, <2>2, <3>1, <3>2 DEF KInv, Awaits
  <2> QED BY <1>1, <1>2, <2>3, <2>4, <2>5, <2>6, <2>7 DEF KInv, Chat!NoGhost
<1> QED BY <1>1, <1>4, <1>5 DEF Chat!Delete

LEMMA CrashStays == ASSUME Chatting, KInv, Chat!Crash PROVE KInv'
<1>1. /\ connected' = {} /\ deleting' = FALSE /\ tab' = [x \in Sockets |-> Chat!Closed]
      /\ UNCHANGED <<conversation, revived, sends>>
  BY DEF Chat!Crash
<1>2. Chat!Closed \in Handlers /\ Chat!Closed.pc = "closed"
  BY DEF Chat!Closed, Handlers, Titles, Chatting
<1>3. Calmer BY <1>1, <1>2 DEF Calmer, Acking
<1>4. Fewer
  <2>1. \A t \in Chat!Posts : chatRun[t] \in ChatRuns BY DEF KInv, KTyped
  <2>2. \A t \in Chat!Posts : [chatRun[t] EXCEPT !.status = "queued"] \in ChatRuns
    BY <2>1 DEF ChatRuns, Chat!Active
  <2>3. \A t \in Chat!Posts : chatRun'[t] = IF chatRun[t].status \in Chat!Active
          THEN [chatRun[t] EXCEPT !.status = "queued"] ELSE chatRun[t]
    BY DEF Chat!Crash
  <2>4. chatRun' \in [Chat!Posts -> ChatRuns] BY <2>1, <2>2 DEF Chat!Crash
  <2>5. \A t \in Chat!Posts : chatRun[t].status = "none" => chatRun'[t].status = "none"
    BY <2>3 DEF Chat!Active
  <2>6. \A t \in Chat!Posts :
          chatRun'[t].status \in Chat!Active => chatRun[t].status \in Chat!Active
    BY <2>3
  <2> QED BY <2>4, <2>5, <2>6 DEF Fewer
<1>5. Remembers /\ FileIsOrdered' BY <1>1, SameFile DEF KInv
<1>6. KTyped' BY <1>1, <1>3, <1>4 DEF KInv, KTyped, Calmer, Fewer
<1> QED BY <1>1, <1>3, <1>4, <1>5, <1>6, Stays DEF KInv, Chat!NoGhost

-----------------------------------------------------------------------------
LEMMA KInvInit == ASSUME Chatting, Chat!Init PROVE KInv
<1>1. <<>> \in Seq(Rows) /\ DOMAIN <<>> = {} BY EmptySeq
<1>2. /\ conversation \in Files /\ conversation.messages = <<>>
      /\ tab \in [Sockets -> Handlers] /\ chatRun \in [Chat!Posts -> ChatRuns]
      /\ \A x \in Sockets : tab[x].pc = "closed"
      /\ \A t \in Chat!Posts : chatRun[t].status = "none"
  <2>1. Chat!Untitled \in Files /\ Chat!Untitled.messages = <<>>
    BY <1>1 DEF Chat!Untitled, Files, Titles
  <2>2. Chat!Closed \in Handlers /\ Chat!Closed.pc = "closed"
    BY DEF Chat!Closed, Handlers, Titles, Chatting
  <2>3. Chat!NoTask \in ChatRuns /\ Chat!NoTask.status = "none" BY DEF Chat!NoTask, ChatRuns
  <2>4. /\ conversation = Chat!Untitled /\ tab = [x \in Sockets |-> Chat!Closed]
        /\ chatRun = [t \in Chat!Posts |-> Chat!NoTask]
    BY DEF Chat!Init
  <2>5. tab \in [Sockets -> Handlers] /\ \A x \in Sockets : tab[x].pc = "closed" BY <2>2, <2>4
  <2>6. chatRun \in [Chat!Posts -> ChatRuns] /\ \A t \in Chat!Posts : chatRun[t].status = "none"
    BY <2>3, <2>4
  <2>7. conversation \in Files /\ conversation.messages = <<>> BY <2>1, <2>4
  <2> QED BY <2>5, <2>6, <2>7
<1>3. KTyped
  <2>1. sends = 0 /\ revived = FALSE /\ deleting = FALSE BY DEF Chat!Init
  <2>2. sends \in 0 .. MaxSends BY <2>1 DEF Chatting
  <2> QED BY <1>2, <2>1, <2>2 DEF KTyped
<1>4. FileIsOrdered
  <2>1. Apart(<<>>) /\ Highest(<<>>, 0) BY <1>1 DEF Apart, Highest
  <2> QED BY <1>1, <1>2, <2>1 DEF FileIsOrdered, Ordered
<1>5. Acking = {} BY <1>2 DEF Acking
<1>6. Awaits /\ Waits BY <1>2, <1>5 DEF Awaits, Waits
<1>7. Chat!TaskHasMessage BY <1>2 DEF Chat!TaskHasMessage, Chat!Active
<1> QED BY <1>3, <1>4, <1>6, <1>7 DEF KInv, Chat!NoGhost, Chat!Init

LEMMA KInvStep == ASSUME Chatting, KInv, [Chat!Next]_(Chat!chatVars) PROVE KInv'
<1>1. CASE UNCHANGED Chat!chatVars
  <2>1. UNCHANGED <<conversation, tab, connected, deleting, chatRun, revived, sends>>
    BY <1>1 DEF Chat!chatVars
  <2>2. Calmer BY <2>1, Calm DEF KInv
  <2> QED BY <2>1, <2>2, HandlerStays DEF KInv, KTyped, Chat!NoGhost
<1>2. CASE \E x \in Sockets, key \in 0 .. MaxSends : Chat!Submit(x, key)
  <2>1. PICK x \in Sockets, key \in 0 .. MaxSends : Chat!Submit(x, key) BY <1>2
  <2>2. key \in Nat BY DEF Chatting
  <2>3. CASE key # 0 /\ Chat!KeyTaken(x) BY <2>1, <2>3, LeaveStays DEF Chat!Submit, Chat!counts
  <2>4. CASE ~(key # 0 /\ Chat!KeyTaken(x))
    BY <2>1, <2>2, <2>4, SubmitStays DEF Chat!Submit, Chat!counts
  <2> QED BY <2>3, <2>4
<1>3. CASE \E x \in Sockets :
             \/ Chat!Connect(x) \/ Chat!Accepted(x) \/ Chat!Send(x) \/ Chat!NoModel(x)
             \/ Chat!Title(x) \/ Chat!Hangup(x) \/ Chat!CloseSocket(x)
  <2>1. ASSUME NEW x \in Sockets, Chat!Hangup(x) PROVE KInv'
    BY <2>1, LeaveStays DEF Chat!Hangup, Chat!alone, Chat!counts
  <2> QED BY <1>3, <2>1, ConnectStays, AcceptedStays, SendStays, NoModelStays, TitleStays,
             CloseSocketStays
<1>4. CASE \E t \in Chat!Posts :
             \/ Chat!Claim(t) \/ Chat!Reply(t) \/ Chat!Diagnose(t)
             \/ Chat!Settle(t) \/ Chat!CancelTask(t)
  <2>1. PICK t \in Chat!Posts :
          \/ Chat!Claim(t) \/ Chat!Reply(t) \/ Chat!Diagnose(t)
          \/ Chat!Settle(t) \/ Chat!CancelTask(t)
    BY <1>4
  <2>2. \E before \in SUBSET Chat!Active :
        \E after \in Chat!Active \cup {"succeeded", "failed", "cancelled"} :
          Chat!Turns(t, before, after)
    <3>1. /\ {"queued"} \in SUBSET Chat!Active /\ {"running"} \in SUBSET Chat!Active
          /\ {"running", "replied"} \in SUBSET Chat!Active /\ {"replied"} \in SUBSET Chat!Active
          /\ {"running", "replied", "failing"} \in SUBSET Chat!Active
          /\ Chat!Active \in SUBSET Chat!Active
          /\ "running" \in Chat!Active /\ "replied" \in Chat!Active /\ "failing" \in Chat!Active
      BY DEF Chat!Active
    <3> QED BY <2>1, <3>1 DEF Chat!Claim, Chat!Reply, Chat!Diagnose, Chat!Settle, Chat!CancelTask
  <2>3. Fewer BY <2>2, TurnsFewer DEF KInv
  <2>4. CASE Chat!Say(t) BY <2>3, <2>4, SayStays
  <2>5. CASE UNCHANGED <<conversation, revived>> /\ Chat!Still BY <2>3, <2>5, TurnStays
  <2> QED BY <2>1, <2>4, <2>5 DEF Chat!Claim, Chat!Reply, Chat!Diagnose, Chat!Settle,
             Chat!CancelTask
<1>5. CASE Chat!BeginDelete
  <2>1. Calmer BY <1>5, Calm DEF Chat!BeginDelete, KInv
  <2> QED BY <1>5, <2>1, HandlerStays DEF Chat!BeginDelete
<1> QED BY <1>1, <1>2, <1>3, <1>4, <1>5, DeleteStays, CrashStays DEF Chat!Next

LEMMA KInvWhole == ASSUME KInv PROVE Chat!ConversationIsWhole
<1>1. Chat!OneReply
  <2> SUFFICES ASSUME NEW m \in Chat!Said, NEW n \in Chat!Said, Same(m, n) PROVE m = n
    BY DEF Chat!OneReply, Same
  <2>1. PICK i, j \in DOMAIN conversation.messages :
          /\ conversation # None
          /\ m = conversation.messages[i] /\ n = conversation.messages[j]
    BY DEF Chat!Said
  <2> QED BY <2>1 DEF KInv, FileIsOrdered, Ordered, Apart
<1> QED BY <1>1 DEF KInv, Chat!ConversationIsWhole

LEMMA ChatStep ==
  ASSUME [Next]_vars, component = "chat"
  PROVE  component' = component /\ [Chat!Next]_(Chat!chatVars)
<1>1. CASE UNCHANGED vars BY <1>1 DEF vars, Chat!chatVars
<1>2. CASE Next
  <2>1. component' = component /\ Chat!Next BY <1>2 DEF Next
  <2> QED BY <2>1
<1> QED BY <1>1, <1>2

(* However sends, late answers, titles, deletions and crashes interleave,  *)
(* the ids of a conversation tell its messages apart, a Run has said one   *)
(* thing in it, a Run under way has the message it answers, and nothing is *)
(* connected to a conversation that is gone (workspace_storage.py          *)
(* _save_message, main.py websocket_chat and delete_session).              *)
THEOREM AlwaysWholeConversation == ASSUME Chatting PROVE Spec => []ConversationIsWhole
<1> DEFINE Inv == component = "chat" => KInv
<1>1. Init => Inv
  <2> SUFFICES ASSUME Init, component = "chat" PROVE KInv OBVIOUS
  <2>1. Chat!Init BY DEF Init
  <2> QED BY <2>1, KInvInit
<1>2. Inv /\ [Next]_vars => Inv'
  <2> SUFFICES ASSUME Inv, [Next]_vars, component' = "chat" PROVE KInv' OBVIOUS
  <2>1. component = "chat" BY DEF Next, vars
  <2>2. KInv BY <2>1
  <2> QED BY <2>1, <2>2, ChatStep, KInvStep
<1>3. Inv => ConversationIsWhole BY KInvWhole DEF ConversationIsWhole
<1> QED BY <1>1, <1>2, <1>3, PTL DEF Spec
HIDE DEF conversation, tab, connected, deleting, unclosed, chatRun, revived,
        sends, boots, deletes
================================================================================
