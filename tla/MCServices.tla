----------------------------- MODULE MCServices -----------------------------
(***************************************************************************)
(* TLC instance of the components that share no variable with the Run      *)
(* store or with each other.  A behaviour picks one of them and is a       *)
(* behaviour of it.  The variables of the picked component are held in     *)
(* v1, v2, ..., in the order in which it declares them; the others are     *)
(* not used.                                                               *)
(***************************************************************************)
EXTENDS Naturals, Sequences, FiniteSets, TLC

CONSTANTS
  Promos, Dels, MaxThreads, MaxEdits, Mishaps, MaxMishaps,
  Sockets, MaxContexts, MaxLaunches, Targets, Widgets, Ids, Calls,
  MaxCommits, Producers, BatchLimit, Window, MaxTries, MaxSequence,
  MaxEpoch, Tasks, Stoppers, Manifests, MaxClients, MaxCancels, ToolCalls,
  Folders, Texts, Findings, MaxPending, MaxMessages, MaxRepairs, MaxStops,
  Builders, Composite, NewEntities, Extensions, None, MaxHarm, MaxSends,
  MaxBoots, MaxDeletes, Windows, MaxMounts, MaxCalls, MaxSessions,
  MaxVersion, Runs, g1, g2, MaxBatches, MaxAttempts, MaxRetried, MaxCrashes

VARIABLES component, v1, v2, v3, v4, v5, v6, v7, v8, v9, v10, v11, v12, v13, v14, v15, v16, v17,
    v18, v19

vars == <<component, v1, v2, v3, v4, v5, v6, v7, v8, v9, v10, v11, v12, v13, v14, v15, v16, v17,
          v18, v19>>

(* Sagas of one and of two batches that need or delete what an earlier     *)
(* batch of the same Run has made, or change what the other Run has.       *)
OneEdge == {<<g1, g2>>}
CreateNode == << <<"create_node", g2>> >>
CreateBoth == << <<"create_node", g2>>, <<"create_edge", <<g1, g2>> >> >>
CreateEdge == << <<"create_edge", <<g1, g2>> >> >>
UpdateNode == << <<"update_node_property", g1>> >>
DeleteNode == << <<"delete_node", g1>> >>
DeleteEdge == << <<"delete_edge", <<g1, g2>> >> >>
SomePlans ==
  { <<CreateBoth, DeleteNode>>, <<CreateNode, CreateEdge>>,
    <<UpdateNode>>, <<CreateEdge>>, <<DeleteEdge>> }

Dir == INSTANCE AppDirectory WITH
  live <- v1, stage <- v2, backup <- v3, journal <- v4, thread <- v5,
  tomb <- v6, record <- v7, proc <- v8, mishaps <- v9, wish <- v10
Chromium == INSTANCE RuntimeBrowser WITH
  browser <- v1, launch <- v2, closing <- v3, idleTimer <- v4,
  activeLeases <- v5, fatalError <- v6, shuttingDown <- v7, alive <- v8,
  events <- v9, launched <- v10, intentional <- v11, failedClose <- v12,
  job <- v13, runtimeClosed <- v14, exit <- v15
Feed == INSTANCE GraphFeed WITH
  data <- v1, commits <- v2, granted <- v3, opened <- v4, subs <- v5,
  last <- v6, line <- v7, shown <- v8, call <- v9
Stream == INSTANCE EventStream WITH
  epoch <- v1, rows <- v2, highest <- v3, ended <- v4, link <- v5,
  asked <- v6, position <- v7, frames <- v8, cursor <- v9,
  replaying <- v10, gap <- v11, known <- v12, timer <- v13, tries <- v14,
  status <- v15, listening <- v16, base <- v17, projected <- v18
Backend == INSTANCE BackendApps WITH
  installed <- v1, permitted <- v2, holder <- v3, registered <- v4,
  clients <- v5, at <- v6, wants <- v7, uses <- v8, future <- v9,
  cancels <- v10, agentStatus <- v11
Saga == INSTANCE GraphSaga WITH
  Nodes <- {g1, g2}, Pairs <- OneEdge, FirstNodes <- {g1}, Plans <- SomePlans,
  graph <- v1, ledger <- v2, undone <- v3, saga <- v4, task <- v5,
  applied <- v6, crashes <- v7
Coding == INSTANCE CodingSession WITH
  Files <- Folders, MaxSessions <- MaxContexts, turn <- v1, patching <- v2,
  promotes <- v3, owns <- v4, agent <- v5, terminal <- v6, file <- v7,
  evidence <- v8, order <- v9, shows <- v10, grants <- v11, found <- v12,
  repairs <- v13, ending <- v14, outcome <- v15, staging <- v16,
  messages <- v17, stops <- v18, rounds <- v19
Build == INSTANCE WidgetBuild WITH
  build <- v1, writer <- v2, ontology <- v3, effects <- v4, inUse <- v5,
  liveApp <- v6, consented <- v7, harm <- v8
Chat == INSTANCE ChatSessions WITH
  Tabs <- Sockets, conversation <- v1, tab <- v2, connected <- v3,
  deleting <- v4, unclosed <- v5, chatRun <- v6, revived <- v7,
  sends <- v8, boots <- v9, deletes <- v10
Host == INSTANCE WidgetHost WITH
  app <- v1, tickets <- v2, issued <- v3, mount <- v4, sessions <- v5,
  serving <- v6, up <- v7, down <- v8, runs <- v9, answered <- v10

(* The variables a component does not use.                                 *)
Above7 == <<v8, v9, v10, v11, v12, v13, v14, v15, v16, v17, v18, v19>>
Above8 == <<v9, v10, v11, v12, v13, v14, v15, v16, v17, v18, v19>>
Above9 == <<v10, v11, v12, v13, v14, v15, v16, v17, v18, v19>>
Above10 == <<v11, v12, v13, v14, v15, v16, v17, v18, v19>>
Above11 == <<v12, v13, v14, v15, v16, v17, v18, v19>>
Above15 == <<v16, v17, v18, v19>>
Above18 == <<v19>>

Init ==
  \/ component = "directory" /\ Dir!Init
     /\ v11 = None /\ v12 = None /\ v13 = None /\ v14 = None /\ v15 = None /\ v16 = None
     /\ v17 = None /\ v18 = None /\ v19 = None
  \/ component = "chromium" /\ Chromium!Init
     /\ v16 = None /\ v17 = None /\ v18 = None /\ v19 = None
  \/ component = "feed" /\ Feed!Init
     /\ v10 = None /\ v11 = None /\ v12 = None /\ v13 = None /\ v14 = None /\ v15 = None
     /\ v16 = None /\ v17 = None /\ v18 = None /\ v19 = None
  \/ component = "stream" /\ Stream!Init
     /\ v19 = None
  \/ component = "backend" /\ Backend!Init
     /\ v12 = None /\ v13 = None /\ v14 = None /\ v15 = None /\ v16 = None /\ v17 = None
     /\ v18 = None /\ v19 = None
  \/ component = "saga" /\ Saga!Init
     /\ v8 = None /\ v9 = None /\ v10 = None /\ v11 = None /\ v12 = None /\ v13 = None
     /\ v14 = None /\ v15 = None /\ v16 = None /\ v17 = None /\ v18 = None /\ v19 = None
  \/ component = "coding" /\ Coding!Init
  \/ component = "build" /\ Build!Init
     /\ v9 = None /\ v10 = None /\ v11 = None /\ v12 = None /\ v13 = None /\ v14 = None
     /\ v15 = None /\ v16 = None /\ v17 = None /\ v18 = None /\ v19 = None
  \/ component = "chat" /\ Chat!Init
     /\ v11 = None /\ v12 = None /\ v13 = None /\ v14 = None /\ v15 = None /\ v16 = None
     /\ v17 = None /\ v18 = None /\ v19 = None
  \/ component = "widget" /\ Host!Init
     /\ v11 = None /\ v12 = None /\ v13 = None /\ v14 = None /\ v15 = None /\ v16 = None
     /\ v17 = None /\ v18 = None /\ v19 = None

Next ==
  /\ UNCHANGED component
  /\ \/ component = "directory" /\ Dir!Next /\ UNCHANGED Above10
     \/ component = "chromium" /\ Chromium!Next /\ UNCHANGED Above15
     \/ component = "feed" /\ Feed!Next /\ UNCHANGED Above9
     \/ component = "stream" /\ Stream!Next /\ UNCHANGED Above18
     \/ component = "backend" /\ Backend!Next /\ UNCHANGED Above11
     \/ component = "saga" /\ Saga!Next /\ UNCHANGED Above7
     \/ component = "coding" /\ Coding!Next
     \/ component = "build" /\ Build!Next /\ UNCHANGED Above8
     \/ component = "chat" /\ Chat!Next /\ UNCHANGED Above10
     \/ component = "widget" /\ Host!Next /\ UNCHANGED Above10

Spec == Init /\ [][Next]_vars

(* The Runs of sagas are alike; no other component has them.               *)
Symmetry == Permutations(Runs)

(* The properties of the components, stated where they are defined.        *)
ServicesTypeOK ==
  /\ component = "directory" => Dir!TypeOK
  /\ component = "chromium" => Chromium!TypeOK
  /\ component = "feed" => Feed!TypeOK
  /\ component = "stream" => Stream!TypeOK
  /\ component = "backend" => Backend!TypeOK
  /\ component = "coding" => Coding!TypeOK
  /\ component = "build" => Build!TypeOK
  /\ component = "chat" => Chat!TypeOK
  /\ component = "widget" => Host!TypeOK
DirectoryIsWhole == component = "directory" => Dir!DirectoryIsWhole
LastPublished == component = "directory" => Dir!LastPublished
BrowserIsShared == component = "chromium" => Chromium!BrowserIsShared
NeverBackwards == [][component = "feed" => Feed!NeverBackwardsStep]_vars
NothingSkipped == component = "stream" => Stream!NothingSkipped
CallsAreServed == component = "backend" => Backend!CallsAreServed
UndoIsExact == [][component = "saga" => Saga!UndoIsExactStep]_vars
GrantCoversReport == [][component = "coding" => Coding!GrantCoversReportStep]_vars
QuietStaging == component = "coding" => Coding!QuietStaging
BuildIsWhole == component = "build" => Build!BuildIsWhole
ConversationIsWhole == component = "chat" => Chat!ConversationIsWhole
AnsweredForAsker == component = "widget" => Host!AnsweredForAsker
=============================================================================
