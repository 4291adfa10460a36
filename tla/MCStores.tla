------------------------------ MODULE MCStores ------------------------------
(***************************************************************************)
(* TLC instance of the stores that several windows or a remote service     *)
(* change at once (launcher layout, Skill registry, remote grant, model    *)
(* connections) and of the live lane of a chat.  As in MCServices, a       *)
(* behaviour is one of the component it picks.                             *)
(***************************************************************************)
EXTENDS Naturals, Sequences, FiniteSets, TLC

CONSTANTS
  Apps, Caps, OtherItems, Folders, Clients, MaxLayouts, NoUI, Bundled,
  External, ByHash, Packages, Users, Unguarded, Chats, MaxRevision, None,
  QueueSize, MaxAttempt, MaxChunk, MaxEvents, MaxPairings, MaxClaims,
  MaxRunners, MaxCrashes, Accounts, Profiles, Endpoints, Asking, MaxJobs,
  MaxLogins, MaxChanges

VARIABLES component, v1, v2, v3, v4, v5, v6, v7, v8, v9, v10, v11, v12, v13, v14, v15, v16

vars == <<component, v1, v2, v3, v4, v5, v6, v7, v8, v9, v10, v11, v12, v13, v14, v15, v16>>

Center == INSTANCE Launcher WITH
  Skills <- OtherItems, MaxRevision <- MaxLayouts, apps <- v1,
  skills <- v2, registry <- v3, generating <- v4, run <- v5, owed <- v6,
  shelf <- v7, view <- v8
Skill == INSTANCE Skills WITH
  offer <- v1, sourceOff <- v2, row <- v3, revision <- v4, disk <- v5,
  seen <- v6, chat <- v7, consent <- v8
Lane == INSTANCE LiveLane WITH
  phase <- v1, attempt <- v2, active <- v3, settled <- v4, said <- v5,
  wholes <- v6, durable <- v7, queue <- v8, lane <- v9, sent <- v10,
  heard <- v11, batch <- v12, chatView <- v13, answers <- v14
Remote == INSTANCE RemoteGrant WITH
  MaxRestarts <- MaxCrashes, store <- v1, cloud <- v2, due <- v3,
  runner <- v4, current <- v5, tunnel <- v6, open <- v7, channels <- v8,
  op <- v9, confirmed <- v10, dropped <- v11, restarts <- v12
Models == INSTANCE ModelAccess WITH
  account <- v1, session <- v2, statusOf <- v3, signing <- v4,
  generation <- v5, logouts <- v6, parts <- v7, installing <- v8,
  profile <- v9, lifecycle <- v10, natives <- v11, chosen <- v12,
  request <- v13, jobs <- v14, logins <- v15, changes <- v16

TwoPackages == {<<1, "x">>, <<2, "x">>}

(* The variables a component does not use.                                 *)
Above8 == <<v9, v10, v11, v12, v13, v14, v15, v16>>
Above12 == <<v13, v14, v15, v16>>
Above14 == <<v15, v16>>

Init ==
  \/ component = "center" /\ Center!Init
     /\ v9 = None /\ v10 = None /\ v11 = None /\ v12 = None /\ v13 = None /\ v14 = None
     /\ v15 = None /\ v16 = None
  \/ component = "skill" /\ Skill!Init /\ v1 = [s \in Bundled \cup External |-> <<1, "x">>]
     /\ v9 = None /\ v10 = None /\ v11 = None /\ v12 = None /\ v13 = None /\ v14 = None
     /\ v15 = None /\ v16 = None
  \/ component = "live" /\ Lane!Init
     /\ v15 = None /\ v16 = None
  \/ component = "remote" /\ Remote!Init
     /\ v13 = None /\ v14 = None /\ v15 = None /\ v16 = None
  \/ component = "models" /\ Models!Init

Next ==
  /\ UNCHANGED component
  /\ \/ component = "center" /\ Center!Next /\ UNCHANGED Above8
     \/ component = "skill" /\ Skill!Next /\ UNCHANGED Above8
     \/ component = "live" /\ Lane!Next /\ UNCHANGED Above14
     \/ component = "remote" /\ Remote!Next /\ UNCHANGED Above12
     \/ component = "models" /\ Models!Next

Spec == Init /\ [][Next]_vars

(* Accounts, connections and requests are each alike; no other component   *)
(* has them.                                                               *)
Symmetry == Permutations(Accounts) \cup Permutations(Profiles) \cup Permutations(Asking)

(* The properties of the components, stated where they are defined.        *)
ShelfIsTrue == component = "center" => Center!ShelfIsTrue
PassesWithConsent == [][component = "skill" => Skill!PassesWithConsentStep]_vars
LiveTextIsTrue == component = "live" => Lane!TypeOK /\ Lane!LiveTextIsTrue
GrantIsHonoured == [][component = "remote" => Remote!GrantIsHonouredStep]_vars
ModelsAreCurrent ==
  [][component = "models" => Models!TypeOK /\ Models!ModelsAreCurrentStep]_vars
=============================================================================
