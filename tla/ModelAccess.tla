---------------------------- MODULE ModelAccess ----------------------------
(***************************************************************************)
(* The model connections (LLMConfigStore), the sign-in and installation of *)
(* the managed Codex (CodingAgentRuntime), and the requests that carry     *)
(* what a provider offers into a connection (llm_discovery).               *)
(*                                                                         *)
(* Granularity: an endpoint runs from one await to the next in one action; *)
(* the command line tool acts in between.  The operations of the store     *)
(* have no await.  A catalog is what it was read from: an account, for the *)
(* connections to Codex, or the configuration of the connection.           *)
(***************************************************************************)
EXTENDS Naturals, FiniteSets

CONSTANTS
  Accounts,     \* accounts one can sign in with
  Profiles,     \* ids of connections
  Endpoints,    \* configurations of the connections to an API
  Asking,       \* concurrent requests
  MaxJobs,      \* bound: requests made, installations counted
  MaxLogins,    \* bound: logins started
  MaxChanges    \* bound: edits of the connections

Nobody == "nobody"
Native == "codex_native"
Absent == "absent"
Parts == {"login", "coding"}
NoSession == 0
Signed == MaxLogins + 1     \* the session shown to those who are signed in already
Sessions == 1 .. Signed

VARIABLES
  account,      \* of the tool's auth.json
  session,      \* _auth_sessions
  statusOf,     \* status of every session made so far
  signing,      \* _auth_tasks, _auth_processes
  generation,   \* _auth_generations
  logouts,      \* _logout_counts
  parts,        \* what is installed
  installing,   \* _install_tasks
  profile,      \* the connections
  lifecycle,    \* _provider_generations
  natives,      \* _native_generation
  chosen,       \* the selected default model
  request,          \* the requests
  jobs, logins, changes   \* for the bounds

authVars == <<account, session, statusOf, signing, generation, logouts, logins>>
partVars == <<parts, installing>>
storeVars == <<profile, lifecycle, natives, chosen, changes>>
modelVars == <<authVars, partVars, storeVars, request, jobs>>

NotSigning == [id |-> NoSession, tool |-> "none", cancelled |-> FALSE]
NoProfile == [config |-> Absent, enabled |-> FALSE, models |-> {}]
NoJob == [does |-> "nothing", at |-> "idle", of |-> Absent, was |-> NoProfile, lifecycle |-> 0,
          natives |-> 0, said |-> FALSE, may |-> FALSE, before |-> <<>>, login |-> <<>>,
          got |-> Nobody, deletion |-> FALSE]

(* What is installed in part is what a failed installation has left.       *)
Init ==
  /\ account \in Accounts \cup {Nobody} /\ session = NoSession /\ statusOf = [s \in Sessions |-> "none"]
  /\ signing = NotSigning /\ generation = 0 /\ logouts = 0
  /\ parts \in {{}, Parts} /\ installing = "no"
  /\ profile = [p \in Profiles |-> NoProfile] /\ lifecycle = [p \in Profiles |-> 0]
  /\ natives = 0 /\ chosen = Absent
  /\ request = [t \in Asking |-> NoJob] /\ jobs = 0 /\ logins = 0 /\ changes = 0

-----------------------------------------------------------------------------
(* The login, as those who wait recognise it (_login_fingerprint).         *)
ShownStatus == IF session = NoSession THEN "signed_out" ELSE statusOf[session]
Fingerprint == <<generation, session, ShownStatus>>

(* A request asks status(): the tool is asked, then the answer is read.    *)
Enter(t, r) == request' = [request EXCEPT ![t] = r]
Move(t, place) == request' = [request EXCEPT ![t].at = place]
Leave(t) == request' = [request EXCEPT ![t] = NoJob]

Begin(t, r) == jobs < MaxJobs /\ request[t] = NoJob /\ jobs' = jobs + 1 /\ Enter(t, r)

ToolSays(t) ==
  /\ request[t].at \in {"status", "status again"} /\ "login" \in parts
  /\ Enter(t, [request[t] EXCEPT !.said = account # Nobody,
                 !.at = IF @ = "status" THEN "said" ELSE "said again"])
  /\ UNCHANGED <<authVars, partVars, storeVars, jobs>>

(* No tool, or it cannot be asked.                                         *)
Fails(t) ==
  /\ request[t].at \in {"status", "status again", "catalog"} /\ Leave(t)
  /\ UNCHANGED <<authVars, partVars, storeVars, jobs>>

(* status(): auth_state is signed_in.                                      *)
AuthState(said) ==
  said /\ logouts = 0 /\ ShownStatus \notin {"starting", "waiting"}
Reads(t) ==
  /\ request[t].at \in {"said", "said again"}
  /\ Enter(t, [request[t] EXCEPT
       !.may = IF request[t].does \in {"sync", "discover"} THEN AuthState(request[t].said)
               ELSE request[t].said /\ logouts = 0,
       !.said = FALSE, !.at = IF @ = "said" THEN "answered" ELSE "answered again"])
  /\ UNCHANGED <<authVars, partVars, storeVars, jobs>>

-----------------------------------------------------------------------------
(* start_auth.                                                             *)
AskLogin(t) ==
  /\ "login" \in parts /\ Begin(t, [NoJob EXCEPT !.does = "login", !.at = "status"])
  /\ UNCHANGED <<authVars, partVars, storeVars>>

StartAuth(t) ==
  /\ request[t].does = "login" /\ request[t].at = "answered" /\ Leave(t)
  /\ \/ request[t].may /\ session' = Signed /\ statusOf' = [statusOf EXCEPT ![Signed] = "signed_in"]
        /\ UNCHANGED <<signing, generation, logins>>
     \/ ~request[t].may /\ signing # NotSigning /\ UNCHANGED <<session, statusOf, signing, generation, logins>>
     \/ /\ ~request[t].may /\ signing = NotSigning /\ logins < MaxLogins /\ logins' = logins + 1
        /\ session' = logins' /\ statusOf' = [statusOf EXCEPT ![logins'] = "starting"]
        /\ signing' = [id |-> logins', tool |-> "asked", cancelled |-> FALSE]
        /\ generation' = generation + 1
  /\ UNCHANGED <<account, logouts, partVars, storeVars, jobs>>

(* _run_device_auth: the code is shown, the tool signs in, its end is seen.*)
ShowCode ==
  /\ signing.tool = "asked" /\ ~signing.cancelled
  /\ statusOf[signing.id] \in {"starting", "waiting"}
  /\ statusOf' = [statusOf EXCEPT ![signing.id] = "waiting"]
  /\ UNCHANGED <<account, session, signing, generation, logouts, logins, partVars, storeVars, request, jobs>>

ToolSignsIn(a) ==
  /\ signing.tool = "asked" /\ account' = a /\ signing' = [signing EXCEPT !.tool = "signed"]
  /\ UNCHANGED <<session, statusOf, generation, logouts, logins, partVars, storeVars, request, jobs>>

LoginEnds(outcome) ==
  /\ signing # NotSigning /\ ~signing.cancelled
  /\ outcome = "signed_in" => signing.tool = "signed"
  /\ statusOf' = [statusOf EXCEPT ![signing.id] =
       IF outcome = "failed" /\ @ \in {"cancelled", "expired"} THEN @ ELSE outcome]
  /\ signing' = NotSigning
  /\ UNCHANGED <<account, session, generation, logouts, logins, partVars, storeVars, request, jobs>>

LoginCancelled ==
  /\ signing.cancelled /\ signing' = NotSigning
  /\ statusOf' = [statusOf EXCEPT ![signing.id] = IF @ = "expired" THEN @ ELSE "cancelled"]
  /\ UNCHANGED <<account, session, generation, logouts, logins, partVars, storeVars, request, jobs>>

-----------------------------------------------------------------------------
(* clear_coding_agent_auth: cancel_auth, or logout when signed in.         *)
AskLogout(t) ==
  /\ Begin(t, [NoJob EXCEPT !.does = "logout", !.at = "status"])
  /\ UNCHANGED <<authVars, partVars, storeVars>>

(* cancel_auth up to its await, with what logout does before it.           *)
CancelAuth(bumps) ==
  /\ statusOf' = IF session = NoSession THEN statusOf ELSE [statusOf EXCEPT ![session] = "cancelled"]
  /\ signing' = IF signing = NotSigning THEN signing ELSE [signing EXCEPT !.cancelled = TRUE]
  /\ generation' = generation + bumps + (IF signing = NotSigning THEN 0 ELSE 1)

ClearAuth(t) ==
  /\ request[t].does = "logout" /\ request[t].at = "answered"
  /\ IF request[t].may
     THEN CancelAuth(1) /\ logouts' = logouts + 1 /\ Move(t, "cancelling")
     ELSE CancelAuth(0) /\ Leave(t) /\ UNCHANGED logouts
  /\ UNCHANGED <<account, session, logins, partVars, storeVars, jobs>>

ToolSignsOut(t) ==
  /\ request[t].at = "cancelling" /\ ~signing.cancelled
  /\ \/ account' = Nobody /\ Enter(t, [request[t] EXCEPT !.at = "signed out", !.said = TRUE])
     \/ UNCHANGED account /\ Enter(t, [request[t] EXCEPT !.at = "signed out", !.said = FALSE])
  /\ UNCHANGED <<session, statusOf, signing, generation, logouts, logins, partVars, storeVars, jobs>>

LogoutEnds(t) ==
  /\ request[t].at = "signed out" /\ Leave(t)
  /\ session' = IF request[t].said THEN NoSession ELSE session
  /\ logouts' = logouts - 1 /\ generation' = generation + 1
  /\ UNCHANGED <<account, statusOf, signing, logins, partVars, storeVars, jobs>>

-----------------------------------------------------------------------------
(* start_install, _install: one part after the other, each put in place    *)
(* whole once its checksum and version were verified, or not at all.  The  *)
(* companion of the coding tool counts as part of it.                      *)
StartInstall ==
  /\ installing = "no" /\ parts # Parts /\ installing' = "yes"
  /\ jobs < MaxJobs /\ jobs' = jobs + 1
  /\ UNCHANGED <<authVars, parts, storeVars, request>>
InstallPart ==
  /\ installing = "yes"
  /\ \/ parts = {} /\ parts' = {"login"} /\ UNCHANGED installing
     \/ parts = {"login"} /\ parts' = Parts /\ installing' = "no"
  /\ UNCHANGED <<authVars, storeVars, request, jobs>>
InstallFails ==
  /\ installing = "yes" /\ installing' = "no"
  /\ UNCHANGED <<authVars, parts, storeVars, request, jobs>>

-----------------------------------------------------------------------------
(* The store: create_provider, update_provider, delete_provider, and the   *)
(* selections that keep a connection from being deleted (update_settings,  *)
(* update_session_model).                                                  *)
IsNative(config) == config = Native
Recorded(p, before, after) ==
  /\ lifecycle' = [lifecycle EXCEPT ![p] = @ + 1]
  /\ natives' = IF Native \in {before, after} THEN natives + 1 ELSE natives
Changing == changes < MaxChanges /\ changes' = changes + 1

CreateProvider(p, config) ==
  /\ Changing /\ profile[p].config = Absent
  /\ profile' = [profile EXCEPT ![p] = [config |-> config, enabled |-> TRUE, models |-> {}]]
  /\ Recorded(p, Absent, config)
  /\ UNCHANGED <<authVars, partVars, chosen, request, jobs>>

UpdateProvider(p, config, enabled) ==
  /\ Changing /\ profile[p].config # Absent
  /\ <<config, enabled>> # <<profile[p].config, profile[p].enabled>>
  /\ profile' = [profile EXCEPT ![p].config = config, ![p].enabled = enabled]
  /\ Recorded(p, profile[p].config, config)
  /\ UNCHANGED <<authVars, partVars, chosen, request, jobs>>

DropModels(p) ==
  /\ Changing /\ profile[p].models # {} /\ chosen # p
  /\ profile' = [profile EXCEPT ![p].models = {}]
  /\ UNCHANGED <<authVars, partVars, lifecycle, natives, chosen, request, jobs>>

DeleteProvider(p) ==
  /\ Changing /\ profile[p].config # Absent /\ chosen # p
  /\ profile' = [profile EXCEPT ![p] = NoProfile]
  /\ Recorded(p, profile[p].config, Absent)
  /\ request' = [t \in Asking |-> [request[t] EXCEPT !.deletion = @ \/ IsNative(profile[p].config)]]
  /\ UNCHANGED <<authVars, partVars, chosen, jobs>>

Choose(p) ==
  /\ chosen # p /\ profile[p].enabled /\ profile[p].models # {} /\ chosen' = p
  /\ UNCHANGED <<authVars, partVars, profile, lifecycle, natives, changes, request, jobs>>

-----------------------------------------------------------------------------
(* sync_codex_connection and discover_models.                              *)
Natives == {p \in Profiles : IsNative(profile[p].config)}
Enabled(ps) == {p \in ps : profile[p].enabled}

AskSync(t) ==
  /\ Natives = {} \/ Enabled(Natives) # {}
  /\ \E p \in IF Natives = {} THEN {Absent} ELSE Enabled(Natives) :
       Begin(t, [NoJob EXCEPT !.does = "sync", !.at = "status", !.of = p, !.natives = natives,
                   !.was = IF p = Absent THEN NoProfile ELSE profile[p],
                   !.lifecycle = IF p = Absent THEN 0 ELSE lifecycle[p], !.before = Fingerprint])
  /\ UNCHANGED <<authVars, partVars, storeVars>>

AskDiscover(t, p) ==
  /\ profile[p].config # Absent
  /\ Begin(t, [NoJob EXCEPT !.does = "discover", !.of = p, !.was = profile[p],
                 !.at = IF IsNative(profile[p].config) THEN "status" ELSE "catalog",
                 !.lifecycle = lifecycle[p],
                 !.before = IF IsNative(profile[p].config) THEN Fingerprint ELSE <<>>])
  /\ UNCHANGED <<authVars, partVars, storeVars>>

(* _stable_codex_login.  Mutant: signed in then and signed in now will do. *)
StableAs(t, expected) == request[t].may
Stable(t, expected) ==
  request[t].may /\ request[t].before = Fingerprint /\ (expected # <<>> => Fingerprint = expected)

LoginIsStable(t) ==
  /\ request[t].does \in {"sync", "discover"} /\ request[t].at = "answered"
  /\ IF Stable(t, <<>>) THEN Enter(t, [request[t] EXCEPT !.at = "catalog", !.login = Fingerprint])
     ELSE Leave(t)
  /\ UNCHANGED <<authVars, partVars, storeVars, jobs>>

(* CodingAgentRuntime.models: an installed tool lists the models of its    *)
(* login, if it has one.                                                   *)
ListsModels == account # Nobody /\ {"login", "coding"} \subseteq parts

(* The catalog is read (_codex_catalog, or one request to the endpoint).   *)
ReadCatalog(t) ==
  /\ request[t].at = "catalog"
  /\ IF request[t].login = <<>>
     THEN Enter(t, [request[t] EXCEPT !.got = request[t].was.config, !.at = "store"])
     ELSE /\ ListsModels
          /\ Enter(t, [request[t] EXCEPT !.got = account, !.at = "status again", !.before = Fingerprint])
  /\ UNCHANGED <<authVars, partVars, storeVars, jobs>>

(* What the request saw is still so; merged into what is there now.        *)
Same(t, p) == [profile[p] EXCEPT !.models = {}] = [request[t].was EXCEPT !.models = {}]
(* Mutant: it is enough that the connection still exists.                  *)
UnchangedAs(t) == profile[request[t].of].config # Absent
Unchanged(t) ==
  LET p == request[t].of IN
  /\ Same(t, p)
  /\ request[t].login # <<>> => lifecycle[p] = request[t].lifecycle
Merge(t, p) ==
  /\ profile' = [profile EXCEPT ![p].models = @ \cup {request[t].got}]
  /\ UNCHANGED <<lifecycle, natives>>
Refuse == UNCHANGED <<profile, lifecycle, natives>>

(* A sync that found no connection makes one, or joins another sync's.     *)
(* Mutant: what has changed meanwhile is not looked at.                    *)
MayJoinAs(t) == Natives # {} => Enabled(Natives) # {}
MayJoin(t) ==
  LET change == natives - request[t].natives IN
  IF Natives = {} THEN change = 0 ELSE Enabled(Natives) # {} /\ change <= 1
MakeOrJoin(t) ==
  IF Natives # {} THEN \E p \in Enabled(Natives) : Merge(t, p)
  ELSE \E p \in {q \in Profiles : profile[q].config = Absent} :
       /\ profile' = [profile EXCEPT ![p] =
            [config |-> Native, enabled |-> TRUE, models |-> {request[t].got}]]
       /\ Recorded(p, Absent, Native)

Store(t) ==
  /\ \/ request[t].at = "store"
     \/ request[t].at = "answered again"
  /\ Leave(t)
  /\ IF request[t].at = "answered again" /\ ~Stable(t, request[t].login) THEN Refuse
     ELSE IF request[t].of # Absent
     THEN IF Unchanged(t) THEN Merge(t, request[t].of) ELSE Refuse
     ELSE IF MayJoin(t) /\ (Natives = {} => \E q \in Profiles : profile[q].config = Absent)
     THEN MakeOrJoin(t) ELSE Refuse
  /\ UNCHANGED <<authVars, partVars, chosen, changes, jobs>>

Next ==
  \/ \E t \in Asking :
       \/ ToolSays(t) \/ Fails(t) \/ Reads(t) \/ AskLogin(t) \/ StartAuth(t) \/ AskLogout(t)
       \/ ClearAuth(t) \/ ToolSignsOut(t) \/ LogoutEnds(t) \/ AskSync(t) \/ LoginIsStable(t)
       \/ ReadCatalog(t) \/ Store(t) \/ \E p \in Profiles : AskDiscover(t, p)
  \/ ShowCode \/ LoginCancelled \/ \E a \in Accounts : ToolSignsIn(a)
  \/ \E outcome \in {"signed_in", "failed", "expired"} : LoginEnds(outcome)
  \/ StartInstall \/ InstallPart \/ InstallFails
  \/ \E p \in Profiles :
       \/ DropModels(p) \/ DeleteProvider(p) \/ Choose(p)
       \/ \E config \in Endpoints \cup {Native} :
            CreateProvider(p, config) \/ \E enabled \in BOOLEAN : UpdateProvider(p, config, enabled)

Spec == Init /\ [][Next]_modelVars

-----------------------------------------------------------------------------
TypeOK ==
  /\ account \in Accounts \cup {Nobody} /\ session \in Sessions \cup {NoSession}
  /\ signing.id \in 0 .. MaxLogins /\ logouts \in 0 .. Cardinality(Asking)
  /\ parts \subseteq Parts /\ installing \in {"no", "yes"}
  /\ \A p \in Profiles :
       /\ profile[p].config \in Endpoints \cup {Native, Absent} /\ profile[p].enabled \in BOOLEAN
       /\ profile[p].models \subseteq Accounts \cup Endpoints
  /\ chosen \in Profiles \cup {Absent}

(* What a request adds to a connection to Codex was listed under the login *)
(* that is still there, however one signed out and in again while the      *)
(* request was waiting (_stable_codex_login, sync_codex_connection,        *)
(* discover_models).                                                       *)
CodexCatalogIsCurrent ==
  \A p \in Profiles : profile'[p].config = Native =>
    profile'[p].models \subseteq profile[p].models \cup {account'}

(* What a request adds to any other connection was read from the endpoint  *)
(* it has now, however the connection was edited, or deleted and made      *)
(* again, while the request was waiting (discover_models).                 *)
EndpointCatalogIsCurrent ==
  \A p \in Profiles : profile'[p].config # Native =>
    profile'[p].models \subseteq profile[p].models \cup {profile'[p].config}

(* A sync does not bring back a connection the user deleted while it was   *)
(* under way (sync_codex_connection).                                      *)
SyncRespectsDeletion ==
  \A t \in Asking : request[t].deletion /\ Store(t) =>
    \A p \in Profiles : ~(profile[p].config = Absent /\ profile'[p].config = Native)

(* The connections offer what was read from where they lead now, whatever  *)
(* the user did while a request was waiting (llm_discovery.py              *)
(* sync_codex_connection, discover_models).                                *)
ModelsAreCurrentStep ==
  profile' # profile => CodexCatalogIsCurrent /\ EndpointCatalogIsCurrent /\ SyncRespectsDeletion
ModelsAreCurrent == [][ModelsAreCurrentStep]_modelVars
=============================================================================
