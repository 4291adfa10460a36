------------------------------- MODULE Skills -------------------------------
(***************************************************************************)
(* Instruction Skills: the registry of installed packages with its         *)
(* compare-and-swap revision, the authorization of external packages bound *)
(* to their exact bytes, and their use by Agent Runs, which pin what they  *)
(* selected and check the live registry again before each model call.      *)
(*                                                                         *)
(* Granularity: one action per registry transaction.  The routes run in a  *)
(* thread pool, so they interleave with the two reads of the check.        *)
(* A package is a version and its bytes; manifests, ontology references    *)
(* and scores are abstracted to whether a Skill is offered or matches.     *)
(***************************************************************************)
EXTENDS Naturals, FiniteSets, Sequences

CONSTANTS
  Bundled,      \* Skills shipped with the server
  External,     \* Skills of other catalog sources
  ByHash,       \* External ones updated by content hash, not by version
  Packages,     \* <<version, bytes>>; its digest is the pair
  Users,        \* windows of the operator, and other clients
  Unguarded,    \* those that send no expected revision
  Chats,        \* Agent Runs
  MaxRevision,  \* bound: revision of the registry
  None

VARIABLES
  offer,        \* the package of each Skill in its catalog source
  sourceOff,    \* Skills whose source is switched off
  row,          \* table skill_installations
  revision,     \* table skill_registry_meta
  disk,         \* packages directory: ok, missing or corrupt
  seen,         \* what each window shows
  chat,         \* the checkpoint of each Run and its check
  consent       \* ghost: <<skill, package, policy>> a user granted and nobody withdrew

registryVars == <<offer, sourceOff, row, revision, disk, consent>>
vars == <<registryVars, seen, chat>>

AllSkills == Bundled \cup External
Policies == {"explicit_only", "implicit"}

Row(pkg, enabled, auth, policy) == [pkg |-> pkg, enabled |-> enabled, auth |-> auth, policy |-> policy]

(* install: what a package that replaces or joins the registry may do.     *)
(* Mutant: an update keeps the grant of the bytes it replaces.             *)
InstalledAs(s, pkg) ==
  IF s \in Bundled
  THEN Row(pkg, IF row[s] = None THEN TRUE ELSE row[s].enabled, "trusted", "implicit")
  ELSE IF row[s] = None THEN Row(pkg, FALSE, "quarantined", "none") ELSE [row[s] EXCEPT !.pkg = pkg]

Installed(s, pkg) ==
  IF s \in Bundled
  THEN Row(pkg, IF row[s] = None THEN TRUE ELSE row[s].enabled, "trusted", "implicit")
  ELSE Row(pkg, FALSE, "quarantined", "none")

(* Which package may replace an installed one: a later version, or for     *)
(* content-addressed sources any other revision.                           *)
MayReplace(s, pkg) ==
  row[s] # None /\ row[s].pkg # pkg =>
    IF s \in ByHash THEN row[s].pkg[1] # pkg[1] ELSE row[s].pkg[1] < pkg[1]

(* _ensure_package: a missing package is written, a corrupt one refused.   *)
Storable(pkg) == disk[pkg] # "corrupt"
Readable(pkg) == disk[pkg] = "ok"

Init ==
  /\ offer \in [AllSkills -> Packages]
  /\ sourceOff = {}
  /\ row = [s \in AllSkills |-> None] /\ revision = 0
  /\ disk = [p \in Packages |-> "missing"]
  /\ seen = [u \in Users |-> [revision |-> 0, row |-> row]]
  /\ chat = [c \in Chats |-> [stage |-> "new", pins |-> {}, todo |-> {}, first |-> None]]
  /\ consent = {}

(* _transaction: the revision a window shows is the one it expects.        *)
Admits(u) == revision < MaxRevision /\ (u \in Unguarded \/ seen[u].revision = revision)
Commit(rows) == row' = rows /\ revision' = revision + 1
Withdrawn(s) == {g \in consent : g[1] # s}

-----------------------------------------------------------------------------
(* GET /api/skill-market and GET /api/app-store.                           *)
Look(u) ==
  /\ seen' = [seen EXCEPT ![u] = [revision |-> revision, row |-> row]]
  /\ UNCHANGED <<registryVars, chat>>

(* POST /api/skills/install, for a new Skill and for an update.  The same  *)
(* package again only makes sure that its files are there.                 *)
Install(u, s) ==
  LET pkg == offer[s] IN
  /\ s \notin sourceOff /\ Admits(u) /\ MayReplace(s, pkg) /\ Storable(pkg)
  /\ disk' = [disk EXCEPT ![pkg] = "ok"]
  /\ IF row[s] # None /\ row[s].pkg = pkg
     THEN UNCHANGED <<row, revision, consent>>
     ELSE Commit([row EXCEPT ![s] = Installed(s, pkg)]) /\ consent' = Withdrawn(s)
  /\ UNCHANGED <<offer, sourceOff, seen, chat>>

(* PATCH /api/skills/{id}.                                                 *)
SetEnabled(u, s, enabled) ==
  /\ Admits(u) /\ row[s] # None /\ row[s].enabled # enabled
  /\ enabled => row[s].auth # "quarantined" /\ Readable(row[s].pkg)
  /\ Commit([row EXCEPT ![s].enabled = enabled])
  /\ UNCHANGED <<offer, sourceOff, disk, seen, chat, consent>>

(* PATCH /api/skills/{id}/authorization with the digest the window shows.  *)
(* Mutant: the digest in the request is not compared.                      *)
AuthorizeAs(u, s, policy) ==
  /\ Admits(u) /\ row[s] # None /\ seen[u].row[s] # None
  /\ IF row[s].auth = "trusted" THEN policy = "implicit" /\ ~row[s].enabled /\ Readable(row[s].pkg)
     ELSE IF policy = "none" THEN row[s].auth # "quarantined" ELSE Readable(row[s].pkg)
  /\ Commit([row EXCEPT ![s] =
       IF row[s].auth = "trusted" THEN [@ EXCEPT !.enabled = TRUE]
       ELSE IF policy = "none" THEN Row(@.pkg, FALSE, "quarantined", "none")
       ELSE Row(@.pkg, TRUE, "authorized", policy)])
  /\ consent' = IF policy = "none" THEN Withdrawn(s) ELSE Withdrawn(s) \cup {<<s, seen[u].row[s].pkg, policy>>}
  /\ UNCHANGED <<offer, sourceOff, disk, seen, chat>>

Authorize(u, s, policy) ==
  /\ Admits(u) /\ row[s] # None /\ seen[u].row[s] # None
  /\ seen[u].row[s].pkg = row[s].pkg
  /\ IF row[s].auth = "trusted" THEN policy = "implicit" /\ ~row[s].enabled /\ Readable(row[s].pkg)
     ELSE IF policy = "none" THEN row[s].auth # "quarantined" ELSE Readable(row[s].pkg)
  /\ Commit([row EXCEPT ![s] =
       IF row[s].auth = "trusted" THEN [@ EXCEPT !.enabled = TRUE]
       ELSE IF policy = "none" THEN Row(@.pkg, FALSE, "quarantined", "none")
       ELSE Row(@.pkg, TRUE, "authorized", policy)])
  /\ consent' = IF policy = "none" THEN Withdrawn(s) ELSE Withdrawn(s) \cup {<<s, seen[u].row[s].pkg, policy>>}
  /\ UNCHANGED <<offer, sourceOff, disk, seen, chat>>

(* DELETE /api/skills/{id}; the package stays as a cache.                  *)
Uninstall(u, s) ==
  /\ Admits(u) /\ row[s] # None
  /\ Commit([row EXCEPT ![s] = None]) /\ consent' = Withdrawn(s)
  /\ UNCHANGED <<offer, sourceOff, disk, seen, chat>>

(* PATCH /api/skill-market/sources/{id}: what is installed stays.          *)
SetSource(u, s) ==
  /\ s \in External /\ Admits(u)
  /\ sourceOff' = IF s \in sourceOff THEN sourceOff \ {s} ELSE sourceOff \cup {s}
  /\ revision' = revision + 1
  /\ UNCHANGED <<offer, row, disk, seen, chat, consent>>

(* The source offers another package; files of the cache are damaged.      *)
Offer(s) ==
  /\ \E pkg \in Packages : offer' = [offer EXCEPT ![s] = pkg]
  /\ UNCHANGED <<sourceOff, row, revision, disk, seen, chat, consent>>
Damage(pkg) ==
  /\ disk[pkg] = "ok"
  /\ \E harm \in {"missing", "corrupt"} : disk' = [disk EXCEPT ![pkg] = harm]
  /\ UNCHANGED <<offer, sourceOff, row, revision, seen, chat, consent>>

-----------------------------------------------------------------------------
Turn(c, next) == chat' = [chat EXCEPT ![c] = next] /\ UNCHANGED <<registryVars, seen>>
Usable(s) == row[s] # None /\ row[s].enabled /\ row[s].auth # "quarantined"
Pin(s) == [skill |-> s, pkg |-> row[s].pkg, policy |-> row[s].policy]

(* _select_active_skills: once per Run.  Skills the message names must all *)
(* be usable; else those match whose policy is implicit and whose package  *)
(* can be read, as far as they fit.                                        *)
Select(c) ==
  /\ chat[c].stage = "new"
  /\ \/ \E named \in SUBSET AllSkills \ {{}} :
          IF \A s \in named : Usable(s) /\ Readable(row[s].pkg)
          THEN Turn(c, [chat[c] EXCEPT !.stage = "pinned", !.pins = {Pin(s) : s \in named}])
          ELSE Turn(c, [chat[c] EXCEPT !.stage = "failed"])
     \/ \E some \in SUBSET {s \in AllSkills : Usable(s) /\ row[s].policy = "implicit" /\ Readable(row[s].pkg)} :
          Turn(c, [chat[c] EXCEPT !.stage = "pinned", !.pins = {Pin(s) : s \in some}])

(* require_current_external_authorizations, before every model call: per   *)
(* external pin the row is read and its package verified, then the row is  *)
(* read again.                                                             *)
Check(c) ==
  /\ chat[c].stage = "pinned"
  /\ Turn(c, [chat[c] EXCEPT !.stage = "checking", !.todo = {p \in chat[c].pins : p.skill \in External}])
Verify(c) ==
  /\ chat[c].stage = "checking" /\ chat[c].first = None
  /\ \E p \in chat[c].todo :
       IF row[p.skill] # None /\ row[p.skill].pkg = p.pkg /\ Readable(p.pkg)
       THEN Turn(c, [chat[c] EXCEPT !.first = p])
       ELSE Turn(c, [chat[c] EXCEPT !.stage = "failed", !.todo = {}])

(* Mutant: the second read is taken for granted.                           *)
RereadAs(c) ==
  /\ chat[c].stage = "checking" /\ chat[c].first # None
  /\ Turn(c, [chat[c] EXCEPT !.todo = @ \ {chat[c].first}, !.first = None])

Reread(c) ==
  /\ chat[c].stage = "checking" /\ chat[c].first # None
  /\ LET p == chat[c].first IN
     IF row[p.skill] = Row(p.pkg, TRUE, "authorized", p.policy)
     THEN Turn(c, [chat[c] EXCEPT !.todo = @ \ {p}, !.first = None])
     ELSE Turn(c, [chat[c] EXCEPT !.stage = "failed", !.todo = {}, !.first = None])
Admit(c) ==
  /\ chat[c].stage = "checking" /\ chat[c].todo = {}
  /\ Turn(c, [chat[c] EXCEPT !.stage = "calling"])

(* The answer of the model; a next call or a retry uses the same pins.     *)
Answered(c) == chat[c].stage = "calling" /\ Turn(c, [chat[c] EXCEPT !.stage = "pinned"])
RetryChat(c) ==
  /\ chat[c].stage = "failed"
  /\ Turn(c, [chat[c] EXCEPT !.stage = IF chat[c].pins = {} THEN "new" ELSE "pinned"])

Next ==
  \/ \E u \in Users : Look(u)
  \/ \E u \in Users, s \in AllSkills :
       \/ Install(u, s) \/ Uninstall(u, s) \/ SetSource(u, s)
       \/ \E enabled \in BOOLEAN : SetEnabled(u, s, enabled)
       \/ \E policy \in Policies \cup {"none"} : Authorize(u, s, policy)
  \/ \E s \in AllSkills : Offer(s)
  \/ \E pkg \in Packages : Damage(pkg)
  \/ \E c \in Chats : \/ Select(c) \/ Check(c) \/ Verify(c) \/ Reread(c) \/ Admit(c)
                       \/ Answered(c) \/ RetryChat(c)

Spec == Init /\ [][Next]_vars

-----------------------------------------------------------------------------
TypeOK ==
  /\ offer \in [AllSkills -> Packages] /\ sourceOff \subseteq External
  /\ row \in [AllSkills -> {None} \cup [pkg : Packages, enabled : BOOLEAN,
                auth : {"quarantined", "authorized", "trusted"}, policy : Policies \cup {"none"}]]
  /\ revision \in 0 .. MaxRevision /\ disk \in [Packages -> {"ok", "missing", "corrupt"}]
  /\ \A c \in Chats : chat[c].stage \in {"new", "pinned", "checking", "calling", "failed"}

(* An external Skill passes the check of a model call only with the bytes  *)
(* and the policy a user granted on seeing them, and which no revocation,  *)
(* update or removal has withdrawn: "Revocation, disablement, uninstall,   *)
(* policy changes, digest changes, or package damage therefore stop a      *)
(* not-yet-started model call" (skill_manager.py:335).                     *)
PassesWithConsentStep == \A c \in Chats :
   LET passed == chat[c].todo \ chat'[c].todo IN
   chat'[c].stage = "checking" => \A p \in passed : <<p.skill, p.pkg, p.policy>> \in consent
PassesWithConsent == [][PassesWithConsentStep]_vars
=============================================================================
