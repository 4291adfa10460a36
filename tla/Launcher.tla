------------------------------ MODULE Launcher ------------------------------
(***************************************************************************)
(* The App Center: the registry of executable capabilities, the catalog of *)
(* what is installed, the launcher layout that several clients arrange,    *)
(* and the generation of a user interface for a capability.                *)
(*                                                                         *)
(* Granularity: AppStoreService works under one lock, so every call is one *)
(* action; a client's drag and the answer to its PUT are one action, and   *)
(* its view may be stale by then.  Titles, icons and schemas are left out. *)
(***************************************************************************)
EXTENDS Naturals, Sequences, SequencesExt, FiniteSets

CONSTANTS
  Apps,       \* generated Apps that have no capability behind them
  Caps,       \* executable capabilities (catalog ids)
  Skills,     \* items of other providers (SkillManager)
  Folders,    \* folder ids a client may draw
  Clients,    \* browser windows
  MaxRevision, \* bound: revision of the layout
  NoUI        \* a capability without a user interface

VARIABLES
  apps,       \* Apps on disk; <<c>> is the App generated for capability c
  skills,     \* installed items of other providers
  registry,   \* capabilities.json: registered capability -> bound App
  generating, \* AppStoreService.generating_ids, kept in memory
  run,        \* the generation Run of a capability
  owed,       \* capabilities whose Run ended and was not projected yet
  shelf,      \* app-store-layout.json
  view        \* the layout each client has on screen

registryVars == <<apps, skills, registry>>
genVars == <<generating, run, owed>>
layoutVars == <<shelf, view>>
vars == <<registryVars, genVars, layoutVars>>

GeneratedApp(c) == <<c>>
AllApps == Apps \cup {GeneratedApp(c) : c \in Caps}

(* list_catalog_items: an App bound to a capability is shown as that.      *)
CatalogOf(installed, reg, others) ==
  (installed \ {reg[c] : c \in DOMAIN reg}) \cup DOMAIN reg \cup others
Catalog == CatalogOf(apps, registry, skills)

(* _capability_items: what the catalog says of a capability (manifest v1). *)
Status(c) ==
  IF c \in generating THEN "generating" ELSE IF registry[c] \in apps THEN "ready" ELSE "needs_ui"

-----------------------------------------------------------------------------
(* _normalize_layout.                                                      *)
Kept(folder, valid) == SelectSeq(folder.items, LAMBDA i : i \in valid)
IdsOf(folders) == {folders[k].id : k \in DOMAIN folders}
Occupied(folders, valid) == FlattenSeq([k \in DOMAIN folders |-> Kept(folders[k], valid)])

(* Mutant: an item whose folder dissolves is taken for a duplicate.        *)
NormalizedAs(layout, valid) ==
  LET inside == ToSet(Occupied(layout.folders, valid))
      left == SelectSeq([k \in DOMAIN layout.folders |->
                           [layout.folders[k] EXCEPT !.items = Kept(layout.folders[k], valid)]],
                        LAMBDA f : Len(f.items) >= 2)
      Place(root, entry) == IF entry \in IdsOf(left) \cup (valid \ inside) THEN Append(root, entry) ELSE root
      root == FoldLeft(Place, <<>>, layout.root)
  IN [rev |-> layout.rev, folders |-> left,
      root |-> root \o SetToSeq((IdsOf(left) \ ToSet(root)) \cup (valid \ (inside \cup ToSet(root))))]

Normalized(layout, valid) ==
  LET folders == layout.folders
      inside == ToSet(Occupied(folders, valid))
      left == SelectSeq([k \in DOMAIN folders |-> [folders[k] EXCEPT !.items = Kept(folders[k], valid)]],
                        LAMBDA f : Len(f.items) >= 2)
      alone == {k \in DOMAIN folders : Len(Kept(folders[k], valid)) = 1}
      Alone(entry) == \E k \in alone : folders[k].id = entry
      Resolved(entry) ==
        IF Alone(entry) THEN Kept(folders[CHOOSE k \in alone : folders[k].id = entry], valid)[1] ELSE entry
      Place(root, entry) ==
        LET e == Resolved(entry) IN
        IF /\ \/ e \in IdsOf(left)
              \/ e \in valid /\ (e \notin inside \/ Alone(entry))
           /\ e \notin ToSet(root)
        THEN Append(root, e) ELSE root
      root == FoldLeft(Place, <<>>, layout.root)
      withFolders == root \o SetToSeq(IdsOf(left) \ ToSet(root))
  IN [rev |-> layout.rev, folders |-> left,
      root |-> withFolders \o SetToSeq(valid \ (inside \cup ToSet(root)))]

(* The ValueErrors of _normalize_layout.                                   *)
Acceptable(layout, valid) ==
  /\ Cardinality(IdsOf(layout.folders)) = Len(layout.folders)
  /\ IsInjective(Occupied(layout.folders, valid))

(* get_state writes the layout back if it had to be normalised, under the  *)
(* revision it has.                                                        *)
State == Normalized(shelf, Catalog)

(* _remove_catalog_ids_from_layout.                                        *)
Without(layout, gone, valid) ==
  Normalized([rev |-> layout.rev + 1,
              root |-> SelectSeq(layout.root, LAMBDA e : e \notin gone),
              folders |-> [k \in DOMAIN layout.folders |->
                             [layout.folders[k] EXCEPT !.items = SelectSeq(@, LAMBDA e : e \notin gone)]]],
             valid)

-----------------------------------------------------------------------------
Init ==
  /\ apps = Apps /\ skills = {} /\ registry = [c \in {} |-> NoUI]
  /\ generating = {} /\ owed = {} /\ run = [c \in Caps |-> "none"]
  /\ shelf = Normalized([rev |-> 0, root |-> <<>>, folders |-> <<>>], Apps)
  /\ view = [k \in Clients |-> shelf]

(* GET /api/app-store.                                                     *)
Load(k) ==
  /\ shelf' = State
  /\ view' = [view EXCEPT ![k] = shelf']
  /\ UNCHANGED <<registryVars, genVars>>

(* PUT /api/app-store/layout: the layout a client drew on its view.        *)
Save(k, root, folders) ==
  /\ Acceptable([rev |-> 0, root |-> root, folders |-> folders], Catalog)
  /\ IF view[k].rev = shelf.rev
     THEN /\ shelf.rev < MaxRevision
          /\ shelf' = Normalized([rev |-> shelf.rev + 1, root |-> root, folders |-> folders], Catalog)
     ELSE shelf' = State
  /\ view' = [view EXCEPT ![k] = shelf']
  /\ UNCHANGED <<registryVars, genVars>>

(* Drags: an item held over another one, into a folder, out of it, along.  *)
CreateFolder(k) ==
  LET v == view[k] IN
  \E a, b \in DOMAIN v.root, f \in Folders :
    /\ a # b /\ {v.root[a], v.root[b]} \cap Folders = {}
    /\ f \notin IdsOf(shelf.folders) \cup UNION {IdsOf(view[x].folders) : x \in Clients}
    /\ LET at == IF a < b THEN a ELSE b IN
       Save(k, InsertAt(SelectSeq(v.root, LAMBDA e : e \notin {v.root[a], v.root[b]}), at, f),
            Append(v.folders, [id |-> f, items |-> <<v.root[b], v.root[a]>>]))
MoveIntoFolder(k) ==
  LET v == view[k] IN
  \E a \in DOMAIN v.root, n \in DOMAIN v.folders :
    /\ v.root[a] \notin Folders
    /\ Save(k, RemoveAt(v.root, a), [v.folders EXCEPT ![n].items = Append(@, v.root[a])])
LeaveFolder(k) ==
  LET v == view[k] IN
  \E n \in DOMAIN v.folders : \E i \in DOMAIN v.folders[n].items :
    LET folder == v.folders[n]
        items == RemoveAt(folder.items, i)
        at == CHOOSE x \in DOMAIN v.root : v.root[x] = folder.id IN
    IF Len(items) >= 2
    THEN Save(k, InsertAt(v.root, at + 1, folder.items[i]),
              Append(RemoveAt(v.folders, n), [folder EXCEPT !.items = items]))
    ELSE Save(k, SubSeq(v.root, 1, at - 1) \o items \o <<folder.items[i]>>
                   \o SubSeq(v.root, at + 1, Len(v.root)),
              RemoveAt(v.folders, n))
Reorder(k) ==
  LET v == view[k] IN
  \E a, b \in DOMAIN v.root :
    a # b /\ Save(k, InsertAt(RemoveAt(v.root, a), b, v.root[a]), v.folders)

-----------------------------------------------------------------------------
(* PUT and DELETE /api/capabilities/{id}.                                  *)
Register(c) ==
  /\ registry' = [x \in DOMAIN registry \cup {c} |-> IF x \in DOMAIN registry THEN registry[x] ELSE NoUI]
  /\ UNCHANGED <<apps, skills, genVars, layoutVars>>
Unregister(c) ==
  /\ c \in DOMAIN registry /\ shelf.rev < MaxRevision
  /\ registry' = [x \in DOMAIN registry \ {c} |-> registry[x]]
  /\ shelf' = Without(shelf, {c}, CatalogOf(apps, registry', skills))
  /\ UNCHANGED <<apps, skills, genVars, view>>

(* app_manager.delete_app and AppStoreService.on_app_deleted.              *)
Deleted(a, reg) ==
  /\ shelf.rev < MaxRevision
  /\ apps' = apps \ {a}
  /\ registry' = [c \in DOMAIN reg |-> IF reg[c] = a THEN NoUI ELSE reg[c]]
  /\ shelf' = Without(shelf, {a}, CatalogOf(apps', registry', skills))
  /\ UNCHANGED <<skills, genVars, view>>
DeleteApp(a) == a \in apps /\ Deleted(a, registry)
DeleteUI(c) ==
  /\ c \in DOMAIN registry /\ registry[c] # NoUI
  /\ Deleted(registry[c], [registry EXCEPT ![c] = NoUI])

(* An App is away while a promotion swaps its directory, or the market     *)
(* changes a Skill: the layout is not told.                                *)
AppMoves(a) ==
  /\ a \in Apps
  /\ apps' = IF a \in apps THEN apps \ {a} ELSE apps \cup {a}
  /\ UNCHANGED <<skills, registry, genVars, layoutVars>>
SkillMoves(s) ==
  /\ skills' = IF s \in skills THEN skills \ {s} ELSE skills \cup {s}
  /\ UNCHANGED <<apps, registry, genVars, layoutVars>>

(* _project_agent_run_status.  bind_ui refuses an unregistered capability. *)
Projected(c) ==
  /\ generating' = generating \ {c}
  /\ owed' = owed \ {c}
  /\ registry' = IF run[c] = "succeeded" /\ c \in DOMAIN registry
                 THEN [registry EXCEPT ![c] = GeneratedApp(c)] ELSE registry
  /\ UNCHANGED <<apps, skills, layoutVars>>

(* run_capability_ui_generation.  The Run is keyed by capability, App and  *)
(* descriptor: one that has ended is projected again, not repeated.        *)
Generate(c) ==
  /\ c \in DOMAIN registry /\ c \notin generating
  /\ IF run[c] \in {"none", "active"}
     THEN /\ generating' = generating \cup {c} /\ run' = [run EXCEPT ![c] = "active"]
          /\ UNCHANGED <<registryVars, owed, layoutVars>>
     ELSE Projected(c) /\ UNCHANGED run

(* The Run publishes its App and succeeds, or fails; a failed one may be   *)
(* retried, which is a new Run with the same data.                         *)
Publish(c) ==
  /\ run[c] = "active"
  /\ run' = [run EXCEPT ![c] = "succeeded"] /\ owed' = owed \cup {c}
  /\ apps' = apps \cup {GeneratedApp(c)}
  /\ UNCHANGED <<skills, registry, generating, layoutVars>>
Fail(c) ==
  /\ run[c] = "active"
  /\ run' = [run EXCEPT ![c] = "failed"] /\ owed' = owed \cup {c}
  /\ UNCHANGED <<registryVars, generating, layoutVars>>
RetryRun(c) ==
  /\ run[c] = "failed" /\ c \notin owed
  /\ run' = [run EXCEPT ![c] = "active"]
  /\ UNCHANGED <<registryVars, generating, owed, layoutVars>>

(* The status listener hears of the end.                                   *)
Project(c) == c \in owed /\ Projected(c) /\ UNCHANGED run

(* lifespan: generating_ids is rebuilt from the active Runs; an end that   *)
(* was not projected is forgotten; get_state checks the layout.            *)
Restart ==
  /\ generating' = {c \in Caps : run[c] = "active"}
  /\ owed' = {}
  /\ shelf' = State
  /\ UNCHANGED <<registryVars, run, view>>

Next ==
  \/ \E k \in Clients : Load(k) \/ CreateFolder(k) \/ MoveIntoFolder(k) \/ LeaveFolder(k) \/ Reorder(k)
  \/ \E c \in Caps : \/ Register(c) \/ Unregister(c) \/ DeleteUI(c) \/ Generate(c)
                     \/ Publish(c) \/ Fail(c) \/ RetryRun(c) \/ Project(c)
  \/ \E a \in AllApps : DeleteApp(a) \/ AppMoves(a)
  \/ \E s \in Skills : SkillMoves(s)
  \/ Restart

Spec == Init /\ [][Next]_vars

-----------------------------------------------------------------------------
(* Whatever clients with stale views save and whatever comes and goes      *)
(* meanwhile, the stored layout is one get_state accepts, and the App      *)
(* Center then shows every installed item in exactly one place.            *)
ListedOnce ==
  LET state == State
      places == SelectSeq(state.root, LAMBDA e : e \notin Folders) \o Occupied(state.folders, Catalog)
  IN
  /\ Acceptable(shelf, Catalog)
  /\ \A i \in Catalog : Cardinality({n \in DOMAIN places : places[n] = i}) = 1
  /\ \A f \in IdsOf(state.folders) : Cardinality({n \in DOMAIN state.root : state.root[n] = f}) = 1

(* A capability is shown as being generated only while its Run works on    *)
(* it or its end is about to be projected: retries, restarts, an           *)
(* unregistered capability and a second request leave none stuck.          *)
GeneratingIsLive == \A c \in generating : run[c] = "active" \/ c \in owed

(* What the launcher shows is what is installed and under way              *)
(* (app_store.py get_state, main.py _project_agent_run_status).            *)
ShelfIsTrue == ListedOnce /\ GeneratingIsLive
=============================================================================
