---------------------------- MODULE Skills_proofs ----------------------------
(***************************************************************************)
(* No external Skill passes the check of a model call without consent, for *)
(* any sets of Skills, packages, windows and Runs and any bound.           *)
(*                                                                         *)
(* The check ends with a second read of the row.  That the row it finds    *)
(* there was authorized for these bytes follows from two facts: consent    *)
(* covers every authorized row, whatever requests did to the registry      *)
(* between the two reads; and a Run has nothing left to check unless it is *)
(* checking, so that no pin is dropped from its list in another way.       *)
(***************************************************************************)
EXTENDS Skills, TLAPS

Grades == {"quarantined", "authorized", "trusted"}
Rows == [pkg : Packages, enabled : BOOLEAN, auth : Grades, policy : Policies \cup {"none"}]
Pins == [skill : AllSkills, pkg : Packages, policy : Policies \cup {"none"}]
Stages == {"new", "pinned", "checking", "calling", "failed"}

Registry == row \in [AllSkills -> Rows \cup {None}] /\ offer \in [AllSkills -> Packages]
Covered ==
  \A s \in AllSkills :
    row[s] # None /\ row[s].auth = "authorized" => <<s, row[s].pkg, row[s].policy>> \in consent
ChatStates == [stage : Stages, pins : SUBSET Pins, todo : SUBSET Pins, first : Pins \cup {None}]
ChatsOK ==
  /\ chat \in [Chats -> ChatStates]
  /\ \A c \in Chats : chat[c].stage # "checking" => chat[c].todo = {}

(* The inductive invariant.                                                *)
IInv == Registry /\ Covered /\ ChatsOK

-----------------------------------------------------------------------------
(* Nothing is authorized or pinned at the start.                           *)
LEMMA InitHolds == Init => IInv
  BY DEF Init, IInv, Registry, Covered, ChatsOK, ChatStates, Stages

(* A request to the registry that replaces the row of one Skill keeps what *)
(* others were granted.                                                    *)
LEMMA OthersKeepConsent ==
  ASSUME Covered, Registry, NEW s \in AllSkills, NEW new \in Rows \cup {None},
         row' = [row EXCEPT ![s] = new], Withdrawn(s) \subseteq consent',
         new # None /\ new.auth = "authorized" => <<s, new.pkg, new.policy>> \in consent'
  PROVE  Covered' /\ row' \in [AllSkills -> Rows \cup {None}]
<1>1. row' \in [AllSkills -> Rows \cup {None}]
  BY DEF Registry
<1>2. ASSUME NEW t \in AllSkills, row'[t] # None, row'[t].auth = "authorized"
      PROVE  <<t, row'[t].pkg, row'[t].policy>> \in consent'
  <2>1. CASE t = s
    BY <1>2, <2>1 DEF Registry
  <2>2. CASE t # s
    <3>1. row'[t] = row[t]
      BY <2>2 DEF Registry
    <3>2. <<t, row[t].pkg, row[t].policy>> \in Withdrawn(s)
      BY <1>2, <2>2, <3>1 DEF Covered, Withdrawn
    <3> QED
      BY <3>1, <3>2
  <2> QED
    BY <2>1, <2>2
<1> QED
  BY <1>1, <1>2 DEF Covered

(* Every action on the registry keeps it covered.                          *)
LEMMA RegistryStep ==
  ASSUME Registry, Covered, Next PROVE Registry' /\ Covered'
<1> USE DEF Registry
<1>1. ASSUME NEW u \in Users, NEW s \in AllSkills, Install(u, s) PROVE Registry' /\ Covered'
  <2>1. CASE row[s] # None /\ row[s].pkg = offer[s]
    BY <1>1, <2>1 DEF Install, Covered
  <2>2. CASE ~(row[s] # None /\ row[s].pkg = offer[s])
    <3>1. row' = [row EXCEPT ![s] = Installed(s, offer[s])] /\ consent' = Withdrawn(s) /\ offer' = offer
      BY <1>1, <2>2 DEF Install, Commit
    <3>2. Installed(s, offer[s]) \in Rows
      BY DEF Installed, Row, Rows, Grades, Policies
    <3>3. Installed(s, offer[s]).auth # "authorized"
      BY DEF Installed, Row
    <3> QED
      BY <3>1, <3>2, <3>3, OthersKeepConsent
  <2> QED
    BY <2>1, <2>2
<1>2. ASSUME NEW u \in Users, NEW s \in AllSkills, Uninstall(u, s) PROVE Registry' /\ Covered'
  BY <1>2, OthersKeepConsent DEF Uninstall, Commit
<1>3. ASSUME NEW u \in Users, NEW s \in AllSkills, NEW enabled \in BOOLEAN, SetEnabled(u, s, enabled)
      PROVE Registry' /\ Covered'
  <2> DEFINE new == [row[s] EXCEPT !.enabled = enabled]
  <2>1. row' = [row EXCEPT ![s] = new] /\ offer' = offer /\ consent' = consent /\ row[s] \in Rows /\ row[s] # None
    BY <1>3 DEF SetEnabled, Commit
  <2>2. new \in Rows /\ new.auth = row[s].auth /\ new.pkg = row[s].pkg /\ new.policy = row[s].policy
    BY <2>1 DEF Rows
  <2>3. new.auth = "authorized" => <<s, new.pkg, new.policy>> \in consent'
    BY <2>1, <2>2 DEF Covered
  <2>4. Withdrawn(s) \subseteq consent'
    BY <2>1 DEF Withdrawn
  <2> HIDE DEF new
  <2> QED
    BY <2>1, <2>2, <2>3, <2>4, OthersKeepConsent
<1>4. ASSUME NEW u \in Users, NEW s \in AllSkills, NEW policy \in Policies \cup {"none"}, Authorize(u, s, policy)
      PROVE Registry' /\ Covered'
  <2> DEFINE new == IF row[s].auth = "trusted" THEN [row[s] EXCEPT !.enabled = TRUE]
                    ELSE IF policy = "none" THEN Row(row[s].pkg, FALSE, "quarantined", "none")
                    ELSE Row(row[s].pkg, TRUE, "authorized", policy)
  <2>1. row' = [row EXCEPT ![s] = new] /\ offer' = offer /\ row[s] \in Rows
    BY <1>4 DEF Authorize, Commit
  <2>2. new \in Rows
    BY <2>1 DEF Row, Rows, Grades
  <2>3. Withdrawn(s) \subseteq consent' /\ (policy # "none" => <<s, row[s].pkg, policy>> \in consent')
    BY <1>4 DEF Authorize
  <2>4. new.auth = "authorized" => policy # "none" /\ new.pkg = row[s].pkg /\ new.policy = policy
    BY <2>1 DEF Row, Rows
  <2> QED
    BY <2>1, <2>2, <2>3, <2>4, OthersKeepConsent
<1>5. ASSUME NEW s \in AllSkills, Offer(s) PROVE Registry' /\ Covered'
  BY <1>5 DEF Offer, Covered
<1>6. ASSUME UNCHANGED <<offer, row, consent>> PROVE Registry' /\ Covered'
  BY <1>6 DEF Covered
<1> QED
  BY <1>1, <1>2, <1>3, <1>4, <1>5, <1>6
  DEF Next, Look, SetSource, Damage, Select, Check, Verify, Reread, Admit, Answered, RetryChat, Turn,
      registryVars

-----------------------------------------------------------------------------
(* Every action of a Run keeps its pins and has nothing left to check when *)
(* it does not check; what it drops from its list is covered by consent.   *)
LEMMA ChatsStep ==
  ASSUME None \notin Rows, IInv, Next PROVE ChatsOK' /\ PassesWithConsentStep
<1> USE DEF ChatsOK
<1> DEFINE Drops(c) == chat'[c].stage = "checking" =>
             \A p \in chat[c].todo \ chat'[c].todo : <<p.skill, p.pkg, p.policy>> \in consent
<1>1. ASSUME NEW c \in Chats, NEW next \in ChatStates, chat' = [chat EXCEPT ![c] = next],
             next.stage # "checking" => next.todo = {}, Drops(c)
      PROVE  ChatsOK' /\ PassesWithConsentStep
  <2>1. ChatsOK'
    BY <1>1 DEF IInv
  <2>2. \A d \in Chats : Drops(d)
    BY <1>1 DEF IInv
  <2> QED
    BY <2>1, <2>2 DEF PassesWithConsentStep
<1>2. ASSUME NEW c \in Chats PROVE /\ chat \in [Chats -> ChatStates] /\ chat[c] \in ChatStates
                                   /\ chat[c].pins \subseteq Pins /\ chat[c].todo \subseteq Pins
                                   /\ chat[c].stage # "checking" => chat[c].todo = {}
  BY DEF IInv, ChatStates
<1>3. ASSUME NEW c \in Chats, Select(c) PROVE ChatsOK' /\ PassesWithConsentStep
  <2>1. ASSUME NEW s \in AllSkills, Usable(s) PROVE Pin(s) \in Pins
    BY <2>1 DEF Usable, Pin, Pins, IInv, Registry, Rows
  <2>2. chat[c].stage = "new" /\ chat[c].todo = {}
    BY <1>2, <1>3 DEF Select
  <2>3. CASE chat' = [chat EXCEPT ![c] = [chat[c] EXCEPT !.stage = "failed"]]
    BY <1>1, <1>2, <2>2, <2>3 DEF ChatStates, Stages
  <2>4. ASSUME NEW ps \in SUBSET Pins, chat' = [chat EXCEPT ![c] = [chat[c] EXCEPT !.stage = "pinned", !.pins = ps]]
        PROVE  ChatsOK' /\ PassesWithConsentStep
    BY <1>1, <1>2, <2>2, <2>4 DEF ChatStates, Stages
  <2>5. ASSUME NEW some \in SUBSET AllSkills, \A s \in some : Usable(s)
        PROVE  {Pin(s) : s \in some} \in SUBSET Pins
    BY <2>1, <2>5
  <2>6. \/ chat' = [chat EXCEPT ![c] = [chat[c] EXCEPT !.stage = "failed"]]
        \/ \E some \in SUBSET AllSkills :
             /\ \A s \in some : Usable(s)
             /\ chat' = [chat EXCEPT ![c] = [chat[c] EXCEPT !.stage = "pinned", !.pins = {Pin(s) : s \in some}]]
    BY <1>3 DEF Select, Turn
  <2>7. ASSUME NEW some \in SUBSET AllSkills, \A s \in some : Usable(s),
               chat' = [chat EXCEPT ![c] = [chat[c] EXCEPT !.stage = "pinned", !.pins = {Pin(s) : s \in some}]]
        PROVE  ChatsOK' /\ PassesWithConsentStep
    <3> DEFINE ps == {Pin(s) : s \in some}
    <3>1. ps \in SUBSET Pins /\ chat' = [chat EXCEPT ![c] = [chat[c] EXCEPT !.stage = "pinned", !.pins = ps]]
      BY <2>5, <2>7
    <3> HIDE DEF ps
    <3> QED
      BY <2>4, <3>1
  <2> QED
    BY <2>3, <2>6, <2>7
<1>4. ASSUME NEW c \in Chats, Check(c) PROVE ChatsOK' /\ PassesWithConsentStep
  <2> DEFINE next == [chat[c] EXCEPT !.stage = "checking", !.todo = {p \in chat[c].pins : p.skill \in External}]
  <2>1. chat' = [chat EXCEPT ![c] = next] /\ chat[c].todo = {}
    BY <1>2, <1>4 DEF Check, Turn
  <2>2. next \in ChatStates /\ next.stage = "checking"
    BY <1>2 DEF ChatStates, Stages
  <2> HIDE DEF next
  <2> QED
    BY <1>1, <1>2, <2>1, <2>2
<1>5. ASSUME NEW c \in Chats, Verify(c) PROVE ChatsOK' /\ PassesWithConsentStep
  <2>1. PICK p \in chat[c].todo :
          \/ chat' = [chat EXCEPT ![c] = [chat[c] EXCEPT !.first = p]]
          \/ chat' = [chat EXCEPT ![c] = [chat[c] EXCEPT !.stage = "failed", !.todo = {}]]
    BY <1>5 DEF Verify, Turn
  <2>2. p \in Pins /\ chat[c].stage = "checking"
    BY <1>2, <1>5 DEF Verify
  <2>3. CASE chat' = [chat EXCEPT ![c] = [chat[c] EXCEPT !.first = p]]
    <3> DEFINE next == [chat[c] EXCEPT !.first = p]
    <3>1. next \in ChatStates /\ next.stage = "checking" /\ next.todo = chat[c].todo
      BY <1>2, <2>2 DEF ChatStates
    <3>2. chat' = [chat EXCEPT ![c] = next]
      BY <2>3
    <3> HIDE DEF next
    <3> QED
      BY <1>1, <1>2, <3>1, <3>2
  <2>4. CASE chat' = [chat EXCEPT ![c] = [chat[c] EXCEPT !.stage = "failed", !.todo = {}]]
    BY <1>1, <1>2, <2>4 DEF ChatStates, Stages
  <2> QED
    BY <2>1, <2>3, <2>4
<1>6. ASSUME NEW c \in Chats, Reread(c) PROVE ChatsOK' /\ PassesWithConsentStep
  <2> DEFINE p == chat[c].first
  <2>1. p \in Pins \cup {None} /\ p # None /\ chat[c].stage = "checking"
    BY <1>2, <1>6 DEF Reread, ChatStates
  <2>2. CASE row[p.skill] = Row(p.pkg, TRUE, "authorized", p.policy)
    <3> DEFINE next == [chat[c] EXCEPT !.todo = chat[c].todo \ {p}, !.first = None]
    <3>1. p.skill \in AllSkills /\ Row(p.pkg, TRUE, "authorized", p.policy) \in Rows
      BY <2>1 DEF Row, Rows, Pins, Grades
    <3>2. /\ row[p.skill].auth = "authorized"
          /\ row[p.skill].pkg = p.pkg /\ row[p.skill].policy = p.policy
      BY <2>2 DEF Row
    <3>3. row[p.skill] # None
      BY <2>2, <3>1
    <3>4. <<p.skill, p.pkg, p.policy>> \in consent
      BY <3>1, <3>2, <3>3 DEF IInv, Covered
    <3>5. chat' = [chat EXCEPT ![c] = next] /\ chat'[c] = next
      BY <1>2, <1>6, <2>2 DEF Reread, Turn
    <3>6. next \in ChatStates /\ next.stage = "checking" /\ next.todo = chat[c].todo \ {p}
      BY <1>2, <2>1 DEF ChatStates
    <3>7. \A q \in chat[c].todo \ next.todo : q = p
      BY <3>6
    <3> HIDE DEF next, p
    <3>8. \A q \in chat[c].todo \ chat'[c].todo : <<q.skill, q.pkg, q.policy>> \in consent
      <4> TAKE q \in chat[c].todo \ chat'[c].todo
      <4>1. q = p
        BY <3>5, <3>7
      <4> QED
        BY <3>4, <4>1
    <3>9. Drops(c)
      BY <3>8
    <3> QED
      BY <1>1, <3>5, <3>6, <3>9
  <2>3. CASE row[p.skill] # Row(p.pkg, TRUE, "authorized", p.policy)
    <3> DEFINE next == [chat[c] EXCEPT !.stage = "failed", !.todo = {}, !.first = None]
    <3>1. chat' = [chat EXCEPT ![c] = next]
      BY <1>6, <2>3 DEF Reread, Turn
    <3>2. next \in ChatStates /\ next.stage = "failed" /\ next.todo = {}
      BY <1>2 DEF ChatStates, Stages
    <3> HIDE DEF next
    <3> QED
      BY <1>1, <1>2, <3>1, <3>2
  <2> QED
    BY <2>2, <2>3
<1>7. ASSUME NEW c \in Chats, Admit(c) \/ Answered(c) \/ RetryChat(c) PROVE ChatsOK' /\ PassesWithConsentStep
  <2>1. chat[c].todo = {}
    BY <1>2, <1>7 DEF Admit, Answered, RetryChat
  <2>2. PICK stage \in {"calling", "pinned", "new"} : chat' = [chat EXCEPT ![c] = [chat[c] EXCEPT !.stage = stage]]
    BY <1>7 DEF Admit, Answered, RetryChat, Turn
  <2> DEFINE next == [chat[c] EXCEPT !.stage = stage]
  <2>3. next \in ChatStates /\ next.stage # "checking" /\ next.todo = {}
    BY <1>2, <2>1 DEF ChatStates, Stages
  <2>4. chat' = [chat EXCEPT ![c] = next] /\ chat'[c] = next
    BY <1>2, <2>2
  <2> HIDE DEF next
  <2>5. Drops(c)
    BY <2>3, <2>4
  <2>6. next \in ChatStates /\ (next.stage # "checking" => next.todo = {})
    BY <2>3
  <2>7. chat' = [chat EXCEPT ![c] = next]
    BY <2>4
  <2> HIDE DEF Drops, ChatsOK
  <2> QED
    BY <1>1, <2>5, <2>6, <2>7
<1>8. ASSUME chat' = chat PROVE ChatsOK' /\ PassesWithConsentStep
  BY <1>8 DEF PassesWithConsentStep, IInv
<1>9. \/ chat' = chat
      \/ \E c \in Chats : \/ Select(c) \/ Check(c) \/ Verify(c) \/ Reread(c)
                         \/ Admit(c) \/ Answered(c) \/ RetryChat(c)
  <2>1. \A u \in Users : Look(u) => chat' = chat
    BY DEF Look
  <2>2. \A u \in Users, s \in AllSkills : Install(u, s) \/ Uninstall(u, s) \/ SetSource(u, s) => chat' = chat
    BY DEF Install, Uninstall, SetSource
  <2>3. \A u \in Users, s \in AllSkills, enabled \in BOOLEAN : SetEnabled(u, s, enabled) => chat' = chat
    BY DEF SetEnabled
  <2>4. \A u \in Users, s \in AllSkills, policy \in Policies \cup {"none"} :
          Authorize(u, s, policy) => chat' = chat
    BY DEF Authorize
  <2>5. /\ \A s \in AllSkills : Offer(s) => chat' = chat
        /\ \A pkg \in Packages : Damage(pkg) => chat' = chat
    BY DEF Offer, Damage
  <2> QED
    BY <2>1, <2>2, <2>3, <2>4, <2>5 DEF Next
<1> HIDE DEF ChatsOK
<1> QED
  BY <1>3, <1>4, <1>5, <1>6, <1>7, <1>8, <1>9

LEMMA IInvStep ==
  ASSUME None \notin Rows PROVE IInv /\ [Next]_vars => IInv' /\ [PassesWithConsentStep]_vars
<1>1. CASE IInv /\ Next
  BY <1>1, RegistryStep, ChatsStep DEF IInv
<1>2. CASE IInv /\ UNCHANGED vars
  BY <1>2 DEF IInv, Registry, Covered, ChatsOK, vars, registryVars
<1> QED
  BY <1>1, <1>2

(* Whatever is installed, authorized, revoked, removed or damaged by other *)
(* threads meanwhile, an external Skill passes the check of a model call   *)
(* only as a user granted it and nobody withdrew it (skill_manager.py,     *)
(* require_current_external_authorizations).                               *)
THEOREM ConsentHolds == ASSUME None \notin Rows PROVE Spec => PassesWithConsent
<1>1. Init => IInv
  BY InitHolds
<1>2. IInv /\ [Next]_vars => IInv' /\ [PassesWithConsentStep]_vars
  BY IInvStep
<1> QED
  BY <1>1, <1>2, PTL DEF Spec, PassesWithConsent
=============================================================================
