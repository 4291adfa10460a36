---------------------------- MODULE ChatSessions ----------------------------
(***************************************************************************)
(* One conversation: its file (WorkspaceStorage), the chat WebSockets that *)
(* write to it, the Runs that answer in it, and DELETE /api/sessions.      *)
(*                                                                         *)
(* Granularity: handlers of the event loop interleave at their awaits: the *)
(* handshake, the broadcast of an acknowledgement, the broadcast of a      *)
(* status, and each close of a socket.  A page draws the id of a new       *)
(* conversation at random, so a deleted one is not created again; and one  *)
(* DELETE of it is under way at a time.                                    *)
(***************************************************************************)
EXTENDS Naturals, Sequences, FiniteSets, FiniteSetsExt

CONSTANTS
  Tabs,          \* connections of pages to this conversation
  None,          \* no file
  MaxSends,      \* bound: messages sent
  MaxBoots,      \* bound: crashes
  MaxDeletes     \* bound: DELETE requests

Posts == 1 .. MaxSends

VARIABLES
  conversation,  \* sessions/<id>.json
  tab,           \* the handler of each connection
  connected,     \* active_websockets[id]
  deleting,      \* the conversation is in deleting_chat_sessions
  unclosed,      \* sockets DELETE took and has not closed yet
  chatRun,          \* the Run of each message
  revived,       \* (history) a handler wrote a deleted file again
  sends, boots, deletes

chatVars == <<conversation, tab, connected, deleting, unclosed, chatRun, revived, sends,
              boots, deletes>>
counts == <<sends, boots, deletes>>
alone == <<revived, counts>>

Active == {"queued", "running", "replied", "failing"}
Closed == [pc |-> "closed", shut |-> FALSE, id |-> 0, text |-> 0, title |-> "placeholder"]
NoTask == [status |-> "none", key |-> 0]
Untitled == [title |-> "placeholder", messages |-> <<>>]

Init ==
  /\ conversation = Untitled
  /\ tab = [x \in Tabs |-> Closed]
  /\ connected = {} /\ deleting = FALSE /\ unclosed = {}
  /\ chatRun = [t \in Posts |-> NoTask]
  /\ revived = FALSE /\ sends = 0 /\ boots = 0 /\ deletes = 0

-----------------------------------------------------------------------------
(* The file.                                                               *)
Kept == IF conversation = None THEN Untitled ELSE conversation
Places(ms, P(_)) == {i \in DOMAIN ms : P(ms[i])}
NextId(ms) == 1 + Max({ms[i].id : i \in DOMAIN ms} \cup {0})

(* Where a message without an id goes: over what its Run already said in   *)
(* that role, or under a new id.                                           *)
Projection(ms, m) == Places(ms, LAMBDA k : m.run # 0 /\ k.run = m.run /\ k.role = m.role)
IdOf(ms, m) ==
  IF m.id # 0 THEN m.id
  ELSE IF Projection(ms, m) # {} THEN ms[Min(Projection(ms, m))].id
  ELSE NextId(ms)

Saved(ms, m) ==
  LET row == [m EXCEPT !.id = IdOf(ms, m)]
      at == Places(ms, LAMBDA k : k.id = row.id)
  IN IF at = {} THEN Append(ms, row) ELSE [ms EXCEPT ![Min(at)] = row]

Writes(file) == conversation' = file /\ revived' = (revived \/ conversation = None)
SaveMessage(m) == Writes([Kept EXCEPT !.messages = Saved(@, m)])
Message(id, role, run, text) == [id |-> id, role |-> role, run |-> run, text |-> text]

-----------------------------------------------------------------------------
(* A connection.                                                           *)
Moves(x, r) == tab' = [tab EXCEPT ![x] = r]
RefusedAs == conversation = None
Refused == deleting \/ conversation = None

Connect(x) ==
  /\ tab[x].pc = "closed" /\ ~Refused
  /\ Moves(x, [Closed EXCEPT !.pc = "handshake"])
  /\ UNCHANGED <<conversation, connected, deleting, unclosed, chatRun, alone>>

(* The handshake is over: the conversation is checked again.               *)
Accepted(x) ==
  /\ tab[x].pc = "handshake"
  /\ IF Refused
     THEN Moves(x, Closed) /\ UNCHANGED connected
     ELSE /\ Moves(x, [Closed EXCEPT !.pc = "open", !.title = conversation.title])
          /\ connected' = connected \cup {x}
  /\ UNCHANGED <<conversation, deleting, unclosed, chatRun, alone>>

(* A message is saved, then acknowledged to every connection.              *)
Send(x) ==
  /\ tab[x].pc = "open" /\ sends < MaxSends
  /\ sends' = sends + 1
  /\ SaveMessage(Message(0, "user", 0, sends'))
  /\ Moves(x, [tab[x] EXCEPT !.pc = "acking", !.id = NextId(Kept.messages), !.text = sends'])
  /\ UNCHANGED <<connected, deleting, unclosed, chatRun, boots, deletes>>

After(x, pc) ==
  Moves(x, IF pc = "open" /\ tab[x].shut THEN Closed ELSE [tab[x] EXCEPT !.pc = pc])

(* A Run of another text holds the key chat:<id>:<message>.                *)
KeyTaken(x) == \E t \in Posts : chatRun[t].status # "none" /\ chatRun[t].key = tab[x].id

(* retry_failed_widget_from_chat: the message may ask for the repair of a  *)
(* failed Run; the retry has no key.                                       *)
Repairs(key) == key = 0 /\ \E t \in Posts : chatRun[t].status = "failed"

(* Acknowledged: the message becomes a Run, its own or the repair of a     *)
(* failed one, and is saved again with it.  If its key is taken the        *)
(* handler ends with create_run's error.                                   *)
Submit(x, key) ==
  /\ tab[x].pc = "acking"
  /\ key = tab[x].id \/ Repairs(key)
  /\ IF key # 0 /\ KeyTaken(x)
     THEN /\ Moves(x, Closed) /\ connected' = connected \ {x}
          /\ UNCHANGED <<conversation, chatRun, revived>>
     ELSE /\ chatRun' = [chatRun EXCEPT ![tab[x].text] = [status |-> "queued", key |-> key]]
          /\ SaveMessage(Message(tab[x].id, "user", tab[x].text, tab[x].text))
          /\ After(x, "titling")
          /\ UNCHANGED connected
  /\ UNCHANGED <<deleting, unclosed, counts>>

(* The model choice cannot be resolved: the message stays without a Run.   *)
NoModel(x) ==
  /\ tab[x].pc = "acking"
  /\ After(x, "open")
  /\ UNCHANGED <<conversation, connected, deleting, unclosed, chatRun, alone>>

(* storage.get, or what the handler read at its handshake.                 *)
Loaded(x) ==
  IF conversation = None THEN [Untitled EXCEPT !.title = tab[x].title] ELSE conversation

(* update_session_title, after the broadcast of the status.                *)
Title(x) ==
  /\ tab[x].pc = "titling"
  /\ IF Loaded(x).title = "placeholder"
     THEN Writes([Loaded(x) EXCEPT !.title = "named"])
     ELSE UNCHANGED <<conversation, revived>>
  /\ After(x, "open")
  /\ UNCHANGED <<connected, deleting, unclosed, chatRun, counts>>

Hangup(x) ==
  /\ tab[x].pc = "open"
  /\ Moves(x, Closed) /\ connected' = connected \ {x}
  /\ UNCHANGED <<conversation, deleting, unclosed, chatRun, alone>>

-----------------------------------------------------------------------------
(* The Run of text t.                                                      *)
Turns(t, before, after) ==
  chatRun[t].status \in before /\ chatRun' = [chatRun EXCEPT ![t].status = after]
Still == UNCHANGED <<tab, connected, deleting, unclosed, counts>>

Claim(t) == Turns(t, {"queued"}, "running") /\ UNCHANGED <<conversation, revived>> /\ Still

(* The reply, or the diagnostic of a failure, is saved ...                 *)
Say(t) == SaveMessage(Message(0, "agent", t, t)) /\ Still
Reply(t) == Turns(t, {"running"}, "replied") /\ Say(t)
Diagnose(t) == Turns(t, {"running", "replied"}, "failing") /\ Say(t)

(* ... before the outcome of the step is; a failure that leaves no draft   *)
(* says nothing.                                                           *)
Settle(t) ==
  /\ \/ Turns(t, {"replied"}, "succeeded")
     \/ Turns(t, {"running", "replied", "failing"}, "failed")
  /\ UNCHANGED <<conversation, revived>> /\ Still

CancelTask(t) == Turns(t, Active, "cancelled") /\ UNCHANGED <<conversation, revived>> /\ Still

-----------------------------------------------------------------------------
(* DELETE /api/sessions/<id>.                                              *)
Busy == \E t \in Posts : chatRun[t].status \in Active

BeginDelete ==
  /\ ~deleting /\ deletes < MaxDeletes /\ ~Busy
  /\ deletes' = deletes + 1
  /\ deleting' = TRUE
  /\ unclosed' = connected /\ connected' = {}
  /\ UNCHANGED <<conversation, tab, chatRun, revived, sends, boots>>

CloseSocket(x) ==
  /\ x \in unclosed
  /\ unclosed' = unclosed \ {x}
  /\ Moves(x, IF tab[x].pc \in {"open", "closed"} THEN Closed
              ELSE [tab[x] EXCEPT !.shut = TRUE])
  /\ UNCHANGED <<conversation, connected, deleting, chatRun, alone>>

(* purge_session looks again for a Run that started meanwhile.             *)
Purges == ~Busy
Delete ==
  /\ deleting /\ unclosed = {}
  /\ deleting' = FALSE
  /\ IF Purges
     THEN /\ chatRun' = [t \in Posts |-> NoTask]
          /\ conversation' \in {None, conversation}   \* the unlink, or an OSError before it
     ELSE UNCHANGED <<chatRun, conversation>>
  /\ UNCHANGED <<tab, connected, unclosed, alone>>

(* A crash; at startup the Runs that were claimed are queued again.        *)
Crash ==
  /\ boots < MaxBoots /\ boots' = boots + 1
  /\ tab' = [x \in Tabs |-> Closed]
  /\ connected' = {} /\ unclosed' = {} /\ deleting' = FALSE
  /\ chatRun' = [t \in Posts |-> IF chatRun[t].status \in Active
                              THEN [chatRun[t] EXCEPT !.status = "queued"] ELSE chatRun[t]]
  /\ UNCHANGED <<conversation, revived, sends, deletes>>

Next ==
  \/ \E x \in Tabs : \/ Connect(x) \/ Accepted(x) \/ Send(x) \/ NoModel(x)
                     \/ Title(x) \/ Hangup(x) \/ CloseSocket(x)
                     \/ \E key \in 0 .. MaxSends : Submit(x, key)
  \/ \E t \in Posts : Claim(t) \/ Reply(t) \/ Diagnose(t) \/ Settle(t) \/ CancelTask(t)
  \/ BeginDelete \/ Delete \/ Crash

Spec == Init /\ [][Next]_chatVars

-----------------------------------------------------------------------------
TypeOK ==
  /\ conversation = None \/ conversation.title \in {"placeholder", "named"}
  /\ \A x \in Tabs : tab[x].pc \in {"closed", "handshake", "open", "acking", "titling"}
  /\ connected \subseteq Tabs /\ unclosed \subseteq Tabs /\ deleting \in BOOLEAN
  /\ \A t \in Posts :
       chatRun[t].status \in Active \cup {"none", "succeeded", "failed", "cancelled"}

Said ==
  IF conversation = None THEN {} ELSE {conversation.messages[i] : i \in DOMAIN conversation.messages}

(* Ids tell messages apart and a Run has said one thing, though a crash    *)
(* after the reply makes it say it again.                                  *)
OneReply ==
  \A m, n \in Said :
    m.id = n.id \/ (m.role = "agent" /\ n.role = "agent" /\ m.run = n.run) => m = n

(* A conversation with a Run under way is there, with the message the Run  *)
(* answers, whatever a DELETE saw before it closed the sockets.  In one    *)
(* that was revived a late handler may write over another's message.       *)
TaskHasMessage ==
  ~revived => \A t \in Posts : chatRun[t].status \in Active =>
    \E m \in Said : m.role = "user" /\ m.run = t /\ m.text = t

(* No connection is registered for a conversation that is gone.            *)
NoGhost == conversation = None => connected = {}

(* The file, the Runs and the connections of a conversation agree          *)
(* (workspace_storage.py _save_message, main.py delete_session and         *)
(* websocket_chat).                                                        *)
ConversationIsWhole == OneReply /\ TaskHasMessage /\ NoGhost

(* A deleted conversation stays deleted (main.py:2713).                    *)
StaysDeleted == [][conversation = None => conversation' = None]_chatVars
=============================================================================
