----------------------------- MODULE EventStream -----------------------------
(***************************************************************************)
(* The durable event stream of the Runs and the cursor the browser follows *)
(* it with: the rows of run_events, the endpoint /ws/runs, RunService.     *)
(*                                                                         *)
(* Granularity: one action per transaction of the store, per batch the     *)
(* endpoint reads, per frame the browser handles and per change of the     *)
(* connection.  A batch is sent frame by frame, but nothing else writes to *)
(* that socket, so the whole of it is put under way at once; a lost        *)
(* connection loses what is under way.  The contents of the events are     *)
(* left out: a view of the chat is what it was loaded with and the events  *)
(* its listener was given.                                                 *)
(***************************************************************************)
EXTENDS Naturals, Sequences, FiniteSetsExt, SequencesExt

CONSTANTS
  Producers,     \* the Runs that record events
  BatchLimit,    \* rows read at a time (500)
  Window,        \* MAX_SEEN_EVENT_IDS
  MaxTries,      \* MAX_SOCKET_RECONNECT_ATTEMPTS
  MaxSequence,   \* bound: events of one store
  MaxEpoch       \* bound: stores, each with its stream_epoch

NoEpoch == 0
Gone == MaxSequence + 1
NoGap == <<>>
Start == [epoch |-> NoEpoch, seq |-> 0]

VARIABLES
  epoch,      \* stream_epoch of the store
  rows,       \* run_events
  highest,    \* the AUTOINCREMENT counter
  ended,      \* Runs in a terminal status
  link,       \* the socket: none, connecting or open
  asked,      \* the cursor in its URL while it connects
  position,   \* sequence of the endpoint's loop, Gone when it has ended
  frames,     \* frames under way to the browser
  cursor, replaying, gap, known,    \* of RunService
  timer, tries, status,             \* its reconnection
  listening,  \* the App has subscribed
  base,       \* what the store held when the view was loaded
  projected   \* events the view was given

store == <<epoch, rows, highest, ended>>
wire == <<link, asked, position, frames>>
reader == <<cursor, replaying, gap, known>>
retry == <<timer, tries, status>>
view == <<listening, base, projected>>
vars == <<store, wire, reader, retry, view>>

Cursors == [epoch : 0 .. MaxEpoch, seq : 0 .. MaxSequence]

(* The second cursor is what a release without epochs left in the browser. *)
Init ==
  /\ epoch = 1 /\ rows = {} /\ highest = 0 /\ ended = {}
  /\ link = "none" /\ asked = Start /\ position = Gone /\ frames = <<>>
  /\ cursor \in {[epoch |-> NoEpoch, seq |-> 0], [epoch |-> NoEpoch, seq |-> 1]}
  /\ replaying = FALSE /\ gap = NoGap /\ known = <<>>
  /\ timer = FALSE /\ tries = 0 /\ status = "disconnected"
  /\ listening = FALSE /\ base = Start /\ projected = {}

-----------------------------------------------------------------------------
(* A Run records an event, in the transaction of what it reports.          *)
Record(r, last) ==
  /\ r \notin ended /\ highest < MaxSequence
  /\ highest' = highest + 1 /\ rows' = rows \cup {[seq |-> highest + 1, run |-> r]}
  /\ ended' = IF last THEN ended \cup {r} ELSE ended
  /\ UNCHANGED <<epoch, wire, reader, retry, view>>

(* cleanup_events deletes the old events of ended Runs, purge_session all. *)
Purge(r, upTo) ==
  /\ r \in ended
  /\ \E e \in rows : e.run = r /\ e.seq <= upTo
  /\ rows' = {e \in rows : e.run # r \/ e.seq > upTo}
  /\ UNCHANGED <<epoch, highest, ended, wire, reader, retry, view>>

(* The backend is started on a new database; its connections are gone.     *)
NewStore ==
  /\ epoch < MaxEpoch
  /\ epoch' = epoch + 1 /\ rows' = {} /\ highest' = 0 /\ ended' = {}
  /\ position' = Gone
  /\ UNCHANGED <<link, asked, frames, reader, retry, view>>

Frame(type, seq) == [type |-> type, epoch |-> epoch, seq |-> seq]
Latest == Max({e.seq : e \in rows} \cup {0})

(* websocket_runs up to its loop; the browser's onopen.                    *)
Accept ==
  LET refused == \/ asked.epoch # NoEpoch /\ asked.epoch # epoch
                 \/ asked.seq > Latest
  IN
  /\ link = "connecting"
  /\ link' = "open" /\ tries' = 0 /\ status' = "connected"
  /\ frames' = <<Frame(IF refused THEN "reset" ELSE "ready", Latest)>>
  /\ position' = IF refused THEN Gone ELSE asked.seq
  /\ asked' = Start /\ UNCHANGED <<store, reader, timer, view>>

(* ORDER BY sequence.                                                      *)
Rank(S, x) == Cardinality({y \in S : y <= x})
InOrder(S) == [i \in 1 .. Cardinality(S) |-> CHOOSE x \in S : Rank(S, x) = i]

(* One turn of the loop: events_after(sequence).                           *)
Poll ==
  LET new == {e.seq : e \in {d \in rows : d.seq > position}}
      batch == SubSeq(InOrder(new), 1, Min({BatchLimit, Cardinality(new)}))
  IN
  /\ link = "open" /\ position # Gone /\ new # {}
  /\ frames' = frames \o [i \in DOMAIN batch |-> Frame("event", batch[i])]
  /\ position' = Last(batch)
  /\ UNCHANGED <<store, link, asked, reader, retry, view>>

-----------------------------------------------------------------------------
(* connect(): unless a socket is there.  A cursor without an epoch starts  *)
(* again from zero.                                                        *)
Connect ==
  IF link # "none" THEN UNCHANGED <<wire, cursor, replaying, status>>
  ELSE /\ cursor' = IF cursor.epoch = NoEpoch THEN [cursor EXCEPT !.seq = 0] ELSE cursor
       /\ replaying' = (replaying \/ cursor' # cursor)
       /\ asked' = cursor' /\ link' = "connecting" /\ position' = Gone /\ frames' = <<>>
       /\ status' = IF tries' > 0 THEN "retrying" ELSE "connecting"

(* The socket is let go; what it still carries is never handled.           *)
HangUp == link' = "none" /\ position' = Gone /\ frames' = <<>> /\ asked' = Start

ScheduleReconnect ==
  /\ timer' = (timer \/ listening)
  /\ status' = IF listening /\ ~timer THEN "retrying" ELSE status

RestartStream == HangUp /\ ScheduleReconnect /\ UNCHANGED tries

ResetCursorAs(e) == cursor' = [epoch |-> e, seq |-> cursor.seq] /\ replaying' = TRUE /\ gap' = NoGap
ResetCursor(e) == cursor' = [epoch |-> e, seq |-> 0] /\ replaying' = TRUE /\ gap' = NoGap

TimerFires ==
  /\ timer /\ timer' = FALSE /\ UNCHANGED tries /\ Connect
  /\ UNCHANGED <<store, gap, known, view>>

(* onclose: five attempts, each after a longer delay.                      *)
Lose ==
  /\ link # "none" /\ HangUp
  /\ IF tries >= MaxTries THEN status' = "unavailable" /\ UNCHANGED <<timer, tries>>
     ELSE tries' = tries + 1 /\ ScheduleReconnect
  /\ UNCHANGED <<store, reader, view>>

(* retryConnection: the button of the connection notice.                   *)
RetryConnection ==
  /\ listening /\ status \notin {"connected", "connecting"}
  /\ timer' = FALSE /\ tries' = 0 /\ status' = "connecting"
  /\ cursor' = IF cursor.epoch = NoEpoch THEN [cursor EXCEPT !.seq = 0] ELSE cursor
  /\ replaying' = (replaying \/ cursor' # cursor)
  /\ asked' = cursor' /\ link' = "connecting" /\ position' = Gone /\ frames' = <<>>
  /\ UNCHANGED <<store, gap, known, view>>

-----------------------------------------------------------------------------
(* handleStreamControl: run_stream_reset.                                  *)
TakeReset(f) ==
  /\ f.type = "reset" /\ ResetCursor(f.epoch) /\ RestartStream
  /\ UNCHANGED <<known, projected>>

Proceed == frames' = Tail(frames) /\ UNCHANGED <<link, asked, position, retry>>

(* handleStreamControl: run_stream_ready.                                  *)
TakeReady(f) ==
  /\ f.type = "ready"
  /\ IF cursor.epoch = NoEpoch
     THEN cursor' = [epoch |-> f.epoch, seq |-> 0] /\ Proceed /\ UNCHANGED <<replaying, gap>>
     ELSE IF f.epoch # cursor.epoch \/ f.seq < cursor.seq
     THEN ResetCursor(f.epoch) /\ RestartStream
     ELSE Proceed /\ UNCHANGED <<cursor, replaying, gap>>
  /\ UNCHANGED <<known, projected>>

(* The event is not the next one, and it is not the one that came last     *)
(* time the stream was asked to go on from here.                           *)
Unexplained(f) ==
  /\ f.seq > cursor.seq + 1 /\ ~replaying
  /\ gap # <<cursor.epoch, cursor.seq, f.seq>>

(* handleRunEvent: skipped rows make the browser ask again once.           *)
TakeGap(f) ==
  /\ f.type = "event" /\ f.epoch = cursor.epoch /\ Unexplained(f)
  /\ gap' = <<cursor.epoch, cursor.seq, f.seq>> /\ RestartStream
  /\ UNCHANGED <<cursor, replaying, known, projected>>

Remembered(id) ==
  IF Contains(known, id) THEN known
  ELSE IF Len(known) = Window THEN Append(Tail(known), id) ELSE Append(known, id)

(* handleRunEvent: the event is accepted, and shown unless it was before.  *)
TakeEvent(f) ==
  LET id == <<f.epoch, f.seq>> IN
  /\ f.type = "event" /\ f.epoch = cursor.epoch /\ ~Unexplained(f)
  /\ IF f.seq <= cursor.seq THEN UNCHANGED <<reader, projected>>
     ELSE /\ cursor' = [cursor EXCEPT !.seq = f.seq] /\ replaying' = FALSE /\ gap' = NoGap
          /\ known' = Remembered(id)
          /\ projected' = IF listening /\ ~Contains(known, id) THEN projected \cup {id} ELSE projected
  /\ Proceed

Receive ==
  /\ link = "open" /\ frames # <<>>
  /\ \/ TakeReset(Head(frames))
     \/ TakeReady(Head(frames))
     \/ TakeGap(Head(frames))
     \/ TakeEvent(Head(frames))
  /\ UNCHANGED <<store, listening, base>>

-----------------------------------------------------------------------------
(* The App shows a chat: it follows the stream and asks for the Runs.      *)
Subscribe ==
  /\ ~listening
  /\ listening' = TRUE /\ base' = Start /\ projected' = {}
  /\ UNCHANGED <<timer, tries>> /\ Connect
  /\ UNCHANGED <<store, gap, known>>

(* The Runs of the chat as the store holds them now.                       *)
LoadRuns ==
  /\ listening /\ base = Start /\ base' = [epoch |-> epoch, seq |-> highest]
  /\ UNCHANGED <<store, wire, reader, retry, listening, projected>>

(* The chat is left; the connection stays and its events go unheard.       *)
Unsubscribe ==
  /\ listening /\ listening' = FALSE /\ base' = Start
  /\ UNCHANGED <<store, wire, reader, retry, projected>>

(* The page is loaded again, with the cursor of the session storage.       *)
Reload ==
  /\ HangUp /\ replaying' = FALSE /\ gap' = NoGap /\ known' = <<>>
  /\ timer' = FALSE /\ tries' = 0 /\ status' = "disconnected"
  /\ listening' = FALSE /\ base' = Start
  /\ UNCHANGED <<store, cursor, projected>>

Next ==
  \/ \E r \in Producers, last \in BOOLEAN : Record(r, last)
  \/ \E r \in Producers, k \in 1 .. MaxSequence : Purge(r, k)
  \/ NewStore \/ Accept \/ Poll \/ TimerFires \/ Lose \/ RetryConnection \/ Receive
  \/ Subscribe \/ LoadRuns \/ Unsubscribe \/ Reload

Spec == Init /\ [][Next]_vars

-----------------------------------------------------------------------------
TypeOK ==
  /\ epoch \in 1 .. MaxEpoch /\ highest \in 0 .. MaxSequence /\ ended \subseteq Producers
  /\ rows \subseteq [seq : 1 .. MaxSequence, run : Producers]
  /\ link \in {"none", "connecting", "open"} /\ asked \in Cursors /\ position \in 0 .. Gone
  /\ cursor \in Cursors /\ base \in Cursors /\ tries \in 0 .. MaxTries
  /\ status \in {"disconnected", "connecting", "connected", "retrying", "unavailable"}
  /\ {replaying, timer, listening} \subseteq BOOLEAN

(* Whatever rows were purged, whichever database the backend was started   *)
(* on and however often the connection was lost or the page loaded again,  *)
(* a chat on display misses no event behind the cursor: each was given to  *)
(* its listener or precedes what it was loaded with (websocket_runs,       *)
(* RunService.handleStreamControl, handleRunEvent).                        *)
NothingSkipped ==
  base # Start /\ cursor.epoch = epoch =>
    \A e \in rows : e.seq <= cursor.seq =>
      \/ <<epoch, e.seq>> \in projected
      \/ base.epoch = epoch /\ e.seq <= base.seq
=============================================================================
