------------------------------ MODULE LiveLane ------------------------------
(***************************************************************************)
(* What a chat shows of a working Run: the ephemeral lane (RunLiveBroker,  *)
(* /ws/run-live, RunLiveService, its batcher) and the projection in which  *)
(* its deltas meet the durable events and the snapshots of the Run.        *)
(*                                                                         *)
(* Granularity: one action per step the Run begins, emits or ends, per     *)
(* frame, timer and answer the browser handles.  The durable events reach  *)
(* the listener once and in order (module EventStream); the two sockets    *)
(* and the requests are not ordered among each other.  One Run, one step   *)
(* that is repeated, one stream per attempt; a delta is the number of its  *)
(* chunk and a text the set of chunks it was put together from.  Left out: *)
(* the last 12,000 characters to which a text is cut, and the event with   *)
(* the reply itself, which may end a stream before its step is committed.  *)
(***************************************************************************)
EXTENDS Naturals, Sequences, SequencesExt, FiniteSetsExt

CONSTANTS
  QueueSize,    \* RunLiveBroker.queue_size (128)
  MaxAttempt,   \* bound: attempts of the step
  MaxChunk,     \* bound: chunks of one stream
  MaxEvents     \* bound: durable events

Attempts == 1 .. MaxAttempt
Chunks == 1 .. MaxChunk

VARIABLES
  phase,      \* status of the Run
  attempt,    \* the last attempt of its step
  active,     \* that attempt is being executed
  settled,    \* the last attempt that was committed: checkpoint.last_step
  said,       \* chunks each attempt emitted
  wholes,     \* those that replace the text before them
  durable,    \* events of the Run
  queue,      \* the subscriber's queue in the broker
  lane,       \* the live socket: open or not
  sent,       \* frames under way on it
  heard,      \* durable events given to the listener
  batch,      \* RunLiveEventBatcher.pending
  chatView,   \* ConversationProjection: card, streams, watermark, seen events
  answers     \* snapshots under way: at most one, a bound

server == <<phase, attempt, active, settled, said, wholes, durable>>
socket == <<queue, lane, sent>>
browser == <<heard, batch, chatView, answers>>
vars == <<server, socket, browser>>

Resting == {"waiting", "cancelling", "ended"}
EmptyView == [card |-> "none", streams |-> <<>>, mark |-> 0, seen |-> {}]

Init ==
  /\ phase = "queued" /\ attempt = 0 /\ active = FALSE /\ settled = 0
  /\ said = [a \in Attempts |-> 0] /\ wholes = [a \in Attempts |-> {}] /\ durable = <<>>
  /\ queue = <<>> /\ lane = FALSE /\ sent = <<>>
  /\ heard = 0 /\ batch = <<>> /\ chatView = EmptyView /\ answers = {}

-----------------------------------------------------------------------------
(* The Run.                                                                *)
Log(type, a, to) ==
  /\ Len(durable) < MaxEvents
  /\ durable' = Append(durable, [type |-> type, attempt |-> a, to |-> to])

BeginStep ==
  /\ phase \in {"queued", "running"} /\ ~active /\ attempt < MaxAttempt
  /\ attempt' = attempt + 1 /\ active' = TRUE /\ phase' = "running"
  /\ Log("started", attempt + 1, "running")
  /\ UNCHANGED <<settled, said, wholes, socket, browser>>

(* publish: a full queue loses its oldest delta.                           *)
Published(e) == IF Len(queue) >= QueueSize THEN Append(Tail(queue), e) ELSE Append(queue, e)

(* _emit_live: a chunk that continues the text or replaces it.             *)
Emit(replace) ==
  LET n == said[attempt] + 1 IN
  /\ active /\ n <= MaxChunk
  /\ said' = [said EXCEPT ![attempt] = n]
  /\ wholes' = IF replace THEN [wholes EXCEPT ![attempt] = @ \cup {n}] ELSE wholes
  /\ queue' = IF lane THEN Published([attempt |-> attempt, seq |-> n, replace |-> replace]) ELSE queue
  /\ UNCHANGED <<phase, attempt, active, settled, durable, lane, sent, browser>>

(* commit_step: the Run goes on, waits for the user or ends.               *)
Commit(to) ==
  /\ active /\ active' = FALSE /\ settled' = attempt
  /\ phase' = IF phase = "cancelling" THEN "ended" ELSE to
  /\ Log("committed", attempt, phase')
  /\ UNCHANGED <<attempt, said, wholes, socket, browser>>

(* The lease lapses, the user answers or an end without a step: only the   *)
(* status changes.                                                         *)
ChangeStatus(to) ==
  /\ phase # "ended" /\ phase' = to
  /\ \/ phase \in {"running", "cancelling"} /\ to \in {"queued", "ended"}
     \/ phase = "waiting" /\ to = "queued"
  /\ active' = FALSE /\ Log("status", 0, to)
  /\ UNCHANGED <<attempt, settled, said, wholes, socket, browser>>

-----------------------------------------------------------------------------
(* websocket_run_live takes a delta from the queue and sends it.           *)
Send ==
  /\ lane /\ queue # <<>>
  /\ sent' = Append(sent, Head(queue)) /\ queue' = Tail(queue)
  /\ UNCHANGED <<server, lane, browser>>

(* RunLiveService.onmessage: the batcher keeps it for 50 ms.               *)
Hear ==
  /\ sent # <<>>
  /\ batch' = Append(batch, Head(sent)) /\ sent' = Tail(sent)
  /\ UNCHANGED <<server, queue, lane, heard, chatView, answers>>

Gap(view, e) ==
  IF e.attempt \in DOMAIN view.streams
  THEN view.streams[e.attempt].gap \/ e.seq > view.streams[e.attempt].last + 1
  ELSE e.seq > 1

(* projectLiveRunEvent.                                                    *)
Live(view, e) ==
  LET known == e.attempt \in DOMAIN view.streams IN
  IF \/ known /\ e.seq <= view.streams[e.attempt].last
     \/ e.attempt <= view.mark
     \/ view.card \in Resting
  THEN view
  ELSE [view EXCEPT
          !.card = IF @ \in {"none", "queued"} THEN "running" ELSE @,
          !.streams = [a \in DOMAIN @ \cup {e.attempt} |->
             IF a # e.attempt THEN @[a]
             ELSE [last |-> e.seq, gap |-> Gap(view, e),
                   text |-> {e.seq} \cup IF known /\ ~e.replace THEN @[a].text ELSE {}]]]

(* flushNow.                                                               *)
Flushed == FoldLeft(Live, chatView, batch)

Flush ==
  /\ batch # <<>>
  /\ chatView' = Flushed /\ batch' = <<>>
  /\ UNCHANGED <<server, socket, heard, answers>>

(* onclose: what was shown of the lane is dropped; it may be opened again. *)
LoseLane ==
  /\ lane /\ lane' = FALSE /\ queue' = <<>> /\ sent' = <<>>
  /\ batch' = <<>> /\ chatView' = [chatView EXCEPT !.streams = <<>>]
  /\ UNCHANGED <<server, heard, answers>>
OpenLane ==
  /\ ~lane /\ lane' = TRUE
  /\ UNCHANGED <<server, queue, sent, browser>>

-----------------------------------------------------------------------------
(* markLiveStepCompleted.  Mutant: the commit only takes the stream away.  *)
MarkedAs(view, a) == view
Marked(view, a) == [view EXCEPT !.mark = Max({@, a})]

(* projectRunEvent, for the k-th durable event.                            *)
Project(view, k) ==
  LET e == durable[k]
      carded == [view EXCEPT !.seen = @ \cup {k}, !.card = e.to]
  IN
  IF k \in view.seen THEN view
  ELSE IF e.type = "committed"
  THEN Marked([carded EXCEPT !.streams = <<>>], e.attempt)
  ELSE IF e.type = "status" /\ e.to \in {"waiting", "ended"}
  THEN [carded EXCEPT !.streams = <<>>]
  ELSE carded

(* The listener of the App: what is pending is shown first.                *)
HearEvent ==
  /\ heard < Len(durable) /\ heard' = heard + 1
  /\ chatView' = Project(Flushed, heard + 1) /\ batch' = <<>>
  /\ UNCHANGED <<server, socket, answers>>

(* GET /api/runs and POST /api/runs/{id}/cancel: the Run as it is now.     *)
Snapshot == [status |-> phase', settled |-> settled', events |-> Len(durable')]

Fetch ==
  /\ answers = {} /\ UNCHANGED server
  /\ answers' = answers \cup {Snapshot}
  /\ UNCHANGED <<socket, heard, batch, chatView>>

(* request_cancel; the card says so at once (markRunCancelling).           *)
Cancel ==
  /\ answers = {} /\ phase \in {"queued", "running", "waiting"}
  /\ phase' = IF active THEN "cancelling" ELSE "ended"
  /\ Log("status", 0, phase')
  /\ chatView' = IF chatView.card = "none" THEN chatView ELSE [chatView EXCEPT !.card = "cancelling"]
  /\ UNCHANGED <<attempt, active, settled, said, wholes, socket, heard, batch>>
  /\ answers' = answers \cup {Snapshot}

(* projectRunSnapshot: the events of the answer, then its status.          *)
TakeAnswer(s) ==
  LET replayed == FoldLeft(Project, chatView, [k \in 1 .. s.events |-> k])
      next == Marked([replayed EXCEPT !.card = s.status], s.settled)
  IN
  /\ answers' = answers \ {s}
  /\ chatView' = IF s.status \in {"queued", "running"} THEN next ELSE [next EXCEPT !.streams = <<>>]
  /\ UNCHANGED <<server, socket, heard, batch>>

(* The chat is shown anew: nothing of the old projection stays, what is    *)
(* under way to it is not taken.  The event cursor goes on.                *)
OpenChat ==
  /\ queue' = <<>> /\ sent' = <<>> /\ lane' = FALSE
  /\ batch' = <<>> /\ chatView' = EmptyView /\ answers' = {}
  /\ UNCHANGED <<server, heard>>

Next ==
  \/ BeginStep \/ Send \/ Hear \/ Flush \/ LoseLane \/ OpenLane \/ HearEvent
  \/ \E replace \in BOOLEAN : Emit(replace)
  \/ \E to \in {"running", "waiting", "ended"} : Commit(to)
  \/ \E to \in {"queued", "ended"} : ChangeStatus(to)
  \/ Fetch \/ Cancel \/ OpenChat
  \/ \E s \in answers : TakeAnswer(s)

Spec == Init /\ [][Next]_vars

-----------------------------------------------------------------------------
TypeOK ==
  /\ phase \in {"queued", "running", "waiting", "cancelling", "ended"}
  /\ attempt \in 0 .. MaxAttempt /\ settled \in 0 .. attempt /\ {active, lane} \subseteq BOOLEAN
  /\ said \in [Attempts -> 0 .. MaxChunk] /\ Len(queue) <= QueueSize /\ heard \in 0 .. Len(durable)
  /\ DOMAIN chatView.streams \subseteq Attempts /\ chatView.mark \in 0 .. MaxAttempt

(* A live text that is not marked as having a gap is what the Agent said,  *)
(* from the last chunk that replaced it up to the last one heard, however  *)
(* many deltas the broker dropped and however often the lane was lost and  *)
(* joined in the middle of a stream (RunLiveBroker.publish,                *)
(* projectLiveRunEvent).                                                   *)
GaplessIsWhole ==
  \A a \in DOMAIN chatView.streams :
    LET stream == chatView.streams[a] IN
    ~stream.gap => stream.text = Max({r \in wholes[a] : r <= stream.last} \cup {1}) .. stream.last

(* Once the chat knows that an attempt of a step was committed, no delta   *)
(* of it is shown or comes back, though deltas, events and snapshots reach *)
(* the projection over three connections (projectRunEvent,                 *)
(* markLiveStepCompleted).                                                 *)
CommittedIsNotLive ==
  \A k \in chatView.seen :
    durable[k].type = "committed" => durable[k].attempt \notin DOMAIN chatView.streams

(* The live text of a chat is what was said, and only of what is not       *)
(* committed (chatProjection.ts).                                          *)
LiveTextIsTrue == GaplessIsWhole /\ CommittedIsNotLive
=============================================================================
