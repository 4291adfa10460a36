------------------------- MODULE EventStream_proofs -------------------------
(***************************************************************************)
(* A chat on display misses no event behind the cursor (EventStream):      *)
(* NothingSkipped, for any number of Runs, of events, of databases, of     *)
(* lost connections and of loads of the page, and any size of a batch and  *)
(* of the window of known events.                                          *)
(*                                                                         *)
(* The inductive invariant SInv says that nothing under way, remembered or *)
(* displayed is ahead of the store (Behind), that an open loop and the     *)
(* frames it has sent cover every row between the cursor and its position  *)
(* (Following), and that what is taken for known was given to the listener *)
(* or precedes what the view was loaded with (Heard).  The first lemmas    *)
(* are about ORDER BY; then one lemma per action shows that it keeps SInv. *)
(***************************************************************************)
EXTENDS EventStream, FiniteSetTheorems, SequenceTheorems, TLAPS

(* A batch and the window of known events hold at least one event.         *)
Bounds == MaxSequence \in Nat /\ BatchLimit \in Nat \ {0} /\ Window \in Nat \ {0}

Frames == [type : {"ready", "reset", "event"}, epoch : Nat, seq : Nat]
Places == [epoch : Nat, seq : Nat]

STyped ==
  /\ epoch \in Nat \ {0} /\ highest \in 0 .. MaxSequence
  /\ \A e \in rows : e.seq \in 1 .. highest
  /\ link \in {"none", "connecting", "open"} /\ position \in Nat
  /\ asked \in Places /\ cursor \in Places /\ base \in Places
  /\ frames \in Seq(Frames) /\ known \in Seq(Nat \X Nat)

(* No cursor, frame or known event is of a later store, or ahead of it.    *)
Behind ==
  /\ base.epoch <= epoch /\ cursor.epoch <= epoch
  /\ cursor.epoch = epoch => cursor.seq <= highest
  /\ \A i \in 1 .. Len(frames) :
       /\ frames[i].epoch <= epoch /\ frames[i].epoch > 0
       /\ frames[i].type = "event" /\ frames[i].epoch = epoch =>
            position # Gone /\ frames[i].seq <= highest /\ frames[i].seq > 0
  /\ \A i \in 1 .. Len(known) :
       known[i][1] <= epoch /\ (known[i][1] = epoch => known[i][2] <= highest)

(* The URL of a socket that connects names the cursor; a socket that is    *)
(* not open carries nothing.                                               *)
Asking ==
  /\ link = "connecting" => asked = cursor /\ (cursor.epoch = NoEpoch => cursor.seq = 0)
  /\ link # "open" => position = Gone /\ frames = <<>>

(* The loop of the endpoint follows the cursor of its reader: the frames   *)
(* under way are in order and hold every row from the cursor to where the  *)
(* loop is.                                                                *)
Following ==
  position # Gone =>
    /\ position <= highest /\ cursor.epoch \in {NoEpoch, epoch}
    /\ cursor.epoch = NoEpoch => cursor.seq = 0
    /\ \A i \in 1 .. Len(frames) :
         frames[i].epoch = epoch /\ (frames[i].type = "event" => frames[i].seq <= position)
    /\ \A i, j \in 1 .. Len(frames) :
         i < j /\ frames[i].type = "event" /\ frames[j].type = "event" => frames[i].seq < frames[j].seq
    /\ \A e \in rows : cursor.seq < e.seq /\ e.seq <= position =>
         \E i \in 1 .. Len(frames) : frames[i].type = "event" /\ frames[i].seq = e.seq

(* What is remembered as known has been shown, or was there when the view  *)
(* was loaded.                                                             *)
Heard ==
  base # Start =>
    /\ listening
    /\ \A i \in 1 .. Len(known) : known[i][1] = epoch =>
         known[i] \in projected \/ (base.epoch = epoch /\ known[i][2] <= base.seq)

SInv == STyped /\ Behind /\ Asking /\ Following /\ Heard /\ NothingSkipped

-----------------------------------------------------------------------------
(* The rank of a number in a finite set is its place in the order.         *)
LEMMA RankIsBijection ==
  ASSUME NEW S \in SUBSET Nat, IsFiniteSet(S)
  PROVE  /\ Cardinality(S) \in Nat
         /\ \A x \in S : Rank(S, x) \in 1 .. Cardinality(S)
         /\ \A x, y \in S : x < y => Rank(S, x) < Rank(S, y)
         /\ \A i \in 1 .. Cardinality(S) : \E x \in S : Rank(S, x) = i
<1> DEFINE upTo(x) == {y \in S : y <= x}
<1>1. Cardinality(S) \in Nat BY FS_CardinalityType
<1>2. \A x \in S : upTo(x) \in SUBSET S OBVIOUS
<1>3. \A x \in S : IsFiniteSet(upTo(x)) BY <1>2, FS_Subset
<1>4. \A x \in S : Cardinality(upTo(x)) \in Nat /\ Cardinality(upTo(x)) <= Cardinality(S)
  BY <1>2, <1>3, FS_Subset, FS_CardinalityType
<1>5. \A x \in S : Cardinality(upTo(x)) # 0
  <2> TAKE x \in S
  <2>1. x \in upTo(x) OBVIOUS
  <2> QED BY <2>1, <1>3, FS_EmptySet
<1>6. \A x \in S : Rank(S, x) = Cardinality(upTo(x)) BY DEF Rank
<1>7. \A x \in S : Rank(S, x) \in 1 .. Cardinality(S)
  <2> TAKE x \in S
  <2> HIDE DEF upTo
  <2> QED BY <1>1, <1>4, <1>5, <1>6
<1>8. \A x, y \in S : x < y => Rank(S, x) < Rank(S, y)
  <2> TAKE x \in S, y \in S
  <2> HAVE x < y
  <2>1. x \in Nat /\ y \in Nat OBVIOUS
  <2>2. upTo(x) \in SUBSET upTo(y)
    <3>1. \A z \in Nat : z <= x => z <= y BY <2>1
    <3> QED BY <3>1
  <2>3. y \in upTo(y) /\ y \notin upTo(x) BY <2>1
  <2>4. Cardinality(upTo(x)) <= Cardinality(upTo(y)) BY <2>2, <1>3, FS_Subset
  <2>5. Cardinality(upTo(x)) # Cardinality(upTo(y)) BY <2>2, <2>3, <1>3, FS_Subset
  <2> HIDE DEF upTo
  <2> QED BY <2>4, <2>5, <1>4, <1>6
<1>9. \A i \in 1 .. Cardinality(S) : \E x \in S : Rank(S, x) = i
  <2> DEFINE place == [x \in S |-> Rank(S, x)]
  <2> DEFINE places == 1 .. Cardinality(S)
  <2>1. place \in [S -> places] BY <1>7
  <2>2. \A x, y \in S : place[x] = place[y] => x = y
    <3> TAKE x \in S, y \in S
    <3>1. x \in Nat /\ y \in Nat OBVIOUS
    <3>2. x < y \/ y < x \/ x = y BY <3>1
    <3>3. Rank(S, x) \in Nat /\ Rank(S, y) \in Nat BY <1>7
    <3>4. Rank(S, x) = Rank(S, y) => x = y BY <3>2, <3>3, <1>8
    <3> QED BY <3>4
  <2>3. place \in Injection(S, places) BY <2>1, <2>2 DEF Injection, IsInjective
  <2>4. IsFiniteSet(places) /\ Cardinality(places) = Cardinality(S) BY <1>1, FS_Interval
  <2>5. place \in Surjection(S, places) BY <2>3, <2>4, FS_Injection
  <2>6. \A i \in places : \E x \in S : place[x] = i BY <2>5 DEF Surjection
  <2> QED BY <2>6
<1> QED BY <1>1, <1>7, <1>8, <1>9

(* A finite set of numbers that is not empty has a highest one.            *)
LEMMA HighestExists ==
  ASSUME NEW S \in SUBSET Nat, IsFiniteSet(S), S # {}
  PROVE  \E x \in S : \A y \in S : x >= y
<1>1. Cardinality(S) \in Nat /\ Cardinality(S) # 0 BY FS_CardinalityType, FS_EmptySet
<1>2. PICK x \in S : Rank(S, x) = Cardinality(S) BY <1>1, RankIsBijection
<1>3. \A y \in S : x >= y
  <2> TAKE y \in S
  <2>1. x \in Nat /\ y \in Nat OBVIOUS
  <2>2. x < y => Rank(S, x) < Rank(S, y) BY RankIsBijection
  <2>3. Rank(S, y) \in 1 .. Cardinality(S) BY RankIsBijection
  <2> QED BY <2>1, <2>2, <2>3, <1>1, <1>2
<1> QED BY <1>3

(* ORDER BY lists the numbers of the set, and no others, in their order.   *)
LEMMA OrderIsRight ==
  ASSUME NEW S \in SUBSET Nat, IsFiniteSet(S)
  PROVE  /\ InOrder(S) \in [1 .. Cardinality(S) -> S]
         /\ \A i \in 1 .. Cardinality(S) : Rank(S, InOrder(S)[i]) = i
         /\ \A x \in S : \E i \in 1 .. Cardinality(S) : InOrder(S)[i] = x
<1>1. \A i \in 1 .. Cardinality(S) : InOrder(S)[i] \in S /\ Rank(S, InOrder(S)[i]) = i
  BY RankIsBijection DEF InOrder
<1>2. InOrder(S) \in [1 .. Cardinality(S) -> S] BY <1>1 DEF InOrder
<1>3. \A x, y \in S : Rank(S, x) = Rank(S, y) => x = y
  <2> TAKE x \in S, y \in S
  <2>1. x \in Nat /\ y \in Nat OBVIOUS
  <2>2. x < y \/ y < x \/ x = y BY <2>1
  <2>3. Rank(S, x) \in 1 .. Cardinality(S) /\ Rank(S, y) \in 1 .. Cardinality(S)
        /\ Cardinality(S) \in Nat BY RankIsBijection
  <2> QED BY <2>2, <2>3, RankIsBijection
<1>4. \A x \in S : \E i \in 1 .. Cardinality(S) : InOrder(S)[i] = x
  <2> TAKE x \in S
  <2>1. Rank(S, x) \in 1 .. Cardinality(S) BY RankIsBijection
  <2>2. InOrder(S)[Rank(S, x)] = x BY <2>1, <1>1, <1>3
  <2> QED BY <2>1, <2>2
<1> QED BY <1>1, <1>2, <1>4

-----------------------------------------------------------------------------
(* The frames under way, the known events and the cursors, part by part.   *)
LEMMA Elements ==
  ASSUME STyped
  PROVE  /\ Len(frames) \in Nat /\ Len(known) \in Nat
         /\ \A i \in 1 .. Len(frames) :
              /\ frames[i].type \in {"ready", "reset", "event"}
              /\ frames[i].epoch \in Nat /\ frames[i].seq \in Nat
         /\ \A i \in 1 .. Len(known) : known[i][1] \in Nat /\ known[i][2] \in Nat
         /\ cursor.epoch \in Nat /\ cursor.seq \in Nat /\ base.epoch \in Nat /\ base.seq \in Nat
         /\ asked.epoch \in Nat /\ asked.seq \in Nat /\ highest \in Nat /\ epoch \in Nat
         /\ \A e \in rows : e.seq \in Nat
<1>1. Len(frames) \in Nat /\ Len(known) \in Nat BY LenProperties DEF STyped
<1>2. \A i \in 1 .. Len(frames) : frames[i] \in Frames BY ElementOfSeq DEF STyped
<1>3. \A i \in 1 .. Len(known) : known[i] \in Nat \X Nat BY ElementOfSeq DEF STyped
<1>4. \A i \in 1 .. Len(known) : known[i][1] \in Nat /\ known[i][2] \in Nat BY <1>3
<1>5. \A i \in 1 .. Len(frames) :
        /\ frames[i].type \in {"ready", "reset", "event"}
        /\ frames[i].epoch \in Nat /\ frames[i].seq \in Nat
  BY <1>2 DEF Frames
<1>6. cursor \in Places /\ base \in Places /\ asked \in Places BY DEF STyped
<1>7. /\ cursor.epoch \in Nat /\ cursor.seq \in Nat /\ base.epoch \in Nat /\ base.seq \in Nat
      /\ asked.epoch \in Nat /\ asked.seq \in Nat
  BY <1>6 DEF Places
<1>8. highest \in Nat /\ epoch \in Nat /\ \A e \in rows : e.seq \in Nat BY DEF STyped
<1> QED BY <1>1, <1>4, <1>5, <1>7, <1>8

(* The highest sequence in the table is not ahead of the counter.          *)
LEMMA LatestIsNumber == ASSUME Bounds, STyped PROVE Latest \in Nat /\ Latest <= highest
<1> DEFINE S == {e.seq : e \in rows} \cup {0}
<1>1. highest \in Nat BY DEF STyped, Bounds
<1>2. S \in SUBSET (0 .. highest) BY <1>1 DEF STyped
<1>3. S \in SUBSET Nat /\ S # {} BY <1>1, <1>2
<1>4. IsFiniteSet(S)
  <2>1. highest \in Int /\ 0 \in Int BY <1>1
  <2>2. IsFiniteSet(0 .. highest) BY <2>1, FS_Interval
  <2> HIDE DEF S
  <2> QED BY <2>2, <1>2, FS_Subset
<1>5. Max(S) \in S BY <1>3, <1>4, HighestExists DEF Max
<1>6. Latest = Max(S) BY DEF Latest
<1>7. Max(S) \in 0 .. highest BY <1>2, <1>5
<1> HIDE DEF S
<1> QED BY <1>1, <1>6, <1>7

-----------------------------------------------------------------------------
LEMMA SInvInit == ASSUME Bounds, Init PROVE SInv
<1>1. frames = <<>> /\ known = <<>> /\ Len(frames) = 0 /\ Len(known) = 0
  BY EmptySeq DEF Init
<1>2. frames \in Seq(Frames) /\ known \in Seq(Nat \X Nat) BY <1>1, EmptySeq
<1>3. STyped BY <1>2 DEF Init, STyped, Places, Start, NoEpoch, Gone, Bounds
<1>4. Behind /\ Asking /\ Following /\ Heard /\ NothingSkipped
  BY <1>1 DEF Init, Behind, Asking, Following, Heard, NothingSkipped, Start, NoEpoch, Gone
<1> QED BY <1>3, <1>4 DEF SInv

(* An event is recorded: no cursor is there yet.                           *)
LEMMA RecordKeeps ==
  ASSUME Bounds, SInv, NEW r \in Producers, NEW last \in BOOLEAN, Record(r, last) PROVE SInv'
<1> USE DEF SInv, Record, wire, reader, retry, view
<1>1. highest' = highest + 1 /\ highest' \in 1 .. MaxSequence BY DEF STyped, Bounds
<1>2. STyped' BY <1>1 DEF STyped, Places
<1>3. Behind' BY <1>1, Elements DEF Behind, Gone
<1>4. Asking' BY DEF Asking, Gone
<1>5. Following' BY <1>1, Elements DEF Following, Gone, STyped
<1>6. Heard' BY DEF Heard
<1>7. NothingSkipped' BY <1>1, Elements DEF NothingSkipped, Behind
<1> QED BY <1>2, <1>3, <1>4, <1>5, <1>6, <1>7

(* Rows that are deleted cannot be missed.                                 *)
LEMMA PurgeKeeps ==
  ASSUME Bounds, SInv, NEW r \in Producers, NEW k \in 1 .. MaxSequence, Purge(r, k) PROVE SInv'
<1> USE DEF SInv, Purge, wire, reader, retry, view
<1>2. STyped' BY DEF STyped, Places
<1>3. Behind' BY DEF Behind, Gone
<1>4. Asking' BY DEF Asking, Gone
<1>5. Following' BY DEF Following, Gone
<1>6. Heard' BY DEF Heard
<1>7. NothingSkipped' BY DEF NothingSkipped
<1> QED BY <1>2, <1>3, <1>4, <1>5, <1>6, <1>7

(* Everything there is belongs to a store before the new one.              *)
LEMMA NewStoreKeeps == ASSUME Bounds, SInv, NewStore PROVE SInv'
<1> USE DEF SInv
<1>1. epoch' = epoch + 1 /\ epoch \in Nat /\ rows' = {} /\ highest' = 0 /\ position' = Gone
      /\ UNCHANGED <<link, asked, frames, cursor, known, listening, base, projected>>
  BY DEF NewStore, reader, view, STyped
<1>2. base.epoch # epoch' /\ cursor.epoch # epoch' BY <1>1, Elements DEF Behind
<1>3. \A i \in 1 .. Len(frames) : frames[i].epoch # epoch' /\ frames[i].epoch <= epoch'
  BY <1>1, Elements DEF Behind
<1>4. \A i \in 1 .. Len(known) : known[i][1] # epoch' /\ known[i][1] <= epoch'
  BY <1>1, Elements DEF Behind
<1>5. STyped' BY <1>1 DEF STyped, Places, Gone, Bounds
<1>6. Behind' BY <1>1, <1>2, <1>3, <1>4, Elements DEF Behind
<1>7. Asking' BY <1>1 DEF Asking, Gone
<1>8. Following' BY <1>1 DEF Following, Gone
<1>9. Heard' BY <1>1, <1>4 DEF Heard, Start, NoEpoch
<1>10. NothingSkipped' BY <1>1, <1>2 DEF NothingSkipped
<1> QED BY <1>5, <1>6, <1>7, <1>8, <1>9, <1>10

(* The view is loaded: all there is precedes it.                           *)
LEMMA LoadRunsKeeps == ASSUME Bounds, SInv, LoadRuns PROVE SInv'
<1> USE DEF SInv, LoadRuns, store, wire, reader, retry
<1>2. STyped' BY DEF STyped, Places, Bounds
<1>3. Behind' BY Elements DEF Behind, Gone
<1>4. Asking' BY DEF Asking, Gone
<1>5. Following' BY DEF Following, Gone
<1>6. Heard' BY Elements DEF Heard, Behind
<1>7. NothingSkipped' BY Elements DEF NothingSkipped, STyped
<1> QED BY <1>2, <1>3, <1>4, <1>5, <1>6, <1>7

(* Nothing but the view and the reconnection changes.                      *)
LEMMA StillKeeps ==
  ASSUME Bounds, SInv, UNCHANGED <<store, wire, cursor, known>>,
         base' = Start \/ UNCHANGED view
  PROVE  SInv'
<1> USE DEF SInv, store, wire
<1>1. base' = Start \/ UNCHANGED <<base, listening, projected>> BY DEF view
<1>2. STyped' BY <1>1 DEF STyped, Places, Start, NoEpoch
<1>3. Behind' BY <1>1, Elements DEF Behind, Gone, Start, NoEpoch
<1>4. Asking' BY DEF Asking, Gone
<1>5. Following' BY DEF Following, Gone
<1>6. Heard' BY <1>1 DEF Heard, Start
<1>7. NothingSkipped' BY <1>1 DEF NothingSkipped, Start
<1> QED BY <1>2, <1>3, <1>4, <1>5, <1>6, <1>7

(* The socket is let go, or another one is made; the cursor stays or goes  *)
(* back to the start of a store there has been.                            *)
LEMMA RestartKeeps ==
  ASSUME Bounds, SInv, UNCHANGED store, position' = Gone, frames' = <<>>,
         \/ link' = "none" /\ asked' = Start
         \/ link' = "connecting" /\ asked' = cursor' /\ (cursor'.epoch = NoEpoch => cursor'.seq = 0),
         cursor' = cursor \/ \E e \in 0 .. epoch : cursor' = [epoch |-> e, seq |-> 0],
         known' = known \/ known' = <<>>,
         base' = Start \/ UNCHANGED view
  PROVE  SInv'
<1> USE DEF SInv, store
<1>1. base' = Start \/ UNCHANGED <<base, listening, projected>> BY DEF view
<1>2. frames' = <<>> /\ Len(frames') = 0 /\ frames' \in Seq(Frames) BY EmptySeq
<1>3. known' \in Seq(Nat \X Nat) /\ (known' = known \/ Len(known') = 0) BY EmptySeq DEF STyped
<1>4. cursor' \in Places /\ cursor'.epoch <= epoch
      /\ (cursor' = cursor \/ cursor'.seq = 0)
  BY Elements DEF STyped, Behind, Places
<1>5. STyped'
  <2>1. Start \in Places BY DEF Start, Places, NoEpoch
  <2>2. asked' \in Places /\ base' \in Places BY <2>1, <1>1, <1>4 DEF STyped, view
  <2>3. position' \in Nat
    <3> HIDE DEF SInv, store
    <3> QED BY DEF Gone, Bounds
  <2>4. /\ epoch' \in Nat \ {0} /\ highest' \in 0 .. MaxSequence
        /\ \A e \in rows' : e.seq \in 1 .. highest'
    BY DEF STyped
  <2>6. link' \in {"none", "connecting", "open"}
    <3> HIDE DEF SInv, store
    <3> QED OBVIOUS
  <2>5. cursor' \in Places /\ frames' \in Seq(Frames) /\ known' \in Seq(Nat \X Nat) BY <1>2, <1>3, <1>4
  <2> HIDE DEF SInv, store
  <2> QED BY <2>2, <2>3, <2>4, <2>5, <2>6 DEF STyped
<1>6. base'.epoch <= epoch BY <1>1, Elements DEF Behind, Start, NoEpoch
<1>7. Behind'
  <2>1. \A i \in 1 .. Len(known') :
          known'[i][1] <= epoch /\ (known'[i][1] = epoch => known'[i][2] <= highest)
    BY <1>3 DEF Behind
  <2>2. cursor'.epoch = epoch => cursor'.seq <= highest BY <1>4, Elements DEF Behind
  <2> QED BY <2>1, <2>2, <1>2, <1>4, <1>6 DEF Behind
<1>8. Asking' BY <1>2 DEF Asking, Gone
<1>9. Following' BY DEF Following, Gone
<1>10. Heard' BY <1>1, <1>3 DEF Heard, Start
<1>11. \A e \in rows : e.seq <= 0 => FALSE BY DEF STyped
<1>12. NothingSkipped' BY <1>1, <1>4, <1>11 DEF NothingSkipped, Start
<1> QED BY <1>5, <1>7, <1>8, <1>9, <1>10, <1>12

(* A cursor without an epoch starts again from zero.                       *)
LEMMA FromZero ==
  ASSUME STyped
  PROVE  LET c == IF cursor.epoch = NoEpoch THEN [cursor EXCEPT !.seq = 0] ELSE cursor IN
         /\ c = cursor \/ \E e \in 0 .. epoch : c = [epoch |-> e, seq |-> 0]
         /\ c.epoch = NoEpoch => c.seq = 0
<1>1. CASE cursor.epoch = NoEpoch
  <2>1. cursor \in Places /\ cursor.epoch = 0 BY <1>1 DEF STyped, NoEpoch
  <2>3. [cursor EXCEPT !.seq = 0] = [epoch |-> 0, seq |-> 0] BY <2>1 DEF Places
  <2>2. 0 \in 0 .. epoch BY DEF STyped
  <2> QED BY <1>1, <2>3, <2>2
<1>2. CASE cursor.epoch # NoEpoch BY <1>2
<1> QED BY <1>1, <1>2

(* connect(), of the timer or of the first subscription.                   *)
LEMMA ConnectKeeps ==
  ASSUME Bounds, SInv, Connect, UNCHANGED store, known' = known, base' = Start \/ UNCHANGED view
  PROVE  SInv'
<1>1. CASE link # "none" BY <1>1, StillKeeps DEF Connect
<1>2. CASE link = "none"
  <2> DEFINE c == IF cursor.epoch = NoEpoch THEN [cursor EXCEPT !.seq = 0] ELSE cursor
  <2>1. position' = Gone /\ frames' = <<>> /\ link' = "connecting" /\ asked' = cursor' /\ cursor' = c
    BY <1>2 DEF Connect
  <2>2. STyped BY DEF SInv
  <2>3. /\ c = cursor \/ \E e \in 0 .. epoch : c = [epoch |-> e, seq |-> 0]
        /\ c.epoch = NoEpoch => c.seq = 0 BY <2>2, FromZero
  <2> HIDE DEF c
  <2> QED BY <2>1, <2>3, RestartKeeps
<1> QED BY <1>1, <1>2

LEMMA DialKeeps ==
  ASSUME Bounds, SInv,
         TimerFires \/ RetryConnection \/ Subscribe \/ Lose \/ Reload \/ Unsubscribe
  PROVE  SInv'
<1>1. CASE TimerFires BY <1>1, ConnectKeeps DEF TimerFires
<1>2. CASE Subscribe BY <1>2, ConnectKeeps DEF Subscribe
<1>3. CASE RetryConnection
  <2> DEFINE c == IF cursor.epoch = NoEpoch THEN [cursor EXCEPT !.seq = 0] ELSE cursor
  <2>1. position' = Gone /\ frames' = <<>> /\ link' = "connecting" /\ asked' = cursor' /\ cursor' = c
        /\ known' = known /\ UNCHANGED store /\ UNCHANGED view
    BY <1>3 DEF RetryConnection
  <2>2. STyped BY DEF SInv
  <2>3. /\ c = cursor \/ \E e \in 0 .. epoch : c = [epoch |-> e, seq |-> 0]
        /\ c.epoch = NoEpoch => c.seq = 0 BY <2>2, FromZero
  <2> HIDE DEF c
  <2> QED BY <2>1, <2>3, RestartKeeps
<1>4. CASE Lose
  <2>1. position' = Gone /\ frames' = <<>> /\ link' = "none" /\ asked' = Start
        /\ cursor' = cursor /\ known' = known /\ UNCHANGED store /\ UNCHANGED view
    BY <1>4 DEF Lose, HangUp, reader
  <2> QED BY <2>1, RestartKeeps
<1>5. CASE Reload
  <2>1. position' = Gone /\ frames' = <<>> /\ link' = "none" /\ asked' = Start
        /\ cursor' = cursor /\ known' = <<>> /\ UNCHANGED store /\ base' = Start
    BY <1>5 DEF Reload, HangUp
  <2> QED BY <2>1, RestartKeeps
<1>6. CASE Unsubscribe BY <1>6, StillKeeps DEF Unsubscribe, reader
<1> QED BY <1>1, <1>2, <1>3, <1>4, <1>5, <1>6

(* websocket_runs admits a cursor only if it is of this store and not      *)
(* ahead of its rows.                                                      *)
LEMMA AcceptKeeps == ASSUME Bounds, SInv, Accept PROVE SInv'
<1> DEFINE refused == (asked.epoch # NoEpoch /\ asked.epoch # epoch) \/ asked.seq > Latest
           f == Frame(IF refused THEN "reset" ELSE "ready", Latest)
<1> USE DEF SInv
<1>1. /\ link = "connecting" /\ link' = "open" /\ frames' = <<f>> /\ asked' = Start
      /\ position' = (IF refused THEN Gone ELSE asked.seq)
      /\ UNCHANGED <<epoch, rows, highest, cursor, known, listening, base, projected>>
  BY DEF Accept, store, reader, view
<1>2. Latest \in Nat /\ Latest <= highest BY LatestIsNumber
<1>3. f \in Frames /\ f.type # "event" /\ f.epoch = epoch /\ epoch > 0
  BY <1>2 DEF Frame, Frames, STyped
<1>4. asked = cursor /\ (cursor.epoch = NoEpoch => cursor.seq = 0) BY <1>1 DEF Asking
<1>5. position' # Gone =>
        /\ position' = cursor.seq /\ cursor.seq <= highest
        /\ cursor.epoch \in {NoEpoch, epoch}
  BY <1>1, <1>2, <1>4, Elements
<1>6. position' \in Nat BY <1>1, Elements DEF Gone, Bounds
<1> HIDE DEF f, refused
<1>7. frames' \in Seq(Frames) /\ Len(frames') = 1 /\ frames'[1] = f
  <2>1. <<>> \in Seq(Frames) /\ Len(<<>>) = 0 BY EmptySeq
  <2>2. frames' = Append(<<>>, f) BY <1>1
  <2> QED BY <2>1, <2>2, <1>1, <1>3, AppendProperties
<1>8. \A i \in 1 .. Len(frames') : frames'[i].type # "event" /\ frames'[i].epoch = epoch /\ i = 1
  BY <1>3, <1>7
<1>9. STyped' BY <1>1, <1>6, <1>7 DEF STyped, Places, Start, NoEpoch
<1>10. Behind' BY <1>1, <1>3, <1>8, Elements DEF Behind
<1>11. Asking' BY <1>1 DEF Asking
<1>12. Following'
  <2>1. \A e \in rows : ~(cursor.seq < e.seq /\ e.seq <= cursor.seq) BY Elements
  <2> QED BY <1>1, <1>4, <1>5, <1>8, <2>1 DEF Following, Gone
<1>13. Heard' /\ NothingSkipped' BY <1>1 DEF Heard, NothingSkipped
<1> QED BY <1>9, <1>10, <1>11, <1>12, <1>13

(* A batch is the next rows in order, and the loop goes to the last of it. *)
LEMMA PollKeeps == ASSUME Bounds, SInv, Poll PROVE SInv'
<1> DEFINE new == {e.seq : e \in {d \in rows : d.seq > position}}
           n == Cardinality(new)
           k == Min({BatchLimit, n})
           ordered == InOrder(new)
           batch == SubSeq(ordered, 1, k)
           page == [i \in DOMAIN batch |-> Frame("event", batch[i])]
<1> USE DEF SInv
<1>1. /\ link = "open" /\ position # Gone /\ new # {}
      /\ frames' = frames \o page /\ position' = Last(batch)
      /\ UNCHANGED <<epoch, rows, highest, link, asked, cursor, known, listening, base, projected>>
  BY DEF Poll, store, reader, view
<1>2. new \in SUBSET (1 .. highest) /\ highest \in Nat /\ epoch \in Nat /\ epoch > 0
  BY DEF STyped
<1>3. new \in SUBSET Nat BY <1>2
<1>4. IsFiniteSet(new)
  <2>1. IsFiniteSet(1 .. highest) BY <1>2, FS_Interval
  <2> HIDE DEF new
  <2> QED BY <1>2, <2>1, FS_Subset
<1>5. \A x \in new : x > position BY Elements
<1>6. \A e \in rows : e.seq > position => e.seq \in new OBVIOUS
<1> HIDE DEF new
<1>7. n \in Nat /\ n # 0 BY <1>1, <1>4, FS_CardinalityType, FS_EmptySet
<1>8. /\ ordered \in [1 .. n -> new]
      /\ \A i \in 1 .. n : Rank(new, ordered[i]) = i
      /\ \A x \in new : \E i \in 1 .. n : ordered[i] = x
  BY <1>3, <1>4, OrderIsRight
<1>9. \A i, j \in 1 .. n : i < j => ordered[i] < ordered[j]
  <2> TAKE i \in 1 .. n, j \in 1 .. n
  <2>1. ordered[i] \in new /\ ordered[j] \in new BY <1>8
  <2>2. ordered[i] \in Nat /\ ordered[j] \in Nat BY <2>1, <1>3
  <2>3. Rank(new, ordered[i]) = i /\ Rank(new, ordered[j]) = j BY <1>8
  <2>4. ordered[j] < ordered[i] => j < i BY <2>1, <2>3, <1>3, <1>4, RankIsBijection
  <2>5. ordered[j] = ordered[i] => i = j BY <2>3
  <2> HIDE DEF ordered, n
  <2> QED BY <2>2, <2>4, <2>5, <1>7
<1>10. k \in 1 .. n
  <2>1. BatchLimit \in Nat /\ BatchLimit # 0 BY DEF Bounds
  <2> HIDE DEF n
  <2>2. \E x \in {BatchLimit, n} : \A y \in {BatchLimit, n} : x =< y BY <2>1, <1>7
  <2>3. k \in {BatchLimit, n} /\ \A y \in {BatchLimit, n} : k =< y BY <2>2 DEF Min
  <2> HIDE DEF k
  <2> QED BY <2>1, <2>3, <1>7
<1> HIDE DEF k, n, ordered
<1>11. /\ batch \in Seq(new) /\ Len(batch) = k /\ DOMAIN batch = 1 .. k
       /\ \A i \in 1 .. k : batch[i] = ordered[i] /\ batch[i] \in new
  <2>1. k \in Int /\ 1 \in Int /\ 1 <= k /\ k - 1 + 1 = k BY <1>7, <1>10
  <2>2. \A i \in 1 .. k : ordered[i] \in new BY <1>7, <1>8, <1>10
  <2>3. batch \in Seq(new) /\ Len(batch) = k /\ \A i \in 1 .. k : batch[i] = ordered[1 + i - 1]
    BY <2>1, <2>2, SubSeqProperties
  <2>4. DOMAIN batch = 1 .. k BY <2>3, LenProperties
  <2>5. \A i \in 1 .. k : 1 + i - 1 = i BY <2>1
  <2> HIDE DEF batch
  <2> QED BY <2>2, <2>3, <2>4, <2>5
<1>12. position' = ordered[k] /\ position' \in new BY <1>1, <1>10, <1>11 DEF Last
<1> HIDE DEF batch
<1>13. page = [i \in 1 .. k |-> Frame("event", ordered[i])] BY <1>11
<1> HIDE DEF page
<1>14. \A i \in 1 .. k : /\ page[i] \in Frames /\ page[i].type = "event" /\ page[i].epoch = epoch
                         /\ page[i].seq = ordered[i] /\ ordered[i] \in new
  <2> TAKE i \in 1 .. k
  <2>1. i \in 1 .. n BY <1>7, <1>10
  <2>2. ordered[i] \in new /\ ordered[i] \in Nat BY <2>1, <1>3, <1>8
  <2>3. page[i] = Frame("event", ordered[i]) BY <1>13
  <2> QED BY <2>2, <2>3, <1>2 DEF Frame, Frames
<1>15. page \in Seq(Frames) /\ Len(page) = k
  <2>1. page \in [1 .. k -> Frames] BY <1>13, <1>14
  <2>2. k \in Nat BY <1>10
  <2>3. page \in Seq(Frames) BY <2>1, <2>2, SeqDef
  <2> QED BY <2>1, <2>2, <2>3, LenProperties
<1> DEFINE m == Len(frames)
<1>16. /\ frames' \in Seq(Frames) /\ Len(frames') = m + k /\ m \in Nat
       /\ \A i \in 1 .. m + k : frames'[i] = IF i <= m THEN frames[i] ELSE page[i - m]
  <2>1. frames \in Seq(Frames) BY DEF STyped
  <2> QED BY <2>1, <1>1, <1>15, ConcatProperties, LenProperties
<1>17. /\ \A i \in 1 .. m : frames'[i] = frames[i]
       /\ \A i \in m + 1 .. m + k : frames'[i] = page[i - m] /\ i - m \in 1 .. k
  BY <1>10, <1>7, <1>16
<1>18. \A i \in 1 .. m + k : i \in 1 .. m \/ i \in m + 1 .. m + k BY <1>10, <1>7, <1>16
<1>19. position <= highest /\ \A i \in 1 .. m :
         frames[i].epoch = epoch /\ (frames[i].type = "event" => frames[i].seq <= position)
  BY <1>1 DEF Following
<1>20. \A x \in new : x > position /\ x <= highest /\ x > 0 /\ x \in Nat BY <1>2, <1>5
<1>21. position \in Nat /\ position < position' /\ position' <= highest /\ highest < Gone
  BY <1>12, <1>20 DEF STyped, Gone, Bounds
<1>22. STyped' BY <1>1, <1>3, <1>12, <1>16 DEF STyped, Places
<1> HIDE DEF m
<1>23. Behind'
  <2>1. \A i \in 1 .. Len(frames') :
       /\ frames'[i].epoch <= epoch /\ frames'[i].epoch > 0
       /\ frames'[i].type = "event" => frames'[i].seq <= highest /\ frames'[i].seq > 0
    <3> TAKE i \in 1 .. Len(frames')
    <3>1. CASE i \in 1 .. m
      <4>1. frames'[i] = frames[i] BY <3>1, <1>17
      <4>2. /\ frames[i].epoch = epoch
            /\ frames[i].type = "event" => frames[i].seq <= highest /\ frames[i].seq > 0
        BY <3>1, <1>19 DEF m, Behind
      <4> QED BY <4>1, <4>2, <1>2
    <3>2. CASE i \in m + 1 .. m + k
      <4>1. frames'[i].epoch = epoch /\ frames'[i].seq \in new BY <3>2, <1>14, <1>17
      <4> QED BY <4>1, <1>2, <1>20
    <3> QED BY <3>1, <3>2, <1>16, <1>18
  <2>2. position' # Gone BY <1>2, <1>3, <1>12, <1>21 DEF Gone, Bounds
  <2> QED BY <2>1, <2>2, <1>1 DEF Behind, Gone
<1>24. Asking' BY <1>1 DEF Asking
<1>25. Following'
  <2>1. \A i \in 1 .. Len(frames') :
          frames'[i].epoch = epoch /\ (frames'[i].type = "event" => frames'[i].seq <= position')
    <3> TAKE i \in 1 .. Len(frames')
    <3>1. CASE i \in 1 .. m
      <4>1. frames'[i] = frames[i] BY <3>1, <1>17
      <4>2. frames[i].seq \in Nat BY <3>1, Elements DEF m
      <4> QED BY <4>1, <4>2, <3>1, <1>19, <1>21, <1>12, <1>3
    <3>2. CASE i \in m + 1 .. m + k
      <4>1. i - m \in 1 .. k /\ frames'[i].epoch = epoch /\ frames'[i].seq = ordered[i - m]
        BY <3>2, <1>14, <1>17
      <4>2. i - m \in 1 .. n /\ k \in 1 .. n /\ (i - m < k \/ i - m = k) BY <4>1, <1>7, <1>10
      <4>3. ordered[i - m] < ordered[k] \/ ordered[i - m] = ordered[k] BY <4>2, <1>9
      <4>4. ordered[i - m] \in Nat /\ ordered[k] \in Nat BY <4>2, <1>8, <1>3
      <4> QED BY <4>1, <4>3, <4>4, <1>12
    <3> QED BY <3>1, <3>2, <1>16, <1>18
  <2>2. \A i, j \in 1 .. Len(frames') :
         i < j /\ frames'[i].type = "event" /\ frames'[j].type = "event" => frames'[i].seq < frames'[j].seq
    <3> TAKE i \in 1 .. Len(frames'), j \in 1 .. Len(frames')
    <3> HAVE i < j /\ frames'[i].type = "event" /\ frames'[j].type = "event"
    <3>1. CASE j \in 1 .. m
      <4>1. i \in 1 .. m BY <3>1, <1>16 DEF m
      <4> QED BY <3>1, <4>1, <1>1, <1>17 DEF Following, m
    <3>2. CASE i \in 1 .. m /\ j \in m + 1 .. m + k
      <4>1. frames'[i].seq <= position /\ frames'[i].seq \in Nat BY <3>2, <1>17, <1>19, Elements DEF m
      <4>2. frames'[j].seq \in new BY <3>2, <1>14, <1>17
      <4> QED BY <4>1, <4>2, <1>20, <1>21
    <3>3. CASE i \in m + 1 .. m + k /\ j \in m + 1 .. m + k
      <4>1. i - m \in 1 .. n /\ j - m \in 1 .. n /\ i - m < j - m BY <3>3, <1>7, <1>10, <1>16
      <4>2. frames'[i].seq = ordered[i - m] /\ frames'[j].seq = ordered[j - m]
        BY <3>3, <1>14, <1>17
      <4> QED BY <4>1, <4>2, <1>9
    <3> QED BY <3>1, <3>2, <3>3, <1>16, <1>18
  <2>3. \A e \in rows : cursor.seq < e.seq /\ e.seq <= position' =>
          \E i \in 1 .. Len(frames') : frames'[i].type = "event" /\ frames'[i].seq = e.seq
    <3> TAKE e \in rows
    <3> HAVE cursor.seq < e.seq /\ e.seq <= position'
    <3>0. e.seq \in Nat BY Elements
    <3>1. CASE e.seq <= position
      <4>1. PICK i \in 1 .. m : frames[i].type = "event" /\ frames[i].seq = e.seq
        BY <3>1, <1>1 DEF Following, m
      <4>2. i \in 1 .. Len(frames') /\ frames'[i] = frames[i] BY <1>16, <1>17, <1>7, <1>10
      <4> QED BY <4>1, <4>2
    <3>2. CASE e.seq > position
      <4>1. PICK i \in 1 .. n : ordered[i] = e.seq BY <3>2, <1>6, <1>8
      <4>2. i <= k \/ k < i BY <1>7, <1>10
      <4>3. k < i => ordered[k] < ordered[i] BY <1>9, <1>10
      <4>4. ordered[k] \in Nat BY <1>8, <1>10, <1>3
      <4>5. i \in 1 .. k BY <4>1, <4>2, <4>3, <4>4, <1>12, <1>10, <1>7, <3>0
      <4> DEFINE j == m + i
      <4>0. m \in Nat /\ k \in Nat /\ i \in Nat /\ 1 <= i /\ i <= k /\ Len(frames') = m + k
        BY <4>5, <1>16, <1>7, <1>10
      <4>6. j \in m + 1 .. m + k /\ j \in 1 .. Len(frames') /\ j - m = i BY <4>0
      <4> HIDE DEF j
      <4>7. frames'[j] = page[i] BY <4>6, <1>17
      <4> QED BY <4>1, <4>5, <4>6, <4>7, <1>14
    <3> QED BY <3>0, <3>1, <3>2, <1>21
  <2>4. position' <= highest BY <1>21
  <2> QED BY <2>1, <2>2, <2>3, <2>4, <1>1 DEF Following, Gone
<1>26. Heard' /\ NothingSkipped' BY <1>1 DEF Heard, NothingSkipped
<1> QED BY <1>22, <1>23, <1>24, <1>25, <1>26

-----------------------------------------------------------------------------
(* The frame that is handled, and the frames behind it.                    *)
LEMMA Handled ==
  ASSUME STyped, frames # <<>>
  PROVE  /\ Head(frames) = frames[1] /\ 1 \in 1 .. Len(frames) /\ Head(frames) \in Frames
         /\ Tail(frames) \in Seq(Frames) /\ Len(Tail(frames)) + 1 = Len(frames)
         /\ Len(Tail(frames)) \in Nat
         /\ \A i \in 1 .. Len(Tail(frames)) : Tail(frames)[i] = frames[i + 1] /\ i + 1 \in 1 .. Len(frames)
         /\ \A i \in 1 .. Len(frames) :
              i = 1 \/ \E j \in 1 .. Len(Tail(frames)) : i = j + 1
<1>1. frames \in Seq(Frames) BY DEF STyped
<1>2. Head(frames) \in Frames /\ Tail(frames) \in Seq(Frames) /\ Len(Tail(frames)) = Len(frames) - 1
      /\ \A i \in 1 .. Len(Tail(frames)) : Tail(frames)[i] = frames[i + 1]
  BY <1>1, HeadTailProperties
<1>3. Len(frames) \in Nat /\ Len(frames) # 0 BY <1>1, EmptySeq
<1>4. Head(frames) = frames[1] BY <1>1
<1> DEFINE t == Len(Tail(frames))
<1>5. t \in Nat /\ t + 1 = Len(frames) BY <1>2, <1>3
<1>6. \A i \in 1 .. t : i + 1 \in 1 .. Len(frames) BY <1>5
<1>7. \A i \in 1 .. Len(frames) : i = 1 \/ \E j \in 1 .. t : i = j + 1
  <2> TAKE i \in 1 .. Len(frames)
  <2>1. i # 1 => i - 1 \in 1 .. t /\ i = (i - 1) + 1 BY <1>5
  <2> QED BY <2>1
<1> QED BY <1>2, <1>3, <1>4, <1>5, <1>6, <1>7

(* Remembering adds the event and may forget another.                      *)
LEMMA RememberedIs ==
  ASSUME STyped, Bounds, NEW id \in Nat \X Nat
  PROVE  /\ Remembered(id) \in Seq(Nat \X Nat)
         /\ \A i \in 1 .. Len(Remembered(id)) :
              Remembered(id)[i] = id \/ \E j \in 1 .. Len(known) : Remembered(id)[i] = known[j]
<1>1. known \in Seq(Nat \X Nat) BY DEF STyped
<1>2. CASE Contains(known, id) BY <1>1, <1>2 DEF Remembered
<1>3. CASE ~Contains(known, id) /\ Len(known) # Window
  <2>1. Remembered(id) = Append(known, id) BY <1>3 DEF Remembered
  <2>2. /\ Append(known, id) \in Seq(Nat \X Nat) /\ Len(Append(known, id)) = Len(known) + 1
        /\ \A i \in 1 .. Len(known) : Append(known, id)[i] = known[i]
        /\ Append(known, id)[Len(known) + 1] = id BY <1>1, AppendProperties
  <2>3. \A i \in 1 .. Len(known) + 1 : i \in 1 .. Len(known) \/ i = Len(known) + 1
    BY <1>1, LenProperties
  <2> QED BY <2>1, <2>2, <2>3
<1>4. CASE ~Contains(known, id) /\ Len(known) = Window
  <2> DEFINE rest == Tail(known)
  <2>1. Remembered(id) = Append(rest, id) BY <1>4 DEF Remembered
  <2>2. known # <<>> BY <1>4, EmptySeq DEF Bounds
  <2>3. rest \in Seq(Nat \X Nat) /\ Len(rest) = Len(known) - 1
        /\ \A i \in 1 .. Len(rest) : rest[i] = known[i + 1] BY <1>1, <2>2, HeadTailProperties
  <2> HIDE DEF rest
  <2>4. /\ Append(rest, id) \in Seq(Nat \X Nat) /\ Len(Append(rest, id)) = Len(rest) + 1
        /\ \A i \in 1 .. Len(rest) : Append(rest, id)[i] = rest[i]
        /\ Append(rest, id)[Len(rest) + 1] = id BY <2>3, AppendProperties
  <2>5. Len(rest) \in Nat /\ Len(known) \in Nat BY <2>3, <1>1, LenProperties
  <2>6. \A i \in 1 .. Len(rest) + 1 : i = Len(rest) + 1 \/ (i \in 1 .. Len(rest) /\ i + 1 \in 1 .. Len(known))
    BY <2>3, <2>5
  <2>7. \A i \in 1 .. Len(rest) + 1 :
          Append(rest, id)[i] = id \/ \E j \in 1 .. Len(known) : Append(rest, id)[i] = known[j]
    BY <2>3, <2>4, <2>6
  <2> QED BY <2>1, <2>4, <2>7
<1> QED BY <1>2, <1>3, <1>4

(* A frame is handled and the stream goes on; what is left of it is as     *)
(* good as it was.                                                         *)
Proceeds ==
  /\ frames # <<>> /\ frames' = Tail(frames)
  /\ UNCHANGED <<epoch, rows, highest, link, asked, position, listening, base>>

LEMMA ProceedsRest ==
  ASSUME Bounds, SInv, link = "open", Proceeds
  PROVE  /\ frames' \in Seq(Frames) /\ Asking'
         /\ \A i \in 1 .. Len(frames') :
              /\ frames'[i].epoch <= epoch /\ frames'[i].epoch > 0
              /\ frames'[i].type = "event" /\ frames'[i].epoch = epoch =>
                   position # Gone /\ frames'[i].seq <= highest /\ frames'[i].seq > 0
         /\ position # Gone =>
              /\ position <= highest
              /\ \A i \in 1 .. Len(frames') :
                   frames'[i].epoch = epoch /\ (frames'[i].type = "event" => frames'[i].seq <= position)
              /\ \A i, j \in 1 .. Len(frames') :
                   i < j /\ frames'[i].type = "event" /\ frames'[j].type = "event"
                     => frames'[i].seq < frames'[j].seq
<1> DEFINE t == Tail(frames)
<1> USE DEF SInv, Proceeds
<1>1. /\ t \in Seq(Frames) /\ Len(t) \in Nat
      /\ \A i \in 1 .. Len(t) : t[i] = frames[i + 1] /\ i + 1 \in 1 .. Len(frames)
  BY Handled
<1>2. frames' = t OBVIOUS
<1> HIDE DEF t
<1>3. \A i, j \in 1 .. Len(t) : i < j => i + 1 < j + 1 BY <1>1
<1>4. Asking' BY DEF Asking
<1>5. \A i \in 1 .. Len(frames') :
        /\ frames'[i].epoch <= epoch /\ frames'[i].epoch > 0
        /\ frames'[i].type = "event" /\ frames'[i].epoch = epoch =>
             position # Gone /\ frames'[i].seq <= highest /\ frames'[i].seq > 0
  BY <1>1, <1>2 DEF Behind
<1>6. ASSUME position # Gone
      PROVE  /\ position <= highest
             /\ \A i \in 1 .. Len(frames') :
                  frames'[i].epoch = epoch /\ (frames'[i].type = "event" => frames'[i].seq <= position)
             /\ \A i, j \in 1 .. Len(frames') :
                  i < j /\ frames'[i].type = "event" /\ frames'[j].type = "event"
                    => frames'[i].seq < frames'[j].seq
  <2>1. position <= highest BY <1>6 DEF Following
  <2>2. \A i \in 1 .. Len(frames') :
          frames'[i].epoch = epoch /\ (frames'[i].type = "event" => frames'[i].seq <= position)
    BY <1>1, <1>2, <1>6 DEF Following
  <2>3. \A i, j \in 1 .. Len(frames) :
          i < j /\ frames[i].type = "event" /\ frames[j].type = "event" => frames[i].seq < frames[j].seq
    BY <1>6 DEF Following
  <2>4. \A i, j \in 1 .. Len(frames') :
          i < j /\ frames'[i].type = "event" /\ frames'[j].type = "event"
            => frames'[i].seq < frames'[j].seq
    BY <2>3, <1>1, <1>2, <1>3
  <2> QED BY <2>1, <2>2, <2>4
<1> QED BY <1>1, <1>2, <1>4, <1>5, <1>6

(* The first answer of a store gives a cursor without an epoch its epoch.  *)
LEMMA NamedKeeps ==
  ASSUME Bounds, SInv, link = "open", Proceeds, NEW f, f = Head(frames), f.type = "ready",
         cursor.epoch = NoEpoch, cursor' = [epoch |-> f.epoch, seq |-> 0],
         UNCHANGED <<known, projected>>
  PROVE  SInv'
<1> USE DEF SInv
<1>1. UNCHANGED <<epoch, rows, highest, link, asked, position, listening, base>> /\ frames # <<>>
      /\ frames' = Tail(frames)
  BY DEF Proceeds
<1>2. 1 \in 1 .. Len(frames) /\ f = frames[1] /\ f \in Frames BY <1>1, Handled
<1>3. f.epoch <= epoch /\ f.epoch \in Nat BY <1>2 DEF Behind, Frames
<1>4. cursor' \in Places /\ cursor'.epoch = f.epoch /\ cursor'.seq = 0 BY <1>3 DEF Places
<1>5. position # Gone => f.epoch = epoch /\ cursor.seq = 0 BY <1>2 DEF Following
<1>6. STyped' BY <1>1, <1>4, ProceedsRest DEF STyped
<1>7. Behind' BY <1>1, <1>3, <1>4, ProceedsRest, Elements DEF Behind, Gone
<1>8. Following'
  <2>1. ASSUME position # Gone, NEW e \in rows, cursor'.seq < e.seq, e.seq <= position
        PROVE  \E i \in 1 .. Len(frames') : frames'[i].type = "event" /\ frames'[i].seq = e.seq
    <3>1. PICK i \in 1 .. Len(frames) : frames[i].type = "event" /\ frames[i].seq = e.seq
      BY <2>1, <1>4, <1>5 DEF Following
    <3>2. i # 1 BY <3>1, <1>2
    <3>3. PICK j \in 1 .. Len(Tail(frames)) : i = j + 1 BY <3>2, <1>1, Handled
    <3>4. Tail(frames)[j] = frames[i] BY <3>3, <1>1, Handled
    <3> QED BY <3>1, <3>4, <1>1
  <2> QED BY <2>1, <1>1, <1>4, <1>5, ProceedsRest DEF Following, Gone
<1>9. Heard' BY <1>1 DEF Heard
<1>10. \A e \in rows : e.seq <= 0 => FALSE BY DEF STyped
<1>11. NothingSkipped' BY <1>1, <1>4, <1>10 DEF NothingSkipped
<1> QED BY <1>6, <1>7, <1>8, <1>9, <1>11, ProceedsRest

(* A frame that tells the reader nothing new is dropped.                   *)
LEMMA DroppedKeeps ==
  ASSUME Bounds, SInv, link = "open", Proceeds, NEW f, f = Head(frames),
         f.type = "event" => f.seq <= cursor.seq,
         UNCHANGED <<cursor, known, projected>>
  PROVE  SInv'
<1> USE DEF SInv
<1>1. UNCHANGED <<epoch, rows, highest, link, asked, position, listening, base>> /\ frames # <<>>
      /\ frames' = Tail(frames)
  BY DEF Proceeds
<1>2. 1 \in 1 .. Len(frames) /\ f = frames[1] /\ f \in Frames BY <1>1, Handled
<1>6. STyped' BY <1>1, ProceedsRest DEF STyped
<1>7. Behind' BY <1>1, ProceedsRest DEF Behind, Gone
<1>8. Following'
  <2>1. ASSUME position # Gone, NEW e \in rows, cursor.seq < e.seq, e.seq <= position
        PROVE  \E i \in 1 .. Len(frames') : frames'[i].type = "event" /\ frames'[i].seq = e.seq
    <3>1. PICK i \in 1 .. Len(frames) : frames[i].type = "event" /\ frames[i].seq = e.seq
      BY <2>1 DEF Following
    <3>2. cursor.seq \in Nat /\ e.seq \in Nat /\ f.seq \in Nat BY <1>2, Elements
    <3>3. i # 1 BY <3>1, <3>2, <1>2, <2>1
    <3>4. PICK j \in 1 .. Len(Tail(frames)) : i = j + 1 BY <3>3, <1>1, Handled
    <3>5. Tail(frames)[j] = frames[i] BY <3>4, <1>1, Handled
    <3> QED BY <3>1, <3>5, <1>1
  <2>2. position # Gone => cursor.epoch \in {NoEpoch, epoch} /\ (cursor.epoch = NoEpoch => cursor.seq = 0)
    BY DEF Following
  <2> QED BY <2>1, <2>2, <1>1, ProceedsRest DEF Following, Gone
<1>9. Heard' BY <1>1 DEF Heard
<1>11. NothingSkipped' BY <1>1 DEF NothingSkipped
<1> QED BY <1>6, <1>7, <1>8, <1>9, <1>11, ProceedsRest

(* A new event moves the cursor over no row but its own, and is given to   *)
(* the listener unless it was before.                                      *)
LEMMA AcceptedKeeps ==
  ASSUME Bounds, SInv, link = "open", Proceeds, NEW f, f = Head(frames), f.type = "event",
         f.epoch = cursor.epoch, f.seq > cursor.seq,
         cursor' = [cursor EXCEPT !.seq = f.seq],
         known' = Remembered(<<f.epoch, f.seq>>),
         projected' = IF listening /\ ~Contains(known, <<f.epoch, f.seq>>)
                      THEN projected \cup {<<f.epoch, f.seq>>} ELSE projected
  PROVE  SInv'
<1> DEFINE id == <<f.epoch, f.seq>>
<1> USE DEF SInv
<1>1. UNCHANGED <<epoch, rows, highest, link, asked, position, listening, base>> /\ frames # <<>>
      /\ frames' = Tail(frames)
  BY DEF Proceeds
<1>2. 1 \in 1 .. Len(frames) /\ f = frames[1] /\ f \in Frames BY <1>1, Handled
<1>3. f.epoch \in Nat /\ f.seq \in Nat /\ f.epoch <= epoch /\ f.epoch > 0
      /\ (f.epoch = epoch => position # Gone /\ f.seq <= highest)
  BY <1>2 DEF Behind, Frames
<1>4. cursor' \in Places /\ cursor'.epoch = cursor.epoch /\ cursor'.seq = f.seq
  BY <1>3 DEF STyped, Places
<1>5. id \in Nat \X Nat /\ id[1] = f.epoch /\ id[2] = f.seq BY <1>3
<1> HIDE DEF id
<1>6. known' = Remembered(id)
      /\ projected' = (IF listening /\ ~Contains(known, id) THEN projected \cup {id} ELSE projected)
  BY DEF id
<1>7. known' \in Seq(Nat \X Nat) /\ \A i \in 1 .. Len(known') :
        known'[i] = id \/ \E j \in 1 .. Len(known) : known'[i] = known[j]
  <2>1. STyped OBVIOUS
  <2>2. /\ Remembered(id) \in Seq(Nat \X Nat)
        /\ \A i \in 1 .. Len(Remembered(id)) :
             Remembered(id)[i] = id \/ \E j \in 1 .. Len(known) : Remembered(id)[i] = known[j]
    BY ONLY <2>1, <1>5, Bounds, RememberedIs
  <2> QED BY ONLY <2>2, <1>6
<1>8. STyped' BY <1>1, <1>4, <1>7, ProceedsRest DEF STyped
<1>9. Behind'
  <2>1. \A i \in 1 .. Len(known') :
          known'[i][1] <= epoch /\ (known'[i][1] = epoch => known'[i][2] <= highest)
    <3> TAKE i \in 1 .. Len(known')
    <3>1. CASE known'[i] = id BY <3>1, <1>3, <1>5
    <3>2. ASSUME NEW j \in 1 .. Len(known), known'[i] = known[j]
          PROVE  known'[i][1] <= epoch /\ (known'[i][1] = epoch => known'[i][2] <= highest)
      BY <3>2 DEF Behind
    <3> QED BY <3>1, <3>2, <1>7
  <2>2. cursor'.epoch <= epoch /\ (cursor'.epoch = epoch => cursor'.seq <= highest)
    BY <1>3, <1>4
  <2> QED BY <1>1, <2>1, <2>2, ProceedsRest DEF Behind, Gone
<1>10. position # Gone => f.epoch = epoch /\ cursor.epoch = epoch /\ f.seq <= position
  BY <1>2 DEF Following
<1>11. Following'
  <2>1. ASSUME position # Gone, NEW e \in rows, cursor'.seq < e.seq, e.seq <= position
        PROVE  \E i \in 1 .. Len(frames') : frames'[i].type = "event" /\ frames'[i].seq = e.seq
    <3>2. cursor.seq \in Nat /\ e.seq \in Nat /\ f.seq \in Nat BY <1>3, Elements
    <3>0. cursor.seq < e.seq BY <2>1, <3>2, <1>4
    <3>1. PICK i \in 1 .. Len(frames) : frames[i].type = "event" /\ frames[i].seq = e.seq
      BY <2>1, <3>0 DEF Following
    <3>3. i # 1 BY <3>1, <3>2, <1>2, <1>4, <2>1
    <3>4. PICK j \in 1 .. Len(Tail(frames)) : i = j + 1 BY <3>3, <1>1, Handled
    <3>5. Tail(frames)[j] = frames[i] BY <3>4, <1>1, Handled
    <3> QED BY <3>1, <3>5, <1>1
  <2>2. position # Gone => cursor'.epoch = epoch /\ epoch # NoEpoch BY <1>4, <1>10 DEF STyped, NoEpoch
  <2> QED BY <2>1, <2>2, <1>1, ProceedsRest DEF Following, Gone
<1>12. Heard'
  <2>1. ASSUME base # Start, NEW i \in 1 .. Len(known'), known'[i][1] = epoch
        PROVE  known'[i] \in projected' \/ (base.epoch = epoch /\ known'[i][2] <= base.seq)
    <3>1. listening BY <2>1 DEF Heard
    <3>2. \A j \in 1 .. Len(known) : known[j][1] = epoch =>
            known[j] \in projected' \/ (base.epoch = epoch /\ known[j][2] <= base.seq)
      BY <2>1, <1>6 DEF Heard
    <3>3. CASE known'[i] = id
      <4>1. CASE Contains(known, id)
        <5>1. PICK j \in 1 .. Len(known) : known[j] = id BY <4>1 DEF Contains
        <5> QED BY <5>1, <3>2, <3>3, <2>1
      <4>2. CASE ~Contains(known, id) BY <4>2, <3>1, <3>3, <1>6
      <4> QED BY <4>1, <4>2
    <3>4. CASE \E j \in 1 .. Len(known) : known'[i] = known[j] BY <3>2, <3>4, <2>1
    <3> QED BY <3>3, <3>4, <1>7
  <2> QED BY <2>1, <1>1 DEF Heard
<1>13. NothingSkipped'
  <2>1. ASSUME base # Start, cursor.epoch = epoch, NEW e \in rows, e.seq <= f.seq
        PROVE  <<epoch, e.seq>> \in projected' \/ (base.epoch = epoch /\ e.seq <= base.seq)
    <3>1. cursor.seq \in Nat /\ e.seq \in Nat /\ f.seq \in Nat /\ position \in Nat
      BY <1>3, Elements DEF STyped
    <3>2. CASE e.seq <= cursor.seq
      <4>1. <<epoch, e.seq>> \in projected \/ (base.epoch = epoch /\ e.seq <= base.seq)
        BY <2>1, <3>2 DEF NothingSkipped
      <4> QED BY <4>1, <1>6
    <3>3. CASE cursor.seq < e.seq /\ e.seq < f.seq
      <4>1. position # Gone BY <1>3, <2>1
      <4>2. f.seq <= position BY <4>1, <1>10
      <4>3. e.seq <= position BY <3>1, <3>3, <4>2
      <4>4. PICK i \in 1 .. Len(frames) : frames[i].type = "event" /\ frames[i].seq = e.seq
        BY <4>1, <4>3, <3>3 DEF Following
      <4>5. i # 1 BY <4>4, <3>1, <3>3, <1>2
      <4>6. Len(frames) \in Nat /\ 1 < i BY <4>5, Elements
      <4>7. frames[1].seq < frames[i].seq BY <4>1, <4>4, <4>6, <1>2 DEF Following
      <4> QED BY <4>4, <4>7, <3>1, <3>3, <1>2
    <3>4. CASE e.seq = f.seq
      <4>1. <<epoch, e.seq>> = id BY <3>4, <2>1 DEF id
      <4>2. CASE Contains(known, id)
        <5>1. PICK j \in 1 .. Len(known) : known[j] = id BY <4>2 DEF Contains
        <5>2. id \in projected \/ (base.epoch = epoch /\ id[2] <= base.seq)
          BY <5>1, <2>1, <1>5 DEF Heard
        <5> QED BY <5>2, <4>1, <3>4, <1>5, <1>6
      <4>3. CASE ~Contains(known, id)
        <5>1. listening BY <2>1 DEF Heard
        <5> QED BY <5>1, <4>1, <4>3, <1>6
      <4> QED BY <4>2, <4>3
    <3> QED BY <3>1, <3>2, <3>3, <3>4, <2>1
  <2> QED BY <2>1, <1>1, <1>4 DEF NothingSkipped
<1> QED BY <1>8, <1>9, <1>11, <1>12, <1>13, ProceedsRest

LEMMA ReceiveKeeps == ASSUME Bounds, SInv, Receive PROVE SInv'
<1> DEFINE f == Head(frames)
<1>1. link = "open" /\ frames # <<>> /\ UNCHANGED <<store, listening, base>> BY DEF Receive
<1>2. STyped BY DEF SInv
<1>3. f.epoch \in 0 .. epoch
  <2>1. 1 \in 1 .. Len(frames) /\ f = frames[1] /\ f \in Frames BY <1>1, <1>2, Handled
  <2> QED BY <2>1 DEF SInv, Behind, Frames, STyped
<1>4. (TakeReset(f) \/ TakeReady(f)) \/ (TakeGap(f) \/ TakeEvent(f)) BY DEF Receive
<1> HIDE DEF f
<1>5. ASSUME RestartStream, cursor' = cursor \/ cursor' = [epoch |-> f.epoch, seq |-> 0],
             UNCHANGED <<known, projected>>
      PROVE  SInv'
  <2>1. position' = Gone /\ frames' = <<>> /\ link' = "none" /\ asked' = Start
    BY <1>5 DEF RestartStream, HangUp
  <2>2. cursor' = cursor \/ \E e \in 0 .. epoch : cursor' = [epoch |-> e, seq |-> 0] BY <1>5, <1>3
  <2>3. UNCHANGED view /\ UNCHANGED store /\ known' = known BY <1>1, <1>5 DEF view
  <2> QED BY <2>1, <2>2, <2>3, RestartKeeps
<1>6. Proceed => Proceeds BY <1>1 DEF Proceed, Proceeds, store
<1>7. CASE TakeReset(f) BY <1>7, <1>5 DEF TakeReset, ResetCursor
<1>8. CASE TakeReady(f)
  <2>1. CASE cursor.epoch = NoEpoch BY <1>8, <2>1, <1>1, <1>6, NamedKeeps DEF TakeReady, f
  <2>2. CASE cursor.epoch # NoEpoch /\ (f.epoch # cursor.epoch \/ f.seq < cursor.seq)
    BY <1>8, <2>2, <1>5 DEF TakeReady, ResetCursor
  <2>3. CASE cursor.epoch # NoEpoch /\ ~(f.epoch # cursor.epoch \/ f.seq < cursor.seq)
    BY <1>8, <2>3, <1>1, <1>6, DroppedKeeps DEF TakeReady, f
  <2> QED BY <2>1, <2>2, <2>3
<1>9. CASE TakeGap(f) BY <1>9, <1>5 DEF TakeGap
<1>10. CASE TakeEvent(f)
  <2>1. CASE f.seq <= cursor.seq
    BY <1>10, <2>1, <1>1, <1>6, DroppedKeeps DEF TakeEvent, f, reader
  <2>2. CASE ~(f.seq <= cursor.seq)
    <3>1. cursor.seq \in Nat /\ f.seq \in Nat
      BY <1>1, <1>2, Elements, Handled DEF f, Frames
    <3>2. f.seq > cursor.seq BY <2>2, <3>1
    <3> QED BY <1>10, <2>2, <3>2, <1>1, <1>6, AcceptedKeeps DEF TakeEvent, f
  <2> QED BY <2>1, <2>2
<1> QED BY <1>4, <1>7, <1>8, <1>9, <1>10

-----------------------------------------------------------------------------
LEMMA SInvStep == ASSUME Bounds, SInv, [Next]_vars PROVE SInv'
<1>1. CASE UNCHANGED vars
  <2>1. UNCHANGED <<store, wire, cursor, known>> /\ UNCHANGED view BY <1>1 DEF vars, reader
  <2> QED BY <2>1, StillKeeps
<1>2. ASSUME NEW r \in Producers, NEW last \in BOOLEAN, Record(r, last) PROVE SInv'
  BY <1>2, RecordKeeps
<1>3. ASSUME NEW r \in Producers, NEW k \in 1 .. MaxSequence, Purge(r, k) PROVE SInv'
  BY <1>3, PurgeKeeps
<1>4. CASE NewStore BY <1>4, NewStoreKeeps
<1>5. CASE Accept BY <1>5, AcceptKeeps
<1>6. CASE Poll BY <1>6, PollKeeps
<1>7. CASE Receive BY <1>7, ReceiveKeeps
<1>8. CASE LoadRuns BY <1>8, LoadRunsKeeps
<1>9. CASE TimerFires \/ RetryConnection \/ Subscribe \/ Lose \/ Reload \/ Unsubscribe
  BY <1>9, DialKeeps
<1> QED BY <1>1, <1>2, <1>3, <1>4, <1>5, <1>6, <1>7, <1>8, <1>9 DEF Next

(* Whatever rows were purged, whichever database the backend was started   *)
(* on and however often the connection was lost or the page loaded again,  *)
(* a chat on display misses no event behind the cursor (websocket_runs,    *)
(* RunService.handleStreamControl, handleRunEvent).                        *)
THEOREM NothingSkippedHolds == ASSUME Bounds PROVE Spec => []NothingSkipped
<1>1. Init => SInv BY SInvInit
<1>2. SInv /\ [Next]_vars => SInv' BY SInvStep
<1>3. SInv => NothingSkipped BY DEF SInv
<1> QED BY <1>1, <1>2, <1>3, PTL DEF Spec
=============================================================================
