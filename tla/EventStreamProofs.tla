--------------------------- MODULE EventStreamProofs ---------------------------
(***************************************************************************)
(* Proofs about EventStream, for any capacity of the history and any       *)
(* number of events and of connections.                                    *)
(***************************************************************************)
EXTENDS EventStream, SequenceFacts

\* What the store keeps is an invocation, and a terminal one has its result.
KeepsItem ==
  Retained => Kept \in Item /\ (Kept.phase \in Terminal => Kept.result = TRUE)

StreamType ==
  /\ stream \in [stage : {"out", "reading", "sending", "empty", "over"},
                 batch : SUBSET Nat, settled : BOOLEAN]
  /\ cursor \in Nat /\ received \in Seq(Nat)

\* What was sent lies before the cursor, in order; what was read, from there on.
CursorBetween ==
  /\ Increasing(received) /\ \A n \in Range(received) : n < cursor
  /\ \A n \in stream.batch : cursor <= n
  /\ Retained => cursor <= Kept.next /\ \A n \in stream.batch : n < Kept.next

\* The terminal event leaves the store with the result only.
EndsWithResult ==
  Retained /\ Kept.ended = TRUE =>
    \A n \in Range(received) \cup stream.batch : n + 1 = Kept.next => Kept.result = TRUE

\* A stream that knows the outcome has sent all there is before it finds nothing.
SettledHasAll ==
  stream.settled = TRUE /\ Retained =>
    /\ Kept.phase \in Definite
    /\ stream.stage \in {"empty", "over"} /\ Kept.accepted = TRUE => cursor = Kept.next

\* Cut off from the history.
CutOff(n) == n + EventCap < Kept.next

\* What lies before the cursor, or before what was read, was sent or is read too,
\* or it is gone.
NothingSkipped ==
  Retained =>
    /\ \A n \in Nat : n < cursor => n \in Range(received) \/ CutOff(n)
    /\ \A b \in stream.batch, n \in Nat :
         cursor <= n /\ n < b => n \in stream.batch \/ CutOff(n)

IInv == /\ KeepsItem /\ StreamType /\ CursorBetween /\ EndsWithResult /\ SettledHasAll
        /\ NothingSkipped

-----------------------------------------------------------------------------
(* What the store's operators do to an invocation.                         *)

LEMMA Concluding ==
  ASSUME NEW item \in Item, NEW phase \in Terminal, NEW release \in BOOLEAN
  PROVE  /\ Close(item, phase, release) \in Item
         /\ Close(item, phase, release).phase = phase
         /\ Close(item, phase, release).result = TRUE
         /\ Close(item, phase, release).next = item.next
         /\ Close(item, phase, release).ended = item.ended
<1>1. (~release) \in BOOLEAN
  OBVIOUS
<1>2. Close(item, phase, release) \in Item
  <2>1. PICK fence \in BOOLEAN : fence = ~release
    BY <1>1
  <2>2. Close(item, phase, release)
          = [item EXCEPT !.phase = phase, !.result = TRUE, !.fence = fence]
    BY <2>1 DEF Close
  <2>3. TRUE \in BOOLEAN
    OBVIOUS
  <2> QED
    BY <2>2, <2>3 DEF Item
<1> QED
  BY <1>2 DEF Close, Item

\* The changes that the provider, the deadline and the instance cause.
Changed(item) ==
  {EstablishAccepted(item), Conclude(item, "completed", TRUE), PassDeadline(item),
   Isolate(item)}

LEMMA Changing ==
  ASSUME NEW item \in Item, NEW new \in Changed(item),
         item.phase \in Terminal => item.result = TRUE
  PROVE  /\ new \in Item /\ new.next = item.next /\ new.ended = item.ended
         /\ new.phase \in Terminal => new.result = TRUE
         /\ item.result = TRUE => new.result = TRUE
         /\ item.phase \in Definite =>
              new.phase = item.phase /\ new.accepted = item.accepted
<1>1. CASE new = EstablishAccepted(item)
  <2>1. CASE item.phase \in Terminal
    BY <1>1, <2>1 DEF EstablishAccepted
  <2>2. CASE item.phase \notin Terminal
    <3> DEFINE seen == Observe(item, "accepted")
    <3>1. /\ seen \in Item /\ seen.next = item.next /\ seen.ended = item.ended
          /\ seen.result = item.result /\ seen.phase \notin Terminal
      <4>1. "accepted" \in Nonterminal /\ "accepted" \notin Terminal
        BY DEF Nonterminal, Order, Terminal
      <4>2. CASE seen = item
        BY <2>2, <4>2
      <4>3. CASE seen = [item EXCEPT !.phase = "accepted"]
        BY <4>1, <4>3 DEF Item
      <4> QED
        BY <4>2, <4>3 DEF Observe
    <3> HIDE DEF seen
    <3>2. new = [seen EXCEPT !.accepted = TRUE]
      BY <1>1, <2>2 DEF EstablishAccepted, seen
    <3>3. TRUE \in BOOLEAN
      OBVIOUS
    <3>4. new \in Item
      BY <3>1, <3>2, <3>3 DEF Item
    <3>5. /\ new.next = item.next /\ new.ended = item.ended
          /\ new.result = item.result /\ new.phase \notin Terminal
      BY <3>1, <3>2 DEF Item
    <3> QED
      BY <2>2, <3>4, <3>5 DEF Definite
  <2> QED
    BY <2>1, <2>2
<1>2. "completed" \in Terminal /\ "unknown" \in Terminal /\ "unknown" \notin Definite
      /\ TRUE \in BOOLEAN /\ FALSE \in BOOLEAN /\ Definite \subseteq Terminal
  BY DEF Terminal, Definite
<1>3. CASE new = Conclude(item, "completed", TRUE)
  <2>1. CASE item.phase \in Definite
    BY <1>3, <2>1 DEF Conclude
  <2>2. CASE item.phase \notin Definite
    BY <1>2, <1>3, <2>2, Concluding DEF Conclude
  <2> QED
    BY <2>1, <2>2
<1>4. CASE new = PassDeadline(item)
  <2>1. CASE item.phase \in Terminal
    BY <1>4, <2>1 DEF PassDeadline
  <2>2. CASE item.phase \notin Terminal
    BY <1>2, <1>4, <2>2, Concluding DEF PassDeadline
  <2> QED
    BY <2>1, <2>2
<1>5. CASE new = Isolate(item)
  <2>1. CASE item.phase \in Terminal
    <3>1. new = [item EXCEPT !.fence = FALSE]
      BY <1>5, <2>1 DEF Isolate
    <3> QED
      BY <1>2, <3>1 DEF Item
  <2>2. CASE item.phase \notin Terminal
    BY <1>2, <1>5, <2>2, Concluding DEF Isolate
  <2> QED
    BY <2>1, <2>2
<1> QED
  BY <1>1, <1>3, <1>4, <1>5 DEF Changed

LEMMA Appending ==
  ASSUME NEW item \in Item, NEW terminal \in BOOLEAN
  PROVE  /\ AppendEvent(item, terminal) \in Item
         /\ AppendEvent(item, terminal).next = item.next + 1
         /\ AppendEvent(item, terminal).phase = item.phase
         /\ AppendEvent(item, terminal).result = item.result
         /\ AppendEvent(item, terminal).accepted = item.accepted
<1> DEFINE kept == item.fence /\ ~(terminal /\ item.phase = "unknown")
<1>1. PICK fence \in BOOLEAN : fence = kept
  OBVIOUS
<1>2. AppendEvent(item, terminal)
        = [item EXCEPT !.next = @ + 1, !.ended = terminal, !.fence = fence]
  BY <1>1 DEF AppendEvent
<1>3. item.next + 1 \in Nat
  BY DEF Item
<1>4. AppendEvent(item, terminal) \in Item
  BY <1>2, <1>3 DEF Item
<1> QED
  BY <1>2, <1>4 DEF Item

\* What is read at a cursor: everything from there on, if it is settled.
LEMMA ReadEvents ==
  ASSUME NEW item \in Item, NEW n \in EventsFrom(item, cursor), cursor \in Nat
  PROVE  /\ n \in Nat /\ cursor <= n /\ n < item.next
         /\ item.ended = TRUE /\ n + 1 = item.next => item.result = TRUE
<1>1. /\ n \in cursor..item.next /\ n < item.next
      /\ ~(item.ended /\ n + 1 = item.next) \/ item.result
  BY DEF EventsFrom, Window
<1>2. item.next \in Nat /\ item.ended \in BOOLEAN /\ item.result \in BOOLEAN
  BY DEF Item
<1>3. n \in Nat /\ cursor <= n /\ n < item.next
  BY <1>1, <1>2
<1>4. item.ended = TRUE /\ n + 1 = item.next => item.result = TRUE
  BY <1>1, <1>2, Zenon
<1> QED
  BY <1>3, <1>4

\* What is read leaves out only what is gone.
LEMMA ReadUpTo ==
  ASSUME Kept \in Item, cursor \in Nat, NEW b \in EventsFrom(Kept, cursor),
         NEW n \in Nat, cursor <= n, n < b
  PROVE  n \in EventsFrom(Kept, cursor) \/ CutOff(n)
<1>1. Kept.next \in Nat /\ EventCap \in Nat
  BY StoreAssumption DEF Item
<1>2. b \in Nat /\ b < Kept.next /\ Kept.accepted
  BY <1>1 DEF EventsFrom, Window
<1>3. n \in cursor..Kept.next /\ n < Kept.next /\ n + 1 # Kept.next
  BY <1>1, <1>2
<1>4. CASE Kept.next <= n + EventCap
  <2>1. n \in Window(Kept, cursor)
    BY <1>3, <1>4 DEF Window
  <2> QED
    BY <1>2, <1>3, <2>1, Zenon DEF EventsFrom
<1>5. CASE n + EventCap < Kept.next
  BY <1>5 DEF CutOff
<1> QED
  BY <1>1, <1>4, <1>5

LEMMA NothingToRead ==
  ASSUME NEW item \in Item, item.accepted = TRUE, item.result = TRUE,
         EventsFrom(item, cursor) = {}, cursor \in Nat, cursor <= item.next
  PROVE  cursor = item.next
<1> SUFFICES ASSUME cursor < item.next PROVE FALSE
  BY DEF Item
<1> DEFINE last == item.next - 1
<1>1. item.next \in Nat /\ EventCap \in Nat \ {0}
  BY StoreAssumption DEF Item
<1>2. /\ last \in cursor..item.next /\ last < item.next
      /\ item.next <= last + EventCap
  BY <1>1
<1>3. last \in Window(item, cursor)
  BY <1>2 DEF Window
<1>4. last \in EventsFrom(item, cursor)
  BY <1>3, Zenon DEF EventsFrom
<1> QED
  BY <1>4

-----------------------------------------------------------------------------
(* The steps.                                                              *)

LEMMA InitInv == Init => IInv
<1> SUFFICES ASSUME Init PROVE IInv
  OBVIOUS
<1>1. PICK i \in Instances : items = [k \in {Key} |-> NewItem(i, TRUE)]
  BY DEF Init
<1>2. Kept = NewItem(i, TRUE)
  BY <1>1 DEF Kept
<1>3. NewItem(i, TRUE) \in Item /\ NewItem(i, TRUE).phase \notin Terminal
      /\ NewItem(i, TRUE).next = 0 /\ NewItem(i, TRUE).ended = FALSE
  <2>1. TRUE \in BOOLEAN /\ FALSE \in BOOLEAN /\ 0 \in Nat
    OBVIOUS
  <2>2. "dispatching" \in Nonterminal /\ "dispatching" \notin Terminal
    BY DEF Nonterminal, Order, Terminal
  <2>3. [c \in Commands |-> "none"] \in [Commands -> ControlStatuses]
    BY DEF ControlStatuses
  <2> QED
    BY <2>1, <2>2, <2>3 DEF NewItem, Item
<1>4. KeepsItem
  BY <1>2, <1>3 DEF KeepsItem
<1>5. stream = [stage |-> "out", batch |-> {}, settled |-> FALSE]
      /\ cursor = 0 /\ received = <<>>
  BY DEF Init, Quiet
<1>6. StreamType
  <2>1. FALSE \in BOOLEAN /\ <<>> \in Seq(Nat)
    OBVIOUS
  <2> QED
    BY <1>5, <2>1 DEF StreamType
<1>7. Range(received) = {} /\ Increasing(received)
  BY <1>5 DEF Range, Increasing
<1>8. CursorBetween
  <2>1. Kept.next = 0 /\ cursor = 0 /\ stream.batch = {}
    BY <1>2, <1>3, <1>5
  <2> QED
    BY <1>7, <2>1 DEF CursorBetween
<1>9. EndsWithResult /\ SettledHasAll
  BY <1>2, <1>3, <1>5, <1>7 DEF EndsWithResult, SettledHasAll
<1>10. NothingSkipped
  BY <1>5 DEF NothingSkipped
<1> QED
  BY <1>4, <1>6, <1>8, <1>9, <1>10 DEF IInv

LEMMA StreamTypeStays ==
  ASSUME IInv, UNCHANGED <<stream, cursor, received>>
  PROVE  StreamType'
BY DEF IInv, StreamType

LEMMA ChangeStep ==
  ASSUME IInv, Change
  PROVE  IInv'
<1>1. PICK new \in Changed(Kept) : items' = [items EXCEPT ![Key] = new]
  BY DEF Change, Changed
<1>2. /\ Retained /\ UNCHANGED <<stream, cursor, received>>
      /\ Kept \in Item /\ (Kept.phase \in Terminal => Kept.result = TRUE)
  BY DEF Change, StoreStep, IInv, KeepsItem
<1>3. Retained' /\ Kept' = new
  BY <1>1, <1>2 DEF Retained, Kept
<1>4. /\ new \in Item /\ new.next = Kept.next /\ new.ended = Kept.ended
      /\ new.phase \in Terminal => new.result = TRUE
      /\ Kept.result = TRUE => new.result = TRUE
      /\ Kept.phase \in Definite =>
           new.phase = Kept.phase /\ new.accepted = Kept.accepted
  BY <1>2, Changing
<1>5. KeepsItem'
  BY <1>3, <1>4 DEF KeepsItem
<1>6. StreamType'
  BY <1>2, StreamTypeStays
<1>7. CursorBetween'
  BY <1>2, <1>3, <1>4 DEF IInv, CursorBetween
<1>8. EndsWithResult'
  BY <1>2, <1>3, <1>4 DEF IInv, EndsWithResult
<1>9. SettledHasAll'
  BY <1>2, <1>3, <1>4 DEF IInv, SettledHasAll
<1>10. NothingSkipped'
  BY <1>2, <1>3, <1>4 DEF IInv, NothingSkipped, CutOff
<1> QED
  BY <1>5, <1>6, <1>7, <1>8, <1>9, <1>10 DEF IInv

LEMMA EmitStep ==
  ASSUME IInv, NEW terminal \in BOOLEAN, Emit(terminal)
  PROVE  IInv'
<1> DEFINE new == AppendEvent(Kept, terminal)
<1>1. /\ Retained /\ UNCHANGED <<stream, cursor, received>>
      /\ items' = [items EXCEPT ![Key] = new]
      /\ Kept.phase \notin Definite /\ Kept \in Item
      /\ Kept.phase \in Terminal => Kept.result = TRUE
  BY DEF Emit, StoreStep, TakesEvent, Retained, Kept, IInv, KeepsItem
<1>2. Retained' /\ Kept' = new
  BY <1>1 DEF Retained, Kept
<1>3. /\ new \in Item /\ new.next = Kept.next + 1 /\ new.phase = Kept.phase
      /\ new.result = Kept.result /\ new.accepted = Kept.accepted
      /\ Kept.next \in Nat
  BY <1>1, Appending DEF Item
<1> HIDE DEF new
<1>4. KeepsItem'
  BY <1>1, <1>2, <1>3 DEF KeepsItem
<1>5. StreamType'
  BY <1>1, StreamTypeStays
<1>6. /\ cursor \in Nat /\ stream.batch \subseteq Nat
      /\ \A n \in Range(received) : n \in Nat
      /\ cursor <= Kept.next
      /\ \A n \in Range(received) \cup stream.batch : n < Kept.next
  <2>1. Range(received) \subseteq Nat
    BY RangeType DEF IInv, StreamType
  <2> QED
    BY <1>1, <1>3, <2>1 DEF IInv, StreamType, CursorBetween
<1>7. CursorBetween'
  <2>1. cursor <= Kept.next + 1 /\ \A n \in stream.batch : n < Kept.next + 1
    BY <1>3, <1>6
  <2> QED
    BY <1>1, <1>2, <1>3, <2>1 DEF IInv, CursorBetween
<1>8. EndsWithResult'
  <2>1. \A n \in Range(received) \cup stream.batch : n + 1 # Kept.next + 1
    BY <1>3, <1>6
  <2> QED
    BY <1>1, <1>2, <1>3, <2>1 DEF EndsWithResult
<1>9. SettledHasAll'
  BY <1>1 DEF IInv, SettledHasAll
<1>10. NothingSkipped'
  <2>1. EventCap \in Nat
    BY StoreAssumption
  <2>2. \A n \in Nat : CutOff(n) => n + EventCap < Kept.next + 1
    BY <1>3, <2>1 DEF CutOff
  <2>3. \A n \in Nat : CutOff(n) => CutOff(n)'
    BY <1>2, <1>3, <2>2 DEF CutOff
  <2> QED
    BY <1>1, <2>3 DEF IInv, NothingSkipped
<1> QED
  BY <1>4, <1>5, <1>7, <1>8, <1>9, <1>10 DEF IInv

LEMMA LoseStep ==
  ASSUME IInv, Lose
  PROVE  IInv'
<1>1. items' = Restrict(items, DOMAIN items \ {Key})
      /\ UNCHANGED <<stream, cursor, received>>
  BY DEF Lose, Forget, StoreStep
<1>2. ~Retained'
  BY <1>1 DEF Retained, Restrict
<1>3. StreamType'
  BY <1>1, StreamTypeStays
<1>4. CursorBetween'
  BY <1>1, <1>2 DEF IInv, CursorBetween
<1> QED
  BY <1>2, <1>3, <1>4 DEF IInv, KeepsItem, EndsWithResult, SettledHasAll,
                           NothingSkipped

\* The request is quiet: nothing is read and unsent.
LEMMA QuietStep ==
  ASSUME IInv, NEW stage \in {"out", "over", "reading"}, NEW settled \in BOOLEAN,
         stream' = Quiet(stage, settled), UNCHANGED <<items, received>>,
         cursor' \in Nat, cursor <= cursor', Retained => cursor' <= Kept.next,
         settled = TRUE => Retained /\ Kept.phase \in Definite /\ stage = "reading",
         Retained => \A n \in Nat : cursor <= n /\ n < cursor' => CutOff(n)
  PROVE  IInv'
<1>1. Retained' = Retained /\ Kept' = Kept
  BY DEF Retained, Kept
<1>2. stream' = [stage |-> stage, batch |-> {}, settled |-> settled]
  BY DEF Quiet
<1>3. StreamType'
  BY <1>2 DEF IInv, StreamType
<1>4. CursorBetween'
  <2>1. \A n \in Range(received) : n \in Nat /\ n < cursor
    <3>1. received \in Seq(Nat)
      BY DEF IInv, StreamType
    <3>2. Range(received) \subseteq Nat
      BY <3>1, RangeType
    <3> QED
      BY <3>2 DEF IInv, CursorBetween
  <2>2. \A n \in Range(received) : n < cursor'
    BY <2>1 DEF IInv, StreamType
  <2> QED
    BY <1>1, <1>2, <2>2 DEF IInv, CursorBetween
<1>5. KeepsItem'
  BY <1>1 DEF IInv, KeepsItem
<1>6. EndsWithResult'
  BY <1>1, <1>2 DEF IInv, EndsWithResult
<1>7. SettledHasAll'
  BY <1>1, <1>2 DEF SettledHasAll
<1>8. NothingSkipped'
  <2>1. ASSUME Retained, NEW n \in Nat, n < cursor'
        PROVE  n \in Range(received) \/ CutOff(n)
    <3>1. cursor \in Nat /\ (n < cursor \/ cursor <= n)
      BY DEF IInv, StreamType
    <3>2. n < cursor => n \in Range(received) \/ CutOff(n)
      BY <2>1 DEF IInv, NothingSkipped
    <3> QED
      BY <2>1, <3>1, <3>2
  <2>2. stream'.batch = {}
    BY <1>2
  <2> QED
    BY <1>1, <2>1, <2>2 DEF NothingSkipped, CutOff
<1> QED
  BY <1>3, <1>4, <1>5, <1>6, <1>7, <1>8 DEF IInv

LEMMA ConnectStep ==
  ASSUME IInv, Connect
  PROVE  IInv'
<1>1. UNCHANGED <<items, received>> /\ FALSE \in BOOLEAN
  BY DEF Connect
<1>2. cursor \in Nat /\ (Retained => Kept \in Item /\ cursor <= Kept.next)
  BY DEF IInv, StreamType, CursorBetween, KeepsItem
<1>3. CASE ~Retained
  <2>1. stream' = Quiet("over", FALSE) /\ cursor' = cursor
    BY <1>3 DEF Connect
  <2>2. cursor' \in Nat /\ cursor <= cursor'
    BY <1>2, <2>1
  <2> QED
    BY <1>1, <1>3, <2>1, <2>2, QuietStep
<1>4. CASE Retained /\ cursor < Oldest(Kept)
  <2>1. Kept.next \in Nat /\ EventCap \in Nat \ {0}
    BY <1>2, <1>4, StoreAssumption DEF Item
  <2>2. Oldest(Kept) \in Nat /\ Oldest(Kept) <= Kept.next
    BY <2>1 DEF Oldest
  <2>3. cursor' = Oldest(Kept) /\ stream' = Quiet("out", FALSE)
    BY <1>4 DEF Connect
  <2>4. cursor' \in Nat /\ cursor <= cursor' /\ cursor' <= Kept.next
    BY <1>2, <1>4, <2>2, <2>3
  <2>5. \A n \in Nat : n < cursor' => CutOff(n)
    BY <2>1, <2>3 DEF Oldest, CutOff
  <2> QED
    BY <1>1, <2>3, <2>4, <2>5, QuietStep
<1>5. CASE Retained /\ ~(cursor < Oldest(Kept))
  <2>1. PICK settled \in BOOLEAN : settled = (Kept.phase \in Definite)
    <3>1. (Kept.phase \in Definite) \in BOOLEAN
      OBVIOUS
    <3> QED
      BY <3>1, Zenon
  <2>2. stream' = Quiet("reading", settled) /\ cursor' = cursor
    BY <1>5, <2>1 DEF Connect
  <2>3. settled = TRUE => Kept.phase \in Definite
    BY <2>1
  <2>4. cursor <= cursor' /\ \A n \in Nat : ~(cursor <= n /\ n < cursor')
    BY <1>2, <2>2
  <2> QED
    BY <1>1, <1>2, <1>5, <2>2, <2>3, <2>4, QuietStep
<1> QED
  BY <1>3, <1>4, <1>5

LEMMA DisconnectStep ==
  ASSUME IInv, Disconnect
  PROVE  IInv'
<1>1. /\ UNCHANGED <<items, received, cursor>> /\ stream' = Quiet("out", FALSE)
      /\ FALSE \in BOOLEAN
  BY DEF Disconnect, RequestStep
<1>2. cursor \in Nat /\ cursor <= cursor /\ (Retained => cursor <= Kept.next)
      /\ \A n \in Nat : ~(cursor <= n /\ n < cursor)
  BY DEF IInv, StreamType, CursorBetween
<1> QED
  BY <1>1, <1>2, QuietStep

\* The stream goes on to another stage with what it has.
LEMMA StageStep ==
  ASSUME IInv, NEW stage \in {"empty", "over", "reading"},
         stream' = [stream EXCEPT !.stage = stage],
         UNCHANGED <<items, cursor, received>>,
         stage \in {"empty", "over"} /\ stream.settled = TRUE /\ Retained
           /\ Kept.accepted = TRUE => cursor = Kept.next
  PROVE  IInv'
<1>1. Retained' = Retained /\ Kept' = Kept
  BY DEF Retained, Kept
<1>2. /\ stream'.stage = stage /\ stream'.batch = stream.batch
      /\ stream'.settled = stream.settled
      /\ stream' = [stage |-> stage, batch |-> stream.batch,
                    settled |-> stream.settled]
  BY DEF IInv, StreamType
<1>3. StreamType'
  BY <1>2 DEF IInv, StreamType
<1>4. KeepsItem' /\ CursorBetween' /\ EndsWithResult'
  BY <1>1, <1>2 DEF IInv, KeepsItem, CursorBetween, EndsWithResult
<1>5. SettledHasAll'
  BY <1>1, <1>2 DEF IInv, SettledHasAll
<1>6. NothingSkipped'
  BY <1>1, <1>2 DEF IInv, NothingSkipped, CutOff
<1> QED
  BY <1>3, <1>4, <1>5, <1>6 DEF IInv

LEMMA ReadStep ==
  ASSUME IInv, Read
  PROVE  IInv'
<1>1. UNCHANGED <<items, cursor, received>> /\ FALSE \in BOOLEAN
      /\ stream.stage = "reading"
  BY DEF Read, RequestStep
<1>2. cursor \in Nat /\ cursor <= cursor
      /\ (Retained => Kept \in Item /\ cursor <= Kept.next)
      /\ (Retained /\ Kept.phase \in Terminal => Kept.result = TRUE)
      /\ \A n \in Nat : ~(cursor <= n /\ n < cursor)
  BY DEF IInv, StreamType, CursorBetween, KeepsItem
<1>3. CASE ~Retained
  BY <1>1, <1>2, <1>3, QuietStep DEF Read
<1>4. CASE Retained /\ EventsFrom(Kept, cursor) = {}
  <2>1. stream' = [stream EXCEPT !.stage = "empty"]
    BY <1>4 DEF Read
  <2>2. ASSUME stream.settled = TRUE, Kept.accepted = TRUE
        PROVE  cursor = Kept.next
    <3>1. Kept.result = TRUE
      BY <1>2, <1>4, <2>2 DEF IInv, SettledHasAll, Definite
    <3> QED
      BY <1>2, <1>4, <2>2, <3>1, NothingToRead
  <2> QED
    BY <1>1, <1>4, <2>1, <2>2, StageStep
<1>5. CASE Retained /\ EventsFrom(Kept, cursor) # {}
  <2> DEFINE events == EventsFrom(Kept, cursor)
  <2>1. stream' = [stream EXCEPT !.stage = "sending", !.batch = events]
    BY <1>5 DEF Read
  <2>2. ASSUME NEW n \in events
        PROVE  /\ n \in Nat /\ cursor <= n /\ n < Kept.next
               /\ Kept.ended = TRUE /\ n + 1 = Kept.next => Kept.result = TRUE
    BY <1>2, <1>5, ReadEvents
  <2>9. ASSUME NEW b \in events, NEW n \in Nat, cursor <= n, n < b
        PROVE  n \in events \/ CutOff(n)
    BY <1>2, <1>5, <2>9, ReadUpTo
  <2> HIDE DEF events
  <2>3. Retained' = Retained /\ Kept' = Kept
    BY <1>1 DEF Retained, Kept
  <2>4. stream' = [stage |-> "sending", batch |-> events, settled |-> stream.settled]
    BY <2>1 DEF IInv, StreamType
  <2>5. StreamType'
    BY <1>1, <2>2, <2>4 DEF IInv, StreamType
  <2>6. KeepsItem' /\ CursorBetween'
    BY <1>1, <2>2, <2>3, <2>4 DEF IInv, KeepsItem, CursorBetween
  <2>7. EndsWithResult'
    BY <1>1, <2>2, <2>3, <2>4 DEF IInv, EndsWithResult
  <2>8. SettledHasAll'
    BY <1>1, <2>3, <2>4 DEF IInv, SettledHasAll
  <2>10. NothingSkipped'
    BY <1>1, <2>3, <2>4, <2>9 DEF IInv, NothingSkipped, CutOff
  <2> QED
    BY <2>5, <2>6, <2>7, <2>8, <2>10 DEF IInv
<1> QED
  BY <1>3, <1>4, <1>5

LEMMA SendStep ==
  ASSUME IInv, Send
  PROVE  IInv'
<1>1. PICK n \in stream.batch :
        /\ \A m \in stream.batch \ {n} : n < m
        /\ cursor' = n + 1 /\ received' = Append(received, n)
        /\ stream' = [stream EXCEPT !.batch = stream.batch \ {n},
                        !.stage = IF stream.batch \ {n} = {} THEN "reading"
                                  ELSE "sending"]
  BY DEF Send, Beyond
<1>2. UNCHANGED items /\ stream.stage = "sending"
  BY DEF Send, RequestStep
<1>3. Retained' = Retained /\ Kept' = Kept
  BY <1>2 DEF Retained, Kept
<1>4. /\ n \in Nat /\ cursor \in Nat /\ cursor <= n
      /\ stream.batch \subseteq Nat /\ received \in Seq(Nat)
      /\ Retained => Kept.next \in Nat /\ \A m \in stream.batch : m < Kept.next
  BY DEF IInv, StreamType, CursorBetween, KeepsItem, Item
<1>5. /\ stream'.batch = stream.batch \ {n} /\ stream'.settled = stream.settled
      /\ stream'.stage \in {"reading", "sending"}
      /\ stream' = [stage |-> stream'.stage, batch |-> stream'.batch,
                    settled |-> stream'.settled]
  BY <1>1 DEF IInv, StreamType
<1>6. /\ \A m \in Range(received) : m \in Nat /\ m < cursor
      /\ Increasing(received)
  <2>1. Range(received) \subseteq Nat
    BY <1>4, RangeType
  <2> QED
    BY <2>1 DEF IInv, CursorBetween
<1>7. /\ received' \in Seq(Nat) /\ Increasing(received')
      /\ Range(received') = Range(received) \cup {n}
  <2>1. \A m \in Range(received) : m < n
    BY <1>4, <1>6
  <2> QED
    BY <1>1, <1>4, <1>6, <2>1, AppendItems, IncreasingAppend
<1>8. StreamType'
  <2>1. cursor' \in Nat
    BY <1>1, <1>4
  <2>2. stream' \in [stage : {"out", "reading", "sending", "empty", "over"},
                     batch : SUBSET Nat, settled : BOOLEAN]
    <3>1. stream.settled \in BOOLEAN
      BY DEF IInv, StreamType
    <3> QED
      BY <1>4, <1>5, <3>1
  <2> QED
    BY <1>7, <2>1, <2>2 DEF StreamType
<1>9. CursorBetween'
  <2>1. \A m \in Range(received') : m < cursor'
    BY <1>1, <1>4, <1>6, <1>7
  <2>2. \A m \in stream'.batch : cursor' <= m
    BY <1>1, <1>4, <1>5
  <2>3. Retained => cursor' <= Kept.next /\ \A m \in stream'.batch : m < Kept.next
    BY <1>1, <1>4, <1>5
  <2> QED
    BY <1>3, <1>7, <2>1, <2>2, <2>3 DEF CursorBetween
<1>10. KeepsItem'
  BY <1>3 DEF IInv, KeepsItem
<1>11. EndsWithResult'
  <2>1. Range(received') \cup stream'.batch = Range(received) \cup stream.batch
    BY <1>5, <1>7
  <2> QED
    BY <1>3, <2>1 DEF IInv, EndsWithResult
<1>12. SettledHasAll'
  BY <1>3, <1>5 DEF IInv, SettledHasAll
<1>13. NothingSkipped'
  <2>1. ASSUME Retained, NEW m \in Nat, m < cursor'
        PROVE  m \in Range(received') \/ CutOff(m)
    <3>1. m < cursor => m \in Range(received) \/ CutOff(m)
      BY <2>1 DEF IInv, NothingSkipped
    <3>2. cursor <= m /\ m < n => m \in stream.batch \/ CutOff(m)
      BY <2>1 DEF IInv, NothingSkipped
    <3>3. m \in stream.batch /\ m < n => FALSE
      BY <1>1, <1>4
    <3>4. m < cursor \/ (cursor <= m /\ m < n) \/ m = n
      BY <1>1, <1>4, <2>1
    <3> QED
      BY <1>7, <3>1, <3>2, <3>3, <3>4
  <2>2. ASSUME Retained, NEW b \in stream'.batch, NEW m \in Nat, cursor' <= m, m < b
        PROVE  m \in stream'.batch \/ CutOff(m)
    <3>1. b \in stream.batch /\ cursor <= m /\ m # n
      BY <1>1, <1>4, <1>5, <2>2
    <3>2. m \in stream.batch \/ CutOff(m)
      BY <2>2, <3>1 DEF IInv, NothingSkipped
    <3> QED
      BY <1>5, <3>1, <3>2
  <2> QED
    BY <1>3, <2>1, <2>2 DEF NothingSkipped, CutOff
<1> QED
  BY <1>8, <1>9, <1>10, <1>11, <1>12, <1>13 DEF IInv

LEMMA LookAtPhaseStep ==
  ASSUME IInv, LookAtPhase
  PROVE  IInv'
<1>1. UNCHANGED <<items, cursor, received>> /\ FALSE \in BOOLEAN
      /\ stream.stage = "empty"
  BY DEF LookAtPhase, RequestStep
<1>2. CASE ~Retained
  <2>1. cursor \in Nat /\ cursor <= cursor
        /\ \A n \in Nat : ~(cursor <= n /\ n < cursor)
    BY DEF IInv, StreamType
  <2> QED
    BY <1>1, <1>2, <2>1, QuietStep DEF LookAtPhase
<1>3. CASE Retained
  <2>1. PICK stage \in {"over", "reading"} : stream' = [stream EXCEPT !.stage = stage]
    BY <1>3 DEF LookAtPhase
  <2>2. stream.settled = TRUE /\ Kept.accepted = TRUE => cursor = Kept.next
    BY <1>1, <1>3 DEF IInv, SettledHasAll
  <2> QED
    BY <1>1, <2>1, <2>2, StageStep
<1> QED
  BY <1>2, <1>3

LEMMA NextInv ==
  ASSUME IInv, [Next]_vars
  PROVE  IInv'
<1>1. CASE UNCHANGED vars
  BY <1>1 DEF vars, IInv, KeepsItem, StreamType, CursorBetween, EndsWithResult,
              SettledHasAll, NothingSkipped, CutOff, Retained, Kept
<1> QED
  BY <1>1, ChangeStep, LoseStep, EmitStep, ConnectStep, DisconnectStep, ReadStep,
     SendStep, LookAtPhaseStep DEF Next, Generate

THEOREM Invariant == Spec => []IInv
BY InitInv, NextInv, PTL DEF Spec

\* However the provider, the deadline and the forgetting of the invocation
\* interleave with the request, the client is sent events in order and each at
\* most once, the terminal one only with its result, it is taken only past
\* events that have left the history, and a stream that was opened after the
\* outcome ends with all that there is.
THEOREM StreamAlwaysSound == Spec => []StreamIsSound
<1>1. ASSUME IInv PROVE StreamIsSound
  <2>1. \A m, n \in DOMAIN received : m < n => received[m] < received[n]
    BY <1>1 DEF IInv, CursorBetween, Increasing
  <2>2. ASSUME Retained, Kept.ended, Kept.next - 1 \in Range(received)
        PROVE  Kept.result
    <3>1. Kept.next \in Nat /\ Kept.ended = TRUE
      <4>1. Kept.next \in Nat /\ Kept.ended \in BOOLEAN
        BY <1>1, <2>2 DEF IInv, KeepsItem, Item
      <4> QED
        BY <2>2, <4>1, Zenon
    <3>2. Kept.next - 1 + 1 = Kept.next
      BY <3>1
    <3>3. Kept.result = TRUE
      BY <1>1, <2>2, <3>1, <3>2 DEF IInv, EndsWithResult
    <3> QED
      BY <3>3
  <2>3. ASSUME stream.stage = "over", stream.settled, Retained, Kept.accepted
        PROVE  cursor = Kept.next
    <3>1. stream.settled \in BOOLEAN /\ Kept.accepted \in BOOLEAN
      BY <1>1, <2>3 DEF IInv, StreamType, KeepsItem, Item
    <3>2. stream.settled = TRUE /\ Kept.accepted = TRUE
      BY <2>3, <3>1, Zenon
    <3> QED
      BY <1>1, <2>3, <3>2 DEF IInv, SettledHasAll
  <2>4. ASSUME Retained, NEW n \in 0..(cursor - 1)
        PROVE  n < Oldest(Kept) \/ n \in Range(received)
    <3>1. Kept.next \in Nat /\ EventCap \in Nat /\ cursor \in Nat
      BY <1>1, <2>4, StoreAssumption DEF IInv, KeepsItem, StreamType, Item
    <3>2. n \in Nat /\ n < cursor
      BY <2>4, <3>1
    <3>3. n \in Range(received) \/ CutOff(n)
      BY <1>1, <2>4, <3>2 DEF IInv, NothingSkipped
    <3>4. CutOff(n) => n < Oldest(Kept)
      BY <3>1, <3>2 DEF CutOff, Oldest
    <3> QED
      BY <3>3, <3>4
  <2> QED
    BY <2>1, <2>2, <2>3, <2>4, Zenon DEF StreamIsSound
<1> QED
  BY <1>1, Invariant, PTL
================================================================================
