---------------------------- MODULE DoraRunnerProofs ----------------------------
(***************************************************************************)
(* Proofs about DoraRunner, for any inputs, any capacity of the FIFO and   *)
(* any number of events.                                                   *)
(***************************************************************************)
EXTENDS DoraRunner, SequenceFacts

\* What is in nobody's hands is nothing.
HandsAreEmpty ==
  /\ runner.stage # "event" => runner.event = Nothing
  /\ reader.stage # "putting" => reader.event = Nothing

\* Of the Tool inputs that were accepted, the first were handled, the next one
\* may be in hand, and the others wait, in order.
TakenInOrder ==
  /\ Increasing(accepted)
  /\ Len(Taken) <= Len(accepted)
  /\ \A n \in DOMAIN Taken : Taken[n] = accepted[n]

WaitingMatch ==
  /\ \A n \in Waiting : \E k \in Len(Taken) + 1 .. Len(accepted) :
       buffer.events[n].number = accepted[k]
  /\ \A k \in Len(Taken) + 1 .. Len(accepted) : \E n \in Waiting :
       buffer.events[n].number = accepted[k]

WaitingInOrder ==
  /\ WaitingMatch
  /\ \A m, n \in Waiting :
       m < n => buffer.events[m].number < buffer.events[n].number
  /\ buffer.fifo = Len(accepted) - Len(Taken)

\* The reader numbers what it is given, and puts it before it reads on.
ReaderAhead ==
  /\ \A x \in Range(accepted) : x <= reader.count
  /\ IsFifo(reader.event) =>
       /\ reader.event.number = reader.count
       /\ \A x \in Range(accepted) : x < reader.count
  /\ reader.event.type = "TICK" => buffer.ticks < MaxTicks

\* A failure of the reader is waiting to be told, or the loop has ended.
FailureIsTold ==
  /\ reader.stage \in {"reading", "putting", "failing"} => ~error
  /\ error /\ reader.stage \in {"ending", "over"} =>
       \/ \E n \in DOMAIN buffer.events : buffer.events[n].type = "READER_ERROR"
       \/ runner.event.type = "READER_ERROR"
       \/ runner.stage \in Reasons \ {"eof"}

\* The sentinel is put last, and found only when nothing else waits.
EndIsLast ==
  /\ reader.event.type # "END"
  /\ reader.stage # "over" =>
       /\ \A n \in DOMAIN buffer.events : buffer.events[n].type # "END"
       /\ runner.event.type # "END" /\ runner.stage # "eof"
  /\ \A n \in DOMAIN buffer.events :
       buffer.events[n].type = "END" => n = Len(buffer.events)
  /\ runner.event.type = "END" \/ runner.stage = "eof" =>
       buffer.events = <<>> /\ ~error

\* The other inputs do not wait with the events that have priority.  The value
\* of one that waits is the newest, or else that in hand, or else the last one
\* handled.
NewestIsKnown ==
  /\ \A n \in DOMAIN buffer.events : buffer.events[n].id \notin LatestInputs
  /\ IsInjective(buffer.order)
  /\ Range(buffer.order) = {i \in LatestInputs : buffer.latest[i] # 0}
  /\ \A i \in LatestInputs :
       newest[i] = IF buffer.latest[i] # 0 THEN buffer.latest[i]
                   ELSE IF runner.event.id = i THEN runner.event.number
                   ELSE shown[i]

IInv ==
  /\ TypeOK /\ HandsAreEmpty /\ TakenInOrder /\ WaitingInOrder /\ ReaderAhead
  /\ FailureIsTold /\ EndIsLast /\ NewestIsKnown

-----------------------------------------------------------------------------
(* Events, and the positions of the Tool inputs among them.                *)

LEMMA EventTypes ==
  /\ Nothing \in Controls
  /\ \A type \in {"STOP", "ERROR", "READER_ERROR", "OTHER", "END", "TICK"} :
       Control(type) \in Controls
  /\ \A id \in Inputs, number \in 1..MaxEvents :
       /\ Input(id, number) \in InputEvents
       /\ Input(id, number).id = id /\ Input(id, number).number = number
       /\ Input(id, number).type = "INPUT"
  /\ \A event \in Controls : /\ event.id = "none" /\ event.number = 0
                             /\ event.type # "INPUT" /\ ~IsFifo(event)
                             /\ event.id \notin LatestInputs
                             /\ event = Control(event.type)
  /\ \A event \in InputEvents : /\ event.id \in Inputs /\ event.type = "INPUT"
                                /\ event.number \in 1..MaxEvents
                                /\ event.id # "none"
<1>1. \A type : Control(type).id = "none" /\ Control(type).number = 0
                  /\ Control(type).type = type
  BY DEF Control
<1>2. \A event \in Controls : \E type \in {"STOP", "ERROR", "READER_ERROR",
          "OTHER", "END", "TICK", "TIMEOUT"} : event = Control(type)
  BY Zenon DEF Controls
<1>3. \A event \in Controls :
        /\ event.id = "none" /\ event.number = 0 /\ event.type # "INPUT"
        /\ event = Control(event.type)
  BY <1>1, <1>2
<1>4. \A event \in Controls : ~IsFifo(event) /\ event.id \notin LatestInputs
  BY <1>3, RunnerAssumption DEF IsFifo
<1>5. \A id \in Inputs, number \in 1..MaxEvents : Input(id, number) \in InputEvents
  BY SMT DEF InputEvents
<1>6. \A event \in InputEvents : \E id \in Inputs, number \in 1..MaxEvents :
        event = Input(id, number)
  BY SMT DEF InputEvents
<1>7. \A id, number : /\ Input(id, number).id = id
                      /\ Input(id, number).number = number
                      /\ Input(id, number).type = "INPUT"
  BY DEF Input
<1>8. \A event \in InputEvents : /\ event.id \in Inputs /\ event.type = "INPUT"
                                 /\ event.number \in 1..MaxEvents
                                 /\ event.id # "none"
  <2>1. "none" \notin Inputs
    BY RunnerAssumption DEF Inputs
  <2> QED
    BY <1>6, <1>7, <2>1
<1>9. /\ Nothing \in Controls
      /\ \A type \in {"STOP", "ERROR", "READER_ERROR", "OTHER", "END", "TICK"} :
           Control(type) \in Controls
  BY Zenon DEF Controls, Nothing
<1>10. \A id \in Inputs, number \in 1..MaxEvents :
         /\ Input(id, number) \in InputEvents
         /\ Input(id, number).id = id /\ Input(id, number).number = number
         /\ Input(id, number).type = "INPUT"
  BY <1>5, <1>7
<1>11. \A event \in Controls : /\ event.id = "none" /\ event.number = 0
                               /\ event.type # "INPUT" /\ ~IsFifo(event)
                               /\ event.id \notin LatestInputs
                               /\ event = Control(event.type)
  BY <1>3, <1>4
<1> QED
  BY <1>8, <1>9, <1>10, <1>11

\* What is taken and what waits depends on the following only.
LEMMA SameQueue ==
  ASSUME TakenInOrder, WaitingInOrder, Taken' = Taken, accepted' = accepted,
         buffer'.events = buffer.events, buffer'.fifo = buffer.fifo
  PROVE  TakenInOrder' /\ WaitingInOrder'
<1>1. Waiting' = Waiting
  BY DEF Waiting, IsFifo
<1> QED
  BY <1>1 DEF TakenInOrder, WaitingInOrder, WaitingMatch

\* An event appended to the others: a Tool input accepted with a higher number
\* than all others, or an event of another kind.
LEMMA EventAppended ==
  ASSUME TypeOK, TakenInOrder, WaitingInOrder, Taken' = Taken,
         NEW event \in InputEvents \cup Controls,
         buffer'.events = Append(buffer.events, event),
         IF IsFifo(event)
         THEN /\ accepted' = Append(accepted, event.number)
              /\ \A x \in Range(accepted) : x < event.number
              /\ buffer'.fifo = buffer.fifo + 1
         ELSE accepted' = accepted /\ buffer'.fifo = buffer.fifo
  PROVE  TakenInOrder' /\ WaitingInOrder'
<1> DEFINE events == buffer.events
<1>1. /\ events \in Seq(InputEvents \cup Controls) /\ Len(events) \in Nat
      /\ DOMAIN events = 1..Len(events)
      /\ DOMAIN buffer'.events = DOMAIN events \cup {Len(events) + 1}
      /\ Len(events) + 1 \notin DOMAIN events
      /\ \A n \in DOMAIN events : buffer'.events[n] = events[n]
      /\ buffer'.events[Len(events) + 1] = event
  <2>1. events \in Seq(InputEvents \cup Controls)
    BY DEF TypeOK
  <2> HIDE DEF events
  <2>2. buffer'.events = Append(events, event)
    BY DEF events
  <2> QED
    BY <2>1, <2>2, AppendItems
<1>2. /\ accepted \in Seq(1..MaxEvents) /\ Len(accepted) \in Nat
      /\ DOMAIN accepted = 1..Len(accepted) /\ Len(Taken) \in Nat
      /\ DOMAIN Taken = 1..Len(Taken) /\ accepted \in Seq(Nat)
      /\ \A n \in DOMAIN accepted : accepted[n] \in 1..MaxEvents
  <2>1. accepted \in Seq(1..MaxEvents) /\ handled \in Seq(1..MaxEvents)
        /\ runner.event \in InputEvents \cup Controls
    BY DEF TypeOK
  <2>2. IsFifo(runner.event) => runner.event.number \in 1..MaxEvents
    BY <2>1, EventTypes
  <2>3. Taken \in Seq(1..MaxEvents)
    BY <2>1, <2>2, AppendItems DEF Taken
  <2>4. accepted \in Seq(Nat)
    BY <2>1, RunnerAssumption
  <2> QED
    BY <2>1, <2>3, <2>4, LenProperties, ElementOfSeq
<1>3. CASE ~IsFifo(event)
  <2>1. Waiting' = Waiting
    BY <1>1, <1>3 DEF Waiting, IsFifo
  <2>2. WaitingMatch'
    <3>1. accepted' = accepted /\ \A n \in Waiting : buffer'.events[n] = buffer.events[n]
      BY <1>1, <1>3 DEF Waiting
    <3>2. WaitingMatch
      BY DEF WaitingInOrder
    <3>3. ASSUME NEW n \in Waiting
          PROVE  \E k \in Len(Taken) + 1 .. Len(accepted) :
                   buffer'.events[n].number = accepted[k]
      <4>1. PICK k \in Len(Taken) + 1 .. Len(accepted) :
              buffer.events[n].number = accepted[k]
        BY <3>2, <3>3 DEF WaitingMatch
      <4>2. buffer'.events[n] = buffer.events[n]
        BY <3>1, <3>3
      <4>3. buffer'.events[n].number = accepted[k]
        BY <4>1, <4>2
      <4> QED
        BY <4>1, <4>3
    <3>4. ASSUME NEW k \in Len(Taken) + 1 .. Len(accepted)
          PROVE  \E n \in Waiting : buffer'.events[n].number = accepted[k]
      <4>1. PICK n \in Waiting : buffer.events[n].number = accepted[k]
        BY <3>2, <3>4 DEF WaitingMatch
      <4>2. buffer'.events[n] = buffer.events[n]
        BY <3>1, <4>1
      <4>3. buffer'.events[n].number = accepted[k]
        BY <4>1, <4>2
      <4> QED
        BY <4>1, <4>3
    <3> QED
      BY <2>1, <3>1, <3>3, <3>4 DEF WaitingMatch
  <2>3. \A n \in Waiting : buffer'.events[n] = buffer.events[n]
    BY <1>1 DEF Waiting
  <2> QED
    BY <1>3, <2>1, <2>2, <2>3 DEF TakenInOrder, WaitingInOrder
<1>4. CASE IsFifo(event)
  <2>1. event.number \in 1..MaxEvents /\ event.number \in Nat
    BY <1>4, EventTypes, RunnerAssumption
  <2>2. /\ Len(accepted') = Len(accepted) + 1
        /\ DOMAIN accepted' = 1..Len(accepted) + 1
        /\ \A n \in DOMAIN accepted : accepted'[n] = accepted[n]
        /\ accepted'[Len(accepted) + 1] = event.number
    BY <1>2, <1>4, <2>1, AppendItems
  <2>3. Increasing(accepted')
    BY <1>2, <1>4, <2>1, IncreasingAppend DEF TakenInOrder
  <2>4. TakenInOrder'
    BY <1>2, <2>2, <2>3 DEF TakenInOrder
  <2>5. Waiting' = Waiting \cup {Len(events) + 1}
        /\ \A n \in Waiting : n \in DOMAIN events
    BY <1>1, <1>4 DEF Waiting, IsFifo
  <2>6. WaitingMatch
    BY DEF WaitingInOrder
  <2>7. WaitingMatch'
    <3>1. ASSUME NEW n \in Waiting'
          PROVE  \E k \in Len(Taken') + 1 .. Len(accepted') :
                   buffer'.events[n].number = accepted'[k]
      <4>1. CASE n \in Waiting
        <5>1. PICK k \in Len(Taken) + 1 .. Len(accepted) :
                events[n].number = accepted[k]
          BY <2>6, <4>1 DEF WaitingMatch
        <5>2. k \in DOMAIN accepted /\ k \in Len(Taken') + 1 .. Len(accepted')
          BY <1>2, <2>2
        <5> QED
          BY <1>1, <2>2, <2>5, <4>1, <5>1, <5>2
      <4>2. CASE n = Len(events) + 1
        <5>1. Len(accepted) + 1 \in Len(Taken') + 1 .. Len(accepted')
          BY <1>2, <2>2 DEF TakenInOrder
        <5> QED
          BY <1>1, <2>2, <4>2, <5>1
      <4> QED
        BY <2>5, <4>1, <4>2
    <3>2. ASSUME NEW k \in Len(Taken') + 1 .. Len(accepted')
          PROVE  \E n \in Waiting' : buffer'.events[n].number = accepted'[k]
      <4>1. CASE k = Len(accepted) + 1
        BY <1>1, <2>2, <2>5, <4>1
      <4>2. CASE k \in Len(Taken) + 1 .. Len(accepted)
        <5>1. PICK n \in Waiting : events[n].number = accepted[k]
          BY <2>6, <4>2 DEF WaitingMatch
        <5>2. k \in DOMAIN accepted
          BY <1>2, <4>2
        <5> QED
          BY <1>1, <2>2, <2>5, <5>1, <5>2
      <4>3. k = Len(accepted) + 1 \/ k \in Len(Taken) + 1 .. Len(accepted)
        BY <1>2, <2>2
      <4> QED
        BY <4>1, <4>2, <4>3
    <3> QED
      BY <3>1, <3>2 DEF WaitingMatch
  <2>8. ASSUME NEW m \in Waiting', NEW n \in Waiting', m < n
        PROVE  buffer'.events[m].number < buffer'.events[n].number
    <3>1. m \in Waiting
      BY <1>1, <2>5, <2>8
    <3>2. CASE n \in Waiting
      BY <1>1, <2>5, <2>8, <3>1, <3>2 DEF WaitingInOrder
    <3>3. CASE n = Len(events) + 1
      <4>1. PICK k \in Len(Taken) + 1 .. Len(accepted) :
              events[m].number = accepted[k]
        BY <2>6, <3>1 DEF WaitingMatch
      <4>2. k \in DOMAIN accepted
        BY <1>2
      <4>3. accepted[k] < event.number
        BY <1>4, <4>2, Zenon DEF Range
      <4> QED
        BY <1>1, <2>5, <3>1, <3>3, <4>1, <4>3
    <3> QED
      BY <2>5, <3>2, <3>3
  <2>9. buffer'.fifo = Len(accepted') - Len(Taken')
    BY <1>2, <1>4, <2>2 DEF WaitingInOrder
  <2> QED
    BY <2>4, <2>7, <2>8, <2>9 DEF WaitingInOrder
<1> QED
  BY <1>3, <1>4

\* get_priority and get with an event that has priority: the head is taken.
TakesHead ==
  /\ runner.stage \in {"polling", "getting"} /\ buffer.events # <<>>
  /\ Takes(Head(buffer.events)) /\ buffer' = PopPriority(buffer)
  /\ UNCHANGED <<handled, shown>> /\ RunnerStep

LEMMA HeadTaken ==
  ASSUME TypeOK, HandsAreEmpty, TakesHead
  PROVE  /\ buffer.events \in Seq(InputEvents \cup Controls)
         /\ Head(buffer.events) \in InputEvents \cup Controls
         /\ buffer'.events = Tail(buffer.events)
         /\ buffer'.events \in Seq(InputEvents \cup Controls)
         /\ runner' = [stage |-> "event", event |-> Head(buffer.events)]
         /\ Len(buffer.events) \in Nat \ {0}
         /\ DOMAIN buffer.events = 1..Len(buffer.events)
         /\ buffer.events[1] = Head(buffer.events)
         /\ DOMAIN buffer'.events = 1..Len(buffer.events) - 1
         /\ \A n \in DOMAIN buffer'.events :
              n + 1 \in DOMAIN buffer.events /\ buffer'.events[n] = buffer.events[n + 1]
         /\ Taken = handled
         /\ Taken' = IF IsFifo(Head(buffer.events))
                     THEN Append(handled, Head(buffer.events).number) ELSE handled
         /\ buffer'.fifo = IF IsFifo(Head(buffer.events))
                           THEN buffer.fifo - 1 ELSE buffer.fifo
<1> DEFINE events == buffer.events
<1>1. events \in Seq(InputEvents \cup Controls) /\ events # <<>>
  BY DEF TypeOK, TakesHead
<1>2. buffer'.events = Tail(events)
  BY DEF TakesHead, PopPriority, TypeOK
<1>3. runner' = [stage |-> "event", event |-> Head(buffer.events)]
  BY DEF TakesHead, Takes
<1>4. buffer'.fifo = IF IsFifo(Head(buffer.events))
                     THEN buffer.fifo - 1 ELSE buffer.fifo
  BY DEF TakesHead, PopPriority, TypeOK
<1>5. Taken = handled
  BY EventTypes DEF TakesHead, HandsAreEmpty, Taken
<1>6. Taken' = IF IsFifo(Head(buffer.events))
               THEN Append(handled, Head(buffer.events).number) ELSE handled
  BY <1>3 DEF TakesHead, Taken, IsFifo
<1> HIDE DEF events
<1>7. /\ Tail(events) \in Seq(InputEvents \cup Controls)
      /\ Head(events) \in InputEvents \cup Controls
      /\ Len(events) \in Nat \ {0} /\ DOMAIN events = 1..Len(events)
      /\ events[1] = Head(events) /\ DOMAIN Tail(events) = 1..Len(events) - 1
      /\ \A n \in DOMAIN Tail(events) :
           n + 1 \in DOMAIN events /\ Tail(events)[n] = events[n + 1]
  BY <1>1, TailItems
<1> QED
  BY <1>1, <1>2, <1>3, <1>4, <1>5, <1>6, <1>7 DEF events

\* What the loop takes is the next of those accepted, if it is a Tool input.
LEMMA TakesHeadQueue ==
  ASSUME TypeOK, HandsAreEmpty, TakenInOrder, WaitingInOrder, TakesHead
  PROVE  TakenInOrder' /\ WaitingInOrder' /\ buffer'.fifo \in 0..FifoCapacity
<1> DEFINE events == buffer.events
           head == Head(buffer.events)
<1>1. /\ Len(events) \in Nat \ {0} /\ DOMAIN events = 1..Len(events)
      /\ DOMAIN buffer'.events = 1..Len(events) - 1
      /\ \A n \in DOMAIN buffer'.events :
           n + 1 \in DOMAIN events /\ buffer'.events[n] = events[n + 1]
      /\ events[1] = head /\ head \in InputEvents \cup Controls
      /\ Taken = handled /\ accepted' = accepted
      /\ Taken' = IF IsFifo(head) THEN Append(handled, head.number) ELSE handled
      /\ buffer'.fifo = IF IsFifo(head) THEN buffer.fifo - 1 ELSE buffer.fifo
  BY HeadTaken DEF TakesHead, RunnerStep
<1>2. /\ handled \in Seq(1..MaxEvents) /\ Len(handled) \in Nat
      /\ DOMAIN handled = 1..Len(handled) /\ Len(accepted) \in Nat
      /\ DOMAIN accepted = 1..Len(accepted)
      /\ \A n \in DOMAIN accepted : accepted[n] \in 1..MaxEvents
      /\ buffer.fifo \in 0..FifoCapacity /\ FifoCapacity \in Nat
  BY LenProperties, ElementOfSeq, RunnerAssumption DEF TypeOK
<1>3. \A n : n \in Waiting' <=> n \in DOMAIN buffer'.events /\ n + 1 \in Waiting
  BY <1>1 DEF Waiting, IsFifo
<1>4. \A n \in Waiting : n = 1 \/ (n \in Nat /\ n - 1 \in Waiting' /\ n - 1 + 1 = n)
  BY <1>1, <1>3 DEF Waiting
<1>5. 1 \in Waiting <=> IsFifo(head)
  BY <1>1 DEF Waiting
<1>6. \A m, n \in Waiting' : m < n =>
        buffer'.events[m].number < buffer'.events[n].number
  <2> SUFFICES ASSUME NEW m \in Waiting', NEW n \in Waiting', m < n
               PROVE  buffer'.events[m].number < buffer'.events[n].number
    OBVIOUS
  <2>1. /\ m + 1 \in Waiting /\ n + 1 \in Waiting /\ m + 1 < n + 1
        /\ buffer'.events[m] = events[m + 1] /\ buffer'.events[n] = events[n + 1]
    BY <1>1, <1>3
  <2> QED
    BY <2>1 DEF WaitingInOrder
<1> HIDE DEF events, head
<1>7. CASE ~IsFifo(head)
  <2>1. ASSUME NEW n \in Waiting'
        PROVE  \E k \in Len(Taken') + 1 .. Len(accepted') :
                 buffer'.events[n].number = accepted'[k]
    <3>1. n + 1 \in Waiting /\ buffer'.events[n] = events[n + 1]
      BY <1>1, <1>3
    <3>2. \E k \in Len(Taken) + 1 .. Len(accepted) : events[n + 1].number = accepted[k]
      BY <3>1 DEF WaitingInOrder, WaitingMatch, events
    <3> QED
      BY <1>1, <1>7, <3>1, <3>2
  <2>2. ASSUME NEW k \in Len(Taken') + 1 .. Len(accepted')
        PROVE  \E n \in Waiting' : buffer'.events[n].number = accepted'[k]
    <3>1. PICK n \in Waiting : events[n].number = accepted[k]
      BY <1>1, <1>7 DEF WaitingInOrder, WaitingMatch, events
    <3>2. n - 1 \in Waiting' /\ n - 1 + 1 = n
      BY <1>4, <1>5, <1>7
    <3> QED
      BY <1>1, <1>3, <3>1, <3>2
  <2>3. WaitingMatch'
    BY <2>1, <2>2 DEF WaitingMatch
  <2>4. TakenInOrder' /\ buffer'.fifo = Len(accepted') - Len(Taken')
    BY <1>1, <1>7 DEF TakenInOrder, WaitingInOrder
  <2> QED
    BY <1>1, <1>2, <1>6, <1>7, <2>3, <2>4 DEF WaitingInOrder
<1>8. CASE IsFifo(head)
  <2> DEFINE next == Len(handled) + 1
  <2>1. head.number \in 1..MaxEvents
    BY <1>1, <1>8, EventTypes
  <2>2. /\ Taken' \in Seq(1..MaxEvents) /\ Len(Taken') = next
        /\ DOMAIN Taken' = 1..next
        /\ \A n \in DOMAIN handled : Taken'[n] = handled[n]
        /\ Taken'[next] = head.number
    BY <1>1, <1>2, <1>8, <2>1, AppendItems
  <2>3. PICK j \in next..Len(accepted) : head.number = accepted[j]
    BY <1>1, <1>5, <1>8 DEF WaitingInOrder, WaitingMatch, events
  <2>4. next \in next..Len(accepted)
    BY <1>2, <2>3
  <2>5. PICK least \in Waiting : events[least].number = accepted[next]
    BY <1>1, <2>4 DEF WaitingInOrder, WaitingMatch, events
  <2>6. least = 1
    <3> SUFFICES ASSUME least # 1 PROVE FALSE
      OBVIOUS
    <3>1. 1 < least
      BY <1>1 DEF Waiting, events
    <3>2. head.number < accepted[next]
      BY <1>1, <1>5, <1>8, <2>5, <3>1 DEF WaitingInOrder, events
    <3>3. next = j \/ next < j
      BY <1>2, <2>3
    <3>4. next = j \/ accepted[next] < accepted[j]
      BY <1>2, <2>3, <2>4, <3>3 DEF TakenInOrder, Increasing
    <3> QED
      BY <1>2, <2>1, <2>3, <2>4, <3>2, <3>4
  <2>7. head.number = accepted[next]
    BY <1>1, <2>5, <2>6
  <2>8. TakenInOrder'
    BY <1>1, <1>2, <2>2, <2>4, <2>7 DEF TakenInOrder
  <2>9. ASSUME NEW n \in Waiting'
        PROVE  \E k \in Len(Taken') + 1 .. Len(accepted') :
                 buffer'.events[n].number = accepted'[k]
    <3>1. n + 1 \in Waiting /\ buffer'.events[n] = events[n + 1] /\ 1 < n + 1
      BY <1>1, <1>3
    <3>2. PICK k \in next..Len(accepted) : events[n + 1].number = accepted[k]
      BY <1>1, <3>1 DEF WaitingInOrder, WaitingMatch, events
    <3>3. head.number < events[n + 1].number
      BY <1>1, <1>5, <1>8, <3>1 DEF WaitingInOrder, events
    <3>4. k # next
      BY <2>1, <2>7, <3>2, <3>3
    <3>5. k \in Len(Taken') + 1 .. Len(accepted')
      BY <1>1, <1>2, <2>2, <3>4
    <3> QED
      BY <1>1, <3>1, <3>2, <3>5
  <2>10. ASSUME NEW k \in Len(Taken') + 1 .. Len(accepted')
         PROVE  \E n \in Waiting' : buffer'.events[n].number = accepted'[k]
    <3>1. k \in next..Len(accepted) /\ next < k
      BY <1>1, <1>2, <2>2
    <3>2. PICK n \in Waiting : events[n].number = accepted[k]
      BY <1>1, <3>1 DEF WaitingInOrder, WaitingMatch, events
    <3>3. accepted[next] < accepted[k]
      BY <1>2, <2>4, <3>1 DEF TakenInOrder, Increasing
    <3>4. n # 1
      BY <1>1, <1>2, <2>1, <2>7, <3>1, <3>2, <3>3
    <3>5. n - 1 \in Waiting' /\ n - 1 + 1 = n
      BY <1>4, <3>4
    <3> QED
      BY <1>1, <1>3, <3>2, <3>5
  <2>11. WaitingMatch'
    BY <2>9, <2>10 DEF WaitingMatch
  <2>12. buffer'.fifo = Len(accepted') - Len(Taken')
    BY <1>1, <1>2, <1>8, <2>2 DEF WaitingInOrder
  <2>13. buffer'.fifo \in 0..FifoCapacity
    BY <1>1, <1>2, <1>8, <2>2, <2>4, <2>12
  <2> QED
    BY <1>6, <2>8, <2>11, <2>12, <2>13 DEF WaitingInOrder
<1> QED
  BY <1>7, <1>8

\* What the newest value of an input is depends on the following only.
LEMMA SameNewest ==
  ASSUME NewestIsKnown, newest' = newest,
         \A n \in DOMAIN buffer'.events : buffer'.events[n].id \notin LatestInputs,
         buffer'.order = buffer.order, buffer'.latest = buffer.latest,
         \A i \in LatestInputs :
           (IF runner'.event.id = i THEN runner'.event.number ELSE shown'[i])
             = (IF runner.event.id = i THEN runner.event.number ELSE shown[i])
  PROVE  NewestIsKnown'
BY DEF NewestIsKnown

-----------------------------------------------------------------------------
(* The steps of the reader.                                                *)

LEMMA InitInv == Init => IInv
<1> SUFFICES ASSUME Init PROVE IInv
  OBVIOUS
<1>1. /\ Nothing \in Controls /\ ~IsFifo(Nothing) /\ Nothing.id = "none"
      /\ Nothing.type = "TIMEOUT"
  BY EventTypes DEF Nothing, Control
<1>2. <<>> \in Seq(InputEvents \cup Controls) /\ <<>> \in Seq(LatestInputs)
      /\ <<>> \in Seq(1..MaxEvents)
  OBVIOUS
<1>3. TypeOK
  <2>1. buffer \in [events : Seq(InputEvents \cup Controls),
                    order : Seq(LatestInputs), latest : [LatestInputs -> 0..MaxEvents],
                    ticks : 0..MaxTicks, fifo : 0..FifoCapacity]
    BY <1>2, RunnerAssumption DEF Init
  <2>2. reader \in [stage : Stages, event : InputEvents \cup Controls, count : 0..MaxEvents]
    BY <1>1, RunnerAssumption DEF Init, Stages
  <2>3. runner \in [stage : {"polling", "idle", "sound", "getting", "event"}
                              \cup Reasons,
                    event : InputEvents \cup Controls]
    BY <1>1 DEF Init
  <2> QED
    BY <1>2, <2>1, <2>2, <2>3, RunnerAssumption DEF Init, TypeOK
<1>4. Len(<<>>) = 0 /\ DOMAIN <<>> = {}
  OBVIOUS
<1>5. Taken = <<>> /\ Waiting = {}
  BY <1>1, <1>4 DEF Init, Taken, Waiting
<1>6. HandsAreEmpty /\ TakenInOrder
  BY <1>1, <1>4, <1>5 DEF Init, HandsAreEmpty, TakenInOrder, Increasing
<1>7. WaitingInOrder
  BY <1>4, <1>5 DEF Init, WaitingInOrder, WaitingMatch
<1>8. ReaderAhead
  BY <1>1, <1>4 DEF Init, ReaderAhead, Range
<1>9. FailureIsTold
  BY DEF Init, FailureIsTold
<1>10. EndIsLast
  BY <1>1, <1>4, RunnerAssumption DEF Init, EndIsLast, Reasons
<1>11. NewestIsKnown
  BY <1>1, <1>4, RunnerAssumption DEF Init, NewestIsKnown, IsInjective, Range
<1> QED
  BY <1>3, <1>6, <1>7, <1>8, <1>9, <1>10, <1>11 DEF IInv

\* The reader moves on and leaves the buffer and the loop alone.
ReaderMoves == UNCHANGED <<buffer, accepted, newest, stop, runner, handled, shown>>

LEMMA ReaderMovesOnly ==
  ASSUME IInv, ReaderMoves
  PROVE  TakenInOrder' /\ WaitingInOrder' /\ NewestIsKnown'
<1>1. Taken' = Taken
  BY DEF ReaderMoves, Taken, IsFifo
<1>2. TakenInOrder' /\ WaitingInOrder'
  BY <1>1, SameQueue DEF IInv, ReaderMoves
<1>3. NewestIsKnown'
  BY SameNewest DEF IInv, ReaderMoves, NewestIsKnown
<1> QED
  BY <1>2, <1>3

\* Nothing is in the hands of a reader that goes on.
LEMMA Going ==
  ASSUME TypeOK, NEW stage \in Stages, Goes(stage)
  PROVE  /\ reader' = [stage |-> stage, event |-> Nothing, count |-> reader.count]
         /\ reader' \in [stage : Stages, event : InputEvents \cup Controls, count : 0..MaxEvents]
         /\ ~IsFifo(reader'.event) /\ reader'.event.type = "TIMEOUT"
<1>1. reader' = [stage |-> stage, event |-> Nothing, count |-> reader.count]
  BY DEF TypeOK, Goes
<1>2. Nothing \in InputEvents \cup Controls /\ ~IsFifo(Nothing)
      /\ Nothing.type = "TIMEOUT" /\ reader.count \in 0..MaxEvents
  BY EventTypes DEF Nothing, Control, TypeOK
<1>3. reader' \in [stage : Stages, event : InputEvents \cup Controls, count : 0..MaxEvents]
  BY <1>1, <1>2
<1> QED
  BY <1>1, <1>2, <1>3 DEF IsFifo

LEMMA ReaderReceivesStep ==
  ASSUME IInv, NEW event \in Delivered, ReaderReceives(event)
  PROVE  IInv'
<1>1. ReaderMoves
  BY DEF ReaderReceives, ReaderStep, ReaderMoves
<1>2. TakenInOrder' /\ WaitingInOrder' /\ NewestIsKnown'
  BY <1>1, ReaderMovesOnly
<1>3. CASE stop
  <2>1. Goes("ending") /\ error' = error /\ reader.stage = "reading"
    BY <1>3 DEF ReaderReceives
  <2>2. /\ reader' = [stage |-> "ending", event |-> Nothing, count |-> reader.count]
        /\ reader' \in [stage : Stages, event : InputEvents \cup Controls, count : 0..MaxEvents]
        /\ ~IsFifo(reader'.event) /\ reader'.event.type = "TIMEOUT"
    BY <2>1, Going DEF IInv, Stages
  <2>3. TypeOK'
    BY <1>1, <2>1, <2>2 DEF IInv, TypeOK, ReaderMoves
  <2>4. HandsAreEmpty'
    BY <1>1, <2>2 DEF IInv, HandsAreEmpty, ReaderMoves
  <2>5. ReaderAhead' /\ FailureIsTold' /\ EndIsLast'
    BY <1>1, <2>1, <2>2 DEF IInv, ReaderAhead, FailureIsTold, EndIsLast, ReaderMoves
  <2> QED
    BY <1>2, <2>3, <2>4, <2>5 DEF IInv
<1>4. CASE ~stop
  <2> DEFINE count == reader.count + (IF event.type = "TICK" THEN 0 ELSE 1)
  <2>1. /\ reader' = [stage |-> "putting", event |-> event, count |-> count]
        /\ error' = error /\ reader.stage = "reading"
    BY <1>4 DEF ReaderReceives
  <2>2. reader.count \in 0..MaxEvents /\ MaxEvents \in Nat
    BY RunnerAssumption DEF IInv, TypeOK
  <2>3. /\ event \in InputEvents \cup Controls /\ count \in 0..MaxEvents
        /\ event.type # "END" /\ count >= reader.count
        /\ IsFifo(event) => event.number = count /\ count > reader.count
        /\ event.type = "TICK" => buffer.ticks < MaxTicks
    <3>1. CASE event = Control("TICK") /\ buffer.ticks < MaxTicks
      <4>1. event \in Controls /\ event.type = "TICK" /\ ~IsFifo(event)
        BY <3>1, EventTypes DEF Control
      <4> QED
        BY <2>2, <3>1, <4>1
    <3>2. CASE /\ reader.count < MaxEvents
               /\ \E id \in Inputs : event = Input(id, reader.count + 1)
      <4>1. reader.count + 1 \in 1..MaxEvents
        BY <2>2, <3>2
      <4>2. event \in InputEvents /\ event.type = "INPUT"
            /\ event.number = reader.count + 1
        BY <3>2, <4>1, EventTypes
      <4> QED
        BY <2>2, <4>1, <4>2
    <3>3. CASE /\ reader.count < MaxEvents
               /\ \E type \in {"STOP", "ERROR", "OTHER"} : event = Control(type)
      <4>1. event.type \in {"STOP", "ERROR", "OTHER"}
        BY <3>3 DEF Control
      <4>2. event \in Controls /\ ~IsFifo(event)
        BY <3>3, EventTypes
      <4> QED
        BY <2>2, <3>3, <4>1, <4>2
    <3> QED
      BY <3>1, <3>2, <3>3 DEF Delivered
  <2> HIDE DEF count
  <2>4. TypeOK'
    <3>1. reader' \in [stage : Stages, event : InputEvents \cup Controls, count : 0..MaxEvents]
      BY <2>1, <2>3 DEF Stages
    <3> QED
      BY <1>1, <2>1, <3>1 DEF IInv, TypeOK, ReaderMoves
  <2>5. HandsAreEmpty'
    BY <1>1, <2>1 DEF IInv, HandsAreEmpty, ReaderMoves
  <2>6. ReaderAhead'
    <3>1. \A x \in Range(accepted) : x \in Nat
      <4>1. accepted \in Seq(1..MaxEvents)
        BY DEF IInv, TypeOK
      <4>2. Range(accepted) \subseteq 1..MaxEvents
        BY <4>1, RangeType
      <4> QED
        BY <4>2
    <3>2. \A x \in Range(accepted) : x <= count /\ (IsFifo(event) => x < count)
      BY <2>2, <2>3, <3>1 DEF IInv, ReaderAhead
    <3> QED
      BY <1>1, <2>1, <2>3, <3>2 DEF ReaderAhead, ReaderMoves, IsFifo
  <2>7. FailureIsTold' /\ EndIsLast'
    BY <1>1, <2>1, <2>3 DEF IInv, FailureIsTold, EndIsLast, ReaderMoves
  <2> QED
    BY <1>2, <2>4, <2>5, <2>6, <2>7 DEF IInv
<1> QED
  BY <1>3, <1>4

\* The iteration ends or fails, or an input finds no room.
LEMMA ReaderTurnsStep ==
  ASSUME IInv, NEW stage \in {"failing", "ending"}, Goes(stage),
         ReaderMoves, reader.stage \in {"reading", "putting"},
         error' = error
  PROVE  IInv'
<1>1. TakenInOrder' /\ WaitingInOrder' /\ NewestIsKnown'
  BY ReaderMovesOnly
<1>2. /\ reader' = [stage |-> stage, event |-> Nothing, count |-> reader.count]
      /\ reader' \in [stage : Stages, event : InputEvents \cup Controls, count : 0..MaxEvents]
      /\ ~IsFifo(reader'.event) /\ reader'.event.type = "TIMEOUT"
  BY Going DEF IInv, Stages
<1>3. error' \in BOOLEAN
  BY Zenon DEF IInv, TypeOK
<1>4. TypeOK'
  BY <1>2, <1>3 DEF IInv, TypeOK, ReaderMoves
<1>5. HandsAreEmpty'
  BY <1>2 DEF IInv, HandsAreEmpty, ReaderMoves
<1>6. ReaderAhead'
  BY <1>2 DEF IInv, ReaderAhead, ReaderMoves
<1>7. FailureIsTold'
  BY <1>2 DEF IInv, FailureIsTold, ReaderMoves
<1>8. EndIsLast'
  BY <1>2 DEF IInv, EndIsLast, ReaderMoves
<1> QED
  BY <1>1, <1>4, <1>5, <1>6, <1>7, <1>8 DEF IInv

\* What the reader does with an event that has no Tool input and no other input:
\* it waits with the Tool inputs.
LEMMA ControlPut ==
  ASSUME IInv, NEW event \in Controls, event.type # "TICK",
         buffer' = Put(buffer, event),
         UNCHANGED <<error, stop, runner, accepted, handled, newest, shown>>,
         NEW stage \in {"reading", "ending", "over"}, Goes(stage),
         \/ event = Control("END") /\ reader.stage = "ending" /\ stage = "over"
         \/ event.type # "END" /\ reader.stage = "putting" /\ stage = "reading"
         \/ /\ event = Control("READER_ERROR")
            /\ reader.stage = "failed" /\ stage = "ending"
  PROVE  IInv'
<1> DEFINE events == buffer.events
<1>1. /\ event.id = "none" /\ ~IsFifo(event) /\ event.id \notin LatestInputs
      /\ event \in InputEvents \cup Controls
  BY EventTypes
<1>2. /\ buffer' = [buffer EXCEPT !.events = Append(@, event)]
      /\ buffer'.events = Append(events, event) /\ buffer'.order = buffer.order
      /\ buffer'.latest = buffer.latest /\ buffer'.ticks = buffer.ticks
      /\ buffer'.fifo = buffer.fifo
  BY <1>1 DEF Put, IsFifo, IInv, TypeOK
<1>3. /\ reader' = [stage |-> stage, event |-> Nothing, count |-> reader.count]
      /\ reader' \in [stage : Stages, event : InputEvents \cup Controls, count : 0..MaxEvents]
      /\ ~IsFifo(reader'.event) /\ reader'.event.type = "TIMEOUT"
  BY Going DEF IInv, Stages
<1>4. events \in Seq(InputEvents \cup Controls)
  BY DEF IInv, TypeOK
<1> HIDE DEF events
<1>5. /\ Append(events, event) \in Seq(InputEvents \cup Controls)
      /\ Len(events) \in Nat /\ DOMAIN events = 1..Len(events)
      /\ Len(buffer'.events) = Len(events) + 1
      /\ DOMAIN buffer'.events = DOMAIN events \cup {Len(events) + 1}
      /\ \A n \in DOMAIN events : buffer'.events[n] = events[n]
      /\ buffer'.events[Len(events) + 1] = event
  BY <1>1, <1>2, <1>4, AppendItems
<1>6. TypeOK'
  <2>1. buffer' \in [events : Seq(InputEvents \cup Controls),
                     order : Seq(LatestInputs), latest : [LatestInputs -> 0..MaxEvents],
                     ticks : 0..MaxTicks, fifo : 0..FifoCapacity]
    BY <1>2, <1>5 DEF IInv, TypeOK, events
  <2> QED
    BY <1>3, <2>1 DEF IInv, TypeOK
<1>7. HandsAreEmpty'
  BY <1>3 DEF IInv, HandsAreEmpty
<1>8. Taken' = Taken
  BY DEF Taken, IsFifo
<1>9. TakenInOrder' /\ WaitingInOrder'
  BY <1>1, <1>2, <1>8, EventAppended DEF IInv, events
<1>10. ReaderAhead'
  BY <1>2, <1>3 DEF IInv, ReaderAhead
<1>11. FailureIsTold'
  <2>1. CASE reader.stage = "failed" /\ event = Control("READER_ERROR")
    <3>1. event.type = "READER_ERROR"
      BY <2>1 DEF Control
    <3> QED
      BY <1>3, <1>5, <2>1, <3>1 DEF FailureIsTold
  <2>2. CASE reader.stage # "failed"
    <3>1. (\E n \in DOMAIN events : events[n].type = "READER_ERROR")
            => \E n \in DOMAIN buffer'.events :
                 buffer'.events[n].type = "READER_ERROR"
      BY <1>5
    <3> QED
      BY <1>3, <2>2, <3>1 DEF IInv, FailureIsTold, events
  <2> QED
    BY <2>1, <2>2
<1>12. EndIsLast'
  <2>1. /\ reader.stage # "over"
        /\ \A n \in DOMAIN events : events[n].type # "END"
        /\ runner.event.type # "END" /\ runner.stage # "eof"
    BY DEF IInv, EndIsLast, events
  <2>2. reader'.stage # "over" =>
          \A n \in DOMAIN buffer'.events : buffer'.events[n].type # "END"
    <3>1. stage # "over" => event.type # "END"
      BY DEF Control
    <3> QED
      BY <1>3, <1>5, <2>1, <3>1
  <2>3. \A n \in DOMAIN buffer'.events :
          buffer'.events[n].type = "END" => n = Len(buffer'.events)
    BY <1>5, <2>1
  <2>4. reader'.event.type # "END" /\ runner' = runner
    BY <1>3
  <2> QED
    <3>1. runner'.event.type # "END" /\ runner'.stage # "eof"
      BY <2>1, <2>4
    <3> QED
      BY <2>2, <2>3, <2>4, <3>1, Zenon DEF EndIsLast
<1>13. NewestIsKnown'
  <2>1. \A n \in DOMAIN buffer'.events : buffer'.events[n].id \notin LatestInputs
    BY <1>1, <1>5 DEF IInv, NewestIsKnown, events
  <2> QED
    BY <1>2, <2>1, SameNewest DEF IInv
<1> QED
  BY <1>6, <1>7, <1>9, <1>10, <1>11, <1>12, <1>13 DEF IInv

LEMMA TickPut ==
  ASSUME IInv, reader.stage = "putting", reader.event.type = "TICK",
         buffer' = Put(buffer, reader.event), Goes("reading"),
         UNCHANGED <<error, stop, runner, accepted, handled, newest, shown>>
  PROVE  IInv'
<1>1. /\ buffer'.events = buffer.events /\ buffer'.order = buffer.order
      /\ buffer'.latest = buffer.latest /\ buffer'.fifo = buffer.fifo
      /\ buffer' \in [events : Seq(InputEvents \cup Controls),
                      order : Seq(LatestInputs), latest : [LatestInputs -> 0..MaxEvents],
                      ticks : 0..MaxTicks, fifo : 0..FifoCapacity]
  <2>1. buffer.ticks + 1 \in 0..MaxTicks
    BY RunnerAssumption DEF IInv, TypeOK, ReaderAhead
  <2>2. buffer' = [buffer EXCEPT !.ticks = @ + 1]
    <3>1. reader.event.id = "none" /\ "none" \notin FifoInputs \cup LatestInputs
      BY EventTypes, RunnerAssumption DEF IInv, TypeOK
    <3> QED
      BY <3>1 DEF Put
  <2> QED
    BY <2>1, <2>2 DEF IInv, TypeOK
<1>2. /\ reader' = [stage |-> "reading", event |-> Nothing, count |-> reader.count]
      /\ reader' \in [stage : Stages, event : InputEvents \cup Controls, count : 0..MaxEvents]
      /\ ~IsFifo(reader'.event) /\ reader'.event.type = "TIMEOUT"
  BY Going DEF IInv, Stages
<1>3. TypeOK'
  BY <1>1, <1>2 DEF IInv, TypeOK
<1>4. HandsAreEmpty'
  BY <1>2 DEF IInv, HandsAreEmpty
<1>5. Taken' = Taken
  BY DEF Taken, IsFifo
<1>6. TakenInOrder' /\ WaitingInOrder'
  BY <1>1, <1>5, SameQueue DEF IInv
<1>7. ReaderAhead' /\ FailureIsTold' /\ EndIsLast'
  BY <1>1, <1>2 DEF IInv, ReaderAhead, FailureIsTold, EndIsLast
<1>8. NewestIsKnown'
  BY <1>1, SameNewest DEF IInv, NewestIsKnown
<1> QED
  BY <1>3, <1>4, <1>6, <1>7, <1>8 DEF IInv

\* A Tool input for which there is room.
LEMMA FifoPut ==
  ASSUME IInv, reader.stage = "putting", IsFifo(reader.event), ~Overflows(buffer),
         buffer' = Put(buffer, reader.event), Goes("reading"),
         accepted' = Append(accepted, reader.event.number),
         UNCHANGED <<error, stop, runner, handled, newest, shown>>
  PROVE  IInv'
<1> DEFINE events == buffer.events
           event == reader.event
<1>1. /\ event \in InputEvents /\ event.type = "INPUT" /\ event.id \notin LatestInputs
      /\ event.number \in 1..MaxEvents /\ event.number = reader.count
      /\ \A x \in Range(accepted) : x < event.number
  BY EventTypes, RunnerAssumption DEF IInv, TypeOK, ReaderAhead, IsFifo
<1>2. /\ buffer' = [buffer EXCEPT !.events = Append(@, event), !.fifo = @ + 1]
      /\ buffer'.events = Append(events, event) /\ buffer'.order = buffer.order
      /\ buffer'.latest = buffer.latest /\ buffer'.ticks = buffer.ticks
      /\ buffer'.fifo = buffer.fifo + 1
  <2>1. event.id # "none" /\ event.id \in FifoInputs
    BY <1>1, EventTypes DEF IsFifo
  <2>2. buffer' = [buffer EXCEPT !.events = Append(@, event), !.fifo = @ + 1]
    BY <1>1, <2>1 DEF Put, PutFifo
  <2> QED
    BY <2>2 DEF IInv, TypeOK
<1>3. /\ reader' = [stage |-> "reading", event |-> Nothing, count |-> reader.count]
      /\ reader' \in [stage : Stages, event : InputEvents \cup Controls, count : 0..MaxEvents]
      /\ ~IsFifo(reader'.event) /\ reader'.event.type = "TIMEOUT"
  BY Going DEF IInv, Stages
<1>4. events \in Seq(InputEvents \cup Controls)
  BY DEF IInv, TypeOK
<1>5. /\ accepted' \in Seq(1..MaxEvents)
      /\ Range(accepted') = Range(accepted) \cup {event.number}
  <2>1. accepted \in Seq(1..MaxEvents)
    BY DEF IInv, TypeOK
  <2>2. PICK x \in 1..MaxEvents : x = event.number
    BY <1>1
  <2> DEFINE Numbers == 1..MaxEvents
  <2> HIDE DEF Numbers
  <2>3. /\ Append(accepted, x) \in Seq(Numbers)
        /\ Range(Append(accepted, x)) = Range(accepted) \cup {x}
    <3>1. accepted \in Seq(Numbers) /\ x \in Numbers
      BY <2>1 DEF Numbers
    <3> QED
      BY <3>1, AppendItems
  <2> USE DEF Numbers
  <2> QED
    BY <2>2, <2>3
<1> HIDE DEF events
<1>6. /\ Append(events, event) \in Seq(InputEvents \cup Controls)
      /\ Len(events) \in Nat /\ DOMAIN events = 1..Len(events)
      /\ Len(buffer'.events) = Len(events) + 1
      /\ DOMAIN buffer'.events = DOMAIN events \cup {Len(events) + 1}
      /\ \A n \in DOMAIN events : buffer'.events[n] = events[n]
      /\ buffer'.events[Len(events) + 1] = event
  BY <1>1, <1>2, <1>4, AppendItems
<1>7. TypeOK'
  <2>1. buffer.fifo + 1 \in 0..FifoCapacity
    BY RunnerAssumption DEF IInv, TypeOK, Overflows
  <2>2. buffer' \in [events : Seq(InputEvents \cup Controls),
                     order : Seq(LatestInputs), latest : [LatestInputs -> 0..MaxEvents],
                     ticks : 0..MaxTicks, fifo : 0..FifoCapacity]
    BY <1>2, <1>6, <2>1 DEF IInv, TypeOK, events
  <2> QED
    BY <1>3, <1>5, <2>2 DEF IInv, TypeOK
<1>8. HandsAreEmpty'
  BY <1>3 DEF IInv, HandsAreEmpty
<1>9. Taken' = Taken
  BY DEF Taken, IsFifo
<1>10. TakenInOrder' /\ WaitingInOrder'
  BY <1>1, <1>2, <1>9, EventAppended DEF IInv, events
<1>11. ReaderAhead'
  <2>1. \A x \in Range(accepted') : x <= reader.count
    BY <1>1, <1>5 DEF IInv, ReaderAhead
  <2> QED
    BY <1>3, <2>1 DEF ReaderAhead
<1>12. FailureIsTold' /\ EndIsLast'
  <2>1. /\ reader.stage # "over" /\ ~error
        /\ \A n \in DOMAIN events : events[n].type # "END"
        /\ runner.event.type # "END" /\ runner.stage # "eof"
    BY DEF IInv, EndIsLast, FailureIsTold, events
  <2>2. \A n \in DOMAIN buffer'.events : buffer'.events[n].type # "END"
    BY <1>1, <1>6, <2>1
  <2> QED
    <3>1. /\ runner'.event.type # "END" /\ runner'.stage # "eof"
          /\ reader'.event.type # "END" /\ ~error'
      BY <1>3, <2>1
    <3> QED
      BY <2>2, <3>1, Zenon DEF EndIsLast, FailureIsTold
<1>13. NewestIsKnown'
  <2>1. \A n \in DOMAIN buffer'.events : buffer'.events[n].id \notin LatestInputs
    BY <1>1, <1>6 DEF IInv, NewestIsKnown, events
  <2> QED
    BY <1>2, <2>1, SameNewest DEF IInv
<1> QED
  BY <1>7, <1>8, <1>10, <1>11, <1>12, <1>13 DEF IInv

\* The latest value of another input, in the place of one that waits.
LEMMA LatestPut ==
  ASSUME IInv, reader.stage = "putting", reader.event.id \in LatestInputs,
         buffer' = Put(buffer, reader.event), Goes("reading"),
         newest' = [newest EXCEPT ![reader.event.id] = reader.event.number],
         UNCHANGED <<error, stop, runner, accepted, handled, shown>>
  PROVE  IInv'
<1> DEFINE id == reader.event.id
           number == reader.event.number
           order == buffer.order
           waits == buffer.latest[id] # 0
<1>1. /\ id \in LatestInputs /\ id \notin FifoInputs /\ id # "none"
      /\ number \in 1..MaxEvents /\ reader.event.type = "INPUT" /\ number # 0
      /\ number \in 0..MaxEvents
  BY EventTypes, RunnerAssumption DEF IInv, TypeOK
<1>2. /\ order \in Seq(LatestInputs) /\ buffer.latest \in [LatestInputs -> 0..MaxEvents]
      /\ newest \in [LatestInputs -> 0..MaxEvents]
      /\ IsInjective(order) /\ Range(order) = {i \in LatestInputs : buffer.latest[i] # 0}
  BY DEF IInv, TypeOK, NewestIsKnown
<1>3. buffer' = PutLatest(buffer, reader.event)
  BY <1>1 DEF Put
<1>4. /\ buffer'.latest = [buffer.latest EXCEPT ![id] = number]
      /\ buffer'.order = IF waits THEN order ELSE Append(order, id)
      /\ buffer'.events = buffer.events /\ buffer'.ticks = buffer.ticks
      /\ buffer'.fifo = buffer.fifo
      /\ buffer' = [buffer EXCEPT !.latest = buffer'.latest, !.order = buffer'.order]
  BY <1>3 DEF PutLatest, IInv, TypeOK
<1>5. /\ reader' = [stage |-> "reading", event |-> Nothing, count |-> reader.count]
      /\ reader' \in [stage : Stages, event : InputEvents \cup Controls, count : 0..MaxEvents]
      /\ ~IsFifo(reader'.event) /\ reader'.event.type = "TIMEOUT"
  BY Going DEF IInv, Stages
<1> HIDE DEF id, number, order, waits
<1>6. /\ buffer'.order \in Seq(LatestInputs) /\ IsInjective(buffer'.order)
      /\ Range(buffer'.order) = Range(order) \cup {id}
  <2>1. CASE waits
    <3>1. id \in Range(order)
      BY <1>1, <1>2, <2>1 DEF waits, id
    <3> QED
      BY <1>2, <1>4, <2>1, <3>1
  <2>2. CASE ~waits
    <3>1. id \notin Range(order)
      BY <1>2, <2>2 DEF waits, id
    <3> QED
      BY <1>1, <1>2, <1>4, <2>2, <3>1, AppendItems, InjectiveAppend
  <2> QED
    BY <2>1, <2>2
<1>7. /\ buffer'.latest \in [LatestInputs -> 0..MaxEvents]
      /\ buffer'.latest[id] = number /\ newest'[id] = number
      /\ \A i \in LatestInputs \ {id} : /\ buffer'.latest[i] = buffer.latest[i]
                                        /\ newest'[i] = newest[i]
      /\ newest' \in [LatestInputs -> 0..MaxEvents]
  BY <1>1, <1>2, <1>4 DEF id, number
<1>8. TypeOK'
  <2>1. buffer' \in [events : Seq(InputEvents \cup Controls),
                     order : Seq(LatestInputs), latest : [LatestInputs -> 0..MaxEvents],
                     ticks : 0..MaxTicks, fifo : 0..FifoCapacity]
    BY <1>4, <1>6, <1>7 DEF IInv, TypeOK
  <2> QED
    BY <1>5, <1>7, <2>1 DEF IInv, TypeOK
<1>9. HandsAreEmpty'
  BY <1>5 DEF IInv, HandsAreEmpty
<1>10. Taken' = Taken
  BY DEF Taken, IsFifo
<1>11. TakenInOrder' /\ WaitingInOrder'
  BY <1>4, <1>10, SameQueue DEF IInv
<1>12. ReaderAhead' /\ FailureIsTold' /\ EndIsLast'
  BY <1>4, <1>5 DEF IInv, ReaderAhead, FailureIsTold, EndIsLast
<1>13. NewestIsKnown'
  <2>1. \A n \in DOMAIN buffer'.events : buffer'.events[n].id \notin LatestInputs
    BY <1>4 DEF IInv, NewestIsKnown
  <2>2. Range(buffer'.order) = {i \in LatestInputs : buffer'.latest[i] # 0}
    BY <1>1, <1>2, <1>6, <1>7
  <2>3. ASSUME NEW i \in LatestInputs
        PROVE  newest'[i] = IF buffer'.latest[i] # 0 THEN buffer'.latest[i]
                            ELSE IF runner'.event.id = i THEN runner'.event.number
                            ELSE shown'[i]
    <3>1. CASE i = id
      BY <1>1, <1>7, <3>1
    <3>2. CASE i # id
      BY <1>7, <3>2 DEF IInv, NewestIsKnown
    <3> QED
      BY <3>1, <3>2
  <2> QED
    BY <1>6, <2>1, <2>2, <2>3 DEF NewestIsKnown
<1> QED
  BY <1>8, <1>9, <1>11, <1>12, <1>13 DEF IInv

LEMMA ReaderPutsStep ==
  ASSUME IInv, ReaderPuts
  PROVE  IInv'
<1> DEFINE event == reader.event
<1>1. reader.stage = "putting" /\ UNCHANGED <<stop, runner, handled, shown>>
  BY DEF ReaderPuts, ReaderStep
<1>2. CASE IsFifo(event) /\ Overflows(buffer)
  BY <1>1, <1>2, ReaderTurnsStep DEF ReaderPuts, ReaderMoves
<1>3. CASE ~(IsFifo(event) /\ Overflows(buffer))
  <2>1. /\ buffer' = Put(buffer, event) /\ Goes("reading") /\ error' = error
        /\ accepted' = IF IsFifo(event) THEN Append(accepted, event.number)
                       ELSE accepted
        /\ newest' = IF event.id \in LatestInputs
                     THEN [newest EXCEPT ![event.id] = event.number] ELSE newest
    BY <1>3 DEF ReaderPuts
  <2>2. event \in InputEvents \cup Controls /\ event.type # "END"
    BY DEF IInv, TypeOK, EndIsLast
  <2>3. CASE event \in Controls
    <3>1. ~IsFifo(event) /\ event.id \notin LatestInputs
      BY <2>3, EventTypes
    <3>2. CASE event.type = "TICK"
      BY <1>1, <2>1, <3>1, <3>2, TickPut
    <3>3. CASE event.type # "TICK"
      BY <1>1, <2>1, <2>2, <2>3, <3>1, <3>3, ControlPut
    <3> QED
      BY <3>2, <3>3
  <2>4. CASE event \in InputEvents
    <3>1. event.id \in FifoInputs \/ event.id \in LatestInputs
      BY <2>4, EventTypes DEF Inputs
    <3>2. CASE event.id \in FifoInputs
      <4>1. IsFifo(event) /\ event.id \notin LatestInputs
        BY <3>2, RunnerAssumption DEF IsFifo
      <4> QED
        BY <1>1, <1>3, <2>1, <4>1, FifoPut
    <3>3. CASE event.id \in LatestInputs
      <4>1. ~IsFifo(event)
        BY <3>3, RunnerAssumption DEF IsFifo
      <4> QED
        BY <1>1, <2>1, <3>3, <4>1, LatestPut
    <3> QED
      BY <3>1, <3>2, <3>3
  <2> QED
    BY <2>2, <2>3, <2>4
<1> QED
  BY <1>2, <1>3

LEMMA NodeEndsStep ==
  ASSUME IInv, NodeEnds \/ NodeFails
  PROVE  IInv'
<1>1. CASE NodeEnds
  BY <1>1, ReaderTurnsStep DEF NodeEnds, ReaderStep, ReaderMoves
<1>2. CASE NodeFails
  BY <1>2, ReaderTurnsStep DEF NodeFails, ReaderStep, ReaderMoves
<1> QED
  BY <1>1, <1>2

\* A failure is recorded: from here on it waits to be told.
LEMMA RecordErrorStep ==
  ASSUME IInv, RecordError
  PROVE  IInv'
<1>1. /\ reader.stage = "failing" /\ Goes("failed") /\ error' = TRUE
      /\ ReaderMoves
  BY DEF RecordError, ReaderStep, ReaderMoves
<1>2. TakenInOrder' /\ WaitingInOrder' /\ NewestIsKnown'
  BY <1>1, ReaderMovesOnly
<1>3. "failed" \in Stages
  BY DEF Stages
<1>4. /\ reader' = [stage |-> "failed", event |-> Nothing, count |-> reader.count]
      /\ reader' \in [stage : Stages, event : InputEvents \cup Controls, count : 0..MaxEvents]
      /\ ~IsFifo(reader'.event) /\ reader'.event.type = "TIMEOUT"
  BY <1>1, <1>3, Going DEF IInv
<1>5. TypeOK'
  <2>1. error' \in BOOLEAN
    BY <1>1, Zenon
  <2> QED
    BY <1>1, <1>4, <2>1 DEF IInv, TypeOK, ReaderMoves
<1>6. HandsAreEmpty' /\ ReaderAhead'
  BY <1>1, <1>4 DEF IInv, HandsAreEmpty, ReaderAhead, ReaderMoves
<1>7. FailureIsTold'
  BY <1>4 DEF FailureIsTold
<1>8. EndIsLast'
  <2>1. runner.event.type # "END" /\ runner.stage # "eof"
    BY <1>1 DEF IInv, EndIsLast
  <2> QED
    BY <1>1, <1>4, <2>1 DEF IInv, EndIsLast, ReaderMoves
<1> QED
  BY <1>2, <1>5, <1>6, <1>7, <1>8 DEF IInv

LEMMA ReaderEndsStep ==
  ASSUME IInv, ReaderFails \/ ReaderEnds
  PROVE  IInv'
<1>1. /\ Control("READER_ERROR") \in Controls /\ Control("END") \in Controls
      /\ Control("READER_ERROR").type = "READER_ERROR"
      /\ Control("END").type = "END"
  BY EventTypes DEF Control
<1>2. CASE ReaderFails
  BY <1>1, <1>2, ControlPut DEF ReaderFails, ReaderStep
<1>3. CASE ReaderEnds
  BY <1>1, <1>3, ControlPut DEF ReaderEnds, ReaderStep
<1> QED
  BY <1>2, <1>3

-----------------------------------------------------------------------------
(* The steps of the loop.                                                  *)

LEMMA TakesHeadStep ==
  ASSUME IInv, TakesHead
  PROVE  IInv'
<1> DEFINE events == buffer.events
           head == Head(buffer.events)
<1>1. /\ head \in InputEvents \cup Controls
      /\ buffer'.events \in Seq(InputEvents \cup Controls)
      /\ runner' = [stage |-> "event", event |-> head]
      /\ Len(events) \in Nat \ {0} /\ DOMAIN events = 1..Len(events)
      /\ events[1] = head /\ DOMAIN buffer'.events = 1..Len(events) - 1
      /\ Len(buffer'.events) = Len(events) - 1 /\ 1 \in DOMAIN events
      /\ \A n \in DOMAIN buffer'.events :
           n + 1 \in DOMAIN events /\ buffer'.events[n] = events[n + 1]
  BY HeadTaken, LenProperties DEF IInv
<1>2. TakenInOrder' /\ WaitingInOrder' /\ buffer'.fifo \in 0..FifoCapacity
  BY TakesHeadQueue DEF IInv
<1>3. /\ UNCHANGED <<reader, error, stop, accepted, newest, handled, shown>>
      /\ runner.stage \in {"polling", "getting"} /\ buffer' = PopPriority(buffer)
      /\ runner.event = Nothing
  BY DEF TakesHead, RunnerStep, IInv, HandsAreEmpty
<1>4. /\ buffer'.order = buffer.order /\ buffer'.latest = buffer.latest
      /\ buffer'.ticks = buffer.ticks
      /\ buffer' = [buffer EXCEPT !.events = buffer'.events, !.fifo = buffer'.fifo]
  BY <1>3 DEF PopPriority, IInv, TypeOK
<1>5. /\ head.id \notin LatestInputs
      /\ \A n \in DOMAIN buffer'.events : buffer'.events[n].id \notin LatestInputs
  BY <1>1 DEF IInv, NewestIsKnown
<1>6. /\ \A n \in DOMAIN events : events[n].type = "END" => n = Len(events)
      /\ reader.stage # "over" => \A n \in DOMAIN events : events[n].type # "END"
      /\ runner.event.type # "READER_ERROR" /\ runner.event.id \notin LatestInputs
  BY <1>3, RunnerAssumption DEF IInv, EndIsLast, Nothing, Control
<1> HIDE DEF events, head
<1>7. TypeOK'
  <2>1. buffer' \in [events : Seq(InputEvents \cup Controls),
                     order : Seq(LatestInputs), latest : [LatestInputs -> 0..MaxEvents],
                     ticks : 0..MaxTicks, fifo : 0..FifoCapacity]
    BY <1>1, <1>2, <1>4 DEF IInv, TypeOK
  <2>2. runner' \in [stage : {"polling", "idle", "sound", "getting", "event"}
                               \cup Reasons,
                     event : InputEvents \cup Controls]
    BY <1>1
  <2> QED
    BY <1>3, <2>1, <2>2 DEF IInv, TypeOK
<1>8. HandsAreEmpty'
  BY <1>1, <1>3 DEF IInv, HandsAreEmpty
<1>9. ReaderAhead'
  BY <1>3, <1>4 DEF IInv, ReaderAhead
<1>10. FailureIsTold'
  <2>1. ASSUME error, reader.stage \in {"ending", "over"}
        PROVE  \/ \E n \in DOMAIN buffer'.events :
                    buffer'.events[n].type = "READER_ERROR"
               \/ head.type = "READER_ERROR"
    <3>1. PICK n \in DOMAIN events : events[n].type = "READER_ERROR"
      <4>1. runner.stage \notin Reasons \ {"eof"}
        BY <1>3 DEF Reasons
      <4> QED
        BY <1>6, <2>1, <4>1 DEF IInv, FailureIsTold, events
    <3>2. n # 1 => n - 1 \in DOMAIN buffer'.events /\ n - 1 + 1 = n
      <4>1. n \in 1..Len(events)
        BY <1>1
      <4>2. Len(events) \in Nat /\ DOMAIN buffer'.events = 1..Len(events) - 1
        BY <1>1
      <4> QED
        BY <4>1, <4>2
    <3>3. n # 1 => buffer'.events[n - 1] = events[n]
      BY <1>1, <3>2
    <3> QED
      BY <1>1, <3>1, <3>2, <3>3
  <2>2. reader.stage \in {"reading", "putting", "failing"} => ~error
    BY DEF IInv, FailureIsTold
  <2> QED
    BY <1>1, <1>3, <2>1, <2>2 DEF FailureIsTold
<1>11. EndIsLast'
  <2>1. reader'.event.type # "END"
    BY <1>3 DEF IInv, EndIsLast
  <2>2. reader'.stage # "over" =>
          /\ \A n \in DOMAIN buffer'.events : buffer'.events[n].type # "END"
          /\ runner'.event.type # "END" /\ runner'.stage # "eof"
    BY <1>1, <1>3, <1>6
  <2>3. ASSUME NEW n \in DOMAIN buffer'.events, buffer'.events[n].type = "END"
        PROVE  n = Len(buffer'.events)
    <3>1. n + 1 = Len(events)
      BY <1>1, <1>6, <2>3
    <3>2. n \in 1..Len(events) - 1
      BY <1>1
    <3>3. Len(events) \in Nat /\ Len(buffer'.events) = Len(events) - 1
      BY <1>1
    <3> QED
      BY <3>1, <3>2, <3>3
  <2>4. ASSUME runner'.event.type = "END" \/ runner'.stage = "eof"
        PROVE  buffer'.events = <<>> /\ ~error'
    <3>1. events[1].type = "END"
      BY <1>1, <2>4
    <3>2. Len(events) = 1
      BY <1>1, <1>6, <3>1
    <3>3. Len(buffer'.events) = 0
      BY <1>1, <3>2
    <3>4. buffer'.events = <<>>
      BY <1>1, <3>3, EmptySeq
    <3>5. reader.stage = "over"
      BY <1>1, <1>6, <3>1
    <3>6. \A n \in DOMAIN events : events[n].type # "READER_ERROR"
      BY <1>1, <3>1, <3>2
    <3>7. ~error
      <4>1. runner.stage \notin Reasons \ {"eof"}
        BY <1>3 DEF Reasons
      <4> QED
        BY <1>6, <3>5, <3>6, <4>1 DEF IInv, FailureIsTold, events
    <3> QED
      BY <1>3, <3>4, <3>7
  <2> QED
    BY <2>1, <2>2, <2>3, <2>4 DEF EndIsLast
<1>12. NewestIsKnown'
  <2>1. \A i \in LatestInputs :
          (IF runner'.event.id = i THEN runner'.event.number ELSE shown'[i])
            = (IF runner.event.id = i THEN runner.event.number ELSE shown[i])
    BY <1>1, <1>3, <1>5, <1>6
  <2> QED
    BY <1>3, <1>4, <1>5, <2>1, SameNewest DEF IInv
<1> QED
  BY <1>2, <1>7, <1>8, <1>9, <1>10, <1>11, <1>12 DEF IInv

\* The loop looks around without taking an event, and without ending.
LEMMA MovesOn ==
  ASSUME IInv, NEW stage \in {"idle", "sound", "getting", "polling", "reader_error",
                              "shutdown"},
         runner.stage \in {"polling", "idle", "sound"},
         At(stage), UNCHANGED <<buffer, handled, shown>>, RunnerStep
  PROVE  IInv'
<1>1. /\ runner' = [stage |-> stage, event |-> Nothing] /\ runner.event = Nothing
      /\ UNCHANGED <<buffer, reader, error, stop, accepted, newest, handled, shown>>
  BY DEF At, IInv, HandsAreEmpty, RunnerStep
<1>2. Nothing \in InputEvents \cup Controls /\ runner'.event = Nothing
      /\ runner'.stage = stage
  BY <1>1, EventTypes
<1>3. TypeOK'
  <2>1. runner' \in [stage : {"polling", "idle", "sound", "getting", "event"}
                               \cup Reasons,
                     event : InputEvents \cup Controls]
    BY <1>1, <1>2 DEF Reasons
  <2> QED
    BY <1>1, <2>1 DEF IInv, TypeOK
<1>4. HandsAreEmpty' /\ ReaderAhead'
  BY <1>1, <1>2 DEF IInv, HandsAreEmpty, ReaderAhead
<1>5. Taken' = Taken
  BY <1>1, <1>2 DEF Taken, IsFifo
<1>6. TakenInOrder' /\ WaitingInOrder'
  BY <1>1, <1>5, SameQueue DEF IInv
<1>7. FailureIsTold'
  BY <1>1, <1>2 DEF IInv, FailureIsTold, Reasons
<1>8. EndIsLast'
  BY <1>1, <1>2 DEF IInv, EndIsLast, Nothing, Control
<1>9. NewestIsKnown'
  BY <1>1, <1>2, SameNewest DEF IInv, NewestIsKnown
<1> QED
  BY <1>3, <1>4, <1>6, <1>7, <1>8, <1>9 DEF IInv

\* get takes an event that has no priority, or times out.
LEMMA TakesOther ==
  ASSUME IInv, runner.stage = "getting", NEW event \in InputEvents \cup Controls,
         ~IsFifo(event), event.type \notin {"END", "READER_ERROR"}, Takes(event),
         buffer.events = <<>>,
         buffer'.events = buffer.events, buffer'.fifo = buffer.fifo,
         buffer' \in [events : Seq(InputEvents \cup Controls),
                      order : Seq(LatestInputs),
                      latest : [LatestInputs -> 0..MaxEvents],
                      ticks : 0..MaxTicks, fifo : 0..FifoCapacity],
         buffer'.ticks <= buffer.ticks, UNCHANGED <<handled, shown>>, RunnerStep,
         NewestIsKnown'
  PROVE  IInv'
<1>1. /\ runner' = [stage |-> "event", event |-> event] /\ runner.event = Nothing
      /\ UNCHANGED <<reader, error, stop, accepted, newest, handled, shown>>
  BY DEF Takes, IInv, HandsAreEmpty, RunnerStep
<1>2. TypeOK'
  <2>1. runner' \in [stage : {"polling", "idle", "sound", "getting", "event"}
                               \cup Reasons,
                     event : InputEvents \cup Controls]
    BY <1>1
  <2> QED
    BY <1>1, <2>1 DEF IInv, TypeOK
<1>3. HandsAreEmpty'
  BY <1>1 DEF IInv, HandsAreEmpty
<1>4. ReaderAhead'
  <2>1. /\ buffer.ticks \in 0..MaxTicks /\ buffer'.ticks \in 0..MaxTicks
        /\ MaxTicks \in Nat
    BY RunnerAssumption DEF IInv, TypeOK
  <2>2. buffer.ticks < MaxTicks => buffer'.ticks < MaxTicks
    BY <2>1
  <2> QED
    BY <1>1, <2>2 DEF IInv, ReaderAhead, IsFifo
<1>5. Taken' = Taken
  BY <1>1, EventTypes DEF Taken, IsFifo
<1>6. TakenInOrder' /\ WaitingInOrder'
  BY <1>1, <1>5, SameQueue DEF IInv
<1>7. Nothing.type = "TIMEOUT" /\ DOMAIN <<>> = {}
  BY DEF Nothing, Control
<1>8. FailureIsTold'
  BY <1>1, <1>7 DEF IInv, FailureIsTold, Reasons
<1>9. EndIsLast'
  BY <1>1, <1>7 DEF IInv, EndIsLast
<1> QED
  BY <1>2, <1>3, <1>4, <1>6, <1>8, <1>9 DEF IInv

LEMMA GetStep ==
  ASSUME IInv, Get
  PROVE  IInv'
<1> DEFINE first == Head(buffer.order)
           order == buffer.order
<1>1. /\ runner.stage = "getting" /\ runner.event = Nothing
      /\ UNCHANGED <<handled, shown>> /\ RunnerStep
      /\ UNCHANGED newest
  BY DEF Get, IInv, HandsAreEmpty, RunnerStep
<1>2. Nothing \in Controls /\ ~IsFifo(Nothing) /\ Nothing.type = "TIMEOUT"
      /\ Nothing.id = "none"
  BY EventTypes DEF Nothing, Control
<1>3. /\ buffer.ticks \in 0..MaxTicks /\ MaxTicks \in Nat
      /\ order \in Seq(LatestInputs)
      /\ buffer.latest \in [LatestInputs -> 0..MaxEvents] /\ MaxEvents \in Nat
      /\ "none" \notin LatestInputs /\ FifoInputs \cap LatestInputs = {}
  BY RunnerAssumption DEF IInv, TypeOK
<1>4. CASE buffer.events # <<>>
  <2>1. TakesHead
    BY <1>1, <1>4 DEF Get, TakesHead
  <2> QED
    BY <2>1, TakesHeadStep
<1>5. CASE buffer.events = <<>> /\ buffer.ticks > 0
  <2>1. Takes(Control("TICK")) /\ buffer' = [buffer EXCEPT !.ticks = @ - 1]
    BY <1>3, <1>5 DEF Get
  <2>2. /\ Control("TICK") \in Controls /\ ~IsFifo(Control("TICK"))
        /\ Control("TICK").type = "TICK" /\ Control("TICK").id = "none"
    BY EventTypes DEF Control
  <2>3. buffer.ticks - 1 \in 0..MaxTicks /\ buffer.ticks - 1 <= buffer.ticks
    BY <1>3, <1>5
  <2>4. /\ buffer' \in [events : Seq(InputEvents \cup Controls),
                        order : Seq(LatestInputs),
                        latest : [LatestInputs -> 0..MaxEvents],
                        ticks : 0..MaxTicks, fifo : 0..FifoCapacity]
        /\ buffer'.events = buffer.events /\ buffer'.fifo = buffer.fifo
        /\ buffer'.order = buffer.order /\ buffer'.latest = buffer.latest
        /\ buffer'.ticks = buffer.ticks - 1
    BY <2>1, <2>3 DEF IInv, TypeOK
  <2>5. NewestIsKnown'
    <3>1. runner'.event.id = "none"
      BY <2>1, <2>2 DEF Takes
    <3> QED
      BY <1>1, <1>2, <1>3, <2>4, <3>1, SameNewest DEF IInv, NewestIsKnown
  <2> QED
    BY <1>1, <1>5, <2>1, <2>2, <2>3, <2>4, <2>5, TakesOther
<1>6. CASE buffer.events = <<>> /\ buffer.ticks = 0 /\ order # <<>>
  <2> DEFINE number == buffer.latest[first]
             event == Input(first, number)
  <2>1. /\ Takes(event)
        /\ buffer' = [buffer EXCEPT !.order = Tail(@), !.latest[first] = 0]
    BY <1>3, <1>6 DEF Get
  <2>2. /\ IsInjective(order)
        /\ Range(order) = {i \in LatestInputs : buffer.latest[i] # 0}
    BY DEF IInv, NewestIsKnown
  <2>3. /\ Tail(order) \in Seq(LatestInputs) /\ first \in LatestInputs
        /\ Range(order) = {first} \cup Range(Tail(order))
    BY <1>3, <1>6, TailItems
  <2>4. IsInjective(Tail(order)) /\ Range(Tail(order)) = Range(order) \ {first}
    BY <1>3, <1>6, <2>2, InjectiveTail
  <2>5. number \in 1..MaxEvents /\ number # 0
    BY <1>3, <2>2, <2>3
  <2>6. /\ event \in InputEvents /\ ~IsFifo(event) /\ event.type = "INPUT"
        /\ event.id = first /\ event.number = number
    BY <1>3, <2>3, <2>5, EventTypes DEF Inputs, IsFifo
  <2>7. /\ buffer'.events = buffer.events /\ buffer'.fifo = buffer.fifo
        /\ buffer'.order = Tail(order) /\ buffer'.ticks = buffer.ticks
        /\ buffer'.latest = [buffer.latest EXCEPT ![first] = 0]
        /\ buffer' = [buffer EXCEPT !.order = buffer'.order, !.latest = buffer'.latest]
    BY <2>1 DEF IInv, TypeOK
  <2> HIDE DEF event, number, first, order
  <2>8. /\ buffer'.latest \in [LatestInputs -> 0..MaxEvents]
        /\ buffer'.latest[first] = 0
        /\ \A i \in LatestInputs \ {first} : buffer'.latest[i] = buffer.latest[i]
    BY <1>3, <2>3, <2>7
  <2>9. buffer' \in [events : Seq(InputEvents \cup Controls),
                     order : Seq(LatestInputs),
                     latest : [LatestInputs -> 0..MaxEvents],
                     ticks : 0..MaxTicks, fifo : 0..FifoCapacity]
    BY <2>3, <2>7, <2>8 DEF IInv, TypeOK
  <2>10. NewestIsKnown'
    <3>1. \A n \in DOMAIN buffer'.events : buffer'.events[n].id \notin LatestInputs
      BY <2>7 DEF IInv, NewestIsKnown
    <3>2. Range(buffer'.order) = {i \in LatestInputs : buffer'.latest[i] # 0}
      BY <2>2, <2>3, <2>4, <2>7, <2>8
    <3>3. runner'.event = event
      BY <2>1 DEF Takes
    <3>4. ASSUME NEW i \in LatestInputs
          PROVE  newest'[i] = IF buffer'.latest[i] # 0 THEN buffer'.latest[i]
                              ELSE IF runner'.event.id = i THEN runner'.event.number
                              ELSE shown'[i]
      <4>1. newest[i] = IF buffer.latest[i] # 0 THEN buffer.latest[i] ELSE shown[i]
        BY <1>1, <1>2, <1>3 DEF IInv, NewestIsKnown
      <4>2. CASE i = first
        BY <1>1, <2>5, <2>6, <2>8, <3>3, <4>1, <4>2 DEF number
      <4>3. CASE i # first
        BY <1>1, <2>6, <2>8, <3>3, <4>1, <4>3
      <4> QED
        BY <4>2, <4>3
    <3> QED
      BY <2>4, <2>7, <3>1, <3>2, <3>4 DEF NewestIsKnown
  <2>11. /\ event \in InputEvents \cup Controls
         /\ event.type \notin {"END", "READER_ERROR"}
         /\ buffer'.ticks <= buffer.ticks
    BY <1>3, <2>6, <2>7
  <2> QED
    BY <1>1, <1>6, <2>1, <2>6, <2>7, <2>9, <2>10, <2>11, TakesOther
<1>7. CASE buffer.events = <<>> /\ buffer.ticks = 0 /\ order = <<>>
  <2>1. Takes(Nothing) /\ buffer' = buffer
    BY <1>7 DEF Get
  <2>2. runner'.event.id = "none"
    BY <1>2, <2>1 DEF Takes
  <2>3. NewestIsKnown'
    BY <1>1, <1>2, <1>3, <2>1, <2>2, SameNewest DEF IInv, NewestIsKnown
  <2>4. buffer \in [events : Seq(InputEvents \cup Controls),
                    order : Seq(LatestInputs),
                    latest : [LatestInputs -> 0..MaxEvents],
                    ticks : 0..MaxTicks, fifo : 0..FifoCapacity]
    BY DEF IInv, TypeOK
  <2> QED
    BY <1>1, <1>2, <1>3, <1>7, <2>1, <2>3, <2>4, TakesOther
<1> QED
  BY <1>3, <1>4, <1>5, <1>6, <1>7

LEMMA PollPriorityStep ==
  ASSUME IInv, PollPriority
  PROVE  IInv'
<1>1. CASE buffer.events # <<>>
  <2>1. TakesHead
    BY <1>1 DEF PollPriority, TakesHead
  <2> QED
    BY <2>1, TakesHeadStep
<1>2. CASE buffer.events = <<>>
  <2>1. /\ At("idle") /\ runner.stage = "polling"
        /\ UNCHANGED <<buffer, handled, shown>> /\ RunnerStep
    BY <1>2 DEF PollPriority
  <2> QED
    BY <2>1, MovesOn
<1> QED
  BY <1>1, <1>2

LEMMA LooksStep ==
  ASSUME IInv, LookForError \/ LookForStop
  PROVE  IInv'
<1>1. CASE LookForError
  <2>1. At(IF error THEN "reader_error" ELSE "sound")
    BY <1>1 DEF LookForError
  <2>2. At("reader_error") \/ At("sound")
    BY <2>1
  <2> QED
    BY <1>1, <2>2, MovesOn DEF LookForError
<1>2. CASE LookForStop
  <2>1. At(IF Stops THEN "shutdown" ELSE "getting")
    BY <1>2 DEF LookForStop
  <2>2. At("shutdown") \/ At("getting")
    BY <2>1
  <2> QED
    BY <1>2, <2>2, MovesOn DEF LookForStop
<1> QED
  BY <1>1, <1>2

\* What the loop does with an event in hand.
LEMMA HandlePollStep ==
  ASSUME IInv, HandlePoll
  PROVE  IInv'
<1> DEFINE event == runner.event
           type == runner.event.type
           stage == IF type \in DOMAIN ReasonOf THEN ReasonOf[type] ELSE "polling"
<1>1. /\ runner' = [stage |-> stage, event |-> Nothing] /\ runner.stage = "event"
      /\ handled' = IF IsFifo(event) THEN Append(handled, event.number) ELSE handled
      /\ shown' = IF event.id \in LatestInputs
                  THEN [shown EXCEPT ![event.id] = event.number] ELSE shown
      /\ UNCHANGED <<buffer, reader, error, stop, accepted, newest>>
  BY DEF HandlePoll, At, RunnerStep
<1>2. /\ event \in InputEvents \cup Controls /\ Nothing \in Controls
      /\ event.id \in Inputs => event.number \in 1..MaxEvents
      /\ ~IsFifo(Nothing) /\ Nothing.type = "TIMEOUT" /\ Nothing.id = "none"
      /\ "none" \notin Inputs
  BY EventTypes, RunnerAssumption DEF IInv, TypeOK, Nothing, Control, Inputs
<1>3. /\ stage \in Reasons \cup {"polling"}
      /\ stage = "eof" => type = "END"
      /\ type = "READER_ERROR" => stage \in Reasons \ {"eof"}
  BY DEF ReasonOf, Reasons
<1> HIDE DEF stage
<1>4. runner'.stage = stage /\ runner'.event = Nothing
  BY <1>1
<1>5. Taken' = Taken
  BY <1>1, <1>2, <1>4 DEF Taken, IsFifo
<1>6. TakenInOrder' /\ WaitingInOrder'
  BY <1>1, <1>5, SameQueue DEF IInv
<1>7. TypeOK'
  <2>1. runner' \in [stage : {"polling", "idle", "sound", "getting", "event"}
                               \cup Reasons,
                     event : InputEvents \cup Controls]
    BY <1>1, <1>2, <1>3
  <2>2. handled' \in Seq(1..MaxEvents)
    <3> DEFINE Numbers == 1..MaxEvents
    <3>1. handled \in Seq(Numbers) /\ (IsFifo(event) => event.number \in Numbers)
      BY <1>2 DEF IInv, TypeOK, IsFifo, Inputs
    <3> HIDE DEF Numbers
    <3>2. handled' \in Seq(Numbers)
      BY <1>1, <3>1, AppendItems
    <3> QED
      BY <3>2 DEF Numbers
  <2>3. shown' \in [LatestInputs -> 0..MaxEvents]
    <3>1. event.id \in LatestInputs => event.number \in 0..MaxEvents
      BY <1>2, RunnerAssumption DEF Inputs
    <3> QED
      BY <1>1, <3>1 DEF IInv, TypeOK
  <2> QED
    BY <1>1, <2>1, <2>2, <2>3 DEF IInv, TypeOK
<1>8. HandsAreEmpty' /\ ReaderAhead'
  BY <1>1, <1>4 DEF IInv, HandsAreEmpty, ReaderAhead
<1>9. FailureIsTold'
  <2>1. runner.stage \notin Reasons
    BY <1>1 DEF Reasons
  <2> QED
    BY <1>1, <1>3, <1>4, <2>1 DEF IInv, FailureIsTold
<1>10. EndIsLast'
  <2>1. reader.stage # "over" => stage # "eof"
    BY <1>3 DEF IInv, EndIsLast
  <2>2. stage = "eof" => buffer.events = <<>> /\ ~error
    BY <1>3 DEF IInv, EndIsLast
  <2> QED
    BY <1>1, <1>2, <1>4, <2>1, <2>2 DEF IInv, EndIsLast
<1>11. NewestIsKnown'
  <2>1. ASSUME NEW i \in LatestInputs
        PROVE  (IF runner'.event.id = i THEN runner'.event.number ELSE shown'[i])
                 = (IF runner.event.id = i THEN runner.event.number ELSE shown[i])
    <3>1. runner'.event.id # i
      BY <1>2, <1>4 DEF Inputs
    <3>2. shown'[i] = IF event.id = i THEN event.number ELSE shown[i]
      BY <1>1 DEF IInv, TypeOK
    <3> QED
      BY <3>1, <3>2
  <2> QED
    BY <1>1, <2>1, SameNewest DEF IInv, NewestIsKnown
<1> QED
  BY <1>6, <1>7, <1>8, <1>9, <1>10, <1>11 DEF IInv

\* A step that changes nothing but the stop event.
LEMMA OnlyStop ==
  ASSUME IInv, stop' \in BOOLEAN,
         UNCHANGED <<buffer, reader, error, runner, accepted, handled, newest, shown>>
  PROVE  IInv'
<1>1. Taken' = Taken
  BY DEF Taken, IsFifo
<1>2. TakenInOrder' /\ WaitingInOrder'
  BY <1>1, SameQueue DEF IInv
<1>3. NewestIsKnown'
  BY SameNewest DEF IInv, NewestIsKnown
<1>4. TypeOK'
  BY DEF IInv, TypeOK
<1>5. HandsAreEmpty' /\ ReaderAhead' /\ FailureIsTold' /\ EndIsLast'
  BY DEF IInv, HandsAreEmpty, ReaderAhead, FailureIsTold, EndIsLast
<1> QED
  BY <1>2, <1>3, <1>4, <1>5 DEF IInv

LEMMA NextInv ==
  ASSUME IInv, [Next]_vars
  PROVE  IInv'
<1>1. ASSUME NEW event \in Delivered, ReaderReceives(event) PROVE IInv'
  BY <1>1, ReaderReceivesStep
<1>2. CASE ReaderPuts
  BY <1>2, ReaderPutsStep
<1>3. CASE NodeEnds \/ NodeFails
  BY <1>3, NodeEndsStep
<1>4. CASE RecordError \/ ReaderFails \/ ReaderEnds
  BY <1>4, RecordErrorStep, ReaderEndsStep
<1>5. CASE PollPriority
  BY <1>5, PollPriorityStep
<1>6. CASE LookForError \/ LookForStop
  BY <1>6, LooksStep
<1>7. CASE Get
  BY <1>7, GetStep
<1>8. CASE HandlePoll
  BY <1>8, HandlePollStep
<1>9. CASE RequestStop
  <2>1. stop' = TRUE
    BY <1>9 DEF RequestStop
  <2>2. stop' \in BOOLEAN
    BY <2>1, Zenon
  <2> QED
    BY <1>9, <2>2, OnlyStop DEF RequestStop
<1>10. CASE UNCHANGED vars
  <2>1. stop \in BOOLEAN
    BY DEF IInv, TypeOK
  <2>2. stop' \in BOOLEAN
    BY <1>10, <2>1 DEF vars
  <2> QED
    BY <1>10, <2>2, OnlyStop DEF vars
<1> QED
  BY <1>1, <1>2, <1>3, <1>4, <1>5, <1>6, <1>7, <1>8, <1>9, <1>10 DEF Next, Loop

-----------------------------------------------------------------------------
(* The theorems.                                                           *)

\* However the reader of the node and the loop interleave, the state stays as
\* the invariant says.
THEOREM Invariant == Spec => []IInv
BY InitInv, NextInv, PTL DEF Spec

\* Every variable of the runner keeps its type: the FIFO never holds more
\* inputs than its capacity.
THEOREM TypeCorrect == Spec => []TypeOK
<1>1. IInv => TypeOK
  BY DEF IInv
<1> QED
  BY <1>1, Invariant, PTL

LEMMA KeptFifo ==
  ASSUME IInv
  PROVE  FifoKept
<1>1. /\ accepted \in Seq(1..MaxEvents) /\ handled \in Seq(1..MaxEvents)
      /\ Len(accepted) \in Nat /\ DOMAIN accepted = 1..Len(accepted)
  BY LenProperties DEF IInv, TypeOK
<1>2. Taken \in Seq(1..MaxEvents) /\ Len(Taken) \in Nat
      /\ DOMAIN Taken = 1..Len(Taken)
  <2> DEFINE Numbers == 1..MaxEvents
  <2>1. handled \in Seq(Numbers)
        /\ (IsFifo(runner.event) => runner.event.number \in Numbers)
    BY EventTypes DEF IInv, TypeOK
  <2> HIDE DEF Numbers
  <2>2. Taken \in Seq(Numbers)
    BY <2>1, AppendItems DEF Taken
  <2>3. Len(Taken) \in Nat /\ DOMAIN Taken = 1..Len(Taken)
    BY <2>2, LenProperties
  <2> QED
    BY <2>2, <2>3 DEF Numbers
<1>3. Len(Taken) <= Len(accepted) /\ \A n \in DOMAIN Taken : Taken[n] = accepted[n]
  BY DEF IInv, TakenInOrder
<1>4. IsPrefix(Taken, accepted)
  <2>1. SubSeq(Taken, 1, Len(Taken)) = SubSeq(accepted, 1, Len(Taken))
    BY <1>1, <1>2, <1>3
  <2> QED
    BY <1>3, <2>1 DEF IsPrefix
<1>5. {buffer.events[n].number : n \in Waiting} =
        {accepted[n] : n \in Len(Taken) + 1 .. Len(accepted)}
  <2> DEFINE Numbers == {buffer.events[n].number : n \in Waiting}
             Left == {accepted[n] : n \in Len(Taken) + 1 .. Len(accepted)}
  <2>1. ASSUME NEW x \in Numbers PROVE x \in Left
    <3>1. PICK n \in Waiting : x = buffer.events[n].number
      OBVIOUS
    <3>2. PICK k \in Len(Taken) + 1 .. Len(accepted) :
            buffer.events[n].number = accepted[k]
      BY <3>1 DEF IInv, WaitingInOrder, WaitingMatch
    <3> QED
      BY <3>1, <3>2
  <2>2. ASSUME NEW x \in Left PROVE x \in Numbers
    <3>1. PICK k \in Len(Taken) + 1 .. Len(accepted) : x = accepted[k]
      OBVIOUS
    <3>2. PICK n \in Waiting : buffer.events[n].number = accepted[k]
      BY <3>1 DEF IInv, WaitingInOrder, WaitingMatch
    <3> QED
      BY <3>1, <3>2
  <2> HIDE DEF Numbers, Left
  <2>3. Numbers = Left
    BY <2>1, <2>2
  <2> QED
    BY <2>3 DEF Numbers, Left
<1>6. ASSUME runner.stage = "eof"
      PROVE  handled = accepted /\ ~error
  <2>1. buffer.events = <<>> /\ ~error /\ runner.event = Nothing
    BY <1>6 DEF IInv, EndIsLast, HandsAreEmpty
  <2>2. Waiting = {} /\ Taken = handled
    BY <2>1, EventTypes DEF Waiting, Taken
  <2>3. Len(accepted) \notin Len(Taken) + 1 .. Len(accepted)
    BY <2>2 DEF IInv, WaitingInOrder, WaitingMatch
  <2>4. Len(handled) = Len(accepted)
    <3>1. Len(Taken) = Len(accepted)
      <4>1. Len(Taken) \in Nat /\ Len(accepted) \in Nat /\ Len(Taken) <= Len(accepted)
        BY <1>1, <1>2, <1>3
      <4> QED
        BY <2>3, <4>1
    <3> QED
      BY <2>2, <3>1
  <2>5. handled = accepted
    BY <1>1, <1>2, <1>3, <2>2, <2>4, SeqEqual
  <2> QED
    BY <2>1, <2>5
<1> QED
  BY <1>4, <1>5, <1>6 DEF IInv, WaitingInOrder, TakenInOrder, Increasing, FifoKept

\* The Tool inputs that the buffer accepts are handled each once, in the order
\* of their delivery, by whatever interleaving of the thread that fills the
\* buffer and the loop that empties it; a run that ends with the input has
\* handled them all.
THEOREM FifoAlwaysKept == Spec => []FifoKept
BY KeptFifo, Invariant, PTL

\* The last value of any other input waits, is in hand or was handled last,
\* and an input waits at most once.
THEOREM LatestAlwaysKept == Spec => []LatestKept
<1>1. ASSUME IInv PROVE LatestKept
  <2>1. NewestIsKnown
    BY <1>1 DEF IInv
  <2>2. ASSUME NEW i \in LatestInputs
        PROVE  newest[i] \in {shown[i], buffer.latest[i]}
                 \/ (runner.event.id = i /\ runner.event.number = newest[i])
    BY <2>1 DEF NewestIsKnown
  <2> QED
    BY <2>1, <2>2, Zenon DEF NewestIsKnown, LatestKept
<1> QED
  BY <1>1, Invariant, PTL
=============================================================================
