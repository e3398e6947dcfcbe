------------------------------ MODULE DoraRunner ------------------------------
(***************************************************************************)
(* GatewayDoraRunner (src/forge_gateway/adapters/dora_runtime.py): the     *)
(* thread that iterates the Dora node, the DoraEventBuffer it fills        *)
(* (adapters/dora_adapter.py), and the lifecycle thread's loop, which      *)
(* empties it.  What the loop does with an input, and the maintenance that *)
(* follows, belong to the other modules.                                   *)
(*                                                                         *)
(* Events are numbered in the order in which the node delivers them.       *)
(***************************************************************************)
EXTENDS Naturals, SequencesExt

CONSTANTS
  FifoInputs,      \* fifo_input_ids: the Tool inputs
  LatestInputs,    \* the other inputs, of which only the latest matters
  FifoCapacity,    \* fifo_capacity
  MaxEvents,       \* bound of the model: events delivered, ticks aside
  MaxTicks         \* bound of the model: ticks that wait

ASSUME RunnerAssumption ==
  /\ FifoInputs \cap LatestInputs = {} /\ "none" \notin FifoInputs \cup LatestInputs
  /\ FifoCapacity \in Nat \ {0} /\ MaxEvents \in Nat /\ MaxTicks \in Nat

VARIABLES
  buffer,     \* the DoraEventBuffer
  reader,     \* _read_node: how far it has come, and the event in its hands
  error,      \* _reader_error is set
  stop,       \* stop_event
  runner,     \* run: how far it has come, and the event in its hands
  accepted,   \* the numbers of the FIFO inputs put into the buffer, in order
  handled,    \* ... and of those handled
  newest,     \* of each other input, the number of the last one put
  shown       \* ... and of the last one handled

vars == <<buffer, reader, error, stop, runner, accepted, handled, newest, shown>>

Inputs == FifoInputs \cup LatestInputs
Input(id, number) == [type |-> "INPUT", id |-> id, number |-> number]
Control(type) == [type |-> type, id |-> "none", number |-> 0]

InputEvents == {Input(id, number) : id \in Inputs, number \in 1..MaxEvents}
Controls == {Control(type) : type \in {"STOP", "ERROR", "READER_ERROR",
                                       "OTHER", "END", "TICK", "TIMEOUT"}}
Nothing == Control("TIMEOUT")
Stages == {"reading", "putting", "failing", "failed", "ending", "over"}
Reasons == {"stop", "error", "reader_error", "eof", "shutdown"}

IsFifo(event) == event.id \in FifoInputs

TypeOK ==
  /\ buffer \in [events : Seq(InputEvents \cup Controls), order : Seq(LatestInputs),
                 latest : [LatestInputs -> 0..MaxEvents], ticks : 0..MaxTicks,
                 fifo : 0..FifoCapacity]
  /\ reader \in [stage : Stages, event : InputEvents \cup Controls, count : 0..MaxEvents]
  /\ runner \in [stage : {"polling", "idle", "sound", "getting", "event"}
                           \cup Reasons,
                 event : InputEvents \cup Controls]
  /\ error \in BOOLEAN /\ stop \in BOOLEAN
  /\ accepted \in Seq(1..MaxEvents) /\ handled \in Seq(1..MaxEvents)
  /\ newest \in [LatestInputs -> 0..MaxEvents]
  /\ shown \in [LatestInputs -> 0..MaxEvents]

Init ==
  /\ buffer = [events |-> <<>>, order |-> <<>>,
               latest |-> [i \in LatestInputs |-> 0], ticks |-> 0, fifo |-> 0]
  /\ reader = [stage |-> "reading", event |-> Nothing, count |-> 0]
  /\ runner = [stage |-> "polling", event |-> Nothing]
  /\ error = FALSE /\ stop = FALSE
  /\ accepted = <<>> /\ handled = <<>>
  /\ newest = [i \in LatestInputs |-> 0] /\ shown = [i \in LatestInputs |-> 0]

-----------------------------------------------------------------------------
(* DoraEventBuffer, under its condition.                                   *)

\* Mutation: the FIFO overflows one input late.
OverflowsLate(b) == b.fifo > FifoCapacity

Overflows(b) == b.fifo >= FifoCapacity

\* Mutation: an input that waits already keeps its value.
KeepFirst(b, event) ==
  IF b.latest[event.id] # 0 THEN b
  ELSE [b EXCEPT !.latest[event.id] = event.number,
                 !.order = Append(@, event.id)]

\* It keeps its place in the order, too.
PutLatest(b, event) ==
  [b EXCEPT !.latest[event.id] = event.number,
            !.order = IF b.latest[event.id] = 0 THEN Append(@, event.id) ELSE @]

PutFifo(b, event) == [b EXCEPT !.events = Append(@, event), !.fifo = @ + 1]

\* put, but for an overflow
Put(b, event) ==
  CASE event.type = "TICK" -> [b EXCEPT !.ticks = @ + 1]
    [] event.id \in FifoInputs -> PutFifo(b, event)
    [] event.id \in LatestInputs -> PutLatest(b, event)
    [] event.id = "none" /\ event.type # "TICK" ->
         [b EXCEPT !.events = Append(@, event)]

\* _pop_priority_event
PopPriority(b) ==
  [b EXCEPT !.events = Tail(@),
            !.fifo = IF IsFifo(Head(b.events)) THEN @ - 1 ELSE @]

-----------------------------------------------------------------------------
(* The reader.                                                             *)

ReaderStep == UNCHANGED <<stop, runner, handled, shown>>
Goes(stage) == reader' = [reader EXCEPT !.stage = stage, !.event = Nothing]

\* The node delivers an event; it is looked at only if nothing is to stop.
ReaderReceives(event) ==
  /\ reader.stage = "reading"
  /\ IF stop THEN Goes("ending")
     ELSE reader' = [stage |-> "putting", event |-> event,
                     count |-> reader.count + (IF event.type = "TICK" THEN 0
                                               ELSE 1)]
  /\ UNCHANGED <<buffer, error, accepted, newest>> /\ ReaderStep

Delivered ==
  (IF buffer.ticks < MaxTicks THEN {Control("TICK")} ELSE {})
    \cup (IF reader.count < MaxEvents
          THEN {Input(id, reader.count + 1) : id \in Inputs}
                 \cup {Control(type) : type \in {"STOP", "ERROR", "OTHER"}}
          ELSE {})

ReaderPuts ==
  /\ reader.stage = "putting"
  /\ LET event == reader.event
     IN IF IsFifo(event) /\ Overflows(buffer)
        THEN Goes("failing") /\ UNCHANGED <<buffer, accepted, newest>>
        ELSE /\ buffer' = Put(buffer, event) /\ Goes("reading")
             /\ accepted' = IF IsFifo(event)
                            THEN Append(accepted, event.number) ELSE accepted
             /\ newest' = IF event.id \in LatestInputs
                          THEN [newest EXCEPT ![event.id] = event.number]
                          ELSE newest
  /\ UNCHANGED error /\ ReaderStep

\* The node ends, or the iteration raises.
NodeEnds ==
  /\ reader.stage = "reading" /\ Goes("ending")
  /\ UNCHANGED <<buffer, error, accepted, newest>> /\ ReaderStep

NodeFails ==
  /\ reader.stage = "reading" /\ Goes("failing")
  /\ UNCHANGED <<buffer, error, accepted, newest>> /\ ReaderStep

\* What was raised is recorded, before it is put into the buffer.
RecordError ==
  /\ reader.stage = "failing" /\ Goes("failed") /\ error' = TRUE
  /\ UNCHANGED <<buffer, accepted, newest>> /\ ReaderStep

\* Mutation: a failure is not put into the buffer.
FailQuietly ==
  /\ reader.stage = "failed" /\ Goes("ending")
  /\ UNCHANGED <<buffer, error, accepted, newest>> /\ ReaderStep

ReaderFails ==
  /\ reader.stage = "failed" /\ Goes("ending")
  /\ buffer' = Put(buffer, Control("READER_ERROR"))
  /\ UNCHANGED <<error, accepted, newest>> /\ ReaderStep

\* finally: the sentinel is the last event there is.
ReaderEnds ==
  /\ reader.stage = "ending" /\ Goes("over")
  /\ buffer' = Put(buffer, Control("END"))
  /\ UNCHANGED <<error, accepted, newest>> /\ ReaderStep

-----------------------------------------------------------------------------
(* The loop.                                                               *)

RunnerStep == UNCHANGED <<reader, error, stop, accepted, newest>>
Takes(event) == runner' = [stage |-> "event", event |-> event]
At(stage) == runner' = [stage |-> stage, event |-> Nothing]

\* get_priority
PollPriority ==
  /\ runner.stage = "polling"
  /\ IF buffer.events # <<>>
     THEN Takes(Head(buffer.events)) /\ buffer' = PopPriority(buffer)
     ELSE At("idle") /\ UNCHANGED buffer
  /\ UNCHANGED <<handled, shown>> /\ RunnerStep

\* Mutation: the loop relies on the reader to end it.
NeverStops == FALSE

Stops == stop

\* Without a priority event, a failure of the reader counts, ...
LookForError ==
  /\ runner.stage = "idle" /\ At(IF error THEN "reader_error" ELSE "sound")
  /\ UNCHANGED <<buffer, handled, shown>> /\ RunnerStep

\* ... and then the stop event.
LookForStop ==
  /\ runner.stage = "sound" /\ At(IF Stops THEN "shutdown" ELSE "getting")
  /\ UNCHANGED <<buffer, handled, shown>> /\ RunnerStep

\* get: what has come meanwhile with priority, then ticks, then the others in
\* the order in which they began to wait; nothing, if nothing comes in time.
Get ==
  /\ runner.stage = "getting"
  /\ LET first == Head(buffer.order)
     IN \/ /\ buffer.events # <<>>
           /\ Takes(Head(buffer.events)) /\ buffer' = PopPriority(buffer)
        \/ /\ buffer.events = <<>> /\ buffer.ticks > 0
           /\ Takes(Control("TICK"))
           /\ buffer' = [buffer EXCEPT !.ticks = @ - 1]
        \/ /\ buffer.events = <<>> /\ buffer.ticks = 0 /\ buffer.order # <<>>
           /\ Takes(Input(first, buffer.latest[first]))
           /\ buffer' = [buffer EXCEPT !.order = Tail(@), !.latest[first] = 0]
        \/ /\ buffer.events = <<>> /\ buffer.ticks = 0 /\ buffer.order = <<>>
           /\ Takes(Nothing) /\ UNCHANGED buffer
  /\ UNCHANGED <<handled, shown>> /\ RunnerStep

\* handle_poll, and the sentinel: the event ends the run, or is handled.
ReasonOf ==
  [STOP |-> "stop", ERROR |-> "error", READER_ERROR |-> "reader_error",
   END |-> "eof"]

HandlePoll ==
  /\ runner.stage = "event"
  /\ LET event == runner.event
     IN /\ At(IF event.type \in DOMAIN ReasonOf THEN ReasonOf[event.type]
              ELSE "polling")
        /\ handled' = IF IsFifo(event) THEN Append(handled, event.number)
                      ELSE handled
        /\ shown' = IF event.id \in LatestInputs
                    THEN [shown EXCEPT ![event.id] = event.number] ELSE shown
  /\ UNCHANGED buffer /\ RunnerStep

RequestStop ==
  /\ ~stop /\ stop' = TRUE
  /\ UNCHANGED <<buffer, reader, error, runner, accepted, handled, newest, shown>>

-----------------------------------------------------------------------------
Loop == PollPriority \/ LookForError \/ LookForStop \/ Get \/ HandlePoll

Next ==
  \/ \E event \in Delivered : ReaderReceives(event)
  \/ ReaderPuts \/ NodeEnds \/ NodeFails
  \/ RecordError \/ ReaderFails \/ ReaderEnds
  \/ Loop \/ RequestStop

\* The node need not deliver anything; both threads run.
Fairness ==
  /\ WF_vars(Loop)
  /\ WF_vars(ReaderPuts \/ RecordError \/ ReaderFails \/ ReaderEnds)

Spec == Init /\ [][Next]_vars
FairSpec == Spec /\ Fairness

-----------------------------------------------------------------------------
(* Properties.                                                             *)

Over == runner.stage \in Reasons

\* The Tool inputs that the loop has taken, and where in the buffer others are.
Taken ==
  IF IsFifo(runner.event) THEN Append(handled, runner.event.number) ELSE handled
Waiting == {n \in DOMAIN buffer.events : IsFifo(buffer.events[n])}

\* The Tool inputs that the buffer accepted are handled one by one, in the
\* order of their delivery, without loss or repetition, however the other
\* events are coalesced around them.  A run that ends with the input handled
\* them all, and none was refused for lack of room: overflow "fails explicitly"
\* (README.md:247), whichever way the two threads interleave.
FifoKept ==
  /\ IsPrefix(Taken, accepted)
  /\ {buffer.events[n].number : n \in Waiting} =
       {accepted[n] : n \in Len(Taken) + 1 .. Len(accepted)}
  /\ \A m, n \in Waiting :
       m < n => buffer.events[m].number < buffer.events[n].number
  /\ \A m, n \in DOMAIN accepted : m < n => accepted[m] < accepted[n]
  /\ buffer.fifo = Len(accepted) - Len(Taken)
  /\ runner.stage = "eof" => handled = accepted /\ ~error

\* Of the other inputs, what was delivered last is never forgotten while the
\* gateway runs: it waits, once, or is in hand, or was the last handled.
LatestKept ==
  /\ IsInjective(buffer.order)
  /\ Range(buffer.order) = {i \in LatestInputs : buffer.latest[i] # 0}
  /\ \A i \in LatestInputs :
       newest[i] \in {shown[i], buffer.latest[i]}
         \/ (runner.event.id = i /\ runner.event.number = newest[i])

\* The loop ends, whatever the node keeps delivering or fails to deliver, once
\* the stop event is set, the input ends or the reader fails.
RunEnds ==
  stop \/ reader.stage \in {"failing", "failed", "ending", "over"} ~> Over
=============================================================================
