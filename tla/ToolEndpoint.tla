----------------------------- MODULE ToolEndpoint -----------------------------
(***************************************************************************)
(* A provider process: the asyncio tasks that dispatch requests through    *)
(* DoraToolEndpointBinding (src/forge_tool/dora.py) and                    *)
(* ToolEndpointHandler (src/forge_tool/handler.py), and the tasks of the   *)
(* provider's own that emit events.  A task runs until it awaits something *)
(* that is not there yet; the handler's lock is never held across such an  *)
(* await, the emitter's lock is, while an event is published.              *)
(*                                                                         *)
(* The provider itself is arbitrary: its callbacks return whatever they    *)
(* may return, as late as they like, and it emits whenever it pleases.     *)
(***************************************************************************)
EXTENDS EndpointExecutions

CONSTANTS
  Requests,     \* tasks, each of which dispatches one request
  Emissions,    \* tasks, each of which emits one event
  Told,         \* the phases with which a provider of the model answers
  MaxRecords    \* bound of the model: records ever made

ASSUME EndpointAssumption ==
  /\ Requests \cap Emissions = {}
  /\ Told \subseteq Active \cup Terminal
  /\ MaxRecords \in Nat \ {0}

VARIABLES
  handler,    \* ToolEndpointHandler and its emitters
  request,    \* how far each request has come
  emission,   \* how far each emission has come
  lock,       \* for each record, who holds its emitter's lock or waits for it
  wire        \* for each record, what its binding has published

vars == <<handler, request, emission, lock, wire>>

records == handler.records
Ids == 1..MaxRecords
Response == [number |-> 0, phase |-> "response"]

Idle == [stage |-> "idle"]
Replies == Terminal \cup Active
             \cup {"refused", "observed", "capacity", "unavailable", "error"}

\* How far a request, and how far an emission may have come.
RequestStates ==
  [stage : {"idle"}]
    \cup [stage : {"starting", "waiting"}, record : Ids]
    \cup [stage : {"status", "result"}, key : Keys]
    \cup [stage : {"confirm"}, key : Keys, asked : {"status", "result"},
          phase : Terminal]
    \cup [stage : {"responding"}, record : Ids, reply : Replies,
          early : Seq(Event)]
    \cup [stage : {"closing", "done"}, record : Ids \cup {0}, reply : Replies]
    \cup [stage : {"withdrawn", "unsent"}]
EmissionStates ==
  [stage : {"idle"}]
    \cup [stage : {"enter", "establish", "clear", "number", "publish",
                   "done", "refused", "lost"},
          record : Ids, event : Event]

TypeOK ==
  /\ records \in Seq(Record) /\ Len(records) <= MaxRecords
  /\ Range(handler.table) \subseteq DOMAIN records
  /\ handler.active \in 0..MaxConcurrency
  /\ request \in [Requests -> RequestStates]
  /\ emission \in [Emissions -> EmissionStates]
  /\ lock \in [Ids -> Seq(Requests \cup Emissions)]
  /\ wire \in [Ids -> Seq(Event \cup {Response})]

Init ==
  /\ handler = NewHandler
  /\ request = [t \in Requests |-> Idle]
  /\ emission = [e \in Emissions |-> Idle]
  /\ lock = [i \in Ids |-> <<>>]
  /\ wire = [i \in Ids |-> <<>>]

\* Bound of the model: a step makes at most one record.
CanMake == Len(records) < MaxRecords

Goes(t, to) == request' = [request EXCEPT ![t] = to]
Replied(i, reply) == [stage |-> "done", record |-> i, reply |-> reply]

-----------------------------------------------------------------------------
(* Invocations: _handle_start_invoke within dispatch_input.                *)

\* The execution is started, is a duplicate, is known to the provider only,
\* or is turned away.
Invoke(t, key) ==
  /\ request[t] = Idle /\ CanMake
  /\ LET found == Found(handler, key)
     IN \/ /\ found = {} /\ AtCapacity(handler)
           /\ Goes(t, Replied(0, "capacity"))
           /\ UNCHANGED handler
        \/ /\ found = {} /\ ~AtCapacity(handler)
           /\ handler' = Admit(handler, key)
           /\ Goes(t, [stage |-> "starting", record |-> Len(records) + 1])
        \/ \E i \in found :
             /\ handler' = Touch(handler, i)
             /\ Goes(t, IF Duplicate(records[i])
                        THEN [stage |-> "waiting", record |-> i]
                        ELSE Replied(i, "observed"))
  /\ UNCHANGED <<emission, lock, wire>>

\* await record.ready.wait(), at the latest when the loop comes to it.
Wake(t) ==
  /\ request[t].stage = "waiting" /\ records[request[t].record].ready
  /\ Goes(t, Replied(request[t].record,
                     records[request[t].record].outcome))
  /\ UNCHANGED <<handler, emission, lock, wire>>

\* endpoint.start returned, raised a ToolEndpointError, or raised another
\* exception.  In each case the response is to be published, in the first the
\* events buffered so far as well.
Started(t) ==
  /\ request[t].stage = "starting"
  /\ LET i == request[t].record
         Respond(early) ==
           Goes(t, [stage |-> "responding", record |-> i, early |-> early,
                    reply |-> handler'.records[i].outcome])
     IN \/ handler' = Accepted(handler, i) /\ Respond(records[i].buffer)
        \/ handler' = StartRefused(handler, i) /\ Respond(<<>>)
        \/ handler' = FinishUnknown(handler, i) /\ Respond(<<>>)
  /\ UNCHANGED <<emission, lock, wire>>

\* The dispatching task is cancelled while start runs: nothing is published.
Cancelled(t) ==
  /\ request[t].stage = "starting"
  /\ handler' = FinishUnknown(handler, request[t].record)
  /\ Goes(t, [stage |-> "withdrawn"])
  /\ UNCHANGED <<emission, lock, wire>>

\* What is left to publish for request t; it gives up at the first failure.
Publish(t, message, sent, rest) ==
  LET i == request[t].record
  IN /\ wire' = IF sent THEN [wire EXCEPT ![i] = Append(@, message)] ELSE wire
     /\ Goes(t, CASE ~sent -> [stage |-> "unsent"]
                  [] sent /\ rest # <<>> -> [request[t] EXCEPT !.early = rest]
                  [] sent /\ rest = <<>> -> Replied(i, request[t].reply))

\* dispatch_input publishes the response, then the buffered events, under the
\* publication lock.  The barrier opens with the response, or fails with it.
PublishResponse(t, sent) ==
  /\ request[t].stage = "responding"
  /\ LET i == request[t].record
     IN /\ records[i].barrier = "shut"
        /\ handler' = [handler EXCEPT !.records[i].barrier =
                         IF sent THEN "open" ELSE "failed"]
        /\ Publish(t, Response, sent, request[t].early)
  /\ UNCHANGED <<emission, lock>>

PublishEarly(t, sent) ==
  /\ request[t].stage = "responding"
  /\ records[request[t].record].barrier = "open"
  /\ Publish(t, Head(request[t].early), sent, Tail(request[t].early))
  /\ UNCHANGED <<handler, emission, lock>>

\* Mutation: the barrier alone keeps late events behind the early ones.
NeverLocked(i) == FALSE

\* publish_lock, as a late event finds it.
PublicationLocked(i) ==
  \E t \in Requests :
    request[t].stage = "responding" /\ request[t].record = i

-----------------------------------------------------------------------------
(* Status and result requests.                                             *)

\* A terminal outcome was recorded: the emitter is closed under its lock,
\* which may be held by an event that is being published.
CloseTerminal(t, i, reply) ==
  IF lock[i] # <<>>
  THEN /\ Goes(t, [stage |-> "closing", record |-> i, reply |-> reply])
       /\ lock' = [lock EXCEPT ![i] = Append(@, t)]
  ELSE Goes(t, Replied(i, reply)) /\ UNCHANGED lock

Conclude(t, phase, result, reply) ==
  LET recorded == RecordTerminal(handler, request[t].key, phase, result)
      i == Last(recorded.h.table)
  IN IF recorded.done
     THEN /\ handler' = IF lock[i] = <<>>
                        THEN [recorded.h EXCEPT !.records[i].closed = TRUE]
                        ELSE recorded.h
          /\ CloseTerminal(t, i, reply)
     ELSE /\ handler' = recorded.h
          /\ Goes(t, Replied(0, "error")) /\ UNCHANGED lock

\* _handle_status, up to the provider's callback
AskStatus(t, key) ==
  /\ request[t] = Idle
  /\ LET told == {i \in Found(handler, key) : records[i].status \in Terminal}
     IN Goes(t, IF told = {} THEN [stage |-> "status", key |-> key]
                ELSE Replied(The(told), records[The(told)].status))
  /\ UNCHANGED <<handler, emission, lock, wire>>

\* ... which returns, or raises; a terminal phase needs its result as well.
StatusReturns(t) ==
  /\ request[t].stage = "status" /\ CanMake
  /\ \/ \E phase \in Told \cap Active :
          LET recorded == RecordStatus(handler, request[t].key, phase)
          IN /\ handler' = recorded.h
             /\ Goes(t, IF recorded.done
                        THEN Replied(Last(recorded.h.table), phase)
                        ELSE Replied(0, "error"))
     \/ /\ \/ Goes(t, Replied(0, "error"))
           \/ \E phase \in Told \cap Terminal :
                Goes(t, [stage |-> "confirm", key |-> request[t].key,
                         asked |-> "status", phase |-> phase])
        /\ UNCHANGED handler
  /\ UNCHANGED <<emission, lock, wire>>

\* _handle_result, likewise.
AskResult(t, key) ==
  /\ request[t] = Idle
  /\ LET told == {i \in Found(handler, key) : records[i].result # None}
     IN Goes(t, IF told = {} THEN [stage |-> "result", key |-> key]
                ELSE Replied(The(told), records[The(told)].result))
  /\ UNCHANGED <<handler, emission, lock, wire>>

ResultReturns(t) ==
  /\ request[t].stage = "result"
  /\ \/ \E reply \in {"unavailable", "error"} :
          Goes(t, Replied(0, reply))
     \/ \E phase \in Told \cap Terminal :
          Goes(t, [stage |-> "confirm", key |-> request[t].key,
                   asked |-> "result", phase |-> phase])
  /\ UNCHANGED <<handler, emission, lock, wire>>

\* The second callback: result after a terminal status, status after a result.
\* Its answer need not fit what the record came to hold in the meantime.
Confirm(t) ==
  /\ request[t].stage = "confirm" /\ CanMake
  /\ \/ /\ Goes(t, Replied(0, "error")) /\ UNCHANGED <<handler, lock>>
     \/ \E other \in Told :
          LET first == request[t].phase
          IN IF request[t].asked = "status"
             THEN Conclude(t, first, other, first)
             ELSE Conclude(t, other, first, first)
  /\ UNCHANGED <<emission, wire>>

\* close_terminal, once it is this task's turn.
Close(t) ==
  /\ request[t].stage = "closing"
  /\ LET i == request[t].record
     IN /\ Head(lock[i]) = t
        /\ lock' = [lock EXCEPT ![i] = Tail(@)]
        /\ handler' = [handler EXCEPT !.records[i].closed = TRUE]
  /\ Goes(t, [request[t] EXCEPT !.stage = "done"])
  /\ UNCHANGED <<emission, wire>>
-----------------------------------------------------------------------------
(* Events: _ActionEventEmitter.emit.  Its lock is taken twice, and in the  *)
(* order in which it was asked for; a task that gets it at once goes on    *)
(* without a pause.  The operators say what emission e does to handler h   *)
(* when it has the lock of record i, queue being those who wait behind it. *)

\* Emission e of this event goes on with h, leaving this queue for the lock.
Proceed(h, e, i, event, stage, queue) ==
  /\ handler' = h
  /\ emission' = [emission EXCEPT
                    ![e] = [stage |-> stage, record |-> i, event |-> event]]
  /\ lock' = [lock EXCEPT ![i] = queue]

\* An emission that failed allows terminal events again.
Clear(h, e, i, event, queue) ==
  Proceed([h EXCEPT !.records[i].pending = FALSE], e, i, event,
          "refused", queue)

\* The second section: the event gets its number; before acceptance it is
\* buffered, after it the lock is kept until the event is published.
Number(h, e, i, event, queue) ==
  LET record == h.records[i]
      ends == event.phase # Progress
      next == [event EXCEPT !.number = record.next]
      numbered == [record EXCEPT !.next = @ + 1, !.closed = @ \/ ends,
                                 !.pending = @ /\ ~ends]
      Keep(new) == [h EXCEPT !.records[i] = new]
  IN CASE record.accepted ->
            Proceed(Keep(numbered), e, i, next, "publish", <<e>> \o queue)
       [] ~record.accepted /\ Len(record.buffer) < MaxEarly ->
            Proceed(Keep([numbered EXCEPT !.buffer = Append(@, next)]),
                    e, i, next, "done", queue)
       [] ~record.accepted /\ Len(record.buffer) >= MaxEarly ->
            Clear(h, e, i, event, queue)

\* Number at once, or when those ahead are done.
ThenNumber(h, e, i, event, queue) ==
  IF queue = <<>> THEN Number(h, e, i, event, queue)
  ELSE Proceed(h, e, i, event, "number", Append(queue, e))

\* The first section: nothing may be emitted once a terminal event was, or
\* while one is being established.
MayEnter(record) == ~record.closed /\ ~record.pending

Enter(e, i, event, queue) ==
  IF ~MayEnter(records[i])
  THEN Proceed(handler, e, i, event, "refused", queue)
  ELSE IF event.phase = Progress
  THEN ThenNumber(handler, e, i, event, queue)
  ELSE Proceed([handler EXCEPT !.records[i].pending = TRUE], e, i, event,
               "establish", queue)

\* The provider emits, through the emitter that start was given.
Emit(e, i, phase) ==
  /\ emission[e] = Idle /\ records[i].started
  /\ LET event == [number |-> 0, phase |-> phase]
     IN IF lock[i] = <<>> THEN Enter(e, i, event, <<>>)
        ELSE Proceed(handler, e, i, event, "enter", Append(lock[i], e))
  /\ UNCHANGED <<request, wire>>

\* It is this emission's turn.
Resume(e) ==
  /\ emission[e].stage \in {"enter", "number", "clear"}
  /\ LET i == emission[e].record
         event == emission[e].event
         rest == Tail(lock[i])
     IN /\ Head(lock[i]) = e
        /\ CASE emission[e].stage = "enter" -> Enter(e, i, event, rest)
             [] emission[e].stage = "number" ->
                  Number(handler, e, i, event, rest)
             [] emission[e].stage = "clear" ->
                  Clear(handler, e, i, event, rest)
  /\ UNCHANGED <<request, wire>>

\* _establish_terminal_from_event, when endpoint.result fails or has no
\* result: the emission fails.  Otherwise the result is recorded, with the
\* record that has the key by now; it need not be the emitter's own.
Establish(e) ==
  /\ emission[e].stage = "establish"
  /\ LET i == emission[e].record
         event == emission[e].event
         key == records[i].key
         Fail(h) == IF lock[i] = <<>> THEN Clear(h, e, i, event, <<>>)
                    ELSE Proceed(h, e, i, event, "clear", Append(lock[i], e))
     IN \/ Fail(handler)
        \/ /\ Found(handler, key) # {}
           /\ \E result \in Told \cap Terminal :
                LET recorded == RecordTerminal(handler, key, event.phase, result)
                IN IF recorded.done
                   THEN ThenNumber(recorded.h, e, i, event, lock[i])
                   ELSE Fail(recorded.h)
  /\ UNCHANGED <<request, wire>>

\* The sink of an accepted event: it waits behind the response and the early
\* events, and fails if the response did or if its own publication does.
PublishLate(e, sent) ==
  /\ emission[e].stage = "publish"
  /\ LET i == emission[e].record
     IN /\ records[i].barrier \in IF sent THEN {"open"} ELSE {"open", "failed"}
        /\ ~PublicationLocked(i)
        /\ wire' = IF sent THEN [wire EXCEPT ![i] = Append(@, emission[e].event)]
                   ELSE wire
        /\ lock' = [lock EXCEPT ![i] = Tail(@)]
        /\ emission' = [emission EXCEPT
                          ![e].stage = IF sent THEN "done" ELSE "lost"]
  /\ UNCHANGED <<handler, request>>

-----------------------------------------------------------------------------
RequestStep(t) ==
  \/ Wake(t) \/ Started(t) \/ Cancelled(t) \/ Close(t)
  \/ \E sent \in BOOLEAN : PublishResponse(t, sent) \/ PublishEarly(t, sent)
  \/ StatusReturns(t) \/ ResultReturns(t) \/ Confirm(t)

EmissionStep(e) ==
  Resume(e) \/ Establish(e) \/ \E sent \in BOOLEAN : PublishLate(e, sent)

Next ==
  \/ \E t \in Requests, key \in Keys :
       Invoke(t, key) \/ AskStatus(t, key) \/ AskResult(t, key)
  \/ \E t \in Requests : RequestStep(t)
  \/ \E e \in Emissions, i \in DOMAIN records,
        phase \in (Told \cap EventPhases) \cup {Progress} : Emit(e, i, phase)
  \/ \E e \in Emissions : EmissionStep(e)

\* The provider's callbacks and the sink return at some time, and the event
\* loop runs every task that may go on.
Fairness ==
  /\ \A t \in Requests : WF_vars(RequestStep(t))
  /\ \A e \in Emissions : WF_vars(EmissionStep(e))

Spec == Init /\ [][Next]_vars
FairSpec == Spec /\ Fairness

-----------------------------------------------------------------------------
(* Properties.                                                             *)

\* The operation's count of permits is the number of executions that hold
\* one, never above max_concurrency; no more records are retained than
\* allowed, at most one of them for an execution, and none is evicted while
\* its execution may be running or its outcome is awaited.
AdmissionHolds ==
  LET holders == {i \in DOMAIN records : records[i].permit}
  IN /\ handler.active = Cardinality(holders)
     /\ handler.active <= MaxConcurrency
     /\ Len(handler.table) <= MaxRetained
     /\ \A key \in Keys : Cardinality(Found(handler, key)) <= 1
     /\ \A i \in DOMAIN records :
          records[i].started /\ (records[i].permit \/ ~records[i].ready)
            => i \in Range(handler.table)

\* A task failed to publish; it may have been any message of its execution.
PublicationFailed ==
  \/ \E t \in Requests : request[t].stage = "unsent"
  \/ \E e \in Emissions : emission[e].stage = "lost"

\* What the binding of one execution publishes is its response, then its
\* events in the order of their numbers, and nothing after a terminal event;
\* no number is left out unless a publication failed.
EventsInOrder ==
  \A i \in DOMAIN records :
    LET out == wire[i]
    IN /\ out # <<>> => out[1] = Response
       /\ \A n \in 2..Len(out) :
            /\ out[n] # Response
            /\ n > 2 => out[n].number > out[n - 1].number
            /\ n < Len(out) => out[n].phase = Progress
            /\ PublicationFailed \/ out[n].number = n - 2

\* All that clients are told of one execution agrees: replies that give its
\* terminal phase or its result and the outcome of its invoke never name two
\* different ends, and while its record is retained, neither does a terminal
\* event.  The emitter of an evicted one asks the record that has the key by
\* then, or none, and may publish another end of a provider that contradicts
\* itself.
RepliesOf(i) ==
  {request[t].reply : t \in {u \in Requests :
      request[u].stage = "done" /\ request[u].record = i}}
EndsNamed(i) ==
  RepliesOf(i) \cup IF i \in Range(handler.table)
                    THEN {wire[i][n].phase : n \in DOMAIN wire[i]} ELSE {}
AnswersAgree ==
  \A i \in DOMAIN records :
    \A end1, end2 \in EndsNamed(i) \cap Terminal : end1 = end2

\* Every request and every emission is over at some time, the duplicates of an
\* invoke whose task was cancelled included: the lock of an emitter, the
\* publication barrier and the wait for an outcome never wait in a ring.
Over == {"done", "withdrawn", "unsent", "refused", "lost"}
Outstanding ==
  {t \in Requests : request[t] # Idle /\ request[t].stage \notin Over}
    \cup {e \in Emissions : emission[e] # Idle /\ emission[e].stage \notin Over}
EveryCallReturns == Outstanding # {} ~> Outstanding = {}
=============================================================================
