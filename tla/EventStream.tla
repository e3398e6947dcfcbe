------------------------------ MODULE EventStream ------------------------------
(***************************************************************************)
(* GET /invocations/{id}/events                                            *)
(* (src/forge_gateway/controllers/tool_controller.py): the generator that  *)
(* streams the events of an invocation to an HTTP client, on the server's  *)
(* thread, while the lifecycle thread changes the invocation.  Each call   *)
(* into the store takes its lock anew.                                     *)
(*                                                                         *)
(* Event numbers are sequence; a cursor is the number wanted next, one     *)
(* more than the client's Last-Event-ID, and 0 without one.                *)
(***************************************************************************)
EXTENDS ActionStore, Sequences

CONSTANTS
  Key,           \* the invocation that is watched
  MaxEvents,     \* bound of the model: events of the provider
  MaxConnects    \* bound of the model: times the client connects

ASSUME StreamAssumption ==
  Key \in Keys /\ MaxEvents \in Nat /\ MaxConnects \in Nat

VARIABLES
  items,      \* ActionInvocationStore, of which the model holds Key alone
  stream,     \* the request: its stage (out, reading, sending, empty, over),
              \* the events it has read and not yet sent, and whether the
              \* outcome was settled first
  cursor,     \* after the last event that the client has
  received,   \* the numbers of the events it was sent, in order
  connects    \* how often it has connected

vars == <<items, stream, cursor, received, connects>>

Retained == Key \in DOMAIN items
Kept == items[Key]

Quiet(stage, settled) == [stage |-> stage, batch |-> {}, settled |-> settled]

Init ==
  /\ \E i \in Instances : items = [k \in {Key} |-> NewItem(i, TRUE)]
  /\ stream = Quiet("out", FALSE)
  /\ cursor = 0 /\ received = <<>> /\ connects = 0

-----------------------------------------------------------------------------
(* The lifecycle thread.                                                   *)

StoreStep == UNCHANGED <<stream, cursor, received, connects>>

\* The provider accepts, ends, is not heard of in time, or is gone.
Change ==
  /\ Retained
  /\ \E item \in {EstablishAccepted(Kept), Conclude(Kept, "completed", TRUE),
                  PassDeadline(Kept), Isolate(Kept)} :
       item # Kept /\ items' = [items EXCEPT ![Key] = item]
  /\ StoreStep

\* It emits.
Emit(terminal) ==
  /\ Retained /\ Kept.next < MaxEvents
  /\ TakesEvent(items, Key, Kept.next)
  /\ items' = [items EXCEPT ![Key] = AppendEvent(@, terminal)]
  /\ StoreStep

\* The retention time passes, or another invocation needs the room.
Lose ==
  /\ Key \in Forgettable(items) /\ items' = Forget(items, {Key})
  /\ StoreStep

-----------------------------------------------------------------------------
(* The request.                                                            *)

Oldest(item) == IF item.next > EventCap THEN item.next - EventCap ELSE 0

\* event_window decides: not found, events lost (410), or the stream opens.
\* A client that learns of a loss goes on from oldest_event_id.
Connect ==
  /\ stream.stage \in {"out", "over"} /\ connects < MaxConnects
  /\ connects' = connects + 1
  /\ IF ~Retained
     THEN stream' = Quiet("over", FALSE) /\ UNCHANGED cursor
     ELSE IF cursor < Oldest(Kept)
     THEN stream' = Quiet("out", FALSE) /\ cursor' = Oldest(Kept)
     ELSE /\ stream' = Quiet("reading", Kept.phase \in Definite)
          /\ UNCHANGED cursor
  /\ UNCHANGED <<items, received>>

RequestStep == UNCHANGED <<items, connects>>

\* events_after
Read ==
  /\ stream.stage = "reading"
  /\ LET events == IF Retained THEN EventsFrom(Kept, cursor) ELSE {}
     IN stream' = IF ~Retained THEN Quiet("over", FALSE)
                  ELSE IF events = {} THEN [stream EXCEPT !.stage = "empty"]
                  ELSE [stream EXCEPT !.stage = "sending", !.batch = events]
  /\ UNCHANGED <<cursor, received>> /\ RequestStep

\* Mutation: the next read starts with the event that was sent last.
From(n) == n

\* sequence = event.sequence, and events_after looks beyond it.
Beyond(n) == n + 1

\* yield, for the first of the events read
Send ==
  /\ stream.stage = "sending"
  /\ \E n \in stream.batch :
       LET rest == stream.batch \ {n}
       IN /\ \A m \in rest : n < m
          /\ cursor' = Beyond(n) /\ received' = Append(received, n)
          /\ stream' = [stream EXCEPT !.batch = rest,
                          !.stage = IF rest = {} THEN "reading" ELSE "sending"]
  /\ RequestStep

\* Mutation: an unknown outcome may still be reconciled.
EndsDefinitely(item) == item.phase \in Definite

Ends(item) == item.phase \in Terminal

\* The snapshot that is taken when there was nothing to send; a keepalive and
\* a pause if the invocation goes on.
LookAtPhase ==
  /\ stream.stage = "empty"
  /\ stream' = IF ~Retained THEN Quiet("over", FALSE)
               ELSE [stream EXCEPT !.stage = IF Ends(Kept) THEN "over"
                                             ELSE "reading"]
  /\ UNCHANGED <<cursor, received>> /\ RequestStep

\* The client goes; what was not sent to it is not lost.
Disconnect ==
  /\ stream.stage \in {"reading", "sending", "empty"}
  /\ stream' = Quiet("out", FALSE)
  /\ UNCHANGED <<cursor, received>> /\ RequestStep

-----------------------------------------------------------------------------
Generate == Read \/ Send \/ LookAtPhase

Next ==
  \/ Change \/ Lose \/ \E terminal \in BOOLEAN : Emit(terminal)
  \/ Connect \/ Disconnect \/ Generate

\* The server goes on with the response.
Spec == Init /\ [][Next]_vars /\ WF_vars(Generate)

-----------------------------------------------------------------------------
(* Properties.                                                             *)

\* A client that comes back with the last event it was sent is never sent one
\* again nor out of order, and the terminal event only with its result.  What
\* it has been taken past without being sent it has left the history: neither a
\* read, nor a reconnect, nor events that were read long before they are sent
\* skip one that is still there.  If the outcome was known when it came, it has
\* all there is when the stream ends; a stream that was open when the outcome
\* came may end without the last events, which appear between its last read and
\* its snapshot.
StreamIsSound ==
  /\ \A m, n \in DOMAIN received : m < n => received[m] < received[n]
  /\ Retained => \A n \in 0..(cursor - 1) : n < Oldest(Kept) \/ n \in Range(received)
  /\ Retained /\ Kept.ended /\ Kept.next - 1 \in Range(received) => Kept.result
  /\ stream.stage = "over" /\ stream.settled /\ Retained /\ Kept.accepted =>
       cursor = Kept.next

\* A stream whose client stays ends once the invocation has: no client waits
\* for events that will not come.
StreamsEnd ==
  Retained /\ Kept.phase \in Terminal /\ stream.stage \in {"reading", "empty"}
    ~> stream.stage \in {"out", "over"}
=============================================================================
