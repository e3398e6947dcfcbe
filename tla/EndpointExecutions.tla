-------------------------- MODULE EndpointExecutions --------------------------
(***************************************************************************)
(* What a provider's ToolEndpointHandler (src/forge_tool/handler.py) keeps *)
(* about executions, and what its lock guards: the records of one Action   *)
(* or Session operation, in the order in which they were last used, the    *)
(* permits they hold, and the event emitter of each started one.  A record *)
(* outlives its eviction for as long as a task still holds it, so records  *)
(* are numbered and the table lists the numbers of those retained.         *)
(*                                                                         *)
(* A status stands for its phase, a result for the phase it concludes      *)
(* (validate_execution_result pairs them one to one).                      *)
(***************************************************************************)
EXTENDS Integers, FiniteSets, Sequences, SequencesExt, Functions

CONSTANTS
  Keys,             \* ToolExecutionKeys
  MaxConcurrency,   \* the operation's max_concurrency
  MaxRetained,      \* max_retained_executions
  MaxEarly          \* max_early_events

ASSUME ExecutionsAssumption ==
  /\ MaxConcurrency \in Nat \ {0}
  /\ MaxRetained \in Nat \ {0}
  /\ MaxEarly \in Nat \ {0}

None == "none"

\* _ALLOWED_PHASE_TRANSITIONS, as an order: a phase may repeat or move on.
Order == [accepted |-> 0, running |-> 1, stopping |-> 2]
Active == DOMAIN Order
Terminal == {"completed", "failed", "cancelled", "stopped", "unknown"}

\* _TERMINAL_EVENT_PHASES; an event of another type is mere progress.
EventPhases == Terminal \ {"unknown"}
Progress == "progress"
Event == [number : Nat, phase : EventPhases \cup {Progress}]

\* _ExecutionRecord, with the state of its emitter (_ActionEventEmitter) and
\* of the binding of the request that started it (DoraToolEndpointBinding).
Record ==
  [key      : Keys,
   started  : BOOLEAN,                          \* invoke_started, and emitter
   permit   : BOOLEAN,                          \* permit_held
   ready    : BOOLEAN,                          \* ready.is_set()
   outcome  : {None, "accepted", "refused"} \cup Terminal,
   status   : {None} \cup Active \cup Terminal,
   result   : {None} \cup Terminal,
   next     : Nat,                              \* _sequence
   buffer   : Seq(Event),                       \* _buffer
   accepted : BOOLEAN,                          \* _accepted
   closed   : BOOLEAN,                          \* _closed
   pending  : BOOLEAN,                          \* _terminal_pending
   barrier  : {"shut", "open", "failed"}]       \* publish_ready, _failure

NewRecord(key, started) ==
  [key |-> key, started |-> started, permit |-> started, ready |-> FALSE,
   outcome |-> None, status |-> None, result |-> None, next |-> 0,
   buffer |-> <<>>, accepted |-> FALSE, closed |-> FALSE, pending |-> FALSE,
   barrier |-> "shut"]

\* ToolEndpointHandler: every record made, the retained ones least recently
\* used first, and the operation's count of permits.
NewHandler == [records |-> <<>>, table |-> <<>>, active |-> 0]

-----------------------------------------------------------------------------
(* The table.                                                              *)

\* _executions.get(key): the number of the record retained, or none.
Found(h, key) == {i \in Range(h.table) : h.records[i].key = key}
The(found) == CHOOSE i \in found : TRUE

\* move_to_end
Touch(h, i) ==
  LET at == CHOOSE n \in DOMAIN h.table : h.table[n] = i
  IN [h EXCEPT !.table = Append(RemoveAt(@, at), i)]

\* Mutation: a record is evicted although its start has not returned yet.
Unpermitted(h, i) == ~h.records[i].permit

\* What _evict_one_locked may take.
Evictable(h, i) ==
  LET record == h.records[i]
  IN ~record.permit /\ (~record.started \/ record.ready)

\* _make_room_locked: no insertion leaves more than MaxRetained, so there is
\* at most one to evict, the one used least recently.
HasRoom(h) ==
  Len(h.table) < MaxRetained \/ \E i \in Range(h.table) : Evictable(h, i)
MakeRoom(h) ==
  IF Len(h.table) < MaxRetained THEN h
  ELSE LET at == CHOOSE n \in DOMAIN h.table :
                   /\ Evictable(h, h.table[n])
                   /\ \A m \in 1..(n - 1) : ~Evictable(h, h.table[m])
       IN [h EXCEPT !.table = RemoveAt(@, at)]

Insert(h, record) ==
  LET room == MakeRoom(h)
  IN [records |-> Append(room.records, record),
      table |-> Append(room.table, Len(room.records) + 1),
      active |-> room.active + IF record.permit THEN 1 ELSE 0]

\* Mutation: the count goes down whenever a release is asked for.
ReleaseAgain(h, i) ==
  [h EXCEPT !.records[i].permit = FALSE, !.active = @ - 1]

\* _release_permit_locked
Release(h, i) ==
  IF h.records[i].permit
  THEN [h EXCEPT !.records[i].permit = FALSE, !.active = @ - 1] ELSE h

-----------------------------------------------------------------------------
(* What the provider is observed to say.                                   *)

\* _observation_record_locked, when there is a record or room for one: the
\* record observed is then the last of the table.
CanObserve(h, key) == Found(h, key) # {} \/ HasRoom(h)
Observe(h, key) ==
  IF Found(h, key) # {} THEN Touch(h, The(Found(h, key)))
  ELSE Insert(h, NewRecord(key, FALSE))

\* _validate_phase_transition
MayFollow(before, phase) ==
  \/ before = None
  \/ before \in Terminal /\ phase = before
  \/ before \in Active /\ phase \in Terminal
  \/ before \in Active /\ phase \in Active /\ Order[phase] >= Order[before]

\* An attempt to record says whether it was carried out; one that is refused
\* for what the record holds has moved it to the end of the table all the same.
Refused(h) == [done |-> FALSE, h |-> h]

\* _record_status, with a phase that is not terminal.
RecordStatus(h, key, phase) ==
  IF ~CanObserve(h, key) THEN Refused(h)
  ELSE LET seen == Observe(h, key)
           i == Last(seen.table)
       IN IF MayFollow(seen.records[i].status, phase)
          THEN [done |-> TRUE, h |-> [seen EXCEPT !.records[i].status = phase]]
          ELSE Refused(seen)

\* _record_terminal up to the closing of the emitter, which the caller does.
\* A record that no invoke started takes the result for its outcome.
RecordTerminal(h, key, phase, result) ==
  IF phase \notin Terminal \/ phase # result \/ ~CanObserve(h, key)
  THEN Refused(h)
  ELSE LET seen == Observe(h, key)
           i == Last(seen.table)
           record == seen.records[i]
           told == IF record.started THEN record
                   ELSE [record EXCEPT !.outcome = result, !.ready = TRUE]
       IN IF MayFollow(record.status, phase) /\ record.result \in {None, result}
          THEN [done |-> TRUE,
                h |-> Release([seen EXCEPT !.records[i] =
                        [told EXCEPT !.status = phase, !.result = result]], i)]
          ELSE Refused(seen)

-----------------------------------------------------------------------------
(* Invoking.                                                               *)

\* _handle_start_invoke, what it finds under the lock: the first request of an
\* execution starts it, unless the operation or the table is full.
Duplicate(record) == record.started \/ record.outcome # None
AtCapacity(h) == h.active >= MaxConcurrency \/ ~HasRoom(h)

Admit(h, key) == Insert(h, NewRecord(key, TRUE))

\* start returned: what was recorded while it ran takes precedence, and the
\* emitter accepts, which empties its buffer.
Accepted(h, i) ==
  LET record == h.records[i]
  IN [h EXCEPT !.records[i] =
       [record EXCEPT !.ready = TRUE, !.accepted = TRUE, !.buffer = <<>>,
          !.outcome = IF record.result # None THEN record.result
                      ELSE "accepted",
          !.status = IF record.result = None /\ @ = None THEN "accepted"
                     ELSE @]]

\* _ActionEventEmitter.reject
Rejected(record) == [record EXCEPT !.closed = TRUE, !.buffer = <<>>]

\* start raised a ToolEndpointError.
StartRefused(h, i) ==
  LET record == Rejected(h.records[i])
      known == record.result # None
      over == [h EXCEPT !.records[i] =
                [record EXCEPT !.ready = TRUE,
                   !.outcome = IF known THEN record.result ELSE "refused"]]
  IN IF known THEN over ELSE Release(over, i)

\* Mutation: the execution is given up without regard to a result that was
\* recorded while it started.
FinishRegardless(h, i) ==
  Release([h EXCEPT !.records[i] =
    [Rejected(h.records[i]) EXCEPT !.outcome = "unknown", !.status = "unknown",
       !.result = "unknown", !.ready = TRUE]], i)

\* Mutation: those that wait for the outcome are not woken.
FinishSilently(h, i) ==
  Release([h EXCEPT !.records[i] =
    [Rejected(h.records[i]) EXCEPT !.outcome = "unknown", !.status = "unknown",
       !.result = "unknown"]], i)

\* _finish_unknown: start raised anything else, or was cancelled.
FinishUnknown(h, i) ==
  LET record == Rejected(h.records[i])
  IN IF record.result # None
     THEN [h EXCEPT !.records[i] =
            [record EXCEPT !.outcome = record.result, !.ready = TRUE]]
     ELSE Release([h EXCEPT !.records[i] =
            [record EXCEPT !.outcome = "unknown", !.status = "unknown",
               !.result = "unknown", !.ready = TRUE]], i)

=============================================================================
