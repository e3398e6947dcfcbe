----------------------------- MODULE ActionStore -----------------------------
(***************************************************************************)
(* ActionInvocationStore (src/forge_gateway/domain/action_invocations.py)  *)
(* as operators on its table of retained invocations, a function from      *)
(* execution keys.  All the invocations of the model are of one operation. *)
(*                                                                         *)
(* The event history is the pair next, ended.  Provider sequence numbers   *)
(* are accepted only in order and the store numbers events in the same     *)
(* step, so the retained events are the last EventCap below next, and the  *)
(* last of them is the terminal one iff ended.                             *)
(***************************************************************************)
EXTENDS Naturals, FiniteSets, Functions

CONSTANTS
  Keys,            \* ToolExecutionKeys
  Instances,       \* endpoint instance identities
  Commands,        \* control commands: "cancel", "stop"
  StoreCapacity,   \* capacity
  EventCap,        \* event_capacity
  MaxConcurrency   \* the operation's max_concurrency

ASSUME StoreAssumption ==
  /\ StoreCapacity \in Nat \ {0}
  /\ EventCap \in Nat \ {0}
  /\ MaxConcurrency \in Nat \ {0}
  /\ Commands \subseteq {"cancel", "stop"}

\* _NONTERMINAL_ORDER and TERMINAL_PHASES.
Order == [dispatching |-> 0, accepted |-> 1, running |-> 2, stopping |-> 3]
Nonterminal == DOMAIN Order
Terminal == {"completed", "failed", "cancelled", "stopped", "unknown"}
Definite == Terminal \ {"unknown"}

\* cancel_status, stop_status: "settled" stands for the provider's accepted,
\* terminal and unsupported, which the gateway treats alike.
ControlStatuses == {"none", "requested", "settled", "rejected", "transport_error"}

\* ActionInvocation: what decides the behaviour of the gateway.
Item ==
  [instance : Instances,          \* endpoint_instance_id
   bounded  : BOOLEAN,            \* deadline_ms is not None
   phase    : Nonterminal \cup Terminal,
   result   : BOOLEAN,            \* result is not None
   accepted : BOOLEAN,            \* accepted_established
   fence    : BOOLEAN,            \* occupies_concurrency
   hint     : BOOLEAN,            \* terminal_status_hint is not None
   control  : [Commands -> ControlStatuses],
   next     : Nat,                \* next_event_sequence
   ended    : BOOLEAN]            \* terminal_event_seen

NewItem(instance, bounded) ==
  [instance |-> instance, bounded |-> bounded, phase |-> "dispatching",
   result |-> FALSE, accepted |-> FALSE, fence |-> TRUE, hint |-> FALSE,
   control |-> [c \in Commands |-> "none"], next |-> 0, ended |-> FALSE]

\* Applies Change to the item of k, if it is retained.
Update(items, k, Change(_)) ==
  IF k \in DOMAIN items THEN [items EXCEPT ![k] = Change(@)] ELSE items

-----------------------------------------------------------------------------
(* Phases of one item.                                                     *)

\* Mutation: a terminal phase is written over whatever was there.
Close(item, phase, release) ==
  [item EXCEPT !.phase = phase, !.result = TRUE, !.fence = ~release]

\* set_phase to a terminal phase, with its result; only an unknown outcome may
\* still be reconciled.
Conclude(item, phase, release) ==
  IF item.phase \in Definite THEN item ELSE Close(item, phase, release)

\* set_phase to a nonterminal phase, as an observation of the provider.
Observe(item, phase) ==
  IF item.phase \in Nonterminal /\ Order[phase] > Order[item.phase]
  THEN [item EXCEPT !.phase = phase] ELSE item

\* establish_accepted
EstablishAccepted(item) ==
  IF item.phase \in Terminal THEN item
  ELSE [Observe(item, "accepted") EXCEPT !.accepted = TRUE]

\* set_terminal_status_hint
Hint(item) ==
  IF item.phase \in Terminal THEN item ELSE [item EXCEPT !.hint = TRUE]

\* Mutation: the fence goes with the deadline.
Overdue(item) ==
  IF item.phase \in Terminal THEN item ELSE Close(item, "unknown", TRUE)

\* mark_deadlines_ambiguous for one item: the provider may still execute.
PassDeadline(item) ==
  IF item.phase \in Terminal THEN item ELSE Close(item, "unknown", FALSE)

\* Mutation: an outcome already known is made ambiguous.
Forsake(item) == Close(item, "unknown", TRUE)

\* mark_instance_ambiguous for one item: the instance has been isolated.
Isolate(item) ==
  IF item.phase \in Terminal THEN [item EXCEPT !.fence = FALSE]
  ELSE Close(item, "unknown", TRUE)

-----------------------------------------------------------------------------
(* Events.                                                                 *)

\* append_event accepts the provider's event number n for k.
TakesEvent(items, k, n) ==
  /\ k \in DOMAIN items
  /\ items[k].phase \notin Definite
  /\ ~items[k].ended
  /\ n = items[k].next

\* append_event: the terminal event of an unknown execution ends its fence.
AppendEvent(item, terminal) ==
  [item EXCEPT !.next = @ + 1,
               !.ended = terminal,
               !.fence = @ /\ ~(terminal /\ item.phase = "unknown")]

\* The numbers of the retained events from cursor on.
Window(item, cursor) ==
  {n \in cursor..item.next : n < item.next /\ item.next <= n + EventCap}

\* events_after: nothing before acceptance, nothing terminal before the result.
EventsFrom(item, cursor) ==
  {n \in Window(item, cursor) :
     /\ item.accepted
     /\ ~(item.ended /\ n + 1 = item.next) \/ item.result}

-----------------------------------------------------------------------------
(* Retention and admission.                                                *)

Fenced(items) == {k \in DOMAIN items : items[k].fence}

\* What _purge_locked may forget once retention_seconds have passed, and
\* _make_total_capacity_locked at once.
Forgettable(items) ==
  {k \in DOMAIN items : items[k].phase \in Terminal /\ ~items[k].fence}

Forget(items, gone) == Restrict(items, DOMAIN items \ gone)

IsFull(items) == Cardinality(DOMAIN items) >= StoreCapacity

\* _make_total_capacity_locked: the sets it may evict.  It takes the item whose
\* terminal phase is oldest; ages are not modelled, so any of them here.
Victims(items) ==
  IF IsFull(items) /\ Forgettable(items) # {}
  THEN {{k} : k \in Forgettable(items)} ELSE {{}}

\* Mutation: only the total is bounded.
IsFullOrHas(items, k) == k \in DOMAIN items \/ IsFull(items)

\* create refuses a duplicate, or for lack of room, or of concurrency.
Refuses(items, k) ==
  IsFullOrHas(items, k) \/ Cardinality(Fenced(items)) >= MaxConcurrency

Add(items, k, item) ==
  [j \in DOMAIN items \cup {k} |-> IF j = k THEN item ELSE items[j]]
=============================================================================
