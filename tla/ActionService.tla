---------------------------- MODULE ActionService ----------------------------
(***************************************************************************)
(* The Action half of ToolGatewayService                                   *)
(* (src/forge_gateway/services/tool_gateway_service.py) as operators on    *)
(* the state that its one lock guards.  An operator takes that state, s,   *)
(* and returns what the corresponding method leaves of it; ActionGateway   *)
(* says which threads call them and when.                                  *)
(*                                                                         *)
(* Time is not counted.  Whether a lease has run out at the instant a      *)
(* method reads the clock is its parameter lapse; which deadlines have     *)
(* passed is a parameter of a response and of a sweep.  The directory is   *)
(* reduced to the instance registered for the one endpoint (see Leases).   *)
(* An exchange is named by the ordinal of its creation, for the fresh      *)
(* provider request id the code draws.                                     *)
(***************************************************************************)
EXTENDS ActionStore, Sequences, SequencesExt

CONSTANTS
  HttpKeys,      \* executions invoked over HTTP, whose keys the gateway draws
  DoraKeys,      \* executions invoked by public Dora callers
  Supports,      \* the commands the operation supports
  Forgets,       \* whether retention_seconds may pass in a behaviour
  Capacity,      \* outbound_capacity
  MaxExchanges   \* bound of the model: exchanges created in a behaviour

Exchanges == 1..MaxExchanges
Nobody == "no instance"

ASSUME ServiceAssumption ==
  /\ Capacity \in Nat \ {0}
  /\ MaxExchanges \in Nat
  /\ Keys = HttpKeys \cup DoraKeys
  /\ HttpKeys \cap DoraKeys = {}
  /\ Supports \subseteq Commands
  /\ Forgets \in BOOLEAN
  /\ Nobody \notin Instances

\* A control sent for an HTTP client has another purpose than a Dora caller's.
ControlOf(c) == IF c = "cancel" THEN "control:cancel" ELSE "control:stop"
Lookups == {"status", "result"}
Purposes == {"invoke"} \cup Lookups \cup Commands \cup {ControlOf(c) : c \in Commands}

\* _ActionExchange; caller: a Dora caller's reply slot is reserved.
Exchange == [key : Keys, instance : Instances, purpose : Purposes,
             caller : BOOLEAN, claimed : BOOLEAN]

\* ToolOutboundMessage: requests to providers, replies and events to Dora
\* callers, acknowledgements of registry mutations.
Messages ==
  [kind : {"request"}, id : Exchanges, key : Keys, purpose : Purposes]
    \cup [kind : {"reply"}, key : Keys]
    \cup [kind : {"event"}, key : DoraKeys, number : Nat, terminal : BOOLEAN]
    \cup [kind : {"registry"}]

Request(x, k, purpose) ==
  [kind |-> "request", id |-> x, key |-> k, purpose |-> purpose]
Reply(k) == [kind |-> "reply", key |-> k]
Event(k, n, terminal) ==
  [kind |-> "event", key |-> k, number |-> n, terminal |-> terminal]
RegistryResponse == [kind |-> "registry"]

IsService(s) ==
  /\ s = [accepting |-> s.accepting, current |-> s.current, items |-> s.items,
          exchanges |-> s.exchanges, outbound |-> s.outbound,
          reserved |-> s.reserved, cursors |-> s.cursors,
          drawn |-> s.drawn, isolated |-> s.isolated]
  /\ s.accepting \in BOOLEAN                      \* _accepting
  /\ s.current \in Instances \cup {Nobody}        \* _directory
  /\ DOMAIN s.items \subseteq Keys                \* action_invocations
  /\ s.items \in [DOMAIN s.items -> Item]
  /\ DOMAIN s.exchanges \subseteq 1..s.drawn      \* _action_exchanges
  /\ s.exchanges \in [DOMAIN s.exchanges -> Exchange]
  /\ s.outbound \in Seq(Messages)                 \* _outbound
  /\ s.reserved \in Nat                           \* _reserved_outbound_slots
  /\ DOMAIN s.cursors \subseteq DoraKeys          \* _dora_action_event_cursors
  /\ s.cursors \in [DOMAIN s.cursors -> Nat]      \* (the next event to queue)
  /\ s.drawn \in 0..MaxExchanges
  /\ s.isolated \subseteq Keys   \* history: executions whose instance has gone

NewService ==
  [accepting |-> TRUE, current |-> Nobody, items |-> <<>>, exchanges |-> <<>>,
   outbound |-> <<>>, reserved |-> 0, cursors |-> <<>>, drawn |-> 0,
   isolated |-> {}]

-----------------------------------------------------------------------------
(* The bounded outbound mailbox.                                           *)

\* _reserve_outbound_slots_locked: how many slots it could still give.
Room(s) == Capacity - (Len(s.outbound) + s.reserved)
HasRoom(s, count) == Len(s.outbound) + s.reserved + count <= Capacity

\* Mutation (of Reserve): nothing is reserved.
Presume(s) == s

Reserve(s) == [s EXCEPT !.reserved = @ + 1]

\* _append_reserved_outbound_locked: messages take the place of reservations.
Post(s, messages) ==
  [s EXCEPT !.reserved = @ - Len(messages), !.outbound = @ \o messages]

\* _respond_logical_action_error_locked; the caller is dropped, unanswered,
\* when there is no room for the answer.
Answer(s, k) == IF HasRoom(s, 1) THEN Post(Reserve(s), <<Reply(k)>>) ELSE s

-----------------------------------------------------------------------------
(* Exchanges.                                                              *)

\* Mutation (of IsPending): a lookup that is still queued is not noticed.
IsClaimed(s, k, purpose) ==
  \E x \in DOMAIN s.exchanges :
    /\ s.exchanges[x].key = k /\ s.exchanges[x].purpose = purpose
    /\ s.exchanges[x].claimed

IsPending(s, k, purpose) ==
  \E x \in DOMAIN s.exchanges :
    s.exchanges[x].key = k /\ s.exchanges[x].purpose = purpose

CanExchange(s) == Cardinality(DOMAIN s.exchanges) < Capacity

\* _queue_action_exchange_locked, in slots reserved for it; a Dora caller's
\* slot stays reserved for the answer.
QueueExchange(s, k, purpose, caller) ==
  LET x == s.drawn + 1
      exchange == [key |-> k, instance |-> s.items[k].instance,
                   purpose |-> purpose, caller |-> caller, claimed |-> FALSE]
  IN [Post(s, <<Request(x, k, purpose)>>) EXCEPT
        !.exchanges = [y \in DOMAIN s.exchanges \cup {x} |->
                         IF y = x THEN exchange ELSE s.exchanges[y]],
        !.drawn = x]

\* What a failed exchange does to its item: an invoke that may have been sent
\* has an unknown outcome and keeps the fence; one that was not has failed.
\* Mutation (of Failed): the failure is certain, whoever has the request.
FailedSurely(item, exchange) ==
  CASE exchange.purpose = "invoke" -> Conclude(item, "failed", TRUE)
    [] exchange.purpose = "control:cancel" ->
         [item EXCEPT !.control["cancel"] = "transport_error"]
    [] OTHER -> item

Failed(item, exchange) ==
  IF exchange.purpose = "invoke" /\ exchange.claimed
  THEN Conclude(item, "unknown", FALSE)
  ELSE FailedSurely(item, exchange)

\* Mutation (of Drop): the reply slots are forgotten.
DropSilently(s, X) == [s EXCEPT !.exchanges = Restrict(@, DOMAIN @ \ X)]

\* The exchanges in X are over and the callers among them get their replies.
Drop(s, X) ==
  LET callers == SetToSeq({x \in X : s.exchanges[x].caller})
  IN Post(DropSilently(s, X),
          [n \in DOMAIN callers |-> Reply(s.exchanges[callers[n]].key)])

\* _finish_action_exchange_error_locked for every exchange in X.  At most two
\* of an item's exchanges change it, in ways that commute.
FinishErrors(s, X) ==
  LET of(k, purpose) ==
        {x \in X : s.exchanges[x].key = k /\ s.exchanges[x].purpose = purpose}
      after(item, found) ==
        IF found = {} THEN item
        ELSE Failed(item, s.exchanges[CHOOSE x \in found : TRUE])
  IN [Drop(s, X) EXCEPT
        !.items = [k \in DOMAIN s.items |->
                     after(after(s.items[k], of(k, "invoke")),
                           of(k, "control:cancel"))]]

\* mark_instance_ambiguous
MarkInstanceAmbiguous(s, instance) ==
  LET affected == {k \in DOMAIN s.items : s.items[k].instance = instance}
  IN [s EXCEPT !.items = [k \in DOMAIN s.items |->
                            IF k \in affected THEN Isolate(s.items[k])
                            ELSE s.items[k]],
               !.isolated = @ \cup affected]

\* Mutation (of FinishRemoved): the exchanges are left to their timeouts.
OnlyMark(s, instance) == MarkInstanceAmbiguous(s, instance)

\* _finish_unclaimed_for_removed_locked: every exchange pinned to the removed
\* registration is over, claimed or not, and its executions are ambiguous.
FinishRemoved(s, instance) ==
  OnlyMark(FinishErrors(s, {x \in DOMAIN s.exchanges :
                              s.exchanges[x].instance = instance}),
           instance)

\* _directory.expire at an instant when the lease has, or has not, lapsed.
Expire(s, lapse) ==
  IF lapse /\ s.current # Nobody
  THEN FinishRemoved([s EXCEPT !.current = Nobody], s.current)
  ELSE s

-----------------------------------------------------------------------------
(* Requests about a retained execution.                                    *)

\* The common part of _refresh_action_key_locked and the control requests: the
\* item's instance must still be the registered one, or it is isolated.
Pin(s, k, lapse) ==
  LET t == Expire(s, lapse)
  IN IF t.current = t.items[k].instance THEN t
     ELSE MarkInstanceAmbiguous(t, t.items[k].instance)

\* _refresh_action_key_locked for a retained item: a lookup that cannot be
\* queued leaves no exchange.
Refresh(s, k, purpose, lapse, caller) ==
  LET t == Pin(s, k, lapse)
      slots == IF caller THEN 2 ELSE 1
  IN IF IsPending(s, k, purpose) THEN s
     ELSE IF /\ t.current = t.items[k].instance
             /\ HasRoom(t, slots)
             /\ CanExchange(t)
     THEN QueueExchange([t EXCEPT !.reserved = @ + slots], k, purpose, caller)
     ELSE t

\* refresh_action, for an HTTP client.
HttpRefresh(s, k, purpose, lapse) ==
  IF k \in DOMAIN s.items THEN Refresh(s, k, purpose, lapse, FALSE) ELSE s

\* The lookups of _handle_caller_action_request_locked.
CallerRefresh(s, k, purpose, lapse) ==
  LET t == Refresh(s, k, purpose, lapse, TRUE)
  IN IF k \notin DOMAIN s.items THEN Answer(s, k)
     ELSE IF t.drawn > s.drawn THEN t ELSE Answer(t, k)

SetControl(s, k, c, status) ==
  [s EXCEPT !.items = Update(@, k, LAMBDA i : [i EXCEPT !.control[c] = status])]

\* cancel_action returns "terminal" except for an unknown outcome that may
\* still be running; stop_action for every terminal phase.
IsOver(item, c) ==
  /\ item.phase \in Terminal
  /\ ~(c = "cancel" /\ item.phase = "unknown" /\ item.fence /\ ~item.ended)

\* cancel_action and stop_action.
HttpControl(s, k, c, lapse) ==
  LET t == Pin(s, k, lapse)
  IN IF \/ k \notin DOMAIN s.items
        \/ IsOver(s.items[k], c)
        \/ s.items[k].control[c] \in {"requested", "settled"}
        \/ IsPending(s, k, c)
     THEN s
     ELSE IF \/ t.current # t.items[k].instance
             \/ c \notin Supports
             \/ ~HasRoom(t, 1)
     THEN t
     ELSE IF CanExchange(t)
     THEN QueueExchange(SetControl(Reserve(t), k, c, "requested"), k, c, FALSE)
     ELSE SetControl(t, k, c, "transport_error")

\* The controls of _handle_caller_action_request_locked: the caller's slot is
\* reserved first, and without it nobody is told anything.
CallerControl(s, k, c, lapse) ==
  LET t == Pin(s, k, lapse)
  IN IF k \notin DOMAIN s.items THEN Answer(s, k)
     ELSE IF \/ t.current # t.items[k].instance
             \/ c \notin Supports
             \/ IsPending(t, k, ControlOf(c))
     THEN Answer(t, k)
     ELSE IF ~HasRoom(t, 1) THEN t
     ELSE IF HasRoom(t, 2) /\ CanExchange(t)
     THEN QueueExchange(SetControl(Reserve(Reserve(t)), k, c, "requested"),
                        k, ControlOf(c), TRUE)
     ELSE Answer(SetControl(t, k, c, "transport_error"), k)
-----------------------------------------------------------------------------
(* Answers and events of providers.                                        *)

CommandOf(purpose) == CHOOSE c \in Commands : purpose \in {c, ControlOf(c)}

\* The effect of an answer on the item; "result" is a terminal result, of an
\* invoke or of a result lookup.  An error in answer to an invoke says
\* nothing of the execution; a result the provider has forgotten frees the
\* fence only if the provider has reported the execution over.
Heard(item, purpose, answer) ==
  CASE answer.say = "accepted" -> EstablishAccepted(item)
    [] answer.say = "refused" -> Conclude(item, "failed", TRUE)
    [] answer.say = "result" -> Conclude(item, answer.phase, TRUE)
    [] answer.say = "status" -> IF answer.phase \in Terminal THEN Hint(item)
                                ELSE Observe(item, answer.phase)
    [] answer.say = "not_found" -> Conclude(item, "unknown", item.hint)
    [] answer.say \in {"settled", "rejected"} ->
         [item EXCEPT !.control[CommandOf(purpose)] = answer.say]
    [] answer.say = "error" /\ purpose = "invoke" -> Conclude(item, "unknown", FALSE)
    [] answer.say = "error" /\ purpose = "control:cancel" ->
         [item EXCEPT !.control["cancel"] = "transport_error"]
    [] OTHER -> item

\* _queue_dora_events_locked: the events due to a Dora caller, whose numbers
\* follow each other, as far as the mailbox has room; the cursor of a forgotten
\* execution is dropped.
DueEvents(s, k) ==
  IF k \in DOMAIN s.cursors \cap DOMAIN s.items
  THEN EventsFrom(s.items[k], s.cursors[k]) ELSE {}

QueuedEvents(s, k) ==
  {n \in DueEvents(s, k) : Cardinality({m \in DueEvents(s, k) : m < n}) < Room(s)}

QueueEvents(s, k) ==
  LET queued == QueuedEvents(s, k)
      numbers == [i \in 1..Cardinality(queued) |-> Min(queued) + i - 1]
      item == s.items[k]
      events == [i \in DOMAIN numbers |->
                   Event(k, numbers[i], item.ended /\ numbers[i] + 1 = item.next)]
  IN IF k \in DOMAIN s.cursors \ DOMAIN s.items
     THEN [s EXCEPT !.cursors = Restrict(@, DOMAIN @ \ {k})]
     ELSE IF numbers = <<>> THEN s
     ELSE [Post([s EXCEPT !.reserved = @ + Len(events)], events) EXCEPT
             !.cursors[k] = Last(numbers) + 1]

\* _handle_action_response_locked when the answer is in time: its effect, the
\* lookup of a result reported to exist, the caller's reply, its events.
Answered(s, x, answer, lapse) ==
  LET exchange == s.exchanges[x]
      k == exchange.key
      t == [DropSilently(s, {x}) EXCEPT
              !.items = Update(@, k, LAMBDA i : Heard(i, exchange.purpose, answer))]
      isReported == /\ answer.say = "status" /\ answer.phase \in Terminal
                    /\ k \in DOMAIN t.items /\ ~t.items[k].result
      u == IF isReported THEN Refresh(t, k, "result", lapse, FALSE) ELSE t
      v == IF exchange.caller THEN Post(u, <<Reply(k)>>) ELSE u
  IN QueueEvents(v, k)

\* _handle_action_response_locked
ProviderResponse(s, x, answer, late, lapse) ==
  IF late THEN FinishErrors(s, {x}) ELSE Answered(s, x, answer, lapse)

\* _handle_action_event_locked: a terminal event looks for the result, unless
\* its own delivery overran the mailbox and raised.
ProviderEvent(s, k, n, terminal, lapse) ==
  LET t == [s EXCEPT !.items[k] = AppendEvent(@, terminal)]
      overrun == QueuedEvents(t, k) # DueEvents(t, k)
  IN IF ~TakesEvent(s.items, k, n) THEN s
     ELSE IF terminal /\ ~overrun
     THEN Refresh(QueueEvents(t, k), k, "result", lapse, FALSE)
     ELSE QueueEvents(t, k)

-----------------------------------------------------------------------------
(* Admission.  What create forgets and evicts varies with the age of items, *)
(* so an admission has a set of possible outcomes.  An item that was        *)
(* evicted stays so when the admission is refused after all.                *)

Gone(items) == IF Forgets THEN SUBSET Forgettable(items) ELSE {{}}

\* create, up to the decision: what is left of the table.
Cleared(items, k) ==
  UNION {IF k \in DOMAIN items \ gone THEN {Forget(items, gone)}
         ELSE {Forget(Forget(items, gone), victims) :
                 victims \in Victims(Forget(items, gone))} :
         gone \in Gone(items)}

\* The second, locked part of submit_http_action, for a client that has been
\* told that instance is registered.
AdmitHttp(s, k, instance, bounded) ==
  LET admitted(items) ==
        IF Refuses(items, k) \/ ~CanExchange(s) THEN [s EXCEPT !.items = items]
        ELSE QueueExchange([Reserve(s) EXCEPT
                              !.items = Add(items, k, NewItem(instance, bounded))],
                           k, "invoke", FALSE)
  IN IF ~s.accepting \/ s.current # instance \/ ~HasRoom(s, 1) THEN {s}
     ELSE {admitted(items) : items \in Cleared(s.items, k)}

\* _handle_caller_invoke_locked and _admit_dora_action_locked: dropped without
\* room for the answer, else admitted or answered with a refusal.
AdmitDora(s, k, bounded, lapse) ==
  LET t == Expire(s, lapse)
      admitted(items) ==
        IF Refuses(items, k) \/ ~HasRoom(t, 2) \/ ~CanExchange(t)
        THEN Answer([t EXCEPT !.items = items], k)
        ELSE QueueExchange(
               [t EXCEPT !.items = Add(items, k, NewItem(t.current, bounded)),
                         !.cursors = [j \in DOMAIN @ \cup {k} |->
                                        IF j = k THEN 0 ELSE @[j]],
                         !.reserved = @ + 2],
               k, "invoke", TRUE)
  IN IF ~s.accepting THEN {s}
     ELSE IF ~HasRoom(t, 1) THEN {t}
     ELSE IF t.current = Nobody THEN {Answer(t, k)}
     ELSE {admitted(items) : items \in Cleared(t.items, k)}

-----------------------------------------------------------------------------
(* The registry, dispatch, deadlines and closing.                          *)

\* _handle_provider_input_locked, when instance becomes the registered one or,
\* if next is Nobody, withdraws; without room for the response nothing happens.
Mutate(s, next, removed) ==
  LET t == Post([Reserve(s) EXCEPT !.current = next], <<RegistryResponse>>)
  IN IF ~HasRoom(s, 1) THEN s
     ELSE IF removed THEN FinishRemoved(t, s.current) ELSE t

ProviderRegister(s, instance, lapse) ==
  Mutate(s, instance, s.current # Nobody /\ (lapse \/ s.current # instance))

ProviderUnregister(s, instance, lapse) ==
  LET removed == s.current # Nobody /\ (lapse \/ s.current = instance)
  IN Mutate(s, IF removed THEN Nobody ELSE s.current, removed)

\* A queued request is skipped when its exchange is over or claimed.
Valid(s, m) ==
  m.kind = "request" => m.id \in DOMAIN s.exchanges /\ ~s.exchanges[m.id].claimed

\* The messages take_outbound may return: the first valid one, if any.
Deliverable(s) ==
  {n \in DOMAIN s.outbound :
     /\ Valid(s, s.outbound[n])
     /\ \A i \in 1..(n - 1) : ~Valid(s, s.outbound[i])}

\* Mutation: the exchange is not marked as claimed.
PopOutbound(s, n) == [s EXCEPT !.outbound = SubSeq(@, n + 1, Len(@))]

\* take_outbound when it returns the message at position n.
TakeOutbound(s, n) ==
  LET m == s.outbound[n]
      t == PopOutbound(s, n)
  IN IF m.kind = "request" THEN [t EXCEPT !.exchanges[m.id].claimed = TRUE] ELSE t

\* output_failed, after send_output raised.
OutputFailed(s, m) ==
  IF m.kind = "request" /\ m.id \in DOMAIN s.exchanges
  THEN FinishErrors(s, {m.id}) ELSE s

\* Mutation (of Sweep): exchanges have no timeout.
SweepLeases(s, late, overdue, lapse) == Expire(s, lapse)

\* sweep, when the deadlines of the exchanges in late and of the executions in
\* overdue have passed.
Sweep(s, late, overdue, lapse) ==
  LET t == Expire(s, lapse)
      u == FinishErrors(t, late \cap DOMAIN t.exchanges)
  IN [u EXCEPT !.items = [k \in DOMAIN @ |->
                            IF k \in overdue /\ @[k].bounded THEN PassDeadline(@[k])
                            ELSE @[k]]]

\* Closing first refuses new work; begin_close then ends every exchange.
StopAccepting(s) == [s EXCEPT !.accepting = FALSE]

BeginClose(s) == FinishErrors(StopAccepting(s), DOMAIN s.exchanges)
=============================================================================
