---------------------------- MODULE ActionGateway ----------------------------
(***************************************************************************)
(* The threads around the Action half of the Tool Gateway, and the         *)
(* executions it is about:                                                 *)
(*   - the lifecycle thread, which handles inputs, sweeps, and takes and   *)
(*     sends messages, in any order here (QueryGateway has the loop);      *)
(*   - HTTP handlers, whose admission of an Action is three steps: read    *)
(*     the registration, admit under the lock, read the snapshot back;     *)
(*   - whoever closes the application;                                     *)
(*   - one provider per endpoint instance, which runs what it accepts,     *)
(*     answers truthfully or not at all, and numbers its events in order.  *)
(* A provider handles a request some time after it was sent; what it says  *)
(* is read by the gateway in the order in which it was said.               *)
(***************************************************************************)
EXTENDS ActionService

CONSTANTS
  Sessions,     \* the executions of a Session operation; the others are Actions
  Asked,        \* the lookups that clients and callers of the model ask for
  Outcomes,     \* the phases with which an execution of the model may end
  MaxEvents     \* bound of the model: events of one execution

ASSUME GatewayAssumption ==
  /\ Sessions \subseteq Keys
  /\ Asked \subseteq Lookups
  /\ Outcomes \subseteq Terminal
  /\ MaxEvents \in Nat \ {0}

VARIABLES
  service,    \* ToolGatewayService: what its lock guards
  asking,     \* how far each HTTP admission has come
  hand,       \* the message claimed by the lifecycle thread and not yet sent
  sent,       \* requests that have reached a provider
  called,     \* Dora callers' executions that have been admitted
  run,        \* the truth about each execution
  emitted     \* how many events its provider has numbered

vars == <<service, asking, hand, sent, called, run, emitted>>

items == service.items
exchanges == service.exchanges
Nothing == [kind |-> "none"]

TypeOK ==
  /\ IsService(service)
  /\ asking \in [HttpKeys -> [stage : {"idle", "resolved", "created", "done"},
                              instance : Instances \cup {Nobody}]]
  /\ hand \in Messages \cup {Nothing}
  /\ sent \subseteq {m \in Messages : m.kind = "request"}
  /\ called \subseteq DoraKeys
  /\ run \in [Keys -> {"none", "refused", "running", "ended", "reported"}]
  /\ emitted \in [Keys -> 0..MaxEvents]

Init ==
  /\ service = NewService
  /\ asking = [k \in HttpKeys |-> [stage |-> "idle", instance |-> Nobody]]
  /\ hand = Nothing
  /\ sent = {}
  /\ called = {}
  /\ run = [k \in Keys |-> "none"]
  /\ emitted = [k \in Keys |-> 0]

Outside == UNCHANGED <<run, emitted>>

\* Bound of the model: no step draws more than MaxExchanges exchanges.
CanDraw == service.drawn < MaxExchanges

-----------------------------------------------------------------------------
(* HTTP handlers.                                                          *)

HttpStep == UNCHANGED <<hand, sent, called>> /\ Outside

\* submit_http_action reads the registration (resolve_tool_spec), ...
HttpResolve(k, lapse) ==
  /\ asking[k].stage = "idle"
  /\ service' = Expire(service, lapse)
  /\ asking' = IF service'.current = Nobody THEN asking
               ELSE [asking EXCEPT ![k] = [stage |-> "resolved",
                                           instance |-> service'.current]]
  /\ HttpStep

\* ... admits the execution under the lock, judging leases by the instant at
\* which it read the registration.  No lease lapses here: that instant found the
\* registration alive, and since inputs are handled in the order in which they
\* were stamped, a lease granted since runs out no earlier.
HttpAdmit(k) ==
  /\ asking[k].stage = "resolved"
  /\ CanDraw
  /\ service' \in AdmitHttp(service, k, asking[k].instance, k \notin Sessions)
  /\ asking' = [asking EXCEPT ![k] =
                  [stage |-> IF k \in DOMAIN service'.items THEN "created" ELSE "idle",
                   instance |-> Nobody]]
  /\ HttpStep

\* ... and reads its snapshot back.
HttpSnapshot(k) ==
  /\ asking[k].stage = "created"
  /\ asking' = [asking EXCEPT ![k].stage = "done"]
  /\ UNCHANGED service
  /\ HttpStep

\* A client names an execution by an id it has been given, or has from a caller.
Named(k) == k \in HttpKeys => asking[k].stage = "done"

\* The controller refreshes after it read a snapshot that was not terminal; by
\* then the execution may be in any later state, so the refresh stands alone.
HttpLookup(k, purpose, lapse) ==
  /\ Named(k) /\ CanDraw
  /\ service' = HttpRefresh(service, k, purpose, lapse)
  /\ UNCHANGED asking /\ HttpStep

HttpCommand(k, c, lapse) ==
  /\ Named(k) /\ CanDraw
  /\ service' = HttpControl(service, k, c, lapse)
  /\ UNCHANGED asking /\ HttpStep

\* A read that forgets what has been retained long enough.
HttpRead ==
  /\ \E gone \in Gone(items) : service' = [service EXCEPT !.items = Forget(@, gone)]
  /\ UNCHANGED asking /\ HttpStep

ApplicationClose ==
  /\ service' = BeginClose(service)
  /\ UNCHANGED asking /\ HttpStep

-----------------------------------------------------------------------------
(* The lifecycle thread: inputs.                                           *)

Handling == hand = Nothing /\ UNCHANGED <<hand, sent>>

\* A public caller's request may be delivered again while its execution is
\* retained.  Bound of the model: a key is not admitted again once forgotten.
HandleInvoke(k, bounded, lapse) ==
  /\ Handling /\ CanDraw
  /\ service' \in AdmitDora(service, k, bounded, lapse)
  /\ k \in called => service'.drawn = service.drawn
  /\ called' = called \cup (DOMAIN service'.items \cap {k})
  /\ UNCHANGED asking /\ Outside

\* While closing, _ensure_accepting_locked rejects callers and registrations.
HandleLookup(k, purpose, lapse) ==
  /\ Handling /\ CanDraw /\ service.accepting
  /\ service' = CallerRefresh(service, k, purpose, lapse)
  /\ UNCHANGED <<asking, called>> /\ Outside

HandleControl(k, c, lapse) ==
  /\ Handling /\ CanDraw /\ service.accepting
  /\ service' = CallerControl(service, k, c, lapse)
  /\ UNCHANGED <<asking, called>> /\ Outside

HandleRegister(instance, lapse) ==
  /\ Handling /\ service.accepting
  /\ service' = ProviderRegister(service, instance, lapse)
  /\ UNCHANGED <<asking, called>> /\ Outside

HandleUnregister(instance, lapse) ==
  /\ Handling /\ service.accepting
  /\ service' = ProviderUnregister(service, instance, lapse)
  /\ UNCHANGED <<asking, called>> /\ Outside

\* What the provider may answer to m, given the truth about the execution.  It
\* handles requests in order, so a lookup waits for the invoke to be handled.
Invoked(k) == \E m \in sent : m.key = k /\ m.purpose = "invoke"
Over(k) == run[k] \in {"ended", "reported"}

Truths(m) ==
  LET k == m.key
      says(words, true) == IF true THEN [say : words] ELSE {}
      tells(word, phases, true) == IF true THEN [say : {word}, phase : phases] ELSE {}
  IN says({"error"}, TRUE)
     \cup CASE m.purpose = "invoke" ->
            says({"accepted"}, run[k] \notin {"none", "refused"})
              \cup says({"refused"}, run[k] \in {"none", "refused"})
              \cup tells("result", Outcomes, Over(k))
         [] m.purpose = "status" ->
            tells("status", Nonterminal \ {"dispatching"}, run[k] = "running")
              \cup tells("status", Outcomes, Over(k))
         [] m.purpose = "result" ->
            says({"pending"}, run[k] = "running")
              \cup tells("result", Outcomes, Over(k))
              \cup says({"not_found"},
                        Over(k) \/ run[k] = "refused" \/ ~Invoked(k))
         [] OTHER -> says({"settled", "rejected"}, TRUE)

HandleResponse(m, answer, late, lapse) ==
  /\ Handling /\ CanDraw
  /\ m.id \in DOMAIN exchanges
  /\ service' = ProviderResponse(service, m.id, answer, late, lapse)
  /\ run' = IF answer.say = "refused" THEN [run EXCEPT ![m.key] = "refused"] ELSE run
  /\ UNCHANGED <<asking, called, emitted>>

\* The next event of an execution; the terminal one is its last.
HandleEvent(k, lapse) ==
  /\ Handling /\ CanDraw
  /\ run[k] \in {"running", "ended"} /\ emitted[k] < MaxEvents
  /\ service' = ProviderEvent(service, k, emitted[k], run[k] = "ended", lapse)
  /\ emitted' = [emitted EXCEPT ![k] = @ + 1]
  /\ run' = IF run[k] = "ended" THEN [run EXCEPT ![k] = "reported"] ELSE run
  /\ UNCHANGED <<asking, called>>

SweepOnce(late, overdue, lapse) ==
  /\ Handling
  /\ service' = Sweep(service, late, overdue, lapse)
  /\ UNCHANGED <<asking, called>> /\ Outside

-----------------------------------------------------------------------------
(* The lifecycle thread: outputs.                                          *)

Take ==
  /\ hand = Nothing
  /\ \E n \in Deliverable(service) :
       /\ hand' = service.outbound[n]
       /\ service' = TakeOutbound(service, n)
  /\ UNCHANGED <<asking, sent, called>> /\ Outside

\* take_outbound finds nothing but stale requests.
Discard ==
  /\ hand = Nothing
  /\ service.outbound # <<>> /\ Deliverable(service) = {}
  /\ service' = [service EXCEPT !.outbound = <<>>]
  /\ UNCHANGED <<asking, hand, sent, called>> /\ Outside

Arrived == IF hand.kind = "request" THEN sent \cup {hand} ELSE sent

SendOk ==
  /\ hand # Nothing
  /\ hand' = Nothing
  /\ sent' = Arrived
  /\ UNCHANGED <<service, asking, called>> /\ Outside

\* send_output raised, possibly after the message had crossed the transport.
SendFails ==
  /\ hand # Nothing
  /\ hand' = Nothing
  /\ sent' \in {sent, Arrived}
  /\ service' = OutputFailed(service, hand)
  /\ UNCHANGED <<asking, called>> /\ Outside

-----------------------------------------------------------------------------
(* The providers.                                                          *)

Execute(k, from, to) ==
  /\ run[k] = from
  /\ run' = [run EXCEPT ![k] = to]
  /\ UNCHANGED <<service, asking, hand, sent, called, emitted>>

ProviderStart(k) == Invoked(k) /\ Execute(k, "none", "running")
ProviderEnd(k) == Execute(k, "running", "ended")

Http(lapse) ==
  \E k \in Keys :
    \/ k \in HttpKeys /\ HttpResolve(k, lapse)
    \/ \E purpose \in Asked : HttpLookup(k, purpose, lapse)
    \/ \E c \in Commands : HttpCommand(k, c, lapse)

Input(lapse) ==
  \/ \E k \in DoraKeys, bounded \in BOOLEAN : HandleInvoke(k, bounded, lapse)
  \/ \E k \in Keys : \/ \E purpose \in Asked : HandleLookup(k, purpose, lapse)
                     \/ \E c \in Commands : HandleControl(k, c, lapse)
                     \/ HandleEvent(k, lapse)
  \/ \E instance \in Instances :
       HandleRegister(instance, lapse) \/ HandleUnregister(instance, lapse)
  \/ \E m \in sent :
       \E answer \in Truths(m), late \in BOOLEAN :
         HandleResponse(m, answer, late, lapse)

\* Whether the lease has run out at the instant a step reads the clock.
Lapses == IF service.current = Nobody THEN {FALSE} ELSE BOOLEAN

Next ==
  \/ \E lapse \in Lapses :
       \/ Http(lapse) \/ Input(lapse)
       \/ \E late \in SUBSET DOMAIN exchanges, overdue \in SUBSET DOMAIN items :
            SweepOnce(late, overdue, lapse)
  \/ \E k \in HttpKeys : HttpAdmit(k) \/ HttpSnapshot(k)
  \/ HttpRead \/ ApplicationClose
  \/ Take \/ Discard \/ SendOk \/ SendFails
  \/ \E k \in Keys : ProviderStart(k) \/ ProviderEnd(k)

Spec == Init /\ [][Next]_vars

-----------------------------------------------------------------------------
(* Safety.                                                                 *)

\* The mailbox never promises more room than it has: every exchange made for a
\* Dora caller holds exactly one slot for its reply, and queued messages and
\* held slots together fit the capacity.
SlotsBalanced ==
  /\ service.reserved = Cardinality({x \in DOMAIN exchanges : exchanges[x].caller})
  /\ Len(service.outbound) + service.reserved <= Capacity

\* Lookups and controls are not multiplied: at most one exchange of a purpose
\* is in flight for an execution, and an unclaimed one is queued exactly once.
ExchangesAreSingle ==
  /\ \A x, y \in DOMAIN exchanges :
       /\ exchanges[x].key = exchanges[y].key
       /\ exchanges[x].purpose = exchanges[y].purpose
       => x = y
  /\ \A x \in DOMAIN exchanges :
       ~exchanges[x].claimed =>
         \E n \in DOMAIN service.outbound :
           \A i \in DOMAIN service.outbound :
             /\ service.outbound[i].kind = "request"
             /\ service.outbound[i].id = x
             <=> i = n

\* An execution whose provider may still run it holds its operation's fence,
\* whatever became of its exchanges and deadlines, until its instance is
\* isolated (docs/api.md:84).
FenceCoversRunning ==
  \A k \in Keys :
    run[k] = "running" /\ k \notin service.isolated =>
      k \in DOMAIN items /\ items[k].fence

\* Providers that are not isolated never run more executions of the operation
\* at a time than it allows, however many have been forgotten.
ConcurrencyRespected ==
  Cardinality({k \in Keys : run[k] = "running" /\ k \notin service.isolated})
    <= MaxConcurrency

\* A definite outcome is never reported of an execution that is running, or
\* that a provider will yet start.
DefiniteMeansOver ==
  \A k \in DOMAIN items :
    items[k].phase \in Definite =>
      /\ run[k] # "running"
      /\ run[k] = "none" => ~Invoked(k) /\ (hand.kind = "request" => hand.key # k \/ hand.purpose # "invoke")

\* A definite outcome is final for as long as it is retained; an unknown one
\* may still be settled, and is never reopened.
OutcomesAreFinal ==
  [][\A k \in DOMAIN items \cap DOMAIN items' :
       /\ items[k].phase \in Definite => items'[k].phase = items[k].phase
       /\ items[k].phase \in Terminal => items'[k].phase \in Terminal]_vars

\* The events on their way to a Dora caller are in the provider's order and
\* without repetition, none is shown before the execution was accepted, and
\* the terminal one not before there is a result to look up (docs/api.md:84).
EventsAreOrdered ==
  \A i \in DOMAIN service.outbound :
    LET m == service.outbound[i] IN
    m.kind = "event" =>
      /\ m.key \in DOMAIN service.cursors => m.number < service.cursors[m.key]
      /\ m.key \in DOMAIN items =>
           items[m.key].accepted /\ (m.terminal => items[m.key].result)
      /\ \A j \in DOMAIN service.outbound :
           LET n == service.outbound[j] IN
           j > i /\ n.kind = "event" /\ n.key = m.key =>
             n.number > m.number /\ ~m.terminal

Replies(s, k) ==
  Cardinality({n \in DOMAIN s.outbound :
                 s.outbound[n].kind = "reply" /\ s.outbound[n].key = k})

\* An exchange made for a Dora caller ends with exactly one reply to it, even
\* if several end in one step; the request being handled may add one refusal.
CallersAreAnswered ==
  [][\A k \in Keys :
       LET over == {x \in DOMAIN exchanges \ DOMAIN exchanges' :
                      exchanges[x].key = k /\ exchanges[x].caller}
       IN over # {} => Replies(service', k) - Replies(service, k)
                         \in {Cardinality(over), Cardinality(over) + 1}]_vars

\* No exchange outlives the registration of the instance it is pinned to.
PinnedToCurrent ==
  \A x \in DOMAIN exchanges : exchanges[x].instance = service.current

\* A terminal event proves an unknown execution over, so its fence is lowered
\* and stays so (action_invocations.py:300-303).
EndedFenceStaysDown ==
  [][\A k \in DOMAIN items \cap DOMAIN items' :
       items[k].ended /\ ~items[k].fence => ~items'[k].fence]_vars

\* assert snapshot is not None (tool_gateway_service.py:568): what a handler
\* has just admitted is still there when it reads it back.
AdmittedIsThere ==
  \A k \in HttpKeys : asking[k].stage = "created" => k \in DOMAIN items

-----------------------------------------------------------------------------
(* Liveness.  send_output returns, and the lifecycle thread's loop sweeps    *)
(* again and again, so that each exchange is swept after its deadline.       *)

LifecycleSpec ==
  /\ Spec
  /\ WF_vars(SendOk \/ SendFails)
  /\ \A x \in Exchanges : SF_vars(SweepOnce({x}, {}, FALSE))

\* No exchange stays in flight for ever, whatever its provider does, so that
\* its purpose is never blocked and a caller waiting on it is answered.
ExchangesConclude ==
  \A x \in Exchanges : x \in DOMAIN exchanges ~> x \notin DOMAIN exchanges

=============================================================================
