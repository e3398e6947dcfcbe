---------------------------- MODULE QueryService ----------------------------
(***************************************************************************)
(* The Query half of ToolGatewayService                                    *)
(* (src/forge_gateway/services/tool_gateway_service.py) as operators on    *)
(* the state that its one lock guards.  An operator takes that state, s,   *)
(* and returns what the corresponding method leaves of it; QueryGateway    *)
(* says which threads call them and when.                                  *)
(*                                                                         *)
(* An invocation is named by the ordinal of its admission: the code draws  *)
(* a fresh provider request id and pending token for each.  Routes are     *)
(* named by their endpoint: the configuration has one route per endpoint.  *)
(***************************************************************************)
EXTENDS Naturals, Sequences, FiniteSets, Functions, SequencesExt

CONSTANTS
  Endpoints, Instances, Descriptors, Supported, LeaseTTL,
  Exposing,     \* the descriptors that list the queried operation
  Http,         \* Query requests submitted over HTTP, each once
  Dora,         \* correlation identities of public Dora callers' requests
  Target,       \* the endpoint each request names, configured or not
  Capacity,     \* outbound_capacity
  MaxInvokes    \* bound of the model: invocations admitted in a behaviour

Requests == Http \cup Dora
Invocations == 1..MaxInvokes

ASSUME QueryAssumption ==
  /\ Capacity \in Nat \ {0}
  /\ MaxInvokes \in Nat
  /\ Http \cap Dora = {}
  /\ IsFiniteSet(Endpoints)
  /\ LeaseTTL \in Nat \ {0}
  /\ Supported \subseteq Descriptors
  /\ DOMAIN Target = Requests

Table == INSTANCE Leases WITH Routes <- Endpoints,
                              RouteEndpoint <- [e \in Endpoints |-> e]

\* FORGE_TOOL_* codes of the responses, and a provider's own answers.
Answers == {"result", "error", "busy", "timeout", "unknown_endpoint",
            "unavailable", "not_found", "conflict", "cancelled", "closing",
            "transport", "non_terminal"}

\* _PendingInvocation; its terminal slot is reserved iff request \in Dora.
Pending == [request : Requests, endpoint : Endpoints, instance : Instances,
            deadline : Nat, claimed : BOOLEAN]

Identity == [endpoint : Endpoints, instance : Instances]

\* ToolOutboundMessage, by kind.
Messages ==
  [kind : {"provider.invoke_request"}, id : Invocations]
    \cup [kind : {"caller.invoke_response"}, request : Dora, answer : Answers]
    \cup [kind : {"provider.registry_response"}, endpoint : Endpoints]

Invoke(id) == [kind |-> "provider.invoke_request", id |-> id]
Reply(r, answer) ==
  [kind |-> "caller.invoke_response", request |-> r, answer |-> answer]
RegistryResponse(e) == [kind |-> "provider.registry_response", endpoint |-> e]

IsService(s) ==
  /\ s = [accepting |-> s.accepting, leases |-> s.leases,
          statuses |-> s.statuses, pending |-> s.pending,
          logical |-> s.logical, outbound |-> s.outbound,
          reserved |-> s.reserved, future |-> s.future,
          admitted |-> s.admitted, fate |-> s.fate]
  /\ s.accepting \in BOOLEAN                   \* _accepting
  /\ Table!IsLeaseTable(s.leases)              \* _directory
  /\ s.statuses \subseteq Identity             \* _endpoint_statuses
  /\ DOMAIN s.pending \subseteq 1..s.admitted  \* _pending_by_provider_key
  /\ s.pending \in [DOMAIN s.pending -> Pending]
  /\ s.logical \subseteq Requests              \* _pending_logical_keys
  /\ s.outbound \in Seq(Messages)              \* _outbound
  /\ s.reserved \in Nat                        \* _reserved_outbound_slots
  /\ s.future \in [Http -> Answers \cup {"none"}]
  /\ s.admitted \in 0..MaxInvokes
  /\ s.fate \in [Invocations -> Answers \cup {"none"}]  \* history variable

NewService ==
  [accepting |-> TRUE, leases |-> <<>>, statuses |-> {}, pending |-> <<>>,
   logical |-> {}, outbound |-> <<>>, reserved |-> 0,
   future |-> [r \in Http |-> "none"], admitted |-> 0,
   fate |-> [i \in Invocations |-> "none"]]

-----------------------------------------------------------------------------
(* The bounded outbound mailbox.                                           *)

\* _reserve_outbound_slots_locked: its condition and its effect.
HasRoom(s) == Len(s.outbound) + s.reserved + 1 <= Capacity
Reserve(s) == [s EXCEPT !.reserved = @ + 1]

\* _append_reserved_outbound_locked: messages take the place of reservations.
Post(s, messages) ==
  [s EXCEPT !.reserved = @ - Len(messages), !.outbound = @ \o messages]

-----------------------------------------------------------------------------
(* Completion.                                                             *)

\* _finish_pending_locked for every invocation in F, the deadline arbiter: at
\* or after an invocation's deadline any outcome becomes a timeout.  The
\* replies of one step are queued in some fixed order.
Finish(s, F, outcome, observed) ==
  LET answer(i) == IF observed >= s.pending[i].deadline THEN "timeout"
                   ELSE outcome
      callers == SetToSeq({i \in F : s.pending[i].request \in Dora})
      replies == [n \in DOMAIN callers |->
                    Reply(s.pending[callers[n]].request, answer(callers[n]))]
      waiting(r) == {i \in F : s.pending[i].request = r}
  IN [Post(s, replies) EXCEPT
        !.pending = Restrict(s.pending, DOMAIN s.pending \ F),
        !.logical = s.logical \ {s.pending[i].request : i \in F},
        !.future = [r \in Http |->
                      IF s.future[r] = "none" /\ waiting(r) # {}
                      THEN answer(CHOOSE i \in waiting(r) : TRUE)
                      ELSE s.future[r]],
        !.fate = [i \in Invocations |->
                    IF i \in F THEN answer(i) ELSE s.fate[i]]]

\* Mutation: work that has been claimed is failed with the rest.
PinnedOrClaimed(s, gone) ==
  {i \in DOMAIN s.pending : [endpoint |-> s.pending[i].endpoint,
                             instance |-> s.pending[i].instance] \in gone}

\* The work pinned to registrations that are gone, unless it has already been
\* claimed for dispatch.
Pinned(s, gone) ==
  {i \in PinnedOrClaimed(s, gone) : ~s.pending[i].claimed}

\* The completion of that work; alone it is FinishRemoved without the
\* readiness reports (mutation).
FinishPinned(s, gone, observed) ==
  Finish(s, Pinned(s, gone), "unavailable", observed)

\* _finish_unclaimed_for_removed_locked
FinishRemoved(s, gone, observed) ==
  FinishPinned([s EXCEPT !.statuses = @ \ gone], gone, observed)

\* Mutation: leases expire and nobody is told.
ExpireQuietly(s, observed) == [s EXCEPT !.leases = Table!Live(@, observed)]

\* _directory.expire followed by the completion of what was pinned to it.
ExpireLeases(s, observed) ==
  LET gone == Table!Identities(s.leases, Table!Lapsed(s.leases, observed))
  IN FinishRemoved(ExpireQuietly(s, observed), gone, observed)

SetFuture(s, r, answer) ==
  [s EXCEPT !.future[r] = IF @ = "none" THEN answer ELSE @]

\* Mutations: the reply does not use up its slot; the slot is given back and
\* the caller told nothing.
RefuseKeepingSlot(s, r, answer) ==
  IF r \in Dora THEN [s EXCEPT !.outbound = Append(@, Reply(r, answer))]
  ELSE SetFuture(s, r, answer)

RefuseSilently(s, r, answer) ==
  IF r \in Dora THEN [s EXCEPT !.reserved = @ - 1] ELSE SetFuture(s, r, answer)

\* _complete_without_pending_locked: a request refused at admission.
Refuse(s, r, answer) ==
  IF r \in Dora THEN Post(s, <<Reply(r, answer)>>) ELSE SetFuture(s, r, answer)

-----------------------------------------------------------------------------
(* Admission.                                                              *)

\* The checks before the directory is consulted; "none" lets r through.
EarlyRefusal(s, r, deadline, observed) ==
  IF Cardinality(DOMAIN s.pending) >= Capacity \/ ~HasRoom(s) THEN "busy"
  ELSE IF deadline <= observed THEN "timeout"
  ELSE IF Target[r] \notin Endpoints THEN "unknown_endpoint"
  ELSE "none"

\* What the directory says of the request; alone it is LateRefusal without
\* the check for duplicates (mutation).
BindingRefusal(s, r) ==
  IF Target[r] \notin DOMAIN s.leases THEN "unavailable"
  ELSE IF s.leases[Target[r]].descriptor \notin Exposing THEN "not_found"
  ELSE "none"

\* The checks after it has been consulted.
LateRefusal(s, r) ==
  IF BindingRefusal(s, r) # "none" THEN BindingRefusal(s, r)
  ELSE IF r \in s.logical THEN "conflict"
  ELSE "none"

\* The invocation becomes pending and its request is queued, in the slot
\* reserved for it, pinned to the registered instance.
Enqueue(s, r, deadline) ==
  LET id == s.admitted + 1
      invocation == [request |-> r, endpoint |-> Target[r],
                     instance |-> s.leases[Target[r]].instance,
                     deadline |-> deadline, claimed |-> FALSE]
  IN [Post(Reserve(s), <<Invoke(id)>>) EXCEPT
        !.pending = [i \in DOMAIN s.pending \cup {id} |->
                       IF i = id THEN invocation ELSE s.pending[i]],
        !.logical = @ \cup {r},
        !.admitted = id]

\* _admit_invoke_locked once accepting has been checked and a Dora caller's
\* terminal slot reserved.  A provider slot reserved for a request that is
\* then refused is released again in the same call.
Admit(s, r, deadline, observed) ==
  LET early == EarlyRefusal(s, r, deadline, observed)
      t == ExpireLeases(s, observed)
      late == LateRefusal(t, r)
  IN IF early # "none" THEN Refuse(s, r, early)
     ELSE IF late # "none" THEN Refuse(t, r, late)
     ELSE Enqueue(t, r, deadline)

\* submit_http_invoke; a closing gateway refuses without reserving anything.
SubmitHttpInvoke(s, r, deadline, observed) ==
  IF s.accepting THEN Admit(s, r, deadline, observed)
  ELSE Refuse(s, r, "closing")

\* _handle_caller_invoke_locked; the request of a public Dora caller is
\* dropped, unanswered, when the mailbox has no slot for the answer.
TakesCallerInvoke(s, observed) == HasRoom(ExpireLeases(s, observed))

\* Mutation: no slot is reserved for the answer.
CallerInvokeUnreserved(s, r, deadline, observed) ==
  Admit(ExpireLeases(s, observed), r, deadline, observed)

CallerInvoke(s, r, deadline, observed) ==
  LET t == ExpireLeases(s, observed)
  IN IF TakesCallerInvoke(s, observed)
     THEN Admit(Reserve(t), r, deadline, observed)
     ELSE t

-----------------------------------------------------------------------------
(* Provider messages.                                                      *)

\* endpoint.register and endpoint.unregister in _handle_provider_input_locked:
\* a slot for the acknowledgement first, or nothing happens.
Mutate(s, e, table, gone, observed) ==
  IF ~HasRoom(s) THEN s
  ELSE FinishRemoved(Post([Reserve(s) EXCEPT !.leases = table],
                          <<RegistryResponse(e)>>),
                     gone, observed)

ProviderRegister(s, reg, route, received, observed) ==
  Mutate(s, route,
         Table!Announce(Table!Live(s.leases, received), reg, route, received),
         Table!Identities(s.leases,
           Table!RemovedByRegister(s.leases, reg, route, received)),
         observed)

ProviderUnregister(s, wd, route, received, observed) ==
  Mutate(s, route,
         Table!Withdraw(Table!Live(s.leases, received), wd, route),
         Table!Identities(s.leases,
           Table!RemovedByUnregister(s.leases, wd, route, received)),
         observed)

\* _handle_provider_response_locked; a ToolAccepted is no answer to a Query.
ProviderResponse(s, id, word, observed) ==
  IF id \notin DOMAIN s.pending THEN s
  ELSE Finish(s, {id}, IF word = "accepted" THEN "non_terminal" ELSE word,
              observed)

\* _handle_endpoint_status_locked
EndpointStatus(s, identity, received) ==
  LET t == ExpireLeases(s, received)
      current == Table!Identities(t.leases, DOMAIN t.leases)
  IN [t EXCEPT !.statuses = @ \cup ({identity} \cap current)]

-----------------------------------------------------------------------------
(* Dispatch, deadlines and closing.                                        *)

\* A queued message is skipped when its invocation is over or claimed.
Valid(s, m) ==
  m.kind = "provider.invoke_request" =>
    m.id \in DOMAIN s.pending /\ ~s.pending[m.id].claimed

\* The messages take_outbound may return: the first valid one, if any.
Deliverable(s) ==
  {n \in DOMAIN s.outbound :
     /\ Valid(s, s.outbound[n])
     /\ \A k \in 1..(n - 1) : ~Valid(s, s.outbound[k])}

\* Mutation: the message is popped and not marked as claimed.
PopOutbound(s, n) == [s EXCEPT !.outbound = SubSeq(@, n + 1, Len(@))]

\* take_outbound when it returns the message at position n ...
TakeOutbound(s, n) ==
  LET m == s.outbound[n]
      t == PopOutbound(s, n)
  IN IF m.kind = "provider.invoke_request"
     THEN [t EXCEPT !.pending[m.id].claimed = TRUE]
     ELSE t

\* ... and when every message is stale.
DiscardOutbound(s) == [s EXCEPT !.outbound = <<>>]

\* output_failed, after send_output raised; replies are not retried.
OutputFailed(s, m, observed) ==
  IF m.kind = "provider.invoke_request" /\ m.id \in DOMAIN s.pending
  THEN Finish(s, {m.id}, "transport", observed)
  ELSE s

\* Mutation: what has been claimed is not cancelled.
CancelUnclaimed(s, r, outcome, observed) ==
  Finish(s, {i \in DOMAIN s.pending :
               s.pending[i].request = r /\ ~s.pending[i].claimed},
         outcome, observed)

\* cancel_http_invoke, from the HTTP wait of r.
CancelHttpInvoke(s, r, outcome, observed) ==
  Finish(s, {i \in DOMAIN s.pending : s.pending[i].request = r},
         outcome, observed)

Sweep(s, observed) ==
  LET t == ExpireLeases(s, observed)
  IN Finish(t, {i \in DOMAIN t.pending : t.pending[i].deadline <= observed},
            "timeout", observed)

\* Closing first refuses new work; begin_close then ends what is in flight.
StopAccepting(s, observed) == [s EXCEPT !.accepting = FALSE]

BeginClose(s, observed) ==
  Finish(StopAccepting(s, observed), DOMAIN s.pending, "closing", observed)
=============================================================================
