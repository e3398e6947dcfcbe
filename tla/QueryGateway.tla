---------------------------- MODULE QueryGateway ----------------------------
(***************************************************************************)
(* The threads around the Query half of the Tool Gateway:                  *)
(*   - the lifecycle thread (adapters/dora_runtime.py, tool_dora.py), the  *)
(*     only one to touch Dora: poll, handle one input, sweep, drain the    *)
(*     mailbox, and one last bounded drain when it stops;                  *)
(*   - HTTP handlers (controllers/tool_controller.py), each with a hard    *)
(*     deadline of its own and a client that may disconnect;               *)
(*   - whoever closes the application;                                     *)
(*   - providers and Dora callers, outside, free to say anything the       *)
(*     protocol allows, in any order and more than once.                   *)
(* Each method of the service runs under one lock, so it is one step.      *)
(* send_output runs outside it: between claiming a message and learning    *)
(* whether it was sent, every other thread may run.                        *)
(***************************************************************************)
EXTENDS QueryService

CONSTANTS
  Timeout,      \* tools.invoke_timeout_ms
  DrainLimit,   \* DEFAULT_TOOL_OUTPUT_DRAIN_LIMIT
  MaxClock      \* bound of the model: the clock stops here

ASSUME GatewayAssumption ==
  /\ Timeout \in Nat \ {0}
  /\ DrainLimit \in Nat \ {0}
  /\ MaxClock \in Nat

VARIABLES
  clock,        \* time.monotonic()
  service,      \* ToolGatewayService: what its lock guards
  pc,           \* the lifecycle thread: what it does next
  final,        \* it is draining for the last time (_finish_run)
  hand,         \* the message it has claimed and not yet sent
  budget,       \* how many more messages this drain may dispatch
  seen,         \* the clock when the lifecycle thread last used the service
  received,     \* the reader's stamp on the last registry input handled
  sent,         \* invocations whose request may have reached a provider
  owed          \* history: replies each Dora caller has yet to be sent

lifecycle == <<pc, final, hand, budget>>
vars == <<clock, service, lifecycle, seen, received, sent, owed>>

Nothing == [kind |-> "none"]

TypeOK ==
  /\ clock \in 0..MaxClock
  /\ IsService(service)
  /\ pc \in {"poll", "sweep", "drain", "send", "ended", "aborted"}
  /\ final \in BOOLEAN
  /\ hand \in Messages \cup {Nothing}
  /\ budget \in Nat
  /\ seen \in 0..clock
  /\ received \in 0..clock
  /\ sent \subseteq Invocations
  /\ owed \in [Dora -> Nat]

Init ==
  /\ clock = 0
  /\ service = NewService
  /\ pc = "poll"
  /\ final = FALSE
  /\ hand = Nothing
  /\ budget = 0
  /\ seen = 0
  /\ received = 0
  /\ sent = {}
  /\ owed = [r \in Dora |-> 0]

-----------------------------------------------------------------------------
(* HTTP handlers.  They read the clock before they take the lock, so an    *)
(* admission may be judged by a reading arbitrarily far behind.            *)

Waiting(r) == {i \in DOMAIN service.pending : service.pending[i].request = r}

HttpStep == UNCHANGED <<clock, lifecycle, seen, received, sent, owed>>

SubmitHttp(r, timeout, observed) ==
  /\ service.future[r] = "none" /\ Waiting(r) = {}
  /\ service.admitted < MaxInvokes
  /\ observed + timeout <= MaxClock
  /\ service' = SubmitHttpInvoke(service, r, observed + timeout, observed)
  /\ HttpStep

\* wait_for runs into the ticket's deadline: cancel_http_invoke(timed_out).
HttpTimer(r) ==
  /\ \E i \in Waiting(r) : service.pending[i].deadline <= clock
  /\ service' = CancelHttpInvoke(service, r, "timeout", clock)
  /\ HttpStep

\* The client goes away: cancel_http_invoke(timed_out=False).
HttpDisconnect(r) ==
  /\ Waiting(r) # {}
  /\ service' = CancelHttpInvoke(service, r, "cancelled", clock)
  /\ HttpStep

\* discovery_snapshot, endpoint_registrations, resolve_registered_endpoint,
\* tool_spec_snapshot: reads that notice lapsed leases.
HttpDiscovery(observed) ==
  /\ service' = ExpireLeases(service, observed)
  /\ HttpStep

\* GatewayRuntime.begin_close or close, from another thread, at any time.
ApplicationClose ==
  /\ service' = BeginClose(service, clock)
  /\ HttpStep

-----------------------------------------------------------------------------
(* The lifecycle thread.  Its readings of the clock are not older than its *)
(* previous step; the reader's stamps are in FIFO order.                   *)

Observations == seen..clock

Handled ==
  /\ pc = "poll"
  /\ pc' = "sweep"
  /\ seen' = clock
  /\ UNCHANGED <<clock, final, hand, budget, sent>>

\* The poll timed out, or handle_input rejected its input.
PollIdle == Handled /\ UNCHANGED <<service, received, owed>>

HandleCallerInvoke(r, remaining, observed) ==
  /\ Handled
  /\ service.accepting
  /\ service.admitted < MaxInvokes
  /\ observed + remaining <= MaxClock
  /\ service' = CallerInvoke(service, r, observed + remaining, observed)
  /\ owed' = [owed EXCEPT ![r] =
                IF TakesCallerInvoke(service, observed) THEN @ + 1 ELSE @]
  /\ UNCHANGED received

HandleRegister(reg, route, at, observed) ==
  /\ Handled
  /\ service.accepting
  /\ service' = ProviderRegister(service, reg, route, at, observed)
  /\ received' = at
  /\ UNCHANGED owed

HandleUnregister(wd, route, at, observed) ==
  /\ Handled
  /\ service.accepting
  /\ service' = ProviderUnregister(service, wd, route, at, observed)
  /\ received' = at
  /\ UNCHANGED owed

\* A response to a request that may have arrived, possibly not the first one.
HandleResponse(id, word, observed) ==
  /\ Handled
  /\ id \in sent
  /\ service' = ProviderResponse(service, id, word, observed)
  /\ UNCHANGED <<received, owed>>

HandleStatus(identity, at) ==
  /\ Handled
  /\ service' = EndpointStatus(service, identity, at)
  /\ received' = at
  /\ UNCHANGED owed

HandleInput ==
  \E observed \in Observations :
    \/ \E r \in Dora, remaining \in 0..Timeout :
         HandleCallerInvoke(r, remaining, observed)
    \/ \E id \in Invocations, word \in {"result", "accepted", "error"} :
         HandleResponse(id, word, observed)
    \/ \E at \in received..observed, route \in Endpoints :
         \/ \E reg \in Table!Registration :
              HandleRegister(reg, route, at, observed)
         \/ \E wd \in Table!Withdrawal :
              HandleUnregister(wd, route, at, observed)
         \/ \E identity \in Identity : HandleStatus(identity, at)

\* Mutation: the batch is one message short.
ShortBatch == DrainLimit - 1

\* How many messages a turn of the loop may dispatch, and the last drain.
Batch == DrainLimit
FinalBatch == Capacity

SweepOnce(observed) ==
  /\ pc = "sweep"
  /\ service' = Sweep(service, observed)
  /\ pc' = "drain"
  /\ budget' = Batch
  /\ seen' = clock
  /\ UNCHANGED <<clock, final, hand, received, sent, owed>>

\* take_outbound returns a message: it is claimed, and not yet sent.
Take ==
  /\ pc = "drain" /\ budget > 0
  /\ \E n \in Deliverable(service) :
       /\ hand' = service.outbound[n]
       /\ service' = TakeOutbound(service, n)
  /\ pc' = "send"
  /\ seen' = clock
  /\ UNCHANGED <<clock, final, budget, received, sent, owed>>

\* The batch is full, or take_outbound returns None.
EndDrain ==
  /\ pc = "drain"
  /\ \/ budget = 0 /\ UNCHANGED service
     \/ /\ budget > 0 /\ Deliverable(service) = {}
        /\ service' = DiscardOutbound(service)
  /\ pc' = IF final THEN "ended" ELSE "poll"
  /\ seen' = clock
  /\ UNCHANGED <<clock, final, hand, budget, received, sent, owed>>

\* The claimed message is out of the lifecycle thread's hands.
HandedOver ==
  /\ pc = "send"
  /\ hand' = Nothing
  /\ owed' = [r \in Dora |->
                IF hand.kind = "caller.invoke_response" /\ hand.request = r
                THEN owed[r] - 1 ELSE owed[r]]
  /\ seen' = clock
  /\ UNCHANGED <<clock, final, received>>

SendOk ==
  /\ HandedOver
  /\ sent' = IF hand.kind = "provider.invoke_request"
             THEN sent \cup {hand.id} ELSE sent
  /\ pc' = "drain"
  /\ budget' = budget - 1
  /\ UNCHANGED service

\* send_output raised, possibly after the message had crossed the transport;
\* the drain is abandoned, and with it the last drain of all.
SendFails ==
  /\ HandedOver
  /\ sent' \in IF hand.kind = "provider.invoke_request"
               THEN {sent, sent \cup {hand.id}} ELSE {sent}
  /\ service' = OutputFailed(service, hand, clock)
  /\ pc' = IF final THEN "aborted" ELSE "poll"
  /\ UNCHANGED budget

\* STOP, ERROR, end of stream, a reader error or the stop event: _finish_run.
FinishRun ==
  /\ pc = "poll"
  /\ service' = BeginClose(service, clock)
  /\ pc' = "drain"
  /\ final' = TRUE
  /\ budget' = FinalBatch
  /\ seen' = clock
  /\ UNCHANGED <<clock, hand, received, sent, owed>>

Lifecycle ==
  \/ PollIdle \/ HandleInput
  \/ \E observed \in Observations : SweepOnce(observed)
  \/ Take \/ SendOk \/ SendFails \/ EndDrain \/ FinishRun

Tick ==
  /\ clock < MaxClock
  /\ clock' = clock + 1
  /\ UNCHANGED <<service, lifecycle, seen, received, sent, owed>>

HttpThreads ==
  \/ \E r \in Http, observed \in 0..clock, timeout \in 1..Timeout :
       SubmitHttp(r, timeout, observed)
  \/ \E r \in Http : HttpTimer(r) \/ HttpDisconnect(r)
  \/ \E observed \in 0..clock : HttpDiscovery(observed)

Next == Tick \/ HttpThreads \/ ApplicationClose \/ Lifecycle

Spec == Init /\ [][Next]_vars

\* The clock and the HTTP timers run.
TimerSpec == Spec /\ WF_vars(Tick) /\ \A r \in Http : WF_vars(HttpTimer(r))

\* The lifecycle thread keeps taking steps: its poll has a timeout, and
\* send_output returns.
Scheduled == WF_vars(Lifecycle)

-----------------------------------------------------------------------------
(* Safety.                                                                 *)

DoraPending ==
  {i \in DOMAIN service.pending : service.pending[i].request \in Dora}

\* The mailbox never promises more room than it has: every Dora invocation
\* in flight holds exactly one slot for its answer, and queued messages and
\* held slots together fit the capacity.  A leaked slot would shrink the
\* gateway for good; a missing one would make a completion raise.
SlotsBalanced ==
  /\ service.reserved = Cardinality(DoraPending)
  /\ Len(service.outbound) + service.reserved <= Capacity

\* The correlation identities held against duplicates are those of the
\* invocations in flight, and no two invocations in flight share one.
IdentitiesMatch ==
  /\ service.logical = {service.pending[i].request : i \in DOMAIN service.pending}
  /\ \A i, j \in DOMAIN service.pending :
       service.pending[i].request = service.pending[j].request => i = j

\* An invocation not yet handed to the transport is pinned to the instance
\* that is registered now: a replaced, removed or lapsed provider never
\* receives, or keeps waiting, a request of its predecessor's.
UnclaimedPinnedToCurrent ==
  \A i \in DOMAIN service.pending :
    LET p == service.pending[i] IN
      ~p.claimed => /\ p.endpoint \in DOMAIN service.leases
                    /\ service.leases[p.endpoint].instance = p.instance

\* A readiness report is only kept for the registration that made it.
StatusesAreCurrent ==
  service.statuses
    \subseteq Table!Identities(service.leases, DOMAIN service.leases)

\* Every invocation in flight and unclaimed has its request queued, once: it
\* cannot be forgotten in the mailbox nor sent twice.
UnclaimedIsQueuedOnce ==
  \A i \in DOMAIN service.pending :
    ~service.pending[i].claimed =>
      \E n \in DOMAIN service.outbound :
        \A k \in DOMAIN service.outbound : service.outbound[k] = Invoke(i) <=> k = n

\* A Dora caller whose request was taken is owed exactly one reply, which is
\* in flight with its invocation, in the mailbox or in the sender's hand.
OneReplyPerRequest ==
  \A r \in Dora :
    owed[r] =
      Cardinality(Waiting(r))
        + Cardinality({n \in DOMAIN service.outbound :
                         /\ service.outbound[n].kind = "caller.invoke_response"
                         /\ service.outbound[n].request = r})
        + (IF hand.kind = "caller.invoke_response" /\ hand.request = r
           THEN 1 ELSE 0)

\* An HTTP caller that has its answer has no invocation left in flight.
AnsweredIsOver ==
  \A r \in Http : service.future[r] # "none" => Waiting(r) = {}

\* Once closing, nothing is in flight, and nothing ever will be.
ClosedIsEmpty == ~service.accepting => service.pending = <<>>

\* The last drain, bounded by the mailbox capacity, is long enough: if no
\* send failed, every Dora caller whose request was taken got its reply.
FinalDrainAnswersAll ==
  pc = "ended" => service.outbound = <<>> /\ \A r \in Dora : owed[r] = 0

-----------------------------------------------------------------------------
(* What QueryContract promises of each invocation.                         *)

stage == [i \in Invocations |->
            IF i \in DOMAIN service.pending
            THEN IF service.pending[i].claimed THEN "claimed" ELSE "queued"
            ELSE IF service.fate[i] # "none" THEN "concluded" ELSE "unknown"]

Contract == INSTANCE QueryContract WITH verdict <- service.fate

\* The threads and the service together implement the contract: at most one
\* hand-over and exactly one conclusion per invocation, whose outcome is a
\* provider's only after a hand-over and "unavailable" only before one.
ImplementsContract == Contract!Spec

-----------------------------------------------------------------------------
(* Liveness.                                                               *)

\* An HTTP caller gets an answer even if the lifecycle thread never takes
\* another step, having stopped or hanging inside send_output: the handler's
\* own deadline settles the invocation.
HttpCallerAnswered ==
  \A r \in Http : Waiting(r) # {} ~> service.future[r] # "none"

\* As long as the lifecycle thread runs, every invocation is concluded, whoever
\* asked for it: by its provider, by a sweep after its deadline, or by closing.
InvocationsConclude ==
  Scheduled =>
    \A i \in Invocations :
      i \in DOMAIN service.pending ~> service.fate[i] # "none"

\* As long as it runs, a reply owed to a Dora caller reaches the sender, unless
\* a failing send cut the last drain short: sweeping and draining in batches
\* of DrainLimit keeps up with one input per turn of the loop.
RepliesReachTheSender ==
  Scheduled =>
    \A r \in Dora :
      owed[r] > 0 ~> \/ hand.kind = "caller.invoke_response" /\ hand.request = r
                     \/ pc = "aborted"
=============================================================================
