# Verification of the Forge Gateway

TLA+ specifications of `adapter-forge-gateway` (`src/` in the paths below), the
TLC configurations that model-check them, and proofs checked with TLAPS.

The gateway is a Python process between HTTP/WebSocket clients and a robot's Dora
dataflow.  One *lifecycle thread* owns the Dora node: it polls for an event,
handles it, sweeps timeouts and drains two outbound mailboxes.  ASGI handlers,
image workers and the application's own shutdown run on other threads or in the
event loop and share state with it under locks.  What is hard about it is mostly
in the Tool Gateway: leases that lapse while work is pinned to them, bounded
mailboxes with reserved reply slots, Queries and Actions that must be concluded
exactly once by whichever of a response, a timer, a sweep, a disconnect, a failed
send or a shutdown comes first.  The provider SDK has the same races seen from the
other end, and the application has to end a handful of threads of which any may hang.

## Inventory

Lines refer to `src/src/forge_gateway/` unless another root is given.

### Endpoint Directory (`domain/tool_directory.py`)
*State*: leases by endpoint (instance, descriptor, registration stamp, expiry), a
registry revision that only grows and has an upper bound (`MAX_SAFE_INTEGER`).
*Operations*: `register_with_change` (register, renew, replace),
`unregister_with_change`, `expire`, `resolve`, `snapshot`.
*Hard*: operations are judged at the instant the reader stamped the input, which
may be behind what the directory has already seen; one call may draw several
revisions and must not start if they run out half way.
*Correct when*: only the configured route owns an endpoint's lease; no lapsed
lease is visible; a revision names one registration; every removal is reported to
the caller, whose pinned work depends on it; a renewal never shortens a lease.

### Tool Gateway, Query half (`services/tool_gateway_service.py`)
*State*, under one `RLock`: pending invocations, logical (public) identities,
outbound mailbox, reserved slots, endpoint readiness reports, HTTP futures.
*Operations*: admission (HTTP and public Dora), provider management messages,
responses, `take_outbound` (the claim), `output_failed`, `cancel_http_invoke`,
`sweep`, `begin_close`.
*Hard*: claim and send are not one step; deadlines are judged with clock readings
taken before the lock; mailbox slots are reserved on one path and used on another.
*Correct when*: at most one hand-over and exactly one conclusion per invocation;
slots balance; unclaimed work is pinned to the current instance; everyone is
answered.

### Tool Gateway, Action half, and ActionInvocationStore
(`services/tool_gateway_service.py`, `domain/action_invocations.py`)
*State*: retained invocations (phase, result, capped event history, concurrency
fence, pinned instance), Action exchanges in flight (`invoke`, `status`, `result`,
`control:*`), delivery cursors of Dora callers.
*Operations*: admission with idempotent replay, refresh, cancel, stop, exchange
responses and timeouts, provider events, instance removal, deadlines, retention.
*Hard*: outcome `unknown`; events that arrive before acceptance; a result and a
terminal event that race; a fence that must be kept while a provider may still
execute; eviction of results that somebody still reads.
*Correct when*: a result exists exactly for a terminal phase; a definite terminal
phase is final; while the pinned provider may still execute, the fence is held.

### Lifecycle thread and Dora adapters (`adapters/dora_runtime.py`, `adapters/dora_adapter.py`, `adapters/tool_dora.py`)
*State*: reader queue and event buffer (ticks counted, FIFO inputs bounded, other
inputs coalesced), stop flag, message in hand.
*Operations*: `_read_node`, `put`, `get`, `get_priority`, `handle_poll`,
`_maintain_outputs` (sweep, Tool drain, command drain), `_finish_run`.
*Hard*: overflow of a bounded FIFO is fatal; coalesced inputs, ticks and control events
overtake each other; the last drain is bounded; a failing send aborts a drain.
*Correct when*: FIFO inputs are handled in order and none is lost; the newest of the
other inputs survives; the loop ends when it is told to; the last drain answers every
caller.

### Gateway runtime, commands, image worker (`services/runtime_service.py`, `services/command_service.py`, `services/image_service.py`)
*State*: phase running/closing/closed, the close attempt and its owner, dispatch
leases; a bounded command queue; per-stream latest-frame slots with generations.
*Hard*: admission, claims and frames race with closing, which has two steps; a close
that fails half way is retried; a worker publishes a frame that was superseded.
*Correct when*: accepted commands are sent once, in order, or accounted for; nothing
is dispatched after closing; the newest frame is shown.

### Application (`application.py`)
*State*: phase new/starting/running/stopping/stopped/incomplete, started
resources, run ownership, close attempt and owner.
*Operations*: `start` with rollback, `run`, `close`, the server and watcher tasks.
*Hard*: start failing half way; close racing with start, with run and with itself;
cleanup that is incomplete and retried under a shared deadline.
*Correct when*: nothing is started once closing began; a quiescent close is outlived by
nothing; every call of close returns.

### Provider SDK (`src/src/forge_tool/`)
`ToolEndpointHandler` and its Dora binding run Tool operations in a provider: they
keep an execution record per request (retained with a bound), permits per
operation, an event emitter with its own sequence, and answer invoke, status,
result and control.  *Hard*: provider callbacks are awaited between reading and
writing a record; a retained record may be evicted and its request repeated; an event
is published while the emitter's lock is held and the response is still under way.
*Correct when*: permits balance and bound what runs; what clients are told of one
execution agrees; response and events are published in order; no task waits for ever.

### Controllers, configuration, codecs, catalogue
`controllers/` (Starlette routes; `tool_controller.py` holds the Query wait and the
server-sent event stream), `config.py`, `wire/`, endpoint models, `tool_catalog`,
static UI and CLI.  Apart from the Query wait and the event stream they are
stateless validation, formatting or assets.

### How the components interact
- The reader thread stamps inputs and puts them in the event buffer; the lifecycle
  thread pops one, calls the runtime's handler, then `sweep`, then repeatedly
  `take_outbound` / `send_output` / `output_failed`.
- HTTP handlers call the service directly and wait on futures that the lifecycle
  thread completes with `call_soon_threadsafe`.
- The service calls the directory and the Action store under its own lock.
- The application closes the runtime (`begin_close` before it joins the lifecycle
  thread, the server, the reader and the watcher; `close` only after the first two have
  ended), which closes the service, the command mailbox and the image worker.
- A provider's tasks share one `ToolEndpointHandler`; its binding publishes to the
  Dora node, from where messages reach the gateway's reader.
- Any of the server, the watcher and signal handlers may set the one stop event that
  the reader, the loop, the watcher and a start in progress look at.

## Modules

| module | models |
| --- | --- |
| `Leases` | The directory's table of leases as pure operators: verdicts, what is granted, what is removed, what has lapsed. |
| `EndpointDirectory` | The directory itself: one action per public operation, the clock it has observed, the revision. |
| `EndpointDirectoryProofs` | Its inductive invariant and theorems. |
| `QueryContract` | Abstract specification: what the gateway promises of one Query invocation. |
| `QueryService` | The state the service lock guards, and every Query operation on it as an operator. |
| `QueryGateway` | The threads that call those operations: lifecycle thread, HTTP handlers, closers; providers and callers. |
| `QueryGatewayProofs` | Three inductive invariants of the service under those threads, each in the next; the refinement of `QueryContract`. |
| `ActionStore` | `ActionInvocationStore` as operators on its table of retained executions: phases, fences, events, isolation, eviction, admission. |
| `ActionService` | The state the service lock guards, and every Action operation on it as an operator: exchanges, mailbox, lookups, controls, responses, events, removals. |
| `ActionGateway` | The threads that call those operations, the providers, and the truth about each execution. |
| `ActionGatewayProofs` | What every Action operation keeps, the inductive invariant of the service among its threads and providers, and theorems. |
| `EndpointExecutions` | What a provider's `ToolEndpointHandler` keeps, as operators: records, eviction, permits, what may be recorded, the ways a start ends. |
| `ToolEndpoint` | The tasks of a provider process: requests through `dispatch_input`, emissions through `_ActionEventEmitter`, its lock as a queue, the publication barrier. |
| `ToolEndpointProofs` | Its inductive invariant and theorems. |
| `GatewayRuntime` | `GatewayRuntime` with `CommandService` and `ImageEncodeWorker`, as operators. |
| `LifecycleContract` | Abstract specification: what the application promises of the parts it owns. |
| `GatewayApplication` | `GatewayApplication` with the main thread, other closers, and the loop, server, reader, watcher and worker it starts. |
| `GatewayApplicationProofs` | Its inductive invariant, theorems, and the refinement of `LifecycleContract`. |
| `DoraRunner` | `GatewayDoraRunner`'s reader and loop around `DoraEventBuffer`. |
| `DoraRunnerProofs` | Its inductive invariant and theorems. |
| `EventStream` | The generator behind `GET /invocations/{id}/events`, over `ActionStore`. |
| `EventStreamProofs` | Its inductive invariant and theorem. |
| `SequenceFacts` | Lemmas that several of the proofs cite: appending to and taking from a queue, of numbered items and of others. |
| `MC...` | Instances for TLC, one for each composition. |

`QueryService` uses `Leases` by `INSTANCE`, so the directory proved about and the
directory inside the Tool Gateway are one and the same table.  In `QueryGateway` the
revision counter is left out: it is only shown to clients.

### State and code
- `service` is the record of `ToolGatewayService`'s fields; `service.leases` is its
  `EndpointDirectory`.  Since each public method runs under the lock from its first
  statement to its last, a method is one step.  The clock is read *before* the lock
  is taken, so a step takes a reading `observed` that may be old.
- `pc`, `hand`, `budget`, `final` are where the lifecycle thread is in
  `GatewayDoraRunner.run`: `poll` (wait for input), `sweep`, `drain` (calling
  `take_outbound`), `send` (inside `send_output`, outside the lock).
- `service.fate`, `sent` and `owed` are history variables.
- A provider request id and its pending token are drawn fresh for each admission;
  the model names both by the ordinal of the admission.
- What a response says is abstracted to `Answers`; descriptors to whether they
  list the operation.

In the Action modules:
- Time is not counted.  Every comparison of a reading of the clock with an expiry or
  a deadline is a parameter of the action: `lapse` (the lease has run out),
  `late` (an exchange's deadline has passed), `overdue` (an execution's has).  This
  covers every placement of readings and deadlines at once.  The outcomes of one step
  need no relation to those of another, since only one lease is ever in the table, save
  for an HTTP admission: it reads the clock once (`tool_gateway_service.py:478`) and
  judges leases by that reading a second time.  No lease lapses then: one that was
  in the table was live by the same reading, and one granted since carries a later stamp,
  as the one reader stamps registrations in order and the loop handles them in order.
- An item of `service.items` is an `ActionInvocation` reduced to the fields that
  decide what the gateway does.  The history of events is `next` and `ended`: the
  store takes a provider's events in order only, so which events it retains follows
  from their number.  Ages are not modelled, so eviction may take any forgettable item.
- The directory is the instance registered for the one endpoint (`service.current`);
  `EndpointDirectory` is where leases and verdicts are looked at closely.
- `asking` is how far an HTTP handler has come in `submit_http_action`, which takes the
  lock three times.
- `run`, `emitted`, `sent` and `service.isolated` are the world outside: whether an
  execution runs, the events its provider has numbered, requests that have arrived, and
  executions whose instance has been unregistered, replaced or has lapsed.  Providers
  are assumed truthful and to handle the requests they get in order; they may
  stay silent, answer twice, or answer with an error.
- The lifecycle thread's turn (poll, sweep, drain) is not kept in `ActionGateway`: any
  of its steps may follow any other, except while a message is in its hand.

In the modules around the Tool Gateway:
- `ToolEndpoint` has one action from each await that may really wait to the next one;
  the handler's lock is never held across such an await and is not modelled, the
  emitter's is, and is a queue since `asyncio.Lock` is fair.  The provider is arbitrary:
  its callbacks return any of `Told`, or raise, at any time, and need not agree with
  each other.  Records are numbered because a task may hold one that was evicted.
- `GatewayApplication` has one action per part that `start` starts, per check, and per
  step of `_close_resources`; a join either finds its thread ended or times out.  Threads
  may hang.  `Raise` is an interrupt in the main thread during a close, at any of its
  steps but the join of the worker inside `GatewayRuntime.close` and the commit of the
  result; `cli.py:52` replaces the handler of SIGINT, so that hardly one is to be expected.
- In `GatewayRuntime` commands and frames are numbered; a frame's number is its
  generation.  `sent` and `failed` are history.
- In `DoraRunner` events are numbered as the node delivers them.  `handled`, `shown`,
  `accepted` and `newest` are history.  A failure of the reader takes three steps, for the
  loop may look at the recorded error before the event that tells of it is in the buffer.
- In `EventStream` an event is its number, as in `ActionStore`; `received` and
  `stream.settled` are history.  What one read returned is kept as a set, for it is sent in
  the order of the numbers.

## Runs

| run | question |
| --- | --- |
| `directory` | Is the lease table right under late stamps and a revision that runs out? |
| `query` | All threads around Queries: bookkeeping, pinning, replies, closing, and does it implement `QueryContract`? |
| `query_liveness` | Is an HTTP caller answered by its own timer even if the lifecycle thread hangs?  If it runs, are all invocations concluded and all replies handed to the sender?  With every reason for refusing a request. |
| `action` | Two executions compete for one fence: is the limit on concurrency kept, are outcomes final? |
| `action_http` | The three-step HTTP admission with replaced instances and leases that lapse in between: is the fence held, is an outcome only called definite once it is, is nothing pinned to an instance that is gone? |
| `action_talk` | Early events, full histories, lookups: are events in order, exchanges single, callers answered, and does every exchange end whatever its provider does? |
| `action_fence` | Does a fence that a terminal event lowered stay down?  It does not. |
| `action_assert` | Is an execution just admitted over HTTP there when it is read back?  Not always. |
| `provider` | Requests, cancelled starts, contradicting callbacks and failing sinks in one provider process: do permits and retention hold, do all answers agree, are events published in order, does every call return? |
| `shutdown` | Start, rollback, run, signals and two closers while threads hang or end: is the lifecycle contract implemented, is a quiescent close quiet, are commands accounted for and frames shown, does every close return? |
| `dora` | Reader and loop in every interleaving: are FIFO inputs kept, is the newest of the others, does the run end? |
| `stream` | Is the event stream ordered and finite, across cut-off histories and reconnects; does it skip only what has left the history; does one opened after the outcome show all there is? |

### Bounds
In the Query runs `MaxClock` stops the clock and `MaxInvokes` bounds admissions; a
lease and a deadline last one tick, so that they can lapse while work is queued, claimed or
answered.  `Capacity` 2 and 3 with one or two requests in flight fill the mailbox with
held slots, queued requests and replies.  Two instances on one endpoint are enough for
replacement, for stale withdrawal and for stale status.  `DrainLimit` 1, smaller
than the capacity, makes the ordinary drain leave work behind.  Admissions are the
only thing that creates an invocation and all bookkeeping is per invocation, so
two at a time show every pairwise race.

In the Action runs `MaxExchanges` bounds the exchanges of a behaviour, which
are what lookups, controls and admissions consume; three are an invoke, a lookup and a
control in flight together, or two invokes and what follows one of them.
`MaxEvents` bounds the events of an execution; with two of them, the first and the
terminal one, an early event, a repeated queueing and a terminal event that waits for
its result all occur.  `MaxConcurrency` 1 makes the fence of one execution matter to
another; a store of one or two items fills up.  `Forgets` says whether retention may
pass, `Asked` and `Outcomes` which lookups and outcomes occur in a run.  An execution
key is not admitted a second time after it was forgotten: the code could not know it
from a new one.  `action` checks one of each set of states that differ only in which
Dora key is which; no property or action tells them apart.

In the other runs: `provider` has two executions, two requests and two emissions on one
permit, one retained record and one early event, so that every table is full as soon
as it is used; `MaxRecords` bounds the records ever made.  `shutdown` has the main
thread, one more closer and two attempts, enough for an attempt that ends while
another thread waits for it and for a retry after it; `MaxWork` 2 lets a command
or frame wait behind another.  `dora` has a FIFO of two, two coalesced inputs, four
events and one pending tick: a FIFO overflows, an input is overwritten while it waits
and while it is in hand.  `stream` has a history of two and six events, so that
it is cut off under a client that reads, and four connections.

### Fairness
`TimerSpec` assumes that time passes and that a handler's own timer fires; nothing
of the lifecycle thread.  `Scheduled`, the hypothesis of two of the three properties of
`query_liveness`, adds that the lifecycle thread keeps taking steps: its loop has no
exit but `FinishRun`, its poll has a timeout, and `send_output` is assumed to
return.  `ActionGateway!LifecycleSpec` assumes that a send returns and that each
exchange is swept after its deadline again and again: the loop sweeps every turn, a
sweep takes everything that is overdue, and deadlines are finite.  It is strong
fairness since the thread may not sweep while a message is in its hand.  No fairness is
assumed of providers, callers or closers there.

`ToolEndpoint` assumes that the event loop runs every task that may go on, and that
the provider's callbacks and the sink return at some time: nothing in the SDK bounds
them.  `GatewayApplication` assumes that the main thread, closers inside a call, the
worker and a loop that has a command take their steps, that the loop ends once the
stop event is set (`DoraRunner!RunEnds`) and that the server does once it was told
(uvicorn's graceful shutdown has a timeout); nothing of the reader, which may block in
the node, of the watcher or of signals.  `DoraRunner` assumes that both threads run, not
that the node delivers.  `EventStream` assumes that the server goes on with a response
whose client stays.

CHECK_DEADLOCK is off where a gateway that has closed, or a clock that has reached
its bound, may come to rest.

## Proofs

`EndpointDirectoryProofs` proves for every set of routes, instances and
descriptors, every finite set of endpoints, every lease TTL and every revision bound,
from the assumptions named in `Leases` and `EndpointDirectory`, all that the run
`directory` checks and five invariants and action properties more:

| theorem | property |
| --- | --- |
| `TypeCorrect` | `TypeOK` |
| `RoutesOwn` | `RouteOwnership` |
| `StampsIdentify` | `StampsDistinct` |
| `PreflightSuffices` | `RevisionNeverOverruns` |
| `LapsedAreGone` | `NoLapsedLeaseSurvives` |
| `RenewalExtends` | `RenewalNeverShortens` |
| `RevisionTracks` | `RevisionTracksMembers` |
| `RemovalsAreReported` | `RemovalsReported` |

The inductive invariant `IInv` joins the type invariant with ownership, distinct stamps,
the bound on the revision, and `GrantedInThePast`.  Stamps stay distinct because a new
one is above the counter's old value and no old one is: hence "none is from the
future" in `StampsDistinct`.  A renewal does not shorten a lease because no lease was
granted after the last stamp of the reader, which `GrantedInThePast` says and the FIFO
order of stamps keeps.  The last two theorems rest on one lemma per operation,
`...Changes`, which names the registrations it ends and makes, and on `ChangesAreSeen`:
every registration made carries the revision the step leaves, which no earlier one
carried.

`QueryGatewayProofs` proves for all endpoints, instances, requests, capacities,
timeouts and bounds, from the assumptions named in `QueryService` and `QueryGateway`,
every invariant that the run `query` checks, the refinement it checks, and four
invariants more:

| theorem | property |
| --- | --- |
| `IdentitiesAlwaysMatch` | `IdentitiesMatch` |
| `UnclaimedAlwaysPinnedToCurrent` | `UnclaimedPinnedToCurrent` |
| `StatusesAlwaysCurrent` | `StatusesAreCurrent` |
| `AnsweredAlwaysOver` | `AnsweredIsOver` |
| `ClosedAlwaysEmpty` | `ClosedIsEmpty` |
| `GatewayImplementsContract` | `ImplementsContract` |
| `TypeCorrect` | `TypeOK` |
| `SlotsAlwaysBalanced` | `SlotsBalanced` |
| `UnclaimedAlwaysQueuedOnce` | `UnclaimedIsQueuedOnce` |
| `OneReplyAlwaysPerRequest` | `OneReplyPerRequest` |
| `FinalDrainAlwaysAnswersAll` | `FinalDrainAnswersAll` |

There are three inductive invariants, each made of the one before it and of what the
next theorems need; the proof of a step of the larger one starts from the step of the
smaller one.

- `IInv`, that is `Sound(service)`: the first five, and as much of the record's shape as
  the operators rely on (`WellFormed`).  Each depends on the others: an answer reaches
  the HTTP caller of a finished invocation only, so an answered one has none left
  because no two invocations share an identity; an admission keeps identities apart
  because the duplicate check looks at exactly those in flight.  There is one lemma per
  operation, and two carry most of the weight.  `FinishKeeps` says that concluding any
  set of invocations keeps what holds of the rest.  `RemovedSound` takes the table
  before a mutation and the table after it: if every registration that is no longer
  there is named in the report (`Accounted`), then finishing the work of those named
  leaves only work of registrations that are there.
- `FateInv` adds `Fated`, which reads an invocation's fate off the service (in flight or
  not, claimed or not, and with which answer it ended), and `DispatchedIsClaimed`, which ties
  the abstract hand-over to the claim: an invocation counts as sent when it is in the
  sender's hand, and only a claimed one is.  Every step but a send is
  `Moving` (any set of invocations is concluded, then perhaps one more is admitted) or
  `Claiming`, and one lemma for each maps it to steps of the contract.  Since a claim is what separates the outcomes of an invocation that
  was handed over from those of one that was not, `Concluding` is where the
  contract's conditions on outcomes are met.
- `MailInv` adds the mailbox.  `Boxed(s, k)` holds of a service that has `k` slots
  reserved beyond those of its invocations: `k` is one in the middle of an
  admission, which reserves the slot of the reply before it queues the request, and
  zero between operations.  It joins `Typed`, `Balanced(s, k)` (held slots are the Dora
  invocations in flight plus `k`; messages and held slots fit the capacity) and
  `QueuedOnce`.  `RepliesAccounted` compares the replies owed with those in flight, in
  the mailbox and in the sender's hand, as cardinalities, and needs `QueuedOnce` and
  the distinctness of identities to say that an operation moves exactly one.
  `LastDrain` says that a last drain finds the gateway closed and has budget left for
  all that the mailbox holds.  `Steady` is what every operation of another thread does
  while the last drain runs: it adds no message.

Nothing in these proofs depends on how stale the observed clocks are, so neither do
the theorems.

`GatewayApplicationProofs` proves, for any number of closers, commands, frames and
attempts, any capacity of the command mailbox and every placement of the timeouts:

| theorem | property |
| --- | --- |
| `TypeCorrect` | `TypeOK` |
| `QuiescentAlwaysQuiet` | `QuiescentIsQuiet` |
| `CommandsAlwaysAccounted` | `CommandsAccounted` |
| `ApplicationImplementsContract` | `ImplementsContract` |

That a quiescent close is outlived by nothing depends on what the closing thread learned
many steps earlier.  `DoneHasEnded` keeps that knowledge: a part in the closer's
`done` has ended and will not start again.  It is kept because only one thread closes at a
time (`OneCloses`), because nothing is started but by `start`, in its order
(`StartedInOrder`, `RuntimeComesFirst`), and because an attempt and its owner are paired
(`AttemptsRecorded`).  `StoppedIsQuiet` carries it on to the phase, the recorded
results and a closed runtime.  The commands rest on `LeaseIsTheLoops` (a dispatch
lease is out exactly while the loop has a command in hand) and on `Numbered`, which
orders those sent, in hand and queued.

`DoraRunnerProofs` proves, for any inputs, any capacity of the FIFO and any number of
events:

| theorem | property |
| --- | --- |
| `TypeCorrect` | `TypeOK` |
| `FifoAlwaysKept` | `FifoKept` |
| `LatestAlwaysKept` | `LatestKept` |

`TakenInOrder` and `WaitingInOrder` say together that FIFO inputs in the buffer continue
those handled, with the one in hand between them, and that the buffer's count is right:
the overflow is decided by the count, not by the buffer.  That none is skipped
silently needs `FailureIsTold`, since an input that overflows is dropped with a failure
that must still reach the loop, and `EndIsLast`, since the sentinel that ends the loop
would otherwise hide what is behind it.  `NewestIsKnown` locates the newest of a
coalesced input; `HandsAreEmpty` and `ReaderAhead` say what the reader and the loop hold.

`EventStreamProofs` proves `StreamAlwaysSound`, which states `StreamIsSound`, for any
capacity of the history and any number of events and connections. It does not say that
nothing is skipped: an open stream that a cut-off overtakes goes on with the oldest
event left, and one that is open when the outcome comes may end without the last events.
It says that nothing else is skipped, and this needs `NothingSkipped`, which says it of
the events in between, read and not yet sent, too: each event below one of them is among
them, or is cut off (`CutOff`). `CursorBetween` puts what was sent before the cursor and
what was read behind it. A stream that was opened after a definite outcome ends with all
there is because of `SettledHasAll`, which remembers that the outcome was settled before
the read that found nothing, and of `EndsWithResult`: a terminal event is not read
before its result is there.

`ToolEndpointProofs` proves, for any keys, requests, emissions, permits, retained
records and early events, and whatever the provider's callbacks return or raise:

| theorem | property |
| --- | --- |
| `TypesAreKept` | `TypeOK` |
| `AdmissionAlwaysHolds` | `AdmissionHolds` |
| `AnswersAlwaysAgree` | `AnswersAgree` |
| `EventsAlwaysInOrder` | `EventsInOrder` |

`HandlerSound` is what each operation of `EndpointExecutions` keeps by itself: the
table, the permits, and that a record knows one end at most.  Everything else in `IInv`
is said of one record at a time, so that a step has to be looked at for the record it
concerns only: `Elsewhere` says that a record which a step leaves alone keeps what held
of it, and `OneRecord` puts the two together.  `LocksAt` pairs an emitter's lock with the
tasks that hold it or wait for it.  `TurnAt` is why a terminal event is the last:
the `pending` mark lets one be established at a time, and progress that waits for its
number together with it is ahead of it in the queue of the lock.  So no number is drawn
after that of a terminal event (`NumbersAt`).  `WayAt` says where numbered events are,
on the wire, in the hand of the task that publishes the response, in the emitter's
buffer or with the holder of the lock, in that order; `WholeAt` counts them, unless a
publication failed.

`AgreeAt` holds of retained records only, and `AnswersAgree` counts the published events
only of those.  An emission asks the provider for the result and then looks the record up
again by its key (`handler.py:570`).  If its own record was evicted meanwhile and the
key admitted again, the end is noted in the new record, while the event is published
by the emitter of the old one; a provider that contradicts itself may then have two ends
of one execution published.  It takes three records, which the run `provider` does not have.

Their assumptions on constants are the ones that TLC evaluates in every run: capacities,
bounds and timeouts are numbers, sets of names are disjoint where the code's types
are, and the values that stand for "nothing" are no names.

`ActionGatewayProofs` proves, for any executions, instances, commands, capacities and
bounds, what the runs `action`, `action_http` and `action_talk` check but liveness, and that slots
balance:

| theorem | property |
| --- | --- |
| `TypesCorrect` | `TypeOK` |
| `SlotsAreBalanced` | `SlotsBalanced` |
| `ExchangesRemainSingle` | `ExchangesAreSingle` |
| `EventsRemainOrdered` | `EventsAreOrdered` |
| `FencesCoverRunning` | `FenceCoversRunning` |
| `ConcurrencyIsRespected` | `ConcurrencyRespected` |
| `DefiniteRemainsOver` | `DefiniteMeansOver` |
| `PinsStayCurrent` | `PinnedToCurrent` |
| `OutcomesRemainFinal` | `OutcomesAreFinal` |
| `CallersRemainAnswered` | `CallersAreAnswered` |

The inductive invariant has two halves, `Boxed(service, 0)` and
`Truthful(service, Env)`, besides the types of the other variables (`Shape`).

- `Boxed(s, k)` is what the service keeps by itself, with `k` slots reserved half way
  through an operation: the balance of slots, one exchange of a purpose and one
  request for an unclaimed exchange, requests that agree with their exchanges
  (`RequestsAgree`), and events that lie before the cursor and in order (`EventsFit`).
  The last needs `CursorsKept`: without a cursor that is no further than the item's next
  event, a number could be queued twice.  A terminal event is the last one queued because
  the item has ended and the event's number is the last it has.
- `Truthful(s, e)` compares the service with its environment `e`: what runs, which
  requests have left the mailbox and which have arrived, who has been asked for.  `Free` are
  the executions that run or may still be started, by an invoke that waits or has left
  the mailbox, at an instance that was not isolated.  Each of them holds its fence
  (`Covers`), which bounds how many there are (`Few`), and none has a definite outcome
  (`DefiniteOver`).  `FenceCoversRunning` and `DefiniteMeansOver` speak of executions that
  run and are not inductive: an invoke in the sender's hand may yet be started, and a failure
  before dispatch frees a fence.  That failure is harmless because an invoke that waits
  was not sent before (`InvokedOnce`) and one that was sent is claimed
  (`OutClaimed`), so its outcome is unknown instead.  `Hinted` is why a result that the
  provider has forgotten may free the fence, `Begun` that nothing starts uninvoked, and
  `Freshness` that an execution which is admitted leaves no trace from before.

The proof has three layers.  About the operators there is one lemma for each operation of
`ActionService`, `...Sound` or `...Boxed`: it keeps `Boxed`; `Moved(s, t, D)` says what it
may do to executions, where only those in `D`, which the operation was told are over, may
lose a fence or gain a definite outcome without having been isolated or dropped unsent; and
`Paid` or `Served` counts replies per caller, as cardinalities of positions in the mailbox.
Three lemmas about an arbitrary service and environment, `StepKeeps`, `TakeKeeps` and
`AdmitKeeps`, carry `Truthful` through a step that is `Moved`, through the claim of a message
and through an admission.  Last, one lemma per action of `Next` shows that it is one of
those three (`Effect`).  For answers and events this is where the truthfulness of providers
is used: what they say is over is in `D` (`TruthsTold`).  The bounds of the model
(`MaxExchanges`, `MaxEvents`) are used for types only.

`PinnedToCurrent` holds between any two steps because whatever takes a registration out
of the table ends the exchanges pinned to it in the same step.  An HTTP admission is no
exception although it looks at the directory twice: by the argument given above for its
one reading of the clock, the second look removes nothing.  The two properties that
TLC finds violated, `EndedFenceStaysDown` and `AdmittedIsThere`, have no theorem.

### Only model-checked

Every invariant and action property that a passing run checks is also a theorem.  Liveness
under fairness, and whatever speaks of ENABLED, is out of reach of the provers and stays with
TLC: that callers are answered and invocations and replies concluded
(`query_liveness`), that exchanges end (`action_talk`), that every call returns
(`provider`), that closers return and the newest frame is shown (`shutdown`), that a run
ends (`dora`) and a stream too (`stream`).  What a recursive definition computes would stay
with TLC as well, but no module that is proved about has one.

## Disagreements

- `docs/api.md:208` says that a provider response must complete service processing
  before its deadline.  `adapters/tool_dora.py:90` reads the clock before it waits for
  the service lock, and the deadline arbiter uses that reading, so a response that
  waits across its deadline still wins.  The models follow the code: `observed` may be
  older than the step that uses it.
- The terminal event of an execution whose outcome is unknown lowers its concurrency
  fence, as the comment at `domain/action_invocations.py:300` explains.  If its invoke
  exchange is still pending, the timeout of that exchange raises the fence again: the
  terminal event overtook the answer to the invoke, and nothing will lower the fence
  any more but a result or the removal of the instance (run `action_fence`).
- A comment at `domain/action_invocations.py:376` says that Sessions have no deadline.
  Those of Dora callers are admitted with one (`tool_gateway_service.py:1119`) and are
  made unknown by the sweep; `ActionService!Sweep` does not tell them apart either.
- `submit_http_action` asserts that the execution it has just admitted can be read back
  (`tool_gateway_service.py:568`), without the lock under which it was admitted.  In a
  full store, the removal of the instance and another admission between the two
  leave nothing to read (run `action_assert`).

## Plan

1. `ActionContract`: what is promised of one execution (states and outcomes seen by its
   caller), implemented by `ActionGateway`.
2. A composition of `ToolEndpoint` with the gateway in place of the truthful providers of
   `ActionGateway`.
3. Proof of the refinement that 1 states; it can start from `Moved` and `Admitted` of
   `ActionGatewayProofs`, which already name what a step does to an execution.

## Not modelled

Formatting, validation, wire codecs, configuration parsing, static files and the
CLI keep no state between calls.  Sizes in bytes, image encoding and JSON schema
checks are left out of the models of components that use them.

In the provider, Query invokes and controls are left out, which keep no state; so is a
response that cannot be encoded even as an error.  Of the runtime, the
snapshots for user interfaces (joint states, status of nodes, recording and playback)
are overwritten by each input and read under one lock; `block_command_dispatch` has no
caller; `GatewayRuntime.close` is called from one attempt at a time, so its own waiters
never wait.  What an open event stream may miss, the terminal event between its last
read and its last look at the phase (`tool_controller.py:434`), is stated as an exception
in `StreamIsSound`: a client that reconnects with its last event id receives it while the
invocation is retained.
