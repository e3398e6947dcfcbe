-------------------------- MODULE GatewayApplication --------------------------
(***************************************************************************)
(* GatewayApplication (src/forge_gateway/application.py) and the threads   *)
(* it owns: the main thread, which starts it, runs the Dora loop and       *)
(* closes it (cli.py); other threads that close it; the Dora reader, the   *)
(* launcher watcher and the server; and the worker of the runtime they     *)
(* share.  Any of them may set the stop event, or end by itself.           *)
(***************************************************************************)
EXTENDS GatewayRuntime, Functions

CONSTANTS
  None,          \* no runtime yet, no result yet
  Main,          \* the main thread
  Others,        \* other threads that call close
  MaxWork,       \* bound of the model: commands and frames together
  MaxAttempts    \* bound of the model: attempts to close

ASSUME ApplicationAssumption ==
  /\ Main \notin Others
  /\ MaxWork \in Nat /\ MaxAttempts \in Nat \ {0}
  /\ None \notin Runtime \cup {"quiescent", "incomplete", "raised"}

Closers == {Main} \cup Others
Steps == {"loop", "server", "reader", "watcher", "runtime"}

VARIABLES
  phase,      \* GatewayApplication._phase
  stop,       \* stop_event
  starting,   \* how far start has come; it holds the lifecycle lock throughout
  run,        \* the run loop: not begun, active, over; a command in its hands
  thread,     \* the reader, the watcher and the server
  exit,       \* server.should_exit
  runtime,    \* the GatewayRuntime, None before start creates it
  closer,     \* how far each call of close, or start's rollback, has come
  attempts,   \* what each attempt to close came to
  attempt,    \* the attempt in progress, or 0
  sent,       \* commands sent, in order
  failed      \* commands whose sending failed

vars == <<phase, stop, starting, run, thread, exit, runtime, closer, attempts,
          attempt, sent, failed>>

Closing == {"begin", "loop", "server", "reader", "watcher", "runtime",
            "stopping", "joining", "commit"}
Returned == {"quiescent", "incomplete", "raised"}

TypeOK ==
  /\ phase \in {"new", "starting", "running", "stopping", "stopped",
                "incomplete"}
  /\ stop \in BOOLEAN /\ exit \in BOOLEAN
  /\ starting \in [stage : {"idle", "runtime", "reader", "watcher", "server",
                            "waiting", "rollback", "over"},
                   active : BOOLEAN]
  /\ run \in [stage : {"idle", "active", "over"},
              command : Nat, leased : BOOLEAN]
  /\ thread \in [{"reader", "watcher", "server"} ->
                   {"none", "alive", "serving", "ended"}]
  /\ runtime \in {None} \cup Runtime
  /\ closer \in [Closers ->
       [stage : {"out", "entering", "waiting"} \cup Closing \cup Returned,
        attempt : 0..MaxAttempts, done : SUBSET Steps]]
  /\ attempts \in Seq({None} \cup Returned)
  /\ attempt \in 0..MaxAttempts
  /\ sent \in Seq(Nat \ {0}) /\ failed \subseteq Nat \ {0}

Idle == [stage |-> "out", attempt |-> 0, done |-> {}]

Init ==
  /\ phase = "new" /\ stop = FALSE /\ starting = [stage |-> "idle", active |-> FALSE]
  /\ run = [stage |-> "idle", command |-> 0, leased |-> FALSE]
  /\ thread = [t \in {"reader", "watcher", "server"} |-> "none"]
  /\ exit = FALSE /\ runtime = None
  /\ closer = [c \in Closers |-> Idle]
  /\ attempts = <<>> /\ attempt = 0
  /\ sent = <<>> /\ failed = {}

\* Mutation: start does not hold the lock while it starts the parts.
LockIgnored == TRUE

\* The lifecycle lock is held from start to its end, rollback included; no
\* other holder of it waits for anything.
LockFree == starting.stage \in {"idle", "over"}

-----------------------------------------------------------------------------
(* The main thread starts the application, ...                             *)

Enters(stage) == starting' = [stage |-> stage, active |-> FALSE]

Start ==
  /\ starting.stage = "idle"
  /\ IF phase = "new"
     THEN phase' = "starting" /\ starting' = [stage |-> "runtime", active |-> TRUE]
     ELSE Enters("over") /\ UNCHANGED phase
  /\ UNCHANGED <<stop, run, thread, exit, runtime, closer, attempts, attempt,
                 sent, failed>>

\* One part after the other; what was started is looked after even if its own
\* start fails.
StartPart ==
  /\ starting.active /\ starting.stage # "waiting"
  /\ CASE starting.stage = "runtime" ->
            runtime' = NewRuntime /\ Enters("reader") /\ UNCHANGED thread
       [] starting.stage = "reader" ->
            thread' = [thread EXCEPT !.reader = "alive"]
            /\ Enters("watcher") /\ UNCHANGED runtime
       [] starting.stage = "watcher" ->
            thread' = [thread EXCEPT !.watcher = "alive"]
            /\ Enters("server") /\ UNCHANGED runtime
       [] starting.stage = "server" ->
            thread' = [thread EXCEPT !.server = "alive"]
            /\ Enters("waiting") /\ UNCHANGED runtime
  /\ UNCHANGED <<phase, stop, run, exit, closer, attempts, attempt, sent, failed>>

\* _ensure_startup_active after each of them; after the last one,
\* _wait_for_server_startup and _ensure_server_healthy as well.
StartChecks ==
  /\ starting.stage \in {"reader", "watcher", "server", "waiting"}
  /\ ~starting.active /\ ~stop
  /\ starting.stage = "waiting" => thread.server = "serving"
  /\ starting' = [starting EXCEPT !.active = TRUE]
  /\ UNCHANGED <<phase, stop, run, thread, exit, runtime, closer, attempts,
                 attempt, sent, failed>>

StartCommits ==
  /\ starting = [stage |-> "waiting", active |-> TRUE]
  /\ phase' = "running" /\ Enters("over")
  /\ UNCHANGED <<stop, run, thread, exit, runtime, closer, attempts, attempt,
                 sent, failed>>

Begins(c, number) ==
  closer' = [closer EXCEPT
    ![c] = [stage |-> "begin", attempt |-> number, done |-> {}]]

\* Startup was cancelled, timed out, or a part of it raised: rollback.
StartFails ==
  /\ starting.stage \in {"runtime", "reader", "watcher", "server", "waiting"}
  /\ phase' = "stopping" /\ Enters("rollback") /\ Begins(Main, 0)
  /\ UNCHANGED <<stop, run, thread, exit, runtime, attempts, attempt, sent,
                 failed>>

\* ... runs the Dora loop, if start succeeded and nobody closed it since, ...
Run ==
  /\ starting.stage = "over" /\ phase = "running" /\ run.stage = "idle"
  /\ closer[Main].stage = "out"
  /\ run' = [run EXCEPT !.stage = "active"]
  /\ UNCHANGED <<phase, stop, starting, thread, exit, runtime, closer, attempts,
                 attempt, sent, failed>>

Work == runtime.accepted + FoldFunction(+, 0, runtime.frame)

LoopStep == UNCHANGED <<phase, stop, starting, thread, exit, closer, attempts,
                        attempt>>

\* A frame arrives and goes to the worker.
LoopSubmits(i) ==
  /\ run.stage = "active" /\ run.command = 0 /\ Work < MaxWork
  /\ runtime' = Submit(runtime, i)
  /\ UNCHANGED <<run, sent, failed>> /\ LoopStep

\* drain_commands takes a command, ...
LoopTakes ==
  /\ run.stage = "active" /\ run.command = 0 /\ CanTake(runtime)
  /\ run' = [run EXCEPT !.command = Head(runtime.mailbox)]
  /\ runtime' = Take(runtime)
  /\ UNCHANGED <<sent, failed>> /\ LoopStep

\* ... handle_command claims a lease for it, or drops it, ...
LoopClaims ==
  /\ run.command # 0 /\ ~run.leased
  /\ IF CanClaim(runtime)
     THEN runtime' = Claim(runtime) /\ run' = [run EXCEPT !.leased = TRUE]
     ELSE run' = [run EXCEPT !.command = 0] /\ UNCHANGED runtime
  /\ UNCHANGED <<sent, failed>> /\ LoopStep

\* ... and sends it, or records that it could not.
LoopSends ==
  /\ run.leased
  /\ run' = [run EXCEPT !.command = 0, !.leased = FALSE]
  /\ runtime' = Return(runtime)
  /\ \/ sent' = Append(sent, run.command) /\ UNCHANGED failed
     \/ failed' = failed \cup {run.command} /\ UNCHANGED sent
  /\ LoopStep

\* runner.run returns: the stop event, the end of the input, an error.
LoopEnds ==
  /\ run.stage = "active" /\ run.command = 0
  /\ run' = [run EXCEPT !.stage = "over"]
  /\ UNCHANGED <<runtime, sent, failed>> /\ LoopStep

-----------------------------------------------------------------------------
(* The other threads.                                                      *)

ThreadStep ==
  UNCHANGED <<phase, starting, run, exit, closer, attempts, attempt, sent,
              failed>>

\* A signal handler, or the route that stops the gateway.
RequestShutdown ==
  /\ ~stop /\ stop' = TRUE
  /\ UNCHANGED <<thread, runtime>> /\ ThreadStep

ServerStarts ==
  /\ thread.server = "alive" /\ thread' = [thread EXCEPT !.server = "serving"]
  /\ UNCHANGED <<stop, runtime>> /\ ThreadStep

\* It serves a request that admits a command.
ServerEnqueues ==
  /\ thread.server = "serving" /\ Work < MaxWork
  /\ CanOffer(runtime) /\ runtime' = Offer(runtime)
  /\ UNCHANGED <<stop, thread>> /\ ThreadStep

\* It was told to exit, or failed; either way everything else is to stop.
ServerEnds ==
  /\ thread.server \in {"alive", "serving"}
  /\ thread' = [thread EXCEPT !.server = "ended"] /\ stop' = TRUE
  /\ UNCHANGED runtime /\ ThreadStep

\* The watcher ends with the launcher, which it takes for a reason to stop, or
\* because there is nothing to watch.
WatcherEnds ==
  /\ thread.watcher = "alive"
  /\ thread' = [thread EXCEPT !.watcher = "ended"] /\ stop' \in {stop, TRUE}
  /\ UNCHANGED runtime /\ ThreadStep

ReaderEnds ==
  /\ thread.reader = "alive" /\ thread' = [thread EXCEPT !.reader = "ended"]
  /\ UNCHANGED <<stop, runtime>> /\ ThreadStep

\* The worker of the runtime.
EncoderStep ==
  /\ runtime # None
  /\ \/ CanTakeFrame(runtime) /\ runtime' = TakeFrame(runtime)
     \/ /\ runtime.job # NoJob
        /\ runtime' \in {PublishFrame(runtime), DropFrame(runtime)}
     \/ CanExit(runtime) /\ runtime' = Exit(runtime)
  /\ UNCHANGED <<stop, thread>> /\ ThreadStep

-----------------------------------------------------------------------------
(* Closing.                                                                *)

Stage(c, stage) == closer' = [closer EXCEPT ![c].stage = stage]

CloseStep == UNCHANGED <<starting, run, thread, sent, failed>>

\* A thread calls close; the main thread does when start failed or run is over.
\* Only a call that left something running is made again.
Close(c) ==
  /\ closer[c].stage \in {"out", "incomplete", "raised"}
  /\ c = Main => starting.stage = "over" /\ run.stage # "active"
  /\ Stage(c, "entering") /\ stop' = TRUE
  /\ UNCHANGED <<phase, exit, runtime, attempts, attempt>> /\ CloseStep

\* With the lifecycle lock: over already, nothing ever started, somebody else
\* is at it, or this thread is the owner of a new attempt.
Enter(c) ==
  /\ closer[c].stage = "entering" /\ LockFree
  /\ \/ /\ phase \in {"new", "stopped"}
        /\ phase' = "stopped" /\ Stage(c, "quiescent")
        /\ UNCHANGED <<attempts, attempt>>
     \/ /\ phase \notin {"new", "stopped"} /\ attempt # 0
        /\ closer' = [closer EXCEPT ![c].stage = "waiting",
                                    ![c].attempt = attempt]
        /\ UNCHANGED <<phase, attempts, attempt>>
     \/ /\ phase \notin {"new", "stopped"} /\ attempt = 0
        /\ Len(attempts) < MaxAttempts
        /\ phase' = "stopping"
        /\ attempts' = Append(attempts, None) /\ attempt' = Len(attempts')
        /\ Begins(c, attempt')
  /\ UNCHANGED <<stop, exit, runtime>> /\ CloseStep

\* attempt.completed.wait()
Waited(c) ==
  /\ closer[c].stage = "waiting" /\ attempts[closer[c].attempt] # None
  /\ closer' = [closer EXCEPT
       ![c] = [Idle EXCEPT !.stage = attempts[closer[c].attempt]]]
  /\ UNCHANGED <<phase, stop, exit, runtime, attempts, attempt>> /\ CloseStep

\* _close_resources admits nothing more and tells everything to stop.
BeginResources(c) ==
  /\ closer[c].stage = "begin"
  /\ runtime' = IF runtime = None THEN None ELSE BeginClose(runtime)
  /\ stop' = TRUE /\ exit' = (thread.server # "none") /\ Stage(c, "loop")
  /\ UNCHANGED <<phase, attempts, attempt>> /\ CloseStep

After == [loop |-> "server", server |-> "reader", reader |-> "watcher",
          watcher |-> "runtime"]
Ended(step) ==
  IF step = "loop" THEN run.stage # "active"
  ELSE thread[step] \in {"none", "ended"}

\* The four joins, against one deadline: each has ended, or times out.
Join(c) ==
  LET step == closer[c].stage
  IN /\ step \in DOMAIN After
     /\ closer' = [closer EXCEPT
          ![c].stage = After[step],
          ![c].done = IF Ended(step) THEN @ \cup {step} ELSE @]
     /\ UNCHANGED <<phase, stop, exit, runtime, attempts, attempt>> /\ CloseStep

\* Mutation: the server may still be serving.
LoopIsOver(done) == "loop" \in done

\* The runtime is closed only when nothing uses it any more.
MayCloseRuntime(done) == {"loop", "server"} \subseteq done

CloseRuntime(c) ==
  /\ closer[c].stage = "runtime"
  /\ IF MayCloseRuntime(closer[c].done) /\ runtime # None
     THEN IF runtime.phase = "closed"
          THEN /\ closer' = [closer EXCEPT ![c].stage = "commit",
                                           ![c].done = @ \cup {"runtime"}]
               /\ UNCHANGED runtime
          ELSE runtime' = Stop(BeginClose(runtime)) /\ Stage(c, "joining")
     ELSE /\ closer' = [closer EXCEPT ![c].stage = "commit",
               ![c].done = IF runtime = None THEN @ \cup {"runtime"} ELSE @]
          /\ UNCHANGED runtime
  /\ UNCHANGED <<phase, stop, exit, attempts, attempt>> /\ CloseStep

\* GatewayRuntime.close waits for the leases and the worker, with timeouts.  It
\* has not succeeded if any of its steps raised, but nothing they raise ends it.
JoinRuntime(c) ==
  /\ closer[c].stage = "joining"
  /\ \E succeeded \in {Quiesced(runtime), FALSE} :
       /\ runtime' = FinishClose(runtime, succeeded)
       /\ closer' = [closer EXCEPT ![c].stage = "commit",
                       ![c].done = IF succeeded THEN @ \cup {"runtime"} ELSE @]
  /\ UNCHANGED <<phase, stop, exit, attempts, attempt>> /\ CloseStep

\* What the attempt, or the rollback of start, came to.
Commit(c, outcome) ==
  /\ phase' = CASE outcome = "quiescent" -> "stopped"
                [] outcome = "incomplete" -> "incomplete"
                [] outcome = "raised" ->
                     IF closer[c].attempt = 0 THEN phase ELSE "incomplete"
  /\ IF closer[c].attempt = 0
     THEN /\ Enters("over") /\ closer' = [closer EXCEPT ![c] = Idle]
          /\ UNCHANGED <<attempts, attempt>>
     ELSE /\ attempts' = [attempts EXCEPT ![closer[c].attempt] = outcome]
          /\ attempt' = 0
          /\ closer' = [closer EXCEPT ![c] = [Idle EXCEPT !.stage = outcome]]
          /\ UNCHANGED starting
  /\ UNCHANGED <<stop, run, thread, exit, runtime, sent, failed>>

Finish(c) ==
  /\ closer[c].stage = "commit"
  /\ Commit(c, IF closer[c].done = Steps THEN "quiescent" ELSE "incomplete")

\* Mutation: the attempt stays in progress, and nobody is woken.
RaiseUnannounced(c) ==
  /\ c = Main /\ closer[c].stage \in Closing \ {"joining", "commit"}
  /\ Stage(c, "raised")
  /\ UNCHANGED <<phase, stop, exit, runtime, attempts, attempt>> /\ CloseStep

\* An interrupt, which only the main thread takes, ends _close_resources:
\* waiters are woken, and close may be retried.
Raise(c) ==
  /\ c = Main /\ closer[c].stage \in Closing \ {"joining", "commit"}
  /\ Commit(c, "raised")

-----------------------------------------------------------------------------
CloserStep(c) ==
  \/ Enter(c) \/ Waited(c) \/ BeginResources(c) \/ Join(c)
  \/ CloseRuntime(c) \/ JoinRuntime(c) \/ Finish(c)

MainStep ==
  Start \/ StartPart \/ StartChecks \/ StartCommits \/ StartFails \/ Run

LoopStepAny == LoopTakes \/ LoopClaims \/ LoopSends

Next ==
  \/ MainStep \/ LoopStepAny \/ LoopEnds \/ \E i \in Inputs : LoopSubmits(i)
  \/ RequestShutdown \/ ServerStarts \/ ServerEnqueues \/ ServerEnds
  \/ WatcherEnds \/ ReaderEnds \/ EncoderStep
  \/ \E c \in Closers : Close(c) \/ CloserStep(c) \/ Raise(c)

\* Threads that may go on do; nothing is assumed of the reader, of the watcher,
\* of signals, or of a call that raises.
Fairness ==
  /\ WF_vars(MainStep) /\ WF_vars(LoopStepAny) /\ WF_vars(EncoderStep)
  /\ WF_vars(stop /\ LoopEnds)
  /\ WF_vars(exit /\ ServerEnds)
  /\ \A c \in Closers : WF_vars(CloserStep(c))

Spec == Init /\ [][Next]_vars
FairSpec == Spec /\ Fairness

-----------------------------------------------------------------------------
(* Properties.                                                             *)

\* What is running.
Alive ==
  {t \in DOMAIN thread : thread[t] \in {"alive", "serving"}}
    \cup (IF run.stage = "active" THEN {"loop"} ELSE {})
    \cup (IF runtime # None /\ runtime.phase # "closed" THEN {"runtime"}
          ELSE {})
State ==
  CASE phase = "new" -> "new"
    [] phase \in {"starting", "running"} -> "up"
    [] phase \in {"stopping", "incomplete"} -> "closing"
    [] phase = "stopped" -> "down"

Contract == INSTANCE LifecycleContract
              WITH Parts <- Steps, state <- State, alive <- Alive

\* Whoever starts and closes it, in whatever order, parts are started only
\* while the application is up, none is once it began to close, and it is
\* stopped only when every one of them has ended, and stays so.
ImplementsContract == Contract!Spec

\* A call of close that returns a quiescent result is not outlived by any part
\* of the application: no thread runs, no frame is being encoded, no command
\* is being sent; and the runtime is closed for that only when this holds of
\* what it keeps.
QuiescentIsQuiet ==
  /\ (\E c \in Closers : closer[c].stage = "quiescent") =>
       Alive = {} /\ phase = "stopped"
  /\ runtime # None /\ runtime.phase = "closed" =>
       /\ ~runtime.encoder /\ runtime.leases = 0 /\ run.command = 0
       /\ thread.server \notin {"alive", "serving"}

\* A command that was accepted over HTTP is sent after those accepted before
\* it and at most once; it is lost only if sending failed or the runtime no
\* longer runs.
CommandsAccounted ==
  /\ \A m, n \in DOMAIN sent : m < n => sent[m] < sent[n]
  /\ runtime # None /\ runtime.phase = "running" =>
       1..runtime.accepted =
         Range(sent) \cup failed \cup ({run.command} \ {0})
           \cup Range(runtime.mailbox)

\* Every call of close returns, whatever hangs, whoever else closes, starts or
\* rolls back at the same time; only the bound of the model keeps one waiting.
ClosersReturn ==
  \A c \in Closers : closer[c].stage = "entering" ~>
    \/ closer[c].stage \in Returned
    \/ closer[c].stage = "entering" /\ attempt = 0
       /\ Len(attempts) = MaxAttempts

\* A frame that was submitted is shown, unless its encoding fails, a newer one
\* is submitted, or the gateway closes.
FramesAreShown ==
  \A i \in Inputs, n \in 1..MaxWork :
    (runtime # None /\ runtime.frame[i] = n) ~>
      runtime # None /\ (\/ runtime.images[i] = n \/ runtime.failed[i] = n
                         \/ runtime.frame[i] > n \/ runtime.phase # "running")
=============================================================================
