------------------------ MODULE GatewayApplicationProofs ------------------------
(***************************************************************************)
(* Proofs about GatewayApplication and the threads it owns, for any number *)
(* of closers, commands, frames, inputs and attempts to close, any         *)
(* capacity of the command mailbox, and any placement of the timeouts.     *)
(***************************************************************************)
EXTENDS GatewayApplication, SequenceFacts

\* The stages in which start brings up one part after the other.
Startup == {"runtime", "reader", "watcher", "server", "waiting"}

Threads == {"reader", "watcher", "server"}

\* Where start has come, and what it has brought up by then.
StartedInOrder ==
  /\ phase = "new" => starting.stage = "idle"
  /\ phase = "starting" <=> starting.stage \in Startup
  /\ starting.active => starting.stage \in Startup
  /\ starting.stage \in {"idle", "runtime"} => runtime = None
  /\ starting.stage \in {"reader", "watcher", "server", "waiting"} \/ phase = "running"
       => runtime # None /\ runtime.phase = "running"
  /\ phase = "starting" => run.stage = "idle"

\* Nothing is there before the runtime is.
RuntimeComesFirst ==
  runtime = None =>
    /\ run = [stage |-> "idle", command |-> 0, leased |-> FALSE]
    /\ \A t \in Threads : thread[t] = "none"
    /\ sent = <<>> /\ failed = {}

\* A lease is out exactly while the loop sends a command.
LeaseIsTheLoops ==
  /\ run.command # 0 => run.stage = "active"
  /\ run.leased => run.command # 0
  /\ runtime # None => runtime.leases = IF run.leased THEN 1 ELSE 0

\* One thread closes at a time: the one whose attempt is in progress, or start,
\* which rolls back.
OneCloses ==
  /\ \A c \in Closers : closer[c].stage \in Closing =>
       /\ phase = "stopping" /\ attempt = closer[c].attempt
       /\ closer[c].attempt = 0 => c = Main /\ starting.stage = "rollback"
  /\ \A c, d \in Closers :
       closer[c].stage \in Closing /\ closer[d].stage \in Closing => c = d
  /\ starting.stage = "rollback" =>
       closer[Main].stage \in Closing /\ closer[Main].attempt = 0

\* Attempts are numbered as they are recorded.
AttemptsRecorded ==
  /\ phase \in {"new", "starting"} => attempt = 0
  /\ Len(attempts) <= MaxAttempts /\ attempt <= Len(attempts)
  /\ \A c \in Closers : /\ closer[c].attempt <= Len(attempts)
                        /\ closer[c].stage = "waiting" => closer[c].attempt # 0

\* A part that a closing thread found ended has ended, for good.
DoneHasEnded ==
  \A c \in Closers : closer[c].stage \in Closing =>
    /\ "loop" \in closer[c].done => run.stage # "active"
    /\ \A t \in Threads \cap closer[c].done : thread[t] \in {"none", "ended"}
    /\ "runtime" \in closer[c].done => runtime = None \/ runtime.phase = "closed"
    /\ closer[c].stage = "joining" =>
         /\ runtime # None /\ runtime.phase = "closing"
         /\ {"loop", "server"} \subseteq closer[c].done

\* Where stopped is said, it is so.
StoppedIsQuiet ==
  /\ phase = "stopped" => Alive = {}
  /\ \A n \in DOMAIN attempts : attempts[n] = "quiescent" => phase = "stopped"
  /\ \A c \in Closers : closer[c].stage = "quiescent" => phase = "stopped"
  /\ runtime # None /\ runtime.phase = "closed" =>
       /\ ~runtime.encoder /\ run.stage # "active"
       /\ thread.server \notin {"alive", "serving"}

\* Commands are handed on in the order in which they were numbered.
Numbered ==
  runtime # None =>
    /\ Increasing(sent) /\ Increasing(runtime.mailbox)
    /\ run.command # 0 => \A x \in Range(sent) : x < run.command
    /\ \A y \in Range(runtime.mailbox) :
         /\ run.command < y /\ y <= runtime.accepted
         /\ \A x \in Range(sent) : x < y
    /\ \A x \in Range(sent) \cup {run.command} : x <= runtime.accepted

IInv ==
  /\ TypeOK /\ StartedInOrder /\ RuntimeComesFirst /\ LeaseIsTheLoops
  /\ OneCloses /\ AttemptsRecorded /\ DoneHasEnded /\ StoppedIsQuiet
  /\ Numbered /\ CommandsAccounted

-----------------------------------------------------------------------------
(* The runtime's operators keep its type, and change what they name.       *)

\* s has the commands and the leases of r.
SameCommands(r, s) ==
  s.mailbox = r.mailbox /\ s.accepted = r.accepted /\ s.leases = r.leases

LEMMA NewRuntimeType == NewRuntime \in Runtime /\ NewRuntime # None
<1>1. <<>> \in Seq(Nat \ {0}) /\ <<>> \in Seq(Inputs)
  OBVIOUS
<1>2. NewRuntime \in Runtime
  BY <1>1 DEF NewRuntime, Runtime
<1> QED
  BY <1>2, ApplicationAssumption

\* The mailbox holds what was accepted and not yet taken.
LEMMA MailboxOperators ==
  ASSUME NEW r \in Runtime
  PROVE  /\ Offer(r) \in Runtime
         /\ CanTake(r) => Take(r) \in Runtime /\ Head(r.mailbox) \in Nat \ {0}
         /\ Claim(r) \in Runtime
         /\ r.leases # 0 => Return(r) \in Runtime
<1>1. /\ Append(r.mailbox, r.accepted + 1) \in Seq(Nat \ {0})
      /\ r.accepted + 1 \in Nat
  <2>1. r.mailbox \in Seq(Nat \ {0}) /\ r.accepted + 1 \in Nat \ {0}
    BY DEF Runtime
  <2> QED
    BY <2>1, AppendItems
<1>2. r.mailbox # <<>> =>
        Tail(r.mailbox) \in Seq(Nat \ {0}) /\ Head(r.mailbox) \in Nat \ {0}
  BY TailItems DEF Runtime
<1>3. Offer(r) \in Runtime
  BY <1>1 DEF Runtime, Offer
<1>4. CanTake(r) => Take(r) \in Runtime /\ Head(r.mailbox) \in Nat \ {0}
  BY <1>2 DEF Runtime, Take, CanTake
<1>5. Claim(r) \in Runtime /\ (r.leases # 0 => Return(r) \in Runtime)
  <2>1. r.leases + 1 \in Nat /\ (r.leases # 0 => r.leases - 1 \in Nat)
    BY DEF Runtime
  <2> QED
    BY <2>1 DEF Runtime, Claim, Return
<1> QED
  BY <1>3, <1>4, <1>5

LEMMA SubmitOperator ==
  ASSUME NEW r \in Runtime, NEW i \in Inputs
  PROVE  /\ Submit(r, i) \in Runtime /\ SameCommands(r, Submit(r, i))
         /\ Submit(r, i).phase = r.phase /\ Submit(r, i).encoder = r.encoder
<1>1. Append(r.order, i) \in Seq(Inputs)
  BY AppendItems DEF Runtime
<1>2. [r.frame EXCEPT ![i] = @ + 1] \in [Inputs -> Nat]
  BY DEF Runtime
<1> QED
  BY <1>1, <1>2 DEF Runtime, Submit, SameCommands

LEMMA EncoderOperators ==
  ASSUME NEW r \in Runtime, NEW s,
         \/ CanTakeFrame(r) /\ s = TakeFrame(r)
         \/ r.job # NoJob /\ s \in {PublishFrame(r), DropFrame(r)}
         \/ CanExit(r) /\ s = Exit(r)
  PROVE  /\ s \in Runtime /\ SameCommands(r, s) /\ s.phase = r.phase
         /\ s.encoder => r.encoder
<1>2. CASE CanTakeFrame(r) /\ s = TakeFrame(r)
  <2>1. Tail(r.order) \in Seq(Inputs) /\ Head(r.order) \in Inputs
    BY <1>2, TailItems DEF Runtime, CanTakeFrame
  <2> QED
    BY <1>2, <2>1 DEF Runtime, TakeFrame, SameCommands
<1>3. CASE r.job # NoJob /\ s \in {PublishFrame(r), DropFrame(r)}
  <2>1. r.job.input \in Inputs /\ r.job.frame \in Nat
    BY <1>3 DEF Runtime
  <2>2. /\ \A k \in Nat : [r.images EXCEPT ![r.job.input] = k] \in [Inputs -> Nat]
        /\ [r.images EXCEPT ![r.job.input] = @] = r.images
        /\ [r.failed EXCEPT ![r.job.input] = r.job.frame] \in [Inputs -> Nat]
    BY <2>1 DEF Runtime
  <2>3. CASE s = PublishFrame(r)
    BY <2>1, <2>2, <2>3 DEF Runtime, PublishFrame, SameCommands
  <2>4. CASE s = DropFrame(r)
    BY <2>2, <2>4 DEF Runtime, DropFrame, SameCommands
  <2> QED
    BY <1>3, <2>3, <2>4
<1>4. CASE CanExit(r) /\ s = Exit(r)
  BY <1>4 DEF Runtime, Exit, SameCommands
<1> QED
  BY <1>2, <1>3, <1>4

LEMMA CloseOperators ==
  ASSUME NEW r \in Runtime
  PROVE  /\ BeginClose(r) \in Runtime /\ SameCommands(r, BeginClose(r))
         /\ BeginClose(r).phase =
              IF r.phase = "running" THEN "closing" ELSE r.phase
         /\ BeginClose(r).encoder = r.encoder
         /\ Stop(r) \in Runtime /\ SameCommands(r, Stop(r))
         /\ Stop(r).phase = r.phase /\ Stop(r).encoder = r.encoder
         /\ \A b \in BOOLEAN :
              /\ FinishClose(r, b) \in Runtime
              /\ SameCommands(r, FinishClose(r, b))
              /\ FinishClose(r, b).phase = IF b THEN "closed" ELSE "closing"
              /\ FinishClose(r, b).encoder = r.encoder
<1>1. <<>> \in Seq(Inputs)
  OBVIOUS
<1> QED
  BY <1>1 DEF Runtime, BeginClose, Stop, FinishClose, SameCommands

LEMMA CommandTypes ==
  ASSUME TypeOK, runtime # None
  PROVE  /\ runtime \in Runtime /\ runtime.accepted \in Nat
         /\ runtime.mailbox \in Seq(Nat \ {0}) /\ runtime.mailbox \in Seq(Nat)
         /\ sent \in Seq(Nat \ {0}) /\ sent \in Seq(Nat)
         /\ Range(runtime.mailbox) \subseteq Nat
         /\ Range(sent) \subseteq Nat
         /\ run.command \in Nat
<1>1. /\ runtime \in Runtime /\ runtime.accepted \in Nat
      /\ runtime.mailbox \in Seq(Nat \ {0}) /\ sent \in Seq(Nat \ {0})
      /\ run.command \in Nat
  BY DEF TypeOK, Runtime
<1>2. \A s : s \in Seq(Nat \ {0}) => s \in Seq(Nat)
  OBVIOUS
<1>3. runtime.mailbox \in Seq(Nat) /\ sent \in Seq(Nat)
  BY <1>1, <1>2
<1> QED
  BY <1>1, <1>3, RangeType

\* Commands stay in order and accounted for when nothing is done to them.
LEMMA CommandsKept ==
  ASSUME Numbered, CommandsAccounted, UNCHANGED <<sent, failed>>,
         run'.command = run.command,
         \/ UNCHANGED runtime
         \/ /\ runtime # None /\ SameCommands(runtime, runtime')
            /\ runtime'.phase = "running" => runtime.phase = "running"
  PROVE  Numbered' /\ CommandsAccounted'
<1>1. Numbered'
  BY DEF Numbered, SameCommands
<1>2. CommandsAccounted'
  BY DEF CommandsAccounted, SameCommands
<1> QED
  BY <1>1, <1>2

-----------------------------------------------------------------------------
(* The other threads.                                                      *)

LEMMA ThreadEffects ==
  ASSUME IInv,
         \/ RequestShutdown \/ ServerStarts \/ ServerEnqueues \/ ServerEnds
         \/ WatcherEnds \/ ReaderEnds \/ EncoderStep
  PROVE  /\ UNCHANGED <<phase, starting, run, exit, closer, attempts, attempt,
                        sent, failed>>
         /\ stop' \in BOOLEAN
         /\ thread' \in [Threads -> {"none", "alive", "serving", "ended"}]
         /\ \A t \in Threads : \/ thread'[t] = thread[t]
                               \/ thread[t] \in {"alive", "serving"} /\ thread'[t] = "ended"
                               \/ thread[t] = "alive" /\ thread'[t] = "serving"
         /\ \/ UNCHANGED runtime
            \/ /\ runtime # None /\ runtime' \in Runtime
               /\ runtime'.phase = runtime.phase
               /\ runtime'.leases = runtime.leases
               /\ runtime'.encoder => runtime.encoder
               /\ SameCommands(runtime, runtime') \/ runtime' = Offer(runtime)
<1>1. TypeOK /\ (runtime # None => runtime \in Runtime)
  BY DEF IInv, TypeOK
<1>2. CASE RequestShutdown \/ ServerStarts \/ ServerEnds \/ WatcherEnds \/ ReaderEnds
  BY <1>1, <1>2
     DEF TypeOK, Threads, ThreadStep, RequestShutdown, ServerStarts, ServerEnds,
         WatcherEnds, ReaderEnds
<1>3. CASE ServerEnqueues
  <2>1. runtime # None
    BY <1>3 DEF IInv, RuntimeComesFirst, Threads, ServerEnqueues
  <2>2. /\ Offer(runtime) \in Runtime /\ Offer(runtime).phase = runtime.phase
        /\ Offer(runtime).leases = runtime.leases
        /\ Offer(runtime).encoder = runtime.encoder
    BY <1>1, <2>1, MailboxOperators DEF Offer, Runtime
  <2> QED
    BY <1>1, <1>3, <2>1, <2>2 DEF TypeOK, Threads, ThreadStep, ServerEnqueues
<1>4. CASE EncoderStep
  <2>1. /\ runtime # None /\ runtime' \in Runtime
        /\ SameCommands(runtime, runtime') /\ runtime'.phase = runtime.phase
        /\ runtime'.encoder => runtime.encoder
    BY <1>1, <1>4, EncoderOperators DEF EncoderStep
  <2> QED
    BY <1>1, <1>4, <2>1 DEF TypeOK, Threads, ThreadStep, EncoderStep, SameCommands
<1> QED
  BY <1>2, <1>3, <1>4

\* A command that is admitted is numbered above all others.
LEMMA OfferCommands ==
  ASSUME TypeOK, Numbered, CommandsAccounted, UNCHANGED <<sent, failed, run>>,
         runtime # None, runtime' = Offer(runtime)
  PROVE  Numbered' /\ CommandsAccounted'
<1> DEFINE x == runtime.accepted + 1
<1>1. /\ runtime \in Runtime /\ runtime.accepted \in Nat
      /\ runtime.mailbox \in Seq(Nat) /\ x \in Nat
      /\ run.command \in Nat /\ Range(sent) \subseteq Nat
      /\ Range(runtime.mailbox) \subseteq Nat
  BY CommandTypes
<1>2. /\ runtime'.accepted = x /\ runtime'.mailbox = Append(runtime.mailbox, x)
      /\ runtime'.phase = runtime.phase
  BY <1>1 DEF Offer, Runtime
<1>3. Range(runtime'.mailbox) = Range(runtime.mailbox) \cup {x}
  BY <1>1, <1>2, AppendItems
<1>4. /\ \A y \in Range(runtime.mailbox) : y < x
      /\ \A y \in Range(sent) : y < x
      /\ run.command < x
  <2>1. /\ \A y \in Range(runtime.mailbox) : y <= runtime.accepted
        /\ \A y \in Range(sent) : y <= runtime.accepted
        /\ run.command <= runtime.accepted
    BY DEF Numbered
  <2> QED
    BY <1>1, <2>1
<1>5. Increasing(runtime'.mailbox)
  BY <1>1, <1>2, <1>4, IncreasingAppend DEF Numbered
<1>6. Numbered'
  BY <1>1, <1>2, <1>3, <1>4, <1>5 DEF Numbered
<1>7. CommandsAccounted'
  <2>1. 1..x = 1..runtime.accepted \cup {x}
    BY <1>1
  <2> QED
    BY <1>2, <1>3, <2>1 DEF CommandsAccounted
<1> QED
  BY <1>6, <1>7

LEMMA ThreadIInv ==
  ASSUME IInv,
         \/ RequestShutdown \/ ServerStarts \/ ServerEnqueues \/ ServerEnds
         \/ WatcherEnds \/ ReaderEnds \/ EncoderStep
  PROVE  IInv'
<1> USE ThreadEffects
<1>1. TypeOK'
  BY DEF IInv, TypeOK, Threads
<1>2. StartedInOrder' /\ RuntimeComesFirst' /\ LeaseIsTheLoops'
  <2>1. runtime' = None <=> runtime = None
    BY ApplicationAssumption
  <2>2. StartedInOrder' /\ RuntimeComesFirst'
    BY <2>1 DEF IInv, StartedInOrder, RuntimeComesFirst
  <2>3. LeaseIsTheLoops'
    BY <2>1 DEF IInv, LeaseIsTheLoops
  <2> QED
    BY <2>2, <2>3
<1>3. OneCloses' /\ AttemptsRecorded'
  BY DEF IInv, OneCloses, AttemptsRecorded
<1>4. DoneHasEnded'
  <2>1. \A t \in Threads : thread[t] \in {"none", "ended"} => thread'[t] = thread[t]
    OBVIOUS
  <2>2. runtime' = None <=> runtime = None
    BY ApplicationAssumption
  <2>3. runtime # None => runtime'.phase = runtime.phase
    OBVIOUS
  <2> HIDE ThreadEffects
  <2>4. UNCHANGED <<closer, run>>
    BY ThreadEffects
  <2> QED
    BY <2>1, <2>2, <2>3, <2>4 DEF IInv, DoneHasEnded
<1>5. StoppedIsQuiet'
  <2>1. Alive' \subseteq Alive
    BY ApplicationAssumption DEF IInv, TypeOK, Alive, Threads
  <2>2. "server" \in Threads
    BY DEF Threads
  <2> QED
    BY <2>1, <2>2 DEF IInv, StoppedIsQuiet
<1>6. Numbered' /\ CommandsAccounted'
  BY OfferCommands, CommandsKept DEF IInv
<1> QED
  BY <1>1, <1>2, <1>3, <1>4, <1>5, <1>6 DEF IInv
-----------------------------------------------------------------------------
(* The Dora loop.                                                          *)

Loop ==
  \/ LoopTakes \/ LoopClaims \/ LoopSends \/ LoopEnds
  \/ \E i \in Inputs : LoopSubmits(i)

LEMMA LoopEffects ==
  ASSUME IInv, Loop
  PROVE  /\ UNCHANGED <<phase, stop, starting, thread, exit, closer, attempts,
                        attempt>>
         /\ run.stage = "active" /\ runtime # None /\ runtime' # None
         /\ runtime'.phase = runtime.phase /\ runtime'.encoder = runtime.encoder
         /\ TypeOK' /\ LeaseIsTheLoops'
<1>1. TypeOK /\ run.stage = "active"
  BY DEF IInv, TypeOK, LeaseIsTheLoops, Loop, LoopTakes, LoopClaims, LoopSends,
         LoopEnds, LoopSubmits
<1>2. runtime # None /\ runtime \in Runtime
  BY <1>1 DEF IInv, RuntimeComesFirst, TypeOK
<1>3. UNCHANGED <<phase, stop, starting, thread, exit, closer, attempts, attempt>>
  BY DEF Loop, LoopStep, LoopTakes, LoopClaims, LoopSends, LoopEnds, LoopSubmits
<1>4. /\ run \in [stage : {"idle", "active", "over"}, command : Nat,
                  leased : BOOLEAN]
      /\ sent \in Seq(Nat \ {0}) /\ failed \subseteq Nat \ {0}
      /\ run.leased => run.command # 0
      /\ runtime.leases = IF run.leased THEN 1 ELSE 0
  BY <1>1, <1>2 DEF TypeOK, IInv, LeaseIsTheLoops
<1>5. /\ run' \in [stage : {"idle", "active", "over"}, command : Nat,
                   leased : BOOLEAN]
      /\ runtime' \in Runtime
      /\ sent' \in Seq(Nat \ {0}) /\ failed' \subseteq Nat \ {0}
      /\ run'.command # 0 => run'.stage = "active"
      /\ run'.leased => run'.command # 0
      /\ runtime'.leases = IF run'.leased THEN 1 ELSE 0
      /\ runtime'.phase = runtime.phase /\ runtime'.encoder = runtime.encoder
  <2>1. CASE LoopTakes
    <3>1. /\ runtime' \in Runtime /\ Head(runtime.mailbox) \in Nat \ {0}
          /\ runtime' = Take(runtime)
      BY <1>2, <2>1, MailboxOperators DEF LoopTakes
    <3>2. /\ runtime'.phase = runtime.phase /\ runtime'.leases = runtime.leases
          /\ runtime'.encoder = runtime.encoder
      BY <1>2, <3>1 DEF Take, Runtime
    <3> QED
      BY <1>1, <1>4, <2>1, <3>1, <3>2 DEF LoopTakes
  <2>2. CASE LoopClaims
    <3>1. /\ Claim(runtime) \in Runtime /\ Claim(runtime).phase = runtime.phase
          /\ Claim(runtime).leases = runtime.leases + 1
          /\ Claim(runtime).encoder = runtime.encoder
      BY <1>2, MailboxOperators DEF Claim, Runtime
    <3> QED
      <4>1. CASE CanClaim(runtime)
        <5>1. /\ run' = [run EXCEPT !.leased = TRUE] /\ run.command # 0
              /\ ~run.leased /\ runtime' = Claim(runtime)
              /\ UNCHANGED <<sent, failed>>
          BY <2>2, <4>1 DEF LoopClaims
        <5>2. /\ run' \in [stage : {"idle", "active", "over"}, command : Nat,
                           leased : BOOLEAN]
              /\ run'.stage = "active" /\ run'.leased
              /\ run'.command = run.command
          BY <1>1, <1>4, <5>1
        <5>3. runtime'.leases = 1
          BY <1>4, <3>1, <5>1
        <5> QED
          BY <1>4, <3>1, <5>1, <5>2, <5>3
      <4>2. CASE ~CanClaim(runtime)
        BY <1>2, <1>4, <2>2, <4>2 DEF LoopClaims
      <4> QED
        BY <4>1, <4>2
  <2>3. CASE LoopSends
    <3>1. runtime.leases = 1 /\ runtime' = Return(runtime) /\ runtime' \in Runtime
      BY <1>2, <1>4, <2>3, MailboxOperators DEF LoopSends
    <3>2. /\ runtime'.phase = runtime.phase /\ runtime'.leases = 0
          /\ runtime'.encoder = runtime.encoder
      BY <1>2, <3>1 DEF Return, Runtime
    <3>3. Append(sent, run.command) \in Seq(Nat \ {0}) /\ run.command \in Nat \ {0}
      BY <1>4, <2>3, AppendItems DEF LoopSends
    <3> QED
      BY <1>4, <2>3, <3>1, <3>2, <3>3 DEF LoopSends
  <2>4. CASE LoopEnds
    BY <1>1, <1>2, <1>4, <2>4 DEF LoopEnds
  <2>5. CASE \E i \in Inputs : LoopSubmits(i)
    <3>1. /\ runtime' \in Runtime /\ runtime'.phase = runtime.phase
          /\ runtime'.leases = runtime.leases
          /\ runtime'.encoder = runtime.encoder
      BY <1>2, <2>5, SubmitOperator DEF LoopSubmits, SameCommands
    <3> QED
      BY <1>1, <1>4, <2>5, <3>1 DEF LoopSubmits
  <2> QED
    BY <2>1, <2>2, <2>3, <2>4, <2>5 DEF Loop
<1> QED
  BY <1>1, <1>2, <1>3, <1>4, <1>5, ApplicationAssumption
     DEF TypeOK, LeaseIsTheLoops

\* A command that is taken is the first of those that wait.
LEMMA TakeCommands ==
  ASSUME IInv, LoopTakes
  PROVE  Numbered' /\ CommandsAccounted'
<1> DEFINE x == Head(runtime.mailbox)
<1>1. /\ runtime # None /\ runtime \in Runtime /\ runtime.mailbox # <<>>
      /\ UNCHANGED <<sent, failed>> /\ run.command = 0
      /\ runtime.mailbox \in Seq(Nat \ {0}) /\ runtime.mailbox \in Seq(Nat)
      /\ Range(runtime.mailbox) \subseteq Nat /\ Range(sent) \subseteq Nat
      /\ runtime.accepted \in Nat
  BY LoopEffects, CommandTypes DEF Loop, LoopTakes, CanTake, IInv
<1>2. /\ run'.command = x /\ runtime'.mailbox = Tail(runtime.mailbox)
      /\ runtime'.accepted = runtime.accepted /\ runtime'.phase = runtime.phase
  BY <1>1 DEF LoopTakes, Take, Runtime, IInv, TypeOK
<1>3. /\ x \in Nat \ {0}
      /\ Range(runtime.mailbox) = {x} \cup Range(Tail(runtime.mailbox))
  BY <1>1, TailItems
<1>4. /\ Increasing(Tail(runtime.mailbox))
      /\ \A y \in Range(Tail(runtime.mailbox)) : x < y
  BY <1>1, IncreasingTail DEF IInv, Numbered
<1>5. Numbered'
  BY <1>1, <1>2, <1>3, <1>4 DEF IInv, Numbered
<1>6. CommandsAccounted'
  BY <1>1, <1>2, <1>3 DEF IInv, CommandsAccounted
<1> QED
  BY <1>5, <1>6

\* A command is dropped only when the runtime no longer runs.
LEMMA ClaimCommands ==
  ASSUME IInv, LoopClaims
  PROVE  Numbered' /\ CommandsAccounted'
<1>1. /\ runtime # None /\ runtime \in Runtime /\ UNCHANGED <<sent, failed>>
      /\ runtime'.mailbox = runtime.mailbox /\ runtime'.accepted = runtime.accepted
      /\ runtime'.phase = runtime.phase
      /\ Range(runtime.mailbox) \subseteq Nat /\ Range(sent) \subseteq Nat
      /\ runtime.accepted \in Nat /\ run.command \in Nat
  <2>1. runtime # None /\ TypeOK
    BY LoopEffects DEF Loop, IInv
  <2>2. runtime \in Runtime
    BY <2>1, CommandTypes
  <2>3. /\ runtime'.mailbox = runtime.mailbox /\ runtime'.phase = runtime.phase
        /\ runtime'.accepted = runtime.accepted /\ UNCHANGED <<sent, failed>>
    BY <2>2 DEF LoopClaims, Claim, Runtime
  <2> QED
    BY <2>1, <2>3, CommandTypes
<1>2. \/ run'.command = run.command
      \/ run'.command = 0 /\ runtime.phase # "running"
  BY DEF LoopClaims, CanClaim, IInv, TypeOK
<1>3. Numbered'
  BY <1>1, <1>2 DEF IInv, Numbered
<1>4. CommandsAccounted'
  BY <1>1, <1>2 DEF IInv, CommandsAccounted
<1> QED
  BY <1>3, <1>4

\* A command is sent after those accepted before it.
LEMMA SendCommands ==
  ASSUME IInv, LoopSends
  PROVE  Numbered' /\ CommandsAccounted'
<1> DEFINE x == run.command
<1>1. /\ runtime # None /\ runtime \in Runtime
      /\ runtime'.mailbox = runtime.mailbox /\ runtime'.accepted = runtime.accepted
      /\ runtime'.phase = runtime.phase /\ run'.command = 0
      /\ Range(runtime.mailbox) \subseteq Nat /\ Range(sent) \subseteq Nat
      /\ runtime.accepted \in Nat /\ x \in Nat \ {0}
      /\ sent \in Seq(Nat)
  <2>1. runtime # None /\ TypeOK /\ x # 0
    BY LoopEffects DEF Loop, LoopSends, IInv, LeaseIsTheLoops
  <2>2. runtime \in Runtime
    BY <2>1, CommandTypes
  <2>3. /\ runtime'.mailbox = runtime.mailbox /\ runtime'.phase = runtime.phase
        /\ runtime'.accepted = runtime.accepted /\ run'.command = 0
    BY <2>1, <2>2 DEF LoopSends, Return, Runtime, TypeOK
  <2> QED
    BY <2>1, <2>3, CommandTypes
<1>2. CASE sent' = Append(sent, x) /\ UNCHANGED failed
  <2>1. Increasing(sent') /\ Range(sent') = Range(sent) \cup {x}
    <3>1. Increasing(sent) /\ \A y \in Range(sent) : y < x
      BY <1>1 DEF IInv, Numbered
    <3>2. Increasing(Append(sent, x))
      BY <1>1, <3>1, IncreasingAppend
    <3>3. Range(Append(sent, x)) = Range(sent) \cup {x}
      BY <1>1, AppendItems
    <3> QED
      BY <1>2, <3>2, <3>3
  <2>2. Numbered'
    BY <1>1, <2>1 DEF IInv, Numbered
  <2>3. CommandsAccounted'
    BY <1>1, <1>2, <2>1 DEF IInv, CommandsAccounted, Increasing
  <2> QED
    BY <2>2, <2>3
<1>3. CASE failed' = failed \cup {x} /\ UNCHANGED sent
  <2>1. Numbered'
    BY <1>1, <1>3 DEF IInv, Numbered
  <2>2. CommandsAccounted'
    BY <1>1, <1>3 DEF IInv, CommandsAccounted
  <2> QED
    BY <2>1, <2>2
<1> QED
  BY <1>2, <1>3 DEF LoopSends

\* A frame submitted, or the end of the loop, is nothing to the commands.
LEMMA LoopKeepsCommands ==
  ASSUME IInv, LoopEnds \/ \E i \in Inputs : LoopSubmits(i)
  PROVE  Numbered' /\ CommandsAccounted'
<1>1. UNCHANGED <<sent, failed>> /\ run'.command = run.command
  BY DEF LoopEnds, LoopSubmits, IInv, TypeOK
<1>2. CASE LoopEnds
  BY <1>1, <1>2, CommandsKept DEF LoopEnds, IInv
<1>3. ASSUME NEW i \in Inputs, LoopSubmits(i)
      PROVE  runtime # None /\ SameCommands(runtime, runtime')
               /\ runtime'.phase = runtime.phase
  BY <1>3, SubmitOperator, LoopEffects DEF LoopSubmits, IInv, TypeOK, Loop
<1> QED
  BY <1>1, <1>2, <1>3, CommandsKept DEF IInv

LEMMA LoopIInv ==
  ASSUME IInv, Loop
  PROVE  IInv'
<1> USE LoopEffects
<1>1. Numbered' /\ CommandsAccounted'
  <2>1. CASE LoopEnds \/ \E i \in Inputs : LoopSubmits(i)
    BY <2>1, LoopKeepsCommands
  <2> QED
    BY <2>1, TakeCommands, ClaimCommands, SendCommands DEF Loop
<1>2. StartedInOrder' /\ RuntimeComesFirst'
  BY DEF IInv, StartedInOrder, RuntimeComesFirst, Loop
<1>3. OneCloses' /\ AttemptsRecorded'
  BY DEF IInv, OneCloses, AttemptsRecorded
<1>4. DoneHasEnded'
  BY DEF IInv, DoneHasEnded
<1>5. StoppedIsQuiet'
  <2>1. Alive' \subseteq Alive
    BY DEF Alive
  <2> QED
    BY <2>1 DEF IInv, StoppedIsQuiet
<1> QED
  BY <1>1, <1>2, <1>3, <1>4, <1>5 DEF IInv
-----------------------------------------------------------------------------
(* The main thread.                                                        *)

\* Start begins, goes on after a check, commits, or the loop begins.
LEMMA MainIInv ==
  ASSUME IInv, Start \/ StartChecks \/ StartCommits \/ Run
  PROVE  IInv'
<1>1. /\ UNCHANGED <<stop, thread, exit, runtime, closer, attempts, attempt, sent,
                     failed>>
      /\ TypeOK /\ run'.command = run.command /\ run'.leased = run.leased
  BY DEF Start, StartChecks, StartCommits, Run, IInv, TypeOK
<1>2. TypeOK'
  <2>1. /\ phase' \in {"new", "starting", "running", "stopping", "stopped",
                       "incomplete"}
        /\ starting' \in [stage : {"idle", "runtime", "reader", "watcher",
                                   "server", "waiting", "rollback", "over"},
                          active : BOOLEAN]
        /\ run' \in [stage : {"idle", "active", "over"}, command : Nat,
                     leased : BOOLEAN]
    <3>1. /\ starting \in [stage : {"idle", "runtime", "reader", "watcher",
                                    "server", "waiting", "rollback", "over"},
                           active : BOOLEAN]
          /\ run \in [stage : {"idle", "active", "over"}, command : Nat,
                      leased : BOOLEAN]
          /\ phase \in {"new", "starting", "running", "stopping", "stopped",
                        "incomplete"}
      BY <1>1 DEF TypeOK
    <3>2. CASE Start
      <4>1. starting' \in {[stage |-> "runtime", active |-> TRUE],
                           [stage |-> "over", active |-> FALSE]}
        BY <3>2 DEF Start, Enters
      <4> QED
        <5>1. run' = run /\ phase' \in {"starting", phase}
          BY <3>2 DEF Start
        <5>2. starting' \in [stage : {"idle", "runtime", "reader", "watcher",
                                      "server", "waiting", "rollback", "over"},
                             active : BOOLEAN]
          <6>1. CASE starting' = [stage |-> "runtime", active |-> TRUE]
            BY <6>1
          <6>2. CASE starting' = [stage |-> "over", active |-> FALSE]
            BY <6>2
          <6> QED
            BY <4>1, <6>1, <6>2
        <5> QED
          BY <3>1, <5>1, <5>2
    <3>5. CASE StartCommits
      BY <3>1, <3>5 DEF StartCommits, Enters
    <3>3. CASE StartChecks
      BY <3>1, <3>3 DEF StartChecks
    <3>4. CASE Run
      BY <3>1, <3>4 DEF Run
    <3> QED
      BY <3>2, <3>3, <3>4, <3>5
  <2> QED
    BY <1>1, <2>1 DEF TypeOK
<1>3. StartedInOrder'
  BY <1>1 DEF Start, StartChecks, StartCommits, Run, Enters, IInv, TypeOK,
              StartedInOrder, Startup, RuntimeComesFirst
<1>4. RuntimeComesFirst' /\ LeaseIsTheLoops'
  BY <1>1 DEF Start, StartChecks, StartCommits, Run, Enters, IInv, TypeOK,
              StartedInOrder, RuntimeComesFirst, LeaseIsTheLoops
<1>5. OneCloses' /\ AttemptsRecorded'
  BY <1>1 DEF Start, StartChecks, StartCommits, Run, Enters, IInv, TypeOK,
              StartedInOrder, OneCloses, AttemptsRecorded
<1>6. DoneHasEnded'
  BY <1>1 DEF Start, StartChecks, StartCommits, Run, IInv, TypeOK, OneCloses,
              DoneHasEnded
<1>7. StoppedIsQuiet'
  BY <1>1 DEF Start, StartChecks, StartCommits, Run, IInv, TypeOK, Alive,
              StartedInOrder, StoppedIsQuiet
<1>8. Numbered' /\ CommandsAccounted'
  BY <1>1, CommandsKept DEF IInv
<1> QED
  BY <1>2, <1>3, <1>4, <1>5, <1>6, <1>7, <1>8 DEF IInv

\* Start creates the runtime, or starts a thread.
LEMMA StartPartIInv ==
  ASSUME IInv, StartPart
  PROVE  IInv'
<1>1. /\ UNCHANGED <<phase, stop, run, exit, closer, attempts, attempt, sent,
                     failed>>
      /\ TypeOK /\ phase = "starting" /\ run.stage = "idle" /\ run.command = 0
      /\ starting.stage \in {"runtime", "reader", "watcher", "server"}
      /\ \E s \in {"reader", "watcher", "server", "waiting"} :
           starting' = [stage |-> s, active |-> FALSE]
  <2>1. /\ TypeOK /\ phase = "starting" /\ run.stage = "idle"
        /\ starting.stage \in {"runtime", "reader", "watcher", "server"}
    BY DEF StartPart, IInv, StartedInOrder, Startup
  <2>2. run.command = 0
    BY <2>1 DEF IInv, LeaseIsTheLoops
  <2>3. \E s \in {"reader", "watcher", "server", "waiting"} :
          starting' = [stage |-> s, active |-> FALSE]
    <3>1. CASE starting.stage = "runtime"
      BY <3>1 DEF StartPart, Enters
    <3>2. CASE starting.stage = "reader"
      BY <3>2 DEF StartPart, Enters
    <3>3. CASE starting.stage = "watcher"
      BY <3>3 DEF StartPart, Enters
    <3>4. CASE starting.stage = "server"
      BY <3>4 DEF StartPart, Enters
    <3> QED
      BY <2>1, <3>1, <3>2, <3>3, <3>4
  <2> QED
    BY <2>1, <2>2, <2>3 DEF StartPart
<1>2. CASE starting.stage = "runtime"
  <2>1. /\ runtime = None /\ runtime' = NewRuntime /\ UNCHANGED thread
        /\ starting' = [stage |-> "reader", active |-> FALSE]
    BY <1>2 DEF StartPart, Enters, IInv, StartedInOrder
  <2>2. /\ runtime' \in Runtime /\ runtime' # None /\ runtime'.phase = "running"
        /\ runtime'.leases = 0 /\ runtime'.accepted = 0 /\ runtime'.mailbox = <<>>
    BY <2>1, NewRuntimeType DEF NewRuntime
  <2>3. /\ run = [stage |-> "idle", command |-> 0, leased |-> FALSE]
        /\ sent = <<>> /\ failed = {}
    BY <2>1 DEF IInv, RuntimeComesFirst
  <2>4. TypeOK'
    BY <1>1, <2>1, <2>2 DEF TypeOK
  <2>5. StartedInOrder' /\ RuntimeComesFirst' /\ LeaseIsTheLoops'
    BY <1>1, <2>1, <2>2, <2>3
       DEF IInv, StartedInOrder, RuntimeComesFirst, LeaseIsTheLoops, Startup
  <2>6. OneCloses' /\ AttemptsRecorded' /\ DoneHasEnded' /\ StoppedIsQuiet'
    BY <1>1, <2>1, <2>2
       DEF IInv, OneCloses, AttemptsRecorded, DoneHasEnded, StoppedIsQuiet
  <2>7. Numbered' /\ CommandsAccounted'
    <3>1. Range(<<>>) = {} /\ 1..0 = {} /\ Increasing(<<>>) /\ DOMAIN <<>> = {}
      BY DEF Range, Increasing
    <3> QED
      BY <1>1, <2>2, <2>3, <3>1 DEF Numbered, CommandsAccounted
  <2> QED
    BY <2>4, <2>5, <2>6, <2>7 DEF IInv
<1>3. CASE starting.stage \in Threads
  <2>1. /\ starting'.stage \in {"watcher", "server", "waiting"}
        /\ UNCHANGED runtime
        /\ \E t \in Threads : thread' = [thread EXCEPT ![t] = "alive"]
    <3>1. CASE starting.stage = "reader"
      BY <3>1 DEF StartPart, Enters, Threads
    <3>2. CASE starting.stage = "watcher"
      BY <3>2 DEF StartPart, Enters, Threads
    <3>3. CASE starting.stage = "server"
      BY <3>3 DEF StartPart, Enters, Threads
    <3> QED
      BY <1>3, <3>1, <3>2, <3>3 DEF Threads
  <2>2. runtime # None
    BY <1>3 DEF IInv, StartedInOrder, Threads
  <2>3. TypeOK'
    <3>1. thread' \in [Threads -> {"none", "alive", "serving", "ended"}]
      BY <1>1, <2>1 DEF TypeOK, Threads
    <3> QED
      <4>1. PICK s \in {"reader", "watcher", "server", "waiting"} :
              starting' = [stage |-> s, active |-> FALSE]
        BY <1>1
      <4>2. starting' \in [stage : {"idle", "runtime", "reader", "watcher",
                                    "server", "waiting", "rollback", "over"},
                           active : BOOLEAN]
        BY <4>1
      <4> QED
        BY <1>1, <2>1, <3>1, <4>2 DEF TypeOK, Threads
  <2>4. StartedInOrder' /\ RuntimeComesFirst' /\ LeaseIsTheLoops'
    BY <1>1, <1>3, <2>1, <2>2
       DEF IInv, StartedInOrder, RuntimeComesFirst, LeaseIsTheLoops, Startup,
           Threads
  <2>5. OneCloses' /\ AttemptsRecorded' /\ DoneHasEnded' /\ StoppedIsQuiet'
    BY <1>1, <2>1, <2>2
       DEF IInv, OneCloses, AttemptsRecorded, DoneHasEnded, StoppedIsQuiet,
           StartedInOrder
  <2>6. Numbered' /\ CommandsAccounted'
    BY <1>1, <2>1, CommandsKept DEF IInv
  <2> QED
    BY <2>3, <2>4, <2>5, <2>6 DEF IInv
<1> QED
  BY <1>1, <1>2, <1>3 DEF Threads

\* Start fails, and the main thread goes on to roll it back.
LEMMA StartFailsIInv ==
  ASSUME IInv, StartFails
  PROVE  IInv'
<1>1. /\ UNCHANGED <<stop, run, thread, exit, runtime, attempts, attempt, sent,
                     failed>>
      /\ TypeOK /\ phase = "starting" /\ phase' = "stopping"
  BY DEF StartFails, IInv, TypeOK, StartedInOrder, Startup
<1>2. /\ starting' = [stage |-> "rollback", active |-> FALSE]
      /\ closer' = [closer EXCEPT
           ![Main] = [stage |-> "begin", attempt |-> 0, done |-> {}]]
  BY DEF StartFails, Enters, Begins
<1>3. /\ Main \in Closers /\ closer'[Main].stage = "begin"
      /\ closer'[Main].attempt = 0 /\ closer'[Main].done = {}
      /\ \A c \in Closers \ {Main} : closer'[c] = closer[c]
  BY <1>1, <1>2 DEF Closers, TypeOK
<1>4. TypeOK'
  <2>1. closer' \in [Closers ->
          [stage : {"out", "entering", "waiting"} \cup Closing \cup Returned,
           attempt : 0..MaxAttempts, done : SUBSET Steps]]
    <3>1. /\ closer \in [Closers ->
               [stage : {"out", "entering", "waiting"} \cup Closing \cup Returned,
                attempt : 0..MaxAttempts, done : SUBSET Steps]]
          /\ "begin" \in Closing /\ 0 \in 0..MaxAttempts
      BY <1>1, ApplicationAssumption DEF TypeOK, Closing
    <3> QED
      BY <1>2, <1>3, <3>1
  <2> QED
    BY <1>1, <1>2, <2>1 DEF TypeOK
<1>5. StartedInOrder' /\ RuntimeComesFirst' /\ LeaseIsTheLoops'
  BY <1>1, <1>2
     DEF IInv, StartedInOrder, RuntimeComesFirst, LeaseIsTheLoops, Startup
<1>6. OneCloses'
  <2>1. \A c \in Closers : closer[c].stage \notin Closing
    BY <1>1 DEF IInv, OneCloses
  <2>2. "begin" \in Closing /\ attempt = 0
    BY <1>1 DEF IInv, AttemptsRecorded, Closing
  <2>3. \A c \in Closers : closer'[c].stage \in Closing => c = Main
    BY <1>3, <2>1
  <2> QED
    BY <1>1, <1>2, <1>3, <2>2, <2>3 DEF OneCloses
<1>7. AttemptsRecorded'
  BY <1>1, <1>3 DEF IInv, AttemptsRecorded, TypeOK
<1>8. DoneHasEnded'
  BY <1>1, <1>3 DEF IInv, DoneHasEnded
<1>9. StoppedIsQuiet'
  BY <1>1, <1>3 DEF IInv, StoppedIsQuiet
<1>10. Numbered' /\ CommandsAccounted'
  BY <1>1, CommandsKept DEF IInv
<1> QED
  BY <1>4, <1>5, <1>6, <1>7, <1>8, <1>9, <1>10 DEF IInv
-----------------------------------------------------------------------------
(* Closing.                                                                *)

CloserState ==
  [stage : {"out", "entering", "waiting"} \cup Closing \cup Returned,
   attempt : 0..MaxAttempts, done : SUBSET Steps]

\* Of the calls of close, only that of c goes on, and is left as described.
Moves(c, stage, number, done) ==
  /\ closer' \in [Closers -> CloserState]
  /\ closer'[c].stage = stage /\ closer'[c].attempt = number
  /\ closer'[c].done = done
  /\ \A d \in Closers \ {c} : closer'[d] = closer[d]

LEMMA CloserMoves ==
  ASSUME TypeOK, NEW c \in Closers, NEW x \in CloserState,
         closer' = [closer EXCEPT ![c] = x]
  PROVE  Moves(c, x.stage, x.attempt, x.done)
BY DEF TypeOK, Moves, CloserState

LEMMA CloserStage ==
  ASSUME TypeOK, NEW c \in Closers, NEW stage, Stage(c, stage),
         stage \in {"out", "entering", "waiting"} \cup Closing \cup Returned
  PROVE  Moves(c, stage, closer[c].attempt, closer[c].done)
<1>1. /\ closer \in [Closers -> CloserState]
      /\ closer' = [closer EXCEPT ![c] = [closer[c] EXCEPT !.stage = stage]]
  BY DEF TypeOK, Stage, CloserState
<1> QED
  BY <1>1 DEF Moves, CloserState

\* What closing leaves of the runtime, and does to it.
RuntimeMoves ==
  \/ UNCHANGED runtime
  \/ /\ runtime # None /\ runtime' \in Runtime /\ SameCommands(runtime, runtime')
     /\ runtime'.encoder = runtime.encoder
     /\ runtime'.phase = "running" => runtime.phase = "running"

\* The rest of the invariant does not depend on who closes.
LEMMA CloserKeeps ==
  ASSUME IInv, UNCHANGED <<run, thread, sent, failed>>, RuntimeMoves
  PROVE  RuntimeComesFirst' /\ LeaseIsTheLoops' /\ Numbered' /\ CommandsAccounted'
<1>1. RuntimeComesFirst' /\ LeaseIsTheLoops'
  BY ApplicationAssumption
     DEF IInv, RuntimeMoves, SameCommands, RuntimeComesFirst, LeaseIsTheLoops
<1>2. Numbered' /\ CommandsAccounted'
  BY CommandsKept DEF IInv, RuntimeMoves
<1> QED
  BY <1>1, <1>2

\* A call that does not close anything goes on.
LEMMA WaiterIInv ==
  ASSUME IInv, NEW c \in Closers, Close(c) \/ Waited(c)
  PROVE  IInv'
<1>1. TypeOK /\ closer[c] \in CloserState /\ Len(attempts) \in Nat
  BY LenProperties DEF IInv, TypeOK, CloserState
<1>2. /\ UNCHANGED <<phase, starting, run, thread, exit, runtime, attempts, attempt,
                     sent, failed>>
      /\ stop' \in BOOLEAN
  BY <1>1 DEF Close, Waited, CloseStep, TypeOK
<1>3. /\ closer[c].stage \notin Closing
      /\ \E stage \in {"entering"} \cup Returned, number \in 0..closer[c].attempt,
            done \in SUBSET Steps :
           /\ Moves(c, stage, number, done)
           /\ stage = "quiescent" => phase = "stopped"
  <2>1. CASE Close(c)
    BY <1>1, <2>1, CloserStage DEF Close, CloserState, Closing
  <2>2. CASE Waited(c)
    <3> DEFINE outcome == attempts[closer[c].attempt]
    <3>1. closer[c].attempt \in DOMAIN attempts
      BY <1>1, <2>2, LenProperties DEF IInv, AttemptsRecorded, Waited, CloserState, TypeOK
    <3>2. outcome \in Returned
      BY <1>1, <2>2, <3>1, ElementOfSeq, LenProperties DEF Waited, TypeOK
    <3>3. [Idle EXCEPT !.stage = outcome] = [stage |-> outcome, attempt |-> 0, done |-> {}]
      BY DEF Idle
    <3>4. [stage |-> outcome, attempt |-> 0, done |-> {}] \in CloserState
      BY <3>2, ApplicationAssumption DEF CloserState
    <3>5. Moves(c, outcome, 0, {})
      BY <1>1, <2>2, <3>3, <3>4, CloserMoves DEF Waited
    <3>6. outcome = "quiescent" => phase = "stopped"
      BY <3>1 DEF IInv, StoppedIsQuiet
    <3>7. closer[c].stage \notin Closing
      BY <2>2 DEF Waited, Closing
    <3>8. 0 \in 0..closer[c].attempt /\ {} \in SUBSET Steps
      BY <1>1 DEF CloserState
    <3> QED
      BY <3>2, <3>5, <3>6, <3>7, <3>8
  <2> QED
    BY <2>1, <2>2
<1>4. PICK stage \in {"entering"} \cup Returned, number \in 0..closer[c].attempt,
            done \in SUBSET Steps :
        /\ Moves(c, stage, number, done)
        /\ stage = "quiescent" => phase = "stopped"
  BY <1>3
<1>5. TypeOK'
  BY <1>1, <1>2, <1>4 DEF TypeOK, Moves, CloserState
<1>6. StartedInOrder'
  BY <1>2 DEF IInv, StartedInOrder
<1>7. stage \notin Closing /\ stage # "waiting"
  BY <1>4 DEF Closing, Returned
<1>8. OneCloses'
  <2>1. \A d \in Closers : closer'[d].stage \in Closing => d # c /\ closer'[d] = closer[d]
    BY <1>4, <1>7 DEF Moves
  <2>2. starting.stage = "rollback" => Main # c /\ closer'[Main] = closer[Main]
    BY <1>3, <1>4 DEF IInv, OneCloses, Moves, Closers
  <2> QED
    BY <1>2, <2>1, <2>2 DEF IInv, OneCloses
<1>9. AttemptsRecorded'
  BY <1>1, <1>2, <1>4, <1>7 DEF IInv, AttemptsRecorded, Moves, CloserState
<1>10. DoneHasEnded' /\ StoppedIsQuiet'
  BY <1>2, <1>4, <1>7 DEF IInv, DoneHasEnded, StoppedIsQuiet, Moves, Alive
<1> QED
  BY <1>2, <1>5, <1>6, <1>8, <1>9, <1>10, CloserKeeps DEF IInv, RuntimeMoves

\* A call of close finds the application new or stopped, joins the attempt in
\* progress, or makes an attempt of its own.
LEMMA EnterIInv ==
  ASSUME IInv, NEW c \in Closers, Enter(c)
  PROVE  IInv'
<1>1. /\ TypeOK /\ closer[c] \in CloserState /\ closer \in [Closers -> CloserState]
      /\ Len(attempts) \in Nat /\ DOMAIN attempts = 1..Len(attempts)
      /\ attempt \in Nat
  BY LenProperties DEF IInv, TypeOK, CloserState
<1>2. /\ UNCHANGED <<stop, starting, run, thread, exit, runtime, sent, failed>>
      /\ closer[c].stage = "entering" /\ "entering" \notin Closing
      /\ starting.stage \in {"idle", "over"}
  BY DEF Enter, CloseStep, LockFree, Closing
<1>3. CASE /\ phase \in {"new", "stopped"} /\ phase' = "stopped"
           /\ Stage(c, "quiescent") /\ UNCHANGED <<attempts, attempt>>
  <2>1. Moves(c, "quiescent", closer[c].attempt, closer[c].done)
    BY <1>1, <1>3, CloserStage DEF Returned
  <2>2. "quiescent" \notin Closing
    BY DEF Closing
  <2>3. TypeOK'
    BY <1>1, <1>2, <1>3, <2>1 DEF TypeOK, Moves, CloserState
  <2>4. StartedInOrder'
    BY <1>2, <1>3 DEF IInv, StartedInOrder, Startup
  <2>5. OneCloses' /\ DoneHasEnded'
    BY <1>2, <1>3, <2>1, <2>2 DEF IInv, OneCloses, DoneHasEnded, Moves
  <2>6. AttemptsRecorded'
    BY <1>1, <1>2, <1>3, <2>1 DEF IInv, AttemptsRecorded, Moves, CloserState
  <2>7. phase = "new" => Alive = {}
    BY <1>1 DEF IInv, StartedInOrder, RuntimeComesFirst, Alive, Threads, TypeOK
  <2>8. StoppedIsQuiet'
    BY <1>2, <1>3, <2>1, <2>7 DEF IInv, StoppedIsQuiet, Moves, Alive
  <2> QED
    BY <1>2, <2>3, <2>4, <2>5, <2>6, <2>8, CloserKeeps DEF IInv, RuntimeMoves
<1>4. CASE /\ phase \notin {"new", "stopped"} /\ attempt # 0
           /\ closer' = [closer EXCEPT ![c].stage = "waiting",
                                       ![c].attempt = attempt]
           /\ UNCHANGED <<phase, attempts, attempt>>
  <2>1. Moves(c, "waiting", attempt, closer[c].done)
    BY <1>1, <1>4 DEF Moves, CloserState, TypeOK
  <2>2. "waiting" \notin Closing
    BY DEF Closing
  <2>3. TypeOK'
    BY <1>1, <1>2, <1>4, <2>1 DEF TypeOK, Moves, CloserState
  <2>4. StartedInOrder'
    BY <1>2, <1>4 DEF IInv, StartedInOrder
  <2>5. OneCloses' /\ DoneHasEnded'
    BY <1>2, <1>4, <2>1, <2>2 DEF IInv, OneCloses, DoneHasEnded, Moves
  <2>6. AttemptsRecorded'
    BY <1>1, <1>2, <1>4, <2>1 DEF IInv, AttemptsRecorded, Moves, CloserState
  <2>7. StoppedIsQuiet'
    BY <1>2, <1>4, <2>1 DEF IInv, StoppedIsQuiet, Moves, Alive
  <2> QED
    BY <1>2, <1>4, <2>3, <2>4, <2>5, <2>6, <2>7, CloserKeeps DEF IInv, RuntimeMoves
<1>5. CASE /\ phase \notin {"new", "stopped"} /\ attempt = 0
           /\ Len(attempts) < MaxAttempts
           /\ phase' = "stopping"
           /\ attempts' = Append(attempts, None) /\ attempt' = Len(attempts')
           /\ Begins(c, attempt')
  <2> DEFINE n == Len(attempts) + 1
  <2>1. /\ attempts' \in Seq({None} \cup Returned) /\ Len(attempts') = n
        /\ DOMAIN attempts' = DOMAIN attempts \cup {n}
        /\ \A m \in DOMAIN attempts : attempts'[m] = attempts[m]
        /\ attempts'[n] = None
    BY <1>1, <1>5, AppendItems DEF TypeOK
  <2>2. n \in Nat \ {0} /\ n <= MaxAttempts /\ attempt' = n
    BY <1>1, <1>5, <2>1, ApplicationAssumption
  <2>3. Moves(c, "begin", n, {})
    <3>1. [stage |-> "begin", attempt |-> n, done |-> {}] \in CloserState
      BY <2>2, ApplicationAssumption DEF CloserState, Closing
    <3> QED
      BY <1>1, <1>5, <2>2, <3>1, CloserMoves DEF Begins
  <2>4. \A d \in Closers : closer[d].stage \notin Closing
    BY <1>2, <1>5 DEF IInv, OneCloses
  <2>5. TypeOK'
    BY <1>1, <1>2, <1>5, <2>1, <2>2, <2>3, ApplicationAssumption
       DEF TypeOK, Moves, CloserState
  <2>6. StartedInOrder'
    BY <1>2, <1>5 DEF IInv, StartedInOrder, Startup
  <2>7. OneCloses'
    <3>1. \A d \in Closers : closer'[d].stage \in Closing => d = c
      BY <2>3, <2>4 DEF Moves
    <3> QED
      BY <1>2, <1>5, <2>2, <2>3, <3>1 DEF OneCloses, Moves
  <2>8. AttemptsRecorded'
    <3>1. Len(attempts) \in Nat /\ n = Len(attempts) + 1
      BY <1>1
    <3> HIDE DEF n
    <3>2. ASSUME NEW d \in Closers
          PROVE  /\ closer'[d].attempt <= n
                 /\ closer'[d].stage = "waiting" => closer'[d].attempt # 0
      <4>1. CASE d = c
        BY <2>2, <2>3, <4>1 DEF Moves
      <4>2. CASE d # c
        <5>1. closer'[d] = closer[d]
          BY <2>3, <4>2 DEF Moves
        <5>2. /\ closer[d].attempt <= Len(attempts)
              /\ closer[d].stage = "waiting" => closer[d].attempt # 0
          BY DEF IInv, AttemptsRecorded
        <5>3. closer[d].attempt \in Nat
          BY <1>1, ApplicationAssumption DEF TypeOK
        <5> QED
          BY <3>1, <5>1, <5>2, <5>3
      <4> QED
        BY <4>1, <4>2
    <3> QED
      BY <1>5, <2>1, <2>2, <3>2 DEF AttemptsRecorded
  <2>9. DoneHasEnded'
    BY <2>3, <2>4 DEF DoneHasEnded, Moves
  <2>10. StoppedIsQuiet'
    BY <1>2, <1>5, <2>1, <2>3, ApplicationAssumption
       DEF IInv, StoppedIsQuiet, Moves
  <2> QED
    BY <1>2, <2>5, <2>6, <2>7, <2>8, <2>9, <2>10, CloserKeeps DEF IInv, RuntimeMoves
<1> QED
  BY <1>3, <1>4, <1>5 DEF Enter

\* The attempt in progress goes on: nobody else closes, and start does nothing.
LEMMA CloserAlone ==
  ASSUME IInv, NEW c \in Closers, closer[c].stage \in Closing
  PROVE  /\ TypeOK /\ closer \in [Closers -> CloserState]
         /\ closer[c] \in CloserState
         /\ phase = "stopping" /\ starting.stage \notin Startup
         /\ attempt = closer[c].attempt
         /\ \A d \in Closers \ {c} : closer[d].stage \notin Closing
BY DEF IInv, TypeOK, CloserState, StartedInOrder, OneCloses

\* A step within an attempt, whatever it does to the runtime.
LEMMA AttemptIInv ==
  ASSUME IInv, NEW c \in Closers, closer[c].stage \in Closing,
         NEW stage \in Closing, NEW done,
         UNCHANGED <<phase, starting, run, thread, sent, failed, attempts, attempt>>,
         stop' \in BOOLEAN, exit' \in BOOLEAN,
         Moves(c, stage, closer[c].attempt, done),
         RuntimeMoves,
         runtime # None /\ runtime'.phase = "closed" =>
           \/ runtime.phase = "closed"
           \/ ~runtime.encoder /\ {"loop", "server"} \subseteq closer[c].done,
         "loop" \in done => run.stage # "active",
         \A t \in Threads \cap done : thread[t] \in {"none", "ended"},
         "runtime" \in done => runtime' = None \/ runtime'.phase = "closed",
         stage = "joining" => /\ runtime' # None /\ runtime'.phase = "closing"
                              /\ {"loop", "server"} \subseteq done
  PROVE  IInv'
<1>1. /\ TypeOK /\ phase = "stopping" /\ starting.stage \notin Startup
      /\ \A d \in Closers \ {c} : closer'[d] = closer[d]
      /\ \A d \in Closers \ {c} : closer[d].stage \notin Closing
      /\ closer'[c].stage = stage /\ closer'[c].attempt = closer[c].attempt
      /\ closer'[c].done = done
      /\ closer' \in [Closers -> CloserState]
  BY CloserAlone DEF Moves
<1>2. TypeOK'
  <2>1. runtime' \in {None} \cup Runtime
    BY <1>1 DEF TypeOK, RuntimeMoves
  <2> QED
    BY <1>1, <2>1 DEF TypeOK, CloserState
<1>3. StartedInOrder'
  <2>1. starting.stage = "idle" => runtime' = None
    BY DEF IInv, StartedInOrder, RuntimeMoves
  <2> QED
    BY <1>1, <2>1 DEF IInv, StartedInOrder, Startup
<1>4. OneCloses'
  <2>1. Main \in Closers
    BY DEF Closers
  <2>2. starting.stage = "rollback" => Main = c /\ closer[c].attempt = 0
    BY <1>1, <2>1 DEF IInv, OneCloses
  <2>3. /\ attempt = closer[c].attempt
        /\ closer[c].attempt = 0 => c = Main /\ starting.stage = "rollback"
    BY DEF IInv, OneCloses
  <2>4. \A d \in Closers : closer'[d].stage \in Closing => d = c
    BY <1>1
  <2> QED
    BY <1>1, <2>2, <2>3, <2>4 DEF OneCloses
<1>5. AttemptsRecorded'
  BY <1>1 DEF IInv, AttemptsRecorded, Closing
<1>6. DoneHasEnded'
  BY <1>1 DEF DoneHasEnded
<1>7. StoppedIsQuiet'
  <2>1. runtime # None /\ runtime'.phase = "closed" =>
          /\ ~runtime.encoder /\ run.stage # "active"
          /\ thread.server \notin {"alive", "serving"}
    BY DEF IInv, StoppedIsQuiet, DoneHasEnded, Threads
  <2>2. /\ \A n \in DOMAIN attempts : attempts[n] # "quiescent"
        /\ \A d \in Closers : closer'[d].stage # "quiescent"
    BY <1>1 DEF IInv, StoppedIsQuiet, Closing
  <2> QED
    BY <1>1, <2>1, <2>2, ApplicationAssumption DEF StoppedIsQuiet, RuntimeMoves
<1> QED
  BY <1>2, <1>3, <1>4, <1>5, <1>6, <1>7, CloserKeeps DEF IInv

\* Everything is told to stop, and looked at.
LEMMA BeginResourcesIInv ==
  ASSUME IInv, NEW c \in Closers, BeginResources(c)
  PROVE  IInv'
<1>1. closer[c].stage \in Closing /\ "loop" \in Closing
  BY DEF BeginResources, Closing
<1>2. TypeOK /\ closer[c] \in CloserState
  BY <1>1, CloserAlone
<1>3. /\ UNCHANGED <<phase, starting, run, thread, sent, failed, attempts, attempt>>
      /\ stop' \in BOOLEAN /\ exit' \in BOOLEAN
  BY DEF BeginResources, CloseStep
<1>4. Moves(c, "loop", closer[c].attempt, closer[c].done)
  BY <1>1, <1>2, CloserStage DEF BeginResources
<1>5. /\ RuntimeMoves
      /\ runtime = None => runtime' = None
      /\ runtime # None => runtime' # None
      /\ runtime # None /\ runtime.phase = "closed" => runtime'.phase = "closed"
      /\ runtime # None /\ runtime'.phase = "closed" => runtime.phase = "closed"
  <2>1. CASE runtime = None
    BY <2>1 DEF BeginResources, RuntimeMoves
  <2>2. CASE runtime # None
    <3>1. runtime \in Runtime /\ runtime' = BeginClose(runtime)
      BY <1>2, <2>2 DEF BeginResources, TypeOK
    <3> QED
      BY <2>2, <3>1, CloseOperators, ApplicationAssumption DEF RuntimeMoves
  <2> QED
    BY <2>1, <2>2
<1>6. /\ "loop" \in closer[c].done => run.stage # "active"
      /\ \A t \in Threads \cap closer[c].done : thread[t] \in {"none", "ended"}
      /\ "runtime" \in closer[c].done => runtime' = None \/ runtime'.phase = "closed"
  BY <1>1, <1>5 DEF IInv, DoneHasEnded
<1> QED
  BY <1>1, <1>3, <1>4, <1>5, <1>6, AttemptIInv

\* What was found ended has ended.
LEMMA JoinIInv ==
  ASSUME IInv, NEW c \in Closers, Join(c)
  PROVE  IInv'
<1> DEFINE step == closer[c].stage
           done == IF Ended(step) THEN closer[c].done \cup {step}
                   ELSE closer[c].done
<1>1. /\ step \in {"loop", "server", "reader", "watcher"} /\ step \in Closing
      /\ After[step] \in Closing \ {"joining"} /\ step \in Steps
  BY DEF Join, After, Closing, Steps
<1>2. TypeOK /\ closer[c] \in CloserState /\ closer \in [Closers -> CloserState]
  BY <1>1, CloserAlone
<1>3. /\ UNCHANGED <<phase, starting, run, thread, sent, failed, attempts, attempt>>
      /\ stop' \in BOOLEAN /\ exit' \in BOOLEAN /\ UNCHANGED runtime
  BY <1>2 DEF Join, CloseStep, TypeOK
<1>4. Moves(c, After[step], closer[c].attempt, done)
  <2>1. closer' = [closer EXCEPT
          ![c] = [closer[c] EXCEPT !.stage = After[step], !.done = done]]
    BY <1>2 DEF Join
  <2> QED
    BY <1>1, <1>2, <2>1 DEF Moves, CloserState
<1>5. /\ "loop" \in done => run.stage # "active"
      /\ \A t \in Threads \cap done : thread[t] \in {"none", "ended"}
      /\ "runtime" \in done => runtime = None \/ runtime.phase = "closed"
  BY <1>1 DEF IInv, DoneHasEnded, Ended, Threads
<1> HIDE DEF step, done
<1> QED
  BY <1>1, <1>3, <1>4, <1>5, AttemptIInv DEF RuntimeMoves, step

\* The runtime is closed when the loop and the server have ended; otherwise it
\* is left.
LEMMA CloseRuntimeIInv ==
  ASSUME IInv, NEW c \in Closers, CloseRuntime(c)
  PROVE  IInv'
<1>1. closer[c].stage \in Closing /\ {"commit", "joining"} \subseteq Closing
  BY DEF CloseRuntime, Closing
<1>2. TypeOK /\ closer[c] \in CloserState /\ closer \in [Closers -> CloserState]
  BY <1>1, CloserAlone
<1>3. /\ UNCHANGED <<phase, starting, run, thread, sent, failed, attempts, attempt>>
      /\ stop' \in BOOLEAN /\ exit' \in BOOLEAN
  BY <1>2 DEF CloseRuntime, CloseStep, TypeOK
<1>4. /\ "loop" \in closer[c].done => run.stage # "active"
      /\ \A t \in Threads \cap closer[c].done : thread[t] \in {"none", "ended"}
      /\ "runtime" \in closer[c].done => runtime = None \/ runtime.phase = "closed"
  BY <1>1 DEF IInv, DoneHasEnded
<1>5. CASE /\ MayCloseRuntime(closer[c].done) /\ runtime # None
           /\ runtime.phase # "closed"
  <2>1. Moves(c, "joining", closer[c].attempt, closer[c].done)
    BY <1>1, <1>2, <1>5, CloserStage DEF CloseRuntime
  <2>2. runtime' = Stop(BeginClose(runtime)) /\ runtime \in Runtime
    BY <1>2, <1>5 DEF CloseRuntime, TypeOK
  <2>3. /\ RuntimeMoves /\ runtime' # None /\ runtime'.phase = "closing"
    <3>1. runtime.phase \in {"running", "closing"}
      BY <1>5, <2>2 DEF Runtime
    <3> QED
      BY <1>5, <2>2, <3>1, CloseOperators, ApplicationAssumption
         DEF RuntimeMoves, SameCommands
  <2> QED
    BY <1>1, <1>3, <1>4, <1>5, <2>1, <2>3, AttemptIInv DEF MayCloseRuntime
<1>6. CASE ~(/\ MayCloseRuntime(closer[c].done) /\ runtime # None
             /\ runtime.phase # "closed")
  <2>1. UNCHANGED runtime
    BY <1>6 DEF CloseRuntime
  <2>2. PICK done \in {closer[c].done, closer[c].done \cup {"runtime"}} :
          /\ Moves(c, "commit", closer[c].attempt, done)
          /\ "runtime" \in done => runtime = None \/ runtime.phase = "closed"
    <3> DEFINE ended == runtime = None \/ MayCloseRuntime(closer[c].done)
               done == IF ended THEN closer[c].done \cup {"runtime"}
                       ELSE closer[c].done
    <3>1. closer' = [closer EXCEPT
            ![c] = [closer[c] EXCEPT !.stage = "commit", !.done = done]]
      BY <1>2, <1>6 DEF CloseRuntime
    <3>2. done \in SUBSET Steps
      BY <1>2 DEF CloserState, Steps
    <3>3. Moves(c, "commit", closer[c].attempt, done)
      BY <1>1, <1>2, <3>1, <3>2 DEF Moves, CloserState
    <3>4. "runtime" \in done => runtime = None \/ runtime.phase = "closed"
      BY <1>4, <1>6
    <3> QED
      BY <3>3, <3>4
  <2>3. /\ "loop" \in done => run.stage # "active"
        /\ \A t \in Threads \cap done : thread[t] \in {"none", "ended"}
    BY <1>4 DEF Threads
  <2> QED
    BY <1>1, <1>3, <2>1, <2>2, <2>3, AttemptIInv DEF RuntimeMoves
<1> QED
  BY <1>5, <1>6

\* The runtime is closed when nothing is out and its worker has ended.
LEMMA JoinRuntimeIInv ==
  ASSUME IInv, NEW c \in Closers, JoinRuntime(c)
  PROVE  IInv'
<1>1. closer[c].stage = "joining" /\ {"commit", "joining"} \subseteq Closing
  BY DEF JoinRuntime, Closing
<1>2. TypeOK /\ closer[c] \in CloserState /\ closer \in [Closers -> CloserState]
  BY <1>1, CloserAlone
<1>3. /\ UNCHANGED <<phase, starting, run, thread, sent, failed, attempts, attempt>>
      /\ stop' \in BOOLEAN /\ exit' \in BOOLEAN
  BY <1>2 DEF JoinRuntime, CloseStep, TypeOK
<1>4. /\ "loop" \in closer[c].done => run.stage # "active"
      /\ \A t \in Threads \cap closer[c].done : thread[t] \in {"none", "ended"}
      /\ runtime # None /\ runtime.phase = "closing"
      /\ {"loop", "server"} \subseteq closer[c].done
      /\ "runtime" \notin closer[c].done
  BY <1>1, ApplicationAssumption DEF IInv, DoneHasEnded
<1>5. PICK succeeded \in {Quiesced(runtime), FALSE} :
        /\ runtime' = FinishClose(runtime, succeeded)
        /\ closer' = [closer EXCEPT ![c].stage = "commit",
             ![c].done = IF succeeded THEN @ \cup {"runtime"} ELSE @]
  BY DEF JoinRuntime
<1> DEFINE done == IF succeeded THEN closer[c].done \cup {"runtime"}
                   ELSE closer[c].done
<1>6. Moves(c, "commit", closer[c].attempt, done)
  BY <1>1, <1>2, <1>5 DEF Moves, CloserState, Steps
<1>7. /\ RuntimeMoves /\ runtime' # None
      /\ runtime'.phase = IF succeeded THEN "closed" ELSE "closing"
  <2>1. succeeded \in BOOLEAN /\ runtime \in Runtime
    BY <1>2, <1>4 DEF Quiesced, TypeOK
  <2>2. /\ runtime' \in Runtime /\ SameCommands(runtime, runtime')
        /\ runtime'.phase = IF succeeded THEN "closed" ELSE "closing"
        /\ runtime'.encoder = runtime.encoder
    BY <1>5, <2>1, CloseOperators
  <2> QED
    BY <1>4, <2>2, ApplicationAssumption DEF RuntimeMoves
<1>8. succeeded => ~runtime.encoder
  BY <1>5 DEF Quiesced
<1>9. /\ "loop" \in done => run.stage # "active"
      /\ \A t \in Threads \cap done : thread[t] \in {"none", "ended"}
      /\ "runtime" \in done => runtime' = None \/ runtime'.phase = "closed"
  BY <1>4, <1>7 DEF Threads
<1> HIDE DEF done
<1> QED
  BY <1>1, <1>3, <1>4, <1>6, <1>7, <1>8, <1>9, AttemptIInv

\* What closing came to is recorded; if it is said to be quiescent, it is.
LEMMA CommitIInv ==
  ASSUME IInv, NEW c \in Closers, closer[c].stage \in Closing,
         NEW outcome \in {"quiescent", "incomplete", "raised"},
         Commit(c, outcome),
         outcome = "quiescent" => closer[c].done = Steps
  PROVE  IInv'
<1>1. /\ TypeOK /\ phase = "stopping" /\ starting.stage \notin Startup
      /\ attempt = closer[c].attempt
      /\ closer[c] \in CloserState /\ closer \in [Closers -> CloserState]
      /\ \A d \in Closers \ {c} : closer[d].stage \notin Closing
      /\ Len(attempts) \in Nat /\ DOMAIN attempts = 1..Len(attempts)
  BY CloserAlone, LenProperties DEF TypeOK
<1>2. /\ UNCHANGED <<stop, run, thread, exit, runtime, sent, failed>>
      /\ phase' \in {"stopped", "incomplete", "stopping"}
      /\ phase' = "stopped" <=> outcome = "quiescent"
  BY <1>1 DEF Commit
<1>3. outcome = "quiescent" => Alive = {}
  BY <1>1 DEF IInv, DoneHasEnded, Alive, Steps, Threads, TypeOK
<1>4. \A n \in DOMAIN attempts : attempts[n] # "quiescent"
  BY <1>1 DEF IInv, StoppedIsQuiet
<1>5. \A d \in Closers : closer[d].stage # "quiescent"
  BY <1>1 DEF IInv, StoppedIsQuiet
<1>6. CASE closer[c].attempt = 0
  <2>1. c = Main /\ starting.stage = "rollback"
    BY <1>6 DEF IInv, OneCloses
  <2>2. /\ starting' = [stage |-> "over", active |-> FALSE]
        /\ closer' = [closer EXCEPT ![c] = Idle]
        /\ UNCHANGED <<attempts, attempt>>
    BY <1>6 DEF Commit, Enters
  <2>3. Moves(c, "out", 0, {})
    <3>1. Idle \in CloserState
      BY ApplicationAssumption DEF Idle, CloserState
    <3> QED
      BY <1>1, <2>2, <3>1, CloserMoves DEF Idle
  <2>4. TypeOK'
    BY <1>1, <1>2, <2>2, <2>3 DEF TypeOK, Moves, CloserState
  <2>5. StartedInOrder'
    BY <1>1, <1>2, <2>2 DEF IInv, StartedInOrder, Startup
  <2>6. OneCloses' /\ DoneHasEnded'
    <3>1. \A d \in Closers : closer'[d].stage \notin Closing
      BY <1>1, <2>3 DEF Moves, Closing
    <3> QED
      BY <2>2, <3>1 DEF OneCloses, DoneHasEnded
  <2>7. AttemptsRecorded'
    BY <1>1, <1>2, <2>2, <2>3 DEF IInv, AttemptsRecorded, Moves
  <2>8. StoppedIsQuiet'
    BY <1>2, <1>3, <1>4, <1>5, <2>2, <2>3 DEF IInv, StoppedIsQuiet, Moves, Alive
  <2> QED
    BY <1>2, <2>4, <2>5, <2>6, <2>7, <2>8, CloserKeeps DEF IInv, RuntimeMoves
<1>7. CASE closer[c].attempt # 0
  <2>1. /\ attempts' = [attempts EXCEPT ![closer[c].attempt] = outcome]
        /\ attempt' = 0 /\ UNCHANGED starting
        /\ closer' = [closer EXCEPT ![c] = [Idle EXCEPT !.stage = outcome]]
    BY <1>7 DEF Commit
  <2>2. Moves(c, outcome, 0, {})
    <3>1. [Idle EXCEPT !.stage = outcome]
            = [stage |-> outcome, attempt |-> 0, done |-> {}]
      BY DEF Idle
    <3>2. [stage |-> outcome, attempt |-> 0, done |-> {}] \in CloserState
      BY ApplicationAssumption DEF CloserState, Returned
    <3> QED
      BY <1>1, <2>1, <3>1, <3>2, CloserMoves
  <2>3. closer[c].attempt \in 1..Len(attempts)
    BY <1>1, <1>7 DEF IInv, AttemptsRecorded, CloserState
  <2>4. /\ attempts' \in Seq({None} \cup Returned) /\ Len(attempts') = Len(attempts)
        /\ DOMAIN attempts' = DOMAIN attempts
        /\ \A n \in DOMAIN attempts : attempts'[n] \in {attempts[n], outcome}
    BY <1>1, <2>1, <2>3, ExceptSeq, LenProperties DEF TypeOK, Returned
  <2>5. TypeOK'
    <3>1. closer' \in [Closers -> CloserState] /\ attempt' \in 0..MaxAttempts
      BY <2>1, <2>2, ApplicationAssumption DEF Moves
    <3>2. phase' \in {"new", "starting", "running", "stopping", "stopped",
                      "incomplete"}
      BY <1>2
    <3> QED
      BY <1>1, <1>2, <2>1, <2>4, <3>1, <3>2 DEF TypeOK, CloserState
  <2>6. StartedInOrder'
    BY <1>1, <1>2, <2>1 DEF IInv, StartedInOrder
  <2>7. OneCloses' /\ DoneHasEnded'
    <3>1. \A d \in Closers : closer'[d].stage \notin Closing
      BY <1>1, <2>2 DEF Moves, Closing
    <3>2. starting.stage # "rollback"
      BY <1>1, <1>7 DEF IInv, OneCloses, Closers
    <3> QED
      BY <2>1, <3>1, <3>2 DEF OneCloses, DoneHasEnded
  <2>8. AttemptsRecorded'
    BY <1>1, <1>2, <2>1, <2>2, <2>4 DEF IInv, AttemptsRecorded, Moves
  <2>9. StoppedIsQuiet'
    BY <1>2, <1>3, <1>4, <1>5, <2>1, <2>2, <2>4
       DEF IInv, StoppedIsQuiet, Moves, Alive
  <2> QED
    BY <1>2, <2>5, <2>6, <2>7, <2>8, <2>9, CloserKeeps DEF IInv, RuntimeMoves
<1> QED
  BY <1>6, <1>7

-----------------------------------------------------------------------------
(* The invariant, and what follows from it.                                *)

LEMMA InitIInv == Init => IInv
<1> SUFFICES ASSUME Init PROVE IInv
  OBVIOUS
<1>1. TypeOK
  <2>1. <<>> \in Seq({None} \cup Returned) /\ <<>> \in Seq(Nat \ {0})
    OBVIOUS
  <2>2. /\ starting \in [stage : {"idle", "runtime", "reader", "watcher", "server",
                                  "waiting", "rollback", "over"},
                         active : BOOLEAN]
        /\ run \in [stage : {"idle", "active", "over"}, command : Nat,
                    leased : BOOLEAN]
    BY DEF Init
  <2>3. closer \in [Closers ->
          [stage : {"out", "entering", "waiting"} \cup Closing \cup Returned,
           attempt : 0..MaxAttempts, done : SUBSET Steps]]
    BY ApplicationAssumption DEF Init, Idle
  <2> QED
    <3>1. /\ phase = "new" /\ runtime = None /\ attempt \in 0..MaxAttempts
          /\ attempts \in Seq({None} \cup Returned)
          /\ sent \in Seq(Nat \ {0}) /\ failed \subseteq Nat \ {0}
      BY <2>1, ApplicationAssumption DEF Init
    <3>3. stop \in BOOLEAN /\ exit \in BOOLEAN
      BY Zenon DEF Init
    <3>2. thread \in [{"reader", "watcher", "server"} ->
                        {"none", "alive", "serving", "ended"}]
      BY DEF Init
    <3> QED
      BY <2>2, <2>3, <3>1, <3>2, <3>3 DEF TypeOK
<1>2. StartedInOrder /\ RuntimeComesFirst /\ LeaseIsTheLoops
  BY DEF Init, StartedInOrder, RuntimeComesFirst, LeaseIsTheLoops, Startup, Threads
<1>3. OneCloses /\ AttemptsRecorded /\ DoneHasEnded
  <2>1. Len(<<>>) = 0
    OBVIOUS
  <2> QED
    BY <2>1, ApplicationAssumption
       DEF Init, Idle, Closing, OneCloses, AttemptsRecorded, DoneHasEnded
<1>4. StoppedIsQuiet /\ Numbered /\ CommandsAccounted
  BY DEF Init, Idle, StoppedIsQuiet, Numbered, CommandsAccounted
<1> QED
  BY <1>1, <1>2, <1>3, <1>4 DEF IInv

LEMMA NextIInv == IInv /\ [Next]_vars => IInv'
<1> SUFFICES ASSUME IInv, [Next]_vars PROVE IInv'
  OBVIOUS
<1>1. CASE MainStep
  BY <1>1, MainIInv, StartPartIInv, StartFailsIInv DEF MainStep
<1>2. CASE LoopStepAny \/ LoopEnds \/ \E i \in Inputs : LoopSubmits(i)
  BY <1>2, LoopIInv DEF Loop, LoopStepAny
<1>3. CASE \/ RequestShutdown \/ ServerStarts \/ ServerEnqueues \/ ServerEnds
           \/ WatcherEnds \/ ReaderEnds \/ EncoderStep
  BY <1>3, ThreadIInv
<1>4. ASSUME NEW c \in Closers, Close(c) \/ CloserStep(c) \/ Raise(c)
      PROVE  IInv'
  <2>1. CASE Close(c) \/ Waited(c) \/ Enter(c)
    BY <2>1, WaiterIInv, EnterIInv
  <2>2. CASE BeginResources(c) \/ Join(c) \/ CloseRuntime(c) \/ JoinRuntime(c)
    BY <2>2, BeginResourcesIInv, JoinIInv, CloseRuntimeIInv, JoinRuntimeIInv
  <2>3. CASE Finish(c)
    BY <2>3, CommitIInv DEF Finish, Closing
  <2>4. CASE Raise(c)
    BY <2>4, CommitIInv DEF Raise
  <2> QED
    BY <1>4, <2>1, <2>2, <2>3, <2>4 DEF CloserStep
<1>5. CASE UNCHANGED vars
  BY <1>5 DEF vars, IInv, TypeOK, StartedInOrder, RuntimeComesFirst,
              LeaseIsTheLoops, OneCloses, AttemptsRecorded, DoneHasEnded,
              StoppedIsQuiet, Alive, Numbered, CommandsAccounted
<1> QED
  BY <1>1, <1>2, <1>3, <1>4, <1>5 DEF Next

\* The conjunction of everything below, and of what it needs, holds always.
THEOREM Invariant == Spec => []IInv
BY InitIInv, NextIInv, PTL DEF Spec

\* Every variable has its type; in particular a lease is returned only after it
\* was claimed (claim_command_dispatch, release_command_dispatch).
THEOREM TypeCorrect == Spec => []TypeOK
<1>1. IInv => TypeOK
  BY DEF IInv
<1> QED
  BY Invariant, <1>1, PTL

\* A call of close that returns a quiescent result is not outlived by any part,
\* and the runtime is closed only when nothing uses it (_close_resources).
THEOREM QuiescentAlwaysQuiet == Spec => []QuiescentIsQuiet
<1>1. IInv => QuiescentIsQuiet
  BY DEF IInv, StoppedIsQuiet, LeaseIsTheLoops, QuiescentIsQuiet
<1> QED
  BY Invariant, <1>1, PTL

\* A command accepted over HTTP is sent after those accepted before it, at most
\* once, and lost only if sending fails or the runtime no longer runs
\* (CommandService, drain_commands, handle_command).
THEOREM CommandsAlwaysAccounted == Spec => []CommandsAccounted
<1>1. IInv => CommandsAccounted
  BY DEF IInv
<1> QED
  BY Invariant, <1>1, PTL

-----------------------------------------------------------------------------
(* The application implements its contract.                                *)

LEMMA InitContract == Init => Contract!Init
BY DEF Init, Contract!Init, State, Alive

\* What the contract sees of a step.
Shown == [Contract!Next]_(Contract!contractVars)

\* A part is started only while the application is up; a failed start closes it.
LEMMA MainShown ==
  ASSUME IInv, MainStep
  PROVE  Shown
<1>1. TypeOK /\ DOMAIN thread = Threads
  BY DEF IInv, TypeOK, Threads
<1>2. CASE Start
  BY <1>2 DEF Start, Enters, Shown, Contract!Next, Contract!Open,
              Contract!contractVars, State, Alive
<1>3. CASE StartPart
  <2>1. phase = "starting" /\ phase' = "starting" /\ run' = run
    BY <1>3 DEF StartPart, IInv, StartedInOrder, Startup
  <2>2. \E p \in Steps : Alive' = Alive \cup {p}
    <3>1. CASE starting.stage = "runtime"
      <4>1. /\ runtime = None /\ runtime' # None /\ runtime'.phase = "running"
            /\ thread' = thread
        BY <1>3, <3>1, NewRuntimeType
           DEF StartPart, NewRuntime, IInv, StartedInOrder
      <4> QED
        BY <2>1, <4>1 DEF Alive, Steps
    <3>2. CASE starting.stage # "runtime"
      <4>1. \E t \in Threads : thread' = [thread EXCEPT ![t] = "alive"]
        <5>1. CASE starting.stage = "reader"
          BY <1>3, <5>1 DEF StartPart, Threads
        <5>2. CASE starting.stage = "watcher"
          BY <1>3, <5>2 DEF StartPart, Threads
        <5>3. CASE starting.stage = "server"
          BY <1>3, <5>3 DEF StartPart, Threads
        <5> QED
          BY <1>3, <3>2, <5>1, <5>2, <5>3
             DEF StartPart, IInv, StartedInOrder, Startup
      <4>2. UNCHANGED runtime
        BY <1>3, <3>2 DEF StartPart, IInv, StartedInOrder, Startup
      <4> QED
        BY <1>1, <2>1, <4>1, <4>2 DEF Alive, Threads, Steps
    <3> QED
      BY <3>1, <3>2
  <2> QED
    BY <2>1, <2>2 DEF Shown, Contract!Next, Contract!Acquire, State
<1>4. CASE StartChecks
  BY <1>4 DEF StartChecks, Shown, Contract!contractVars, State, Alive
<1>5. CASE StartCommits
  <2>1. phase = "starting"
    BY <1>5 DEF StartCommits, IInv, StartedInOrder, Startup
  <2> QED
    BY <1>5, <2>1 DEF StartCommits, Shown, Contract!contractVars, State, Alive
<1>6. CASE StartFails
  <2>1. phase = "starting"
    BY <1>6 DEF StartFails, IInv, StartedInOrder, Startup
  <2> QED
    BY <1>6, <2>1 DEF StartFails, Shown, Contract!Next, Contract!BeginClosing,
                      State, Alive
<1>7. CASE Run
  <2>1. /\ phase = "running" /\ UNCHANGED <<phase, thread, runtime>>
        /\ run'.stage = "active"
    BY <1>1, <1>7 DEF Run, TypeOK
  <2>2. Alive' = Alive \cup {"loop"}
    BY <2>1 DEF Alive
  <2> QED
    BY <2>1, <2>2 DEF Shown, Contract!Next, Contract!Acquire, State, Steps
<1> QED
  BY <1>2, <1>3, <1>4, <1>5, <1>6, <1>7 DEF MainStep

\* A part that ends, ends; nothing else the threads do is seen.
LEMMA ThreadShown ==
  ASSUME IInv,
         \/ RequestShutdown \/ ServerStarts \/ ServerEnqueues \/ ServerEnds
         \/ WatcherEnds \/ ReaderEnds \/ EncoderStep
  PROVE  Shown
<1>1. /\ UNCHANGED <<phase, run>> /\ DOMAIN thread = Threads
      /\ DOMAIN thread' = Threads
      /\ runtime' = None <=> runtime = None
      /\ runtime # None => runtime'.phase = runtime.phase
  BY ThreadEffects, ApplicationAssumption DEF IInv, TypeOK, Threads
<1>2. \/ \A t \in Threads : thread'[t] \in {"alive", "serving"}
                              <=> thread[t] \in {"alive", "serving"}
      \/ \E t \in Threads : thread' = [thread EXCEPT ![t] = "ended"]
  BY DEF RequestShutdown, ServerStarts, ServerEnqueues, ServerEnds, WatcherEnds,
         ReaderEnds, EncoderStep, Threads, IInv, TypeOK
<1>3. Alive' = Alive \/ \E p \in Steps : Alive' = Alive \ {p}
  BY <1>1, <1>2 DEF Alive, Threads, Steps
<1> QED
  BY <1>1, <1>3
     DEF Shown, Contract!Next, Contract!End, Contract!contractVars, State

LEMMA LoopShown ==
  ASSUME IInv, Loop
  PROVE  Shown
<1>1. /\ UNCHANGED <<phase, thread>> /\ runtime # None /\ runtime' # None
      /\ runtime'.phase = runtime.phase
  BY LoopEffects
<1>2. Alive' = Alive \/ Alive' = Alive \ {"loop"}
  <2>1. DOMAIN thread = Threads /\ DOMAIN thread' = Threads
    BY <1>1 DEF IInv, TypeOK, Threads
  <2>2. CASE run'.stage = "active"
    BY <1>1, <2>2, LoopEffects DEF Alive
  <2>3. CASE run'.stage # "active"
    BY <1>1, <2>1, <2>3 DEF Alive, Threads
  <2> QED
    BY <2>2, <2>3
<1> QED
  BY <1>1, <1>2
     DEF Shown, Contract!Next, Contract!End, Contract!contractVars, State, Steps

\* Closing begins when it may, ends the runtime, and is over when all is.
LEMMA CloserShown ==
  ASSUME IInv, IInv', NEW c \in Closers, Close(c) \/ CloserStep(c) \/ Raise(c)
  PROVE  Shown
<1>1. TypeOK /\ UNCHANGED <<run, thread>>
  BY DEF IInv, Close, CloserStep, Raise, Enter, Waited, BeginResources, Join,
         CloseRuntime, JoinRuntime, Finish, Commit, CloseStep
<1>2. CASE Close(c) \/ Waited(c) \/ Join(c)
  BY <1>1, <1>2 DEF Close, Waited, Join, Shown, Contract!contractVars, State, Alive
<1>3. CASE Enter(c)
  <2>1. UNCHANGED runtime /\ Alive' = Alive /\ phase # "starting"
    BY <1>1, <1>3 DEF Enter, LockFree, Alive, IInv, StartedInOrder, Startup
  <2>2. phase' = "stopped" => Alive = {}
    BY <2>1 DEF IInv, StoppedIsQuiet
  <2>3. \/ phase \in {"new", "stopped"} /\ phase' = "stopped"
        \/ phase \in {"running", "stopping", "incomplete"} /\ phase' \in {phase, "stopping"}
    BY <1>1, <1>3, <2>1 DEF Enter, TypeOK
  <2> QED
    BY <2>1, <2>2, <2>3
       DEF Shown, Contract!Next, Contract!Down, Contract!BeginClosing,
           Contract!contractVars, State
<1>4. CASE BeginResources(c) \/ CloseRuntime(c) \/ JoinRuntime(c)
  <2>1. UNCHANGED phase
    BY <1>4 DEF BeginResources, CloseRuntime, JoinRuntime
  <2>2. closer[c].stage \in Closing
    BY <1>4 DEF BeginResources, CloseRuntime, JoinRuntime, Closing
  <2>3. /\ runtime' = None <=> runtime = None
        /\ runtime # None /\ runtime.phase = "closed" => runtime'.phase = "closed"
    <3>1. runtime # None => runtime \in Runtime
      BY <1>1 DEF TypeOK
    <3>2. CASE BeginResources(c)
      BY <3>1, <3>2, CloseOperators, ApplicationAssumption DEF BeginResources
    <3>3. CASE CloseRuntime(c)
      BY <3>1, <3>3, CloseOperators, ApplicationAssumption DEF CloseRuntime
    <3>4. CASE JoinRuntime(c)
      <4>1. runtime # None /\ runtime.phase = "closing"
        BY <2>2, <3>4 DEF JoinRuntime, IInv, DoneHasEnded
      <4>2. \E b \in BOOLEAN : runtime' = FinishClose(runtime, b)
        BY <3>4 DEF JoinRuntime, Quiesced
      <4> QED
        BY <3>1, <4>1, <4>2, CloseOperators, ApplicationAssumption
    <3> QED
      BY <1>4, <3>2, <3>3, <3>4
  <2>4. Alive' = Alive \/ Alive' = Alive \ {"runtime"}
    BY <1>1, <2>3 DEF Alive, Threads, TypeOK
  <2> QED
    BY <2>1, <2>4
       DEF Shown, Contract!Next, Contract!End, Contract!contractVars, State, Steps
<1>5. CASE Finish(c) \/ Raise(c)
  <2>1. UNCHANGED runtime /\ Alive' = Alive
    BY <1>1, <1>5 DEF Finish, Raise, Commit, Alive
  <2>2. closer[c].stage \in Closing
    BY <1>5 DEF Finish, Raise, Closing
  <2>3. phase = "stopping" /\ phase' \in {"stopped", "incomplete", "stopping"}
    BY <1>5, <2>2, CloserAlone DEF Finish, Raise, Commit
  <2>4. phase' = "stopped" => Alive = {}
    BY <2>1 DEF IInv, StoppedIsQuiet
  <2> QED
    BY <2>1, <2>3, <2>4
       DEF Shown, Contract!Next, Contract!Down, Contract!contractVars, State
<1> QED
  BY <1>2, <1>3, <1>4, <1>5 DEF CloserStep

\* Parts are started only while the application is up, none is once it began to
\* close, and it is down only when all have ended, for good (start, _rollback,
\* close, _close_resources).
THEOREM ApplicationImplementsContract == Spec => ImplementsContract
<1>1. IInv /\ IInv' /\ [Next]_vars => [Contract!Next]_(Contract!contractVars)
  <2> SUFFICES ASSUME IInv, IInv', [Next]_vars PROVE Shown
    BY DEF Shown
  <2>1. CASE UNCHANGED vars
    BY <2>1 DEF vars, Shown, Contract!contractVars, State, Alive
  <2> QED
    BY <2>1, MainShown, LoopShown, ThreadShown, CloserShown
       DEF Next, Loop, LoopStepAny
<1> QED
  BY InitContract, Invariant, <1>1, PTL DEF Spec, ImplementsContract, Contract!Spec

================================================================================
