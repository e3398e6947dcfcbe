---------------------------- MODULE GatewayRuntime ----------------------------
(***************************************************************************)
(* GatewayRuntime (src/forge_gateway/services/runtime_service.py) with its *)
(* CommandService and ImageEncodeWorker, as operators on a record: what    *)
(* the runtime's lock, the mailbox's lock and the worker's condition       *)
(* guard.  The Tool Gateway, which it opens and closes as well, is the     *)
(* subject of QueryGateway and ActionGateway.                              *)
(*                                                                         *)
(* Commands and the frames of an input are numbered in the order in which  *)
(* they are accepted; the number of a frame is its generation.             *)
(***************************************************************************)
EXTENDS Naturals, Sequences

CONSTANTS
  Inputs,      \* image_input_ids
  Capacity     \* command_queue_capacity

ASSUME RuntimeAssumption == Capacity \in Nat \ {0}

NoJob == [input |-> "none", frame |-> 0]

Runtime ==
  [phase    : {"running", "closing", "closed"},
   mailbox  : Seq(Nat \ {0}),              \* command_queue
   accepted : Nat,                         \* commands admitted so far
   shut     : BOOLEAN,                     \* CommandService._closed_reason
   leases   : Nat,                         \* _inflight_dispatches
   order    : Seq(Inputs),                 \* _input_order
   frame    : [Inputs -> Nat],             \* _generations
   gate     : BOOLEAN,                     \* _submissions_closed
   stopped  : BOOLEAN,                     \* ImageEncodeWorker._stopped
   job      : {NoJob} \cup [input : Inputs, frame : Nat],
   encoder  : BOOLEAN,                     \* the worker's thread is alive
   images   : [Inputs -> Nat],             \* images, by generation
   failed   : [Inputs -> Nat]]             \* the last frame not encoded

NewRuntime ==
  [phase |-> "running", mailbox |-> <<>>, accepted |-> 0, shut |-> FALSE,
   leases |-> 0, order |-> <<>>, frame |-> [i \in Inputs |-> 0],
   gate |-> FALSE, stopped |-> FALSE, job |-> NoJob, encoder |-> TRUE,
   images |-> [i \in Inputs |-> 0], failed |-> [i \in Inputs |-> 0]]

-----------------------------------------------------------------------------
(* The command mailbox.                                                    *)

\* Mutation: the newest command goes first.
OfferFirst(r) == [r EXCEPT !.accepted = @ + 1,
                           !.mailbox = <<r.accepted + 1>> \o @]

\* enqueue_policy_command, set_record_root
CanOffer(r) == r.phase = "running" /\ ~r.shut /\ Len(r.mailbox) < Capacity
Offer(r) == [r EXCEPT !.accepted = @ + 1,
                      !.mailbox = Append(@, r.accepted + 1)]

\* take_next_command
CanTake(r) == ~r.shut /\ r.mailbox # <<>>
Take(r) == [r EXCEPT !.mailbox = Tail(@)]

\* claim_command_dispatch, release_command_dispatch
CanClaim(r) == r.phase = "running"

\* Mutation: the lease that is returned was never counted.
ClaimUncounted(r) == r

Claim(r) == [r EXCEPT !.leases = @ + 1]
Return(r) == [r EXCEPT !.leases = @ - 1]

-----------------------------------------------------------------------------
(* The image worker.                                                       *)

\* Mutation: an input whose frame is being encoded is not queued again.
WaitsOrEncodes(r, i) ==
  r.job.input = i \/ \E n \in DOMAIN r.order : r.order[n] = i

\* input_id in _latest_inputs
Waits(r, i) == \E n \in DOMAIN r.order : r.order[n] = i

\* submit: the newest frame takes the place of one that waits.
Submit(r, i) ==
  IF r.stopped \/ r.gate THEN r
  ELSE [r EXCEPT !.frame[i] = @ + 1,
                 !.order = IF Waits(r, i) THEN @ ELSE Append(@, i)]

\* _next_item: the frame taken is the last one submitted so far.
CanTakeFrame(r) == r.encoder /\ r.job = NoJob /\ ~r.stopped /\ r.order # <<>>
TakeFrame(r) ==
  LET i == Head(r.order)
  IN [r EXCEPT !.order = Tail(@),
               !.job = [input |-> i, frame |-> r.frame[i]]]

CanExit(r) == r.encoder /\ r.job = NoJob /\ r.stopped
Exit(r) == [r EXCEPT !.encoder = FALSE]

\* What has been encoded counts only if nothing newer was submitted.
Superseded(r) == r.stopped \/ r.frame[r.job.input] # r.job.frame

PublishFrame(r) ==
  [r EXCEPT !.job = NoJob,
            !.images[r.job.input] =
               IF Superseded(r) \/ r.phase # "running" THEN @ ELSE r.job.frame]

\* The encoder gave nothing, or raised.
DropFrame(r) ==
  [r EXCEPT !.job = NoJob, !.failed[r.job.input] = r.job.frame]

-----------------------------------------------------------------------------
(* Closing.                                                                *)

\* begin_close, and the first section of close
BeginClose(r) ==
  IF r.phase # "running" THEN r
  ELSE [r EXCEPT !.phase = "closing", !.gate = TRUE]

\* ImageEncodeWorker.request_stop, then CommandService.close
Stop(r) ==
  [r EXCEPT !.gate = TRUE, !.stopped = TRUE, !.order = <<>>, !.shut = TRUE]

\* The last section of close: drained and joined before their timeouts?
Quiesced(r) == r.leases = 0 /\ ~r.encoder
FinishClose(r, succeeded) ==
  [r EXCEPT !.phase = IF succeeded THEN "closed" ELSE "closing"]
===============================================================================
