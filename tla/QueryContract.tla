---------------------------- MODULE QueryContract ----------------------------
(***************************************************************************)
(* What the Tool Gateway promises about each Query invocation it admits,   *)
(* whatever threads, providers and clocks do: it is handed to a provider   *)
(* at most once and only while it is open, it is concluded exactly once,   *)
(* and the conclusion fits what happened (a provider's word only for an    *)
(* invocation that was handed over, "unavailable" only for one that was    *)
(* not).  src/docs/api.md states this promise; QueryGateway implements it. *)
(***************************************************************************)
CONSTANT Invocations

VARIABLES
  stage,      \* how far each invocation has come
  verdict     \* the conclusion its caller was given

vars == <<stage, verdict>>

\* Conclusions possible at any time, before and after the hand-over.
Anytime == {"timeout", "cancelled", "closing"}
Unsent == Anytime \cup {"unavailable"}
Sent == Anytime \cup {"result", "error", "non_terminal", "transport"}

Init ==
  /\ stage = [i \in Invocations |-> "unknown"]
  /\ verdict = [i \in Invocations |-> "none"]

Admit(i) ==
  /\ stage[i] = "unknown"
  /\ stage' = [stage EXCEPT ![i] = "queued"]
  /\ UNCHANGED verdict

HandOver(i) ==
  /\ stage[i] = "queued"
  /\ stage' = [stage EXCEPT ![i] = "claimed"]
  /\ UNCHANGED verdict

\* One step may conclude several invocations at once, and admit one more: a
\* lapsed lease is noticed by the admission of the next request.
Conclude(C, A) ==
  /\ C # {}
  /\ \A i \in C : stage[i] \in {"queued", "claimed"}
  /\ \A i \in A : stage[i] = "unknown"
  /\ stage' = [i \in Invocations |-> IF i \in C THEN "concluded"
                                     ELSE IF i \in A THEN "queued"
                                     ELSE stage[i]]
  /\ verdict' \in [Invocations -> Unsent \cup Sent \cup {"none"}]
  /\ \A i \in Invocations :
       IF i \notin C THEN verdict'[i] = verdict[i]
       ELSE verdict'[i] \in (IF stage[i] = "queued" THEN Unsent ELSE Sent)

Next ==
  \/ \E i \in Invocations : Admit(i) \/ HandOver(i)
  \/ \E C \in SUBSET Invocations, i \in Invocations :
       Conclude(C, {}) \/ Conclude(C, {i})

\* What may happen; that every admitted invocation is concluded in the end is
\* QueryGateway's InvocationsConclude.
Spec == Init /\ [][Next]_vars
=============================================================================
