-------------------------- MODULE EndpointDirectory --------------------------
(***************************************************************************)
(* EndpointDirectory (src/forge_gateway/domain/tool_directory.py): one     *)
(* leased registration per endpoint and a revision that counts every       *)
(* change of the set of registrations.                                     *)
(*                                                                         *)
(* Callers bring their own observation of the clock.  Registry messages    *)
(* are judged at the instant the single Dora reader thread stamped them,   *)
(* in FIFO order, so those instants never decrease but may be far behind   *)
(* the clock; sweeps and HTTP reads use a reading that may be behind it    *)
(* too, since the clock is read before the lock is taken.                  *)
(***************************************************************************)
EXTENDS Leases

CONSTANTS
  MaxRevision,    \* _MAX_SAFE_JSON_INTEGER, small enough to be reached
  MaxClock        \* bound of the model: the clock stops here

ASSUME RevisionAssumption == MaxRevision \in Nat /\ MaxClock \in Nat

VARIABLES
  clock,      \* time.monotonic()
  received,   \* the reader's stamp on the last registry message handled
  leases,     \* _current, without registry_revision
  stamp,      \* registry_revision of each current lease
  revision,   \* _revision
  last        \* the last operation: its observation, verdict and report

vars == <<clock, received, leases, stamp, revision, last>>

Operations == {"none", "register", "unregister", "expire", "resolve"}

TypeOK ==
  /\ clock \in 0..MaxClock
  /\ received \in 0..clock
  /\ IsLeaseTable(leases)
  /\ stamp \in [DOMAIN leases -> Nat \ {0}]
  /\ revision \in Nat
  /\ last \in [op : Operations, now : 0..clock,
               verdict : RegisterVerdicts \cup UnregisterVerdicts
                           \cup {"done", "exhausted"},
               removed : SUBSET [endpoint : Endpoints, instance : Instances]]

Init ==
  /\ clock = 0
  /\ received = 0
  /\ leases = <<>>
  /\ stamp = <<>>
  /\ revision = 0
  /\ last = [op |-> "none", now |-> 0, verdict |-> "done", removed |-> {}]

-----------------------------------------------------------------------------
\* _ensure_revision_capacity_locked, taken before anything is changed.
HasRevisions(count) == revision <= MaxRevision - count

Report(op, now, verdict, gone) ==
  last' = [op |-> op, now |-> now, verdict |-> verdict,
           removed |-> Identities(leases, gone)]

\* The preflight failed: RuntimeError, and nothing changed.
Exhausted(op, now) ==
  /\ Report(op, now, "exhausted", {})
  /\ UNCHANGED <<clock, leases, stamp, revision>>

\* _expire_locked, shared by expire, resolve and snapshot; the last two do
\* not tell their caller what they removed.
ExpireAt(op, now, reported) ==
  LET gone == Lapsed(leases, now) IN
  IF ~HasRevisions(Cardinality(gone)) THEN Exhausted(op, now)
  ELSE /\ revision' = revision + Cardinality(gone)
       /\ leases' = Live(leases, now)
       /\ stamp' = Restrict(stamp, DOMAIN leases \ gone)
       /\ Report(op, now, "done", reported)
       /\ UNCHANGED clock

\* expire(now)
Expire(now) ==
  /\ ExpireAt("expire", now, Lapsed(leases, now))
  /\ UNCHANGED received

\* resolve(endpoint_id, operation, now), snapshot(now), registrations(now)
Resolve(now) ==
  /\ ExpireAt("resolve", now, {})
  /\ UNCHANGED received

-----------------------------------------------------------------------------
\* The revision a registration draws for itself.
Bump(verdict) == IF verdict \in {"announced", "replaced"} THEN 1 ELSE 0

\* The revisions a registration needs beyond those of the lapsed leases.
ExtraRevisions(live, reg, route) ==
  IF /\ reg.endpoint = RouteEndpoint[route]
     /\ reg.descriptor \in Supported
     /\ \/ reg.endpoint \notin DOMAIN live
        \/ /\ live[reg.endpoint].route = route
           /\ live[reg.endpoint].instance # reg.instance
  THEN 1 ELSE 0

\* register_with_change(request, route, now)
Register(reg, route, now) ==
  LET gone == Lapsed(leases, now)
      live == Live(leases, now)
      verdict == RegisterVerdict(live, reg, route)
      fresh == verdict \in {"announced", "replaced"}
      bumped == revision + Cardinality(gone) + Bump(verdict)
  IN /\ received' = now
     /\ IF ~HasRevisions(Cardinality(gone) + ExtraRevisions(live, reg, route))
        THEN Exhausted("register", now)
        ELSE /\ leases' = Announce(live, reg, route, now)
             /\ revision' = bumped
             /\ stamp' = [e \in DOMAIN leases' |->
                            IF fresh /\ e = reg.endpoint THEN bumped
                            ELSE stamp[e]]
             /\ Report("register", now, verdict,
                       RemovedByRegister(leases, reg, route, now))
             /\ UNCHANGED clock

\* unregister_with_change(request, route, now)
Unregister(wd, route, now) ==
  LET gone == Lapsed(leases, now)
      live == Live(leases, now)
      verdict == UnregisterVerdict(live, wd, route)
      removes == IF verdict = "removed" THEN 1 ELSE 0
  IN /\ received' = now
     /\ IF ~HasRevisions(Cardinality(gone) + removes)
        THEN Exhausted("unregister", now)
        ELSE /\ leases' = Withdraw(live, wd, route)
             /\ revision' = revision + Cardinality(gone) + removes
             /\ stamp' = Restrict(stamp, DOMAIN leases')
             /\ Report("unregister", now, verdict,
                       RemovedByUnregister(leases, wd, route, now))
             /\ UNCHANGED clock

\* The stamps the next registry message may carry: the reader stamps them
\* from the clock and its buffer keeps them in order.
Stamps == received..clock

Tick ==
  /\ clock < MaxClock
  /\ clock' = clock + 1
  /\ UNCHANGED <<received, leases, stamp, revision, last>>

Next ==
  \/ Tick
  \/ \E now \in 0..clock : Expire(now) \/ Resolve(now)
  \/ \E now \in Stamps, route \in Routes :
       \/ \E reg \in Registration : Register(reg, route, now)
       \/ \E wd \in Withdrawal : Unregister(wd, route, now)

Spec == Init /\ [][Next]_vars

-----------------------------------------------------------------------------
\* A lease belongs to the route configured for its endpoint: no other route
\* can announce, renew or take over an endpoint's registration.
RouteOwnership == \A e \in DOMAIN leases : RouteEndpoint[leases[e].route] = e

\* registry_revision names one registration: no two current registrations
\* share it, and none is from the future.
StampsDistinct ==
  /\ \A e \in DOMAIN leases : stamp[e] <= revision
  /\ \A e, f \in DOMAIN leases : stamp[e] = stamp[f] => e = f

\* After an operation observed at an instant, no lease that had run out by
\* then is still in the table, whichever verdict the operation ended with.
NoLapsedLeaseSurvives ==
  last.verdict # "exhausted" =>
    \A e \in DOMAIN leases : leases[e].expires > last.now

\* What discovery shows of the table: a reader that sees the same revision
\* twice may rely on having seen the same set of registrations.
Members == [e \in DOMAIN leases |->
              [instance |-> leases[e].instance, route |-> leases[e].route,
               descriptor |-> leases[e].descriptor, stamp |-> stamp[e]]]

\* The revision moves exactly when the set of registrations does, and only
\* forwards: a renewal keeps it, an expiry, replacement or removal bumps it.
RevisionTracksMembers ==
  [][/\ revision' >= revision
     /\ (revision' = revision) <=> (Members' = Members)]_vars

\* Register, unregister and expire report exactly the registrations that the
\* step ended: the Tool Gateway relies on that report to fail the work pinned
\* to them, so one left out would leave an invocation waiting on a provider
\* that is gone, and one too many would fail the work of a live provider.
RemovalsReported ==
  [][last'.op \in {"register", "unregister", "expire"} /\ clock' = clock =>
       last'.removed =
         Identities(leases, {e \in DOMAIN leases :
                               e \notin DOMAIN leases' \/ stamp'[e] # stamp[e]})]_vars

\* A renewal never shortens the lease it renews, though it is judged at the
\* instant the reader received it and not when it is processed.
RenewalNeverShortens ==
  [][\A e \in DOMAIN leases \cap DOMAIN leases' :
       stamp'[e] = stamp[e] => leases'[e].expires >= leases[e].expires]_vars

\* The preflight counts every revision the operation goes on to use.  An
\* uncounted one would raise half-way, with some lapsed leases deleted and
\* reported to nobody.
RevisionNeverOverruns == revision <= MaxRevision
=============================================================================
