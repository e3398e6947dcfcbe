----------------------- MODULE EndpointDirectoryProofs -----------------------
(***************************************************************************)
(* Proofs about the Endpoint Directory, for any endpoints, routes,         *)
(* instances, descriptors, lease time and revision limit.                  *)
(***************************************************************************)
EXTENDS EndpointDirectory, FiniteSetTheorems, TLAPS

\* Every lease was granted at an instant the reader had already passed.
GrantedInThePast ==
  \A e \in DOMAIN leases : leases[e].expires <= received + LeaseTTL

\* The inductive invariant: the safety invariants support one another.
IInv ==
  /\ TypeOK
  /\ RouteOwnership
  /\ StampsDistinct
  /\ RevisionNeverOverruns
  /\ GrantedInThePast

-----------------------------------------------------------------------------
(* The lease table.                                                        *)

\* Leases lapse only for endpoints of the table, of which there are finitely
\* many: their number is a natural number.
LEMMA LapsedFinite ==
  ASSUME NEW l, IsLeaseTable(l), NEW now
  PROVE  /\ Lapsed(l, now) \subseteq DOMAIN l
         /\ Lapsed(l, now) \subseteq Endpoints
         /\ IsFiniteSet(Lapsed(l, now))
         /\ Cardinality(Lapsed(l, now)) \in Nat
         /\ Cardinality(Lapsed(l, now)) = 0 <=> Lapsed(l, now) = {}
<1>1. Lapsed(l, now) \subseteq DOMAIN l /\ DOMAIN l \subseteq Endpoints
  BY DEF Lapsed, IsLeaseTable
<1>2. IsFiniteSet(Endpoints)
  BY LeaseAssumption
<1>3. IsFiniteSet(Lapsed(l, now))
  BY <1>1, <1>2, FS_Subset
<1> QED
  BY <1>1, <1>3, FS_CardinalityType, FS_EmptySet

\* Removing lapsed leases leaves a table of the leases that have not lapsed.
LEMMA LiveTable ==
  ASSUME NEW l, IsLeaseTable(l), NEW now \in Nat
  PROVE  /\ IsLeaseTable(Live(l, now))
         /\ DOMAIN Live(l, now) = DOMAIN l \ Lapsed(l, now)
         /\ \A e \in DOMAIN Live(l, now) : Live(l, now)[e] = l[e]
         /\ \A e \in DOMAIN Live(l, now) : l[e].expires > now
BY DEF Live, Restrict, Lapsed, IsLeaseTable, Lease

\* A registration leaves a table, whatever its verdict.
LEMMA AnnounceTable ==
  ASSUME NEW l, IsLeaseTable(l), NEW now \in Nat,
         NEW reg \in Registration, NEW route \in Routes
  PROVE  IsLeaseTable(Announce(l, reg, route, now))
<1> DEFINE granted == [instance |-> reg.instance, route |-> route,
                       descriptor |-> reg.descriptor,
                       expires |-> now + LeaseTTL]
<1>1. reg.endpoint \in Endpoints /\ granted \in Lease
  BY LeaseAssumption DEF Registration, Lease
<1>2. DOMAIN l \subseteq Endpoints /\ \A f \in DOMAIN l : l[f] \in Lease
  BY DEF IsLeaseTable
<1>3. \/ Announce(l, reg, route, now) = l
      \/ Announce(l, reg, route, now) =
           [e \in DOMAIN l \cup {reg.endpoint} |->
              IF e = reg.endpoint THEN granted ELSE l[e]]
  BY DEF Announce, Granted
<1> QED
  BY <1>1, <1>2, <1>3 DEF IsLeaseTable

\* An unregistration leaves a table, contained in the one it found.
LEMMA WithdrawTable ==
  ASSUME NEW l, IsLeaseTable(l),
         NEW wd \in Withdrawal, NEW route \in Routes
  PROVE  /\ IsLeaseTable(Withdraw(l, wd, route))
         /\ \A e \in DOMAIN Withdraw(l, wd, route) :
              e \in DOMAIN l /\ Withdraw(l, wd, route)[e] = l[e]
BY DEF Withdraw, Without, Restrict, IsLeaseTable

-----------------------------------------------------------------------------
(* The invariant holds at first, and every operation keeps it.             *)

LEMMA InitIInv == Init => IInv
<1> SUFFICES ASSUME Init PROVE IInv
  OBVIOUS
<1>1. TypeOK
  BY RevisionAssumption
     DEF Init, TypeOK, IsLeaseTable, Operations
<1>2. RouteOwnership /\ StampsDistinct /\ RevisionNeverOverruns /\ GrantedInThePast
  BY RevisionAssumption
     DEF Init, RouteOwnership, StampsDistinct, RevisionNeverOverruns,
         GrantedInThePast
<1> QED
  BY <1>1, <1>2 DEF IInv

\* What an operation reports about itself has the right type.
LEMMA ReportType ==
  ASSUME IsLeaseTable(leases), clock \in Nat, clock' = clock,
         NEW op \in Operations, NEW now \in 0..clock,
         NEW v \in RegisterVerdicts \cup UnregisterVerdicts
                     \cup {"done", "exhausted"},
         NEW gone \in SUBSET DOMAIN leases, Report(op, now, v, gone)
  PROVE  last' \in [op : Operations, now : 0..clock',
               verdict : RegisterVerdicts \cup UnregisterVerdicts
                           \cup {"done", "exhausted"},
               removed : SUBSET [endpoint : Endpoints, instance : Instances]]
<1>1. Identities(leases, gone)
        \in SUBSET [endpoint : Endpoints, instance : Instances]
  BY DEF Identities, IsLeaseTable, Lease
<1> QED
  BY <1>1 DEF Report

\* A refused operation keeps the invariant, having changed nothing of it.
LEMMA ExhaustedIInv ==
  ASSUME IInv, NEW op \in Operations, NEW now \in 0..clock,
         Exhausted(op, now), received' \in received..clock
  PROVE  IInv'
<1>1. /\ TypeOK /\ IsLeaseTable(leases) /\ clock \in Nat /\ received \in Nat
      /\ MaxClock \in Nat /\ {} \in SUBSET DOMAIN leases
  BY RevisionAssumption DEF IInv, TypeOK
<1>2. clock' = clock /\ leases' = leases /\ stamp' = stamp /\ revision' = revision
  BY DEF Exhausted
<1>3. last' \in [op : Operations, now : 0..clock',
               verdict : RegisterVerdicts \cup UnregisterVerdicts
                           \cup {"done", "exhausted"},
               removed : SUBSET [endpoint : Endpoints, instance : Instances]]
  BY <1>1, <1>2, ReportType DEF Exhausted
<1>4. received' \in 0..clock'
  BY <1>1, <1>2
<1>5. TypeOK'
  BY <1>1, <1>2, <1>3, <1>4 DEF TypeOK
<1>6. GrantedInThePast'
  BY <1>1, <1>2, LeaseAssumption
     DEF IInv, GrantedInThePast, IsLeaseTable, Lease
<1>7. RouteOwnership' /\ StampsDistinct' /\ RevisionNeverOverruns'
  BY <1>2 DEF IInv, RouteOwnership, StampsDistinct, RevisionNeverOverruns
<1> QED
  BY <1>5, <1>6, <1>7 DEF IInv

\* Removing lapsed leases keeps the invariant, reported or not.
LEMMA ExpireIInv ==
  ASSUME IInv, NEW op \in {"expire", "resolve"}, NEW now \in 0..clock,
         NEW reported \in SUBSET Lapsed(leases, now),
         ExpireAt(op, now, reported), received' = received
  PROVE  IInv'
<1> DEFINE gone == Lapsed(leases, now)
           n == Cardinality(gone)
<1>1. /\ IsLeaseTable(leases) /\ clock \in Nat /\ received \in Nat
      /\ revision \in Nat /\ MaxRevision \in Nat /\ MaxClock \in Nat
      /\ now \in Nat /\ op \in Operations
      /\ stamp \in [DOMAIN leases -> Nat \ {0}]
      /\ received \in received..clock
  BY RevisionAssumption DEF IInv, TypeOK, Operations
<1>2. gone \subseteq DOMAIN leases /\ n \in Nat
  BY <1>1, LapsedFinite
<1>3. CASE ~HasRevisions(n)
  BY <1>1, <1>3, ExhaustedIInv DEF ExpireAt
<1>4. CASE HasRevisions(n)
  <2>1. /\ revision' = revision + n
        /\ leases' = Live(leases, now)
        /\ stamp' = Restrict(stamp, DOMAIN leases \ gone)
        /\ clock' = clock
        /\ Report(op, now, "done", reported)
    BY <1>4 DEF ExpireAt
  <2>2. /\ IsLeaseTable(leases')
        /\ DOMAIN leases' = DOMAIN leases \ gone
        /\ \A e \in DOMAIN leases' : leases'[e] = leases[e]
    BY <1>1, <2>1, LiveTable
  <2>3. /\ stamp' \in [DOMAIN leases' -> Nat \ {0}]
        /\ \A e \in DOMAIN leases' : stamp'[e] = stamp[e]
    BY <1>1, <2>1, <2>2 DEF Restrict
  <2>4. revision' \in Nat /\ revision' >= revision /\ revision' <= MaxRevision
    BY <1>1, <1>2, <1>4, <2>1 DEF HasRevisions
  <2>5. last' \in [op : Operations, now : 0..clock',
               verdict : RegisterVerdicts \cup UnregisterVerdicts
                           \cup {"done", "exhausted"},
               removed : SUBSET [endpoint : Endpoints, instance : Instances]]
    BY <1>1, <1>2, <2>1, ReportType
  <2>6. TypeOK'
    BY <2>1, <2>2, <2>3, <2>4, <2>5 DEF IInv, TypeOK
  <2>7. RouteOwnership' /\ GrantedInThePast'
    BY <2>2 DEF IInv, RouteOwnership, GrantedInThePast
  <2>8. StampsDistinct'
    BY <1>1, <2>2, <2>3, <2>4 DEF IInv, StampsDistinct
  <2> QED
    BY <2>4, <2>6, <2>7, <2>8 DEF IInv, RevisionNeverOverruns
<1> QED
  BY <1>3, <1>4

\* A registration keeps the invariant, whatever its verdict.
LEMMA RegisterIInv ==
  ASSUME IInv, NEW reg \in Registration, NEW route \in Routes,
         NEW now \in received..clock, Register(reg, route, now)
  PROVE  IInv'
<1> DEFINE gone == Lapsed(leases, now)
           n == Cardinality(gone)
           live == Live(leases, now)
           verdict == RegisterVerdict(live, reg, route)
           fresh == verdict \in {"announced", "replaced"}
           extra == ExtraRevisions(live, reg, route)
           bumped == revision + n + Bump(verdict)
           table == Announce(live, reg, route, now)
           e0 == reg.endpoint
<1>1. /\ IsLeaseTable(leases) /\ clock \in Nat /\ received \in Nat
      /\ revision \in Nat /\ MaxRevision \in Nat /\ MaxClock \in Nat
      /\ now \in Nat /\ now \in 0..clock /\ "register" \in Operations
      /\ stamp \in [DOMAIN leases -> Nat \ {0}]
  BY RevisionAssumption DEF IInv, TypeOK, Operations
<1>2. gone \subseteq DOMAIN leases /\ n \in Nat
  BY <1>1, LapsedFinite
<1>3. /\ IsLeaseTable(live)
      /\ DOMAIN live = DOMAIN leases \ gone
      /\ \A e \in DOMAIN live : live[e] = leases[e]
  BY <1>1, LiveTable
<1> HIDE DEF live
<1>4. /\ IsLeaseTable(table)
      /\ verdict \in RegisterVerdicts
      /\ verdict \in {"announced", "replaced", "renewed"} =>
           /\ e0 = RouteEndpoint[route]
           /\ DOMAIN table = DOMAIN live \cup {e0}
           /\ table[e0].route = route
           /\ table[e0].expires = now + LeaseTTL
           /\ \A f \in DOMAIN live \ {e0} : table[f] = live[f]
      /\ verdict \notin {"announced", "replaced", "renewed"} => table = live
      /\ verdict \in {"replaced", "renewed"} => e0 \in DOMAIN live
  <2>1. IsLeaseTable(live) /\ now \in Nat
    BY <1>1, <1>3
  <2>2. IsLeaseTable(table)
    BY <2>1, AnnounceTable
  <2>3. verdict \in RegisterVerdicts
    BY DEF RegisterVerdict, AuthorizedVerdict, RegisterVerdicts
  <2>4. verdict \in {"announced", "replaced", "renewed"} =>
          /\ e0 = RouteEndpoint[route]
          /\ DOMAIN table = DOMAIN live \cup {e0}
          /\ table[e0].route = route
          /\ table[e0].expires = now + LeaseTTL
          /\ \A f \in DOMAIN live \ {e0} : table[f] = live[f]
    BY DEF Announce, Granted, RegisterVerdict, AuthorizedVerdict
  <2>5. verdict \notin {"announced", "replaced", "renewed"} => table = live
    BY DEF Announce
  <2>6. verdict \in {"replaced", "renewed"} => e0 \in DOMAIN live
    BY DEF RegisterVerdict, AuthorizedVerdict
  <2> QED
    BY <2>2, <2>3, <2>4, <2>5, <2>6
<1>5. CASE ~HasRevisions(n + extra)
  BY <1>1, <1>5, ExhaustedIInv DEF Register, live
<1>6. CASE HasRevisions(n + extra)
  <2>1. /\ received' = now
        /\ leases' = table
        /\ revision' = bumped
        /\ stamp' = [e \in DOMAIN leases' |->
                       IF fresh /\ e = e0 THEN bumped ELSE stamp[e]]
        /\ Report("register", now, verdict,
                  RemovedByRegister(leases, reg, route, now))
        /\ clock' = clock
    BY <1>6 DEF Register, live
  \* The preflight counts every revision that is then used.
  <2>2. extra = Bump(verdict) /\ Bump(verdict) = IF fresh THEN 1 ELSE 0
    BY DEF ExtraRevisions, RegisterVerdict, AuthorizedVerdict, Bump
  <2>3. /\ bumped \in Nat /\ bumped >= revision /\ bumped <= MaxRevision
        /\ fresh => bumped > revision
    BY <1>1, <1>2, <1>6, <2>2 DEF HasRevisions
  <2>4. RemovedByRegister(leases, reg, route, now) \in SUBSET DOMAIN leases
    BY <1>2, <1>3, <1>4 DEF RemovedByRegister, live
  <2>5. last' \in [op : Operations, now : 0..clock',
               verdict : RegisterVerdicts \cup UnregisterVerdicts
                           \cup {"done", "exhausted"},
               removed : SUBSET [endpoint : Endpoints, instance : Instances]]
    BY <1>1, <1>4, <2>1, <2>4, ReportType
  <2> HIDE DEF table, bumped, fresh, extra, gone, n
  \* A lease that is not freshly granted keeps its stamp.
  <2>6. \A e \in DOMAIN leases' :
          ~(fresh /\ e = e0) => e \in DOMAIN leases /\ stamp'[e] = stamp[e]
    BY <1>3, <1>4, <2>1 DEF fresh, RegisterVerdicts
  <2>7. stamp' \in [DOMAIN leases' -> Nat \ {0}]
    <3>1. \A e \in DOMAIN leases' : stamp'[e] \in Nat \ {0}
      BY <1>1, <2>1, <2>3, <2>6
    <3> QED
      BY <2>1, <3>1
  <2>8. received' \in 0..clock'
    BY <1>1, <2>1
  <2>9. TypeOK'
    BY <1>4, <2>1, <2>3, <2>5, <2>7, <2>8 DEF IInv, TypeOK
  <2>10. \A e \in DOMAIN leases' :
           \/ /\ e = e0
              /\ RouteEndpoint[leases'[e].route] = e
              /\ leases'[e].expires = received' + LeaseTTL
           \/ e \in DOMAIN leases /\ leases'[e] = leases[e]
    BY <1>3, <1>4, <2>1
  <2>11. RouteOwnership'
    BY <2>10 DEF IInv, RouteOwnership
  <2>12. GrantedInThePast'
    <3>1. \A e \in DOMAIN leases :
            leases[e].expires \in Nat /\ leases[e].expires <= now + LeaseTTL
      BY <1>1, LeaseAssumption DEF IInv, GrantedInThePast, IsLeaseTable, Lease
    <3> QED
      BY <1>1, <2>1, <2>10, <3>1, LeaseAssumption DEF GrantedInThePast
  <2>13. StampsDistinct'
    <3>1. \A e \in DOMAIN leases' : fresh /\ e = e0 => stamp'[e] = bumped
      BY <2>1
    <3>2. \A e \in DOMAIN leases' : ~(fresh /\ e = e0) => stamp'[e] <= revision
      BY <2>6 DEF IInv, StampsDistinct
    <3>3. \A e \in DOMAIN leases' : stamp'[e] \in Nat
      BY <2>7
    <3>4. \A e \in DOMAIN leases' : stamp'[e] <= bumped
      BY <1>1, <2>3, <3>1, <3>2, <3>3
    <3>5. ASSUME NEW e \in DOMAIN leases', NEW f \in DOMAIN leases',
                 stamp'[e] = stamp'[f]
          PROVE  e = f
      <4>1. CASE fresh /\ (e = e0 \/ f = e0)
        BY <1>1, <2>3, <3>1, <3>2, <3>3, <3>5, <4>1
      <4>2. CASE ~(fresh /\ (e = e0 \/ f = e0))
        BY <2>6, <3>5, <4>2 DEF IInv, StampsDistinct
      <4> QED
        BY <4>1, <4>2
    <3> QED
      BY <2>1, <3>4, <3>5 DEF StampsDistinct
  <2> QED
    BY <2>1, <2>3, <2>9, <2>11, <2>12, <2>13 DEF IInv, RevisionNeverOverruns
<1> QED
  BY <1>5, <1>6

\* So does an unregistration.
LEMMA UnregisterIInv ==
  ASSUME IInv, NEW wd \in Withdrawal, NEW route \in Routes,
         NEW now \in received..clock, Unregister(wd, route, now)
  PROVE  IInv'
<1> DEFINE gone == Lapsed(leases, now)
           n == Cardinality(gone)
           live == Live(leases, now)
           verdict == UnregisterVerdict(live, wd, route)
           removes == IF verdict = "removed" THEN 1 ELSE 0
           table == Withdraw(live, wd, route)
<1>1. /\ IsLeaseTable(leases) /\ clock \in Nat /\ received \in Nat
      /\ revision \in Nat /\ MaxRevision \in Nat /\ MaxClock \in Nat
      /\ now \in Nat /\ now \in 0..clock /\ "unregister" \in Operations
      /\ stamp \in [DOMAIN leases -> Nat \ {0}]
  BY RevisionAssumption DEF IInv, TypeOK, Operations
<1>2. gone \subseteq DOMAIN leases /\ n \in Nat
  BY <1>1, LapsedFinite
<1>3. /\ IsLeaseTable(live)
      /\ DOMAIN live = DOMAIN leases \ gone
      /\ \A e \in DOMAIN live : live[e] = leases[e]
  BY <1>1, LiveTable
<1> HIDE DEF live
<1>4. /\ IsLeaseTable(table)
      /\ verdict \in UnregisterVerdicts
      /\ verdict = "removed" => wd.endpoint \in DOMAIN live
      /\ \A e \in DOMAIN table : e \in DOMAIN live /\ table[e] = live[e]
  <2>1. IsLeaseTable(live)
    BY <1>3
  <2>2. verdict \in UnregisterVerdicts
    BY DEF UnregisterVerdict, UnregisterVerdicts
  <2>3. verdict = "removed" => wd.endpoint \in DOMAIN live
    BY DEF UnregisterVerdict
  <2>4. /\ IsLeaseTable(table)
        /\ \A e \in DOMAIN table : e \in DOMAIN live /\ table[e] = live[e]
    BY <2>1, WithdrawTable
  <2> QED
    BY <2>2, <2>3, <2>4
<1>5. CASE ~HasRevisions(n + removes)
  BY <1>1, <1>5, ExhaustedIInv DEF Unregister, live
<1>6. CASE HasRevisions(n + removes)
  <2>1. /\ received' = now
        /\ leases' = table
        /\ revision' = revision + n + removes
        /\ stamp' = Restrict(stamp, DOMAIN leases')
        /\ Report("unregister", now, verdict,
                  RemovedByUnregister(leases, wd, route, now))
        /\ clock' = clock
    BY <1>6 DEF Unregister, live
  <2>2. revision' \in Nat /\ revision' >= revision /\ revision' <= MaxRevision
    BY <1>1, <1>2, <1>6, <2>1 DEF HasRevisions
  <2>3. RemovedByUnregister(leases, wd, route, now) \in SUBSET DOMAIN leases
    BY <1>2, <1>3, <1>4 DEF RemovedByUnregister, live
  <2>4. last' \in [op : Operations, now : 0..clock',
               verdict : RegisterVerdicts \cup UnregisterVerdicts
                           \cup {"done", "exhausted"},
               removed : SUBSET [endpoint : Endpoints, instance : Instances]]
    BY <1>1, <1>4, <2>1, <2>3, ReportType
  <2> HIDE DEF table, removes, gone, n
  <2>5. \A e \in DOMAIN leases' : e \in DOMAIN leases /\ leases'[e] = leases[e]
    BY <1>3, <1>4, <2>1
  <2>6. /\ stamp' \in [DOMAIN leases' -> Nat \ {0}]
        /\ \A e \in DOMAIN leases' : stamp'[e] = stamp[e]
    BY <1>1, <2>1, <2>5 DEF Restrict
  <2>7. received' \in 0..clock'
    BY <1>1, <2>1
  <2>8. TypeOK'
    BY <1>4, <2>1, <2>2, <2>4, <2>6, <2>7 DEF IInv, TypeOK
  <2>9. RouteOwnership'
    BY <2>5 DEF IInv, RouteOwnership
  <2>10. GrantedInThePast'
    <3>1. \A e \in DOMAIN leases :
            leases[e].expires \in Nat /\ leases[e].expires <= now + LeaseTTL
      BY <1>1, LeaseAssumption DEF IInv, GrantedInThePast, IsLeaseTable, Lease
    <3> QED
      BY <2>1, <2>5, <3>1 DEF GrantedInThePast
  <2>11. StampsDistinct'
    BY <1>1, <2>2, <2>5, <2>6 DEF IInv, StampsDistinct
  <2> QED
    BY <2>2, <2>8, <2>9, <2>10, <2>11 DEF IInv, RevisionNeverOverruns
<1> QED
  BY <1>5, <1>6

\* Time passing keeps it too.
LEMMA TickIInv == IInv /\ Tick => IInv'
<1> SUFFICES ASSUME IInv, Tick PROVE IInv'
  OBVIOUS
<1>1. /\ clock \in Nat /\ clock' = clock + 1 /\ clock' \in 0..MaxClock
      /\ received \in 0..clock /\ last.now \in 0..clock
      /\ UNCHANGED <<received, leases, stamp, revision, last>>
  BY RevisionAssumption DEF IInv, TypeOK, Tick
<1>2. received' \in 0..clock' /\ last.now \in 0..clock'
  BY <1>1
<1>3. TypeOK'
  <2>1. last' \in [op : Operations, now : 0..clock',
               verdict : RegisterVerdicts \cup UnregisterVerdicts
                           \cup {"done", "exhausted"},
               removed : SUBSET [endpoint : Endpoints, instance : Instances]]
    BY <1>1, <1>2 DEF IInv, TypeOK
  <2> QED
    BY <1>1, <1>2, <2>1 DEF IInv, TypeOK
<1> QED
  BY <1>1, <1>3
     DEF IInv, RouteOwnership, StampsDistinct, RevisionNeverOverruns,
         GrantedInThePast

LEMMA NextIInv == IInv /\ [Next]_vars => IInv'
<1> SUFFICES ASSUME IInv, [Next]_vars PROVE IInv'
  OBVIOUS
<1>1. CASE Tick
  BY <1>1, TickIInv
<1>2. ASSUME NEW now \in 0..clock, Expire(now)
      PROVE  IInv'
  BY <1>2, ExpireIInv DEF Expire
<1>3. ASSUME NEW now \in 0..clock, Resolve(now)
      PROVE  IInv'
  BY <1>3, ExpireIInv DEF Resolve
<1>4. ASSUME NEW now \in Stamps, NEW route \in Routes,
             NEW reg \in Registration, Register(reg, route, now)
      PROVE  IInv'
  BY <1>4, RegisterIInv DEF Stamps
<1>5. ASSUME NEW now \in Stamps, NEW route \in Routes,
             NEW wd \in Withdrawal, Unregister(wd, route, now)
      PROVE  IInv'
  BY <1>5, UnregisterIInv DEF Stamps
<1>6. CASE UNCHANGED vars
  BY <1>6
     DEF vars, IInv, TypeOK, RouteOwnership, StampsDistinct,
         RevisionNeverOverruns, GrantedInThePast
<1> QED
  BY <1>1, <1>2, <1>3, <1>4, <1>5, <1>6 DEF Next

\* The Directory's state always has its type, each lease belongs to the route
\* of its endpoint, each registry revision names one registration, and the
\* counter never passes its limit.
THEOREM Invariant == Spec => []IInv
<1>1. Init => IInv
  BY InitIInv
<1>2. IInv /\ [Next]_vars => IInv'
  BY NextIInv
<1> QED
  BY <1>1, <1>2, PTL DEF Spec

\* Type correctness of the Directory's state.
THEOREM TypeCorrect == Spec => []TypeOK
<1>1. IInv => TypeOK
  BY DEF IInv
<1> QED
  BY Invariant, <1>1, PTL

\* No route ever holds the registration of an endpoint it is not configured
\* for.
THEOREM RoutesOwn == Spec => []RouteOwnership
<1>1. IInv => RouteOwnership
  BY DEF IInv
<1> QED
  BY Invariant, <1>1, PTL

\* A registry revision identifies at most one current registration.
THEOREM StampsIdentify == Spec => []StampsDistinct
<1>1. IInv => StampsDistinct
  BY DEF IInv
<1> QED
  BY Invariant, <1>1, PTL

\* The preflight of every operation counts all the revisions it uses.
THEOREM PreflightSuffices == Spec => []RevisionNeverOverruns
<1>1. IInv => RevisionNeverOverruns
  BY DEF IInv
<1> QED
  BY Invariant, <1>1, PTL

-----------------------------------------------------------------------------
(* What a step may do to the leases that are in the table.                 *)

\* A renewal is granted at an instant that is not earlier than the one the
\* lease was granted at, so it ends no earlier.
THEOREM RenewalExtends == Spec => RenewalNeverShortens
<1>1. ASSUME IInv, [Next]_vars, NEW e \in DOMAIN leases \cap DOMAIN leases',
             stamp'[e] = stamp[e]
      PROVE  leases'[e].expires >= leases[e].expires
  <2>1. /\ IsLeaseTable(leases) /\ received \in Nat /\ clock \in Nat
        /\ leases[e].expires \in Nat
        /\ leases[e].expires <= received + LeaseTTL
        /\ LeaseTTL \in Nat
    BY <1>1, LeaseAssumption
       DEF IInv, TypeOK, GrantedInThePast, IsLeaseTable, Lease
  <2>0. ASSUME NEW now \in Nat, e \in DOMAIN Live(leases, now)
        PROVE  Live(leases, now)[e] = leases[e]
    BY <2>0, <2>1, LiveTable
  <2>2. CASE leases' = leases
    BY <2>1, <2>2
  <2>3. ASSUME NEW op, NEW now \in 0..clock, NEW reported,
               ExpireAt(op, now, reported)
        PROVE  leases'[e].expires >= leases[e].expires
    <3>1. leases' = leases \/ leases' = Live(leases, now)
      BY <2>3 DEF ExpireAt, Exhausted
    <3>2. now \in Nat
      BY <2>1
    <3>3. leases[e].expires >= leases[e].expires
      BY <2>1
    <3> QED
      BY <1>1, <2>0, <3>1, <3>2, <3>3
  <2>4. ASSUME NEW now \in Stamps, NEW route \in Routes,
               NEW reg \in Registration, Register(reg, route, now)
        PROVE  leases'[e].expires >= leases[e].expires
    <3>1. \/ leases' = leases
          \/ leases' = Announce(Live(leases, now), reg, route, now)
      BY <2>4 DEF Register, Exhausted
    <3>2. CASE leases' = Announce(Live(leases, now), reg, route, now)
      <4>1. \/ leases'[e].expires = now + LeaseTTL
            \/ e \in DOMAIN Live(leases, now)
               /\ leases'[e] = Live(leases, now)[e]
        BY <1>1, <3>2 DEF Announce, Granted
      <4>2. now \in Nat /\ now >= received
        BY <2>1 DEF Stamps
      <4>3. CASE leases'[e].expires = now + LeaseTTL
        BY <2>1, <4>2, <4>3
      <4>4. CASE leases'[e] = leases[e]
        BY <2>1, <4>4
      <4> QED
        BY <2>0, <4>1, <4>2, <4>3, <4>4
    <3> QED
      BY <2>2, <3>1, <3>2
  <2>5. ASSUME NEW now \in Stamps, NEW route \in Routes,
               NEW wd \in Withdrawal, Unregister(wd, route, now)
        PROVE  leases'[e].expires >= leases[e].expires
    <3>1. \/ leases' = leases
          \/ leases' = Withdraw(Live(leases, now), wd, route)
      BY <2>5 DEF Unregister, Exhausted
    <3>2. now \in Nat
      BY <2>1 DEF Stamps
    <3>3. IsLeaseTable(Live(leases, now))
      BY <2>1, <3>2, LiveTable
    <3>4. CASE leases' = Withdraw(Live(leases, now), wd, route)
      <4>1. e \in DOMAIN Live(leases, now) /\ leases'[e] = Live(leases, now)[e]
        BY <1>1, <3>3, <3>4, WithdrawTable
      <4>2. leases'[e] = leases[e]
        BY <2>0, <3>2, <4>1
      <4> QED
        BY <2>1, <4>2
    <3> QED
      BY <2>2, <3>1, <3>4
  <2>6. CASE Tick \/ UNCHANGED vars
    BY <2>2, <2>6 DEF Tick, vars
  <2> QED
    BY <1>1, <2>3, <2>4, <2>5, <2>6 DEF Next, Expire, Resolve
<1>2. IInv /\ [Next]_vars =>
        [\A e \in DOMAIN leases \cap DOMAIN leases' :
           stamp'[e] = stamp[e] => leases'[e].expires >= leases[e].expires]_vars
  BY <1>1
<1> QED
  BY Invariant, <1>2, PTL DEF Spec, RenewalNeverShortens

-----------------------------------------------------------------------------
(* What the table looks like after an operation.                           *)

\* What a registration leaves in the table that was not there before is one
\* lease, granted at the instant it was judged.
LEMMA AnnounceEntries ==
  ASSUME NEW l, NEW now, NEW reg, NEW route,
         NEW e \in DOMAIN Announce(l, reg, route, now)
  PROVE  \/ Announce(l, reg, route, now)[e].expires = now + LeaseTTL
         \/ e \in DOMAIN l /\ Announce(l, reg, route, now)[e] = l[e]
BY DEF Announce, Granted

\* Whatever verdict it ended with, an operation that was carried out leaves no
\* lease that had run out by the instant it was judged at.
THEOREM LapsedAreGone == Spec => []NoLapsedLeaseSurvives
<1>1. Init => NoLapsedLeaseSurvives
  BY DEF Init, NoLapsedLeaseSurvives
<1>2. ASSUME IInv, NoLapsedLeaseSurvives, [Next]_vars
      PROVE  NoLapsedLeaseSurvives'
  <2>1. /\ IsLeaseTable(leases) /\ received \in Nat /\ clock \in Nat
        /\ LeaseTTL \in Nat \ {0}
    BY <1>2, LeaseAssumption DEF IInv, TypeOK
  <2>2. ASSUME NEW op, NEW now, Exhausted(op, now)
        PROVE  NoLapsedLeaseSurvives'
    BY <2>2 DEF Exhausted, Report, NoLapsedLeaseSurvives
  <2>3. ASSUME NEW now \in Nat
        PROVE  \A e \in DOMAIN Live(leases, now) :
                 Live(leases, now)[e].expires > now
    BY <2>1 DEF Live, Restrict, Lapsed, IsLeaseTable, Lease
  <2>4. ASSUME NEW op, NEW now \in 0..clock, NEW reported,
               ExpireAt(op, now, reported)
        PROVE  NoLapsedLeaseSurvives'
    <3>1. \/ Exhausted(op, now)
          \/ leases' = Live(leases, now) /\ last'.now = now
      BY <2>4 DEF ExpireAt, Report
    <3>2. now \in Nat
      BY <2>1
    <3> QED
      BY <2>2, <2>3, <3>1, <3>2 DEF NoLapsedLeaseSurvives
  <2>5. ASSUME NEW now \in Stamps, NEW route \in Routes,
               NEW reg \in Registration, Register(reg, route, now)
        PROVE  NoLapsedLeaseSurvives'
    <3>1. \/ Exhausted("register", now)
          \/ /\ leases' = Announce(Live(leases, now), reg, route, now)
             /\ last'.now = now
      BY <2>5 DEF Register, Report
    <3>2. now \in Nat
      BY <2>1 DEF Stamps
    <3>3. CASE /\ leases' = Announce(Live(leases, now), reg, route, now)
               /\ last'.now = now
      <4>1. \A e \in DOMAIN leases' : leases'[e].expires > now
        BY <2>1, <2>3, <3>2, <3>3, AnnounceEntries
      <4> QED
        BY <3>3, <4>1 DEF NoLapsedLeaseSurvives
    <3> QED
      BY <2>2, <3>1, <3>3
  <2>6. ASSUME NEW now \in Stamps, NEW route \in Routes,
               NEW wd \in Withdrawal, Unregister(wd, route, now)
        PROVE  NoLapsedLeaseSurvives'
    <3>1. \/ Exhausted("unregister", now)
          \/ /\ leases' = Withdraw(Live(leases, now), wd, route)
             /\ last'.now = now
      BY <2>6 DEF Unregister, Report
    <3>2. now \in Nat
      BY <2>1 DEF Stamps
    <3>3. IsLeaseTable(Live(leases, now))
      BY <2>1, <3>2, LiveTable
    <3>4. CASE /\ leases' = Withdraw(Live(leases, now), wd, route)
               /\ last'.now = now
      <4>1. \A e \in DOMAIN leases' : leases'[e].expires > now
        BY <2>3, <3>2, <3>3, <3>4, WithdrawTable
      <4> QED
        BY <3>4, <4>1 DEF NoLapsedLeaseSurvives
    <3> QED
      BY <2>2, <3>1, <3>4
  <2>7. CASE Tick \/ UNCHANGED vars
    BY <1>2, <2>7 DEF Tick, vars, NoLapsedLeaseSurvives
  <2> QED
    BY <1>2, <2>4, <2>5, <2>6, <2>7 DEF Next, Expire, Resolve
<1> QED
  BY Invariant, <1>1, <1>2, PTL DEF Spec

-----------------------------------------------------------------------------
(* Which registrations a step ends and which it makes.                     *)

\* The step ends the registrations of ended, makes those of begun, each with
\* the revision it leaves, and draws a revision iff there are any.
Changes(ended, begun) ==
  /\ revision' \in Nat /\ revision' >= revision
  /\ revision' = revision <=> ended = {} /\ begun = {}
  /\ ended \subseteq DOMAIN leases
  /\ DOMAIN leases' = (DOMAIN leases \ ended) \cup begun
  /\ begun \cap (DOMAIN leases \ ended) = {}
  /\ \A e \in begun : stamp'[e] = revision'
  /\ \A e \in DOMAIN leases \ ended :
       /\ stamp'[e] = stamp[e]
       /\ leases'[e].instance = leases[e].instance
       /\ leases'[e].route = leases[e].route
       /\ leases'[e].descriptor = leases[e].descriptor

\* The registrations that are gone, or whose endpoint has another one, after a
\* step.
Ended == {e \in DOMAIN leases : e \notin DOMAIN leases' \/ stamp'[e] # stamp[e]}

\* A step that makes these changes ends just those registrations, and moves the
\* revision iff it changes what discovery shows.
LEMMA ChangesAreSeen ==
  ASSUME IInv, NEW ended, NEW begun, Changes(ended, begun)
  PROVE  /\ Ended = ended
         /\ revision' >= revision
         /\ (revision' = revision) <=> (Members' = Members)
<1>1. /\ revision \in Nat /\ \A e \in DOMAIN leases : stamp[e] \in Nat
      /\ \A e \in DOMAIN leases : stamp[e] <= revision
  BY DEF IInv, TypeOK, StampsDistinct
<1>2. \A e \in begun : e \in DOMAIN leases => stamp'[e] # stamp[e]
  BY <1>1 DEF Changes
<1>3. Ended = ended
  BY <1>2 DEF Changes, Ended
<1>4. ASSUME revision' = revision
      PROVE  Members' = Members
  <2>1. DOMAIN leases' = DOMAIN leases
    BY <1>4 DEF Changes
  <2>2. \A e \in DOMAIN leases :
          /\ stamp'[e] = stamp[e]
          /\ leases'[e].instance = leases[e].instance
          /\ leases'[e].route = leases[e].route
          /\ leases'[e].descriptor = leases[e].descriptor
    BY <1>4 DEF Changes
  <2> QED
    BY <2>1, <2>2 DEF Members
<1>5. ASSUME Members' = Members
      PROVE  revision' = revision
  <2>1. DOMAIN leases' = DOMAIN leases
    BY <1>5 DEF Members
  <2>2. \A e \in DOMAIN leases : Members'[e].stamp = stamp'[e] /\ Members[e].stamp = stamp[e]
    BY <2>1 DEF Members
  <2>3. \A e \in DOMAIN leases : stamp'[e] = stamp[e]
    BY <1>5, <2>2
  <2>4. Ended = {}
    BY <2>1, <2>3 DEF Ended
  <2>5. begun = {}
    BY <1>2, <1>3, <2>1, <2>3, <2>4 DEF Changes
  <2> QED
    BY <1>3, <2>4, <2>5 DEF Changes
<1> QED
  BY <1>3, <1>4, <1>5 DEF Changes

LEMMA ExpireChanges ==
  ASSUME IInv, NEW op, NEW now \in 0..clock, NEW reported,
         ExpireAt(op, now, reported), HasRevisions(Cardinality(Lapsed(leases, now)))
  PROVE  /\ Changes(Lapsed(leases, now), {})
         /\ Report(op, now, "done", reported)
<1> DEFINE gone == Lapsed(leases, now)
           n == Cardinality(gone)
<1>1. /\ IsLeaseTable(leases) /\ revision \in Nat /\ now \in Nat
      /\ stamp \in [DOMAIN leases -> Nat \ {0}]
  BY DEF IInv, TypeOK
<1>2. gone \subseteq DOMAIN leases /\ n \in Nat /\ (n = 0 <=> gone = {})
  BY <1>1, LapsedFinite
<1>3. /\ revision' = revision + n
      /\ leases' = Live(leases, now)
      /\ stamp' = Restrict(stamp, DOMAIN leases \ gone)
      /\ Report(op, now, "done", reported)
  BY DEF ExpireAt
<1>4. /\ DOMAIN leases' = DOMAIN leases \ gone
      /\ \A e \in DOMAIN leases \ gone :
           leases'[e] = leases[e] /\ stamp'[e] = stamp[e]
  BY <1>3 DEF Live, Restrict
<1> HIDE DEF gone, n
<1>5. Changes(gone, {})
  BY <1>1, <1>2, <1>3, <1>4 DEF Changes
<1> QED
  BY <1>3, <1>5 DEF gone

LEMMA UnregisterChanges ==
  ASSUME IInv, NEW wd \in Withdrawal, NEW route \in Routes, NEW now \in Stamps,
         Unregister(wd, route, now), ~Exhausted("unregister", now)
  PROVE  /\ Changes(RemovedByUnregister(leases, wd, route, now), {})
         /\ Report("unregister", now,
                   UnregisterVerdict(Live(leases, now), wd, route),
                   RemovedByUnregister(leases, wd, route, now))
<1> DEFINE gone == Lapsed(leases, now)
           n == Cardinality(gone)
           live == Live(leases, now)
           verdict == UnregisterVerdict(live, wd, route)
           removes == IF verdict = "removed" THEN 1 ELSE 0
           removed == RemovedByUnregister(leases, wd, route, now)
           e0 == wd.endpoint
<1>1. /\ IsLeaseTable(leases) /\ revision \in Nat /\ now \in Nat
      /\ stamp \in [DOMAIN leases -> Nat \ {0}]
  BY DEF IInv, TypeOK, Stamps
<1>2. gone \subseteq DOMAIN leases /\ n \in Nat /\ (n = 0 <=> gone = {})
  BY <1>1, LapsedFinite
<1>3. /\ leases' = Withdraw(live, wd, route)
      /\ revision' = revision + n + removes
      /\ stamp' = Restrict(stamp, DOMAIN leases')
      /\ Report("unregister", now, verdict, removed)
  BY DEF Unregister
<1>4. /\ DOMAIN live = DOMAIN leases \ gone
      /\ \A e \in DOMAIN live : live[e] = leases[e]
  BY <1>1, LiveTable
<1>5. verdict = "removed" => e0 \in DOMAIN live
  BY DEF UnregisterVerdict
<1>6. removed = gone \cup {e \in {e0} : verdict = "removed"}
  BY DEF RemovedByUnregister
<1> HIDE DEF live, verdict, removed, gone, n
<1>7. /\ DOMAIN leases' = DOMAIN leases \ removed
      /\ \A e \in DOMAIN leases' : leases'[e] = leases[e]
  BY <1>3, <1>4, <1>5, <1>6 DEF Withdraw, Without, Restrict, verdict
<1>8. \A e \in DOMAIN leases' : stamp'[e] = stamp[e]
  BY <1>3 DEF Restrict
<1>9. /\ revision' \in Nat /\ revision' >= revision
      /\ revision' = revision <=> removed = {}
  BY <1>1, <1>2, <1>3, <1>6
<1>10. removed \subseteq DOMAIN leases
  BY <1>2, <1>4, <1>5, <1>6
<1>11. Changes(removed, {})
  BY <1>7, <1>8, <1>9, <1>10 DEF Changes
<1> QED
  BY <1>3, <1>11 DEF live, verdict, removed

LEMMA RegisterChanges ==
  ASSUME IInv, NEW reg \in Registration, NEW route \in Routes,
         NEW now \in Stamps,
         Register(reg, route, now), ~Exhausted("register", now)
  PROVE  /\ \E begun : Changes(RemovedByRegister(leases, reg, route, now), begun)
         /\ Report("register", now,
                   RegisterVerdict(Live(leases, now), reg, route),
                   RemovedByRegister(leases, reg, route, now))
<1> DEFINE gone == Lapsed(leases, now)
           n == Cardinality(gone)
           live == Live(leases, now)
           verdict == RegisterVerdict(live, reg, route)
           fresh == verdict \in {"announced", "replaced"}
           bumped == revision + n + Bump(verdict)
           removed == RemovedByRegister(leases, reg, route, now)
           e0 == reg.endpoint
           begun == IF fresh THEN {e0} ELSE {}
<1>1. /\ IsLeaseTable(leases) /\ revision \in Nat /\ now \in Nat
      /\ stamp \in [DOMAIN leases -> Nat \ {0}]
  BY DEF IInv, TypeOK, Stamps
<1>2. gone \subseteq DOMAIN leases /\ n \in Nat /\ (n = 0 <=> gone = {})
  BY <1>1, LapsedFinite
<1>3. /\ leases' = Announce(live, reg, route, now)
      /\ revision' = bumped
      /\ stamp' = [e \in DOMAIN leases' |->
                     IF fresh /\ e = e0 THEN bumped ELSE stamp[e]]
      /\ Report("register", now, verdict, removed)
  BY DEF Register
<1>4. /\ DOMAIN live = DOMAIN leases \ gone
      /\ \A e \in DOMAIN live : live[e] = leases[e]
  BY <1>1, LiveTable
<1>5. /\ verdict = "announced" => e0 \notin DOMAIN live
      /\ verdict \in {"replaced", "renewed"} => e0 \in DOMAIN live
      /\ verdict = "renewed" => /\ live[e0].route = route
                                /\ live[e0].instance = reg.instance
                                /\ live[e0].descriptor = reg.descriptor
  BY DEF RegisterVerdict, AuthorizedVerdict
<1>6. removed = gone \cup {e \in {e0} : verdict = "replaced"}
  BY DEF RemovedByRegister
<1>7. revision' = revision + n + (IF fresh THEN 1 ELSE 0)
  BY <1>3 DEF Bump
<1> HIDE DEF live, verdict, removed, gone, n
<1>8. CASE verdict \notin {"announced", "replaced", "renewed"}
  <2>1. leases' = live /\ removed = gone /\ begun = {} /\ ~fresh
    BY <1>3, <1>6, <1>8 DEF Announce, verdict
  <2>2. \A e \in DOMAIN leases' : stamp'[e] = stamp[e]
    BY <1>3, <2>1
  <2>3. revision' = revision + n
    BY <1>1, <1>2, <1>7, <2>1
  <2>4. Changes(removed, {})
    BY <1>1, <1>2, <1>4, <2>1, <2>2, <2>3 DEF Changes
  <2> QED
    BY <1>3, <2>4 DEF live, verdict, removed
<1>9. CASE verdict \in {"announced", "replaced", "renewed"}
  <2>1. /\ DOMAIN leases' = DOMAIN live \cup {e0}
        /\ leases'[e0].instance = reg.instance
        /\ leases'[e0].route = route
        /\ leases'[e0].descriptor = reg.descriptor
        /\ \A e \in DOMAIN live \ {e0} : leases'[e] = leases[e]
    BY <1>3, <1>4, <1>9 DEF Announce, Granted, verdict
  <2>2. /\ \A e \in begun : stamp'[e] = revision'
        /\ \A e \in DOMAIN leases' \ begun : stamp'[e] = stamp[e]
    BY <1>3, <2>1
  <2>3. /\ DOMAIN leases' = (DOMAIN leases \ removed) \cup begun
        /\ begun \cap (DOMAIN leases \ removed) = {}
        /\ removed \subseteq DOMAIN leases
    BY <1>2, <1>4, <1>5, <1>6, <1>9, <2>1
  <2>4. /\ revision' \in Nat /\ revision' >= revision
        /\ revision' = revision <=> removed = {} /\ begun = {}
    BY <1>1, <1>2, <1>6, <1>7, <1>9
  <2>5. \A e \in DOMAIN leases \ removed :
          /\ leases'[e].instance = leases[e].instance
          /\ leases'[e].route = leases[e].route
          /\ leases'[e].descriptor = leases[e].descriptor
    BY <1>4, <1>5, <1>6, <1>9, <2>1
  <2>6. Changes(removed, begun)
    BY <2>2, <2>3, <2>4, <2>5 DEF Changes
  <2> QED
    BY <1>3, <2>6 DEF live, verdict, removed
<1> QED
  BY <1>8, <1>9

\* The effect of a step on the set of registrations, whichever step it is.
LEMMA StepChanges ==
  ASSUME IInv, [Next]_vars
  PROVE  \/ /\ UNCHANGED <<leases, stamp, revision>>
            /\ last'.removed = {} \/ Tick \/ UNCHANGED vars
         \/ \E ended, begun :
              /\ Changes(ended, begun)
              /\ \/ last'.op = "resolve"
                 \/ last'.removed = Identities(leases, ended)
<1>0. ASSUME NEW op, NEW now, Exhausted(op, now)
      PROVE  UNCHANGED <<leases, stamp, revision>> /\ last'.removed = {}
  BY <1>0 DEF Exhausted, Report, Identities
<1>1. ASSUME NEW now \in 0..clock, Expire(now)
      PROVE  \/ Exhausted("expire", now)
             \/ /\ Changes(Lapsed(leases, now), {})
                /\ last'.removed = Identities(leases, Lapsed(leases, now))
  BY <1>1, ExpireChanges DEF Expire, ExpireAt, Report
<1>2. ASSUME NEW now \in 0..clock, Resolve(now)
      PROVE  \/ Exhausted("resolve", now)
             \/ /\ Changes(Lapsed(leases, now), {})
                /\ last'.op = "resolve"
  BY <1>2, ExpireChanges DEF Resolve, ExpireAt, Report
<1>3. ASSUME NEW now \in Stamps, NEW route \in Routes,
             NEW reg \in Registration, Register(reg, route, now),
             ~Exhausted("register", now)
      PROVE  \E ended, begun :
               /\ Changes(ended, begun)
               /\ last'.removed = Identities(leases, ended)
  BY <1>3, RegisterChanges DEF Report
<1>4. ASSUME NEW now \in Stamps, NEW route \in Routes,
             NEW wd \in Withdrawal, Unregister(wd, route, now),
             ~Exhausted("unregister", now)
      PROVE  \E ended, begun :
               /\ Changes(ended, begun)
               /\ last'.removed = Identities(leases, ended)
  BY <1>4, UnregisterChanges DEF Report
<1>5. CASE Tick \/ UNCHANGED vars
  BY <1>5 DEF Tick, vars
<1>6. CASE \E now \in 0..clock : Expire(now) \/ Resolve(now)
  BY <1>0, <1>1, <1>2, <1>6
<1>7. CASE \E now \in Stamps, route \in Routes :
             \/ \E reg \in Registration : Register(reg, route, now)
             \/ \E wd \in Withdrawal : Unregister(wd, route, now)
  BY <1>0, <1>3, <1>4, <1>7
<1> QED
  BY <1>5, <1>6, <1>7 DEF Next

\* The registry revision moves exactly when the set of registrations does, and
\* only forwards.
THEOREM RevisionTracks == Spec => RevisionTracksMembers
<1>1. ASSUME IInv, [Next]_vars
      PROVE  revision' >= revision /\ (revision' = revision <=> Members' = Members)
  <2>1. CASE UNCHANGED <<leases, stamp, revision>>
    BY <1>1, <2>1 DEF IInv, TypeOK, Members
  <2>2. CASE \E ended, begun :
              /\ Changes(ended, begun)
              /\ \/ last'.op = "resolve"
                 \/ last'.removed = Identities(leases, ended)
    <3>1. PICK ended, begun : Changes(ended, begun)
      BY <2>2
    <3> QED
      BY <1>1, <3>1, ChangesAreSeen
  <2> QED
    BY <1>1, <2>1, <2>2, StepChanges
<1>2. IInv /\ [Next]_vars =>
        [/\ revision' >= revision
         /\ (revision' = revision) <=> (Members' = Members)]_vars
  BY <1>1
<1> QED
  BY Invariant, <1>2, PTL DEF Spec, RevisionTracksMembers

\* What a mutation reports as removed is exactly what it removed: no work stays
\* pinned to a registration that is gone, and none is failed whose provider is
\* still registered.
THEOREM RemovalsAreReported == Spec => RemovalsReported
<1>1. ASSUME IInv, [Next]_vars, ~UNCHANGED vars, clock' = clock,
             last'.op \in {"register", "unregister", "expire"}
      PROVE  last'.removed = Identities(leases, Ended)
  <2>1. CASE UNCHANGED <<leases, stamp, revision>> /\ last'.removed = {}
    BY <2>1 DEF Ended, Identities
  <2>2. CASE \E ended, begun :
              /\ Changes(ended, begun)
              /\ \/ last'.op = "resolve"
                 \/ last'.removed = Identities(leases, ended)
    <3>1. PICK ended, begun :
              /\ Changes(ended, begun)
              /\ \/ last'.op = "resolve"
                 \/ last'.removed = Identities(leases, ended)
      BY <2>2
    <3>2. Ended = ended
      BY <1>1, <3>1, ChangesAreSeen
    <3> QED
      BY <1>1, <3>1, <3>2
  <2>3. ~Tick
    BY <1>1 DEF IInv, TypeOK, Tick
  <2> QED
    BY <1>1, <2>1, <2>2, <2>3, StepChanges
<1>2. IInv /\ [Next]_vars =>
        [last'.op \in {"register", "unregister", "expire"} /\ clock' = clock =>
           last'.removed =
             Identities(leases, {e \in DOMAIN leases :
                                   e \notin DOMAIN leases' \/ stamp'[e] # stamp[e]})]_vars
  BY <1>1 DEF Ended
<1> QED
  BY Invariant, <1>2, PTL DEF Spec, RemovalsReported
=============================================================================
