-------------------------- MODULE QueryGatewayProofs --------------------------
(***************************************************************************)
(* Proofs about the Query half of the Tool Gateway, for any endpoints,     *)
(* instances, requests, capacity, timeouts and bounds, whatever the        *)
(* threads do.  In three parts, each with its own inductive invariant:     *)
(*   - IInv: identities match the invocations in flight, an answered HTTP  *)
(*     caller has none, unclaimed ones and readiness reports belong to the *)
(*     instances registered now, and a closed gateway has none at all;     *)
(*   - FateInv: every invocation is handed over at most once and concluded *)
(*     once, so that the specification implements QueryContract;           *)
(*   - MailInv: the slots and the queue of the bounded mailbox account for *)
(*     every reply owed to a Dora caller, up to the last drain.            *)
(***************************************************************************)
EXTENDS QueryGateway, FiniteSetTheorems, SequenceTheorems,
        WellFoundedInduction, TLAPS

Fields == {"accepting", "leases", "statuses", "pending", "logical", "outbound",
           "reserved", "future", "admitted", "fate"}
EntryFields == {"request", "endpoint", "instance", "deadline", "claimed"}

\* s has the fields of the service; p, those of an invocation in flight.
IsState(s) == s = [f \in Fields |-> s[f]]
IsEntry(p) == p = [f \in EntryFields |-> p[f]]

WellFormed(s) ==
  /\ IsState(s)
  /\ s.accepting \in BOOLEAN
  /\ s.admitted \in Nat
  /\ DOMAIN s.pending \subseteq 1..s.admitted
  /\ s.pending = [i \in DOMAIN s.pending |-> s.pending[i]]
  /\ \A i \in DOMAIN s.pending : /\ IsEntry(s.pending[i])
                                 /\ s.pending[i].request \in Requests
                                 /\ s.pending[i].claimed \in BOOLEAN
  /\ s.future = [r \in Http |-> s.future[r]]

Identified(s) ==
  /\ s.logical = {s.pending[i].request : i \in DOMAIN s.pending}
  /\ \A i, j \in DOMAIN s.pending :
       s.pending[i].request = s.pending[j].request => i = j

AnsweredOnce(s) ==
  \A r \in Http : s.future[r] # "none" =>
    \A i \in DOMAIN s.pending : s.pending[i].request # r

EmptyOnceClosed(s) == ~s.accepting => DOMAIN s.pending = {}

\* What holds of the invocations in flight whichever leases there are.
Kept(s) ==
  WellFormed(s) /\ Identified(s) /\ AnsweredOnce(s) /\ EmptyOnceClosed(s)

\* The instance l has registered for e is named in gone, or l1 has it too.
Accounted(l, l1, gone) ==
  \A e \in DOMAIN l :
    \/ [endpoint |-> e, instance |-> l[e].instance] \in gone
    \/ e \in DOMAIN l1 /\ l1[e].instance = l[e].instance

\* Unclaimed invocations and readiness reports are those of instances in l.
PinnedTo(s, l) ==
  /\ \A i \in DOMAIN s.pending :
       ~s.pending[i].claimed =>
         /\ s.pending[i].endpoint \in DOMAIN l
         /\ l[s.pending[i].endpoint].instance = s.pending[i].instance
  /\ \A x \in s.statuses :
       \E e \in DOMAIN l : x = [endpoint |-> e, instance |-> l[e].instance]

Sound(s) == Kept(s) /\ PinnedTo(s, s.leases)

\* t differs from s in its mailbox at most.
Alike(s, t) ==
  /\ IsState(t)
  /\ t.accepting = s.accepting /\ t.leases = s.leases
  /\ t.statuses = s.statuses /\ t.pending = s.pending
  /\ t.logical = s.logical /\ t.future = s.future
  /\ t.admitted = s.admitted

-----------------------------------------------------------------------------
(* Completion.                                                             *)

LEMMA AlikeSound ==
  ASSUME NEW s, NEW t, Alike(s, t)
  PROVE  (Kept(s) => Kept(t)) /\ (Sound(s) => Sound(t))
<1>1. Kept(s) => Kept(t)
  BY DEF Alike, Kept, WellFormed, Identified, AnsweredOnce, EmptyOnceClosed
<1> QED
  BY <1>1 DEF Alike, Sound, PinnedTo

\* Queueing messages, in reserved slots, leaves everything else alone.
LEMMA PostAlike ==
  ASSUME NEW s, IsState(s), NEW messages
  PROVE  Alike(s, Post(s, messages))
BY DEF Post, IsState, Fields, Alike

LEMMA ReserveAlike ==
  ASSUME NEW s, IsState(s)
  PROVE  Alike(s, Reserve(s))
BY DEF Reserve, IsState, Fields, Alike

\* t is s without the invocations in F, and with answers for their callers.
Finished(s, F, t) ==
  /\ IsState(t)
  /\ t.accepting = s.accepting /\ t.leases = s.leases
  /\ t.statuses = s.statuses /\ t.admitted = s.admitted
  /\ t.pending = Restrict(s.pending, DOMAIN s.pending \ F)
  /\ t.logical = s.logical \ {s.pending[i].request : i \in F}
  /\ t.future = [r \in Http |-> t.future[r]]
  /\ \A r \in Http : t.future[r] = s.future[r]
                     \/ \E i \in F : s.pending[i].request = r

LEMMA FinishFields ==
  ASSUME NEW s, IsState(s), NEW F, NEW outcome, NEW observed
  PROVE  Finished(s, F, Finish(s, F, outcome, observed))
<1> DEFINE answer(i) == IF observed >= s.pending[i].deadline THEN "timeout"
                        ELSE outcome
           callers == SetToSeq({i \in F : s.pending[i].request \in Dora})
           replies == [n \in DOMAIN callers |->
                         Reply(s.pending[callers[n]].request,
                               answer(callers[n]))]
           waiting(r) == {i \in F : s.pending[i].request = r}
           p == Post(s, replies)
           pending == Restrict(s.pending, DOMAIN s.pending \ F)
           logical == s.logical \ {s.pending[i].request : i \in F}
           future == [r \in Http |->
                        IF s.future[r] = "none" /\ waiting(r) # {}
                        THEN answer(CHOOSE i \in waiting(r) : TRUE)
                        ELSE s.future[r]]
           fate == [i \in Invocations |-> IF i \in F THEN answer(i) ELSE s.fate[i]]
           t == Finish(s, F, outcome, observed)
<1>1. t = [p EXCEPT !.pending = pending, !.logical = logical,
                    !.future = future, !.fate = fate]
  BY DEF Finish
<1>2. /\ IsState(p)
      /\ p.accepting = s.accepting /\ p.leases = s.leases
      /\ p.statuses = s.statuses /\ p.admitted = s.admitted
  BY PostAlike DEF Alike
<1>3. /\ future = [r \in Http |-> future[r]]
      /\ \A r \in Http : future[r] = s.future[r]
                         \/ \E i \in F : s.pending[i].request = r
  OBVIOUS
<1> HIDE DEF p, pending, logical, future, fate, t
<1>4. /\ IsState(t)
      /\ t.accepting = p.accepting /\ t.leases = p.leases
      /\ t.statuses = p.statuses /\ t.admitted = p.admitted
      /\ t.pending = pending /\ t.logical = logical /\ t.future = future
  BY <1>1, <1>2 DEF IsState, Fields
<1> QED
  BY <1>2, <1>3, <1>4 DEF Finished, pending, logical, t

\* Finishing invocations keeps what holds of those in flight.
LEMMA FinishKeeps ==
  ASSUME NEW s, WellFormed(s), Identified(s), AnsweredOnce(s),
         NEW F \in SUBSET DOMAIN s.pending, NEW outcome, NEW observed,
         NEW t, t = Finish(s, F, outcome, observed)
  PROVE  /\ WellFormed(t) /\ Identified(t) /\ AnsweredOnce(t)
         /\ EmptyOnceClosed(s) => EmptyOnceClosed(t)
         /\ t.accepting = s.accepting /\ t.leases = s.leases
         /\ t.statuses = s.statuses /\ t.admitted = s.admitted
         /\ DOMAIN t.pending = DOMAIN s.pending \ F
         /\ \A i \in DOMAIN t.pending : t.pending[i] = s.pending[i]
<1>0. IsState(s)
  BY DEF WellFormed
<1>1. Finished(s, F, t)
  BY <1>0, FinishFields
<1>2. /\ DOMAIN t.pending = DOMAIN s.pending \ F
      /\ \A i \in DOMAIN t.pending : t.pending[i] = s.pending[i]
      /\ t.pending = [i \in DOMAIN t.pending |-> t.pending[i]]
  BY <1>1 DEF Finished, Restrict
<1>3. WellFormed(t)
  BY <1>1, <1>2 DEF Finished, WellFormed
<1>4. Identified(t)
  <2>1. /\ s.logical = {s.pending[i].request : i \in DOMAIN s.pending}
        /\ \A i, j \in DOMAIN s.pending :
             s.pending[i].request = s.pending[j].request => i = j
    BY DEF Identified
  <2>0. t.logical = s.logical \ {s.pending[i].request : i \in F}
    BY <1>1 DEF Finished
  <2>2. \A i \in DOMAIN t.pending : t.pending[i].request \in t.logical
    BY <1>2, <2>0, <2>1
  <2>3. \A x \in t.logical : \E i \in DOMAIN t.pending : x = t.pending[i].request
    <3>1. ASSUME NEW x \in t.logical
          PROVE  \E i \in DOMAIN t.pending : x = t.pending[i].request
      <4>1. PICK i \in DOMAIN s.pending : x = s.pending[i].request
        BY <2>0, <2>1
      <4>2. i \notin F
        BY <2>0, <4>1
      <4> QED
        BY <1>2, <4>1, <4>2
    <3> QED
      BY <3>1
  <2>4. t.logical = {t.pending[i].request : i \in DOMAIN t.pending}
    BY <2>2, <2>3
  <2> QED
    BY <1>2, <2>1, <2>4 DEF Identified
<1>5. AnsweredOnce(t)
  <2>1. ASSUME NEW r \in Http, t.future[r] # "none",
               NEW i \in DOMAIN t.pending, t.pending[i].request = r
        PROVE  FALSE
    <3>1. i \in DOMAIN s.pending /\ i \notin F /\ s.pending[i].request = r
      BY <1>2, <2>1
    <3>2. s.future[r] = "none"
      BY <3>1 DEF AnsweredOnce
    <3>3. PICK j \in F : s.pending[j].request = r
      BY <1>1, <2>1, <3>2 DEF Finished
    <3> QED
      BY <3>1, <3>3 DEF Identified
  <2> QED
    BY <2>1 DEF AnsweredOnce
<1>6. EmptyOnceClosed(s) => EmptyOnceClosed(t)
  BY <1>1, <1>2 DEF Finished, EmptyOnceClosed
<1> QED
  BY <1>1, <1>2, <1>3, <1>4, <1>5, <1>6 DEF Finished

\* t has no invocation that s has not, and has answered nobody else.
Shrunk(s, t) ==
  /\ t.accepting = s.accepting /\ t.admitted = s.admitted
  /\ DOMAIN t.pending \subseteq DOMAIN s.pending
  /\ \A i \in DOMAIN t.pending : t.pending[i] = s.pending[i]
  /\ \A r \in Http : \/ t.future[r] = s.future[r]
                     \/ \E i \in DOMAIN s.pending : s.pending[i].request = r

LEMMA FinishShrinks ==
  ASSUME NEW s, Kept(s), NEW F \in SUBSET DOMAIN s.pending,
         NEW outcome, NEW observed
  PROVE  Shrunk(s, Finish(s, F, outcome, observed))
<1> DEFINE t == Finish(s, F, outcome, observed)
<1>1. Finished(s, F, t)
  BY FinishFields DEF Kept, WellFormed
<1> HIDE DEF t
<1> QED
  BY <1>1 DEF Finished, Restrict, Shrunk, t

LEMMA FinishSound ==
  ASSUME NEW s, Sound(s), NEW F \in SUBSET DOMAIN s.pending,
         NEW outcome, NEW observed
  PROVE  Sound(Finish(s, F, outcome, observed))
<1> DEFINE t == Finish(s, F, outcome, observed)
<1>1. /\ Kept(t) /\ t.leases = s.leases /\ t.statuses = s.statuses
      /\ DOMAIN t.pending = DOMAIN s.pending \ F
      /\ \A i \in DOMAIN t.pending : t.pending[i] = s.pending[i]
  BY FinishKeeps DEF Sound, Kept
<1> HIDE DEF t
<1> QED
  BY <1>1 DEF Sound, PinnedTo, t

-----------------------------------------------------------------------------
(* Registrations that are gone.                                            *)

\* Leases that lapse are reported; the others are left as they are.
LEMMA LapseAccounted ==
  ASSUME NEW l, NEW now
  PROVE  Accounted(l, Table!Live(l, now),
                   Table!Identities(l, Table!Lapsed(l, now)))
<1> DEFINE gone == Table!Lapsed(l, now)
<1>1. \A e \in gone : [endpoint |-> e, instance |-> l[e].instance]
                        \in Table!Identities(l, gone)
  BY DEF Table!Identities
<1>2. \A e \in DOMAIN l \ gone : /\ e \in DOMAIN Table!Live(l, now)
                                 /\ Table!Live(l, now)[e] = l[e]
  BY DEF Table!Live, Table!Restrict
<1> HIDE DEF gone
<1> QED
  BY <1>1, <1>2 DEF Accounted, gone

\* Once the work and the reports of the registrations in gone are finished,
\* what is left is of registrations that are still there.
LEMMA RemovedSound ==
  ASSUME NEW s, Kept(s), NEW l, PinnedTo(s, l),
         NEW gone, Accounted(l, s.leases, gone), NEW observed
  PROVE  /\ Sound(FinishRemoved(s, gone, observed))
         /\ Shrunk(s, FinishRemoved(s, gone, observed))
<1> DEFINE u == [s EXCEPT !.statuses = @ \ gone]
           F == Pinned(u, gone)
           t == Finish(u, F, "unavailable", observed)
<1>1. /\ IsState(u)
      /\ u.accepting = s.accepting /\ u.leases = s.leases
      /\ u.statuses = s.statuses \ gone /\ u.pending = s.pending
      /\ u.logical = s.logical /\ u.future = s.future
      /\ u.admitted = s.admitted
  BY DEF Kept, WellFormed, IsState, Fields
<1> HIDE DEF u
<1>2. Kept(u)
  BY <1>1
     DEF Kept, WellFormed, Identified, AnsweredOnce, EmptyOnceClosed
<1>3. F \in SUBSET DOMAIN u.pending
  BY DEF Pinned, PinnedOrClaimed
<1>4. \A i \in DOMAIN u.pending \ F :
        ~u.pending[i].claimed =>
          [endpoint |-> u.pending[i].endpoint,
           instance |-> u.pending[i].instance] \notin gone
  BY DEF Pinned, PinnedOrClaimed
<1> HIDE DEF F
<1>5. /\ Kept(t) /\ t.leases = u.leases /\ t.statuses = u.statuses
      /\ DOMAIN t.pending = DOMAIN u.pending \ F
      /\ \A i \in DOMAIN t.pending : t.pending[i] = u.pending[i]
  BY <1>2, <1>3, FinishKeeps DEF Kept
<1>6. Shrunk(u, t)
  BY <1>2, <1>3, FinishShrinks
<1>7. t = FinishRemoved(s, gone, observed)
  BY DEF FinishRemoved, FinishPinned, u, F
<1> HIDE DEF t
<1>8. PinnedTo(t, t.leases)
  <2>1. ASSUME NEW i \in DOMAIN t.pending, ~t.pending[i].claimed
        PROVE  /\ t.pending[i].endpoint \in DOMAIN s.leases
               /\ s.leases[t.pending[i].endpoint].instance = t.pending[i].instance
    <3>1. /\ s.pending[i].endpoint \in DOMAIN l
          /\ l[s.pending[i].endpoint].instance = s.pending[i].instance
          /\ t.pending[i] = s.pending[i]
      BY <1>1, <1>5, <2>1 DEF PinnedTo
    <3>2. [endpoint |-> s.pending[i].endpoint,
           instance |-> s.pending[i].instance] \notin gone
      BY <1>1, <1>4, <1>5, <2>1
    <3> QED
      BY <3>1, <3>2 DEF Accounted
  <2>2. ASSUME NEW x \in t.statuses
        PROVE  \E e \in DOMAIN s.leases :
                 x = [endpoint |-> e, instance |-> s.leases[e].instance]
    <3>1. PICK e \in DOMAIN l : x = [endpoint |-> e, instance |-> l[e].instance]
      BY <1>1, <1>5, <2>2 DEF PinnedTo
    <3> QED
      BY <1>1, <1>5, <2>2, <3>1 DEF Accounted
  <2> QED
    BY <1>1, <1>5, <2>1, <2>2 DEF PinnedTo
<1> QED
  BY <1>1, <1>5, <1>6, <1>7, <1>8 DEF Sound, Shrunk

LEMMA ExpireSound ==
  ASSUME NEW s, Sound(s), NEW observed
  PROVE  /\ Sound(ExpireLeases(s, observed))
         /\ Shrunk(s, ExpireLeases(s, observed))
<1> DEFINE gone == Table!Identities(s.leases, Table!Lapsed(s.leases, observed))
           u == ExpireQuietly(s, observed)
<1>1. /\ IsState(u)
      /\ u.accepting = s.accepting /\ u.leases = Table!Live(s.leases, observed)
      /\ u.statuses = s.statuses /\ u.pending = s.pending
      /\ u.logical = s.logical /\ u.future = s.future
      /\ u.admitted = s.admitted
  BY DEF ExpireQuietly, Sound, Kept, WellFormed, IsState, Fields
<1>2. ExpireLeases(s, observed) = FinishRemoved(u, gone, observed)
  BY DEF ExpireLeases
<1> HIDE DEF u
<1>3. Kept(u)
  BY <1>1
     DEF Sound, Kept, WellFormed, Identified, AnsweredOnce, EmptyOnceClosed
<1>4. PinnedTo(u, s.leases)
  BY <1>1 DEF Sound, PinnedTo
<1>5. Accounted(s.leases, u.leases, gone)
  BY <1>1, LapseAccounted
<1> HIDE DEF gone
<1> QED
  BY <1>1, <1>2, <1>3, <1>4, <1>5, RemovedSound DEF Shrunk

\* So is a registry mutation: what it removes from the table it reports.
LEMMA RegisterAccounted ==
  ASSUME NEW l, NEW reg, NEW route, NEW now
  PROVE  Accounted(l, Table!Announce(Table!Live(l, now), reg, route, now),
                   Table!Identities(l,
                     Table!RemovedByRegister(l, reg, route, now)))
<1> DEFINE gone == Table!Lapsed(l, now)
           live == Table!Live(l, now)
           verdict == Table!RegisterVerdict(live, reg, route)
           l1 == Table!Announce(live, reg, route, now)
           removed == Table!RemovedByRegister(l, reg, route, now)
<1>1. \A e \in removed : [endpoint |-> e, instance |-> l[e].instance]
                           \in Table!Identities(l, removed)
  BY DEF Table!Identities
<1>2. \A e \in DOMAIN l \ gone : e \in DOMAIN live /\ live[e] = l[e]
  BY DEF Table!Live, Table!Restrict
<1>3. /\ removed = gone \cup {e \in {reg.endpoint} : verdict = "replaced"}
      /\ verdict = "announced" => reg.endpoint \notin DOMAIN live
      /\ verdict = "renewed" => live[reg.endpoint].instance = reg.instance
  BY DEF Table!RemovedByRegister, Table!RegisterVerdict,
         Table!AuthorizedVerdict
<1> HIDE DEF gone, live
<1>4. \A e \in DOMAIN live :
        \/ e = reg.endpoint /\ verdict = "replaced"
        \/ e \in DOMAIN l1 /\ l1[e].instance = live[e].instance
  BY <1>3 DEF Table!Announce, Table!Granted
<1> HIDE DEF verdict, l1, removed
<1>5. \A e \in DOMAIN l \ removed :
        e \in DOMAIN l1 /\ l1[e].instance = l[e].instance
  BY <1>2, <1>3, <1>4
<1>6. Accounted(l, l1, Table!Identities(l, removed))
  BY <1>1, <1>5 DEF Accounted
<1> QED
  BY <1>6 DEF l1, removed, live

LEMMA UnregisterAccounted ==
  ASSUME NEW l, NEW wd, NEW route, NEW now
  PROVE  Accounted(l, Table!Withdraw(Table!Live(l, now), wd, route),
                   Table!Identities(l,
                     Table!RemovedByUnregister(l, wd, route, now)))
<1> DEFINE gone == Table!Lapsed(l, now)
           live == Table!Live(l, now)
           verdict == Table!UnregisterVerdict(live, wd, route)
           l1 == Table!Withdraw(live, wd, route)
           removed == Table!RemovedByUnregister(l, wd, route, now)
<1>1. \A e \in removed : [endpoint |-> e, instance |-> l[e].instance]
                           \in Table!Identities(l, removed)
  BY DEF Table!Identities
<1>2. \A e \in DOMAIN l \ gone : e \in DOMAIN live /\ live[e] = l[e]
  BY DEF Table!Live, Table!Restrict
<1>3. removed = gone \cup {e \in {wd.endpoint} : verdict = "removed"}
  BY DEF Table!RemovedByUnregister
<1> HIDE DEF gone, live
<1>4. \A e \in DOMAIN live :
        \/ e = wd.endpoint /\ verdict = "removed"
        \/ e \in DOMAIN l1 /\ l1[e].instance = live[e].instance
  BY DEF Table!Withdraw, Table!Without, Table!Restrict
<1> HIDE DEF verdict, l1, removed
<1>5. \A e \in DOMAIN l \ removed :
        e \in DOMAIN l1 /\ l1[e].instance = l[e].instance
  BY <1>2, <1>3, <1>4
<1>6. Accounted(l, l1, Table!Identities(l, removed))
  BY <1>1, <1>5 DEF Accounted
<1> QED
  BY <1>6 DEF l1, removed, live

\* A registry mutation, with its acknowledgement.
LEMMA MutateSound ==
  ASSUME NEW s, Sound(s), NEW e, NEW table, NEW gone, NEW observed,
         Accounted(s.leases, table, gone)
  PROVE  Sound(Mutate(s, e, table, gone, observed))
<1> DEFINE m == <<RegistryResponse(e)>>
           v == [Reserve(s) EXCEPT !.leases = table]
           u == Post(v, m)
<1>1. CASE ~HasRoom(s)
  BY <1>1 DEF Mutate
<1>2. CASE HasRoom(s)
  <2>1. /\ IsState(v)
        /\ v.accepting = s.accepting /\ v.leases = table
        /\ v.statuses = s.statuses /\ v.pending = s.pending
        /\ v.logical = s.logical /\ v.future = s.future
        /\ v.admitted = s.admitted
    BY DEF Reserve, Sound, Kept, WellFormed, IsState, Fields
  <2> HIDE DEF v
  <2>2. Kept(v) /\ PinnedTo(v, s.leases)
    BY <2>1
       DEF Sound, Kept, WellFormed, Identified, AnsweredOnce,
           EmptyOnceClosed, PinnedTo
  <2>3. Alike(v, u)
    BY <2>1, PostAlike
  <2>4. Mutate(s, e, table, gone, observed) = FinishRemoved(u, gone, observed)
    BY <1>2 DEF Mutate, v
  <2> HIDE DEF u
  <2>5. Kept(u) /\ PinnedTo(u, s.leases) /\ u.leases = table
    BY <2>1, <2>2, <2>3, AlikeSound DEF Alike, PinnedTo
  <2> QED
    BY <2>4, <2>5, RemovedSound
<1> QED
  BY <1>1, <1>2

-----------------------------------------------------------------------------
(* Admission.                                                              *)

\* An HTTP request has not been submitted before; a caller's may have been.
Fresh(s, r) ==
  /\ r \in Requests
  /\ r \in Http => /\ s.future[r] = "none"
                   /\ \A i \in DOMAIN s.pending : s.pending[i].request # r

LEMMA FreshStays ==
  ASSUME NEW s, NEW t, Shrunk(s, t), NEW r, Fresh(s, r)
  PROVE  Fresh(t, r)
BY DEF Shrunk, Fresh

LEMMA RefuseSound ==
  ASSUME NEW s, Sound(s), NEW r, Fresh(s, r), NEW answer
  PROVE  Sound(Refuse(s, r, answer))
<1>1. CASE r \in Dora
  <2> DEFINE u == Post(s, <<Reply(r, answer)>>)
  <2>1. IsState(s)
    BY DEF Sound, Kept, WellFormed
  <2>2. Alike(s, u)
    BY <2>1, PostAlike
  <2>3. Refuse(s, r, answer) = u
    BY <1>1 DEF Refuse
  <2> HIDE DEF u
  <2> QED
    BY <2>2, <2>3, AlikeSound
<1>2. CASE r \notin Dora
  <2> DEFINE t == SetFuture(s, r, answer)
  <2>0. r \in Http
    BY <1>2 DEF Fresh, Requests
  <2>1. /\ IsState(t)
        /\ t.accepting = s.accepting /\ t.leases = s.leases
        /\ t.statuses = s.statuses /\ t.pending = s.pending
        /\ t.logical = s.logical /\ t.admitted = s.admitted
        /\ t.future = [s.future EXCEPT ![r] = IF @ = "none" THEN answer ELSE @]
    BY DEF SetFuture, Sound, Kept, WellFormed, IsState, Fields
  <2>2. t = Refuse(s, r, answer)
    BY <1>2 DEF Refuse
  <2> HIDE DEF t
  <2>3. /\ t.future = [q \in Http |-> t.future[q]]
        /\ \A q \in Http \ {r} : t.future[q] = s.future[q]
    BY <2>0, <2>1 DEF Sound, Kept, WellFormed
  <2>4. WellFormed(t) /\ Identified(t) /\ EmptyOnceClosed(t)
    BY <2>1, <2>3 DEF Sound, Kept, WellFormed, Identified, EmptyOnceClosed
  <2>5. AnsweredOnce(t)
    BY <2>0, <2>1, <2>3 DEF Fresh, Sound, Kept, AnsweredOnce
  <2> QED
    BY <2>1, <2>2, <2>4, <2>5 DEF Sound, Kept, PinnedTo
<1> QED
  BY <1>1, <1>2

\* r becomes an invocation in flight, pinned to the instance registered now.
LEMMA EnqueueSound ==
  ASSUME NEW s, Sound(s), s.accepting, NEW r, Fresh(s, r), NEW deadline,
         LateRefusal(s, r) = "none"
  PROVE  Sound(Enqueue(s, r, deadline))
<1> DEFINE id == s.admitted + 1
           invocation == [request |-> r, endpoint |-> Target[r],
                          instance |-> s.leases[Target[r]].instance,
                          deadline |-> deadline, claimed |-> FALSE]
           pending == [i \in DOMAIN s.pending \cup {id} |->
                         IF i = id THEN invocation ELSE s.pending[i]]
           u == Post(Reserve(s), <<Invoke(id)>>)
           t == Enqueue(s, r, deadline)
<1>1. Alike(s, u)
  <2>1. Alike(s, Reserve(s)) /\ IsState(Reserve(s))
    BY ReserveAlike DEF Sound, Kept, WellFormed, Alike
  <2>2. Alike(Reserve(s), u)
    BY <2>1, PostAlike
  <2> QED
    BY <2>1, <2>2 DEF Alike
<1>2. t = [u EXCEPT !.pending = pending, !.logical = @ \cup {r},
                    !.admitted = id]
  BY DEF Enqueue
<1>3. /\ IsState(t)
      /\ t.accepting = s.accepting /\ t.leases = s.leases
      /\ t.statuses = s.statuses /\ t.pending = pending
      /\ t.logical = s.logical \cup {r} /\ t.future = s.future
      /\ t.admitted = id
  <2> HIDE DEF u, t, pending, id
  <2> QED
    BY <1>1, <1>2 DEF Alike, IsState, Fields
<1>4. /\ id \in Nat /\ id \notin DOMAIN s.pending
      /\ DOMAIN s.pending \cup {id} \subseteq 1..id
  BY DEF Sound, Kept, WellFormed
<1>5. /\ DOMAIN pending = DOMAIN s.pending \cup {id}
      /\ pending[id] = invocation
      /\ \A i \in DOMAIN s.pending : pending[i] = s.pending[i]
  BY <1>4
<1>6. /\ IsEntry(invocation)
      /\ invocation.request = r /\ invocation.claimed = FALSE
      /\ invocation.endpoint = Target[r]
      /\ invocation.instance = s.leases[Target[r]].instance
  BY DEF IsEntry, EntryFields
<1>7. r \in Requests /\ r \notin s.logical /\ Target[r] \in DOMAIN s.leases
  BY DEF LateRefusal, BindingRefusal, Fresh
<1>8. pending = [i \in DOMAIN pending |-> pending[i]]
  OBVIOUS
<1> HIDE DEF id, invocation, pending, t
<1>9. WellFormed(t)
  <2>1. /\ WellFormed(s)
        /\ DOMAIN t.pending \subseteq 1..t.admitted
        /\ t.pending = [i \in DOMAIN t.pending |-> t.pending[i]]
    BY <1>3, <1>4, <1>5, <1>8 DEF Sound, Kept
  <2>2. \A i \in DOMAIN t.pending : /\ IsEntry(t.pending[i])
                                    /\ t.pending[i].request \in Requests
                                    /\ t.pending[i].claimed \in BOOLEAN
    <3>1. \A i \in DOMAIN s.pending : /\ IsEntry(s.pending[i])
                                      /\ s.pending[i].request \in Requests
                                      /\ s.pending[i].claimed \in BOOLEAN
      BY <2>1 DEF WellFormed
    <3>2. \A i \in DOMAIN s.pending : t.pending[i] = s.pending[i]
      BY <1>3, <1>5
    <3>3. /\ t.pending[id] = invocation
          /\ DOMAIN t.pending = DOMAIN s.pending \cup {id}
      BY <1>3, <1>5
    <3> QED
      BY <1>6, <1>7, <3>1, <3>2, <3>3
  <2>3. /\ IsState(t) /\ t.accepting \in BOOLEAN /\ t.admitted \in Nat
        /\ t.future = [q \in Http |-> t.future[q]]
    BY <2>1, <1>3, <1>4 DEF WellFormed
  <2> QED
    BY <2>1, <2>2, <2>3 DEF WellFormed
<1>10. Identified(t)
  <2>1. /\ s.logical = {s.pending[i].request : i \in DOMAIN s.pending}
        /\ \A i, j \in DOMAIN s.pending :
             s.pending[i].request = s.pending[j].request => i = j
    BY DEF Sound, Kept, Identified
  <2>2. \A i \in DOMAIN s.pending : s.pending[i].request # r
    BY <1>7, <2>1
  <2>3. \A i, j \in DOMAIN pending :
          pending[i].request = pending[j].request => i = j
    BY <1>5, <1>6, <2>1, <2>2
  <2>4. s.logical \cup {r} = {pending[i].request : i \in DOMAIN pending}
    BY <1>5, <1>6, <2>1
  <2> QED
    BY <1>3, <2>3, <2>4 DEF Identified
<1>11. AnsweredOnce(t)
  BY <1>3, <1>5, <1>6 DEF Sound, Kept, AnsweredOnce, Fresh
<1>12. PinnedTo(t, t.leases)
  BY <1>3, <1>5, <1>6, <1>7 DEF Sound, PinnedTo
<1> QED
  BY <1>3, <1>9, <1>10, <1>11, <1>12 DEF Sound, Kept, EmptyOnceClosed, t

LEMMA AdmitSound ==
  ASSUME NEW s, Sound(s), s.accepting, NEW r, Fresh(s, r),
         NEW deadline, NEW observed
  PROVE  Sound(Admit(s, r, deadline, observed))
<1> DEFINE t == ExpireLeases(s, observed)
<1>1. Sound(t) /\ Shrunk(s, t)
  BY ExpireSound
<1>2. t.accepting /\ Fresh(t, r)
  BY <1>1, FreshStays DEF Shrunk
<1>3. \A answer : Sound(Refuse(s, r, answer))
  BY RefuseSound
<1> HIDE DEF t
<1>4. \A answer : Sound(Refuse(t, r, answer))
  BY <1>1, <1>2, RefuseSound
<1>5. LateRefusal(t, r) = "none" => Sound(Enqueue(t, r, deadline))
  BY <1>1, <1>2, EnqueueSound
<1> QED
  BY <1>3, <1>4, <1>5 DEF Admit, t

LEMMA CallerInvokeSound ==
  ASSUME NEW s, Sound(s), s.accepting, NEW r \in Dora,
         NEW deadline, NEW observed
  PROVE  Sound(CallerInvoke(s, r, deadline, observed))
<1> DEFINE t == ExpireLeases(s, observed)
<1>1. Sound(t) /\ t.accepting
  BY ExpireSound DEF Shrunk
<1> HIDE DEF t
<1>2. Sound(Reserve(t)) /\ Reserve(t).accepting
  <2>1. Alike(t, Reserve(t))
    BY <1>1, ReserveAlike DEF Sound, Kept, WellFormed
  <2>2. Sound(Reserve(t))
    BY <1>1, <2>1, AlikeSound
  <2> QED
    BY <1>1, <2>1, <2>2 DEF Alike
<1>3. Fresh(Reserve(t), r)
  BY QueryAssumption DEF Fresh, Requests
<1>4. Sound(Admit(Reserve(t), r, deadline, observed))
  BY <1>2, <1>3, AdmitSound
<1> QED
  BY <1>1, <1>4 DEF CallerInvoke, t

-----------------------------------------------------------------------------
(* Reports, dispatch and closing.                                          *)

LEMMA StatusSound ==
  ASSUME NEW s, Sound(s), NEW identity, NEW at
  PROVE  Sound(EndpointStatus(s, identity, at))
<1> DEFINE t == ExpireLeases(s, at)
           current == Table!Identities(t.leases, DOMAIN t.leases)
           u == [t EXCEPT !.statuses = @ \cup ({identity} \cap current)]
<1>1. Sound(t)
  BY ExpireSound
<1>2. u = EndpointStatus(s, identity, at)
  BY DEF EndpointStatus
<1>3. \A x \in current : \E e \in DOMAIN t.leases :
        x = [endpoint |-> e, instance |-> t.leases[e].instance]
  BY DEF Table!Identities
<1> HIDE DEF t, current
<1>4. /\ IsState(u)
      /\ u.accepting = t.accepting /\ u.leases = t.leases
      /\ u.statuses = t.statuses \cup ({identity} \cap current)
      /\ u.pending = t.pending /\ u.logical = t.logical
      /\ u.future = t.future /\ u.admitted = t.admitted
  BY <1>1 DEF Sound, Kept, WellFormed, IsState, Fields
<1> HIDE DEF u
<1>5. Kept(u)
  BY <1>1, <1>4
     DEF Sound, Kept, WellFormed, Identified, AnsweredOnce, EmptyOnceClosed
<1>6. PinnedTo(u, u.leases)
  BY <1>1, <1>3, <1>4 DEF Sound, PinnedTo
<1> QED
  BY <1>2, <1>5, <1>6 DEF Sound

\* Marking an invocation as claimed changes nothing but that.
LEMMA TakeSound ==
  ASSUME NEW s, Sound(s), NEW n \in Deliverable(s)
  PROVE  Sound(TakeOutbound(s, n))
<1> DEFINE m == s.outbound[n]
           t == PopOutbound(s, n)
           u == [t EXCEPT !.pending[m.id].claimed = TRUE]
<1>1. Alike(s, t)
  BY DEF PopOutbound, Sound, Kept, WellFormed, IsState, Fields, Alike
<1>2. Sound(t)
  BY <1>1, AlikeSound
<1>3. CASE m.kind = "provider.invoke_request"
  <2>1. m.id \in DOMAIN t.pending
    BY <1>1, <1>3 DEF Deliverable, Valid, Alike
  <2>2. u = TakeOutbound(s, n)
    BY <1>3 DEF TakeOutbound
  <2> HIDE DEF t, m
  <2>3. /\ IsState(u)
        /\ u.accepting = t.accepting /\ u.leases = t.leases
        /\ u.statuses = t.statuses /\ u.logical = t.logical
        /\ u.future = t.future /\ u.admitted = t.admitted
        /\ u.pending = [t.pending EXCEPT ![m.id].claimed = TRUE]
    BY <1>2 DEF Sound, Kept, WellFormed, IsState, Fields
  <2> HIDE DEF u
  <2>4. /\ DOMAIN u.pending = DOMAIN t.pending
        /\ u.pending = [i \in DOMAIN u.pending |-> u.pending[i]]
        /\ \A i \in DOMAIN t.pending \ {m.id} : u.pending[i] = t.pending[i]
        /\ u.pending[m.id] = [t.pending[m.id] EXCEPT !.claimed = TRUE]
    BY <2>1, <2>3
  <2>5. /\ IsEntry(u.pending[m.id]) /\ u.pending[m.id].claimed = TRUE
        /\ u.pending[m.id].request = t.pending[m.id].request
    BY <1>2, <2>1, <2>4
       DEF Sound, Kept, WellFormed, IsEntry, EntryFields
  <2>6. \A i \in DOMAIN u.pending :
          u.pending[i].request = t.pending[i].request
    BY <2>4, <2>5
  <2>7. WellFormed(u)
    <3>1. WellFormed(t)
      BY <1>2 DEF Sound, Kept
    <3>2. \A i \in DOMAIN u.pending : /\ IsEntry(u.pending[i])
                                      /\ u.pending[i].request \in Requests
                                      /\ u.pending[i].claimed \in BOOLEAN
      BY <3>1, <2>4, <2>5 DEF WellFormed
    <3>3. /\ IsState(u) /\ u.accepting \in BOOLEAN /\ u.admitted \in Nat
          /\ DOMAIN u.pending \subseteq 1..u.admitted
          /\ u.future = [r \in Http |-> u.future[r]]
      BY <3>1, <2>3, <2>4 DEF WellFormed
    <3> QED
      BY <3>2, <3>3, <2>4 DEF WellFormed
  <2>8. Identified(u)
    BY <1>2, <2>3, <2>4, <2>6 DEF Sound, Kept, Identified
  <2>9. AnsweredOnce(u)
    BY <1>2, <2>3, <2>4, <2>6 DEF Sound, Kept, AnsweredOnce
  <2>10. EmptyOnceClosed(u)
    BY <1>2, <2>3, <2>4 DEF Sound, Kept, EmptyOnceClosed
  <2>11. PinnedTo(u, u.leases)
    <3>1. PinnedTo(t, t.leases)
      BY <1>2 DEF Sound
    <3>2. \A i \in DOMAIN u.pending :
            ~u.pending[i].claimed => i # m.id /\ u.pending[i] = t.pending[i]
      BY <2>4, <2>5
    <3>3. ASSUME NEW i \in DOMAIN u.pending, ~u.pending[i].claimed
          PROVE  /\ u.pending[i].endpoint \in DOMAIN u.leases
                 /\ u.leases[u.pending[i].endpoint].instance = u.pending[i].instance
      <4>1. i \in DOMAIN t.pending /\ u.pending[i] = t.pending[i]
        BY <2>4, <3>2, <3>3
      <4>2. ~t.pending[i].claimed
        BY <3>3, <4>1
      <4>3. /\ t.pending[i].endpoint \in DOMAIN t.leases
            /\ t.leases[t.pending[i].endpoint].instance = t.pending[i].instance
        BY <3>1, <4>1, <4>2 DEF PinnedTo
      <4>4. u.leases = t.leases
        BY <2>3
      <4> QED
        BY <4>1, <4>3, <4>4
    <3>4. \A x \in u.statuses :
            \E e \in DOMAIN u.leases :
              x = [endpoint |-> e, instance |-> u.leases[e].instance]
      <4>1. u.statuses = t.statuses /\ u.leases = t.leases
        BY <2>3
      <4> QED
        BY <3>1, <4>1 DEF PinnedTo
    <3> QED
      BY <3>3, <3>4 DEF PinnedTo
  <2> QED
    BY <2>2, <2>7, <2>8, <2>9, <2>10, <2>11 DEF Sound, Kept
<1>4. CASE m.kind # "provider.invoke_request"
  BY <1>2, <1>4 DEF TakeOutbound
<1> QED
  BY <1>3, <1>4

LEMMA DiscardSound ==
  ASSUME NEW s, Sound(s)
  PROVE  Sound(DiscardOutbound(s))
<1>1. Alike(s, DiscardOutbound(s))
  BY DEF DiscardOutbound, Sound, Kept, WellFormed, IsState, Fields, Alike
<1> QED
  BY <1>1, AlikeSound

LEMMA SweepSound ==
  ASSUME NEW s, Sound(s), NEW observed
  PROVE  Sound(Sweep(s, observed))
<1> DEFINE t == ExpireLeases(s, observed)
           F == {i \in DOMAIN t.pending : t.pending[i].deadline <= observed}
<1>1. Sound(t)
  BY ExpireSound
<1>2. F \in SUBSET DOMAIN t.pending
  OBVIOUS
<1>3. Sweep(s, observed) = Finish(t, F, "timeout", observed)
  BY DEF Sweep
<1> HIDE DEF t, F
<1> QED
  BY <1>1, <1>2, <1>3, FinishSound

\* Closing leaves nothing in flight, so the flag and the table agree.
LEMMA CloseSound ==
  ASSUME NEW s, Sound(s), NEW observed
  PROVE  Sound(BeginClose(s, observed))
<1> DEFINE u == StopAccepting(s, observed)
           t == BeginClose(s, observed)
<1>1. /\ IsState(u)
      /\ u.accepting = FALSE /\ u.leases = s.leases
      /\ u.statuses = s.statuses /\ u.pending = s.pending
      /\ u.logical = s.logical /\ u.future = s.future
      /\ u.admitted = s.admitted
  BY DEF StopAccepting, Sound, Kept, WellFormed, IsState, Fields
<1> DEFINE F == DOMAIN u.pending
<1>2. t = Finish(u, F, "closing", observed) /\ F \in SUBSET DOMAIN u.pending
  BY <1>1 DEF BeginClose
<1> HIDE DEF u, t, F
<1>3. WellFormed(u) /\ Identified(u) /\ AnsweredOnce(u)
  <2>1. WellFormed(u)
    BY <1>1 DEF Sound, Kept, WellFormed
  <2>2. Identified(u)
    BY <1>1 DEF Sound, Kept, Identified
  <2>3. AnsweredOnce(u)
    BY <1>1 DEF Sound, Kept, AnsweredOnce
  <2> QED
    BY <2>1, <2>2, <2>3
<1>4. /\ WellFormed(t) /\ Identified(t) /\ AnsweredOnce(t)
      /\ t.leases = u.leases /\ t.statuses = u.statuses
      /\ DOMAIN t.pending = {}
  <2>1. t = Finish(u, F, "closing", observed)
    BY <1>2
  <2>2. F \in SUBSET DOMAIN u.pending
    BY <1>2
  <2>3. WellFormed(t) /\ Identified(t) /\ AnsweredOnce(t)
    BY <2>1, <2>2, <1>3, FinishKeeps
  <2>4. t.leases = u.leases /\ t.statuses = u.statuses
    BY <2>1, <2>2, <1>3, FinishKeeps
  <2>5. t.pending = Restrict(u.pending, DOMAIN u.pending \ F)
    <3>1. Finished(u, F, t)
      BY <2>1, <1>1, FinishFields
    <3> QED
      BY <3>1 DEF Finished
  <2>6. DOMAIN t.pending = {}
    BY <2>5 DEF Restrict, F
  <2> QED
    BY <2>3, <2>4, <2>6
<1> QED
  BY <1>1, <1>4 DEF Sound, Kept, EmptyOnceClosed, PinnedTo, t

-----------------------------------------------------------------------------
(* The threads.                                                            *)

\* The inductive invariant of the specification.
IInv == Sound(service)

LEMMA InitSound == Init => IInv
<1> SUFFICES ASSUME Init PROVE IInv
  OBVIOUS
<1>1. /\ IsState(service)
      /\ service.accepting = TRUE /\ service.admitted = 0
      /\ service.pending = <<>> /\ service.logical = {}
      /\ service.statuses = {} /\ service.future = [r \in Http |-> "none"]
  BY DEF Init, NewService, IsState, Fields
<1>2. /\ DOMAIN service.pending = {}
      /\ service.pending = [i \in {} |-> service.pending[i]]
  BY <1>1
<1>3. WellFormed(service)
  <2>1. /\ DOMAIN service.pending \subseteq 1..service.admitted
        /\ service.future = [r \in Http |-> service.future[r]]
        /\ service.pending =
             [i \in DOMAIN service.pending |-> service.pending[i]]
    BY <1>1, <1>2
  <2>2. service.accepting \in BOOLEAN /\ service.admitted \in Nat
    <3>1. service.accepting \in BOOLEAN
      BY <1>1, Zenon
    <3>2. service.admitted \in Nat
      BY <1>1
    <3> QED
      BY <3>1, <3>2
  <2>3. \A i \in DOMAIN service.pending :
          /\ IsEntry(service.pending[i])
          /\ service.pending[i].request \in Requests
          /\ service.pending[i].claimed \in BOOLEAN
    <3>1. \A i \in DOMAIN service.pending : FALSE
      BY <1>2
    <3> QED
      BY <3>1, Zenon
  <2> QED
    BY <1>1, <2>1, <2>2, <2>3 DEF WellFormed
<1>4. Identified(service) /\ EmptyOnceClosed(service)
  BY <1>1, <1>2 DEF Identified, EmptyOnceClosed
<1>5. AnsweredOnce(service) /\ PinnedTo(service, service.leases)
  BY <1>1, <1>2 DEF AnsweredOnce, PinnedTo
<1> QED
  BY <1>3, <1>4, <1>5 DEF Sound, Kept, IInv

LEMMA StepSound == IInv /\ [Next]_vars => IInv'
<1> SUFFICES ASSUME Sound(service), [Next]_vars PROVE Sound(service')
  BY DEF IInv
<1>1. CASE UNCHANGED service
  BY <1>1
<1>2. ASSUME NEW r \in Http, NEW observed, NEW timeout,
             SubmitHttp(r, timeout, observed)
      PROVE  Sound(service')
  <2>1. Fresh(service, r)
    BY <1>2 DEF SubmitHttp, Waiting, Fresh, Requests
  <2> QED
    BY <1>2, <2>1, AdmitSound, RefuseSound DEF SubmitHttp, SubmitHttpInvoke
<1>3. ASSUME NEW r \in Http, HttpTimer(r) \/ HttpDisconnect(r)
      PROVE  Sound(service')
  BY <1>3, FinishSound DEF HttpTimer, HttpDisconnect, CancelHttpInvoke
<1>4. ASSUME NEW observed, HttpDiscovery(observed)
      PROVE  Sound(service')
  BY <1>4, ExpireSound DEF HttpDiscovery
<1>5. CASE ApplicationClose \/ FinishRun
  BY <1>5, CloseSound DEF ApplicationClose, FinishRun
<1>6. ASSUME NEW r \in Dora, NEW remaining, NEW observed,
             HandleCallerInvoke(r, remaining, observed)
      PROVE  Sound(service')
  BY <1>6, CallerInvokeSound DEF HandleCallerInvoke
<1>7. ASSUME NEW id, NEW word, NEW observed,
             HandleResponse(id, word, observed)
      PROVE  Sound(service')
  BY <1>7, FinishSound DEF HandleResponse, ProviderResponse
<1>8. ASSUME NEW reg, NEW route, NEW at, NEW observed,
             HandleRegister(reg, route, at, observed)
      PROVE  Sound(service')
  BY <1>8, MutateSound, RegisterAccounted
     DEF HandleRegister, ProviderRegister
<1>9. ASSUME NEW wd, NEW route, NEW at, NEW observed,
             HandleUnregister(wd, route, at, observed)
      PROVE  Sound(service')
  BY <1>9, MutateSound, UnregisterAccounted
     DEF HandleUnregister, ProviderUnregister
<1>10. ASSUME NEW identity, NEW at, HandleStatus(identity, at)
       PROVE  Sound(service')
  BY <1>10, StatusSound DEF HandleStatus
<1>11. ASSUME NEW observed, SweepOnce(observed)
       PROVE  Sound(service')
  BY <1>11, SweepSound DEF SweepOnce
<1>12. CASE Take \/ EndDrain
  BY <1>12, TakeSound, DiscardSound DEF Take, EndDrain
<1>13. CASE SendFails
  BY <1>13, FinishSound DEF SendFails, OutputFailed
<1>14. CASE PollIdle \/ SendOk \/ Tick \/ UNCHANGED vars
  BY <1>14 DEF PollIdle, SendOk, Tick, vars
<1>15. CASE HandleInput
  BY <1>6, <1>7, <1>8, <1>9, <1>10, <1>15 DEF HandleInput
<1> QED
  BY <1>2, <1>3, <1>4, <1>5, <1>11, <1>12, <1>13, <1>14, <1>15
     DEF Next, HttpThreads, Lifecycle

LEMMA AlwaysSound == Spec => []IInv
  BY InitSound, StepSound, PTL DEF Spec

\* Whatever the threads do, the identities kept against duplicates are those
\* of the invocations in flight, each of which has its own.
THEOREM IdentitiesAlwaysMatch == Spec => []IdentitiesMatch
<1>1. IInv => IdentitiesMatch
  BY DEF IInv, Sound, Kept, Identified, IdentitiesMatch
<1> QED
  BY <1>1, AlwaysSound, PTL

\* A provider that was replaced, removed or has lapsed never has a request
\* waiting for it in the mailbox.
THEOREM UnclaimedAlwaysPinnedToCurrent == Spec => []UnclaimedPinnedToCurrent
<1>1. IInv => UnclaimedPinnedToCurrent
  BY DEF IInv, Sound, PinnedTo, UnclaimedPinnedToCurrent
<1> QED
  BY <1>1, AlwaysSound, PTL

\* A readiness report never outlives the registration that made it.
THEOREM StatusesAlwaysCurrent == Spec => []StatusesAreCurrent
<1>1. IInv => StatusesAreCurrent
  BY DEF IInv, Sound, PinnedTo, StatusesAreCurrent, Table!Identities
<1> QED
  BY <1>1, AlwaysSound, PTL

\* An HTTP caller that has been answered has nothing in flight any more.
THEOREM AnsweredAlwaysOver == Spec => []AnsweredIsOver
<1>1. IInv => AnsweredIsOver
  BY DEF IInv, Sound, Kept, AnsweredOnce, AnsweredIsOver, Waiting
<1> QED
  BY <1>1, AlwaysSound, PTL

\* A closing gateway has nothing in flight, and admits nothing.
THEOREM ClosedAlwaysEmpty == Spec => []ClosedIsEmpty
<1>1. IInv => ClosedIsEmpty
  <2>1. ASSUME IInv, ~service.accepting
        PROVE  service.pending = <<>>
    <3>1. /\ DOMAIN service.pending = {}
          /\ service.pending =
               [i \in DOMAIN service.pending |-> service.pending[i]]
      BY <2>1 DEF IInv, Sound, Kept, WellFormed, EmptyOnceClosed
    <3>2. service.pending \in Seq(Nat) /\ Len(service.pending) = 0
      <4>1. 1..0 = {}
        OBVIOUS
      <4>2. service.pending \in [1..0 -> Nat]
        BY <3>1, <4>1
      <4> QED
        BY <4>2
    <3> QED
      BY <3>2
  <2> QED
    BY <2>1 DEF ClosedIsEmpty
<1> QED
  BY <1>1, AlwaysSound, PTL

-----------------------------------------------------------------------------
(* The contract.  What the service does to invocations, operation by       *)
(* operation, is to conclude some and then, perhaps, to admit one more.    *)

\* The conclusions the contract allows for an invocation in flight.
Allowed(p) == IF p.claimed THEN Contract!Sent ELSE Contract!Unsent

\* t is s after the conclusion of the invocations that t no longer has.
Concluding(s, t) ==
  /\ t.admitted = s.admitted
  /\ DOMAIN t.pending \subseteq DOMAIN s.pending
  /\ \A i \in DOMAIN t.pending : t.pending[i] = s.pending[i]
  /\ t.fate = [i \in Invocations |-> t.fate[i]]
  /\ \A i \in Invocations :
       IF i \in DOMAIN s.pending \ DOMAIN t.pending
       THEN t.fate[i] \in Allowed(s.pending[i])
       ELSE t.fate[i] = s.fate[i]

\* t is s with one more invocation, unclaimed.
Admitting(s, t) ==
  /\ t.admitted = s.admitted + 1
  /\ DOMAIN t.pending = DOMAIN s.pending \cup {t.admitted}
  /\ \A i \in DOMAIN s.pending : t.pending[i] = s.pending[i]
  /\ ~t.pending[t.admitted].claimed
  /\ t.fate = s.fate

\* Only invocations that were admitted have been concluded.
Fated(s) ==
  /\ s.fate \in [Invocations -> Contract!Unsent \cup Contract!Sent \cup {"none"}]
  /\ s.admitted <= MaxInvokes
  /\ \A i \in Invocations : s.fate[i] # "none" => i <= s.admitted

HasFates(s) == IsState(s) /\ s.fate = [i \in Invocations |-> s.fate[i]]

\* Conclusions add up.
LEMMA ConcludingTwice ==
  ASSUME NEW s, NEW t, NEW u, Concluding(s, t), Concluding(t, u)
  PROVE  Concluding(s, u)
<1>1. /\ u.admitted = s.admitted
      /\ DOMAIN u.pending \subseteq DOMAIN s.pending
      /\ \A i \in DOMAIN u.pending : u.pending[i] = s.pending[i]
      /\ u.fate = [i \in Invocations |-> u.fate[i]]
  BY DEF Concluding
<1>2. ASSUME NEW i \in Invocations
      PROVE  IF i \in DOMAIN s.pending \ DOMAIN u.pending
             THEN u.fate[i] \in Allowed(s.pending[i])
             ELSE u.fate[i] = s.fate[i]
  <2>1. CASE i \in DOMAIN s.pending \ DOMAIN t.pending
    BY <2>1 DEF Concluding
  <2>2. CASE i \in DOMAIN t.pending
    BY <2>2 DEF Concluding
  <2>3. CASE i \notin DOMAIN s.pending
    BY <2>3 DEF Concluding
  <2> QED
    BY <2>1, <2>2, <2>3
<1> QED
  BY <1>1, <1>2 DEF Concluding

\* Queues, slots, leases and futures are none of the contract's business.
LEMMA UnmovedConcludes ==
  ASSUME NEW s, HasFates(s), NEW t,
         t.admitted = s.admitted, t.pending = s.pending, t.fate = s.fate
  PROVE  Concluding(s, t)
BY DEF HasFates, Concluding

\* Finishing invocations concludes them, within the contract if the outcome is.
LEMMA FinishConcludes ==
  ASSUME NEW s, HasFates(s), NEW F \in SUBSET DOMAIN s.pending,
         NEW outcome, \A i \in F : outcome \in Allowed(s.pending[i]),
         NEW observed
  PROVE  /\ Concluding(s, Finish(s, F, outcome, observed))
         /\ HasFates(Finish(s, F, outcome, observed))
<1> DEFINE answer(i) == IF observed >= s.pending[i].deadline THEN "timeout"
                        ELSE outcome
           fate == [i \in Invocations |-> IF i \in F THEN answer(i) ELSE s.fate[i]]
           t == Finish(s, F, outcome, observed)
<1>1. Finished(s, F, t)
  BY FinishFields DEF HasFates
<1>2. t.fate = fate
  <2>1. \A m : IsState(Post(s, m))
    BY PostAlike DEF HasFates, Alike
  <2>2. \A m, pending, logical, future :
          [Post(s, m) EXCEPT !.pending = pending, !.logical = logical,
                             !.future = future, !.fate = fate].fate = fate
    BY <2>1 DEF IsState, Fields
  <2> QED
    BY <2>2 DEF Finish
<1>3. \A i \in F : answer(i) \in Allowed(s.pending[i])
  BY DEF Allowed, Contract!Sent, Contract!Unsent, Contract!Anytime
<1>4. \A i \in Invocations : fate[i] = IF i \in F THEN answer(i) ELSE s.fate[i]
  OBVIOUS
<1>5. /\ t.admitted = s.admitted
      /\ DOMAIN t.pending = DOMAIN s.pending \ F
      /\ \A i \in DOMAIN t.pending : t.pending[i] = s.pending[i]
  BY <1>1 DEF Finished, Restrict
<1>6. t.fate = [i \in Invocations |-> t.fate[i]]
  BY <1>2
<1>7. ASSUME NEW i \in Invocations
      PROVE  IF i \in DOMAIN s.pending \ DOMAIN t.pending
             THEN t.fate[i] \in Allowed(s.pending[i])
             ELSE t.fate[i] = s.fate[i]
  <2>1. t.fate[i] = IF i \in F THEN answer(i) ELSE s.fate[i]
    BY <1>2, <1>4
  <2>2. i \in DOMAIN s.pending \ DOMAIN t.pending <=> i \in F
    BY <1>5
  <2> HIDE DEF t, answer
  <2> QED
    BY <1>3, <2>1, <2>2
<1> HIDE DEF t
<1>8. Concluding(s, t)
  BY <1>5, <1>6, <1>7 DEF Concluding
<1>9. HasFates(t)
  BY <1>1, <1>6 DEF HasFates, Finished
<1> QED
  BY <1>8, <1>9 DEF t

\* Work pinned to a registration that is gone is concluded unclaimed.
LEMMA RemovedConcludes ==
  ASSUME NEW s, HasFates(s), NEW gone, NEW observed
  PROVE  /\ Concluding(s, FinishRemoved(s, gone, observed))
         /\ HasFates(FinishRemoved(s, gone, observed))
<1> DEFINE u == [s EXCEPT !.statuses = @ \ gone]
           F == Pinned(u, gone)
<1>1. /\ HasFates(u) /\ u.admitted = s.admitted /\ u.pending = s.pending
      /\ u.fate = s.fate
  BY DEF HasFates, IsState, Fields
<1> HIDE DEF u
<1>2. F \in SUBSET DOMAIN u.pending
  BY DEF Pinned, PinnedOrClaimed
<1>3. \A i \in F : "unavailable" \in Allowed(u.pending[i])
  BY DEF Pinned, Allowed, Contract!Unsent
<1>4. FinishRemoved(s, gone, observed) = Finish(u, F, "unavailable", observed)
  BY DEF FinishRemoved, FinishPinned, u
<1> HIDE DEF F
<1>5. Concluding(s, u)
  BY <1>1, UnmovedConcludes
<1> QED
  BY <1>1, <1>2, <1>3, <1>4, <1>5, FinishConcludes, ConcludingTwice

\* So is the work of leases that lapse.
LEMMA ExpireConcludes ==
  ASSUME NEW s, HasFates(s), NEW observed
  PROVE  /\ Concluding(s, ExpireLeases(s, observed))
         /\ HasFates(ExpireLeases(s, observed))
<1> DEFINE gone == Table!Identities(s.leases, Table!Lapsed(s.leases, observed))
           u == ExpireQuietly(s, observed)
<1>1. /\ HasFates(u) /\ u.admitted = s.admitted /\ u.pending = s.pending
      /\ u.fate = s.fate
  BY DEF ExpireQuietly, HasFates, IsState, Fields
<1>2. ExpireLeases(s, observed) = FinishRemoved(u, gone, observed)
  BY DEF ExpireLeases
<1> HIDE DEF u, gone
<1> QED
  BY <1>1, <1>2, UnmovedConcludes, RemovedConcludes, ConcludingTwice

\* Queueing a message concludes nothing.
LEMMA PostConcludes ==
  ASSUME NEW s, HasFates(s), NEW messages
  PROVE  Concluding(s, Post(s, messages)) /\ HasFates(Post(s, messages))
<1> DEFINE t == Post(s, messages)
<1>1. /\ HasFates(t) /\ t.admitted = s.admitted /\ t.pending = s.pending
      /\ t.fate = s.fate
  BY DEF Post, HasFates, IsState, Fields
<1> HIDE DEF t
<1>2. Concluding(s, t) /\ HasFates(t)
  BY <1>1, UnmovedConcludes
<1> QED
  BY <1>2 DEF t

\* A registry mutation concludes what it removes, and admits nothing.
LEMMA MutateConcludes ==
  ASSUME NEW s, HasFates(s), NEW e, NEW table, NEW gone, NEW observed
  PROVE  Concluding(s, Mutate(s, e, table, gone, observed))
<1> DEFINE v == [Reserve(s) EXCEPT !.leases = table]
           u == Post(v, <<RegistryResponse(e)>>)
<1>1. /\ HasFates(v) /\ v.admitted = s.admitted /\ v.pending = s.pending
      /\ v.fate = s.fate
  BY DEF Reserve, HasFates, IsState, Fields
<1>2. Mutate(s, e, table, gone, observed)
        = IF ~HasRoom(s) THEN s ELSE FinishRemoved(u, gone, observed)
  BY DEF Mutate
<1> HIDE DEF v
<1>3. Concluding(s, v)
  BY <1>1, UnmovedConcludes
<1>4. Concluding(v, u) /\ HasFates(u)
  BY <1>1, PostConcludes
<1> HIDE DEF u
<1>5. Concluding(u, FinishRemoved(u, gone, observed))
  BY <1>4, RemovedConcludes
<1>6. Concluding(s, FinishRemoved(u, gone, observed))
  BY <1>3, <1>4, <1>5, ConcludingTwice
<1>7. Concluding(s, s)
  BY UnmovedConcludes
<1> QED
  BY <1>2, <1>6, <1>7

\* A refusal never becomes an invocation.
LEMMA RefuseConcludes ==
  ASSUME NEW s, HasFates(s), NEW r, NEW answer
  PROVE  Concluding(s, Refuse(s, r, answer))
<1>1. CASE r \in Dora
  BY <1>1, PostConcludes DEF Refuse
<1>2. CASE r \notin Dora
  <2> DEFINE t == SetFuture(s, r, answer)
  <2>1. t.admitted = s.admitted /\ t.pending = s.pending /\ t.fate = s.fate
    BY DEF SetFuture, HasFates, IsState, Fields
  <2> HIDE DEF t
  <2>2. Concluding(s, t)
    BY <2>1, UnmovedConcludes
  <2> QED
    BY <1>2, <2>2 DEF Refuse, t
<1> QED
  BY <1>1, <1>2

\* Only enqueueing admits.
LEMMA EnqueueAdmits ==
  ASSUME NEW s, IsState(s), NEW r, NEW deadline,
         s.admitted + 1 \notin DOMAIN s.pending
  PROVE  Admitting(s, Enqueue(s, r, deadline))
<1> DEFINE id == s.admitted + 1
           invocation == [request |-> r, endpoint |-> Target[r],
                          instance |-> s.leases[Target[r]].instance,
                          deadline |-> deadline, claimed |-> FALSE]
           pending == [i \in DOMAIN s.pending \cup {id} |->
                         IF i = id THEN invocation ELSE s.pending[i]]
           u == Post(Reserve(s), <<Invoke(id)>>)
           t == Enqueue(s, r, deadline)
<1>1. IsState(u) /\ u.fate = s.fate
  BY DEF Post, Reserve, IsState, Fields
<1>2. t = [u EXCEPT !.pending = pending, !.logical = @ \cup {r},
                    !.admitted = id]
  BY DEF Enqueue
<1>3. /\ DOMAIN pending = DOMAIN s.pending \cup {id}
      /\ pending[id] = invocation
      /\ \A i \in DOMAIN s.pending : pending[i] = s.pending[i]
  OBVIOUS
<1>4. ~invocation.claimed
  OBVIOUS
<1> HIDE DEF u, t, pending, id, invocation
<1>5. t.pending = pending /\ t.admitted = id /\ t.fate = s.fate
  BY <1>1, <1>2 DEF IsState, Fields
<1>6. Admitting(s, t)
  BY <1>3, <1>4, <1>5 DEF Admitting, id
<1> QED
  BY <1>6 DEF t

\* What an operation may do: conclude, and then admit, within the bound.
Moving(s, t) ==
  \/ Concluding(s, t)
  \/ s.admitted < MaxInvokes /\ \E u : Concluding(s, u) /\ Admitting(u, t)

\* An admission concludes the work of lapsed leases, then admits or refuses.
LEMMA AdmitMoves ==
  ASSUME NEW s, HasFates(s), WellFormed(s), s.admitted < MaxInvokes,
         NEW r, NEW deadline, NEW observed
  PROVE  Moving(s, Admit(s, r, deadline, observed))
<1> DEFINE t == ExpireLeases(s, observed)
<1>1. Concluding(s, t) /\ HasFates(t)
  BY ExpireConcludes
<1>2. t.admitted + 1 \notin DOMAIN t.pending
  BY <1>1 DEF Concluding, WellFormed
<1>3. \A answer : Concluding(s, Refuse(s, r, answer))
  BY RefuseConcludes
<1> HIDE DEF t
<1>4. \A answer : Concluding(t, Refuse(t, r, answer))
  BY <1>1, RefuseConcludes
<1>5. \A answer : Concluding(s, Refuse(t, r, answer))
  BY <1>1, <1>4, ConcludingTwice
<1>6. Admitting(t, Enqueue(t, r, deadline))
  BY <1>1, <1>2, EnqueueAdmits DEF HasFates
<1>7. Admit(s, r, deadline, observed)
        \in {Refuse(s, r, EarlyRefusal(s, r, deadline, observed)),
             Refuse(t, r, LateRefusal(t, r)), Enqueue(t, r, deadline)}
  BY DEF Admit, t
<1> QED
  BY <1>1, <1>3, <1>5, <1>6, <1>7 DEF Moving

\* So does a Dora caller's request.
LEMMA CallerInvokeMoves ==
  ASSUME NEW s, HasFates(s), WellFormed(s), s.admitted < MaxInvokes,
         NEW r, NEW deadline, NEW observed, Sound(s)
  PROVE  Moving(s, CallerInvoke(s, r, deadline, observed))
<1> DEFINE t == ExpireLeases(s, observed)
           u == Reserve(t)
           v == Admit(u, r, deadline, observed)
<1>1. Concluding(s, t) /\ HasFates(t)
  BY ExpireConcludes
<1>2. Sound(t)
  BY ExpireSound
<1> HIDE DEF t
<1>3. HasFates(u) /\ u.admitted = t.admitted /\ u.pending = t.pending
      /\ u.fate = t.fate
  BY <1>1 DEF Reserve, HasFates, IsState, Fields
<1>4. WellFormed(u)
  BY <1>1, <1>2, ReserveAlike, AlikeSound DEF Sound, Kept, HasFates
<1> HIDE DEF u
<1>5. Concluding(s, u)
  BY <1>1, <1>3, UnmovedConcludes, ConcludingTwice
<1>6. u.admitted < MaxInvokes
  BY <1>5 DEF Concluding
<1>7. Moving(u, v)
  BY <1>3, <1>4, <1>6, AdmitMoves
<1> HIDE DEF v
<1>8. Moving(s, v)
  BY <1>5, <1>7, ConcludingTwice DEF Moving
<1>9. CallerInvoke(s, r, deadline, observed) \in {t, v}
  BY DEF CallerInvoke, t, u, v
<1> QED
  BY <1>1, <1>8, <1>9 DEF Moving

\* An invocation whose request may have been sent, or is about to be.
Dispatched(i) ==
  i \in sent \/ (hand.kind = "provider.invoke_request" /\ hand.id = i)

\* What was dispatched was admitted before, and claimed.
DispatchedIsClaimed ==
  \A i \in Invocations : Dispatched(i) =>
    /\ i <= service.admitted
    /\ i \in DOMAIN service.pending => service.pending[i].claimed

\* What the refinement rests on.
FateInv == IInv /\ Fated(service) /\ DispatchedIsClaimed

\* The message in the sender's hand was claimed there.
Claiming(s, t) ==
  \E i \in Invocations :
    /\ i \in DOMAIN s.pending /\ ~s.pending[i].claimed
    /\ t.admitted = s.admitted /\ t.fate = s.fate
    /\ DOMAIN t.pending = DOMAIN s.pending
    /\ t.pending[i].claimed
    /\ \A j \in DOMAIN s.pending \ {i} : t.pending[j] = s.pending[j]

\* Conclusions, then perhaps one admission, are a step of the contract.
LEMMA MovingContract ==
  ASSUME FateInv, Moving(service, service'), Fated(service)'
  PROVE  Contract!Next \/ UNCHANGED Contract!vars
<1> DEFINE s == service
           t == service'
           C == DOMAIN s.pending \ DOMAIN t.pending
           at(x, i) == IF i \in DOMAIN x.pending
                       THEN IF x.pending[i].claimed THEN "claimed" ELSE "queued"
                       ELSE IF x.fate[i] # "none" THEN "concluded"
                       ELSE "unknown"
<1>1. /\ stage = [i \in Invocations |-> at(s, i)]
      /\ stage' = [i \in Invocations |-> at(t, i)]
  BY DEF stage
<1>2. /\ MaxInvokes \in Nat /\ s.admitted \in Nat /\ s.admitted <= MaxInvokes
      /\ DOMAIN s.pending \subseteq 1..s.admitted
      /\ \A i \in DOMAIN s.pending : s.pending[i].claimed \in BOOLEAN
  BY QueryAssumption DEF FateInv, IInv, Sound, Kept, WellFormed, Fated
<1>3. /\ s.fate \in
           [Invocations -> Contract!Unsent \cup Contract!Sent \cup {"none"}]
      /\ t.fate \in
           [Invocations -> Contract!Unsent \cup Contract!Sent \cup {"none"}]
      /\ \A i \in Invocations : s.fate[i] # "none" => i <= s.admitted
  BY DEF FateInv, Fated
<1>4. "none" \notin Contract!Unsent \cup Contract!Sent
  BY DEF Contract!Unsent, Contract!Sent, Contract!Anytime
<1>5. C \in SUBSET Invocations /\ DOMAIN s.pending \subseteq Invocations
  BY <1>2 DEF Invocations
<1> HIDE DEF s, t
<1>6. \A i \in C : at(s, i) = IF s.pending[i].claimed THEN "claimed" ELSE "queued"
  OBVIOUS
<1>7. CASE Concluding(s, t)
  <2>1. \A i \in Invocations :
          at(t, i) = IF i \in C THEN "concluded" ELSE at(s, i)
    <3>1. ASSUME NEW i \in Invocations, i \in C
          PROVE  at(t, i) = "concluded"
      BY <1>4, <1>7, <3>1 DEF Concluding, Allowed
    <3>2. ASSUME NEW i \in Invocations, i \notin C
          PROVE  at(t, i) = at(s, i)
      BY <1>7, <3>2 DEF Concluding
    <3> QED
      BY <3>1, <3>2
  <2>2. \A i \in Invocations :
          IF i \notin C THEN t.fate[i] = s.fate[i]
          ELSE t.fate[i] \in (IF at(s, i) = "queued" THEN Contract!Unsent
                              ELSE Contract!Sent)
    BY <1>6, <1>7 DEF Concluding, Allowed
  <2>3. CASE C = {}
    <3>1. t.fate = s.fate
      BY <1>3, <2>2, <2>3
    <3>2. stage' = stage
      BY <1>1, <2>1, <2>3
    <3> QED
      BY <3>1, <3>2 DEF Contract!vars, s, t
  <2>4. CASE C # {}
    <3>1. \A i \in C : stage[i] \in {"queued", "claimed"}
      BY <1>1, <1>5, <1>6
    <3>2. stage' = [i \in Invocations |-> IF i \in C THEN "concluded"
                                          ELSE IF i \in {} THEN "queued"
                                          ELSE stage[i]]
      BY <1>1, <2>1
    <3>3. \A i \in Invocations :
            IF i \notin C THEN t.fate[i] = s.fate[i]
            ELSE t.fate[i] \in (IF stage[i] = "queued" THEN Contract!Unsent
                                ELSE Contract!Sent)
      BY <1>1, <2>2
    <3> HIDE DEF C, at
    <3>4. Contract!Conclude(C, {})
      BY <1>3, <2>4, <3>1, <3>2, <3>3, Zenon DEF Contract!Conclude, s, t
    <3>5. \E i \in Invocations : TRUE
      BY <1>5, <2>4
    <3> QED
      BY <1>5, <3>4, <3>5 DEF Contract!Next
  <2> QED
    BY <2>3, <2>4
<1>8. ASSUME s.admitted < MaxInvokes, NEW u, Concluding(s, u), Admitting(u, t)
      PROVE  Contract!Next
  <2> DEFINE id == s.admitted + 1
  <2>1. /\ id \in Invocations /\ id \notin DOMAIN s.pending
        /\ at(s, id) = "unknown"
    BY <1>2, <1>3, <1>8 DEF Invocations
  <2>2. /\ DOMAIN t.pending = DOMAIN u.pending \cup {id} /\ u.admitted = s.admitted
        /\ DOMAIN u.pending \subseteq DOMAIN s.pending
        /\ id \notin C /\ C = DOMAIN s.pending \ DOMAIN u.pending
        /\ at(t, id) = "queued" /\ t.fate = u.fate
    BY <1>8, <2>1 DEF Concluding, Admitting
  <2>3. \A i \in Invocations :
          at(t, i) = IF i \in C THEN "concluded"
                     ELSE IF i = id THEN "queued" ELSE at(s, i)
    <3>1. ASSUME NEW i \in Invocations, i \in C
          PROVE  at(t, i) = "concluded"
      BY <1>4, <1>8, <2>2, <3>1 DEF Concluding, Allowed
    <3>2. ASSUME NEW i \in Invocations, i \notin C, i # id
          PROVE  at(t, i) = at(s, i)
      BY <1>8, <2>2, <3>2 DEF Concluding, Admitting
    <3> QED
      BY <2>2, <3>1, <3>2
  <2>4. \A i \in Invocations :
          IF i \notin C THEN t.fate[i] = s.fate[i]
          ELSE t.fate[i] \in (IF at(s, i) = "queued" THEN Contract!Unsent
                              ELSE Contract!Sent)
    BY <1>6, <1>8, <2>2 DEF Concluding, Allowed
  <2> HIDE DEF id
  <2>5. stage[id] = "unknown"
    BY <1>1, <2>1
  <2>6. CASE C = {}
    <3>1. t.fate = s.fate
      BY <1>3, <2>4, <2>6
    <3>2. stage' = [stage EXCEPT ![id] = "queued"]
      BY <1>1, <2>1, <2>3, <2>6
    <3>3. Contract!Admit(id)
      BY <2>5, <3>1, <3>2 DEF Contract!Admit, s, t
    <3> QED
      BY <2>1, <3>3 DEF Contract!Next
  <2>7. CASE C # {}
    <3>1. \A i \in C : stage[i] \in {"queued", "claimed"}
      BY <1>1, <1>5, <1>6
    <3>2. stage' = [i \in Invocations |-> IF i \in C THEN "concluded"
                                          ELSE IF i \in {id} THEN "queued"
                                          ELSE stage[i]]
      BY <1>1, <2>3
    <3>3. \A i \in Invocations :
            IF i \notin C THEN t.fate[i] = s.fate[i]
            ELSE t.fate[i] \in (IF stage[i] = "queued" THEN Contract!Unsent
                                ELSE Contract!Sent)
      BY <1>1, <2>4
    <3>4. \A i \in {id} : stage[i] = "unknown"
      BY <2>5
    <3> HIDE DEF C, at
    <3>5. Contract!Conclude(C, {id})
      BY <1>3, <2>7, <3>1, <3>2, <3>3, <3>4, Zenon DEF Contract!Conclude, s, t
    <3> QED
      BY <1>5, <2>1, <3>5 DEF Contract!Next
  <2> QED
    BY <2>6, <2>7
<1> QED
  BY <1>7, <1>8 DEF Moving, s, t

\* So is taking a request out of the mailbox.
LEMMA ClaimingContract ==
  ASSUME FateInv, Claiming(service, service')
  PROVE  Contract!Next
<1>1. PICK i \in Invocations :
        /\ i \in DOMAIN service.pending /\ ~service.pending[i].claimed
        /\ service'.fate = service.fate
        /\ DOMAIN service'.pending = DOMAIN service.pending
        /\ service'.pending[i].claimed
        /\ \A j \in DOMAIN service.pending \ {i} :
             service'.pending[j] = service.pending[j]
  BY DEF Claiming
<1>2. stage[i] = "queued"
  BY <1>1 DEF stage
<1>3. stage' = [stage EXCEPT ![i] = "claimed"]
  BY <1>1 DEF stage
<1>4. Contract!HandOver(i)
  BY <1>1, <1>2, <1>3 DEF Contract!HandOver
<1> QED
  BY <1>1, <1>4 DEF Contract!Next

\* What an operation concludes and admits keeps fates in their place.
LEMMA MovingFated ==
  ASSUME FateInv, Moving(service, service')
  PROVE  /\ Fated(service)'
         /\ \A i \in Invocations : i <= service.admitted =>
              /\ i <= service'.admitted
              /\ i \in DOMAIN service'.pending =>
                   /\ i \in DOMAIN service.pending
                   /\ service'.pending[i] = service.pending[i]
<1>1. /\ MaxInvokes \in Nat /\ service.admitted \in Nat
      /\ service.admitted <= MaxInvokes
      /\ DOMAIN service.pending \subseteq 1..service.admitted
      /\ service.fate \in [Invocations ->
                             Contract!Unsent \cup Contract!Sent \cup {"none"}]
      /\ \A i \in Invocations : service.fate[i] # "none" => i <= service.admitted
  BY QueryAssumption DEF FateInv, IInv, Sound, Kept, WellFormed, Fated
<1>2. ASSUME NEW u, Concluding(service, u)
      PROVE  /\ u.fate \in [Invocations ->
                              Contract!Unsent \cup Contract!Sent \cup {"none"}]
             /\ \A i \in Invocations : u.fate[i] # "none" => i <= service.admitted
  <2>1. ASSUME NEW i \in Invocations
        PROVE  /\ u.fate[i] \in Contract!Unsent \cup Contract!Sent \cup {"none"}
               /\ u.fate[i] # "none" => i <= service.admitted
    BY <1>1, <1>2, <2>1 DEF Concluding, Allowed, Invocations
  <2>2. u.fate = [i \in Invocations |-> u.fate[i]]
    BY <1>2 DEF Concluding
  <2> QED
    BY <2>1, <2>2
<1>3. CASE Concluding(service, service')
  <2>1. service'.admitted = service.admitted
    BY <1>3 DEF Concluding
  <2>2. Fated(service')
    BY <1>1, <1>2, <1>3, <2>1 DEF Fated
  <2> QED
    BY <1>3, <2>1, <2>2 DEF Concluding, Fated
<1>4. ASSUME service.admitted < MaxInvokes,
             NEW u, Concluding(service, u), Admitting(u, service')
      PROVE  /\ Fated(service')
             /\ \A i \in Invocations : i <= service.admitted =>
                  /\ i <= service'.admitted
                  /\ i \in DOMAIN service'.pending =>
                       /\ i \in DOMAIN service.pending
                       /\ service'.pending[i] = service.pending[i]
  <2>1. service'.admitted = service.admitted + 1 /\ service'.fate = u.fate
    BY <1>4 DEF Concluding, Admitting
  <2>2. Fated(service')
    BY <1>1, <1>2, <1>4, <2>1 DEF Fated, Invocations
  <2> QED
    BY <1>1, <1>4, <2>1, <2>2 DEF Concluding, Admitting, Invocations
<1> QED
  BY <1>3, <1>4 DEF Moving, Fated

\* take_outbound claims an invocation, or moves none.
LEMMA TakeClaims ==
  ASSUME FateInv, Take
  PROVE  /\ \/ Moving(service, service')
            \/ Claiming(service, service')
         /\ Fated(service)' /\ DispatchedIsClaimed'
<1>1. PICK n \in Deliverable(service) :
        hand' = service.outbound[n] /\ service' = TakeOutbound(service, n)
  BY DEF Take
<1> DEFINE m == service.outbound[n]
           u == PopOutbound(service, n)
<1>2. /\ IsState(u) /\ u.admitted = service.admitted
      /\ u.pending = service.pending /\ u.fate = service.fate
  BY DEF PopOutbound, FateInv, IInv, Sound, Kept, WellFormed, IsState, Fields
<1>3. HasFates(service) /\ sent' = sent
  BY DEF FateInv, IInv, Sound, Kept, WellFormed, Fated, HasFates, Take
<1>4. /\ MaxInvokes \in Nat /\ service.admitted \in Nat
      /\ service.admitted <= MaxInvokes
      /\ DOMAIN service.pending \subseteq 1..service.admitted
      /\ \A i \in DOMAIN service.pending : IsEntry(service.pending[i])
  BY QueryAssumption DEF FateInv, IInv, Sound, Kept, WellFormed, Fated
<1>5. CASE m.kind = "provider.invoke_request"
  <2>1. /\ m.id \in DOMAIN service.pending /\ ~service.pending[m.id].claimed
        /\ m.id \in Invocations /\ m.id <= service.admitted
    BY <1>1, <1>4, <1>5 DEF Deliverable, Valid, Invocations
  <2>2. service' = [u EXCEPT !.pending[m.id].claimed = TRUE]
    BY <1>1, <1>5 DEF TakeOutbound
  <2> HIDE DEF u
  <2>3. /\ service'.admitted = service.admitted
        /\ service'.fate = service.fate
        /\ service'.pending = [service.pending EXCEPT ![m.id].claimed = TRUE]
    BY <1>2, <2>2 DEF IsState, Fields
  <2>4. /\ DOMAIN service'.pending = DOMAIN service.pending
        /\ service'.pending[m.id].claimed
        /\ \A j \in DOMAIN service.pending \ {m.id} :
             service'.pending[j] = service.pending[j]
    <3>1. [service.pending[m.id] EXCEPT !.claimed = TRUE].claimed = TRUE
      BY <1>4, <2>1 DEF IsEntry, EntryFields
    <3> QED
      BY <2>1, <2>3, <3>1
  <2>5. Claiming(service, service')
    BY <2>1, <2>3, <2>4 DEF Claiming
  <2>6. Fated(service)'
    BY <2>3 DEF FateInv, Fated
  <2>7. ASSUME NEW i \in Invocations, Dispatched(i)'
        PROVE  /\ i <= service'.admitted
               /\ i \in DOMAIN service'.pending => service'.pending[i].claimed
    <3>1. CASE i \in sent
      BY <3>1, <2>3, <2>4 DEF FateInv, DispatchedIsClaimed, Dispatched
    <3>2. CASE i = m.id
      BY <3>2, <2>1, <2>3, <2>4
    <3> QED
      BY <1>1, <1>3, <2>7, <3>1, <3>2 DEF Dispatched
  <2> QED
    BY <2>5, <2>6, <2>7 DEF DispatchedIsClaimed
<1>6. CASE m.kind # "provider.invoke_request"
  <2>1. service' = u
    BY <1>1, <1>6 DEF TakeOutbound
  <2> HIDE DEF u
  <2>2. Moving(service, service')
    BY <1>2, <1>3, <2>1, UnmovedConcludes DEF Moving
  <2>3. Fated(service)'
    BY <1>2, <2>1 DEF FateInv, Fated
  <2>4. \A i \in Invocations : Dispatched(i)' => i \in sent
    BY <1>1, <1>3, <1>6 DEF Dispatched
  <2>5. DispatchedIsClaimed'
    BY <1>2, <2>1, <2>4 DEF FateInv, DispatchedIsClaimed, Dispatched
  <2> QED
    BY <2>2, <2>3, <2>5
<1> QED
  BY <1>5, <1>6

\* Every step but Take moves invocations on, and dispatches nothing anew.
LEMMA StepMoves ==
  ASSUME FateInv, [Next]_vars, ~Take
  PROVE  /\ Moving(service, service')
         /\ \A i : Dispatched(i)' => Dispatched(i)
<1> DEFINE Idle == \A i : Dispatched(i)' => Dispatched(i)
<1>0. /\ Sound(service) /\ HasFates(service) /\ WellFormed(service)
      /\ DOMAIN service.pending \subseteq Invocations
      /\ \A i \in DOMAIN service.pending :
           Dispatched(i) => service.pending[i].claimed
  <2>1. /\ Sound(service) /\ HasFates(service) /\ WellFormed(service)
        /\ service.admitted <= MaxInvokes
    BY DEF FateInv, IInv, Sound, Kept, WellFormed, Fated, HasFates
  <2>2. DOMAIN service.pending \subseteq Invocations
    BY <2>1, QueryAssumption DEF WellFormed, Invocations
  <2> QED
    BY <2>1, <2>2 DEF FateInv, DispatchedIsClaimed
<1>a. ASSUME NEW outcome \in Contract!Anytime
      PROVE  \A p : outcome \in Allowed(p)
  BY DEF Allowed, Contract!Anytime, Contract!Sent, Contract!Unsent
<1>b. UNCHANGED <<sent, hand>> => Idle
  BY DEF Dispatched
<1>2. ASSUME NEW r \in Http, NEW observed, NEW timeout,
             SubmitHttp(r, timeout, observed)
      PROVE  Moving(service, service') /\ Idle
  <2>1. service'
          \in {Admit(service, r, observed + timeout, observed),
               Refuse(service, r, "closing")}
    BY <1>2 DEF SubmitHttp, SubmitHttpInvoke
  <2>2. service.admitted < MaxInvokes /\ UNCHANGED <<sent, hand>>
    BY <1>2 DEF SubmitHttp, HttpStep, lifecycle
  <2> QED
    BY <1>0, <1>b, <2>1, <2>2, AdmitMoves, RefuseConcludes DEF Moving
<1>3. ASSUME NEW r \in Http, HttpTimer(r) \/ HttpDisconnect(r)
      PROVE  Moving(service, service') /\ Idle
  <2>1. PICK outcome \in Contract!Anytime :
          service' = CancelHttpInvoke(service, r, outcome, clock)
    BY <1>3 DEF HttpTimer, HttpDisconnect, Contract!Anytime
  <2>2. UNCHANGED <<sent, hand>>
    BY <1>3 DEF HttpTimer, HttpDisconnect, HttpStep, lifecycle
  <2>3. Concluding(service, service')
    BY <1>0, <1>a, <2>1, FinishConcludes DEF CancelHttpInvoke
  <2> QED
    BY <1>b, <2>2, <2>3 DEF Moving
<1>4. ASSUME NEW observed, HttpDiscovery(observed)
      PROVE  Moving(service, service') /\ Idle
  BY <1>0, <1>4, <1>b, ExpireConcludes
     DEF HttpDiscovery, HttpStep, lifecycle, Moving
<1>5. ASSUME ApplicationClose \/ FinishRun
      PROVE  Moving(service, service') /\ Idle
  <2> DEFINE u == StopAccepting(service, clock)
             F == DOMAIN u.pending
  <2>1. /\ HasFates(u) /\ u.admitted = service.admitted
        /\ u.pending = service.pending /\ u.fate = service.fate
    BY <1>0 DEF StopAccepting, HasFates, IsState, Fields
  <2>2. service' = Finish(u, F, "closing", clock) /\ UNCHANGED <<sent, hand>>
    <3>1. BeginClose(service, clock) = Finish(u, F, "closing", clock)
      BY <2>1 DEF BeginClose
    <3> HIDE DEF u, F
    <3> QED
      BY <1>5, <3>1 DEF ApplicationClose, FinishRun, HttpStep, lifecycle
  <2>3. "closing" \in Contract!Anytime /\ F \in SUBSET DOMAIN u.pending
    BY DEF Contract!Anytime
  <2> HIDE DEF u, F
  <2>4. Concluding(u, service')
    BY <1>a, <2>1, <2>2, <2>3, FinishConcludes
  <2>5. Concluding(service, u)
    BY <1>0, <2>1, UnmovedConcludes
  <2> QED
    BY <1>b, <2>2, <2>4, <2>5, ConcludingTwice DEF Moving
<1>6. ASSUME NEW r \in Dora, NEW remaining, NEW observed,
             HandleCallerInvoke(r, remaining, observed)
      PROVE  Moving(service, service') /\ Idle
  BY <1>0, <1>6, <1>b, CallerInvokeMoves DEF HandleCallerInvoke, Handled
<1>7. ASSUME NEW id \in Invocations, NEW word \in {"result", "accepted", "error"},
             NEW observed, HandleResponse(id, word, observed)
      PROVE  Moving(service, service') /\ Idle
  <2> DEFINE outcome == IF word = "accepted" THEN "non_terminal" ELSE word
  <2>1. UNCHANGED <<sent, hand>> /\ Dispatched(id)
    BY <1>7 DEF HandleResponse, Handled, Dispatched
  <2>2. CASE id \notin DOMAIN service.pending
    BY <1>0, <1>7, <1>b, <2>1, <2>2, UnmovedConcludes
       DEF HandleResponse, ProviderResponse, Moving
  <2>3. CASE id \in DOMAIN service.pending
    <3>1. outcome \in Contract!Sent
      BY DEF Contract!Sent
    <3>2. \A i \in {id} : outcome \in Allowed(service.pending[i])
      BY <1>0, <2>1, <2>3, <3>1 DEF Allowed
    <3>3. service' = Finish(service, {id}, outcome, observed)
      BY <1>7, <2>3 DEF HandleResponse, ProviderResponse
    <3> HIDE DEF outcome
    <3>4. Concluding(service, service')
      BY <1>0, <2>3, <3>2, <3>3, FinishConcludes
    <3> QED
      BY <1>b, <2>1, <3>4 DEF Moving
  <2> QED
    BY <2>2, <2>3
<1>8. ASSUME NEW reg, NEW wd, NEW route, NEW at, NEW observed,
             \/ HandleRegister(reg, route, at, observed)
             \/ HandleUnregister(wd, route, at, observed)
      PROVE  Moving(service, service') /\ Idle
  <2>1. /\ \E table, gone :
             service' = Mutate(service, route, table, gone, observed)
        /\ UNCHANGED <<sent, hand>>
    BY <1>8 DEF HandleRegister, HandleUnregister, Handled, ProviderRegister,
                ProviderUnregister
  <2> QED
    BY <1>0, <1>b, <2>1, MutateConcludes DEF Moving
<1>9. ASSUME NEW identity, NEW at, HandleStatus(identity, at)
      PROVE  Moving(service, service') /\ Idle
  <2> DEFINE t == ExpireLeases(service, at)
  <2>1. Concluding(service, t) /\ HasFates(t)
    BY <1>0, ExpireConcludes
  <2>2. \A x : LET u == [t EXCEPT !.statuses = x]
               IN  /\ u.admitted = t.admitted /\ u.pending = t.pending
                   /\ u.fate = t.fate
    BY <2>1 DEF HasFates, IsState, Fields
  <2>3. UNCHANGED <<sent, hand>>
        /\ \E x : service' = [t EXCEPT !.statuses = x]
    BY <1>9 DEF HandleStatus, Handled, EndpointStatus
  <2> HIDE DEF t
  <2>4. Concluding(t, service')
    BY <2>1, <2>2, <2>3, UnmovedConcludes
  <2> QED
    BY <1>b, <2>1, <2>3, <2>4, ConcludingTwice DEF Moving
<1>10. ASSUME NEW observed, SweepOnce(observed)
       PROVE  Moving(service, service') /\ Idle
  <2> DEFINE t == ExpireLeases(service, observed)
             F == {i \in DOMAIN t.pending : t.pending[i].deadline <= observed}
  <2>1. Concluding(service, t) /\ HasFates(t)
    BY <1>0, ExpireConcludes
  <2>2. /\ service' = Finish(t, F, "timeout", observed)
        /\ UNCHANGED <<sent, hand>>
    BY <1>10 DEF SweepOnce, Sweep
  <2>3. "timeout" \in Contract!Anytime /\ F \in SUBSET DOMAIN t.pending
    BY DEF Contract!Anytime
  <2> HIDE DEF t, F
  <2>4. Concluding(t, service')
    BY <1>a, <2>1, <2>2, <2>3, FinishConcludes
  <2> QED
    BY <1>b, <2>1, <2>2, <2>4, ConcludingTwice DEF Moving
<1>11. ASSUME EndDrain PROVE Moving(service, service') /\ Idle
  <2>1. /\ service' = service \/ service' = DiscardOutbound(service)
        /\ UNCHANGED <<sent, hand>>
    BY <1>11 DEF EndDrain
  <2>2. /\ service'.admitted = service.admitted
        /\ service'.pending = service.pending /\ service'.fate = service.fate
    BY <1>0, <2>1 DEF DiscardOutbound, HasFates, IsState, Fields
  <2> QED
    BY <1>0, <1>b, <2>1, <2>2, UnmovedConcludes DEF Moving
<1>12. ASSUME HandedOver,
              sent' \in IF hand.kind = "provider.invoke_request"
                        THEN {sent, sent \cup {hand.id}} ELSE {sent}
       PROVE  Idle
  <2>1. hand'.kind # "provider.invoke_request"
    BY <1>12 DEF HandedOver, Nothing
  <2> QED
    BY <1>12, <2>1 DEF Dispatched
<1>13. ASSUME SendOk PROVE Moving(service, service') /\ Idle
  <2>1. Idle
    BY <1>12, <1>13 DEF SendOk
  <2>2. service' = service
    BY <1>13 DEF SendOk
  <2> QED
    BY <1>0, <2>1, <2>2, UnmovedConcludes DEF Moving
<1>14. ASSUME SendFails PROVE Moving(service, service') /\ Idle
  <2>1. Idle
    BY <1>12, <1>14 DEF SendFails
  <2>2. service' = OutputFailed(service, hand, clock)
    BY <1>14 DEF SendFails
  <2>3. CASE /\ hand.kind = "provider.invoke_request"
             /\ hand.id \in DOMAIN service.pending
    <3>1. \A i \in {hand.id} : "transport" \in Allowed(service.pending[i])
      BY <1>0, <2>3 DEF Dispatched, Allowed, Contract!Sent
    <3>2. service' = Finish(service, {hand.id}, "transport", clock)
      BY <2>2, <2>3 DEF OutputFailed
    <3>3. Concluding(service, service')
      BY <1>0, <2>3, <3>1, <3>2, FinishConcludes
    <3> QED
      BY <2>1, <3>3 DEF Moving
  <2>4. CASE ~(/\ hand.kind = "provider.invoke_request"
               /\ hand.id \in DOMAIN service.pending)
    BY <1>0, <2>1, <2>2, <2>4, UnmovedConcludes DEF OutputFailed, Moving
  <2> QED
    BY <2>3, <2>4
<1>15. ASSUME HandleInput PROVE Moving(service, service') /\ Idle
  BY <1>6, <1>7, <1>8, <1>9, <1>15 DEF HandleInput
<1>16. ASSUME PollIdle \/ Tick \/ UNCHANGED vars
       PROVE  Moving(service, service') /\ Idle
  BY <1>0, <1>b, <1>16, UnmovedConcludes
     DEF PollIdle, Handled, Tick, vars, lifecycle, Moving
<1> HIDE DEF Idle
<1>18. ASSUME HttpThreads PROVE Moving(service, service') /\ Idle
  BY <1>2, <1>3, <1>4, <1>18 DEF HttpThreads
<1>19. ASSUME Lifecycle PROVE Moving(service, service') /\ Idle
  BY <1>5, <1>10, <1>11, <1>13, <1>14, <1>15, <1>16, <1>19 DEF Lifecycle
<1>17. Moving(service, service') /\ Idle
  BY <1>5, <1>16, <1>18, <1>19 DEF Next
<1> QED
  BY <1>17 DEF Idle

\* FateInv is an invariant.
LEMMA AlwaysFated == Spec => []FateInv
<1>1. Init => FateInv
  <2> SUFFICES ASSUME Init PROVE FateInv
    OBVIOUS
  <2>1. /\ service.admitted = 0
        /\ service.fate = [i \in Invocations |-> "none"]
    BY DEF Init, NewService
  <2>2. Fated(service)
    BY <2>1, QueryAssumption DEF Fated
  <2>3. \A i \in Invocations : ~Dispatched(i)
    BY DEF Init, Nothing, Dispatched
  <2> QED
    BY <2>2, <2>3, InitSound DEF FateInv, DispatchedIsClaimed
<1>2. FateInv /\ [Next]_vars => FateInv'
  <2> SUFFICES ASSUME FateInv, [Next]_vars PROVE FateInv'
    OBVIOUS
  <2>1. IInv'
    BY StepSound DEF FateInv
  <2>2. CASE Take
    BY <2>1, <2>2, TakeClaims DEF FateInv
  <2>3. CASE ~Take
    <3>1. /\ Moving(service, service')
          /\ \A i \in Invocations : Dispatched(i)' => Dispatched(i)
      BY <2>3, StepMoves
    <3>2. /\ Fated(service)'
          /\ \A i \in Invocations : i <= service.admitted =>
               /\ i <= service'.admitted
               /\ i \in DOMAIN service'.pending =>
                    /\ i \in DOMAIN service.pending
                    /\ service'.pending[i] = service.pending[i]
      BY <3>1, MovingFated
    <3>3. DispatchedIsClaimed'
      BY <3>1, <3>2 DEF FateInv, DispatchedIsClaimed
    <3> QED
      BY <2>1, <3>2, <3>3 DEF FateInv
  <2> QED
    BY <2>2, <2>3
<1> QED
  BY <1>1, <1>2, PTL DEF Spec

\* The threads and the service together implement the contract: every
\* admitted invocation is handed over at most once and concluded once, in a
\* way that fits whether it was handed over.
THEOREM GatewayImplementsContract == Spec => ImplementsContract
<1>1. Init => Contract!Init
  <2> SUFFICES ASSUME Init PROVE Contract!Init
    OBVIOUS
  <2>1. /\ service.pending = <<>>
        /\ service.fate = [i \in Invocations |-> "none"]
    BY DEF Init, NewService
  <2>2. stage = [i \in Invocations |-> "unknown"]
    BY <2>1 DEF stage
  <2> QED
    BY <2>1, <2>2 DEF Contract!Init
<1>2. FateInv /\ [Next]_vars => [Contract!Next]_(Contract!vars)
  <2> SUFFICES ASSUME FateInv, [Next]_vars
               PROVE  [Contract!Next]_(Contract!vars)
    OBVIOUS
  <2>1. Moving(service, service') \/ Claiming(service, service')
    BY StepMoves, TakeClaims
  <2>2. Fated(service)'
    BY StepMoves, TakeClaims, MovingFated
  <2> QED
    BY <2>1, <2>2, MovingContract, ClaimingContract
<1> QED
  BY <1>1, <1>2, AlwaysFated, PTL DEF Spec, ImplementsContract, Contract!Spec

-----------------------------------------------------------------------------
(* The mailbox.                                                            *)

\* The replies to r in a queue, and all that r is going to be sent: replies
\* in the mailbox, and those its invocations in flight will end in.
RepliesIn(q, r) ==
  {n \in DOMAIN q : q[n].kind = "caller.invoke_response" /\ q[n].request = r}
OfCaller(s, F, r) == {i \in F : s.pending[i].request = r}
InFlight(s, r) == OfCaller(s, DOMAIN s.pending, r)
Outstanding(s, r) ==
  Cardinality(InFlight(s, r)) + Cardinality(RepliesIn(s.outbound, r))

OfDora(s, F) == {i \in F : s.pending[i].request \in Dora}
DoraOf(s) == OfDora(s, DOMAIN s.pending)

Typed(s) ==
  /\ Table!IsLeaseTable(s.leases)
  /\ s.statuses \subseteq Identity
  /\ s.pending \in [DOMAIN s.pending -> Pending]
  /\ s.outbound \in Seq(Messages)
  /\ s.future \in [Http -> Answers \cup {"none"}]
  /\ s.admitted <= MaxInvokes

\* k slots are held beside those of the Dora invocations in flight.
Balanced(s, k) ==
  /\ s.reserved = Cardinality(DoraOf(s)) + k
  /\ Len(s.outbound) + s.reserved <= Capacity

\* Requests in the mailbox are of invocations that were admitted, and those
\* in flight and unclaimed are there once.
QueuedOnce(s) ==
  /\ \A n \in DOMAIN s.outbound :
       s.outbound[n].kind = "provider.invoke_request" =>
         s.outbound[n].id <= s.admitted
  /\ \A i \in DOMAIN s.pending :
       ~s.pending[i].claimed =>
         \E n \in DOMAIN s.outbound :
           \A k \in DOMAIN s.outbound : s.outbound[k] = Invoke(i) <=> k = n

Boxed(s, k) == Typed(s) /\ Balanced(s, k) /\ QueuedOnce(s)

\* What a message says of itself.
LEMMA MessageKinds ==
  ASSUME NEW m \in Messages
  PROVE  /\ m.kind \in {"provider.invoke_request", "caller.invoke_response",
                        "provider.registry_response"}
         /\ m.kind = "provider.invoke_request" =>
              m.id \in Invocations /\ m = Invoke(m.id)
         /\ m.kind = "caller.invoke_response" => m.request \in Dora
BY DEF Messages, Invoke

\* The messages the service makes.
LEMMA MessageTypes ==
  /\ \A i \in Invocations : Invoke(i) \in Messages
  /\ \A r \in Dora, a \in Answers : Reply(r, a) \in Messages
  /\ \A e \in Endpoints : RegistryResponse(e) \in Messages
  /\ \A i, r, a : Invoke(i) # Reply(r, a)
  /\ \A i, e : Invoke(i) # RegistryResponse(e)
  /\ \A i, j : Invoke(i) = Invoke(j) => i = j
  /\ \A i : Invoke(i).kind = "provider.invoke_request" /\ Invoke(i).id = i
  /\ \A r, a : /\ Reply(r, a).kind = "caller.invoke_response"
               /\ Reply(r, a).request = r
  /\ \A e : RegistryResponse(e).kind = "provider.registry_response"
BY DEF Messages, Invoke, Reply, RegistryResponse

\* Replies in a queue can be counted.
LEMMA RepliesFinite ==
  ASSUME NEW q \in Seq(Messages), NEW r
  PROVE  /\ IsFiniteSet(RepliesIn(q, r))
         /\ Cardinality(RepliesIn(q, r)) \in Nat
<1>1. IsFiniteSet(1..Len(q)) /\ DOMAIN q = 1..Len(q)
  BY FS_Interval, LenProperties
<1>2. RepliesIn(q, r) \in SUBSET (1..Len(q))
  BY <1>1 DEF RepliesIn
<1> QED
  BY <1>1, <1>2, FS_Subset, FS_CardinalityType

\* Replies add up when queues are joined.
LEMMA RepliesJoined ==
  ASSUME NEW p \in Seq(Messages), NEW q \in Seq(Messages), NEW r
  PROVE  Cardinality(RepliesIn(p \o q, r)) =
           Cardinality(RepliesIn(p, r)) + Cardinality(RepliesIn(q, r))
<1> DEFINE A == RepliesIn(p, r)
           B == RepliesIn(q, r)
           f == [n \in B |-> Len(p) + n]
           C == {f[n] : n \in B}
<1>1. /\ Len(p) \in Nat /\ Len(q) \in Nat
      /\ DOMAIN p = 1..Len(p) /\ DOMAIN q = 1..Len(q)
      /\ DOMAIN (p \o q) = 1..Len(p) + Len(q)
      /\ \A n \in 1..Len(p) : (p \o q)[n] = p[n]
      /\ \A n \in 1..Len(q) : (p \o q)[Len(p) + n] = q[n]
  <2>1. /\ p \o q \in Seq(Messages) /\ Len(p \o q) = Len(p) + Len(q)
        /\ \A n \in 1..Len(p) + Len(q) :
             (p \o q)[n] = IF n <= Len(p) THEN p[n] ELSE q[n - Len(p)]
    BY ConcatProperties
  <2>2. Len(p) \in Nat /\ Len(q) \in Nat
    BY LenProperties
  <2>3. ASSUME NEW n \in 1..Len(q)
        PROVE  (p \o q)[Len(p) + n] = q[n]
    <3>1. Len(p) + n \in 1..Len(p) + Len(q) /\ ~(Len(p) + n <= Len(p))
          /\ Len(p) + n - Len(p) = n
      BY <2>2
    <3> QED
      BY <2>1, <3>1
  <2> QED
    BY <2>1, <2>2, <2>3, LenProperties
<1>2. A \subseteq 1..Len(p) /\ B \subseteq 1..Len(q)
  BY <1>1 DEF RepliesIn
<1>3. RepliesIn(p \o q, r) = A \cup C
  <2>1. ASSUME NEW n \in RepliesIn(p \o q, r) PROVE n \in A \cup C
    <3>1. n \in 1..Len(p) + Len(q)
      BY <1>1, <2>1 DEF RepliesIn
    <3>2. CASE n \in 1..Len(p)
      BY <1>1, <2>1, <3>2 DEF RepliesIn
    <3>3. CASE n \notin 1..Len(p)
      <4>1. n - Len(p) \in 1..Len(q) /\ n = Len(p) + (n - Len(p))
        BY <1>1, <3>1, <3>3
      <4>2. n - Len(p) \in B
        BY <1>1, <2>1, <4>1 DEF RepliesIn
      <4> QED
        BY <4>1, <4>2
    <3> QED
      BY <3>2, <3>3
  <2>2. A \subseteq RepliesIn(p \o q, r)
    BY <1>1 DEF RepliesIn
  <2>3. ASSUME NEW n \in B PROVE f[n] \in RepliesIn(p \o q, r)
    <3>1. n \in 1..Len(q) /\ Len(p) + n \in 1..Len(p) + Len(q)
      BY <1>1, <1>2, <2>3
    <3> QED
      BY <1>1, <2>3, <3>1 DEF RepliesIn
  <2> HIDE DEF A, B, f
  <2> QED
    BY <2>1, <2>2, <2>3
<1>4. A \cap C = {}
  BY <1>1, <1>2
<1>5. IsFiniteSet(A) /\ IsFiniteSet(B)
  BY RepliesFinite
<1>6. f \in Bijection(B, C)
  <2>1. f \in [B -> C]
    OBVIOUS
  <2>2. \A a, b \in B : f[a] = f[b] => a = b
    BY <1>1, <1>2
  <2> HIDE DEF f, B
  <2> QED
    BY <2>1, <2>2 DEF Bijection, Injection, Surjection, IsInjective
<1> HIDE DEF A, B, C, f
<1>7. IsFiniteSet(C) /\ Cardinality(C) = Cardinality(B)
  BY <1>5, <1>6, FS_Bijection DEF ExistsBijection
<1>8. Cardinality(A \cup C) = Cardinality(A) + Cardinality(C)
  <2>1. Cardinality(A \cup C) =
          Cardinality(A) + Cardinality(C) - Cardinality(A \cap C)
    BY <1>5, <1>7, FS_Union
  <2>2. Cardinality(A \cap C) = 0
    BY <1>4, FS_EmptySet
  <2>3. Cardinality(A) \in Nat /\ Cardinality(C) \in Nat
    BY <1>5, <1>7, FS_CardinalityType
  <2> QED
    BY <2>1, <2>2, <2>3
<1> QED
  BY <1>3, <1>7, <1>8 DEF A, B

\* SetToSeq lists every element of a finite set, once.
LEMMA ListedOnce ==
  ASSUME NEW S, IsFiniteSet(S)
  PROVE  /\ Cardinality(S) \in Nat
         /\ SetToSeq(S) \in [1..Cardinality(S) -> S]
         /\ IsInjective(SetToSeq(S))
         /\ \A x \in S : \E n \in 1..Cardinality(S) : SetToSeq(S)[n] = x
<1> DEFINE c == Cardinality(S)
<1>1. c \in Nat /\ Bijection(1..c, S) # {}
  BY FS_CardinalityType DEF ExistsBijection
<1>2. \E f \in [1..c -> S] : IsInjective(f)
  BY <1>1 DEF Bijection, Injection
<1>3. SetToSeq(S) \in [1..c -> S] /\ IsInjective(SetToSeq(S))
  BY <1>2 DEF SetToSeq
<1>4. IsFiniteSet(1..c) /\ Cardinality(1..c) = c
  BY <1>1, FS_Interval
<1>5. SetToSeq(S) \in Surjection(1..c, S)
  <2>1. SetToSeq(S) \in Injection(1..c, S)
    BY <1>3 DEF Injection
  <2> QED
    BY <1>4, <2>1, FS_Injection
<1> QED
  BY <1>1, <1>3, <1>5 DEF Surjection

\* The answer _finish_pending_locked gives, and the replies it queues.
AnswerOf(s, i, outcome, observed) ==
  IF observed >= s.pending[i].deadline THEN "timeout" ELSE outcome
RepliesFor(s, F, outcome, observed) ==
  LET callers == SetToSeq({i \in F : s.pending[i].request \in Dora})
  IN [n \in DOMAIN callers |-> Reply(s.pending[callers[n]].request,
                                     AnswerOf(s, callers[n], outcome, observed))]

\* Finish gives back the slots of the replies that it queues.
LEMMA FinishMailbox ==
  ASSUME NEW s, IsState(s), NEW F, NEW outcome, NEW observed
  PROVE  LET t == Finish(s, F, outcome, observed)
             replies == RepliesFor(s, F, outcome, observed)
         IN  /\ t.outbound = s.outbound \o replies
             /\ t.reserved = s.reserved - Len(replies)
<1> DEFINE replies == RepliesFor(s, F, outcome, observed)
           p == Post(s, replies)
<1>1. IsState(p)
  BY PostAlike DEF Alike
<1>2. p.outbound = s.outbound \o replies /\ p.reserved = s.reserved - Len(replies)
  BY DEF Post, IsState, Fields
<1> HIDE DEF p
<1>3. \A pending, logical, future, fate :
        LET t == [p EXCEPT !.pending = pending, !.logical = logical,
                           !.future = future, !.fate = fate]
        IN  t.outbound = p.outbound /\ t.reserved = p.reserved
  BY <1>1 DEF IsState, Fields
<1>4. \E pending, logical, future, fate :
        Finish(s, F, outcome, observed) =
          [p EXCEPT !.pending = pending, !.logical = logical,
                    !.future = future, !.fate = fate]
  BY DEF Finish, p, RepliesFor, AnswerOf
<1> QED
  BY <1>2, <1>3, <1>4

\* An answer that comes too late is a timeout.
LEMMA AnswersTyped ==
  ASSUME NEW s, NEW i, NEW outcome \in Answers, NEW observed
  PROVE  AnswerOf(s, i, outcome, observed) \in Answers
BY DEF AnswerOf, Answers

\* Invocations in flight can be counted.
LEMMA PendingFinite ==
  ASSUME NEW s, WellFormed(s), NEW F \in SUBSET DOMAIN s.pending
  PROVE  IsFiniteSet(F) /\ Cardinality(F) \in Nat
<1>1. IsFiniteSet(1..s.admitted) /\ F \in SUBSET (1..s.admitted)
  BY FS_Interval DEF WellFormed
<1> QED
  BY <1>1, FS_Subset, FS_CardinalityType

\* One reply is queued for each Dora invocation that is finished.
LEMMA RepliesQueued ==
  ASSUME NEW s, WellFormed(s), Identified(s), NEW F \in SUBSET DOMAIN s.pending,
         NEW outcome \in Answers, NEW observed
  PROVE  LET replies == RepliesFor(s, F, outcome, observed)
         IN  /\ replies \in Seq(Messages)
             /\ Len(replies) = Cardinality(OfDora(s, F))
             /\ \A n \in 1..Len(replies) :
                  replies[n].kind = "caller.invoke_response"
             /\ \A r \in Dora : Cardinality(RepliesIn(replies, r)) =
                                  Cardinality(OfCaller(s, F, r))
<1> DEFINE D == {i \in F : s.pending[i].request \in Dora}
           c == Cardinality(D)
           callers == SetToSeq(D)
           e(n) == Reply(s.pending[callers[n]].request,
                         AnswerOf(s, callers[n], outcome, observed))
           replies == [n \in 1..c |-> e(n)]
<1>1. IsFiniteSet(D)
  BY PendingFinite
<1>2. /\ c \in Nat /\ callers \in [1..c -> D] /\ IsInjective(callers)
      /\ \A i \in D : \E n \in 1..c : callers[n] = i
  BY <1>1, ListedOnce
<1>3. RepliesFor(s, F, outcome, observed) = replies
  BY <1>2 DEF RepliesFor
<1>4. \A n \in 1..c : callers[n] \in F /\ s.pending[callers[n]].request \in Dora
  BY <1>2
<1> HIDE DEF callers, c
<1>5. ASSUME NEW n \in 1..c
      PROVE  /\ e(n) \in Messages /\ e(n).kind = "caller.invoke_response"
             /\ e(n).request = s.pending[callers[n]].request
  BY <1>4, AnswersTyped, MessageTypes
<1>6. replies \in Seq(Messages) /\ Len(replies) = c /\ DOMAIN replies = 1..c
  <2> HIDE DEF e
  <2>1. replies \in Seq(Messages)
    BY <1>2, <1>5, IsASeq
  <2>2. DOMAIN replies = 1..c
    OBVIOUS
  <2> HIDE DEF replies
  <2> QED
    BY <1>2, <2>1, <2>2, LenProperties
<1>7. \A n \in 1..c : replies[n] = e(n)
  OBVIOUS
<1> HIDE DEF replies, e
<1>8. ASSUME NEW r \in Dora
      PROVE  Cardinality(RepliesIn(replies, r)) = Cardinality(OfCaller(s, F, r))
  <2> DEFINE W == {i \in F : s.pending[i].request = r}
             N == RepliesIn(replies, r)
  <2>1. N = {n \in 1..c : callers[n] \in W}
    BY <1>4, <1>5, <1>6, <1>7 DEF RepliesIn
  <2>2. CASE W = {}
    BY <2>1, <2>2 DEF OfCaller
  <2>3. ASSUME NEW i \in W PROVE Cardinality(N) = Cardinality(W)
    <3>1. W = {i}
      BY <2>3 DEF Identified
    <3>2. PICK n \in 1..c : callers[n] = i
      BY <1>2, <2>3
    <3>3. N = {n}
      BY <1>2, <2>1, <3>1, <3>2 DEF IsInjective
    <3> QED
      BY <3>1, <3>3, FS_Singleton
  <2> QED
    BY <2>2, <2>3 DEF OfCaller
<1> QED
  BY <1>3, <1>5, <1>6, <1>7, <1>8 DEF c, OfDora

\* HTTP callers are given answers.
LEMMA FinishFutures ==
  ASSUME NEW s, IsState(s), NEW F, NEW outcome \in Answers, NEW observed,
         s.future \in [Http -> Answers \cup {"none"}]
  PROVE  Finish(s, F, outcome, observed).future
           \in [Http -> Answers \cup {"none"}]
<1> DEFINE waiting(r) == {i \in F : s.pending[i].request = r}
           pick(r) == CHOOSE i \in waiting(r) : TRUE
           future == [r \in Http |->
                        IF s.future[r] = "none" /\ waiting(r) # {}
                        THEN AnswerOf(s, pick(r), outcome, observed)
                        ELSE s.future[r]]
           p == Post(s, RepliesFor(s, F, outcome, observed))
<1>1. IsState(p)
  BY PostAlike DEF Alike
<1> HIDE DEF p
<1>2. \A pending, logical, x, fate :
        [p EXCEPT !.pending = pending, !.logical = logical,
                  !.future = x, !.fate = fate].future = x
  BY <1>1 DEF IsState, Fields
<1>3. \E pending, logical, fate :
        Finish(s, F, outcome, observed) =
          [p EXCEPT !.pending = pending, !.logical = logical,
                    !.future = future, !.fate = fate]
  BY DEF Finish, p, RepliesFor, AnswerOf
<1>4. \A r \in Http : AnswerOf(s, pick(r), outcome, observed) \in Answers
  BY AnswersTyped
<1>5. future \in [Http -> Answers \cup {"none"}]
  <2> HIDE DEF waiting, pick
  <2> QED
    BY <1>4
<1> HIDE DEF future
<1> QED
  BY <1>2, <1>3, <1>5

\* Finishing turns held slots into replies, whatever else the mailbox holds.
LEMMA FinishBoxed ==
  ASSUME NEW s, WellFormed(s), Identified(s), NEW k \in Nat, Boxed(s, k),
         NEW F \in SUBSET DOMAIN s.pending,
         NEW outcome \in Answers, NEW observed
  PROVE  LET t == Finish(s, F, outcome, observed)
         IN  /\ Boxed(t, k)
             /\ \A r \in Dora : Outstanding(t, r) = Outstanding(s, r)
             /\ Len(t.outbound) + t.reserved = Len(s.outbound) + s.reserved
<1> DEFINE t == Finish(s, F, outcome, observed)
           D == OfDora(s, F)
           replies == RepliesFor(s, F, outcome, observed)
<1>1. WellFormed(s) /\ Identified(s) /\ IsState(s)
  BY DEF WellFormed
<1>2. /\ t.outbound = s.outbound \o replies
      /\ t.reserved = s.reserved - Len(replies)
  BY <1>1, FinishMailbox
<1>3. /\ replies \in Seq(Messages) /\ Len(replies) = Cardinality(D)
      /\ \A n \in 1..Len(replies) : replies[n].kind = "caller.invoke_response"
      /\ \A r \in Dora : Cardinality(RepliesIn(replies, r)) =
                           Cardinality(OfCaller(s, F, r))
  <2> HIDE DEF replies
  <2>1. replies = RepliesFor(s, F, outcome, observed)
    BY DEF replies
  <2> QED
    BY <1>1, <2>1, RepliesQueued
<1>4. /\ Finished(s, F, t)
      /\ t.future \in [Http -> Answers \cup {"none"}]
  BY <1>1, FinishFields, FinishFutures DEF Boxed, Typed
<1> HIDE DEF t, replies
<1>5. /\ DOMAIN t.pending = DOMAIN s.pending \ F
      /\ \A i \in DOMAIN t.pending : t.pending[i] = s.pending[i]
      /\ t.pending = [i \in DOMAIN t.pending |-> t.pending[i]]
      /\ t.admitted = s.admitted /\ t.leases = s.leases
      /\ t.statuses = s.statuses
  BY <1>4 DEF Finished, Restrict
<1>6. /\ s.outbound \in Seq(Messages) /\ Len(s.outbound) \in Nat
      /\ DOMAIN s.outbound = 1..Len(s.outbound) /\ Len(replies) \in Nat
      /\ t.outbound \in Seq(Messages)
      /\ Len(t.outbound) = Len(s.outbound) + Len(replies)
      /\ DOMAIN t.outbound = 1..Len(s.outbound) + Len(replies)
      /\ \A n \in 1..Len(s.outbound) + Len(replies) :
           t.outbound[n] = IF n <= Len(s.outbound) THEN s.outbound[n]
                           ELSE replies[n - Len(s.outbound)]
  <2>1. s.outbound \in Seq(Messages)
    BY DEF Boxed, Typed
  <2>2. Len(s.outbound) \in Nat /\ Len(replies) \in Nat
        /\ DOMAIN s.outbound = 1..Len(s.outbound)
    BY <1>3, <2>1, LenProperties
  <2>3. /\ t.outbound \in Seq(Messages)
        /\ Len(t.outbound) = Len(s.outbound) + Len(replies)
        /\ \A n \in 1..Len(s.outbound) + Len(replies) :
             t.outbound[n] = IF n <= Len(s.outbound) THEN s.outbound[n]
                             ELSE replies[n - Len(s.outbound)]
    <3> DEFINE q == s.outbound \o replies
    <3>1. /\ q \in Seq(Messages) /\ Len(q) = Len(s.outbound) + Len(replies)
          /\ \A n \in 1..Len(s.outbound) + Len(replies) :
               q[n] = IF n <= Len(s.outbound) THEN s.outbound[n]
                      ELSE replies[n - Len(s.outbound)]
      BY <1>3, <2>1, ConcatProperties
    <3> HIDE DEF q
    <3>2. t.outbound = q
      BY <1>2 DEF q
    <3> QED
      BY <3>1, <3>2
  <2> QED
    BY <2>1, <2>2, <2>3, LenProperties
<1>7. Typed(t)
  <2>1. ASSUME NEW i \in DOMAIN t.pending PROVE t.pending[i] \in Pending
    BY <1>5, <2>1 DEF Boxed, Typed
  <2> QED
    BY <1>4, <1>5, <1>6, <2>1 DEF Boxed, Typed
<1>8. \A n \in 1..Len(s.outbound) + Len(replies) :
        \/ n \in 1..Len(s.outbound) /\ t.outbound[n] = s.outbound[n]
        \/ t.outbound[n].kind = "caller.invoke_response"
  <2>1. ASSUME NEW n \in 1..Len(s.outbound) + Len(replies), ~(n <= Len(s.outbound))
        PROVE  t.outbound[n].kind = "caller.invoke_response"
    <3>1. n - Len(s.outbound) \in 1..Len(replies)
      BY <1>6, <2>1
    <3> QED
      BY <1>3, <1>6, <2>1, <3>1
  <2> QED
    BY <1>6, <2>1
<1>9. QueuedOnce(t)
  <2>1. ASSUME NEW n \in DOMAIN t.outbound,
               t.outbound[n].kind = "provider.invoke_request"
        PROVE  t.outbound[n].id <= t.admitted
    BY <1>5, <1>6, <1>8, <2>1 DEF Boxed, QueuedOnce
  <2>2. ASSUME NEW i \in DOMAIN t.pending, ~t.pending[i].claimed
        PROVE  \E n \in DOMAIN t.outbound :
                 \A m \in DOMAIN t.outbound : t.outbound[m] = Invoke(i) <=> m = n
    <3>1. PICK n \in DOMAIN s.outbound :
            \A m \in DOMAIN s.outbound : s.outbound[m] = Invoke(i) <=> m = n
      BY <1>5, <2>2 DEF Boxed, QueuedOnce
    <3>2. n \in DOMAIN t.outbound /\ t.outbound[n] = Invoke(i)
      BY <1>6, <3>1
    <3>3. ASSUME NEW m \in DOMAIN t.outbound, t.outbound[m] = Invoke(i)
          PROVE  m = n
      <4>1. Invoke(i).kind # "caller.invoke_response"
        BY DEF Invoke
      <4> QED
        BY <1>6, <1>8, <3>1, <3>3, <4>1
    <3> QED
      BY <3>2, <3>3
  <2> QED
    BY <2>1, <2>2 DEF QueuedOnce
<1>10. Balanced(t, k)
  <2>1. DoraOf(t) = DoraOf(s) \ D
    BY <1>5 DEF DoraOf, OfDora
  <2>2. D \in SUBSET DoraOf(s) /\ DoraOf(s) \in SUBSET DOMAIN s.pending
    BY DEF DoraOf, OfDora
  <2>3. IsFiniteSet(DoraOf(s)) /\ Cardinality(DoraOf(s)) \in Nat
        /\ Cardinality(D) \in Nat
    BY <1>1, <2>2, PendingFinite
  <2>4. DoraOf(s) \cap D = D
    BY <2>2
  <2> HIDE DEF D
  <2>5. Cardinality(DoraOf(t)) = Cardinality(DoraOf(s)) - Cardinality(D)
    BY <2>1, <2>3, <2>4, FS_Difference
  <2>6. /\ s.reserved = Cardinality(DoraOf(s)) + k
        /\ Len(s.outbound) + s.reserved <= Capacity
    BY DEF Boxed, Balanced
  <2> QED
    BY <1>2, <1>3, <1>6, <2>3, <2>5, <2>6, QueryAssumption DEF Balanced
<1>11. Len(t.outbound) + t.reserved = Len(s.outbound) + s.reserved
  <2>1. s.reserved \in Nat
    <3>1. Cardinality(DoraOf(s)) \in Nat
      BY <1>1, PendingFinite DEF DoraOf, OfDora
    <3> QED
      BY <3>1 DEF Boxed, Balanced
  <2> QED
    BY <1>2, <1>6, <2>1
<1>12. ASSUME NEW r \in Dora
       PROVE  Outstanding(t, r) = Outstanding(s, r)
  <2> DEFINE W == OfCaller(s, F, r)
             A == InFlight(s, r)
             B == InFlight(t, r)
  <2>1. B = A \ W /\ W \in SUBSET A /\ A \in SUBSET DOMAIN s.pending
    BY <1>5 DEF InFlight, OfCaller
  <2>2. IsFiniteSet(A) /\ Cardinality(A) \in Nat /\ Cardinality(W) \in Nat
    BY <1>1, PendingFinite DEF InFlight, OfCaller
  <2>3. Cardinality(RepliesIn(replies, r)) = Cardinality(W)
    BY <1>3
  <2>4. Cardinality(RepliesIn(t.outbound, r)) =
          Cardinality(RepliesIn(s.outbound, r)) + Cardinality(RepliesIn(replies, r))
    BY <1>2, <1>3, <1>6, RepliesJoined
  <2>5. Cardinality(RepliesIn(s.outbound, r)) \in Nat
    BY <1>6, RepliesFinite
  <2>6. A \cap W = W
    BY <2>1
  <2> HIDE DEF W, A, B
  <2>7. Cardinality(B) = Cardinality(A) - Cardinality(W)
    <3>1. Cardinality(A \ W) = Cardinality(A) - Cardinality(A \cap W)
      BY <2>2, FS_Difference
    <3> QED
      BY <2>1, <2>6, <3>1
  <2> QED
    BY <2>2, <2>3, <2>4, <2>5, <2>7 DEF Outstanding, A, B
<1> QED
  BY <1>7, <1>9, <1>10, <1>11, <1>12 DEF Boxed, t

-----------------------------------------------------------------------------
(* What each operation does to the mailbox.                                *)

\* t owes every Dora caller what s does, and its mailbox is as full.
Quiet(s, t) ==
  /\ \A r \in Dora : Outstanding(t, r) = Outstanding(s, r)
  /\ Len(t.outbound) + t.reserved = Len(s.outbound) + s.reserved

\* t differs from s in its leases and reports at most.
LEMMA SameMailbox ==
  ASSUME NEW s, NEW t, NEW k, Boxed(s, k),
         Table!IsLeaseTable(t.leases), t.statuses \subseteq Identity,
         t.pending = s.pending, t.outbound = s.outbound,
         t.reserved = s.reserved, t.future = s.future, t.admitted = s.admitted
  PROVE  Boxed(t, k) /\ Quiet(s, t)
<1>1. Typed(t)
  BY DEF Boxed, Typed
<1>2. Balanced(t, k)
  BY DEF Boxed, Balanced, DoraOf, OfDora
<1>3. QueuedOnce(t)
  BY DEF Boxed, QueuedOnce
<1>4. \A r : Outstanding(t, r) = Outstanding(s, r)
  BY DEF Outstanding, InFlight, OfCaller, RepliesIn
<1> QED
  BY <1>1, <1>2, <1>3, <1>4 DEF Boxed, Quiet

\* Dropping lapsed leases leaves a lease table.
LEMMA LiveIsTable ==
  ASSUME NEW l, Table!IsLeaseTable(l), NEW now
  PROVE  Table!IsLeaseTable(Table!Live(l, now))
BY DEF Table!IsLeaseTable, Table!Live, Table!Restrict

\* Work of registrations that are gone is answered in its own slots.
LEMMA RemovedBoxed ==
  ASSUME NEW s, Kept(s), NEW k \in Nat, Boxed(s, k), NEW gone, NEW observed
  PROVE  /\ Boxed(FinishRemoved(s, gone, observed), k)
         /\ Quiet(s, FinishRemoved(s, gone, observed))
<1> DEFINE u == [s EXCEPT !.statuses = @ \ gone]
           F == Pinned(u, gone)
           t == Finish(u, F, "unavailable", observed)
<1>1. /\ IsState(u)
      /\ u.accepting = s.accepting /\ u.leases = s.leases
      /\ u.statuses = s.statuses \ gone /\ u.pending = s.pending
      /\ u.logical = s.logical /\ u.future = s.future
      /\ u.admitted = s.admitted /\ u.outbound = s.outbound
      /\ u.reserved = s.reserved
  BY DEF Kept, WellFormed, IsState, Fields
<1>2. t = FinishRemoved(s, gone, observed)
  BY DEF FinishRemoved, FinishPinned
<1> HIDE DEF u
<1>3. Kept(u)
  BY <1>1
     DEF Kept, WellFormed, Identified, AnsweredOnce, EmptyOnceClosed
<1>4. F \in SUBSET DOMAIN u.pending
  BY DEF Pinned, PinnedOrClaimed
<1>5. Table!IsLeaseTable(u.leases) /\ u.statuses \subseteq Identity
  BY <1>1 DEF Boxed, Typed
<1>6. Boxed(u, k) /\ Quiet(s, u)
  BY <1>1, <1>5, SameMailbox
<1>7. "unavailable" \in Answers
  BY DEF Answers
<1> HIDE DEF F, t
<1>8. Boxed(t, k) /\ Quiet(u, t)
  <2>1. WellFormed(u) /\ Identified(u)
    BY <1>3 DEF Kept
  <2> DEFINE v == Finish(u, F, "unavailable", observed)
  <2>2. /\ Boxed(v, k)
        /\ \A r \in Dora : Outstanding(v, r) = Outstanding(u, r)
        /\ Len(v.outbound) + v.reserved = Len(u.outbound) + u.reserved
    BY <1>4, <1>6, <1>7, <2>1, FinishBoxed
  <2> HIDE DEF v
  <2>3. Boxed(v, k) /\ Quiet(u, v)
    BY <2>2 DEF Quiet
  <2> QED
    BY <2>3 DEF t, v
<1> QED
  BY <1>2, <1>6, <1>8 DEF Quiet

\* So is that of leases that lapse.
LEMMA ExpireBoxed ==
  ASSUME NEW s, Sound(s), NEW k \in Nat, Boxed(s, k), NEW observed
  PROVE  /\ Boxed(ExpireLeases(s, observed), k)
         /\ Quiet(s, ExpireLeases(s, observed))
<1> DEFINE gone == Table!Identities(s.leases, Table!Lapsed(s.leases, observed))
           u == ExpireQuietly(s, observed)
           t == FinishRemoved(u, gone, observed)
<1>1. /\ IsState(u)
      /\ u.accepting = s.accepting /\ u.leases = Table!Live(s.leases, observed)
      /\ u.statuses = s.statuses /\ u.pending = s.pending
      /\ u.logical = s.logical /\ u.future = s.future
      /\ u.admitted = s.admitted /\ u.outbound = s.outbound
      /\ u.reserved = s.reserved
  BY DEF ExpireQuietly, Sound, Kept, WellFormed, IsState, Fields
<1>2. ExpireLeases(s, observed) = t
  BY DEF ExpireLeases
<1> HIDE DEF u, gone
<1>3. Kept(u)
  BY <1>1
     DEF Sound, Kept, WellFormed, Identified, AnsweredOnce, EmptyOnceClosed
<1>4. Table!IsLeaseTable(u.leases) /\ u.statuses \subseteq Identity
  BY <1>1, LiveIsTable DEF Boxed, Typed
<1>5. Boxed(u, k) /\ Quiet(s, u)
  BY <1>1, <1>4, SameMailbox
<1>6. Boxed(t, k) /\ Quiet(u, t)
  BY <1>3, <1>5, RemovedBoxed
<1> QED
  BY <1>2, <1>5, <1>6 DEF Quiet

\* A message takes one slot, which was held for it.
LEMMA AppendBoxed ==
  ASSUME NEW s, NEW t, WellFormed(s), NEW k \in Nat, Boxed(s, k + 1),
         NEW m \in Messages, m.kind # "provider.invoke_request",
         t.outbound = s.outbound \o <<m>>, t.reserved = s.reserved - 1,
         Table!IsLeaseTable(t.leases), t.statuses = s.statuses,
         t.pending = s.pending, t.future = s.future, t.admitted = s.admitted
  PROVE  /\ Boxed(t, k)
         /\ \A r \in Dora : Outstanding(t, r) = Outstanding(s, r)
              + (IF m.kind = "caller.invoke_response" /\ m.request = r
                 THEN 1 ELSE 0)
<1>1. /\ s.outbound \in Seq(Messages) /\ <<m>> \in Seq(Messages)
      /\ Len(s.outbound) \in Nat /\ DOMAIN s.outbound = 1..Len(s.outbound)
      /\ Len(<<m>>) = 1 /\ <<m>>[1] = m /\ DOMAIN <<m>> = {1}
  <2>1. s.outbound \in Seq(Messages)
    BY DEF Boxed, Typed
  <2> QED
    BY <2>1, LenProperties
<1>2. /\ t.outbound \in Seq(Messages)
      /\ Len(t.outbound) = Len(s.outbound) + 1
      /\ DOMAIN t.outbound = 1..Len(s.outbound) + 1
      /\ \A n \in 1..Len(s.outbound) : t.outbound[n] = s.outbound[n]
      /\ t.outbound[Len(s.outbound) + 1] = m
  <2> DEFINE q == s.outbound \o <<m>>
  <2>1. /\ q \in Seq(Messages) /\ Len(q) = Len(s.outbound) + 1
        /\ \A n \in 1..Len(s.outbound) + 1 :
             q[n] = IF n <= Len(s.outbound) THEN s.outbound[n]
                    ELSE <<m>>[n - Len(s.outbound)]
    BY <1>1, ConcatProperties
  <2>2. DOMAIN q = 1..Len(s.outbound) + 1
    BY <2>1, LenProperties
  <2> HIDE DEF q
  <2>3. t.outbound = q
    BY DEF q
  <2>4. Len(s.outbound) + 1 - Len(s.outbound) = 1
        /\ ~(Len(s.outbound) + 1 <= Len(s.outbound))
        /\ Len(s.outbound) + 1 \in 1..Len(s.outbound) + 1
    BY <1>1
  <2>5. q[Len(s.outbound) + 1] = <<m>>[1]
    BY <2>1, <2>4
  <2> QED
    BY <1>1, <2>1, <2>2, <2>3, <2>5
<1>3. Typed(t)
  BY <1>2 DEF Boxed, Typed
<1>4. DoraOf(t) = DoraOf(s) /\ Cardinality(DoraOf(s)) \in Nat
  BY PendingFinite DEF DoraOf, OfDora
<1>5. Balanced(t, k)
  <2>1. /\ s.reserved = Cardinality(DoraOf(s)) + (k + 1)
        /\ Len(s.outbound) + s.reserved <= Capacity
    BY DEF Boxed, Balanced
  <2>2. t.reserved = Cardinality(DoraOf(t)) + k
    BY <1>4, <2>1
  <2>3. Len(t.outbound) + t.reserved <= Capacity
    BY <1>1, <1>2, <1>4, <2>1, QueryAssumption
  <2> QED
    BY <2>2, <2>3 DEF Balanced
<1>6. QueuedOnce(t)
  <2>1. \A n \in DOMAIN t.outbound :
          \/ n \in DOMAIN s.outbound /\ t.outbound[n] = s.outbound[n]
          \/ t.outbound[n] = m
    BY <1>1, <1>2
  <2>2. \A i : Invoke(i) # m
    BY DEF Invoke
  <2>3. DOMAIN s.outbound \subseteq DOMAIN t.outbound
        /\ \A n \in DOMAIN s.outbound : t.outbound[n] = s.outbound[n]
    BY <1>1, <1>2
  <2>4. ASSUME NEW i \in DOMAIN t.pending, ~t.pending[i].claimed
        PROVE  \E n \in DOMAIN t.outbound :
                 \A j \in DOMAIN t.outbound : t.outbound[j] = Invoke(i) <=> j = n
    <3>1. PICK n \in DOMAIN s.outbound :
            \A j \in DOMAIN s.outbound : s.outbound[j] = Invoke(i) <=> j = n
      BY <2>4 DEF Boxed, QueuedOnce
    <3> QED
      BY <2>1, <2>2, <2>3, <3>1
  <2> QED
    BY <2>1, <2>4 DEF Boxed, QueuedOnce
<1>7. ASSUME NEW r \in Dora
      PROVE  Outstanding(t, r) = Outstanding(s, r)
               + (IF m.kind = "caller.invoke_response" /\ m.request = r
                  THEN 1 ELSE 0)
  <2>1. Cardinality(RepliesIn(t.outbound, r)) =
          Cardinality(RepliesIn(s.outbound, r)) + Cardinality(RepliesIn(<<m>>, r))
    BY <1>1, RepliesJoined
  <2>2. Cardinality(RepliesIn(<<m>>, r)) =
          IF m.kind = "caller.invoke_response" /\ m.request = r THEN 1 ELSE 0
    <3>1. RepliesIn(<<m>>, r) =
            IF m.kind = "caller.invoke_response" /\ m.request = r THEN {1} ELSE {}
      BY <1>1 DEF RepliesIn
    <3> QED
      BY <3>1, FS_Singleton, FS_EmptySet
  <2>3. /\ Cardinality(RepliesIn(s.outbound, r)) \in Nat
        /\ Cardinality(InFlight(s, r)) \in Nat
    BY <1>1, RepliesFinite, PendingFinite DEF InFlight, OfCaller
  <2>4. InFlight(t, r) = InFlight(s, r)
    BY DEF InFlight, OfCaller
  <2> QED
    BY <2>1, <2>2, <2>3, <2>4 DEF Outstanding
<1> QED
  BY <1>3, <1>5, <1>6, <1>7 DEF Boxed

\* Where there is room, one slot more may be held.
LEMMA ReserveBoxed ==
  ASSUME NEW s, WellFormed(s), NEW k \in Nat, Boxed(s, k), HasRoom(s)
  PROVE  /\ Boxed(Reserve(s), k + 1)
         /\ \A r : Outstanding(Reserve(s), r) = Outstanding(s, r)
<1> DEFINE t == Reserve(s)
<1>1. /\ t.leases = s.leases /\ t.statuses = s.statuses
      /\ t.pending = s.pending /\ t.outbound = s.outbound
      /\ t.future = s.future /\ t.admitted = s.admitted
      /\ t.reserved = s.reserved + 1
  BY DEF Reserve, WellFormed, IsState, Fields
<1> HIDE DEF t
<1>2. Typed(t)
  BY <1>1 DEF Boxed, Typed
<1>3. QueuedOnce(t)
  BY <1>1 DEF Boxed, QueuedOnce
<1>4. Balanced(t, k + 1)
  <2>1. DoraOf(t) = DoraOf(s) /\ Cardinality(DoraOf(s)) \in Nat
    BY <1>1, PendingFinite DEF DoraOf, OfDora
  <2>2. Len(s.outbound) \in Nat
    BY LenProperties DEF Boxed, Typed
  <2>3. s.reserved = Cardinality(DoraOf(s)) + k
    BY DEF Boxed, Balanced
  <2> QED
    BY <1>1, <2>1, <2>2, <2>3, QueryAssumption DEF Balanced, HasRoom
<1>5. \A r : Outstanding(t, r) = Outstanding(s, r)
  BY <1>1 DEF Outstanding, InFlight, OfCaller, RepliesIn
<1> QED
  BY <1>2, <1>3, <1>4, <1>5 DEF Boxed, t

\* A registration leaves a lease table.
LEMMA AnnounceIsTable ==
  ASSUME NEW l, Table!IsLeaseTable(l), NEW reg \in Table!Registration,
         NEW route \in Endpoints, NEW now \in Nat
  PROVE  Table!IsLeaseTable(Table!Announce(l, reg, route, now))
<1>1. Table!Granted(reg, route, now) \in Table!Lease /\ reg.endpoint \in Endpoints
  BY QueryAssumption DEF Table!Granted, Table!Lease, Table!Registration
<1>2. /\ DOMAIN l \subseteq Endpoints
      /\ \A e \in DOMAIN l : l[e] \in Table!Lease
  BY DEF Table!IsLeaseTable
<1> DEFINE t == [e \in DOMAIN l \cup {reg.endpoint} |->
                   IF e = reg.endpoint THEN Table!Granted(reg, route, now)
                   ELSE l[e]]
<1>3. Table!IsLeaseTable(t)
  BY <1>1, <1>2 DEF Table!IsLeaseTable
<1> QED
  BY <1>3 DEF Table!Announce

\* So does a withdrawal.
LEMMA WithdrawIsTable ==
  ASSUME NEW l, Table!IsLeaseTable(l), NEW wd, NEW route
  PROVE  Table!IsLeaseTable(Table!Withdraw(l, wd, route))
BY DEF Table!IsLeaseTable, Table!Withdraw, Table!Without, Table!Restrict

\* A registry mutation holds a slot for its acknowledgement, and uses it.
LEMMA MutateBoxed ==
  ASSUME NEW s, Sound(s), Boxed(s, 0), NEW e \in Endpoints,
         NEW table, Table!IsLeaseTable(table), NEW gone, NEW observed
  PROVE  LET t == Mutate(s, e, table, gone, observed)
         IN  Boxed(t, 0) /\ \A r \in Dora : Outstanding(t, r) = Outstanding(s, r)
<1> DEFINE m == RegistryResponse(e)
           w == Reserve(s)
           v == [w EXCEPT !.leases = table]
           u == Post(v, <<m>>)
           t == FinishRemoved(u, gone, observed)
<1>1. Mutate(s, e, table, gone, observed) = IF ~HasRoom(s) THEN s ELSE t
  BY DEF Mutate
<1>2. CASE ~HasRoom(s)
  BY <1>1, <1>2
<1>3. CASE HasRoom(s)
  <2>1. WellFormed(s)
    BY DEF Sound, Kept
  <2>2. Boxed(w, 1) /\ \A r : Outstanding(w, r) = Outstanding(s, r)
    BY <1>3, <2>1, ReserveBoxed
  <2>3. Sound(w)
    BY <2>1, ReserveAlike, AlikeSound DEF WellFormed
  <2> HIDE DEF w
  <2>4. /\ IsState(v)
        /\ v.accepting = w.accepting /\ v.leases = table
        /\ v.statuses = w.statuses /\ v.pending = w.pending
        /\ v.logical = w.logical /\ v.future = w.future
        /\ v.admitted = w.admitted /\ v.outbound = w.outbound
        /\ v.reserved = w.reserved
    BY <2>3 DEF Sound, Kept, WellFormed, IsState, Fields
  <2> HIDE DEF v
  <2>5. Kept(v)
    BY <2>3, <2>4
       DEF Sound, Kept, WellFormed, Identified, AnsweredOnce, EmptyOnceClosed
  <2>6. Boxed(v, 1) /\ Quiet(w, v)
    <3>1. v.statuses \subseteq Identity
      BY <2>2, <2>4 DEF Boxed, Typed
    <3> QED
      BY <2>2, <2>4, <3>1, SameMailbox
  <2>7. Kept(u) /\ u.leases = table /\ u.statuses = v.statuses
        /\ u.pending = v.pending /\ u.future = v.future
        /\ u.admitted = v.admitted
    BY <2>4, <2>5, PostAlike, AlikeSound DEF Alike
  <2>8. u.outbound = v.outbound \o <<m>> /\ u.reserved = v.reserved - 1
    <3>1. Len(<<m>>) = 1
      OBVIOUS
    <3> QED
      BY <2>4, <3>1 DEF Post, IsState, Fields
  <2> HIDE DEF u
  <2>9. m \in Messages /\ m.kind = "provider.registry_response"
    BY MessageTypes
  <2> HIDE DEF m
  <2>10. /\ Boxed(u, 0)
         /\ \A r \in Dora : Outstanding(u, r) = Outstanding(v, r) + 0
    <3>1. 0 + 1 = 1 /\ m.kind # "provider.invoke_request"
          /\ m.kind # "caller.invoke_response" /\ WellFormed(v)
          /\ Table!IsLeaseTable(u.leases)
      BY <2>5, <2>7, <2>9 DEF Kept
    <3>2. Boxed(v, 0 + 1)
      BY <2>6, <3>1
    <3> QED
      BY <2>7, <2>8, <2>9, <3>1, <3>2, AppendBoxed
  <2>11. Boxed(t, 0) /\ Quiet(u, t)
    BY <2>7, <2>10, RemovedBoxed
  <2>12. \A r \in Dora : Outstanding(v, r) \in Nat
    BY <2>5, <2>6, PendingFinite, RepliesFinite
       DEF Outstanding, InFlight, OfCaller, Boxed, Typed, Kept
  <2> HIDE DEF t
  <2>13. \A r \in Dora : Outstanding(t, r) = Outstanding(s, r)
    BY <2>2, <2>6, <2>10, <2>11, <2>12 DEF Quiet
  <2> QED
    BY <1>1, <1>3, <2>11, <2>13
<1> QED
  BY <1>2, <1>3

\* How many slots an admission comes with, for the reply to its caller.
Slots(r) == IF r \in Dora THEN 1 ELSE 0

\* t owes the caller of r one reply more than s.
OwesOneMore(s, t, r) ==
  \A q \in Dora :
    Outstanding(t, q) = Outstanding(s, q) + (IF q = r THEN 1 ELSE 0)

\* What is owed can be counted.
LEMMA OutstandingNat ==
  ASSUME NEW s, WellFormed(s), Typed(s), NEW r
  PROVE  Outstanding(s, r) \in Nat
BY PendingFinite, RepliesFinite DEF Outstanding, InFlight, OfCaller, Typed

\* A Dora caller is refused in the slot held for its reply.
LEMMA RefuseBoxed ==
  ASSUME NEW s, Sound(s), NEW r \in Requests, Boxed(s, Slots(r)),
         NEW answer \in Answers
  PROVE  /\ Boxed(Refuse(s, r, answer), 0)
         /\ OwesOneMore(s, Refuse(s, r, answer), r)
<1>0. WellFormed(s) /\ IsState(s)
  BY DEF Sound, Kept, WellFormed
<1>1. CASE r \in Dora
  <2> DEFINE m == Reply(r, answer)
             t == Post(s, <<m>>)
  <2>1. t = Refuse(s, r, answer)
    BY <1>1 DEF Refuse
  <2>2. /\ t.leases = s.leases /\ t.statuses = s.statuses
        /\ t.pending = s.pending /\ t.future = s.future
        /\ t.admitted = s.admitted
    BY <1>0, PostAlike DEF Alike
  <2>3. t.outbound = s.outbound \o <<m>> /\ t.reserved = s.reserved - 1
    <3>1. Len(<<m>>) = 1
      OBVIOUS
    <3> QED
      BY <1>0, <3>1 DEF Post, IsState, Fields
  <2>4. /\ m \in Messages /\ m.kind = "caller.invoke_response"
        /\ m.request = r
    BY <1>1, MessageTypes
  <2> HIDE DEF t, m
  <2>5. Boxed(s, 0 + 1) /\ Table!IsLeaseTable(t.leases)
    BY <1>1, <2>2 DEF Slots, Boxed, Typed
  <2>6. m.kind # "provider.invoke_request"
    BY <2>4
  <2>7. /\ Boxed(t, 0)
        /\ \A q \in Dora : Outstanding(t, q) = Outstanding(s, q)
             + (IF m.kind = "caller.invoke_response" /\ m.request = q
                THEN 1 ELSE 0)
    BY <1>0, <2>2, <2>3, <2>4, <2>5, <2>6, AppendBoxed
  <2> QED
    BY <2>1, <2>4, <2>7 DEF OwesOneMore
<1>2. CASE r \notin Dora
  <2> DEFINE t == SetFuture(s, r, answer)
  <2>1. t = Refuse(s, r, answer)
    BY <1>2 DEF Refuse
  <2>2. /\ t.leases = s.leases /\ t.statuses = s.statuses
        /\ t.pending = s.pending /\ t.outbound = s.outbound
        /\ t.reserved = s.reserved /\ t.admitted = s.admitted
        /\ t.future = [s.future EXCEPT ![r] = IF @ = "none" THEN answer ELSE @]
    BY <1>0 DEF SetFuture, IsState, Fields
  <2> HIDE DEF t
  <2>3. Typed(t)
    BY <2>2 DEF Boxed, Typed
  <2>4. Balanced(t, 0)
    BY <1>2, <2>2 DEF Boxed, Balanced, DoraOf, OfDora, Slots
  <2>5. QueuedOnce(t)
    BY <2>2 DEF Boxed, QueuedOnce
  <2>6. \A q \in Dora : Outstanding(t, q) = Outstanding(s, q)
    BY <2>2 DEF Outstanding, InFlight, OfCaller, RepliesIn
  <2>7. \A q \in Dora : Outstanding(s, q) \in Nat /\ q # r
    BY <1>0, <1>2, OutstandingNat DEF Boxed
  <2> QED
    BY <2>1, <2>3, <2>4, <2>5, <2>6, <2>7 DEF Boxed, OwesOneMore
<1> QED
  BY <1>1, <1>2

\* An admission exchanges the slot of its reply, if any, for an invocation.
LEMMA EnqueueBoxed ==
  ASSUME NEW s, Sound(s), NEW r \in Requests, Boxed(s, Slots(r)),
         HasRoom(s), LateRefusal(s, r) = "none", s.admitted < MaxInvokes,
         NEW deadline \in Nat
  PROVE  /\ Boxed(Enqueue(s, r, deadline), 0)
         /\ OwesOneMore(s, Enqueue(s, r, deadline), r)
<1> DEFINE id == s.admitted + 1
           invocation == [request |-> r, endpoint |-> Target[r],
                          instance |-> s.leases[Target[r]].instance,
                          deadline |-> deadline, claimed |-> FALSE]
           pending == [i \in DOMAIN s.pending \cup {id} |->
                         IF i = id THEN invocation ELSE s.pending[i]]
           m == Invoke(id)
           w == Reserve(s)
           u == Post(w, <<m>>)
           t == Enqueue(s, r, deadline)
<1>1. /\ WellFormed(s) /\ IsState(s) /\ s.admitted \in Nat
      /\ DOMAIN s.pending \subseteq 1..s.admitted
  BY DEF Sound, Kept, WellFormed
<1>2. id \in Invocations /\ id \notin DOMAIN s.pending
  BY <1>1, QueryAssumption DEF Invocations
<1>3. /\ IsState(w) /\ w.leases = s.leases /\ w.statuses = s.statuses
      /\ w.pending = s.pending /\ w.outbound = s.outbound
      /\ w.future = s.future /\ w.reserved = s.reserved + 1
  BY <1>1 DEF Reserve, IsState, Fields
<1>4. t = [u EXCEPT !.pending = pending, !.logical = @ \cup {r},
                    !.admitted = id]
  BY DEF Enqueue
<1>5. /\ DOMAIN pending = DOMAIN s.pending \cup {id}
      /\ pending[id] = invocation
      /\ \A i \in DOMAIN s.pending : pending[i] = s.pending[i]
      /\ pending = [i \in DOMAIN pending |-> pending[i]]
  BY <1>2
<1>6. invocation \in Pending /\ invocation.request = r
  <2>1. Target[r] \in DOMAIN s.leases
    BY DEF LateRefusal, BindingRefusal
  <2>2. /\ Target[r] \in Endpoints
        /\ s.leases[Target[r]].instance \in Instances
    BY <2>1 DEF Boxed, Typed, Table!IsLeaseTable, Table!Lease
  <2> QED
    BY <2>2 DEF Pending
<1> HIDE DEF w
<1>7. /\ IsState(u) /\ u.leases = s.leases /\ u.statuses = s.statuses
      /\ u.outbound = s.outbound \o <<m>> /\ u.reserved = s.reserved
      /\ u.future = s.future
  <2>1. Len(<<m>>) = 1
    OBVIOUS
  <2> HIDE DEF m
  <2>2. /\ IsState(u) /\ u.leases = w.leases /\ u.statuses = w.statuses
        /\ u.outbound = w.outbound \o <<m>> /\ u.reserved = w.reserved - 1
        /\ u.future = w.future
    BY <1>3, <2>1 DEF Post, IsState, Fields
  <2> HIDE DEF u
  <2>3. /\ IsState(u) /\ u.leases = s.leases /\ u.statuses = s.statuses
        /\ u.outbound = s.outbound \o <<m>> /\ u.future = s.future
    BY <1>3, <2>2
  <2>4. s.reserved \in Nat
    <3>1. Cardinality(DoraOf(s)) \in Nat
      BY <1>1, PendingFinite DEF DoraOf, OfDora
    <3> QED
      BY <3>1 DEF Boxed, Balanced, Slots
  <2>5. u.reserved = s.reserved
    BY <1>3, <2>2, <2>4
  <2> QED
    BY <2>3, <2>5
<1> HIDE DEF u, t, pending, id, invocation, m
<1>8. Cardinality(DoraOf(s)) \in Nat /\ IsFiniteSet(DoraOf(s))
  BY <1>1, PendingFinite DEF DoraOf, OfDora
<1>9. /\ s.reserved = Cardinality(DoraOf(s)) + Slots(r)
      /\ Slots(r) \in Nat /\ s.reserved \in Nat
  BY <1>8 DEF Boxed, Balanced, Slots
<1>10. /\ t.leases = s.leases /\ t.statuses = s.statuses
       /\ t.outbound = s.outbound \o <<m>> /\ t.reserved = s.reserved
       /\ t.future = s.future /\ t.pending = pending /\ t.admitted = id
  <2>1. /\ t.leases = u.leases /\ t.statuses = u.statuses
        /\ t.outbound = u.outbound /\ t.reserved = u.reserved
        /\ t.future = u.future /\ t.pending = pending /\ t.admitted = id
    BY <1>4, <1>7 DEF IsState, Fields
  <2> QED
    BY <1>7, <1>9, <2>1
<1>11. m \in Messages /\ m.kind = "provider.invoke_request" /\ m.id = id
  BY <1>2, MessageTypes DEF m
<1>12. /\ s.outbound \in Seq(Messages) /\ <<m>> \in Seq(Messages)
       /\ Len(s.outbound) \in Nat /\ DOMAIN s.outbound = 1..Len(s.outbound)
       /\ t.outbound \in Seq(Messages) /\ Len(t.outbound) = Len(s.outbound) + 1
       /\ DOMAIN t.outbound = 1..Len(s.outbound) + 1
       /\ \A n \in 1..Len(s.outbound) : t.outbound[n] = s.outbound[n]
       /\ t.outbound[Len(s.outbound) + 1] = m
  <2> DEFINE q == s.outbound \o <<m>>
  <2>1. s.outbound \in Seq(Messages) /\ <<m>> \in Seq(Messages)
        /\ Len(<<m>>) = 1 /\ <<m>>[1] = m
    BY <1>11 DEF Boxed, Typed
  <2>2. Len(s.outbound) \in Nat /\ DOMAIN s.outbound = 1..Len(s.outbound)
    BY <2>1, LenProperties
  <2>3. /\ q \in Seq(Messages) /\ Len(q) = Len(s.outbound) + 1
        /\ \A n \in 1..Len(s.outbound) + 1 :
             q[n] = IF n <= Len(s.outbound) THEN s.outbound[n]
                    ELSE <<m>>[n - Len(s.outbound)]
    BY <2>1, ConcatProperties
  <2>4. DOMAIN q = 1..Len(s.outbound) + 1
    BY <2>3, LenProperties
  <2> HIDE DEF q
  <2>5. t.outbound = q
    BY <1>10 DEF q
  <2>6. Len(s.outbound) + 1 - Len(s.outbound) = 1
        /\ ~(Len(s.outbound) + 1 <= Len(s.outbound))
        /\ Len(s.outbound) + 1 \in 1..Len(s.outbound) + 1
    BY <2>2
  <2>7. q[Len(s.outbound) + 1] = <<m>>[1]
    BY <2>3, <2>6
  <2> QED
    BY <2>1, <2>2, <2>3, <2>4, <2>5, <2>7
<1>13. Typed(t)
  <2>1. ASSUME NEW i \in DOMAIN t.pending PROVE t.pending[i] \in Pending
    <3>1. CASE i = id
      BY <1>5, <1>6, <1>10, <3>1
    <3>2. CASE i \in DOMAIN s.pending
      BY <1>5, <1>10, <3>2 DEF Boxed, Typed
    <3> QED
      BY <1>5, <1>10, <2>1, <3>1, <3>2
  <2>2. t.pending \in [DOMAIN t.pending -> Pending]
    BY <1>5, <1>10, <2>1
  <2>3. t.admitted <= MaxInvokes
    BY <1>10, <1>2, QueryAssumption DEF Invocations
  <2>4. /\ Table!IsLeaseTable(t.leases) /\ t.statuses \subseteq Identity
        /\ t.future \in [Http -> Answers \cup {"none"}]
    BY <1>10 DEF Boxed, Typed
  <2> QED
    BY <1>12, <2>2, <2>3, <2>4 DEF Typed
<1>14. Balanced(t, 0)
  <2>1. DoraOf(t) = IF r \in Dora THEN DoraOf(s) \cup {id} ELSE DoraOf(s)
    BY <1>5, <1>6, <1>10 DEF DoraOf, OfDora
  <2>2. id \notin DoraOf(s)
    BY <1>2 DEF DoraOf, OfDora
  <2>3. Cardinality(DoraOf(s) \cup {id}) = Cardinality(DoraOf(s)) + 1
    BY <1>8, <2>2, FS_AddElement
  <2>4. Cardinality(DoraOf(t)) = Cardinality(DoraOf(s)) + Slots(r)
    BY <1>8, <2>1, <2>3 DEF Slots
  <2> QED
    BY <1>8, <1>9, <1>10, <1>12, <2>4, QueryAssumption DEF Balanced, HasRoom
<1>15. QueuedOnce(t)
  <2>1. \A n \in DOMAIN t.outbound :
          \/ n \in DOMAIN s.outbound /\ t.outbound[n] = s.outbound[n]
          \/ n = Len(s.outbound) + 1 /\ t.outbound[n] = m
    BY <1>12
  <2>2. \A n \in DOMAIN s.outbound :
          /\ n \in DOMAIN t.outbound /\ t.outbound[n] = s.outbound[n]
          /\ s.outbound[n].kind = "provider.invoke_request" =>
               s.outbound[n].id <= s.admitted
    BY <1>12 DEF Boxed, QueuedOnce
  <2>3. ASSUME NEW n \in DOMAIN t.outbound,
               t.outbound[n].kind = "provider.invoke_request"
        PROVE  t.outbound[n].id <= t.admitted
    <3>1. CASE n \in DOMAIN s.outbound /\ t.outbound[n] = s.outbound[n]
      <4>1. t.outbound[n].id \in Invocations
        BY <1>12, <2>3, MessageKinds, ElementOfSeq
      <4> QED
        BY <1>1, <1>10, <2>2, <2>3, <3>1, <4>1 DEF Invocations, id
    <3>2. CASE t.outbound[n] = m
      BY <1>1, <1>10, <1>11, <3>2 DEF id
    <3> QED
      BY <2>1, <3>1, <3>2
  <2>4. ASSUME NEW i \in DOMAIN s.pending, ~s.pending[i].claimed
        PROVE  \E n \in DOMAIN t.outbound :
                 \A j \in DOMAIN t.outbound : t.outbound[j] = Invoke(i) <=> j = n
    <3>1. PICK n \in DOMAIN s.outbound :
            \A j \in DOMAIN s.outbound : s.outbound[j] = Invoke(i) <=> j = n
      BY <2>4 DEF Boxed, QueuedOnce
    <3>2. Invoke(i) # m
      BY <1>2, <2>4, MessageTypes DEF m
    <3> QED
      BY <2>1, <2>2, <3>1, <3>2
  <2>5. \E n \in DOMAIN t.outbound :
          \A j \in DOMAIN t.outbound : t.outbound[j] = Invoke(id) <=> j = n
    <3>1. Len(s.outbound) + 1 \in DOMAIN t.outbound
      BY <1>12
    <3>2. ASSUME NEW j \in DOMAIN s.outbound, s.outbound[j] = Invoke(id)
          PROVE  FALSE
      <4>1. Invoke(id).kind = "provider.invoke_request" /\ Invoke(id).id = id
        BY MessageTypes
      <4> QED
        BY <1>1, <2>2, <3>2, <4>1 DEF id
    <3> QED
      BY <1>12, <2>1, <3>1, <3>2 DEF m
  <2>6. \A i \in DOMAIN t.pending : ~t.pending[i].claimed =>
          \E n \in DOMAIN t.outbound :
            \A j \in DOMAIN t.outbound : t.outbound[j] = Invoke(i) <=> j = n
    BY <1>5, <1>10, <2>4, <2>5
  <2> QED
    BY <2>3, <2>6 DEF QueuedOnce
<1>16. ASSUME NEW q \in Dora
       PROVE  Outstanding(t, q) = Outstanding(s, q) + (IF q = r THEN 1 ELSE 0)
  <2>1. Cardinality(RepliesIn(t.outbound, q)) =
          Cardinality(RepliesIn(s.outbound, q))
    <3>1. RepliesIn(t.outbound, q) = RepliesIn(s.outbound, q)
      BY <1>11, <1>12 DEF RepliesIn
    <3> QED
      BY <3>1
  <2>2. InFlight(t, q) = IF q = r THEN InFlight(s, q) \cup {id} ELSE InFlight(s, q)
    BY <1>5, <1>6, <1>10 DEF InFlight, OfCaller
  <2>3. IsFiniteSet(InFlight(s, q)) /\ Cardinality(InFlight(s, q)) \in Nat
        /\ id \notin InFlight(s, q)
    BY <1>1, <1>2, PendingFinite DEF InFlight, OfCaller
  <2>4. Cardinality(InFlight(s, q) \cup {id}) = Cardinality(InFlight(s, q)) + 1
    BY <2>3, FS_AddElement
  <2>5. Cardinality(RepliesIn(s.outbound, q)) \in Nat
    BY <1>12, RepliesFinite
  <2> QED
    BY <2>1, <2>2, <2>3, <2>4, <2>5 DEF Outstanding
<1> QED
  BY <1>13, <1>14, <1>15, <1>16 DEF Boxed, OwesOneMore, t

\* An admission owes its caller one reply, whether it is refused or enqueued.
LEMMA AdmitBoxed ==
  ASSUME NEW s, Sound(s), NEW r \in Requests, Boxed(s, Slots(r)),
         s.admitted < MaxInvokes, NEW deadline \in Nat, NEW observed
  PROVE  /\ Boxed(Admit(s, r, deadline, observed), 0)
         /\ OwesOneMore(s, Admit(s, r, deadline, observed), r)
<1> DEFINE early == EarlyRefusal(s, r, deadline, observed)
           t == ExpireLeases(s, observed)
           late == LateRefusal(t, r)
<1>1. Slots(r) \in Nat
  BY DEF Slots
<1>2. Sound(t) /\ Shrunk(s, t) /\ Boxed(t, Slots(r)) /\ Quiet(s, t)
  BY <1>1, ExpireSound, ExpireBoxed
<1>3. Admit(s, r, deadline, observed) =
        IF early # "none" THEN Refuse(s, r, early)
        ELSE IF late # "none" THEN Refuse(t, r, late)
        ELSE Enqueue(t, r, deadline)
  BY DEF Admit
<1>4. early # "none" => early \in Answers
  BY DEF EarlyRefusal, Answers
<1> HIDE DEF t
<1>5. late # "none" => late \in Answers
  BY DEF LateRefusal, BindingRefusal, Answers
<1>6. early = "none" => HasRoom(t)
  <2>1. early = "none" => HasRoom(s)
    BY DEF EarlyRefusal
  <2>2. /\ Len(s.outbound) \in Nat /\ Len(t.outbound) \in Nat
        /\ s.reserved \in Nat /\ t.reserved \in Nat
    <3>1. Len(s.outbound) \in Nat /\ Len(t.outbound) \in Nat
      BY <1>2, LenProperties DEF Boxed, Typed
    <3>2. Cardinality(DoraOf(s)) \in Nat /\ Cardinality(DoraOf(t)) \in Nat
      BY <1>2, PendingFinite DEF DoraOf, OfDora, Sound, Kept
    <3> QED
      BY <1>1, <1>2, <3>1, <3>2 DEF Boxed, Balanced
  <2>3. Len(t.outbound) + t.reserved = Len(s.outbound) + s.reserved
    BY <1>2 DEF Quiet
  <2> QED
    BY <2>1, <2>2, <2>3, QueryAssumption DEF HasRoom
<1>7. t.admitted < MaxInvokes
  BY <1>2 DEF Shrunk
<1> HIDE DEF early, late
<1>8. CASE early # "none"
  BY <1>3, <1>4, <1>8, RefuseBoxed
<1>9. CASE early = "none" /\ late # "none"
  <2>1. /\ Boxed(Refuse(t, r, late), 0)
        /\ OwesOneMore(t, Refuse(t, r, late), r)
    BY <1>2, <1>5, <1>9, RefuseBoxed
  <2> QED
    BY <1>2, <1>3, <1>9, <2>1 DEF OwesOneMore, Quiet
<1>10. CASE early = "none" /\ late = "none"
  <2>1. /\ Boxed(Enqueue(t, r, deadline), 0)
        /\ OwesOneMore(t, Enqueue(t, r, deadline), r)
    BY <1>2, <1>6, <1>7, <1>10, EnqueueBoxed DEF late
  <2> QED
    BY <1>2, <1>3, <1>10, <2>1 DEF OwesOneMore, Quiet
<1> QED
  BY <1>8, <1>9, <1>10

\* A set of queue positions that is not empty has a first one.
LEMMA FirstOf ==
  ASSUME NEW T \in SUBSET Nat, T # {}
  PROVE  \E n \in T : \A k \in T : n <= k
<1>1. PICK n \in T : \A k \in T : ~(<<k, n>> \in OpToRel(<, Nat))
  BY NatLessThanWellFounded, WFMin
<1>2. \A k \in T : ~(k < n)
  BY <1>1 DEF OpToRel
<1> QED
  BY <1>2

\* A Dora caller is owed a reply if there is a slot for it, and else nothing.
LEMMA CallerInvokeBoxed ==
  ASSUME NEW s, Sound(s), Boxed(s, 0), NEW r \in Dora,
         s.admitted < MaxInvokes, NEW deadline \in Nat, NEW observed
  PROVE  LET t == CallerInvoke(s, r, deadline, observed)
         IN  /\ Boxed(t, 0)
             /\ IF TakesCallerInvoke(s, observed) THEN OwesOneMore(s, t, r)
                ELSE \A q \in Dora : Outstanding(t, q) = Outstanding(s, q)
<1> DEFINE t == ExpireLeases(s, observed)
           u == Reserve(t)
           v == Admit(u, r, deadline, observed)
<1>1. Sound(t) /\ Shrunk(s, t) /\ Boxed(t, 0) /\ Quiet(s, t)
  BY ExpireSound, ExpireBoxed
<1>2. /\ TakesCallerInvoke(s, observed) = HasRoom(t)
      /\ CallerInvoke(s, r, deadline, observed) = IF HasRoom(t) THEN v ELSE t
  BY DEF CallerInvoke, TakesCallerInvoke
<1> HIDE DEF t
<1>3. ASSUME HasRoom(t)
      PROVE  Boxed(v, 0) /\ OwesOneMore(s, v, r)
  <2>1. WellFormed(t) /\ IsState(t)
    BY <1>1 DEF Sound, Kept, WellFormed
  <2>2. Boxed(u, 0 + 1) /\ \A q : Outstanding(u, q) = Outstanding(t, q)
    BY <1>1, <1>3, <2>1, ReserveBoxed
  <2>3. Sound(u) /\ u.admitted = t.admitted
    BY <1>1, <2>1, ReserveAlike, AlikeSound DEF Alike
  <2>4. Slots(r) = 0 + 1 /\ r \in Requests
    BY DEF Slots, Requests
  <2>5. u.admitted < MaxInvokes
    BY <1>1, <2>3 DEF Shrunk
  <2> HIDE DEF u
  <2>6. Boxed(u, Slots(r))
    BY <2>2, <2>4
  <2>7. Boxed(v, 0) /\ OwesOneMore(u, v, r)
    BY <2>3, <2>4, <2>5, <2>6, AdmitBoxed
  <2> QED
    BY <1>1, <2>2, <2>7 DEF OwesOneMore, Quiet
<1> HIDE DEF v
<1>4. CASE HasRoom(t)
  BY <1>2, <1>3, <1>4
<1>5. CASE ~HasRoom(t)
  BY <1>1, <1>2, <1>5 DEF Quiet
<1> QED
  BY <1>4, <1>5

\* A readiness report leaves the mailbox alone.
LEMMA StatusBoxed ==
  ASSUME NEW s, Sound(s), Boxed(s, 0), NEW identity \in Identity, NEW at
  PROVE  /\ Boxed(EndpointStatus(s, identity, at), 0)
         /\ Quiet(s, EndpointStatus(s, identity, at))
<1> DEFINE t == ExpireLeases(s, at)
           current == Table!Identities(t.leases, DOMAIN t.leases)
           x == {identity} \cap current
           u == [t EXCEPT !.statuses = @ \cup x]
<1>1. Sound(t) /\ Boxed(t, 0) /\ Quiet(s, t)
  BY ExpireSound, ExpireBoxed
<1>2. u = EndpointStatus(s, identity, at)
  BY DEF EndpointStatus
<1> HIDE DEF t
<1>3. /\ u.leases = t.leases /\ u.statuses = t.statuses \cup x
      /\ u.pending = t.pending /\ u.outbound = t.outbound
      /\ u.reserved = t.reserved /\ u.future = t.future
      /\ u.admitted = t.admitted
  BY <1>1 DEF Sound, Kept, WellFormed, IsState, Fields
<1>4. x \subseteq Identity
  OBVIOUS
<1> HIDE DEF u, x
<1>5. Table!IsLeaseTable(u.leases) /\ u.statuses \subseteq Identity
  BY <1>1, <1>3, <1>4 DEF Boxed, Typed
<1>6. Boxed(u, 0) /\ Quiet(t, u)
  BY <1>1, <1>3, <1>5, SameMailbox
<1> QED
  BY <1>1, <1>2, <1>6 DEF Quiet

\* A sweep turns slots into replies.
LEMMA SweepBoxed ==
  ASSUME NEW s, Sound(s), Boxed(s, 0), NEW observed
  PROVE  Boxed(Sweep(s, observed), 0) /\ Quiet(s, Sweep(s, observed))
<1> DEFINE t == ExpireLeases(s, observed)
           F == {i \in DOMAIN t.pending : t.pending[i].deadline <= observed}
<1>1. Sound(t) /\ Boxed(t, 0) /\ Quiet(s, t)
  BY ExpireSound, ExpireBoxed
<1>2. F \in SUBSET DOMAIN t.pending /\ "timeout" \in Answers
  BY DEF Answers
<1>3. Sweep(s, observed) = Finish(t, F, "timeout", observed)
  BY DEF Sweep
<1> HIDE DEF t, F
<1>4. Boxed(Finish(t, F, "timeout", observed), 0)
      /\ Quiet(t, Finish(t, F, "timeout", observed))
  BY <1>1, <1>2, FinishBoxed DEF Sound, Kept, Quiet
<1> QED
  BY <1>1, <1>3, <1>4 DEF Quiet

\* Closing queues an answer for every Dora caller, in the slot held for it.
LEMMA CloseBoxed ==
  ASSUME NEW s, Sound(s), Boxed(s, 0), NEW observed
  PROVE  /\ Boxed(BeginClose(s, observed), 0)
         /\ Quiet(s, BeginClose(s, observed))
         /\ ~BeginClose(s, observed).accepting
         /\ DOMAIN BeginClose(s, observed).pending = {}
<1> DEFINE u == StopAccepting(s, observed)
           F == DOMAIN u.pending
           t == Finish(u, F, "closing", observed)
<1>1. /\ IsState(u)
      /\ u.accepting = FALSE /\ u.leases = s.leases
      /\ u.statuses = s.statuses /\ u.pending = s.pending
      /\ u.logical = s.logical /\ u.future = s.future
      /\ u.admitted = s.admitted /\ u.outbound = s.outbound
      /\ u.reserved = s.reserved
  BY DEF StopAccepting, Sound, Kept, WellFormed, IsState, Fields
<1>2. t = BeginClose(s, observed)
  BY <1>1 DEF BeginClose
<1>3. F \in SUBSET DOMAIN u.pending /\ "closing" \in Answers
  BY DEF Answers
<1> HIDE DEF u
<1>4. Table!IsLeaseTable(u.leases) /\ u.statuses \subseteq Identity
  BY <1>1 DEF Boxed, Typed
<1>5. Boxed(u, 0) /\ Quiet(s, u)
  BY <1>1, <1>4, SameMailbox
<1>6. WellFormed(u) /\ Identified(u)
  <2>1. WellFormed(u)
    BY <1>1 DEF Sound, Kept, WellFormed
  <2>2. Identified(u)
    BY <1>1 DEF Sound, Kept, Identified
  <2> QED
    BY <2>1, <2>2
<1>7. Boxed(t, 0) /\ Quiet(u, t)
  BY <1>3, <1>5, <1>6, FinishBoxed DEF Quiet
<1>8. Finished(u, F, t)
  BY <1>1, FinishFields
<1> HIDE DEF t
<1>9. ~t.accepting /\ DOMAIN t.pending = {}
  BY <1>1, <1>8 DEF Finished, Restrict
<1> QED
  BY <1>2, <1>5, <1>7, <1>9 DEF Quiet

-----------------------------------------------------------------------------
(* Dispatch from the mailbox.                                              *)

\* What is left of the queue when the message at position n is taken.
LEMMA SuffixOf ==
  ASSUME NEW q \in Seq(Messages), NEW n \in 1..Len(q),
         NEW p, p = SubSeq(q, n + 1, Len(q))
  PROVE  /\ Len(q) \in Nat /\ DOMAIN q = 1..Len(q)
         /\ p \in Seq(Messages) /\ Len(p) = Len(q) - n
         /\ DOMAIN p = 1..Len(q) - n
         /\ \A j \in 1..Len(q) - n : p[j] = q[n + j]
<1>1. Len(q) \in Nat /\ DOMAIN q = 1..Len(q)
  BY LenProperties
<1>2. \A j \in n + 1..Len(q) : q[j] \in Messages
  BY <1>1, ElementOfSeq
<1>3. /\ p \in Seq(Messages)
      /\ Len(p) = IF n + 1 <= Len(q) THEN Len(q) - (n + 1) + 1 ELSE 0
      /\ \A j \in 1..Len(q) - (n + 1) + 1 : p[j] = q[n + 1 + j - 1]
  BY <1>1, <1>2, SubSeqProperties
<1>4. Len(p) = Len(q) - n
  <2>1. \A l \in Nat : \A j \in 1..l :
          IF j + 1 <= l THEN l - (j + 1) + 1 = l - j ELSE 0 = l - j
    OBVIOUS
  <2> QED
    BY <1>1, <1>3, <2>1, Zenon
<1>5. ASSUME NEW j \in 1..Len(q) - n PROVE p[j] = q[n + j]
  <2>1. j \in 1..Len(q) - (n + 1) + 1 /\ n + 1 + j - 1 = n + j
    BY <1>1
  <2> QED
    BY <1>3, <2>1
<1>6. DOMAIN p = 1..Len(q) - n
  BY <1>3, <1>4, LenProperties
<1> QED
  BY <1>1, <1>3, <1>4, <1>5, <1>6

\* If no reply comes before it, those left are all but perhaps itself.
LEMMA SuffixReplies ==
  ASSUME NEW q \in Seq(Messages), NEW n \in 1..Len(q), NEW r,
         \A k \in 1..n - 1 : q[k].kind # "caller.invoke_response"
  PROVE  Cardinality(RepliesIn(q, r)) =
           Cardinality(RepliesIn(SubSeq(q, n + 1, Len(q)), r))
             + (IF q[n].kind = "caller.invoke_response" /\ q[n].request = r
                THEN 1 ELSE 0)
<1> DEFINE p == SubSeq(q, 1, n)
           w == SubSeq(q, n + 1, Len(q))
<1>1. Len(q) \in Nat /\ DOMAIN q = 1..Len(q)
  BY LenProperties
<1>2. q = p \o w
  <2>1. SubSeq(q, 1, n) \o SubSeq(q, n + 1, Len(q)) = SubSeq(q, 1, Len(q))
    <3>1. 1 \in 1..Len(q) + 1 /\ n \in 1 - 1..Len(q) /\ Len(q) \in n..Len(q)
      BY <1>1
    <3> QED
      BY <3>1, ConcatAdjacentSubSeq
  <2>2. SubSeq(q, 1, Len(q)) = q
    BY SubSeqFull
  <2> QED
    BY <2>1, <2>2
<1>3. w \in Seq(Messages)
  BY SuffixOf
<1>4. /\ p \in Seq(Messages) /\ DOMAIN p = 1..n
      /\ \A j \in 1..n : p[j] = q[j]
  <2>1. \A j \in 1..n : q[j] \in Messages
    BY <1>1, ElementOfSeq
  <2>2. /\ p \in Seq(Messages)
        /\ Len(p) = IF 1 <= n THEN n - 1 + 1 ELSE 0
        /\ \A j \in 1..n - 1 + 1 : p[j] = q[1 + j - 1]
    BY <2>1, SubSeqProperties
  <2>3. n - 1 + 1 = n /\ \A j \in 1..n : 1 + j - 1 = j
    OBVIOUS
  <2> HIDE DEF p
  <2>4. Len(p) = n /\ \A j \in 1..n : p[j] = q[j]
    BY <2>2, <2>3
  <2> QED
    BY <2>2, <2>4, LenProperties
<1> HIDE DEF p, w
<1>5. Cardinality(RepliesIn(p, r)) =
        IF q[n].kind = "caller.invoke_response" /\ q[n].request = r
        THEN 1 ELSE 0
  <2>1. RepliesIn(p, r) =
          IF q[n].kind = "caller.invoke_response" /\ q[n].request = r
          THEN {n} ELSE {}
    <3>1. \A j \in 1..n : j = n \/ j \in 1..n - 1
      OBVIOUS
    <3> QED
      BY <1>4, <3>1 DEF RepliesIn
  <2> QED
    BY <2>1, FS_Singleton, FS_EmptySet
<1>6. Cardinality(RepliesIn(p \o w, r)) =
        Cardinality(RepliesIn(p, r)) + Cardinality(RepliesIn(w, r))
  BY <1>3, <1>4, RepliesJoined
<1>7. Cardinality(RepliesIn(w, r)) \in Nat
  BY <1>3, RepliesFinite
<1>8. Cardinality(RepliesIn(q, r)) =
        Cardinality(RepliesIn(p, r)) + Cardinality(RepliesIn(w, r))
  BY <1>2, <1>6, Zenon
<1>9. Cardinality(RepliesIn(q, r)) = Cardinality(RepliesIn(w, r))
        + (IF q[n].kind = "caller.invoke_response" /\ q[n].request = r
           THEN 1 ELSE 0)
  BY <1>5, <1>7, <1>8
<1> QED
  BY <1>9, Zenon DEF w

\* Taking a message leaves the slots as they are, and marks its invocation.
LEMMA TakeBoxed ==
  ASSUME NEW s, Sound(s), Boxed(s, 0), NEW n \in Deliverable(s)
  PROVE  LET t == TakeOutbound(s, n)
             m == s.outbound[n]
         IN  /\ Boxed(t, 0)
             /\ m \in Messages
             /\ Len(t.outbound) \in Nat /\ Len(t.outbound) + 1 <= Len(s.outbound)
             /\ \A r \in Dora :
                  Outstanding(s, r) = Outstanding(t, r)
                    + (IF m.kind = "caller.invoke_response" /\ m.request = r
                       THEN 1 ELSE 0)
<1> DEFINE q == s.outbound
           m == q[n]
           p == SubSeq(q, n + 1, Len(q))
           w == PopOutbound(s, n)
           t == TakeOutbound(s, n)
<1>1. WellFormed(s) /\ Typed(s) /\ Balanced(s, 0) /\ QueuedOnce(s)
  BY DEF Sound, Kept, Boxed
<1>2. q \in Seq(Messages) /\ n \in 1..Len(q) /\ Valid(s, m)
      /\ \A k \in 1..n - 1 : ~Valid(s, q[k])
  BY <1>1, LenProperties DEF Typed, Deliverable
<1>3. /\ Len(q) \in Nat /\ DOMAIN q = 1..Len(q)
      /\ p \in Seq(Messages) /\ Len(p) = Len(q) - n
      /\ DOMAIN p = 1..Len(q) - n
      /\ \A j \in 1..Len(q) - n : p[j] = q[n + j]
  BY <1>2, SuffixOf
<1>4. m \in Messages
  BY <1>2, ElementOfSeq
<1>5. \A k \in 1..n - 1 : q[k].kind # "caller.invoke_response"
  BY <1>2 DEF Valid
<1>6. /\ IsState(w) /\ w.outbound = p /\ w.pending = s.pending
      /\ w.leases = s.leases /\ w.statuses = s.statuses
      /\ w.reserved = s.reserved /\ w.future = s.future
      /\ w.admitted = s.admitted
  BY <1>1 DEF PopOutbound, WellFormed, IsState, Fields
<1>7. t = IF m.kind = "provider.invoke_request"
          THEN [w EXCEPT !.pending[m.id].claimed = TRUE] ELSE w
  BY DEF TakeOutbound
<1> HIDE DEF w, t
<1>8. /\ t.outbound = p /\ t.leases = s.leases /\ t.statuses = s.statuses
      /\ t.reserved = s.reserved /\ t.future = s.future
      /\ t.admitted = s.admitted
      /\ t.pending = IF m.kind = "provider.invoke_request"
                     THEN [s.pending EXCEPT ![m.id].claimed = TRUE]
                     ELSE s.pending
  <2> HIDE DEF m, p, q
  <2>1. CASE m.kind = "provider.invoke_request"
    BY <1>6, <1>7, <2>1 DEF IsState, Fields
  <2>2. CASE m.kind # "provider.invoke_request"
    BY <1>6, <1>7, <2>2
  <2> QED
    BY <2>1, <2>2
<1>9. /\ DOMAIN t.pending = DOMAIN s.pending
      /\ t.pending = [i \in DOMAIN s.pending |-> t.pending[i]]
      /\ \A i \in DOMAIN s.pending :
           /\ t.pending[i].request = s.pending[i].request
           /\ t.pending[i] \in Pending
           /\ ~t.pending[i].claimed =>
                /\ ~s.pending[i].claimed
                /\ m.kind = "provider.invoke_request" => i # m.id
  <2>1. \A i \in DOMAIN s.pending : s.pending[i] \in Pending
    BY <1>1 DEF Typed
  <2>2. CASE m.kind = "provider.invoke_request"
    <3>1. m.id \in DOMAIN s.pending
      BY <1>2, <2>2 DEF Valid
    <3> DEFINE x == [s.pending[m.id] EXCEPT !.claimed = TRUE]
    <3>2. s.pending[m.id] \in Pending
      BY <2>1, <3>1
    <3>3. /\ x \in Pending /\ x.claimed = TRUE
          /\ x.request = s.pending[m.id].request
      BY <3>2 DEF Pending
    <3> HIDE DEF m, x
    <3>4. /\ DOMAIN t.pending = DOMAIN s.pending
          /\ t.pending = [i \in DOMAIN s.pending |-> t.pending[i]]
          /\ t.pending[m.id] = x
          /\ \A i \in DOMAIN s.pending \ {m.id} : t.pending[i] = s.pending[i]
      BY <1>8, <2>2, <3>1 DEF x
    <3> QED
      BY <2>1, <3>3, <3>4
  <2>3. CASE m.kind # "provider.invoke_request"
    BY <1>1, <1>8, <2>1, <2>3 DEF WellFormed
  <2> QED
    BY <2>2, <2>3
<1> HIDE DEF p, m
<1>10. Typed(t)
  <2>1. t.pending \in [DOMAIN t.pending -> Pending]
    BY <1>9
  <2> QED
    BY <1>1, <1>3, <1>8, <2>1 DEF Typed
<1>11. DoraOf(t) = DoraOf(s) /\ Cardinality(DoraOf(s)) \in Nat
  BY <1>1, <1>9, PendingFinite DEF DoraOf, OfDora
<1>12. Len(t.outbound) \in Nat /\ Len(t.outbound) + 1 <= Len(s.outbound)
  BY <1>2, <1>3, <1>8
<1>13. Balanced(t, 0)
  BY <1>1, <1>3, <1>8, <1>11, <1>12, QueryAssumption DEF Balanced
<1>14. QueuedOnce(t)
  <2>1. ASSUME NEW j \in DOMAIN t.outbound
        PROVE  n + j \in DOMAIN q /\ t.outbound[j] = q[n + j]
    BY <1>2, <1>3, <1>8, <2>1
  <2>2. ASSUME NEW j \in DOMAIN t.outbound,
               t.outbound[j].kind = "provider.invoke_request"
        PROVE  t.outbound[j].id <= t.admitted
    BY <1>1, <1>8, <2>1, <2>2 DEF QueuedOnce
  <2>3. ASSUME NEW i \in DOMAIN t.pending, ~t.pending[i].claimed
        PROVE  \E a \in DOMAIN t.outbound :
                 \A j \in DOMAIN t.outbound : t.outbound[j] = Invoke(i) <=> j = a
    <3>1. i \in DOMAIN s.pending /\ ~s.pending[i].claimed
          /\ (m.kind = "provider.invoke_request" => i # m.id)
      BY <1>9, <2>3
    <3>2. PICK k \in DOMAIN q :
            \A j \in DOMAIN q : q[j] = Invoke(i) <=> j = k
      BY <1>1, <3>1 DEF QueuedOnce
    <3>3. q[k] = Invoke(i)
      BY <3>2
    <3>4. Valid(s, q[k])
      BY <3>1, <3>3, MessageTypes DEF Valid
    <3>5. k # n
      BY <3>1, <3>3, MessageTypes DEF m
    <3>6. k - n \in DOMAIN t.outbound /\ n + (k - n) = k
      BY <1>2, <1>3, <1>8, <3>2, <3>4, <3>5
    <3>7. t.outbound[k - n] = Invoke(i)
      BY <2>1, <3>3, <3>6
    <3>8. ASSUME NEW j \in DOMAIN t.outbound, t.outbound[j] = Invoke(i)
          PROVE  j = k - n
      <4>1. n + j = k
        BY <2>1, <3>2, <3>8
      <4> QED
        BY <1>2, <1>3, <1>8, <3>8, <4>1
    <3> QED
      BY <3>6, <3>7, <3>8
  <2> QED
    BY <2>2, <2>3 DEF QueuedOnce
<1>15. ASSUME NEW r \in Dora
       PROVE  Outstanding(s, r) = Outstanding(t, r)
                + (IF m.kind = "caller.invoke_response" /\ m.request = r
                   THEN 1 ELSE 0)
  <2>1. InFlight(t, r) = InFlight(s, r)
    BY <1>9 DEF InFlight, OfCaller
  <2>2. Cardinality(RepliesIn(q, r)) = Cardinality(RepliesIn(p, r))
          + (IF m.kind = "caller.invoke_response" /\ m.request = r
             THEN 1 ELSE 0)
    BY <1>2, <1>5, SuffixReplies DEF m, p
  <2>3. /\ Cardinality(InFlight(s, r)) \in Nat
        /\ Cardinality(RepliesIn(p, r)) \in Nat
    BY <1>1, <1>3, PendingFinite, RepliesFinite DEF InFlight, OfCaller
  <2> HIDE DEF q
  <2>4. RepliesIn(t.outbound, r) = RepliesIn(p, r)
    BY <1>8
  <2> QED
    BY <2>1, <2>2, <2>3, <2>4 DEF Outstanding, q
<1> QED
  BY <1>4, <1>10, <1>12, <1>13, <1>14, <1>15 DEF Boxed, m, t

\* The queue is only emptied when nothing in it is of use.
LEMMA DiscardBoxed ==
  ASSUME NEW s, Sound(s), Boxed(s, 0), Deliverable(s) = {}
  PROVE  LET t == DiscardOutbound(s)
         IN  /\ Boxed(t, 0) /\ t.outbound = <<>>
             /\ \A r \in Dora : Outstanding(t, r) = Outstanding(s, r)
<1> DEFINE q == s.outbound
           t == DiscardOutbound(s)
           T == {n \in DOMAIN q : Valid(s, q[n])}
<1>1. WellFormed(s) /\ Typed(s) /\ Balanced(s, 0) /\ QueuedOnce(s)
  BY DEF Sound, Kept, Boxed
<1>2. q \in Seq(Messages) /\ Len(q) \in Nat /\ DOMAIN q = 1..Len(q)
  BY <1>1, LenProperties DEF Typed
<1>3. \A n \in DOMAIN q : ~Valid(s, q[n])
  <2>1. ASSUME T # {} PROVE FALSE
    <3>1. T \in SUBSET Nat
      BY <1>2
    <3>2. PICK n \in T : \A k \in T : n <= k
      <4> HIDE DEF T
      <4> QED
        BY <2>1, <3>1, FirstOf
    <3>3. \A k \in 1..n - 1 : ~Valid(s, q[k])
      BY <1>2, <3>2
    <3> QED
      BY <3>2, <3>3 DEF Deliverable
  <2> QED
    BY <2>1
<1>4. /\ t.outbound = <<>> /\ t.leases = s.leases /\ t.statuses = s.statuses
      /\ t.reserved = s.reserved /\ t.future = s.future
      /\ t.admitted = s.admitted /\ t.pending = s.pending
  BY <1>1 DEF DiscardOutbound, WellFormed, IsState, Fields
<1> HIDE DEF t, T
<1>5. t.outbound \in Seq(Messages) /\ Len(t.outbound) = 0 /\ DOMAIN t.outbound = {}
  BY <1>4
<1>6. Typed(t)
  BY <1>1, <1>4, <1>5 DEF Typed
<1>7. Balanced(t, 0)
  BY <1>1, <1>2, <1>4, <1>5, PendingFinite, QueryAssumption
     DEF Balanced, DoraOf, OfDora
<1>8. QueuedOnce(t)
  <2>1. ASSUME NEW i \in DOMAIN s.pending, ~s.pending[i].claimed PROVE FALSE
    <3>1. PICK k \in DOMAIN q : q[k] = Invoke(i)
      BY <1>1, <2>1 DEF QueuedOnce
    <3>2. Valid(s, q[k])
      BY <2>1, <3>1, MessageTypes DEF Valid
    <3> QED
      BY <1>3, <3>1, <3>2
  <2> QED
    BY <1>4, <1>5, <2>1 DEF QueuedOnce
<1>9. ASSUME NEW r \in Dora PROVE Outstanding(t, r) = Outstanding(s, r)
  <2>1. RepliesIn(t.outbound, r) = {} /\ RepliesIn(s.outbound, r) = {}
    BY <1>3, <1>5 DEF RepliesIn, Valid
  <2>2. InFlight(t, r) = InFlight(s, r)
    BY <1>4 DEF InFlight, OfCaller
  <2> QED
    BY <2>1, <2>2 DEF Outstanding
<1> QED
  BY <1>4, <1>6, <1>7, <1>8, <1>9 DEF Boxed, t

-----------------------------------------------------------------------------
(* The threads and the mailbox.                                            *)

InHand(h, r) ==
  IF h.kind = "caller.invoke_response" /\ h.request = r THEN 1 ELSE 0

LoopTyped ==
  /\ clock \in 0..MaxClock
  /\ pc \in {"poll", "sweep", "drain", "send", "ended", "aborted"}
  /\ final \in BOOLEAN
  /\ hand \in Messages \cup {Nothing}
  /\ budget \in Nat /\ (pc = "send" => budget > 0)
  /\ seen \in 0..clock
  /\ received \in 0..clock
  /\ sent \subseteq Invocations
  /\ owed = [r \in Dora |-> owed[r]]

\* Only a sender has a message in its hand, and the books are balanced.
RepliesAccounted ==
  /\ pc # "send" => hand = Nothing
  /\ \A r \in Dora : owed[r] = Outstanding(service, r) + InHand(hand, r)

\* The last drain has budget left for all that the mailbox still holds, and
\* nothing is added to it.
LastDrain ==
  /\ final =>
       /\ ~service.accepting
       /\ pc \in {"drain", "send", "ended", "aborted"}
       /\ pc = "drain" => Len(service.outbound) <= budget
       /\ pc = "send" => Len(service.outbound) + 1 <= budget
       /\ pc = "ended" => service.outbound = <<>>
  /\ pc = "ended" => final

MailInv ==
  FateInv /\ Boxed(service, 0) /\ LoopTyped /\ RepliesAccounted /\ LastDrain

\* t owes what s does, in a mailbox as full, and does not open again.
Steady(s, t) ==
  Boxed(t, 0) /\ Quiet(s, t) /\ (~s.accepting => ~t.accepting)

\* What the proofs below use of MailInv.
LEMMA InMailInv ==
  ASSUME MailInv
  PROVE  /\ FateInv /\ Boxed(service, 0) /\ Sound(service) /\ WellFormed(service)
         /\ Identified(service) /\ Kept(service) /\ IsState(service)
         /\ clock \in Nat /\ seen \in Nat /\ received \in Nat
         /\ \A r : Outstanding(service, r) \in Nat
         /\ \A F \in SUBSET DOMAIN service.pending, word \in Answers :
              \A observed :
                Steady(service, Finish(service, F, word, observed))
<1>1. FateInv /\ Boxed(service, 0) /\ Sound(service) /\ WellFormed(service)
      /\ Identified(service) /\ Kept(service) /\ IsState(service)
  BY DEF MailInv, FateInv, IInv, Sound, Kept, WellFormed
<1>2. clock \in Nat /\ seen \in Nat /\ received \in Nat
  BY GatewayAssumption DEF MailInv, LoopTyped
<1>3. \A r : Outstanding(service, r) \in Nat
  BY <1>1, OutstandingNat DEF Boxed
<1>4. ASSUME NEW F \in SUBSET DOMAIN service.pending, NEW word \in Answers,
             NEW observed
      PROVE  Steady(service, Finish(service, F, word, observed))
  <2>1. /\ Boxed(Finish(service, F, word, observed), 0)
        /\ Quiet(service, Finish(service, F, word, observed))
    BY <1>1, FinishBoxed DEF Quiet
  <2>2. Shrunk(service, Finish(service, F, word, observed))
    BY <1>1, FinishShrinks
  <2> QED
    BY <2>1, <2>2 DEF Steady, Shrunk
<1> QED
  BY <1>1, <1>2, <1>3, <1>4

\* Noticing lapsed leases is steady.
LEMMA ExpireSteady ==
  ASSUME NEW s, Sound(s), Boxed(s, 0), NEW observed
  PROVE  Steady(s, ExpireLeases(s, observed))
BY ExpireBoxed, ExpireSound DEF Steady, Shrunk

\* The HTTP threads, and whoever closes the application.
LEMMA OthersSteady ==
  ASSUME MailInv, HttpThreads \/ ApplicationClose
  PROVE  /\ Boxed(service', 0)
         /\ \A r \in Dora : Outstanding(service', r) = Outstanding(service, r)
         /\ ~service.accepting => Steady(service, service')
<1>1. /\ Boxed(service, 0) /\ Sound(service) /\ WellFormed(service)
      /\ IsState(service) /\ clock \in Nat
      /\ \A r : Outstanding(service, r) \in Nat
      /\ \A F \in SUBSET DOMAIN service.pending, word \in Answers :
           \A observed :
             Steady(service, Finish(service, F, word, observed))
  BY InMailInv
<1>2. ASSUME NEW r \in Http, NEW observed \in 0..clock,
             NEW timeout \in 1..Timeout, SubmitHttp(r, timeout, observed)
      PROVE  /\ Boxed(service', 0)
             /\ \A q \in Dora : Outstanding(service', q) = Outstanding(service, q)
             /\ ~service.accepting => Steady(service, service')
  <2>1. /\ r \in Requests /\ r \notin Dora /\ Boxed(service, Slots(r))
        /\ observed + timeout \in Nat
    BY <1>1, QueryAssumption, GatewayAssumption DEF Requests, Slots
  <2>2. CASE service.accepting
    <3>1. service' = Admit(service, r, observed + timeout, observed)
          /\ service.admitted < MaxInvokes
      BY <1>2, <2>2 DEF SubmitHttp, SubmitHttpInvoke
    <3>2. Boxed(service', 0) /\ OwesOneMore(service, service', r)
      BY <1>1, <2>1, <3>1, AdmitBoxed
    <3> QED
      BY <1>1, <2>1, <2>2, <3>2 DEF OwesOneMore
  <2>3. CASE ~service.accepting
    <3>1. service' = Refuse(service, r, "closing")
      BY <1>2, <2>3 DEF SubmitHttp, SubmitHttpInvoke
    <3>2. Boxed(service', 0) /\ OwesOneMore(service, service', r)
      BY <1>1, <2>1, <3>1, RefuseBoxed DEF Answers
    <3>3. /\ service'.accepting = service.accepting
          /\ service'.outbound = service.outbound
          /\ service'.reserved = service.reserved
      BY <1>1, <2>1, <3>1 DEF Refuse, SetFuture, IsState, Fields
    <3>4. \A q \in Dora : Outstanding(service', q) = Outstanding(service, q)
      BY <1>1, <2>1, <3>2 DEF OwesOneMore
    <3> QED
      BY <2>3, <3>2, <3>3, <3>4 DEF Steady, Quiet
  <2> QED
    BY <2>2, <2>3
<1>3. ASSUME NEW r \in Http, HttpTimer(r) \/ HttpDisconnect(r)
      PROVE  Steady(service, service')
  <2>1. PICK word \in Answers :
          service' = CancelHttpInvoke(service, r, word, clock)
    BY <1>3 DEF HttpTimer, HttpDisconnect, Answers
  <2> QED
    BY <1>1, <2>1 DEF CancelHttpInvoke
<1>4. ASSUME NEW observed, HttpDiscovery(observed)
      PROVE  Steady(service, service')
  BY <1>1, <1>4, ExpireSteady DEF HttpDiscovery
<1>5. CASE ApplicationClose
  BY <1>1, <1>5, CloseBoxed DEF ApplicationClose, Steady, Quiet
<1>6. Steady(service, service') =>
        /\ Boxed(service', 0)
        /\ \A q \in Dora : Outstanding(service', q) = Outstanding(service, q)
  BY DEF Steady, Quiet
<1> QED
  BY <1>2, <1>3, <1>4, <1>5, <1>6 DEF HttpThreads

\* What the lifecycle thread is told.
LEMMA InputBoxed ==
  ASSUME MailInv, HandleInput
  PROVE  /\ Boxed(service', 0)
         /\ owed' = [r \in Dora |-> owed'[r]]
         /\ \A r \in Dora :
              owed'[r] = owed[r] + Outstanding(service', r)
                           - Outstanding(service, r)
<1> DEFINE Balance ==
             /\ owed' = [r \in Dora |-> owed'[r]]
             /\ \A r \in Dora :
                  owed'[r] = owed[r] + Outstanding(service', r)
                               - Outstanding(service, r)
<1>1. /\ Boxed(service, 0) /\ Sound(service) /\ clock \in Nat
      /\ seen \in Nat /\ received \in Nat
      /\ \A r : Outstanding(service, r) \in Nat
      /\ \A F \in SUBSET DOMAIN service.pending, word \in Answers :
           \A observed :
             Steady(service, Finish(service, F, word, observed))
  BY InMailInv
<1>2. /\ owed = [r \in Dora |-> owed[r]]
      /\ \A r \in Dora : owed[r] \in Nat
  BY <1>1 DEF MailInv, LoopTyped, RepliesAccounted, InHand
<1>3. ASSUME UNCHANGED owed,
             \A r \in Dora : Outstanding(service', r) = Outstanding(service, r)
      PROVE  Balance
  BY <1>1, <1>2, <1>3
<1>4. Steady(service, service') /\ UNCHANGED owed => Boxed(service', 0) /\ Balance
  BY <1>3 DEF Steady, Quiet
<1>5. ASSUME NEW r \in Dora, NEW remaining \in 0..Timeout,
             NEW observed \in Observations,
             HandleCallerInvoke(r, remaining, observed)
      PROVE  Boxed(service', 0) /\ Balance
  <2>1. /\ service' = CallerInvoke(service, r, observed + remaining, observed)
        /\ service.admitted < MaxInvokes
        /\ owed' = [owed EXCEPT ![r] =
                      IF TakesCallerInvoke(service, observed) THEN @ + 1 ELSE @]
    BY <1>5 DEF HandleCallerInvoke
  <2>2. observed + remaining \in Nat
    BY <1>1, GatewayAssumption DEF Observations
  <2>3. /\ Boxed(service', 0)
        /\ IF TakesCallerInvoke(service, observed)
           THEN OwesOneMore(service, service', r)
           ELSE \A q \in Dora : Outstanding(service', q) = Outstanding(service, q)
    BY <1>1, <2>1, <2>2, CallerInvokeBoxed
  <2>4. CASE TakesCallerInvoke(service, observed)
    <3>1. \A q \in Dora : owed'[q] = owed[q] + (IF q = r THEN 1 ELSE 0)
      BY <1>2, <2>1, <2>4
    <3>2. \A q \in Dora : Outstanding(service', q) =
                            Outstanding(service, q) + (IF q = r THEN 1 ELSE 0)
      BY <2>3, <2>4 DEF OwesOneMore
    <3>3. owed' = [q \in Dora |-> owed'[q]]
      BY <1>2, <2>1
    <3> QED
      BY <1>1, <1>2, <2>3, <3>1, <3>2, <3>3
  <2>5. CASE ~TakesCallerInvoke(service, observed)
    <3>1. UNCHANGED owed
      BY <1>2, <2>1, <2>5
    <3> QED
      BY <1>3, <2>3, <2>5, <3>1
  <2> QED
    BY <2>4, <2>5
<1>6. ASSUME NEW id \in Invocations, NEW word \in {"result", "accepted", "error"},
             NEW observed, HandleResponse(id, word, observed)
      PROVE  Boxed(service', 0) /\ Balance
  <2> DEFINE answer == IF word = "accepted" THEN "non_terminal" ELSE word
  <2>1. UNCHANGED owed /\ service' = ProviderResponse(service, id, word, observed)
    BY <1>6 DEF HandleResponse
  <2>2. CASE id \notin DOMAIN service.pending
    <3>1. UNCHANGED service
      BY <2>1, <2>2 DEF ProviderResponse
    <3> QED
      BY <1>1, <1>3, <2>1, <3>1
  <2>3. CASE id \in DOMAIN service.pending
    <3>1. service' = Finish(service, {id}, answer, observed)
      BY <2>1, <2>3 DEF ProviderResponse
    <3>2. answer \in Answers
      BY DEF Answers
    <3> HIDE DEF answer
    <3>3. Steady(service, service')
      BY <1>1, <2>3, <3>1, <3>2
    <3> QED
      BY <1>4, <2>1, <3>3
  <2> QED
    BY <2>2, <2>3
<1>7. ASSUME NEW route \in Endpoints, NEW table, Table!IsLeaseTable(table),
             NEW gone, NEW observed, UNCHANGED owed,
             service' = Mutate(service, route, table, gone, observed)
      PROVE  Boxed(service', 0) /\ Balance
  <2>1. /\ Boxed(service', 0)
        /\ \A r \in Dora : Outstanding(service', r) = Outstanding(service, r)
    BY <1>1, <1>7, MutateBoxed
  <2> QED
    BY <1>3, <1>7, <2>1
<1>8. \A at : Table!IsLeaseTable(Table!Live(service.leases, at))
  BY <1>1, LiveIsTable DEF Boxed, Typed
<1>9. ASSUME NEW reg \in Table!Registration, NEW route \in Endpoints,
             NEW observed, NEW at \in received..observed,
             HandleRegister(reg, route, at, observed)
      PROVE  Boxed(service', 0) /\ Balance
  <2> DEFINE live == Table!Live(service.leases, at)
             table == Table!Announce(live, reg, route, at)
             gone == Table!Identities(service.leases,
                       Table!RemovedByRegister(service.leases, reg, route, at))
  <2>1. at \in Nat
    BY <1>1
  <2>2. Table!IsLeaseTable(table)
    <3> HIDE DEF live
    <3>1. Table!IsLeaseTable(live)
      BY <1>8 DEF live
    <3> QED
      BY <2>1, <3>1, AnnounceIsTable
  <2>3. UNCHANGED owed /\ service' = Mutate(service, route, table, gone, observed)
    BY <1>9 DEF HandleRegister, ProviderRegister
  <2> HIDE DEF table, gone
  <2> QED
    BY <1>7, <2>2, <2>3
<1>10. ASSUME NEW wd \in Table!Withdrawal, NEW route \in Endpoints,
              NEW observed, NEW at \in received..observed,
              HandleUnregister(wd, route, at, observed)
       PROVE  Boxed(service', 0) /\ Balance
  <2> DEFINE live == Table!Live(service.leases, at)
             table == Table!Withdraw(live, wd, route)
             gone == Table!Identities(service.leases,
                       Table!RemovedByUnregister(service.leases, wd, route, at))
  <2>1. Table!IsLeaseTable(table)
    <3> HIDE DEF live
    <3>1. Table!IsLeaseTable(live)
      BY <1>8 DEF live
    <3> QED
      BY <3>1, WithdrawIsTable
  <2>2. UNCHANGED owed /\ service' = Mutate(service, route, table, gone, observed)
    BY <1>10 DEF HandleUnregister, ProviderUnregister
  <2> HIDE DEF table, gone
  <2> QED
    BY <1>7, <2>1, <2>2
<1>11. ASSUME NEW identity \in Identity, NEW at, HandleStatus(identity, at)
       PROVE  Boxed(service', 0) /\ Balance
  <2>1. UNCHANGED owed /\ service' = EndpointStatus(service, identity, at)
    BY <1>11 DEF HandleStatus
  <2> QED
    BY <1>1, <1>3, <2>1, StatusBoxed DEF Quiet
<1> HIDE DEF Balance
<1>12. Boxed(service', 0) /\ Balance
  BY <1>5, <1>6, <1>9, <1>10, <1>11 DEF HandleInput
<1> QED
  BY <1>12 DEF Balance

\* Every step keeps the books balanced.
LEMMA StepAccounted ==
  ASSUME MailInv, [Next]_vars
  PROVE  /\ Boxed(service', 0)
         /\ owed' = [r \in Dora |-> owed'[r]]
         /\ RepliesAccounted'
<1> DEFINE Same ==
             \A r \in Dora : Outstanding(service', r) = Outstanding(service, r)
<1>1. /\ Boxed(service, 0) /\ Sound(service) /\ Kept(service)
      /\ \A r : Outstanding(service, r) \in Nat
      /\ \A F \in SUBSET DOMAIN service.pending, word \in Answers :
           \A observed :
             Steady(service, Finish(service, F, word, observed))
  BY InMailInv
<1>2. /\ owed = [r \in Dora |-> owed[r]] /\ hand \in Messages \cup {Nothing}
      /\ pc # "send" => hand = Nothing
      /\ \A r \in Dora : owed[r] = Outstanding(service, r) + InHand(hand, r)
  BY DEF MailInv, LoopTyped, RepliesAccounted
<1>3. \A r \in Dora : InHand(Nothing, r) = 0
  BY DEF InHand, Nothing
<1>4. ASSUME UNCHANGED <<hand, owed>>, Same, pc' # "send" => hand = Nothing
      PROVE  owed' = [r \in Dora |-> owed'[r]] /\ RepliesAccounted'
  BY <1>2, <1>4 DEF RepliesAccounted
<1>5. CASE HttpThreads \/ ApplicationClose
  <2>1. UNCHANGED <<hand, owed, pc>>
    BY <1>5 DEF HttpThreads, ApplicationClose, SubmitHttp, HttpTimer,
                HttpDisconnect, HttpDiscovery, HttpStep, lifecycle
  <2>2. Boxed(service', 0) /\ Same
    BY <1>5, OthersSteady
  <2> QED
    BY <1>2, <1>4, <2>1, <2>2
<1>6. CASE HandleInput
  <2>1. pc = "poll" /\ pc' = "sweep" /\ UNCHANGED hand
    BY <1>6 DEF HandleInput, HandleCallerInvoke, HandleResponse,
                HandleRegister, HandleUnregister, HandleStatus, Handled
  <2>2. /\ Boxed(service', 0) /\ owed' = [r \in Dora |-> owed'[r]]
        /\ \A r \in Dora : owed'[r] = owed[r] + Outstanding(service', r)
                                        - Outstanding(service, r)
    BY <1>6, InputBoxed
  <2>3. Typed(service') /\ WellFormed(service')
    BY <2>2, StepSound DEF Boxed, MailInv, FateInv, IInv, Sound, Kept
  <2>4. \A r \in Dora : Outstanding(service', r) \in Nat
    BY <2>3, OutstandingNat
  <2>5. \A r \in Dora : owed'[r] = Outstanding(service', r) + InHand(hand', r)
    BY <1>1, <1>2, <1>3, <2>1, <2>2, <2>4
  <2> QED
    BY <1>2, <2>1, <2>2, <2>5 DEF RepliesAccounted
<1>7. CASE PollIdle \/ Tick \/ UNCHANGED vars
  <2>1. UNCHANGED <<service, hand, owed>> /\ (pc' # "send" => pc # "send")
    BY <1>7 DEF PollIdle, Handled, Tick, vars, lifecycle
  <2>2. Same
    BY <2>1
  <2> QED
    BY <1>1, <1>2, <1>4, <2>1, <2>2
<1>8. ASSUME NEW observed, SweepOnce(observed)
      PROVE  /\ Boxed(service', 0) /\ owed' = [r \in Dora |-> owed'[r]]
             /\ RepliesAccounted'
  <2>1. /\ service' = Sweep(service, observed) /\ pc = "sweep"
        /\ UNCHANGED <<hand, owed>>
    BY <1>8 DEF SweepOnce
  <2>2. Boxed(service', 0) /\ Same
    BY <1>1, <2>1, SweepBoxed DEF Quiet
  <2> QED
    BY <1>2, <1>4, <2>1, <2>2
<1>9. CASE FinishRun
  <2>1. /\ service' = BeginClose(service, clock) /\ pc = "poll"
        /\ UNCHANGED <<hand, owed>>
    BY <1>9 DEF FinishRun
  <2>2. Boxed(service', 0) /\ Same
    BY <1>1, <2>1, CloseBoxed DEF Quiet
  <2> QED
    BY <1>2, <1>4, <2>1, <2>2
<1>10. CASE Take
  <2>1. PICK n \in Deliverable(service) :
          hand' = service.outbound[n] /\ service' = TakeOutbound(service, n)
    BY <1>10 DEF Take
  <2>2. pc = "drain" /\ pc' = "send" /\ UNCHANGED owed
    BY <1>10 DEF Take
  <2>3. /\ Boxed(service', 0)
        /\ \A r \in Dora :
             Outstanding(service, r) = Outstanding(service', r) + InHand(hand', r)
    BY <1>1, <2>1, TakeBoxed DEF InHand
  <2>4. \A r \in Dora : owed'[r] = Outstanding(service', r) + InHand(hand', r)
    BY <1>1, <1>2, <1>3, <2>2, <2>3
  <2> QED
    BY <1>2, <2>2, <2>3, <2>4 DEF RepliesAccounted
<1>11. CASE EndDrain
  <2>1. pc = "drain" /\ UNCHANGED <<hand, owed>>
    BY <1>11 DEF EndDrain
  <2>2. Boxed(service', 0) /\ Same
    BY <1>1, <1>11, DiscardBoxed DEF EndDrain
  <2> QED
    BY <1>2, <1>4, <2>1, <2>2
<1>12. ASSUME HandedOver, Boxed(service', 0), Same
       PROVE  owed' = [r \in Dora |-> owed'[r]] /\ RepliesAccounted'
  <2>1. \A r \in Dora : owed'[r] = IF InHand(hand, r) = 1 THEN owed[r] - 1
                                   ELSE owed[r]
    BY <1>12 DEF HandedOver, InHand
  <2>2. \A r \in Dora : InHand(hand, r) \in {0, 1}
    BY DEF InHand
  <2>3. \A r \in Dora : owed'[r] = Outstanding(service', r) + 0
    BY <1>1, <1>2, <1>12, <2>1, <2>2
  <2>4. hand' = Nothing /\ owed' = [r \in Dora |-> owed'[r]]
    BY <1>12 DEF HandedOver
  <2> QED
    BY <1>3, <2>3, <2>4 DEF RepliesAccounted
<1>13. CASE SendOk
  <2>1. HandedOver /\ UNCHANGED service
    BY <1>13 DEF SendOk
  <2> QED
    BY <1>1, <1>12, <2>1
<1>14. CASE SendFails
  <2>1. HandedOver /\ service' = OutputFailed(service, hand, clock)
    BY <1>14 DEF SendFails
  <2>2. "transport" \in Answers
    BY DEF Answers
  <2>3. Boxed(service', 0) /\ Same
    BY <1>1, <2>1, <2>2 DEF OutputFailed, Steady, Quiet
  <2> QED
    BY <1>12, <2>1, <2>3
<1> QED
  BY <1>5, <1>6, <1>7, <1>8, <1>9, <1>10, <1>11, <1>13, <1>14
     DEF Next, Lifecycle

\* Every step leaves the variables of the threads well typed.
LEMMA StepLoopTyped ==
  ASSUME MailInv, [Next]_vars, owed' = [r \in Dora |-> owed'[r]]
  PROVE  LoopTyped'
<1>1. LoopTyped /\ clock \in Nat /\ seen \in Nat /\ received \in Nat
      /\ Boxed(service, 0) /\ Sound(service)
  BY InMailInv DEF MailInv
<1>2. CASE HttpThreads \/ ApplicationClose \/ UNCHANGED vars
  <2>1. UNCHANGED <<clock, lifecycle, seen, received, sent>>
    BY <1>2 DEF HttpThreads, ApplicationClose, SubmitHttp, HttpTimer,
                HttpDisconnect, HttpDiscovery, HttpStep, vars
  <2> QED
    BY <1>1, <2>1 DEF LoopTyped, lifecycle
<1>3. CASE Tick
  BY <1>1, <1>3, GatewayAssumption DEF LoopTyped, Tick, lifecycle
<1>4. CASE HandleInput
  <2>1. /\ pc' = "sweep" /\ seen' = clock
        /\ UNCHANGED <<clock, final, hand, budget, sent>>
    BY <1>4 DEF HandleInput, HandleCallerInvoke, HandleResponse,
                HandleRegister, HandleUnregister, HandleStatus, Handled
  <2>2. \A observed \in Observations :
          \A at \in received..observed : at \in 0..clock
    BY <1>1 DEF Observations
  <2>3. received' \in 0..clock
    BY <1>1, <1>4, <2>2
       DEF HandleInput, HandleCallerInvoke, HandleResponse,
           HandleRegister, HandleUnregister, HandleStatus, LoopTyped
  <2> QED
    BY <1>1, <2>1, <2>3 DEF LoopTyped
<1>5. CASE PollIdle
  BY <1>1, <1>5 DEF LoopTyped, PollIdle, Handled
<1>6. ASSUME NEW observed, SweepOnce(observed)
      PROVE  LoopTyped'
  BY <1>1, <1>6, GatewayAssumption DEF LoopTyped, SweepOnce, Batch
<1>7. CASE Take
  <2>1. hand' \in Messages
    BY <1>1, <1>7, TakeBoxed DEF Take
  <2> QED
    BY <1>1, <1>7, <2>1 DEF LoopTyped, Take
<1>8. CASE EndDrain
  BY <1>1, <1>8 DEF LoopTyped, EndDrain
<1>9. hand.kind = "provider.invoke_request" => hand.id \in Invocations
  BY <1>1, MessageKinds DEF LoopTyped, Nothing
<1>10. CASE SendOk
  <2>1. sent' \subseteq Invocations
    BY <1>1, <1>9, <1>10 DEF LoopTyped, SendOk
  <2>2. budget' \in Nat /\ pc' = "drain"
    BY <1>1, <1>10 DEF LoopTyped, SendOk, HandedOver
  <2> QED
    BY <1>1, <1>10, <2>1, <2>2 DEF LoopTyped, SendOk, HandedOver
<1>11. CASE SendFails
  <2>1. sent' \subseteq Invocations
    BY <1>1, <1>9, <1>11 DEF LoopTyped, SendFails
  <2>2. pc' \in {"aborted", "poll"} /\ UNCHANGED budget
    BY <1>11 DEF SendFails
  <2> QED
    BY <1>1, <1>11, <2>1, <2>2 DEF LoopTyped, SendFails, HandedOver
<1>12. CASE FinishRun
  BY <1>1, <1>12, QueryAssumption DEF LoopTyped, FinishRun, FinalBatch
<1> QED
  BY <1>2, <1>3, <1>4, <1>5, <1>6, <1>7, <1>8, <1>10, <1>11, <1>12
     DEF Next, Lifecycle

\* A closed gateway holds no slots.
LEMMA ClosedSlots ==
  ASSUME NEW s, Kept(s), Balanced(s, 0), ~s.accepting
  PROVE  s.reserved = 0
<1>1. DoraOf(s) = {}
  BY DEF Kept, EmptyOnceClosed, DoraOf, OfDora
<1> QED
  BY <1>1, FS_EmptySet DEF Balanced

\* Nothing is added to the mailbox once the last drain has begun.
LEMMA StepLastDrain ==
  ASSUME MailInv, [Next]_vars, Boxed(service', 0)
  PROVE  LastDrain'
<1>1. /\ LoopTyped /\ LastDrain /\ Boxed(service, 0) /\ Sound(service)
      /\ Kept(service)
      /\ \A F \in SUBSET DOMAIN service.pending, word \in Answers :
           \A observed :
             Steady(service, Finish(service, F, word, observed))
  BY InMailInv DEF MailInv
<1>2. Kept(service')
  BY StepSound DEF MailInv, FateInv, IInv, Sound
<1>3. /\ service.outbound \in Seq(Messages) /\ Len(service.outbound) \in Nat
      /\ service'.outbound \in Seq(Messages) /\ Len(service'.outbound) \in Nat
  <2>1. service.outbound \in Seq(Messages) /\ service'.outbound \in Seq(Messages)
    BY <1>1 DEF Boxed, Typed
  <2> QED
    BY <2>1, LenProperties
<1>4. ASSUME final, Steady(service, service')
      PROVE  /\ ~service'.accepting
             /\ Len(service'.outbound) = Len(service.outbound)
             /\ service.outbound = <<>> => service'.outbound = <<>>
  <2>1. ~service.accepting /\ ~service'.accepting
    BY <1>1, <1>4 DEF LastDrain, Steady
  <2>2. service.reserved = 0 /\ service'.reserved = 0
    BY <1>1, <1>2, <2>1, ClosedSlots DEF Boxed
  <2>3. Len(service'.outbound) + service'.reserved =
          Len(service.outbound) + service.reserved
    BY <1>4 DEF Steady, Quiet
  <2>4. Len(service'.outbound) = Len(service.outbound)
    BY <1>3, <2>2, <2>3
  <2> QED
    BY <1>3, <2>1, <2>4
<1>5. CASE HttpThreads \/ ApplicationClose
  <2>1. UNCHANGED lifecycle
    BY <1>5 DEF HttpThreads, ApplicationClose, SubmitHttp, HttpTimer,
                HttpDisconnect, HttpDiscovery, HttpStep
  <2>2. final => Steady(service, service')
    BY <1>1, <1>5, OthersSteady DEF LastDrain
  <2> QED
    BY <1>1, <1>4, <2>1, <2>2 DEF LastDrain, lifecycle
<1>6. CASE Tick \/ UNCHANGED vars
  BY <1>1, <1>6 DEF LastDrain, lifecycle, Tick, vars
<1>7. CASE HandleInput \/ PollIdle
  <2>1. pc = "poll" /\ pc' = "sweep" /\ UNCHANGED final
    BY <1>7 DEF HandleInput, HandleCallerInvoke, HandleResponse, HandleRegister,
                HandleUnregister, HandleStatus, PollIdle, Handled
  <2> QED
    BY <1>1, <2>1 DEF LastDrain
<1>8. ASSUME NEW observed, SweepOnce(observed)
      PROVE  LastDrain'
  BY <1>1, <1>8 DEF LastDrain, SweepOnce
<1>9. CASE Take
  <2>1. /\ Len(service'.outbound) + 1 <= Len(service.outbound)
        /\ service'.accepting = service.accepting
    <3>1. PICK n \in Deliverable(service) : service' = TakeOutbound(service, n)
      BY <1>9 DEF Take
    <3>2. Len(service'.outbound) + 1 <= Len(service.outbound)
      BY <1>1, <3>1, TakeBoxed
    <3>3. IsState(PopOutbound(service, n))
          /\ PopOutbound(service, n).accepting = service.accepting
      BY <1>1 DEF PopOutbound, Kept, WellFormed, IsState, Fields
    <3>4. service'.accepting = PopOutbound(service, n).accepting
      BY <3>1, <3>3 DEF TakeOutbound, IsState, Fields
    <3> QED
      BY <3>2, <3>3, <3>4
  <2>2. pc = "drain" /\ pc' = "send" /\ UNCHANGED <<final, budget>>
    BY <1>9 DEF Take
  <2>3. final => Len(service'.outbound) + 1 <= budget
    BY <1>1, <1>3, <2>1, <2>2 DEF LastDrain, LoopTyped
  <2> QED
    BY <1>1, <2>1, <2>2, <2>3 DEF LastDrain
<1>10. CASE EndDrain
  <2>1. /\ pc = "drain" /\ UNCHANGED final
        /\ pc' = IF final THEN "ended" ELSE "poll"
    BY <1>10 DEF EndDrain
  <2>2. service'.accepting = service.accepting
    BY <1>1, <1>10 DEF EndDrain, DiscardOutbound, Kept, WellFormed, IsState, Fields
  <2>3. final => service'.outbound = <<>>
    <3>1. CASE budget = 0 /\ UNCHANGED service
      BY <1>1, <1>3, <2>1, <3>1 DEF LastDrain
    <3>2. CASE Deliverable(service) = {} /\ service' = DiscardOutbound(service)
      BY <1>1, <3>2, DiscardBoxed
    <3> QED
      BY <1>10, <3>1, <3>2 DEF EndDrain
  <2> QED
    BY <1>1, <2>1, <2>2, <2>3 DEF LastDrain
<1>11. CASE SendOk
  <2>1. /\ pc = "send" /\ pc' = "drain" /\ budget' = budget - 1
        /\ UNCHANGED <<final, service>>
    BY <1>11 DEF SendOk, HandedOver
  <2>2. final => Len(service'.outbound) <= budget'
    BY <1>1, <1>3, <2>1 DEF LastDrain, LoopTyped
  <2> QED
    BY <1>1, <2>1, <2>2 DEF LastDrain
<1>12. CASE SendFails
  <2>1. /\ service' = OutputFailed(service, hand, clock) /\ UNCHANGED final
        /\ pc' = IF final THEN "aborted" ELSE "poll"
    BY <1>12 DEF SendFails, HandedOver
  <2>2. "transport" \in Answers
    BY DEF Answers
  <2>3. ~service.accepting => ~service'.accepting
    BY <1>1, <2>1, <2>2 DEF OutputFailed, Steady
  <2> QED
    BY <1>1, <2>1, <2>3 DEF LastDrain
<1>13. CASE FinishRun
  <2>1. /\ service' = BeginClose(service, clock) /\ pc' = "drain"
        /\ final' = TRUE /\ budget' = Capacity
    BY <1>13 DEF FinishRun, FinalBatch
  <2>2. ~service'.accepting
    BY <1>1, <2>1, CloseBoxed
  <2>3. /\ service'.reserved = 0
        /\ Len(service'.outbound) + service'.reserved <= Capacity
    BY <1>2, <2>2, ClosedSlots DEF Boxed, Balanced
  <2>4. Len(service'.outbound) <= Capacity
    BY <1>3, <2>3
  <2> QED
    BY <2>1, <2>2, <2>4 DEF LastDrain
<1> QED
  BY <1>5, <1>6, <1>7, <1>8, <1>9, <1>10, <1>11, <1>12, <1>13
     DEF Next, Lifecycle

\* MailInv holds at the start.
LEMMA InitMail == Init /\ FateInv => MailInv
<1> SUFFICES ASSUME Init, FateInv PROVE MailInv
  OBVIOUS
<1>1. /\ service.leases = <<>> /\ service.statuses = {}
      /\ service.pending = <<>> /\ service.outbound = <<>>
      /\ service.reserved = 0 /\ service.admitted = 0
      /\ service.future = [r \in Http |-> "none"]
  BY DEF Init, NewService
<1>2. /\ DOMAIN service.pending = {} /\ DOMAIN service.leases = {}
      /\ DOMAIN service.outbound = {} /\ Len(service.outbound) = 0
      /\ service.outbound \in Seq(Messages)
  BY <1>1
<1>3. Typed(service)
  <2>1. service.pending \in [DOMAIN service.pending -> Pending]
    <3>1. service.pending = [i \in DOMAIN service.pending |-> service.pending[i]]
      BY DEF FateInv, IInv, Sound, Kept, WellFormed
    <3> QED
      BY <1>2, <3>1
  <2>2. Table!IsLeaseTable(service.leases)
    <3>1. service.leases = [e \in {} |-> service.leases[e]]
      BY <1>1
    <3> QED
      BY <1>2, <3>1 DEF Table!IsLeaseTable
  <2> QED
    BY <1>1, <1>2, <2>1, <2>2, QueryAssumption DEF Typed
<1>4. /\ DoraOf(service) = {}
      /\ \A r : InFlight(service, r) = {}
      /\ \A r : RepliesIn(service.outbound, r) = {}
  BY <1>2 DEF DoraOf, OfDora, InFlight, OfCaller, RepliesIn
<1>5. Balanced(service, 0)
  BY <1>1, <1>2, <1>4, FS_EmptySet, QueryAssumption DEF Balanced
<1>6. QueuedOnce(service)
  BY <1>2 DEF QueuedOnce
<1>7. LoopTyped
  <2>1. final \in BOOLEAN
    BY Zenon DEF Init
  <2>2. owed = [r \in Dora |-> owed[r]]
    BY DEF Init
  <2> QED
    BY <2>1, <2>2, GatewayAssumption DEF Init, LoopTyped
<1>8. RepliesAccounted
  <2>1. \A r : Outstanding(service, r) = 0
    BY <1>4, FS_EmptySet DEF Outstanding
  <2>2. \A r : InHand(hand, r) = 0
    BY DEF Init, Nothing, InHand
  <2> QED
    BY <2>1, <2>2 DEF Init, RepliesAccounted
<1>9. LastDrain
  BY DEF Init, LastDrain
<1> QED
  BY <1>3, <1>5, <1>6, <1>7, <1>8, <1>9 DEF MailInv, Boxed

\* MailInv is an invariant.
LEMMA AlwaysMail == Spec => []MailInv
<1>1. MailInv /\ [Next]_vars /\ FateInv' => MailInv'
  <2> SUFFICES ASSUME MailInv, [Next]_vars, FateInv' PROVE MailInv'
    OBVIOUS
  <2>1. /\ Boxed(service', 0) /\ owed' = [r \in Dora |-> owed'[r]]
        /\ RepliesAccounted'
    BY StepAccounted
  <2>2. LoopTyped' /\ LastDrain'
    BY <2>1, StepLoopTyped, StepLastDrain
  <2> QED
    BY <2>1, <2>2 DEF MailInv, Boxed, Typed, Balanced, QueuedOnce, DoraOf, OfDora
<1> QED
  BY <1>1, InitMail, AlwaysFated, PTL DEF Spec

\* Every piece of state has the shape its use relies on; among it, that no
\* clock reading is ahead of the clock.
THEOREM TypeCorrect == Spec => []TypeOK
<1>1. MailInv => TypeOK
  <2> SUFFICES ASSUME MailInv PROVE TypeOK
    OBVIOUS
  <2> DEFINE s == service
  <2>1. /\ Typed(s) /\ WellFormed(s) /\ Identified(s) /\ IsState(s)
        /\ Balanced(s, 0) /\ Fated(s)
        /\ \A r : Outstanding(s, r) \in Nat
    BY InMailInv DEF Boxed, FateInv
  <2>2. s = [accepting |-> s.accepting, leases |-> s.leases,
             statuses |-> s.statuses, pending |-> s.pending,
             logical |-> s.logical, outbound |-> s.outbound,
             reserved |-> s.reserved, future |-> s.future,
             admitted |-> s.admitted, fate |-> s.fate]
    <3> HIDE DEF s
    <3> QED
      BY <2>1 DEF IsState, Fields
  <2> HIDE DEF s
  <2>3. s.logical \subseteq Requests
    BY <2>1 DEF WellFormed, Identified
  <2>4. s.reserved \in Nat
    BY <2>1, PendingFinite DEF Balanced, DoraOf, OfDora
  <2>5. s.admitted \in 0..MaxInvokes
    BY <2>1, QueryAssumption DEF WellFormed, Typed
  <2>6. s.fate \in [Invocations -> Answers \cup {"none"}]
    <3>1. Contract!Unsent \cup Contract!Sent \subseteq Answers
      BY DEF Contract!Unsent, Contract!Sent, Contract!Anytime, Answers
    <3> QED
      BY <2>1, <3>1 DEF Fated
  <2>7. IsService(s)
    BY <2>1, <2>2, <2>3, <2>4, <2>5, <2>6 DEF IsService, WellFormed, Typed
  <2>8. owed \in [Dora -> Nat]
    BY <2>1 DEF MailInv, LoopTyped, RepliesAccounted, InHand, s
  <2> QED
    BY <2>7, <2>8 DEF MailInv, LoopTyped, TypeOK, s
<1> QED
  BY <1>1, AlwaysMail, PTL

\* Every Dora invocation in flight holds one slot of the mailbox, for its
\* answer, and the mailbox never promises more room than it has.
THEOREM SlotsAlwaysBalanced == Spec => []SlotsBalanced
<1>1. MailInv => SlotsBalanced
  <2> SUFFICES ASSUME MailInv PROVE SlotsBalanced
    OBVIOUS
  <2>1. DoraPending = DoraOf(service) /\ Balanced(service, 0)
    BY InMailInv DEF DoraPending, DoraOf, OfDora, Boxed
  <2>2. Cardinality(DoraOf(service)) \in Nat
    BY InMailInv, PendingFinite DEF DoraOf, OfDora
  <2> QED
    BY <2>1, <2>2 DEF Balanced, SlotsBalanced
<1> QED
  BY <1>1, AlwaysMail, PTL

\* No invocation that waits to be dispatched is lost from the mailbox, and
\* none is in it twice.
THEOREM UnclaimedAlwaysQueuedOnce == Spec => []UnclaimedIsQueuedOnce
<1>1. MailInv => UnclaimedIsQueuedOnce
  BY DEF MailInv, Boxed, QueuedOnce, UnclaimedIsQueuedOnce
<1> QED
  BY <1>1, AlwaysMail, PTL

\* Whatever becomes of a Dora caller's request once it was taken, one reply is
\* on its way: with the invocation, in the mailbox or in the sender's hand.
THEOREM OneReplyAlwaysPerRequest == Spec => []OneReplyPerRequest
<1>1. MailInv => OneReplyPerRequest
  <2> SUFFICES ASSUME MailInv, NEW r \in Dora
               PROVE  owed[r] = Cardinality(Waiting(r))
                        + Cardinality(RepliesIn(service.outbound, r))
                        + InHand(hand, r)
    BY DEF OneReplyPerRequest, RepliesIn, InHand
  <2>1. Waiting(r) = InFlight(service, r)
    BY DEF Waiting, InFlight, OfCaller
  <2> QED
    BY <2>1 DEF MailInv, RepliesAccounted, Outstanding
<1> QED
  BY <1>1, AlwaysMail, PTL

\* A last drain that no failing send cut short has sent every reply there was
\* to send: its budget, the capacity of the mailbox, is enough.
THEOREM FinalDrainAlwaysAnswersAll == Spec => []FinalDrainAnswersAll
<1>1. MailInv => FinalDrainAnswersAll
  <2> SUFFICES ASSUME MailInv, pc = "ended"
               PROVE  service.outbound = <<>> /\ \A r \in Dora : owed[r] = 0
    BY DEF FinalDrainAnswersAll
  <2>1. service.outbound = <<>> /\ ~service.accepting /\ hand = Nothing
    BY DEF MailInv, LastDrain, RepliesAccounted
  <2>2. DOMAIN service.pending = {}
    BY <2>1, InMailInv DEF Kept, EmptyOnceClosed
  <2>3. ASSUME NEW r \in Dora PROVE owed[r] = 0
    <3>1. InFlight(service, r) = {} /\ RepliesIn(service.outbound, r) = {}
      BY <2>1, <2>2 DEF InFlight, OfCaller, RepliesIn
    <3>2. Outstanding(service, r) = 0
      BY <3>1, FS_EmptySet DEF Outstanding
    <3> QED
      BY <2>1, <3>2 DEF MailInv, RepliesAccounted, InHand, Nothing
  <2> QED
    BY <2>1, <2>3
<1> QED
  BY <1>1, AlwaysMail, PTL
=============================================================================
