-------------------------- MODULE ToolEndpointProofs --------------------------
(***************************************************************************)
(* Proofs about ToolEndpoint, for any keys, requests and emissions, any    *)
(* numbers of permits and of retained records, any buffer of early events, *)
(* and whatever the provider's callbacks return.                           *)
(***************************************************************************)
EXTENDS ToolEndpoint, SequenceFacts, FiniteSetTheorems

-----------------------------------------------------------------------------
(* What holds of a handler by itself.                                      *)

Handlers == [records : Seq(Record), table : Seq(Nat), active : Nat]

Holders(h) == {i \in DOMAIN h.records : h.records[i].permit}

\* Permits are counted, and the table retains each execution once, up to its
\* bound, and those that run or are awaited.
TableSound(h) ==
  /\ IsInjective(h.table) /\ Len(h.table) <= MaxRetained
  /\ Range(h.table) \subseteq DOMAIN h.records
  /\ \A i, j \in Range(h.table) : h.records[i].key = h.records[j].key => i = j
  /\ h.active = Cardinality(Holders(h)) /\ h.active <= MaxConcurrency
  /\ \A i \in DOMAIN h.records :
       /\ h.records[i].permit => h.records[i].started
       /\ h.records[i].started /\ (h.records[i].permit \/ ~h.records[i].ready)
            => i \in Range(h.table)

\* A record knows one end at most, by its status, result and outcome.
OneEnd(record) ==
  /\ record.result # None => record.status = record.result
  /\ record.status \in Terminal => record.result # None
  /\ record.ready => record.outcome # None
  /\ record.outcome \in Terminal => record.result = record.outcome

HandlerSound(h) ==
  /\ h \in Handlers /\ TableSound(h)
  /\ \A i \in DOMAIN h.records : OneEnd(h.records[i])

-----------------------------------------------------------------------------
(* The requests.                                                           *)

\* Request t starts record i, or publishes its response and early events.
Starts(t, i) == request[t].stage = "starting" /\ request[t].record = i
Responds(t, i) == request[t].stage = "responding" /\ request[t].record = i

\* It waits for the emitter's lock, to close it.
Closes(t, i) == request[t].stage = "closing" /\ request[t].record = i

\* Requests hold records that were made, and tell what these know.
RequestsSound ==
  /\ \A t \in Requests :
       /\ request[t].stage \in {"starting", "waiting", "responding", "closing"}
            => request[t].record \in DOMAIN records
       /\ request[t].stage = "done" => request[t].record \in DOMAIN records \cup {0}
       /\ request[t].stage \in {"responding", "closing", "done"} =>
            (request[t].record # 0 /\ request[t].reply \in Terminal
               => records[request[t].record].result = request[t].reply)
  /\ \A t, u \in Requests, i \in DOMAIN records :
       (Starts(t, i) \/ Responds(t, i)) /\ (Starts(u, i) \/ Responds(u, i)) => t = u

\* An execution that starts has published nothing, and buffers its events.
StartsAfresh ==
  \A t \in Requests, i \in DOMAIN records : Starts(t, i) =>
    /\ records[i].started /\ ~records[i].ready /\ ~records[i].accepted
    /\ wire[i] = <<>>
    /\ records[i].next = Len(records[i].buffer)
    /\ \A n \in DOMAIN records[i].buffer : records[i].buffer[n].number = n - 1

-----------------------------------------------------------------------------
(* The emissions.                                                          *)

\* Emission e holds the lock of record i, or waits for it.
Queued(e, i) ==
  emission[e].stage \in {"enter", "number", "clear", "publish"}
    /\ emission[e].record = i
Publishes(e, i) == emission[e].stage = "publish" /\ emission[e].record = i

\* It is to draw a number.
Unnumbered(e, i) ==
  emission[e].stage \in {"establish", "number"} /\ emission[e].record = i

\* It is a terminal event on its way, or one that fails.
Ends(e, i) ==
  /\ emission[e].stage \in {"establish", "number", "clear"}
  /\ emission[e].record = i /\ emission[e].event.phase # Progress

EmissionsSound ==
  \A e \in Emissions :
    /\ emission[e].stage # "idle" =>
         emission[e].record \in DOMAIN records /\ records[emission[e].record].started
    /\ emission[e].stage \in {"establish", "clear"} =>
         emission[e].event.phase # Progress
    /\ emission[e].stage = "publish" => records[emission[e].record].accepted

\* The lock of an emitter: who waits for it, and that the one who publishes
\* has it.  It is held across no await before acceptance.
LocksAt(i) ==
  /\ IsInjective(lock[i])
  /\ ~records[i].accepted => lock[i] = <<>>
  /\ \A x \in Range(lock[i]) :
       IF x \in Emissions THEN Queued(x, i) ELSE Closes(x, i)
  /\ \A e \in Emissions : Queued(e, i) => e \in Range(lock[i])
  /\ \A t \in Requests : Closes(t, i) => t \in Range(lock[i])
  /\ \A e \in Emissions : Publishes(e, i) => Head(lock[i]) = e
LocksSound ==
  /\ \A i \in DOMAIN records : LocksAt(i)
  /\ \A i \in Ids \ DOMAIN records : lock[i] = <<>>

\* One terminal event at most is established at a time; what waits for a number
\* before it was there before it.
TurnAt(i) ==
  /\ \A e \in Emissions : Ends(e, i) => records[i].pending
  /\ \A e, f \in Emissions : Ends(e, i) /\ Ends(f, i) => e = f
  /\ \A m, n \in DOMAIN lock[i] :
       /\ lock[i][m] \in Emissions /\ lock[i][n] \in Emissions
       /\ emission[lock[i][m]].stage = "number"
       /\ emission[lock[i][m]].event.phase # Progress
       /\ emission[lock[i][n]].stage = "number"
       /\ emission[lock[i][n]].event.phase = Progress
       => n < m
EndsInTurn == \A i \in DOMAIN records : TurnAt(i)

-----------------------------------------------------------------------------
(* The events of an execution, once they have their numbers.               *)

Published(i) == {wire[i][n] : n \in 2..Len(wire[i])}
Early(i) == UNION {Range(request[t].early) : t \in {u \in Requests : Responds(u, i)}}
Held(i) == {emission[e].event : e \in {f \in Emissions : Publishes(f, i)}}
Numbered(i) == Published(i) \cup Early(i) \cup Range(records[i].buffer) \cup Held(i)

\* Those published.
Base(i) == IF wire[i] = <<>> THEN 0 ELSE Len(wire[i]) - 1

\* Numbers are drawn from the emitter's count, and none after a terminal event.
NumbersAt(i) ==
  \A x \in Numbered(i) :
    /\ x \in Event /\ x.number < records[i].next
    /\ x.phase # Progress =>
         /\ x.number + 1 = records[i].next
         /\ records[i].closed
         /\ \A e \in Emissions : ~Unnumbered(e, i)
NumbersDrawn == \A i \in DOMAIN records : NumbersAt(i)

\* The wire shows the response, then events in order; the response's task
\* holds the next ones, and the one who publishes holds the last.
WayAt(i) ==
  /\ wire[i] # <<>> <=> records[i].barrier = "open"
  /\ wire[i] # <<>> => wire[i][1] = Response
  /\ \A m, n \in 2..Len(wire[i]) : m < n => wire[i][m].number < wire[i][n].number
  /\ ~records[i].accepted => Len(wire[i]) <= 1
  /\ \A t \in Requests : Responds(t, i) =>
       /\ records[i].ready
       /\ records[i].barrier = "open" => request[t].early # <<>>
       /\ ~records[i].accepted => request[t].early = <<>>
       /\ \A m, n \in DOMAIN request[t].early :
            m < n => request[t].early[m].number < request[t].early[n].number
       /\ \A x \in Published(i), y \in Early(i) : x.number < y.number
  /\ \A e \in Emissions : Publishes(e, i) =>
       /\ emission[e].event.number + 1 = records[i].next
       /\ \A x \in Published(i) \cup Early(i) : x.number < emission[e].event.number
OnTheWay == \A i \in DOMAIN records : WayAt(i)

\* Unless a publication failed, nothing is missing.
WholeAt(i) ==
  LET held == IF Held(i) = {} THEN 0 ELSE 1
  IN /\ \A n \in 2..Len(wire[i]) : wire[i][n].number = n - 2
     /\ \A t \in Requests : Responds(t, i) /\ records[i].accepted =>
          /\ \A n \in DOMAIN request[t].early :
               request[t].early[n].number = Base(i) + n - 1
          /\ records[i].next = Base(i) + Len(request[t].early) + held
     /\ (\A t \in Requests : ~Responds(t, i)) /\ records[i].accepted =>
          records[i].next = Base(i) + held
NoneMissing == PublicationFailed \/ \A i \in DOMAIN records : WholeAt(i)

\* What is retained agrees with its terminal event.
AgreeAt(i) ==
  /\ \A x \in Numbered(i) : x.phase # Progress => records[i].result = x.phase
  /\ \A e \in Emissions :
       Ends(e, i) /\ emission[e].stage = "number" =>
         records[i].result = emission[e].event.phase
EventsAgree == \A i \in Range(handler.table) : AgreeAt(i)

NotMadeYet == \A i \in Ids \ DOMAIN records : wire[i] = <<>>

IInv ==
  /\ TypeOK /\ HandlerSound(handler) /\ RequestsSound /\ StartsAfresh
  /\ EmissionsSound /\ LocksSound /\ EndsInTurn /\ NumbersDrawn /\ OnTheWay
  /\ NoneMissing /\ EventsAgree /\ NotMadeYet

-----------------------------------------------------------------------------
(* Sequences.                                                              *)

\* Taking an item out leaves the others, in order.
LEMMA ItemRemoved ==
  ASSUME NEW S, NEW s \in Seq(S), NEW at \in DOMAIN s, IsInjective(s)
  PROVE  /\ RemoveAt(s, at) \in Seq(S) /\ Len(RemoveAt(s, at)) = Len(s) - 1
         /\ Len(s) \in Nat \ {0} /\ IsInjective(RemoveAt(s, at))
         /\ Range(RemoveAt(s, at)) = Range(s) \ {s[at]}
<1> DEFINE r == RemoveAt(s, at)
           a == SubSeq(s, 1, at - 1)
           b == SubSeq(s, at + 1, Len(s))
<1>1. DOMAIN s = 1..Len(s) /\ Len(s) \in Nat /\ at \in 1..Len(s)
  BY LenProperties
<1>2. /\ a \in Seq(S) /\ Len(a) = at - 1
      /\ \A n \in 1..at - 1 : a[n] = s[n]
  <2>1. /\ a \in Seq(S) /\ Len(a) = IF 1 <= at - 1 THEN (at - 1) - 1 + 1 ELSE 0
        /\ \A n \in 1..(at - 1) - 1 + 1 : a[n] = s[1 + n - 1]
    <3>1. 1 \in 1..Len(s) + 1 /\ at - 1 \in 0..Len(s)
      BY <1>1
    <3> QED
      BY <3>1, SubSeqProperties
  <2> QED
    BY <1>1, <2>1
<1>3. /\ b \in Seq(S) /\ Len(b) = Len(s) - at
      /\ \A n \in 1..Len(s) - at : b[n] = s[at + n]
  <2>1. /\ b \in Seq(S)
        /\ Len(b) = IF at + 1 <= Len(s) THEN Len(s) - (at + 1) + 1 ELSE 0
        /\ \A n \in 1..Len(s) - (at + 1) + 1 : b[n] = s[at + 1 + n - 1]
    <3>1. at + 1 \in 1..Len(s) + 1 /\ Len(s) \in at..Len(s)
      BY <1>1
    <3> QED
      BY <1>1, <3>1, SubSeqProperties
  <2> QED
    BY <1>1, <2>1
<1>4. /\ r \in Seq(S) /\ Len(r) = Len(s) - 1
      /\ \A n \in 1..Len(s) - 1 : r[n] = IF n < at THEN s[n] ELSE s[n + 1]
  <2>1. /\ a \o b \in Seq(S) /\ Len(a \o b) = Len(a) + Len(b)
        /\ \A n \in 1..Len(a) + Len(b) :
             (a \o b)[n] = IF n <= Len(a) THEN a[n] ELSE b[n - Len(a)]
    BY <1>2, <1>3, ConcatProperties
  <2>2. r = a \o b
    BY DEF RemoveAt
  <2> HIDE DEF a, b, r
  <2>3. r \in Seq(S) /\ Len(r) = Len(s) - 1
    <3>1. Len(a) + Len(b) = Len(s) - 1
      BY <1>1, <1>2, <1>3
    <3> QED
      BY <2>1, <2>2, <3>1
  <2>4. ASSUME NEW n \in 1..Len(s) - 1
        PROVE  r[n] = IF n < at THEN s[n] ELSE s[n + 1]
    <3>1. r[n] = IF n <= at - 1 THEN a[n] ELSE b[n - (at - 1)]
      <4>1. Len(a) = at - 1 /\ n \in 1..Len(a) + Len(b)
        BY <1>1, <1>2, <1>3
      <4>2. r[n] = IF n <= Len(a) THEN a[n] ELSE b[n - Len(a)]
        BY <2>1, <2>2, <4>1
      <4> QED
        BY <4>1, <4>2
    <3>2. CASE n < at
      <4>1. n \in 1..at - 1 /\ n <= at - 1
        BY <1>1, <3>2
      <4> QED
        BY <1>2, <3>1, <3>2, <4>1
    <3>3. CASE ~(n < at)
      <4>1. n - (at - 1) \in 1..Len(s) - at /\ at + (n - (at - 1)) = n + 1
        BY <1>1, <3>3
      <4> QED
        BY <1>1, <1>3, <3>1, <3>3, <4>1
    <3> QED
      BY <3>2, <3>3
  <2> QED
    BY <2>3, <2>4
<1> HIDE DEF r
<1>5. DOMAIN r = 1..Len(s) - 1
  BY <1>4, LenProperties
<1>6. IsInjective(r)
  <2> SUFFICES ASSUME NEW m \in DOMAIN r, NEW n \in DOMAIN r, r[m] = r[n]
               PROVE  m = n
    BY Zenon DEF IsInjective
  <2> DEFINE at1(x) == IF x < at THEN x ELSE x + 1
  <2>1. /\ at1(m) \in DOMAIN s /\ at1(n) \in DOMAIN s
        /\ s[at1(m)] = r[m] /\ s[at1(n)] = r[n]
    BY <1>1, <1>4, <1>5
  <2>2. at1(m) = at1(n)
    BY <2>1, Zenon DEF IsInjective
  <2> QED
    BY <1>1, <1>5, <2>2
<1>7. Range(r) = Range(s) \ {s[at]}
  <2>1. ASSUME NEW n \in DOMAIN r PROVE r[n] \in Range(s) \ {s[at]}
    <3> DEFINE k == IF n < at THEN n ELSE n + 1
    <3>1. k \in DOMAIN s /\ s[k] = r[n] /\ k # at
      BY <1>1, <1>4, <1>5
    <3> QED
      BY <3>1, Zenon DEF IsInjective, Range
  <2>2. ASSUME NEW n \in DOMAIN s, n # at PROVE s[n] \in Range(r)
    <3> DEFINE k == IF n < at THEN n ELSE n - 1
    <3>1. k \in DOMAIN r /\ r[k] = s[n]
      BY <1>1, <1>4, <1>5, <2>2
    <3> QED
      BY <3>1, Zenon DEF Range
  <2> QED
    BY <2>1, <2>2, Zenon DEF Range
<1> QED
  BY <1>1, <1>4, <1>6, <1>7 DEF r

-----------------------------------------------------------------------------
(* The table.                                                              *)

\* g is h with the same records, and may have dropped evictable ones.
LEMMA TableShrunk ==
  ASSUME NEW h, HandlerSound(h), NEW g \in Handlers,
         g.records = h.records, g.active = h.active,
         IsInjective(g.table), Len(g.table) <= MaxRetained,
         Range(g.table) \subseteq Range(h.table),
         \A i \in Range(h.table) \ Range(g.table) : Evictable(h, i)
  PROVE  HandlerSound(g)
<1>1. Holders(g) = Holders(h)
  BY DEF Holders
<1>2. ASSUME NEW i \in DOMAIN h.records, h.records[i].started,
             h.records[i].permit \/ ~h.records[i].ready
      PROVE  i \in Range(g.table)
  BY <1>2 DEF HandlerSound, TableSound, Evictable
<1>3. TableSound(g)
  BY <1>1, <1>2 DEF HandlerSound, TableSound
<1> QED
  BY <1>3 DEF HandlerSound

LEMMA TouchSound ==
  ASSUME NEW h, HandlerSound(h), NEW i \in Range(h.table)
  PROVE  LET g == Touch(h, i)
         IN /\ HandlerSound(g) /\ g.records = h.records /\ g.active = h.active
            /\ Range(g.table) = Range(h.table)
            /\ Last(g.table) = i /\ i \in DOMAIN h.records
<1> DEFINE at == CHOOSE n \in DOMAIN h.table : h.table[n] = i
           rest == RemoveAt(h.table, at)
           g == Touch(h, i)
<1>1. /\ h.table \in Seq(Nat) /\ IsInjective(h.table)
      /\ i \in Nat /\ Len(h.table) <= MaxRetained /\ i \in DOMAIN h.records
  <2>1. h.table \in Seq(Nat)
    BY DEF HandlerSound, Handlers
  <2> QED
    BY <2>1, RangeType DEF HandlerSound, TableSound
<1>2. at \in DOMAIN h.table /\ h.table[at] = i
  BY Zenon DEF Range
<1> HIDE DEF at
<1>3. /\ rest \in Seq(Nat) /\ Len(rest) = Len(h.table) - 1 /\ IsInjective(rest)
      /\ Range(rest) = Range(h.table) \ {i} /\ Len(h.table) \in Nat \ {0}
  BY <1>1, <1>2, ItemRemoved
<1> HIDE DEF rest
<1>4. /\ Append(rest, i) \in Seq(Nat) /\ Len(Append(rest, i)) = Len(h.table)
      /\ Range(Append(rest, i)) = Range(h.table) /\ IsInjective(Append(rest, i))
      /\ Last(Append(rest, i)) = i
  <2>1. IsInjective(Append(rest, i))
    BY <1>1, <1>3, InjectiveAppend
  <2>2. /\ Append(rest, i) \in Seq(Nat) /\ Len(Append(rest, i)) = Len(rest) + 1
        /\ Append(rest, i)[Len(rest) + 1] = i
        /\ Range(Append(rest, i)) = Range(rest) \cup {i}
    BY <1>1, <1>3, AppendItems
  <2> QED
    BY <1>3, <2>1, <2>2 DEF Last
<1>5. /\ g = [h EXCEPT !.table = Append(rest, i)]
      /\ g \in Handlers /\ g.records = h.records /\ g.active = h.active
      /\ g.table = Append(rest, i)
  BY <1>4 DEF Touch, rest, at, Handlers, HandlerSound
<1> HIDE DEF g
<1>6. HandlerSound(g)
  BY <1>1, <1>4, <1>5, TableShrunk
<1> QED
  BY <1>1, <1>4, <1>5, <1>6 DEF g

LEMMA MakeRoomSound ==
  ASSUME NEW h, HandlerSound(h), HasRoom(h)
  PROVE  LET g == MakeRoom(h)
         IN /\ HandlerSound(g) /\ g.records = h.records /\ g.active = h.active
            /\ Range(g.table) \subseteq Range(h.table)
            /\ Len(g.table) < MaxRetained
<1>1. CASE Len(h.table) < MaxRetained
  BY <1>1 DEF MakeRoom
<1>2. CASE ~(Len(h.table) < MaxRetained)
  <2> DEFINE First(n) == /\ Evictable(h, h.table[n])
                         /\ \A m \in 1..(n - 1) : ~Evictable(h, h.table[m])
             at == CHOOSE n \in DOMAIN h.table : First(n)
             g == MakeRoom(h)
  <2>1. h.table \in Seq(Nat) /\ Len(h.table) \in Nat /\ DOMAIN h.table = 1..Len(h.table)
    BY LenProperties DEF HandlerSound, Handlers
  <2>2. \E n \in DOMAIN h.table : First(n)
    <3> DEFINE E == {n \in DOMAIN h.table : Evictable(h, h.table[n])}
    <3>1. E # {}
      BY <1>2, Zenon DEF HasRoom, Range
    <3>0. E \subseteq Nat
      BY <2>1
    <3>2. PICK n \in E : \A m \in E : n <= m
      <4> HIDE DEF E
      <4> QED
        BY <3>0, <3>1, FirstPosition
    <3>3. n \in DOMAIN h.table /\ Evictable(h, h.table[n])
      OBVIOUS
    <3>4. ASSUME NEW m \in 1..(n - 1), Evictable(h, h.table[m]) PROVE FALSE
      <4>1. m \in E
        BY <2>1, <3>4
      <4> QED
        BY <2>1, <3>2, <4>1
    <3> QED
      BY <3>3, <3>4
  <2>3. at \in DOMAIN h.table /\ First(at)
    BY <2>2
  <2> HIDE DEF at, First
  <2>4. /\ RemoveAt(h.table, at) \in Seq(Nat)
        /\ Len(RemoveAt(h.table, at)) = Len(h.table) - 1
        /\ IsInjective(RemoveAt(h.table, at))
        /\ Range(RemoveAt(h.table, at)) = Range(h.table) \ {h.table[at]}
    <3>1. h.table \in Seq(Nat) /\ IsInjective(h.table) /\ at \in DOMAIN h.table
      BY <2>1, <2>3 DEF HandlerSound, TableSound
    <3> QED
      BY <3>1, ItemRemoved
  <2>5. /\ g \in Handlers /\ g.records = h.records /\ g.active = h.active
        /\ g.table = RemoveAt(h.table, at)
    BY <1>2, <2>4 DEF MakeRoom, at, First, Handlers, HandlerSound
  <2> HIDE DEF g
  <2>6. Evictable(h, h.table[at])
    BY <2>3 DEF First
  <2>7. Len(h.table) <= MaxRetained /\ MaxRetained \in Nat
    BY ExecutionsAssumption DEF HandlerSound, TableSound
  <2>8. HandlerSound(g)
    BY <2>1, <2>4, <2>5, <2>6, <2>7, TableShrunk
  <2> QED
    BY <2>1, <2>4, <2>5, <2>7, <2>8 DEF g
<1> QED
  BY <1>1, <1>2

-----------------------------------------------------------------------------
(* Records.                                                                *)

\* h with record i replaced.
Changed(h, i, new) ==
  [records |-> [h.records EXCEPT ![i] = new], table |-> h.table,
   active |-> IF h.records[i].permit /\ ~new.permit THEN h.active - 1 ELSE h.active]

LEMMA ChangedShape ==
  ASSUME NEW h \in Handlers, NEW i \in DOMAIN h.records, NEW new \in Record
  PROVE  LET g == Changed(h, i, new)
         IN /\ g.records \in Seq(Record) /\ Len(g.records) = Len(h.records)
            /\ DOMAIN g.records = DOMAIN h.records /\ g.table = h.table
            /\ g.records[i] = new
            /\ \A j \in DOMAIN h.records : j # i => g.records[j] = h.records[j]
<1>1. h.records \in Seq(Record)
  BY DEF Handlers
<1>2. /\ [h.records EXCEPT ![i] = new] \in Seq(Record)
      /\ Len([h.records EXCEPT ![i] = new]) = Len(h.records)
      /\ \A j \in 1..Len(h.records) :
           [h.records EXCEPT ![i] = new][j] = IF j = i THEN new ELSE h.records[j]
  BY <1>1, LenProperties, ExceptSeq
<1> QED
  BY <1>1, <1>2, LenProperties DEF Changed

LEMMA HoldersFinite ==
  ASSUME NEW h \in Handlers
  PROVE  IsFiniteSet(Holders(h)) /\ Cardinality(Holders(h)) \in Nat
<1>1. h.records \in Seq(Record) /\ DOMAIN h.records = 1..Len(h.records)
      /\ Len(h.records) \in Nat
  BY LenProperties DEF Handlers
<1>2. IsFiniteSet(1..Len(h.records))
  BY <1>1, FS_Interval
<1> QED
  BY <1>1, <1>2, FS_Subset, FS_CardinalityType DEF Holders

\* A record that changes may give its permit up, and get ready.
LEMMA ChangedSound ==
  ASSUME NEW h, HandlerSound(h), NEW i \in DOMAIN h.records, NEW new \in Record,
         OneEnd(new), new.key = h.records[i].key,
         new.started = h.records[i].started,
         new.permit => h.records[i].permit,
         h.records[i].ready => new.ready
  PROVE  HandlerSound(Changed(h, i, new))
<1> DEFINE g == Changed(h, i, new)
<1>1. /\ g.records \in Seq(Record) /\ DOMAIN g.records = DOMAIN h.records
      /\ g.table = h.table /\ g.records[i] = new
      /\ \A j \in DOMAIN h.records : j # i => g.records[j] = h.records[j]
  BY ChangedShape DEF HandlerSound
<1>2. /\ g.active = IF h.records[i].permit /\ ~new.permit
                    THEN h.active - 1 ELSE h.active
      /\ g = [records |-> g.records, table |-> g.table, active |-> g.active]
  BY DEF Changed
<1>3. /\ h.records[i].permit \in BOOLEAN /\ new.permit \in BOOLEAN
      /\ h.active \in Nat /\ h.table \in Seq(Nat)
  <2>1. h.records[i] \in Record
    BY ElementOfSeq DEF HandlerSound, Handlers
  <2> QED
    BY <2>1 DEF HandlerSound, Handlers, Record
<1>4. h \in Handlers /\ TableSound(h) /\ \A j \in DOMAIN h.records : OneEnd(h.records[j])
  BY DEF HandlerSound
<1> HIDE DEF g
<1>5. g.active = Cardinality(Holders(g)) /\ g.active \in Nat /\ g.active <= h.active
  <2>1. IsFiniteSet(Holders(h)) /\ h.active = Cardinality(Holders(h))
    BY <1>4, HoldersFinite DEF TableSound
  <2>2. CASE h.records[i].permit /\ ~new.permit
    <3>1. i \in Holders(h) /\ Holders(g) = Holders(h) \ {i}
      BY <1>1, <2>2 DEF Holders
    <3>2. Cardinality(Holders(g)) = Cardinality(Holders(h)) - 1
          /\ IsFiniteSet(Holders(g))
      BY <2>1, <3>1, FS_RemoveElement
    <3>3. Cardinality(Holders(g)) \in Nat
      BY <3>2, FS_CardinalityType
    <3> QED
      BY <1>2, <1>3, <2>1, <2>2, <3>2, <3>3
  <2>3. CASE ~(h.records[i].permit /\ ~new.permit)
    <3>1. Holders(g) = Holders(h)
      BY <1>1, <2>3 DEF Holders
    <3> QED
      BY <1>2, <1>3, <2>1, <2>3, <3>1
  <2> QED
    BY <2>2, <2>3
<1>6. g \in Handlers
  BY <1>1, <1>2, <1>3, <1>5 DEF Handlers
<1>7. TableSound(g)
  <2>1. g.active <= MaxConcurrency
    BY <1>3, <1>4, <1>5, ExecutionsAssumption DEF TableSound
  <2>2. \A j, k \in Range(g.table) : g.records[j].key = g.records[k].key => j = k
    <3>1. \A j \in DOMAIN h.records : g.records[j].key = h.records[j].key
      BY <1>1
    <3>2. Range(g.table) \subseteq DOMAIN h.records
      BY <1>1, <1>4 DEF TableSound
    <3> QED
      BY <1>1, <1>4, <3>1, <3>2 DEF TableSound
  <2>3. ASSUME NEW j \in DOMAIN g.records
        PROVE  /\ g.records[j].permit => g.records[j].started
               /\ g.records[j].started /\ (g.records[j].permit \/ ~g.records[j].ready)
                    => j \in Range(g.table)
    BY <1>1, <1>4, <2>3 DEF TableSound
  <2> QED
    BY <1>1, <1>4, <1>5, <2>1, <2>2, <2>3 DEF TableSound
<1>8. \A j \in DOMAIN g.records : OneEnd(g.records[j])
  BY <1>1, <1>4
<1> QED
  BY <1>6, <1>7, <1>8 DEF HandlerSound, g

\* Replacing a record within h, and releasing its permit as well.
Replaced(h, i, new) == [h EXCEPT !.records[i] = new]

LEMMA ReleaseIsChange ==
  ASSUME NEW h \in Handlers, NEW i \in DOMAIN h.records, NEW new \in Record,
         new.permit = h.records[i].permit
  PROVE  /\ Replaced(h, i, new) = Changed(h, i, new)
         /\ Release(Replaced(h, i, new), i)
              = Changed(h, i, [new EXCEPT !.permit = FALSE])
<1> DEFINE g == Replaced(h, i, new)
<1>1. /\ h = [records |-> h.records, table |-> h.table, active |-> h.active]
      /\ h.records \in Seq(Record) /\ new.permit \in BOOLEAN
  BY DEF Handlers, Record
<1>2. g = [records |-> [h.records EXCEPT ![i] = new], table |-> h.table,
           active |-> h.active]
  <2>1. g.records = [h.records EXCEPT ![i] = new] /\ g.table = h.table
        /\ g.active = h.active
    BY <1>1 DEF Replaced
  <2>2. g \in [records : {g.records}, table : {h.table}, active : {h.active}]
    BY <1>1 DEF Replaced
  <2> QED
    BY <2>1, <2>2
<1>3. g = Changed(h, i, new)
  BY <1>2 DEF Changed
<1>4. g.records[i] = new /\ g.records = [h.records EXCEPT ![i] = new]
      /\ g.table = h.table /\ g.active = h.active
  BY <1>1, <1>2
<1> HIDE DEF g
<1>5. CASE new.permit
  <2>1. Release(g, i) = [g EXCEPT !.records[i].permit = FALSE, !.active = @ - 1]
    BY <1>4, <1>5 DEF Release
  <2>2. [h.records EXCEPT ![i] = [new EXCEPT !.permit = FALSE]]
          = [g.records EXCEPT ![i].permit = FALSE]
    BY <1>1, <1>4
  <2>3. PICK r, t, a : /\ g = [records |-> r, table |-> t, active |-> a]
                       /\ r = g.records /\ t = h.table /\ a = h.active
    BY <1>2, <1>4
  <2>4. Release(g, i) = [records |-> [r EXCEPT ![i].permit = FALSE],
                         table |-> t, active |-> a - 1]
    BY <2>1, <2>3
  <2>5. [new EXCEPT !.permit = FALSE].permit = FALSE
    BY DEF Record
  <2> QED
    BY <1>3, <1>5, <2>2, <2>3, <2>4, <2>5 DEF Changed, g
<1>6. CASE ~new.permit
  <2>1. Release(g, i) = g
    BY <1>4, <1>6 DEF Release
  <2>2. [new EXCEPT !.permit = FALSE] = new
    BY <1>1, <1>6 DEF Record
  <2> QED
    BY <1>3, <2>1, <2>2 DEF g
<1> QED
  BY <1>1, <1>3, <1>5, <1>6 DEF g

-----------------------------------------------------------------------------
(* What the handler's operations do to a record.                           *)

\* What its emitter and its binding know; an emitter may have been closed.
SameEmitter(r, s) ==
  /\ s.key = r.key /\ s.started = r.started /\ s.next = r.next
  /\ s.buffer = r.buffer /\ s.accepted = r.accepted /\ (r.closed => s.closed)
  /\ s.pending = r.pending /\ s.barrier = r.barrier

\* g is h after something was observed: emitters are as they were, an end that
\* was known is known, and records may have been made and evicted.
Extends(h, g) ==
  /\ DOMAIN h.records \subseteq DOMAIN g.records
  /\ \A i \in DOMAIN h.records :
       /\ SameEmitter(h.records[i], g.records[i])
       /\ h.records[i].started => g.records[i].ready = h.records[i].ready
       /\ h.records[i].ready => g.records[i].ready
       /\ h.records[i].result # None => g.records[i].result = h.records[i].result
  /\ \A i \in DOMAIN g.records \ DOMAIN h.records :
       g.records[i].barrier = "shut" /\ g.records[i].buffer = <<>>
         /\ g.records[i].accepted = FALSE
  /\ Range(g.table) \cap DOMAIN h.records \subseteq Range(h.table)

LEMMA ExtendsTwice ==
  ASSUME NEW h, NEW g, NEW f, Extends(h, g), Extends(g, f)
  PROVE  Extends(h, f)
<1>1. ASSUME NEW i \in DOMAIN h.records
      PROVE  /\ SameEmitter(h.records[i], f.records[i])
             /\ h.records[i].started => f.records[i].ready = h.records[i].ready
             /\ h.records[i].ready => f.records[i].ready
             /\ h.records[i].result # None =>
                  f.records[i].result = h.records[i].result
  BY DEF Extends, SameEmitter
<1>2. ASSUME NEW i \in DOMAIN f.records \ DOMAIN h.records
      PROVE  f.records[i].barrier = "shut" /\ f.records[i].buffer = <<>>
               /\ f.records[i].accepted = FALSE
  <2>1. CASE i \in DOMAIN g.records
    <3>1. SameEmitter(g.records[i], f.records[i])
      BY <2>1 DEF Extends
    <3>2. g.records[i].barrier = "shut" /\ g.records[i].buffer = <<>>
            /\ g.records[i].accepted = FALSE
      BY <1>2, <2>1 DEF Extends
    <3> QED
      BY <3>1, <3>2 DEF SameEmitter
  <2>2. CASE i \notin DOMAIN g.records
    BY <1>2, <2>2 DEF Extends
  <2> QED
    BY <2>1, <2>2
<1>3. Range(f.table) \cap DOMAIN h.records \subseteq Range(h.table)
  BY DEF Extends
<1>4. DOMAIN h.records \subseteq DOMAIN f.records
  BY DEF Extends
<1> QED
  BY <1>1, <1>2, <1>3, <1>4 DEF Extends

LEMMA SameRecordsExtend ==
  ASSUME NEW h, NEW g, g.records = h.records,
         Range(g.table) \subseteq Range(h.table)
  PROVE  Extends(h, g)
BY DEF Extends, SameEmitter

\* One record changes, and its emitter does not.
LEMMA ChangedExtends ==
  ASSUME NEW h \in Handlers, NEW i \in DOMAIN h.records, NEW new \in Record,
         SameEmitter(h.records[i], new),
         h.records[i].started => new.ready = h.records[i].ready,
         h.records[i].ready => new.ready,
         h.records[i].result # None => new.result = h.records[i].result
  PROVE  Extends(h, Changed(h, i, new))
<1> DEFINE g == Changed(h, i, new)
<1>1. /\ DOMAIN g.records = DOMAIN h.records
      /\ g.table = h.table /\ g.records[i] = new
      /\ \A j \in DOMAIN h.records : j # i => g.records[j] = h.records[j]
  BY ChangedShape
<1> HIDE DEF g
<1> QED
  BY <1>1 DEF Extends, SameEmitter, g

LEMMA NewRecordType ==
  ASSUME NEW key \in Keys, NEW started \in BOOLEAN
  PROVE  /\ NewRecord(key, started) \in Record /\ OneEnd(NewRecord(key, started))
         /\ NewRecord(key, started).key = key
         /\ NewRecord(key, started).started = started
         /\ NewRecord(key, started).permit = started
         /\ NewRecord(key, started).ready = FALSE
         /\ NewRecord(key, started).barrier = "shut"
         /\ NewRecord(key, started).buffer = <<>>
         /\ NewRecord(key, started).next = 0
         /\ NewRecord(key, started).accepted = FALSE
<1>1. <<>> \in Seq(Event)
  OBVIOUS
<1>2. NewRecord(key, started) \in Record
  BY <1>1 DEF NewRecord, Record
<1>3. OneEnd(NewRecord(key, started))
  BY DEF OneEnd, NewRecord, Terminal, None
<1> QED
  BY <1>2, <1>3 DEF NewRecord

LEMMA InsertSound ==
  ASSUME NEW h, HandlerSound(h), HasRoom(h), NEW key \in Keys, Found(h, key) = {},
         NEW started \in BOOLEAN, started => h.active < MaxConcurrency
  PROVE  LET g == Insert(h, NewRecord(key, started))
             i == Len(h.records) + 1
         IN /\ HandlerSound(g) /\ Extends(h, g) /\ i \notin DOMAIN h.records
            /\ DOMAIN g.records = DOMAIN h.records \cup {i}
            /\ g.records[i] = NewRecord(key, started) /\ Len(g.records) = i
            /\ g.table # <<>> /\ Last(g.table) = i /\ i \in Range(g.table)
<1> DEFINE new == NewRecord(key, started)
           room == MakeRoom(h)
           i == Len(h.records) + 1
           g == Insert(h, new)
<1>1. /\ HandlerSound(room) /\ room.records = h.records /\ room.active = h.active
      /\ Range(room.table) \subseteq Range(h.table)
      /\ Len(room.table) < MaxRetained
  BY MakeRoomSound
<1>2. /\ new \in Record /\ OneEnd(new) /\ new.key = key /\ new.started = started
      /\ new.permit = started /\ new.ready = FALSE /\ new.barrier = "shut"
      /\ new.buffer = <<>> /\ new.accepted = FALSE
  BY NewRecordType
<1> HIDE DEF room, new
<1>3. /\ g.records = Append(h.records, new) /\ g.table = Append(room.table, i)
      /\ g.active = h.active + IF started THEN 1 ELSE 0
      /\ g = [records |-> g.records, table |-> g.table, active |-> g.active]
  BY <1>1, <1>2 DEF Insert, room
<1> HIDE DEF g
<1>4. /\ h.records \in Seq(Record) /\ room.table \in Seq(Nat) /\ h.active \in Nat
      /\ IsInjective(room.table) /\ Range(room.table) \subseteq DOMAIN h.records
      /\ \A j, k \in Range(room.table) :
           h.records[j].key = h.records[k].key => j = k
      /\ h.active = Cardinality(Holders(h))
      /\ \A j \in DOMAIN h.records :
           /\ h.records[j].permit => h.records[j].started
           /\ h.records[j].started /\ (h.records[j].permit \/ ~h.records[j].ready)
                => j \in Range(room.table)
      /\ \A j \in DOMAIN h.records : OneEnd(h.records[j])
      /\ h \in Handlers
  BY <1>1 DEF HandlerSound, TableSound, Handlers
<1>5. /\ i \in Nat /\ i \notin DOMAIN h.records
      /\ g.records \in Seq(Record) /\ Len(g.records) = i
      /\ DOMAIN g.records = DOMAIN h.records \cup {i}
      /\ \A j \in DOMAIN h.records : g.records[j] = h.records[j]
      /\ g.records[i] = new
  <2> DEFINE r == h.records
  <2>1. /\ Append(r, new) \in Seq(Record) /\ Len(r) \in Nat
        /\ Len(Append(r, new)) = Len(r) + 1
        /\ DOMAIN Append(r, new) = DOMAIN r \cup {Len(r) + 1}
        /\ Len(r) + 1 \notin DOMAIN r
        /\ \A n \in DOMAIN r : Append(r, new)[n] = r[n]
        /\ Append(r, new)[Len(r) + 1] = new
    <3>1. r \in Seq(Record)
      BY <1>4
    <3> HIDE DEF r
    <3> QED
      BY <1>2, <3>1, AppendItems
  <2> QED
    BY <1>3, <2>1
<1>6. /\ g.table \in Seq(Nat) /\ Len(g.table) = Len(room.table) + 1
      /\ Len(room.table) \in Nat
      /\ Range(g.table) = Range(room.table) \cup {i}
      /\ g.table[Len(room.table) + 1] = i
  <2> DEFINE q == room.table
  <2>1. i \in Nat /\ q \in Seq(Nat)
    BY <1>4, <1>5
  <2>2. /\ Append(q, i) \in Seq(Nat) /\ Len(q) \in Nat
        /\ Len(Append(q, i)) = Len(q) + 1
        /\ Range(Append(q, i)) = Range(q) \cup {i}
        /\ Append(q, i)[Len(q) + 1] = i
    <3> HIDE DEF i, q
    <3> QED
      BY <2>1, AppendItems
  <2> QED
    BY <1>3, <2>2
<1>7. IsInjective(g.table)
  <2> DEFINE q == room.table
  <2>1. i \notin Range(q) /\ i \in Nat /\ q \in Seq(Nat) /\ IsInjective(q)
    BY <1>4, <1>5
  <2>2. IsInjective(Append(q, i))
    <3> HIDE DEF i, q
    <3> QED
      BY <2>1, InjectiveAppend
  <2> QED
    BY <1>3, <2>2
<1>8. g.active = Cardinality(Holders(g)) /\ g.active \in Nat
        /\ g.active <= MaxConcurrency
  <2>1. IsFiniteSet(Holders(h)) /\ i \notin Holders(h)
    BY <1>4, <1>5, HoldersFinite DEF Holders
  <2>2. Holders(g) = IF started THEN Holders(h) \cup {i} ELSE Holders(h)
    BY <1>2, <1>5 DEF Holders
  <2>3. h.active <= MaxConcurrency /\ MaxConcurrency \in Nat
    BY ExecutionsAssumption DEF HandlerSound, TableSound
  <2>4. CASE started
    <3>1. Cardinality(Holders(g)) = Cardinality(Holders(h)) + 1
      BY <2>1, <2>2, <2>4, FS_AddElement
    <3> QED
      BY <1>3, <1>4, <2>3, <2>4, <3>1
  <2>5. CASE ~started
    BY <1>3, <1>4, <2>2, <2>3, <2>5
  <2> QED
    BY <2>4, <2>5
<1>9. g \in Handlers
  BY <1>3, <1>5, <1>6, <1>8 DEF Handlers
<1>10. TableSound(g)
  <2>1. Len(g.table) <= MaxRetained
    BY <1>1, <1>6, ExecutionsAssumption
  <2>2. Range(g.table) \subseteq DOMAIN g.records
    BY <1>4, <1>5, <1>6
  <2>3. \A j \in Range(room.table) : h.records[j].key # key
    BY <1>1 DEF Found
  <2>4. \A j, k \in Range(g.table) : g.records[j].key = g.records[k].key => j = k
    <3> DEFINE old == Range(room.table)
    <3>1. Range(g.table) = old \cup {i} /\ old \subseteq DOMAIN h.records
      BY <1>4, <1>6
    <3>2. \A j \in old : g.records[j].key = h.records[j].key
      BY <1>5, <3>1
    <3>3. g.records[i].key = key
      BY <1>2, <1>5
    <3>4. \A j, k \in old : h.records[j].key = h.records[k].key => j = k
      BY <1>4
    <3> HIDE DEF old, i
    <3> QED
      BY <2>3, <3>1, <3>2, <3>3, <3>4 DEF old
  <2>5. ASSUME NEW j \in DOMAIN g.records
        PROVE  /\ g.records[j].permit => g.records[j].started
               /\ g.records[j].started /\ (g.records[j].permit \/ ~g.records[j].ready)
                    => j \in Range(g.table)
    BY <1>2, <1>4, <1>5, <1>6
  <2> QED
    BY <1>7, <1>8, <2>1, <2>2, <2>4, <2>5 DEF TableSound
<1>11. \A j \in DOMAIN g.records : OneEnd(g.records[j])
  BY <1>2, <1>4, <1>5
<1>12. HandlerSound(g)
  BY <1>9, <1>10, <1>11 DEF HandlerSound
<1>13. Extends(h, g)
  BY <1>1, <1>2, <1>5, <1>6 DEF Extends, SameEmitter
<1>14. g.table # <<>> /\ Last(g.table) = i
  BY <1>6 DEF Last
<1> QED
  BY <1>5, <1>6, <1>12, <1>13, <1>14 DEF g, new

\* An execution has one record in the table at most.
LEMMA FoundOne ==
  ASSUME NEW h, HandlerSound(h), NEW key
  PROVE  /\ Found(h, key) \subseteq Range(h.table)
         /\ \A i \in Found(h, key) : i \in DOMAIN h.records /\ h.records[i].key = key
         /\ \A i, j \in Found(h, key) : i = j
         /\ Found(h, key) # {} => The(Found(h, key)) \in Found(h, key)
<1>1. /\ Range(h.table) \subseteq DOMAIN h.records
      /\ \A i, j \in Range(h.table) : h.records[i].key = h.records[j].key => i = j
  BY DEF HandlerSound, TableSound
<1> QED
  BY <1>1 DEF Found, The

LEMMA ObserveSound ==
  ASSUME NEW h, HandlerSound(h), NEW key \in Keys, CanObserve(h, key)
  PROVE  LET g == Observe(h, key)
             i == Last(g.table)
         IN /\ HandlerSound(g) /\ Extends(h, g)
            /\ Len(g.records) \in {Len(h.records), Len(h.records) + 1}
            /\ i \in DOMAIN g.records /\ i \in Range(g.table)
            /\ g.records[i].key = key
            /\ Found(h, key) # {} => g.records = h.records /\ i \in Found(h, key)
<1>1. CASE Found(h, key) # {}
  <2> DEFINE j == The(Found(h, key))
             g == Touch(h, j)
  <2>1. /\ j \in Range(h.table) /\ h.records[j].key = key /\ j \in Found(h, key)
    BY <1>1, FoundOne
  <2> HIDE DEF j
  <2>2. /\ HandlerSound(g) /\ g.records = h.records
        /\ Range(g.table) = Range(h.table)
        /\ Last(g.table) = j /\ j \in DOMAIN h.records
    BY <2>1, TouchSound
  <2>3. Observe(h, key) = g
    BY <1>1 DEF Observe, j
  <2> HIDE DEF g
  <2>4. Extends(h, g)
    BY <2>2, SameRecordsExtend
  <2> QED
    BY <2>1, <2>2, <2>3, <2>4
<1>2. CASE Found(h, key) = {}
  <2> DEFINE g == Insert(h, NewRecord(key, FALSE))
             j == Len(h.records) + 1
  <2>1. HasRoom(h) /\ FALSE \in BOOLEAN
    BY <1>2 DEF CanObserve
  <2>2. /\ HandlerSound(g) /\ Extends(h, g) /\ Len(g.records) = j
        /\ DOMAIN g.records = DOMAIN h.records \cup {j}
        /\ g.records[j] = NewRecord(key, FALSE)
        /\ Last(g.table) = j /\ j \in Range(g.table)
    BY <1>2, <2>1, InsertSound
  <2>3. Observe(h, key) = g
    BY <1>2 DEF Observe
  <2>4. g.records[j].key = key
    BY <2>2, NewRecordType
  <2> HIDE DEF g
  <2> QED
    BY <1>2, <2>2, <2>3, <2>4
<1> QED
  BY <1>1, <1>2

\* Recording a status or an end: what it leaves, and what it has done if it
\* was carried out.
LEMMA StatusRecorded ==
  ASSUME NEW h, HandlerSound(h), NEW key \in Keys, NEW phase \in Active
  PROVE  LET recorded == RecordStatus(h, key, phase)
             g == recorded.h
             i == Last(g.table)
         IN /\ HandlerSound(g) /\ Extends(h, g)
            /\ Len(g.records) \in {Len(h.records), Len(h.records) + 1}
            /\ recorded.done => i \in DOMAIN g.records
<1> DEFINE recorded == RecordStatus(h, key, phase)
           seen == Observe(h, key)
           i == Last(seen.table)
           new == [seen.records[i] EXCEPT !.status = phase]
<1>1. CASE ~CanObserve(h, key)
  <2>1. recorded.h = h /\ ~recorded.done
    BY <1>1 DEF RecordStatus, Refused
  <2> QED
    BY <2>1, SameRecordsExtend
<1>2. CASE CanObserve(h, key)
  <2>1. /\ HandlerSound(seen) /\ Extends(h, seen)
        /\ Len(seen.records) \in {Len(h.records), Len(h.records) + 1}
        /\ i \in DOMAIN seen.records
    BY <1>2, ObserveSound
  <2> HIDE DEF seen
  <2>2. CASE ~MayFollow(seen.records[i].status, phase)
    <3>1. recorded.h = seen /\ ~recorded.done
      BY <1>2, <2>2 DEF RecordStatus, Refused, seen
    <3> QED
      BY <2>1, <3>1
  <2>3. CASE MayFollow(seen.records[i].status, phase)
    <3>1. seen \in Handlers /\ seen.records[i] \in Record /\ OneEnd(seen.records[i])
      BY <2>1, ElementOfSeq DEF HandlerSound, Handlers
    <3>2. phase \notin Terminal /\ phase # None
      BY DEF Active, Order, Terminal, None
    <3>3. seen.records[i].status \notin Terminal
      BY <2>3, <3>2 DEF MayFollow, Active, Order, Terminal, None
    <3> DEFINE old == seen.records[i]
    <3>4. /\ new \in Record /\ new.status = phase /\ SameEmitter(old, new)
          /\ new.result = old.result /\ new.ready = old.ready
          /\ new.outcome = old.outcome /\ new.permit = old.permit
      BY <3>1 DEF Record, SameEmitter
    <3>5. old.result = None
      BY <3>1, <3>3 DEF OneEnd, Record
    <3> HIDE DEF new, old
    <3>6. OneEnd(new)
      BY <3>1, <3>2, <3>4, <3>5 DEF OneEnd, old, Terminal, None
    <3>7. Replaced(seen, i, new) = Changed(seen, i, new)
      <4> HIDE DEF i
      <4>1. seen \in Handlers /\ i \in DOMAIN seen.records /\ new \in Record
            /\ new.permit = seen.records[i].permit
        BY <2>1, <3>1, <3>4 DEF old
      <4> QED
        BY <4>1, ReleaseIsChange
    <3>8. recorded.done /\ recorded.h = Changed(seen, i, new)
      <4>1. recorded.h = [seen EXCEPT !.records[i].status = phase] /\ recorded.done
        BY <1>2, <2>3 DEF RecordStatus, seen
      <4>2. [seen EXCEPT !.records[i].status = phase] = Replaced(seen, i, new)
        BY DEF new, Replaced
      <4> QED
        BY <3>7, <4>1, <4>2
    <3>9. HandlerSound(Changed(seen, i, new))
      BY <2>1, <3>4, <3>6, ChangedSound DEF old, SameEmitter
    <3>10. Extends(seen, Changed(seen, i, new))
      BY <2>1, <3>1, <3>4, ChangedExtends DEF old
    <3>11. Extends(h, Changed(seen, i, new))
      BY <2>1, <3>10, ExtendsTwice
    <3>12. LET g == Changed(seen, i, new)
           IN /\ Len(g.records) = Len(seen.records)
              /\ DOMAIN g.records = DOMAIN seen.records /\ g.table = seen.table
      BY <2>1, <3>1, <3>4, ChangedShape
    <3> QED
      BY <2>1, <3>8, <3>9, <3>11, <3>12
  <2> QED
    BY <2>2, <2>3
<1> QED
  BY <1>1, <1>2

LEMMA TerminalRecorded ==
  ASSUME NEW h, HandlerSound(h), NEW key \in Keys, NEW phase, NEW result
  PROVE  LET recorded == RecordTerminal(h, key, phase, result)
             g == recorded.h
             i == Last(g.table)
         IN /\ HandlerSound(g) /\ Extends(h, g)
            /\ Len(g.records) \in {Len(h.records), Len(h.records) + 1}
            /\ Found(h, key) # {} => Len(g.records) = Len(h.records)
            /\ recorded.done =>
                 /\ i \in DOMAIN g.records /\ i \in Range(g.table)
                 /\ phase \in Terminal /\ result = phase
                 /\ g.records[i].result = phase
                 /\ Found(h, key) # {} => i \in Found(h, key)
<1> DEFINE recorded == RecordTerminal(h, key, phase, result)
           seen == Observe(h, key)
           i == Last(seen.table)
           old == seen.records[i]
           told == IF old.started THEN old
                   ELSE [old EXCEPT !.outcome = result, !.ready = TRUE]
           ended == [told EXCEPT !.status = phase, !.result = result]
           new == [ended EXCEPT !.permit = FALSE]
<1>1. CASE phase \notin Terminal \/ phase # result \/ ~CanObserve(h, key)
  <2>1. recorded.h = h /\ ~recorded.done
    BY <1>1 DEF RecordTerminal, Refused
  <2> QED
    BY <2>1, SameRecordsExtend
<1>2. CASE ~(phase \notin Terminal \/ phase # result \/ ~CanObserve(h, key))
  <2>1. /\ HandlerSound(seen) /\ Extends(h, seen)
        /\ Len(seen.records) \in {Len(h.records), Len(h.records) + 1}
        /\ i \in DOMAIN seen.records /\ i \in Range(seen.table)
        /\ Found(h, key) # {} => seen.records = h.records /\ i \in Found(h, key)
    BY <1>2, ObserveSound
  <2>2. phase \in Terminal /\ result = phase
    BY <1>2
  <2> HIDE DEF seen
  <2>3. CASE ~(MayFollow(old.status, phase) /\ old.result \in {None, result})
    <3>1. recorded.h = seen /\ ~recorded.done
      BY <1>2, <2>3 DEF RecordTerminal, Refused, seen
    <3> QED
      BY <2>1, <3>1
  <2>4. CASE MayFollow(old.status, phase) /\ old.result \in {None, result}
    <3>1. seen \in Handlers /\ old \in Record /\ OneEnd(old)
      BY <2>1, ElementOfSeq DEF HandlerSound, Handlers
    <3> DEFINE wake == [old EXCEPT !.outcome = result, !.ready = TRUE]
    <3>2. /\ wake \in Record /\ SameEmitter(old, wake)
          /\ wake.outcome = result /\ wake.ready = TRUE
          /\ wake.result = old.result /\ wake.permit = old.permit
      BY <2>2, <3>1 DEF Record, SameEmitter
    <3>3. /\ told \in Record /\ SameEmitter(old, told)
          /\ told.result = old.result /\ told.permit = old.permit
          /\ IF old.started THEN told.outcome = old.outcome /\ told.ready = old.ready
             ELSE told.outcome = result /\ told.ready = TRUE
      <4> HIDE DEF wake
      <4>1. told = IF old.started THEN old ELSE wake
        BY DEF wake
      <4> HIDE DEF told
      <4>2. SameEmitter(old, old)
        BY DEF SameEmitter
      <4> QED
        BY <3>1, <3>2, <4>1, <4>2
    <3> HIDE DEF told
    <3>4. /\ ended \in Record /\ SameEmitter(old, ended)
          /\ ended.result = result /\ ended.status = phase
          /\ ended.permit = old.permit /\ ended.ready = told.ready
          /\ ended.outcome = told.outcome
      BY <2>2, <3>3 DEF Record, SameEmitter
    <3> HIDE DEF ended
    <3>5. /\ new \in Record /\ SameEmitter(old, new)
          /\ new.result = result /\ new.status = phase /\ new.permit = FALSE
          /\ new.ready = told.ready /\ new.outcome = told.outcome
      BY <3>4 DEF Record, SameEmitter
    <3> HIDE DEF new
    <3>6. OneEnd(new)
      <4>1. result # None
        BY <2>2 DEF Terminal, None
      <4>2. CASE old.started
        BY <2>2, <2>4, <3>1, <3>3, <3>5, <4>1, <4>2 DEF OneEnd, Terminal, None
      <4>3. CASE ~old.started
        BY <2>2, <3>3, <3>5, <4>1, <4>3 DEF OneEnd
      <4> QED
        BY <4>2, <4>3
    <3>7. old.result # None => new.result = old.result
      BY <2>4, <3>5
    <3>8. /\ old.started => new.ready = old.ready
          /\ old.ready => new.ready
      BY <3>3, <3>5
    <3>9. Release(Replaced(seen, i, ended), i) = Changed(seen, i, new)
      <4> HIDE DEF i
      <4>1. seen \in Handlers /\ i \in DOMAIN seen.records /\ ended \in Record
            /\ ended.permit = seen.records[i].permit
        BY <2>1, <3>1, <3>4
      <4> QED
        BY <4>1, ReleaseIsChange DEF new
    <3>10. recorded.done /\ recorded.h = Changed(seen, i, new)
      <4>1. /\ recorded.h = Release([seen EXCEPT !.records[i] = ended], i)
            /\ recorded.done
        BY <1>2, <2>4 DEF RecordTerminal, seen, ended, told
      <4>2. [seen EXCEPT !.records[i] = ended] = Replaced(seen, i, ended)
        BY DEF Replaced
      <4> QED
        BY <3>9, <4>1, <4>2
    <3>11. HandlerSound(Changed(seen, i, new))
      <4>1. new.key = old.key /\ new.started = old.started
        BY <3>5 DEF SameEmitter
      <4> QED
        BY <2>1, <3>5, <3>6, <3>8, <4>1, ChangedSound
    <3>12. Extends(seen, Changed(seen, i, new))
      BY <2>1, <3>1, <3>5, <3>7, <3>8, ChangedExtends
    <3>13. Extends(h, Changed(seen, i, new))
      BY <2>1, <3>12, ExtendsTwice
    <3>14. LET g == Changed(seen, i, new)
           IN /\ Len(g.records) = Len(seen.records)
              /\ DOMAIN g.records = DOMAIN seen.records /\ g.table = seen.table
              /\ g.records[i] = new
      BY <2>1, <3>1, <3>5, ChangedShape
    <3> HIDE DEF recorded
    <3> QED
      BY <2>1, <2>2, <3>5, <3>10, <3>11, <3>13, <3>14 DEF recorded
  <2> QED
    BY <2>3, <2>4
<1> QED
  BY <1>1, <1>2

\* The ways in which a start ends: the record is ready, what was buffered is
\* handed over or dropped, and an end that was known stays.
StartEnded(h, i, g) ==
  /\ HandlerSound(g) /\ Len(g.records) = Len(h.records)
  /\ DOMAIN g.records = DOMAIN h.records /\ g.table = h.table
  /\ \A j \in DOMAIN h.records : j # i => g.records[j] = h.records[j]
  /\ LET old == h.records[i]
         new == g.records[i]
     IN /\ new.started = old.started /\ new.next = old.next
        /\ new.barrier = old.barrier /\ new.pending = old.pending
        /\ new.ready = TRUE /\ new.buffer = <<>>
        /\ old.closed => new.closed
        /\ old.result # None => new.result = old.result

\* What the record old becomes as its start ends.
RecordEnded(old, new) ==
  /\ new \in Record /\ OneEnd(new) /\ new.key = old.key
  /\ new.started = old.started /\ (new.permit => old.permit)
  /\ new.next = old.next /\ new.barrier = old.barrier
  /\ new.pending = old.pending /\ new.ready = TRUE /\ new.buffer = <<>>
  /\ old.closed => new.closed
  /\ old.result # None => new.result = old.result

LEMMA StartEndsByChange ==
  ASSUME NEW h, HandlerSound(h), NEW i \in DOMAIN h.records,
         NEW new, RecordEnded(h.records[i], new)
  PROVE  StartEnded(h, i, Changed(h, i, new)) /\ Changed(h, i, new).records[i] = new
<1> DEFINE g == Changed(h, i, new)
           old == h.records[i]
<1>1. /\ new \in Record /\ OneEnd(new) /\ new.key = old.key
      /\ new.started = old.started /\ (new.permit => old.permit)
      /\ (old.ready => new.ready)
  BY DEF RecordEnded
<1>2. HandlerSound(g)
  BY <1>1, ChangedSound
<1>3. /\ Len(g.records) = Len(h.records)
      /\ DOMAIN g.records = DOMAIN h.records /\ g.table = h.table
      /\ g.records[i] = new
      /\ \A j \in DOMAIN h.records : j # i => g.records[j] = h.records[j]
  BY <1>1, ChangedShape DEF HandlerSound
<1> HIDE DEF g
<1>4. StartEnded(h, i, g)
  BY <1>2, <1>3 DEF StartEnded, RecordEnded
<1> QED
  BY <1>3, <1>4 DEF g

LEMMA AcceptedEnds ==
  ASSUME NEW h, HandlerSound(h), NEW i \in DOMAIN h.records
  PROVE  LET g == Accepted(h, i)
         IN /\ StartEnded(h, i, g) /\ g.records[i].accepted = TRUE
            /\ g.records[i].closed = h.records[i].closed
<1> DEFINE old == h.records[i]
           outcome == IF old.result # None THEN old.result ELSE "accepted"
           status == IF old.result = None /\ old.status = None THEN "accepted"
                     ELSE old.status
           new == [old EXCEPT !.ready = TRUE, !.accepted = TRUE, !.buffer = <<>>,
                              !.outcome = outcome, !.status = status]
<1>1. h \in Handlers /\ old \in Record /\ OneEnd(old)
  BY ElementOfSeq DEF HandlerSound, Handlers
<1>2. /\ outcome \in {None, "accepted", "refused"} \cup Terminal
      /\ status \in {None} \cup Active \cup Terminal
      /\ <<>> \in Seq(Event)
  <2>1. /\ old.result \in {None} \cup Terminal
        /\ old.status \in {None} \cup Active \cup Terminal
    BY <1>1 DEF Record
  <2>2. "accepted" \in Active
    BY DEF Active, Order
  <2> QED
    BY <2>1, <2>2
<1>3. OneEnd(new) /\ new.outcome = outcome /\ new.status = status
  <2>1. /\ new.outcome = outcome /\ new.status = status /\ new.result = old.result
        /\ new.ready = TRUE
    BY <1>1 DEF Record
  <2>2. "accepted" \notin Terminal /\ "accepted" # None
    BY DEF Terminal, None
  <2> HIDE DEF new, old
  <2>3. old.result # None => old.status = old.result /\ old.result \in Terminal
    BY <1>1 DEF OneEnd, Record
  <2>4. None \notin Terminal
    BY DEF None, Terminal
  <2> QED
    BY <1>1, <2>1, <2>2, <2>3, <2>4 DEF OneEnd
<1> HIDE DEF outcome, status
<1>4. /\ new \in Record /\ new.key = old.key /\ new.started = old.started
      /\ new.permit = old.permit /\ new.next = old.next
      /\ new.barrier = old.barrier /\ new.pending = old.pending
      /\ new.ready = TRUE /\ new.buffer = <<>> /\ new.closed = old.closed
      /\ new.result = old.result /\ new.accepted = TRUE
  BY <1>1, <1>2 DEF Record
<1>5. Accepted(h, i) = Replaced(h, i, new)
  BY DEF Accepted, Replaced, outcome, status
<1> HIDE DEF new
<1>6. Replaced(h, i, new) = Changed(h, i, new)
  BY <1>1, <1>4, ReleaseIsChange
<1>7. StartEnded(h, i, Changed(h, i, new)) /\ Changed(h, i, new).records[i] = new
  <2> HIDE DEF old
  <2>1. RecordEnded(old, new)
    BY <1>3, <1>4 DEF RecordEnded
  <2>2. RecordEnded(h.records[i], new)
    BY <2>1 DEF old
  <2> QED
    BY <2>2, StartEndsByChange
<1> QED
  BY <1>4, <1>5, <1>6, <1>7

\* The two that are not accepted are closed.
LEMMA RejectedEnds ==
  ASSUME NEW h, HandlerSound(h), NEW i \in DOMAIN h.records,
         NEW g \in {StartRefused(h, i), FinishUnknown(h, i)}
  PROVE  /\ StartEnded(h, i, g) /\ g.records[i].closed = TRUE
         /\ g.records[i].accepted = h.records[i].accepted
<1> DEFINE old == h.records[i]
           shut == Rejected(old)
           known == [shut EXCEPT !.outcome = old.result, !.ready = TRUE]
           refused == [shut EXCEPT !.ready = TRUE, !.outcome = "refused"]
           unknown == [shut EXCEPT !.outcome = "unknown", !.status = "unknown",
                                   !.result = "unknown", !.ready = TRUE]
           free(r) == [r EXCEPT !.permit = FALSE]
<1>1. h \in Handlers /\ old \in Record /\ OneEnd(old)
  BY ElementOfSeq DEF HandlerSound, Handlers
<1>2. <<>> \in Seq(Event) /\ "unknown" \in Terminal /\ "refused" \notin Terminal
      /\ None \notin Terminal /\ "refused" # None /\ old.result \in {None} \cup Terminal
  BY <1>1 DEF Terminal, None, Record
<1>3. /\ shut \in Record /\ shut.closed = TRUE /\ shut.buffer = <<>>
      /\ shut = [old EXCEPT !.closed = TRUE, !.buffer = <<>>]
      /\ shut.result = old.result /\ shut.status = old.status
      /\ shut.key = old.key /\ shut.started = old.started
      /\ shut.permit = old.permit /\ shut.next = old.next
      /\ shut.barrier = old.barrier /\ shut.pending = old.pending
      /\ shut.accepted = old.accepted
  BY <1>1, <1>2 DEF Rejected, Record
<1> DEFINE Fits(r) ==
      /\ r \in Record /\ r.key = old.key /\ r.started = old.started
      /\ r.next = old.next /\ r.barrier = old.barrier /\ r.pending = old.pending
      /\ r.ready = TRUE /\ r.buffer = <<>> /\ r.closed = TRUE
      /\ r.accepted = old.accepted /\ OneEnd(r)
      /\ old.result # None => r.result = old.result
<1>4. CASE old.result # None
  <2>1. Fits(known) /\ known.permit = old.permit
    <3>1. /\ known \in Record /\ known.key = old.key /\ known.started = old.started
          /\ known.next = old.next /\ known.barrier = old.barrier
          /\ known.pending = old.pending /\ known.ready = TRUE
          /\ known.buffer = <<>> /\ known.closed = TRUE
          /\ known.accepted = old.accepted /\ known.result = old.result
          /\ known.status = old.status /\ known.outcome = old.result
          /\ known.permit = old.permit
      BY <1>2, <1>3, <1>4 DEF Record
    <3> HIDE DEF known, old
    <3>2. OneEnd(known)
      BY <1>1, <1>2, <1>4, <3>1 DEF OneEnd
    <3> QED
      BY <3>1, <3>2
  <2>2. g = Replaced(h, i, known)
    <3>1. shut.result # None /\ [shut EXCEPT !.ready = TRUE, !.outcome = shut.result] = known
      BY <1>3, <1>4 DEF Record
    <3>2. StartRefused(h, i) = Replaced(h, i, known)
      BY <3>1 DEF StartRefused, Replaced
    <3>3. FinishUnknown(h, i) = Replaced(h, i, known)
      BY <1>3, <1>4 DEF FinishUnknown, Replaced
    <3> QED
      BY <3>2, <3>3
  <2> HIDE DEF known
  <2>3. Replaced(h, i, known) = Changed(h, i, known)
    BY <1>1, <2>1, ReleaseIsChange
  <2>4. StartEnded(h, i, Changed(h, i, known))
          /\ Changed(h, i, known).records[i] = known
    <3> HIDE DEF old
    <3>1. RecordEnded(old, known)
      BY <2>1 DEF RecordEnded
    <3>2. RecordEnded(h.records[i], known)
      BY <3>1 DEF old
    <3> QED
      BY <3>2, StartEndsByChange
  <2> QED
    BY <2>1, <2>2, <2>3, <2>4
<1>5. CASE old.result = None
  <2>1. old.status \notin Terminal /\ old.outcome \notin Terminal
    BY <1>1, <1>2, <1>5 DEF OneEnd
  <2>2. PICK r \in {refused, unknown} : g = Release(Replaced(h, i, r), i)
    <3>1. StartRefused(h, i) = Release(Replaced(h, i, refused), i)
      BY <1>3, <1>5 DEF StartRefused, Replaced
    <3>2. FinishUnknown(h, i) = Release(Replaced(h, i, unknown), i)
      BY <1>3, <1>5 DEF FinishUnknown, Replaced
    <3> QED
      BY <3>1, <3>2
  <2>3. /\ refused \in Record /\ unknown \in Record
        /\ refused.permit = old.permit /\ unknown.permit = old.permit
    BY <1>2, <1>3 DEF Record
  <2>4. Fits(free(refused)) /\ free(refused).permit = FALSE
    <3> DEFINE new == free(refused)
    <3>1. /\ new \in Record /\ new.key = old.key /\ new.started = old.started
          /\ new.next = old.next /\ new.barrier = old.barrier
          /\ new.pending = old.pending /\ new.ready = TRUE
          /\ new.buffer = <<>> /\ new.closed = TRUE
          /\ new.accepted = old.accepted /\ new.result = old.result
          /\ new.status = old.status /\ new.outcome = "refused"
          /\ new.permit = FALSE
      BY <1>2, <1>3, <2>3 DEF Record
    <3> HIDE DEF new, old
    <3>2. OneEnd(new)
      BY <1>2, <1>5, <2>1, <3>1 DEF OneEnd
    <3> QED
      BY <3>1, <3>2 DEF new
  <2>5. Fits(free(unknown)) /\ free(unknown).permit = FALSE
    <3> DEFINE new == free(unknown)
    <3>1. /\ new \in Record /\ new.key = old.key /\ new.started = old.started
          /\ new.next = old.next /\ new.barrier = old.barrier
          /\ new.pending = old.pending /\ new.ready = TRUE
          /\ new.buffer = <<>> /\ new.closed = TRUE
          /\ new.accepted = old.accepted /\ new.result = "unknown"
          /\ new.status = "unknown" /\ new.outcome = "unknown"
          /\ new.permit = FALSE
      BY <1>2, <1>3, <2>3 DEF Record
    <3> HIDE DEF new, old
    <3>2. OneEnd(new)
      BY <1>2, <3>1 DEF OneEnd
    <3> QED
      BY <1>5, <3>1, <3>2 DEF new
  <2>6. /\ r \in Record /\ r.permit = old.permit
        /\ Fits(free(r)) /\ free(r).permit = FALSE
    BY <2>2, <2>3, <2>4, <2>5
  <2> HIDE DEF refused, unknown
  <2>7. Release(Replaced(h, i, r), i) = Changed(h, i, free(r))
    BY <1>1, <2>6, ReleaseIsChange
  <2>8. StartEnded(h, i, Changed(h, i, free(r)))
          /\ Changed(h, i, free(r)).records[i] = free(r)
    <3> DEFINE new == free(r)
    <3>1. new \in Record /\ Fits(new) /\ new.permit = FALSE
      BY <2>6
    <3> HIDE DEF old, new
    <3>2. RecordEnded(old, new)
      BY <3>1 DEF RecordEnded
    <3>3. StartEnded(h, i, Changed(h, i, new)) /\ Changed(h, i, new).records[i] = new
      <4>1. RecordEnded(h.records[i], new)
        BY <3>2 DEF old
      <4> QED
        BY <4>1, StartEndsByChange
    <3> QED
      BY <3>3 DEF new
  <2> QED
    BY <2>2, <2>6, <2>7, <2>8
<1> QED
  BY <1>4, <1>5

\* What is observed of the execution stays the same.
SameOutcome(r, s) ==
  /\ s.key = r.key /\ s.started = r.started /\ s.permit = r.permit
  /\ s.ready = r.ready /\ s.outcome = r.outcome /\ s.status = r.status
  /\ s.result = r.result

\* The emitter or the binding changes, and nothing else.
LEMMA EmitterChanged ==
  ASSUME NEW h, HandlerSound(h), NEW i \in DOMAIN h.records,
         NEW new \in Record, SameOutcome(h.records[i], new)
  PROVE  LET g == Replaced(h, i, new)
         IN /\ HandlerSound(g) /\ Len(g.records) = Len(h.records)
            /\ DOMAIN g.records = DOMAIN h.records /\ g.table = h.table
            /\ g.records[i] = new
            /\ \A j \in DOMAIN h.records : j # i => g.records[j] = h.records[j]
<1> DEFINE old == h.records[i]
           g == Changed(h, i, new)
<1>1. h \in Handlers /\ old \in Record /\ OneEnd(old)
  BY ElementOfSeq DEF HandlerSound, Handlers
<1>2. OneEnd(new)
  BY <1>1 DEF OneEnd, SameOutcome
<1>3. HandlerSound(g)
  BY <1>2, ChangedSound DEF SameOutcome
<1>4. /\ Len(g.records) = Len(h.records)
      /\ DOMAIN g.records = DOMAIN h.records /\ g.table = h.table
      /\ g.records[i] = new
      /\ \A j \in DOMAIN h.records : j # i => g.records[j] = h.records[j]
  BY <1>1, ChangedShape
<1>5. Replaced(h, i, new) = g
  BY <1>1, ReleaseIsChange DEF SameOutcome
<1> HIDE DEF g
<1> QED
  BY <1>3, <1>4, <1>5

\* The emitter is closed.
LEMMA ClosedSound ==
  ASSUME NEW h, HandlerSound(h), NEW i \in DOMAIN h.records
  PROVE  LET g == [h EXCEPT !.records[i].closed = TRUE]
         IN /\ HandlerSound(g) /\ Extends(h, g) /\ Len(g.records) = Len(h.records)
            /\ DOMAIN g.records = DOMAIN h.records /\ g.table = h.table
            /\ \A j \in DOMAIN h.records : g.records[j].result = h.records[j].result
<1> DEFINE old == h.records[i]
           new == [old EXCEPT !.closed = TRUE]
           g == [h EXCEPT !.records[i].closed = TRUE]
<1>1. h \in Handlers /\ old \in Record
  BY ElementOfSeq DEF HandlerSound, Handlers
<1>2. new \in Record /\ SameOutcome(old, new) /\ SameEmitter(old, new)
  BY <1>1 DEF Record, SameOutcome, SameEmitter
<1>3. g = Replaced(h, i, new)
  BY DEF Replaced
<1> HIDE DEF new, g
<1>4. /\ HandlerSound(g) /\ Len(g.records) = Len(h.records)
      /\ DOMAIN g.records = DOMAIN h.records /\ g.table = h.table
      /\ g.records[i] = new
      /\ \A j \in DOMAIN h.records : j # i => g.records[j] = h.records[j]
  BY <1>2, <1>3, EmitterChanged
<1>5. Extends(h, g)
  BY <1>2, <1>4 DEF Extends, SameEmitter, SameOutcome
<1> QED
  BY <1>2, <1>4, <1>5 DEF g, SameOutcome

-----------------------------------------------------------------------------
(* The parts of the invariant under the steps of requests that publish     *)
(* nothing.                                                                *)

LEMMA Types ==
  ASSUME IInv
  PROVE  /\ handler \in Handlers /\ records \in Seq(Record) /\ Len(records) \in Nat
         /\ DOMAIN records = 1..Len(records) /\ Len(records) <= MaxRecords
         /\ DOMAIN records \subseteq Ids /\ 0 \notin DOMAIN records
         /\ \A i \in DOMAIN records : records[i] \in Record
         /\ \A i \in Ids : /\ wire[i] \in Seq(Event \cup {Response})
                           /\ lock[i] \in Seq(Requests \cup Emissions)
         /\ DOMAIN request = Requests /\ DOMAIN emission = Emissions
         /\ DOMAIN lock = Ids /\ DOMAIN wire = Ids
         /\ \A t \in Requests : request[t].stage = "responding" =>
              request[t].early \in Seq(Event)
         /\ \A e \in Emissions : emission[e].stage # "idle" =>
              /\ emission[e].event \in Event /\ emission[e].record \in Ids
              /\ emission[e] = [stage |-> emission[e].stage,
                                record |-> emission[e].record,
                                event |-> emission[e].event]
<1>1. handler \in Handlers /\ records \in Seq(Record)
  BY DEF IInv, HandlerSound, Handlers, records
<1>2. /\ Len(records) \in Nat /\ DOMAIN records = 1..Len(records)
      /\ \A i \in DOMAIN records : records[i] \in Record
  BY <1>1, LenProperties, ElementOfSeq
<1>3. Len(records) <= MaxRecords /\ MaxRecords \in Nat
  BY EndpointAssumption DEF IInv, TypeOK
<1>4. DOMAIN records \subseteq Ids /\ 0 \notin DOMAIN records
  BY <1>2, <1>3 DEF Ids
<1>5. /\ \A i \in Ids : /\ wire[i] \in Seq(Event \cup {Response})
                        /\ lock[i] \in Seq(Requests \cup Emissions)
      /\ DOMAIN request = Requests /\ DOMAIN emission = Emissions
      /\ DOMAIN lock = Ids /\ DOMAIN wire = Ids
  BY DEF IInv, TypeOK
<1>6. ASSUME NEW t \in Requests, request[t].stage = "responding"
      PROVE  request[t].early \in Seq(Event)
  BY <1>6 DEF IInv, TypeOK, RequestStates
<1>7. ASSUME NEW e \in Emissions, emission[e].stage # "idle"
      PROVE  /\ emission[e].event \in Event /\ emission[e].record \in Ids
             /\ emission[e] = [stage |-> emission[e].stage,
                               record |-> emission[e].record,
                               event |-> emission[e].event]
  BY <1>7 DEF IInv, TypeOK, EmissionStates
<1> QED
  BY <1>1, <1>2, <1>3, <1>4, <1>5, <1>6, <1>7

\* What depends on the wire, on the tasks that respond and on the emissions.
EventsSound ==
  /\ EmissionsSound /\ NumbersDrawn /\ OnTheWay /\ NoneMissing
  /\ EventsAgree /\ NotMadeYet

SameResponders ==
  /\ \A t \in Requests, i \in DOMAIN records' :
       Responds(t, i)' <=> i \in DOMAIN records /\ Responds(t, i)
  /\ \A t \in Requests, i \in DOMAIN records :
       Responds(t, i) => request'[t].early = request[t].early

\* Nothing is published, and no number is drawn.
LEMMA QuietEvents ==
  ASSUME IInv, HandlerSound(handler'), Extends(handler, handler'),
         Len(records') <= MaxRecords,
         emission' = emission, wire' = wire, SameResponders,
         PublicationFailed => PublicationFailed'
  PROVE  EventsSound'
<1>1. /\ DOMAIN records \subseteq DOMAIN records'
      /\ \A i \in DOMAIN records :
           /\ SameEmitter(records[i], records'[i])
           /\ records[i].ready => records'[i].ready
           /\ records[i].result # None => records'[i].result = records[i].result
      /\ \A i \in DOMAIN records' \ DOMAIN records :
           records'[i].barrier = "shut" /\ records'[i].buffer = <<>>
             /\ records'[i].accepted = FALSE
      /\ Range(handler'.table) \cap DOMAIN records \subseteq Range(handler.table)
      /\ Range(handler'.table) \subseteq DOMAIN records'
  BY DEF Extends, records, HandlerSound, TableSound
<1>2. /\ EmissionsSound /\ NumbersDrawn /\ OnTheWay /\ NoneMissing
      /\ EventsAgree /\ NotMadeYet /\ RequestsSound
  BY DEF IInv
<1>3. \A e \in Emissions : \A i : /\ Publishes(e, i)' <=> Publishes(e, i)
                                  /\ Unnumbered(e, i)' <=> Unnumbered(e, i)
                                  /\ Ends(e, i)' <=> Ends(e, i)
  BY DEF Publishes, Unnumbered, Ends
<1>4. \A i : Held(i)' = Held(i) /\ Published(i)' = Published(i) /\ Base(i)' = Base(i)
  BY <1>3 DEF Held, Published, Base
<1>5. ASSUME NEW i \in DOMAIN records
      PROVE  Early(i)' = Early(i) /\ Numbered(i)' = Numbered(i)
  <2>1. Early(i)' = Early(i)
    BY <1>1 DEF SameResponders, Early
  <2>2. Range(records[i].buffer)' = Range(records[i].buffer)
    BY <1>1 DEF SameEmitter
  <2> QED
    BY <1>4, <2>1, <2>2 DEF Numbered
<1>6. ASSUME NEW i \in DOMAIN records' \ DOMAIN records
      PROVE  /\ wire[i] = <<>> /\ \A t \in Requests : ~Responds(t, i)'
             /\ \A e \in Emissions : ~Publishes(e, i) /\ ~Ends(e, i)
             /\ Numbered(i)' = {}
  <2>1. i \in Ids
    <3>1. DOMAIN records' = 1..Len(records') /\ Len(records') \in Nat
      BY LenProperties DEF HandlerSound, Handlers, records
    <3> QED
      BY <1>6, <3>1, EndpointAssumption DEF Ids
  <2>2. wire[i] = <<>>
    BY <1>2, <1>6, <2>1 DEF NotMadeYet
  <2>3. \A t \in Requests : ~Responds(t, i)'
    BY <1>6 DEF SameResponders
  <2>4. \A e \in Emissions : ~Publishes(e, i) /\ ~Ends(e, i)
    BY <1>2, <1>6 DEF EmissionsSound, Publishes, Ends
  <2>5. Early(i)' = {} /\ Held(i)' = {} /\ Published(i)' = {}
    BY <1>3, <1>4, <2>2, <2>3, <2>4 DEF Early, Held, Published
  <2>6. Range(records'[i].buffer) = {}
    BY <1>1, <1>6 DEF Range
  <2> QED
    BY <2>2, <2>3, <2>4, <2>5, <2>6 DEF Numbered
<1>7. EmissionsSound'
  BY <1>1, <1>2 DEF EmissionsSound, SameEmitter
<1>8. NumbersDrawn'
  <2>1. ASSUME NEW i \in DOMAIN records', NEW x \in Numbered(i)'
        PROVE  /\ x \in Event /\ x.number < records'[i].next
               /\ x.phase # Progress =>
                    /\ x.number + 1 = records'[i].next
                    /\ records'[i].closed
                    /\ \A e \in Emissions : ~Unnumbered(e, i)'
    <3>1. i \in DOMAIN records /\ x \in Numbered(i)
      BY <1>5, <1>6, <2>1
    <3>2. records'[i].next = records[i].next /\ (records[i].closed => records'[i].closed)
      BY <1>1, <3>1 DEF SameEmitter
    <3> QED
      BY <1>2, <1>3, <3>1, <3>2 DEF NumbersDrawn, NumbersAt
  <2> QED
    BY <2>1 DEF NumbersDrawn, NumbersAt
<1>9. OnTheWay'
  <2> SUFFICES ASSUME NEW i \in DOMAIN records'
      PROVE  /\ wire[i] # <<>> <=> records'[i].barrier = "open"
             /\ wire[i] # <<>> => wire[i][1] = Response
             /\ \A m, n \in 2..Len(wire[i]) :
                  m < n => wire[i][m].number < wire[i][n].number
             /\ ~records'[i].accepted => Len(wire[i]) <= 1
             /\ \A t \in Requests : Responds(t, i)' =>
                  /\ records'[i].ready
                  /\ records'[i].barrier = "open" => request'[t].early # <<>>
                  /\ ~records'[i].accepted => request'[t].early = <<>>
                  /\ \A m, n \in DOMAIN request'[t].early :
                       m < n => request'[t].early[m].number < request'[t].early[n].number
                  /\ \A x \in Published(i)', y \in Early(i)' : x.number < y.number
             /\ \A e \in Emissions : Publishes(e, i)' =>
                  /\ emission'[e].event.number + 1 = records'[i].next
                  /\ \A x \in Published(i)' \cup Early(i)' :
                       x.number < emission'[e].event.number
    BY DEF OnTheWay, WayAt
  <2>1. CASE i \notin DOMAIN records
    <3>1. /\ wire[i] = <<>> /\ \A t \in Requests : ~Responds(t, i)'
          /\ \A e \in Emissions : ~Publishes(e, i)'
          /\ records'[i].barrier = "shut"
      BY <1>1, <1>3, <1>6, <2>1
    <3>2. Len(wire[i]) = 0
      BY <3>1
    <3> QED
      BY <3>1, <3>2
  <2>2. CASE i \in DOMAIN records
    <3>1. SameEmitter(records[i], records'[i])
      BY <1>1, <2>2
    <3>2. ASSUME NEW t \in Requests, Responds(t, i)'
          PROVE  Responds(t, i) /\ request'[t].early = request[t].early
      BY <2>2, <3>2 DEF SameResponders
    <3>3. Published(i)' = Published(i) /\ Early(i)' = Early(i)
      BY <1>4, <1>5, <2>2
    <3> QED
      BY <1>1, <1>2, <1>3, <2>2, <3>1, <3>2, <3>3 DEF OnTheWay, WayAt, SameEmitter
  <2> QED
    BY <2>1, <2>2
<1>10. NoneMissing'
  <2> SUFFICES ASSUME ~PublicationFailed', NEW i \in DOMAIN records'
      PROVE  LET held == IF Held(i)' = {} THEN 0 ELSE 1
             IN /\ \A n \in 2..Len(wire[i]) : wire[i][n].number = n - 2
                /\ \A t \in Requests : Responds(t, i)' /\ records'[i].accepted =>
                     /\ \A n \in DOMAIN request'[t].early :
                          request'[t].early[n].number = Base(i)' + n - 1
                     /\ records'[i].next = Base(i)' + Len(request'[t].early) + held
                /\ (\A t \in Requests : ~Responds(t, i)') /\ records'[i].accepted =>
                     records'[i].next = Base(i)' + held
    BY DEF NoneMissing, WholeAt
  <2>1. CASE i \notin DOMAIN records
    <3>1. wire[i] = <<>> /\ records'[i].accepted = FALSE
      BY <1>1, <1>6, <2>1
    <3>2. Len(wire[i]) = 0
      BY <3>1
    <3> QED
      BY <3>1, <3>2
  <2>2. CASE i \in DOMAIN records
    <3>1. SameEmitter(records[i], records'[i]) /\ Held(i)' = Held(i)
            /\ Base(i)' = Base(i) /\ ~PublicationFailed
      BY <1>1, <1>4, <2>2
    <3>2. \A t \in Requests :
            /\ Responds(t, i)' <=> Responds(t, i)
            /\ Responds(t, i) => request'[t].early = request[t].early
      BY <2>2 DEF SameResponders
    <3> QED
      BY <1>2, <2>2, <3>1, <3>2 DEF NoneMissing, WholeAt, SameEmitter
  <2> QED
    BY <2>1, <2>2
<1>11. EventsAgree'
  <2>1. ASSUME NEW i \in Range(handler'.table)
        PROVE  /\ \A x \in Numbered(i)' : x.phase # Progress =>
                    records'[i].result = x.phase
               /\ \A e \in Emissions : Ends(e, i)' /\ emission'[e].stage = "number" =>
                    records'[i].result = emission'[e].event.phase
    <3>1. i \in DOMAIN records'
      BY <1>1
    <3>2. CASE i \notin DOMAIN records
      BY <1>3, <1>6, <3>1, <3>2
    <3>3. CASE i \in DOMAIN records
      <4>1. i \in Range(handler.table) /\ Numbered(i)' = Numbered(i)
        BY <1>1, <1>5, <3>3
      <4>2. /\ \A x \in Numbered(i) : x.phase # Progress => records[i].result = x.phase
            /\ \A e \in Emissions : Ends(e, i) /\ emission[e].stage = "number" =>
                 records[i].result = emission[e].event.phase
        BY <1>2, <4>1 DEF EventsAgree, AgreeAt
      <4>3. \A x \in Numbered(i) : x \in Event
        BY <1>2, <3>3 DEF NumbersDrawn, NumbersAt
      <4>4. \A e \in Emissions : Ends(e, i) => emission[e].event \in Event
        BY Types DEF Ends
      <4>5. \A x \in Event : x.phase # None
        BY DEF Event, EventPhases, Terminal, Progress, None
      <4> QED
        BY <1>1, <1>3, <3>3, <4>1, <4>2, <4>3, <4>4, <4>5
    <3> QED
      BY <3>2, <3>3
  <2> QED
    BY <2>1 DEF EventsAgree, AgreeAt
<1>12. NotMadeYet'
  BY <1>1, <1>2 DEF NotMadeYet
<1> QED
  BY <1>7, <1>8, <1>9, <1>10, <1>11, <1>12 DEF EventsSound

\* The locks, when no emission moves and no request that waits for one does.
LEMMA LocksStay ==
  ASSUME IInv, DOMAIN records \subseteq DOMAIN records', DOMAIN records' \subseteq Ids,
         \A i \in DOMAIN records :
           /\ records[i].accepted => records'[i].accepted
           /\ records'[i].pending = records[i].pending,
         emission' = emission, lock' = lock,
         \A t \in Requests : \A i : Closes(t, i)' <=> Closes(t, i)
  PROVE  LocksSound' /\ EndsInTurn'
<1>1. LocksSound /\ EndsInTurn /\ EmissionsSound /\ RequestsSound
  BY DEF IInv
<1>2. \A e \in Emissions : \A i : /\ Queued(e, i)' <=> Queued(e, i)
                                  /\ Publishes(e, i)' <=> Publishes(e, i)
                                  /\ Ends(e, i)' <=> Ends(e, i)
  BY DEF Queued, Publishes, Ends
<1>3. ASSUME NEW i \in DOMAIN records' \ DOMAIN records
      PROVE  /\ \A e \in Emissions : ~Queued(e, i) /\ ~Publishes(e, i) /\ ~Ends(e, i)
             /\ \A t \in Requests : ~Closes(t, i)
  BY <1>1 DEF EmissionsSound, RequestsSound, Queued, Publishes, Ends, Closes
<1>4. \A i \in Ids : lock[i] \in Seq(Requests \cup Emissions)
  BY Types
<1>5. ASSUME NEW i \in DOMAIN records'
      PROVE  /\ IsInjective(lock[i])
             /\ ~records'[i].accepted => lock[i] = <<>>
             /\ \A x \in Range(lock[i]) :
                  IF x \in Emissions THEN Queued(x, i) ELSE Closes(x, i)
             /\ \A e \in Emissions : Queued(e, i) => e \in Range(lock[i])
             /\ \A t \in Requests : Closes(t, i) => t \in Range(lock[i])
             /\ \A e \in Emissions : Publishes(e, i) => Head(lock[i]) = e
  <2>1. CASE i \in DOMAIN records
    BY <1>1, <2>1 DEF LocksSound, LocksAt
  <2>2. CASE i \notin DOMAIN records
    <3>1. lock[i] = <<>>
      BY <1>1, <2>2 DEF LocksSound, LocksAt
    <3>2. IsInjective(<<>>) /\ Range(<<>>) = {}
      BY DEF IsInjective, Range
    <3> QED
      BY <1>3, <2>2, <3>1, <3>2
  <2> QED
    BY <2>1, <2>2
<1>6. LocksSound'
  <2>1. ASSUME NEW i \in DOMAIN records', NEW x \in Range(lock[i])
        PROVE  IF x \in Emissions THEN Queued(x, i)' ELSE Closes(x, i)'
    <3>1. i \in Ids /\ x \in Requests \cup Emissions
      BY <1>4, <2>1, RangeType
    <3> QED
      BY <1>2, <1>5, <3>1
  <2> QED
    BY <1>1, <1>2, <1>5, <2>1 DEF LocksSound, LocksAt
<1>7. ASSUME NEW i \in DOMAIN records'
      PROVE  /\ \A e \in Emissions : Ends(e, i) => records'[i].pending
             /\ \A e, f \in Emissions : Ends(e, i) /\ Ends(f, i) => e = f
             /\ \A m, n \in DOMAIN lock[i] :
                  /\ lock[i][m] \in Emissions /\ lock[i][n] \in Emissions
                  /\ emission[lock[i][m]].stage = "number"
                  /\ emission[lock[i][m]].event.phase # Progress
                  /\ emission[lock[i][n]].stage = "number"
                  /\ emission[lock[i][n]].event.phase = Progress
                  => n < m
  <2>1. CASE i \in DOMAIN records
    BY <1>1, <2>1 DEF EndsInTurn, TurnAt
  <2>2. CASE i \notin DOMAIN records
    <3>1. \A m \in DOMAIN lock[i] : lock[i][m] \in Range(lock[i])
      BY DEF Range
    <3>2. \A x \in Range(lock[i]) : x \in Emissions => Queued(x, i)
      BY <1>5
    <3> QED
      BY <1>3, <2>2, <3>1, <3>2
  <2> QED
    BY <2>1, <2>2
<1>8. EndsInTurn'
  BY <1>2, <1>7 DEF EndsInTurn, TurnAt
<1> QED
  BY <1>6, <1>8

\* What a sound handler gives to the types.
LEMMA HandlerTypes ==
  ASSUME NEW h, HandlerSound(h)
  PROVE  /\ h.records \in Seq(Record) /\ Range(h.table) \subseteq DOMAIN h.records
         /\ h.active \in 0..MaxConcurrency
         /\ Len(h.records) \in Nat /\ DOMAIN h.records = 1..Len(h.records)
<1>1. h.active <= MaxConcurrency /\ h.active \in Nat /\ MaxConcurrency \in Nat
  BY ExecutionsAssumption DEF HandlerSound, TableSound, Handlers
<1>2. h.records \in Seq(Record) /\ Range(h.table) \subseteq DOMAIN h.records
  BY DEF HandlerSound, TableSound, Handlers
<1> QED
  BY <1>1, <1>2, LenProperties

\* Request t goes on without a publication, or starts a new record.
LEMMA QuietRequest ==
  ASSUME IInv, HandlerSound(handler'), Extends(handler, handler'),
         Len(records') <= MaxRecords, NEW t \in Requests, NEW to \in RequestStates,
         Goes(t, to), emission' = emission, wire' = wire,
         lock' \in [Ids -> Seq(Requests \cup Emissions)],
         request[t].stage \notin {"starting", "responding", "unsent"},
         to.stage \notin {"responding", "unsent"},
         to.stage = "starting" =>
           /\ to.record \in DOMAIN records' \ DOMAIN records
           /\ records'[to.record].started /\ ~records'[to.record].ready
           /\ records'[to.record].next = 0,
         to.stage \in {"waiting", "closing"} => to.record \in DOMAIN records',
         to.stage = "done" => to.record \in DOMAIN records' \cup {0},
         to.stage \in {"closing", "done"} =>
           (to.record # 0 /\ to.reply \in Terminal
              => records'[to.record].result = to.reply)
  PROVE  /\ TypeOK' /\ HandlerSound(handler') /\ RequestsSound' /\ StartsAfresh'
         /\ EventsSound'
<1>1. /\ DOMAIN records \subseteq DOMAIN records'
      /\ \A i \in DOMAIN records :
           /\ SameEmitter(records[i], records'[i])
           /\ records[i].started => records'[i].ready = records[i].ready
           /\ records[i].result # None => records'[i].result = records[i].result
      /\ \A i \in DOMAIN records' \ DOMAIN records :
           records'[i].buffer = <<>> /\ records'[i].accepted = FALSE
  BY DEF Extends, records
<1>2. /\ RequestsSound /\ StartsAfresh /\ NotMadeYet /\ TypeOK
      /\ DOMAIN request = Requests
  BY Types DEF IInv
<1>3. request'[t] = to /\ \A u \in Requests \ {t} : request'[u] = request[u]
  BY <1>2 DEF Goes
<1>4. \A u \in Requests : request[u].stage \in {"starting", "responding"} =>
        u # t /\ request[u].record \in DOMAIN records
  BY <1>2 DEF RequestsSound
<1>5. \A u \in Requests : \A i : Responds(u, i)' <=> Responds(u, i)
  BY <1>3 DEF Responds
<1>6. SameResponders
  BY <1>3, <1>4, <1>5 DEF SameResponders, Responds
<1>7. PublicationFailed => PublicationFailed'
  BY <1>3 DEF PublicationFailed
<1>8. EventsSound'
  BY <1>6, <1>7, QuietEvents
<1>9. TypeOK'
  <2>1. request' \in [Requests -> RequestStates]
    BY <1>2 DEF Goes, TypeOK
  <2>2. /\ records' \in Seq(Record) /\ Range(handler'.table) \subseteq DOMAIN records'
        /\ handler'.active \in 0..MaxConcurrency
    BY HandlerTypes DEF records
  <2> QED
    BY <1>2, <2>1, <2>2 DEF TypeOK, records
<1>10. ASSUME NEW u \in Requests
       PROVE  /\ request'[u].stage \in {"starting", "waiting", "responding", "closing"}
                   => request'[u].record \in DOMAIN records'
              /\ request'[u].stage = "done" =>
                   request'[u].record \in DOMAIN records' \cup {0}
              /\ request'[u].stage \in {"responding", "closing", "done"} =>
                   (request'[u].record # 0 /\ request'[u].reply \in Terminal
                      => records'[request'[u].record].result = request'[u].reply)
  <2>1. CASE u = t
    BY <1>3, <2>1
  <2>2. CASE u # t
    <3>1. /\ request[u].stage \in {"starting", "waiting", "responding", "closing"}
                   => request[u].record \in DOMAIN records
          /\ request[u].stage = "done" =>
                   request[u].record \in DOMAIN records \cup {0}
          /\ request[u].stage \in {"responding", "closing", "done"} =>
                   (request[u].record # 0 /\ request[u].reply \in Terminal
                      => records[request[u].record].result = request[u].reply)
      BY <1>2 DEF RequestsSound
    <3>2. request'[u] = request[u]
      BY <1>3, <2>2
    <3>3. None \notin Terminal
      BY DEF None, Terminal
    <3> QED
      BY <1>1, <3>1, <3>2, <3>3
  <2> QED
    BY <2>1, <2>2
<1>11. \A u \in Requests : \A i :
         /\ Starts(u, i)' => \/ Starts(u, i) /\ u # t
                             \/ u = t /\ i = to.record /\ to.stage = "starting"
         /\ Responds(u, i)' => Responds(u, i) /\ u # t
  BY <1>3, <1>4, <1>5 DEF Starts, Responds
<1>12. \A u \in Requests : \A i : Starts(u, i) \/ Responds(u, i) => i \in DOMAIN records
  BY <1>4 DEF Starts, Responds
<1>13. ASSUME NEW u \in Requests, NEW v \in Requests, NEW i \in DOMAIN records',
              Starts(u, i)' \/ Responds(u, i)', Starts(v, i)' \/ Responds(v, i)'
       PROVE  u = v
  BY <1>2, <1>11, <1>12, <1>13 DEF RequestsSound
<1>14. RequestsSound'
  BY <1>10, <1>13 DEF RequestsSound
<1>15. StartsAfresh'
  <2> SUFFICES ASSUME NEW u \in Requests, NEW i \in DOMAIN records', Starts(u, i)'
      PROVE  /\ records'[i].started /\ ~records'[i].ready /\ ~records'[i].accepted
             /\ wire[i] = <<>>
             /\ records'[i].next = Len(records'[i].buffer)
             /\ \A n \in DOMAIN records'[i].buffer :
                  records'[i].buffer[n].number = n - 1
    BY DEF StartsAfresh
  <2>1. CASE Starts(u, i)
    <3>1. i \in DOMAIN records
      BY <1>12, <2>1
    <3> QED
      BY <1>1, <1>2, <2>1, <3>1 DEF StartsAfresh, SameEmitter
  <2>2. CASE ~Starts(u, i)
    <3>1. i = to.record /\ to.stage = "starting"
      BY <1>11, <2>2
    <3>2. /\ i \in DOMAIN records' \ DOMAIN records /\ records'[i].started
          /\ ~records'[i].ready /\ records'[i].next = 0
          /\ records'[i].buffer = <<>> /\ records'[i].accepted = FALSE
      BY <1>1, <3>1
    <3>3. i \in Ids
      BY <3>2, HandlerTypes, EndpointAssumption DEF records, Ids
    <3>4. wire[i] = <<>>
      BY <1>2, <3>2, <3>3 DEF NotMadeYet
    <3> QED
      BY <3>2, <3>4
  <2> QED
    BY <2>1, <2>2
<1> QED
  BY <1>8, <1>9, <1>14, <1>15

\* Request t waits for the lock of record i, to close its emitter.
LEMMA CloseQueues ==
  ASSUME IInv, DOMAIN records \subseteq DOMAIN records', DOMAIN records' \subseteq Ids,
         \A i \in DOMAIN records :
           /\ records[i].accepted => records'[i].accepted
           /\ records'[i].pending = records[i].pending,
         emission' = emission, NEW t \in Requests, NEW i \in DOMAIN records,
         lock[i] # <<>>, lock' = [lock EXCEPT ![i] = Append(@, t)],
         request[t].stage # "closing",
         \A u \in Requests : \A j :
           Closes(u, j)' <=> Closes(u, j) \/ (u = t /\ j = i)
  PROVE  /\ LocksSound' /\ EndsInTurn'
         /\ lock' \in [Ids -> Seq(Requests \cup Emissions)]
<1>1. LocksSound /\ EndsInTurn /\ EmissionsSound /\ RequestsSound
  BY DEF IInv
<1>2. \A e \in Emissions : \A j : /\ Queued(e, j)' <=> Queued(e, j)
                                  /\ Publishes(e, j)' <=> Publishes(e, j)
                                  /\ Ends(e, j)' <=> Ends(e, j)
  BY DEF Queued, Publishes, Ends
<1>3. /\ t \notin Emissions /\ i \in Ids /\ lock[i] \in Seq(Requests \cup Emissions)
      /\ t \notin Range(lock[i])
  <2>1. t \notin Emissions /\ i \in Ids /\ lock[i] \in Seq(Requests \cup Emissions)
    BY Types, EndpointAssumption
  <2> QED
    BY <1>1, <2>1 DEF LocksSound, LocksAt, Closes
<1> DEFINE old == lock[i]
           new == Append(old, t)
<1>4. /\ new \in Seq(Requests \cup Emissions) /\ Len(old) \in Nat
      /\ DOMAIN new = DOMAIN old \cup {Len(old) + 1}
      /\ \A n \in DOMAIN old : new[n] = old[n]
      /\ new[Len(old) + 1] = t /\ Range(new) = Range(old) \cup {t}
      /\ IsInjective(new) /\ 1 \in DOMAIN old /\ Head(new) = Head(old)
  <2> DEFINE S == Requests \cup Emissions
  <2>1. old \in Seq(S) /\ t \in S /\ old # <<>> /\ IsInjective(old) /\ t \notin Range(old)
    BY <1>1, <1>3 DEF LocksSound, LocksAt
  <2> HIDE DEF old, S
  <2>2. /\ new \in Seq(S) /\ Len(old) \in Nat
        /\ DOMAIN new = DOMAIN old \cup {Len(old) + 1}
        /\ \A n \in DOMAIN old : new[n] = old[n]
        /\ new[Len(old) + 1] = t /\ Range(new) = Range(old) \cup {t}
    BY <2>1, AppendItems
  <2>3. IsInjective(new)
    BY <2>1, InjectiveAppend
  <2>4. 1 \in DOMAIN old /\ Head(old) = old[1]
    BY <2>1, TailItems
  <2>5. Head(new) = new[1]
    BY <2>1
  <2> QED
    BY <2>2, <2>3, <2>4, <2>5 DEF S
<1>5. /\ lock'[i] = new /\ \A j \in Ids \ {i} : lock'[j] = lock[j]
      /\ lock' \in [Ids -> Seq(Requests \cup Emissions)]
  BY <1>3, <1>4 DEF IInv, TypeOK
<1> HIDE DEF old, new
<1>6. \A j \in DOMAIN records' \ DOMAIN records :
        /\ \A e \in Emissions : ~Queued(e, j) /\ ~Publishes(e, j) /\ ~Ends(e, j)
        /\ \A u \in Requests : ~Closes(u, j)'
  <2>1. \A j, u : u \in Requests /\ Closes(u, j) => j \in DOMAIN records
    BY <1>1 DEF RequestsSound, Closes
  <2>2. \A j \in DOMAIN records' \ DOMAIN records, u \in Requests : ~Closes(u, j)'
    BY <2>1
  <2> QED
    BY <1>1, <2>2 DEF EmissionsSound, Queued, Publishes, Ends
<1>7. ASSUME NEW j \in DOMAIN records', j # i
      PROVE  /\ IsInjective(lock[j])
             /\ ~records'[j].accepted => lock[j] = <<>>
             /\ \A x \in Range(lock[j]) : IF x \in Emissions THEN Queued(x, j) ELSE Closes(x, j)
             /\ \A e \in Emissions : Queued(e, j) => e \in Range(lock[j])
             /\ \A u \in Requests : Closes(u, j) => u \in Range(lock[j])
             /\ \A e \in Emissions : Publishes(e, j) => Head(lock[j]) = e
  <2>1. CASE j \in DOMAIN records
    BY <1>1, <2>1 DEF LocksSound, LocksAt
  <2>2. CASE j \notin DOMAIN records
    <3>1. lock[j] = <<>>
      BY <1>1, <2>2 DEF LocksSound, LocksAt
    <3>2. IsInjective(<<>>) /\ Range(<<>>) = {}
      BY DEF IsInjective, Range
    <3> QED
      BY <1>6, <1>7, <2>2, <3>1, <3>2
  <2> QED
    BY <2>1, <2>2
<1>8. /\ IsInjective(new) /\ records'[i].accepted
      /\ \A x \in Range(new) : IF x \in Emissions THEN Queued(x, i) ELSE Closes(x, i)'
      /\ \A e \in Emissions : Queued(e, i) => e \in Range(new)
      /\ \A u \in Requests : Closes(u, i)' => u \in Range(new)
      /\ \A e \in Emissions : Publishes(e, i) => Head(new) = e
  <2>1. /\ records[i].accepted
        /\ \A x \in Range(old) : IF x \in Emissions THEN Queued(x, i) ELSE Closes(x, i)
        /\ \A e \in Emissions : Queued(e, i) => e \in Range(old)
        /\ \A u \in Requests : Closes(u, i) => u \in Range(old)
        /\ \A e \in Emissions : Publishes(e, i) => Head(old) = e
    BY <1>1 DEF LocksSound, LocksAt, old
  <2>2. \A x \in Range(old) : x \in Requests \cup Emissions
    BY <1>3, RangeType DEF old
  <2> QED
    BY <1>3, <1>4, <2>1, <2>2
<1>9. \A j \in Ids \ DOMAIN records' : lock'[j] = <<>>
  BY <1>1, <1>5 DEF LocksSound, LocksAt
<1>10. ASSUME NEW j \in DOMAIN records'
       PROVE  /\ IsInjective(lock'[j])
              /\ ~records'[j].accepted => lock'[j] = <<>>
              /\ \A x \in Range(lock'[j]) :
                   IF x \in Emissions THEN Queued(x, j)' ELSE Closes(x, j)'
              /\ \A e \in Emissions : Queued(e, j)' => e \in Range(lock'[j])
              /\ \A u \in Requests : Closes(u, j)' => u \in Range(lock'[j])
              /\ \A e \in Emissions : Publishes(e, j)' => Head(lock'[j]) = e
  <2>1. CASE j = i
    BY <1>2, <1>5, <1>8, <2>1
  <2>2. CASE j # i
    <3>1. lock'[j] = lock[j] /\ j \in Ids
      BY <1>5, <2>2
    <3>2. \A x \in Range(lock[j]) : x \in Requests \cup Emissions
      BY <3>1, Types, RangeType
    <3> QED
      BY <1>2, <1>7, <2>2, <3>1, <3>2
  <2> QED
    BY <2>1, <2>2
<1>11. LocksSound'
  BY <1>9, <1>10 DEF LocksSound, LocksAt
<1>12. ASSUME NEW j \in DOMAIN records', NEW m \in DOMAIN lock'[j], NEW n \in DOMAIN lock'[j],
              lock'[j][m] \in Emissions, lock'[j][n] \in Emissions,
              emission[lock'[j][m]].stage = "number",
              emission[lock'[j][m]].event.phase # Progress,
              emission[lock'[j][n]].stage = "number",
              emission[lock'[j][n]].event.phase = Progress
       PROVE  n < m
  <2>1. j \in DOMAIN records
    <3>1. lock'[j][m] \in Range(lock'[j])
      BY DEF Range
    <3>2. Queued(lock'[j][m], j)
      BY <1>2, <1>10, <1>12, <3>1
    <3> QED
      BY <1>6, <1>12, <3>2
  <2>2. CASE j = i
    <3>1. m \in DOMAIN old /\ n \in DOMAIN old /\ new[m] = old[m] /\ new[n] = old[n]
      BY <1>3, <1>4, <1>5, <1>12, <2>2
    <3> QED
      <4>1. /\ old[m] \in Emissions /\ old[n] \in Emissions
            /\ emission[old[m]].stage = "number"
            /\ emission[old[m]].event.phase # Progress
            /\ emission[old[n]].stage = "number"
            /\ emission[old[n]].event.phase = Progress
        BY <1>5, <1>12, <2>2, <3>1
      <4>2. TurnAt(i)
        BY <1>1, <2>1, <2>2 DEF EndsInTurn
      <4> QED
        BY <3>1, <4>1, <4>2 DEF TurnAt, old
  <2>3. CASE j # i
    BY <1>1, <1>5, <1>12, <2>1, <2>3 DEF EndsInTurn, TurnAt
  <2> QED
    BY <2>2, <2>3
<1>13. \A j \in DOMAIN records' :
         /\ \A e \in Emissions : Ends(e, j) => records'[j].pending
         /\ \A e, f \in Emissions : Ends(e, j) /\ Ends(f, j) => e = f
  BY <1>1, <1>6 DEF EndsInTurn, TurnAt
<1>14. EndsInTurn'
  BY <1>2, <1>12, <1>13 DEF EndsInTurn, TurnAt
<1> QED
  BY <1>5, <1>11, <1>14

\* Request t had its turn, and leaves the lock of record i.
LEMMA CloseLeaves ==
  ASSUME IInv, DOMAIN records' = DOMAIN records,
         \A i \in DOMAIN records :
           /\ records[i].accepted => records'[i].accepted
           /\ records'[i].pending = records[i].pending,
         emission' = emission, NEW t \in Requests, NEW i, Closes(t, i),
         Head(lock[i]) = t, lock' = [lock EXCEPT ![i] = Tail(@)],
         \A u \in Requests : \A j : Closes(u, j)' <=> Closes(u, j) /\ u # t
  PROVE  /\ LocksSound' /\ EndsInTurn'
         /\ lock' \in [Ids -> Seq(Requests \cup Emissions)]
<1>1. LocksSound /\ EndsInTurn /\ EmissionsSound /\ RequestsSound
  BY DEF IInv
<1>2. \A e \in Emissions : \A j : /\ Queued(e, j)' <=> Queued(e, j)
                                  /\ Publishes(e, j)' <=> Publishes(e, j)
                                  /\ Ends(e, j)' <=> Ends(e, j)
  BY DEF Queued, Publishes, Ends
<1>3. /\ t \notin Emissions /\ i \in DOMAIN records /\ i \in Ids
      /\ lock[i] \in Seq(Requests \cup Emissions) /\ lock[i] # <<>>
      /\ DOMAIN records \subseteq Ids
  <2>1. i \in DOMAIN records
    BY <1>1 DEF RequestsSound, Closes
  <2>2. t \in Range(lock[i])
    BY <1>1, <2>1 DEF LocksSound, LocksAt
  <2> QED
    BY <2>1, <2>2, Types, EndpointAssumption DEF Range
<1> DEFINE old == lock[i]
           new == Tail(old)
<1>4. /\ new \in Seq(Requests \cup Emissions)
      /\ \A n \in DOMAIN new : n + 1 \in DOMAIN old /\ new[n] = old[n + 1]
      /\ DOMAIN new \subseteq Nat
      /\ IsInjective(new) /\ Range(new) = Range(old) \ {t}
  <2> DEFINE S == Requests \cup Emissions
  <2>1. old \in Seq(S) /\ old # <<>> /\ IsInjective(old) /\ Head(old) = t
    BY <1>1, <1>3 DEF LocksSound, LocksAt
  <2> HIDE DEF old, S
  <2>2. IsInjective(Tail(old)) /\ Range(Tail(old)) = Range(old) \ {Head(old)}
    BY <2>1, InjectiveTail
  <2>3. /\ Tail(old) \in Seq(S) /\ DOMAIN Tail(old) = 1..Len(old) - 1
        /\ \A n \in DOMAIN Tail(old) : n + 1 \in DOMAIN old /\ Tail(old)[n] = old[n + 1]
        /\ Len(old) \in Nat
    BY <2>1, TailItems
  <2> QED
    BY <2>1, <2>2, <2>3 DEF S
<1>5. /\ lock'[i] = new /\ \A j \in Ids \ {i} : lock'[j] = lock[j]
      /\ lock' \in [Ids -> Seq(Requests \cup Emissions)]
  BY <1>3, <1>4 DEF IInv, TypeOK
<1> HIDE DEF old, new
<1>6. /\ records'[i].accepted
      /\ \A x \in Range(old) : x # t => IF x \in Emissions THEN Queued(x, i) ELSE Closes(x, i)
      /\ \A e \in Emissions : Queued(e, i) => e \in Range(old)
      /\ \A u \in Requests : Closes(u, i) => u \in Range(old)
      /\ \A e \in Emissions : ~Publishes(e, i)
      /\ \A x \in Range(old) : x \in Requests \cup Emissions
  <2>1. /\ records[i].accepted
        /\ \A x \in Range(old) : IF x \in Emissions THEN Queued(x, i) ELSE Closes(x, i)
        /\ \A e \in Emissions : Queued(e, i) => e \in Range(old)
        /\ \A u \in Requests : Closes(u, i) => u \in Range(old)
        /\ \A e \in Emissions : Publishes(e, i) => Head(old) = e
    BY <1>1, <1>3 DEF LocksSound, LocksAt, old
  <2>2. \A x \in Range(old) : x \in Requests \cup Emissions
    BY <1>3, RangeType DEF old
  <2>3. \A e \in Emissions : ~Publishes(e, i)
    BY <1>3, <2>1 DEF old
  <2> QED
    BY <1>3, <2>1, <2>2, <2>3
<1>7. \A j : j # i => ~Closes(t, j)
  BY DEF Closes
<1>8. ASSUME NEW j \in DOMAIN records'
      PROVE  /\ IsInjective(lock'[j])
             /\ ~records'[j].accepted => lock'[j] = <<>>
             /\ \A x \in Range(lock'[j]) :
                  IF x \in Emissions THEN Queued(x, j)' ELSE Closes(x, j)'
             /\ \A e \in Emissions : Queued(e, j)' => e \in Range(lock'[j])
             /\ \A u \in Requests : Closes(u, j)' => u \in Range(lock'[j])
             /\ \A e \in Emissions : Publishes(e, j)' => Head(lock'[j]) = e
  <2>1. CASE j = i
    BY <1>2, <1>3, <1>4, <1>5, <1>6, <2>1
  <2>2. CASE j # i
    <3>1. lock'[j] = lock[j] /\ j \in Ids /\ j \in DOMAIN records
      BY <1>3, <1>5, <2>2
    <3>2. \A x \in Range(lock[j]) : x \in Requests \cup Emissions
      BY <3>1, Types, RangeType
    <3>3. /\ IsInjective(lock[j])
          /\ ~records'[j].accepted => lock[j] = <<>>
          /\ \A x \in Range(lock[j]) : IF x \in Emissions THEN Queued(x, j) ELSE Closes(x, j)
          /\ \A e \in Emissions : Queued(e, j) => e \in Range(lock[j])
          /\ \A u \in Requests : Closes(u, j) => u \in Range(lock[j])
          /\ \A e \in Emissions : Publishes(e, j) => Head(lock[j]) = e
      BY <1>1, <3>1 DEF LocksSound, LocksAt
    <3> QED
      BY <1>2, <1>7, <2>2, <3>1, <3>2, <3>3
  <2> QED
    BY <2>1, <2>2
<1>9. LocksSound'
  BY <1>1, <1>3, <1>5, <1>8 DEF LocksSound, LocksAt
<1>10. ASSUME NEW j \in DOMAIN records', NEW m \in DOMAIN lock'[j], NEW n \in DOMAIN lock'[j],
              lock'[j][m] \in Emissions, lock'[j][n] \in Emissions,
              emission[lock'[j][m]].stage = "number",
              emission[lock'[j][m]].event.phase # Progress,
              emission[lock'[j][n]].stage = "number",
              emission[lock'[j][n]].event.phase = Progress
       PROVE  n < m
  <2>1. CASE j = i
    <3>1. /\ m + 1 \in DOMAIN old /\ n + 1 \in DOMAIN old /\ m \in Nat /\ n \in Nat
          /\ new[m] = old[m + 1] /\ new[n] = old[n + 1]
      BY <1>4, <1>5, <1>10, <2>1
    <3>2. n + 1 < m + 1
      <4>1. /\ old[m + 1] \in Emissions /\ old[n + 1] \in Emissions
            /\ emission[old[m + 1]].stage = "number"
            /\ emission[old[m + 1]].event.phase # Progress
            /\ emission[old[n + 1]].stage = "number"
            /\ emission[old[n + 1]].event.phase = Progress
        BY <1>5, <1>10, <2>1, <3>1
      <4>2. TurnAt(i)
        BY <1>1, <1>3 DEF EndsInTurn
      <4> QED
        BY <3>1, <4>1, <4>2 DEF TurnAt, old
    <3> QED
      BY <3>1, <3>2
  <2>2. CASE j # i
    BY <1>1, <1>3, <1>5, <1>10, <2>2 DEF EndsInTurn, TurnAt
  <2> QED
    BY <2>1, <2>2
<1>11. EndsInTurn'
  BY <1>1, <1>2, <1>10 DEF EndsInTurn, TurnAt
<1> QED
  BY <1>5, <1>9, <1>11

LEMMA RepliedType ==
  ASSUME NEW i \in Ids \cup {0}, NEW reply \in Replies
  PROVE  /\ Replied(i, reply) \in RequestStates
         /\ Replied(i, reply).stage = "done" /\ Replied(i, reply).record = i
         /\ Replied(i, reply).reply = reply
BY DEF Replied, RequestStates

\* Request t goes on, and the locks are left alone.
LEMMA QuietGoes ==
  ASSUME IInv, HandlerSound(handler'), Extends(handler, handler'),
         Len(records') <= MaxRecords, NEW t \in Requests, NEW to \in RequestStates,
         Goes(t, to), emission' = emission, wire' = wire, lock' = lock,
         request[t].stage \notin {"starting", "responding", "unsent", "closing"},
         to.stage \notin {"responding", "unsent", "closing"},
         to.stage = "starting" =>
           /\ to.record \in DOMAIN records' \ DOMAIN records
           /\ records'[to.record].started /\ ~records'[to.record].ready
           /\ records'[to.record].next = 0,
         to.stage = "waiting" => to.record \in DOMAIN records',
         to.stage = "done" =>
           /\ to.record \in DOMAIN records' \cup {0}
           /\ to.record # 0 /\ to.reply \in Terminal
                => records'[to.record].result = to.reply
  PROVE  IInv'
<1>1. TypeOK /\ DOMAIN request = Requests
  BY Types DEF IInv
<1>2. lock' \in [Ids -> Seq(Requests \cup Emissions)]
  BY <1>1 DEF TypeOK
<1>3. TypeOK' /\ HandlerSound(handler') /\ RequestsSound' /\ StartsAfresh'
        /\ EventsSound'
  BY <1>2, QuietRequest
<1>4. /\ DOMAIN records \subseteq DOMAIN records' /\ DOMAIN records' \subseteq Ids
      /\ \A i \in DOMAIN records :
           /\ records[i].accepted => records'[i].accepted
           /\ records'[i].pending = records[i].pending
  <2>1. DOMAIN records' \subseteq Ids
    BY HandlerTypes, EndpointAssumption DEF records, Ids
  <2> QED
    BY <2>1 DEF Extends, SameEmitter, records
<1>5. \A u \in Requests : \A i : Closes(u, i)' <=> Closes(u, i)
  BY <1>1 DEF Goes, Closes
<1>6. LocksSound' /\ EndsInTurn'
  BY <1>4, <1>5, LocksStay
<1> QED
  BY <1>3, <1>6 DEF IInv, EventsSound

\* Where nothing was observed.
LEMMA HandlerStays ==
  ASSUME IInv, handler' = handler
  PROVE  HandlerSound(handler') /\ Extends(handler, handler')
           /\ Len(records') <= MaxRecords
<1>1. HandlerSound(handler) /\ Len(records) <= MaxRecords
  BY DEF IInv, TypeOK
<1>2. Extends(handler, handler')
  BY SameRecordsExtend
<1> QED
  BY <1>1, <1>2 DEF records

LEMMA InvokeStep ==
  ASSUME IInv, NEW t \in Requests, NEW key \in Keys, Invoke(t, key)
  PROVE  IInv'
<1> DEFINE found == Found(handler, key)
<1>1. /\ request[t].stage = "idle" /\ Len(records) < MaxRecords
      /\ emission' = emission /\ lock' = lock /\ wire' = wire
      /\ HandlerSound(handler)
  BY DEF Invoke, Idle, CanMake, IInv
<1>2. CASE found = {} /\ AtCapacity(handler) /\ UNCHANGED handler
             /\ Goes(t, Replied(0, "capacity"))
  <2>1. 0 \in Ids \cup {0} /\ "capacity" \in Replies /\ "capacity" \notin Terminal
    BY DEF Replies, Terminal
  <2> DEFINE to == Replied(0, "capacity")
  <2>2. /\ to \in RequestStates /\ to.stage = "done" /\ to.record = 0
        /\ to.reply = "capacity"
    BY <2>1, RepliedType
  <2>3. HandlerSound(handler') /\ Extends(handler, handler')
          /\ Len(records') <= MaxRecords
    BY <1>2, HandlerStays
  <2>4. Goes(t, to)
    BY <1>2
  <2> HIDE DEF to
  <2> QED
    BY <1>1, <2>2, <2>3, <2>4, QuietGoes
<1>3. CASE /\ found = {} /\ ~AtCapacity(handler)
           /\ handler' = Admit(handler, key)
           /\ Goes(t, [stage |-> "starting", record |-> Len(records) + 1])
  <2> DEFINE i == Len(handler.records) + 1
             to == [stage |-> "starting", record |-> i]
  <2>1. HasRoom(handler) /\ handler.active < MaxConcurrency /\ TRUE \in BOOLEAN
    <3>1. handler.active \in Nat /\ MaxConcurrency \in Nat
      BY <1>1, ExecutionsAssumption DEF HandlerSound, Handlers
    <3> QED
      BY <1>3, <3>1 DEF AtCapacity
  <2>2. /\ HandlerSound(handler') /\ Extends(handler, handler')
        /\ i \notin DOMAIN handler.records
        /\ DOMAIN handler'.records = DOMAIN handler.records \cup {i}
        /\ handler'.records[i] = NewRecord(key, TRUE) /\ Len(handler'.records) = i
    BY <1>1, <1>3, <2>1, InsertSound DEF Admit
  <2>3. /\ NewRecord(key, TRUE).started = TRUE /\ NewRecord(key, TRUE).ready = FALSE
        /\ NewRecord(key, TRUE).next = 0
    BY NewRecordType
  <2>4. i \in Ids /\ i <= MaxRecords
    <3>1. Len(records) \in Nat /\ MaxRecords \in Nat
      BY Types, EndpointAssumption
    <3> QED
      BY <1>1, <3>1 DEF records, Ids
  <2>5. to \in RequestStates /\ to.stage = "starting" /\ to.record = i
    BY <2>4 DEF RequestStates
  <2>6. Goes(t, to)
    BY <1>3 DEF records
  <2>7. Len(records') <= MaxRecords
    BY <2>2, <2>4 DEF records
  <2>8. /\ to.record \in DOMAIN records' \ DOMAIN records
        /\ records'[to.record].started /\ ~records'[to.record].ready
        /\ records'[to.record].next = 0
    BY <2>2, <2>3, <2>5 DEF records
  <2> HIDE DEF to, i
  <2> QED
    BY <1>1, <2>2, <2>5, <2>6, <2>7, <2>8, QuietGoes
<1>4. ASSUME NEW i \in found, handler' = Touch(handler, i),
             NEW to \in {[stage |-> "waiting", record |-> i], Replied(i, "observed")},
             Goes(t, to)
      PROVE  IInv'
  <2>1. i \in Range(handler.table)
    BY DEF Found
  <2>2. /\ HandlerSound(handler') /\ handler'.records = handler.records
        /\ Range(handler'.table) = Range(handler.table)
        /\ i \in DOMAIN handler.records
    BY <1>1, <1>4, <2>1, TouchSound
  <2>3. Extends(handler, handler')
    BY <2>2, SameRecordsExtend
  <2>4. Len(records') <= MaxRecords /\ i \in DOMAIN records' /\ i \in Ids
    BY <2>2, Types DEF records
  <2>5. /\ to \in RequestStates /\ to.stage \in {"waiting", "done"} /\ to.record = i
        /\ to.stage = "done" => to.reply \notin Terminal
    BY <2>4 DEF RequestStates, Replied, Replies, Terminal
  <2> QED
    BY <1>1, <1>4, <2>2, <2>3, <2>4, <2>5, QuietGoes
<1>5. \/ /\ found = {} /\ AtCapacity(handler) /\ UNCHANGED handler
         /\ Goes(t, Replied(0, "capacity"))
      \/ /\ found = {} /\ ~AtCapacity(handler)
         /\ handler' = Admit(handler, key)
         /\ Goes(t, [stage |-> "starting", record |-> Len(records) + 1])
      \/ \E i \in found :
           /\ handler' = Touch(handler, i)
           /\ \E to \in {[stage |-> "waiting", record |-> i], Replied(i, "observed")} :
                Goes(t, to)
  BY DEF Invoke
<1> QED
  BY <1>2, <1>3, <1>4, <1>5

LEMMA WakeStep ==
  ASSUME IInv, NEW t \in Requests, Wake(t)
  PROVE  IInv'
<1> DEFINE i == request[t].record
           reply == records[i].outcome
           to == Replied(i, reply)
<1>1. /\ request[t].stage = "waiting" /\ records[i].ready /\ Goes(t, to)
      /\ handler' = handler /\ emission' = emission /\ lock' = lock /\ wire' = wire
  BY DEF Wake
<1>2. i \in DOMAIN records /\ i \in Ids /\ records[i] \in Record
  BY <1>1, Types DEF IInv, RequestsSound
<1>3. OneEnd(records[i])
  BY <1>2 DEF IInv, HandlerSound, records
<1>4. reply \in Replies /\ (reply \in Terminal => records[i].result = reply)
  <2>1. reply # None /\ reply \in {None, "accepted", "refused"} \cup Terminal
    BY <1>1, <1>2, <1>3 DEF OneEnd, Record
  <2>2. {"accepted", "refused"} \cup Terminal \subseteq Replies
    BY DEF Replies, Active, Order
  <2> QED
    BY <1>3, <2>1, <2>2 DEF OneEnd
<1> HIDE DEF reply
<1>5. /\ to \in RequestStates /\ to.stage = "done" /\ to.record = i
      /\ to.reply = reply
  BY <1>2, <1>4, RepliedType
<1>6. HandlerSound(handler') /\ Extends(handler, handler')
        /\ Len(records') <= MaxRecords
  BY <1>1, HandlerStays
<1>7. records' = records
  BY <1>1 DEF records
<1> HIDE DEF to, i
<1> QED
  BY <1>1, <1>2, <1>4, <1>5, <1>6, <1>7, QuietGoes

LEMMA RequestKeys ==
  ASSUME IInv, NEW t \in Requests,
         request[t].stage \in {"status", "result", "confirm"}
  PROVE  /\ request[t].key \in Keys
         /\ request[t].stage = "confirm" =>
              /\ request[t].asked \in {"status", "result"}
              /\ request[t].phase \in Terminal
<1>1. request[t] \in RequestStates
  BY DEF IInv, TypeOK
<1> QED
  BY <1>1 DEF RequestStates

\* Request t fails, with nothing observed.
LEMMA RequestFails ==
  ASSUME IInv, NEW t \in Requests, NEW reply \in Replies \ Terminal,
         request[t].stage \in {"status", "result", "confirm"},
         Goes(t, Replied(0, reply)), HandlerSound(handler'),
         Extends(handler, handler'), Len(records') <= MaxRecords,
         UNCHANGED <<emission, lock, wire>>
  PROVE  IInv'
<1> DEFINE to == Replied(0, reply)
<1>1. /\ to \in RequestStates /\ to.stage = "done" /\ to.record = 0
      /\ to.reply = reply
  BY RepliedType
<1>2. Goes(t, to)
  OBVIOUS
<1> HIDE DEF to
<1> QED
  BY <1>1, <1>2, QuietGoes

\* Request t is answered from a record that knows the end, or goes to ask.
LEMMA AnswersOrAsks ==
  ASSUME IInv, NEW t \in Requests, NEW key \in Keys, request[t] = Idle,
         NEW to \in RequestStates, Goes(t, to),
         \/ to.stage \in {"status", "result"}
         \/ /\ to.stage = "done" /\ to.record \in DOMAIN records
            /\ to.reply = records[to.record].result,
         UNCHANGED <<handler, emission, lock, wire>>
  PROVE  IInv'
<1>1. request[t].stage = "idle"
  BY DEF Idle
<1>2. HandlerSound(handler') /\ Extends(handler, handler')
        /\ Len(records') <= MaxRecords
  BY HandlerStays
<1>3. records' = records
  BY DEF records
<1> QED
  BY <1>1, <1>2, <1>3, QuietGoes

LEMMA AskStatusStep ==
  ASSUME IInv, NEW t \in Requests, NEW key \in Keys, AskStatus(t, key)
  PROVE  IInv'
<1> DEFINE told == {i \in Found(handler, key) : records[i].status \in Terminal}
           i == The(told)
<1>1. HandlerSound(handler)
  BY DEF IInv
<1>2. CASE told = {}
  <2> DEFINE to == [stage |-> "status", key |-> key]
  <2>1. to \in RequestStates /\ to.stage = "status"
    BY DEF RequestStates
  <2>2. Goes(t, to)
    BY <1>2 DEF AskStatus
  <2> HIDE DEF to
  <2> QED
    BY <2>1, <2>2, AnswersOrAsks DEF AskStatus
<1>3. CASE told # {}
  <2>1. i \in told
    BY <1>3 DEF The
  <2>2. /\ i \in DOMAIN records /\ records[i].status \in Terminal
        /\ OneEnd(records[i])
    BY <1>1, <2>1, FoundOne DEF HandlerSound, records
  <2>3. records[i].status = records[i].result
    BY <2>2 DEF OneEnd
  <2>4. i \in Ids /\ records[i].status \in Replies
    BY <2>2, Types DEF Replies
  <2> DEFINE to == Replied(i, records[i].status)
  <2>5. /\ to \in RequestStates /\ to.stage = "done" /\ to.record = i
        /\ to.reply = records[i].result
    BY <2>3, <2>4, RepliedType
  <2>6. Goes(t, to)
    BY <1>3 DEF AskStatus
  <2> HIDE DEF to, told, i
  <2> QED
    BY <2>2, <2>5, <2>6, AnswersOrAsks DEF AskStatus
<1> QED
  BY <1>2, <1>3

LEMMA AskResultStep ==
  ASSUME IInv, NEW t \in Requests, NEW key \in Keys, AskResult(t, key)
  PROVE  IInv'
<1> DEFINE told == {i \in Found(handler, key) : records[i].result # None}
           i == The(told)
<1>1. HandlerSound(handler)
  BY DEF IInv
<1>2. CASE told = {}
  <2> DEFINE to == [stage |-> "result", key |-> key]
  <2>1. to \in RequestStates /\ to.stage = "result"
    BY DEF RequestStates
  <2>2. Goes(t, to)
    BY <1>2 DEF AskResult
  <2> HIDE DEF to
  <2> QED
    BY <2>1, <2>2, AnswersOrAsks DEF AskResult
<1>3. CASE told # {}
  <2>1. i \in told
    BY <1>3 DEF The
  <2>2. i \in DOMAIN records /\ records[i].result # None
    BY <1>1, <2>1, FoundOne DEF records
  <2>3. i \in Ids /\ records[i].result \in Replies
    BY <2>2, Types DEF Record, Replies
  <2> DEFINE to == Replied(i, records[i].result)
  <2>4. /\ to \in RequestStates /\ to.stage = "done" /\ to.record = i
        /\ to.reply = records[i].result
    BY <2>3, RepliedType
  <2>5. Goes(t, to)
    BY <1>3 DEF AskResult
  <2> HIDE DEF to, told, i
  <2> QED
    BY <2>2, <2>4, <2>5, AnswersOrAsks DEF AskResult
<1> QED
  BY <1>2, <1>3

\* Request t has the first answer that an end takes, and asks for the second.
LEMMA AsksAgain ==
  ASSUME IInv, NEW t \in Requests, request[t].stage \in {"status", "result"},
         NEW phase \in Terminal, NEW asked \in {"status", "result"},
         Goes(t, [stage |-> "confirm", key |-> request[t].key,
                  asked |-> asked, phase |-> phase]),
         UNCHANGED <<handler, emission, lock, wire>>
  PROVE  IInv'
<1> DEFINE to == [stage |-> "confirm", key |-> request[t].key,
                  asked |-> asked, phase |-> phase]
<1>1. to \in RequestStates /\ to.stage = "confirm"
  BY RequestKeys DEF RequestStates
<1>2. HandlerSound(handler') /\ Extends(handler, handler')
        /\ Len(records') <= MaxRecords
  BY HandlerStays
<1>3. Goes(t, to)
  OBVIOUS
<1> HIDE DEF to
<1> QED
  BY <1>1, <1>2, <1>3, QuietGoes

LEMMA StatusReturnsStep ==
  ASSUME IInv, NEW t \in Requests, StatusReturns(t)
  PROVE  IInv'
<1>1. /\ request[t].stage = "status" /\ Len(records) < MaxRecords
      /\ UNCHANGED <<emission, lock, wire>> /\ HandlerSound(handler)
      /\ request[t].key \in Keys /\ Len(records) \in Nat /\ MaxRecords \in Nat
  BY RequestKeys, Types, EndpointAssumption DEF StatusReturns, CanMake, IInv
<1>2. "error" \in Replies \ Terminal
  BY DEF Replies, Terminal
<1>3. CASE Goes(t, Replied(0, "error")) /\ UNCHANGED handler
  BY <1>1, <1>2, <1>3, HandlerStays, RequestFails
<1>4. ASSUME NEW phase \in Told \cap Terminal, UNCHANGED handler,
             Goes(t, [stage |-> "confirm", key |-> request[t].key,
                      asked |-> "status", phase |-> phase])
      PROVE  IInv'
  BY <1>1, <1>4, AsksAgain
<1>5. ASSUME NEW phase \in Told \cap Active,
             handler' = RecordStatus(handler, request[t].key, phase).h,
             Goes(t, IF RecordStatus(handler, request[t].key, phase).done
                     THEN Replied(Last(handler'.table), phase)
                     ELSE Replied(0, "error"))
      PROVE  IInv'
  <2> DEFINE recorded == RecordStatus(handler, request[t].key, phase)
             i == Last(handler'.table)
  <2>1. /\ HandlerSound(handler') /\ Extends(handler, handler')
        /\ Len(handler'.records) \in {Len(records), Len(records) + 1}
        /\ recorded.done => i \in DOMAIN handler'.records
    BY <1>1, <1>5, StatusRecorded DEF records
  <2>2. Len(records') <= MaxRecords
    BY <1>1, <2>1 DEF records
  <2>3. CASE ~recorded.done
    <3>1. Goes(t, Replied(0, "error"))
      BY <1>5, <2>3
    <3> QED
      BY <1>1, <1>2, <2>1, <2>2, <3>1, RequestFails
  <2>4. CASE recorded.done
    <3>1. i \in DOMAIN records' /\ DOMAIN records' \subseteq Ids
      BY <2>1, <2>2, <2>4, HandlerTypes, EndpointAssumption DEF records, Ids
    <3>2. phase \in Replies /\ phase \notin Terminal
      BY DEF Replies, Active, Order, Terminal
    <3> DEFINE to == Replied(i, phase)
    <3>3. /\ to \in RequestStates /\ to.stage = "done" /\ to.record = i
          /\ to.reply = phase
      BY <3>1, <3>2, RepliedType
    <3>4. Goes(t, to)
      BY <1>5, <2>4
    <3> HIDE DEF to, i
    <3> QED
      BY <1>1, <2>1, <2>2, <3>1, <3>2, <3>3, <3>4, QuietGoes
  <2> QED
    BY <2>3, <2>4
<1> QED
  BY <1>3, <1>4, <1>5 DEF StatusReturns

LEMMA ResultReturnsStep ==
  ASSUME IInv, NEW t \in Requests, ResultReturns(t)
  PROVE  IInv'
<1>1. /\ request[t].stage = "result" /\ UNCHANGED <<handler, emission, lock, wire>>
      /\ {"unavailable", "error"} \subseteq Replies \ Terminal
  BY DEF ResultReturns, Replies, Terminal
<1>2. ASSUME NEW reply \in {"unavailable", "error"}, Goes(t, Replied(0, reply))
      PROVE  IInv'
  BY <1>1, <1>2, HandlerStays, RequestFails
<1>3. ASSUME NEW phase \in Told \cap Terminal,
             Goes(t, [stage |-> "confirm", key |-> request[t].key,
                      asked |-> "result", phase |-> phase])
      PROVE  IInv'
  BY <1>1, <1>3, AsksAgain
<1> QED
  BY <1>2, <1>3 DEF ResultReturns

\* An end is recorded, and the emitter of the execution is to be closed.
LEMMA ConcludeStep ==
  ASSUME IInv, NEW t \in Requests, request[t].stage = "confirm",
         Len(records) < MaxRecords, UNCHANGED <<emission, wire>>,
         NEW phase, NEW result, NEW reply \in {phase, result},
         Conclude(t, phase, result, reply)
  PROVE  IInv'
<1> DEFINE recorded == RecordTerminal(handler, request[t].key, phase, result)
           h == recorded.h
           i == Last(h.table)
<1>1. /\ request[t].key \in Keys /\ HandlerSound(handler)
      /\ Len(records) \in Nat /\ MaxRecords \in Nat
  BY RequestKeys, Types, EndpointAssumption DEF IInv
<1>2. /\ HandlerSound(h) /\ Extends(handler, h)
      /\ Len(h.records) \in {Len(records), Len(records) + 1}
      /\ recorded.done => /\ i \in DOMAIN h.records /\ phase \in Terminal
                          /\ result = phase /\ h.records[i].result = phase
  BY <1>1, TerminalRecorded DEF records
<1>3. Len(h.records) <= MaxRecords
  BY <1>1, <1>2
<1>4. CASE ~recorded.done
  <2>1. handler' = h /\ Goes(t, Replied(0, "error")) /\ UNCHANGED lock
    BY <1>4 DEF Conclude
  <2>2. "error" \in Replies \ Terminal
    BY DEF Replies, Terminal
  <2>3. Len(records') <= MaxRecords
    BY <1>3, <2>1 DEF records
  <2> QED
    BY <1>2, <2>1, <2>2, <2>3, RequestFails
<1>5. CASE recorded.done
  <2>1. /\ i \in DOMAIN h.records /\ reply \in Terminal /\ reply \in Replies
        /\ h.records[i].result = reply
    BY <1>2, <1>5 DEF Replies
  <2>2. /\ handler' = IF lock[i] = <<>>
                      THEN [h EXCEPT !.records[i].closed = TRUE] ELSE h
        /\ CloseTerminal(t, i, reply)
    BY <1>5 DEF Conclude
  <2>3. DOMAIN h.records \subseteq Ids
    BY <1>2, <1>3, HandlerTypes, EndpointAssumption DEF Ids
  <2> HIDE DEF recorded, h, i
  <2>4. CASE lock[i] = <<>>
    <3>1. handler' = [h EXCEPT !.records[i].closed = TRUE]
          /\ Goes(t, Replied(i, reply)) /\ UNCHANGED lock
      BY <2>2, <2>4 DEF CloseTerminal
    <3>2. /\ HandlerSound(handler') /\ Extends(h, handler')
          /\ Len(handler'.records) = Len(h.records)
          /\ DOMAIN handler'.records = DOMAIN h.records
          /\ handler'.records[i].result = h.records[i].result
      <4> DEFINE g == [h EXCEPT !.records[i].closed = TRUE]
      <4>1. /\ HandlerSound(g) /\ Extends(h, g) /\ Len(g.records) = Len(h.records)
            /\ DOMAIN g.records = DOMAIN h.records
            /\ g.records[i].result = h.records[i].result
        <5>1. HandlerSound(h) /\ i \in DOMAIN h.records
          BY <1>2, <2>1
        <5> QED
          BY <5>1, ClosedSound
      <4>2. handler' = g
        BY <3>1
      <4> HIDE DEF g
      <4> QED
        BY <4>1, <4>2
    <3>3. Extends(handler, handler')
      BY <1>2, <3>2, ExtendsTwice
    <3> DEFINE to == Replied(i, reply)
    <3>4. /\ to \in RequestStates /\ to.stage = "done" /\ to.record = i
          /\ to.reply = reply
      BY <2>1, <2>3, RepliedType
    <3>5. /\ Len(records') <= MaxRecords /\ i \in DOMAIN records'
          /\ records'[i].result = reply
      BY <1>3, <2>1, <3>2 DEF records
    <3>6. Goes(t, to)
      BY <3>1
    <3> HIDE DEF to
    <3> QED
      BY <3>1, <3>2, <3>3, <3>4, <3>5, <3>6, QuietGoes
  <2>5. CASE lock[i] # <<>>
    <3> DEFINE to == [stage |-> "closing", record |-> i, reply |-> reply]
    <3>1. handler' = h /\ Goes(t, to) /\ lock' = [lock EXCEPT ![i] = Append(@, t)]
      BY <2>2, <2>5 DEF CloseTerminal
    <3>2. /\ to \in RequestStates /\ to.stage = "closing" /\ to.record = i
          /\ to.reply = reply
      BY <2>1, <2>3 DEF RequestStates
    <3> HIDE DEF to
    <3>3. i \in DOMAIN records
      <4>1. i \in Ids
        BY <2>1, <2>3
      <4> QED
        BY <2>5, <4>1 DEF IInv, LocksSound, LocksAt
    <3>4. /\ Len(records') <= MaxRecords /\ i \in DOMAIN records'
          /\ records'[i].result = reply /\ DOMAIN records' \subseteq Ids
      BY <1>3, <2>1, <2>3, <3>1 DEF records
    <3>5. /\ DOMAIN records \subseteq DOMAIN records'
          /\ \A j \in DOMAIN records :
               /\ records[j].accepted => records'[j].accepted
               /\ records'[j].pending = records[j].pending
      BY <1>2, <3>1 DEF Extends, SameEmitter, records
    <3>6. \A u \in Requests : \A j : Closes(u, j)' <=> Closes(u, j) \/ (u = t /\ j = i)
      BY <3>1, <3>2, Types DEF Goes, Closes
    <3>7. /\ LocksSound' /\ EndsInTurn'
          /\ lock' \in [Ids -> Seq(Requests \cup Emissions)]
      BY <2>5, <3>1, <3>3, <3>4, <3>5, <3>6, CloseQueues
    <3>8. /\ TypeOK' /\ HandlerSound(handler') /\ RequestsSound' /\ StartsAfresh'
          /\ EventsSound'
      BY <1>2, <3>1, <3>2, <3>4, <3>7, QuietRequest
    <3> QED
      BY <3>7, <3>8 DEF IInv, EventsSound
  <2> QED
    BY <2>4, <2>5
<1> QED
  BY <1>4, <1>5

LEMMA ConfirmStep ==
  ASSUME IInv, NEW t \in Requests, Confirm(t)
  PROVE  IInv'
<1>1. /\ request[t].stage = "confirm" /\ Len(records) < MaxRecords
      /\ UNCHANGED <<emission, wire>> /\ "error" \in Replies \ Terminal
  BY DEF Confirm, CanMake, Replies, Terminal
<1>2. CASE Goes(t, Replied(0, "error")) /\ UNCHANGED <<handler, lock>>
  BY <1>1, <1>2, HandlerStays, RequestFails
<1>3. ASSUME NEW other \in Told,
             \/ Conclude(t, request[t].phase, other, request[t].phase)
             \/ Conclude(t, other, request[t].phase, request[t].phase)
      PROVE  IInv'
  BY <1>1, <1>3, ConcludeStep
<1> QED
  BY <1>2, <1>3 DEF Confirm

LEMMA CloseStep ==
  ASSUME IInv, NEW t \in Requests, Close(t)
  PROVE  IInv'
<1> DEFINE i == request[t].record
           to == [request[t] EXCEPT !.stage = "done"]
<1>1. /\ request[t].stage = "closing" /\ Head(lock[i]) = t /\ Goes(t, to)
      /\ lock' = [lock EXCEPT ![i] = Tail(@)]
      /\ handler' = [handler EXCEPT !.records[i].closed = TRUE]
      /\ UNCHANGED <<emission, wire>>
  BY DEF Close
<1>2. /\ HandlerSound(handler) /\ i \in DOMAIN records
      /\ Len(records) <= MaxRecords
      /\ request[t].reply \in Terminal /\ i # 0 => records[i].result = request[t].reply
  BY <1>1 DEF IInv, RequestsSound, TypeOK
<1>3. /\ HandlerSound(handler') /\ Extends(handler, handler')
      /\ Len(records') = Len(records) /\ DOMAIN records' = DOMAIN records
      /\ records'[i].result = records[i].result
  <2> DEFINE g == [handler EXCEPT !.records[i].closed = TRUE]
  <2>1. /\ HandlerSound(g) /\ Extends(handler, g)
        /\ Len(g.records) = Len(handler.records)
        /\ DOMAIN g.records = DOMAIN handler.records
        /\ g.records[i].result = handler.records[i].result
    <3>1. HandlerSound(handler) /\ i \in DOMAIN handler.records
      BY <1>2 DEF records
    <3>2. /\ HandlerSound(g) /\ Extends(handler, g)
          /\ Len(g.records) = Len(handler.records)
          /\ DOMAIN g.records = DOMAIN handler.records
          /\ \A j \in DOMAIN handler.records :
               g.records[j].result = handler.records[j].result
      BY <3>1, ClosedSound
    <3> QED
      BY <3>1, <3>2
  <2>2. handler' = g
    BY <1>1
  <2> HIDE DEF g
  <2> QED
    BY <2>1, <2>2 DEF records
<1>4. /\ to \in RequestStates /\ to.stage = "done" /\ to.record = i
      /\ to.reply = request[t].reply
  <2>1. request[t] \in RequestStates
    BY DEF IInv, TypeOK
  <2> QED
    BY <1>1, <2>1 DEF RequestStates
<1> HIDE DEF to
<1>5. \A j \in DOMAIN records :
        /\ records[j].accepted => records'[j].accepted
        /\ records'[j].pending = records[j].pending
  BY <1>3 DEF Extends, SameEmitter, records
<1>6. \A u \in Requests : \A j : Closes(u, j)' <=> Closes(u, j) /\ u # t
  BY <1>1, <1>4, Types DEF Goes, Closes
<1>7. /\ LocksSound' /\ EndsInTurn'
      /\ lock' \in [Ids -> Seq(Requests \cup Emissions)]
  <2>1. Closes(t, i)
    BY <1>1 DEF Closes
  <2> QED
    BY <1>1, <1>3, <1>5, <1>6, <2>1, CloseLeaves
<1>8. /\ TypeOK' /\ HandlerSound(handler') /\ RequestsSound' /\ StartsAfresh'
      /\ EventsSound'
  BY <1>1, <1>2, <1>3, <1>4, <1>7, QuietRequest
<1> QED
  BY <1>7, <1>8 DEF IInv, EventsSound

-----------------------------------------------------------------------------
(* Steps that concern the emitter, the lock or the wire of one record.     *)

\* Request t publishes for record i, or waits to close it; emission e is about
\* an event of record i.
Holds(t, i) ==
  request[t].stage \in {"responding", "closing"} /\ request[t].record = i
About(e, i) == emission[e].stage # "idle" /\ emission[e].record = i

\* Nothing happens to the emitter, the lock and the wire of record i, though
\* more may have come to be known of it.
Untouched(i) ==
  /\ SameEmitter(records[i], records'[i])
  /\ records[i].ready => records'[i].ready
  /\ records[i].result # None => records'[i].result = records[i].result
  /\ i \in Range(handler'.table) => i \in Range(handler.table)
  /\ wire'[i] = wire[i] /\ lock'[i] = lock[i]
  /\ \A t \in Requests : \/ request'[t] = request[t]
                         \/ ~Holds(t, i) /\ ~Holds(t, i)'
  /\ \A e \in Emissions : \/ emission'[e] = emission[e]
                          \/ ~About(e, i) /\ ~About(e, i)'

LEMMA Elsewhere ==
  ASSUME IInv, NEW i \in DOMAIN records, Untouched(i)
  PROVE  /\ LocksAt(i)' /\ TurnAt(i)' /\ NumbersAt(i)' /\ WayAt(i)'
         /\ WholeAt(i) => WholeAt(i)'
         /\ i \in Range(handler'.table) => AgreeAt(i)'
<1>1. /\ LocksAt(i) /\ TurnAt(i) /\ NumbersAt(i) /\ WayAt(i)
      /\ i \in Range(handler.table) => AgreeAt(i)
  BY DEF IInv, LocksSound, EndsInTurn, NumbersDrawn, OnTheWay, EventsAgree
<1>2. /\ SameEmitter(records[i], records'[i])
      /\ records[i].ready => records'[i].ready
      /\ records[i].result # None => records'[i].result = records[i].result
      /\ i \in Range(handler'.table) => i \in Range(handler.table)
      /\ wire'[i] = wire[i] /\ lock'[i] = lock[i]
  BY DEF Untouched
<1>3. ASSUME NEW t \in Requests
      PROVE  /\ Responds(t, i)' <=> Responds(t, i)
             /\ Closes(t, i)' <=> Closes(t, i)
             /\ Responds(t, i) => request'[t] = request[t]
  <2>1. \/ request'[t] = request[t]
        \/ ~Holds(t, i) /\ ~Holds(t, i)'
    BY DEF Untouched
  <2> QED
    BY <2>1 DEF Holds, Responds, Closes
<1>4. ASSUME NEW e \in Emissions
      PROVE  /\ Queued(e, i)' <=> Queued(e, i)
             /\ Publishes(e, i)' <=> Publishes(e, i)
             /\ Unnumbered(e, i)' <=> Unnumbered(e, i)
             /\ Ends(e, i)' <=> Ends(e, i)
             /\ About(e, i) => emission'[e] = emission[e]
             /\ Queued(e, i) \/ Publishes(e, i) \/ Unnumbered(e, i) \/ Ends(e, i)
                  => About(e, i)
  <2>1. \/ emission'[e] = emission[e]
        \/ ~About(e, i) /\ ~About(e, i)'
    BY DEF Untouched
  <2> QED
    BY <2>1 DEF About, Queued, Publishes, Unnumbered, Ends
<1>5. i \in Ids /\ lock[i] \in Seq(Requests \cup Emissions)
  BY Types
<1>6. /\ Published(i)' = Published(i) /\ Base(i)' = Base(i)
      /\ Early(i)' = Early(i) /\ Held(i)' = Held(i) /\ Numbered(i)' = Numbered(i)
  <2>1. Published(i)' = Published(i) /\ Base(i)' = Base(i)
    BY <1>2 DEF Published, Base
  <2>2. Early(i)' = Early(i)
    BY <1>3 DEF Early
  <2>3. Held(i)' = Held(i)
    BY <1>4 DEF Held
  <2>4. Range(records'[i].buffer) = Range(records[i].buffer)
    BY <1>2 DEF SameEmitter
  <2> QED
    BY <2>1, <2>2, <2>3, <2>4 DEF Numbered
<1>7. LocksAt(i)'
  <2>1. \A x \in Range(lock[i]) : x \in Requests \cup Emissions
    BY <1>5, RangeType
  <2> QED
    BY <1>1, <1>2, <1>3, <1>4, <2>1 DEF LocksAt, SameEmitter
<1>8. TurnAt(i)'
  <2>1. ASSUME NEW n \in DOMAIN lock[i], lock[i][n] \in Emissions
        PROVE  emission'[lock[i][n]] = emission[lock[i][n]]
    <3>1. lock[i][n] \in Range(lock[i])
      BY DEF Range
    <3> QED
      BY <1>1, <1>4, <2>1, <3>1 DEF LocksAt
  <2>2. \A e \in Emissions : Ends(e, i)' => records'[i].pending
    BY <1>1, <1>2, <1>4 DEF TurnAt, SameEmitter
  <2>3. \A e, f \in Emissions : Ends(e, i)' /\ Ends(f, i)' => e = f
    BY <1>1, <1>4 DEF TurnAt
  <2>4. ASSUME NEW m \in DOMAIN lock[i], NEW n \in DOMAIN lock[i],
               lock[i][m] \in Emissions, lock[i][n] \in Emissions,
               emission'[lock[i][m]].stage = "number",
               emission'[lock[i][m]].event.phase # Progress,
               emission'[lock[i][n]].stage = "number",
               emission'[lock[i][n]].event.phase = Progress
        PROVE  n < m
    <3>1. /\ emission'[lock[i][m]] = emission[lock[i][m]]
          /\ emission'[lock[i][n]] = emission[lock[i][n]]
      BY <2>1, <2>4
    <3> QED
      BY <1>1, <2>4, <3>1 DEF TurnAt
  <2> QED
    BY <1>2, <2>2, <2>3, <2>4 DEF TurnAt
<1>9. NumbersAt(i)'
  BY <1>1, <1>2, <1>4, <1>6 DEF NumbersAt, SameEmitter
<1>10. WayAt(i)'
  BY <1>1, <1>2, <1>3, <1>4, <1>6 DEF WayAt, SameEmitter
<1>11. WholeAt(i) => WholeAt(i)'
  BY <1>2, <1>3, <1>6 DEF WholeAt, SameEmitter
<1>12. ASSUME i \in Range(handler'.table)
       PROVE  AgreeAt(i)'
  <2>1. AgreeAt(i)
    BY <1>1, <1>2, <1>12
  <2>2. \A x \in Numbered(i) : x \in Event
    BY <1>1 DEF NumbersAt
  <2>3. \A e \in Emissions : Ends(e, i) => emission[e].event \in Event
    BY Types DEF Ends
  <2>4. \A x \in Event : x.phase # None
    BY DEF Event, EventPhases, Terminal, Progress, None
  <2> QED
    BY <1>2, <1>4, <1>6, <2>1, <2>2, <2>3, <2>4 DEF AgreeAt
<1> QED
  BY <1>7, <1>8, <1>9, <1>10, <1>11, <1>12

\* The invariant at the record concerned gives it everywhere.
LEMMA OneRecord ==
  ASSUME IInv, DOMAIN records' = DOMAIN records, NEW i,
         Range(handler'.table) \subseteq DOMAIN records,
         \A j \in DOMAIN records \ {i} : Untouched(j),
         LocksAt(i)', TurnAt(i)', NumbersAt(i)', WayAt(i)',
         PublicationFailed => PublicationFailed',
         PublicationFailed' \/ WholeAt(i)',
         i \in Range(handler'.table) => AgreeAt(i)',
         \A j \in Ids \ DOMAIN records : wire'[j] = wire[j] /\ lock'[j] = lock[j]
  PROVE  /\ LocksSound' /\ EndsInTurn' /\ NumbersDrawn' /\ OnTheWay'
         /\ NoneMissing' /\ EventsAgree' /\ NotMadeYet'
<1>1. \A j \in DOMAIN records \ {i} :
        /\ LocksAt(j)' /\ TurnAt(j)' /\ NumbersAt(j)' /\ WayAt(j)'
        /\ WholeAt(j) => WholeAt(j)'
        /\ j \in Range(handler'.table) => AgreeAt(j)'
  BY Elsewhere
<1>2. LocksSound' /\ NotMadeYet'
  BY <1>1 DEF IInv, LocksSound, NotMadeYet
<1>3. EndsInTurn' /\ NumbersDrawn' /\ OnTheWay'
  BY <1>1 DEF EndsInTurn, NumbersDrawn, OnTheWay
<1>4. NoneMissing'
  BY <1>1 DEF IInv, NoneMissing
<1>5. EventsAgree'
  BY <1>1 DEF EventsAgree
<1> QED
  BY <1>2, <1>3, <1>4, <1>5

-----------------------------------------------------------------------------
(* How a start ends.                                                       *)

\* Before a start ends, nothing is on its way but the buffered events.
LEMMA StartingAlone ==
  ASSUME IInv, NEW t \in Requests, NEW i, Starts(t, i)
  PROVE  /\ i \in DOMAIN records /\ i \in Ids /\ records[i] \in Record
         /\ records[i].started /\ ~records[i].accepted
         /\ wire[i] = <<>> /\ lock[i] = <<>>
         /\ records[i].next = Len(records[i].buffer)
         /\ \A n \in DOMAIN records[i].buffer : records[i].buffer[n].number = n - 1
         /\ Published(i) = {} /\ Early(i) = {} /\ Held(i) = {}
         /\ Numbered(i) = Range(records[i].buffer)
         /\ \A u \in Requests : Starts(u, i) \/ Responds(u, i) => u = t
         /\ \A u \in Requests : ~Closes(u, i) /\ ~Responds(u, i)
         /\ \A e \in Emissions : ~Queued(e, i) /\ ~Publishes(e, i)
<1>1. i \in DOMAIN records
  BY DEF IInv, RequestsSound, Starts
<1>2. i \in Ids /\ records[i] \in Record
  BY <1>1, Types
<1>3. /\ records[i].started /\ ~records[i].accepted /\ wire[i] = <<>>
      /\ records[i].next = Len(records[i].buffer)
      /\ \A n \in DOMAIN records[i].buffer : records[i].buffer[n].number = n - 1
  BY <1>1 DEF IInv, StartsAfresh
<1>4. /\ lock[i] = <<>>
      /\ \A e \in Emissions : Queued(e, i) => e \in Range(lock[i])
      /\ \A u \in Requests : Closes(u, i) => u \in Range(lock[i])
  BY <1>1, <1>3 DEF IInv, LocksSound, LocksAt
<1>5. Range(lock[i]) = {}
  BY <1>4 DEF Range
<1>6. \A u \in Requests : Starts(u, i) \/ Responds(u, i) => u = t
  BY <1>1 DEF IInv, RequestsSound
<1>7. ~Responds(t, i)
  BY DEF Starts, Responds
<1>8. \A e \in Emissions : ~Queued(e, i) /\ ~Publishes(e, i)
  BY <1>4, <1>5 DEF Queued, Publishes
<1>9. Published(i) = {}
  <2>1. Len(wire[i]) = 0
    BY <1>3
  <2> QED
    BY <2>1 DEF Published
<1>10. Early(i) = {} /\ Held(i) = {}
  BY <1>6, <1>7, <1>8 DEF Early, Held
<1> QED
  BY <1>1, <1>2, <1>3, <1>4, <1>5, <1>6, <1>7, <1>8, <1>9, <1>10 DEF Numbered

LEMMA StartEnds ==
  ASSUME IInv, NEW t \in Requests, NEW i, Starts(t, i),
         StartEnded(handler, i, handler'), NEW early,
         \/ /\ handler'.records[i].accepted /\ early = records[i].buffer
         \/ ~handler'.records[i].accepted /\ early = <<>>,
         NEW to,
         \/ to = [stage |-> "responding", record |-> i, early |-> early,
                  reply |-> handler'.records[i].outcome]
         \/ to = [stage |-> "withdrawn"] /\ ~handler'.records[i].accepted,
         Goes(t, to), UNCHANGED <<emission, lock, wire>>
  PROVE  IInv'
<1>1. /\ i \in DOMAIN records /\ i \in Ids /\ records[i] \in Record
      /\ records[i].started /\ ~records[i].accepted
      /\ wire[i] = <<>> /\ lock[i] = <<>>
      /\ records[i].next = Len(records[i].buffer)
      /\ \A n \in DOMAIN records[i].buffer : records[i].buffer[n].number = n - 1
      /\ Published(i) = {} /\ Early(i) = {} /\ Held(i) = {}
      /\ Numbered(i) = Range(records[i].buffer)
      /\ \A u \in Requests : Starts(u, i) \/ Responds(u, i) => u = t
      /\ \A u \in Requests : ~Closes(u, i) /\ ~Responds(u, i)
      /\ \A e \in Emissions : ~Queued(e, i) /\ ~Publishes(e, i)
  BY StartingAlone
<1>2. /\ HandlerSound(handler') /\ Len(records') = Len(records)
      /\ DOMAIN records' = DOMAIN records /\ handler'.table = handler.table
      /\ \A j \in DOMAIN records : j # i => records'[j] = records[j]
      /\ records'[i].started = records[i].started
      /\ records'[i].next = records[i].next
      /\ records'[i].barrier = records[i].barrier
      /\ records'[i].pending = records[i].pending
      /\ records'[i].ready = TRUE /\ records'[i].buffer = <<>>
      /\ records[i].closed => records'[i].closed
      /\ records[i].result # None => records'[i].result = records[i].result
  BY DEF StartEnded, records
<1>3. /\ HandlerSound(handler) /\ Len(records) <= MaxRecords /\ DOMAIN request = Requests
      /\ RequestsSound /\ StartsAfresh /\ EmissionsSound /\ TypeOK
      /\ DOMAIN records \subseteq Ids
  BY Types DEF IInv, TypeOK
<1>4. request[t].stage = "starting" /\ request[t].record = i
  BY DEF Starts
<1>5. request'[t] = to /\ \A u \in Requests \ {t} : request'[u] = request[u]
  BY <1>3 DEF Goes
<1>6. /\ records[i].buffer \in Seq(Event) /\ early \in Seq(Event)
      /\ \A n \in DOMAIN early : early[n].number = n - 1 /\ DOMAIN early = 1..Len(early)
      /\ Len(early) \in Nat /\ Range(early) \subseteq Range(records[i].buffer)
  <2>1. records[i].buffer \in Seq(Event)
    BY <1>1 DEF Record
  <2>2. CASE early = records[i].buffer
    BY <1>1, <2>1, <2>2, LenProperties
  <2>3. CASE early = <<>>
    BY <2>1, <2>3 DEF Range
  <2> QED
    BY <2>1, <2>2, <2>3
<1>7. /\ records'[i] \in Record /\ OneEnd(records'[i])
      /\ records'[i].outcome \in Replies
      /\ records'[i].outcome \in Terminal => records'[i].result = records'[i].outcome
  <2>1. records'[i] \in Record /\ OneEnd(records'[i])
    BY <1>1, <1>2, HandlerTypes, ElementOfSeq DEF HandlerSound, records
  <2>2. records'[i].outcome \in {"accepted", "refused"} \cup Terminal
    BY <1>2, <2>1 DEF OneEnd, Record
  <2>3. {"accepted", "refused"} \cup Terminal \subseteq Replies
    BY DEF Replies, Active, Order
  <2> QED
    BY <2>1, <2>2, <2>3 DEF OneEnd
<1>8. /\ to \in RequestStates /\ to.stage \in {"responding", "withdrawn"}
      /\ to.stage = "responding" =>
           to.record = i /\ to.early = early /\ to.reply = records'[i].outcome
      /\ to.stage = "withdrawn" => ~records'[i].accepted
  BY <1>1, <1>6, <1>7 DEF RequestStates, records
<1>9. TypeOK'
  <2>1. request' \in [Requests -> RequestStates]
    BY <1>3, <1>8 DEF Goes, TypeOK
  <2>2. /\ records' \in Seq(Record) /\ Range(handler'.table) \subseteq DOMAIN records'
        /\ handler'.active \in 0..MaxConcurrency
    BY <1>2, HandlerTypes DEF records
  <2> QED
    BY <1>2, <1>3, <2>1, <2>2 DEF TypeOK, records
<1>10. /\ \A u \in Requests \ {t}, j \in DOMAIN records :
            /\ Starts(u, j)' <=> Starts(u, j)
            /\ Responds(u, j)' <=> Responds(u, j)
       /\ \A j \in DOMAIN records :
            /\ ~Starts(t, j)'
            /\ Responds(t, j)' => j = i /\ to.stage = "responding"
  BY <1>5, <1>8 DEF Starts, Responds
<1>11. RequestsSound'
  <2>1. ASSUME NEW u \in Requests
        PROVE  /\ request'[u].stage \in {"starting", "waiting", "responding", "closing"}
                    => request'[u].record \in DOMAIN records'
               /\ request'[u].stage = "done" =>
                    request'[u].record \in DOMAIN records' \cup {0}
               /\ request'[u].stage \in {"responding", "closing", "done"} =>
                    (request'[u].record # 0 /\ request'[u].reply \in Terminal
                       => records'[request'[u].record].result = request'[u].reply)
    <3>1. CASE u = t
      BY <1>1, <1>2, <1>5, <1>7, <1>8, <3>1
    <3>2. CASE u # t
      <4>1. request'[u] = request[u] /\ None \notin Terminal
        BY <1>5, <3>2 DEF None, Terminal
      <4> QED
        BY <1>2, <1>3, <4>1 DEF RequestsSound
    <3> QED
      BY <3>1, <3>2
  <2>2. ASSUME NEW u \in Requests, NEW v \in Requests, NEW j \in DOMAIN records',
               Starts(u, j)' \/ Responds(u, j)', Starts(v, j)' \/ Responds(v, j)'
        PROVE  u = v
    BY <1>1, <1>2, <1>3, <1>10, <2>2 DEF RequestsSound
  <2> QED
    BY <2>1, <2>2 DEF RequestsSound
<1>12. StartsAfresh'
  <2>1. ASSUME NEW u \in Requests, NEW j \in DOMAIN records', Starts(u, j)'
        PROVE  u # t /\ Starts(u, j) /\ j # i /\ j \in DOMAIN records
    BY <1>1, <1>2, <1>10, <2>1
  <2> QED
    BY <1>2, <1>3, <2>1 DEF StartsAfresh
<1>13. EmissionsSound'
  BY <1>1, <1>2, <1>3 DEF EmissionsSound
<1>14. ASSUME NEW j \in DOMAIN records \ {i}
       PROVE  Untouched(j)
  <2>1. SameEmitter(records[j], records'[j]) /\ records'[j] = records[j]
    BY <1>2 DEF SameEmitter
  <2>2. ~Holds(t, j) /\ ~Holds(t, j)'
    BY <1>4, <1>5, <1>8 DEF Holds
  <2> QED
    BY <1>2, <1>5, <2>1, <2>2 DEF Untouched
<1>15. /\ \A e \in Emissions : /\ Publishes(e, i)' <=> Publishes(e, i)
                               /\ Queued(e, i)' <=> Queued(e, i)
                               /\ Ends(e, i)' <=> Ends(e, i)
                               /\ Unnumbered(e, i)' <=> Unnumbered(e, i)
       /\ Published(i)' = {} /\ Held(i)' = {} /\ Base(i)' = Base(i)
       /\ \A u \in Requests : ~Closes(u, i)'
  <2>1. \A e \in Emissions : /\ Publishes(e, i)' <=> Publishes(e, i)
                             /\ Queued(e, i)' <=> Queued(e, i)
                             /\ Ends(e, i)' <=> Ends(e, i)
                             /\ Unnumbered(e, i)' <=> Unnumbered(e, i)
    BY DEF Publishes, Queued, Ends, Unnumbered
  <2>2. Published(i)' = {} /\ Base(i)' = Base(i)
    BY <1>1 DEF Published, Base
  <2>3. Held(i)' = {}
    BY <1>1, <2>1 DEF Held
  <2>4. \A u \in Requests : ~Closes(u, i)'
    BY <1>1, <1>5, <1>8 DEF Closes
  <2> QED
    BY <2>1, <2>2, <2>3, <2>4
<1>16. Early(i)' \subseteq Range(early) /\ Numbered(i)' \subseteq Numbered(i)
  <2>1. \A u \in Requests : Responds(u, i)' => request'[u].early = early
    BY <1>1, <1>5, <1>8, <1>10
  <2>2. Early(i)' \subseteq Range(early)
    BY <2>1 DEF Early
  <2>3. Range(records'[i].buffer) = {}
    BY <1>2 DEF Range
  <2> QED
    BY <1>1, <1>6, <1>15, <2>2, <2>3 DEF Numbered
<1>17. LocksAt(i)' /\ TurnAt(i)'
  <2>1. LocksAt(i) /\ TurnAt(i)
    BY <1>1 DEF IInv, LocksSound, EndsInTurn
  <2>2. Range(lock[i]) = {} /\ DOMAIN lock[i] = {}
    BY <1>1 DEF Range
  <2>3. LocksAt(i)'
    BY <1>1, <1>15, <2>1, <2>2 DEF LocksAt
  <2>4. TurnAt(i)'
    BY <1>2, <1>15, <2>1, <2>2 DEF TurnAt
  <2> QED
    BY <2>3, <2>4
<1>18. NumbersAt(i)'
  <2>1. NumbersAt(i)
    BY <1>1 DEF IInv, NumbersDrawn
  <2> QED
    BY <1>2, <1>15, <1>16, <2>1 DEF NumbersAt
<1>19. WayAt(i)'
  <2>1. WayAt(i)
    BY <1>1 DEF IInv, OnTheWay
  <2>2. Len(wire'[i]) = 0 /\ wire'[i] = <<>>
    BY <1>1
  <2>3. /\ wire'[i] # <<>> <=> records'[i].barrier = "open"
        /\ wire'[i] # <<>> => wire'[i][1] = Response
    BY <1>1, <1>2, <2>1 DEF WayAt
  <2>4. ASSUME NEW u \in Requests, Responds(u, i)'
        PROVE  /\ records'[i].ready /\ (~records'[i].accepted => request'[u].early = <<>>)
               /\ request'[u].early = early /\ records'[i].barrier # "open"
    BY <1>1, <1>2, <1>5, <1>8, <1>10, <2>3, <2>4 DEF records
  <2>5. \A m, n \in DOMAIN early : m < n => early[m].number < early[n].number
    BY <1>6
  <2> QED
    BY <1>1, <1>15, <2>2, <2>3, <2>4, <2>5 DEF WayAt
<1>20. WholeAt(i)'
  <2>1. Len(wire'[i]) = 0 /\ Base(i)' = 0
    BY <1>1 DEF Base
  <2>2. ASSUME NEW u \in Requests, Responds(u, i)', records'[i].accepted
        PROVE  /\ request'[u].early = early /\ early = records[i].buffer
    BY <1>1, <1>5, <1>8, <1>10, <2>2 DEF records
  <2>3. ASSUME \A u \in Requests : ~Responds(u, i)'
        PROVE  ~records'[i].accepted
    BY <1>5, <1>8, <2>3 DEF Responds
  <2>4. ASSUME NEW u \in Requests, Responds(u, i)', records'[i].accepted
        PROVE  /\ \A n \in DOMAIN request'[u].early :
                    request'[u].early[n].number = Base(i)' + n - 1
               /\ records'[i].next = Base(i)' + Len(request'[u].early) + 0
    BY <1>1, <1>2, <1>6, <2>1, <2>2, <2>4
  <2> QED
    BY <1>15, <2>1, <2>3, <2>4 DEF WholeAt
<1>21. ASSUME i \in Range(handler'.table)
       PROVE  AgreeAt(i)'
  <2>1. AgreeAt(i)
    BY <1>2, <1>21 DEF IInv, EventsAgree
  <2>2. \A x \in Numbered(i) : x \in Event
    BY <1>1 DEF IInv, NumbersDrawn, NumbersAt
  <2>3. \A e \in Emissions : Ends(e, i) => emission[e].event \in Event
    BY Types DEF Ends
  <2>4. \A x \in Event : x.phase # None
    BY DEF Event, EventPhases, Terminal, Progress, None
  <2> QED
    BY <1>2, <1>15, <1>16, <2>1, <2>2, <2>3, <2>4 DEF AgreeAt
<1>22. PublicationFailed => PublicationFailed'
  BY <1>4, <1>5 DEF PublicationFailed
<1>23. /\ LocksSound' /\ EndsInTurn' /\ NumbersDrawn' /\ OnTheWay'
       /\ NoneMissing' /\ EventsAgree' /\ NotMadeYet'
  <2>1. Range(handler'.table) \subseteq DOMAIN records
    BY <1>2, HandlerTypes DEF records
  <2> QED
    BY <1>2, <1>14, <1>17, <1>18, <1>19, <1>20, <1>21, <1>22, <2>1, OneRecord
<1> QED
  BY <1>2, <1>9, <1>11, <1>12, <1>13, <1>23 DEF IInv

LEMMA StartedStep ==
  ASSUME IInv, NEW t \in Requests, Started(t) \/ Cancelled(t)
  PROVE  IInv'
<1> DEFINE i == request[t].record
<1>1. Starts(t, i) /\ UNCHANGED <<emission, lock, wire>>
  BY DEF Started, Cancelled, Starts
<1>2. /\ i \in DOMAIN handler.records /\ HandlerSound(handler)
      /\ ~handler.records[i].accepted
  BY <1>1, StartingAlone DEF IInv, records
<1> DEFINE responding(early) ==
             [stage |-> "responding", record |-> i, early |-> early,
              reply |-> handler'.records[i].outcome]
<1>3. CASE handler' = Accepted(handler, i) /\ Goes(t, responding(records[i].buffer))
  <2>1. StartEnded(handler, i, handler') /\ handler'.records[i].accepted = TRUE
    BY <1>2, <1>3, AcceptedEnds
  <2> QED
    BY <1>1, <1>3, <2>1, StartEnds
<1>4. CASE /\ handler' \in {StartRefused(handler, i), FinishUnknown(handler, i)}
           /\ Goes(t, responding(<<>>)) \/ Goes(t, [stage |-> "withdrawn"])
  <2>1. /\ StartEnded(handler, i, handler')
        /\ handler'.records[i].accepted = handler.records[i].accepted
    BY <1>2, <1>4, RejectedEnds
  <2>2. CASE Goes(t, responding(<<>>))
    BY <1>1, <1>2, <2>1, <2>2, StartEnds
  <2>3. CASE Goes(t, [stage |-> "withdrawn"])
    BY <1>1, <1>2, <2>1, <2>3, StartEnds
  <2> QED
    BY <1>4, <2>2, <2>3
<1> QED
  BY <1>3, <1>4 DEF Started, Cancelled

-----------------------------------------------------------------------------
(* Publications of the task that responds.                                 *)

\* Only the barrier of record i changes.
BarrierSet(i, barrier) ==
  /\ HandlerSound(handler') /\ Len(records') = Len(records)
  /\ DOMAIN records' = DOMAIN records /\ handler'.table = handler.table
  /\ \A j \in DOMAIN records : j # i => records'[j] = records[j]
  /\ SameOutcome(records[i], records'[i])
  /\ records'[i].next = records[i].next /\ records'[i].buffer = records[i].buffer
  /\ records'[i].accepted = records[i].accepted
  /\ records'[i].closed = records[i].closed
  /\ records'[i].pending = records[i].pending
  /\ records'[i].barrier = barrier

\* What the wire of record i and the task that publishes become: the response
\* is the first, or the event is the next of those that wait.
NextPublished(t, i, message, sent, rest, barrier) ==
  LET early == request[t].early
  IN \/ /\ wire[i] = <<>> /\ message = Response /\ rest = early
        /\ barrier = IF sent THEN "open" ELSE "failed"
     \/ /\ wire[i] # <<>> /\ early # <<>> /\ barrier = "open"
        /\ message = Head(early) /\ rest = Tail(early)

LEMMA PublishGoes ==
  ASSUME IInv, NEW t \in Requests, NEW i, Responds(t, i),
         NEW message, NEW sent \in BOOLEAN, NEW rest, NEW barrier,
         BarrierSet(i, barrier), NextPublished(t, i, message, sent, rest, barrier),
         Publish(t, message, sent, rest), UNCHANGED <<emission, lock>>
  PROVE  IInv'
<1> DEFINE early == request[t].early
           w == wire[i]
           new == wire'[i]
           to == CASE ~sent -> [stage |-> "unsent"]
                   [] sent /\ rest # <<>> -> [request[t] EXCEPT !.early = rest]
                   [] sent /\ rest = <<>> -> Replied(i, request[t].reply)
<1>1. /\ RequestsSound /\ StartsAfresh /\ EmissionsSound /\ TypeOK
      /\ HandlerSound(handler) /\ Len(records) <= MaxRecords
      /\ DOMAIN request = Requests /\ DOMAIN records \subseteq Ids
      /\ DOMAIN wire = Ids /\ request[t] \in RequestStates
  BY Types DEF IInv, TypeOK
<1>2. /\ request[t].stage = "responding" /\ request[t].record = i
      /\ i \in DOMAIN records /\ i \in Ids /\ records[i] \in Record
      /\ \A u \in Requests : Starts(u, i) \/ Responds(u, i) => u = t
  BY <1>1, Types DEF Responds, RequestsSound
<1>3. /\ LocksAt(i) /\ TurnAt(i) /\ NumbersAt(i) /\ WayAt(i)
      /\ PublicationFailed \/ WholeAt(i)
      /\ i \in Range(handler.table) => AgreeAt(i)
  BY <1>2 DEF IInv, LocksSound, EndsInTurn, NumbersDrawn, OnTheWay, NoneMissing,
              EventsAgree
<1>4. /\ DOMAIN records' = DOMAIN records /\ handler'.table = handler.table
      /\ HandlerSound(handler') /\ Len(records') = Len(records)
      /\ \A j \in DOMAIN records : j # i => records'[j] = records[j]
      /\ records'[i].started = records[i].started
      /\ records'[i].ready = records[i].ready
      /\ records'[i].result = records[i].result
      /\ records'[i].next = records[i].next
      /\ records'[i].buffer = records[i].buffer
      /\ records'[i].accepted = records[i].accepted
      /\ records'[i].closed = records[i].closed
      /\ records'[i].pending = records[i].pending
      /\ records'[i].barrier = barrier
  BY DEF BarrierSet, SameOutcome
<1>5. /\ early \in Seq(Event) /\ request[t].reply \in Replies
      /\ request[t] = [stage |-> "responding", record |-> i,
                       reply |-> request[t].reply, early |-> early]
  BY <1>1, <1>2 DEF RequestStates
<1>6. /\ rest \in Seq(Event) /\ Len(rest) \in Nat /\ DOMAIN rest = 1..Len(rest)
      /\ message \in Event \cup {Response}
      /\ Len(early) \in Nat /\ DOMAIN early = 1..Len(early)
      /\ w \in Seq(Event \cup {Response}) /\ Len(w) \in Nat /\ DOMAIN w = 1..Len(w)
  <2>1. w \in Seq(Event \cup {Response})
    BY <1>2, Types
  <2>2. rest \in Seq(Event) /\ message \in Event \cup {Response}
    <3>1. CASE message = Response /\ rest = early
      BY <1>5, <3>1
    <3>2. CASE early # <<>> /\ message = Head(early) /\ rest = Tail(early)
      BY <1>5, <3>2, TailItems
    <3> QED
      BY <3>1, <3>2 DEF NextPublished
  <2> QED
    BY <1>5, <2>1, <2>2, LenProperties
<1>7. /\ new = IF sent THEN Append(w, message) ELSE w
      /\ \A j \in Ids \ {i} : wire'[j] = wire[j]
      /\ wire' \in [Ids -> Seq(Event \cup {Response})]
      /\ request' = [request EXCEPT ![t] = to]
  <2>1. wire' = IF sent THEN [wire EXCEPT ![i] = Append(@, message)] ELSE wire
    BY <1>2 DEF Publish
  <2>2. wire \in [Ids -> Seq(Event \cup {Response})]
    BY <1>1 DEF TypeOK
  <2>3. Append(w, message) \in Seq(Event \cup {Response})
    BY <1>6, AppendProperties
  <2> QED
    BY <1>2, <2>1, <2>2, <2>3 DEF Publish, Goes
<1>8. /\ to \in RequestStates /\ to.stage \in {"unsent", "responding", "done"}
      /\ to.stage = "unsent" <=> ~sent
      /\ to.stage = "responding" <=> sent /\ rest # <<>>
      /\ to.stage = "responding" => to.early = rest
      /\ to.stage # "unsent" => to.record = i /\ to.reply = request[t].reply
  <2>1. CASE ~sent
    <3>1. to = [stage |-> "unsent"]
      BY <2>1
    <3> QED
      BY <2>1, <3>1 DEF RequestStates
  <2>2. CASE sent /\ rest # <<>>
    <3>1. to = [request[t] EXCEPT !.early = rest]
      BY <2>2
    <3>2. to = [stage |-> "responding", record |-> i,
                reply |-> request[t].reply, early |-> rest]
      BY <1>5, <3>1
    <3> HIDE DEF to
    <3> QED
      BY <1>2, <1>5, <1>6, <2>2, <3>2 DEF RequestStates
  <2>3. CASE sent /\ rest = <<>>
    <3>1. to = Replied(i, request[t].reply)
      BY <2>3
    <3> HIDE DEF to
    <3> QED
      BY <1>2, <1>5, <2>3, <3>1, RepliedType
  <2> QED
    BY <2>1, <2>2, <2>3
<1> HIDE DEF to, new, w
<1>9. request'[t] = to /\ \A u \in Requests \ {t} : request'[u] = request[u]
  BY <1>1, <1>7
<1>10. /\ TypeOK'
  <2>1. request' \in [Requests -> RequestStates]
    BY <1>1, <1>7, <1>8 DEF TypeOK
  <2>2. /\ records' \in Seq(Record) /\ Range(handler'.table) \subseteq DOMAIN records'
        /\ handler'.active \in 0..MaxConcurrency
    BY <1>4, HandlerTypes DEF records
  <2> QED
    BY <1>1, <1>4, <1>7, <2>1, <2>2 DEF TypeOK, records
<1>11. /\ \A u \in Requests : \A j : Starts(u, j)' <=> Starts(u, j)
       /\ \A u \in Requests : \A j : Closes(u, j)' <=> Closes(u, j)
       /\ \A u \in Requests \ {t} : \A j : Responds(u, j)' <=> Responds(u, j)
       /\ \A j : Responds(t, j)' => j = i /\ to.stage = "responding"
  BY <1>2, <1>8, <1>9 DEF Starts, Closes, Responds
<1>12. RequestsSound'
  <2>1. ASSUME NEW u \in Requests
        PROVE  /\ request'[u].stage \in {"starting", "waiting", "responding", "closing"}
                    => request'[u].record \in DOMAIN records'
               /\ request'[u].stage = "done" =>
                    request'[u].record \in DOMAIN records' \cup {0}
               /\ request'[u].stage \in {"responding", "closing", "done"} =>
                    (request'[u].record # 0 /\ request'[u].reply \in Terminal
                       => records'[request'[u].record].result = request'[u].reply)
    <3>1. CASE u = t
      BY <1>1, <1>2, <1>4, <1>8, <1>9, <3>1 DEF RequestsSound
    <3>2. CASE u # t
      <4>1. request'[u] = request[u] /\ None \notin Terminal
        BY <1>9, <3>2 DEF None, Terminal
      <4> QED
        BY <1>1, <1>4, <4>1 DEF RequestsSound
    <3> QED
      BY <3>1, <3>2
  <2>2. ASSUME NEW u \in Requests, NEW v \in Requests, NEW j \in DOMAIN records',
               Starts(u, j)' \/ Responds(u, j)', Starts(v, j)' \/ Responds(v, j)'
        PROVE  u = v
    BY <1>1, <1>2, <1>4, <1>11, <2>2 DEF RequestsSound
  <2> QED
    BY <2>1, <2>2 DEF RequestsSound
<1>13. StartsAfresh'
  <2>1. ASSUME NEW u \in Requests, NEW j \in DOMAIN records', Starts(u, j)'
        PROVE  Starts(u, j) /\ j # i /\ j \in DOMAIN records /\ wire'[j] = wire[j]
    <3>1. Starts(u, j) /\ j \in DOMAIN records
      BY <1>4, <1>11, <2>1
    <3>2. j # i
      BY <1>2, <3>1 DEF Starts
    <3> QED
      BY <1>1, <1>7, <3>1, <3>2
  <2> QED
    BY <1>1, <1>4, <2>1 DEF StartsAfresh
<1>14. EmissionsSound'
  BY <1>1, <1>4 DEF EmissionsSound
<1>15. ASSUME NEW j \in DOMAIN records \ {i}
       PROVE  Untouched(j)
  <2>1. SameEmitter(records[j], records'[j]) /\ records'[j] = records[j]
    BY <1>4 DEF SameEmitter
  <2>2. ~Holds(t, j) /\ ~Holds(t, j)'
    BY <1>2, <1>8, <1>9 DEF Holds
  <2> QED
    BY <1>1, <1>4, <1>7, <1>9, <2>1, <2>2 DEF Untouched
<1>16. /\ \A e \in Emissions : /\ Publishes(e, i)' <=> Publishes(e, i)
                               /\ Queued(e, i)' <=> Queued(e, i)
                               /\ Ends(e, i)' <=> Ends(e, i)
                               /\ Unnumbered(e, i)' <=> Unnumbered(e, i)
       /\ Held(i)' = Held(i)
  <2>1. \A e \in Emissions : /\ Publishes(e, i)' <=> Publishes(e, i)
                             /\ Queued(e, i)' <=> Queued(e, i)
                             /\ Ends(e, i)' <=> Ends(e, i)
                             /\ Unnumbered(e, i)' <=> Unnumbered(e, i)
    BY DEF Publishes, Queued, Ends, Unnumbered
  <2> QED
    BY <2>1 DEF Held
<1>17. LocksAt(i)' /\ TurnAt(i)'
  <2>1. \A x \in Range(lock[i]) : x \in Requests \cup Emissions
    BY <1>2, Types, RangeType
  <2>2. LocksAt(i)'
    BY <1>3, <1>4, <1>11, <1>16, <2>1 DEF LocksAt
  <2>3. TurnAt(i)'
    BY <1>3, <1>4, <1>16 DEF TurnAt
  <2> QED
    BY <2>2, <2>3

<1>18. /\ sent => /\ Len(new) = Len(w) + 1 /\ new # <<>>
                  /\ \A n \in 1..Len(w) : new[n] = w[n]
                  /\ new[Len(w) + 1] = message
       /\ ~sent => new = w
  <2> DEFINE S == Event \cup {Response}
  <2>1. w \in Seq(S) /\ message \in S
    BY <1>6
  <2> HIDE DEF S
  <2>2. /\ Len(Append(w, message)) = Len(w) + 1
        /\ \A n \in 1..Len(w) : Append(w, message)[n] = w[n]
        /\ Append(w, message)[Len(w) + 1] = message
        /\ DOMAIN Append(w, message) = DOMAIN w \cup {Len(w) + 1}
    BY <2>1, AppendItems
  <2>3. Append(w, message) # <<>>
    BY <2>2
  <2> QED
    BY <1>7, <2>2, <2>3
<1>19. ASSUME wire[i] = <<>>
       PROVE  /\ NumbersAt(i)' /\ WayAt(i)' /\ Numbered(i)' \subseteq Numbered(i)
              /\ sent /\ WholeAt(i) => WholeAt(i)'
  <2>1. /\ message = Response /\ rest = early
        /\ barrier = IF sent THEN "open" ELSE "failed"
    BY <1>19 DEF NextPublished
  <2>2. Len(w) = 0 /\ w = <<>> /\ Base(i) = 0 /\ Published(i) = {}
    BY <1>19 DEF w, Base, Published
  <2>3. sent => Len(new) = 1 /\ new[1] = Response /\ new # <<>>
    BY <1>18, <2>1, <2>2
  <2>4. Published(i)' = {} /\ Base(i)' = 0
    <3>1. CASE sent
      <4>1. Len(new) = 1 /\ new # <<>>
        BY <2>3, <3>1
      <4>2. 2..Len(new) = {}
        BY <4>1
      <4>3. Base(i)' = 0
        BY <4>1 DEF Base, new
      <4> QED
        BY <4>2, <4>3 DEF Published, new
    <3>2. CASE ~sent
      BY <1>18, <2>2, <3>2 DEF Published, Base, new
    <3> QED
      BY <3>1, <3>2
  <2>5. Early(i) = Range(early)
    BY <1>2 DEF Early
  <2>6. Early(i)' \subseteq Range(early)
    BY <1>2, <1>8, <1>9, <1>11, <2>1 DEF Early
  <2>7. Numbered(i)' \subseteq Numbered(i)
    BY <1>4, <1>16, <2>2, <2>4, <2>5, <2>6 DEF Numbered
  <2>8. NumbersAt(i)'
    BY <1>3, <1>4, <1>16, <2>7 DEF NumbersAt
  <2>9. WayAt(i)'
    <3>1. /\ new # <<>> <=> barrier = "open"
          /\ new # <<>> => new[1] = Response
          /\ Len(new) <= 1
      <4>1. CASE sent
        BY <2>1, <2>3, <4>1
      <4>2. CASE ~sent
        <5>1. new = <<>> /\ barrier = "failed" /\ Len(new) = 0
          BY <1>18, <2>1, <2>2, <4>2
        <5> QED
          BY <5>1
      <4> QED
        BY <4>1, <4>2
    <3>2. ASSUME NEW u \in Requests, Responds(u, i)'
          PROVE  /\ records'[i].ready /\ request'[u].early = early /\ rest # <<>>
                 /\ Responds(u, i)
      <4>1. u = t
        BY <1>2, <1>11, <3>2
      <4> QED
        BY <1>3, <1>4, <1>8, <1>9, <1>11, <2>1, <3>2, <4>1 DEF WayAt
    <3>3. ASSUME NEW e \in Emissions, Publishes(e, i)'
          PROVE  /\ emission'[e].event.number + 1 = records'[i].next
                 /\ \A x \in Published(i)' \cup Early(i)' :
                      x.number < emission'[e].event.number
      BY <1>3, <1>4, <1>16, <2>2, <2>4, <2>5, <2>6, <3>3 DEF WayAt
    <3>4. /\ ~records[i].accepted => early = <<>>
          /\ \A m, n \in DOMAIN early : m < n => early[m].number < early[n].number
      BY <1>3 DEF WayAt
    <3>5. \A m, n \in 2..Len(new) : m < n => new[m].number < new[n].number
      <4>1. Len(new) \in Nat
        BY <1>18, <2>2, <2>3
      <4> QED
        BY <3>1, <4>1
    <3> QED
      BY <1>4, <2>1, <2>4, <3>1, <3>2, <3>3, <3>4, <3>5 DEF WayAt, new
  <2>10. ASSUME sent, WholeAt(i)
         PROVE  WholeAt(i)'
    <3> DEFINE held == IF Held(i) = {} THEN 0 ELSE 1
    <3>1. records[i].accepted =>
            /\ \A n \in DOMAIN early : early[n].number = n - 1
            /\ records[i].next = Len(early) + held
      <4>1. records[i].accepted =>
            /\ \A n \in DOMAIN early : early[n].number = 0 + n - 1
            /\ records[i].next = 0 + Len(early) + held
        BY <2>2, <2>10 DEF WholeAt
      <4>2. \A n \in DOMAIN early : n \in Nat /\ 0 + n - 1 = n - 1
        BY <1>6
      <4>3. held \in Nat /\ Len(early) \in Nat
        BY <1>6
      <4> HIDE DEF early, held
      <4>4. 0 + Len(early) + held = Len(early) + held
        BY <4>3
      <4> QED
        BY <4>1, <4>2, <4>4
    <3>2. ASSUME NEW u \in Requests, Responds(u, i)'
          PROVE  request'[u].early = early
      <4>1. u = t
        BY <1>2, <1>11, <3>2
      <4> QED
        BY <1>8, <1>9, <1>11, <2>1, <3>2, <4>1
    <3>3. (\A u \in Requests : ~Responds(u, i)') => rest = <<>>
      BY <1>8, <1>9, <2>10 DEF Responds
    <3>4. 2..Len(new) = {}
      <4>1. Len(new) = 1
        BY <2>3, <2>10
      <4> QED
        BY <4>1
    <3>5. rest = <<>> => Len(early) = 0
      BY <2>1
    <3>6. ASSUME records[i].accepted
          PROVE  /\ \A n \in DOMAIN early : early[n].number = Base(i)' + n - 1
                 /\ records[i].next = Base(i)' + Len(early) + held
      <4>1. \A n \in DOMAIN early : n \in Nat /\ 0 + n - 1 = n - 1
        BY <1>6
      <4>2. held \in Nat /\ Len(early) \in Nat
        BY <1>6
      <4> HIDE DEF early, held
      <4>3. 0 + Len(early) + held = Len(early) + held
        BY <4>2
      <4> QED
        BY <2>4, <3>1, <3>6, <4>1, <4>3
    <3>7. ASSUME records[i].accepted, \A u \in Requests : ~Responds(u, i)'
          PROVE  records[i].next = Base(i)' + held
      <4>1. Len(early) = 0
        BY <3>3, <3>5, <3>7
      <4>2. records[i].next = 0 + held /\ Base(i)' = 0
        BY <2>4, <3>1, <3>7, <4>1
      <4> QED
        BY <4>2
    <3> QED
      BY <1>4, <1>16, <3>2, <3>4, <3>6, <3>7 DEF WholeAt, new
  <2> HIDE DEF early
  <2> QED
    BY <2>7, <2>8, <2>9, <2>10
<1>20. ASSUME wire[i] # <<>>
       PROVE  /\ NumbersAt(i)' /\ WayAt(i)' /\ Numbered(i)' \subseteq Numbered(i)
              /\ sent /\ WholeAt(i) => WholeAt(i)'
  <2>1. /\ early # <<>> /\ barrier = "open"
        /\ message = Head(early) /\ rest = Tail(early)
    BY <1>20 DEF NextPublished
  <2>2. /\ Len(early) \in Nat \ {0} /\ 1 \in DOMAIN early /\ message = early[1]
        /\ Len(rest) = Len(early) - 1
        /\ \A n \in DOMAIN rest : n + 1 \in DOMAIN early /\ rest[n] = early[n + 1]
        /\ Range(early) = {message} \cup Range(rest) /\ message \in Event
    BY <1>5, <2>1, TailItems
  <2>3. Len(w) \in Nat \ {0} /\ w # <<>> /\ Base(i) = Len(w) - 1 /\ w[1] = Response
    <3>1. Len(w) # 0 /\ w # <<>>
      BY <1>6, <1>20, EmptySeq DEF w
    <3>2. w[1] = Response /\ Base(i) = Len(w) - 1
      BY <1>3, <1>20 DEF WayAt, w, Base
    <3> QED
      BY <1>6, <3>1, <3>2
  <2>4. Early(i) = Range(early)
    BY <1>2 DEF Early
  <2>5. Early(i)' \subseteq Range(rest)
    BY <1>2, <1>8, <1>9, <1>11 DEF Early
  <2>6. Published(i)' = IF sent THEN Published(i) \cup {message} ELSE Published(i)
    <3>1. CASE sent
      <4>1. /\ Published(i)' = {new[n] : n \in 2..Len(new)}
            /\ Published(i) = {w[n] : n \in 2..Len(w)}
        BY DEF Published, new, w
      <4>2. 2..Len(new) = (2..Len(w)) \cup {Len(w) + 1}
        BY <1>18, <2>3, <3>1
      <4>3. \A n \in 2..Len(w) : new[n] = w[n]
        BY <1>18, <2>3, <3>1
      <4>4. new[Len(w) + 1] = message
        BY <1>18, <3>1
      <4> QED
        BY <3>1, <4>1, <4>2, <4>3, <4>4
    <3>2. CASE ~sent
      BY <1>18, <3>2 DEF Published, new, w
    <3> QED
      BY <3>1, <3>2
  <2>7. Numbered(i)' \subseteq Numbered(i)
    BY <1>4, <1>16, <2>2, <2>4, <2>5, <2>6 DEF Numbered
  <2>8. NumbersAt(i)'
    BY <1>3, <1>4, <1>16, <2>7 DEF NumbersAt
  <2>9. /\ \A x \in Published(i) : x.number < message.number
        /\ \A x \in Published(i) \cup {message}, y \in Range(rest) : x.number < y.number
        /\ \A m, n \in DOMAIN rest : m < n => rest[m].number < rest[n].number
    <3>1. /\ \A x \in Published(i), y \in Range(early) : x.number < y.number
          /\ \A m, n \in DOMAIN early : m < n => early[m].number < early[n].number
      BY <1>3, <2>4 DEF WayAt
    <3>2. ASSUME NEW n \in DOMAIN rest PROVE message.number < rest[n].number
      <4>1. /\ 1 < n + 1 /\ 1 \in DOMAIN early /\ n + 1 \in DOMAIN early
            /\ message = early[1] /\ rest[n] = early[n + 1]
        BY <1>6, <2>2
      <4> QED
        BY <3>1, <4>1
    <3>3. ASSUME NEW m \in DOMAIN rest, NEW n \in DOMAIN rest, m < n
          PROVE  rest[m].number < rest[n].number
      <4>1. m + 1 < n + 1
        BY <1>6, <3>3
      <4> QED
        BY <2>2, <3>1, <4>1
    <3>4. \A y \in Range(rest) : message.number < y.number
      BY <3>2 DEF Range
    <3> QED
      BY <2>2, <3>1, <3>3, <3>4
  <2>10. WayAt(i)'
    <3>1. /\ new # <<>> /\ new[1] = Response
          /\ \A m, n \in 2..Len(new) : m < n => new[m].number < new[n].number
      <4>1. \A m, n \in 2..Len(w) : m < n => w[m].number < w[n].number
        BY <1>3 DEF WayAt, w
      <4>2. CASE ~sent
        BY <1>18, <2>3, <4>1, <4>2
      <4>3. CASE sent
        <5>1. new # <<>> /\ new[1] = Response
          BY <1>18, <2>3, <4>3
        <5>2. ASSUME NEW m \in 2..Len(new), NEW n \in 2..Len(new), m < n
              PROVE  new[m].number < new[n].number
          <6>1. m \in 2..Len(w) /\ new[m] = w[m] /\ w[m] \in Published(i)
            <7>1. m \in 2..Len(w)
              BY <1>18, <2>3, <4>3, <5>2
            <7> QED
              BY <1>18, <2>3, <4>3, <7>1 DEF Published, w
          <6>2. CASE n \in 2..Len(w)
            BY <1>18, <2>3, <4>1, <4>3, <5>2, <6>1, <6>2
          <6>3. CASE n = Len(w) + 1
            BY <1>18, <2>9, <4>3, <6>1, <6>3
          <6> QED
            BY <1>18, <2>3, <4>3, <6>2, <6>3
        <5> QED
          BY <5>1, <5>2
      <4> QED
        BY <4>2, <4>3
    <3>2. records[i].accepted
      BY <1>2, <1>3, <2>1 DEF WayAt
    <3>3. ASSUME NEW u \in Requests, Responds(u, i)'
          PROVE  /\ records'[i].ready /\ request'[u].early = rest /\ rest # <<>>
      <4>1. u = t
        BY <1>2, <1>11, <3>3
      <4> QED
        BY <1>2, <1>3, <1>4, <1>8, <1>9, <1>11, <3>3, <4>1 DEF WayAt
    <3>4. ASSUME NEW e \in Emissions, Publishes(e, i)'
          PROVE  /\ emission'[e].event.number + 1 = records'[i].next
                 /\ \A x \in Published(i)' \cup Early(i)' :
                      x.number < emission'[e].event.number
      BY <1>3, <1>4, <1>16, <2>2, <2>4, <2>5, <2>6, <3>4 DEF WayAt
    <3>5. \A x \in Published(i)', y \in Early(i)' : x.number < y.number
      BY <2>5, <2>6, <2>9
    <3> QED
      BY <1>4, <2>1, <2>9, <3>1, <3>2, <3>3, <3>4, <3>5 DEF WayAt, new
  <2>11. ASSUME sent, WholeAt(i)
         PROVE  WholeAt(i)'
    <3> DEFINE held == IF Held(i) = {} THEN 0 ELSE 1
    <3>1. records[i].accepted
      BY <1>2, <1>3, <2>1 DEF WayAt
    <3>2. /\ \A n \in 2..Len(w) : w[n].number = n - 2
          /\ \A n \in DOMAIN early : early[n].number = Base(i) + n - 1
          /\ records[i].next = Base(i) + Len(early) + held
      BY <1>2, <2>11, <3>1 DEF WholeAt, w
    <3>3. Base(i)' = Len(w)
      BY <1>18, <2>3, <2>11 DEF Base, new
    <3>4. message.number = Len(w) - 1
      BY <2>2, <2>3, <3>2
    <3>5. \A n \in 2..Len(new) : new[n].number = n - 2
      <4> SUFFICES ASSUME NEW n \in 2..Len(new) PROVE new[n].number = n - 2
        OBVIOUS
      <4>1. CASE n \in 2..Len(w)
        BY <1>18, <2>3, <2>11, <3>2, <4>1
      <4>2. CASE n = Len(w) + 1
        BY <1>18, <2>3, <2>11, <3>4, <4>2
      <4> QED
        BY <1>18, <2>3, <2>11, <4>1, <4>2
    <3>6. \A n \in DOMAIN rest : rest[n].number = Len(w) + n - 1
      <4> SUFFICES ASSUME NEW n \in DOMAIN rest PROVE rest[n].number = Len(w) + n - 1
        OBVIOUS
      <4>1. n \in Nat /\ n + 1 \in DOMAIN early /\ rest[n] = early[n + 1]
        BY <1>6, <2>2
      <4>2. rest[n].number = (Len(w) - 1) + (n + 1) - 1
        BY <2>3, <3>2, <4>1
      <4> QED
        BY <2>3, <4>1, <4>2
    <3>7. records[i].next = Len(w) + Len(rest) + held
      BY <2>2, <2>3, <3>2
    <3>8. ASSUME NEW u \in Requests, Responds(u, i)'
          PROVE  request'[u].early = rest
      <4>1. u = t
        BY <1>2, <1>11, <3>8
      <4> QED
        BY <1>8, <1>9, <1>11, <3>8, <4>1
    <3>9. (\A u \in Requests : ~Responds(u, i)') => Len(rest) = 0
      <4>1. (\A u \in Requests : ~Responds(u, i)') => rest = <<>>
        BY <1>2, <1>8, <1>9, <2>11 DEF Responds
      <4> QED
        BY <4>1
    <3>10. (\A u \in Requests : ~Responds(u, i)') => records[i].next = Len(w) + held
      BY <2>3, <3>7, <3>9
    <3> QED
      BY <1>4, <1>16, <3>3, <3>5, <3>6, <3>7, <3>8, <3>10 DEF WholeAt, new
  <2> HIDE DEF early
  <2> QED
    BY <2>7, <2>8, <2>10, <2>11
<1>21. /\ NumbersAt(i)' /\ WayAt(i)' /\ Numbered(i)' \subseteq Numbered(i)
       /\ sent /\ WholeAt(i) => WholeAt(i)'
  BY <1>19, <1>20
<1>22. i \in Range(handler'.table) => AgreeAt(i)'
  BY <1>3, <1>4, <1>16, <1>21 DEF AgreeAt
<1>23. /\ PublicationFailed => PublicationFailed'
       /\ ~sent => PublicationFailed'
  BY <1>2, <1>8, <1>9 DEF PublicationFailed
<1>24. /\ LocksSound' /\ EndsInTurn' /\ NumbersDrawn' /\ OnTheWay'
       /\ NoneMissing' /\ EventsAgree' /\ NotMadeYet'
  <2>1. Range(handler'.table) \subseteq DOMAIN records
    BY <1>4, HandlerTypes DEF records
  <2>2. PublicationFailed' \/ WholeAt(i)'
    BY <1>3, <1>21, <1>23
  <2>3. \A j \in Ids \ DOMAIN records : wire'[j] = wire[j] /\ lock'[j] = lock[j]
    BY <1>2, <1>7
  <2> QED
    BY <1>4, <1>15, <1>17, <1>21, <1>22, <1>23, <2>1, <2>2, <2>3, OneRecord
<1> QED
  BY <1>4, <1>10, <1>12, <1>13, <1>14, <1>24 DEF IInv

LEMMA PublishResponseStep ==
  ASSUME IInv, NEW t \in Requests, NEW sent \in BOOLEAN, PublishResponse(t, sent)
  PROVE  IInv'
<1> DEFINE i == request[t].record
           early == request[t].early
           barrier == IF sent THEN "open" ELSE "failed"
           old == handler.records[i]
           new == [old EXCEPT !.barrier = barrier]
<1>1. /\ Responds(t, i) /\ records[i].barrier = "shut"
      /\ handler' = Replaced(handler, i, new)
      /\ Publish(t, Response, sent, early) /\ UNCHANGED <<emission, lock>>
  BY DEF PublishResponse, Responds, Replaced
<1>2. /\ i \in DOMAIN records /\ old \in Record /\ HandlerSound(handler)
      /\ WayAt(i)
  <2>1. i \in DOMAIN records
    BY <1>1 DEF Responds, IInv, RequestsSound
  <2> QED
    BY <2>1, Types DEF IInv, OnTheWay, records
<1>3. wire[i] = <<>>
  BY <1>1, <1>2 DEF WayAt
<1>4. /\ new \in Record /\ SameOutcome(old, new) /\ new.next = old.next
      /\ new.buffer = old.buffer /\ new.accepted = old.accepted
      /\ new.closed = old.closed /\ new.pending = old.pending
      /\ new.barrier = barrier
  BY <1>2 DEF Record, SameOutcome
<1> HIDE DEF new
<1>5. BarrierSet(i, barrier)
  <2> DEFINE g == Replaced(handler, i, new)
  <2>1. /\ HandlerSound(g) /\ Len(g.records) = Len(handler.records)
        /\ DOMAIN g.records = DOMAIN handler.records /\ g.table = handler.table
        /\ g.records[i] = new
        /\ \A j \in DOMAIN handler.records : j # i => g.records[j] = handler.records[j]
    BY <1>2, <1>4, EmitterChanged DEF records
  <2>2. handler' = g
    BY <1>1
  <2> HIDE DEF g, barrier
  <2> QED
    BY <1>4, <2>1, <2>2 DEF BarrierSet, records
<1>6. NextPublished(t, i, Response, sent, early, barrier)
  BY <1>3 DEF NextPublished
<1> HIDE DEF early, barrier, i
<1> QED
  BY <1>1, <1>5, <1>6, PublishGoes

LEMMA PublishEarlyStep ==
  ASSUME IInv, NEW t \in Requests, NEW sent \in BOOLEAN, PublishEarly(t, sent)
  PROVE  IInv'
<1> DEFINE i == request[t].record
           early == request[t].early
<1>1. /\ Responds(t, i) /\ records[i].barrier = "open"
      /\ Publish(t, Head(early), sent, Tail(early))
      /\ UNCHANGED <<handler, emission, lock>>
  BY DEF PublishEarly, Responds
<1>2. i \in DOMAIN records /\ HandlerSound(handler) /\ WayAt(i)
  <2>1. i \in DOMAIN records
    BY <1>1 DEF Responds, IInv, RequestsSound
  <2> QED
    BY <2>1 DEF IInv, OnTheWay
<1>3. wire[i] # <<>> /\ early # <<>>
  BY <1>1, <1>2 DEF WayAt
<1>4. BarrierSet(i, "open")
  BY <1>1, <1>2 DEF BarrierSet, SameOutcome, records
<1>5. NextPublished(t, i, Head(early), sent, Tail(early), "open")
  BY <1>3 DEF NextPublished
<1> HIDE DEF early, i
<1> QED
  BY <1>1, <1>4, <1>5, PublishGoes

-----------------------------------------------------------------------------
(* The queue for the lock of an emitter, when one emission moves.          *)

LEMMA PrependItems ==
  ASSUME NEW S, NEW s \in Seq(S), NEW x \in S, IsInjective(s), x \notin Range(s)
  PROVE  /\ <<x>> \o s \in Seq(S) /\ IsInjective(<<x>> \o s)
         /\ Range(<<x>> \o s) = Range(s) \cup {x} /\ Head(<<x>> \o s) = x
         /\ \A n \in DOMAIN (<<x>> \o s) :
              \/ n = 1 /\ (<<x>> \o s)[n] = x
              \/ n - 1 \in DOMAIN s /\ (<<x>> \o s)[n] = s[n - 1] /\ n \in Nat
<1> DEFINE r == <<x>> \o s
<1>1. DOMAIN s = 1..Len(s) /\ Len(s) \in Nat
  BY LenProperties
<1>2. <<x>> \in Seq(S) /\ Len(<<x>>) = 1 /\ <<x>>[1] = x
  OBVIOUS
<1>3. /\ r \in Seq(S) /\ Len(r) = 1 + Len(s)
      /\ \A n \in 1..1 + Len(s) : r[n] = IF n <= 1 THEN <<x>>[n] ELSE s[n - 1]
  <2> DEFINE o == <<x>>
  <2>1. o \in Seq(S) /\ Len(o) = 1 /\ o[1] = x
    BY <1>2
  <2> HIDE DEF o
  <2>2. /\ o \o s \in Seq(S) /\ Len(o \o s) = Len(o) + Len(s)
        /\ \A n \in 1..Len(o) + Len(s) :
             (o \o s)[n] = IF n <= Len(o) THEN o[n] ELSE s[n - Len(o)]
    BY <2>1, ConcatProperties
  <2> QED
    BY <2>1, <2>2 DEF o
<1> HIDE DEF r
<1>4. DOMAIN r = 1..1 + Len(s)
  BY <1>3, LenProperties
<1>5. r[1] = x /\ 1 \in DOMAIN r /\ Head(r) = r[1]
  <2>1. r[1] = x /\ 1 \in DOMAIN r /\ r # <<>>
    BY <1>1, <1>2, <1>3, <1>4
  <2> QED
    BY <1>3, <2>1, HeadTailProperties
<1>6. \A n \in DOMAIN r : n # 1 => n - 1 \in DOMAIN s /\ r[n] = s[n - 1] /\ n \in Nat
  BY <1>1, <1>3, <1>4
<1>7. \A n \in DOMAIN s : n + 1 \in DOMAIN r /\ r[n + 1] = s[n]
  BY <1>1, <1>3, <1>4
<1>8. \A n \in DOMAIN s : s[n] # x
  BY Zenon DEF Range
<1>9. IsInjective(r)
  <2> SUFFICES ASSUME NEW m \in DOMAIN r, NEW n \in DOMAIN r, r[m] = r[n]
               PROVE  m = n
    BY Zenon DEF IsInjective
  <2>1. CASE m = 1 \/ n = 1
    BY <1>5, <1>6, <1>8, <2>1
  <2>2. CASE m # 1 /\ n # 1
    <3>1. m - 1 \in DOMAIN s /\ n - 1 \in DOMAIN s /\ s[m - 1] = s[n - 1]
      BY <1>6, <2>2
    <3>2. m - 1 = n - 1
      BY <3>1, Zenon DEF IsInjective
    <3> QED
      BY <1>6, <2>2, <3>2
  <2> QED
    BY <2>1, <2>2
<1>10. Range(r) = Range(s) \cup {x}
  <2>1. \A n \in DOMAIN r : r[n] \in Range(s) \cup {x}
    BY <1>5, <1>6 DEF Range
  <2>2. x \in Range(r) /\ \A n \in DOMAIN s : s[n] \in Range(r)
    BY <1>5, <1>7 DEF Range
  <2> QED
    BY <2>1, <2>2, Zenon DEF Range
<1> QED
  BY <1>3, <1>5, <1>6, <1>9, <1>10 DEF r

\* What is left of the queue when emission e has the lock, or has no place.
LeftBehind(e, i, rest) ==
  \/ ~Queued(e, i) /\ rest = lock[i]
  \/ Queued(e, i) /\ Head(lock[i]) = e /\ rest = Tail(lock[i])

LEMMA RestFacts ==
  ASSUME IInv, NEW e \in Emissions, NEW i \in DOMAIN records, NEW rest,
         LeftBehind(e, i, rest)
  PROVE  /\ rest \in Seq(Requests \cup Emissions) /\ IsInjective(rest)
         /\ e \notin Range(rest) /\ DOMAIN rest \subseteq Nat
         /\ \A x \in Range(rest) : IF x \in Emissions THEN Queued(x, i)
                                   ELSE Closes(x, i) /\ x \in Requests
         /\ \A f \in Emissions : Queued(f, i) /\ f # e => f \in Range(rest)
         /\ \A t \in Requests : Closes(t, i) => t \in Range(rest)
         /\ \A f \in Emissions : Publishes(f, i) /\ f # e =>
              rest # <<>> /\ Head(rest) = f
         /\ ~records[i].accepted => rest = <<>>
         /\ \A m, n \in DOMAIN rest :
              /\ rest[m] \in Emissions /\ rest[n] \in Emissions
              /\ emission[rest[m]].stage = "number"
              /\ emission[rest[m]].event.phase # Progress
              /\ emission[rest[n]].stage = "number"
              /\ emission[rest[n]].event.phase = Progress
              => n < m
<1> DEFINE S == Requests \cup Emissions
           old == lock[i]
<1>1. LocksAt(i) /\ TurnAt(i) /\ i \in Ids
  BY Types DEF IInv, LocksSound, EndsInTurn
<1>2. /\ old \in Seq(S) /\ IsInjective(old)
      /\ ~records[i].accepted => old = <<>>
      /\ \A x \in Range(old) : IF x \in Emissions THEN Queued(x, i) ELSE Closes(x, i)
      /\ \A f \in Emissions : Queued(f, i) => f \in Range(old)
      /\ \A t \in Requests : Closes(t, i) => t \in Range(old)
      /\ \A f \in Emissions : Publishes(f, i) => Head(old) = f
  BY <1>1, Types DEF LocksAt
<1>3. /\ \A x \in Range(old) : x \in S
      /\ e \notin Requests /\ Len(old) \in Nat /\ DOMAIN old = 1..Len(old)
  BY <1>2, RangeType, LenProperties, EndpointAssumption
<1>4. \A m, n \in DOMAIN old :
              /\ old[m] \in Emissions /\ old[n] \in Emissions
              /\ emission[old[m]].stage = "number"
              /\ emission[old[m]].event.phase # Progress
              /\ emission[old[n]].stage = "number"
              /\ emission[old[n]].event.phase = Progress
              => n < m
  BY <1>1 DEF TurnAt
<1>5. \A f : Publishes(f, i) => Queued(f, i)
  BY DEF Publishes, Queued
<1> HIDE DEF old
<1>6. CASE ~Queued(e, i) /\ rest = old
  <2>1. old = <<>> => Range(old) = {}
    BY DEF Range
  <2> QED
    BY <1>2, <1>3, <1>4, <1>5, <1>6, <2>1
<1>7. CASE Queued(e, i) /\ Head(old) = e /\ rest = Tail(old)
  <2>1. old # <<>>
    BY <1>2, <1>7 DEF Range
  <2>2. /\ rest \in Seq(S) /\ DOMAIN rest = 1..Len(old) - 1
        /\ \A n \in DOMAIN rest : n + 1 \in DOMAIN old /\ rest[n] = old[n + 1]
        /\ IsInjective(rest) /\ Range(rest) = Range(old) \ {e}
    <3> HIDE DEF S
    <3> QED
      BY <1>2, <1>7, <2>1, TailItems, InjectiveTail
  <2>3. DOMAIN rest \subseteq Nat
    BY <2>2
  <2>4. ASSUME NEW m \in DOMAIN rest, NEW n \in DOMAIN rest,
               rest[m] \in Emissions, rest[n] \in Emissions,
               emission[rest[m]].stage = "number",
               emission[rest[m]].event.phase # Progress,
               emission[rest[n]].stage = "number",
               emission[rest[n]].event.phase = Progress
        PROVE  n < m
    <3>1. n + 1 < m + 1
      BY <1>4, <2>2, <2>4
    <3> QED
      BY <2>3, <3>1
  <2> QED
    BY <1>2, <1>3, <1>5, <1>7, <2>1, <2>2, <2>3, <2>4
<1> QED
  BY <1>6, <1>7 DEF LeftBehind, old

-----------------------------------------------------------------------------
(* One emission moves.                                                     *)

\* The handler learns what it may, and the emitter of record i may change.
EmitterGoes(i) ==
  /\ HandlerSound(handler') /\ Len(records') = Len(records)
  /\ DOMAIN records' = DOMAIN records
  /\ Range(handler'.table) \subseteq Range(handler.table)
  /\ \A j \in DOMAIN records :
       /\ records'[j].started = records[j].started
       /\ records'[j].accepted = records[j].accepted
       /\ records'[j].barrier = records[j].barrier
       /\ records[j].started => records'[j].ready = records[j].ready
       /\ records[j].ready => records'[j].ready
       /\ records[j].result # None => records'[j].result = records[j].result
       /\ j # i => SameEmitter(records[j], records'[j])
  /\ records[i].closed => records'[i].closed

\* Emission e is, or becomes, one of record i.
EmissionGoes(e, i, to, queue) ==
  /\ emission' = [emission EXCEPT ![e] = to] /\ lock' = [lock EXCEPT ![i] = queue]
  /\ request' = request
  /\ emission[e].stage = "idle" \/ emission[e].record = i
  /\ emission[e].stage # "lost"
  /\ to \in EmissionStates /\ to.stage # "idle" /\ to.record = i
  /\ to.stage \in {"establish", "clear"} => to.event.phase # Progress
  /\ to.stage = "publish" => records[i].accepted

\* What the other emissions and the tasks that respond are doing.
OthersStay(e, i) ==
  /\ \A t \in Requests : \A j : /\ Responds(t, j)' <=> Responds(t, j)
                                /\ Starts(t, j)' <=> Starts(t, j)
                                /\ Closes(t, j)' <=> Closes(t, j)
  /\ \A f \in Emissions \ {e} :
       /\ emission'[f] = emission[f]
       /\ Queued(f, i)' <=> Queued(f, i)
       /\ Publishes(f, i)' <=> Publishes(f, i)
       /\ Unnumbered(f, i)' <=> Unnumbered(f, i)
       /\ Ends(f, i)' <=> Ends(f, i)

\* Emission e of execution i goes to to, and the wires of the others stay.
EmissionMoves(e, i, to, queue) ==
  /\ records[i].started /\ queue \in Seq(Requests \cup Emissions)
  /\ EmitterGoes(i) /\ EmissionGoes(e, i, to, queue)
  /\ wire' \in [Ids -> Seq(Event \cup {Response})]
  /\ \A j \in Ids \ {i} : wire'[j] = wire[j]

LEMMA EmissionFrame ==
  ASSUME IInv, NEW e \in Emissions, NEW i \in DOMAIN records, NEW to, NEW queue,
         EmissionMoves(e, i, to, queue)
  PROVE  /\ TypeOK' /\ RequestsSound' /\ EmissionsSound' /\ OthersStay(e, i)
         /\ emission'[e] = to /\ lock'[i] = queue
         /\ \A j \in DOMAIN records \ {i} : Untouched(j)
         /\ \A j \in Ids \ DOMAIN records : wire'[j] = wire[j] /\ lock'[j] = lock[j]
         /\ PublicationFailed => PublicationFailed'
         /\ i \in Ids
<1>0. /\ records[i].started /\ queue \in Seq(Requests \cup Emissions)
      /\ EmitterGoes(i) /\ EmissionGoes(e, i, to, queue)
      /\ wire' \in [Ids -> Seq(Event \cup {Response})]
      /\ \A j \in Ids \ {i} : wire'[j] = wire[j]
  BY DEF EmissionMoves
<1>1. /\ RequestsSound /\ EmissionsSound /\ TypeOK
      /\ DOMAIN emission = Emissions /\ DOMAIN lock = Ids
      /\ DOMAIN records \subseteq Ids /\ i \in Ids /\ 0 \notin DOMAIN records
  BY Types DEF IInv
<1>2. /\ emission' = [emission EXCEPT ![e] = to] /\ lock' = [lock EXCEPT ![i] = queue]
      /\ request' = request
      /\ emission[e].stage = "idle" \/ emission[e].record = i
      /\ emission[e].stage # "lost"
      /\ to \in EmissionStates /\ to.stage # "idle" /\ to.record = i
      /\ to.stage \in {"establish", "clear"} => to.event.phase # Progress
      /\ to.stage = "publish" => records[i].accepted
  BY <1>0 DEF EmissionGoes
<1>3. /\ HandlerSound(handler') /\ Len(records') = Len(records)
      /\ DOMAIN records' = DOMAIN records
      /\ Range(handler'.table) \subseteq Range(handler.table)
      /\ \A j \in DOMAIN records :
           /\ records'[j].started = records[j].started
           /\ records'[j].accepted = records[j].accepted
           /\ records[j].ready => records'[j].ready
           /\ records[j].result # None => records'[j].result = records[j].result
           /\ j # i => SameEmitter(records[j], records'[j])
  BY <1>0 DEF EmitterGoes
<1>4. /\ emission'[e] = to /\ lock'[i] = queue
      /\ \A f \in Emissions \ {e} : emission'[f] = emission[f]
      /\ \A j \in Ids \ {i} : lock'[j] = lock[j]
  BY <1>1, <1>2
<1>5. TypeOK'
  <2>1. /\ records' \in Seq(Record) /\ Range(handler'.table) \subseteq DOMAIN records'
        /\ handler'.active \in 0..MaxConcurrency
    BY <1>3, HandlerTypes DEF records
  <2>2. emission' \in [Emissions -> EmissionStates]
    BY <1>1, <1>2 DEF TypeOK
  <2>3. lock' \in [Ids -> Seq(Requests \cup Emissions)]
    BY <1>0, <1>1, <1>2 DEF TypeOK
  <2>4. request' \in [Requests -> RequestStates] /\ Len(records') <= MaxRecords
    BY <1>1, <1>2, <1>3 DEF TypeOK
  <2> QED
    BY <1>0, <2>1, <2>2, <2>3, <2>4 DEF TypeOK
<1>6. RequestsSound'
  <2>1. ASSUME NEW t \in Requests
        PROVE  /\ request[t].stage \in {"starting", "waiting", "responding", "closing"}
                    => request[t].record \in DOMAIN records'
               /\ request[t].stage = "done" =>
                    request[t].record \in DOMAIN records' \cup {0}
               /\ request[t].stage \in {"responding", "closing", "done"} =>
                    (request[t].record # 0 /\ request[t].reply \in Terminal
                       => records'[request[t].record].result = request[t].reply)
    <3>1. ASSUME request[t].stage \in {"responding", "closing", "done"},
                 request[t].record # 0, request[t].reply \in Terminal
          PROVE  records'[request[t].record].result = request[t].reply
      <4>1. records[request[t].record].result = request[t].reply
              /\ request[t].record \in DOMAIN records
        BY <1>1, <3>1 DEF RequestsSound
      <4>2. request[t].reply # None
        BY <3>1 DEF Terminal, None
      <4> QED
        BY <1>3, <4>1, <4>2
    <3> QED
      BY <1>1, <1>3, <3>1 DEF RequestsSound
  <2>2. \A t, u \in Requests, j \in DOMAIN records :
          (Starts(t, j) \/ Responds(t, j))' /\ (Starts(u, j) \/ Responds(u, j))' => t = u
    BY <1>1, <1>2 DEF RequestsSound, Starts, Responds
  <2> QED
    BY <1>2, <1>3, <2>1, <2>2 DEF RequestsSound
<1>7. EmissionsSound'
  <2> SUFFICES ASSUME NEW f \in Emissions
               PROVE  /\ emission'[f].stage # "idle" =>
                           emission'[f].record \in DOMAIN records'
                             /\ records'[emission'[f].record].started
                      /\ emission'[f].stage \in {"establish", "clear"} =>
                           emission'[f].event.phase # Progress
                      /\ emission'[f].stage = "publish" =>
                           records'[emission'[f].record].accepted
    BY DEF EmissionsSound
  <2>1. CASE f = e
    BY <1>0, <1>2, <1>3, <1>4, <2>1
  <2>2. CASE f # e
    BY <1>1, <1>3, <1>4, <2>2 DEF EmissionsSound
  <2> QED
    BY <2>1, <2>2
<1>8. OthersStay(e, i)
  BY <1>2, <1>4 DEF OthersStay, Responds, Starts, Closes, Queued, Publishes,
                    Unnumbered, Ends
<1>9. ASSUME NEW j \in DOMAIN records \ {i}
      PROVE  Untouched(j)
  <2>1. wire'[j] = wire[j] /\ lock'[j] = lock[j]
    BY <1>0, <1>1, <1>4
  <2>2. \A f \in Emissions : \/ emission'[f] = emission[f]
                             \/ ~About(f, j) /\ ~About(f, j)'
    BY <1>2, <1>4 DEF About
  <2> QED
    BY <1>2, <1>3, <2>1, <2>2 DEF Untouched
<1>10. PublicationFailed => PublicationFailed'
  BY <1>2, <1>4 DEF PublicationFailed
<1>11. \A j \in Ids \ DOMAIN records : wire'[j] = wire[j] /\ lock'[j] = lock[j]
  BY <1>0, <1>1, <1>4
<1> QED
  BY <1>1, <1>4, <1>5, <1>6, <1>7, <1>8, <1>9, <1>10, <1>11

\* Emission e goes to the end of the queue, keeps the lock while it publishes,
\* or has left it.
QueueAfter(e, i, stage, rest, queue) ==
  \/ /\ stage \in {"enter", "number", "clear"}
     /\ rest # <<>> /\ queue = Append(rest, e)
  \/ /\ stage = "publish" /\ \A f \in Emissions : Publishes(f, i) => f = e
     /\ records[i].accepted /\ queue = <<e>> \o rest
  \/ /\ stage \in {"establish", "done", "refused", "lost"} /\ queue = rest

LEMMA QueueAfterFacts ==
  ASSUME IInv, NEW e \in Emissions, NEW i \in DOMAIN records, NEW stage,
         NEW rest, NEW queue,
         LeftBehind(e, i, rest), QueueAfter(e, i, stage, rest, queue)
  PROVE  /\ queue \in Seq(Requests \cup Emissions) /\ IsInjective(queue)
         /\ Range(rest) \subseteq Range(queue)
         /\ Range(queue) \subseteq Range(rest) \cup {e}
         /\ stage \in {"enter", "number", "clear", "publish"} => e \in Range(queue)
         /\ e \in Range(queue) => stage \in {"enter", "number", "clear", "publish"}
         /\ stage = "publish" => Head(queue) = e
         /\ \A f \in Emissions : Publishes(f, i) /\ f # e => Head(queue) = f
         /\ ~records[i].accepted => queue = <<>>
         /\ DOMAIN queue \subseteq Nat
         /\ \A m, n \in DOMAIN queue :
              /\ queue[m] \in Emissions \ {e} /\ queue[n] \in Emissions \ {e}
              /\ emission[queue[m]].stage = "number"
              /\ emission[queue[m]].event.phase # Progress
              /\ emission[queue[n]].stage = "number"
              /\ emission[queue[n]].event.phase = Progress
              => n < m
         /\ stage \in {"enter", "number", "clear"} =>
              \A m, n \in DOMAIN queue : queue[m] = e /\ queue[n] # e => n < m
<1> DEFINE S == Requests \cup Emissions
           Turns(q) == \A m, n \in DOMAIN q :
              /\ q[m] \in Emissions \ {e} /\ q[n] \in Emissions \ {e}
              /\ emission[q[m]].stage = "number"
              /\ emission[q[m]].event.phase # Progress
              /\ emission[q[n]].stage = "number"
              /\ emission[q[n]].event.phase = Progress
              => n < m
<1>1. /\ rest \in Seq(S) /\ IsInjective(rest)
      /\ e \notin Range(rest) /\ DOMAIN rest \subseteq Nat
      /\ \A f \in Emissions : Publishes(f, i) /\ f # e =>
           rest # <<>> /\ Head(rest) = f
      /\ ~records[i].accepted => rest = <<>>
      /\ Turns(rest)
  BY RestFacts
<1>2. DOMAIN rest = 1..Len(rest) /\ Len(rest) \in Nat /\ e \in S
  BY <1>1, LenProperties
<1> HIDE DEF S
<1>3. CASE stage \in {"enter", "number", "clear"} /\ rest # <<>> /\ queue = Append(rest, e)
  <2>1. /\ queue \in Seq(S) /\ Len(queue) = Len(rest) + 1
        /\ queue[Len(rest) + 1] = e
        /\ \A n \in DOMAIN rest : queue[n] = rest[n]
        /\ Range(queue) = Range(rest) \cup {e}
    BY <1>1, <1>2, <1>3, AppendItems
  <2>2. IsInjective(queue)
    BY <1>1, <1>2, <1>3, InjectiveAppend
  <2>3. DOMAIN queue = 1..Len(rest) + 1
    BY <2>1, LenProperties
  <2>4. Head(queue) = Head(rest)
    <3>1. 1 \in DOMAIN rest /\ queue # <<>>
      BY <1>1, <1>2, <1>3, <2>1
    <3>2. Head(queue) = queue[1] /\ Head(rest) = rest[1]
      BY <1>1, <1>3, <2>1, <3>1, HeadTailProperties
    <3> QED
      BY <2>1, <3>1, <3>2
  <2>5. \A n \in DOMAIN queue : queue[n] # e => n \in DOMAIN rest
    BY <1>2, <2>1, <2>3
  <2>6. Turns(queue)
    BY <1>1, <2>1, <2>5
  <2>7. \A m, n \in DOMAIN queue : queue[m] = e /\ queue[n] # e => n < m
    <3> SUFFICES ASSUME NEW m \in DOMAIN queue, NEW n \in DOMAIN queue,
                        queue[m] = e, queue[n] # e
                 PROVE  n < m
      OBVIOUS
    <3>1. m \notin DOMAIN rest
      BY <1>1, <2>1 DEF Range
    <3> QED
      BY <1>2, <2>3, <2>5, <3>1
  <2>8. DOMAIN queue \subseteq Nat
    BY <1>2, <2>3
  <2> HIDE DEF Turns
  <2>9. queue \in Seq(Requests \cup Emissions)
    BY <2>1 DEF S
  <2> QED
    BY <1>1, <1>3, <2>1, <2>2, <2>4, <2>6, <2>7, <2>8, <2>9 DEF Turns
<1>4. CASE /\ stage = "publish" /\ \A f \in Emissions : Publishes(f, i) => f = e
           /\ records[i].accepted /\ queue = <<e>> \o rest
  <2>1. /\ <<e>> \o rest \in Seq(S) /\ IsInjective(<<e>> \o rest)
        /\ Range(<<e>> \o rest) = Range(rest) \cup {e} /\ Head(<<e>> \o rest) = e
        /\ \A n \in DOMAIN (<<e>> \o rest) :
             \/ n = 1 /\ (<<e>> \o rest)[n] = e
             \/ n - 1 \in DOMAIN rest /\ (<<e>> \o rest)[n] = rest[n - 1] /\ n \in Nat
    BY <1>1, <1>2, PrependItems
  <2>2. /\ queue \in Seq(S) /\ IsInjective(queue)
        /\ Range(queue) = Range(rest) \cup {e} /\ Head(queue) = e
        /\ \A n \in DOMAIN queue :
             \/ n = 1 /\ queue[n] = e
             \/ n - 1 \in DOMAIN rest /\ queue[n] = rest[n - 1] /\ n \in Nat
    BY <1>4, <2>1
  <2>3. \A n \in DOMAIN queue : n \in Nat /\
          (queue[n] # e => n - 1 \in DOMAIN rest /\ queue[n] = rest[n - 1])
    BY <2>2
  <2>4. Turns(queue)
    <3> SUFFICES ASSUME NEW m \in DOMAIN queue, NEW n \in DOMAIN queue,
                        queue[m] \in Emissions \ {e}, queue[n] \in Emissions \ {e},
                        emission[queue[m]].stage = "number",
                        emission[queue[m]].event.phase # Progress,
                        emission[queue[n]].stage = "number",
                        emission[queue[n]].event.phase = Progress
                 PROVE  n < m
      OBVIOUS
    <3>1. /\ m - 1 \in DOMAIN rest /\ queue[m] = rest[m - 1] /\ m \in Nat
          /\ n - 1 \in DOMAIN rest /\ queue[n] = rest[n - 1] /\ n \in Nat
      BY <2>3
    <3>2. n - 1 < m - 1
      BY <1>1, <3>1
    <3> QED
      BY <3>1, <3>2
  <2> HIDE DEF Turns
  <2>5. queue \in Seq(Requests \cup Emissions) /\ DOMAIN queue \subseteq Nat
    BY <2>2, <2>3 DEF S
  <2> QED
    BY <1>4, <2>2, <2>4, <2>5 DEF Turns
<1>5. CASE stage \in {"establish", "done", "refused", "lost"} /\ queue = rest
  <2>1. rest \in Seq(Requests \cup Emissions)
    BY <1>1 DEF S
  <2> QED
    BY <1>1, <1>5, <2>1
<1> QED
  BY <1>3, <1>4, <1>5 DEF QueueAfter

\* A terminal event has the emitter to itself before it takes its turn, and
\* keeps it; a progress event is not let in behind it.
TurnKept(e, i, to) ==
  LET endsAfter == to.stage \in {"establish", "number", "clear"}
                     /\ to.event.phase # Progress
  IN /\ endsAfter => records'[i].pending /\ (Ends(e, i) \/ ~records[i].pending)
     /\ ~endsAfter => records'[i].pending = records[i].pending \/ Ends(e, i)
     /\ to.stage = "number" /\ to.event.phase = Progress => ~records[i].pending

LEMMA QueueGoes ==
  ASSUME IInv, NEW e \in Emissions, NEW i \in DOMAIN records,
         NEW to, NEW queue, NEW rest, OthersStay(e, i),
         emission'[e] = to, to.record = i, lock'[i] = queue, i \in Ids,
         records'[i].accepted = records[i].accepted,
         LeftBehind(e, i, rest), QueueAfter(e, i, to.stage, rest, queue),
         TurnKept(e, i, to)
  PROVE  LocksAt(i)' /\ TurnAt(i)'
<1>1. /\ queue \in Seq(Requests \cup Emissions) /\ IsInjective(queue)
      /\ Range(rest) \subseteq Range(queue)
      /\ Range(queue) \subseteq Range(rest) \cup {e}
      /\ to.stage \in {"enter", "number", "clear", "publish"} => e \in Range(queue)
      /\ e \in Range(queue) => to.stage \in {"enter", "number", "clear", "publish"}
      /\ to.stage = "publish" => Head(queue) = e
      /\ \A f \in Emissions : Publishes(f, i) /\ f # e => Head(queue) = f
      /\ ~records[i].accepted => queue = <<>>
      /\ DOMAIN queue \subseteq Nat
      /\ \A m, n \in DOMAIN queue :
           /\ queue[m] \in Emissions \ {e} /\ queue[n] \in Emissions \ {e}
           /\ emission[queue[m]].stage = "number"
           /\ emission[queue[m]].event.phase # Progress
           /\ emission[queue[n]].stage = "number"
           /\ emission[queue[n]].event.phase = Progress
           => n < m
      /\ to.stage \in {"enter", "number", "clear"} =>
           \A m, n \in DOMAIN queue : queue[m] = e /\ queue[n] # e => n < m
  BY QueueAfterFacts
<1>2. /\ e \notin Range(rest)
      /\ \A x \in Range(rest) : IF x \in Emissions THEN Queued(x, i)
                                ELSE Closes(x, i) /\ x \in Requests
      /\ \A f \in Emissions : Queued(f, i) /\ f # e => f \in Range(rest)
      /\ \A t \in Requests : Closes(t, i) => t \in Range(rest)
  BY RestFacts
<1>3. /\ \A t \in Requests : Closes(t, i)' <=> Closes(t, i)
      /\ \A f \in Emissions \ {e} :
           /\ emission'[f] = emission[f]
           /\ Queued(f, i)' <=> Queued(f, i)
           /\ Publishes(f, i)' <=> Publishes(f, i)
           /\ Ends(f, i)' <=> Ends(f, i)
  BY DEF OthersStay
<1>4. /\ Queued(e, i)' <=> to.stage \in {"enter", "number", "clear", "publish"}
      /\ Publishes(e, i)' <=> to.stage = "publish"
      /\ Ends(e, i)' <=> to.stage \in {"establish", "number", "clear"}
                           /\ to.event.phase # Progress
  BY DEF Queued, Publishes, Ends
<1>5. LocksAt(i)'
  <2>1. \A x \in Range(queue) : IF x \in Emissions THEN Queued(x, i)'
                                ELSE Closes(x, i)'
    BY <1>1, <1>2, <1>3, <1>4
  <2>2. \A f \in Emissions : Queued(f, i)' => f \in Range(queue)
    BY <1>1, <1>2, <1>3, <1>4
  <2>3. \A t \in Requests : Closes(t, i)' => t \in Range(queue)
    BY <1>1, <1>2, <1>3
  <2>4. \A f \in Emissions : Publishes(f, i)' => Head(queue) = f
    BY <1>1, <1>3, <1>4
  <2> QED
    BY <1>1, <2>1, <2>2, <2>3, <2>4 DEF LocksAt
<1>6. TurnAt(i)
  BY DEF IInv, EndsInTurn
<1>7. TurnAt(i)'
  <2>1. \A f \in Emissions : Ends(f, i)' => records'[i].pending
    BY <1>3, <1>4, <1>6 DEF TurnAt, TurnKept
  <2>2. \A f, g \in Emissions : Ends(f, i)' /\ Ends(g, i)' => f = g
    BY <1>3, <1>4, <1>6 DEF TurnAt, TurnKept
  <2>3. ASSUME NEW m \in DOMAIN queue, NEW n \in DOMAIN queue,
               queue[m] \in Emissions, queue[n] \in Emissions,
               emission'[queue[m]].stage = "number",
               emission'[queue[m]].event.phase # Progress,
               emission'[queue[n]].stage = "number",
               emission'[queue[n]].event.phase = Progress
        PROVE  n < m
    <3>1. CASE queue[m] = e
      BY <1>1, <2>3, <3>1
    <3>2. CASE queue[m] # e /\ queue[n] = e
      <4>1. queue[m] \in Range(queue)
        BY DEF Range
      <4>2. Ends(queue[m], i)
        BY <1>1, <1>2, <1>3, <2>3, <3>2, <4>1 DEF Ends, Queued
      <4>3. records[i].pending
        BY <1>6, <2>3, <4>2 DEF TurnAt
      <4> QED
        BY <2>3, <3>2, <4>3 DEF TurnKept
    <3>3. CASE queue[m] # e /\ queue[n] # e
      <4>1. /\ emission'[queue[m]] = emission[queue[m]]
            /\ emission'[queue[n]] = emission[queue[n]]
        BY <1>3, <2>3, <3>3
      <4> QED
        BY <1>1, <2>3, <3>3, <4>1
    <3> QED
      BY <3>1, <3>2, <3>3
  <2> QED
    BY <2>1, <2>2, <2>3 DEF TurnAt
<1> QED
  BY <1>5, <1>7

-----------------------------------------------------------------------------
(* Emissions that draw no number.                                          *)

\* The starting task's record is as fresh as before, if its numbers are.
LEMMA StartsGo ==
  ASSUME IInv, NEW i \in DOMAIN records, EmitterGoes(i), request' = request,
         \A j \in Ids \ {i} : wire'[j] = wire[j],
         ~records[i].accepted /\ records[i].started =>
           /\ wire'[i] = wire[i]
           /\ (wire[i] = <<>> /\ records[i].next = Len(records[i].buffer)
                 /\ \A n \in DOMAIN records[i].buffer :
                      records[i].buffer[n].number = n - 1)
              => /\ records'[i].next = Len(records'[i].buffer)
                 /\ \A n \in DOMAIN records'[i].buffer :
                      records'[i].buffer[n].number = n - 1
  PROVE  StartsAfresh'
<1> SUFFICES ASSUME NEW t \in Requests, NEW j \in DOMAIN records', Starts(t, j)'
             PROVE  /\ records'[j].started /\ ~records'[j].ready
                    /\ ~records'[j].accepted /\ wire'[j] = <<>>
                    /\ records'[j].next = Len(records'[j].buffer)
                    /\ \A n \in DOMAIN records'[j].buffer :
                         records'[j].buffer[n].number = n - 1
  BY DEF StartsAfresh
<1>1. Starts(t, j) /\ j \in DOMAIN records /\ j \in Ids
  BY Types DEF Starts, EmitterGoes
<1>2. /\ records[j].started /\ ~records[j].ready /\ ~records[j].accepted
      /\ wire[j] = <<>> /\ records[j].next = Len(records[j].buffer)
      /\ \A n \in DOMAIN records[j].buffer : records[j].buffer[n].number = n - 1
  BY <1>1 DEF IInv, StartsAfresh
<1>3. /\ records'[j].started = records[j].started
      /\ records'[j].accepted = records[j].accepted
      /\ records'[j].ready = records[j].ready
      /\ j # i => SameEmitter(records[j], records'[j])
  BY <1>1, <1>2 DEF EmitterGoes
<1>4. CASE j = i
  BY <1>1, <1>2, <1>3, <1>4
<1>5. CASE j # i
  BY <1>1, <1>2, <1>3, <1>5 DEF SameEmitter
<1> QED
  BY <1>4, <1>5

\* What emission e may be about to do after this step, which draws no number.
MoveKept(e, i, to) ==
  /\ emission[e].stage # "publish"
  /\ to.stage \in {"enter", "establish", "number", "clear", "refused"}
  /\ to.stage \in {"establish", "number"} => Unnumbered(e, i) \/ ~records[i].closed
  /\ to.stage = "number" /\ to.event.phase # Progress =>
       (i \in Range(handler'.table) => records'[i].result = to.event.phase)

LEMMA MoveGoes ==
  ASSUME IInv, NEW e \in Emissions, NEW i \in DOMAIN records, records[i].started,
         NEW to, NEW queue, NEW rest,
         EmitterGoes(i), EmissionGoes(e, i, to, queue), wire' = wire,
         records'[i].next = records[i].next, records'[i].buffer = records[i].buffer,
         LeftBehind(e, i, rest), QueueAfter(e, i, to.stage, rest, queue),
         TurnKept(e, i, to), MoveKept(e, i, to)
  PROVE  IInv'
<1>1. queue \in Seq(Requests \cup Emissions)
  BY QueueAfterFacts
<1>2. wire' \in [Ids -> Seq(Event \cup {Response})] /\ \A j \in Ids : wire'[j] = wire[j]
  BY DEF IInv, TypeOK
<1>3. /\ TypeOK' /\ RequestsSound' /\ EmissionsSound' /\ OthersStay(e, i)
      /\ emission'[e] = to /\ lock'[i] = queue
      /\ \A j \in DOMAIN records \ {i} : Untouched(j)
      /\ \A j \in Ids \ DOMAIN records : wire'[j] = wire[j] /\ lock'[j] = lock[j]
      /\ PublicationFailed => PublicationFailed'
      /\ i \in Ids
  <2>1. EmissionMoves(e, i, to, queue)
    BY <1>1, <1>2 DEF EmissionMoves
  <2> QED
    BY <2>1, EmissionFrame
<1>4. to.record = i /\ request' = request
  BY DEF EmissionGoes
<1>5. /\ HandlerSound(handler') /\ DOMAIN records' = DOMAIN records
      /\ Range(handler'.table) \subseteq Range(handler.table)
      /\ records'[i].accepted = records[i].accepted
      /\ records'[i].barrier = records[i].barrier
      /\ records[i].ready => records'[i].ready
      /\ records[i].result # None => records'[i].result = records[i].result
      /\ records[i].closed => records'[i].closed
  BY DEF EmitterGoes
<1>6. LocksAt(i)' /\ TurnAt(i)'
  BY <1>3, <1>4, <1>5, QueueGoes
<1>7. /\ NumbersAt(i) /\ WayAt(i)
      /\ PublicationFailed \/ WholeAt(i)
      /\ i \in Range(handler.table) => AgreeAt(i)
  BY DEF IInv, NumbersDrawn, OnTheWay, NoneMissing, EventsAgree
<1>8. /\ \A t \in Requests : Responds(t, i)' <=> Responds(t, i)
      /\ \A f \in Emissions \ {e} :
           /\ emission'[f] = emission[f]
           /\ Publishes(f, i)' <=> Publishes(f, i)
           /\ Unnumbered(f, i)' <=> Unnumbered(f, i)
           /\ Ends(f, i)' <=> Ends(f, i)
      /\ ~Publishes(e, i) /\ ~Publishes(e, i)'
      /\ Unnumbered(e, i)' <=> to.stage \in {"establish", "number"}
      /\ Ends(e, i)' <=> to.stage \in {"establish", "number", "clear"}
                           /\ to.event.phase # Progress
  BY <1>3, <1>4 DEF OthersStay, Publishes, Unnumbered, Ends, MoveKept
<1>9. /\ Published(i)' = Published(i) /\ Base(i)' = Base(i)
      /\ Early(i)' = Early(i) /\ Held(i)' = Held(i) /\ Numbered(i)' = Numbered(i)
      /\ wire'[i] = wire[i]
  <2>1. wire'[i] = wire[i]
    BY <1>2, <1>3
  <2>2. Published(i)' = Published(i) /\ Base(i)' = Base(i)
    BY <2>1 DEF Published, Base
  <2>3. Early(i)' = Early(i)
    BY <1>4, <1>8 DEF Early
  <2>4. Held(i)' = Held(i)
    BY <1>8 DEF Held
  <2>5. Range(records'[i].buffer) = Range(records[i].buffer)
    OBVIOUS
  <2> QED
    BY <2>1, <2>2, <2>3, <2>4, <2>5 DEF Numbered
<1>10. NumbersAt(i)'
  <2> SUFFICES ASSUME NEW x \in Numbered(i)
               PROVE  /\ x \in Event /\ x.number < records'[i].next
                      /\ x.phase # Progress =>
                           /\ x.number + 1 = records'[i].next
                           /\ records'[i].closed
                           /\ \A f \in Emissions : ~Unnumbered(f, i)'
    BY <1>9 DEF NumbersAt
  <2> QED
    BY <1>5, <1>7, <1>8 DEF NumbersAt, MoveKept
<1>11. WayAt(i)'
  BY <1>4, <1>5, <1>7, <1>8, <1>9 DEF WayAt
<1>12. WholeAt(i) => WholeAt(i)'
  BY <1>4, <1>5, <1>8, <1>9 DEF WholeAt
<1>13. ASSUME i \in Range(handler'.table)
       PROVE  AgreeAt(i)'
  <2>1. AgreeAt(i)
    BY <1>5, <1>7, <1>13
  <2>2. \A x \in Numbered(i) : x \in Event
    BY <1>7 DEF NumbersAt
  <2>3. \A f \in Emissions : Ends(f, i) => emission[f].event \in Event
    BY Types DEF Ends
  <2>4. \A x \in Event : x.phase # None
    BY DEF Event, EventPhases, Terminal, Progress, None
  <2>5. \A x \in Numbered(i) : x.phase # Progress => records'[i].result = x.phase
    BY <1>5, <2>1, <2>2, <2>4 DEF AgreeAt
  <2>6. ASSUME NEW f \in Emissions, Ends(f, i)', emission'[f].stage = "number"
        PROVE  records'[i].result = emission'[f].event.phase
    <3>1. CASE f = e
      BY <1>3, <1>8, <1>13, <2>6, <3>1 DEF MoveKept
    <3>2. CASE f # e
      BY <1>5, <1>8, <2>1, <2>3, <2>4, <2>6, <3>2 DEF AgreeAt
    <3> QED
      BY <3>1, <3>2
  <2> QED
    BY <1>9, <2>5, <2>6 DEF AgreeAt
<1>14. Range(handler'.table) \subseteq DOMAIN records
  BY <1>5, HandlerTypes DEF records
<1>15. /\ LocksSound' /\ EndsInTurn' /\ NumbersDrawn' /\ OnTheWay'
       /\ NoneMissing' /\ EventsAgree' /\ NotMadeYet'
  <2>1. PublicationFailed' \/ WholeAt(i)'
    BY <1>3, <1>7, <1>12
  <2> QED
    BY <1>3, <1>5, <1>6, <1>10, <1>11, <1>13, <1>14, <2>1, OneRecord
<1>16. StartsAfresh'
  BY <1>2, <1>3, <1>4, StartsGo
<1> QED
  BY <1>3, <1>5, <1>15, <1>16 DEF IInv

-----------------------------------------------------------------------------
(* An emission draws its number.                                           *)

\* Emission e may draw the next number: no terminal event has one, and if this
\* is one, nobody else is to draw a number.
MayDraw(e, i, phase) ==
  /\ emission[e].stage # "publish"
  /\ Unnumbered(e, i) \/ ~records[i].closed
  /\ phase # Progress =>
       /\ Ends(e, i) /\ \A f \in Emissions \ {e} : ~Unnumbered(f, i)
       /\ i \in Range(handler'.table) => records'[i].result = phase

\* What is drawn, and where the event goes.
Draws(e, i, to) ==
  /\ to.event.number = records[i].next /\ to.event \in Event
  /\ records'[i].next = records[i].next + 1
  /\ to.event.phase # Progress => records'[i].closed
  /\ records'[i].pending = (records[i].pending /\ to.event.phase = Progress)
  /\ \/ /\ records[i].accepted /\ to.stage = "publish"
        /\ records'[i].buffer = records[i].buffer
     \/ /\ ~records[i].accepted /\ to.stage = "done"
        /\ records'[i].buffer = Append(records[i].buffer, to.event)

LEMMA DrawGoes ==
  ASSUME IInv, NEW e \in Emissions, NEW i \in DOMAIN records, records[i].started,
         NEW to, NEW queue, NEW rest,
         EmitterGoes(i), EmissionGoes(e, i, to, queue), wire' = wire,
         LeftBehind(e, i, rest), QueueAfter(e, i, to.stage, rest, queue),
         MayDraw(e, i, to.event.phase), Draws(e, i, to)
  PROVE  IInv'
<1> DEFINE next == to.event
<1>1. queue \in Seq(Requests \cup Emissions)
  BY QueueAfterFacts
<1>2. wire' \in [Ids -> Seq(Event \cup {Response})] /\ \A j \in Ids : wire'[j] = wire[j]
  BY DEF IInv, TypeOK
<1>3. /\ TypeOK' /\ RequestsSound' /\ EmissionsSound' /\ OthersStay(e, i)
      /\ emission'[e] = to /\ lock'[i] = queue
      /\ \A j \in DOMAIN records \ {i} : Untouched(j)
      /\ \A j \in Ids \ DOMAIN records : wire'[j] = wire[j] /\ lock'[j] = lock[j]
      /\ PublicationFailed => PublicationFailed'
      /\ i \in Ids
  <2>1. EmissionMoves(e, i, to, queue)
    BY <1>1, <1>2 DEF EmissionMoves
  <2> QED
    BY <2>1, EmissionFrame
<1>4. to.record = i /\ request' = request
  BY DEF EmissionGoes
<1>5. /\ HandlerSound(handler') /\ DOMAIN records' = DOMAIN records
      /\ Range(handler'.table) \subseteq Range(handler.table)
      /\ records'[i].accepted = records[i].accepted
      /\ records'[i].barrier = records[i].barrier
      /\ records[i].ready => records'[i].ready
      /\ records[i].result # None => records'[i].result = records[i].result
  BY DEF EmitterGoes
<1>6. TurnKept(e, i, to)
  <2>1. to.stage \in {"publish", "done"}
    BY DEF Draws
  <2>2. records'[i].pending = records[i].pending \/ Ends(e, i)
    <3>1. CASE to.event.phase = Progress
      <4>1. records[i].pending \in BOOLEAN
        BY Types DEF Record
      <4>2. records'[i].pending = records[i].pending
        BY <3>1, <4>1, Zenon DEF Draws
      <4> QED
        BY <4>2
    <3>2. CASE to.event.phase # Progress
      BY <3>2 DEF MayDraw
    <3> QED
      BY <3>1, <3>2
  <2> QED
    BY <2>1, <2>2 DEF TurnKept
<1>7. LocksAt(i)' /\ TurnAt(i)'
  BY <1>3, <1>4, <1>5, <1>6, QueueGoes
<1>8. /\ NumbersAt(i) /\ WayAt(i)
      /\ PublicationFailed \/ WholeAt(i)
      /\ i \in Range(handler.table) => AgreeAt(i)
  BY DEF IInv, NumbersDrawn, OnTheWay, NoneMissing, EventsAgree
<1>9. /\ \A t \in Requests : Responds(t, i)' <=> Responds(t, i)
      /\ \A f \in Emissions \ {e} :
           /\ emission'[f] = emission[f]
           /\ Publishes(f, i)' <=> Publishes(f, i)
           /\ Unnumbered(f, i)' <=> Unnumbered(f, i)
           /\ Ends(f, i)' <=> Ends(f, i)
      /\ ~Publishes(e, i)
      /\ Publishes(e, i)' <=> to.stage = "publish"
      /\ ~Unnumbered(e, i)' /\ ~Ends(e, i)'
  BY <1>3, <1>4 DEF OthersStay, Publishes, Unnumbered, Ends, MayDraw, Draws
<1>10. /\ next \in Event /\ next.number = records[i].next
       /\ records'[i].next = records[i].next + 1
       /\ next.phase # Progress => records'[i].closed
       /\ records[i].next \in Nat /\ records[i].buffer \in Seq(Event)
  BY Types DEF Draws, Record
<1>11. /\ wire'[i] = wire[i] /\ Published(i)' = Published(i) /\ Base(i)' = Base(i)
       /\ Early(i)' = Early(i)
  <2>1. wire'[i] = wire[i]
    BY <1>2, <1>3
  <2> QED
    BY <1>4, <1>9, <2>1 DEF Early, Published, Base
<1>12. \/ /\ records[i].accepted /\ to.stage = "publish"
          /\ Held(i) = {} /\ Held(i)' = {next}
          /\ Numbered(i)' = Numbered(i) \cup {next}
       \/ /\ ~records[i].accepted /\ to.stage = "done" /\ Held(i)' = Held(i)
          /\ Numbered(i)' = Numbered(i) \cup {next}
  <2>1. CASE records[i].accepted /\ to.stage = "publish"
    <3>1. \A f \in Emissions : ~Publishes(f, i)
      BY <1>9, <2>1 DEF QueueAfter
    <3>2. Held(i) = {} /\ Held(i)' = {next}
      BY <1>3, <1>9, <2>1, <3>1 DEF Held
    <3>3. Range(records'[i].buffer) = Range(records[i].buffer)
      BY <2>1 DEF Draws
    <3> QED
      BY <1>11, <2>1, <3>2, <3>3 DEF Numbered
  <2>2. CASE ~records[i].accepted /\ to.stage = "done"
    <3>1. Held(i)' = Held(i)
      BY <1>9, <2>2 DEF Held
    <3>2. records'[i].buffer = Append(records[i].buffer, next)
      BY <2>2 DEF Draws
    <3>3. Range(records'[i].buffer) = Range(records[i].buffer) \cup {next}
      BY <1>10, <3>2, AppendItems
    <3> HIDE DEF next
    <3> QED
      BY <1>11, <2>2, <3>1, <3>3 DEF Numbered
  <2> QED
    BY <2>1, <2>2 DEF Draws
<1>13. \A x \in Numbered(i) : /\ x \in Event /\ x.number < records[i].next
                              /\ x.phase = Progress
  BY <1>8 DEF NumbersAt, MayDraw
<1>14. Numbered(i)' = Numbered(i) \cup {next}
  BY <1>12
<1> HIDE DEF next
<1>15. NumbersAt(i)'
  <2>1. \A x \in Numbered(i)' :
          /\ x \in Event /\ x.number < records'[i].next
          /\ x.phase # Progress =>
               x.number + 1 = records'[i].next /\ x = next
    <3>1. \A x \in Event : x.number \in Nat
      BY DEF Event
    <3> QED
      BY <1>10, <1>13, <1>14, <3>1
  <2>2. next.phase # Progress => \A f \in Emissions : ~Unnumbered(f, i)'
    BY <1>9 DEF MayDraw, next
  <2> QED
    BY <1>10, <2>1, <2>2 DEF NumbersAt
<1>16. Published(i) \cup Early(i) \subseteq Numbered(i)
  BY DEF Numbered
<1>17. WayAt(i)'
  <2>1. ASSUME NEW f \in Emissions, Publishes(f, i)'
        PROVE  /\ emission'[f].event.number + 1 = records'[i].next
               /\ \A x \in Published(i) \cup Early(i) :
                    x.number < emission'[f].event.number
    <3>1. f = e
      <4>1. CASE records[i].accepted /\ to.stage = "publish"
        BY <1>9, <2>1, <4>1 DEF QueueAfter
      <4>2. CASE ~records[i].accepted /\ to.stage = "done"
        <5>1. CASE f # e
          <6>1. Publishes(f, i)
            BY <1>9, <2>1, <5>1
          <6> QED
            BY <4>2, <6>1 DEF IInv, EmissionsSound, Publishes
        <5> QED
          BY <5>1
      <4> QED
        BY <4>1, <4>2 DEF Draws
    <3>2. emission'[f].event = next
      BY <1>3, <3>1 DEF next
    <3> QED
      BY <1>10, <1>13, <1>16, <3>2
  <2> QED
    BY <1>4, <1>5, <1>8, <1>9, <1>11, <2>1 DEF WayAt
<1>18. WholeAt(i) => WholeAt(i)'
  <2> SUFFICES ASSUME WholeAt(i)
               PROVE  WholeAt(i)'
    OBVIOUS
  <2>1. CASE records[i].accepted /\ Held(i) = {} /\ Held(i)' = {next}
    <3>1. Base(i) \in Nat
      BY <1>3, Types DEF Base
    <3>2. \A t \in Requests : Responds(t, i) => Len(request[t].early) \in Nat
      <4>1. \A t \in Requests : Responds(t, i) => request[t].early \in Seq(Event)
        BY Types DEF Responds
      <4> QED
        BY <4>1, LenProperties
    <3>3. Held(i)' # {}
      BY <2>1
    <3>4. /\ \A n \in 2..Len(wire[i]) : wire[i][n].number = n - 2
          /\ \A t \in Requests : Responds(t, i) =>
               /\ \A n \in DOMAIN request[t].early :
                    request[t].early[n].number = Base(i) + n - 1
               /\ records[i].next = Base(i) + Len(request[t].early)
          /\ (\A t \in Requests : ~Responds(t, i)) => records[i].next = Base(i)
      BY <2>1, <3>1, <3>2 DEF WholeAt
    <3>5. /\ \A t \in Requests : Responds(t, i) =>
               records'[i].next = Base(i) + Len(request[t].early) + 1
          /\ (\A t \in Requests : ~Responds(t, i)) => records'[i].next = Base(i) + 1
      BY <1>10, <3>1, <3>2, <3>4
    <3> QED
      BY <1>4, <1>9, <1>11, <3>3, <3>4, <3>5 DEF WholeAt
  <2>2. CASE ~records[i].accepted
    BY <1>5, <1>11, <2>2 DEF WholeAt
  <2> QED
    BY <1>12, <2>1, <2>2
<1>19. ASSUME i \in Range(handler'.table)
       PROVE  AgreeAt(i)'
  <2>1. AgreeAt(i)
    BY <1>5, <1>8, <1>19
  <2>2. \A x \in Numbered(i)' : x.phase # Progress => records'[i].result = x.phase
    <3>1. next.phase # Progress => records'[i].result = next.phase
      BY <1>19 DEF MayDraw, next
    <3> QED
      BY <1>13, <1>14, <3>1
  <2>3. \A f \in Emissions : Ends(f, i) => emission[f].event \in Event
    BY Types DEF Ends
  <2>4. \A x \in Event : x.phase # None
    BY DEF Event, EventPhases, Terminal, Progress, None
  <2>5. ASSUME NEW f \in Emissions, Ends(f, i)', emission'[f].stage = "number"
        PROVE  records'[i].result = emission'[f].event.phase
    BY <1>5, <1>9, <2>1, <2>3, <2>4, <2>5 DEF AgreeAt
  <2> QED
    BY <2>2, <2>5 DEF AgreeAt
<1>20. Range(handler'.table) \subseteq DOMAIN records
  BY <1>5, HandlerTypes DEF records
<1>21. /\ LocksSound' /\ EndsInTurn' /\ NumbersDrawn' /\ OnTheWay'
       /\ NoneMissing' /\ EventsAgree' /\ NotMadeYet'
  <2>1. PublicationFailed' \/ WholeAt(i)'
    BY <1>3, <1>8, <1>18
  <2> QED
    BY <1>3, <1>5, <1>7, <1>15, <1>17, <1>19, <1>20, <2>1, OneRecord
<1>22. StartsAfresh'
  <2>1. ASSUME ~records[i].accepted, records[i].next = Len(records[i].buffer),
               \A n \in DOMAIN records[i].buffer :
                 records[i].buffer[n].number = n - 1
        PROVE  /\ records'[i].next = Len(records'[i].buffer)
               /\ \A n \in DOMAIN records'[i].buffer :
                    records'[i].buffer[n].number = n - 1
    <3> DEFINE old == records[i].buffer
               new == records'[i].buffer
    <3>1. new = Append(old, next)
      BY <2>1 DEF Draws, next
    <3>2. /\ old \in Seq(Event) /\ Len(old) \in Nat /\ DOMAIN old = 1..Len(old)
      BY <1>10, LenProperties
    <3>3. /\ new \in Seq(Event) /\ Len(new) = Len(old) + 1
          /\ new[Len(old) + 1] = next
          /\ \A n \in DOMAIN old : new[n] = old[n]
      BY <1>10, <3>1, <3>2, AppendItems
    <3>4. DOMAIN new = 1..Len(old) + 1
      BY <3>3, LenProperties
    <3>5. records[i].next = Len(old) /\ \A n \in DOMAIN old : old[n].number = n - 1
      BY <2>1
    <3> HIDE DEF old, new
    <3>6. ASSUME NEW n \in DOMAIN new PROVE new[n].number = n - 1
      <4>1. CASE n = Len(old) + 1
        BY <1>10, <3>2, <3>3, <3>5, <4>1
      <4>2. CASE n # Len(old) + 1
        <5>1. n \in DOMAIN old
          BY <3>2, <3>4, <4>2
        <5> QED
          BY <3>3, <3>5, <5>1
      <4> QED
        BY <4>1, <4>2
    <3>7. records'[i].next = Len(new)
      BY <1>10, <3>3, <3>5
    <3> QED
      BY <3>6, <3>7 DEF new
  <2> QED
    BY <1>2, <1>3, <1>4, <2>1, StartsGo
<1> QED
  BY <1>3, <1>5, <1>21, <1>22 DEF IInv

-----------------------------------------------------------------------------
(* An event is published, or is not.                                       *)

LEMMA PublishedGoes ==
  ASSUME IInv, NEW e \in Emissions, NEW sent \in BOOLEAN, NEW i \in DOMAIN records,
         NEW x, NEW to, NEW queue,
         Publishes(e, i), emission[e].event = x, x \in Event,
         records[i].barrier \in IF sent THEN {"open"} ELSE {"open", "failed"},
         ~PublicationLocked(i),
         wire' = IF sent THEN [wire EXCEPT ![i] = Append(@, x)] ELSE wire,
         LeftBehind(e, i, queue), EmissionGoes(e, i, to, queue),
         to.stage \in {"done", "lost"}, to.stage = "lost" <=> ~sent,
         handler' = handler
  PROVE  IInv'
<1> DEFINE w == wire[i]
           new == wire'[i]
<1>1. /\ emission[e].stage = "publish" /\ to.record = i
      /\ request' = request
  BY DEF Publishes, EmissionGoes
<1>2. /\ records[i].started /\ records[i].accepted
      /\ HandlerSound(handler) /\ i \in Ids
  BY <1>1, Types DEF IInv, EmissionsSound, Publishes
<1>3. /\ LocksAt(i) /\ NumbersAt(i) /\ WayAt(i)
      /\ PublicationFailed \/ WholeAt(i)
      /\ i \in Range(handler.table) => AgreeAt(i)
  BY DEF IInv, LocksSound, NumbersDrawn, OnTheWay, NoneMissing, EventsAgree
<1>4. LeftBehind(e, i, queue)
  OBVIOUS
<1>5. to.stage \in {"done", "lost"}
  OBVIOUS
<1>6. /\ w \in Seq(Event \cup {Response})
      /\ Len(w) \in Nat /\ DOMAIN w = 1..Len(w)
  <2>1. w \in Seq(Event \cup {Response})
    BY <1>2, Types
  <2> QED
    BY <2>1, LenProperties
<1>7. /\ wire' \in [Ids -> Seq(Event \cup {Response})]
      /\ \A j \in Ids \ {i} : wire'[j] = wire[j]
      /\ new = IF sent THEN Append(w, x) ELSE w
  <2>1. wire \in [Ids -> Seq(Event \cup {Response})]
    BY DEF IInv, TypeOK
  <2>2. CASE sent
    <3>1. Append(w, x) \in Seq(Event \cup {Response})
      BY <1>6
    <3> QED
      BY <1>1, <1>2, <2>1, <2>2, <3>1
  <2>3. CASE ~sent
    BY <1>1, <1>2, <2>1, <2>3
  <2> QED
    BY <2>2, <2>3
<1>8. EmitterGoes(i)
  BY <1>2 DEF EmitterGoes, SameEmitter, records
<1>9. EmissionGoes(e, i, to, queue)
  OBVIOUS
<1>10. QueueAfter(e, i, to.stage, queue, queue)
  BY <1>5 DEF QueueAfter
<1>11. TurnKept(e, i, to)
  BY <1>1, <1>5 DEF TurnKept, Ends, records
<1>12. queue \in Seq(Requests \cup Emissions)
  BY <1>2, <1>4, <1>10, QueueAfterFacts
<1>13. /\ TypeOK' /\ RequestsSound' /\ EmissionsSound' /\ OthersStay(e, i)
       /\ emission'[e] = to /\ lock'[i] = queue
       /\ \A j \in DOMAIN records \ {i} : Untouched(j)
       /\ \A j \in Ids \ DOMAIN records : wire'[j] = wire[j] /\ lock'[j] = lock[j]
       /\ PublicationFailed => PublicationFailed'
  <2>1. EmissionMoves(e, i, to, queue)
    BY <1>2, <1>7, <1>8, <1>9, <1>12 DEF EmissionMoves
  <2> QED
    BY <2>1, EmissionFrame
<1>14. LocksAt(i)' /\ TurnAt(i)'
  <2>1. records'[i].accepted = records[i].accepted
    BY <1>1 DEF records
  <2> QED
    BY <1>1, <1>2, <1>4, <1>10, <1>11, <1>13, <2>1, QueueGoes
<1>15. /\ \A t \in Requests : ~Responds(t, i) /\ ~Responds(t, i)'
       /\ \A f \in Emissions : /\ Publishes(f, i) <=> f = e
                               /\ ~Publishes(f, i)'
                               /\ Unnumbered(f, i)' <=> Unnumbered(f, i)
                               /\ Ends(f, i)' <=> Ends(f, i)
                               /\ Ends(f, i) => emission'[f] = emission[f]
  <2>1. \A t \in Requests : ~Responds(t, i) /\ ~Responds(t, i)'
    BY <1>1, <1>13 DEF PublicationLocked, Responds, OthersStay
  <2>2. \A f \in Emissions : Publishes(f, i) <=> f = e
    BY <1>2, <1>3 DEF LocksAt
  <2>3. ~Publishes(e, i)' /\ ~Unnumbered(e, i)' /\ ~Ends(e, i)'
    BY <1>5, <1>13 DEF Publishes, Unnumbered, Ends
  <2>4. ~Unnumbered(e, i) /\ ~Ends(e, i)
    BY <1>1 DEF Unnumbered, Ends
  <2> QED
    BY <1>13, <2>1, <2>2, <2>3, <2>4 DEF OthersStay
<1>16. /\ Early(i) = {} /\ Early(i)' = {} /\ Held(i) = {x} /\ Held(i)' = {}
       /\ Range(records'[i].buffer) = Range(records[i].buffer)
       /\ records'[i] = records[i]
  BY <1>1, <1>2, <1>15 DEF Early, Held, records
<1> HIDE DEF w, new
<1>17. /\ x.number + 1 = records[i].next
       /\ \A y \in Published(i) : y.number < x.number
  BY <1>3 DEF WayAt
<1>18. ASSUME sent
       PROVE  /\ Numbered(i)' \subseteq Numbered(i) /\ NumbersAt(i)' /\ WayAt(i)'
              /\ WholeAt(i) => WholeAt(i)'
  <2>1. /\ new = Append(w, x) /\ w # <<>> /\ records[i].barrier = "open"
    BY <1>1, <1>3, <1>7, <1>18 DEF WayAt, w
  <2>2. /\ Len(new) = Len(w) + 1 /\ new[Len(w) + 1] = x
        /\ \A n \in 1..Len(w) : new[n] = w[n]
        /\ new # <<>> /\ Len(w) >= 1
    <3>0. x \in Event \cup {Response}
      BY <1>6
    <3>1. /\ Len(new) = Len(w) + 1 /\ new[Len(w) + 1] = x
          /\ \A n \in DOMAIN w : new[n] = w[n]
      BY <1>6, <2>1, <3>0, AppendItems
    <3>2. new # <<>> /\ Len(w) # 0
      BY <1>6, <2>1
    <3> QED
      BY <1>6, <3>1, <3>2
  <2>3. Published(i)' = Published(i) \cup {x}
    <3>1. Published(i)' = {new[n] : n \in 2..Len(w) + 1}
            /\ Published(i) = {w[n] : n \in 2..Len(w)}
      BY <2>2 DEF Published, new, w
    <3>2. \A n \in 2..Len(w) + 1 : n \in 2..Len(w) \/ n = Len(w) + 1
      BY <1>6
    <3>3. Len(w) + 1 \in 2..Len(w) + 1 /\ \A n \in 2..Len(w) :
            n \in 2..Len(w) + 1 /\ n \in 1..Len(w)
      BY <1>6, <2>2
    <3> QED
      BY <2>2, <3>1, <3>2, <3>3
  <2>4. Numbered(i)' = Numbered(i)
    BY <1>16, <2>3 DEF Numbered
  <2>5. NumbersAt(i)'
    BY <1>3, <1>15, <1>16, <2>4 DEF NumbersAt
  <2>6. WayAt(i)'
    <3>1. \A m, n \in 2..Len(w) : m < n => w[m].number < w[n].number
      BY <1>3 DEF WayAt, w
    <3>2. \A m \in 2..Len(w) : w[m] \in Published(i)
      BY DEF Published, w
    <3>3. ASSUME NEW m \in 2..Len(new), NEW n \in 2..Len(new), m < n
          PROVE  new[m].number < new[n].number
      <4>1. m \in 2..Len(w) /\ m \in 1..Len(w) /\ new[m] = w[m]
        BY <1>6, <2>2, <3>3
      <4>2. CASE n = Len(w) + 1
        BY <1>17, <2>2, <3>2, <4>1, <4>2
      <4>3. CASE n # Len(w) + 1
        <5>1. n \in 2..Len(w) /\ n \in 1..Len(w) /\ new[n] = w[n]
          BY <1>6, <2>2, <4>3
        <5> QED
          BY <3>1, <3>3, <4>1, <5>1
      <4> QED
        BY <4>2, <4>3
    <3>4. new[1] = Response
      <4>1. w[1] = Response /\ 1 \in 1..Len(w)
        BY <1>3, <1>6, <2>1, <2>2 DEF WayAt, w
      <4> QED
        BY <2>2, <4>1
    <3> QED
      BY <1>2, <1>15, <1>16, <2>1, <2>2, <3>3, <3>4 DEF WayAt, new
  <2>7. WholeAt(i) => WholeAt(i)'
    <3> SUFFICES ASSUME WholeAt(i)
                 PROVE  WholeAt(i)'
      OBVIOUS
    <3>1. /\ \A n \in 2..Len(w) : w[n].number = n - 2
          /\ records[i].next = Base(i) + 1
      BY <1>2, <1>15, <1>16 DEF WholeAt, w
    <3>2. Base(i) = Len(w) - 1 /\ Base(i)' = Len(w)
      BY <1>6, <2>1, <2>2 DEF Base, w, new
    <3>3. x.number = Len(w) - 1
      <4>1. x.number \in Nat
        BY <1>6 DEF Event
      <4> QED
        BY <1>6, <1>17, <3>1, <3>2, <4>1
    <3>4. ASSUME NEW n \in 2..Len(new) PROVE new[n].number = n - 2
      <4>1. CASE n = Len(w) + 1
        BY <1>6, <2>2, <3>3, <4>1
      <4>2. CASE n # Len(w) + 1
        <5>1. n \in 2..Len(w) /\ n \in 1..Len(w)
          BY <1>6, <2>2, <4>2
        <5> QED
          BY <2>2, <3>1, <5>1
      <4> QED
        BY <4>1, <4>2
    <3>5. records'[i].next = Base(i)'
      BY <1>6, <1>16, <3>1, <3>2
    <3>6. records'[i].next = Base(i)' + 0
      BY <1>6, <3>2, <3>5
    <3>7. \A n \in 2..Len(wire'[i]) : wire'[i][n].number = n - 2
      BY <3>4 DEF new
    <3>8. /\ Held(i)' = {} /\ \A t \in Requests : ~Responds(t, i)'
      BY <1>15, <1>16
    <3> QED
      BY <3>6, <3>7, <3>8 DEF WholeAt
  <2>8. Numbered(i)' \subseteq Numbered(i)
    BY <2>4
  <2> QED
    BY <2>5, <2>6, <2>7, <2>8
<1>19. ASSUME ~sent
       PROVE  /\ Numbered(i)' \subseteq Numbered(i) /\ NumbersAt(i)' /\ WayAt(i)'
              /\ PublicationFailed'
  <2>1. new = w /\ Published(i)' = Published(i)
    BY <1>7, <1>19 DEF Published, new, w
  <2>2. Numbered(i)' \subseteq Numbered(i)
    BY <1>16, <2>1 DEF Numbered
  <2>3. NumbersAt(i)'
    BY <1>3, <1>15, <1>16, <2>2 DEF NumbersAt
  <2>4. WayAt(i)'
    BY <1>3, <1>15, <1>16, <2>1 DEF WayAt, new, w
  <2>5. PublicationFailed'
    BY <1>5, <1>13, <1>19 DEF PublicationFailed
  <2> QED
    BY <2>2, <2>3, <2>4, <2>5
<1>20. i \in Range(handler'.table) => AgreeAt(i)'
  <2>1. Numbered(i)' \subseteq Numbered(i)
    BY <1>18, <1>19
  <2> QED
    BY <1>1, <1>3, <1>15, <1>16, <2>1 DEF AgreeAt
<1>21. /\ LocksSound' /\ EndsInTurn' /\ NumbersDrawn' /\ OnTheWay'
       /\ NoneMissing' /\ EventsAgree' /\ NotMadeYet'
  <2>1. PublicationFailed' \/ WholeAt(i)'
    BY <1>3, <1>13, <1>18, <1>19
  <2>2. /\ Range(handler'.table) \subseteq DOMAIN records
        /\ DOMAIN records' = DOMAIN records
    BY <1>1, <1>2, HandlerTypes DEF records
  <2> QED
    BY <1>13, <1>14, <1>18, <1>19, <1>20, <2>1, <2>2, OneRecord
<1>22. StartsAfresh'
  BY <1>1, <1>2, <1>7, <1>8, StartsGo
<1> QED
  BY <1>1, <1>2, <1>13, <1>21, <1>22 DEF IInv

LEMMA PublishLateStep ==
  ASSUME IInv, NEW e \in Emissions, NEW sent \in BOOLEAN, PublishLate(e, sent)
  PROVE  IInv'
<1> DEFINE i == emission[e].record
           x == emission[e].event
           to == [emission[e] EXCEPT !.stage = IF sent THEN "done" ELSE "lost"]
           queue == Tail(lock[i])
<1>1. /\ emission[e].stage = "publish"
      /\ records[i].barrier \in IF sent THEN {"open"} ELSE {"open", "failed"}
      /\ ~PublicationLocked(i)
      /\ wire' = IF sent THEN [wire EXCEPT ![i] = Append(@, x)] ELSE wire
      /\ handler' = handler
  BY DEF PublishLate
<1>2. /\ i \in DOMAIN records /\ Publishes(e, i) /\ x \in Event
      /\ emission[e].event = x
  BY <1>1, Types DEF IInv, EmissionsSound, Publishes
<1>3. to \in EmissionStates /\ to.record = i /\ to.stage = IF sent THEN "done" ELSE "lost"
  <2>1. emission[e] \in EmissionStates
    BY DEF IInv, TypeOK
  <2> QED
    BY <1>1, <2>1 DEF EmissionStates
<1>4. EmissionGoes(e, i, to, queue)
  <2>1. /\ emission' = [emission EXCEPT ![e] = to]
        /\ lock' = [lock EXCEPT ![i] = queue] /\ request' = request
    BY Types DEF PublishLate
  <2> HIDE DEF to
  <2> QED
    BY <1>1, <1>3, <2>1 DEF EmissionGoes
<1>5. LeftBehind(e, i, queue)
  <2>1. Queued(e, i)
    BY <1>2 DEF Publishes, Queued
  <2>2. LocksAt(i)
    BY <1>2 DEF IInv, LocksSound
  <2> QED
    BY <1>2, <2>1, <2>2 DEF LeftBehind, LocksAt
<1>6. to.stage \in {"done", "lost"} /\ (to.stage = "lost" <=> ~sent)
  BY <1>3
<1> HIDE DEF i, x, to, queue
<1> QED
  BY <1>1, <1>2, <1>4, <1>5, <1>6, PublishedGoes

-----------------------------------------------------------------------------
(* The operators of an emission that has the lock.                         *)

\* The handler is g, which may know more, and no emitter changes.
LEMMA EmitterKept ==
  ASSUME IInv, NEW i \in DOMAIN records, NEW g, HandlerSound(g), Extends(handler, g),
         Len(g.records) = Len(records), handler' = g
  PROVE  /\ EmitterGoes(i) /\ SameEmitter(records[i], records'[i])
         /\ DOMAIN g.records = DOMAIN records
<1>1. /\ DOMAIN records = 1..Len(records) /\ DOMAIN g.records = 1..Len(g.records)
  BY Types, HandlerTypes
<1>2. DOMAIN g.records = DOMAIN records
  BY <1>1
<1>3. /\ HandlerSound(handler') /\ Len(records') = Len(records)
      /\ DOMAIN records' = DOMAIN records
  BY <1>2 DEF records
<1>4. Range(g.table) \subseteq DOMAIN g.records
  BY HandlerTypes
<1>5. \A j \in DOMAIN records :
        /\ SameEmitter(records[j], records'[j])
        /\ records[j].started => records'[j].ready = records[j].ready
        /\ records[j].ready => records'[j].ready
        /\ records[j].result # None => records'[j].result = records[j].result
  BY DEF Extends, records
<1>6. Range(handler'.table) \subseteq Range(handler.table)
  BY <1>2, <1>4 DEF Extends, records
<1>7. EmitterGoes(i)
  BY <1>3, <1>5, <1>6 DEF EmitterGoes, SameEmitter
<1> QED
  BY <1>2, <1>5, <1>7

\* The handler is g but for the emitter of record i.
LEMMA EmitterUpdated ==
  ASSUME IInv, NEW i \in DOMAIN records, NEW g, HandlerSound(g), Extends(handler, g),
         Len(g.records) = Len(records), NEW new \in Record,
         SameOutcome(g.records[i], new), new.accepted = g.records[i].accepted,
         new.barrier = g.records[i].barrier, g.records[i].closed => new.closed,
         handler' = Replaced(g, i, new)
  PROVE  /\ EmitterGoes(i) /\ records'[i] = new /\ g.records[i].result = new.result
<1>1. /\ DOMAIN records = 1..Len(records) /\ DOMAIN g.records = 1..Len(g.records)
  BY Types, HandlerTypes
<1>2. DOMAIN g.records = DOMAIN records
  BY <1>1
<1>3. /\ HandlerSound(handler') /\ Len(handler'.records) = Len(g.records)
      /\ DOMAIN handler'.records = DOMAIN g.records /\ handler'.table = g.table
      /\ handler'.records[i] = new
      /\ \A j \in DOMAIN g.records : j # i => handler'.records[j] = g.records[j]
  <2> DEFINE f == Replaced(g, i, new)
  <2>1. i \in DOMAIN g.records
    BY <1>2
  <2>2. /\ HandlerSound(f) /\ Len(f.records) = Len(g.records)
        /\ DOMAIN f.records = DOMAIN g.records /\ f.table = g.table
        /\ f.records[i] = new
        /\ \A j \in DOMAIN g.records : j # i => f.records[j] = g.records[j]
    BY <2>1, EmitterChanged
  <2>3. handler' = f
    OBVIOUS
  <2> HIDE DEF f
  <2> QED
    BY <2>2, <2>3
<1>4. \A j \in DOMAIN records :
        /\ SameEmitter(records[j], g.records[j])
        /\ records[j].started => g.records[j].ready = records[j].ready
        /\ records[j].ready => g.records[j].ready
        /\ records[j].result # None => g.records[j].result = records[j].result
  BY DEF Extends, records
<1>5. Range(handler'.table) \subseteq Range(handler.table)
  <2>1. Range(g.table) \subseteq DOMAIN g.records
    BY HandlerTypes
  <2> QED
    BY <1>2, <1>3, <2>1 DEF Extends, records
<1>6. ASSUME NEW j \in DOMAIN records
      PROVE  /\ records'[j].started = records[j].started
             /\ records'[j].accepted = records[j].accepted
             /\ records'[j].barrier = records[j].barrier
             /\ records[j].started => records'[j].ready = records[j].ready
             /\ records[j].ready => records'[j].ready
             /\ records[j].result # None => records'[j].result = records[j].result
             /\ j # i => SameEmitter(records[j], records'[j])
  <2>1. CASE j = i
    BY <1>3, <1>4, <2>1 DEF SameOutcome, SameEmitter, records
  <2>2. CASE j # i
    BY <1>2, <1>3, <1>4, <2>2 DEF SameEmitter, records
  <2> QED
    BY <2>1, <2>2
<1>7. records[i].closed => records'[i].closed
  BY <1>3, <1>4 DEF SameEmitter, records
<1>8. EmitterGoes(i)
  BY <1>2, <1>3, <1>5, <1>6, <1>7 DEF EmitterGoes, records
<1> QED
  BY <1>3, <1>8 DEF SameOutcome, records

\* Emission e, of this event of record i, acts on handler g when it has the
\* lock or needs none; rest are those who wait.
Acts(e, i, event, g, rest) ==
  /\ HandlerSound(g) /\ Extends(handler, g) /\ Len(g.records) = Len(records)
  /\ records[i].started /\ event \in Event
  /\ \/ emission[e].stage = "idle"
     \/ /\ emission[e].stage \in {"enter", "number", "clear", "establish"}
        /\ emission[e].record = i /\ emission[e].event = event
  /\ LeftBehind(e, i, rest) /\ wire' = wire /\ request' = request

To(i, event, stage) == [stage |-> stage, record |-> i, event |-> event]

LEMMA ActsGoes ==
  ASSUME IInv, NEW e \in Emissions, NEW i \in DOMAIN records, NEW event,
         NEW g, NEW rest, Acts(e, i, event, g, rest),
         NEW h, NEW next \in Event, NEW stage, NEW queue,
         Proceed(h, e, i, next, stage, queue),
         stage \in {"enter", "establish", "clear", "number", "publish", "done",
                    "refused"},
         stage \in {"establish", "clear"} => next.phase # Progress,
         stage = "publish" => records[i].accepted
  PROVE  /\ EmissionGoes(e, i, To(i, next, stage), queue) /\ handler' = h
         /\ To(i, next, stage).stage = stage /\ To(i, next, stage).event = next
<1>1. i \in Ids
  BY Types
<1>2. To(i, next, stage) \in EmissionStates
  BY <1>1 DEF To, EmissionStates
<1>3. /\ To(i, next, stage).stage = stage /\ To(i, next, stage).event = next
      /\ To(i, next, stage).record = i
  BY DEF To
<1>4. /\ emission' = [emission EXCEPT ![e] = To(i, next, stage)]
      /\ lock' = [lock EXCEPT ![i] = queue] /\ handler' = h
  BY DEF Proceed, To
<1>5. /\ request' = request /\ emission[e].stage # "lost"
      /\ emission[e].stage = "idle" \/ emission[e].record = i
  BY DEF Acts
<1> QED
  BY <1>2, <1>3, <1>4, <1>5 DEF EmissionGoes

\* No emitter changes: the emission waits for its turn, or is refused.
LEMMA WaitsStep ==
  ASSUME IInv, NEW e \in Emissions, NEW i \in DOMAIN records, NEW event,
         NEW g, NEW rest, Acts(e, i, event, g, rest), NEW stage, NEW queue,
         Proceed(g, e, i, event, stage, queue), QueueAfter(e, i, stage, rest, queue),
         stage \in {"enter", "number", "clear", "refused"},
         stage = "clear" => Ends(e, i) /\ event.phase # Progress,
         stage = "number" /\ event.phase = Progress =>
           ~records[i].pending /\ ~records[i].closed,
         stage = "number" /\ event.phase # Progress =>
           /\ Ends(e, i) /\ Unnumbered(e, i)
           /\ i \in Range(g.table) => g.records[i].result = event.phase
  PROVE  IInv'
<1> DEFINE to == To(i, event, stage)
<1>1. event \in Event
  BY DEF Acts
<1>2. /\ EmissionGoes(e, i, to, queue) /\ handler' = g
      /\ to.stage = stage /\ to.event = event
  BY <1>1, ActsGoes
<1>3. EmitterGoes(i) /\ SameEmitter(records[i], records'[i])
  BY <1>2, EmitterKept DEF Acts
<1> HIDE DEF to
<1>4. /\ records[i].started /\ wire' = wire /\ LeftBehind(e, i, rest)
      /\ emission[e].stage # "publish"
  BY DEF Acts
<1>5. records'[i].next = records[i].next /\ records'[i].buffer = records[i].buffer
  BY <1>3 DEF SameEmitter
<1>6. TurnKept(e, i, to)
  <2>1. Ends(e, i) => records[i].pending
    BY DEF IInv, EndsInTurn, TurnAt
  <2> QED
    BY <1>2, <1>3, <2>1 DEF TurnKept, SameEmitter
<1>7. MoveKept(e, i, to)
  BY <1>2, <1>4 DEF MoveKept, records
<1>8. QueueAfter(e, i, to.stage, rest, queue)
  BY <1>2
<1> QED
  BY <1>2, <1>3, <1>4, <1>5, <1>6, <1>7, <1>8, MoveGoes

\* The mark of a terminal event is set or taken back.
LEMMA MarkedStep ==
  ASSUME IInv, NEW e \in Emissions, NEW i \in DOMAIN records, NEW event,
         NEW g, NEW rest, Acts(e, i, event, g, rest), NEW stage, NEW mark \in BOOLEAN,
         Proceed([g EXCEPT !.records[i].pending = mark], e, i, event, stage, rest),
         \/ stage = "refused" /\ mark = FALSE /\ (Ends(e, i) \/ ~records[i].pending)
         \/ /\ stage = "establish" /\ mark = TRUE /\ event.phase # Progress
            /\ ~records[i].pending /\ ~records[i].closed
  PROVE  IInv'
<1> DEFINE to == To(i, event, stage)
           old == g.records[i]
           new == [old EXCEPT !.pending = mark]
<1>1. /\ HandlerSound(g) /\ Extends(handler, g) /\ Len(g.records) = Len(records)
      /\ records[i].started /\ wire' = wire /\ LeftBehind(e, i, rest)
      /\ emission[e].stage # "publish" /\ event \in Event
  BY DEF Acts
<1>2. /\ EmissionGoes(e, i, to, rest)
      /\ handler' = [g EXCEPT !.records[i].pending = mark]
      /\ to.stage = stage /\ to.event = event
  BY <1>1, ActsGoes
<1>3. handler' = Replaced(g, i, new)
  BY <1>2 DEF Replaced
<1>4. old \in Record /\ SameEmitter(records[i], old)
  <2>1. DOMAIN records = 1..Len(records) /\ DOMAIN g.records = 1..Len(g.records)
    BY <1>1, Types, HandlerTypes
  <2>2. g.records \in Seq(Record) /\ i \in DOMAIN g.records
    BY <1>1, <2>1, HandlerTypes
  <2> QED
    BY <1>1, <2>2, ElementOfSeq DEF Extends, records
<1>5. /\ new \in Record /\ SameOutcome(old, new) /\ new.next = old.next
      /\ new.buffer = old.buffer /\ new.accepted = old.accepted
      /\ new.closed = old.closed /\ new.pending = mark
      /\ new.barrier = old.barrier
  BY <1>4 DEF Record, SameOutcome
<1> HIDE DEF new, to
<1>6. EmitterGoes(i) /\ records'[i] = new
  BY <1>1, <1>3, <1>5, EmitterUpdated
<1>7. records'[i].next = records[i].next /\ records'[i].buffer = records[i].buffer
  BY <1>4, <1>5, <1>6 DEF SameEmitter
<1>8. TurnKept(e, i, to)
  <2>1. records'[i].pending = mark /\ records[i].pending \in BOOLEAN
    BY <1>5, <1>6, Types DEF Record
  <2>2. CASE stage = "refused" /\ mark = FALSE /\ (Ends(e, i) \/ ~records[i].pending)
    <3>1. records'[i].pending = records[i].pending \/ Ends(e, i)
      BY <2>1, <2>2, Zenon
    <3> QED
      BY <1>2, <2>2, <3>1 DEF TurnKept
  <2>3. CASE /\ stage = "establish" /\ mark = TRUE /\ event.phase # Progress
             /\ ~records[i].pending /\ ~records[i].closed
    BY <1>2, <2>1, <2>3 DEF TurnKept
  <2> QED
    BY <2>2, <2>3
<1>9. MoveKept(e, i, to)
  BY <1>1, <1>2 DEF MoveKept
<1>10. QueueAfter(e, i, to.stage, rest, rest)
  BY <1>2 DEF QueueAfter
<1> QED
  BY <1>1, <1>2, <1>6, <1>7, <1>8, <1>9, <1>10, MoveGoes

\* What allows this event to be given its number with handler g.
NumberDue(e, i, event, g) ==
  /\ Unnumbered(e, i) \/ ~records[i].closed
  /\ event.phase # Progress =>
       /\ Ends(e, i) /\ \A f \in Emissions \ {e} : ~Unnumbered(f, i)
       /\ i \in Range(g.table) => g.records[i].result = event.phase
  /\ event.phase = Progress /\ ~records[i].accepted => ~records[i].pending
  /\ \A f \in Emissions : Publishes(f, i) => f = e

LEMMA NumberStep ==
  ASSUME IInv, NEW e \in Emissions, NEW i \in DOMAIN records, NEW event,
         NEW g, NEW rest, Acts(e, i, event, g, rest),
         NumberDue(e, i, event, g), Number(g, e, i, event, rest)
  PROVE  IInv'
<1> DEFINE old == g.records[i]
           ends == event.phase # Progress
           next == [event EXCEPT !.number = old.next]
           numbered == [old EXCEPT !.next = @ + 1, !.closed = @ \/ ends,
                                   !.pending = @ /\ ~ends]
           buffered == [numbered EXCEPT !.buffer = Append(@, next)]
<1>0. /\ old.accepted =>
           Proceed(Replaced(g, i, numbered), e, i, next, "publish", <<e>> \o rest)
      /\ ~old.accepted /\ Len(old.buffer) < MaxEarly
           /\ ~(Len(old.buffer) >= MaxEarly) =>
           Proceed(Replaced(g, i, buffered), e, i, next, "done", rest)
      /\ ~old.accepted /\ ~(Len(old.buffer) < MaxEarly)
           /\ Len(old.buffer) >= MaxEarly => Clear(g, e, i, event, rest)
  <2> DEFINE A == old.accepted
             B == Len(old.buffer) < MaxEarly
             C == Len(old.buffer) >= MaxEarly
             P == Proceed(Replaced(g, i, numbered), e, i, next, "publish",
                          <<e>> \o rest)
             Q == Proceed(Replaced(g, i, buffered), e, i, next, "done", rest)
             R == Clear(g, e, i, event, rest)
  <2>1. (CASE A -> P [] ~A /\ B -> Q [] ~A /\ C -> R)
    BY DEF Number, Replaced
  <2> HIDE DEF A, B, C, P, Q, R
  <2>2. ASSUME A PROVE P
    BY <2>1, <2>2
  <2>3. ASSUME ~A, B, ~C PROVE Q
    BY <2>1, <2>3
  <2>4. ASSUME ~A, ~B, C PROVE R
    BY <2>1, <2>4
  <2> QED
    BY <2>2, <2>3, <2>4 DEF A, B, C, P, Q, R
<1>1. /\ HandlerSound(g) /\ Extends(handler, g) /\ Len(g.records) = Len(records)
      /\ records[i].started /\ wire' = wire /\ LeftBehind(e, i, rest)
      /\ emission[e].stage # "publish" /\ event \in Event
  BY DEF Acts
<1>2. /\ old \in Record /\ records[i] \in Record /\ SameEmitter(records[i], old)
      /\ DOMAIN g.records = DOMAIN records
  <2>1. DOMAIN records = 1..Len(records) /\ DOMAIN g.records = 1..Len(g.records)
    BY <1>1, Types, HandlerTypes
  <2>2. g.records \in Seq(Record) /\ i \in DOMAIN g.records
    BY <1>1, <2>1, HandlerTypes
  <2> QED
    BY <1>1, <2>1, <2>2, Types, ElementOfSeq DEF Extends, records
<1>3. /\ next \in Event /\ next.number = old.next /\ next.phase = event.phase
      /\ old.next \in Nat /\ old.buffer \in Seq(Event)
  BY <1>1, <1>2 DEF Event, Record
<1> HIDE DEF next
<1>4. ends \in BOOLEAN /\ old.closed \in BOOLEAN /\ old.pending \in BOOLEAN
  BY <1>2 DEF Record
<1>5. /\ numbered \in Record /\ SameOutcome(old, numbered)
      /\ numbered.next = old.next + 1 /\ numbered.buffer = old.buffer
      /\ numbered.accepted = old.accepted /\ numbered.barrier = old.barrier
      /\ old.closed => numbered.closed
      /\ ends => numbered.closed
      /\ numbered.pending = (old.pending /\ ~ends)
  <2>1. (old.closed \/ ends) \in BOOLEAN /\ (old.pending /\ ~ends) \in BOOLEAN
    BY <1>4
  <2>2. PICK c, p : /\ c = (old.closed \/ ends) /\ p = (old.pending /\ ~ends)
                    /\ c \in BOOLEAN /\ p \in BOOLEAN
    BY <2>1
  <2>3. numbered = [old EXCEPT !.next = @ + 1, !.closed = c, !.pending = p]
    BY <2>2
  <2>4. old.closed \/ ends => c
    BY <2>2
  <2> DEFINE n == [old EXCEPT !.next = @ + 1, !.closed = c, !.pending = p]
  <2>5. /\ n \in Record /\ SameOutcome(old, n)
        /\ n.next = old.next + 1 /\ n.buffer = old.buffer
        /\ n.accepted = old.accepted /\ n.barrier = old.barrier
        /\ n.closed = c /\ n.pending = p
    <3>1. /\ old \in Record /\ old.next + 1 \in Nat
          /\ c \in BOOLEAN /\ p \in BOOLEAN
          /\ n = [old EXCEPT !.next = old.next + 1, !.closed = c, !.pending = p]
      BY <1>2, <1>3, <2>2
    <3> HIDE DEF old, n
    <3>2. PICK n1, n2 : /\ n1 = [old EXCEPT !.next = old.next + 1]
                        /\ n2 = [n1 EXCEPT !.closed = c]
      OBVIOUS
    <3>3. /\ n1 \in Record /\ SameOutcome(old, n1) /\ n1.next = old.next + 1
          /\ n1.buffer = old.buffer /\ n1.accepted = old.accepted
          /\ n1.barrier = old.barrier /\ n1.pending = old.pending
      BY <3>1, <3>2 DEF Record, SameOutcome
    <3>4. /\ n2 \in Record /\ SameOutcome(n1, n2) /\ n2.next = n1.next
          /\ n2.buffer = n1.buffer /\ n2.accepted = n1.accepted
          /\ n2.barrier = n1.barrier /\ n2.closed = c
      BY <3>1, <3>2, <3>3 DEF Record, SameOutcome
    <3>5. n = [n2 EXCEPT !.pending = p]
      BY <3>1, <3>2
    <3>6. /\ n \in Record /\ SameOutcome(n2, n) /\ n.next = n2.next
          /\ n.buffer = n2.buffer /\ n.accepted = n2.accepted
          /\ n.barrier = n2.barrier /\ n.closed = c /\ n.pending = p
      BY <3>1, <3>4, <3>5 DEF Record, SameOutcome
    <3> QED
      BY <3>3, <3>4, <3>6 DEF SameOutcome
  <2> HIDE DEF n, numbered, ends
  <2>6. numbered = n
    BY <2>3 DEF n
  <2> QED
    BY <2>2, <2>4, <2>5, <2>6
<1> HIDE DEF numbered
<1>6. /\ buffered \in Record /\ SameOutcome(old, buffered)
      /\ buffered.next = old.next + 1 /\ buffered.buffer = Append(old.buffer, next)
      /\ buffered.accepted = old.accepted /\ buffered.barrier = old.barrier
      /\ old.closed => buffered.closed
      /\ ends => buffered.closed
      /\ buffered.pending = (old.pending /\ ~ends)
  <2>1. Append(numbered.buffer, next) \in Seq(Event)
    BY <1>3, <1>5
  <2>2. /\ buffered \in Record /\ SameOutcome(numbered, buffered)
        /\ buffered.next = numbered.next
        /\ buffered.buffer = Append(numbered.buffer, next)
        /\ buffered.accepted = numbered.accepted
        /\ buffered.barrier = numbered.barrier
        /\ buffered.closed = numbered.closed /\ buffered.pending = numbered.pending
    BY <1>5, <2>1 DEF Record, SameOutcome
  <2> HIDE DEF buffered, ends
  <2> QED
    BY <1>5, <2>2 DEF SameOutcome
<1>7. /\ Unnumbered(e, i) \/ ~records[i].closed
      /\ ends => /\ Ends(e, i) /\ \A f \in Emissions \ {e} : ~Unnumbered(f, i)
                 /\ i \in Range(g.table) => old.result = event.phase
      /\ ~ends /\ ~records[i].accepted => ~records[i].pending
      /\ \A f \in Emissions : Publishes(f, i) => f = e
  BY DEF NumberDue
<1> HIDE DEF buffered
<1>8. ASSUME NEW new \in {numbered, buffered}, NEW stage, NEW queue,
             Proceed(Replaced(g, i, new), e, i, next, stage, queue),
             QueueAfter(e, i, stage, rest, queue),
             \/ old.accepted /\ stage = "publish" /\ new = numbered
             \/ ~old.accepted /\ stage = "done" /\ new = buffered
      PROVE  IInv'
  <2> DEFINE to == To(i, next, stage)
  <2>1. records[i].accepted = old.accepted
    BY <1>2 DEF SameEmitter
  <2>2. /\ EmissionGoes(e, i, to, queue) /\ handler' = Replaced(g, i, new)
        /\ to.stage = stage /\ to.event = next
    <3>1. /\ stage \in {"publish", "done"}
          /\ stage = "publish" => records[i].accepted
      BY <1>8, <2>1
    <3> QED
      BY <1>3, <1>8, <3>1, ActsGoes
  <2> HIDE DEF to
  <2>3. /\ new \in Record /\ SameOutcome(old, new) /\ new.next = old.next + 1
        /\ new.accepted = old.accepted /\ new.barrier = old.barrier
        /\ old.closed => new.closed
        /\ ends => new.closed
        /\ new.pending = (old.pending /\ ~ends)
    BY <1>5, <1>6
  <2>4. EmitterGoes(i) /\ records'[i] = new /\ old.result = new.result
    BY <1>1, <2>2, <2>3, EmitterUpdated
  <2>5. MayDraw(e, i, to.event.phase)
    <3>1. i \in Range(handler'.table) => i \in Range(g.table)
      BY <2>2 DEF Replaced
    <3>2. to.event.phase = event.phase
      BY <1>3, <2>2
    <3> QED
      BY <1>1, <1>7, <2>4, <3>1, <3>2 DEF MayDraw
  <2>6. Draws(e, i, to)
    <3>1. /\ to.event = next /\ next.phase = event.phase
          /\ next.number = records[i].next /\ next \in Event
          /\ records'[i].next = records[i].next + 1
      BY <1>2, <1>3, <2>2, <2>3, <2>4 DEF SameEmitter
    <3>2. records'[i].pending = (records[i].pending /\ to.event.phase = Progress)
      <4>1. records[i].pending = old.pending /\ records'[i].pending = new.pending
        BY <1>2, <2>4 DEF SameEmitter
      <4>2. new.pending = (old.pending /\ event.phase = Progress)
        BY <2>3
      <4>3. to.event.phase = event.phase
        BY <3>1
      <4> QED
        BY <4>1, <4>2, <4>3
    <3>3. \/ /\ records[i].accepted /\ to.stage = "publish"
             /\ records'[i].buffer = records[i].buffer
          \/ /\ ~records[i].accepted /\ to.stage = "done"
             /\ records'[i].buffer = Append(records[i].buffer, to.event)
      BY <1>2, <1>5, <1>6, <1>8, <2>1, <2>2, <2>4 DEF SameEmitter
    <3>4. to.event.phase # Progress => records'[i].closed
      BY <2>3, <2>4, <3>1
    <3> QED
      BY <3>1, <3>2, <3>3, <3>4 DEF Draws
  <2>7. QueueAfter(e, i, to.stage, rest, queue)
    BY <1>8, <2>2
  <2> QED
    BY <1>1, <2>2, <2>4, <2>5, <2>6, <2>7, DrawGoes
<1>9. CASE old.accepted
  <2>1. Proceed(Replaced(g, i, numbered), e, i, next, "publish", <<e>> \o rest)
    BY <1>0, <1>9
  <2>2. QueueAfter(e, i, "publish", rest, <<e>> \o rest)
    BY <1>2, <1>7, <1>9 DEF QueueAfter, SameEmitter
  <2>3. numbered \in {numbered, buffered}
    OBVIOUS
  <2> HIDE DEF old
  <2> QED
    BY <1>8, <1>9, <2>1, <2>2, <2>3
<1>10. CASE ~old.accepted /\ Len(old.buffer) < MaxEarly
  <2>1. Proceed(Replaced(g, i, buffered), e, i, next, "done", rest)
    <3>1. ~(Len(old.buffer) >= MaxEarly)
      <4> DEFINE n == Len(old.buffer)
      <4>1. n \in Nat /\ n < MaxEarly /\ MaxEarly \in Nat
        BY <1>3, <1>10, LenProperties, ExecutionsAssumption
      <4> HIDE DEF n
      <4>2. ~(n >= MaxEarly)
        BY <4>1
      <4> QED
        BY <4>2 DEF n
    <3> QED
      BY <1>0, <1>10, <3>1
  <2>2. QueueAfter(e, i, "done", rest, rest)
    BY DEF QueueAfter
  <2> QED
    BY <1>8, <1>10, <2>1, <2>2
<1>11. CASE ~old.accepted /\ ~(Len(old.buffer) < MaxEarly)
  <2>1. Clear(g, e, i, event, rest)
    <3>1. Len(old.buffer) >= MaxEarly
      BY <1>3, <1>11, LenProperties, ExecutionsAssumption
    <3> QED
      BY <1>0, <1>11, <3>1
  <2>2. Ends(e, i) \/ ~records[i].pending
    BY <1>2, <1>7, <1>11 DEF SameEmitter
  <2>3. Proceed([g EXCEPT !.records[i].pending = FALSE], e, i, event, "refused", rest)
    BY <2>1 DEF Clear
  <2> QED
    BY <2>2, <2>3, MarkedStep
<1> QED
  BY <1>9, <1>10, <1>11

LEMMA ThenNumberStep ==
  ASSUME IInv, NEW e \in Emissions, NEW i \in DOMAIN records, NEW event,
         NEW g, NEW rest, Acts(e, i, event, g, rest),
         ThenNumber(g, e, i, event, rest),
         event.phase = Progress => ~records[i].pending /\ ~records[i].closed,
         event.phase # Progress =>
           /\ emission[e].stage = "establish"
           /\ i \in Range(g.table) => g.records[i].result = event.phase
  PROVE  IInv'
<1>1. /\ LeftBehind(e, i, rest)
      /\ event.phase # Progress => Ends(e, i) /\ Unnumbered(e, i)
  BY DEF Acts, Ends, Unnumbered
<1>2. CASE rest = <<>>
  <2>1. /\ \A f \in Emissions : Queued(f, i) /\ f # e => f \in Range(rest)
        /\ \A f \in Emissions : Publishes(f, i) /\ f # e => rest # <<>>
    BY <1>1, RestFacts
  <2>2. Range(rest) = {}
    BY <1>2 DEF Range
  <2>3. ASSUME NEW f \in Emissions \ {e}, event.phase # Progress
        PROVE  ~Unnumbered(f, i)
    <3>1. ~Queued(f, i)
      BY <2>1, <2>2
    <3>2. Unnumbered(f, i) => Ends(f, i)
      BY <3>1 DEF Unnumbered, Queued, Ends, IInv, EmissionsSound
    <3>3. Ends(f, i) => f = e
      BY <1>1, <2>3 DEF IInv, EndsInTurn, TurnAt
    <3> QED
      BY <3>2, <3>3
  <2>4. NumberDue(e, i, event, g)
    BY <1>1, <1>2, <2>1, <2>3 DEF NumberDue
  <2> QED
    BY <1>2, <2>4, NumberStep DEF ThenNumber
<1>3. CASE rest # <<>>
  <2>1. Proceed(g, e, i, event, "number", Append(rest, e))
    BY <1>3 DEF ThenNumber
  <2>2. QueueAfter(e, i, "number", rest, Append(rest, e))
    BY <1>3 DEF QueueAfter
  <2> QED
    BY <1>1, <2>1, <2>2, WaitsStep
<1> QED
  BY <1>2, <1>3

LEMMA EnterStep ==
  ASSUME IInv, NEW e \in Emissions, NEW i \in DOMAIN records, NEW event,
         NEW rest, Acts(e, i, event, handler, rest), Enter(e, i, event, rest)
  PROVE  IInv'
<1>1. CASE ~MayEnter(records[i])
  <2>1. Proceed(handler, e, i, event, "refused", rest)
    BY <1>1 DEF Enter
  <2>2. QueueAfter(e, i, "refused", rest, rest)
    BY DEF QueueAfter
  <2> QED
    BY <2>1, <2>2, WaitsStep
<1>2. CASE MayEnter(records[i]) /\ event.phase = Progress
  <2>1. ThenNumber(handler, e, i, event, rest)
    BY <1>2 DEF Enter
  <2>2. ~records[i].pending /\ ~records[i].closed
    BY <1>2 DEF MayEnter
  <2> QED
    BY <1>2, <2>1, <2>2, ThenNumberStep
<1>3. CASE MayEnter(records[i]) /\ event.phase # Progress
  <2>1. Proceed([handler EXCEPT !.records[i].pending = TRUE], e, i, event,
                "establish", rest)
    BY <1>3 DEF Enter
  <2>2. ~records[i].pending /\ ~records[i].closed
    BY <1>3 DEF MayEnter
  <2> QED
    BY <1>3, <2>1, <2>2, MarkedStep
<1> QED
  BY <1>1, <1>2, <1>3

LEMMA EmitStep ==
  ASSUME IInv, NEW e \in Emissions, NEW i \in DOMAIN records,
         NEW phase \in EventPhases \cup {Progress}, Emit(e, i, phase)
  PROVE  IInv'
<1> DEFINE event == [number |-> 0, phase |-> phase]
<1>1. /\ emission[e].stage = "idle" /\ records[i].started /\ event \in Event
      /\ request' = request /\ wire' = wire
  BY DEF Emit, Idle, Event
<1>2. Acts(e, i, event, handler, lock[i])
  <2>1. ~Queued(e, i)
    BY <1>1 DEF Queued
  <2>2. Extends(handler, handler)
    BY SameRecordsExtend
  <2>3. HandlerSound(handler)
    BY DEF IInv
  <2> HIDE DEF event
  <2> QED
    BY <1>1, <2>1, <2>2, <2>3 DEF Acts, LeftBehind, records
<1>3. CASE lock[i] = <<>>
  <2>1. Enter(e, i, event, lock[i])
    BY <1>3 DEF Emit
  <2> HIDE DEF event
  <2> QED
    BY <1>2, <2>1, EnterStep
<1>4. CASE lock[i] # <<>>
  <2>1. Proceed(handler, e, i, event, "enter", Append(lock[i], e))
    BY <1>4 DEF Emit
  <2>2. QueueAfter(e, i, "enter", lock[i], Append(lock[i], e))
    BY <1>4 DEF QueueAfter
  <2> HIDE DEF event
  <2> QED
    BY <1>2, <2>1, <2>2, WaitsStep
<1> QED
  BY <1>3, <1>4

LEMMA ResumeStep ==
  ASSUME IInv, NEW e \in Emissions, Resume(e)
  PROVE  IInv'
<1> DEFINE i == emission[e].record
           event == emission[e].event
           rest == Tail(lock[i])
<1>1. /\ emission[e].stage \in {"enter", "number", "clear"} /\ Head(lock[i]) = e
      /\ request' = request /\ wire' = wire
      /\ emission[e].stage = "enter" => Enter(e, i, event, rest)
      /\ emission[e].stage = "number" => Number(handler, e, i, event, rest)
      /\ emission[e].stage = "clear" => Clear(handler, e, i, event, rest)
  BY DEF Resume
<1>2. /\ i \in DOMAIN records /\ records[i].started /\ event \in Event
      /\ Queued(e, i) /\ emission[e].record = i /\ emission[e].event = event
      /\ emission[e].stage = "clear" => event.phase # Progress
  BY <1>1, Types DEF IInv, EmissionsSound, Queued
<1> HIDE DEF i, event
<1>3. Acts(e, i, event, handler, rest)
  <2>1. LeftBehind(e, i, rest)
    BY <1>1, <1>2 DEF LeftBehind
  <2>2. Extends(handler, handler)
    BY SameRecordsExtend
  <2>3. HandlerSound(handler)
    BY DEF IInv
  <2> HIDE DEF rest
  <2> QED
    BY <1>1, <1>2, <2>1, <2>2, <2>3 DEF Acts, records
<1>4. LocksAt(i) /\ TurnAt(i) /\ lock[i] \in Seq(Requests \cup Emissions)
  BY <1>2, Types DEF IInv, LocksSound, EndsInTurn
<1> HIDE DEF rest
<1>5. CASE emission[e].stage = "enter"
  BY <1>1, <1>2, <1>3, <1>5, EnterStep
<1>6. CASE emission[e].stage = "number"
  <2>1. Unnumbered(e, i) /\ (event.phase # Progress => Ends(e, i))
    BY <1>2, <1>6 DEF Unnumbered, Ends
  <2>2. e \in Range(lock[i]) /\ lock[i] # <<>> /\ records[i].accepted
    <3>1. e \in Range(lock[i])
      BY <1>2, <1>4 DEF LocksAt
    <3>2. lock[i] # <<>>
      BY <3>1 DEF Range
    <3> QED
      BY <1>4, <3>1, <3>2 DEF LocksAt
  <2>3. \A f \in Emissions : Publishes(f, i) => f = e
    BY <1>1, <1>4 DEF LocksAt
  <2>4. ASSUME NEW f \in Emissions \ {e}, event.phase # Progress, Unnumbered(f, i)
        PROVE  FALSE
    <3>1. ~Ends(f, i)
      BY <1>4, <2>1, <2>4 DEF TurnAt
    <3>2. emission[f].stage = "number" /\ emission[f].event.phase = Progress
      BY <2>4, <3>1 DEF Unnumbered, Ends, IInv, EmissionsSound
    <3>3. f \in Range(lock[i])
      BY <1>4, <2>4, <3>2 DEF LocksAt, Queued, Unnumbered
    <3>4. PICK n \in DOMAIN lock[i] : lock[i][n] = f
      BY <3>3 DEF Range
    <3>5. 1 \in DOMAIN lock[i] /\ lock[i][1] = e /\ DOMAIN lock[i] = 1..Len(lock[i])
            /\ Len(lock[i]) \in Nat
      BY <1>1, <1>4, <2>2, TailItems
    <3>6. n < 1
      BY <1>2, <1>4, <1>6, <2>4, <3>2, <3>4, <3>5 DEF TurnAt
    <3> QED
      BY <3>4, <3>5, <3>6
  <2>5. event.phase # Progress =>
          (i \in Range(handler.table) => handler.records[i].result = event.phase)
    BY <1>2, <1>6, <2>1 DEF IInv, EventsAgree, AgreeAt, records
  <2>6. NumberDue(e, i, event, handler)
    BY <2>1, <2>2, <2>3, <2>4, <2>5 DEF NumberDue
  <2> QED
    BY <1>1, <1>2, <1>3, <1>6, <2>6, NumberStep
<1>7. CASE emission[e].stage = "clear"
  <2>1. Ends(e, i)
    BY <1>2, <1>7 DEF Ends
  <2>2. Proceed([handler EXCEPT !.records[i].pending = FALSE], e, i, event,
                "refused", rest)
    BY <1>1, <1>7 DEF Clear
  <2> QED
    BY <1>2, <1>3, <2>1, <2>2, MarkedStep
<1> QED
  BY <1>1, <1>5, <1>6, <1>7

\* The establishing emission goes on with handler g, or fails with it.
LEMMA EstablishGoes ==
  ASSUME IInv, NEW e \in Emissions, NEW i \in DOMAIN records, NEW event, NEW g,
         HandlerSound(g), Extends(handler, g), Len(g.records) = Len(records),
         emission[e].stage = "establish", emission[e].record = i,
         emission[e].event = event, wire' = wire, request' = request,
         \/ lock[i] = <<>> /\ Clear(g, e, i, event, <<>>)
         \/ lock[i] # <<>> /\ Proceed(g, e, i, event, "clear", Append(lock[i], e))
         \/ /\ ThenNumber(g, e, i, event, lock[i])
            /\ i \in Range(g.table) => g.records[i].result = event.phase
  PROVE  IInv'
<1>1. /\ records[i].started /\ event \in Event /\ event.phase # Progress
      /\ ~Queued(e, i) /\ Ends(e, i)
  BY Types DEF IInv, EmissionsSound, Queued, Ends
<1>2. Acts(e, i, event, g, lock[i])
  BY <1>1 DEF Acts, LeftBehind
<1>3. CASE lock[i] = <<>> /\ Clear(g, e, i, event, <<>>)
  <2>1. Proceed([g EXCEPT !.records[i].pending = FALSE], e, i, event,
                "refused", lock[i])
    BY <1>3 DEF Clear
  <2> QED
    BY <1>1, <1>2, <2>1, MarkedStep
<1>4. CASE lock[i] # <<>> /\ Proceed(g, e, i, event, "clear", Append(lock[i], e))
  <2>1. QueueAfter(e, i, "clear", lock[i], Append(lock[i], e))
    BY <1>4 DEF QueueAfter
  <2> QED
    BY <1>1, <1>2, <1>4, <2>1, WaitsStep
<1>5. CASE /\ ThenNumber(g, e, i, event, lock[i])
           /\ i \in Range(g.table) => g.records[i].result = event.phase
  BY <1>1, <1>2, <1>5, ThenNumberStep
<1> QED
  BY <1>3, <1>4, <1>5

LEMMA EstablishStep ==
  ASSUME IInv, NEW e \in Emissions, Establish(e)
  PROVE  IInv'
<1> DEFINE i == emission[e].record
           event == emission[e].event
           key == records[i].key
           Fail(h) == \/ lock[i] = <<>> /\ Clear(h, e, i, event, <<>>)
                      \/ /\ lock[i] # <<>>
                         /\ Proceed(h, e, i, event, "clear", Append(lock[i], e))
<1>1. /\ emission[e].stage = "establish" /\ request' = request /\ wire' = wire
      /\ \/ Fail(handler)
         \/ /\ Found(handler, key) # {}
            /\ \E result \in Told \cap Terminal :
                 LET recorded == RecordTerminal(handler, key, event.phase, result)
                 IN IF recorded.done
                    THEN ThenNumber(recorded.h, e, i, event, lock[i])
                    ELSE Fail(recorded.h)
  BY DEF Establish
<1>2. /\ i \in DOMAIN records /\ HandlerSound(handler) /\ key \in Keys
      /\ emission[e].record = i /\ emission[e].event = event
  <2>1. i \in DOMAIN records
    BY <1>1 DEF IInv, EmissionsSound
  <2>2. records[i] \in Record
    BY <2>1, Types
  <2> QED
    BY <2>1, <2>2 DEF IInv, Record
<1>3. CASE Fail(handler)
  <2>1. Extends(handler, handler) /\ Len(handler.records) = Len(records)
    BY SameRecordsExtend DEF records
  <2> HIDE DEF i, event
  <2> QED
    BY <1>1, <1>2, <1>3, <2>1, EstablishGoes
<1>4. ASSUME Found(handler, key) # {}, NEW result,
             LET recorded == RecordTerminal(handler, key, event.phase, result)
             IN IF recorded.done
                THEN ThenNumber(recorded.h, e, i, event, lock[i])
                ELSE Fail(recorded.h)
      PROVE  IInv'
  <2> DEFINE phase == event.phase
             recorded == RecordTerminal(handler, key, phase, result)
             g == recorded.h
             j == Last(g.table)
  <2>1. /\ HandlerSound(g) /\ Extends(handler, g)
        /\ Len(g.records) = Len(records)
        /\ recorded.done =>
             /\ j \in DOMAIN g.records /\ j \in Range(g.table)
             /\ g.records[j].result = phase /\ j \in Found(handler, key)
    <3> HIDE DEF phase, key
    <3> QED
      BY <1>2, <1>4, TerminalRecorded DEF records
  <2>2. IF recorded.done THEN ThenNumber(g, e, i, event, lock[i]) ELSE Fail(g)
    BY <1>4
  <2> HIDE DEF recorded, i, key
  <2>3. CASE recorded.done
    <3>1. ASSUME i \in Range(g.table)
          PROVE  g.records[i].result = phase
      <4>1. j \in DOMAIN handler.records /\ handler.records[j].key = key
        BY <1>2, <2>1, <2>3, FoundOne
      <4>2. g.records[j].key = key /\ g.records[i].key = key
        BY <1>2, <2>1, <4>1 DEF Extends, SameEmitter, records, key
      <4>3. i = j
        BY <2>1, <2>3, <3>1, <4>2 DEF HandlerSound, TableSound
      <4> QED
        BY <2>1, <2>3, <4>3
    <3> HIDE DEF event, g, j
    <3>2. ThenNumber(g, e, i, event, lock[i])
      BY <2>2, <2>3
    <3> QED
      BY <1>1, <1>2, <2>1, <3>1, <3>2, EstablishGoes
  <2>4. CASE ~recorded.done
    <3> HIDE DEF event, g, j
    <3> QED
      BY <1>1, <1>2, <2>1, <2>2, <2>4, EstablishGoes
  <2> QED
    BY <2>3, <2>4
<1> QED
  BY <1>1, <1>3, <1>4

-----------------------------------------------------------------------------
(* The theorems.                                                           *)

LEMMA InitIInv ==
  Init => IInv
<1> SUFFICES ASSUME Init
             PROVE  IInv
  OBVIOUS
<1>1. /\ handler = [records |-> <<>>, table |-> <<>>, active |-> 0]
      /\ request = [t \in Requests |-> Idle]
      /\ emission = [e \in Emissions |-> Idle]
      /\ lock = [i \in Ids |-> <<>>] /\ wire = [i \in Ids |-> <<>>]
  BY DEF Init, NewHandler
<1>2. /\ records = <<>> /\ DOMAIN records = {} /\ Len(records) = 0
      /\ records \in Seq(Record)
      /\ handler.records = <<>> /\ handler.table = <<>> /\ handler.active = 0
      /\ Range(handler.table) = {} /\ DOMAIN handler.table = {}
  BY <1>1 DEF records, Range
<1>3. /\ \A t \in Requests : request[t].stage = "idle" /\ request[t] = Idle
      /\ \A e \in Emissions : emission[e].stage = "idle" /\ emission[e] = Idle
      /\ \A i \in Ids : lock[i] = <<>> /\ wire[i] = <<>>
  BY <1>1 DEF Idle
<1>4. /\ MaxConcurrency \in Nat /\ MaxRetained \in Nat /\ MaxRecords \in Nat
  BY ExecutionsAssumption, EndpointAssumption
<1>5. TypeOK
  <2>1. request \in [Requests -> RequestStates] /\ emission \in [Emissions -> EmissionStates]
    BY <1>1 DEF RequestStates, EmissionStates, Idle
  <2>2. lock \in [Ids -> Seq(Requests \cup Emissions)]
          /\ wire \in [Ids -> Seq(Event \cup {Response})]
    BY <1>1
  <2> QED
    BY <1>2, <1>4, <2>1, <2>2 DEF TypeOK
<1>6. HandlerSound(handler)
  <2>1. Holders(handler) = {}
    BY <1>2 DEF Holders, records
  <2>2. Cardinality(Holders(handler)) = 0
    BY <2>1, FS_EmptySet
  <2>3. IsInjective(handler.table) /\ Len(handler.table) = 0
    BY <1>2 DEF IsInjective
  <2>4. handler \in Handlers
    BY <1>1 DEF Handlers
  <2>5. DOMAIN handler.records = {}
    BY <1>2 DEF records
  <2>6. TableSound(handler)
    BY <1>2, <1>4, <2>2, <2>3, <2>5 DEF TableSound
  <2> QED
    BY <2>4, <2>5, <2>6 DEF HandlerSound
<1>7. RequestsSound /\ StartsAfresh /\ EmissionsSound
  BY <1>2, <1>3 DEF RequestsSound, StartsAfresh, EmissionsSound, Starts
<1>8. LocksSound /\ EndsInTurn /\ NumbersDrawn /\ OnTheWay
  BY <1>2, <1>3 DEF LocksSound, EndsInTurn, NumbersDrawn, OnTheWay
<1>9. NoneMissing /\ EventsAgree /\ NotMadeYet
  BY <1>2, <1>3 DEF NoneMissing, EventsAgree, NotMadeYet
<1> QED
  BY <1>5, <1>6, <1>7, <1>8, <1>9 DEF IInv

LEMMA StutterIInv ==
  ASSUME IInv, UNCHANGED vars
  PROVE  IInv'
<1>1. /\ handler' = handler /\ request' = request /\ emission' = emission
      /\ lock' = lock /\ wire' = wire /\ records' = records
  BY DEF vars, records
<1>2. \A i \in DOMAIN records : Untouched(i)
  BY <1>1 DEF Untouched, SameEmitter
<1>3. \A i \in DOMAIN records :
        /\ LocksAt(i)' /\ TurnAt(i)' /\ NumbersAt(i)' /\ WayAt(i)'
        /\ WholeAt(i) => WholeAt(i)'
        /\ i \in Range(handler'.table) => AgreeAt(i)'
  BY <1>2, Elsewhere
<1>4. TypeOK' /\ HandlerSound(handler')
  BY <1>1 DEF IInv, TypeOK
<1>5. RequestsSound' /\ StartsAfresh'
  BY <1>1 DEF IInv, RequestsSound, StartsAfresh, Starts, Responds
<1>6. EmissionsSound' /\ NotMadeYet'
  BY <1>1 DEF IInv, EmissionsSound, NotMadeYet
<1>7. LocksSound' /\ EndsInTurn' /\ NumbersDrawn' /\ OnTheWay'
  BY <1>1, <1>3 DEF IInv, LocksSound, EndsInTurn, NumbersDrawn, OnTheWay
<1>8. NoneMissing'
  BY <1>1, <1>3 DEF IInv, NoneMissing, PublicationFailed
<1>9. EventsAgree'
  <2>1. Range(handler'.table) \subseteq DOMAIN records
    BY <1>1, HandlerTypes DEF IInv, records
  <2> QED
    BY <1>3, <2>1 DEF EventsAgree
<1> QED
  BY <1>4, <1>5, <1>6, <1>7, <1>8, <1>9 DEF IInv

LEMMA NextIInv ==
  ASSUME IInv, [Next]_vars
  PROVE  IInv'
<1>1. ASSUME NEW t \in Requests, NEW key \in Keys, Invoke(t, key)
      PROVE  IInv'
  BY <1>1, InvokeStep
<1>2. ASSUME NEW t \in Requests, NEW key \in Keys, AskStatus(t, key)
      PROVE  IInv'
  BY <1>2, AskStatusStep
<1>3. ASSUME NEW t \in Requests, NEW key \in Keys, AskResult(t, key)
      PROVE  IInv'
  BY <1>3, AskResultStep
<1>4. ASSUME NEW t \in Requests, RequestStep(t)
      PROVE  IInv'
  <2>1. CASE Wake(t)
    BY <2>1, WakeStep
  <2>2. CASE Started(t) \/ Cancelled(t)
    BY <2>2, StartedStep
  <2>3. CASE Close(t)
    BY <2>3, CloseStep
  <2>4. ASSUME NEW sent \in BOOLEAN, PublishResponse(t, sent)
        PROVE  IInv'
    BY <2>4, PublishResponseStep
  <2>5. ASSUME NEW sent \in BOOLEAN, PublishEarly(t, sent)
        PROVE  IInv'
    BY <2>5, PublishEarlyStep
  <2>6. CASE StatusReturns(t)
    BY <2>6, StatusReturnsStep
  <2>7. CASE ResultReturns(t)
    BY <2>7, ResultReturnsStep
  <2>8. CASE Confirm(t)
    BY <2>8, ConfirmStep
  <2> QED
    BY <1>4, <2>1, <2>2, <2>3, <2>4, <2>5, <2>6, <2>7, <2>8 DEF RequestStep
<1>5. ASSUME NEW e \in Emissions, NEW i \in DOMAIN records,
             NEW phase \in (Told \cap EventPhases) \cup {Progress}, Emit(e, i, phase)
      PROVE  IInv'
  BY <1>5, EmitStep
<1>6. ASSUME NEW e \in Emissions, EmissionStep(e)
      PROVE  IInv'
  <2>1. CASE Resume(e)
    BY <2>1, ResumeStep
  <2>2. CASE Establish(e)
    BY <2>2, EstablishStep
  <2>3. ASSUME NEW sent \in BOOLEAN, PublishLate(e, sent)
        PROVE  IInv'
    BY <2>3, PublishLateStep
  <2> QED
    BY <1>6, <2>1, <2>2, <2>3 DEF EmissionStep
<1>7. CASE UNCHANGED vars
  BY <1>7, StutterIInv
<1> QED
  BY <1>1, <1>2, <1>3, <1>4, <1>5, <1>6, <1>7 DEF Next

\* The strengthening is an invariant of the provider: the wire, the buffer of
\* early events and the one being published show the emitter's numbers in turn,
\* the locks and marks of an emitter keep its terminal event the last, and what
\* the table retains agrees with it.
THEOREM EndpointIsSound ==
  Spec => []IInv
<1>1. IInv /\ [Next]_vars => IInv'
  BY NextIInv
<1> QED
  BY InitIInv, <1>1, PTL DEF Spec

\* Every variable keeps its type, whatever the provider returns.
THEOREM TypesAreKept ==
  Spec => []TypeOK
<1>1. IInv => TypeOK
  BY DEF IInv
<1> QED
  BY EndpointIsSound, <1>1, PTL

\* The permits counted are those held, and never too many; the table keeps to
\* its bound, retains an execution once, and evicts none that runs or whose
\* outcome is awaited (handler.py:_evict_one_locked, _release_permit_locked).
THEOREM AdmissionAlwaysHolds ==
  Spec => []AdmissionHolds
<1>1. IInv => AdmissionHolds
  <2> SUFFICES ASSUME IInv
               PROVE  AdmissionHolds
    OBVIOUS
  <2>1. HandlerSound(handler) /\ TableSound(handler)
    BY DEF IInv, HandlerSound
  <2>2. ASSUME NEW key \in Keys
        PROVE  Cardinality(Found(handler, key)) <= 1
    <3>1. \A i, j \in Found(handler, key) : i = j
      BY <2>1, FoundOne
    <3>2. CASE Found(handler, key) = {}
      <4>1. Cardinality(Found(handler, key)) = 0
        BY <3>2, FS_EmptySet
      <4> QED
        BY <4>1
    <3>3. CASE Found(handler, key) # {}
      <4>1. PICK i : Found(handler, key) = {i}
        BY <3>1, <3>3
      <4>2. Cardinality(Found(handler, key)) = 1
        BY <4>1, FS_Singleton
      <4> QED
        BY <4>2
    <3> QED
      BY <3>2, <3>3
  <2> QED
    BY <2>1, <2>2 DEF AdmissionHolds, TableSound, Holders, records
<1> QED
  BY EndpointIsSound, <1>1, PTL

\* Replies, outcomes and, while the record is retained, published terminal
\* events name one end of an execution.
THEOREM AnswersAlwaysAgree ==
  Spec => []AnswersAgree
<1>1. IInv => AnswersAgree
  <2> SUFFICES ASSUME IInv, NEW i \in DOMAIN records,
                      NEW end \in EndsNamed(i) \cap Terminal
               PROVE  records[i].result = end
    BY DEF AnswersAgree
  <2>1. CASE end \in RepliesOf(i)
    <3>1. PICK t \in Requests : /\ request[t].stage = "done"
                                /\ request[t].record = i /\ request[t].reply = end
      BY <2>1 DEF RepliesOf
    <3>2. i # 0
      BY Types
    <3> QED
      BY <3>1, <3>2 DEF IInv, RequestsSound
  <2>2. CASE i \in Range(handler.table) /\ end \in {wire[i][n].phase : n \in DOMAIN wire[i]}
    <3>1. PICK n \in DOMAIN wire[i] : wire[i][n].phase = end
      BY <2>2
    <3>2. i \in Ids /\ wire[i] \in Seq(Event \cup {Response})
      BY Types
    <3>3. DOMAIN wire[i] = 1..Len(wire[i]) /\ Len(wire[i]) \in Nat
      BY <3>2, LenProperties
    <3>4. WayAt(i) /\ AgreeAt(i)
      BY <2>2 DEF IInv, OnTheWay, EventsAgree
    <3>5. n # 1
      <4>1. Response.phase \notin Terminal
        BY DEF Response, Terminal
      <4>2. wire[i][1] = Response
        BY <3>1, <3>3, <3>4 DEF WayAt
      <4> QED
        BY <3>1, <4>1, <4>2
    <3>6. wire[i][n] \in Numbered(i)
      BY <3>1, <3>3, <3>5 DEF Numbered, Published
    <3>7. end # Progress
      BY DEF Terminal, Progress
    <3> QED
      BY <3>1, <3>4, <3>6, <3>7 DEF AgreeAt
  <2> QED
    BY <2>1, <2>2 DEF EndsNamed
<1> QED
  BY EndpointIsSound, <1>1, PTL

\* What is published of one execution is its response, then its events in the
\* order of their numbers, none after a terminal one, and none left out unless
\* a publication failed.
THEOREM EventsAlwaysInOrder ==
  Spec => []EventsInOrder
<1>1. IInv => EventsInOrder
  <2> SUFFICES ASSUME IInv, NEW i \in DOMAIN records
               PROVE  LET out == wire[i]
                      IN /\ out # <<>> => out[1] = Response
                         /\ \A n \in 2..Len(out) :
                              /\ out[n] # Response
                              /\ n > 2 => out[n].number > out[n - 1].number
                              /\ n < Len(out) => out[n].phase = Progress
                              /\ PublicationFailed \/ out[n].number = n - 2
    BY DEF EventsInOrder
  <2> DEFINE out == wire[i]
  <2>1. /\ WayAt(i) /\ NumbersAt(i) /\ (PublicationFailed \/ WholeAt(i))
    BY DEF IInv, OnTheWay, NumbersDrawn, NoneMissing
  <2>2. Len(out) \in Nat
    BY Types, LenProperties
  <2>3. \A n \in 2..Len(out) : out[n] \in Numbered(i) /\ out[n] \in Event
    BY <2>1 DEF NumbersAt, Numbered, Published
  <2>4. \A m, n \in 2..Len(out) : m < n => out[m].number < out[n].number
    BY <2>1 DEF WayAt
  <2>5. ASSUME NEW n \in 2..Len(out)
        PROVE  /\ out[n] # Response
               /\ n > 2 => out[n].number > out[n - 1].number
               /\ n < Len(out) => out[n].phase = Progress
               /\ PublicationFailed \/ out[n].number = n - 2
    <3>1. out[n] # Response
      <4>1. Response.phase \notin EventPhases \cup {Progress}
        BY DEF Response, EventPhases, Terminal, Progress
      <4>2. out[n].phase \in EventPhases \cup {Progress}
        BY <2>3 DEF Event
      <4> QED
        BY <4>1, <4>2
    <3>2. ASSUME n > 2 PROVE out[n].number > out[n - 1].number
      <4>1. n - 1 \in 2..Len(out) /\ n - 1 < n
        BY <2>2, <3>2
      <4>2. out[n - 1].number < out[n].number
        BY <2>4, <4>1
      <4>3. out[n - 1].number \in Nat /\ out[n].number \in Nat
        BY <2>3, <4>1 DEF Event
      <4> HIDE DEF out
      <4> QED
        BY <4>2, <4>3
    <3>3. ASSUME n < Len(out), out[n].phase # Progress PROVE FALSE
      <4>1. n + 1 \in 2..Len(out) /\ n < n + 1
        BY <2>2, <3>3
      <4>2. /\ out[n].number < out[n + 1].number
            /\ out[n + 1].number < records[i].next
            /\ out[n].number + 1 = records[i].next
        BY <2>1, <2>3, <2>4, <3>3, <4>1 DEF NumbersAt
      <4>3. out[n].number \in Nat /\ out[n + 1].number \in Nat /\ records[i].next \in Nat
        BY <2>3, <4>1, Types DEF Event, Record
      <4> HIDE DEF out
      <4> QED
        BY <4>2, <4>3
    <3>4. PublicationFailed \/ out[n].number = n - 2
      BY <2>1 DEF WholeAt
    <3> QED
      BY <3>1, <3>2, <3>3, <3>4
  <2>6. out # <<>> => out[1] = Response
    BY <2>1 DEF WayAt
  <2> QED
    BY <2>5, <2>6
<1> QED
  BY EndpointIsSound, <1>1, PTL
=============================================================================
