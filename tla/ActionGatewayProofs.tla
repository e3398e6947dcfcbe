-------------------------- MODULE ActionGatewayProofs --------------------------
(***************************************************************************)
(* Proofs about the Action half of the Tool Gateway, for any executions,   *)
(* instances, capacities and bounds, whatever the threads and the          *)
(* providers do.  Boxed says what the service keeps by itself, operation   *)
(* by operation; Moved, what an operation may do to the executions; and    *)
(* Truthful relates the service to what has been sent and what runs.       *)
(***************************************************************************)
EXTENDS ActionGateway, SequenceFacts, FiniteSetTheorems

Fields == {"accepting", "current", "items", "exchanges", "outbound", "reserved",
           "cursors", "drawn", "isolated"}

\* s has the fields of the service.
IsState(s) == s = [f \in Fields |-> s[f]]

-----------------------------------------------------------------------------
(* The mailbox and the exchanges.                                          *)

CallersIn(s, X) == {x \in X : s.exchanges[x].caller}

\* k slots are held beside those of the exchanges made for Dora callers.
Balanced(s, k) ==
  /\ s.reserved = Cardinality(CallersIn(s, DOMAIN s.exchanges)) + k
  /\ Len(s.outbound) + s.reserved <= Capacity

IsRequest(m, x) == m.kind = "request" /\ m.id = x

\* One exchange at most has a purpose, and an unclaimed one is queued once.
Single(s) ==
  \A x, y \in DOMAIN s.exchanges :
    /\ s.exchanges[x].key = s.exchanges[y].key
    /\ s.exchanges[x].purpose = s.exchanges[y].purpose
    => x = y
QueuedOnce(s) ==
  \A x \in DOMAIN s.exchanges :
    ~s.exchanges[x].claimed =>
      \E n \in DOMAIN s.outbound :
        \A i \in DOMAIN s.outbound : IsRequest(s.outbound[i], x) <=> i = n

\* A request names an exchange that was made, and says what that one does.
Agrees(s, m) ==
  /\ m.id \in 1..s.drawn
  /\ m.id \in DOMAIN s.exchanges =>
       /\ s.exchanges[m.id].key = m.key
       /\ s.exchanges[m.id].purpose = m.purpose
RequestsAgree(s) ==
  \A i \in DOMAIN s.outbound :
    s.outbound[i].kind = "request" => Agrees(s, s.outbound[i])

\* A Dora caller's execution has a cursor, which its events are ahead of.
CursorsKept(s) ==
  \A k \in DOMAIN s.items \cap DoraKeys :
    k \in DOMAIN s.cursors /\ s.cursors[k] <= s.items[k].next

\* Queued events lie before the cursor, and a terminal one is the last.
EventFits(s, m) ==
  /\ m.key \in DOMAIN s.cursors => m.number < s.cursors[m.key]
  /\ m.key \in DOMAIN s.items =>
       /\ s.items[m.key].accepted
       /\ m.terminal =>
            /\ s.items[m.key].result /\ s.items[m.key].ended
            /\ m.number + 1 = s.items[m.key].next
Precedes(m, n) ==
  m.kind = "event" /\ n.kind = "event" /\ m.key = n.key =>
    m.number < n.number /\ ~m.terminal
EventsFit(s) ==
  /\ \A i \in DOMAIN s.outbound :
       s.outbound[i].kind = "event" => EventFits(s, s.outbound[i])
  /\ \A i, j \in DOMAIN s.outbound :
       i < j => Precedes(s.outbound[i], s.outbound[j])

Typed(s) == IsService(s) /\ IsFiniteSet(DOMAIN s.items)

\* What every operation keeps, with k slots reserved half way.
Boxed(s, k) ==
  /\ Typed(s) /\ Balanced(s, k)
  /\ Single(s) /\ QueuedOnce(s) /\ RequestsAgree(s)
  /\ CursorsKept(s) /\ EventsFit(s)

-----------------------------------------------------------------------------
(* What an operation does to the executions.                               *)

\* The service has never heard of k.
Fresh(s, k) ==
  /\ k \notin DOMAIN s.items /\ k \notin DOMAIN s.cursors /\ k \notin s.isolated
  /\ \A x \in DOMAIN s.exchanges : s.exchanges[x].key # k
  /\ \A i \in DOMAIN s.outbound :
       s.outbound[i].kind \in {"request", "event"} => s.outbound[i].key # k

IsInvoke(s, x, k) ==
  s.exchanges[x].key = k /\ s.exchanges[x].purpose = "invoke"

\* The invoke of k waits to be sent; it waited and never will be.
Waits(s, k) ==
  \E x \in DOMAIN s.exchanges : IsInvoke(s, x, k) /\ ~s.exchanges[x].claimed
Unsent(s, t, k) ==
  \E x \in DOMAIN s.exchanges \ DOMAIN t.exchanges :
    IsInvoke(s, x, k) /\ ~s.exchanges[x].claimed

\* Item j may follow item i: outcomes are final, and so is what is known.
Follows(i, j) ==
  /\ j \in Item /\ j.instance = i.instance
  /\ i.next <= j.next
  /\ i.ended => j.ended /\ j.next = i.next
  /\ i.accepted => j.accepted
  /\ i.result => j.result
  /\ i.phase \in Definite => j.phase = i.phase
  /\ i.phase \in Terminal => j.phase \in Terminal

\* It does so without a claim that the execution is over.
Softly(i, j) ==
  /\ Follows(i, j)
  /\ i.fence => j.fence
  /\ j.phase \in Definite => i.phase \in Definite
  /\ j.hint => i.hint

\* An operation leads from s to t; it was told that the executions in D are over.
Moved(s, t, D) ==
  /\ s.drawn <= t.drawn /\ s.isolated \subseteq t.isolated
  /\ \A k \in Keys : Fresh(s, k) => Fresh(t, k)
  /\ \A x \in DOMAIN t.exchanges :
       \/ x \in DOMAIN s.exchanges /\ t.exchanges[x] = s.exchanges[x]
       \/ x \notin 1..s.drawn /\ t.exchanges[x].purpose # "invoke"
  /\ DOMAIN t.items \subseteq DOMAIN s.items
  /\ \A k \in DOMAIN s.items :
       s.items[k].fence =>
         \/ k \in DOMAIN t.items /\ t.items[k].fence
         \/ k \in t.isolated \/ k \in D \/ Unsent(s, t, k)
  /\ \A k \in DOMAIN t.items :
       /\ s.items[k].phase \in Definite => t.items[k].phase = s.items[k].phase
       /\ s.items[k].phase \in Terminal => t.items[k].phase \in Terminal
       /\ t.items[k].phase \in Definite =>
            s.items[k].phase \in Definite \/ k \in D \/ Unsent(s, t, k)
       /\ t.items[k].hint => s.items[k].hint \/ k \in D

-----------------------------------------------------------------------------
(* Items.                                                                  *)

LEMMA Phases ==
  /\ "unknown" \in Terminal /\ "unknown" \notin Definite
  /\ "failed" \in Definite /\ Definite \subseteq Terminal
  /\ Nonterminal \cap Terminal = {} /\ "dispatching" \in Nonterminal
  /\ "accepted" \in Nonterminal
  /\ TRUE \in BOOLEAN /\ FALSE \in BOOLEAN
BY DEF Terminal, Definite, Nonterminal, Order

LEMMA SameNumber ==
  ASSUME NEW i \in Item, NEW j, j.next = i.next
  PROVE  i.next <= j.next
BY DEF Item

LEMMA SameSoftly ==
  ASSUME NEW i \in Item
  PROVE  Softly(i, i)
BY DEF Softly, Follows, Item

LEMMA FollowsTwice ==
  ASSUME NEW i \in Item, NEW j, NEW l
  PROVE  /\ Follows(i, j) /\ Follows(j, l) => Follows(i, l)
         /\ Softly(i, j) /\ Softly(j, l) => Softly(i, l)
<1>1. ASSUME Follows(i, j), Follows(j, l)
      PROVE  Follows(i, l)
  <2>1. i.next \in Nat /\ j.next \in Nat /\ l.next \in Nat
    BY <1>1 DEF Follows, Item
  <2>2. i.next <= l.next
    BY <1>1, <2>1 DEF Follows
  <2> QED
    BY <1>1, <2>2, Phases DEF Follows
<1> QED
  BY <1>1, Phases DEF Softly

LEMMA CloseItem ==
  ASSUME NEW i \in Item, NEW phase \in Terminal, NEW release \in BOOLEAN
  PROVE  LET j == Close(i, phase, release)
         IN  /\ j \in Item /\ j.instance = i.instance
             /\ j.next = i.next /\ j.ended = i.ended
             /\ j.accepted = i.accepted /\ j.result = TRUE /\ j.hint = i.hint
             /\ j.phase = phase
             /\ release = FALSE => j.fence = TRUE
<1>1. PICK fence \in BOOLEAN : fence = ~release
  OBVIOUS
<1>2. Close(i, phase, release)
        = [i EXCEPT !.phase = phase, !.result = TRUE, !.fence = fence]
  BY <1>1 DEF Close
<1>3. release = FALSE => fence = TRUE
  BY <1>1
<1> QED
  BY <1>2, <1>3, Phases DEF Item

\* An outcome may be settled once; unknown, with its fence, claims nothing.
LEMMA ConcludeItem ==
  ASSUME NEW i \in Item, NEW phase \in Terminal, NEW release \in BOOLEAN
  PROVE  LET j == Conclude(i, phase, release)
         IN  /\ Follows(i, j) /\ j.hint = i.hint
             /\ phase = "unknown" /\ release = FALSE => Softly(i, j)
<1>1. CASE i.phase \in Definite
  BY <1>1, SameSoftly DEF Conclude, Softly
<1>2. CASE i.phase \notin Definite
  <2> DEFINE j == Close(i, phase, release)
  <2>1. Conclude(i, phase, release) = j
    BY <1>2 DEF Conclude
  <2>2. /\ j \in Item /\ j.instance = i.instance
        /\ j.next = i.next /\ j.ended = i.ended
        /\ j.accepted = i.accepted /\ j.result = TRUE /\ j.hint = i.hint
        /\ j.phase = phase
        /\ release = FALSE => j.fence = TRUE
    BY CloseItem
  <2> HIDE DEF j
  <2>3. Follows(i, j)
    BY <1>2, <2>2, SameNumber DEF Follows
  <2>4. phase = "unknown" /\ release = FALSE => Softly(i, j)
    BY <2>2, <2>3, Phases DEF Softly
  <2> QED
    BY <2>1, <2>2, <2>3, <2>4
<1> QED
  BY <1>1, <1>2

LEMMA ObserveItem ==
  ASSUME NEW i \in Item, NEW phase \in Nonterminal
  PROVE  Softly(i, Observe(i, phase))
<1>1. CASE Observe(i, phase) = i
  BY <1>1, SameSoftly
<1>2. CASE i.phase \in Nonterminal /\ Observe(i, phase) = [i EXCEPT !.phase = phase]
  BY <1>2, Phases DEF Softly, Follows, Item
<1> QED
  BY <1>1, <1>2 DEF Observe

LEMMA AcceptItem ==
  ASSUME NEW i \in Item
  PROVE  Softly(i, EstablishAccepted(i))
<1>1. CASE i.phase \in Terminal
  BY <1>1, SameSoftly DEF EstablishAccepted
<1>2. CASE i.phase \notin Terminal
  <2> DEFINE j == Observe(i, "accepted")
  <2>1. Softly(i, j)
    BY ObserveItem, Phases
  <2> HIDE DEF j
  <2>2. Softly(j, [j EXCEPT !.accepted = TRUE])
    <3>1. j \in Item
      BY <2>1 DEF Softly, Follows
    <3> QED
      BY <3>1, Phases, SameNumber DEF Softly, Follows, Item
  <2> QED
    BY <1>2, <2>1, <2>2, FollowsTwice DEF EstablishAccepted, j
<1> QED
  BY <1>1, <1>2

LEMMA HintItem ==
  ASSUME NEW i \in Item
  PROVE  Follows(i, Hint(i)) /\ (Hint(i).phase \in Definite => i.phase \in Definite)
BY Phases, SameSoftly DEF Hint, Softly, Follows, Item

LEMMA DeadlineItem ==
  ASSUME NEW i \in Item
  PROVE  Softly(i, PassDeadline(i))
<1>1. CASE i.phase \in Terminal
  BY <1>1, SameSoftly DEF PassDeadline
<1>2. CASE i.phase \notin Terminal
  <2>1. PassDeadline(i) = Conclude(i, "unknown", FALSE)
    BY <1>2, Phases DEF PassDeadline, Conclude
  <2> QED
    BY <2>1, ConcludeItem, Phases
<1> QED
  BY <1>1, <1>2

\* Isolation gives up the fence, and claims no outcome.
LEMMA IsolateItem ==
  ASSUME NEW i \in Item
  PROVE  /\ Follows(i, Isolate(i)) /\ Isolate(i).hint = i.hint
         /\ Isolate(i).phase \in Definite => i.phase \in Definite
<1>1. CASE i.phase \in Terminal
  <2>1. Isolate(i) = [i EXCEPT !.fence = FALSE]
    BY <1>1 DEF Isolate
  <2> QED
    BY <2>1, Phases, SameNumber DEF Follows, Item
<1>2. CASE i.phase \notin Terminal
  <2> DEFINE j == Conclude(i, "unknown", TRUE)
  <2>1. Isolate(i) = j /\ j.phase = "unknown"
    BY <1>2, Phases DEF Isolate, Conclude, Close, Item
  <2>2. Follows(i, j) /\ j.hint = i.hint
    BY ConcludeItem, Phases
  <2> QED
    BY <2>1, <2>2, Phases
<1> QED
  BY <1>1, <1>2

LEMMA ControlItem ==
  ASSUME NEW i \in Item, NEW c, NEW status \in ControlStatuses
  PROVE  Softly(i, [i EXCEPT !.control[c] = status])
<1> DEFINE control == [i.control EXCEPT ![c] = status]
<1>1. control \in [Commands -> ControlStatuses]
  BY DEF Item
<1>2. [i EXCEPT !.control[c] = status] = [i EXCEPT !.control = control]
  BY DEF Item
<1> HIDE DEF control
<1> QED
  BY <1>1, <1>2 DEF Softly, Follows, Item

\* A failed exchange is no claim, unless it is an invoke that was not sent.
LEMMA FailedItem ==
  ASSUME NEW i \in Item, NEW x \in Exchange
  PROVE  /\ Follows(i, Failed(i, x)) /\ Failed(i, x).hint = i.hint
         /\ ~(x.purpose = "invoke" /\ ~x.claimed) => Softly(i, Failed(i, x))
<1>1. CASE x.purpose = "invoke" /\ x.claimed
  BY <1>1, ConcludeItem, Phases DEF Failed
<1>2. CASE x.purpose = "invoke" /\ ~x.claimed
  <2>1. Failed(i, x) = Conclude(i, "failed", TRUE)
    BY <1>2 DEF Failed, FailedSurely
  <2>2. "failed" \in Terminal /\ TRUE \in BOOLEAN
    BY Phases
  <2>3. /\ Follows(i, Conclude(i, "failed", TRUE))
        /\ Conclude(i, "failed", TRUE).hint = i.hint
    BY <2>2, ConcludeItem
  <2> QED
    BY <1>2, <2>1, <2>3
<1>3. CASE x.purpose # "invoke"
  <2>1. \/ Failed(i, x) = i
        \/ Failed(i, x) = [i EXCEPT !.control["cancel"] = "transport_error"]
    BY <1>3 DEF Failed, FailedSurely
  <2>2. "transport_error" \in ControlStatuses
    BY DEF ControlStatuses
  <2>3. Softly(i, Failed(i, x))
    BY <2>1, <2>2, SameSoftly, ControlItem
  <2>4. Failed(i, x).hint = i.hint
    BY <2>1 DEF Item
  <2> QED
    BY <2>3, <2>4 DEF Softly
<1> QED
  BY <1>1, <1>2, <1>3

-----------------------------------------------------------------------------
(* Messages and queues.                                                    *)

LEMMA MessageTypes ==
  /\ \A x \in Exchanges, k \in Keys, purpose \in Purposes :
       Request(x, k, purpose) \in Messages
  /\ \A k \in Keys : Reply(k) \in Messages
  /\ \A k \in DoraKeys, n \in Nat, terminal \in BOOLEAN :
       Event(k, n, terminal) \in Messages
  /\ RegistryResponse \in Messages /\ RegistryResponse.kind = "registry"
  /\ \A x, k, purpose : /\ Request(x, k, purpose).kind = "request"
                        /\ Request(x, k, purpose).id = x
                        /\ Request(x, k, purpose).key = k
                        /\ Request(x, k, purpose).purpose = purpose
  /\ \A k : Reply(k).kind = "reply" /\ Reply(k).key = k
  /\ \A k, n, terminal : /\ Event(k, n, terminal).kind = "event"
                         /\ Event(k, n, terminal).key = k
                         /\ Event(k, n, terminal).number = n
                         /\ Event(k, n, terminal).terminal = terminal
BY DEF Messages, Request, Reply, Event, RegistryResponse

\* What a message says of itself.
LEMMA MessageKinds ==
  ASSUME NEW m \in Messages
  PROVE  /\ m.kind \in {"request", "reply", "event", "registry"}
         /\ m.kind = "request" =>
              m.id \in Exchanges /\ m.key \in Keys /\ m.purpose \in Purposes
         /\ m.kind = "reply" => m.key \in Keys
         /\ m.kind = "event" =>
              m.key \in DoraKeys /\ m.number \in Nat /\ m.terminal \in BOOLEAN
BY DEF Messages

\* The messages of a queue that was extended.
LEMMA Joined ==
  ASSUME NEW S, NEW p \in Seq(S), NEW q \in Seq(S)
  PROVE  /\ p \o q \in Seq(S) /\ Len(p) \in Nat /\ Len(q) \in Nat
         /\ Len(p \o q) = Len(p) + Len(q)
         /\ DOMAIN p = 1..Len(p) /\ DOMAIN q = 1..Len(q)
         /\ DOMAIN (p \o q) = 1..Len(p) + Len(q)
         /\ \A n \in 1..Len(p) : (p \o q)[n] = p[n]
         /\ \A n \in 1..Len(q) : (p \o q)[Len(p) + n] = q[n]
         /\ \A n \in 1..Len(p) + Len(q) :
              n \notin 1..Len(p) => /\ n - Len(p) \in 1..Len(q)
                                    /\ (p \o q)[n] = q[n - Len(p)]
<1>1. /\ p \o q \in Seq(S) /\ Len(p \o q) = Len(p) + Len(q)
      /\ \A n \in 1..Len(p) + Len(q) :
           (p \o q)[n] = IF n <= Len(p) THEN p[n] ELSE q[n - Len(p)]
  BY ConcatProperties
<1>2. /\ Len(p) \in Nat /\ Len(q) \in Nat
      /\ DOMAIN p = 1..Len(p) /\ DOMAIN q = 1..Len(q)
  BY LenProperties
<1>3. DOMAIN (p \o q) = 1..Len(p) + Len(q)
  BY <1>1, LenProperties
<1>4. ASSUME NEW n \in 1..Len(q)
      PROVE  (p \o q)[Len(p) + n] = q[n]
  <2>1. Len(p) + n \in 1..Len(p) + Len(q) /\ ~(Len(p) + n <= Len(p))
        /\ Len(p) + n - Len(p) = n
    BY <1>2
  <2> QED
    BY <1>1, <2>1
<1>5. \A n \in 1..Len(p) + Len(q) :
        n \notin 1..Len(p) => n - Len(p) \in 1..Len(q) /\ ~(n <= Len(p))
  BY <1>2
<1> QED
  BY <1>1, <1>2, <1>3, <1>4, <1>5

\* The same, of two queues of messages.
Joins(p, q) ==
  /\ p \o q \in Seq(Messages) /\ Len(p) \in Nat /\ Len(q) \in Nat
  /\ Len(p \o q) = Len(p) + Len(q)
  /\ DOMAIN p = 1..Len(p) /\ DOMAIN q = 1..Len(q)
  /\ DOMAIN (p \o q) = 1..Len(p) + Len(q)
  /\ \A n \in 1..Len(p) : (p \o q)[n] = p[n]
  /\ \A n \in 1..Len(p) + Len(q) :
       n \notin 1..Len(p) => /\ n - Len(p) \in 1..Len(q)
                             /\ (p \o q)[n] = q[n - Len(p)]
LEMMA MessagesJoined ==
  ASSUME NEW p \in Seq(Messages), NEW q \in Seq(Messages)
  PROVE  Joins(p, q)
BY Joined DEF Joins

\* SetToSeq lists every element of a finite set, once.
LEMMA ListedOnce ==
  ASSUME NEW S, IsFiniteSet(S)
  PROVE  /\ Cardinality(S) \in Nat
         /\ SetToSeq(S) \in [1..Cardinality(S) -> S]
         /\ IsInjective(SetToSeq(S))
         /\ \A x \in S : \E n \in 1..Cardinality(S) : SetToSeq(S)[n] = x
<1> DEFINE c == Cardinality(S)
<1>1. c \in Nat /\ Bijection(1..c, S) # {}
  BY FS_CardinalityType DEF ExistsBijection
<1>2. \E f \in [1..c -> S] : IsInjective(f)
  BY <1>1 DEF Bijection, Injection
<1>3. SetToSeq(S) \in [1..c -> S] /\ IsInjective(SetToSeq(S))
  BY <1>2 DEF SetToSeq
<1>4. IsFiniteSet(1..c) /\ Cardinality(1..c) = c
  BY <1>1, FS_Interval
<1>5. SetToSeq(S) \in Surjection(1..c, S)
  <2>1. SetToSeq(S) \in Injection(1..c, S)
    BY <1>3 DEF Injection
  <2> QED
    BY <1>4, <2>1, FS_Injection
<1> QED
  BY <1>1, <1>3, <1>5 DEF Surjection

\* The service's fields, and what they are.
LEMMA Types ==
  ASSUME NEW s, Typed(s)
  PROVE  /\ IsState(s)
         /\ s.accepting \in BOOLEAN /\ s.current \in Instances \cup {Nobody}
         /\ DOMAIN s.items \subseteq Keys
         /\ s.items \in [DOMAIN s.items -> Item]
         /\ DOMAIN s.exchanges \subseteq 1..s.drawn
         /\ s.exchanges \in [DOMAIN s.exchanges -> Exchange]
         /\ s.outbound \in Seq(Messages) /\ Len(s.outbound) \in Nat
         /\ DOMAIN s.outbound = 1..Len(s.outbound)
         /\ s.reserved \in Nat
         /\ DOMAIN s.cursors \subseteq DoraKeys
         /\ s.cursors \in [DOMAIN s.cursors -> Nat]
         /\ s.drawn \in 0..MaxExchanges /\ s.drawn \in Nat
         /\ s.isolated \subseteq Keys
         /\ IsFiniteSet(DOMAIN s.items)
<1>1. IsState(s)
  BY DEF Typed, IsService, IsState, Fields
<1>2. s.outbound \in Seq(Messages)
  BY DEF Typed, IsService
<1>3. Len(s.outbound) \in Nat /\ DOMAIN s.outbound = 1..Len(s.outbound)
  BY <1>2, LenProperties
<1> QED
  BY <1>1, <1>2, <1>3, ServiceAssumption DEF Typed, IsService

\* Exchanges in flight can be counted.
LEMMA ExchangesFinite ==
  ASSUME NEW s, Typed(s), NEW X \in SUBSET DOMAIN s.exchanges
  PROVE  IsFiniteSet(X) /\ Cardinality(X) \in Nat
<1>1. IsFiniteSet(1..s.drawn) /\ X \in SUBSET (1..s.drawn)
  BY FS_Interval, Types
<1> QED
  BY <1>1, FS_Subset, FS_CardinalityType

\* A record with such fields is a service.
LEMMA ServiceTyped ==
  ASSUME NEW s, IsState(s),
         s.accepting \in BOOLEAN, s.current \in Instances \cup {Nobody},
         DOMAIN s.items \subseteq Keys, s.items \in [DOMAIN s.items -> Item],
         DOMAIN s.exchanges \subseteq 1..s.drawn,
         s.exchanges \in [DOMAIN s.exchanges -> Exchange],
         s.outbound \in Seq(Messages), s.reserved \in Nat,
         DOMAIN s.cursors \subseteq DoraKeys,
         s.cursors \in [DOMAIN s.cursors -> Nat],
         s.drawn \in 0..MaxExchanges, s.isolated \subseteq Keys,
         IsFiniteSet(DOMAIN s.items)
  PROVE  Typed(s)
<1>1. s = [accepting |-> s.accepting, current |-> s.current, items |-> s.items,
           exchanges |-> s.exchanges, outbound |-> s.outbound,
           reserved |-> s.reserved, cursors |-> s.cursors,
           drawn |-> s.drawn, isolated |-> s.isolated]
  BY DEF IsState, Fields
<1> QED
  BY <1>1 DEF Typed, IsService

-----------------------------------------------------------------------------
(* What the smallest operations change.                                    *)

\* t has the fields of s outside its mailbox, its items and its exchanges.
Beside(s, t) ==
  /\ IsState(t)
  /\ t.accepting = s.accepting /\ t.current = s.current
  /\ t.cursors = s.cursors /\ t.isolated = s.isolated

LEMMA PostFields ==
  ASSUME NEW s, IsState(s), NEW q
  PROVE  LET t == Post(s, q)
         IN  /\ Beside(s, t) /\ t.items = s.items /\ t.exchanges = s.exchanges
             /\ t.drawn = s.drawn
             /\ t.outbound = s.outbound \o q /\ t.reserved = s.reserved - Len(q)
BY DEF Post, IsState, Fields, Beside

LEMMA ReserveFields ==
  ASSUME NEW s, IsState(s), NEW n
  PROVE  LET t == [s EXCEPT !.reserved = @ + n]
         IN  /\ Beside(s, t) /\ t.items = s.items /\ t.exchanges = s.exchanges
             /\ t.drawn = s.drawn
             /\ t.outbound = s.outbound /\ t.reserved = s.reserved + n
BY DEF IsState, Fields, Beside

LEMMA DropFields ==
  ASSUME NEW s, IsState(s), NEW X
  PROVE  LET t == DropSilently(s, X)
         IN  /\ Beside(s, t) /\ t.items = s.items
             /\ t.exchanges = Restrict(s.exchanges, DOMAIN s.exchanges \ X)
             /\ t.drawn = s.drawn
             /\ t.outbound = s.outbound /\ t.reserved = s.reserved
BY DEF DropSilently, IsState, Fields, Beside

LEMMA ItemsFields ==
  ASSUME NEW s, IsState(s), NEW v
  PROVE  LET t == [s EXCEPT !.items = v]
         IN  /\ Beside(s, t) /\ t.items = v /\ t.exchanges = s.exchanges
             /\ t.drawn = s.drawn
             /\ t.outbound = s.outbound /\ t.reserved = s.reserved
BY DEF IsState, Fields, Beside

NewExchange(s, k, purpose, caller) ==
  [key |-> k, instance |-> s.items[k].instance, purpose |-> purpose,
   caller |-> caller, claimed |-> FALSE]
NewExchanges(s, k, purpose, caller) ==
  [y \in DOMAIN s.exchanges \cup {s.drawn + 1} |->
     IF y = s.drawn + 1 THEN NewExchange(s, k, purpose, caller) ELSE s.exchanges[y]]
Queues(s, t, k, purpose, caller) ==
  /\ Beside(s, t) /\ t.items = s.items
  /\ t.exchanges = NewExchanges(s, k, purpose, caller)
  /\ t.drawn = s.drawn + 1
  /\ t.outbound = s.outbound \o <<Request(s.drawn + 1, k, purpose)>>
  /\ t.reserved = s.reserved - 1
LEMMA QueueFields ==
  ASSUME NEW s, IsState(s), NEW k, NEW purpose, NEW caller
  PROVE  Queues(s, QueueExchange(s, k, purpose, caller), k, purpose, caller)
<1> DEFINE x == s.drawn + 1
           p == Post(s, <<Request(x, k, purpose)>>)
           e == NewExchanges(s, k, purpose, caller)
<1>1. /\ Beside(s, p) /\ p.items = s.items
      /\ p.outbound = s.outbound \o <<Request(x, k, purpose)>>
      /\ p.reserved = s.reserved - Len(<<Request(x, k, purpose)>>)
  BY PostFields
<1>2. Len(<<Request(x, k, purpose)>>) = 1
  OBVIOUS
<1>3. QueueExchange(s, k, purpose, caller) = [p EXCEPT !.exchanges = e, !.drawn = x]
  BY DEF QueueExchange, NewExchange, NewExchanges
<1> HIDE DEF p, e, x
<1>4. /\ Beside(p, [p EXCEPT !.exchanges = e, !.drawn = x])
      /\ [p EXCEPT !.exchanges = e, !.drawn = x].exchanges = e
      /\ [p EXCEPT !.exchanges = e, !.drawn = x].drawn = x
      /\ [p EXCEPT !.exchanges = e, !.drawn = x].items = p.items
      /\ [p EXCEPT !.exchanges = e, !.drawn = x].outbound = p.outbound
      /\ [p EXCEPT !.exchanges = e, !.drawn = x].reserved = p.reserved
  BY <1>1 DEF IsState, Fields, Beside
<1> QED
  BY <1>1, <1>2, <1>3, <1>4 DEF Queues, Beside, e, x


-----------------------------------------------------------------------------
(* What the smallest operations keep.                                      *)

\* t comes from s with no message added or taken, and no cursor moved.
Kept(s, t) ==
  /\ IsState(t)
  /\ t.accepting \in BOOLEAN /\ t.current \in Instances \cup {Nobody}
  /\ t.outbound = s.outbound /\ t.cursors = s.cursors /\ t.drawn = s.drawn
  /\ s.isolated \subseteq t.isolated
  /\ t.isolated \subseteq s.isolated \cup DOMAIN s.items
  /\ DOMAIN t.exchanges \subseteq DOMAIN s.exchanges
  /\ t.exchanges \in [DOMAIN t.exchanges -> Exchange]
  /\ \A x \in DOMAIN t.exchanges : t.exchanges[x] = s.exchanges[x]
  /\ DOMAIN t.items \subseteq DOMAIN s.items
  /\ t.items \in [DOMAIN t.items -> Item]
  /\ \A k \in DOMAIN t.items : Follows(s.items[k], t.items[k])

LEMMA KeptBoxed ==
  ASSUME NEW s, NEW t, NEW j, NEW k \in Nat,
         Boxed(s, j), Kept(s, t), Balanced(t, k)
  PROVE  Boxed(t, k)
<1>1. Typed(s)
  BY DEF Boxed
<1>2. DOMAIN s.items \subseteq Keys /\ s.items \in [DOMAIN s.items -> Item]
      /\ DOMAIN s.exchanges \subseteq 1..s.drawn /\ s.isolated \subseteq Keys
      /\ DOMAIN s.cursors \subseteq DoraKeys
      /\ s.cursors \in [DOMAIN s.cursors -> Nat]
      /\ s.drawn \in 0..MaxExchanges /\ s.drawn \in Nat
      /\ s.outbound \in Seq(Messages) /\ IsFiniteSet(DOMAIN s.items)
  BY <1>1, Types
<1>3. t.reserved \in Nat
  <2>1. CallersIn(t, DOMAIN t.exchanges) \in SUBSET DOMAIN s.exchanges
    BY DEF Kept, CallersIn
  <2>2. Cardinality(CallersIn(t, DOMAIN t.exchanges)) \in Nat
    BY <1>1, <2>1, ExchangesFinite
  <2> QED
    BY <2>2 DEF Balanced
<1>4. IsFiniteSet(DOMAIN t.items)
  BY <1>2, FS_Subset DEF Kept
<1>5. Typed(t)
  BY <1>2, <1>3, <1>4, ServiceTyped DEF Kept
<1>6. Single(t) /\ RequestsAgree(t)
  BY DEF Boxed, Kept, Single, RequestsAgree, Agrees
<1>7. QueuedOnce(t)
  BY DEF Boxed, Kept, QueuedOnce
<1>8. CursorsKept(t)
  <2> SUFFICES ASSUME NEW i \in DOMAIN t.items \cap DoraKeys
               PROVE  i \in DOMAIN t.cursors /\ t.cursors[i] <= t.items[i].next
    BY DEF CursorsKept
  <2>1. /\ i \in DOMAIN s.cursors /\ s.cursors[i] <= s.items[i].next
        /\ s.items[i].next <= t.items[i].next
        /\ s.items[i] \in Item /\ t.items[i] \in Item
    BY <1>2 DEF Boxed, CursorsKept, Kept, Follows
  <2>2. s.cursors[i] \in Nat /\ s.items[i].next \in Nat /\ t.items[i].next \in Nat
    BY <1>2, <2>1 DEF Item
  <2>3. t.cursors = s.cursors
    BY DEF Kept
  <2> QED
    BY <2>1, <2>2, <2>3
<1>9. EventsFit(t)
  <2>1. ASSUME NEW m, EventFits(s, m)
        PROVE  EventFits(t, m)
    BY <2>1 DEF EventFits, Kept, Follows
  <2> QED
    BY <2>1 DEF Boxed, EventsFit, Kept
<1> QED
  BY <1>5, <1>6, <1>7, <1>8, <1>9 DEF Boxed

LEMMA KeptMoved ==
  ASSUME NEW s, NEW t, NEW D, Typed(s), Kept(s, t),
         \A k \in DOMAIN s.items :
           s.items[k].fence =>
             \/ k \in DOMAIN t.items /\ t.items[k].fence
             \/ k \in t.isolated \/ k \in D \/ Unsent(s, t, k),
         \A k \in DOMAIN t.items :
           /\ t.items[k].phase \in Definite =>
                s.items[k].phase \in Definite \/ k \in D \/ Unsent(s, t, k)
           /\ t.items[k].hint => s.items[k].hint \/ k \in D
  PROVE  Moved(s, t, D)
<1>1. s.drawn <= t.drawn
  BY Types DEF Kept
<1>2. ASSUME NEW k \in Keys, Fresh(s, k)
      PROVE  Fresh(t, k)
  BY <1>2 DEF Fresh, Kept
<1>3. \A k \in DOMAIN t.items :
        /\ s.items[k].phase \in Definite => t.items[k].phase = s.items[k].phase
        /\ s.items[k].phase \in Terminal => t.items[k].phase \in Terminal
  BY DEF Kept, Follows
<1>4. /\ s.isolated \subseteq t.isolated /\ DOMAIN t.items \subseteq DOMAIN s.items
      /\ \A x \in DOMAIN t.exchanges :
           x \in DOMAIN s.exchanges /\ t.exchanges[x] = s.exchanges[x]
  BY DEF Kept
<1> QED
  BY <1>1, <1>2, <1>3, <1>4 DEF Moved

\* Nothing happens to the executions.
LEMMA SameMoved ==
  ASSUME NEW s, NEW t, NEW D, Typed(s), t.items = s.items, t.drawn = s.drawn,
         t.isolated = s.isolated, t.exchanges = s.exchanges,
         \A k \in Keys : Fresh(s, k) => Fresh(t, k)
  PROVE  Moved(s, t, D)
BY Types DEF Moved

LEMMA MovedTwice ==
  ASSUME NEW s, NEW t, NEW u, NEW D, Typed(s), Typed(t), Typed(u),
         Moved(s, t, D), Moved(t, u, D)
  PROVE  Moved(s, u, D)
<1>1. s.drawn \in Nat /\ t.drawn \in Nat /\ u.drawn \in Nat
      /\ DOMAIN s.exchanges \subseteq 1..s.drawn
  BY Types
<1>2. s.drawn <= t.drawn /\ t.drawn <= u.drawn
  BY DEF Moved
<1>3. s.drawn <= u.drawn
  BY <1>1, <1>2
<1>4. s.isolated \subseteq u.isolated /\ DOMAIN u.items \subseteq DOMAIN s.items
      /\ \A k \in Keys : Fresh(s, k) => Fresh(u, k)
  BY DEF Moved
<1>5. ASSUME NEW x \in DOMAIN u.exchanges
      PROVE  \/ x \in DOMAIN s.exchanges /\ u.exchanges[x] = s.exchanges[x]
             \/ x \notin 1..s.drawn /\ u.exchanges[x].purpose # "invoke"
  <2>1. x \notin 1..t.drawn => x \notin 1..s.drawn
    BY <1>1, <1>2
  <2> QED
    BY <2>1 DEF Moved
<1>6. ASSUME NEW k, Unsent(s, t, k)
      PROVE  Unsent(s, u, k)
  <2>1. PICK x \in DOMAIN s.exchanges \ DOMAIN t.exchanges :
          IsInvoke(s, x, k) /\ ~s.exchanges[x].claimed
    BY <1>6 DEF Unsent
  <2>2. x \in 1..s.drawn /\ x \in 1..t.drawn
    BY <1>1, <1>2
  <2>3. x \notin DOMAIN u.exchanges
    BY <2>1, <2>2 DEF Moved
  <2> QED
    BY <2>1, <2>3 DEF Unsent
<1>7. ASSUME NEW k, Unsent(t, u, k)
      PROVE  Unsent(s, u, k)
  <2>1. PICK x \in DOMAIN t.exchanges \ DOMAIN u.exchanges :
          IsInvoke(t, x, k) /\ ~t.exchanges[x].claimed
    BY <1>7 DEF Unsent
  <2>2. x \in DOMAIN s.exchanges /\ t.exchanges[x] = s.exchanges[x]
    BY <2>1 DEF Moved, IsInvoke
  <2> QED
    BY <2>1, <2>2 DEF Unsent, IsInvoke
<1>8. ASSUME NEW k \in DOMAIN s.items, s.items[k].fence
      PROVE  \/ k \in DOMAIN u.items /\ u.items[k].fence
             \/ k \in u.isolated \/ k \in D \/ Unsent(s, u, k)
  BY <1>6, <1>7, <1>8 DEF Moved
<1>9. ASSUME NEW k \in DOMAIN u.items
      PROVE  /\ s.items[k].phase \in Definite => u.items[k].phase = s.items[k].phase
             /\ s.items[k].phase \in Terminal => u.items[k].phase \in Terminal
             /\ u.items[k].phase \in Definite =>
                  s.items[k].phase \in Definite \/ k \in D \/ Unsent(s, u, k)
             /\ u.items[k].hint => s.items[k].hint \/ k \in D
  <2>1. k \in DOMAIN t.items
    BY DEF Moved
  <2>2. /\ s.items[k].phase \in Definite => t.items[k].phase = s.items[k].phase
        /\ s.items[k].phase \in Terminal => t.items[k].phase \in Terminal
        /\ t.items[k].phase \in Definite =>
             s.items[k].phase \in Definite \/ k \in D \/ Unsent(s, t, k)
        /\ t.items[k].hint => s.items[k].hint \/ k \in D
    BY <2>1 DEF Moved
  <2>3. /\ t.items[k].phase \in Definite => u.items[k].phase = t.items[k].phase
        /\ t.items[k].phase \in Terminal => u.items[k].phase \in Terminal
        /\ u.items[k].phase \in Definite =>
             t.items[k].phase \in Definite \/ k \in D \/ Unsent(t, u, k)
        /\ u.items[k].hint => t.items[k].hint \/ k \in D
    BY DEF Moved
  <2> QED
    BY <1>6, <1>7, <2>2, <2>3
<1> QED
  BY <1>3, <1>4, <1>5, <1>8, <1>9 DEF Moved

LEMMA MovedMore ==
  ASSUME NEW s, NEW t, NEW D, NEW E, Moved(s, t, D), D \subseteq E
  PROVE  Moved(s, t, E)
BY DEF Moved

\* The messages in q are neither requests nor events.
Plain(q) == \A i \in DOMAIN q : q[i].kind \in {"reply", "registry"}

LEMMA PostBoxed ==
  ASSUME NEW s, NEW k \in Nat, NEW D, NEW q \in Seq(Messages), Boxed(s, k),
         Plain(q), Len(q) <= k
  PROVE  Boxed(Post(s, q), k - Len(q)) /\ Moved(s, Post(s, q), D)
<1> DEFINE t == Post(s, q)
           p == s.outbound
<1>1. Typed(s)
  BY DEF Boxed
<1>2. /\ IsState(s)
      /\ s.accepting \in BOOLEAN /\ s.current \in Instances \cup {Nobody}
      /\ DOMAIN s.items \subseteq Keys
      /\ s.items \in [DOMAIN s.items -> Item]
      /\ DOMAIN s.exchanges \subseteq 1..s.drawn
      /\ s.exchanges \in [DOMAIN s.exchanges -> Exchange]
      /\ p \in Seq(Messages) /\ Len(p) \in Nat
      /\ s.reserved \in Nat
      /\ DOMAIN s.cursors \subseteq DoraKeys
      /\ s.cursors \in [DOMAIN s.cursors -> Nat]
      /\ s.drawn \in 0..MaxExchanges
      /\ s.isolated \subseteq Keys
      /\ IsFiniteSet(DOMAIN s.items)
  BY <1>1, Types
<1>3. /\ Beside(s, t) /\ t.items = s.items /\ t.exchanges = s.exchanges
      /\ t.drawn = s.drawn /\ t.outbound = p \o q
      /\ t.reserved = s.reserved - Len(q)
  BY <1>2, PostFields
<1>4. /\ p \o q \in Seq(Messages) /\ Len(q) \in Nat
      /\ Len(p \o q) = Len(p) + Len(q)
      /\ DOMAIN p = 1..Len(p) /\ DOMAIN q = 1..Len(q)
      /\ DOMAIN (p \o q) = 1..Len(p) + Len(q)
      /\ \A n \in 1..Len(p) : (p \o q)[n] = p[n]
      /\ \A n \in 1..Len(p) + Len(q) :
           n \notin 1..Len(p) => /\ n - Len(p) \in 1..Len(q)
                                 /\ (p \o q)[n] = q[n - Len(p)]
  BY <1>2, Joined
<1> HIDE DEF t
<1>5. ASSUME NEW n \in DOMAIN t.outbound
      PROVE  \/ n \in DOMAIN p /\ t.outbound[n] = p[n]
             \/ n \notin DOMAIN p /\ t.outbound[n].kind \in {"reply", "registry"}
  BY <1>3, <1>4 DEF Plain
<1>6. DOMAIN p \subseteq DOMAIN t.outbound
      /\ \A n \in DOMAIN p : t.outbound[n] = p[n]
  BY <1>2, <1>3, <1>4
<1>7. /\ IsState(t) /\ t.accepting = s.accepting /\ t.current = s.current
      /\ t.cursors = s.cursors /\ t.isolated = s.isolated
  BY <1>3 DEF Beside
<1>8. /\ s.reserved = Cardinality(CallersIn(s, DOMAIN s.exchanges)) + k
      /\ Len(p) + s.reserved <= Capacity
      /\ Cardinality(CallersIn(s, DOMAIN s.exchanges)) \in Nat
  <2>1. CallersIn(s, DOMAIN s.exchanges) \in SUBSET DOMAIN s.exchanges
    BY DEF CallersIn
  <2> QED
    BY <1>1, <2>1, ExchangesFinite DEF Boxed, Balanced
<1>9. t.reserved \in Nat
  <2>1. t.reserved = s.reserved - Len(q) /\ Len(q) \in Nat
    BY <1>3, <1>4
  <2>2. s.reserved = Cardinality(CallersIn(s, DOMAIN s.exchanges)) + k
        /\ Cardinality(CallersIn(s, DOMAIN s.exchanges)) \in Nat
    BY <1>8
  <2> QED
    BY <2>1, <2>2
<1>10. Typed(t)
  BY <1>2, <1>3, <1>4, <1>7, <1>9, ServiceTyped
<1>11. Balanced(t, k - Len(q))
  <2>1. CallersIn(t, DOMAIN t.exchanges) = CallersIn(s, DOMAIN s.exchanges)
    BY <1>3 DEF CallersIn
  <2>2. t.reserved = s.reserved - Len(q) /\ Len(q) \in Nat
        /\ Len(t.outbound) = Len(p) + Len(q) /\ Len(p) \in Nat
    BY <1>2, <1>3, <1>4
  <2>3. s.reserved = Cardinality(CallersIn(s, DOMAIN s.exchanges)) + k
        /\ Cardinality(CallersIn(s, DOMAIN s.exchanges)) \in Nat
        /\ Len(p) + s.reserved <= Capacity /\ s.reserved \in Nat
    BY <1>2, <1>8
  <2>4. t.reserved = Cardinality(CallersIn(s, DOMAIN s.exchanges)) + (k - Len(q))
    BY <2>2, <2>3
  <2>5. Len(t.outbound) + t.reserved <= Capacity
    BY <2>2, <2>3, ServiceAssumption
  <2> QED
    BY <2>1, <2>4, <2>5 DEF Balanced
<1>12. Single(t) /\ CursorsKept(t)
  BY <1>3, <1>7 DEF Boxed, Single, CursorsKept
<1>13. RequestsAgree(t)
  BY <1>3, <1>5 DEF Boxed, RequestsAgree, Agrees
<1>14. QueuedOnce(t)
  <2> SUFFICES ASSUME NEW x \in DOMAIN t.exchanges, ~t.exchanges[x].claimed
               PROVE  \E n \in DOMAIN t.outbound :
                        \A i \in DOMAIN t.outbound :
                          IsRequest(t.outbound[i], x) <=> i = n
    BY DEF QueuedOnce
  <2>1. PICK n \in DOMAIN p : \A i \in DOMAIN p : IsRequest(p[i], x) <=> i = n
    BY <1>3 DEF Boxed, QueuedOnce
  <2>2. ASSUME NEW i \in DOMAIN t.outbound
        PROVE  IsRequest(t.outbound[i], x) <=> i = n
    BY <1>5, <2>1 DEF IsRequest
  <2> QED
    BY <1>6, <2>1, <2>2
<1>15. EventsFit(t)
  <2>1. ASSUME NEW m, EventFits(s, m)
        PROVE  EventFits(t, m)
    BY <1>3, <1>7, <2>1 DEF EventFits
  <2>2. ASSUME NEW i \in DOMAIN t.outbound, NEW j \in DOMAIN t.outbound, i < j
        PROVE  Precedes(t.outbound[i], t.outbound[j])
    BY <1>5, <2>2 DEF Precedes, Boxed, EventsFit
  <2> QED
    BY <1>5, <2>1, <2>2 DEF Boxed, EventsFit
<1>16. ASSUME NEW i \in Keys, Fresh(s, i)
       PROVE  Fresh(t, i)
  BY <1>3, <1>5, <1>7, <1>16 DEF Fresh
<1>17. Moved(s, t, D)
  BY <1>1, <1>3, <1>7, <1>16, SameMoved
<1>18. Boxed(t, k - Len(q))
  BY <1>10, <1>11, <1>12, <1>13, <1>14, <1>15 DEF Boxed
<1> QED
  BY <1>17, <1>18 DEF t

LEMMA ReserveBoxed ==
  ASSUME NEW s, NEW j \in Nat, NEW n \in Nat, NEW D, Boxed(s, j), HasRoom(s, n)
  PROVE  LET t == [s EXCEPT !.reserved = @ + n]
         IN  Boxed(t, j + n) /\ Moved(s, t, D)
<1> DEFINE t == [s EXCEPT !.reserved = @ + n]
<1>1. Typed(s)
  BY DEF Boxed
<1>2. /\ IsState(s) /\ s.reserved \in Nat /\ Len(s.outbound) \in Nat
      /\ s.accepting \in BOOLEAN /\ s.current \in Instances \cup {Nobody}
      /\ s.items \in [DOMAIN s.items -> Item]
      /\ s.exchanges \in [DOMAIN s.exchanges -> Exchange]
  BY <1>1, Types
<1>3. /\ Beside(s, t) /\ t.items = s.items /\ t.exchanges = s.exchanges
      /\ t.drawn = s.drawn
      /\ t.outbound = s.outbound /\ t.reserved = s.reserved + n
  BY <1>2, ReserveFields
<1> HIDE DEF t
<1>4. Kept(s, t)
  <2>1. \A k \in DOMAIN s.items : Follows(s.items[k], s.items[k])
    BY <1>2, SameSoftly DEF Softly
  <2> QED
    BY <1>2, <1>3, <2>1 DEF Kept, Beside
<1>5. Balanced(t, j + n)
  <2>1. CallersIn(t, DOMAIN t.exchanges) = CallersIn(s, DOMAIN s.exchanges)
    BY <1>3 DEF CallersIn
  <2>2. CallersIn(s, DOMAIN s.exchanges) \in SUBSET DOMAIN s.exchanges
    BY DEF CallersIn
  <2>3. Cardinality(CallersIn(s, DOMAIN s.exchanges)) \in Nat
    BY <1>1, <2>2, ExchangesFinite
  <2>4. s.reserved = Cardinality(CallersIn(s, DOMAIN s.exchanges)) + j
    BY DEF Boxed, Balanced
  <2>5. Len(t.outbound) + t.reserved <= Capacity
    BY <1>2, <1>3, ServiceAssumption DEF HasRoom
  <2> QED
    BY <1>3, <2>1, <2>3, <2>4, <2>5 DEF Balanced
<1>6. Boxed(t, j + n)
  BY <1>4, <1>5, KeptBoxed
<1>7. Moved(s, t, D)
  BY <1>1, <1>3, <1>4, KeptMoved
<1> QED
  BY <1>6, <1>7 DEF t

LEMMA KeptSame ==
  ASSUME NEW s, NEW t, NEW k \in Nat, Boxed(s, k), Kept(s, t),
         t.exchanges = s.exchanges, t.reserved = s.reserved
  PROVE  Boxed(t, k)
<1>1. CallersIn(t, DOMAIN t.exchanges) = CallersIn(s, DOMAIN s.exchanges)
  BY DEF CallersIn
<1>2. t.outbound = s.outbound
  BY DEF Kept
<1>3. Balanced(t, k)
  BY <1>1, <1>2 DEF Boxed, Balanced
<1> QED
  BY <1>3, KeptBoxed

\* Exchanges that end leave the slots of their callers' replies.
LEMMA CutBoxed ==
  ASSUME NEW s, NEW t, NEW k \in Nat, NEW X \in SUBSET DOMAIN s.exchanges,
         Boxed(s, k), Kept(s, t), t.reserved = s.reserved,
         DOMAIN t.exchanges = DOMAIN s.exchanges \ X
  PROVE  Boxed(t, k + Cardinality(CallersIn(s, X)))
<1> DEFINE A == CallersIn(s, DOMAIN s.exchanges)
           B == CallersIn(s, X)
           C == CallersIn(t, DOMAIN t.exchanges)
<1>1. Typed(s)
  BY DEF Boxed
<1>2. C = A \ B /\ A \cap B = B
  BY DEF CallersIn, Kept
<1>3. /\ IsFiniteSet(A) /\ Cardinality(A) \in Nat
      /\ Cardinality(B) \in Nat /\ Cardinality(C) \in Nat
  <2>1. A \in SUBSET DOMAIN s.exchanges /\ B \in SUBSET DOMAIN s.exchanges
        /\ C \in SUBSET DOMAIN s.exchanges
    BY DEF CallersIn, Kept
  <2> QED
    BY <1>1, <2>1, ExchangesFinite
<1>4. Cardinality(C) = Cardinality(A) - Cardinality(B)
  BY <1>2, <1>3, FS_Difference
<1>5. s.reserved = Cardinality(A) + k /\ Len(s.outbound) + s.reserved <= Capacity
  BY DEF Boxed, Balanced
<1>6. t.outbound = s.outbound
  BY DEF Kept
<1> HIDE DEF A, B, C
<1>7. t.reserved = Cardinality(C) + (k + Cardinality(B))
  BY <1>3, <1>4, <1>5
<1>8. Balanced(t, k + Cardinality(B))
  BY <1>5, <1>6, <1>7 DEF Balanced, C
<1>9. k + Cardinality(B) \in Nat
  BY <1>3
<1> QED
  BY <1>8, <1>9, KeptBoxed DEF B

\* The replies that Drop queues.
RepliesFor(s, X) ==
  LET callers == SetToSeq({x \in X : s.exchanges[x].caller})
  IN [n \in DOMAIN callers |-> Reply(s.exchanges[callers[n]].key)]

CallersOf(s, X, k) == {x \in X : s.exchanges[x].key = k /\ s.exchanges[x].caller}
RepliesIn(q, k) == {n \in DOMAIN q : q[n].kind = "reply" /\ q[n].key = k}

\* Replies in a queue can be counted.
LEMMA RepliesFinite ==
  ASSUME NEW q \in Seq(Messages), NEW k
  PROVE  /\ IsFiniteSet(RepliesIn(q, k))
         /\ Cardinality(RepliesIn(q, k)) \in Nat
<1>1. IsFiniteSet(1..Len(q)) /\ DOMAIN q = 1..Len(q)
  BY FS_Interval, LenProperties
<1>2. RepliesIn(q, k) \in SUBSET (1..Len(q))
  BY <1>1 DEF RepliesIn
<1> QED
  BY <1>1, <1>2, FS_Subset, FS_CardinalityType

\* Replies add up when queues are joined.
LEMMA RepliesJoined ==
  ASSUME NEW p \in Seq(Messages), NEW q \in Seq(Messages), NEW k
  PROVE  Cardinality(RepliesIn(p \o q, k)) =
           Cardinality(RepliesIn(p, k)) + Cardinality(RepliesIn(q, k))
<1> DEFINE A == RepliesIn(p, k)
           B == RepliesIn(q, k)
           f == [n \in B |-> Len(p) + n]
           C == {f[n] : n \in B}
<1>1. /\ Len(p) \in Nat /\ Len(q) \in Nat
      /\ DOMAIN p = 1..Len(p) /\ DOMAIN q = 1..Len(q)
      /\ DOMAIN (p \o q) = 1..Len(p) + Len(q)
      /\ \A n \in 1..Len(p) : (p \o q)[n] = p[n]
      /\ \A n \in 1..Len(q) : (p \o q)[Len(p) + n] = q[n]
  BY Joined
<1>2. A \subseteq 1..Len(p) /\ B \subseteq 1..Len(q)
  BY <1>1 DEF RepliesIn
<1>3. RepliesIn(p \o q, k) = A \cup C
  <2>1. ASSUME NEW n \in RepliesIn(p \o q, k) PROVE n \in A \cup C
    <3>1. n \in 1..Len(p) + Len(q)
      BY <1>1, <2>1 DEF RepliesIn
    <3>2. CASE n \in 1..Len(p)
      BY <1>1, <2>1, <3>2 DEF RepliesIn
    <3>3. CASE n \notin 1..Len(p)
      <4>1. n - Len(p) \in 1..Len(q) /\ n = Len(p) + (n - Len(p))
        BY <1>1, <3>1, <3>3
      <4>2. n - Len(p) \in B
        BY <1>1, <2>1, <4>1 DEF RepliesIn
      <4> QED
        BY <4>1, <4>2
    <3> QED
      BY <3>2, <3>3
  <2>2. A \subseteq RepliesIn(p \o q, k)
    BY <1>1 DEF RepliesIn
  <2>3. ASSUME NEW n \in B PROVE f[n] \in RepliesIn(p \o q, k)
    <3>1. n \in 1..Len(q) /\ Len(p) + n \in 1..Len(p) + Len(q)
      BY <1>1, <1>2, <2>3
    <3> QED
      BY <1>1, <2>3, <3>1 DEF RepliesIn
  <2> HIDE DEF A, B, f
  <2> QED
    BY <2>1, <2>2, <2>3
<1>4. A \cap C = {}
  BY <1>1, <1>2
<1>5. IsFiniteSet(A) /\ IsFiniteSet(B)
  BY RepliesFinite
<1>6. f \in Bijection(B, C)
  <2>1. f \in [B -> C]
    OBVIOUS
  <2>2. \A a, b \in B : f[a] = f[b] => a = b
    BY <1>1, <1>2
  <2> HIDE DEF f, B
  <2> QED
    BY <2>1, <2>2 DEF Bijection, Injection, Surjection, IsInjective
<1> HIDE DEF A, B, C, f
<1>7. IsFiniteSet(C) /\ Cardinality(C) = Cardinality(B)
  BY <1>5, <1>6, FS_Bijection DEF ExistsBijection
<1>8. Cardinality(A \cup C) = Cardinality(A) + Cardinality(C)
  <2>1. Cardinality(A \cup C) =
          Cardinality(A) + Cardinality(C) - Cardinality(A \cap C)
    BY <1>5, <1>7, FS_Union
  <2>2. Cardinality(A \cap C) = 0
    BY <1>4, FS_EmptySet
  <2>3. Cardinality(A) \in Nat /\ Cardinality(C) \in Nat
    BY <1>5, <1>7, FS_CardinalityType
  <2> QED
    BY <2>1, <2>2, <2>3
<1> QED
  BY <1>3, <1>7, <1>8 DEF A, B

\* One reply is queued for each caller of an exchange that is over.
LEMMA RepliesQueued ==
  ASSUME NEW s, Typed(s), NEW X \in SUBSET DOMAIN s.exchanges
  PROVE  LET q == RepliesFor(s, X)
         IN  /\ q \in Seq(Messages) /\ Plain(q)
             /\ Len(q) = Cardinality(CallersIn(s, X))
             /\ \A k : Cardinality(RepliesIn(q, k)) =
                         Cardinality(CallersOf(s, X, k))
<1> DEFINE D == {x \in X : s.exchanges[x].caller}
           c == Cardinality(D)
           callers == SetToSeq(D)
           e(n) == Reply(s.exchanges[callers[n]].key)
           q == [n \in 1..c |-> e(n)]
<1>1. IsFiniteSet(D)
  BY ExchangesFinite
<1>2. /\ c \in Nat /\ callers \in [1..c -> D] /\ IsInjective(callers)
      /\ \A x \in D : \E n \in 1..c : callers[n] = x
  BY <1>1, ListedOnce
<1>3. RepliesFor(s, X) = q
  BY <1>2 DEF RepliesFor
<1>4. \A n \in 1..c : callers[n] \in X /\ s.exchanges[callers[n]].caller
  BY <1>2
<1>5. \A x \in DOMAIN s.exchanges : s.exchanges[x].key \in Keys
  BY Types DEF Exchange
<1> HIDE DEF callers, c
<1>6. ASSUME NEW n \in 1..c
      PROVE  /\ e(n) \in Messages /\ e(n).kind = "reply"
             /\ e(n).key = s.exchanges[callers[n]].key
  BY <1>4, <1>5, MessageTypes
<1>7. q \in Seq(Messages) /\ Len(q) = c /\ DOMAIN q = 1..c
  <2> HIDE DEF e
  <2>1. q \in Seq(Messages)
    BY <1>2, <1>6, IsASeq
  <2>2. DOMAIN q = 1..c
    OBVIOUS
  <2> HIDE DEF q
  <2> QED
    BY <1>2, <2>1, <2>2, LenProperties
<1>8. \A n \in 1..c : q[n] = e(n)
  OBVIOUS
<1> HIDE DEF q, e
<1>9. Plain(q)
  BY <1>6, <1>7, <1>8 DEF Plain
<1>10. ASSUME NEW k
       PROVE  Cardinality(RepliesIn(q, k)) = Cardinality(CallersOf(s, X, k))
  <2> DEFINE W == CallersOf(s, X, k)
             N == RepliesIn(q, k)
             f == [n \in N |-> callers[n]]
  <2>1. W \subseteq D /\ N \subseteq 1..c
    BY <1>7 DEF CallersOf, RepliesIn
  <2>2. \A n \in 1..c : n \in N <=> callers[n] \in W
    BY <1>4, <1>6, <1>7, <1>8 DEF RepliesIn, CallersOf
  <2> HIDE DEF N, W, D
  <2>3. IsFiniteSet(N)
    <3>1. IsFiniteSet(1..c)
      BY <1>2, FS_Interval
    <3> QED
      BY <2>1, <3>1, FS_Subset
  <2>4. \A a, b \in N : callers[a] = callers[b] => a = b
    BY <1>2, <2>1 DEF IsInjective
  <2>5. f \in Bijection(N, W)
    <3>1. f \in [N -> W]
      BY <2>1, <2>2
    <3>2. \A x \in W : \E n \in N : f[n] = x
      BY <1>2, <2>1, <2>2
    <3>3. \A a, b \in N : f[a] = f[b] => a = b
      BY <2>4
    <3> HIDE DEF f
    <3> QED
      BY <3>1, <3>2, <3>3 DEF Bijection, Injection, Surjection, IsInjective
  <2> QED
    BY <2>3, <2>5, FS_Bijection DEF ExistsBijection, N, W
<1>11. CallersIn(s, X) = D
  BY DEF CallersIn
<1> HIDE DEF D
<1> QED
  BY <1>3, <1>7, <1>9, <1>10, <1>11 DEF c

-----------------------------------------------------------------------------
(* Exchanges that fail, and instances that are isolated.                   *)

\* Between s and t each caller of k whose exchange was dropped got a reply, and
\* nobody else.
Paid(s, t) ==
  \A k \in Keys :
    Cardinality(RepliesIn(t.outbound, k)) =
      Cardinality(RepliesIn(s.outbound, k))
        + Cardinality(CallersOf(s, DOMAIN s.exchanges \ DOMAIN t.exchanges, k))

\* No request was made between s and t, and no execution forgotten.
Reduced(s, t) ==
  /\ t.accepting = s.accepting /\ t.drawn = s.drawn /\ t.cursors = s.cursors
  /\ DOMAIN t.items = DOMAIN s.items
  /\ \A k \in DOMAIN s.items : t.items[k].instance = s.items[k].instance
  /\ DOMAIN t.exchanges \subseteq DOMAIN s.exchanges
  /\ \A x \in DOMAIN t.exchanges : t.exchanges[x] = s.exchanges[x]
  /\ Paid(s, t)

LEMMA CallersFinite ==
  ASSUME NEW s, Typed(s), NEW X \in SUBSET DOMAIN s.exchanges, NEW k
  PROVE  IsFiniteSet(CallersOf(s, X, k)) /\ Cardinality(CallersOf(s, X, k)) \in Nat
<1>1. CallersOf(s, X, k) \in SUBSET DOMAIN s.exchanges
  BY DEF CallersOf
<1> QED
  BY <1>1, ExchangesFinite

\* Nobody is paid when nothing is dropped or posted.
LEMMA SamePaid ==
  ASSUME NEW s, NEW t, Typed(s), t.outbound = s.outbound,
         DOMAIN s.exchanges \subseteq DOMAIN t.exchanges
  PROVE  Paid(s, t)
<1> SUFFICES ASSUME NEW k \in Keys
             PROVE  Cardinality(RepliesIn(t.outbound, k)) =
                      Cardinality(RepliesIn(s.outbound, k))
                        + Cardinality(CallersOf(s, DOMAIN s.exchanges \ DOMAIN t.exchanges, k))
  BY DEF Paid
<1>1. CallersOf(s, DOMAIN s.exchanges \ DOMAIN t.exchanges, k) = {}
  BY DEF CallersOf
<1>2. Cardinality(RepliesIn(s.outbound, k)) \in Nat
  BY Types, RepliesFinite
<1> QED
  BY <1>1, <1>2, FS_EmptySet

LEMMA PaidTwice ==
  ASSUME NEW s, NEW t, NEW u, Typed(s), Typed(t), Typed(u), Paid(s, t), Paid(t, u),
         DOMAIN t.exchanges \subseteq DOMAIN s.exchanges,
         DOMAIN u.exchanges \cap DOMAIN s.exchanges \subseteq DOMAIN t.exchanges,
         \A x \in DOMAIN t.exchanges : t.exchanges[x] = s.exchanges[x]
  PROVE  Paid(s, u)
<1> SUFFICES ASSUME NEW k \in Keys
             PROVE  Cardinality(RepliesIn(u.outbound, k)) =
                      Cardinality(RepliesIn(s.outbound, k))
                        + Cardinality(CallersOf(s, DOMAIN s.exchanges \ DOMAIN u.exchanges, k))
  BY DEF Paid
<1> DEFINE A == CallersOf(s, DOMAIN s.exchanges \ DOMAIN t.exchanges, k)
           B == CallersOf(t, DOMAIN t.exchanges \ DOMAIN u.exchanges, k)
           C == CallersOf(s, DOMAIN s.exchanges \ DOMAIN u.exchanges, k)
<1>1. C = A \cup B /\ A \cap B = {}
  BY DEF CallersOf
<1>2. /\ IsFiniteSet(A) /\ Cardinality(A) \in Nat
      /\ IsFiniteSet(B) /\ Cardinality(B) \in Nat
  BY CallersFinite
<1>3. /\ Cardinality(RepliesIn(t.outbound, k)) =
           Cardinality(RepliesIn(s.outbound, k)) + Cardinality(A)
      /\ Cardinality(RepliesIn(u.outbound, k)) =
           Cardinality(RepliesIn(t.outbound, k)) + Cardinality(B)
  BY DEF Paid
<1>4. Cardinality(RepliesIn(s.outbound, k)) \in Nat
  BY Types, RepliesFinite
<1> HIDE DEF A, B, C
<1>5. Cardinality(C) = Cardinality(A) + Cardinality(B)
  <2>1. Cardinality(A \cup B) = Cardinality(A) + Cardinality(B) - Cardinality(A \cap B)
    BY <1>2, FS_Union
  <2>2. Cardinality(A \cap B) = 0
    BY <1>1, FS_EmptySet
  <2>3. Cardinality(C) = Cardinality(A) + Cardinality(B) - Cardinality(A \cap B)
    BY <1>1, <2>1
  <2> QED
    BY <1>2, <2>2, <2>3
<1> QED
  BY <1>2, <1>3, <1>4, <1>5 DEF C

LEMMA ReducedTwice ==
  ASSUME NEW s, NEW t, NEW u, Typed(s), Typed(t), Typed(u),
         Reduced(s, t), Reduced(t, u)
  PROVE  Reduced(s, u)
<1>1. Paid(s, u)
  BY PaidTwice DEF Reduced
<1> QED
  BY <1>1 DEF Reduced

\* Every exchange is pinned to the registered instance.
Pinned(s) == \A x \in DOMAIN s.exchanges : s.exchanges[x].instance = s.current

LEMMA ReducedPending ==
  ASSUME NEW s, NEW t, Reduced(s, t), NEW k, NEW purpose,
         ~IsPending(s, k, purpose)
  PROVE  ~IsPending(t, k, purpose)
BY DEF Reduced, IsPending

\* What is left of an item when the exchanges in X have failed.
Ending(s, X, k, purpose) ==
  {x \in X : s.exchanges[x].key = k /\ s.exchanges[x].purpose = purpose}
FailedBy(s, item, found) ==
  IF found = {} THEN item ELSE Failed(item, s.exchanges[CHOOSE x \in found : TRUE])
FailedIn(s, X, k) ==
  FailedBy(s, FailedBy(s, s.items[k], Ending(s, X, k, "invoke")),
           Ending(s, X, k, "control:cancel"))

LEMMA FailedByItem ==
  ASSUME NEW s, Typed(s), NEW i \in Item, NEW found \in SUBSET DOMAIN s.exchanges
  PROVE  LET j == FailedBy(s, i, found)
         IN  /\ Follows(i, j) /\ j.hint = i.hint
             /\ \/ Softly(i, j)
                \/ \E x \in found : /\ s.exchanges[x].purpose = "invoke"
                                    /\ ~s.exchanges[x].claimed
<1>1. CASE found = {}
  BY <1>1, SameSoftly DEF FailedBy, Softly
<1>2. CASE found # {}
  <2> DEFINE x == CHOOSE x \in found : TRUE
  <2>1. x \in found
    BY <1>2
  <2>2. s.exchanges[x] \in Exchange
    BY <2>1, Types
  <2>3. FailedBy(s, i, found) = Failed(i, s.exchanges[x])
    BY <1>2 DEF FailedBy
  <2> HIDE DEF x
  <2> QED
    BY <2>1, <2>2, <2>3, FailedItem
<1> QED
  BY <1>1, <1>2

LEMMA FailedInItem ==
  ASSUME NEW s, Typed(s), NEW X \in SUBSET DOMAIN s.exchanges, NEW k \in DOMAIN s.items
  PROVE  LET i == s.items[k]
             j == FailedIn(s, X, k)
         IN  /\ Follows(i, j) /\ j.hint = i.hint
             /\ Softly(i, j) \/ \E x \in X : IsInvoke(s, x, k) /\ ~s.exchanges[x].claimed
<1> DEFINE i == s.items[k]
           A == Ending(s, X, k, "invoke")
           B == Ending(s, X, k, "control:cancel")
           h == FailedBy(s, i, A)
           j == FailedBy(s, h, B)
<1>1. i \in Item
  BY Types
<1>2. A \in SUBSET DOMAIN s.exchanges /\ B \in SUBSET DOMAIN s.exchanges
  BY DEF Ending
<1>3. /\ Follows(i, h) /\ h.hint = i.hint
      /\ \/ Softly(i, h)
         \/ \E x \in A : s.exchanges[x].purpose = "invoke" /\ ~s.exchanges[x].claimed
  BY <1>1, <1>2, FailedByItem
<1>4. h \in Item
  BY <1>3 DEF Follows
<1>5. /\ Follows(h, j) /\ j.hint = h.hint
      /\ \/ Softly(h, j)
         \/ \E x \in B : s.exchanges[x].purpose = "invoke" /\ ~s.exchanges[x].claimed
  <2> HIDE DEF h
  <2> QED
    BY <1>2, <1>4, FailedByItem
<1>6. \A x \in A : x \in X /\ IsInvoke(s, x, k)
  BY DEF Ending, IsInvoke
<1>7. \A x \in B : s.exchanges[x].purpose # "invoke"
  BY DEF Ending
<1>8. FailedIn(s, X, k) = j
  BY DEF FailedIn
<1> HIDE DEF h, j, A, B, i
<1>9. Follows(i, j) /\ j.hint = i.hint
  BY <1>1, <1>3, <1>5, FollowsTwice
<1>10. Softly(h, j)
  BY <1>5, <1>7
<1>11. Softly(i, j) \/ \E x \in X : IsInvoke(s, x, k) /\ ~s.exchanges[x].claimed
  <2>1. CASE Softly(i, h)
    BY <1>1, <1>10, <2>1, FollowsTwice
  <2> QED
    BY <1>3, <1>6, <2>1
<1> QED
  BY <1>8, <1>9, <1>11 DEF i

\* FinishErrors without its replies.
Failing(s, X) ==
  [DropSilently(s, X) EXCEPT !.items = [k \in DOMAIN s.items |-> FailedIn(s, X, k)]]

LEMMA FailingFields ==
  ASSUME NEW s, IsState(s), NEW X
  PROVE  LET t == Failing(s, X)
         IN  /\ Beside(s, t) /\ t.items = [k \in DOMAIN s.items |-> FailedIn(s, X, k)]
             /\ t.exchanges = Restrict(s.exchanges, DOMAIN s.exchanges \ X)
             /\ t.drawn = s.drawn
             /\ t.outbound = s.outbound /\ t.reserved = s.reserved
             /\ FinishErrors(s, X) = Post(t, RepliesFor(s, X))
<1> DEFINE d == DropSilently(s, X)
           v == [k \in DOMAIN s.items |-> FailedIn(s, X, k)]
           q == RepliesFor(s, X)
           t == [d EXCEPT !.items = v]
<1>1. /\ Beside(s, d) /\ d.items = s.items
      /\ d.exchanges = Restrict(s.exchanges, DOMAIN s.exchanges \ X)
      /\ d.drawn = s.drawn
      /\ d.outbound = s.outbound /\ d.reserved = s.reserved
  BY DropFields
<1>2. IsState(d)
  BY <1>1 DEF Beside
<1>3. FinishErrors(s, X) = [Post(d, q) EXCEPT !.items = v]
  BY DEF FinishErrors, Drop, RepliesFor, FailedIn, FailedBy, Ending
<1> HIDE DEF d, v, q
<1>4. [Post(d, q) EXCEPT !.items = v] = Post(t, q)
  BY <1>2 DEF Post, IsState, Fields
<1>5. /\ Beside(d, t) /\ t.items = v /\ t.exchanges = d.exchanges
      /\ t.drawn = d.drawn
      /\ t.outbound = d.outbound /\ t.reserved = d.reserved
  BY <1>2, ItemsFields
<1>6. Beside(s, t)
  BY <1>1, <1>5 DEF Beside
<1> QED
  BY <1>1, <1>3, <1>4, <1>5, <1>6 DEF Failing, d, v, q

LEMMA FinishBoxed ==
  ASSUME NEW s, NEW k \in Nat, NEW D, Boxed(s, k), NEW X \in SUBSET DOMAIN s.exchanges
  PROVE  LET t == FinishErrors(s, X)
         IN  /\ Boxed(t, k) /\ Moved(s, t, D) /\ Reduced(s, t)
             /\ t.current = s.current /\ t.isolated = s.isolated
             /\ DOMAIN t.exchanges = DOMAIN s.exchanges \ X
<1> DEFINE t == Failing(s, X)
           q == RepliesFor(s, X)
           u == Post(t, q)
           c == Cardinality(CallersIn(s, X))
<1>1. Typed(s)
  BY DEF Boxed
<1>2. /\ IsState(s)
      /\ s.accepting \in BOOLEAN /\ s.current \in Instances \cup {Nobody}
      /\ s.items \in [DOMAIN s.items -> Item]
      /\ s.exchanges \in [DOMAIN s.exchanges -> Exchange]
  BY <1>1, Types
<1>3. /\ Beside(s, t) /\ t.items = [i \in DOMAIN s.items |-> FailedIn(s, X, i)]
      /\ t.exchanges = Restrict(s.exchanges, DOMAIN s.exchanges \ X)
      /\ t.drawn = s.drawn
      /\ t.outbound = s.outbound /\ t.reserved = s.reserved
      /\ FinishErrors(s, X) = u
  BY <1>2, FailingFields
<1> HIDE DEF t
<1>4. /\ DOMAIN t.exchanges = DOMAIN s.exchanges \ X
      /\ t.exchanges \in [DOMAIN t.exchanges -> Exchange]
      /\ \A x \in DOMAIN t.exchanges : t.exchanges[x] = s.exchanges[x]
  <2> DEFINE g == Restrict(s.exchanges, DOMAIN s.exchanges \ X)
  <2>1. /\ DOMAIN g = DOMAIN s.exchanges \ X
        /\ g \in [DOMAIN g -> Exchange]
        /\ \A x \in DOMAIN g : g[x] = s.exchanges[x]
    BY <1>2 DEF Restrict
  <2> QED
    BY <1>3, <2>1
<1>5. ASSUME NEW i \in DOMAIN s.items
      PROVE  /\ i \in DOMAIN t.items
             /\ Follows(s.items[i], t.items[i]) /\ t.items[i].hint = s.items[i].hint
             /\ Softly(s.items[i], t.items[i]) \/ Unsent(s, t, i)
  <2>1. t.items[i] = FailedIn(s, X, i)
    BY <1>3
  <2>2. \A x \in X : x \in DOMAIN s.exchanges \ DOMAIN t.exchanges
    BY <1>4
  <2>3. /\ Follows(s.items[i], FailedIn(s, X, i))
        /\ FailedIn(s, X, i).hint = s.items[i].hint
        /\ \/ Softly(s.items[i], FailedIn(s, X, i))
           \/ \E x \in X : IsInvoke(s, x, i) /\ ~s.exchanges[x].claimed
    BY <1>1, FailedInItem
  <2>4. (\E x \in X : IsInvoke(s, x, i) /\ ~s.exchanges[x].claimed) => Unsent(s, t, i)
    BY <2>2 DEF Unsent
  <2> QED
    BY <1>3, <2>1, <2>3, <2>4
<1>6. DOMAIN t.items = DOMAIN s.items
      /\ t.items \in [DOMAIN t.items -> Item]
      /\ \A i \in DOMAIN t.items : Follows(s.items[i], t.items[i])
  BY <1>3, <1>5 DEF Follows
<1>7. Kept(s, t)
  BY <1>2, <1>3, <1>4, <1>6 DEF Kept, Beside
<1>8. Boxed(t, k + c)
  BY <1>3, <1>4, <1>7, CutBoxed
<1>9. Moved(s, t, D)
  BY <1>1, <1>5, <1>6, <1>7, KeptMoved DEF Softly
<1>10. q \in Seq(Messages) /\ Plain(q) /\ Len(q) = c /\ c \in Nat
  BY <1>1, RepliesQueued, ExchangesFinite DEF CallersIn
<1> HIDE DEF q, c
<1>11. Boxed(u, (k + c) - Len(q)) /\ Moved(t, u, D)
  <2>1. k + c \in Nat /\ Len(q) <= k + c
    BY <1>10
  <2> QED
    BY <1>8, <1>10, <2>1, PostBoxed
<1>12. Boxed(u, k)
  <2>1. (k + c) - Len(q) = k
    BY <1>10
  <2> QED
    BY <1>11, <2>1
<1>13. IsState(t)
  BY <1>3 DEF Beside
<1>14. /\ Beside(t, u) /\ u.items = t.items /\ u.exchanges = t.exchanges
       /\ u.drawn = t.drawn /\ u.outbound = t.outbound \o q
  BY <1>13, PostFields
<1> HIDE DEF u
<1>15. Moved(s, u, D)
  <2>1. Typed(t) /\ Typed(u)
    BY <1>8, <1>12 DEF Boxed
  <2> QED
    BY <1>1, <1>9, <1>11, <2>1, MovedTwice
<1>16. Reduced(s, u)
  <2>1. \A i \in DOMAIN s.items : u.items[i].instance = s.items[i].instance
    BY <1>5, <1>14 DEF Follows
  <2>2. u.accepting = s.accepting /\ u.cursors = s.cursors
    BY <1>3, <1>14 DEF Beside
  <2>3. u.drawn = s.drawn /\ u.exchanges = t.exchanges /\ DOMAIN u.items = DOMAIN s.items
    BY <1>3, <1>6, <1>14
  <2>4. ASSUME NEW i \in Keys
        PROVE  Cardinality(RepliesIn(u.outbound, i)) =
                 Cardinality(RepliesIn(s.outbound, i))
                   + Cardinality(CallersOf(s, DOMAIN s.exchanges \ DOMAIN u.exchanges, i))
    <3>1. u.outbound = s.outbound \o q /\ s.outbound \in Seq(Messages)
      BY <1>1, <1>3, <1>14, Types
    <3>2. Cardinality(RepliesIn(q, i)) = Cardinality(CallersOf(s, X, i))
      BY <1>1, RepliesQueued DEF q
    <3>3. DOMAIN s.exchanges \ DOMAIN u.exchanges = X
      BY <1>4, <2>3
    <3>4. Cardinality(RepliesIn(s.outbound \o q, i)) =
            Cardinality(RepliesIn(s.outbound, i)) + Cardinality(RepliesIn(q, i))
      BY <1>10, <3>1, RepliesJoined
    <3> QED
      BY <3>1, <3>2, <3>3, <3>4
  <2> QED
    BY <1>4, <2>1, <2>2, <2>3, <2>4 DEF Reduced, Paid
<1>17. u.current = s.current /\ u.isolated = s.isolated
  BY <1>3, <1>14 DEF Beside
<1> QED
  BY <1>3, <1>4, <1>12, <1>14, <1>15, <1>16, <1>17

\* An isolated execution loses its fence.
LEMMA MarkBoxed ==
  ASSUME NEW s, NEW k \in Nat, NEW D, Boxed(s, k), NEW instance
  PROVE  LET t == MarkInstanceAmbiguous(s, instance)
         IN  /\ Boxed(t, k) /\ Moved(s, t, D) /\ Reduced(s, t)
             /\ t.current = s.current /\ t.exchanges = s.exchanges
<1> DEFINE A == {i \in DOMAIN s.items : s.items[i].instance = instance}
           v == [i \in DOMAIN s.items |-> IF i \in A THEN Isolate(s.items[i])
                                          ELSE s.items[i]]
           t == [s EXCEPT !.items = v, !.isolated = @ \cup A]
<1>1. MarkInstanceAmbiguous(s, instance) = t
  BY DEF MarkInstanceAmbiguous
<1>2. Typed(s)
  BY DEF Boxed
<1>3. /\ IsState(s)
      /\ s.accepting \in BOOLEAN /\ s.current \in Instances \cup {Nobody}
      /\ s.items \in [DOMAIN s.items -> Item]
      /\ s.exchanges \in [DOMAIN s.exchanges -> Exchange]
  BY <1>2, Types
<1>4. ASSUME NEW i \in DOMAIN s.items
      PROVE  /\ i \in DOMAIN v
             /\ Follows(s.items[i], v[i]) /\ v[i].hint = s.items[i].hint
             /\ v[i].phase \in Definite => s.items[i].phase \in Definite
             /\ i \notin A => v[i] = s.items[i]
  <2>1. s.items[i] \in Item
    BY <1>3
  <2>2. CASE i \in A
    <3>1. v[i] = Isolate(s.items[i])
      BY <2>2
    <3> QED
      BY <2>1, <2>2, <3>1, IsolateItem
  <2>3. CASE i \notin A
    BY <2>1, <2>3, SameSoftly DEF Softly
  <2> QED
    BY <2>2, <2>3
<1>5. DOMAIN v = DOMAIN s.items /\ A \subseteq DOMAIN s.items
      /\ v = [i \in DOMAIN v |-> v[i]]
  OBVIOUS
<1> HIDE DEF v, A
<1>6. /\ IsState(t) /\ t.accepting = s.accepting /\ t.current = s.current
      /\ t.outbound = s.outbound /\ t.cursors = s.cursors /\ t.drawn = s.drawn
      /\ t.exchanges = s.exchanges /\ t.reserved = s.reserved
      /\ t.items = v /\ t.isolated = s.isolated \cup A
  BY <1>3 DEF IsState, Fields
<1> HIDE DEF t
<1>7. v \in [DOMAIN v -> Item]
  BY <1>4, <1>5 DEF Follows
<1>8. Kept(s, t)
  BY <1>3, <1>4, <1>5, <1>6, <1>7 DEF Kept
<1>9. Boxed(t, k)
  BY <1>6, <1>8, KeptSame
<1>10. Moved(s, t, D)
  <2>1. \A i \in DOMAIN s.items :
          s.items[i].fence => (i \in DOMAIN t.items /\ t.items[i].fence) \/ i \in t.isolated
    BY <1>4, <1>5, <1>6
  <2>2. \A i \in DOMAIN t.items :
          /\ t.items[i].phase \in Definite => s.items[i].phase \in Definite
          /\ t.items[i].hint => s.items[i].hint
    BY <1>4, <1>5, <1>6
  <2> QED
    BY <1>2, <1>8, <2>1, <2>2, KeptMoved
<1>11. Reduced(s, t)
  BY <1>2, <1>4, <1>5, <1>6, SamePaid DEF Reduced, Follows
<1> QED
  BY <1>1, <1>6, <1>9, <1>10, <1>11

LEMMA RemovedBoxed ==
  ASSUME NEW s, NEW k \in Nat, NEW D, Boxed(s, k), NEW instance
  PROVE  LET t == FinishRemoved(s, instance)
         IN  /\ Boxed(t, k) /\ Moved(s, t, D) /\ Reduced(s, t)
             /\ t.current = s.current
             /\ \A x \in DOMAIN t.exchanges : t.exchanges[x].instance # instance
<1> DEFINE X == {x \in DOMAIN s.exchanges : s.exchanges[x].instance = instance}
           t == FinishErrors(s, X)
           u == MarkInstanceAmbiguous(t, instance)
<1>1. FinishRemoved(s, instance) = u
  BY DEF FinishRemoved, OnlyMark
<1>2. X \in SUBSET DOMAIN s.exchanges
  OBVIOUS
<1> HIDE DEF X
<1>3. /\ Boxed(t, k) /\ Moved(s, t, D) /\ Reduced(s, t) /\ t.current = s.current
      /\ DOMAIN t.exchanges = DOMAIN s.exchanges \ X
  BY <1>2, FinishBoxed
<1> HIDE DEF t
<1>4. /\ Boxed(u, k) /\ Moved(t, u, D) /\ Reduced(t, u) /\ u.current = t.current
      /\ u.exchanges = t.exchanges
  BY <1>3, MarkBoxed
<1> HIDE DEF u
<1>5. Typed(s) /\ Typed(t) /\ Typed(u)
  BY <1>3, <1>4 DEF Boxed
<1>6. Moved(s, u, D) /\ Reduced(s, u)
  BY <1>3, <1>4, <1>5, MovedTwice, ReducedTwice
<1>7. \A x \in DOMAIN u.exchanges : u.exchanges[x].instance # instance
  BY <1>3, <1>4 DEF Reduced, X
<1> QED
  BY <1>1, <1>3, <1>4, <1>6, <1>7

LEMMA CurrentBoxed ==
  ASSUME NEW s, NEW k \in Nat, NEW D, Boxed(s, k), NEW c \in Instances \cup {Nobody}
  PROVE  LET t == [s EXCEPT !.current = c]
         IN  /\ Boxed(t, k) /\ Moved(s, t, D) /\ Reduced(s, t)
             /\ t.current = c /\ t.exchanges = s.exchanges /\ t.items = s.items
<1> DEFINE t == [s EXCEPT !.current = c]
<1>1. Typed(s)
  BY DEF Boxed
<1>2. /\ IsState(s)
      /\ s.accepting \in BOOLEAN /\ s.current \in Instances \cup {Nobody}
      /\ s.items \in [DOMAIN s.items -> Item]
      /\ s.exchanges \in [DOMAIN s.exchanges -> Exchange]
  BY <1>1, Types
<1>3. /\ IsState(t) /\ t.accepting = s.accepting /\ t.current = c
      /\ t.outbound = s.outbound /\ t.cursors = s.cursors /\ t.drawn = s.drawn
      /\ t.exchanges = s.exchanges /\ t.reserved = s.reserved
      /\ t.items = s.items /\ t.isolated = s.isolated
  BY <1>2 DEF IsState, Fields
<1> HIDE DEF t
<1>4. Kept(s, t)
  <2>1. \A i \in DOMAIN s.items : Follows(s.items[i], s.items[i])
    BY <1>2, SameSoftly DEF Softly
  <2> QED
    BY <1>2, <1>3, <2>1 DEF Kept
<1>5. Boxed(t, k)
  BY <1>3, <1>4, KeptSame
<1>6. Moved(s, t, D)
  BY <1>1, <1>3, <1>4, KeptMoved
<1>7. Reduced(s, t)
  BY <1>1, <1>3, SamePaid DEF Reduced
<1> QED
  BY <1>3, <1>5, <1>6, <1>7 DEF t

LEMMA SameReduced ==
  ASSUME NEW s, NEW D, Typed(s)
  PROVE  Moved(s, s, D) /\ Reduced(s, s)
BY SameMoved, SamePaid DEF Reduced

\* Expiry unregisters whoever was registered, or does nothing.
LEMMA ExpireBoxed ==
  ASSUME NEW s, NEW k \in Nat, NEW D, Boxed(s, k), NEW lapse
  PROVE  LET t == Expire(s, lapse)
         IN  /\ Boxed(t, k) /\ Moved(s, t, D) /\ Reduced(s, t)
             /\ \/ t = s
                \/ /\ t.current = Nobody
                   /\ \A x \in DOMAIN t.exchanges : t.exchanges[x].instance # s.current
             /\ Pinned(s) => Pinned(t)
<1>1. CASE lapse /\ s.current # Nobody
  <2> DEFINE r == [s EXCEPT !.current = Nobody]
             t == FinishRemoved(r, s.current)
  <2>1. Expire(s, lapse) = t
    BY <1>1 DEF Expire
  <2>2. Boxed(r, k) /\ Moved(s, r, D) /\ Reduced(s, r) /\ r.current = Nobody
    BY CurrentBoxed
  <2> HIDE DEF r
  <2>3. /\ Boxed(t, k) /\ Moved(r, t, D) /\ Reduced(r, t) /\ t.current = r.current
        /\ \A x \in DOMAIN t.exchanges : t.exchanges[x].instance # s.current
    BY <2>2, RemovedBoxed
  <2> HIDE DEF t
  <2>4. Typed(s) /\ Typed(r) /\ Typed(t)
    BY <2>2, <2>3 DEF Boxed
  <2>5. Moved(s, t, D) /\ Reduced(s, t)
    BY <2>2, <2>3, <2>4, MovedTwice, ReducedTwice
  <2>6. Pinned(s) => Pinned(t)
    BY <2>3, <2>5 DEF Pinned, Reduced
  <2> QED
    BY <2>1, <2>2, <2>3, <2>5, <2>6
<1>2. CASE ~(lapse /\ s.current # Nobody)
  BY <1>2, SameReduced DEF Expire, Boxed
<1> QED
  BY <1>1, <1>2

LEMMA PinBoxed ==
  ASSUME NEW s, NEW j \in Nat, NEW D, Boxed(s, j), NEW k, NEW lapse
  PROVE  LET t == Pin(s, k, lapse)
         IN  /\ Boxed(t, j) /\ Moved(s, t, D) /\ Reduced(s, t)
             /\ Pinned(s) => Pinned(t)
<1> DEFINE t == Expire(s, lapse)
           u == MarkInstanceAmbiguous(t, t.items[k].instance)
<1>1. /\ Boxed(t, j) /\ Moved(s, t, D) /\ Reduced(s, t)
      /\ Pinned(s) => Pinned(t)
  BY ExpireBoxed
<1>2. Pin(s, k, lapse) = IF t.current = t.items[k].instance THEN t ELSE u
  BY DEF Pin
<1> HIDE DEF t
<1>3. /\ Boxed(u, j) /\ Moved(t, u, D) /\ Reduced(t, u)
      /\ u.current = t.current /\ u.exchanges = t.exchanges
  BY <1>1, MarkBoxed
<1> HIDE DEF u
<1>4. Typed(s) /\ Typed(t) /\ Typed(u)
  BY <1>1, <1>3 DEF Boxed
<1>5. Moved(s, u, D) /\ Reduced(s, u)
  BY <1>1, <1>3, <1>4, MovedTwice, ReducedTwice
<1>6. Pinned(s) => Pinned(u)
  BY <1>1, <1>3 DEF Pinned
<1> QED
  BY <1>1, <1>2, <1>3, <1>5, <1>6

-----------------------------------------------------------------------------
(* Requests.                                                               *)

\* t is s with a new exchange; j slots are still held beside the callers'.
Queued(s, t, j, k, purpose, caller) ==
  /\ Boxed(t, j) /\ Paid(s, t)
  /\ purpose # "invoke" => \A D : Moved(s, t, D)
  /\ t.items = s.items /\ t.cursors = s.cursors
  /\ t.accepting = s.accepting /\ t.current = s.current
  /\ t.isolated = s.isolated
  /\ DOMAIN t.exchanges = DOMAIN s.exchanges \cup {s.drawn + 1}
  /\ \A y \in DOMAIN s.exchanges : t.exchanges[y] = s.exchanges[y]
  /\ t.drawn = s.drawn + 1
  /\ t.exchanges[s.drawn + 1] = NewExchange(s, k, purpose, caller)
  /\ t.outbound = s.outbound \o <<Request(s.drawn + 1, k, purpose)>>

\* A request takes one slot, and for a Dora caller another one is held.
LEMMA QueueBoxed ==
  ASSUME NEW s, NEW j \in Nat, NEW k \in DOMAIN s.items, NEW purpose \in Purposes,
         NEW caller \in BOOLEAN,
         Boxed(s, IF caller THEN j + 2 ELSE j + 1),
         ~IsPending(s, k, purpose), s.drawn < MaxExchanges
  PROVE  Queued(s, QueueExchange(s, k, purpose, caller), j, k, purpose, caller)
<1> DEFINE t == QueueExchange(s, k, purpose, caller)
           p == s.outbound
           x == s.drawn + 1
           e == NewExchange(s, k, purpose, caller)
           r == Request(x, k, purpose)
           q == <<r>>
<1>1. Typed(s)
  BY DEF Boxed
<1>2. /\ IsState(s)
      /\ s.accepting \in BOOLEAN /\ s.current \in Instances \cup {Nobody}
      /\ DOMAIN s.items \subseteq Keys
      /\ s.items \in [DOMAIN s.items -> Item]
      /\ DOMAIN s.exchanges \subseteq 1..s.drawn
      /\ s.exchanges \in [DOMAIN s.exchanges -> Exchange]
      /\ p \in Seq(Messages) /\ Len(p) \in Nat /\ DOMAIN p = 1..Len(p)
      /\ s.reserved \in Nat
      /\ DOMAIN s.cursors \subseteq DoraKeys
      /\ s.cursors \in [DOMAIN s.cursors -> Nat]
      /\ s.drawn \in 0..MaxExchanges /\ s.drawn \in Nat
      /\ s.isolated \subseteq Keys
      /\ IsFiniteSet(DOMAIN s.items)
  BY <1>1, Types
<1>3. /\ Beside(s, t) /\ t.items = s.items
      /\ t.exchanges = [y \in DOMAIN s.exchanges \cup {x} |->
                          IF y = x THEN e ELSE s.exchanges[y]]
      /\ t.drawn = x /\ t.outbound = p \o q /\ t.reserved = s.reserved - 1
  <2>1. IsState(s)
    BY <1>2
  <2> QED
    <3>1. Queues(s, t, k, purpose, caller)
      BY <2>1, QueueFields
    <3> HIDE DEF t
    <3> QED
      BY <3>1 DEF Queues, NewExchanges
<1> HIDE DEF t
<1>4. /\ x \in Exchanges /\ x \in Nat /\ x \in 0..MaxExchanges /\ x = s.drawn + 1
      /\ x \notin 1..s.drawn /\ x \in 1..x /\ 1..s.drawn \subseteq 1..x
  BY <1>2, ServiceAssumption DEF Exchanges
<1>5. e \in Exchange /\ e.key = k /\ e.purpose = purpose /\ e.caller = caller
      /\ e.claimed = FALSE
  <2>1. s.items[k].instance \in Instances /\ k \in Keys
    BY <1>2 DEF Item
  <2> QED
    BY <2>1 DEF NewExchange, Exchange
<1>6. r \in Messages /\ r.kind = "request" /\ r.id = x /\ r.key = k
      /\ r.purpose = purpose
  BY <1>2, <1>4, MessageTypes
<1> HIDE DEF x, e, r
<1>7. /\ q \in Seq(Messages) /\ Len(q) = 1 /\ q[1] = r
  BY <1>6
<1> HIDE DEF q
<1>8. /\ p \o q \in Seq(Messages) /\ Len(p \o q) = Len(p) + 1
      /\ DOMAIN (p \o q) = 1..Len(p) + 1
      /\ \A n \in 1..Len(p) : (p \o q)[n] = p[n]
      /\ (p \o q)[Len(p) + 1] = r
  <2>1. /\ p \o q \in Seq(Messages) /\ Len(p \o q) = Len(p) + Len(q)
        /\ DOMAIN (p \o q) = 1..Len(p) + Len(q)
        /\ \A n \in 1..Len(p) : (p \o q)[n] = p[n]
        /\ \A n \in 1..Len(q) : (p \o q)[Len(p) + n] = q[n]
    <3>1. p \in Seq(Messages) /\ q \in Seq(Messages)
      BY <1>2, <1>7
    <3> HIDE DEF p
    <3> QED
      BY <3>1, Joined
  <2> QED
    BY <1>7, <2>1
<1>9. /\ \A n \in DOMAIN t.outbound :
           \/ n \in DOMAIN p /\ t.outbound[n] = p[n]
           \/ n = Len(p) + 1 /\ n \notin DOMAIN p /\ t.outbound[n] = r
      /\ \A n \in DOMAIN p : n \in DOMAIN t.outbound /\ t.outbound[n] = p[n]
      /\ Len(p) + 1 \in DOMAIN t.outbound /\ Len(p) + 1 \notin DOMAIN p
      /\ t.outbound[Len(p) + 1] = r
  BY <1>2, <1>3, <1>8
<1>10. /\ DOMAIN t.exchanges = DOMAIN s.exchanges \cup {x}
       /\ x \notin DOMAIN s.exchanges /\ t.exchanges[x] = e
       /\ \A y \in DOMAIN s.exchanges : t.exchanges[y] = s.exchanges[y]
  BY <1>2, <1>3, <1>4
<1>11. /\ IsState(t) /\ t.accepting = s.accepting /\ t.current = s.current
       /\ t.cursors = s.cursors /\ t.isolated = s.isolated
  BY <1>3 DEF Beside
<1> DEFINE A == CallersIn(s, DOMAIN s.exchanges)
           C == CallersIn(t, DOMAIN t.exchanges)
<1>12. Cardinality(A) \in Nat /\ IsFiniteSet(A)
  <2>1. A \in SUBSET DOMAIN s.exchanges
    BY DEF CallersIn
  <2> QED
    BY <1>1, <2>1, ExchangesFinite
<1>13. Cardinality(C) = IF caller THEN Cardinality(A) + 1 ELSE Cardinality(A)
  <2>1. x \notin A
    BY <1>10 DEF CallersIn
  <2>2. CASE caller
    <3>1. C = A \cup {x}
      BY <1>5, <1>10, <2>2 DEF CallersIn
    <3> QED
      BY <1>12, <2>1, <2>2, <3>1, FS_AddElement
  <2>3. CASE ~caller
    <3>1. C = A
      BY <1>5, <1>10, <2>3 DEF CallersIn
    <3> QED
      BY <2>3, <3>1
  <2> QED
    BY <2>2, <2>3
<1>14. /\ s.reserved = Cardinality(A) + (IF caller THEN j + 2 ELSE j + 1)
       /\ Len(p) + s.reserved <= Capacity
  BY DEF Boxed, Balanced
<1>15. t.reserved = Cardinality(C) + j /\ t.reserved \in Nat
       /\ Len(t.outbound) + t.reserved <= Capacity
  <2> HIDE DEF A, C
  <2>1. t.reserved = Cardinality(C) + j /\ Cardinality(C) \in Nat
    BY <1>3, <1>12, <1>13, <1>14
  <2>2. Len(t.outbound) = Len(p) + 1 /\ t.reserved = s.reserved - 1
    BY <1>3, <1>8
  <2> QED
    BY <1>2, <1>14, <2>1, <2>2, ServiceAssumption
<1>16. Typed(t)
  <2>1. DOMAIN t.exchanges \subseteq 1..t.drawn
    BY <1>2, <1>3, <1>4, <1>10
  <2>2. t.exchanges \in [DOMAIN t.exchanges -> Exchange]
    BY <1>2, <1>3, <1>5
  <2> QED
    BY <1>2, <1>3, <1>4, <1>8, <1>11, <1>15, <2>1, <2>2, ServiceTyped
<1>17. Single(t)
  <2>1. \A y \in DOMAIN s.exchanges :
          ~(s.exchanges[y].key = k /\ s.exchanges[y].purpose = purpose)
    BY DEF IsPending
  <2> QED
    BY <1>5, <1>10, <2>1 DEF Boxed, Single
<1>18. RequestsAgree(t)
  <2>1. Agrees(t, r)
    BY <1>3, <1>4, <1>5, <1>6, <1>10 DEF Agrees
  <2>2. ASSUME NEW m, Agrees(s, m) PROVE Agrees(t, m)
    BY <1>3, <1>4, <1>10, <2>2 DEF Agrees
  <2> QED
    BY <1>9, <2>1, <2>2 DEF Boxed, RequestsAgree
<1>19. QueuedOnce(t)
  <2> SUFFICES ASSUME NEW y \in DOMAIN t.exchanges, ~t.exchanges[y].claimed
               PROVE  \E n \in DOMAIN t.outbound :
                        \A i \in DOMAIN t.outbound :
                          IsRequest(t.outbound[i], y) <=> i = n
    BY DEF QueuedOnce
  <2>1. CASE y = x
    <3>1. ASSUME NEW i \in DOMAIN t.outbound
          PROVE  IsRequest(t.outbound[i], y) <=> i = Len(p) + 1
      <4>1. CASE i \in DOMAIN p
        BY <1>4, <1>9, <2>1, <4>1 DEF Boxed, RequestsAgree, Agrees, IsRequest
      <4>2. CASE i = Len(p) + 1
        BY <1>6, <1>9, <2>1, <4>2 DEF IsRequest
      <4> QED
        BY <1>9, <4>1, <4>2
    <3> QED
      BY <1>9, <3>1
  <2>2. CASE y \in DOMAIN s.exchanges
    <3>1. PICK n \in DOMAIN p : \A i \in DOMAIN p : IsRequest(p[i], y) <=> i = n
      BY <1>10, <2>2 DEF Boxed, QueuedOnce
    <3>2. ~IsRequest(r, y)
      BY <1>6, <1>10, <2>2 DEF IsRequest
    <3>3. ASSUME NEW i \in DOMAIN t.outbound
          PROVE  IsRequest(t.outbound[i], y) <=> i = n
      BY <1>9, <3>1, <3>2
    <3> QED
      BY <1>9, <3>1, <3>3
  <2> QED
    BY <1>10, <2>1, <2>2
<1>20. CursorsKept(t)
  BY <1>3, <1>11 DEF Boxed, CursorsKept
<1>21. EventsFit(t)
  <2>1. ASSUME NEW m, EventFits(s, m)
        PROVE  EventFits(t, m)
    BY <1>3, <1>11, <2>1 DEF EventFits
  <2>2. ASSUME NEW i \in DOMAIN t.outbound, NEW n \in DOMAIN t.outbound, i < n
        PROVE  Precedes(t.outbound[i], t.outbound[n])
    BY <1>6, <1>9, <2>2 DEF Precedes, Boxed, EventsFit
  <2> QED
    BY <1>6, <1>9, <2>1, <2>2 DEF Boxed, EventsFit
<1>22. Boxed(t, j)
  BY <1>15, <1>16, <1>17, <1>18, <1>19, <1>20, <1>21 DEF Boxed, Balanced
<1>23. ASSUME purpose # "invoke", NEW D
       PROVE  Moved(s, t, D)
  <2>1. ASSUME NEW i \in Keys, Fresh(s, i)
        PROVE  Fresh(t, i)
    <3>1. i # k
      BY <2>1 DEF Fresh
    <3> QED
      BY <1>3, <1>5, <1>6, <1>9, <1>10, <1>11, <2>1, <3>1 DEF Fresh
  <2>2. s.drawn <= t.drawn
    BY <1>2, <1>3, <1>4
  <2>3. \A y \in DOMAIN t.exchanges :
          \/ y \in DOMAIN s.exchanges /\ t.exchanges[y] = s.exchanges[y]
          \/ y \notin 1..s.drawn /\ t.exchanges[y].purpose # "invoke"
    BY <1>4, <1>5, <1>10, <1>23
  <2> QED
    BY <1>3, <1>11, <2>1, <2>2, <2>3 DEF Moved
<1>24. Paid(s, t)
  <2>1. ASSUME NEW i
        PROVE  Cardinality(RepliesIn(t.outbound, i)) = Cardinality(RepliesIn(p, i))
    <3>1. RepliesIn(t.outbound, i) = RepliesIn(p, i)
      BY <1>6, <1>9 DEF RepliesIn
    <3> QED
      BY <3>1
  <2>2. ASSUME NEW i
        PROVE  Cardinality(CallersOf(s, DOMAIN s.exchanges \ DOMAIN t.exchanges, i)) = 0
    <3>1. CallersOf(s, DOMAIN s.exchanges \ DOMAIN t.exchanges, i) = {}
      BY <1>10 DEF CallersOf
    <3> QED
      BY <3>1, FS_EmptySet
  <2>3. \A i : Cardinality(RepliesIn(p, i)) \in Nat
    BY <1>2, RepliesFinite
  <2> HIDE DEF p
  <2> QED
    BY <2>1, <2>2, <2>3 DEF Paid, p
<1> QED
  BY <1>3, <1>10, <1>11, <1>22, <1>23, <1>24 DEF Queued, t, x, e, q, r

LEMMA ReserveReduced ==
  ASSUME NEW s, Typed(s), NEW n
  PROVE  LET t == [s EXCEPT !.reserved = @ + n]
         IN  /\ Reduced(s, t) /\ t.current = s.current /\ t.exchanges = s.exchanges
             /\ t.items = s.items
<1> DEFINE t == [s EXCEPT !.reserved = @ + n]
<1>1. IsState(s)
  BY Types
<1>2. /\ Beside(s, t) /\ t.items = s.items /\ t.exchanges = s.exchanges
      /\ t.drawn = s.drawn /\ t.outbound = s.outbound
  BY <1>1, ReserveFields
<1> HIDE DEF t
<1> QED
  BY <1>2, SamePaid DEF Reduced, Beside, t

\* A refresh of an execution that is retained: it may leave a new exchange.
LEMMA RefreshBoxed ==
  ASSUME NEW s, NEW j \in Nat, NEW D, Boxed(s, j), NEW k \in DOMAIN s.items,
         NEW purpose \in Purposes \ {"invoke"}, NEW lapse, NEW caller \in BOOLEAN,
         s.drawn < MaxExchanges
  PROVE  LET t == Refresh(s, k, purpose, lapse, caller)
         IN  /\ Boxed(t, j) /\ Moved(s, t, D) /\ Paid(s, t)
             /\ Pinned(s) => Pinned(t)
             /\ t.cursors = s.cursors /\ DOMAIN t.items = DOMAIN s.items
<1> DEFINE t == Pin(s, k, lapse)
           slots == IF caller THEN 2 ELSE 1
           r == [t EXCEPT !.reserved = @ + slots]
           u == QueueExchange(r, k, purpose, caller)
<1>1. /\ Boxed(t, j) /\ Moved(s, t, D) /\ Reduced(s, t)
      /\ Pinned(s) => Pinned(t)
  BY PinBoxed
<1>2. Refresh(s, k, purpose, lapse, caller) =
        IF IsPending(s, k, purpose) THEN s
        ELSE IF /\ t.current = t.items[k].instance /\ HasRoom(t, slots)
                /\ CanExchange(t)
        THEN u ELSE t
  BY DEF Refresh
<1> HIDE DEF t
<1>3. Typed(s) /\ Typed(t)
  BY <1>1 DEF Boxed
<1>4. CASE IsPending(s, k, purpose)
  BY <1>2, <1>3, <1>4, SameReduced DEF Reduced
<1>5. ASSUME ~IsPending(s, k, purpose), t.current = t.items[k].instance,
             HasRoom(t, slots)
      PROVE  /\ Boxed(u, j) /\ Moved(s, u, D) /\ Paid(s, u)
             /\ Pinned(s) => Pinned(u)
             /\ u.cursors = s.cursors /\ DOMAIN u.items = DOMAIN s.items
  <2>1. slots \in Nat
    OBVIOUS
  <2>2. Boxed(r, j + slots) /\ Moved(t, r, D)
    BY <1>1, <1>5, <2>1, ReserveBoxed
  <2>3. Reduced(t, r) /\ r.current = t.current /\ r.exchanges = t.exchanges
        /\ r.items = t.items
    BY <1>3, ReserveReduced
  <2>4. j + slots = IF caller THEN j + 2 ELSE j + 1
    OBVIOUS
  <2> HIDE DEF r, slots
  <2>5. Boxed(r, IF caller THEN j + 2 ELSE j + 1)
    BY <2>2, <2>4
  <2>6. Typed(r)
    BY <2>2 DEF Boxed
  <2>7. Moved(s, r, D) /\ Reduced(s, r)
    BY <1>1, <1>3, <2>2, <2>3, <2>6, MovedTwice, ReducedTwice
  <2>8. k \in DOMAIN r.items /\ r.drawn = s.drawn /\ ~IsPending(r, k, purpose)
    BY <1>5, <2>7, ReducedPending DEF Reduced
  <2>9. /\ Boxed(u, j) /\ Paid(r, u) /\ Moved(r, u, D)
        /\ u.items = r.items /\ u.cursors = r.cursors /\ u.current = r.current
        /\ DOMAIN u.exchanges = DOMAIN r.exchanges \cup {r.drawn + 1}
        /\ \A y \in DOMAIN r.exchanges : u.exchanges[y] = r.exchanges[y]
        /\ u.exchanges[r.drawn + 1] = NewExchange(r, k, purpose, caller)
    <3>1. Queued(r, u, j, k, purpose, caller)
      BY <2>5, <2>8, QueueBoxed
    <3> HIDE DEF u
    <3> QED
      BY <3>1 DEF Queued
  <2> HIDE DEF u
  <2>10. Typed(u)
    BY <2>9 DEF Boxed
  <2>11. Moved(s, u, D)
    BY <1>3, <2>6, <2>7, <2>9, <2>10, MovedTwice
  <2>12. Paid(s, u)
    <3>1. s.drawn + 1 \notin DOMAIN s.exchanges
      BY <1>3, Types
    <3>2. DOMAIN u.exchanges \cap DOMAIN s.exchanges \subseteq DOMAIN r.exchanges
      BY <2>8, <2>9, <3>1
    <3> QED
      BY <1>3, <2>6, <2>7, <2>9, <2>10, <3>2, PaidTwice DEF Reduced
  <2>13. Pinned(s) => Pinned(u)
    BY <1>1, <1>5, <2>3, <2>9 DEF Pinned, NewExchange
  <2>14. u.cursors = s.cursors /\ DOMAIN u.items = DOMAIN s.items
    BY <2>7, <2>9 DEF Reduced
  <2> QED
    BY <2>9, <2>11, <2>12, <2>13, <2>14
<1> HIDE DEF u, slots
<1> QED
  BY <1>1, <1>2, <1>4, <1>5 DEF Reduced

\* What every operation does to the service's promises: one more reply at most
\* than it owes for the exchanges that are over.
Served(s, t) ==
  \A k \in Keys :
    LET owed == Cardinality(RepliesIn(s.outbound, k))
                  + Cardinality(CallersOf(s, DOMAIN s.exchanges \ DOMAIN t.exchanges, k))
    IN Cardinality(RepliesIn(t.outbound, k)) \in {owed, owed + 1}
Sound(s, t, D) ==
  Boxed(t, 0) /\ Moved(s, t, D) /\ Served(s, t) /\ (Pinned(s) => Pinned(t))

LEMMA PaidServed ==
  ASSUME NEW s, NEW t, Paid(s, t)
  PROVE  Served(s, t)
BY DEF Paid, Served

\* A reply goes to its caller alone.
LEMMA ReplyPosted ==
  ASSUME NEW r, NEW j \in Nat, NEW D, Boxed(r, j + 1), NEW k \in Keys
  PROVE  LET t == Post(r, <<Reply(k)>>)
         IN  /\ Boxed(t, j) /\ Moved(r, t, D)
             /\ t.items = r.items /\ t.exchanges = r.exchanges
             /\ t.current = r.current
             /\ \A i \in Keys : Cardinality(RepliesIn(t.outbound, i)) =
                                  Cardinality(RepliesIn(r.outbound, i))
                                    + (IF i = k THEN 1 ELSE 0)
<1> DEFINE q == <<Reply(k)>>
           t == Post(r, q)
<1>1. IsState(r) /\ r.outbound \in Seq(Messages)
  BY Types DEF Boxed
<1>2. Reply(k) \in Messages /\ Reply(k).kind = "reply" /\ Reply(k).key = k
  BY MessageTypes
<1>3. q \in Seq(Messages) /\ Len(q) = 1 /\ DOMAIN q = {1} /\ q[1] = Reply(k)
  BY <1>2
<1>4. Plain(q)
  BY <1>2, <1>3 DEF Plain
<1> HIDE DEF q
<1>5. Boxed(t, (j + 1) - Len(q)) /\ Moved(r, t, D)
  <2>1. j + 1 \in Nat /\ Len(q) <= j + 1
    BY <1>3
  <2> QED
    BY <1>3, <1>4, <2>1, PostBoxed
<1>6. Boxed(t, j)
  <2>1. (j + 1) - Len(q) = j
    BY <1>3
  <2> QED
    BY <1>5, <2>1
<1>7. /\ Beside(r, t) /\ t.items = r.items /\ t.exchanges = r.exchanges
      /\ t.outbound = r.outbound \o q
  BY <1>1, PostFields
<1> HIDE DEF t
<1>8. ASSUME NEW i \in Keys
      PROVE  Cardinality(RepliesIn(t.outbound, i)) =
               Cardinality(RepliesIn(r.outbound, i)) + (IF i = k THEN 1 ELSE 0)
  <2>1. Cardinality(RepliesIn(r.outbound \o q, i)) =
          Cardinality(RepliesIn(r.outbound, i)) + Cardinality(RepliesIn(q, i))
    BY <1>1, <1>3, RepliesJoined
  <2>2. Cardinality(RepliesIn(q, i)) = IF i = k THEN 1 ELSE 0
    <3>1. RepliesIn(q, i) = IF i = k THEN {1} ELSE {}
      BY <1>2, <1>3 DEF RepliesIn
    <3> QED
      BY <3>1, FS_EmptySet, FS_Singleton
  <2> QED
    BY <1>7, <2>1, <2>2
<1> QED
  BY <1>5, <1>6, <1>7, <1>8 DEF t, q, Beside

\* An answer may be added to what has been paid.
LEMMA AnswerBoxed ==
  ASSUME NEW s, NEW j \in Nat, NEW D, Boxed(s, j), NEW k \in Keys
  PROVE  LET t == Answer(s, k)
         IN  /\ Boxed(t, j) /\ Moved(s, t, D)
             /\ t.items = s.items /\ t.exchanges = s.exchanges
             /\ t.current = s.current
             /\ \A i \in Keys : Cardinality(RepliesIn(t.outbound, i)) \in
                                  {Cardinality(RepliesIn(s.outbound, i)),
                                   Cardinality(RepliesIn(s.outbound, i)) + 1}
<1>1. Typed(s)
  BY DEF Boxed
<1>2. CASE ~HasRoom(s, 1)
  BY <1>1, <1>2, SameReduced DEF Answer
<1>3. CASE HasRoom(s, 1)
  <2> DEFINE r == [s EXCEPT !.reserved = @ + 1]
             t == Post(r, <<Reply(k)>>)
  <2>1. Answer(s, k) = t
    BY <1>3 DEF Answer, Reserve
  <2>2. Boxed(r, j + 1) /\ Moved(s, r, D)
    BY <1>3, ReserveBoxed
  <2>3. IsState(s) /\ s.outbound \in Seq(Messages)
    BY <1>1, Types
  <2>4. /\ r.items = s.items /\ r.exchanges = s.exchanges
        /\ r.outbound = s.outbound /\ r.current = s.current
    BY <2>3, ReserveFields DEF Beside
  <2> HIDE DEF r
  <2>5. /\ Boxed(t, j) /\ Moved(r, t, D)
        /\ t.items = r.items /\ t.exchanges = r.exchanges
        /\ t.current = r.current
        /\ \A i \in Keys : Cardinality(RepliesIn(t.outbound, i)) =
                             Cardinality(RepliesIn(r.outbound, i))
                               + (IF i = k THEN 1 ELSE 0)
    BY <2>2, ReplyPosted
  <2> HIDE DEF t
  <2>6. Moved(s, t, D)
    BY <1>1, <2>2, <2>5, MovedTwice DEF Boxed
  <2>7. ASSUME NEW i \in Keys
        PROVE  Cardinality(RepliesIn(t.outbound, i)) \in
                 {Cardinality(RepliesIn(s.outbound, i)),
                  Cardinality(RepliesIn(s.outbound, i)) + 1}
    <3>1. Cardinality(RepliesIn(s.outbound, i)) \in Nat
      BY <2>3, RepliesFinite
    <3> QED
      BY <2>4, <2>5, <3>1
  <2> QED
    BY <2>1, <2>4, <2>5, <2>6, <2>7
<1> QED
  BY <1>2, <1>3

\* What was paid, and an answer after it.
LEMMA AnswerSound ==
  ASSUME NEW s, NEW t, NEW D, NEW k \in Keys, Typed(s), Boxed(t, 0),
         Moved(s, t, D), Paid(s, t), Pinned(s) => Pinned(t)
  PROVE  Sound(s, Answer(t, k), D)
<1> DEFINE u == Answer(t, k)
<1>1. /\ Boxed(u, 0) /\ Moved(t, u, D)
      /\ u.items = t.items /\ u.exchanges = t.exchanges
      /\ u.current = t.current
      /\ \A i \in Keys : Cardinality(RepliesIn(u.outbound, i)) \in
                           {Cardinality(RepliesIn(t.outbound, i)),
                            Cardinality(RepliesIn(t.outbound, i)) + 1}
  BY AnswerBoxed
<1> HIDE DEF u
<1>2. Moved(s, u, D)
  BY <1>1, MovedTwice DEF Boxed
<1>3. Served(s, u)
  BY <1>1 DEF Served, Paid
<1>4. Pinned(s) => Pinned(u)
  BY <1>1 DEF Pinned
<1> QED
  BY <1>1, <1>2, <1>3, <1>4 DEF Sound, u

LEMMA LookupPurposes ==
  /\ Lookups \subseteq Purposes \ {"invoke"}
  /\ Commands \subseteq Purposes \ {"invoke"}
  /\ \A c \in Commands : ControlOf(c) \in Purposes \ {"invoke"}
BY StoreAssumption DEF Purposes, Lookups, ControlOf

LEMMA HttpRefreshSound ==
  ASSUME NEW s, NEW D, Boxed(s, 0), NEW k, NEW purpose \in Lookups, NEW lapse,
         s.drawn < MaxExchanges
  PROVE  Sound(s, HttpRefresh(s, k, purpose, lapse), D)
<1>1. CASE k \in DOMAIN s.items
  <2>1. purpose \in Purposes \ {"invoke"} /\ FALSE \in BOOLEAN /\ 0 \in Nat
    BY LookupPurposes
  <2>2. LET t == Refresh(s, k, purpose, lapse, FALSE)
        IN  Boxed(t, 0) /\ Moved(s, t, D) /\ Paid(s, t) /\ (Pinned(s) => Pinned(t))
    BY <1>1, <2>1, RefreshBoxed
  <2> QED
    BY <1>1, <2>2, PaidServed DEF HttpRefresh, Sound
<1>2. CASE k \notin DOMAIN s.items
  BY <1>2, SameReduced, PaidServed DEF HttpRefresh, Sound, Boxed, Reduced
<1> QED
  BY <1>1, <1>2

LEMMA CallerRefreshSound ==
  ASSUME NEW s, NEW D, Boxed(s, 0), NEW k \in Keys, NEW purpose \in Lookups, NEW lapse,
         s.drawn < MaxExchanges
  PROVE  Sound(s, CallerRefresh(s, k, purpose, lapse), D)
<1>1. Typed(s)
  BY DEF Boxed
<1>2. CASE k \in DOMAIN s.items
  <2> DEFINE t == Refresh(s, k, purpose, lapse, TRUE)
  <2>1. purpose \in Purposes \ {"invoke"} /\ TRUE \in BOOLEAN /\ 0 \in Nat
    BY LookupPurposes
  <2>2. Boxed(t, 0) /\ Moved(s, t, D) /\ Paid(s, t) /\ (Pinned(s) => Pinned(t))
    BY <1>2, <2>1, RefreshBoxed
  <2>3. CallerRefresh(s, k, purpose, lapse) = IF t.drawn > s.drawn THEN t ELSE Answer(t, k)
    BY <1>2 DEF CallerRefresh
  <2> HIDE DEF t
  <2>4. Sound(s, Answer(t, k), D)
    BY <1>1, <2>2, AnswerSound
  <2> QED
    BY <2>2, <2>3, <2>4, PaidServed DEF Sound
<1>3. CASE k \notin DOMAIN s.items
  <2>1. Moved(s, s, D) /\ Paid(s, s)
    BY <1>1, SameReduced DEF Reduced
  <2>2. Sound(s, Answer(s, k), D)
    BY <1>1, <2>1, AnswerSound
  <2> QED
    BY <1>3, <2>2 DEF CallerRefresh
<1> QED
  BY <1>2, <1>3

\* New items in place of the old ones.
LEMMA ItemsBoxed ==
  ASSUME NEW s, NEW j \in Nat, NEW D, Boxed(s, j), NEW v,
         v = [i \in DOMAIN s.items |-> v[i]],
         \A i \in DOMAIN s.items :
           /\ Follows(s.items[i], v[i])
           /\ s.items[i].fence => v[i].fence \/ i \in D
           /\ v[i].phase \in Definite => s.items[i].phase \in Definite \/ i \in D
           /\ v[i].hint => s.items[i].hint \/ i \in D
  PROVE  LET t == [s EXCEPT !.items = v]
         IN  /\ Boxed(t, j) /\ Moved(s, t, D) /\ Reduced(s, t)
             /\ t.items = v /\ t.exchanges = s.exchanges /\ t.current = s.current
<1> DEFINE t == [s EXCEPT !.items = v]
<1>1. Typed(s)
  BY DEF Boxed
<1>2. /\ IsState(s)
      /\ s.accepting \in BOOLEAN /\ s.current \in Instances \cup {Nobody}
      /\ s.exchanges \in [DOMAIN s.exchanges -> Exchange]
  BY <1>1, Types
<1>3. /\ Beside(s, t) /\ t.items = v /\ t.exchanges = s.exchanges
      /\ t.drawn = s.drawn /\ t.outbound = s.outbound /\ t.reserved = s.reserved
  BY <1>2, ItemsFields
<1> HIDE DEF t
<1>4. /\ DOMAIN v = DOMAIN s.items
      /\ v \in [DOMAIN v -> Item]
      /\ \A i \in DOMAIN v : Follows(s.items[i], v[i])
  BY DEF Follows
<1>5. Kept(s, t)
  BY <1>2, <1>3, <1>4 DEF Kept, Beside
<1>6. Boxed(t, j)
  BY <1>3, <1>5, KeptSame
<1>7. Moved(s, t, D)
  BY <1>1, <1>3, <1>4, <1>5, KeptMoved
<1>8. Reduced(s, t)
  BY <1>1, <1>3, <1>4, SamePaid DEF Reduced, Beside, Follows
<1> QED
  BY <1>3, <1>6, <1>7, <1>8 DEF t, Beside

LEMMA ControlBoxed ==
  ASSUME NEW s, NEW j \in Nat, NEW D, Boxed(s, j), NEW k, NEW c,
         NEW status \in ControlStatuses
  PROVE  LET t == SetControl(s, k, c, status)
         IN  /\ Boxed(t, j) /\ Moved(s, t, D) /\ Reduced(s, t)
             /\ t.exchanges = s.exchanges /\ t.current = s.current
<1> DEFINE new(i) == [i EXCEPT !.control[c] = status]
           v == [i \in DOMAIN s.items |-> IF i = k THEN new(s.items[i]) ELSE s.items[i]]
           t == [s EXCEPT !.items = v]
<1>1. Typed(s)
  BY DEF Boxed
<1>2. IsState(s) /\ s.items \in [DOMAIN s.items -> Item]
  BY <1>1, Types
<1>3. SetControl(s, k, c, status) = t
  <2>1. CASE k \in DOMAIN s.items
    <3>1. v = [s.items EXCEPT ![k] = new(s.items[k])]
      BY <1>2, <2>1
    <3> QED
      BY <2>1, <3>1 DEF SetControl, Update
  <2>2. CASE k \notin DOMAIN s.items
    <3>1. v = s.items
      BY <1>2, <2>2
    <3> QED
      BY <2>2, <3>1 DEF SetControl, Update
  <2> QED
    BY <2>1, <2>2
<1>4. ASSUME NEW i \in DOMAIN s.items
      PROVE  Softly(s.items[i], v[i])
  <2>1. s.items[i] \in Item
    BY <1>2
  <2>2. Softly(s.items[i], new(s.items[i])) /\ Softly(s.items[i], s.items[i])
    BY <2>1, ControlItem, SameSoftly
  <2> QED
    BY <2>2
<1>5. v = [i \in DOMAIN s.items |-> v[i]]
  OBVIOUS
<1> HIDE DEF v
<1>6. Boxed(t, j) /\ Moved(s, t, D) /\ Reduced(s, t)
      /\ t.exchanges = s.exchanges /\ t.current = s.current
  BY <1>4, <1>5, ItemsBoxed DEF Softly
<1> QED
  BY <1>3, <1>6

\* A command is noted and queued.
LEMMA CommandQueued ==
  ASSUME NEW s, NEW r, NEW D, NEW k \in DOMAIN s.items, NEW c \in Commands,
         NEW purpose \in Purposes \ {"invoke"}, NEW caller \in BOOLEAN,
         Boxed(s, 0), Boxed(r, IF caller THEN 2 ELSE 1), Moved(s, r, D),
         Reduced(s, r), Pinned(s) => Pinned(r), r.current = r.items[k].instance,
         ~IsPending(r, k, purpose), s.drawn < MaxExchanges
  PROVE  Sound(s, QueueExchange(SetControl(r, k, c, "requested"), k, purpose, caller), D)
<1> DEFINE n == IF caller THEN 2 ELSE 1
           w == SetControl(r, k, c, "requested")
           u == QueueExchange(w, k, purpose, caller)
<1>1. n \in Nat /\ n = IF caller THEN 0 + 2 ELSE 0 + 1
  OBVIOUS
<1>2. "requested" \in ControlStatuses
  BY DEF ControlStatuses
<1>3. Boxed(r, n)
  OBVIOUS
<1> HIDE DEF n
<1>3a. n \in Nat
  BY <1>1
<1>4. /\ Boxed(w, n) /\ Moved(r, w, D) /\ Reduced(r, w)
      /\ w.exchanges = r.exchanges /\ w.current = r.current
  BY <1>2, <1>3, <1>3a, ControlBoxed
<1> HIDE DEF w
<1>5. Typed(s) /\ Typed(r) /\ Typed(w)
  BY <1>3, <1>4 DEF Boxed
<1>6. Moved(s, w, D) /\ Reduced(s, w)
  BY <1>4, <1>5, MovedTwice, ReducedTwice
<1>7. k \in DOMAIN w.items /\ w.drawn = s.drawn /\ ~IsPending(w, k, purpose)
      /\ w.items[k].instance = r.items[k].instance
  BY <1>4, <1>6, ReducedPending DEF Reduced
<1>8. Boxed(w, IF caller THEN 0 + 2 ELSE 0 + 1)
  BY <1>1, <1>4
<1>9. Queued(w, u, 0, k, purpose, caller)
  BY <1>7, <1>8, QueueBoxed
<1> HIDE DEF u
<1>10. /\ Boxed(u, 0) /\ Paid(w, u) /\ Moved(w, u, D)
       /\ u.current = w.current
       /\ DOMAIN u.exchanges = DOMAIN w.exchanges \cup {w.drawn + 1}
       /\ \A y \in DOMAIN w.exchanges : u.exchanges[y] = w.exchanges[y]
       /\ u.exchanges[w.drawn + 1] = NewExchange(w, k, purpose, caller)
  BY <1>9 DEF Queued
<1>11. Typed(u)
  BY <1>10 DEF Boxed
<1>12. Moved(s, u, D)
  BY <1>5, <1>6, <1>10, <1>11, MovedTwice
<1>13. Paid(s, u)
  <2>1. s.drawn + 1 \notin DOMAIN s.exchanges
    BY <1>5, Types
  <2>2. DOMAIN u.exchanges \cap DOMAIN s.exchanges \subseteq DOMAIN w.exchanges
    BY <1>7, <1>10, <2>1
  <2> QED
    BY <1>5, <1>6, <1>10, <1>11, <2>2, PaidTwice DEF Reduced
<1>14. Pinned(s) => Pinned(u)
  BY <1>4, <1>7, <1>10 DEF Pinned, NewExchange
<1> QED
  BY <1>10, <1>12, <1>13, <1>14, PaidServed DEF Sound, u, w

LEMMA ReservedOnce ==
  ASSUME NEW s, NEW t, NEW D, Boxed(t, 0), Moved(s, t, D), Reduced(s, t), Typed(s),
         HasRoom(t, 1), Pinned(s) => Pinned(t)
  PROVE  LET r == Reserve(t)
         IN  /\ Boxed(r, 1) /\ Moved(s, r, D) /\ Reduced(s, r)
             /\ r.current = t.current /\ r.items = t.items /\ r.exchanges = t.exchanges
             /\ Pinned(s) => Pinned(r)
<1> DEFINE r == [t EXCEPT !.reserved = @ + 1]
<1>1. Reserve(t) = r
  BY DEF Reserve
<1>2. Typed(t)
  BY DEF Boxed
<1>3. Boxed(r, 1) /\ Moved(t, r, D)
  <2>1. Boxed(r, 0 + 1) /\ Moved(t, r, D)
    BY ReserveBoxed
  <2> QED
    BY <2>1
<1>4. Reduced(t, r) /\ r.current = t.current /\ r.exchanges = t.exchanges
      /\ r.items = t.items
  BY <1>2, ReserveReduced
<1> HIDE DEF r
<1>5. Moved(s, r, D) /\ Reduced(s, r)
  BY <1>2, <1>3, <1>4, MovedTwice, ReducedTwice DEF Boxed
<1> QED
  BY <1>1, <1>3, <1>4, <1>5 DEF Pinned

LEMMA ReservedTwice ==
  ASSUME NEW s, NEW t, NEW D, Boxed(t, 0), Moved(s, t, D), Reduced(s, t), Typed(s),
         HasRoom(t, 2), Pinned(s) => Pinned(t)
  PROVE  LET r == Reserve(Reserve(t))
         IN  /\ Boxed(r, 2) /\ Moved(s, r, D) /\ Reduced(s, r)
             /\ r.current = t.current /\ r.items = t.items /\ r.exchanges = t.exchanges
             /\ Pinned(s) => Pinned(r)
<1> DEFINE p == Reserve(t)
           r == [p EXCEPT !.reserved = @ + 1]
<1>1. Reserve(Reserve(t)) = r
  BY DEF Reserve
<1>2. HasRoom(t, 1)
  BY Types, ServiceAssumption DEF HasRoom, Boxed
<1>3. /\ Boxed(p, 1) /\ Moved(s, p, D) /\ Reduced(s, p)
      /\ p.current = t.current /\ p.items = t.items /\ p.exchanges = t.exchanges
      /\ Pinned(s) => Pinned(p)
  BY <1>2, ReservedOnce
<1>4. HasRoom(p, 1)
  <2>1. IsState(t) /\ t.reserved \in Nat /\ Len(t.outbound) \in Nat
    BY Types DEF Boxed
  <2>2. p.outbound = t.outbound /\ p.reserved = t.reserved + 1
    BY <2>1, ReserveFields DEF Reserve
  <2> HIDE DEF p
  <2> QED
    BY <2>1, <2>2 DEF HasRoom
<1> HIDE DEF p
<1>5. Boxed(r, 2) /\ Moved(p, r, D)
  <2>1. Boxed(r, 1 + 1) /\ Moved(p, r, D)
    BY <1>3, <1>4, ReserveBoxed
  <2> QED
    BY <2>1
<1>6. Reduced(p, r) /\ r.current = p.current /\ r.exchanges = p.exchanges
      /\ r.items = p.items
  BY <1>3, ReserveReduced DEF Boxed
<1> HIDE DEF r
<1>7. Moved(s, r, D) /\ Reduced(s, r)
  BY <1>3, <1>5, <1>6, MovedTwice, ReducedTwice DEF Boxed
<1> QED
  BY <1>1, <1>3, <1>5, <1>6, <1>7 DEF Pinned

LEMMA HttpControlSound ==
  ASSUME NEW s, NEW D, Boxed(s, 0), NEW k, NEW c \in Commands, NEW lapse,
         s.drawn < MaxExchanges
  PROVE  Sound(s, HttpControl(s, k, c, lapse), D)
<1> DEFINE t == Pin(s, k, lapse)
           r == Reserve(t)
           u == QueueExchange(SetControl(r, k, c, "requested"), k, c, FALSE)
           e == SetControl(t, k, c, "transport_error")
<1>1. Typed(s)
  BY DEF Boxed
<1>2. /\ Boxed(t, 0) /\ Moved(s, t, D) /\ Reduced(s, t)
      /\ Pinned(s) => Pinned(t)
  BY PinBoxed
<1>3. \/ HttpControl(s, k, c, lapse) = s
      \/ HttpControl(s, k, c, lapse) = t
      \/ /\ k \in DOMAIN s.items /\ ~IsPending(s, k, c)
         /\ t.current = t.items[k].instance /\ HasRoom(t, 1)
         /\ HttpControl(s, k, c, lapse) \in {u, e}
  BY DEF HttpControl
<1> HIDE DEF t
<1>4. Sound(s, s, D)
  BY <1>1, SameReduced, PaidServed DEF Sound, Reduced
<1>5. Sound(s, t, D)
  BY <1>2, PaidServed DEF Sound, Reduced
<1>6. Sound(s, e, D)
  <2>1. "transport_error" \in ControlStatuses
    BY DEF ControlStatuses
  <2>2. /\ Boxed(e, 0) /\ Moved(t, e, D) /\ Reduced(t, e)
        /\ e.exchanges = t.exchanges /\ e.current = t.current
    BY <1>2, <2>1, ControlBoxed
  <2> HIDE DEF e
  <2>3. Moved(s, e, D) /\ Reduced(s, e)
    BY <1>1, <1>2, <2>2, MovedTwice, ReducedTwice DEF Boxed
  <2> QED
    BY <1>2, <2>2, <2>3, PaidServed DEF Sound, Reduced, Pinned
<1>7. ASSUME k \in DOMAIN s.items, ~IsPending(s, k, c),
             t.current = t.items[k].instance, HasRoom(t, 1)
      PROVE  Sound(s, u, D)
  <2>1. /\ Boxed(r, 1) /\ Moved(s, r, D) /\ Reduced(s, r)
        /\ r.current = t.current /\ r.items = t.items /\ r.exchanges = t.exchanges
        /\ Pinned(s) => Pinned(r)
    BY <1>1, <1>2, <1>7, ReservedOnce
  <2> HIDE DEF r
  <2>2. ~IsPending(r, k, c) /\ r.current = r.items[k].instance
    BY <1>7, <2>1, ReducedPending
  <2>3. c \in Purposes \ {"invoke"} /\ FALSE \in BOOLEAN
    BY LookupPurposes
  <2>4. Boxed(r, IF FALSE THEN 2 ELSE 1)
    BY <2>1
  <2> QED
    BY <1>7, <2>1, <2>2, <2>3, <2>4, CommandQueued
<1> HIDE DEF u, e
<1> QED
  BY <1>3, <1>4, <1>5, <1>6, <1>7

LEMMA CallerControlSound ==
  ASSUME NEW s, NEW D, Boxed(s, 0), NEW k \in Keys, NEW c \in Commands, NEW lapse,
         s.drawn < MaxExchanges
  PROVE  Sound(s, CallerControl(s, k, c, lapse), D)
<1> DEFINE t == Pin(s, k, lapse)
           r == Reserve(Reserve(t))
           u == QueueExchange(SetControl(r, k, c, "requested"), k, ControlOf(c), TRUE)
           e == SetControl(t, k, c, "transport_error")
<1>1. Typed(s)
  BY DEF Boxed
<1>2. /\ Boxed(t, 0) /\ Moved(s, t, D) /\ Reduced(s, t)
      /\ Pinned(s) => Pinned(t)
  BY PinBoxed
<1>3. \/ CallerControl(s, k, c, lapse) = Answer(s, k)
      \/ CallerControl(s, k, c, lapse) = Answer(t, k)
      \/ CallerControl(s, k, c, lapse) = t
      \/ CallerControl(s, k, c, lapse) = Answer(e, k)
      \/ /\ k \in DOMAIN s.items /\ ~IsPending(t, k, ControlOf(c))
         /\ t.current = t.items[k].instance /\ HasRoom(t, 2)
         /\ CallerControl(s, k, c, lapse) = u
  BY DEF CallerControl
<1> HIDE DEF t
<1>4. Sound(s, Answer(s, k), D)
  BY <1>1, SameReduced, AnswerSound DEF Reduced
<1>5. Sound(s, t, D) /\ Sound(s, Answer(t, k), D)
  BY <1>1, <1>2, PaidServed, AnswerSound DEF Sound, Reduced
<1>6. Sound(s, Answer(e, k), D)
  <2>1. "transport_error" \in ControlStatuses
    BY DEF ControlStatuses
  <2>2. /\ Boxed(e, 0) /\ Moved(t, e, D) /\ Reduced(t, e)
        /\ e.exchanges = t.exchanges /\ e.current = t.current
    BY <1>2, <2>1, ControlBoxed
  <2> HIDE DEF e
  <2>3. Moved(s, e, D) /\ Reduced(s, e)
    BY <1>1, <1>2, <2>2, MovedTwice, ReducedTwice DEF Boxed
  <2>4. Pinned(s) => Pinned(e)
    BY <1>2, <2>2 DEF Pinned
  <2> QED
    BY <1>1, <2>2, <2>3, <2>4, AnswerSound DEF Reduced
<1>7. ASSUME k \in DOMAIN s.items, ~IsPending(t, k, ControlOf(c)),
             t.current = t.items[k].instance, HasRoom(t, 2)
      PROVE  Sound(s, u, D)
  <2>1. /\ Boxed(r, 2) /\ Moved(s, r, D) /\ Reduced(s, r)
        /\ r.current = t.current /\ r.items = t.items /\ r.exchanges = t.exchanges
        /\ Pinned(s) => Pinned(r)
    BY <1>1, <1>2, <1>7, ReservedTwice
  <2> HIDE DEF r
  <2>2. ~IsPending(r, k, ControlOf(c)) /\ r.current = r.items[k].instance
    BY <1>7, <2>1 DEF IsPending
  <2>3. ControlOf(c) \in Purposes \ {"invoke"} /\ TRUE \in BOOLEAN
    BY LookupPurposes
  <2>4. Boxed(r, IF TRUE THEN 2 ELSE 1)
    BY <2>1
  <2> QED
    BY <1>7, <2>1, <2>2, <2>3, <2>4, CommandQueued
<1> HIDE DEF u, e
<1> QED
  BY <1>3, <1>4, <1>5, <1>6, <1>7

-----------------------------------------------------------------------------
(* Events.                                                                 *)

\* The events that are queued are an interval, within the mailbox's room.
LEMMA QueuedInterval ==
  ASSUME NEW s, Boxed(s, 0), NEW k, QueuedEvents(s, k) # {}
  PROVE  /\ k \in DOMAIN s.cursors /\ k \in DOMAIN s.items
         /\ s.items[k].accepted
         /\ \E low, high \in Nat :
              /\ QueuedEvents(s, k) = low..high /\ low <= high
              /\ s.cursors[k] <= low /\ high < s.items[k].next
              /\ high - low + 1 <= Room(s)
              /\ s.items[k].ended /\ high + 1 = s.items[k].next => s.items[k].result
<1> DEFINE due == DueEvents(s, k)
           item == s.items[k]
           c == s.cursors[k]
           low == IF c + EventCap < item.next THEN item.next - EventCap ELSE c
           top == IF item.ended /\ ~item.result THEN item.next - 2 ELSE item.next - 1
           room == Room(s)
           high == IF top < low + room - 1 THEN top ELSE low + room - 1
<1>1. Typed(s)
  BY DEF Boxed
<1>2. k \in DOMAIN s.cursors /\ k \in DOMAIN s.items /\ due = EventsFrom(item, c)
      /\ due # {}
  BY DEF QueuedEvents, DueEvents
<1>3. c \in Nat /\ item.next \in Nat /\ EventCap \in Nat \ {0}
      /\ item.ended \in BOOLEAN /\ item.result \in BOOLEAN /\ item.accepted \in BOOLEAN
  BY <1>1, <1>2, Types, StoreAssumption DEF Item
<1>4. room \in Nat
  <2>1. Len(s.outbound) \in Nat /\ s.reserved \in Nat
        /\ Len(s.outbound) + s.reserved <= Capacity /\ Capacity \in Nat
    BY <1>1, Types, ServiceAssumption DEF Boxed, Balanced
  <2> QED
    BY <2>1 DEF Room
<1>5. item.accepted
  BY <1>2 DEF EventsFrom
<1>6. low \in Nat /\ top \in Int /\ c <= low
  BY <1>3
<1>7. due = low..top
  <2>1. ASSUME NEW n \in due PROVE n \in low..top
    BY <1>2, <1>3, <2>1 DEF EventsFrom, Window
  <2>2. ASSUME NEW n \in low..top PROVE n \in due
    <3>1. n \in c..item.next /\ n < item.next /\ item.next <= n + EventCap
      BY <1>3, <2>2
    <3>2. ~(item.ended /\ n + 1 = item.next) \/ item.result
      BY <1>3, <2>2
    <3> QED
      BY <1>2, <1>5, <3>1, <3>2 DEF EventsFrom, Window
  <2> HIDE DEF due, low, top
  <2> QED
    BY <2>1, <2>2
<1>8. top < item.next
      /\ (item.ended /\ ~item.result => top + 1 < item.next)
  BY <1>3
<1> HIDE DEF due, low, top, room
<1>9. ASSUME NEW n \in due
      PROVE  Cardinality({m \in due : m < n}) = n - low
  <2>1. {m \in due : m < n} = low..(n - 1) /\ n \in Int /\ low <= n
    BY <1>6, <1>7, <1>9
  <2>2. low \in Int /\ n - 1 \in Int
    BY <1>6, <2>1
  <2>3. Cardinality(low..(n - 1)) = IF low > n - 1 THEN 0 ELSE (n - 1) - low + 1
    BY <2>2, FS_Interval
  <2>4. (IF low > n - 1 THEN 0 ELSE (n - 1) - low + 1) = n - low
    BY <2>1, <2>2
  <2> QED
    BY <2>1, <2>3, <2>4
<1>10. QueuedEvents(s, k) = {n \in due : n - low < room}
  BY <1>9 DEF QueuedEvents, due, room
<1>11. high \in Int /\ QueuedEvents(s, k) = low..high
  BY <1>4, <1>6, <1>7, <1>10
<1>12. low <= high
  BY <1>6, <1>11
<1>13. high \in Nat
  BY <1>6, <1>11, <1>12
<1>14. high - low + 1 <= room /\ high <= top
  BY <1>4, <1>6
<1> HIDE DEF high
<1>15. high < item.next
       /\ (item.ended /\ high + 1 = item.next => item.result)
  BY <1>3, <1>6, <1>8, <1>13, <1>14
<1> QED
  BY <1>2, <1>5, <1>6, <1>11, <1>12, <1>13, <1>14, <1>15 DEF room

\* The cursor of a forgotten execution is dropped.
LEMMA CursorDropped ==
  ASSUME NEW s, NEW D, Boxed(s, 0), NEW k \in DOMAIN s.cursors \ DOMAIN s.items
  PROVE  LET t == [s EXCEPT !.cursors = Restrict(@, DOMAIN @ \ {k})]
         IN  /\ Boxed(t, 0) /\ Moved(s, t, D)
             /\ t.items = s.items /\ t.exchanges = s.exchanges
             /\ t.current = s.current /\ t.outbound = s.outbound /\ t.drawn = s.drawn
<1> DEFINE v == Restrict(s.cursors, DOMAIN s.cursors \ {k})
           t == [s EXCEPT !.cursors = v]
<1>1. Typed(s)
  BY DEF Boxed
<1>2. /\ IsState(s)
      /\ s.accepting \in BOOLEAN /\ s.current \in Instances \cup {Nobody}
      /\ DOMAIN s.items \subseteq Keys
      /\ s.items \in [DOMAIN s.items -> Item]
      /\ DOMAIN s.exchanges \subseteq 1..s.drawn
      /\ s.exchanges \in [DOMAIN s.exchanges -> Exchange]
      /\ s.outbound \in Seq(Messages)
      /\ s.reserved \in Nat
      /\ DOMAIN s.cursors \subseteq DoraKeys
      /\ s.cursors \in [DOMAIN s.cursors -> Nat]
      /\ s.drawn \in 0..MaxExchanges
      /\ s.isolated \subseteq Keys
      /\ IsFiniteSet(DOMAIN s.items)
  BY <1>1, Types
<1>3. /\ DOMAIN v = DOMAIN s.cursors \ {k} /\ v \in [DOMAIN v -> Nat]
      /\ \A i \in DOMAIN v : v[i] = s.cursors[i]
  BY <1>2 DEF Restrict
<1> HIDE DEF v
<1>4. /\ IsState(t) /\ t.accepting = s.accepting /\ t.current = s.current
      /\ t.outbound = s.outbound /\ t.cursors = v /\ t.drawn = s.drawn
      /\ t.exchanges = s.exchanges /\ t.reserved = s.reserved
      /\ t.items = s.items /\ t.isolated = s.isolated
  BY <1>2 DEF IsState, Fields
<1> HIDE DEF t
<1>5. Typed(t)
  BY <1>2, <1>3, <1>4, ServiceTyped
<1>6. Balanced(t, 0) /\ Single(t) /\ QueuedOnce(t) /\ RequestsAgree(t)
  <2>1. CallersIn(t, DOMAIN t.exchanges) = CallersIn(s, DOMAIN s.exchanges)
    BY <1>4 DEF CallersIn
  <2> QED
    BY <1>4, <2>1 DEF Boxed, Balanced, Single, QueuedOnce, RequestsAgree, Agrees
<1>7. CursorsKept(t)
  BY <1>3, <1>4 DEF Boxed, CursorsKept
<1>8. EventsFit(t)
  <2>1. ASSUME NEW m, EventFits(s, m)
        PROVE  EventFits(t, m)
    BY <1>3, <1>4, <2>1 DEF EventFits
  <2> QED
    BY <1>4, <2>1 DEF Boxed, EventsFit
<1>9. \A i \in Keys : Fresh(s, i) => Fresh(t, i)
  BY <1>3, <1>4 DEF Fresh
<1>10. Moved(s, t, D)
  BY <1>1, <1>4, <1>9, SameMoved
<1>11. Boxed(t, 0)
  BY <1>5, <1>6, <1>7, <1>8 DEF Boxed
<1> QED
  BY <1>4, <1>10, <1>11 DEF t, v

\* t is s with events in its mailbox; they may be none.
Delivered(s, t) ==
  /\ Boxed(t, 0) /\ (\A D : Moved(s, t, D)) /\ Paid(s, t)
  /\ t.items = s.items /\ t.exchanges = s.exchanges
  /\ t.current = s.current /\ t.drawn = s.drawn

\* QueueEvents, with names for its parts.
NumbersOf(s, k) ==
  LET queued == QueuedEvents(s, k)
  IN [i \in 1..Cardinality(queued) |-> Min(queued) + i - 1]
EventsOf(s, k) ==
  LET numbers == NumbersOf(s, k)
      item == s.items[k]
  IN [i \in DOMAIN numbers |->
        Event(k, numbers[i], item.ended /\ numbers[i] + 1 = item.next)]
LEMMA QueueEventsParts ==
  ASSUME NEW s, NEW k
  PROVE  QueueEvents(s, k) =
           IF k \in DOMAIN s.cursors \ DOMAIN s.items
           THEN [s EXCEPT !.cursors = Restrict(@, DOMAIN @ \ {k})]
           ELSE IF NumbersOf(s, k) = <<>> THEN s
           ELSE [Post([s EXCEPT !.reserved = @ + Len(EventsOf(s, k))], EventsOf(s, k))
                   EXCEPT !.cursors[k] = Last(NumbersOf(s, k)) + 1]
BY DEF QueueEvents, NumbersOf, EventsOf

LEMMA EventsQueued ==
  ASSUME NEW s, Boxed(s, 0), NEW k, QueuedEvents(s, k) # {}
  PROVE  Delivered(s, QueueEvents(s, k))
<1> DEFINE item == s.items[k]
           p == s.outbound
           due == QueuedEvents(s, k)
           t == QueueEvents(s, k)
<1>1. Typed(s)
  BY DEF Boxed
<1>2. /\ IsState(s)
      /\ s.accepting \in BOOLEAN /\ s.current \in Instances \cup {Nobody}
      /\ DOMAIN s.items \subseteq Keys
      /\ s.items \in [DOMAIN s.items -> Item]
      /\ DOMAIN s.exchanges \subseteq 1..s.drawn
      /\ s.exchanges \in [DOMAIN s.exchanges -> Exchange]
      /\ p \in Seq(Messages) /\ Len(p) \in Nat
      /\ s.reserved \in Nat
      /\ DOMAIN s.cursors \subseteq DoraKeys
      /\ s.cursors \in [DOMAIN s.cursors -> Nat]
      /\ s.drawn \in 0..MaxExchanges
      /\ s.isolated \subseteq Keys
      /\ IsFiniteSet(DOMAIN s.items)
  BY <1>1, Types
<1>3. /\ k \in DOMAIN s.cursors /\ k \in DOMAIN s.items /\ item.accepted
      /\ \E low, high \in Nat :
           /\ due = low..high /\ low <= high
           /\ s.cursors[k] <= low /\ high < item.next
           /\ high - low + 1 <= Room(s)
           /\ item.ended /\ high + 1 = item.next => item.result
  BY QueuedInterval
<1>4. PICK low \in Nat, high \in Nat :
        /\ due = low..high /\ low <= high
        /\ s.cursors[k] <= low /\ high < item.next
        /\ high - low + 1 <= Room(s)
        /\ item.ended /\ high + 1 = item.next => item.result
  BY <1>3
<1>5. k \in DoraKeys /\ s.cursors[k] \in Nat /\ item.next \in Nat /\ item.ended \in BOOLEAN
  BY <1>2, <1>3 DEF Item
<1> DEFINE c == high - low + 1
           at(n) == low + n - 1
           numbers == [n \in 1..c |-> at(n)]
           e(n) == Event(k, at(n), item.ended /\ at(n) + 1 = item.next)
           q == [n \in 1..c |-> e(n)]
           v == [s.cursors EXCEPT ![k] = high + 1]
           w == [s EXCEPT !.reserved = @ + c]
<1>6. c \in Nat \ {0} /\ \A n \in 1..c : at(n) \in low..high
      /\ at(c) = high
  BY <1>4
<1>7. t = [Post(w, q) EXCEPT !.cursors[k] = high + 1]
  <2>1. Cardinality(due) = c
    BY <1>4, FS_Interval
  <2>2. Min(due) = low
    BY <1>4 DEF Min
  <2>3. numbers \in Seq(Nat) /\ Len(numbers) = c /\ DOMAIN numbers = 1..c
    <3>1. \A n \in 1..c : at(n) \in Nat
      BY <1>6
    <3> HIDE DEF at, c
    <3>2. numbers \in Seq(Nat)
      BY <1>6, <3>1, IsASeq
    <3>3. DOMAIN numbers = 1..c
      OBVIOUS
    <3> HIDE DEF numbers
    <3> QED
      BY <1>6, <3>2, <3>3, LenProperties
  <2>4. Last(numbers) = high
    <3>1. numbers[c] = at(c)
      BY <1>6
    <3> QED
      BY <1>6, <2>3, <3>1 DEF Last
  <2>5. numbers # <<>>
    BY <1>6, <2>3, EmptySeq
  <2>6. q = [n \in DOMAIN numbers |->
               Event(k, numbers[n], item.ended /\ numbers[n] + 1 = item.next)]
    BY <2>3
  <2>7. Len(q) = c
    <3>1. DOMAIN q = 1..c
      OBVIOUS
    <3> QED
      BY <1>6, <3>1
  <2>8. k \notin DOMAIN s.cursors \ DOMAIN s.items
    BY <1>3
  <2>9. NumbersOf(s, k) = numbers
    BY <2>1, <2>2 DEF NumbersOf
  <2> HIDE DEF numbers
  <2>10. EventsOf(s, k) = q
    BY <2>6, <2>9 DEF EventsOf
  <2> HIDE DEF q
  <2> QED
    BY <2>4, <2>5, <2>7, <2>8, <2>9, <2>10, QueueEventsParts
<1> HIDE DEF t
<1>8. ASSUME NEW n \in 1..c
      PROVE  /\ e(n) \in Messages /\ e(n).kind = "event" /\ e(n).key = k
             /\ e(n).number = at(n)
             /\ e(n).terminal = (item.ended /\ at(n) + 1 = item.next)
             /\ at(n) \in Nat /\ at(n) <= high /\ s.cursors[k] <= at(n)
  <2>1. at(n) \in Nat /\ at(n) <= high /\ low <= at(n)
    BY <1>4, <1>6
  <2>2. s.cursors[k] <= at(n)
    BY <1>4, <1>5, <2>1
  <2> HIDE DEF at
  <2>3. PICK terminal \in BOOLEAN : terminal = (item.ended /\ at(n) + 1 = item.next)
    OBVIOUS
  <2>4. e(n) = Event(k, at(n), terminal)
    BY <2>3
  <2> HIDE DEF e
  <2> QED
    <3> DEFINE m == Event(k, at(n), terminal)
    <3>1. /\ m \in Messages /\ m.kind = "event" /\ m.key = k
          /\ m.number = at(n) /\ m.terminal = terminal
      BY <1>5, <2>1, MessageTypes
    <3> HIDE DEF m
    <3>2. e(n) = m
      BY <2>4 DEF m
    <3> QED
      BY <2>1, <2>2, <2>3, <3>1, <3>2
<1>9. /\ q \in Seq(Messages) /\ Len(q) = c /\ DOMAIN q = 1..c
      /\ \A n \in 1..c : q[n] = e(n)
  <2> HIDE DEF e, c
  <2>1. q \in Seq(Messages)
    BY <1>6, <1>8, IsASeq
  <2>2. DOMAIN q = 1..c /\ \A n \in 1..c : q[n] = e(n)
    OBVIOUS
  <2> HIDE DEF q
  <2> QED
    BY <1>6, <2>1, <2>2, LenProperties
<1>10. \A m, n \in 1..c : m < n => at(m) < at(n)
  OBVIOUS
<1>10a. high - low + 1 = c
  OBVIOUS
<1> HIDE DEF e, q, c, at
<1>11. /\ IsState(t) /\ t.accepting = s.accepting /\ t.current = s.current
       /\ t.cursors = v /\ t.isolated = s.isolated /\ t.items = s.items
       /\ t.exchanges = s.exchanges /\ t.drawn = s.drawn
       /\ t.outbound = p \o q /\ t.reserved = (s.reserved + c) - c
  <2>1. /\ Beside(s, w) /\ w.items = s.items /\ w.exchanges = s.exchanges
        /\ w.drawn = s.drawn /\ w.outbound = s.outbound
        /\ w.reserved = s.reserved + c
    BY <1>2, ReserveFields
  <2> HIDE DEF w
  <2> DEFINE x == Post(w, q)
  <2>2. /\ Beside(w, x) /\ x.items = w.items /\ x.exchanges = w.exchanges
        /\ x.drawn = w.drawn
        /\ x.outbound = w.outbound \o q /\ x.reserved = w.reserved - Len(q)
    BY <2>1, PostFields DEF Beside
  <2> HIDE DEF x
  <2>3. t = [x EXCEPT !.cursors = v]
    BY <1>7, <2>1, <2>2 DEF x, Beside, IsState, Fields
  <2> HIDE DEF v
  <2>4. /\ IsState(t) /\ t.accepting = x.accepting /\ t.current = x.current
        /\ t.cursors = v /\ t.isolated = x.isolated /\ t.items = x.items
        /\ t.exchanges = x.exchanges /\ t.drawn = x.drawn
        /\ t.outbound = x.outbound /\ t.reserved = x.reserved
    BY <2>2, <2>3 DEF Beside, IsState, Fields
  <2> QED
    BY <1>9, <2>1, <2>2, <2>4 DEF Beside
<1>12. /\ DOMAIN v = DOMAIN s.cursors /\ v[k] = high + 1
       /\ v \in [DOMAIN v -> Nat]
       /\ \A i \in DOMAIN v : i # k => v[i] = s.cursors[i]
  BY <1>2, <1>3
<1> HIDE DEF v, w
<1>13. /\ p \o q \in Seq(Messages) /\ Len(p \o q) = Len(p) + c
       /\ DOMAIN p = 1..Len(p)
       /\ DOMAIN (p \o q) = 1..Len(p) + c
       /\ \A n \in 1..Len(p) : (p \o q)[n] = p[n]
       /\ \A n \in 1..Len(p) + c :
            n \notin 1..Len(p) => /\ n - Len(p) \in 1..c
                                  /\ (p \o q)[n] = q[n - Len(p)]
  <2>1. p \in Seq(Messages) /\ q \in Seq(Messages) /\ Len(q) = c
    BY <1>2, <1>9
  <2> HIDE DEF p
  <2>2. Joins(p, q)
    BY <2>1, MessagesJoined
  <2> QED
    BY <2>1, <2>2 DEF Joins
<1>14. ASSUME NEW n \in DOMAIN t.outbound
       PROVE  \/ n \in DOMAIN p /\ t.outbound[n] = p[n]
              \/ /\ n \notin DOMAIN p /\ n - Len(p) \in 1..c
                 /\ t.outbound[n] = e(n - Len(p))
  BY <1>9, <1>11, <1>13
<1>15. DOMAIN p \subseteq DOMAIN t.outbound
       /\ \A n \in DOMAIN p : t.outbound[n] = p[n]
  BY <1>2, <1>6, <1>11, <1>13
<1>16. t.reserved = s.reserved /\ Len(p) + c + s.reserved <= Capacity
  <2>1. t.reserved = s.reserved
    BY <1>2, <1>6, <1>11
  <2>2. c <= Capacity - (Len(p) + s.reserved)
    BY <1>4, <1>10a DEF Room
  <2> QED
    BY <1>2, <1>6, <2>1, <2>2, ServiceAssumption
<1>17. Typed(t)
  BY <1>2, <1>11, <1>12, <1>13, <1>16, ServiceTyped
<1>18. Balanced(t, 0) /\ Single(t)
  <2>1. CallersIn(t, DOMAIN t.exchanges) = CallersIn(s, DOMAIN s.exchanges)
    BY <1>11 DEF CallersIn
  <2>2. Len(t.outbound) + t.reserved <= Capacity
    BY <1>2, <1>6, <1>11, <1>13, <1>16
  <2> QED
    BY <1>11, <1>16, <2>1, <2>2 DEF Boxed, Balanced, Single
<1>19. RequestsAgree(t)
  BY <1>8, <1>11, <1>14 DEF Boxed, RequestsAgree, Agrees
<1>20. QueuedOnce(t)
  <2> SUFFICES ASSUME NEW x \in DOMAIN t.exchanges, ~t.exchanges[x].claimed
               PROVE  \E n \in DOMAIN t.outbound :
                        \A i \in DOMAIN t.outbound :
                          IsRequest(t.outbound[i], x) <=> i = n
    BY DEF QueuedOnce
  <2>1. PICK n \in DOMAIN p : \A i \in DOMAIN p : IsRequest(p[i], x) <=> i = n
    BY <1>11 DEF Boxed, QueuedOnce
  <2>2. ASSUME NEW i \in DOMAIN t.outbound
        PROVE  IsRequest(t.outbound[i], x) <=> i = n
    BY <1>8, <1>14, <2>1 DEF IsRequest
  <2> QED
    BY <1>15, <2>1, <2>2
<1>21. CursorsKept(t)
  <2> SUFFICES ASSUME NEW i \in DOMAIN s.items \cap DoraKeys
               PROVE  i \in DOMAIN v /\ v[i] <= s.items[i].next
    BY <1>11 DEF CursorsKept
  <2>1. i \in DOMAIN s.cursors /\ s.cursors[i] <= s.items[i].next
    BY DEF Boxed, CursorsKept
  <2>2. high + 1 <= item.next
    BY <1>4, <1>5
  <2> QED
    BY <1>12, <2>1, <2>2
<1>22. ASSUME NEW m \in Messages, m.kind = "event", EventFits(s, m)
       PROVE  EventFits(t, m)
  <2>1. CASE m.key = k
    <3>1. m.number \in Nat /\ m.number < s.cursors[k]
      BY <1>3, <1>22, <2>1, MessageKinds DEF EventFits
    <3>2. m.number < high + 1
      BY <1>4, <1>5, <3>1
    <3> QED
      BY <1>11, <1>12, <1>22, <2>1, <3>2 DEF EventFits
  <2>2. CASE m.key # k
    BY <1>11, <1>12, <1>22, <2>2 DEF EventFits
  <2> QED
    BY <2>1, <2>2
<1>23. ASSUME NEW n \in 1..c
       PROVE  EventFits(t, e(n))
  <2>1. at(n) < high + 1
    BY <1>8
  <2>2. e(n).terminal => item.result /\ item.ended /\ at(n) + 1 = item.next
    <3>1. at(n) \in Nat /\ at(n) <= high
          /\ e(n).terminal = (item.ended /\ at(n) + 1 = item.next)
      BY <1>8
    <3>2. at(n) + 1 = item.next => at(n) = high
      BY <1>4, <1>5, <3>1
    <3> QED
      BY <1>4, <3>1, <3>2
  <2> QED
    BY <1>3, <1>8, <1>11, <1>12, <2>1, <2>2 DEF EventFits
<1>24. ASSUME NEW i \in DOMAIN t.outbound, NEW j \in DOMAIN t.outbound, i < j
       PROVE  Precedes(t.outbound[i], t.outbound[j])
  <2>1. CASE j \in DOMAIN p
    <3>1. i \in DOMAIN p
      BY <1>2, <1>11, <1>13, <1>24, <2>1
    <3> QED
      BY <1>15, <1>24, <2>1, <3>1 DEF Boxed, EventsFit
  <2>2. CASE j \notin DOMAIN p /\ i \in DOMAIN p
    <3> SUFFICES ASSUME p[i].kind = "event", p[i].key = k
                 PROVE  p[i].number < at(j - Len(p)) /\ ~p[i].terminal
      BY <1>8, <1>14, <2>2 DEF Precedes
    <3>1. EventFits(s, p[i]) /\ p[i] \in Messages
      BY <1>2, <2>2 DEF Boxed, EventsFit
    <3>2. p[i].number \in Nat /\ p[i].number < s.cursors[k]
          /\ (p[i].terminal => p[i].number + 1 = item.next)
      BY <1>3, <3>1, MessageKinds DEF EventFits
    <3>3. j - Len(p) \in 1..c
      BY <1>14, <2>2
    <3>4. at(j - Len(p)) \in Nat /\ s.cursors[k] <= at(j - Len(p))
      BY <1>8, <3>3
    <3>5. p[i].number < at(j - Len(p))
      BY <1>5, <3>2, <3>4
    <3>6. p[i].number + 1 # item.next
      BY <1>4, <1>5, <3>2
    <3> QED
      BY <3>2, <3>5, <3>6
  <2>3. CASE j \notin DOMAIN p /\ i \notin DOMAIN p
    <3>1. /\ i - Len(p) \in 1..c /\ t.outbound[i] = e(i - Len(p))
          /\ j - Len(p) \in 1..c /\ t.outbound[j] = e(j - Len(p))
      BY <1>14, <2>3
    <3>2. i - Len(p) < j - Len(p)
      BY <1>2, <1>11, <1>13, <1>24
    <3>3. at(i - Len(p)) < at(j - Len(p))
      BY <1>10, <3>1, <3>2
    <3>4. at(j - Len(p)) <= high /\ at(j - Len(p)) \in Nat /\ at(i - Len(p)) \in Nat
      BY <1>8, <3>1
    <3>5. at(i - Len(p)) + 1 # item.next
      BY <1>4, <1>5, <3>3, <3>4
    <3> QED
      BY <1>8, <3>1, <3>3, <3>5 DEF Precedes
  <2> QED
    BY <2>1, <2>2, <2>3
<1>25. EventsFit(t)
  <2>1. ASSUME NEW i \in DOMAIN t.outbound, t.outbound[i].kind = "event"
        PROVE  EventFits(t, t.outbound[i])
    <3>1. CASE i \in DOMAIN p
      <4>1. EventFits(s, p[i]) /\ p[i] \in Messages /\ t.outbound[i] = p[i]
        BY <1>2, <1>15, <2>1, <3>1 DEF Boxed, EventsFit
      <4> QED
        BY <1>22, <2>1, <4>1
    <3>2. CASE i \notin DOMAIN p
      BY <1>14, <1>23, <3>2
    <3> QED
      BY <3>1, <3>2
  <2> QED
    BY <1>24, <2>1 DEF EventsFit
<1>26. ASSUME NEW i \in Keys, Fresh(s, i)
       PROVE  Fresh(t, i)
  <2>1. i # k
    BY <1>3, <1>26 DEF Fresh
  <2>2. ASSUME NEW n \in DOMAIN t.outbound,
               t.outbound[n].kind \in {"request", "event"}
        PROVE  t.outbound[n].key # i
    <3>1. CASE n \in DOMAIN p
      BY <1>15, <1>26, <2>2, <3>1 DEF Fresh
    <3>2. CASE n \notin DOMAIN p
      BY <1>8, <1>14, <2>1, <3>2
    <3> QED
      BY <3>1, <3>2
  <2> QED
    BY <1>11, <1>12, <1>26, <2>2 DEF Fresh
<1>27. ASSUME NEW D
       PROVE  Moved(s, t, D)
  BY <1>1, <1>11, <1>26, SameMoved
<1>28. Paid(s, t)
  <2>1. ASSUME NEW i
        PROVE  Cardinality(RepliesIn(t.outbound, i)) = Cardinality(RepliesIn(p, i))
    <3>1. RepliesIn(t.outbound, i) = RepliesIn(p, i)
      BY <1>8, <1>14, <1>15 DEF RepliesIn
    <3> QED
      BY <3>1
  <2>2. ASSUME NEW i
        PROVE  Cardinality(CallersOf(s, DOMAIN s.exchanges \ DOMAIN t.exchanges, i)) = 0
    <3>1. CallersOf(s, DOMAIN s.exchanges \ DOMAIN t.exchanges, i) = {}
      BY <1>11 DEF CallersOf
    <3> QED
      BY <3>1, FS_EmptySet
  <2>3. \A i : Cardinality(RepliesIn(p, i)) \in Nat
    BY <1>2, RepliesFinite
  <2> HIDE DEF p
  <2> QED
    BY <2>1, <2>2, <2>3 DEF Paid, p
<1>29. Boxed(t, 0)
  BY <1>17, <1>18, <1>19, <1>20, <1>21, <1>25 DEF Boxed
<1> QED
  BY <1>11, <1>27, <1>28, <1>29 DEF Delivered, t

LEMMA EventsDelivered ==
  ASSUME NEW s, Boxed(s, 0), NEW k
  PROVE  Delivered(s, QueueEvents(s, k))
<1>1. Typed(s)
  BY DEF Boxed
<1>2. CASE k \in DOMAIN s.cursors \ DOMAIN s.items
  <2> DEFINE t == [s EXCEPT !.cursors = Restrict(@, DOMAIN @ \ {k})]
  <2>1. QueueEvents(s, k) = t
    BY <1>2, QueueEventsParts
  <2>2. /\ Boxed(t, 0) /\ \A D : Moved(s, t, D)
        /\ t.items = s.items /\ t.exchanges = s.exchanges
        /\ t.current = s.current /\ t.outbound = s.outbound /\ t.drawn = s.drawn
    BY <1>2, CursorDropped
  <2> HIDE DEF t
  <2>3. Paid(s, t)
    BY <1>1, <2>2, SamePaid
  <2> QED
    BY <2>1, <2>2, <2>3 DEF Delivered
<1>3. CASE k \notin DOMAIN s.cursors \ DOMAIN s.items /\ QueuedEvents(s, k) = {}
  <2> DEFINE c == Cardinality(QueuedEvents(s, k))
  <2>1. c = 0
    BY <1>3, FS_EmptySet
  <2>2. NumbersOf(s, k) = <<>>
    <3>1. 1..c = {}
      BY <2>1
    <3>2. NumbersOf(s, k) = [i \in 1..c |-> Min(QueuedEvents(s, k)) + i - 1]
      BY DEF NumbersOf
    <3> HIDE DEF c
    <3> QED
      BY <3>1, <3>2
  <2>3. QueueEvents(s, k) = s
    BY <1>3, <2>2, QueueEventsParts
  <2>4. Paid(s, s) /\ \A D : Moved(s, s, D)
    BY <1>1, SameReduced DEF Reduced
  <2> QED
    BY <2>3, <2>4 DEF Delivered
<1> QED
  BY <1>2, <1>3, EventsQueued

-----------------------------------------------------------------------------
(* Answers and events of providers.                                        *)

AnswerTyped(answer) ==
  /\ answer.say = "result" => answer.phase \in Terminal
  /\ answer.say = "status" => answer.phase \in Terminal \cup Nonterminal

\* The answer says that the execution of item is over, or confirms it.
Final(item, answer) ==
  \/ answer.say \in {"refused", "result"}
  \/ answer.say = "status" /\ answer.phase \in Terminal
  \/ answer.say = "not_found" /\ item.hint

LEMMA HeardItem ==
  ASSUME NEW i \in Item, NEW purpose, NEW answer, AnswerTyped(answer)
  PROVE  LET j == Heard(i, purpose, answer)
         IN  Follows(i, j) /\ (Softly(i, j) \/ Final(i, answer))
<1> DEFINE j == Heard(i, purpose, answer)
<1>1. CASE answer.say = "accepted"
  <2>1. j = EstablishAccepted(i)
    BY <1>1 DEF Heard
  <2> QED
    BY <2>1, AcceptItem DEF Softly
<1>2. CASE answer.say = "refused"
  <2>1. j = Conclude(i, "failed", TRUE)
    BY <1>2 DEF Heard
  <2> QED
    BY <1>2, <2>1, ConcludeItem, Phases DEF Final
<1>3. CASE answer.say = "result"
  <2>1. j = Conclude(i, answer.phase, TRUE)
    BY <1>3 DEF Heard
  <2> QED
    BY <1>3, <2>1, ConcludeItem, Phases DEF Final, AnswerTyped
<1>4. CASE answer.say = "status" /\ answer.phase \in Terminal
  <2>1. j = Hint(i)
    BY <1>4 DEF Heard
  <2> QED
    BY <1>4, <2>1, HintItem DEF Final
<1>5. CASE answer.say = "status" /\ answer.phase \notin Terminal
  <2>1. j = Observe(i, answer.phase)
    BY <1>5 DEF Heard
  <2>2. answer.phase \in Nonterminal
    BY <1>5 DEF AnswerTyped
  <2> QED
    BY <2>1, <2>2, ObserveItem DEF Softly
<1>6. CASE answer.say = "not_found"
  <2>1. j = Conclude(i, "unknown", i.hint) /\ i.hint \in BOOLEAN
    BY <1>6 DEF Heard, Item
  <2>2. CASE i.hint
    BY <1>6, <2>1, <2>2, ConcludeItem, Phases DEF Final
  <2>3. CASE ~i.hint
    <3>1. i.hint = FALSE
      BY <2>1, <2>3
    <3> QED
      BY <2>1, <3>1, ConcludeItem, Phases
  <2> QED
    BY <2>2, <2>3
<1>7. CASE answer.say \in {"settled", "rejected"}
  <2>1. j = [i EXCEPT !.control[CommandOf(purpose)] = answer.say]
    BY <1>7 DEF Heard
  <2>2. answer.say \in ControlStatuses
    BY <1>7 DEF ControlStatuses
  <2> QED
    <3> DEFINE c == CommandOf(purpose)
               u == [i EXCEPT !.control[c] = answer.say]
    <3>1. Softly(i, u)
      <4> HIDE DEF c
      <4> QED
        BY <2>2, ControlItem
    <3>2. j = u
      BY <2>1
    <3> HIDE DEF u
    <3> QED
      BY <3>1, <3>2 DEF Softly
<1>8. CASE answer.say \notin {"accepted", "refused", "result", "status", "not_found",
                              "settled", "rejected"}
  <2>1. \/ j = Conclude(i, "unknown", FALSE)
        \/ j = [i EXCEPT !.control["cancel"] = "transport_error"]
        \/ j = i
    BY <1>8 DEF Heard
  <2>2. "transport_error" \in ControlStatuses
    BY DEF ControlStatuses
  <2>3. Softly(i, j)
    <3>1. Softly(i, Conclude(i, "unknown", FALSE))
      BY ConcludeItem, Phases
    <3>2. Softly(i, [i EXCEPT !.control["cancel"] = "transport_error"])
      BY <2>2, ControlItem
    <3>3. Softly(i, i)
      BY SameSoftly
    <3> QED
      BY <2>1, <3>1, <3>2, <3>3
  <2> QED
    BY <2>3 DEF Softly
<1> HIDE DEF j
<1> QED
  BY <1>1, <1>2, <1>3, <1>4, <1>5, <1>6, <1>7, <1>8 DEF j

\* An answer is heard: the exchange is over, and its caller not yet paid.
Hearing(s, x, answer) ==
  LET exchange == s.exchanges[x]
  IN [DropSilently(s, {x}) EXCEPT
        !.items = Update(@, exchange.key,
                         LAMBDA i : Heard(i, exchange.purpose, answer))]

LEMMA HearingBoxed ==
  ASSUME NEW s, Boxed(s, 0), NEW x \in DOMAIN s.exchanges, NEW answer,
         AnswerTyped(answer), NEW D,
         \/ s.exchanges[x].key \in D
         \/ s.exchanges[x].key \notin DOMAIN s.items
         \/ ~Final(s.items[s.exchanges[x].key], answer)
  PROVE  LET t == Hearing(s, x, answer)
         IN  /\ Boxed(t, IF s.exchanges[x].caller THEN 1 ELSE 0) /\ Moved(s, t, D)
             /\ t.outbound = s.outbound /\ t.drawn = s.drawn /\ t.current = s.current
             /\ DOMAIN t.items = DOMAIN s.items
             /\ DOMAIN t.exchanges = DOMAIN s.exchanges \ {x}
             /\ \A y \in DOMAIN t.exchanges : t.exchanges[y] = s.exchanges[y]
<1> DEFINE k == s.exchanges[x].key
           purpose == s.exchanges[x].purpose
           caller == s.exchanges[x].caller
           d == DropSilently(s, {x})
           v == [i \in DOMAIN s.items |-> IF i = k THEN Heard(s.items[i], purpose, answer)
                                          ELSE s.items[i]]
           t == Hearing(s, x, answer)
<1>1. Typed(s)
  BY DEF Boxed
<1>2. /\ IsState(s)
      /\ s.accepting \in BOOLEAN /\ s.current \in Instances \cup {Nobody}
      /\ s.items \in [DOMAIN s.items -> Item]
      /\ s.exchanges \in [DOMAIN s.exchanges -> Exchange]
  BY <1>1, Types
<1>3. /\ Beside(s, d) /\ d.items = s.items
      /\ d.exchanges = Restrict(s.exchanges, DOMAIN s.exchanges \ {x})
      /\ d.drawn = s.drawn
      /\ d.outbound = s.outbound /\ d.reserved = s.reserved
  BY <1>2, DropFields
<1>4. t = [d EXCEPT !.items = v]
  <2>1. CASE k \in DOMAIN s.items
    <3>1. v = [s.items EXCEPT ![k] = Heard(s.items[k], purpose, answer)]
      BY <1>2, <2>1
    <3>2. d.items = s.items
      BY <1>3
    <3> QED
      BY <2>1, <3>1, <3>2 DEF Hearing, Update
  <2>2. CASE k \notin DOMAIN s.items
    <3>1. v = s.items
      BY <1>2, <2>2
    <3>2. d.items = s.items
      BY <1>3
    <3> QED
      BY <2>2, <3>1, <3>2 DEF Hearing, Update
  <2> QED
    BY <2>1, <2>2
<1> HIDE DEF t, d
<1>5. ASSUME NEW i \in DOMAIN s.items
      PROVE  /\ Follows(s.items[i], v[i])
             /\ Softly(s.items[i], v[i]) \/ i \in D
  <2>1. s.items[i] \in Item
    BY <1>2
  <2>2. CASE i = k
    <3>1. v[i] = Heard(s.items[i], purpose, answer)
      BY <2>2
    <3>2. Follows(s.items[i], Heard(s.items[i], purpose, answer))
          /\ (Softly(s.items[i], Heard(s.items[i], purpose, answer))
                \/ Final(s.items[i], answer))
      BY <2>1, HeardItem
    <3> HIDE DEF v
    <3> QED
      BY <2>2, <3>1, <3>2
  <2>3. CASE i # k
    BY <2>1, <2>3, SameSoftly DEF Softly
  <2> QED
    BY <2>2, <2>3
<1>6. DOMAIN v = DOMAIN s.items /\ v = [i \in DOMAIN v |-> v[i]]
  OBVIOUS
<1> HIDE DEF v
<1>7. v \in [DOMAIN v -> Item]
  BY <1>5, <1>6 DEF Follows
<1>8. /\ Beside(d, t) /\ t.items = v /\ t.exchanges = d.exchanges
      /\ t.drawn = d.drawn
      /\ t.outbound = d.outbound /\ t.reserved = d.reserved
  <2>1. IsState(d)
    BY <1>3 DEF Beside
  <2> QED
    BY <1>4, <2>1, ItemsFields
<1>9. /\ DOMAIN t.exchanges = DOMAIN s.exchanges \ {x}
      /\ t.exchanges \in [DOMAIN t.exchanges -> Exchange]
      /\ \A y \in DOMAIN t.exchanges : t.exchanges[y] = s.exchanges[y]
  <2> DEFINE g == Restrict(s.exchanges, DOMAIN s.exchanges \ {x})
  <2>1. /\ DOMAIN g = DOMAIN s.exchanges \ {x}
        /\ g \in [DOMAIN g -> Exchange]
        /\ \A y \in DOMAIN g : g[y] = s.exchanges[y]
    BY <1>2 DEF Restrict
  <2> QED
    BY <1>3, <1>8, <2>1
<1>10. Kept(s, t)
  BY <1>2, <1>3, <1>5, <1>6, <1>7, <1>8, <1>9 DEF Kept, Beside
<1>11. Boxed(t, IF caller THEN 1 ELSE 0)
  <2>1. Boxed(t, 0 + Cardinality(CallersIn(s, {x})))
    BY <1>3, <1>8, <1>9, <1>10, CutBoxed
  <2>2. CallersIn(s, {x}) = IF caller THEN {x} ELSE {}
    BY DEF CallersIn
  <2>3. 0 + Cardinality(CallersIn(s, {x})) = IF caller THEN 1 ELSE 0
    <3>1. Cardinality({}) = 0 /\ Cardinality({x}) = 1
      BY FS_EmptySet, FS_Singleton
    <3>2. CASE caller
      BY <2>2, <3>1, <3>2
    <3>3. CASE ~caller
      BY <2>2, <3>1, <3>3
    <3> QED
      BY <3>2, <3>3
  <2> QED
    BY <2>1, <2>3
<1>12. Moved(s, t, D)
  BY <1>1, <1>5, <1>6, <1>8, <1>10, KeptMoved DEF Softly
<1> QED
  BY <1>3, <1>6, <1>8, <1>9, <1>11, <1>12 DEF t, Beside

LEMMA AnsweredSound ==
  ASSUME NEW s, Boxed(s, 0), s.drawn < MaxExchanges, NEW x \in DOMAIN s.exchanges,
         NEW answer, AnswerTyped(answer), NEW lapse, NEW D,
         \/ s.exchanges[x].key \in D
         \/ s.exchanges[x].key \notin DOMAIN s.items
         \/ ~Final(s.items[s.exchanges[x].key], answer)
  PROVE  Sound(s, Answered(s, x, answer, lapse), D)
<1> DEFINE k == s.exchanges[x].key
           caller == s.exchanges[x].caller
           n == IF caller THEN 1 ELSE 0
           t == Hearing(s, x, answer)
           r == Refresh(t, k, "result", lapse, FALSE)
           isReported == /\ answer.say = "status" /\ answer.phase \in Terminal
                         /\ k \in DOMAIN t.items /\ ~t.items[k].result
           u == IF isReported THEN r ELSE t
           v == IF caller THEN Post(u, <<Reply(k)>>) ELSE u
           w == QueueEvents(v, k)
<1>1. Answered(s, x, answer, lapse) = w
  BY DEF Answered, Hearing
<1>2. Typed(s)
  BY DEF Boxed
<1>3. k \in Keys /\ caller \in BOOLEAN /\ x \in 1..s.drawn
  BY <1>2, Types DEF Exchange
<1>4. n \in Nat
  OBVIOUS
<1>5. /\ Boxed(t, n) /\ Moved(s, t, D)
      /\ t.outbound = s.outbound /\ t.drawn = s.drawn /\ t.current = s.current
      /\ DOMAIN t.items = DOMAIN s.items
      /\ DOMAIN t.exchanges = DOMAIN s.exchanges \ {x}
      /\ \A y \in DOMAIN t.exchanges : t.exchanges[y] = s.exchanges[y]
  BY HearingBoxed
<1> HIDE DEF t
<1>6. Typed(t)
  BY <1>5 DEF Boxed
<1>7. /\ Boxed(u, n) /\ Moved(t, u, D) /\ Paid(t, u)
      /\ Pinned(t) => Pinned(u)
  <2> HIDE DEF n
  <2>1. CASE isReported
    <3>1. "result" \in Purposes \ {"invoke"} /\ FALSE \in BOOLEAN /\ k \in DOMAIN t.items
      BY <2>1 DEF Purposes, Lookups
    <3>2. t.drawn < MaxExchanges
      BY <1>5
    <3> HIDE DEF k
    <3>3. /\ Boxed(r, n) /\ Moved(t, r, D) /\ Paid(t, r)
          /\ Pinned(t) => Pinned(r)
      BY <1>4, <1>5, <3>1, <3>2, RefreshBoxed
    <3>4. u = r
      BY <2>1
    <3> HIDE DEF u, r
    <3> QED
      BY <3>3, <3>4
  <2>2. CASE ~isReported
    <3>1. u = t
      BY <2>2
    <3> HIDE DEF u
    <3> QED
      BY <1>5, <1>6, <3>1, SameReduced DEF Reduced
  <2> QED
    BY <2>1, <2>2
<1> HIDE DEF u
<1>8. Typed(u)
  BY <1>7 DEF Boxed
<1>9. /\ Boxed(v, 0) /\ Moved(u, v, D)
      /\ v.exchanges = u.exchanges /\ v.current = u.current
      /\ \A i \in Keys : Cardinality(RepliesIn(v.outbound, i)) =
                           Cardinality(RepliesIn(u.outbound, i))
                             + (IF caller /\ i = k THEN 1 ELSE 0)
  <2>1. CASE caller
    <3> DEFINE z == Post(u, <<Reply(k)>>)
    <3>1. Boxed(u, 0 + 1)
      BY <1>7, <2>1
    <3>2. /\ Boxed(z, 0) /\ Moved(u, z, D)
          /\ z.exchanges = u.exchanges /\ z.current = u.current
          /\ \A i \in Keys : Cardinality(RepliesIn(z.outbound, i)) =
                               Cardinality(RepliesIn(u.outbound, i))
                                 + (IF i = k THEN 1 ELSE 0)
      <4> HIDE DEF k
      <4> QED
        BY <1>3, <3>1, ReplyPosted
    <3>3. v = z
      BY <2>1
    <3> HIDE DEF v, z
    <3> QED
      BY <2>1, <3>2, <3>3
  <2>2. CASE ~caller
    <3>1. v = u
      BY <2>2
    <3>2. Boxed(u, 0) /\ Moved(u, u, D)
      BY <1>7, <1>8, <2>2, SameReduced
    <3>3. \A i : Cardinality(RepliesIn(u.outbound, i)) \in Nat
      BY <1>8, Types, RepliesFinite
    <3> HIDE DEF v
    <3> QED
      BY <2>2, <3>1, <3>2, <3>3
  <2> QED
    BY <2>1, <2>2
<1> HIDE DEF v
<1>10. Delivered(v, w)
  BY <1>9, EventsDelivered
<1> HIDE DEF w
<1>11. /\ Boxed(w, 0) /\ Moved(v, w, D) /\ Paid(v, w)
       /\ w.exchanges = v.exchanges /\ w.current = v.current
  BY <1>10 DEF Delivered
<1>12. Typed(v) /\ Typed(w)
  BY <1>9, <1>11 DEF Boxed
<1>13. Moved(s, w, D)
  <2>1. Moved(s, u, D)
    BY <1>2, <1>5, <1>6, <1>7, <1>8, MovedTwice
  <2>2. Moved(s, v, D)
    BY <1>2, <1>8, <1>9, <1>12, <2>1, MovedTwice
  <2> QED
    BY <1>2, <1>11, <1>12, <2>2, MovedTwice
<1>14. Pinned(s) => Pinned(w)
  <2>1. Pinned(s) => Pinned(t)
    BY <1>5 DEF Pinned
  <2> QED
    BY <1>7, <1>9, <1>11, <2>1 DEF Pinned
<1>15. Paid(s, w)
  <2> SUFFICES ASSUME NEW i \in Keys
               PROVE  Cardinality(RepliesIn(w.outbound, i)) =
                        Cardinality(RepliesIn(s.outbound, i))
                          + Cardinality(CallersOf(s, DOMAIN s.exchanges \ DOMAIN w.exchanges, i))
    BY DEF Paid
  <2> DEFINE A == CallersOf(s, DOMAIN s.exchanges \ DOMAIN w.exchanges, i)
             B == CallersOf(t, DOMAIN t.exchanges \ DOMAIN u.exchanges, i)
             C == CallersOf(v, DOMAIN v.exchanges \ DOMAIN w.exchanges, i)
  <2>1. x \notin DOMAIN u.exchanges
    BY <1>3, <1>5, <1>7 DEF Moved
  <2>2. A = IF caller /\ i = k THEN B \cup {x} ELSE B
    BY <1>5, <1>9, <1>11, <2>1 DEF CallersOf
  <2>3. x \notin B
    BY <1>5 DEF CallersOf
  <2>4. IsFiniteSet(B) /\ Cardinality(B) \in Nat
    BY <1>6, CallersFinite
  <2>5. C = {}
    BY <1>11 DEF CallersOf
  <2>6. Cardinality(C) = 0
    BY <2>5, FS_EmptySet
  <2>7. /\ Cardinality(RepliesIn(s.outbound, i)) \in Nat
        /\ Cardinality(RepliesIn(v.outbound, i)) \in Nat
    BY <1>2, <1>12, Types, RepliesFinite
  <2>8. /\ Cardinality(RepliesIn(u.outbound, i)) =
             Cardinality(RepliesIn(s.outbound, i)) + Cardinality(B)
        /\ Cardinality(RepliesIn(w.outbound, i)) =
             Cardinality(RepliesIn(v.outbound, i)) + Cardinality(C)
    BY <1>5, <1>7, <1>11 DEF Paid
  <2> HIDE DEF A, B, C
  <2>9. Cardinality(A) = Cardinality(B) + (IF caller /\ i = k THEN 1 ELSE 0)
    <3>1. CASE caller /\ i = k
      BY <2>2, <2>3, <2>4, <3>1, FS_AddElement
    <3>2. CASE ~(caller /\ i = k)
      BY <2>2, <2>4, <3>2
    <3> QED
      BY <3>1, <3>2
  <2>10. Cardinality(RepliesIn(v.outbound, i)) =
           Cardinality(RepliesIn(u.outbound, i)) + (IF caller /\ i = k THEN 1 ELSE 0)
    BY <1>9
  <2>11. (IF caller /\ i = k THEN 1 ELSE 0) \in Nat
    OBVIOUS
  <2> QED
    BY <2>4, <2>6, <2>7, <2>8, <2>9, <2>10, <2>11 DEF A
<1> QED
  BY <1>1, <1>11, <1>13, <1>14, <1>15, PaidServed DEF Sound

LEMMA ResponseSound ==
  ASSUME NEW s, Boxed(s, 0), s.drawn < MaxExchanges, NEW x \in DOMAIN s.exchanges,
         NEW answer, AnswerTyped(answer), NEW late, NEW lapse, NEW D,
         \/ s.exchanges[x].key \in D
         \/ s.exchanges[x].key \notin DOMAIN s.items
         \/ ~Final(s.items[s.exchanges[x].key], answer)
  PROVE  Sound(s, ProviderResponse(s, x, answer, late, lapse), D)
<1>1. CASE late
  <2> DEFINE t == FinishErrors(s, {x})
  <2>1. {x} \in SUBSET DOMAIN s.exchanges
    OBVIOUS
  <2>2. Boxed(t, 0) /\ Moved(s, t, D) /\ Reduced(s, t) /\ t.current = s.current
    BY <2>1, FinishBoxed
  <2>3. ProviderResponse(s, x, answer, late, lapse) = t
    BY <1>1 DEF ProviderResponse
  <2> HIDE DEF t
  <2> QED
    BY <2>2, <2>3, PaidServed DEF Sound, Reduced, Pinned
<1>2. CASE ~late
  BY <1>2, AnsweredSound DEF ProviderResponse
<1> QED
  BY <1>1, <1>2

LEMMA AppendItem ==
  ASSUME NEW i \in Item, NEW terminal \in BOOLEAN, ~i.ended
  PROVE  LET j == AppendEvent(i, terminal)
         IN  /\ Follows(i, j) /\ j.hint = i.hint /\ j.phase = i.phase
             /\ ~terminal => (i.fence => j.fence)
<1>1. PICK fence \in BOOLEAN : fence = (i.fence /\ ~(terminal /\ i.phase = "unknown"))
  OBVIOUS
<1>2. AppendEvent(i, terminal)
        = [i EXCEPT !.next = i.next + 1, !.ended = terminal, !.fence = fence]
  BY <1>1 DEF AppendEvent
<1>3. i.next \in Nat /\ i.next + 1 \in Nat /\ i.next <= i.next + 1
  BY DEF Item
<1> DEFINE j == [i EXCEPT !.next = i.next + 1, !.ended = terminal, !.fence = fence]
<1>4. /\ j \in Item /\ j.instance = i.instance /\ j.phase = i.phase
      /\ j.next = i.next + 1 /\ j.accepted = i.accepted /\ j.result = i.result
      /\ j.hint = i.hint /\ j.fence = fence
  BY <1>3 DEF Item
<1> HIDE DEF j
<1>5. Follows(i, j)
  BY <1>3, <1>4 DEF Follows
<1> QED
  BY <1>1, <1>2, <1>4, <1>5 DEF j

\* An event is appended, queued with those before it, and looked after.
LEMMA EventSound ==
  ASSUME NEW s, Boxed(s, 0), s.drawn < MaxExchanges, NEW k, NEW n,
         NEW terminal \in BOOLEAN, NEW lapse, NEW D, terminal => k \in D
  PROVE  Sound(s, ProviderEvent(s, k, n, terminal, lapse), D)
<1> DEFINE v == [i \in DOMAIN s.items |->
                   IF i = k THEN AppendEvent(s.items[i], terminal) ELSE s.items[i]]
           t == [s EXCEPT !.items = v]
           u == QueueEvents(t, k)
           w == Refresh(u, k, "result", lapse, FALSE)
<1>1. Typed(s)
  BY DEF Boxed
<1>2. IsState(s) /\ s.items \in [DOMAIN s.items -> Item]
  BY <1>1, Types
<1>3. CASE ~TakesEvent(s.items, k, n)
  BY <1>1, <1>3, SameReduced, PaidServed DEF ProviderEvent, Sound, Reduced
<1>4. CASE TakesEvent(s.items, k, n)
  <2>1. k \in DOMAIN s.items /\ ~s.items[k].ended
    BY <1>4 DEF TakesEvent
  <2>2. [s EXCEPT !.items[k] = AppendEvent(@, terminal)] = t
    <3>1. v = [s.items EXCEPT ![k] = AppendEvent(s.items[k], terminal)]
      BY <1>2, <2>1
    <3> HIDE DEF v
    <3> QED
      BY <1>2, <3>1 DEF IsState, Fields
  <2>3. ASSUME NEW i \in DOMAIN s.items
        PROVE  /\ Follows(s.items[i], v[i])
               /\ s.items[i].fence => v[i].fence \/ i \in D
               /\ v[i].phase = s.items[i].phase /\ v[i].hint = s.items[i].hint
    <3>1. s.items[i] \in Item
      BY <1>2
    <3>2. CASE i = k
      <4>1. v[i] = AppendEvent(s.items[i], terminal)
        BY <3>2
      <4> HIDE DEF v
      <4> QED
        BY <2>1, <3>1, <3>2, <4>1, AppendItem
    <3>3. CASE i # k
      BY <3>1, <3>3, SameSoftly DEF Softly
    <3> QED
      BY <3>2, <3>3
  <2>4. v = [i \in DOMAIN s.items |-> v[i]]
    OBVIOUS
  <2>5. ProviderEvent(s, k, n, terminal, lapse) \in {u, w}
    <3> DEFINE a == [s EXCEPT !.items[k] = AppendEvent(@, terminal)]
    <3>1. ProviderEvent(s, k, n, terminal, lapse) \in
            {QueueEvents(a, k), Refresh(QueueEvents(a, k), k, "result", lapse, FALSE)}
      BY <1>4 DEF ProviderEvent
    <3>2. a = t
      BY <2>2
    <3> HIDE DEF a, t
    <3> QED
      BY <3>1, <3>2
  <2> HIDE DEF v
  <2>6. /\ Boxed(t, 0) /\ Moved(s, t, D) /\ Reduced(s, t)
        /\ t.items = v /\ t.exchanges = s.exchanges /\ t.current = s.current
    BY <2>3, <2>4, ItemsBoxed
  <2> HIDE DEF t
  <2>7. Delivered(t, u)
    BY <2>6, EventsDelivered
  <2> HIDE DEF u
  <2>8. /\ Boxed(u, 0) /\ Moved(t, u, D) /\ Paid(t, u) /\ u.drawn = t.drawn
        /\ u.items = t.items /\ u.exchanges = t.exchanges /\ u.current = t.current
    BY <2>7 DEF Delivered
  <2>9. k \in DOMAIN u.items /\ u.drawn < MaxExchanges
    BY <2>1, <2>4, <2>6, <2>8 DEF Reduced
  <2>10. "result" \in Purposes \ {"invoke"} /\ FALSE \in BOOLEAN /\ 0 \in Nat
    BY DEF Purposes, Lookups
  <2>11. /\ Boxed(w, 0) /\ Moved(u, w, D) /\ Paid(u, w) /\ (Pinned(u) => Pinned(w))
    BY <2>8, <2>9, <2>10, RefreshBoxed
  <2> HIDE DEF w
  <2>12. Typed(t) /\ Typed(u) /\ Typed(w)
    BY <2>6, <2>8, <2>11 DEF Boxed
  <2>13. Moved(s, u, D) /\ Paid(s, u)
    BY <1>1, <2>6, <2>8, <2>12, MovedTwice, PaidTwice DEF Reduced
  <2>14. Moved(s, w, D)
    BY <1>1, <2>11, <2>12, <2>13, MovedTwice
  <2>15. Paid(s, w)
    <3>1. DOMAIN w.exchanges \cap DOMAIN s.exchanges \subseteq DOMAIN u.exchanges
      BY <2>6, <2>8
    <3> QED
      BY <1>1, <2>6, <2>8, <2>11, <2>12, <2>13, <3>1, PaidTwice
  <2>16. Pinned(s) => Pinned(u)
    BY <2>6, <2>8 DEF Pinned
  <2>17. Sound(s, u, D) /\ Sound(s, w, D)
    BY <2>8, <2>11, <2>13, <2>14, <2>15, <2>16, PaidServed DEF Sound
  <2> QED
    BY <2>5, <2>17
<1> QED
  BY <1>3, <1>4

-----------------------------------------------------------------------------
(* The registry, deadlines and closing.                                    *)

LEMMA RegistryPosted ==
  ASSUME NEW r, NEW D, Boxed(r, 1)
  PROVE  LET t == Post(r, <<RegistryResponse>>)
         IN  /\ Boxed(t, 0) /\ Moved(r, t, D) /\ Reduced(r, t)
             /\ t.current = r.current /\ t.exchanges = r.exchanges
<1> DEFINE q == <<RegistryResponse>>
           t == Post(r, q)
<1>1. Typed(r)
  BY DEF Boxed
<1>2. IsState(r) /\ r.outbound \in Seq(Messages) /\ r.items \in [DOMAIN r.items -> Item]
  BY <1>1, Types
<1>3. RegistryResponse \in Messages /\ RegistryResponse.kind = "registry"
  BY MessageTypes
<1>4. q \in Seq(Messages) /\ Len(q) = 1 /\ DOMAIN q = {1} /\ q[1] = RegistryResponse
  BY <1>3
<1>5. Plain(q)
  BY <1>3, <1>4 DEF Plain
<1> HIDE DEF q
<1>6. Boxed(t, 1 - Len(q)) /\ Moved(r, t, D)
  <2>1. 1 \in Nat /\ Len(q) <= 1
    BY <1>4
  <2> QED
    BY <1>4, <1>5, <2>1, PostBoxed
<1>7. Boxed(t, 0)
  <2>1. 1 - Len(q) = 0
    BY <1>4
  <2> QED
    BY <1>6, <2>1
<1>8. /\ Beside(r, t) /\ t.items = r.items /\ t.exchanges = r.exchanges
      /\ t.drawn = r.drawn /\ t.outbound = r.outbound \o q
  BY <1>2, PostFields
<1> HIDE DEF t
<1>9. ASSUME NEW i \in Keys
      PROVE  Cardinality(RepliesIn(t.outbound, i)) =
               Cardinality(RepliesIn(r.outbound, i))
                 + Cardinality(CallersOf(r, DOMAIN r.exchanges \ DOMAIN t.exchanges, i))
  <2>1. Cardinality(RepliesIn(r.outbound \o q, i)) =
          Cardinality(RepliesIn(r.outbound, i)) + Cardinality(RepliesIn(q, i))
    BY <1>2, <1>4, RepliesJoined
  <2>2. RepliesIn(q, i) = {}
    BY <1>3, <1>4 DEF RepliesIn
  <2>3. CallersOf(r, DOMAIN r.exchanges \ DOMAIN t.exchanges, i) = {}
    BY <1>8 DEF CallersOf
  <2> QED
    BY <1>8, <2>1, <2>2, <2>3
<1>10. Paid(r, t)
  BY <1>9 DEF Paid
<1>11. Reduced(r, t)
  BY <1>8, <1>10 DEF Reduced, Beside
<1> QED
  BY <1>6, <1>7, <1>8, <1>11 DEF t, q, Beside

\* A registration or a withdrawal that replaces nobody, or ends what it replaces.
LEMMA MutateSound ==
  ASSUME NEW s, NEW D, Boxed(s, 0), NEW next \in Instances \cup {Nobody},
         NEW removed \in BOOLEAN,
         ~removed => next = s.current \/ s.current = Nobody
  PROVE  Sound(s, Mutate(s, next, removed), D)
<1>1. Typed(s)
  BY DEF Boxed
<1>2. CASE ~HasRoom(s, 1)
  BY <1>1, <1>2, SameReduced, PaidServed DEF Mutate, Sound, Reduced
<1>3. CASE HasRoom(s, 1)
  <2> DEFINE r == Reserve(s)
             c == [r EXCEPT !.current = next]
             t == Post(c, <<RegistryResponse>>)
             u == FinishRemoved(t, s.current)
  <2>1. Mutate(s, next, removed) = IF removed THEN u ELSE t
    BY <1>3 DEF Mutate
  <2>2. Boxed(r, 1) /\ Moved(s, r, D) /\ Reduced(s, r) /\ r.exchanges = s.exchanges
    <3>1. Moved(s, s, D) /\ Reduced(s, s)
      BY <1>1, SameReduced
    <3> QED
      BY <1>1, <1>3, <3>1, ReservedOnce
  <2> HIDE DEF r
  <2>3. /\ Boxed(c, 1) /\ Moved(r, c, D) /\ Reduced(r, c)
        /\ c.current = next /\ c.exchanges = r.exchanges
    BY <2>2, CurrentBoxed
  <2> HIDE DEF c
  <2>4. /\ Boxed(t, 0) /\ Moved(c, t, D) /\ Reduced(c, t)
        /\ t.current = c.current /\ t.exchanges = c.exchanges
    BY <2>3, RegistryPosted
  <2> HIDE DEF t
  <2>5. /\ Boxed(u, 0) /\ Moved(t, u, D) /\ Reduced(t, u)
        /\ \A x \in DOMAIN u.exchanges : u.exchanges[x].instance # s.current
    BY <2>4, RemovedBoxed
  <2> HIDE DEF u
  <2>6. Typed(r) /\ Typed(c) /\ Typed(t) /\ Typed(u)
    BY <2>2, <2>3, <2>4, <2>5 DEF Boxed
  <2>7. Moved(s, c, D) /\ Reduced(s, c)
    BY <1>1, <2>2, <2>3, <2>6, MovedTwice, ReducedTwice
  <2>8. Moved(s, t, D) /\ Reduced(s, t)
    BY <1>1, <2>4, <2>6, <2>7, MovedTwice, ReducedTwice
  <2>9. Moved(s, u, D) /\ Reduced(s, u)
    BY <1>1, <2>5, <2>6, <2>8, MovedTwice, ReducedTwice
  <2>10. Pinned(s) => Pinned(u)
    BY <2>5, <2>9 DEF Pinned, Reduced
  <2>11. ~removed /\ Pinned(s) => Pinned(t)
    <3>1. t.exchanges = s.exchanges /\ t.current = next
      BY <2>2, <2>3, <2>4
    <3>2. \A x \in DOMAIN s.exchanges : s.exchanges[x].instance # Nobody
      BY <1>1, Types, ServiceAssumption DEF Exchange
    <3> QED
      BY <3>1, <3>2 DEF Pinned
  <2> QED
    BY <2>1, <2>4, <2>5, <2>8, <2>9, <2>10, <2>11, PaidServed DEF Sound, Reduced
<1> QED
  BY <1>2, <1>3

LEMMA RegisterSound ==
  ASSUME NEW s, NEW D, Boxed(s, 0), NEW instance \in Instances, NEW lapse \in BOOLEAN
  PROVE  /\ Sound(s, ProviderRegister(s, instance, lapse), D)
         /\ Sound(s, ProviderUnregister(s, instance, lapse), D)
<1>1. s.current \in Instances \cup {Nobody}
  BY Types DEF Boxed
<1>2. Sound(s, ProviderRegister(s, instance, lapse), D)
  <2> DEFINE removed == s.current # Nobody /\ (lapse \/ s.current # instance)
  <2>1. PICK b \in BOOLEAN : b = removed
    OBVIOUS
  <2>2. Sound(s, Mutate(s, instance, b), D)
    BY <2>1, MutateSound
  <2> QED
    BY <2>1, <2>2 DEF ProviderRegister
<1>3. Sound(s, ProviderUnregister(s, instance, lapse), D)
  <2> DEFINE removed == s.current # Nobody /\ (lapse \/ s.current = instance)
             next == IF removed THEN Nobody ELSE s.current
  <2>1. PICK b \in BOOLEAN : b = removed
    OBVIOUS
  <2>2. next \in Instances \cup {Nobody} /\ (~b => next = s.current)
    BY <1>1, <2>1
  <2>3. ProviderUnregister(s, instance, lapse) = Mutate(s, next, b)
    BY <2>1 DEF ProviderUnregister
  <2> HIDE DEF next, removed
  <2> QED
    BY <2>2, <2>3, MutateSound
<1> QED
  BY <1>2, <1>3

\* A deadline that passes is no claim that its execution is over.
LEMMA SweepSound ==
  ASSUME NEW s, NEW D, Boxed(s, 0), NEW late, NEW overdue, NEW lapse
  PROVE  Sound(s, Sweep(s, late, overdue, lapse), D)
<1> DEFINE t == Expire(s, lapse)
           X == late \cap DOMAIN t.exchanges
           u == FinishErrors(t, X)
           v == [k \in DOMAIN u.items |->
                   IF k \in overdue /\ u.items[k].bounded THEN PassDeadline(u.items[k])
                   ELSE u.items[k]]
           w == [u EXCEPT !.items = v]
<1>1. Sweep(s, late, overdue, lapse) = w
  BY DEF Sweep
<1>2. Boxed(t, 0) /\ Moved(s, t, D) /\ Reduced(s, t) /\ (Pinned(s) => Pinned(t))
  BY ExpireBoxed
<1> HIDE DEF t
<1>3. /\ Boxed(u, 0) /\ Moved(t, u, D) /\ Reduced(t, u) /\ u.current = t.current
  BY <1>2, FinishBoxed
<1> HIDE DEF u
<1>4. ASSUME NEW i \in DOMAIN u.items
      PROVE  /\ Follows(u.items[i], v[i])
             /\ u.items[i].fence => v[i].fence \/ i \in D
             /\ v[i].phase \in Definite => u.items[i].phase \in Definite \/ i \in D
             /\ v[i].hint => u.items[i].hint \/ i \in D
  <2>1. u.items[i] \in Item
    BY <1>3, Types DEF Boxed
  <2>2. Softly(u.items[i], PassDeadline(u.items[i])) /\ Softly(u.items[i], u.items[i])
    BY <2>1, DeadlineItem, SameSoftly
  <2>3. v[i] \in {u.items[i], PassDeadline(u.items[i])}
    OBVIOUS
  <2> HIDE DEF v
  <2> QED
    BY <2>2, <2>3 DEF Softly
<1>5. v = [i \in DOMAIN u.items |-> v[i]]
  OBVIOUS
<1> HIDE DEF v
<1>6. /\ Boxed(w, 0) /\ Moved(u, w, D) /\ Reduced(u, w)
      /\ w.exchanges = u.exchanges /\ w.current = u.current
  BY <1>3, <1>4, <1>5, ItemsBoxed
<1> HIDE DEF w
<1>7. Typed(s) /\ Typed(t) /\ Typed(u) /\ Typed(w)
  BY <1>2, <1>3, <1>6 DEF Boxed
<1>8. Moved(s, u, D) /\ Reduced(s, u)
  BY <1>2, <1>3, <1>7, MovedTwice, ReducedTwice
<1>9. Moved(s, w, D) /\ Reduced(s, w)
  BY <1>6, <1>7, <1>8, MovedTwice, ReducedTwice
<1>10. Pinned(s) => Pinned(w)
  BY <1>2, <1>3, <1>6 DEF Pinned, Reduced
<1> QED
  BY <1>1, <1>6, <1>9, <1>10, PaidServed DEF Sound, Reduced

\* Exchanges that fail, for whatever reason.
LEMMA FinishSound ==
  ASSUME NEW s, NEW D, Boxed(s, 0), NEW X \in SUBSET DOMAIN s.exchanges
  PROVE  Sound(s, FinishErrors(s, X), D)
<1> DEFINE t == FinishErrors(s, X)
<1>1. Boxed(t, 0) /\ Moved(s, t, D) /\ Reduced(s, t) /\ t.current = s.current
  BY FinishBoxed
<1> HIDE DEF t
<1> QED
  BY <1>1, PaidServed DEF Sound, Reduced, Pinned, t

LEMMA OutputFailedSound ==
  ASSUME NEW s, NEW D, Boxed(s, 0), NEW m
  PROVE  Sound(s, OutputFailed(s, m), D)
<1>1. CASE m.kind = "request" /\ m.id \in DOMAIN s.exchanges
  BY <1>1, FinishSound DEF OutputFailed
<1>2. CASE ~(m.kind = "request" /\ m.id \in DOMAIN s.exchanges)
  BY <1>2, SameReduced, PaidServed DEF OutputFailed, Sound, Boxed, Reduced
<1> QED
  BY <1>1, <1>2

LEMMA CloseSound ==
  ASSUME NEW s, NEW D, Boxed(s, 0)
  PROVE  Sound(s, BeginClose(s), D)
<1> DEFINE t == StopAccepting(s)
           u == FinishErrors(t, DOMAIN s.exchanges)
<1>1. Typed(s)
  BY DEF Boxed
<1>2. /\ IsState(s) /\ s.current \in Instances \cup {Nobody}
      /\ s.items \in [DOMAIN s.items -> Item]
      /\ s.exchanges \in [DOMAIN s.exchanges -> Exchange]
  BY <1>1, Types
<1>3. /\ IsState(t) /\ t.accepting = FALSE /\ t.current = s.current
      /\ t.items = s.items /\ t.exchanges = s.exchanges /\ t.drawn = s.drawn
      /\ t.outbound = s.outbound /\ t.reserved = s.reserved
      /\ t.cursors = s.cursors /\ t.isolated = s.isolated
  BY <1>2 DEF StopAccepting, IsState, Fields
<1>4. BeginClose(s) = u
  BY DEF BeginClose
<1> HIDE DEF t
<1>5. \A k \in DOMAIN s.items : Follows(s.items[k], s.items[k])
  BY <1>2, SameSoftly DEF Softly
<1>6. Kept(s, t)
  BY <1>2, <1>3, <1>5 DEF Kept
<1>7. Boxed(t, 0)
  BY <1>3, <1>6, KeptSame
<1>8. Moved(s, t, D) /\ Paid(s, t)
  BY <1>1, <1>3, <1>6, KeptMoved, SamePaid
<1>9. /\ Boxed(u, 0) /\ Moved(t, u, D) /\ Reduced(t, u)
      /\ DOMAIN u.exchanges = DOMAIN t.exchanges \ DOMAIN s.exchanges
  BY <1>3, <1>7, FinishBoxed
<1> HIDE DEF u
<1>10. Typed(t) /\ Typed(u)
  BY <1>7, <1>9 DEF Boxed
<1>11. Moved(s, u, D)
  BY <1>1, <1>8, <1>9, <1>10, MovedTwice
<1>12. Paid(s, u)
  BY <1>3, <1>9 DEF Paid, Reduced, CallersOf
<1>13. Pinned(u)
  BY <1>3, <1>9 DEF Pinned
<1> QED
  BY <1>4, <1>9, <1>11, <1>12, <1>13, PaidServed DEF Sound

\* What may be forgotten holds no fence.
LEMMA ForgetBoxed ==
  ASSUME NEW s, NEW j \in Nat, NEW D, Boxed(s, j), NEW gone \in SUBSET Forgettable(s.items)
  PROVE  LET t == [s EXCEPT !.items = Forget(s.items, gone)]
         IN  /\ Boxed(t, j) /\ Moved(s, t, D) /\ Paid(s, t)
             /\ Beside(s, t) /\ t.exchanges = s.exchanges /\ t.drawn = s.drawn
             /\ t.outbound = s.outbound /\ t.reserved = s.reserved
             /\ t.items = Forget(s.items, gone)
<1> DEFINE v == Forget(s.items, gone)
           t == [s EXCEPT !.items = v]
<1>1. Typed(s)
  BY DEF Boxed
<1>2. /\ IsState(s)
      /\ s.accepting \in BOOLEAN /\ s.current \in Instances \cup {Nobody}
      /\ s.items \in [DOMAIN s.items -> Item]
      /\ s.exchanges \in [DOMAIN s.exchanges -> Exchange]
  BY <1>1, Types
<1>3. /\ DOMAIN v = DOMAIN s.items \ gone
      /\ \A k \in DOMAIN v : v[k] = s.items[k]
      /\ v \in [DOMAIN v -> Item]
  BY <1>2 DEF Forget, Restrict
<1> HIDE DEF v
<1>4. /\ Beside(s, t) /\ t.items = v /\ t.exchanges = s.exchanges
      /\ t.drawn = s.drawn /\ t.outbound = s.outbound /\ t.reserved = s.reserved
  BY <1>2, ItemsFields
<1> HIDE DEF t
<1>5. \A k \in DOMAIN v : Follows(s.items[k], v[k])
  BY <1>2, <1>3, SameSoftly DEF Softly
<1>6. Kept(s, t)
  BY <1>2, <1>3, <1>4, <1>5 DEF Kept, Beside
<1>7. Boxed(t, j)
  BY <1>4, <1>6, KeptSame
<1>8. \A k \in DOMAIN s.items : s.items[k].fence => k \in DOMAIN v
  BY <1>3 DEF Forgettable
<1>9. Moved(s, t, D)
  BY <1>1, <1>3, <1>4, <1>6, <1>8, KeptMoved
<1>10. Paid(s, t)
  BY <1>1, <1>4, SamePaid
<1> QED
  BY <1>4, <1>7, <1>9, <1>10 DEF t, v

LEMMA ForgetSound ==
  ASSUME NEW s, NEW D, Boxed(s, 0), NEW gone \in SUBSET Forgettable(s.items)
  PROVE  Sound(s, [s EXCEPT !.items = Forget(@, gone)], D)
<1> DEFINE t == [s EXCEPT !.items = Forget(s.items, gone)]
<1>1. /\ Boxed(t, 0) /\ Moved(s, t, D) /\ Paid(s, t)
      /\ Beside(s, t) /\ t.exchanges = s.exchanges
  BY ForgetBoxed
<1> HIDE DEF t
<1>2. Pinned(s) => Pinned(t)
  BY <1>1 DEF Pinned, Beside
<1> QED
  BY <1>1, <1>2, PaidServed DEF Sound, t


-----------------------------------------------------------------------------
(* Dispatch.                                                               *)

\* Message m was taken from s; its exchange, if it has one, is claimed.
Claimed(exchange) == [exchange EXCEPT !.claimed = TRUE]
Taken(s, t, m) ==
  /\ Boxed(t, 0) /\ m \in Messages
  /\ Beside(s, t) /\ t.items = s.items /\ t.drawn = s.drawn
  /\ DOMAIN t.exchanges = DOMAIN s.exchanges
  /\ \A x \in DOMAIN s.exchanges :
       t.exchanges[x] = IF IsRequest(m, x) THEN Claimed(s.exchanges[x])
                        ELSE s.exchanges[x]
  /\ \E n \in DOMAIN s.outbound : m = s.outbound[n]
  /\ m.kind = "request" =>
       /\ Agrees(s, m) /\ m.id \in DOMAIN s.exchanges
       /\ ~s.exchanges[m.id].claimed
  /\ \A k \in Keys : Fresh(s, k) => Fresh(t, k)

LEMMA ClaimedExchange ==
  ASSUME NEW x \in Exchange
  PROVE  /\ Claimed(x) \in Exchange /\ Claimed(x).claimed = TRUE
         /\ Claimed(x).key = x.key /\ Claimed(x).purpose = x.purpose
         /\ Claimed(x).instance = x.instance /\ Claimed(x).caller = x.caller
BY DEF Claimed, Exchange

\* Nothing but stale requests is skipped.
LEMMA TakeBoxed ==
  ASSUME NEW s, Boxed(s, 0), NEW n \in Deliverable(s)
  PROVE  Taken(s, TakeOutbound(s, n), s.outbound[n])
<1> DEFINE q == s.outbound
           m == q[n]
           p == SubSeq(q, n + 1, Len(q))
           e == [s.exchanges EXCEPT ![m.id].claimed = TRUE]
           w == PopOutbound(s, n)
           t == TakeOutbound(s, n)
<1>1. Typed(s)
  BY DEF Boxed
<1>2. /\ IsState(s)
      /\ s.accepting \in BOOLEAN /\ s.current \in Instances \cup {Nobody}
      /\ DOMAIN s.items \subseteq Keys
      /\ s.items \in [DOMAIN s.items -> Item]
      /\ DOMAIN s.exchanges \subseteq 1..s.drawn
      /\ s.exchanges \in [DOMAIN s.exchanges -> Exchange]
      /\ q \in Seq(Messages) /\ Len(q) \in Nat /\ DOMAIN q = 1..Len(q)
      /\ s.reserved \in Nat
      /\ DOMAIN s.cursors \subseteq DoraKeys
      /\ s.cursors \in [DOMAIN s.cursors -> Nat]
      /\ s.drawn \in 0..MaxExchanges
      /\ s.isolated \subseteq Keys
      /\ IsFiniteSet(DOMAIN s.items)
  BY <1>1, Types
<1>3. n \in 1..Len(q) /\ Valid(s, m) /\ \A i \in 1..n - 1 : ~Valid(s, q[i])
  BY <1>2 DEF Deliverable
<1>4. /\ p \in Seq(Messages) /\ Len(p) = Len(q) - n
      /\ DOMAIN p = 1..Len(q) - n
      /\ \A j \in 1..Len(q) - n : p[j] = q[n + j]
  BY <1>2, <1>3, SuffixItems
<1>5. m \in Messages
  BY <1>2, <1>3, ElementOfSeq
<1>6. m.kind = "request" =>
        /\ Agrees(s, m) /\ m.id \in DOMAIN s.exchanges /\ ~s.exchanges[m.id].claimed
  BY <1>2, <1>3 DEF Valid, Boxed, RequestsAgree
<1>7. /\ IsState(w) /\ w.outbound = p /\ w.items = s.items /\ w.exchanges = s.exchanges
      /\ w.reserved = s.reserved /\ w.drawn = s.drawn
      /\ w.accepting = s.accepting /\ w.current = s.current
      /\ w.cursors = s.cursors /\ w.isolated = s.isolated
  BY <1>2 DEF PopOutbound, IsState, Fields
<1>8. t = IF m.kind = "request" THEN [w EXCEPT !.exchanges = e] ELSE w
  BY <1>7 DEF TakeOutbound
<1> HIDE DEF w, t
<1>9. /\ Beside(s, t) /\ t.items = s.items /\ t.drawn = s.drawn
      /\ t.outbound = p /\ t.reserved = s.reserved
      /\ t.exchanges = IF m.kind = "request" THEN e ELSE s.exchanges
  <2> HIDE DEF m, p, e, q
  <2>1. CASE m.kind = "request"
    BY <1>7, <1>8, <2>1 DEF IsState, Fields, Beside
  <2>2. CASE m.kind # "request"
    BY <1>7, <1>8, <2>2 DEF Beside
  <2> QED
    BY <2>1, <2>2
<1>10. /\ DOMAIN t.exchanges = DOMAIN s.exchanges
       /\ \A x \in DOMAIN s.exchanges :
            t.exchanges[x] = IF IsRequest(m, x) THEN Claimed(s.exchanges[x])
                             ELSE s.exchanges[x]
  <2> HIDE DEF p, q
  <2>1. CASE m.kind = "request"
    BY <1>6, <1>9, <2>1 DEF IsRequest, Claimed
  <2>2. CASE m.kind # "request"
    BY <1>9, <2>2 DEF IsRequest
  <2> QED
    BY <2>1, <2>2
<1> HIDE DEF e
<1>11. ASSUME NEW x \in DOMAIN t.exchanges
       PROVE  /\ x \in DOMAIN s.exchanges
              /\ t.exchanges[x] \in Exchange
              /\ t.exchanges[x].key = s.exchanges[x].key
              /\ t.exchanges[x].purpose = s.exchanges[x].purpose
              /\ t.exchanges[x].instance = s.exchanges[x].instance
              /\ t.exchanges[x].caller = s.exchanges[x].caller
              /\ ~t.exchanges[x].claimed => ~s.exchanges[x].claimed /\ ~IsRequest(m, x)
  <2>1. x \in DOMAIN s.exchanges /\ s.exchanges[x] \in Exchange
    BY <1>2, <1>10
  <2>2. t.exchanges[x] = IF IsRequest(m, x) THEN Claimed(s.exchanges[x])
                         ELSE s.exchanges[x]
    BY <1>10, <2>1
  <2> HIDE DEF m
  <2> QED
    BY <2>1, <2>2, ClaimedExchange
<1>12. t.exchanges \in [DOMAIN t.exchanges -> Exchange]
  <2>1. t.exchanges = [x \in DOMAIN t.exchanges |-> t.exchanges[x]]
    BY <1>2, <1>9 DEF e
  <2> QED
    BY <1>11, <2>1
<1>13. ASSUME NEW j \in DOMAIN t.outbound
       PROVE  n + j \in DOMAIN q /\ t.outbound[j] = q[n + j]
  <2>1. j \in 1..Len(q) - n /\ t.outbound[j] = q[n + j]
    BY <1>4, <1>9
  <2>2. n + j \in 1..Len(q)
    BY <1>2, <1>3, <2>1
  <2> QED
    BY <1>2, <2>1, <2>2
<1>14. Typed(t)
  BY <1>2, <1>4, <1>9, <1>10, <1>12, ServiceTyped DEF Beside
<1>15. Balanced(t, 0)
  <2>1. CallersIn(t, DOMAIN t.exchanges) = CallersIn(s, DOMAIN s.exchanges)
    BY <1>10, <1>11 DEF CallersIn
  <2>2. /\ s.reserved = Cardinality(CallersIn(s, DOMAIN s.exchanges)) + 0
        /\ Len(q) + s.reserved <= Capacity
    BY DEF Boxed, Balanced
  <2>3. Len(t.outbound) = Len(q) - n /\ t.reserved = s.reserved
    BY <1>4, <1>9
  <2>4. Len(t.outbound) + t.reserved <= Capacity
    BY <1>2, <1>3, <2>2, <2>3, ServiceAssumption
  <2> QED
    BY <2>1, <2>2, <2>3, <2>4 DEF Balanced
<1>16. Single(t)
  <2> SUFFICES ASSUME NEW x \in DOMAIN t.exchanges, NEW y \in DOMAIN t.exchanges,
                      t.exchanges[x].key = t.exchanges[y].key,
                      t.exchanges[x].purpose = t.exchanges[y].purpose
               PROVE  x = y
    BY DEF Single
  <2> QED
    BY <1>11 DEF Boxed, Single
<1>17. QueuedOnce(t)
  <2> SUFFICES ASSUME NEW x \in DOMAIN t.exchanges, ~t.exchanges[x].claimed
               PROVE  \E l \in DOMAIN t.outbound :
                        \A i \in DOMAIN t.outbound :
                          IsRequest(t.outbound[i], x) <=> i = l
    BY DEF QueuedOnce
  <2>1. x \in DOMAIN s.exchanges /\ ~s.exchanges[x].claimed /\ ~IsRequest(m, x)
    BY <1>11
  <2>2. PICK l \in DOMAIN q : \A i \in DOMAIN q : IsRequest(q[i], x) <=> i = l
    BY <2>1 DEF Boxed, QueuedOnce
  <2>3. IsRequest(q[l], x)
    BY <2>2
  <2>4. Valid(s, q[l])
    BY <2>1, <2>3 DEF Valid, IsRequest
  <2>5. l \notin 1..n - 1 /\ l # n
    BY <1>3, <2>1, <2>3, <2>4
  <2>6. l - n \in 1..Len(q) - n
    BY <1>2, <1>3, <2>5
  <2>7. l - n \in DOMAIN t.outbound
    BY <1>4, <1>9, <2>6
  <2>8. ASSUME NEW i \in DOMAIN t.outbound
        PROVE  IsRequest(t.outbound[i], x) <=> i = l - n
    <3>1. IsRequest(t.outbound[i], x) <=> n + i = l
      BY <1>13, <2>2
    <3>2. i \in Int /\ n \in Int /\ l \in Int
      BY <1>2, <1>3, <1>4, <1>9
    <3> QED
      BY <3>1, <3>2
  <2> QED
    BY <2>7, <2>8
<1>18. RequestsAgree(t)
  <2> SUFFICES ASSUME NEW i \in DOMAIN t.outbound, t.outbound[i].kind = "request"
               PROVE  Agrees(t, t.outbound[i])
    BY DEF RequestsAgree
  <2>1. Agrees(s, t.outbound[i])
    BY <1>13 DEF Boxed, RequestsAgree
  <2> QED
    BY <1>9, <1>11, <2>1 DEF Agrees
<1>19. CursorsKept(t)
  BY <1>9 DEF Boxed, CursorsKept, Beside
<1>20. EventsFit(t)
  <2>1. ASSUME NEW i \in DOMAIN t.outbound, t.outbound[i].kind = "event"
        PROVE  EventFits(t, t.outbound[i])
    <3>1. EventFits(s, t.outbound[i])
      BY <1>13, <2>1 DEF Boxed, EventsFit
    <3> QED
      BY <1>9, <3>1 DEF EventFits, Beside
  <2>2. ASSUME NEW i \in DOMAIN t.outbound, NEW j \in DOMAIN t.outbound, i < j
        PROVE  Precedes(t.outbound[i], t.outbound[j])
    <3>1. n + i < n + j
      BY <1>2, <1>3, <1>4, <1>9, <2>2
    <3> QED
      BY <1>13, <3>1 DEF Boxed, EventsFit
  <2> QED
    BY <2>1, <2>2 DEF EventsFit
<1>21. Boxed(t, 0)
  BY <1>14, <1>15, <1>16, <1>17, <1>18, <1>19, <1>20 DEF Boxed
<1>22. ASSUME NEW k \in Keys, Fresh(s, k)
       PROVE  Fresh(t, k)
  BY <1>9, <1>11, <1>13, <1>22 DEF Fresh, Beside
<1>23. n \in DOMAIN s.outbound
  BY <1>2, <1>3
<1> QED
  BY <1>5, <1>6, <1>9, <1>10, <1>21, <1>22, <1>23 DEF Taken, t

\* The queue is only emptied when nothing in it is of use.
LEMMA DiscardBoxed ==
  ASSUME NEW s, NEW D, Boxed(s, 0), Deliverable(s) = {}
  PROVE  LET t == [s EXCEPT !.outbound = <<>>]
         IN  /\ Boxed(t, 0) /\ Moved(s, t, D)
             /\ t.exchanges = s.exchanges /\ t.current = s.current
<1> DEFINE q == s.outbound
           T == {n \in DOMAIN q : Valid(s, q[n])}
           t == [s EXCEPT !.outbound = <<>>]
<1>1. Typed(s)
  BY DEF Boxed
<1>2. /\ IsState(s)
      /\ s.accepting \in BOOLEAN /\ s.current \in Instances \cup {Nobody}
      /\ DOMAIN s.items \subseteq Keys
      /\ s.items \in [DOMAIN s.items -> Item]
      /\ DOMAIN s.exchanges \subseteq 1..s.drawn
      /\ s.exchanges \in [DOMAIN s.exchanges -> Exchange]
      /\ q \in Seq(Messages) /\ Len(q) \in Nat /\ DOMAIN q = 1..Len(q)
      /\ s.reserved \in Nat
      /\ DOMAIN s.cursors \subseteq DoraKeys
      /\ s.cursors \in [DOMAIN s.cursors -> Nat]
      /\ s.drawn \in 0..MaxExchanges
      /\ s.isolated \subseteq Keys
      /\ IsFiniteSet(DOMAIN s.items)
  BY <1>1, Types
<1>3. \A n \in DOMAIN q : ~Valid(s, q[n])
  <2>1. ASSUME T # {} PROVE FALSE
    <3>1. T \in SUBSET Nat
      BY <1>2
    <3>2. PICK n \in T : \A k \in T : n <= k
      <4> HIDE DEF T
      <4> QED
        BY <2>1, <3>1, FirstPosition
    <3>3. ASSUME NEW k \in 1..n - 1, Valid(s, q[k]) PROVE FALSE
      <4>1. n \in 1..Len(q) /\ k < n
        BY <1>2, <3>2
      <4>2. k \in T
        BY <1>2, <3>3, <4>1
      <4> QED
        BY <3>1, <3>2, <4>1, <4>2
    <3> QED
      BY <3>2, <3>3 DEF Deliverable
  <2> QED
    BY <2>1
<1> HIDE DEF T
<1>4. /\ Beside(s, t) /\ t.items = s.items /\ t.exchanges = s.exchanges
      /\ t.drawn = s.drawn /\ t.reserved = s.reserved /\ t.outbound = <<>>
  BY <1>2 DEF IsState, Fields, Beside
<1> HIDE DEF t
<1>5. t.outbound \in Seq(Messages) /\ Len(t.outbound) = 0 /\ DOMAIN t.outbound = {}
  BY <1>4
<1>6. Typed(t)
  BY <1>2, <1>4, <1>5, ServiceTyped DEF Beside
<1>7. Balanced(t, 0)
  <2>1. CallersIn(t, DOMAIN t.exchanges) = CallersIn(s, DOMAIN s.exchanges)
    BY <1>4 DEF CallersIn
  <2>2. /\ s.reserved = Cardinality(CallersIn(s, DOMAIN s.exchanges)) + 0
        /\ Len(q) + s.reserved <= Capacity
    BY DEF Boxed, Balanced
  <2>3. Len(t.outbound) + t.reserved <= Capacity
    BY <1>2, <1>4, <1>5, <2>2, ServiceAssumption
  <2> QED
    BY <1>4, <2>1, <2>2, <2>3 DEF Balanced
<1>8. QueuedOnce(t)
  <2>1. ASSUME NEW x \in DOMAIN s.exchanges, ~s.exchanges[x].claimed PROVE FALSE
    <3>1. PICK n \in DOMAIN q : \A i \in DOMAIN q : IsRequest(q[i], x) <=> i = n
      BY <2>1 DEF Boxed, QueuedOnce
    <3>2. IsRequest(q[n], x)
      BY <3>1
    <3>3. Valid(s, q[n])
      BY <2>1, <3>2 DEF Valid, IsRequest
    <3> QED
      BY <1>3, <3>3
  <2> QED
    BY <1>4, <2>1 DEF QueuedOnce
<1>9. Single(t) /\ RequestsAgree(t) /\ CursorsKept(t) /\ EventsFit(t)
  BY <1>4, <1>5 DEF Boxed, Single, RequestsAgree, CursorsKept, EventsFit, Beside
<1>10. \A k \in Keys : Fresh(s, k) => Fresh(t, k)
  BY <1>4, <1>5 DEF Fresh, Beside
<1>11. Moved(s, t, D)
  BY <1>1, <1>4, <1>10, SameMoved DEF Beside
<1> QED
  BY <1>4, <1>6, <1>7, <1>8, <1>9, <1>11 DEF Boxed, t, Beside


-----------------------------------------------------------------------------
(* Admission.                                                              *)

\* What is left of the table was there, and what is gone held no fence.
LEMMA ClearedItems ==
  ASSUME NEW v, NEW k, NEW w \in Cleared(v, k)
  PROVE  \E gone \in SUBSET Forgettable(v) : w = Forget(v, gone)
<1>1. PICK gone \in Gone(v) :
        w \in (IF k \in DOMAIN v \ gone THEN {Forget(v, gone)}
               ELSE {Forget(Forget(v, gone), victims) :
                       victims \in Victims(Forget(v, gone))})
  BY DEF Cleared
<1>2. gone \in SUBSET Forgettable(v)
  BY <1>1 DEF Gone
<1>3. CASE w = Forget(v, gone)
  BY <1>2, <1>3
<1>4. CASE \E victims \in Victims(Forget(v, gone)) : w = Forget(Forget(v, gone), victims)
  <2> DEFINE u == Forget(v, gone)
  <2>1. PICK victims \in Victims(u) : w = Forget(u, victims)
    BY <1>4
  <2>2. DOMAIN u = DOMAIN v \ gone /\ \A i \in DOMAIN u : u[i] = v[i]
    BY DEF Forget, Restrict
  <2>3. u = [i \in DOMAIN v \ gone |-> v[i]]
    BY DEF Forget, Restrict
  <2> HIDE DEF u
  <2>4. victims \subseteq Forgettable(u)
    BY <2>1 DEF Victims
  <2>5. Forgettable(u) \subseteq Forgettable(v)
    BY <2>2 DEF Forgettable
  <2>6. Forget(u, victims) = [i \in DOMAIN v \ (gone \cup victims) |-> v[i]]
    <3>1. DOMAIN u \cap (DOMAIN u \ victims) = DOMAIN v \ (gone \cup victims)
      BY <2>2
    <3> QED
      BY <2>2, <3>1 DEF Forget, Restrict
  <2>7. Forget(v, gone \cup victims) = [i \in DOMAIN v \ (gone \cup victims) |-> v[i]]
    BY DEF Forget, Restrict
  <2>8. gone \cup victims \in SUBSET Forgettable(v)
    BY <1>2, <2>4, <2>5
  <2> QED
    BY <2>1, <2>6, <2>7, <2>8
<1> QED
  BY <1>1, <1>3, <1>4

LEMMA NewItemTyped ==
  ASSUME NEW instance \in Instances, NEW bounded \in BOOLEAN
  PROVE  LET i == NewItem(instance, bounded)
         IN  /\ i \in Item /\ i.instance = instance /\ i.next = 0
             /\ i.fence = TRUE /\ i.phase \notin Terminal /\ i.hint = FALSE
<1>1. [c \in Commands |-> "none"] \in [Commands -> ControlStatuses]
  BY DEF ControlStatuses
<1>2. "dispatching" \in Nonterminal /\ "dispatching" \notin Terminal
  BY Phases
<1> QED
  BY <1>1, <1>2 DEF NewItem, Item

\* t is s with an item for k, a cursor if it is a Dora caller's, and n slots.
CursorsWith(s, k) ==
  [j \in DOMAIN s.cursors \cup {k} |-> IF j = k THEN 0 ELSE s.cursors[j]]
Enters(s, t, k, item, n) ==
  /\ IsState(t) /\ t.accepting = s.accepting /\ t.current = s.current
  /\ t.exchanges = s.exchanges /\ t.outbound = s.outbound
  /\ t.drawn = s.drawn /\ t.isolated = s.isolated
  /\ t.reserved = s.reserved + n
  /\ t.items = Add(s.items, k, item)
  /\ \/ k \in HttpKeys /\ t.cursors = s.cursors
     \/ k \in DoraKeys /\ t.cursors = CursorsWith(s, k)

LEMMA EntersBoxed ==
  ASSUME NEW s, Boxed(s, 0), NEW k \in Keys, Fresh(s, k), NEW item \in Item,
         item.next = 0, NEW n \in Nat, HasRoom(s, n), NEW t, Enters(s, t, k, item, n)
  PROVE  /\ Boxed(t, n) /\ Paid(s, t)
         /\ \A j \in Keys \ {k} : Fresh(s, j) => Fresh(t, j)
<1>1. Typed(s)
  BY DEF Boxed
<1>2. /\ IsState(s)
      /\ s.accepting \in BOOLEAN /\ s.current \in Instances \cup {Nobody}
      /\ DOMAIN s.items \subseteq Keys
      /\ s.items \in [DOMAIN s.items -> Item]
      /\ DOMAIN s.exchanges \subseteq 1..s.drawn
      /\ s.exchanges \in [DOMAIN s.exchanges -> Exchange]
      /\ s.outbound \in Seq(Messages) /\ Len(s.outbound) \in Nat
      /\ DOMAIN s.outbound = 1..Len(s.outbound)
      /\ s.reserved \in Nat
      /\ DOMAIN s.cursors \subseteq DoraKeys
      /\ s.cursors \in [DOMAIN s.cursors -> Nat]
      /\ s.drawn \in 0..MaxExchanges
      /\ s.isolated \subseteq Keys
      /\ IsFiniteSet(DOMAIN s.items)
  BY <1>1, Types
<1>3. /\ DOMAIN t.items = DOMAIN s.items \cup {k}
      /\ \A j \in DOMAIN s.items : t.items[j] = s.items[j]
      /\ t.items[k] = item
      /\ t.items \in [DOMAIN t.items -> Item]
      /\ IsFiniteSet(DOMAIN t.items)
  <2>1. k \notin DOMAIN s.items
    BY DEF Fresh
  <2>2. t.items = Add(s.items, k, item)
    BY DEF Enters
  <2> QED
    BY <1>2, <2>1, <2>2, FS_AddElement DEF Add
<1>4. /\ DOMAIN t.cursors \subseteq DoraKeys
      /\ t.cursors \in [DOMAIN t.cursors -> Nat]
      /\ DOMAIN t.cursors \subseteq DOMAIN s.cursors \cup {k}
      /\ \A j \in DOMAIN s.cursors : j \in DOMAIN t.cursors /\ (j # k => t.cursors[j] = s.cursors[j])
      /\ k \in DoraKeys => k \in DOMAIN t.cursors /\ t.cursors[k] = 0
  <2>1. CASE k \in HttpKeys /\ t.cursors = s.cursors
    BY <1>2, <2>1, ServiceAssumption
  <2>2. CASE k \in DoraKeys /\ t.cursors = CursorsWith(s, k)
    BY <1>2, <2>2 DEF CursorsWith
  <2> QED
    BY <2>1, <2>2 DEF Enters
<1>5. Typed(t)
  <2>1. t.reserved \in Nat
    BY <1>2 DEF Enters
  <2>2. DOMAIN t.items \subseteq Keys
    BY <1>2, <1>3
  <2> QED
    BY <1>2, <1>3, <1>4, <2>1, <2>2, ServiceTyped DEF Enters
<1>6. Balanced(t, n)
  <2>1. CallersIn(t, DOMAIN t.exchanges) = CallersIn(s, DOMAIN s.exchanges)
    BY DEF CallersIn, Enters
  <2>2. CallersIn(s, DOMAIN s.exchanges) \in SUBSET DOMAIN s.exchanges
    BY DEF CallersIn
  <2>3. Cardinality(CallersIn(s, DOMAIN s.exchanges)) \in Nat
    BY <1>1, <2>2, ExchangesFinite
  <2>4. s.reserved = Cardinality(CallersIn(s, DOMAIN s.exchanges)) + 0
    BY DEF Boxed, Balanced
  <2>5. t.reserved = s.reserved + n /\ t.outbound = s.outbound
    BY DEF Enters
  <2>6. Len(t.outbound) + t.reserved <= Capacity
    BY <1>2, <2>5, ServiceAssumption DEF HasRoom
  <2> QED
    BY <2>1, <2>3, <2>4, <2>5, <2>6 DEF Balanced
<1>7. Single(t) /\ QueuedOnce(t) /\ RequestsAgree(t)
  BY DEF Boxed, Single, QueuedOnce, RequestsAgree, Agrees, Enters
<1>8. CursorsKept(t)
  <2> SUFFICES ASSUME NEW i \in DOMAIN t.items \cap DoraKeys
               PROVE  i \in DOMAIN t.cursors /\ t.cursors[i] <= t.items[i].next
    BY DEF CursorsKept
  <2>1. CASE i = k
    BY <1>3, <1>4, <2>1
  <2>2. CASE i # k
    BY <1>3, <1>4, <2>2 DEF Boxed, CursorsKept
  <2> QED
    BY <2>1, <2>2
<1>9. EventsFit(t)
  <2>1. ASSUME NEW i \in DOMAIN s.outbound, s.outbound[i].kind = "event"
        PROVE  EventFits(t, s.outbound[i])
    <3>1. EventFits(s, s.outbound[i]) /\ s.outbound[i].key # k
      BY <2>1 DEF Boxed, EventsFit, Fresh
    <3> QED
      BY <1>3, <1>4, <3>1 DEF EventFits
  <2> QED
    BY <2>1 DEF Boxed, EventsFit, Enters
<1>10. ASSUME NEW j \in Keys \ {k}, Fresh(s, j)
       PROVE  Fresh(t, j)
  BY <1>3, <1>4, <1>10 DEF Fresh, Enters
<1>11. Paid(s, t)
  BY <1>1, SamePaid DEF Enters
<1> QED
  BY <1>5, <1>6, <1>7, <1>8, <1>9, <1>10, <1>11 DEF Boxed

\* k was admitted in r, with an exchange that invokes it.
Admitted(r, t, k) ==
  /\ Boxed(t, 0) /\ Paid(r, t)
  /\ k \notin DOMAIN r.items /\ Cardinality(Fenced(r.items)) < MaxConcurrency
  /\ DOMAIN t.items = DOMAIN r.items \cup {k}
  /\ \A j \in DOMAIN r.items : t.items[j] = r.items[j]
  /\ t.items[k].fence = TRUE /\ t.items[k].phase \notin Terminal
  /\ t.items[k].hint = FALSE
  /\ t.isolated = r.isolated /\ t.drawn = r.drawn + 1
  /\ DOMAIN t.exchanges = DOMAIN r.exchanges \cup {r.drawn + 1}
  /\ \A x \in DOMAIN r.exchanges : t.exchanges[x] = r.exchanges[x]
  /\ IsInvoke(t, r.drawn + 1, k) /\ t.exchanges[r.drawn + 1].claimed = FALSE
  /\ \A j \in Keys \ {k} : Fresh(r, j) => Fresh(t, j)
  /\ Pinned(r) => Pinned(t)

LEMMA EntryQueued ==
  ASSUME NEW r, Boxed(r, 0), r.drawn < MaxExchanges, NEW k \in Keys, Fresh(r, k),
         r.current \in Instances, NEW bounded \in BOOLEAN, NEW caller \in BOOLEAN,
         HasRoom(r, IF caller THEN 2 ELSE 1),
         Cardinality(Fenced(r.items)) < MaxConcurrency,
         NEW w, Enters(r, w, k, NewItem(r.current, bounded), IF caller THEN 2 ELSE 1)
  PROVE  Admitted(r, QueueExchange(w, k, "invoke", caller), k)
<1> DEFINE item == NewItem(r.current, bounded)
           n == IF caller THEN 2 ELSE 1
           t == QueueExchange(w, k, "invoke", caller)
           x == r.drawn + 1
<1>1. /\ item \in Item /\ item.instance = r.current /\ item.next = 0
      /\ item.fence = TRUE /\ item.phase \notin Terminal /\ item.hint = FALSE
  BY NewItemTyped
<1> HIDE DEF item
<1>2. n \in Nat
  OBVIOUS
<1>3. Enters(r, w, k, item, n)
  BY DEF item
<1>4. /\ Boxed(w, n) /\ Paid(r, w)
      /\ \A j \in Keys \ {k} : Fresh(r, j) => Fresh(w, j)
  <2> HIDE DEF n
  <2>1. HasRoom(r, n)
    BY DEF n
  <2> QED
    BY <1>1, <1>2, <1>3, <2>1, EntersBoxed
<1>5. k \notin DOMAIN r.items /\ \A y \in DOMAIN r.exchanges : r.exchanges[y].key # k
  BY DEF Fresh
<1>6. /\ DOMAIN w.items = DOMAIN r.items \cup {k} /\ w.items[k] = item
      /\ \A j \in DOMAIN r.items : w.items[j] = r.items[j]
      /\ w.exchanges = r.exchanges /\ w.drawn = r.drawn /\ w.current = r.current
      /\ w.isolated = r.isolated
  BY <1>3, <1>5 DEF Enters, Add
<1>7. Queued(w, t, 0, k, "invoke", caller)
  <2>1. ~IsPending(w, k, "invoke")
    BY <1>5, <1>6 DEF IsPending
  <2>2. "invoke" \in Purposes /\ 0 \in Nat
    BY DEF Purposes
  <2>3. Boxed(w, IF caller THEN 0 + 2 ELSE 0 + 1)
    BY <1>4
  <2>4. k \in DOMAIN w.items /\ w.drawn < MaxExchanges
    BY <1>6
  <2> QED
    BY <2>1, <2>2, <2>3, <2>4, QueueBoxed
<1> HIDE DEF t, n
<1>8. /\ Boxed(t, 0) /\ Paid(w, t)
      /\ t.items = w.items /\ t.cursors = w.cursors /\ t.current = w.current
      /\ t.isolated = w.isolated
      /\ DOMAIN t.exchanges = DOMAIN w.exchanges \cup {x}
      /\ \A y \in DOMAIN w.exchanges : t.exchanges[y] = w.exchanges[y]
      /\ t.drawn = x
      /\ t.exchanges[x] = NewExchange(w, k, "invoke", caller)
      /\ t.outbound = w.outbound \o <<Request(x, k, "invoke")>>
  BY <1>6, <1>7 DEF Queued
<1>9. Typed(r) /\ Typed(w) /\ Typed(t)
  BY <1>4, <1>8 DEF Boxed
<1>10. Paid(r, t)
  BY <1>4, <1>6, <1>8, <1>9, PaidTwice
<1>11. /\ IsInvoke(t, x, k) /\ t.exchanges[x].claimed = FALSE
       /\ t.exchanges[x].instance = r.current
  BY <1>1, <1>6, <1>8 DEF IsInvoke, NewExchange
<1>12. ASSUME NEW j \in Keys \ {k}, Fresh(r, j)
       PROVE  Fresh(t, j)
  <2>1. Fresh(w, j)
    BY <1>4, <1>12
  <2>2. j \notin DOMAIN t.items /\ j \notin DOMAIN t.cursors /\ j \notin t.isolated
    BY <1>8, <2>1 DEF Fresh
  <2>3. \A y \in DOMAIN t.exchanges : t.exchanges[y].key # j
    BY <1>8, <1>11, <1>12, <2>1 DEF Fresh, IsInvoke
  <2>4. ASSUME NEW i \in DOMAIN t.outbound, t.outbound[i].kind \in {"request", "event"}
        PROVE  t.outbound[i].key # j
    <3> DEFINE q == <<Request(x, k, "invoke")>>
    <3>1. Request(x, k, "invoke").key = k /\ Request(x, k, "invoke") \in Messages
      <4>1. x \in Exchanges
        BY <1>8, <1>9, Types DEF Exchanges
      <4>2. "invoke" \in Purposes
        BY DEF Purposes
      <4> QED
        BY <4>1, <4>2, MessageTypes
    <3>2. q \in Seq(Messages) /\ Len(q) = 1 /\ q[1] = Request(x, k, "invoke")
      BY <3>1
    <3>3. w.outbound \in Seq(Messages)
      BY <1>9, Types
    <3> HIDE DEF q
    <3>4. Joins(w.outbound, q)
      BY <3>2, <3>3, MessagesJoined
    <3>5. t.outbound = w.outbound \o q
      BY <1>8 DEF q
    <3>6. CASE i \in DOMAIN w.outbound
      BY <2>1, <2>4, <3>4, <3>5, <3>6 DEF Joins, Fresh
    <3>7. CASE i \notin DOMAIN w.outbound
      <4>1. i - Len(w.outbound) \in 1..Len(q) /\ t.outbound[i] = q[i - Len(w.outbound)]
        BY <3>4, <3>5, <3>7 DEF Joins
      <4>2. i - Len(w.outbound) = 1
        BY <3>2, <4>1
      <4> QED
        BY <1>12, <3>1, <3>2, <4>1, <4>2
    <3> QED
      BY <3>6, <3>7
  <2> QED
    BY <2>2, <2>3, <2>4 DEF Fresh
<1>13. Pinned(r) => Pinned(t)
  BY <1>6, <1>8, <1>11 DEF Pinned
<1> QED
  BY <1>1, <1>5, <1>6, <1>8, <1>10, <1>11, <1>12, <1>13 DEF Admitted, t, x

\* A step that admits nothing, and one that admits k.
Steady(s, t, D) == Boxed(t, 0) /\ Moved(s, t, D) /\ Served(s, t)
Admits(s, t, k, D) ==
  \E r : Boxed(r, 0) /\ Moved(s, r, D) /\ Paid(s, r) /\ Admitted(r, t, k)

\* An execution is admitted only while fewer than its operation allows hold
\* their fences.
LEMMA NotRefused ==
  ASSUME NEW r, Typed(r), NEW k, ~Refuses(r.items, k)
  PROVE  Cardinality(Fenced(r.items)) < MaxConcurrency
<1>1. Fenced(r.items) \in SUBSET DOMAIN r.items /\ IsFiniteSet(DOMAIN r.items)
  BY Types DEF Fenced
<1>2. Cardinality(Fenced(r.items)) \in Nat
  BY <1>1, FS_Subset, FS_CardinalityType
<1>3. ~(Cardinality(Fenced(r.items)) >= MaxConcurrency)
  BY DEF Refuses
<1> QED
  BY <1>2, <1>3, StoreAssumption

LEMMA AdmitDoraSound ==
  ASSUME NEW s, NEW D, Boxed(s, 0), s.drawn < MaxExchanges, NEW k \in DoraKeys,
         NEW bounded \in BOOLEAN, NEW lapse, NEW u \in AdmitDora(s, k, bounded, lapse),
         Fresh(s, k) \/ u.drawn = s.drawn
  PROVE  /\ Steady(s, u, D) \/ Admits(s, u, k, D)
         /\ Pinned(s) => Pinned(u)
<1> DEFINE t == Expire(s, lapse)
<1>1. Typed(s) /\ k \in Keys
  BY ServiceAssumption DEF Boxed
<1>2. Boxed(t, 0) /\ Moved(s, t, D) /\ Reduced(s, t) /\ (Pinned(s) => Pinned(t))
  BY ExpireBoxed
<1>3. CASE ~s.accepting
  BY <1>1, <1>3, SameReduced, PaidServed DEF AdmitDora, Steady, Reduced
<1>4. CASE s.accepting /\ ~HasRoom(t, 1)
  <2>1. u = t
    BY <1>4 DEF AdmitDora
  <2> HIDE DEF t
  <2> QED
    BY <1>2, <2>1, PaidServed DEF Steady, Reduced
<1>5. CASE s.accepting /\ HasRoom(t, 1) /\ t.current = Nobody
  <2>1. u = Answer(t, k)
    BY <1>5 DEF AdmitDora
  <2> HIDE DEF t
  <2>2. Sound(s, Answer(t, k), D)
    BY <1>1, <1>2, AnswerSound DEF Reduced
  <2> QED
    BY <2>1, <2>2 DEF Sound, Steady
<1>6. CASE s.accepting /\ HasRoom(t, 1) /\ t.current # Nobody
  <2>1. PICK table \in Cleared(t.items, k) :
          u = IF Refuses(table, k) \/ ~HasRoom(t, 2) \/ ~CanExchange(t)
              THEN Answer([t EXCEPT !.items = table], k)
              ELSE QueueExchange(
                     [t EXCEPT !.items = Add(table, k, NewItem(t.current, bounded)),
                               !.cursors = [j \in DOMAIN @ \cup {k} |->
                                              IF j = k THEN 0 ELSE @[j]],
                               !.reserved = @ + 2],
                     k, "invoke", TRUE)
    BY <1>6, Zenon DEF AdmitDora
  <2> HIDE DEF t
  <2>2. PICK gone \in SUBSET Forgettable(t.items) : table = Forget(t.items, gone)
    BY <2>1, ClearedItems
  <2> DEFINE r == [t EXCEPT !.items = Forget(t.items, gone)]
             w == [t EXCEPT !.items = Add(table, k, NewItem(t.current, bounded)),
                            !.cursors = [j \in DOMAIN @ \cup {k} |->
                                           IF j = k THEN 0 ELSE @[j]],
                            !.reserved = @ + 2]
  <2>3. /\ Boxed(r, 0) /\ Moved(t, r, D) /\ Paid(t, r)
        /\ Beside(t, r) /\ r.exchanges = t.exchanges /\ r.drawn = t.drawn
        /\ r.outbound = t.outbound /\ r.reserved = t.reserved
        /\ r.items = Forget(t.items, gone)
    BY <1>2, ForgetBoxed
  <2>4. r = [t EXCEPT !.items = table]
    BY <2>2
  <2>5. IsState(t)
    BY <1>2, Types DEF Boxed
  <2>6. Enters(r, w, k, NewItem(t.current, bounded), 2)
    BY <2>3, <2>2, <2>5 DEF Enters, CursorsWith, IsState, Fields, Beside
  <2> HIDE DEF r, w
  <2>7. Typed(t) /\ Typed(r)
    BY <1>2, <2>3 DEF Boxed
  <2>8. Moved(s, r, D) /\ (Pinned(s) => Pinned(r))
    BY <1>1, <1>2, <2>3, <2>7, MovedTwice DEF Pinned, Beside
  <2>9. Paid(s, r)
    BY <1>1, <1>2, <2>3, <2>7, PaidTwice DEF Reduced
  <2>10. CASE Refuses(table, k) \/ ~HasRoom(t, 2) \/ ~CanExchange(t)
    <3>1. u = Answer(r, k)
      BY <2>1, <2>4, <2>10
    <3>2. Sound(s, Answer(r, k), D)
      BY <1>1, <2>3, <2>8, <2>9, AnswerSound
    <3> QED
      BY <3>1, <3>2 DEF Sound, Steady
  <2>11. CASE ~(Refuses(table, k) \/ ~HasRoom(t, 2) \/ ~CanExchange(t))
    <3>1. u = QueueExchange(w, k, "invoke", TRUE)
      BY <2>1, <2>11 DEF w
    <3>2. u.drawn = s.drawn + 1
      <4>1. IsState(w) /\ w.drawn = s.drawn
        BY <1>2, <2>3, <2>6 DEF Enters, Reduced
      <4>2. Queues(w, QueueExchange(w, k, "invoke", TRUE), k, "invoke", TRUE)
        BY <4>1, QueueFields
      <4> QED
        BY <3>1, <4>1, <4>2 DEF Queues
    <3>3. s.drawn \in Nat
      BY <1>1, Types
    <3>4. Fresh(s, k)
      BY <3>2, <3>3
    <3>5. Fresh(r, k)
      BY <1>1, <2>8, <3>4 DEF Moved
    <3>6. r.current \in Instances /\ r.current = t.current
      BY <1>6, <2>3, <2>7, Types DEF Beside
    <3>7. HasRoom(r, IF TRUE THEN 2 ELSE 1)
      BY <2>3, <2>11 DEF HasRoom
    <3>8. Cardinality(Fenced(r.items)) < MaxConcurrency
      BY <2>2, <2>3, <2>7, <2>11, NotRefused
    <3>9. r.drawn < MaxExchanges
      BY <1>2, <2>3 DEF Reduced
    <3>10. Enters(r, w, k, NewItem(r.current, bounded), IF TRUE THEN 2 ELSE 1)
      BY <2>6, <3>6
    <3>11. Admitted(r, u, k)
      <4>1. TRUE \in BOOLEAN
        OBVIOUS
      <4> QED
        BY <1>1, <2>3, <3>1, <3>5, <3>6, <3>7, <3>8, <3>9, <3>10, <4>1, EntryQueued
    <3>12. Admits(s, u, k, D)
      BY <2>3, <2>8, <2>9, <3>11 DEF Admits
    <3>13. Pinned(s) => Pinned(u)
      BY <2>8, <3>11 DEF Admitted
    <3> QED
      BY <3>12, <3>13
  <2> QED
    BY <2>10, <2>11
<1> QED
  BY <1>3, <1>4, <1>5, <1>6

LEMMA AdmitHttpSound ==
  ASSUME NEW s, NEW D, Boxed(s, 0), s.drawn < MaxExchanges, NEW k \in HttpKeys,
         NEW instance \in Instances, NEW bounded \in BOOLEAN,
         NEW u \in AdmitHttp(s, k, instance, bounded), Fresh(s, k)
  PROVE  /\ Steady(s, u, D) \/ Admits(s, u, k, D)
         /\ Pinned(s) => Pinned(u)
<1>1. Typed(s) /\ k \in Keys /\ Moved(s, s, D) /\ Reduced(s, s)
  BY ServiceAssumption, SameReduced DEF Boxed
<1>2. CASE ~s.accepting \/ s.current # instance \/ ~HasRoom(s, 1)
  <2>1. u = s
    BY <1>2 DEF AdmitHttp
  <2> QED
    BY <1>1, <2>1, PaidServed DEF Steady, Reduced
<1>3. CASE s.accepting /\ s.current = instance /\ HasRoom(s, 1)
  <2>1. PICK table \in Cleared(s.items, k) :
          u = IF Refuses(table, k) \/ ~CanExchange(s) THEN [s EXCEPT !.items = table]
              ELSE QueueExchange(
                     [Reserve(s) EXCEPT !.items = Add(table, k, NewItem(instance, bounded))],
                     k, "invoke", FALSE)
    BY <1>3 DEF AdmitHttp
  <2>2. PICK gone \in SUBSET Forgettable(s.items) : table = Forget(s.items, gone)
    BY <2>1, ClearedItems
  <2> DEFINE r == [s EXCEPT !.items = Forget(s.items, gone)]
             w == [Reserve(s) EXCEPT !.items = Add(table, k, NewItem(instance, bounded))]
  <2>3. /\ Boxed(r, 0) /\ Moved(s, r, D) /\ Paid(s, r)
        /\ Beside(s, r) /\ r.exchanges = s.exchanges /\ r.drawn = s.drawn
        /\ r.outbound = s.outbound /\ r.reserved = s.reserved
        /\ r.items = Forget(s.items, gone)
    BY ForgetBoxed
  <2>4. r = [s EXCEPT !.items = table]
    BY <2>2
  <2>5. IsState(s)
    BY Types DEF Boxed
  <2>6. Enters(r, w, k, NewItem(instance, bounded), 1)
    BY <2>3, <2>2, <2>5 DEF Enters, Reserve, IsState, Fields, Beside
  <2> HIDE DEF r, w
  <2>7. Typed(r) /\ (Pinned(s) => Pinned(r))
    BY <2>3 DEF Boxed, Pinned, Beside
  <2>8. CASE Refuses(table, k) \/ ~CanExchange(s)
    BY <2>1, <2>3, <2>4, <2>7, <2>8, PaidServed DEF Steady
  <2>9. CASE ~(Refuses(table, k) \/ ~CanExchange(s))
    <3>1. u = QueueExchange(w, k, "invoke", FALSE)
      BY <2>1, <2>9 DEF w
    <3>2. Fresh(r, k)
      BY <1>1, <2>3 DEF Moved
    <3>3. r.current = instance
      BY <1>3, <2>3 DEF Beside
    <3>4. HasRoom(r, IF FALSE THEN 2 ELSE 1)
      BY <1>3, <2>3 DEF HasRoom
    <3>5. Cardinality(Fenced(r.items)) < MaxConcurrency
      BY <2>2, <2>3, <2>7, <2>9, NotRefused
    <3>6. r.drawn < MaxExchanges
      BY <2>3
    <3>7. Enters(r, w, k, NewItem(r.current, bounded), IF FALSE THEN 2 ELSE 1)
      BY <2>6, <3>3
    <3>8. Admitted(r, u, k)
      <4>1. FALSE \in BOOLEAN
        OBVIOUS
      <4> QED
        BY <1>1, <2>3, <3>1, <3>2, <3>3, <3>4, <3>5, <3>6, <3>7, <4>1, EntryQueued
    <3>9. Admits(s, u, k, D)
      BY <2>3, <3>8 DEF Admits
    <3>10. Pinned(s) => Pinned(u)
      BY <2>7, <3>8 DEF Admitted
    <3> QED
      BY <3>9, <3>10
  <2> QED
    BY <2>8, <2>9
<1> QED
  BY <1>2, <1>3

-----------------------------------------------------------------------------
(* The service s and its environment e: the truth about each execution     *)
(* (run), the requests that reached a provider (sent), those that have     *)
(* left the mailbox (out), and the executions asked for (known).           *)

Settled(e) == {k \in Keys : e.run[k] \notin {"none", "running"}}
Invokes(messages, k) == \E m \in messages : m.key = k /\ m.purpose = "invoke"

\* Its provider runs k, or may still be told to.
May(s, e, k) ==
  \/ e.run[k] = "running"
  \/ e.run[k] = "none" /\ (Waits(s, k) \/ Invokes(e.out, k))
Free(s, e) == {k \in Keys : May(s, e, k) /\ k \notin s.isolated}

\* Nobody has heard of an execution before it is admitted.
Freshness(s, e) ==
  \A k \in Keys \ e.known :
    /\ Fresh(s, k) /\ e.run[k] = "none"
    /\ \A m \in e.out : m.key # k

\* A request that left the mailbox is its exchange's, which is claimed.
OutClaimed(s, e) ==
  /\ e.sent \subseteq e.out
  /\ \A m \in e.out :
       /\ Agrees(s, m)
       /\ m.id \in DOMAIN s.exchanges => s.exchanges[m.id].claimed

\* An invoke that waits to be sent was not sent before, and nothing runs that
\* was not invoked.
InvokedOnce(s, e) == \A k \in Keys : Waits(s, k) => ~Invokes(e.out, k)
Begun(e) == \A k \in Keys : e.run[k] # "none" => Invokes(e.sent, k)

\* Fences cover what may run; outcomes and hints are the provider's word.
Covers(s, e) == \A k \in Free(s, e) : k \in DOMAIN s.items /\ s.items[k].fence
Few(s, e) == Cardinality(Free(s, e)) <= MaxConcurrency
DefiniteOver(s, e) ==
  \A k \in DOMAIN s.items : s.items[k].phase \in Definite => ~May(s, e, k)
Hinted(s, e) == \A k \in DOMAIN s.items : s.items[k].hint => k \in Settled(e)

Truthful(s, e) ==
  /\ Freshness(s, e) /\ OutClaimed(s, e) /\ InvokedOnce(s, e) /\ Begun(e)
  /\ Covers(s, e) /\ Few(s, e) /\ DefiniteOver(s, e) /\ Hinted(s, e)

\* Messages may be lost or arrive; an execution starts when invoked, and ends.
Goes(e, f) ==
  /\ f.out \subseteq e.out /\ e.sent \subseteq f.sent /\ f.sent \subseteq f.out
  /\ f.known = e.known
  /\ \A k \in Keys :
       /\ f.run[k] = "none" => e.run[k] = "none"
       /\ f.run[k] = "running" =>
            e.run[k] = "running" \/ (e.run[k] = "none" /\ Invokes(e.sent, k))
       /\ f.run[k] # "none" => e.run[k] # "none" \/ Invokes(e.sent, k)
       /\ k \in Settled(e) => k \in Settled(f)

LEMMA FreeFinite ==
  ASSUME NEW s, NEW e, Boxed(s, 0), Covers(s, e)
  PROVE  IsFiniteSet(Free(s, e)) /\ Cardinality(Free(s, e)) \in Nat
<1>1. IsFiniteSet(DOMAIN s.items)
  BY Types DEF Boxed
<1>2. Free(s, e) \subseteq DOMAIN s.items
  BY DEF Covers
<1> QED
  BY <1>1, <1>2, FS_Subset, FS_CardinalityType

LEMMA FewerFree ==
  ASSUME NEW s, NEW e, NEW F, Boxed(s, 0), Covers(s, e), Few(s, e), F \subseteq Free(s, e)
  PROVE  Cardinality(F) <= MaxConcurrency
<1>1. IsFiniteSet(Free(s, e)) /\ Cardinality(Free(s, e)) \in Nat
  BY FreeFinite
<1>2. IsFiniteSet(F) /\ Cardinality(F) <= Cardinality(Free(s, e))
  BY <1>1, FS_Subset
<1>3. Cardinality(F) \in Nat
  BY <1>2, FS_CardinalityType
<1> QED
  BY <1>1, <1>2, <1>3, StoreAssumption DEF Few

\* A step that admits nothing and takes nothing from the mailbox.
LEMMA StepKeeps ==
  ASSUME NEW s, NEW t, NEW e, NEW f, Boxed(s, 0), Boxed(t, 0), Truthful(s, e),
         Moved(s, t, Settled(f)), Goes(e, f)
  PROVE  Truthful(t, f)
<1>1. Typed(s) /\ Typed(t)
  BY DEF Boxed
<1>2. /\ s.drawn \in Nat /\ t.drawn \in Nat /\ s.drawn <= t.drawn
      /\ DOMAIN s.exchanges \subseteq 1..s.drawn
      /\ s.isolated \subseteq t.isolated /\ DOMAIN t.items \subseteq DOMAIN s.items
  BY <1>1, Types DEF Moved
<1>3. DOMAIN s.items \subseteq Keys
  BY <1>1, Types
<1>4. ASSUME NEW k, NEW x \in DOMAIN t.exchanges, IsInvoke(t, x, k)
      PROVE  x \in DOMAIN s.exchanges /\ t.exchanges[x] = s.exchanges[x] /\ IsInvoke(s, x, k)
  BY <1>4 DEF Moved, IsInvoke
<1>5. \A k : Waits(t, k) => Waits(s, k)
  BY <1>4 DEF Waits
<1>6. \A k : Invokes(f.out, k) => Invokes(e.out, k)
  BY DEF Goes, Invokes
<1>7. \A k : Invokes(e.sent, k) => Invokes(e.out, k)
  BY DEF Invokes, Truthful, OutClaimed
<1>8. \A k \in Keys : May(t, f, k) => May(s, e, k)
  BY <1>5, <1>6, <1>7 DEF May, Goes
<1>9. ASSUME NEW k \in Keys, Unsent(s, t, k)
      PROVE  ~May(t, f, k)
  <2>1. PICK x \in DOMAIN s.exchanges \ DOMAIN t.exchanges :
          IsInvoke(s, x, k) /\ ~s.exchanges[x].claimed
    BY <1>9 DEF Unsent
  <2>2. Waits(s, k)
    BY <2>1 DEF Waits
  <2>3. ~Invokes(e.out, k) /\ ~Invokes(f.out, k)
    BY <1>6, <2>2 DEF Truthful, InvokedOnce
  <2>4. ~Invokes(e.sent, k) /\ e.run[k] = "none"
    BY <1>7, <2>3 DEF Truthful, Begun
  <2>5. f.run[k] # "running"
    BY <2>4 DEF Goes
  <2>6. ~Waits(t, k)
    <3>1. ASSUME NEW y \in DOMAIN t.exchanges, IsInvoke(t, y, k)
          PROVE  FALSE
      <4>1. y \in DOMAIN s.exchanges /\ IsInvoke(s, y, k)
        BY <1>4, <3>1
      <4>2. y = x
        BY <2>1, <4>1 DEF Boxed, Single, IsInvoke
      <4> QED
        BY <2>1, <4>2
    <3> QED
      BY <3>1 DEF Waits
  <2> QED
    BY <2>3, <2>5, <2>6 DEF May
<1>10. ASSUME NEW k \in Settled(f)
       PROVE  ~May(t, f, k)
  BY <1>10 DEF Settled, May
<1>11. Freshness(t, f)
  <2> SUFFICES ASSUME NEW k \in Keys \ f.known
               PROVE  Fresh(t, k) /\ f.run[k] = "none" /\ \A m \in f.out : m.key # k
    BY DEF Freshness
  <2>1. k \in Keys \ e.known
    BY DEF Goes
  <2>2. Fresh(s, k) /\ e.run[k] = "none" /\ \A m \in e.out : m.key # k
    BY <2>1 DEF Truthful, Freshness
  <2>3. ~Invokes(e.sent, k)
    BY <1>7, <2>2 DEF Invokes
  <2>4. f.run[k] = "none"
    BY <2>2, <2>3 DEF Goes
  <2>5. Fresh(t, k)
    BY <2>2 DEF Moved
  <2> QED
    BY <2>2, <2>4, <2>5 DEF Goes
<1>12. OutClaimed(t, f)
  <2> SUFFICES ASSUME NEW m \in f.out
               PROVE  /\ Agrees(t, m)
                      /\ m.id \in DOMAIN t.exchanges => t.exchanges[m.id].claimed
    BY DEF OutClaimed, Goes
  <2>1. /\ Agrees(s, m)
        /\ m.id \in DOMAIN s.exchanges => s.exchanges[m.id].claimed
    BY DEF Truthful, OutClaimed, Goes
  <2>2. m.id \in 1..s.drawn /\ m.id \in 1..t.drawn
    BY <1>2, <2>1 DEF Agrees
  <2>3. m.id \in DOMAIN t.exchanges =>
          m.id \in DOMAIN s.exchanges /\ t.exchanges[m.id] = s.exchanges[m.id]
    BY <2>2 DEF Moved
  <2> QED
    BY <2>1, <2>2, <2>3 DEF Agrees
<1>13. InvokedOnce(t, f)
  BY <1>5, <1>6 DEF Truthful, InvokedOnce
<1>14. Begun(f)
  <2>1. \A k : Invokes(e.sent, k) => Invokes(f.sent, k)
    BY DEF Invokes, Goes
  <2> QED
    BY <2>1 DEF Truthful, Begun, Goes
<1>15. Free(t, f) \subseteq Free(s, e)
  BY <1>2, <1>8 DEF Free
<1>16. Covers(t, f)
  <2> SUFFICES ASSUME NEW k \in Free(t, f)
               PROVE  k \in DOMAIN t.items /\ t.items[k].fence
    BY DEF Covers
  <2>1. k \in DOMAIN s.items /\ s.items[k].fence
    BY <1>15 DEF Truthful, Covers
  <2>2. k \in Keys /\ May(t, f, k) /\ k \notin t.isolated
    BY DEF Free
  <2>3. \/ k \in DOMAIN t.items /\ t.items[k].fence
        \/ k \in t.isolated \/ k \in Settled(f) \/ Unsent(s, t, k)
    BY <2>1 DEF Moved
  <2> QED
    BY <1>9, <1>10, <2>2, <2>3
<1>17. Few(t, f)
  BY <1>15, FewerFree DEF Truthful, Few
<1>18. DefiniteOver(t, f)
  <2> SUFFICES ASSUME NEW k \in DOMAIN t.items, t.items[k].phase \in Definite
               PROVE  ~May(t, f, k)
    BY DEF DefiniteOver
  <2>1. k \in Keys /\ k \in DOMAIN s.items
    BY <1>2, <1>3
  <2>2. s.items[k].phase \in Definite \/ k \in Settled(f) \/ Unsent(s, t, k)
    BY DEF Moved
  <2>3. s.items[k].phase \in Definite => ~May(s, e, k)
    BY <2>1 DEF Truthful, DefiniteOver
  <2> QED
    BY <1>8, <1>9, <1>10, <2>1, <2>2, <2>3
<1>19. Hinted(t, f)
  <2> SUFFICES ASSUME NEW k \in DOMAIN t.items, t.items[k].hint
               PROVE  k \in Settled(f)
    BY DEF Hinted
  <2>1. k \in Keys /\ k \in DOMAIN s.items
    BY <1>2, <1>3
  <2>2. s.items[k].hint \/ k \in Settled(f)
    BY DEF Moved
  <2>3. s.items[k].hint => k \in Settled(e)
    BY <2>1 DEF Truthful, Hinted
  <2> QED
    BY <2>1, <2>2, <2>3 DEF Goes
<1> QED
  BY <1>11, <1>12, <1>13, <1>14, <1>16, <1>17, <1>18, <1>19 DEF Truthful

\* The lifecycle thread takes a message; a request leaves the mailbox.
LEMMA TakeKeeps ==
  ASSUME NEW s, NEW t, NEW m, NEW e, NEW f, Boxed(s, 0), Truthful(s, e),
         Taken(s, t, m), f.run = e.run, f.known = e.known, f.sent = e.sent,
         f.out = IF m.kind = "request" THEN e.out \cup {m} ELSE e.out
  PROVE  Truthful(t, f)
<1>1. Typed(s)
  BY DEF Boxed
<1>2. /\ s.exchanges \in [DOMAIN s.exchanges -> Exchange]
      /\ DOMAIN s.items \subseteq Keys
  BY <1>1, Types
<1>3. ASSUME NEW x \in DOMAIN t.exchanges
      PROVE  /\ x \in DOMAIN s.exchanges
             /\ t.exchanges[x].key = s.exchanges[x].key
             /\ t.exchanges[x].purpose = s.exchanges[x].purpose
             /\ s.exchanges[x].claimed \/ IsRequest(m, x) <=> t.exchanges[x].claimed
  <2>1. x \in DOMAIN s.exchanges /\ s.exchanges[x] \in Exchange
    BY <1>2 DEF Taken
  <2>2. t.exchanges[x] = IF IsRequest(m, x) THEN Claimed(s.exchanges[x])
                         ELSE s.exchanges[x]
    BY <2>1 DEF Taken
  <2> QED
    BY <2>1, <2>2, ClaimedExchange
<1>4. /\ t.items = s.items /\ t.drawn = s.drawn /\ t.isolated = s.isolated
      /\ DOMAIN t.exchanges = DOMAIN s.exchanges
      /\ \A k \in Keys : Fresh(s, k) => Fresh(t, k)
  BY DEF Taken, Beside
<1>5. \A k : Waits(t, k) => Waits(s, k)
  BY <1>3 DEF Waits, IsInvoke
<1>6. m.kind = "request" =>
        /\ Agrees(s, m) /\ m.id \in DOMAIN s.exchanges
        /\ ~s.exchanges[m.id].claimed /\ IsRequest(m, m.id)
        /\ s.exchanges[m.id].key = m.key /\ s.exchanges[m.id].purpose = m.purpose
  BY DEF Taken, IsRequest, Agrees
<1>7. ASSUME NEW k, Invokes(f.out, k), ~Invokes(e.out, k)
      PROVE  m.kind = "request" /\ IsInvoke(s, m.id, k) /\ Waits(s, k)
  <2>1. m.kind = "request" /\ m.key = k /\ m.purpose = "invoke"
    BY <1>7 DEF Invokes
  <2> QED
    BY <1>6, <2>1 DEF IsInvoke, Waits
<1>8. \A k \in Keys : May(t, f, k) => May(s, e, k)
  BY <1>5, <1>7 DEF May
<1>9. Freshness(t, f)
  <2> SUFFICES ASSUME NEW k \in Keys \ e.known
               PROVE  Fresh(t, k) /\ e.run[k] = "none" /\ \A j \in f.out : j.key # k
    BY DEF Freshness
  <2>1. Fresh(s, k) /\ e.run[k] = "none" /\ \A j \in e.out : j.key # k
    BY DEF Truthful, Freshness
  <2>2. m.kind = "request" => m.key # k
    BY <2>1 DEF Taken, Fresh
  <2> QED
    BY <1>4, <2>1, <2>2
<1>10. OutClaimed(t, f)
  <2> SUFFICES ASSUME NEW j \in f.out
               PROVE  /\ Agrees(t, j)
                      /\ j.id \in DOMAIN t.exchanges => t.exchanges[j.id].claimed
    BY DEF OutClaimed, Truthful
  <2>1. CASE j \in e.out
    BY <1>3, <1>4, <2>1 DEF Truthful, OutClaimed, Agrees
  <2>2. CASE j = m /\ m.kind = "request"
    BY <1>3, <1>4, <1>6, <2>2 DEF Agrees
  <2> QED
    BY <2>1, <2>2
<1>11. InvokedOnce(t, f)
  <2> SUFFICES ASSUME NEW k \in Keys, Waits(t, k), Invokes(f.out, k)
               PROVE  FALSE
    BY DEF InvokedOnce
  <2>1. ~Invokes(e.out, k)
    BY <1>5 DEF Truthful, InvokedOnce
  <2>2. m.kind = "request" /\ IsInvoke(s, m.id, k)
    BY <1>7, <2>1
  <2>3. PICK x \in DOMAIN t.exchanges : IsInvoke(t, x, k) /\ ~t.exchanges[x].claimed
    BY DEF Waits
  <2>4. x \in DOMAIN s.exchanges /\ IsInvoke(s, x, k) /\ ~IsRequest(m, x)
    BY <1>3, <2>3 DEF IsInvoke
  <2>5. x = m.id
    BY <1>6, <2>2, <2>4 DEF Boxed, Single, IsInvoke
  <2> QED
    BY <1>6, <2>2, <2>4, <2>5
<1>12. Free(t, f) \subseteq Free(s, e)
  BY <1>4, <1>8 DEF Free
<1>13. Covers(t, f)
  BY <1>4, <1>12 DEF Truthful, Covers
<1>14. Few(t, f)
  BY <1>12, FewerFree DEF Truthful, Few
<1>15. DefiniteOver(t, f)
  BY <1>2, <1>4, <1>8 DEF Truthful, DefiniteOver
<1>16. Hinted(t, f) /\ Begun(f)
  BY <1>4 DEF Truthful, Hinted, Settled, Begun
<1> QED
  BY <1>9, <1>10, <1>11, <1>13, <1>14, <1>15, <1>16 DEF Truthful

\* k is admitted, which nobody had asked for.
LEMMA AdmitKeeps ==
  ASSUME NEW r, NEW t, NEW k \in Keys, NEW e, NEW f, Boxed(r, 0), Truthful(r, e),
         Admitted(r, t, k), k \notin e.known, f.known = e.known \cup {k},
         f.run = e.run, f.out = e.out, f.sent = e.sent
  PROVE  Truthful(t, f)
<1> DEFINE x == r.drawn + 1
<1>1. Typed(r)
  BY DEF Boxed
<1>2. /\ DOMAIN r.exchanges \subseteq 1..r.drawn /\ r.drawn \in Nat
      /\ DOMAIN r.items \subseteq Keys /\ IsFiniteSet(DOMAIN r.items)
  BY <1>1, Types
<1>3. /\ e.run[k] = "none" /\ \A m \in e.out : m.key # k
  BY DEF Truthful, Freshness
<1>4. /\ DOMAIN t.items = DOMAIN r.items \cup {k} /\ k \notin DOMAIN r.items
      /\ \A j \in DOMAIN r.items : t.items[j] = r.items[j]
      /\ t.items[k].fence = TRUE /\ t.items[k].phase \notin Terminal
      /\ t.items[k].hint = FALSE
      /\ t.isolated = r.isolated /\ t.drawn = r.drawn + 1
      /\ DOMAIN t.exchanges = DOMAIN r.exchanges \cup {x}
      /\ \A y \in DOMAIN r.exchanges : t.exchanges[y] = r.exchanges[y]
      /\ t.exchanges[x].key = k
  BY DEF Admitted, IsInvoke
<1>5. \A j : j # k /\ Waits(t, j) => Waits(r, j)
  BY <1>4 DEF Waits, IsInvoke
<1>6. \A j \in Keys : j # k /\ May(t, f, j) => May(r, e, j)
  BY <1>5 DEF May
<1>7. Freshness(t, f)
  BY DEF Truthful, Freshness, Admitted
<1>8. OutClaimed(t, f)
  <2> SUFFICES ASSUME NEW m \in e.out
               PROVE  /\ Agrees(t, m)
                      /\ m.id \in DOMAIN t.exchanges => t.exchanges[m.id].claimed
    BY DEF OutClaimed, Truthful
  <2>1. /\ Agrees(r, m)
        /\ m.id \in DOMAIN r.exchanges => r.exchanges[m.id].claimed
    BY DEF Truthful, OutClaimed
  <2>2. m.id \in 1..r.drawn /\ m.id \in 1..t.drawn /\ m.id # x
    BY <1>2, <1>4, <2>1 DEF Agrees
  <2> QED
    BY <1>4, <2>1, <2>2 DEF Agrees
<1>9. InvokedOnce(t, f)
  BY <1>3, <1>5 DEF Truthful, InvokedOnce, Invokes
<1>10. Free(t, f) \subseteq Free(r, e) \cup {k}
  BY <1>4, <1>6 DEF Free
<1>11. Covers(t, f)
  BY <1>4, <1>10 DEF Truthful, Covers
<1>12. Few(t, f)
  <2> DEFINE F == Fenced(r.items)
  <2>1. F \in SUBSET DOMAIN r.items
    BY DEF Fenced
  <2>2. IsFiniteSet(F) /\ Cardinality(F) \in Nat
    BY <1>2, <2>1, FS_Subset, FS_CardinalityType
  <2>3. k \notin F
    BY <1>4, <2>1
  <2>4. IsFiniteSet(F \cup {k}) /\ Cardinality(F \cup {k}) = Cardinality(F) + 1
    BY <2>2, <2>3, FS_AddElement
  <2>5. Free(t, f) \subseteq F \cup {k}
    BY <1>10 DEF Truthful, Covers, Fenced
  <2>6. Cardinality(Free(t, f)) <= Cardinality(F) + 1
    BY <2>4, <2>5, FS_Subset
  <2>7. IsFiniteSet(Free(t, f))
    BY <2>4, <2>5, FS_Subset
  <2>8. Cardinality(Free(t, f)) \in Nat
    BY <2>7, FS_CardinalityType
  <2>9. Cardinality(F) < MaxConcurrency
    BY DEF Admitted
  <2> HIDE DEF F
  <2> QED
    BY <2>2, <2>6, <2>8, <2>9, StoreAssumption DEF Few
<1>13. DefiniteOver(t, f)
  <2> SUFFICES ASSUME NEW j \in DOMAIN t.items, t.items[j].phase \in Definite
               PROVE  ~May(t, f, j)
    BY DEF DefiniteOver
  <2>1. j # k
    BY <1>4, Phases
  <2>2. j \in DOMAIN r.items /\ j \in Keys /\ r.items[j].phase \in Definite
    BY <1>2, <1>4, <2>1
  <2> QED
    BY <1>6, <2>1, <2>2 DEF Truthful, DefiniteOver
<1>14. Hinted(t, f) /\ Begun(f)
  BY <1>4 DEF Truthful, Hinted, Settled, Begun
<1> QED
  BY <1>7, <1>8, <1>9, <1>11, <1>12, <1>13, <1>14 DEF Truthful


-----------------------------------------------------------------------------
(* The steps of the system.                                                *)

\* The executions that have been asked for.
Known ==
  {k \in Keys : IF k \in DoraKeys THEN k \in called
                ELSE asking[k].stage \in {"created", "done"}}

Env == [run |-> run, sent |-> sent, out |-> Arrived, known |-> Known]

\* The threads' and the providers' variables.  Whoever is about to admit an
\* execution has been told of an instance.
Shape ==
  /\ asking \in [HttpKeys -> [stage : {"idle", "resolved", "created", "done"},
                              instance : Instances \cup {Nobody}]]
  /\ \A k \in HttpKeys :
       asking[k].stage = "resolved" => asking[k].instance \in Instances
  /\ hand \in Messages \cup {Nothing}
  /\ sent \subseteq {m \in Messages : m.kind = "request"}
  /\ called \subseteq DoraKeys
  /\ run \in [Keys -> {"none", "refused", "running", "ended", "reported"}]
  /\ emitted \in [Keys -> 0..MaxEvents]

\* The inductive invariant.
IInv == Boxed(service, 0) /\ Truthful(service, Env) /\ Shape

\* A step admits nothing, takes a message, or admits k.
Stays ==
  /\ Boxed(service', 0) /\ Moved(service, service', Settled(Env'))
  /\ Goes(Env, Env')
  /\ Served(service, service') \/ exchanges' = exchanges
Takes ==
  /\ \E m \in Messages :
       /\ Taken(service, service', m)
       /\ Env'.out = IF m.kind = "request" THEN Env.out \cup {m} ELSE Env.out
  /\ Env'.run = Env.run /\ Env'.sent = Env.sent /\ Env'.known = Env.known
Enrols(k) ==
  /\ Admits(service, service', k, Settled(Env)) /\ k \notin Env.known
  /\ Env'.known = Env.known \cup {k}
  /\ Env'.run = Env.run /\ Env'.sent = Env.sent /\ Env'.out = Env.out
PinsKept == Pinned(service) => Pinned(service')
Effect ==
  /\ Stays \/ Takes \/ \E k \in Keys : Enrols(k)
  /\ PinsKept /\ Shape'

LEMMA EnvFields ==
  /\ Env.run = run /\ Env.sent = sent /\ Env.out = Arrived /\ Env.known = Known
  /\ Env'.run = run' /\ Env'.sent = sent' /\ Env'.out = Arrived' /\ Env'.known = Known'
BY DEF Env

\* Nothing has changed but the service.
LEMMA SameGoes ==
  ASSUME NEW s, NEW e, Truthful(s, e)
  PROVE  Goes(e, e)
BY DEF Truthful, OutClaimed, Goes

LEMMA EffectKeeps ==
  ASSUME IInv, Effect
  PROVE  IInv'
<1>1. /\ Boxed(service, 0) /\ Truthful(service, Env) /\ Shape'
  BY DEF IInv, Effect
<1>2. CASE Stays
  <2>1. /\ Boxed(service', 0) /\ Moved(service, service', Settled(Env'))
        /\ Goes(Env, Env')
    BY <1>2 DEF Stays
  <2>2. Truthful(service', Env')
    BY <1>1, <2>1, StepKeeps
  <2> QED
    BY <1>1, <2>1, <2>2 DEF IInv
<1>3. CASE Takes
  <2>1. PICK m \in Messages :
          /\ Taken(service, service', m)
          /\ Env'.out = IF m.kind = "request" THEN Env.out \cup {m} ELSE Env.out
    BY <1>3 DEF Takes
  <2>2. Env'.run = Env.run /\ Env'.sent = Env.sent /\ Env'.known = Env.known
    BY <1>3 DEF Takes
  <2>3. Truthful(service', Env')
    BY <1>1, <2>1, <2>2, TakeKeeps
  <2>4. Boxed(service', 0)
    BY <2>1 DEF Taken
  <2> QED
    BY <1>1, <2>3, <2>4 DEF IInv
<1>4. ASSUME NEW k \in Keys, Enrols(k)
      PROVE  IInv'
  <2>1. PICK r : /\ Boxed(r, 0) /\ Moved(service, r, Settled(Env)) /\ Paid(service, r)
                 /\ Admitted(r, service', k)
    BY <1>4 DEF Enrols, Admits
  <2>2. Goes(Env, Env)
    BY <1>1, SameGoes
  <2>3. Truthful(r, Env)
    BY <1>1, <2>1, <2>2, StepKeeps
  <2>4. /\ k \notin Env.known /\ Env'.known = Env.known \cup {k}
        /\ Env'.run = Env.run /\ Env'.sent = Env.sent /\ Env'.out = Env.out
    BY <1>4 DEF Enrols
  <2>5. Truthful(service', Env')
    BY <2>1, <2>3, <2>4, AdmitKeeps
  <2>6. Boxed(service', 0)
    BY <2>1 DEF Admitted
  <2> QED
    BY <1>1, <2>5, <2>6 DEF IInv
<1> QED
  BY <1>2, <1>3, <1>4 DEF Effect

\* An operation of the service, while nobody is admitted, nothing is taken or
\* sent, and no execution starts or ends.
LEMMA CalmStays ==
  ASSUME IInv, NEW s, service' = s, Sound(service, s, Settled(Env)),
         run' = run, sent' = sent, hand' = hand, Known' = Known
  PROVE  Stays /\ PinsKept
<1>1. Env' = Env
  BY DEF Env, Arrived
<1>2. Goes(Env, Env)
  BY SameGoes DEF IInv
<1> QED
  BY <1>1, <1>2 DEF Sound, Stays, PinsKept

\* The service is left alone.
LEMMA IdleStays ==
  ASSUME IInv, service' = service, Goes(Env, Env')
  PROVE  Stays /\ PinsKept
<1>1. Typed(service) /\ Boxed(service, 0)
  BY DEF IInv, Boxed
<1>2. Moved(service, service, Settled(Env')) /\ Reduced(service, service)
  BY <1>1, SameReduced
<1>3. Served(service, service)
  BY <1>2, PaidServed DEF Reduced
<1> QED
  BY <1>1, <1>2, <1>3 DEF Stays, PinsKept

\* What the types of the variables say of the messages and of the keys.
LEMMA SentTyped ==
  ASSUME IInv, NEW m \in sent
  PROVE  /\ m \in Messages /\ m.kind = "request" /\ m.key \in Keys
         /\ m \in Arrived
<1>1. m \in Messages /\ m.kind = "request"
  BY DEF IInv, Shape
<1> QED
  BY <1>1, MessageKinds DEF Arrived

LEMMA KeySplit ==
  /\ HttpKeys \subseteq Keys /\ DoraKeys \subseteq Keys
  /\ \A k \in HttpKeys : k \notin DoraKeys
  /\ \A k \in Keys : k \in HttpKeys \/ k \in DoraKeys
BY ServiceAssumption

\* An HTTP handler reads the registration.
LEMMA ResolveStep ==
  ASSUME IInv, NEW k \in HttpKeys, NEW lapse, HttpResolve(k, lapse)
  PROVE  Effect
<1> DEFINE t == Expire(service, lapse)
<1>1. Boxed(service, 0) /\ Shape /\ 0 \in Nat
  BY DEF IInv
<1>2. Boxed(t, 0) /\ Moved(service, t, Settled(Env)) /\ Reduced(service, t)
      /\ (Pinned(service) => Pinned(t))
  BY <1>1, ExpireBoxed
<1>3. Sound(service, t, Settled(Env))
  BY <1>2, PaidServed DEF Sound, Reduced
<1> HIDE DEF t
<1>4. /\ service' = t /\ asking[k].stage = "idle"
      /\ asking' = IF service'.current = Nobody THEN asking
                   ELSE [asking EXCEPT ![k] = [stage |-> "resolved",
                                               instance |-> service'.current]]
      /\ UNCHANGED <<hand, sent, called, run, emitted>>
  BY DEF HttpResolve, HttpStep, Outside, t
<1>5. service'.current \in Instances \cup {Nobody}
  BY <1>2, <1>4, Types DEF Boxed
<1>6. Known' = Known
  BY <1>1, <1>4, KeySplit DEF Known, Shape
<1>7. Stays /\ PinsKept
  BY <1>3, <1>4, <1>6, CalmStays
<1>8. Shape'
  BY <1>1, <1>4, <1>5 DEF Shape
<1> QED
  BY <1>7, <1>8 DEF Effect

\* It reads back the snapshot of what it has admitted.
LEMMA SnapshotStep ==
  ASSUME IInv, NEW k \in HttpKeys, HttpSnapshot(k)
  PROVE  Effect
<1>1. Shape /\ Truthful(service, Env)
  BY DEF IInv
<1>2. /\ asking[k].stage = "created" /\ asking' = [asking EXCEPT ![k].stage = "done"]
      /\ UNCHANGED <<service, hand, sent, called, run, emitted>>
  BY DEF HttpSnapshot, HttpStep, Outside
<1>3. Known' = Known
  BY <1>1, <1>2, KeySplit DEF Known, Shape
<1>4. Env' = Env
  BY <1>2, <1>3 DEF Env, Arrived
<1>5. Goes(Env, Env')
  BY <1>1, <1>4, SameGoes
<1>6. Stays /\ PinsKept
  BY <1>2, <1>5, IdleStays
<1>7. Shape'
  BY <1>1, <1>2 DEF Shape
<1> QED
  BY <1>6, <1>7 DEF Effect

\* Steps that leave everything to the service.
LEMMA CalmStep ==
  ASSUME IInv, NEW s, service' = s, Sound(service, s, Settled(Env)),
         UNCHANGED <<asking, hand, sent, called, run, emitted>>
  PROVE  Effect
<1>1. Known' = Known
  BY DEF Known
<1>2. Stays /\ PinsKept
  BY <1>1, CalmStays
<1>3. Shape'
  BY DEF IInv, Shape
<1> QED
  BY <1>2, <1>3 DEF Effect

LEMMA RequestStep ==
  ASSUME IInv, NEW k \in Keys, NEW lapse
  PROVE  /\ \A purpose \in Asked :
              HttpLookup(k, purpose, lapse) \/ HandleLookup(k, purpose, lapse) => Effect
         /\ \A c \in Commands :
              HttpCommand(k, c, lapse) \/ HandleControl(k, c, lapse) => Effect
<1>1. Boxed(service, 0)
  BY DEF IInv
<1>2. ASSUME NEW purpose \in Asked, HttpLookup(k, purpose, lapse)
      PROVE  Effect
  <2>1. purpose \in Lookups /\ service.drawn < MaxExchanges
    BY <1>2, GatewayAssumption DEF HttpLookup, CanDraw
  <2>2. Sound(service, HttpRefresh(service, k, purpose, lapse), Settled(Env))
    BY <1>1, <2>1, HttpRefreshSound
  <2> QED
    BY <1>2, <2>2, CalmStep DEF HttpLookup, HttpStep, Outside
<1>3. ASSUME NEW purpose \in Asked, HandleLookup(k, purpose, lapse)
      PROVE  Effect
  <2>1. purpose \in Lookups /\ service.drawn < MaxExchanges
    BY <1>3, GatewayAssumption DEF HandleLookup, CanDraw
  <2>2. Sound(service, CallerRefresh(service, k, purpose, lapse), Settled(Env))
    BY <1>1, <2>1, CallerRefreshSound
  <2> QED
    BY <1>3, <2>2, CalmStep DEF HandleLookup, Handling, Outside
<1>4. ASSUME NEW c \in Commands, HttpCommand(k, c, lapse)
      PROVE  Effect
  <2>1. service.drawn < MaxExchanges
    BY <1>4 DEF HttpCommand, CanDraw
  <2>2. Sound(service, HttpControl(service, k, c, lapse), Settled(Env))
    BY <1>1, <2>1, HttpControlSound
  <2> QED
    BY <1>4, <2>2, CalmStep DEF HttpCommand, HttpStep, Outside
<1>5. ASSUME NEW c \in Commands, HandleControl(k, c, lapse)
      PROVE  Effect
  <2>1. service.drawn < MaxExchanges
    BY <1>5 DEF HandleControl, CanDraw
  <2>2. Sound(service, CallerControl(service, k, c, lapse), Settled(Env))
    BY <1>1, <2>1, CallerControlSound
  <2> QED
    BY <1>5, <2>2, CalmStep DEF HandleControl, Handling, Outside
<1> QED
  BY <1>2, <1>3, <1>4, <1>5

\* Reads, closing, sweeps, registrations and withdrawals.
LEMMA KeepingStep ==
  ASSUME IInv
  PROVE  /\ HttpRead => Effect
         /\ ApplicationClose => Effect
         /\ \A late, overdue, lapse : SweepOnce(late, overdue, lapse) => Effect
         /\ \A instance \in Instances, lapse \in BOOLEAN :
              HandleRegister(instance, lapse) \/ HandleUnregister(instance, lapse) => Effect
<1>1. Boxed(service, 0)
  BY DEF IInv
<1>2. ASSUME HttpRead
      PROVE  Effect
  <2>1. PICK gone \in Gone(items) :
          service' = [service EXCEPT !.items = Forget(@, gone)]
    BY <1>2 DEF HttpRead
  <2>2. gone \in SUBSET Forgettable(service.items)
    BY DEF Gone, items
  <2>3. Sound(service, [service EXCEPT !.items = Forget(@, gone)], Settled(Env))
    BY <1>1, <2>2, ForgetSound
  <2> QED
    BY <1>2, <2>1, <2>3, CalmStep DEF HttpRead, HttpStep, Outside
<1>3. ASSUME ApplicationClose
      PROVE  Effect
  <2>1. Sound(service, BeginClose(service), Settled(Env))
    BY <1>1, CloseSound
  <2> QED
    BY <1>3, <2>1, CalmStep DEF ApplicationClose, HttpStep, Outside
<1>4. ASSUME NEW late, NEW overdue, NEW lapse, SweepOnce(late, overdue, lapse)
      PROVE  Effect
  <2>1. Sound(service, Sweep(service, late, overdue, lapse), Settled(Env))
    BY <1>1, SweepSound
  <2> QED
    BY <1>4, <2>1, CalmStep DEF SweepOnce, Handling, Outside
<1>5. ASSUME NEW instance \in Instances, NEW lapse \in BOOLEAN,
             HandleRegister(instance, lapse) \/ HandleUnregister(instance, lapse)
      PROVE  Effect
  <2>1. /\ Sound(service, ProviderRegister(service, instance, lapse), Settled(Env))
        /\ Sound(service, ProviderUnregister(service, instance, lapse), Settled(Env))
    BY <1>1, RegisterSound
  <2>2. CASE HandleRegister(instance, lapse)
    BY <2>1, <2>2, CalmStep DEF HandleRegister, Handling, Outside
  <2>3. CASE HandleUnregister(instance, lapse)
    BY <2>1, <2>3, CalmStep DEF HandleUnregister, Handling, Outside
  <2> QED
    BY <1>5, <2>2, <2>3
<1> QED
  BY <1>2, <1>3, <1>4, <1>5

\* What an admission comes to, if the threads see it as the service does.
LEMMA EntryStep ==
  ASSUME IInv, NEW k \in Keys,
         Steady(service, service', Settled(Env))
           \/ Admits(service, service', k, Settled(Env)),
         k \notin Known, run' = run, sent' = sent, hand' = hand,
         Known' = Known \cup (DOMAIN service'.items \cap {k})
  PROVE  Stays \/ Enrols(k)
<1>1. Truthful(service, Env) /\ Env'.run = Env.run /\ Env'.sent = Env.sent
      /\ Env'.out = Env.out
  BY DEF IInv, Env, Arrived
<1>2. Fresh(service, k)
  BY <1>1 DEF Truthful, Freshness, Env
<1>3. CASE Steady(service, service', Settled(Env))
  <2>1. k \notin DOMAIN service'.items
    BY <1>2, <1>3 DEF Steady, Moved, Fresh
  <2>2. Known' = Known
    BY <2>1
  <2>3. Env' = Env
    BY <2>2 DEF Env, Arrived
  <2>4. Goes(Env, Env)
    BY <1>1, SameGoes
  <2> QED
    BY <1>3, <2>3, <2>4 DEF Steady, Stays
<1>4. CASE Admits(service, service', k, Settled(Env))
  <2>1. k \in DOMAIN service'.items
    BY <1>4 DEF Admits, Admitted
  <2>2. Env'.known = Env.known \cup {k} /\ k \notin Env.known
    BY <2>1 DEF Env
  <2> QED
    BY <1>1, <1>4, <2>2 DEF Enrols
<1> QED
  BY <1>3, <1>4

LEMMA AdmitStep ==
  ASSUME IInv, NEW k \in HttpKeys, HttpAdmit(k)
  PROVE  Effect
<1>1. Boxed(service, 0) /\ Shape /\ k \in Keys
  BY KeySplit DEF IInv
<1>2. /\ asking[k].stage = "resolved" /\ service.drawn < MaxExchanges
      /\ service' \in AdmitHttp(service, k, asking[k].instance, k \notin Sessions)
      /\ asking' = [asking EXCEPT ![k] =
                      [stage |-> IF k \in DOMAIN service'.items THEN "created" ELSE "idle",
                       instance |-> Nobody]]
      /\ UNCHANGED <<hand, sent, called, run, emitted>>
  BY DEF HttpAdmit, CanDraw, HttpStep, Outside
<1>3. asking[k].instance \in Instances
  BY <1>1, <1>2 DEF Shape
<1>4. k \notin Known
  BY <1>2, KeySplit DEF Known
<1>5. Fresh(service, k)
  BY <1>1, <1>4 DEF IInv, Truthful, Freshness, Env
<1>6. PICK b \in BOOLEAN : b = (k \notin Sessions)
  OBVIOUS
<1>7. service' \in AdmitHttp(service, k, asking[k].instance, b)
  BY <1>2, <1>6
<1>8. /\ \/ Steady(service, service', Settled(Env))
         \/ Admits(service, service', k, Settled(Env))
      /\ Pinned(service) => Pinned(service')
  BY <1>1, <1>2, <1>3, <1>5, <1>7, AdmitHttpSound
<1>9. Known' = Known \cup (DOMAIN service'.items \cap {k})
  BY <1>1, <1>2, <1>4, KeySplit DEF Known, Shape
<1>10. Stays \/ Enrols(k)
  BY <1>1, <1>2, <1>4, <1>8, <1>9, EntryStep
<1>11. PinsKept
  BY <1>8 DEF PinsKept
<1>12. Shape'
  BY <1>1, <1>2 DEF Shape
<1> QED
  BY <1>1, <1>10, <1>11, <1>12 DEF Effect

\* A Dora caller's request, which may have been delivered before.
LEMMA InvokeStep ==
  ASSUME IInv, NEW k \in DoraKeys, NEW bounded \in BOOLEAN, NEW lapse,
         HandleInvoke(k, bounded, lapse)
  PROVE  Effect
<1>1. Boxed(service, 0) /\ Shape /\ k \in Keys
  BY KeySplit DEF IInv
<1>2. /\ service.drawn < MaxExchanges
      /\ service' \in AdmitDora(service, k, bounded, lapse)
      /\ k \in called => service'.drawn = service.drawn
      /\ called' = called \cup (DOMAIN service'.items \cap {k})
      /\ UNCHANGED <<asking, hand, sent, run, emitted>>
  BY DEF HandleInvoke, Handling, CanDraw, Outside
<1>3. k \in Known <=> k \in called
  BY <1>1 DEF Known
<1>4. k \notin Known => Fresh(service, k)
  BY <1>1 DEF IInv, Truthful, Freshness, Env
<1>5. /\ Steady(service, service', Settled(Env))
           \/ Admits(service, service', k, Settled(Env))
      /\ Pinned(service) => Pinned(service')
  BY <1>1, <1>2, <1>3, <1>4, AdmitDoraSound
<1>6. PinsKept
  BY <1>5 DEF PinsKept
<1>7. Shape'
  BY <1>1, <1>2 DEF Shape
<1>8. CASE k \notin called
  <2>1. Known' = Known \cup (DOMAIN service'.items \cap {k})
    BY <1>1, <1>2 DEF Known
  <2>2. Stays \/ Enrols(k)
    BY <1>1, <1>2, <1>3, <1>5, <1>8, <2>1, EntryStep
  <2> QED
    BY <1>1, <1>6, <1>7, <2>2 DEF Effect
<1>9. CASE k \in called
  <2>1. ~Admits(service, service', k, Settled(Env))
    <3>1. ASSUME NEW r, Boxed(r, 0), Moved(service, r, Settled(Env)),
                 Admitted(r, service', k)
          PROVE  FALSE
      <4>1. /\ service.drawn \in Nat /\ r.drawn \in Nat /\ service.drawn <= r.drawn
            /\ service'.drawn = r.drawn + 1
        BY <1>1, <3>1, Types DEF Boxed, Moved, Admitted
      <4> QED
        BY <1>2, <1>9, <4>1
    <3> QED
      BY <3>1 DEF Admits
  <2>2. Known' = Known
    BY <1>2, <1>9 DEF Known
  <2>3. Env' = Env
    BY <1>2, <2>2 DEF Env, Arrived
  <2>4. Goes(Env, Env)
    BY SameGoes DEF IInv
  <2>5. Stays
    BY <1>5, <2>1, <2>3, <2>4 DEF Steady, Stays
  <2> QED
    BY <1>6, <1>7, <2>5 DEF Effect
<1> QED
  BY <1>8, <1>9

\* An operation that was told the truth about executions.
LEMMA ToldStays ==
  ASSUME IInv, Sound(service, service', Settled(Env')), Goes(Env, Env')
  PROVE  Stays /\ PinsKept
BY DEF Sound, Stays, PinsKept

\* What a provider says of an execution is true of it.
LEMMA TruthsTold ==
  ASSUME NEW m, NEW answer \in Truths(m)
  PROVE  /\ AnswerTyped(answer)
         /\ answer.say = "refused" =>
              m.purpose = "invoke" /\ run[m.key] \in {"none", "refused"}
         /\ answer.say = "result" => Over(m.key)
         /\ answer.say = "status" /\ answer.phase \in Terminal => Over(m.key)
<1>1. Outcomes \subseteq Terminal /\ Nonterminal \cap Terminal = {}
  BY GatewayAssumption, Phases
<1>2. \/ answer.say \notin {"refused", "result", "status"}
      \/ answer.say = "refused" /\ m.purpose = "invoke" /\ run[m.key] \in {"none", "refused"}
      \/ answer.say = "result" /\ answer.phase \in Outcomes /\ Over(m.key)
      \/ answer.say = "status" /\ answer.phase \in Nonterminal
      \/ answer.say = "status" /\ answer.phase \in Outcomes /\ Over(m.key)
  <2>1. CASE m.purpose = "invoke"
    BY <2>1 DEF Truths
  <2>2. CASE m.purpose = "status"
    BY <2>2 DEF Truths
  <2>3. CASE m.purpose = "result"
    BY <2>3 DEF Truths
  <2>4. CASE m.purpose \notin {"invoke", "status", "result"}
    BY <2>4 DEF Truths
  <2> QED
    BY <2>1, <2>2, <2>3, <2>4
<1> QED
  BY <1>1, <1>2 DEF AnswerTyped

LEMMA ResponseStep ==
  ASSUME IInv, NEW m \in sent, NEW answer \in Truths(m), NEW late, NEW lapse,
         HandleResponse(m, answer, late, lapse)
  PROVE  Effect
<1> DEFINE k == m.key
<1>1. Boxed(service, 0) /\ Truthful(service, Env) /\ Shape
  BY DEF IInv
<1>2. /\ service.drawn < MaxExchanges /\ m.id \in DOMAIN service.exchanges
      /\ service' = ProviderResponse(service, m.id, answer, late, lapse)
      /\ run' = IF answer.say = "refused" THEN [run EXCEPT ![k] = "refused"] ELSE run
      /\ UNCHANGED <<asking, called, emitted, hand, sent>>
  BY DEF HandleResponse, Handling, CanDraw, exchanges
<1>3. m \in Messages /\ m.kind = "request" /\ k \in Keys /\ m \in Env.out
  BY SentTyped, EnvFields
<1>4. service.exchanges[m.id].key = k
  BY <1>1, <1>2, <1>3 DEF Truthful, OutClaimed, Agrees
<1>5. /\ AnswerTyped(answer)
      /\ answer.say = "refused" => m.purpose = "invoke" /\ run[k] \in {"none", "refused"}
      /\ answer.say = "result" => Over(k)
      /\ answer.say = "status" /\ answer.phase \in Terminal => Over(k)
  BY TruthsTold
<1>6. /\ run \in [Keys -> {"none", "refused", "running", "ended", "reported"}]
      /\ run' \in [Keys -> {"none", "refused", "running", "ended", "reported"}]
      /\ \A j \in Keys : run'[j] = IF answer.say = "refused" /\ j = k
                                   THEN "refused" ELSE run[j]
  BY <1>1, <1>2, <1>3 DEF Shape
<1>7. Arrived' = Arrived /\ Known' = Known
  BY <1>2 DEF Arrived, Known
<1>8. Goes(Env, Env')
  <2>1. answer.say = "refused" => Invokes(sent, k)
    BY <1>5 DEF Invokes
  <2>2. sent \subseteq Arrived
    BY DEF Arrived
  <2>3. \A j \in Keys :
          /\ run'[j] = "none" => run[j] = "none"
          /\ run'[j] = "running" => run[j] = "running"
          /\ run'[j] # "none" => run[j] # "none" \/ Invokes(sent, j)
          /\ run[j] \notin {"none", "running"} => run'[j] \notin {"none", "running"}
    BY <1>6, <2>1
  <2> QED
    BY <1>2, <1>7, <2>2, <2>3, EnvFields DEF Goes, Settled
<1>9. \/ k \in Settled(Env') \/ k \notin DOMAIN service.items
      \/ ~Final(service.items[k], answer)
  <2>1. ASSUME k \in DOMAIN service.items, Final(service.items[k], answer)
        PROVE  k \in Settled(Env')
    <3>1. CASE answer.say = "refused"
      BY <1>3, <1>6, <3>1, EnvFields DEF Settled
    <3>2. CASE answer.say # "refused" /\ Over(k)
      BY <1>3, <1>6, <3>2, EnvFields DEF Settled, Over
    <3>3. CASE answer.say = "not_found" /\ service.items[k].hint
      <4>1. k \in Settled(Env)
        BY <1>1, <2>1, <3>3 DEF Truthful, Hinted
      <4> QED
        BY <1>6, <3>3, <4>1, EnvFields DEF Settled
    <3> QED
      BY <1>5, <2>1, <3>1, <3>2, <3>3 DEF Final
  <2> QED
    BY <2>1
<1>10. Sound(service, ProviderResponse(service, m.id, answer, late, lapse), Settled(Env'))
  BY <1>1, <1>2, <1>4, <1>5, <1>9, ResponseSound
<1>11. Stays /\ PinsKept
  BY <1>2, <1>8, <1>10, ToldStays
<1>12. Shape'
  BY <1>1, <1>2, <1>6 DEF Shape
<1> QED
  BY <1>11, <1>12 DEF Effect

LEMMA EventStep ==
  ASSUME IInv, NEW k \in Keys, NEW lapse, HandleEvent(k, lapse)
  PROVE  Effect
<1>1. Boxed(service, 0) /\ Truthful(service, Env) /\ Shape
  BY DEF IInv
<1>2. PICK b \in BOOLEAN : b = (run[k] = "ended")
  OBVIOUS
<1>3. /\ service.drawn < MaxExchanges /\ run[k] \in {"running", "ended"}
      /\ emitted[k] < MaxEvents
      /\ service' = ProviderEvent(service, k, emitted[k], b, lapse)
      /\ emitted' = [emitted EXCEPT ![k] = @ + 1]
      /\ run' = IF run[k] = "ended" THEN [run EXCEPT ![k] = "reported"] ELSE run
      /\ UNCHANGED <<asking, called, hand, sent>>
  BY <1>2 DEF HandleEvent, Handling, CanDraw
<1>4. /\ run' \in [Keys -> {"none", "refused", "running", "ended", "reported"}]
      /\ \A j \in Keys : run'[j] = IF b /\ j = k THEN "reported" ELSE run[j]
  BY <1>1, <1>2, <1>3 DEF Shape
<1>5. Arrived' = Arrived /\ Known' = Known /\ sent \subseteq Arrived
  BY <1>3 DEF Arrived, Known
<1>6. Goes(Env, Env')
  <2>1. \A j \in Keys :
          /\ run'[j] = "none" => run[j] = "none"
          /\ run'[j] = "running" => run[j] = "running"
          /\ run'[j] # "none" => run[j] # "none"
          /\ run[j] \notin {"none", "running"} => run'[j] \notin {"none", "running"}
    BY <1>2, <1>3, <1>4
  <2> QED
    BY <1>3, <1>5, <2>1, EnvFields DEF Goes, Settled
<1>7. b => k \in Settled(Env')
  BY <1>4, EnvFields DEF Settled
<1>8. Sound(service, ProviderEvent(service, k, emitted[k], b, lapse), Settled(Env'))
  BY <1>1, <1>3, <1>7, EventSound
<1>9. Stays /\ PinsKept
  BY <1>3, <1>6, <1>8, ToldStays
<1>10. emitted' \in [Keys -> 0..MaxEvents]
  BY <1>1, <1>3, GatewayAssumption DEF Shape
<1>11. Shape'
  BY <1>1, <1>3, <1>4, <1>10 DEF Shape
<1> QED
  BY <1>9, <1>11 DEF Effect

\* The providers.
LEMMA ExecuteStep ==
  ASSUME IInv, NEW k \in Keys, ProviderStart(k) \/ ProviderEnd(k)
  PROVE  Effect
<1>1. Shape /\ UNCHANGED <<service, asking, hand, sent, called, emitted>>
  BY DEF IInv, ProviderStart, ProviderEnd, Execute
<1>2. \/ /\ run[k] = "none" /\ run' = [run EXCEPT ![k] = "running"]
         /\ Invokes(sent, k)
      \/ run[k] = "running" /\ run' = [run EXCEPT ![k] = "ended"]
  BY DEF ProviderStart, ProviderEnd, Execute, Invoked, Invokes
<1>3. /\ run' \in [Keys -> {"none", "refused", "running", "ended", "reported"}]
      /\ \A j \in Keys : j # k => run'[j] = run[j]
      /\ \/ run[k] = "none" /\ run'[k] = "running" /\ Invokes(sent, k)
         \/ run[k] = "running" /\ run'[k] = "ended"
  BY <1>1, <1>2 DEF Shape
<1>4. Arrived' = Arrived /\ Known' = Known /\ sent \subseteq Arrived
  BY <1>1 DEF Arrived, Known
<1>5. Goes(Env, Env')
  <2>1. \A j \in Keys :
          /\ run'[j] = "none" => run[j] = "none"
          /\ run'[j] = "running" =>
               run[j] = "running" \/ (run[j] = "none" /\ Invokes(sent, j))
          /\ run'[j] # "none" => run[j] # "none" \/ Invokes(sent, j)
          /\ run[j] \notin {"none", "running"} => run'[j] \notin {"none", "running"}
    BY <1>3
  <2> QED
    BY <1>1, <1>4, <2>1, EnvFields DEF Goes, Settled
<1>6. Stays /\ PinsKept
  BY <1>1, <1>5, IdleStays
<1>7. Shape'
  BY <1>1, <1>3 DEF Shape
<1> QED
  BY <1>6, <1>7 DEF Effect

\* A message leaves the mailbox.
LEMMA TakeStep ==
  ASSUME IInv, Take
  PROVE  Effect
<1>1. Boxed(service, 0) /\ Shape
  BY DEF IInv
<1>2. PICK n \in Deliverable(service) :
        hand' = service.outbound[n] /\ service' = TakeOutbound(service, n)
  BY DEF Take
<1>3. hand = Nothing /\ UNCHANGED <<asking, sent, called, run, emitted>>
  BY DEF Take, Outside
<1>4. Taken(service, service', hand')
  BY <1>1, <1>2, TakeBoxed
<1>5. hand' \in Messages
  BY <1>4 DEF Taken
<1>6. Env'.out = IF hand'.kind = "request" THEN Env.out \cup {hand'} ELSE Env.out
  BY <1>3, EnvFields DEF Arrived, Nothing
<1>7. Env'.run = Env.run /\ Env'.sent = Env.sent /\ Env'.known = Env.known
  BY <1>3, EnvFields DEF Known
<1>8. Takes
  BY <1>4, <1>5, <1>6, <1>7 DEF Takes
<1>9. PinsKept
  <2>1. service.exchanges \in [DOMAIN service.exchanges -> Exchange]
    BY <1>1, Types DEF Boxed
  <2>2. \A x \in DOMAIN service'.exchanges :
          x \in DOMAIN service.exchanges
          /\ service'.exchanges[x].instance = service.exchanges[x].instance
    BY <1>4, <2>1, ClaimedExchange DEF Taken
  <2> QED
    BY <1>4, <2>2 DEF PinsKept, Pinned, Taken, Beside
<1>10. Shape'
  BY <1>1, <1>3, <1>5 DEF Shape
<1> QED
  BY <1>8, <1>9, <1>10 DEF Effect

LEMMA DiscardStep ==
  ASSUME IInv, Discard
  PROVE  Effect
<1> DEFINE t == [service EXCEPT !.outbound = <<>>]
<1>1. Boxed(service, 0) /\ Truthful(service, Env) /\ Shape
  BY DEF IInv
<1>2. /\ service' = t /\ Deliverable(service) = {}
      /\ UNCHANGED <<asking, hand, sent, called, run, emitted>>
  BY DEF Discard, Outside
<1>3. /\ Boxed(t, 0) /\ Moved(service, t, Settled(Env))
      /\ t.exchanges = service.exchanges /\ t.current = service.current
  BY <1>1, <1>2, DiscardBoxed
<1> HIDE DEF t
<1>4. Env' = Env
  BY <1>2 DEF Env, Arrived, Known
<1>5. Goes(Env, Env)
  BY <1>1, SameGoes
<1>6. Stays
  BY <1>2, <1>3, <1>4, <1>5 DEF Stays, exchanges
<1>7. PinsKept
  BY <1>2, <1>3 DEF PinsKept, Pinned
<1>8. Shape'
  BY <1>1, <1>2 DEF Shape
<1> QED
  BY <1>6, <1>7, <1>8 DEF Effect

\* The message in hand crosses the transport, or does not.
LEMMA SendGoes ==
  ASSUME IInv, hand' = Nothing, sent' \in {sent, Arrived},
         UNCHANGED <<asking, called, run, emitted>>
  PROVE  Goes(Env, Env') /\ Shape'
<1>1. Shape
  BY DEF IInv
<1>2. Arrived' = sent' /\ Known' = Known /\ sent \subseteq Arrived
  BY DEF Arrived, Nothing, Known
<1>3. Goes(Env, Env')
  BY <1>2, EnvFields DEF Goes, Settled
<1>4. sent' \subseteq {m \in Messages : m.kind = "request"}
  BY <1>1 DEF Shape, Arrived, Nothing
<1> QED
  BY <1>1, <1>3, <1>4 DEF Shape

LEMMA SendStep ==
  ASSUME IInv, SendOk \/ SendFails
  PROVE  Effect
<1>1. Boxed(service, 0)
  BY DEF IInv
<1>2. /\ hand' = Nothing /\ sent' \in {sent, Arrived}
      /\ UNCHANGED <<asking, called, run, emitted>>
      /\ service' = service \/ service' = OutputFailed(service, hand)
  BY DEF SendOk, SendFails, Outside
<1>3. Goes(Env, Env') /\ Shape'
  BY <1>2, SendGoes
<1>4. CASE service' = service
  BY <1>3, <1>4, IdleStays DEF Effect
<1>5. CASE service' = OutputFailed(service, hand)
  <2>1. Sound(service, OutputFailed(service, hand), Settled(Env'))
    BY <1>1, OutputFailedSound
  <2> QED
    BY <1>3, <1>5, <2>1, ToldStays DEF Effect
<1> QED
  BY <1>2, <1>4, <1>5

\* Every step of the system is one of the three.
LEMMA NextEffect ==
  ASSUME IInv, Next
  PROVE  Effect
<1>1. ASSUME NEW lapse \in BOOLEAN, Http(lapse)
      PROVE  Effect
  <2>1. PICK k \in Keys :
          \/ k \in HttpKeys /\ HttpResolve(k, lapse)
          \/ \E purpose \in Asked : HttpLookup(k, purpose, lapse)
          \/ \E c \in Commands : HttpCommand(k, c, lapse)
    BY <1>1 DEF Http
  <2>2. CASE k \in HttpKeys /\ HttpResolve(k, lapse)
    BY <2>2, ResolveStep
  <2>3. CASE \/ \E purpose \in Asked : HttpLookup(k, purpose, lapse)
             \/ \E c \in Commands : HttpCommand(k, c, lapse)
    BY <2>3, RequestStep
  <2> QED
    BY <2>1, <2>2, <2>3
<1>2. ASSUME NEW lapse \in BOOLEAN, Input(lapse)
      PROVE  Effect
  <2>1. CASE \E k \in DoraKeys, bounded \in BOOLEAN : HandleInvoke(k, bounded, lapse)
    BY <2>1, InvokeStep
  <2>2. CASE \E k \in Keys :
               \/ \E purpose \in Asked : HandleLookup(k, purpose, lapse)
               \/ \E c \in Commands : HandleControl(k, c, lapse)
    BY <2>2, RequestStep
  <2>3. CASE \E k \in Keys : HandleEvent(k, lapse)
    BY <2>3, EventStep
  <2>4. CASE \E instance \in Instances : HandleRegister(instance, lapse)
    BY <2>4, KeepingStep
  <2>5. CASE \E instance \in Instances : HandleUnregister(instance, lapse)
    BY <2>5, KeepingStep
  <2>6. CASE \E m \in sent :
               \E answer \in Truths(m), late \in BOOLEAN :
                 HandleResponse(m, answer, late, lapse)
    BY <2>6, ResponseStep
  <2> QED
    BY <1>2, <2>1, <2>2, <2>3, <2>4, <2>5, <2>6 DEF Input
<1>3. ASSUME NEW lapse \in Lapses,
             \/ Http(lapse) \/ Input(lapse)
             \/ \E late \in SUBSET DOMAIN exchanges, overdue \in SUBSET DOMAIN items :
                  SweepOnce(late, overdue, lapse)
      PROVE  Effect
  <2>1. lapse \in BOOLEAN
    BY DEF Lapses
  <2> QED
    BY <1>1, <1>2, <1>3, <2>1, KeepingStep
<1>4. CASE \E k \in HttpKeys : HttpAdmit(k) \/ HttpSnapshot(k)
  BY <1>4, AdmitStep, SnapshotStep
<1>5. CASE HttpRead \/ ApplicationClose
  BY <1>5, KeepingStep
<1>6. CASE Take \/ Discard
  BY <1>6, TakeStep, DiscardStep
<1>7. CASE SendOk \/ SendFails
  BY <1>7, SendStep
<1>8. CASE \E k \in Keys : ProviderStart(k) \/ ProviderEnd(k)
  BY <1>8, ExecuteStep
<1> QED
  BY <1>3, <1>4, <1>5, <1>6, <1>7, <1>8 DEF Next

\* The service starts empty, and nobody has heard of any execution.
LEMMA InitInvariant ==
  ASSUME Init
  PROVE  IInv /\ Pinned(service)
<1>1. /\ IsState(service)
      /\ service.accepting = TRUE /\ service.current = Nobody
      /\ service.items = <<>> /\ service.exchanges = <<>> /\ service.outbound = <<>>
      /\ service.reserved = 0 /\ service.cursors = <<>> /\ service.drawn = 0
      /\ service.isolated = {}
  BY DEF Init, NewService, IsState, Fields
<1>2. DOMAIN <<>> = {} /\ Len(<<>>) = 0 /\ <<>> \in Seq(Messages)
  OBVIOUS
<1>3. IsFiniteSet({}) /\ Cardinality({}) = 0
  BY FS_EmptySet
<1>4. Boxed(service, 0)
  <2>1. Typed(service)
    <3>1. service.items \in [DOMAIN service.items -> Item]
      BY <1>1, <1>2
    <3>2. service.exchanges \in [DOMAIN service.exchanges -> Exchange]
      BY <1>1, <1>2
    <3>3. service.cursors \in [DOMAIN service.cursors -> Nat]
      BY <1>1, <1>2
    <3>4. service.drawn \in 0..MaxExchanges
      BY <1>1, ServiceAssumption
    <3>5. IsFiniteSet(DOMAIN service.items)
      BY <1>1, <1>2, <1>3
    <3>6. /\ DOMAIN service.items \subseteq Keys /\ DOMAIN service.cursors \subseteq DoraKeys
          /\ DOMAIN service.exchanges \subseteq 1..service.drawn
          /\ service.outbound \in Seq(Messages) /\ service.isolated \subseteq Keys
      BY <1>1, <1>2
    <3>7. service.current \in Instances \cup {Nobody} /\ service.reserved \in Nat
      BY <1>1
    <3>8. service.accepting \in BOOLEAN
      BY <1>1, Phases, Zenon
    <3> QED
      BY <1>1, <3>1, <3>2, <3>3, <3>4, <3>5, <3>6, <3>7, <3>8, ServiceTyped
  <2>2. Balanced(service, 0)
    <3>1. CallersIn(service, DOMAIN service.exchanges) = {}
      BY <1>1, <1>2 DEF CallersIn
    <3>2. /\ Cardinality(CallersIn(service, DOMAIN service.exchanges)) = 0
          /\ Len(service.outbound) = 0
      BY <1>1, <1>2, <1>3, <3>1
    <3>3. Capacity \in Nat
      BY ServiceAssumption
    <3> QED
      BY <1>1, <3>2, <3>3 DEF Balanced
  <2>3. Single(service) /\ QueuedOnce(service) /\ RequestsAgree(service)
    BY <1>1, <1>2 DEF Single, QueuedOnce, RequestsAgree
  <2>4. CursorsKept(service) /\ EventsFit(service)
    BY <1>1, <1>2 DEF CursorsKept, EventsFit
  <2> QED
    BY <2>1, <2>2, <2>3, <2>4 DEF Boxed
<1>5. Shape
  BY GatewayAssumption DEF Init, Shape
<1>6. /\ sent = {} /\ Arrived = {} /\ run = [k \in Keys |-> "none"]
      /\ \A k \in Keys : Fresh(service, k)
      /\ \A k : ~Waits(service, k)
  <2>1. \A k \in Keys : Fresh(service, k)
    BY <1>1, <1>2 DEF Fresh
  <2>2. \A k : ~Waits(service, k)
    BY <1>1, <1>2 DEF Waits
  <2> QED
    BY <2>1, <2>2 DEF Init, Arrived, Nothing
<1>7. Truthful(service, Env)
  <2>1. Freshness(service, Env) /\ OutClaimed(service, Env)
    BY <1>6, EnvFields DEF Freshness, OutClaimed
  <2>2. InvokedOnce(service, Env) /\ Begun(Env)
    BY <1>6, EnvFields DEF InvokedOnce, Begun
  <2>3. Free(service, Env) = {}
    BY <1>6, EnvFields DEF Free, May, Invokes
  <2>4. Covers(service, Env) /\ Few(service, Env)
    BY <1>3, <2>3, StoreAssumption DEF Covers, Few
  <2>5. DefiniteOver(service, Env) /\ Hinted(service, Env)
    BY <1>1, <1>2 DEF DefiniteOver, Hinted
  <2> QED
    BY <2>1, <2>2, <2>4, <2>5 DEF Truthful
<1>8. Pinned(service)
  BY <1>1, <1>2 DEF Pinned
<1> QED
  BY <1>4, <1>5, <1>7, <1>8 DEF IInv

-----------------------------------------------------------------------------
(* What follows.                                                           *)

\* Every reachable state satisfies the inductive invariant.
LEMMA Invariance == Spec => []IInv
<1>1. Init => IInv
  BY InitInvariant
<1>2. IInv /\ [Next]_vars => IInv'
  <2> SUFFICES ASSUME IInv, [Next]_vars
               PROVE  IInv'
    OBVIOUS
  <2>1. CASE Next
    BY <2>1, NextEffect, EffectKeeps
  <2>2. CASE UNCHANGED vars
    <3>1. UNCHANGED <<service, asking, hand, sent, called, run, emitted>>
      BY <2>2 DEF vars
    <3>2. Env' = Env
      BY <3>1 DEF Env, Arrived, Known
    <3>3. Shape'
      BY <3>1 DEF IInv, Shape
    <3> QED
      BY <3>1, <3>2, <3>3 DEF IInv
  <2> QED
    BY <2>1, <2>2
<1> QED
  BY <1>1, <1>2, PTL DEF Spec

\* What the lock of ToolGatewayService guards keeps its types, and so do the
\* handlers' and the providers' variables.
THEOREM TypesCorrect == Spec => []TypeOK
<1>1. IInv => TypeOK
  BY DEF IInv, Boxed, Typed, Shape, TypeOK
<1> QED
  BY <1>1, Invariance, PTL

\* _reserved_outbound_slots counts the exchanges made for Dora callers, and
\* what is queued and what is reserved fit outbound_capacity.
THEOREM SlotsAreBalanced == Spec => []SlotsBalanced
<1>1. IInv => SlotsBalanced
  <2> SUFFICES ASSUME IInv
               PROVE  SlotsBalanced
    OBVIOUS
  <2>1. Balanced(service, 0) /\ Typed(service)
    BY DEF IInv, Boxed
  <2>2. CallersIn(service, DOMAIN service.exchanges)
          = {x \in DOMAIN exchanges : exchanges[x].caller}
    BY DEF CallersIn, exchanges
  <2>3. Cardinality(CallersIn(service, DOMAIN service.exchanges)) \in Nat
    <3>1. CallersIn(service, DOMAIN service.exchanges) \in SUBSET DOMAIN service.exchanges
      BY DEF CallersIn
    <3> QED
      BY <2>1, <3>1, ExchangesFinite
  <2>4. service.reserved = Cardinality(CallersIn(service, DOMAIN service.exchanges))
        /\ Len(service.outbound) + service.reserved <= Capacity
    BY <2>1, <2>3 DEF Balanced
  <2> QED
    BY <2>2, <2>4 DEF SlotsBalanced
<1> QED
  BY <1>1, Invariance, PTL

\* _action_exchange_pending is asked before every lookup and control, so that
\* at most one exchange of a purpose is in flight for an execution; one that
\* no message has been taken for is queued exactly once.
THEOREM ExchangesRemainSingle == Spec => []ExchangesAreSingle
<1>1. IInv => ExchangesAreSingle
  BY DEF IInv, Boxed, Single, QueuedOnce, IsRequest, ExchangesAreSingle, exchanges
<1> QED
  BY <1>1, Invariance, PTL

\* The events that _queue_dora_events_locked has put into the mailbox follow
\* the provider's order without repetition, after the acceptance, and the
\* terminal one comes last and not before there is a result.
THEOREM EventsRemainOrdered == Spec => []EventsAreOrdered
<1>1. IInv => EventsAreOrdered
  <2> SUFFICES ASSUME IInv
               PROVE  EventsAreOrdered
    OBVIOUS
  <2>1. EventsFit(service) /\ Typed(service)
    BY DEF IInv, Boxed
  <2>2. ASSUME NEW i \in DOMAIN service.outbound, service.outbound[i].kind = "event"
        PROVE  EventFits(service, service.outbound[i])
    BY <2>1, <2>2 DEF EventsFit
  <2>3. ASSUME NEW i \in DOMAIN service.outbound, NEW j \in DOMAIN service.outbound,
               j > i, service.outbound[i].kind = "event",
               service.outbound[j].kind = "event",
               service.outbound[j].key = service.outbound[i].key
        PROVE  /\ service.outbound[j].number > service.outbound[i].number
               /\ ~service.outbound[i].terminal
    <3>1. i \in Nat /\ j \in Nat /\ i < j
      BY <2>1, <2>3, Types
    <3>2. Precedes(service.outbound[i], service.outbound[j])
      BY <2>1, <3>1 DEF EventsFit
    <3>3. service.outbound[i] \in Messages /\ service.outbound[j] \in Messages
      BY <2>1, Types
    <3>4. service.outbound[i].number \in Nat /\ service.outbound[j].number \in Nat
      BY <2>3, <3>3, MessageKinds
    <3> QED
      BY <2>3, <3>2, <3>4 DEF Precedes
  <2> QED
    BY <2>2, <2>3 DEF EventsAreOrdered, EventFits, items
<1> QED
  BY <1>1, Invariance, PTL

\* occupies_concurrency is set for every execution that a provider may still
\* run, whatever became of its exchanges and deadlines, until
\* mark_instance_ambiguous isolates its instance.
THEOREM FencesCoverRunning == Spec => []FenceCoversRunning
<1>1. IInv => FenceCoversRunning
  <2> SUFFICES ASSUME IInv, NEW k \in Keys, run[k] = "running", k \notin service.isolated
               PROVE  k \in DOMAIN items /\ items[k].fence
    BY DEF FenceCoversRunning
  <2>1. k \in Free(service, Env)
    BY EnvFields DEF Free, May
  <2> QED
    BY <2>1 DEF IInv, Truthful, Covers, items
<1> QED
  BY <1>1, Invariance, PTL

\* create admits an execution only while fewer than max_concurrency hold their
\* fences, so no more than that many run at providers that are not isolated,
\* however many the store has evicted or forgotten.
THEOREM ConcurrencyIsRespected == Spec => []ConcurrencyRespected
<1>1. IInv => ConcurrencyRespected
  <2> SUFFICES ASSUME IInv
               PROVE  ConcurrencyRespected
    OBVIOUS
  <2> DEFINE F == {k \in Keys : run[k] = "running" /\ k \notin service.isolated}
  <2>1. F \subseteq Free(service, Env)
    BY EnvFields DEF Free, May
  <2>2. Cardinality(F) <= MaxConcurrency
    BY <2>1, FewerFree DEF IInv, Truthful
  <2> QED
    BY <2>2 DEF ConcurrencyRespected
<1> QED
  BY <1>1, Invariance, PTL

\* What set_phase calls completed, failed, cancelled or stopped neither runs
\* nor will: a failure before dispatch is reported only of an invoke that no
\* provider can have received.
THEOREM DefiniteRemainsOver == Spec => []DefiniteMeansOver
<1>1. IInv => DefiniteMeansOver
  <2> SUFFICES ASSUME IInv, NEW k \in DOMAIN items, items[k].phase \in Definite
               PROVE  /\ run[k] # "running"
                      /\ run[k] = "none" =>
                           /\ ~Invoked(k)
                           /\ hand.kind = "request" => hand.key # k \/ hand.purpose # "invoke"
    BY DEF DefiniteMeansOver
  <2>1. ~May(service, Env, k)
    BY DEF IInv, Truthful, DefiniteOver, items
  <2>2. run[k] # "running" /\ (run[k] = "none" => ~Invokes(Arrived, k))
    BY <2>1, EnvFields DEF May
  <2>3. Invoked(k) => Invokes(Arrived, k)
    BY DEF Invoked, Invokes, Arrived
  <2>4. hand.kind = "request" /\ hand.key = k /\ hand.purpose = "invoke"
          => Invokes(Arrived, k)
    BY DEF Invokes, Arrived
  <2> QED
    BY <2>2, <2>3, <2>4
<1> QED
  BY <1>1, Invariance, PTL

\* Every exchange belongs to the instance that is registered: whatever removes
\* that one, be it a lapse, a withdrawal or a successor, ends its exchanges, and
\* an admission that was told of another instance is refused.
THEOREM PinsStayCurrent == Spec => []PinnedToCurrent
<1>1. Init => Pinned(service)
  BY InitInvariant
<1>2. IInv /\ Pinned(service) /\ [Next]_vars => Pinned(service)'
  <2> SUFFICES ASSUME IInv, Pinned(service), [Next]_vars
               PROVE  Pinned(service)'
    OBVIOUS
  <2>1. CASE Next
    BY <2>1, NextEffect DEF Effect, PinsKept
  <2>2. CASE UNCHANGED vars
    BY <2>2 DEF vars
  <2> QED
    BY <2>1, <2>2
<1>3. Pinned(service) => PinnedToCurrent
  BY DEF Pinned, PinnedToCurrent, exchanges
<1> QED
  BY <1>1, <1>2, <1>3, Invariance, PTL DEF Spec

\* set_phase leaves a definite phase alone, and reconciles an unknown one only
\* with another outcome; nothing else reopens an execution.
THEOREM OutcomesRemainFinal == Spec => OutcomesAreFinal
<1> DEFINE A == \A k \in DOMAIN items \cap DOMAIN items' :
                  /\ items[k].phase \in Definite => items'[k].phase = items[k].phase
                  /\ items[k].phase \in Terminal => items'[k].phase \in Terminal
<1>1. IInv /\ [Next]_vars => [A]_vars
  <2> SUFFICES ASSUME IInv, Next
               PROVE  A
    OBVIOUS
  <2>1. Effect
    BY NextEffect
  <2>2. CASE Stays
    BY <2>2 DEF Stays, Moved, items
  <2>3. CASE Takes
    BY <2>3 DEF Takes, Taken, items
  <2>4. ASSUME NEW k \in Keys, Enrols(k)
        PROVE  A
    <3>1. PICK r : Moved(service, r, Settled(Env)) /\ Admitted(r, service', k)
      BY <2>4 DEF Enrols, Admits
    <3>2. k \notin DOMAIN service.items
      BY <2>4, EnvFields DEF Enrols, IInv, Truthful, Freshness, Fresh
    <3>3. ASSUME NEW j \in DOMAIN items \cap DOMAIN items'
          PROVE  j \in DOMAIN r.items /\ items'[j] = r.items[j] /\ j \in DOMAIN service.items
      BY <3>1, <3>2, <3>3 DEF Admitted, items
    <3> QED
      BY <3>1, <3>3 DEF Moved, items
  <2> QED
    BY <2>1, <2>2, <2>3, <2>4 DEF Effect
<1>2. Spec => [][A]_vars
  BY <1>1, Invariance, PTL DEF Spec
<1> QED
  BY <1>2 DEF OutcomesAreFinal

\* A reply's slot is reserved with its exchange, and the exchange ends when the
\* slot is used: every Dora caller is answered exactly once, by whatever ends
\* its exchange, and a step refuses at most one request besides.
THEOREM CallersRemainAnswered == Spec => CallersAreAnswered
<1> DEFINE A == \A k \in Keys :
       LET over == {x \in DOMAIN exchanges \ DOMAIN exchanges' :
                      exchanges[x].key = k /\ exchanges[x].caller}
       IN over # {} => Replies(service', k) - Replies(service, k)
                         \in {Cardinality(over), Cardinality(over) + 1}
<1>1. IInv /\ [Next]_vars => [A]_vars
  <2> SUFFICES ASSUME IInv, Next, NEW k \in Keys,
                      CallersOf(service, DOMAIN service.exchanges \ DOMAIN service'.exchanges, k) # {}
               PROVE  LET n == Cardinality(CallersOf(service,
                                 DOMAIN service.exchanges \ DOMAIN service'.exchanges, k))
                      IN  Replies(service', k) - Replies(service, k) \in {n, n + 1}
    BY DEF CallersOf, exchanges
  <2> DEFINE C == CallersOf(service, DOMAIN service.exchanges \ DOMAIN service'.exchanges, k)
             old == Cardinality(RepliesIn(service.outbound, k))
             new == Cardinality(RepliesIn(service'.outbound, k))
             n == Cardinality(C)
  <2>1. Effect /\ IInv'
    BY NextEffect, EffectKeeps
  <2>2. Typed(service) /\ Typed(service')
    BY <2>1 DEF IInv, Boxed
  <2>3. n \in Nat
    BY <2>2, CallersFinite
  <2>4. old \in Nat /\ new \in Nat
    BY <2>2, Types, RepliesFinite
  <2>5. new \in {old + n, old + n + 1}
    <3>1. CASE Stays
      <4>1. service'.exchanges # service.exchanges
        BY DEF CallersOf
      <4>2. Served(service, service')
        BY <3>1, <4>1 DEF Stays, exchanges
      <4> QED
        BY <4>2 DEF Served
    <3>2. CASE Takes
      <4>1. DOMAIN service'.exchanges = DOMAIN service.exchanges
        BY <3>2 DEF Takes, Taken
      <4> QED
        BY <4>1 DEF CallersOf
    <3>3. ASSUME NEW j \in Keys, Enrols(j)
          PROVE  new = old + n
      <4>1. PICK r : /\ Boxed(r, 0) /\ Moved(service, r, Settled(Env)) /\ Paid(service, r)
                     /\ Admitted(r, service', j)
        BY <3>3 DEF Enrols, Admits
      <4>2. /\ Typed(r) /\ r.drawn \in Nat /\ service.drawn \in Nat
            /\ service.drawn <= r.drawn /\ DOMAIN service.exchanges \subseteq 1..service.drawn
            /\ r.outbound \in Seq(Messages)
        BY <2>2, <4>1, Types DEF Boxed, Moved
      <4>3. /\ Paid(r, service')
            /\ DOMAIN service'.exchanges = DOMAIN r.exchanges \cup {r.drawn + 1}
        BY <4>1 DEF Admitted
      <4>4. r.drawn + 1 \notin DOMAIN service.exchanges
        BY <4>2
      <4>5. DOMAIN service.exchanges \ DOMAIN service'.exchanges
              = DOMAIN service.exchanges \ DOMAIN r.exchanges
        BY <4>3, <4>4
      <4>6. CallersOf(r, DOMAIN r.exchanges \ DOMAIN service'.exchanges, k) = {}
        BY <4>3 DEF CallersOf
      <4>7. Cardinality(CallersOf(r, DOMAIN r.exchanges \ DOMAIN service'.exchanges, k)) = 0
        BY <4>6, FS_EmptySet
      <4>8. Cardinality(RepliesIn(r.outbound, k)) = old + n
        BY <4>1, <4>5 DEF Paid
      <4>9. new = Cardinality(RepliesIn(r.outbound, k)) + 0
        BY <4>3, <4>7 DEF Paid
      <4> HIDE DEF old, new, n
      <4> QED
        BY <2>3, <2>4, <4>8, <4>9
    <3> QED
      BY <2>1, <3>1, <3>2, <3>3 DEF Effect
  <2>6. Replies(service', k) = new /\ Replies(service, k) = old
    BY DEF Replies, RepliesIn
  <2> HIDE DEF old, new, n
  <2>7. new - old \in {n, n + 1}
    BY <2>3, <2>4, <2>5
  <2> QED
    BY <2>6, <2>7 DEF n, C
<1>2. Spec => [][A]_vars
  BY <1>1, Invariance, PTL DEF Spec
<1> QED
  BY <1>2, PTL DEF CallersAreAnswered
=============================================================================
