----------------------------- MODULE SequenceFacts -----------------------------
(***************************************************************************)
(* Facts about queues of numbered items that several proofs cite: what     *)
(* appending and taking do to the order and to the set of the items.       *)
(***************************************************************************)
EXTENDS Functions, Integers, Sequences, SequenceTheorems, WellFoundedInduction,
        TLAPS

\* The numbers in s increase.
Increasing(s) == \A m, n \in DOMAIN s : m < n => s[m] < s[n]

LEMMA RangeType ==
  ASSUME NEW S, NEW s \in Seq(S)
  PROVE  Range(s) \subseteq S
BY ElementOfSeq DEF Range

\* The first items stay where they are, and the new one comes last.
LEMMA AppendItems ==
  ASSUME NEW S, NEW s \in Seq(S), NEW x \in S
  PROVE  /\ Append(s, x) \in Seq(S) /\ Len(s) \in Nat
         /\ DOMAIN s = 1..Len(s)
         /\ Len(Append(s, x)) = Len(s) + 1
         /\ DOMAIN Append(s, x) = DOMAIN s \cup {Len(s) + 1}
         /\ Len(s) + 1 \notin DOMAIN s
         /\ \A n \in DOMAIN s : Append(s, x)[n] = s[n]
         /\ Append(s, x)[Len(s) + 1] = x
         /\ Range(Append(s, x)) = Range(s) \cup {x}
<1>1. /\ Append(s, x) \in Seq(S) /\ Len(s) \in Nat /\ DOMAIN s = 1..Len(s)
      /\ Len(Append(s, x)) = Len(s) + 1
      /\ \A n \in 1..Len(s) : Append(s, x)[n] = s[n]
      /\ Append(s, x)[Len(s) + 1] = x
      /\ DOMAIN Append(s, x) = 1..Len(s) + 1
  BY LenProperties, AppendProperties
<1>2. DOMAIN Append(s, x) = DOMAIN s \cup {Len(s) + 1} /\ Len(s) + 1 \notin DOMAIN s
  BY <1>1
<1>3. Range(Append(s, x)) = Range(s) \cup {x}
  <2>1. Range(Append(s, x)) = {Append(s, x)[n] : n \in DOMAIN s \cup {Len(s) + 1}}
    BY <1>2 DEF Range
  <2>2. \A n \in DOMAIN s : Append(s, x)[n] = s[n]
    BY <1>1
  <2>3. ASSUME NEW y PROVE y \in Range(Append(s, x)) <=> y \in Range(s) \cup {x}
    <3>1. CASE y = x
      BY <1>1, <2>1, <3>1
    <3>2. CASE y # x
      BY <1>1, <2>1, <2>2, <3>2 DEF Range
    <3> QED
      BY <3>1, <3>2
  <2> QED
    BY <2>3
<1> QED
  BY <1>1, <1>2, <1>3

\* Taking the first item leaves the others.
LEMMA TailItems ==
  ASSUME NEW S, NEW s \in Seq(S), s # <<>>
  PROVE  /\ Tail(s) \in Seq(S) /\ Head(s) \in S /\ Len(s) \in Nat \ {0}
         /\ DOMAIN s = 1..Len(s) /\ 1 \in DOMAIN s /\ Head(s) = s[1]
         /\ Len(Tail(s)) = Len(s) - 1 /\ DOMAIN Tail(s) = 1..Len(s) - 1
         /\ \A n \in DOMAIN Tail(s) : n + 1 \in DOMAIN s /\ Tail(s)[n] = s[n + 1]
         /\ Range(s) = {Head(s)} \cup Range(Tail(s))
<1>1. /\ Tail(s) \in Seq(S) /\ Head(s) \in S /\ Len(s) \in Nat \ {0}
      /\ DOMAIN s = 1..Len(s) /\ Head(s) = s[1]
      /\ Len(Tail(s)) = Len(s) - 1
      /\ \A n \in 1..Len(Tail(s)) : Tail(s)[n] = s[n + 1]
  BY LenProperties, HeadTailProperties, EmptySeq
<1>2. 1 \in DOMAIN s /\ DOMAIN Tail(s) = 1..Len(s) - 1
  BY <1>1, LenProperties
<1>3. \A n \in DOMAIN Tail(s) : n + 1 \in DOMAIN s /\ Tail(s)[n] = s[n + 1]
  BY <1>1, <1>2
<1>4. \A n \in DOMAIN s \ {1} : n - 1 \in DOMAIN Tail(s) /\ Tail(s)[n - 1] = s[n]
  BY <1>1, <1>2
<1>5. Range(s) = {Head(s)} \cup Range(Tail(s))
  <2>1. \A n \in DOMAIN s : s[n] \in {Head(s)} \cup Range(Tail(s))
    BY <1>1, <1>4 DEF Range
  <2>2. Head(s) \in Range(s) /\ \A n \in DOMAIN Tail(s) : Tail(s)[n] \in Range(s)
    BY <1>1, <1>2, <1>3 DEF Range
  <2> QED
    BY <2>1, <2>2, Zenon DEF Range
<1> QED
  BY <1>1, <1>2, <1>3, <1>5

\* A number above all others may be appended.
LEMMA IncreasingAppend ==
  ASSUME NEW s \in Seq(Nat), NEW x \in Nat,
         Increasing(s), \A y \in Range(s) : y < x
  PROVE  Increasing(Append(s, x))
<1>1. /\ DOMAIN s = 1..Len(s) /\ Len(s) \in Nat
      /\ DOMAIN Append(s, x) = DOMAIN s \cup {Len(s) + 1}
      /\ \A n \in DOMAIN s : Append(s, x)[n] = s[n] /\ s[n] < x
      /\ Append(s, x)[Len(s) + 1] = x
  <2>1. \A n \in DOMAIN s : s[n] < x
    BY Zenon DEF Range
  <2> QED
    BY <2>1, AppendItems
<1> SUFFICES ASSUME NEW m \in DOMAIN Append(s, x), NEW n \in DOMAIN Append(s, x),
                    m < n
             PROVE  Append(s, x)[m] < Append(s, x)[n]
  BY Zenon DEF Increasing
<1>2. m \in DOMAIN s
  BY <1>1
<1>3. CASE n \in DOMAIN s
  BY <1>1, <1>2, <1>3 DEF Increasing
<1>4. CASE n = Len(s) + 1
  BY <1>1, <1>2, <1>4
<1> QED
  BY <1>1, <1>3, <1>4

\* What is left when the first number is taken is above it, and in order.
LEMMA IncreasingTail ==
  ASSUME NEW s \in Seq(Nat), s # <<>>, Increasing(s)
  PROVE  Increasing(Tail(s)) /\ \A y \in Range(Tail(s)) : Head(s) < y
<1>1. /\ DOMAIN s = 1..Len(s) /\ 1 \in DOMAIN s /\ Head(s) = s[1]
      /\ Len(s) \in Nat /\ DOMAIN Tail(s) = 1..Len(s) - 1
      /\ \A n \in DOMAIN Tail(s) : n + 1 \in DOMAIN s /\ Tail(s)[n] = s[n + 1]
  BY TailItems
<1>2. Increasing(Tail(s))
  <2> SUFFICES ASSUME NEW m \in DOMAIN Tail(s), NEW n \in DOMAIN Tail(s), m < n
               PROVE  Tail(s)[m] < Tail(s)[n]
    BY Zenon DEF Increasing
  <2> QED
    BY <1>1 DEF Increasing
<1>3. ASSUME NEW n \in DOMAIN Tail(s) PROVE Head(s) < Tail(s)[n]
  BY <1>1 DEF Increasing
<1> QED
  BY <1>2, <1>3, Zenon DEF Range

\* An item that is not there yet may be appended, ...
LEMMA InjectiveAppend ==
  ASSUME NEW S, NEW s \in Seq(S), NEW x \in S,
         IsInjective(s), x \notin Range(s)
  PROVE  IsInjective(Append(s, x))
<1>1. /\ DOMAIN Append(s, x) = DOMAIN s \cup {Len(s) + 1}
      /\ Len(s) + 1 \notin DOMAIN s
      /\ \A n \in DOMAIN s : Append(s, x)[n] = s[n]
      /\ Append(s, x)[Len(s) + 1] = x
  BY AppendItems
<1>2. \A n \in DOMAIN s : s[n] # x
  BY Zenon DEF Range
<1> QED
  BY <1>1, <1>2, Zenon DEF IsInjective

\* ... and the first one taken, after which it is there no longer.
LEMMA InjectiveTail ==
  ASSUME NEW S, NEW s \in Seq(S), s # <<>>, IsInjective(s)
  PROVE  IsInjective(Tail(s)) /\ Range(Tail(s)) = Range(s) \ {Head(s)}
<1>1. /\ DOMAIN s = 1..Len(s) /\ Len(s) \in Nat /\ 1 \in DOMAIN s
      /\ Head(s) = s[1] /\ DOMAIN Tail(s) = 1..Len(s) - 1
      /\ \A n \in DOMAIN Tail(s) : n + 1 \in DOMAIN s /\ Tail(s)[n] = s[n + 1]
      /\ Range(s) = {Head(s)} \cup Range(Tail(s))
  BY TailItems
<1>2. IsInjective(Tail(s))
  <2> SUFFICES ASSUME NEW m \in DOMAIN Tail(s), NEW n \in DOMAIN Tail(s),
                      Tail(s)[m] = Tail(s)[n]
               PROVE  m = n
    BY Zenon DEF IsInjective
  <2>1. m + 1 \in DOMAIN s /\ n + 1 \in DOMAIN s /\ s[m + 1] = s[n + 1]
    BY <1>1
  <2>2. m + 1 = n + 1
    BY <2>1, Zenon DEF IsInjective
  <2> QED
    BY <1>1, <2>2
<1>3. \A n \in DOMAIN Tail(s) : Tail(s)[n] # Head(s)
  <2> SUFFICES ASSUME NEW n \in DOMAIN Tail(s), Tail(s)[n] = Head(s) PROVE FALSE
    OBVIOUS
  <2>1. n + 1 \in DOMAIN s /\ s[n + 1] = s[1]
    BY <1>1
  <2>2. n + 1 = 1
    BY <1>1, <2>1, Zenon DEF IsInjective
  <2> QED
    BY <1>1, <2>2
<1>4. Head(s) \notin Range(Tail(s))
  BY <1>3, Zenon DEF Range
<1> QED
  BY <1>1, <1>2, <1>4, Zenon

\* What is left of s when its first n items are taken.
LEMMA SuffixItems ==
  ASSUME NEW S, NEW s \in Seq(S), NEW n \in 1..Len(s),
         NEW p, p = SubSeq(s, n + 1, Len(s))
  PROVE  /\ Len(s) \in Nat /\ DOMAIN s = 1..Len(s)
         /\ p \in Seq(S) /\ Len(p) = Len(s) - n
         /\ DOMAIN p = 1..Len(s) - n
         /\ \A j \in 1..Len(s) - n : p[j] = s[n + j]
<1>1. Len(s) \in Nat /\ DOMAIN s = 1..Len(s)
  BY LenProperties
<1>2. \A j \in n + 1..Len(s) : s[j] \in S
  BY <1>1, ElementOfSeq
<1>3. /\ p \in Seq(S)
      /\ Len(p) = IF n + 1 <= Len(s) THEN Len(s) - (n + 1) + 1 ELSE 0
      /\ \A j \in 1..Len(s) - (n + 1) + 1 : p[j] = s[n + 1 + j - 1]
  BY <1>1, <1>2, SubSeqProperties
<1>4. Len(p) = Len(s) - n
  <2>1. \A l \in Nat : \A j \in 1..l :
          IF j + 1 <= l THEN l - (j + 1) + 1 = l - j ELSE 0 = l - j
    OBVIOUS
  <2> QED
    BY <1>1, <1>3, <2>1, Zenon
<1>5. ASSUME NEW j \in 1..Len(s) - n PROVE p[j] = s[n + j]
  <2>1. j \in 1..Len(s) - (n + 1) + 1 /\ n + 1 + j - 1 = n + j
    BY <1>1
  <2> QED
    BY <1>3, <2>1
<1>6. DOMAIN p = 1..Len(s) - n
  BY <1>3, <1>4, LenProperties
<1> QED
  BY <1>1, <1>3, <1>4, <1>5, <1>6

\* A set of positions has a first one.
LEMMA FirstPosition ==
  ASSUME NEW T \in SUBSET Nat, T # {}
  PROVE  \E n \in T : \A k \in T : n <= k
<1>1. PICK n \in T : \A k \in T : ~(<<k, n>> \in OpToRel(<, Nat))
  BY NatLessThanWellFounded, WFMin
<1>2. \A k \in T : ~(k < n)
  BY <1>1 DEF OpToRel
<1> QED
  BY <1>2
================================================================================
