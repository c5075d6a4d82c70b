----------------------------- MODULE LaneLemmas -----------------------------
(***************************************************************************)
(* Facts about numbers and stacks that the proofs about the lane managers  *)
(* share: the shortest lane exists, and a stack on which no lane is twice  *)
(* is full when it is as high as there are lanes.                          *)
(***************************************************************************)
EXTENDS Integers, Sequences, SequencesExt, FiniteSetTheorems, TLAPS

---------------------------------------------------------------------------
(* The least and the greatest of some lanes *)

Less == {p \in Nat \X Nat : p[1] < p[2]}

\* Numbers have a least one among them.
LEMMA LeastNatural ==
  ASSUME NEW S \in SUBSET Nat, S # {}
  PROVE  \E x \in S : \A y \in S : x <= y
<1>1. IsWellFoundedOn(Less, Nat)
  BY NatLessThanWellFounded DEF OpToRel, Less
<1>2. \E x \in S : \A y \in S : ~(<<y, x>> \in Less)
  BY <1>1, WFMin
<1>3. \A x, y \in Nat : <<y, x>> \in Less <=> y < x
  BY DEF Less
<1>4. \A x, y \in Nat : ~(y < x) => x <= y
  OBVIOUS
<1> QED
  BY <1>2, <1>3, <1>4

\* The instruction that looks for the first of the shortest lanes finds one.
LEMMA ShortestExists ==
  ASSUME NEW N \in Nat, NEW S, S = 0 .. N - 1, S # {}, NEW L \in [S -> Nat]
  PROVE  \E l \in S : \A k \in S : L[l] < L[k] \/ (L[l] = L[k] /\ l <= k)
<1> DEFINE Values == {L[l] : l \in S}
<1>1. Values \in SUBSET Nat /\ Values # {}
  OBVIOUS
<1>2. PICK n \in Values : \A v \in Values : n <= v
  <2> HIDE DEF Values
  <2> QED
    BY <1>1, LeastNatural
<1> DEFINE Shortest == {l \in S : L[l] = n}
<1>3. Shortest \in SUBSET Nat /\ Shortest # {}
  BY <1>2
<1>4. PICK l \in Shortest : \A k \in Shortest : l <= k
  <2> HIDE DEF Shortest
  <2> QED
    BY <1>3, LeastNatural
<1>5. \A k \in S : L[l] < L[k] \/ (L[l] = L[k] /\ l <= k)
  <2> TAKE k \in S
  <2>1. L[l] = n /\ n <= L[k] /\ L[k] \in Nat /\ n \in Nat
    BY <1>1, <1>2, <1>4
  <2>2. L[k] = n => l <= k
    BY <1>4
  <2> QED
    BY <2>1, <2>2
<1> QED
  BY <1>4, <1>5

\* "good_lane" is one of the lanes with a job, if there is one.
LEMMA MaxIsMember ==
  ASSUME NEW N \in Nat, NEW T \in SUBSET (0 .. N - 1), T # {}
  PROVE  Max(T) \in T
<1> DEFINE Below == {N - l : l \in T}
<1>1. Below \in SUBSET Nat /\ Below # {}
  <2>1. \A l \in T : N - l \in Nat
    <3> TAKE l \in T
    <3> QED
      OBVIOUS
  <2> QED
    BY <2>1
<1>2. PICK d \in Below : \A e \in Below : d <= e
  <2> HIDE DEF Below
  <2> QED
    BY <1>1, LeastNatural
<1>3. PICK m \in T : d = N - m
  BY <1>2
<1>4. \A l \in T : m >= l
  <2> TAKE l \in T
  <2>1. N - m <= N - l
    BY <1>2, <1>3
  <2> QED
    BY <2>1
<1> QED
  BY <1>4 DEF Max

---------------------------------------------------------------------------
(* The stack of unused lanes *)

LEMMA PopFacts ==
  ASSUME NEW S, NEW s \in Seq(S), s # <<>>, IsInjective(s)
  PROVE  /\ Head(s) \in S /\ Head(s) \in Range(s)
         /\ Tail(s) \in Seq(S) /\ IsInjective(Tail(s))
         /\ Range(Tail(s)) = Range(s) \ {Head(s)}
<1>1. /\ Len(s) \in Nat /\ Len(s) >= 1 /\ DOMAIN s = 1 .. Len(s)
      /\ Head(s) = s[1] /\ \A i \in 1 .. Len(s) : s[i] \in S
  OBVIOUS
<1>2. /\ Tail(s) \in Seq(S) /\ DOMAIN Tail(s) = 1 .. Len(s) - 1
      /\ \A i \in 1 .. Len(s) - 1 : Tail(s)[i] = s[i + 1]
  OBVIOUS
<1>3. IsInjective(Tail(s))
  BY <1>1, <1>2 DEF IsInjective
<1>4. Range(Tail(s)) \subseteq Range(s) \ {Head(s)}
  BY <1>1, <1>2 DEF Range, IsInjective
<1>5. ASSUME NEW x \in Range(s) \ {Head(s)} PROVE x \in Range(Tail(s))
  <2>1. PICK i \in 1 .. Len(s) : x = s[i]
    BY <1>1 DEF Range
  <2>2. i # 1
    BY <1>1, <2>1
  <2>3. i - 1 \in 1 .. Len(s) - 1 /\ Tail(s)[i - 1] = x
    BY <1>1, <1>2, <2>1, <2>2
  <2> QED
    BY <1>2, <2>3 DEF Range
<1>6. Head(s) \in S /\ Head(s) \in Range(s)
  BY <1>1 DEF Range
<1> QED
  BY <1>2, <1>3, <1>4, <1>5, <1>6

LEMMA PushFacts ==
  ASSUME NEW S, NEW s \in Seq(S), IsInjective(s), NEW l \in S, l \notin Range(s)
  PROVE  /\ <<l>> \o s \in Seq(S) /\ <<l>> \o s # <<>>
         /\ IsInjective(<<l>> \o s) /\ Head(<<l>> \o s) = l
         /\ Range(<<l>> \o s) = Range(s) \cup {l}
<1> DEFINE t == <<l>> \o s
<1>1. /\ t \in Seq(S) /\ Len(s) \in Nat /\ DOMAIN t = 1 .. Len(s) + 1
      /\ DOMAIN s = 1 .. Len(s) /\ t[1] = l
      /\ \A i \in 1 .. Len(s) : t[i + 1] = s[i]
  OBVIOUS
<1>2. \A i \in 2 .. Len(s) + 1 : i - 1 \in 1 .. Len(s) /\ t[i] = s[i - 1]
  <2> TAKE i \in 2 .. Len(s) + 1
  <2>1. i - 1 \in 1 .. Len(s) /\ (i - 1) + 1 = i
    BY <1>1
  <2> QED
    BY <1>1, <2>1
<1>3. t # <<>> /\ Head(t) = l
  BY <1>1
<1> HIDE DEF t
<1>4. \A i \in 1 .. Len(s) + 1 : i = 1 \/ i \in 2 .. Len(s) + 1
  BY <1>1
<1>5. \A i \in 1 .. Len(s) : s[i] # l
  BY <1>1 DEF Range
<1>6. IsInjective(t)
  <2> SUFFICES ASSUME NEW a \in 1 .. Len(s) + 1, NEW b \in 1 .. Len(s) + 1, t[a] = t[b]
               PROVE  a = b
    BY <1>1 DEF IsInjective
  <2>1. CASE a = 1 \/ b = 1
    BY <1>1, <1>2, <1>4, <1>5, <2>1
  <2>2. CASE a \in 2 .. Len(s) + 1 /\ b \in 2 .. Len(s) + 1
    <3>1. a - 1 \in 1 .. Len(s) /\ b - 1 \in 1 .. Len(s) /\ s[a - 1] = s[b - 1]
      BY <1>2, <2>2
    <3>2. a - 1 = b - 1
      BY <1>1, <3>1 DEF IsInjective
    <3> QED
      BY <2>2, <3>2
  <2> QED
    BY <1>4, <2>1, <2>2
<1>7. Range(t) = Range(s) \cup {l}
  <2>1. \A i \in DOMAIN t : t[i] \in Range(s) \cup {l}
    BY <1>1, <1>2, <1>4 DEF Range
  <2>2. \A i \in DOMAIN s : i + 1 \in DOMAIN t /\ t[i + 1] = s[i]
    BY <1>1
  <2>3. 1 \in DOMAIN t /\ t[1] = l
    BY <1>1
  <2> QED
    BY <2>1, <2>2, <2>3 DEF Range
<1> QED
  BY <1>1, <1>3, <1>6, <1>7 DEF t

\* "cmp unused_lanes, 0xF..." in a flush asks whether all lanes are on the stack,
\* which is whether no lane has a job.
LEMMA FullStack ==
  ASSUME NEW N \in Nat, N >= 1, NEW S, S = 0 .. N - 1,
         NEW s \in Seq(S), IsInjective(s)
  PROVE  /\ Len(s) = N => Range(s) = S
         /\ Len(s) < N => \E l \in S : l \notin Range(s)
<1>1. /\ Len(s) \in Nat /\ DOMAIN s = 1 .. Len(s) /\ s \in [1 .. Len(s) -> S]
  OBVIOUS
<1>2. s \in Injection(1 .. Len(s), S)
  BY <1>1 DEF Injection
<1>3. IsFiniteSet(S) /\ Cardinality(S) = N
  <2>1. 0 \in Int /\ N - 1 \in Int /\ ~(0 > N - 1)
    OBVIOUS
  <2>2. IsFiniteSet(0 .. N - 1)
        /\ Cardinality(0 .. N - 1) = (N - 1) - 0 + 1
    BY <2>1, FS_Interval
  <2> QED
    BY <2>2
<1>4. Cardinality(1 .. Len(s)) = Len(s)
  <2>1. 1 \in Int /\ Len(s) \in Int
    BY <1>1
  <2>2. Cardinality(1 .. Len(s)) = IF 1 > Len(s) THEN 0 ELSE Len(s) - 1 + 1
    BY <2>1, FS_Interval
  <2> QED
    BY <1>1, <2>2
<1>5. Cardinality(1 .. Len(s)) = Cardinality(S) <=> s \in Surjection(1 .. Len(s), S)
  BY <1>2, <1>3, FS_Injection
<1>6. s \in Surjection(1 .. Len(s), S) <=> Range(s) = S
  BY <1>1 DEF Surjection, Range
<1>7. Range(s) \subseteq S
  BY <1>1 DEF Range
<1>8. ASSUME Len(s) = N PROVE Range(s) = S
  BY <1>3, <1>4, <1>5, <1>6, <1>8
<1>9. ASSUME Len(s) < N PROVE \E l \in S : l \notin Range(s)
  <2>1. Cardinality(1 .. Len(s)) # Cardinality(S)
    BY <1>1, <1>3, <1>4, <1>9
  <2>2. Range(s) # S
    BY <2>1, <1>5, <1>6
  <2> QED
    BY <2>2, <1>7
<1> QED
  BY <1>8, <1>9

=============================================================================
