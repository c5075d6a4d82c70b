--------------------------- MODULE ZucLanesProofs ---------------------------
(***************************************************************************)
(* The OOO managers of ZUC for AVX512 keep their lanes for any number of   *)
(* lanes, any jobs and any lengths that the check admits, and each of      *)
(* their calls is one that the scheduler relies on (OooMgr).  A job may    *)
(* take many calls; what has to be shown is that a lane goes on in each    *)
(* call with the keystream that is due, and for EIA3 that the window of    *)
(* keystream words is moved and refilled in step with the message.         *)
(*                                                                         *)
(* The lemmas about the window serve the direct API too (WirelessProofs).  *)
(***************************************************************************)
EXTENDS ZucLanes, LaneLemmas, SequenceTheorems

LEMMA SliceFacts ==
  ASSUME NEW s \in Seq(Int), NEW a \in Nat \ {0}, NEW b \in Nat, b <= Len(s), a <= b + 1
  PROVE  /\ SubSeq(s, a, b) \in Seq(Int) /\ Len(SubSeq(s, a, b)) = b + 1 - a
         /\ \A t \in 1 .. b + 1 - a : SubSeq(s, a, b)[t] = s[(a + t) - 1]
OBVIOUS

LEMMA ConcatFacts ==
  ASSUME NEW a \in Seq(Int), NEW b \in Seq(Int)
  PROVE  /\ a \o b \in Seq(Int) /\ Len(a \o b) = Len(a) + Len(b)
         /\ \A t \in 1 .. Len(a) : (a \o b)[t] = a[t]
         /\ \A t \in Len(a) + 1 .. Len(a) + Len(b) : (a \o b)[t] = b[t - Len(a)]
OBVIOUS

---------------------------------------------------------------------------
(* The window of EIA3 *)

Window == [slot : Seq(Int), made : Int, base : Nat, wrong : SUBSET (Int \X Int)]

\* The first m slots of a window of 2 * W hold the words of keystream due there, the
\* state has made these and no more, and no wrong word has been taken.
Holds(k, W, m) ==
  /\ k \in Window /\ k.slot \in Seq(Int) /\ Len(k.slot) = 2 * W /\ k.base \in Nat
  /\ m \in Nat /\ m <= 2 * W /\ k.made = k.base + m /\ k.wrong = {}
  /\ \A t \in 1 .. m : k.slot[t] = k.base + (t - 1)

\* The same of a window whose state may have gone on elsewhere
Shows(k, W, m) ==
  /\ k \in Window /\ k.slot \in Seq(Int) /\ Len(k.slot) = 2 * W /\ k.base \in Nat
  /\ m \in Nat /\ m <= 2 * W /\ k.wrong = {}
  /\ \A t \in 1 .. m : k.slot[t] = k.base + (t - 1)

LEMMA HoldsShows ==
  ASSUME NEW k, NEW W, NEW m, Holds(k, W, m)
  PROVE  Shows(k, W, m)
BY DEF Holds, Shows

\* A window with other words, and one that is moved
WithWords(k, slot, made) == [k EXCEPT !.slot = slot, !.made = made]

LEMMA WordsMade ==
  ASSUME NEW k \in Window, NEW slot \in Seq(Int), NEW made \in Int
  PROVE  LET r == WithWords(k, slot, made) IN
         r \in Window /\ r.slot = slot /\ r.made = made /\ r.base = k.base /\ r.wrong = k.wrong
BY DEF Window, WithWords

MovedTo(k, slot, base) == [k EXCEPT !.slot = slot, !.base = base]

LEMMA WindowMoved ==
  ASSUME NEW k \in Window, NEW slot \in Seq(Int), NEW base \in Nat
  PROVE  LET r == MovedTo(k, slot, base) IN
         r \in Window /\ r.slot = slot /\ r.made = k.made /\ r.base = base /\ r.wrong = k.wrong
BY DEF Window, MovedTo

\* n more words behind those that are there.
LEMMA GenFacts ==
  ASSUME NEW W \in Nat, NEW k, NEW m, Holds(k, W, m), NEW n \in Nat, m + n <= 2 * W
  PROVE  Holds(Gen(k, m, n), W, m + n) /\ Gen(k, m, n).base = k.base
<1> DEFINE word(t) == IF k.made = Garbage THEN Garbage ELSE k.made + t - 1
           new     == [t \in 1 .. n |-> word(t)]
           before  == SubSeq(k.slot, 1, m)
           behind  == SubSeq(k.slot, m + n + 1, Len(k.slot))
           slot    == before \o new \o behind
           g       == Gen(k, m, n)
<1>1. /\ k \in Window /\ k.slot \in Seq(Int) /\ Len(k.slot) = 2 * W /\ k.base \in Nat /\ m \in Nat
      /\ k.made = k.base + m /\ k.wrong = {} /\ m <= 2 * W
      /\ \A t \in 1 .. m : k.slot[t] = k.base + (t - 1)
  BY DEF Holds
<1>2. \A t \in Int : word(t) = k.base + m + t - 1
  BY <1>1 DEF Garbage
<1> HIDE DEF word
<1>3. word(n + 1) = k.base + (m + n)
  <2>1. n + 1 \in Int
    OBVIOUS
  <2>2. word(n + 1) = k.base + m + (n + 1) - 1
    BY <1>2, <2>1
  <2> QED
    BY <1>1, <2>2
<1>4. new \in Seq(Int) /\ Len(new) = n /\ \A t \in 1 .. n : new[t] = k.base + m + t - 1
  <2>1. \A t \in 1 .. n : word(t) = k.base + m + t - 1 /\ word(t) \in Int
    <3> TAKE t \in 1 .. n
    <3>1. t \in Int
      OBVIOUS
    <3>2. word(t) = k.base + m + t - 1
      BY <1>2, <3>1
    <3> QED
      BY <1>1, <3>1, <3>2
  <2>2. new \in Seq(Int) /\ Len(new) = n /\ \A t \in 1 .. n : new[t] = word(t)
    BY <2>1
  <2> QED
    BY <2>1, <2>2
<1> HIDE DEF new
<1>5. before \in Seq(Int) /\ Len(before) = m /\ \A t \in 1 .. m : before[t] = k.slot[t]
  <2>1. /\ before \in Seq(Int) /\ Len(before) = m + 1 - 1
        /\ \A t \in 1 .. m + 1 - 1 : before[t] = k.slot[(1 + t) - 1]
    BY <1>1, SliceFacts
  <2> HIDE DEF before
  <2> QED
    BY <1>1, <2>1
<1>6. behind \in Seq(Int) /\ Len(behind) = 2 * W - (m + n)
  <2>1. m + n + 1 \in Nat \ {0} /\ Len(k.slot) \in Nat /\ m + n + 1 <= Len(k.slot) + 1
    BY <1>1
  <2>2. behind \in Seq(Int) /\ Len(behind) = Len(k.slot) + 1 - (m + n + 1)
    BY <1>1, <2>1, SliceFacts
  <2> HIDE DEF behind
  <2> QED
    BY <1>1, <2>2
<1> HIDE DEF before, behind
<1> DEFINE front == before \o new
<1>7. /\ front \in Seq(Int) /\ Len(front) = m + n
      /\ \A t \in 1 .. m : front[t] = before[t]
      /\ \A t \in m + 1 .. m + n : front[t] = new[t - m]
  BY <1>4, <1>5, ConcatFacts
<1> HIDE DEF front
<1>8. slot \in Seq(Int) /\ Len(slot) = 2 * W /\ \A t \in 1 .. m + n : slot[t] = front[t]
  <2>1. slot = front \o behind
    BY DEF front
  <2> HIDE DEF slot
  <2>2. /\ slot \in Seq(Int) /\ Len(slot) = Len(front) + Len(behind)
        /\ \A t \in 1 .. Len(front) : slot[t] = front[t]
    BY <1>6, <1>7, <2>1, ConcatFacts
  <2> QED
    BY <1>1, <1>6, <1>7, <2>2
<1> HIDE DEF slot
<1>9. \A t \in 1 .. m + n : slot[t] = k.base + (t - 1)
  <2> TAKE t \in 1 .. m + n
  <2>1. CASE t <= m
    <3>1. t \in 1 .. m
      BY <1>1, <2>1
    <3> QED
      BY <1>1, <1>5, <1>7, <1>8, <3>1
  <2>2. CASE t > m
    <3>1. t - m \in 1 .. n /\ t \in m + 1 .. m + n
      BY <1>1, <2>2
    <3>2. slot[t] = new[t - m]
      BY <1>7, <1>8, <3>1
    <3>3. new[t - m] = k.base + m + (t - m) - 1
      BY <1>4, <3>1
    <3> QED
      BY <1>1, <3>2, <3>3
  <2> QED
    BY <1>1, <2>1, <2>2
<1>10. g = [k EXCEPT !.slot = slot, !.made = word(n + 1)]
  BY DEF Gen, word, new, before, behind, slot
<1> HIDE DEF g
<1>11. g \in Window /\ g.slot = slot /\ g.made = k.base + (m + n) /\ g.base = k.base /\ g.wrong = {}
  <2> DEFINE made == word(n + 1)
             base == k.base
  <2>1. made \in Int /\ base \in Nat /\ made = base + (m + n)
    BY <1>1, <1>3
  <2>2. g = WithWords(k, slot, made)
    BY <1>10 DEF WithWords
  <2>3. k \in Window /\ slot \in Seq(Int) /\ made \in Int
    BY <1>1, <1>8, <2>1
  <2> HIDE DEF made
  <2> DEFINE r == WithWords(k, slot, made)
  <2>4. r \in Window /\ r.slot = slot /\ r.made = made /\ r.base = k.base /\ r.wrong = k.wrong
    BY <2>3, WordsMade
  <2> HIDE DEF r
  <2> QED
    BY <1>1, <2>1, <2>2, <2>4 DEF r
<1>12. Holds(g, W, m + n)
  BY <1>1, <1>8, <1>9, <1>11 DEF Holds
<1> QED
  BY <1>11, <1>12 DEF g

\* A word taken from a slot that holds it is none of the wrong ones.
LEMMA UseFacts ==
  ASSUME NEW W \in Nat, NEW k, NEW m, Shows(k, W, m),
         NEW due, due = k.base, NEW slots \in SUBSET (0 .. m - 1)
  PROVE  Use(k, due, slots) = k
<1> DEFINE taken(s) == IF s < Len(k.slot) THEN k.slot[s + 1] ELSE Garbage
           bad      == {t \in slots : taken(t) # due + t}
           more     == {<<due + s, taken(s)>> : s \in bad}
<1>1. k \in Window /\ Len(k.slot) = 2 * W /\ m \in Nat /\ m <= 2 * W /\ k.base \in Nat /\ k.wrong = {}
  BY DEF Shows
<1>2. bad = {}
  <2> SUFFICES ASSUME NEW t \in slots PROVE taken(t) = due + t
    OBVIOUS
  <2>1. t \in Int /\ 0 <= t /\ t <= m - 1
    BY <1>1
  <2>2. t + 1 \in 1 .. m /\ (t + 1) - 1 = t /\ t < Len(k.slot)
    BY <1>1, <2>1
  <2>3. k.slot[t + 1] = k.base + ((t + 1) - 1)
    BY <2>2 DEF Shows
  <2> QED
    BY <2>2, <2>3
<1> HIDE DEF bad
<1>3. more = {}
  BY <1>2
<1>4. Use(k, due, slots) = [k EXCEPT !.wrong = @ \cup more]
  BY DEF Use, bad
<1> HIDE DEF more
<1> QED
  BY <1>1, <1>3, <1>4 DEF Window

\* A round takes the words of the lower half, and one more, and moves on by W words.
LEMMA RoundFacts ==
  ASSUME NEW W \in Nat \ {0}, NEW k, NEW m, Holds(k, W, m), m > W
  PROVE  Holds(Eia3Round(W, k), W, m - W) /\ Eia3Round(W, k).base = k.base + W
<1> DEFINE half == SubSeq(k.slot, W + 1, 2 * W)
           slot == half \o half
           r    == Eia3Round(W, k)
<1>1. /\ k \in Window /\ k.slot \in Seq(Int) /\ Len(k.slot) = 2 * W /\ m \in Nat /\ m <= 2 * W
      /\ k.base \in Nat /\ k.made = k.base + m /\ k.wrong = {}
  BY DEF Holds
<1>2. \A t \in 1 .. m : k.slot[t] = k.base + (t - 1)
  BY DEF Holds
<1>3. Use(k, k.base, 0 .. W) = k
  <2>1. 0 .. W \in SUBSET (0 .. m - 1)
    BY <1>1
  <2> QED
    BY <2>1, HoldsShows, UseFacts
<1>4. r = [k EXCEPT !.slot = slot, !.base = @ + W]
  BY <1>3 DEF Eia3Round
<1>5. half \in Seq(Int) /\ Len(half) = W /\ \A t \in 1 .. W : half[t] = k.slot[W + t]
  <2> DEFINE first == W + 1
             last  == 2 * W
  <2>1. first \in Nat \ {0} /\ last \in Nat /\ last <= Len(k.slot) /\ first <= last + 1
        /\ last + 1 - first = W
    BY <1>1
  <2>2. \A t \in 1 .. W : (first + t) - 1 = W + t
    OBVIOUS
  <2> HIDE DEF first, last
  <2>3. LET s == SubSeq(k.slot, first, last) IN
        /\ s \in Seq(Int) /\ Len(s) = last + 1 - first
        /\ \A t \in 1 .. last + 1 - first : s[t] = k.slot[(first + t) - 1]
    BY <1>1, <2>1, SliceFacts
  <2>4. half = SubSeq(k.slot, first, last)
    BY DEF first, last
  <2> HIDE DEF half
  <2> QED
    BY <2>1, <2>2, <2>3, <2>4
<1> HIDE DEF half
<1>6. slot \in Seq(Int) /\ Len(slot) = 2 * W /\ \A t \in 1 .. W : slot[t] = half[t]
  <2>1. slot \in Seq(Int) /\ Len(slot) = Len(half) + Len(half)
        /\ \A t \in 1 .. Len(half) : slot[t] = half[t]
    BY <1>5, ConcatFacts
  <2> HIDE DEF slot
  <2> QED
    BY <1>5, <2>1
<1> HIDE DEF slot, r
<1>7. r \in Window /\ r.slot = slot /\ r.made = k.base + m /\ r.base = k.base + W /\ r.wrong = {}
  <2> DEFINE base == k.base + W
             made == k.made
  <2>1. base \in Nat /\ made \in Int /\ made = k.base + m
    BY <1>1
  <2>2. r = MovedTo(k, slot, base)
    BY <1>4 DEF MovedTo
  <2>3. k \in Window /\ slot \in Seq(Int) /\ base \in Nat
    BY <1>1, <1>6, <2>1
  <2> HIDE DEF base
  <2> DEFINE x == MovedTo(k, slot, base)
  <2>4. x \in Window /\ x.slot = slot /\ x.made = k.made /\ x.base = base /\ x.wrong = k.wrong
    BY <2>3, WindowMoved
  <2> HIDE DEF x
  <2> QED
    BY <1>1, <2>1, <2>2, <2>4 DEF base, x
<1>8. \A t \in 1 .. m - W : slot[t] = (k.base + W) + (t - 1)
  <2> TAKE t \in 1 .. m - W
  <2>1. t \in 1 .. W /\ W + t \in 1 .. m
    BY <1>1
  <2>2. slot[t] = k.slot[W + t] /\ k.slot[W + t] = k.base + ((W + t) - 1)
    BY <1>2, <1>5, <1>6, <2>1
  <2>3. t \in Int /\ W \in Int /\ k.base \in Int
    BY <1>1
  <2> QED
    BY <2>2, <2>3
<1>9. m - W \in Nat /\ m - W <= 2 * W /\ r.made = r.base + (m - W)
  <2>1. m - W \in Nat /\ m - W <= 2 * W
    <3>1. m \in Int /\ W \in Int /\ 0 < W /\ W < m /\ m <= 2 * W
      BY <1>1
    <3> QED
      BY <3>1
  <2>2. k.base + m = (k.base + W) + (m - W)
    <3> DEFINE b == k.base
    <3> HIDE DEF b
    <3>1. b \in Int /\ m \in Int /\ W \in Int
      BY <1>1 DEF b
    <3>2. b + m = (b + W) + (m - W)
      BY <3>1
    <3> QED
      BY <3>2 DEF b
  <2> QED
    BY <1>7, <2>1, <2>2
<1>10. r.base \in Nat /\ r.slot \in Seq(Int) /\ Len(r.slot) = 2 * W
  <2>1. k.base + W \in Nat
    <3>1. k.base \in Nat
      BY <1>1
    <3> QED
      BY <3>1
  <2>2. slot \in Seq(Int) /\ Len(slot) = 2 * W
    BY <1>6
  <2> QED
    BY <1>7, <2>1, <2>2
<1>11. \A t \in 1 .. m - W : r.slot[t] = r.base + (t - 1)
  BY <1>7, <1>8
<1>12. Holds(r, W, m - W)
  BY <1>7, <1>9, <1>10, <1>11 DEF Holds
<1> QED
  BY <1>7, <1>12 DEF r

\* No words more: nothing changes.
LEMMA GenNothing ==
  ASSUME NEW W \in Nat, NEW k, NEW m, Holds(k, W, m), NEW s \in 0 .. 2 * W
  PROVE  Gen(k, s, 0) = k
<1> DEFINE word(t) == IF k.made = Garbage THEN Garbage ELSE k.made + t - 1
           new     == [t \in 1 .. 0 |-> word(t)]
           before  == SubSeq(k.slot, 1, s)
           behind  == SubSeq(k.slot, s + 1, Len(k.slot))
           slot    == before \o new \o behind
<1>1. /\ k \in Window /\ k.slot \in Seq(Int) /\ Len(k.slot) = 2 * W /\ k.base \in Nat /\ m \in Nat
      /\ k.made = k.base + m /\ s \in Nat /\ s <= 2 * W
  BY DEF Holds
<1>2. word(1) = k.made
  BY <1>1
<1>3. new = <<>> /\ new \in Seq(Int) /\ Len(new) = 0
  BY Z3
<1> HIDE DEF word, new
<1>4. before \in Seq(Int) /\ Len(before) = s /\ \A t \in 1 .. s : before[t] = k.slot[t]
  <2>1. /\ before \in Seq(Int) /\ Len(before) = s + 1 - 1
        /\ \A t \in 1 .. s + 1 - 1 : before[t] = k.slot[(1 + t) - 1]
    BY <1>1, SliceFacts
  <2> HIDE DEF before
  <2>2. s + 1 - 1 = s /\ \A t \in 1 .. s : (1 + t) - 1 = t
    BY <1>1
  <2> QED
    BY <2>1, <2>2
<1>5. /\ behind \in Seq(Int) /\ Len(behind) = 2 * W - s
      /\ \A t \in 1 .. 2 * W - s : behind[t] = k.slot[s + t]
  <2>1. s + 1 \in Nat \ {0} /\ Len(k.slot) \in Nat /\ s + 1 <= Len(k.slot) + 1
    BY <1>1
  <2>2. /\ behind \in Seq(Int) /\ Len(behind) = Len(k.slot) + 1 - (s + 1)
        /\ \A t \in 1 .. Len(k.slot) + 1 - (s + 1) : behind[t] = k.slot[((s + 1) + t) - 1]
    BY <1>1, <2>1, SliceFacts
  <2> HIDE DEF behind
  <2>3. Len(k.slot) + 1 - (s + 1) = 2 * W - s /\ s \in Int
    BY <1>1
  <2>4. \A t \in 1 .. 2 * W - s : behind[t] = k.slot[s + t]
    <3> TAKE t \in 1 .. 2 * W - s
    <3>1. ((s + 1) + t) - 1 = s + t
      BY <2>3
    <3> QED
      BY <2>2, <2>3, <3>1
  <2> QED
    BY <2>2, <2>3, <2>4
<1> HIDE DEF before, behind
<1> DEFINE front == before \o new
<1>6. front \in Seq(Int) /\ Len(front) = s /\ \A t \in 1 .. s : front[t] = before[t]
  <2>1. /\ front \in Seq(Int) /\ Len(front) = Len(before) + Len(new)
        /\ \A t \in 1 .. Len(before) : front[t] = before[t]
    BY <1>3, <1>4, ConcatFacts
  <2> HIDE DEF front
  <2> QED
    BY <1>1, <1>3, <1>4, <2>1
<1> HIDE DEF front
<1>7. slot = k.slot
  <2>1. slot = front \o behind
    BY DEF front
  <2> HIDE DEF slot
  <2>2. /\ slot \in Seq(Int) /\ Len(slot) = Len(front) + Len(behind)
        /\ \A t \in 1 .. Len(front) : slot[t] = front[t]
        /\ \A t \in Len(front) + 1 .. Len(front) + Len(behind) : slot[t] = behind[t - Len(front)]
    BY <1>5, <1>6, <2>1, ConcatFacts
  <2>3. Len(slot) = 2 * W
    BY <1>1, <1>5, <1>6, <2>2
  <2>4. \A t \in 1 .. 2 * W : slot[t] = k.slot[t]
    <3> TAKE t \in 1 .. 2 * W
    <3>1. CASE t <= s
      <4>1. t \in 1 .. s /\ t \in 1 .. Len(front)
        BY <1>1, <1>6, <3>1
      <4> QED
        BY <1>4, <1>6, <2>2, <4>1
    <3>2. CASE t > s
      <4>1. t \in s + 1 .. s + (2 * W - s) /\ t - s \in 1 .. 2 * W - s /\ s + (t - s) = t
        BY <1>1, <3>2
      <4>2. slot[t] = behind[t - s] /\ behind[t - s] = k.slot[s + (t - s)]
        BY <1>5, <1>6, <2>2, <4>1
      <4> QED
        BY <4>1, <4>2
    <3> QED
      BY <1>1, <3>1, <3>2
  <2> QED
    BY <1>1, <2>2, <2>3, <2>4, SeqEqual
<1>8. Gen(k, s, 0) = [k EXCEPT !.slot = slot, !.made = word(1)]
  <2>1. s + 0 + 1 = s + 1 /\ 0 + 1 = 1
    BY <1>1
  <2> QED
    BY <2>1 DEF Gen, word, new, before, behind
<1> HIDE DEF slot
<1> QED
  BY <1>1, <1>2, <1>7, <1>8 DEF Window

---------------------------------------------------------------------------
(* The rounds of the kernel for 16 lanes *)

\* The rounds are a function of their number.
LEMMA KernelRoundsValues ==
  ASSUME NEW w, NEW n \in Nat
  PROVE  \E f : /\ f[0] = w /\ f[n] = KernelRounds(w, n)
                /\ \A r \in 1 .. n : f[r] = KernelRound(f[r - 1])
<1> DEFINE Is(f, k) == f = [r \in 0 .. k |-> IF r = 0 THEN w ELSE KernelRound(f[r - 1])]
           Bad      == {k \in Nat : ~\E f : Is(f, k)}
<1>1. Bad = {}
  <2> SUFFICES ASSUME Bad # {} PROVE FALSE
    OBVIOUS
  <2>1. PICK k \in Bad : \A i \in Bad : k <= i
    <3>1. Bad \in SUBSET Nat
      OBVIOUS
    <3> HIDE DEF Bad
    <3> QED
      BY <3>1, LeastNatural
  <2>2. CASE k = 0
    <3>1. Is([r \in 0 .. 0 |-> w], 0)
      OBVIOUS
    <3> QED
      BY <2>1, <2>2, <3>1
  <2>3. CASE k # 0
    <3>1. k - 1 \in Nat /\ k - 1 \notin Bad
      <4>1. k \in Nat /\ k - 1 \in Nat
        BY <2>1, <2>3
      <4> HIDE DEF Bad
      <4> QED
        BY <2>1, <4>1
    <3>2. PICK f : Is(f, k - 1)
      <4> HIDE DEF Is
      <4> QED
        BY <3>1
    <3> DEFINE g == [r \in 0 .. k |-> IF r = k THEN KernelRound(f[k - 1]) ELSE f[r]]
    <3>3. \A r \in 0 .. k : g[r] = IF r = 0 THEN w ELSE KernelRound(g[r - 1])
      <4> TAKE r \in 0 .. k
      <4>1. CASE r = k
        <5>1. k - 1 \in 0 .. k /\ k - 1 # k
          BY <3>1
        <5>2. g[k - 1] = f[k - 1]
          BY <5>1
        <5> QED
          BY <2>3, <4>1, <5>2
      <4>2. CASE r = 0
        BY <2>3, <3>1, <3>2, <4>2
      <4>3. CASE r # 0 /\ r # k
        <5>1. r \in 0 .. k - 1 /\ r - 1 \in 0 .. k /\ r - 1 # k
          BY <3>1, <4>3
        <5>2. f[r] = KernelRound(f[r - 1])
          BY <3>2, <4>3, <5>1
        <5>3. g[r] = f[r] /\ g[r - 1] = f[r - 1]
          BY <4>3, <5>1
        <5> QED
          BY <4>3, <5>2, <5>3
      <4> QED
        BY <4>1, <4>2, <4>3
    <3>4. g = [r \in 0 .. k |-> g[r]]
      OBVIOUS
    <3> HIDE DEF g
    <3>5. Is(g, k)
      BY <3>3, <3>4
    <3> QED
      BY <2>1, <3>5
  <2> QED
    BY <2>2, <2>3
<1>2. \E f : Is(f, n)
  BY <1>1
<1> DEFINE f == CHOOSE f : Is(f, n)
<1>3. Is(f, n)
  BY <1>2
<1>4. KernelRounds(w, n) = f[n]
  BY DEF KernelRounds
<1> HIDE DEF f
<1>5. /\ f[0] = w
      /\ \A r \in 1 .. n : f[r] = KernelRound(f[r - 1])
  <2>1. \A r \in 0 .. n : f[r] = IF r = 0 THEN w ELSE KernelRound(f[r - 1])
    BY <1>3
  <2> HIDE DEF Is
  <2> QED
    BY <2>1
<1> QED
  BY <1>4, <1>5

\* What a round leaves: the words in the window and those still to make are one
\* round fewer.
RoundsLeft(w, base, total, r) ==
  \E m \in 0 .. 16 :
    /\ Holds(w.k, 16, m) /\ w.k.base = base + 16 * r
    /\ w.L \in Nat /\ m + w.L = total - 16 * r
    /\ w.L # 0 => m = 16
    /\ w = [k |-> w.k, L |-> w.L]

LEMMA KernelRoundFacts ==
  ASSUME NEW w, NEW base \in Nat, NEW total \in Nat, NEW r \in Nat,
         RoundsLeft(w, base, total, r), total - 16 * r > 16
  PROVE  RoundsLeft(KernelRound(w), base, total, r + 1)
<1> DEFINE g == Min({w.L, 16})
           k == Eia3Round(16, Gen(w.k, 16, g))
           L == w.L - g
<1>0. w = [k |-> w.k, L |-> w.L]
  BY DEF RoundsLeft
<1>1. /\ Holds(w.k, 16, 16) /\ w.k.base = base + 16 * r
      /\ w.L \in Nat /\ 16 + w.L = total - 16 * r /\ w.L > 0
  BY DEF RoundsLeft
<1>2. g \in 1 .. 16 /\ g <= w.L /\ (g # 16 => g = w.L)
  <2>1. g = IF w.L <= 16 THEN w.L ELSE 16
    BY <1>1 DEF Min
  <2> HIDE DEF g
  <2> QED
    BY <1>1, <2>1
<1> HIDE DEF g
<1>3. Holds(Gen(w.k, 16, g), 16, 16 + g) /\ Gen(w.k, 16, g).base = w.k.base
  <2>1. g \in Nat /\ 16 + g <= 2 * 16
    BY <1>2
  <2> QED
    BY <1>1, <2>1, GenFacts
<1>4. Holds(k, 16, g) /\ k.base = w.k.base + 16
  <2>1. 16 + g > 16 /\ (16 + g) - 16 = g /\ 16 \in Nat \ {0}
    BY <1>2
  <2>2. Holds(k, 16, (16 + g) - 16) /\ k.base = Gen(w.k, 16, g).base + 16
    BY <1>3, <2>1, RoundFacts
  <2> HIDE DEF k
  <2> QED
    BY <1>3, <2>1, <2>2
<1>5. KernelRound(w) = [k |-> k, L |-> L]
  <2> DEFINE a == w.k
             b == w.L
  <2>1. KernelRound(w) = [w EXCEPT !.k = k, !.L = L]
    BY DEF KernelRound, g
  <2>2. w = [k |-> a, L |-> b]
    BY <1>0
  <2> HIDE DEF k, L, a, b
  <2> QED
    BY <2>1, <2>2
<1> HIDE DEF k
<1>6. k.base = base + 16 * (r + 1)
  <2>1. k.base = (base + 16 * r) + 16
    BY <1>1, <1>4
  <2>2. (base + 16 * r) + 16 = base + 16 * (r + 1)
    OBVIOUS
  <2> QED
    BY <2>1, <2>2
<1>7. L \in Nat /\ g + L = total - 16 * (r + 1) /\ (L # 0 => g = 16)
  <2> DEFINE b == w.L
  <2>1. b \in Nat /\ 16 + b = total - 16 * r /\ g \in 1 .. 16 /\ g <= b /\ (g # 16 => g = b)
    BY <1>1, <1>2
  <2> HIDE DEF b
  <2>2. b - g \in Nat /\ g + (b - g) = total - 16 * (r + 1) /\ (b - g # 0 => g = 16)
    BY <2>1
  <2> QED
    BY <2>2 DEF b
<1> HIDE DEF L
<1>8. KernelRound(w).k = k /\ KernelRound(w).L = L /\ g \in 0 .. 16
  BY <1>2, <1>5
<1> QED
  BY <1>4, <1>5, <1>6, <1>7, <1>8 DEF RoundsLeft

LEMMA KernelRoundsFacts ==
  ASSUME NEW w, NEW base \in Nat, NEW total \in Nat, NEW n \in Nat,
         RoundsLeft(w, base, total, 0), n > 0 => total - 16 * n > 0
  PROVE  RoundsLeft(KernelRounds(w, n), base, total, n)
<1>1. PICK f : /\ f[0] = w /\ f[n] = KernelRounds(w, n)
               /\ \A r \in 1 .. n : f[r] = KernelRound(f[r - 1])
  BY KernelRoundsValues
<1> DEFINE Bad == {r \in 0 .. n : ~RoundsLeft(f[r], base, total, r)}
<1>2. Bad = {}
  <2> SUFFICES ASSUME Bad # {} PROVE FALSE
    OBVIOUS
  <2>1. PICK r \in Bad : \A i \in Bad : r <= i
    <3>1. Bad \in SUBSET Nat
      OBVIOUS
    <3> HIDE DEF Bad
    <3> QED
      BY <3>1, LeastNatural
  <2>2. r # 0
    BY <1>1, <2>1
  <2>3. r - 1 \in 0 .. n /\ r - 1 \in Nat /\ r - 1 \notin Bad /\ r \in 1 .. n /\ (r - 1) + 1 = r
    BY <2>1, <2>2
  <2>4. RoundsLeft(f[r - 1], base, total, r - 1)
    BY <2>3
  <2>5. total - 16 * (r - 1) > 16
    BY <2>3
  <2>6. RoundsLeft(KernelRound(f[r - 1]), base, total, (r - 1) + 1)
    BY <2>3, <2>4, <2>5, KernelRoundFacts
  <2> QED
    BY <1>1, <2>1, <2>3, <2>6
<1>3. n \in 0 .. n /\ n \notin Bad
  BY <1>2
<1> QED
  BY <1>1, <1>3

\* The kernel makes the two words of the window, and then those of the call: no
\* word is missing and none is made too many.
LEMMA KernelWindowFacts ==
  ASSUME NEW k, Holds(k, 16, 2), NEW words \in Nat, NEW n \in Nat,
         words < 14 => n = 0, words - 16 * n \in 0 .. 16
  PROVE  /\ Holds(KernelWindow(k, words, n), 16, words - 16 * n + 2)
         /\ KernelWindow(k, words, n).base = k.base + 16 * n
<1> DEFINE base  == k.base
           start == [k |-> Gen(k, 2, 14), L |-> words - 14]
           w     == KernelRounds(start, n)
<1>1. base \in Nat
  BY DEF Holds
<1>2. CASE words < 14
  <2>1. KernelWindow(k, words, n) = Gen(k, 2, words)
    BY <1>2 DEF KernelWindow
  <2>2. Holds(Gen(k, 2, words), 16, 2 + words) /\ Gen(k, 2, words).base = k.base
    <3>1. 2 + words <= 2 * 16
      BY <1>2
    <3> QED
      BY <3>1, GenFacts
  <2>3. 2 + words = words - 16 * n + 2 /\ base = base + 16 * n
    BY <1>1, <1>2
  <2> QED
    BY <2>1, <2>2, <2>3
<1>3. CASE words >= 14
  <2>1. KernelWindow(k, words, n) = Gen(w.k, 16, w.L)
    BY <1>3 DEF KernelWindow
  <2>2. Holds(Gen(k, 2, 14), 16, 16) /\ Gen(k, 2, 14).base = base
    <3>1. Holds(Gen(k, 2, 14), 16, 2 + 14) /\ Gen(k, 2, 14).base = k.base
      BY GenFacts
    <3>2. 2 + 14 = 16
      OBVIOUS
    <3> QED
      BY <3>1, <3>2
  <2>3. RoundsLeft(start, base, words + 2, 0)
    <3>1. start.k = Gen(k, 2, 14) /\ start.L = words - 14 /\ words - 14 \in Nat
      BY <1>3
    <3>2. 16 \in 0 .. 16 /\ base + 16 * 0 = base /\ 16 + (words - 14) = (words + 2) - 16 * 0
      BY <1>1, <1>3
    <3>3. start = [k |-> start.k, L |-> start.L]
      BY <3>1
    <3> HIDE DEF start
    <3> QED
      BY <2>2, <3>1, <3>2, <3>3 DEF RoundsLeft
  <2>4. RoundsLeft(w, base, words + 2, n)
    <3> HIDE DEF start, base
    <3>1. words + 2 \in Nat /\ (n > 0 => (words + 2) - 16 * n > 0)
      OBVIOUS
    <3> QED
      BY <1>1, <2>3, <3>1, KernelRoundsFacts
  <2> HIDE DEF w
  <2>5. PICK m \in 0 .. 16 :
          /\ Holds(w.k, 16, m) /\ w.k.base = base + 16 * n
          /\ w.L \in Nat /\ m + w.L = (words + 2) - 16 * n
          /\ w.L # 0 => m = 16
    BY <2>4 DEF RoundsLeft
  <2>6. CASE w.L = 0
    <3>1. Gen(w.k, 16, w.L) = w.k
      <4>1. 16 \in 0 .. 2 * 16
        OBVIOUS
      <4> QED
        BY <2>5, <2>6, <4>1, GenNothing
    <3>2. m = words - 16 * n + 2
      BY <2>5, <2>6
    <3> QED
      BY <2>1, <2>5, <3>1, <3>2
  <2>7. CASE w.L # 0
    <3> DEFINE L == w.L
    <3>1. m = 16 /\ L \in Nat /\ 16 + L = words - 16 * n + 2
      BY <2>5, <2>7
    <3> HIDE DEF L
    <3>2. 16 + L <= 2 * 16
      BY <3>1
    <3>3. Holds(Gen(w.k, 16, L), 16, 16 + L) /\ Gen(w.k, 16, L).base = w.k.base
      BY <2>5, <3>1, <3>2, GenFacts
    <3> QED
      BY <2>1, <2>5, <3>1, <3>3 DEF L
  <2> QED
    BY <2>6, <2>7
<1> QED
  BY <1>2, <1>3

\* A window without a word
LEMMA NewWindowFacts ==
  ASSUME NEW W \in Nat, NEW made, NEW base
  PROVE  \E s \in Seq(Int) :
           /\ Len(s) = 2 * W
           /\ NewWindow(W, made, base) = [slot |-> s, made |-> made, base |-> base, wrong |-> {}]
<1> DEFINE slot == [s \in 1 .. 2 * W |-> Garbage]
           none == {}
<1>1. slot \in Seq(Int) /\ Len(slot) = 2 * W
  BY DEF Garbage
<1>2. NewWindow(W, made, base) = [slot |-> slot, made |-> made, base |-> base, wrong |-> none]
  BY DEF NewWindow
<1> HIDE DEF slot, none
<1> QED
  BY <1>1, <1>2 DEF none

LEMMA NewWindowHolds ==
  ASSUME NEW W \in Nat
  PROVE  Holds(NewWindow(W, 0, 0), W, 0) /\ NewWindow(W, 0, 0).base = 0
<1> DEFINE k    == NewWindow(W, 0, 0)
           zero == 0
           none == {}
<1>1. PICK s \in Seq(Int) :
        Len(s) = 2 * W /\ k = [slot |-> s, made |-> zero, base |-> zero, wrong |-> none]
  BY NewWindowFacts
<1> HIDE DEF k, none, zero
<1>2. k.slot = s /\ k.made = zero /\ k.base = zero /\ k.wrong = none
  BY <1>1
<1>3. k \in Window
  BY <1>1 DEF Window, zero, none
<1>4. Holds(k, W, 0) /\ k.base = 0
  BY <1>1, <1>2, <1>3 DEF Holds, zero, none
<1> QED
  BY <1>4 DEF k

\* The last two words of a call open the window of the next one.
LEMMA KeptWordsHold ==
  ASSUME NEW b \in Nat, NEW s \in Seq(Int), Len(s) = 32
  PROVE  LET w == [slot |-> s, made |-> b + 2, base |-> b, wrong |-> {}]
             k == [w EXCEPT !.slot = <<b, b + 1>> \o SubSeq(@, 3, Len(@))]
         IN  Holds(k, 16, 2) /\ k.base = b
<1> DEFINE two  == <<b, b + 1>>
           rest == SubSeq(s, 3, Len(s))
           slot == two \o rest
           w    == [slot |-> s, made |-> b + 2, base |-> b, wrong |-> {}]
           k    == [slot |-> slot, made |-> b + 2, base |-> b, wrong |-> {}]
<1>1. [w EXCEPT !.slot = <<b, b + 1>> \o SubSeq(@, 3, Len(@))] = k
  <2>1. w.slot = s
    OBVIOUS
  <2> DEFINE opened == <<b, b + 1>> \o SubSeq(w.slot, 3, Len(w.slot))
  <2>2. opened = slot
    BY <2>1
  <2> HIDE DEF slot, opened
  <2>3. [w EXCEPT !.slot = opened] = k
    <3> DEFINE c    == b + 2
               none == {}
    <3> HIDE DEF c, none
    <3>1. [[slot |-> s, made |-> c, base |-> b, wrong |-> none] EXCEPT !.slot = slot]
          = [slot |-> slot, made |-> c, base |-> b, wrong |-> none]
      OBVIOUS
    <3> QED
      BY <2>2, <3>1 DEF c, none
  <2> QED
    BY <2>3 DEF opened
<1>2. two \in Seq(Int) /\ Len(two) = 2 /\ two[1] = b /\ two[2] = b + 1
  <2> DEFINE c == b + 1
  <2>1. b \in Int /\ c \in Int
    OBVIOUS
  <2> HIDE DEF c
  <2>2. <<b, c>> \in Seq(Int) /\ Len(<<b, c>>) = 2 /\ <<b, c>>[1] = b /\ <<b, c>>[2] = c
    BY <2>1
  <2> QED
    BY <2>2 DEF c
<1>3. rest \in Seq(Int) /\ Len(rest) = 30
  <2>1. 3 \in Nat \ {0} /\ Len(s) \in Nat /\ Len(s) <= Len(s) /\ 3 <= Len(s) + 1
    OBVIOUS
  <2>2. rest \in Seq(Int) /\ Len(rest) = Len(s) + 1 - 3
    BY <2>1, SliceFacts
  <2> HIDE DEF rest
  <2> QED
    BY <2>2
<1> HIDE DEF two, rest
<1>4. slot \in Seq(Int) /\ Len(slot) = 32 /\ slot[1] = b /\ slot[2] = b + 1
  <2>1. /\ slot \in Seq(Int) /\ Len(slot) = Len(two) + Len(rest)
        /\ \A t \in 1 .. Len(two) : slot[t] = two[t]
    BY <1>2, <1>3, ConcatFacts
  <2> HIDE DEF slot
  <2> QED
    BY <1>2, <1>3, <2>1
<1> HIDE DEF slot
<1>5. k.slot = slot /\ k.made = b + 2 /\ k.base = b /\ k.wrong = {} /\ k \in Window
  BY <1>4 DEF Window
<1>6. \A t \in 1 .. 2 : k.slot[t] = k.base + (t - 1)
  <2> TAKE t \in 1 .. 2
  <2> QED
    BY <1>4, <1>5
<1>7. Holds(k, 16, 2)
  <2> HIDE DEF k
  <2> QED
    BY <1>4, <1>5, <1>6 DEF Holds
<1> QED
  BY <1>1, <1>5, <1>7 DEF w

LEMMA FirstWordsOfNewJob ==
  ASSUME NEW m, NEW l, NEW new, l \in new,
         m.state[l].job = m.job_in_lane[l], m.state[l].made = 0, m.in[l].off = 0
  PROVE  Holds(FirstWords(m, l, new), 16, 2) /\ FirstWords(m, l, new).base = 0
<1> DEFINE w == NewWindow(16, 0, 0)
<1>1. FirstWords(m, l, new) = Gen(w, 0, 2)
  <2>1. 0 \div 4 = 0
    OBVIOUS
  <2> QED
    BY <2>1 DEF FirstWords
<1>2. Holds(w, 16, 0) /\ w.base = 0
  BY NewWindowHolds
<1> HIDE DEF w
<1>3. Holds(Gen(w, 0, 2), 16, 0 + 2) /\ Gen(w, 0, 2).base = w.base
  <2>1. 0 + 2 <= 2 * 16
    OBVIOUS
  <2> QED
    BY <1>2, <2>1, GenFacts
<1>4. 0 + 2 = 2
  OBVIOUS
<1> QED
  BY <1>1, <1>2, <1>3, <1>4

LEMMA FirstWordsOfOldJob ==
  ASSUME NEW m, NEW l, NEW new, l \notin new, NEW b \in Nat,
         m.state[l].job = m.job_in_lane[l], m.state[l].made = b + 2,
         m.in[l].off \div 4 = b, m.prev_ks[l] = <<b, b + 1>>
  PROVE  Holds(FirstWords(m, l, new), 16, 2) /\ FirstWords(m, l, new).base = b
<1> DEFINE w == NewWindow(16, b + 2, b)
           k == [w EXCEPT !.slot = <<b, b + 1>> \o SubSeq(@, 3, Len(@))]
<1>1. PICK s \in Seq(Int) :
        Len(s) = 2 * 16 /\ w = [slot |-> s, made |-> b + 2, base |-> b, wrong |-> {}]
  <2>1. 16 \in Nat
    OBVIOUS
  <2> QED
    BY <2>1, NewWindowFacts
<1>2. FirstWords(m, l, new) = k
  <2> DEFINE made == IF m.state[l].job = m.job_in_lane[l] THEN m.state[l].made ELSE Garbage
             old  == NewWindow(16, made, m.in[l].off \div 4)
  <2>1. FirstWords(m, l, new) = [old EXCEPT !.slot = m.prev_ks[l] \o SubSeq(@, 3, Len(@))]
    BY DEF FirstWords
  <2>2. old = w
    OBVIOUS
  <2> HIDE DEF old, w
  <2> QED
    BY <2>1, <2>2
<1>3. Holds(k, 16, 2) /\ k.base = b
  <2>1. Len(s) = 32
    BY <1>1
  <2> DEFINE v == [slot |-> s, made |-> b + 2, base |-> b, wrong |-> {}]
  <2>2. LET x == [v EXCEPT !.slot = <<b, b + 1>> \o SubSeq(@, 3, Len(@))]
        IN  Holds(x, 16, 2) /\ x.base = b
    BY <2>1, KeptWordsHold
  <2>3. w = v
    BY <1>1
  <2> HIDE DEF v, w
  <2> QED
    BY <2>2, <2>3
<1> QED
  BY <1>2, <1>3

\* The end of a message takes words that are in the window.
LEMMA FinishFacts ==
  ASSUME NEW W \in Nat, NEW k, NEW m, Shows(k, W, m), NEW bits \in Nat,
         m >= (bits + 31) \div 32 + 2,
         NEW len, len = 32 * k.base + bits, NEW L, L = (bits + 31) \div 32 + 2
  PROVE  Eia3Finish(k, bits, L, len) = k
<1> DEFINE base == k.base
           at   == bits \div 32
           up   == (bits + 31) \div 32
           body == Use(k, k.base, IF bits = 0 THEN {} ELSE 0 .. (bits + 30) \div WORD_BITS)
           end  == Use(body, (len \div WORD_BITS) - (bits \div WORD_BITS),
                       (bits \div WORD_BITS) .. (bits + 31) \div WORD_BITS)
<1>1. base \in Nat /\ len = 32 * base + bits /\ m \in Nat /\ m >= up + 2 /\ L = up + 2
  BY DEF Shows
<1>2. at \in Nat /\ up \in Nat /\ (bits + 30) \div 32 \in Nat /\ (bits + 30) \div 32 <= up
  OBVIOUS
<1>3. len \div 32 = base + at /\ (len + 31) \div 32 = base + up
  <2> HIDE DEF base
  <2> QED
    BY <1>1
<1>4. body = k
  <2> DEFINE slots == IF bits = 0 THEN {} ELSE 0 .. (bits + 30) \div 32
  <2>1. slots \in SUBSET (0 .. m - 1)
    <3> HIDE DEF up, base
    <3> QED
      BY <1>1, <1>2
  <2>2. body = Use(k, k.base, slots)
    BY DEF WORD_BITS
  <2> HIDE DEF slots
  <2> QED
    BY <2>1, <2>2, UseFacts
<1>5. end = k
  <2> DEFINE due   == (len \div 32) - at
             slots == at .. up
  <2>1. slots \in SUBSET (0 .. m - 1)
    <3> HIDE DEF up, at, base
    <3> QED
      BY <1>1, <1>2
  <2>2. due = k.base
    <3>1. (base + at) - at = base
      <4> HIDE DEF base, at
      <4> QED
        BY <1>1, <1>2
    <3> QED
      BY <1>3, <3>1
  <2>3. end = Use(k, due, slots)
    BY <1>4 DEF WORD_BITS
  <2> HIDE DEF slots, due, end
  <2>4. Use(k, due, slots) = k
    BY <2>1, <2>2, UseFacts
  <2> QED
    BY <2>3, <2>4
<1>6. Use(k, ((len + 31) \div 32) + 1 - (L - 1), {L - 1}) = k
  <2> DEFINE due   == ((len + 31) \div 32) + 1 - (L - 1)
             slots == {L - 1}
  <2>1. due = k.base
    <3> DEFINE high == (len + 31) \div 32
    <3>1. high = base + up /\ L = up + 2 /\ base \in Int /\ up \in Int
      BY <1>1, <1>2, <1>3
    <3> HIDE DEF high, base, up
    <3>2. high + 1 - (L - 1) = (base + up) + 1 - ((up + 2) - 1)
      BY <3>1
    <3>3. (base + up) + 1 - ((up + 2) - 1) = base
      BY <3>1
    <3> QED
      BY <3>2, <3>3 DEF high, base
  <2>2. slots \in SUBSET (0 .. m - 1)
    <3>1. L - 1 \in 0 .. m - 1
      <4> HIDE DEF base, up
      <4> QED
        BY <1>1, <1>2
    <3> QED
      BY <3>1
  <2> HIDE DEF slots, due
  <2>3. Use(k, due, slots) = k
    BY <2>1, <2>2, UseFacts
  <2> QED
    BY <2>3 DEF slots, due
<1>7. Eia3Finish(k, bits, L, len) = Use(end, ((len + 31) \div 32) + 1 - (L - 1), {L - 1})
  BY DEF Eia3Finish, WORD_BITS
<1> HIDE DEF end
<1> QED
  BY <1>5, <1>6, <1>7

\* So do the bits of a call, in a lane that goes on and in one that has finished.
LEMMA RemainderFacts ==
  ASSUME NEW kept \in Nat, NEW k, Holds(k, 16, kept + 2), NEW bits \in Nat, bits <= 32 * kept,
         NEW left, NEW len,
         left = 0 => len = 32 * k.base + bits
  PROVE  Remainder(k, bits, left, len).wrong = {}
<1>1. k.wrong = {} /\ k.base \in Nat
  BY DEF Holds
<1>2. CASE left = 0
  <2> DEFINE L == (bits + 31 + 64) \div WORD_BITS
  <2>1. L = (bits + 31) \div 32 + 2 /\ kept + 2 >= (bits + 31) \div 32 + 2
    BY DEF WORD_BITS
  <2> HIDE DEF L
  <2>2. Eia3Finish(k, bits, L, len) = k
    BY <1>2, <2>1, HoldsShows, FinishFacts
  <2> QED
    BY <1>1, <1>2, <2>2 DEF Remainder, L
<1>3. CASE left # 0
  <2> DEFINE slots == 0 .. (bits + 30) \div WORD_BITS
  <2>1. slots \in SUBSET (0 .. (kept + 2) - 1)
    BY DEF WORD_BITS
  <2> HIDE DEF slots
  <2>2. Use(k, k.base, slots) = k
    BY <2>1, HoldsShows, UseFacts
  <2> QED
    BY <1>1, <1>3, <2>2 DEF Remainder, slots
<1> QED
  BY <1>2, <1>3

---------------------------------------------------------------------------
(* What the kernels do to a lane *)

Sum(f, S) == MapThenSumSet(LAMBDA l : f[l], S)

LEMMA SumOverNone ==
  ASSUME NEW f
  PROVE  Sum(f, {}) = 0
<1> DEFINE Is(g) == g = [s \in SUBSET {} |-> IF s = {} THEN 0
                                            ELSE f[CHOOSE x \in s : TRUE] + g[s \ {CHOOSE x \in s : TRUE}]]
           iter  == CHOOSE g : Is(g)
<1>1. Is([s \in SUBSET {} |-> 0])
  OBVIOUS
<1>2. Is(iter)
  BY <1>1
<1>3. Sum(f, {}) = iter[{}]
  BY DEF Sum, MapThenSumSet, MapThenFoldSet
<1> HIDE DEF iter
<1>4. iter[{}] = 0
  BY <1>2
<1> QED
  BY <1>3, <1>4

LEMMA SumOverOne ==
  ASSUME NEW f, NEW l, f[l] \in Nat
  PROVE  Sum(f, {l}) = f[l]
<1> DEFINE pick(s) == CHOOSE x \in s : TRUE
           Is(g)   == g = [s \in SUBSET {l} |-> IF s = {} THEN 0 ELSE f[pick(s)] + g[s \ {pick(s)}]]
           iter    == CHOOSE g : Is(g)
           sum     == [s \in SUBSET {l} |-> IF s = {} THEN 0 ELSE f[l]]
<1>1. \A s \in SUBSET {l} : s = {} \/ s = {l}
  OBVIOUS
<1>2. pick({l}) = l
  OBVIOUS
<1>3. {} \in SUBSET {l} /\ {l} \in SUBSET {l} /\ {l} # {} /\ {l} \ {l} = {}
  OBVIOUS
<1> HIDE DEF pick
<1>4. Is(sum)
  <2>1. \A s \in SUBSET {l} : sum[s] = IF s = {} THEN 0 ELSE f[pick(s)] + sum[s \ {pick(s)}]
    <3> TAKE s \in SUBSET {l}
    <3>1. CASE s = {}
      BY <3>1
    <3>2. CASE s = {l}
      <4>1. sum[{l}] = f[l] /\ sum[{}] = 0
        BY <1>3
      <4> HIDE DEF sum
      <4>2. f[pick({l})] + sum[{l} \ {pick({l})}] = f[l]
        BY <1>2, <1>3, <4>1
      <4> QED
        BY <1>3, <3>2, <4>1, <4>2
    <3> QED
      BY <1>1, <3>1, <3>2
  <2>2. sum = [s \in SUBSET {l} |-> sum[s]]
    OBVIOUS
  <2> HIDE DEF sum
  <2> QED
    BY <2>1, <2>2
<1>5. Is(iter)
  BY <1>4
<1>6. Sum(f, {l}) = iter[{l}]
  BY DEF Sum, MapThenSumSet, MapThenFoldSet, pick
<1> HIDE DEF iter
<1>7. iter[{}] = 0
  BY <1>3, <1>5
<1>8. iter[{l}] = f[l]
  <2>1. iter[{l}] = f[pick({l})] + iter[{l} \ {pick({l})}]
    BY <1>3, <1>5
  <2> HIDE DEF Is
  <2> QED
    BY <1>2, <1>3, <1>7, <2>1
<1> QED
  BY <1>6, <1>8

\* What is left of n; a difference too wide for a word with a sign is taken for none.
LEMMA LeftOfFacts ==
  ASSUME NEW n \in Nat, n <= 65535, NEW done \in Nat, done <= n + 31
  PROVE  /\ LeftOf(n, done) \in Nat /\ LeftOf(n, done) <= n
         /\ LeftOf(n, done) # 0 => LeftOf(n, done) = n - done
         /\ n < 32768 /\ n > done => LeftOf(n, done) = n - done
         /\ n <= done => LeftOf(n, done) = 0
<1> DEFINE d == n - done
           w == d % 65536
<1>1. d \in Int /\ d >= -31 /\ d <= 65535
  OBVIOUS
<1> HIDE DEF d
<1>2. w = IF d >= 0 THEN d ELSE 65536 + d
  BY <1>1
<1>3. LeftOf(n, done) = IF w >= 32768 THEN 0 ELSE w
  BY DEF LeftOf, UINT16_MAX, d
<1> HIDE DEF w
<1> QED
  BY <1>1, <1>2, <1>3 DEF d

---------------------------------------------------------------------------
(* The invariant of the managers *)

Mgr == [unused_lanes : Seq(Lanes), job_in_lane : [Lanes -> Jobs \cup {NULL}],
        init_not_done : SUBSET Lanes, lens : [Lanes -> 0 .. UINT16_MAX],
        in : [Lanes -> [job : Jobs \cup {NULL}, off : Nat]],
        state : [Lanes -> [job : Jobs \cup {NULL}, made : Nat]],
        prev_ks : [Lanes -> Seq(Int)]]

Works == [Jobs -> [done : Nat, right : BOOLEAN]]

AlgLens(a) == IF a = "EEA3" THEN EEA3Lens ELSE EIA3Lens

\* No length is taken for a negative number.
Short(a) == a = "EEA3" \/ \A n \in EIA3Lens : n < 32768

\* A lane that goes on has done b words of 4 bytes, its state has made the keystream
\* for them, and for EIA3 two words more, which are kept.
GoesOn(a, m, w, l, b) ==
  /\ m.in[l].off = 4 * b
  /\ w[m.job_in_lane[l]].done = IF a = "EEA3" THEN 4 * b ELSE 32 * b
  /\ l \in m.init_not_done => b = 0
  /\ l \notin m.init_not_done =>
       /\ m.state[l].job = m.job_in_lane[l]
       /\ m.state[l].made = IF a = "EEA3" THEN 4 * b ELSE b + 2
       /\ a = "EIA3" => m.prev_ks[l] = <<b, b + 1>>

\* A lane with a job: what is done and what is left make up its message, and what is
\* done has the right keystream.
LaneOk(a, m, w, M, l) ==
  LET j == m.job_in_lane[l] IN
  /\ m.in[l].job = j
  /\ M[j] \in AlgLens(a)
  /\ w[j].done + m.lens[l] = M[j]
  /\ l \in m.init_not_done => m.lens[l] # 0
  /\ m.lens[l] # 0 => \E b \in Nat : GoesOn(a, m, w, l, b)
  /\ Short(a) => w[j].right

Busy(m) == {l \in Lanes : m.job_in_lane[l] # NULL}

Sound(a, m, w, M) ==
  /\ m \in Mgr /\ w \in Works /\ M \in [Jobs -> EEA3Lens \cup EIA3Lens \cup {0}]
  /\ IsInjective(m.unused_lanes)
  /\ Range(m.unused_lanes) = Lanes \ Busy(m)
  /\ m.init_not_done \subseteq Busy(m)
  /\ \A l, k \in Busy(m) : m.job_in_lane[l] = m.job_in_lane[k] => l = k
  /\ \A l \in Busy(m) : LaneOk(a, m, w, M, l)

LanesInv ==
  /\ alg \in {"EEA3", "EIA3"}
  /\ ret \in Jobs \cup {NULL}
  /\ read \subseteq [job : Jobs \cup {NULL}, to : Nat]
  /\ Sound(alg, ooo, work, msg_len)
  /\ ooo.unused_lanes # <<>>

\* What LanesAssumption says of the lanes as numbers.
LEMMA LaneFacts ==
  NumLanes \in Nat /\ NumLanes >= 2 /\ Lanes = 0 .. NumLanes - 1 /\ Lanes # {}
<1>1. NumLanes \in Nat /\ NumLanes >= 2 /\ Lanes = 0 .. NumLanes - 1
  BY LanesAssumption DEF Lanes
<1>2. 0 \in Lanes
  BY <1>1
<1> QED
  BY <1>1, <1>2

LEMMA LensFacts ==
  ASSUME NEW a
  PROVE  /\ \A n \in EEA3Lens : n \in Nat /\ n >= 1 /\ n <= 8188
         /\ \A n \in EIA3Lens : n \in Nat /\ n >= 1 /\ n <= 65504
         /\ \A n \in AlgLens(a) : n \in Nat /\ n >= 1 /\ n <= 65504 /\ n \in EEA3Lens \cup EIA3Lens
         /\ Short(a) => \A n \in AlgLens(a) : n <= 32767
<1>1. /\ ZUC_MIN_BYTELEN \in Int /\ ZUC_MIN_BYTELEN >= 1 /\ ZUC_MAX_BYTELEN \in Int /\ ZUC_MAX_BYTELEN <= 8188
      /\ ZUC_MIN_BITLEN \in Int /\ ZUC_MIN_BITLEN >= 1 /\ ZUC_MAX_BITLEN \in Int /\ ZUC_MAX_BITLEN <= 65504
  BY DEF ZUC_MIN_BYTELEN, ZUC_MAX_BYTELEN, ZUC_MIN_BITLEN, ZUC_MAX_BITLEN
<1>2. \A n \in EEA3Lens : n \in Nat /\ n >= 1 /\ n <= 8188
  <2>1. \A n \in EEA3Lens : n \in ZUC_MIN_BYTELEN .. ZUC_MAX_BYTELEN
    BY LanesAssumption
  <2> QED
    BY <1>1, <2>1
<1>3. \A n \in EIA3Lens : n \in Nat /\ n >= 1 /\ n <= 65504
  <2>1. \A n \in EIA3Lens : n \in ZUC_MIN_BITLEN .. ZUC_MAX_BITLEN
    BY LanesAssumption
  <2> QED
    BY <1>1, <2>1
<1>4. \A n \in AlgLens(a) : n \in EEA3Lens \cup EIA3Lens
  BY DEF AlgLens
<1>5. \A n \in AlgLens(a) : n \in Nat /\ n >= 1 /\ n <= 65504
  BY <1>2, <1>3, <1>4
<1>6. ASSUME Short(a), NEW n \in AlgLens(a) PROVE n <= 32767
  <2>1. n \in EEA3Lens \/ (n \in EIA3Lens /\ a # "EEA3")
    BY <1>6 DEF AlgLens
  <2>2. n \in EIA3Lens /\ a # "EEA3" => n < 32768
    BY <1>6 DEF Short
  <2> QED
    BY <1>2, <1>3, <2>1, <2>2
<1> QED
  BY <1>2, <1>3, <1>4, <1>5, <1>6

\* The numbers that fit a word
LEMMA WordFacts ==
  /\ UINT16_MAX \in Nat /\ UINT16_MAX <= 65535 /\ UINT16_MAX >= 65535
  /\ 0 \in 0 .. UINT16_MAX /\ UINT16_MAX \in 0 .. UINT16_MAX
  /\ \A n \in 0 .. UINT16_MAX : n \in Nat /\ n <= UINT16_MAX
  /\ \A n \in Nat : n <= UINT16_MAX => n \in 0 .. UINT16_MAX
<1>1. UINT16_MAX \in Nat /\ UINT16_MAX <= 65535 /\ UINT16_MAX >= 65535
  BY DEF UINT16_MAX
<1> QED
  BY <1>1

LEMMA MgrFields ==
  ASSUME NEW m \in Mgr
  PROVE  /\ m.unused_lanes \in Seq(Lanes) /\ m.job_in_lane \in [Lanes -> Jobs \cup {NULL}]
         /\ m.init_not_done \in SUBSET Lanes /\ m.lens \in [Lanes -> 0 .. UINT16_MAX]
         /\ m.in \in [Lanes -> [job : Jobs \cup {NULL}, off : Nat]]
         /\ m.state \in [Lanes -> [job : Jobs \cup {NULL}, made : Nat]]
         /\ m.prev_ks \in [Lanes -> Seq(Int)]
BY DEF Mgr

\* The shortest lane is one of the lanes, and none is shorter.
LEMMA MinLaneIsLeast ==
  ASSUME NEW L \in [Lanes -> 0 .. UINT16_MAX]
  PROVE  /\ MinLane(L) \in Lanes
         /\ \A k \in Lanes : L[MinLane(L)] <= L[k]
<1> DEFINE Is(m) == \A k \in Lanes : L[m] < L[k] \/ (L[m] = L[k] /\ m <= k)
<1>0. L \in [Lanes -> Nat]
  BY WordFacts
<1>1. \E l \in Lanes : Is(l)
  BY <1>0, LaneFacts, ShortestExists
<1>2. MinLane(L) \in Lanes /\ Is(MinLane(L))
  <2>1. MinLane(L) = CHOOSE l \in Lanes : Is(l)
    BY DEF MinLane
  <2> HIDE DEF Is
  <2> QED
    BY <1>1, <2>1
<1>3. \A m \in Lanes : Is(m) => \A k \in Lanes : L[m] <= L[k]
  <2> SUFFICES ASSUME NEW m \in Lanes, Is(m), NEW k \in Lanes PROVE L[m] <= L[k]
    OBVIOUS
  <2>1. L[m] \in Nat /\ L[k] \in Nat /\ (L[m] < L[k] \/ L[m] = L[k])
    BY <1>0
  <2> QED
    BY <2>1
<1> HIDE DEF Is
<1> QED
  BY <1>2, <1>3

\* What is left of a lane with a job fits a word, and is less than that of a lane
\* without one in a flush.
LEMMA LensOfBusy ==
  ASSUME NEW a, NEW m, NEW w, NEW M, Sound(a, m, w, M), NEW l \in Busy(m)
  PROVE  /\ l \in Lanes /\ m.job_in_lane[l] \in Jobs
         /\ m.lens[l] \in Nat /\ m.lens[l] < UINT16_MAX
         /\ M[m.job_in_lane[l]] \in AlgLens(a) /\ m.lens[l] <= M[m.job_in_lane[l]]
         /\ Short(a) => m.lens[l] < 32768
<1>1. l \in Lanes /\ m.job_in_lane[l] \in Jobs
  BY DEF Sound, Mgr, Busy
<1>2. m.lens[l] \in 0 .. UINT16_MAX /\ w[m.job_in_lane[l]].done \in Nat
  BY <1>1 DEF Sound, Mgr, Works
<1>3. M[m.job_in_lane[l]] \in AlgLens(a) /\ w[m.job_in_lane[l]].done + m.lens[l] = M[m.job_in_lane[l]]
  BY DEF Sound, LaneOk
<1> DEFINE n == m.lens[l]
           d == w[m.job_in_lane[l]].done
           t == M[m.job_in_lane[l]]
<1>4. n \in Nat /\ d \in Nat /\ d + n = t /\ t \in Nat /\ t <= 65504 /\ (Short(a) => t <= 32767)
  <2>1. n \in Nat /\ d \in Nat /\ d + n = t
    BY <1>2, <1>3, WordFacts
  <2>2. t \in AlgLens(a)
    BY <1>3
  <2> HIDE DEF n, d, t
  <2>3. t \in Nat /\ t <= 65504 /\ (Short(a) => t <= 32767)
    BY <2>2, LensFacts
  <2> QED
    BY <2>1, <2>3
<1> HIDE DEF n, d, t
<1>5. n \in Nat /\ n <= t /\ n < 65535 /\ (Short(a) => n < 32768)
  BY <1>4
<1> QED
  BY <1>1, <1>3, <1>5, WordFacts DEF n, t

---------------------------------------------------------------------------
(* Submit and flush, before a kernel runs *)

\* A lane is as it was when nothing of it has changed.
LEMMA AlikeOk ==
  ASSUME NEW a, NEW m, NEW w, NEW M, NEW l, LaneOk(a, m, w, M, l), NEW n, NEW v, NEW N,
         n.job_in_lane[l] = m.job_in_lane[l], n.in[l] = m.in[l], n.lens[l] = m.lens[l],
         l \in n.init_not_done <=> l \in m.init_not_done,
         n.state[l] = m.state[l], n.prev_ks[l] = m.prev_ks[l],
         v[m.job_in_lane[l]] = w[m.job_in_lane[l]], N[m.job_in_lane[l]] = M[m.job_in_lane[l]]
  PROVE  LaneOk(a, n, v, N, l)
<1>1. \A b : GoesOn(a, m, w, l, b) => GoesOn(a, n, v, l, b)
  BY DEF GoesOn
<1>2. m.lens[l] # 0 => \E b \in Nat : GoesOn(a, m, w, l, b)
  BY DEF LaneOk
<1>3. n.lens[l] # 0 => \E b \in Nat : GoesOn(a, n, v, l, b)
  BY <1>1, <1>2
<1> QED
  BY <1>3 DEF LaneOk

\* A call forgets the jobs that have been returned, and no other.
LEMMA OldFacts ==
  ASSUME LanesInv
  PROVE  /\ OldWork \in Works /\ OldLens \in [Jobs -> EEA3Lens \cup EIA3Lens \cup {0}]
         /\ \A l \in Busy(ooo) : /\ OldWork[ooo.job_in_lane[l]] = work[ooo.job_in_lane[l]]
                                 /\ OldLens[ooo.job_in_lane[l]] = msg_len[ooo.job_in_lane[l]]
         /\ \A j \in Jobs \ Pending : OldWork[j] = [done |-> 0, right |-> TRUE]
<1>1. ooo \in Mgr /\ work \in Works /\ msg_len \in [Jobs -> EEA3Lens \cup EIA3Lens \cup {0}]
  BY DEF LanesInv, Sound
<1>2. ooo.job_in_lane \in [Lanes -> Jobs \cup {NULL}]
  BY <1>1, MgrFields
<1>3. OldWork \in Works
  <2>1. NoWork \in [done : Nat, right : BOOLEAN]
    BY DEF NoWork
  <2>2. \A j \in Jobs : (IF j \in Pending THEN work[j] ELSE NoWork) \in [done : Nat, right : BOOLEAN]
    BY <1>1, <2>1 DEF Works
  <2> QED
    BY <2>2 DEF OldWork, Works
<1>4. OldLens \in [Jobs -> EEA3Lens \cup EIA3Lens \cup {0}]
  BY <1>1 DEF OldLens
<1>5. ASSUME NEW l \in Busy(ooo)
      PROVE  /\ OldWork[ooo.job_in_lane[l]] = work[ooo.job_in_lane[l]]
             /\ OldLens[ooo.job_in_lane[l]] = msg_len[ooo.job_in_lane[l]]
  <2>1. ooo.job_in_lane[l] \in Jobs /\ ooo.job_in_lane[l] \in Pending
    BY <1>2 DEF Busy, Pending
  <2> QED
    BY <2>1 DEF OldWork, OldLens
<1>6. \A j \in Jobs \ Pending : OldWork[j] = [done |-> 0, right |-> TRUE]
  BY DEF OldWork, NoWork
<1> QED
  BY <1>3, <1>4, <1>5, <1>6

LEMMA TakeFields ==
  ASSUME ooo \in Mgr, NEW j \in Jobs, NEW n \in 0 .. UINT16_MAX, NEW lane \in Lanes,
         Tail(ooo.unused_lanes) \in Seq(Lanes)
  PROVE  LET m == Take(j, n, lane) IN
         /\ m \in Mgr
         /\ m.unused_lanes = Tail(ooo.unused_lanes)
         /\ m.init_not_done = ooo.init_not_done \cup {lane}
         /\ m.state = ooo.state /\ m.prev_ks = ooo.prev_ks
         /\ \A l \in Lanes :
              /\ m.job_in_lane[l] = IF l = lane THEN j ELSE ooo.job_in_lane[l]
              /\ m.lens[l] = IF l = lane THEN n ELSE ooo.lens[l]
              /\ m.in[l] = IF l = lane THEN [job |-> j, off |-> 0] ELSE ooo.in[l]
<1> DEFINE buf  == [job |-> j, off |-> 0]
           U    == Tail(ooo.unused_lanes)
           J    == [ooo.job_in_lane EXCEPT ![lane] = j]
           I    == ooo.init_not_done \cup {lane}
           L    == [ooo.lens EXCEPT ![lane] = n]
           A    == [ooo.in EXCEPT ![lane] = buf]
           m    == [ooo EXCEPT !.unused_lanes = U, !.job_in_lane = J, !.init_not_done = I, !.lens = L, !.in = A]
<1>1. /\ ooo.job_in_lane \in [Lanes -> Jobs \cup {NULL}]
      /\ ooo.init_not_done \in SUBSET Lanes /\ ooo.lens \in [Lanes -> 0 .. UINT16_MAX]
      /\ ooo.in \in [Lanes -> [job : Jobs \cup {NULL}, off : Nat]]
  BY MgrFields
<1>2. Take(j, n, lane) = m
  BY DEF Take
<1>3. buf \in [job : Jobs \cup {NULL}, off : Nat]
  OBVIOUS
<1> HIDE DEF buf
<1>4. /\ U \in Seq(Lanes) /\ J \in [Lanes -> Jobs \cup {NULL}] /\ I \in SUBSET Lanes
      /\ L \in [Lanes -> 0 .. UINT16_MAX] /\ A \in [Lanes -> [job : Jobs \cup {NULL}, off : Nat]]
  BY <1>1, <1>3
<1>5. \A l \in Lanes : /\ J[l] = IF l = lane THEN j ELSE ooo.job_in_lane[l]
                       /\ L[l] = IF l = lane THEN n ELSE ooo.lens[l]
                       /\ A[l] = IF l = lane THEN buf ELSE ooo.in[l]
  BY <1>1
<1> HIDE DEF U, J, I, L, A
<1>6. /\ m \in Mgr /\ m.unused_lanes = U /\ m.job_in_lane = J /\ m.init_not_done = I /\ m.lens = L
      /\ m.in = A /\ m.state = ooo.state /\ m.prev_ks = ooo.prev_ks
  BY <1>4 DEF Mgr
<1> HIDE DEF m
<1> QED
  BY <1>2, <1>5, <1>6 DEF U, I, buf

\* The new job is in a lane that had none, with all of its message to do.
LEMMA TakeSound ==
  ASSUME LanesInv, NEW j \in Jobs \ Pending, NEW n \in AlgLens(alg)
  PROVE  LET lane == Head(ooo.unused_lanes)
             m    == Take(j, n, lane)
         IN  /\ lane \in Lanes /\ ooo.job_in_lane[lane] = NULL
             /\ m.job_in_lane = [k \in Lanes |-> IF k = lane THEN j ELSE ooo.job_in_lane[k]]
             /\ Sound(alg, m, OldWork, [OldLens EXCEPT ![j] = n])
<1> DEFINE lane == Head(ooo.unused_lanes)
           m    == Take(j, n, lane)
           M    == [OldLens EXCEPT ![j] = n]
<1>1. /\ ooo \in Mgr /\ ooo.unused_lanes \in Seq(Lanes) /\ ooo.unused_lanes # <<>>
      /\ IsInjective(ooo.unused_lanes) /\ Range(ooo.unused_lanes) = Lanes \ Busy(ooo)
      /\ ooo.init_not_done \subseteq Busy(ooo)
      /\ ooo.job_in_lane \in [Lanes -> Jobs \cup {NULL}]
  BY MgrFields DEF LanesInv, Sound
<1>2. /\ lane \in Lanes /\ lane \notin Busy(ooo)
      /\ Tail(ooo.unused_lanes) \in Seq(Lanes) /\ IsInjective(Tail(ooo.unused_lanes))
      /\ Range(Tail(ooo.unused_lanes)) = (Lanes \ Busy(ooo)) \ {lane}
  BY <1>1, PopFacts
<1>3. n \in Nat /\ n >= 1 /\ n <= 65504 /\ n \in EEA3Lens \cup EIA3Lens
  BY LensFacts
<1>4. n \in 0 .. UINT16_MAX
  BY <1>3, WordFacts
<1> HIDE DEF lane
<1>5. /\ m \in Mgr /\ m.unused_lanes = Tail(ooo.unused_lanes)
      /\ m.init_not_done = ooo.init_not_done \cup {lane}
      /\ m.state = ooo.state /\ m.prev_ks = ooo.prev_ks
      /\ \A l \in Lanes : /\ m.job_in_lane[l] = IF l = lane THEN j ELSE ooo.job_in_lane[l]
                          /\ m.lens[l] = IF l = lane THEN n ELSE ooo.lens[l]
                          /\ m.in[l] = IF l = lane THEN [job |-> j, off |-> 0] ELSE ooo.in[l]
  BY <1>1, <1>2, <1>4, TakeFields
<1>6. /\ OldWork \in Works /\ M \in [Jobs -> EEA3Lens \cup EIA3Lens \cup {0}]
      /\ M[j] = n /\ \A i \in Jobs \ {j} : M[i] = OldLens[i]
  BY <1>3, OldFacts
<1> HIDE DEF m, M
<1>7. Busy(m) = Busy(ooo) \cup {lane} /\ \A l \in Busy(ooo) : l # lane /\ ooo.job_in_lane[l] \in Jobs \ {j}
  <2>1. j # NULL
    BY LanesAssumption
  <2>2. \A l \in Busy(ooo) : l # lane /\ ooo.job_in_lane[l] \in Jobs \ {j}
    BY <1>1, <1>2 DEF Busy, Pending
  <2>3. \A l \in Lanes : l \in Busy(m) <=> (l \in Busy(ooo) \/ l = lane)
    BY <1>5, <2>1 DEF Busy
  <2>4. Busy(m) \subseteq Lanes /\ Busy(ooo) \subseteq Lanes
    BY DEF Busy
  <2> QED
    BY <1>2, <2>2, <2>3, <2>4
<1>8. \A l, k \in Busy(m) : m.job_in_lane[l] = m.job_in_lane[k] => l = k
  <2>1. \A l, k \in Busy(ooo) : ooo.job_in_lane[l] = ooo.job_in_lane[k] => l = k
    BY DEF LanesInv, Sound
  <2>2. \A l \in Busy(ooo) : l \in Lanes
    BY DEF Busy
  <2> QED
    BY <1>2, <1>5, <1>7, <2>1, <2>2
<1>9. ASSUME NEW l \in Busy(ooo) PROVE LaneOk(alg, m, OldWork, M, l)
  <2>1. LaneOk(alg, ooo, work, msg_len, l) /\ l \in Lanes /\ l # lane
    BY <1>7 DEF LanesInv, Sound, Busy
  <2>2. /\ OldWork[ooo.job_in_lane[l]] = work[ooo.job_in_lane[l]]
        /\ M[ooo.job_in_lane[l]] = msg_len[ooo.job_in_lane[l]]
    BY <1>6, <1>7, OldFacts
  <2>3. /\ m.job_in_lane[l] = ooo.job_in_lane[l] /\ m.lens[l] = ooo.lens[l] /\ m.in[l] = ooo.in[l]
        /\ m.state[l] = ooo.state[l] /\ m.prev_ks[l] = ooo.prev_ks[l]
        /\ (l \in m.init_not_done <=> l \in ooo.init_not_done)
    BY <1>5, <2>1
  <2> QED
    BY <2>1, <2>2, <2>3, AlikeOk
<1>10. LaneOk(alg, m, OldWork, M, lane)
  <2>1. OldWork[j].done = 0 /\ OldWork[j].right = TRUE
    BY OldFacts
  <2>2. /\ m.job_in_lane[lane] = j /\ m.lens[lane] = n /\ lane \in m.init_not_done
        /\ m.in[lane].job = j /\ m.in[lane].off = 0
    BY <1>2, <1>5
  <2>3. GoesOn(alg, m, OldWork, lane, 0)
    BY <2>1, <2>2 DEF GoesOn
  <2>4. 0 + n = n /\ n # 0 /\ 0 \in Nat
    BY <1>3
  <2> QED
    BY <1>6, <2>1, <2>2, <2>3, <2>4 DEF LaneOk
<1>11. Sound(alg, m, OldWork, M)
  <2>1. Range(m.unused_lanes) = Lanes \ Busy(m)
    BY <1>2, <1>5, <1>7
  <2>2. m.init_not_done \subseteq Busy(m)
    BY <1>1, <1>5, <1>7
  <2>3. \A l \in Busy(m) : LaneOk(alg, m, OldWork, M, l)
    BY <1>7, <1>9, <1>10
  <2> QED
    BY <1>2, <1>5, <1>6, <1>8, <2>1, <2>2, <2>3 DEF Sound
<1>12. m.job_in_lane = [k \in Lanes |-> IF k = lane THEN j ELSE ooo.job_in_lane[k]]
  <2>1. m.job_in_lane \in [Lanes -> Jobs \cup {NULL}]
    BY <1>5, MgrFields
  <2> QED
    BY <1>5, <2>1
<1>13. ooo.job_in_lane[lane] = NULL
  BY <1>2 DEF Busy
<1> QED
  BY <1>2, <1>11, <1>12, <1>13 DEF m, M, lane

\* What a kernel finds: a lane with a job is the shortest and has something left, and
\* the lanes without one look like it.
Prepared(a, m, w, M, idx) ==
  /\ Sound(a, m, w, M)
  /\ idx \in Busy(m) /\ m.lens[idx] # 0
  /\ \A l \in Busy(m) : m.lens[idx] <= m.lens[l]
  /\ \A l \in Lanes \ Busy(m) : m.lens[l] = UINT16_MAX /\ m.in[l] = m.in[idx]

LEMMA FlushSound ==
  ASSUME LanesInv, Pending # {},
         NEW L, L = [l \in Lanes |-> IF ooo.job_in_lane[l] = NULL THEN UINT16_MAX ELSE ooo.lens[l]]
  PROVE  LET m == [ooo EXCEPT !.lens = L] IN
         /\ m.job_in_lane = ooo.job_in_lane /\ m.lens = L /\ m.unused_lanes = ooo.unused_lanes
         /\ Sound(alg, m, OldWork, OldLens)
         /\ MinLane(L) \in Busy(m)
         /\ \A l \in Busy(m) : L[MinLane(L)] <= L[l]
<1> DEFINE m == [ooo EXCEPT !.lens = L]
<1>1. /\ ooo \in Mgr /\ IsInjective(ooo.unused_lanes) /\ Range(ooo.unused_lanes) = Lanes \ Busy(ooo)
      /\ ooo.init_not_done \subseteq Busy(ooo)
      /\ \A l, k \in Busy(ooo) : ooo.job_in_lane[l] = ooo.job_in_lane[k] => l = k
      /\ ooo.job_in_lane \in [Lanes -> Jobs \cup {NULL}] /\ ooo.lens \in [Lanes -> 0 .. UINT16_MAX]
  BY MgrFields DEF LanesInv, Sound
<1>2. L \in [Lanes -> 0 .. UINT16_MAX]
  BY <1>1, WordFacts
<1>3. /\ m \in Mgr /\ m.lens = L /\ m.unused_lanes = ooo.unused_lanes /\ m.job_in_lane = ooo.job_in_lane
      /\ m.init_not_done = ooo.init_not_done /\ m.in = ooo.in /\ m.state = ooo.state
      /\ m.prev_ks = ooo.prev_ks
  BY <1>1, <1>2 DEF Mgr
<1> HIDE DEF m
<1>4. Busy(m) = Busy(ooo)
  BY <1>3 DEF Busy
<1>5. OldWork \in Works /\ OldLens \in [Jobs -> EEA3Lens \cup EIA3Lens \cup {0}]
  BY OldFacts
<1>6. ASSUME NEW l \in Busy(m) PROVE LaneOk(alg, m, OldWork, OldLens, l) /\ L[l] = ooo.lens[l]
  <2>1. LaneOk(alg, ooo, work, msg_len, l) /\ l \in Busy(ooo)
    BY <1>4 DEF LanesInv, Sound
  <2>2. L[l] = ooo.lens[l]
    BY <2>1 DEF Busy
  <2> QED
    BY <1>3, <2>1, <2>2, OldFacts, AlikeOk
<1>7. Sound(alg, m, OldWork, OldLens)
  BY <1>1, <1>3, <1>4, <1>5, <1>6 DEF Sound
<1>8. MinLane(L) \in Lanes /\ \A k \in Lanes : L[MinLane(L)] <= L[k]
  BY <1>2, MinLaneIsLeast
<1>9. MinLane(L) \in Busy(m)
  <2>1. PICK k \in Lanes : k \in Busy(m)
    BY <1>4 DEF Pending, Busy
  <2>2. L[k] < UINT16_MAX /\ L[k] \in Nat
    BY <1>3, <1>7, <2>1, LensOfBusy
  <2>3. L[MinLane(L)] \in Nat /\ L[MinLane(L)] <= L[k]
    <3>1. L \in [Lanes -> Nat]
      BY <1>2, WordFacts
    <3> QED
      BY <1>8, <2>1, <3>1
  <2>4. L[MinLane(L)] # UINT16_MAX
    <3>1. UINT16_MAX \in Nat
      BY WordFacts
    <3> QED
      BY <2>2, <2>3, <3>1
  <2> QED
    BY <1>4, <1>8, <2>4 DEF Busy
<1> QED
  BY <1>3, <1>7, <1>8, <1>9 DEF Busy, m

LEMMA FlushPrepared ==
  ASSUME NEW a, NEW m, NEW w, NEW M, Sound(a, m, w, M), NEW idx \in Busy(m), m.lens[idx] # 0,
         \A l \in Busy(m) : m.lens[idx] <= m.lens[l],
         \A l \in Lanes \ Busy(m) : m.lens[l] = UINT16_MAX,
         NEW null, null = Lanes \ Busy(m)
  PROVE  LET g == WithGoodLane(m, null, idx) IN
         /\ Prepared(a, g, w, M, idx)
         /\ g.job_in_lane = m.job_in_lane /\ g.lens = m.lens
<1> DEFINE A == [l \in Lanes |-> IF l \in null THEN m.in[idx] ELSE m.in[l]]
           g == WithGoodLane(m, null, idx)
<1>1. m \in Mgr /\ m.in \in [Lanes -> [job : Jobs \cup {NULL}, off : Nat]] /\ idx \in Lanes
  BY MgrFields DEF Sound, Busy
<1>2. A \in [Lanes -> [job : Jobs \cup {NULL}, off : Nat]]
  BY <1>1
<1>3. g = [m EXCEPT !.in = A]
  <2>1. g = [m EXCEPT !.in = [l \in Lanes |-> IF l \in null THEN m.in[idx] ELSE m.in[l]]]
    BY <1>1 DEF WithGoodLane
  <2> QED
    BY <2>1
<1> HIDE DEF A, g
<1>4. /\ g \in Mgr /\ g.lens = m.lens /\ g.unused_lanes = m.unused_lanes /\ g.job_in_lane = m.job_in_lane
      /\ g.init_not_done = m.init_not_done /\ g.in = A /\ g.state = m.state
      /\ g.prev_ks = m.prev_ks
  BY <1>1, <1>2, <1>3 DEF Mgr
<1>5. Busy(g) = Busy(m)
  BY <1>4 DEF Busy
<1>6. ASSUME NEW l \in Busy(g) PROVE LaneOk(a, g, w, M, l)
  <2>1. LaneOk(a, m, w, M, l) /\ l \in Busy(m)
    BY <1>5 DEF Sound
  <2>2. l \in Lanes /\ A[l] = m.in[l]
    BY <2>1 DEF A, Busy
  <2> QED
    BY <1>4, <2>1, <2>2, AlikeOk
<1>7. Sound(a, g, w, M)
  BY <1>4, <1>5, <1>6 DEF Sound
<1>8. \A l \in Lanes \ Busy(g) : g.in[l] = g.in[idx]
  BY <1>1, <1>4, <1>5 DEF A
<1> QED
  BY <1>4, <1>5, <1>7, <1>8 DEF Prepared, g

---------------------------------------------------------------------------
(* The job that is done *)

\* What was read belongs to jobs in lanes.
ReadsOk(a, m, M, R) ==
  \A r \in R :
    /\ r \in [job : Jobs \cup {NULL}, to : Nat]
    /\ \E l \in Busy(m) : r.job = m.job_in_lane[l]
    /\ r.to <= IF a = "EEA3" THEN M[r.job] ELSE (M[r.job] + 7) \div 8

Kept ==
  /\ LanesInv'
  /\ KernelStaysInBuffers'
  /\ Short(alg') => ReturnedJobIsWhole'

\* The manager m without the job of lane idx
LEMMA FinishFields ==
  ASSUME NEW m \in Mgr, NEW idx \in Lanes, Finish(m, idx),
         IsInjective(m.unused_lanes), idx \notin Range(m.unused_lanes)
  PROVE  /\ ret' = m.job_in_lane[idx] /\ ooo' \in Mgr
         /\ ooo'.unused_lanes = <<idx>> \o m.unused_lanes
         /\ ooo'.init_not_done = m.init_not_done /\ ooo'.lens = m.lens /\ ooo'.in = m.in
         /\ ooo'.job_in_lane = [l \in Lanes |-> IF l = idx THEN NULL ELSE m.job_in_lane[l]]
         /\ \A l \in Lanes : ooo'.job_in_lane[l] # NULL =>
              ooo'.state[l] = m.state[l] /\ ooo'.prev_ks[l] = m.prev_ks[l]
<1> DEFINE J == [m.job_in_lane EXCEPT ![idx] = NULL]
           U == <<idx>> \o m.unused_lanes
           S == [l \in Lanes |-> IF J[l] = NULL THEN NoState ELSE m.state[l]]
           P == [l \in Lanes |-> IF J[l] = NULL THEN NoWords ELSE m.prev_ks[l]]
           n == [m EXCEPT !.job_in_lane = J, !.unused_lanes = U, !.state = S, !.prev_ks = P]
<1>1. ret' = m.job_in_lane[idx] /\ ooo' = n
  BY DEF Finish
<1>2. /\ m.unused_lanes \in Seq(Lanes) /\ m.job_in_lane \in [Lanes -> Jobs \cup {NULL}]
      /\ m.state \in [Lanes -> [job : Jobs \cup {NULL}, made : Nat]]
      /\ m.prev_ks \in [Lanes -> Seq(Int)]
  BY MgrFields
<1>3. J \in [Lanes -> Jobs \cup {NULL}] /\ J = [l \in Lanes |-> IF l = idx THEN NULL ELSE m.job_in_lane[l]]
  BY <1>2
<1>4. U \in Seq(Lanes)
  BY <1>2, PushFacts
<1>5. S \in [Lanes -> [job : Jobs \cup {NULL}, made : Nat]]
      /\ \A l \in Lanes : J[l] # NULL => S[l] = m.state[l]
  <2>1. NoState \in [job : Jobs \cup {NULL}, made : Nat]
    BY DEF NoState
  <2> HIDE DEF J
  <2> QED
    BY <1>2, <2>1
<1>6. P \in [Lanes -> Seq(Int)] /\ \A l \in Lanes : J[l] # NULL => P[l] = m.prev_ks[l]
  <2>1. NoWords \in Seq(Int)
    BY DEF NoWords, Garbage
  <2> HIDE DEF J
  <2> QED
    BY <1>2, <2>1
<1> HIDE DEF J, U, S, P
<1>7. /\ n \in Mgr /\ n.unused_lanes = U /\ n.job_in_lane = J /\ n.init_not_done = m.init_not_done
      /\ n.lens = m.lens /\ n.in = m.in /\ n.state = S /\ n.prev_ks = P
  BY <1>3, <1>4, <1>5, <1>6 DEF Mgr
<1> HIDE DEF n
<1> QED
  BY <1>1, <1>3, <1>5, <1>6, <1>7 DEF U

LEMMA FinishStep ==
  ASSUME NEW a \in {"EEA3", "EIA3"}, NEW m, NEW w, NEW M, Sound(a, m, w, M),
         NEW idx \in Busy(m), m.lens[idx] = 0,
         Finish(m, idx), alg' = a, work' = w, msg_len' = M, ReadsOk(a, m, M, read')
  PROVE  Kept /\ Ooo!Return(m.job_in_lane, idx)
<1>1. /\ m \in Mgr /\ w \in Works /\ M \in [Jobs -> EEA3Lens \cup EIA3Lens \cup {0}]
      /\ IsInjective(m.unused_lanes) /\ Range(m.unused_lanes) = Lanes \ Busy(m)
      /\ m.init_not_done \subseteq Busy(m)
      /\ \A l, k \in Busy(m) : m.job_in_lane[l] = m.job_in_lane[k] => l = k
      /\ m.unused_lanes \in Seq(Lanes) /\ m.job_in_lane \in [Lanes -> Jobs \cup {NULL}]
  BY MgrFields DEF Sound
<1>2. idx \in Lanes /\ idx \notin Range(m.unused_lanes) /\ m.job_in_lane[idx] \in Jobs
  BY <1>1 DEF Busy
<1> DEFINE n == ooo'
           d == m.job_in_lane[idx]
<1>3. /\ ret' = d /\ n \in Mgr
      /\ n.unused_lanes = <<idx>> \o m.unused_lanes
      /\ n.init_not_done = m.init_not_done /\ n.lens = m.lens /\ n.in = m.in
      /\ n.job_in_lane = [l \in Lanes |-> IF l = idx THEN NULL ELSE m.job_in_lane[l]]
      /\ \A l \in Lanes : n.job_in_lane[l] # NULL =>
           n.state[l] = m.state[l] /\ n.prev_ks[l] = m.prev_ks[l]
  BY <1>1, <1>2, FinishFields
<1>4. ooo' = n
  OBVIOUS
<1> HIDE DEF n, d
<1>5. Busy(n) = Busy(m) \ {idx} /\ \A l \in Lanes \ {idx} : n.job_in_lane[l] = m.job_in_lane[l]
  BY <1>3 DEF Busy
<1>6. /\ <<idx>> \o m.unused_lanes \in Seq(Lanes) /\ <<idx>> \o m.unused_lanes # <<>>
      /\ IsInjective(<<idx>> \o m.unused_lanes)
      /\ Range(<<idx>> \o m.unused_lanes) = Range(m.unused_lanes) \cup {idx}
  BY <1>1, <1>2, PushFacts
<1>7. LaneOk(a, m, w, M, idx)
  BY DEF Sound
<1>8. Sound(a, n, w, M)
  <2>1. Range(n.unused_lanes) = Lanes \ Busy(n) /\ IsInjective(n.unused_lanes)
    BY <1>1, <1>2, <1>3, <1>5, <1>6
  <2>2. n.init_not_done \subseteq Busy(n)
    <3>1. idx \notin m.init_not_done
      BY <1>7 DEF LaneOk
    <3> QED
      BY <1>1, <1>3, <1>5, <3>1
  <2>3. \A l, k \in Busy(n) : n.job_in_lane[l] = n.job_in_lane[k] => l = k
    BY <1>1, <1>5 DEF Busy
  <2>4. ASSUME NEW l \in Busy(n) PROVE LaneOk(a, n, w, M, l)
    <3>1. l \in Lanes /\ l \in Busy(m) /\ n.job_in_lane[l] # NULL /\ l # idx
      BY <1>5 DEF Busy
    <3>2. LaneOk(a, m, w, M, l)
      BY <3>1 DEF Sound
    <3>3. n.job_in_lane[l] = m.job_in_lane[l] /\ n.state[l] = m.state[l] /\ n.prev_ks[l] = m.prev_ks[l]
      BY <1>3, <1>5, <3>1
    <3> QED
      BY <1>3, <3>2, <3>3, AlikeOk
  <2> QED
    BY <1>1, <1>3, <2>1, <2>2, <2>3, <2>4 DEF Sound
<1>9. LanesInv'
  <2>1. Sound(alg', ooo', work', msg_len')
    BY <1>4, <1>8
  <2>2. ooo'.unused_lanes # <<>> /\ ret' \in Jobs \cup {NULL} /\ alg' \in {"EEA3", "EIA3"}
    BY <1>2, <1>3, <1>4, <1>6 DEF d
  <2>3. read' \subseteq [job : Jobs \cup {NULL}, to : Nat]
    BY DEF ReadsOk
  <2> QED
    BY <2>1, <2>2, <2>3 DEF LanesInv
<1>10. KernelStaysInBuffers'
  <2> SUFFICES ASSUME NEW r \in read'
               PROVE  /\ r.job \in Pending' \cup ({ret'} \ {NULL})
                      /\ r.to <= IF alg' = "EEA3" THEN msg_len'[r.job] ELSE (msg_len'[r.job] + 7) \div 8
    BY DEF KernelStaysInBuffers
  <2>1. PICK l \in Busy(m) : r.job = m.job_in_lane[l]
    BY DEF ReadsOk
  <2>2. l \in Lanes /\ m.job_in_lane[l] # NULL
    BY DEF Busy
  <2>3. r.job \in Pending' \cup ({ret'} \ {NULL})
    <3>1. CASE l = idx
      BY <1>3, <2>1, <2>2, <3>1 DEF d
    <3>2. CASE l # idx
      <4>1. r.job = ooo'.job_in_lane[l]
        BY <1>4, <1>5, <2>1, <2>2, <3>2
      <4> QED
        BY <2>1, <2>2, <4>1 DEF Pending
    <3> QED
      BY <3>1, <3>2
  <2>4. r.to <= IF alg' = "EEA3" THEN msg_len'[r.job] ELSE (msg_len'[r.job] + 7) \div 8
    BY DEF ReadsOk
  <2> QED
    BY <2>3, <2>4
<1>11. Short(alg') => ReturnedJobIsWhole'
  <2> SUFFICES ASSUME Short(a) PROVE work'[ret'] = [done |-> msg_len'[ret'], right |-> TRUE]
    BY DEF ReturnedJobIsWhole
  <2>1. w[d].done + 0 = M[d] /\ w[d].right
    BY <1>7 DEF LaneOk, d
  <2>2. w[d] \in [done : Nat, right : BOOLEAN]
    BY <1>1, <1>2 DEF Works, d
  <2>3. w[d].done = M[d] /\ w[d].right = TRUE
    BY <2>1, <2>2
  <2>4. w[d] = [done |-> M[d], right |-> TRUE]
    BY <2>2, <2>3
  <2> QED
    BY <1>3, <2>4
<1>12. Ooo!Return(m.job_in_lane, idx)
  <2>1. ooo'.job_in_lane = [k \in Lanes |-> IF k = idx THEN NULL ELSE m.job_in_lane[k]]
    BY <1>3, <1>4
  <2> QED
    BY <1>3, <2>1 DEF Ooo!Return, d
<1> QED
  BY <1>9, <1>10, <1>11, <1>12 DEF Kept

LEMMA WorkedIs ==
  ASSUME NEW w, NEW m, NEW done, NEW right
  PROVE  Worked(w, m, done, right) =
           [j \in Jobs |->
              [done  |-> w[j].done + Sum(done, {k \in Lanes : m.job_in_lane[k] = j}),
               right |-> w[j].right /\ \A l \in Lanes : m.in[l].job = j => right[l]]]
BY Zenon DEF Worked, Sum

\* A kernel adds to each job what its lane has done, and to no other.
LEMMA WorkedFacts ==
  ASSUME NEW m, \A l, k \in Busy(m) : m.job_in_lane[l] = m.job_in_lane[k] => l = k,
         NULL \notin Jobs, NEW w \in Works, NEW done \in [Lanes -> Nat], NEW right,
         NEW v, v = Worked(w, m, done, right)
  PROVE  /\ v \in Works
         /\ \A l \in Busy(m) : m.job_in_lane[l] \in Jobs =>
              /\ v[m.job_in_lane[l]].done = w[m.job_in_lane[l]].done + done[l]
              /\ (w[m.job_in_lane[l]].right /\ \A k \in Lanes : right[k]) => v[m.job_in_lane[l]].right
<1> DEFINE of(j)    == {k \in Lanes : m.job_in_lane[k] = j}
           right_(j) == w[j].right /\ \A l \in Lanes : m.in[l].job = j => right[l]
<1>1. v = [j \in Jobs |-> [done |-> w[j].done + Sum(done, of(j)), right |-> right_(j)]]
  BY WorkedIs
<1>2. \A j \in Jobs : right_(j) \in BOOLEAN
  OBVIOUS
<1>3. ASSUME NEW j \in Jobs
      PROVE  /\ Sum(done, of(j)) \in Nat
             /\ \A l \in Busy(m) : m.job_in_lane[l] = j => Sum(done, of(j)) = done[l]
  <2>1. CASE \E l \in Lanes : m.job_in_lane[l] = j
    <3>1. PICK l \in Lanes : m.job_in_lane[l] = j
      BY <2>1
    <3>2. l \in Busy(m)
      BY <3>1 DEF Busy
    <3>3. of(j) = {l} /\ \A k \in Busy(m) : m.job_in_lane[k] = j => k = l
      BY <3>1, <3>2 DEF Busy
    <3> HIDE DEF of
    <3>4. Sum(done, of(j)) = done[l] /\ done[l] \in Nat
      BY <3>1, <3>3, SumOverOne
    <3> QED
      BY <3>3, <3>4
  <2>2. CASE ~\E l \in Lanes : m.job_in_lane[l] = j
    <3>1. of(j) = {} /\ \A k \in Busy(m) : m.job_in_lane[k] # j
      BY <2>2 DEF Busy
    <3> HIDE DEF of
    <3> QED
      BY <3>1, SumOverNone
  <2> QED
    BY <2>1, <2>2
<1> HIDE DEF of
<1>4. \A j \in Jobs : w[j].done \in Nat
  BY DEF Works
<1>5. \A j \in Jobs : v[j] = [done |-> w[j].done + Sum(done, of(j)), right |-> right_(j)]
  BY <1>1
<1>6. v \in Works
  <2>1. \A j \in Jobs : w[j].done + Sum(done, of(j)) \in Nat
    BY <1>3, <1>4
  <2> HIDE DEF right_
  <2> QED
    BY <1>1, <1>2, <2>1 DEF Works
<1>7. ASSUME NEW l \in Busy(m), m.job_in_lane[l] \in Jobs
      PROVE  /\ v[m.job_in_lane[l]].done = w[m.job_in_lane[l]].done + done[l]
             /\ (w[m.job_in_lane[l]].right /\ \A k \in Lanes : right[k]) => v[m.job_in_lane[l]].right
  <2> DEFINE j == m.job_in_lane[l]
  <2>1. j \in Jobs /\ Sum(done, of(j)) = done[l]
    BY <1>3, <1>7
  <2>2. (w[j].right /\ \A k \in Lanes : right[k]) => right_(j)
    OBVIOUS
  <2> DEFINE r == right_(j)
             s == w[j].done + Sum(done, of(j))
  <2>3. v[j] = [done |-> s, right |-> r]
    BY <1>5, <2>1
  <2> HIDE DEF s, r
  <2>4. v[j].done = s /\ v[j].right = r
    BY <2>3
  <2> QED
    BY <2>1, <2>2, <2>4 DEF s, r
<1> QED
  BY <1>6, <1>7

---------------------------------------------------------------------------
(* What a run of the kernel of EEA3 does to the manager *)

LEMMA InitialisedFields ==
  ASSUME NEW m \in Mgr
  PROVE  LET i == Initialised(m) IN
         /\ i \in Mgr /\ i.unused_lanes = m.unused_lanes /\ i.job_in_lane = m.job_in_lane
         /\ i.init_not_done = m.init_not_done /\ i.lens = m.lens /\ i.in = m.in /\ i.prev_ks = m.prev_ks
         /\ \A l \in Lanes : i.state[l] = IF l \in m.init_not_done
                                          THEN [job |-> m.job_in_lane[l], made |-> 0] ELSE m.state[l]
<1> DEFINE S == [l \in Lanes |-> IF l \in m.init_not_done
                                 THEN [job |-> m.job_in_lane[l], made |-> 0] ELSE m.state[l]]
           i == [m EXCEPT !.state = S]
<1>1. /\ m.job_in_lane \in [Lanes -> Jobs \cup {NULL}]
      /\ m.state \in [Lanes -> [job : Jobs \cup {NULL}, made : Nat]]
  BY MgrFields
<1>2. S \in [Lanes -> [job : Jobs \cup {NULL}, made : Nat]]
  <2>1. \A l \in Lanes : [job |-> m.job_in_lane[l], made |-> 0] \in [job : Jobs \cup {NULL}, made : Nat]
    BY <1>1
  <2> QED
    BY <1>1, <2>1
<1>3. Initialised(m) = i
  BY DEF Initialised
<1>4. \A l \in Lanes : S[l] = IF l \in m.init_not_done
                              THEN [job |-> m.job_in_lane[l], made |-> 0] ELSE m.state[l]
  OBVIOUS
<1> HIDE DEF S
<1>5. /\ i \in Mgr /\ i.unused_lanes = m.unused_lanes /\ i.job_in_lane = m.job_in_lane
      /\ i.init_not_done = m.init_not_done /\ i.lens = m.lens /\ i.in = m.in
      /\ i.prev_ks = m.prev_ks /\ i.state = S
  BY <1>2 DEF Mgr
<1> HIDE DEF i
<1> QED
  BY <1>3, <1>4, <1>5

\* The state of a lane after ZUC_INIT_16
StateDue(m, l) ==
  IF l \in m.init_not_done THEN [job |-> m.job_in_lane[l], made |-> 0] ELSE m.state[l]

\* Each lane with a job has the state its job is due, and the others that of idx.
StatesOf(m, idx, s) ==
  /\ s \in Mgr /\ s.unused_lanes = m.unused_lanes /\ s.job_in_lane = m.job_in_lane
  /\ s.init_not_done = {} /\ s.lens = m.lens /\ s.in = m.in /\ s.prev_ks = m.prev_ks
  /\ \A l \in Lanes : s.state[l] = StateDue(m, IF m.job_in_lane[l] = NULL THEN idx ELSE l)

LEMMA StatesFields ==
  ASSUME NEW m \in Mgr, NEW idx \in Lanes, NEW s,
         s = [Initialised(m) EXCEPT !.init_not_done = {},
                !.state = [l \in Lanes |-> IF m.job_in_lane[l] = NULL THEN @[idx] ELSE @[l]]]
  PROVE  StatesOf(m, idx, s)
<1> DEFINE i    == Initialised(m)
           S    == [l \in Lanes |-> IF m.job_in_lane[l] = NULL THEN i.state[idx] ELSE i.state[l]]
           none == {}
<1>1. /\ i \in Mgr /\ i.unused_lanes = m.unused_lanes /\ i.job_in_lane = m.job_in_lane
      /\ i.lens = m.lens /\ i.in = m.in /\ i.prev_ks = m.prev_ks
      /\ \A l \in Lanes : i.state[l] = IF l \in m.init_not_done
                                       THEN [job |-> m.job_in_lane[l], made |-> 0] ELSE m.state[l]
  BY InitialisedFields
<1>2. s = [i EXCEPT !.init_not_done = none, !.state = S]
  OBVIOUS
<1> HIDE DEF i
<1>3. S \in [Lanes -> [job : Jobs \cup {NULL}, made : Nat]]
  <2>1. i.state \in [Lanes -> [job : Jobs \cup {NULL}, made : Nat]]
    BY <1>1, MgrFields
  <2> QED
    BY <2>1
<1>4. \A l \in Lanes : S[l] = IF m.job_in_lane[l] = NULL THEN i.state[idx] ELSE i.state[l]
  OBVIOUS
<1>5. none \in SUBSET Lanes
  OBVIOUS
<1> HIDE DEF S, none
<1>6. /\ s \in Mgr /\ s.unused_lanes = i.unused_lanes /\ s.job_in_lane = i.job_in_lane
      /\ s.init_not_done = none /\ s.lens = i.lens /\ s.in = i.in
      /\ s.prev_ks = i.prev_ks /\ s.state = S
  BY <1>1, <1>2, <1>3, <1>5 DEF Mgr
<1> QED
  BY <1>1, <1>4, <1>6 DEF none, StatesOf, StateDue

LEMMA RoundUpToWords ==
  ASSUME NEW n \in Nat
  PROVE  \E q \in Nat : RoundUp(n, 4) = 4 * q /\ n <= 4 * q /\ 4 * q <= n + 3
<1>1. RoundUp(n, 4) = n + ((-n) % 4)
  BY DEF RoundUp
<1>2. \E q \in Nat : n + ((-n) % 4) = 4 * q /\ n <= 4 * q /\ 4 * q <= n + 3
  <2>1. (n + 3) \div 4 \in Nat /\ n + ((-n) % 4) = 4 * ((n + 3) \div 4)
        /\ n <= 4 * ((n + 3) \div 4) /\ 4 * ((n + 3) \div 4) <= n + 3
    OBVIOUS
  <2> QED
    BY <2>1
<1> QED
  BY <1>1, <1>2

\* The state of a lane that goes on is that of its job, at the word due there.
LEMMA StateOfBusy ==
  ASSUME NEW m \in Mgr, NEW w, NEW l \in Lanes, NEW b \in Nat, GoesOn("EEA3", m, w, l, b),
         m.in[l].job = m.job_in_lane[l], NEW state, state = StateDue(m, l)
  PROVE  /\ state = [job |-> m.in[l].job, made |-> m.in[l].off]
         /\ state.job = m.job_in_lane[l] /\ state.made = 4 * b
<1>1. m.in[l].off = 4 * b
  BY DEF GoesOn
<1>2. CASE l \in m.init_not_done
  <2>1. b = 0 /\ 4 * b = 0
    BY <1>2 DEF GoesOn
  <2>2. state = [job |-> m.job_in_lane[l], made |-> 0]
    BY <1>2 DEF StateDue
  <2> QED
    BY <1>1, <1>2, <2>1, <2>2
<1>3. CASE l \notin m.init_not_done
  <2>1. m.state[l] \in [job : Jobs \cup {NULL}, made : Nat]
    BY MgrFields
  <2>2. m.state[l].job = m.job_in_lane[l] /\ m.state[l].made = 4 * b
    BY <1>3 DEF GoesOn
  <2>3. m.state[l] = [job |-> m.in[l].job, made |-> m.in[l].off]
    BY <1>1, <2>1, <2>2
  <2> QED
    BY <1>3, <2>2, <2>3 DEF StateDue
<1> QED
  BY <1>2, <1>3

\* What the kernel finds in the lanes and leaves there: x bytes to do, y left, and
\* b words done before.
LEMMA CipherLane ==
  ASSUME NEW x \in Nat, NEW min \in Nat, min <= x, x < 32768, NEW q \in Nat,
         min <= 4 * q, 4 * q <= min + 3, NEW y, y = LeftOf(x, 4 * q)
  PROVE  /\ y \in Nat /\ y <= x /\ x - y \in Nat
         /\ y # 0 => x - y = 4 * q
         /\ x = min => y = 0
<1>1. x \in Nat /\ x <= 65535
  OBVIOUS
<1>2. 4 * q \in Nat /\ 4 * q <= x + 31
  OBVIOUS
<1>3. y \in Nat /\ y <= x /\ (y # 0 => y = x - 4 * q) /\ (x <= 4 * q => y = 0)
  BY <1>1, <1>2, LeftOfFacts
<1> QED
  BY <1>3

LEMMA CipherStep ==
  ASSUME NEW m, NEW w, NEW M, NEW idx, Prepared("EEA3", m, w, M, idx), NEW s,
         StatesOf(m, idx, s)
  PROVE  LET k == Cipher(s, w, m.lens[idx]) IN
         /\ k.ooo.job_in_lane = m.job_in_lane /\ k.ooo.lens[idx] = 0
         /\ Sound("EEA3", k.ooo, k.work, M)
         /\ ReadsOk("EEA3", k.ooo, M, k.read)
<1> DEFINE min   == m.lens[idx]
           words == RoundUp(min, 4)
           len   == [l \in Lanes |-> IF s.lens[l] = UINT16_MAX THEN min ELSE s.lens[l]]
           left  == [l \in Lanes |-> LeftOf(len[l], words)]
           done  == [l \in Lanes |-> len[l] - left[l]]
           in    == [l \in Lanes |-> [s.in[l] EXCEPT !.off = @ + words]]
           state == [l \in Lanes |-> [s.state[l] EXCEPT !.made = @ + words]]
           right == [l \in Lanes |-> s.state[l] = [job |-> s.in[l].job, made |-> s.in[l].off]]
           n     == [s EXCEPT !.lens = left, !.in = in, !.state = state]
           v     == Worked(w, s, done, right)
           R     == {[job |-> s.in[l].job, to |-> s.in[l].off + done[l]] : l \in Lanes}
           k     == Cipher(s, w, min)
<1>1. k.ooo = n /\ k.work = v /\ k.read = R
  BY DEF Cipher
<1>2. /\ m \in Mgr /\ w \in Works /\ M \in [Jobs -> EEA3Lens \cup EIA3Lens \cup {0}]
      /\ IsInjective(m.unused_lanes) /\ Range(m.unused_lanes) = Lanes \ Busy(m)
      /\ \A l, i \in Busy(m) : m.job_in_lane[l] = m.job_in_lane[i] => l = i
      /\ idx \in Busy(m) /\ Sound("EEA3", m, w, M)
  BY DEF Prepared, Sound
<1>3. /\ idx \in Lanes /\ m.job_in_lane \in [Lanes -> Jobs \cup {NULL}]
      /\ m.in \in [Lanes -> [job : Jobs \cup {NULL}, off : Nat]]
      /\ m.state \in [Lanes -> [job : Jobs \cup {NULL}, made : Nat]]
  BY <1>2, MgrFields DEF Busy
<1>4. /\ s \in Mgr /\ s.unused_lanes = m.unused_lanes /\ s.job_in_lane = m.job_in_lane
      /\ s.init_not_done = {} /\ s.lens = m.lens /\ s.in = m.in /\ s.prev_ks = m.prev_ks
      /\ \A l \in Lanes : s.state[l] = StateDue(m, IF m.job_in_lane[l] = NULL THEN idx ELSE l)
  BY DEF StatesOf
<1>5. \A l \in Busy(m) :
        /\ l \in Lanes /\ m.job_in_lane[l] \in Jobs /\ m.lens[l] \in Nat /\ m.lens[l] < 32768
        /\ m.lens[l] # UINT16_MAX /\ min <= m.lens[l]
        /\ M[m.job_in_lane[l]] \in AlgLens("EEA3")
  <2>1. Short("EEA3")
    BY DEF Short
  <2>2. UINT16_MAX \in Nat
    BY WordFacts
  <2> QED
    BY <1>2, <2>1, <2>2, LensOfBusy DEF Prepared
<1>6. min \in Nat /\ min # 0
  BY <1>2, <1>5 DEF Prepared
<1>7. PICK q \in Nat : words = 4 * q /\ min <= 4 * q /\ 4 * q <= min + 3
  BY <1>6, RoundUpToWords
<1>8. ASSUME NEW l \in Busy(m)
      PROVE  \E b \in Nat : /\ GoesOn("EEA3", m, w, l, b) /\ m.in[l].job = m.job_in_lane[l]
                            /\ w[m.job_in_lane[l]].done + m.lens[l] = M[m.job_in_lane[l]]
                            /\ w[m.job_in_lane[l]].right
  <2>1. LaneOk("EEA3", m, w, M, l)
    BY <1>2 DEF Sound
  <2>2. m.lens[l] # 0
    BY <1>5, <1>6
  <2> QED
    BY <2>1, <2>2 DEF LaneOk, Short
<1> HIDE DEF min, words, n, v, R, k
<1>9. ASSUME NEW l \in Lanes
      PROVE  \E i \in Busy(m) : /\ (l \in Busy(m) => i = l) /\ (l \notin Busy(m) => i = idx)
                                /\ m.in[l] = m.in[i] /\ len[l] = m.lens[i]
                                /\ s.state[l] = StateDue(m, i)
  <2>1. CASE l \in Busy(m)
    <3>1. m.job_in_lane[l] # NULL
      BY <2>1 DEF Busy
    <3>2. len[l] = m.lens[l]
      BY <1>4, <1>5, <2>1
    <3> QED
      BY <1>4, <2>1, <3>1, <3>2
  <2>2. CASE l \notin Busy(m)
    <3>1. m.job_in_lane[l] = NULL
      BY <2>2 DEF Busy
    <3>2. m.lens[l] = UINT16_MAX /\ m.in[l] = m.in[idx]
      BY <2>2 DEF Prepared
    <3>3. len[l] = m.lens[idx]
      BY <1>4, <3>2 DEF min
    <3> QED
      BY <1>2, <1>4, <2>2, <3>1, <3>2, <3>3
  <2> QED
    BY <2>1, <2>2
<1>10. ASSUME NEW l \in Lanes
       PROVE  /\ len[l] \in Nat /\ left[l] \in Nat /\ left[l] <= len[l] /\ done[l] \in Nat
              /\ left[l] \in 0 .. UINT16_MAX
              /\ right[l]
              /\ [job |-> s.in[l].job, to |-> s.in[l].off + done[l]] \in [job : Jobs \cup {NULL}, to : Nat]
              /\ \E i \in Busy(m) : s.in[l].job = m.job_in_lane[i]
              /\ s.in[l].off + done[l] <= M[s.in[l].job]
  <2>1. PICK i \in Busy(m) : /\ m.in[l] = m.in[i] /\ len[l] = m.lens[i]
                             /\ s.state[l] = StateDue(m, i)
    BY <1>9
  <2>2. PICK b \in Nat : /\ GoesOn("EEA3", m, w, i, b) /\ m.in[i].job = m.job_in_lane[i]
                         /\ w[m.job_in_lane[i]].done + m.lens[i] = M[m.job_in_lane[i]]
    BY <1>8
  <2>3. s.state[l] = [job |-> m.in[i].job, made |-> m.in[i].off]
    BY <1>2, <1>5, <2>1, <2>2, StateOfBusy
  <2>4. right[l]
    BY <1>4, <2>1, <2>3
  <2> DEFINE x == m.lens[i]
             y == LeftOf(x, 4 * q)
  <2>5. x \in Nat /\ x < 32768 /\ min <= x
    BY <1>5
  <2>6. y \in Nat /\ y <= x /\ x - y \in Nat
    <3>1. y = LeftOf(x, 4 * q)
      OBVIOUS
    <3> HIDE DEF x, y
    <3> QED
      BY <1>6, <1>7, <2>5, <3>1, CipherLane
  <2>7. len[l] = x /\ left[l] = y /\ done[l] = x - y
    BY <1>7, <2>1
  <2> HIDE DEF len, left, done, y
  <2>8. y \in 0 .. UINT16_MAX
    <3> HIDE DEF x
    <3>1. y \in Nat /\ y < 65535
      BY <2>5, <2>6
    <3> QED
      BY <3>1, WordFacts
  <2>9. /\ s.in[l].job = m.job_in_lane[i] /\ s.in[l].job \in Jobs /\ s.in[l].off = 4 * b
        /\ w[m.job_in_lane[i]].done = 4 * b
    BY <1>4, <1>5, <2>1, <2>2 DEF GoesOn
  <2>10. s.in[l].off + done[l] \in Nat /\ s.in[l].off + done[l] <= M[s.in[l].job]
    <3> DEFINE t == M[s.in[l].job]
    <3>1. 4 * b + x = t
      BY <2>2, <2>9
    <3> HIDE DEF x, t
    <3>2. 4 * b + (x - y) \in Nat /\ 4 * b + (x - y) <= t
      BY <2>5, <2>6, <3>1
    <3> QED
      BY <2>7, <2>9, <3>2 DEF t
  <2> HIDE DEF right
  <2> QED
    BY <2>4, <2>5, <2>6, <2>7, <2>8, <2>9, <2>10
<1>11. /\ n \in Mgr /\ n.lens = left /\ n.in = in /\ n.state = state
       /\ n.unused_lanes = m.unused_lanes /\ n.job_in_lane = m.job_in_lane /\ n.init_not_done = {}
  <2>1. left \in [Lanes -> 0 .. UINT16_MAX]
    BY <1>10
  <2>2. words \in Nat
    BY <1>7
  <2>3. in \in [Lanes -> [job : Jobs \cup {NULL}, off : Nat]]
    BY <1>3, <1>4, <2>2
  <2>4. state \in [Lanes -> [job : Jobs \cup {NULL}, made : Nat]]
    <3>1. s.state \in [Lanes -> [job : Jobs \cup {NULL}, made : Nat]]
      BY <1>4, MgrFields
    <3> QED
      BY <2>2, <3>1
  <2> HIDE DEF left, in, state
  <2>5. /\ n \in Mgr /\ n.lens = left /\ n.in = in /\ n.state = state
        /\ n.unused_lanes = s.unused_lanes /\ n.job_in_lane = s.job_in_lane
        /\ n.init_not_done = s.init_not_done
    BY <1>4, <2>1, <2>3, <2>4 DEF Mgr, n
  <2> QED
    BY <1>4, <2>5
<1>12. Busy(n) = Busy(m) /\ Busy(s) = Busy(m)
  BY <1>4, <1>11 DEF Busy
<1>13. /\ v \in Works
       /\ \A l \in Busy(m) : /\ v[m.job_in_lane[l]].done = w[m.job_in_lane[l]].done + done[l]
                             /\ w[m.job_in_lane[l]].right => v[m.job_in_lane[l]].right
  <2>1. done \in [Lanes -> Nat] /\ \A l \in Lanes : right[l]
    BY <1>10
  <2> HIDE DEF done, right
  <2>3. NULL \notin Jobs /\ \A l, i \in Busy(s) : s.job_in_lane[l] = s.job_in_lane[i] => l = i
    BY <1>2, <1>4, <1>12, LanesAssumption
  <2>2. /\ v \in Works
        /\ \A l \in Busy(s) : s.job_in_lane[l] \in Jobs =>
             /\ v[s.job_in_lane[l]].done = w[s.job_in_lane[l]].done + done[l]
             /\ (w[s.job_in_lane[l]].right /\ \A i \in Lanes : right[i]) => v[s.job_in_lane[l]].right
    BY <1>2, <2>1, <2>3, WorkedFacts DEF v
  <2> QED
    BY <1>4, <1>5, <1>12, <2>1, <2>2
<1>14. ASSUME NEW l \in Busy(m) PROVE LaneOk("EEA3", n, v, M, l)
  <2>1. PICK b \in Nat : /\ GoesOn("EEA3", m, w, l, b) /\ m.in[l].job = m.job_in_lane[l]
                         /\ w[m.job_in_lane[l]].done + m.lens[l] = M[m.job_in_lane[l]]
                         /\ w[m.job_in_lane[l]].right
    BY <1>8
  <2> DEFINE x == m.lens[l]
             y == LeftOf(x, 4 * q)
             j == m.job_in_lane[l]
             t == M[m.job_in_lane[l]]
             u == w[m.job_in_lane[l]].done
  <2>2. l \in Lanes /\ j \in Jobs /\ x \in Nat /\ x < 32768 /\ min <= x
    BY <1>5
  <2>3. y \in Nat /\ y <= x /\ x - y \in Nat /\ (y # 0 => 4 * b + (x - y) = 4 * (b + q))
    <3>1. y = LeftOf(x, 4 * q)
      OBVIOUS
    <3> HIDE DEF x, y
    <3>2. y \in Nat /\ y <= x /\ x - y \in Nat /\ (y # 0 => x - y = 4 * q)
      BY <1>6, <1>7, <2>2, <3>1, CipherLane
    <3> QED
      BY <2>2, <3>2
  <2>4. n.lens[l] = y /\ done[l] = x - y
    BY <1>4, <1>5, <1>7, <1>11
  <2>5. /\ n.in[l].job = j /\ n.in[l].off = 4 * b + 4 * q
        /\ s.state[l].job = j /\ s.state[l].made = 4 * b
    <3>1. m.in[l].off = 4 * b
      BY <2>1 DEF GoesOn
    <3>2. in[l].job = s.in[l].job /\ in[l].off = s.in[l].off + words
      BY <1>3, <1>4, <2>2
    <3>3. s.state[l].job = j /\ s.state[l].made = 4 * b
      <4>1. s.state[l] = StateDue(m, l)
        BY <1>9, <2>2
      <4> QED
        BY <1>2, <2>1, <2>2, <4>1, StateOfBusy
    <3> HIDE DEF in
    <3> QED
      BY <1>4, <1>7, <1>11, <2>1, <3>1, <3>2, <3>3
  <2>6. n.state[l].job = j /\ n.state[l].made = 4 * b + 4 * q
    <3>1. s.state[l] \in [job : Jobs \cup {NULL}, made : Nat]
      BY <1>4, <2>2, MgrFields
    <3>2. state[l] = [s.state[l] EXCEPT !.made = s.state[l].made + words]
      BY <2>2
    <3> HIDE DEF state
    <3>3. state[l].job = s.state[l].job /\ state[l].made = s.state[l].made + words
      BY <3>1, <3>2
    <3> QED
      BY <1>7, <1>11, <2>5, <3>3
  <2>7. v[j].done = u + (x - y) /\ v[j].right /\ u = 4 * b /\ u + x = t
    <3>1. u = 4 * b
      BY <2>1 DEF GoesOn
    <3> HIDE DEF y
    <3> QED
      BY <1>13, <2>1, <2>4, <3>1
  <2>8. t \in AlgLens("EEA3")
    BY <1>5
  <2>9. j = n.job_in_lane[l] /\ l \notin n.init_not_done
    BY <1>11
  <2> HIDE DEF x, y, t, u
  <2>10. v[j].done + y = t /\ 4 * b + 4 * q = 4 * (b + q) /\ b + q \in Nat
         /\ (y # 0 => v[j].done = 4 * (b + q))
    BY <2>2, <2>3, <2>7
  <2>11. n.lens[l] # 0 => GoesOn("EEA3", n, v, l, b + q)
    <3>1. "EEA3" # "EIA3"
      OBVIOUS
    <3> HIDE DEF j
    <3> QED
      BY <2>4, <2>5, <2>6, <2>9, <2>10, <3>1 DEF GoesOn
  <2> QED
    BY <2>4, <2>5, <2>7, <2>8, <2>9, <2>10, <2>11 DEF LaneOk, t
<1>15. Sound("EEA3", n, v, M)
  <2>1. n.init_not_done \subseteq Busy(n)
    BY <1>11
  <2> QED
    BY <1>2, <1>11, <1>12, <1>13, <1>14, <2>1 DEF Sound
<1>16. n.lens[idx] = 0
  <2>1. left[idx] = LeftOf(min, 4 * q)
    BY <1>2, <1>3, <1>4, <1>5, <1>7 DEF min
  <2>2. LeftOf(min, 4 * q) = 0
    <3>1. min < 32768 /\ min <= min
      BY <1>2, <1>5, <1>6 DEF min
    <3>2. min \in Nat /\ min <= 65535
      BY <1>6, <3>1
    <3>3. 4 * q \in Nat /\ 4 * q <= min + 31 /\ min <= 4 * q
      BY <1>6, <1>7
    <3> QED
      BY <3>2, <3>3, LeftOfFacts
  <2> QED
    BY <1>11, <2>1, <2>2
<1>17. ReadsOk("EEA3", n, M, R)
  <2> SUFFICES ASSUME NEW r \in R
               PROVE  /\ r \in [job : Jobs \cup {NULL}, to : Nat]
                      /\ \E l \in Busy(n) : r.job = n.job_in_lane[l]
                      /\ r.to <= M[r.job]
    BY DEF ReadsOk
  <2>1. PICK l \in Lanes : r = [job |-> s.in[l].job, to |-> s.in[l].off + done[l]]
    BY DEF R
  <2> HIDE DEF done
  <2>2. r.job = s.in[l].job /\ r.to = s.in[l].off + done[l]
    BY <2>1
  <2> QED
    <3>1. [job |-> s.in[l].job, to |-> s.in[l].off + done[l]] \in [job : Jobs \cup {NULL}, to : Nat]
      BY <1>10
    <3>2. \E i \in Busy(m) : s.in[l].job = m.job_in_lane[i]
      BY <1>10
    <3>3. s.in[l].off + done[l] <= M[s.in[l].job]
      BY <1>10
    <3>4. \E i \in Busy(n) : r.job = n.job_in_lane[i]
      BY <1>11, <1>12, <2>2, <3>2
    <3> QED
      BY <2>1, <2>2, <3>1, <3>3, <3>4
<1> QED
  BY <1>1, <1>11, <1>15, <1>16, <1>17 DEF k, min

---------------------------------------------------------------------------
(* What a run of the kernel of EIA3 does to the manager *)

InitOf(m, i) ==
  /\ i \in Mgr /\ i.unused_lanes = m.unused_lanes /\ i.job_in_lane = m.job_in_lane
  /\ i.init_not_done = m.init_not_done /\ i.lens = m.lens /\ i.in = m.in /\ i.prev_ks = m.prev_ks
  /\ \A l \in Lanes : i.state[l] = StateDue(m, l)

LEMMA InitFields ==
  ASSUME NEW m \in Mgr
  PROVE  InitOf(m, Initialised(m))
<1> DEFINE i == Initialised(m)
<1>1. /\ i \in Mgr /\ i.unused_lanes = m.unused_lanes /\ i.job_in_lane = m.job_in_lane
      /\ i.init_not_done = m.init_not_done /\ i.lens = m.lens /\ i.in = m.in /\ i.prev_ks = m.prev_ks
      /\ \A l \in Lanes : i.state[l] = IF l \in m.init_not_done
                                       THEN [job |-> m.job_in_lane[l], made |-> 0] ELSE m.state[l]
  BY InitialisedFields
<1> HIDE DEF i
<1>2. InitOf(m, i)
  BY <1>1 DEF InitOf, StateDue
<1> QED
  BY <1>2 DEF i

\* The common part of all lanes: n rounds, and the words for what is left of it
Common(min, words, n, bits, kept) ==
  /\ words \in Nat /\ n \in Nat /\ bits \in Nat /\ kept \in Nat
  /\ words < 14 => n = 0
  /\ min = 512 * n + bits /\ words = 16 * n + kept /\ kept <= 16
  /\ bits <= 32 * kept /\ 32 * kept <= bits + 31

LEMMA CommonFacts ==
  ASSUME NEW min \in Nat
  PROVE  LET words == RoundUp(min, WORD_BITS) \div WORD_BITS
             n     == IF words < 14 THEN 0 ELSE min \div ROUND
             bits  == min - n * ROUND
             kept  == RoundUp(bits, WORD_BITS) \div WORD_BITS
         IN  Common(min, words, n, bits, kept)
<1> DEFINE up(x) == RoundUp(x, WORD_BITS) \div WORD_BITS
           words == up(min)
           n     == IF words < 14 THEN 0 ELSE min \div ROUND
           bits  == min - n * ROUND
           kept  == up(bits)
<1>1. \A x \in Nat : up(x) \in Nat /\ x <= 32 * up(x) /\ 32 * up(x) <= x + 31
  <2> TAKE x \in Nat
  <2>1. up(x) = (x + ((-x) % 32)) \div 32
    BY DEF RoundUp, WORD_BITS
  <2> HIDE DEF up
  <2> QED
    BY <2>1
<1>2. n = IF words < 14 THEN 0 ELSE min \div 512
  BY DEF ROUND
<1>3. bits = min - n * 512
  BY DEF ROUND
<1>4. words \in Nat /\ min <= 32 * words /\ 32 * words <= min + 31
  BY <1>1
<1> HIDE DEF words
<1>5. n \in Nat /\ (words < 14 => n = 0) /\ (words >= 14 => 512 * n <= min /\ min < 512 * n + 512)
  <2> DEFINE d == min \div 512
  <2>1. d \in Nat /\ 512 * d <= min /\ min < 512 * d + 512
    OBVIOUS
  <2> HIDE DEF d
  <2>2. n = IF words < 14 THEN 0 ELSE d
    BY <1>2 DEF d
  <2> HIDE DEF n
  <2> QED
    BY <1>4, <2>1, <2>2
<1> HIDE DEF n
<1>6. bits \in Nat /\ min = 512 * n + bits /\ (words >= 14 => bits < 512)
  <2> HIDE DEF bits
  <2> QED
    BY <1>3, <1>4, <1>5
<1> HIDE DEF bits
<1>7. kept \in Nat /\ bits <= 32 * kept /\ 32 * kept <= bits + 31
  BY <1>1, <1>6
<1> HIDE DEF kept, up
<1>8. words = 16 * n + kept /\ kept <= 16
  <2>1. words = 16 * n + kept
    <3>1. 32 * words < 32 * (16 * n + kept) + 32 /\ 32 * (16 * n + kept) < 32 * words + 32
      BY <1>4, <1>5, <1>6, <1>7
    <3>2. 16 * n + kept \in Nat
      BY <1>5, <1>7
    <3> DEFINE z == 16 * n + kept
    <3> HIDE DEF z
    <3>3. words = z
      BY <1>4, <3>1, <3>2 DEF z
    <3> QED
      BY <3>3 DEF z
  <2>2. kept <= 16
    BY <1>4, <1>5, <1>6, <1>7, <2>1
  <2> QED
    BY <2>1, <2>2
<1>9. Common(min, words, n, bits, kept)
  BY <1>4, <1>5, <1>6, <1>7, <1>8 DEF Common
<1> QED
  BY <1>9 DEF words, n, bits, kept, up

\* What the kernel finds in the lanes and leaves there: x bits to do, y left.
LEMMA AuthLane ==
  ASSUME NEW min, NEW words, NEW n, NEW bits, NEW kept, Common(min, words, n, bits, kept),
         NEW x \in Nat, min <= x, x < UINT16_MAX,
         NEW y, y = LeftOf(x - n * ROUND, kept * WORD_BITS)
  PROVE  /\ y \in Nat /\ y <= x /\ x - y \in Nat /\ (x - y) - n * ROUND \in Nat
         /\ y # 0 => x - y = 32 * words
         /\ (y # 0 \/ x < 32768) => (x - y) - n * ROUND <= 32 * kept
         /\ x = min => y = 0
<1> DEFINE r == x - 512 * n
           e == 32 * kept
<1>1. /\ words \in Nat /\ n \in Nat /\ bits \in Nat /\ kept \in Nat
      /\ min = 512 * n + bits /\ words = 16 * n + kept
      /\ bits <= e /\ e <= bits + 31
  BY DEF Common
<1>2. r \in Nat /\ e \in Nat /\ r <= x /\ e <= r + 31 /\ bits <= r /\ 32 * words = 512 * n + e
  BY <1>1
<1>3. r <= 65535
  <2>1. UINT16_MAX \in Nat /\ UINT16_MAX <= 65535
    BY WordFacts
  <2> QED
    BY <1>2, <2>1
<1>4. x - n * ROUND = r /\ kept * WORD_BITS = e
  BY <1>1 DEF ROUND, WORD_BITS
<1>5. x = r + 512 * n /\ (x = min => r <= e) /\ n * ROUND = 512 * n
  BY <1>1 DEF ROUND
<1> HIDE DEF r, e
<1>6. y = LeftOf(r, e)
  BY <1>4
<1>7. /\ y \in Nat /\ y <= r /\ (y # 0 => y = r - e)
      /\ (r < 32768 /\ r > e => y = r - e) /\ (r <= e => y = 0)
  <2> DEFINE z == LeftOf(r, e)
  <2>1. /\ z \in Nat /\ z <= r /\ (z # 0 => z = r - e)
        /\ (r < 32768 /\ r > e => z = r - e) /\ (r <= e => z = 0)
    BY <1>2, <1>3, LeftOfFacts
  <2>2. y = z
    BY <1>6
  <2> HIDE DEF z
  <2> QED
    BY <2>1, <2>2
<1> DEFINE q == n * ROUND
<1>8. q = 512 * n
  BY <1>5
<1> HIDE DEF q
<1>9. x \in Nat /\ y \in Nat /\ y <= x /\ x - y \in Nat /\ (x - y) - q \in Nat
  BY <1>1, <1>2, <1>5, <1>7, <1>8
<1>10. e = 32 * kept
  BY DEF e
<1>11. y # 0 => x - y = 32 * words
  <2>1. 32 * words = q + e /\ x = r + q
    BY <1>2, <1>5, <1>8
  <2>2. q \in Int /\ e \in Int /\ r \in Int
    BY <1>1, <1>2, <1>8
  <2>3. (r + q) - (r - e) = q + e
    BY <2>2
  <2> QED
    BY <1>7, <2>1, <2>3
<1>12. (y # 0 \/ x < 32768) => (x - y) - q <= 32 * kept
  BY <1>1, <1>2, <1>5, <1>7, <1>8, <1>10
<1> QED
  BY <1>5, <1>7, <1>9, <1>11, <1>12 DEF q

\* The two words behind the common part are the last ones of the call.
LEMMA LastTwoWords ==
  ASSUME NEW kept \in Nat, NEW k, NEW m, m = kept + 2, Holds(k, 16, m), NEW c, c = k.base + kept
  PROVE  SubSeq(k.slot, kept + 1, kept + 2) = <<c, c + 1>> /\ <<c, c + 1>> \in Seq(Int)
<1>1. /\ k.slot \in Seq(Int) /\ Len(k.slot) = 32 /\ kept + 2 <= 32 /\ k.base \in Nat
      /\ \A t \in 1 .. m : k.slot[t] = k.base + (t - 1)
  <2>1. /\ k.slot \in Seq(Int) /\ Len(k.slot) = 2 * 16 /\ m <= 2 * 16 /\ k.base \in Nat
        /\ \A t \in 1 .. m : k.slot[t] = k.base + (t - 1)
    BY DEF Holds
  <2>2. 2 * 16 = 32
    OBVIOUS
  <2> QED
    BY <2>1, <2>2
<1> DEFINE s == SubSeq(k.slot, kept + 1, kept + 2)
           two == <<c, c + 1>>
<1>2. s \in Seq(Int) /\ Len(s) = 2 /\ s[1] = k.slot[kept + 1] /\ s[2] = k.slot[kept + 2]
  <2>1. /\ s \in Seq(Int) /\ Len(s) = (kept + 2) + 1 - (kept + 1)
        /\ \A t \in 1 .. (kept + 2) + 1 - (kept + 1) : s[t] = k.slot[((kept + 1) + t) - 1]
    <3>1. kept + 1 \in Nat \ {0} /\ kept + 2 \in Nat /\ kept + 2 <= Len(k.slot) /\ kept + 1 <= (kept + 2) + 1
      BY <1>1
    <3> QED
      BY <1>1, <3>1, SliceFacts
  <2> HIDE DEF s
  <2>2. (kept + 2) + 1 - (kept + 1) = 2 /\ ((kept + 1) + 1) - 1 = kept + 1 /\ ((kept + 1) + 2) - 1 = kept + 2
    OBVIOUS
  <2>3. \A t \in 1 .. 2 : s[t] = k.slot[((kept + 1) + t) - 1]
    BY <2>1, <2>2
  <2> QED
    BY <2>1, <2>2, <2>3
<1>3. k.slot[kept + 1] = c /\ k.slot[kept + 2] = c + 1 /\ c \in Int
  <2> DEFINE b == k.base
  <2>1. k.slot[kept + 1] = b + ((kept + 1) - 1) /\ k.slot[kept + 2] = b + ((kept + 2) - 1)
    <3>1. kept + 1 \in 1 .. m /\ kept + 2 \in 1 .. m
      OBVIOUS
    <3> QED
      BY <1>1, <3>1
  <2>2. b \in Nat /\ c = b + kept
    BY <1>1
  <2> HIDE DEF b
  <2>3. c \in Int /\ b + ((kept + 1) - 1) = c /\ b + ((kept + 2) - 1) = c + 1
    BY <2>2
  <2> QED
    BY <2>1, <2>3
<1>4. two \in Seq(Int) /\ Len(two) = 2 /\ two[1] = c /\ two[2] = c + 1
  <2> DEFINE d == c + 1
  <2>1. c \in Int /\ d \in Int
    BY <1>3
  <2> HIDE DEF d
  <2>2. <<c, d>> \in Seq(Int) /\ Len(<<c, d>>) = 2 /\ <<c, d>>[1] = c /\ <<c, d>>[2] = d
    BY <2>1
  <2> QED
    BY <2>2 DEF d
<1> HIDE DEF s, two
<1>5. s = two
  <2>1. \A t \in 1 .. 2 : s[t] = two[t]
    <3>1. \A t \in 1 .. 2 : t = 1 \/ t = 2
      OBVIOUS
    <3> QED
      BY <1>2, <1>3, <1>4, <3>1
  <2>2. DOMAIN s = 1 .. 2 /\ DOMAIN two = 1 .. 2 /\ s = [t \in 1 .. 2 |-> s[t]] /\ two = [t \in 1 .. 2 |-> two[t]]
    BY <1>2, <1>4
  <2> QED
    BY <2>1, <2>2
<1> QED
  BY <1>4, <1>5 DEF s, two

\* The window of a lane that goes on after b words: it holds the words of the call.
LEMMA AuthWindow ==
  ASSUME NEW m \in Mgr, NEW i, InitOf(m, i), NEW w, NEW l \in Lanes, NEW b \in Nat,
         GoesOn("EIA3", m, w, l, b),
         NEW min, NEW words, NEW n, NEW bits, NEW kept, Common(min, words, n, bits, kept),
         NEW k, k = KernelWindow(FirstWords(i, l, i.init_not_done), words, n)
  PROVE  Holds(k, 16, kept + 2) /\ k.base = b + 16 * n
<1> DEFINE f == FirstWords(i, l, i.init_not_done)
<1>1. /\ i.state[l] = StateDue(m, l) /\ i.job_in_lane = m.job_in_lane /\ i.in = m.in
      /\ i.prev_ks = m.prev_ks /\ i.init_not_done = m.init_not_done
  BY DEF InitOf
<1>2. m.in[l].off = 4 * b
  BY DEF GoesOn
<1>3. Holds(f, 16, 2) /\ f.base = b
  <2>1. CASE l \in m.init_not_done
    <3>1. b = 0
      BY <2>1 DEF GoesOn
    <3>2. i.state[l] = [job |-> m.job_in_lane[l], made |-> 0]
      BY <1>1, <2>1 DEF StateDue
    <3>3. i.state[l].job = i.job_in_lane[l] /\ i.state[l].made = 0 /\ i.in[l].off = 0 /\ l \in i.init_not_done
      BY <1>1, <1>2, <2>1, <3>1, <3>2
    <3>4. Holds(f, 16, 2) /\ f.base = 0
      BY <3>3, FirstWordsOfNewJob
    <3> QED
      BY <3>1, <3>4
  <2>2. CASE l \notin m.init_not_done
    <3>1. m.state[l].job = m.job_in_lane[l] /\ m.state[l].made = b + 2 /\ m.prev_ks[l] = <<b, b + 1>>
      <4>1. "EIA3" # "EEA3"
        OBVIOUS
      <4> QED
        BY <2>2, <4>1 DEF GoesOn
    <3>2. i.state[l] = m.state[l]
      BY <1>1, <2>2 DEF StateDue
    <3>3. i.in[l].off \div 4 = b
      <4>1. (4 * b) \div 4 = b
        OBVIOUS
      <4> QED
        BY <1>1, <1>2, <4>1
    <3> QED
      BY <1>1, <2>2, <3>1, <3>2, <3>3, FirstWordsOfOldJob
  <2> QED
    BY <2>1, <2>2
<1>4. k = KernelWindow(f, words, n)
  OBVIOUS
<1> HIDE DEF f
<1>5. words \in Nat /\ n \in Nat /\ (words < 14 => n = 0) /\ words - 16 * n = kept /\ kept \in 0 .. 16
  BY DEF Common
<1>6. words - 16 * n \in 0 .. 16
  BY <1>5
<1>7. /\ Holds(KernelWindow(f, words, n), 16, words - 16 * n + 2)
      /\ KernelWindow(f, words, n).base = f.base + 16 * n
  BY <1>3, <1>5, <1>6, KernelWindowFacts
<1>8. words - 16 * n + 2 = kept + 2
  BY <1>5
<1> QED
  BY <1>3, <1>4, <1>7, <1>8

\* What is read of a job with b words done before and x bits to do.
LEMMA AuthReads ==
  ASSUME NEW b \in Nat, NEW x \in Nat, NEW d \in Nat, d <= x, NEW t, 32 * b + x = t
  PROVE  4 * b + (RoundUp(d, 8) \div 8) \in Nat /\ 4 * b + (RoundUp(d, 8) \div 8) <= (t + 7) \div 8
<1>1. RoundUp(d, 8) = d + ((-d) % 8)
  BY DEF RoundUp
<1> DEFINE u == RoundUp(d, 8) \div 8
<1>2. u \in Nat /\ 8 * u <= d + 7
  <2> DEFINE r == RoundUp(d, 8)
  <2>1. r = d + ((-d) % 8)
    BY <1>1
  <2> HIDE DEF r
  <2>2. r \in Nat /\ r <= d + 7
    BY <2>1
  <2> QED
    BY <2>2 DEF r
<1> HIDE DEF u
<1>3. (t + 7) \div 8 \in Nat /\ 8 * ((t + 7) \div 8) + 7 >= t + 7
  OBVIOUS
<1> DEFINE v == (t + 7) \div 8
<1> HIDE DEF v
<1>4. 4 * b + u \in Nat /\ 4 * b + u <= v
  BY <1>2, <1>3 DEF v
<1> QED
  BY <1>4 DEF u, v

LEMMA AuthStep ==
  ASSUME NEW m, NEW w, NEW M, NEW idx, Prepared("EIA3", m, w, M, idx), NEW i, InitOf(m, i)
  PROVE  LET k == Authenticate(i, w, m.lens[idx]) IN
         /\ k.ooo.job_in_lane = m.job_in_lane /\ k.ooo.lens[idx] = 0
         /\ Sound("EIA3", k.ooo, k.work, M)
         /\ ReadsOk("EIA3", k.ooo, M, k.read)
<1> DEFINE min     == m.lens[idx]
           words   == RoundUp(min, WORD_BITS) \div WORD_BITS
           rounds  == IF words < 14 THEN 0 ELSE min \div ROUND
           bits    == min - rounds * ROUND
           kept    == RoundUp(bits, WORD_BITS) \div WORD_BITS
           busy    == {l \in Lanes : i.lens[l] # UINT16_MAX}
           left    == [l \in Lanes |-> IF l \in busy
                                       THEN LeftOf(i.lens[l] - rounds * ROUND, kept * WORD_BITS)
                                       ELSE UINT16_MAX]
           done    == [l \in Lanes |-> IF l \in busy THEN i.lens[l] - left[l] ELSE rounds * ROUND]
           window  == [l \in busy |-> KernelWindow(FirstWords(i, l, i.init_not_done), words, rounds)]
           right   == [l \in busy |->
                        {} = Remainder(window[l], done[l] - rounds * ROUND, left[l],
                                       w[i.job_in_lane[l]].done + i.lens[l]).wrong]
           in      == [l \in Lanes |-> [i.in[l] EXCEPT !.off = @ + (done[l] \div 8)]]
           made    == [l \in Lanes |-> words + (IF l \in i.init_not_done THEN 2 ELSE 0)]
           state   == [l \in Lanes |-> [i.state[l] EXCEPT !.made = @ + made[l]]]
           prev_ks == [l \in Lanes |-> IF l \in busy THEN SubSeq(window[l].slot, kept + 1, kept + 2) ELSE NoWords]
           all     == [l \in Lanes |-> l \in busy => right[l]]
           none    == {}
           n       == [i EXCEPT !.init_not_done = none, !.lens = left, !.in = in, !.state = state,
                                !.prev_ks = prev_ks]
           v       == Worked(w, i, done, all)
           R       == {[job |-> i.in[l].job, to |-> i.in[l].off + (RoundUp(done[l], 8) \div 8)] :
                         l \in {q \in Lanes : done[q] > 0}}
           k       == Authenticate(i, w, min)
<1>1. k.ooo = n /\ k.work = v /\ k.read = R
  BY Zenon DEF Authenticate
<1>2. /\ m \in Mgr /\ w \in Works /\ M \in [Jobs -> EEA3Lens \cup EIA3Lens \cup {0}]
      /\ IsInjective(m.unused_lanes) /\ Range(m.unused_lanes) = Lanes \ Busy(m)
      /\ \A l, q \in Busy(m) : m.job_in_lane[l] = m.job_in_lane[q] => l = q
      /\ idx \in Busy(m) /\ Sound("EIA3", m, w, M)
  BY DEF Prepared, Sound
<1>3. /\ idx \in Lanes /\ m.job_in_lane \in [Lanes -> Jobs \cup {NULL}]
      /\ m.in \in [Lanes -> [job : Jobs \cup {NULL}, off : Nat]]
      /\ i.state \in [Lanes -> [job : Jobs \cup {NULL}, made : Nat]]
  <2>1. i \in Mgr
    BY DEF InitOf
  <2> QED
    BY <1>2, <2>1, MgrFields DEF Busy
<1>4. /\ i \in Mgr /\ i.unused_lanes = m.unused_lanes /\ i.job_in_lane = m.job_in_lane
      /\ i.init_not_done = m.init_not_done /\ i.lens = m.lens /\ i.in = m.in
      /\ \A l \in Lanes : i.state[l] = StateDue(m, l)
  BY DEF InitOf
<1>5. \A l \in Busy(m) :
        /\ l \in Lanes /\ m.job_in_lane[l] \in Jobs /\ m.lens[l] \in Nat /\ m.lens[l] < UINT16_MAX
        /\ min <= m.lens[l] /\ (Short("EIA3") => m.lens[l] < 32768)
        /\ M[m.job_in_lane[l]] \in AlgLens("EIA3")
  BY <1>2, LensOfBusy DEF Prepared
<1>6. min \in Nat /\ min # 0
  BY <1>2, <1>5 DEF Prepared
<1>7. Common(min, words, rounds, bits, kept)
  <2> HIDE DEF min
  <2> QED
    BY <1>6, CommonFacts
<1>8. busy = Busy(m)
  <2>1. UINT16_MAX \in Nat
    BY WordFacts
  <2>2. \A l \in Busy(m) : m.lens[l] # UINT16_MAX
    BY <1>5, <2>1
  <2>3. \A l \in Lanes \ Busy(m) : m.lens[l] = UINT16_MAX
    BY DEF Prepared
  <2>4. Busy(m) \subseteq Lanes
    BY DEF Busy
  <2> QED
    BY <1>4, <2>2, <2>3, <2>4
<1>9. \A l \in Lanes : l \notin Busy(m) => m.in[l] = m.in[idx]
  BY DEF Prepared
<1> HIDE DEF min, words, rounds, bits, kept, busy, n, v, R, k
<1>10. ASSUME NEW l \in Busy(m)
       PROVE  \E b \in Nat : /\ GoesOn("EIA3", m, w, l, b) /\ m.in[l].job = m.job_in_lane[l]
                             /\ m.in[l].off = 4 * b /\ w[m.job_in_lane[l]].done = 32 * b
                             /\ 32 * b + m.lens[l] = M[m.job_in_lane[l]]
                             /\ (Short("EIA3") => w[m.job_in_lane[l]].right)
  <2>1. LaneOk("EIA3", m, w, M, l)
    BY <1>2 DEF Sound
  <2>2. m.lens[l] # 0
    BY <1>5, <1>6
  <2>3. PICK b \in Nat : GoesOn("EIA3", m, w, l, b)
    BY <2>1, <2>2 DEF LaneOk
  <2>4. m.in[l].off = 4 * b /\ w[m.job_in_lane[l]].done = 32 * b
    <3>1. "EIA3" # "EEA3"
      OBVIOUS
    <3> QED
      BY <2>3, <3>1 DEF GoesOn
  <2> QED
    BY <2>1, <2>3, <2>4 DEF LaneOk
\* What a lane with a job has left
<1>11. ASSUME NEW l \in Busy(m)
       PROVE  /\ left[l] \in Nat /\ left[l] <= m.lens[l] /\ done[l] = m.lens[l] - left[l]
              /\ done[l] \in Nat /\ done[l] - rounds * ROUND \in Nat
              /\ left[l] # 0 => done[l] = 32 * words
              /\ (left[l] # 0 \/ m.lens[l] < 32768) => done[l] - rounds * ROUND <= 32 * kept
              /\ m.lens[l] = min => left[l] = 0
  <2> DEFINE x == m.lens[l]
             y == LeftOf(x - rounds * ROUND, kept * WORD_BITS)
  <2>1. left[l] = y /\ done[l] = x - y
    BY <1>4, <1>5, <1>8
  <2>2. x \in Nat /\ x < UINT16_MAX /\ min <= x
    BY <1>5
  <2>3. y = LeftOf(x - rounds * ROUND, kept * WORD_BITS)
    OBVIOUS
  <2>4. x = m.lens[l]
    OBVIOUS
  <2> HIDE DEF x, y, left, done
  <2>5. /\ y \in Nat /\ y <= x /\ x - y \in Nat /\ (x - y) - rounds * ROUND \in Nat
        /\ y # 0 => x - y = 32 * words
        /\ (y # 0 \/ x < 32768) => (x - y) - rounds * ROUND <= 32 * kept
        /\ x = min => y = 0
    BY <1>7, <2>2, <2>3, AuthLane
  <2> QED
    BY <2>1, <2>4, <2>5
<1>12. rounds \in Nat /\ kept \in Nat /\ words \in Nat /\ words = 16 * rounds + kept /\ rounds * ROUND = 512 * rounds
       /\ rounds * ROUND \in Nat /\ rounds * ROUND <= min
  BY <1>7 DEF Common, ROUND
\* The window of a lane with a job, and its MAC
<1>13. ASSUME NEW l \in Busy(m), NEW b \in Nat, GoesOn("EIA3", m, w, l, b)
       PROVE  /\ Holds(window[l], 16, kept + 2) /\ window[l].base = b + 16 * rounds
              /\ prev_ks[l] = <<b + words, (b + words) + 1>> /\ <<b + words, (b + words) + 1>> \in Seq(Int)
  <2> DEFINE o == KernelWindow(FirstWords(i, l, i.init_not_done), words, rounds)
  <2>1. window[l] = o /\ l \in Lanes
    BY <1>5, <1>8
  <2>2. o = KernelWindow(FirstWords(i, l, i.init_not_done), words, rounds)
    OBVIOUS
  <2> HIDE DEF o
  <2>3. Holds(o, 16, kept + 2) /\ o.base = b + 16 * rounds
    BY <1>2, <1>7, <1>13, <2>1, <2>2, AuthWindow
  <2>4. prev_ks[l] = SubSeq(o.slot, kept + 1, kept + 2)
    <3> HIDE DEF window
    <3> QED
      BY <1>8, <2>1
  <2> DEFINE c == b + words
  <2>5. c = o.base + kept
    BY <1>12, <2>3
  <2> HIDE DEF c, prev_ks, window
  <2>6. SubSeq(o.slot, kept + 1, kept + 2) = <<c, c + 1>> /\ <<c, c + 1>> \in Seq(Int)
    <3> DEFINE z == kept + 2
    <3>1. kept \in Nat /\ z = kept + 2 /\ Holds(o, 16, z)
      BY <1>12, <2>3
    <3> HIDE DEF z
    <3> QED
      BY <2>5, <3>1, LastTwoWords
  <2>7. prev_ks[l] = <<c, c + 1>> /\ <<c, c + 1>> \in Seq(Int)
    BY <2>4, <2>6
  <2> QED
    BY <2>1, <2>3, <2>7 DEF c
<1>14. ASSUME Short("EIA3"), NEW l \in Lanes PROVE all[l]
  <2> SUFFICES ASSUME l \in Busy(m) PROVE right[l]
    BY <1>8
  <2>1. PICK b \in Nat : /\ GoesOn("EIA3", m, w, l, b) /\ w[m.job_in_lane[l]].done = 32 * b
    BY <1>10
  <2>2. Holds(window[l], 16, kept + 2) /\ window[l].base = b + 16 * rounds
    BY <1>13, <2>1
  <2> DEFINE d == done[l] - rounds * ROUND
             e == w[i.job_in_lane[l]].done + i.lens[l]
             o == window[l]
             y == left[l]
  <2>3. right[l] = ({} = Remainder(o, d, y, e).wrong)
    <3> HIDE DEF window, done, left
    <3> QED
      BY <1>8
  <2>4. d \in Nat /\ d <= 32 * kept /\ (y = 0 => done[l] = m.lens[l])
    <3> HIDE DEF done, left
    <3> QED
      BY <1>5, <1>11, <1>14
  <2>5. y = 0 => e = 32 * o.base + d
    <3> HIDE DEF window, done, left
    <3>1. e = 32 * b + m.lens[l] /\ m.lens[l] \in Nat
      BY <1>4, <1>5, <2>1
    <3>2. d = done[l] - 512 * rounds /\ o.base = b + 16 * rounds
      BY <1>12, <2>2
    <3> HIDE DEF d, e, o, y
    <3> DEFINE x == m.lens[l]
               z == o.base
    <3>3. y = 0 => done[l] = x
      BY <2>4
    <3>4. e = 32 * b + x /\ x \in Nat /\ z = b + 16 * rounds /\ (y = 0 => d = x - 512 * rounds)
      BY <3>1, <3>2, <3>3
    <3> HIDE DEF x, z
    <3>5. y = 0 => e = 32 * z + d
      BY <1>12, <3>4
    <3> QED
      BY <3>5 DEF z
  <2> HIDE DEF d, e, o, y, right
  <2>6. Remainder(o, d, y, e).wrong = {}
    BY <1>12, <2>2, <2>4, <2>5, RemainderFacts DEF o
  <2> QED
    BY <2>3, <2>6
<1>15. \A l \in Lanes : done[l] \in Nat /\ left[l] \in 0 .. UINT16_MAX
  <2> TAKE l \in Lanes
  <2>1. CASE l \in Busy(m)
    <3> HIDE DEF done, left
    <3>1. done[l] \in Nat /\ left[l] \in Nat /\ left[l] <= m.lens[l]
      BY <1>11, <2>1
    <3>2. m.lens[l] \in Nat /\ m.lens[l] < UINT16_MAX
      BY <1>5, <2>1
    <3>3. left[l] <= UINT16_MAX
      <4>1. UINT16_MAX \in Nat
        BY WordFacts
      <4> QED
        BY <3>1, <3>2, <4>1
    <3> QED
      BY <3>1, <3>3, WordFacts
  <2>2. CASE l \notin Busy(m)
    <3>1. done[l] = rounds * ROUND /\ left[l] = UINT16_MAX
      BY <1>8, <2>2
    <3> HIDE DEF done, left
    <3> QED
      BY <1>12, <3>1, WordFacts
  <2> QED
    BY <2>1, <2>2
<1>16. /\ n \in Mgr /\ n.lens = left /\ n.in = in /\ n.state = state /\ n.prev_ks = prev_ks
       /\ n.unused_lanes = m.unused_lanes /\ n.job_in_lane = m.job_in_lane /\ n.init_not_done = {}
  <2>1. left \in [Lanes -> 0 .. UINT16_MAX]
    BY <1>15
  <2>2. in \in [Lanes -> [job : Jobs \cup {NULL}, off : Nat]]
    <3>1. \A l \in Lanes : done[l] \div 8 \in Nat
      <4> HIDE DEF done
      <4>1. \A d \in Nat : d \div 8 \in Nat
        OBVIOUS
      <4> QED
        BY <1>15, <4>1
    <3> HIDE DEF done
    <3> QED
      BY <1>3, <1>4, <3>1
  <2>3. state \in [Lanes -> [job : Jobs \cup {NULL}, made : Nat]]
    <3>1. \A l \in Lanes : made[l] \in Nat
      BY <1>12
    <3> HIDE DEF made
    <3> QED
      BY <1>3, <3>1
  <2>4. prev_ks \in [Lanes -> Seq(Int)]
    <3>1. \A l \in Lanes : prev_ks[l] \in Seq(Int)
      <4> TAKE l \in Lanes
      <4>1. CASE l \in Busy(m)
        <5>1. PICK b \in Nat : GoesOn("EIA3", m, w, l, b)
          BY <1>10, <4>1
        <5>2. prev_ks[l] = <<b + words, (b + words) + 1>> /\ <<b + words, (b + words) + 1>> \in Seq(Int)
          BY <1>13, <4>1, <5>1
        <5> HIDE DEF prev_ks
        <5> QED
          BY <5>2
      <4>2. CASE l \notin Busy(m)
        <5>1. NoWords \in Seq(Int)
          BY DEF NoWords, Garbage
        <5> QED
          BY <1>8, <4>2, <5>1
      <4> QED
        BY <4>1, <4>2
    <3>2. prev_ks = [l \in Lanes |-> prev_ks[l]]
      OBVIOUS
    <3> HIDE DEF prev_ks
    <3> QED
      BY <3>1, <3>2
  <2>5. none \in SUBSET Lanes
    OBVIOUS
  <2> HIDE DEF left, in, state, prev_ks, none
  <2>6. /\ n \in Mgr /\ n.lens = left /\ n.in = in /\ n.state = state /\ n.prev_ks = prev_ks
        /\ n.unused_lanes = i.unused_lanes /\ n.job_in_lane = i.job_in_lane /\ n.init_not_done = none
    BY <1>4, <2>1, <2>2, <2>3, <2>4, <2>5 DEF Mgr, n
  <2> QED
    BY <1>4, <2>6 DEF none
<1>17. Busy(n) = Busy(m) /\ Busy(i) = Busy(m)
  BY <1>4, <1>16 DEF Busy
<1>18. /\ v \in Works
       /\ \A l \in Busy(m) :
            /\ v[m.job_in_lane[l]].done = w[m.job_in_lane[l]].done + done[l]
            /\ Short("EIA3") /\ w[m.job_in_lane[l]].right => v[m.job_in_lane[l]].right
  <2>1. done \in [Lanes -> Nat]
    BY <1>15
  <2>2. Short("EIA3") => \A l \in Lanes : all[l]
    BY <1>14
  <2> HIDE DEF done, all
  <2>3. NULL \notin Jobs /\ \A l, q \in Busy(i) : i.job_in_lane[l] = i.job_in_lane[q] => l = q
    BY <1>2, <1>4, <1>17, LanesAssumption
  <2>4. /\ v \in Works
        /\ \A l \in Busy(i) : i.job_in_lane[l] \in Jobs =>
             /\ v[i.job_in_lane[l]].done = w[i.job_in_lane[l]].done + done[l]
             /\ (w[i.job_in_lane[l]].right /\ \A q \in Lanes : all[q]) => v[i.job_in_lane[l]].right
    BY <1>2, <2>1, <2>3, WorkedFacts DEF v
  <2> QED
    BY <1>4, <1>5, <1>17, <2>2, <2>4
<1>19. ASSUME NEW l \in Busy(m) PROVE LaneOk("EIA3", n, v, M, l)
  <2>1. PICK b \in Nat : /\ GoesOn("EIA3", m, w, l, b) /\ m.in[l].job = m.job_in_lane[l]
                         /\ m.in[l].off = 4 * b /\ w[m.job_in_lane[l]].done = 32 * b
                         /\ 32 * b + m.lens[l] = M[m.job_in_lane[l]]
                         /\ (Short("EIA3") => w[m.job_in_lane[l]].right)
    BY <1>10
  <2> DEFINE j == m.job_in_lane[l]
             x == m.lens[l]
             y == left[l]
             d == done[l]
             t == M[m.job_in_lane[l]]
             p == prev_ks[l]
  <2>2. l \in Lanes /\ j \in Jobs /\ t \in AlgLens("EIA3") /\ j = n.job_in_lane[l] /\ l \notin n.init_not_done
    BY <1>5, <1>16
  <2>3. y \in Nat /\ y <= x /\ x \in Nat /\ d = x - y /\ d \in Nat /\ (y # 0 => d = 32 * words)
    <3> HIDE DEF done, left
    <3> QED
      BY <1>5, <1>11
  <2>4. p = <<b + words, (b + words) + 1>>
    BY <1>13, <2>1
  <2>5. v[j].done = 32 * b + d /\ (Short("EIA3") => v[j].right) /\ 32 * b + x = t
    <3> HIDE DEF done
    <3> QED
      BY <1>18, <2>1
  <2>6. n.in[l].job = j /\ n.in[l].off = 4 * b + (d \div 8)
    <3>1. in[l].job = i.in[l].job /\ in[l].off = i.in[l].off + (done[l] \div 8)
      <4> HIDE DEF done
      <4> QED
        BY <1>3, <1>4, <2>2
    <3> HIDE DEF in, done
    <3> QED
      BY <1>4, <1>16, <2>1, <3>1
  <2>7. n.state[l].job = j /\ n.state[l].made = (b + words) + 2
    <3>1. i.state[l] \in [job : Jobs \cup {NULL}, made : Nat] /\ i.state[l] = StateDue(m, l)
      BY <1>3, <1>4, <2>2
    <3>2. state[l] = [i.state[l] EXCEPT !.made = i.state[l].made + made[l]]
      BY <2>2
    <3>3. made[l] = words + (IF l \in m.init_not_done THEN 2 ELSE 0)
      BY <1>4, <2>2
    <3> HIDE DEF state, made
    <3>4. state[l].job = i.state[l].job /\ state[l].made = i.state[l].made + made[l]
      BY <3>1, <3>2
    <3>5. CASE l \in m.init_not_done
      <4>1. b = 0
        BY <2>1, <3>5 DEF GoesOn
      <4>2. i.state[l] = [job |-> j, made |-> 0]
        BY <3>1, <3>5 DEF StateDue
      <4>3. state[l].job = j /\ state[l].made = 0 + (words + 2)
        BY <3>3, <3>4, <3>5, <4>2
      <4>4. 0 + (words + 2) = (b + words) + 2
        BY <1>12, <4>1
      <4> QED
        BY <1>16, <4>3, <4>4
    <3>6. CASE l \notin m.init_not_done
      <4>1. m.state[l].job = j /\ m.state[l].made = b + 2
        <5>1. "EIA3" # "EEA3"
          OBVIOUS
        <5> QED
          BY <2>1, <3>6, <5>1 DEF GoesOn
      <4>2. i.state[l] = m.state[l]
        BY <3>1, <3>6 DEF StateDue
      <4>3. state[l].job = j /\ state[l].made = (b + 2) + (words + 0)
        BY <3>3, <3>4, <3>6, <4>1, <4>2
      <4>4. (b + 2) + (words + 0) = (b + words) + 2
        BY <1>12
      <4> QED
        BY <1>16, <4>3, <4>4
    <3> QED
      BY <3>5, <3>6
  <2>8. n.lens[l] = y /\ n.prev_ks[l] = p
    BY <1>16
  <2> HIDE DEF x, y, d, t, p
  <2>9. /\ v[j].done + y = t /\ b + words \in Nat
        /\ y # 0 => v[j].done = 32 * (b + words) /\ 4 * b + (d \div 8) = 4 * (b + words)
    <3>1. v[j].done + y = t
      BY <2>3, <2>5
    <3>2. y # 0 => d \div 8 = 4 * words
      <4>1. (32 * words) \div 8 = 4 * words
        BY <1>12
      <4> QED
        BY <2>3, <4>1
    <3>3. b + words \in Nat
      BY <1>12
    <3>4. y # 0 => v[j].done = 32 * (b + words)
      BY <1>12, <2>3, <2>5
    <3>5. 4 * b + 4 * words = 4 * (b + words)
      BY <1>12
    <3> QED
      BY <3>1, <3>2, <3>3, <3>4, <3>5
  <2>10. n.lens[l] # 0 => GoesOn("EIA3", n, v, l, b + words)
    <3>1. "EIA3" # "EEA3"
      OBVIOUS
    <3> HIDE DEF j
    <3> QED
      BY <2>2, <2>4, <2>6, <2>7, <2>8, <2>9, <3>1 DEF GoesOn
  <2> QED
    BY <2>2, <2>5, <2>6, <2>8, <2>9, <2>10 DEF LaneOk, t
<1>20. Sound("EIA3", n, v, M)
  <2>1. n.init_not_done \subseteq Busy(n)
    BY <1>16
  <2> QED
    BY <1>2, <1>16, <1>17, <1>18, <1>19, <2>1 DEF Sound
<1>21. n.lens[idx] = 0
  <2>1. m.lens[idx] = min
    BY DEF min
  <2> HIDE DEF left, done
  <2>2. left[idx] = 0
    <3>1. idx \in Busy(m)
      BY <1>2
    <3>2. m.lens[idx] = min => left[idx] = 0
      BY <1>11, <3>1
    <3> QED
      BY <2>1, <3>2
  <2> QED
    BY <1>16, <2>2
<1>22. ReadsOk("EIA3", n, M, R)
  <2> SUFFICES ASSUME NEW r \in R
               PROVE  /\ r \in [job : Jobs \cup {NULL}, to : Nat]
                      /\ \E l \in Busy(n) : r.job = n.job_in_lane[l]
                      /\ r.to <= (M[r.job] + 7) \div 8
    <3>1. "EIA3" # "EEA3"
      OBVIOUS
    <3> QED
      BY <3>1 DEF ReadsOk
  <2>1. PICK l \in {q \in Lanes : done[q] > 0} :
          r = [job |-> i.in[l].job, to |-> i.in[l].off + (RoundUp(done[l], 8) \div 8)]
    BY DEF R
  <2>2. \E q \in Busy(m) : m.in[l] = m.in[q] /\ done[l] \in Nat /\ done[l] <= m.lens[q]
    <3>1. CASE l \in Busy(m)
      <4> HIDE DEF done, left
      <4>1. /\ left[l] \in Nat /\ left[l] <= m.lens[l] /\ done[l] = m.lens[l] - left[l] /\ done[l] \in Nat
            /\ m.lens[l] \in Nat
        BY <1>5, <1>11, <3>1
      <4>2. done[l] <= m.lens[l]
        BY <4>1
      <4> QED
        BY <3>1, <4>1, <4>2
    <3>2. CASE l \notin Busy(m)
      <4>1. done[l] = rounds * ROUND
        BY <1>8, <2>1, <3>2
      <4>2. m.in[l] = m.in[idx]
        BY <1>9, <2>1, <3>2
      <4> HIDE DEF done
      <4> QED
        BY <1>2, <1>12, <4>1, <4>2 DEF min
    <3> QED
      BY <3>1, <3>2
  <2>3. PICK q \in Busy(m) : m.in[l] = m.in[q] /\ done[l] \in Nat /\ done[l] <= m.lens[q]
    BY <2>2
  <2>4. PICK b \in Nat : /\ m.in[q].job = m.job_in_lane[q] /\ m.in[q].off = 4 * b
                         /\ 32 * b + m.lens[q] = M[m.job_in_lane[q]]
    BY <1>10
  <2> DEFINE d == done[l]
             x == m.lens[q]
             t == M[m.job_in_lane[q]]
             u == 4 * b + (RoundUp(d, 8) \div 8)
  <2>5. x \in Nat /\ d \in Nat /\ d <= x /\ 32 * b + x = t
    BY <1>5, <2>3, <2>4
  <2>6. r = [job |-> m.job_in_lane[q], to |-> u] /\ m.job_in_lane[q] \in Jobs
    <3> HIDE DEF done
    <3> QED
      BY <1>4, <1>5, <2>1, <2>3, <2>4
  <2>7. M[m.job_in_lane[q]] = t
    OBVIOUS
  <2>8. u = 4 * b + (RoundUp(d, 8) \div 8)
    OBVIOUS
  <2> HIDE DEF d, x, t, u, done
  <2>9. u \in Nat /\ u <= (t + 7) \div 8
    BY <2>5, <2>8, AuthReads
  <2>10. r.job = m.job_in_lane[q] /\ r.to = u
    BY <2>6
  <2> QED
    BY <1>16, <1>17, <2>6, <2>7, <2>9, <2>10
<1> HIDE DEF n, v, R, k, min, left, done, in, state, prev_ks
<1> QED
  BY <1>1, <1>16, <1>20, <1>21, <1>22 DEF k, min

---------------------------------------------------------------------------
(* The calls of the managers *)

LEMMA RunStep ==
  ASSUME NEW a \in {"EEA3", "EIA3"}, alg = a, NEW m, NEW w, NEW M, NEW idx, Prepared(a, m, w, M, idx),
         RunKernel(m, w, idx), alg' = a, msg_len' = M
  PROVE  Kept /\ Ooo!Return(m.job_in_lane, idx)
<1>1. m \in Mgr /\ idx \in Busy(m) /\ idx \in Lanes
  BY DEF Prepared, Sound, Busy
<1>2. ASSUME NEW k, k.ooo.job_in_lane = m.job_in_lane, k.ooo.lens[idx] = 0,
             Sound(a, k.ooo, k.work, M), ReadsOk(a, k.ooo, M, k.read),
             Finish(k.ooo, idx), read' = k.read, work' = k.work
      PROVE  Kept /\ Ooo!Return(m.job_in_lane, idx)
  <2>1. idx \in Busy(k.ooo)
    BY <1>1, <1>2 DEF Busy
  <2>2. Kept /\ Ooo!Return(k.ooo.job_in_lane, idx)
    BY <1>2, <2>1, FinishStep
  <2> QED
    BY <1>2, <2>2
<1>3. CASE a = "EEA3"
  <2> DEFINE s == [Initialised(m) EXCEPT !.init_not_done = {},
                     !.state = [l \in Lanes |-> IF m.job_in_lane[l] = NULL THEN @[idx] ELSE @[l]]]
             k == Cipher(s, w, m.lens[idx])
  <2>1. Finish(k.ooo, idx) /\ read' = k.read /\ work' = k.work
    BY <1>3 DEF RunKernel
  <2>2. StatesOf(m, idx, s)
    BY <1>1, StatesFields
  <2> HIDE DEF s
  <2>3. /\ k.ooo.job_in_lane = m.job_in_lane /\ k.ooo.lens[idx] = 0
        /\ Sound("EEA3", k.ooo, k.work, M) /\ ReadsOk("EEA3", k.ooo, M, k.read)
    BY <1>3, <2>2, CipherStep
  <2> HIDE DEF k
  <2> QED
    BY <1>2, <1>3, <2>1, <2>3
<1>4. CASE a = "EIA3"
  <2> DEFINE i == Initialised(m)
             k == Authenticate(i, w, m.lens[idx])
  <2>1. Finish(k.ooo, idx) /\ read' = k.read /\ work' = k.work
    <3>1. alg # "EEA3"
      BY <1>4
    <3> QED
      BY <3>1 DEF RunKernel
  <2>2. InitOf(m, i)
    BY <1>1, InitFields
  <2> HIDE DEF i
  <2>3. /\ k.ooo.job_in_lane = m.job_in_lane /\ k.ooo.lens[idx] = 0
        /\ Sound("EIA3", k.ooo, k.work, M) /\ ReadsOk("EIA3", k.ooo, M, k.read)
    BY <1>4, <2>2, AuthStep
  <2> HIDE DEF k
  <2> QED
    BY <1>2, <1>4, <2>1, <2>3
<1> QED
  BY <1>3, <1>4

LEMMA SubmitStep ==
  ASSUME LanesInv, NEW j \in Jobs, NEW n \in EEA3Lens \cup EIA3Lens, LaneSubmit(j, n)
  PROVE  Kept /\ Ooo!Submit(j)
<1> DEFINE lane == Head(ooo.unused_lanes)
           m    == Take(j, n, lane)
           w    == OldWork
           M    == [OldLens EXCEPT ![j] = n]
           idx  == MinLane(m.lens)
<1>1. /\ alg \in {"EEA3", "EIA3"} /\ alg' = alg
      /\ j \in Jobs \ Pending /\ n \in AlgLens(alg) /\ msg_len' = M
  BY DEF LanesInv, LaneSubmit, AlgLens
<1>2. /\ lane \in Lanes /\ ooo.job_in_lane[lane] = NULL
      /\ m.job_in_lane = [k \in Lanes |-> IF k = lane THEN j ELSE ooo.job_in_lane[k]]
      /\ Sound(alg, m, w, M)
  BY <1>1, TakeSound
<1>3. \/ m.unused_lanes # <<>> /\ ooo' = m /\ ret' = NULL /\ read' = {} /\ work' = w
      \/ m.unused_lanes = <<>> /\ m.lens[idx] = 0 /\ Finish(m, idx) /\ read' = {} /\ work' = w
      \/ m.unused_lanes = <<>> /\ m.lens[idx] # 0 /\ RunKernel(m, w, idx)
  BY DEF LaneSubmit
<1> HIDE DEF lane, m, w, M, idx
<1>4. j \notin Ooo!Held(ooo.job_in_lane) /\ lane \in Ooo!Free(ooo.job_in_lane)
  BY <1>1, <1>2 DEF Pending, Ooo!Held, Ooo!Free
<1>5. m \in Mgr /\ m.unused_lanes \in Seq(Lanes) /\ Range(m.unused_lanes) = Lanes \ Busy(m)
      /\ m.lens \in [Lanes -> 0 .. UINT16_MAX]
  BY <1>2, MgrFields DEF Sound
<1>6. CASE m.unused_lanes # <<>>
  <2>1. ooo' = m /\ ret' = NULL /\ read' = {} /\ work' = w
    BY <1>3, <1>6
  <2>2. LanesInv'
    <3>1. Sound(alg', ooo', work', msg_len')
      BY <1>1, <1>2, <2>1
    <3>2. alg' \in {"EEA3", "EIA3"} /\ ret' \in Jobs \cup {NULL} /\ ooo'.unused_lanes # <<>>
          /\ read' \subseteq [job : Jobs \cup {NULL}, to : Nat]
      BY <1>1, <1>6, <2>1
    <3> QED
      BY <3>1, <3>2 DEF LanesInv
  <2>3. KernelStaysInBuffers' /\ ReturnedJobIsWhole'
    BY <2>1 DEF KernelStaysInBuffers, ReturnedJobIsWhole
  <2>4. Ooo!Free(m.job_in_lane) # {}
    <3>1. Head(m.unused_lanes) \in Range(m.unused_lanes)
      <4>1. Len(m.unused_lanes) \in Nat /\ 1 \in 1 .. Len(m.unused_lanes)
            /\ Head(m.unused_lanes) = m.unused_lanes[1] /\ DOMAIN m.unused_lanes = 1 .. Len(m.unused_lanes)
        BY <1>5, <1>6
      <4> QED
        BY <4>1 DEF Range
    <3> QED
      BY <1>5, <3>1 DEF Ooo!Free, Busy
  <2>5. Ooo!Submit(j)
    BY <1>2, <1>4, <2>1, <2>4 DEF Ooo!Submit
  <2> QED
    BY <2>2, <2>3, <2>5 DEF Kept
<1>7. CASE m.unused_lanes = <<>>
  <2>1. Busy(m) = Lanes
    <3>1. Range(m.unused_lanes) = {}
      BY <1>7 DEF Range
    <3> QED
      BY <1>5, <3>1 DEF Busy
  <2>2. idx \in Lanes /\ \A l \in Lanes : m.lens[idx] <= m.lens[l]
    BY <1>5, MinLaneIsLeast DEF idx
  <2>3. Kept /\ Ooo!Return(m.job_in_lane, idx)
    <3>1. CASE m.lens[idx] = 0
      <4>1. Finish(m, idx) /\ read' = {} /\ work' = w
        BY <1>3, <1>7, <3>1
      <4>2. ReadsOk(alg, m, M, read')
        BY <4>1 DEF ReadsOk
      <4> QED
        BY <1>1, <1>2, <2>1, <2>2, <3>1, <4>1, <4>2, FinishStep
    <3>2. CASE m.lens[idx] # 0
      <4>1. RunKernel(m, w, idx)
        BY <1>3, <1>7, <3>2
      <4>2. Prepared(alg, m, w, M, idx)
        BY <1>2, <2>1, <2>2, <3>2 DEF Prepared
      <4> QED
        BY <1>1, <4>1, <4>2, RunStep
    <3> QED
      BY <3>1, <3>2
  <2>4. Ooo!Free(m.job_in_lane) = {}
    BY <2>1 DEF Ooo!Free, Busy
  <2>5. Ooo!Submit(j)
    BY <1>2, <1>4, <2>2, <2>3, <2>4 DEF Ooo!Submit
  <2> QED
    BY <2>3, <2>5
<1> QED
  BY <1>6, <1>7

LEMMA FlushNullStep ==
  ASSUME LanesInv, LaneFlushNull
  PROVE  Kept /\ Ooo!Flush
<1>1. Pending = {} /\ ret' = NULL /\ read' = {} /\ msg_len' = OldLens /\ work' = OldWork
      /\ alg' = alg /\ ooo' = ooo
  BY DEF LaneFlushNull
<1>2. Busy(ooo) = {}
  BY <1>1 DEF Pending, Busy
<1>3. OldWork \in Works /\ OldLens \in [Jobs -> EEA3Lens \cup EIA3Lens \cup {0}]
  BY OldFacts
<1>4. Sound(alg, ooo, OldWork, OldLens)
  BY <1>2, <1>3 DEF LanesInv, Sound
<1>5. LanesInv'
  BY <1>1, <1>4 DEF LanesInv
<1>6. KernelStaysInBuffers' /\ ReturnedJobIsWhole'
  BY <1>1 DEF KernelStaysInBuffers, ReturnedJobIsWhole
<1>7. Ooo!Held(ooo.job_in_lane) = {}
  BY <1>1 DEF Pending, Ooo!Held
<1> QED
  BY <1>1, <1>5, <1>6, <1>7 DEF Kept, Ooo!Flush

LEMMA FlushStep ==
  ASSUME LanesInv, LaneFlush
  PROVE  Kept /\ Ooo!Flush
<1> DEFINE null == {l \in Lanes : ooo.job_in_lane[l] = NULL}
           L    == [l \in Lanes |-> IF l \in null THEN UINT16_MAX ELSE ooo.lens[l]]
           idx  == MinLane(L)
           m    == [ooo EXCEPT !.lens = L]
<1>1. /\ Pending # {} /\ msg_len' = OldLens /\ alg' = alg
      /\ \/ L[idx] = 0 /\ Finish(m, idx) /\ read' = {} /\ work' = OldWork
         \/ L[idx] # 0 /\ RunKernel(WithGoodLane(m, null, idx), OldWork, idx)
  BY DEF LaneFlush
<1>2. L = [l \in Lanes |-> IF ooo.job_in_lane[l] = NULL THEN UINT16_MAX ELSE ooo.lens[l]]
  OBVIOUS
<1>3. m = [ooo EXCEPT !.lens = L]
  OBVIOUS
<1> HIDE DEF L, m
<1>4. /\ m.job_in_lane = ooo.job_in_lane /\ m.lens = L
      /\ Sound(alg, m, OldWork, OldLens)
      /\ idx \in Busy(m) /\ \A l \in Busy(m) : L[idx] <= L[l]
  BY <1>1, <1>2, <1>3, FlushSound
<1>5. null = Lanes \ Busy(m)
  BY <1>4 DEF Busy
<1>6. \A l \in Lanes \ Busy(m) : m.lens[l] = UINT16_MAX
  BY <1>2, <1>4 DEF Busy
<1> HIDE DEF null, idx
<1>7. alg \in {"EEA3", "EIA3"}
  BY DEF LanesInv
<1>8. Kept /\ Ooo!Return(ooo.job_in_lane, idx)
  <2>1. CASE L[idx] = 0
    <3>1. Finish(m, idx) /\ read' = {} /\ work' = OldWork
      BY <1>1, <2>1
    <3>2. ReadsOk(alg, m, OldLens, read')
      BY <3>1 DEF ReadsOk
    <3>3. Kept /\ Ooo!Return(m.job_in_lane, idx)
      BY <1>1, <1>4, <1>7, <2>1, <3>1, <3>2, FinishStep
    <3> QED
      BY <1>4, <3>3
  <2>2. CASE L[idx] # 0
    <3> DEFINE g == WithGoodLane(m, null, idx)
    <3>1. RunKernel(g, OldWork, idx)
      BY <1>1, <2>2
    <3>2. Prepared(alg, g, OldWork, OldLens, idx) /\ g.job_in_lane = m.job_in_lane
      BY <1>4, <1>5, <1>6, <2>2, FlushPrepared
    <3> HIDE DEF g
    <3>3. Kept /\ Ooo!Return(g.job_in_lane, idx)
      BY <1>1, <1>7, <3>1, <3>2, RunStep
    <3> QED
      BY <1>4, <3>2, <3>3
  <2> QED
    BY <2>1, <2>2
<1>9. idx \in Lanes \ Ooo!Free(ooo.job_in_lane)
  BY <1>4 DEF Busy, Ooo!Free
<1> QED
  BY <1>8, <1>9 DEF Ooo!Flush

\* Every call of a manager keeps the invariant and what it promises, and is one of
\* the calls that the scheduler counts on.
LEMMA LaneStep ==
  ASSUME LanesInv, LaneNext
  PROVE  Kept /\ Ooo!Next
<1>1. CASE \E j \in Jobs, n \in EEA3Lens \cup EIA3Lens : LaneSubmit(j, n)
  <2>1. PICK j \in Jobs, n \in EEA3Lens \cup EIA3Lens : LaneSubmit(j, n)
    BY <1>1
  <2> QED
    BY <2>1, SubmitStep DEF Ooo!Next
<1>2. CASE LaneFlushNull
  BY <1>2, FlushNullStep DEF Ooo!Next
<1>3. CASE LaneFlush
  BY <1>3, FlushStep DEF Ooo!Next
<1> QED
  BY <1>1, <1>2, <1>3 DEF LaneNext

LEMMA InitHolds ==
  ASSUME LanesInit
  PROVE  LanesInv /\ KernelStaysInBuffers /\ ReturnedJobIsWhole /\ Ooo!Init
<1> DEFINE U    == [i \in 1 .. NumLanes |-> i - 1]
           none == {}
           J    == [l \in Lanes |-> NULL]
           Z    == [l \in Lanes |-> 0]
           B    == [l \in Lanes |-> NoBuffer]
           S    == [l \in Lanes |-> NoState]
           P    == [l \in Lanes |-> NoWords]
<1>1. /\ U \in Seq(Lanes) /\ Len(U) = NumLanes /\ DOMAIN U = 1 .. NumLanes
      /\ \A i \in 1 .. NumLanes : U[i] = i - 1
  <2>1. \A i \in 1 .. NumLanes : i - 1 \in Lanes
    BY LaneFacts
  <2> QED
    BY <2>1, LaneFacts
<1>2. U # <<>> /\ IsInjective(U)
  BY <1>1, LaneFacts DEF IsInjective
<1>3. Range(U) = Lanes
  <2>1. \A l \in Lanes : l + 1 \in 1 .. NumLanes /\ (l + 1) - 1 = l
    BY LaneFacts
  <2>2. \A l \in Lanes : U[l + 1] = l
    BY <1>1, <2>1
  <2>3. \A i \in 1 .. NumLanes : U[i] \in Lanes
    BY LaneFacts
  <2> QED
    BY <1>1, <2>1, <2>2, <2>3 DEF Range
<1>4. Z \in [Lanes -> 0 .. UINT16_MAX]
  BY WordFacts
<1>5. J \in [Lanes -> Jobs \cup {NULL}] /\ none \in SUBSET Lanes
      /\ B \in [Lanes -> [job : Jobs \cup {NULL}, off : Nat]]
      /\ S \in [Lanes -> [job : Jobs \cup {NULL}, made : Nat]]
      /\ P \in [Lanes -> Seq(Int)]
  <2>1. NoWords \in Seq(Int)
    BY DEF NoWords, Garbage
  <2> QED
    BY <2>1 DEF NoBuffer, NoState
<1>6. ooo = [unused_lanes |-> U, job_in_lane |-> J, init_not_done |-> none, lens |-> Z, in |-> B,
             state |-> S, prev_ks |-> P]
  BY DEF LanesInit
<1> HIDE DEF U, J, Z, B, S, P, none
<1>7. /\ ooo \in Mgr /\ ooo.unused_lanes = U /\ ooo.job_in_lane = J /\ ooo.init_not_done = none
  BY <1>1, <1>4, <1>5, <1>6 DEF Mgr
<1>8. Busy(ooo) = {}
  BY <1>7 DEF Busy, J
<1>9. work \in Works /\ msg_len \in [Jobs -> EEA3Lens \cup EIA3Lens \cup {0}]
  BY DEF LanesInit, Works, NoWork
<1>10. Sound(alg, ooo, work, msg_len)
  BY <1>2, <1>3, <1>7, <1>8, <1>9 DEF Sound, none
<1>11. LanesInv
  <2>1. alg \in {"EEA3", "EIA3"} /\ ret = NULL /\ read = {}
    BY DEF LanesInit
  <2> QED
    BY <1>2, <1>7, <1>10, <2>1 DEF LanesInv
<1>12. KernelStaysInBuffers /\ ReturnedJobIsWhole
  BY DEF LanesInit, KernelStaysInBuffers, ReturnedJobIsWhole
<1>13. Ooo!Init
  <2>1. ret = NULL
    BY DEF LanesInit
  <2> QED
    BY <1>7, <2>1 DEF Ooo!Init, J
<1> QED
  BY <1>11, <1>12, <1>13

\* A call of the direct API touches no manager.
LEMMA OtherStep ==
  ASSUME LanesInv, KernelStaysInBuffers, Short(alg) => ReturnedJobIsWhole, UNCHANGED lanesVars
  PROVE  Kept
<1>1. alg' = alg /\ ooo' = ooo /\ msg_len' = msg_len /\ ret' = ret /\ work' = work /\ read' = read
  BY DEF lanesVars
<1>2. LanesInv'
  BY <1>1 DEF LanesInv
<1>3. KernelStaysInBuffers'
  BY <1>1 DEF KernelStaysInBuffers, Pending
<1>4. Short(alg') => ReturnedJobIsWhole'
  BY <1>1 DEF ReturnedJobIsWhole
<1> QED
  BY <1>2, <1>3, <1>4 DEF Kept

=============================================================================
