--------------------------- MODULE WirelessProofs ---------------------------
(***************************************************************************)
(* The wireless algorithms for all lengths, any batches of buffers, any    *)
(* number of lanes and any jobs: the functions of the direct API give each *)
(* buffer its keystream and each message its MAC, and the managers of ZUC  *)
(* keep what they promise.                                                 *)
(***************************************************************************)
EXTENDS Wireless, ZucLanesProofs

---------------------------------------------------------------------------
(* Recursive functions *)

\* The value of r is made from that of prev[r]: e is in T[0] and each step stays in T.
Steps(n, prev, T, e, step) ==
  /\ n \in Nat /\ \A r \in 1 .. n : prev[r] \in 0 .. r - 1
  /\ e \in T[0] /\ \A r \in 1 .. n : \A x \in T[prev[r]] : step[r][x] \in T[r]

Follows(f, n, prev, e, step) ==
  f = [r \in 0 .. n |-> IF r = 0 THEN e ELSE step[r][f[prev[r]]]]

StaysIn(f, n, T) == \A r \in 0 .. n : f[r] \in T[r]

\* Such steps define a function.
LEMMA RecursionDefines ==
  ASSUME NEW n, NEW prev, NEW T, NEW e, NEW step, Steps(n, prev, T, e, step)
  PROVE  \E f : Follows(f, n, prev, e, step) /\ StaysIn(f, n, T)
<1> DEFINE Val(f, r) == IF r = 0 THEN e ELSE step[r][f[prev[r]]]
           Is(f, k)  == f = [r \in 0 .. k |-> Val(f, r)] /\ \A r \in 0 .. k : f[r] \in T[r]
           Bad       == {k \in 0 .. n : ~\E f : Is(f, k)}
<1> SUFFICES ASSUME n \in Nat, \A r \in 1 .. n : prev[r] \in 0 .. r - 1,
                    e \in T[0], \A r \in 1 .. n : \A x \in T[prev[r]] : step[r][x] \in T[r]
             PROVE  \E f : Follows(f, n, prev, e, step) /\ StaysIn(f, n, T)
  BY DEF Steps
<1>1. Bad = {}
  <2> SUFFICES ASSUME Bad # {} PROVE FALSE
    OBVIOUS
  <2>1. PICK k \in Bad : \A i \in Bad : k <= i
    <3>1. Bad \in SUBSET Nat
      OBVIOUS
    <3> HIDE DEF Bad
    <3> QED
      BY <3>1, LeastNatural
  <2> HIDE DEF Is
  <2>2. k \in 0 .. n /\ ~\E f : Is(f, k)
    BY <2>1
  <2> HIDE DEF Bad
  <2>3. CASE k = 0
    <3> DEFINE f == [r \in 0 .. 0 |-> e]
    <3>1. f = [r \in 0 .. 0 |-> Val(f, r)]
      OBVIOUS
    <3>2. \A r \in 0 .. 0 : f[r] \in T[r]
      OBVIOUS
    <3> HIDE DEF f
    <3> QED
      BY <2>2, <2>3, <3>1, <3>2 DEF Is
  <2>4. CASE k # 0
    <3>1. k \in 1 .. n /\ k - 1 \in Nat /\ k - 1 \in 0 .. n /\ k - 1 \notin Bad
      BY <2>1, <2>2, <2>4
    <3>2. PICK f : Is(f, k - 1)
      BY <3>1 DEF Bad
    <3> DEFINE g == [r \in 0 .. k |-> IF r = k THEN step[k][f[prev[k]]] ELSE f[r]]
    <3>3. \A r \in 0 .. k : g[r] = Val(g, r) /\ g[r] \in T[r]
      <4> TAKE r \in 0 .. k
      <4>1. CASE r = k
        <5>1. prev[k] \in 0 .. k - 1 /\ prev[k] \in 0 .. k /\ prev[k] # k
          BY <3>1
        <5>2. g[prev[k]] = f[prev[k]] /\ f[prev[k]] \in T[prev[k]]
          BY <3>2, <5>1 DEF Is
        <5> QED
          BY <2>4, <3>1, <4>1, <5>2
      <4>2. CASE r = 0
        <5>1. 0 \in 0 .. k - 1 /\ r # k
          BY <2>4, <3>1, <4>2
        <5> QED
          BY <3>2, <4>2, <5>1 DEF Is
      <4>3. CASE r # 0 /\ r # k
        <5>1. r \in 0 .. k - 1 /\ r \in 1 .. n
          BY <3>1, <4>3
        <5>2. prev[r] \in 0 .. k /\ prev[r] # k
          BY <3>1, <5>1
        <5>3. f[r] = step[r][f[prev[r]]] /\ f[r] \in T[r]
          BY <3>2, <4>3, <5>1 DEF Is
        <5>4. g[r] = f[r] /\ g[prev[r]] = f[prev[r]]
          BY <4>3, <5>2
        <5> QED
          BY <4>3, <5>3, <5>4
      <4> QED
        BY <4>1, <4>2, <4>3
    <3>4. g = [r \in 0 .. k |-> g[r]]
      OBVIOUS
    <3> HIDE DEF g
    <3>5. Is(g, k)
      BY <3>3, <3>4 DEF Is
    <3> QED
      BY <2>2, <3>5
  <2> QED
    BY <2>2, <2>3, <2>4
<1>2. \E f : Is(f, n)
  <2>1. n \in 0 .. n
    OBVIOUS
  <2> HIDE DEF Is
  <2> QED
    BY <1>1, <2>1
<1> QED
  BY <1>2 DEF Follows, StaysIn

\* A function is in T at 0, and where it is made from a value in T.
StepsStay(f, n, prev, T) ==
  /\ n \in Nat /\ \A r \in 1 .. n : prev[r] \in 0 .. r - 1
  /\ f[0] \in T[0] /\ \A r \in 1 .. n : f[prev[r]] \in T[prev[r]] => f[r] \in T[r]

\* Then it stays in T.
LEMMA RecursionStays ==
  ASSUME NEW f, NEW n, NEW prev, NEW T, StepsStay(f, n, prev, T)
  PROVE  StaysIn(f, n, T)
<1> SUFFICES ASSUME n \in Nat, \A r \in 1 .. n : prev[r] \in 0 .. r - 1, f[0] \in T[0],
                    \A r \in 1 .. n : f[prev[r]] \in T[prev[r]] => f[r] \in T[r]
             PROVE  \A r \in 0 .. n : f[r] \in T[r]
  BY DEF StepsStay, StaysIn
<1> DEFINE Bad == {r \in 0 .. n : f[r] \notin T[r]}
<1> SUFFICES ASSUME Bad # {} PROVE FALSE
  OBVIOUS
<1>1. PICK r \in Bad : \A i \in Bad : r <= i
  <2>1. Bad \in SUBSET Nat
    OBVIOUS
  <2> HIDE DEF Bad
  <2> QED
    BY <2>1, LeastNatural
<1>2. r # 0 /\ r \in 1 .. n
  BY <1>1
<1>3. prev[r] \in 0 .. n /\ ~(r <= prev[r])
  BY <1>2
<1>4. f[prev[r]] \in T[prev[r]]
  BY <1>1, <1>3
<1> QED
  BY <1>1, <1>2, <1>4

---------------------------------------------------------------------------
(* Pieces *)

PieceSet == [of : Int, at : Int, ks : Int, n : Nat]

LEMMA PieceFacts ==
  ASSUME NEW of \in Int, NEW at \in Int, NEW ks \in Int, NEW n \in Nat
  PROVE  LET p == Piece(of, at, ks, n) IN
         /\ p \in PieceSet /\ p.of = of /\ p.at = at /\ p.ks = ks /\ p.n = n
         /\ End(p) = at + n
BY DEF Piece, PieceSet, End

\* The pieces take the units of buffer i from a up to b, in order, each with the
\* keystream "shift" units before it.
Chained(s, i, a, shift, b) ==
  /\ s \in Seq(PieceSet)
  /\ \A k \in 1 .. Len(s) : /\ s[k].of = i /\ s[k].ks = s[k].at - shift
                            /\ s[k].at = IF k = 1 THEN a ELSE End(s[k - 1])
  /\ b = IF Len(s) = 0 THEN a ELSE End(s[Len(s)])

\* What Append does.
LEMMA AppendFacts ==
  ASSUME NEW S, NEW s \in Seq(S), NEW x \in S
  PROVE  LET r == Append(s, x) IN
         /\ r \in Seq(S) /\ Len(r) = Len(s) + 1 /\ r[Len(s) + 1] = x
         /\ \A k \in 1 .. Len(s) : r[k] = s[k]
OBVIOUS

\* A piece that begins where the others end
LEMMA OnePieceMore ==
  ASSUME NEW s, NEW i, NEW a, NEW shift \in Int, NEW b, Chained(s, i, a, shift, b),
         NEW p \in PieceSet, p.of = i, p.at = b, p.ks = b - shift
  PROVE  Chained(Append(s, p), i, a, shift, b + p.n)
<1> DEFINE r == Append(s, p)
           n == Len(s)
<1>1. s \in Seq(PieceSet) /\ n \in Nat
  BY DEF Chained
<1>2. r \in Seq(PieceSet) /\ Len(r) = n + 1 /\ r[n + 1] = p /\ \A k \in 1 .. n : r[k] = s[k]
  BY <1>1, AppendFacts
<1> HIDE DEF r
<1>3. \A k \in 1 .. n : /\ s[k].of = i /\ s[k].ks = s[k].at - shift
                        /\ s[k].at = IF k = 1 THEN a ELSE End(s[k - 1])
  BY DEF Chained
<1>4. b = IF n = 0 THEN a ELSE End(s[n])
  BY DEF Chained
<1> HIDE DEF n
<1>5. ASSUME NEW k \in 1 .. n + 1
      PROVE  /\ r[k].of = i /\ r[k].ks = r[k].at - shift
             /\ r[k].at = IF k = 1 THEN a ELSE End(r[k - 1])
  <2>1. CASE k = n + 1
    <3>1. r[k] = p
      BY <1>2, <2>1
    <3>2. p.at = IF k = 1 THEN a ELSE End(r[k - 1])
      <4>1. CASE n = 0
        BY <1>4, <2>1, <4>1
      <4>2. CASE n # 0
        <5>1. k # 1 /\ k - 1 = n /\ n \in 1 .. n
          BY <1>1, <2>1, <4>2
        <5>2. r[k - 1] = s[n]
          BY <1>2, <5>1
        <5> QED
          BY <1>4, <4>2, <5>1, <5>2
      <4> QED
        BY <4>1, <4>2
    <3> QED
      BY <3>1, <3>2
  <2>2. CASE k # n + 1
    <3>1. k \in 1 .. n /\ (k # 1 => k - 1 \in 1 .. n)
      BY <1>1, <2>2
    <3>2. r[k] = s[k] /\ (k # 1 => r[k - 1] = s[k - 1])
      BY <1>2, <3>1
    <3> QED
      BY <1>3, <3>1, <3>2
  <2> QED
    BY <2>1, <2>2
<1>6. b + p.n = IF Len(r) = 0 THEN a ELSE End(r[Len(r)])
  <2>1. Len(r) # 0 /\ r[Len(r)] = p
    BY <1>1, <1>2
  <2> QED
    BY <2>1 DEF End
<1> QED
  BY <1>2, <1>5, <1>6 DEF Chained, r

\* A piece goes from a to b, or is empty.
Fits(p, i, shift, a, b) ==
  /\ p \in PieceSet /\ b = a + p.n
  /\ p.n # 0 => p.of = i /\ p.at = a /\ p.ks = a - shift

\* Pieces one behind the other: the k-th goes from pos[k - 1] to pos[k].
Row(list, i, shift, pos) ==
  /\ list \in Seq(PieceSet) /\ \A k \in 0 .. Len(list) : pos[k] \in Int
  /\ \A k \in 1 .. Len(list) : Fits(list[k], i, shift, pos[k - 1], pos[k])

\* Those that are not empty are a chain.
LEMMA PiecesChained ==
  ASSUME NEW list, NEW i, NEW shift \in Int, NEW pos, Row(list, i, shift, pos)
  PROVE  Chained(Pieces(list), i, pos[0], shift, pos[Len(list)])
<1> DEFINE n        == Len(list)
           S        == Seq(PieceSet)
           T        == [k \in 0 .. n |-> {s \in S : Chained(s, i, pos[0], shift, pos[k])}]
           prev     == [r \in 1 .. n |-> r - 1]
           Next1(x, r) == IF list[r].n = 0 THEN x ELSE Append(x, list[r])
           step     == [r \in 1 .. n |-> [x \in S |-> Next1(x, r)]]
           Is(f)    == f = [k \in 0 .. n |-> IF k = 0 THEN <<>>
                              ELSE IF list[k].n = 0 THEN f[k - 1] ELSE Append(f[k - 1], list[k])]
<1>1. n \in Nat /\ \A r \in 1 .. n : list[r] \in PieceSet
  BY DEF Row
<1>2. \A r \in 1 .. n : prev[r] = r - 1 /\ prev[r] \in 0 .. r - 1 /\ prev[r] \in 0 .. n
  BY <1>1
<1>3. <<>> \in T[0]
  <2>1. Chained(<<>>, i, pos[0], shift, pos[0])
    <3>1. <<>> \in S /\ Len(<<>>) = 0
      OBVIOUS
    <3> QED
      BY <3>1 DEF Chained
  <2>2. 0 \in 0 .. n /\ <<>> \in S
    BY <1>1
  <2> QED
    BY <2>1, <2>2
<1>4. ASSUME NEW r \in 1 .. n, NEW x \in T[r - 1]
      PROVE  Next1(x, r) \in T[r] /\ step[r][x] = Next1(x, r)
  <2>1. r - 1 \in 0 .. n /\ r \in 0 .. n
    BY <1>1
  <2>2. x \in S /\ Chained(x, i, pos[0], shift, pos[r - 1])
    BY <2>1
  <2>3. /\ list[r] \in PieceSet /\ list[r].n \in Nat /\ pos[r] = pos[r - 1] + list[r].n
        /\ list[r].n # 0 => /\ list[r].of = i /\ list[r].at = pos[r - 1]
                            /\ list[r].ks = pos[r - 1] - shift
    <3>1. Fits(list[r], i, shift, pos[r - 1], pos[r])
      BY DEF Row
    <3>2. list[r].n \in Nat
      BY <1>1 DEF PieceSet
    <3> QED
      BY <3>1, <3>2 DEF Fits
  <2>4. Next1(x, r) \in S /\ Chained(Next1(x, r), i, pos[0], shift, pos[r])
    <3>1. CASE list[r].n = 0
      <4>1. pos[r - 1] \in Int
        BY <2>1 DEF Row
      <4>2. pos[r] = pos[r - 1]
        BY <2>3, <3>1, <4>1
      <4> QED
        BY <2>2, <3>1, <4>2
    <3>2. CASE list[r].n # 0
      <4>1. Chained(Append(x, list[r]), i, pos[0], shift, pos[r - 1] + list[r].n)
        BY <2>2, <2>3, <3>2, OnePieceMore
      <4>2. Append(x, list[r]) \in S
        BY <4>1 DEF Chained
      <4> QED
        BY <2>3, <3>2, <4>1, <4>2
    <3> QED
      BY <3>1, <3>2
  <2> QED
    BY <2>1, <2>2, <2>4
<1> HIDE DEF T, prev, step, Next1
<1>5. \E f : Follows(f, n, prev, <<>>, step) /\ StaysIn(f, n, T)
  <2>1. \A r \in 1 .. n : \A x \in T[prev[r]] : step[r][x] \in T[r]
    BY <1>2, <1>4
  <2>2. Steps(n, prev, T, <<>>, step)
    BY <1>1, <1>2, <1>3, <2>1 DEF Steps
  <2> QED
    BY <2>2, RecursionDefines
<1>6. \E f : Is(f)
  <2>1. PICK f : Follows(f, n, prev, <<>>, step) /\ StaysIn(f, n, T)
    BY <1>5
  <2>2. ASSUME NEW r \in 1 .. n PROVE f[r] = Next1(f[r - 1], r)
    <3>1. r # 0 /\ r \in 0 .. n /\ r - 1 \in 0 .. n
      BY <1>1
    <3>2. f[r] = step[r][f[r - 1]] /\ f[r - 1] \in T[r - 1]
      BY <1>2, <2>1, <3>1 DEF Follows, StaysIn
    <3> QED
      BY <1>4, <3>2
  <2>3. f[0] = <<>> /\ f = [r \in 0 .. n |-> f[r]]
    BY <1>1, <2>1 DEF Follows
  <2>4. \A r \in 0 .. n : r = 0 \/ r \in 1 .. n
    BY <1>1
  <2> HIDE DEF n
  <2>5. \A r \in 0 .. n : f[r] = IF r = 0 THEN <<>> ELSE Next1(f[r - 1], r)
    BY <2>2, <2>3, <2>4
  <2> QED
    BY <2>3, <2>5 DEF Next1, n
<1> DEFINE f == CHOOSE f : Is(f)
<1>7. Pieces(list) = f[n]
  BY DEF Pieces
<1>8. Is(f)
  BY <1>6
<1> HIDE DEF f
<1>9. StaysIn(f, n, T)
  <2>1. f[0] = <<>>
    BY <1>1, <1>8
  <2>2. ASSUME NEW r \in 1 .. n, f[prev[r]] \in T[prev[r]] PROVE f[r] \in T[r]
    <3>1. r # 0 /\ r \in 0 .. n
      BY <1>1
    <3>2. f[r] = Next1(f[r - 1], r)
      BY <1>8, <3>1 DEF Next1
    <3>3. f[r - 1] \in T[r - 1]
      BY <1>2, <2>2
    <3> QED
      BY <1>4, <3>2, <3>3
  <2>3. f[0] \in T[0]
    BY <1>3, <2>1
  <2>4. StepsStay(f, n, prev, T)
    BY <1>1, <1>2, <2>2, <2>3 DEF StepsStay
  <2> QED
    BY <2>4, RecursionStays
<1> QED
  <2>1. n \in 0 .. n
    BY <1>1
  <2>2. f[n] \in T[n]
    BY <1>9, <2>1 DEF StaysIn
  <2> QED
    BY <1>7, <2>1, <2>2 DEF T

\* A chain from the first unit to the last one is what is due.
LEMMA ChainInStep ==
  ASSUME NEW s, NEW i, NEW len \in Nat \ {0}, Chained(s, i, 0, 0, len)
  PROVE  InStep(s, i, len)
<1>1. s \in Seq(PieceSet) /\ Len(s) # 0 /\ DOMAIN s = 1 .. Len(s) /\ s # <<>> /\ 1 \in 1 .. Len(s)
  <2>1. s \in Seq(PieceSet) /\ Len(s) # 0
    BY DEF Chained
  <2> QED
    BY <2>1
<1>2. s[1].at = 0 /\ End(s[Len(s)]) = len
  BY <1>1 DEF Chained
<1>3. ASSUME NEW k \in DOMAIN s
      PROVE  s[k].of = i /\ s[k].ks = s[k].at /\ (k > 1 => s[k].at = End(s[k - 1]))
  <2>1. k \in 1 .. Len(s)
    BY <1>1
  <2>2. s[k].of = i /\ s[k].ks = s[k].at - 0 /\ s[k].at = IF k = 1 THEN 0 ELSE End(s[k - 1])
    BY <2>1 DEF Chained
  <2>3. s[k].at \in Int
    <3>1. s[k] \in PieceSet
      BY <1>1, <2>1
    <3> QED
      BY <3>1 DEF PieceSet
  <2> QED
    BY <1>1, <2>2, <2>3
<1> QED
  BY <1>1, <1>2, <1>3 DEF InStep

LEMMA FourPieces ==
  ASSUME NEW i, NEW a \in Nat, NEW b \in Nat, NEW c \in Nat, NEW len \in Nat \ {0},
         NEW p, NEW q, NEW r, NEW s, Fits(p, i, 0, 0, a), Fits(q, i, 0, a, b),
         Fits(r, i, 0, b, c), Fits(s, i, 0, c, len)
  PROVE  InStep(Pieces(<<p, q, r, s>>), i, len)
<1> DEFINE list == <<p, q, r, s>>
           pos  == [k \in 0 .. 4 |-> CASE k = 0 -> 0 [] k = 1 -> a [] k = 2 -> b [] k = 3 -> c [] k = 4 -> len]
<1>1. list \in Seq(PieceSet) /\ Len(list) = 4 /\ list[1] = p /\ list[2] = q /\ list[3] = r /\ list[4] = s
  <2>1. p \in PieceSet /\ q \in PieceSet /\ r \in PieceSet /\ s \in PieceSet
    BY DEF Fits
  <2> QED
    BY <2>1
<1>2. pos[0] = 0 /\ pos[1] = a /\ pos[2] = b /\ pos[3] = c /\ pos[4] = len
  OBVIOUS
<1> HIDE DEF pos, list
<1>3. \A k \in 0 .. 4 : pos[k] \in Int
  <2> TAKE k \in 0 .. 4
  <2>0. CASE k = 0
    BY <1>2, <2>0
  <2>1. CASE k = 1
    BY <1>2, <2>1
  <2>2. CASE k = 2
    BY <1>2, <2>2
  <2>3. CASE k = 3
    BY <1>2, <2>3
  <2>4. CASE k = 4
    BY <1>2, <2>4
  <2> QED
    BY <2>0, <2>1, <2>2, <2>3, <2>4
<1>4. \A k \in 1 .. 4 : Fits(list[k], i, 0, pos[k - 1], pos[k])
  <2> TAKE k \in 1 .. 4
  <2>1. CASE k = 1
    <3>1. k - 1 = 0
      BY <2>1
    <3> QED
      BY <1>1, <1>2, <2>1, <3>1
  <2>2. CASE k = 2
    <3>1. k - 1 = 1
      BY <2>2
    <3> QED
      BY <1>1, <1>2, <2>2, <3>1
  <2>3. CASE k = 3
    <3>1. k - 1 = 2
      BY <2>3
    <3> QED
      BY <1>1, <1>2, <2>3, <3>1
  <2>4. CASE k = 4
    <3>1. k - 1 = 3
      BY <2>4
    <3> QED
      BY <1>1, <1>2, <2>4, <3>1
  <2> QED
    BY <2>1, <2>2, <2>3, <2>4
<1>5. Row(list, i, 0, pos)
  BY <1>1, <1>3, <1>4 DEF Row
<1>6. Chained(Pieces(list), i, 0, 0, len)
  <2>1. Chained(Pieces(list), i, pos[0], 0, pos[Len(list)])
    <3>1. 0 \in Int
      OBVIOUS
    <3> QED
      BY <1>5, <3>1, PiecesChained
  <2> QED
    BY <1>1, <1>2, <2>1
<1> QED
  BY <1>6, ChainInStep DEF list

\* Fewer pieces have empty ones behind them.
LEMMA NoPiece ==
  ASSUME NEW i, NEW a \in Int
  PROVE  Fits(Piece(0, 0, 0, 0), i, 0, a, a)
BY DEF Fits, Piece, PieceSet

LEMMA PieceFits ==
  ASSUME NEW i \in Int, NEW a \in Int, NEW n \in Nat, NEW ks, n # 0 => ks = a, ks \in Int,
         NEW b, b = a + n
  PROVE  Fits(Piece(i, a, ks, n), i, 0, a, b)
BY DEF Fits, Piece, PieceSet

LEMMA ThreePieces ==
  ASSUME NEW i, NEW a \in Nat, NEW b \in Nat, NEW len \in Nat \ {0},
         NEW p, NEW q, NEW r, Fits(p, i, 0, 0, a), Fits(q, i, 0, a, b), Fits(r, i, 0, b, len)
  PROVE  InStep(Pieces(<<p, q, r>>), i, len)
<1> DEFINE list == <<p, q, r>>
           pos  == [k \in 0 .. 3 |-> CASE k = 0 -> 0 [] k = 1 -> a [] k = 2 -> b [] k = 3 -> len]
<1>1. list \in Seq(PieceSet) /\ Len(list) = 3 /\ list[1] = p /\ list[2] = q /\ list[3] = r
  <2>1. p \in PieceSet /\ q \in PieceSet /\ r \in PieceSet
    BY DEF Fits
  <2> QED
    BY <2>1
<1>2. pos[0] = 0 /\ pos[1] = a /\ pos[2] = b /\ pos[3] = len
  OBVIOUS
<1> HIDE DEF pos, list
<1>3. \A k \in 0 .. 3 : pos[k] \in Int
  <2> TAKE k \in 0 .. 3
  <2>0. CASE k = 0
    BY <1>2, <2>0
  <2>1. CASE k = 1
    BY <1>2, <2>1
  <2>2. CASE k = 2
    BY <1>2, <2>2
  <2>3. CASE k = 3
    BY <1>2, <2>3
  <2> QED
    BY <2>0, <2>1, <2>2, <2>3
<1>4. \A k \in 1 .. 3 : Fits(list[k], i, 0, pos[k - 1], pos[k])
  <2> TAKE k \in 1 .. 3
  <2>1. CASE k = 1
    <3>1. k - 1 = 0
      BY <2>1
    <3> QED
      BY <1>1, <1>2, <2>1, <3>1
  <2>2. CASE k = 2
    <3>1. k - 1 = 1
      BY <2>2
    <3> QED
      BY <1>1, <1>2, <2>2, <3>1
  <2>3. CASE k = 3
    <3>1. k - 1 = 2
      BY <2>3
    <3> QED
      BY <1>1, <1>2, <2>3, <3>1
  <2> QED
    BY <2>1, <2>2, <2>3
<1>5. Row(list, i, 0, pos)
  BY <1>1, <1>3, <1>4 DEF Row
<1>6. Chained(Pieces(list), i, 0, 0, len)
  <2>1. Chained(Pieces(list), i, pos[0], 0, pos[Len(list)])
    <3>1. 0 \in Int
      OBVIOUS
    <3> QED
      BY <1>5, <3>1, PiecesChained
  <2> QED
    BY <1>1, <1>2, <2>1
<1> QED
  BY <1>6, ChainInStep DEF list

LEMMA TwoPieces ==
  ASSUME NEW i, NEW a \in Nat, NEW len \in Nat \ {0},
         NEW p, NEW q, Fits(p, i, 0, 0, a), Fits(q, i, 0, a, len)
  PROVE  InStep(Pieces(<<p, q>>), i, len)
<1> DEFINE list == <<p, q>>
           pos  == [k \in 0 .. 2 |-> CASE k = 0 -> 0 [] k = 1 -> a [] k = 2 -> len]
<1>1. list \in Seq(PieceSet) /\ Len(list) = 2 /\ list[1] = p /\ list[2] = q
  <2>1. p \in PieceSet /\ q \in PieceSet
    BY DEF Fits
  <2> QED
    BY <2>1
<1>2. pos[0] = 0 /\ pos[1] = a /\ pos[2] = len
  OBVIOUS
<1> HIDE DEF pos, list
<1>3. \A k \in 0 .. 2 : pos[k] \in Int
  <2> TAKE k \in 0 .. 2
  <2>0. CASE k = 0
    BY <1>2, <2>0
  <2>1. CASE k = 1
    BY <1>2, <2>1
  <2>2. CASE k = 2
    BY <1>2, <2>2
  <2> QED
    BY <2>0, <2>1, <2>2
<1>4. \A k \in 1 .. 2 : Fits(list[k], i, 0, pos[k - 1], pos[k])
  <2> TAKE k \in 1 .. 2
  <2>1. CASE k = 1
    <3>1. k - 1 = 0
      BY <2>1
    <3> QED
      BY <1>1, <1>2, <2>1, <3>1
  <2>2. CASE k = 2
    <3>1. k - 1 = 1
      BY <2>2
    <3> QED
      BY <1>1, <1>2, <2>2, <3>1
  <2> QED
    BY <2>1, <2>2
<1>5. Row(list, i, 0, pos)
  BY <1>1, <1>3, <1>4 DEF Row
<1>6. Chained(Pieces(list), i, 0, 0, len)
  <2>1. Chained(Pieces(list), i, pos[0], 0, pos[Len(list)])
    <3>1. 0 \in Int
      OBVIOUS
    <3> QED
      BY <1>5, <3>1, PiecesChained
  <2> QED
    BY <1>1, <1>2, <2>1
<1> QED
  BY <1>6, ChainInStep DEF list

---------------------------------------------------------------------------
(* The shortest of a group *)

LEMMA LeastIsMin ==
  ASSUME NEW S \in SUBSET Nat, S # {}
  PROVE  Min(S) \in S /\ \A x \in S : Min(S) <= x
BY LeastNatural DEF Min

LEMMA MinLenFacts ==
  ASSUME NEW lens, NEW g, g # {}, \A j \in g : lens[j] \in Nat
  PROVE  /\ MinLen(lens, g) \in Nat /\ \A j \in g : MinLen(lens, g) <= lens[j]
         /\ \E j \in g : MinLen(lens, g) = lens[j]
<1> DEFINE S == {lens[j] : j \in g}
<1>1. S \in SUBSET Nat /\ S # {}
  OBVIOUS
<1>2. MinLen(lens, g) = Min(S)
  BY DEF MinLen
<1>3. Min(S) \in S /\ \A x \in S : Min(S) <= x
  <2> HIDE DEF S
  <2> QED
    BY <1>1, LeastIsMin
<1> QED
  BY <1>1, <1>2, <1>3

---------------------------------------------------------------------------
(* EEA3 *)

RoundSizes == {16, 32, 64}

LEMMA RoundDownFacts ==
  ASSUME NEW n \in Nat, NEW R \in RoundSizes
  PROVE  RoundDown(n, R) \in Nat /\ RoundDown(n, R) <= n
<1>1. CASE R = 16
  BY <1>1 DEF RoundDown
<1>2. CASE R = 32
  BY <1>2 DEF RoundDown
<1>3. CASE R = 64
  BY <1>3 DEF RoundDown
<1> QED
  BY <1>1, <1>2, <1>3 DEF RoundSizes

\* One buffer
LEMMA AloneInStep ==
  ASSUME NEW R \in RoundSizes, NEW i \in Int, NEW len \in Nat \ {0}
  PROVE  InStep(Pieces(Eea3Alone(R, i, 0, 0, len)), i, len)
<1> DEFINE d == RoundDown(len, R)
<1>1. d \in Nat /\ d <= len
  BY RoundDownFacts
<1>2. len - 0 = len /\ 0 + d = d /\ len - 0 - d = len - d /\ len - d \in Nat
  BY <1>1
<1>3. Eea3Alone(R, i, 0, 0, len) = <<Piece(i, 0, 0, d), Piece(i, d, d, len - d)>>
  BY <1>2 DEF Eea3Alone
<1> HIDE DEF d
<1>4. Fits(Piece(i, 0, 0, d), i, 0, 0, d)
  BY <1>1, PieceFits
<1>5. Fits(Piece(i, d, d, len - d), i, 0, d, len)
  <2>1. d \in Int /\ len = d + (len - d)
    BY <1>1
  <2> QED
    BY <1>2, <2>1, PieceFits
<1> QED
  BY <1>1, <1>3, <1>4, <1>5, TwoPieces

LEMMA OneAndTwo ==
  ASSUME NEW S, NEW p \in S, NEW q \in S, NEW r \in S
  PROVE  <<p>> \o <<q, r>> = <<p, q, r>>
<1> DEFINE s == <<p>> \o <<q, r>>
           t == <<p, q, r>>
<1>1. s \in Seq(S) /\ t \in Seq(S) /\ Len(s) = 3 /\ Len(t) = 3
  OBVIOUS
<1>2. s[1] = p /\ s[2] = q /\ s[3] = r /\ t[1] = p /\ t[2] = q /\ t[3] = r
  OBVIOUS
<1> HIDE DEF s, t
<1>3. \A k \in 1 .. 3 : s[k] = t[k]
  <2> TAKE k \in 1 .. 3
  <2>1. k = 1 \/ k = 2 \/ k = 3
    OBVIOUS
  <2> QED
    BY <1>2, <2>1
<1>4. s = t
  BY <1>1, <1>3
<1> QED
  BY <1>4 DEF s, t

\* One buffer of a group
LEMMA GroupInStep ==
  ASSUME NEW R \in RoundSizes, NEW lens, NEW g, NEW i \in g, i \in Int,
         \A j \in g : lens[j] \in Nat \ {0}
  PROVE  InStep(Eea3Group(R, lens, g, i), i, lens[i])
<1> DEFINE len    == lens[i]
           min    == MinLen(lens, g)
           words  == RoundUp(min, 4)
           remain == Max({0, len - words})
           done   == len - remain
           d      == RoundDown(len - done, R)
<1>1. len \in Nat \ {0} /\ min \in Nat /\ min <= len
  BY MinLenFacts
<1> HIDE DEF min
<1>2. words \in Nat /\ min <= words
  BY <1>1 DEF RoundUp
<1> HIDE DEF words, len
<1>3. done \in Nat /\ done <= len /\ (done # len => done = words)
  <2>1. remain = IF len <= words THEN 0 ELSE len - words
    BY <1>1, <1>2 DEF Max
  <2> HIDE DEF remain
  <2> QED
    BY <1>1, <1>2, <2>1
<1>4. Eea3Group(R, lens, g, i) =
        Pieces(<<Piece(i, 0, 0, done)>>
               \o <<Piece(i, done, words, d), Piece(i, done + d, words + d, len - done - d)>>)
  BY DEF Eea3Group, Eea3Alone, len, words, min
<1> HIDE DEF done
<1>5. d \in Nat /\ d <= len - done
  <2>1. len - done \in Nat
    BY <1>1, <1>3
  <2> QED
    BY <2>1, RoundDownFacts
<1> HIDE DEF d
<1>6. Fits(Piece(i, 0, 0, done), i, 0, 0, done)
  BY <1>3, PieceFits
<1> DEFINE c == done + d
<1>7. c \in Nat /\ c <= len /\ len - c = len - done - d /\ len - c \in Nat
  BY <1>1, <1>3, <1>5
<1>8. Fits(Piece(i, done, words, d), i, 0, done, c)
  <2>1. d # 0 => words = done
    BY <1>1, <1>3, <1>5
  <2> QED
    BY <1>2, <1>3, <1>5, <2>1, PieceFits
<1>9. Fits(Piece(i, c, words + d, len - c), i, 0, c, len)
  <2>1. len - c # 0 => words + d = c
    BY <1>1, <1>2, <1>3, <1>5
  <2>2. words + d \in Int /\ c \in Int /\ len = c + (len - c)
    BY <1>1, <1>2, <1>5, <1>7
  <2> HIDE DEF c
  <2> QED
    BY <1>7, <2>1, <2>2, PieceFits
<1>10. \A p, q, r \in PieceSet : <<p>> \o <<q, r>> = <<p, q, r>>
  BY OneAndTwo
<1>11. Eea3Group(R, lens, g, i) =
         Pieces(<<Piece(i, 0, 0, done), Piece(i, done, words, d), Piece(i, c, words + d, len - c)>>)
  <2>1. /\ Piece(i, 0, 0, done) \in PieceSet /\ Piece(i, done, words, d) \in PieceSet
        /\ Piece(i, c, words + d, len - c) \in PieceSet
    BY <1>6, <1>8, <1>9 DEF Fits
  <2> QED
    BY <1>4, <1>7, <1>10, <2>1
<1> HIDE DEF c
<1> QED
  BY <1>1, <1>3, <1>6, <1>7, <1>8, <1>9, <1>11, ThreePieces DEF len

---------------------------------------------------------------------------
(* Groups *)

\* How wide the next group is
Widest(left, widths) == Max({k \in widths : k <= left})

WidthsOk(widths) == 1 \in widths /\ \A k \in widths : k \in Nat /\ 1 <= k /\ k <= 16

\* There is a width for any number of packets.
LEMMA WidestFacts ==
  ASSUME NEW widths, WidthsOk(widths), NEW left \in Nat \ {0}
  PROVE  LET w == Widest(left, widths) IN
         /\ w \in widths /\ w \in Nat /\ 1 <= w /\ w <= 16 /\ w <= left
         /\ \A k \in widths : k <= left => k <= w
<1> DEFINE S == {k \in widths : k <= left}
           M == {16 - k : k \in S}
<1>1. 1 \in S /\ \A k \in S : k \in Nat /\ 1 <= k /\ k <= 16
  BY DEF WidthsOk
<1>2. PICK m \in M : \A x \in M : m <= x
  <2>1. M \in SUBSET Nat /\ M # {}
    <3> HIDE DEF S
    <3> QED
      BY <1>1
  <2> HIDE DEF M
  <2> QED
    BY <2>1, LeastNatural
<1>3. PICK k \in S : m = 16 - k
  BY <1>2
<1>4. \A x \in S : k >= x
  <2> TAKE x \in S
  <2>1. 16 - x \in M
    OBVIOUS
  <2>2. 16 - k <= 16 - x
    BY <1>2, <1>3, <2>1
  <2>3. k \in Nat /\ x \in Nat
    BY <1>1, <1>3
  <2> HIDE DEF S, M
  <2> QED
    BY <2>2, <2>3
<1> HIDE DEF S, M
<1>5. Max(S) \in S /\ \A x \in S : Max(S) >= x
  BY <1>3, <1>4 DEF Max
<1>6. Widest(left, widths) = Max(S)
  BY DEF Widest, S
<1> QED
  BY <1>1, <1>5, <1>6 DEF S

\* A group within lo .. hi; those of 16 packets come first.
IsGroup(g, lo, hi, widths) ==
  \E a \in lo .. hi : \E w \in widths :
    /\ g = a .. a + w - 1 /\ a + w - 1 <= hi
    /\ w = 16 => \E j \in Nat : a = lo + (16 * j)

\* Groups that take all of lo .. hi
Tiles(s, lo, hi, widths) ==
  /\ s \in Seq(SUBSET Int)
  /\ \A k \in 1 .. Len(s) : IsGroup(s[k], lo, hi, widths)
  /\ \A i \in lo .. hi : \E k \in 1 .. Len(s) : i \in s[k]

\* Prepending
LEMMA PrependFacts ==
  ASSUME NEW S, NEW s \in Seq(S), NEW x \in S
  PROVE  LET r == <<x>> \o s IN
         /\ r \in Seq(S) /\ Len(r) = Len(s) + 1 /\ r[1] = x
         /\ \A k \in 1 .. Len(s) : r[k + 1] = s[k]
OBVIOUS

\* One group more in front
LEMMA OneGroupMore ==
  ASSUME NEW widths, WidthsOk(widths), NEW lo \in Int, NEW hi \in Int, NEW left \in Nat \ {0},
         left = hi - lo + 1, NEW w, w = Widest(left, widths),
         NEW s, Tiles(s, lo + w, hi, widths)
  PROVE  Tiles(<<lo .. lo + w - 1>> \o s, lo, hi, widths)
<1> DEFINE g == lo .. lo + w - 1
           r == <<g>> \o s
<1>1. w \in widths /\ w \in Nat /\ 1 <= w /\ w <= 16 /\ w <= left /\ \A k \in widths : k <= left => k <= w
  BY WidestFacts
<1>2. s \in Seq(SUBSET Int) /\ g \in SUBSET Int /\ Len(s) \in Nat
  BY <1>1 DEF Tiles
<1>3. r \in Seq(SUBSET Int) /\ Len(r) = Len(s) + 1 /\ r[1] = g /\ \A k \in 1 .. Len(s) : r[k + 1] = s[k]
  <2> HIDE DEF g
  <2> QED
    BY <1>2, PrependFacts
<1> HIDE DEF r
<1>4. IsGroup(g, lo, hi, widths)
  <2>1. lo \in lo .. hi /\ lo + w - 1 <= hi
    BY <1>1
  <2>2. lo = lo + (16 * 0) /\ 0 \in Nat
    OBVIOUS
  <2> QED
    BY <1>1, <2>1, <2>2 DEF IsGroup
<1>5. ASSUME NEW k \in 1 .. Len(s) PROVE IsGroup(s[k], lo, hi, widths)
  <2>1. PICK a \in lo + w .. hi, v \in widths :
          /\ s[k] = a .. a + v - 1 /\ a + v - 1 <= hi
          /\ v = 16 => \E j \in Nat : a = lo + w + (16 * j)
    BY DEF Tiles, IsGroup
  <2>2. a \in lo .. hi
    BY <1>1
  <2>3. ASSUME v = 16 PROVE \E j \in Nat : a = lo + (16 * j)
    <3>1. PICK j \in Nat : a = lo + w + (16 * j)
      BY <2>1, <2>3
    <3>2. v <= left
      BY <1>1, <2>1, <2>2, <2>3
    <3>3. w = 16
      BY <1>1, <2>3, <3>2
    <3>4. a = lo + (16 * (j + 1)) /\ j + 1 \in Nat
      BY <3>1, <3>3
    <3> QED
      BY <3>4
  <2> QED
    BY <2>1, <2>2, <2>3 DEF IsGroup
<1> HIDE DEF g
<1>6. ASSUME NEW k \in 1 .. Len(r) PROVE IsGroup(r[k], lo, hi, widths)
  <2>1. CASE k = 1
    BY <1>3, <1>4, <2>1
  <2>2. CASE k # 1
    <3>1. k - 1 \in 1 .. Len(s) /\ (k - 1) + 1 = k
      BY <1>2, <1>3, <2>2
    <3>2. r[k] = s[k - 1]
      BY <1>3, <3>1
    <3> QED
      BY <1>5, <3>1, <3>2
  <2> QED
    BY <2>1, <2>2
<1>7. ASSUME NEW i \in lo .. hi PROVE \E k \in 1 .. Len(r) : i \in r[k]
  <2>1. CASE i \in g
    <3>1. 1 \in 1 .. Len(r)
      BY <1>2, <1>3
    <3> QED
      BY <1>3, <2>1, <3>1
  <2>2. CASE i \notin g
    <3>1. i \in lo + w .. hi
      BY <1>1, <2>2 DEF g
    <3>2. PICK k \in 1 .. Len(s) : i \in s[k]
      BY <3>1 DEF Tiles
    <3>3. k + 1 \in 1 .. Len(r) /\ r[k + 1] = s[k]
      BY <1>2, <1>3
    <3> QED
      BY <3>2, <3>3
  <2> QED
    BY <2>1, <2>2
<1>8. Tiles(r, lo, hi, widths)
  BY <1>3, <1>6, <1>7 DEF Tiles
<1> QED
  BY <1>8 DEF r, g

\* The groups take all packets.
LEMMA GroupsTile ==
  ASSUME NEW widths, WidthsOk(widths), NEW n \in Nat
  PROVE  Tiles(Groups(n, widths), 1, n, widths)
<1> DEFINE S      == Seq(SUBSET Int)
           T      == [l \in 0 .. n |-> {s \in S : Tiles(s, n - l + 1, n, widths)}]
           W(l)   == Widest(l, widths)
           prev   == [l \in 1 .. n |-> l - W(l)]
           Next1(x, l) == <<n - l + 1 .. n - l + 1 + W(l) - 1>> \o x
           step   == [l \in 1 .. n |-> [x \in S |-> Next1(x, l)]]
           Is(f)  == f = [l \in 0 .. n |-> IF l = 0 THEN <<>> ELSE Next1(f[l - W(l)], l)]
<1>1. \A l \in 1 .. n : W(l) \in Nat /\ 1 <= W(l) /\ W(l) <= l
  BY WidestFacts
<1> HIDE DEF W
<1>2. \A l \in 1 .. n : prev[l] = l - W(l) /\ prev[l] \in 0 .. l - 1 /\ prev[l] \in 0 .. n
  BY <1>1
<1>3. <<>> \in T[0]
  <2>1. <<>> \in S /\ Len(<<>>) = 0 /\ n - 0 + 1 = n + 1
    OBVIOUS
  <2>2. Tiles(<<>>, n - 0 + 1, n, widths)
    BY <2>1 DEF Tiles
  <2>3. 0 \in 0 .. n
    OBVIOUS
  <2> QED
    BY <2>1, <2>2, <2>3
<1>4. ASSUME NEW l \in 1 .. n, NEW x \in T[prev[l]]
      PROVE  Next1(x, l) \in T[l] /\ step[l][x] = Next1(x, l)
  <2>1. l \in 0 .. n /\ l \in Nat \ {0} /\ prev[l] \in 0 .. n
    BY <1>2
  <2>2. x \in S /\ Tiles(x, n - prev[l] + 1, n, widths)
    BY <2>1
  <2>3. n - prev[l] + 1 = (n - l + 1) + W(l) /\ n - l + 1 \in Int /\ l = n - (n - l + 1) + 1
    <3>1. prev[l] = l - W(l) /\ W(l) \in Nat
      BY <1>1, <1>2
    <3> HIDE DEF prev
    <3> QED
      BY <3>1
  <2>4. Tiles(Next1(x, l), n - l + 1, n, widths)
    BY <2>1, <2>2, <2>3, OneGroupMore DEF W
  <2>5. Next1(x, l) \in S
    BY <2>4 DEF Tiles
  <2> QED
    BY <2>1, <2>2, <2>4, <2>5
<1> HIDE DEF T, prev, step, Next1
<1>5. PICK h : Follows(h, n, prev, <<>>, step) /\ StaysIn(h, n, T)
  <2>1. \A l \in 1 .. n : \A x \in T[prev[l]] : step[l][x] \in T[l]
    BY <1>4
  <2>2. Steps(n, prev, T, <<>>, step)
    BY <1>2, <1>3, <2>1 DEF Steps
  <2> QED
    BY <2>2, RecursionDefines
<1>6. \E f : Is(f)
  <2>2. ASSUME NEW l \in 1 .. n PROVE h[l] = Next1(h[l - W(l)], l)
    <3>1. l # 0 /\ l \in 0 .. n /\ prev[l] \in 0 .. n
      BY <1>2
    <3>2. h[l] = step[l][h[prev[l]]] /\ h[prev[l]] \in T[prev[l]]
      BY <1>5, <3>1 DEF Follows, StaysIn
    <3> QED
      BY <1>2, <1>4, <3>2
  <2>3. h[0] = <<>> /\ h = [l \in 0 .. n |-> h[l]]
    BY <1>5 DEF Follows
  <2>4. \A l \in 0 .. n : l = 0 \/ l \in 1 .. n
    OBVIOUS
  <2>5. \A l \in 0 .. n : h[l] = IF l = 0 THEN <<>> ELSE Next1(h[l - W(l)], l)
    BY <2>2, <2>3, <2>4
  <2> QED
    BY <2>3, <2>5
<1> DEFINE f == CHOOSE f : Is(f)
<1>7. Groups(n, widths) = f[n]
  BY DEF Groups, Next1, W, Widest
<1>8. Is(f)
  BY <1>6
<1> HIDE DEF f
<1>9. StaysIn(f, n, T)
  <2>1. f[0] = <<>>
    BY <1>8
  <2>2. ASSUME NEW l \in 1 .. n, f[prev[l]] \in T[prev[l]] PROVE f[l] \in T[l]
    <3>1. l # 0 /\ l \in 0 .. n
      OBVIOUS
    <3>2. f[l] = Next1(f[l - W(l)], l)
      BY <1>8, <3>1
    <3> QED
      BY <1>2, <1>4, <2>2, <3>2
  <2>3. f[0] \in T[0]
    BY <1>3, <2>1
  <2>4. StepsStay(f, n, prev, T)
    BY <1>2, <2>2, <2>3 DEF StepsStay
  <2> QED
    BY <2>4, RecursionStays
<1> QED
  <2>1. n \in 0 .. n /\ n - n + 1 = 1
    OBVIOUS
  <2>2. f[n] \in T[n]
    BY <1>9, <2>1 DEF StaysIn
  <2> QED
    BY <1>7, <2>1, <2>2 DEF T

\* Each packet is in a group of its own kind.
LEMMA GroupFacts ==
  ASSUME NEW widths, WidthsOk(widths), NEW n \in Nat, NEW i \in 1 .. n
  PROVE  LET g == GroupOf(i, Groups(n, widths)) IN
         /\ i \in g /\ g \in SUBSET (1 .. n)
         /\ \E a \in 1 .. n : \E w \in Nat :
              /\ 1 <= w /\ w <= 16 /\ g = a .. a + w - 1 /\ a + w - 1 <= n
              /\ w = 16 => \E j \in Nat : a = 1 + (16 * j)
<1> DEFINE s == Groups(n, widths)
           G == {s[k] : k \in DOMAIN s}
           g == CHOOSE x \in G : i \in x
<1>1. Tiles(s, 1, n, widths)
  BY GroupsTile
<1>2. GroupOf(i, s) = g
  BY DEF GroupOf
<1> HIDE DEF s
<1>3. g \in G /\ i \in g
  <2>1. PICK k \in 1 .. Len(s) : i \in s[k]
    BY <1>1 DEF Tiles
  <2>2. k \in DOMAIN s
    BY <1>1 DEF Tiles
  <2> QED
    BY <2>1, <2>2
<1> HIDE DEF g
<1>4. PICK k \in 1 .. Len(s) : g = s[k]
  BY <1>1, <1>3 DEF Tiles
<1>5. IsGroup(g, 1, n, widths)
  BY <1>1, <1>4 DEF Tiles
<1>6. PICK a \in 1 .. n, w \in widths :
        /\ g = a .. a + w - 1 /\ a + w - 1 <= n
        /\ w = 16 => \E j \in Nat : a = 1 + (16 * j)
  BY <1>5 DEF IsGroup
<1>7. w \in Nat /\ 1 <= w /\ w <= 16
  BY DEF WidthsOk
<1>8. g \in SUBSET (1 .. n)
  BY <1>6, <1>7
<1> QED
  BY <1>2, <1>3, <1>6, <1>7, <1>8 DEF s

---------------------------------------------------------------------------
(* The functions of EEA3 *)

EachEea3InStep(lens, r) ==
  InRange(lens, ZUC_MAX_BYTELEN) => \A i \in DOMAIN lens : InStep(r[i], i, lens[i])

Eea3Right(lens, r) ==
  IF InRange(lens, ZUC_MAX_BYTELEN) THEN \A i \in DOMAIN lens : InStep(r[i], i, lens[i])
  ELSE \A i \in DOMAIN r : r[i] = Untouched

LEMMA Eea3CheckedRight ==
  ASSUME NEW lens, NEW r, EachEea3InStep(lens, r)
  PROVE  Eea3Right(lens, Eea3Checked(lens, r))
BY DEF EachEea3InStep, Eea3Right, Eea3Checked, InRange, ZUC_MIN_BYTELEN

\* Lengths in range are those of something.
LEMMA RangeFacts ==
  ASSUME NEW lens \in Seq(Nat), NEW max, InRange(lens, max)
  PROVE  \A i \in DOMAIN lens : i \in Int /\ lens[i] \in Nat \ {0}
BY DEF InRange

LEMMA OneOfEea3 ==
  ASSUME NEW lens \in Seq(Nat), InRange(lens, ZUC_MAX_BYTELEN), NEW i \in DOMAIN lens,
         NEW R \in RoundSizes
  PROVE  InStep(Pieces(Eea3Alone(R, i, 0, 0, lens[i])), i, lens[i])
<1>1. i \in Int /\ lens[i] \in Nat \ {0}
  BY RangeFacts
<1> QED
  BY <1>1, AloneInStep

LEMMA GroupOfEea3 ==
  ASSUME NEW lens \in Seq(Nat), InRange(lens, ZUC_MAX_BYTELEN), NEW g \in SUBSET DOMAIN lens,
         NEW i \in g, NEW R \in RoundSizes
  PROVE  InStep(Eea3Group(R, lens, g, i), i, lens[i])
<1>1. i \in Int /\ \A j \in g : lens[j] \in Nat \ {0}
  BY RangeFacts
<1> QED
  BY <1>1, GroupInStep

LEMMA RoundsOk == 16 \in RoundSizes /\ 32 \in RoundSizes /\ 64 \in RoundSizes
BY DEF RoundSizes

\* The widths of the drivers
LEMMA WidthsOfZuc == WidthsOk({4, 1}) /\ WidthsOk({8, 4, 1}) /\ WidthsOk({16, 8, 4, 1})
BY DEF WidthsOk

\* The group of a buffer
LEMMA OwnGroup ==
  ASSUME NEW lens \in Seq(Nat), NEW i \in DOMAIN lens, NEW widths, WidthsOk(widths)
  PROVE  LET g == GroupOf(i, Groups(Len(lens), widths)) IN i \in g /\ g \in SUBSET DOMAIN lens
<1>1. DOMAIN lens = 1 .. Len(lens) /\ Len(lens) \in Nat
  OBVIOUS
<1> QED
  BY <1>1, GroupFacts

\* zuc_eea3_1_buffer
LEMMA Eea3OneRight ==
  ASSUME NEW lens \in Seq(Nat), Len(lens) = 1
  PROVE  /\ Eea3Right(lens, zuc_eea3_1_buffer_no_aesni(lens))
         /\ Eea3Right(lens, zuc_eea3_1_buffer_sse(lens))
         /\ Eea3Right(lens, zuc_eea3_1_buffer_avx(lens))
         /\ Eea3Right(lens, zuc_eea3_1_buffer_avx2(lens))
         /\ Eea3Right(lens, zuc_eea3_1_buffer_avx512(lens))
<1> DEFINE r(R) == [i \in {1} |-> Pieces(Eea3Alone(R, i, 0, 0, lens[i]))]
<1>1. DOMAIN lens = {1}
  OBVIOUS
<1>2. ASSUME NEW R \in RoundSizes PROVE Eea3Right(lens, Eea3Checked(lens, r(R)))
  <2>1. EachEea3InStep(lens, r(R))
    <3> SUFFICES ASSUME InRange(lens, ZUC_MAX_BYTELEN), NEW i \in DOMAIN lens
                 PROVE  InStep(r(R)[i], i, lens[i])
      BY DEF EachEea3InStep
    <3>1. InStep(Pieces(Eea3Alone(R, i, 0, 0, lens[i])), i, lens[i])
      BY OneOfEea3
    <3> QED
      BY <1>1, <3>1
  <2> HIDE DEF r
  <2> QED
    BY <2>1, Eea3CheckedRight
<1>3. /\ zuc_eea3_1_buffer_no_aesni(lens) = Eea3Checked(lens, r(16))
      /\ zuc_eea3_1_buffer_sse(lens) = Eea3Checked(lens, r(16))
      /\ zuc_eea3_1_buffer_avx(lens) = Eea3Checked(lens, r(16))
      /\ zuc_eea3_1_buffer_avx2(lens) = Eea3Checked(lens, r(32))
      /\ zuc_eea3_1_buffer_avx512(lens) = Eea3Checked(lens, r(64))
  BY DEF zuc_eea3_1_buffer_no_aesni, zuc_eea3_1_buffer_sse, zuc_eea3_1_buffer_avx,
         zuc_eea3_1_buffer_avx2, zuc_eea3_1_buffer_avx512, eea3_1_buffer_no_aesni,
         eea3_1_buffer_sse, eea3_1_buffer_avx, eea3_1_buffer_avx2, eea3_1_buffer_avx512
<1> HIDE DEF r
<1> QED
  BY <1>2, <1>3, RoundsOk

\* zuc_eea3_4_buffer
LEMMA Eea3FourRight ==
  ASSUME NEW lens \in Seq(Nat), Len(lens) = 4
  PROVE  /\ Eea3Right(lens, zuc_eea3_4_buffer_no_aesni(lens))
         /\ Eea3Right(lens, zuc_eea3_4_buffer_sse(lens))
         /\ Eea3Right(lens, zuc_eea3_4_buffer_avx(lens))
<1> DEFINE r == [i \in 1 .. 4 |-> Eea3Group(16, lens, 1 .. 4, i)]
<1>1. DOMAIN lens = 1 .. 4
  OBVIOUS
<1>2. EachEea3InStep(lens, r)
  <2> SUFFICES ASSUME InRange(lens, ZUC_MAX_BYTELEN), NEW i \in DOMAIN lens
               PROVE  InStep(r[i], i, lens[i])
    BY DEF EachEea3InStep
  <2>1. 1 .. 4 \in SUBSET DOMAIN lens /\ i \in 1 .. 4
    BY <1>1
  <2>2. InStep(Eea3Group(16, lens, 1 .. 4, i), i, lens[i])
    BY <2>1, GroupOfEea3, RoundsOk
  <2> QED
    BY <2>1, <2>2
<1>3. /\ zuc_eea3_4_buffer_no_aesni(lens) = Eea3Checked(lens, r)
      /\ zuc_eea3_4_buffer_sse(lens) = Eea3Checked(lens, r)
      /\ zuc_eea3_4_buffer_avx(lens) = Eea3Checked(lens, r)
  BY DEF zuc_eea3_4_buffer_no_aesni, zuc_eea3_4_buffer_sse, zuc_eea3_4_buffer_avx,
         eea3_4_buffer_no_aesni, eea3_4_buffer_sse, eea3_4_buffer_avx
<1> HIDE DEF r
<1> QED
  BY <1>2, <1>3, Eea3CheckedRight

\* zuc_eea3_n_buffer
LEMMA Eea3NNoAesniRight ==
  ASSUME NEW lens \in Seq(Nat)
  PROVE  Eea3Right(lens, zuc_eea3_n_buffer_no_aesni(lens))
<1> DEFINE g(i) == GroupOf(i, Groups(Len(lens), {4, 1}))
           r == [i \in DOMAIN lens |->
                   IF Cardinality(g(i)) = 4 THEN eea3_4_buffer_no_aesni(lens, g(i), i)
                        ELSE eea3_1_buffer_no_aesni(lens, i)]
<1>1. ASSUME InRange(lens, ZUC_MAX_BYTELEN), NEW i \in DOMAIN lens PROVE InStep(r[i], i, lens[i])
  <2>1. i \in g(i) /\ g(i) \in SUBSET DOMAIN lens
    BY OwnGroup, WidthsOfZuc
  <2> HIDE DEF g
  <2>2. InStep(Pieces(Eea3Alone(16, i, 0, 0, lens[i])), i, lens[i])
    BY <1>1, OneOfEea3, RoundsOk
  <2>3. InStep(Eea3Group(16, lens, g(i), i), i, lens[i])
    BY <1>1, <2>1, GroupOfEea3, RoundsOk
  <2> QED
    BY <2>2, <2>3 DEF eea3_4_buffer_no_aesni, eea3_1_buffer_no_aesni
<1>2. EachEea3InStep(lens, r)
  <2> HIDE DEF r
  <2> QED
    BY <1>1 DEF EachEea3InStep
<1>3. zuc_eea3_n_buffer_no_aesni(lens) = Eea3Checked(lens, r)
  BY DEF zuc_eea3_n_buffer_no_aesni
<1> HIDE DEF r
<1> QED
  BY <1>2, <1>3, Eea3CheckedRight

LEMMA Eea3NSseRight ==
  ASSUME NEW lens \in Seq(Nat)
  PROVE  Eea3Right(lens, zuc_eea3_n_buffer_sse(lens))
<1> DEFINE g(i) == GroupOf(i, Groups(Len(lens), {4, 1}))
           r == [i \in DOMAIN lens |->
                   IF Cardinality(g(i)) = 4 THEN eea3_4_buffer_sse(lens, g(i), i)
                        ELSE eea3_1_buffer_sse(lens, i)]
<1>1. ASSUME InRange(lens, ZUC_MAX_BYTELEN), NEW i \in DOMAIN lens PROVE InStep(r[i], i, lens[i])
  <2>1. i \in g(i) /\ g(i) \in SUBSET DOMAIN lens
    BY OwnGroup, WidthsOfZuc
  <2> HIDE DEF g
  <2>2. InStep(Pieces(Eea3Alone(16, i, 0, 0, lens[i])), i, lens[i])
    BY <1>1, OneOfEea3, RoundsOk
  <2>3. InStep(Eea3Group(16, lens, g(i), i), i, lens[i])
    BY <1>1, <2>1, GroupOfEea3, RoundsOk
  <2> QED
    BY <2>2, <2>3 DEF eea3_4_buffer_sse, eea3_1_buffer_sse
<1>2. EachEea3InStep(lens, r)
  <2> HIDE DEF r
  <2> QED
    BY <1>1 DEF EachEea3InStep
<1>3. zuc_eea3_n_buffer_sse(lens) = Eea3Checked(lens, r)
  BY DEF zuc_eea3_n_buffer_sse
<1> HIDE DEF r
<1> QED
  BY <1>2, <1>3, Eea3CheckedRight

LEMMA Eea3NAvxRight ==
  ASSUME NEW lens \in Seq(Nat)
  PROVE  Eea3Right(lens, zuc_eea3_n_buffer_avx(lens))
<1> DEFINE g(i) == GroupOf(i, Groups(Len(lens), {4, 1}))
           r == [i \in DOMAIN lens |->
                   IF Cardinality(g(i)) = 4 THEN eea3_4_buffer_avx(lens, g(i), i)
                        ELSE eea3_1_buffer_avx(lens, i)]
<1>1. ASSUME InRange(lens, ZUC_MAX_BYTELEN), NEW i \in DOMAIN lens PROVE InStep(r[i], i, lens[i])
  <2>1. i \in g(i) /\ g(i) \in SUBSET DOMAIN lens
    BY OwnGroup, WidthsOfZuc
  <2> HIDE DEF g
  <2>2. InStep(Pieces(Eea3Alone(16, i, 0, 0, lens[i])), i, lens[i])
    BY <1>1, OneOfEea3, RoundsOk
  <2>3. InStep(Eea3Group(16, lens, g(i), i), i, lens[i])
    BY <1>1, <2>1, GroupOfEea3, RoundsOk
  <2> QED
    BY <2>2, <2>3 DEF eea3_4_buffer_avx, eea3_1_buffer_avx
<1>2. EachEea3InStep(lens, r)
  <2> HIDE DEF r
  <2> QED
    BY <1>1 DEF EachEea3InStep
<1>3. zuc_eea3_n_buffer_avx(lens) = Eea3Checked(lens, r)
  BY DEF zuc_eea3_n_buffer_avx
<1> HIDE DEF r
<1> QED
  BY <1>2, <1>3, Eea3CheckedRight

LEMMA Eea3NAvx2Right ==
  ASSUME NEW lens \in Seq(Nat)
  PROVE  Eea3Right(lens, zuc_eea3_n_buffer_avx2(lens))
<1> DEFINE g(i) == GroupOf(i, Groups(Len(lens), {8, 4, 1}))
           r == [i \in DOMAIN lens |->
                   CASE Cardinality(g(i)) = 8 -> eea3_8_buffer_avx2(lens, g(i), i)
                        [] Cardinality(g(i)) = 4 -> eea3_4_buffer_avx(lens, g(i), i)
                        [] OTHER                 -> eea3_1_buffer_avx2(lens, i)]
<1>1. ASSUME InRange(lens, ZUC_MAX_BYTELEN), NEW i \in DOMAIN lens PROVE InStep(r[i], i, lens[i])
  <2>1. i \in g(i) /\ g(i) \in SUBSET DOMAIN lens
    BY OwnGroup, WidthsOfZuc
  <2> HIDE DEF g
  <2>2. InStep(Pieces(Eea3Alone(32, i, 0, 0, lens[i])), i, lens[i])
    BY <1>1, OneOfEea3, RoundsOk
  <2>3. InStep(Eea3Group(16, lens, g(i), i), i, lens[i])
    BY <1>1, <2>1, GroupOfEea3, RoundsOk
  <2>4. InStep(Eea3Group(32, lens, g(i), i), i, lens[i])
    BY <1>1, <2>1, GroupOfEea3, RoundsOk
  <2> QED
    BY <2>2, <2>3, <2>4 DEF eea3_8_buffer_avx2, eea3_4_buffer_avx, eea3_1_buffer_avx2
<1>2. EachEea3InStep(lens, r)
  <2> HIDE DEF r
  <2> QED
    BY <1>1 DEF EachEea3InStep
<1>3. zuc_eea3_n_buffer_avx2(lens) = Eea3Checked(lens, r)
  BY DEF zuc_eea3_n_buffer_avx2
<1> HIDE DEF r
<1> QED
  BY <1>2, <1>3, Eea3CheckedRight

LEMMA Eea3NAvx512Right ==
  ASSUME NEW lens \in Seq(Nat)
  PROVE  Eea3Right(lens, zuc_eea3_n_buffer_avx512(lens))
<1> DEFINE g(i) == GroupOf(i, Groups(Len(lens), {16, 8, 4, 1}))
           r == [i \in DOMAIN lens |->
                   CASE Cardinality(g(i)) = 16 -> eea3_16_buffer_avx512(lens, g(i), i)
                        [] Cardinality(g(i)) = 8  -> eea3_8_buffer_avx2(lens, g(i), i)
                        [] Cardinality(g(i)) = 4  -> eea3_4_buffer_avx(lens, g(i), i)
                        [] OTHER                  -> eea3_1_buffer_avx512(lens, i)]
<1>1. ASSUME InRange(lens, ZUC_MAX_BYTELEN), NEW i \in DOMAIN lens PROVE InStep(r[i], i, lens[i])
  <2>1. i \in g(i) /\ g(i) \in SUBSET DOMAIN lens
    BY OwnGroup, WidthsOfZuc
  <2> HIDE DEF g
  <2>2. InStep(Pieces(Eea3Alone(64, i, 0, 0, lens[i])), i, lens[i])
    BY <1>1, OneOfEea3, RoundsOk
  <2>3. InStep(Eea3Group(16, lens, g(i), i), i, lens[i])
    BY <1>1, <2>1, GroupOfEea3, RoundsOk
  <2>4. InStep(Eea3Group(32, lens, g(i), i), i, lens[i])
    BY <1>1, <2>1, GroupOfEea3, RoundsOk
  <2>5. InStep(Eea3Group(64, lens, g(i), i), i, lens[i])
    BY <1>1, <2>1, GroupOfEea3, RoundsOk
  <2> QED
    BY <2>2, <2>3, <2>4, <2>5 DEF eea3_16_buffer_avx512, eea3_8_buffer_avx2, eea3_4_buffer_avx, eea3_1_buffer_avx512
<1>2. EachEea3InStep(lens, r)
  <2> HIDE DEF r
  <2> QED
    BY <1>1 DEF EachEea3InStep
<1>3. zuc_eea3_n_buffer_avx512(lens) = Eea3Checked(lens, r)
  BY DEF zuc_eea3_n_buffer_avx512
<1> HIDE DEF r
<1> QED
  BY <1>2, <1>3, Eea3CheckedRight

---------------------------------------------------------------------------
(* EIA3 *)

WindowSizes == {4, 8, 16}

LEMMA WindowSizesOk ==
  /\ 4 \in WindowSizes /\ 8 \in WindowSizes /\ 16 \in WindowSizes
  /\ \A W \in WindowSizes : W \in Nat /\ W >= 4
BY DEF WindowSizes

\* The numbers of a message with "done" rounds behind it
LEMMA AloneNumbers ==
  ASSUME NEW W \in WindowSizes, NEW len \in Nat, NEW done \in Nat, 32 * (W * done) <= len
  PROVE  LET left == len - done * W * 32
             n    == left \div (W * 32)
             bits == left % (W * 32)
         IN  /\ left \in Nat /\ n \in Nat /\ bits \in Nat /\ bits < 32 * W
             /\ left = len - 32 * (W * done) /\ left = 32 * (W * n) + bits
             /\ W * done \in Nat /\ W * n \in Nat /\ W * (done + n) = W * done + W * n
<1>1. CASE W = 4
  BY <1>1
<1>2. CASE W = 8
  BY <1>2
<1>3. CASE W = 16
  BY <1>3
<1> QED
  BY <1>1, <1>2, <1>3 DEF WindowSizes

\* Rounds keep the first half of the window full.
LEMMA FullRoundsHold ==
  ASSUME NEW W \in WindowSizes, NEW k, Holds(k, W, W), NEW n \in Nat
  PROVE  Holds(FullRounds(W, k, n), W, W) /\ FullRounds(W, k, n).base = k.base + W * n
<1> DEFINE T      == [r \in 0 .. n |-> {x \in Window : Holds(x, W, W) /\ x.base = k.base + W * r}]
           prev   == [r \in 1 .. n |-> r - 1]
           Next1(x) == Eia3Round(W, Gen(x, W, W))
           step   == [r \in 1 .. n |-> [x \in Window |-> Next1(x)]]
           Is(f)  == f = [r \in 0 .. n |-> IF r = 0 THEN k ELSE Next1(f[r - 1])]
<1>1. W \in Nat \ {0} /\ W + W <= 2 * W /\ W + W > W /\ (W + W) - W = W
  BY WindowSizesOk
<1>2. \A r \in 1 .. n : prev[r] = r - 1 /\ prev[r] \in 0 .. r - 1 /\ prev[r] \in 0 .. n
  OBVIOUS
<1>3. k \in T[0]
  <2>1. k \in Window /\ k.base \in Nat
    BY DEF Holds
  <2>2. k.base + W * 0 = k.base /\ 0 \in 0 .. n
    BY <1>1, <2>1
  <2> QED
    BY <2>1, <2>2
<1>4. ASSUME NEW r \in 1 .. n, NEW x \in T[prev[r]]
      PROVE  Next1(x) \in T[r] /\ step[r][x] = Next1(x)
  <2>1. x \in Window /\ Holds(x, W, W) /\ x.base = k.base + W * prev[r] /\ r \in 0 .. n
    BY <1>2
  <2>2. Holds(Gen(x, W, W), W, W + W) /\ Gen(x, W, W).base = x.base
    BY <1>1, <2>1, GenFacts
  <2>3. Holds(Next1(x), W, (W + W) - W) /\ Next1(x).base = Gen(x, W, W).base + W
    BY <1>1, <2>2, RoundFacts
  <2>4. Holds(Next1(x), W, W) /\ Next1(x) \in Window
    <3>1. Holds(Next1(x), W, W)
      BY <1>1, <2>3
    <3> QED
      BY <3>1 DEF Holds
  <2>5. Next1(x).base = k.base + W * r
    <3>1. prev[r] = r - 1 /\ k.base \in Nat
      BY <1>2 DEF Holds
    <3>2. Next1(x).base = (k.base + W * (r - 1)) + W
      BY <2>1, <2>2, <2>3, <3>1
    <3> HIDE DEF Next1
    <3>3. W * (r - 1) + W = W * r /\ W * r \in Int /\ W * (r - 1) \in Int
      BY <1>1
    <3> QED
      BY <1>1, <3>1, <3>2, <3>3
  <2> QED
    BY <2>1, <2>4, <2>5
<1> HIDE DEF T, prev, step, Next1
<1>5. PICK h : Follows(h, n, prev, k, step) /\ StaysIn(h, n, T)
  <2>1. \A l \in 1 .. n : \A x \in T[prev[l]] : step[l][x] \in T[l]
    BY <1>4
  <2>2. Steps(n, prev, T, k, step)
    BY <1>2, <1>3, <2>1 DEF Steps
  <2> QED
    BY <2>2, RecursionDefines
<1>6. \E f : Is(f)
  <2>2. ASSUME NEW l \in 1 .. n PROVE h[l] = Next1(h[l - 1])
    <3>1. l # 0 /\ l \in 0 .. n /\ prev[l] \in 0 .. n
      BY <1>2
    <3>2. h[l] = step[l][h[prev[l]]] /\ h[prev[l]] \in T[prev[l]]
      BY <1>5, <3>1 DEF Follows, StaysIn
    <3> QED
      BY <1>2, <1>4, <3>2
  <2>3. h[0] = k /\ h = [l \in 0 .. n |-> h[l]]
    BY <1>5 DEF Follows
  <2>4. \A l \in 0 .. n : l = 0 \/ l \in 1 .. n
    OBVIOUS
  <2>5. \A l \in 0 .. n : h[l] = IF l = 0 THEN k ELSE Next1(h[l - 1])
    BY <2>2, <2>3, <2>4
  <2> QED
    BY <2>3, <2>5
<1> DEFINE f == CHOOSE f : Is(f)
<1>7. FullRounds(W, k, n) = f[n]
  BY DEF FullRounds, Next1
<1>8. Is(f)
  BY <1>6
<1> HIDE DEF f
<1>9. StaysIn(f, n, T)
  <2>1. f[0] = k
    BY <1>8
  <2>2. ASSUME NEW l \in 1 .. n, f[prev[l]] \in T[prev[l]] PROVE f[l] \in T[l]
    <3>1. l # 0 /\ l \in 0 .. n
      OBVIOUS
    <3>2. f[l] = Next1(f[l - 1])
      BY <1>8, <3>1
    <3> QED
      BY <1>2, <1>4, <2>2, <3>2
  <2>3. f[0] \in T[0]
    BY <1>3, <2>1
  <2>4. StepsStay(f, n, prev, T)
    BY <1>2, <2>2, <2>3 DEF StepsStay
  <2> QED
    BY <2>4, RecursionStays
<1> QED
  <2>1. n \in 0 .. n
    OBVIOUS
  <2>2. f[n] \in T[n]
    BY <1>9, <2>1 DEF StaysIn
  <2> QED
    BY <1>7, <2>1, <2>2 DEF T

\* No rounds change nothing.
LEMMA NoRounds ==
  ASSUME NEW W, NEW k
  PROVE  FullRounds(W, k, 0) = k
<1> DEFINE Is(f)  == f = [r \in 0 .. 0 |-> IF r = 0 THEN k ELSE Eia3Round(W, Gen(f[r - 1], W, W))]
           f      == CHOOSE f : Is(f)
<1>1. FullRounds(W, k, 0) = f[0]
  BY DEF FullRounds
<1>2. \E h : Is(h)
  <2> DEFINE h == [r \in 0 .. 0 |-> k]
  <2>1. \A r \in 0 .. 0 : r = 0
    OBVIOUS
  <2>2. Is(h)
    BY <2>1
  <2> QED
    BY <2>2
<1>3. Is(f)
  BY <1>2
<1> HIDE DEF f
<1>4. f[0] = k
  BY <1>3
<1> QED
  BY <1>1, <1>4

\* A last round that makes two words leaves these.
LEMMA ShortRoundHolds ==
  ASSUME NEW W \in WindowSizes, NEW k, Holds(k, W, W), NEW n \in Nat \ {0}
  PROVE  LET r == Eia3Round(W, Gen(FullRounds(W, k, n - 1), W, 2))
         IN  Holds(r, W, 2) /\ r.base = k.base + W * n
<1> DEFINE x == FullRounds(W, k, n - 1)
           y == Gen(x, W, 2)
           z == Eia3Round(W, y)
<1>1. n - 1 \in Nat /\ W \in Nat \ {0} /\ W + 2 <= 2 * W /\ W + 2 > W /\ (W + 2) - W = 2
  BY WindowSizesOk
<1>2. Holds(x, W, W) /\ x.base = k.base + W * (n - 1)
  BY <1>1, FullRoundsHold
<1> HIDE DEF x
<1>3. Holds(y, W, W + 2) /\ y.base = x.base
  BY <1>1, <1>2, GenFacts
<1> HIDE DEF y
<1>4. Holds(z, W, (W + 2) - W) /\ z.base = y.base + W
  BY <1>1, <1>3, RoundFacts
<1>5. z.base = k.base + W * n
  <2>1. k.base \in Nat /\ W * (n - 1) + W = W * n /\ W * (n - 1) \in Int
    BY <1>1 DEF Holds
  <2> HIDE DEF z
  <2> QED
    BY <1>1, <1>2, <1>3, <1>4, <2>1
<1> HIDE DEF z
<1>6. Holds(z, W, 2)
  BY <1>1, <1>4
<1> QED
  BY <1>5, <1>6 DEF z, y, x

\* A message whose window has its words, after "done" rounds: the words it starts
\* with, or enough for what is left of it.
LEMMA AloneIsMac ==
  ASSUME NEW W \in WindowSizes, NEW k, NEW len \in Nat, NEW done \in Nat,
         32 * (W * done) <= len, k.base = W * done,
         NEW m, Shows(k, W, m),
         \/ Holds(k, W, W)
         \/ /\ len - 32 * (W * done) <= 32 * (W - 2)
            /\ m >= ((len - 32 * (W * done)) + 31) \div 32 + 2
  PROVE  Eia3Alone(W, k, len, done) = Mac({})
<1> DEFINE left == len - done * W * 32
           n    == left \div (W * 32)
           bits == left % (W * 32)
           r    == Eia3Rounds(W, k, n, bits = 0)
           x    == IF bits > (W - 2) * 32 THEN Gen(r, W, 2) ELSE r
           L    == ((len + 64 + 31) \div 32) - (W * (done + n))
           D    == W * done
           N    == W * n
<1>1. /\ left \in Nat /\ n \in Nat /\ bits \in Nat /\ bits < 32 * W
      /\ left = len - 32 * D /\ left = 32 * N + bits
      /\ D \in Nat /\ N \in Nat /\ W * (done + n) = D + N
  BY AloneNumbers
<1>2. W \in Nat /\ W >= 4
  BY WindowSizesOk
<1>3. Eia3Alone(W, k, len, done) = Mac(Eia3Finish(x, bits, L, len).wrong)
  BY DEF Eia3Alone, WORD_BITS
<1> DEFINE up == (bits + 31) \div 32
<1>4. \E q : Shows(x, W, q) /\ q >= up + 2 /\ x.base = D + N
  <2>1. CASE Holds(k, W, W)
    <3> DEFINE p == IF n # 0 /\ bits = 0 THEN 2 ELSE W
    <3>1. Holds(r, W, p) /\ r.base = k.base + W * n
      <4> HIDE DEF n, bits
      <4>1. CASE n = 0 \/ bits # 0
        <5>1. r = FullRounds(W, k, n) /\ p = W
          BY <4>1 DEF Eia3Rounds
        <5>2. n \in Nat
          BY <1>1
        <5>3. Holds(FullRounds(W, k, n), W, W) /\ FullRounds(W, k, n).base = k.base + W * n
          BY <2>1, <5>2, FullRoundsHold
        <5> HIDE DEF r, p
        <5> QED
          BY <5>1, <5>3
      <4>2. CASE n # 0 /\ bits = 0
        <5>1. r = Eia3Round(W, Gen(FullRounds(W, k, n - 1), W, 2)) /\ p = 2
          BY <4>2 DEF Eia3Rounds
        <5>2. n \in Nat \ {0}
          BY <1>1, <4>2
        <5> DEFINE y == Eia3Round(W, Gen(FullRounds(W, k, n - 1), W, 2))
        <5>3. Holds(y, W, 2) /\ y.base = k.base + W * n
          BY <2>1, <5>2, ShortRoundHolds
        <5> HIDE DEF r, p, y
        <5> QED
          BY <5>1, <5>3 DEF y
      <4> QED
        BY <4>1, <4>2
    <3>2. r.base = D + N
      BY <3>1
    <3> HIDE DEF r
    <3>3. CASE bits > (W - 2) * 32
      <4>1. bits # 0 /\ p = W
        <5> HIDE DEF bits, n
        <5>1. (W - 2) * 32 >= 0
          BY <1>2
        <5> QED
          BY <1>1, <1>2, <3>3, <5>1
      <4>2. Holds(Gen(r, W, 2), W, W + 2) /\ Gen(r, W, 2).base = r.base
        <5>1. W + 2 <= 2 * W
          BY <1>2
        <5> QED
          BY <1>2, <3>1, <4>1, <5>1, GenFacts
      <4>3. W + 2 >= up + 2
        <5> HIDE DEF bits
        <5> QED
          BY <1>1, <1>2
      <4>4. x = Gen(r, W, 2)
        BY <3>3
      <4> HIDE DEF x, up, bits
      <4> QED
        BY <3>2, <4>2, <4>3, <4>4, HoldsShows
    <3>4. CASE ~(bits > (W - 2) * 32)
      <4>1. p >= up + 2
        <5> HIDE DEF bits, n
        <5>1. CASE bits = 0
          BY <1>2, <5>1
        <5>2. CASE bits # 0
          BY <1>1, <1>2, <3>4, <5>2
        <5> QED
          BY <5>1, <5>2
      <4>2. x = r
        BY <3>4
      <4> HIDE DEF x, up, bits
      <4> QED
        BY <3>1, <3>2, <4>1, <4>2, HoldsShows
    <3> QED
      BY <3>3, <3>4
  <2>2. CASE /\ len - 32 * (W * done) <= 32 * (W - 2)
             /\ m >= ((len - 32 * (W * done)) + 31) \div 32 + 2
    <3>1. left <= 32 * (W - 2) /\ m >= (left + 31) \div 32 + 2
      BY <1>1, <2>2
    <3>2. n = 0 /\ N = 0 /\ bits = left
      <4>1. left < W * 32
        <5> HIDE DEF left
        <5> QED
          BY <1>1, <1>2, <3>1
      <4>2. CASE W = 4
        BY <1>1, <4>1, <4>2
      <4>3. CASE W = 8
        BY <1>1, <4>1, <4>3
      <4>4. CASE W = 16
        BY <1>1, <4>1, <4>4
      <4> QED
        BY <4>2, <4>3, <4>4 DEF WindowSizes
    <3>3. r = k
      <4>1. FullRounds(W, k, 0) = k
        BY NoRounds
      <4> QED
        BY <3>2, <4>1 DEF Eia3Rounds
    <3>4. x = k
      <4>1. ~(bits > (W - 2) * 32)
        <5> HIDE DEF left, bits
        <5> QED
          BY <1>1, <1>2, <3>1, <3>2
      <4> QED
        BY <3>3, <4>1
    <3>5. m >= up + 2 /\ k.base = D + N
      <4> HIDE DEF left, bits, D, N
      <4> QED
        BY <1>1, <3>1, <3>2 DEF D
    <3> HIDE DEF x, up, D, N
    <3> QED
      BY <3>4, <3>5
  <2> QED
    BY <2>1, <2>2
<1> HIDE DEF x, left, n, r
<1>5. PICK q : Shows(x, W, q) /\ q >= up + 2 /\ x.base = D + N
  BY <1>4
<1> HIDE DEF bits
<1>6. len = 32 * x.base + bits
  <2> HIDE DEF D, N
  <2> QED
    BY <1>1, <1>5
<1>7. L = up + 2
  <2>1. L = ((len + 64 + 31) \div 32) - (D + N)
    BY <1>1
  <2> HIDE DEF L
  <2>2. len = 32 * (D + N) + bits
    BY <1>5, <1>6
  <2>3. (32 * (D + N) + bits + 64 + 31) \div 32 = (D + N) + ((bits + 31) \div 32) + 2
    <3> HIDE DEF D, N
    <3> QED
      BY <1>1
  <2> HIDE DEF D, N
  <2> QED
    BY <1>1, <2>1, <2>2, <2>3
<1> HIDE DEF L
<1>8. Eia3Finish(x, bits, L, len) = x
  BY <1>1, <1>2, <1>5, <1>6, <1>7, FinishFacts
<1>9. x.wrong = {}
  BY <1>5 DEF Shows
<1> QED
  BY <1>3, <1>8, <1>9

LEMMA CopyFacts ==
  ASSUME NEW W \in Nat, NEW k, NEW m, Holds(k, W, m), NEW left
  PROVE  Shows(CopyState(W, k, left), W, m) /\ CopyState(W, k, left).base = k.base
<1> DEFINE c == [k EXCEPT !.made = Garbage]
<1>1. k \in Window /\ Garbage \in Int
  BY DEF Holds, Garbage
<1>2. c \in Window /\ c.slot = k.slot /\ c.base = k.base /\ c.wrong = k.wrong
  BY <1>1 DEF Window
<1> HIDE DEF c
<1>3. Shows(c, W, m)
  BY <1>2 DEF Holds, Shows
<1>4. CopyState(W, k, left) = k \/ CopyState(W, k, left) = c
  BY DEF CopyState, c
<1> QED
  BY <1>2, <1>3, <1>4, HoldsShows

\* A lane after the common rounds of its group
LEMMA LaneIsMac ==
  ASSUME NEW W \in WindowSizes, NEW len \in Nat, NEW common \in Nat, common <= len,
         NEW done, done = common \div (W * 32), NEW k, k.base = W * done,
         Holds(k, W, W) \/ (Holds(k, W, 2) /\ len = 32 * (W * done))
  PROVE  Eia3Alone(W, CopyState(W, k, len - done * W * 32), len, done) = Mac({})
<1> DEFINE left == len - done * W * 32
           c    == CopyState(W, k, left)
<1>1. done \in Nat /\ left = len - 32 * (W * done) /\ 32 * (W * done) <= len /\ W * done \in Nat
  <2>1. CASE W = 4
    BY <2>1
  <2>2. CASE W = 8
    BY <2>2
  <2>3. CASE W = 16
    BY <2>3
  <2> QED
    BY <2>1, <2>2, <2>3 DEF WindowSizes
<1>2. W \in Nat /\ W >= 4
  BY WindowSizesOk
<1> HIDE DEF left
<1>3. CASE left > (W - 2) * 32
  <2>1. c = k
    BY <1>3 DEF CopyState, WORD_BITS
  <2>2. Holds(k, W, W)
    <3> SUFFICES ASSUME len = 32 * (W * done) PROVE FALSE
      OBVIOUS
    <3>1. left = 0
      BY <1>1
    <3> QED
      BY <1>2, <1>3, <3>1
  <2> HIDE DEF c
  <2>3. Eia3Alone(W, k, len, done) = Mac({})
    BY <1>1, <2>2, HoldsShows, AloneIsMac
  <2> QED
    BY <2>1, <2>3 DEF left, c
<1>4. CASE ~(left > (W - 2) * 32)
  <2>1. PICK m \in Nat : Holds(k, W, m) /\ m >= (left + 31) \div 32 + 2
    <3>1. CASE Holds(k, W, W)
      <4>1. W >= (left + 31) \div 32 + 2
        <5>1. left \in Nat /\ left <= (W - 2) * 32
          BY <1>1, <1>2, <1>4
        <5> QED
          BY <1>2, <5>1
      <4> QED
        BY <1>2, <3>1, <4>1
    <3>2. CASE Holds(k, W, 2) /\ len = 32 * (W * done)
      <4>1. left = 0
        BY <1>1, <3>2
      <4>2. 2 >= (left + 31) \div 32 + 2
        BY <4>1
      <4> QED
        BY <3>2, <4>2
    <3> QED
      BY <3>1, <3>2
  <2>2. Shows(c, W, m) /\ c.base = W * done
    BY <1>2, <2>1, CopyFacts
  <2> HIDE DEF c
  <2>3. /\ len - 32 * (W * done) <= 32 * (W - 2)
        /\ m >= ((len - 32 * (W * done)) + 31) \div 32 + 2
    <3>1. left <= 32 * (W - 2)
      BY <1>1, <1>2, <1>4
    <3> QED
      BY <1>1, <2>1, <3>1
  <2>4. Eia3Alone(W, c, len, done) = Mac({})
    BY <1>1, <2>2, <2>3, AloneIsMac
  <2> QED
    BY <2>4 DEF left, c
<1> QED
  BY <1>3, <1>4

\* The first words
LEMMA FirstWindow ==
  ASSUME NEW W \in WindowSizes
  PROVE  LET k == Gen(NewWindow(W, 0, 0), 0, W) IN Holds(k, W, W) /\ k.base = 0
<1>1. W \in Nat /\ 0 + W = W /\ W <= 2 * W /\ 0 \in Nat
  BY WindowSizesOk
<1>2. Holds(NewWindow(W, 0, 0), W, 0) /\ NewWindow(W, 0, 0).base = 0
  BY <1>1, NewWindowHolds
<1>3. Holds(Gen(NewWindow(W, 0, 0), 0, W), W, 0 + W) /\ Gen(NewWindow(W, 0, 0), 0, W).base = 0
  BY <1>1, <1>2, GenFacts
<1> QED
  BY <1>1, <1>3

LEMMA SingleIsMac ==
  ASSUME NEW W \in WindowSizes, NEW len \in Nat
  PROVE  Eia3Single(W, len) = Mac({})
<1> DEFINE k == Gen(NewWindow(W, 0, 0), 0, W)
<1>1. Holds(k, W, W) /\ k.base = 0
  BY FirstWindow
<1> HIDE DEF k
<1>2. W \in Nat /\ W * 0 = 0 /\ 32 * (W * 0) <= len
  BY WindowSizesOk
<1>3. Eia3Alone(W, k, len, 0) = Mac({})
  BY <1>1, <1>2, HoldsShows, AloneIsMac
<1> QED
  BY <1>3 DEF Eia3Single, k

\* The window after the common rounds of a group
CommonWindow(W, done) == FullRounds(W, Gen(NewWindow(W, 0, 0), 0, W), done)

\* The same when the last round makes two words
ShortWindow(W, done) == Eia3Round(W, Gen(CommonWindow(W, done - 1), W, 2))

LEMMA CommonWindowFacts ==
  ASSUME NEW W \in WindowSizes, NEW done \in Nat
  PROVE  /\ Holds(CommonWindow(W, done), W, W) /\ CommonWindow(W, done).base = W * done
         /\ done # 0 => /\ Holds(ShortWindow(W, done), W, 2)
                        /\ ShortWindow(W, done).base = W * done
<1> DEFINE k == Gen(NewWindow(W, 0, 0), 0, W)
<1>1. Holds(k, W, W) /\ k.base = 0
  BY FirstWindow
<1>2. CommonWindow(W, done) = FullRounds(W, k, done)
  BY DEF CommonWindow
<1>3. ShortWindow(W, done) = Eia3Round(W, Gen(FullRounds(W, k, done - 1), W, 2))
  BY DEF CommonWindow, ShortWindow
<1> HIDE DEF k
<1>4. W * done \in Int /\ 0 + W * done = W * done
  <2>1. W \in Nat
    BY WindowSizesOk
  <2> QED
    BY <2>1
<1>5. Holds(FullRounds(W, k, done), W, W) /\ FullRounds(W, k, done).base = W * done
  BY <1>1, <1>4, FullRoundsHold
<1>6. ASSUME done # 0
      PROVE  LET r == Eia3Round(W, Gen(FullRounds(W, k, done - 1), W, 2))
             IN  Holds(r, W, 2) /\ r.base = W * done
  <2>1. done \in Nat \ {0}
    BY <1>6
  <2> QED
    BY <1>1, <1>4, <2>1, ShortRoundHolds
<1> QED
  BY <1>2, <1>3, <1>5, <1>6

\* When the last common round makes two words, it is the last of all.
LEMMA LastRoundIsAll ==
  ASSUME NEW W \in WindowSizes, NEW common \in Nat \ {0}, common % (W * 32) = 0
  PROVE  LET done == common \div (W * 32) IN done \in Nat \ {0} /\ common = 32 * (W * done)
<1>1. CASE W = 4
  BY <1>1
<1>2. CASE W = 8
  BY <1>2
<1>3. CASE W = 16
  BY <1>3
<1> QED
  BY <1>1, <1>2, <1>3 DEF WindowSizes

LEMMA DoneIsNat ==
  ASSUME NEW W \in WindowSizes, NEW common \in Nat
  PROVE  common \div (W * 32) \in Nat
<1>1. CASE W = 4
  BY <1>1
<1>2. CASE W = 8
  BY <1>2
<1>3. CASE W = 16
  BY <1>3
<1> QED
  BY <1>1, <1>2, <1>3 DEF WindowSizes

\* A message of a group, when the short round is made for equal lengths only, and
\* for the widest group when it is not the last of a longer message.
LEMMA GroupIsMac ==
  ASSUME NEW W \in WindowSizes, NEW lens, NEW g, NEW i \in g, \A j \in g : lens[j] \in Nat \ {0}
  PROVE  /\ Eia3Group(W, lens, g, i, AllEqual(lens, g)) = Mac({})
         /\ (MinLen(lens, g) % (W * 32) = 0 => AllEqual(lens, g)) =>
              Eia3Group(W, lens, g, i, TRUE) = Mac({})
<1> DEFINE common == MinLen(lens, g)
           done   == common \div (W * 32)
           full   == Eia3Alone(W, CopyState(W, CommonWindow(W, done), lens[i] - done * W * 32), lens[i], done)
           less   == Eia3Alone(W, CopyState(W, ShortWindow(W, done), lens[i] - done * W * 32), lens[i], done)
<1>1. common \in Nat \ {0} /\ common <= lens[i] /\ lens[i] \in Nat
  <2>1. g # {} /\ \A j \in g : lens[j] \in Nat
    OBVIOUS
  <2>2. common \in Nat /\ common <= lens[i] /\ \E j \in g : common = lens[j]
    BY <2>1, MinLenFacts
  <2> QED
    BY <2>2
<1>2. /\ Eia3Group(W, lens, g, i, AllEqual(lens, g)) =
           IF done = 0 \/ ~(AllEqual(lens, g) /\ common % (W * 32) = 0) THEN full ELSE less
      /\ Eia3Group(W, lens, g, i, TRUE) =
           IF done = 0 \/ ~(common % (W * 32) = 0) THEN full ELSE less
  BY DEF Eia3Group, Eia3Rounds, WORD_BITS, CommonWindow, ShortWindow
<1>3. AllEqual(lens, g) => lens[i] = common
  BY DEF AllEqual
<1> HIDE DEF common
<1>4. done \in Nat
  BY <1>1, DoneIsNat
<1>5. full = Mac({})
  <2>1. Holds(CommonWindow(W, done), W, W) /\ CommonWindow(W, done).base = W * done
    BY <1>4, CommonWindowFacts
  <2>2. done = common \div (W * 32)
    OBVIOUS
  <2> HIDE DEF done
  <2> QED
    BY <1>1, <2>1, <2>2, LaneIsMac
<1>6. ASSUME AllEqual(lens, g), common % (W * 32) = 0 PROVE less = Mac({})
  <2>1. done \in Nat \ {0} /\ common = 32 * (W * done)
    BY <1>1, <1>6, LastRoundIsAll
  <2>2. Holds(ShortWindow(W, done), W, 2) /\ ShortWindow(W, done).base = W * done
    BY <2>1, CommonWindowFacts
  <2>3. done = common \div (W * 32) /\ lens[i] = 32 * (W * done)
    BY <1>3, <1>6, <2>1
  <2> HIDE DEF done
  <2> QED
    BY <1>1, <2>2, <2>3, LaneIsMac
<1> HIDE DEF full, less, done
<1> QED
  BY <1>2, <1>5, <1>6 DEF common

---------------------------------------------------------------------------
(* The functions of EIA3 *)

EachMacRight(lens, r) == InRange(lens, ZUC_MAX_BITLEN) => \A i \in DOMAIN lens : r[i] = Mac({})

Eia3Right(lens, r) ==
  IF ~InRange(lens, ZUC_MAX_BITLEN) THEN \A i \in DOMAIN r : r[i] = NoMac
  ELSE \A i \in DOMAIN lens : r[i] = Mac({})

LEMMA Eia3CheckedRight ==
  ASSUME NEW lens, NEW r, EachMacRight(lens, r)
  PROVE  Eia3Right(lens, Eia3Checked(lens, r))
BY DEF EachMacRight, Eia3Right, Eia3Checked, InRange, ZUC_MIN_BITLEN

\* One of several messages
LEMMA OneOfEia3 ==
  ASSUME NEW lens \in Seq(Nat), InRange(lens, ZUC_MAX_BITLEN), NEW i \in DOMAIN lens,
         NEW W \in WindowSizes
  PROVE  Eia3Single(W, lens[i]) = Mac({})
<1>1. lens[i] \in Nat
  BY RangeFacts
<1> QED
  BY <1>1, SingleIsMac

LEMMA GroupOfEia3 ==
  ASSUME NEW lens \in Seq(Nat), InRange(lens, ZUC_MAX_BITLEN), NEW g \in SUBSET DOMAIN lens,
         NEW i \in g, NEW W \in WindowSizes
  PROVE  Eia3Group(W, lens, g, i, AllEqual(lens, g)) = Mac({})
<1>1. \A j \in g : lens[j] \in Nat \ {0}
  BY RangeFacts
<1> QED
  BY <1>1, GroupIsMac

\* The group of 16 of AVX512, when it does not end in a short round
LEMMA WideGroupOfEia3 ==
  ASSUME NEW lens \in Seq(Nat), InRange(lens, ZUC_MAX_BITLEN), ~EndsInAShortRound(lens),
         NEW i \in DOMAIN lens, NEW widths, WidthsOk(widths)
  PROVE  LET g == GroupOf(i, Groups(Len(lens), widths))
         IN  Cardinality(g) = 16 => Eia3Group(16, lens, g, i, TRUE) = Mac({})
<1> DEFINE g == GroupOf(i, Groups(Len(lens), widths))
           n == Len(lens)
<1> SUFFICES ASSUME Cardinality(g) = 16 PROVE Eia3Group(16, lens, g, i, TRUE) = Mac({})
  OBVIOUS
<1>1. n \in Nat /\ DOMAIN lens = 1 .. n
  OBVIOUS
<1>2. /\ i \in g /\ g \in SUBSET (1 .. n)
      /\ \E a \in 1 .. n : \E w \in Nat :
           /\ 1 <= w /\ w <= 16 /\ g = a .. a + w - 1 /\ a + w - 1 <= n
           /\ w = 16 => \E j \in Nat : a = 1 + (16 * j)
  BY <1>1, GroupFacts
<1> HIDE DEF g
<1>3. PICK a \in 1 .. n, w \in Nat :
        /\ 1 <= w /\ w <= 16 /\ g = a .. a + w - 1 /\ a + w - 1 <= n
        /\ w = 16 => \E j \in Nat : a = 1 + (16 * j)
  BY <1>2
<1> HIDE DEF n
<1>4. w = 16
  <2>1. a \in Int /\ a + w - 1 \in Int /\ a <= a + w - 1
    BY <1>1, <1>3
  <2>2. Cardinality(a .. a + w - 1) = (a + w - 1) - a + 1
    BY <2>1, FS_Interval
  <2>3. (a + w - 1) - a + 1 = w
    BY <2>1
  <2> QED
    BY <1>3, <2>2, <2>3
<1>5. PICK j \in Nat : a = 1 + (16 * j)
  BY <1>3, <1>4
<1>6. g = (16 * j) + 1 .. (16 * j) + 16
  BY <1>3, <1>4, <1>5
<1>7. j \in 0 .. (n \div 16) - 1
  BY <1>1, <1>3, <1>4, <1>5
<1>8. ~(MinLen(lens, g) >= ROUND /\ MinLen(lens, g) % ROUND = 0 /\ ~AllEqual(lens, g))
  BY <1>6, <1>7 DEF EndsInAShortRound, n
<1>9. \A k \in g : lens[k] \in Nat \ {0}
  BY <1>1, <1>2, RangeFacts
<1>10. MinLen(lens, g) \in Nat \ {0}
  <2>1. g # {} /\ \A k \in g : lens[k] \in Nat
    BY <1>2, <1>9
  <2>2. MinLen(lens, g) \in Nat /\ \E k \in g : MinLen(lens, g) = lens[k]
    BY <2>1, MinLenFacts
  <2> QED
    BY <1>9, <2>2
<1>11. MinLen(lens, g) % (16 * 32) = 0 => AllEqual(lens, g)
  <2> DEFINE c == MinLen(lens, g)
  <2> SUFFICES ASSUME c % (16 * 32) = 0 PROVE c >= 512 /\ c % 512 = 0
    BY <1>8 DEF ROUND
  <2>1. c \in Nat \ {0}
    BY <1>10
  <2> HIDE DEF c
  <2> QED
    BY <2>1
<1> QED
  BY <1>2, <1>9, <1>11, WindowSizesOk, GroupIsMac

\* zuc_eia3_1_buffer
LEMMA Eia3OneRight ==
  ASSUME NEW lens \in Seq(Nat), Len(lens) = 1
  PROVE  /\ Eia3Right(lens, zuc_eia3_1_buffer_no_aesni(lens))
         /\ Eia3Right(lens, zuc_eia3_1_buffer_sse(lens))
         /\ Eia3Right(lens, zuc_eia3_1_buffer_avx(lens))
         /\ Eia3Right(lens, zuc_eia3_1_buffer_avx2(lens))
         /\ Eia3Right(lens, zuc_eia3_1_buffer_avx512(lens))
<1> DEFINE r(W) == [i \in {1} |-> Eia3Single(W, lens[i])]
<1>1. DOMAIN lens = {1}
  OBVIOUS
<1>2. ASSUME NEW W \in WindowSizes PROVE Eia3Right(lens, Eia3Checked(lens, r(W)))
  <2>1. EachMacRight(lens, r(W))
    <3> SUFFICES ASSUME InRange(lens, ZUC_MAX_BITLEN), NEW i \in DOMAIN lens
                 PROVE  r(W)[i] = Mac({})
      BY DEF EachMacRight
    <3>1. Eia3Single(W, lens[i]) = Mac({})
      BY OneOfEia3
    <3> QED
      BY <1>1, <3>1
  <2> HIDE DEF r
  <2> QED
    BY <2>1, Eia3CheckedRight
<1>3. /\ zuc_eia3_1_buffer_no_aesni(lens) = Eia3Checked(lens, r(4))
      /\ zuc_eia3_1_buffer_sse(lens) = Eia3Checked(lens, r(4))
      /\ zuc_eia3_1_buffer_avx(lens) = Eia3Checked(lens, r(4))
      /\ zuc_eia3_1_buffer_avx2(lens) = Eia3Checked(lens, r(8))
      /\ zuc_eia3_1_buffer_avx512(lens) = Eia3Checked(lens, r(16))
  BY DEF zuc_eia3_1_buffer_no_aesni, zuc_eia3_1_buffer_sse, zuc_eia3_1_buffer_avx,
         zuc_eia3_1_buffer_avx2, zuc_eia3_1_buffer_avx512, eia3_1_buffer_no_aesni,
         eia3_1_buffer_sse, eia3_1_buffer_avx, eia3_1_buffer_avx2, eia3_1_buffer_avx512
<1> HIDE DEF r
<1> QED
  BY <1>2, <1>3, WindowSizesOk

\* zuc_eia3_n_buffer
LEMMA Eia3NNoAesniRight ==
  ASSUME NEW lens \in Seq(Nat)
  PROVE  Eia3Right(lens, zuc_eia3_n_buffer_no_aesni(lens))
<1> DEFINE g(i) == GroupOf(i, Groups(Len(lens), {4, 1}))
           r == [i \in DOMAIN lens |->
                   IF Cardinality(g(i)) = 4 THEN eia3_4_buffer_no_aesni(lens, g(i), i)
                        ELSE eia3_1_buffer_no_aesni(lens, i)]
<1>1. ASSUME InRange(lens, ZUC_MAX_BITLEN), NEW i \in DOMAIN lens PROVE r[i] = Mac({})
  <2>1. i \in g(i) /\ g(i) \in SUBSET DOMAIN lens
    BY OwnGroup, WidthsOfZuc
  <2> HIDE DEF g
  <2>2. Eia3Single(4, lens[i]) = Mac({})
    BY <1>1, OneOfEia3, WindowSizesOk
  <2>3. Eia3Group(4, lens, g(i), i, AllEqual(lens, g(i))) = Mac({})
    BY <1>1, <2>1, GroupOfEia3, WindowSizesOk
  <2> QED
    BY <2>2, <2>3
    DEF eia3_4_buffer_no_aesni, eia3_1_buffer_no_aesni
<1>2. EachMacRight(lens, r)
  <2> HIDE DEF r
  <2> QED
    BY <1>1 DEF EachMacRight
<1>3. zuc_eia3_n_buffer_no_aesni(lens) = Eia3Checked(lens, r)
  BY DEF zuc_eia3_n_buffer_no_aesni
<1> HIDE DEF r
<1> QED
  BY <1>2, <1>3, Eia3CheckedRight

LEMMA Eia3NSseRight ==
  ASSUME NEW lens \in Seq(Nat)
  PROVE  Eia3Right(lens, zuc_eia3_n_buffer_sse(lens))
<1> DEFINE g(i) == GroupOf(i, Groups(Len(lens), {4, 1}))
           r == [i \in DOMAIN lens |->
                   IF Cardinality(g(i)) = 4 THEN eia3_4_buffer_sse(lens, g(i), i)
                        ELSE eia3_1_buffer_sse(lens, i)]
<1>1. ASSUME InRange(lens, ZUC_MAX_BITLEN), NEW i \in DOMAIN lens PROVE r[i] = Mac({})
  <2>1. i \in g(i) /\ g(i) \in SUBSET DOMAIN lens
    BY OwnGroup, WidthsOfZuc
  <2> HIDE DEF g
  <2>2. Eia3Single(4, lens[i]) = Mac({})
    BY <1>1, OneOfEia3, WindowSizesOk
  <2>3. Eia3Group(4, lens, g(i), i, AllEqual(lens, g(i))) = Mac({})
    BY <1>1, <2>1, GroupOfEia3, WindowSizesOk
  <2> QED
    BY <2>2, <2>3
    DEF eia3_4_buffer_sse, eia3_1_buffer_sse
<1>2. EachMacRight(lens, r)
  <2> HIDE DEF r
  <2> QED
    BY <1>1 DEF EachMacRight
<1>3. zuc_eia3_n_buffer_sse(lens) = Eia3Checked(lens, r)
  BY DEF zuc_eia3_n_buffer_sse
<1> HIDE DEF r
<1> QED
  BY <1>2, <1>3, Eia3CheckedRight

LEMMA Eia3NAvxRight ==
  ASSUME NEW lens \in Seq(Nat)
  PROVE  Eia3Right(lens, zuc_eia3_n_buffer_avx(lens))
<1> DEFINE g(i) == GroupOf(i, Groups(Len(lens), {4, 1}))
           r == [i \in DOMAIN lens |->
                   IF Cardinality(g(i)) = 4 THEN eia3_4_buffer_avx(lens, g(i), i)
                        ELSE eia3_1_buffer_avx(lens, i)]
<1>1. ASSUME InRange(lens, ZUC_MAX_BITLEN), NEW i \in DOMAIN lens PROVE r[i] = Mac({})
  <2>1. i \in g(i) /\ g(i) \in SUBSET DOMAIN lens
    BY OwnGroup, WidthsOfZuc
  <2> HIDE DEF g
  <2>2. Eia3Single(4, lens[i]) = Mac({})
    BY <1>1, OneOfEia3, WindowSizesOk
  <2>3. Eia3Group(4, lens, g(i), i, AllEqual(lens, g(i))) = Mac({})
    BY <1>1, <2>1, GroupOfEia3, WindowSizesOk
  <2> QED
    BY <2>2, <2>3
    DEF eia3_4_buffer_avx, eia3_1_buffer_avx
<1>2. EachMacRight(lens, r)
  <2> HIDE DEF r
  <2> QED
    BY <1>1 DEF EachMacRight
<1>3. zuc_eia3_n_buffer_avx(lens) = Eia3Checked(lens, r)
  BY DEF zuc_eia3_n_buffer_avx
<1> HIDE DEF r
<1> QED
  BY <1>2, <1>3, Eia3CheckedRight

LEMMA Eia3NAvx2Right ==
  ASSUME NEW lens \in Seq(Nat)
  PROVE  Eia3Right(lens, zuc_eia3_n_buffer_avx2(lens))
<1> DEFINE g(i) == GroupOf(i, Groups(Len(lens), {8, 4, 1}))
           r == [i \in DOMAIN lens |->
                   CASE Cardinality(g(i)) = 8 -> eia3_8_buffer_avx2(lens, g(i), i)
                        [] Cardinality(g(i)) = 4 -> eia3_4_buffer_avx(lens, g(i), i)
                        [] OTHER                 -> eia3_1_buffer_avx2(lens, i)]
<1>1. ASSUME InRange(lens, ZUC_MAX_BITLEN), NEW i \in DOMAIN lens PROVE r[i] = Mac({})
  <2>1. i \in g(i) /\ g(i) \in SUBSET DOMAIN lens
    BY OwnGroup, WidthsOfZuc
  <2> HIDE DEF g
  <2>2. Eia3Single(8, lens[i]) = Mac({})
    BY <1>1, OneOfEia3, WindowSizesOk
  <2>3. Eia3Group(4, lens, g(i), i, AllEqual(lens, g(i))) = Mac({})
    BY <1>1, <2>1, GroupOfEia3, WindowSizesOk
  <2>4. Eia3Group(8, lens, g(i), i, AllEqual(lens, g(i))) = Mac({})
    BY <1>1, <2>1, GroupOfEia3, WindowSizesOk
  <2> QED
    BY <2>2, <2>3, <2>4
    DEF eia3_8_buffer_avx2, eia3_4_buffer_avx, eia3_1_buffer_avx2
<1>2. EachMacRight(lens, r)
  <2> HIDE DEF r
  <2> QED
    BY <1>1 DEF EachMacRight
<1>3. zuc_eia3_n_buffer_avx2(lens) = Eia3Checked(lens, r)
  BY DEF zuc_eia3_n_buffer_avx2
<1> HIDE DEF r
<1> QED
  BY <1>2, <1>3, Eia3CheckedRight

\* AVX512 gets those right that do not end in a short round.
LEMMA Eia3NAvx512Right ==
  ASSUME NEW lens \in Seq(Nat)
  PROVE  \/ InRange(lens, ZUC_MAX_BITLEN) /\ EndsInAShortRound(lens)
         \/ Eia3Right(lens, zuc_eia3_n_buffer_avx512(lens))
<1> SUFFICES ASSUME InRange(lens, ZUC_MAX_BITLEN) => ~EndsInAShortRound(lens)
             PROVE  Eia3Right(lens, zuc_eia3_n_buffer_avx512(lens))
  OBVIOUS
<1> DEFINE g(i) == GroupOf(i, Groups(Len(lens), {16, 8, 4, 1}))
           r == [i \in DOMAIN lens |->
                   CASE Cardinality(g(i)) = 16 -> eia3_16_buffer_avx512(lens, g(i), i)
                        [] Cardinality(g(i)) = 8  -> eia3_8_buffer_avx2(lens, g(i), i)
                        [] Cardinality(g(i)) = 4  -> eia3_4_buffer_avx(lens, g(i), i)
                        [] OTHER                  -> eia3_1_buffer_avx512(lens, i)]
<1>1. ASSUME InRange(lens, ZUC_MAX_BITLEN), NEW i \in DOMAIN lens PROVE r[i] = Mac({})
  <2>1. i \in g(i) /\ g(i) \in SUBSET DOMAIN lens
    BY OwnGroup, WidthsOfZuc
  <2>2. Cardinality(g(i)) = 16 => Eia3Group(16, lens, g(i), i, TRUE) = Mac({})
    BY <1>1, WideGroupOfEia3, WidthsOfZuc
  <2> HIDE DEF g
  <2>3. Eia3Single(16, lens[i]) = Mac({})
    BY <1>1, OneOfEia3, WindowSizesOk
  <2>4. Eia3Group(4, lens, g(i), i, AllEqual(lens, g(i))) = Mac({})
    BY <1>1, <2>1, GroupOfEia3, WindowSizesOk
  <2>5. Eia3Group(8, lens, g(i), i, AllEqual(lens, g(i))) = Mac({})
    BY <1>1, <2>1, GroupOfEia3, WindowSizesOk
  <2> QED
    BY <2>2, <2>3, <2>4, <2>5
    DEF eia3_16_buffer_avx512, eia3_8_buffer_avx2, eia3_4_buffer_avx,
           eia3_1_buffer_avx512
<1>2. EachMacRight(lens, r)
  <2> HIDE DEF r
  <2> QED
    BY <1>1 DEF EachMacRight
<1>3. zuc_eia3_n_buffer_avx512(lens) = Eia3Checked(lens, r)
  BY DEF zuc_eia3_n_buffer_avx512
<1> HIDE DEF r
<1> QED
  BY <1>2, <1>3, Eia3CheckedRight

\* What the kernel of a manager leaves: the MACs of its jobs
Eia3JobRight(lens, r) == \A i \in DOMAIN r : r[i] = IF i \in lens[2] THEN Mac({}) ELSE NoMac

LEMMA Eia3JobsRight ==
  ASSUME NEW lens, NEW busy
  PROVE  /\ (\A i \in 1 .. 4 : lens[i] \in Nat \ {0}) =>
              /\ Eia3JobRight(<<lens, busy>>, zuc_eia3_4_buffer_job_no_aesni(lens, busy))
              /\ Eia3JobRight(<<lens, busy>>, zuc_eia3_4_buffer_job_sse(lens, busy))
              /\ Eia3JobRight(<<lens, busy>>, zuc_eia3_4_buffer_job_avx(lens, busy))
         /\ (\A i \in 1 .. 8 : lens[i] \in Nat \ {0}) =>
              Eia3JobRight(<<lens, busy>>, zuc_eia3_8_buffer_job_avx2(lens, busy))
<1> DEFINE r(n, W) == [i \in 1 .. n |-> IF i \in busy
                                      THEN Eia3Group(W, lens, 1 .. n, i, AllEqual(lens, 1 .. n))
                                      ELSE NoMac]
<1>1. ASSUME NEW n \in Nat, NEW W \in WindowSizes, \A i \in 1 .. n : lens[i] \in Nat \ {0}
      PROVE  Eia3JobRight(<<lens, busy>>, r(n, W))
  <2>1. \A i \in 1 .. n : Eia3Group(W, lens, 1 .. n, i, AllEqual(lens, 1 .. n)) = Mac({})
    BY <1>1, GroupIsMac
  <2>2. <<lens, busy>>[2] = busy
    OBVIOUS
  <2> QED
    BY <2>1, <2>2 DEF Eia3JobRight
<1>2. /\ zuc_eia3_4_buffer_job_no_aesni(lens, busy) = r(4, 4)
      /\ zuc_eia3_4_buffer_job_sse(lens, busy) = r(4, 4)
      /\ zuc_eia3_4_buffer_job_avx(lens, busy) = r(4, 4)
      /\ zuc_eia3_8_buffer_job_avx2(lens, busy) = r(8, 8)
  BY DEF zuc_eia3_4_buffer_job_no_aesni, zuc_eia3_4_buffer_job_sse, zuc_eia3_4_buffer_job_avx,
         zuc_eia3_8_buffer_job_avx2
<1> HIDE DEF r
<1> QED
  BY <1>1, <1>2, WindowSizesOk

---------------------------------------------------------------------------
(* F9 *)

LEMMA IntsAreSeq ==
  ASSUME NEW n \in Nat, NEW f \in [1 .. n -> Int]
  PROVE  f \in Seq(Int) /\ Len(f) = n
OBVIOUS

\* A sequence of n
IntsOf(s, n) == s \in Seq(Int) /\ Len(s) = n

\* One sequence behind another
\* r has the m numbers of a, then the n numbers of b.
Joined(r, a, b, m, n, k) == IntsOf(a, m) /\ IntsOf(b, n) /\ k = m + n /\ r = a \o b

LEMMA JoinFacts ==
  ASSUME NEW r, NEW a, NEW b, NEW m, NEW n, NEW k, Joined(r, a, b, m, n, k)
  PROVE  /\ r \in Seq(Int) /\ Len(r) = k /\ \A t \in 1 .. m : r[t] = a[t]
         /\ \A t \in m + 1 .. k : r[t] = b[t - m]
BY ConcatFacts DEF Joined, IntsOf

\* n words, each with the power that is due
Horner(n) == [i \in 1 .. n |-> n + 1 - i]

LEMMA HornerFacts ==
  ASSUME NEW n \in Nat
  PROVE  /\ Horner(n) \in Seq(Int) /\ Len(Horner(n)) = n /\ DOMAIN Horner(n) = 1 .. n
         /\ \A i \in 1 .. n : Horner(n)[i] = n + 1 - i
BY DEF Horner

LEMMA AbsorbFacts ==
  ASSUME NEW c \in Nat, NEW k \in Nat
  PROVE  Absorb(Horner(c), k) = Horner(c + k)
<1> DEFINE a == [i \in 1 .. c |-> Horner(c)[i] + k]
           b == Horner(k)
           r == a \o b
<1>1. /\ a \in Seq(Int) /\ Len(a) = c /\ \A i \in 1 .. c : a[i] = c + k + 1 - i
  <2>1. \A i \in 1 .. c : Horner(c)[i] + k \in Int /\ Horner(c)[i] + k = c + k + 1 - i
    <3> TAKE i \in 1 .. c
    <3>1. Horner(c)[i] = c + 1 - i
      BY HornerFacts
    <3> HIDE DEF Horner
    <3> QED
      BY <3>1
  <2>2. a \in Seq(Int) /\ Len(a) = c
    <3>1. a \in [1 .. c -> Int]
      <4>1. \A i \in 1 .. c : Horner(c)[i] + k \in Int
        BY <2>1
      <4> HIDE DEF Horner
      <4> QED
        BY <4>1
    <3> HIDE DEF a
    <3> QED
      BY <3>1, IntsAreSeq
  <2> QED
    BY <2>1, <2>2
<1>2. b \in Seq(Int) /\ Len(b) = k /\ \A i \in 1 .. k : b[i] = k + 1 - i
  BY HornerFacts
<1>3. Absorb(Horner(c), k) = r
  BY HornerFacts DEF Absorb, Horner
<1> HIDE DEF a, b
<1>4. /\ r \in Seq(Int) /\ Len(r) = c + k /\ \A i \in 1 .. c : r[i] = a[i]
      /\ \A i \in c + 1 .. c + k : r[i] = b[i - c]
  BY <1>1, <1>2, ConcatFacts
<1> HIDE DEF r
<1>5. \A i \in 1 .. c + k : r[i] = Horner(c + k)[i]
  <2> TAKE i \in 1 .. c + k
  <2>1. Horner(c + k)[i] = c + k + 1 - i
    BY HornerFacts
  <2>2. CASE i <= c
    BY <1>1, <1>4, <2>1, <2>2
  <2>3. CASE i > c
    <3>1. i - c \in 1 .. k /\ i \in c + 1 .. c + k /\ k + 1 - (i - c) = c + k + 1 - i
      BY <2>3
    <3> QED
      BY <1>2, <1>4, <2>1, <3>1
  <2> QED
    BY <2>2, <2>3
<1>6. r = Horner(c + k)
  <2>1. Horner(c + k) \in Seq(Int) /\ Len(Horner(c + k)) = c + k
    BY HornerFacts
  <2> HIDE DEF Horner
  <2> QED
    BY <1>4, <1>5, <2>1
<1> QED
  BY <1>3, <1>6

\* s times k
LEMMA TimesFacts ==
  ASSUME NEW n \in Nat, NEW k \in Int
  PROVE  /\ [s \in 1 .. n |-> k] \in Seq(Int) /\ Len([s \in 1 .. n |-> k]) = n
         /\ \A s \in 1 .. n : [t \in 1 .. n |-> k][s] = k
OBVIOUS

\* How many words there are after s steps
Absorbed(fours, twos, s) ==
  IF s <= fours THEN 4 * s
  ELSE IF s <= fours + twos THEN 4 * fours + 2 * (s - fours)
  ELSE 4 * fours + 2 * twos + (s - fours - twos)

\* The bits behind the whole words take one step.
NoneOrOne(e) == e \in Seq(Int) /\ (e = <<>> \/ e = <<1>>)

StepsAre(ks, F, T, n) ==
  /\ ks \in Seq(Int) /\ Len(ks) = n
  /\ \A s \in 1 .. n : ks[s] = IF s <= F THEN 4 ELSE IF s <= F + T THEN 2 ELSE 1

\* Fours, twos and ones, one behind the other
LEMMA StepsFacts ==
  ASSUME NEW F \in Nat, NEW T \in Nat, NEW O \in Nat, NEW e, NoneOrOne(e)
  PROVE  LET ks == [s \in 1 .. F |-> 4] \o [s \in 1 .. T |-> 2] \o [s \in 1 .. O |-> 1] \o e
         IN  StepsAre(ks, F, T, F + T + O + Len(e))
<1> DEFINE a == [s \in 1 .. F |-> 4]
           b == [s \in 1 .. T |-> 2]
           c == [s \in 1 .. O |-> 1]
           ab == a \o b
           abc == ab \o c
           ks == abc \o e
           l == Len(e)
<1>1. a \in Seq(Int) /\ Len(a) = F /\ \A s \in 1 .. F : a[s] = 4
  BY TimesFacts
<1>2. b \in Seq(Int) /\ Len(b) = T /\ \A s \in 1 .. T : b[s] = 2
  BY TimesFacts
<1>3. c \in Seq(Int) /\ Len(c) = O /\ \A s \in 1 .. O : c[s] = 1
  BY TimesFacts
<1>4. l \in 0 .. 1 /\ \A s \in 1 .. l : e[s] = 1
  BY DEF l, NoneOrOne
<1> HIDE DEF a, b, c, l
<1> DEFINE p == F + T
           q == p + O
           n == q + l
<1>5. /\ ab \in Seq(Int) /\ Len(ab) = p /\ \A s \in 1 .. F : ab[s] = a[s]
      /\ \A s \in F + 1 .. p : ab[s] = b[s - F]
  <2>1. Joined(ab, a, b, F, T, p)
    BY <1>1, <1>2 DEF IntsOf, Joined
  <2> HIDE DEF p, ab
  <2> QED
    BY <2>1, JoinFacts
<1> HIDE DEF ab
<1>6. /\ abc \in Seq(Int) /\ Len(abc) = q /\ \A s \in 1 .. p : abc[s] = ab[s]
      /\ \A s \in p + 1 .. q : abc[s] = c[s - p]
  <2>1. Joined(abc, ab, c, p, O, q)
    BY <1>3, <1>5 DEF IntsOf, Joined
  <2> HIDE DEF p, q, abc
  <2> QED
    BY <2>1, JoinFacts
<1> HIDE DEF abc
<1>7. /\ ks \in Seq(Int) /\ Len(ks) = n /\ \A s \in 1 .. q : ks[s] = abc[s]
      /\ \A s \in q + 1 .. n : ks[s] = e[s - q]
  <2>1. Joined(ks, abc, e, q, l, n)
    BY <1>4, <1>6 DEF IntsOf, l, NoneOrOne, Joined
  <2> HIDE DEF p, q, n, ks
  <2> QED
    BY <2>1, JoinFacts
<1> HIDE DEF ks
<1>8. l \in Nat /\ p = F + T /\ q = p + O /\ n = q + l /\ p \in Nat /\ q \in Nat
  BY <1>4
<1> HIDE DEF p, q, n
<1>9. ASSUME NEW s \in 1 .. n
      PROVE  ks[s] = IF s <= F THEN 4 ELSE IF s <= p THEN 2 ELSE 1
  <2>1. CASE s <= F
    <3>1. s \in 1 .. F /\ s \in 1 .. p /\ s \in 1 .. q
      BY <1>8, <2>1
    <3> QED
      BY <1>1, <1>5, <1>6, <1>7, <2>1, <3>1
  <2>2. CASE F < s /\ s <= p
    <3>1. s - F \in 1 .. T /\ s \in F + 1 .. p /\ s \in 1 .. p /\ s \in 1 .. q /\ ~(s <= F)
      BY <1>8, <2>2
    <3>2. ks[s] = 2
      BY <1>2, <1>5, <1>6, <1>7, <3>1
    <3> QED
      BY <2>2, <3>1, <3>2
  <2>3. CASE p < s /\ s <= q
    <3>1. s - p \in 1 .. O /\ s \in p + 1 .. q /\ s \in 1 .. q /\ ~(s <= F) /\ ~(s <= p)
      BY <1>8, <2>3
    <3>2. ks[s] = 1
      BY <1>3, <1>6, <1>7, <3>1
    <3> QED
      BY <3>1, <3>2
  <2>4. CASE q < s
    <3>1. s - q \in 1 .. l /\ s \in q + 1 .. n /\ ~(s <= F) /\ ~(s <= p)
      BY <1>8, <2>4
    <3>2. ks[s] = 1
      BY <1>4, <1>7, <3>1
    <3> QED
      BY <3>1, <3>2
  <2> QED
    BY <1>8, <2>1, <2>2, <2>3, <2>4
<1>10. StepsAre(ks, F, T, n)
  <2>1. \A s \in 1 .. n : ks[s] = IF s <= F THEN 4 ELSE IF s <= F + T THEN 2 ELSE 1
    BY <1>8, <1>9
  <2> QED
    BY <1>7, <2>1 DEF StepsAre
<1> QED
  BY <1>10 DEF ks, abc, ab, a, b, c, l, p, q, n

\* Steps that take w words
StepsOf(ks, F, T, w) ==
  /\ Len(ks) \in Nat /\ Absorbed(F, T, Len(ks)) = w
  /\ \A s \in 1 .. Len(ks) : ks[s] \in Nat /\ Absorbed(F, T, s) = Absorbed(F, T, s - 1) + ks[s]

\* The steps of a message take all its words.
LEMMA AbsorptionsFacts ==
  ASSUME NEW len \in Nat
  PROVE  \E F, T \in Nat : StepsOf(Absorptions(len), F, T, RoundUp(len, 64) \div 64)
<1> DEFINE words == len \div 64
           F     == IF words > 8 THEN words \div 4 ELSE 0
           T     == IF words > 8 THEN (words % 4) \div 2 ELSE 0
           O     == words - (4 * F) - (2 * T)
           e     == IF len % 64 = 0 THEN <<>> ELSE <<1>>
           ks    == [s \in 1 .. F |-> 4] \o [s \in 1 .. T |-> 2] \o [s \in 1 .. O |-> 1] \o e
           l     == Len(e)
<1>1. F \in Nat /\ T \in Nat /\ O \in Nat /\ words \in Nat
  <2>1. words \in Nat
    OBVIOUS
  <2> HIDE DEF words
  <2> QED
    BY <2>1
<1>2. NoneOrOne(e)
  BY DEF NoneOrOne
<1>3. Absorptions(len) = ks
  BY DEF Absorptions
<1>4. 4 * F + 2 * T + O = words
  <2> HIDE DEF F, T, words
  <2> QED
    BY <1>1
<1>5. words + l = RoundUp(len, 64) \div 64 /\ l \in Nat
  <2>1. CASE len % 64 = 0
    <3>1. l = 0
      BY <2>1
    <3>2. RoundUp(len, 64) = len
      BY <2>1 DEF RoundUp
    <3> QED
      BY <3>1, <3>2
  <2>2. CASE len % 64 # 0
    <3>1. l = 1
      BY <2>2
    <3>2. RoundUp(len, 64) = len + ((-len) % 64)
      BY DEF RoundUp
    <3>3. (len + ((-len) % 64)) \div 64 = len \div 64 + 1
      BY <2>2
    <3> QED
      BY <3>1, <3>2, <3>3
  <2> QED
    BY <2>1, <2>2
<1> HIDE DEF F, T, O, e, words
<1> DEFINE n == F + T + O + l
<1>6. StepsAre(ks, F, T, n)
  BY <1>1, <1>2, StepsFacts
<1> HIDE DEF ks, l
<1>7. n \in Nat
  BY <1>1, <1>5
<1>8. Absorbed(F, T, n) = words + l
  <2>1. O + l = 0 => Absorbed(F, T, n) = 4 * F + 2 * T
    BY <1>1, <1>5 DEF Absorbed
  <2>2. O + l # 0 => Absorbed(F, T, n) = 4 * F + 2 * T + O + l
    BY <1>1, <1>5 DEF Absorbed
  <2> HIDE DEF n
  <2> QED
    BY <1>1, <1>4, <1>5, <2>1, <2>2
<1>9. ASSUME NEW s \in 1 .. n
      PROVE  ks[s] \in Nat /\ Absorbed(F, T, s) = Absorbed(F, T, s - 1) + ks[s]
  <2>1. ks[s] = IF s <= F THEN 4 ELSE IF s <= F + T THEN 2 ELSE 1
    BY <1>6 DEF StepsAre
  <2>2. s \in Nat /\ s >= 1
    BY <1>7
  <2> HIDE DEF n
  <2> QED
    BY <1>1, <2>1, <2>2 DEF Absorbed
<1>10. StepsOf(ks, F, T, RoundUp(len, 64) \div 64)
  <2> HIDE DEF n
  <2>1. Len(ks) = n
    BY <1>6 DEF StepsAre
  <2> QED
    BY <1>5, <1>7, <1>8, <1>9, <2>1 DEF StepsOf
<1> QED
  BY <1>1, <1>3, <1>10

\* The words absorbed in the steps ks
IsAbsorption(f, ks) ==
  f = [s \in 0 .. Len(ks) |-> IF s = 0 THEN <<>> ELSE Absorb(f[s - 1], ks[s])]

AbsorbedBy(ks) == CHOOSE f : IsAbsorption(f, ks)

\* Absorbing the words in steps gives each its power.
LEMMA AbsorbedInSteps ==
  ASSUME NEW ks, NEW F \in Nat, NEW T \in Nat, NEW w \in Nat, StepsOf(ks, F, T, w)
  PROVE  AbsorbedBy(ks)[Len(ks)] = Horner(w)
<1> DEFINE absorbed == AbsorbedBy(ks)
           n     == Len(ks)
           at(s) == Absorbed(F, T, s)
           V     == [s \in 0 .. n |-> {Horner(at(s))}]
           prev  == [s \in 1 .. n |-> s - 1]
           S     == Seq(Int)
           step  == [s \in 1 .. n |-> [x \in S |-> Absorb(x, ks[s])]]
<1>1. /\ n \in Nat /\ at(n) = w
      /\ \A s \in 1 .. n : ks[s] \in Nat /\ at(s) = at(s - 1) + ks[s]
  BY DEF StepsOf
<1>2. \A s \in 1 .. n : prev[s] = s - 1 /\ prev[s] \in 0 .. s - 1 /\ prev[s] \in 0 .. n
  BY <1>1
<1>3. \A s \in 0 .. n : at(s) \in Nat
  BY <1>1 DEF Absorbed
<1>4. <<>> \in V[0]
  <2>1. at(0) = 0 /\ 0 \in 0 .. n
    BY <1>1 DEF Absorbed
  <2>2. Horner(0) = <<>>
    <3>1. Horner(0) \in Seq(Int) /\ Len(Horner(0)) = 0
      BY HornerFacts
    <3> HIDE DEF Horner
    <3> QED
      BY <3>1
  <2> HIDE DEF at
  <2> QED
    BY <2>1, <2>2
<1> HIDE DEF at
<1>5. ASSUME NEW s \in 1 .. n, NEW x \in V[prev[s]]
      PROVE  Absorb(x, ks[s]) \in V[s] /\ step[s][x] = Absorb(x, ks[s])
  <2>1. x = Horner(at(s - 1)) /\ s - 1 \in 0 .. n /\ s \in 0 .. n
    BY <1>1, <1>2
  <2>2. at(s - 1) \in Nat /\ ks[s] \in Nat /\ at(s) = at(s - 1) + ks[s]
    BY <1>1, <1>3, <2>1
  <2>3. Absorb(x, ks[s]) = Horner(at(s))
    BY <2>1, <2>2, AbsorbFacts
  <2>4. x \in S
    BY <2>1, <2>2, HornerFacts
  <2> QED
    BY <2>1, <2>3, <2>4
<1> HIDE DEF V, prev, step
<1>6. PICK h : Follows(h, n, prev, <<>>, step) /\ StaysIn(h, n, V)
  <2>1. \A s \in 1 .. n : \A x \in V[prev[s]] : step[s][x] \in V[s]
    BY <1>5
  <2>2. Steps(n, prev, V, <<>>, step)
    BY <1>1, <1>2, <1>4, <2>1 DEF Steps
  <2> QED
    BY <2>2, RecursionDefines
<1>7. \E f : IsAbsorption(f, ks)
  <2>1. ASSUME NEW s \in 1 .. n PROVE h[s] = Absorb(h[s - 1], ks[s])
    <3>1. s # 0 /\ s \in 0 .. n /\ prev[s] \in 0 .. n
      BY <1>1, <1>2
    <3>2. h[s] = step[s][h[prev[s]]] /\ h[prev[s]] \in V[prev[s]]
      BY <1>6, <3>1 DEF Follows, StaysIn
    <3> QED
      BY <1>2, <1>5, <3>2
  <2>2. h[0] = <<>> /\ h = [s \in 0 .. n |-> h[s]]
    BY <1>1, <1>6 DEF Follows
  <2>3. \A s \in 0 .. n : s = 0 \/ s \in 1 .. n
    BY <1>1
  <2> HIDE DEF n
  <2>4. \A s \in 0 .. n : h[s] = IF s = 0 THEN <<>> ELSE Absorb(h[s - 1], ks[s])
    BY <2>1, <2>2, <2>3
  <2> QED
    BY <2>2, <2>4 DEF n, IsAbsorption
<1>8. IsAbsorption(absorbed, ks)
  BY <1>7 DEF AbsorbedBy
<1> HIDE DEF absorbed
<1>9. StaysIn(absorbed, n, V)
  <2>1. absorbed[0] = <<>>
    BY <1>1, <1>8 DEF IsAbsorption
  <2>2. ASSUME NEW s \in 1 .. n, absorbed[prev[s]] \in V[prev[s]] PROVE absorbed[s] \in V[s]
    <3>1. s # 0 /\ s \in 0 .. n
      BY <1>1
    <3>2. absorbed[s] = Absorb(absorbed[s - 1], ks[s])
      BY <1>8, <3>1 DEF IsAbsorption
    <3> QED
      BY <1>2, <1>5, <2>2, <3>2
  <2>3. absorbed[0] \in V[0]
    BY <1>4, <2>1
  <2>4. StepsStay(absorbed, n, prev, V)
    BY <1>1, <1>2, <2>2, <2>3 DEF StepsStay
  <2> QED
    BY <2>4, RecursionStays
<1>10. n \in 0 .. n /\ absorbed[n] \in V[n]
  BY <1>1, <1>9 DEF StaysIn
<1> QED
  BY <1>1, <1>10 DEF V, absorbed

\* What F9 promises of a message
F9Right(fn, len, r) ==
  CASE fn = "snow3g_f9" ->
         LET n == RoundUp(len, 64) \div 64 IN
         r = IF len \in 1 .. SNOW3G_MAX_BITLEN
             THEN [powers |-> [i \in 1 .. n |-> n + 1 - i], bits |-> len - (64 * (n - 1))]
             ELSE NoDigest
    [] fn = "kasumi_f9" ->
         IF len \in 1 .. KASUMI_MAX_BYTES THEN InStep(r.message, 1, 8 * len) ELSE r = NoF9
    [] fn = "kasumi_f9_user" ->
         IF len \in 1 .. KASUMI_MAX_LEN
         THEN /\ InStep(r.message, 1, len) /\ r.direction = len /\ r.one = len + 1
              /\ r.blocks = RoundUp(len + 2, 64) \div 64
         ELSE r = NoF9

LEMMA LastBits ==
  ASSUME NEW len \in Nat \ {0}
  PROVE  LET n == RoundUp(len, 64) \div 64 IN
         n \in Nat /\ len - (64 * (n - 1)) = IF len % 64 = 0 THEN 64 ELSE len % 64
<1>1. CASE len % 64 = 0
  <2>1. RoundUp(len, 64) = len
    BY <1>1 DEF RoundUp
  <2> QED
    BY <1>1, <2>1
<1>2. CASE len % 64 # 0
  <2>1. RoundUp(len, 64) = len + ((-len) % 64)
    BY DEF RoundUp
  <2>2. (len + ((-len) % 64)) \div 64 = len \div 64 + 1
    BY <1>2
  <2>3. (len \div 64 + 1) - 1 = len \div 64 /\ len - 64 * (len \div 64) = len % 64
    OBVIOUS
  <2> QED
    BY <1>2, <2>1, <2>2, <2>3
<1> QED
  BY <1>1, <1>2

LEMMA Snow3gF9Right ==
  ASSUME NEW len \in Nat
  PROVE  F9Right("snow3g_f9", len, SNOW3G_F9_1_BUFFER(len))
<1>0. CASE len \notin 1 .. SNOW3G_MAX_BITLEN
  <2>1. SNOW3G_F9_1_BUFFER(len) = NoDigest
    BY <1>0, Zenon DEF SNOW3G_F9_1_BUFFER
  <2> QED
    BY <1>0, <2>1, Zenon DEF F9Right
<1> SUFFICES ASSUME len \in 1 .. SNOW3G_MAX_BITLEN
             PROVE  LET n == RoundUp(len, 64) \div 64 IN
                    SNOW3G_F9_1_BUFFER(len) =
                      [powers |-> [i \in 1 .. n |-> n + 1 - i], bits |-> len - (64 * (n - 1))]
  BY <1>0, Zenon DEF F9Right
<1> USE BitLenAssumption
<1> DEFINE ks == Absorptions(len)
           w  == RoundUp(len, 64) \div 64
           absorbed == AbsorbedBy(ks)
           b  == IF len % 64 = 0 THEN 64 ELSE len % 64
<1>1. SNOW3G_F9_1_BUFFER(len) = [powers |-> absorbed[Len(ks)], bits |-> b]
  BY Zenon DEF SNOW3G_F9_1_BUFFER, Digest, IsAbsorption, AbsorbedBy
<1>2. w \in Nat /\ len - (64 * (w - 1)) = b
  BY LastBits
<1>3. PICK F \in Nat, T \in Nat : StepsOf(ks, F, T, w)
  BY AbsorptionsFacts
<1> HIDE DEF ks, w
<1>4. absorbed[Len(ks)] = Horner(w)
  BY <1>2, <1>3, AbsorbedInSteps
<1> HIDE DEF absorbed, b
<1> QED
  BY <1>1, <1>2, <1>4 DEF Horner, w

LEMMA KasumiF9Message ==
  ASSUME NEW a \in Nat, NEW n \in Nat, a + n # 0
  PROVE  InStep(Pieces(<<Piece(1, 0, 0, a), Piece(1, a, a, n)>>), 1, a + n)
<1>1. Fits(Piece(1, 0, 0, a), 1, 0, 0, a)
  BY PieceFits
<1>2. Fits(Piece(1, a, a, n), 1, 0, a, a + n)
  BY PieceFits
<1>3. a + n \in Nat \ {0}
  OBVIOUS
<1> QED
  BY <1>1, <1>2, <1>3, TwoPieces

LEMMA KasumiF9Right ==
  ASSUME NEW len \in Nat
  PROVE  /\ F9Right("kasumi_f9", len, kasumi_f9_1_buffer_sse(len))
         /\ F9Right("kasumi_f9", len, kasumi_f9_1_buffer_avx(len))
<1>0. CASE len \notin 1 .. KASUMI_MAX_BYTES
  BY <1>0, Zenon DEF F9Right, kasumi_f9_1_buffer_sse, kasumi_f9_1_buffer_avx
<1> SUFFICES ASSUME len \in 1 .. KASUMI_MAX_BYTES
             PROVE  InStep(kasumi_f9_1_buffer(len).message, 1, 8 * len)
  BY <1>0, Zenon DEF F9Right, kasumi_f9_1_buffer_sse, kasumi_f9_1_buffer_avx
<1> DEFINE a == 8 * RoundDown(len, 8)
           n == 8 * (len % 8)
<1>1. a \in Nat /\ n \in Nat /\ a + n = 8 * len /\ a + n # 0
  BY DEF RoundDown
<1>2. kasumi_f9_1_buffer(len).message = Pieces(<<Piece(1, 0, 0, a), Piece(1, a, a, n)>>)
  BY DEF kasumi_f9_1_buffer
<1> HIDE DEF a, n
<1> QED
  BY <1>1, <1>2, KasumiF9Message

LEMMA KasumiF9UserRight ==
  ASSUME NEW len \in Nat
  PROVE  /\ F9Right("kasumi_f9_user", len, kasumi_f9_1_buffer_user_sse(len))
         /\ F9Right("kasumi_f9_user", len, kasumi_f9_1_buffer_user_avx(len))
<1> DEFINE r == kasumi_f9_1_buffer_user(len)
<1>0. CASE len \notin 1 .. KASUMI_MAX_LEN
  BY <1>0, Zenon
  DEF F9Right, kasumi_f9_1_buffer_user_sse, kasumi_f9_1_buffer_user_avx, KasumiBitsChecked
<1> SUFFICES ASSUME len \in 1 .. KASUMI_MAX_LEN
             PROVE  /\ InStep(r.message, 1, len) /\ r.direction = len /\ r.one = len + 1
                    /\ r.blocks = RoundUp(len + 2, 64) \div 64
  BY <1>0, Zenon
  DEF F9Right, kasumi_f9_1_buffer_user_sse, kasumi_f9_1_buffer_user_avx, KasumiBitsChecked
<1> DEFINE n    == len \div 64
           left == len % 64
           one  == (64 * n) + (CASE left = 0 -> 1 [] left = 63 -> 64 [] OTHER -> left + 1)
           blocks == n + (IF left = 63 THEN 2 ELSE 1)
<1>1. n \in Nat /\ left \in 0 .. 63 /\ len = 64 * n + left
  OBVIOUS
<1>2. /\ r.message = Pieces(<<Piece(1, 0, 0, 64 * n), Piece(1, 64 * n, 64 * n, left)>>)
      /\ r.direction = (64 * n) + left /\ r.one = one /\ r.blocks = blocks
  BY DEF kasumi_f9_1_buffer_user
<1>3. blocks = RoundUp(len + 2, 64) \div 64
  <2>1. RoundUp(len + 2, 64) = (len + 2) + ((-(len + 2)) % 64)
    BY DEF RoundUp
  <2>2. CASE left = 63
    BY <2>1, <2>2
  <2>3. CASE left # 63
    BY <2>1, <2>3
  <2> QED
    BY <2>2, <2>3
<1> HIDE DEF r, n, left
<1>4. one = len + 1
  BY <1>1
<1>5. InStep(r.message, 1, len)
  <2> DEFINE a == 64 * n
  <2>1. a \in Nat /\ left \in Nat /\ a + left = len /\ a + left # 0
    BY <1>1
  <2> HIDE DEF a
  <2>2. InStep(Pieces(<<Piece(1, 0, 0, a), Piece(1, a, a, left)>>), 1, a + left)
    BY <2>1, KasumiF9Message
  <2> QED
    BY <1>2, <2>1, <2>2 DEF a
<1> QED
  BY <1>1, <1>2, <1>3, <1>4, <1>5

---------------------------------------------------------------------------
(* F8 of a number of bits *)

LEMMA LesserOfTwo ==
  ASSUME NEW a \in Int, NEW b \in Int
  PROVE  Min({a, b}) = IF a <= b THEN a ELSE b
<1>1. CASE a <= b
  BY <1>1 DEF Min
<1>2. CASE ~(a <= b)
  BY <1>2 DEF Min
<1> QED
  BY <1>1, <1>2

LEMMA NotNegative ==
  ASSUME NEW a \in Int
  PROVE  Max({0, a}) = IF a <= 0 THEN 0 ELSE a
<1>1. CASE a <= 0
  BY <1>1 DEF Max
<1>2. CASE ~(a <= 0)
  BY <1>2 DEF Max
<1> QED
  BY <1>1, <1>2

\* The pieces of a block
LEMMA BlockFits ==
  ASSUME NEW j \in Nat, NEW rem \in 0 .. 7, NEW n \in Nat \ {0}
  PROVE  LET b == BlockBits(j, rem, n)
             m == 64 * j + (IF rem <= n THEN rem ELSE n)
         IN  Fits(b[1], 1, rem, 64 * j, m) /\ Fits(b[2], 1, rem, m, 64 * j + n) /\ m \in Nat
<1> DEFINE first  == IF rem <= n THEN rem ELSE n
           second == IF n - rem <= 0 THEN 0 ELSE n - rem
           p      == Piece(1, 64 * j, 64 * j - rem, first)
           q      == Piece(1, 64 * j + rem, 64 * j, second)
           m      == 64 * j + first
<1>1. BlockBits(j, rem, n) = <<p, q>>
  <2>1. Min({rem, n}) = first /\ Max({0, n - rem}) = second
    BY LesserOfTwo, NotNegative
  <2> QED
    BY <2>1 DEF BlockBits, BLOCK_BITS
<1>2. first \in Nat /\ second \in Nat /\ m \in Nat /\ m + second = 64 * j + n
  OBVIOUS
<1>3. /\ p \in PieceSet /\ p.of = 1 /\ p.at = 64 * j /\ p.ks = 64 * j - rem /\ p.n = first
      /\ q \in PieceSet /\ q.of = 1 /\ q.at = 64 * j + rem /\ q.ks = 64 * j /\ q.n = second
  <2> DEFINE a == 64 * j
             c == 64 * j - rem
             e == 64 * j + rem
  <2>1. a \in Int /\ c \in Int /\ e \in Int
    OBVIOUS
  <2> HIDE DEF a, c, e, first, second
  <2>2. p = Piece(1, a, c, first) /\ q = Piece(1, e, a, second)
    BY DEF a, c, e
  <2> HIDE DEF p, q
  <2>3. /\ p \in PieceSet /\ p.of = 1 /\ p.at = a /\ p.ks = c /\ p.n = first
        /\ q \in PieceSet /\ q.of = 1 /\ q.at = e /\ q.ks = a /\ q.n = second
    BY <1>2, <2>1, <2>2 DEF Piece, PieceSet
  <2> QED
    BY <2>3 DEF a, c, e
<1>4. second # 0 => m = 64 * j + rem /\ 64 * j = m - rem
  OBVIOUS
<1> HIDE DEF p, q, second
<1>5. Fits(p, 1, rem, 64 * j, m)
  BY <1>3 DEF Fits
<1>6. Fits(q, 1, rem, m, 64 * j + n)
  BY <1>2, <1>3, <1>4 DEF Fits
<1> HIDE DEF first, m
<1> QED
  BY <1>1, <1>2, <1>5, <1>6 DEF m, first

\* What F8 does to the bits of a message
ExactBits(r, len, rem) ==
  /\ \A k \in DOMAIN r.pieces :
       /\ r.pieces[k].of = 1
       /\ r.pieces[k].ks = r.pieces[k].at - rem
       /\ r.pieces[k].at = IF k = 1 THEN rem ELSE End(r.pieces[k - 1])
  /\ End(r.pieces[Len(r.pieces)]) = rem + len
  /\ r.kept \cup (rem .. rem + len - 1) = 0 .. (8 * r.written) - 1

\* Piece k of the bits from rem up to "after"
BitPiece(k, rem, len, after) ==
  LET j == k \div 2 IN
  IF k = 1 THEN Piece(1, rem, 0, Min({len, BLOCK_BITS - rem}))
  ELSE BlockBits(j, rem, Min({BLOCK_BITS, after - (BLOCK_BITS * j)}))[1 + (k % 2)]

\* Where it ends
BitEnd(k, rem, after) ==
  LET j == k \div 2
      n == IF 64 <= after - 64 * j THEN 64 ELSE after - 64 * j
  IN  IF k = 0 THEN rem
      ELSE IF k % 2 = 1 THEN 64 * j + n
      ELSE 64 * j + (IF rem <= n THEN rem ELSE n)

LEMMA BitPieceFits ==
  ASSUME NEW len \in Nat \ {0}, NEW rem \in 0 .. 7, NEW after, after = rem + len,
         NEW k \in Nat \ {0}, 64 * (k \div 2) < after
  PROVE  /\ Fits(BitPiece(k, rem, len, after), 1, rem, BitEnd(k - 1, rem, after), BitEnd(k, rem, after))
         /\ BitEnd(k, rem, after) \in Nat
<1> DEFINE j == k \div 2
           n == IF 64 <= after - 64 * j THEN 64 ELSE after - 64 * j
           b == BlockBits(j, rem, n)
           m == 64 * j + (IF rem <= n THEN rem ELSE n)
<1>1. j \in Nat /\ n \in Nat \ {0}
  OBVIOUS
<1>2. Fits(b[1], 1, rem, 64 * j, m) /\ Fits(b[2], 1, rem, m, 64 * j + n) /\ m \in Nat
  <2> HIDE DEF j, n
  <2> QED
    BY <1>1, BlockFits
<1>3. Min({BLOCK_BITS, after - (BLOCK_BITS * j)}) = n
  BY LesserOfTwo DEF BLOCK_BITS
<1>4. CASE k = 1
  <2> DEFINE first == IF len <= 64 - rem THEN len ELSE 64 - rem
  <2>1. BitPiece(k, rem, len, after) = Piece(1, rem, 0, first)
    BY <1>4, LesserOfTwo DEF BitPiece, BLOCK_BITS
  <2>2. first \in Nat /\ rem + first = BitEnd(k, rem, after)
    BY <1>4 DEF BitEnd
  <2>3. BitEnd(k - 1, rem, after) = rem /\ rem \in Nat
    BY <1>4 DEF BitEnd
  <2> DEFINE p == Piece(1, rem, 0, first)
  <2> HIDE DEF first
  <2>4. p \in PieceSet /\ p.of = 1 /\ p.at = rem /\ p.ks = 0 /\ p.n = first
    BY <2>2, <2>3 DEF Piece, PieceSet
  <2> HIDE DEF p
  <2>5. Fits(p, 1, rem, rem, rem + first)
    BY <2>4 DEF Fits
  <2>6. BitEnd(k, rem, after) \in Nat
    BY <2>2, <2>3
  <2> QED
    BY <2>1, <2>2, <2>3, <2>5, <2>6 DEF p
<1>5. CASE k # 1 /\ k % 2 = 0
  <2>1. BitPiece(k, rem, len, after) = b[1]
    <3>1. BitPiece(k, rem, len, after) = BlockBits(j, rem, Min({BLOCK_BITS, after - (BLOCK_BITS * j)}))[1 + (k % 2)]
      BY <1>5 DEF BitPiece
    <3>2. 1 + (k % 2) = 1
      BY <1>5
    <3> HIDE DEF j, n
    <3> QED
      BY <1>3, <3>1, <3>2
  <2>2. BitEnd(k, rem, after) = m
    BY <1>5 DEF BitEnd
  <2>3. BitEnd(k - 1, rem, after) = 64 * j
    <3>1. (k - 1) \div 2 = j - 1 /\ (k - 1) % 2 = 1 /\ k - 1 # 0
      BY <1>5
    <3>2. 64 <= after - 64 * (j - 1)
      BY <1>1
    <3> QED
      BY <1>1, <3>1, <3>2 DEF BitEnd
  <2> HIDE DEF m, b, j
  <2> QED
    BY <1>2, <2>1, <2>2, <2>3
<1>6. CASE k # 1 /\ k % 2 # 0
  <2>1. BitPiece(k, rem, len, after) = b[2]
    <3>1. BitPiece(k, rem, len, after) = BlockBits(j, rem, Min({BLOCK_BITS, after - (BLOCK_BITS * j)}))[1 + (k % 2)]
      BY <1>6 DEF BitPiece
    <3>2. 1 + (k % 2) = 2
      BY <1>6
    <3> HIDE DEF j, n
    <3> QED
      BY <1>3, <3>1, <3>2
  <2>2. BitEnd(k, rem, after) = 64 * j + n
    BY <1>6 DEF BitEnd
  <2>3. BitEnd(k - 1, rem, after) = m
    <3>1. (k - 1) \div 2 = j /\ (k - 1) % 2 = 0 /\ k - 1 # 0
      BY <1>6
    <3> QED
      BY <3>1 DEF BitEnd
  <2>4. 64 * j + n \in Nat
    BY <1>1
  <2> HIDE DEF m, b, j, n
  <2> QED
    BY <1>2, <2>1, <2>2, <2>3, <2>4
<1> QED
  BY <1>4, <1>5, <1>6

LEMMA F8BitsExact ==
  ASSUME NEW len \in Nat \ {0}, NEW offset \in Nat, ~Spills(len, offset % 8)
  PROVE  ExactBits(F8Bits(len, offset), len, offset % 8)
<1> DEFINE rem    == offset % 8
           after  == rem + len
           blocks == (after - 1) \div 64
           n      == (2 * blocks) + 1
           list   == [k \in 1 .. n |-> BitPiece(k, rem, len, after)]
           pieces == Pieces(list)
           written == IF len < 64 - rem THEN RoundUp(len, 8) \div 8 ELSE RoundUp(after, 8) \div 8
           kept   == (0 .. rem - 1) \cup (after .. (8 * written) - 1)
<1>1. rem \in 0 .. 7 /\ after \in Nat \ {0} /\ blocks \in Nat /\ n \in Nat /\ rem \in Int
  OBVIOUS
<1>2. F8Bits(len, offset) = [pieces |-> pieces, kept |-> kept, written |-> written]
  BY DEF F8Bits, BitPiece, BLOCK_BITS
<1>3. 8 * written >= after
  <2>1. RoundUp(len, 8) = len + ((-len) % 8) /\ RoundUp(after, 8) = after + ((-after) % 8)
    BY DEF RoundUp
  <2>2. 8 * (RoundUp(after, 8) \div 8) = RoundUp(after, 8) /\ RoundUp(after, 8) >= after
    <3> HIDE DEF after
    <3> QED
      BY <1>1, <2>1
  <2>3. 8 * (RoundUp(len, 8) \div 8) = RoundUp(len, 8)
    BY <2>1
  <2>4. RoundUp(len, 8) \in Int /\ RoundUp(after, 8) \in Int
    BY <1>1, <2>1
  <2>5. ~(len < 64 - rem /\ RoundUp(len, 8) < RoundUp(after, 8))
    BY DEF Spills, BLOCK_BITS
  <2> HIDE DEF after, rem
  <2> QED
    BY <1>1, <2>2, <2>3, <2>4, <2>5
<1> HIDE DEF written
<1>4. written \in Int
  <2>1. RoundUp(len, 8) = len + ((-len) % 8) /\ RoundUp(after, 8) = after + ((-after) % 8)
    BY DEF RoundUp
  <2> QED
    BY <1>1, <2>1 DEF written
<1>5. kept \cup (rem .. rem + len - 1) = 0 .. (8 * written) - 1
  <2>1. after = rem + len
    OBVIOUS
  <2> HIDE DEF rem, after
  <2> QED
    BY <1>1, <1>3, <1>4, <2>1
<1> HIDE DEF kept, rem, blocks
<1>6. \A k \in 1 .. n : 64 * (k \div 2) < after
  <2> TAKE k \in 1 .. n
  <2>1. k \div 2 <= blocks
    BY <1>1
  <2>2. 64 * blocks < after
    <3> HIDE DEF after
    <3> QED
      BY <1>1 DEF blocks
  <2>3. k \div 2 \in Int
    BY <1>1
  <2> HIDE DEF after, n
  <2> QED
    BY <1>1, <2>1, <2>2, <2>3
<1> HIDE DEF after
<1>7. after = rem + len
  BY DEF after
<1> DEFINE pos == [k \in 0 .. n |-> BitEnd(k, rem, after)]
<1>8. Row(list, 1, rem, pos)
  <2>1. \A k \in 1 .. n : /\ Fits(BitPiece(k, rem, len, after), 1, rem, BitEnd(k - 1, rem, after), BitEnd(k, rem, after))
                          /\ BitEnd(k, rem, after) \in Nat
    <3> TAKE k \in 1 .. n
    <3>1. k \in Nat \ {0} /\ 64 * (k \div 2) < after
      BY <1>1, <1>6
    <3> HIDE DEF n
    <3> QED
      BY <1>1, <1>7, <3>1, BitPieceFits
  <2> HIDE DEF n
  <2>2. \A k \in 1 .. n : BitPiece(k, rem, len, after) \in PieceSet
    BY <2>1 DEF Fits
  <2>3. list \in Seq(PieceSet) /\ Len(list) = n
    BY <1>1, <2>2
  <2>4. \A k \in 1 .. n : list[k] = BitPiece(k, rem, len, after)
    OBVIOUS
  <2>5. \A k \in 0 .. n : pos[k] \in Int
    <3> TAKE k \in 0 .. n
    <3>1. CASE k = 0
      BY <1>1, <3>1 DEF BitEnd
    <3>2. CASE k # 0
      <4>1. k \in 1 .. n
        BY <1>1, <3>2
      <4> QED
        BY <2>1, <4>1
    <3> QED
      BY <3>1, <3>2
  <2>6. \A k \in 1 .. n : pos[k] = BitEnd(k, rem, after) /\ pos[k - 1] = BitEnd(k - 1, rem, after)
    BY <1>1
  <2> HIDE DEF list, pos
  <2>7. \A k \in 1 .. n : Fits(list[k], 1, rem, pos[k - 1], pos[k])
    BY <2>1, <2>4, <2>6
  <2> QED
    BY <2>3, <2>5, <2>7 DEF Row
<1>9. pos[0] = rem /\ pos[n] = after /\ Len(list) = n
  <2>1. pos[0] = rem
    BY <1>1 DEF BitEnd
  <2>2. BitEnd(n, rem, after) = after
    <3>1. n \div 2 = blocks /\ n % 2 = 1 /\ n # 0
      BY <1>1
    <3>2. ~(64 <= after - 64 * blocks) \/ 64 = after - 64 * blocks
      BY <1>1 DEF blocks
    <3> HIDE DEF n
    <3> QED
      BY <1>1, <3>1, <3>2 DEF BitEnd
  <2>3. n \in 0 .. n
    BY <1>1
  <2>4. Len(list) = n
    BY <1>1
  <2> HIDE DEF n, list
  <2> QED
    BY <2>1, <2>2, <2>3, <2>4
<1>10. Chained(pieces, 1, rem, rem, after)
  <2> HIDE DEF pos, list
  <2>1. Chained(Pieces(list), 1, pos[0], rem, pos[Len(list)])
    BY <1>1, <1>8, PiecesChained
  <2> QED
    BY <1>9, <2>1
<1> HIDE DEF pieces
<1>11. pieces \in Seq(PieceSet) /\ DOMAIN pieces = 1 .. Len(pieces) /\ Len(pieces) # 0
  <2>1. pieces \in Seq(PieceSet)
    BY <1>10 DEF Chained
  <2>2. after # rem
    BY <1>1, <1>7
  <2> QED
    BY <1>10, <2>1, <2>2 DEF Chained
<1>12. End(pieces[Len(pieces)]) = rem + len
  BY <1>7, <1>10, <1>11 DEF Chained
<1>13. \A k \in DOMAIN pieces :
         /\ pieces[k].of = 1 /\ pieces[k].ks = pieces[k].at - rem
         /\ pieces[k].at = IF k = 1 THEN rem ELSE End(pieces[k - 1])
  BY <1>10, <1>11 DEF Chained
<1>14. ExactBits(F8Bits(len, offset), len, rem)
  <2> DEFINE r == F8Bits(len, offset)
  <2>1. r.pieces = pieces /\ r.kept = kept /\ r.written = written
    BY <1>2
  <2> HIDE DEF r, pieces, kept, written
  <2>2. \A k \in DOMAIN r.pieces :
          /\ r.pieces[k].of = 1 /\ r.pieces[k].ks = r.pieces[k].at - rem
          /\ r.pieces[k].at = IF k = 1 THEN rem ELSE End(r.pieces[k - 1])
    BY ONLY <1>13, <2>1
  <2>3. End(r.pieces[Len(r.pieces)]) = rem + len
    BY ONLY <1>12, <2>1
  <2>4. r.kept \cup (rem .. rem + len - 1) = 0 .. (8 * r.written) - 1
    BY ONLY <1>5, <2>1
  <2> QED
    BY ONLY <2>2, <2>3, <2>4 DEF ExactBits, r
<1> QED
  BY <1>14 DEF rem

\* What a function for bits promises
BitsRight(fn, len, offset, r) ==
  LET rem == offset % 8 IN
  \/ len = 0
  \/ fn = "kasumi_bit" /\ len > KASUMI_MAX_LEN
  \/ Spills(len, rem)
  \/ ExactBits(r, len, rem)

LEMMA BitsFunctionsRight ==
  ASSUME NEW len \in Nat, NEW offset \in Nat
  PROVE  /\ BitsRight("snow3g_bit", len, offset, SNOW3G_F8_1_BUFFER_BIT(len, offset))
         /\ BitsRight("kasumi_bit", len, offset, kasumi_f8_1_buffer_bit_sse(len, offset))
         /\ BitsRight("kasumi_bit", len, offset, kasumi_f8_1_buffer_bit_avx(len, offset))
<1>1. len # 0 /\ ~Spills(len, offset % 8) => ExactBits(F8Bits(len, offset), len, offset % 8)
  BY F8BitsExact
<1>2. len # 0 => SNOW3G_F8_1_BUFFER_BIT(len, offset) = F8Bits(len, offset)
  BY DEF SNOW3G_F8_1_BUFFER_BIT
<1>3. len # 0 /\ ~(len > KASUMI_MAX_LEN) =>
        /\ kasumi_f8_1_buffer_bit_sse(len, offset) = F8Bits(len, offset)
        /\ kasumi_f8_1_buffer_bit_avx(len, offset) = F8Bits(len, offset)
  BY DEF kasumi_f8_1_buffer_bit_sse, kasumi_f8_1_buffer_bit_avx, kasumi_f8_1_buffer_bit,
         KasumiBitsChecked, KASUMI_MAX_LEN
<1> QED
  BY <1>1, <1>2, <1>3 DEF BitsRight

---------------------------------------------------------------------------
(* The sort *)

RowSet == [buf : Int, iv : Int, key : Int, len : Nat]

\* The rows are those of the packets, in any order.
Shuffled(r, lens) ==
  /\ r \in Seq(RowSet) /\ Len(r) = Len(lens)
  /\ \A k \in 1 .. Len(r) : /\ r[k].buf \in 1 .. Len(r) /\ r[k].iv = r[k].buf
                            /\ r[k].key = r[k].buf /\ r[k].len = lens[r[k].buf]
  /\ \A b \in 1 .. Len(r) : \E k \in 1 .. Len(r) : r[k].buf = b

LEMMA RowsShuffled ==
  ASSUME NEW lens \in Seq(Nat)
  PROVE  Shuffled(Rows(lens), lens)
<1> DEFINE n == Len(lens)
           r == Rows(lens)
<1>1. n \in Nat /\ DOMAIN lens = 1 .. n /\ \A i \in 1 .. n : lens[i] \in Nat
  OBVIOUS
<1>2. r = [i \in 1 .. n |-> [buf |-> i, iv |-> i, key |-> i, len |-> lens[i]]]
  BY <1>1 DEF Rows
<1> HIDE DEF n, r
<1>3. \A i \in 1 .. n : [buf |-> i, iv |-> i, key |-> i, len |-> lens[i]] \in RowSet
  BY <1>1 DEF RowSet
<1>4. r \in Seq(RowSet) /\ Len(r) = n
  BY <1>1, <1>2, <1>3
<1>5. \A k \in 1 .. n : r[k].buf = k /\ r[k].iv = k /\ r[k].key = k /\ r[k].len = lens[k]
  BY <1>2
<1> QED
  BY <1>4, <1>5 DEF Shuffled, n, r

\* What a swap does
LEMMA SwappedFacts ==
  ASSUME NEW r \in Seq(RowSet), NEW p \in 1 .. Len(r), NEW q \in 1 .. Len(r), p # q
  PROVE  LET s == Swapped(r, p, q) IN
         /\ s \in Seq(RowSet) /\ Len(s) = Len(r)
         /\ s[p] = r[q] /\ s[q] = r[p] /\ \A k \in 1 .. Len(r) : k # p /\ k # q => s[k] = r[k]
BY DEF Swapped

LEMMA SwappedShuffled ==
  ASSUME NEW r, NEW lens, Shuffled(r, lens), NEW p \in 1 .. Len(r), NEW q \in 1 .. Len(r), p # q
  PROVE  Shuffled(Swapped(r, p, q), lens)
<1> DEFINE s == Swapped(r, p, q)
           n == Len(r)
<1>1. r \in Seq(RowSet) /\ n = Len(lens)
  BY DEF Shuffled
<1>2. /\ s \in Seq(RowSet) /\ Len(s) = n
      /\ s[p] = r[q] /\ s[q] = r[p] /\ \A k \in 1 .. n : k # p /\ k # q => s[k] = r[k]
  BY <1>1, SwappedFacts
<1> HIDE DEF s
<1>3. \A k \in 1 .. n : /\ r[k].buf \in 1 .. n /\ r[k].iv = r[k].buf
                        /\ r[k].key = r[k].buf /\ r[k].len = lens[r[k].buf]
  BY DEF Shuffled
<1>4. \A b \in 1 .. n : \E k \in 1 .. n : r[k].buf = b
  BY DEF Shuffled
<1> HIDE DEF n
<1>5. p \in 1 .. n /\ q \in 1 .. n
  BY DEF n
<1>6. \A k \in 1 .. n : /\ s[k].buf \in 1 .. n /\ s[k].iv = s[k].buf
                        /\ s[k].key = s[k].buf /\ s[k].len = lens[s[k].buf]
  <2> TAKE k \in 1 .. n
  <2>1. \E j \in 1 .. n : s[k] = r[j]
    BY <1>2, <1>5
  <2> QED
    BY <1>3, <2>1
<1>7. ASSUME NEW b \in 1 .. n PROVE \E k \in 1 .. n : s[k].buf = b
  <2>1. PICK k \in 1 .. n : r[k].buf = b
    BY <1>4
  <2>2. \E j \in 1 .. n : s[j] = r[k]
    BY <1>2, <1>5
  <2> QED
    BY <2>1, <2>2
<1> QED
  BY <1>1, <1>2, <1>6, <1>7 DEF Shuffled, s

\* The rows from p on are in their places: none before is shorter.
InPlace(r, p) == \A a \in 1 .. Len(r) : p <= a => \A b \in 1 .. Len(r) : b < a => r[b].len >= r[a].len

\* A pass from row p that has met the k rows before it
Passing(x, lens, p, k) ==
  /\ Shuffled(x, lens) /\ InPlace(x, p + 1)
  /\ \A b \in 1 .. Len(x) : p - k <= b /\ b < p => x[b].len >= x[p].len

Met(x, p, q) == IF x[p].len > x[q].len THEN Swapped(x, p, q) ELSE x

LEMMA MetPassing ==
  ASSUME NEW x, NEW lens, NEW p \in 1 .. Len(lens), NEW k \in 1 .. p - 1, Passing(x, lens, p, k - 1)
  PROVE  Passing(Met(x, p, p - k), lens, p, k)
<1> DEFINE n == Len(x)
           q == p - k
           s == Met(x, p, q)
<1>1. Shuffled(x, lens) /\ InPlace(x, p + 1) /\ n = Len(lens) /\ x \in Seq(RowSet)
  BY DEF Passing, Shuffled
<1>2. \A b \in 1 .. n : p - (k - 1) <= b /\ b < p => x[b].len >= x[p].len
  BY DEF Passing
<1>3. n \in Nat /\ p \in 1 .. n /\ q \in 1 .. n /\ q < p /\ p \in Int /\ q \in Int
  BY <1>1
<1>4. \A b \in 1 .. n : x[b].len \in Nat
  <2>1. \A b \in 1 .. n : x[b] \in RowSet
    BY <1>1
  <2> QED
    BY <2>1 DEF RowSet
<1>5. \A b \in 1 .. n : q < b /\ b < p => x[b].len >= x[p].len
  <2> TAKE b \in 1 .. n
  <2>1. q < b => p - (k - 1) <= b
    BY <1>3
  <2> QED
    BY <1>2, <2>1
<1>6. InPlace(x, p + 1)
  BY <1>1
<1>7. Shuffled(s, lens) /\ Len(s) = n /\ (x[p].len > x[q].len =>
        s[p] = x[q] /\ s[q] = x[p] /\ \A b \in 1 .. n : b # p /\ b # q => s[b] = x[b])
  <2>1. CASE x[p].len > x[q].len
    <3>1. s = Swapped(x, p, q)
      BY <2>1 DEF Met
    <3> HIDE DEF s, q
    <3>2. p # q
      BY <1>3
    <3>3. Shuffled(s, lens)
      BY <1>1, <1>3, <3>1, <3>2, SwappedShuffled
    <3> QED
      BY <1>1, <1>3, <3>1, <3>2, <3>3, SwappedFacts
  <2>2. CASE ~(x[p].len > x[q].len)
    BY <1>1, <2>2 DEF Met
  <2> QED
    BY <2>1, <2>2
<1>8. ~(x[p].len > x[q].len) => s = x
  BY DEF Met
<1> HIDE DEF n, q, s
<1>9. \A b \in 1 .. n : q <= b /\ b < p => s[b].len >= s[p].len
  <2> TAKE b \in 1 .. n
  <2>1. x[b].len \in Nat /\ x[p].len \in Nat /\ x[q].len \in Nat
    BY <1>3, <1>4
  <2> SUFFICES ASSUME q <= b, b < p PROVE s[b].len >= s[p].len
    OBVIOUS
  <2>2. CASE b = q
    <3>1. CASE x[p].len > x[q].len
      BY <1>7, <2>1, <2>2, <3>1
    <3>2. CASE ~(x[p].len > x[q].len)
      BY <1>8, <2>1, <2>2, <3>2
    <3> QED
      BY <3>1, <3>2
  <2>3. CASE b # q
    <3>1. x[b].len >= x[p].len /\ b # p
      BY <1>3, <1>5, <2>3
    <3>2. CASE x[p].len > x[q].len
      <4>1. s[b] = x[b] /\ s[p] = x[q]
        BY <1>7, <2>3, <3>1, <3>2
      <4> QED
        BY <2>1, <3>1, <3>2, <4>1
    <3>3. CASE ~(x[p].len > x[q].len)
      BY <1>8, <3>1, <3>3
    <3> QED
      BY <3>2, <3>3
  <2> QED
    BY <2>2, <2>3
<1>10. InPlace(s, p + 1)
  <2> SUFFICES ASSUME NEW a \in 1 .. n, p + 1 <= a, NEW b \in 1 .. n, b < a
               PROVE  s[b].len >= s[a].len
    BY <1>7 DEF InPlace
  <2>1. a # p /\ a # q /\ p < a /\ q < a
    BY <1>3
  <2>2. s[a] = x[a]
    BY <1>7, <1>8, <2>1
  <2>3. \A c \in 1 .. n : c < a => x[c].len >= x[a].len
    BY <1>6 DEF InPlace, n
  <2>4. \E c \in 1 .. n : c < a /\ s[b] = x[c]
    BY <1>3, <1>7, <1>8, <2>1
  <2> QED
    BY <2>2, <2>3, <2>4
<1> QED
  <2>1. \A b \in 1 .. n : p - k <= b /\ b < p => s[b].len >= s[p].len
    BY <1>9 DEF q
  <2> QED
    BY <1>7, <1>10, <2>1 DEF Passing, q, s

IsPass(f, r, p) ==
  f = [k \in 0 .. p - 1 |-> IF k = 0 THEN r
                            ELSE IF f[k - 1][p].len > f[k - 1][p - k].len
                                 THEN Swapped(f[k - 1], p, p - k) ELSE f[k - 1]]

\* A pass puts row p in its place.
LEMMA PassFacts ==
  ASSUME NEW r, NEW lens, NEW p \in 1 .. Len(lens), Len(lens) \in Nat, Shuffled(r, lens), InPlace(r, p + 1)
  PROVE  Shuffled(Pass(r, p), lens) /\ InPlace(Pass(r, p), p)
<1> DEFINE n    == p - 1
           S    == {x \in Seq(RowSet) : Shuffled(x, lens)}
           T    == [k \in 0 .. n |-> {x \in S : Passing(x, lens, p, k)}]
           prev == [k \in 1 .. n |-> k - 1]
           step == [k \in 1 .. n |-> [x \in S |-> Met(x, p, p - k)]]
<1>1. n \in Nat /\ p \in Int /\ p = n + 1
  OBVIOUS
<1>2. \A k \in 1 .. n : prev[k] = k - 1 /\ prev[k] \in 0 .. k - 1 /\ prev[k] \in 0 .. n
  BY <1>1
<1>3. r \in T[0]
  <2>1. \A b \in 1 .. Len(r) : ~(p - 0 <= b /\ b < p)
    BY <1>1
  <2>2. Passing(r, lens, p, 0)
    BY <2>1 DEF Passing
  <2>3. 0 \in 0 .. n
    BY <1>1
  <2>4. r \in S
    BY DEF Shuffled
  <2> QED
    BY <2>2, <2>3, <2>4
<1>4. ASSUME NEW k \in 1 .. n, NEW x \in T[k - 1]
      PROVE  Met(x, p, p - k) \in T[k] /\ step[k][x] = Met(x, p, p - k)
  <2>1. k - 1 \in 0 .. n /\ k \in 0 .. n /\ k \in 1 .. p - 1
    BY <1>1
  <2>2. x \in S /\ Passing(x, lens, p, k - 1)
    BY <2>1
  <2>3. Passing(Met(x, p, p - k), lens, p, k)
    BY <2>1, <2>2, MetPassing
  <2>4. Met(x, p, p - k) \in S
    BY <2>3 DEF Passing, Shuffled
  <2> QED
    BY <2>1, <2>2, <2>3, <2>4
<1> HIDE DEF T, prev, step
<1>5. \E f : Follows(f, n, prev, r, step) /\ StaysIn(f, n, T)
  <2>1. \A k \in 1 .. n : \A x \in T[prev[k]] : step[k][x] \in T[k]
    BY <1>2, <1>4
  <2>2. Steps(n, prev, T, r, step)
    BY <1>1, <1>2, <1>3, <2>1 DEF Steps
  <2> QED
    BY <2>2, RecursionDefines
<1>6. \E f : IsPass(f, r, p)
  <2>1. PICK f : Follows(f, n, prev, r, step) /\ StaysIn(f, n, T)
    BY <1>5
  <2>2. ASSUME NEW k \in 1 .. n PROVE f[k] = Met(f[k - 1], p, p - k)
    <3>1. k # 0 /\ k \in 0 .. n /\ k - 1 \in 0 .. n
      BY <1>1
    <3>2. f[k] = step[k][f[k - 1]] /\ f[k - 1] \in T[k - 1]
      BY <1>2, <2>1, <3>1 DEF Follows, StaysIn
    <3> QED
      BY <1>4, <3>2
  <2>3. f[0] = r /\ f = [k \in 0 .. n |-> f[k]]
    BY <1>1, <2>1 DEF Follows
  <2>4. \A k \in 0 .. n : k = 0 \/ k \in 1 .. n
    BY <1>1
  <2> HIDE DEF n
  <2>5. \A k \in 0 .. n : f[k] = IF k = 0 THEN r ELSE Met(f[k - 1], p, p - k)
    BY <2>2, <2>3, <2>4
  <2> QED
    BY <2>3, <2>5 DEF Met, n, IsPass
<1> DEFINE f == CHOOSE f : IsPass(f, r, p)
<1>7. Pass(r, p) = f[n]
  BY DEF Pass, IsPass
<1>8. IsPass(f, r, p)
  BY <1>6
<1> HIDE DEF f
<1>9. StaysIn(f, n, T)
  <2>1. f[0] = r
    BY <1>1, <1>8 DEF IsPass
  <2>2. ASSUME NEW k \in 1 .. n, f[prev[k]] \in T[prev[k]] PROVE f[k] \in T[k]
    <3>1. k # 0 /\ k \in 0 .. n
      BY <1>1
    <3>2. f[k] = Met(f[k - 1], p, p - k)
      BY <1>8, <3>1 DEF Met, IsPass
    <3>3. f[k - 1] \in T[k - 1]
      BY <1>2, <2>2
    <3> QED
      BY <1>4, <3>2, <3>3
  <2>3. f[0] \in T[0]
    BY <1>3, <2>1
  <2>4. StepsStay(f, n, prev, T)
    BY <1>1, <1>2, <2>2, <2>3 DEF StepsStay
  <2> QED
    BY <2>4, RecursionStays
<1> DEFINE x == f[n]
<1>10. Passing(x, lens, p, n)
  <2>1. n \in 0 .. n
    BY <1>1
  <2> QED
    BY <1>9, <2>1 DEF StaysIn, T
<1> HIDE DEF x
<1>11. Shuffled(x, lens) /\ InPlace(x, p + 1) /\ Len(x) \in Nat
  BY <1>10 DEF Passing, Shuffled
<1>12. \A b \in 1 .. Len(x) : b < p => x[b].len >= x[p].len
  <2>1. \A b \in 1 .. Len(x) : p - n <= b
    BY <1>1
  <2> QED
    BY <1>10, <2>1 DEF Passing
<1>13. InPlace(x, p)
  <2> SUFFICES ASSUME NEW a \in 1 .. Len(x), p <= a, NEW b \in 1 .. Len(x), b < a
               PROVE  x[b].len >= x[a].len
    BY DEF InPlace
  <2>1. a = p \/ p + 1 <= a
    BY <1>1
  <2> QED
    BY <1>11, <1>12, <2>1 DEF InPlace
<1> QED
  BY <1>7, <1>11, <1>13 DEF x

LEMMA DescendingInPlace ==
  ASSUME NEW r \in Seq(RowSet), Descending(r)
  PROVE  InPlace(r, 1)
<1> DEFINE n == Len(r)
<1>1. n \in Nat /\ \A k \in 1 .. n : r[k].len \in Nat
  <2>1. \A k \in 1 .. n : r[k] \in RowSet
    OBVIOUS
  <2> QED
    BY <2>1 DEF RowSet
<1>2. \A k \in 2 .. n : r[k - 1].len >= r[k].len
  BY DEF Descending
<1> HIDE DEF n
<1>3. ASSUME NEW b \in 1 .. n
      PROVE  \A a \in 1 .. n : b < a => r[b].len >= r[a].len
  <2> DEFINE Bad == {a \in 1 .. n : b < a /\ ~(r[b].len >= r[a].len)}
  <2> SUFFICES ASSUME Bad # {} PROVE FALSE
    OBVIOUS
  <2>1. PICK a \in Bad : \A c \in Bad : a <= c
    <3>1. Bad \in SUBSET Nat
      BY <1>1
    <3> HIDE DEF Bad
    <3> QED
      BY <3>1, LeastNatural
  <2>2. a \in 1 .. n /\ b < a /\ ~(r[b].len >= r[a].len) /\ a - 1 \in 1 .. n /\ ~(a <= a - 1) /\ a \in 2 .. n
    BY <1>1, <2>1
  <2>3. r[a - 1].len >= r[a].len
    BY <1>2, <2>2
  <2>4. ~(b < a - 1) \/ r[b].len >= r[a - 1].len
    BY <2>1, <2>2
  <2>5. b < a - 1 \/ b = a - 1
    BY <1>1, <2>2
  <2>6. r[b].len \in Nat /\ r[a].len \in Nat /\ r[a - 1].len \in Nat
    BY <1>1, <2>2
  <2> QED
    BY <2>2, <2>3, <2>4, <2>5, <2>6
<1> QED
  BY <1>3 DEF InPlace, n

\* k passes have been made, or none is needed any more.
Sorting(x, lens, k) ==
  /\ Shuffled(x, lens)
  /\ Descending(x) \/ InPlace(x, Len(lens) + 1 - k)

PassDue(x, n, k) == IF Descending(x) THEN x ELSE Pass(x, n + 1 - k)

LEMMA PassSorts ==
  ASSUME NEW lens, Len(lens) \in Nat, NEW k \in 1 .. Len(lens), NEW x, Sorting(x, lens, k - 1)
  PROVE  Sorting(PassDue(x, Len(lens), k), lens, k)
<1> DEFINE n == Len(lens)
           p == n + 1 - k
<1>1. CASE Descending(x)
  BY <1>1 DEF Sorting, PassDue
<1>2. CASE ~Descending(x)
  <2>1. p \in 1 .. n /\ n + 1 - (k - 1) = p + 1
    OBVIOUS
  <2>2. Shuffled(x, lens) /\ InPlace(x, p + 1)
    BY <1>2, <2>1 DEF Sorting
  <2>3. PassDue(x, n, k) = Pass(x, p)
    BY <1>2 DEF PassDue
  <2> HIDE DEF p
  <2>4. Shuffled(Pass(x, p), lens) /\ InPlace(Pass(x, p), p)
    BY <2>1, <2>2, PassFacts
  <2> QED
    BY <2>3, <2>4 DEF Sorting, p
<1> QED
  BY <1>1, <1>2

IsSort(f, rows) ==
  f = [k \in 0 .. Len(rows) |-> IF k = 0 THEN rows
                                ELSE IF Descending(f[k - 1]) THEN f[k - 1] ELSE Pass(f[k - 1], Len(rows) + 1 - k)]

\* The sort loses no row, and leaves the longest first.
LEMMA SortFacts ==
  ASSUME NEW lens \in Seq(Nat)
  PROVE  Shuffled(SortedRows(Rows(lens)), lens) /\ InPlace(SortedRows(Rows(lens)), 1)
<1> DEFINE n    == Len(lens)
           r    == Rows(lens)
           S    == {x \in Seq(RowSet) : Shuffled(x, lens)}
           T    == [k \in 0 .. n |-> {x \in S : Sorting(x, lens, k)}]
           prev == [k \in 1 .. n |-> k - 1]
           step == [k \in 1 .. n |-> [x \in S |-> PassDue(x, n, k)]]
<1>1. n \in Nat /\ Len(r) = n /\ Shuffled(r, lens) /\ r \in Seq(RowSet)
  BY RowsShuffled DEF Shuffled
<1>2. \A k \in 1 .. n : prev[k] = k - 1 /\ prev[k] \in 0 .. k - 1 /\ prev[k] \in 0 .. n
  BY <1>1
<1> HIDE DEF r
<1>3. r \in T[0]
  <2>1. InPlace(r, n + 1 - 0)
    <3>1. \A a \in 1 .. Len(r) : ~(n + 1 - 0 <= a)
      BY <1>1
    <3> QED
      BY <3>1 DEF InPlace
  <2>2. Sorting(r, lens, 0)
    BY <1>1, <2>1 DEF Sorting
  <2>3. 0 \in 0 .. n /\ r \in S
    BY <1>1
  <2> QED
    BY <2>2, <2>3
<1>4. ASSUME NEW k \in 1 .. n, NEW x \in T[k - 1]
      PROVE  PassDue(x, n, k) \in T[k] /\ step[k][x] = PassDue(x, n, k)
  <2>1. k - 1 \in 0 .. n /\ k \in 0 .. n
    BY <1>1
  <2>2. x \in S /\ Sorting(x, lens, k - 1)
    BY <2>1
  <2>3. Sorting(PassDue(x, n, k), lens, k)
    BY <1>1, <2>1, <2>2, PassSorts
  <2>4. PassDue(x, n, k) \in S
    BY <2>3 DEF Sorting, Shuffled
  <2> QED
    BY <2>1, <2>2, <2>3, <2>4
<1> HIDE DEF T, prev, step
<1>5. \E f : Follows(f, n, prev, r, step) /\ StaysIn(f, n, T)
  <2>1. \A k \in 1 .. n : \A x \in T[prev[k]] : step[k][x] \in T[k]
    BY <1>2, <1>4
  <2>2. Steps(n, prev, T, r, step)
    BY <1>1, <1>2, <1>3, <2>1 DEF Steps
  <2> QED
    BY <2>2, RecursionDefines
<1>6. \E f : IsSort(f, r)
  <2>1. PICK f : Follows(f, n, prev, r, step) /\ StaysIn(f, n, T)
    BY <1>5
  <2>2. ASSUME NEW k \in 1 .. n PROVE f[k] = PassDue(f[k - 1], n, k)
    <3>1. k # 0 /\ k \in 0 .. n /\ k - 1 \in 0 .. n
      BY <1>1
    <3>2. f[k] = step[k][f[k - 1]] /\ f[k - 1] \in T[k - 1]
      BY <1>2, <2>1, <3>1 DEF Follows, StaysIn
    <3> QED
      BY <1>4, <3>2
  <2>3. f[0] = r /\ f = [k \in 0 .. n |-> f[k]]
    BY <1>1, <2>1 DEF Follows
  <2>4. \A k \in 0 .. n : k = 0 \/ k \in 1 .. n
    BY <1>1
  <2> HIDE DEF n
  <2>5. \A k \in 0 .. n : f[k] = IF k = 0 THEN r ELSE PassDue(f[k - 1], n, k)
    BY <2>2, <2>3, <2>4
  <2>6. n = Len(r)
    BY <1>1
  <2> QED
    BY <2>3, <2>5, <2>6 DEF PassDue, IsSort
<1> DEFINE f == CHOOSE f : IsSort(f, r)
<1>7. SortedRows(r) = f[n]
  BY <1>1 DEF SortedRows, IsSort
<1>8. IsSort(f, r)
  BY <1>6
<1> HIDE DEF f
<1>9. StaysIn(f, n, T)
  <2>1. f[0] = r
    BY <1>1, <1>8 DEF IsSort
  <2>2. ASSUME NEW k \in 1 .. n, f[prev[k]] \in T[prev[k]] PROVE f[k] \in T[k]
    <3>1. k # 0 /\ k \in 0 .. n
      BY <1>1
    <3>2. f[k] = PassDue(f[k - 1], n, k)
      BY <1>1, <1>8, <3>1 DEF PassDue, IsSort
    <3>3. f[k - 1] \in T[k - 1]
      BY <1>2, <2>2
    <3> QED
      BY <1>4, <3>2, <3>3
  <2>3. f[0] \in T[0]
    BY <1>3, <2>1
  <2>4. StepsStay(f, n, prev, T)
    BY <1>1, <1>2, <2>2, <2>3 DEF StepsStay
  <2> QED
    BY <2>4, RecursionStays
<1> DEFINE x == f[n]
<1>10. Sorting(x, lens, n)
  <2>1. n \in 0 .. n
    BY <1>1
  <2> QED
    BY <1>9, <2>1 DEF StaysIn, T
<1> HIDE DEF x
<1>11. n + 1 - n = 1
  BY <1>1
<1>12. Shuffled(x, lens) /\ InPlace(x, 1)
  BY <1>10, <1>11, DescendingInPlace DEF Sorting, Shuffled
<1> QED
  BY <1>7, <1>12 DEF x, r

\* Where a buffer is after the sort
LEMMA RowOfFacts ==
  ASSUME NEW lens, NEW rows, Shuffled(rows, lens), NEW b \in 1 .. Len(lens)
  PROVE  LET k == RowOf(rows, b) IN
         /\ k \in 1 .. Len(lens) /\ b \in Int /\ rows[k].iv = b /\ rows[k].key = b /\ rows[k].len = lens[b]
<1> DEFINE k == RowOf(rows, b)
<1>1. DOMAIN rows = 1 .. Len(lens) /\ Len(rows) = Len(lens)
  BY DEF Shuffled
<1>2. k \in DOMAIN rows /\ rows[k].buf = b
  <2>1. \E i \in DOMAIN rows : rows[i].buf = b
    BY <1>1 DEF Shuffled
  <2> QED
    BY <2>1 DEF RowOf
<1> HIDE DEF k
<1>3. rows[k].iv = b /\ rows[k].key = b /\ rows[k].len = lens[b]
  BY <1>1, <1>2 DEF Shuffled
<1> QED
  BY <1>1, <1>2, <1>3 DEF k

---------------------------------------------------------------------------
(* The functions of SNOW3G *)

LEMMA EightFacts ==
  ASSUME NEW n \in Nat
  PROVE  LET d == RoundDown(n, 8) IN d \in Nat /\ d <= n /\ n % 8 \in Nat /\ d + (n % 8) = n
BY DEF RoundDown

WideSteps == {16, 32}

LEMMA WideFacts ==
  ASSUME NEW n \in Nat, NEW wide \in WideSteps
  PROVE  LET d == RoundDown(n, wide) IN d \in Nat /\ d <= n /\ n % wide \in Nat /\ d + (n % wide) = n
<1>1. CASE wide = 16
  BY <1>1 DEF RoundDown
<1>2. CASE wide = 32
  BY <1>2 DEF RoundDown
<1> QED
  BY <1>1, <1>2 DEF WideSteps

\* A packet on its own
LEMMA Snow3gAlone ==
  ASSUME NEW i \in Int, NEW len \in Nat \ {0}
  PROVE  InStep(Pieces(f8_snow3g(i, 0, 0, len)), i, len)
<1> DEFINE d == RoundDown(len, 8)
           m == len % 8
<1>1. d \in Nat /\ m \in Nat /\ d + m = len /\ 0 + d = d
  BY EightFacts
<1>2. f8_snow3g(i, 0, 0, len) = <<Piece(i, 0, 0, d), Piece(i, d, d, m)>>
  BY <1>1 DEF f8_snow3g
<1> HIDE DEF d, m
<1>3. Fits(Piece(i, 0, 0, d), i, 0, 0, d)
  BY <1>1, PieceFits
<1>4. Fits(Piece(i, d, d, m), i, 0, d, len)
  <2>1. d \in Int /\ len = d + m
    BY <1>1
  <2> QED
    BY <1>1, <2>1, PieceFits
<1> QED
  BY <1>1, <1>2, <1>3, <1>4, TwoPieces

LEMMA TwoAndTwo ==
  ASSUME NEW S, NEW p \in S, NEW q \in S, NEW r \in S, NEW s \in S
  PROVE  <<p, q>> \o <<r, s>> = <<p, q, r, s>>
<1> DEFINE t == <<p, q>> \o <<r, s>>
           u == <<p, q, r, s>>
<1>1. t \in Seq(S) /\ u \in Seq(S) /\ Len(t) = 4 /\ Len(u) = 4
  OBVIOUS
<1>2. /\ t[1] = p /\ t[2] = q /\ t[3] = r /\ t[4] = s
      /\ u[1] = p /\ u[2] = q /\ u[3] = r /\ u[4] = s
  OBVIOUS
<1> HIDE DEF t, u
<1>3. \A k \in 1 .. 4 : t[k] = u[k]
  <2> TAKE k \in 1 .. 4
  <2>1. k = 1 \/ k = 2 \/ k = 3 \/ k = 4
    OBVIOUS
  <2> QED
    BY <1>2, <2>1
<1>4. t = u
  BY <1>1, <1>3
<1> QED
  BY <1>4 DEF t, u

\* A packet in step with others, as far as the shortest goes
LEMMA F8InStepInStep ==
  ASSUME NEW i \in Int, NEW len \in Nat \ {0}, NEW common \in Nat, common <= len, NEW wide \in WideSteps
  PROVE  InStep(F8InStep(i, wide, common, len), i, len)
<1> DEFINE a == RoundDown(common, wide)
           b == common % wide
           l == len - common
           d == RoundDown(l, 8)
           m == l % 8
           e == common + d
<1>1. a \in Nat /\ b \in Nat /\ a + b = common
  BY WideFacts
<1>2. l \in Nat /\ common + l = len
  OBVIOUS
<1> HIDE DEF a, b, l
<1>3. d \in Nat /\ m \in Nat /\ d + m = l
  BY <1>2, EightFacts
<1> HIDE DEF d, m
<1>4. e \in Nat /\ e + m = len
  BY <1>2, <1>3
<1>5. F8InStep(i, wide, common, len) =
        Pieces(<<Piece(i, 0, 0, a), Piece(i, a, a, b)>>
               \o <<Piece(i, common, common, d), Piece(i, e, e, m)>>)
  BY DEF F8InStep, f8_snow3g, a, b, l, d, m
<1>6. Fits(Piece(i, common, common, d), i, 0, common, e)
  BY <1>3, PieceFits
<1> HIDE DEF e
<1>7. Fits(Piece(i, 0, 0, a), i, 0, 0, a)
  BY <1>1, PieceFits
<1>8. Fits(Piece(i, a, a, b), i, 0, a, common)
  <2>1. a \in Int /\ common = a + b
    BY <1>1
  <2> QED
    BY <1>1, <2>1, PieceFits
<1>9. Fits(Piece(i, e, e, m), i, 0, e, len)
  <2>1. e \in Int /\ len = e + m
    BY <1>4
  <2> QED
    BY <1>3, <2>1, PieceFits
<1>10. F8InStep(i, wide, common, len) =
         Pieces(<<Piece(i, 0, 0, a), Piece(i, a, a, b), Piece(i, common, common, d), Piece(i, e, e, m)>>)
  <2>1. /\ Piece(i, 0, 0, a) \in PieceSet /\ Piece(i, a, a, b) \in PieceSet
        /\ Piece(i, common, common, d) \in PieceSet /\ Piece(i, e, e, m) \in PieceSet
    BY <1>6, <1>7, <1>8, <1>9 DEF Fits
  <2>2. <<Piece(i, 0, 0, a), Piece(i, a, a, b)>> \o <<Piece(i, common, common, d), Piece(i, e, e, m)>>
        = <<Piece(i, 0, 0, a), Piece(i, a, a, b), Piece(i, common, common, d), Piece(i, e, e, m)>>
    BY <2>1, TwoAndTwo
  <2> QED
    BY <1>5, <2>2
<1> QED
  BY <1>1, <1>4, <1>6, <1>7, <1>8, <1>9, <1>10, FourPieces

\* A row among those that go together, with its own IV and key
RowsOk(rows, g, k) ==
  /\ k \in g /\ \A p \in g : rows[p].len \in Nat \ {0}
  /\ rows[k].iv \in Int /\ rows[k].key = rows[k].iv

LEMMA CommonLenFacts ==
  ASSUME NEW rows, NEW g, NEW k, RowsOk(rows, g, k)
  PROVE  CommonLen(rows, g) \in Nat /\ CommonLen(rows, g) <= rows[k].len
<1> DEFINE S == {rows[p].len : p \in g}
           m == Min(S)
<1>1. S \in SUBSET Nat /\ rows[k].len \in S /\ rows[k].len \in Nat
  BY DEF RowsOk
<1>2. CommonLen(rows, g) = RoundDown(m, 8)
  BY DEF CommonLen
<1> HIDE DEF S
<1>3. m \in Nat /\ m <= rows[k].len
  BY <1>1, LeastIsMin
<1> HIDE DEF m
<1>4. RoundDown(m, 8) \in Nat /\ RoundDown(m, 8) <= m
  BY <1>3, EightFacts
<1> QED
  BY <1>1, <1>2, <1>3, <1>4

\* Part of a group
LEMMA PartOk ==
  ASSUME NEW rows, NEW g, NEW k, RowsOk(rows, g, k), NEW h \in SUBSET g, k \in h
  PROVE  RowsOk(rows, h, k)
BY DEF RowsOk

RowInStep(rows, k, pieces) == InStep(pieces, rows[k].iv, rows[k].len)

\* Each kernel does its packets.
LEMMA KernelsInStep ==
  ASSUME NEW rows, NEW g, NEW k, RowsOk(rows, g, k), NEW avx2
  PROVE  /\ RowInStep(rows, k, Snow3gOne(rows, k))
         /\ RowInStep(rows, k, Pieces(f8_snow3g(OwnKey(rows[k]), 0, 0, rows[k].len)))
         /\ RowInStep(rows, k, Snow3gFour(rows, g, k))
         /\ RowInStep(rows, k, Snow3gEight(avx2, rows, g, k))
         /\ RowInStep(rows, k, Snow3gEightKeys(avx2, rows, g, k))
<1>1. /\ rows[k].iv \in Int /\ rows[k].len \in Nat \ {0} /\ OwnKey(rows[k]) = rows[k].iv
      /\ 16 \in WideSteps /\ 32 \in WideSteps
  BY DEF RowsOk, OwnKey, WideSteps
<1>2. RowInStep(rows, k, Pieces(f8_snow3g(rows[k].iv, 0, 0, rows[k].len)))
  BY <1>1, Snow3gAlone DEF RowInStep
<1>3. ASSUME NEW h \in SUBSET g, k \in h, NEW wide \in WideSteps
      PROVE  RowInStep(rows, k, F8InStep(rows[k].iv, wide, CommonLen(rows, h), rows[k].len))
  <2>1. RowsOk(rows, h, k)
    BY <1>3, PartOk
  <2>2. CommonLen(rows, h) \in Nat /\ CommonLen(rows, h) <= rows[k].len
    BY <2>1, CommonLenFacts
  <2> QED
    BY <1>1, <2>2, F8InStepInStep DEF RowInStep
<1>4. k \in g
  BY DEF RowsOk
<1>5. \A h \in SUBSET g : k \in h => RowInStep(rows, k, Snow3gFour(rows, h, k))
  BY <1>1, <1>3 DEF Snow3gFour
<1>6. RowInStep(rows, k, Snow3gEight(avx2, rows, g, k))
  <2> DEFINE half(p) == (p - Min(g)) \div 4
             h == {p \in g : half(p) = half(k)}
  <2>1. h \in SUBSET g /\ k \in h
    BY <1>4
  <2>2. Snow3gEight(avx2, rows, g, k) = IF avx2 THEN snow3g_8_buffer_ks_32_8(rows, g, k) ELSE Snow3gFour(rows, h, k)
    BY DEF Snow3gEight
  <2> HIDE DEF h
  <2>3. RowInStep(rows, k, Snow3gFour(rows, h, k))
    BY <1>5, <2>1
  <2>4. RowInStep(rows, k, snow3g_8_buffer_ks_32_8(rows, g, k))
    BY <1>1, <1>3, <1>4 DEF snow3g_8_buffer_ks_32_8
  <2> QED
    BY <2>2, <2>3, <2>4
<1>7. RowInStep(rows, k, Snow3gEightKeys(avx2, rows, g, k))
  <2>1. RowInStep(rows, k, snow3g_8_buffer_ks_32_8_multi(rows, g, k))
    BY <1>1, <1>3, <1>4 DEF snow3g_8_buffer_ks_32_8_multi
  <2> QED
    BY <1>1, <1>2, <2>1 DEF Snow3gEightKeys
<1> QED
  BY <1>1, <1>2, <1>4, <1>5, <1>6, <1>7 DEF Snow3gOne

\* What F8 promises of its buffers
Snow3gRight(lens, r) ==
  IF ~InRange(lens, SNOW3G_MAX_BYTELEN) THEN \A i \in DOMAIN r : r[i] = Untouched
  ELSE IF Len(lens) > NUM_PACKETS_16 THEN r = TooMany(lens)
  ELSE \A i \in DOMAIN lens : InStep(r[i], i, lens[i])

EachSnow3gInStep(lens, r) ==
  InRange(lens, SNOW3G_MAX_BYTELEN) /\ Len(lens) <= NUM_PACKETS_16 =>
    \A i \in DOMAIN lens : InStep(r[i], i, lens[i])

LEMMA Snow3gCheckedRight ==
  ASSUME NEW lens \in Seq(Nat), NEW r, EachSnow3gInStep(lens, r)
  PROVE  /\ Len(lens) <= NUM_PACKETS_16 => Snow3gRight(lens, Snow3gChecked(lens, r))
         /\ Snow3gRight(lens, Snow3gChecked(lens, IF Len(lens) > NUM_PACKETS_16 THEN TooMany(lens) ELSE r))
<1>1. Len(lens) \in Nat
  OBVIOUS
<1>2. InRange(lens, SNOW3G_MAX_BYTELEN) <=> \A i \in DOMAIN lens : lens[i] \in 1 .. SNOW3G_MAX_BYTELEN
  BY DEF InRange
<1>3. ~InRange(lens, SNOW3G_MAX_BYTELEN) => \A x : Snow3gRight(lens, Snow3gChecked(lens, x))
  BY <1>2 DEF Snow3gRight, Snow3gChecked, Untouched
<1>4. InRange(lens, SNOW3G_MAX_BYTELEN) => \A x : Snow3gChecked(lens, x) = x
  BY <1>2 DEF Snow3gChecked
<1>5. Len(lens) > NUM_PACKETS_16 <=> ~(Len(lens) <= NUM_PACKETS_16)
  BY <1>1 DEF NUM_PACKETS_16
<1> QED
  BY <1>3, <1>4, <1>5 DEF Snow3gRight, EachSnow3gInStep

\* The rows of a call that is in range
LEMMA RowsReady ==
  ASSUME NEW lens \in Seq(Nat), InRange(lens, SNOW3G_MAX_BYTELEN), NEW rows, Shuffled(rows, lens),
         NEW g \in SUBSET (1 .. Len(lens)), NEW k \in g
  PROVE  RowsOk(rows, g, k)
<1>1. \A i \in DOMAIN lens : i \in Int /\ lens[i] \in Nat \ {0}
  BY RangeFacts
<1>2. Len(rows) = Len(lens) /\ DOMAIN lens = 1 .. Len(lens)
  BY DEF Shuffled
<1>3. \A p \in 1 .. Len(lens) : /\ rows[p].buf \in 1 .. Len(lens) /\ rows[p].iv = rows[p].buf
                                /\ rows[p].key = rows[p].buf /\ rows[p].len = lens[rows[p].buf]
  BY <1>2 DEF Shuffled
<1> QED
  BY <1>1, <1>2, <1>3 DEF RowsOk

\* The rows of buffers that are not sorted
LEMMA RowsInPlace ==
  ASSUME NEW lens \in Seq(Nat), NEW b \in 1 .. Len(lens)
  PROVE  Rows(lens)[b].iv = b /\ Rows(lens)[b].len = lens[b]
BY DEF Rows

\* Those with a fixed number of buffers
LEMMA Snow3gFixedRight ==
  ASSUME NEW lens \in Seq(Nat), NEW avx2
  PROVE  /\ Len(lens) = 1 => Snow3gRight(lens, SNOW3G_F8_1_BUFFER(lens))
         /\ Len(lens) = 2 => Snow3gRight(lens, SNOW3G_F8_2_BUFFER(lens))
         /\ Len(lens) = 4 => Snow3gRight(lens, SNOW3G_F8_4_BUFFER(lens))
         /\ Len(lens) = 8 => /\ Snow3gRight(lens, SNOW3G_F8_8_BUFFER(avx2, lens))
                             /\ Snow3gRight(lens, SNOW3G_F8_8_BUFFER_MULTIKEY(avx2, lens))
<1> DEFINE rows == Rows(lens)
           n == Len(lens)
<1>1. Shuffled(rows, lens) /\ DOMAIN lens = 1 .. n /\ n \in Nat
  BY RowsShuffled
<1>2. \A b \in 1 .. n : rows[b].iv = b /\ rows[b].len = lens[b]
  BY RowsInPlace
<1> HIDE DEF rows
<1>3. ASSUME InRange(lens, SNOW3G_MAX_BYTELEN), NEW b \in 1 .. n
      PROVE  /\ InStep(Snow3gOne(rows, b), b, lens[b])
             /\ InStep(Snow3gFour(rows, 1 .. n, b), b, lens[b])
             /\ InStep(Snow3gEight(avx2, rows, 1 .. n, b), b, lens[b])
             /\ InStep(Snow3gEightKeys(avx2, rows, 1 .. n, b), b, lens[b])
  <2>1. RowsOk(rows, 1 .. n, b)
    BY <1>1, <1>3, RowsReady
  <2> QED
    BY <1>2, <2>1, KernelsInStep DEF RowInStep
<1>4. ASSUME n <= 16, NEW r, InRange(lens, SNOW3G_MAX_BYTELEN) => \A b \in 1 .. n : InStep(r[b], b, lens[b])
      PROVE  Snow3gRight(lens, Snow3gChecked(lens, r))
  <2>1. EachSnow3gInStep(lens, r)
    BY <1>1, <1>4 DEF EachSnow3gInStep
  <2> QED
    BY <1>4, <2>1, Snow3gCheckedRight DEF NUM_PACKETS_16
<1>5. ASSUME n = 1 PROVE Snow3gRight(lens, SNOW3G_F8_1_BUFFER(lens))
  <2> DEFINE r == [b \in {1} |-> Snow3gOne(rows, b)]
  <2>1. n <= 16 /\ 1 .. n = {1}
    BY <1>5
  <2>2. InRange(lens, SNOW3G_MAX_BYTELEN) => \A b \in 1 .. n : InStep(r[b], b, lens[b])
    BY <1>3, <2>1
  <2> HIDE DEF r
  <2> QED
    BY <1>4, <2>1, <2>2 DEF SNOW3G_F8_1_BUFFER, r, rows
<1>6. ASSUME n = 2 PROVE Snow3gRight(lens, SNOW3G_F8_2_BUFFER(lens))
  <2> DEFINE r == [b \in 1 .. 2 |-> Snow3gOne(rows, b)]
  <2>1. n <= 16
    BY <1>6
  <2>2. InRange(lens, SNOW3G_MAX_BYTELEN) => \A b \in 1 .. n : InStep(r[b], b, lens[b])
    BY <1>3, <1>6
  <2> HIDE DEF r
  <2> QED
    BY <1>4, <2>1, <2>2 DEF SNOW3G_F8_2_BUFFER, r, rows
<1>7. ASSUME n = 4 PROVE Snow3gRight(lens, SNOW3G_F8_4_BUFFER(lens))
  <2> DEFINE r == [b \in 1 .. 4 |-> Snow3gFour(rows, 1 .. 4, b)]
  <2>1. n <= 16
    BY <1>7
  <2>2. InRange(lens, SNOW3G_MAX_BYTELEN) => \A b \in 1 .. n : InStep(r[b], b, lens[b])
    BY <1>3, <1>7
  <2> HIDE DEF r
  <2> QED
    BY <1>4, <2>1, <2>2 DEF SNOW3G_F8_4_BUFFER, r, rows
<1>8. ASSUME n = 8 PROVE Snow3gRight(lens, SNOW3G_F8_8_BUFFER(avx2, lens))
  <2> DEFINE r == [b \in 1 .. 8 |-> Snow3gEight(avx2, rows, 1 .. 8, b)]
  <2>1. n <= 16
    BY <1>8
  <2>2. InRange(lens, SNOW3G_MAX_BYTELEN) => \A b \in 1 .. n : InStep(r[b], b, lens[b])
    BY <1>3, <1>8
  <2> HIDE DEF r
  <2> QED
    BY <1>4, <2>1, <2>2 DEF SNOW3G_F8_8_BUFFER, r, rows
<1>9. ASSUME n = 8 PROVE Snow3gRight(lens, SNOW3G_F8_8_BUFFER_MULTIKEY(avx2, lens))
  <2> DEFINE r == [b \in 1 .. 8 |-> Snow3gEightKeys(avx2, rows, 1 .. 8, b)]
  <2>1. n <= 16
    BY <1>9
  <2>2. InRange(lens, SNOW3G_MAX_BYTELEN) => \A b \in 1 .. n : InStep(r[b], b, lens[b])
    BY <1>3, <1>9
  <2> HIDE DEF r
  <2> QED
    BY <1>4, <2>1, <2>2 DEF SNOW3G_F8_8_BUFFER_MULTIKEY, r, rows
<1> QED
  BY <1>5, <1>6, <1>7, <1>8, <1>9

\* The widths of the drivers
LEMMA WidthsOfSnow3g ==
  WidthsOk({8, 4, 2, 1}) /\ WidthsOk({4, 2, 1}) /\ WidthsOk({8, 1}) /\ WidthsOk({1})
BY DEF WidthsOk

\* A buffer and its group after the sort
LEMMA SortedReady ==
  ASSUME NEW lens \in Seq(Nat), InRange(lens, SNOW3G_MAX_BYTELEN), NEW b \in DOMAIN lens,
         NEW widths, WidthsOk(widths)
  PROVE  LET rows == SortedRows(Rows(lens))
             k    == RowOf(rows, b)
             g    == GroupOf(k, Groups(Len(lens), widths))
         IN  /\ RowsOk(rows, g, k) /\ rows[k].iv = b /\ rows[k].len = lens[b]
             /\ DOMAIN rows = DOMAIN lens
<1> DEFINE rows == SortedRows(Rows(lens))
           k    == RowOf(rows, b)
           g    == GroupOf(k, Groups(Len(lens), widths))
<1>1. DOMAIN lens = 1 .. Len(lens)
  OBVIOUS
<1>2. Shuffled(rows, lens)
  BY SortFacts
<1>3. k \in 1 .. Len(lens) /\ rows[k].iv = b /\ rows[k].len = lens[b]
  <2> HIDE DEF rows
  <2> QED
    BY <1>1, <1>2, RowOfFacts
<1>4. g \in SUBSET (1 .. Len(lens)) /\ k \in g
  <2> HIDE DEF k
  <2> QED
    BY <1>1, <1>3, OwnGroup
<1>5. RowsOk(rows, g, k)
  <2> HIDE DEF rows, g, k
  <2> QED
    BY <1>2, <1>4, RowsReady
<1>6. DOMAIN rows = DOMAIN lens
  <2> HIDE DEF rows
  <2> QED
    BY <1>1, <1>2 DEF Shuffled
<1> QED
  BY <1>3, <1>5, <1>6

\* Any number of buffers
LEMMA Snow3gNRight ==
  ASSUME NEW lens \in Seq(Nat), NEW avx2
  PROVE  Snow3gRight(lens, SNOW3G_F8_N_BUFFER(avx2, lens))
<1> DEFINE rows   == SortedRows(Rows(lens))
           widths == IF avx2 THEN {8, 4, 2, 1} ELSE {4, 2, 1}
           groups == Groups(Len(lens), widths)
           done(k) == LET g == GroupOf(k, groups) IN
                 CASE Cardinality(g) = 8 -> Snow3gEight(avx2, rows, g, k)
                   [] Cardinality(g) = 4 -> Snow3gFour(rows, g, k)
                   [] OTHER              -> Snow3gOne(rows, k)
           r == [b \in DOMAIN rows |-> done(RowOf(rows, b))]
<1>1. WidthsOk(widths)
  BY WidthsOfSnow3g
<1> HIDE DEF widths
<1>2. ASSUME InRange(lens, SNOW3G_MAX_BYTELEN), NEW b \in DOMAIN lens PROVE InStep(r[b], b, lens[b])
  <2> DEFINE k == RowOf(rows, b)
             g == GroupOf(k, groups)
  <2>1. RowsOk(rows, g, k) /\ rows[k].iv = b /\ rows[k].len = lens[b] /\ b \in DOMAIN rows
    BY <1>1, <1>2, SortedReady
  <2>2. r[b] = done(k)
    BY <2>1
  <2> HIDE DEF rows, groups, r
  <2>3. done(k) = CASE Cardinality(g) = 8 -> Snow3gEight(avx2, rows, g, k)
                    [] Cardinality(g) = 4 -> Snow3gFour(rows, g, k)
                    [] OTHER              -> Snow3gOne(rows, k)
    OBVIOUS
  <2> HIDE DEF k, g, done
  <2>4. /\ RowInStep(rows, k, Snow3gOne(rows, k)) /\ RowInStep(rows, k, Snow3gFour(rows, g, k))
        /\ RowInStep(rows, k, Snow3gEight(avx2, rows, g, k))
    BY <2>1, KernelsInStep
  <2>5. RowInStep(rows, k, done(k))
    BY <2>3, <2>4
  <2> QED
    BY <2>1, <2>2, <2>5 DEF RowInStep
<1>3. EachSnow3gInStep(lens, r)
  <2> HIDE DEF r
  <2> QED
    BY <1>2 DEF EachSnow3gInStep
<1>4. SNOW3G_F8_N_BUFFER(avx2, lens) =
        Snow3gChecked(lens, IF Len(lens) > NUM_PACKETS_16 THEN TooMany(lens) ELSE r)
  BY DEF SNOW3G_F8_N_BUFFER, widths
<1> HIDE DEF r
<1> QED
  BY <1>3, <1>4, Snow3gCheckedRight

\* The same with a key for each buffer
LEMMA Snow3gKeysRight ==
  ASSUME NEW lens \in Seq(Nat), NEW avx2
  PROVE  Snow3gRight(lens, SNOW3G_F8_N_BUFFER_MULTIKEY(avx2, lens))
<1> DEFINE rows   == SortedRows(Rows(lens))
           widths == IF avx2 THEN {8, 1} ELSE {1}
           groups == Groups(Len(lens), widths)
           done(k) == LET g == GroupOf(k, groups) IN
                 IF Cardinality(g) = 8 THEN Snow3gEightKeys(avx2, rows, g, k)
                 ELSE Pieces(f8_snow3g(OwnKey(rows[k]), 0, 0, rows[k].len))
           r == [b \in DOMAIN rows |-> done(RowOf(rows, b))]
<1>1. WidthsOk(widths)
  BY WidthsOfSnow3g
<1> HIDE DEF widths
<1>2. ASSUME InRange(lens, SNOW3G_MAX_BYTELEN), NEW b \in DOMAIN lens PROVE InStep(r[b], b, lens[b])
  <2> DEFINE k == RowOf(rows, b)
             g == GroupOf(k, groups)
  <2>1. RowsOk(rows, g, k) /\ rows[k].iv = b /\ rows[k].len = lens[b] /\ b \in DOMAIN rows
    BY <1>1, <1>2, SortedReady
  <2>2. r[b] = done(k)
    BY <2>1
  <2> HIDE DEF rows, groups, r
  <2>3. done(k) = IF Cardinality(g) = 8 THEN Snow3gEightKeys(avx2, rows, g, k)
                  ELSE Pieces(f8_snow3g(OwnKey(rows[k]), 0, 0, rows[k].len))
    OBVIOUS
  <2> HIDE DEF k, g, done
  <2>4. /\ RowInStep(rows, k, Pieces(f8_snow3g(OwnKey(rows[k]), 0, 0, rows[k].len)))
        /\ RowInStep(rows, k, Snow3gEightKeys(avx2, rows, g, k))
    BY <2>1, KernelsInStep
  <2>5. RowInStep(rows, k, done(k))
    BY <2>3, <2>4
  <2> QED
    BY <2>1, <2>2, <2>5 DEF RowInStep
<1>3. EachSnow3gInStep(lens, r)
  <2> HIDE DEF r
  <2> QED
    BY <1>2 DEF EachSnow3gInStep
<1>4. SNOW3G_F8_N_BUFFER_MULTIKEY(avx2, lens) =
        Snow3gChecked(lens, IF Len(lens) > NUM_PACKETS_16 THEN TooMany(lens) ELSE r)
  BY DEF SNOW3G_F8_N_BUFFER_MULTIKEY, widths
<1> HIDE DEF r
<1> QED
  BY <1>3, <1>4, Snow3gCheckedRight

---------------------------------------------------------------------------
(* The functions of KASUMI for one, two, three and four buffers *)

LEMMA OneKasumiInStep ==
  ASSUME NEW i \in Int, NEW len \in Nat \ {0}
  PROVE  InStep(kasumi_f8_1_buffer(i, len), i, len)
<1> DEFINE before == RoundDown(len - 1, 8)
           left == len - before
<1>1. before \in Nat /\ left \in Nat /\ len = before + left
  <2>1. len - 1 \in Nat
    OBVIOUS
  <2>2. before \in Nat /\ before <= len - 1
    BY <2>1, EightFacts
  <2> HIDE DEF before
  <2> QED
    BY <2>2
<1>2. kasumi_f8_1_buffer(i, len) = Pieces(<<Piece(i, 0, 0, before), Piece(i, before, before, left)>>)
  BY DEF kasumi_f8_1_buffer
<1> HIDE DEF before, left
<1>3. Fits(Piece(i, 0, 0, before), i, 0, 0, before)
  BY <1>1, PieceFits
<1>4. Fits(Piece(i, before, before, left), i, 0, before, len)
  <2>1. before \in Int
    BY <1>1
  <2> QED
    BY <1>1, <2>1, PieceFits
<1> QED
  BY <1>1, <1>2, <1>3, <1>4, TwoPieces

\* The bytes left of two packets when they have gone as far as the shorter one
TwoLeft(l, c) == l[1] - c \in Nat /\ l[2] - c \in Nat /\ (l[1] - c < 8 \/ l[2] - c < 8)

LEMMA TwoLeftFacts ==
  ASSUME NEW a \in Nat, NEW b \in Nat
  PROVE  LET c == RoundDown(Min({a, b}), 8) IN
         c \in Nat /\ a - c \in Nat /\ b - c \in Nat /\ (a - c < 8 \/ b - c < 8)
<1> DEFINE m == Min({a, b})
           c == RoundDown(m, 8)
<1>1. m = IF a <= b THEN a ELSE b
  BY LesserOfTwo
<1> HIDE DEF m
<1>2. m \in Nat /\ m <= a /\ m <= b /\ (m = a \/ m = b)
  BY <1>1
<1>3. c \in Nat /\ c <= m /\ m - c < 8
  BY <1>2 DEF RoundDown
<1> HIDE DEF c
<1> QED
  BY <1>2, <1>3 DEF c, m

\* Two packets in step: the one that goes on has the number of its block.
LEMMA TwoKasumiInStep ==
  ASSUME NEW lens, lens[1] \in Nat \ {0}, lens[2] \in Nat \ {0}, NEW i \in {1, 2}
  PROVE  InStep(kasumi_f8_2_buffer(lens, i), i, lens[i])
<1> DEFINE common == RoundDown(Min({lens[1], lens[2]}), 8)
           left   == [p \in 1 .. 2 |-> lens[p] - common]
           both   == IF left[1] > 0 /\ left[2] > 0 THEN Min({left[i], 8}) ELSE 0
           more   == Cardinality({p \in 1 .. 2 : both > 0 /\ left[p] > 8})
           l      == left[i]
           rest   == l - both
           a      == common + both
           ks     == common + (8 * more)
<1>1. kasumi_f8_2_buffer(lens, i) =
        Pieces(<<Piece(i, 0, 0, common), Piece(i, common, common, both), Piece(i, a, ks, rest)>>)
  BY DEF kasumi_f8_2_buffer
<1>2. /\ common \in Nat /\ left[1] \in Nat /\ left[2] \in Nat /\ (left[1] < 8 \/ left[2] < 8)
      /\ l \in Nat /\ lens[i] = common + l
  <2>1. /\ common \in Nat /\ lens[1] - common \in Nat /\ lens[2] - common \in Nat
        /\ lens[1] - common < 8 \/ lens[2] - common < 8
    BY TwoLeftFacts
  <2> HIDE DEF common
  <2>2. left[1] = lens[1] - common /\ left[2] = lens[2] - common
    OBVIOUS
  <2>3. l = lens[i] - common /\ lens[i] \in Nat
    OBVIOUS
  <2> HIDE DEF left
  <2> QED
    BY <2>1, <2>2, <2>3
<1>3. both = (IF left[1] > 0 /\ left[2] > 0 THEN (IF l <= 8 THEN l ELSE 8) ELSE 0)
  <2>1. l \in Int /\ 8 \in Int
    BY <1>2
  <2>2. Min({l, 8}) = IF l <= 8 THEN l ELSE 8
    <3> HIDE DEF l
    <3> QED
      BY <2>1, LesserOfTwo
  <2> QED
    BY <2>2
<1>4. more \in Nat /\ (both = 0 => more = 0) /\ (both > 0 /\ l > 8 => more = 1)
  <2> DEFINE M == {p \in 1 .. 2 : both > 0 /\ left[p] > 8}
  <2>1. both = 0 => M = {}
    OBVIOUS
  <2>2. both > 0 /\ l > 8 => M = {i}
    <3> HIDE DEF both, common
    <3>1. CASE i = 1
      BY <1>2, <3>1
    <3>2. CASE i = 2
      BY <1>2, <3>2
    <3> QED
      BY <3>1, <3>2
  <2>3. Cardinality({}) = 0 /\ Cardinality({i}) = 1
    BY FS_EmptySet, FS_Singleton
  <2>4. Cardinality(M) \in Nat
    <3>1. M \subseteq 1 .. 2
      OBVIOUS
    <3> HIDE DEF M
    <3>2. IsFiniteSet(1 .. 2)
      <4>1. 1 \in Int /\ 2 \in Int
        OBVIOUS
      <4> QED
        BY <4>1, FS_Interval
    <3>3. IsFiniteSet(M)
      BY <3>1, <3>2, FS_Subset
    <3> QED
      BY <3>3, FS_CardinalityType
  <2> HIDE DEF M, both
  <2> QED
    BY <2>1, <2>2, <2>3, <2>4 DEF M
<1> HIDE DEF common, left, more, l
<1>5. both \in Nat /\ both <= l
  BY <1>2, <1>3
<1>6. rest # 0 => a = ks
  <2>1. CASE both = 0
    BY <1>2, <1>4, <2>1
  <2>2. CASE both # 0
    <3>1. rest # 0 => l > 8 /\ both = 8
      BY <1>2, <1>3, <2>2
    <3> HIDE DEF both
    <3> QED
      BY <1>2, <1>4, <1>5, <2>2, <3>1
  <2> QED
    BY <2>1, <2>2
<1> HIDE DEF both
<1>7. rest \in Nat /\ a \in Nat /\ ks \in Int /\ a = common + both /\ lens[i] = a + rest
  BY <1>2, <1>4, <1>5
<1> HIDE DEF rest, a, ks
<1>8. Fits(Piece(i, 0, 0, common), i, 0, 0, common)
  BY <1>2, PieceFits
<1>9. Fits(Piece(i, common, common, both), i, 0, common, a)
  <2>1. common \in Int
    BY <1>2
  <2> QED
    BY <1>5, <1>7, <2>1, PieceFits
<1>10. Fits(Piece(i, a, ks, rest), i, 0, a, lens[i])
  <2>1. a \in Int /\ (rest # 0 => ks = a)
    BY <1>6, <1>7
  <2> QED
    BY <1>7, <2>1, PieceFits
<1>11. lens[i] \in Nat \ {0}
  OBVIOUS
<1> QED
  BY <1>1, <1>2, <1>7, <1>8, <1>9, <1>10, <1>11, ThreePieces

---------------------------------------------------------------------------
(* The rounds for any number of packets *)

\* Every row gets a new block.
LEMMA AllFresh ==
  ASSUME NEW n \in Nat
  PROVE  kasumiWrapperArray(n) = 1 .. n
<1> DEFINE widths == {8, 4, 3, 2, 1}
           s == Groups(n, widths)
<1>1. WidthsOk(widths)
  BY DEF WidthsOk
<1> HIDE DEF widths
<1>2. Tiles(s, 1, n, widths)
  BY <1>1, GroupsTile
<1>3. kasumiWrapperArray(n) = UNION {s[k] : k \in DOMAIN s}
  BY DEF kasumiWrapperArray, widths
<1> HIDE DEF s
<1>4. DOMAIN s = 1 .. Len(s)
  BY <1>2 DEF Tiles
<1>5. \A k \in 1 .. Len(s) : s[k] \in SUBSET (1 .. n)
  <2> TAKE k \in 1 .. Len(s)
  <2>1. IsGroup(s[k], 1, n, widths)
    BY <1>2 DEF Tiles
  <2>2. PICK a \in 1 .. n, w \in widths : s[k] = a .. a + w - 1 /\ a + w - 1 <= n
    BY <2>1 DEF IsGroup
  <2>3. w \in Nat
    BY <1>1 DEF WidthsOk
  <2> QED
    BY <2>2, <2>3
<1>6. \A i \in 1 .. n : \E k \in 1 .. Len(s) : i \in s[k]
  BY <1>2 DEF Tiles
<1> QED
  BY <1>3, <1>4, <1>5, <1>6

\* Pieces, some of them empty, that take the first b bytes of packet i
Covers(list, i, b) == \E pos : Row(list, i, 0, pos) /\ pos[0] = 0 /\ pos[Len(list)] = b

LEMMA NothingCovers ==
  ASSUME NEW i
  PROVE  Covers(<<>>, i, 0)
<1> DEFINE pos == [k \in 0 .. 0 |-> 0]
<1>1. <<>> \in Seq(PieceSet) /\ Len(<<>>) = 0
  OBVIOUS
<1>2. Row(<<>>, i, 0, pos) /\ pos[0] = 0
  BY <1>1 DEF Row
<1> QED
  BY <1>1, <1>2 DEF Covers

\* What it is to append two
LEMMA TwoMoreFacts ==
  ASSUME NEW S, NEW s \in Seq(S), NEW p \in S, NEW q \in S
  PROVE  LET r == s \o <<p, q>> IN
         /\ r \in Seq(S) /\ Len(r) = Len(s) + 2 /\ r[Len(s) + 1] = p /\ r[Len(s) + 2] = q
         /\ \A k \in 1 .. Len(s) : r[k] = s[k]
OBVIOUS

LEMMA TwoMoreCover ==
  ASSUME NEW list, NEW i, NEW b, Covers(list, i, b), NEW c \in Int, NEW d \in Int,
         NEW p, NEW q, Fits(p, i, 0, b, c), Fits(q, i, 0, c, d)
  PROVE  Covers(list \o <<p, q>>, i, d) /\ list \o <<p, q>> \in Seq(PieceSet)
<1> DEFINE n == Len(list)
           r == list \o <<p, q>>
<1>1. PICK pos : Row(list, i, 0, pos) /\ pos[0] = 0 /\ pos[n] = b
  BY DEF Covers
<1>2. /\ list \in Seq(PieceSet) /\ n \in Nat /\ \A k \in 0 .. n : pos[k] \in Int
      /\ \A k \in 1 .. n : Fits(list[k], i, 0, pos[k - 1], pos[k])
  BY <1>1 DEF Row
<1>3. /\ r \in Seq(PieceSet) /\ Len(r) = n + 2 /\ r[n + 1] = p /\ r[n + 2] = q
      /\ \A k \in 1 .. n : r[k] = list[k]
  <2>1. p \in PieceSet /\ q \in PieceSet
    BY DEF Fits
  <2> QED
    BY <1>2, <2>1, TwoMoreFacts
<1> HIDE DEF n, r
<1> DEFINE new == [k \in 0 .. n + 2 |-> IF k = n + 2 THEN d ELSE IF k = n + 1 THEN c ELSE pos[k]]
<1>4. new[n + 2] = d /\ new[n + 1] = c /\ \A k \in 0 .. n : new[k] = pos[k]
  BY <1>2
<1> HIDE DEF new
<1>5. \A k \in 0 .. n + 2 : new[k] \in Int
  <2> TAKE k \in 0 .. n + 2
  <2>1. k = n + 2 \/ k = n + 1 \/ k \in 0 .. n
    BY <1>2
  <2> QED
    BY <1>2, <1>4, <2>1
<1>6. \A k \in 1 .. n + 2 : Fits(r[k], i, 0, new[k - 1], new[k])
  <2> TAKE k \in 1 .. n + 2
  <2>1. CASE k = n + 2
    <3>1. k - 1 = n + 1
      BY <1>2, <2>1
    <3> QED
      BY <1>3, <1>4, <2>1, <3>1
  <2>2. CASE k = n + 1
    <3>1. k - 1 = n /\ n \in 0 .. n
      BY <1>2, <2>2
    <3>2. new[n] = b
      BY <1>1, <1>4, <3>1 DEF n
    <3> QED
      BY <1>3, <1>4, <2>2, <3>1, <3>2
  <2>3. CASE k # n + 2 /\ k # n + 1
    <3>1. k \in 1 .. n /\ k \in 0 .. n /\ k - 1 \in 0 .. n
      BY <1>2, <2>3
    <3> QED
      BY <1>2, <1>3, <1>4, <3>1
  <2> QED
    BY <2>1, <2>2, <2>3
<1>7. new[0] = 0
  <2>1. 0 \in 0 .. n
    BY <1>2
  <2> QED
    BY <1>1, <1>4, <2>1
<1>8. Row(r, i, 0, new)
  BY <1>3, <1>5, <1>6 DEF Row
<1>9. Covers(r, i, d)
  BY <1>3, <1>4, <1>7, <1>8 DEF Covers
<1> QED
  BY <1>3, <1>9 DEF r

\* What covers a packet is a chain.
LEMMA CoverChained ==
  ASSUME NEW list, NEW i, NEW b, Covers(list, i, b)
  PROVE  Chained(Pieces(list), i, 0, 0, b)
<1>1. PICK pos : Row(list, i, 0, pos) /\ pos[0] = 0 /\ pos[Len(list)] = b
  BY DEF Covers
<1>2. 0 \in Int
  OBVIOUS
<1>3. Chained(Pieces(list), i, pos[0], 0, pos[Len(list)])
  BY <1>1, <1>2, PiecesChained
<1> QED
  BY <1>1, <1>3

States(n) == [count : Nat, blkcnt : Nat, len : Nat, out : [1 .. n -> Seq(PieceSet)]]

\* The rows behind s.count are done; the others are longer than what is done of them.
RoundInv(rows, n, s) ==
  /\ s \in States(n) /\ s.count <= n /\ s.len = 8 * s.blkcnt
  /\ \A p \in 1 .. n : IF p <= s.count THEN rows[p].len > s.len /\ Covers(s.out[p], rows[p].iv, s.len)
                       ELSE Covers(s.out[p], rows[p].iv, rows[p].len)

\* The rows of a call, the longest first
LongestFirst(rows, n) ==
  /\ n \in Nat /\ DOMAIN rows = 1 .. n
  /\ \A p \in 1 .. n : rows[p].len \in Nat \ {0} /\ rows[p].iv \in Int
  /\ \A a \in 1 .. n : \A b \in 1 .. n : b < a => rows[b].len >= rows[a].len

\* The shortest row has "full" whole blocks more, and then the last one.
LEMMA BlocksLeft ==
  ASSUME NEW len \in Nat, NEW blkcnt \in Nat, len > 8 * blkcnt
  PROVE  LET full == Max({0, ((RoundUp(len, 8) \div 8) - blkcnt) - 1})
             at   == (8 * blkcnt) + (8 * full)
         IN  full \in Nat /\ at < len /\ len <= at + 8
<1> DEFINE u == RoundUp(len, 8) \div 8
           full == Max({0, (u - blkcnt) - 1})
<1>1. RoundUp(len, 8) = len + ((-len) % 8)
  BY DEF RoundUp
<1>2. u \in Nat /\ len <= 8 * u /\ 8 * u < len + 8
  BY <1>1
<1> HIDE DEF u
<1>3. (u - blkcnt) - 1 \in Nat
  BY <1>2
<1>4. full = (u - blkcnt) - 1
  <2> DEFINE x == (u - blkcnt) - 1
  <2>1. x \in Int /\ 0 <= x
    BY <1>3
  <2> HIDE DEF x
  <2>2. Max({0, x}) = IF x <= 0 THEN 0 ELSE x
    BY <2>1, NotNegative
  <2>3. Max({0, x}) = x
    BY <2>1, <2>2
  <2> QED
    BY <2>3 DEF x
<1> HIDE DEF full
<1> QED
  BY <1>2, <1>3, <1>4 DEF full, u

\* Those of the first rows that are not longer than b are the last of them.
LEMMA ShortOnes ==
  ASSUME NEW rows, NEW n, LongestFirst(rows, n), NEW count \in 1 .. n, NEW b \in Nat, rows[count].len <= b
  PROVE  LET w == {p \in 1 .. count : \A q \in p .. count : rows[q].len <= b}
             c == count - Cardinality(w)
         IN  /\ c \in Nat /\ c < count
             /\ \A p \in 1 .. count : IF p <= c THEN rows[p].len > b ELSE rows[p].len <= b
<1> DEFINE w == {p \in 1 .. count : \A q \in p .. count : rows[q].len <= b}
<1>1. n \in Nat /\ \A p \in 1 .. n : rows[p].len \in Nat
  BY DEF LongestFirst
<1>2. \A x \in 1 .. n : \A y \in 1 .. n : y < x => rows[y].len >= rows[x].len
  BY DEF LongestFirst
<1>3. \A p \in 1 .. count : p \in 1 .. n /\ rows[p].len \in Nat
  BY <1>1
<1>4. \A p \in 1 .. count : p \in w <=> rows[p].len <= b
  <2> TAKE p \in 1 .. count
  <2>1. ASSUME rows[p].len <= b, NEW q \in p .. count PROVE rows[q].len <= b
    <3>1. q \in 1 .. count /\ (q = p \/ p < q)
      OBVIOUS
    <3>2. p < q => rows[p].len >= rows[q].len
      BY <1>2, <1>3, <3>1
    <3> QED
      BY <1>3, <2>1, <3>1, <3>2
  <2>2. p \in p .. count
    OBVIOUS
  <2> QED
    BY <2>1, <2>2
<1>5. count \in w
  BY <1>4
<1>6. w \in SUBSET (1 .. count)
  OBVIOUS
<1> HIDE DEF w
<1>7. PICK m \in w : \A p \in w : m <= p
  <2>1. w \in SUBSET Nat
    BY <1>6
  <2> QED
    BY <1>5, <2>1, LeastNatural
<1>8. m \in 1 .. count /\ rows[m].len <= b
  BY <1>4, <1>6, <1>7
<1>9. w = m .. count
  <2>1. \A p \in m .. count : p \in w
    <3> TAKE p \in m .. count
    <3>1. p \in 1 .. count /\ (p = m \/ m < p)
      BY <1>8
    <3>2. m < p => rows[m].len >= rows[p].len
      BY <1>2, <1>3, <1>8, <3>1
    <3>3. rows[p].len <= b
      BY <1>3, <1>8, <3>1, <3>2
    <3> QED
      BY <1>4, <3>1, <3>3
  <2>2. \A p \in w : p \in m .. count
    <3> TAKE p \in w
    <3>1. p \in 1 .. count /\ m <= p
      BY <1>6, <1>7
    <3>2. count \in Int /\ m \in Int
      BY <1>8
    <3> QED
      BY <3>1, <3>2
  <2> DEFINE I == m .. count
  <2>3. (\A p \in I : p \in w) /\ (\A p \in w : p \in I)
    BY <2>1, <2>2
  <2> HIDE DEF I
  <2>4. w = I
    BY <2>3
  <2> QED
    BY <2>4 DEF I
<1>10. Cardinality(w) = count - m + 1
  <2>1. m \in Int /\ count \in Int /\ m <= count
    BY <1>8
  <2> QED
    BY <1>9, <2>1, FS_Interval
<1>11. count - Cardinality(w) = m - 1
  BY <1>8, <1>10
<1>12. \A p \in 1 .. count : IF p <= m - 1 THEN rows[p].len > b ELSE rows[p].len <= b
  <2> TAKE p \in 1 .. count
  <2>1. CASE p <= m - 1
    <3>1. p \notin w
      BY <1>8, <1>9, <2>1
    <3> QED
      BY <1>3, <1>4, <2>1, <3>1
  <2>2. CASE ~(p <= m - 1)
    <3>1. p \in w
      BY <1>8, <1>9, <2>2
    <3> QED
      BY <1>4, <2>2, <3>1
  <2> QED
    BY <2>1, <2>2
<1>13. m - 1 \in Nat /\ m - 1 < count
  BY <1>8
<1> QED
  BY <1>11, <1>12, <1>13 DEF w

\* What a round does, in terms of the rows it is for
RoundTo(rows, n, s, full, count, t) ==
  LET at == s.len + (8 * full) IN
  /\ t.count = count /\ t.blkcnt = s.blkcnt + full + 1 /\ t.len = at + 8
  /\ t = [count |-> t.count, blkcnt |-> t.blkcnt, len |-> t.len, out |-> t.out]
  /\ DOMAIN t.out = 1 .. n /\ t.out = [p \in 1 .. n |-> t.out[p]]
  /\ \A p \in 1 .. n :
       t.out[p] = IF p <= s.count
                  THEN s.out[p] \o <<Piece(rows[p].iv, s.len, 8 * s.blkcnt, 8 * full),
                                     Piece(rows[p].iv, at, 8 * (s.blkcnt + full),
                                           IF rows[p].len < at + 8 THEN rows[p].len - at ELSE 8)>>
                  ELSE s.out[p]

\* A round that is due
RoundDue(rows, n, s, full, count) ==
  LET at == s.len + (8 * full) IN
  /\ full \in Nat /\ count \in Nat /\ count < s.count
  /\ \A p \in 1 .. s.count : /\ at < rows[p].len
                             /\ IF p <= count THEN rows[p].len > at + 8 ELSE rows[p].len <= at + 8

\* It keeps the invariant.
LEMMA RoundKeeps ==
  ASSUME NEW rows, NEW n, LongestFirst(rows, n), NEW s, RoundInv(rows, n, s), NEW full, NEW count,
         RoundDue(rows, n, s, full, count), NEW t, RoundTo(rows, n, s, full, count, t)
  PROVE  RoundInv(rows, n, t)
<1> DEFINE a == s.len
           blk == s.blkcnt
           at == a + (8 * full)
           e == at + 8
<1>1. n \in Nat /\ \A p \in 1 .. n : rows[p].len \in Nat /\ rows[p].iv \in Int
  BY DEF LongestFirst
<1>2. /\ s.count \in Nat /\ blk \in Nat /\ a \in Nat /\ s.count <= n /\ a = 8 * blk
      /\ \A p \in 1 .. n : s.out[p] \in Seq(PieceSet)
  BY DEF RoundInv, States
<1>3. full \in Nat /\ count \in Nat /\ count < s.count
  BY DEF RoundDue
<1>4. at \in Nat /\ e \in Nat /\ at = 8 * (blk + full) /\ e = 8 * (blk + full + 1)
      /\ blk + full + 1 \in Nat /\ at = a + (8 * full) /\ 8 * full \in Nat /\ e = at + 8
  <2>1. a \in Nat /\ blk \in Nat /\ full \in Nat /\ a = 8 * blk
    BY <1>2, <1>3
  <2> HIDE DEF a, blk
  <2> QED
    BY <2>1
<1>5. \A p \in 1 .. s.count : at < rows[p].len /\ IF p <= count THEN rows[p].len > e ELSE rows[p].len <= e
  BY DEF RoundDue
<1>6. /\ t.count = count /\ t.blkcnt = blk + full + 1 /\ t.len = e
      /\ t = [count |-> t.count, blkcnt |-> t.blkcnt, len |-> t.len, out |-> t.out]
      /\ DOMAIN t.out = 1 .. n /\ t.out = [p \in 1 .. n |-> t.out[p]]
  BY DEF RoundTo
<1>7. \A p \in 1 .. n : p > s.count => t.out[p] = s.out[p]
  <2> TAKE p \in 1 .. n
  <2> SUFFICES ASSUME p > s.count PROVE t.out[p] = s.out[p]
    OBVIOUS
  <2>1. ~(p <= s.count)
    BY <1>1, <1>2
  <2> QED
    BY <2>1 DEF RoundTo
<1>8. ASSUME NEW p \in 1 .. n, p <= s.count
      PROVE  t.out[p] = s.out[p] \o <<Piece(rows[p].iv, a, 8 * blk, 8 * full),
                                     Piece(rows[p].iv, at, 8 * (blk + full),
                                           IF rows[p].len < e THEN rows[p].len - at ELSE 8)>>
  BY <1>8 DEF RoundTo
<1>9. \A p \in 1 .. n : IF p <= s.count THEN Covers(s.out[p], rows[p].iv, a)
                        ELSE Covers(s.out[p], rows[p].iv, rows[p].len)
  BY DEF RoundInv
<1> HIDE DEF a, blk, at, e
<1>10. ASSUME NEW p \in 1 .. n, p <= s.count
       PROVE  /\ Covers(t.out[p], rows[p].iv, IF p <= count THEN e ELSE rows[p].len)
              /\ t.out[p] \in Seq(PieceSet)
  <2> DEFINE len  == rows[p].len
             i    == rows[p].iv
             last == IF len < e THEN len - at ELSE 8
             k1   == 8 * blk
             n1   == 8 * full
             k2   == 8 * (blk + full)
  <2>1. p \in 1 .. s.count /\ len \in Nat /\ i \in Int
    BY <1>1, <1>2, <1>10
  <2>2. at < len /\ IF p <= count THEN len > e ELSE len <= e
    BY <1>5, <2>1
  <2>3. last \in Nat /\ at + last = IF p <= count THEN e ELSE len
    <3> HIDE DEF len
    <3> QED
      BY <1>4, <2>1, <2>2
  <2>4. t.out[p] = s.out[p] \o <<Piece(i, a, k1, n1), Piece(i, at, k2, last)>>
    BY <1>8, <1>10
  <2>5. k1 = a /\ n1 \in Nat /\ at = a + n1 /\ k2 = at /\ k1 \in Int /\ k2 \in Int /\ a \in Int /\ at \in Int
    BY <1>2, <1>4
  <2> HIDE DEF len, i, last, k1, n1, k2
  <2>6. Fits(Piece(i, a, k1, n1), i, 0, a, at)
    BY <2>1, <2>5, PieceFits
  <2> DEFINE d == at + last
  <2>7. d \in Int /\ d = at + last
    BY <2>3, <2>5
  <2> HIDE DEF d
  <2>8. Fits(Piece(i, at, k2, last), i, 0, at, d)
    BY <2>1, <2>3, <2>5, <2>7, PieceFits
  <2>9. Covers(s.out[p], i, a)
    BY <1>9, <1>10 DEF i
  <2>10. Covers(t.out[p], i, d) /\ t.out[p] \in Seq(PieceSet)
    BY <2>4, <2>5, <2>6, <2>7, <2>8, <2>9, TwoMoreCover
  <2>11. d = IF p <= count THEN e ELSE len
    BY <2>3, <2>7
  <2> QED
    BY <2>10, <2>11 DEF i, len
<1>11. t \in States(n)
  <2>1. \A p \in 1 .. n : t.out[p] \in Seq(PieceSet)
    <3> TAKE p \in 1 .. n
    <3>1. p <= s.count \/ p > s.count
      BY <1>2
    <3> QED
      BY <1>2, <1>7, <1>10, <3>1
  <2>2. t.out \in [1 .. n -> Seq(PieceSet)]
    BY <1>6, <2>1
  <2>3. t.count \in Nat /\ t.blkcnt \in Nat /\ t.len \in Nat
    BY <1>3, <1>4, <1>6
  <2> QED
    BY <1>6, <2>2, <2>3 DEF States
<1>12. ASSUME NEW p \in 1 .. n
       PROVE  IF p <= t.count THEN rows[p].len > t.len /\ Covers(t.out[p], rows[p].iv, t.len)
              ELSE Covers(t.out[p], rows[p].iv, rows[p].len)
  <2>1. CASE p <= s.count
    <3>1. p \in 1 .. s.count
      BY <1>2, <2>1
    <3>2. Covers(t.out[p], rows[p].iv, IF p <= count THEN e ELSE rows[p].len)
      BY <1>10, <2>1
    <3> QED
      BY <1>5, <1>6, <3>1, <3>2
  <2>2. CASE ~(p <= s.count)
    <3>1. p > s.count /\ ~(p <= count)
      BY <1>2, <1>3, <2>2
    <3> QED
      BY <1>6, <1>7, <1>9, <2>2, <3>1
  <2> QED
    BY <2>1, <2>2
<1>13. t.count <= n /\ t.len = 8 * t.blkcnt
  <2>1. t.count <= n
    BY <1>1, <1>2, <1>3, <1>6
  <2> DEFINE b == blk + full + 1
  <2>2. t.blkcnt = b /\ t.len = e /\ e = 8 * b
    BY <1>4, <1>6
  <2> HIDE DEF b
  <2> QED
    BY <2>1, <2>2
<1> QED
  BY <1>11, <1>12, <1>13 DEF RoundInv

\* F8Round is such a round.
LEMMA F8RoundIsRound ==
  ASSUME NEW rows, NEW n, LongestFirst(rows, n), NEW s, RoundInv(rows, n, s), s.count # 0
  PROVE  \E full, count : /\ RoundDue(rows, n, s, full, count)
                          /\ RoundTo(rows, n, s, full, count, F8Round(rows, s))
<1> DEFINE count   == s.count
           len     == rows[count].len
           same    == (RoundUp(len, 8) \div 8) - s.blkcnt
           full    == Max({0, same - 1})
           at      == s.len + (8 * full)
           fresh   == kasumiWrapperArray(count)
           of(p)   == IF p \in fresh THEN rows[p].iv ELSE 0
           partial == {p \in 1 .. count : \A q \in p .. count : rows[q].len < at + 8}
           whole   == {p \in 1 .. count : \A q \in p .. count : q \in partial \/ rows[q].len <= at + 8}
           last(p) == IF p \in partial THEN rows[p].len - at ELSE 8
           done(p) == <<Piece(of(p), s.len, 8 * s.blkcnt, 8 * full),
                        Piece(of(p), at, 8 * (s.blkcnt + full), last(p))>>
           t       == F8Round(rows, s)
           new     == count - Cardinality(whole)
<1>1. t = [count  |-> new, blkcnt |-> s.blkcnt + full + 1, len |-> at + 8,
           out    |-> [p \in DOMAIN rows |-> IF p <= count THEN s.out[p] \o done(p) ELSE s.out[p]]]
  BY DEF F8Round
<1>2. n \in Nat /\ DOMAIN rows = 1 .. n /\ \A p \in 1 .. n : rows[p].len \in Nat /\ rows[p].iv \in Int
  BY DEF LongestFirst
<1>3. /\ count \in 1 .. n /\ s.blkcnt \in Nat /\ s.len = 8 * s.blkcnt
      /\ \A p \in 1 .. n : p <= count => rows[p].len > s.len
  <2>1. count \in Nat /\ count <= n /\ s.blkcnt \in Nat
    BY DEF RoundInv, States
  <2> QED
    BY <1>2, <2>1 DEF RoundInv
<1>4. len \in Nat /\ len > 8 * s.blkcnt
  BY <1>2, <1>3
<1>5. full \in Nat /\ at < len /\ len <= at + 8
  <2> DEFINE blk == s.blkcnt
  <2>1. blk \in Nat /\ len > 8 * blk /\ len \in Nat
    BY <1>3, <1>4
  <2>2. full = Max({0, ((RoundUp(len, 8) \div 8) - blk) - 1}) /\ at = (8 * blk) + (8 * full)
    BY <1>3
  <2> HIDE DEF blk, len, full, at
  <2> QED
    BY <2>1, <2>2, BlocksLeft
<1>6. at \in Nat /\ at + 8 \in Nat
  <2> HIDE DEF full
  <2> QED
    BY <1>3, <1>5
<1> DEFINE e == at + 8
           w == {p \in 1 .. count : \A q \in p .. count : rows[q].len <= e}
<1>7. fresh = 1 .. count
  <2>1. count \in Nat
    BY <1>3
  <2> QED
    BY <2>1, AllFresh
<1> HIDE DEF fresh, full, len
<1>8. \A p \in 1 .. count : p \in 1 .. n /\ rows[p].len \in Nat /\ of(p) = rows[p].iv
  BY <1>2, <1>3, <1>7
<1>9. \A p \in 1 .. count : \A q \in p .. count : q \in 1 .. count
  OBVIOUS
<1>10. \A q \in 1 .. count : q \in partial => rows[q].len < e
  <2> TAKE q \in 1 .. count
  <2>1. q \in q .. count
    OBVIOUS
  <2> QED
    BY <2>1
<1>11. \A p \in 1 .. count : \A q \in p .. count : (q \in partial \/ rows[q].len <= e) <=> rows[q].len <= e
  <2> TAKE p \in 1 .. count
  <2> TAKE q \in p .. count
  <2>1. q \in 1 .. count /\ rows[q].len \in Nat
    BY <1>8, <1>9
  <2>2. q \in partial => rows[q].len < e
    BY <1>10, <2>1
  <2> HIDE DEF partial, e
  <2> QED
    BY <1>6, <2>1, <2>2 DEF e
<1>12. whole = w
  <2> HIDE DEF partial
  <2> QED
    BY <1>11
<1>13. \A p \in 1 .. count : p \in partial <=> rows[p].len < e
  <2> TAKE p \in 1 .. count
  <2>1. ASSUME rows[p].len < e PROVE p \in partial
    <3>1. ASSUME NEW q \in p .. count PROVE rows[q].len < e
      <4>1. q \in 1 .. n /\ p \in 1 .. n /\ (p = q \/ p < q) /\ rows[q].len \in Nat /\ rows[p].len \in Nat
        BY <1>3, <1>8
      <4>2. p < q => rows[p].len >= rows[q].len
        BY <4>1 DEF LongestFirst
      <4> HIDE DEF e
      <4> QED
        BY <1>6, <2>1, <4>1, <4>2 DEF e
    <3> QED
      BY <3>1
  <2> QED
    BY <1>10, <2>1
<1> HIDE DEF partial, whole
<1>14. /\ new \in Nat /\ new < count
       /\ \A p \in 1 .. count : IF p <= new THEN rows[p].len > e ELSE rows[p].len <= e
  <2>1. rows[count].len <= e /\ e \in Nat
    BY <1>5, <1>6 DEF len
  <2>2. new = count - Cardinality(w)
    BY <1>12
  <2>3. count \in 1 .. n
    BY <1>3
  <2> HIDE DEF e, new, count
  <2> QED
    BY <2>1, <2>2, <2>3, ShortOnes
<1>15. RoundDue(rows, n, s, full, new)
  <2>1. \A p \in 1 .. count : at < rows[p].len
    <3> TAKE p \in 1 .. count
    <3>1. p \in 1 .. n /\ count \in 1 .. n /\ (p = count \/ p < count) /\ rows[p].len \in Nat
      BY <1>3, <1>8
    <3>2. p < count => rows[p].len >= rows[count].len
      BY <3>1 DEF LongestFirst
    <3>3. at < rows[count].len /\ rows[count].len \in Nat
      BY <1>4, <1>5 DEF len
    <3> HIDE DEF at
    <3> QED
      BY <1>6, <3>1, <3>2, <3>3
  <2> HIDE DEF new
  <2> QED
    BY <1>5, <1>14, <2>1 DEF RoundDue
<1>16. RoundTo(rows, n, s, full, new, t)
  <2>1. /\ t.count = new /\ t.blkcnt = s.blkcnt + full + 1 /\ t.len = e
        /\ t.out = [p \in 1 .. n |-> IF p <= count THEN s.out[p] \o done(p) ELSE s.out[p]]
        /\ t = [count |-> t.count, blkcnt |-> t.blkcnt, len |-> t.len, out |-> t.out]
    <3> DEFINE o == [p \in 1 .. n |-> IF p <= count THEN s.out[p] \o done(p) ELSE s.out[p]]
               blks == s.blkcnt + full + 1
    <3>1. t = [count |-> new, blkcnt |-> blks, len |-> e, out |-> o]
      BY <1>1, <1>2
    <3> HIDE DEF t, new, e, o, blks
    <3>2. /\ t.count = new /\ t.blkcnt = blks /\ t.len = e /\ t.out = o
          /\ t = [count |-> t.count, blkcnt |-> t.blkcnt, len |-> t.len, out |-> t.out]
      BY <3>1
    <3> QED
      BY <3>2 DEF o, blks
  <2>2. \A p \in 1 .. n : p <= count =>
          done(p) = <<Piece(rows[p].iv, s.len, 8 * s.blkcnt, 8 * full),
                      Piece(rows[p].iv, at, 8 * (s.blkcnt + full),
                            IF rows[p].len < e THEN rows[p].len - at ELSE 8)>>
    <3> TAKE p \in 1 .. n
    <3> SUFFICES ASSUME p <= count
                 PROVE  of(p) = rows[p].iv /\ last(p) = IF rows[p].len < e THEN rows[p].len - at ELSE 8
      OBVIOUS
    <3>1. p \in 1 .. count
      BY <1>3
    <3> QED
      BY <1>8, <1>13, <3>1
  <2> HIDE DEF t, done, new
  <2> QED
    BY <2>1, <2>2 DEF RoundTo
<1> HIDE DEF t, new
<1> QED
  BY <1>15, <1>16 DEF t

\* A round leaves fewer rows.
LEMMA F8RoundKeeps ==
  ASSUME NEW rows, NEW n, LongestFirst(rows, n), NEW s, RoundInv(rows, n, s), s.count # 0
  PROVE  RoundInv(rows, n, F8Round(rows, s)) /\ F8Round(rows, s).count < s.count
<1>1. PICK full, count : /\ RoundDue(rows, n, s, full, count)
                         /\ RoundTo(rows, n, s, full, count, F8Round(rows, s))
  BY F8RoundIsRound
<1> DEFINE t == F8Round(rows, s)
<1> HIDE DEF t
<1>2. RoundInv(rows, n, t)
  BY <1>1, RoundKeeps DEF t
<1>3. t.count < s.count
  BY <1>1 DEF RoundDue, RoundTo, t
<1> QED
  BY <1>2, <1>3 DEF t

RoundOf(rows, s) == IF s.count = 0 THEN s ELSE F8Round(rows, s)

\* After k rounds at least k rows are done.
AfterRounds(rows, n, s, k) == RoundInv(rows, n, s) /\ s.count <= n - k

LEMMA OneRoundMore ==
  ASSUME NEW rows, NEW n, LongestFirst(rows, n), NEW k \in 1 .. n, NEW s, AfterRounds(rows, n, s, k - 1)
  PROVE  AfterRounds(rows, n, RoundOf(rows, s), k)
<1> DEFINE t == RoundOf(rows, s)
<1>1. n \in Nat /\ RoundInv(rows, n, s) /\ s.count \in Nat /\ s.count <= n - (k - 1)
  BY DEF LongestFirst, AfterRounds, RoundInv, States
<1>2. CASE s.count = 0
  <2>1. t = s /\ s.count <= n - k
    BY <1>1, <1>2 DEF RoundOf
  <2> HIDE DEF t
  <2> QED
    BY <1>1, <2>1 DEF AfterRounds, t
<1>3. CASE s.count # 0
  <2>1. t = F8Round(rows, s)
    BY <1>3 DEF RoundOf
  <2> HIDE DEF t
  <2>2. RoundInv(rows, n, t) /\ t.count < s.count
    BY <1>1, <1>3, <2>1, F8RoundKeeps
  <2>3. t.count \in Nat
    BY <2>2 DEF RoundInv, States
  <2>4. t.count <= n - k
    BY <1>1, <2>2, <2>3
  <2> QED
    BY <2>2, <2>4 DEF AfterRounds, t
<1> QED
  BY <1>2, <1>3

Start(rows) == [count |-> Len(rows), blkcnt |-> 0, len |-> 0, out |-> [p \in DOMAIN rows |-> <<>>]]

IsRounds(f, rows) ==
  f = [r \in 0 .. Len(rows) |-> IF r = 0 THEN Start(rows)
                                ELSE IF f[r - 1].count = 0 THEN f[r - 1] ELSE F8Round(rows, f[r - 1])]

LEMMA StartFacts ==
  ASSUME NEW rows, NEW n, LongestFirst(rows, n), Len(rows) = n
  PROVE  AfterRounds(rows, n, Start(rows), 0)
<1> DEFINE s == Start(rows)
           o == [p \in 1 .. n |-> <<>>]
<1>1. n \in Nat /\ DOMAIN rows = 1 .. n /\ \A p \in 1 .. n : rows[p].len \in Nat \ {0}
  BY DEF LongestFirst
<1>2. s = [count |-> n, blkcnt |-> 0, len |-> 0, out |-> o]
  BY <1>1 DEF Start
<1>3. o \in [1 .. n -> Seq(PieceSet)] /\ \A p \in 1 .. n : o[p] = <<>>
  OBVIOUS
<1> HIDE DEF s, o
<1>4. s.count = n /\ s.blkcnt = 0 /\ s.len = 0 /\ s.out = o /\ s \in States(n)
  BY <1>1, <1>2, <1>3 DEF States
<1>5. \A p \in 1 .. n : IF p <= s.count THEN rows[p].len > s.len /\ Covers(s.out[p], rows[p].iv, s.len)
                        ELSE Covers(s.out[p], rows[p].iv, rows[p].len)
  <2> TAKE p \in 1 .. n
  <2>1. p <= n /\ rows[p].len > 0
    BY <1>1
  <2>2. Covers(<<>>, rows[p].iv, 0)
    BY NothingCovers
  <2> QED
    BY <1>3, <1>4, <2>1, <2>2
<1>6. s.count <= n /\ s.len = 8 * s.blkcnt /\ s.count <= n - 0
  BY <1>1, <1>4
<1> QED
  BY <1>4, <1>5, <1>6 DEF RoundInv, AfterRounds, s

\* After the rounds each row is done.
LEMMA RoundsCover ==
  ASSUME NEW rows, NEW n, LongestFirst(rows, n), Len(rows) = n
  PROVE  \A p \in 1 .. n : Covers(F8Rounds(rows)[p], rows[p].iv, rows[p].len)
<1> DEFINE S    == States(n)
           e    == Start(rows)
           T    == [k \in 0 .. n |-> {x \in S : AfterRounds(rows, n, x, k)}]
           prev == [k \in 1 .. n |-> k - 1]
           step == [k \in 1 .. n |-> [x \in S |-> RoundOf(rows, x)]]
<1>1. n \in Nat
  BY DEF LongestFirst
<1>2. \A k \in 1 .. n : prev[k] = k - 1 /\ prev[k] \in 0 .. k - 1 /\ prev[k] \in 0 .. n
  BY <1>1
<1> HIDE DEF e
<1>3. e \in T[0]
  <2>1. AfterRounds(rows, n, e, 0)
    BY StartFacts DEF e
  <2>2. 0 \in 0 .. n
    BY <1>1
  <2>3. e \in S
    BY <2>1 DEF AfterRounds, RoundInv
  <2> QED
    BY <2>1, <2>2, <2>3
<1>4. ASSUME NEW k \in 1 .. n, NEW x \in T[k - 1]
      PROVE  RoundOf(rows, x) \in T[k] /\ step[k][x] = RoundOf(rows, x)
  <2>1. k - 1 \in 0 .. n /\ k \in 0 .. n
    BY <1>1
  <2>2. x \in S /\ AfterRounds(rows, n, x, k - 1)
    BY <2>1
  <2>3. AfterRounds(rows, n, RoundOf(rows, x), k)
    BY <2>2, OneRoundMore
  <2>4. RoundOf(rows, x) \in S
    BY <2>3 DEF AfterRounds, RoundInv
  <2> QED
    BY <2>1, <2>2, <2>3, <2>4
<1> HIDE DEF T, prev, step
<1>5. \E f : Follows(f, n, prev, e, step) /\ StaysIn(f, n, T)
  <2>1. \A k \in 1 .. n : \A x \in T[prev[k]] : step[k][x] \in T[k]
    BY <1>2, <1>4
  <2>2. Steps(n, prev, T, e, step)
    BY <1>1, <1>2, <1>3, <2>1 DEF Steps
  <2> QED
    BY <2>2, RecursionDefines
<1>6. \E f : IsRounds(f, rows)
  <2>1. PICK f : Follows(f, n, prev, e, step) /\ StaysIn(f, n, T)
    BY <1>5
  <2>2. ASSUME NEW k \in 1 .. n PROVE f[k] = RoundOf(rows, f[k - 1])
    <3>1. k # 0 /\ k \in 0 .. n /\ k - 1 \in 0 .. n
      BY <1>1
    <3>2. f[k] = step[k][f[k - 1]] /\ f[k - 1] \in T[k - 1]
      BY <1>2, <2>1, <3>1 DEF Follows, StaysIn
    <3> QED
      BY <1>4, <3>2
  <2>3. f[0] = e /\ f = [k \in 0 .. n |-> f[k]]
    BY <1>1, <2>1 DEF Follows
  <2>4. \A k \in 0 .. n : k = 0 \/ k \in 1 .. n
    BY <1>1
  <2>5. \A k \in 0 .. n : f[k] = IF k = 0 THEN e ELSE RoundOf(rows, f[k - 1])
    BY <2>2, <2>3, <2>4
  <2> QED
    BY <2>3, <2>5 DEF RoundOf, IsRounds, e
<1> DEFINE f == CHOOSE f : IsRounds(f, rows)
<1>7. F8Rounds(rows) = f[n].out
  BY DEF F8Rounds, IsRounds, Start
<1>8. IsRounds(f, rows)
  BY <1>6
<1> HIDE DEF f
<1>9. StaysIn(f, n, T)
  <2>1. f[0] = e
    BY <1>1, <1>8 DEF IsRounds, e
  <2>2. ASSUME NEW k \in 1 .. n, f[prev[k]] \in T[prev[k]] PROVE f[k] \in T[k]
    <3>1. k # 0 /\ k \in 0 .. n
      BY <1>1
    <3>2. f[k] = RoundOf(rows, f[k - 1])
      BY <1>8, <3>1 DEF RoundOf, IsRounds
    <3>3. f[k - 1] \in T[k - 1]
      BY <1>2, <2>2
    <3> QED
      BY <1>4, <3>2, <3>3
  <2>3. f[0] \in T[0]
    BY <1>3, <2>1
  <2>4. StepsStay(f, n, prev, T)
    BY <1>1, <1>2, <2>2, <2>3 DEF StepsStay
  <2> QED
    BY <2>4, RecursionStays
<1> DEFINE s == f[n]
<1>10. AfterRounds(rows, n, s, n)
  <2>1. n \in 0 .. n
    BY <1>1
  <2> QED
    BY <1>9, <2>1 DEF StaysIn, T
<1> HIDE DEF s
<1>11. RoundInv(rows, n, s) /\ s.count \in Nat /\ s.count <= n - n
  BY <1>10 DEF AfterRounds, RoundInv, States
<1>12. \A p \in 1 .. n : ~(p <= s.count)
  BY <1>1, <1>11
<1>13. \A p \in 1 .. n : Covers(s.out[p], rows[p].iv, rows[p].len)
  BY <1>11, <1>12 DEF RoundInv
<1> QED
  BY <1>7, <1>13 DEF s

---------------------------------------------------------------------------
(* Any number of buffers *)

LEMMA SortedLongestFirst ==
  ASSUME NEW lens \in Seq(Nat), \A i \in 1 .. Len(lens) : lens[i] # 0
  PROVE  LET rows == SortedRows(Rows(lens)) IN
         LongestFirst(rows, Len(lens)) /\ Len(rows) = Len(lens) /\ Shuffled(rows, lens)
<1> DEFINE rows == SortedRows(Rows(lens))
           n == Len(lens)
<1>1. Shuffled(rows, lens) /\ InPlace(rows, 1)
  BY SortFacts
<1> HIDE DEF rows
<1>2. n \in Nat /\ Len(rows) = n /\ DOMAIN rows = 1 .. n /\ \A i \in 1 .. n : lens[i] \in Nat \ {0}
  BY <1>1 DEF Shuffled
<1>3. \A p \in 1 .. n : rows[p].len \in Nat \ {0} /\ rows[p].iv \in Int
  <2> TAKE p \in 1 .. n
  <2>1. rows[p].buf \in 1 .. n /\ rows[p].iv = rows[p].buf /\ rows[p].len = lens[rows[p].buf]
    BY <1>1, <1>2 DEF Shuffled
  <2> QED
    BY <1>2, <2>1
<1>4. \A a \in 1 .. n : \A b \in 1 .. n : b < a => rows[b].len >= rows[a].len
  BY <1>1, <1>2 DEF InPlace
<1> QED
  BY <1>1, <1>2, <1>3, <1>4 DEF LongestFirst, rows

\* Up to 16 buffers
LEMMA NKasumiChained ==
  ASSUME NEW lens \in Seq(Nat), \A i \in 1 .. Len(lens) : lens[i] # 0, Len(lens) <= 16,
         NEW b \in 1 .. Len(lens)
  PROVE  Chained(kasumi_f8_n_buffer(lens)[b], b, 0, 0, lens[b])
<1> DEFINE rows == SortedRows(Rows(lens))
           n    == Len(lens)
           result  == F8Rounds(rows)
           k    == RowOf(rows, b)
<1>1. n \in Nat /\ ~(n > MAX_BUFFERS)
  BY DEF MAX_BUFFERS
<1>2. LongestFirst(rows, n) /\ Len(rows) = n /\ Shuffled(rows, lens)
  BY SortedLongestFirst
<1>3. kasumi_f8_n_buffer(lens) = [c \in DOMAIN rows |-> Pieces(result[RowOf(rows, c)])]
  BY <1>1 DEF kasumi_f8_n_buffer
<1> HIDE DEF rows
<1>4. k \in 1 .. n /\ rows[k].iv = b /\ rows[k].len = lens[b]
  BY <1>2, RowOfFacts
<1>5. b \in DOMAIN rows
  BY <1>2 DEF LongestFirst
<1>6. kasumi_f8_n_buffer(lens)[b] = Pieces(result[k])
  BY <1>3, <1>5
<1> HIDE DEF k
<1>7. Covers(result[k], rows[k].iv, rows[k].len)
  BY <1>2, <1>4, RoundsCover
<1> QED
  BY <1>4, <1>6, <1>7, CoverChained

\* The same pieces in another buffer
LEMMA ShiftedChained ==
  ASSUME NEW s, NEW i \in Int, NEW b, Chained(s, i, 0, 0, b), NEW first \in Int
  PROVE  Chained(Shifted(s, first), i + first - 1, 0, 0, b)
<1> DEFINE r == Shifted(s, first)
           n == Len(s)
<1>1. s \in Seq(PieceSet) /\ n \in Nat /\ DOMAIN s = 1 .. n
  BY DEF Chained
<1>2. \A k \in 1 .. n : s[k] \in PieceSet
  BY <1>1
<1>3. r = [k \in 1 .. n |-> [s[k] EXCEPT !.of = @ + first - 1]]
  BY <1>1 DEF Shifted
<1>4. \A k \in 1 .. n : r[k] \in PieceSet /\ r[k].of = s[k].of + first - 1
                        /\ r[k].at = s[k].at /\ r[k].ks = s[k].ks /\ End(r[k]) = End(s[k])
  <2> TAKE k \in 1 .. n
  <2>1. s[k] \in PieceSet
    BY <1>2
  <2>2. r[k] = [s[k] EXCEPT !.of = @ + first - 1]
    BY <1>3
  <2> HIDE DEF r
  <2> QED
    BY <2>1, <2>2 DEF PieceSet, End
<1>5. r \in Seq(PieceSet) /\ Len(r) = n
  <2>1. r \in [1 .. n -> PieceSet]
    BY <1>3, <1>4
  <2> HIDE DEF r, n
  <2> QED
    BY <1>1, <2>1
<1> HIDE DEF r
<1>6. /\ \A k \in 1 .. n : /\ s[k].of = i /\ s[k].ks = s[k].at - 0
                           /\ s[k].at = IF k = 1 THEN 0 ELSE End(s[k - 1])
      /\ b = IF n = 0 THEN 0 ELSE End(s[n])
  BY DEF Chained
<1> HIDE DEF n
<1>7. \A k \in 1 .. n : /\ r[k].of = i + first - 1 /\ r[k].ks = r[k].at - 0
                        /\ r[k].at = IF k = 1 THEN 0 ELSE End(r[k - 1])
  <2> TAKE k \in 1 .. n
  <2>1. k # 1 => k - 1 \in 1 .. n
    BY <1>1
  <2> QED
    BY <1>4, <1>6, <2>1
<1>8. b = IF n = 0 THEN 0 ELSE End(r[n])
  <2>1. n # 0 => n \in 1 .. n
    BY <1>1
  <2> QED
    BY <1>4, <1>6, <2>1
<1> QED
  BY <1>5, <1>7, <1>8 DEF Chained, r

\* The bounds of an interval
LEMMA IntervalEnds ==
  ASSUME NEW a \in Int, NEW z \in Int, a <= z
  PROVE  Min(a .. z) = a /\ Max(a .. z) = z
<1> DEFINE I == a .. z
<1>1. a \in I /\ z \in I /\ \A x \in I : x \in Int /\ a <= x /\ x <= z
  OBVIOUS
<1> HIDE DEF I
<1>2. Min(I) \in I /\ \A x \in I : Min(I) <= x
  BY <1>1 DEF Min
<1>3. Max(I) \in I /\ \A x \in I : Max(I) >= x
  BY <1>1 DEF Max
<1> DEFINE least == Min(I)
           most  == Max(I)
<1>4. least \in I /\ a \in I /\ least <= a
  BY <1>1, <1>2
<1>5. most \in I /\ z \in I /\ most >= z
  BY <1>1, <1>3
<1> HIDE DEF least, most
<1>6. least = a /\ most = z
  BY <1>1, <1>4, <1>5
<1> QED
  BY <1>6 DEF I, least, most

\* Some of the buffers of a call
LEMMA PartOfLens ==
  ASSUME NEW lens \in Seq(Nat), NEW a \in 1 .. Len(lens), NEW z \in 1 .. Len(lens), a <= z
  PROVE  LET sub == SubSeq(lens, a, z) IN
         /\ sub \in Seq(Nat) /\ Len(sub) = z - a + 1
         /\ \A i \in 1 .. z - a + 1 : sub[i] = lens[a + i - 1]
OBVIOUS

\* Up to 16 buffers at a time
LEMMA BatchesInStep ==
  ASSUME NEW lens \in Seq(Nat), \A i \in 1 .. Len(lens) : lens[i] # 0, NEW b \in 1 .. Len(lens)
  PROVE  InStep(F8Batches(lens)[b], b, lens[b])
<1> DEFINE n      == Len(lens)
           widths == 1 .. MAX_BUFFERS
           g      == GroupOf(b, Groups(n, widths))
           first  == Min(g)
           last   == Max(g)
           sub    == SubSeq(lens, first, last)
           i      == b - first + 1
<1>1. n \in Nat /\ DOMAIN lens = 1 .. n /\ \A j \in 1 .. n : lens[j] \in Nat \ {0}
  OBVIOUS
<1>2. WidthsOk(widths)
  BY DEF WidthsOk, MAX_BUFFERS
<1>3. F8Batches(lens)[b] = Shifted(kasumi_f8_n_buffer(sub)[i], first)
  BY DEF F8Batches
<1> HIDE DEF widths
<1>4. b \in g /\ \E a \in 1 .. n : \E w \in Nat :
              1 <= w /\ w <= 16 /\ g = a .. a + w - 1 /\ a + w - 1 <= n
  BY <1>1, <1>2, GroupFacts
<1>5. PICK a \in 1 .. n, w \in Nat : 1 <= w /\ w <= 16 /\ g = a .. a + w - 1 /\ a + w - 1 <= n
  BY <1>4
<1> DEFINE z == a + w - 1
<1>6. z \in 1 .. n /\ a <= z /\ z - a + 1 = w /\ a \in Int /\ z \in Int /\ g = a .. z
  BY <1>1, <1>5
<1> HIDE DEF g, z
<1>7. first = a /\ last = z
  BY <1>6, IntervalEnds
<1>8. i \in 1 .. w /\ a + i - 1 = b /\ i + first - 1 = b /\ i \in Int /\ b \in Int
  <2>1. b \in a .. z
    BY <1>4, <1>6
  <2> HIDE DEF first
  <2> QED
    BY <1>1, <1>6, <1>7, <2>1
<1> HIDE DEF first, last, i
<1>9. sub \in Seq(Nat) /\ Len(sub) = w /\ \A j \in 1 .. w : sub[j] = lens[a + j - 1]
  <2>1. sub = SubSeq(lens, a, z)
    BY <1>7
  <2> HIDE DEF sub
  <2> QED
    BY <1>6, <2>1, PartOfLens
<1> HIDE DEF sub
<1>10. \A j \in 1 .. w : sub[j] # 0
  <2> TAKE j \in 1 .. w
  <2>1. a + j - 1 \in 1 .. n
    BY <1>1, <1>5, <1>6
  <2> QED
    BY <1>1, <1>9, <2>1
<1>11. Chained(kasumi_f8_n_buffer(sub)[i], i, 0, 0, sub[i])
  BY <1>5, <1>8, <1>9, <1>10, NKasumiChained
<1>12. sub[i] = lens[b]
  BY <1>8, <1>9
<1>13. Chained(Shifted(kasumi_f8_n_buffer(sub)[i], first), b, 0, 0, lens[b])
  <2>1. first \in Int
    BY <1>6, <1>7
  <2>2. Chained(Shifted(kasumi_f8_n_buffer(sub)[i], first), i + first - 1, 0, 0, sub[i])
    BY <1>8, <1>11, <2>1, ShiftedChained
  <2> QED
    BY <1>8, <1>12, <2>2
<1>14. lens[b] \in Nat \ {0}
  BY <1>1
<1> QED
  BY <1>3, <1>13, <1>14, ChainInStep

---------------------------------------------------------------------------
(* What the functions of KASUMI promise of their buffers *)

KasumiRight(lens, r) ==
  IF InRange(lens, KASUMI_MAX_BYTES) THEN \A i \in DOMAIN lens : InStep(r[i], i, lens[i])
  ELSE \A i \in DOMAIN r : r[i] = Untouched

LEMMA KasumiCheckedRight ==
  ASSUME NEW lens, NEW r,
         InRange(lens, KASUMI_MAX_BYTES) => \A i \in DOMAIN lens : InStep(r[i], i, lens[i])
  PROVE  KasumiRight(lens, KasumiChecked(lens, r))
BY DEF KasumiRight, KasumiChecked, InRange, Untouched

LEMMA KasumiOneRight ==
  ASSUME NEW lens \in Seq(Nat), Len(lens) = 1
  PROVE  /\ KasumiRight(lens, kasumi_f8_1_buffer_sse(lens))
         /\ KasumiRight(lens, kasumi_f8_1_buffer_avx(lens))
<1> DEFINE r == [i \in {1} |-> kasumi_f8_1_buffer(i, lens[i])]
<1>1. InRange(lens, KASUMI_MAX_BYTES) => \A i \in DOMAIN lens : InStep(r[i], i, lens[i])
  <2> SUFFICES ASSUME InRange(lens, KASUMI_MAX_BYTES), NEW i \in DOMAIN lens
               PROVE  InStep(r[i], i, lens[i])
    OBVIOUS
  <2>1. i = 1 /\ i \in Int /\ lens[i] \in Nat \ {0}
    BY RangeFacts
  <2> QED
    BY <2>1, OneKasumiInStep
<1>2. /\ kasumi_f8_1_buffer_sse(lens) = KasumiChecked(lens, r)
      /\ kasumi_f8_1_buffer_avx(lens) = KasumiChecked(lens, r)
  BY DEF kasumi_f8_1_buffer_sse, kasumi_f8_1_buffer_avx
<1> HIDE DEF r
<1> QED
  BY <1>1, <1>2, KasumiCheckedRight

LEMMA KasumiTwoRight ==
  ASSUME NEW lens \in Seq(Nat), Len(lens) = 2
  PROVE  /\ KasumiRight(lens, kasumi_f8_2_buffer_sse(lens))
         /\ KasumiRight(lens, kasumi_f8_2_buffer_avx(lens))
<1> DEFINE r == [i \in 1 .. 2 |-> kasumi_f8_2_buffer(lens, i)]
<1>1. InRange(lens, KASUMI_MAX_BYTES) => \A i \in DOMAIN lens : InStep(r[i], i, lens[i])
  <2> SUFFICES ASSUME InRange(lens, KASUMI_MAX_BYTES), NEW i \in DOMAIN lens
               PROVE  InStep(r[i], i, lens[i])
    OBVIOUS
  <2>1. i \in {1, 2} /\ 1 \in DOMAIN lens /\ 2 \in DOMAIN lens
    OBVIOUS
  <2>2. lens[1] \in Nat \ {0} /\ lens[2] \in Nat \ {0}
    BY <2>1, RangeFacts
  <2>3. InStep(kasumi_f8_2_buffer(lens, i), i, lens[i])
    BY <2>1, <2>2, TwoKasumiInStep
  <2>4. r[i] = kasumi_f8_2_buffer(lens, i)
    BY <2>1
  <2> QED
    BY <2>3, <2>4
<1>2. /\ kasumi_f8_2_buffer_sse(lens) = KasumiChecked(lens, r)
      /\ kasumi_f8_2_buffer_avx(lens) = KasumiChecked(lens, r)
  BY DEF kasumi_f8_2_buffer_sse, kasumi_f8_2_buffer_avx
<1> HIDE DEF r
<1> QED
  BY <1>1, <1>2, KasumiCheckedRight

\* 3 or 4 of one length
LEMMA KasumiEqualRight ==
  ASSUME NEW lens \in Seq(Nat), \A i \in DOMAIN lens : lens[i] = lens[1]
  PROVE  /\ Len(lens) = 3 => /\ KasumiRight(lens, kasumi_f8_3_buffer_sse(lens))
                             /\ KasumiRight(lens, kasumi_f8_3_buffer_avx(lens))
         /\ Len(lens) = 4 => /\ KasumiRight(lens, kasumi_f8_4_buffer_sse(lens))
                             /\ KasumiRight(lens, kasumi_f8_4_buffer_avx(lens))
<1> DEFINE r(n) == [i \in 1 .. n |-> kasumi_f8_1_buffer(i, lens[1])]
<1>1. ASSUME NEW n \in Nat, Len(lens) = n, InRange(lens, KASUMI_MAX_BYTES), NEW i \in DOMAIN lens
      PROVE  InStep(r(n)[i], i, lens[i])
  <2>1. i \in 1 .. n /\ i \in Int /\ lens[i] \in Nat \ {0} /\ lens[i] = lens[1]
    BY <1>1, RangeFacts
  <2>2. r(n)[i] = kasumi_f8_1_buffer(i, lens[i])
    BY <2>1
  <2> QED
    BY <2>1, <2>2, OneKasumiInStep
<1>2. /\ kasumi_f8_3_buffer_sse(lens) = KasumiChecked(lens, r(3))
      /\ kasumi_f8_3_buffer_avx(lens) = KasumiChecked(lens, r(3))
      /\ kasumi_f8_4_buffer_sse(lens) = KasumiChecked(lens, r(4))
      /\ kasumi_f8_4_buffer_avx(lens) = KasumiChecked(lens, r(4))
  BY DEF kasumi_f8_3_buffer_sse, kasumi_f8_3_buffer_avx, kasumi_f8_4_buffer_sse, kasumi_f8_4_buffer_avx,
         kasumi_f8_3_buffer, kasumi_f8_4_buffer
<1> HIDE DEF r
<1>3. ASSUME NEW n \in Nat, Len(lens) = n PROVE KasumiRight(lens, KasumiChecked(lens, r(n)))
  BY <1>1, <1>3, KasumiCheckedRight
<1> QED
  BY <1>2, <1>3

LEMMA KasumiNRight ==
  ASSUME NEW lens \in Seq(Nat)
  PROVE  /\ KasumiRight(lens, kasumi_f8_n_buffer_sse(lens))
         /\ KasumiRight(lens, kasumi_f8_n_buffer_avx(lens))
<1>1. InRange(lens, KASUMI_MAX_BYTES) => \A i \in DOMAIN lens : InStep(F8Batches(lens)[i], i, lens[i])
  <2> SUFFICES ASSUME InRange(lens, KASUMI_MAX_BYTES), NEW i \in DOMAIN lens
               PROVE  InStep(F8Batches(lens)[i], i, lens[i])
    OBVIOUS
  <2>1. DOMAIN lens = 1 .. Len(lens)
    OBVIOUS
  <2>2. \A j \in 1 .. Len(lens) : lens[j] # 0
    BY <2>1, RangeFacts
  <2> QED
    BY <2>1, <2>2, BatchesInStep
<1> QED
  BY <1>1, KasumiCheckedRight DEF kasumi_f8_n_buffer_sse, kasumi_f8_n_buffer_avx

---------------------------------------------------------------------------
(* The calls of the direct API *)

\* What a function promises of its buffers
Promised(fn, lens, r) ==
  /\ fn = "eea3" => Eea3Right(lens, r)
  /\ fn = "eia3" => Eia3Right(lens, r)
  /\ fn = "eia3_avx512" => (InRange(lens, ZUC_MAX_BITLEN) /\ EndsInAShortRound(lens)) \/ Eia3Right(lens, r)
  /\ fn = "eia3_job" => Eia3JobRight(lens, r)
  /\ fn \in {"snow3g_bit", "kasumi_bit"} => BitsRight(fn, lens[1], lens[2], r)
  /\ fn \in {"snow3g_f9", "kasumi_f9", "kasumi_f9_user"} => F9Right(fn, lens, r)
  /\ fn \in {"snow3g", "snow3g_n"} => Snow3gRight(lens, r)
  /\ fn = "kasumi" => KasumiRight(lens, r)

\* The call made keeps its promise.
Keeps == Promised(call'.fn, call'.lens, out')

LEMMA MadeKeeps ==
  ASSUME NEW fn, NEW lens, NEW r, Promised(fn, lens, r), Made(fn, lens, r)
  PROVE  Keeps
BY DEF Made, Keeps

\* The calls of one kind
LEMMA KindsKeep ==
  ASSUME NEW lens, NEW r
  PROVE  /\ Eea3Right(lens, r) => Promised("eea3", lens, r)
         /\ Eia3Right(lens, r) => Promised("eia3", lens, r)
         /\ (InRange(lens, ZUC_MAX_BITLEN) /\ EndsInAShortRound(lens)) \/ Eia3Right(lens, r)
              => Promised("eia3_avx512", lens, r)
         /\ Eia3JobRight(lens, r) => Promised("eia3_job", lens, r)
         /\ \A fn \in {"snow3g_bit", "kasumi_bit"} :
              BitsRight(fn, lens[1], lens[2], r) => Promised(fn, lens, r)
         /\ \A fn \in {"snow3g_f9", "kasumi_f9", "kasumi_f9_user"} :
              F9Right(fn, lens, r) => Promised(fn, lens, r)
         /\ \A fn \in {"snow3g", "snow3g_n"} : Snow3gRight(lens, r) => Promised(fn, lens, r)
         /\ KasumiRight(lens, r) => Promised("kasumi", lens, r)
         /\ Promised("none", lens, r)
BY DEF Promised

\* The lengths of a batch are unsigned.
LEMMA BatchFacts ==
  /\ \A n : Of(EEA3Batches, n) \subseteq {b \in Seq(Nat) : Len(b) = n}
  /\ \A n : Of(EIA3Batches, n) \subseteq {b \in Seq(Nat) : Len(b) = n}
  /\ \A n : Of(Snow3gBatches, n) \subseteq {b \in Seq(Nat) : Len(b) = n}
  /\ \A n : Of(KasumiBatches, n) \subseteq {b \in Seq(Nat) : Len(b) = n}
BY BatchesAssumption DEF Of

LEMMA Eea3CallsKeep ==
  ASSUME CallEea3One \/ CallEea3Four \/ CallEea3N
  PROVE  Keeps
<1>1. \A lens, r : Eea3Right(lens, r) /\ Made("eea3", lens, r) => Keeps
  BY KindsKeep, MadeKeeps
<1>2. CASE CallEea3One
  <2>1. PICK lens \in Of(EEA3Batches, 1) :
    \/ Made("eea3", lens, zuc_eea3_1_buffer_no_aesni(lens))
    \/ Made("eea3", lens, zuc_eea3_1_buffer_sse(lens))
    \/ Made("eea3", lens, zuc_eea3_1_buffer_avx(lens))
    \/ Made("eea3", lens, zuc_eea3_1_buffer_avx2(lens))
    \/ Made("eea3", lens, zuc_eea3_1_buffer_avx512(lens))
    BY <1>2 DEF CallEea3One
  <2>2. lens \in Seq(Nat) /\ Len(lens) = 1
    BY BatchFacts
  <2> QED
    BY <1>1, <2>1, <2>2, Eea3OneRight
<1>3. CASE CallEea3Four
  <2>1. PICK lens \in Of(EEA3Batches, 4) :
    \/ Made("eea3", lens, zuc_eea3_4_buffer_no_aesni(lens))
    \/ Made("eea3", lens, zuc_eea3_4_buffer_sse(lens))
    \/ Made("eea3", lens, zuc_eea3_4_buffer_avx(lens))
    BY <1>3 DEF CallEea3Four
  <2>2. lens \in Seq(Nat) /\ Len(lens) = 4
    BY BatchFacts
  <2> QED
    BY <1>1, <2>1, <2>2, Eea3FourRight
<1>4. CASE CallEea3N
  <2>1. PICK lens \in EEA3Batches :
    \/ Made("eea3", lens, zuc_eea3_n_buffer_no_aesni(lens))
    \/ Made("eea3", lens, zuc_eea3_n_buffer_sse(lens))
    \/ Made("eea3", lens, zuc_eea3_n_buffer_avx(lens))
    \/ Made("eea3", lens, zuc_eea3_n_buffer_avx2(lens))
    \/ Made("eea3", lens, zuc_eea3_n_buffer_avx512(lens))
    BY <1>4 DEF CallEea3N
  <2>2. lens \in Seq(Nat)
    BY BatchesAssumption
  <2> QED
    BY <1>1, <2>1, <2>2, Eea3NNoAesniRight, Eea3NSseRight, Eea3NAvxRight, Eea3NAvx2Right, Eea3NAvx512Right
<1> QED
  BY <1>2, <1>3, <1>4

LEMMA Eia3CallsKeep ==
  ASSUME CallEia3One \/ CallEia3N
  PROVE  Keeps
<1>1. \A lens, r : Eia3Right(lens, r) /\ Made("eia3", lens, r) => Keeps
  BY KindsKeep, MadeKeeps
<1>2. CASE CallEia3One
  <2>1. PICK lens \in Of(EIA3Batches, 1) :
    \/ Made("eia3", lens, zuc_eia3_1_buffer_no_aesni(lens))
    \/ Made("eia3", lens, zuc_eia3_1_buffer_sse(lens))
    \/ Made("eia3", lens, zuc_eia3_1_buffer_avx(lens))
    \/ Made("eia3", lens, zuc_eia3_1_buffer_avx2(lens))
    \/ Made("eia3", lens, zuc_eia3_1_buffer_avx512(lens))
    BY <1>2 DEF CallEia3One
  <2>2. lens \in Seq(Nat) /\ Len(lens) = 1
    BY BatchFacts
  <2> QED
    BY <1>1, <2>1, <2>2, Eia3OneRight
<1>3. CASE CallEia3N
  <2>1. PICK lens \in EIA3Batches :
    \/ Made("eia3", lens, zuc_eia3_n_buffer_no_aesni(lens))
    \/ Made("eia3", lens, zuc_eia3_n_buffer_sse(lens))
    \/ Made("eia3", lens, zuc_eia3_n_buffer_avx(lens))
    \/ Made("eia3", lens, zuc_eia3_n_buffer_avx2(lens))
    \/ Made("eia3_avx512", lens, zuc_eia3_n_buffer_avx512(lens))
    BY <1>3 DEF CallEia3N
  <2>2. lens \in Seq(Nat)
    BY BatchesAssumption
  <2>3. CASE Made("eia3_avx512", lens, zuc_eia3_n_buffer_avx512(lens))
    <3>1. Promised("eia3_avx512", lens, zuc_eia3_n_buffer_avx512(lens))
      BY <2>2, Eia3NAvx512Right, KindsKeep
    <3> QED
      BY <2>3, <3>1, MadeKeeps
  <2> QED
    BY <1>1, <2>1, <2>2, <2>3, Eia3NNoAesniRight, Eia3NSseRight, Eia3NAvxRight, Eia3NAvx2Right
<1> QED
  BY <1>2, <1>3

LEMMA Eia3JobsKeep ==
  ASSUME CallEia3Job
  PROVE  Keeps
<1>1. \A lens, r : Eia3JobRight(lens, r) /\ Made("eia3_job", lens, r) => Keeps
  BY KindsKeep, MadeKeeps
<1> DEFINE l(n, lens, busy) == [i \in 1 .. n |-> IF i \in busy THEN lens[i] ELSE lens[Min(busy)]]
<1>2. ASSUME NEW n \in Nat, NEW lens, \A i \in 1 .. n : lens[i] \in ZUC_MIN_BITLEN .. ZUC_MAX_BITLEN,
             NEW busy \in SUBSET (1 .. n), busy # {}
      PROVE  \A i \in 1 .. n : l(n, lens, busy)[i] \in Nat \ {0}
  <2>1. Min(busy) \in 1 .. n
    <3>1. busy \in SUBSET Nat
      BY <1>2
    <3> QED
      BY <1>2, <3>1, LeastIsMin
  <2>2. \A i \in 1 .. n : lens[i] \in Nat \ {0}
    BY <1>2 DEF ZUC_MIN_BITLEN
  <2> QED
    BY <2>1, <2>2
<1>3. CASE \E lens \in Of(EIA3Batches, 4), busy \in SUBSET (1 .. 4) :
       /\ busy # {}
       /\ \A i \in 1 .. 4 : lens[i] \in ZUC_MIN_BITLEN .. ZUC_MAX_BITLEN
       /\ \/ Made("eia3_job", <<l(4, lens, busy), busy>>, zuc_eia3_4_buffer_job_no_aesni(l(4, lens, busy), busy))
          \/ Made("eia3_job", <<l(4, lens, busy), busy>>, zuc_eia3_4_buffer_job_sse(l(4, lens, busy), busy))
          \/ Made("eia3_job", <<l(4, lens, busy), busy>>, zuc_eia3_4_buffer_job_avx(l(4, lens, busy), busy))
  <2>1. PICK lens \in Of(EIA3Batches, 4), busy \in SUBSET (1 .. 4) :
       /\ busy # {}
       /\ \A i \in 1 .. 4 : lens[i] \in ZUC_MIN_BITLEN .. ZUC_MAX_BITLEN
       /\ \/ Made("eia3_job", <<l(4, lens, busy), busy>>, zuc_eia3_4_buffer_job_no_aesni(l(4, lens, busy), busy))
          \/ Made("eia3_job", <<l(4, lens, busy), busy>>, zuc_eia3_4_buffer_job_sse(l(4, lens, busy), busy))
          \/ Made("eia3_job", <<l(4, lens, busy), busy>>, zuc_eia3_4_buffer_job_avx(l(4, lens, busy), busy))
    BY <1>3
  <2>2. \A i \in 1 .. 4 : l(4, lens, busy)[i] \in Nat \ {0}
    BY <1>2, <2>1
  <2> HIDE DEF l
  <2> QED
    BY <1>1, <2>1, <2>2, Eia3JobsRight
<1>4. CASE \E lens \in Of(EIA3Batches, 8), busy \in {1 .. 8, {2}, {3, 8}} :
       /\ \A i \in 1 .. 8 : lens[i] \in ZUC_MIN_BITLEN .. ZUC_MAX_BITLEN
       /\ Made("eia3_job", <<l(8, lens, busy), busy>>, zuc_eia3_8_buffer_job_avx2(l(8, lens, busy), busy))
  <2>1. PICK lens \in Of(EIA3Batches, 8), busy \in {1 .. 8, {2}, {3, 8}} :
       /\ \A i \in 1 .. 8 : lens[i] \in ZUC_MIN_BITLEN .. ZUC_MAX_BITLEN
       /\ Made("eia3_job", <<l(8, lens, busy), busy>>, zuc_eia3_8_buffer_job_avx2(l(8, lens, busy), busy))
    BY <1>4
  <2>2. busy \in SUBSET (1 .. 8) /\ busy # {}
    OBVIOUS
  <2>3. \A i \in 1 .. 8 : l(8, lens, busy)[i] \in Nat \ {0}
    BY <1>2, <2>1, <2>2
  <2> HIDE DEF l
  <2> QED
    BY <1>1, <2>1, <2>3, Eia3JobsRight
<1> QED
  BY <1>3, <1>4 DEF CallEia3Job

LEMMA BitsCallsKeep ==
  ASSUME CallBits
  PROVE  Keeps
<1>1. PICK len \in BitLens, offset \in BitOffsets :
    \/ Made("snow3g_bit", <<len, offset>>, SNOW3G_F8_1_BUFFER_BIT(len, offset))
    \/ Made("kasumi_bit", <<len, offset>>, kasumi_f8_1_buffer_bit_sse(len, offset))
    \/ Made("kasumi_bit", <<len, offset>>, kasumi_f8_1_buffer_bit_avx(len, offset))
  BY DEF CallBits
<1>2. len \in Nat /\ offset \in Nat /\ <<len, offset>>[1] = len /\ <<len, offset>>[2] = offset
  BY BatchesAssumption
<1>3. ASSUME NEW fn \in {"snow3g_bit", "kasumi_bit"}, NEW r, BitsRight(fn, len, offset, r),
             Made(fn, <<len, offset>>, r)
      PROVE  Keeps
  <2>1. Promised(fn, <<len, offset>>, r)
    BY <1>2, <1>3, KindsKeep
  <2> QED
    BY <1>3, <2>1, MadeKeeps
<1> QED
  BY <1>1, <1>2, <1>3, BitsFunctionsRight

LEMMA F9CallsKeep ==
  ASSUME CallF9
  PROVE  Keeps
<1>1. ASSUME NEW fn \in {"snow3g_f9", "kasumi_f9", "kasumi_f9_user"}, NEW len, NEW r, F9Right(fn, len, r),
             Made(fn, len, r)
      PROVE  Keeps
  <2>1. Promised(fn, len, r)
    BY <1>1, KindsKeep
  <2> QED
    BY <1>1, <2>1, MadeKeeps
<1>2. F9Lens \subseteq Nat /\ BitLens \subseteq Nat
  BY BatchesAssumption
<1> QED
  BY <1>1, <1>2, Snow3gF9Right, KasumiF9Right, KasumiF9UserRight DEF CallF9

LEMMA Snow3gCallsKeep ==
  ASSUME CallSnow3g
  PROVE  Keeps
<1>1. \A fn \in {"snow3g", "snow3g_n"} : \A lens, r : Snow3gRight(lens, r) /\ Made(fn, lens, r) => Keeps
  BY KindsKeep, MadeKeeps
<1>2. ASSUME NEW lens \in Of(Snow3gBatches, 1), Made("snow3g", lens, SNOW3G_F8_1_BUFFER(lens))
      PROVE  Keeps
  <2>1. lens \in Seq(Nat) /\ Len(lens) = 1
    BY BatchFacts
  <2>2. Snow3gRight(lens, SNOW3G_F8_1_BUFFER(lens))
    BY <2>1, Snow3gFixedRight
  <2> QED
    BY <1>1, <1>2, <2>2
<1>3. ASSUME NEW lens \in Of(Snow3gBatches, 2), Made("snow3g", lens, SNOW3G_F8_2_BUFFER(lens))
      PROVE  Keeps
  <2>1. lens \in Seq(Nat) /\ Len(lens) = 2
    BY BatchFacts
  <2>2. Snow3gRight(lens, SNOW3G_F8_2_BUFFER(lens))
    BY <2>1, Snow3gFixedRight
  <2> QED
    BY <1>1, <1>3, <2>2
<1>4. ASSUME NEW lens \in Of(Snow3gBatches, 4), Made("snow3g", lens, SNOW3G_F8_4_BUFFER(lens))
      PROVE  Keeps
  <2>1. lens \in Seq(Nat) /\ Len(lens) = 4
    BY BatchFacts
  <2>2. Snow3gRight(lens, SNOW3G_F8_4_BUFFER(lens))
    BY <2>1, Snow3gFixedRight
  <2> QED
    BY <1>1, <1>4, <2>2
<1>5. ASSUME NEW avx2 \in BOOLEAN, NEW lens \in Of(Snow3gBatches, 8),
             \/ Made("snow3g", lens, SNOW3G_F8_8_BUFFER(avx2, lens))
             \/ Made("snow3g", lens, SNOW3G_F8_8_BUFFER_MULTIKEY(avx2, lens))
      PROVE  Keeps
  <2>1. lens \in Seq(Nat) /\ Len(lens) = 8
    BY BatchFacts
  <2>2. /\ Snow3gRight(lens, SNOW3G_F8_8_BUFFER(avx2, lens))
        /\ Snow3gRight(lens, SNOW3G_F8_8_BUFFER_MULTIKEY(avx2, lens))
    BY <2>1, Snow3gFixedRight
  <2> QED
    BY <1>1, <1>5, <2>2
<1>6. ASSUME NEW avx2 \in BOOLEAN, NEW lens \in Snow3gBatches,
             \/ Made("snow3g_n", lens, SNOW3G_F8_N_BUFFER(avx2, lens))
             \/ Made("snow3g_n", lens, SNOW3G_F8_N_BUFFER_MULTIKEY(avx2, lens))
      PROVE  Keeps
  <2>1. lens \in Seq(Nat)
    BY BatchesAssumption
  <2>2. /\ Snow3gRight(lens, SNOW3G_F8_N_BUFFER(avx2, lens))
        /\ Snow3gRight(lens, SNOW3G_F8_N_BUFFER_MULTIKEY(avx2, lens))
    BY <2>1, Snow3gNRight, Snow3gKeysRight
  <2> QED
    BY <1>1, <1>6, <2>2
<1> QED
  BY <1>2, <1>3, <1>4, <1>5, <1>6 DEF CallSnow3g

LEMMA KasumiCallsKeep ==
  ASSUME CallKasumi
  PROVE  Keeps
<1>1. \A lens, r : KasumiRight(lens, r) /\ Made("kasumi", lens, r) => Keeps
  BY KindsKeep, MadeKeeps
<1>2. ASSUME NEW n \in Nat, NEW lens \in OfOneLength(KasumiBatches, n)
      PROVE  lens \in Seq(Nat) /\ Len(lens) = n /\ \A i \in DOMAIN lens : lens[i] = lens[1]
  BY BatchFacts DEF OfOneLength
<1>3. ASSUME NEW lens \in Of(KasumiBatches, 1),
             \/ Made("kasumi", lens, kasumi_f8_1_buffer_sse(lens))
             \/ Made("kasumi", lens, kasumi_f8_1_buffer_avx(lens))
      PROVE  Keeps
  <2>1. lens \in Seq(Nat) /\ Len(lens) = 1
    BY BatchFacts
  <2> QED
    BY <1>1, <1>3, <2>1, KasumiOneRight
<1>4. ASSUME NEW lens \in Of(KasumiBatches, 2),
             \/ Made("kasumi", lens, kasumi_f8_2_buffer_sse(lens))
             \/ Made("kasumi", lens, kasumi_f8_2_buffer_avx(lens))
      PROVE  Keeps
  <2>1. lens \in Seq(Nat) /\ Len(lens) = 2
    BY BatchFacts
  <2> QED
    BY <1>1, <1>4, <2>1, KasumiTwoRight
<1>5. ASSUME NEW lens \in OfOneLength(KasumiBatches, 3),
             \/ Made("kasumi", lens, kasumi_f8_3_buffer_sse(lens))
             \/ Made("kasumi", lens, kasumi_f8_3_buffer_avx(lens))
      PROVE  Keeps
  <2>1. lens \in Seq(Nat) /\ Len(lens) = 3 /\ \A i \in DOMAIN lens : lens[i] = lens[1]
    BY <1>2
  <2>2. /\ KasumiRight(lens, kasumi_f8_3_buffer_sse(lens))
        /\ KasumiRight(lens, kasumi_f8_3_buffer_avx(lens))
    BY <2>1, KasumiEqualRight
  <2> QED
    BY <1>1, <1>5, <2>2
<1>6. ASSUME NEW lens \in OfOneLength(KasumiBatches, 4),
             \/ Made("kasumi", lens, kasumi_f8_4_buffer_sse(lens))
             \/ Made("kasumi", lens, kasumi_f8_4_buffer_avx(lens))
      PROVE  Keeps
  <2>1. lens \in Seq(Nat) /\ Len(lens) = 4 /\ \A i \in DOMAIN lens : lens[i] = lens[1]
    BY <1>2
  <2>2. /\ KasumiRight(lens, kasumi_f8_4_buffer_sse(lens))
        /\ KasumiRight(lens, kasumi_f8_4_buffer_avx(lens))
    BY <2>1, KasumiEqualRight
  <2> QED
    BY <1>1, <1>6, <2>2
<1>7. ASSUME NEW lens \in KasumiBatches,
             \/ Made("kasumi", lens, kasumi_f8_n_buffer_sse(lens))
             \/ Made("kasumi", lens, kasumi_f8_n_buffer_avx(lens))
      PROVE  Keeps
  <2>1. lens \in Seq(Nat)
    BY BatchesAssumption
  <2> QED
    BY <1>1, <1>7, <2>1, KasumiNRight
<1> QED
  BY <1>3, <1>4, <1>5, <1>6, <1>7 DEF CallKasumi

\* The call made last kept its promise.
CallKept == Promised(call.fn, call.lens, out)

LEMMA CallAlwaysKept == Spec => []CallKept
<1>1. Init => CallKept
  BY KindsKeep DEF Init, NoCall, CallKept
<1>2. CallKept /\ [Next]_vars => CallKept'
  <2> SUFFICES ASSUME CallKept, [Next]_vars PROVE CallKept'
    OBVIOUS
  <2>1. Keeps => CallKept'
    BY DEF Keeps, CallKept
  <2>2. CASE DirectCall
    <3>1. Keeps
      BY <2>2, Eea3CallsKeep, Eia3CallsKeep, Eia3JobsKeep, BitsCallsKeep, F9CallsKeep,
         Snow3gCallsKeep, KasumiCallsKeep
      DEF DirectCall
    <3> QED
      BY <2>1, <3>1
  <2>3. CASE Return
    BY <2>3, KindsKeep DEF Return, NoCall, CallKept
  <2>4. CASE UNCHANGED <<call, out>>
    BY <2>4 DEF CallKept
  <2> QED
    BY <2>2, <2>3, <2>4 DEF Next, vars
<1> QED
  BY <1>1, <1>2, PTL DEF Spec

\* EEA3 gives each byte of each buffer its byte of keystream, for all lengths and
\* any number of buffers (Eea3InStep).
THEOREM Eea3AlwaysInStep == Spec => []Eea3InStep
<1>1. CallKept => Eea3InStep
  BY DEF CallKept, Promised, Eea3InStep, Eea3Right, AllInStep, AllUntouched
<1> QED
  BY <1>1, CallAlwaysKept, PTL

\* EIA3 makes the MAC of each message with the words of keystream that are due,
\* except for the calls of AVX512 that end in a short round (Eia3Holds).
THEOREM Eia3AlwaysHolds == Spec => []Eia3Holds
<1>1. CallKept => Eia3Holds
  BY DEF CallKept, Promised, Eia3Holds, Eia3Right, Eia3JobRight, RightMacs
<1> QED
  BY <1>1, CallAlwaysKept, PTL

\* Any number of bits from any bit on is ciphered and the bits around it are kept
\* (BitsExact).
THEOREM BitsAlwaysExact == Spec => []BitsExact
<1>1. CallKept => BitsExact
  BY DEF CallKept, Promised, BitsExact, BitsRight, ExactBits
<1> QED
  BY <1>1, CallAlwaysKept, PTL

\* F9 takes each word, or bit, of a message up to the limit of its algorithm,
\* SNOW3G_MAX_BITLEN whatever it is, and refuses the others (F9TakesMessage).
THEOREM F9AlwaysTakesMessage == Spec => []F9TakesMessage
<1>1. CallKept => F9TakesMessage
  BY DEF CallKept, Promised, F9TakesMessage, F9Right
<1> QED
  BY <1>1, CallAlwaysKept, PTL

\* SNOW3G gives each byte of each buffer its byte of keystream, and turns away
\* whole the calls it does not take (Snow3gInStep).
THEOREM Snow3gAlwaysInStep == Spec => []Snow3gInStep
<1>1. CallKept => Snow3gInStep
  BY DEF CallKept, Promised, Snow3gInStep, Snow3gRight, AllInStep, AllUntouched
<1> QED
  BY <1>1, CallAlwaysKept, PTL

\* KASUMI does the same, although packets of a call share the number of the block
\* and leave the round one by one (KasumiInStep).
THEOREM KasumiAlwaysInStep == Spec => []KasumiInStep
<1>1. CallKept => KasumiInStep
  BY DEF CallKept, Promised, KasumiInStep, KasumiRight, AllInStep, AllUntouched
<1> QED
  BY <1>1, CallAlwaysKept, PTL

---------------------------------------------------------------------------
(* The managers of ZUC in the whole *)

Fns == {"none", "eea3", "eia3", "eia3_avx512", "eia3_job", "snow3g", "snow3g_n",
        "snow3g_bit", "snow3g_f9", "kasumi", "kasumi_bit", "kasumi_f9", "kasumi_f9_user"}

\* A call leaves its name.
LEMMA CallFn ==
  ASSUME DirectCall
  PROVE  call'.fn \in Fns
<1>1. \A f, lens, result : Made(f, lens, result) => call'.fn = f
  BY DEF Made
<1>2. CASE CallEea3One
  BY <1>1, <1>2 DEF CallEea3One, Fns
<1>3. CASE CallEea3Four
  BY <1>1, <1>3 DEF CallEea3Four, Fns
<1>4. CASE CallEea3N
  BY <1>1, <1>4 DEF CallEea3N, Fns
<1>5. CASE CallEia3One
  BY <1>1, <1>5 DEF CallEia3One, Fns
<1>6. CASE CallEia3N
  BY <1>1, <1>6 DEF CallEia3N, Fns
<1>7. CASE CallEia3Job
  BY <1>1, <1>7 DEF CallEia3Job, Fns
<1>8. CASE CallSnow3g
  BY <1>1, <1>8 DEF CallSnow3g, Fns
<1>9. CASE CallKasumi
  BY <1>1, <1>9 DEF CallKasumi, Fns
<1>10. CASE CallBits
  BY <1>1, <1>10 DEF CallBits, Fns
<1>11. CASE CallF9
  BY <1>1, <1>11 DEF CallF9, Fns
<1> QED
  BY <1>2, <1>3, <1>4, <1>5, <1>6, <1>7, <1>8, <1>9, <1>10, <1>11 DEF DirectCall

\* A step of the whole is a call of a manager or leaves the managers alone.
LEMMA StepKeeps ==
  ASSUME LanesInv, KernelStaysInBuffers, Short(alg) => ReturnedJobIsWhole, call.fn \in Fns,
         [Next]_vars
  PROVE  /\ Kept /\ call'.fn \in Fns
         /\ Ooo!Next \/ UNCHANGED Ooo!oooVars
<1>1. UNCHANGED lanesVars => Kept /\ UNCHANGED Ooo!oooVars
  BY OtherStep DEF lanesVars, Ooo!oooVars
<1>2. CASE DirectCall
  <2>1. UNCHANGED lanesVars
    BY <1>2 DEF DirectCall
  <2> QED
    BY <1>1, <1>2, <2>1, CallFn
<1>3. CASE Return
  BY <1>1, <1>3 DEF Return, NoCall, Fns
<1>4. CASE Ready /\ LaneNext /\ UNCHANGED <<call, out>>
  BY <1>4, LaneStep
<1>5. CASE UNCHANGED vars
  BY <1>1, <1>5 DEF vars
<1> QED
  BY <1>2, <1>3, <1>4, <1>5 DEF Next

Inv ==
  /\ LanesInv
  /\ KernelStaysInBuffers
  /\ Short(alg) => ReturnedJobIsWhole
  /\ call.fn \in Fns

LEMMA AllHold == Spec => []Inv
<1>1. Init => Inv
  BY InitHolds DEF Init, NoCall, Fns, Inv
<1>2. Inv /\ [Next]_vars => Inv'
  BY StepKeeps DEF Inv, Kept
<1> QED
  BY <1>1, <1>2, PTL DEF Spec

\* The lanes of ZUC keep their books, for all lengths and any number of lanes: each
\* job is in one lane, what is done and what is left make it up, and a lane that
\* goes on has the state, and the kept words of keystream, that are due there
\* (LanesInv, the inductive invariant).
THEOREM LanesInvAlways == Spec => []LanesInv
<1>1. Inv => LanesInv
  BY DEF Inv
<1> QED
  BY <1>1, AllHold, PTL

\* The managers keep their types, a length never leaves its 16 bits, and the kernel
\* keeps to the buffers of the jobs at hand (LanesAreSound).
THEOREM LanesAlwaysSound == Spec => []LanesAreSound
<1>1. Inv => LanesAreSound
  <2> SUFFICES ASSUME Inv PROVE LanesAreSound
    OBVIOUS
  <2>1. ooo \in Mgr /\ work \in Works /\ msg_len \in [Jobs -> EEA3Lens \cup EIA3Lens \cup {0}]
    BY DEF Inv, LanesInv, Sound
  <2>2. LanesTypeOK
    BY <2>1 DEF Inv, LanesInv, LanesTypeOK, Mgr, Works
  <2>3. TypeOK
    BY <2>2 DEF Inv, TypeOK, Fns
  <2> QED
    BY <2>3 DEF Inv, LanesAreSound
<1> QED
  BY <1>1, AllHold, PTL

\* A job of ZUC comes back when each byte or bit of it is done once, with its own
\* keystream (ReturnedJobIsWhole), from the manager of EEA3 always, and from that of
\* EIA3 if no message has 2^15 bits.
THEOREM JobsComeBackWhole ==
  Spec => [](alg = "EEA3" \/ (\A n \in EIA3Lens : n < 32768) => ReturnedJobIsWhole)
<1>1. Inv => (alg = "EEA3" \/ (\A n \in EIA3Lens : n < 32768) => ReturnedJobIsWhole)
  BY DEF Inv, Short
<1> QED
  BY <1>1, AllHold, PTL

\* The managers of ZUC do what the scheduler relies on (ImplementsOooMgr), also for
\* the long messages that they authenticate with wrong keystream.
THEOREM LanesRefineOoo == Spec => ImplementsOooMgr
<1>1. Init => Ooo!Init
  BY InitHolds DEF Init
<1>2. Inv /\ [Next]_vars => [Ooo!Next]_(Ooo!oooVars)
  BY StepKeeps DEF Inv
<1> QED
  BY <1>1, <1>2, AllHold, PTL DEF Spec, ImplementsOooMgr, Ooo!Spec

=============================================================================
