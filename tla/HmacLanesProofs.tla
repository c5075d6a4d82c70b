-------------------------- MODULE HmacLanesProofs --------------------------
(***************************************************************************)
(* The OOO manager of HMAC-SHA1 gives each job the tag of its own message, *)
(* for any number of lanes, any jobs and lengths, and implements what the  *)
(* scheduler relies on (OooMgr).                                           *)
(***************************************************************************)
EXTENDS HmacLanes, LaneLemmas

---------------------------------------------------------------------------
(* The invariant *)

Piece == [buf : Buffers, from : Nat, to : Nat]

\* A digest P after the first o blocks of buffer b
Done(P, b, o) == IF o = 0 THEN P ELSE Append(P, [buf |-> b, from |-> 0, to |-> o])

\* What is hashed of a message before its extra blocks
Body(j, n) == IF n < BLOCK THEN <<>> ELSE <<[buf |-> Msg(j), from |-> 0, to |-> n \div BLOCK]>>

\* The three passes of a job of length n through lane l, with d, p, k and g what
\* ldata, data_ptr, lens and digest have of the lane.
MsgPass(l, d, p, k, g, n) ==
  /\ n >= BLOCK /\ p.buf = Msg(d.job_in_lane) /\ p.off + k = n \div BLOCK
  /\ d.extra_blocks = ExtraBlocks(n) /\ ~d.outer_done
  /\ g = Done(<<>>, p.buf, p.off)

ExtraPass(l, d, p, k, g, n) ==
  /\ p.buf = Extra(l) /\ p.off + k = ExtraBlocks(n)
  /\ d.extra_blocks = 0 /\ ~d.outer_done
  /\ g = Done(Body(d.job_in_lane, n), p.buf, p.off)

OuterPass(l, d, p, k, g, n) ==
  /\ p.buf = Outer(l) /\ p.off + k = 1
  /\ d.extra_blocks = 0 /\ d.outer_done
  /\ d.inner = Done(Body(d.job_in_lane, n), Extra(l), ExtraBlocks(n))
  /\ g = Done(<<>>, p.buf, p.off)

InPass(l, d, p, k, g, n) ==
  \/ MsgPass(l, d, p, k, g, n)
  \/ ExtraPass(l, d, p, k, g, n)
  \/ OuterPass(l, d, p, k, g, n)

\* What a lane has left and what its digest is of belong to one of the passes.
LanesInPass ==
  \A l \in Lanes : Busy(l) =>
    /\ msg_len[JobInLane(l)] \in MsgLens
    /\ ldata[l].size_offset = SizeOffset(msg_len[JobInLane(l)])
    /\ InPass(l, ldata[l], data_ptr[l], lens[l], digest[l], msg_len[JobInLane(l)])

\* A submit loops with all lanes busy, a flush from a busy lane on; the job of a
\* submit that has to finish one was in no other lane.
CallShape ==
  /\ call.op # "none" => Busy(call.idx) /\ Busy(call.lane)
  /\ call.op = "submit" =>
       /\ \A l \in Lanes : Busy(l)
       /\ \A l \in Lanes \ {call.lane} : JobInLane(l) # JobInLane(call.lane)

IInv ==
  /\ TypeOK /\ digest \in [Lanes -> Seq(Piece)]
  /\ StackIsFreeLanes
  /\ PaddingIsClean
  /\ LanesInPass
  /\ CallShape

---------------------------------------------------------------------------
(* Numbers, digests and buffers *)

LEMMA LaneFacts ==
  NumLanes \in Nat /\ NumLanes >= 1 /\ Lanes = 0 .. NumLanes - 1 /\ 0 \in Lanes
<1>1. NumLanes \in Nat /\ NumLanes >= 1 /\ Lanes = 0 .. NumLanes - 1
  BY LanesAssumption DEF Lanes
<1> QED
  BY <1>1

\* The rest of a message, its padding and its length fit one extra block or two.
LEMMA LengthFacts ==
  ASSUME NEW n \in MsgLens
  PROVE  /\ n \in Nat /\ n \div BLOCK \in 0 .. 1023 /\ (n >= BLOCK => n \div BLOCK >= 1)
         /\ ExtraBlocks(n) \in 1 .. 2
         /\ SizeOffset(n) \in 0 .. EXTRA_BLOCK_SIZE
         /\ SizeOffset(n) + 8 <= EXTRA_BLOCK_SIZE /\ SizeOffset(n) > BLOCK
<1>1. n \in Nat /\ n >= 1 /\ n <= 65534
  <2>1. n \in 1 .. MB_MAX_LEN16
    BY LanesAssumption
  <2>2. MB_MAX_LEN16 = 65534
    BY DEF MB_MAX_LEN16
  <2> QED
    BY <2>1, <2>2
<1> DEFINE q == n \div 64
           r == n % 64
<1>2. q \in Nat /\ q <= 1023 /\ r \in Nat /\ r <= 63 /\ n = 64 * q + r
  <2>1. q \in Nat /\ r \in Nat /\ r <= 63 /\ n = 64 * q + r
    BY <1>1
  <2> HIDE DEF q, r
  <2> QED
    BY <1>1, <2>1
<1>3. n >= 64 => q >= 1
  BY <1>2
<1>4. (r <= 55 => (r + 9 + 63) \div 64 = 1) /\ (r >= 56 => (r + 9 + 63) \div 64 = 2)
  <2> HIDE DEF q, r
  <2> QED
    BY <1>2
<1>5. ExtraBlocks(n) = IF r <= 55 THEN 1 ELSE 2
  BY <1>2, <1>4 DEF ExtraBlocks, BLOCK
<1>6. SizeOffset(n) = ExtraBlocks(n) * 64 - r + 64 - 8
  BY DEF SizeOffset, BLOCK
<1> HIDE DEF q, r
<1>7. SizeOffset(n) \in 65 .. 128
  BY <1>2, <1>5, <1>6
<1> QED
  BY <1>1, <1>2, <1>3, <1>5, <1>7 DEF BLOCK, EXTRA_BLOCK_SIZE, q

LEMMA DoneIsDigest ==
  ASSUME NEW P \in Seq(Piece), NEW b \in Buffers, NEW o \in Nat
  PROVE  Done(P, b, o) \in Seq(Piece)
<1>1. o # 0 => [buf |-> b, from |-> 0, to |-> o] \in Piece
  BY DEF Piece
<1> QED
  BY <1>1 DEF Done

\* Hashing goes on in the buffer it is in, or begins another.
LEMMA HashingGoesOn ==
  ASSUME NEW P \in Seq(Piece), NEW b \in Buffers, NEW o \in Nat, NEW n \in Nat, n # 0,
         P = <<>> \/ P[Len(P)].buf # b
  PROVE  Hashed(Done(P, b, o), [buf |-> b, off |-> o], n) = Done(P, b, o + n)
<1>1. CASE o = 0
  <2>1. Done(P, b, o) = P /\ Done(P, b, o + n) = Append(P, [buf |-> b, from |-> 0, to |-> n])
    BY <1>1 DEF Done
  <2>2. ~(P # <<>> /\ Last(P).buf = b /\ Last(P).to = 0)
    BY DEF Last
  <2> QED
    BY <1>1, <2>1, <2>2 DEF Hashed
<1>2. CASE o # 0
  <2> DEFINE x == [buf |-> b, from |-> 0, to |-> o]
             d == Append(P, x)
  <2>1. Done(P, b, o) = d /\ Done(P, b, o + n) = Append(P, [buf |-> b, from |-> 0, to |-> o + n])
    BY <1>2 DEF Done
  <2>2. x \in Piece
    BY DEF Piece
  <2>3. d # <<>> /\ Last(d) = x /\ Front(d) = P
    <3>1. Len(d) = Len(P) + 1 /\ d[Len(P) + 1] = x /\ d # <<>>
      BY <2>2
    <3>2. SubSeq(d, 1, Len(P)) = P
      BY <2>2
    <3> QED
      BY <3>1, <3>2 DEF Last, Front
  <2>4. [x EXCEPT !.to = @ + n] = [buf |-> b, from |-> 0, to |-> o + n]
    OBVIOUS
  <2>5. P \o <<[buf |-> b, from |-> 0, to |-> o + n]>> = Append(P, [buf |-> b, from |-> 0, to |-> o + n])
    OBVIOUS
  <2>6. x.buf = b /\ x.to = o
    OBVIOUS
  <2> HIDE DEF d, x
  <2>7. Hashed(d, [buf |-> b, off |-> o], n) = P \o <<[x EXCEPT !.to = @ + n]>>
    BY <2>3, <2>6 DEF Hashed
  <2> QED
    BY <2>1, <2>4, <2>5, <2>7
<1> QED
  BY <1>1, <1>2

LEMMA BufferFacts ==
  /\ \A j \in Jobs : Msg(j) \in Buffers
  /\ \A l \in Lanes : Extra(l) \in Buffers /\ Outer(l) \in Buffers
  /\ \A j \in Jobs, l \in Lanes, k \in Lanes :
       Msg(j) # Extra(l) /\ Msg(j) # Outer(l) /\ Extra(l) # Outer(k)
<1>1. "msg" # "extra" /\ "msg" # "outer" /\ "extra" # "outer"
  OBVIOUS
<1> QED
  BY <1>1 DEF Msg, Extra, Outer, Buffers

LEMMA BodyFacts ==
  ASSUME NEW j \in Jobs, NEW n \in MsgLens, NEW l \in Lanes
  PROVE  /\ Body(j, n) \in Seq(Piece)
         /\ Body(j, n) = <<>> \/ Body(j, n)[Len(Body(j, n))].buf # Extra(l)
         /\ n >= BLOCK => Body(j, n) = Done(<<>>, Msg(j), n \div BLOCK)
<1>1. n \in Nat /\ n \div BLOCK \in Nat /\ (n >= BLOCK => n \div BLOCK # 0) /\ BLOCK \in Nat
  BY LengthFacts DEF BLOCK
<1>2. Msg(j) \in Buffers /\ Msg(j) # Extra(l)
  BY BufferFacts
<1> DEFINE x == [buf |-> Msg(j), from |-> 0, to |-> n \div BLOCK]
<1>3. x \in Piece /\ x.buf = Msg(j)
  BY <1>1, <1>2 DEF Piece
<1> HIDE DEF x
<1>4. CASE n < BLOCK
  BY <1>1, <1>4 DEF Body
<1>5. CASE ~(n < BLOCK)
  <2>1. Body(j, n) = <<x>>
    BY <1>5 DEF Body, x
  <2>2. Done(<<>>, Msg(j), n \div BLOCK) = <<x>>
    BY <1>1, <1>5 DEF Done, x
  <2>3. <<x>> \in Seq(Piece) /\ <<x>>[Len(<<x>>)] = x
    BY <1>3
  <2> QED
    BY <1>2, <1>3, <2>1, <2>2, <2>3
<1> QED
  BY <1>4, <1>5

---------------------------------------------------------------------------
(* A pass of a lane *)

Ptr == [buf : Buffers \cup {Nowhere}, off : Nat]

\* The bounds of a pass, and what its digest is.
LEMMA PassFacts ==
  ASSUME NEW l \in Lanes, NEW d, d.job_in_lane \in Jobs, NEW p \in Ptr, NEW k \in Nat, NEW g,
         NEW n \in MsgLens, InPass(l, d, p, k, g, n)
  PROVE  /\ k < WORD_MAX /\ p.buf \in Buffers
         /\ \E P \in Seq(Piece) :
              (P = <<>> \/ P[Len(P)].buf # p.buf) /\ g = Done(P, p.buf, p.off)
<1>1. p.off \in Nat /\ n \div BLOCK \in Nat /\ n \div BLOCK <= 1023
      /\ ExtraBlocks(n) \in Nat /\ ExtraBlocks(n) <= 2 /\ WORD_MAX = 65535
  BY LengthFacts DEF Ptr, WORD_MAX
<1>2. CASE MsgPass(l, d, p, k, g, n)
  <2>1. p.buf \in Buffers /\ p.off + k = n \div BLOCK
    BY <1>2, BufferFacts DEF MsgPass
  <2>2. <<>> \in Seq(Piece) /\ g = Done(<<>>, p.buf, p.off)
    BY <1>2 DEF MsgPass
  <2>3. k < WORD_MAX
    BY <1>1, <2>1
  <2> QED
    BY <2>1, <2>2, <2>3
<1>3. CASE ExtraPass(l, d, p, k, g, n)
  <2>1. p.buf = Extra(l) /\ p.buf \in Buffers /\ p.off + k = ExtraBlocks(n)
    BY <1>3, BufferFacts DEF ExtraPass
  <2>2. g = Done(Body(d.job_in_lane, n), p.buf, p.off)
    BY <1>3 DEF ExtraPass
  <2>3. k < WORD_MAX
    BY <1>1, <2>1
  <2>4. /\ Body(d.job_in_lane, n) \in Seq(Piece)
        /\ \/ Body(d.job_in_lane, n) = <<>>
           \/ Body(d.job_in_lane, n)[Len(Body(d.job_in_lane, n))].buf # p.buf
    BY <2>1, BodyFacts
  <2> QED
    BY <2>1, <2>2, <2>3, <2>4
<1>4. CASE OuterPass(l, d, p, k, g, n)
  <2>1. p.buf \in Buffers /\ p.off + k = 1
    BY <1>4, BufferFacts DEF OuterPass
  <2>2. <<>> \in Seq(Piece) /\ g = Done(<<>>, p.buf, p.off)
    BY <1>4 DEF OuterPass
  <2>3. k < WORD_MAX
    BY <1>1, <2>1
  <2> QED
    BY <2>1, <2>2, <2>3
<1> QED
  BY <1>2, <1>3, <1>4 DEF InPass

\* The digest of a pass follows the kernel.
LEMMA DigestFollows ==
  ASSUME NEW P \in Seq(Piece), NEW p \in Ptr, p.buf \in Buffers, NEW B \in Nat,
         P = <<>> \/ P[Len(P)].buf # p.buf
  PROVE  (IF B = 0 THEN Done(P, p.buf, p.off) ELSE Hashed(Done(P, p.buf, p.off), p, B))
           = Done(P, p.buf, p.off + B)
<1>1. p.off \in Nat /\ p = [buf |-> p.buf, off |-> p.off]
  BY DEF Ptr
<1>2. CASE B = 0
  <2>1. p.off + B = p.off
    BY <1>1, <1>2
  <2> QED
    BY <1>2, <2>1
<1>3. CASE B # 0
  <2>1. Hashed(Done(P, p.buf, p.off), [buf |-> p.buf, off |-> p.off], B)
          = Done(P, p.buf, p.off + B)
    BY <1>1, <1>3, HashingGoesOn
  <2> QED
    BY <1>1, <1>3, <2>1
<1> QED
  BY <1>2, <1>3

\* B blocks in the kernel leave a lane in its pass, B blocks on.
LEMMA PassMoves ==
  ASSUME NEW l \in Lanes, NEW d, d.job_in_lane \in Jobs, NEW p \in Ptr, NEW k \in Nat, NEW g,
         NEW n \in MsgLens, InPass(l, d, p, k, g, n), NEW B \in Nat, B <= k
  PROVE  InPass(l, d, [p EXCEPT !.off = @ + B], k - B, IF B = 0 THEN g ELSE Hashed(g, p, B), n)
<1> DEFINE q == [p EXCEPT !.off = @ + B]
           h == IF B = 0 THEN g ELSE Hashed(g, p, B)
<1>1. q.buf = p.buf /\ q.off = p.off + B /\ p.off \in Nat
  BY DEF Ptr
<1>2. q.off + (k - B) = p.off + k
  BY <1>1
<1>3. p.buf \in Buffers
  BY PassFacts
<1> HIDE DEF q
<1>4. CASE MsgPass(l, d, p, k, g, n)
  <2>1. g = Done(<<>>, p.buf, p.off)
    BY <1>4 DEF MsgPass
  <2>2. h = Done(<<>>, q.buf, q.off)
    <3>1. <<>> \in Seq(Piece)
      OBVIOUS
    <3> QED
      BY <1>1, <1>3, <2>1, <3>1, DigestFollows
  <2> HIDE DEF h
  <2>3. MsgPass(l, d, q, k - B, h, n)
    BY <1>1, <1>2, <1>4, <2>2 DEF MsgPass
  <2> QED
    BY <2>3 DEF InPass, q, h
<1>5. CASE ExtraPass(l, d, p, k, g, n)
  <2>1. g = Done(Body(d.job_in_lane, n), p.buf, p.off) /\ p.buf = Extra(l)
    BY <1>5 DEF ExtraPass
  <2>2. h = Done(Body(d.job_in_lane, n), q.buf, q.off)
    <3>1. /\ Body(d.job_in_lane, n) \in Seq(Piece)
          /\ \/ Body(d.job_in_lane, n) = <<>>
             \/ Body(d.job_in_lane, n)[Len(Body(d.job_in_lane, n))].buf # p.buf
      BY <2>1, BodyFacts
    <3> QED
      BY <1>1, <1>3, <2>1, <3>1, DigestFollows
  <2> HIDE DEF h
  <2>3. ExtraPass(l, d, q, k - B, h, n)
    BY <1>1, <1>2, <1>5, <2>2 DEF ExtraPass
  <2> QED
    BY <2>3 DEF InPass, q, h
<1>6. CASE OuterPass(l, d, p, k, g, n)
  <2>1. g = Done(<<>>, p.buf, p.off)
    BY <1>6 DEF OuterPass
  <2>2. h = Done(<<>>, q.buf, q.off)
    <3>1. <<>> \in Seq(Piece)
      OBVIOUS
    <3> QED
      BY <1>1, <1>3, <2>1, <3>1, DigestFollows
  <2> HIDE DEF h
  <2>3. OuterPass(l, d, q, k - B, h, n)
    BY <1>1, <1>2, <1>6, <2>2 DEF OuterPass
  <2> QED
    BY <2>3 DEF InPass, q, h
<1> QED
  BY <1>4, <1>5, <1>6 DEF InPass

---------------------------------------------------------------------------
(* A turn of the loop *)

\* The shortest lane is one of the lanes, and none is shorter.
LEMMA MinLaneIsLeast ==
  ASSUME NEW L \in [Lanes -> Nat]
  PROVE  /\ MinLane(L) \in Lanes
         /\ \A k \in Lanes : L[MinLane(L)] <= L[k]
<1> DEFINE Is(m) == \A k \in Lanes : L[m] < L[k] \/ (L[m] = L[k] /\ m <= k)
<1>1. \E l \in Lanes : Is(l)
  BY LaneFacts, ShortestExists
<1>2. MinLane(L) \in Lanes /\ Is(MinLane(L))
  BY <1>1 DEF MinLane
<1>3. \A m \in Lanes : Is(m) => \A k \in Lanes : L[m] <= L[k]
  <2> SUFFICES ASSUME NEW m \in Lanes, Is(m), NEW k \in Lanes PROVE L[m] <= L[k]
    OBVIOUS
  <2>1. L[m] \in Nat /\ L[k] \in Nat /\ (L[m] < L[k] \/ L[m] = L[k])
    OBVIOUS
  <2> QED
    BY <2>1
<1> HIDE DEF Is
<1> QED
  BY <1>2, <1>3

\* Reduction modulo the width of a word changes nothing that fits it.
LEMMA FitsWord ==
  ASSUME NEW a \in Nat, a <= WORD_MAX
  PROVE  a % (WORD_MAX + 1) = a
BY DEF WORD_MAX

\* What the types say of a lane.
LEMMA LaneTypes ==
  ASSUME IInv
  PROVE  /\ data_ptr \in [Lanes -> Ptr] /\ lens \in [Lanes -> 0 .. WORD_MAX]
         /\ digest \in [Lanes -> Seq(Piece)] /\ DOMAIN ldata = Lanes
         /\ call.lane \in Lanes /\ call.idx \in Lanes
         /\ \A l \in Lanes :
              /\ ldata[l] \in Ldata /\ JobInLane(l) \in Jobs \cup {NULL}
              /\ Busy(l) => JobInLane(l) \in Jobs
              /\ lens[l] \in Nat /\ lens[l] <= WORD_MAX
<1>1. /\ data_ptr \in [Lanes -> Ptr] /\ lens \in [Lanes -> 0 .. WORD_MAX]
      /\ digest \in [Lanes -> Seq(Piece)] /\ DOMAIN ldata = Lanes
      /\ \A l \in Lanes : ldata[l] \in Ldata
      /\ call \in [op : {"none", "submit", "flush"}, lane : Lanes, idx : Lanes]
  BY DEF IInv, TypeOK, Ptr
<1>2. \A l \in Lanes : ldata[l].job_in_lane \in Jobs \cup {NULL}
  BY <1>1 DEF Ldata
<1>3. WORD_MAX \in Nat
  BY DEF WORD_MAX
<1> QED
  BY <1>1, <1>2, <1>3 DEF JobInLane, Busy

\* A lane with a job is in one of its passes.
LEMMA BusyLane ==
  ASSUME IInv, NEW l \in Lanes, Busy(l)
  PROVE  /\ JobInLane(l) \in Jobs /\ msg_len[JobInLane(l)] \in MsgLens
         /\ ldata[l].size_offset = SizeOffset(msg_len[JobInLane(l)])
         /\ InPass(l, ldata[l], data_ptr[l], lens[l], digest[l], msg_len[JobInLane(l)])
         /\ lens[l] < WORD_MAX /\ data_ptr[l].buf \in Buffers
<1>1. /\ msg_len[JobInLane(l)] \in MsgLens
      /\ ldata[l].size_offset = SizeOffset(msg_len[JobInLane(l)])
      /\ InPass(l, ldata[l], data_ptr[l], lens[l], digest[l], msg_len[JobInLane(l)])
  BY DEF IInv, LanesInPass
<1>2. ldata[l].job_in_lane \in Jobs /\ data_ptr[l] \in Ptr /\ lens[l] \in Nat
  BY LaneTypes DEF JobInLane
<1> QED
  BY <1>1, <1>2, PassFacts DEF JobInLane

\* The kernel runs as far as the shortest lane with a job.
LEMMA TurnFacts ==
  ASSUME IInv, call.op # "none"
  PROVE  /\ Shortest \in Lanes /\ Busy(Shortest) /\ Blocks \in Nat /\ Blocks = lens[Shortest]
         /\ \A l \in Lanes : Busy(l) => Blocks <= lens[l] /\ MaskedLens[l] = lens[l]
         /\ \A l \in Lanes : MaskedLens[l] \in Nat /\ MaskedLens[l] <= WORD_MAX
                             /\ Blocks <= MaskedLens[l]
<1>1. WORD_MAX \in Nat
  BY DEF WORD_MAX
<1>2. /\ MaskedLens \in [Lanes -> 0 .. WORD_MAX]
      /\ \A l \in Lanes : MaskedLens[l] = IF call.op = "flush" /\ ~Busy(l) THEN WORD_MAX ELSE lens[l]
  BY <1>1, LaneTypes DEF MaskedLens
<1>3. MaskedLens \in [Lanes -> Nat]
  BY <1>1, <1>2
<1>4. Shortest \in Lanes /\ \A k \in Lanes : Blocks <= MaskedLens[k]
  BY <1>3, MinLaneIsLeast DEF Shortest, Blocks
<1>5. Blocks \in Nat
  BY <1>3, <1>4 DEF Blocks
<1>6. call.idx \in Lanes /\ Busy(call.idx)
  BY LaneTypes DEF IInv, CallShape
<1>7. Blocks < WORD_MAX
  <2>1. MaskedLens[call.idx] = lens[call.idx] /\ lens[call.idx] < WORD_MAX /\ lens[call.idx] \in Nat
    BY <1>2, <1>6, BusyLane, LaneTypes
  <2> QED
    BY <1>1, <1>4, <1>5, <1>6, <2>1
<1>8. Busy(Shortest)
  <2>1. CASE call.op = "flush"
    <3>1. ~Busy(Shortest) => Blocks = WORD_MAX
      BY <1>2, <1>4, <2>1 DEF Blocks
    <3> QED
      BY <1>1, <1>5, <1>7, <3>1
  <2>2. CASE call.op = "submit"
    BY <1>4, <2>2 DEF IInv, CallShape
  <2>3. call.op \in {"none", "submit", "flush"}
    BY DEF IInv, TypeOK
  <2> QED
    BY <2>1, <2>2, <2>3
<1>9. \A l \in Lanes : MaskedLens[l] \in Nat /\ MaskedLens[l] <= WORD_MAX
  BY <1>1, <1>2
<1> QED
  BY <1>2, <1>4, <1>5, <1>8, <1>9 DEF Blocks

\* Every lane with a job is in its pass after the kernel, with that much less left.
LEMMA TurnKeepsPasses ==
  ASSUME IInv, call.op # "none", NEW l \in Lanes, Busy(l)
  PROVE  /\ InPass(l, ldata[l], PtrsMoved[l], LensLeft[l], Digests[l], msg_len[JobInLane(l)])
         /\ PtrsMoved[l].buf = data_ptr[l].buf /\ PtrsMoved[l].off = data_ptr[l].off + Blocks
         /\ LensLeft[l] = lens[l] - Blocks
<1>1. /\ JobInLane(l) \in Jobs /\ msg_len[JobInLane(l)] \in MsgLens
      /\ InPass(l, ldata[l], data_ptr[l], lens[l], digest[l], msg_len[JobInLane(l)])
  BY BusyLane
<1>2. /\ data_ptr[l] \in Ptr /\ lens[l] \in Nat /\ lens[l] <= WORD_MAX
      /\ Blocks \in Nat /\ Blocks <= lens[l] /\ MaskedLens[l] = lens[l]
  BY LaneTypes, TurnFacts
<1>3. CopiedPtrs[l] = data_ptr[l]
  BY DEF CopiedPtrs
<1>4. PtrsMoved[l] = [data_ptr[l] EXCEPT !.off = @ + Blocks]
  BY <1>3 DEF PtrsMoved
<1>5. LensLeft[l] = lens[l] - Blocks
  <2>1. LensLeft[l] = (lens[l] - Blocks) % (WORD_MAX + 1)
    BY <1>2 DEF LensLeft
  <2>2. lens[l] - Blocks \in Nat /\ lens[l] - Blocks <= WORD_MAX
    BY <1>2 DEF WORD_MAX
  <2> QED
    BY <2>1, <2>2, FitsWord
<1>6. Digests[l] = IF Blocks = 0 THEN digest[l] ELSE Hashed(digest[l], data_ptr[l], Blocks)
  BY <1>3 DEF Digests
<1>7. PtrsMoved[l].buf = data_ptr[l].buf /\ PtrsMoved[l].off = data_ptr[l].off + Blocks
  BY <1>2, <1>4 DEF Ptr
<1>8. InPass(l, ldata[l], PtrsMoved[l], LensLeft[l], Digests[l], msg_len[JobInLane(l)])
  <2>1. ldata[l].job_in_lane \in Jobs
    BY <1>1 DEF JobInLane
  <2> QED
    BY <1>1, <1>2, <1>4, <1>5, <1>6, <2>1, PassMoves
<1> QED
  BY <1>5, <1>7, <1>8

LEMMA TurnTypes ==
  ASSUME IInv, call.op # "none"
  PROVE  /\ PtrsMoved \in [Lanes -> Ptr]
         /\ LensLeft \in [Lanes -> 0 .. WORD_MAX]
         /\ Digests \in [Lanes -> Seq(Piece)]
<1>1. Blocks \in Nat
  BY TurnFacts
<1>2. \A l \in Lanes : CopiedPtrs[l] \in Ptr
  BY LaneTypes DEF CopiedPtrs
<1>3. \A l \in Lanes : [CopiedPtrs[l] EXCEPT !.off = @ + Blocks] \in Ptr
  <2> SUFFICES ASSUME NEW l \in Lanes, NEW c \in Ptr
               PROVE  [c EXCEPT !.off = @ + Blocks] \in Ptr
    BY <1>2
  <2>1. c.off + Blocks \in Nat
    BY <1>1 DEF Ptr
  <2> QED
    BY <2>1 DEF Ptr
<1>4. \A l \in Lanes : (MaskedLens[l] - Blocks) % (WORD_MAX + 1) \in 0 .. WORD_MAX
  <2> TAKE l \in Lanes
  <2>1. MaskedLens[l] - Blocks \in Nat /\ MaskedLens[l] - Blocks <= WORD_MAX
    BY TurnFacts DEF WORD_MAX
  <2>2. (MaskedLens[l] - Blocks) % (WORD_MAX + 1) = MaskedLens[l] - Blocks
    BY <2>1, FitsWord
  <2>3. WORD_MAX \in Nat
    BY DEF WORD_MAX
  <2>4. MaskedLens[l] - Blocks \in 0 .. WORD_MAX
    BY <2>1, <2>3
  <2> QED
    BY <2>2, <2>4
<1>5. ASSUME NEW l \in Lanes, Busy(l) PROVE Digests[l] \in Seq(Piece)
  <2>1. InPass(l, ldata[l], PtrsMoved[l], LensLeft[l], Digests[l], msg_len[JobInLane(l)])
    BY <1>5, TurnKeepsPasses
  <2>2. /\ ldata[l].job_in_lane \in Jobs /\ msg_len[JobInLane(l)] \in MsgLens
        /\ data_ptr[l].buf \in Buffers
    BY <1>5, BusyLane DEF JobInLane
  <2>3. PtrsMoved[l] \in Ptr /\ LensLeft[l] \in Nat
    <3>1. PtrsMoved[l] = [CopiedPtrs[l] EXCEPT !.off = @ + Blocks]
      BY DEF PtrsMoved
    <3>2. LensLeft[l] = lens[l] - Blocks /\ lens[l] \in Nat /\ Blocks <= lens[l]
      BY <1>5, TurnKeepsPasses, LaneTypes, TurnFacts
    <3> QED
      BY <1>1, <1>3, <3>1, <3>2
  <2>4. PICK P \in Seq(Piece) : Digests[l] = Done(P, PtrsMoved[l].buf, PtrsMoved[l].off)
    BY <2>1, <2>2, <2>3, PassFacts
  <2>5. PtrsMoved[l].buf \in Buffers /\ PtrsMoved[l].off \in Nat
    BY <1>5, <2>2, <2>3, TurnKeepsPasses DEF Ptr
  <2> QED
    BY <2>4, <2>5, DoneIsDigest
<1>6. Digests \in [Lanes -> Seq(Piece)]
  <2>1. CASE Blocks = 0
    BY <2>1, LaneTypes DEF Digests
  <2>2. CASE Blocks # 0
    <3>1. Digests = [l \in Lanes |-> IF Busy(l) THEN Hashed(digest[l], CopiedPtrs[l], Blocks) ELSE <<>>]
      BY <2>2 DEF Digests
    <3>2. \A l \in Lanes : ~Busy(l) => Digests[l] = <<>>
      BY <3>1
    <3>3. ASSUME NEW l \in Lanes PROVE Digests[l] \in Seq(Piece)
      <4>1. CASE Busy(l)
        BY <1>5, <4>1
      <4>2. CASE ~Busy(l)
        <5>1. <<>> \in Seq(Piece)
          OBVIOUS
        <5> QED
          BY <3>2, <4>2, <5>1
      <4> QED
        BY <4>1, <4>2
    <3> QED
      BY <3>1, <3>3
  <2> QED
    BY <2>1, <2>2
<1> QED
  BY <1>3, <1>4, <1>6 DEF PtrsMoved, LensLeft

\* What the lane the turn ends at has then: nothing left, so the pass is over.
LEMMA PassEnds ==
  ASSUME IInv, call.op # "none"
  PROVE  LET l == Shortest
             n == msg_len[JobInLane(l)] IN
         /\ ldata[l].extra_blocks # 0 =>
              ~ldata[l].outer_done /\ Digests[l] = Body(JobInLane(l), n)
              /\ ldata[l].extra_blocks = ExtraBlocks(n)
         /\ ldata[l].extra_blocks = 0 /\ ~ldata[l].outer_done =>
              Digests[l] = Done(Body(JobInLane(l), n), Extra(l), ExtraBlocks(n))
         /\ ldata[l].outer_done =>
              /\ Digests[l] = Done(<<>>, Outer(l), 1)
              /\ ldata[l].inner = Done(Body(JobInLane(l), n), Extra(l), ExtraBlocks(n))
<1> DEFINE l == Shortest
           n == msg_len[JobInLane(l)]
<1>1. /\ l \in Lanes /\ Busy(l) /\ LensLeft[l] = 0
      /\ InPass(l, ldata[l], PtrsMoved[l], LensLeft[l], Digests[l], n)
  BY TurnFacts, TurnKeepsPasses
<1>2. JobInLane(l) \in Jobs /\ n \in MsgLens /\ JobInLane(l) = ldata[l].job_in_lane
  BY <1>1, BusyLane DEF JobInLane
<1>3. ExtraBlocks(n) # 0 /\ (n >= BLOCK => Body(JobInLane(l), n) = Done(<<>>, Msg(JobInLane(l)), n \div BLOCK))
  BY <1>1, <1>2, LengthFacts, BodyFacts
<1>4. PtrsMoved[l].off + LensLeft[l] = PtrsMoved[l].off
  <2>1. PtrsMoved[l].off \in Nat
    BY <1>1, TurnTypes DEF Ptr
  <2> QED
    BY <1>1, <2>1
<1> HIDE DEF l, n
<1>5. CASE MsgPass(l, ldata[l], PtrsMoved[l], LensLeft[l], Digests[l], n)
  <2>1. Digests[l] = Done(<<>>, Msg(JobInLane(l)), n \div BLOCK) /\ n >= BLOCK
    BY <1>2, <1>4, <1>5 DEF MsgPass
  <2>2. ldata[l].extra_blocks = ExtraBlocks(n) /\ ~ldata[l].outer_done
    BY <1>5 DEF MsgPass
  <2> QED
    BY <1>3, <2>1, <2>2 DEF l, n
<1>6. CASE ExtraPass(l, ldata[l], PtrsMoved[l], LensLeft[l], Digests[l], n)
  <2>1. /\ Digests[l] = Done(Body(JobInLane(l), n), Extra(l), ExtraBlocks(n))
        /\ ldata[l].extra_blocks = 0 /\ ~ldata[l].outer_done
    BY <1>2, <1>4, <1>6 DEF ExtraPass
  <2> QED
    BY <2>1 DEF l, n
<1>7. CASE OuterPass(l, ldata[l], PtrsMoved[l], LensLeft[l], Digests[l], n)
  <2>1. /\ Digests[l] = Done(<<>>, Outer(l), 1)
        /\ ldata[l].inner = Done(Body(JobInLane(l), n), Extra(l), ExtraBlocks(n))
        /\ ldata[l].extra_blocks = 0 /\ ldata[l].outer_done
    BY <1>2, <1>4, <1>7 DEF OuterPass
  <2> QED
    BY <2>1 DEF l, n
<1> QED
  BY <1>1, <1>5, <1>6, <1>7 DEF InPass

---------------------------------------------------------------------------
(* What the kernel reads *)

LEMMA BlocksOfBuffers ==
  /\ \A j \in Jobs : BlocksOf(Msg(j)) = msg_len[j] \div BLOCK
  /\ \A l \in Lanes : /\ BlocksOf(Extra(l)) = ExtraBlocks(msg_len[JobInLane(l)])
                      /\ BlocksOf(Outer(l)) = 1
<1>1. "msg" # "extra" /\ "msg" # "outer" /\ "extra" # "outer"
  OBVIOUS
<1> QED
  BY <1>1 DEF BlocksOf, Msg, Extra, Outer

LEMMA LiveBuffers ==
  /\ \A l \in Lanes : Busy(l) => Live(Extra(l)) /\ Live(Outer(l)) /\ Live(Msg(JobInLane(l)))
<1>1. /\ "msg" # "extra" /\ "msg" # "outer" /\ "extra" # "outer"
      /\ "none" # "extra" /\ "none" # "outer"
  OBVIOUS
<1> QED
  BY <1>1 DEF Live, Msg, Extra, Outer, Nowhere, Busy, Pending

\* As long as the jobs keep their lanes, the buffers are what they were.
LEMMA SameBuffers ==
  ASSUME \A l \in Lanes : JobInLane(l)' = JobInLane(l), msg_len' = msg_len, NEW b \in Buffers
  PROVE  BlocksOf(b)' = BlocksOf(b) /\ (Live(b) => Live(b)')
<1>1. "msg" # "extra" /\ "msg" # "outer" /\ "extra" # "outer"
  OBVIOUS
<1>2. CASE \E j \in Jobs : b = Msg(j)
  <2>1. PICK j \in Jobs : b = Msg(j)
    BY <1>2
  <2>2. b[1] = "msg" /\ b[2] = j
    BY <2>1 DEF Msg
  <2>3. Pending' = Pending
    BY DEF Pending
  <2> QED
    BY <2>2, <2>3 DEF BlocksOf, Live
<1>3. CASE \E l \in Lanes : b = Extra(l) \/ b = Outer(l)
  <2>1. PICK l \in Lanes : b = Extra(l) \/ b = Outer(l)
    BY <1>3
  <2>2. b[1] # "msg" /\ b[2] = l
    BY <1>1, <2>1 DEF Extra, Outer
  <2>3. JobInLane(l)' = JobInLane(l)
    OBVIOUS
  <2> QED
    BY <2>2, <2>3 DEF BlocksOf, Live, Busy
<1> QED
  BY <1>2, <1>3 DEF Buffers

\* The pointers of all lanes, empty ones included, end inside the buffer of some
\* lane with a job.
LEMMA PointersStay ==
  ASSUME IInv, call.op # "none", NEW l \in Lanes
  PROVE  /\ PtrsMoved[l].buf \in Buffers /\ Live(PtrsMoved[l].buf)
         /\ PtrsMoved[l].off <= BlocksOf(PtrsMoved[l].buf)
<1>1. ASSUME NEW k \in Lanes, Busy(k)
      PROVE  /\ PtrsMoved[k].buf \in Buffers /\ Live(PtrsMoved[k].buf)
             /\ PtrsMoved[k].off <= BlocksOf(PtrsMoved[k].buf)
  <2> DEFINE n == msg_len[JobInLane(k)]
             p == PtrsMoved[k]
             left == LensLeft[k]
             g == Digests[k]
  <2>1. InPass(k, ldata[k], p, left, g, n) /\ p.buf = data_ptr[k].buf
    BY <1>1, TurnKeepsPasses
  <2>2. p.off \in Nat /\ left \in Nat
    <3>1. p.off \in Nat
      BY TurnTypes DEF Ptr
    <3>2. left = lens[k] - Blocks /\ lens[k] \in Nat /\ Blocks \in Nat /\ Blocks <= lens[k]
      BY <1>1, TurnKeepsPasses, TurnFacts, LaneTypes
    <3> QED
      BY <3>1, <3>2
  <2>3. p.buf \in Buffers /\ JobInLane(k) \in Jobs /\ JobInLane(k) = ldata[k].job_in_lane
    BY <1>1, <2>1, BusyLane DEF JobInLane
  <2> HIDE DEF p, left, g
  <2>4. p.off + left = BlocksOf(p.buf)
    BY <2>1, <2>3, BlocksOfBuffers DEF InPass, MsgPass, ExtraPass, OuterPass
  <2>5. Live(p.buf)
    BY <1>1, <2>1, <2>3, LiveBuffers DEF InPass, MsgPass, ExtraPass, OuterPass
  <2>6. p.off <= BlocksOf(p.buf)
    BY <2>2, <2>4
  <2> QED
    BY <2>3, <2>5, <2>6 DEF p
<1>2. CASE Busy(l)
  BY <1>1, <1>2
<1>3. CASE ~Busy(l)
  <2>1. call.op = "flush" /\ call.idx \in Lanes /\ Busy(call.idx)
    <3>1. call.op \in {"none", "submit", "flush"} /\ call.idx \in Lanes
      BY DEF IInv, TypeOK
    <3> QED
      BY <1>3, <3>1 DEF IInv, CallShape
  <2>2. CopiedPtrs[l] = data_ptr[call.idx] /\ CopiedPtrs[call.idx] = data_ptr[call.idx]
    BY <1>3, <2>1 DEF CopiedPtrs
  <2>3. PtrsMoved[l] = PtrsMoved[call.idx]
    BY <2>1, <2>2 DEF PtrsMoved
  <2> QED
    BY <1>1, <2>1, <2>3
<1> QED
  BY <1>2, <1>3

\* A turn after which the jobs are where they were has read nothing else.
LEMMA ReadStays ==
  ASSUME IInv, Turn, \A l \in Lanes : JobInLane(l)' = JobInLane(l)
  PROVE  KernelStaysInBuffers'
<1> SUFFICES ASSUME NEW r \in read' PROVE Live(r.buf)' /\ r.off <= BlocksOf(r.buf)'
  BY DEF KernelStaysInBuffers
<1>1. call.op # "none" /\ msg_len' = msg_len
  BY DEF Turn
<1>2. PICK l \in Lanes : r = PtrsMoved[l]
  BY DEF Turn
<1>3. /\ r.buf \in Buffers /\ Live(r.buf) /\ r.off <= BlocksOf(r.buf)
  BY <1>1, <1>2, PointersStay
<1> QED
  BY <1>1, <1>3, SameBuffers

---------------------------------------------------------------------------
(* The steps *)

\* What a step promises.
Kept == IInv' /\ KernelStaysInBuffers' /\ TagIsHmac'

LEMMA SubmitStep ==
  ASSUME IInv, NEW j \in Jobs, NEW n \in MsgLens, Submit(j, n)
  PROVE  Kept /\ [Ooo!Next]_(Ooo!oooVars)
<1> DEFINE U == Tail(unused_lanes)
<1> PICK lane \in Lanes : lane = Head(unused_lanes)
  BY PopFacts DEF IInv, TypeOK, StackIsFreeLanes, Submit
<1>1. /\ call.op = "none" /\ j \notin Pending
      /\ unused_lanes' = U
      /\ ldata' = [ldata EXCEPT ![lane] =
           [job_in_lane |-> j, extra_blocks |-> IF n < BLOCK THEN 0 ELSE ExtraBlocks(n),
            outer_done |-> FALSE, size_offset |-> SizeOffset(n),
            sizes |-> @.sizes \cup {SizeOffset(n)}, inner |-> @.inner]]
      /\ lens' = [lens EXCEPT ![lane] = IF n < BLOCK THEN ExtraBlocks(n) ELSE n \div BLOCK]
      /\ data_ptr' = [data_ptr EXCEPT ![lane] =
                        [buf |-> IF n < BLOCK THEN Extra(lane) ELSE Msg(j), off |-> 0]]
      /\ digest' = [digest EXCEPT ![lane] = <<>>]
      /\ call' = IF U # <<>> THEN NoCall ELSE [op |-> "submit", lane |-> lane, idx |-> lane]
      /\ ret' = IF U # <<>> THEN NULL ELSE ret
      /\ msg_len' = [msg_len EXCEPT ![j] = n]
      /\ read' = {}
  BY DEF Submit
<1>2. /\ unused_lanes \in Seq(Lanes) /\ unused_lanes # <<>> /\ IsInjective(unused_lanes)
      /\ Range(unused_lanes) = {l \in Lanes : ~Busy(l)}
      /\ msg_len \in [Jobs -> MsgLens \cup {0}] /\ ret \in Jobs \cup {NULL}
  BY <1>1 DEF IInv, TypeOK, StackIsFreeLanes
<1>3. /\ lane \in Lanes /\ ~Busy(lane)
      /\ U \in Seq(Lanes) /\ IsInjective(U) /\ Range(U) = {l \in Lanes : ~Busy(l)} \ {lane}
  BY <1>2, PopFacts
<1> HIDE DEF U
<1>4. /\ n \in Nat /\ n \div BLOCK \in Nat /\ n \div BLOCK <= 1023 /\ BLOCK \in Nat
      /\ ExtraBlocks(n) \in 1 .. 2 /\ SizeOffset(n) \in 0 .. EXTRA_BLOCK_SIZE
      /\ SizeOffset(n) + 8 <= EXTRA_BLOCK_SIZE /\ SizeOffset(n) > BLOCK /\ j # NULL
  BY LengthFacts, LanesAssumption DEF BLOCK
<1>5. /\ ldata[lane].sizes = {} /\ ldata[lane].inner \in Seq(Piece)
  BY <1>3, LaneTypes DEF IInv, PaddingIsClean, Ldata, Piece
<1>6. /\ DOMAIN ldata' = Lanes
      /\ ldata'[lane] = [job_in_lane |-> j, extra_blocks |-> IF n < BLOCK THEN 0 ELSE ExtraBlocks(n),
                         outer_done |-> FALSE, size_offset |-> SizeOffset(n),
                         sizes |-> {SizeOffset(n)}, inner |-> ldata[lane].inner]
      /\ \A l \in Lanes : l # lane => ldata'[l] = ldata[l]
  BY <1>1, <1>3, <1>5, LaneTypes
<1>7. /\ JobInLane(lane)' = j /\ Busy(lane)'
      /\ \A l \in Lanes : l # lane => JobInLane(l)' = JobInLane(l) /\ (Busy(l)' <=> Busy(l))
  <2>1. JobInLane(lane)' = j
    BY <1>6 DEF JobInLane
  <2>2. \A l \in Lanes : l # lane => JobInLane(l)' = JobInLane(l)
    BY <1>6 DEF JobInLane
  <2> QED
    BY <1>4, <2>1, <2>2 DEF Busy
<1>8. /\ \A l \in Lanes : l # lane => /\ lens'[l] = lens[l] /\ data_ptr'[l] = data_ptr[l]
                                      /\ digest'[l] = digest[l]
      /\ lens'[lane] = IF n < BLOCK THEN ExtraBlocks(n) ELSE n \div BLOCK
      /\ data_ptr'[lane] = [buf |-> IF n < BLOCK THEN Extra(lane) ELSE Msg(j), off |-> 0]
      /\ digest'[lane] = <<>>
  BY <1>1, <1>3, LaneTypes
<1>9. ASSUME NEW l \in Lanes, l # lane, Busy(l)
      PROVE  JobInLane(l) \in Jobs /\ JobInLane(l) # j
             /\ msg_len'[JobInLane(l)] = msg_len[JobInLane(l)]
  <2>1. JobInLane(l) \in Jobs /\ JobInLane(l) # j
    BY <1>1, <1>9, LaneTypes DEF Pending, Busy
  <2> QED
    BY <1>1, <1>2, <2>1
<1>10. msg_len'[j] = n
  BY <1>1, <1>2
<1>11. TypeOK'
  <2>1. ldata'[lane] \in Ldata
    <3>1. (IF n < BLOCK THEN 0 ELSE ExtraBlocks(n)) \in 0 .. 2
      BY <1>4
    <3>2. {SizeOffset(n)} \in SUBSET (0 .. EXTRA_BLOCK_SIZE)
      BY <1>4
    <3> QED
      BY <1>4, <1>5, <1>6, <3>1, <3>2 DEF Ldata, Piece
  <2>2. \A l \in Lanes : ldata'[l] \in Ldata
    BY <1>6, <2>1, LaneTypes
  <2>3. lens' \in [Lanes -> 0 .. WORD_MAX]
    <3>1. lens'[lane] \in Nat /\ lens'[lane] <= 1023
      BY <1>4, <1>8
    <3>2. lens'[lane] \in 0 .. WORD_MAX
      <4>1. WORD_MAX \in Nat /\ 1023 <= WORD_MAX
        BY DEF WORD_MAX
      <4> QED
        BY <3>1, <4>1
    <3> QED
      BY <1>1, <1>3, <1>8, <3>2, LaneTypes
  <2>4. data_ptr' \in [Lanes -> Ptr]
    <3>1. data_ptr'[lane] \in Ptr
      BY <1>3, <1>8, BufferFacts DEF Ptr
    <3> QED
      BY <1>1, <1>3, <1>8, <3>1, LaneTypes
  <2>5. call' \in [op : {"none", "submit", "flush"}, lane : Lanes, idx : Lanes]
    BY <1>1, <1>3, LaneFacts DEF NoCall
  <2>6. msg_len' \in [Jobs -> MsgLens \cup {0}] /\ ret' \in Jobs \cup {NULL}
    BY <1>1, <1>2
  <2> QED
    BY <1>1, <1>3, <1>6, <2>2, <2>3, <2>4, <2>5, <2>6 DEF TypeOK, Ptr
<1>12. digest' \in [Lanes -> Seq(Piece)]
  <2>1. <<>> \in Seq(Piece)
    OBVIOUS
  <2> QED
    BY <1>1, <2>1, LaneTypes
<1>13. StackIsFreeLanes'
  <2>1. Range(U) = {l \in Lanes : ~Busy(l)'}
    BY <1>3, <1>7
  <2>2. call'.op = "none" => U # <<>>
    BY <1>1
  <2> QED
    BY <1>1, <1>3, <2>1, <2>2 DEF StackIsFreeLanes
<1>14. PaddingIsClean'
  <2> SUFFICES ASSUME NEW l \in Lanes
               PROVE  IF Busy(l)' /\ ~ldata'[l].outer_done
                      THEN LET m == msg_len'[JobInLane(l)'] IN
                           /\ ldata'[l].sizes = {SizeOffset(m)}
                           /\ SizeOffset(m) + 8 <= EXTRA_BLOCK_SIZE
                           /\ SizeOffset(m) > BLOCK
                      ELSE ldata'[l].sizes = {}
    BY DEF PaddingIsClean
  <2>1. CASE l = lane
    <3>1. ldata'[l].sizes = {SizeOffset(n)} /\ ~ldata'[l].outer_done
      BY <1>6, <2>1
    <3>2. Busy(l)' /\ msg_len'[JobInLane(l)'] = n
      BY <1>7, <1>10, <2>1
    <3> QED
      BY <1>4, <3>1, <3>2
  <2>2. CASE l # lane
    BY <1>6, <1>7, <1>9, <2>2 DEF IInv, PaddingIsClean
  <2> QED
    BY <2>1, <2>2
<1>15. LanesInPass'
  <2> SUFFICES ASSUME NEW l \in Lanes, Busy(l)'
               PROVE  /\ msg_len'[JobInLane(l)'] \in MsgLens
                      /\ ldata'[l].size_offset = SizeOffset(msg_len'[JobInLane(l)'])
                      /\ InPass(l, ldata'[l], data_ptr'[l], lens'[l], digest'[l],
                                msg_len'[JobInLane(l)'])
    BY DEF LanesInPass
  <2>1. CASE l = lane
    <3>1. InPass(l, ldata'[l], data_ptr'[l], lens'[l], digest'[l], n)
      <4>1. CASE n < BLOCK
        <5>1. Done(Body(j, n), Extra(l), 0) = <<>>
          BY <4>1 DEF Done, Body
        <5>2. ExtraPass(l, ldata'[l], data_ptr'[l], lens'[l], digest'[l], n)
          BY <1>4, <1>6, <1>8, <2>1, <4>1, <5>1 DEF ExtraPass
        <5> QED
          BY <5>2 DEF InPass
      <4>2. CASE ~(n < BLOCK)
        <5>1. Done(<<>>, Msg(j), 0) = <<>> /\ n >= BLOCK
          BY <1>4, <4>2 DEF Done
        <5>2. MsgPass(l, ldata'[l], data_ptr'[l], lens'[l], digest'[l], n)
          BY <1>4, <1>6, <1>8, <2>1, <4>2, <5>1 DEF MsgPass
        <5> QED
          BY <5>2 DEF InPass
      <4> QED
        BY <4>1, <4>2
    <3>2. msg_len'[JobInLane(l)'] = n
      BY <1>7, <1>10, <2>1
    <3>3. ldata'[l].size_offset = SizeOffset(n)
      BY <1>6, <2>1
    <3> QED
      BY <3>1, <3>2, <3>3
  <2>2. CASE l # lane
    <3>1. Busy(l) /\ JobInLane(l)' = JobInLane(l)
      BY <1>7, <2>2
    <3> QED
      BY <1>6, <1>8, <1>9, <2>2, <3>1, BusyLane
  <2> QED
    BY <2>1, <2>2
<1>16. CallShape'
  <2>1. CASE U # <<>>
    <3>1. call'.op = "none"
      BY <1>1, <2>1 DEF NoCall
    <3> QED
      BY <3>1 DEF CallShape
  <2>2. CASE U = <<>>
    <3>1. call'.lane = lane /\ call'.idx = lane
      BY <1>1, <2>2
    <3>2. Range(U) = {}
      BY <2>2 DEF Range
    <3>3. \A l \in Lanes : l # lane => Busy(l)
      BY <1>3, <3>2
    <3>4. \A l \in Lanes \ {lane} : JobInLane(l)' # j
      BY <1>7, <1>9, <3>3
    <3>5. \A l \in Lanes : Busy(l)'
      BY <1>7, <3>3
    <3> QED
      BY <1>3, <1>7, <3>1, <3>4, <3>5 DEF CallShape
  <2> QED
    BY <2>1, <2>2
<1>17. KernelStaysInBuffers'
  BY <1>1 DEF KernelStaysInBuffers
<1>18. TagIsHmac'
  BY <1>1 DEF TagIsHmac
<1>19. LanesBeforeCall = [l \in Lanes |-> JobInLane(l)]
  BY <1>1 DEF LanesBeforeCall
<1>20. [Ooo!Next]_(Ooo!oooVars)
  <2>1. CASE U # <<>>
    <3>1. LanesBeforeCall' = [l \in Lanes |-> IF l = lane THEN j ELSE LanesBeforeCall[l]]
      <4>1. call'.op = "none"
        BY <1>1, <2>1 DEF NoCall
      <4>2. LanesBeforeCall' = [l \in Lanes |-> JobInLane(l)']
        BY <4>1 DEF LanesBeforeCall
      <4> QED
        BY <1>7, <1>19, <4>2
    <3>2. j \notin Ooo!Held(LanesBeforeCall)
      BY <1>1, <1>19 DEF Ooo!Held, Pending
    <3>3. lane \in Ooo!Free(LanesBeforeCall)
      BY <1>3, <1>19 DEF Ooo!Free, Busy
    <3>4. Ooo!Free(LanesBeforeCall') # {}
      <4>1. Head(U) \in Range(U)
        BY <1>3, <2>1, PopFacts
      <4>2. Head(U) \in Lanes /\ Head(U) # lane /\ ~Busy(Head(U))
        BY <1>3, <4>1
      <4>3. LanesBeforeCall'[Head(U)] = NULL
        BY <1>19, <3>1, <4>2 DEF Busy
      <4> QED
        BY <4>2, <4>3 DEF Ooo!Free
    <3>5. Ooo!Submit(j)
      <4>1. ret' = NULL
        BY <1>1, <2>1
      <4> QED
        BY <3>1, <3>2, <3>3, <3>4, <4>1 DEF Ooo!Submit
    <3> QED
      BY <3>5 DEF Ooo!Next
  <2>2. CASE U = <<>>
    <3>1. call'.op = "submit" /\ call'.lane = lane /\ ret' = ret
      BY <1>1, <2>2
    <3>2. LanesBeforeCall' = [l \in Lanes |-> IF l = lane THEN NULL ELSE JobInLane(l)']
      BY <3>1 DEF LanesBeforeCall
    <3>3. LanesBeforeCall' = LanesBeforeCall
      BY <1>3, <1>7, <1>19, <3>2 DEF Busy
    <3> QED
      BY <3>1, <3>3 DEF Ooo!oooVars
  <2> QED
    BY <2>1, <2>2
<1> QED
  BY <1>11, <1>12, <1>13, <1>14, <1>15, <1>16, <1>17, <1>18, <1>20 DEF Kept, IInv

LEMMA FlushNullStep ==
  ASSUME IInv, FlushNull
  PROVE  Kept /\ [Ooo!Next]_(Ooo!oooVars)
<1>1. /\ call.op = "none" /\ ret' = NULL /\ read' = {}
      /\ UNCHANGED <<unused_lanes, ldata, lens, data_ptr, digest, call, msg_len>>
  BY DEF FlushNull
<1>2. IInv'
  BY <1>1 DEF IInv, TypeOK, StackIsFreeLanes, PaddingIsClean, LanesInPass, CallShape, Busy, JobInLane
<1>3. KernelStaysInBuffers' /\ TagIsHmac'
  BY <1>1 DEF KernelStaysInBuffers, TagIsHmac
<1>4. \A l \in Lanes : JobInLane(l) = NULL
  <2>1. Range(unused_lanes) = Lanes
    BY FullStack, LaneFacts DEF IInv, TypeOK, StackIsFreeLanes, FlushNull
  <2> QED
    BY <2>1 DEF IInv, StackIsFreeLanes, Busy
<1>5. LanesBeforeCall' = LanesBeforeCall
  BY <1>1 DEF LanesBeforeCall, JobInLane
<1>6. Ooo!Held(LanesBeforeCall) = {}
  BY <1>4 DEF Ooo!Held, LanesBeforeCall
<1>7. Ooo!Flush
  BY <1>1, <1>5, <1>6 DEF Ooo!Flush
<1> QED
  BY <1>2, <1>3, <1>7 DEF Kept, Ooo!Next

LEMMA FlushStep ==
  ASSUME IInv, Flush
  PROVE  Kept /\ [Ooo!Next]_(Ooo!oooVars)
<1>1. /\ call.op = "none" /\ read' = {}
      /\ UNCHANGED <<unused_lanes, ldata, lens, data_ptr, digest, msg_len, ret>>
  BY DEF Flush
<1>2. PICK good \in Lanes : /\ Busy(good)
                            /\ call' = [op |-> "flush", lane |-> good, idx |-> good]
  <2> DEFINE B == {l \in Lanes : Busy(l)}
  <2>1. B # {}
    <3>1. \E l \in Lanes : l \notin Range(unused_lanes)
      BY FullStack, LaneFacts DEF IInv, TypeOK, StackIsFreeLanes, Flush
    <3> QED
      BY <3>1 DEF IInv, StackIsFreeLanes
  <2>2. B \in SUBSET (0 .. NumLanes - 1) /\ NumLanes \in Nat
    BY LaneFacts
  <2>3. Max(B) \in B
    <3> HIDE DEF B
    <3> QED
      BY <2>1, <2>2, MaxIsMember
  <2>4. call' = [op |-> "flush", lane |-> Max(B), idx |-> Max(B)]
    BY DEF Flush
  <2> QED
    BY <2>3, <2>4
<1>3. call'.op = "flush" /\ call'.idx = good /\ call'.lane = good
  BY <1>2
<1>4. TypeOK'
  BY <1>1, <1>2 DEF IInv, TypeOK
<1>5. StackIsFreeLanes' /\ PaddingIsClean' /\ LanesInPass' /\ digest' \in [Lanes -> Seq(Piece)]
  BY <1>1, <1>3 DEF IInv, StackIsFreeLanes, PaddingIsClean, LanesInPass, Busy, JobInLane
<1>6. CallShape'
  BY <1>1, <1>2, <1>3 DEF CallShape, Busy, JobInLane
<1>7. KernelStaysInBuffers' /\ TagIsHmac'
  BY <1>1, <1>3 DEF KernelStaysInBuffers, TagIsHmac
<1>8. LanesBeforeCall' = LanesBeforeCall
  BY <1>1, <1>3 DEF LanesBeforeCall, JobInLane
<1> QED
  BY <1>1, <1>4, <1>5, <1>6, <1>7, <1>8 DEF Kept, IInv, Ooo!oooVars

\* A turn that leaves the job of the shortest lane in a pass again, with D, q, k
\* and g what the lane has then.
LEMMA TurnStep ==
  ASSUME IInv, Turn, NEW l \in Lanes, l = Shortest,
         NEW D \in Ldata, D.job_in_lane = JobInLane(l), D.size_offset = ldata[l].size_offset,
         NEW q \in Ptr, NEW k \in 0 .. WORD_MAX, NEW g \in Seq(Piece),
         ldata' = [ldata EXCEPT ![l] = D], lens' = [LensLeft EXCEPT ![l] = k],
         data_ptr' = [PtrsMoved EXCEPT ![l] = q], digest' = [Digests EXCEPT ![l] = g],
         call' = [call EXCEPT !.idx = l], UNCHANGED <<unused_lanes, ret, tag>>,
         InPass(l, D, q, k, g, msg_len[JobInLane(l)]),
         IF D.outer_done THEN D.sizes = {} ELSE D.sizes = {SizeOffset(msg_len[JobInLane(l)])}
  PROVE  Kept /\ UNCHANGED Ooo!oooVars
<1>1. call.op # "none" /\ msg_len' = msg_len
  BY DEF Turn
<1>2. Busy(l) /\ JobInLane(l) \in Jobs /\ msg_len[JobInLane(l)] \in MsgLens
  BY <1>1, TurnFacts, BusyLane
<1>3. DOMAIN ldata' = Lanes /\ ldata'[l] = D /\ \A m \in Lanes : m # l => ldata'[m] = ldata[m]
  BY LaneTypes
<1>4. /\ lens'[l] = k /\ data_ptr'[l] = q /\ digest'[l] = g
      /\ \A m \in Lanes : m # l => /\ lens'[m] = LensLeft[m] /\ data_ptr'[m] = PtrsMoved[m]
                                   /\ digest'[m] = Digests[m]
  BY <1>1, TurnTypes
<1>5. \A m \in Lanes : JobInLane(m)' = JobInLane(m)
  BY <1>3 DEF JobInLane
<1>6. \A m \in Lanes : Busy(m)' <=> Busy(m)
  BY <1>5 DEF Busy
<1>7. call' \in [op : {"none", "submit", "flush"}, lane : Lanes, idx : Lanes]
      /\ call'.op = call.op /\ call'.lane = call.lane /\ call'.idx = l
  BY DEF IInv, TypeOK
<1>8. TypeOK' /\ digest' \in [Lanes -> Seq(Piece)]
  <2>1. \A m \in Lanes : ldata'[m] \in Ldata
    BY <1>3, LaneTypes
  <2>2. /\ lens' \in [Lanes -> 0 .. WORD_MAX] /\ data_ptr' \in [Lanes -> Ptr]
        /\ digest' \in [Lanes -> Seq(Piece)]
    BY <1>1, TurnTypes
  <2> QED
    BY <1>1, <1>3, <1>7, <2>1, <2>2 DEF IInv, TypeOK, Ptr
<1>9. StackIsFreeLanes'
  <2>1. {m \in Lanes : ~Busy(m)'} = {m \in Lanes : ~Busy(m)}
    BY <1>6
  <2> QED
    BY <1>1, <1>7, <2>1 DEF IInv, StackIsFreeLanes
<1>10. PaddingIsClean'
  <2> SUFFICES ASSUME NEW m \in Lanes
               PROVE  IF Busy(m)' /\ ~ldata'[m].outer_done
                      THEN LET n == msg_len'[JobInLane(m)'] IN
                           /\ ldata'[m].sizes = {SizeOffset(n)}
                           /\ SizeOffset(n) + 8 <= EXTRA_BLOCK_SIZE
                           /\ SizeOffset(n) > BLOCK
                      ELSE ldata'[m].sizes = {}
    BY DEF PaddingIsClean
  <2>1. CASE m = l
    <3>1. msg_len'[JobInLane(m)'] = msg_len[JobInLane(l)]
      BY <1>1, <1>5, <2>1
    <3>2. /\ SizeOffset(msg_len[JobInLane(l)]) + 8 <= EXTRA_BLOCK_SIZE
          /\ SizeOffset(msg_len[JobInLane(l)]) > BLOCK
      BY <1>2, LengthFacts
    <3> QED
      BY <1>2, <1>3, <1>6, <2>1, <3>1, <3>2
  <2>2. CASE m # l
    <3>1. /\ ldata'[m] = ldata[m] /\ (Busy(m)' <=> Busy(m))
          /\ msg_len'[JobInLane(m)'] = msg_len[JobInLane(m)]
      BY <1>1, <1>3, <1>5, <1>6, <2>2
    <3> QED
      BY <3>1 DEF IInv, PaddingIsClean
  <2> QED
    BY <2>1, <2>2
<1>11. LanesInPass'
  <2> SUFFICES ASSUME NEW m \in Lanes, Busy(m)'
               PROVE  /\ msg_len'[JobInLane(m)'] \in MsgLens
                      /\ ldata'[m].size_offset = SizeOffset(msg_len'[JobInLane(m)'])
                      /\ InPass(m, ldata'[m], data_ptr'[m], lens'[m], digest'[m],
                                msg_len'[JobInLane(m)'])
    BY DEF LanesInPass
  <2>1. Busy(m) /\ msg_len'[JobInLane(m)'] = msg_len[JobInLane(m)]
    BY <1>1, <1>5, <1>6
  <2>2. /\ msg_len[JobInLane(m)] \in MsgLens
        /\ ldata[m].size_offset = SizeOffset(msg_len[JobInLane(m)])
    BY <2>1, BusyLane
  <2>3. CASE m = l
    BY <1>3, <1>4, <2>1, <2>2, <2>3
  <2>4. CASE m # l
    <3>1. InPass(m, ldata[m], PtrsMoved[m], LensLeft[m], Digests[m], msg_len[JobInLane(m)])
      BY <1>1, <2>1, TurnKeepsPasses
    <3> QED
      BY <1>3, <1>4, <2>1, <2>2, <2>4, <3>1
  <2> QED
    BY <2>3, <2>4
<1>12. CallShape'
  <2>1. call.lane \in Lanes /\ Busy(call.lane)
    BY <1>1, LaneTypes DEF IInv, CallShape
  <2> QED
    BY <1>1, <1>2, <1>5, <1>6, <1>7, <2>1 DEF IInv, CallShape, Busy
<1>13. KernelStaysInBuffers'
  BY <1>5, ReadStays
<1>14. TagIsHmac'
  BY <1>1, <1>7 DEF TagIsHmac
<1>15. LanesBeforeCall' = LanesBeforeCall
  BY <1>5, <1>7 DEF LanesBeforeCall
<1> QED
  BY <1>8, <1>9, <1>10, <1>11, <1>12, <1>13, <1>14, <1>15 DEF Kept, IInv, Ooo!oooVars

\* What the turn leaves of the padding of a lane whose outer block is to come.
LEMMA PaddingOfLane ==
  ASSUME IInv, NEW l \in Lanes, Busy(l), ~ldata[l].outer_done
  PROVE  ldata[l].sizes = {SizeOffset(msg_len[JobInLane(l)])}
         /\ ldata[l].size_offset = SizeOffset(msg_len[JobInLane(l)])
BY BusyLane DEF IInv, PaddingIsClean

LEMMA ExtraStep ==
  ASSUME IInv, ProcExtraBlocks
  PROVE  Kept /\ UNCHANGED Ooo!oooVars
<1>1. Turn /\ call.op # "none"
  BY DEF ProcExtraBlocks, Turn
<1> PICK l \in Lanes : l = Shortest
  BY <1>1, TurnFacts
<1> DEFINE n == msg_len[JobInLane(l)]
           D == [ldata[l] EXCEPT !.extra_blocks = 0]
           q == [buf |-> Extra(l), off |-> 0]
           k == ldata[l].extra_blocks
<1>2. /\ k # 0
      /\ lens' = [LensLeft EXCEPT ![l] = k] /\ data_ptr' = [PtrsMoved EXCEPT ![l] = q]
      /\ ldata' = [ldata EXCEPT ![l].extra_blocks = 0] /\ digest' = Digests
      /\ call' = [call EXCEPT !.idx = l] /\ UNCHANGED <<unused_lanes, ret, tag>>
  BY DEF ProcExtraBlocks
<1>3. /\ Busy(l) /\ JobInLane(l) \in Jobs /\ n \in MsgLens /\ ldata[l] \in Ldata
      /\ JobInLane(l) = ldata[l].job_in_lane
  BY <1>1, TurnFacts, BusyLane, LaneTypes DEF JobInLane
<1>4. ~ldata[l].outer_done /\ Digests[l] = Body(JobInLane(l), n) /\ k = ExtraBlocks(n)
  BY <1>1, <1>2, PassEnds
<1>5. /\ D \in Ldata /\ D.job_in_lane = JobInLane(l) /\ D.size_offset = ldata[l].size_offset
      /\ D.extra_blocks = 0 /\ D.outer_done = ldata[l].outer_done /\ D.sizes = ldata[l].sizes
  <2>1. 0 \in 0 .. 2
    OBVIOUS
  <2>2. D \in Ldata
    BY <1>3, <2>1 DEF Ldata
  <2> QED
    BY <1>3, <2>2 DEF Ldata
<1>6. ldata' = [ldata EXCEPT ![l] = D]
  BY <1>2
<1>7. q \in Ptr /\ q.buf = Extra(l) /\ q.off = 0
  BY BufferFacts DEF Ptr
<1>8. k \in 0 .. WORD_MAX /\ q.off + k = ExtraBlocks(n)
  <2>1. k \in Nat /\ k <= 2
    BY <1>3, <1>4, LengthFacts
  <2>2. WORD_MAX \in Nat /\ 2 <= WORD_MAX
    BY DEF WORD_MAX
  <2> QED
    BY <1>4, <1>7, <2>1, <2>2
<1>9. /\ Digests \in [Lanes -> Seq(Piece)] /\ Digests[l] \in Seq(Piece)
      /\ digest' = [Digests EXCEPT ![l] = Digests[l]]
  BY <1>1, <1>2, TurnTypes
<1>10. D.sizes = {SizeOffset(n)}
  BY <1>3, <1>4, <1>5, PaddingOfLane
<1> HIDE DEF D, q, k
<1>11. InPass(l, D, q, k, Digests[l], n)
  <2>1. Digests[l] = Done(Body(JobInLane(l), n), Extra(l), 0)
    BY <1>4 DEF Done
  <2>2. ExtraPass(l, D, q, k, Digests[l], n)
    BY <1>4, <1>5, <1>7, <1>8, <2>1 DEF ExtraPass
  <2> QED
    BY <2>2 DEF InPass
<1> QED
  BY <1>1, <1>2, <1>4, <1>5, <1>6, <1>7, <1>8, <1>9, <1>10, <1>11, TurnStep

LEMMA OuterStep ==
  ASSUME IInv, ProcOuter
  PROVE  Kept /\ UNCHANGED Ooo!oooVars
<1>1. Turn /\ call.op # "none"
  BY DEF ProcOuter, Turn
<1> PICK l \in Lanes : l = Shortest
  BY <1>1, TurnFacts
<1> DEFINE n == msg_len[JobInLane(l)]
           D == [ldata[l] EXCEPT !.outer_done = TRUE, !.inner = Digests[l],
                                 !.sizes = ldata[l].sizes \ {ldata[l].size_offset}]
           q == [buf |-> Outer(l), off |-> 0]
<1>2. /\ ldata[l].extra_blocks = 0 /\ ~ldata[l].outer_done
      /\ lens' = [LensLeft EXCEPT ![l] = 1] /\ data_ptr' = [PtrsMoved EXCEPT ![l] = q]
      /\ ldata' = [ldata EXCEPT ![l].outer_done = TRUE, ![l].inner = Digests[l],
                                ![l].sizes = @ \ {ldata[l].size_offset}]
      /\ digest' = [Digests EXCEPT ![l] = <<>>]
      /\ call' = [call EXCEPT !.idx = l] /\ UNCHANGED <<unused_lanes, ret, tag>>
  BY DEF ProcOuter
<1>3. /\ Busy(l) /\ JobInLane(l) \in Jobs /\ n \in MsgLens /\ ldata[l] \in Ldata
      /\ JobInLane(l) = ldata[l].job_in_lane
  BY <1>1, TurnFacts, BusyLane, LaneTypes DEF JobInLane
<1>4. Digests[l] = Done(Body(JobInLane(l), n), Extra(l), ExtraBlocks(n))
  BY <1>1, <1>2, PassEnds
<1>5. Digests[l] \in Seq(Piece) /\ <<>> \in Seq(Piece)
  <2>1. <<>> \in Seq(Piece)
    OBVIOUS
  <2> QED
    BY <1>1, <2>1, TurnTypes
<1>6. /\ D \in Ldata /\ D.job_in_lane = JobInLane(l) /\ D.size_offset = ldata[l].size_offset
      /\ D.extra_blocks = 0 /\ D.outer_done = TRUE /\ D.inner = Digests[l]
      /\ D.sizes = ldata[l].sizes \ {ldata[l].size_offset}
  <2>1. ldata[l].sizes \ {ldata[l].size_offset} \in SUBSET (0 .. EXTRA_BLOCK_SIZE)
    BY <1>3 DEF Ldata
  <2> QED
    BY <1>2, <1>3, <1>5, <2>1 DEF Ldata, Piece
<1>7. D.sizes = {}
  BY <1>2, <1>3, <1>6, PaddingOfLane
<1>8. ldata' = [ldata EXCEPT ![l] = D]
  BY <1>2
<1>9. q \in Ptr /\ q.buf = Outer(l) /\ q.off = 0
  BY BufferFacts DEF Ptr
<1>10. 1 \in 0 .. WORD_MAX
  BY DEF WORD_MAX
<1> HIDE DEF D, q
<1>11. InPass(l, D, q, 1, <<>>, n)
  <2>1. <<>> = Done(<<>>, q.buf, q.off) /\ q.off + 1 = 1
    BY <1>9 DEF Done
  <2>2. OuterPass(l, D, q, 1, <<>>, n)
    BY <1>3, <1>4, <1>6, <1>9, <2>1 DEF OuterPass
  <2> QED
    BY <2>2 DEF InPass
<1> QED
  BY <1>1, <1>2, <1>5, <1>6, <1>7, <1>8, <1>9, <1>10, <1>11, TurnStep

LEMMA EndStep ==
  ASSUME IInv, EndLoop
  PROVE  Kept /\ Ooo!Next
<1>1. Turn /\ call.op # "none" /\ msg_len' = msg_len
  BY DEF EndLoop, Turn
<1> PICK l \in Lanes : l = Shortest
  BY <1>1, TurnFacts
<1> PICK j \in Jobs : j = JobInLane(l)
  BY <1>1, TurnFacts, BusyLane
<1> DEFINE n == msg_len[j]
<1>2. /\ ldata[l].extra_blocks = 0 /\ ldata[l].outer_done
      /\ ldata' = [ldata EXCEPT ![l].job_in_lane = NULL, ![l].inner = <<>>]
      /\ unused_lanes' = <<l>> \o unused_lanes
      /\ lens' = LensLeft /\ data_ptr' = PtrsMoved
      /\ digest' = [Digests EXCEPT ![l] = <<>>]
      /\ tag' = [inner |-> ldata[l].inner, outer |-> Digests[l]]
      /\ ret' = j /\ call' = NoCall
  BY DEF EndLoop
<1>3. /\ Busy(l) /\ n \in MsgLens /\ ldata[l] \in Ldata /\ j # NULL
  BY <1>1, TurnFacts, BusyLane, LaneTypes, LanesAssumption
<1>4. /\ Digests[l] = Done(<<>>, Outer(l), 1)
      /\ ldata[l].inner = Done(Body(j, n), Extra(l), ExtraBlocks(n))
  BY <1>1, <1>2, PassEnds
<1>5. /\ DOMAIN ldata' = Lanes /\ ldata'[l] \in Ldata
      /\ ldata'[l].job_in_lane = NULL /\ ldata'[l].sizes = ldata[l].sizes
      /\ \A m \in Lanes : m # l => ldata'[m] = ldata[m]
  <2>1. ldata'[l] = [ldata[l] EXCEPT !.job_in_lane = NULL, !.inner = <<>>]
    BY <1>2, LaneTypes
  <2>2. <<>> \in Seq(Piece)
    OBVIOUS
  <2> HIDE DEF n
  <2>3. ldata'[l] \in Ldata
    BY <1>3, <2>1, <2>2 DEF Ldata, Piece
  <2>4. ldata'[l].job_in_lane = NULL /\ ldata'[l].sizes = ldata[l].sizes
    BY <1>3, <2>1 DEF Ldata
  <2> QED
    BY <1>2, <2>3, <2>4, LaneTypes
<1>6. /\ JobInLane(l)' = NULL /\ ~Busy(l)'
      /\ \A m \in Lanes : m # l => JobInLane(m)' = JobInLane(m) /\ (Busy(m)' <=> Busy(m))
  <2>1. JobInLane(l)' = NULL
    BY <1>5 DEF JobInLane
  <2>2. \A m \in Lanes : m # l => JobInLane(m)' = JobInLane(m)
    BY <1>5 DEF JobInLane
  <2> QED
    BY <2>1, <2>2 DEF Busy
<1>7. /\ unused_lanes' \in Seq(Lanes) /\ unused_lanes' # <<>> /\ IsInjective(unused_lanes')
      /\ Head(unused_lanes') = l
      /\ Range(unused_lanes') = {m \in Lanes : ~Busy(m)} \cup {l}
  <2>1. /\ unused_lanes \in Seq(Lanes) /\ IsInjective(unused_lanes)
        /\ Range(unused_lanes) = {m \in Lanes : ~Busy(m)}
    BY DEF IInv, TypeOK, StackIsFreeLanes
  <2>2. l \notin Range(unused_lanes)
    BY <1>3, <2>1
  <2> QED
    BY <1>2, <2>1, <2>2, PushFacts
<1>8. TypeOK'
  <2>1. \A m \in Lanes : ldata'[m] \in Ldata
    BY <1>5, LaneTypes
  <2>2. lens' \in [Lanes -> 0 .. WORD_MAX] /\ data_ptr' \in [Lanes -> Ptr]
    BY <1>1, <1>2, TurnTypes
  <2>3. call' \in [op : {"none", "submit", "flush"}, lane : Lanes, idx : Lanes]
    BY <1>2, LaneFacts DEF NoCall
  <2>4. msg_len' \in [Jobs -> MsgLens \cup {0}] /\ ret' \in Jobs \cup {NULL}
    BY <1>1, <1>2 DEF IInv, TypeOK
  <2> QED
    BY <1>5, <1>7, <2>1, <2>2, <2>3, <2>4 DEF TypeOK, Ptr
<1>9. digest' \in [Lanes -> Seq(Piece)]
  <2>1. <<>> \in Seq(Piece)
    OBVIOUS
  <2> QED
    BY <1>1, <1>2, <2>1, TurnTypes
<1>10. StackIsFreeLanes'
  <2>1. {m \in Lanes : ~Busy(m)'} = {m \in Lanes : ~Busy(m)} \cup {l}
    BY <1>6
  <2> QED
    BY <1>7, <2>1 DEF StackIsFreeLanes
<1>11. PaddingIsClean'
  <2> SUFFICES ASSUME NEW m \in Lanes
               PROVE  IF Busy(m)' /\ ~ldata'[m].outer_done
                      THEN LET i == msg_len'[JobInLane(m)'] IN
                           /\ ldata'[m].sizes = {SizeOffset(i)}
                           /\ SizeOffset(i) + 8 <= EXTRA_BLOCK_SIZE
                           /\ SizeOffset(i) > BLOCK
                      ELSE ldata'[m].sizes = {}
    BY DEF PaddingIsClean
  <2>1. CASE m = l
    BY <1>2, <1>5, <1>6, <2>1 DEF IInv, PaddingIsClean
  <2>2. CASE m # l
    <3>1. /\ ldata'[m] = ldata[m] /\ (Busy(m)' <=> Busy(m))
          /\ msg_len'[JobInLane(m)'] = msg_len[JobInLane(m)]
      BY <1>1, <1>5, <1>6, <2>2
    <3> QED
      BY <3>1 DEF IInv, PaddingIsClean
  <2> QED
    BY <2>1, <2>2
<1>12. LanesInPass'
  <2> SUFFICES ASSUME NEW m \in Lanes, Busy(m)'
               PROVE  /\ msg_len'[JobInLane(m)'] \in MsgLens
                      /\ ldata'[m].size_offset = SizeOffset(msg_len'[JobInLane(m)'])
                      /\ InPass(m, ldata'[m], data_ptr'[m], lens'[m], digest'[m],
                                msg_len'[JobInLane(m)'])
    BY DEF LanesInPass
  <2>1. m # l /\ Busy(m) /\ ldata'[m] = ldata[m]
        /\ msg_len'[JobInLane(m)'] = msg_len[JobInLane(m)]
    BY <1>1, <1>5, <1>6
  <2>2. digest'[m] = Digests[m]
    BY <1>1, <1>2, <2>1, TurnTypes
  <2>3. /\ msg_len[JobInLane(m)] \in MsgLens
        /\ ldata[m].size_offset = SizeOffset(msg_len[JobInLane(m)])
    BY <2>1, BusyLane
  <2>4. InPass(m, ldata[m], PtrsMoved[m], LensLeft[m], Digests[m], msg_len[JobInLane(m)])
    BY <1>1, <2>1, TurnKeepsPasses
  <2> QED
    BY <1>2, <2>1, <2>2, <2>3, <2>4
<1>13. call'.op = "none"
  BY <1>2 DEF NoCall
<1>14. CallShape' /\ KernelStaysInBuffers'
  BY <1>13 DEF CallShape, KernelStaysInBuffers
<1>15. TagIsHmac'
  <2>1. n \in Nat /\ ExtraBlocks(n) # 0
    BY <1>3, LengthFacts
  <2> DEFINE body == [buf |-> Msg(j), from |-> 0, to |-> n \div BLOCK]
             rest == [buf |-> Extra(l), from |-> 0, to |-> ExtraBlocks(n)]
  <2>2. ldata[l].inner = IF n < BLOCK THEN <<rest>> ELSE <<body, rest>>
    BY <1>4, <2>1 DEF Done, Body
  <2>3. Digests[l] = <<[buf |-> Outer(l), from |-> 0, to |-> 1]>>
    BY <1>4 DEF Done
  <2>4. msg_len'[ret'] = n
    BY <1>1, <1>2
  <2> HIDE DEF n
  <2> QED
    BY <1>2, <1>7, <2>2, <2>3, <2>4 DEF TagIsHmac
<1>16. LanesBeforeCall' = [m \in Lanes |-> IF m = l THEN NULL ELSE JobInLane(m)]
  BY <1>6, <1>13 DEF LanesBeforeCall
<1>17. Ooo!Next
  <2>1. CASE call.op = "submit"
    <3> PICK lane \in Lanes : lane = call.lane
      BY LaneTypes
    <3> DEFINE i == JobInLane(lane)
               L == [m \in Lanes |-> IF m = lane THEN i ELSE LanesBeforeCall[m]]
    <3>1. /\ \A m \in Lanes : Busy(m)
          /\ \A m \in Lanes \ {lane} : JobInLane(m) # i
      BY <2>1 DEF IInv, CallShape
    <3>2. LanesBeforeCall = [m \in Lanes |-> IF m = lane THEN NULL ELSE JobInLane(m)]
      BY <2>1 DEF LanesBeforeCall
    <3>3. i \in Jobs
      BY <3>1, LaneTypes
    <3>4. i \notin Ooo!Held(LanesBeforeCall)
      BY <3>1, <3>2, <3>3, LanesAssumption DEF Ooo!Held
    <3>5. lane \in Ooo!Free(LanesBeforeCall)
      BY <3>2 DEF Ooo!Free
    <3>6. L = [m \in Lanes |-> JobInLane(m)]
      BY <3>2
    <3>7. Ooo!Free(L) = {}
      BY <3>1, <3>6 DEF Ooo!Free, Busy
    <3>8. Ooo!Return(L, l)
      BY <1>2, <1>16, <3>6 DEF Ooo!Return
    <3>9. Ooo!Submit(i)
      BY <3>4, <3>5, <3>7, <3>8 DEF Ooo!Submit
    <3> QED
      BY <3>3, <3>9 DEF Ooo!Next
  <2>2. CASE call.op = "flush"
    <3>1. LanesBeforeCall = [m \in Lanes |-> JobInLane(m)]
      BY <2>2 DEF LanesBeforeCall
    <3>2. l \in Lanes \ Ooo!Free(LanesBeforeCall)
      BY <1>3, <3>1 DEF Ooo!Free
    <3>3. Ooo!Return(LanesBeforeCall, l)
      BY <1>2, <1>16, <3>1 DEF Ooo!Return
    <3> QED
      BY <3>2, <3>3 DEF Ooo!Flush, Ooo!Next
  <2>3. call.op \in {"none", "submit", "flush"}
    BY DEF IInv, TypeOK
  <2> QED
    BY <1>1, <2>1, <2>2, <2>3
<1> QED
  BY <1>8, <1>9, <1>10, <1>11, <1>12, <1>14, <1>15, <1>17 DEF Kept, IInv

---------------------------------------------------------------------------
(* The theorems *)

LEMMA InitHolds ==
  ASSUME Init
  PROVE  IInv /\ KernelStaysInBuffers /\ TagIsHmac /\ Ooo!Init
<1>1. /\ unused_lanes \in Seq(Lanes) /\ DOMAIN unused_lanes = 1 .. NumLanes
      /\ unused_lanes # <<>>
      /\ \A i \in 1 .. NumLanes : unused_lanes[i] = i - 1
  <2>1. \A i \in 1 .. NumLanes : i - 1 \in Lanes
    BY LaneFacts
  <2> QED
    BY <2>1, LaneFacts DEF Init
<1>2. IsInjective(unused_lanes)
  BY <1>1, LaneFacts DEF IsInjective
<1>3. Range(unused_lanes) = Lanes
  <2>1. \A l \in Lanes : l + 1 \in 1 .. NumLanes /\ (l + 1) - 1 = l
    BY LaneFacts
  <2>2. \A l \in Lanes : unused_lanes[l + 1] = l
    BY <1>1, <2>1
  <2>3. \A i \in 1 .. NumLanes : unused_lanes[i] \in Lanes
    BY <1>1, LaneFacts
  <2> QED
    BY <1>1, <2>1, <2>2, <2>3 DEF Range
<1>4. /\ DOMAIN ldata = Lanes
      /\ \A l \in Lanes : ldata[l] = [job_in_lane |-> NULL, extra_blocks |-> 0,
                                      outer_done |-> FALSE, size_offset |-> 0,
                                      sizes |-> {}, inner |-> <<>>]
  BY DEF Init
<1>5. \A l \in Lanes : JobInLane(l) = NULL /\ ~Busy(l) /\ ldata[l].sizes = {}
  BY <1>4 DEF JobInLane, Busy
<1>6. /\ call.op = "none" /\ call.lane = 0 /\ call.idx = 0
      /\ call \in [op : {"none", "submit", "flush"}, lane : Lanes, idx : Lanes]
  BY LaneFacts DEF Init, NoCall
<1>7. TypeOK /\ digest \in [Lanes -> Seq(Piece)]
  <2>1. <<>> \in Seq(Piece) /\ 0 \in 0 .. 2 /\ 0 \in Nat
    OBVIOUS
  <2>2. 0 \in 0 .. WORD_MAX /\ 0 \in 0 .. EXTRA_BLOCK_SIZE
    BY DEF WORD_MAX, EXTRA_BLOCK_SIZE, BLOCK
  <2>3. \A l \in Lanes : ldata[l] \in Ldata
    <3>1. [job_in_lane |-> NULL, extra_blocks |-> 0, outer_done |-> FALSE,
           size_offset |-> 0, sizes |-> {}, inner |-> <<>>] \in Ldata
      BY <2>1, <2>2 DEF Ldata, Piece
    <3> QED
      BY <1>4, <3>1
  <2>4. /\ lens \in [Lanes -> 0 .. WORD_MAX] /\ digest \in [Lanes -> Seq(Piece)]
        /\ data_ptr \in [Lanes -> [buf : Buffers \cup {Nowhere}, off : Nat]]
        /\ msg_len \in [Jobs -> MsgLens \cup {0}] /\ ret \in Jobs \cup {NULL}
    BY <2>1, <2>2 DEF Init
  <2> QED
    BY <1>1, <1>4, <1>6, <2>3, <2>4 DEF TypeOK
<1>8. StackIsFreeLanes /\ PaddingIsClean /\ LanesInPass /\ CallShape
  BY <1>1, <1>2, <1>3, <1>5, <1>6 DEF StackIsFreeLanes, PaddingIsClean, LanesInPass, CallShape
<1>9. KernelStaysInBuffers /\ TagIsHmac
  BY <1>6 DEF Init, KernelStaysInBuffers, TagIsHmac
<1>10. Ooo!Init
  BY <1>5, <1>6 DEF Init, Ooo!Init, LanesBeforeCall
<1> QED
  BY <1>7, <1>8, <1>9, <1>10 DEF IInv

\* Every step keeps the invariant and what it promises, and is a call the
\* scheduler counts on or a part of one.
LEMMA CallStep ==
  ASSUME IInv, Next
  PROVE  Kept /\ [Ooo!Next]_(Ooo!oooVars)
<1>1. CASE \E j \in Jobs, n \in MsgLens : Submit(j, n)
  BY <1>1, SubmitStep
<1>2. CASE FlushNull
  BY <1>2, FlushNullStep
<1>3. CASE Flush
  BY <1>3, FlushStep
<1>4. CASE ProcExtraBlocks
  BY <1>4, ExtraStep
<1>5. CASE ProcOuter
  BY <1>5, OuterStep
<1>6. CASE EndLoop
  BY <1>6, EndStep
<1> QED
  BY <1>1, <1>2, <1>3, <1>4, <1>5, <1>6 DEF Next, Loop

LEMMA StutterStep ==
  ASSUME IInv, KernelStaysInBuffers, TagIsHmac, UNCHANGED vars
  PROVE  Kept
<1>1. IInv'
  BY DEF IInv, TypeOK, StackIsFreeLanes, PaddingIsClean, LanesInPass, CallShape, Busy, JobInLane,
         vars
<1>2. KernelStaysInBuffers'
  BY DEF KernelStaysInBuffers, BlocksOf, Live, Busy, JobInLane, Pending, vars
<1>3. TagIsHmac'
  BY DEF TagIsHmac, vars
<1> QED
  BY <1>1, <1>2, <1>3 DEF Kept

LEMMA AllHold == Spec => [](IInv /\ KernelStaysInBuffers /\ TagIsHmac)
<1> DEFINE Inv == IInv /\ KernelStaysInBuffers /\ TagIsHmac
<1>1. Init => Inv
  BY InitHolds
<1>2. Inv /\ [Next]_vars => Inv'
  <2> SUFFICES ASSUME Inv, [Next]_vars PROVE Inv'
    OBVIOUS
  <2>1. CASE Next
    BY <2>1, CallStep DEF Kept
  <2>2. CASE UNCHANGED vars
    BY <2>2, StutterStep DEF Kept
  <2> QED
    BY <2>1, <2>2
<1> QED
  BY <1>1, <1>2, PTL DEF Spec

\* Whatever calls come in whatever order, the stack holds exactly the lanes
\* without a job, the variables stay in their types, and an extra block holds one
\* length, in its place, until its outer block is hashed, and none after: no job
\* is padded with what an earlier one left in its lane (LanesAreSound).
THEOREM HmacLanesSound == Spec => []LanesAreSound
<1>1. IInv => LanesAreSound
  BY DEF IInv, LanesAreSound
<1> QED
  BY <1>1, AllHold, PTL

\* The kernel runs in all lanes as far as the shortest, and reads no byte that is
\* not of a job at hand, in the empty lanes of a flush either
\* (KernelStaysInBuffers).
THEOREM HmacKernelIsSafe == Spec => []KernelStaysInBuffers
BY AllHold, PTL

\* A job that comes back has the tag of its own whole message (TagIsHmac): its
\* blocks, then the padded rest, then the outer block, each once and in order.
THEOREM TagsAreRight == Spec => []TagIsHmac
BY AllHold, PTL

\* The manager does what the scheduler relies on (ImplementsOooMgr): a submit that
\* has to finish a job counts when its loop ends.
THEOREM HmacLanesRefineOoo == Spec => ImplementsOooMgr
<1>1. Init => Ooo!Init
  BY InitHolds
<1>2. IInv /\ [Next]_vars => [Ooo!Next]_(Ooo!oooVars)
  <2> SUFFICES ASSUME IInv, [Next]_vars PROVE Ooo!Next \/ UNCHANGED Ooo!oooVars
    OBVIOUS
  <2>1. CASE Next
    BY <2>1, CallStep
  <2>2. CASE UNCHANGED vars
    <3>1. LanesBeforeCall' = LanesBeforeCall /\ ret' = ret
      BY <2>2 DEF vars, LanesBeforeCall, JobInLane
    <3> QED
      BY <3>1 DEF Ooo!oooVars
  <2> QED
    BY <2>1, <2>2
<1>3. Spec => []IInv
  BY AllHold, PTL
<1> QED
  BY <1>1, <1>2, <1>3, PTL DEF Spec, ImplementsOooMgr, Ooo!Spec

=============================================================================
