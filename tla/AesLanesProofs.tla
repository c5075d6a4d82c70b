--------------------------- MODULE AesLanesProofs ---------------------------
(***************************************************************************)
(* The OOO manager of AES-CBC keeps its lanes for any number of them, any  *)
(* width of the words of lens, any jobs and lengths, and implements what   *)
(* the scheduler relies on (OooMgr).                                       *)
(***************************************************************************)
EXTENDS AesLanes, LaneLemmas

\* What LanesAssumption says of the lanes as numbers.
LEMMA LaneFacts ==
  NumLanes \in Nat /\ NumLanes >= 1 /\ Lanes = 0 .. NumLanes - 1 /\ Lanes # {}
<1>1. NumLanes \in Nat /\ NumLanes >= 1 /\ Lanes = 0 .. NumLanes - 1
  BY LanesAssumption DEF Lanes
<1>2. 0 \in Lanes
  BY <1>1
<1> QED
  BY <1>1, <1>2

\* The shortest lane is one of the lanes, and none is shorter.
LEMMA MinLaneIsLeast ==
  ASSUME NEW L \in [Lanes -> Nat]
  PROVE  /\ MinLane(L) \in Lanes
         /\ \A k \in Lanes : L[MinLane(L)] <= L[k]
<1> DEFINE Is(m) == \A k \in Lanes : L[m] < L[k] \/ (L[m] = L[k] /\ m <= k)
<1>1. \E l \in Lanes : Is(l)
  BY LaneFacts, ShortestExists
<1>2. MinLane(L) \in Lanes /\ Is(MinLane(L))
  BY <1>1 DEF MinLane
<1>3. \A m \in Lanes : Is(m) => \A k \in Lanes : L[m] <= L[k]
  <2> SUFFICES ASSUME NEW m \in Lanes, Is(m), NEW k \in Lanes PROVE L[m] <= L[k]
    OBVIOUS
  <2>1. L[m] \in Nat /\ L[k] \in Nat /\ (L[m] < L[k] \/ L[m] = L[k])
    OBVIOUS
  <2> QED
    BY <2>1
<1> HIDE DEF Is
<1> QED
  BY <1>2, <1>3

---------------------------------------------------------------------------
(* The invariant *)

\* The three parts are one inductive invariant: the stack says which lanes the
\* kernel may find empty, and what is left in the others says how far it runs.
IInv == TypeOK /\ StackIsFreeLanes /\ LaneIsExact

\* Reduction modulo the width of a word changes nothing that fits it.
LEMMA FitsWord ==
  ASSUME NEW W \in Nat, NEW a \in 0 .. W
  PROVE  a % (W + 1) = a
OBVIOUS

\* "and len, -16" keeps a length that fits a word.
LEMMA WholeFits ==
  ASSUME NEW n \in MsgLens
  PROVE  Whole(n) \in Nat /\ Whole(n) < WORD_MAX
<1>1. n \in Nat /\ n <= WORD_MAX - 1 /\ WORD_MAX \in Nat
  BY LanesAssumption DEF BLOCK, MB_MAX_LEN16
<1>2. n % 16 \in 0 .. 15 /\ n % 16 <= n
  BY <1>1
<1> QED
  BY <1>1, <1>2 DEF Whole, BLOCK

\* What a call has prepared when it comes to the shortest lane: jobs J, free
\* lanes U, pointers A, lengths L for the kernel and what is stored of them, and
\* message lengths M.  A free lane runs on the pointers of some busy one, and is
\* not shorter than any.
Prepared(J, U, A, L, stored, M) ==
  /\ J \in [Lanes -> Jobs \cup {NULL}]
  /\ U \in Seq(Lanes) /\ IsInjective(U)
  /\ Range(U) = {l \in Lanes : J[l] = NULL}
  /\ A \in [Lanes -> [job : Jobs \cup {NULL}, off : Nat]]
  /\ L \in [Lanes -> 0 .. WORD_MAX] /\ stored \in [Lanes -> 0 .. WORD_MAX]
  /\ M \in [Jobs -> MsgLens \cup {0}]
  /\ \E l \in Lanes : J[l] # NULL
  /\ \A l \in Lanes :
       IF J[l] = NULL
         THEN L[l] = WORD_MAX /\ \E g \in Lanes : J[g] # NULL /\ A[l] = A[g]
         ELSE /\ A[l].job = J[l] /\ A[l].off + L[l] = Whole(M[J[l]])
              /\ L[l] < WORD_MAX /\ stored[l] = L[l]

\* The shortest lane has a job; the length of the call is at most what is left
\* in any lane with a job.
LEMMA ShortestIsBusy ==
  ASSUME NEW J, NEW U, NEW A, NEW L, NEW stored, NEW M, Prepared(J, U, A, L, stored, M)
  PROVE  /\ MinLane(L) \in Lanes /\ J[MinLane(L)] \in Jobs
         /\ L[MinLane(L)] \in Nat /\ L[MinLane(L)] < WORD_MAX
         /\ \A k \in Lanes : L[MinLane(L)] <= L[k]
<1>1. L \in [Lanes -> Nat] /\ WORD_MAX \in Nat
  BY LanesAssumption DEF Prepared
<1>2. MinLane(L) \in Lanes /\ \A k \in Lanes : L[MinLane(L)] <= L[k]
  BY <1>1, MinLaneIsLeast
<1>3. PICK g \in Lanes : J[g] # NULL
  BY DEF Prepared
<1>4. L[g] < WORD_MAX /\ L[g] \in Nat
  BY <1>1, <1>3 DEF Prepared
<1>5. L[MinLane(L)] < WORD_MAX /\ L[MinLane(L)] \in Nat
  <2>1. L[MinLane(L)] \in Nat /\ L[MinLane(L)] <= L[g]
    BY <1>1, <1>2
  <2> QED
    BY <1>1, <1>4, <2>1
<1>6. J[MinLane(L)] # NULL
  <2>1. J[MinLane(L)] = NULL => L[MinLane(L)] = WORD_MAX
    BY <1>2 DEF Prepared
  <2> QED
    BY <1>1, <1>5, <2>1
<1>7. J[MinLane(L)] \in Jobs
  BY <1>2, <1>6 DEF Prepared
<1> QED
  BY <1>2, <1>5, <1>7

\* What a lane with a job has after the kernel has run.
LEMMA KernelAdvances ==
  ASSUME NEW J, NEW U, NEW A, NEW L, NEW stored, NEW M, Prepared(J, U, A, L, stored, M),
         Encrypt(A, L, L[MinLane(L)], stored),
         NEW l \in Lanes, J[l] # NULL
  PROVE  /\ in'[l].job = J[l]
         /\ in'[l].off = A[l].off + L[MinLane(L)]
         /\ lens'[l] = L[l] - L[MinLane(L)]
<1> DEFINE n == L[MinLane(L)]
<1>1. n \in Nat /\ n <= L[l] /\ L[l] \in 0 .. WORD_MAX /\ WORD_MAX \in Nat
  <2>1. n \in Nat /\ n <= L[l]
    BY ShortestIsBusy
  <2>2. L[l] \in 0 .. WORD_MAX /\ WORD_MAX \in Nat
    BY LanesAssumption DEF Prepared
  <2> QED
    BY <2>1, <2>2
<1>2. stored[l] = L[l] /\ A[l].job = J[l] /\ A[l] \in [job : Jobs \cup {NULL}, off : Nat]
  BY DEF Prepared
<1>3. in'[l] = [A[l] EXCEPT !.off = @ + n]
  BY DEF Encrypt
<1>4. in'[l].job = J[l] /\ in'[l].off = A[l].off + n
  BY <1>2, <1>3
<1>5. lens'[l] = L[l] - n
  <2>1. CASE n = 0
    BY <1>1, <1>2, <2>1 DEF Encrypt
  <2>2. CASE n # 0
    <3>1. lens'[l] = (L[l] - n) % (WORD_MAX + 1)
      BY <2>2 DEF Encrypt
    <3>2. L[l] - n \in 0 .. WORD_MAX
      BY <1>1
    <3> QED
      BY <1>1, <3>1, <3>2, FitsWord
  <2> QED
    BY <2>1, <2>2
<1> QED
  BY <1>4, <1>5

\* The common end of a submit and of a flush: the kernel runs, the job of the
\* shortest lane goes back.
LEMMA KernelCall ==
  ASSUME NEW J, NEW U, NEW A, NEW L, NEW stored, NEW M, Prepared(J, U, A, L, stored, M),
         Encrypt(A, L, L[MinLane(L)], stored), Finish(J, U, MinLane(L)),
         msg_len' = M
  PROVE  /\ IInv' /\ KernelStaysInBuffers' /\ ReturnedJobIsWhole'
         /\ Ooo!Return(J, MinLane(L))
<1> DEFINE d == MinLane(L)
           n == L[d]
<1>1. /\ d \in Lanes /\ J[d] \in Jobs /\ J[d] # NULL /\ n \in Nat
      /\ \A k \in Lanes : n <= L[k]
  BY ShortestIsBusy, LanesAssumption
<1>2. /\ J \in [Lanes -> Jobs \cup {NULL}] /\ A \in [Lanes -> [job : Jobs \cup {NULL}, off : Nat]]
      /\ L \in [Lanes -> 0 .. WORD_MAX] /\ stored \in [Lanes -> 0 .. WORD_MAX]
      /\ M \in [Jobs -> MsgLens \cup {0}]
  BY DEF Prepared
<1>3. ret' = J[d] /\ job_in_lane' = [J EXCEPT ![d] = NULL] /\ unused_lanes' = <<d>> \o U
  BY DEF Finish
<1>4. \A l \in Lanes : J[l] # NULL => /\ in'[l].job = J[l] /\ in'[l].off = A[l].off + n
                                      /\ lens'[l] = L[l] - n
  BY KernelAdvances
<1>5. \A l \in Lanes : J[l] # NULL =>
        /\ A[l].job = J[l] /\ A[l].off \in Nat /\ L[l] \in 0 .. WORD_MAX
        /\ A[l].off + L[l] = Whole(M[J[l]]) /\ L[l] < WORD_MAX
  BY <1>2 DEF Prepared
<1>6. in' \in [Lanes -> [job : Jobs \cup {NULL}, off : Nat]]
  <2>1. \A l \in Lanes : [A[l] EXCEPT !.off = @ + n] \in [job : Jobs \cup {NULL}, off : Nat]
    BY <1>1, <1>2
  <2> QED
    BY <2>1 DEF Encrypt
<1>7. lens' \in [Lanes -> 0 .. WORD_MAX]
  <2>1. \A l \in Lanes : (L[l] - n) % (WORD_MAX + 1) \in 0 .. WORD_MAX
    <3> TAKE l \in Lanes
    <3>1. n \in Nat /\ n <= L[l] /\ L[l] \in 0 .. WORD_MAX /\ WORD_MAX \in Nat
      BY <1>1, <1>2, LanesAssumption
    <3>2. L[l] - n \in 0 .. WORD_MAX
      BY <3>1
    <3> QED
      BY <3>1, <3>2, FitsWord
  <2> QED
    BY <1>2, <2>1 DEF Encrypt
<1>8. /\ U \in Seq(Lanes) /\ IsInjective(U) /\ Range(U) = {l \in Lanes : J[l] = NULL}
      /\ d \notin Range(U)
  BY <1>1 DEF Prepared
<1>9. /\ unused_lanes' \in Seq(Lanes) /\ unused_lanes' # <<>> /\ IsInjective(unused_lanes')
      /\ Head(unused_lanes') = d /\ Range(unused_lanes') = Range(U) \cup {d}
  BY <1>1, <1>3, <1>8, PushFacts
<1>10. /\ job_in_lane' \in [Lanes -> Jobs \cup {NULL}]
       /\ \A l \in Lanes : job_in_lane'[l] = IF l = d THEN NULL ELSE J[l]
  BY <1>1, <1>2, <1>3
<1>11. read' \subseteq [job : Jobs \cup {NULL}, to : Nat]
  <2>1. \A l \in Lanes :
          [job |-> A[l].job, to |-> A[l].off + n] \in [job : Jobs \cup {NULL}, to : Nat]
    BY <1>1, <1>2
  <2> QED
    BY <2>1 DEF Encrypt
<1>12. TypeOK'
  BY <1>1, <1>2, <1>3, <1>6, <1>7, <1>9, <1>10, <1>11 DEF TypeOK
<1>13. StackIsFreeLanes'
  <2>1. Range(unused_lanes') = {l \in Lanes : job_in_lane'[l] = NULL}
    BY <1>1, <1>8, <1>9, <1>10
  <2> QED
    BY <1>9, <2>1 DEF StackIsFreeLanes
<1>14. LaneIsExact'
  <2> SUFFICES ASSUME NEW l \in Lanes, job_in_lane'[l] # NULL
               PROVE  /\ in'[l].job = job_in_lane'[l]
                      /\ in'[l].off + lens'[l] = Whole(msg_len'[in'[l].job])
                      /\ lens'[l] < WORD_MAX
    BY DEF LaneIsExact
  <2>1. job_in_lane'[l] = J[l] /\ J[l] # NULL
    BY <1>10
  <2>2. /\ in'[l].job = J[l] /\ in'[l].off = A[l].off + n /\ lens'[l] = L[l] - n
        /\ A[l].off \in Nat /\ L[l] \in 0 .. WORD_MAX /\ L[l] < WORD_MAX
        /\ A[l].off + L[l] = Whole(M[J[l]]) /\ n <= L[l]
    BY <1>1, <1>4, <1>5, <2>1
  <2>3. in'[l].off + lens'[l] = A[l].off + L[l] /\ lens'[l] < WORD_MAX
    BY <1>1, <2>2, LanesAssumption
  <2> QED
    BY <2>1, <2>2, <2>3
<1>15. KernelStaysInBuffers'
  <2> SUFFICES ASSUME NEW r \in read'
               PROVE  /\ r.job \in Pending' \cup ({ret'} \ {NULL})
                      /\ r.to <= Whole(M[r.job])
    BY DEF KernelStaysInBuffers
  <2>1. PICK l \in Lanes : r = [job |-> A[l].job, to |-> A[l].off + n]
    BY DEF Encrypt
  <2>2. PICK g \in Lanes : J[g] # NULL /\ A[l] = A[g]
    BY DEF Prepared
  <2>3. r.job = J[g] /\ r.to = A[g].off + n
    BY <1>5, <2>1, <2>2
  <2>4. r.to <= Whole(M[r.job])
    BY <1>1, <1>5, <2>2, <2>3
  <2>5. r.job \in Pending' \cup ({ret'} \ {NULL})
    BY <1>3, <1>10, <2>2, <2>3 DEF Pending
  <2> QED
    BY <2>4, <2>5
<1>16. ReturnedJobIsWhole'
  <2>1. in'[d] \in [job : Jobs \cup {NULL}, off : Nat]
    BY <1>1, <1>6
  <2>2. in'[d].job = ret' /\ in'[d].off = Whole(M[ret'])
    BY <1>1, <1>3, <1>4, <1>5
  <2>3. in'[d] = [job |-> ret', off |-> Whole(M[ret'])]
    BY <2>1, <2>2
  <2> QED
    BY <1>9, <2>3 DEF ReturnedJobIsWhole
<1>17. Ooo!Return(J, d)
  BY <1>1, <1>2, <1>3 DEF Ooo!Return
<1> QED
  BY <1>12, <1>13, <1>14, <1>15, <1>16, <1>17 DEF IInv

---------------------------------------------------------------------------
(* The calls *)

\* What a call promises.
Kept == IInv' /\ KernelStaysInBuffers' /\ ReturnedJobIsWhole'

LEMMA SubmitStep ==
  ASSUME IInv, NEW j \in Jobs, NEW n \in MsgLens, Submit(j, n)
  PROVE  Kept /\ Ooo!Submit(j)
<1> DEFINE lane == Head(unused_lanes)
           U    == Tail(unused_lanes)
           J    == [job_in_lane EXCEPT ![lane] = j]
           A    == [in EXCEPT ![lane] = [job |-> j, off |-> 0]]
           L    == [lens EXCEPT ![lane] = Whole(n)]
           M    == [msg_len EXCEPT ![j] = n]
<1>1. /\ unused_lanes \in Seq(Lanes) /\ unused_lanes # <<>> /\ IsInjective(unused_lanes)
      /\ Range(unused_lanes) = {l \in Lanes : job_in_lane[l] = NULL}
      /\ job_in_lane \in [Lanes -> Jobs \cup {NULL}] /\ lens \in [Lanes -> 0 .. WORD_MAX]
      /\ in \in [Lanes -> [job : Jobs \cup {NULL}, off : Nat]]
      /\ msg_len \in [Jobs -> MsgLens \cup {0}]
  BY DEF IInv, TypeOK, StackIsFreeLanes
<1>2. /\ lane \in Lanes /\ job_in_lane[lane] = NULL
      /\ U \in Seq(Lanes) /\ IsInjective(U)
      /\ Range(U) = {l \in Lanes : job_in_lane[l] = NULL} \ {lane}
  BY <1>1, PopFacts
<1>3. j # NULL /\ Whole(n) \in Nat /\ Whole(n) < WORD_MAX /\ WORD_MAX \in Nat
  BY WholeFits, LanesAssumption
<1>4. /\ J \in [Lanes -> Jobs \cup {NULL}] /\ J[lane] = j
      /\ \A l \in Lanes : l # lane => J[l] = job_in_lane[l]
  BY <1>1, <1>2
<1>5. /\ A \in [Lanes -> [job : Jobs \cup {NULL}, off : Nat]]
      /\ A[lane].job = j /\ A[lane].off = 0
      /\ \A l \in Lanes : l # lane => A[l] = in[l]
  BY <1>1, <1>2
<1>6. /\ L \in [Lanes -> 0 .. WORD_MAX] /\ L[lane] = Whole(n)
      /\ \A l \in Lanes : l # lane => L[l] = lens[l]
  BY <1>1, <1>2, <1>3
<1>7. /\ M \in [Jobs -> MsgLens \cup {0}] /\ M[j] = n
      /\ \A k \in Jobs : k # j => M[k] = msg_len[k]
  BY <1>1
<1>8. Range(U) = {l \in Lanes : J[l] = NULL}
  BY <1>2, <1>3, <1>4
<1>9. \A l \in Lanes : J[l] # NULL =>
        A[l].job = J[l] /\ A[l].off + L[l] = Whole(M[J[l]]) /\ L[l] < WORD_MAX
  <2> SUFFICES ASSUME NEW l \in Lanes, J[l] # NULL
               PROVE  A[l].job = J[l] /\ A[l].off + L[l] = Whole(M[J[l]]) /\ L[l] < WORD_MAX
    OBVIOUS
  <2>1. CASE l = lane
    BY <1>3, <1>4, <1>5, <1>6, <1>7, <2>1
  <2>2. CASE l # lane
    <3>1. J[l] = job_in_lane[l] /\ A[l] = in[l] /\ L[l] = lens[l]
      BY <1>4, <1>5, <1>6, <2>2
    <3>2. /\ in[l].job = job_in_lane[l] /\ lens[l] < WORD_MAX
          /\ in[l].off + lens[l] = Whole(msg_len[in[l].job])
      BY <3>1 DEF IInv, LaneIsExact
    <3>3. job_in_lane[l] # j /\ job_in_lane[l] \in Jobs
      BY <1>1, <3>1 DEF Submit, Pending
    <3> QED
      BY <1>7, <3>1, <3>2, <3>3
  <2> QED
    BY <2>1, <2>2
<1>10. j \notin Ooo!Held(job_in_lane) /\ lane \in Ooo!Free(job_in_lane)
  BY <1>2 DEF Submit, Pending, Ooo!Held, Ooo!Free
<1>11. J = [k \in Lanes |-> IF k = lane THEN j ELSE job_in_lane[k]]
  BY <1>1
<1>12. msg_len' = M
  BY DEF Submit
<1>13. CASE U # <<>>
  <2>1. /\ unused_lanes' = U /\ job_in_lane' = J /\ in' = A /\ lens' = L
        /\ ret' = NULL /\ read' = {}
    BY <1>13 DEF Submit
  <2> HIDE DEF lane, U, J, A, L, M
  <2>2. TypeOK'
    BY <1>2, <1>4, <1>5, <1>6, <1>7, <1>12, <2>1 DEF TypeOK
  <2>3. StackIsFreeLanes'
    BY <1>2, <1>8, <1>13, <2>1 DEF StackIsFreeLanes
  <2>4. LaneIsExact'
    BY <1>9, <1>12, <2>1 DEF LaneIsExact
  <2>5. KernelStaysInBuffers' /\ ReturnedJobIsWhole'
    BY <2>1 DEF KernelStaysInBuffers, ReturnedJobIsWhole
  <2>6. Ooo!Free(J) # {}
    <3>1. Head(U) \in Range(U)
      BY <1>2, <1>13, PopFacts
    <3> QED
      BY <1>8, <3>1 DEF Ooo!Free
  <2>7. Ooo!Submit(j)
    BY <1>10, <1>11, <2>1, <2>6 DEF Ooo!Submit
  <2> QED
    BY <2>2, <2>3, <2>4, <2>5, <2>7 DEF Kept, IInv
<1>14. CASE U = <<>>
  <2>1. Encrypt(A, L, L[MinLane(L)], L) /\ Finish(J, U, MinLane(L))
    BY <1>14 DEF Submit
  <2> HIDE DEF lane, U, J, A, L, M
  <2>2. \A l \in Lanes : J[l] # NULL
    <3>1. Range(U) = {}
      BY <1>14 DEF Range
    <3> QED
      BY <1>8, <3>1
  <2>3. Prepared(J, U, A, L, L, M)
    BY <1>2, <1>4, <1>5, <1>6, <1>7, <1>8, <1>9, <2>2 DEF Prepared
  <2>4. Kept /\ Ooo!Return(J, MinLane(L)) /\ MinLane(L) \in Lanes
    BY <1>12, <2>1, <2>3, KernelCall, ShortestIsBusy DEF Kept
  <2>5. Ooo!Free(J) = {}
    BY <2>2 DEF Ooo!Free
  <2> QED
    BY <1>10, <1>11, <2>4, <2>5 DEF Ooo!Submit
<1> QED
  BY <1>13, <1>14

LEMMA FlushNullStep ==
  ASSUME IInv, FlushNull
  PROVE  Kept /\ Ooo!Flush
<1>1. \A l \in Lanes : job_in_lane[l] = NULL
  <2>1. Range(unused_lanes) = Lanes
    BY FullStack, LaneFacts DEF IInv, TypeOK, StackIsFreeLanes, FlushNull
  <2> QED
    BY <2>1 DEF IInv, StackIsFreeLanes
<1>2. ret' = NULL /\ read' = {} /\ UNCHANGED <<unused_lanes, job_in_lane, lens, in, msg_len>>
  BY DEF FlushNull
<1>3. Ooo!Held(job_in_lane) = {}
  BY <1>1 DEF Ooo!Held
<1>4. IInv'
  BY <1>2 DEF IInv, TypeOK, StackIsFreeLanes, LaneIsExact
<1>5. KernelStaysInBuffers' /\ ReturnedJobIsWhole'
  BY <1>2 DEF KernelStaysInBuffers, ReturnedJobIsWhole
<1> QED
  BY <1>2, <1>3, <1>4, <1>5 DEF Kept, Ooo!Flush

LEMMA FlushOneStep ==
  ASSUME IInv, FlushOne
  PROVE  Kept /\ Ooo!Flush
<1> DEFINE Busy == {l \in Lanes : job_in_lane[l] # NULL}
           good == Max(Busy)
           A    == CopyGoodLane(good)
           L    == MaskEmpty
<1>1. /\ unused_lanes \in Seq(Lanes) /\ IsInjective(unused_lanes)
      /\ Range(unused_lanes) = {l \in Lanes : job_in_lane[l] = NULL}
      /\ job_in_lane \in [Lanes -> Jobs \cup {NULL}] /\ lens \in [Lanes -> 0 .. WORD_MAX]
      /\ in \in [Lanes -> [job : Jobs \cup {NULL}, off : Nat]]
      /\ msg_len \in [Jobs -> MsgLens \cup {0}]
  BY DEF IInv, TypeOK, StackIsFreeLanes
<1>2. PICK g \in Lanes : job_in_lane[g] # NULL
  <2>1. Len(unused_lanes) < NumLanes
    BY DEF FlushOne
  <2> QED
    BY <1>1, <2>1, FullStack, LaneFacts
<1>3. good \in Lanes /\ job_in_lane[good] # NULL
  <2>1. Busy \in SUBSET Lanes /\ Busy # {}
    BY <1>2
  <2>2. good \in Busy
    BY <2>1, MaxIsMember, LaneFacts
  <2> QED
    BY <2>2
<1>4. /\ Encrypt(A, L, L[MinLane(L)], lens)
      /\ Finish(job_in_lane, unused_lanes, MinLane(L)) /\ msg_len' = msg_len
  BY DEF FlushOne
<1> HIDE DEF good
<1>5. /\ A \in [Lanes -> [job : Jobs \cup {NULL}, off : Nat]]
      /\ \A l \in Lanes : A[l] = IF job_in_lane[l] = NULL THEN in[good] ELSE in[l]
  BY <1>1, <1>3 DEF CopyGoodLane
<1>6. /\ L \in [Lanes -> 0 .. WORD_MAX]
      /\ \A l \in Lanes : L[l] = IF job_in_lane[l] = NULL THEN WORD_MAX ELSE lens[l]
  BY <1>1, LanesAssumption DEF MaskEmpty
<1> HIDE DEF A, L
<1>7. ASSUME NEW l \in Lanes
      PROVE  IF job_in_lane[l] = NULL
               THEN L[l] = WORD_MAX /\ \E k \in Lanes : job_in_lane[k] # NULL /\ A[l] = A[k]
               ELSE /\ A[l].job = job_in_lane[l]
                    /\ A[l].off + L[l] = Whole(msg_len[job_in_lane[l]])
                    /\ L[l] < WORD_MAX /\ lens[l] = L[l]
  <2>1. CASE job_in_lane[l] = NULL
    BY <1>3, <1>5, <1>6, <2>1
  <2>2. CASE job_in_lane[l] # NULL
    <3>1. A[l] = in[l] /\ L[l] = lens[l]
      BY <1>5, <1>6, <2>2
    <3>2. /\ in[l].job = job_in_lane[l] /\ lens[l] < WORD_MAX
          /\ in[l].off + lens[l] = Whole(msg_len[in[l].job])
      BY <2>2 DEF IInv, LaneIsExact
    <3> QED
      BY <2>2, <3>1, <3>2
  <2> QED
    BY <2>1, <2>2
<1>8. Prepared(job_in_lane, unused_lanes, A, L, lens, msg_len)
  BY <1>1, <1>2, <1>5, <1>6, <1>7 DEF Prepared
<1>9. Kept /\ Ooo!Return(job_in_lane, MinLane(L))
  BY <1>4, <1>8, KernelCall DEF Kept
<1>10. MinLane(L) \in Lanes \ Ooo!Free(job_in_lane)
  <2>1. MinLane(L) \in Lanes /\ job_in_lane[MinLane(L)] \in Jobs
    BY <1>8, ShortestIsBusy
  <2> QED
    BY <2>1, LanesAssumption DEF Ooo!Free
<1> QED
  BY <1>9, <1>10 DEF Ooo!Flush

---------------------------------------------------------------------------
(* The theorems *)

LEMMA InitHolds ==
  ASSUME Init
  PROVE  IInv /\ KernelStaysInBuffers /\ ReturnedJobIsWhole /\ Ooo!Init
<1>1. /\ unused_lanes \in Seq(Lanes) /\ Len(unused_lanes) = NumLanes
      /\ DOMAIN unused_lanes = 1 .. NumLanes
      /\ \A i \in 1 .. NumLanes : unused_lanes[i] = i - 1
  <2>1. \A i \in 1 .. NumLanes : i - 1 \in Lanes
    BY LanesAssumption DEF Lanes
  <2> QED
    BY <2>1, LanesAssumption DEF Init
<1>2. unused_lanes # <<>>
  BY <1>1, LanesAssumption
<1>3. IsInjective(unused_lanes)
  BY <1>1, LanesAssumption DEF IsInjective
<1>4. Range(unused_lanes) = Lanes
  <2>1. \A l \in Lanes : l + 1 \in 1 .. NumLanes /\ (l + 1) - 1 = l
    BY LanesAssumption DEF Lanes
  <2>2. \A l \in Lanes : unused_lanes[l + 1] = l
    BY <1>1, <2>1
  <2>3. \A i \in 1 .. NumLanes : unused_lanes[i] \in Lanes
    BY <1>1
  <2> QED
    BY <1>1, <2>1, <2>2, <2>3 DEF Range
<1>5. TypeOK
  BY <1>1, LanesAssumption DEF Init, TypeOK
<1>6. StackIsFreeLanes
  BY <1>2, <1>3, <1>4 DEF Init, StackIsFreeLanes
<1>7. LaneIsExact /\ KernelStaysInBuffers /\ ReturnedJobIsWhole
  BY DEF Init, LaneIsExact, KernelStaysInBuffers, ReturnedJobIsWhole
<1>8. Ooo!Init
  BY DEF Init, Ooo!Init
<1> QED
  BY <1>5, <1>6, <1>7, <1>8 DEF IInv

\* Every call keeps the invariant and what it promises, and is one of the calls
\* that the scheduler counts on.
LEMMA CallStep ==
  ASSUME IInv, Next
  PROVE  Kept /\ Ooo!Next
<1>1. CASE \E j \in Jobs, n \in MsgLens : Submit(j, n)
  <2>1. PICK j \in Jobs, n \in MsgLens : Submit(j, n)
    BY <1>1
  <2> QED
    BY <2>1, SubmitStep DEF Ooo!Next
<1>2. CASE FlushNull
  BY <1>2, FlushNullStep DEF Ooo!Next
<1>3. CASE FlushOne
  BY <1>3, FlushOneStep DEF Ooo!Next
<1> QED
  BY <1>1, <1>2, <1>3 DEF Next

LEMMA StutterStep ==
  ASSUME IInv, KernelStaysInBuffers, ReturnedJobIsWhole, UNCHANGED vars
  PROVE  Kept
<1>1. IInv'
  BY DEF IInv, TypeOK, StackIsFreeLanes, LaneIsExact, vars
<1>2. KernelStaysInBuffers' /\ ReturnedJobIsWhole'
  BY DEF KernelStaysInBuffers, ReturnedJobIsWhole, Pending, vars
<1> QED
  BY <1>1, <1>2 DEF Kept

LEMMA AllHold == Spec => [](IInv /\ KernelStaysInBuffers /\ ReturnedJobIsWhole)
<1> DEFINE Inv == IInv /\ KernelStaysInBuffers /\ ReturnedJobIsWhole
<1>1. Init => Inv
  BY InitHolds
<1>2. Inv /\ [Next]_vars => Inv'
  <2> SUFFICES ASSUME Inv, [Next]_vars PROVE Inv'
    OBVIOUS
  <2>1. CASE Next
    BY <2>1, CallStep DEF Kept
  <2>2. CASE UNCHANGED vars
    BY <2>2, StutterStep DEF Kept
  <2> QED
    BY <2>1, <2>2
<1> QED
  BY <1>1, <1>2, PTL DEF Spec

\* The variables of the manager stay in their types: a length never leaves its
\* word, nor an index its lanes.
THEOREM LanesTyped == Spec => []TypeOK
<1>1. IInv => TypeOK
  BY DEF IInv
<1> QED
  BY <1>1, AllHold, PTL

\* The next submit finds a lane: the stack holds exactly the lanes without a job
\* (StackIsFreeLanes), for every number of lanes.
THEOREM StackKept == Spec => []StackIsFreeLanes
<1>1. IInv => StackIsFreeLanes
  BY DEF IInv
<1> QED
  BY <1>1, AllHold, PTL

\* What is done and what is left of a lane's job make up the job (LaneIsExact).
THEOREM LanesExact == Spec => []LaneIsExact
<1>1. IInv => LaneIsExact
  BY DEF IInv
<1> QED
  BY <1>1, AllHold, PTL

\* No lane, empty ones included, makes the kernel leave the buffers of the jobs
\* at hand (KernelStaysInBuffers).
THEOREM KernelIsSafe == Spec => []KernelStaysInBuffers
BY AllHold, PTL

\* A job comes back encrypted to its last block (ReturnedJobIsWhole).
THEOREM JobsComeBackWhole == Spec => []ReturnedJobIsWhole
BY AllHold, PTL

\* The manager does what the scheduler relies on (ImplementsOooMgr).
THEOREM LanesRefineOoo == Spec => ImplementsOooMgr
<1>1. Init => Ooo!Init
  BY InitHolds
<1>2. IInv /\ [Next]_vars => [Ooo!Next]_(Ooo!oooVars)
  <2> SUFFICES ASSUME IInv, [Next]_vars PROVE Ooo!Next \/ UNCHANGED Ooo!oooVars
    OBVIOUS
  <2>1. CASE Next
    BY <2>1, CallStep
  <2>2. CASE UNCHANGED vars
    BY <2>2 DEF vars, Ooo!oooVars
  <2> QED
    BY <2>1, <2>2
<1>3. Spec => []IInv
  BY AllHold, PTL
<1> QED
  BY <1>1, <1>2, <1>3, PTL DEF Spec, ImplementsOooMgr, Ooo!Spec

=============================================================================
