------------------------------ MODULE ZucLanes ------------------------------
(***************************************************************************)
(* The OOO managers of ZUC for AVX512 (MB_MGR_ZUC_OOO, one for EEA3 and    *)
(* one for EIA3): lib/avx512/mb_mgr_zuc_submit_flush_avx512.asm, and the   *)
(* kernels CIPHER_16_AVX512 (zuc_avx512.asm) and _zuc_eia3_16_buffer_job   *)
(* (zuc_avx512_top.c).  Each call goes as far as the shortest lane, and a  *)
(* lane goes on where the call before left it: with its ZUC state and, for *)
(* EIA3, with the last two words of keystream.                             *)
(*                                                                         *)
(* State and keystream kept in a lane without a job are nobody's and left  *)
(* out: whatever the code leaves there (SAFE_DATA clears a part of it) is  *)
(* written again, for a job or from a good lane, before a kernel reads it. *)
(* A definition named X_Defect is X with a slip; no specification uses it. *)
(***************************************************************************)
EXTENDS Zuc

CONSTANTS
  NumLanes,  \* 16 in the code
  Jobs,
  NULL,
  EEA3Lens,  \* the values of msg_len_to_cipher_in_bytes
  EIA3Lens   \* the values of msg_len_to_hash_in_bits

ASSUME LanesAssumption ==
  /\ NumLanes \in Nat /\ NumLanes >= 2
  /\ NULL \notin Jobs
  /\ EEA3Lens \subseteq ZUC_MIN_BYTELEN .. ZUC_MAX_BYTELEN
  /\ EIA3Lens \subseteq ZUC_MIN_BITLEN .. ZUC_MAX_BITLEN

Lanes == 0 .. NumLanes - 1

UINT16_MAX == 65535   \* the length of a lane without a job
ROUND      == 512     \* bits of a round of EIA3 (64 bytes)

VARIABLES
  alg,      \* which of the two managers this is
  ooo,      \* the manager, see TypeOK
  msg_len,  \* length of each job in the manager or just returned, otherwise 0
  ret,      \* the job returned by the last call
  work,     \* history: units done of each of these, and whether with its keystream
  read      \* history: how far the kernel read which job in the last call

lanesVars == <<alg, ooo, msg_len, ret, work, read>>

NoBuffer == [job |-> NULL, off |-> 0]
NoState  == [job |-> NULL, made |-> 0]
NoWords  == <<Garbage, Garbage>>
NoWork   == [done |-> 0, right |-> TRUE]

Pending == {ooo.job_in_lane[l] : l \in Lanes} \ {NULL}

LanesInit ==
  /\ alg \in {"EEA3", "EIA3"}
  /\ ooo = [unused_lanes  |-> [i \in 1 .. NumLanes |-> i - 1],
            job_in_lane   |-> [l \in Lanes |-> NULL],
            init_not_done |-> {},
            lens          |-> [l \in Lanes |-> 0],
            in            |-> [l \in Lanes |-> NoBuffer],
            state         |-> [l \in Lanes |-> NoState],
            prev_ks       |-> [l \in Lanes |-> NoWords]]
  /\ msg_len = [j \in Jobs |-> 0]
  /\ ret = NULL
  /\ work = [j \in Jobs |-> NoWork]
  /\ read = {}

\* The histories without what was returned
OldLens == [j \in Jobs |-> IF j \in Pending THEN msg_len[j] ELSE 0]
OldWork == [j \in Jobs |-> IF j \in Pending THEN work[j] ELSE NoWork]

\* vphminposuw on both halves: the first lane with the least length
MinLane(L) ==
  CHOOSE l \in Lanes : \A k \in Lanes : L[l] < L[k] \/ (L[l] = L[k] /\ l <= k)

\* What is left of n after "done": a difference of words of 16 bits, taken for
\* negative from 2^15 on (vpsubw, vpcmpw), and then 0.
LeftOf(n, done) ==
  LET w == (n - done) % (UINT16_MAX + 1) IN IF w >= 32768 THEN 0 ELSE w

\* What a kernel adds to the history w: units of the job in its lane, and whether
\* each got its own keystream.
Worked(w, m, done, right) ==
  [j \in Jobs |->
     [done  |-> w[j].done + MapThenSumSet(LAMBDA l : done[l], {k \in Lanes : m.job_in_lane[k] = j}),
      right |-> w[j].right /\ \A l \in Lanes : m.in[l].job = j => right[l]]]

-----------------------------------------------------------------------------
(* The kernels: what they make of the manager m, whose least length is min,  *)
(* and of the history w.                                                     *)

\* CIPHER_16_AVX512: whole words; a lane without a job goes along.
Cipher(m, w, min) ==
  LET words == RoundUp(min, 4)
      len   == [l \in Lanes |-> IF m.lens[l] = UINT16_MAX THEN min ELSE m.lens[l]]
      left  == [l \in Lanes |-> LeftOf(len[l], words)]
      done  == [l \in Lanes |-> len[l] - left[l]]
      in    == [l \in Lanes |-> [m.in[l] EXCEPT !.off = @ + words]]
      state == [l \in Lanes |-> [m.state[l] EXCEPT !.made = @ + words]]
  IN  [ooo  |-> [m EXCEPT !.lens = left, !.in = in, !.state = state],
       work |-> Worked(w, m, done, [l \in Lanes |->
                  m.state[l] = [job |-> m.in[l].job, made |-> m.in[l].off]]),
       read |-> {[job |-> m.in[l].job, to |-> m.in[l].off + done[l]] : l \in Lanes}]

\* The first two slots of a lane's window: two new words for a new job, the words
\* kept from the call before for an old one.
FirstWords(m, l, new) ==
  LET made == IF m.state[l].job = m.job_in_lane[l] THEN m.state[l].made ELSE Garbage
      w    == NewWindow(16, made, m.in[l].off \div 4)
  IN  IF l \in new THEN Gen(w, 0, 2)
      ELSE [w EXCEPT !.slot = m.prev_ks[l] \o SubSeq(@, 3, Len(@))]

\* The words still to make (L) are made as a round needs them.
KernelRound(w) ==
  LET g == Min({w.L, 16})
      k == Eia3Round(16, Gen(w.k, 16, g))
  IN  [w EXCEPT !.k = k, !.L = @ - g]

KernelRounds(w, n) ==
  LET rounds[r \in 0 .. n] == IF r = 0 THEN w ELSE KernelRound(rounds[r - 1])
  IN  rounds[n]

\* The words of keystream the call needs besides the first two, made 14 and then
\* 16 at a time, with n rounds in between; no word is made that is not needed.
KernelWindow(k, words, n) ==
  LET w == KernelRounds([k |-> Gen(k, 2, 14), L |-> words - 14], n)
  IN  IF words < 14 THEN Gen(k, 2, words) ELSE Gen(w.k, 16, w.L)

\* asm_Eia3RemainderAVX512_16 in a lane with a job: "bits" of the message, and the
\* end of it if nothing is left.
Remainder(k, bits, left, len) ==
  IF left = 0 THEN Eia3Finish(k, bits, (bits + 31 + 64) \div WORD_BITS, len)
  ELSE Use(k, k.base, 0 .. (bits + 30) \div WORD_BITS)

\* _zuc_eia3_16_buffer_job
Authenticate(m, w, min) ==
  LET words  == RoundUp(min, WORD_BITS) \div WORD_BITS
      n      == IF words < 14 THEN 0 ELSE min \div ROUND
      bits   == min - n * ROUND                \* remainCommonBits
      kept   == RoundUp(bits, WORD_BITS) \div WORD_BITS
      busy   == {l \in Lanes : m.lens[l] # UINT16_MAX}
      left   == [l \in Lanes |-> IF l \in busy
                                 THEN LeftOf(m.lens[l] - n * ROUND, kept * WORD_BITS)
                                 ELSE UINT16_MAX]
      done   == [l \in Lanes |-> IF l \in busy THEN m.lens[l] - left[l] ELSE n * ROUND]
      window == [l \in busy |-> KernelWindow(FirstWords(m, l, m.init_not_done), words, n)]
      right  == [l \in busy |->
                  {} = Remainder(window[l], done[l] - n * ROUND, left[l], w[m.job_in_lane[l]].done + m.lens[l]).wrong]
      in      == [l \in Lanes |-> [m.in[l] EXCEPT !.off = @ + (done[l] \div 8)]]
      made    == [l \in Lanes |-> words + (IF l \in m.init_not_done THEN 2 ELSE 0)]
      state   == [l \in Lanes |-> [m.state[l] EXCEPT !.made = @ + made[l]]]
      prev_ks == [l \in Lanes |-> IF l \in busy THEN SubSeq(window[l].slot, kept + 1, kept + 2) ELSE NoWords]
  IN  [ooo  |-> [m EXCEPT !.init_not_done = {}, !.lens = left, !.in = in, !.state = state,
                          !.prev_ks = prev_ks],
       work |-> Worked(w, m, done, [l \in Lanes |-> l \in busy => right[l]]),
       read |-> {[job |-> m.in[l].job, to |-> m.in[l].off + (RoundUp(done[l], 8) \div 8)] :
                   l \in {k \in Lanes : done[k] > 0}}]

-----------------------------------------------------------------------------
(* Submit and flush *)

\* ZUC_INIT_16 with the mask init_not_done, with key and IV of the lane
Initialised(m) ==
  [m EXCEPT !.state = [l \in Lanes |-> IF l \in m.init_not_done
                                       THEN [job |-> m.job_in_lane[l], made |-> 0] ELSE @[l]]]

Finish_Defect(m, idx) ==
  LET jobs == [m.job_in_lane EXCEPT ![idx] = NULL] IN
  /\ ret' = m.job_in_lane[idx]
  /\ ooo' = [m EXCEPT !.unused_lanes = <<idx>> \o @,
                      !.state   = [l \in Lanes |-> IF jobs[l] = NULL THEN NoState ELSE @[l]],
                      !.prev_ks = [l \in Lanes |-> IF jobs[l] = NULL THEN NoWords ELSE @[l]]]

\* "process completed job idx"
Finish(m, idx) ==
  LET jobs == [m.job_in_lane EXCEPT ![idx] = NULL] IN
  /\ ret' = m.job_in_lane[idx]
  /\ ooo' = [m EXCEPT !.job_in_lane  = jobs,
                      !.unused_lanes = <<idx>> \o @,
                      !.state   = [l \in Lanes |-> IF jobs[l] = NULL THEN NoState ELSE @[l]],
                      !.prev_ks = [l \in Lanes |-> IF jobs[l] = NULL THEN NoWords ELSE @[l]]]

\* ZUC_INIT_16 and the kernel.  For EEA3, the lanes without a job get a copy of
\* the state of lane idx: they write what it writes.
RunKernel(m, w, idx) ==
  LET i == Initialised(m)
      s == [i EXCEPT !.init_not_done = {},
                     !.state = [l \in Lanes |-> IF m.job_in_lane[l] = NULL THEN @[idx] ELSE @[l]]]
      k == IF alg = "EEA3" THEN Cipher(s, w, m.lens[idx]) ELSE Authenticate(i, w, m.lens[idx])
  IN  /\ Finish(k.ooo, idx)
      /\ read' = k.read
      /\ work' = k.work

Take_Defect(j, n, lane) ==
  [ooo EXCEPT !.unused_lanes = Tail(@),
              !.job_in_lane  = [@ EXCEPT ![lane] = j],
              !.lens         = [@ EXCEPT ![lane] = n],
              !.in           = [@ EXCEPT ![lane] = [job |-> j, off |-> 0]]]

\* The new job is put into its lane.
Take(j, n, lane) ==
  [ooo EXCEPT !.unused_lanes  = Tail(@),
              !.job_in_lane   = [@ EXCEPT ![lane] = j],
              !.init_not_done = @ \cup {lane},
              !.lens          = [@ EXCEPT ![lane] = n],
              !.in            = [@ EXCEPT ![lane] = [job |-> j, off |-> 0]]]

\* SUBMIT_JOB_ZUC_EEA3, SUBMIT_JOB_ZUC_EIA3, with a job that the manager does not
\* hold.  No kernel runs for a lane that has nothing left.
LaneSubmit(j, n) ==
  LET m   == Take(j, n, Head(ooo.unused_lanes))
      w   == OldWork
      idx == MinLane(m.lens)
  IN
  /\ j \notin Pending
  /\ n \in (IF alg = "EEA3" THEN EEA3Lens ELSE EIA3Lens)
  /\ msg_len' = [OldLens EXCEPT ![j] = n]
  /\ \/ /\ m.unused_lanes # <<>>
        /\ ooo' = m /\ ret' = NULL
        /\ read' = {} /\ work' = w
     \/ /\ m.unused_lanes = <<>> /\ m.lens[idx] = 0
        /\ Finish(m, idx)
        /\ read' = {} /\ work' = w
     \/ /\ m.unused_lanes = <<>> /\ m.lens[idx] # 0
        /\ RunKernel(m, w, idx)
  /\ UNCHANGED alg

LaneFlushNull ==
  /\ Pending = {}
  /\ ret' = NULL /\ read' = {}
  /\ msg_len' = OldLens /\ work' = OldWork
  /\ UNCHANGED <<alg, ooo>>

WithGoodLane_Defect(m, null, idx) == m

\* "copy good lane data into NULL lanes"
WithGoodLane(m, null, idx) ==
  [m EXCEPT !.in = [l \in Lanes |-> IF l \in null THEN @[idx] ELSE @[l]]]

\* FLUSH_JOB_ZUC_EEA3, FLUSH_JOB_ZUC_EIA3: the lanes without a job get the greatest
\* length, and the pointers of the shortest lane.
LaneFlush ==
  LET null == {l \in Lanes : ooo.job_in_lane[l] = NULL}
      L    == [l \in Lanes |-> IF l \in null THEN UINT16_MAX ELSE ooo.lens[l]]
      idx  == MinLane(L)
      m    == [ooo EXCEPT !.lens = L]
  IN
  /\ Pending # {}
  /\ \/ /\ L[idx] = 0
        /\ Finish(m, idx)
        /\ read' = {} /\ work' = OldWork
     \/ /\ L[idx] # 0
        /\ RunKernel(WithGoodLane(m, null, idx), OldWork, idx)
  /\ msg_len' = OldLens
  /\ UNCHANGED alg

LaneNext ==
  \/ \E j \in Jobs, n \in EEA3Lens \cup EIA3Lens : LaneSubmit(j, n)
  \/ LaneFlushNull
  \/ LaneFlush

-----------------------------------------------------------------------------
LanesTypeOK ==
  /\ alg \in {"EEA3", "EIA3"}
  /\ ooo \in [unused_lanes : Seq(Lanes), job_in_lane : [Lanes -> Jobs \cup {NULL}],
              init_not_done : SUBSET Lanes, lens : [Lanes -> 0 .. UINT16_MAX],
              in : [Lanes -> [job : Jobs \cup {NULL}, off : Nat]],
              state : [Lanes -> [job : Jobs \cup {NULL}, made : Nat]],
              prev_ks : [Lanes -> Seq(Int)]]
  /\ msg_len \in [Jobs -> EEA3Lens \cup EIA3Lens \cup {0}]
  /\ ret \in Jobs \cup {NULL}
  /\ work \in [Jobs -> [done : Nat, right : BOOLEAN]]
  /\ read \subseteq [job : Jobs \cup {NULL}, to : Nat]

\* A job comes back when each of its bytes has been ciphered, or each of its bits
\* authenticated, once, and with the keystream of its own key and IV that is due
\* there, over however many calls and whatever shared the lanes with it
\* (ZUC_CIPHER, ZUC_EIA3_16_BUFFER).
ReturnedJobIsWhole ==
  ret # NULL => work[ret] = [done |-> msg_len[ret], right |-> TRUE]

\* The kernel, which runs in every lane, reads only the buffers of jobs that the
\* manager holds or has just finished, and none past its end ("copy good lane data
\* into NULL lanes").
KernelStaysInBuffers ==
  \A r \in read :
    /\ r.job \in Pending \cup ({ret} \ {NULL})
    /\ r.to <= IF alg = "EEA3" THEN msg_len[r.job] ELSE (msg_len[r.job] + 7) \div 8

\* The managers keep what the scheduler relies on (MbMgr!LaneSubmit,
\* MbMgr!LaneFlush).
Ooo == INSTANCE OooMgr WITH job_in_lane <- ooo.job_in_lane

ImplementsOooMgr == Ooo!Spec

=============================================================================
