------------------------------ MODULE AesLanes ------------------------------
(***************************************************************************)
(* The OOO manager of AES-CBC encryption (MB_MGR_AES_OOO), from            *)
(* lib/avx/mb_mgr_aes_submit_avx.asm and mb_mgr_aes_flush_avx.asm.  Every  *)
(* lane has a 16-bit length; the kernel (AES_CBC_ENC_X8) encrypts the      *)
(* shortest length in all lanes at once, and the job of the shortest lane  *)
(* is finished.  The 192- and 256-bit and the DOCSIS managers use the same *)
(* code with another kernel.                                               *)
(*                                                                         *)
(* Keys, IVs and the data are left out; of the pointers args.in and        *)
(* args.out, which move together, the job and the offset are kept.         *)
(* A definition named X_Defect is X with a slip; no specification uses it. *)
(***************************************************************************)
EXTENDS Integers, Sequences, SequencesExt

CONSTANTS
  NumLanes,  \* 8 in the AVX code
  Jobs,
  NULL,
  WORD_MAX,  \* greatest value of an element of lens, 0xFFFF in the code
  MsgLens    \* the values of msg_len_to_cipher_in_bytes

BLOCK == 16

MB_MAX_LEN16 == WORD_MAX - 1

\* is_job_invalid lets through what fits a word; jobs shorter than a block are
\* not queued.
ASSUME LanesAssumption ==
  /\ NumLanes \in Nat /\ NumLanes >= 2
  /\ NULL \notin Jobs
  /\ WORD_MAX \in Nat
  /\ MsgLens \subseteq BLOCK .. MB_MAX_LEN16

Lanes == 0 .. NumLanes - 1

VARIABLES
  unused_lanes,  \* stack of free lanes, top first (the 0xF below it left out)
  job_in_lane,
  lens,          \* bytes left in the lane
  in,            \* args.in: the job whose buffer is read, and how far it is
  msg_len,       \* msg_len_to_cipher_in_bytes of each job, 0 before its first
  ret,           \* the job returned by the last call
  read           \* history: how far the kernel read which job in the last call

vars == <<unused_lanes, job_in_lane, lens, in, msg_len, ret, read>>

Pending == {job_in_lane[l] : l \in Lanes} \ {NULL}

Init ==
  /\ unused_lanes = [i \in 1 .. NumLanes |-> i - 1]
  /\ job_in_lane = [l \in Lanes |-> NULL]
  /\ lens = [l \in Lanes |-> 0]
  /\ in = [l \in Lanes |-> [job |-> NULL, off |-> 0]]
  /\ msg_len = [j \in Jobs |-> 0]
  /\ ret = NULL
  /\ read = {}

\* "and len, -16": DOCSIS passes lengths that are not whole blocks.
Whole(n) == n - (n % BLOCK)

\* vphminposuw: the first lane with the least length
MinLane(L) ==
  CHOOSE l \in Lanes : \A k \in Lanes : L[l] < L[k] \/ (L[l] = L[k] /\ l <= k)

Encrypt_Defect(A, L, n, stored) ==
  /\ in' = A
  /\ lens' = IF n # 0 THEN stored ELSE L
  /\ read' = {}

Encrypt_DefectDup(A, L, n, stored) ==
  /\ in' = [l \in Lanes |-> [A[l] EXCEPT !.off = @ + n]]
  /\ lens' = IF n = 0 THEN stored ELSE [L EXCEPT ![0] = @ - n]
  /\ read' = IF n = 0 THEN {}
             ELSE {[job |-> A[l].job, to |-> A[l].off + n] : l \in Lanes}

\* The kernel encrypts n bytes in all lanes, from pointers A and lengths L.  For
\* n = 0 it is not called, and lens stays as stored.
Encrypt(A, L, n, stored) ==
  /\ in' = [l \in Lanes |-> [A[l] EXCEPT !.off = @ + n]]
  /\ lens' = IF n = 0 THEN stored
             ELSE [l \in Lanes |-> (L[l] - n) % (WORD_MAX + 1)]
  /\ read' = IF n = 0 THEN {}
             ELSE {[job |-> A[l].job, to |-> A[l].off + n] : l \in Lanes}

Finish_Defect(J, U, l) ==
  /\ ret' = J[l]
  /\ job_in_lane' = J
  /\ unused_lanes' = <<l>> \o U

\* "process completed job idx", with job_in_lane and unused_lanes as they are
\* at that point.
Finish(J, U, l) ==
  /\ ret' = J[l]
  /\ job_in_lane' = [J EXCEPT ![l] = NULL]
  /\ unused_lanes' = <<l>> \o U

\* SUBMIT_JOB_AES_ENC, with a job that the manager does not hold.  Nothing
\* checks that a lane is free.
Submit(j, n) ==
  LET lane == Head(unused_lanes)
      U    == Tail(unused_lanes)
      J    == [job_in_lane EXCEPT ![lane] = j]
      A    == [in EXCEPT ![lane] = [job |-> j, off |-> 0]]
      L    == [lens EXCEPT ![lane] = Whole(n)]
      idx  == MinLane(L)
  IN
  /\ j \notin Pending
  /\ msg_len' = [msg_len EXCEPT ![j] = n]
  /\ \/ /\ U # <<>>
        /\ unused_lanes' = U /\ job_in_lane' = J /\ in' = A /\ lens' = L
        /\ ret' = NULL /\ read' = {}
     \/ /\ U = <<>>
        /\ Encrypt(A, L, L[idx], L)
        /\ Finish(J, U, idx)

FlushNull_Defect ==
  /\ Len(unused_lanes) >= NumLanes - 1
  /\ ret' = NULL /\ read' = {}
  /\ UNCHANGED <<unused_lanes, job_in_lane, lens, in, msg_len>>

FlushNull ==
  /\ Len(unused_lanes) = NumLanes
  /\ ret' = NULL /\ read' = {}
  /\ UNCHANGED <<unused_lanes, job_in_lane, lens, in, msg_len>>

CopyGoodLane_Defect(good) == in

\* An empty lane gets the pointers of the good lane, to run on something.
CopyGoodLane(good) == [l \in Lanes |-> IF job_in_lane[l] = NULL THEN in[good] ELSE in[l]]

\* It gets the greatest length, to be never the shortest ("por ... len_masks").
MaskEmpty == [l \in Lanes |-> IF job_in_lane[l] = NULL THEN WORD_MAX ELSE lens[l]]

\* FLUSH_JOB_AES_ENC; the good lane is the last one with a job.
FlushOne ==
  LET good == Max({l \in Lanes : job_in_lane[l] # NULL})
      L    == MaskEmpty
      idx  == MinLane(L)
  IN
  /\ Len(unused_lanes) < NumLanes
  /\ Encrypt(CopyGoodLane(good), L, L[idx], lens)
  /\ Finish(job_in_lane, unused_lanes, idx)
  /\ UNCHANGED msg_len

Next ==
  \/ \E j \in Jobs, n \in MsgLens : Submit(j, n)
  \/ FlushNull
  \/ FlushOne

\* The application keeps submitting or flushing; it need not flush.
Spec == Init /\ [][Next]_vars /\ WF_vars(Next)

-----------------------------------------------------------------------------
TypeOK ==
  /\ unused_lanes \in Seq(Lanes)
  /\ job_in_lane \in [Lanes -> Jobs \cup {NULL}]
  /\ lens \in [Lanes -> 0 .. WORD_MAX]
  /\ in \in [Lanes -> [job : Jobs \cup {NULL}, off : Nat]]
  /\ msg_len \in [Jobs -> MsgLens \cup {0}]
  /\ ret \in Jobs \cup {NULL}
  /\ read \subseteq [job : Jobs \cup {NULL}, to : Nat]

\* Between calls the stack of unused lanes holds the lanes without a job, each
\* once, and is not empty: the next submit has a lane (SUBMIT_JOB_AES_ENC,
\* FLUSH_JOB_AES_ENC).
StackIsFreeLanes ==
  /\ unused_lanes # <<>>
  /\ IsInjective(unused_lanes)
  /\ Range(unused_lanes) = {l \in Lanes : job_in_lane[l] = NULL}

\* What a busy lane has left and what it has done make up its own job, and the
\* length is one that an empty lane cannot have.
LaneIsExact ==
  \A l \in Lanes :
    job_in_lane[l] # NULL =>
      /\ in[l].job = job_in_lane[l]
      /\ in[l].off + lens[l] = Whole(msg_len[in[l].job])
      /\ lens[l] < WORD_MAX

\* The kernel, which runs in every lane, reads and writes only the buffers of
\* jobs that the manager holds or has just finished, and none past its end
\* (AES_CBC_ENC_X8, "copy good_lane to empty lanes").
KernelStaysInBuffers ==
  \A r \in read :
    /\ r.job \in Pending \cup ({ret} \ {NULL})
    /\ r.to <= Whole(msg_len[r.job])

\* A job comes back with all of its blocks encrypted, and no more (its lane is
\* the one freed last).
ReturnedJobIsWhole ==
  ret # NULL =>
    in[Head(unused_lanes)] = [job |-> ret, off |-> Whole(msg_len[ret])]

\* The manager keeps what the scheduler relies on (MbMgr!LaneSubmit,
\* MbMgr!LaneFlush).
Ooo == INSTANCE OooMgr

ImplementsOooMgr == Ooo!Spec

\* A job does not stay in its lane for ever behind shorter jobs that come later,
\* though no flush asks for it: each finished job shortens it.
NoJobStarves == \A j \in Jobs : (j \in Pending) ~> (j \notin Pending)

=============================================================================
