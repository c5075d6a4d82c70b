----------------------------- MODULE HmacLanes -----------------------------
(***************************************************************************)
(* The OOO manager of HMAC-SHA1 (MB_MGR_HMAC_SHA_1_OOO), from              *)
(* lib/avx/mb_mgr_hmac_submit_avx.asm and mb_mgr_hmac_flush_avx.asm; the   *)
(* managers of the other HMACs have the same form.  A job goes through its *)
(* lane three times: the whole blocks of the message, the one or two extra *)
(* blocks with the rest and the padding, and the outer block.  The call    *)
(* that finishes a job loops until some job is through the third.          *)
(*                                                                         *)
(* The digest of a lane is kept as the list of what was hashed into it.    *)
(* The words of lens past the last lane stay 0xFFFF (vpshuflw leaves them  *)
(* alone) and are left out.                                                *)
(* A definition named X_Defect is X with a slip; no specification uses it. *)
(***************************************************************************)
EXTENDS Integers, Sequences, SequencesExt

CONSTANTS
  NumLanes,  \* 4 in the AVX code
  Jobs,
  NULL,
  MsgLens    \* the values of msg_len_to_hash_in_bytes

BLOCK        == 64
WORD_MAX     == 65535
MB_MAX_LEN16 == 65534

\* sizeof(extra_block)
EXTRA_BLOCK_SIZE == 2 * BLOCK + 8

\* is_job_invalid
ASSUME LanesAssumption ==
  /\ NumLanes \in Nat /\ NumLanes >= 2
  /\ NULL \notin Jobs
  /\ MsgLens \subseteq 1 .. MB_MAX_LEN16

Lanes == 0 .. NumLanes - 1

VARIABLES
  unused_lanes,  \* stack of free lanes, top first (the 0xFF below it left out)
  ldata,         \* per lane, see Ldata
  lens,          \* blocks left in the present buffer of the lane
  data_ptr,      \* args.data_ptr: a buffer and how many blocks of it are done
  digest,        \* args.digest: what has been hashed since it was set
  call,          \* the call that loops, the lane it took, the lane it is at
  msg_len,       \* msg_len_to_hash_in_bytes of each job, 0 before its first
  ret,           \* the job returned by the last finished call
  tag,           \* history: what the tag of that job is a hash of
  read           \* history: what the kernel read in the last turn

vars == <<unused_lanes, ldata, lens, data_ptr, digest, call, msg_len, ret, tag, read>>

Msg(j)   == <<"msg", j>>
Extra(l) == <<"extra", l>>
Outer(l) == <<"outer", l>>

Buffers == {Msg(j) : j \in Jobs} \cup {Extra(l) : l \in Lanes} \cup {Outer(l) : l \in Lanes}
Nowhere == <<"none", NULL>>

Ldata ==
  [job_in_lane  : Jobs \cup {NULL},
   extra_blocks : 0 .. 2,
   outer_done   : BOOLEAN,
   size_offset  : 0 .. EXTRA_BLOCK_SIZE,
   sizes        : SUBSET (0 .. EXTRA_BLOCK_SIZE),  \* where extra_block holds a length
   inner        : Seq([buf : Buffers, from : Nat, to : Nat])]  \* in outer_block

JobInLane(l) == ldata[l].job_in_lane

Pending == {JobInLane(l) : l \in Lanes} \ {NULL}
Busy(l) == JobInLane(l) # NULL

NoCall == [op |-> "none", lane |-> 0, idx |-> 0]

NoTag  == [inner |-> <<>>, outer |-> <<>>]

Init ==
  /\ unused_lanes = [i \in 1 .. NumLanes |-> i - 1]
  /\ ldata = [l \in Lanes |-> [job_in_lane |-> NULL, extra_blocks |-> 0, outer_done |-> FALSE,
                               size_offset |-> 0, sizes |-> {}, inner |-> <<>>]]
  /\ lens = [l \in Lanes |-> 0]
  /\ data_ptr = [l \in Lanes |-> [buf |-> Nowhere, off |-> 0]]
  /\ digest = [l \in Lanes |-> <<>>]
  /\ call = NoCall
  /\ msg_len = [j \in Jobs |-> 0]
  /\ ret = NULL
  /\ tag = NoTag
  /\ read = {}

\* The rest of the message, the byte 0x80 and the 8 bytes of the length.
ExtraBlocks(n) == ((n % BLOCK) + 9 + 63) \div BLOCK

SizeOffset(n) == ExtraBlocks(n) * BLOCK - (n % BLOCK) + BLOCK - 8

\* vphminposuw: the first lane with the least length
MinLane(L) ==
  CHOOSE l \in Lanes : \A k \in Lanes : L[l] < L[k] \/ (L[l] = L[k] /\ l <= k)

-----------------------------------------------------------------------------
Submit_Defect(j, n) ==
  LET lane  == Head(unused_lanes)
      short == n < BLOCK
      extra == ExtraBlocks(n)
  IN
  /\ call.op = "none" /\ j \notin Pending
  /\ unused_lanes' = Tail(unused_lanes)
  /\ ldata' = [ldata EXCEPT ![lane] =
       [job_in_lane |-> j, extra_blocks |-> extra,
        outer_done |-> FALSE, size_offset |-> SizeOffset(n),
        sizes |-> @.sizes \cup {SizeOffset(n)}, inner |-> @.inner]]
  /\ lens' = [lens EXCEPT ![lane] = IF short THEN extra ELSE n \div BLOCK]
  /\ data_ptr' = [data_ptr EXCEPT ![lane] =
                    [buf |-> IF short THEN Extra(lane) ELSE Msg(j), off |-> 0]]
  /\ digest' = [digest EXCEPT ![lane] = <<>>]
  /\ call' = IF unused_lanes' # <<>> THEN NoCall
             ELSE [op |-> "submit", lane |-> lane, idx |-> lane]
  /\ ret' = IF unused_lanes' # <<>> THEN NULL ELSE ret
  /\ msg_len' = [msg_len EXCEPT ![j] = n]
  /\ read' = {} /\ tag' = NoTag

\* SUBMIT_JOB_HMAC up to start_loop: the job takes a lane.
Submit(j, n) ==
  LET lane  == Head(unused_lanes)
      short == n < BLOCK
      extra == ExtraBlocks(n)
  IN
  /\ call.op = "none" /\ j \notin Pending
  /\ unused_lanes' = Tail(unused_lanes)
  /\ ldata' = [ldata EXCEPT ![lane] =
       [job_in_lane |-> j, extra_blocks |-> IF short THEN 0 ELSE extra,
        outer_done |-> FALSE, size_offset |-> SizeOffset(n),
        sizes |-> @.sizes \cup {SizeOffset(n)}, inner |-> @.inner]]
  /\ lens' = [lens EXCEPT ![lane] = IF short THEN extra ELSE n \div BLOCK]
  /\ data_ptr' = [data_ptr EXCEPT ![lane] =
                    [buf |-> IF short THEN Extra(lane) ELSE Msg(j), off |-> 0]]
  /\ digest' = [digest EXCEPT ![lane] = <<>>]
  /\ call' = IF unused_lanes' # <<>> THEN NoCall
             ELSE [op |-> "submit", lane |-> lane, idx |-> lane]
  /\ ret' = IF unused_lanes' # <<>> THEN NULL ELSE ret
  /\ msg_len' = [msg_len EXCEPT ![j] = n]
  /\ read' = {} /\ tag' = NoTag

FlushNull_Defect ==
  /\ call.op = "none" /\ Len(unused_lanes) >= NumLanes - 1
  /\ ret' = NULL /\ read' = {} /\ tag' = NoTag
  /\ UNCHANGED <<unused_lanes, ldata, lens, data_ptr, digest, call, msg_len>>

FlushNull ==
  /\ call.op = "none" /\ Len(unused_lanes) = NumLanes
  /\ ret' = NULL /\ read' = {} /\ tag' = NoTag
  /\ UNCHANGED <<unused_lanes, ldata, lens, data_ptr, digest, call, msg_len>>

\* FLUSH_JOB_HMAC up to copy_lane_data, from the last lane with a job.
Flush ==
  /\ call.op = "none" /\ Len(unused_lanes) < NumLanes
  /\ LET good == Max({l \in Lanes : Busy(l)})
     IN call' = [op |-> "flush", lane |-> good, idx |-> good]
  /\ read' = {} /\ tag' = NoTag
  /\ UNCHANGED <<unused_lanes, ldata, lens, data_ptr, digest, msg_len, ret>>

CopiedPtrs_Defect == data_ptr

\* copy_lane_data, in every turn of a flush: an empty lane gets the pointer of
\* the lane the loop is at, and the greatest length.
CopiedPtrs ==
  [l \in Lanes |-> IF call.op = "flush" /\ ~Busy(l) THEN data_ptr[call.idx] ELSE data_ptr[l]]

MaskedLens ==
  [l \in Lanes |-> IF call.op = "flush" /\ ~Busy(l) THEN WORD_MAX ELSE lens[l]]

\* The kernel, sha1_mult_avx, hashes the shortest length in all lanes.
Shortest == MinLane(MaskedLens)
Blocks_Defect == 0
Blocks   == MaskedLens[Shortest]
LensLeft == [l \in Lanes |-> (MaskedLens[l] - Blocks) % (WORD_MAX + 1)]
PtrsMoved == [l \in Lanes |-> [CopiedPtrs[l] EXCEPT !.off = @ + Blocks]]

Hashed(d, ptr, n) ==
  LET piece == [buf |-> ptr.buf, from |-> ptr.off, to |-> ptr.off + n] IN
  IF d # <<>> /\ Last(d).buf = ptr.buf /\ Last(d).to = ptr.off
  THEN Front(d) \o <<[Last(d) EXCEPT !.to = @ + n]>>
  ELSE Append(d, piece)

Digests ==
  IF Blocks = 0 THEN digest
  ELSE [l \in Lanes |-> IF Busy(l) THEN Hashed(digest[l], CopiedPtrs[l], Blocks) ELSE <<>>]

Turn ==
  /\ call.op # "none"
  /\ read' = IF Blocks = 0 THEN {} ELSE {PtrsMoved[l] : l \in Lanes}
  /\ UNCHANGED msg_len

\* proc_extra_blocks: the lane goes on with its extra blocks.
ProcExtraBlocks ==
  LET l == Shortest IN
  /\ Turn /\ ldata[l].extra_blocks # 0
  /\ lens' = [LensLeft EXCEPT ![l] = ldata[l].extra_blocks]
  /\ data_ptr' = [PtrsMoved EXCEPT ![l] = [buf |-> Extra(l), off |-> 0]]
  /\ ldata' = [ldata EXCEPT ![l].extra_blocks = 0]
  /\ digest' = Digests
  /\ call' = [call EXCEPT !.idx = l]
  /\ UNCHANGED <<unused_lanes, ret, tag>>

ProcOuter_DefectDone ==
  LET l == Shortest IN
  /\ Turn /\ ldata[l].extra_blocks = 0 /\ ~ldata[l].outer_done
  /\ lens' = [LensLeft EXCEPT ![l] = 1]
  /\ data_ptr' = [PtrsMoved EXCEPT ![l] = [buf |-> Outer(l), off |-> 0]]
  /\ ldata' = [ldata EXCEPT ![l].inner = Digests[l],
                            ![l].sizes = @ \ {ldata[l].size_offset}]
  /\ digest' = [Digests EXCEPT ![l] = <<>>]
  /\ call' = [call EXCEPT !.idx = l]
  /\ UNCHANGED <<unused_lanes, ret, tag>>

ProcOuter_Defect ==
  LET l == Shortest IN
  /\ Turn /\ ldata[l].extra_blocks = 0 /\ ~ldata[l].outer_done
  /\ lens' = [LensLeft EXCEPT ![l] = 1]
  /\ data_ptr' = [PtrsMoved EXCEPT ![l] = [buf |-> Outer(l), off |-> 0]]
  /\ ldata' = [ldata EXCEPT ![l].outer_done = TRUE, ![l].inner = Digests[l]]
  /\ digest' = [Digests EXCEPT ![l] = <<>>]
  /\ call' = [call EXCEPT !.idx = l]
  /\ UNCHANGED <<unused_lanes, ret, tag>>

\* proc_outer: the inner digest goes into the outer block, the length in the
\* extra block is cleared for the lane's next job.
ProcOuter ==
  LET l == Shortest IN
  /\ Turn /\ ldata[l].extra_blocks = 0 /\ ~ldata[l].outer_done
  /\ lens' = [LensLeft EXCEPT ![l] = 1]
  /\ data_ptr' = [PtrsMoved EXCEPT ![l] = [buf |-> Outer(l), off |-> 0]]
  /\ ldata' = [ldata EXCEPT ![l].outer_done = TRUE, ![l].inner = Digests[l],
                            ![l].sizes = @ \ {ldata[l].size_offset}]
  /\ digest' = [Digests EXCEPT ![l] = <<>>]
  /\ call' = [call EXCEPT !.idx = l]
  /\ UNCHANGED <<unused_lanes, ret, tag>>

\* end_loop: the job of the lane is through.  What the lane's digest and outer
\* block still hold is set again before it is used, and is not kept here.
EndLoop ==
  LET l == Shortest IN
  /\ Turn /\ ldata[l].extra_blocks = 0 /\ ldata[l].outer_done
  /\ ldata' = [ldata EXCEPT ![l].job_in_lane = NULL, ![l].inner = <<>>]
  /\ unused_lanes' = <<l>> \o unused_lanes
  /\ lens' = LensLeft /\ data_ptr' = PtrsMoved
  /\ digest' = [Digests EXCEPT ![l] = <<>>]
  /\ tag' = [inner |-> ldata[l].inner, outer |-> Digests[l]]
  /\ ret' = JobInLane(l)
  /\ call' = NoCall

Loop == ProcExtraBlocks \/ ProcOuter \/ EndLoop

Next ==
  \/ \E j \in Jobs, n \in MsgLens : Submit(j, n)
  \/ FlushNull \/ Flush
  \/ Loop

\* A begun call runs on; the application keeps submitting or flushing.
Spec == Init /\ [][Next]_vars /\ WF_vars(Loop) /\ WF_vars(Next)

-----------------------------------------------------------------------------
TypeOK ==
  /\ unused_lanes \in Seq(Lanes)
  /\ DOMAIN ldata = Lanes
  /\ \A l \in Lanes : ldata[l] \in Ldata
  /\ lens \in [Lanes -> 0 .. WORD_MAX]
  /\ data_ptr \in [Lanes -> [buf : Buffers \cup {Nowhere}, off : Nat]]
  /\ call \in [op : {"none", "submit", "flush"}, lane : Lanes, idx : Lanes]
  /\ msg_len \in [Jobs -> MsgLens \cup {0}]
  /\ ret \in Jobs \cup {NULL}

\* The stack of unused lanes holds the lanes without a job, each once; between
\* calls it is not empty, so that the next submit has a lane.
StackIsFreeLanes ==
  /\ IsInjective(unused_lanes)
  /\ Range(unused_lanes) = {l \in Lanes : ~Busy(l)}
  /\ call.op = "none" => unused_lanes # <<>>

BlocksOf(buf) ==
  CASE buf[1] = "msg"   -> msg_len[buf[2]] \div BLOCK
    [] buf[1] = "extra" -> ExtraBlocks(msg_len[JobInLane(buf[2])])
    [] OTHER            -> 1

Live(buf) ==
  IF buf[1] = "msg" THEN buf[2] \in Pending ELSE buf # Nowhere /\ Busy(buf[2])

\* While a call loops, the kernel has read only buffers of jobs the manager
\* holds, and none past its end, in the empty lanes too (copy_lane_data).  The turn
\* that ends the call is not looked at: it frees the lane the reads are judged by.
KernelStaysInBuffers ==
  call.op # "none" => \A r \in read : Live(r.buf) /\ r.off <= BlocksOf(r.buf)

\* Until its outer block is hashed, the extra block of a job holds one length, in
\* its place and inside the buffer; the lane's earlier jobs left none behind.
PaddingIsClean ==
  \A l \in Lanes :
    IF Busy(l) /\ ~ldata[l].outer_done
    THEN LET n == msg_len[JobInLane(l)] IN
         /\ ldata[l].sizes = {SizeOffset(n)}
         /\ SizeOffset(n) + 8 <= EXTRA_BLOCK_SIZE
         /\ SizeOffset(n) > BLOCK  \* behind the byte 0x80
    ELSE ldata[l].sizes = {}

\* What every step of a submit or a flush keeps: the types, the stack, the padding.
LanesAreSound == TypeOK /\ StackIsFreeLanes /\ PaddingIsClean

\* A job comes back with the tag of its own message: the inner digest is of all
\* its blocks in order, the outer one of a single block.
TagIsHmac ==
  call.op = "none" /\ ret # NULL =>
    LET n == msg_len[ret]
        l == Head(unused_lanes)
        body == [buf |-> Msg(ret), from |-> 0, to |-> n \div BLOCK]
        rest == [buf |-> Extra(l), from |-> 0, to |-> ExtraBlocks(n)]
    IN
    /\ tag.inner = IF n < BLOCK THEN <<rest>> ELSE <<body, rest>>
    /\ tag.outer = <<[buf |-> Outer(l), from |-> 0, to |-> 1]>>

\* The manager keeps what the scheduler relies on (MbMgr!LaneSubmit,
\* MbMgr!LaneFlush).  A submit that has to finish a job counts when it ends.
LanesBeforeCall ==
  [l \in Lanes |-> IF call.op = "submit" /\ l = call.lane THEN NULL ELSE JobInLane(l)]

Ooo == INSTANCE OooMgr WITH job_in_lane <- LanesBeforeCall

ImplementsOooMgr == Ooo!Spec

\* The loop of a call ends: some job comes through its three phases.
CallsReturn == call.op # "none" ~> call.op = "none"

\* A job does not stay in its lane for ever behind shorter jobs that come later.
NoJobStarves == \A j \in Jobs : (j \in Pending) ~> (j \notin Pending)

=============================================================================
