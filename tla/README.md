# Formal model of the intel-ipsec-mb multi-buffer library

The library encrypts and authenticates packets. Its speed comes from working on
several packets at once, one per SIMD lane, so a job that the application
submits is usually not finished when `submit_job` returns: it sits in a lane of
an *out-of-order (OOO) manager* until enough other jobs have arrived, and comes
back from a later call. Above the OOO managers an in-order scheduler gives the
jobs back in the order of their submission, and moves a job that has two stages
(a cipher and a hash) from one OOO manager to another.

That scheduler, the lane managers, the set-up of a manager and the drivers of
the wireless algorithms, which group buffers without any manager, are what this
project models. The cryptography is abstracted: a stage is "done", a byte has got
"the byte of keystream that is due there".

## 1. Inventory

| Component | Where | State | Operations |
|---|---|---|---|
| Job manager (in-order scheduler) | `lib/include/mb_mgr_code.h` 53-68, 2085-2361 | `earliest_job`, `next_job`, `jobs[128]` of `IMB_MGR`; `status` of each job | `GET_NEXT_JOB`, `SUBMIT_JOB`, `SUBMIT_JOB_NOCHECK`, `FLUSH_JOB`, `GET_COMPLETED_JOB`, `QUEUE_SIZE`; inside: `submit_new_job`, `RESUBMIT_JOB`, `complete_job` |
| Algorithm dispatch | `mb_mgr_code.h` 419-927 and the macros of `lib/*/mb_mgr_*.c` | none (reads the job) | `SUBMIT_JOB_AES_ENC/DEC`, `FLUSH_JOB_AES_ENC/DEC`, `SUBMIT_JOB_HASH`, `FLUSH_JOB_HASH`, custom callbacks |
| Job check | `mb_mgr_code.h` 930-2082 | `imb_errno` | `is_job_invalid` |
| OOO managers | `lib/{sse,avx,avx2,avx512,no-aesni}/mb_mgr_*_{submit,flush}_*.asm`, layouts in `lib/include/ipsec_ooo_mgr.h` | `unused_lanes`, `lens[]`, `job_in_lane[]`, per-lane arguments, for HMAC `extra_blocks`, `outer_done` | submit and flush of AES-CBC, CBCS, XCBC, CMAC, CCM, HMAC-SHA1/2, HMAC-MD5, DES, DOCSIS, ZUC |
| Manager set-up | `lib/alloc.c`, `lib/mb_mgr_auto.c`, `lib/cpu_feature.c`, `init_mb_mgr_*` in `lib/*/mb_mgr_*.c`, `lib/error.c` | the whole `IMB_MGR`; per process `imb_errno` and the function pointers that SSE and AVX512 select | `alloc_mb_mgr`, `free_mb_mgr`, `init_mb_mgr_{sse,avx,avx2,avx512,auto}`, `imb_get_errno` |
| Streaming and direct API | `lib/gcm.c`, `lib/include/gcm.h`, `lib/*/gcm_*.asm`, `lib/chacha20_poly1305.c` | the GCM or CHACHA20-POLY1305 context | init, update, finalize |
| Wireless direct API | `lib/include/{kasumi,snow3g,zuc}*`, `lib/*/{kasumi,snow3g,zuc}_*` | none between calls | F8, F9, EEA3 and EIA3 of 1, 2, 3, 4, 8, n buffers, in bytes or bits, with one key or many |
| Crypto kernels, CRC, key expansion | the other `.asm` and `.c` files | none | pure functions |
| Test and benchmark programs | `test/`, `perf/` | | |

How they interact: the application calls the job manager through the function
pointers of `IMB_MGR`; the job manager calls a dispatch table with a job; the
table calls an OOO manager's submit or flush, a synchronous kernel, or the
callback the application put in the job; an OOO manager keeps a *pointer* to
the job and later returns that pointer from a call made for another job. The
only shared state is the job object: its `status` bits are set by the OOO
managers and read by the scheduler's loops.

There are no locks: a manager belongs to one thread. What makes the code hard
is not parallelism but the order in which jobs come out of several OOO managers
that hold pointers into one ring, and the loops that run until a job is done. Two
things are shared between threads all the same: `imb_errno`, and the static
function pointers by which the SSE and AVX512 files choose a kernel. The wireless
drivers are hard for another reason: they go through several buffers in step, as
far as the shortest, and finish each alone, and each has to find the keystream
at the right place when it is left to itself.

Hazards, each at its line and with the properties that watch it, are listed in
`PROJECT.json`. In short: a job must not be lost or queued twice on its way from
one manager to the other; the loops must end; a full ring must not give away a
slot in use; a 16-bit length must not reach the value that marks an idle lane;
what an idle lane or a previous job left behind must not leak into the next
computation; the hand-written submit and flush tables must agree, and so must
the lanes an init function sets up and the kernels it selects; an allocation that
fails half way must leak nothing; grouped buffers must not get each other's keystream.

## 2. Modules and how they correspond to the code

| Module | Models | Extends / uses |
|---|---|---|
| `Job` | the status word, the two chain orders, and a *kind*: who serves each stage of a job at submit and at flush | |
| `JobFifo` | abstract: a queue of jobs, returned in order, none before it is done | |
| `MbMgr` | the job manager | `Job`, refines `JobFifo` |
| `MbMgrProofs` | its inductive invariant, what follows from it, and that it implements `JobFifo` | `MbMgr`, `TLAPS` |
| `JobDispatch` | `is_job_invalid` and the submit and flush tables for every algorithm | `Job` (through an instance) |
| `JobDispatchProofs` | what the tables say, and what becomes of a job on its way through them | `JobDispatch`, `TLAPS` |
| `OooMgr` | abstract: what the job manager relies on in an OOO manager | |
| `AesLanes` | an AES-CBC manager, AVX code | refines `OooMgr` |
| `AesLanesProofs` | its invariant and the refinement | `AesLanes`, `TLAPS` |
| `HmacLanes` | the HMAC-SHA1 manager, AVX code | refines `OooMgr` |
| `HmacLanesProofs` | its invariant and the refinement | `HmacLanes`, `TLAPS` |
| `LaneLemmas` | numbers and stacks, for the proofs of all lane managers | `TLAPS` |
| `ZucLanes` | the ZUC managers for AVX512 (EEA3 and EIA3) | `Zuc`, refines `OooMgr` |
| `ZucLanesProofs` | their invariant, step by step, and the window of EIA3 | `ZucLanes`, `LaneLemmas` |
| `SetupTables` | CPU features, the choice of `init_mb_mgr_auto`, and per architecture the lanes an init function writes and the kernels it selects | |
| `Setup` | managers of several threads from allocation to release, and the error status | `SetupTables` |
| `SetupProofs` | its invariant, architecture by architecture | `Setup`, `TLAPS` |
| `Keystream` | pieces of keystream, sorting and grouping of buffers, bits across blocks | |
| `Zuc`, `Snow3g`, `Kasumi` | the drivers of the three algorithms | `Keystream` |
| `Wireless` | the direct API over these, beside the ZUC managers | `Snow3g`, `Kasumi`, `ZucLanes` |
| `WirelessProofs` | the direct API for all lengths, and what holds of the ZUC managers in the whole | `Wireless`, `ZucLanesProofs` |
| `MC*` | small instances for TLC | |

Three interfaces hold the parts together. `MbMgr` assumes of a kind what
`Job!Admissible` says (a stage that is queued at submit is flushed by the same
manager); `JobDispatch!KindIsAdmissible` checks it for every job the library
accepts. `MbMgr` treats a manager as a set of lanes that gives back *some* job it
holds once all are busy, or when it is flushed; that is `OooMgr`, and both lane
modules are shown to implement it. And `MbMgr` itself implements `JobFifo`,
which is what the application sees. `ZucLanes` implements `OooMgr` too.
`Setup!LanesMatchKernels` is what lets the lane modules take their number of
lanes for granted: what an init writes is what the kernel it selects expects.

A definition named `X_Defect` is a version of `X` with a plausible slip, kept to
show that a property depends on the code being as it is. No specification uses
one.

### The job manager (`MbMgr`)

`jobs`, `earliest_job` and `next_job` are the fields of `IMB_MGR`; a slot is an
index instead of a byte offset. `lanes[m][l]` is `job_in_lane[l]` of manager `m`.
A job is its kind and its status bits. `ret` is the return value of the last call
and `call` the control state of the one that is running:

    idle ─ SubmitValid ─▶ new ─▶ resubmit ... ─▶ ring ─▶ idle
    idle ─ SubmitInvalid ─▶ ring     ring ─ RingFull ─▶ complete
    idle ─ FlushJob ─▶ complete ⇄ resubmit_flushed     complete ─▶ idle
    idle ─ GetCompletedJob, FlushEmpty ─▶ idle

Each turn of `RESUBMIT_JOB`'s loop and each turn of `complete_job`'s is a step,
because that is where the hazards are; nothing else runs between the steps of a
call, so the finer steps only make intermediate states visible to the
invariants. A stage is synchronous (`RunNow`), AEAD (`RunAead`: both bits at once),
custom (`RunCustom`, which may fail) or queued (`LaneSubmit`). When a queued
submit fills the last lane the manager gives back a job; *which* one depends on
the lengths, so the choice is left open here and settled in the lane modules.
`get_next_job` only computes the address of a slot; the application's writing of
that slot is part of `SubmitValid` and `SubmitInvalid`.

Jobs that `submit_job` refuses get `STS_INVALID_ARGS` and take a place in the
ring like any other (`SubmitInvalid`); `submit_job_nocheck` is `SubmitValid`:
a job that the check would have accepted.

### Dispatch (`JobDispatch`)

One job from `is_job_invalid` to its return, with each algorithm, direction,
order, key size and a handful of lengths around every limit. The module keeps a
history (a bag) of which computations were done for the job and by kernels for which key
size; the tables themselves are the operators `SubmitCipher`, `FlushCipher`,
`HashManager`, `SubmitHash` and `FlushHash`. `arch` tells the AVX512 tables from
those of the other managers. A job in an OOO manager may be run by the
call of any other job of that manager, hence `KernelsOf`.

### Lane managers (`AesLanes`, `HmacLanes`)

State variables have the assembler's names: `unused_lanes` is the stack that the
code packs into nibbles or bytes of a 64-bit word, `lens` the 16-bit words, and the
per-lane pointers carry the job they point into and how far they have advanced.
The packing of a lane index into the low bits of the word that `vphminposuw`
finds is not modelled: `MinLane` picks the lowest lane among the shortest, as the
instruction does. The words behind the last lane that the AVX code keeps at
0xFFFF are left out.

An AES submit or flush ends after one kernel call, so `Submit`, `FlushNull` and
`FlushOne` are whole calls. An HMAC submit or flush loops until a lane has come
through its passes; `Submit` and `Flush` begin the loop, `ProcExtraBlocks`,
`ProcOuter` and `EndLoop` are its turns.

In both, `TypeOK`, the stack and what a lane holds form one invariant: `AesLanes`
states its parts apart, `HmacLanes!LanesAreSound` joins them.

### Set-up (`SetupTables`, `Setup`)

`SetupTables` keeps, for each architecture, two tables that are far apart in the
code and that nothing there compares: `Init*` is what `init_mb_mgr_*` writes in every OOO
manager (lanes on the stack, words of `lens` written, what the spare ones hold), and
`Kernels*` what the submit and flush functions behind the macros of the same file
expect. Both depend on the features of the CPU, after the flags of `alloc_mb_mgr` have taken
some away (`cpu_feature_adjust`).

`Setup` has two threads with a manager each. A call is a few steps: allocation of the
manager and of each OOO manager in the order of the code, any of which may fail; the
choice of `init_mb_mgr_auto`; the init function, with its fall-back where AESNI is missing. A
step has at most one access to what threads share. `Queue` and `Return` put jobs in a lane and
take them out, so that an init finds managers in use; they are as coarse as the flush of XCBC is: it asks the stack whether
any lane is taken, then takes any lane that points to a job, which after an init need not be one of those taken
(`twice` keeps the lanes given back so). `heap` is what a thread has allocated.

### Wireless (`Keystream`, `Zuc`, `Snow3g`, `Kasumi`, `ZucLanes`, `Wireless`)

Ciphering is described by *pieces*: n units of a buffer from some place on get the
keystream of some packet from some place on. A driver is an operator from the lengths of
its buffers to the pieces each gets; what a test would compare with known answers for a few
lengths is compared here with the piece that is due, for every shape of batch. The operators follow the
functions: the sort of SNOW3G is its sort, with its swaps; a group goes as far as its shortest
buffer; the rest of a buffer is done with what is left of its state. EIA3 is described by its window of
keystream words: which word of the keystream each slot holds, and where the MAC takes a word
from a slot that holds another.

`Wireless` calls these functions in one step each, before the managers of ZUC are first used (they share
no state), and `ZucLanes` is the state machine of those managers. There a job is not done in
one go: each call takes all lanes as far as the shortest, and a lane goes on with its own
state and, for EIA3, the last two words of its keystream.

## 3. Runs

| Run | Instance | States | Shows |
|---|---|---|---|
| `queued` | ring of 4, 2 managers of 2 lanes, 3 kinds with queued stages in both orders | 808,000 | the safety properties of the job manager and the refinement of `JobFifo` |
| `mixed` | ring of 3, 2 managers of 3 lanes, 5 kinds: also AEAD, custom, and a DOCSIS job shorter than a block | 342,000 | the inductive invariant of the proofs (with it `TypeOK`, `LanesHoldPending`, `OneLanePerJob`, `LaneToSpare`), `CallsReturn` |
| `aes_lanes` | 3 lanes, 3 jobs, lengths 16, 40, 78 in words up to 79 | 41,000 | lane bookkeeping, exact lengths, `OooMgr`, no starvation |
| `hmac_lanes` | 3 lanes, 3 jobs, lengths 20, 188 | 38,000 | lane bookkeeping, padding, tags, `OooMgr`; a call ends, no starvation |
| `dispatch` | 19 cipher modes, 29 hashes, both table sets | 197,000 | the submit and flush tables agree; each stage runs once, with the right kernel, and fits its word |
| `setup` | 2 threads, 8 CPUs, all flags, failures anywhere; XCBC jobs of one of them in 2 lanes | 971,000 | lanes match kernels, code the CPU has, no leak, a status of one's own, no job of before an init comes back |
| `wireless` | 3 lanes, 3 jobs; batches of up to 30 buffers on every architecture | 108,000 | every byte and bit gets its keystream, every MAC its words, and the lane properties of ZUC with `OooMgr` |
| `custom_first`, `cmac_kernels`, `cbcs_key`, `eia3_short`, `zuc_long` | as small as the case allows | | the findings of section 5 |

**Bounds.** `MAX_JOBS` is 128 in the code. A ring of 4 has every situation the
ring code tells apart: empty, one job, several, one free slot, full, and offsets
that wrap; `QUEUE_SIZE`'s mask needs a power of two, which 4 is, and `mixed` leaves
that property out because 3 is not. Two lanes are the least for which "a
submit that fills the manager" differs from "any submit", and three for which a flush
meets several busy lanes and an idle one. Three slots with three lanes (`mixed`)
add the case that a ring fills before any manager does. The theorems of section 4
remove these bounds for what they state, the order of return included.

The lane lengths are chosen per branch: for AES a single block, a length with a
remainder (CBC itself refuses it, other users of the manager round it down), and the
longest that the word can hold; words go up to 79 instead of
65535 so that the longest is a few blocks. For HMAC: no whole block with one extra
block (20), and several with two extra blocks (188), so a lane passes through each
phase with a short and a long job beside it. Three jobs can be resubmitted for ever, so every lane is reused by jobs
of each length.

The lengths of `dispatch` are 0, less than a block, a block and more than 16 bits
hold, and 24 for the hash, the length that fits a cipher of one block in DOCSIS.

The CPUs of `setup` are one of each generation that the code tells apart, among them one without
AESNI, one with bits in a leaf it does not report and one with the foundation of AVX512 alone. Two threads are enough for
an access to fall between any two steps of the other. One of them (`Workers`) has jobs, in two lanes, the least for an old
job to come back beside a new one, of the XCBC manager, which the inits clear differently; the lanes are
interchangeable (symmetry). DES, whose jobs stay from one init to a later one, is left to the theorem. A manager whose
stack of unused lanes has one lane twice is not followed until its next init (guard `Reaches`): what its counts then say is
beyond the model, and `OldJobsStayAway` has spoken by then.

The batches of `wireless` are of two sorts: one buffer of another length among equal ones, first or
second, and all lengths different; for each, one buffer less and one more than the groups of each
width (2, 4, 8, 16), and lengths on both sides of a word, a block, a round and of the limits. The
recursion of the operators keeps F9 to 1100 bits and EIA3 batches to 1024. `SNOW3G_MAX_BITLEN` is `UINT32_MAX` in the
code, more than TLC's integers hold: the runs take 1000, so that F9 meets messages on both sides of it; the theorem holds for any
limit. The theorems of section 4 have none of these bounds. The managers have 3 lanes instead of 16; EEA3
jobs of less than a word and of more than two rounds, EIA3 jobs of less than two words, one short
round and three rounds.

**Fairness.** In `MbMgr`, `WF_vars(InCall)`: the processor goes on executing a call that has
begun. Nothing is assumed about the application, which may never call again. In the
lane modules, `WF_vars(Loop)` is the same for HMAC's loop, and `WF_vars(Next)` says that
the application goes on submitting or flushing, without which a job rightly
stays in its lane; it does not say which of the two, so `NoJobStarves` covers an
application that never flushes. `Setup` and `Wireless` claim safety only and state no fairness.

**Properties.** Invariants of the job manager: a lane holds only jobs whose
stage there is still open (`LanesHoldPending`), no job is in two lanes
(`OneLanePerJob`), an unfinished job is in a lane or in the hands of the running call
(`NoJobForgotten`), a manager about to be given a job has a lane (`LaneToSpare`), each flush
made by `complete_job` finds a job (`CompleteJobAdvances`), slots the application may write are in
no lane (`ApplicationSlotsAreFree`), `QUEUE_SIZE` counts the outstanding jobs
(`QueueSizeIsExact`), what a call returns is finished (`ReturnedJobIsCompleted`) and is
left alone until its slot comes round again (`FinishedJobIsLeftAlone`). The comment
over each property in its module names the code it is about.

Each property of a run has a version of the code that breaks it (a `_Defect`).

## 4. Proofs

### Job manager

`MbMgrProofs` proves, for any `MAX_JOBS` of at least 2, any managers with any non-empty
sets of lanes (`SizeAssumption`), and any admissible kinds of job (`KindsAssumption`):

| Theorem | Property |
|---|---|
| `Inductive` | `InductiveInv` |
| `TypeCorrect` | `TypeOK`, a part of `InductiveInv` |
| `LanesAreSound` | `LanesHoldPending`, a part of `InductiveInv` |
| `NoJobIsForgotten` | `NoJobForgotten` |
| `CompleteJobCannotSpin` | `CompleteJobAdvances` |
| `ReturnedIsCompleted` | `ReturnedJobIsCompleted` |
| `ApplicationOwnsItsSlots` | `ApplicationSlotsAreFree` |
| `QueueSizeCounts` | `QueueSizeIsExact` |
| `FinishedJobsAreKept` | `FinishedJobIsLeftAlone` |
| `JobsAreReturnedInOrder` | `ImplementsFifo` |

All have the hypothesis `CustomNotFirst`, that no kind has a custom stage in front of a
queued one. It is needed: on the instance of `custom_first` TLC breaks `LanesHoldPending`,
`OneLanePerJob`, `ReturnedJobIsCompleted` and `ApplicationSlotsAreFree` as well.

None of these properties is inductive alone. That `complete_job` advances needs to know that the
earliest job is in a lane of the manager it flushes (`NoJobForgotten`), which
survives a flush only if the job that comes out, and no other, leaves the lanes
(`OneLanePerJob`), and if that job is an open one (`LanesHoldPending`). Those in turn
need the shape of the running call (`CallShape`: which job it carries and with what
status), the shape of the ring (`RingShape`: `earliest_job` and
`next_job` in range and what each means when it is NULL), and that status bits tell how
far a job has got (`StatusTellsRun`: the second stage's bit is never there without
the first's). Together with `LaneToSpare` and the statement that the job last returned is
finished and outside the window of outstanding slots, they are
`InductiveInv`.

The step proof has one lemma per kind of action. Everything that can happen to the
lanes in one stage of a job is brought under `StageStep`, which is stated with four
predicates (what the lanes hold afterwards, at most once, the carried job if it was not
returned, and only in the manager of its stage) and used four times: a flush, a stage
done in place, a submit that keeps the job, and one that swaps it for
another. The steps that move `earliest_job` and `next_job` reduce to facts about `Window`, the
set of slots between them.

The other three use that invariant and need no stronger one. `QueueSizeCounts` is the cardinality of
`Window`, which is in bijection with an interval of integers even where it wraps.
`FinishedJobsAreKept` looks at each action's writes to `jobs`: a stage writes to the job
it carries or releases, which is open by `CallShape` and `LanesHoldPending`, so only the
application's own submission is left, and it writes to `next_job`, outside the window.

`JobsAreReturnedInOrder` is the refinement. The queue of `JobFifo` is the sequence of
slots from `earliest_job` on, `Doing` the slot that the running submit is about to append. Begin and end
of a submit and of a flush, a flush of nothing and `GET_COMPLETED_JOB` are the actions of
`JobFifo`; the steps between are stutters. What has to be shown is arithmetic modulo the size of the ring
(`SlotSeqAppend`, `SlotSeqPop`), that a full ring is recognised (`RingArithmetic`), and,
from the invariant, that the head is done when it is returned.

### Lane managers

`AesLanesProofs` and `HmacLanesProofs` prove, for any number of lanes of at least 2, any jobs and
any lengths that `is_job_invalid` admits (`LanesAssumption` of each module):

| Theorem | Property |
|---|---|
| `StackKept`, `LanesExact`, `KernelIsSafe`, `JobsComeBackWhole` (`AesLanesProofs`) | `StackIsFreeLanes`, `LaneIsExact`, `KernelStaysInBuffers`, `ReturnedJobIsWhole` |
| `LanesRefineOoo` (`AesLanesProofs`) | `ImplementsOooMgr` |
| `HmacLanesSound`, `HmacKernelIsSafe`, `TagsAreRight` (`HmacLanesProofs`) | `LanesAreSound`, `KernelStaysInBuffers`, `TagIsHmac` |
| `HmacLanesRefineOoo` (`HmacLanesProofs`) | `ImplementsOooMgr` |

In `AesLanes`, `TypeOK` (theorem `LanesTyped`), `StackIsFreeLanes` and `LaneIsExact` together are inductive. `Prepared` says what the state is
when the kernel is called, with the pointers and lengths that a flush has given to empty lanes, and the
lemma `KernelCall` does the rest of a submit and of a flush at once: the shortest lane has a job
(`ShortestIsBusy`; it is where a length of an empty lane must not be the least), so the number
of blocks fits every lane with a job.

In `HmacLanes` the checked invariants are not inductive, since nothing in them says what a digest
in the middle of a message is of. `LanesInPass` says it: a lane with a job is in one of three passes
(`MsgPass`, `ExtraPass`, `OuterPass`), what is done and what is left of the
pass's buffer make up the buffer, and the digest is that of the passes before and of the blocks
done. `PassMoves` shows that a turn of the kernel keeps every lane in its pass,
`PassEnds` what the pass of the shortest lane has come to, and `TurnStep` takes the lane into the next
pass. `CallShape` says that the loop stands at a lane with a job, without which a
flush would copy the pointer of an empty lane.

Both show that the manager implements `OooMgr`, a step of it at a time; for HMAC the
abstract submit happens when the loop ends, and the steps before are stutters. `LaneLemmas` has
what the two share: the least of some numbers exists, and a stack without
repetitions loses and gains one lane.

### ZUC managers

`ZucLanesProofs` and `WirelessProofs` prove of the managers for AVX512, for any number of lanes of at least
2, any jobs and any lengths that the check admits (`LanesAssumption`):

| Theorem | Property |
|---|---|
| `LanesInvAlways` | `LanesInv`, the inductive invariant |
| `LanesAlwaysSound` | `LanesAreSound` |
| `JobsComeBackWhole` | `ReturnedJobIsWhole` for EEA3, and for EIA3 if no message has 2^15 bits |
| `LanesRefineOoo` | `ImplementsOooMgr` |

A job takes many calls here, so the invariant has to say what state a lane is in between two of them. `GoesOn`
says it: b words of the message are done, the pointer is that far into the buffer, and either nothing was made yet
(the lane is marked in `init_not_done`) or the state of the lane belongs to its job, has made the words due
there, and for EIA3 the two words kept of the last window are words b and b + 1. `LaneOk` adds that what is done and what is
left make up the message. A flush copies the arguments of a busy lane to the idle ones, so the kernel works
on lanes that nobody owns; `AlikeOk` shows that they read what that lane reads and that their results are dropped.

In the kernel, `Holds(k, W, m)` says that the first m slots of the window hold the words due there and that no wrong
word was taken. `GenFacts`, `RoundFacts` and `FinishFacts` show what making words, a round and the end of a message do to it,
`KernelWindowFacts` what a call does: rounds of 16 words with 14, then 16, made in advance, and never a word more
than the call needs.

The bound of 2^15 bits is finding 5: `LeftOf` is a difference of 16-bit words compared as signed ones, exact below
2^15 (`LeftOfFacts`), and beyond it a lane is taken for done. The other three theorems hold for long messages too.

### Dispatch

`JobDispatchProofs` proves the four invariants of `JobDispatch` for any sets of architectures, cipher modes, hash
algorithms and lengths, known to the tables or not. The only assumption is that lengths are natural numbers
(`LensAssumption`); TLC's lengths are a few on either side of the limits.

| Theorem | Property |
|---|---|
| `KindAlwaysAdmissible` | `KindIsAdmissible`: what `KindsAssumption` asks for in the proofs of the job manager |
| `RequestedStagesAlwaysRun` | `RequestedStagesRun` |
| `LaneLengthAlwaysFits` | `LaneLengthFits` |
| `KernelAlwaysFitsKey` | `KernelFitsKey` |

What the tables say is proved first, by cases: submit and flush agree (`TablesAgree`), the bounds of the check keep the words
of the managers below 0xFFFF (`WordFits`), all users of a manager have one key size (`ManagerHasOneKernel`; the
three managers where they have not are named in `SharedManagers`), and the two stages of a job compute its
algorithms between them without computing one twice (`WorkIsWhole`, `WorkIsApart`, `AeadDoesBoth`).
The invariant `DispatchInv` then says how far a job has come: it waits only where the table puts its next stage
(`PlaceInv`), and what was computed is the work of the stages whose bit is set, each once (`DoneInv`).

### Manager set-up

`SetupProofs` proves the five invariants of `Setup` for any number of threads, any CPUs and any flags, from
`SetupAssumption`: a CPU has features among those the code knows, and one with AVX has also PCLMULQDQ and SSE4.2,
which `detect_avx` does not ask for and the AVX code uses.

| Theorem | Property |
|---|---|
| `LanesAlwaysMatchKernels` | `LanesMatchKernels` |
| `KernelsAlwaysRunOnCpu` | `KernelsRunOnCpu` |
| `AutoAlwaysReportsWhatRuns` | `AutoReportsWhatRuns` |
| `ManagersAlwaysSound` | `ManagersAreSound` |
| `OldJobsAlwaysStayAway` | `OldJobsStayAway` |

The tables come first: for each architecture, the lanes and words that the init function writes in each OOO manager
(`Initialised*`) fit the kernels it selects (`TablesFit*`). For SSE and AVX512 that holds only if the
pointers shared by the threads stand as the features of this manager would set them, and
another thread may have set them for its own. `SetupInv` therefore relates the shared pointers to the CPU and the flags
of every manager that is past its selection; that an init on one CPU selects the same for equal flags, and that no flag reaches
the features SSE and AVX512 select by, is what the code relies on without saying it. Of jobs it says that in an OOO manager the
architecture uses the lanes that point to a job are those taken (`NoJobIsForgotten`): jobs kept in the managers of DES, which only
AVX512 uses, are harmless because its own init clears them.

### Direct wireless API

`WirelessProofs` proves the six properties of the direct API for any number of buffers and any lengths, on every
architecture. The assumptions are that lengths and offsets are natural numbers (`BatchesAssumption`) and so is the
limit of F9 of SNOW3G (`BitLenAssumption`). An F9 call with a length beyond the limit of its algorithm is refused and leaves
its digest alone; that is part of `F9TakesMessage`.

| Theorem | Property |
|---|---|
| `Eea3AlwaysInStep` | `Eea3InStep` |
| `Eia3AlwaysHolds` | `Eia3Holds`, which excepts finding 4 |
| `Snow3gAlwaysInStep` | `Snow3gInStep` |
| `KasumiAlwaysInStep` | `KasumiInStep` |
| `BitsAlwaysExact` | `BitsExact`, which excepts `Spills` (section 5, remarks) |
| `F9AlwaysTakesMessage` | `F9TakesMessage` |

A call is a single step here, so the invariant is only that the call made last kept its promise (`CallKept`); the work is
in the operators. The loops of the code are recursive functions, and what they compute for every length needs an induction: its
shape is stated once, for values and their types as functions. `RecursionDefines` shows by the least counterexample
that such a recursion has a value of the right type at each number, `RecursionStays` that a predicate given as a set per
number is kept. Each loop then needs a lemma for one turn.

The lists of pieces a loop makes are `Chained`: a piece begins where the one before it ends, and the distance between its place in
the message and its place in the keystream does not change. The part that a group does together and the rest that each
buffer does alone may be empty; dropping empty pieces keeps the chain (`PiecesChained`). `InStep` follows from a
chain that begins at 0 (`ChainInStep`).

- *Groups*: any greedy cutting of the buffers by the widths of an architecture puts each buffer in a group of
  consecutive buffers (`GroupFacts`), and the common part of a group is within each of its buffers.
- *Sort* (SNOW3G, KASUMI): a swap, hence a pass, hence the whole sort permutes the rows (`Shuffled`), and each pass puts one more
  row in its place (`InPlace`), `SortFacts`. The first is why a buffer finds its own results; KASUMI also needs the second.
- *KASUMI rounds*: `RoundInv` says that all packets of a round are as far as `blkcnt` blocks and the ones that have left it are
  done. A round goes as far as the shortest packet, the last in order, and takes all that end there out at once
  (`RoundKeeps`); they can be found at the end because of the order, and there is no packet left after as many rounds as packets (`RoundsCover`).
- *EIA3*: the window lemmas of the ZUC managers are used again, for kernels that make 4, 8 or 16 lanes in step. `EndsInAShortRound`
  is the one place where AVX512 makes fewer words than a message that goes on needs; the
  proof needs it nowhere else.

### Only model-checked

Liveness (`CallsReturn` and `NoJobStarves`), which is out of the prover's reach. The job manager's theorems exclude the custom
stages of finding 1, and `JobsComeBackWhole` of ZUC the long messages of finding 5.

## 5. Findings

1. **A custom stage in front of a queued one** (`custom_first`, `mb_mgr_code.h:257`).
   `FLUSH_JOB_CUSTOM_CIPHER` and `_HASH` return the job whether or not the custom
   stage was still to be done. When `complete_job` waits for a job whose custom stage is
   over and whose other stage is queued, it flushes the first stage, gets that same job
   back, and resubmits it: its second stage takes a second lane. The job is finished by
   one of them and returned, the other lane still points to its slot, and a later
   call gets the slot's new contents, or an old job, out of it.
2. **CMAC of two key sizes in one manager** (`cmac_kernels`, lines 774-787 and 911-915;
   CCM at 768-773 likewise). Whichever call completes or flushes a lane runs its
   own kernel over all lanes, so AES128 jobs are run with 14 rounds or AES256 ones with 10 when an
   application mixes them.
3. **CBCS keys** (`cbcs_key`, line 505). The check accepts 24 and 32 bytes; only
   the AES128 kernel exists.
4. **EIA3 of 16 messages on AVX512** (`eia3_short`, `avx512/zuc_avx512_top.c:642`). When the
   common part of the lengths ends with a round, that round makes only 8 bytes of
   keystream, as if all messages ended there. The other architectures ask whether they do
   (`avx/zuc_avx_top.c:537`). A message that goes on gets a MAC made with words that were not made.
   `Eia3Holds` is checked, and proved, for all other batches.
5. **Long EIA3 jobs on AVX512** (`zuc_long`, `avx512/zuc_avx512.asm:1720`). What is left of
   a lane is a 16-bit word that is compared as a signed one, so a job of more than
   32767 bits, which the check allows, comes back as done with the first shorter one. `wireless`
   therefore has EIA3 jobs of up to 1100 bits.

Remarks, met while modelling, where no sentence of the repository says otherwise or where the words
rather than the code should change:

- CHACHA20-POLY1305 with a hash other than its own passes the check and comes back completed
  without the tag it asked for (`chacha20_poly1305.c:91`). `RequestedStagesRun` leaves the pair out.
- The job just submitted may be the one returned when the ring is empty and its stages are done at
  once, which `ReleaseNotes.txt:470` excludes; the header of the code allows it.
- `alloc_mb_mgr` writes a "road block" at the end of each OOO manager, and an `init_mb_mgr_*` that falls
  back to the code without AESNI wipes that of some (`mb_mgr_sse_no_aesni.c:794`, `alloc.c:43`).
  `Setup` keeps `road` for it; no property asks for it.
- `init_mb_mgr_avx2` and `init_mb_mgr_avx512` empty the lanes of the XCBC manager but leave their `job_in_lane`
  (`mb_mgr_avx2.c:731`, `mb_mgr_avx512.c:1501`; `mb_mgr_avx.c:789` clears it). On a manager that had XCBC jobs, the next flush with a new
  one takes the old lane for a busy one, hands back the job of before the init and puts the lane on the stack a second
  time. `OldJobsStayAway` excepts the two, and shows that no other sequence of inits does it.
- With an offset in bits inside a byte and a message that ends in its first block,
  `f8_snow3g_bit` and `kasumi_f8_1_buffer_bit` count the bytes to write without the offset, and the
  last bits may not be written. `BitsExact` excepts these cases by name (`Spills`).

## 6. Not modelled

- The cryptography, and with it the CRCs, key expansion, key schedules and the building of IVs:
  pure functions of bit strings, for which known answers are the better check.
- Streaming GCM and CHACHA20-POLY1305: `gcm.c` checks pointers and calls assembler, in which
  init, update and finalize are macros that mix the bookkeeping of a partial block with the computation.
- In `is_job_invalid`: pointers, IV and tag lengths, offsets, and which error code each refusal
  sets. The NULL checks of the direct API.
- What `imb_errno` says beside the status of the job that a call returns, and whose call it speaks of when
  it is asked for with a NULL manager: it is one for all threads, and the code promises nothing.
- The order of the stages of AES-CCM, which the check does not look at: `JobDispatch` runs them as
  the job says and has no notion of what CCM authenticates.
- The lane managers of CMAC, XCBC, CCM, CBCS, DES, DOCSIS, SHA-NI and HMAC-SHA2/MD5. Their lanes work as those of
  `AesLanes` or `HmacLanes` with other block sizes; which job goes in which of them, with which kernel and number of
  lanes, is in `JobDispatch` and `SetupTables`.
- The ZUC managers with 4 and 8 lanes beyond their EIA3 kernel (`Zuc`): they run a job whole.
- The no-aesni dispatch tables. `submit_job_nocheck` with a job that the check
  would refuse: the precondition is the caller's.

## 7. What could follow

1. The rest of `is_job_invalid`, with the error reported for each refusal, in the order of the code.
2. Lane managers that differ in structure: CCM and CMAC (one more pass, shared between
   key sizes), DOCSIS (a partial block after the lane), CBCS (64-bit lengths); each refining `OooMgr`.
3. Streaming GCM over any split of a message, as a refinement of a specification that counts bytes.
