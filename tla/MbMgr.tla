------------------------------- MODULE MbMgr -------------------------------
(***************************************************************************)
(* The job manager of lib/include/mb_mgr_code.h: the in-order ring of jobs *)
(* (IMB_MGR.jobs, earliest_job, next_job) on top of the out-of-order (OOO) *)
(* managers, each of which keeps a job in every one of its lanes until all *)
(* lanes are busy or a flush is asked for.                                 *)
(*                                                                         *)
(* One API call is a sequence of steps, because SUBMIT_JOB and FLUSH_JOB   *)
(* run loops (RESUBMIT_JOB, complete_job) that move other jobs between the *)
(* OOO managers; call.pc is the place inside the call.  A manager belongs  *)
(* to one thread, so a new call begins only when call.pc = "idle".         *)
(*                                                                         *)
(* A definition named X_Defect is X with one plausible slip of the C code; *)
(* no specification uses it.  PROJECT.json names the property each breaks. *)
(***************************************************************************)
EXTENDS Job, FiniteSets

CONSTANTS
  MAX_JOBS,        \* number of slots of the ring, 128 in the code
  Lane,            \* Lane[m]: the lanes of OOO manager m
  Kinds            \* the kinds of job the application submits

NULL == -1          \* no job; also the value of earliest_job on an empty ring

Slots == 0 .. MAX_JOBS - 1

\* Ring and lanes are not degenerate; an OOO manager does one stage and is none
\* of the other services.
ASSUME SizeAssumption ==
  /\ MAX_JOBS \in Nat /\ MAX_JOBS >= 2
  /\ Managers \cap {SYNC, AEAD, CUSTOM, NONE} = {}
  /\ CipherManagers \cap HashManagers = {}
  /\ \A m \in Managers : Lane[m] # {}

\* JobDispatch checks that the tables of the library give such kinds.
ASSUME KindsAssumption == Kinds # {} /\ \A k \in Kinds : Admissible(k)

-----------------------------------------------------------------------------
VARIABLES
  earliest_job,  \* slot of the oldest outstanding job, -1 if none
  next_job,      \* slot the next get_next_job hands out
  jobs,          \* jobs[s]: kind and status of the job in slot s
  lanes,         \* lanes[m][l]: the slot job_in_lane of m points to, or NULL
  call,          \* the API call in progress
  ret,           \* what the last finished call returned
  ran            \* history: stages run for slot s since it was submitted

vars == <<earliest_job, next_job, jobs, lanes, call, ret, ran>>

Pcs == {"idle", "new", "resubmit", "ring", "complete", "resubmit_flushed"}

Idle == [op |-> "none", pc |-> "idle", job |-> NULL]

TypeOK ==
  /\ earliest_job \in Slots \cup {NULL}
  /\ next_job \in Slots
  /\ jobs \in [Slots -> [kind : Kinds, status : Statuses]]
  /\ DOMAIN lanes = Managers
  /\ \A m \in Managers : lanes[m] \in [Lane[m] -> Slots \cup {NULL}]
  /\ call \in [op : {"none", "submit", "flush"}, pc : Pcs, job : Slots \cup {NULL}]
  /\ ret \in Slots \cup {NULL}
  /\ ran \in [Slots -> Seq(Stages \cup {"AEAD"})]

\* ADV_JOBS
Adv(s) == IF s + 1 >= MAX_JOBS THEN 0 ELSE s + 1

\* An OOO manager after init_mb_mgr_*: no job in any lane.
NoJobs(m) == [l \in Lane[m] |-> NULL]

FreeLanes(L) == {l \in DOMAIN L : L[l] = NULL}
BusyLanes(L) == {l \in DOMAIN L : L[l] # NULL}

Init ==
  /\ earliest_job = NULL
  /\ next_job = 0
  /\ \E k \in Kinds :
       jobs = [s \in Slots |-> [kind |-> k, status |-> BEING_PROCESSED]]
  /\ lanes = [m \in Managers |-> NoJobs(m)]
  /\ call = Idle
  /\ ret = NULL
  /\ ran = [s \in Slots |-> <<>>]

-----------------------------------------------------------------------------
(***************************************************************************)
(* The stage of one job.  Each operator gives jobs', lanes', ran' and the  *)
(* job the C function returns, which is the next value of the caller's job *)
(* pointer: call.job'.                                                     *)
(***************************************************************************)
Goto(pc, j) == call' = [call EXCEPT !.pc = pc, !.job = j]

\* The stage is over for job j: the completion bit is set.
Mark(j, stage) ==
  /\ jobs' = [jobs EXCEPT ![j].status = Or(@, stage)]
  /\ ran'  = [ran EXCEPT ![j] = Append(@, stage)]

\* JOB_CUSTOM_CIPHER and JOB_CUSTOM_HASH: the callback runs unless it has run,
\* and the job is returned in every case.
RunCustom(j, stage, pc) ==
  /\ \/ /\ HasBit(jobs[j].status, stage)
        /\ UNCHANGED <<jobs, ran>>
     \/ /\ ~HasBit(jobs[j].status, stage)
        /\ \/ Mark(j, stage)
           \/ /\ jobs' = [jobs EXCEPT ![j].status = INTERNAL_ERROR]
              /\ UNCHANGED ran
  /\ UNCHANGED lanes
  /\ Goto(pc, j)

\* The algorithms that are done when their submit function returns.
RunNow(j, stage, pc) ==
  /\ Mark(j, stage)
  /\ UNCHANGED lanes
  /\ Goto(pc, j)

\* GCM, CHACHA20-POLY1305 and PON: one function does the cipher and the hash.
RunAead(j, pc) ==
  /\ jobs' = [jobs EXCEPT ![j].status = COMPLETED]
  /\ ran'  = [ran EXCEPT ![j] = Append(@, "AEAD")]
  /\ UNCHANGED lanes
  /\ Goto(pc, j)

Release_Defect(m, L, d, stage, pc) ==
  /\ lanes' = [lanes EXCEPT ![m] = L]
  /\ Mark(L[d], stage)
  /\ Goto(pc, L[d])

\* An OOO manager finishes the job in lane d of L and returns it.
Release(m, L, d, stage, pc) ==
  /\ lanes' = [lanes EXCEPT ![m] = [L EXCEPT ![d] = NULL]]
  /\ Mark(L[d], stage)
  /\ Goto(pc, L[d])

\* Submitting to an OOO manager: the job takes a lane.  While a lane is left
\* the manager returns NULL; otherwise it finishes one of its jobs.  Which one
\* depends on the lengths (AesLanes, HmacLanes).
LaneSubmit(m, j, stage, pc) ==
  \E l \in FreeLanes(lanes[m]) :
    LET L == [lanes[m] EXCEPT ![l] = j] IN
    \/ /\ FreeLanes(L) # {}
       /\ lanes' = [lanes EXCEPT ![m] = L]
       /\ UNCHANGED <<jobs, ran>>
       /\ Goto(pc, NULL)
    \/ /\ FreeLanes(L) = {}
       /\ \E d \in DOMAIN L : Release(m, L, d, stage, pc)

LaneFlush(m, stage, pc) ==
  \E d \in BusyLanes(lanes[m]) : Release(m, lanes[m], d, stage, pc)

\* SUBMIT_JOB_AES and SUBMIT_JOB_HASH
SubmitStage(j, stage, pc) ==
  LET who == Server(jobs[j].kind, stage) IN
  \/ who = SYNC   /\ RunNow(j, stage, pc)
  \/ who = AEAD   /\ RunAead(j, pc)
  \/ who = CUSTOM /\ RunCustom(j, stage, pc)
  \/ who \in Managers /\ LaneSubmit(who, j, stage, pc)

\* FLUSH_JOB_AES and FLUSH_JOB_HASH, for the algorithms of job j, return NULL.
FlushIsNull(j, stage) ==
  LET who == Flusher(jobs[j].kind, stage) IN
  \/ who = NONE
  \/ who = SYNC /\ HasBit(jobs[j].status, stage)
  \/ who \in Managers /\ BusyLanes(lanes[who]) = {}

\* The same functions where they return a job.  A manager may return another
\* job than j; the default branch of FLUSH_JOB_HASH completes the hash of j.
FlushStage(j, stage, pc) ==
  LET who == Flusher(jobs[j].kind, stage) IN
  \/ who = SYNC   /\ ~HasBit(jobs[j].status, stage) /\ RunNow(j, stage, pc)
  \/ who = CUSTOM /\ RunCustom(j, stage, pc)
  \/ who \in Managers /\ LaneFlush(who, stage, pc)

Done(j) == jobs[j].status >= COMPLETED

-----------------------------------------------------------------------------
(***************************************************************************)
(* The API calls.                                                          *)
(***************************************************************************)
Return(j) ==
  /\ call' = Idle
  /\ ret' = j

\* The application fills the job get_next_job returned and submits it.
Begin(k, status, pc) ==
  /\ call.pc = "idle"
  /\ jobs' = [jobs EXCEPT ![next_job] = [kind |-> k, status |-> status]]
  /\ ran'  = [ran EXCEPT ![next_job] = <<>>]
  /\ call' = [op |-> "submit", pc |-> pc, job |-> next_job]
  /\ ret'  = NULL
  /\ UNCHANGED <<earliest_job, next_job, lanes>>

\* SUBMIT_JOB of a job that passes is_job_invalid, and SUBMIT_JOB_NOCHECK
SubmitValid(k) == Begin(k, BEING_PROCESSED, "new")

\* SUBMIT_JOB of a job that is_job_invalid rejects
SubmitInvalid(k) == Begin(k, INVALID_ARGS, "ring")

SubmitNewJob_Defect ==
  /\ call.pc = "new"
  /\ SubmitStage(call.job, "AES", "resubmit")
  /\ UNCHANGED <<earliest_job, next_job, ret>>

SubmitNewJob ==
  /\ call.pc = "new"
  /\ SubmitStage(call.job, FirstStage(jobs[call.job].kind), "resubmit")
  /\ UNCHANGED <<earliest_job, next_job, ret>>

\* One turn of the loop of RESUBMIT_JOB, from which pc comes back to itself;
\* after the loop the caller goes on at next.
Resubmit(pc, next) ==
  /\ call.pc = pc
  /\ IF call.job = NULL \/ Done(call.job)
     THEN Goto(next, call.job) /\ UNCHANGED <<jobs, lanes, ran>>
     ELSE SubmitStage(call.job, ResubmitStage(jobs[call.job].status), pc)
  /\ UNCHANGED <<earliest_job, next_job, ret>>

ResubmitFlushed_Defect ==
  /\ call.pc = "resubmit_flushed"
  /\ Goto("complete", NULL)
  /\ UNCHANGED <<earliest_job, next_job, jobs, lanes, ret, ran>>

ResubmitNew     == Resubmit("resubmit", "ring")
ResubmitFlushed == Resubmit("resubmit_flushed", "complete")

\* submit_job_and_check after the job went in: advance the ring, and find the
\* job to return.
RingEmpty ==
  /\ call.pc = "ring" /\ earliest_job = NULL
  /\ earliest_job' = IF call.job = NULL THEN next_job ELSE NULL
  /\ next_job' = Adv(next_job)
  /\ Return(call.job)
  /\ UNCHANGED <<jobs, lanes, ran>>

RingFull ==
  /\ call.pc = "ring" /\ earliest_job # NULL
  /\ earliest_job = Adv(next_job)
  /\ next_job' = Adv(next_job)
  /\ Goto("complete", NULL)
  /\ UNCHANGED <<earliest_job, jobs, lanes, ret, ran>>

RingNotFull_DefectFull ==
  /\ call.pc = "ring" /\ earliest_job # NULL
  /\ next_job' = Adv(next_job)
  /\ IF Done(earliest_job)
     THEN Return(earliest_job) /\ earliest_job' = Adv(earliest_job)
     ELSE Return(NULL) /\ UNCHANGED earliest_job
  /\ UNCHANGED <<jobs, lanes, ran>>

RingNotFull_DefectAdv ==
  /\ call.pc = "ring" /\ earliest_job # NULL
  /\ earliest_job # Adv(next_job)
  /\ next_job' = Adv(next_job)
  /\ Return(IF Done(earliest_job) THEN earliest_job ELSE NULL)
  /\ UNCHANGED <<earliest_job, jobs, lanes, ran>>

RingNotFull ==
  /\ call.pc = "ring" /\ earliest_job # NULL
  /\ earliest_job # Adv(next_job)
  /\ next_job' = Adv(next_job)
  /\ IF Done(earliest_job)
     THEN Return(earliest_job) /\ earliest_job' = Adv(earliest_job)
     ELSE Return(NULL) /\ UNCHANGED earliest_job
  /\ UNCHANGED <<jobs, lanes, ran>>

\* One turn of the loop of complete_job on the earliest job.
CompleteJob ==
  LET j == earliest_job
      first == FirstStage(jobs[j].kind)
      second == SecondStage(jobs[j].kind)
  IN
  /\ call.pc = "complete" /\ ~Done(j)
  /\ \/ FlushStage(j, first, "resubmit_flushed")
     \/ FlushIsNull(j, first) /\ FlushStage(j, second, "resubmit_flushed")
     \/ /\ FlushIsNull(j, first) /\ FlushIsNull(j, second)
        /\ Goto("resubmit_flushed", NULL)
        /\ UNCHANGED <<jobs, lanes, ran>>
  /\ UNCHANGED <<earliest_job, next_job, ret>>

\* Behind complete_job: SUBMIT_JOB on a full ring and FLUSH_JOB return the
\* earliest job; only FLUSH_JOB can leave the ring empty.
CompleteDone ==
  LET e == Adv(earliest_job) IN
  /\ call.pc = "complete" /\ Done(earliest_job)
  /\ earliest_job' = IF call.op = "flush" /\ e = next_job THEN NULL ELSE e
  /\ Return(earliest_job)
  /\ UNCHANGED <<next_job, jobs, lanes, ran>>

FlushEmpty ==
  /\ call.pc = "idle" /\ earliest_job = NULL
  /\ Return(NULL)
  /\ UNCHANGED <<earliest_job, next_job, jobs, lanes, ran>>

FlushJob ==
  /\ call.pc = "idle" /\ earliest_job # NULL
  /\ call' = [op |-> "flush", pc |-> "complete", job |-> NULL]
  /\ ret' = NULL
  /\ UNCHANGED <<earliest_job, next_job, jobs, lanes, ran>>

GetCompletedJob_Defect ==
  /\ call.pc = "idle"
  /\ IF earliest_job # NULL /\ Done(earliest_job)
     THEN Return(earliest_job) /\ earliest_job' = Adv(earliest_job)
     ELSE Return(NULL) /\ UNCHANGED earliest_job
  /\ UNCHANGED <<next_job, jobs, lanes, ran>>

GetCompletedJob ==
  /\ call.pc = "idle"
  /\ IF earliest_job # NULL /\ Done(earliest_job)
     THEN /\ Return(earliest_job)
          /\ earliest_job' = IF Adv(earliest_job) = next_job
                             THEN NULL ELSE Adv(earliest_job)
     ELSE Return(NULL) /\ UNCHANGED earliest_job
  /\ UNCHANGED <<next_job, jobs, lanes, ran>>

QUEUE_SIZE_Defect ==
  IF earliest_job = NULL THEN 0 ELSE next_job - earliest_job

\* QUEUE_SIZE; & (MAX_JOBS - 1) is % MAX_JOBS, a power of two in the code.
QUEUE_SIZE ==
  IF earliest_job = NULL THEN 0 ELSE (next_job - earliest_job) % MAX_JOBS

InCall ==
  \/ SubmitNewJob \/ ResubmitNew \/ RingEmpty \/ RingFull \/ RingNotFull
  \/ CompleteJob \/ ResubmitFlushed \/ CompleteDone

Next ==
  \/ \E k \in Kinds : SubmitValid(k) \/ SubmitInvalid(k)
  \/ FlushEmpty \/ FlushJob \/ GetCompletedJob
  \/ InCall

\* The CPU runs a call to its end once begun; nothing makes the application
\* call.
Spec == Init /\ [][Next]_vars /\ WF_vars(InCall)

-----------------------------------------------------------------------------
(***************************************************************************)
(* What the manager keeps true.                                            *)
(***************************************************************************)

\* The slots between earliest_job and next_job.  They are equal on a full
\* ring, between RingFull and CompleteDone.
Window ==
  IF earliest_job = NULL THEN {}
  ELSE IF earliest_job < next_job THEN earliest_job .. next_job - 1
  ELSE (earliest_job .. MAX_JOBS - 1) \cup (0 .. next_job - 1)

\* A submit call works on a job the ring does not count yet.
Submitting == call.pc \in {"new", "resubmit", "ring"}

Outstanding == IF Submitting THEN Window \cup {next_job} ELSE Window

\* The stage an unfinished job waits for.
NextStage(s) ==
  IF jobs[s].status = BEING_PROCESSED THEN FirstStage(jobs[s].kind)
  ELSE ResubmitStage(jobs[s].status)

\* Every lane of every OOO manager points to a job that is outstanding and
\* unfinished, is in no call's hands, and waits for a stage of that manager:
\* the pointers in job_in_lane are never stale (SUBMIT_JOB_AES, SUBMIT_JOB_HASH,
\* RESUBMIT_JOB, complete_job).
LanesHoldPending ==
  \A m \in Managers : \A l \in Lane[m] :
    LET s == lanes[m][l] IN
    s # NULL =>
      /\ s \in Outstanding /\ s # call.job
      /\ ~Done(s)
      /\ Server(jobs[s].kind, NextStage(s)) = m

\* No job is in two lanes, of one OOO manager or of two: no stage of it runs
\* twice (RESUBMIT_JOB, complete_job).
OneLanePerJob ==
  \A m1 \in Managers : \A l1 \in Lane[m1] :
    lanes[m1][l1] # NULL =>
      \A m2 \in Managers : \A l2 \in Lane[m2] :
        lanes[m2][l2] = lanes[m1][l1] => m1 = m2 /\ l1 = l2

\* An unfinished job that no call has in hand is in a lane: the scheduler
\* never forgets a job between its two stages (RESUBMIT_JOB).
NoJobForgotten ==
  \A s \in Outstanding :
    ~Done(s) /\ s # call.job =>
      \E m \in Managers : \E l \in Lane[m] : lanes[m][l] = s

\* An OOO manager is entered with a lane to spare: its stack of unused lanes
\* is never popped when empty.
LaneToSpare == \A m \in Managers : FreeLanes(lanes[m]) # {}

\* The loop of complete_job always gets a job from one of its two flushes, so
\* it cannot spin on an unfinished earliest job.
CompleteJobAdvances ==
  call.pc = "complete" /\ ~Done(earliest_job) =>
    \/ ~FlushIsNull(earliest_job, FirstStage(jobs[earliest_job].kind))
    \/ ~FlushIsNull(earliest_job, SecondStage(jobs[earliest_job].kind))

\* What must have run on a finished job: its stages, each once, in the chain
\* order.
FullRun(k) ==
  IF k.cipher # AEAD THEN <<FirstStage(k), SecondStage(k)>>
  ELSE IF k.order = "CIPHER_HASH" THEN <<"AEAD">> ELSE <<"HMAC", "AEAD">>

\* "If a job is returned, then that job has been completed"
\* (ReleaseNotes.txt:479): a returned job is done, and STS_COMPLETED on it means
\* that its cipher and its hash ran once each in the order asked for.
ReturnedJobIsCompleted ==
  ret # NULL =>
    /\ Done(ret)
    /\ jobs[ret].status = COMPLETED => ran[ret] = FullRun(jobs[ret].kind)

\* The slot get_next_job hands out, which the application overwrites, is
\* neither outstanding nor in a lane; nor is the job just returned.
ApplicationSlotsAreFree ==
  call.pc = "idle" =>
    \A s \in {next_job, ret} \ {NULL} :
      /\ s \notin Window
      /\ \A m \in Managers : \A l \in Lane[m] : lanes[m][l] # s

\* QUEUE_SIZE counts the outstanding jobs, and one slot always stays free.
QueueSizeIsExact ==
  call.pc = "idle" =>
    /\ QUEUE_SIZE = Cardinality(Window)
    /\ QUEUE_SIZE < MAX_JOBS

\* "the data within the job object is guaranteed to be valid until the next call
\* to get_next_job()" (ReleaseNotes.txt:484): no step writes to a finished job
\* except the application that reuses its slot.
FinishedJobIsLeftAlone ==
  [][\A s \in Outstanding \cup ({ret} \ {NULL}) :
       Done(s) => \/ jobs'[s] = jobs[s]
                  \/ call.pc = "idle" /\ s = next_job /\ s \notin Window]_vars

\* Every API call returns: the loops of RESUBMIT_JOB and complete_job end.
CallsReturn == call.pc # "idle" ~> call.pc = "idle"

-----------------------------------------------------------------------------
(***************************************************************************)
(* The inductive invariant behind these.                                   *)
(***************************************************************************)

\* Where the call is, and what its job pointer can be there.
CallShape ==
  /\ call.pc = "idle" <=> call.op = "none"
  /\ call.pc = "idle" => call.job = NULL
  /\ Submitting => call.op = "submit"
  /\ call.pc # "idle" => ret = NULL
  /\ call.pc = "new" => call.job = next_job /\ jobs[next_job].status = BEING_PROCESSED
  /\ call.job # NULL => call.job \in Outstanding
  /\ call.pc # "new" /\ call.job # NULL => jobs[call.job].status # BEING_PROCESSED
  /\ call.pc \in {"ring", "complete"} /\ call.job # NULL => Done(call.job)

\* The two ring indices meet only on the full ring, inside SUBMIT_JOB.
RingShape ==
  LET completing == call.pc \in {"complete", "resubmit_flushed"} IN
  /\ completing => earliest_job # NULL
  /\ earliest_job = next_job <=> completing /\ call.op = "submit"

\* The status of an outstanding job tells which of its stages have run.
RunMatches(s) ==
  LET st == jobs[s].status
      k  == jobs[s].kind
  IN
  /\ st \in BEING_PROCESSED .. INTERNAL_ERROR
  /\ st = BEING_PROCESSED => ran[s] = <<>>
  /\ st = COMPLETED_AES   => /\ ran[s] = <<"AES">> /\ k.order = "CIPHER_HASH"
                             /\ k.cipher # AEAD
  /\ st = COMPLETED_HMAC  => ran[s] = <<"HMAC">> /\ k.order = "HASH_CIPHER"
  /\ st = COMPLETED       => ran[s] = FullRun(k)

StatusTellsRun == \A s \in Outstanding \cup ({ret} \ {NULL}) : RunMatches(s)

InductiveInv ==
  /\ TypeOK /\ CallShape /\ RingShape /\ StatusTellsRun
  /\ LanesHoldPending /\ OneLanePerJob /\ NoJobForgotten /\ LaneToSpare
  /\ ret # NULL => Done(ret) /\ ret \notin Window

-----------------------------------------------------------------------------
(***************************************************************************)
(* The manager implements a first-in first-out queue of jobs.              *)
(***************************************************************************)
QueueLen ==
  IF earliest_job = NULL THEN 0
  ELSE IF call.op = "submit" /\ call.pc \in {"complete", "resubmit_flushed"}
  THEN MAX_JOBS - 1
  ELSE (next_job - earliest_job) % MAX_JOBS

SubmittedSlot == IF Submitting THEN next_job ELSE (next_job - 1) % MAX_JOBS

Fifo == INSTANCE JobFifo WITH
  Jobs     <- Slots,
  Capacity <- MAX_JOBS - 1,
  queue    <- [i \in 1 .. QueueLen |-> (earliest_job + i - 1) % MAX_JOBS],
  doing    <- CASE call.op = "submit" -> SubmittedSlot
                [] call.op = "flush"  -> -2
                [] OTHER              -> -1,
  out      <- ret

\* Jobs are returned in the order of their submission, each once, flush_job
\* returns NULL only when no job is left, and no call loses a job
\* (submit_job_and_check, FLUSH_JOB, GET_COMPLETED_JOB).
ImplementsFifo == Fifo!Spec

=============================================================================
