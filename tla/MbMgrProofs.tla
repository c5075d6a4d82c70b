---------------------------- MODULE MbMgrProofs ----------------------------
(***************************************************************************)
(* Proofs about MbMgr for every ring size, every set of OOO managers and   *)
(* lanes and every set of job kinds in which no custom stage comes before  *)
(* a queued one (FLUSH_JOB_CUSTOM_CIPHER and FLUSH_JOB_CUSTOM_HASH would   *)
(* queue that one twice: run custom_first).  First the inductive invariant *)
(* and the invariants that follow from it; then that QUEUE_SIZE counts the *)
(* outstanding jobs, that a finished job is written to by nobody but the   *)
(* application that reuses its slot, and that MbMgr implements JobFifo:    *)
(* whatever order the OOO managers finish jobs in, the application gets    *)
(* them in the order of their submission, each once.                       *)
(***************************************************************************)
EXTENDS MbMgr, TLAPS, SequenceTheorems, FiniteSetTheorems

CustomNotFirst ==
  \A k \in Kinds :
    Flusher(k, FirstStage(k)) = CUSTOM => Server(k, SecondStage(k)) \notin Managers

-----------------------------------------------------------------------------
\* The completion bits of JOB_STS.
LEMMA OrFacts ==
  /\ Or(0, "AES") = 1 /\ Or(0, "HMAC") = 2
  /\ Or(1, "HMAC") = 3 /\ Or(2, "AES") = 3
BY DEF Or, HasBit, Bit, COMPLETED_AES, COMPLETED_HMAC

\* Appending to a sequence of one element.
LEMMA AppendSecond ==
  ASSUME NEW S, NEW a \in S, NEW b \in S
  PROVE  Append(<<a>>, b) = <<a, b>>
<1>a. <<a>> \in Seq(S) /\ Len(<<a>>) = 1 /\ <<a>>[1] = a
  OBVIOUS
<1>b. /\ <<a, b>> \in Seq(S) /\ Len(<<a, b>>) = 2
      /\ <<a, b>>[1] = a /\ <<a, b>>[2] = b
  OBVIOUS
<1>1. PICK s : s \in Seq(S) /\ Len(s) = 1 /\ s[1] = a /\ s = <<a>>
  BY <1>a
<1>2. PICK u : /\ u \in Seq(S) /\ Len(u) = 2 /\ u = <<a, b>>
               /\ u[1] = a /\ u[2] = b
  BY <1>b
<1>3. PICK t : t = Append(s, b)
  OBVIOUS
<1>4. t \in Seq(S) /\ Len(t) = 2 /\ t[2] = b
  BY <1>1, <1>3, AppendProperties
<1>5. t[1] = a
  <2>1. 1 \in 1 .. Len(s)
    BY <1>1
  <2> QED
    BY <2>1, <1>1, <1>3, AppendProperties
<1>6. \A i \in 1 .. Len(t) : t[i] = u[i]
  BY <1>2, <1>4, <1>5
<1>7. t = u
  BY <1>2, <1>4, <1>6, SeqEqual
<1> QED
  BY <1>1, <1>2, <1>3, <1>7

\* The histories of stages that the code can build.
LEMMA AppendFacts ==
  /\ Append(<<>>, "AES") = <<"AES">> /\ Append(<<>>, "HMAC") = <<"HMAC">>
  /\ Append(<<>>, "AEAD") = <<"AEAD">>
  /\ Append(<<"AES">>, "HMAC") = <<"AES", "HMAC">>
  /\ Append(<<"HMAC">>, "AES") = <<"HMAC", "AES">>
  /\ Append(<<"HMAC">>, "AEAD") = <<"HMAC", "AEAD">>
<1>1. PICK S : "AES" \in S /\ "HMAC" \in S /\ "AEAD" \in S
  <2> WITNESS {"AES", "HMAC", "AEAD"}
  <2> QED
    OBVIOUS
<1>2. Append(<<"AES">>, "HMAC") = <<"AES", "HMAC">>
  BY <1>1, AppendSecond, Zenon
<1>3. Append(<<"HMAC">>, "AES") = <<"HMAC", "AES">>
  BY <1>1, AppendSecond, Zenon
<1>4. Append(<<"HMAC">>, "AEAD") = <<"HMAC", "AEAD">>
  BY <1>1, AppendSecond, Zenon
<1>5. Append(<<>>, "AES") = <<"AES">>
  OBVIOUS
<1>6. Append(<<>>, "HMAC") = <<"HMAC">>
  OBVIOUS
<1>7. Append(<<>>, "AEAD") = <<"AEAD">>
  OBVIOUS
<1> QED
  BY <1>2, <1>3, <1>4, <1>5, <1>6, <1>7

LEMMA InitInductive == Init => InductiveInv
<1> SUFFICES ASSUME Init PROVE InductiveInv
  OBVIOUS
<1> USE SizeAssumption DEF Managers
<1>1. TypeOK
  <2>1. /\ earliest_job \in Slots \cup {NULL} /\ next_job \in Slots
        /\ ret \in Slots \cup {NULL} /\ ran \in [Slots -> Seq(Stages \cup {"AEAD"})]
        /\ call \in [op : {"none", "submit", "flush"}, pc : Pcs, job : Slots \cup {NULL}]
    BY DEF Init, Slots, Idle, Pcs
  <2>2. jobs \in [Slots -> [kind : Kinds, status : Statuses]]
    BY DEF Init, Statuses, BEING_PROCESSED
  <2>3. DOMAIN lanes = Managers /\ \A m \in Managers : lanes[m] \in [Lane[m] -> Slots \cup {NULL}]
    BY DEF Init, NoJobs
  <2> QED
    BY <2>1, <2>2, <2>3 DEF TypeOK
<1>2. CallShape /\ RingShape
  BY DEF Init, CallShape, RingShape, Idle, Submitting, NULL
<1>3. Window = {} /\ Outstanding = {}
  BY DEF Init, Window, Outstanding, Submitting, Idle
<1>4. StatusTellsRun /\ (ret # NULL => Done(ret) /\ ret \notin Window)
  BY <1>3 DEF Init, StatusTellsRun
<1>5. \A m \in Managers : \A l \in Lane[m] : lanes[m][l] = NULL
  BY DEF Init, NoJobs
<1>6. LanesHoldPending /\ OneLanePerJob /\ NoJobForgotten
  BY <1>3, <1>5 DEF LanesHoldPending, OneLanePerJob, NoJobForgotten
<1>7. LaneToSpare
  <2> SUFFICES ASSUME NEW m \in Managers PROVE FreeLanes(lanes[m]) # {}
    BY DEF LaneToSpare
  <2>1. PICK l \in Lane[m] : TRUE
    OBVIOUS
  <2>2. lanes[m][l] = NULL /\ l \in DOMAIN lanes[m]
    BY <1>5, <1>1 DEF TypeOK
  <2> QED
    BY <2>2 DEF FreeLanes
<1> QED
  BY <1>1, <1>2, <1>4, <1>6, <1>7 DEF InductiveInv

-----------------------------------------------------------------------------
(***************************************************************************)
(* One stage of one job.  Whatever function runs it, the step returns a    *)
(* job b (or NULL), changes no other job, and leaves in the lanes what was *)
(* there but b, with the submitted job added when it is queued.            *)
(***************************************************************************)
StagePcs == {"new", "resubmit", "complete", "resubmit_flushed"}

\* Every lane is as before, empty, or holds the job that was submitted; none
\* holds b, and only b left its lane.
LanesAfter(b) ==
  \A m \in Managers : \A l \in Lane[m] :
    /\ \/ lanes'[m][l] = NULL
       \/ lanes'[m][l] = lanes[m][l]
       \/ /\ lanes'[m][l] = call.job /\ ~Done(call.job)
          /\ Server(jobs[call.job].kind, NextStage(call.job)) = m
    /\ lanes'[m][l] = NULL \/ lanes'[m][l] # b
    /\ lanes[m][l] \notin {NULL, b} => lanes'[m][l] = lanes[m][l]

QueuedAtMostOnce ==
  call.job # NULL =>
    \A m1 \in Managers : \A l1 \in Lane[m1] :
      lanes'[m1][l1] = call.job =>
        \A m2 \in Managers : \A l2 \in Lane[m2] :
          lanes'[m2][l2] = call.job => m1 = m2 /\ l1 = l2

QueuedIfNotReturned(b) ==
  call.job \notin {NULL, b} /\ ~Done(call.job) =>
    \E m \in Managers : \E l \in Lane[m] : lanes'[m][l] = call.job

\* Only job b changes: one of its stages is over, or it failed.
OnlyStageOf(b) ==
  /\ \A s \in Slots : s # b => jobs'[s] = jobs[s] /\ ran'[s] = ran[s]
  /\ b # NULL => /\ b \in Outstanding /\ RunMatches(b)'
                 /\ jobs'[b].status # BEING_PROCESSED

LEMMA StageStep ==
  ASSUME InductiveInv, TypeOK', LaneToSpare',
         call.pc \in StagePcs,
         NEW pc \in {"resubmit", "resubmit_flushed"},
         pc = "resubmit" <=> call.pc \in {"new", "resubmit"},
         NEW b \in Slots \cup {NULL},
         Goto(pc, b), UNCHANGED <<earliest_job, next_job, ret>>,
         OnlyStageOf(b), LanesAfter(b), QueuedAtMostOnce, QueuedIfNotReturned(b)
  PROVE  InductiveInv'
<1> USE SizeAssumption DEF Goto
<1>1. TypeOK /\ CallShape /\ RingShape /\ LanesHoldPending /\ OneLanePerJob
  BY DEF InductiveInv
<1>2. call'.pc = pc /\ call'.op = call.op /\ call'.job = b
  BY <1>1 DEF TypeOK
<1>3. call.pc # "idle" /\ ret = NULL /\ ret' = NULL
  BY <1>1 DEF CallShape, StagePcs
<1>4. Submitting' <=> Submitting
  <2>1. pc = "resubmit" <=> Submitting
    BY DEF Submitting, StagePcs
  <2> QED
    BY <2>1, <1>2 DEF Submitting
<1>5. Window' = Window
  BY DEF Window
<1>6. Outstanding' = Outstanding
  BY <1>4, <1>5 DEF Outstanding
<1>7. Outstanding \subseteq Slots
  BY <1>1 DEF Outstanding, Window, TypeOK, Slots, NULL
<1>8. NULL \notin Slots
  BY DEF Slots, NULL
<1>9. \A s \in Slots : s # b => /\ jobs'[s] = jobs[s]
                               /\ (Done(s)' <=> Done(s))
                               /\ NextStage(s)' = NextStage(s)
  BY DEF Done, NextStage, OnlyStageOf
<1>10. CallShape'
  BY <1>1, <1>2, <1>3, <1>4, <1>6 DEF CallShape, StagePcs, Submitting, OnlyStageOf
<1>11. RingShape'
  BY <1>1, <1>2 DEF RingShape, StagePcs
<1>12. StatusTellsRun'
  <2>1. SUFFICES ASSUME NEW s \in Outstanding PROVE RunMatches(s)'
    BY <1>3, <1>6 DEF StatusTellsRun
  <2>2. CASE s = b
    BY <2>2, <1>7, <1>8 DEF OnlyStageOf
  <2>3. CASE s # b
    <3>1. jobs'[s] = jobs[s] /\ ran'[s] = ran[s]
      BY <2>3, <1>7 DEF OnlyStageOf
    <3>2. RunMatches(s)
      BY DEF InductiveInv, StatusTellsRun
    <3> QED
      BY <3>1, <3>2 DEF RunMatches
  <2> QED
    BY <2>2, <2>3
<1>13. LanesHoldPending'
  <2>1. ASSUME NEW m \in Managers, NEW l \in Lane[m], NEW s,
               s = lanes'[m][l], s # NULL
        PROVE  /\ s \in Outstanding /\ s # b /\ ~(Done(s)')
               /\ Server(jobs'[s].kind, NextStage(s)') = m
    <3>1. s # b
      BY <2>1 DEF LanesAfter
    <3>2. CASE s = lanes[m][l]
      <4>1. s \in Outstanding /\ ~Done(s) /\ Server(jobs[s].kind, NextStage(s)) = m
        BY <3>2, <2>1, <1>1 DEF LanesHoldPending
      <4> QED
        BY <4>1, <3>1, <1>7, <1>9
    <3>3. CASE s # lanes[m][l]
      <4>1. /\ s = call.job /\ ~Done(call.job)
            /\ Server(jobs[call.job].kind, NextStage(call.job)) = m
        BY <3>3, <2>1 DEF LanesAfter
      <4>2. s \in Outstanding
        BY <4>1, <2>1, <1>1 DEF CallShape
      <4> QED
        BY <4>1, <4>2, <3>1, <1>7, <1>9
    <3> QED
      BY <3>2, <3>3
  <2> QED
    BY <2>1, <1>2, <1>6 DEF LanesHoldPending
<1>14. OneLanePerJob'
  <2>1. SUFFICES ASSUME NEW m1 \in Managers, NEW m2 \in Managers,
                        NEW l1 \in Lane[m1], NEW l2 \in Lane[m2],
                        lanes'[m1][l1] # NULL, lanes'[m2][l2] = lanes'[m1][l1]
                 PROVE  m1 = m2 /\ l1 = l2
    BY DEF OneLanePerJob
  <2>2. CASE lanes'[m1][l1] = call.job
    <3>1. lanes'[m1][l1] = call.job /\ lanes'[m2][l2] = call.job /\ call.job # NULL
      BY <2>1, <2>2
    <3> QED
      BY <3>1 DEF QueuedAtMostOnce
  <2>3. CASE lanes'[m1][l1] # call.job
    <3>1. lanes'[m1][l1] = lanes[m1][l1] /\ lanes'[m2][l2] = lanes[m2][l2]
      BY <2>1, <2>3 DEF LanesAfter
    <3>2. lanes[m1][l1] # NULL /\ lanes[m2][l2] = lanes[m1][l1]
      BY <3>1, <2>1
    <3> QED
      BY <3>2, <1>1 DEF OneLanePerJob
  <2> QED
    BY <2>2, <2>3
<1>15. NoJobForgotten'
  <2>1. SUFFICES ASSUME NEW s \in Outstanding, ~Done(s)', s # b
                 PROVE  \E m \in Managers : \E l \in Lane[m] : lanes'[m][l] = s
    BY <1>2, <1>6 DEF NoJobForgotten
  <2>2. ~Done(s) /\ s # NULL
    BY <2>1, <1>7, <1>8, <1>9
  <2>3. CASE s = call.job
    BY <2>1, <2>2, <2>3 DEF QueuedIfNotReturned
  <2>4. CASE s # call.job
    <3>1. PICK m \in Managers : \E l \in Lane[m] : lanes[m][l] = s
      BY <2>2, <2>4 DEF InductiveInv, NoJobForgotten
    <3> QED
      BY <3>1, <2>1, <2>2 DEF LanesAfter
  <2> QED
    BY <2>3, <2>4
<1> QED
  BY <1>3, <1>10, <1>11, <1>12, <1>13, <1>14, <1>15 DEF InductiveInv

-----------------------------------------------------------------------------
\* The stage an OOO manager does.
StageOf(m) == IF m \in CipherManagers THEN "AES" ELSE "HMAC"

LEMMA ManagerStage ==
  ASSUME NEW k \in Kinds, NEW stage \in Stages, NEW m \in Managers,
         Server(k, stage) = m \/ Flusher(k, stage) = m
  PROVE  stage = StageOf(m) /\ Flusher(k, stage) = m
BY SizeAssumption, KindsAssumption
DEF Admissible, Managers, StageOf, Server, Flusher, Stages, KindType, SYNC, AEAD, CUSTOM, NONE

LEMMA NextStageFacts ==
  ASSUME InductiveInv, NEW s \in Outstanding, ~Done(s)
  PROVE  /\ s \in Slots /\ jobs[s].status \in {0, 1, 2} /\ jobs[s].kind \in Kinds
         /\ NextStage(s) \in {FirstStage(jobs[s].kind), SecondStage(jobs[s].kind)}
         /\ NextStage(s) \in Stages
         /\ ~HasBit(jobs[s].status, NextStage(s))
<1>1. s \in Slots
  BY SizeAssumption DEF InductiveInv, TypeOK, Outstanding, Window, Slots, NULL
<1>2. RunMatches(s)
  BY DEF InductiveInv, StatusTellsRun
<1>3. jobs[s].status \in {0, 1, 2}
  BY <1>2 DEF RunMatches, Done, BEING_PROCESSED, INTERNAL_ERROR, COMPLETED
<1>4. jobs[s].kind \in Kinds /\ jobs[s].kind.order \in Orders
  BY <1>1, KindsAssumption DEF Admissible, InductiveInv, TypeOK, KindType
<1> QED
  BY <1>1, <1>2, <1>3, <1>4
  DEF RunMatches, NextStage, ResubmitStage, FirstStage, SecondStage, Stages, HasBit, Orders,
      BEING_PROCESSED, COMPLETED_AES, COMPLETED_HMAC, COMPLETED

\* Setting the bit of the stage a job waits for.
LEMMA MarkStep ==
  ASSUME InductiveInv, NEW d \in Outstanding, ~Done(d),
         NextStage(d) = "AES" => jobs[d].kind.cipher # AEAD,
         Mark(d, NextStage(d))
  PROVE  /\ OnlyStageOf(d)
         /\ jobs' \in [Slots -> [kind : Kinds, status : Statuses]]
         /\ ran' \in [Slots -> Seq(Stages \cup {"AEAD"})]
<1> DEFINE st == jobs[d].status
           k  == jobs[d].kind
           stage == NextStage(d)
<1>1. /\ d \in Slots /\ st \in {0, 1, 2} /\ k \in Kinds
      /\ stage \in {FirstStage(k), SecondStage(k)} /\ stage \in Stages
  BY NextStageFacts
<1>2. TypeOK /\ RunMatches(d)
  BY DEF InductiveInv, StatusTellsRun
<1>3. /\ jobs'[d].kind = k /\ jobs'[d].status = Or(st, stage)
      /\ ran'[d] = Append(ran[d], stage)
      /\ \A s \in Slots : s # d => jobs'[s] = jobs[s] /\ ran'[s] = ran[s]
  BY <1>1, <1>2 DEF Mark, TypeOK
<1>4. k.order \in Orders
  BY <1>1, KindsAssumption DEF Admissible, KindType
<1> USE DEF BEING_PROCESSED, INTERNAL_ERROR, COMPLETED_AES, COMPLETED_HMAC, COMPLETED
<1>a. /\ st = 0 => ran[d] = <<>>
      /\ st = 1 => ran[d] = <<"AES">> /\ k.order = "CIPHER_HASH" /\ k.cipher # AEAD
      /\ st = 2 => ran[d] = <<"HMAC">> /\ k.order = "HASH_CIPHER"
  BY <1>2 DEF RunMatches
<1>b. /\ st = 0 => stage = FirstStage(k)
      /\ st = 1 => stage = "HMAC"
      /\ st = 2 => stage = "AES"
  BY DEF NextStage, ResubmitStage
<1>c. stage = "AES" => k.cipher # AEAD
  OBVIOUS
<1> HIDE DEF st, k, stage
<1>5. Or(st, stage) \in {1, 2, 3} /\ RunMatches(d)'
  <2>1. CASE st = 0 /\ k.order = "CIPHER_HASH"
    <3>1. stage = "AES" /\ jobs'[d].status = 1 /\ ran'[d] = <<"AES">>
      BY <2>1, <1>a, <1>b, <1>3, OrFacts, AppendFacts DEF FirstStage
    <3> QED
      BY <3>1, <2>1, <1>3, <1>c DEF RunMatches
  <2>2. CASE st = 0 /\ k.order = "HASH_CIPHER"
    <3>1. stage = "HMAC" /\ jobs'[d].status = 2 /\ ran'[d] = <<"HMAC">>
      BY <2>2, <1>a, <1>b, <1>3, OrFacts, AppendFacts DEF FirstStage
    <3> QED
      BY <3>1, <2>2, <1>3 DEF RunMatches
  <2>3. CASE st = 1
    <3>1. jobs'[d].status = 3 /\ ran'[d] = <<"AES", "HMAC">>
      BY <2>3, <1>a, <1>b, <1>3, OrFacts, AppendFacts
    <3>2. FullRun(k) = <<"AES", "HMAC">>
      BY <2>3, <1>a DEF FullRun, FirstStage, SecondStage
    <3> QED
      BY <3>1, <3>2, <1>3 DEF RunMatches
  <2>4. CASE st = 2
    <3>1. jobs'[d].status = 3 /\ ran'[d] = <<"HMAC", "AES">>
      BY <2>4, <1>a, <1>b, <1>3, OrFacts, AppendFacts
    <3>2. FullRun(k) = <<"HMAC", "AES">>
      BY <2>4, <1>a, <1>b, <1>c DEF FullRun, FirstStage, SecondStage
    <3> QED
      BY <3>1, <3>2, <1>3 DEF RunMatches
  <2> QED
    BY <1>1, <1>4, <2>1, <2>2, <2>3, <2>4 DEF Orders
<1>6. OnlyStageOf(d)
  BY <1>3, <1>5 DEF OnlyStageOf, BEING_PROCESSED
<1>7. jobs' \in [Slots -> [kind : Kinds, status : Statuses]]
  <2>1. jobs' = [jobs EXCEPT ![d] = [jobs[d] EXCEPT !.status = Or(st, stage)]]
    BY <1>1, <1>2 DEF Mark, TypeOK, st, stage
  <2>2. [jobs[d] EXCEPT !.status = Or(st, stage)] \in [kind : Kinds, status : Statuses]
    <3>1. jobs[d] \in [kind : Kinds, status : Statuses]
      BY <1>1, <1>2 DEF TypeOK
    <3>2. Or(st, stage) \in Statuses
      BY <1>5 DEF Statuses
    <3> HIDE DEF Statuses
    <3> QED
      BY <3>1, <3>2
  <2> QED
    BY <2>1, <2>2, <1>1, <1>2 DEF TypeOK
<1>8. ran' \in [Slots -> Seq(Stages \cup {"AEAD"})]
  <2>1. ran' = [ran EXCEPT ![d] = Append(ran[d], stage)]
    BY <1>1, <1>2 DEF Mark, TypeOK, stage
  <2>2. Append(ran[d], stage) \in Seq(Stages \cup {"AEAD"})
    BY <1>1, <1>2, AppendProperties DEF TypeOK
  <2> QED
    BY <2>1, <2>2, <1>1, <1>2 DEF TypeOK
<1> QED
  BY <1>6, <1>7, <1>8

-----------------------------------------------------------------------------
\* Replacing the lanes of one OOO manager.
LEMMA LanesOfOne ==
  ASSUME TypeOK, NEW m \in Managers, NEW L \in [Lane[m] -> Slots \cup {NULL}],
         lanes' = [lanes EXCEPT ![m] = L]
  PROVE  /\ DOMAIN lanes' = Managers
         /\ \A n \in Managers : lanes'[n] \in [Lane[n] -> Slots \cup {NULL}]
         /\ lanes'[m] = L
         /\ \A n \in Managers : n # m => lanes'[n] = lanes[n]
BY DEF TypeOK

\* What is not set by a stage keeps its type.
LEMMA StageTypes ==
  ASSUME TypeOK, NEW pc \in {"resubmit", "resubmit_flushed"},
         NEW b \in Slots \cup {NULL}, Goto(pc, b),
         UNCHANGED <<earliest_job, next_job, ret>>,
         jobs' \in [Slots -> [kind : Kinds, status : Statuses]],
         ran' \in [Slots -> Seq(Stages \cup {"AEAD"})],
         DOMAIN lanes' = Managers,
         \A m \in Managers : lanes'[m] \in [Lane[m] -> Slots \cup {NULL}]
  PROVE  TypeOK'
BY DEF TypeOK, Goto, Pcs

\* complete_job: an OOO manager flushes the job of a busy lane.
LEMMA FlushStep ==
  ASSUME InductiveInv, call.pc = "complete", NEW m \in Managers,
         NEW d \in BusyLanes(lanes[m]),
         Release(m, lanes[m], d, StageOf(m), "resubmit_flushed"),
         UNCHANGED <<earliest_job, next_job, ret>>
  PROVE  InductiveInv'
<1>b. PICK b : b = lanes[m][d]
  OBVIOUS
<1> DEFINE L == [lanes[m] EXCEPT ![d] = NULL]
<1>1. TypeOK /\ CallShape /\ LanesHoldPending /\ OneLanePerJob /\ LaneToSpare
  BY DEF InductiveInv
<1>2. d \in Lane[m] /\ b # NULL /\ b \in Slots /\ lanes[m] \in [Lane[m] -> Slots \cup {NULL}]
  BY <1>1, <1>b DEF BusyLanes, TypeOK
<1>3. /\ b \in Outstanding /\ ~Done(b) /\ b # call.job
      /\ Server(jobs[b].kind, NextStage(b)) = m
  BY <1>1, <1>2, <1>b DEF LanesHoldPending
<1>4. /\ NextStage(b) = StageOf(m)
      /\ Mark(b, NextStage(b)) /\ Goto("resubmit_flushed", b)
      /\ lanes' = [lanes EXCEPT ![m] = L]
  <2>1. NextStage(b) = StageOf(m)
    BY <1>3, NextStageFacts, ManagerStage
  <2> QED
    BY <2>1, <1>b DEF Release
<1>5. NextStage(b) = "AES" => jobs[b].kind.cipher # AEAD
  BY <1>3, SizeAssumption DEF Server, AEAD
<1>6. /\ OnlyStageOf(b)
      /\ jobs' \in [Slots -> [kind : Kinds, status : Statuses]]
      /\ ran' \in [Slots -> Seq(Stages \cup {"AEAD"})]
  BY <1>3, <1>4, <1>5, MarkStep
<1>7. L \in [Lane[m] -> Slots \cup {NULL}] /\ L[d] = NULL
      /\ \A l \in Lane[m] : l # d => L[l] = lanes[m][l]
  BY <1>2
<1>8. /\ DOMAIN lanes' = Managers /\ lanes'[m] = L
      /\ \A n \in Managers : lanes'[n] \in [Lane[n] -> Slots \cup {NULL}]
      /\ \A n \in Managers : n # m => lanes'[n] = lanes[n]
  BY <1>1, <1>4, <1>7, LanesOfOne
<1> HIDE DEF L
<1>9. TypeOK'
  BY <1>1, <1>2, <1>4, <1>6, <1>8, StageTypes
<1>10. LaneToSpare'
  <2>1. FreeLanes(lanes'[m]) # {}
    BY <1>2, <1>7, <1>8 DEF FreeLanes
  <2> QED
    BY <2>1, <1>1, <1>8 DEF LaneToSpare
<1>11. \A n \in Managers : \A l \in Lane[n] :
         /\ lanes'[n][l] = IF n = m /\ l = d THEN NULL ELSE lanes[n][l]
         /\ lanes[n][l] = b <=> n = m /\ l = d
  <2>1. \A n \in Managers : \A l \in Lane[n] :
          lanes'[n][l] = IF n = m /\ l = d THEN NULL ELSE lanes[n][l]
    BY <1>7, <1>8
  <2>2. \A n \in Managers : \A l \in Lane[n] : lanes[n][l] = b => n = m /\ l = d
    BY <1>1, <1>2, <1>b DEF OneLanePerJob
  <2> QED
    BY <2>1, <2>2, <1>b
<1>12. call.job = NULL \/ Done(call.job)
  BY <1>1 DEF CallShape
<1>13. \A n \in Managers : \A l \in Lane[n] : lanes[n][l] # NULL => lanes[n][l] # call.job
  BY <1>1 DEF LanesHoldPending
<1>14. LanesAfter(b)
  <2>1. ASSUME NEW n \in Managers, NEW l \in Lane[n]
        PROVE  /\ lanes'[n][l] = NULL \/ lanes'[n][l] = lanes[n][l]
               /\ lanes'[n][l] = NULL \/ lanes'[n][l] # b
               /\ lanes[n][l] \notin {NULL, b} => lanes'[n][l] = lanes[n][l]
    BY <1>11
  <2> QED
    BY <2>1 DEF LanesAfter
<1>15. QueuedAtMostOnce
  <2>1. \A n \in Managers : \A l \in Lane[n] : call.job # NULL => lanes'[n][l] # call.job
    BY <1>11, <1>13
  <2> QED
    BY <2>1 DEF QueuedAtMostOnce
<1>16. QueuedIfNotReturned(b)
  BY <1>12 DEF QueuedIfNotReturned
<1> QED
  BY <1>2, <1>4, <1>6, <1>9, <1>10, <1>14, <1>15, <1>16, StageStep DEF StagePcs

-----------------------------------------------------------------------------
(***************************************************************************)
(* SUBMIT_JOB_AES and SUBMIT_JOB_HASH of the job the call has in hand.     *)
(***************************************************************************)
SubmitPcs == {"new", "resubmit", "resubmit_flushed"}

\* The job in hand is outstanding and in no lane.
LEMMA InHand ==
  ASSUME InductiveInv, call.job # NULL
  PROVE  /\ call.job \in Outstanding /\ call.job \in Slots
         /\ \A n \in Managers : \A l \in Lane[n] : lanes[n][l] # call.job
<1>1. TypeOK /\ CallShape /\ LanesHoldPending
  BY DEF InductiveInv
<1> QED
  BY <1>1 DEF TypeOK, CallShape, LanesHoldPending

\* The stage is done before the function returns, or fails.
LEMMA InPlaceStep ==
  ASSUME InductiveInv, call.pc \in SubmitPcs,
         NEW j \in Slots, j = call.job,
         NEW pc \in {"resubmit", "resubmit_flushed"},
         pc = "resubmit" <=> call.pc \in {"new", "resubmit"},
         Goto(pc, j), UNCHANGED <<earliest_job, next_job, ret>>,
         DOMAIN lanes' = Managers, \A m \in Managers : lanes'[m] = lanes[m],
         jobs' \in [Slots -> [kind : Kinds, status : Statuses]],
         ran' \in [Slots -> Seq(Stages \cup {"AEAD"})],
         OnlyStageOf(j)
  PROVE  InductiveInv'
<1>1. \A n \in Managers : \A l \in Lane[n] : lanes[n][l] # j
  <2>1. call.job # NULL
    BY DEF Slots, NULL
  <2> QED
    BY <2>1, InHand
<1>2. TypeOK /\ LaneToSpare
  BY DEF InductiveInv
<1>3. TypeOK'
  <2>1. /\ DOMAIN lanes' = Managers
        /\ \A m \in Managers : lanes'[m] \in [Lane[m] -> Slots \cup {NULL}]
    BY <1>2 DEF TypeOK
  <2> QED
    BY <2>1, <1>2, StageTypes
<1>4. LaneToSpare'
  BY <1>2 DEF LaneToSpare
<1>5. LanesAfter(j) /\ QueuedAtMostOnce /\ QueuedIfNotReturned(j)
  BY <1>1 DEF LanesAfter, QueuedAtMostOnce, QueuedIfNotReturned
<1>6. call.pc \in StagePcs
  BY DEF StagePcs, SubmitPcs
<1> QED
  BY <1>3, <1>4, <1>5, <1>6, StageStep

\* An OOO manager takes the job and keeps it.
LEMMA KeepStep ==
  ASSUME InductiveInv, call.pc \in SubmitPcs, call.job # NULL, ~Done(call.job),
         NEW pc \in {"resubmit", "resubmit_flushed"},
         pc = "resubmit" <=> call.pc \in {"new", "resubmit"},
         NEW m \in Managers, Server(jobs[call.job].kind, NextStage(call.job)) = m,
         NEW d \in FreeLanes(lanes[m]),
         NEW L, L = [lanes[m] EXCEPT ![d] = call.job], FreeLanes(L) # {},
         lanes' = [lanes EXCEPT ![m] = L],
         UNCHANGED <<jobs, ran, earliest_job, next_job, ret>>,
         Goto(pc, NULL)
  PROVE  InductiveInv'
<1> DEFINE j == call.job
<1>1. /\ j \in Outstanding /\ j \in Slots
      /\ \A n \in Managers : \A l \in Lane[n] : lanes[n][l] # j
  BY InHand
<1>2. TypeOK /\ LaneToSpare
  BY DEF InductiveInv
<1>3. /\ d \in Lane[m] /\ lanes[m][d] = NULL
      /\ L \in [Lane[m] -> Slots \cup {NULL}] /\ L[d] = j
      /\ \A l \in Lane[m] : l # d => L[l] = lanes[m][l]
  BY <1>1, <1>2 DEF TypeOK, FreeLanes
<1>4. /\ DOMAIN lanes' = Managers /\ lanes'[m] = L
      /\ \A n \in Managers : lanes'[n] \in [Lane[n] -> Slots \cup {NULL}]
      /\ \A n \in Managers : n # m => lanes'[n] = lanes[n]
  BY <1>2, <1>3, LanesOfOne
<1>5. TypeOK'
  <2>1. /\ jobs' \in [Slots -> [kind : Kinds, status : Statuses]]
        /\ ran' \in [Slots -> Seq(Stages \cup {"AEAD"})]
    BY <1>2 DEF TypeOK
  <2> QED
    BY <2>1, <1>2, <1>4, StageTypes
<1>6. LaneToSpare'
  BY <1>2, <1>4 DEF LaneToSpare
<1>7. OnlyStageOf(NULL)
  BY DEF OnlyStageOf
<1>8. \A n \in Managers : \A l \in Lane[n] :
        lanes'[n][l] = IF n = m /\ l = d THEN j ELSE lanes[n][l]
  BY <1>3, <1>4
<1>9. j # NULL /\ ~Done(j) /\ Server(jobs[j].kind, NextStage(j)) = m
  OBVIOUS
<1>10. LanesAfter(NULL)
  <2>1. ASSUME NEW n \in Managers, NEW l \in Lane[n]
        PROVE  /\ \/ lanes'[n][l] = lanes[n][l]
                  \/ lanes'[n][l] = j /\ n = m
               /\ lanes[n][l] # NULL => lanes'[n][l] = lanes[n][l]
    BY <1>3, <1>8
  <2> QED
    BY <2>1, <1>9 DEF LanesAfter
<1>11. QueuedAtMostOnce
  <2>1. \A n \in Managers : \A l \in Lane[n] : lanes'[n][l] = j => n = m /\ l = d
    BY <1>1, <1>8
  <2> QED
    BY <2>1 DEF QueuedAtMostOnce
<1>12. QueuedIfNotReturned(NULL)
  BY <1>3, <1>8 DEF QueuedIfNotReturned
<1>13. call.pc \in StagePcs
  BY DEF StagePcs, SubmitPcs
<1> QED
  BY <1>5, <1>6, <1>7, <1>10, <1>11, <1>12, <1>13, StageStep

\* The last free lane of an OOO manager takes the job, and the job of another
\* lane is finished.
LEMMA SwapStep ==
  ASSUME InductiveInv, call.pc \in SubmitPcs, call.job # NULL, ~Done(call.job),
         NEW pc \in {"resubmit", "resubmit_flushed"},
         pc = "resubmit" <=> call.pc \in {"new", "resubmit"},
         NEW m \in Managers, Server(jobs[call.job].kind, NextStage(call.job)) = m,
         NEW i \in FreeLanes(lanes[m]),
         NEW d \in BusyLanes(lanes[m]),
         Release(m, [lanes[m] EXCEPT ![i] = call.job], d, StageOf(m), pc),
         UNCHANGED <<earliest_job, next_job, ret>>
  PROVE  InductiveInv'
<1>b. PICK b : b = lanes[m][d]
  OBVIOUS
<1> DEFINE j == call.job
           L == [[lanes[m] EXCEPT ![i] = j] EXCEPT ![d] = NULL]
<1>1. /\ j \in Outstanding /\ j \in Slots
      /\ \A n \in Managers : \A l \in Lane[n] : lanes[n][l] # j
  BY InHand
<1>2. TypeOK /\ LaneToSpare /\ LanesHoldPending /\ OneLanePerJob
  BY DEF InductiveInv
<1>3. /\ d \in Lane[m] /\ i \in Lane[m] /\ i # d /\ lanes[m][i] = NULL
      /\ b \in Slots /\ b # NULL /\ b # j
      /\ [lanes[m] EXCEPT ![i] = j][d] = b
      /\ L \in [Lane[m] -> Slots \cup {NULL}] /\ L[i] = j /\ L[d] = NULL
      /\ \A l \in Lane[m] : l \notin {i, d} => L[l] = lanes[m][l]
  <2>1. lanes[m] \in [Lane[m] -> Slots \cup {NULL}]
    BY <1>2 DEF TypeOK
  <2>2. d \in Lane[m] /\ i \in Lane[m] /\ lanes[m][i] = NULL /\ lanes[m][d] # NULL
    BY <2>1 DEF FreeLanes, BusyLanes
  <2> QED
    BY <2>1, <2>2, <1>1, <1>b
<1>4. /\ b \in Outstanding /\ ~Done(b)
      /\ Server(jobs[b].kind, NextStage(b)) = m
  BY <1>2, <1>3, <1>b DEF LanesHoldPending
<1>5. /\ Mark(b, NextStage(b)) /\ Goto(pc, b)
      /\ lanes' = [lanes EXCEPT ![m] = L]
  <2>1. NextStage(b) = StageOf(m)
    BY <1>4, NextStageFacts, ManagerStage
  <2> QED
    BY <2>1, <1>3 DEF Release
<1>6. NextStage(b) = "AES" => jobs[b].kind.cipher # AEAD
  BY <1>4, SizeAssumption DEF Server, AEAD
<1>7. /\ OnlyStageOf(b)
      /\ jobs' \in [Slots -> [kind : Kinds, status : Statuses]]
      /\ ran' \in [Slots -> Seq(Stages \cup {"AEAD"})]
  BY <1>4, <1>5, <1>6, MarkStep
<1> HIDE DEF L
<1>8. /\ DOMAIN lanes' = Managers /\ lanes'[m] = L
      /\ \A n \in Managers : lanes'[n] \in [Lane[n] -> Slots \cup {NULL}]
      /\ \A n \in Managers : n # m => lanes'[n] = lanes[n]
  BY <1>2, <1>3, <1>5, LanesOfOne
<1>9. TypeOK'
  BY <1>2, <1>3, <1>5, <1>7, <1>8, StageTypes
<1>10. LaneToSpare'
  <2>1. FreeLanes(lanes'[m]) # {}
    BY <1>3, <1>8 DEF FreeLanes
  <2> QED
    BY <2>1, <1>2, <1>8 DEF LaneToSpare
<1>11. \A n \in Managers : \A l \in Lane[n] :
         /\ n = m /\ l = d => lanes'[n][l] = NULL
         /\ n = m /\ l = i => lanes'[n][l] = j /\ lanes[n][l] = NULL
         /\ ~(n = m /\ l \in {i, d}) => lanes'[n][l] = lanes[n][l]
         /\ lanes[n][l] = b <=> n = m /\ l = d
  <2>1. \A n \in Managers : \A l \in Lane[n] : lanes[n][l] = b => n = m /\ l = d
    BY <1>2, <1>3, <1>b DEF OneLanePerJob
  <2> QED
    BY <2>1, <1>3, <1>8, <1>b
<1>12. j # NULL /\ ~Done(j) /\ Server(jobs[j].kind, NextStage(j)) = m
  OBVIOUS
<1>13. LanesAfter(b)
  <2>1. ASSUME NEW n \in Managers, NEW l \in Lane[n]
        PROVE  /\ \/ lanes'[n][l] = NULL
                  \/ lanes'[n][l] = lanes[n][l]
                  \/ lanes'[n][l] = j /\ n = m
               /\ lanes'[n][l] = NULL \/ lanes'[n][l] # b
               /\ lanes[n][l] \notin {NULL, b} => lanes'[n][l] = lanes[n][l]
    BY <1>3, <1>11
  <2> QED
    BY <2>1, <1>12 DEF LanesAfter
<1>14. QueuedAtMostOnce
  <2>1. \A n \in Managers : \A l \in Lane[n] : lanes'[n][l] = j => n = m /\ l = i
    BY <1>1, <1>3, <1>11, <1>12
  <2> QED
    BY <2>1 DEF QueuedAtMostOnce
<1>15. QueuedIfNotReturned(b)
  <2>1. lanes'[m][i] = j
    BY <1>3, <1>8
  <2> QED
    BY <2>1, <1>3 DEF QueuedIfNotReturned
<1>16. call.pc \in StagePcs
  BY DEF StagePcs, SubmitPcs
<1> QED
  BY <1>3, <1>5, <1>7, <1>9, <1>10, <1>13, <1>14, <1>15, <1>16, StageStep

\* The stage that the job in hand waits for is submitted.
LEMMA SubmitStep ==
  ASSUME InductiveInv, call.pc \in SubmitPcs,
         NEW j \in Slots, j = call.job, ~Done(j),
         NEW pc \in {"resubmit", "resubmit_flushed"},
         pc = "resubmit" <=> call.pc \in {"new", "resubmit"},
         SubmitStage(j, NextStage(j), pc),
         UNCHANGED <<earliest_job, next_job, ret>>
  PROVE  InductiveInv'
<1> DEFINE stage == NextStage(j)
           who   == Server(jobs[j].kind, stage)
<1>1. j \in Outstanding /\ j # NULL
  <2>1. j # NULL
    BY DEF Slots, NULL
  <2> QED
    BY <2>1, InHand
<1>2. TypeOK /\ RunMatches(j)
  BY <1>1 DEF InductiveInv, StatusTellsRun
<1>3. /\ jobs[j].status \in {0, 1, 2} /\ jobs[j].kind \in Kinds
      /\ stage \in {FirstStage(jobs[j].kind), SecondStage(jobs[j].kind)}
      /\ stage \in Stages /\ ~HasBit(jobs[j].status, stage)
  BY <1>1, NextStageFacts
<1>4. ASSUME Mark(j, stage), Goto(pc, j), who # AEAD,
             DOMAIN lanes' = Managers, \A n \in Managers : lanes'[n] = lanes[n]
      PROVE  InductiveInv'
  <2>1. stage = "AES" => jobs[j].kind.cipher # AEAD
    BY <1>4 DEF Server
  <2>2. /\ OnlyStageOf(j)
        /\ jobs' \in [Slots -> [kind : Kinds, status : Statuses]]
        /\ ran' \in [Slots -> Seq(Stages \cup {"AEAD"})]
    BY <2>1, <1>1, <1>4, MarkStep
  <2> QED
    BY <2>2, <1>4, InPlaceStep
<1>5. CASE who = SYNC /\ RunNow(j, stage, pc)
  BY <1>2, <1>4, <1>5 DEF RunNow, SYNC, AEAD, TypeOK
<1>6. CASE who = AEAD /\ RunAead(j, pc)
  <2>1. stage = "AES" /\ jobs[j].kind.cipher = AEAD /\ jobs[j].kind.order \in Orders
    BY <1>3, <1>6, KindsAssumption, SizeAssumption
    DEF Admissible, KindType, Server, Stages, Managers, SYNC, AEAD, CUSTOM
  <2>2. /\ jobs'[j].status = COMPLETED /\ jobs'[j].kind = jobs[j].kind
        /\ ran'[j] = Append(ran[j], "AEAD")
        /\ \A s \in Slots : s # j => jobs'[s] = jobs[s] /\ ran'[s] = ran[s]
    BY <1>1, <1>2, <1>6 DEF RunAead, TypeOK
  <2>3. ran'[j] = FullRun(jobs[j].kind)
    <3>1. CASE jobs[j].status = 0
      BY <3>1, <2>1, <2>2, <1>2, AppendFacts
      DEF RunMatches, NextStage, FirstStage, FullRun, Orders, AEAD,
          BEING_PROCESSED, COMPLETED_AES, COMPLETED_HMAC, COMPLETED
    <3>2. CASE jobs[j].status = 1
      BY <3>2, <2>1 DEF NextStage, ResubmitStage, BEING_PROCESSED, COMPLETED_HMAC
    <3>3. CASE jobs[j].status = 2
      BY <3>3, <2>1, <2>2, <1>2, AppendFacts
      DEF RunMatches, FullRun, AEAD,
          BEING_PROCESSED, COMPLETED_AES, COMPLETED_HMAC, COMPLETED
    <3> QED
      BY <3>1, <3>2, <3>3, <1>3
  <2>4. OnlyStageOf(j)
    BY <2>2, <2>3, <1>1
    DEF OnlyStageOf, RunMatches, BEING_PROCESSED, COMPLETED_AES, COMPLETED_HMAC,
        COMPLETED, INTERNAL_ERROR
  <2>5. jobs' \in [Slots -> [kind : Kinds, status : Statuses]]
    <3>1. jobs' = [jobs EXCEPT ![j] = [jobs[j] EXCEPT !.status = COMPLETED]]
      BY <1>1, <1>2, <1>6 DEF RunAead, TypeOK
    <3>2. [jobs[j] EXCEPT !.status = COMPLETED] \in [kind : Kinds, status : Statuses]
      <4>1. jobs[j] \in [kind : Kinds, status : Statuses]
        BY <1>1, <1>2 DEF TypeOK
      <4>2. COMPLETED \in Statuses
        BY DEF COMPLETED, Statuses
      <4> HIDE DEF Statuses, COMPLETED
      <4> QED
        BY <4>1, <4>2
    <3> QED
      BY <3>1, <3>2, <1>1, <1>2 DEF TypeOK
  <2>6. ran' \in [Slots -> Seq(Stages \cup {"AEAD"})]
    <3>1. ran' = [ran EXCEPT ![j] = Append(ran[j], "AEAD")]
      BY <1>1, <1>2, <1>6 DEF RunAead, TypeOK
    <3>2. Append(ran[j], "AEAD") \in Seq(Stages \cup {"AEAD"})
      BY <1>1, <1>2, AppendProperties DEF TypeOK
    <3> QED
      BY <3>1, <3>2, <1>1, <1>2 DEF TypeOK
  <2> QED
    BY <2>4, <2>5, <2>6, <1>2, <1>6, InPlaceStep DEF RunAead, TypeOK
<1>7. CASE who = CUSTOM /\ RunCustom(j, stage, pc)
  <2>1. CASE Mark(j, stage)
    BY <2>1, <1>2, <1>4, <1>7 DEF RunCustom, CUSTOM, AEAD, TypeOK
  <2>2. CASE jobs' = [jobs EXCEPT ![j].status = INTERNAL_ERROR] /\ UNCHANGED ran
    <3>1. /\ jobs'[j].status = INTERNAL_ERROR
          /\ \A s \in Slots : s # j => jobs'[s] = jobs[s] /\ ran'[s] = ran[s]
      BY <1>1, <1>2, <2>2 DEF TypeOK
    <3>2. OnlyStageOf(j)
      BY <3>1, <1>1
      DEF OnlyStageOf, RunMatches, BEING_PROCESSED, COMPLETED_AES, COMPLETED_HMAC,
          COMPLETED, INTERNAL_ERROR
    <3>3. jobs' \in [Slots -> [kind : Kinds, status : Statuses]]
      <4>1. jobs' = [jobs EXCEPT ![j] = [jobs[j] EXCEPT !.status = INTERNAL_ERROR]]
        BY <1>1, <1>2, <2>2 DEF TypeOK
      <4>2. [jobs[j] EXCEPT !.status = INTERNAL_ERROR] \in [kind : Kinds, status : Statuses]
        <5>1. jobs[j] \in [kind : Kinds, status : Statuses]
          BY <1>1, <1>2 DEF TypeOK
        <5>2. INTERNAL_ERROR \in Statuses
          BY DEF INTERNAL_ERROR, Statuses
        <5> HIDE DEF Statuses, INTERNAL_ERROR
        <5> QED
          BY <5>1, <5>2
      <4> QED
        BY <4>1, <4>2, <1>1, <1>2 DEF TypeOK
    <3>4. ran' \in [Slots -> Seq(Stages \cup {"AEAD"})]
      BY <2>2, <1>2 DEF TypeOK
    <3> QED
      BY <3>2, <3>3, <3>4, <1>2, <1>7, InPlaceStep DEF RunCustom, TypeOK
  <2> QED
    BY <2>1, <2>2, <1>3, <1>7 DEF RunCustom
<1>8. CASE who \in Managers /\ LaneSubmit(who, j, stage, pc)
  <2>m. PICK m \in Managers : m = who
    BY <1>8
  <2>1. PICK i \in FreeLanes(lanes[m]) :
          LET L == [lanes[m] EXCEPT ![i] = j] IN
          \/ /\ FreeLanes(L) # {}
             /\ lanes' = [lanes EXCEPT ![m] = L]
             /\ UNCHANGED <<jobs, ran>>
             /\ Goto(pc, NULL)
          \/ /\ FreeLanes(L) = {}
             /\ \E d \in DOMAIN L : Release(m, L, d, stage, pc)
    BY <1>8, <2>m DEF LaneSubmit
  <2> DEFINE L == [lanes[m] EXCEPT ![i] = j]
  <2>2. stage = StageOf(m)
    BY <1>3, <2>m, ManagerStage
  <2>3. CASE /\ FreeLanes(L) # {} /\ lanes' = [lanes EXCEPT ![m] = L]
             /\ UNCHANGED <<jobs, ran>> /\ Goto(pc, NULL)
    <3>1. PICK K : K = L
      OBVIOUS
    <3>2. /\ K = [lanes[m] EXCEPT ![i] = call.job]
          /\ FreeLanes(K) # {} /\ lanes' = [lanes EXCEPT ![m] = K]
      BY <3>1, <2>3
    <3>3. /\ call.job # NULL /\ ~Done(call.job)
          /\ Server(jobs[call.job].kind, NextStage(call.job)) = m
      BY <2>m, <1>1
    <3> HIDE DEF L, stage, who
    <3>4. UNCHANGED <<jobs, ran, earliest_job, next_job, ret>> /\ Goto(pc, NULL)
      BY <2>3
    <3> QED
      BY <3>2, <3>3, <3>4, KeepStep
  <2>4. CASE FreeLanes(L) = {} /\ \E d \in DOMAIN L : Release(m, L, d, stage, pc)
    <3>1. PICK d \in DOMAIN L : Release(m, L, d, stage, pc)
      BY <2>4
    <3>2. /\ lanes[m] \in [Lane[m] -> Slots \cup {NULL}]
          /\ i \in Lane[m] /\ lanes[m][i] = NULL /\ d \in Lane[m] /\ L[d] # NULL
      <4>1. lanes[m] \in [Lane[m] -> Slots \cup {NULL}]
        BY <1>2 DEF TypeOK
      <4>2. L[d] # NULL
        BY <2>4 DEF FreeLanes
      <4> QED
        BY <4>1, <4>2 DEF FreeLanes
    <3>3. CASE d = i
      <4>1. L[d] = j /\ [L EXCEPT ![d] = NULL] = lanes[m]
        BY <3>2, <3>3
      <4>2. lanes' = [lanes EXCEPT ![m] = lanes[m]]
        BY <4>1, <3>1 DEF Release
      <4>3. DOMAIN lanes' = Managers /\ \A n \in Managers : lanes'[n] = lanes[n]
        BY <4>2, <1>2 DEF TypeOK
      <4>4. who # AEAD
        BY <1>8, SizeAssumption DEF AEAD
      <4> QED
        BY <4>1, <4>3, <4>4, <3>1, <1>4 DEF Release
    <3>4. CASE d # i
      <4>1. d \in BusyLanes(lanes[m])
        BY <3>2, <3>4 DEF BusyLanes
      <4>2. Release(m, [lanes[m] EXCEPT ![i] = call.job], d, StageOf(m), pc)
        BY <3>1, <2>2
      <4> QED
        BY <4>1, <4>2, <1>1, <2>m, SwapStep
    <3> QED
      BY <3>3, <3>4
  <2> QED
    BY <2>1, <2>3, <2>4
<1> QED
  BY <1>5, <1>6, <1>7, <1>8 DEF SubmitStage

-----------------------------------------------------------------------------
(***************************************************************************)
(* complete_job.                                                           *)
(***************************************************************************)

\* The unfinished earliest job sits in a lane of an OOO manager, and a flush of
\* the stage it waits for returns a job.
LEMMA EarliestIsFlushable ==
  ASSUME InductiveInv, call.pc = "complete", NEW e, e = earliest_job, ~Done(e)
  PROVE  /\ e \in Outstanding
         /\ NextStage(e) \in {FirstStage(jobs[e].kind), SecondStage(jobs[e].kind)}
         /\ Server(jobs[e].kind, NextStage(e)) \in Managers
         /\ ~FlushIsNull(e, NextStage(e))
<1>1. TypeOK /\ CallShape /\ RingShape /\ LanesHoldPending /\ NoJobForgotten
  BY DEF InductiveInv
<1>2. e \in Slots /\ next_job \in Slots
  BY <1>1 DEF RingShape, TypeOK
<1>3. e \in Outstanding
  <2>1. e \in Window
    BY <1>2 DEF Window, Slots, NULL
  <2> QED
    BY <2>1 DEF Outstanding
<1>4. e # NULL /\ e # call.job
  BY <1>1, <1>2 DEF CallShape, Slots, NULL
<1>5. PICK m \in Managers : \E l \in Lane[m] : lanes[m][l] = e
  BY <1>1, <1>3, <1>4 DEF NoJobForgotten
<1>6. Server(jobs[e].kind, NextStage(e)) = m
  BY <1>1, <1>4, <1>5 DEF LanesHoldPending
<1>7. /\ jobs[e].kind \in Kinds /\ NextStage(e) \in Stages
      /\ NextStage(e) \in {FirstStage(jobs[e].kind), SecondStage(jobs[e].kind)}
  BY <1>3, NextStageFacts
<1>8. Flusher(jobs[e].kind, NextStage(e)) = m
  BY <1>6, <1>7, ManagerStage
<1>9. BusyLanes(lanes[m]) # {}
  BY <1>1, <1>4, <1>5 DEF BusyLanes, TypeOK
<1>10. m \notin {NONE, SYNC}
  BY SizeAssumption
<1> QED
  BY <1>3, <1>6, <1>7, <1>8, <1>9, <1>10 DEF FlushIsNull

LEMMA CompleteJobStep ==
  ASSUME CustomNotFirst, InductiveInv, CompleteJob
  PROVE  InductiveInv'
<1>e. PICK e : e = earliest_job
  OBVIOUS
<1> DEFINE k      == jobs[e].kind
           first  == FirstStage(k)
           second == SecondStage(k)
           next   == NextStage(e)
<1>1. call.pc = "complete" /\ ~Done(e) /\ UNCHANGED <<earliest_job, next_job, ret>>
  BY <1>e DEF CompleteJob
<1>2. /\ e \in Outstanding /\ next \in {first, second}
      /\ Server(k, next) \in Managers /\ ~FlushIsNull(e, next)
  BY <1>1, <1>e, EarliestIsFlushable
<1>3. k \in Kinds /\ next \in Stages /\ jobs[e].status \in {0, 1, 2} /\ RunMatches(e)
  BY <1>1, <1>2, NextStageFacts DEF InductiveInv, StatusTellsRun
<1>4. first \in Stages /\ second \in Stages
  BY DEF FirstStage, SecondStage, Stages
<1>5. ASSUME NEW stage \in Stages, FlushStage(e, stage, "resubmit_flushed"),
             Flusher(k, stage) \in Managers
      PROVE  InductiveInv'
  <2>1. PICK m \in Managers : m = Flusher(k, stage)
    BY <1>5
  <2>2. stage = StageOf(m)
    BY <2>1, <1>3, ManagerStage
  <2>3. PICK d \in BusyLanes(lanes[m]) :
          Release(m, lanes[m], d, stage, "resubmit_flushed")
    BY <2>1, <1>5, SizeAssumption DEF FlushStage, LaneFlush
  <2> QED
    BY <2>2, <2>3, <1>1, FlushStep
<1>6. Flusher(k, next) \in Managers
  BY <1>2, <1>3, ManagerStage
<1>7. CASE FlushStage(e, first, "resubmit_flushed")
  <2>1. CASE next = first
    BY <2>1, <1>4, <1>5, <1>6, <1>7
  <2>2. CASE next # first
    <3>1. HasBit(jobs[e].status, first)
      BY <2>2, <1>3
      DEF RunMatches, NextStage, FirstStage, HasBit,
          BEING_PROCESSED, COMPLETED_AES, COMPLETED_HMAC
    <3>2. Flusher(k, first) # CUSTOM
      BY <2>2, <1>2, <1>3 DEF CustomNotFirst
    <3>3. Flusher(k, first) \in Managers
      BY <3>1, <3>2, <1>7 DEF FlushStage
    <3> QED
      BY <3>3, <1>4, <1>5, <1>7
  <2> QED
    BY <2>1, <2>2
<1>8. CASE FlushIsNull(e, first) /\ FlushStage(e, second, "resubmit_flushed")
  BY <1>2, <1>4, <1>5, <1>6, <1>8
<1> QED
  BY <1>2, <1>7, <1>8, <1>e DEF CompleteJob

-----------------------------------------------------------------------------
(***************************************************************************)
(* The slots from e to n around the ring.                                  *)
(***************************************************************************)
WindowOf(e, n) ==
  IF e = NULL THEN {}
  ELSE IF e < n THEN e .. n - 1
  ELSE (e .. MAX_JOBS - 1) \cup (0 .. n - 1)

LEMMA AdvFacts ==
  /\ \A n \in Slots : Adv(n) \in Slots /\ Adv(n) # n
  /\ \A e \in Slots, n \in Slots : Adv(e) = Adv(n) => e = n
BY SizeAssumption DEF Adv, Slots

LEMMA WindowBasics ==
  ASSUME NEW e \in Slots, NEW n \in Slots
  PROVE  /\ WindowOf(e, n) \subseteq Slots /\ e \in WindowOf(e, n)
         /\ e # n => n \notin WindowOf(e, n)
BY SizeAssumption DEF WindowOf, Slots, NULL

\* A job goes in at n.
LEMMA WindowGrows ==
  ASSUME NEW e \in Slots, NEW n \in Slots, e # n
  PROVE  WindowOf(e, Adv(n)) = WindowOf(e, n) \cup {n}
BY SizeAssumption DEF WindowOf, Adv, Slots, NULL

LEMMA WindowStarts ==
  ASSUME NEW n \in Slots
  PROVE  WindowOf(n, Adv(n)) = {n}
BY SizeAssumption DEF WindowOf, Adv, Slots, NULL

\* The job at e comes out.
LEMMA WindowShrinks ==
  ASSUME NEW e \in Slots, NEW n \in Slots, Adv(e) # n
  PROVE  WindowOf(Adv(e), n) = WindowOf(e, n) \ {e}
BY SizeAssumption DEF WindowOf, Adv, Slots, NULL

LEMMA WindowEnds ==
  ASSUME NEW e \in Slots
  PROVE  WindowOf(e, Adv(e)) \ {e} = {}
BY WindowStarts

-----------------------------------------------------------------------------
(***************************************************************************)
(* The steps that touch no job and no lane.                                *)
(***************************************************************************)
LEMMA ControlStep ==
  ASSUME InductiveInv, UNCHANGED <<jobs, lanes, ran>>,
         TypeOK', CallShape', RingShape',
         Outstanding' \subseteq Outstanding,
         \A s \in Outstanding : ~Done(s) => s \in Outstanding',
         call'.job \in {NULL, call.job},
         call'.job # call.job => call.job = NULL \/ Done(call.job),
         NEW r, r = ret',
         r # NULL => /\ Done(r) /\ r \notin Window'
                     /\ r \in Outstanding \cup {ret}
  PROVE  InductiveInv'
<1>1. /\ StatusTellsRun /\ LanesHoldPending /\ OneLanePerJob
      /\ NoJobForgotten /\ LaneToSpare
  BY DEF InductiveInv
<1>2. StatusTellsRun'
  <2>1. SUFFICES ASSUME NEW s, s \in Outstanding' \cup ({r} \ {NULL})
                 PROVE  RunMatches(s)'
    BY DEF StatusTellsRun
  <2>2. s \in Outstanding \cup ({ret} \ {NULL})
    BY <2>1
  <2> QED
    BY <2>2, <1>1 DEF StatusTellsRun, RunMatches
<1>3. LanesHoldPending'
  <2>1. ASSUME NEW m \in Managers, NEW l \in Lane[m], NEW s,
               s = lanes[m][l], s # NULL
        PROVE  /\ s \in Outstanding' /\ s # call'.job /\ ~Done(s)
               /\ Server(jobs[s].kind, NextStage(s)) = m
    BY <2>1, <1>1 DEF LanesHoldPending
  <2> QED
    BY <2>1 DEF LanesHoldPending, Done, NextStage
<1>4. OneLanePerJob' /\ LaneToSpare'
  BY <1>1 DEF OneLanePerJob, LaneToSpare
<1>5. NoJobForgotten'
  <2>1. SUFFICES ASSUME NEW s \in Outstanding', ~Done(s), s # call'.job
                 PROVE  \E m \in Managers : \E l \in Lane[m] : lanes[m][l] = s
    BY DEF NoJobForgotten, Done
  <2>2. s \in Outstanding
    BY <2>1
  <2>3. s # call.job
    <3>1. ASSUME s = call.job PROVE FALSE
      <4>1. call'.job # call.job /\ ~Done(call.job)
        BY <2>1, <3>1
      <4>2. s # NULL
        BY <2>2 DEF InductiveInv, TypeOK, Outstanding, Window, Slots, NULL
      <4> QED
        BY <4>1, <4>2, <3>1
    <3> QED
      BY <3>1
  <2> QED
    BY <2>1, <2>2, <2>3, <1>1 DEF NoJobForgotten
<1>6. ret' # NULL => Done(ret)' /\ ret' \notin Window'
  BY DEF Done
<1> QED
  BY <1>2, <1>3, <1>4, <1>5, <1>6 DEF InductiveInv

LEMMA WindowFacts ==
  ASSUME TypeOK, RingShape
  PROVE  /\ Window = WindowOf(earliest_job, next_job) /\ Window \subseteq Slots
         /\ Outstanding \subseteq Slots
         /\ earliest_job # NULL => earliest_job \in Slots /\ earliest_job \in Window
         /\ Submitting \/ call.pc = "idle" =>
              earliest_job # next_job /\ next_job \notin Window
<1>1. Window = WindowOf(earliest_job, next_job)
  BY DEF Window, WindowOf
<1>2. next_job \in Slots /\ earliest_job \in Slots \cup {NULL}
  BY DEF TypeOK
<1>3. CASE earliest_job = NULL
  <2>1. NULL \notin Slots
    BY DEF Slots, NULL
  <2> QED
    BY <2>1, <1>1, <1>2, <1>3 DEF WindowOf, Outstanding
<1>4. CASE earliest_job # NULL
  <2>1. Submitting \/ call.pc = "idle" => earliest_job # next_job
    BY DEF RingShape, Submitting
  <2> QED
    BY <2>1, <1>1, <1>2, <1>4, WindowBasics DEF Outstanding
<1> QED
  BY <1>3, <1>4

\* The application's slot becomes the job in hand.
LEMMA BeginStep ==
  ASSUME InductiveInv, NEW k \in Kinds,
         NEW st, NEW pc,
         \/ st = BEING_PROCESSED /\ pc = "new"
         \/ st = INVALID_ARGS /\ pc = "ring",
         Begin(k, st, pc)
  PROVE  InductiveInv'
<1> USE DEF BEING_PROCESSED, INVALID_ARGS, COMPLETED, INTERNAL_ERROR,
        COMPLETED_AES, COMPLETED_HMAC
<1>1. /\ TypeOK /\ CallShape /\ RingShape /\ StatusTellsRun /\ LanesHoldPending
      /\ OneLanePerJob /\ NoJobForgotten /\ LaneToSpare
  BY DEF InductiveInv
<1>n. PICK n \in Slots : n = next_job
  BY <1>1 DEF TypeOK
<1>2. /\ call.pc = "idle" /\ call.job = NULL
      /\ call' = [op |-> "submit", pc |-> pc, job |-> n] /\ ret' = NULL
      /\ UNCHANGED <<earliest_job, next_job, lanes>>
  BY <1>1, <1>n DEF Begin, CallShape
<1>3. /\ jobs'[n] = [kind |-> k, status |-> st] /\ ran'[n] = <<>>
      /\ \A s \in Slots : s # n => jobs'[s] = jobs[s] /\ ran'[s] = ran[s]
  BY <1>1, <1>n DEF Begin, TypeOK
<1>4. /\ Outstanding = Window /\ Outstanding' = Window \cup {n} /\ Submitting'
      /\ Window' = Window /\ n \notin Window /\ Window \subseteq Slots
      /\ earliest_job # n
  BY <1>1, <1>2, <1>n, WindowFacts DEF Outstanding, Submitting, Window
<1>5. n # NULL /\ NULL \notin Slots
  BY DEF Slots, NULL
<1>6. TypeOK'
  <2>1. jobs' \in [Slots -> [kind : Kinds, status : Statuses]]
    <3>1. [kind |-> k, status |-> st] \in [kind : Kinds, status : Statuses]
      BY DEF Statuses
    <3>2. jobs' = [jobs EXCEPT ![n] = [kind |-> k, status |-> st]]
      BY <1>n DEF Begin
    <3> QED
      BY <3>1, <3>2, <1>1 DEF TypeOK
  <2>2. ran' \in [Slots -> Seq(Stages \cup {"AEAD"})]
    BY <1>1, <1>n DEF Begin, TypeOK
  <2> QED
    BY <2>1, <2>2, <1>1, <1>2 DEF TypeOK, Pcs
<1>7. CallShape'
  BY <1>2, <1>3, <1>4, <1>n DEF CallShape, Submitting, Done
<1>8. RingShape'
  BY <1>2, <1>4, <1>n DEF RingShape
<1>9. StatusTellsRun'
  <2>1. RunMatches(n)'
    BY <1>3 DEF RunMatches
  <2>2. ASSUME NEW s \in Window PROVE RunMatches(s)'
    BY <1>1, <1>3, <1>4 DEF StatusTellsRun, RunMatches
  <2> QED
    BY <2>1, <2>2, <1>2, <1>4 DEF StatusTellsRun
<1>10. \A s \in Window : /\ jobs'[s] = jobs[s] /\ (Done(s)' <=> Done(s))
                         /\ NextStage(s)' = NextStage(s)
  BY <1>3, <1>4 DEF Done, NextStage
<1>11. LanesHoldPending'
  <2>1. ASSUME NEW m \in Managers, NEW l \in Lane[m], NEW s,
               s = lanes[m][l], s # NULL
        PROVE  /\ s \in Outstanding' /\ s # call'.job /\ ~(Done(s)')
               /\ Server(jobs'[s].kind, NextStage(s)') = m
    <3>1. s \in Window /\ ~Done(s) /\ Server(jobs[s].kind, NextStage(s)) = m
      BY <2>1, <1>1, <1>4 DEF LanesHoldPending
    <3> QED
      BY <3>1, <1>2, <1>4, <1>10
  <2> QED
    BY <2>1, <1>2 DEF LanesHoldPending
<1>12. NoJobForgotten'
  <2>1. SUFFICES ASSUME NEW s \in Window, ~(Done(s)')
                 PROVE  \E m \in Managers : \E l \in Lane[m] : lanes[m][l] = s
    BY <1>2, <1>4 DEF NoJobForgotten
  <2>2. ~Done(s) /\ s # NULL
    BY <2>1, <1>4, <1>5, <1>10
  <2> QED
    BY <2>2, <1>1, <1>2, <1>4 DEF NoJobForgotten
<1>13. OneLanePerJob' /\ LaneToSpare'
  BY <1>1, <1>2 DEF OneLanePerJob, LaneToSpare
<1> QED
  BY <1>2, <1>6, <1>7, <1>8, <1>9, <1>11, <1>12, <1>13 DEF InductiveInv

\* A turn of the loop of RESUBMIT_JOB, or its end.
LEMMA ResubmitStep ==
  ASSUME InductiveInv,
         NEW pc, NEW next,
         \/ pc = "resubmit" /\ next = "ring"
         \/ pc = "resubmit_flushed" /\ next = "complete",
         Resubmit(pc, next)
  PROVE  InductiveInv'
<1>1. TypeOK /\ CallShape /\ RingShape /\ StatusTellsRun
  BY DEF InductiveInv
<1>2. call.pc = pc /\ UNCHANGED <<earliest_job, next_job, ret>>
  BY DEF Resubmit
<1>3. CASE call.job = NULL \/ Done(call.job)
  <2>1. Goto(next, call.job) /\ UNCHANGED <<jobs, lanes, ran>>
    BY <1>3 DEF Resubmit
  <2>2. /\ call'.pc = next /\ call'.op = call.op /\ call'.job = call.job
        /\ call' \in [op : {"none", "submit", "flush"}, pc : Pcs, job : Slots \cup {NULL}]
    BY <2>1, <1>1 DEF Goto, TypeOK, Pcs
  <2>3. TypeOK'
    BY <2>1, <2>2, <1>1, <1>2 DEF TypeOK
  <2>4. (Submitting' <=> Submitting) /\ Outstanding' = Outstanding
    BY <2>2, <1>2 DEF Submitting, Outstanding, Window
  <2>5. CallShape'
    BY <2>1, <2>2, <2>4, <1>1, <1>2, <1>3 DEF CallShape, Submitting, Done
  <2>6. RingShape'
    BY <2>2, <1>1, <1>2 DEF RingShape
  <2>7. ret' = NULL
    BY <1>1, <1>2 DEF CallShape
  <2> QED
    BY <2>1, <2>2, <2>3, <2>4, <2>5, <2>6, <2>7, ControlStep
<1>4. CASE ~(call.job = NULL \/ Done(call.job))
  <2>1. PICK j \in Slots : j = call.job
    BY <1>1, <1>4 DEF TypeOK
  <2>2. SubmitStage(j, ResubmitStage(jobs[j].status), pc)
    BY <2>1, <1>4 DEF Resubmit
  <2>3. jobs[j].status # BEING_PROCESSED
    BY <2>1, <1>1, <1>2, <1>4 DEF CallShape
  <2>4. SubmitStage(j, NextStage(j), pc)
    BY <2>2, <2>3 DEF NextStage
  <2>5. call.pc \in SubmitPcs /\ pc \in {"resubmit", "resubmit_flushed"}
    BY <1>2 DEF SubmitPcs
  <2>6. pc = "resubmit" <=> call.pc \in {"new", "resubmit"}
    BY <1>2
  <2> QED
    BY <2>1, <2>4, <2>5, <2>6, <1>2, <1>4, SubmitStep
<1> QED
  BY <1>3, <1>4

LEMMA SubmitNewStep ==
  ASSUME InductiveInv, SubmitNewJob
  PROVE  InductiveInv'
<1>1. PICK j : j = next_job
  OBVIOUS
<1>2. call.pc = "new" /\ call.job = j /\ j \in Slots /\ jobs[j].status = BEING_PROCESSED
  BY <1>1 DEF InductiveInv, CallShape, TypeOK, SubmitNewJob
<1>3. NextStage(j) = FirstStage(jobs[j].kind) /\ ~Done(j)
  BY <1>2 DEF NextStage, Done, BEING_PROCESSED, COMPLETED
<1>4. SubmitStage(j, NextStage(j), "resubmit")
  BY <1>2, <1>3 DEF SubmitNewJob
<1> QED
  BY <1>2, <1>3, <1>4, SubmitStep DEF SubmitNewJob, SubmitPcs

\* submit_job_and_check.
LEMMA RingStep ==
  ASSUME InductiveInv, RingEmpty \/ RingFull \/ RingNotFull
  PROVE  InductiveInv'
<1>1. TypeOK /\ CallShape /\ RingShape
  BY DEF InductiveInv
<1>2. /\ call.pc = "ring" /\ call.op = "submit" /\ ret = NULL
      /\ next_job' = Adv(next_job) /\ UNCHANGED <<jobs, lanes, ran>>
      /\ call.job = NULL \/ Done(call.job)
  BY <1>1 DEF RingEmpty, RingFull, RingNotFull, CallShape, Submitting
<1>3. PICK n \in Slots : n = next_job
  BY <1>1 DEF TypeOK
<1>4. /\ Outstanding = Window \cup {n} /\ Window = WindowOf(earliest_job, n)
      /\ Window \subseteq Slots /\ n \notin Window /\ earliest_job # n
  BY <1>1, <1>2, <1>3, WindowFacts DEF Outstanding, Submitting
<1>5. NULL \notin Slots /\ Adv(n) \in Slots /\ Adv(n) # n /\ next_job' = Adv(n)
  BY <1>2, <1>3, AdvFacts DEF Slots, NULL
<1>6. Window' = WindowOf(earliest_job', Adv(n))
  BY <1>5 DEF Window, WindowOf
<1>7. ASSUME NEW r, r = ret', call' = Idle, earliest_job' \in Slots \cup {NULL},
             earliest_job' # Adv(n),
             Window' \subseteq Outstanding,
             \A s \in Outstanding : ~Done(s) => s \in Window',
             r # NULL => Done(r) /\ r \notin Window' /\ r \in Outstanding
      PROVE  InductiveInv'
  <2>1. /\ call'.pc = "idle" /\ call'.op = "none" /\ call'.job = NULL
        /\ call' \in [op : {"none", "submit", "flush"}, pc : Pcs, job : Slots \cup {NULL}]
    BY <1>7 DEF Idle, Pcs
  <2>2. r \in Slots \cup {NULL}
    BY <1>3, <1>4, <1>7
  <2>3. TypeOK'
    BY <2>1, <2>2, <1>1, <1>2, <1>5, <1>7 DEF TypeOK
  <2>4. CallShape' /\ RingShape'
    BY <2>1, <1>5, <1>7 DEF CallShape, RingShape, Submitting
  <2>5. Outstanding' = Window'
    BY <2>1 DEF Outstanding, Submitting
  <2> QED
    BY <2>1, <2>3, <2>4, <2>5, <1>2, <1>7, ControlStep
<1>8. CASE RingEmpty
  <2>1. /\ earliest_job = NULL /\ ret' = call.job /\ call' = Idle
        /\ earliest_job' = IF call.job = NULL THEN n ELSE NULL
    BY <1>3, <1>8 DEF RingEmpty, Return
  <2>2. Outstanding = {n}
    BY <2>1, <1>4 DEF WindowOf
  <2>3. call.job \in {NULL, n}
    BY <2>2, <1>1 DEF CallShape
  <2>4. Window' = IF call.job = NULL THEN {n} ELSE {}
    BY <2>1, <1>5, <1>6, WindowStarts DEF WindowOf
  <2>5. \A s \in Outstanding : ~Done(s) => s \in Window'
    BY <2>2, <2>3, <2>4, <1>2
  <2>6. PICK r : r = ret'
    OBVIOUS
  <2>7. r # NULL => Done(r) /\ r \notin Window' /\ r \in Outstanding
    BY <2>1, <2>2, <2>3, <2>4, <2>6, <1>2
  <2>8. earliest_job' \in Slots \cup {NULL} /\ earliest_job' # Adv(n)
    BY <2>1, <1>5
  <2> QED
    BY <2>1, <2>2, <2>4, <2>5, <2>6, <2>7, <2>8, <1>7
<1>9. CASE RingFull
  <2>1. /\ earliest_job \in Slots /\ earliest_job = Adv(n) /\ earliest_job' = earliest_job
        /\ call' = [call EXCEPT !.pc = "complete", !.job = NULL] /\ ret' = NULL
    BY <1>1, <1>2, <1>3, <1>9 DEF RingFull, Goto, TypeOK
  <2>2. /\ call'.pc = "complete" /\ call'.op = "submit" /\ call'.job = NULL
        /\ call' \in [op : {"none", "submit", "flush"}, pc : Pcs, job : Slots \cup {NULL}]
    BY <2>1, <1>1, <1>2 DEF TypeOK, Pcs
  <2>3. Outstanding' = Outstanding
    BY <2>1, <2>2, <1>4, <1>6, WindowGrows DEF Outstanding, Submitting
  <2>4. TypeOK'
    BY <2>1, <2>2, <1>1, <1>2, <1>5 DEF TypeOK
  <2>5. CallShape' /\ RingShape'
    BY <2>1, <2>2, <1>5 DEF CallShape, RingShape, Submitting, NULL, Slots
  <2> QED
    BY <2>1, <2>2, <2>3, <2>4, <2>5, <1>2, ControlStep
<1>10. CASE RingNotFull
  <2>e. PICK e \in Slots : e = earliest_job
    BY <1>1, <1>10 DEF RingNotFull, TypeOK
  <2>1. e # Adv(n) /\ e # n /\ e \in Window
    BY <2>e, <1>3, <1>4, <1>10, WindowBasics DEF RingNotFull
  <2>2. WindowOf(e, Adv(n)) = Outstanding
    BY <2>e, <2>1, <1>4, WindowGrows
  <2>3. CASE ~Done(e)
    <3>1. earliest_job' = e /\ ret' = NULL /\ call' = Idle
      BY <2>e, <2>3, <1>10 DEF RingNotFull, Return
    <3>2. Window' = Outstanding
      BY <3>1, <2>2, <1>6
    <3> QED
      BY <3>1, <3>2, <2>1, <1>7
  <2>4. CASE Done(e)
    <3>1. earliest_job' = Adv(e) /\ ret' = e /\ call' = Idle
      BY <2>e, <2>4, <1>10 DEF RingNotFull, Return
    <3>2. Adv(e) # Adv(n) /\ Adv(e) \in Slots
      BY <2>1, AdvFacts
    <3>3. Window' = Outstanding \ {e}
      BY <3>1, <3>2, <2>2, <1>5, <1>6, WindowShrinks
    <3>4. e \in Outstanding
      BY <2>1, <1>4
    <3> QED
      BY <3>1, <3>2, <3>3, <3>4, <2>4, <1>7
  <2> QED
    BY <2>3, <2>4
<1> QED
  BY <1>8, <1>9, <1>10

\* The earliest job comes out: behind complete_job, or in GET_COMPLETED_JOB.
LEMMA TakeEarliestStep ==
  ASSUME InductiveInv, NEW e \in Slots, e = earliest_job, Done(e),
         call.pc \in {"idle", "complete"},
         earliest_job' = IF call.op # "submit" /\ Adv(e) = next_job
                         THEN NULL ELSE Adv(e),
         call' = Idle, ret' = e,
         UNCHANGED <<next_job, jobs, lanes, ran>>
  PROVE  InductiveInv'
<1>1. TypeOK /\ CallShape /\ RingShape
  BY DEF InductiveInv
<1>2. PICK n \in Slots : n = next_job
  BY <1>1 DEF TypeOK
<1>3. /\ NULL \notin Slots /\ Adv(e) \in Slots /\ Adv(e) # e
      /\ Outstanding = Window /\ Window = WindowOf(e, n) /\ e \in Window
      /\ Window \subseteq Slots
  BY <1>1, <1>2, AdvFacts, WindowFacts DEF Slots, NULL, Outstanding, Submitting
<1>4. /\ call'.pc = "idle" /\ call'.op = "none" /\ call'.job = NULL
      /\ call' \in [op : {"none", "submit", "flush"}, pc : Pcs, job : Slots \cup {NULL}]
  BY DEF Idle, Pcs
<1>5. /\ earliest_job' # n /\ earliest_job' \in Slots \cup {NULL}
      /\ Outstanding' = Window' /\ Window' = Window \ {e}
  <2>1. Outstanding' = Window' /\ Window' = WindowOf(earliest_job', n)
    BY <1>2, <1>4 DEF Outstanding, Submitting, Window, WindowOf
  <2>2. CASE call.op # "submit" /\ Adv(e) = n
    <3>1. earliest_job' = NULL
      BY <2>2, <1>2
    <3>2. WindowOf(e, n) \ {e} = {}
      BY <2>2, WindowEnds
    <3> QED
      BY <2>1, <3>1, <3>2, <1>2, <1>3 DEF WindowOf
  <2>3. CASE ~(call.op # "submit" /\ Adv(e) = n)
    <3>1. earliest_job' = Adv(e)
      BY <2>3, <1>2
    <3>2. Adv(e) # n
      <4>1. CASE call.op # "submit"
        BY <2>3, <4>1
      <4>2. CASE call.op = "submit"
        <5>1. call.pc = "complete"
          BY <4>2, <1>1 DEF CallShape
        <5> QED
          BY <4>2, <5>1, <1>1, <1>2, <1>3 DEF RingShape
      <4> QED
        BY <4>1, <4>2
    <3> QED
      BY <2>1, <3>1, <3>2, <1>2, <1>3, WindowShrinks
  <2> QED
    BY <2>2, <2>3
<1>6. TypeOK'
  BY <1>1, <1>4, <1>5 DEF TypeOK
<1>7. CallShape' /\ RingShape'
  BY <1>2, <1>4, <1>5 DEF CallShape, RingShape, Submitting
<1>8. call.job = NULL \/ Done(call.job)
  BY <1>1 DEF CallShape
<1> QED
  BY <1>3, <1>4, <1>5, <1>6, <1>7, <1>8, ControlStep

\* The calls that find nothing to return, and the start of FLUSH_JOB.
LEMMA QuietStep ==
  ASSUME InductiveInv, call.pc = "idle",
         \/ call' = Idle
         \/ call' = [op |-> "flush", pc |-> "complete", job |-> NULL]
            /\ earliest_job # NULL,
         ret' = NULL,
         UNCHANGED <<earliest_job, next_job, jobs, lanes, ran>>
  PROVE  InductiveInv'
<1>1. TypeOK /\ CallShape /\ RingShape /\ call.job = NULL
  BY DEF InductiveInv, CallShape
<1>2. /\ call'.job = NULL
      /\ \/ call'.pc = "idle" /\ call'.op = "none"
         \/ call'.pc = "complete" /\ call'.op = "flush" /\ earliest_job # NULL
      /\ call' \in [op : {"none", "submit", "flush"}, pc : Pcs, job : Slots \cup {NULL}]
  BY DEF Idle, Pcs
<1>3. Outstanding' = Outstanding
  BY <1>2 DEF Outstanding, Submitting, Window
<1>4. TypeOK'
  BY <1>1, <1>2 DEF TypeOK
<1>5. CallShape' /\ RingShape'
  BY <1>1, <1>2 DEF CallShape, RingShape, Submitting
<1> QED
  BY <1>1, <1>2, <1>3, <1>4, <1>5, ControlStep

\* Every step keeps the invariant.
LEMMA NextInductive ==
  ASSUME CustomNotFirst, InductiveInv, [Next]_vars
  PROVE  InductiveInv'
<1>1. ASSUME NEW k \in Kinds, SubmitValid(k) \/ SubmitInvalid(k)
      PROVE  InductiveInv'
  BY <1>1, BeginStep DEF SubmitValid, SubmitInvalid
<1>2. CASE FlushEmpty \/ FlushJob
  BY <1>2, QuietStep DEF FlushEmpty, FlushJob, Return
<1>3. CASE GetCompletedJob
  <2>1. CASE earliest_job # NULL /\ Done(earliest_job)
    <3>1. PICK e \in Slots : e = earliest_job
      BY <2>1 DEF InductiveInv, TypeOK
    <3>2. call.op # "submit"
      BY <1>3 DEF GetCompletedJob, InductiveInv, CallShape
    <3> QED
      BY <2>1, <3>1, <3>2, <1>3, TakeEarliestStep DEF GetCompletedJob, Return
  <2>2. CASE ~(earliest_job # NULL /\ Done(earliest_job))
    BY <2>2, <1>3, QuietStep DEF GetCompletedJob, Return
  <2> QED
    BY <2>1, <2>2
<1>4. CASE SubmitNewJob
  BY <1>4, SubmitNewStep
<1>5. CASE ResubmitNew \/ ResubmitFlushed
  BY <1>5, ResubmitStep DEF ResubmitNew, ResubmitFlushed
<1>6. CASE RingEmpty \/ RingFull \/ RingNotFull
  BY <1>6, RingStep
<1>7. CASE CompleteJob
  BY <1>7, CompleteJobStep
<1>8. CASE CompleteDone
  <2>1. earliest_job # NULL /\ call.pc = "complete"
    BY <1>8 DEF CompleteDone, InductiveInv, RingShape
  <2>2. PICK e \in Slots : e = earliest_job
    BY <2>1 DEF InductiveInv, TypeOK
  <2>3. call.op # "submit" <=> call.op = "flush"
    BY <2>1 DEF InductiveInv, CallShape, TypeOK
  <2> QED
    BY <2>1, <2>2, <2>3, <1>8, TakeEarliestStep DEF CompleteDone, Return
<1>9. CASE UNCHANGED vars
  BY <1>9 DEF vars, InductiveInv, TypeOK, CallShape, RingShape, StatusTellsRun,
     RunMatches, LanesHoldPending, OneLanePerJob, NoJobForgotten, LaneToSpare,
     Done, Outstanding, Window, Submitting, NextStage
<1> QED
  BY <1>1, <1>2, <1>3, <1>4, <1>5, <1>6, <1>7, <1>8, <1>9 DEF Next, InCall

-----------------------------------------------------------------------------
(***************************************************************************)
(* The theorems.                                                           *)
(***************************************************************************)

\* The ring, the lanes, the call state and the histories agree in every
\* reachable state (the whole of mb_mgr_code.h: RESUBMIT_JOB, complete_job,
\* submit_job_and_check, FLUSH_JOB, GET_COMPLETED_JOB).
THEOREM Inductive ==
  ASSUME CustomNotFirst
  PROVE  Spec => []InductiveInv
<1>1. Init => InductiveInv
  BY InitInductive
<1>2. InductiveInv /\ [Next]_vars => InductiveInv'
  BY NextInductive
<1> QED
  BY <1>1, <1>2, PTL DEF Spec

\* Type correctness of the ring and of the OOO managers' lanes.
THEOREM TypeCorrect ==
  ASSUME CustomNotFirst
  PROVE  Spec => []TypeOK
<1>1. InductiveInv => TypeOK
  BY DEF InductiveInv
<1> QED
  BY <1>1, Inductive, PTL

\* The pointers in job_in_lane are never stale, and no job is in two lanes.
THEOREM LanesAreSound ==
  ASSUME CustomNotFirst
  PROVE  Spec => [](LanesHoldPending /\ OneLanePerJob /\ LaneToSpare)
<1>1. InductiveInv => LanesHoldPending /\ OneLanePerJob /\ LaneToSpare
  BY DEF InductiveInv
<1> QED
  BY <1>1, Inductive, PTL

\* The scheduler never forgets a job between its two stages (RESUBMIT_JOB).
THEOREM NoJobIsForgotten ==
  ASSUME CustomNotFirst
  PROVE  Spec => []NoJobForgotten
<1>1. InductiveInv => NoJobForgotten
  BY DEF InductiveInv
<1> QED
  BY <1>1, Inductive, PTL

\* complete_job never spins without finishing a stage of some job.
THEOREM CompleteJobCannotSpin ==
  ASSUME CustomNotFirst
  PROVE  Spec => []CompleteJobAdvances
<1>1. InductiveInv => CompleteJobAdvances
  <2> SUFFICES ASSUME InductiveInv, call.pc = "complete", ~Done(earliest_job)
               PROVE  \/ ~FlushIsNull(earliest_job, FirstStage(jobs[earliest_job].kind))
                      \/ ~FlushIsNull(earliest_job, SecondStage(jobs[earliest_job].kind))
    BY DEF CompleteJobAdvances
  <2> QED
    BY EarliestIsFlushable
<1> QED
  BY <1>1, Inductive, PTL

\* A job that submit_job, flush_job or get_completed_job returns is done, and
\* STS_COMPLETED on it means that each stage ran once in the order asked for.
THEOREM ReturnedIsCompleted ==
  ASSUME CustomNotFirst
  PROVE  Spec => []ReturnedJobIsCompleted
<1>1. InductiveInv => ReturnedJobIsCompleted
  <2> SUFFICES ASSUME InductiveInv, ret # NULL
               PROVE  /\ Done(ret)
                      /\ jobs[ret].status = COMPLETED => ran[ret] = FullRun(jobs[ret].kind)
    BY DEF ReturnedJobIsCompleted
  <2>1. Done(ret) /\ RunMatches(ret)
    BY DEF InductiveInv, StatusTellsRun
  <2> QED
    BY <2>1 DEF RunMatches
<1> QED
  BY <1>1, Inductive, PTL

\* What the application may write to, the slot of get_next_job and the job just
\* returned, is in nobody else's hands.
THEOREM ApplicationOwnsItsSlots ==
  ASSUME CustomNotFirst
  PROVE  Spec => []ApplicationSlotsAreFree
<1>1. InductiveInv => ApplicationSlotsAreFree
  <2> SUFFICES ASSUME InductiveInv, call.pc = "idle",
                      NEW s \in {next_job, ret} \ {NULL}
               PROVE  /\ s \notin Window
                      /\ \A m \in Managers : \A l \in Lane[m] : lanes[m][l] # s
    BY DEF ApplicationSlotsAreFree
  <2>1. TypeOK /\ RingShape /\ LanesHoldPending
    BY DEF InductiveInv
  <2>2. s \notin Window
    BY <2>1, WindowFacts DEF InductiveInv
  <2>3. Outstanding = Window
    BY DEF Outstanding, Submitting
  <2> QED
    BY <2>1, <2>2, <2>3 DEF LanesHoldPending
<1> QED
  BY <1>1, Inductive, PTL

-----------------------------------------------------------------------------
(***************************************************************************)
(* The ring.                                                               *)
(***************************************************************************)
\* What % does with a difference of two slots.
LEMMA ModFacts ==
  /\ \A a \in 0 .. MAX_JOBS - 1 : a % MAX_JOBS = a
  /\ \A a \in 1 - MAX_JOBS .. -1 : a % MAX_JOBS = a + MAX_JOBS
<1> PICK N \in Nat : N = MAX_JOBS /\ N >= 2
  BY SizeAssumption
<1>1. \A a \in 0 .. N - 1 : a % N = a
  OBVIOUS
<1>2. \A a \in 1 - N .. -1 : a % N = a + N
  OBVIOUS
<1> QED
  BY <1>1, <1>2

\* The number of slots from e to n.
LEMMA WindowSize ==
  ASSUME NEW e \in Slots, NEW n \in Slots, e # n
  PROVE  /\ Cardinality(WindowOf(e, n)) = (n - e) % MAX_JOBS
         /\ (n - e) % MAX_JOBS < MAX_JOBS
<1>1. /\ e \in Int /\ n \in Int /\ MAX_JOBS \in Int
      /\ 0 <= e /\ e < MAX_JOBS /\ 0 <= n /\ n < MAX_JOBS
      /\ e # NULL
  BY SizeAssumption DEF Slots, NULL
<1>2. CASE e < n
  <2>1. WindowOf(e, n) = e .. n - 1
    BY <1>1, <1>2 DEF WindowOf
  <2>2. Cardinality(e .. n - 1) = n - e
    BY <1>1, <1>2, FS_Interval
  <2>3. (n - e) % MAX_JOBS = n - e /\ n - e < MAX_JOBS
    BY <1>1, <1>2, ModFacts
  <2> QED
    BY <2>1, <2>2, <2>3
<1>3. CASE n < e
  <2> DEFINE A == e .. MAX_JOBS - 1
             B == 0 .. n - 1
  <2>1. WindowOf(e, n) = A \cup B
    BY <1>1, <1>3 DEF WindowOf
  <2>2. /\ IsFiniteSet(A) /\ Cardinality(A) = MAX_JOBS - e
        /\ IsFiniteSet(B) /\ Cardinality(B) = n
    <3>1. e \in Int /\ MAX_JOBS - 1 \in Int /\ ~(e > MAX_JOBS - 1)
      BY <1>1
    <3>2. IsFiniteSet(A) /\ Cardinality(A) = (MAX_JOBS - 1) - e + 1
      BY <3>1, FS_Interval
    <3>3. 0 \in Int /\ n - 1 \in Int
      BY <1>1
    <3>4. IsFiniteSet(B) /\ Cardinality(B) = IF 0 > n - 1 THEN 0 ELSE (n - 1) - 0 + 1
      BY <3>3, FS_Interval
    <3> HIDE DEF A, B
    <3> QED
      BY <1>1, <3>2, <3>4
  <2>3. A \cap B = {}
    BY <1>1, <1>3
  <2>4. Cardinality(A \cap B) = 0
    BY <2>3, FS_EmptySet
  <2>5. Cardinality(A \cup B) = Cardinality(A) + Cardinality(B) - Cardinality(A \cap B)
    BY <2>2, FS_Union
  <2>6. (n - e) % MAX_JOBS = n - e + MAX_JOBS
    BY <1>1, <1>3, ModFacts
  <2> QED
    BY <1>1, <1>3, <2>1, <2>2, <2>4, <2>5, <2>6
<1> QED
  BY <1>1, <1>2, <1>3

\* QUEUE_SIZE is the number of outstanding jobs, and it never counts a full
\* ring between two calls.
THEOREM QueueSizeCounts ==
  ASSUME CustomNotFirst
  PROVE  Spec => []QueueSizeIsExact
<1>1. InductiveInv => QueueSizeIsExact
  <2> SUFFICES ASSUME InductiveInv, call.pc = "idle"
               PROVE  QUEUE_SIZE = Cardinality(Window) /\ QUEUE_SIZE < MAX_JOBS
    BY DEF QueueSizeIsExact
  <2>1. TypeOK /\ RingShape
    BY DEF InductiveInv
  <2>2. Window = WindowOf(earliest_job, next_job) /\ next_job \in Slots
    BY <2>1, WindowFacts DEF TypeOK
  <2>3. CASE earliest_job = NULL
    BY <2>2, <2>3, FS_EmptySet, SizeAssumption DEF QUEUE_SIZE, WindowOf
  <2>4. CASE earliest_job # NULL
    <3>1. earliest_job \in Slots /\ earliest_job # next_job
      BY <2>1, <2>4, WindowFacts
    <3> QED
      BY <2>2, <2>4, <3>1, WindowSize DEF QUEUE_SIZE
  <2> QED
    BY <2>3, <2>4
<1> QED
  BY <1>1, Inductive, PTL

-----------------------------------------------------------------------------
(***************************************************************************)
(* Writes to jobs.                                                         *)
(***************************************************************************)
DoneJobsKept == \A s \in Slots : Done(s) => jobs'[s] = jobs[s]

LEMMA OneJobWritten ==
  ASSUME TypeOK, NEW b, ~Done(b), NEW v, jobs' = [jobs EXCEPT ![b].status = v]
  PROVE  DoneJobsKept
BY DEF TypeOK, DoneJobsKept

\* The job an OOO manager takes out of a lane was not finished.
LEMMA ReleaseKeepsDone ==
  ASSUME TypeOK, NEW m, NEW L, NEW d, NEW stage, NEW pc,
         ~Done(L[d]), Release(m, L, d, stage, pc)
  PROVE  DoneJobsKept
<1>1. PICK b : b = L[d]
  OBVIOUS
<1>2. jobs' = [jobs EXCEPT ![b].status = Or(@, stage)]
  BY <1>1 DEF Release, Mark
<1>3. jobs' = [jobs EXCEPT ![b].status = Or(jobs[b].status, stage)]
  BY <1>2
<1> QED
  BY <1>1, <1>3, OneJobWritten

LEMMA InPlaceKeepsDone ==
  ASSUME TypeOK, NEW j, ~Done(j), NEW stage, NEW pc,
         \/ RunNow(j, stage, pc) \/ RunAead(j, pc) \/ RunCustom(j, stage, pc)
  PROVE  DoneJobsKept
<1>1. \/ jobs' = [jobs EXCEPT ![j].status = Or(@, stage)]
      \/ jobs' = [jobs EXCEPT ![j].status = COMPLETED]
      \/ jobs' = [jobs EXCEPT ![j].status = INTERNAL_ERROR]
      \/ jobs' = jobs
  BY DEF RunNow, RunAead, RunCustom, Mark
<1>2. CASE jobs' = [jobs EXCEPT ![j].status = Or(@, stage)]
  <2>1. jobs' = [jobs EXCEPT ![j].status = Or(jobs[j].status, stage)]
    BY <1>2
  <2> QED
    BY <2>1, OneJobWritten
<1> QED
  BY <1>1, <1>2, OneJobWritten DEF DoneJobsKept

LEMMA SubmitKeepsDone ==
  ASSUME TypeOK, LanesHoldPending, NEW j, ~Done(j), j # NULL, NEW stage, NEW pc,
         SubmitStage(j, stage, pc)
  PROVE  DoneJobsKept
<1>1. CASE RunNow(j, stage, pc) \/ RunAead(j, pc) \/ RunCustom(j, stage, pc)
  BY <1>1, InPlaceKeepsDone
<1>2. ASSUME NEW m \in Managers, LaneSubmit(m, j, stage, pc)
      PROVE  DoneJobsKept
  <2>1. PICK l \in FreeLanes(lanes[m]) :
          \/ UNCHANGED jobs
          \/ \E L : /\ L = [lanes[m] EXCEPT ![l] = j]
                   /\ \E d \in DOMAIN L : Release(m, L, d, stage, pc)
                   /\ FreeLanes(L) = {}
    BY <1>2 DEF LaneSubmit
  <2>2. CASE UNCHANGED jobs
    BY <2>2 DEF DoneJobsKept
  <2>3. ASSUME NEW L, L = [lanes[m] EXCEPT ![l] = j], FreeLanes(L) = {},
               NEW d \in DOMAIN L, Release(m, L, d, stage, pc)
        PROVE  DoneJobsKept
    <3>1. DOMAIN L = Lane[m] /\ L[d] # NULL
      BY <2>3 DEF TypeOK, FreeLanes
    <3>2. L[d] = j \/ L[d] = lanes[m][d]
      BY <2>3, <3>1 DEF TypeOK
    <3>3. ~Done(L[d])
      BY <3>1, <3>2 DEF LanesHoldPending
    <3> QED
      BY <2>3, <3>3, ReleaseKeepsDone
  <2> QED
    BY <2>1, <2>2, <2>3
<1> QED
  BY <1>1, <1>2 DEF SubmitStage

LEMMA FlushKeepsDone ==
  ASSUME TypeOK, LanesHoldPending, NEW j, ~Done(j), NEW stage, NEW pc,
         FlushStage(j, stage, pc)
  PROVE  DoneJobsKept
<1>1. CASE RunNow(j, stage, pc) \/ RunCustom(j, stage, pc)
  BY <1>1, InPlaceKeepsDone
<1>2. ASSUME NEW m \in Managers, LaneFlush(m, stage, pc)
      PROVE  DoneJobsKept
  <2>1. PICK d \in BusyLanes(lanes[m]) : Release(m, lanes[m], d, stage, pc)
    BY <1>2 DEF LaneFlush
  <2>2. ~Done(lanes[m][d])
    BY <2>1 DEF BusyLanes, LanesHoldPending, TypeOK
  <2> QED
    BY <2>1, <2>2, ReleaseKeepsDone
<1> QED
  BY <1>1, <1>2 DEF FlushStage

\* No step of the scheduler or of an OOO manager writes to a finished job; the
\* application does, when it fills the slot of get_next_job.
THEOREM FinishedJobsAreKept ==
  ASSUME CustomNotFirst
  PROVE  Spec => FinishedJobIsLeftAlone
<1> DEFINE Kept ==
      \A s \in Outstanding \cup ({ret} \ {NULL}) :
        Done(s) => \/ jobs'[s] = jobs[s]
                   \/ call.pc = "idle" /\ s = next_job /\ s \notin Window
<1>1. ASSUME InductiveInv, [Next]_vars
      PROVE  Kept
  <2>1. TypeOK /\ LanesHoldPending /\ RingShape /\ CallShape
    BY <1>1 DEF InductiveInv
  <2>2. Outstanding \cup ({ret} \ {NULL}) \subseteq Slots
    BY <2>1, WindowFacts DEF TypeOK
  <2>3. DoneJobsKept => Kept
    BY <2>2 DEF DoneJobsKept
  <2>4. ASSUME NEW k \in Kinds, SubmitValid(k) \/ SubmitInvalid(k)
        PROVE  Kept
    <3>1. call.pc = "idle" /\ next_job \notin Window
      BY <2>1, <2>4, WindowFacts DEF SubmitValid, SubmitInvalid, Begin
    <3>2. \A s \in Slots : s # next_job => jobs'[s] = jobs[s]
      BY <2>1, <2>4 DEF SubmitValid, SubmitInvalid, Begin, TypeOK
    <3> QED
      BY <2>2, <3>1, <3>2
  <2>5. CASE UNCHANGED jobs
    BY <2>5
  <2>6. CASE SubmitNewJob
    <3>1. ~Done(call.job) /\ call.job # NULL
      BY <2>1, <2>6 DEF SubmitNewJob, CallShape, Done, COMPLETED, BEING_PROCESSED,
         TypeOK, Slots, NULL
    <3> QED
      BY <2>1, <2>3, <2>6, <3>1, SubmitKeepsDone DEF SubmitNewJob
  <2>7. CASE ResubmitNew \/ ResubmitFlushed
    BY <2>1, <2>3, <2>5, <2>7, SubmitKeepsDone DEF ResubmitNew, ResubmitFlushed, Resubmit
  <2>8. CASE CompleteJob
    BY <2>1, <2>3, <2>5, <2>8, FlushKeepsDone DEF CompleteJob
  <2>9. CASE \/ RingEmpty \/ RingFull \/ RingNotFull \/ CompleteDone
             \/ FlushEmpty \/ FlushJob \/ GetCompletedJob \/ UNCHANGED vars
    BY <2>5, <2>9 DEF RingEmpty, RingFull, RingNotFull, CompleteDone, FlushEmpty,
       FlushJob, GetCompletedJob, vars
  <2> QED
    BY <1>1, <2>4, <2>6, <2>7, <2>8, <2>9 DEF Next, InCall
<1>2. InductiveInv /\ [Next]_vars => [Kept]_vars
  BY <1>1
<1> QED
  BY <1>2, Inductive, PTL DEF Spec, FinishedJobIsLeftAlone

-----------------------------------------------------------------------------
(***************************************************************************)
(* The queue.                                                              *)
(***************************************************************************)
\* k slots from e on, around the ring.
SlotSeq(e, k) == [i \in 1 .. k |-> (e + i - 1) % MAX_JOBS]

Queue == SlotSeq(earliest_job, QueueLen)

Doing ==
  CASE call.op = "submit" -> SubmittedSlot
    [] call.op = "flush"  -> -2
    [] OTHER              -> -1

\* The actions of JobFifo under the refinement mapping.
LEMMA FifoBeginSubmit ==
  ASSUME NEW j \in Slots, Doing = -1, Doing' = j,
         \A i \in DOMAIN Queue : Queue[i] # j, ret' = -1, Queue' = Queue
  PROVE  Fifo!Next
<1>1. Fifo!BeginSubmit(j)
  BY DEF Fifo!BeginSubmit, Fifo!Nothing, Fifo!NoJob, Queue, SlotSeq, Doing
<1> QED
  BY <1>1 DEF Fifo!Next

LEMMA FifoEndSubmit ==
  ASSUME Doing \in Slots, Doing' = -1,
         NEW q, q = Append(Queue, Doing),
         \/ Len(q) <= MAX_JOBS - 1 /\ Queue' = q /\ ret' = -1
         \/ Queue' = Tail(q) /\ ret' = Head(q)
  PROVE  Fifo!Next
<1>1. Fifo!EndSubmit
  BY DEF Fifo!EndSubmit, Fifo!Nothing, Fifo!NoJob, Queue, SlotSeq, Doing
<1> QED
  BY <1>1 DEF Fifo!Next

LEMMA FifoFlushNone ==
  ASSUME Doing = -1, Doing' = -1, Queue = <<>>, Queue' = Queue, ret' = -1
  PROVE  Fifo!Next
<1>1. Fifo!FlushNone
  BY DEF Fifo!FlushNone, Fifo!Nothing, Fifo!NoJob, Queue, SlotSeq, Doing
<1> QED
  BY <1>1 DEF Fifo!Next

LEMMA FifoBeginFlush ==
  ASSUME Doing = -1, Doing' = -2, Queue # <<>>, Queue' = Queue, ret' = -1
  PROVE  Fifo!Next
<1>1. Fifo!BeginFlush
  BY DEF Fifo!BeginFlush, Fifo!Nothing, Fifo!Flushing, Fifo!NoJob, Queue, SlotSeq, Doing
<1> QED
  BY <1>1 DEF Fifo!Next

LEMMA FifoEndFlush ==
  ASSUME Doing = -2, Doing' = -1, Queue' = Tail(Queue), ret' = Head(Queue)
  PROVE  Fifo!Next
<1>1. Fifo!EndFlush
  BY DEF Fifo!EndFlush, Fifo!Pop, Fifo!Nothing, Fifo!Flushing, Queue, SlotSeq, Doing
<1> QED
  BY <1>1 DEF Fifo!Next

LEMMA FifoGetCompleted ==
  ASSUME Doing = -1, Doing' = -1,
         \/ Queue # <<>> /\ Queue' = Tail(Queue) /\ ret' = Head(Queue)
         \/ Queue' = Queue /\ ret' = -1
  PROVE  Fifo!Next
<1>1. Fifo!GetCompleted
  BY DEF Fifo!GetCompleted, Fifo!Pop, Fifo!Nothing, Fifo!NoJob, Queue, SlotSeq, Doing
<1> QED
  BY <1>1 DEF Fifo!Next

LEMMA FifoStutter ==
  ASSUME Doing' = Doing, Queue' = Queue, ret' = ret
  PROVE  UNCHANGED Fifo!fifoVars
BY DEF Fifo!fifoVars, Queue, SlotSeq, Doing

-----------------------------------------------------------------------------
(***************************************************************************)
(* Sequences of slots.                                                     *)
(***************************************************************************)
Wrap(a) == IF a >= MAX_JOBS THEN a - MAX_JOBS ELSE a

LEMMA WrapIsMod == \A a \in 0 .. 2 * MAX_JOBS - 1 : a % MAX_JOBS = Wrap(a)
<1> PICK N \in Nat : N = MAX_JOBS /\ N >= 2
  BY SizeAssumption
<1>1. \A a \in 0 .. N - 1 : a % N = a
  OBVIOUS
<1>2. \A a \in N .. 2 * N - 1 : a % N = a - N
  OBVIOUS
<1> QED
  BY <1>1, <1>2 DEF Wrap

LEMMA SlotSeqFacts ==
  ASSUME NEW e \in Slots, NEW k \in 0 .. MAX_JOBS
  PROVE  /\ SlotSeq(e, k) \in Seq(Slots) /\ Len(SlotSeq(e, k)) = k
         /\ \A i \in 1 .. k : SlotSeq(e, k)[i] = Wrap(e + i - 1)
<1>1. /\ MAX_JOBS \in Nat /\ MAX_JOBS >= 2 /\ e \in 0 .. MAX_JOBS - 1
      /\ k \in Nat /\ k <= MAX_JOBS
  BY SizeAssumption DEF Slots
<1>2. \A i \in 1 .. k : (e + i - 1) % MAX_JOBS = Wrap(e + i - 1)
  BY <1>1, WrapIsMod
<1>3. \A i \in 1 .. k : Wrap(e + i - 1) \in Slots
  BY <1>1 DEF Wrap, Slots
<1>4. PICK s : s = SlotSeq(e, k)
  OBVIOUS
<1>5. s = [i \in 1 .. k |-> Wrap(e + i - 1)]
  BY <1>2, <1>4 DEF SlotSeq
<1>6. s \in [1 .. k -> Slots]
  BY <1>3, <1>5
<1>7. s \in Seq(Slots) /\ Len(s) = k
  BY <1>1, <1>6
<1> QED
  BY <1>4, <1>5, <1>7

LEMMA SlotSeqEmpty == \A e : SlotSeq(e, 0) = <<>>
BY DEF SlotSeq

LEMMA SlotSeqPop ==
  ASSUME NEW e \in Slots, NEW k \in 1 .. MAX_JOBS
  PROVE  /\ SlotSeq(e, k) # <<>> /\ Head(SlotSeq(e, k)) = e
         /\ Tail(SlotSeq(e, k)) = SlotSeq(Adv(e), k - 1)
<1>1. /\ MAX_JOBS \in Nat /\ MAX_JOBS >= 2 /\ e \in 0 .. MAX_JOBS - 1
      /\ k \in 0 .. MAX_JOBS /\ k - 1 \in 0 .. MAX_JOBS /\ Adv(e) \in Slots
  BY SizeAssumption, AdvFacts DEF Slots
<1>2. PICK s : s = SlotSeq(e, k)
  OBVIOUS
<1>3. PICK t : t = SlotSeq(Adv(e), k - 1)
  OBVIOUS
<1>4. /\ s \in Seq(Slots) /\ Len(s) = k
      /\ \A i \in 1 .. k : s[i] = Wrap(e + i - 1)
  BY <1>1, <1>2, SlotSeqFacts
<1>5. /\ t \in Seq(Slots) /\ Len(t) = k - 1
      /\ \A i \in 1 .. k - 1 : t[i] = Wrap(Adv(e) + i - 1)
  BY <1>1, <1>3, SlotSeqFacts
<1>6. s # <<>> /\ Head(s) = e
  BY <1>1, <1>4 DEF Wrap
<1>7. PICK u : u = Tail(s)
  OBVIOUS
<1>8. /\ u \in Seq(Slots) /\ Len(u) = k - 1
      /\ \A i \in 1 .. k - 1 : u[i] = s[i + 1]
  BY <1>1, <1>4, <1>6, <1>7
<1>9. \A i \in 1 .. k - 1 : u[i] = t[i]
  <2> SUFFICES ASSUME NEW i \in 1 .. k - 1 PROVE s[i + 1] = t[i]
    BY <1>8
  <2>1. s[i + 1] = Wrap(e + i)
    BY <1>1, <1>4
  <2>2. Wrap(e + i) = Wrap(Adv(e) + i - 1)
    BY <1>1 DEF Wrap, Adv
  <2> QED
    BY <2>1, <2>2, <1>5
<1>10. u = t
  BY <1>1, <1>5, <1>8, <1>9, SeqEqual
<1> QED
  BY <1>2, <1>3, <1>6, <1>7, <1>10

LEMMA SlotSeqAppend ==
  ASSUME NEW e \in Slots, NEW k \in 0 .. MAX_JOBS - 1
  PROVE  Append(SlotSeq(e, k), Wrap(e + k)) = SlotSeq(e, k + 1)
<1>1. /\ MAX_JOBS \in Nat /\ MAX_JOBS >= 2 /\ e \in 0 .. MAX_JOBS - 1
      /\ k \in 0 .. MAX_JOBS /\ k + 1 \in 0 .. MAX_JOBS
  BY SizeAssumption DEF Slots
<1>2. PICK s : s = SlotSeq(e, k)
  OBVIOUS
<1>3. PICK t : t = SlotSeq(e, k + 1)
  OBVIOUS
<1>4. /\ s \in Seq(Slots) /\ Len(s) = k
      /\ \A i \in 1 .. k : s[i] = Wrap(e + i - 1)
  BY <1>1, <1>2, SlotSeqFacts
<1>5. /\ t \in Seq(Slots) /\ Len(t) = k + 1
      /\ \A i \in 1 .. k + 1 : t[i] = Wrap(e + i - 1)
  BY <1>1, <1>3, SlotSeqFacts
<1>6. PICK n : n = Wrap(e + k)
  OBVIOUS
<1>7. n \in Slots /\ n = Wrap(e + (k + 1) - 1)
  BY <1>1, <1>6 DEF Wrap, Slots
<1>8. PICK u : u = Append(s, n)
  OBVIOUS
<1>9. /\ u \in Seq(Slots) /\ Len(u) = k + 1 /\ u[k + 1] = n
      /\ \A i \in 1 .. k : u[i] = s[i]
  BY <1>1, <1>4, <1>7, <1>8, AppendProperties
<1>10. \A i \in 1 .. k + 1 : u[i] = t[i]
  <2> SUFFICES ASSUME NEW i \in 1 .. k + 1 PROVE u[i] = t[i]
    OBVIOUS
  <2>1. CASE i = k + 1
    BY <2>1, <1>1, <1>5, <1>7, <1>9
  <2>2. CASE i \in 1 .. k
    BY <2>2, <1>1, <1>4, <1>5, <1>9
  <2> QED
    BY <2>1, <2>2, <1>1
<1>11. u = t
  BY <1>1, <1>5, <1>9, <1>10, SeqEqual
<1> QED
  BY <1>2, <1>3, <1>6, <1>8, <1>11

\* What the refinement mapping takes modulo the ring.
LEMMA RingArithmetic ==
  ASSUME NEW e \in Slots, NEW n \in Slots
  PROVE  /\ (n - e) % MAX_JOBS = IF e <= n THEN n - e ELSE n - e + MAX_JOBS
         /\ (n - 1) % MAX_JOBS = IF n = 0 THEN MAX_JOBS - 1 ELSE n - 1
<1>1. /\ MAX_JOBS \in Nat /\ MAX_JOBS >= 2 /\ e \in 0 .. MAX_JOBS - 1
      /\ n \in 0 .. MAX_JOBS - 1
  BY SizeAssumption DEF Slots
<1>2. CASE e <= n
  BY <1>1, <1>2, ModFacts
<1>3. CASE n < e
  BY <1>1, <1>3, ModFacts
<1>4. (n - 1) % MAX_JOBS = IF n = 0 THEN MAX_JOBS - 1 ELSE n - 1
  <2>1. CASE n = 0
    BY <1>1, <2>1, ModFacts
  <2>2. CASE n # 0
    BY <1>1, <2>2, ModFacts
  <2> QED
    BY <2>1, <2>2
<1> QED
  BY <1>1, <1>2, <1>3, <1>4

-----------------------------------------------------------------------------
(***************************************************************************)
(* Steps.                                                                  *)
(***************************************************************************)
Completing == call.pc \in {"complete", "resubmit_flushed"}

\* The queue and its length, outside complete_job of a full ring.
LEMMA QueueFacts ==
  ASSUME TypeOK, RingShape, CallShape
  PROVE  /\ earliest_job = NULL => Queue = <<>>
         /\ earliest_job # NULL =>
              \E e \in Slots, n \in Slots, k \in 1 .. MAX_JOBS - 1 :
                /\ e = earliest_job /\ n = next_job /\ k = QueueLen
                /\ Queue = SlotSeq(e, k)
                /\ e # n => n = Wrap(e + k)
                /\ e = n <=> Completing /\ call.op = "submit"
                /\ e = n => k = MAX_JOBS - 1
                /\ Adv(e) = n => k = 1
<1>1. CASE earliest_job = NULL
  BY <1>1, SlotSeqEmpty DEF Queue, QueueLen, NULL, Slots
<1>2. CASE earliest_job # NULL
  <2>1. PICK e \in Slots, n \in Slots : e = earliest_job /\ n = next_job
    BY <1>2 DEF TypeOK
  <2>2. /\ MAX_JOBS \in Nat /\ MAX_JOBS >= 2 /\ e \in 0 .. MAX_JOBS - 1
        /\ n \in 0 .. MAX_JOBS - 1 /\ e # NULL
    BY <2>1, <1>2, SizeAssumption DEF Slots
  <2>3. e = n <=> Completing /\ call.op = "submit"
    BY <2>1 DEF RingShape, Completing
  <2>4. CASE e = n
    <3>1. QueueLen = MAX_JOBS - 1
      BY <2>1, <2>2, <2>3, <2>4 DEF QueueLen, Completing
    <3>2. Adv(e) # n
      BY <2>4, AdvFacts
    <3> QED
      BY <1>2, <2>1, <2>2, <2>3, <2>4, <3>1, <3>2 DEF Queue
  <2>5. CASE e # n
    <3>1. QueueLen = (n - e) % MAX_JOBS
      BY <2>1, <2>2, <2>3, <2>5 DEF QueueLen, Completing
    <3>2. PICK k : k = QueueLen
      OBVIOUS
    <3>3. k = IF e <= n THEN n - e ELSE n - e + MAX_JOBS
      BY <3>1, <3>2, RingArithmetic
    <3>4. k \in 1 .. MAX_JOBS - 1 /\ n = Wrap(e + k)
      BY <2>2, <2>5, <3>3 DEF Wrap
    <3>5. Adv(e) = n => k = 1
      BY <2>2, <2>5, <3>3 DEF Adv
    <3> QED
      BY <1>2, <2>1, <2>3, <2>5, <3>2, <3>4, <3>5 DEF Queue
  <2> QED
    BY <2>4, <2>5
<1> QED
  BY <1>1, <1>2

\* The length of the queue after a step that leaves complete_job or is outside it.
LEMMA NextQueue ==
  ASSUME NEW e \in Slots, NEW n \in Slots, NEW k \in 0 .. MAX_JOBS - 1,
         next_job' = n, ~(call'.op = "submit" /\ Completing'),
         \/ k = 0 /\ earliest_job' = NULL
         \/ k # 0 /\ earliest_job' = e /\ n = Wrap(e + k)
  PROVE  Queue' = SlotSeq(e, k)
<1>1. /\ MAX_JOBS \in Nat /\ MAX_JOBS >= 2 /\ e \in 0 .. MAX_JOBS - 1
      /\ n \in 0 .. MAX_JOBS - 1 /\ e # NULL /\ k \in Int /\ 0 <= k /\ k < MAX_JOBS
  BY SizeAssumption DEF Slots, NULL
<1>2. CASE earliest_job' = NULL
  <2>1. QueueLen' = 0
    BY <1>2 DEF QueueLen
  <2>2. Queue' = SlotSeq(earliest_job', 0)
    BY <2>1 DEF Queue, SlotSeq
  <2>3. k = 0
    BY <1>1, <1>2
  <2> QED
    BY <2>2, <2>3, SlotSeqEmpty
<1>3. CASE earliest_job' = e /\ n = Wrap(e + k) /\ k # 0
  <2>1. QueueLen' = (n - e) % MAX_JOBS
    BY <1>1, <1>3 DEF QueueLen, Completing
  <2>2. (n - e) % MAX_JOBS = k
    BY <1>1, <1>3, RingArithmetic DEF Wrap
  <2>3. QueueLen' = k
    BY <2>1, <2>2
  <2> QED
    BY <1>3, <2>3 DEF Queue, SlotSeq
<1> QED
  BY <1>2, <1>3

LEMMA DoingFacts ==
  ASSUME CallShape, TypeOK
  PROVE  /\ call.pc = "idle" => Doing = -1
         /\ Submitting => Doing = next_job /\ next_job \in Slots
         /\ call.op = "submit" /\ ~Submitting => Doing = (next_job - 1) % MAX_JOBS
         /\ call.op = "flush" => Doing = -2
BY DEF CallShape, TypeOK, Doing, SubmittedSlot

LEMMA IdleAfter ==
  ASSUME call' = Idle
  PROVE  Doing' = -1 /\ ~(call'.op = "submit" /\ Completing')
BY DEF Idle, Doing, Completing

\* The oldest job goes out.
LEMMA PopStep ==
  ASSUME NEW e \in Slots, NEW n \in Slots, NEW k \in 1 .. MAX_JOBS - 1,
         Queue = SlotSeq(e, k), e # n, n = Wrap(e + k), next_job' = n, call' = Idle,
         earliest_job' = IF Adv(e) = n THEN NULL ELSE Adv(e)
  PROVE  Queue' = Tail(Queue) /\ Head(Queue) = e /\ Queue # <<>>
<1>1. /\ MAX_JOBS \in Nat /\ MAX_JOBS >= 2 /\ e \in 0 .. MAX_JOBS - 1
      /\ n \in 0 .. MAX_JOBS - 1 /\ Adv(e) \in Slots
      /\ k \in 1 .. MAX_JOBS /\ k - 1 \in 0 .. MAX_JOBS - 1
  BY SizeAssumption, AdvFacts DEF Slots
<1>2. Adv(e) = n <=> k - 1 = 0
  BY <1>1 DEF Wrap, Adv
<1>3. n = Wrap(Adv(e) + (k - 1))
  BY <1>1 DEF Wrap, Adv
<1>4. Queue' = SlotSeq(Adv(e), k - 1)
  BY <1>1, <1>2, <1>3, IdleAfter, NextQueue
<1> QED
  BY <1>1, <1>4, SlotSeqPop

\* submit_job_and_check on an empty ring.
LEMMA RingEmptyStep ==
  ASSUME InductiveInv, RingEmpty
  PROVE  Fifo!Next
<1>1. TypeOK /\ CallShape /\ RingShape
  BY DEF InductiveInv
<1>2. PICK n \in Slots : n = next_job
  BY <1>1 DEF TypeOK
<1>3. Doing = n /\ Queue = <<>> /\ Doing' = -1 /\ Outstanding = {n}
  BY <1>1, <1>2, DoingFacts, QueueFacts, IdleAfter
  DEF RingEmpty, Submitting, Return, Outstanding, Window
<1>4. /\ MAX_JOBS \in Nat /\ MAX_JOBS >= 2 /\ n \in 0 .. MAX_JOBS - 1
      /\ Adv(n) \in Slots /\ 0 \in 0 .. MAX_JOBS - 1 /\ 1 \in 0 .. MAX_JOBS - 1
      /\ 1 \in 1 .. MAX_JOBS /\ 1 \in 0 .. MAX_JOBS
      /\ Wrap(n + 0) = n /\ Adv(n) = Wrap(n + 1)
  BY SizeAssumption, AdvFacts DEF Slots, Wrap, Adv
<1>5. PICK q : q = Append(Queue, Doing)
  OBVIOUS
<1>6. q = SlotSeq(n, 1)
  <2>1. Append(SlotSeq(n, 0), Wrap(n + 0)) = SlotSeq(n, 0 + 1)
    BY <1>4, SlotSeqAppend
  <2> QED
    BY <2>1, <1>3, <1>4, <1>5, SlotSeqEmpty
<1>7. CASE call.job = NULL
  <2>1. call' = Idle /\ next_job' = Adv(n) /\ earliest_job' = n /\ ret' = -1
    BY <1>2, <1>7 DEF RingEmpty, Return, NULL
  <2>2. PICK k \in 0 .. MAX_JOBS - 1 : k = 1 /\ k # 0 /\ k \in 0 .. MAX_JOBS
    BY <1>4
  <2>3. Queue' = SlotSeq(n, k)
    BY <1>4, <2>1, <2>2, IdleAfter, NextQueue
  <2>4. Len(SlotSeq(n, k)) = k
    BY <2>2, SlotSeqFacts
  <2>5. q = SlotSeq(n, k)
    BY <1>6, <2>2
  <2>6. Len(q) = k /\ k <= MAX_JOBS - 1
    BY <1>4, <2>4, <2>5
  <2> QED
    BY <1>3, <1>5, <2>1, <2>3, <2>5, <2>6, FifoEndSubmit
<1>8. CASE call.job # NULL
  <2>1. call.job = n
    BY <1>1, <1>3, <1>8 DEF CallShape
  <2>2. Queue' = SlotSeq(Adv(n), 0)
    BY <1>2, <1>4, <1>8, IdleAfter, NextQueue DEF RingEmpty, Return
  <2>3. Tail(q) = SlotSeq(Adv(n), 1 - 1) /\ Head(q) = n
    BY <1>4, <1>6, SlotSeqPop
  <2>4. Queue' = Tail(q) /\ ret' = Head(q)
    BY <2>1, <2>2, <2>3 DEF RingEmpty, Return
  <2> QED
    BY <1>3, <1>5, <2>4, FifoEndSubmit
<1> QED
  BY <1>7, <1>8

\* submit_job_and_check with a slot to spare.
LEMMA RingNotFullStep ==
  ASSUME InductiveInv, RingNotFull
  PROVE  Fifo!Next
<1>1. TypeOK /\ CallShape /\ RingShape /\ Submitting
  BY DEF InductiveInv, RingNotFull, Submitting
<1>2. PICK e \in Slots, n \in Slots, k \in 1 .. MAX_JOBS - 1 :
        /\ e = earliest_job /\ n = next_job /\ Queue = SlotSeq(e, k)
        /\ e # n /\ n = Wrap(e + k)
  BY <1>1, QueueFacts DEF RingNotFull, Completing, Submitting
<1>3. Doing = n /\ Doing' = -1 /\ e # Adv(n)
  BY <1>1, <1>2, DoingFacts, IdleAfter DEF RingNotFull, Return
<1>4. /\ MAX_JOBS \in Nat /\ MAX_JOBS >= 2 /\ e \in 0 .. MAX_JOBS - 1
      /\ n \in 0 .. MAX_JOBS - 1 /\ Adv(e) \in Slots /\ Adv(n) \in Slots
      /\ k \in 0 .. MAX_JOBS - 1 /\ k # 0 /\ k + 1 \in 1 .. MAX_JOBS
      /\ (k + 1) - 1 = k
  BY SizeAssumption, AdvFacts DEF Slots
<1>5. /\ k + 1 \in 0 .. MAX_JOBS - 1 /\ k + 1 \in 0 .. MAX_JOBS /\ k + 1 # 0
      /\ Adv(n) = Wrap(e + (k + 1)) /\ Adv(n) = Wrap(Adv(e) + k)
  BY <1>2, <1>3, <1>4 DEF Wrap, Adv
<1>6. PICK q : q = Append(Queue, Doing)
  OBVIOUS
<1>7. q = SlotSeq(e, k + 1)
  BY <1>2, <1>3, <1>4, <1>6, SlotSeqAppend
<1>8. CASE Done(e)
  <2>1. Queue' = SlotSeq(Adv(e), k)
    BY <1>2, <1>4, <1>5, <1>8, IdleAfter, NextQueue DEF RingNotFull, Return
  <2>2. Tail(q) = SlotSeq(Adv(e), k) /\ Head(q) = e
    BY <1>4, <1>7, SlotSeqPop
  <2> QED
    BY <1>2, <1>3, <1>6, <1>8, <2>1, <2>2, FifoEndSubmit DEF RingNotFull, Return
<1>9. CASE ~Done(e)
  <2>1. Queue' = SlotSeq(e, k + 1)
    BY <1>2, <1>4, <1>5, <1>9, IdleAfter, NextQueue DEF RingNotFull, Return
  <2>2. Len(q) = k + 1 /\ k + 1 <= MAX_JOBS - 1
    BY <1>5, <1>7, SlotSeqFacts
  <2> QED
    BY <1>2, <1>3, <1>6, <1>7, <1>9, <2>1, <2>2, FifoEndSubmit DEF RingNotFull, Return, NULL
<1> QED
  BY <1>8, <1>9

\* submit_job_and_check when the ring gets full: the call goes on.
LEMMA RingFullStep ==
  ASSUME InductiveInv, RingFull
  PROVE  UNCHANGED Fifo!fifoVars
<1>1. TypeOK /\ CallShape /\ RingShape /\ Submitting
  BY DEF InductiveInv, RingFull, Submitting
<1>2. PICK e \in Slots, n \in Slots, k \in 1 .. MAX_JOBS - 1 :
        /\ e = earliest_job /\ n = next_job /\ k = QueueLen /\ Queue = SlotSeq(e, k)
        /\ e # n /\ n = Wrap(e + k)
  BY <1>1, QueueFacts DEF RingFull, Completing, Submitting
<1>3. /\ MAX_JOBS \in Nat /\ MAX_JOBS >= 2 /\ e \in 0 .. MAX_JOBS - 1
      /\ n \in 0 .. MAX_JOBS - 1 /\ e = Adv(n) /\ e # NULL
  BY <1>2, SizeAssumption DEF Slots, RingFull, NULL
<1>4. k = MAX_JOBS - 1
  BY <1>2, <1>3 DEF Wrap, Adv
<1>5. call'.op = "submit" /\ call'.pc = "complete" /\ earliest_job' = e /\ next_job' = e
  BY <1>1, <1>2, <1>3 DEF RingFull, Goto, CallShape, TypeOK
<1>6. QueueLen' = MAX_JOBS - 1
  BY <1>3, <1>5 DEF QueueLen
<1>7. Queue' = Queue
  BY <1>2, <1>4, <1>5, <1>6 DEF Queue, SlotSeq
<1>8. Doing' = (e - 1) % MAX_JOBS
  BY <1>5 DEF Doing, SubmittedSlot, Submitting
<1>9. (e - 1) % MAX_JOBS = n
  BY <1>3, RingArithmetic DEF Adv
<1>10. Doing' = Doing /\ ret' = ret
  BY <1>1, <1>2, <1>8, <1>9, DoingFacts DEF RingFull
<1> QED
  BY <1>7, <1>10, FifoStutter

\* SUBMIT_JOB on a full ring and FLUSH_JOB, after complete_job.
LEMMA CompleteDoneStep ==
  ASSUME InductiveInv, CompleteDone
  PROVE  Fifo!Next
<1>1. TypeOK /\ CallShape /\ RingShape /\ Completing /\ ~Submitting
  BY DEF InductiveInv, CompleteDone, Completing, Submitting
<1>2. earliest_job # NULL
  BY <1>1 DEF RingShape, Completing
<1>3. PICK e \in Slots, n \in Slots, k \in 1 .. MAX_JOBS - 1 :
        /\ e = earliest_job /\ n = next_job /\ Queue = SlotSeq(e, k)
        /\ e # n => n = Wrap(e + k)
        /\ e = n <=> call.op = "submit"
        /\ e = n => k = MAX_JOBS - 1
  BY <1>1, <1>2, QueueFacts
<1>4. /\ Doing' = -1 /\ call' = Idle /\ next_job' = n /\ ret' = e
      /\ call.op \in {"submit", "flush"}
  BY <1>1, <1>3, IdleAfter DEF CompleteDone, Return, CallShape, TypeOK
<1>5. CASE call.op = "flush"
  <2>1. earliest_job' = IF Adv(e) = n THEN NULL ELSE Adv(e)
    BY <1>3, <1>5 DEF CompleteDone
  <2>2. Doing = -2 /\ e # n
    BY <1>1, <1>3, <1>5, DoingFacts
  <2>3. Queue' = Tail(Queue) /\ Head(Queue) = e
    BY <1>3, <1>4, <2>1, <2>2, PopStep
  <2> QED
    BY <1>4, <2>2, <2>3, FifoEndFlush
<1>6. CASE call.op = "submit"
  <2>1. /\ MAX_JOBS \in Nat /\ MAX_JOBS >= 2 /\ e \in 0 .. MAX_JOBS - 1
        /\ Adv(e) \in Slots /\ MAX_JOBS - 1 \in 0 .. MAX_JOBS - 1
        /\ MAX_JOBS \in 1 .. MAX_JOBS /\ (MAX_JOBS - 1) + 1 = MAX_JOBS
        /\ MAX_JOBS - 1 # 0
        /\ e = n /\ k = MAX_JOBS - 1
    BY <1>3, <1>6, SizeAssumption, AdvFacts DEF Slots
  <2>2. Doing = (n - 1) % MAX_JOBS
    BY <1>1, <1>3, <1>6, DoingFacts
  <2>3. Doing = Wrap(e + (MAX_JOBS - 1)) /\ Doing \in Slots
    BY <2>1, <2>2, RingArithmetic DEF Wrap, Slots
  <2>4. PICK q : q = Append(Queue, Doing)
    OBVIOUS
  <2>5. q = SlotSeq(e, MAX_JOBS)
    BY <1>3, <2>1, <2>3, <2>4, SlotSeqAppend
  <2>6. Tail(q) = SlotSeq(Adv(e), MAX_JOBS - 1) /\ Head(q) = e
    BY <2>1, <2>5, SlotSeqPop
  <2>7. earliest_job' = Adv(e) /\ n = Wrap(Adv(e) + (MAX_JOBS - 1))
    BY <1>3, <1>6, <2>1 DEF CompleteDone, Wrap, Adv
  <2>8. Queue' = SlotSeq(Adv(e), MAX_JOBS - 1)
    BY <1>4, <2>1, <2>7, IdleAfter, NextQueue
  <2> QED
    BY <1>4, <2>3, <2>4, <2>6, <2>8, FifoEndSubmit
<1> QED
  BY <1>4, <1>5, <1>6

LEMMA GetCompletedStep ==
  ASSUME InductiveInv, GetCompletedJob
  PROVE  Fifo!Next
<1>1. TypeOK /\ CallShape /\ RingShape
  BY DEF InductiveInv
<1>2. Doing = -1 /\ Doing' = -1 /\ call.op = "none" /\ call' = Idle
  BY <1>1, DoingFacts, IdleAfter DEF GetCompletedJob, Return, CallShape
<1>3. CASE earliest_job # NULL /\ Done(earliest_job)
  <2>1. PICK e \in Slots, n \in Slots, k \in 1 .. MAX_JOBS - 1 :
          /\ e = earliest_job /\ n = next_job /\ Queue = SlotSeq(e, k)
          /\ e # n /\ n = Wrap(e + k)
    BY <1>1, <1>2, <1>3, QueueFacts
  <2>2. /\ next_job' = n /\ ret' = e
        /\ earliest_job' = IF Adv(e) = n THEN NULL ELSE Adv(e)
    BY <1>3, <2>1 DEF GetCompletedJob, Return
  <2>3. Queue' = Tail(Queue) /\ Head(Queue) = e /\ Queue # <<>>
    BY <1>2, <2>1, <2>2, PopStep
  <2> QED
    BY <1>2, <2>2, <2>3, FifoGetCompleted
<1>4. CASE ~(earliest_job # NULL /\ Done(earliest_job))
  <2>1. UNCHANGED <<earliest_job, next_job>> /\ ret' = -1
    BY <1>4 DEF GetCompletedJob, Return, NULL
  <2>2. QueueLen' = QueueLen
    BY <1>2, <2>1 DEF QueueLen, Idle
  <2>3. Queue' = Queue
    BY <2>1, <2>2 DEF Queue, SlotSeq
  <2> QED
    BY <1>2, <2>1, <2>3, FifoGetCompleted
<1> QED
  BY <1>3, <1>4

-----------------------------------------------------------------------------
(***************************************************************************)
(* The steps the queue does not see.                                       *)
(***************************************************************************)
LEMMA SameQueue ==
  ASSUME UNCHANGED <<earliest_job, next_job, ret>>, call'.op = call.op,
         Submitting' <=> Submitting, Completing' <=> Completing
  PROVE  UNCHANGED Fifo!fifoVars
<1>1. SubmittedSlot' = SubmittedSlot
  BY DEF SubmittedSlot
<1>2. Doing' = Doing
  BY <1>1 DEF Doing
<1>3. QueueLen' = QueueLen
  BY DEF QueueLen, Completing
<1>4. Queue' = Queue
  BY <1>3 DEF Queue, SlotSeq
<1> QED
  BY <1>2, <1>4, FifoStutter

LEMMA SubmitStageGoto ==
  ASSUME NEW j, NEW stage, NEW pc, SubmitStage(j, stage, pc)
  PROVE  \E x : Goto(pc, x)
BY DEF SubmitStage, RunNow, RunAead, RunCustom, LaneSubmit, Release

LEMMA FlushStageGoto ==
  ASSUME NEW j, NEW stage, NEW pc, FlushStage(j, stage, pc)
  PROVE  \E x : Goto(pc, x)
BY DEF FlushStage, RunNow, RunCustom, LaneFlush, Release

LEMMA GotoFacts ==
  ASSUME TypeOK, NEW pc, NEW x, Goto(pc, x)
  PROVE  call'.op = call.op /\ call'.pc = pc
BY DEF TypeOK, Goto

LEMMA StageIsStutter ==
  ASSUME InductiveInv, SubmitNewJob \/ ResubmitNew \/ ResubmitFlushed \/ CompleteJob
  PROVE  UNCHANGED Fifo!fifoVars
<1>1. TypeOK
  BY DEF InductiveInv
<1>2. UNCHANGED <<earliest_job, next_job, ret>>
  BY DEF SubmitNewJob, ResubmitNew, ResubmitFlushed, Resubmit, CompleteJob
<1>3. CASE SubmitNewJob
  <2>1. call.pc = "new" /\ call'.pc = "resubmit" /\ call'.op = call.op
    BY <1>1, <1>3, SubmitStageGoto, GotoFacts DEF SubmitNewJob
  <2> QED
    BY <1>2, <2>1, SameQueue DEF Submitting, Completing
<1>4. CASE ResubmitNew
  <2>1. /\ call.pc = "resubmit" /\ call'.pc \in {"resubmit", "ring"}
        /\ call'.op = call.op
    BY <1>1, <1>4, SubmitStageGoto, GotoFacts DEF ResubmitNew, Resubmit
  <2> QED
    BY <1>2, <2>1, SameQueue DEF Submitting, Completing
<1>5. CASE ResubmitFlushed
  <2>1. /\ call.pc = "resubmit_flushed" /\ call'.pc \in {"resubmit_flushed", "complete"}
        /\ call'.op = call.op
    BY <1>1, <1>5, SubmitStageGoto, GotoFacts DEF ResubmitFlushed, Resubmit
  <2> QED
    BY <1>2, <2>1, SameQueue DEF Submitting, Completing
<1>6. CASE CompleteJob
  <2>1. call.pc = "complete" /\ call'.pc = "resubmit_flushed" /\ call'.op = call.op
    BY <1>1, <1>6, FlushStageGoto, GotoFacts DEF CompleteJob
  <2> QED
    BY <1>2, <2>1, SameQueue DEF Submitting, Completing
<1> QED
  BY <1>3, <1>4, <1>5, <1>6

\* A submit begins: the slot it uses is none of the queue.
LEMMA BeginIsBegin ==
  ASSUME InductiveInv, NEW k \in Kinds, SubmitValid(k) \/ SubmitInvalid(k)
  PROVE  Fifo!Next
<1>1. TypeOK /\ CallShape /\ RingShape
  BY DEF InductiveInv
<1>2. PICK n \in Slots : n = next_job
  BY <1>1 DEF TypeOK
<1>3. /\ call.pc = "idle" /\ call.op = "none" /\ ret' = -1
      /\ call'.op = "submit" /\ call'.pc \in {"new", "ring"}
      /\ UNCHANGED <<earliest_job, next_job>>
  BY <1>1 DEF SubmitValid, SubmitInvalid, Begin, CallShape, NULL
<1>4. Doing = -1 /\ Doing' = n
  BY <1>1, <1>2, <1>3, DoingFacts DEF Doing, SubmittedSlot, Submitting
<1>5. QueueLen' = QueueLen
  BY <1>3 DEF QueueLen
<1>6. Queue' = Queue
  BY <1>3, <1>5 DEF Queue, SlotSeq
<1>7. \A i \in DOMAIN Queue : Queue[i] # n
  <2>1. CASE earliest_job = NULL
    <3>1. Queue = <<>>
      BY <1>1, <2>1, QueueFacts
    <3> QED
      BY <3>1
  <2>2. CASE earliest_job # NULL
    <3>1. PICK e \in Slots, c \in 1 .. MAX_JOBS - 1 :
            Queue = SlotSeq(e, c) /\ e # n /\ n = Wrap(e + c)
      BY <1>1, <1>2, <1>3, <2>2, QueueFacts
    <3>2. /\ MAX_JOBS \in Nat /\ MAX_JOBS >= 2 /\ e \in 0 .. MAX_JOBS - 1
          /\ c \in 0 .. MAX_JOBS /\ c <= MAX_JOBS - 1
      BY SizeAssumption DEF Slots
    <3>3. /\ Queue \in Seq(Slots) /\ Len(Queue) = c
          /\ \A i \in 1 .. c : Queue[i] = Wrap(e + i - 1)
      BY <3>1, <3>2, SlotSeqFacts
    <3>4. DOMAIN Queue = 1 .. c
      BY <3>3
    <3>5. \A i \in 1 .. c : Wrap(e + i - 1) # Wrap(e + c)
      BY <3>2 DEF Wrap
    <3> QED
      BY <3>1, <3>3, <3>4, <3>5
  <2> QED
    BY <2>1, <2>2
<1> QED
  BY <1>3, <1>4, <1>6, <1>7, FifoBeginSubmit

\* FLUSH_JOB begins, or finds the ring empty.
LEMMA FlushIsBegin ==
  ASSUME InductiveInv, FlushEmpty \/ FlushJob
  PROVE  Fifo!Next
<1>1. TypeOK /\ CallShape /\ RingShape
  BY DEF InductiveInv
<1>2. /\ call.pc = "idle" /\ call.op = "none" /\ Doing = -1 /\ ret' = -1
      /\ UNCHANGED <<earliest_job, next_job>>
  BY <1>1, DoingFacts DEF FlushEmpty, FlushJob, Return, CallShape, NULL
<1>3. call'.op \in {"none", "flush"}
  BY DEF FlushEmpty, FlushJob, Return, Idle
<1>4. QueueLen' = QueueLen
  BY <1>2, <1>3 DEF QueueLen
<1>5. Queue' = Queue
  BY <1>2, <1>4 DEF Queue, SlotSeq
<1>6. CASE FlushEmpty
  <2>1. Queue = <<>> /\ Doing' = -1
    BY <1>1, <1>6, QueueFacts, IdleAfter DEF FlushEmpty, Return
  <2> QED
    BY <1>2, <1>5, <2>1, FifoFlushNone
<1>7. CASE FlushJob
  <2>1. PICK e \in Slots, k \in 1 .. MAX_JOBS - 1 : Queue = SlotSeq(e, k)
    BY <1>1, <1>7, QueueFacts DEF FlushJob
  <2>2. k \in 1 .. MAX_JOBS
    BY SizeAssumption
  <2>3. Queue # <<>>
    BY <2>1, <2>2, SlotSeqPop
  <2>4. Doing' = -2
    BY <1>7 DEF FlushJob, Doing
  <2> QED
    BY <1>2, <1>5, <2>3, <2>4, FifoBeginFlush
<1> QED
  BY <1>6, <1>7

LEMMA InitIsInit == Init => Fifo!Init
<1> SUFFICES ASSUME Init PROVE Fifo!Init
  OBVIOUS
<1>1. earliest_job = NULL /\ call = Idle /\ ret = -1
  BY DEF Init, NULL
<1>2. Queue = <<>>
  <2>1. QueueLen = 0
    BY <1>1 DEF QueueLen
  <2> QED
    BY <2>1, SlotSeqEmpty DEF Queue
<1>3. Doing = -1
  BY <1>1 DEF Doing, Idle
<1> QED
  BY <1>1, <1>2, <1>3 DEF Fifo!Init, Fifo!Nothing, Fifo!NoJob, Queue, SlotSeq, Doing

\* The job manager implements a first-in first-out queue of jobs: every job comes
\* back once, in the order of submission, and flush_job gives a job as long as
\* there is one (submit_job_and_check, FLUSH_JOB, GET_COMPLETED_JOB).
THEOREM JobsAreReturnedInOrder ==
  ASSUME CustomNotFirst
  PROVE  Spec => ImplementsFifo
<1>1. Init => Fifo!Init
  BY InitIsInit
<1>2. ASSUME InductiveInv, [Next]_vars
      PROVE  [Fifo!Next]_Fifo!fifoVars
  <2>1. ASSUME NEW k \in Kinds, SubmitValid(k) \/ SubmitInvalid(k)
        PROVE  Fifo!Next
    BY <1>2, <2>1, BeginIsBegin
  <2>2. CASE FlushEmpty \/ FlushJob
    BY <1>2, <2>2, FlushIsBegin
  <2>3. CASE GetCompletedJob
    BY <1>2, <2>3, GetCompletedStep
  <2>4. CASE SubmitNewJob \/ ResubmitNew \/ ResubmitFlushed \/ CompleteJob
    BY <1>2, <2>4, StageIsStutter
  <2>5. CASE RingEmpty
    BY <1>2, <2>5, RingEmptyStep
  <2>6. CASE RingNotFull
    BY <1>2, <2>6, RingNotFullStep
  <2>7. CASE RingFull
    BY <1>2, <2>7, RingFullStep
  <2>8. CASE CompleteDone
    BY <1>2, <2>8, CompleteDoneStep
  <2>9. CASE UNCHANGED vars
    <3>1. UNCHANGED Fifo!fifoVars
      BY <2>9, SameQueue DEF vars, Submitting, Completing
    <3> QED
      BY <3>1
  <2> QED
    BY <1>2, <2>1, <2>2, <2>3, <2>4, <2>5, <2>6, <2>7, <2>8, <2>9 DEF Next, InCall
<1>3. InductiveInv /\ [Next]_vars => [Fifo!Next]_Fifo!fifoVars
  BY <1>2
<1> QED
  BY <1>1, <1>3, Inductive, PTL DEF Spec, ImplementsFifo, Fifo!Spec

=============================================================================
