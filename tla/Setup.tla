------------------------------- MODULE Setup -------------------------------
(***************************************************************************)
(* Managers from alloc_mb_mgr to free_mb_mgr (lib/alloc.c), their          *)
(* initialisation for an architecture (lib/mb_mgr_auto.c and the five init *)
(* functions), and the error status (lib/error.c).                         *)
(*                                                                         *)
(* Each thread has a manager of its own, as ReleaseNotes.txt asks; the     *)
(* threads still share imb_errno and the function pointers that the SSE    *)
(* and the AVX512 file select.  A step has at most one write to what is    *)
(* shared.  Of the OOO managers, their memory, lanes and job_in_lane are   *)
(* kept; what a job does there is in AesLanes and HmacLanes.               *)
(*                                                                         *)
(* A definition named X_Defect is X with a slip; no specification uses it. *)
(***************************************************************************)
EXTENDS SetupTables, Sequences

CONSTANTS
  Threads,
  Cpus,      \* the CPUs considered
  Workers,   \* the threads that submit jobs
  UsedOoos,  \* the OOO managers that jobs are put in
  Lanes      \* the lanes jobs get there, two of those that every manager has

ASSUME SetupAssumption ==
  /\ Workers \subseteq Threads
  /\ UsedOoos \subseteq Ooos
  /\ \A cpu \in Cpus : cpu.leaf \in Nat /\ cpu.bits \subseteq Features
  \* detect_avx does not ask for PCLMULQDQ, which the AVX code for GCM and CRC
  \* is made of: every CPU with AVX has it
  /\ \A cpu \in Cpus : "AVX" \in cpu.bits => {"PCLMULQDQ", "SSE4_2"} \subseteq cpu.bits

ENOMEM == 12
ENODEV == 19
NULL_MBMGR == 2001

VARIABLES
  cpu,
  pc,         \* of a thread: "idle", or where it is in a call
  mgr,        \* of a thread: its IMB_MGR
  heap,       \* of a thread: the blocks it has allocated and not freed
  selected,   \* of an architecture: the pointers selected, for all threads
  imb_errno,  \* the global one
  detected    \* of a thread: the IMB_ARCH from init_mb_mgr_auto, "-" if another
              \* init came after it

vars == <<cpu, pc, mgr, heap, selected, imb_errno, detected>>

None == "none"

\* ptrs: the OOO managers allocated; road: those with the road block; arch: whose
\* handlers it has; used: the lanes taken; job_in_lane: those that point to a job;
\* twice: those given back although they were not taken, so that the stack of
\* unused lanes holds them twice
NoMgr ==
  [live |-> FALSE, flags |-> {}, features |-> {}, errno |-> 0, ptrs |-> {}, road |-> {},
   arch |-> None, used |-> [o \in UsedOoos |-> {}], job_in_lane |-> [o \in UsedOoos |-> {}],
   twice |-> [o \in UsedOoos |-> {}]]

Init ==
  /\ cpu \in Cpus
  /\ pc = [t \in Threads |-> "idle"]
  /\ mgr = [t \in Threads |-> NoMgr]
  /\ heap = [t \in Threads |-> {}]
  /\ selected = [a \in Archs |-> {}]
  /\ imb_errno = 0
  /\ detected = [t \in Threads |-> "-"]

---------------------------------------------------------------------------
(* Error status *)

\* m: the manager of t with what else the step changes in it
imb_set_errno(t, m, errnum) ==
  /\ mgr' = [mgr EXCEPT ![t] = [m EXCEPT !.errno = errnum]]
  /\ imb_errno' = errnum

\* With a NULL manager
imb_set_errno_null(errnum) ==
  /\ imb_errno' = errnum
  /\ UNCHANGED mgr

\* The global status asked first
imb_get_errno_Defect(m) == IF imb_errno # 0 THEN imb_errno ELSE m.errno

\* What imb_get_errno gives: the status of the manager, or with NULL the global
imb_get_errno(m) == IF m.live THEN m.errno ELSE imb_errno

---------------------------------------------------------------------------
(* Allocation *)

\* alloc_mb_mgr: the IMB_MGR itself
AllocMgr(t) ==
  /\ pc[t] = "idle" /\ ~mgr[t].live
  /\ \E flags \in SUBSET Flags :
       imb_set_errno(t, [NoMgr EXCEPT !.live = TRUE, !.flags = flags,
                           !.features = cpu_feature_adjust(flags, cpu_feature_detect(cpu))], 0)
  /\ heap' = [heap EXCEPT ![t] = @ \cup {"IMB_MGR"}]
  /\ pc' = [pc EXCEPT ![t] = "alloc"]
  /\ UNCHANGED <<cpu, selected, detected>>

AllocMgrFails(t) ==
  /\ pc[t] = "idle" /\ ~mgr[t].live
  /\ imb_set_errno_null(ENOMEM)
  /\ UNCHANGED <<cpu, pc, heap, selected, detected>>

set_ooo_mgr_road_block(m) == [m EXCEPT !.road = m.ptrs]

\* All the OOO managers, in the order of AllocOrder
AllocOoos(t) ==
  /\ pc[t] = "alloc"
  /\ mgr' = [mgr EXCEPT ![t] = set_ooo_mgr_road_block([mgr[t] EXCEPT !.ptrs = Ooos])]
  /\ heap' = [heap EXCEPT ![t] = @ \cup Ooos]
  /\ pc' = [pc EXCEPT ![t] = "idle"]
  /\ UNCHANGED <<cpu, selected, imb_errno, detected>>

\* exit_fail that forgets the manager allocated last but one
FreedOnFailure_Defect(ptrs) == ptrs \ {"zuc_eia3"}

\* The labels of exit_fail: free(NULL) does nothing
FreedOnFailure(ptrs) == ptrs

\* The k-th allocation fails: exit_fail frees what the fields point at.
AllocOooFails(t) ==
  /\ pc[t] = "alloc"
  /\ \E k \in DOMAIN AllocOrder :
       LET ptrs == {AllocOrder[i] : i \in 1 .. (k - 1)}
       IN  heap' = [heap EXCEPT ![t] = (@ \cup ptrs) \ (FreedOnFailure(ptrs) \cup {"IMB_MGR"})]
  /\ mgr' = [mgr EXCEPT ![t] = NoMgr]
  /\ imb_errno' = ENOMEM
  /\ pc' = [pc EXCEPT ![t] = "idle"]
  /\ UNCHANGED <<cpu, selected, detected>>

free_mb_mgr(t) ==
  /\ pc[t] = "idle" /\ mgr[t].live
  /\ heap' = [heap EXCEPT ![t] = @ \ (mgr[t].ptrs \cup {"IMB_MGR"})]
  /\ mgr' = [mgr EXCEPT ![t] = NoMgr]
  /\ detected' = [detected EXCEPT ![t] = "-"]
  /\ UNCHANGED <<cpu, pc, selected, imb_errno>>

---------------------------------------------------------------------------
(* Initialisation *)

init_mb_mgr_auto(t) ==
  /\ pc[t] = "idle" /\ mgr[t].live
  /\ imb_set_errno(t, mgr[t], 0)
  /\ pc' = [pc EXCEPT ![t] = "auto"]
  /\ detected' = [detected EXCEPT ![t] = "-"]
  /\ UNCHANGED <<cpu, heap, selected>>

\* The choice, and the call of its init function up to the errno there
ChooseArch(t) ==
  LET arch == ArchFor(mgr[t].features)
  IN  /\ pc[t] = "auto"
      /\ arch # None
      /\ imb_set_errno(t, mgr[t], 0)
      /\ pc' = [pc EXCEPT ![t] = arch]
      /\ detected' = [detected EXCEPT ![t] = arch]
      /\ UNCHANGED <<cpu, heap, selected>>

ChooseNone(t) ==
  /\ pc[t] = "auto"
  /\ ArchFor(mgr[t].features) = None
  /\ imb_set_errno(t, mgr[t], ENODEV)
  /\ pc' = [pc EXCEPT ![t] = "idle"]
  /\ detected' = [detected EXCEPT ![t] = None]
  /\ UNCHANGED <<cpu, heap, selected>>

\* One of the five called directly, for an architecture the CPU has
init_mb_mgr(t) ==
  /\ pc[t] = "idle" /\ mgr[t].live
  /\ \E arch \in Archs :
       /\ DetectMask[arch] \subseteq cpu_feature_detect(cpu)
       /\ pc' = [pc EXCEPT ![t] = arch]
  /\ imb_set_errno(t, mgr[t], 0)
  /\ detected' = [detected EXCEPT ![t] = "-"]
  /\ UNCHANGED <<cpu, heap, selected>>

init_mb_mgr_null(t) ==
  /\ pc[t] = "idle"
  /\ imb_set_errno_null(NULL_MBMGR)
  /\ UNCHANGED <<cpu, pc, heap, selected, detected>>

\* What the init function of an architecture leaves of the manager: no lane in
\* use, each of them on the stack once, and no job in a lane but where it does
\* not look.
Reset(m, arch, features) ==
  LET setUp == DOMAIN Initialised(arch, features)
  IN  [m EXCEPT !.features = features, !.arch = arch, !.road = @ \ Wipes(arch),
                !.used  = [o \in UsedOoos |-> IF o \in setUp THEN {} ELSE @[o]],
                !.twice = [o \in UsedOoos |-> IF o \in setUp THEN {} ELSE @[o]],
                !.job_in_lane = [o \in UsedOoos |-> IF o \in KeepsJobs(arch) THEN @[o] ELSE {}]]

\* The rest of the init function: features, fall-back, pointers, OOO managers,
\* handlers
InitFields(t) ==
  LET features == IF pc[t] = "noaesni" THEN mgr[t].features
                  ELSE cpu_feature_adjust(mgr[t].flags, cpu_feature_detect(cpu))
      arch     == ArchInit(pc[t], features)
  IN  /\ pc[t] \in Archs
      /\ mgr' = [mgr EXCEPT ![t] = Reset(mgr[t], arch, features)]
      /\ selected' = [selected EXCEPT ![arch] = @ \cup SelectedBy(arch, features)]
      /\ pc' = [pc EXCEPT ![t] = "idle"]
      /\ UNCHANGED <<cpu, heap, imb_errno, detected>>

---------------------------------------------------------------------------
(* Jobs *)

\* A submit or a flush of t comes to an OOO manager that its init set up.  Once a
\* lane is on the stack twice the count of free lanes is wrong too, and what the
\* manager does is not followed until the next init.
Reaches(t, o) ==
  /\ pc[t] = "idle" /\ mgr[t].arch # None
  /\ mgr[t].twice[o] = {}
  /\ o \in DOMAIN Initialised(mgr[t].arch, mgr[t].features)

\* A job is put in a free lane.
Queue(t, o, lane) ==
  /\ lane \notin mgr[t].used[o]
  /\ Reaches(t, o)
  /\ mgr' = [mgr EXCEPT ![t] = [mgr[t] EXCEPT !.used[o] = @ \cup {lane}, !.job_in_lane[o] = @ \cup {lane}]]
  /\ UNCHANGED <<cpu, pc, heap, selected, imb_errno, detected>>

\* The pointer left in the lane
GiveBack_Defect(m, o, lane) ==
  [m EXCEPT !.used[o] = @ \ {lane},
            !.twice[o] = IF lane \in m.used[o] THEN @ ELSE @ \cup {lane}]

\* The end of a submit or flush that has a job to give back: the lane goes on the
\* stack of unused lanes, its pointer is cleared.
GiveBack(m, o, lane) ==
  [m EXCEPT !.used[o] = @ \ {lane}, !.job_in_lane[o] = @ \ {lane},
            !.twice[o] = IF lane \in m.used[o] THEN @ ELSE @ \cup {lane}]

\* A submit or flush finds that some lane is taken, but takes any that has a job.
Return(t, o, lane) ==
  /\ mgr[t].used[o] # {}
  /\ lane \in mgr[t].job_in_lane[o]
  /\ Reaches(t, o)
  /\ mgr' = [mgr EXCEPT ![t] = GiveBack(mgr[t], o, lane)]
  /\ UNCHANGED <<cpu, pc, heap, selected, imb_errno, detected>>

Jobs(t) == \E o \in UsedOoos, lane \in Lanes : Queue(t, o, lane) \/ Return(t, o, lane)

Next ==
  \E t \in Threads :
    \/ AllocMgr(t) \/ AllocMgrFails(t) \/ AllocOoos(t) \/ AllocOooFails(t) \/ free_mb_mgr(t)
    \/ init_mb_mgr_auto(t) \/ ChooseArch(t) \/ ChooseNone(t)
    \/ init_mb_mgr(t) \/ init_mb_mgr_null(t) \/ InitFields(t)
    \/ t \in Workers /\ Jobs(t)

Spec == Init /\ [][Next]_vars

---------------------------------------------------------------------------
(* Properties *)

Statuses == {0, ENOMEM, ENODEV, NULL_MBMGR}

TypeOK ==
  /\ pc \in [Threads -> {"idle", "alloc", "auto"} \cup Archs]
  /\ imb_errno \in Statuses
  /\ detected \in [Threads -> Archs \cup {None, "-"}]
  /\ selected \in [Archs -> SUBSET Features]
  /\ \A t \in Threads :
       /\ mgr[t].live \in BOOLEAN /\ mgr[t].flags \subseteq Flags
       /\ mgr[t].features \subseteq Features /\ mgr[t].errno \in Statuses
       /\ mgr[t].arch \in Archs \cup {None}
       /\ mgr[t].road \subseteq mgr[t].ptrs
       /\ mgr[t].used \in [UsedOoos -> SUBSET Lanes]
       /\ mgr[t].job_in_lane \in [UsedOoos -> SUBSET Lanes]
       /\ mgr[t].twice \in [UsedOoos -> SUBSET Lanes]

Ready(t) == pc[t] = "idle" /\ mgr[t].arch # None

\* What an init wrote in the OOO managers is what the submit and flush code it
\* will be used with expects: as many lanes, and no word of lens in reach of the
\* search that was left unwritten or could be the least although no lane is there.
\* The code is chosen through pointers that managers of all threads share.
LanesMatchKernels ==
  \A t \in Threads : Ready(t) =>
    LET arch    == mgr[t].arch
        fresh   == Initialised(arch, mgr[t].features)
        kernels == Kernels(arch, selected[arch], mgr[t].features)
    IN  /\ DOMAIN kernels \subseteq DOMAIN fresh
        /\ \A o \in DOMAIN kernels :
             LET init == fresh[o]
                 used == kernels[o]
             IN  /\ init.lanes = used.lanes
                 /\ used.search \in used.lanes .. init.words
                 /\ used.search = used.lanes \/ used.masks \/ init.spare = "max"

\* The code a manager runs, by its own handlers and by the shared pointers, is
\* made of instructions that the CPU has and, for AESNI, that the flags allow.
KernelsRunOnCpu ==
  \A t \in Threads : Ready(t) =>
    LET needs == Needs(mgr[t].arch, mgr[t].features) \cup selected[mgr[t].arch]
    IN  /\ needs \subseteq cpu_feature_detect(cpu)
        /\ "AESNI_OFF" \in mgr[t].flags => "AESNI" \notin needs
        /\ "SHANI_OFF" \in mgr[t].flags => "SHANI" \notin needs

\* The architecture init_mb_mgr_auto reports is the one the manager was set up
\* for, although the init function it calls decides once more; when it reports
\* none, the thread reads ENODEV from its manager until its next call, whatever
\* status the calls of other threads leave in the imb_errno they all share.
AutoReportsWhatRuns ==
  \A t \in Threads : pc[t] = "idle" =>
    /\ detected[t] \in Archs => mgr[t].arch = detected[t]
    /\ detected[t] = None => imb_get_errno(mgr[t]) = ENODEV

\* Between two calls a thread holds the memory of its manager and nothing else:
\* an allocation that fails half way through leaks nothing, and no block is
\* freed that is still in use.
HeapIsExact ==
  \A t \in Threads : pc[t] = "idle" =>
    heap[t] = IF mgr[t].live THEN Ooos \cup {"IMB_MGR"} ELSE {}

\* The managers and the variables shared by them keep their types, whatever fails.
ManagersAreSound == TypeOK /\ HeapIsExact

\* The jobs in the lanes at an init never come back: a flush that gives one back
\* puts its lane on the stack of unused lanes a second time, and two later jobs
\* share that lane.  Inits of any architectures may follow each other, and some
\* leave the jobs of OOO managers they do not use for a later init to clear.  It
\* does happen to the XCBC manager of AVX2 and AVX512: its lanes are emptied but
\* for job_in_lane, by which the flush looks for jobs.
OldJobsStayAway ==
  \A t \in Threads : Ready(t) =>
    \A o \in UsedOoos :
      mgr[t].twice[o] # {} => o = "aes_xcbc" /\ mgr[t].arch \in {"avx2", "avx512"}

=============================================================================
