---------------------------- MODULE SetupProofs ----------------------------
(***************************************************************************)
(* Proofs about Setup: for any threads, any CPUs that have what            *)
(* SetupAssumption asks and any jobs in the OOO managers, whatever is      *)
(* allocated, initialised, freed or fails in whatever order.               *)
(*                                                                         *)
(* First the tables of SetupTables, an architecture at a time; then the    *)
(* invariant, which says of every thread what a call that is not over has  *)
(* already decided, and of the shared pointers that an init only ever      *)
(* stores in them what it would store for any other manager on this CPU.   *)
(***************************************************************************)
EXTENDS Setup, TLAPS

---------------------------------------------------------------------------
(* The invariant *)

Detected == cpu_feature_detect(cpu)

Blocks == Ooos \cup {"IMB_MGR"}

Mgrs ==
  [live : BOOLEAN, flags : SUBSET Flags, features : SUBSET Features, errno : Statuses,
   ptrs : SUBSET Ooos, road : SUBSET Ooos, arch : Archs \cup {None},
   used : [UsedOoos -> SUBSET Lanes], job_in_lane : [UsedOoos -> SUBSET Lanes],
   twice : [UsedOoos -> SUBSET Lanes]]

Types ==
  /\ cpu \in Cpus
  /\ pc \in [Threads -> {"idle", "alloc", "auto"} \cup Archs]
  /\ mgr \in [Threads -> Mgrs]
  /\ heap \in [Threads -> SUBSET Blocks]
  /\ selected \in [Archs -> SUBSET Features]
  /\ imb_errno \in Statuses
  /\ detected \in [Threads -> Archs \cup {None, "-"}]

\* Of a thread: p is where it is, m its manager, h its memory, d what the latest
\* init_mb_mgr_auto chose.  D: the extensions of the CPU; S: the shared pointers.

\* The extensions of a manager in use are those its flags leave of the CPU's.
FeaturesFromCpu(m, D) == m.live => m.features = cpu_feature_adjust(m.flags, D)

\* The memory of a thread, and what it can be in the middle of with it
MemoryIsKnown(p, m, h, d) ==
  /\ m.road \subseteq m.ptrs
  /\ ~m.live => p = "idle" /\ h = {} /\ d = "-" /\ m.arch = None
  /\ m.live /\ p = "alloc" => h = {"IMB_MGR"} /\ m.ptrs = {} /\ m.arch = None /\ d = "-"
  /\ m.live /\ p # "alloc" => h = Blocks /\ m.ptrs = Ooos

\* What a call of an init function has decided so far, and what it decided
CallIsKnown(p, m, d, D) ==
  /\ p = "auto" => d = "-"
  /\ p \in Archs => DetectMask[p] \subseteq D
  /\ d = None => p = "idle" /\ m.errno = ENODEV
  /\ d \in Archs => /\ DetectMask[d] \subseteq m.features
                    /\ p = d \/ (p = "idle" /\ m.arch = d)

\* The CPU has what the architecture of a manager was chosen by, AESNI is there
\* unless it is the architecture without, and the shared pointers are what the
\* init of this manager wants them to be.
ArchFits(m, D, S) ==
  m.arch # None =>
    /\ DetectMask[m.arch] \subseteq D
    /\ m.arch # "noaesni" => "AESNI" \in m.features
    /\ SelectedBy(m.arch, D) \subseteq S[m.arch]

\* The OOO manager whose job_in_lane an init leaves as it is, although it uses it
KeepsOld(o, arch) == o = "aes_xcbc" /\ arch \in {"avx2", "avx512"}

\* Elsewhere the lanes that a flush takes for those of a job are the lanes taken:
\* none that is not taken is given back.  What an OOO manager has while the
\* architecture does not use it is cleared before one does.
NoJobIsForgotten(m) ==
  /\ m.arch # None =>
       \A o \in UsedOoos \cap DOMAIN Initialised(m.arch, m.features) :
         m.job_in_lane[o] = m.used[o] \/ KeepsOld(o, m.arch)
  /\ \A o \in UsedOoos : m.twice[o] # {} => KeepsOld(o, m.arch)

ThreadOk(p, m, h, d, D, S) ==
  /\ FeaturesFromCpu(m, D) /\ MemoryIsKnown(p, m, h, d) /\ CallIsKnown(p, m, d, D)
  /\ ArchFits(m, D, S) /\ NoJobIsForgotten(m)

SetupInv ==
  /\ Types
  /\ \A t \in Threads : ThreadOk(pc[t], mgr[t], heap[t], detected[t], Detected, selected)
  /\ \A a \in Archs : selected[a] \subseteq SelectedBy(a, Detected)

---------------------------------------------------------------------------
(* The features and the choice of an architecture *)

\* cpu_feature_adjust takes away SHANI and AESNI when told to, and nothing else.
LEMMA FlagsTakeAway ==
  ASSUME NEW flags \in SUBSET Flags, NEW F \in SUBSET Features
  PROVE  LET adjusted == cpu_feature_adjust(flags, F)
         IN  /\ adjusted \in SUBSET Features
             /\ adjusted \subseteq F
             /\ F \subseteq adjusted \cup {"SHANI", "AESNI"}
             /\ "SHANI_OFF" \in flags => "SHANI" \notin adjusted
             /\ "AESNI_OFF" \in flags => "AESNI" \notin adjusted
BY DEF cpu_feature_adjust

LEMMA DetectedTypes ==
  ASSUME NEW c, c.bits \subseteq Features
  PROVE  cpu_feature_detect(c) \in SUBSET Features
BY DEF cpu_feature_detect

\* A CPU with AVX has what the code for AVX takes for granted.
LEMMA AvxImplies ==
  ASSUME NEW c \in Cpus
  PROVE  "AVX" \in cpu_feature_detect(c)
           => {"PCLMULQDQ", "SSE4_2"} \subseteq cpu_feature_detect(c)
<1>1. /\ c.bits \subseteq Features /\ c.leaf \in Nat
      /\ "AVX" \in c.bits => {"PCLMULQDQ", "SSE4_2"} \subseteq c.bits
  BY SetupAssumption
<1>2. feat_tab["AVX"] = 1 /\ feat_tab["PCLMULQDQ"] = 1 /\ feat_tab["SSE4_2"] = 1
  BY DEF feat_tab, ++
<1> QED
  BY <1>1, <1>2 DEF cpu_feature_detect

\* The architectures other than NOAESNI are not chosen without AESNI.
LEMMA ArchForFits ==
  ASSUME NEW F \in SUBSET Features, ArchFor(F) # None
  PROVE  ArchFor(F) \in Archs /\ DetectMask[ArchFor(F)] \subseteq F
<1> DEFINE fits == {i \in DOMAIN AutoOrder : DetectMask[AutoOrder[i]] \subseteq F}
           first == CHOOSE i \in fits : \A k \in fits : i <= k
<1>1. DOMAIN AutoOrder = 1 .. 5
  BY DEF AutoOrder
<1>2. fits # {}
  BY DEF ArchFor, None
<1>3. \E i \in fits : \A k \in fits : i <= k
  <2>1. fits \subseteq {1, 2, 3, 4, 5}
    BY <1>1
  <2> QED
    BY <1>2, <2>1
<1>4. first \in fits
  BY <1>3
<1>5. ArchFor(F) = AutoOrder[first]
  BY <1>2 DEF ArchFor
<1>6. \A i \in 1 .. 5 : AutoOrder[i] \in Archs
  BY DEF AutoOrder, Archs
<1> QED
  BY <1>1, <1>4, <1>5, <1>6

\* Every mask has what the architecture without AESNI needs.
LEMMA MasksHold ==
  ASSUME NEW c \in Cpus, NEW a \in Archs, DetectMask[a] \subseteq cpu_feature_detect(c)
  PROVE  DetectMask["noaesni"] \subseteq cpu_feature_detect(c)
<1>1. DetectMask["noaesni"] = {"SSE4_2", "CMOV"}
  BY DEF DetectMask
<1>2. "CMOV" \in DetectMask[a] /\ ("SSE4_2" \in DetectMask[a] \/ "AVX" \in DetectMask[a])
  BY DEF DetectMask, Archs, AVX512_SKX
<1> QED
  BY <1>1, <1>2, AvxImplies

\* An architecture with AESNI in its mask stays the one that is set up.
LEMMA ArchInitKeeps ==
  ASSUME NEW a \in Archs, NEW F, DetectMask[a] \subseteq F
  PROVE  ArchInit(a, F) = a
BY DEF ArchInit, DetectMask, Archs

---------------------------------------------------------------------------
(* The tables: what the init functions write and what the kernels expect   *)
(*                                                                         *)
(* Of each architecture, what Initialised and Kernels hold at any OOO      *)
(* manager, by the groups that the init functions treat alike.             *)

WideOoos == AesOoos \cup DocsisOoos \cup CrcOoos
ZucOoos  == {"zuc_eea3", "zuc_eia3"}
MacOoos  == {"aes_xcbc", "aes_ccm", "aes_cmac", "aes128_cbcs"}

\* All but the OOO managers of DES, which only AVX512 sets up
MostOoos ==
  WideOoos \cup ZucOoos \cup ShaOoos \cup Sha512Ooos \cup {"hmac_md5"} \cup MacOoos

Row(lanes, words, spare) == [lanes |-> lanes, words |-> words, spare |-> spare]
Search(lanes, search)    == [lanes |-> lanes, search |-> search, masks |-> FALSE]
Masked(lanes, search)    == [lanes |-> lanes, search |-> search, masks |-> TRUE]

\* The merge of two tables at one manager
LEMMA MergeAt ==
  ASSUME NEW f, NEW g, NEW o
  PROVE  /\ o \in DOMAIN (f ++ g) <=> o \in DOMAIN f \/ o \in DOMAIN g
         /\ o \in DOMAIN f => (f ++ g)[o] = f[o]
         /\ o \notin DOMAIN f /\ o \in DOMAIN g => (f ++ g)[o] = g[o]
BY DEF ++

\* No manager is in two groups.
LEMMA GroupsApart ==
  ASSUME NEW o
  PROVE  /\ o \in WideOoos => o \notin ZucOoos \cup ShaOoos \cup Sha512Ooos \cup {"hmac_md5"}
                                         \cup MacOoos \cup DesOoos
         /\ o \in ZucOoos => o \notin ShaOoos \cup Sha512Ooos \cup {"hmac_md5"} \cup MacOoos
                                        \cup DesOoos
         /\ o \in ShaOoos => o \notin Sha512Ooos \cup {"hmac_md5"} \cup MacOoos \cup DesOoos
         /\ o \in Sha512Ooos => o \notin {"hmac_md5"} \cup MacOoos \cup DesOoos
         /\ o = "hmac_md5" => o \notin MacOoos \cup DesOoos
         /\ o \in MacOoos => o \notin DesOoos
BY DEF WideOoos, ZucOoos, MacOoos, AesOoos, DocsisOoos, CrcOoos, ShaOoos, Sha512Ooos, DesOoos

LEMMA InGroups ==
  /\ "zuc_eea3" \in ZucOoos /\ "zuc_eia3" \in ZucOoos
  /\ {"aes_cmac", "aes_ccm", "aes_xcbc", "aes128_cbcs"} \subseteq MacOoos
  /\ \A o \in ZucOoos : o = "zuc_eea3" \/ o = "zuc_eia3"
BY DEF ZucOoos, MacOoos

\* LanesMatchKernels for the kernel k of one manager, set up as f says
Fits(f, k, o) ==
  /\ o \in DOMAIN f
  /\ f[o].lanes = k[o].lanes
  /\ k[o].search \in k[o].lanes .. f[o].words
  /\ k[o].search = k[o].lanes \/ k[o].masks \/ f[o].spare = "max"

TablesFit(arch, S, features) ==
  LET fresh   == Initialised(arch, features)
      kernels == Kernels(arch, S, features)
  IN  \A o \in DOMAIN kernels : Fits(fresh, kernels, o)

LEMMA InitialisedNoAesni ==
  ASSUME NEW F, NEW o
  PROVE  LET f == Initialised("noaesni", F)
         IN  /\ o \in DOMAIN f <=> o \in MostOoos
             /\ o \in WideOoos => f[o] = Row(4, 16, "max")
             /\ o = "zuc_eea3" => f[o] = Row(4, 16, "zero")
             /\ o = "zuc_eia3" => f[o] = Row(4, 16, "max")
             /\ o \in ShaOoos => f[o] = Row(4, 8, "max")
             /\ o \in Sha512Ooos => f[o] = Row(2, 8, "max")
             /\ o = "hmac_md5" => f[o] = Row(8, 16, "max")
             /\ o \in MacOoos \ {"aes_cmac"} => f[o] = Row(4, 16, "max")
             /\ o = "aes_cmac" => f[o] = Row(4, 8, "max")
<1>1. /\ o \in DOMAIN InitAesNoAesni <=> o \in WideOoos
      /\ o \in WideOoos => InitAesNoAesni[o] = Row(4, 16, "max")
  BY DEF InitAesNoAesni, Fresh, Row, WideOoos
<1>2. /\ o \in DOMAIN InitZucNoAesni <=> o \in ZucOoos
      /\ o = "zuc_eea3" => InitZucNoAesni[o] = Row(4, 16, "zero")
      /\ o = "zuc_eia3" => InitZucNoAesni[o] = Row(4, 16, "max")
  BY DEF InitZucNoAesni, Fresh, Row, ZucOoos, ++
<1>3. /\ o \in DOMAIN InitShaNoAesni <=> o \in ShaOoos
      /\ o \in ShaOoos => InitShaNoAesni[o] = Row(4, 8, "max")
  BY DEF InitShaNoAesni, Fresh, Row
<1>4. /\ o \in DOMAIN InitSha512NoAesni <=> o \in Sha512Ooos \cup {"hmac_md5"}
      /\ o \in Sha512Ooos => InitSha512NoAesni[o] = Row(2, 8, "max")
      /\ o = "hmac_md5" => InitSha512NoAesni[o] = Row(8, 16, "max")
  BY DEF InitSha512NoAesni, Fresh, Row, Sha512Ooos, ++
<1>5. /\ o \in DOMAIN InitMacNoAesni <=> o \in MacOoos
      /\ o \in MacOoos \ {"aes_cmac"} => InitMacNoAesni[o] = Row(4, 16, "max")
      /\ o = "aes_cmac" => InitMacNoAesni[o] = Row(4, 8, "max")
  BY DEF InitMacNoAesni, Fresh, Row, MacOoos, ++
<1> QED
  BY <1>1, <1>2, <1>3, <1>4, <1>5, MergeAt, GroupsApart, InGroups
  DEF Initialised, MostOoos

LEMMA KernelsNoAesniAt ==
  ASSUME NEW S, NEW F, NEW o
  PROVE  LET k == Kernels("noaesni", S, F)
         IN  /\ o \in DOMAIN k <=> o \in MostOoos
             /\ o \in WideOoos \cup ShaOoos \cup MacOoos \cup {"zuc_eia3"} => k[o] = Search(4, 8)
             /\ o = "zuc_eea3" => k[o] = Masked(4, 8)
             /\ o \in Sha512Ooos => k[o] = Search(2, 8)
             /\ o = "hmac_md5" => k[o] = Search(8, 8)
BY GroupsApart, InGroups
DEF Kernels, KernelsNoAesni, Kernel, Search, Masked, ++, WideOoos, MacOoos, MostOoos

LEMMA TablesFitNoAesni ==
  ASSUME NEW S, NEW F
  PROVE  TablesFit("noaesni", S, F)
<1> SUFFICES ASSUME NEW o \in DOMAIN Kernels("noaesni", S, F)
             PROVE  LET f == Initialised("noaesni", F)
                        k == Kernels("noaesni", S, F)
                    IN  Fits(f, k, o)
  BY DEF TablesFit
<1> QED
  BY InitialisedNoAesni, KernelsNoAesniAt, GroupsApart, InGroups
  DEF Fits, MostOoos, Row, Search, Masked

LEMMA InitialisedSse ==
  ASSUME NEW F, NEW o
  PROVE  LET f == Initialised("sse", F)
         IN  /\ o \in DOMAIN f <=> o \in MostOoos
             /\ o \in WideOoos => f[o] = Row(AesLanesSse(F), 16, "max")
             /\ o = "zuc_eea3" => f[o] = Row(4, 16, "zero")
             /\ o = "zuc_eia3" => f[o] = Row(4, 16, "max")
             /\ o \in ShaOoos /\ "SHANI" \in F => f[o] = Row(2, 8, "max")
             /\ o \in ShaOoos /\ "SHANI" \notin F => f[o] = Row(4, 8, "max")
             /\ o \in Sha512Ooos => f[o] = Row(2, 8, "max")
             /\ o = "hmac_md5" => f[o] = Row(8, 16, "max")
             /\ o \in {"aes_ccm", "aes_cmac"} => f[o] = Row(AesLanesSse(F), 16, "max")
             /\ o \in {"aes_xcbc", "aes128_cbcs"} => f[o] = Row(4, 16, "max")
<1>1. /\ o \in DOMAIN InitAesSse(F) <=> o \in WideOoos
      /\ o \in WideOoos => InitAesSse(F)[o] = Row(AesLanesSse(F), 16, "max")
  BY DEF InitAesSse, Fresh, Row, WideOoos
<1>2. /\ o \in DOMAIN InitZucSse <=> o \in ZucOoos
      /\ o = "zuc_eea3" => InitZucSse[o] = Row(4, 16, "zero")
      /\ o = "zuc_eia3" => InitZucSse[o] = Row(4, 16, "max")
  BY DEF InitZucSse, Fresh, Row, ZucOoos, ++
<1>3. /\ o \in DOMAIN InitShaSse(F) <=> o \in ShaOoos
      /\ o \in ShaOoos /\ "SHANI" \in F => InitShaSse(F)[o] = Row(2, 8, "max")
      /\ o \in ShaOoos /\ "SHANI" \notin F => InitShaSse(F)[o] = Row(4, 8, "max")
  BY DEF InitShaSse, Fresh, Row
<1>4. /\ o \in DOMAIN InitSha512Sse <=> o \in Sha512Ooos \cup {"hmac_md5"}
      /\ o \in Sha512Ooos => InitSha512Sse[o] = Row(2, 8, "max")
      /\ o = "hmac_md5" => InitSha512Sse[o] = Row(8, 16, "max")
  BY DEF InitSha512Sse, Fresh, Row, Sha512Ooos, ++
<1>5. /\ o \in DOMAIN InitMacSse(F) <=> o \in MacOoos
      /\ o \in {"aes_ccm", "aes_cmac"} => InitMacSse(F)[o] = Row(AesLanesSse(F), 16, "max")
      /\ o \in {"aes_xcbc", "aes128_cbcs"} => InitMacSse(F)[o] = Row(4, 16, "max")
  BY DEF InitMacSse, Fresh, Row, MacOoos, ++
<1> QED
  BY <1>1, <1>2, <1>3, <1>4, <1>5, MergeAt, GroupsApart, InGroups
  DEF Initialised, MostOoos

LEMMA KernelsSseAt ==
  ASSUME NEW S, NEW F, NEW o
  PROVE  LET k == Kernels("sse", S, F)
         IN  /\ o \in DOMAIN k <=> o \in MostOoos
             /\ o \in WideOoos \cup {"aes_ccm", "aes_cmac"} => k[o] = Search(AesLanesSse(S), 8)
             /\ o \in ShaOoos /\ "SHANI" \in F => k[o] = Search(2, 2)
             /\ o \in ShaOoos /\ "SHANI" \notin F => k[o] = Search(4, 8)
             /\ o \in {"aes_xcbc", "aes128_cbcs", "zuc_eia3"} => k[o] = Search(4, 8)
             /\ o = "zuc_eea3" => k[o] = Masked(4, 8)
             /\ o \in Sha512Ooos => k[o] = Search(2, 8)
             /\ o = "hmac_md5" => k[o] = Search(8, 8)
<1>1. /\ o \in DOMAIN AesKernelsSse(S) <=> o \in WideOoos \cup {"aes_ccm", "aes_cmac"}
      /\ o \in DOMAIN AesKernelsSse(S) => AesKernelsSse(S)[o] = Search(AesLanesSse(S), 8)
  BY DEF AesKernelsSse, Kernel, Search, WideOoos
<1>2. /\ o \in DOMAIN ShaKernelsSse(F) <=> o \in ShaOoos
      /\ o \in ShaOoos /\ "SHANI" \in F => ShaKernelsSse(F)[o] = Search(2, 2)
      /\ o \in ShaOoos /\ "SHANI" \notin F => ShaKernelsSse(F)[o] = Search(4, 8)
  BY DEF ShaKernelsSse, Kernel, Search
<1>3. /\ o \in DOMAIN OtherKernelsSse <=>
           o \in {"aes_xcbc", "aes128_cbcs", "hmac_md5"} \cup ZucOoos \cup Sha512Ooos
      /\ o \in {"aes_xcbc", "aes128_cbcs", "zuc_eia3"} => OtherKernelsSse[o] = Search(4, 8)
      /\ o = "zuc_eea3" => OtherKernelsSse[o] = Masked(4, 8)
      /\ o \in Sha512Ooos => OtherKernelsSse[o] = Search(2, 8)
      /\ o = "hmac_md5" => OtherKernelsSse[o] = Search(8, 8)
  BY DEF OtherKernelsSse, Kernel, Search, Masked, ++, ZucOoos, Sha512Ooos
<1>4. Kernels("sse", S, F) = AesKernelsSse(S) ++ ShaKernelsSse(F) ++ OtherKernelsSse
  BY DEF Kernels, KernelsSse
<1>5. {"aes_ccm", "aes_cmac", "aes_xcbc", "aes128_cbcs"} = MacOoos
  BY DEF MacOoos
<1> QED
  BY <1>1, <1>2, <1>3, <1>4, <1>5, MergeAt, GroupsApart, InGroups DEF MostOoos

LEMMA TablesFitSse ==
  ASSUME NEW S, NEW F, "GFNI" \in S <=> "GFNI" \in F
  PROVE  TablesFit("sse", S, F)
<1> SUFFICES ASSUME NEW o \in DOMAIN Kernels("sse", S, F)
             PROVE  LET f == Initialised("sse", F)
                        k == Kernels("sse", S, F)
                    IN  Fits(f, k, o)
  BY DEF TablesFit
<1>1. PICK l \in {4, 8} : AesLanesSse(S) = l /\ AesLanesSse(F) = l
  BY DEF AesLanesSse
<1> DEFINE f == Initialised("sse", F)
           k == Kernels("sse", S, F)
<1>2. CASE o \in WideOoos \cup {"aes_ccm", "aes_cmac"}
  <2>1. f[o] = Row(l, 16, "max") /\ o \in DOMAIN f
    BY <1>1, <1>2, InitialisedSse, InGroups DEF MostOoos, WideOoos
  <2>2. k[o] = Search(l, 8)
    BY <1>1, <1>2, KernelsSseAt, InGroups DEF MostOoos, WideOoos
  <2> QED
    BY <2>1, <2>2 DEF Fits, Row, Search
<1>3. CASE o \in ShaOoos /\ "SHANI" \in F
  <2>1. f[o] = Row(2, 8, "max") /\ o \in DOMAIN f
    BY <1>3, InitialisedSse, InGroups DEF MostOoos
  <2>2. k[o] = Search(2, 2)
    BY <1>3, KernelsSseAt, InGroups DEF MostOoos
  <2> QED
    BY <2>1, <2>2 DEF Fits, Row, Search, Masked
<1>4. CASE o \in ShaOoos /\ "SHANI" \notin F
  <2>1. f[o] = Row(4, 8, "max") /\ o \in DOMAIN f
    BY <1>4, InitialisedSse, InGroups DEF MostOoos
  <2>2. k[o] = Search(4, 8)
    BY <1>4, KernelsSseAt, InGroups DEF MostOoos
  <2> QED
    BY <2>1, <2>2 DEF Fits, Row, Search, Masked
<1>5. CASE o \in {"aes_xcbc", "aes128_cbcs"}
  <2>1. f[o] = Row(4, 16, "max") /\ o \in DOMAIN f
    BY <1>5, InitialisedSse, InGroups DEF MostOoos
  <2>2. k[o] = Search(4, 8)
    BY <1>5, KernelsSseAt, InGroups DEF MostOoos
  <2> QED
    BY <2>1, <2>2 DEF Fits, Row, Search, Masked
<1>6. CASE o = "zuc_eea3"
  <2>1. f[o] = Row(4, 16, "zero") /\ o \in DOMAIN f
    BY <1>6, InitialisedSse, InGroups DEF MostOoos
  <2>2. k[o] = Masked(4, 8)
    BY <1>6, KernelsSseAt, InGroups DEF MostOoos
  <2> QED
    BY <2>1, <2>2 DEF Fits, Row, Search, Masked
<1>7. CASE o = "zuc_eia3"
  <2>1. f[o] = Row(4, 16, "max") /\ o \in DOMAIN f
    BY <1>7, InitialisedSse, InGroups DEF MostOoos
  <2>2. k[o] = Search(4, 8)
    BY <1>7, KernelsSseAt, InGroups DEF MostOoos
  <2> QED
    BY <2>1, <2>2 DEF Fits, Row, Search, Masked
<1>8. CASE o \in Sha512Ooos
  <2>1. f[o] = Row(2, 8, "max") /\ o \in DOMAIN f
    BY <1>8, InitialisedSse, InGroups DEF MostOoos
  <2>2. k[o] = Search(2, 8)
    BY <1>8, KernelsSseAt, InGroups DEF MostOoos
  <2> QED
    BY <2>1, <2>2 DEF Fits, Row, Search, Masked
<1>9. CASE o = "hmac_md5"
  <2>1. f[o] = Row(8, 16, "max") /\ o \in DOMAIN f
    BY <1>9, InitialisedSse, InGroups DEF MostOoos
  <2>2. k[o] = Search(8, 8)
    BY <1>9, KernelsSseAt, InGroups DEF MostOoos
  <2> QED
    BY <2>1, <2>2 DEF Fits, Row, Search, Masked
<1> QED
  BY <1>2, <1>3, <1>4, <1>5, <1>6, <1>7, <1>8, <1>9, KernelsSseAt DEF MostOoos, ZucOoos, MacOoos

LEMMA InitialisedAvx ==
  ASSUME NEW F, NEW o
  PROVE  LET f == Initialised("avx", F)
         IN  /\ o \in DOMAIN f <=> o \in MostOoos
             /\ o \in WideOoos => f[o] = Row(8, 16, "max")
             /\ o = "zuc_eea3" => f[o] = Row(4, 16, "zero")
             /\ o = "zuc_eia3" => f[o] = Row(4, 16, "max")
             /\ o \in ShaOoos => f[o] = Row(4, 8, "max")
             /\ o \in Sha512Ooos => f[o] = Row(2, 8, "max")
             /\ o = "hmac_md5" => f[o] = Row(8, 16, "max")
             /\ o \in MacOoos \ {"aes_cmac"} => f[o] = Row(8, 16, "max")
             /\ o = "aes_cmac" => f[o] = Row(8, 8, "max")
<1>1. /\ o \in DOMAIN InitAesAvx <=> o \in WideOoos
      /\ o \in WideOoos => InitAesAvx[o] = Row(8, 16, "max")
  BY DEF InitAesAvx, Fresh, Row, WideOoos
<1>2. /\ o \in DOMAIN InitZucAvx <=> o \in ZucOoos
      /\ o = "zuc_eea3" => InitZucAvx[o] = Row(4, 16, "zero")
      /\ o = "zuc_eia3" => InitZucAvx[o] = Row(4, 16, "max")
  BY DEF InitZucAvx, Fresh, Row, ZucOoos, ++
<1>3. /\ o \in DOMAIN InitShaAvx <=> o \in ShaOoos
      /\ o \in ShaOoos => InitShaAvx[o] = Row(4, 8, "max")
  BY DEF InitShaAvx, Fresh, Row
<1>4. /\ o \in DOMAIN InitSha512Avx <=> o \in Sha512Ooos \cup {"hmac_md5"}
      /\ o \in Sha512Ooos => InitSha512Avx[o] = Row(2, 8, "max")
      /\ o = "hmac_md5" => InitSha512Avx[o] = Row(8, 16, "max")
  BY DEF InitSha512Avx, Fresh, Row, Sha512Ooos, ++
<1>5. /\ o \in DOMAIN InitMacAvx <=> o \in MacOoos
      /\ o \in MacOoos \ {"aes_cmac"} => InitMacAvx[o] = Row(8, 16, "max")
      /\ o = "aes_cmac" => InitMacAvx[o] = Row(8, 8, "max")
  BY DEF InitMacAvx, Fresh, Row, MacOoos, ++
<1> QED
  BY <1>1, <1>2, <1>3, <1>4, <1>5, MergeAt, GroupsApart, InGroups
  DEF Initialised, MostOoos

LEMMA KernelsAvxAt ==
  ASSUME NEW S, NEW F, NEW o
  PROVE  LET k == Kernels("avx", S, F)
         IN  /\ o \in DOMAIN k <=> o \in MostOoos
             /\ o \in WideOoos \cup MacOoos \cup {"hmac_md5"} => k[o] = Search(8, 8)
             /\ o = "zuc_eea3" => k[o] = Masked(4, 8)
             /\ o \in {"zuc_eia3"} \cup ShaOoos => k[o] = Search(4, 8)
             /\ o \in Sha512Ooos => k[o] = Search(2, 8)
BY GroupsApart, InGroups
DEF Kernels, KernelsAvx, Kernel, Search, Masked, ++, WideOoos, MacOoos, MostOoos

LEMMA TablesFitAvx ==
  ASSUME NEW S, NEW F
  PROVE  TablesFit("avx", S, F)
<1> SUFFICES ASSUME NEW o \in DOMAIN Kernels("avx", S, F)
             PROVE  LET f == Initialised("avx", F)
                        k == Kernels("avx", S, F)
                    IN  Fits(f, k, o)
  BY DEF TablesFit
<1> QED
  BY InitialisedAvx, KernelsAvxAt, GroupsApart, InGroups
  DEF Fits, MostOoos, Row, Search, Masked

LEMMA InitialisedAvx2 ==
  ASSUME NEW F, NEW o
  PROVE  LET f == Initialised("avx2", F)
         IN  /\ o \in DOMAIN f <=> o \in MostOoos
             /\ o \in WideOoos => f[o] = Row(8, 16, "max")
             /\ o = "zuc_eea3" => f[o] = Row(8, 16, "zero")
             /\ o = "zuc_eia3" => f[o] = Row(8, 16, "max")
             /\ o \in ShaOoos => f[o] = Row(8, 8, "max")
             /\ o \in Sha512Ooos => f[o] = Row(4, 8, "max")
             /\ o = "hmac_md5" => f[o] = Row(16, 16, "max")
             /\ o \in MacOoos \ {"aes_cmac"} => f[o] = Row(8, 16, "max")
             /\ o = "aes_cmac" => f[o] = Row(8, 8, "max")
<1>1. /\ o \in DOMAIN InitAesAvx2 <=> o \in WideOoos
      /\ o \in WideOoos => InitAesAvx2[o] = Row(8, 16, "max")
  BY DEF InitAesAvx2, Fresh, Row, WideOoos
<1>2. /\ o \in DOMAIN InitZucAvx2 <=> o \in ZucOoos
      /\ o = "zuc_eea3" => InitZucAvx2[o] = Row(8, 16, "zero")
      /\ o = "zuc_eia3" => InitZucAvx2[o] = Row(8, 16, "max")
  BY DEF InitZucAvx2, Fresh, Row, ZucOoos, ++
<1>3. /\ o \in DOMAIN InitShaAvx2 <=> o \in ShaOoos
      /\ o \in ShaOoos => InitShaAvx2[o] = Row(8, 8, "max")
  BY DEF InitShaAvx2, Fresh, Row
<1>4. /\ o \in DOMAIN InitSha512Avx2 <=> o \in Sha512Ooos
      /\ o \in Sha512Ooos => InitSha512Avx2[o] = Row(4, 8, "max")
  BY DEF InitSha512Avx2, Fresh, Row
<1>5. /\ o \in DOMAIN InitMd5Avx2 <=> o = "hmac_md5"
      /\ o = "hmac_md5" => InitMd5Avx2[o] = Row(16, 16, "max")
  BY DEF InitMd5Avx2, Fresh, Row
<1>6. /\ o \in DOMAIN InitMacAvx2 <=> o \in MacOoos
      /\ o \in MacOoos \ {"aes_cmac"} => InitMacAvx2[o] = Row(8, 16, "max")
      /\ o = "aes_cmac" => InitMacAvx2[o] = Row(8, 8, "max")
  BY DEF InitMacAvx2, Fresh, Row, MacOoos, ++
<1> QED
  BY <1>1, <1>2, <1>3, <1>4, <1>5, <1>6, MergeAt, GroupsApart, InGroups
  DEF Initialised, MostOoos

LEMMA KernelsAvx2At ==
  ASSUME NEW S, NEW F, NEW o
  PROVE  LET k == Kernels("avx2", S, F)
         IN  /\ o \in DOMAIN k <=> o \in MostOoos
             /\ o \in WideOoos \cup ShaOoos \cup MacOoos \cup ZucOoos => k[o] = Search(8, 8)
             /\ o \in Sha512Ooos => k[o] = Search(4, 8)
             /\ o = "hmac_md5" => k[o] = Search(16, 16)
BY GroupsApart, InGroups
DEF Kernels, KernelsAvx2, Kernel, Search, Masked, ++, WideOoos, MacOoos, ZucOoos, MostOoos

LEMMA TablesFitAvx2 ==
  ASSUME NEW S, NEW F
  PROVE  TablesFit("avx2", S, F)
<1> SUFFICES ASSUME NEW o \in DOMAIN Kernels("avx2", S, F)
             PROVE  LET f == Initialised("avx2", F)
                        k == Kernels("avx2", S, F)
                    IN  Fits(f, k, o)
  BY DEF TablesFit
<1> QED
  BY InitialisedAvx2, KernelsAvx2At, GroupsApart, InGroups
  DEF Fits, MostOoos, Row, Search, Masked

LEMMA InitialisedAvx512 ==
  ASSUME NEW F, NEW o
  PROVE  LET f == Initialised("avx512", F)
         IN  /\ o \in DOMAIN f <=> o \in MostOoos \cup DesOoos
             /\ o \in AesOoos => f[o] = Row(VaesLanes(F), 16, "max")
             /\ o \in DocsisOoos \cup CrcOoos => f[o] = Row(VaesLanes(F), 16, "max")
             /\ o \in DesOoos => f[o] = Row(16, 16, "max")
             /\ o \in ZucOoos => f[o] = Row(16, 16, "max")
             /\ o \in ShaOoos => f[o] = Row(16, 16, "max")
             /\ o \in Sha512Ooos => f[o] = Row(8, 8, "max")
             /\ o = "hmac_md5" => f[o] = Row(16, 16, "max")
             /\ o \in MacOoos => f[o] = Row(VaesLanes(F), 16, "max")
<1>1. /\ o \in DOMAIN InitAesAvx512(F) <=> o \in AesOoos
      /\ o \in AesOoos => InitAesAvx512(F)[o] = Row(VaesLanes(F), 16, "max")
  BY DEF InitAesAvx512, Fresh, Row
<1>2. /\ o \in DOMAIN InitDocsisAvx512(F) <=> o \in DocsisOoos \cup CrcOoos
      /\ o \in DocsisOoos \cup CrcOoos => InitDocsisAvx512(F)[o] = Row(VaesLanes(F), 16, "max")
  BY DEF InitDocsisAvx512, Fresh, Row
<1>3. /\ o \in DOMAIN InitDesAvx512 <=> o \in DesOoos
      /\ o \in DesOoos => InitDesAvx512[o] = Row(16, 16, "max")
  BY DEF InitDesAvx512, Fresh, Row
<1>4. /\ o \in DOMAIN InitZucAvx512 <=> o \in ZucOoos
      /\ o \in ZucOoos => InitZucAvx512[o] = Row(16, 16, "max")
  BY DEF InitZucAvx512, Fresh, Row, ZucOoos
<1>5. /\ o \in DOMAIN InitShaAvx512 <=> o \in ShaOoos
      /\ o \in ShaOoos => InitShaAvx512[o] = Row(16, 16, "max")
  BY DEF InitShaAvx512, Fresh, Row
<1>6. /\ o \in DOMAIN InitSha512Avx512 <=> o \in Sha512Ooos
      /\ o \in Sha512Ooos => InitSha512Avx512[o] = Row(8, 8, "max")
  BY DEF InitSha512Avx512, Fresh, Row
<1>7. /\ o \in DOMAIN InitMd5Avx512 <=> o = "hmac_md5"
      /\ o = "hmac_md5" => InitMd5Avx512[o] = Row(16, 16, "max")
  BY DEF InitMd5Avx512, Fresh, Row
<1>8. /\ o \in DOMAIN InitMacAvx512(F) <=> o \in MacOoos
      /\ o \in MacOoos => InitMacAvx512(F)[o] = Row(VaesLanes(F), 16, "max")
  BY DEF InitMacAvx512, Fresh, Row, MacOoos
<1> QED
  BY <1>1, <1>2, <1>3, <1>4, <1>5, <1>6, <1>7, <1>8, MergeAt, GroupsApart, InGroups
  DEF Initialised, MostOoos, WideOoos

LEMMA KernelsAvx512At ==
  ASSUME NEW S, NEW F, NEW o
  PROVE  LET k == Kernels("avx512", S, F)
         IN  /\ o \in DOMAIN k <=> o \in MostOoos \cup DesOoos
             /\ o \in WideOoos \cup MacOoos => k[o] = Search(VaesLanes(S), VaesLanes(S))
             /\ o \in DesOoos \cup ShaOoos \cup ZucOoos \cup {"hmac_md5"} => k[o] = Search(16, 16)
             /\ o \in Sha512Ooos => k[o] = Search(8, 8)
BY GroupsApart, InGroups
DEF Kernels, KernelsAvx512, AesKernelsAvx512, Kernel, Search, Masked, ++, WideOoos, MacOoos,
    ZucOoos, MostOoos

LEMMA TablesFitAvx512 ==
  ASSUME NEW S, NEW F, "VAES" \in S <=> "VAES" \in F
  PROVE  TablesFit("avx512", S, F)
<1> SUFFICES ASSUME NEW o \in DOMAIN Kernels("avx512", S, F)
             PROVE  LET f == Initialised("avx512", F)
                        k == Kernels("avx512", S, F)
                    IN  Fits(f, k, o)
  BY DEF TablesFit
<1>1. PICK l \in {8, 16} : VaesLanes(S) = l /\ VaesLanes(F) = l
  BY DEF VaesLanes
<1> DEFINE f == Initialised("avx512", F)
           k == Kernels("avx512", S, F)
<1>2. CASE o \in WideOoos \cup MacOoos
  <2>1. f[o] = Row(l, 16, "max") /\ o \in DOMAIN f
    BY <1>1, <1>2, InitialisedAvx512, InGroups DEF MostOoos, WideOoos
  <2>2. k[o] = Search(l, l)
    BY <1>1, <1>2, KernelsAvx512At, InGroups DEF MostOoos, WideOoos
  <2> QED
    BY <2>1, <2>2 DEF Fits, Row, Search
<1>3. CASE o \in DesOoos \cup ShaOoos \cup ZucOoos \cup {"hmac_md5"}
  <2>1. f[o] = Row(16, 16, "max") /\ o \in DOMAIN f
    BY <1>3, InitialisedAvx512, InGroups DEF MostOoos
  <2>2. k[o] = Search(16, 16)
    BY <1>3, KernelsAvx512At, InGroups DEF MostOoos
  <2> QED
    BY <2>1, <2>2 DEF Fits, Row, Search, Masked
<1>4. CASE o \in Sha512Ooos
  <2>1. f[o] = Row(8, 8, "max") /\ o \in DOMAIN f
    BY <1>4, InitialisedAvx512, InGroups DEF MostOoos
  <2>2. k[o] = Search(8, 8)
    BY <1>4, KernelsAvx512At, InGroups DEF MostOoos
  <2> QED
    BY <2>1, <2>2 DEF Fits, Row, Search, Masked
<1> QED
  BY <1>2, <1>3, <1>4, KernelsAvx512At DEF MostOoos, ZucOoos, MacOoos

---------------------------------------------------------------------------
(* What an architecture set up on a CPU needs of it *)

\* KernelsRunOnCpu for one manager
RunsOn(needs, flags, D) ==
  /\ needs \subseteq D
  /\ "AESNI_OFF" \in flags => "AESNI" \notin needs
  /\ "SHANI_OFF" \in flags => "SHANI" \notin needs

LEMMA NeedsMet ==
  ASSUME NEW D \in SUBSET Features, "AVX" \in D => {"PCLMULQDQ", "SSE4_2"} \subseteq D,
         NEW a \in Archs, NEW flags \in SUBSET Flags, NEW S \in SUBSET SelectedBy(a, D),
         DetectMask[a] \subseteq D,
         NEW F, F = cpu_feature_adjust(flags, D), a # "noaesni" => "AESNI" \in F
  PROVE  RunsOn(Needs(a, F) \cup S, flags, D)
<1> USE DEF RunsOn
<1>1. /\ F \subseteq D
      /\ "SHANI_OFF" \in flags => "SHANI" \notin F
      /\ "AESNI_OFF" \in flags => "AESNI" \notin F
  BY FlagsTakeAway
<1>2. "AVX" \in D => {"PCLMULQDQ", "SSE4_2"} \subseteq D
  OBVIOUS
<1>3. CASE a = "noaesni"
  <2>1. Needs(a, F) = {"SSE4_2"} /\ S = {}
    BY <1>3 DEF Needs, NeedsNoAesni, SelectedBy
  <2>2. "SSE4_2" \in D
    BY <1>3 DEF DetectMask
  <2> QED
    BY <2>1, <2>2
<1>4. CASE a = "sse"
  <2>1. Needs(a, F) = {"SSE4_2", "AESNI", "PCLMULQDQ"} \cup (F \cap {"GFNI", "SHANI"})
    BY <1>4 DEF Needs, NeedsSse
  <2>2. S \subseteq D \cap {"GFNI"} /\ {"SSE4_2", "AESNI", "PCLMULQDQ"} \subseteq D
    BY <1>4 DEF SelectedBy, SelectSse, DetectMask
  <2>3. "AESNI" \in F
    BY <1>4
  <2>4. Needs(a, F) \cup S \subseteq D
    BY <2>1, <2>2, <1>1
  <2>5. "AESNI_OFF" \notin flags
    BY <2>3, <1>1
  <2>6. "SHANI_OFF" \in flags => "SHANI" \notin Needs(a, F) \cup S
    BY <2>1, <2>2, <1>1
  <2> QED
    BY <2>4, <2>5, <2>6
<1>5. CASE a = "avx" \/ a = "avx2"
  <2>1. Needs(a, F) \subseteq DetectMask[a] \cup {"AVX", "PCLMULQDQ"} /\ S = {}
    BY <1>5 DEF Needs, NeedsAvx, NeedsAvx2, SelectedBy, DetectMask
  <2>2. DetectMask[a] \subseteq D /\ "AVX" \in DetectMask[a] /\ "SHANI" \notin DetectMask[a]
    BY <1>5 DEF DetectMask
  <2>3. "AESNI_OFF" \notin flags
    BY <1>5, <1>1
  <2>4. Needs(a, F) \cup S \subseteq D /\ "SHANI" \notin Needs(a, F) \cup S
    BY <2>1, <2>2, <1>2
  <2> QED
    BY <2>3, <2>4
<1>6. CASE a = "avx512"
  <2>1. SelectAvx512(F) \subseteq F \cap {"VAES", "GFNI"}
    BY DEF SelectAvx512
  <2>2. Needs(a, F) \subseteq DetectMask[a] \cup {"PCLMULQDQ"}
                                \cup (F \cap {"VPCLMULQDQ", "VAES", "GFNI"})
    BY <1>6, <2>1 DEF Needs, HandlerNeedsAvx512, GcmNeedsAvx512, DetectMask
  <2>3. S \subseteq D \cap {"VAES", "GFNI"}
    BY <1>6 DEF SelectedBy, SelectAvx512
  <2>4. DetectMask[a] \subseteq D /\ "AVX" \in DetectMask[a] /\ "SHANI" \notin DetectMask[a]
    BY <1>6 DEF DetectMask, AVX512_SKX
  <2>5. "AESNI_OFF" \notin flags
    BY <1>6, <1>1
  <2>6. Needs(a, F) \cup S \subseteq D /\ "SHANI" \notin Needs(a, F) \cup S
    BY <2>2, <2>3, <2>4, <1>1, <1>2
  <2> QED
    BY <2>5, <2>6
<1> QED
  BY <1>3, <1>4, <1>5, <1>6 DEF Archs

\* Flags do not change what the init functions select.
LEMMA SelectedAlike ==
  ASSUME NEW a \in Archs, NEW flags \in SUBSET Flags, NEW D \in SUBSET Features
  PROVE  /\ SelectedBy(a, cpu_feature_adjust(flags, D)) = SelectedBy(a, D)
         /\ "GFNI" \in cpu_feature_adjust(flags, D) <=> "GFNI" \in D
         /\ "VAES" \in cpu_feature_adjust(flags, D) <=> "VAES" \in D
<1> DEFINE F == cpu_feature_adjust(flags, D)
<1>1. \A f \in {"GFNI", "VAES"} : f \in F <=> f \in D
  BY DEF cpu_feature_adjust
<1> HIDE DEF F
<1>2. SelectSse(F) = SelectSse(D) /\ SelectAvx512(F) = SelectAvx512(D)
  BY <1>1 DEF SelectSse, SelectAvx512
<1> QED
  BY <1>1, <1>2 DEF SelectedBy, F

LEMMA SelectedTypes ==
  ASSUME NEW a \in Archs, NEW D \in SUBSET Features
  PROVE  SelectedBy(a, D) \in SUBSET Features
BY DEF SelectedBy, SelectSse, SelectAvx512

\* Only AVX512 sets up the OOO managers of DES.
LEMMA DesNotSetUp ==
  ASSUME NEW a \in Archs \ {"avx512"}, NEW F, NEW o \in DesOoos
  PROVE  o \notin DOMAIN Initialised(a, F)
<1>1. o \notin MostOoos
  BY GroupsApart DEF MostOoos
<1> QED
  BY <1>1, InitialisedNoAesni, InitialisedSse, InitialisedAvx, InitialisedAvx2 DEF Archs

\* Every architecture sets up the OOO manager of XCBC.
LEMMA XcbcIsSetUp ==
  ASSUME NEW a \in Archs, NEW F
  PROVE  "aes_xcbc" \in DOMAIN Initialised(a, F)
<1>1. "aes_xcbc" \in MostOoos /\ "aes_xcbc" \in MostOoos \cup DesOoos
  BY InGroups DEF MostOoos
<1> QED
  BY <1>1, InitialisedNoAesni, InitialisedSse, InitialisedAvx, InitialisedAvx2, InitialisedAvx512
  DEF Archs

---------------------------------------------------------------------------
(* What the invariant says of the properties of Setup *)

LEMMA CpuTypes ==
  ASSUME Types
  PROVE  Detected \in SUBSET Features
<1>1. cpu \in Cpus
  BY DEF Types
<1>2. cpu.bits \subseteq Features
  BY <1>1, SetupAssumption
<1> QED
  BY <1>2, DetectedTypes DEF Detected

LEMMA MgrTypes ==
  ASSUME Types, NEW t \in Threads
  PROVE  mgr[t] \in Mgrs
BY DEF Types

\* A manager that has been set up: it is in use, and its features are the CPU's
\* but for what the flags take away.
LEMMA SetUpMgr ==
  ASSUME SetupInv, NEW t \in Threads, mgr[t].arch # None
  PROVE  /\ mgr[t].arch \in Archs /\ mgr[t].flags \in SUBSET Flags
         /\ mgr[t].features = cpu_feature_adjust(mgr[t].flags, Detected)
         /\ ArchFits(mgr[t], Detected, selected)
         /\ selected[mgr[t].arch] = SelectedBy(mgr[t].arch, Detected)
<1>1. mgr[t].arch \in Archs /\ mgr[t].flags \in SUBSET Flags
  BY MgrTypes DEF SetupInv, Mgrs
<1>2. ThreadOk(pc[t], mgr[t], heap[t], detected[t], Detected, selected)
  BY DEF SetupInv
<1>3. mgr[t].live
  BY <1>2, MgrTypes DEF ThreadOk, MemoryIsKnown, SetupInv, Mgrs
<1>4. mgr[t].features = cpu_feature_adjust(mgr[t].flags, Detected)
  BY <1>2, <1>3 DEF ThreadOk, FeaturesFromCpu
<1>5. ArchFits(mgr[t], Detected, selected)
  BY <1>2 DEF ThreadOk
<1>6. SelectedBy(mgr[t].arch, Detected) \subseteq selected[mgr[t].arch]
  BY <1>5 DEF ArchFits
<1>7. selected[mgr[t].arch] \subseteq SelectedBy(mgr[t].arch, Detected)
  BY <1>1 DEF SetupInv
<1> QED
  BY <1>1, <1>4, <1>5, <1>6, <1>7

LEMMA LanesMatch ==
  ASSUME SetupInv
  PROVE  LanesMatchKernels
<1> SUFFICES ASSUME NEW t \in Threads, mgr[t].arch # None
             PROVE  TablesFit(mgr[t].arch, selected[mgr[t].arch], mgr[t].features)
  BY DEF LanesMatchKernels, TablesFit, Fits, Ready
<1> DEFINE a == mgr[t].arch
           F == mgr[t].features
           S == selected[mgr[t].arch]
<1>1. a \in Archs /\ S = SelectedBy(a, Detected) /\ F = cpu_feature_adjust(mgr[t].flags, Detected)
  BY SetUpMgr
<1>2. mgr[t].flags \in SUBSET Flags /\ Detected \in SUBSET Features
  BY SetUpMgr, CpuTypes DEF SetupInv
<1>3. ("GFNI" \in F <=> "GFNI" \in Detected) /\ ("VAES" \in F <=> "VAES" \in Detected)
  BY <1>1, <1>2, SelectedAlike
<1> HIDE DEF a, F, S
<1>4. CASE a = "noaesni"
  BY <1>4, TablesFitNoAesni DEF a, F, S
<1>5. CASE a = "sse"
  <2>1. "GFNI" \in S <=> "GFNI" \in F
    BY <1>1, <1>3, <1>5 DEF SelectedBy, SelectSse
  <2> QED
    BY <1>5, <2>1, TablesFitSse DEF a, F, S
<1>6. CASE a = "avx"
  BY <1>6, TablesFitAvx DEF a, F, S
<1>7. CASE a = "avx2"
  BY <1>7, TablesFitAvx2 DEF a, F, S
<1>8. CASE a = "avx512"
  <2>1. "VAES" \in S <=> "VAES" \in F
    BY <1>1, <1>3, <1>8 DEF SelectedBy, SelectAvx512
  <2> QED
    BY <1>8, <2>1, TablesFitAvx512 DEF a, F, S
<1> QED
  BY <1>1, <1>4, <1>5, <1>6, <1>7, <1>8 DEF Archs

LEMMA KernelsRun ==
  ASSUME SetupInv
  PROVE  KernelsRunOnCpu
<1> SUFFICES ASSUME NEW t \in Threads, mgr[t].arch # None
             PROVE  RunsOn(Needs(mgr[t].arch, mgr[t].features) \cup selected[mgr[t].arch],
                           mgr[t].flags, Detected)
  BY DEF KernelsRunOnCpu, Ready, Detected, RunsOn
<1>1. /\ Detected \in SUBSET Features
      /\ "AVX" \in Detected => {"PCLMULQDQ", "SSE4_2"} \subseteq Detected
  BY CpuTypes, AvxImplies DEF SetupInv, Types, Detected
<1>2. /\ mgr[t].arch \in Archs /\ mgr[t].flags \in SUBSET Flags
      /\ mgr[t].features = cpu_feature_adjust(mgr[t].flags, Detected)
      /\ ArchFits(mgr[t], Detected, selected)
      /\ selected[mgr[t].arch] \in SUBSET SelectedBy(mgr[t].arch, Detected)
  BY SetUpMgr
<1>3. /\ DetectMask[mgr[t].arch] \subseteq Detected
      /\ mgr[t].arch # "noaesni" => "AESNI" \in mgr[t].features
  BY <1>2 DEF ArchFits
<1> QED
  BY <1>1, <1>2, <1>3, NeedsMet

LEMMA AutoReports ==
  ASSUME SetupInv
  PROVE  AutoReportsWhatRuns
<1> SUFFICES ASSUME NEW t \in Threads, pc[t] = "idle"
             PROVE  /\ detected[t] \in Archs => mgr[t].arch = detected[t]
                    /\ detected[t] = None => imb_get_errno(mgr[t]) = ENODEV
  BY DEF AutoReportsWhatRuns
<1>1. ThreadOk(pc[t], mgr[t], heap[t], detected[t], Detected, selected)
  BY DEF SetupInv
<1>2. "idle" \notin Archs /\ None # "-"
  BY DEF Archs, None
<1>3. detected[t] = None => mgr[t].live /\ mgr[t].errno = ENODEV
  BY <1>1, <1>2 DEF ThreadOk, CallIsKnown, MemoryIsKnown
<1>4. detected[t] \in Archs => mgr[t].arch = detected[t]
  BY <1>1, <1>2 DEF ThreadOk, CallIsKnown
<1> QED
  BY <1>3, <1>4 DEF imb_get_errno

LEMMA ManagersSound ==
  ASSUME SetupInv
  PROVE  ManagersAreSound
<1>1. TypeOK
  <2> SUFFICES ASSUME NEW t \in Threads
               PROVE  /\ mgr[t].live \in BOOLEAN /\ mgr[t].flags \subseteq Flags
                      /\ mgr[t].features \subseteq Features /\ mgr[t].errno \in Statuses
                      /\ mgr[t].arch \in Archs \cup {None}
                      /\ mgr[t].road \subseteq mgr[t].ptrs
                      /\ mgr[t].used \in [UsedOoos -> SUBSET Lanes]
                      /\ mgr[t].job_in_lane \in [UsedOoos -> SUBSET Lanes]
                      /\ mgr[t].twice \in [UsedOoos -> SUBSET Lanes]
    BY DEF SetupInv, Types, TypeOK
  <2>1. mgr[t].road \subseteq mgr[t].ptrs
    BY DEF SetupInv, ThreadOk, MemoryIsKnown
  <2> QED
    BY <2>1, MgrTypes DEF SetupInv, Mgrs
<1>2. HeapIsExact
  <2> SUFFICES ASSUME NEW t \in Threads, pc[t] = "idle"
               PROVE  heap[t] = IF mgr[t].live THEN Ooos \cup {"IMB_MGR"} ELSE {}
    BY DEF HeapIsExact
  <2>1. MemoryIsKnown(pc[t], mgr[t], heap[t], detected[t])
    BY DEF SetupInv, ThreadOk
  <2> QED
    BY <2>1 DEF MemoryIsKnown, Blocks
<1> QED
  BY <1>1, <1>2 DEF ManagersAreSound

LEMMA OldJobsAway ==
  ASSUME SetupInv
  PROVE  OldJobsStayAway
BY DEF SetupInv, ThreadOk, NoJobIsForgotten, KeepsOld, OldJobsStayAway

---------------------------------------------------------------------------
(* The steps *)

\* A step of thread t that leaves the others alone
LEMMA OneThread ==
  ASSUME SetupInv, Types', NEW t \in Threads, UNCHANGED cpu,
         \A u \in Threads \ {t} : /\ pc'[u] = pc[u] /\ mgr'[u] = mgr[u]
                                  /\ heap'[u] = heap[u] /\ detected'[u] = detected[u],
         \A a \in Archs : /\ selected[a] \subseteq selected'[a]
                          /\ selected'[a] \subseteq SelectedBy(a, Detected),
         ThreadOk(pc'[t], mgr'[t], heap'[t], detected'[t], Detected, selected')
  PROVE  SetupInv'
<1>1. Detected' = Detected
  BY DEF Detected
<1>2. ASSUME NEW u \in Threads \ {t}
      PROVE  ThreadOk(pc'[u], mgr'[u], heap'[u], detected'[u], Detected, selected')
  <2>1. ThreadOk(pc[u], mgr[u], heap[u], detected[u], Detected, selected)
    BY DEF SetupInv
  <2>2. ArchFits(mgr[u], Detected, selected')
    <3>1. mgr[u].arch # None => mgr[u].arch \in Archs
      BY MgrTypes DEF SetupInv, Mgrs
    <3> QED
      BY <2>1, <3>1 DEF ThreadOk, ArchFits
  <2> QED
    BY <2>1, <2>2 DEF ThreadOk
<1> QED
  BY <1>1, <1>2 DEF SetupInv

\* The same when the step selects nothing
LEMMA OneThreadOnly ==
  ASSUME SetupInv, Types', NEW t \in Threads, UNCHANGED <<cpu, selected>>,
         \A u \in Threads \ {t} : /\ pc'[u] = pc[u] /\ mgr'[u] = mgr[u]
                                  /\ heap'[u] = heap[u] /\ detected'[u] = detected[u],
         ThreadOk(pc'[t], mgr'[t], heap'[t], detected'[t], Detected, selected)
  PROVE  SetupInv'
<1>1. \A a \in Archs : /\ selected[a] \subseteq selected'[a]
                       /\ selected'[a] \subseteq SelectedBy(a, Detected)
  BY DEF SetupInv
<1>2. ThreadOk(pc'[t], mgr'[t], heap'[t], detected'[t], Detected, selected')
  OBVIOUS
<1> QED
  BY <1>1, <1>2, OneThread

LEMMA NoMgrType == NoMgr \in Mgrs /\ 0 \in Statuses /\ ENOMEM \in Statuses
                     /\ ENODEV \in Statuses /\ NULL_MBMGR \in Statuses
<1>1. [o \in UsedOoos |-> {}] \in [UsedOoos -> SUBSET Lanes]
  OBVIOUS
<1>2. 0 \in Statuses /\ ENOMEM \in Statuses /\ ENODEV \in Statuses /\ NULL_MBMGR \in Statuses
  BY DEF Statuses
<1> QED
  BY <1>1, <1>2 DEF NoMgr, Mgrs

\* A thread with no manager
LEMMA NoMgrOk ==
  ASSUME NEW D, NEW S
  PROVE  ThreadOk("idle", NoMgr, {}, "-", D, S)
BY DEF ThreadOk, FeaturesFromCpu, MemoryIsKnown, CallIsKnown, ArchFits, NoJobIsForgotten, NoMgr,
       None, Archs

LEMMA InitHolds ==
  ASSUME Init
  PROVE  SetupInv
<1>1. Types
  BY NoMgrType DEF Init, Types, Archs, Blocks
<1>2. \A t \in Threads : ThreadOk(pc[t], mgr[t], heap[t], detected[t], Detected, selected)
  BY NoMgrOk DEF Init
<1> QED
  BY <1>1, <1>2 DEF SetupInv, Init

LEMMA AllocMgrKeeps ==
  ASSUME SetupInv, NEW t \in Threads, AllocMgr(t)
  PROVE  SetupInv'
<1>1. PICK flags \in SUBSET Flags :
        imb_set_errno(t, [NoMgr EXCEPT !.live = TRUE, !.flags = flags,
                             !.features = cpu_feature_adjust(flags, Detected)], 0)
  BY DEF AllocMgr, Detected
<1> DEFINE F == cpu_feature_adjust(flags, Detected)
           new == [NoMgr EXCEPT !.live = TRUE, !.flags = flags, !.features = F]
           m == [new EXCEPT !.errno = 0]
<1>2. F \in SUBSET Features
  BY CpuTypes, FlagsTakeAway DEF SetupInv
<1> HIDE DEF F
<1>3. m \in Mgrs
  BY <1>2, NoMgrType DEF Mgrs
<1>4. /\ m.live /\ m.flags = flags /\ m.features = F /\ m.arch = None
      /\ m.ptrs = {} /\ m.road = {} /\ m.errno = 0 /\ m.twice = [o \in UsedOoos |-> {}]
  BY DEF NoMgr
<1>5. mgr' = [mgr EXCEPT ![t] = m] /\ imb_errno' = 0
  BY <1>1 DEF imb_set_errno, F
<1> HIDE DEF m
<1>6. Types'
  BY <1>3, <1>5, NoMgrType DEF SetupInv, Types, AllocMgr, Blocks
<1>7. /\ pc'[t] = "alloc" /\ mgr'[t] = m /\ heap'[t] = heap[t] \cup {"IMB_MGR"}
      /\ detected'[t] = detected[t]
  BY <1>5 DEF SetupInv, Types, AllocMgr
<1>8. heap[t] = {} /\ detected[t] = "-"
  BY DEF SetupInv, ThreadOk, MemoryIsKnown, AllocMgr
<1>9. ThreadOk(pc'[t], mgr'[t], heap'[t], detected'[t], Detected, selected)
  BY <1>4, <1>7, <1>8
  DEF ThreadOk, FeaturesFromCpu, MemoryIsKnown, CallIsKnown, ArchFits, NoJobIsForgotten, None,
      Archs, F
<1>10. \A u \in Threads \ {t} : /\ pc'[u] = pc[u] /\ mgr'[u] = mgr[u]
                                /\ heap'[u] = heap[u] /\ detected'[u] = detected[u]
  BY <1>5 DEF SetupInv, Types, AllocMgr
<1>11. UNCHANGED <<cpu, selected>>
  BY DEF AllocMgr
<1> QED
  BY <1>6, <1>9, <1>10, <1>11, OneThreadOnly

\* The steps that change no manager: an allocation or an init that fails at once
LEMMA NullKeeps ==
  ASSUME SetupInv, NEW t \in Threads, AllocMgrFails(t) \/ init_mb_mgr_null(t)
  PROVE  SetupInv'
<1>1. PICK e \in Statuses : imb_set_errno_null(e)
  BY NoMgrType DEF AllocMgrFails, init_mb_mgr_null
<1>2. /\ imb_errno' = e
      /\ UNCHANGED <<cpu, pc, mgr, heap, selected, detected>>
  BY <1>1 DEF AllocMgrFails, init_mb_mgr_null, imb_set_errno_null
<1>3. Types'
  BY <1>2 DEF SetupInv, Types
<1>4. ThreadOk(pc'[t], mgr'[t], heap'[t], detected'[t], Detected, selected)
  BY <1>2 DEF SetupInv
<1> QED
  BY <1>2, <1>3, <1>4, OneThreadOnly

LEMMA AllocOoosKeeps ==
  ASSUME SetupInv, NEW t \in Threads, AllocOoos(t)
  PROVE  SetupInv'
<1> DEFINE m == [mgr[t] EXCEPT !.ptrs = Ooos, !.road = Ooos]
<1>1. mgr[t] \in Mgrs /\ ThreadOk(pc[t], mgr[t], heap[t], detected[t], Detected, selected)
  BY MgrTypes DEF SetupInv
<1>2. m \in Mgrs
  BY <1>1 DEF Mgrs
<1>3. /\ m.live = mgr[t].live /\ m.flags = mgr[t].flags /\ m.features = mgr[t].features
      /\ m.arch = mgr[t].arch /\ m.ptrs = Ooos /\ m.road = Ooos /\ m.twice = mgr[t].twice
  BY <1>1 DEF Mgrs
<1>4. set_ooo_mgr_road_block([mgr[t] EXCEPT !.ptrs = Ooos]) = m
  BY <1>1 DEF set_ooo_mgr_road_block, Mgrs
<1>5. mgr' = [mgr EXCEPT ![t] = m]
  BY <1>4 DEF AllocOoos
<1> HIDE DEF m
<1>6. Types'
  BY <1>2, <1>5 DEF SetupInv, Types, AllocOoos, Blocks
<1>7. /\ pc[t] = "alloc" /\ pc'[t] = "idle" /\ mgr'[t] = m /\ heap'[t] = heap[t] \cup Ooos
      /\ detected'[t] = detected[t]
  BY <1>5 DEF SetupInv, Types, AllocOoos
<1>8. ThreadOk(pc'[t], mgr'[t], heap'[t], detected'[t], Detected, selected)
  BY <1>1, <1>3, <1>7
  DEF ThreadOk, FeaturesFromCpu, MemoryIsKnown, CallIsKnown, ArchFits, NoJobIsForgotten, None,
      Archs, Blocks, Mgrs
<1>9. \A u \in Threads \ {t} : /\ pc'[u] = pc[u] /\ mgr'[u] = mgr[u]
                               /\ heap'[u] = heap[u] /\ detected'[u] = detected[u]
  BY <1>5 DEF SetupInv, Types, AllocOoos
<1>10. UNCHANGED <<cpu, selected>>
  BY DEF AllocOoos
<1> QED
  BY <1>6, <1>8, <1>9, <1>10, OneThreadOnly

LEMMA AllocOooFailsKeeps ==
  ASSUME SetupInv, NEW t \in Threads, AllocOooFails(t)
  PROVE  SetupInv'
<1>1. MemoryIsKnown("alloc", mgr[t], heap[t], detected[t]) /\ pc[t] = "alloc"
  BY DEF SetupInv, ThreadOk, AllocOooFails
<1>2. mgr[t].live /\ heap[t] = {"IMB_MGR"} /\ detected[t] = "-"
  BY <1>1, MgrTypes DEF MemoryIsKnown, SetupInv, Mgrs
<1>3. PICK ptrs \in SUBSET Ooos :
        heap' = [heap EXCEPT ![t] = (@ \cup ptrs) \ (ptrs \cup {"IMB_MGR"})]
  <2>1. PICK k \in DOMAIN AllocOrder :
          LET ptrs == {AllocOrder[i] : i \in 1 .. (k - 1)}
          IN  heap' = [heap EXCEPT ![t] = (@ \cup ptrs) \ (ptrs \cup {"IMB_MGR"})]
    BY DEF AllocOooFails, FreedOnFailure
  <2>2. DOMAIN AllocOrder = 1 .. 25
    BY DEF AllocOrder
  <2>3. {AllocOrder[i] : i \in 1 .. (k - 1)} \in SUBSET Ooos
    BY <2>2 DEF Ooos
  <2> QED
    BY <2>1, <2>3
<1>4. heap'[t] = {}
  BY <1>2, <1>3 DEF SetupInv, Types
<1>5. /\ pc'[t] = "idle" /\ mgr'[t] = NoMgr /\ detected'[t] = "-"
  BY <1>2 DEF SetupInv, Types, AllocOooFails
<1>6. Types'
  <2>1. heap' \in [Threads -> SUBSET Blocks]
    BY <1>3, <1>4 DEF SetupInv, Types
  <2> QED
    BY <2>1, NoMgrType DEF SetupInv, Types, AllocOooFails
<1>7. ThreadOk(pc'[t], mgr'[t], heap'[t], detected'[t], Detected, selected)
  BY <1>4, <1>5, NoMgrOk
<1>8. \A u \in Threads \ {t} : /\ pc'[u] = pc[u] /\ mgr'[u] = mgr[u]
                               /\ heap'[u] = heap[u] /\ detected'[u] = detected[u]
  BY <1>3 DEF SetupInv, Types, AllocOooFails
<1>9. UNCHANGED <<cpu, selected>>
  BY DEF AllocOooFails
<1> QED
  BY <1>6, <1>7, <1>8, <1>9, OneThreadOnly

LEMMA FreeKeeps ==
  ASSUME SetupInv, NEW t \in Threads, free_mb_mgr(t)
  PROVE  SetupInv'
<1>1. MemoryIsKnown("idle", mgr[t], heap[t], detected[t]) /\ mgr[t].live
  BY DEF SetupInv, ThreadOk, free_mb_mgr
<1>2. heap[t] = Blocks /\ mgr[t].ptrs = Ooos
  BY <1>1 DEF MemoryIsKnown
<1>3. /\ pc'[t] = "idle" /\ mgr'[t] = NoMgr /\ detected'[t] = "-" /\ heap'[t] = {}
  BY <1>2 DEF SetupInv, Types, free_mb_mgr, Blocks
<1>4. Types'
  <2>1. heap' \in [Threads -> SUBSET Blocks]
    BY <1>3 DEF SetupInv, Types, free_mb_mgr
  <2> QED
    BY <2>1, NoMgrType DEF SetupInv, Types, free_mb_mgr
<1>5. ThreadOk(pc'[t], mgr'[t], heap'[t], detected'[t], Detected, selected)
  BY <1>3, NoMgrOk
<1>6. \A u \in Threads \ {t} : /\ pc'[u] = pc[u] /\ mgr'[u] = mgr[u]
                               /\ heap'[u] = heap[u] /\ detected'[u] = detected[u]
  BY DEF SetupInv, Types, free_mb_mgr
<1>7. UNCHANGED <<cpu, selected>>
  BY DEF free_mb_mgr
<1> QED
  BY <1>4, <1>5, <1>6, <1>7, OneThreadOnly

\* The steps of an init call that set the status, and go on to p with d chosen
LEMMA StatusSet ==
  ASSUME SetupInv, NEW t \in Threads,
         NEW e \in Statuses, NEW p \in {"idle", "auto"} \cup Archs,
         NEW d \in Archs \cup {None, "-"},
         pc[t] = "idle" \/ pc[t] = "auto", mgr[t].live,
         imb_set_errno(t, mgr[t], e),
         pc' = [pc EXCEPT ![t] = p], detected' = [detected EXCEPT ![t] = d],
         UNCHANGED <<cpu, heap, selected>>,
         p \in Archs => DetectMask[p] \subseteq Detected,
         d = None => p = "idle" /\ e = ENODEV,
         d \in Archs => DetectMask[d] \subseteq mgr[t].features /\ p = d,
         p = "auto" => d = "-"
  PROVE  SetupInv'
<1> DEFINE m == [mgr[t] EXCEPT !.errno = e]
<1>1. mgr[t] \in Mgrs /\ ThreadOk(pc[t], mgr[t], heap[t], detected[t], Detected, selected)
  BY MgrTypes DEF SetupInv
<1>2. m \in Mgrs
  BY <1>1 DEF Mgrs
<1>3. /\ m.live = mgr[t].live /\ m.flags = mgr[t].flags /\ m.features = mgr[t].features
      /\ m.arch = mgr[t].arch /\ m.ptrs = mgr[t].ptrs /\ m.road = mgr[t].road
      /\ m.used = mgr[t].used /\ m.job_in_lane = mgr[t].job_in_lane
      /\ m.twice = mgr[t].twice /\ m.errno = e
  BY <1>1 DEF Mgrs
<1>4. mgr' = [mgr EXCEPT ![t] = m] /\ imb_errno' = e
  BY DEF imb_set_errno
<1> HIDE DEF m
<1>5. Types'
  BY <1>2, <1>4 DEF SetupInv, Types
<1>6. pc'[t] = p /\ mgr'[t] = m /\ heap'[t] = heap[t] /\ detected'[t] = d
  BY <1>4 DEF SetupInv, Types
<1>7. FeaturesFromCpu(m, Detected) /\ ArchFits(m, Detected, selected)
  BY <1>1, <1>3 DEF ThreadOk, FeaturesFromCpu, ArchFits
<1>8. MemoryIsKnown(p, m, heap[t], d)
  <2>1. p # "alloc" /\ pc[t] # "alloc"
    BY DEF Archs
  <2> QED
    BY <1>1, <1>3, <2>1 DEF ThreadOk, MemoryIsKnown
<1>9. CallIsKnown(p, m, d, Detected)
  BY <1>3 DEF CallIsKnown
<1>10. NoJobIsForgotten(m)
  BY <1>1, <1>3 DEF ThreadOk, NoJobIsForgotten
<1>11. ThreadOk(pc'[t], mgr'[t], heap'[t], detected'[t], Detected, selected)
  BY <1>6, <1>7, <1>8, <1>9, <1>10 DEF ThreadOk
<1>12. \A u \in Threads \ {t} : /\ pc'[u] = pc[u] /\ mgr'[u] = mgr[u]
                                /\ heap'[u] = heap[u] /\ detected'[u] = detected[u]
  BY <1>4 DEF SetupInv, Types
<1> QED
  BY <1>5, <1>11, <1>12, OneThreadOnly

LEMMA InitCallKeeps ==
  ASSUME SetupInv, NEW t \in Threads,
         init_mb_mgr_auto(t) \/ ChooseArch(t) \/ ChooseNone(t) \/ init_mb_mgr(t)
  PROVE  SetupInv'
<1>1. Detected \in SUBSET Features /\ mgr[t] \in Mgrs
  BY CpuTypes, MgrTypes DEF SetupInv
<1>2. /\ ThreadOk(pc[t], mgr[t], heap[t], detected[t], Detected, selected)
      /\ "auto" \notin Archs /\ "idle" \notin Archs /\ "-" \notin Archs /\ None \notin Archs
      /\ None # "-"
  BY DEF SetupInv, Archs, None
<1>3. CASE init_mb_mgr_auto(t)
  <2>1. /\ pc[t] = "idle" /\ mgr[t].live /\ imb_set_errno(t, mgr[t], 0)
        /\ pc' = [pc EXCEPT ![t] = "auto"] /\ detected' = [detected EXCEPT ![t] = "-"]
        /\ UNCHANGED <<cpu, heap, selected>>
    BY <1>3 DEF init_mb_mgr_auto
  <2> QED
    BY <1>2, <2>1, NoMgrType, StatusSet
<1>4. ASSUME pc[t] = "auto"
      PROVE  mgr[t].live /\ mgr[t].features \in SUBSET Features
             /\ mgr[t].features \subseteq Detected
  <2>1. mgr[t].live
    BY <1>1, <1>2, <1>4 DEF ThreadOk, MemoryIsKnown, Mgrs
  <2>2. mgr[t].features = cpu_feature_adjust(mgr[t].flags, Detected)
    BY <1>2, <2>1 DEF ThreadOk, FeaturesFromCpu
  <2>3. mgr[t].flags \in SUBSET Flags
    BY <1>1 DEF Mgrs
  <2> QED
    BY <1>1, <2>1, <2>2, <2>3, FlagsTakeAway
<1>5. CASE ChooseArch(t)
  <2> DEFINE a == ArchFor(mgr[t].features)
  <2>1. /\ pc[t] = "auto" /\ a # None /\ imb_set_errno(t, mgr[t], 0)
        /\ pc' = [pc EXCEPT ![t] = a] /\ detected' = [detected EXCEPT ![t] = a]
        /\ UNCHANGED <<cpu, heap, selected>>
    BY <1>5 DEF ChooseArch
  <2>2. a \in Archs /\ DetectMask[a] \subseteq mgr[t].features
    BY <1>4, <2>1, ArchForFits
  <2> HIDE DEF a
  <2>3. DetectMask[a] \subseteq Detected
    BY <1>4, <2>1, <2>2
  <2> QED
    BY <1>2, <1>4, <2>1, <2>2, <2>3, NoMgrType, StatusSet
<1>6. CASE ChooseNone(t)
  <2>1. /\ pc[t] = "auto" /\ imb_set_errno(t, mgr[t], ENODEV)
        /\ pc' = [pc EXCEPT ![t] = "idle"] /\ detected' = [detected EXCEPT ![t] = None]
        /\ UNCHANGED <<cpu, heap, selected>>
    BY <1>6 DEF ChooseNone
  <2> QED
    BY <1>2, <1>4, <2>1, NoMgrType, StatusSet
<1>7. CASE init_mb_mgr(t)
  <2>1. /\ pc[t] = "idle" /\ mgr[t].live /\ imb_set_errno(t, mgr[t], 0)
        /\ detected' = [detected EXCEPT ![t] = "-"] /\ UNCHANGED <<cpu, heap, selected>>
    BY <1>7 DEF init_mb_mgr
  <2>2. PICK a \in Archs : DetectMask[a] \subseteq Detected /\ pc' = [pc EXCEPT ![t] = a]
    BY <1>7 DEF init_mb_mgr, Detected
  <2> QED
    BY <1>2, <2>1, <2>2, NoMgrType, StatusSet
<1> QED
  BY <1>3, <1>5, <1>6, <1>7

LEMMA InitFieldsKeeps ==
  ASSUME SetupInv, NEW t \in Threads, InitFields(t)
  PROVE  SetupInv'
<1> DEFINE F == IF pc[t] = "noaesni" THEN mgr[t].features
                ELSE cpu_feature_adjust(mgr[t].flags, cpu_feature_detect(cpu))
           a == ArchInit(pc[t], F)
           m == Reset(mgr[t], a, F)
<1>1. /\ Detected \in SUBSET Features /\ mgr[t] \in Mgrs /\ cpu \in Cpus
      /\ ThreadOk(pc[t], mgr[t], heap[t], detected[t], Detected, selected)
  BY CpuTypes, MgrTypes DEF SetupInv, Types
<1>2. /\ pc[t] \in Archs /\ mgr' = [mgr EXCEPT ![t] = m]
      /\ selected' = [selected EXCEPT ![a] = @ \cup SelectedBy(a, F)]
      /\ pc' = [pc EXCEPT ![t] = "idle"]
      /\ UNCHANGED <<cpu, heap, imb_errno, detected>>
  BY DEF InitFields
<1>3. pc[t] # "idle" /\ pc[t] # "alloc" /\ pc[t] # "auto"
  BY <1>2 DEF Archs
<1>4. mgr[t].live
  BY <1>1, <1>3 DEF ThreadOk, MemoryIsKnown, Mgrs
<1>5. F = cpu_feature_adjust(mgr[t].flags, Detected) /\ mgr[t].flags \in SUBSET Flags
  BY <1>1, <1>4 DEF ThreadOk, FeaturesFromCpu, Mgrs, Detected
<1>6. F \in SUBSET Features
  BY <1>1, <1>5, FlagsTakeAway
<1>7. a \in Archs /\ a \in {pc[t], "noaesni"} /\ (a # "noaesni" => "AESNI" \in F)
  BY <1>2 DEF ArchInit, Archs
<1>8. DetectMask[a] \subseteq Detected
  <2>1. DetectMask[pc[t]] \subseteq Detected
    BY <1>1, <1>2 DEF ThreadOk, CallIsKnown
  <2>2. DetectMask["noaesni"] \subseteq Detected
    BY <1>1, <1>2, <2>1, MasksHold DEF Detected
  <2> QED
    BY <1>7, <2>1, <2>2
<1>9. detected[t] \in Archs => a = detected[t] /\ DetectMask[detected[t]] \subseteq F
  <2> SUFFICES ASSUME detected[t] \in Archs
               PROVE  a = detected[t] /\ DetectMask[detected[t]] \subseteq F
    OBVIOUS
  <2>1. pc[t] = detected[t] /\ DetectMask[detected[t]] \subseteq mgr[t].features
    BY <1>1, <1>3 DEF ThreadOk, CallIsKnown
  <2>2. mgr[t].features = F
    BY <1>1, <1>4, <1>5 DEF ThreadOk, FeaturesFromCpu
  <2>3. DetectMask[pc[t]] \subseteq F
    BY <2>1, <2>2
  <2>4. a = pc[t]
    BY <1>2, <2>3, ArchInitKeeps
  <2> QED
    BY <2>1, <2>2, <2>4
<1>10. SelectedBy(a, F) = SelectedBy(a, Detected)
  BY <1>1, <1>5, <1>7, SelectedAlike
<1> HIDE DEF F, a
<1>11. /\ m \in Mgrs
       /\ m.live = mgr[t].live /\ m.flags = mgr[t].flags /\ m.features = F /\ m.arch = a
       /\ m.ptrs = mgr[t].ptrs /\ m.road \subseteq mgr[t].road /\ m.errno = mgr[t].errno
       /\ m.used = [o \in UsedOoos |->
                      IF o \in DOMAIN Initialised(a, F) THEN {} ELSE mgr[t].used[o]]
       /\ m.job_in_lane = [o \in UsedOoos |->
                             IF o \in KeepsJobs(a) THEN mgr[t].job_in_lane[o] ELSE {}]
       /\ m.twice = [o \in UsedOoos |->
                       IF o \in DOMAIN Initialised(a, F) THEN {} ELSE mgr[t].twice[o]]
  <2> DEFINE used == [o \in UsedOoos |->
                        IF o \in DOMAIN Initialised(a, F) THEN {} ELSE mgr[t].used[o]]
             kept == [o \in UsedOoos |-> IF o \in KeepsJobs(a) THEN mgr[t].job_in_lane[o] ELSE {}]
             twice == [o \in UsedOoos |->
                         IF o \in DOMAIN Initialised(a, F) THEN {} ELSE mgr[t].twice[o]]
             road == mgr[t].road \ Wipes(a)
  <2>1. /\ used \in [UsedOoos -> SUBSET Lanes] /\ kept \in [UsedOoos -> SUBSET Lanes]
        /\ twice \in [UsedOoos -> SUBSET Lanes]
    BY <1>1 DEF Mgrs
  <2>2. road \in SUBSET Ooos /\ road \subseteq mgr[t].road
    BY <1>1 DEF Mgrs
  <2>3. m = [mgr[t] EXCEPT !.features = F, !.arch = a, !.road = road, !.used = used,
                           !.twice = twice, !.job_in_lane = kept]
    BY DEF Reset
  <2> HIDE DEF used, kept, twice, road, m
  <2>4. /\ m \in Mgrs
        /\ m.live = mgr[t].live /\ m.flags = mgr[t].flags /\ m.features = F /\ m.arch = a
        /\ m.ptrs = mgr[t].ptrs /\ m.road = road /\ m.errno = mgr[t].errno
        /\ m.used = used /\ m.job_in_lane = kept /\ m.twice = twice
    BY <1>1, <1>6, <1>7, <2>1, <2>2, <2>3 DEF Mgrs
  <2> QED
    BY <2>2, <2>4 DEF used, kept, twice
<1> HIDE DEF m
<1>12. NoJobIsForgotten(m)
  <2>1. ASSUME NEW o \in UsedOoos, o \in DOMAIN Initialised(a, F)
        PROVE  m.job_in_lane[o] = m.used[o] \/ KeepsOld(o, a)
    <3>1. m.used[o] = {}
      BY <1>11, <2>1
    <3>2. CASE o \notin KeepsJobs(a)
      BY <1>11, <3>1, <3>2
    <3>3. CASE o \in KeepsJobs(a)
      <4>1. o \in DesOoos => a = "avx512"
        BY <1>7, <2>1, DesNotSetUp
      <4> QED
        BY <3>3, <4>1 DEF KeepsJobs, KeepsOld
    <3> QED
      BY <3>2, <3>3
  <2>2. ASSUME NEW o \in UsedOoos, m.twice[o] # {} PROVE FALSE
    <3>1. o \notin DOMAIN Initialised(a, F) /\ mgr[t].twice[o] # {}
      BY <1>11, <2>2
    <3>2. o = "aes_xcbc"
      BY <1>1, <3>1 DEF ThreadOk, NoJobIsForgotten, KeepsOld
    <3> QED
      BY <1>7, <3>1, <3>2, XcbcIsSetUp
  <2> QED
    BY <1>11, <2>1, <2>2 DEF NoJobIsForgotten
<1>13. selected'[a] = selected[a] \cup SelectedBy(a, Detected)
       /\ \A b \in Archs \ {a} : selected'[b] = selected[b]
  BY <1>2, <1>7, <1>10 DEF SetupInv, Types
<1>14. Types'
  <2>1. SelectedBy(a, F) \in SUBSET Features
    BY <1>6, <1>7, SelectedTypes
  <2>2. selected' \in [Archs -> SUBSET Features]
    BY <1>2, <1>7, <2>1 DEF SetupInv, Types
  <2> QED
    BY <1>2, <1>11, <2>2 DEF SetupInv, Types
<1>15. pc'[t] = "idle" /\ mgr'[t] = m /\ heap'[t] = heap[t] /\ detected'[t] = detected[t]
  BY <1>2 DEF SetupInv, Types
<1>16. ThreadOk("idle", m, heap[t], detected[t], Detected, selected')
  <2>1. FeaturesFromCpu(m, Detected)
    BY <1>5, <1>11 DEF FeaturesFromCpu
  <2>2. MemoryIsKnown("idle", m, heap[t], detected[t])
    BY <1>1, <1>3, <1>4, <1>11 DEF ThreadOk, MemoryIsKnown
  <2>3. CallIsKnown("idle", m, detected[t], Detected)
    <3>1. detected[t] # None /\ "idle" \notin Archs
      BY <1>1, <1>3 DEF ThreadOk, CallIsKnown, Archs
    <3> QED
      BY <1>9, <1>11, <3>1 DEF CallIsKnown
  <2>4. ArchFits(m, Detected, selected')
    BY <1>7, <1>8, <1>11, <1>13 DEF ArchFits
  <2> QED
    BY <1>12, <2>1, <2>2, <2>3, <2>4 DEF ThreadOk
<1>17. \A b \in Archs : selected[b] \subseteq selected'[b]
                        /\ selected'[b] \subseteq SelectedBy(b, Detected)
  BY <1>7, <1>13 DEF SetupInv
<1>18. \A u \in Threads \ {t} : /\ pc'[u] = pc[u] /\ mgr'[u] = mgr[u]
                                /\ heap'[u] = heap[u] /\ detected'[u] = detected[u]
  BY <1>2 DEF SetupInv, Types
<1>19. UNCHANGED cpu
  BY <1>2
<1> QED
  BY <1>14, <1>15, <1>16, <1>17, <1>18, <1>19, OneThread

\* A change in an OOO manager in use that keeps a manager sound
JobChange(m, o, used, job_in_lane, twice) ==
  [m EXCEPT !.used[o] = used, !.job_in_lane[o] = job_in_lane, !.twice[o] = twice]

\* n: the manager m after a job was put in the lane, or given back from it
JobMoves(m, o, lane, n) ==
  \/ n = [m EXCEPT !.used[o] = @ \cup {lane}, !.job_in_lane[o] = @ \cup {lane}]
  \/ lane \in m.job_in_lane[o] /\ n = GiveBack(m, o, lane)

SoundChange(m, o, used, job_in_lane, twice, n) ==
  /\ n = JobChange(m, o, used, job_in_lane, twice)
  /\ job_in_lane = used \/ KeepsOld(o, m.arch)
  /\ twice # {} => KeepsOld(o, m.arch)

\* A job enters or leaves a lane: the lanes taken and those with a job change alike,
\* if they were the same; and then the lane given back is one of those taken.
LEMMA JobsChange ==
  ASSUME NEW m \in Mgrs, NEW o \in UsedOoos, NEW lane \in Lanes, NoJobIsForgotten(m),
         m.arch # None, o \in DOMAIN Initialised(m.arch, m.features),
         NEW n, JobMoves(m, o, lane, n)
  PROVE  \E used, job_in_lane, twice \in SUBSET Lanes :
           SoundChange(m, o, used, job_in_lane, twice, n)
<1> DEFINE U == m.used[o]
           J == m.job_in_lane[o]
           T == m.twice[o]
           T2 == IF lane \in U THEN T ELSE T \cup {lane}
<1>1. U \in SUBSET Lanes /\ J \in SUBSET Lanes /\ T \in SUBSET Lanes
  BY DEF Mgrs
<1>2. (J = U \/ KeepsOld(o, m.arch)) /\ (T # {} => KeepsOld(o, m.arch))
  BY DEF NoJobIsForgotten
<1>3. CASE n = [m EXCEPT !.used[o] = @ \cup {lane}, !.job_in_lane[o] = @ \cup {lane}]
  <2>1. n = JobChange(m, o, U \cup {lane}, J \cup {lane}, T)
    BY <1>3 DEF JobChange, Mgrs
  <2>2. U \cup {lane} \in SUBSET Lanes /\ J \cup {lane} \in SUBSET Lanes
    BY <1>1
  <2>3. J \cup {lane} = U \cup {lane} \/ KeepsOld(o, m.arch)
    BY <1>2
  <2> HIDE DEF U, J, T
  <2>4. SoundChange(m, o, U \cup {lane}, J \cup {lane}, T, n)
    BY <1>2, <2>1, <2>3 DEF SoundChange
  <2> QED
    BY <1>1, <2>2, <2>4
<1>4. CASE lane \in J /\ n = GiveBack(m, o, lane)
  <2>1. n = JobChange(m, o, U \ {lane}, J \ {lane}, T2)
    BY <1>4 DEF JobChange, GiveBack, Mgrs
  <2>2. U \ {lane} \in SUBSET Lanes /\ J \ {lane} \in SUBSET Lanes /\ T2 \in SUBSET Lanes
    BY <1>1
  <2>3. T2 # {} => KeepsOld(o, m.arch)
    BY <1>2, <1>4
  <2>4. J \ {lane} = U \ {lane} \/ KeepsOld(o, m.arch)
    BY <1>2
  <2> HIDE DEF U, J, T, T2
  <2>5. SoundChange(m, o, U \ {lane}, J \ {lane}, T2, n)
    BY <2>1, <2>3, <2>4 DEF SoundChange
  <2> QED
    BY <2>2, <2>5
<1> QED
  BY <1>3, <1>4 DEF JobMoves

LEMMA JobsKeep ==
  ASSUME SetupInv, NEW t \in Threads, NEW o \in UsedOoos, NEW lane \in Lanes,
         Queue(t, o, lane) \/ Return(t, o, lane)
  PROVE  SetupInv'
<1>1. /\ mgr[t] \in Mgrs
      /\ ThreadOk(pc[t], mgr[t], heap[t], detected[t], Detected, selected)
  BY MgrTypes DEF SetupInv
<1>2. /\ pc[t] = "idle" /\ mgr[t].arch # None
      /\ o \in DOMAIN Initialised(mgr[t].arch, mgr[t].features)
      /\ UNCHANGED <<cpu, pc, heap, selected, imb_errno, detected>>
  BY DEF Queue, Return, Reaches
<1>3. PICK m : /\ mgr' = [mgr EXCEPT ![t] = m]
               /\ JobMoves(mgr[t], o, lane, m)
  BY DEF Queue, Return, JobMoves
<1>4. PICK used \in SUBSET Lanes, job_in_lane \in SUBSET Lanes, twice \in SUBSET Lanes :
        /\ m = JobChange(mgr[t], o, used, job_in_lane, twice)
        /\ job_in_lane = used \/ KeepsOld(o, mgr[t].arch)
        /\ twice # {} => KeepsOld(o, mgr[t].arch)
  <2> DEFINE old == mgr[t]
  <2>1. old \in Mgrs /\ NoJobIsForgotten(old)
    BY <1>1 DEF ThreadOk
  <2>2. /\ old.arch # None /\ o \in DOMAIN Initialised(old.arch, old.features)
        /\ JobMoves(old, o, lane, m)
    BY <1>2, <1>3
  <2> HIDE DEF old
  <2>3. \E used, job_in_lane, twice \in SUBSET Lanes :
          SoundChange(old, o, used, job_in_lane, twice, m)
    BY <2>1, <2>2, JobsChange
  <2> QED
    BY <2>3 DEF old, SoundChange
<1>5. /\ m \in Mgrs
      /\ m.live = mgr[t].live /\ m.flags = mgr[t].flags /\ m.features = mgr[t].features
      /\ m.arch = mgr[t].arch /\ m.ptrs = mgr[t].ptrs /\ m.road = mgr[t].road
      /\ m.errno = mgr[t].errno
      /\ m.used = [mgr[t].used EXCEPT ![o] = used]
      /\ m.job_in_lane = [mgr[t].job_in_lane EXCEPT ![o] = job_in_lane]
      /\ m.twice = [mgr[t].twice EXCEPT ![o] = twice]
  BY <1>1, <1>4 DEF JobChange, Mgrs
<1>6. NoJobIsForgotten(m)
  <2>1. ASSUME NEW x \in UsedOoos
        PROVE  /\ m.used[x] = IF x = o THEN used ELSE mgr[t].used[x]
               /\ m.job_in_lane[x] = IF x = o THEN job_in_lane ELSE mgr[t].job_in_lane[x]
               /\ m.twice[x] = IF x = o THEN twice ELSE mgr[t].twice[x]
    BY <1>1, <1>5 DEF Mgrs
  <2> QED
    BY <1>1, <1>4, <1>5, <2>1 DEF ThreadOk, NoJobIsForgotten
<1>7. Types'
  BY <1>2, <1>3, <1>5 DEF SetupInv, Types
<1>8. pc'[t] = pc[t] /\ mgr'[t] = m /\ heap'[t] = heap[t] /\ detected'[t] = detected[t]
  BY <1>2, <1>3 DEF SetupInv, Types
<1>9. ThreadOk(pc[t], m, heap[t], detected[t], Detected, selected)
  BY <1>1, <1>5, <1>6 DEF ThreadOk, FeaturesFromCpu, MemoryIsKnown, CallIsKnown, ArchFits
<1>10. \A u \in Threads \ {t} : /\ pc'[u] = pc[u] /\ mgr'[u] = mgr[u]
                                /\ heap'[u] = heap[u] /\ detected'[u] = detected[u]
  BY <1>2, <1>3 DEF SetupInv, Types
<1> QED
  BY <1>2, <1>7, <1>8, <1>9, <1>10, OneThreadOnly

LEMMA StepKeeps ==
  ASSUME SetupInv, [Next]_vars
  PROVE  SetupInv'
<1>1. CASE UNCHANGED vars
  BY <1>1 DEF vars, SetupInv, Types, Detected
<1>2. ASSUME NEW t \in Threads,
             \/ AllocMgr(t) \/ AllocMgrFails(t) \/ AllocOoos(t) \/ AllocOooFails(t)
             \/ free_mb_mgr(t) \/ init_mb_mgr_auto(t) \/ ChooseArch(t) \/ ChooseNone(t)
             \/ init_mb_mgr(t) \/ init_mb_mgr_null(t) \/ InitFields(t) \/ Jobs(t)
      PROVE  SetupInv'
  BY <1>2, AllocMgrKeeps, NullKeeps, AllocOoosKeeps, AllocOooFailsKeeps, FreeKeeps,
     InitCallKeeps, InitFieldsKeeps, JobsKeep DEF Jobs
<1> QED
  BY <1>1, <1>2 DEF Next

---------------------------------------------------------------------------
(* The theorems *)

LEMMA AlwaysSetupInv == Spec => []SetupInv
<1>1. Init => SetupInv
  BY InitHolds
<1>2. SetupInv /\ [Next]_vars => SetupInv'
  BY StepKeeps
<1> QED
  BY <1>1, <1>2, PTL DEF Spec

\* Whatever threads set up managers for whichever architectures, the lanes and the
\* lengths an init function wrote are those the kernels behind the manager's
\* handlers expect (init_mb_mgr_*), although the choice of the kernels is shared.
THEOREM LanesAlwaysMatchKernels == Spec => []LanesMatchKernels
<1>1. SetupInv => LanesMatchKernels
  BY LanesMatch
<1> QED
  BY <1>1, AlwaysSetupInv, PTL

\* No manager ever has handlers, its own or by the shared pointers, of an extension
\* that the CPU lacks or that the flags of alloc_mb_mgr rule out.
THEOREM KernelsAlwaysRunOnCpu == Spec => []KernelsRunOnCpu
<1>1. SetupInv => KernelsRunOnCpu
  BY KernelsRun
<1> QED
  BY <1>1, AlwaysSetupInv, PTL

\* What init_mb_mgr_auto reports is what the manager was set up for.
THEOREM AutoAlwaysReportsWhatRuns == Spec => []AutoReportsWhatRuns
<1>1. SetupInv => AutoReportsWhatRuns
  BY AutoReports
<1> QED
  BY <1>1, AlwaysSetupInv, PTL

\* Types, and the memory of a manager: alloc_mb_mgr leaks nothing at whichever of
\* its allocations it fails, and free_mb_mgr gives back all there is.
THEOREM ManagersAlwaysSound == Spec => []ManagersAreSound
<1>1. SetupInv => ManagersAreSound
  BY ManagersSound
<1> QED
  BY <1>1, AlwaysSetupInv, PTL

\* In whatever order a manager is set up for architectures and jobs enter and leave
\* its lanes, no submit or flush gives back a job of before the last init, XCBC of
\* AVX2 and AVX512 excepted (Reset, GiveBack): no lane is on a stack twice.
THEOREM OldJobsAlwaysStayAway == Spec => []OldJobsStayAway
<1>1. SetupInv => OldJobsStayAway
  BY OldJobsAway
<1> QED
  BY <1>1, AlwaysSetupInv, PTL

=============================================================================
