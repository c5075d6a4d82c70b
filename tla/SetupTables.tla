---------------------------- MODULE SetupTables ----------------------------
(***************************************************************************)
(* What the set-up code knows before any manager exists: the features of   *)
(* the CPU (lib/cpu_feature.c), the choice of init_mb_mgr_auto, and, for   *)
(* each of the five init_mb_mgr_*, the lanes it gives every OOO manager    *)
(* and the kernels its function pointers select.                           *)
(*                                                                         *)
(* The two tables of an architecture, Init* (what the init function writes *)
(* in the manager) and Kernels* (what the submit and flush function behind *)
(* the dispatch macro expects), are separate text in the code; nothing     *)
(* there compares them.                                                    *)
(*                                                                         *)
(* A definition named X_Defect is X with a slip; no specification uses it. *)
(***************************************************************************)
EXTENDS Integers

\* f, and g where f says nothing.  (TLC's @@ has no definition for the provers.)
f ++ g ==
  [x \in DOMAIN f \cup DOMAIN g |-> IF x \in DOMAIN f THEN f[x] ELSE g[x]]

---------------------------------------------------------------------------
(* CPU features *)

\* A CPU: the highest CPUID leaf and the feature bits of leaves 1 and 7.

\* req_leaf_number of feat_tab
feat_tab ==
  [f \in {"AESNI", "PCLMULQDQ", "CMOV", "SSE4_2", "AVX"} |-> 1]
    ++ [f \in {"SHANI", "AVX2", "AVX512F", "AVX512DQ", "AVX512CD", "AVX512BW",
               "AVX512VL", "VAES", "VPCLMULQDQ", "GFNI"} |-> 7]

Features == DOMAIN feat_tab

AVX512_SKX == {"AVX512F", "AVX512DQ", "AVX512CD", "AVX512BW", "AVX512VL"}

cpu_feature_detect(cpu) ==
  {f \in cpu.bits : feat_tab[f] <= cpu.leaf}

Flags == {"SHANI_OFF", "AESNI_OFF"}

\* SHANI_OFF taken to mean every extension that came with SHA-NI
cpu_feature_adjust_Defect(flags, features) ==
  features \ ((IF "SHANI_OFF" \in flags THEN {"SHANI", "GFNI", "VAES"} ELSE {})
                \cup (IF "AESNI_OFF" \in flags THEN {"AESNI"} ELSE {}))

cpu_feature_adjust(flags, features) ==
  features \ ((IF "SHANI_OFF" \in flags THEN {"SHANI"} ELSE {})
                \cup (IF "AESNI_OFF" \in flags THEN {"AESNI"} ELSE {}))

---------------------------------------------------------------------------
(* Architectures *)

Archs == {"noaesni", "sse", "avx", "avx2", "avx512"}

\* AVX512F taken for all of IMB_FEATURE_AVX512_SKX
DetectMask_Defect ==
  [noaesni |-> {"SSE4_2", "CMOV"},
   sse     |-> {"SSE4_2", "CMOV", "AESNI", "PCLMULQDQ"},
   avx     |-> {"AVX", "CMOV", "AESNI"},
   avx2    |-> {"AVX2", "AVX", "CMOV", "AESNI"},
   avx512  |-> {"AVX512F", "AVX2", "AVX", "CMOV", "AESNI"}]

\* The AVX2 mask without that of AVX in it
DetectMask_DefectAvx2 ==
  [noaesni |-> {"SSE4_2", "CMOV"},
   sse     |-> {"SSE4_2", "CMOV", "AESNI", "PCLMULQDQ"},
   avx     |-> {"AVX", "CMOV", "AESNI"},
   avx2    |-> {"AVX2"},
   avx512  |-> AVX512_SKX \cup {"AVX2", "AVX", "CMOV", "AESNI"}]

\* detect_no_aesni ... detect_avx512
DetectMask ==
  [noaesni |-> {"SSE4_2", "CMOV"},
   sse     |-> {"SSE4_2", "CMOV", "AESNI", "PCLMULQDQ"},
   avx     |-> {"AVX", "CMOV", "AESNI"},
   avx2    |-> {"AVX2", "AVX", "CMOV", "AESNI"},
   avx512  |-> AVX512_SKX \cup {"AVX2", "AVX", "CMOV", "AESNI"}]

AutoOrder == <<"avx512", "avx2", "avx", "sse", "noaesni">>

\* the first mask in the order of the tests; "none" is IMB_ARCH_NONE
ArchFor(features) ==
  LET fits == {i \in DOMAIN AutoOrder : DetectMask[AutoOrder[i]] \subseteq features}
  IN  IF fits = {} THEN "none"
      ELSE AutoOrder[CHOOSE i \in fits : \A k \in fits : i <= k]

---------------------------------------------------------------------------
(* The OOO managers of an IMB_MGR *)

AesOoos    == {"aes128", "aes192", "aes256"}
DocsisOoos == {"docsis128_sec", "docsis256_sec"}
CrcOoos    == {"docsis128_crc32_sec", "docsis256_crc32_sec"}
DesOoos    == {"des_enc", "des_dec", "des3_enc", "des3_dec", "docsis_des_enc",
               "docsis_des_dec"}
ShaOoos    == {"hmac_sha_1", "hmac_sha_224", "hmac_sha_256"}
Sha512Ooos == {"hmac_sha_384", "hmac_sha_512"}

AllocOrder ==
  <<"aes128", "aes192", "aes256", "docsis128_sec", "docsis128_crc32_sec",
    "docsis256_sec", "docsis256_crc32_sec", "des_enc", "des_dec", "des3_enc",
    "des3_dec", "docsis_des_enc", "docsis_des_dec", "zuc_eea3", "hmac_sha_1",
    "hmac_sha_224", "hmac_sha_256", "hmac_sha_384", "hmac_sha_512", "hmac_md5",
    "aes_xcbc", "aes_ccm", "aes_cmac", "zuc_eia3", "aes128_cbcs">>

Ooos == {AllocOrder[i] : i \in DOMAIN AllocOrder}

\* Of an OOO manager just initialised: its lanes, the words of lens that were
\* written, and the length in those of them that belong to no lane.
Fresh(S, lanes, words, spare) ==
  [o \in S |-> [lanes |-> lanes, words |-> words, spare |-> spare]]

\* Of a kernel: its lanes, the words of lens its search for the least length
\* goes through, and if it masks those of no lane before it searches.
Kernel(S, lanes, search, masks) ==
  [o \in S |-> [lanes |-> lanes, search |-> search, masks |-> masks]]

\* The architecture an init function ends up with: without AESNI each of them
\* leaves the work to init_mb_mgr_sse_no_aesni.
ArchInit(arch, features) == IF "AESNI" \in features THEN arch ELSE "noaesni"

---------------------------------------------------------------------------
(* init_mb_mgr_sse_no_aesni *)

InitAesNoAesni ==
  Fresh(AesOoos \cup DocsisOoos \cup CrcOoos, 4, 16, "max")

InitZucNoAesni == Fresh({"zuc_eea3"}, 4, 16, "zero") ++ Fresh({"zuc_eia3"}, 4, 16, "max")

InitShaNoAesni == Fresh(ShaOoos, 4, 8, "max")

InitSha512NoAesni == Fresh(Sha512Ooos, 2, 8, "max") ++ Fresh({"hmac_md5"}, 8, 16, "max")

InitMacNoAesni ==
  Fresh({"aes_xcbc", "aes_ccm", "aes128_cbcs"}, 4, 16, "max") ++ Fresh({"aes_cmac"}, 4, 8, "max")

\* aes_ccm_ooo is wiped as a whole, to its last byte
WipedNoAesni == {"aes_ccm"}

KernelsNoAesni ==
  Kernel(AesOoos \cup DocsisOoos \cup CrcOoos \cup ShaOoos
           \cup {"aes_xcbc", "aes_ccm", "aes_cmac", "aes128_cbcs", "zuc_eia3"}, 4, 8, FALSE)
    ++ Kernel({"zuc_eea3"}, 4, 8, TRUE)
    ++ Kernel(Sha512Ooos, 2, 8, FALSE) ++ Kernel({"hmac_md5"}, 8, 8, FALSE)

NeedsNoAesni == {"SSE4_2"}

---------------------------------------------------------------------------
(* init_mb_mgr_sse *)

\* The function pointers of the file that the init selects, for good.
SelectSse(features) == features \cap {"GFNI"}

AesLanesSse(features) == IF "GFNI" \in features THEN 8 ELSE 4

InitAesSse(features) ==
  Fresh(AesOoos \cup DocsisOoos \cup CrcOoos, AesLanesSse(features), 16, "max")

InitZucSse == Fresh({"zuc_eea3"}, 4, 16, "zero") ++ Fresh({"zuc_eia3"}, 4, 16, "max")

InitShaSse(features) == Fresh(ShaOoos, IF "SHANI" \in features THEN 2 ELSE 4, 8, "max")

InitSha512Sse == Fresh(Sha512Ooos, 2, 8, "max") ++ Fresh({"hmac_md5"}, 8, 16, "max")

InitMacSse(features) ==
  Fresh({"aes_ccm", "aes_cmac"}, AesLanesSse(features), 16, "max")
    ++ Fresh({"aes_xcbc", "aes128_cbcs"}, 4, 16, "max")

AesKernelsSse(selected) ==
  Kernel(AesOoos \cup DocsisOoos \cup CrcOoos \cup {"aes_ccm", "aes_cmac"},
         AesLanesSse(selected), 8, FALSE)

\* SUBMIT_JOB_HMAC or SUBMIT_JOB_HMAC_NI, by the features of the manager
ShaKernelsSse(features) ==
  IF "SHANI" \in features THEN Kernel(ShaOoos, 2, 2, FALSE) ELSE Kernel(ShaOoos, 4, 8, FALSE)

OtherKernelsSse ==
  Kernel({"aes_xcbc", "aes128_cbcs", "zuc_eia3"}, 4, 8, FALSE) ++ Kernel({"zuc_eea3"}, 4, 8, TRUE)
    ++ Kernel(Sha512Ooos, 2, 8, FALSE) ++ Kernel({"hmac_md5"}, 8, 8, FALSE)

KernelsSse(selected, features) ==
  AesKernelsSse(selected) ++ ShaKernelsSse(features) ++ OtherKernelsSse

NeedsSse(features) ==
  {"SSE4_2", "AESNI", "PCLMULQDQ"} \cup (features \cap {"GFNI", "SHANI"})

---------------------------------------------------------------------------
(* init_mb_mgr_avx *)

InitAesAvx == Fresh(AesOoos \cup DocsisOoos \cup CrcOoos, 8, 16, "max")

InitZucAvx == Fresh({"zuc_eea3"}, 4, 16, "zero") ++ Fresh({"zuc_eia3"}, 4, 16, "max")

InitShaAvx == Fresh(ShaOoos, 4, 8, "max")

InitSha512Avx == Fresh(Sha512Ooos, 2, 8, "max") ++ Fresh({"hmac_md5"}, 8, 16, "max")

InitMacAvx ==
  Fresh({"aes_xcbc", "aes_ccm", "aes128_cbcs"}, 8, 16, "max") ++ Fresh({"aes_cmac"}, 8, 8, "max")

KernelsAvx ==
  Kernel(AesOoos \cup DocsisOoos \cup CrcOoos
           \cup {"aes_xcbc", "aes_ccm", "aes_cmac", "aes128_cbcs", "hmac_md5"}, 8, 8, FALSE)
    ++ Kernel({"zuc_eea3"}, 4, 8, TRUE) ++ Kernel({"zuc_eia3"} \cup ShaOoos, 4, 8, FALSE)
    ++ Kernel(Sha512Ooos, 2, 8, FALSE)

NeedsAvx == {"AVX", "AESNI", "PCLMULQDQ"}

---------------------------------------------------------------------------
(* init_mb_mgr_avx2 *)

InitAesAvx2 == Fresh(AesOoos \cup DocsisOoos \cup CrcOoos, 8, 16, "max")

InitZucAvx2 == Fresh({"zuc_eea3"}, 8, 16, "zero") ++ Fresh({"zuc_eia3"}, 8, 16, "max")

InitShaAvx2 == Fresh(ShaOoos, 8, 8, "max")

InitSha512Avx2 == Fresh(Sha512Ooos, 4, 8, "max")

InitMd5Avx2 == Fresh({"hmac_md5"}, 16, 16, "max")

InitMacAvx2 ==
  Fresh({"aes_xcbc", "aes_ccm", "aes128_cbcs"}, 8, 16, "max") ++ Fresh({"aes_cmac"}, 8, 8, "max")

KernelsAvx2 ==
  Kernel(AesOoos \cup DocsisOoos \cup CrcOoos \cup ShaOoos
           \cup {"aes_xcbc", "aes_ccm", "aes_cmac", "aes128_cbcs", "zuc_eea3", "zuc_eia3"}, 8, 8, FALSE)
    ++ Kernel(Sha512Ooos, 4, 8, FALSE) ++ Kernel({"hmac_md5"}, 16, 16, FALSE)

NeedsAvx2 == {"AVX2", "AVX", "AESNI", "PCLMULQDQ"}

---------------------------------------------------------------------------
(* init_mb_mgr_avx512 *)

SelectAvx512(features) ==
  IF "VAES" \in features THEN {"VAES"} \cup (features \cap {"GFNI"}) ELSE {}

VaesLanes(features) == IF "VAES" \in features THEN 16 ELSE 8

InitAesAvx512(features) == Fresh(AesOoos, VaesLanes(features), 16, "max")

InitDocsisAvx512(features) == Fresh(DocsisOoos \cup CrcOoos, VaesLanes(features), 16, "max")

InitDesAvx512 == Fresh(DesOoos, 16, 16, "max")

InitZucAvx512 == Fresh({"zuc_eea3", "zuc_eia3"}, 16, 16, "max")

InitShaAvx512 == Fresh(ShaOoos, 16, 16, "max")

InitSha512Avx512 == Fresh(Sha512Ooos, 8, 8, "max")

InitMd5Avx512 == Fresh({"hmac_md5"}, 16, 16, "max")

InitMacAvx512(features) ==
  Fresh({"aes_xcbc", "aes_ccm", "aes_cmac", "aes128_cbcs"}, VaesLanes(features), 16, "max")

AesKernelsAvx512(selected) ==
  Kernel(AesOoos \cup DocsisOoos \cup CrcOoos \cup {"aes_xcbc", "aes_ccm", "aes_cmac", "aes128_cbcs"},
         VaesLanes(selected), VaesLanes(selected), FALSE)

KernelsAvx512(selected) ==
  AesKernelsAvx512(selected)
    ++ Kernel(DesOoos \cup ShaOoos \cup {"zuc_eea3", "zuc_eia3", "hmac_md5"}, 16, 16, FALSE)
    ++ Kernel(Sha512Ooos, 8, 8, FALSE)

HandlerNeedsAvx512(features) ==
  AVX512_SKX \cup {"AVX2", "AVX", "AESNI", "PCLMULQDQ"}
    \cup (features \cap {"VPCLMULQDQ"}) \cup SelectAvx512(features)

\* The GCM handlers made for VAES need both extensions of wide registers.
GcmNeedsAvx512(features) ==
  IF {"VAES", "VPCLMULQDQ"} \subseteq features THEN {"VAES", "VPCLMULQDQ"} ELSE {"AVX", "AESNI"}

---------------------------------------------------------------------------
(* The five architectures together *)

SelectedBy(arch, features) ==
  CASE arch = "sse" -> SelectSse(features)
    [] arch = "avx512" -> SelectAvx512(features)
    [] OTHER -> {}

Initialised(arch, features) ==
  CASE arch = "noaesni" -> InitAesNoAesni ++ InitZucNoAesni ++ InitShaNoAesni
                             ++ InitSha512NoAesni ++ InitMacNoAesni
    [] arch = "sse" -> InitAesSse(features) ++ InitZucSse ++ InitShaSse(features)
                         ++ InitSha512Sse ++ InitMacSse(features)
    [] arch = "avx" -> InitAesAvx ++ InitZucAvx ++ InitShaAvx ++ InitSha512Avx ++ InitMacAvx
    [] arch = "avx2" -> InitAesAvx2 ++ InitZucAvx2 ++ InitShaAvx2 ++ InitSha512Avx2
                          ++ InitMd5Avx2 ++ InitMacAvx2
    [] arch = "avx512" -> InitAesAvx512(features) ++ InitDocsisAvx512(features) ++ InitDesAvx512
                            ++ InitZucAvx512 ++ InitShaAvx512 ++ InitSha512Avx512
                            ++ InitMd5Avx512 ++ InitMacAvx512(features)

\* selected: the pointers of the architecture's file as they are now
Kernels(arch, selected, features) ==
  CASE arch = "noaesni" -> KernelsNoAesni
    [] arch = "sse" -> KernelsSse(selected, features)
    [] arch = "avx" -> KernelsAvx
    [] arch = "avx2" -> KernelsAvx2
    [] arch = "avx512" -> KernelsAvx512(selected)

\* The extensions that the code behind the handlers is made of
Needs(arch, features) ==
  CASE arch = "noaesni" -> NeedsNoAesni
    [] arch = "sse" -> NeedsSse(features)
    [] arch = "avx" -> NeedsAvx
    [] arch = "avx2" -> NeedsAvx2
    [] arch = "avx512" -> HandlerNeedsAvx512(features) \cup GcmNeedsAvx512(features)

\* The XCBC manager of AVX not cleared either
KeepsJobs_Defect(arch) ==
  (IF arch \in {"avx", "avx2", "avx512"} THEN {"aes_xcbc"} ELSE {})
    \cup (IF arch = "avx512" THEN {} ELSE DesOoos)

\* OOO managers whose job_in_lane the init function leaves as it was
KeepsJobs(arch) ==
  (IF arch \in {"avx2", "avx512"} THEN {"aes_xcbc"} ELSE {})
    \cup (IF arch = "avx512" THEN {} ELSE DesOoos)

Wipes(arch) == IF arch = "noaesni" THEN WipedNoAesni ELSE {}

=============================================================================
