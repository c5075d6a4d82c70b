---------------------------- MODULE JobDispatch ----------------------------
(***************************************************************************)
(* The algorithm tables of lib/include/mb_mgr_code.h: which jobs           *)
(* is_job_invalid lets through, who serves the cipher and the hash of a    *)
(* job when it is submitted (SUBMIT_JOB_AES_ENC, SUBMIT_JOB_AES_DEC,       *)
(* SUBMIT_JOB_HASH) and when it is flushed (FLUSH_JOB_AES_ENC,             *)
(* FLUSH_JOB_AES_DEC, FLUSH_JOB_HASH), and one job's way through them.     *)
(*                                                                         *)
(* Pointers, IV and tag lengths and the error codes of is_job_invalid are  *)
(* left out: every job here has the pointers and IVs its algorithms need.  *)
(* Names are those of JOB_CIPHER_MODE and JOB_HASH_ALG without the prefix. *)
(* A definition named X_Defect is X with a slip; no specification uses it. *)
(***************************************************************************)
EXTENDS Integers, Bags

CONSTANTS
  Archs,       \* the managers that jobs are submitted to, of "AVX" and "AVX512"
  CipherModes, \* the cipher modes the application uses
  HashAlgs,    \* the hash algorithms it uses
  CipherLens,  \* its values of msg_len_to_cipher_in_bytes (or in_bits)
  HashLens     \* its values of msg_len_to_hash_in_bytes (or in_bits)

\* The lengths of IMB_JOB are unsigned.
ASSUME LensAssumption == CipherLens \cup HashLens \subseteq Nat

MB_MAX_LEN16   == 65534
MAX_PON_LEN    == 16384 + 8
ZUC_MAX_BITLEN == 65504
KASUMI_MAX_LEN == 20000
CIPH_ADJUST    == 14 - 2 - 4  \* DOCSIS_CRC32_MIN_ETH_PDU_SIZE, ETH TYPE, CRC
BLOCK          == 16

\* The fields the tables look at; arch is the manager, not a field of IMB_JOB.
Jobs ==
  [arch : Archs, cipher_mode : CipherModes, cipher_direction : {"ENCRYPT", "DECRYPT"},
   key_len : {8, 16, 24, 32}, hash_alg : HashAlgs,
   chain_order : {"CIPHER_HASH", "HASH_CIPHER"},
   cipher_len : CipherLens, hash_len : HashLens]

\* The AVX512 manager also queues DES and short DOCSIS CRC; the SSE, AVX and
\* AVX2 ones share their tables.
Avx512(j) == j.arch = "AVX512"

Encrypts(j) == j.cipher_direction = "ENCRYPT"

-----------------------------------------------------------------------------
(***************************************************************************)
(* is_job_invalid                                                          *)
(***************************************************************************)
KeyLens(mode) ==
  CASE mode \in {"CBC", "CBCS_1_9", "ECB", "CNTR", "CNTR_BITLEN", "GCM"} -> {16, 24, 32}
    [] mode \in {"DOCSIS_SEC_BPI", "CCM"} -> {16, 32}
    [] mode \in {"DES", "DOCSIS_DES"} -> {8}
    [] mode = "DES3" -> {24}
    [] mode \in {"ZUC_EEA3", "SNOW3G_UEA2_BITLEN", "KASUMI_UEA1_BITLEN"} -> {16}
    [] mode \in {"CHACHA20", "CHACHA20_POLY1305"} -> {32}
    [] OTHER -> {8, 16, 24, 32}

\* PON without a cipher needs no key.
KeyIsValid(j) ==
  /\ j.key_len \in KeyLens(j.cipher_mode)
  /\ (j.cipher_mode = "PON_AES_CNTR" /\ j.cipher_len # 0) => j.key_len = 16

CipherLenIsValid_Defect(j) ==
  j.cipher_mode = "CBC" => j.cipher_len # 0 /\ j.cipher_len % BLOCK = 0

\* The limits of CBCS and CHACHA20 are beyond what TLC's integers hold.
CipherLenIsValid(j) ==
  LET n == j.cipher_len
      multiple == [m \in CipherModes |->
                     CASE m \in {"CBC", "CBCS_1_9", "ECB"} -> BLOCK
                       [] m \in {"DES", "DES3"} -> 8
                       [] m = "PON_AES_CNTR" -> 4
                       [] OTHER -> 1]
      mayBeZero == {"NULL", "CUSTOM", "DOCSIS_SEC_BPI", "GCM", "CCM",
                    "PON_AES_CNTR", "CHACHA20_POLY1305"}
      max == CASE j.cipher_mode = "CBC" /\ Encrypts(j) -> MB_MAX_LEN16
               [] j.cipher_mode \in {"ECB", "DOCSIS_SEC_BPI", "DES", "DOCSIS_DES", "CCM", "DES3"}
                    -> MB_MAX_LEN16
               [] j.cipher_mode = "PON_AES_CNTR" -> MAX_PON_LEN - 8
               [] j.cipher_mode = "ZUC_EEA3" -> ZUC_MAX_BITLEN \div 8
               [] j.cipher_mode = "KASUMI_UEA1_BITLEN" -> KASUMI_MAX_LEN
               [] OTHER -> n
  IN
  /\ n = 0 => j.cipher_mode \in mayBeZero
  /\ n % multiple[j.cipher_mode] = 0
  /\ n <= max

HashLenIsValid(j) ==
  LET n == j.hash_len IN
  CASE j.hash_alg \in {"HMAC_SHA_1", "MD5", "HMAC_SHA_224", "HMAC_SHA_256",
                       "HMAC_SHA_384", "HMAC_SHA_512"} -> n \in 1 .. MB_MAX_LEN16
    [] j.hash_alg \in {"AES_XCBC", "AES_CCM", "AES_CMAC", "AES_CMAC_BITLEN", "AES_CMAC_256",
                       "SHA_1", "SHA_224", "SHA_256", "SHA_384", "SHA_512", "DOCSIS_CRC32"}
         -> n <= MB_MAX_LEN16
    [] j.hash_alg = "PON_CRC_BIP" -> n % 4 = 0 /\ n \in 8 .. MAX_PON_LEN
    [] j.hash_alg = "ZUC_EIA3_BITLEN" -> n \in 1 .. ZUC_MAX_BITLEN
    [] j.hash_alg = "SNOW3G_UIA2_BITLEN" -> n # 0
    [] j.hash_alg = "KASUMI_UIA1" -> n \in 9 .. KASUMI_MAX_LEN \div 8
    [] OTHER -> TRUE

PairIsValid_Defect(j) ==
  /\ j.cipher_mode = "CCM" <=> j.hash_alg = "AES_CCM"
  /\ j.cipher_mode = "PON_AES_CNTR" <=> j.hash_alg = "PON_CRC_BIP"

\* What the cipher requires of the hash, and the hash of the cipher.
PairIsValid(j) ==
  /\ j.cipher_mode = "GCM" <=> j.hash_alg = "AES_GMAC"
  /\ j.cipher_mode = "CCM" <=> j.hash_alg = "AES_CCM"
  /\ j.cipher_mode = "PON_AES_CNTR" <=> j.hash_alg = "PON_CRC_BIP"
  /\ j.hash_alg = "CHACHA20_POLY1305" => j.cipher_mode = "CHACHA20_POLY1305"
  /\ j.hash_alg = "AES_CCM" => j.cipher_len = j.hash_len
  /\ j.hash_alg = "DOCSIS_CRC32" =>
       /\ j.cipher_mode = "DOCSIS_SEC_BPI"
       /\ (j.cipher_len # 0 /\ j.hash_len # 0) => j.cipher_len + CIPH_ADJUST <= j.hash_len
       /\ j.chain_order = IF Encrypts(j) THEN "HASH_CIPHER" ELSE "CIPHER_HASH"

IsValid(j) ==
  KeyIsValid(j) /\ CipherLenIsValid(j) /\ HashLenIsValid(j) /\ PairIsValid(j)

-----------------------------------------------------------------------------
(***************************************************************************)
(* The tables.  An OOO manager has the name of its pointer in IMB_MGR.     *)
(***************************************************************************)
CipherManagers ==
  {"aes128_ooo", "aes192_ooo", "aes256_ooo", "aes128_cbcs_ooo",
   "docsis128_sec_ooo", "docsis256_sec_ooo",
   "docsis128_crc32_sec_ooo", "docsis256_crc32_sec_ooo",
   "des_enc_ooo", "des_dec_ooo", "des3_enc_ooo", "des3_dec_ooo",
   "docsis_des_enc_ooo", "docsis_des_dec_ooo", "zuc_eea3_ooo"}

HashManagers ==
  {"hmac_sha_1_ooo", "hmac_sha_224_ooo", "hmac_sha_256_ooo",
   "hmac_sha_384_ooo", "hmac_sha_512_ooo", "hmac_md5_ooo",
   "aes_xcbc_ooo", "aes_ccm_ooo", "aes_cmac_ooo", "zuc_eia3_ooo"}

INSTANCE Job

CbcManager_Defect(j) == IF j.key_len = 16 THEN "aes128_ooo" ELSE "aes256_ooo"

CbcManager(j) ==
  CASE j.key_len = 16 -> "aes128_ooo"
    [] j.key_len = 24 -> "aes192_ooo"
    [] OTHER          -> "aes256_ooo"

DocsisManager(j) ==
  IF j.hash_alg = "DOCSIS_CRC32"
  THEN IF j.key_len = 16 THEN "docsis128_crc32_sec_ooo" ELSE "docsis256_crc32_sec_ooo"
  ELSE IF j.key_len = 16 THEN "docsis128_sec_ooo" ELSE "docsis256_sec_ooo"

\* A DOCSIS job shorter than a block takes DOCSIS_FIRST_BLOCK at once, except
\* in the AVX512 code that does the CRC and the cipher together.
DocsisIsQueued(j) ==
  j.cipher_len >= BLOCK \/ (Avx512(j) /\ j.hash_alg = "DOCSIS_CRC32")

\* Only the AVX512 manager defines SUBMIT_JOB_DES_CBC_ENC and its likes.
DesManager(j) ==
  CASE j.cipher_mode = "DES"  -> IF Encrypts(j) THEN "des_enc_ooo" ELSE "des_dec_ooo"
    [] j.cipher_mode = "DES3" -> IF Encrypts(j) THEN "des3_enc_ooo" ELSE "des3_dec_ooo"
    [] OTHER -> IF Encrypts(j) THEN "docsis_des_enc_ooo" ELSE "docsis_des_dec_ooo"

IsDes(j) == j.cipher_mode \in {"DES", "DES3", "DOCSIS_DES"}

\* SUBMIT_JOB_AES_ENC and SUBMIT_JOB_AES_DEC
SubmitCipher(j) ==
  CASE j.cipher_mode = "CBC" /\ Encrypts(j)            -> CbcManager(j)
    [] j.cipher_mode = "CBCS_1_9" /\ Encrypts(j)       -> "aes128_cbcs_ooo"
    [] j.cipher_mode = "DOCSIS_SEC_BPI" /\ Encrypts(j) /\ DocsisIsQueued(j) -> DocsisManager(j)
    [] IsDes(j) /\ Avx512(j)                           -> DesManager(j)
    [] j.cipher_mode = "ZUC_EEA3"                      -> "zuc_eea3_ooo"
    [] j.cipher_mode \in {"GCM", "CHACHA20_POLY1305", "PON_AES_CNTR"} -> AEAD
    [] j.cipher_mode = "CUSTOM"                        -> CUSTOM
    [] OTHER                                           -> SYNC

FlushCipher_Defect(j) ==
  CASE j.cipher_mode = "CBC" /\ Encrypts(j)            -> CbcManager(j)
    [] j.cipher_mode = "CBCS_1_9" /\ Encrypts(j)       -> "aes128_cbcs_ooo"
    [] j.cipher_mode = "DOCSIS_SEC_BPI" /\ Encrypts(j) -> DocsisManager(j)
    [] IsDes(j) /\ Avx512(j)                           -> DesManager(j)
    [] j.cipher_mode = "ZUC_EEA3" /\ Encrypts(j)       -> "zuc_eea3_ooo"
    [] j.cipher_mode = "CUSTOM" /\ Encrypts(j)         -> CUSTOM
    [] OTHER                                           -> NONE

\* FLUSH_JOB_AES_ENC and FLUSH_JOB_AES_DEC
FlushCipher(j) ==
  CASE j.cipher_mode = "CBC" /\ Encrypts(j)            -> CbcManager(j)
    [] j.cipher_mode = "CBCS_1_9" /\ Encrypts(j)       -> "aes128_cbcs_ooo"
    [] j.cipher_mode = "DOCSIS_SEC_BPI" /\ Encrypts(j) -> DocsisManager(j)
    [] IsDes(j) /\ Avx512(j)                           -> DesManager(j)
    [] j.cipher_mode = "ZUC_EEA3"                      -> "zuc_eea3_ooo"
    [] j.cipher_mode = "CUSTOM" /\ Encrypts(j)         -> CUSTOM
    [] OTHER                                           -> NONE

\* The hashes that are queued, and where.
HashManager ==
  [HMAC_SHA_1   |-> "hmac_sha_1_ooo",   HMAC_SHA_224 |-> "hmac_sha_224_ooo",
   HMAC_SHA_256 |-> "hmac_sha_256_ooo", HMAC_SHA_384 |-> "hmac_sha_384_ooo",
   HMAC_SHA_512 |-> "hmac_sha_512_ooo", MD5          |-> "hmac_md5_ooo",
   AES_XCBC     |-> "aes_xcbc_ooo",     AES_CCM      |-> "aes_ccm_ooo",
   AES_CMAC     |-> "aes_cmac_ooo",     AES_CMAC_BITLEN |-> "aes_cmac_ooo",
   AES_CMAC_256 |-> "aes_cmac_ooo",     ZUC_EIA3_BITLEN |-> "zuc_eia3_ooo"]

\* SUBMIT_JOB_HASH, and FLUSH_JOB_HASH, whose default branch does what a
\* synchronous hash has left to do: nothing but the status bit.
SubmitHash(j) ==
  CASE j.hash_alg \in DOMAIN HashManager -> HashManager[j.hash_alg]
    [] j.hash_alg = "CUSTOM"             -> CUSTOM
    [] OTHER                             -> SYNC

FlushHash(j) == SubmitHash(j)

KindOf(j) ==
  [order |-> j.chain_order,
   cipher |-> SubmitCipher(j), cipher_flush |-> FlushCipher(j),
   hash |-> SubmitHash(j), hash_flush |-> FlushHash(j)]

-----------------------------------------------------------------------------
(***************************************************************************)
(* What a served stage computes.                                           *)
(***************************************************************************)
ValidJobs == {j \in Jobs : IsValid(j)}

\* The tag or checksum that a cipher function computes on the way.
TagOfCipher(j) ==
  CASE j.cipher_mode = "GCM"               -> {"AES_GMAC"}
    [] j.cipher_mode = "CHACHA20_POLY1305" -> {"CHACHA20_POLY1305"}
    [] j.cipher_mode = "PON_AES_CNTR"      -> {"PON_CRC_BIP"}
    [] j.cipher_mode = "DOCSIS_SEC_BPI" /\ j.hash_alg = "DOCSIS_CRC32" -> {"DOCSIS_CRC32"}
    [] OTHER                               -> {}

\* For these SUBMIT_JOB_HASH only sets the status bit.
LeftToCipher == {"AES_GMAC", "CHACHA20_POLY1305", "PON_CRC_BIP", "DOCSIS_CRC32"}

\* The algorithms a stage computes, as pairs of stage and algorithm.
Work(j, stage) ==
  IF stage = "AES"
  THEN {<<"AES", j.cipher_mode>>} \cup {<<"HMAC", t>> : t \in TagOfCipher(j)}
  ELSE {<<"HMAC", h>> : h \in {j.hash_alg} \ LeftToCipher}

\* The key size for which the function that serves a stage is built; 0 for the
\* ones without an AES key schedule of their own.
Kernel(j, stage) ==
  CASE stage = "AES" /\ j.cipher_mode = "CBCS_1_9"        -> 16
    [] stage = "AES" /\ j.cipher_mode \in {"CBC", "ECB"} ->
         IF j.key_len \in {16, 24} THEN j.key_len ELSE 32
    [] stage = "AES" /\ j.cipher_mode \in {"DOCSIS_SEC_BPI", "CCM"} ->
         IF j.key_len = 16 THEN 16 ELSE 32
    [] stage = "HMAC" /\ j.hash_alg = "AES_CCM"           -> IF j.key_len = 16 THEN 16 ELSE 32
    [] stage = "HMAC" /\ j.hash_alg \in {"AES_CMAC", "AES_CMAC_BITLEN"} -> 16
    [] stage = "HMAC" /\ j.hash_alg = "AES_CMAC_256"      -> 32
    [] OTHER                                              -> 0

\* Any call for manager m can run the jobs in all its lanes.
KernelsOf ==
  LET users(m) == {u \in ValidJobs \X Stages : Server(KindOf(u[1]), u[2]) = m}
  IN [m \in Managers |-> {Kernel(u[1], u[2]) : u \in users(m)}]

\* The size of the key schedule the job brings for a stage, 0 if it has none.
KeySize(j, stage) ==
  IF Kernel(j, stage) = 0 THEN 0
  ELSE CASE stage = "AES" \/ j.hash_alg = "AES_CCM"           -> j.key_len
         [] stage = "HMAC" /\ j.hash_alg = "AES_CMAC_256"     -> 32
         [] OTHER                                             -> 16

\* The length an OOO manager keeps for the job, in 16 bits.
LaneLength(j, m) ==
  CASE m \in {"hmac_sha_384_ooo", "hmac_sha_512_ooo"} -> j.hash_len \div 128
    [] m \in {"hmac_sha_1_ooo", "hmac_sha_224_ooo", "hmac_sha_256_ooo", "hmac_md5_ooo"}
         -> j.hash_len \div 64
    [] m = "zuc_eea3_ooo" -> j.cipher_len
    [] m = "aes_cmac_ooo" /\ j.hash_alg = "AES_CMAC_BITLEN" -> j.hash_len \div 8
    [] m = "aes_cmac_ooo" /\ j.hash_alg # "AES_CMAC_BITLEN" -> j.hash_len
    [] m \in {"aes_xcbc_ooo", "aes_ccm_ooo", "zuc_eia3_ooo"} -> j.hash_len
    [] m \in {"des_enc_ooo", "des_dec_ooo", "des3_enc_ooo", "des3_dec_ooo",
              "docsis_des_enc_ooo", "docsis_des_dec_ooo"} -> j.cipher_len - (j.cipher_len % 8)
    [] OTHER -> j.cipher_len - (j.cipher_len % BLOCK)

-----------------------------------------------------------------------------
(***************************************************************************)
(* One job from submission to completion.                                  *)
(***************************************************************************)
VARIABLES
  job,     \* the job
  status,  \* its status
  at,      \* the OOO manager it waits in, or NONE
  done,    \* history: the algorithms computed for it, as often as they were
  kernels  \* history: <<stage, key size>> of the kernels that ran it

vars == <<job, status, at, done, kernels>>

Kind == KindOf(job)

Init ==
  /\ job \in ValidJobs
  /\ status = BEING_PROCESSED
  /\ at = NONE
  /\ done = EmptyBag
  /\ kernels = {}

\* submit_new_job, then RESUBMIT_JOB
Stage == IF status = BEING_PROCESSED THEN FirstStage(Kind) ELSE ResubmitStage(status)

Compute(kernel) ==
  /\ done' = done (+) SetToBag(Work(job, Stage))
  /\ kernels' = kernels \cup {<<Stage, kernel>>}

Ready == status < COMPLETED /\ at = NONE

RunSync ==
  /\ Ready /\ Server(Kind, Stage) = SYNC
  /\ Compute(Kernel(job, Stage))
  /\ status' = Or(status, Stage)
  /\ UNCHANGED <<job, at>>

RunAead ==
  /\ Ready /\ Server(Kind, Stage) = AEAD
  /\ Compute(Kernel(job, Stage))
  /\ status' = COMPLETED
  /\ UNCHANGED <<job, at>>

RunCustom ==
  /\ Ready /\ Server(Kind, Stage) = CUSTOM
  /\ \/ Compute(0) /\ status' = Or(status, Stage)
     \/ status' = INTERNAL_ERROR /\ UNCHANGED <<done, kernels>>
  /\ UNCHANGED <<job, at>>

Enqueue ==
  /\ Ready /\ Server(Kind, Stage) \in Managers
  /\ at' = Server(Kind, Stage)
  /\ UNCHANGED <<job, status, done, kernels>>

\* Some later call for the same manager, of this job or of another, finishes it.
Finish ==
  /\ at # NONE
  /\ \E k \in KernelsOf[at] : Compute(k)
  /\ status' = Or(status, Stage)
  /\ at' = NONE
  /\ UNCHANGED job

Returned == status >= COMPLETED /\ UNCHANGED vars

Next == RunSync \/ RunAead \/ RunCustom \/ Enqueue \/ Finish \/ Returned

Spec == Init /\ [][Next]_vars

-----------------------------------------------------------------------------
\* The submit and the flush table agree on every job that is_job_invalid lets
\* through: what KindsAssumption of MbMgr asks for.
KindIsAdmissible == Admissible(Kind)

\* AEAD and POLY1305 AEAD come together (README:168, Table 3).
IsPaired(j) == j.cipher_mode = "CHACHA20_POLY1305" => j.hash_alg = "CHACHA20_POLY1305"

\* A job returned as STS_COMPLETED had its cipher and its hash computed once
\* each, whichever function did it (SUBMIT_JOB_AES_GCM_ENC, SUBMIT_JOB_PON_ENC,
\* SUBMIT_JOB_DOCSIS_SEC_CRC_ENC, SUBMIT_JOB_HASH).
RequestedStagesRun ==
  IsPaired(job) /\ status = COMPLETED =>
    \A algorithm \in {<<"AES", job.cipher_mode>>, <<"HMAC", job.hash_alg>>} :
      BagIn(algorithm, done) /\ done[algorithm] = 1

\* A job waits in an OOO manager only with a length below 0xFFFF, the value that
\* keeps an empty lane from being the shortest (MB_MAX_LEN16 in is_job_invalid).
\* The manager of CBCS keeps 64 bits.
LaneLengthFits ==
  at \in Managers \ {"aes128_cbcs_ooo"} => LaneLength(job, at) < 65535

\* The manager shared by two key sizes, and the cipher with one.
SharedHashes == {"AES_CMAC", "AES_CMAC_BITLEN", "AES_CMAC_256", "AES_CCM"}

KernelFits(stage) == \A k \in kernels : k[1] = stage => k[2] = KeySize(job, stage)

\* The kernel that runs a job is built for the size of its key schedule
\* (the "assume 32" branches, and the choice of OOO managers).
KernelFitsKey ==
  /\ job.cipher_mode # "CBCS_1_9" => KernelFits("AES")
  /\ job.hash_alg \notin SharedHashes => KernelFits("HMAC")

\* The README lists AES256-CMAC beside AES128-CMAC: each is run with its own kernel.
MacKernelFits == KernelFits("HMAC")

\* The README lists AES128-CBCS: no other key size is run through it.
CbcsKernelFits == KernelFits("AES")

=============================================================================
