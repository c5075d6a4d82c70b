-------------------------- MODULE JobDispatchProofs --------------------------
(***************************************************************************)
(* Proofs about JobDispatch: the submit and the flush tables agree on      *)
(* every job that the check accepts, a job is ciphered and authenticated   *)
(* once, no length reaches the mark of an empty lane, and a kernel is      *)
(* built for the key it is given, for any algorithms and lengths.          *)
(*                                                                         *)
(* What the tables say is a matter of cases, one lemma per fact; the       *)
(* invariant says how far a job has come on its way through them.          *)
(***************************************************************************)
EXTENDS JobDispatch, TLAPS

-----------------------------------------------------------------------------
(***************************************************************************)
(* The invariant.                                                          *)
(***************************************************************************)
\* The stages whose bit is set.
Finished == {st \in Stages : HasBit(status, st)}

Computed(j, stages) == UNION {Work(j, st) : st \in stages}

StatusInv == status \in {BEING_PROCESSED, COMPLETED_AES, COMPLETED_HMAC, COMPLETED, INTERNAL_ERROR}

\* A job waits only for its next stage, in the manager the table names.
PlaceInv == at # NONE => at \in Managers /\ status < COMPLETED /\ at = Server(Kind, Stage)

\* What was computed is what the finished stages are to compute, each once.
DoneInv == IsPaired(job) /\ status # INTERNAL_ERROR => done = SetToBag(Computed(job, Finished))

DispatchInv ==
  /\ job \in ValidJobs
  /\ StatusInv
  /\ PlaceInv
  /\ DoneInv
  /\ KernelFitsKey

-----------------------------------------------------------------------------
(***************************************************************************)
(* The tables, case by case.                                               *)
(***************************************************************************)
LEMMA JobFields ==
  ASSUME NEW j \in ValidJobs
  PROVE  /\ IsValid(j)
         /\ j.cipher_len \in Nat /\ j.hash_len \in Nat
         /\ j.key_len \in {8, 16, 24, 32}
         /\ j.hash_alg \in HashAlgs /\ j.cipher_mode \in CipherModes
         /\ j.cipher_direction \in {"ENCRYPT", "DECRYPT"} /\ j.chain_order \in Orders
BY LensAssumption DEF ValidJobs, Jobs, Orders

\* The cipher tables: a queued cipher is flushed from where it was put.
LEMMA CipherTablesAgree ==
  ASSUME NEW j \in ValidJobs
  PROVE  /\ SubmitCipher(j) \in CipherManagers \cup {SYNC, AEAD, CUSTOM}
         /\ FlushCipher(j) \in CipherManagers \cup {CUSTOM, NONE}
         /\ SubmitCipher(j) \in CipherManagers => FlushCipher(j) = SubmitCipher(j)
         /\ FlushCipher(j) \in CipherManagers => SubmitCipher(j) \in {FlushCipher(j), SYNC}
         /\ FlushCipher(j) = CUSTOM => SubmitCipher(j) = CUSTOM
BY DEF SubmitCipher, FlushCipher, CbcManager, DocsisManager, DesManager, IsDes, CipherManagers,
       SYNC, AEAD, CUSTOM, NONE

LEMMA HashTableInManagers ==
  ASSUME NEW j \in ValidJobs
  PROVE  SubmitHash(j) \in HashManagers \cup {SYNC, CUSTOM}
BY DEF SubmitHash, HashManager, HashManagers, SYNC, CUSTOM

\* What MbMgr assumes of the kinds of jobs holds of every job of the library.
LEMMA TablesAgree ==
  ASSUME NEW j \in ValidJobs
  PROVE  Admissible(KindOf(j))
<1>1. KindOf(j) \in KindType
  BY CipherTablesAgree, HashTableInManagers, JobFields
  DEF KindOf, KindType, FlushHash, CipherManagers, HashManagers
<1> QED
  BY <1>1, CipherTablesAgree, HashTableInManagers
  DEF KindOf, Admissible, FlushHash, Managers, CipherManagers, HashManagers,
      SYNC, AEAD, CUSTOM, NONE

-----------------------------------------------------------------------------
(***************************************************************************)
(* The lengths kept in lanes.                                              *)
(***************************************************************************)
\* The bounds of is_job_invalid keep the words of the OOO managers below 0xFFFF.
LEMMA CipherLengthFits ==
  ASSUME NEW j \in ValidJobs, SubmitCipher(j) \in CipherManagers \ {"aes128_cbcs_ooo"}
  PROVE  j.cipher_len < 65535
<1>1. j.cipher_mode \in {"CBC", "DOCSIS_SEC_BPI", "DES", "DES3", "DOCSIS_DES", "ZUC_EEA3"}
  BY DEF SubmitCipher, CipherManagers, SYNC, AEAD, CUSTOM, IsDes
<1>2. j.cipher_mode = "CBC" => Encrypts(j)
  BY DEF SubmitCipher, CipherManagers, SYNC, AEAD, CUSTOM, IsDes
<1>3. CipherLenIsValid(j) /\ j.cipher_len \in Nat
  BY JobFields DEF IsValid
<1>4. j.cipher_len <= MB_MAX_LEN16 \/ j.cipher_len <= ZUC_MAX_BITLEN \div 8
  BY <1>1, <1>2, <1>3 DEF CipherLenIsValid
<1> QED
  BY <1>3, <1>4 DEF MB_MAX_LEN16, ZUC_MAX_BITLEN

LEMMA HashLengthFits ==
  ASSUME NEW j \in ValidJobs, SubmitHash(j) \in HashManagers
  PROVE  j.hash_len < 65535
<1>1. j.hash_alg \in DOMAIN HashManager
  BY DEF SubmitHash, HashManagers, SYNC, CUSTOM
<1>2. HashLenIsValid(j) /\ j.hash_len \in Nat
  BY JobFields DEF IsValid
<1>3. CASE j.hash_alg \in {"HMAC_SHA_1", "MD5", "HMAC_SHA_224", "HMAC_SHA_256",
                           "HMAC_SHA_384", "HMAC_SHA_512"}
  <2>1. j.hash_len <= MB_MAX_LEN16
    BY <1>2, <1>3 DEF HashLenIsValid
  <2> QED
    BY <1>2, <2>1 DEF MB_MAX_LEN16
<1>4. CASE j.hash_alg \in {"AES_XCBC", "AES_CCM", "AES_CMAC", "AES_CMAC_BITLEN", "AES_CMAC_256"}
  <2>1. j.hash_len <= MB_MAX_LEN16
    BY <1>2, <1>4 DEF HashLenIsValid
  <2> QED
    BY <1>2, <2>1 DEF MB_MAX_LEN16
<1>5. CASE j.hash_alg = "ZUC_EIA3_BITLEN"
  <2>1. j.hash_len <= ZUC_MAX_BITLEN
    BY <1>2, <1>5 DEF HashLenIsValid
  <2> QED
    BY <1>2, <2>1 DEF ZUC_MAX_BITLEN
<1> QED
  BY <1>1, <1>3, <1>4, <1>5 DEF HashManager

LEMMA WordFits ==
  ASSUME NEW j \in ValidJobs, NEW st \in Stages,
         Server(KindOf(j), st) \in Managers \ {"aes128_cbcs_ooo"}
  PROVE  LaneLength(j, Server(KindOf(j), st)) < 65535
<1> DEFINE m == Server(KindOf(j), st)
<1>1. CASE st = "AES"
  <2>1. m = SubmitCipher(j) /\ m \in CipherManagers
    BY <1>1, CipherTablesAgree
    DEF Server, KindOf, Managers, CipherManagers, HashManagers, SYNC, AEAD, CUSTOM
  <2>2. j.cipher_len < 65535 /\ j.cipher_len \in Nat
    BY <2>1, CipherLengthFits, JobFields
  <2>3. LaneLength(j, m) \in {j.cipher_len, j.cipher_len - (j.cipher_len % 8),
                              j.cipher_len - (j.cipher_len % 16)}
    BY <2>1 DEF LaneLength, CipherManagers, BLOCK
  <2> QED
    BY <2>2, <2>3
<1>2. CASE st = "HMAC"
  <2>1. m = SubmitHash(j) /\ m \in HashManagers
    BY <1>2, HashTableInManagers
    DEF Server, KindOf, Managers, CipherManagers, HashManagers, SYNC, CUSTOM
  <2>2. j.hash_len < 65535 /\ j.hash_len \in Nat
    BY <2>1, HashLengthFits, JobFields
  <2>3. LaneLength(j, m) \in {j.hash_len, j.hash_len \div 8,
                              j.hash_len \div 64, j.hash_len \div 128}
    BY <2>1 DEF LaneLength, HashManagers
  <2> QED
    BY <2>2, <2>3
<1> QED
  BY <1>1, <1>2 DEF Stages

-----------------------------------------------------------------------------
(***************************************************************************)
(* The kernels.                                                            *)
(***************************************************************************)
\* The one key size that the users of a manager have, where they have one.
ManagerKernel(m) ==
  CASE m \in {"aes128_ooo", "docsis128_sec_ooo", "docsis128_crc32_sec_ooo"} -> 16
    [] m = "aes192_ooo" -> 24
    [] m \in {"aes256_ooo", "docsis256_sec_ooo", "docsis256_crc32_sec_ooo"} -> 32
    [] OTHER -> 0

SharedManagers == {"aes128_cbcs_ooo", "aes_ccm_ooo", "aes_cmac_ooo"}

\* What KernelFitsKey claims of a stage: CBCS and the shared hashes are its exceptions.
OneKeySize(j, st) ==
  IF st = "AES" THEN j.cipher_mode # "CBCS_1_9" ELSE j.hash_alg \notin SharedHashes

LEMMA KeyOfMode ==
  ASSUME NEW j \in ValidJobs
  PROVE  /\ j.cipher_mode \in {"CBC", "ECB"} => j.key_len \in {16, 24, 32}
         /\ j.cipher_mode \in {"DOCSIS_SEC_BPI", "CCM"} => j.key_len \in {16, 32}
<1>1. j.key_len \in KeyLens(j.cipher_mode)
  BY JobFields DEF IsValid, KeyIsValid
<1>2. ASSUME j.cipher_mode \in {"CBC", "ECB"} PROVE KeyLens(j.cipher_mode) = {16, 24, 32}
  BY <1>2 DEF KeyLens
<1>3. ASSUME j.cipher_mode \in {"DOCSIS_SEC_BPI", "CCM"}
      PROVE  KeyLens(j.cipher_mode) = {16, 32}
  BY <1>3 DEF KeyLens
<1> QED
  BY <1>1, <1>2, <1>3

LEMMA KernelIsKeySize ==
  ASSUME NEW j \in ValidJobs, NEW st \in Stages, OneKeySize(j, st)
  PROVE  Kernel(j, st) = KeySize(j, st)
<1>1. /\ j.cipher_mode \in {"CBC", "ECB"} => j.key_len \in {16, 24, 32}
      /\ j.cipher_mode \in {"DOCSIS_SEC_BPI", "CCM"} => j.key_len \in {16, 32}
  BY KeyOfMode
<1>2. CASE st = "AES"
  <2>1. j.cipher_mode # "CBCS_1_9"
    BY <1>2 DEF OneKeySize
  <2>2. CASE j.cipher_mode \in {"CBC", "ECB"}
    <3>1. Kernel(j, "AES") = j.key_len /\ j.key_len # 0
      BY <1>1, <2>2 DEF Kernel
    <3>2. KeySize(j, "AES") = j.key_len
      BY <3>1 DEF KeySize
    <3> QED
      BY <1>2, <3>1, <3>2
  <2>3. CASE j.cipher_mode \in {"DOCSIS_SEC_BPI", "CCM"}
    <3>1. Kernel(j, "AES") = j.key_len /\ j.key_len # 0
      BY <1>1, <2>3 DEF Kernel
    <3>2. KeySize(j, "AES") = j.key_len
      BY <3>1 DEF KeySize
    <3> QED
      BY <1>2, <3>1, <3>2
  <2>4. CASE j.cipher_mode \notin {"CBC", "ECB", "DOCSIS_SEC_BPI", "CCM"}
    <3>1. Kernel(j, "AES") = 0
      BY <2>1, <2>4 DEF Kernel
    <3>2. KeySize(j, "AES") = 0
      BY <3>1 DEF KeySize
    <3> QED
      BY <1>2, <3>1, <3>2
  <2> QED
    BY <2>2, <2>3, <2>4
<1>3. CASE st = "HMAC"
  <2>1. Kernel(j, "HMAC") = 0
    BY <1>3 DEF OneKeySize, SharedHashes, Kernel
  <2>2. KeySize(j, "HMAC") = 0
    BY <2>1 DEF KeySize
  <2> QED
    BY <1>3, <2>1, <2>2
<1> QED
  BY <1>2, <1>3 DEF Stages

\* Every other user of a manager runs with the kernel that this job needs.
LEMMA ManagerHasOneKernel ==
  ASSUME NEW j \in ValidJobs, NEW st \in Stages,
         Server(KindOf(j), st) \in Managers \ SharedManagers
  PROVE  Kernel(j, st) = ManagerKernel(Server(KindOf(j), st))
<1> DEFINE m == Server(KindOf(j), st)
<1>1. CASE st = "AES"
  <2>1. m = SubmitCipher(j) /\ m \in CipherManagers
    BY <1>1, CipherTablesAgree
    DEF Server, KindOf, Managers, CipherManagers, HashManagers, SYNC, AEAD, CUSTOM
  <2>2. CASE j.cipher_mode = "CBC"
    <3>1. j.key_len \in {16, 24, 32}
      BY <2>2, KeyOfMode
    <3>2. m = CbcManager(j)
      BY <2>1, <2>2 DEF SubmitCipher, CipherManagers, SYNC, IsDes
    <3>3. m = CASE j.key_len = 16 -> "aes128_ooo"
                [] j.key_len = 24 -> "aes192_ooo"
                [] OTHER          -> "aes256_ooo"
      BY <3>2 DEF CbcManager
    <3>4. Kernel(j, "AES") = j.key_len
      BY <2>2, <3>1 DEF Kernel
    <3> HIDE DEF m
    <3>5. ManagerKernel(m) = j.key_len
      BY <3>1, <3>3 DEF ManagerKernel
    <3> QED
      BY <1>1, <3>4, <3>5 DEF m
  <2>3. CASE j.cipher_mode = "DOCSIS_SEC_BPI"
    <3>1. j.key_len \in {16, 32}
      BY <2>3, KeyOfMode
    <3>2. m = DocsisManager(j)
      BY <2>1, <2>3 DEF SubmitCipher, CipherManagers, SYNC, IsDes
    <3>3. /\ j.key_len = 16 => m \in {"docsis128_sec_ooo", "docsis128_crc32_sec_ooo"}
          /\ j.key_len = 32 => m \in {"docsis256_sec_ooo", "docsis256_crc32_sec_ooo"}
      BY <3>2 DEF DocsisManager
    <3>4. Kernel(j, "AES") = j.key_len
      BY <2>3, <3>1 DEF Kernel
    <3> HIDE DEF m
    <3>5. ManagerKernel(m) = j.key_len
      BY <3>1, <3>3 DEF ManagerKernel
    <3> QED
      BY <1>1, <3>4, <3>5 DEF m
  <2>4. CASE IsDes(j) \/ j.cipher_mode = "ZUC_EEA3"
    BY <1>1, <2>1, <2>4
    DEF SubmitCipher, DesManager, Kernel, ManagerKernel, CipherManagers, SYNC, IsDes
  <2>5. j.cipher_mode \in {"CBC", "DOCSIS_SEC_BPI", "ZUC_EEA3"} \/ IsDes(j)
    BY <2>1 DEF SubmitCipher, CipherManagers, SharedManagers, SYNC, AEAD, CUSTOM
  <2> QED
    BY <2>2, <2>3, <2>4, <2>5
<1>2. CASE st = "HMAC"
  <2>1. m = SubmitHash(j) /\ m \in HashManagers
    BY <1>2, HashTableInManagers
    DEF Server, KindOf, Managers, CipherManagers, HashManagers, SYNC, CUSTOM
  <2>2. m = HashManager[j.hash_alg] /\ j.hash_alg \in DOMAIN HashManager
    BY <2>1 DEF SubmitHash, HashManagers, SYNC, CUSTOM
  <2>3. j.hash_alg \notin SharedHashes /\ j.hash_alg # "CUSTOM"
    BY <2>2 DEF HashManager, SharedManagers, SharedHashes
  <2>4. ManagerKernel(m) = 0
    BY <2>1 DEF ManagerKernel, HashManagers
  <2> QED
    BY <1>2, <2>3, <2>4 DEF Kernel, SharedHashes
<1> QED
  BY <1>1, <1>2 DEF Stages

\* Who has a key size of its own is not queued in a manager of several.
LEMMA OneKeySizeNotShared ==
  ASSUME NEW j \in ValidJobs, NEW st \in Stages, OneKeySize(j, st)
  PROVE  Server(KindOf(j), st) \notin SharedManagers
<1>1. CASE st = "AES"
  BY <1>1 DEF OneKeySize, Server, KindOf, SubmitCipher, CbcManager, DocsisManager, DesManager,
              SharedManagers, SYNC, AEAD, CUSTOM
<1>2. CASE st = "HMAC"
  BY <1>2 DEF OneKeySize, Server, KindOf, SubmitHash, HashManager, SharedHashes,
              SharedManagers, SYNC, CUSTOM
<1> QED
  BY <1>1, <1>2 DEF Stages

-----------------------------------------------------------------------------
(***************************************************************************)
(* What is computed.                                                       *)
(***************************************************************************)
\* Two sets with nothing in common, once each.
LEMMA BagOfUnion ==
  ASSUME NEW S, NEW T, S \cap T = {}
  PROVE  SetToBag(S) (+) SetToBag(T) = SetToBag(S \cup T)
BY DEF SetToBag, (+)

\* A cipher function computes no tag that the hash computes again.
LEMMA WorkIsApart ==
  ASSUME NEW j
  PROVE  Work(j, "AES") \cap Work(j, "HMAC") = {}
<1>1. TagOfCipher(j) \subseteq LeftToCipher
  BY DEF TagOfCipher, LeftToCipher
<1> QED
  BY <1>1 DEF Work

\* Between them the two stages of a job compute its cipher and its hash.
LEMMA WorkIsWhole ==
  ASSUME NEW j \in ValidJobs, IsPaired(j)
  PROVE  {<<"AES", j.cipher_mode>>, <<"HMAC", j.hash_alg>>} \subseteq Computed(j, Stages)
<1>1. PairIsValid(j)
  BY JobFields DEF IsValid
<1>2. <<"AES", j.cipher_mode>> \in Work(j, "AES")
  BY DEF Work
<1>3. CASE j.hash_alg \in LeftToCipher
  <2>1. j.hash_alg \in TagOfCipher(j)
    <3>1. j.hash_alg = "AES_GMAC" => j.cipher_mode = "GCM"
      BY <1>1 DEF PairIsValid
    <3>2. j.hash_alg = "CHACHA20_POLY1305" => j.cipher_mode = "CHACHA20_POLY1305"
      BY <1>1 DEF PairIsValid
    <3>3. j.hash_alg = "PON_CRC_BIP" => j.cipher_mode = "PON_AES_CNTR"
      BY <1>1 DEF PairIsValid
    <3>4. j.hash_alg = "DOCSIS_CRC32" => j.cipher_mode = "DOCSIS_SEC_BPI"
      BY <1>1 DEF PairIsValid
    <3> QED
      BY <1>3, <3>1, <3>2, <3>3, <3>4 DEF LeftToCipher, TagOfCipher
  <2> QED
    BY <1>2, <2>1 DEF Work, Computed, Stages
<1>4. CASE j.hash_alg \notin LeftToCipher
  BY <1>2, <1>4 DEF Work, Computed, Stages
<1> QED
  BY <1>3, <1>4

\* AEAD functions leave nothing to the hash.
LEMMA AeadDoesBoth ==
  ASSUME NEW j \in ValidJobs, IsPaired(j), SubmitCipher(j) = AEAD
  PROVE  Work(j, "HMAC") = {}
<1>1. PairIsValid(j)
  BY JobFields DEF IsValid
<1>2. j.cipher_mode \in {"GCM", "CHACHA20_POLY1305", "PON_AES_CNTR"}
  BY CipherTablesAgree
  DEF SubmitCipher, CbcManager, DocsisManager, DesManager, SYNC, AEAD, CUSTOM
<1>3. j.hash_alg \in LeftToCipher
  <2>1. j.cipher_mode = "GCM" => j.hash_alg = "AES_GMAC"
    BY <1>1 DEF PairIsValid
  <2>2. j.cipher_mode = "CHACHA20_POLY1305" => j.hash_alg = "CHACHA20_POLY1305"
    BY DEF IsPaired
  <2>3. j.cipher_mode = "PON_AES_CNTR" => j.hash_alg = "PON_CRC_BIP"
    BY <1>1 DEF PairIsValid
  <2> QED
    BY <1>2, <2>1, <2>2, <2>3 DEF LeftToCipher
<1> QED
  BY <1>3 DEF Work

-----------------------------------------------------------------------------
(***************************************************************************)
(* The steps of a job.                                                     *)
(***************************************************************************)
\* A job that is not finished has its next stage still to do, and its bit is
\* what Or sets.
LEMMA StageIsOpen ==
  ASSUME DispatchInv, status < COMPLETED
  PROVE  /\ Stage \in Stages /\ Stage \notin Finished
         /\ Or(status, Stage) \in {COMPLETED_AES, COMPLETED_HMAC, COMPLETED}
         /\ {st \in Stages : HasBit(Or(status, Stage), st)} = Finished \cup {Stage}
<1>1. status \in {0, 1, 2}
  BY DEF DispatchInv, StatusInv, BEING_PROCESSED, COMPLETED_AES, COMPLETED_HMAC, COMPLETED,
         INTERNAL_ERROR
<1>2. CASE status = 0
  <2>1. Stage \in Stages
    BY <1>2 DEF Stage, FirstStage, Stages, BEING_PROCESSED
  <2>2. Finished = {}
    BY <1>2 DEF Finished, HasBit, Stages
  <2>3. Stage = "AES" => Or(status, Stage) = 1
    BY <1>2 DEF Or, HasBit, Bit, COMPLETED_AES
  <2>4. Stage = "HMAC" => Or(status, Stage) = 2
    BY <1>2 DEF Or, HasBit, Bit, COMPLETED_HMAC
  <2>5. {st \in Stages : HasBit(1, st)} = {"AES"} /\ {st \in Stages : HasBit(2, st)} = {"HMAC"}
    BY DEF HasBit, Stages
  <2> QED
    BY <2>1, <2>2, <2>3, <2>4, <2>5 DEF Stages, COMPLETED_AES, COMPLETED_HMAC
<1>3. CASE status = 1
  <2>1. Stage = "HMAC"
    BY <1>3 DEF Stage, ResubmitStage, BEING_PROCESSED, COMPLETED_HMAC
  <2>2. Finished = {"AES"}
    BY <1>3 DEF Finished, HasBit, Stages
  <2>3. Or(status, Stage) = 3
    BY <1>3, <2>1 DEF Or, HasBit, Bit, COMPLETED_HMAC
  <2>4. {st \in Stages : HasBit(3, st)} = {"AES", "HMAC"}
    BY DEF HasBit, Stages
  <2> QED
    BY <2>1, <2>2, <2>3, <2>4 DEF Stages, COMPLETED
<1>4. CASE status = 2
  <2>1. Stage = "AES"
    BY <1>4 DEF Stage, ResubmitStage, BEING_PROCESSED, COMPLETED_HMAC
  <2>2. Finished = {"HMAC"}
    BY <1>4 DEF Finished, HasBit, Stages
  <2>3. Or(status, Stage) = 3
    BY <1>4, <2>1 DEF Or, HasBit, Bit, COMPLETED_AES
  <2>4. {st \in Stages : HasBit(3, st)} = {"AES", "HMAC"}
    BY DEF HasBit, Stages
  <2> QED
    BY <2>1, <2>2, <2>3, <2>4 DEF Stages, COMPLETED
<1> QED
  BY <1>1, <1>2, <1>3, <1>4

\* Computing the next stage adds its work to what was done, each once.
LEMMA ComputeAddsStage ==
  ASSUME DispatchInv, status < COMPLETED, IsPaired(job), NEW k, Compute(k)
  PROVE  done' = SetToBag(Computed(job, Finished \cup {Stage}))
<1>1. Stage \in Stages /\ Stage \notin Finished /\ Finished \subseteq Stages
  BY StageIsOpen DEF Finished
<1>2. done = SetToBag(Computed(job, Finished))
  <2>1. status # INTERNAL_ERROR
    BY DEF DispatchInv, StatusInv, BEING_PROCESSED, COMPLETED_AES, COMPLETED_HMAC, COMPLETED,
           INTERNAL_ERROR
  <2> QED
    BY <2>1 DEF DispatchInv, DoneInv
<1>3. Computed(job, Finished) \cap Work(job, Stage) = {}
  <2>1. \A st \in Finished : Work(job, st) \cap Work(job, Stage) = {}
    BY <1>1, WorkIsApart DEF Stages
  <2> QED
    BY <2>1 DEF Computed
<1>4. Computed(job, Finished \cup {Stage}) = Computed(job, Finished) \cup Work(job, Stage)
  BY DEF Computed
<1>5. done' = done (+) SetToBag(Work(job, Stage))
  BY DEF Compute
<1> HIDE DEF Compute
<1> QED
  BY <1>2, <1>3, <1>4, <1>5, BagOfUnion

\* A stage run with its own kernel keeps the kernels right.
LEMMA OwnKernelFits ==
  ASSUME DispatchInv, status < COMPLETED, job' = job, NEW k, Compute(k),
         OneKeySize(job, Stage) => k = KeySize(job, Stage)
  PROVE  KernelFitsKey'
<1>1. Stage \in Stages
  BY StageIsOpen
<1>2. kernels' = kernels \cup {<<Stage, k>>}
  BY DEF Compute
<1>3. KernelFitsKey
  BY DEF DispatchInv
<1>4. ASSUME job.cipher_mode # "CBCS_1_9", NEW e \in kernels', e[1] = "AES"
      PROVE  e[2] = KeySize(job, "AES")
  <2>1. CASE e \in kernels
    BY <1>3, <1>4, <2>1 DEF KernelFitsKey, KernelFits
  <2>2. CASE e = <<Stage, k>>
    BY <1>4, <2>2 DEF OneKeySize
  <2> QED
    BY <1>2, <2>1, <2>2
<1>5. ASSUME job.hash_alg \notin SharedHashes, NEW e \in kernels', e[1] = "HMAC"
      PROVE  e[2] = KeySize(job, "HMAC")
  <2>1. CASE e \in kernels
    BY <1>3, <1>5, <2>1 DEF KernelFitsKey, KernelFits
  <2>2. CASE e = <<Stage, k>>
    BY <1>5, <2>2 DEF OneKeySize
  <2> QED
    BY <1>2, <2>1, <2>2
<1> QED
  BY <1>4, <1>5 DEF KernelFitsKey, KernelFits

-----------------------------------------------------------------------------
(***************************************************************************)
(* The invariant is kept.                                                  *)
(***************************************************************************)
\* A stage done inside the submit call, or at the end of its wait: the bit is set,
\* the work is done, and the job is in no manager.
LEMMA StageDoneKeeps ==
  ASSUME DispatchInv, status < COMPLETED, job' = job, at' = NONE,
         status' = Or(status, Stage), NEW k, Compute(k),
         OneKeySize(job, Stage) => k = KeySize(job, Stage)
  PROVE  DispatchInv'
<1>1. KernelFitsKey'
  BY OwnKernelFits
<1>2. StatusInv'
  BY StageIsOpen DEF StatusInv
<1>3. PlaceInv'
  BY DEF PlaceInv
<1>4. ASSUME IsPaired(job) PROVE done' = SetToBag(Computed(job, Finished)')
  <2>1. Finished' = Finished \cup {Stage}
    BY StageIsOpen DEF Finished
  <2>2. done' = SetToBag(Computed(job, Finished \cup {Stage}))
    BY <1>4, ComputeAddsStage
  <2>3. Computed(job, Finished)' = Computed(job, Finished \cup {Stage})
    BY <2>1 DEF Computed
  <2> QED
    BY <2>2, <2>3
<1>5. DoneInv'
  BY <1>4 DEF DoneInv
<1> QED
  BY <1>1, <1>2, <1>3, <1>5 DEF DispatchInv

\* A stage without an OOO manager runs the function for its own key.
LEMMA KernelOfStage ==
  ASSUME DispatchInv, status < COMPLETED, OneKeySize(job, Stage)
  PROVE  Kernel(job, Stage) = KeySize(job, Stage)
BY StageIsOpen, KernelIsKeySize DEF DispatchInv

LEMMA RunSyncKeeps ==
  ASSUME DispatchInv, RunSync
  PROVE  DispatchInv'
<1>1. /\ status < COMPLETED /\ job' = job /\ at' = NONE
      /\ status' = Or(status, Stage) /\ Compute(Kernel(job, Stage))
  BY DEF RunSync, Ready
<1> QED
  BY <1>1, KernelOfStage, StageDoneKeeps

LEMMA RunAeadKeeps ==
  ASSUME DispatchInv, RunAead
  PROVE  DispatchInv'
<1>1. /\ status < COMPLETED /\ job' = job /\ at' = NONE /\ status' = COMPLETED
      /\ Compute(Kernel(job, Stage)) /\ Server(Kind, Stage) = AEAD
  BY DEF RunAead, Ready
<1>2. job \in ValidJobs
  BY DEF DispatchInv
<1>3. Stage = "AES" /\ SubmitCipher(job) = AEAD
  <2>1. Stage # "HMAC"
    BY <1>1, <1>2, HashTableInManagers
    DEF Server, Kind, KindOf, HashManagers, SYNC, AEAD, CUSTOM
  <2> QED
    BY <1>1, <2>1, StageIsOpen DEF Stages, Server, Kind, KindOf
<1>4. KernelFitsKey'
  BY <1>1, KernelOfStage, OwnKernelFits
<1>5. StatusInv'
  BY <1>1 DEF StatusInv
<1>6. PlaceInv'
  BY <1>1 DEF PlaceInv
<1>7. ASSUME IsPaired(job) PROVE done' = SetToBag(Computed(job, Finished)')
  <2>1. done' = SetToBag(Computed(job, Finished \cup {Stage}))
    BY <1>1, <1>7, ComputeAddsStage
  <2>2. Work(job, "HMAC") = {}
    BY <1>2, <1>3, <1>7, AeadDoesBoth
  <2>3. Finished' = Stages
    BY <1>1 DEF Finished, HasBit, Stages, COMPLETED
  <2>4. Finished \cup {Stage} = Stages \/ Finished \cup {Stage} = {"AES"}
    BY <1>3 DEF Finished, Stages
  <2>5. Computed(job, Stages) = Work(job, "AES")
    BY <2>2 DEF Computed, Stages
  <2>6. Computed(job, {"AES"}) = Work(job, "AES")
    BY DEF Computed
  <2>7. Computed(job, Finished)' = Computed(job, Stages)
    BY <1>1, <2>3 DEF Computed
  <2> QED
    BY <2>1, <2>4, <2>5, <2>6, <2>7
<1>8. DoneInv'
  BY <1>1, <1>7 DEF DoneInv
<1> QED
  BY <1>1, <1>2, <1>4, <1>5, <1>6, <1>8 DEF DispatchInv

LEMMA RunCustomKeeps ==
  ASSUME DispatchInv, RunCustom
  PROVE  DispatchInv'
<1>1. /\ status < COMPLETED /\ job' = job /\ at' = NONE /\ Server(Kind, Stage) = CUSTOM
  BY DEF RunCustom, Ready
<1>2. job \in ValidJobs
  BY DEF DispatchInv
<1>3. CASE Compute(0) /\ status' = Or(status, Stage)
  <2>1. KeySize(job, Stage) = 0
    <3>1. CASE Stage = "AES"
      <4>1. job.cipher_mode = "CUSTOM"
        BY <1>1, <3>1
        DEF Server, Kind, KindOf, SubmitCipher, CbcManager, DocsisManager, DesManager,
            SYNC, AEAD, CUSTOM
      <4>2. Kernel(job, "AES") = 0
        BY <4>1 DEF Kernel
      <4> QED
        BY <3>1, <4>2 DEF KeySize
    <3>2. CASE Stage = "HMAC"
      <4>1. job.hash_alg = "CUSTOM"
        BY <1>1, <3>2 DEF Server, Kind, KindOf, SubmitHash, HashManager, SYNC, CUSTOM
      <4>2. Kernel(job, "HMAC") = 0
        BY <4>1 DEF Kernel
      <4> QED
        BY <3>2, <4>2 DEF KeySize
    <3> QED
      BY <1>1, <3>1, <3>2, StageIsOpen DEF Stages
  <2> QED
    BY <1>1, <1>3, <2>1, StageDoneKeeps
<1>4. CASE status' = INTERNAL_ERROR /\ UNCHANGED <<done, kernels>>
  <2>1. KernelFitsKey'
    BY <1>1, <1>4 DEF DispatchInv, KernelFitsKey, KernelFits
  <2>2. StatusInv' /\ PlaceInv' /\ DoneInv'
    BY <1>1, <1>4 DEF StatusInv, PlaceInv, DoneInv
  <2> QED
    BY <1>1, <1>2, <2>1, <2>2 DEF DispatchInv
<1> QED
  BY <1>3, <1>4 DEF RunCustom

LEMMA EnqueueKeeps ==
  ASSUME DispatchInv, Enqueue
  PROVE  DispatchInv'
<1>1. /\ status < COMPLETED /\ UNCHANGED <<job, status, done, kernels>>
      /\ at' = Server(Kind, Stage) /\ at' \in Managers
  BY DEF Enqueue, Ready
<1>2. PlaceInv'
  BY <1>1 DEF PlaceInv, Kind, Stage
<1>3. KernelFitsKey'
  BY <1>1 DEF DispatchInv, KernelFitsKey, KernelFits
<1>4. StatusInv' /\ job' \in ValidJobs
  BY <1>1 DEF DispatchInv, StatusInv
<1>5. DoneInv'
  BY <1>1 DEF DispatchInv, DoneInv, Finished
<1> QED
  BY <1>2, <1>3, <1>4, <1>5 DEF DispatchInv

LEMMA FinishKeeps ==
  ASSUME DispatchInv, Finish
  PROVE  DispatchInv'
<1>1. /\ at # NONE /\ job' = job /\ at' = NONE /\ status' = Or(status, Stage)
  BY DEF Finish
<1>2. PICK k \in KernelsOf[at] : Compute(k)
  BY DEF Finish
<1>3. at \in Managers /\ status < COMPLETED /\ at = Server(Kind, Stage) /\ job \in ValidJobs
  BY <1>1 DEF DispatchInv, PlaceInv
<1>4. PICK u \in ValidJobs \X Stages : at = Server(KindOf(u[1]), u[2]) /\ k = Kernel(u[1], u[2])
  <2>1. KernelsOf[at] = {Kernel(u[1], u[2]) :
                           u \in {v \in ValidJobs \X Stages : Server(KindOf(v[1]), v[2]) = at}}
    BY <1>3 DEF KernelsOf
  <2> QED
    BY <1>2, <2>1
<1>5. ASSUME OneKeySize(job, Stage) PROVE k = KeySize(job, Stage)
  <2>1. Stage \in Stages
    BY <1>3, StageIsOpen
  <2>2. at \notin SharedManagers
    BY <1>3, <1>5, <2>1, OneKeySizeNotShared DEF Kind
  <2>3. k = ManagerKernel(at)
    BY <1>3, <1>4, <2>2, ManagerHasOneKernel
  <2>4. Kernel(job, Stage) = ManagerKernel(at)
    BY <1>3, <2>1, <2>2, ManagerHasOneKernel DEF Kind
  <2> QED
    BY <1>3, <1>5, <2>3, <2>4, KernelOfStage
<1> QED
  BY <1>1, <1>2, <1>3, <1>5, StageDoneKeeps

LEMMA InitDispatchInv ==
  ASSUME Init
  PROVE  DispatchInv
<1>1. Finished = {}
  BY DEF Init, Finished, HasBit, Stages, BEING_PROCESSED
<1>2. Computed(job, {}) = {}
  BY DEF Computed
<1>3. DoneInv
  BY <1>1, <1>2 DEF Init, DoneInv, EmptyBag
<1>4. KernelFitsKey
  BY DEF Init, KernelFitsKey, KernelFits
<1> QED
  BY <1>3, <1>4 DEF Init, DispatchInv, StatusInv, PlaceInv

LEMMA NextKeeps ==
  ASSUME DispatchInv, [Next]_vars
  PROVE  DispatchInv'
<1>1. ASSUME UNCHANGED vars PROVE DispatchInv'
  <2>1. StatusInv' /\ PlaceInv' /\ job' \in ValidJobs
    BY <1>1 DEF vars, DispatchInv, StatusInv, PlaceInv, Kind, Stage
  <2>2. DoneInv'
    BY <1>1 DEF vars, DispatchInv, DoneInv, Finished
  <2>3. KernelFitsKey'
    BY <1>1 DEF vars, DispatchInv, KernelFitsKey, KernelFits
  <2> QED
    BY <2>1, <2>2, <2>3 DEF DispatchInv
<1> QED
  BY <1>1, RunSyncKeeps, RunAeadKeeps, RunCustomKeeps, EnqueueKeeps, FinishKeeps
  DEF Next, Returned

-----------------------------------------------------------------------------
(***************************************************************************)
(* What follows.                                                           *)
(***************************************************************************)
THEOREM AlwaysDispatchInv == Spec => []DispatchInv
<1>1. Init => DispatchInv
  BY InitDispatchInv
<1>2. DispatchInv /\ [Next]_vars => DispatchInv'
  BY NextKeeps
<1> QED
  BY <1>1, <1>2, PTL DEF Spec

\* The submit and the flush tables agree on every job that is_job_invalid lets
\* through (SUBMIT_JOB_AES_ENC and FLUSH_JOB_AES_ENC and their likes), which is
\* what the proofs about the scheduler assume of the kinds of jobs.
THEOREM KindAlwaysAdmissible == Spec => []KindIsAdmissible
<1>1. DispatchInv => KindIsAdmissible
  BY TablesAgree DEF DispatchInv, KindIsAdmissible, Kind
<1> QED
  BY <1>1, AlwaysDispatchInv, PTL

\* A completed job had its cipher and its hash computed once each, although for
\* some pairs one function does both and SUBMIT_JOB_HASH only sets the bit.
THEOREM RequestedStagesAlwaysRun == Spec => []RequestedStagesRun
<1>1. DispatchInv => RequestedStagesRun
  <2> SUFFICES ASSUME DispatchInv, IsPaired(job), status = COMPLETED,
                      NEW a \in {<<"AES", job.cipher_mode>>, <<"HMAC", job.hash_alg>>}
               PROVE  BagIn(a, done) /\ done[a] = 1
    BY DEF RequestedStagesRun
  <2>1. Finished = Stages
    BY DEF Finished, Stages, HasBit, COMPLETED
  <2>2. done = SetToBag(Computed(job, Stages))
    BY <2>1 DEF DispatchInv, DoneInv, COMPLETED, INTERNAL_ERROR
  <2>3. a \in Computed(job, Stages)
    BY WorkIsWhole DEF DispatchInv
  <2> QED
    BY <2>2, <2>3 DEF SetToBag, BagIn, BagToSet
<1> QED
  BY <1>1, AlwaysDispatchInv, PTL

\* No job waits in an OOO manager with a length that reaches 0xFFFF, the mark of an
\* empty lane, whatever lengths the application uses (is_job_invalid).
THEOREM LaneLengthAlwaysFits == Spec => []LaneLengthFits
<1>1. DispatchInv => LaneLengthFits
  <2> SUFFICES ASSUME DispatchInv, at \in Managers \ {"aes128_cbcs_ooo"}
               PROVE  LaneLength(job, at) < 65535
    BY DEF LaneLengthFits
  <2>1. at # NONE
    BY DEF Managers, CipherManagers, HashManagers, NONE
  <2>2. at = Server(KindOf(job), Stage) /\ status < COMPLETED /\ job \in ValidJobs
    BY <2>1 DEF DispatchInv, PlaceInv, Kind
  <2>3. Stage \in Stages
    BY <2>2, StageIsOpen
  <2> QED
    BY <2>2, <2>3, WordFits
<1> QED
  BY <1>1, AlwaysDispatchInv, PTL

\* Whichever job's call runs a lane, its kernel is built for the key size of the
\* job in it (the choice of the OOO managers), CBCS and the MACs with a manager
\* for two key sizes excepted.
THEOREM KernelAlwaysFitsKey == Spec => []KernelFitsKey
<1>1. DispatchInv => KernelFitsKey
  BY DEF DispatchInv
<1> QED
  BY <1>1, AlwaysDispatchInv, PTL

=============================================================================
