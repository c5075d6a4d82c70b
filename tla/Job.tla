-------------------------------- MODULE Job --------------------------------
(***************************************************************************)
(* A job of the manager (IMB_JOB): its status, and its kind, which is all  *)
(* the scheduler sees of the algorithms: the chain order and, for the      *)
(* cipher and for the hash, who serves the stage when it is submitted and  *)
(* when it is flushed.  JobDispatch computes the kind of every job.        *)
(***************************************************************************)
EXTENDS Integers, Sequences

CONSTANTS
  CipherManagers,  \* the out-of-order (OOO) managers that do a cipher
  HashManagers     \* the OOO managers that do a hash

Managers == CipherManagers \cup HashManagers

\* Who serves a stage: an OOO manager or one of these.
SYNC   == "sync"    \* done inside the submit call
AEAD   == "aead"    \* done inside the submit call, cipher and hash at once
CUSTOM == "custom"  \* the application's callback, inside the call
NONE   == "none"    \* flushing: nothing to flush

Stages == {"AES", "HMAC"}
Orders == {"CIPHER_HASH", "HASH_CIPHER"}

KindType ==
  [order        : Orders,
   cipher       : CipherManagers \cup {SYNC, AEAD, CUSTOM},
   cipher_flush : CipherManagers \cup {CUSTOM, NONE},
   hash         : HashManagers \cup {SYNC, CUSTOM},
   hash_flush   : HashManagers \cup {SYNC, CUSTOM}]

\* The submit and the flush tables agree: a stage queued in an OOO manager is
\* flushed from that manager, and a flush goes to a manager only for a stage
\* that is queued there or done at once (a DOCSIS job shorter than a block).
Admissible(k) ==
  /\ k \in KindType
  /\ k.cipher \in Managers => k.cipher_flush = k.cipher
  /\ k.cipher_flush \in Managers => k.cipher \in {k.cipher_flush, SYNC}
  /\ k.hash \in Managers \/ k.hash_flush \in Managers => k.hash = k.hash_flush
  /\ k.cipher_flush = CUSTOM => k.cipher = CUSTOM
  /\ k.hash_flush = CUSTOM <=> k.hash = CUSTOM

FirstStage(k)  == IF k.order = "CIPHER_HASH" THEN "AES" ELSE "HMAC"
SecondStage(k) == IF k.order = "CIPHER_HASH" THEN "HMAC" ELSE "AES"

Server(k, stage)  == IF stage = "AES" THEN k.cipher ELSE k.hash
Flusher_Defect(k, stage) == IF stage = "AES" THEN NONE ELSE k.hash_flush
Flusher(k, stage) == IF stage = "AES" THEN k.cipher_flush ELSE k.hash_flush

(***************************************************************************)
(* JOB_STS: two completion bits, and values from 4 up for errors.          *)
(***************************************************************************)
BEING_PROCESSED == 0
COMPLETED_AES   == 1
COMPLETED_HMAC  == 2
COMPLETED       == 3
INVALID_ARGS    == 4
INTERNAL_ERROR  == 5

Statuses == 0 .. 7

Bit(stage) == IF stage = "AES" THEN COMPLETED_AES ELSE COMPLETED_HMAC

HasBit(st, stage) ==
  IF stage = "AES" THEN st \in {1, 3, 5, 7} ELSE st \in {2, 3, 6, 7}

\* status |= STS_COMPLETED_AES, or STS_COMPLETED_HMAC
Or(st, stage) == IF HasBit(st, stage) THEN st ELSE st + Bit(stage)

\* The stage RESUBMIT_JOB submits for a job with this status.
ResubmitStage(st) == IF st = COMPLETED_HMAC THEN "AES" ELSE "HMAC"

=============================================================================
