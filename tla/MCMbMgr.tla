------------------------------ MODULE MCMbMgr ------------------------------
(***************************************************************************)
(* Small instances of MbMgr for TLC.                                       *)
(***************************************************************************)
EXTENDS MbMgr

CONSTANTS aes, hmac, l1, l2, l3

Kind(order, c, cf, h, hf) ==
  [order |-> order, cipher |-> c, cipher_flush |-> cf,
   hash |-> h, hash_flush |-> hf]

CipherOoo == {aes}
HashOoo   == {hmac}

TwoLanes   == [m \in {aes, hmac} |-> {l1, l2}]
ThreeLanes == [m \in {aes, hmac} |-> {l1, l2, l3}]

\* Both stages queued, in either order; one of the stages done at once.
CbcHmac  == Kind("CIPHER_HASH", aes, aes, hmac, hmac)
HmacCbc  == Kind("HASH_CIPHER", aes, aes, hmac, hmac)
HmacCtr  == Kind("HASH_CIPHER", SYNC, NONE, hmac, hmac)
Gcm      == Kind("CIPHER_HASH", AEAD, NONE, SYNC, SYNC)
HmacCust == Kind("HASH_CIPHER", CUSTOM, CUSTOM, hmac, hmac)
CustHmac == Kind("CIPHER_HASH", CUSTOM, CUSTOM, hmac, hmac)

\* A DOCSIS job shorter than a block: done at once, but the flush table names
\* the manager of the longer ones.
ShortHmac == Kind("CIPHER_HASH", SYNC, aes, hmac, hmac)

QueuedKinds == {CbcHmac, HmacCbc, HmacCtr}
MixedKinds  == {CbcHmac, HmacCbc, Gcm, HmacCust, ShortHmac}
CustomFirst == {CustHmac, CbcHmac}

=============================================================================
