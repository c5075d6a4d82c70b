--------------------------- MODULE MCJobDispatch ---------------------------
(***************************************************************************)
(* Instances of JobDispatch: all the algorithms; the .cfg files of the      *)
(* findings name the few they need themselves.                             *)
(***************************************************************************)
EXTENDS JobDispatch

AllCiphers ==
  {"CBC", "CNTR", "NULL", "DOCSIS_SEC_BPI", "GCM", "CUSTOM", "DES", "DOCSIS_DES", "CCM",
   "DES3", "PON_AES_CNTR", "ECB", "CNTR_BITLEN", "ZUC_EEA3", "SNOW3G_UEA2_BITLEN",
   "KASUMI_UEA1_BITLEN", "CBCS_1_9", "CHACHA20", "CHACHA20_POLY1305"}

AllHashes ==
  {"HMAC_SHA_1", "HMAC_SHA_224", "HMAC_SHA_256", "HMAC_SHA_384", "HMAC_SHA_512",
   "AES_XCBC", "MD5", "NULL", "AES_GMAC", "CUSTOM", "AES_CCM", "AES_CMAC", "SHA_1",
   "SHA_224", "SHA_256", "SHA_384", "SHA_512", "AES_CMAC_BITLEN", "PON_CRC_BIP",
   "ZUC_EIA3_BITLEN", "DOCSIS_CRC32", "SNOW3G_UIA2_BITLEN", "KASUMI_UIA1",
   "AES_GMAC_128", "AES_GMAC_192", "AES_GMAC_256", "AES_CMAC_256", "POLY1305",
   "CHACHA20_POLY1305"}

\* Nothing, less than a block, a block, more than 16 bits hold; and for the
\* hash the PDU that goes with a block of DOCSIS.
AllCipherLens == {0, 8, 16, 65536}
AllHashLens   == {0, 16, 24, 65536}

=============================================================================
