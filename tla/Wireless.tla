------------------------------ MODULE Wireless ------------------------------
(***************************************************************************)
(* The wireless algorithms of the library: the functions of its direct API *)
(* (IMB_ZUC_EEA3_N_BUFFER, IMB_SNOW3G_F8_N_BUFFER and the like), which do  *)
(* their work in one call, beside the OOO managers of ZUC for AVX512,      *)
(* whose jobs stay from call to call.                                      *)
(*                                                                         *)
(* A call of the direct API keeps nothing and touches no manager.  Bound:  *)
(* it is made only before the managers of ZUC are used, so that the two    *)
(* kinds of states add up and do not multiply.                             *)
(***************************************************************************)
EXTENDS ZucLanes, Snow3g, Kasumi

CONSTANTS
  EEA3Batches,    \* the lengths of a call, a sequence of bytes for each buffer
  EIA3Batches,    \* the same in bits
  Snow3gBatches,  \* the same in bytes
  KasumiBatches,  \* the same in bytes
  BitLens,        \* lengths in bits of the functions for one message of bits
  BitOffsets,
  F9Lens          \* lengths in bits for F9 of SNOW3G

\* Lengths and offsets are unsigned.
ASSUME BatchesAssumption ==
  /\ EEA3Batches \subseteq Seq(Nat) /\ EIA3Batches \subseteq Seq(Nat)
  /\ Snow3gBatches \subseteq Seq(Nat) /\ KasumiBatches \subseteq Seq(Nat)
  /\ BitLens \subseteq Nat /\ BitOffsets \subseteq Nat /\ F9Lens \subseteq Nat

VARIABLES
  call,   \* the function called, and its lengths
  out     \* what it leaves in each of its buffers

vars == <<lanesVars, call, out>>

NoCall == [fn |-> "none", lens |-> <<>>]

\* No call has been made whose results are not looked at yet.
Ready == call.fn = "none"

Unused == alg = "EEA3" /\ \A l \in Lanes : ooo.in[l] = NoBuffer

Made(fn, lens, result) ==
  /\ call' = [fn |-> fn, lens |-> lens]
  /\ out' = result

\* The batches of n buffers
Of(batches, n) == {b \in batches : Len(b) = n}

\* The batches of n buffers of one length
OfOneLength(batches, n) == {b \in Of(batches, n) : \A i \in DOMAIN b : b[i] = b[1]}

-----------------------------------------------------------------------------
CallEea3One ==
  \E lens \in Of(EEA3Batches, 1) :
    \/ Made("eea3", lens, zuc_eea3_1_buffer_no_aesni(lens))
    \/ Made("eea3", lens, zuc_eea3_1_buffer_sse(lens))
    \/ Made("eea3", lens, zuc_eea3_1_buffer_avx(lens))
    \/ Made("eea3", lens, zuc_eea3_1_buffer_avx2(lens))
    \/ Made("eea3", lens, zuc_eea3_1_buffer_avx512(lens))

\* AVX2 and AVX512 have the function of AVX.
CallEea3Four ==
  \E lens \in Of(EEA3Batches, 4) :
    \/ Made("eea3", lens, zuc_eea3_4_buffer_no_aesni(lens))
    \/ Made("eea3", lens, zuc_eea3_4_buffer_sse(lens))
    \/ Made("eea3", lens, zuc_eea3_4_buffer_avx(lens))

CallEea3N ==
  \E lens \in EEA3Batches :
    \/ Made("eea3", lens, zuc_eea3_n_buffer_no_aesni(lens))
    \/ Made("eea3", lens, zuc_eea3_n_buffer_sse(lens))
    \/ Made("eea3", lens, zuc_eea3_n_buffer_avx(lens))
    \/ Made("eea3", lens, zuc_eea3_n_buffer_avx2(lens))
    \/ Made("eea3", lens, zuc_eea3_n_buffer_avx512(lens))

CallEia3One ==
  \E lens \in Of(EIA3Batches, 1) :
    \/ Made("eia3", lens, zuc_eia3_1_buffer_no_aesni(lens))
    \/ Made("eia3", lens, zuc_eia3_1_buffer_sse(lens))
    \/ Made("eia3", lens, zuc_eia3_1_buffer_avx(lens))
    \/ Made("eia3", lens, zuc_eia3_1_buffer_avx2(lens))
    \/ Made("eia3", lens, zuc_eia3_1_buffer_avx512(lens))

CallEia3N ==
  \E lens \in EIA3Batches :
    \/ Made("eia3", lens, zuc_eia3_n_buffer_no_aesni(lens))
    \/ Made("eia3", lens, zuc_eia3_n_buffer_sse(lens))
    \/ Made("eia3", lens, zuc_eia3_n_buffer_avx(lens))
    \/ Made("eia3", lens, zuc_eia3_n_buffer_avx2(lens))
    \/ Made("eia3_avx512", lens, zuc_eia3_n_buffer_avx512(lens))

\* The managers of 4 and 8 lanes call their kernel for whole jobs: with all lanes
\* busy, or with the length of a busy lane in those that are not.
CallEia3Job ==
  \/ \E lens \in Of(EIA3Batches, 4), busy \in SUBSET (1 .. 4) :
       /\ busy # {}
       /\ \A i \in 1 .. 4 : lens[i] \in ZUC_MIN_BITLEN .. ZUC_MAX_BITLEN
       /\ LET l == [i \in 1 .. 4 |-> IF i \in busy THEN lens[i] ELSE lens[Min(busy)]] IN
          \/ Made("eia3_job", <<l, busy>>, zuc_eia3_4_buffer_job_no_aesni(l, busy))
          \/ Made("eia3_job", <<l, busy>>, zuc_eia3_4_buffer_job_sse(l, busy))
          \/ Made("eia3_job", <<l, busy>>, zuc_eia3_4_buffer_job_avx(l, busy))
  \/ \E lens \in Of(EIA3Batches, 8), busy \in {1 .. 8, {2}, {3, 8}} :
       /\ \A i \in 1 .. 8 : lens[i] \in ZUC_MIN_BITLEN .. ZUC_MAX_BITLEN
       /\ LET l == [i \in 1 .. 8 |-> IF i \in busy THEN lens[i] ELSE lens[Min(busy)]] IN
          Made("eia3_job", <<l, busy>>, zuc_eia3_8_buffer_job_avx2(l, busy))

CallSnow3g ==
  \/ \E lens \in Of(Snow3gBatches, 1) : Made("snow3g", lens, SNOW3G_F8_1_BUFFER(lens))
  \/ \E lens \in Of(Snow3gBatches, 2) : Made("snow3g", lens, SNOW3G_F8_2_BUFFER(lens))
  \/ \E lens \in Of(Snow3gBatches, 4) : Made("snow3g", lens, SNOW3G_F8_4_BUFFER(lens))
  \/ \E avx2 \in BOOLEAN, lens \in Of(Snow3gBatches, 8) :
       \/ Made("snow3g", lens, SNOW3G_F8_8_BUFFER(avx2, lens))
       \/ Made("snow3g", lens, SNOW3G_F8_8_BUFFER_MULTIKEY(avx2, lens))
  \/ \E avx2 \in BOOLEAN, lens \in Snow3gBatches :
       \/ Made("snow3g_n", lens, SNOW3G_F8_N_BUFFER(avx2, lens))
       \/ Made("snow3g_n", lens, SNOW3G_F8_N_BUFFER_MULTIKEY(avx2, lens))

CallKasumi ==
  \/ \E lens \in Of(KasumiBatches, 1) :
       \/ Made("kasumi", lens, kasumi_f8_1_buffer_sse(lens))
       \/ Made("kasumi", lens, kasumi_f8_1_buffer_avx(lens))
  \/ \E lens \in Of(KasumiBatches, 2) :
       \/ Made("kasumi", lens, kasumi_f8_2_buffer_sse(lens))
       \/ Made("kasumi", lens, kasumi_f8_2_buffer_avx(lens))
  \/ \E lens \in OfOneLength(KasumiBatches, 3) :
       \/ Made("kasumi", lens, kasumi_f8_3_buffer_sse(lens))
       \/ Made("kasumi", lens, kasumi_f8_3_buffer_avx(lens))
  \/ \E lens \in OfOneLength(KasumiBatches, 4) :
       \/ Made("kasumi", lens, kasumi_f8_4_buffer_sse(lens))
       \/ Made("kasumi", lens, kasumi_f8_4_buffer_avx(lens))
  \/ \E lens \in KasumiBatches :
       \/ Made("kasumi", lens, kasumi_f8_n_buffer_sse(lens))
       \/ Made("kasumi", lens, kasumi_f8_n_buffer_avx(lens))

CallBits ==
  \E len \in BitLens, offset \in BitOffsets :
    \/ Made("snow3g_bit", <<len, offset>>, SNOW3G_F8_1_BUFFER_BIT(len, offset))
    \/ Made("kasumi_bit", <<len, offset>>, kasumi_f8_1_buffer_bit_sse(len, offset))
    \/ Made("kasumi_bit", <<len, offset>>, kasumi_f8_1_buffer_bit_avx(len, offset))

CallF9 ==
  \/ \E len \in F9Lens : Made("snow3g_f9", len, SNOW3G_F9_1_BUFFER(len))
  \/ \E len \in BitLens :
       \/ Made("kasumi_f9", len, kasumi_f9_1_buffer_sse(len))
       \/ Made("kasumi_f9", len, kasumi_f9_1_buffer_avx(len))
       \/ Made("kasumi_f9_user", len, kasumi_f9_1_buffer_user_sse(len))
       \/ Made("kasumi_f9_user", len, kasumi_f9_1_buffer_user_avx(len))

\* The application looks at its buffers and goes on.
Return ==
  /\ ~Ready
  /\ call' = NoCall
  /\ out' = <<>>
  /\ UNCHANGED lanesVars

Init == LanesInit /\ call = NoCall /\ out = <<>>

DirectCall ==
  /\ Ready /\ Unused
  /\ \/ CallEea3One \/ CallEea3Four \/ CallEea3N
     \/ CallEia3One \/ CallEia3N \/ CallEia3Job
     \/ CallSnow3g \/ CallKasumi \/ CallBits \/ CallF9
  /\ UNCHANGED lanesVars

Next ==
  \/ DirectCall
  \/ Return
  \/ Ready /\ LaneNext /\ UNCHANGED <<call, out>>

Spec == Init /\ [][Next]_vars

-----------------------------------------------------------------------------
TypeOK ==
  /\ LanesTypeOK
  /\ call.fn \in {"none", "eea3", "eia3", "eia3_avx512", "eia3_job", "snow3g", "snow3g_n",
                  "snow3g_bit", "snow3g_f9", "kasumi", "kasumi_bit", "kasumi_f9", "kasumi_f9_user"}

\* The managers of ZUC keep their types, and the kernel keeps to their jobs.
LanesAreSound == TypeOK /\ KernelStaysInBuffers

\* Every buffer of the call gets its own keystream, from its first byte to its last
\* one, and nothing else.
AllInStep == \A i \in DOMAIN call.lens : InStep(out[i], i, call.lens[i])

AllUntouched == \A i \in DOMAIN out : out[i] = Untouched

InRange(lens, max) == \A i \in DOMAIN lens : lens[i] \in 1 .. max

\* EEA3 of any number of buffers ciphers each byte of each buffer once, with the
\* byte of the keystream of its own key and IV that is due there, however the
\* buffers are grouped and whatever the lengths in a group; or it touches no buffer,
\* when one of the lengths is out of range (zuc_eea3_n_buffer).
Eea3InStep ==
  call.fn = "eea3" => IF InRange(call.lens, ZUC_MAX_BYTELEN) THEN AllInStep ELSE AllUntouched

\* SNOW3G does the same, with packets that it sorts by length, each with its IV and
\* its key (SNOW3G_F8_N_BUFFER, SNOW3G_F8_N_BUFFER_MULTIKEY, and those with a fixed
\* number of buffers).  For more than 16 it does nothing but clear the pointer to
\* the first output buffer.
Snow3gInStep ==
  call.fn \in {"snow3g", "snow3g_n"} =>
    IF ~InRange(call.lens, SNOW3G_MAX_BYTELEN) THEN AllUntouched
    ELSE IF Len(call.lens) > NUM_PACKETS_16 THEN out = TooMany(call.lens)
    ELSE AllInStep

\* KASUMI does the same: the number of the block, which goes into the keystream, is
\* one variable for all packets of a call (kasumi_f8_2_buffer, kasumi_f8_n_buffer).
KasumiInStep ==
  call.fn = "kasumi" => IF InRange(call.lens, KASUMI_MAX_BYTES) THEN AllInStep ELSE AllUntouched

\* A MAC takes each word of keystream from the slot that holds it.
RightMacs(lens) == \A i \in DOMAIN lens : out[i] = Mac({})

\* The calls for which the AVX512 functions are known to be wrong: the common part
\* of 16 messages ends with a round while one of them goes on.
EndsInAShortRound(lens) ==
  \E n \in 0 .. (Len(lens) \div 16) - 1 :
    LET g == (16 * n) + 1 .. (16 * n) + 16 IN
    /\ MinLen(lens, g) >= ROUND
    /\ MinLen(lens, g) % ROUND = 0
    /\ ~AllEqual(lens, g)

\* EIA3 of any number of messages gives each its MAC, or none if one of the lengths
\* is out of range (zuc_eia3_n_buffer), where the last round of a group makes less
\* keystream if that is enough; except for what AVX512 gets wrong, see Eia3IsMac.
\* The kernels of the managers with 4 and 8 lanes write the MAC of the lanes with a
\* job and no other (zuc_eia3_4_buffer_job).
Eia3Holds ==
  /\ call.fn \in {"eia3", "eia3_avx512"} =>
       IF ~InRange(call.lens, ZUC_MAX_BITLEN) THEN \A i \in DOMAIN out : out[i] = NoMac
       ELSE \/ call.fn = "eia3_avx512" /\ EndsInAShortRound(call.lens)
            \/ RightMacs(call.lens)
  /\ call.fn = "eia3_job" =>
       \A i \in DOMAIN out : out[i] = IF i \in call.lens[2] THEN Mac({}) ELSE NoMac

\* The comment on the step that makes more keystream after the rounds of a group
\* ("If remaining bits has more than 14 ZUC WORDS (double words), keystream needs
\* to have up to another 2 ZUC WORDS"): with these each message has its words.
Eia3IsMac == call.fn = "eia3_avx512" /\ InRange(call.lens, ZUC_MAX_BITLEN) => RightMacs(call.lens)

\* With an offset that is not a whole byte and less than a block, the last bits may
\* be in a byte that is not written: f8_snow3g_bit, kasumi_f8_1_buffer_bit count
\* the bytes without the offset.
Spills(len, rem) == len < BLOCK_BITS - rem /\ RoundUp(len, 8) < RoundUp(rem + len, 8)

\* Ciphering a number of bits from any bit on gives each of them its own bit of the
\* keystream, also across blocks (shiftrem), and keeps every other bit of the bytes
\* that are written, before and behind (preserve_bits); except where the last byte
\* is missed (Spills).
BitsExact ==
  call.fn \in {"snow3g_bit", "kasumi_bit"} =>
    LET len == call.lens[1]
        rem == call.lens[2] % 8
    IN  \/ len = 0
        \/ call.fn = "kasumi_bit" /\ len > KASUMI_MAX_LEN
        \/ Spills(len, rem)
        \/ /\ \A k \in DOMAIN out.pieces :
                /\ out.pieces[k].of = 1
                /\ out.pieces[k].ks = out.pieces[k].at - rem
                /\ out.pieces[k].at = IF k = 1 THEN rem ELSE End(out.pieces[k - 1])
           /\ End(out.pieces[Len(out.pieces)]) = rem + len
           /\ out.kept \cup (rem .. rem + len - 1) = 0 .. (8 * out.written) - 1

\* F9 takes the whole message, or the call is refused and the digest left alone:
\* an empty message, and one longer than the algorithm's limit.  SNOW3G's gives each
\* word the power of P that Horner's rule gives it, in whatever steps
\* (SNOW3G_F9_1_BUFFER).  KASUMI's chains the message; with the padding made by the
\* library, the direction and a one bit right behind it, in as many blocks as they
\* need (kasumi_f9_1_buffer_user).
F9TakesMessage ==
  /\ call.fn = "snow3g_f9" =>
       LET n == RoundUp(call.lens, 64) \div 64 IN
       out = IF call.lens \in 1 .. SNOW3G_MAX_BITLEN
             THEN [powers |-> [i \in 1 .. n |-> n + 1 - i], bits |-> call.lens - (64 * (n - 1))]
             ELSE NoDigest
  /\ call.fn = "kasumi_f9" =>
       IF call.lens \in 1 .. KASUMI_MAX_BYTES THEN InStep(out.message, 1, 8 * call.lens)
       ELSE out = NoF9
  /\ call.fn = "kasumi_f9_user" =>
       IF call.lens \in 1 .. KASUMI_MAX_LEN
       THEN /\ InStep(out.message, 1, call.lens)
            /\ out.direction = call.lens
            /\ out.one = call.lens + 1
            /\ out.blocks = RoundUp(call.lens + 2, 64) \div 64
       ELSE out = NoF9
=============================================================================
