------------------------------- MODULE Snow3g -------------------------------
(***************************************************************************)
(* The SNOW3G drivers of lib/include/snow3g_common.h: F8 (ciphering) of    *)
(* one buffer, in bytes or in bits, of 2, 4 and 8 buffers in step, and of  *)
(* n buffers with one key or a key each, and F9 (a MAC).  The file is      *)
(* compiled once for each architecture; AVX2 tells whether with the        *)
(* kernels of 8 packets (avx2/snow3g_avx2.c) or without.                   *)
(* A definition named X_Defect is X with a slip; no specification uses it. *)
(***************************************************************************)
EXTENDS Keystream

\* UINT32_MAX in the code, for lengths of 64 bits.  TLC's integers have 32, so
\* that it gets a lesser bound for messages to cross.
CONSTANT SNOW3G_MAX_BITLEN

ASSUME BitLenAssumption == SNOW3G_MAX_BITLEN \in Nat

SNOW3G_MAX_BYTELEN == 536870911   \* UINT32_MAX / 8
NUM_PACKETS_16     == 16

\* What is left in pBufferOut: a null pointer
Nulled == <<Piece(0, 0, 0, 0)>>

\* SAFE_PARAM: no buffer is touched when one of the lengths is out of range.
Snow3gChecked(lens, out) ==
  IF \A i \in DOMAIN lens : lens[i] \in 1 .. SNOW3G_MAX_BYTELEN
  THEN out ELSE [i \in DOMAIN lens |-> <<>>]

---------------------------------------------------------------------------
(* F8 *)

\* len bytes from "at" on with a state that has made pos bytes: 8 at a time, then
\* the last 1 to 7.
f8_snow3g(of, at, pos, len) ==
  <<Piece(of, at, pos, RoundDown(len, 8)),
    Piece(of, at + RoundDown(len, 8), pos + RoundDown(len, 8), len % 8)>>

\* Whose keystream row k makes when each packet has its key: nobody's, if the key
\* is not the one that goes with the IV.
OwnKey(row) == IF row.key = row.iv THEN row.iv ELSE 0

\* A packet in step with others as far as "common" goes, "wide" bytes at a time and
\* then 8, and with a state of its own (snow3gStateConvert_4, _8) from there on.
F8InStep(of, wide, common, len) ==
  Pieces(<<Piece(of, 0, 0, RoundDown(common, wide)),
           Piece(of, RoundDown(common, wide), RoundDown(common, wide), common % wide)>>
         \o f8_snow3g(of, common, common, len - common))

\* length_find_min, in whole blocks of 8 bytes
CommonLen(rows, g) == RoundDown(Min({rows[k].len : k \in g}), 8)

Snow3gOne(rows, k) == Pieces(f8_snow3g(rows[k].iv, 0, 0, rows[k].len))

Snow3gFour(rows, g, k) == F8InStep(rows[k].iv, 16, CommonLen(rows, g), rows[k].len)

snow3g_8_buffer_ks_32_8(rows, g, k) == F8InStep(rows[k].iv, 32, CommonLen(rows, g), rows[k].len)

snow3g_8_buffer_ks_32_8_multi(rows, g, k) ==
  F8InStep(OwnKey(rows[k]), 32, CommonLen(rows, g), rows[k].len)

\* Without AVX2, two times four
Snow3gEight(avx2, rows, g, k) ==
  LET half(p) == (p - Min(g)) \div 4 IN
  IF avx2 THEN snow3g_8_buffer_ks_32_8(rows, g, k)
  ELSE Snow3gFour(rows, {p \in g : half(p) = half(k)}, k)

\* Without AVX2, eight times one
Snow3gEightKeys(avx2, rows, g, k) ==
  IF avx2 THEN snow3g_8_buffer_ks_32_8_multi(rows, g, k)
  ELSE Pieces(f8_snow3g(OwnKey(rows[k]), 0, 0, rows[k].len))

SNOW3G_F8_1_BUFFER(lens) == Snow3gChecked(lens, [b \in {1} |-> Snow3gOne(Rows(lens), b)])

\* One after the other
SNOW3G_F8_2_BUFFER(lens) == Snow3gChecked(lens, [b \in 1 .. 2 |-> Snow3gOne(Rows(lens), b)])

SNOW3G_F8_4_BUFFER(lens) == Snow3gChecked(lens, [b \in 1 .. 4 |-> Snow3gFour(Rows(lens), 1 .. 4, b)])

SNOW3G_F8_8_BUFFER(avx2, lens) ==
  Snow3gChecked(lens, [b \in 1 .. 8 |-> Snow3gEight(avx2, Rows(lens), 1 .. 8, b)])

SNOW3G_F8_8_BUFFER_MULTIKEY(avx2, lens) ==
  Snow3gChecked(lens, [b \in 1 .. 8 |-> Snow3gEightKeys(avx2, Rows(lens), 1 .. 8, b)])

\* More than 16 packets are not done: the first output pointer is cleared.
TooMany(lens) == [b \in DOMAIN lens |-> IF b = 1 THEN Nulled ELSE <<>>]

\* Longest first, then 8 (AVX2), 4, 2 or 1 at a time
SNOW3G_F8_N_BUFFER(avx2, lens) ==
  LET rows   == SortedRows(Rows(lens))
      groups == Groups(Len(lens), IF avx2 THEN {8, 4, 2, 1} ELSE {4, 2, 1})
      done(k) == LET g == GroupOf(k, groups) IN
                 CASE Cardinality(g) = 8 -> Snow3gEight(avx2, rows, g, k)
                   [] Cardinality(g) = 4 -> Snow3gFour(rows, g, k)
                   [] OTHER              -> Snow3gOne(rows, k)
  IN  Snow3gChecked(lens,
        IF Len(lens) > NUM_PACKETS_16 THEN TooMany(lens) ELSE [b \in DOMAIN rows |-> done(RowOf(rows, b))])

\* The same with keys that are sorted too, and 8 (AVX2) or 1 at a time
SNOW3G_F8_N_BUFFER_MULTIKEY(avx2, lens) ==
  LET rows   == SortedRows(Rows(lens))
      groups == Groups(Len(lens), IF avx2 THEN {8, 1} ELSE {1})
      done(k) == LET g == GroupOf(k, groups) IN
                 IF Cardinality(g) = 8 THEN Snow3gEightKeys(avx2, rows, g, k)
                 ELSE Pieces(f8_snow3g(OwnKey(rows[k]), 0, 0, rows[k].len))
  IN  Snow3gChecked(lens,
        IF Len(lens) > NUM_PACKETS_16 THEN TooMany(lens) ELSE [b \in DOMAIN rows |-> done(RowOf(rows, b))])

\* SNOW3G_F8_1_BUFFER_BIT, f8_snow3g_bit: only an empty message is refused.
SNOW3G_F8_1_BUFFER_BIT(len, offset) ==
  IF len = 0 THEN [pieces |-> <<>>, kept |-> {}, written |-> 0] ELSE F8Bits(len, offset)

---------------------------------------------------------------------------
(* F9 *)

\* "powers": the power of P that each word of 64 bits of the message is multiplied
\* with in E.  k more words are multiplied with P^k .. P, and E with P^k: E is added
\* to the first of them.
Absorb(powers, k) == [i \in DOMAIN powers |-> powers[i] + k] \o [i \in 1 .. k |-> k + 1 - i]

\* More than 8 words: four at a time and then two; the rest one at a time, then
\* the bits that are no whole word.
Absorptions(len) ==
  LET words == len \div 64
      fours == IF words > 8 THEN words \div 4 ELSE 0
      twos  == IF words > 8 THEN (words % 4) \div 2 ELSE 0
      ones  == words - (4 * fours) - (2 * twos)
  IN  [s \in 1 .. fours |-> 4] \o [s \in 1 .. twos |-> 2] \o [s \in 1 .. ones |-> 1]
      \o (IF len % 64 = 0 THEN <<>> ELSE <<1>>)

\* pDigest is left as it was.
NoDigest == [powers |-> <<>>, bits |-> 0]

\* "bits" of the last word are not masked.
Digest(len) ==
  LET ks == Absorptions(len)
      absorbed[s \in 0 .. Len(ks)] == IF s = 0 THEN <<>> ELSE Absorb(absorbed[s - 1], ks[s])
  IN  [powers |-> absorbed[Len(ks)], bits |-> IF len % 64 = 0 THEN 64 ELSE len % 64]

\* Of any length
SNOW3G_F9_1_BUFFER_Defect(len) == IF len = 0 THEN NoDigest ELSE Digest(len)

\* SAFE_PARAM: empty messages and those of more than SNOW3G_MAX_BITLEN bits are
\* refused.
SNOW3G_F9_1_BUFFER(len) == IF len \in 1 .. SNOW3G_MAX_BITLEN THEN Digest(len) ELSE NoDigest

=============================================================================
