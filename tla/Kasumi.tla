------------------------------- MODULE Kasumi -------------------------------
(***************************************************************************)
(* The KASUMI drivers: F8 (ciphering) of one buffer, in bytes or in bits,  *)
(* of 2, 3 and 4 buffers and of n, and F9 (a MAC), in                      *)
(* lib/include/kasumi_internal.h, and the functions of the library around  *)
(* them, lib/sse/kasumi_sse.c and lib/avx/kasumi_avx.c.                    *)
(*                                                                         *)
(* Each block of keystream is KASUMI of the one before, changed with the   *)
(* number of the block (blkcnt): block blkcnt is bytes 8 * blkcnt on.      *)
(* A definition named X_Defect is X with a slip; no specification uses it. *)
(***************************************************************************)
EXTENDS Keystream

KASUMI_MAX_LEN   == 20000   \* bits
KASUMI_MAX_BYTES == KASUMI_MAX_LEN \div 8
MAX_BUFFERS      == 16      \* of kasumi_f8_n_buffer

\* SAFE_PARAM: no buffer is touched when one of the lengths is out of range.
KasumiChecked(lens, out) ==
  IF \A i \in DOMAIN lens : lens[i] \in 1 .. KASUMI_MAX_BYTES
  THEN out ELSE [i \in DOMAIN lens |-> <<>>]

---------------------------------------------------------------------------
(* F8 *)

\* Whole blocks while more than one is left, then the last one
kasumi_f8_1_buffer(i, len) ==
  LET before == RoundDown(len - 1, 8) IN
  Pieces(<<Piece(i, 0, 0, before), Piece(i, before, before, len - before)>>)

\* The block number is not moved on in the round for both.
kasumi_f8_2_buffer_Defect(lens, i) ==
  LET common == RoundDown(Min({lens[1], lens[2]}), 8)
      left   == [p \in 1 .. 2 |-> lens[p] - common]
      both   == IF left[1] > 0 /\ left[2] > 0 THEN Min({left[i], 8}) ELSE 0
  IN  Pieces(<<Piece(i, 0, 0, common), Piece(i, common, common, both),
               Piece(i, common + both, common, left[i] - both)>>)

\* In step for the whole blocks of the shorter one; one round for both if both have
\* bytes left; then the longer one alone.  blkcnt is one variable for both.
kasumi_f8_2_buffer(lens, i) ==
  LET common == RoundDown(Min({lens[1], lens[2]}), 8)
      left   == [p \in 1 .. 2 |-> lens[p] - common]
      both   == IF left[1] > 0 /\ left[2] > 0 THEN Min({left[i], 8}) ELSE 0
      more   == Cardinality({p \in 1 .. 2 : both > 0 /\ left[p] > 8})   \* ++blkcnt
  IN  Pieces(<<Piece(i, 0, 0, common), Piece(i, common, common, both),
               Piece(i, common + both, common + (8 * more), left[i] - both)>>)

\* Of one length, in step
kasumi_f8_3_buffer(len, i) == kasumi_f8_1_buffer(i, len)
kasumi_f8_4_buffer(len, i) == kasumi_f8_1_buffer(i, len)

\* kasumiWrapperArray[n]: the rows that get a new block, by the kernels of 8, 4, 3,
\* 2 and 1 blocks
kasumiWrapperArray(n) ==
  LET groups == Groups(n, {8, 4, 3, 2, 1}) IN UNION {groups[k] : k \in DOMAIN groups}

\* The rows 1 .. s.count are not done; s.len bytes of each are, with s.blkcnt blocks.
F8Round(rows, s) ==
  LET count   == s.count
      same_size_blocks == (RoundUp(rows[count].len, 8) \div 8) - s.blkcnt
      full    == Max({0, same_size_blocks - 1})
      at      == s.len + (8 * full)
      fresh   == kasumiWrapperArray(count)
      of(p)   == IF p \in fresh THEN rows[p].iv ELSE 0
      partial == {p \in 1 .. count : \A q \in p .. count : rows[q].len < at + 8}
      whole   == {p \in 1 .. count : \A q \in p .. count : q \in partial \/ rows[q].len <= at + 8}
      last(p) == IF p \in partial THEN rows[p].len - at ELSE 8
      done(p) == <<Piece(of(p), s.len, 8 * s.blkcnt, 8 * full),
                   Piece(of(p), at, 8 * (s.blkcnt + full), last(p))>>
  IN  [count  |-> count - Cardinality(whole),
       blkcnt |-> s.blkcnt + full + 1,
       len    |-> at + 8,
       out    |-> [p \in DOMAIN rows |-> IF p <= count THEN s.out[p] \o done(p) ELSE s.out[p]]]

\* Rounds until no row is left; each one does the last row at least.
F8Rounds(rows) ==
  LET start == [count |-> Len(rows), blkcnt |-> 0, len |-> 0, out |-> [p \in DOMAIN rows |-> <<>>]]
      rounds[r \in 0 .. Len(rows)] ==
        IF r = 0 THEN start
        ELSE LET s == rounds[r - 1] IN IF s.count = 0 THEN s ELSE F8Round(rows, s)
  IN  rounds[Len(rows)].out

\* Longest first; the shortest ones that are not done are the last.
kasumi_f8_n_buffer(lens) ==
  LET rows    == SortedRows(Rows(lens))
      out     == F8Rounds(rows)
      done(k) == Pieces(out[k])
  IN  IF Len(lens) > MAX_BUFFERS
      THEN [b \in DOMAIN lens |-> IF b = 1 THEN <<Piece(0, 0, 0, 0)>> ELSE <<>>]
      ELSE [b \in DOMAIN rows |-> done(RowOf(rows, b))]

kasumi_f8_1_buffer_bit(len, offset) == F8Bits(len, offset)

\* The pieces of a batch of buffers, for the buffers from "first" on
Shifted(pieces, first) == [k \in DOMAIN pieces |-> [pieces[k] EXCEPT !.of = @ + first - 1]]

\* Up to 16 buffers at a time
F8Batches(lens) ==
  LET groups == Groups(Len(lens), 1 .. MAX_BUFFERS) IN
  [b \in DOMAIN lens |->
     LET g == GroupOf(b, groups)
         first == Min(g)
     IN  Shifted(kasumi_f8_n_buffer(SubSeq(lens, first, Max(g)))[b - first + 1], first)]

kasumi_f8_1_buffer_sse(lens) == KasumiChecked(lens, [i \in {1} |-> kasumi_f8_1_buffer(i, lens[i])])
kasumi_f8_1_buffer_avx(lens) == KasumiChecked(lens, [i \in {1} |-> kasumi_f8_1_buffer(i, lens[i])])
kasumi_f8_2_buffer_sse(lens) == KasumiChecked(lens, [i \in 1 .. 2 |-> kasumi_f8_2_buffer(lens, i)])
kasumi_f8_2_buffer_avx(lens) == KasumiChecked(lens, [i \in 1 .. 2 |-> kasumi_f8_2_buffer(lens, i)])
kasumi_f8_3_buffer_sse(lens) == KasumiChecked(lens, [i \in 1 .. 3 |-> kasumi_f8_3_buffer(lens[1], i)])
kasumi_f8_3_buffer_avx(lens) == KasumiChecked(lens, [i \in 1 .. 3 |-> kasumi_f8_3_buffer(lens[1], i)])
kasumi_f8_4_buffer_sse(lens) == KasumiChecked(lens, [i \in 1 .. 4 |-> kasumi_f8_4_buffer(lens[1], i)])
kasumi_f8_4_buffer_avx(lens) == KasumiChecked(lens, [i \in 1 .. 4 |-> kasumi_f8_4_buffer(lens[1], i)])
kasumi_f8_n_buffer_sse(lens) == KasumiChecked(lens, F8Batches(lens))
kasumi_f8_n_buffer_avx(lens) == KasumiChecked(lens, F8Batches(lens))

\* The length in bits is in range.
KasumiBitsChecked(len, out, refused) == IF len \in 1 .. KASUMI_MAX_LEN THEN out ELSE refused

NoBits == [pieces |-> <<>>, kept |-> {}, written |-> 0]

kasumi_f8_1_buffer_bit_sse(len, offset) ==
  KasumiBitsChecked(len, kasumi_f8_1_buffer_bit(len, offset), NoBits)
kasumi_f8_1_buffer_bit_avx(len, offset) ==
  KasumiBitsChecked(len, kasumi_f8_1_buffer_bit(len, offset), NoBits)

---------------------------------------------------------------------------
(* F9: "message" says which bits of the message are in the blocks that are   *)
(* chained, "one" where the last padding bit is.                             *)

NoF9 == [message |-> <<>>, direction |-> -1, one |-> -1, blocks |-> 0]

\* The message has its padding (whole bytes): blocks of 8 bytes, and the rest of
\* it in one with zeros behind.
kasumi_f9_1_buffer(len) ==
  [message   |-> Pieces(<<Piece(1, 0, 0, 8 * RoundDown(len, 8)),
                          Piece(1, 8 * RoundDown(len, 8), 8 * RoundDown(len, 8), 8 * (len % 8))>>),
   direction |-> -1, one |-> -1,
   blocks    |-> RoundUp(len, 8) \div 8]

kasumi_f9_1_buffer_user_Defect(len) ==
  LET n    == len \div 64
      left == len % 64
  IN  [message   |-> Pieces(<<Piece(1, 0, 0, 64 * n), Piece(1, 64 * n, 64 * n, left)>>),
       direction |-> (64 * n) + left,
       one       |-> len + 1,
       blocks    |-> n + 1]

\* The direction and a one follow the message: in a block of their own, in its last
\* block, or, when that one has room for the direction only, in two.
kasumi_f9_1_buffer_user(len) ==
  LET n    == len \div 64
      left == len % 64
  IN  [message   |-> Pieces(<<Piece(1, 0, 0, 64 * n), Piece(1, 64 * n, 64 * n, left)>>),
       direction |-> (64 * n) + left,
       one       |-> (64 * n) + (CASE left = 0   -> 1
                                   [] left = 63  -> 64
                                   [] OTHER      -> left + 1),
       blocks    |-> n + (IF left = 63 THEN 2 ELSE 1)]

\* In bytes
kasumi_f9_1_buffer_sse(len) == IF len \in 1 .. KASUMI_MAX_BYTES THEN kasumi_f9_1_buffer(len) ELSE NoF9
kasumi_f9_1_buffer_avx(len) == IF len \in 1 .. KASUMI_MAX_BYTES THEN kasumi_f9_1_buffer(len) ELSE NoF9

\* In bits
kasumi_f9_1_buffer_user_sse(len) == KasumiBitsChecked(len, kasumi_f9_1_buffer_user(len), NoF9)
kasumi_f9_1_buffer_user_avx(len) == KasumiBitsChecked(len, kasumi_f9_1_buffer_user(len), NoF9)

=============================================================================
