-------------------------------- MODULE Zuc --------------------------------
(***************************************************************************)
(* The ZUC drivers: EEA3 (ciphering) and EIA3 (a MAC) of one buffer, of    *)
(* groups of buffers in step, and of n buffers, for the five architectures *)
(* (zuc_sse_no_aesni_top.c, zuc_sse_top.c, zuc_avx_top.c, zuc_avx2_top.c,  *)
(* zuc_avx512_top.c).  The four files differ in the bytes of keystream     *)
(* they make in a round (KEYSTR_ROUND_LEN) and in the widths of the        *)
(* groups, and the AVX512 one in when it makes a short round.              *)
(*                                                                         *)
(* EEA3 gives pieces in bytes.  EIA3 works on a window of two rounds of    *)
(* keystream words; what is kept is which word of the keystream each slot  *)
(* of the window holds, and in "wrong" the places where the MAC takes a    *)
(* word from a slot that does not hold the word due there.                 *)
(* A definition named X_Defect is X with a slip; no specification uses it. *)
(***************************************************************************)
EXTENDS Keystream

ZUC_MIN_BYTELEN == 1
ZUC_MAX_BYTELEN == 8188
ZUC_MIN_BITLEN  == 1
ZUC_MAX_BITLEN  == 65504
WORD_BITS       == 32

Untouched == <<>>

\* What EIA3 leaves in the four bytes of the MAC: nothing, or a MAC made with the
\* words of keystream in "wrong" (pairs of the word due and the word taken).
NoMac == [written |-> FALSE, wrong |-> {}]

Mac(wrong) == [written |-> TRUE, wrong |-> wrong]

MinLen(lens, g) == Min({lens[i] : i \in g})

---------------------------------------------------------------------------
(* EEA3 *)

\* The bytes of buffer i from "at" on, with a state that has made pos bytes:
\* rounds of R bytes, then the bytes left over in a block of their own.
Eea3Alone(R, i, at, pos, len) ==
  LET rounds == RoundDown(len - at, R) IN
  <<Piece(i, at, pos, rounds), Piece(i, at + rounds, pos + rounds, len - at - rounds)>>

\* The state moved on by the bytes of the shortest, not by whole words
Eea3Group_Defect(R, lens, g, i) ==
  LET bytes  == MinLen(lens, g)
      remain == Max({0, lens[i] - RoundUp(bytes, 4)})
      done   == lens[i] - remain
  IN  Pieces(<<Piece(i, 0, 0, done)>> \o Eea3Alone(R, i, done, bytes, lens[i]))

\* The group g in step as far as the shortest one goes, in whole words
\* (asm_ZucCipher_4, _8, _16), then each with its state in a single packet state.
Eea3Group(R, lens, g, i) ==
  LET words  == RoundUp(MinLen(lens, g), 4)
      remain == Max({0, lens[i] - words})   \* remainBytes
      done   == lens[i] - remain
  IN  Pieces(<<Piece(i, 0, 0, done)>> \o Eea3Alone(R, i, done, words, lens[i]))

\* SAFE_PARAM: no buffer is touched when one of the lengths is out of range.
Eea3Checked(lens, out) ==
  IF \A i \in DOMAIN lens : lens[i] \in ZUC_MIN_BYTELEN .. ZUC_MAX_BYTELEN
  THEN out ELSE [i \in DOMAIN lens |-> Untouched]

eea3_1_buffer_no_aesni(lens, i) == Pieces(Eea3Alone(16, i, 0, 0, lens[i]))
eea3_1_buffer_sse(lens, i)      == Pieces(Eea3Alone(16, i, 0, 0, lens[i]))
eea3_1_buffer_avx(lens, i)      == Pieces(Eea3Alone(16, i, 0, 0, lens[i]))
eea3_1_buffer_avx2(lens, i)     == Pieces(Eea3Alone(32, i, 0, 0, lens[i]))
eea3_1_buffer_avx512(lens, i)   == Pieces(Eea3Alone(64, i, 0, 0, lens[i]))

eea3_4_buffer_no_aesni(lens, g, i) == Eea3Group(16, lens, g, i)
eea3_4_buffer_sse(lens, g, i)      == Eea3Group(16, lens, g, i)
eea3_4_buffer_avx(lens, g, i)      == Eea3Group(16, lens, g, i)
eea3_8_buffer_avx2(lens, g, i)     == Eea3Group(32, lens, g, i)
eea3_16_buffer_avx512(lens, g, i)  == Eea3Group(64, lens, g, i)

\* zuc_eea3_1_buffer: the entry that checks, for one buffer
zuc_eea3_1_buffer_no_aesni(lens) == Eea3Checked(lens, [i \in {1} |-> eea3_1_buffer_no_aesni(lens, i)])
zuc_eea3_1_buffer_sse(lens)      == Eea3Checked(lens, [i \in {1} |-> eea3_1_buffer_sse(lens, i)])
zuc_eea3_1_buffer_avx(lens)      == Eea3Checked(lens, [i \in {1} |-> eea3_1_buffer_avx(lens, i)])
zuc_eea3_1_buffer_avx2(lens)     == Eea3Checked(lens, [i \in {1} |-> eea3_1_buffer_avx2(lens, i)])
zuc_eea3_1_buffer_avx512(lens)   == Eea3Checked(lens, [i \in {1} |-> eea3_1_buffer_avx512(lens, i)])

\* zuc_eea3_4_buffer
zuc_eea3_4_buffer_no_aesni(lens) ==
  Eea3Checked(lens, [i \in 1 .. 4 |-> eea3_4_buffer_no_aesni(lens, 1 .. 4, i)])
zuc_eea3_4_buffer_sse(lens) ==
  Eea3Checked(lens, [i \in 1 .. 4 |-> eea3_4_buffer_sse(lens, 1 .. 4, i)])
zuc_eea3_4_buffer_avx(lens) ==
  Eea3Checked(lens, [i \in 1 .. 4 |-> eea3_4_buffer_avx(lens, 1 .. 4, i)])

\* zuc_eea3_n_buffer
zuc_eea3_n_buffer_no_aesni(lens) ==
  LET groups == Groups(Len(lens), {4, 1}) IN
  Eea3Checked(lens, [i \in DOMAIN lens |->
    LET g == GroupOf(i, groups) IN
    IF Cardinality(g) = 4 THEN eea3_4_buffer_no_aesni(lens, g, i)
                          ELSE eea3_1_buffer_no_aesni(lens, i)])

zuc_eea3_n_buffer_sse(lens) ==
  LET groups == Groups(Len(lens), {4, 1}) IN
  Eea3Checked(lens, [i \in DOMAIN lens |->
    LET g == GroupOf(i, groups) IN
    IF Cardinality(g) = 4 THEN eea3_4_buffer_sse(lens, g, i)
                          ELSE eea3_1_buffer_sse(lens, i)])

zuc_eea3_n_buffer_avx(lens) ==
  LET groups == Groups(Len(lens), {4, 1}) IN
  Eea3Checked(lens, [i \in DOMAIN lens |->
    LET g == GroupOf(i, groups) IN
    IF Cardinality(g) = 4 THEN eea3_4_buffer_avx(lens, g, i)
                          ELSE eea3_1_buffer_avx(lens, i)])

zuc_eea3_n_buffer_avx2(lens) ==
  LET groups == Groups(Len(lens), {8, 4, 1}) IN
  Eea3Checked(lens, [i \in DOMAIN lens |->
    LET g == GroupOf(i, groups) IN
    CASE Cardinality(g) = 8 -> eea3_8_buffer_avx2(lens, g, i)
      [] Cardinality(g) = 4 -> eea3_4_buffer_avx(lens, g, i)
      [] OTHER              -> eea3_1_buffer_avx2(lens, i)])

zuc_eea3_n_buffer_avx512(lens) ==
  LET groups == Groups(Len(lens), {16, 8, 4, 1}) IN
  Eea3Checked(lens, [i \in DOMAIN lens |->
    LET g == GroupOf(i, groups) IN
    CASE Cardinality(g) = 16 -> eea3_16_buffer_avx512(lens, g, i)
      [] Cardinality(g) = 8  -> eea3_8_buffer_avx2(lens, g, i)
      [] Cardinality(g) = 4  -> eea3_4_buffer_avx(lens, g, i)
      [] OTHER               -> eea3_1_buffer_avx512(lens, i)])

---------------------------------------------------------------------------
(* EIA3: keyStream[2 * W] for rounds of W words *)

Garbage == -1   \* a slot of the window that nothing was made for

\* slot: a sequence, so that slot 0 is its first element; made: words the state
\* has made; base: the position in the message of slot 0
NewWindow(W, made, base) ==
  [slot |-> [s \in 1 .. 2 * W |-> Garbage], made |-> made, base |-> base, wrong |-> {}]

\* n words of keystream into the slots from s on; the word a foreign state makes
\* is not one of this packet's.
Gen(k, s, n) ==
  LET word(t) == IF k.made = Garbage THEN Garbage ELSE k.made + t - 1 IN
  [k EXCEPT !.slot = SubSeq(@, 1, s) \o [t \in 1 .. n |-> word(t)] \o SubSeq(@, s + n + 1, Len(@)),
            !.made = word(n + 1)]

\* The MAC takes the words of the given slots: due is the position of slot 0.
Use(k, due, slots) ==
  LET taken(s) == IF s < Len(k.slot) THEN k.slot[s + 1] ELSE Garbage IN
  [k EXCEPT !.wrong = @ \cup {<<due + s, taken(s)>> : s \in {t \in slots : taken(t) # due + t}}]

\* asm_Eia3Round16BSSE and the like absorb W words of the message, and the upper
\* half of the window moves down.
Eia3Round(W, k) ==
  LET u == Use(k, k.base, 0 .. W) IN
  [u EXCEPT !.slot = SubSeq(@, W + 1, 2 * W) \o SubSeq(@, W + 1, 2 * W), !.base = @ + W]

\* n rounds of W words each
FullRounds(W, k, n) ==
  LET rounds[r \in 0 .. n] ==
        IF r = 0 THEN k ELSE Eia3Round(W, Gen(rounds[r - 1], W, W))
  IN  rounds[n]

\* n rounds; in the last one two words may do for the upper half.
Eia3Rounds(W, k, n, short) ==
  IF n = 0 \/ ~short THEN FullRounds(W, k, n)
  ELSE Eia3Round(W, Gen(FullRounds(W, k, n - 1), W, 2))

\* asm_Eia3RemainderSSE and the like for the last "bits" bits, then the word at
\* the end of the message and the last one of all, from slot L - 1: what they
\* are due is the end, counted from the message itself.
Eia3Finish(k, bits, L, len) ==
  LET body == Use(k, k.base, IF bits = 0 THEN {} ELSE 0 .. (bits + 30) \div WORD_BITS)
      at   == bits \div WORD_BITS
      end  == Use(body, (len \div WORD_BITS) - at, at .. (bits + 31) \div WORD_BITS)
  IN  Use(end, ((len + 31) \div WORD_BITS) + 1 - (L - 1), {L - 1})

Eia3Alone_Defect(W, k, len, done) ==
  LET left == len - done * W * WORD_BITS
      n    == left \div (W * WORD_BITS)
      bits == left % (W * WORD_BITS)
      r    == Eia3Rounds(W, k, n, bits = 0)
      x    == IF bits > W * WORD_BITS - WORD_BITS THEN Gen(r, W, 2) ELSE r
  IN  Mac(Eia3Finish(x, bits, ((len + 64 + 31) \div WORD_BITS) - (W * (done + n)), len).wrong)

\* The message after "done" rounds: the rounds left, and the rest of fewer bits
\* than a round, with two more words when it may need them.
Eia3Alone(W, k, len, done) ==
  LET left == len - done * W * WORD_BITS
      n    == left \div (W * WORD_BITS)
      bits == left % (W * WORD_BITS)
      r    == Eia3Rounds(W, k, n, bits = 0)
      x    == IF bits > (W - 2) * WORD_BITS THEN Gen(r, W, 2) ELSE r
  IN  Mac(Eia3Finish(x, bits, ((len + 64 + 31) \div WORD_BITS) - (W * (done + n)), len).wrong)

\* The single packet state is copied for a lane that will make more words.
CopyState(W, k, left) ==
  IF left > (W - 2) * WORD_BITS THEN k ELSE [k EXCEPT !.made = Garbage]

\* The group g in step as far as the rounds of the shortest go, then each alone;
\* short: whether the last common round makes two words only.
Eia3Group(W, lens, g, i, short) ==
  LET common == MinLen(lens, g)
      done   == common \div (W * WORD_BITS)
      k      == Eia3Rounds(W, Gen(NewWindow(W, 0, 0), 0, W), done, short /\ common % (W * WORD_BITS) = 0)
  IN  Eia3Alone(W, CopyState(W, k, lens[i] - done * W * WORD_BITS), lens[i], done)

\* allCommonBits
AllEqual(lens, g) == \A i \in g : lens[i] = MinLen(lens, g)

\* SAFE_PARAM: no MAC is written when one of the lengths is out of range.
Eia3Checked(lens, out) ==
  IF \A i \in DOMAIN lens : lens[i] \in ZUC_MIN_BITLEN .. ZUC_MAX_BITLEN
  THEN out ELSE [i \in DOMAIN lens |-> NoMac]

Eia3Single(W, len) == Eia3Alone(W, Gen(NewWindow(W, 0, 0), 0, W), len, 0)

eia3_1_buffer_no_aesni(lens, i) == Eia3Single(4, lens[i])
eia3_1_buffer_sse(lens, i)      == Eia3Single(4, lens[i])
eia3_1_buffer_avx(lens, i)      == Eia3Single(4, lens[i])
eia3_1_buffer_avx2(lens, i)     == Eia3Single(8, lens[i])
eia3_1_buffer_avx512(lens, i)   == Eia3Single(16, lens[i])

eia3_4_buffer_no_aesni(lens, g, i) == Eia3Group(4, lens, g, i, AllEqual(lens, g))
eia3_4_buffer_sse(lens, g, i)      == Eia3Group(4, lens, g, i, AllEqual(lens, g))
eia3_4_buffer_avx(lens, g, i)      == Eia3Group(4, lens, g, i, AllEqual(lens, g))
eia3_8_buffer_avx2(lens, g, i)     == Eia3Group(8, lens, g, i, AllEqual(lens, g))

\* The AVX512 file makes the short round whether the lengths are equal or not.
eia3_16_buffer_avx512(lens, g, i)  == Eia3Group(16, lens, g, i, TRUE)

\* zuc_eia3_1_buffer
zuc_eia3_1_buffer_no_aesni(lens) == Eia3Checked(lens, [i \in {1} |-> eia3_1_buffer_no_aesni(lens, i)])
zuc_eia3_1_buffer_sse(lens)      == Eia3Checked(lens, [i \in {1} |-> eia3_1_buffer_sse(lens, i)])
zuc_eia3_1_buffer_avx(lens)      == Eia3Checked(lens, [i \in {1} |-> eia3_1_buffer_avx(lens, i)])
zuc_eia3_1_buffer_avx2(lens)     == Eia3Checked(lens, [i \in {1} |-> eia3_1_buffer_avx2(lens, i)])
zuc_eia3_1_buffer_avx512(lens)   == Eia3Checked(lens, [i \in {1} |-> eia3_1_buffer_avx512(lens, i)])

\* zuc_eia3_4_buffer_job, zuc_eia3_8_buffer_job: the kernel of the OOO managers
\* with 4 and 8 lanes.  A lane without a job has a copy of another's length and
\* gets no MAC; busy: the lanes with a job.
zuc_eia3_4_buffer_job_no_aesni(lens, busy) ==
  [i \in 1 .. 4 |-> IF i \in busy THEN Eia3Group(4, lens, 1 .. 4, i, AllEqual(lens, 1 .. 4)) ELSE NoMac]
zuc_eia3_4_buffer_job_sse(lens, busy) ==
  [i \in 1 .. 4 |-> IF i \in busy THEN Eia3Group(4, lens, 1 .. 4, i, AllEqual(lens, 1 .. 4)) ELSE NoMac]
zuc_eia3_4_buffer_job_avx(lens, busy) ==
  [i \in 1 .. 4 |-> IF i \in busy THEN Eia3Group(4, lens, 1 .. 4, i, AllEqual(lens, 1 .. 4)) ELSE NoMac]
zuc_eia3_8_buffer_job_avx2(lens, busy) ==
  [i \in 1 .. 8 |-> IF i \in busy THEN Eia3Group(8, lens, 1 .. 8, i, AllEqual(lens, 1 .. 8)) ELSE NoMac]

\* zuc_eia3_n_buffer
zuc_eia3_n_buffer_no_aesni(lens) ==
  LET groups == Groups(Len(lens), {4, 1}) IN
  Eia3Checked(lens, [i \in DOMAIN lens |->
    LET g == GroupOf(i, groups) IN
    IF Cardinality(g) = 4 THEN eia3_4_buffer_no_aesni(lens, g, i)
                          ELSE eia3_1_buffer_no_aesni(lens, i)])

zuc_eia3_n_buffer_sse(lens) ==
  LET groups == Groups(Len(lens), {4, 1}) IN
  Eia3Checked(lens, [i \in DOMAIN lens |->
    LET g == GroupOf(i, groups) IN
    IF Cardinality(g) = 4 THEN eia3_4_buffer_sse(lens, g, i)
                          ELSE eia3_1_buffer_sse(lens, i)])

zuc_eia3_n_buffer_avx(lens) ==
  LET groups == Groups(Len(lens), {4, 1}) IN
  Eia3Checked(lens, [i \in DOMAIN lens |->
    LET g == GroupOf(i, groups) IN
    IF Cardinality(g) = 4 THEN eia3_4_buffer_avx(lens, g, i)
                          ELSE eia3_1_buffer_avx(lens, i)])

zuc_eia3_n_buffer_avx2(lens) ==
  LET groups == Groups(Len(lens), {8, 4, 1}) IN
  Eia3Checked(lens, [i \in DOMAIN lens |->
    LET g == GroupOf(i, groups) IN
    CASE Cardinality(g) = 8 -> eia3_8_buffer_avx2(lens, g, i)
      [] Cardinality(g) = 4 -> eia3_4_buffer_avx(lens, g, i)
      [] OTHER              -> eia3_1_buffer_avx2(lens, i)])

zuc_eia3_n_buffer_avx512(lens) ==
  LET groups == Groups(Len(lens), {16, 8, 4, 1}) IN
  Eia3Checked(lens, [i \in DOMAIN lens |->
    LET g == GroupOf(i, groups) IN
    CASE Cardinality(g) = 16 -> eia3_16_buffer_avx512(lens, g, i)
      [] Cardinality(g) = 8  -> eia3_8_buffer_avx2(lens, g, i)
      [] Cardinality(g) = 4  -> eia3_4_buffer_avx(lens, g, i)
      [] OTHER               -> eia3_1_buffer_avx512(lens, i)])

=============================================================================
