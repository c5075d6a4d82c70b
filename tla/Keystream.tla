----------------------------- MODULE Keystream -----------------------------
(***************************************************************************)
(* What the wireless drivers (ZUC, SNOW3G, KASUMI) have in common: they    *)
(* XOR buffers with the keystream of their packets, piece by piece, alone  *)
(* or several packets in step.  The keystream is left out; a piece says    *)
(* which units (bytes or bits) of a buffer get which units of whose        *)
(* keystream.                                                              *)
(* A definition named X_Defect is X with a slip; no specification uses it. *)
(***************************************************************************)
EXTENDS Integers, Sequences, FiniteSets, FiniteSetsExt

\* n units of the buffer from "at" on get the keystream of packet "of" from
\* position ks on.
Piece(of, at, ks, n) == [of |-> of, at |-> at, ks |-> ks, n |-> n]

\* The pieces of a list that are not empty
Pieces(list) ==
  LET taken[k \in 0 .. Len(list)] ==
        IF k = 0 THEN <<>>
        ELSE IF list[k].n = 0 THEN taken[k - 1] ELSE Append(taken[k - 1], list[k])
  IN  taken[Len(list)]

End(p) == p.at + p.n

\* The pieces take each of the first len units of packet i once, in order, with
\* the keystream unit of the same position, and nothing behind them.
InStep(pieces, i, len) ==
  /\ pieces # <<>>
  /\ pieces[1].at = 0
  /\ End(pieces[Len(pieces)]) = len
  /\ \A k \in DOMAIN pieces :
       /\ pieces[k].of = i
       /\ pieces[k].ks = pieces[k].at
       /\ k > 1 => pieces[k].at = End(pieces[k - 1])

RoundUp(n, m) == n + ((-n) % m)

RoundDown(n, m) == n - (n % m)

\* Packets 1 .. n in groups: while there are as many left as the widest group
\* takes, the next ones go together, then the narrower groups.
Groups(n, widths) ==
  LET groups[left \in 0 .. n] ==
        IF left = 0 THEN <<>>
        ELSE LET w     == Max({k \in widths : k <= left})
                 first == n - left + 1
             IN  <<first .. first + w - 1>> \o groups[left - w]
  IN  groups[n]

GroupOf(i, groups) == CHOOSE g \in {groups[k] : k \in DOMAIN groups} : i \in g

---------------------------------------------------------------------------
(* Packets in the order of their lengths *)

\* What a driver keeps of the packets it may have to sort: the buffer, the IV and
\* the key of each, by number, and the length
Rows(lens) == [i \in DOMAIN lens |-> [buf |-> i, iv |-> i, key |-> i, len |-> lens[i]]]

\* The IV stays where it is.
Swapped_Defect(rows, p, q) ==
  [rows EXCEPT ![p] = [rows[q] EXCEPT !.iv = rows[p].iv], ![q] = [rows[p] EXCEPT !.iv = rows[q].iv]]

Swapped(rows, p, q) == [rows EXCEPT ![p] = rows[q], ![q] = rows[p]]

\* Packet p changes places with every shorter one before it, from the nearest on.
Pass(rows, p) ==
  LET passed[k \in 0 .. p - 1] ==
        IF k = 0 THEN rows
        ELSE LET r == passed[k - 1]
                 q == p - k
             IN  IF r[p].len > r[q].len THEN Swapped(r, p, q) ELSE r
  IN  passed[p - 1]

Descending(rows) == \A k \in 2 .. Len(rows) : rows[k - 1].len >= rows[k].len

\* Longest first: such a pass from each packet, from the last one on, unless the
\* packets are in this order (when it would change nothing).
SortedRows(rows) ==
  LET n == Len(rows)
      sorted[k \in 0 .. n] ==
        IF k = 0 THEN rows
        ELSE LET r == sorted[k - 1] IN IF Descending(r) THEN r ELSE Pass(r, n + 1 - k)
  IN  sorted[n]

\* Where buffer b is after the sort
RowOf(rows, b) == CHOOSE k \in DOMAIN rows : rows[k].buf = b

---------------------------------------------------------------------------
(* A buffer of any number of bits, from any bit on *)

BLOCK_BITS == 64

\* Without shiftrem, the keystream left over from the block before
BlockBits_Defect(j, rem, n) ==
  <<Piece(0, BLOCK_BITS * j, 0, Min({rem, n})),
    Piece(1, (BLOCK_BITS * j) + rem, BLOCK_BITS * j, Max({0, n - rem}))>>

\* The first n bits of block j > 0: the keystream is shifted by rem bits, and the
\* rem bits left over from the block before (shiftrem) come first.
BlockBits(j, rem, n) ==
  <<Piece(1, BLOCK_BITS * j, (BLOCK_BITS * j) - rem, Min({rem, n})),
    Piece(1, (BLOCK_BITS * j) + rem, BLOCK_BITS * j, Max({0, n - rem}))>>

\* len bits from bit "offset" on.  Bits are counted from the byte of the first one:
\* "pieces" get keystream, "kept" keep their value, in place (no keystream) or from
\* the output buffer, and nothing is written from byte "written" on.
F8Bits(len, offset) ==
  LET rem    == offset % 8   \* remainOffset
      after  == rem + len
      first  == Min({len, BLOCK_BITS - rem})
      blocks == (after - 1) \div BLOCK_BITS
      piece(k) == IF k = 1 THEN Piece(1, rem, 0, first)
                  ELSE LET j == k \div 2 IN   \* two for each block
                       BlockBits(j, rem, Min({BLOCK_BITS, after - (BLOCK_BITS * j)}))[1 + (k % 2)]
      written == IF len < BLOCK_BITS - rem THEN RoundUp(len, 8) \div 8 ELSE RoundUp(after, 8) \div 8
  IN  [pieces  |-> Pieces([k \in 1 .. (2 * blocks) + 1 |-> piece(k)]),
       kept    |-> (0 .. rem - 1) \cup (after .. (8 * written) - 1),
       written |-> written]

=============================================================================
