----------------------------- MODULE MCWireless -----------------------------
(* Batches for Wireless: of each number of buffers in Counts, all of length  *)
(* a but one, of length b, at the front or at the back.                      *)
EXTENDS Wireless, TLC

Shapes(counts, lens) ==
  {[i \in 1 .. n |-> IF i = at THEN b ELSE a] : n \in counts, at \in {1, 2}, a \in lens, b \in lens}

\* Lengths that differ from buffer to buffer
Stairs(counts, from, by) ==
  {[i \in 1 .. n |-> from + (by * i)] : n \in counts} \cup
  {[i \in 1 .. n |-> from + (by * ((i * 7) % 17))] : n \in counts}

EEA3Bytes == Shapes({1, 4, 5, 9, 17}, {1, 3, 16, 64, 70, 130}) \cup Shapes({1, 3, 17}, {8188, 8189})
             \cup Shapes({1, 4, 20}, {0, 9}) \cup Stairs({4, 15, 16, 29}, 0, 13)

EIA3Bits == Shapes({1, 4, 8, 17}, {1, 33, 448, 500, 512, 600, 1024}) \cup Shapes({1, 4, 20}, {0, 65505, 9})
            \cup Stairs({4, 15, 16}, 1, 37)

Snow3gBytes == Shapes({1, 2, 4, 8, 15, 17}, {1, 8, 30, 40, 71}) \cup Shapes({1, 3, 16}, {0, 536870912, 9})
               \cup Stairs({2, 4, 8, 11, 16}, 0, 5)

KasumiBytes == Shapes({1, 2, 3, 4, 7, 16, 17}, {1, 7, 8, 9, 24, 30}) \cup Shapes({1, 2, 3, 4, 20}, {0, 2500, 2501})
               \cup Stairs({2, 11, 16, 30}, 0, 3)

Bits == (0 .. 200) \cup (560 .. 650) \cup {2500, 2501, 20000, 20001}

Offsets == 0 .. 8

Snow3gF9Bits == (0 .. 200) \cup (500 .. 1100)

ThreeEEA3 == {3, 130}
ThreeEIA3 == {40, 480, 1100}

\* For the runs of one finding each
None == {}
OneGroup == Shapes({16}, {500, 512, 600})
SomeAndLong == {40, 40000}

Symmetry == Permutations(Jobs)
=============================================================================
