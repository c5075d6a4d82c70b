------------------------------ MODULE MCSetup ------------------------------
(***************************************************************************)
(* CPUs for Setup: one of each generation the library tells apart.         *)
(***************************************************************************)
EXTENDS Setup, TLC

Cpu(leaf, bits) == [leaf |-> leaf, bits |-> bits]

SseBits  == {"SSE4_2", "CMOV", "AESNI", "PCLMULQDQ"}
Avx2Bits == SseBits \cup {"AVX", "AVX2"}
SkxBits  == Avx2Bits \cup AVX512_SKX

\* A CPU without AESNI, an Atom with SHANI, the same with GFNI; one with AVX and
\* bits in a leaf it does not report; one with AVX2 and the foundation of AVX512
\* alone; with AVX512, then VAES and GFNI too; one without anything.
SomeCpus ==
  {Cpu(1, {"SSE4_2", "CMOV"}),
   Cpu(7, SseBits \cup {"SHANI"}),
   Cpu(7, SseBits \cup {"SHANI", "GFNI"}),
   Cpu(1, SseBits \cup {"AVX", "AVX2"}),
   Cpu(7, Avx2Bits \cup {"AVX512F", "AVX512CD"}),
   Cpu(7, SkxBits),
   Cpu(7, SkxBits \cup {"SHANI", "GFNI", "VAES", "VPCLMULQDQ"}),
   Cpu(1, {"CMOV"})}

SomeOoos == {"aes_xcbc"}

Sym == Permutations(Lanes)

=============================================================================
