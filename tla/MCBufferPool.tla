---------------------------- MODULE MCBufferPool ----------------------------
EXTENDS BufferPool, TLC

CONSTANTS A, B

\* Two pages compete within the first file, and with the one of the second.
MaxPages == (A :> 2) @@ (B :> 1)

Symmetry == Permutations(Threads) \cup Permutations(Frames)
=============================================================================
