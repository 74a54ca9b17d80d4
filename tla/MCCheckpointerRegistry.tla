------------------------ MODULE MCCheckpointerRegistry ------------------------
\* The readers are interchangeable: nothing but the sets they are in tells them
\* apart.
EXTENDS CheckpointerRegistry, TLC

CONSTANTS r1, r2

ReadersSymmetric == Permutations(Readers)
=============================================================================
