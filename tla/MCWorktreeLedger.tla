--------------------------- MODULE MCWorktreeLedger ---------------------------
\* The calls are interchangeable.
EXTENDS WorktreeLedger, TLC

CONSTANTS c1, c2

CallsSymmetric == Permutations(Calls)
=============================================================================
