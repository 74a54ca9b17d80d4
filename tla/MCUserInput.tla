----------------------------- MODULE MCUserInput -----------------------------
\* Two windows and no symmetry: the run checks liveness.
EXTENDS UserInput

CONSTANTS w1, w2
=============================================================================
