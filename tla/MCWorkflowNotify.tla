--------------------------- MODULE MCWorkflowNotify ---------------------------
\* Two run ids and two launches: a resume of the same id, or a backlog of two.
EXTENDS WorkflowNotify, TLC
Symmetry == Permutations(RunIds)
=============================================================================
