--------------------------- MODULE MCWorkflowEngine ---------------------------
\* Up to four calls of one identity: one above the invocation ceiling, two above
\* the agent cap, a budget that one agent uses up, and a journal of two entries.
\* No symmetry, the run checks liveness.
EXTENDS WorkflowEngine

CONSTANT h1
=============================================================================
