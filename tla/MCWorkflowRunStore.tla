-------------------------- MODULE MCWorkflowRunStore --------------------------
\* A launch and one resume, one agent call, one crash: two stores and a recovery
\* over the same two files.
EXTENDS WorkflowRunStore, TLC
=============================================================================
