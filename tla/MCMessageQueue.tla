---------------------------- MODULE MCMessageQueue ----------------------------
\* Two physical runs and two drafts, each submitted up to twice: a replacement
\* and a continuation, a deletion and an edit, in any order.
EXTENDS MessageQueue, TLC
=============================================================================
