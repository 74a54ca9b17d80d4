----------------------------- MODULE MCSqlJsSaver -----------------------------
\* The constants are numbers: the cfg says them all.
EXTENDS SqlJsSaver
=============================================================================
