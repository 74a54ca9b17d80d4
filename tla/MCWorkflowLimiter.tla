-------------------------- MODULE MCWorkflowLimiter --------------------------
\* Two runs, five calls: more calls than slots at either kind of gate.
EXTENDS WorkflowLimiter, TLC

CONSTANTS r1, r2, c1, c2, c3, c4, c5

MCRunOf == c1 :> r1 @@ c2 :> r1 @@ c3 :> r1 @@ c4 :> r1 @@ c5 :> r2
MCLimit == r1 :> 2 @@ r2 :> 1 @@ Global :> 2
=============================================================================
