---------------------------- MODULE DurableRegister ----------------------------
(***************************************************************************)
(* What a store that keeps its value in memory and saves it in the          *)
(* background promises: a value it has acknowledged survives whatever stops *)
(* the process, the loss of the file itself costs at most what came after   *)
(* the last backup, and a deleted store stays deleted.  Values are numbered *)
(* as they are accepted.                                                    *)
(***************************************************************************)
EXTENDS Integers

VARIABLES running,  \* the store is open
          current,  \* the value in memory while it is
          issued,   \* the last value accepted so far
          durable,  \* what the next start will find
          acked,    \* the newest value a flush or close has vouched for
          backed,   \* what the next start will find if the file is lost
          gone      \* the store was deleted

vars == <<running, current, issued, durable, acked, backed, gone>>

Init == /\ ~running /\ ~gone
        /\ current = 0 /\ issued = 0 /\ durable = 0 /\ acked = 0 /\ backed = 0

Accept == /\ running
          /\ issued' = issued + 1 /\ current' = issued'
          /\ UNCHANGED <<running, durable, acked, backed, gone>>

\* Values that were never vouched for may come and go.
Persist == /\ ~gone
           /\ durable' \in acked .. issued
           /\ backed' \in backed .. durable'
           /\ UNCHANGED <<running, current, issued, acked, gone>>

Ack == /\ running
       /\ acked' \in acked .. durable
       /\ UNCHANGED <<running, current, issued, durable, backed, gone>>

Start == /\ ~running /\ ~gone
         /\ running' = TRUE /\ current' = durable
         /\ UNCHANGED <<issued, durable, acked, backed, gone>>

\* Orderly or not.
Stop == /\ running
        /\ running' = FALSE
        /\ UNCHANGED <<current, issued, durable, acked, backed, gone>>

\* The file is lost or unreadable: what was vouched for since the last backup
\* may go with it.
Lose == /\ ~running /\ ~gone
        /\ durable' \in backed .. issued
        /\ acked' \in 0 .. durable'
        /\ UNCHANGED <<running, current, issued, backed, gone>>

\* A deletion first voids every promise, then takes the value away for good.
Abandon == /\ ~running
           /\ durable' \in 0 .. durable /\ acked' = 0 /\ backed' = 0
           /\ UNCHANGED <<running, current, issued, gone>>

Delete == /\ ~running
          /\ gone' = TRUE
          /\ durable' = 0 /\ acked' = 0 /\ backed' = 0
          /\ UNCHANGED <<running, current, issued>>

Next == Accept \/ Persist \/ Ack \/ Start \/ Stop \/ Lose \/ Abandon \/ Delete

Spec == Init /\ [][Next]_vars
=============================================================================
