----------------------------- MODULE AtLeastOnce ------------------------------
(***************************************************************************)
(* What the notification of finished workflow runs promises, without files, *)
(* snapshots, chains and marks: a result that is due can be found until it   *)
(* was reported, it is acknowledged only after that, and no turn is given it *)
(* again once its acknowledgement is on disk.  Nothing is promised of an     *)
(* instance that a write race has hit, and a result may be gone with the     *)
(* process that held it.                                                    *)
(***************************************************************************)
CONSTANTS RunIds,   \* what can be launched
          Insts     \* the instances: one for each launch or resume

VARIABLES due,      \* results of the last instance of their run
          held,     \* those of them that can be found
          given,    \* the instance a turn is reporting
          reported, acked, raced   \* instances

vars == <<due, held, given, reported, acked, raced>>

Result == [id : RunIds, inst : Insts]

Init == /\ due = {} /\ held = {} /\ given = {}
        /\ reported = {} /\ acked = {} /\ raced = {}

Finish(f) == /\ due' = due \cup {f}
             /\ UNCHANGED <<given, reported, acked>>

\* A resume of the run replaces its result.
Resume(r) == /\ due' = {f \in due : f.id # r}
             /\ UNCHANGED <<given, reported, acked>>

Give(i) == /\ given = {} /\ i \notin acked \ raced
           /\ given' = {i}
           /\ UNCHANGED <<due, reported, acked>>

\* The turn ends; its result was reported, or stays due.
Report(i) == /\ i \in given
             /\ given' = {} /\ reported' = reported \cup {i}
             /\ UNCHANGED <<due, acked>>

Withdraw == given' = {} /\ UNCHANGED <<due, reported, acked>>

Acknowledge(i) == /\ i \in reported
                  /\ acked' = acked \cup {i}
                  /\ UNCHANGED <<due, given, reported>>

Stop == /\ due' \subseteq due /\ given' = {}
        /\ UNCHANGED <<reported, acked>>

\* A result moves, comes back to where it can be found, or is hidden.
Move == UNCHANGED <<due, given, reported, acked>>

\* Whatever happens, what is due and was neither reported nor hit can be found.
Kept == /\ held \subseteq due
        /\ \A f \in due : f.inst \notin reported \cup raced => f \in held

Next == /\ \/ \E f \in Result : Finish(f)
           \/ \E r \in RunIds : Resume(r)
           \/ \E i \in Insts : Give(i) \/ Report(i) \/ Acknowledge(i)
           \/ Withdraw \/ Stop \/ Move
        /\ raced \subseteq raced' /\ Kept'

Spec == Init /\ [][Next]_vars
=============================================================================
