------------------------------ MODULE FifoMutex ------------------------------
(***************************************************************************)
(* What a lock with keys promises its callers, without any of its           *)
(* machinery: calls are numbered as they arrive, and a call enters when     *)
(* every earlier call of its key has left.  One guard, and with it mutual   *)
(* exclusion, arrival order, and (under fairness) service of every call.    *)
(***************************************************************************)
EXTENDS Naturals

CONSTANTS Keys,      \* what calls compete for
          NoKey,     \* the key of a call that has not arrived
          MaxCalls

Call == 1 .. MaxCalls

VARIABLES made,   \* how many calls have arrived
          key,    \* the key of a call that has arrived
          st      \* "out", then "waiting", "inside", "done"

vars == <<made, key, st>>

Init == /\ made = 0
        /\ key = [t \in Call |-> NoKey]
        /\ st = [t \in Call |-> "out"]

Arrive(t) == /\ t = made + 1
             /\ made' = t
             /\ \E k \in Keys : key' = [key EXCEPT ![t] = k]
             /\ st' = [st EXCEPT ![t] = "waiting"]

\* Everybody of the same key who came before t is gone.
FirstInLine(t) == \A u \in 1 .. (t - 1) : key[u] = key[t] => st[u] = "done"

Enter(t) == /\ st[t] = "waiting"
            /\ FirstInLine(t)
            /\ st' = [st EXCEPT ![t] = "inside"]
            /\ UNCHANGED <<made, key>>

Leave(t) == /\ st[t] = "inside"
            /\ st' = [st EXCEPT ![t] = "done"]
            /\ UNCHANGED <<made, key>>

Next == \E t \in Call : Arrive(t) \/ Enter(t) \/ Leave(t)

Spec == Init /\ [][Next]_vars

FairSpec == Spec /\ \A t \in Call : WF_vars(Enter(t)) /\ WF_vars(Leave(t))
=============================================================================
