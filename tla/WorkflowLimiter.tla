--------------------------- MODULE WorkflowLimiter ---------------------------
(***************************************************************************)
(* The concurrency gates of the workflow engine (agent/workflow/engine.ts). *)
(*                                                                          *)
(* createLimiter is a counting semaphore with direct slot hand-off.  Every  *)
(* agent() call of a run passes two of them, nested: the gate of its own    *)
(* run (maxConcurrency) and, inside it, the process-wide gate.  A call      *)
(* waits in a gate's queue as the resolver of a promise; the microtask that *)
(* continues a resolved waiter runs later, so a slot that was handed over   *)
(* and a continuation that has run are two different states here.           *)
(***************************************************************************)
EXTENDS Naturals, Sequences, FiniteSets

CONSTANTS Runs,     \* workflow runs, each with a gate of its own
          Calls,    \* the agent() calls of all runs
          RunOf,    \* the run a call belongs to
          Global,   \* the process-wide gate
          Limit     \* the slots of every gate

Gates == Runs \cup {Global}

ASSUME LimiterAssumption ==
  /\ IsFiniteSet(Calls)
  /\ RunOf \in [Calls -> Runs]
  /\ Global \notin Runs
  /\ Limit \in [Gates -> Nat \ {0}]

VARIABLES active,   \* createLimiter's counter, per gate
          queue,    \* createLimiter's queue of resolvers, per gate
          pc        \* how far a call has come through the two gates

vars == <<active, queue, pc>>

Stages == {"idle", "waitRun", "inRun", "waitGlobal", "running", "leaving", "done"}

\* The stages in which a call owns a slot of its run's gate, of the global gate.
OwnsRun == {"inRun", "waitGlobal", "running", "leaving"}
OwnsGlobal == {"running"}

Holders(g) == {c \in Calls : IF g = Global THEN pc[c] \in OwnsGlobal
                                           ELSE RunOf[c] = g /\ pc[c] \in OwnsRun}

Waiting(g) == {c \in Calls : IF g = Global THEN pc[c] = "waitGlobal"
                                           ELSE RunOf[c] = g /\ pc[c] = "waitRun"}

\* The stage of a call that owns its slot of gate g.
Through(g) == IF g = Global THEN "running" ELSE "inRun"

-----------------------------------------------------------------------------
Init == /\ active = [g \in Gates |-> 0]
        /\ queue = [g \in Gates |-> <<>>]
        /\ pc = [c \in Calls |-> "idle"]

\* acquire(): take a free slot at once, or push a resolver and wait for it.
Acquire(c, g, waiting) ==
  \/ /\ active[g] < Limit[g]
     /\ active' = [active EXCEPT ![g] = @ + 1]
     /\ pc' = [pc EXCEPT ![c] = Through(g)]
     /\ UNCHANGED queue
  \/ /\ active[g] >= Limit[g]
     /\ queue' = [queue EXCEPT ![g] = Append(@, c)]
     /\ pc' = [pc EXCEPT ![c] = waiting]
     /\ UNCHANGED active

\* release() as it must not be: the counter drops although the slot is handed on.
Release_Early(c, g, after) ==
  /\ active' = [active EXCEPT ![g] = @ - 1]
  /\ IF queue[g] = <<>>
       THEN /\ pc' = [pc EXCEPT ![c] = after]
            /\ UNCHANGED queue
       ELSE /\ pc' = [pc EXCEPT ![c] = after, ![Head(queue[g])] = Through(g)]
            /\ queue' = [queue EXCEPT ![g] = Tail(@)]

\* release() as it must not be: nobody is woken.
Release_NoWake(c, g, after) ==
  /\ active' = [active EXCEPT ![g] = @ - 1]
  /\ pc' = [pc EXCEPT ![c] = after]
  /\ UNCHANGED queue

\* release() as it must not be: pop() for shift().
Release_Last(c, g, after) ==
  \/ /\ queue[g] # <<>>
     /\ queue' = [queue EXCEPT ![g] = SubSeq(@, 1, Len(@) - 1)]
     /\ pc' = [pc EXCEPT ![c] = after, ![queue[g][Len(queue[g])]] = Through(g)]
     /\ UNCHANGED active
  \/ /\ queue[g] = <<>>
     /\ active' = [active EXCEPT ![g] = @ - 1]
     /\ pc' = [pc EXCEPT ![c] = after]
     /\ UNCHANGED queue

\* release(): hand the slot to the first waiter, the counter standing still, or
\* give it back when nobody waits.
Release(c, g, after) ==
  \/ /\ queue[g] # <<>>
     /\ queue' = [queue EXCEPT ![g] = Tail(@)]
     /\ pc' = [pc EXCEPT ![c] = after, ![Head(queue[g])] = Through(g)]
     /\ UNCHANGED active
  \/ /\ queue[g] = <<>>
     /\ active' = [active EXCEPT ![g] = @ - 1]
     /\ pc' = [pc EXCEPT ![c] = after]
     /\ UNCHANGED queue

\* shared.limiter(...): the call asks for a slot of its run.
EnterRun(c) == pc[c] = "idle" /\ Acquire(c, RunOf[c], "waitRun")

\* perRunLimiter's fn: the call, now continued, asks for a global slot.
EnterGlobal(c) == pc[c] = "inRun" /\ Acquire(c, Global, "waitGlobal")

\* The agent is done, failed or was aborted: the inner finally runs ...
LeaveGlobal(c) == pc[c] = "running" /\ Release(c, Global, "leaving")

\* ... and, a microtask later, the outer one.
LeaveRun(c) == pc[c] = "leaving" /\ Release(c, RunOf[c], "done")

\* All calls are through: the engine has drained.
Drained == /\ \A c \in Calls : pc[c] = "done"
           /\ UNCHANGED vars

Next == \/ \E c \in Calls : \/ EnterRun(c)
                            \/ EnterGlobal(c)
                            \/ LeaveGlobal(c)
                            \/ LeaveRun(c)
        \/ Drained

\* Microtasks run, and an agent ends: on its own, by failure, or aborted by
\* the engine's watchdogs.  A call may never be made.
Fairness == \A c \in Calls : /\ WF_vars(EnterGlobal(c))
                             /\ WF_vars(LeaveGlobal(c))
                             /\ WF_vars(LeaveRun(c))

Spec == Init /\ [][Next]_vars /\ Fairness

-----------------------------------------------------------------------------
\* Types of the three variables, and a waiter's resolver sits in one queue once.
TypeOK == /\ active \in [Gates -> Nat]
          /\ queue \in [Gates -> Seq(Calls)]
          /\ pc \in [Calls -> Stages]

\* A gate's queue holds each call waiting at the gate exactly once: no
\* resolver is lost, none is called twice.
QueueInv ==
  \A g \in Gates :
    /\ \A i \in 1..Len(queue[g]) : queue[g][i] \in Waiting(g)
    /\ \A i, j \in 1..Len(queue[g]) : queue[g][i] = queue[g][j] => i = j
    /\ \A c \in Waiting(g) : \E i \in 1..Len(queue[g]) : queue[g][i] = c

\* The counter of createLimiter is the number of calls that own a slot, and
\* never exceeds the limit, whichever way hand-offs and arrivals interleave.
SlotAccounting ==
  \A g \in Gates : active[g] = Cardinality(Holders(g)) /\ active[g] <= Limit[g]

\* What the comment on createLimiter promises: concurrency never exceeds the
\* limit, neither of a run nor of the process.
ConcurrencyCap == \A g \in Gates : Cardinality(Holders(g)) <= Limit[g]

\* No slot is lost: while somebody waits at a gate, the gate is full.
NoIdleSlot == \A g \in Gates : queue[g] # <<>> => active[g] = Limit[g]

\* The nested gates never wait for each other: as long as a call is on its way
\* through them, one was handed a slot, runs, or is about to give a slot back.
NoGateRing ==
  (\E c \in Calls : pc[c] \notin {"idle", "done"}) =>
    \E c \in Calls : pc[c] \in {"inRun", "running", "leaving"}

\* Slots are granted in arrival order: a step that lets a call through a gate
\* never overtakes one that was already waiting there.
NoOvertaking ==
  [][\A g \in Gates : \A c \in Calls :
       (c \notin Holders(g) /\ c \in Holders(g)') =>
         (queue[g] = <<>> \/ c = Head(queue[g]))]_vars

\* Every call that asked for a slot gets through both gates and gives its
\* slots back: the nested gates do not deadlock and no waiter is forgotten.
EventuallyThrough == \A c \in Calls : pc[c] # "idle" ~> pc[c] = "done"

\* What holds of createLimiter in every state: the queues hold exactly those who
\* wait, the counters count exactly those who own a slot and stay within the
\* limits, a gate with waiters is full, hand-offs under way included, and the
\* waits at the two gates form no ring.
LimiterInv == TypeOK /\ QueueInv /\ SlotAccounting /\ NoIdleSlot /\ NoGateRing
=============================================================================
