---------------------------- MODULE Turns_proofs -----------------------------
(***************************************************************************)
(* Who runs when: the limiter of the agent calls and the keyed lock.        *)
(*                                                                          *)
(* The limiter, for any number of runs, calls and slots: createLimiter's    *)
(* counter is the number of calls that own a slot and never exceeds the     *)
(* limit.  A hand-off keeps the counter only because the waiter it wakes    *)
(* owned no slot, so the inductive invariant also says what a queue holds.  *)
(*                                                                          *)
(* The lock, for any keys, any nesting and any number of calls: withKey is  *)
(* a first-in first-out mutex per key.  The argument is about the chain of  *)
(* promises: the call a caller found in the map is the latest of its key,   *)
(* or there was no entry and everybody of the key is gone; and when the     *)
(* promise of a call has settled, so is everybody up to that call.          *)
(***************************************************************************)
EXTENDS WorkflowLimiter, AsyncKeyedLock, FiniteSetTheorems, SequenceTheorems, WellFoundedInduction, TLAPS

IInv == TypeOK /\ QueueInv /\ SlotAccounting

\* Finitely many calls own a slot of a gate.
LEMMA HoldersFinite ==
  ASSUME NEW g
  PROVE  IsFiniteSet(Holders(g))
BY LimiterAssumption, FS_Subset DEF Holders

\* At the start the slots are free and the queues empty.
LEMMA InitIInv == Init => IInv
<1> SUFFICES ASSUME Init PROVE IInv
  OBVIOUS
<1> USE DEF Init
<1>1. TypeOK
  BY LimiterAssumption DEF TypeOK, Stages
<1>2. QueueInv
  BY DEF QueueInv, Waiting
<1>3. \A g \in Gates : Holders(g) = {}
  BY DEF Holders, OwnsRun, OwnsGlobal
<1>4. SlotAccounting
  <2>1. \A g \in Gates : Cardinality(Holders(g)) = 0
    BY <1>3, FS_EmptySet
  <2>2. \A g \in Gates : Limit[g] \in Nat /\ active[g] = 0
    BY LimiterAssumption
  <2> QED BY <2>1, <2>2 DEF SlotAccounting
<1> QED BY <1>1, <1>2, <1>4 DEF IInv

\* A call that finds a free slot joins the holders; one that does not joins the
\* queue. `waiting` is the stage of a call that waits at g.
LEMMA AcquireStep ==
  ASSUME IInv, NEW c \in Calls, NEW g \in Gates, NEW waiting,
         \/ g = RunOf[c] /\ waiting = "waitRun" /\ pc[c] = "idle"
         \/ g = Global /\ waiting = "waitGlobal" /\ pc[c] = "inRun",
         Acquire(c, g, waiting)
  PROVE  IInv'
<1> USE LimiterAssumption DEF IInv
<1>0. waiting \in Stages /\ Through(g) \in Stages
  BY DEF Stages, Through
<1>1. CASE active[g] < Limit[g]
  <2>1. /\ active' = [active EXCEPT ![g] = @ + 1]
        /\ pc' = [pc EXCEPT ![c] = Through(g)]
        /\ queue' = queue
    BY <1>1 DEF Acquire, TypeOK, Gates
  <2>2. TypeOK'
    BY <2>1, <1>0 DEF TypeOK
  <2>3. \A h \in Gates : Waiting(h)' = Waiting(h)
    BY <2>1 DEF Waiting, TypeOK, Through, Gates
  <2>4. QueueInv'
    BY <2>1, <2>3 DEF QueueInv
  <2>5. c \notin Holders(g) /\ Holders(g)' = Holders(g) \cup {c}
    BY <2>1 DEF Holders, TypeOK, Through, OwnsRun, OwnsGlobal, Gates
  <2>6. \A h \in Gates \ {g} : Holders(h)' = Holders(h)
    BY <2>1 DEF Holders, TypeOK, Through, OwnsRun, OwnsGlobal, Gates
  <2>7. Cardinality(Holders(g)') = Cardinality(Holders(g)) + 1
    BY <2>5, HoldersFinite, FS_AddElement
  <2>8. SlotAccounting'
    <3> SUFFICES ASSUME NEW h \in Gates
                 PROVE  active'[h] = Cardinality(Holders(h)') /\ active'[h] <= Limit[h]
      BY DEF SlotAccounting
    <3>1. CASE h = g
      BY <3>1, <2>1, <2>7, <1>1 DEF SlotAccounting, TypeOK, Gates
    <3>2. CASE h # g
      BY <3>2, <2>1, <2>6 DEF SlotAccounting, TypeOK
    <3> QED BY <3>1, <3>2
  <2> QED BY <2>2, <2>4, <2>8
<1>2. CASE ~(active[g] < Limit[g])
  <2>1. /\ queue' = [queue EXCEPT ![g] = Append(@, c)]
        /\ pc' = [pc EXCEPT ![c] = waiting]
        /\ active' = active
    BY <1>2 DEF Acquire
  <2>2. queue[g] \in Seq(Calls)
    BY DEF TypeOK
  <2>3. TypeOK'
    BY <2>1, <2>2, <1>0, AppendProperties DEF TypeOK
  <2>4. c \notin Waiting(g) /\ Waiting(g)' = Waiting(g) \cup {c}
    BY <2>1 DEF Waiting, TypeOK, Gates
  <2>5. \A h \in Gates \ {g} : Waiting(h)' = Waiting(h)
    BY <2>1 DEF Waiting, TypeOK, Gates
  <2>6. QueueInv'
    <3> SUFFICES ASSUME NEW h \in Gates
                 PROVE  /\ \A i \in 1..Len(queue'[h]) : queue'[h][i] \in Waiting(h)'
                        /\ \A i, j \in 1..Len(queue'[h]) : queue'[h][i] = queue'[h][j] => i = j
                        /\ \A d \in Waiting(h)' : \E i \in 1..Len(queue'[h]) : queue'[h][i] = d
      BY DEF QueueInv
    <3>1. CASE h = g
      <4> DEFINE n == Len(queue[g])
                 q == Append(queue[g], c)
      <4>1. queue'[h] = q
        BY <3>1, <2>1 DEF TypeOK
      <4>2. /\ n \in Nat
            /\ Len(q) = n + 1
            /\ \A i \in 1..n : q[i] = queue[g][i]
            /\ q[n + 1] = c
        BY <2>2, AppendProperties, LenProperties
      <4> HIDE DEF q, n
      <4>3. /\ \A i \in 1..n : queue[g][i] \in Waiting(g)
            /\ \A i, j \in 1..n : queue[g][i] = queue[g][j] => i = j
            /\ \A d \in Waiting(g) : \E i \in 1..n : queue[g][i] = d
        BY DEF QueueInv, n
      <4>4. \A i \in 1..(n + 1) : i \in 1..n \/ i = n + 1
        BY <4>2
      <4>5. \A i \in 1..(n + 1) : q[i] \in Waiting(g)'
        BY <4>2, <4>3, <4>4, <2>4
      <4>6. \A i, j \in 1..(n + 1) : q[i] = q[j] => i = j
        BY <4>2, <4>3, <4>4, <2>4
      <4>7. \A d \in Waiting(g)' : \E i \in 1..(n + 1) : q[i] = d
        BY <4>2, <4>3, <2>4
      <4> QED BY <4>1, <4>2, <4>5, <4>6, <4>7, <3>1
    <3>2. CASE h # g
      <4>1. queue'[h] = queue[h] /\ Waiting(h)' = Waiting(h)
        BY <3>2, <2>1, <2>5 DEF TypeOK
      <4> QED BY <4>1 DEF QueueInv
    <3> QED BY <3>1, <3>2
  <2>7. \A h \in Gates : Holders(h)' = Holders(h)
    BY <2>1 DEF Holders, TypeOK, OwnsRun, OwnsGlobal, Gates
  <2>8. SlotAccounting'
    BY <2>1, <2>7 DEF SlotAccounting
  <2> QED BY <2>3, <2>6, <2>8
<1> QED BY <1>1, <1>2

\* A slot goes to the first waiter, who owned none, or back to the counter.
LEMMA ReleaseStep ==
  ASSUME IInv, NEW c \in Calls, NEW g \in Gates, NEW after,
         \/ g = RunOf[c] /\ after = "done" /\ pc[c] = "leaving"
         \/ g = Global /\ after = "leaving" /\ pc[c] = "running",
         Release(c, g, after)
  PROVE  IInv'
<1> USE LimiterAssumption DEF IInv
<1>0. after \in Stages /\ Through(g) \in Stages
  BY DEF Stages, Through
<1>a. queue[g] \in Seq(Calls) /\ c \in Holders(g)
  BY DEF TypeOK, Holders, OwnsRun, OwnsGlobal, Gates
<1>1. CASE queue[g] = <<>>
  <2>1. /\ active' = [active EXCEPT ![g] = @ - 1]
        /\ pc' = [pc EXCEPT ![c] = after]
        /\ queue' = queue
    BY <1>1 DEF Release
  <2>2. Holders(g)' = Holders(g) \ {c}
    BY <2>1 DEF Holders, TypeOK, OwnsRun, OwnsGlobal, Gates
  <2>3. \A h \in Gates \ {g} : Holders(h)' = Holders(h)
    BY <2>1 DEF Holders, TypeOK, OwnsRun, OwnsGlobal, Gates
  <2>4. \A h \in Gates : Waiting(h)' = Waiting(h)
    BY <2>1 DEF Waiting, TypeOK, Gates
  <2>5. /\ Cardinality(Holders(g)') = Cardinality(Holders(g)) - 1
        /\ Cardinality(Holders(g)') \in Nat
    BY <2>2, <1>a, HoldersFinite, FS_RemoveElement, FS_CardinalityType
  <2>6. active[g] = Cardinality(Holders(g)) /\ active[g] <= Limit[g]
    BY DEF SlotAccounting
  <2>7. TypeOK'
    BY <2>1, <2>5, <2>6, <1>0 DEF TypeOK
  <2>8. QueueInv'
    BY <2>1, <2>4 DEF QueueInv
  <2>9. SlotAccounting'
    <3> SUFFICES ASSUME NEW h \in Gates
                 PROVE  active'[h] = Cardinality(Holders(h)') /\ active'[h] <= Limit[h]
      BY DEF SlotAccounting
    <3>1. CASE h = g
      BY <3>1, <2>1, <2>5, <2>6 DEF TypeOK, Gates
    <3>2. CASE h # g
      BY <3>2, <2>1, <2>3 DEF SlotAccounting, TypeOK
    <3> QED BY <3>1, <3>2
  <2> QED BY <2>7, <2>8, <2>9
<1>2. CASE queue[g] # <<>>
  <2> DEFINE w == Head(queue[g])
  <2>1. /\ queue' = [queue EXCEPT ![g] = Tail(@)]
        /\ pc' = [pc EXCEPT ![c] = after, ![w] = Through(g)]
        /\ active' = active
    BY <1>2 DEF Release
  <2>2. /\ w \in Calls
        /\ w = queue[g][1]
        /\ 1 \in 1..Len(queue[g])
        /\ Tail(queue[g]) \in Seq(Calls)
        /\ Len(queue[g]) \in Nat
        /\ Len(Tail(queue[g])) = Len(queue[g]) - 1
        /\ \A i \in 1..Len(Tail(queue[g])) : Tail(queue[g])[i] = queue[g][i + 1]
    BY <1>a, <1>2, HeadTailProperties, EmptySeq, LenProperties
  <2>3. w \in Waiting(g)
    BY <2>2 DEF QueueInv
  <2> HIDE DEF w
  <2>4. w # c /\ w \notin Holders(g)
    BY <2>2, <2>3 DEF Waiting, Holders, OwnsRun, OwnsGlobal, Gates
  <2>5. TypeOK'
    BY <2>1, <2>2, <1>0 DEF TypeOK
  <2>6. Holders(g)' = (Holders(g) \ {c}) \cup {w}
    BY <2>1, <2>2, <2>3, <2>4 DEF Holders, Waiting, TypeOK, Through, OwnsRun, OwnsGlobal, Gates
  <2>7. \A h \in Gates \ {g} : Holders(h)' = Holders(h)
    <3> SUFFICES ASSUME NEW h \in Gates, h # g PROVE Holders(h)' = Holders(h)
      OBVIOUS
    <3>1. CASE g = Global
      BY <3>1, <2>1, <2>2, <2>3, <2>4 DEF Holders, Waiting, TypeOK, Through, OwnsRun
    <3>2. CASE g # Global
      <4>1. RunOf[c] = g /\ RunOf[w] = g /\ pc[c] = "leaving" /\ pc[w] = "waitRun"
        BY <3>2, <2>3 DEF Waiting
      <4>2. pc'[c] = "done" /\ pc'[w] = "inRun"
        BY <3>2, <2>1, <2>2, <2>4 DEF TypeOK, Through
      <4>3. \A d \in Calls \ {c, w} : pc'[d] = pc[d]
        BY <2>1, <2>2 DEF TypeOK
      <4> QED BY <4>1, <4>2, <4>3 DEF Holders, OwnsGlobal
    <3> QED BY <3>1, <3>2
  <2>8. Cardinality(Holders(g)') = Cardinality(Holders(g))
    <3>1. IsFiniteSet(Holders(g) \ {c}) /\ Cardinality(Holders(g) \ {c}) = Cardinality(Holders(g)) - 1
      BY <1>a, HoldersFinite, FS_RemoveElement
    <3>2. Cardinality((Holders(g) \ {c}) \cup {w}) = Cardinality(Holders(g) \ {c}) + 1
      BY <3>1, <2>4, FS_AddElement
    <3> QED BY <3>1, <3>2, <2>6, HoldersFinite, FS_CardinalityType
  <2>9. SlotAccounting'
    <3> SUFFICES ASSUME NEW h \in Gates
                 PROVE  active'[h] = Cardinality(Holders(h)') /\ active'[h] <= Limit[h]
      BY DEF SlotAccounting
    <3>1. CASE h = g
      BY <3>1, <2>1, <2>8 DEF SlotAccounting
    <3>2. CASE h # g
      BY <3>2, <2>1, <2>7 DEF SlotAccounting
    <3> QED BY <3>1, <3>2
  <2>10. Waiting(g)' = Waiting(g) \ {w}
    BY <2>1, <2>2, <2>3, <2>4 DEF Waiting, TypeOK, Through, Gates
  <2>11. \A h \in Gates \ {g} : Waiting(h)' = Waiting(h)
    <3> SUFFICES ASSUME NEW h \in Gates, h # g PROVE Waiting(h)' = Waiting(h)
      OBVIOUS
    <3>1. \A d \in Calls \ {c, w} : pc'[d] = pc[d]
      BY <2>1, <2>2 DEF TypeOK
    <3>2. c \notin Waiting(h) /\ c \notin Waiting(h)'
      BY <2>1, <2>4, <1>0 DEF Waiting, TypeOK, Gates
    <3>3. w \notin Waiting(h)
      BY <2>3 DEF Waiting, Gates
    <3>4. w \notin Waiting(h)'
      BY <2>1, <2>2, <2>3 DEF Waiting, TypeOK, Through, Gates
    <3> QED BY <3>1, <3>2, <3>3, <3>4 DEF Waiting
  <2>12. QueueInv'
    <3> SUFFICES ASSUME NEW h \in Gates
                 PROVE  /\ \A i \in 1..Len(queue'[h]) : queue'[h][i] \in Waiting(h)'
                        /\ \A i, j \in 1..Len(queue'[h]) : queue'[h][i] = queue'[h][j] => i = j
                        /\ \A d \in Waiting(h)' : \E i \in 1..Len(queue'[h]) : queue'[h][i] = d
      BY DEF QueueInv
    <3>1. CASE h = g
      <4> DEFINE n == Len(queue[g])
                 q == Tail(queue[g])
      <4>1. queue'[h] = q
        BY <3>1, <2>1 DEF TypeOK
      <4>2. n \in Nat /\ Len(q) = n - 1 /\ \A i \in 1..(n - 1) : q[i] = queue[g][i + 1]
        BY <2>2
      <4>3. /\ \A i \in 1..n : queue[g][i] \in Waiting(g)
            /\ \A i, j \in 1..n : queue[g][i] = queue[g][j] => i = j
            /\ \A d \in Waiting(g) : \E i \in 1..n : queue[g][i] = d
        BY DEF QueueInv
      <4>3a. 1 \in 1..n
        BY <2>2
      <4> HIDE DEF q, n
      <4>4. \A i \in 1..(n - 1) : i + 1 \in 1..n /\ i + 1 # 1
        BY <4>2
      <4>5. \A i \in 1..(n - 1) : q[i] \in Waiting(g)'
        <5> SUFFICES ASSUME NEW i \in 1..(n - 1) PROVE q[i] \in Waiting(g)'
          OBVIOUS
        <5>1. q[i] = queue[g][i + 1] /\ i + 1 \in 1..n /\ i + 1 # 1
          BY <4>2, <4>4
        <5>2. q[i] \in Waiting(g)
          BY <5>1, <4>3
        <5>3. q[i] # w
          BY <5>1, <4>3, <4>3a, <2>2
        <5> QED BY <5>2, <5>3, <2>10
      <4>6. \A i, j \in 1..(n - 1) : q[i] = q[j] => i = j
        <5> SUFFICES ASSUME NEW i \in 1..(n - 1), NEW j \in 1..(n - 1), q[i] = q[j]
                     PROVE  i = j
          OBVIOUS
        <5>1. i + 1 = j + 1
          BY <4>2, <4>3, <4>4
        <5> QED BY <5>1, <4>2
      <4>7. ASSUME NEW d \in Waiting(g)'
            PROVE  \E i \in 1..(n - 1) : q[i] = d
        <5>1. PICK k \in 1..n : queue[g][k] = d
          BY <4>7, <4>3, <2>10
        <5>2. k # 1
          BY <5>1, <4>7, <2>2, <2>10
        <5>3. k - 1 \in 1..(n - 1) /\ (k - 1) + 1 = k
          BY <5>1, <5>2, <4>2
        <5>4. q[k - 1] = d
          BY <5>1, <5>3, <4>2
        <5> QED BY <5>3, <5>4
      <4> QED BY <4>1, <4>2, <4>5, <4>6, <4>7, <3>1
    <3>2. CASE h # g
      <4>1. queue'[h] = queue[h] /\ Waiting(h)' = Waiting(h)
        BY <3>2, <2>1, <2>11 DEF TypeOK
      <4> QED BY <4>1 DEF QueueInv
    <3> QED BY <3>1, <3>2
  <2> QED BY <2>5, <2>9, <2>12
<1> QED BY <1>1, <1>2

\* Every acquisition, release and abort keeps the accounts exact.
LEMMA NextIInv == IInv /\ [Next]_vars => IInv'
<1> SUFFICES ASSUME IInv, [Next]_vars PROVE IInv'
  OBVIOUS
<1> USE LimiterAssumption
<1>1. ASSUME NEW c \in Calls, EnterRun(c) PROVE IInv'
  <2>1. RunOf[c] \in Gates
    BY DEF Gates
  <2> QED BY <1>1, <2>1, AcquireStep DEF EnterRun
<1>2. ASSUME NEW c \in Calls, EnterGlobal(c) PROVE IInv'
  BY <1>2, AcquireStep DEF EnterGlobal, Gates
<1>3. ASSUME NEW c \in Calls, LeaveGlobal(c) PROVE IInv'
  BY <1>3, ReleaseStep DEF LeaveGlobal, Gates
<1>4. ASSUME NEW c \in Calls, LeaveRun(c) PROVE IInv'
  <2>1. RunOf[c] \in Gates
    BY DEF Gates
  <2> QED BY <1>4, <2>1, ReleaseStep DEF LeaveRun
<1>5. CASE UNCHANGED vars
  <2>1. active' = active /\ queue' = queue /\ pc' = pc
    BY <1>5 DEF vars
  <2>2. TypeOK'
    BY <2>1 DEF IInv, TypeOK
  <2>3. QueueInv'
    BY <2>1 DEF IInv, QueueInv, Waiting
  <2>4. SlotAccounting'
    BY <2>1 DEF IInv, SlotAccounting, Holders
  <2> QED BY <2>2, <2>3, <2>4 DEF IInv
<1> QED BY <1>1, <1>2, <1>3, <1>4, <1>5 DEF Next, Drained

\* The counter is exact and capped, and the queues hold the waiters, in every
\* state of every run of the engine's gates.
THEOREM SlotsAccounted == Spec => [](TypeOK /\ QueueInv /\ SlotAccounting)
<1>1. Spec => []IInv
  BY InitIInv, NextIInv, PTL DEF Spec
<1> QED BY <1>1, PTL DEF IInv

\* A gate with waiters is full: a slot is only given back when nobody waits, and
\* only a call that finds none free joins the queue.
LEMMA FullStep == IInv /\ NoIdleSlot /\ [Next]_vars => NoIdleSlot'
<1> SUFFICES ASSUME IInv, NoIdleSlot, [Next]_vars PROVE NoIdleSlot'
  OBVIOUS
<1> USE LimiterAssumption DEF IInv, TypeOK
<1>1. ASSUME NEW c \in Calls, NEW g \in Gates, NEW waiting, Acquire(c, g, waiting)
      PROVE  NoIdleSlot'
  <2>1. CASE active[g] < Limit[g]
    <3>1. queue' = queue /\ \A h \in Gates : h # g => active'[h] = active[h]
      BY <1>1, <2>1 DEF Acquire
    <3>2. queue[g] = <<>>
      BY <2>1 DEF NoIdleSlot, SlotAccounting, Gates
    <3> QED BY <3>1, <3>2 DEF NoIdleSlot
  <2>2. CASE ~(active[g] < Limit[g])
    <3>1. active' = active /\ \A h \in Gates : h # g => queue'[h] = queue[h]
      BY <1>1, <2>2 DEF Acquire
    <3>2. active[g] = Limit[g]
      BY <2>2 DEF SlotAccounting, Gates
    <3> QED BY <3>1, <3>2 DEF NoIdleSlot
  <2> QED BY <2>1, <2>2
<1>2. ASSUME NEW c \in Calls, NEW g \in Gates, NEW after, Release(c, g, after)
      PROVE  NoIdleSlot'
  <2>1. CASE queue[g] # <<>>
    <3>1. active' = active /\ \A h \in Gates : h # g => queue'[h] = queue[h]
      BY <1>2, <2>1 DEF Release
    <3> QED BY <2>1, <3>1 DEF NoIdleSlot
  <2>2. CASE queue[g] = <<>>
    <3>1. queue' = queue /\ \A h \in Gates : h # g => active'[h] = active[h]
      BY <1>2, <2>2 DEF Release
    <3> QED BY <2>2, <3>1 DEF NoIdleSlot
  <2> QED BY <2>1, <2>2
<1>3. \A c \in Calls : RunOf[c] \in Gates /\ Global \in Gates
  BY DEF Gates
<1>4. CASE UNCHANGED vars
  BY <1>4 DEF vars, NoIdleSlot
<1> QED BY <1>1, <1>2, <1>3, <1>4
        DEF Next, EnterRun, EnterGlobal, LeaveGlobal, LeaveRun, Drained

\* Where somebody waits, somebody owns a slot: the gate is full, and has one.
LEMMA SomebodyHolds ==
  ASSUME IInv, NoIdleSlot, NEW g \in Gates, Waiting(g) # {}
  PROVE  Holders(g) # {}
<1>1. queue[g] # <<>>
  <2> SUFFICES ASSUME queue[g] = <<>> PROVE FALSE
    OBVIOUS
  <2>1. Len(queue[g]) = 0
    BY EmptySeq
  <2> QED BY <2>1 DEF IInv, QueueInv
<1>2. active[g] = Limit[g] /\ active[g] = Cardinality(Holders(g))
  BY <1>1 DEF IInv, NoIdleSlot, SlotAccounting
<1>3. Limit[g] # 0
  BY LimiterAssumption
<1> QED BY <1>2, <1>3, FS_EmptySet

\* A call that waits for its run's gate waits for one inside it, and that one at
\* most for the global gate, whose holders wait for nobody.
LEMMA GatesMove == IInv /\ NoIdleSlot => NoGateRing
<1> SUFFICES ASSUME IInv, NoIdleSlot, NEW c \in Calls, pc[c] \notin {"idle", "done"}
             PROVE  \E d \in Calls : pc[d] \in {"inRun", "running", "leaving"}
  BY DEF NoGateRing
<1>1. ASSUME NEW d \in Calls, pc[d] = "waitGlobal"
      PROVE  \E h \in Calls : pc[h] = "running"
  <2>1. Global \in Gates /\ d \in Waiting(Global)
    BY <1>1 DEF Gates, Waiting
  <2>2. Holders(Global) # {}
    BY <2>1, SomebodyHolds
  <2> QED BY <2>2 DEF Holders, OwnsGlobal
<1>2. CASE pc[c] = "waitRun"
  <2>1. RunOf[c] \in Gates /\ RunOf[c] # Global
    BY LimiterAssumption DEF Gates
  <2>2. c \in Waiting(RunOf[c])
    BY <1>2, <2>1 DEF Waiting
  <2>3. Holders(RunOf[c]) # {}
    BY <2>1, <2>2, SomebodyHolds
  <2>4. PICK d \in Calls : pc[d] \in OwnsRun
    BY <2>1, <2>3 DEF Holders
  <2> QED BY <2>4, <1>1 DEF OwnsRun
<1>3. pc[c] \in Stages
  BY DEF IInv, TypeOK
<1> QED BY <1>1, <1>2, <1>3 DEF Stages

\* Counters, queues and limits agree in every state, no slot idles while
\* somebody waits for it, and the waits at the two gates form no ring.
THEOREM LimiterCorrect == Spec => []LimiterInv
<1>1. Init => NoIdleSlot
  BY DEF Init, NoIdleSlot
<1>2. Spec => []IInv
  BY InitIInv, NextIInv, PTL DEF Spec
<1>3. Spec => []NoIdleSlot
  BY <1>1, <1>2, FullStep, PTL DEF Spec
<1> QED BY <1>2, <1>3, GatesMove, PTL DEF IInv, LimiterInv

\* Concurrency never exceeds the limit of a run or of the process.
THEOREM CapHolds == Spec => []ConcurrencyCap
<1>1. SlotAccounting => ConcurrencyCap
  BY DEF SlotAccounting, ConcurrencyCap
<1> QED BY <1>1, SlotsAccounted, PTL

\* A step that lets a call through a gate takes the first of those who wait
\* there, and a newcomer gets through only if nobody waits (NoOvertaking).
THEOREM InOrder == Spec => NoOvertaking
<1> DEFINE Ordered == \A g \in Gates : \A c \in Calls :
                        c \notin Holders(g) /\ c \in Holders(g)' => queue[g] = <<>> \/ c = Head(queue[g])
<1>1. ASSUME IInv, NoIdleSlot, [Next]_vars PROVE Ordered
  <2> SUFFICES ASSUME NEW g \in Gates, NEW c \in Calls, c \notin Holders(g), c \in Holders(g)', queue[g] # <<>>
               PROVE  c = Head(queue[g])
    OBVIOUS
  <2> USE <1>1, LimiterAssumption DEF IInv, TypeOK
  <2>1. active[g] = Limit[g] /\ active[g] \in Nat
    BY DEF NoIdleSlot
  <2>2. pc'[c] # pc[c]
    BY DEF Holders
  <2>3. ASSUME NEW d \in Calls, NEW h \in Gates, NEW waiting \in {"waitRun", "waitGlobal"},
               \/ h = RunOf[d] /\ waiting = "waitRun" /\ pc[d] = "idle"
               \/ h = Global /\ waiting = "waitGlobal" /\ pc[d] = "inRun",
               Acquire(d, h, waiting)
        PROVE  FALSE
    <3>1. d = c
      BY <2>2, <2>3 DEF Acquire
    <3>2. CASE active[h] < Limit[h]
      <4>1. h # g /\ pc' = [pc EXCEPT ![d] = Through(h)]
        BY <3>2, <2>1, <2>3 DEF Acquire
      <4> QED BY <4>1, <3>1, <2>3 DEF Holders, Through, OwnsRun, OwnsGlobal, Gates
    <3>3. CASE ~(active[h] < Limit[h])
      <4>1. pc' = [pc EXCEPT ![d] = waiting]
        BY <3>3, <2>3 DEF Acquire
      <4> QED BY <4>1, <3>1, <2>3 DEF Holders, OwnsRun, OwnsGlobal, Gates
    <3> QED BY <3>2, <3>3
  <2>4. ASSUME NEW d \in Calls, NEW h \in Gates, NEW after,
               \/ h = RunOf[d] /\ after = "done" /\ pc[d] = "leaving"
               \/ h = Global /\ after = "leaving" /\ pc[d] = "running",
               Release(d, h, after)
        PROVE  c = Head(queue[g])
    <3>1. c # d
      <4>1. CASE c = d
        <5>1. pc'[d] = after \/ (queue[h] # <<>> /\ d = Head(queue[h]))
          BY <2>4 DEF Release
        <5>2. queue[h] # <<>> => Head(queue[h]) \in Waiting(h)
          BY DEF QueueInv
        <5>3. pc'[d] = after
          BY <5>1, <5>2, <2>4 DEF Waiting, Gates
        <5> QED BY <5>3, <4>1, <2>4 DEF Holders, OwnsRun, OwnsGlobal, Gates
      <4> QED BY <4>1
    <3>2. /\ queue[h] # <<>> /\ c = Head(queue[h])
          /\ pc' = [pc EXCEPT ![d] = after, ![Head(queue[h])] = Through(h)]
      BY <3>1, <2>2, <2>4 DEF Release
    <3>3. c \in Waiting(h) /\ pc'[c] = Through(h)
      BY <3>2 DEF QueueInv
    <3>4. g = h
      BY <3>3 DEF Waiting, Holders, Through, OwnsRun, OwnsGlobal, Gates
    <3> QED BY <3>2, <3>4
  <2>5. CASE \E d \in Calls : EnterRun(d) \/ EnterGlobal(d)
    BY <2>3, <2>5 DEF EnterRun, EnterGlobal, Gates
  <2>6. CASE \E d \in Calls : LeaveRun(d) \/ LeaveGlobal(d)
    BY <2>4, <2>6 DEF LeaveRun, LeaveGlobal, Gates
  <2>7. CASE Drained \/ UNCHANGED vars
    BY <2>2, <2>7 DEF Drained, vars
  <2> QED BY <2>5, <2>6, <2>7 DEF Next
<1>2. IInv /\ NoIdleSlot /\ [Next]_vars => [Ordered]_vars
  BY <1>1
<1>3. Init => NoIdleSlot
  BY DEF Init, NoIdleSlot
<1>4. Spec => [](IInv /\ NoIdleSlot)
  BY <1>3, InitIInv, NextIInv, FullStep, PTL DEF Spec
<1> QED BY <1>2, <1>4, PTL DEF Spec, NoOvertaking

------------------------------------------------------------------------------
Gone(t) == \A u \in 1 .. t : key[u] = key[t] => st[u] = "done"
EarlierGone(t) == \A u \in 1 .. (t - 1) : key[u] = key[t] => st[u] = "done"

\* The entry of a key is its latest call, which is not done; without an entry
\* nobody of the key is left.
LastIsPending ==
  \A k \in Keys :
    /\ pending[k] # 0 => /\ st[pending[k]] # "done"
                         /\ \A t \in Call : key[t] = k => t <= pending[k]
    /\ pending[k] = 0 => \A t \in Call : key[t] = k => st[t] = "done"

\* Between a call and the one it waits for there is no other call of the key.
NobodyBetween ==
  \A t \in Call : st[t] # "out" =>
    /\ prev[t] = 0 => EarlierGone(t)
    /\ prev[t] # 0 => \A u \in 1 .. (t - 1) : key[u] = key[t] => u <= prev[t]

SettledIsGone == \A t \in settled : Gone(t)

InsideIsFirst == \A t \in Call : st[t] \in {"inside", "done"} => EarlierGone(t)

OutIsBlank == \A t \in Call : st[t] = "out" => key[t] = NoKey /\ prev[t] = 0

LockIInv == /\ LockTypeOK /\ OutIsBlank
            /\ LastIsPending /\ NobodyBetween /\ SettledIsGone /\ InsideIsFirst

USE LockAssumption DEF Call

\* Before the first call no key has a promise, so the chain is empty.
LEMMA LockInitIInv == LockInit => LockIInv
BY DEF LockInit, LockIInv, LockTypeOK, OutIsBlank, LastIsPending, NobodyBetween, SettledIsGone,
       InsideIsFirst

\* A call that arrives is the latest of its key; it disturbs nobody's past.
LEMMA ArrivalStep ==
  ASSUME LockIInv, NEW t \in Call, NEW k \in Keys, NEW o \in 0 .. MaxCalls, WithKey(t, k, o)
  PROVE  LockIInv'
<1> USE DEF LockIInv
<1>1. /\ t = made + 1 /\ made' = t
      /\ st[t] = "out" /\ key[t] = NoKey /\ t \notin settled
      /\ key' = [key EXCEPT ![t] = k] /\ st' = [st EXCEPT ![t] = "waiting"]
      /\ prev' = [prev EXCEPT ![t] = pending[k]] /\ pending' = [pending EXCEPT ![k] = t]
      /\ settled' = settled /\ holds' = [holds EXCEPT ![t] = o]
  BY DEF WithKey, LockTypeOK, OutIsBlank
<1>2. /\ key'[t] = k /\ st'[t] = "waiting" /\ prev'[t] = pending[k] /\ pending'[k] = t
      /\ \A u \in Call \ {t} : key'[u] = key[u] /\ st'[u] = st[u] /\ prev'[u] = prev[u]
      /\ \A j \in Keys \ {k} : pending'[j] = pending[j]
      /\ pending[k] < t
  BY <1>1 DEF LockTypeOK
<1>3. LockTypeOK'
  <2>1. /\ made' \in 0 .. MaxCalls /\ key' \in [Call -> Keys \cup {NoKey}]
        /\ st' \in [Call -> {"out", "waiting", "inside", "done"}]
        /\ pending' \in [Keys -> 0 .. made'] /\ prev' \in [Call -> 0 .. MaxCalls]
        /\ settled' \in SUBSET Call /\ holds' \in [Call -> 0 .. MaxCalls]
    BY <1>1 DEF LockTypeOK
  <2>2. ASSUME NEW u \in Call
        PROVE  /\ st'[u] = "out" <=> u > made'
               /\ st'[u] # "out" => key'[u] \in Keys
               /\ prev'[u] # 0 => prev'[u] < u /\ key'[prev'[u]] = key'[u]
               /\ u \in settled' => st'[u] = "done"
    <3>1. CASE u = t
      <4>1. pending[k] # 0 => pending[k] \in Call /\ key[pending[k]] = k
        BY <1>2 DEF LockTypeOK
      <4>2. pending[k] # 0 => pending[k] # t /\ pending[k] < t
        BY <1>2
      <4>3. prev'[u] = pending[k] /\ key'[u] = k /\ st'[u] = "waiting" /\ ~(u > made')
        BY <3>1, <1>1, <1>2
      <4>4. pending[k] # 0 => key'[pending[k]] = k
        BY <4>1, <4>2, <1>2
      <4>5. u \notin settled'
        BY <3>1, <1>1
      <4> QED BY <3>1, <4>2, <4>3, <4>4, <4>5
    <3>2. CASE u # t
      <4>1. /\ st[u] = "out" <=> u > made
            /\ st[u] # "out" => key[u] \in Keys
            /\ u \in settled => st[u] = "done"
        BY DEF LockTypeOK
      <4>2. u > made <=> u > made'
        BY <3>2, <1>1 DEF LockTypeOK
      <4>3. ASSUME prev[u] # 0
            PROVE  prev[u] \in Call \ {t} /\ prev[u] < u /\ key[prev[u]] = key[u]
        <5>1. prev[u] \in 0 .. MaxCalls /\ prev[u] < u /\ key[prev[u]] = key[u]
          BY <4>3 DEF LockTypeOK
        <5>2. u < t
          BY <4>3, <4>1, <3>2, <1>1 DEF OutIsBlank, LockTypeOK
        <5> QED BY <5>1, <5>2, <4>3
      <4>4. key'[u] = key[u] /\ st'[u] = st[u] /\ prev'[u] = prev[u] /\ settled' = settled
        BY <3>2, <1>1, <1>2
      <4>5. prev'[u] # 0 => prev'[u] < u /\ key'[prev'[u]] = key'[u]
        BY <4>3, <4>4, <1>2
      <4> QED BY <4>1, <4>2, <4>4, <4>5
    <3> QED BY <3>1, <3>2
  <2>3. ASSUME NEW j \in Keys, pending'[j] # 0
        PROVE  key'[pending'[j]] = j
    <3>1. CASE j = k
      BY <3>1, <1>2
    <3>2. CASE j # k
      <4>1. pending'[j] = pending[j] /\ pending[j] # 0
        BY <3>2, <2>3, <1>2
      <4>2. pending[j] \in 0 .. made /\ key[pending[j]] = j
        BY <4>1 DEF LockTypeOK
      <4>3. pending[j] \in Call /\ pending[j] # t
        <5>1. made \in 0 .. MaxCalls /\ pending[j] <= made /\ pending[j] >= 1
          BY <4>1, <4>2 DEF LockTypeOK
        <5> QED BY <5>1, <4>2, <1>1
      <4> QED BY <4>1, <4>2, <4>3, <1>2
    <3> QED BY <3>1, <3>2
  <2> QED BY <2>1, <2>2, <2>3 DEF LockTypeOK
<1>4. OutIsBlank'
  BY <1>1, <1>2 DEF OutIsBlank
<1>5. \A u \in Call : st[u] # "out" => u < t
  BY <1>1 DEF LockTypeOK
<1>6. LastIsPending'
  <2> SUFFICES ASSUME NEW j \in Keys
               PROVE  /\ pending'[j] # 0 => /\ st'[pending'[j]] # "done"
                                            /\ \A u \in Call : key'[u] = j => u <= pending'[j]
                      /\ pending'[j] = 0 => \A u \in Call : key'[u] = j => st'[u] = "done"
    BY DEF LastIsPending
  <2>1. CASE j = k
    <3>1. \A u \in Call : key'[u] = k => u <= t
      BY <1>2, <1>5 DEF OutIsBlank
    <3> QED BY <2>1, <3>1, <1>2
  <2>2. CASE j # k
    <3>1. \A u \in Call : key'[u] = j => u # t /\ key[u] = j /\ st'[u] = st[u]
      BY <2>2, <1>2
    <3>2. pending'[j] = pending[j] /\ (pending[j] # 0 => pending[j] \in Call /\ pending[j] # t)
      <4>1. pending'[j] = pending[j]
        BY <2>2, <1>2
      <4>2. made \in 0 .. MaxCalls /\ pending[j] \in 0 .. made
        BY DEF LockTypeOK
      <4> QED BY <4>1, <4>2, <1>1
    <3>3. pending[j] # 0 => st'[pending[j]] = st[pending[j]]
      BY <3>2, <1>2
    <3> QED BY <3>1, <3>2, <3>3 DEF LastIsPending
  <2> QED BY <2>1, <2>2
<1>7. \A u \in Call \ {t} : st[u] # "out" /\ EarlierGone(u) => EarlierGone(u)'
  BY <1>2, <1>5 DEF EarlierGone
<1>8. NobodyBetween'
  <2> SUFFICES ASSUME NEW u \in Call, st'[u] # "out"
               PROVE  /\ prev'[u] = 0 => EarlierGone(u)'
                      /\ prev'[u] # 0 => \A v \in 1 .. (u - 1) : key'[v] = key'[u] => v <= prev'[u]
    BY DEF NobodyBetween
  <2>1. CASE u = t
    <3>1. \A v \in 1 .. (t - 1) : v \in Call /\ v # t
      OBVIOUS
    <3>2. pending[k] = 0 => \A v \in 1 .. (t - 1) : key[v] = k => st[v] = "done"
      BY <3>1 DEF LastIsPending
    <3>3. pending[k] # 0 => \A v \in 1 .. (t - 1) : key[v] = k => v <= pending[k]
      BY <3>1 DEF LastIsPending
    <3> QED BY <2>1, <3>1, <3>2, <3>3, <1>2 DEF EarlierGone
  <2>2. CASE u # t
    <3>1. u < t /\ st[u] # "out" /\ prev'[u] = prev[u]
      BY <2>2, <1>2, <1>5
    <3>2. \A v \in 1 .. (u - 1) : key'[v] = key[v] /\ key'[u] = key[u]
      BY <3>1, <1>2
    <3> QED BY <2>2, <3>1, <3>2, <1>7 DEF NobodyBetween
  <2> QED BY <2>1, <2>2
<1>9. SettledIsGone'
  BY <1>1, <1>2, <1>5 DEF SettledIsGone, Gone, LockTypeOK
<1>10. InsideIsFirst'
  BY <1>2, <1>7 DEF InsideIsFirst
<1> QED BY <1>3, <1>4, <1>6, <1>8, <1>9, <1>10

\* Who enters, leaves or settles finds everybody before it gone.
LEMMA PreviousGone ==
  ASSUME LockIInv, NEW t \in Call, st[t] # "out", prev[t] = 0 \/ prev[t] \in settled
  PROVE  EarlierGone(t)
<1>1. CASE prev[t] = 0
  BY <1>1 DEF LockIInv, NobodyBetween
<1>2. CASE prev[t] # 0
  <2>1. prev[t] \in settled /\ prev[t] \in Call /\ prev[t] < t /\ key[prev[t]] = key[t]
    BY <1>2 DEF LockIInv, LockTypeOK
  <2>2. Gone(prev[t])
    BY <2>1 DEF LockIInv, SettledIsGone
  <2>3. \A u \in 1 .. (t - 1) : key[u] = key[t] => u <= prev[t]
    BY <1>2 DEF LockIInv, NobodyBetween
  <2> QED BY <2>1, <2>2, <2>3 DEF Gone, EarlierGone
<1> QED BY <1>1, <1>2

\* A call whose predecessor has settled runs its task; nobody else of its key is inside.
LEMMA EnterStep ==
  ASSUME LockIInv, NEW t \in Call, Enter(t)
  PROVE  LockIInv'
<1>0. EarlierGone(t)
  BY PreviousGone DEF Enter, MayEnter, PrevSettled
<1> USE DEF LockIInv
<1>1. /\ st[t] = "waiting" /\ st'[t] = "inside" /\ st' = [st EXCEPT ![t] = "inside"]
      /\ \A u \in Call \ {t} : st'[u] = st[u]
      /\ UNCHANGED <<made, key, pending, prev, settled, holds>>
  BY DEF Enter, MayEnter, LockTypeOK
<1>2. \A u \in Call : st[u] = "done" <=> st'[u] = "done"
  BY <1>1
<1>3. \A u \in Call : EarlierGone(u) => EarlierGone(u)'
  BY <1>1, <1>2 DEF EarlierGone
<1>4. LockTypeOK'
  BY <1>1 DEF LockTypeOK
<1>5. OutIsBlank'
  BY <1>1 DEF OutIsBlank
<1>6. LastIsPending'
  BY <1>1, <1>2 DEF LastIsPending, LockTypeOK
<1>7. NobodyBetween'
  BY <1>1, <1>3 DEF NobodyBetween
<1>8. SettledIsGone'
  BY <1>1, <1>2 DEF SettledIsGone, Gone, LockTypeOK
<1>9. InsideIsFirst'
  BY <1>0, <1>1, <1>3 DEF InsideIsFirst
<1> QED BY <1>4, <1>5, <1>6, <1>7, <1>8, <1>9

\* A task that ends drops its key from the map only if its call is the last of the chain.
LEMMA LeaveStep ==
  ASSUME LockIInv, NEW t \in Call, Leave(t)
  PROVE  LockIInv'
<1> USE DEF LockIInv
<1>1. /\ st[t] = "inside" /\ st'[t] = "done" /\ st' = [st EXCEPT ![t] = "done"]
      /\ \A u \in Call \ {t} : st'[u] = st[u]
      /\ pending' = [pending EXCEPT ![key[t]] = IF @ = t THEN 0 ELSE @]
      /\ UNCHANGED <<made, key, prev, settled, holds>>
      /\ key[t] \in Keys
  BY DEF Leave, MayLeave, LockTypeOK
<1>2. \A u \in Call : st[u] = "done" => st'[u] = "done"
  BY <1>1
<1>3. \A u \in Call : EarlierGone(u) => EarlierGone(u)'
  BY <1>1, <1>2 DEF EarlierGone
<1>4. EarlierGone(t)
  BY <1>1 DEF InsideIsFirst
<1>5. /\ pending'[key[t]] = IF pending[key[t]] = t THEN 0 ELSE pending[key[t]]
      /\ \A j \in Keys \ {key[t]} : pending'[j] = pending[j]
  BY <1>1 DEF LockTypeOK
<1>6. LockTypeOK'
  <2>1. \A k \in Keys : pending'[k] \in 0 .. made /\ (pending'[k] # 0 => pending'[k] = pending[k])
    BY <1>5 DEF LockTypeOK
  <2>2. pending' \in [Keys -> 0 .. made']
    BY <2>1, <1>1 DEF LockTypeOK
  <2>3. st' \in [Call -> {"out", "waiting", "inside", "done"}]
    BY <1>1 DEF LockTypeOK
  <2>4. ASSUME NEW u \in Call
        PROVE  /\ st'[u] = "out" <=> u > made'
               /\ st'[u] # "out" => key'[u] \in Keys
               /\ prev'[u] # 0 => prev'[u] < u /\ key'[prev'[u]] = key'[u]
               /\ u \in settled' => st'[u] = "done"
    <3>1. /\ st[u] = "out" <=> u > made
          /\ st[u] # "out" => key[u] \in Keys
          /\ prev[u] # 0 => prev[u] < u /\ key[prev[u]] = key[u]
          /\ u \in settled => st[u] = "done"
      BY DEF LockTypeOK
    <3>2. st'[u] = st[u] \/ (u = t /\ st'[u] = "done")
      BY <1>1
    <3> QED BY <3>1, <3>2, <1>1
  <2>5. \A k \in Keys : pending'[k] # 0 => key'[pending'[k]] = k
    BY <2>1, <1>1 DEF LockTypeOK
  <2>6. /\ made' \in 0 .. MaxCalls /\ key' \in [Call -> Keys \cup {NoKey}]
        /\ prev' \in [Call -> 0 .. MaxCalls] /\ settled' \in SUBSET Call
        /\ holds' \in [Call -> 0 .. MaxCalls]
    BY <1>1 DEF LockTypeOK
  <2> QED BY <2>2, <2>3, <2>4, <2>5, <2>6 DEF LockTypeOK
<1>7. OutIsBlank'
  BY <1>1 DEF OutIsBlank
<1>8. LastIsPending'
  <2> SUFFICES ASSUME NEW k \in Keys
               PROVE  /\ pending'[k] # 0 => /\ st'[pending'[k]] # "done"
                                            /\ \A u \in Call : key'[u] = k => u <= pending'[k]
                      /\ pending'[k] = 0 => \A u \in Call : key'[u] = k => st'[u] = "done"
    BY DEF LastIsPending
  <2>1. CASE pending[k] = t
    <3>0. t # 0 /\ key[t] = k
      <4>1. t # 0
        OBVIOUS
      <4>2. pending[k] # 0 => key[pending[k]] = k
        BY DEF LockTypeOK
      <4> QED BY <4>1, <4>2, <2>1
    <3>1. key[t] = k /\ pending'[k] = 0
      BY <2>1, <3>0, <1>5
    <3>2. \A u \in Call : key[u] = k => u <= t
      BY <2>1 DEF LastIsPending
    <3>3. \A u \in Call : key[u] = k => u = t \/ u \in 1 .. (t - 1)
      BY <3>2
    <3> QED BY <3>1, <3>3, <1>1, <1>4 DEF EarlierGone
  <2>2. CASE pending[k] # t
    <3>1. pending'[k] = pending[k]
      BY <2>2, <1>5
    <3> QED BY <2>2, <3>1, <1>1, <1>2 DEF LastIsPending, LockTypeOK
  <2> QED BY <2>1, <2>2
<1>9. NobodyBetween'
  BY <1>1, <1>3 DEF NobodyBetween
<1>10. SettledIsGone'
  BY <1>1, <1>2 DEF SettledIsGone, Gone, LockTypeOK
<1>11. InsideIsFirst'
  BY <1>1, <1>3, <1>4 DEF InsideIsFirst
<1> QED BY <1>6, <1>7, <1>8, <1>9, <1>10, <1>11

\* The promise of a call settles after its task and after the promise before it.
LEMMA SettleStep ==
  ASSUME LockIInv, NEW t \in Call, Settle(t)
  PROVE  LockIInv'
<1>0. EarlierGone(t)
  BY PreviousGone DEF Settle, MaySettle, PrevSettled
<1> USE DEF LockIInv
<1>1. /\ st[t] = "done" /\ settled' = settled \cup {t}
      /\ UNCHANGED <<made, key, st, pending, prev, holds>>
  BY DEF Settle, MaySettle
<1>2. \A u \in Call : EarlierGone(u) <=> EarlierGone(u)'
  BY <1>1 DEF EarlierGone
<1>3. Gone(t)
  BY <1>0, <1>1 DEF Gone, EarlierGone
<1>4. LockTypeOK'
  BY <1>1 DEF LockTypeOK
<1>5. SettledIsGone'
  BY <1>1, <1>3 DEF SettledIsGone, Gone
<1>6. OutIsBlank' /\ LastIsPending'
  BY <1>1 DEF OutIsBlank, LastIsPending
<1>7. NobodyBetween' /\ InsideIsFirst'
  BY <1>1, <1>2 DEF NobodyBetween, InsideIsFirst
<1> QED BY <1>4, <1>5, <1>6, <1>7

\* Every step keeps the chain as the invariant describes it.
LEMMA LockNextStep == LockIInv /\ [LockNext]_lockVars => LockIInv'
<1> SUFFICES ASSUME LockIInv, [LockNext]_lockVars PROVE LockIInv'
  OBVIOUS
<1>1. ASSUME NEW t \in Call, NEW k \in Keys, CallLock(t, k) PROVE LockIInv'
  BY <1>1, ArrivalStep DEF CallLock
<1>2. ASSUME NEW t \in Call, NEW o \in Call, CallNested(t, o) PROVE LockIInv'
  BY <1>2, ArrivalStep DEF CallNested
<1>3. ASSUME NEW t \in Call, Enter(t) PROVE LockIInv'
  BY <1>3, EnterStep
<1>4. ASSUME NEW t \in Call, Leave(t) PROVE LockIInv'
  BY <1>4, LeaveStep
<1>5. ASSUME NEW t \in Call, Settle(t) PROVE LockIInv'
  BY <1>5, SettleStep
<1>6. CASE UNCHANGED lockVars
  BY <1>6 DEF lockVars, LockIInv, LockTypeOK, OutIsBlank, LastIsPending, NobodyBetween, SettledIsGone,
              InsideIsFirst, Gone, EarlierGone
<1> QED BY <1>1, <1>2, <1>3, <1>4, <1>5, <1>6 DEF LockNext

\* LockIInv is inductive.
THEOREM LockInvariant == LockSpec => []LockIInv
BY LockInitIInv, LockNextStep, PTL DEF LockSpec

\* LockTypeOK of the runs, for any keys and any number of calls.
THEOREM TypeCorrect == LockSpec => []LockTypeOK
<1>1. LockIInv => LockTypeOK
  BY DEF LockIInv
<1> QED BY <1>1, LockInvariant, PTL

\* Two functions of one key never run at the same time (withKey's fn).
THEOREM MutualExclusion == LockSpec => []Exclusive
<1>1. LockIInv => Exclusive
  BY DEF LockIInv, InsideIsFirst, EarlierGone, Exclusive
<1> QED BY <1>1, LockInvariant, PTL

\* has(key) answers exactly whether a call of the key waits or runs.
THEOREM HasExact == LockSpec => []HasIsExact
<1>1. LockIInv => HasIsExact
  <2> SUFFICES ASSUME LockIInv, NEW k \in Keys
               PROVE  pending[k] # 0 <=>
                        \E t \in Call : key[t] = k /\ st[t] \in {"waiting", "inside"}
    BY DEF HasIsExact
  <2>1. ASSUME pending[k] # 0
        PROVE  /\ pending[k] \in Call /\ key[pending[k]] = k
               /\ st[pending[k]] \in {"waiting", "inside"}
    BY <2>1 DEF LockIInv, LockTypeOK, LastIsPending
  <2>2. ASSUME pending[k] = 0
        PROVE  \A t \in Call : key[t] = k => st[t] = "done"
    BY <2>2 DEF LockIInv, LastIsPending
  <2> QED BY <2>1, <2>2
<1> QED BY <1>1, LockInvariant, PTL

\* A call made inside another's function is of the inner key.
NestedOK ==
  \A u \in Call : holds[u] # 0 =>
    st[u] # "out" /\ st[holds[u]] # "out" /\ key[u] = InnerOf[key[holds[u]]]

\* Calls keep their keys, and a newcomer notes in whose function it was made.
LEMMA NestedStep == LockIInv /\ NestedOK /\ [LockNext]_lockVars => NestedOK'
<1> SUFFICES ASSUME LockIInv, NestedOK, [LockNext]_lockVars PROVE NestedOK'
  OBVIOUS
<1> USE DEF LockIInv, LockTypeOK
<1>1. ASSUME NEW t \in Call, NEW k \in Keys, NEW o \in 0 .. MaxCalls, WithKey(t, k, o),
             o # 0 => o \in Call /\ o < t /\ st[o] = "inside" /\ k = InnerOf[key[o]]
      PROVE  NestedOK'
  <2>1. /\ st[t] = "out" /\ st'[t] = "waiting" /\ key'[t] = k /\ holds'[t] = o
        /\ \A u \in Call \ {t} : key'[u] = key[u] /\ st'[u] = st[u] /\ holds'[u] = holds[u]
    BY <1>1 DEF WithKey
  <2>2. \A u \in Call : holds[u] # 0 => holds[u] \in Call /\ holds[u] # t
    <3>1. holds \in [Call -> 0 .. MaxCalls]
      OBVIOUS
    <3>2. \A u \in Call : holds[u] # 0 => st[holds[u]] # "out"
      BY DEF NestedOK
    <3> HIDE DEF LockIInv, LockTypeOK
    <3> QED BY <3>1, <3>2, <2>1
  <2>3. ASSUME NEW u \in Call, holds'[u] # 0
        PROVE  st'[u] # "out" /\ st'[holds'[u]] # "out" /\ key'[u] = InnerOf[key'[holds'[u]]]
    <3>1. CASE u = t
      BY <3>1, <2>3, <2>1, <1>1
    <3>2. CASE u # t
      <4>1. holds[u] # 0 /\ holds'[u] = holds[u]
        BY <3>2, <2>3, <2>1
      <4>2. st[u] # "out" /\ st[holds[u]] # "out" /\ key[u] = InnerOf[key[holds[u]]]
        BY <4>1 DEF NestedOK
      <4> HIDE DEF LockIInv, LockTypeOK
      <4> QED BY <3>2, <4>1, <4>2, <2>1, <2>2
    <3> QED BY <3>1, <3>2
  <2> QED BY <2>3 DEF NestedOK
<1>2. ASSUME NEW t \in Call, NEW k \in Keys, CallLock(t, k) PROVE NestedOK'
  BY <1>1, <1>2 DEF CallLock
<1>3. ASSUME NEW t \in Call, NEW o \in Call, CallNested(t, o) PROVE NestedOK'
  BY <1>1, <1>3 DEF CallNested
<1>4. ASSUME NEW t \in Call, Enter(t) \/ Leave(t) PROVE NestedOK'
  <2>1. /\ key' = key /\ holds' = holds
        /\ \A u \in Call : st[u] # "out" => st'[u] # "out"
    BY <1>4 DEF Enter, Leave
  <2>2. \A u \in Call : holds[u] # 0 => holds[u] \in Call
    OBVIOUS
  <2> QED BY <2>1, <2>2 DEF NestedOK
<1>5. ASSUME NEW t \in Call, Settle(t) PROVE NestedOK'
  BY <1>5 DEF Settle, NestedOK
<1>6. CASE UNCHANGED lockVars
  BY <1>6 DEF lockVars, NestedOK
<1> QED BY <1>2, <1>3, <1>4, <1>5, <1>6 DEF LockNext

\* A set of calls has a first one.
LEMMA FirstCall ==
  ASSUME NEW S \in SUBSET Call, S # {}
  PROVE  \E t \in S : \A u \in S : t <= u
<1>0. S \subseteq Nat
  OBVIOUS
<1>1. PICK t \in S : \A u \in S : <<u, t>> \notin OpToRel(<, Nat)
  BY <1>0, WFMin, NatLessThanWellFounded
<1>2. t \in Nat /\ \A u \in S : u \in Nat /\ ~(u < t)
  BY <1>0, <1>1 DEF OpToRel
<1>3. \A u \in S : t <= u
  BY <1>2
<1> QED BY <1>1, <1>3

\* A call whose promise has not settled.
Unsettled(t) == st[t] # "out" /\ t \notin settled

\* The first unsettled call of a key waits for nobody of its key.
LEMMA FirstMoves ==
  ASSUME LockIInv, NEW k \in Keys, NEW u \in Call, key[u] = k, Unsettled(u)
  PROVE  \E t \in Call : /\ key[t] = k /\ Unsettled(t)
                         /\ MayEnter(t) \/ MaySettle(t) \/ st[t] = "inside"
<1> DEFINE S == {t \in Call : key[t] = k /\ Unsettled(t)}
<1>1. PICK t \in S : \A v \in S : t <= v
  <2>1. S \in SUBSET Call /\ S # {}
    OBVIOUS
  <2> HIDE DEF S
  <2> QED BY <2>1, FirstCall
<1>t. t \in Call /\ key[t] = k /\ Unsettled(t) /\ \A v \in Call : key[v] = k /\ Unsettled(v) => t <= v
  BY <1>1
<1> HIDE DEF S
<1>2. PrevSettled(t)
  <2> SUFFICES ASSUME prev[t] # 0 PROVE prev[t] \in settled
    BY DEF PrevSettled
  <2>1. prev[t] \in Call /\ prev[t] < t /\ key[prev[t]] = k
    BY <1>t DEF LockIInv, LockTypeOK
  <2>2. st[prev[t]] # "out"
    BY <2>1 DEF LockIInv, OutIsBlank
  <2>3. ~(t <= prev[t])
    BY <2>1, <1>t
  <2> QED BY <2>1, <2>2, <2>3, <1>t DEF Unsettled
<1>3. st[t] \in {"waiting", "inside", "done"}
  BY <1>t DEF LockIInv, LockTypeOK, Unsettled
<1> QED BY <1>t, <1>2, <1>3 DEF MayEnter, MaySettle, Unsettled

\* The waits of the inner keys end at their first calls, those of the outer keys
\* there or at an inner key.
LEMMA LocksMove == LockIInv /\ NestedOK => NoLockRing
<1> SUFFICES ASSUME LockIInv, NestedOK, NEW u \in Call, st[u] \in {"waiting", "inside"}
             PROVE  \E t \in Call : MayEnter(t) \/ MayLeave(t) \/ MaySettle(t)
  BY DEF NoLockRing
<1>0. \A k \in Keys : InnerOf[k] \in Keys \cup {NoKey} /\ (InnerOf[k] \in Keys => InnerOf[InnerOf[k]] = NoKey)
  OBVIOUS
<1>1. \A t \in Call : Unsettled(t) => key[t] \in Keys
  BY DEF LockIInv, LockTypeOK, Unsettled
<1>2. Unsettled(u)
  BY DEF LockIInv, LockTypeOK, Unsettled
<1>3. ASSUME NEW v \in Call, Unsettled(v), InnerOf[key[v]] = NoKey
      PROVE  \E t \in Call : MayEnter(t) \/ MayLeave(t) \/ MaySettle(t)
  <2>1. PICK t \in Call : /\ key[t] = key[v] /\ Unsettled(t)
                          /\ MayEnter(t) \/ MaySettle(t) \/ st[t] = "inside"
    BY <1>1, <1>3, FirstMoves
  <2>2. \A w \in Call : holds[w] # t
    <3> SUFFICES ASSUME NEW w \in Call, holds[w] = t PROVE FALSE
      OBVIOUS
    <3>1. st[w] # "out" /\ key[w] = NoKey
      BY <2>1, <1>3 DEF NestedOK
    <3> QED BY <3>1 DEF LockIInv, LockTypeOK
  <2> QED BY <2>1, <2>2 DEF MayLeave
<1>4. ASSUME \A v \in Call : Unsettled(v) => InnerOf[key[v]] \in Keys
      PROVE  \E t \in Call : MayEnter(t) \/ MayLeave(t) \/ MaySettle(t)
  <2>1. PICK t \in Call : /\ key[t] = key[u] /\ Unsettled(t)
                          /\ MayEnter(t) \/ MaySettle(t) \/ st[t] = "inside"
    BY <1>1, <1>2, FirstMoves
  <2>2. ASSUME NEW w \in Call, holds[w] = t PROVE st[w] = "done"
    <3>1. st[w] # "out" /\ key[w] = InnerOf[key[t]]
      BY <2>2 DEF NestedOK
    <3>2. key[t] \in Keys /\ InnerOf[key[t]] \in Keys
      BY <2>1, <1>1, <1>4
    <3>3. ~Unsettled(w)
      BY <3>1, <3>2, <1>0, <1>4
    <3> QED BY <3>1, <3>3 DEF Unsettled, LockIInv, LockTypeOK
  <2> QED BY <2>1, <2>2 DEF MayLeave
<1>5. \A v \in Call : Unsettled(v) => InnerOf[key[v]] \in Keys \cup {NoKey}
  BY <1>0, <1>1
<1> QED BY <1>3, <1>4, <1>5

\* The waits for a lock and for an inner one never close into a ring.
THEOREM LocksFormNoRing == LockSpec => []NoLockRing
<1>1. LockInit => NestedOK
  BY DEF LockInit, NestedOK
<1>2. LockSpec => [](LockIInv /\ NestedOK)
  BY <1>1, LockInitIInv, LockNextStep, NestedStep, PTL DEF LockSpec
<1> QED BY <1>2, LocksMove, PTL

\* The invariant of the runs, for any keys, any one nesting and any number of calls.
THEOREM LockCorrect == LockSpec => []LockInv
BY TypeCorrect, MutualExclusion, HasExact, LocksFormNoRing, PTL DEF LockInv

\* withKey implements the first-in first-out mutex of FifoMutex: every step of
\* the promise chain is a step of the mutex or changes nothing it sees.
THEOREM IsFifo == LockSpec => Mutex!Spec
<1> USE DEF Mutex!Call
<1>1. LockInit => Mutex!Init
  BY DEF LockInit, Mutex!Init
<1>2. LockIInv /\ [LockNext]_lockVars => [Mutex!Next]_Mutex!vars
  <2> SUFFICES ASSUME LockIInv, [LockNext]_lockVars
               PROVE  Mutex!Next \/ UNCHANGED <<made, key, st>>
    BY DEF Mutex!vars
  <2>1. ASSUME NEW t \in Call, NEW k \in Keys, NEW o \in 0 .. MaxCalls, WithKey(t, k, o)
        PROVE  Mutex!Next
    BY <2>1 DEF WithKey, Mutex!Next, Mutex!Arrive
  <2>2. ASSUME NEW t \in Call, Enter(t)
        PROVE  Mutex!Next
    <3>1. EarlierGone(t)
      BY <2>2, PreviousGone DEF Enter, MayEnter, PrevSettled
    <3> QED BY <2>2, <3>1 DEF Enter, MayEnter, EarlierGone, Mutex!Next, Mutex!Enter, Mutex!FirstInLine
  <2>3. ASSUME NEW t \in Call, Leave(t)
        PROVE  Mutex!Next
    BY <2>3 DEF Leave, MayLeave, Mutex!Next, Mutex!Leave
  <2>4. ASSUME NEW t \in Call, Settle(t)
        PROVE  UNCHANGED <<made, key, st>>
    BY <2>4 DEF Settle
  <2> QED BY <2>1, <2>2, <2>3, <2>4 DEF LockNext, CallLock, CallNested, lockVars
<1> QED BY <1>1, <1>2, LockInvariant, PTL DEF LockSpec, Mutex!Spec
==============================================================================
