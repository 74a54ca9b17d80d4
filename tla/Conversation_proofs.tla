------------------------- MODULE Conversation_proofs -------------------------
(***************************************************************************)
(* What the user says to an agent that is running, and what it asks back.   *)
(*                                                                          *)
(* Steering messages, for any number of runs and drafts: the queue belongs  *)
(* to the run that can drain it, an accepted message is never lost, the     *)
(* model gets messages of the present lifetime of the queue only, and a     *)
(* physical run that no longer owns the queue cannot change it.  A run that *)
(* has been replaced keeps a graph, a notifier and a finally block; all     *)
(* three compare the run token.  The one that clears without comparing is a *)
(* start that is abandoned, and that is right because a starting run is the *)
(* owner until it is published.  The first part says what filtering the     *)
(* queue by an id does, by induction over its length, on the least          *)
(* counterexample.                                                          *)
(*                                                                          *)
(* Questions, for any number of windows, requests and reloads: a question   *)
(* settles once, an acknowledged one is not given up as unacknowledged, and *)
(* no window goes on showing a question that is over.  The last is about    *)
(* the order of messages: a window that shows a dead question, or is about  *)
(* to, has its cancellation further behind in its queue.                    *)
(***************************************************************************)
EXTENDS MessageQueue, UserInput, SequenceTheorems, WellFoundedInduction, TLAPS

\* A set of natural numbers that is not empty has a least element.
LEMMA LeastNumber ==
  ASSUME NEW S \in SUBSET Nat, S # {}
  PROVE  \E n \in S : \A m \in S : n <= m
<1>1. PICK x \in S : \A y \in S : <<y, x>> \notin OpToRel(<, Nat)
  BY WFMin, NatLessThanWellFounded
<1>2. \A y \in S : ~(y < x)
  BY <1>1 DEF OpToRel
<1>3. \A y \in S : x <= y
  BY <1>2
<1> QED BY <1>3

\* f holds the filtered prefixes of q, up to length n.
Prefixes(q, m, f, n) ==
  /\ DOMAIN f = 0..n
  /\ f = [i \in 0..n |-> IF i = 0 THEN <<>>
                         ELSE IF q[i].id = m THEN f[i - 1] ELSE Append(f[i - 1], q[i])]

\* The recursive function of Without exists.
LEMMA PrefixesExist ==
  ASSUME NEW S, NEW q \in Seq(S), NEW m
  PROVE  \E f : Prefixes(q, m, f, Len(q))
<1> DEFINE Bad == {n \in 0..Len(q) : ~ \E f : Prefixes(q, m, f, n)}
<1>1. SUFFICES ASSUME Bad # {} PROVE FALSE
  <2>1. Len(q) \in 0..Len(q)
    OBVIOUS
  <2> QED BY <1>1, <2>1
<1>2. Bad \in SUBSET Nat
  OBVIOUS
<1>3. PICK n \in Bad : \A k \in Bad : n <= k
  BY <1>1, <1>2, LeastNumber
<1>4. n # 0
  <2>1. Prefixes(q, m, [i \in 0..0 |-> <<>>], 0)
    BY DEF Prefixes
  <2> QED BY <2>1
<1>5. n \in Nat /\ n - 1 \in 0..Len(q) /\ n - 1 \notin Bad
  BY <1>3, <1>4
<1>6. PICK f : Prefixes(q, m, f, n - 1)
  BY <1>5
<1> DEFINE g == [i \in 0..n |-> IF i < n THEN f[i]
                                ELSE IF q[n].id = m THEN f[n - 1] ELSE Append(f[n - 1], q[n])]
<1>7. \A i \in 0..n - 1 : g[i] = f[i]
  BY <1>5
<1>8. \A i \in 0..n : g[i] = IF i = 0 THEN <<>>
                             ELSE IF q[i].id = m THEN g[i - 1] ELSE Append(g[i - 1], q[i])
  <2> SUFFICES ASSUME NEW i \in 0..n
               PROVE  g[i] = IF i = 0 THEN <<>>
                             ELSE IF q[i].id = m THEN g[i - 1] ELSE Append(g[i - 1], q[i])
    OBVIOUS
  <2>1. CASE i = n
    BY <1>4, <1>5, <1>7, <2>1
  <2>2. CASE i < n
    <3>1. i \in 0..n - 1 /\ (i # 0 => i - 1 \in 0..n - 1)
      BY <1>5, <2>2
    <3>2. f[i] = IF i = 0 THEN <<>>
                 ELSE IF q[i].id = m THEN f[i - 1] ELSE Append(f[i - 1], q[i])
      BY <1>6, <3>1 DEF Prefixes
    <3> QED BY <1>7, <3>1, <3>2
  <2> QED BY <1>5, <2>1, <2>2
<1>9. Prefixes(q, m, g, n)
  BY <1>8 DEF Prefixes
<1> QED BY <1>3, <1>9

\* Withdrawing a message leaves the others in the queue, and only them.
LEMMA WithoutOnly ==
  ASSUME NEW S, NEW q \in Seq(S), NEW m
  PROVE  /\ Without(q, m) \in Seq(S)
         /\ \A x : x \in Held(Without(q, m)) <=> x \in Held(q) /\ x.id # m
<1> DEFINE F == CHOOSE f : f = [i \in 0..Len(q) |->
                  IF i = 0 THEN <<>> ELSE IF q[i].id = m THEN f[i - 1] ELSE Append(f[i - 1], q[i])]
           Kept(n, x) == \E i \in 1..n : q[i] = x /\ x.id # m
           Right(n) == /\ F[n] \in Seq(S)
                       /\ \A x : (\E j \in 1..Len(F[n]) : F[n][j] = x) <=> Kept(n, x)
           Bad == {n \in 0..Len(q) : ~Right(n)}
<1>1. Without(q, m) = F[Len(q)]
  BY DEF Without
<1>2. F = [i \in 0..Len(q) |->
             IF i = 0 THEN <<>> ELSE IF q[i].id = m THEN F[i - 1] ELSE Append(F[i - 1], q[i])]
  <2>1. PICK f : Prefixes(q, m, f, Len(q))
    BY PrefixesExist
  <2>2. f = [i \in 0..Len(q) |->
               IF i = 0 THEN <<>> ELSE IF q[i].id = m THEN f[i - 1] ELSE Append(f[i - 1], q[i])]
    BY <2>1 DEF Prefixes
  <2> QED BY <2>2, Zenon
<1>3. \A i \in 0..Len(q) : F[i] = IF i = 0 THEN <<>>
                                  ELSE IF q[i].id = m THEN F[i - 1] ELSE Append(F[i - 1], q[i])
  BY <1>2, Zenon
<1> HIDE DEF F
<1>4. ASSUME Bad # {} PROVE FALSE
  <2>1. PICK n \in Bad : \A k \in Bad : n <= k
    <3>1. Bad \in SUBSET Nat
      OBVIOUS
    <3> QED BY <1>4, <3>1, LeastNumber
  <2>2. n # 0
    <3>1. F[0] = <<>>
      BY <1>3
    <3>2. Right(0)
      BY <3>1
    <3> QED BY <2>1, <3>2
  <2>3. n \in 1..Len(q) /\ n - 1 \in 0..Len(q) /\ Right(n - 1)
    <3>1. n \in 1..Len(q) /\ n - 1 \in 0..Len(q) /\ ~(n <= n - 1)
      BY <2>1, <2>2
    <3>2. n - 1 \notin Bad
      BY <2>1, <3>1
    <3> QED BY <3>1, <3>2
  <2>4. F[n] = IF q[n].id = m THEN F[n - 1] ELSE Append(F[n - 1], q[n])
    BY <1>3, <2>3
  <2>5. \A x : Kept(n, x) <=> Kept(n - 1, x) \/ (x = q[n] /\ x.id # m)
    BY <2>3
  <2>6. CASE q[n].id = m
    <3>1. F[n] = F[n - 1] /\ \A x : Kept(n, x) <=> Kept(n - 1, x)
      BY <2>4, <2>5, <2>6
    <3>2. Right(n)
      BY <2>3, <3>1
    <3> QED BY <2>1, <3>2
  <2>7. CASE q[n].id # m
    <3>1. F[n] = Append(F[n - 1], q[n]) /\ q[n] \in S
      BY <2>3, <2>4, <2>7
    <3>2. F[n] \in Seq(S) /\ Len(F[n]) = Len(F[n - 1]) + 1 /\ F[n][Len(F[n - 1]) + 1] = q[n]
          /\ \A j \in 1..Len(F[n - 1]) : F[n][j] = F[n - 1][j]
      BY <2>3, <3>1
    <3>3. \A x : (\E j \in 1..Len(F[n]) : F[n][j] = x)
                   <=> (\E j \in 1..Len(F[n - 1]) : F[n - 1][j] = x) \/ x = q[n]
      <4> DEFINE a == Len(F[n - 1])
      <4>1. a \in Nat /\ \A j : j \in 1..a + 1 <=> j \in 1..a \/ j = a + 1
        BY <2>3
      <4>2. Len(F[n]) = a + 1 /\ F[n][a + 1] = q[n] /\ \A j \in 1..a : F[n][j] = F[n - 1][j]
        BY <3>2
      <4> HIDE DEF a
      <4>3. \A x : (\E j \in 1..a + 1 : F[n][j] = x) <=> (\E j \in 1..a : F[n - 1][j] = x) \/ x = q[n]
        BY <4>1, <4>2
      <4> QED BY <4>2, <4>3 DEF a
    <3>4. Right(n)
      BY <2>3, <2>5, <2>7, <3>2, <3>3
    <3> QED BY <2>1, <3>4
  <2> QED BY <2>6, <2>7
<1>5. Right(Len(q))
  BY <1>4
<1> QED BY <1>1, <1>5 DEF Held

\* A message is held at some place; its id is among the ids.
LEMMA HeldIs ==
  ASSUME NEW S, NEW q \in Seq(S)
  PROVE  /\ \A x : x \in Held(q) <=> \E i \in 1..Len(q) : q[i] = x
         /\ \A i \in 1..Len(q) : q[i] \in Held(q)
         /\ Held(q) \subseteq S
         /\ \A m : m \in Ids(q) <=> \E x \in Held(q) : x.id = m
BY DEF Held, Ids

\* What is held after an append, a concatenation, and by an empty sequence.
LEMMA HeldGrows ==
  ASSUME NEW S, NEW p \in Seq(S), NEW q \in Seq(S), NEW x \in S
  PROVE  /\ Held(Append(q, x)) = Held(q) \cup {x}
         /\ Held(p \o q) = Held(p) \cup Held(q)
<1>1. Held(Append(q, x)) = Held(q) \cup {x}
  <2> DEFINE a == Append(q, x)
  <2>1. /\ a \in Seq(S) /\ Len(a) = Len(q) + 1 /\ a[Len(q) + 1] = x
        /\ \A i \in 1..Len(q) : a[i] = q[i]
    OBVIOUS
  <2>2. Len(q) \in Nat /\ \A i : i \in 1..Len(q) + 1 <=> i \in 1..Len(q) \/ i = Len(q) + 1
    OBVIOUS
  <2> HIDE DEF a
  <2>3. \A y : y \in Held(a) <=> \E i \in 1..Len(q) + 1 : a[i] = y
    BY <2>1, HeldIs
  <2>4. \A y : y \in Held(q) <=> \E i \in 1..Len(q) : q[i] = y
    BY HeldIs
  <2>5. \A y : y \in Held(a) <=> y \in Held(q) \/ y = x
    BY <2>1, <2>2, <2>3, <2>4
  <2> QED BY <2>5 DEF a
<1>2. Held(p \o q) = Held(p) \cup Held(q)
  <2> DEFINE c == p \o q
  <2>1. /\ c \in Seq(S) /\ Len(c) = Len(p) + Len(q)
        /\ \A i \in 1..Len(p) : c[i] = p[i]
        /\ \A i \in 1..Len(q) : c[Len(p) + i] = q[i]
    <3>1. c \in Seq(S) /\ Len(c) = Len(p) + Len(q) /\ Len(p) \in Nat /\ Len(q) \in Nat
      OBVIOUS
    <3>2. \A i \in 1..Len(p) : c[i] = p[i]
      OBVIOUS
    <3>3. ASSUME NEW i \in 1..Len(q) PROVE c[Len(p) + i] = q[i]
      <4>1. Len(p) + i \in 1..Len(p) + Len(q) /\ ~(Len(p) + i <= Len(p)) /\ (Len(p) + i) - Len(p) = i
        BY <3>1
      <4> QED BY <4>1
    <3> QED BY <3>1, <3>2, <3>3
  <2>2. \A i \in 1..Len(c) : i \in 1..Len(p) \/ \E k \in 1..Len(q) : i = Len(p) + k
    <3> SUFFICES ASSUME NEW i \in 1..Len(c), i \notin 1..Len(p) PROVE \E k \in 1..Len(q) : i = Len(p) + k
      OBVIOUS
    <3>1. i - Len(p) \in 1..Len(q) /\ i = Len(p) + (i - Len(p))
      BY <2>1
    <3> QED BY <3>1
  <2>3. /\ \A i \in 1..Len(p) : i \in 1..Len(c)
        /\ \A i \in 1..Len(q) : Len(p) + i \in 1..Len(c)
    BY <2>1
  <2> HIDE DEF c
  <2>4. /\ \A y : y \in Held(c) <=> \E i \in 1..Len(c) : c[i] = y
        /\ \A y : y \in Held(p) <=> \E i \in 1..Len(p) : p[i] = y
        /\ \A y : y \in Held(q) <=> \E i \in 1..Len(q) : q[i] = y
    BY <2>1, HeldIs
  <2>5. ASSUME NEW y PROVE y \in Held(c) <=> y \in Held(p) \/ y \in Held(q)
    <3>1. ASSUME y \in Held(c) PROVE y \in Held(p) \/ y \in Held(q)
      <4>1. PICK i \in 1..Len(c) : c[i] = y
        BY <2>4, <3>1
      <4>2. CASE i \in 1..Len(p)
        BY <2>1, <2>4, <4>1, <4>2
      <4>3. ASSUME NEW k \in 1..Len(q), i = Len(p) + k PROVE y \in Held(q)
        BY <2>1, <2>4, <4>1, <4>3
      <4> QED BY <2>2, <4>2, <4>3
    <3>2. ASSUME y \in Held(p) PROVE y \in Held(c)
      BY <2>1, <2>3, <2>4, <3>2
    <3>3. ASSUME y \in Held(q) PROVE y \in Held(c)
      <4>1. PICK k \in 1..Len(q) : q[k] = y
        BY <2>4, <3>3
      <4>2. Len(p) + k \in 1..Len(c) /\ c[Len(p) + k] = y
        BY <2>1, <2>3, <4>1
      <4> QED BY <2>4, <4>2
    <3> QED BY <3>1, <3>2, <3>3
  <2> QED BY <2>5 DEF c
<1> QED BY <1>1, <1>2

\* A draft that is submitted again takes the place of its former version.
LEMMA ReplacedHolds ==
  ASSUME NEW S, NEW q \in Seq(S), NEW msg \in S
  PROVE  /\ Replaced(q, msg) \in Seq(S)
         /\ Held(Replaced(q, msg)) \subseteq Held(q) \cup {msg}
         /\ Ids(Replaced(q, msg)) = Ids(q)
<1> DEFINE p == Replaced(q, msg)
<1>1. /\ p \in Seq(S) /\ Len(p) = Len(q)
      /\ \A i \in 1..Len(q) : p[i] = IF q[i].id = msg.id THEN msg ELSE q[i]
  <2>1. DOMAIN q = 1..Len(q) /\ Len(q) \in Nat /\ \A i \in 1..Len(q) : q[i] \in S
    OBVIOUS
  <2>2. p = [i \in 1..Len(q) |-> IF q[i].id = msg.id THEN msg ELSE q[i]]
    BY <2>1 DEF Replaced
  <2> QED BY <2>1, <2>2
<1>2. DOMAIN p = 1..Len(q) /\ DOMAIN q = 1..Len(q)
  BY <1>1
<1> HIDE DEF p
<1>3. Held(p) \subseteq Held(q) \cup {msg}
  BY <1>1, <1>2 DEF Held
<1>4. \A i \in 1..Len(q) : p[i].id = q[i].id
  BY <1>1
<1>5. Ids(p) = Ids(q)
  BY <1>2, <1>4 DEF Ids
<1> QED BY <1>1, <1>3, <1>5 DEF p

-----------------------------------------------------------------------------
\* The run inside the replacement critical section owns the queue.
StarterOwns == starting # None =>
  starting \in Runs /\ owner = starting /\ phase[starting] = "starting"

\* A graph has drained something only after its run was published.
DrainedLater == \A r \in Runs : phase[r] \in {"new", "starting"} => batch[r] = <<>>

\* What the owner's graph drained belongs to the present lifetime of the queue;
\* another run's batch never comes back.
BatchOfThisEra == \A r \in Runs : owner = r => \A x \in Held(batch[r]) : x.era = era

\* The rows of a drained batch are in the transcript, whatever becomes of it.
BatchWritten == \A r \in Runs : Ids(batch[r]) \subseteq transcript

\* An accepted message is in the queue, written, or withdrawn.
Covered == accepted \subseteq Ids(queue) \cup transcript \cup withdrawn

IInv == /\ TypeOK /\ StarterOwns /\ DrainedLater
        /\ NoOwnerNoQueue /\ QueueOfThisEra /\ BatchOfThisEra /\ BatchWritten /\ Covered

\* Drafts and phases as TypeOK has them.
Draft == [id : Msgs, ver : 1..MaxVer]
Phases == {"new", "starting", "live", "aborted", "failed", "ended"}

USE QueueAssumption

\* At the start no run owns the queue.
LEMMA InitIInv == Init => IInv
<1> SUFFICES ASSUME Init PROVE IInv
  OBVIOUS
<1>1. TypeOK
  BY DEF Init, TypeOK
<1>2. Held(<<>>) = {} /\ Ids(<<>>) = {}
  BY DEF Held, Ids
<1> QED BY <1>1, <1>2 DEF Init, IInv, StarterOwns, DrainedLater, NoOwnerNoQueue, QueueOfThisEra,
                          BatchOfThisEra, BatchWritten, Covered

\* Replacing a run aborts it if it is live and leaves every other phase alone.
LEMMA AbortShape ==
  ASSUME TypeOK, NEW r
  PROVE  /\ Abort(r) \in [Runs -> Phases]
         /\ \A q \in Runs : Abort(r)[q] = phase[q] \/ (phase[q] = "live" /\ Abort(r)[q] = "aborted")
BY DEF Abort, TypeOK, Phases

\* A step that leaves the queue, the batches and the history alone keeps what
\* the invariant says of them.
QueueAlone == UNCHANGED <<queue, batch, transcript, withdrawn, accepted, era, injected, delivered>>

\* A step that only moves a phase, the run in charge, the one that starts or the preparer.
LEMMA ControlKeeps ==
  ASSUME IInv, QueueAlone, TypeOK', StarterOwns', DrainedLater',
         \/ owner' = owner
         \/ owner' \in Runs /\ batch[owner'] = <<>>
  PROVE  IInv'
<1>1. Held(<<>>) = {}
  BY DEF Held
<1> QED BY <1>1 DEF IInv, QueueAlone, NoOwnerNoQueue, QueueOfThisEra, BatchOfThisEra, BatchWritten, Covered

\* A step that clears the queue.
LEMMA ClearKeeps ==
  ASSUME IInv, Clear, UNCHANGED <<batch, transcript, delivered>>,
         TypeOK', StarterOwns', DrainedLater',
         \/ owner' = None
         \/ owner' \in Runs /\ batch[owner'] = <<>>
  PROVE  IInv'
<1>1. Held(<<>>) = {}
  BY DEF Held
<1> QED BY <1>1 DEF IInv, Clear, NoOwnerNoQueue, QueueOfThisEra, BatchOfThisEra, BatchWritten, Covered

\* The queue and a batch hold messages, of this era where they must be.
LEMMA HeldMessages ==
  ASSUME IInv
  PROVE  /\ queue \in Seq(Message) /\ Held(queue) \subseteq Message
         /\ \A x \in Held(queue) : x.era = era
         /\ \A r \in Runs : /\ batch[r] \in Seq(Message) /\ Held(batch[r]) \subseteq Message
                            /\ Ids(batch[r]) \subseteq transcript
                            /\ owner = r => \A x \in Held(batch[r]) : x.era = era
<1>1. queue \in Seq(Message) /\ \A r \in Runs : batch[r] \in Seq(Message)
  BY DEF IInv, TypeOK
<1>2. Held(queue) \subseteq Message /\ \A r \in Runs : Held(batch[r]) \subseteq Message
  BY <1>1, HeldIs
<1>3. \A x \in Held(queue) : x.era = era
  BY DEF IInv, QueueOfThisEra, Held
<1> QED BY <1>1, <1>2, <1>3 DEF IInv, BatchWritten, BatchOfThisEra

\* A cleared queue has the types of an empty one.
LEMMA ClearTypes ==
  ASSUME TypeOK, Clear
  PROVE  /\ queue' = <<>> /\ queue' \in Seq(Message) /\ era' \in Nat
         /\ injected' \subseteq Msgs /\ withdrawn' \subseteq Msgs /\ accepted' \subseteq Msgs
<1>1. <<>> \in Seq(Message)
  OBVIOUS
<1> QED BY <1>1 DEF TypeOK, Clear

\* A run takes the queue over, cleared (invoke) or as it is (resume).
LEMMA TakeOverKeeps == ASSUME IInv, NEW r \in Runs, Invoke(r) \/ Resume(r) PROVE IInv'
<1>1. /\ phase[r] = "new" /\ starting = None /\ starting' = r /\ owner' = r /\ preparer' = None
      /\ phase' = [Abort(active) EXCEPT ![r] = "starting"]
      /\ UNCHANGED <<active, prep, batch, transcript, submitted, delivered>>
  BY DEF Invoke, Resume
<1>2. /\ phase' \in [Runs -> Phases] /\ phase'[r] = "starting"
      /\ \A q \in Runs \ {r} : phase'[q] = phase[q] \/ (phase[q] = "live" /\ phase'[q] = "aborted")
  BY <1>1, AbortShape DEF IInv, Phases
<1>3. StarterOwns' /\ DrainedLater' /\ batch[r] = <<>>
  BY <1>1, <1>2 DEF IInv, StarterOwns, DrainedLater
<1>4. \A q \in Runs : q \in {active', preparer'} => phase'[q] \in {"live", "aborted", "failed"}
  BY <1>1, <1>2 DEF IInv, TypeOK
<1>5. CASE Invoke(r)
  <2>1. Clear
    BY <1>5 DEF Invoke
  <2>2. TypeOK'
    BY <1>1, <1>2, <1>4, <2>1, ClearTypes DEF IInv, TypeOK, Phases
  <2> QED BY <1>1, <1>3, <2>1, <2>2, ClearKeeps
<1>6. CASE Resume(r)
  <2>1. QueueAlone
    BY <1>6 DEF Resume, QueueAlone
  <2>2. TypeOK'
    BY <1>1, <1>2, <1>4, <2>1 DEF IInv, TypeOK, QueueAlone, Phases
  <2> QED BY <1>1, <1>3, <2>1, <2>2, ControlKeeps
<1> QED BY <1>5, <1>6

\* A run that starts is published, or its start is abandoned.
LEMMA StartKeeps == ASSUME IInv, NEW r \in Runs, Publish(r) \/ AbandonStart(r) PROVE IInv'
<1>1. /\ phase[r] = "starting" /\ starting = r /\ owner = r /\ starting' = None /\ r # None
      /\ UNCHANGED <<preparer, prep, batch, transcript, submitted, delivered>>
  BY DEF Publish, AbandonStart, IInv, StarterOwns
<1>2. batch[r] = <<>> /\ r \notin {active, preparer}
  BY <1>1 DEF IInv, DrainedLater, TypeOK
<1>3. StarterOwns'
  BY <1>1 DEF StarterOwns
<1>4. CASE Publish(r)
  <2>1. QueueAlone /\ owner' = owner /\ active' = r /\ phase' = [phase EXCEPT ![r] = "live"]
    BY <1>4 DEF Publish, QueueAlone
  <2>2. TypeOK' /\ DrainedLater'
    BY <1>1, <2>1 DEF IInv, TypeOK, DrainedLater, QueueAlone
  <2> QED BY <1>3, <2>1, <2>2, ControlKeeps
<1>5. CASE AbandonStart(r)
  <2>1. Clear /\ owner' = None /\ active' = active /\ phase' = [phase EXCEPT ![r] = "ended"]
    BY <1>5 DEF AbandonStart
  <2>2. TypeOK'
    BY <1>1, <1>2, <2>1, ClearTypes DEF IInv, TypeOK
  <2>3. DrainedLater'
    BY <1>1, <2>1 DEF IInv, TypeOK, DrainedLater
  <2> QED BY <1>1, <1>3, <2>1, <2>2, <2>3, ClearKeeps
<1> QED BY <1>4, <1>5

\* Registering a preparer and cancelling move the run in charge only.
LEMMA ChargeKeeps ==
  ASSUME IInv, Cancel \/ \E r \in Runs : RegisterPreparer(r)
  PROVE  IInv'
<1>1. CASE Cancel
  <2>1. QueueAlone /\ phase' = Abort(active) /\ UNCHANGED <<owner, active, starting, preparer, prep, submitted>>
    BY <1>1 DEF Cancel, QueueAlone
  <2>2. /\ phase' \in [Runs -> Phases]
        /\ \A q \in Runs : phase'[q] = phase[q] \/ (phase[q] = "live" /\ phase'[q] = "aborted")
    BY <2>1, AbortShape DEF IInv
  <2>3. TypeOK' /\ StarterOwns' /\ DrainedLater'
    BY <2>1, <2>2 DEF IInv, TypeOK, StarterOwns, DrainedLater, QueueAlone, Phases
  <2> QED BY <2>1, <2>3, ControlKeeps
<1>2. ASSUME NEW r \in Runs, RegisterPreparer(r) PROVE IInv'
  <2>1. QueueAlone /\ preparer' = r /\ phase[r] = "live"
        /\ UNCHANGED <<owner, active, starting, phase, prep, submitted>>
    BY <1>2 DEF RegisterPreparer, QueueAlone
  <2>2. TypeOK' /\ StarterOwns' /\ DrainedLater'
    BY <2>1 DEF IInv, TypeOK, StarterOwns, DrainedLater, QueueAlone
  <2> QED BY <2>1, <2>2, ControlKeeps
<1> QED BY <1>1, <1>2

\* A submission waits for the hooks.
LEMMA SubmitKeeps == ASSUME IInv, NEW m \in Msgs, Submit(m) PROVE IInv'
<1> DEFINE draft == [id |-> m, ver |-> submitted[m] + 1]
<1>1. /\ QueueAlone /\ submitted[m] < MaxVer /\ active # None /\ preparer # None
      /\ UNCHANGED <<owner, active, starting, preparer, phase>>
      /\ submitted' = [submitted EXCEPT ![m] = @ + 1]
      /\ prep' = [prep EXCEPT ![preparer] = Append(@, draft)]
  BY DEF Submit, QueueAlone
<1>2. preparer \in Runs /\ submitted[m] \in 0..MaxVer /\ prep \in [Runs -> Seq(Draft)]
  BY <1>1 DEF IInv, TypeOK, Draft
<1>3. submitted[m] + 1 \in 1..MaxVer
  BY <1>1, <1>2
<1>4. draft \in Draft
  BY <1>3 DEF Draft
<1>5. submitted' \in [Msgs -> 0..MaxVer]
  BY <1>1, <1>3 DEF IInv, TypeOK
<1>6. prep' \in [Runs -> Seq(Draft)]
  <2> HIDE DEF draft
  <2>1. Append(prep[preparer], draft) \in Seq(Draft)
    BY <1>2, <1>4
  <2> QED BY <1>1, <1>2, <2>1
<1>7. TypeOK' /\ StarterOwns' /\ DrainedLater'
  BY <1>1, <1>5, <1>6 DEF IInv, TypeOK, StarterOwns, DrainedLater, QueueAlone, Draft
<1> QED BY <1>1, <1>7, ControlKeeps

\* The hooks let the oldest submission of a run through, or turn it down.
LEMMA PreparedLeaves ==
  ASSUME IInv, NEW r \in Runs, prep[r] # <<>>, prep' = [prep EXCEPT ![r] = Tail(@)]
  PROVE  prep' \in [Runs -> Seq(Draft)] /\ Head(prep[r]) \in Draft
<1>1. prep \in [Runs -> Seq(Draft)]
  BY DEF IInv, TypeOK, Draft
<1>2. Tail(prep[r]) \in Seq(Draft) /\ Head(prep[r]) \in Draft
  BY <1>1
<1> QED BY <1>1, <1>2

\* A submission that is turned down.
LEMMA RejectKeeps == ASSUME IInv, NEW r \in Runs, RejectPrepared(r) PROVE IInv'
<1>1. /\ QueueAlone /\ UNCHANGED <<owner, active, starting, preparer, phase, submitted>>
      /\ prep[r] # <<>> /\ prep' = [prep EXCEPT ![r] = Tail(@)]
  BY DEF RejectPrepared, QueueAlone
<1>2. TypeOK' /\ StarterOwns' /\ DrainedLater'
  BY <1>1, PreparedLeaves DEF IInv, TypeOK, StarterOwns, DrainedLater, QueueAlone, Draft
<1> QED BY <1>1, <1>2, ControlKeeps

\* The queue changes and nothing else does that the invariant depends on, except
\* that more may be accepted, written, or withdrawn.
LEMMA QueueKeeps ==
  ASSUME IInv, TypeOK', UNCHANGED <<owner, starting, phase, batch, era>>,
         \A x \in Held(queue') : x.era = era,
         owner = None => queue' = <<>>,
         transcript \subseteq transcript',
         accepted' \subseteq Ids(queue') \cup transcript' \cup withdrawn'
  PROVE  IInv'
<1>1. QueueOfThisEra'
  BY DEF QueueOfThisEra, Held
<1> QED BY <1>1 DEF IInv, StarterOwns, DrainedLater, NoOwnerNoQueue, BatchOfThisEra, BatchWritten, Covered

\* A submission that is let through joins the queue, or replaces its former version.
LEMMA CommitKeeps == ASSUME IInv, NEW r \in Runs, CommitPrepared(r) PROVE IInv'
<1> DEFINE msg == [id |-> Head(prep[r]).id, ver |-> Head(prep[r]).ver, era |-> era]
<1>1. /\ prep[r] # <<>> /\ prep' = [prep EXCEPT ![r] = Tail(@)] /\ owner = r /\ r # None
      /\ queue' = IF msg.id \in Ids(queue) THEN Replaced(queue, msg) ELSE Append(queue, msg)
      /\ accepted' = accepted \cup {msg.id}
      /\ UNCHANGED <<owner, injected, withdrawn, active, starting, preparer, phase,
                     batch, transcript, submitted, era, delivered>>
  BY DEF CommitPrepared, QueueMessage
<1>2. Head(prep[r]) \in Draft /\ prep' \in [Runs -> Seq(Draft)]
  BY <1>1, PreparedLeaves
<1>3. msg \in Message /\ msg.era = era /\ msg.id \in Msgs
  BY <1>2 DEF Draft, Message, IInv, TypeOK
<1> HIDE DEF msg
<1>4. /\ queue' \in Seq(Message)
      /\ Held(queue') \subseteq Held(queue) \cup {msg}
      /\ Ids(queue) \cup {msg.id} \subseteq Ids(queue')
  <2>1. CASE msg.id \in Ids(queue)
    <3>1. queue' = Replaced(queue, msg)
      BY <1>1, <2>1
    <3>2. queue \in Seq(Message)
      BY HeldMessages
    <3>3. queue' \in Seq(Message) /\ Held(queue') \subseteq Held(queue) \cup {msg} /\ Ids(queue') = Ids(queue)
      BY <1>3, <3>1, <3>2, ReplacedHolds
    <3> QED BY <2>1, <3>3
  <2>2. CASE msg.id \notin Ids(queue)
    <3>1. queue' = Append(queue, msg) /\ queue' \in Seq(Message)
      BY <1>1, <1>3, <2>2, HeldMessages
    <3>2. Held(queue') = Held(queue) \cup {msg}
      BY <1>3, <3>1, HeldMessages, HeldGrows
    <3>3. /\ \A m : m \in Ids(queue) <=> \E x \in Held(queue) : x.id = m
          /\ \A m : m \in Ids(queue') <=> \E x \in Held(queue') : x.id = m
      BY <3>1, HeldMessages, HeldIs
    <3>4. Ids(queue) \cup {msg.id} \subseteq Ids(queue')
      BY <3>2, <3>3
    <3> QED BY <3>1, <3>2, <3>4
  <2> QED BY <2>1, <2>2
<1>5. \A x \in Held(queue') : x.era = era
  BY <1>3, <1>4, HeldMessages
<1>6. TypeOK'
  BY <1>1, <1>2, <1>3, <1>4 DEF IInv, TypeOK, Draft
<1>7. accepted' \subseteq Ids(queue') \cup transcript' \cup withdrawn'
  BY <1>1, <1>4 DEF IInv, Covered
<1> QED BY <1>1, <1>5, <1>6, <1>7, QueueKeeps

\* A deletion withdraws the message, queued or not.
LEMMA DeleteKeeps == ASSUME IInv, NEW m \in Msgs, Delete(m) PROVE IInv'
<1>1. /\ withdrawn' = withdrawn \cup {m} /\ queue' = Without(queue, m)
      /\ UNCHANGED <<owner, injected, active, starting, preparer, prep, phase, batch,
                     transcript, submitted, era, accepted, delivered>>
  BY DEF Delete
<1>2. /\ queue' \in Seq(Message)
      /\ \A x : x \in Held(queue') <=> x \in Held(queue) /\ x.id # m
  BY <1>1, WithoutOnly, HeldMessages
<1>3. \A x \in Held(queue') : x.era = era
  BY <1>2, HeldMessages
<1>4. Ids(queue) \subseteq Ids(queue') \cup {m}
  BY <1>2, HeldMessages, HeldIs
<1>5. owner = None => queue' = <<>>
  <2> SUFFICES ASSUME owner = None PROVE queue' = <<>>
    OBVIOUS
  <2>1. queue = <<>>
    BY DEF IInv, NoOwnerNoQueue
  <2>2. Held(queue') = {}
    BY <1>2, <2>1 DEF Held
  <2>3. ~(1 \in 1..Len(queue'))
    BY <1>2, <2>2, HeldIs
  <2> QED BY <1>2, <2>3
<1>6. TypeOK'
  BY <1>1, <1>2 DEF IInv, TypeOK
<1>7. accepted' \subseteq Ids(queue') \cup transcript' \cup withdrawn'
  BY <1>1, <1>4 DEF IInv, Covered
<1> QED BY <1>1, <1>3, <1>5, <1>6, <1>7, QueueKeeps

\* The owner's graph drains the queue: its rows are written.
LEMMA DrainKeeps == ASSUME IInv, NEW r \in Runs, Drain(r) PROVE IInv'
<1>1. /\ phase[r] \in {"live", "aborted", "ended"} /\ owner = r
      /\ batch' = [batch EXCEPT ![r] = queue] /\ queue' = <<>>
      /\ transcript' = transcript \cup Ids(queue)
      /\ UNCHANGED <<owner, injected, withdrawn, active, starting, preparer, prep,
                     phase, submitted, era, accepted, delivered>>
  BY DEF Drain
<1>2. Ids(queue) \subseteq Msgs
  BY HeldMessages, HeldIs DEF Message
<1>3. TypeOK'
  <2>1. <<>> \in Seq(Message) /\ queue \in Seq(Message)
    BY HeldMessages
  <2> QED BY <1>1, <1>2, <2>1 DEF IInv, TypeOK
<1>4. /\ batch'[r] = queue
      /\ \A q \in Runs : q # r => batch'[q] = batch[q]
  BY <1>1 DEF IInv, TypeOK
<1>5. StarterOwns' /\ DrainedLater' /\ NoOwnerNoQueue' /\ Covered'
  BY <1>1, <1>4 DEF IInv, StarterOwns, DrainedLater, NoOwnerNoQueue, Covered
<1>6. QueueOfThisEra'
  BY <1>1 DEF QueueOfThisEra
<1>7. BatchOfThisEra' /\ BatchWritten'
  BY <1>1, <1>4, HeldMessages DEF BatchOfThisEra, BatchWritten
<1> QED BY <1>3, <1>5, <1>6, <1>7 DEF IInv

\* The notifier throws before a row is written.
LEMMA RefusedKeeps == ASSUME IInv, NEW r \in Runs, DrainRefused(r) PROVE IInv'
<1>1. /\ QueueAlone /\ UNCHANGED <<owner, active, starting, preparer, prep, submitted>>
      /\ phase[r] \in {"live", "aborted"} /\ phase' = [phase EXCEPT ![r] = "failed"]
  BY DEF DrainRefused, QueueAlone
<1>2. TypeOK' /\ StarterOwns' /\ DrainedLater'
  BY <1>1 DEF IInv, TypeOK, StarterOwns, DrainedLater, QueueAlone
<1> QED BY <1>1, <1>2, ControlKeeps

\* A run's batch is empty again once the notifier is done or has failed.
LEMMA BatchGone ==
  ASSUME IInv, NEW r \in Runs, batch' = [batch EXCEPT ![r] = <<>>],
         UNCHANGED <<owner, era, transcript>>
  PROVE  /\ batch' \in [Runs -> Seq(Message)] /\ BatchOfThisEra' /\ BatchWritten'
         /\ \A q \in Runs : batch'[q] = <<>> \/ batch'[q] = batch[q]
<1>1. batch \in [Runs -> Seq(Message)] /\ <<>> \in Seq(Message)
  BY DEF IInv, TypeOK
<1>2. batch' \in [Runs -> Seq(Message)] /\ \A q \in Runs : batch'[q] = <<>> \/ batch'[q] = batch[q]
  BY <1>1
<1>3. Held(<<>>) = {} /\ Ids(<<>>) = {}
  BY DEF Held, Ids
<1> QED BY <1>2, <1>3 DEF IInv, BatchOfThisEra, BatchWritten

\* The owner's batch is handed to the model.
LEMMA DoneKeeps == ASSUME IInv, NEW r \in Runs, NotifyDone(r) PROVE IInv'
<1>1. /\ injected' = injected \cup Ids(batch[r]) /\ delivered' = delivered \cup Held(batch[r])
      /\ batch' = [batch EXCEPT ![r] = <<>>]
      /\ UNCHANGED <<owner, queue, withdrawn, active, starting, preparer, prep, phase,
                     transcript, submitted, era, accepted>>
  BY DEF NotifyDone
<1>2. Ids(batch[r]) \subseteq Msgs /\ Held(batch[r]) \subseteq Message
  BY HeldMessages, HeldIs DEF Message
<1>3. TypeOK'
  BY <1>1, <1>2, BatchGone DEF IInv, TypeOK
<1>4. StarterOwns' /\ DrainedLater' /\ NoOwnerNoQueue' /\ QueueOfThisEra' /\ Covered'
  BY <1>1, BatchGone DEF IInv, StarterOwns, DrainedLater, NoOwnerNoQueue, QueueOfThisEra, Covered
<1> QED BY <1>1, <1>3, <1>4, BatchGone DEF IInv

\* A batch that was not delivered returns to the queue of its own run, or is
\* dropped, its rows being written.
LEMMA FailKeeps == ASSUME IInv, NEW r \in Runs, NotifyFail(r) PROVE IInv'
<1>1. /\ batch[r] # <<>> /\ queue' = IF owner = r THEN batch[r] \o queue ELSE queue
      /\ batch' = [batch EXCEPT ![r] = <<>>]
      /\ phase' = [phase EXCEPT ![r] = IF @ = "ended" THEN @ ELSE "failed"]
      /\ UNCHANGED <<owner, injected, withdrawn, active, starting, preparer, prep,
                     transcript, submitted, era, accepted, delivered>>
  BY DEF NotifyFail
<1>2. phase[r] \notin {"new", "starting"}
  BY <1>1 DEF IInv, DrainedLater
<1>3. /\ queue' \in Seq(Message) /\ Held(queue) \subseteq Held(queue')
      /\ \A x \in Held(queue') : x.era = era
      /\ owner = None => queue' = <<>>
  <2>1. CASE owner = r
    <3>1. queue' = batch[r] \o queue /\ queue' \in Seq(Message) /\ owner # None
      BY <1>1, <2>1, HeldMessages
    <3>2. Held(queue') = Held(batch[r]) \cup Held(queue)
      <4>1. CASE Message = {}
        <5>1. Len(batch[r]) = 0
          <6>1. ~(1 \in 1..Len(batch[r]))
            BY <4>1, HeldMessages
          <6> QED BY <6>1, HeldMessages
        <5> QED BY <1>1, <5>1, HeldMessages
      <4>2. CASE Message # {}
        BY <3>1, <4>2, HeldMessages, HeldGrows
      <4> QED BY <4>1, <4>2
    <3> QED BY <2>1, <3>1, <3>2, HeldMessages
  <2>2. CASE owner # r
    BY <1>1, <2>2, HeldMessages DEF IInv, NoOwnerNoQueue
  <2> QED BY <2>1, <2>2
<1>4. Ids(queue) \subseteq Ids(queue')
  BY <1>3, HeldMessages, HeldIs
<1>5. TypeOK'
  BY <1>1, <1>2, <1>3, BatchGone DEF IInv, TypeOK
<1>6. StarterOwns' /\ DrainedLater'
  BY <1>1, <1>2, BatchGone DEF IInv, StarterOwns, DrainedLater, TypeOK
<1>7. NoOwnerNoQueue' /\ QueueOfThisEra' /\ Covered'
  BY <1>1, <1>3, <1>4 DEF IInv, NoOwnerNoQueue, QueueOfThisEra, Held, Covered
<1> QED BY <1>1, <1>5, <1>6, <1>7, BatchGone DEF IInv

\* The finally block of a run clears the queue if the run owns it.
LEMMA FinishKeeps == ASSUME IInv, NEW r \in Runs, Finish(r) PROVE IInv'
<1>1. /\ phase[r] \in {"live", "aborted", "failed"} /\ phase' = [phase EXCEPT ![r] = "ended"]
      /\ preparer' = IF preparer = r THEN None ELSE preparer
      /\ active' = IF active = r THEN None ELSE active
      /\ UNCHANGED <<starting, prep, batch, transcript, submitted, delivered>>
  BY DEF Finish
<1>2. /\ phase' \in [Runs -> Phases]
      /\ \A q \in Runs : q # r => phase'[q] = phase[q]
      /\ phase'[r] = "ended"
  BY <1>1 DEF IInv, TypeOK, Phases
<1>3. \A q \in Runs : q \in {active', preparer'} => phase'[q] \in {"live", "aborted", "failed"}
  BY <1>1, <1>2 DEF IInv, TypeOK
<1>4. starting # r /\ DrainedLater'
  BY <1>1, <1>2 DEF IInv, StarterOwns, DrainedLater
<1>5. CASE owner = r
  <2>1. Clear /\ owner' = None
    BY <1>5 DEF Finish
  <2>2. starting = None
    BY <1>4, <1>5 DEF IInv, StarterOwns
  <2>3. TypeOK'
    BY <1>1, <1>2, <1>3, <2>1, ClearTypes DEF IInv, TypeOK, Phases
  <2>4. StarterOwns'
    BY <1>1, <2>2 DEF StarterOwns
  <2> QED BY <1>1, <1>4, <2>1, <2>3, <2>4, ClearKeeps
<1>6. CASE owner # r
  <2>1. QueueAlone /\ owner' = owner
    BY <1>1, <1>6 DEF Finish, QueueAlone
  <2>2. TypeOK'
    BY <1>1, <1>2, <1>3, <2>1 DEF IInv, TypeOK, QueueAlone, Phases
  <2>3. StarterOwns'
    BY <1>1, <1>2, <1>4, <2>1 DEF IInv, StarterOwns
  <2> QED BY <1>4, <2>1, <2>2, <2>3, ControlKeeps
<1> QED BY <1>5, <1>6

\* Every step of a run, live, aborted or only starting, keeps the invariant.
LEMMA NextIInv == IInv /\ [Next]_vars => IInv'
<1> SUFFICES ASSUME IInv, [Next]_vars PROVE IInv'
  OBVIOUS
<1>1. CASE UNCHANGED vars
  <2>1. UNCHANGED <<owner, queue, injected, withdrawn, active, starting, preparer, prep,
                    phase, batch, transcript, submitted, era, accepted, delivered>>
    BY <1>1 DEF vars
  <2> QED BY <2>1 DEF IInv, TypeOK, StarterOwns, DrainedLater, NoOwnerNoQueue, QueueOfThisEra,
                      BatchOfThisEra, BatchWritten, Covered
<1> QED BY <1>1, TakeOverKeeps, StartKeeps, ChargeKeeps, SubmitKeeps, RejectKeeps, CommitKeeps,
           DeleteKeeps, DrainKeeps, RefusedKeeps, DoneKeeps, FailKeeps, FinishKeeps DEF Next

\* Without an owner the queue is empty; with one it holds nothing from before
\* the last clear (QueueInv).
THEOREM QueueBelongs == Spec => []QueueInv
<1>1. IInv => QueueInv
  BY DEF IInv, QueueInv
<1> QED BY <1>1, InitIInv, NextIInv, PTL DEF Spec

\* An accepted message is queued, in the transcript or withdrawn (NothingLost).
THEOREM NothingIsLost == Spec => []NothingLost
<1>1. IInv => NothingLost
  BY DEF IInv, Covered, NothingLost
<1> QED BY <1>1, InitIInv, NextIInv, PTL DEF Spec

\* What a step delivers was accepted since the last clear (DeliveredInItsEra).
THEOREM DeliveriesInTheirEra == Spec => DeliveredInItsEra
<1> DEFINE InEra == \A d \in delivered' \ delivered : d.era = era
<1>1. ASSUME IInv, [Next]_vars PROVE InEra
  <2>1. ASSUME NEW r \in Runs, NotifyDone(r) PROVE InEra
    BY <1>1, <2>1, HeldMessages DEF NotifyDone
  <2>2. ASSUME NEW r \in Runs, Invoke(r) \/ Resume(r) \/ Publish(r) \/ AbandonStart(r)
                                 \/ RegisterPreparer(r) \/ Finish(r)
        PROVE  delivered' = delivered
    BY <2>2 DEF Invoke, Resume, Publish, AbandonStart, RegisterPreparer, Finish
  <2>3. ASSUME NEW r \in Runs, CommitPrepared(r) \/ RejectPrepared(r) \/ Drain(r)
                                 \/ DrainRefused(r) \/ NotifyFail(r)
        PROVE  delivered' = delivered
    BY <2>3 DEF CommitPrepared, RejectPrepared, Drain, DrainRefused, NotifyFail
  <2>4. ASSUME NEW m \in Msgs, Submit(m) \/ Delete(m) PROVE delivered' = delivered
    BY <2>4 DEF Submit, Delete
  <2>5. Cancel \/ UNCHANGED vars => delivered' = delivered
    BY DEF Cancel, vars
  <2> QED BY <1>1, <2>1, <2>2, <2>3, <2>4, <2>5 DEF Next
<1>2. IInv /\ [Next]_vars => [InEra]_vars
  BY <1>1
<1> QED BY <1>2, InitIInv, NextIInv, PTL DEF Spec, DeliveredInItsEra

\* A run that no longer owns the queue leaves no trace on it (ForeignRunsHarmless).
THEOREM ForeignRunsAreHarmless == Spec => ForeignRunsHarmless
<1> DEFINE Kept == UNCHANGED <<owner, queue, injected, withdrawn>>
           Harmless == \A r \in Runs :
             LET Moves == batch'[r] # batch[r]
                 Ends == phase[r] # "ended" /\ phase'[r] = "ended"
             IN owner # r /\ (Moves \/ Ends) => UNCHANGED <<owner, queue, injected, withdrawn>>
<1>1. ASSUME IInv, [Next]_vars, NEW r \in Runs, owner # r,
             batch'[r] # batch[r] \/ (phase[r] # "ended" /\ phase'[r] = "ended")
      PROVE  UNCHANGED <<owner, queue, injected, withdrawn>>
  <2>1. ASSUME NEW q \in Runs, Drain(q) \/ NotifyDone(q) PROVE FALSE
    BY <1>1, <2>1 DEF Drain, NotifyDone, IInv, TypeOK
  <2>2. ASSUME NEW q \in Runs, NotifyFail(q) \/ Finish(q) PROVE Kept
    <3>1. q = r
      BY <1>1, <2>2 DEF NotifyFail, Finish, IInv, TypeOK
    <3> QED BY <1>1, <2>2, <3>1 DEF NotifyFail, Finish
  <2>3. ASSUME NEW q \in Runs, AbandonStart(q) PROVE FALSE
    BY <1>1, <2>3 DEF AbandonStart, IInv, StarterOwns, TypeOK
  <2>4. ASSUME NEW q \in Runs, Invoke(q) \/ Resume(q) PROVE FALSE
    <3>1. batch' = batch /\ phase' = [Abort(active) EXCEPT ![q] = "starting"]
      BY <2>4 DEF Invoke, Resume
    <3> QED BY <1>1, <3>1, AbortShape DEF IInv, TypeOK
  <2>5. ASSUME NEW q \in Runs, Publish(q) \/ DrainRefused(q) PROVE FALSE
    BY <1>1, <2>5 DEF Publish, DrainRefused, IInv, TypeOK
  <2>6. CASE Cancel
    <3>1. batch' = batch /\ phase' = Abort(active)
      BY <2>6 DEF Cancel
    <3> QED BY <1>1, <3>1, AbortShape DEF IInv, TypeOK
  <2>7. ASSUME NEW q \in Runs, RegisterPreparer(q) \/ CommitPrepared(q) \/ RejectPrepared(q) PROVE FALSE
    BY <1>1, <2>7 DEF RegisterPreparer, CommitPrepared, RejectPrepared
  <2>8. ASSUME NEW m \in Msgs, Submit(m) \/ Delete(m) PROVE FALSE
    BY <1>1, <2>8 DEF Submit, Delete
  <2>9. CASE UNCHANGED vars
    BY <1>1, <2>9 DEF vars
  <2> QED BY <1>1, <2>1, <2>2, <2>3, <2>4, <2>5, <2>6, <2>7, <2>8, <2>9 DEF Next
<1>2. IInv /\ [Next]_vars => [Harmless]_vars
  BY <1>1
<1> QED BY <1>2, InitIInv, NextIInv, PTL DEF Spec, ForeignRunsHarmless

------------------------------------------------------------------------------
WinMessages == [what : {"request", "cancel"}, req : Requests]
MainMessages == [what : {"ack", "response"}, req : Requests]

Wires ==
  /\ toWin \in [Windows -> Seq(WinMessages)]
  /\ toMain \in [Windows -> Seq(MainMessages)]

\* An acknowledged request was asked, and its timer is off.
AckedOnce ==
  \A r \in acked : r \in Requests /\ r \notin ackTimer /\ state[r] \notin {"new", "unacknowledged"}

Alive(r) == Pending(r) \/ state[r] = "answered"

\* The cancellation of r is in the queue of w, behind its first k messages.
Doomed(w, r, k) ==
  \E j \in 1 .. Len(toWin[w]) : j > k /\ toWin[w][j] = [what |-> "cancel", req |-> r]

ShownInTime == \A w \in Windows : shown[w] # NoRequest => Alive(shown[w]) \/ Doomed(w, shown[w], 0)
SentInTime ==
  \A w \in Windows : \A k \in 1 .. Len(toWin[w]) :
    toWin[w][k].what = "request" => Alive(toWin[w][k].req) \/ Doomed(w, toWin[w][k].req, k)

\* A window that does not listen shows nothing, and a closed one is sent nothing.
Away == \A w \in Windows : /\ window[w] # "ready" => shown[w] = NoRequest
                           /\ window[w] = "closed" => toWin[w] = <<>>

AskIInv == AskTypeOK /\ Wires /\ AckedOnce /\ ShownInTime /\ SentInTime /\ Away

USE UserInputAssumption DEF Requests

\* At the start no question is asked and no window shows one.
LEMMA AskInitIInv == AskInit => AskIInv
<1> SUFFICES ASSUME AskInit PROVE AskIInv
  OBVIOUS
<1>1. DOMAIN (<<>>) = {} /\ Len(<<>>) = 0 /\ <<>> \in Seq(WinMessages) /\ <<>> \in Seq(MainMessages)
      /\ 1 .. 0 = {}
  OBVIOUS
<1>2. \A w \in Windows : toWin[w] = <<>> /\ shown[w] = NoRequest /\ 1 .. Len(toWin[w]) = {}
  BY <1>1 DEF AskInit
<1>3. Wires
  BY <1>1 DEF AskInit, Wires
<1>4. AskTypeOK
  BY DEF AskInit, AskTypeOK, Pending, NoRequest
<1> QED BY <1>2, <1>3, <1>4 DEF AskInit, AskIInv, AckedOnce, ShownInTime, SentInTime, Away

-----------------------------------------------------------------------------
\* The requests that were alive and are no longer have their cancellation sent;
\* who shows or was sent something is told in time.
LEMMA SendStep ==
  ASSUME AskIInv, NEW what \in {"request", "cancel"}, NEW r \in Requests, Send(what, r),
         \A q \in Requests : Alive(q) => Alive(q)' \/ (q = r /\ what = "cancel"),
         what = "request" => Alive(r)',
         UNCHANGED screen
  PROVE  /\ toWin' \in [Windows -> Seq(WinMessages)]
         /\ ShownInTime' /\ SentInTime' /\ Away'
<1> DEFINE m == [what |-> what, req |-> r]
<1>1. m \in WinMessages /\ m.what = what /\ m.req = r
  BY DEF WinMessages
<1>2. \A w \in Windows : toWin[w] \in Seq(WinMessages) /\ Len(toWin[w]) \in Nat
  BY DEF AskIInv, Wires
<1>3. \A w \in Live : toWin'[w] = Append(toWin[w], m)
  BY DEF Send, Live
<1>4. \A w \in Windows \ Live : toWin'[w] = toWin[w] /\ toWin[w] = <<>> /\ shown[w] = NoRequest
  BY DEF Send, Live, AskIInv, Away
<1> HIDE DEF m
<1>5. \A w \in Live : /\ toWin'[w] \in Seq(WinMessages) /\ Len(toWin'[w]) = Len(toWin[w]) + 1
                      /\ toWin'[w][Len(toWin[w]) + 1] = m
                      /\ \A k \in 1 .. Len(toWin[w]) : toWin'[w][k] = toWin[w][k]
  <2> SUFFICES ASSUME NEW w \in Live
               PROVE  /\ toWin'[w] \in Seq(WinMessages) /\ Len(toWin'[w]) = Len(toWin[w]) + 1
                      /\ toWin'[w][Len(toWin[w]) + 1] = m
                      /\ \A k \in 1 .. Len(toWin[w]) : toWin'[w][k] = toWin[w][k]
    OBVIOUS
  <2>1. toWin[w] \in Seq(WinMessages) /\ toWin'[w] = Append(toWin[w], m)
    BY <1>2, <1>3 DEF Live
  <2> HIDE DEF Live
  <2> QED BY <1>1, <2>1, AppendProperties
<1>6. toWin' \in [Windows -> Seq(WinMessages)]
  <2>1. \A w \in Windows : toWin'[w] \in Seq(WinMessages)
    BY <1>2, <1>4, <1>5
  <2> QED BY <2>1 DEF Send
\* What was doomed stays so; and the cancellation dooms r wherever it was.
<1>7. \A w \in Live : \A q, k : Doomed(w, q, k) => Doomed(w, q, k)'
  BY <1>2, <1>5 DEF Doomed, Live
<1>8. ASSUME NEW w \in Live, NEW k \in 0 .. Len(toWin[w]), what = "cancel"
      PROVE  Doomed(w, r, k)'
  <2>1. m = [what |-> "cancel", req |-> r]
    BY <1>8 DEF m
  <2>2. Len(toWin[w]) + 1 \in 1 .. Len(toWin'[w]) /\ Len(toWin[w]) + 1 > k
    BY <1>2, <1>5 DEF Live
  <2> QED BY <2>1, <2>2, <1>5 DEF Doomed
<1>9. ASSUME NEW w \in Live, NEW q \in Requests, NEW k \in 0 .. Len(toWin[w]),
             Alive(q) \/ Doomed(w, q, k)
      PROVE  Alive(q)' \/ Doomed(w, q, k)'
  <2>1. CASE Doomed(w, q, k)
    BY <2>1, <1>7
  <2>2. CASE Alive(q)
    BY <2>2, <1>8
  <2> QED BY <1>9, <2>1, <2>2
<1>10. ShownInTime'
  <2> SUFFICES ASSUME NEW w \in Windows, NEW q, q = shown[w], q # NoRequest
               PROVE  Alive(q)' \/ Doomed(w, q, 0)'
    BY DEF ShownInTime, screen
  <2>1. w \in Live /\ q \in Requests /\ 0 \in 0 .. Len(toWin[w])
    BY <1>2, <1>4 DEF AskIInv, AskTypeOK
  <2>2. Alive(q) \/ Doomed(w, q, 0)
    BY DEF AskIInv, ShownInTime
  <2> QED BY <2>1, <2>2, <1>9
<1>11. SentInTime'
  <2> SUFFICES ASSUME NEW w \in Windows, NEW k \in 1 .. Len(toWin'[w]), toWin'[w][k].what = "request",
                      NEW q, q = toWin'[w][k].req
               PROVE  Alive(q)' \/ Doomed(w, q, k)'
    BY DEF SentInTime
  <2>1. w \in Live
    <3>1. Len(<<>>) = 0 /\ 1 .. 0 = {}
      OBVIOUS
    <3>2. w \notin Live => 1 .. Len(toWin'[w]) = {}
      BY <3>1, <1>4, Zenon
    <3> QED BY <3>2
  <2>2. CASE k = Len(toWin[w]) + 1
    <3>1. toWin'[w][k] = m
      BY <2>1, <2>2, <1>5
    <3> QED BY <3>1, <1>1
  <2>3. CASE k # Len(toWin[w]) + 1
    <3>1. k \in 1 .. Len(toWin[w]) /\ k \in 0 .. Len(toWin[w]) /\ toWin'[w][k] = toWin[w][k]
      BY <2>1, <2>3, <1>2, <1>5
    <3>2. toWin[w][k] \in WinMessages /\ q = toWin[w][k].req /\ toWin[w][k].what = "request"
      BY <3>1, <1>2, ElementOfSeq
    <3>3. q \in Requests
      BY <3>2 DEF WinMessages
    <3>4. Alive(q) \/ Doomed(w, q, k)
      BY <3>1, <3>2 DEF AskIInv, SentInTime
    <3> QED BY <2>1, <3>1, <3>3, <3>4, <1>9
  <2> QED BY <2>2, <2>3
<1>12. Away'
  BY <1>4 DEF AskIInv, Away, Live, screen
<1> QED BY <1>6, <1>10, <1>11, <1>12

\* A promise settles: cleanupPending, and what else is kept.
LEMMA SettleShape ==
  ASSUME AskIInv, NEW r \in Requests, Pending(r),
         NEW how \in {"unacknowledged", "auto", "cancelled", "answered"}, Settles(r, how),
         how = "unacknowledged" => r \notin acked, UNCHANGED screen
  PROVE  /\ AskTypeOK' /\ AckedOnce'
         /\ \A q \in Requests : Alive(q) => Alive(q)' \/ q = r
         /\ how = "answered" => Alive(r)'
<1>1. /\ state \in [Requests -> Settled \cup {"new", "pending"}] /\ current = r
      /\ \A q \in Requests : Pending(q) <=> current = q
      /\ \A q \in ackTimer \cup autoTimer : q \in Requests /\ Pending(q)
  BY DEF AskIInv, AskTypeOK
<1>2. /\ state' = [state EXCEPT ![r] = how] /\ current' = NoRequest /\ acked' = acked
      /\ ackTimer' = ackTimer \ {r} /\ autoTimer' = autoTimer \ {r}
  BY <1>1 DEF Settles
<1>3. state'[r] = how /\ \A q \in Requests \ {r} : state'[q] = state[q] /\ ~Pending(q)
  BY <1>1, <1>2
<1>4. \A q \in Requests : Pending(q)' <=> current' = q
  BY <1>2, <1>3 DEF Pending, NoRequest
<1>5. ackTimer' = {} /\ autoTimer' = {}
  BY <1>1, <1>2, <1>3
<1>6. AskTypeOK'
  <2>1. state' \in [Requests -> Settled \cup {"new", "pending"}]
    BY <1>1, <1>2 DEF Settled
  <2> QED BY <2>1, <1>4, <1>5 DEF AskIInv, AskTypeOK, screen
<1>7. AckedOnce'
  BY <1>2, <1>3, <1>5 DEF AskIInv, AckedOnce
<1>8. \A q \in Requests : Alive(q) => Alive(q)' \/ q = r
  BY <1>3 DEF Alive, Pending
<1>9. how = "answered" => Alive(r)'
  BY <1>3 DEF Alive
<1> QED BY <1>6, <1>7, <1>8, <1>9

\* Steps that send nothing and settle nothing but by an answer.
LEMMA SilentStep ==
  ASSUME AskIInv, AskTypeOK', AckedOnce', \A q \in Requests : Alive(q) => Alive(q)', UNCHANGED <<toWin, screen>>,
         toMain' \in [Windows -> Seq(MainMessages)]
  PROVE  AskIInv'
<1>1. \A w \in Windows : toWin[w] \in Seq(WinMessages)
  BY DEF AskIInv, Wires
<1>2. \A w, q, k : Doomed(w, q, k) => Doomed(w, q, k)'
  BY DEF Doomed
<1>3. ShownInTime'
  <2> SUFFICES ASSUME NEW w \in Windows, NEW q, q = shown[w], q # NoRequest
               PROVE  Alive(q)' \/ Doomed(w, q, 0)'
    BY DEF ShownInTime, screen
  <2> QED BY <1>2 DEF AskIInv, ShownInTime, AskTypeOK
<1>4. SentInTime'
  <2> SUFFICES ASSUME NEW w \in Windows, NEW k \in 1 .. Len(toWin[w]), toWin[w][k].what = "request",
                      NEW q, q = toWin[w][k].req
               PROVE  Alive(q)' \/ Doomed(w, q, k)'
    BY DEF SentInTime
  <2>1. toWin[w][k] \in WinMessages
    BY <1>1, ElementOfSeq
  <2>2. q \in Requests
    BY <2>1 DEF WinMessages
  <2> QED BY <1>2, <2>2 DEF AskIInv, SentInTime
<1>5. Away'
  BY DEF AskIInv, Away, screen
<1>6. Wires'
  BY DEF AskIInv, Wires
<1> QED BY <1>3, <1>4, <1>5, <1>6 DEF AskIInv

\* A window takes its next message, off a queue that is not empty.
LEMMA TakeStep ==
  ASSUME AskIInv, NEW w \in Windows, toWin[w] # <<>>, window[w] \in {"ready", "loading"},
         toWin' = [toWin EXCEPT ![w] = Tail(@)],
         UNCHANGED <<main, window>>, toMain' \in [Windows -> Seq(MainMessages)],
         NEW s \in Requests \cup {NoRequest}, shown' = [shown EXCEPT ![w] = s],
         \/ s = shown[w] /\ ~(toWin[w][1].what = "cancel" /\ toWin[w][1].req = s)
         \/ s = NoRequest
         \/ s = toWin[w][1].req /\ toWin[w][1].what = "request",
         window[w] = "loading" => s = NoRequest
  PROVE  AskIInv'
<1>1. /\ toWin[w] \in Seq(WinMessages) /\ Len(toWin[w]) \in Nat /\ Len(toWin[w]) >= 1
      /\ toWin'[w] = Tail(toWin[w]) /\ toWin'[w] \in Seq(WinMessages)
      /\ Len(toWin'[w]) = Len(toWin[w]) - 1
      /\ \A k \in 1 .. Len(toWin'[w]) : toWin'[w][k] = toWin[w][k + 1]
  <2>1. toWin[w] \in Seq(WinMessages) /\ toWin'[w] = Tail(toWin[w])
    BY DEF AskIInv, Wires
  <2>2. Len(toWin[w]) \in Nat /\ Len(toWin[w]) >= 1
    BY <2>1, EmptySeq
  <2> QED BY <2>1, <2>2, HeadTailProperties
<1>2. \A v \in Windows \ {w} : toWin'[v] = toWin[v] /\ shown'[v] = shown[v]
  BY DEF AskIInv, Wires, AskTypeOK
<1>3. shown'[w] = s /\ shown' \in [Windows -> Requests \cup {NoRequest}]
  BY DEF AskIInv, AskTypeOK
<1>4. \A q : Alive(q) => Alive(q)'
  BY DEF Alive, Pending, main
<1>5. \A v \in Windows \ {w} : \A q, k : Doomed(v, q, k) => Doomed(v, q, k)'
  BY <1>2 DEF Doomed
<1>6. ASSUME NEW q \in Requests, NEW k \in Nat, Doomed(w, q, k),
             k >= 1 \/ ~(toWin[w][1].what = "cancel" /\ toWin[w][1].req = q)
      PROVE  \A n \in Nat : n + 1 <= k \/ n = 0 => Doomed(w, q, n)'
  <2>1. PICK j \in 1 .. Len(toWin[w]) : j > k /\ toWin[w][j] = [what |-> "cancel", req |-> q]
    BY <1>6 DEF Doomed
  <2>2. j # 1
    <3>1. toWin[w][j].what = "cancel" /\ toWin[w][j].req = q
      BY <2>1
    <3> QED BY <1>6, <2>1, <3>1
  <2>3. j - 1 \in 1 .. Len(toWin'[w]) /\ toWin'[w][j - 1] = toWin[w][j]
    BY <1>1, <2>2
  <2> SUFFICES ASSUME NEW n \in Nat, n + 1 <= k \/ n = 0 PROVE Doomed(w, q, n)'
    OBVIOUS
  <2>4. j - 1 > n
    BY <2>1, <2>2
  <2> QED BY <2>1, <2>3, <2>4 DEF Doomed
<1>7. ShownInTime'
  <2> SUFFICES ASSUME NEW v \in Windows, NEW q, q = shown'[v], q # NoRequest
               PROVE  Alive(q)' \/ Doomed(v, q, 0)'
    BY DEF ShownInTime
  <2>0. q \in Requests
    BY <1>3
  <2>1. CASE v # w
    BY <2>1, <2>0, <1>2, <1>4, <1>5 DEF AskIInv, ShownInTime
  <2>2. CASE v = w /\ q = shown[w] /\ ~(toWin[w][1].what = "cancel" /\ toWin[w][1].req = q)
    <3>1. Alive(q) \/ Doomed(w, q, 0)
      BY <2>2 DEF AskIInv, ShownInTime
    <3> QED BY <2>0, <2>2, <3>1, <1>4, <1>6
  <2>3. CASE v = w /\ q = toWin[w][1].req /\ toWin[w][1].what = "request"
    <3>1. Alive(q) \/ Doomed(w, q, 1)
      BY <2>3, <1>1 DEF AskIInv, SentInTime
    <3> QED BY <2>0, <2>3, <3>1, <1>4, <1>6
  <2> QED BY <2>1, <2>2, <2>3, <1>3
<1>8. SentInTime'
  <2> SUFFICES ASSUME NEW v \in Windows, NEW k \in 1 .. Len(toWin'[v]), toWin'[v][k].what = "request",
                      NEW q, q = toWin'[v][k].req
               PROVE  Alive(q)' \/ Doomed(v, q, k)'
    BY DEF SentInTime
  <2>1. CASE v # w
    <3>1. toWin[v][k] \in WinMessages /\ toWin'[v] = toWin[v]
      BY <2>1, <1>2, ElementOfSeq DEF AskIInv, Wires
    <3>2. Alive(q) \/ Doomed(v, q, k)
      BY <3>1 DEF AskIInv, SentInTime
    <3> QED BY <2>1, <3>2, <1>4, <1>5
  <2>2. CASE v = w
    <3>1. /\ k + 1 \in 1 .. Len(toWin[w]) /\ toWin[w][k + 1].what = "request"
          /\ q = toWin[w][k + 1].req
      BY <2>2, <1>1
    <3>2. q \in Requests
      <4>1. toWin[w][k + 1] \in WinMessages
        BY <3>1, <1>1, ElementOfSeq
      <4> QED BY <3>1, <4>1 DEF WinMessages
    <3>3. Alive(q) \/ Doomed(w, q, k + 1)
      BY <3>1 DEF AskIInv, SentInTime
    <3>4. k + 1 \in Nat /\ k + 1 >= 1 /\ k \in Nat /\ k + 1 <= k + 1
      OBVIOUS
    <3> QED BY <2>2, <3>2, <3>3, <3>4, <1>4, <1>6
  <2> QED BY <2>1, <2>2
<1>9. Wires'
  <2>1. \A v \in Windows : toWin'[v] \in Seq(WinMessages)
    BY <1>1, <1>2 DEF AskIInv, Wires
  <2>2. toWin' \in [Windows -> Seq(WinMessages)]
    BY <2>1 DEF AskIInv, Wires
  <2> QED BY <2>2 DEF Wires
<1>10. AskTypeOK' /\ AckedOnce'
  BY <1>3 DEF AskIInv, AskTypeOK, AckedOnce, main, Pending
<1>11. Away'
  BY <1>1, <1>2, <1>3 DEF AskIInv, Away
<1> QED BY <1>7, <1>8, <1>9, <1>10, <1>11 DEF AskIInv

\* A window changes by itself: an answer, the end of its loading, a reload.
LEMMA ScreenStep ==
  ASSUME AskIInv, NEW w \in Windows, UNCHANGED main, Away',
         window' \in [Windows -> {"closed", "loading", "ready"}],
         toMain' \in [Windows -> Seq(MainMessages)],
         toWin' = toWin \/ toWin' = [toWin EXCEPT ![w] = <<>>],
         \/ shown' = [shown EXCEPT ![w] = NoRequest]
         \/ shown' = shown /\ toWin' = toWin
  PROVE  AskIInv'
<1>1. DOMAIN (<<>>) = {} /\ Len(<<>>) = 0 /\ <<>> \in Seq(WinMessages) /\ 1 .. 0 = {}
  OBVIOUS
<1>2. toWin \in [Windows -> Seq(WinMessages)] /\ shown \in [Windows -> Requests \cup {NoRequest}]
  BY DEF AskIInv, Wires, AskTypeOK
<1>3. toWin' \in [Windows -> Seq(WinMessages)] /\ shown' \in [Windows -> Requests \cup {NoRequest}]
  BY <1>1, <1>2
<1>4. \A v \in Windows : toWin'[v] = toWin[v] \/ 1 .. Len(toWin'[v]) = {}
  <2>1. \A v \in Windows : toWin'[v] = toWin[v] \/ toWin'[v] = <<>>
    BY <1>2
  <2> QED BY <2>1, <1>1, Zenon
<1>5. \A v \in Windows : shown'[v] # NoRequest => shown'[v] = shown[v] /\ toWin'[v] = toWin[v]
  BY <1>2
<1>6. \A q : Alive(q) => Alive(q)'
  BY DEF Alive, Pending, main
<1>7. ShownInTime'
  <2> SUFFICES ASSUME NEW v \in Windows, NEW q, q = shown'[v], q # NoRequest
               PROVE  Alive(q)' \/ Doomed(v, q, 0)'
    BY DEF ShownInTime
  <2> QED BY <1>5, <1>6 DEF AskIInv, ShownInTime, Doomed
<1>8. SentInTime'
  <2> SUFFICES ASSUME NEW v \in Windows, NEW k \in 1 .. Len(toWin'[v]), toWin'[v][k].what = "request",
                      NEW q, q = toWin'[v][k].req
               PROVE  Alive(q)' \/ Doomed(v, q, k)'
    BY DEF SentInTime
  <2>1. toWin'[v] = toWin[v]
    BY <1>4
  <2> QED BY <2>1, <1>6 DEF AskIInv, SentInTime, Doomed
<1>9. AskTypeOK' /\ AckedOnce' /\ Wires'
  BY <1>3 DEF AskIInv, AskTypeOK, AckedOnce, main, Pending, Wires
<1> QED BY <1>7, <1>8, <1>9 DEF AskIInv

-----------------------------------------------------------------------------
\* A question that is sent is ahead of its cancellation in the queue of its window.
LEMMA AsksStep == ASSUME AskIInv, NEW r \in Requests, Asks(r) PROVE AskIInv'
<1>1. /\ state \in [Requests -> Settled \cup {"new", "pending"}]
      /\ \A q \in Requests : Pending(q) <=> current = q
      /\ \A q \in ackTimer \cup autoTimer : q \in Requests /\ Pending(q)
  BY DEF AskIInv, AskTypeOK
<1>2. state[r] = "new" /\ acked' = acked /\ UNCHANGED <<toMain, screen>> /\ r \notin acked
  BY DEF Asks, AskIInv, AckedOnce
<1>3. CASE Live = {} \/ current # NoRequest
  <2>1. state' = [state EXCEPT ![r] = "refused"] /\ UNCHANGED <<current, ackTimer, autoTimer, toWin>>
    BY <1>3 DEF Asks
  <2>2. state'[r] = "refused" /\ \A q \in Requests \ {r} : state'[q] = state[q]
    BY <1>1, <2>1
  <2>3. \A q \in Requests : Pending(q)' <=> Pending(q)
    BY <1>2, <2>2 DEF Pending
  <2>4. \A q \in Requests : Alive(q) => Alive(q)'
    BY <1>2, <2>2 DEF Alive, Pending
  <2>5. state' \in [Requests -> Settled \cup {"new", "pending"}]
    BY <1>1, <2>1 DEF Settled
  <2>6. AskTypeOK'
    BY <1>1, <1>2, <2>1, <2>3, <2>5 DEF AskIInv, AskTypeOK, screen
  <2>7. AckedOnce'
    BY <1>2, <2>1, <2>2 DEF AskIInv, AckedOnce
  <2> QED BY <1>2, <2>1, <2>4, <2>6, <2>7, SilentStep DEF AskIInv, Wires
<1>4. CASE Live # {} /\ current = NoRequest
  <2>1. /\ state' = [state EXCEPT ![r] = "pending"] /\ current' = r
        /\ ackTimer' = ackTimer \cup {r} /\ autoTimer' \in {autoTimer, autoTimer \cup {r}}
        /\ Send("request", r)
    BY <1>4 DEF Asks
  <2>2. state'[r] = "pending" /\ \A q \in Requests \ {r} : state'[q] = state[q] /\ state[q] # "pending"
    BY <1>1, <1>4, <2>1 DEF Pending, NoRequest
  <2>3. ackTimer = {} /\ autoTimer = {}
    BY <1>1, <1>4 DEF NoRequest
  <2>4. \A q \in Requests : Alive(q) => Alive(q)'
    BY <2>2 DEF Alive, Pending
  <2>5. state' \in [Requests -> Settled \cup {"new", "pending"}]
    BY <1>1, <2>1
  <2>6. AskTypeOK'
    BY <1>2, <2>1, <2>2, <2>3, <2>5 DEF AskIInv, AskTypeOK, screen, Pending
  <2>7. AckedOnce'
    BY <1>2, <2>1, <2>2 DEF AskIInv, AckedOnce
  <2>8. Alive(r)'
    BY <2>2 DEF Alive, Pending
  <2>9. toWin' \in [Windows -> Seq(WinMessages)] /\ ShownInTime' /\ SentInTime' /\ Away'
    BY <1>2, <2>1, <2>4, <2>8, SendStep
  <2>10. Wires'
    BY <1>2, <2>9 DEF AskIInv, Wires
  <2> QED BY <2>6, <2>7, <2>9, <2>10 DEF AskIInv
<1> QED BY <1>3, <1>4

\* A timeout, an auto resolution or an abort settles the request once and sends its cancellation.
LEMMA TimerStep ==
  ASSUME AskIInv, NEW r \in Requests, AckTimesOut(r) \/ AutoResolves(r) \/ Aborts(r)
  PROVE  AskIInv'
<1>1. PICK how \in {"unacknowledged", "auto", "cancelled"} :
        Settles(r, how) /\ (how = "unacknowledged" => r \in ackTimer)
  BY DEF AckTimesOut, AutoResolves, Aborts
<1>2. Send("cancel", r) /\ UNCHANGED <<toMain, screen>>
  BY DEF AckTimesOut, AutoResolves, Aborts
<1>3. Pending(r)
  BY DEF AckTimesOut, AutoResolves, Aborts, AskIInv, AskTypeOK
<1>4. how = "unacknowledged" => r \notin acked
  BY <1>1 DEF AskIInv, AckedOnce
<1>5. AskTypeOK' /\ AckedOnce' /\ \A q \in Requests : Alive(q) => Alive(q)' \/ q = r
  BY <1>1, <1>2, <1>3, <1>4, SettleShape
<1>6. toWin' \in [Windows -> Seq(WinMessages)] /\ ShownInTime' /\ SentInTime' /\ Away'
  BY <1>2, <1>5, SendStep
<1>7. Wires'
  BY <1>2, <1>6 DEF AskIInv, Wires
<1> QED BY <1>5, <1>6, <1>7 DEF AskIInv

\* A window that takes a message from its queue shows what the rest of the queue accounts for.
LEMMA ReceivesStep == ASSUME AskIInv, NEW w \in Windows, Receives(w) PROVE AskIInv'
<1>1. toMain[w] # <<>> /\ toMain[w] \in Seq(MainMessages) /\ toMain' = [toMain EXCEPT ![w] = Tail(@)]
      /\ UNCHANGED <<toWin, screen>>
  BY DEF Receives, AskIInv, Wires
<1>a. Head(toMain[w]) \in MainMessages /\ Tail(toMain[w]) \in Seq(MainMessages)
  BY <1>1, HeadTailProperties
<1>2. PICK r \in Requests : r = Head(toMain[w]).req
  BY <1>a DEF MainMessages
<1>3. toMain' \in [Windows -> Seq(MainMessages)]
  BY <1>1, <1>a DEF AskIInv, Wires
<1>4. UNCHANGED main \/ Acknowledges(r) \/ Responds(r)
  <2>1. Head(toMain[w]).what \in {"ack", "response"}
    BY <1>a DEF MainMessages
  <2> QED BY <1>2, <2>1 DEF Receives
<1>5. CASE UNCHANGED main
  <2>1. AskTypeOK' /\ AckedOnce' /\ \A q \in Requests : Alive(q) => Alive(q)'
    BY <1>1, <1>5 DEF AskIInv, AskTypeOK, AckedOnce, main, screen, Pending, Alive
  <2> QED BY <1>1, <1>3, <2>1, SilentStep
<1>6. CASE Acknowledges(r)
  <2>1. UNCHANGED <<state, current, autoTimer>> /\ \A q \in Requests : Pending(q)' <=> Pending(q)
    BY <1>6 DEF Acknowledges, Pending
  <2>2. \/ UNCHANGED <<acked, ackTimer>>
        \/ Pending(r) /\ acked' = acked \cup {r} /\ ackTimer' = ackTimer \ {r}
    BY <1>6 DEF Acknowledges
  <2>3. AskTypeOK'
    <3>1. ackTimer' \cup autoTimer' \subseteq {q \in Requests : Pending(q)'}
      BY <2>1, <2>2 DEF AskIInv, AskTypeOK
    <3>2. \A q \in Requests : Pending(q)' <=> current' = q
      BY <2>1 DEF AskIInv, AskTypeOK
    <3> QED BY <1>1, <2>1, <3>1, <3>2 DEF AskIInv, AskTypeOK, screen
  <2>4. AckedOnce'
    BY <1>2, <2>1, <2>2 DEF AskIInv, AckedOnce, Pending
  <2>5. \A q \in Requests : Alive(q) => Alive(q)'
    BY <2>1 DEF Alive
  <2> QED BY <1>1, <1>3, <2>3, <2>4, <2>5, SilentStep
<1>7. CASE Responds(r)
  <2>1. CASE ~Pending(r)
    BY <1>5, <1>7, <2>1 DEF Responds
  <2>2. CASE Pending(r)
    <3>1. Settles(r, "answered") /\ UNCHANGED screen
      BY <1>1, <1>7, <2>2 DEF Responds
    <3>2. /\ AskTypeOK' /\ AckedOnce' /\ Alive(r)'
          /\ \A q \in Requests : Alive(q) => Alive(q)' \/ q = r
      <4>1. PICK how \in {"unacknowledged", "auto", "cancelled", "answered"} : how = "answered"
        OBVIOUS
      <4>2. Settles(r, how) /\ (how = "unacknowledged" => r \notin acked)
        BY <3>1, <4>1
      <4> QED BY <1>2, <2>2, <3>1, <4>1, <4>2, SettleShape
    <3>3. \A q \in Requests : Alive(q) => Alive(q)'
      BY <3>2
    <3> QED BY <1>1, <1>3, <3>2, <3>3, SilentStep
  <2> QED BY <2>1, <2>2
<1> QED BY <1>4, <1>5, <1>6, <1>7

\* What a window does, answer, reload and come up again, keeps the invariant.
LEMMA WindowStep ==
  ASSUME AskIInv, NEW w \in Windows, Shows(w) \/ Misses(w) \/ Answers(w) \/ Loaded(w) \/ Reloads(w)
  PROVE  AskIInv'
<1>1. /\ shown \in [Windows -> Requests \cup {NoRequest}]
      /\ window \in [Windows -> {"closed", "loading", "ready"}]
      /\ toWin \in [Windows -> Seq(WinMessages)] /\ toMain \in [Windows -> Seq(MainMessages)]
      /\ \A v \in Windows : /\ window[v] # "ready" => shown[v] = NoRequest
                            /\ window[v] = "closed" => toWin[v] = <<>>
  BY DEF AskIInv, AskTypeOK, Wires, Away
<1>2. ASSUME toWin[w] # <<>>
      PROVE  /\ Head(toWin[w]) = toWin[w][1] /\ toWin[w][1] \in WinMessages
             /\ toWin[w][1].req \in Requests /\ toWin[w][1].what \in {"request", "cancel"}
  <2>1. Head(toWin[w]) \in WinMessages /\ Head(toWin[w]) = toWin[w][1]
    BY <1>1, <1>2, HeadTailProperties
  <2> QED BY <2>1 DEF WinMessages
<1>3. ASSUME NEW m \in [what : {"ack", "response"}, req : Requests],
             toMain' = [toMain EXCEPT ![w] = Append(@, m)]
      PROVE  toMain' \in [Windows -> Seq(MainMessages)]
  <2>1. m \in MainMessages /\ toMain[w] \in Seq(MainMessages)
    BY <1>1 DEF MainMessages
  <2>2. Append(toMain[w], m) \in Seq(MainMessages)
    BY <2>1
  <2> QED BY <1>1, <1>3, <2>2
<1>4. CASE Shows(w)
  <2>0. /\ toWin[w] # <<>> /\ window[w] = "ready" /\ UNCHANGED <<main, window>>
        /\ toWin' = [toWin EXCEPT ![w] = Tail(@)]
    BY <1>4 DEF Shows
  <2>1. CASE toWin[w][1].what = "request"
    <3> DEFINE m == [what |-> "ack", req |-> toWin[w][1].req]
    <3>1. toMain' = [toMain EXCEPT ![w] = Append(@, m)] /\ shown' = [shown EXCEPT ![w] = toWin[w][1].req]
      BY <1>2, <1>4, <2>0, <2>1 DEF Shows
    <3>2. m \in [what : {"ack", "response"}, req : Requests]
      BY <1>2, <2>0
    <3>3. toMain' \in [Windows -> Seq(MainMessages)]
      BY <1>3, <3>1, <3>2
    <3>4. PICK q \in Requests \cup {NoRequest} : q = toWin[w][1].req
      BY <1>2, <2>0
    <3> QED BY <2>0, <2>1, <3>1, <3>3, <3>4, TakeStep
  <2>2. CASE toWin[w][1].what # "request"
    <3>1. PICK q \in Requests \cup {NoRequest} : q = IF shown[w] = toWin[w][1].req THEN NoRequest ELSE shown[w]
      BY <1>1
    <3>2. shown' = [shown EXCEPT ![w] = q] /\ toMain' = toMain
      BY <1>2, <1>4, <2>0, <2>2, <3>1 DEF Shows
    <3>3. q = NoRequest \/ (q = shown[w] /\ ~(toWin[w][1].what = "cancel" /\ toWin[w][1].req = q))
      BY <3>1
    <3>4. toMain' \in [Windows -> Seq(MainMessages)]
      BY <1>1, <3>2
    <3> QED BY <2>0, <3>2, <3>3, <3>4, TakeStep
  <2> QED BY <2>1, <2>2
<1>5. CASE Misses(w)
  <2>1. /\ toWin[w] # <<>> /\ window[w] = "loading" /\ UNCHANGED <<main, toMain, shown, window>>
        /\ toWin' = [toWin EXCEPT ![w] = Tail(@)]
    BY <1>5 DEF Misses, screen
  <2>2. PICK q \in Requests \cup {NoRequest} : q = NoRequest
    OBVIOUS
  <2>3. shown' = [shown EXCEPT ![w] = q] /\ toMain' \in [Windows -> Seq(MainMessages)]
    BY <1>1, <2>1, <2>2
  <2> QED BY <2>1, <2>2, <2>3, TakeStep
<1>6. CASE Answers(w)
  <2> DEFINE m == [what |-> "response", req |-> shown[w]]
  <2>1. /\ toMain' = [toMain EXCEPT ![w] = Append(@, m)] /\ shown' = [shown EXCEPT ![w] = NoRequest]
        /\ shown[w] # NoRequest /\ UNCHANGED <<main, toWin, window>>
    BY <1>6 DEF Answers
  <2>2. m \in [what : {"ack", "response"}, req : Requests]
    BY <1>1, <2>1
  <2>3. toMain' \in [Windows -> Seq(MainMessages)]
    BY <1>3, <2>1, <2>2
  <2>4. Away'
    BY <1>1, <2>1 DEF Away
  <2> QED BY <1>1, <2>1, <2>3, <2>4, ScreenStep
<1>7. CASE Loaded(w)
  <2>1. /\ window' = [window EXCEPT ![w] = "ready"] /\ window[w] = "loading"
        /\ UNCHANGED <<main, toWin, toMain, shown>>
    BY <1>7 DEF Loaded, wires
  <2>2. Away'
    BY <1>1, <2>1 DEF Away
  <2> QED BY <1>1, <2>1, <2>2, ScreenStep
<1>8. CASE Reloads(w)
  <2>1. /\ shown' = [shown EXCEPT ![w] = NoRequest] /\ toWin' = [toWin EXCEPT ![w] = <<>>]
        /\ UNCHANGED <<main, toMain>>
        /\ \E to \in {"loading", "closed"} : window' = [window EXCEPT ![w] = to]
    BY <1>8 DEF Reloads
  <2>2. Away'
    BY <1>1, <2>1 DEF Away
  <2>3. window' \in [Windows -> {"closed", "loading", "ready"}]
    BY <1>1, <2>1
  <2>4. toMain' \in [Windows -> Seq(MainMessages)]
    BY <1>1, <2>1
  <2> QED BY <2>1, <2>2, <2>3, <2>4, ScreenStep
<1> QED BY <1>4, <1>5, <1>6, <1>7, <1>8

\* Every step of the service or of a window keeps the invariant.
LEMMA AskNextIInv == AskIInv /\ [AskNext]_askVars => AskIInv'
<1>1. ASSUME AskIInv, UNCHANGED askVars PROVE AskIInv'
  <2>1. AskTypeOK' /\ AckedOnce' /\ \A q \in Requests : Alive(q) => Alive(q)'
    BY <1>1 DEF AskIInv, askVars, AskTypeOK, AckedOnce, main, screen, Pending, Alive
  <2> QED BY <1>1, <2>1, SilentStep DEF AskIInv, Wires, askVars, wires
<1> QED BY <1>1, AsksStep, TimerStep, ReceivesStep, WindowStep DEF AskNext

\* A question is asked with its timer, which only an acknowledgement or its end
\* takes away.
LEMMA TimedStep == AskIInv /\ TimedOrAcked /\ [AskNext]_askVars => TimedOrAcked'
<1> SUFFICES ASSUME AskIInv, TimedOrAcked, [AskNext]_askVars PROVE TimedOrAcked'
  OBVIOUS
<1> USE DEF TimedOrAcked, Pending
<1>0. state \in [Requests -> Settled \cup {"new", "pending"}]
  BY DEF AskIInv, AskTypeOK
<1>1. ASSUME NEW r \in Requests, Asks(r) PROVE TimedOrAcked'
  BY <1>0, <1>1 DEF Asks
<1>2. ASSUME NEW r \in Requests, NEW how \in {"unacknowledged", "auto", "cancelled", "answered"}, Settles(r, how)
      PROVE  TimedOrAcked'
  BY <1>0, <1>2 DEF Settles
<1>3. ASSUME NEW r \in Requests, AckTimesOut(r) \/ AutoResolves(r) \/ Aborts(r) PROVE TimedOrAcked'
  BY <1>2, <1>3 DEF AckTimesOut, AutoResolves, Aborts
<1>4. ASSUME NEW w \in Windows, Receives(w) PROVE TimedOrAcked'
  <2>1. toMain[w] \in Seq(MainMessages) /\ toMain[w] # <<>>
    BY <1>4 DEF AskIInv, Wires, Receives
  <2>2. Head(toMain[w]) \in MainMessages
    BY <2>1
  <2>3. Head(toMain[w]).req \in Requests /\ Head(toMain[w]).what \in {"ack", "response"}
    BY <2>2 DEF MainMessages
  <2>4. CASE UNCHANGED main
    BY <2>4 DEF main
  <2>5. CASE Acknowledges(Head(toMain[w]).req)
    BY <2>5 DEF Acknowledges
  <2>6. CASE Responds(Head(toMain[w]).req)
    BY <2>3, <2>4, <2>6, <1>2 DEF Responds
  <2> QED BY <1>4, <2>3, <2>4, <2>5, <2>6 DEF Receives
<1>5. ASSUME NEW w \in Windows, Shows(w) \/ Misses(w) \/ Answers(w) \/ Loaded(w) \/ Reloads(w)
      PROVE  TimedOrAcked'
  BY <1>5 DEF Shows, Misses, Answers, Loaded, Reloads, main
<1>6. CASE UNCHANGED askVars
  BY <1>6 DEF askVars, main
<1> QED BY <1>1, <1>3, <1>4, <1>5, <1>6 DEF AskNext

\* The pending question of the thread, its timers and the dialogs agree
\* (UserInputInv).
THEOREM UserInputCorrect == AskSpec => []UserInputInv
<1>1. AskIInv /\ TimedOrAcked => UserInputInv
  <2> SUFFICES ASSUME AskIInv, TimedOrAcked PROVE UserInputInv
    OBVIOUS
  <2>1. AckStands
    BY DEF AskIInv, AckedOnce, AckStands
  <2>2. DialogIsLive
    <3> SUFFICES ASSUME NEW w \in Windows, shown[w] # NoRequest, toWin[w] = <<>>
                 PROVE  Alive(shown[w])
      BY DEF DialogIsLive, Alive
    <3>1. Len(<<>>) = 0 /\ 1 .. 0 = {}
      OBVIOUS
    <3>2. 1 .. Len(toWin[w]) = {}
      BY <3>1, Zenon
    <3> QED BY <3>2 DEF AskIInv, ShownInTime, Doomed
  <2> QED BY <2>1, <2>2 DEF AskIInv, UserInputInv
<1>2. AskInit => TimedOrAcked
  BY DEF AskInit, TimedOrAcked, Pending
<1> QED BY <1>1, <1>2, AskInitIInv, AskNextIInv, TimedStep, PTL DEF AskSpec

\* The promise of a request settles once, whatever timer, abort and answer come
\* after it (SettledOnce).
THEOREM SettlesOnce == AskSpec => SettledOnce
<1> DEFINE Once == \A r \in Requests : state[r] \in Settled => state'[r] = state[r]
<1>1. ASSUME AskIInv, [AskNext]_askVars PROVE Once
  <2>1. state \in [Requests -> Settled \cup {"new", "pending"}]
    BY <1>1 DEF AskIInv, AskTypeOK
  <2>2. ASSUME NEW r \in Requests, NEW how, state[r] \in {"new", "pending"}, state' = [state EXCEPT ![r] = how]
        PROVE  Once
    BY <2>1, <2>2 DEF Settled
  <2>3. ASSUME NEW r \in Requests, Asks(r) PROVE Once
    BY <2>2, <2>3 DEF Asks
  <2>4. ASSUME NEW r \in Requests, AckTimesOut(r) \/ AutoResolves(r) \/ Aborts(r) PROVE Once
    <3>1. Pending(r)
      BY <1>1, <2>4 DEF AckTimesOut, AutoResolves, Aborts, AskIInv, AskTypeOK
    <3> QED BY <2>2, <2>4, <3>1 DEF AckTimesOut, AutoResolves, Aborts, Settles, Pending
  <2>5. ASSUME NEW w \in Windows, Receives(w) PROVE Once
    <3>1. toMain[w] \in Seq(MainMessages) /\ toMain[w] # <<>>
      BY <1>1, <2>5 DEF AskIInv, Wires, Receives
    <3>2. Head(toMain[w]) \in MainMessages
      BY <3>1, HeadTailProperties
    <3>3. PICK r \in Requests : r = Head(toMain[w]).req
      BY <3>2 DEF MainMessages
    <3>4. UNCHANGED state \/ (Pending(r) /\ Settles(r, "answered"))
      BY <2>5, <3>2, <3>3 DEF Receives, Acknowledges, Responds, main, MainMessages
    <3> QED BY <2>2, <3>4 DEF Settles, Pending
  <2>6. ASSUME NEW w \in Windows, Shows(w) \/ Misses(w) \/ Answers(w) \/ Loaded(w) \/ Reloads(w) PROVE Once
    BY <2>6 DEF Shows, Misses, Answers, Loaded, Reloads, main
  <2>7. CASE UNCHANGED askVars
    BY <2>7 DEF askVars, main
  <2> QED BY <1>1, <2>3, <2>4, <2>5, <2>6, <2>7 DEF AskNext
<1>2. AskIInv /\ [AskNext]_askVars => [Once]_askVars
  BY <1>1
<1> QED BY <1>2, AskInitIInv, AskNextIInv, PTL DEF AskSpec, SettledOnce

\* An auto resolution that was armed is called off by nothing but the end of its
\* question (AutoKept).
THEOREM AutoStaysArmed == AskSpec => AutoKept
<1> DEFINE Kept == \A r \in autoTimer : r \in autoTimer' \/ state'[r] \in Settled
<1>1. ASSUME AskIInv, [AskNext]_askVars PROVE Kept
  <2>0. /\ state \in [Requests -> Settled \cup {"new", "pending"}]
        /\ autoTimer \subseteq Requests
    BY <1>1 DEF AskIInv, AskTypeOK
  <2>1. ASSUME NEW r \in Requests, Asks(r) PROVE Kept
    BY <2>1 DEF Asks
  <2>2. ASSUME NEW r \in Requests, NEW how \in {"unacknowledged", "auto", "cancelled", "answered"}, Settles(r, how)
        PROVE  Kept
    BY <2>0, <2>2 DEF Settles, Settled
  <2>3. ASSUME NEW r \in Requests, AckTimesOut(r) \/ AutoResolves(r) \/ Aborts(r) PROVE Kept
    BY <2>2, <2>3 DEF AckTimesOut, AutoResolves, Aborts
  <2>4. ASSUME NEW w \in Windows, Receives(w) PROVE Kept
    <3>1. toMain[w] \in Seq(MainMessages) /\ toMain[w] # <<>>
      BY <1>1, <2>4 DEF AskIInv, Wires, Receives
    <3>2. Head(toMain[w]) \in MainMessages
      BY <3>1
    <3>3. Head(toMain[w]).req \in Requests /\ Head(toMain[w]).what \in {"ack", "response"}
      BY <3>2 DEF MainMessages
    <3>4. CASE UNCHANGED main
      BY <3>4 DEF main
    <3>5. CASE Acknowledges(Head(toMain[w]).req)
      BY <3>5 DEF Acknowledges
    <3>6. CASE Responds(Head(toMain[w]).req)
      BY <3>3, <3>4, <3>6, <2>2 DEF Responds
    <3> QED BY <2>4, <3>3, <3>4, <3>5, <3>6 DEF Receives
  <2>5. ASSUME NEW w \in Windows, Shows(w) \/ Misses(w) \/ Answers(w) \/ Loaded(w) \/ Reloads(w)
        PROVE  Kept
    BY <2>5 DEF Shows, Misses, Answers, Loaded, Reloads, main
  <2>6. CASE UNCHANGED askVars
    BY <2>6 DEF askVars, main
  <2> QED BY <1>1, <2>1, <2>3, <2>4, <2>5, <2>6 DEF AskNext
<1>2. AskIInv /\ [AskNext]_askVars => [Kept]_askVars
  BY <1>1
<1> QED BY <1>2, AskInitIInv, AskNextIInv, PTL DEF AskSpec, AutoKept
==============================================================================
