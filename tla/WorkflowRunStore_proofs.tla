------------------------ MODULE WorkflowRunStore_proofs ------------------------
(***************************************************************************)
(* For any number of agent calls, launches, resumes and crashes: run.json   *)
(* never shows a call as finished that a resume could not replay, a flush   *)
(* that reported success left the run's final state on disk, a swept        *)
(* directory stays away, and a deletion that is only marked costs the       *)
(* surviving thread nothing.                                                *)
(*                                                                          *)
(* The invariant says which calls are safe: in the journal, in the log of   *)
(* every store that may still write, and in what such a store has frozen    *)
(* (Replayable).  It says that the store in charge owns the file until its  *)
(* final write has landed, and that a store whose registration is gone      *)
(* has left its final state behind (ToldOK): that makes the stale writer's  *)
(* silent success an honest one.                                            *)
(***************************************************************************)
EXTENDS WorkflowRunStore, TLAPS

\* The run of instance i is in charge, in one of these stages.
InStage(i, stages) == active # None /\ active.inst = i /\ active.stage \in stages
\* No deletion of the thread has committed.
Alive == deletion \in {"none", "marked"}

\* There is a store of instance i.
LiveAt(i) == i \in Insts /\ Live(i)

\* The types of the variables.
Types ==
  /\ dir \in BOOLEAN /\ runFile \in Image \cup {None} /\ journal \subseteq Calls
  /\ clock \in 0..MaxInst /\ owner \in Nat /\ epoch \in Nat
  /\ stores \in [Insts -> Store \cup {None}] /\ active \in InCharge \cup {None}
  /\ snapshot \in Snapshot \cup {None} /\ recovery \in Recovery \cup {None}
  /\ deletion \in {"none", "marked", "committed", "swept", "gone"}
  /\ idTomb \in BOOLEAN /\ dirTomb \in BOOLEAN

\* At most one final write is in a chain.
OneFinal(q) == \A j, k \in DOMAIN q : q[j] = "final" /\ q[k] = "final" => j = k

\* Each store by itself: what it has frozen is a former state of its journal,
\* and the present one when the version says so.
StoreOK(i, s) ==
  /\ i \in 1..clock /\ s.gen \in 1..clock /\ s.epoch = 0
  /\ s.written <= s.version /\ s.done \subseteq s.log
  /\ s.pc # "idle" => s.queue # <<>>
  /\ s.pc \in {"journal", "run"} <=> s.image # None
  /\ OneFinal(s.queue)
  /\ s.image # None =>
       /\ s.image.inst = i /\ s.image.version <= s.version /\ s.image.log \subseteq s.log
       /\ s.image.done \subseteq s.image.log
       /\ s.image.version = s.version => s.image.log = s.log

\* Every store is in order.
StoresOK == \A i \in Insts : Live(i) => StoreOK(i, stores[i])

\* A store that is not being run any more, or writes for the last time, freezes
\* its final state.
FreezesFinal(i, s) ==
  s.image # None /\ (~InStage(i, {"engine", "finalizing"}) \/ Head(s.queue) = "final")
    => s.image.status = "terminal" /\ s.image.done = s.done /\ s.image.log = s.log

\* The instance in charge is the newest; final writes are its own.
ChargeOK ==
  /\ active # None => active.inst = clock /\ LiveAt(clock)
  /\ owner <= clock
  /\ \A i \in Insts : Live(i) =>
       /\ FinalDue(stores[i]) => InStage(i, {"finalizing", "flush", "retry"})
       /\ ~InStage(i, {"engine"}) => stores[i].status = "terminal"
       /\ FreezesFinal(i, stores[i])

\* A snapshot, or a write-back of one, shows a store that has settled.
ViewsOK ==
  /\ snapshot # None =>
       /\ active = None /\ LiveAt(clock) /\ snapshot.inst = clock
       /\ snapshot.done = stores[clock].done /\ snapshot.log = stores[clock].log
  /\ recovery # None =>
       /\ LiveAt(recovery.inst) /\ (active # None => recovery.inst # active.inst)
       /\ recovery.done = stores[recovery.inst].done /\ recovery.log = stores[recovery.inst].log

\* The tombstones follow the deletion.
DeletionOK ==
  /\ dirTomb <=> deletion = "swept"
  /\ epoch = IF deletion = "committed" THEN 1 ELSE IF deletion = "swept" THEN 2 ELSE 0
  /\ Alive => /\ (snapshot # None => snapshot.epoch = 0)
              /\ (recovery # None => recovery.epoch = 0)

\* There are no files without the directory, and a directory that came back
\* after the sweep has a writer that will remove it.
FilesOK ==
  /\ runFile # None => dir /\ runFile.inst <= clock
  /\ journal # {} => dir
  /\ deletion = "swept" /\ dir => \/ recovery # None /\ recovery.pc = "check"
                                  \/ \E i \in Insts : Live(i) /\ stores[i].pc = "check"

\* The calls are in the journal, and no later writer of it will leave them out.
Replayable(i, calls) ==
  \/ i \in dropped \cup overrun
  \/ /\ calls \subseteq journal
     /\ \A k \in Insts : k >= i /\ Live(k) =>
          /\ calls \subseteq stores[k].log
          /\ stores[k].image # None => calls \subseteq stores[k].image.log

\* What run.json shows, or is about to show, can be replayed.
JournalOK == Alive =>
  /\ runFile # None => Replayable(runFile.inst, runFile.done)
  /\ \A i \in Insts : Live(i) =>
       /\ stores[i].pc = "run" => Replayable(i, stores[i].image.done)
       /\ stores[i].version = stores[i].written => Replayable(i, stores[i].log)
  /\ recovery # None /\ recovery.pc = "run" => Replayable(recovery.inst, recovery.done)

\* run.json holds the final state of instance i, with these calls.
Holds(i, calls) ==
  \/ i \in overrun
  \/ /\ runFile # None /\ runFile.inst = i
     /\ runFile.status = "terminal" /\ runFile.done = calls

\* The newest store owns the file until its final state is on disk; what was
\* told of it is that state.
ToldOK ==
  /\ \A t \in told :
       /\ t.inst \in 1..clock
       /\ Alive /\ t.inst = clock => Holds(t.inst, t.done)
       /\ LiveAt(t.inst) =>
            /\ t.done = stores[t.inst].done /\ ~InStage(t.inst, {"engine"})
            /\ t.inst = clock => owner # stores[t.inst].gen
  /\ LiveAt(clock) =>
       /\ stores[clock].pc \in {"journal", "run"} => owner = stores[clock].gen
       /\ Alive /\ owner # stores[clock].gen => Holds(clock, stores[clock].done)
       /\ InStage(clock, {"engine"}) => owner = stores[clock].gen

\* The inductive invariant.
IInv == Types /\ StoresOK /\ ChargeOK /\ ViewsOK /\ DeletionOK /\ FilesOK /\ JournalOK /\ ToldOK

USE StoreAssumption

-----------------------------------------------------------------------------
\* A chain of writes, and one that a flush awaits.
Write == {"save", "final"}
Due(q) == \E k \in DOMAIN q : q[k] = "final"

\* A write that joins the chain.
LEMMA ChainGrows ==
  ASSUME NEW q \in Seq(Write), NEW w \in Write
  PROVE  /\ Append(q, w) \in Seq(Write) /\ Append(q, w) # <<>>
         /\ q # <<>> => Head(Append(q, w)) = Head(q)
         /\ w = "save" => (Due(Append(q, w)) <=> Due(q)) /\ (OneFinal(q) => OneFinal(Append(q, w)))
         /\ w = "final" /\ ~Due(q) => OneFinal(Append(q, w))
<1> DEFINE a == Append(q, w)
<1>1. /\ a \in Seq(Write) /\ a # <<>> /\ (q # <<>> => Head(a) = Head(q))
      /\ DOMAIN a = 1..Len(q) + 1 /\ DOMAIN q = 1..Len(q) /\ Len(q) \in Nat
      /\ a[Len(q) + 1] = w /\ \A k \in 1..Len(q) : a[k] = q[k]
  <2>1. /\ a \in Seq(Write) /\ DOMAIN q = 1..Len(q) /\ Len(q) \in Nat /\ Len(a) = Len(q) + 1
        /\ a[Len(q) + 1] = w /\ \A k \in 1..Len(q) : a[k] = q[k]
    OBVIOUS
  <2> HIDE DEF a
  <2>2. DOMAIN a = 1..Len(q) + 1 /\ a # <<>>
    BY <2>1
  <2>3. q # <<>> => Head(a) = Head(q)
    <3> SUFFICES ASSUME q # <<>> PROVE Head(a) = Head(q)
      OBVIOUS
    <3>1. 1 \in 1..Len(q) /\ Head(q) = q[1]
      BY <2>1
    <3>2. Head(a) = a[1]
      BY <2>1, <2>2
    <3> QED BY <2>1, <3>1, <3>2
  <2> QED BY <2>1, <2>2, <2>3
<1> HIDE DEF a
<1>2. \A k : k \in DOMAIN a <=> k \in DOMAIN q \/ k = Len(q) + 1
  BY <1>1
<1>3. ASSUME w = "save" PROVE (Due(a) <=> Due(q)) /\ (OneFinal(q) => OneFinal(a))
  BY <1>1, <1>2, <1>3 DEF Due, OneFinal
<1>4. ASSUME ~Due(q) PROVE OneFinal(a)
  BY <1>1, <1>2, <1>4 DEF Due, OneFinal
<1> QED BY <1>1, <1>3, <1>4 DEF a

\* The write at the head of the chain is over.
LEMMA ChainShrinks ==
  ASSUME NEW q \in Seq(Write), q # <<>>
  PROVE  /\ Tail(q) \in Seq(Write) /\ Head(q) \in Write
         /\ Due(Tail(q)) => Due(q)
         /\ Head(q) = "final" => Due(q)
         /\ OneFinal(q) => OneFinal(Tail(q))
         /\ OneFinal(q) /\ Head(q) = "final" => ~Due(Tail(q))
<1> DEFINE t == Tail(q)
<1>1. /\ t \in Seq(Write) /\ Head(q) \in Write /\ Head(q) = q[1] /\ 1 \in DOMAIN q
      /\ \A k \in DOMAIN t : k + 1 \in DOMAIN q /\ t[k] = q[k + 1] /\ k + 1 # 1 /\ k \in Nat
  OBVIOUS
<1> HIDE DEF t
<1>2. OneFinal(q) => OneFinal(t)
  <2> SUFFICES ASSUME OneFinal(q), NEW j \in DOMAIN t, NEW k \in DOMAIN t, t[j] = "final", t[k] = "final"
               PROVE  j = k
    BY DEF OneFinal
  <2>1. j + 1 = k + 1 /\ j \in Nat /\ k \in Nat
    BY <1>1 DEF OneFinal
  <2> QED BY <2>1
<1>3. Due(t) => Due(q)
  BY <1>1 DEF Due
<1>4. OneFinal(q) /\ Head(q) = "final" => ~Due(t)
  BY <1>1 DEF Due, OneFinal
<1> QED BY <1>1, <1>2, <1>3, <1>4 DEF t, Due

\* None is no record of any kind.
LEMMA NoneApart ==
  /\ \A x \in Image : x # None
  /\ \A x \in Frozen : x # None
  /\ \A x \in Store : x # None
  /\ \A x \in Snapshot : x # None
  /\ \A x \in Recovery : x # None
  /\ \A x \in InCharge : x # None
BY StoreAssumption

\* A live store has the types of its fields.
LEMMA StoreTypes ==
  ASSUME NEW s \in Store
  PROVE  /\ s.gen \in Insts /\ s.epoch \in Nat /\ s.status \in Status /\ s.done \subseteq Calls
         /\ s.log \subseteq Calls /\ s.version \in Nat /\ s.written \in Int
         /\ s.dirty \in BOOLEAN /\ s.timer \in BOOLEAN /\ s.late \in BOOLEAN
         /\ s.queue \in Seq(Write) /\ s.pc \in {"idle", "mkdir", "check", "journal", "run"}
         /\ s.image \in Frozen \cup {None}
BY DEF Store, Write

\* A store that is there is a store record.
LEMMA LiveStores == ASSUME Types PROVE \A i \in Insts : Live(i) <=> stores[i] \in Store
BY NoneApart DEF Types, Live

\* t is s after an update of its throttle or its chain: nothing that a write has
\* frozen, or will freeze of the journal, is different.
Kept(s, t) ==
  /\ t \in Store /\ t.gen = s.gen /\ t.epoch = s.epoch /\ t.done = s.done /\ t.log = s.log
  /\ t.version = s.version /\ t.written = s.written /\ t.pc = s.pc /\ t.image = s.image

\* Saving queues a write, or leaves it to the timer.
LEMMA SavedKeeps ==
  ASSUME NEW s \in Store, NEW t \in Saved(s)
  PROVE  /\ Kept(s, t) /\ t.status = s.status
         /\ t.queue = s.queue \/ t.queue = Append(s.queue, "save")
<1>1. s.queue \in Seq(Write)
  BY StoreTypes
<1>2. Append(s.queue, "save") \in Seq(Write)
  BY <1>1, ChainGrows DEF Write
<1>3. CASE s.timer
  <2>1. t = [s EXCEPT !.dirty = TRUE]
    BY <1>3 DEF Saved
  <2> QED BY <1>1, <2>1 DEF Kept, Store, Write
<1>4. CASE ~s.timer
  <2>1. CASE t = [s EXCEPT !.dirty = TRUE, !.timer = TRUE]
    BY <1>1, <2>1 DEF Kept, Store, Write
  <2>2. CASE t = Enqueue([s EXCEPT !.dirty = TRUE], "save")
    <3> DEFINE u == [s EXCEPT !.dirty = TRUE]
    <3>1. u \in Store /\ Kept(s, u) /\ u.queue = s.queue /\ u.status = s.status
      BY DEF Kept, Store
    <3>2. t = [u EXCEPT !.queue = Append(s.queue, "save")]
      BY <2>2, <3>1 DEF Enqueue
    <3> HIDE DEF u
    <3>3. Kept(u, t) /\ t.queue = Append(s.queue, "save") /\ t.status = u.status
      BY <1>2, <3>1, <3>2 DEF Kept, Store, Write
    <3> QED BY <3>1, <3>3 DEF Kept
  <2> QED BY <1>4, <2>1, <2>2 DEF Saved
<1> QED BY <1>3, <1>4

\* A flush queues the final write.
LEMMA FlushedKeeps ==
  ASSUME NEW s \in Store
  PROVE  Kept(s, Flushed(s)) /\ Flushed(s).status = s.status /\ Flushed(s).queue = Append(s.queue, "final")
<1>1. s.queue \in Seq(Write)
  BY StoreTypes
<1>2. Append(s.queue, "final") \in Seq(Write)
  BY <1>1, ChainGrows DEF Write
<1> QED BY <1>1, <1>2 DEF Flushed, Enqueue, Kept, Store, Write

\* The present store of every instance after one of them was updated.
LEMMA OneStore ==
  ASSUME Types, NEW i \in Insts, Live(i), NEW t \in Store, stores' = [stores EXCEPT ![i] = t]
  PROVE  /\ stores' \in [Insts -> Store \cup {None}] /\ stores'[i] = t
         /\ \A k \in Insts : k # i => stores'[k] = stores[k]
         /\ \A k \in Insts : Live(k)' <=> Live(k)
         /\ \A k : LiveAt(k)' <=> LiveAt(k)
<1>1. /\ stores' \in [Insts -> Store \cup {None}] /\ stores'[i] = t
      /\ \A k \in Insts : k # i => stores'[k] = stores[k]
  BY DEF Types
<1>2. t # None
  BY NoneApart
<1> QED BY <1>1, <1>2 DEF Live, LiveAt

-----------------------------------------------------------------------------
\* At the start there are neither files nor stores.
LEMMA InitIInv == Init => IInv
<1> SUFFICES ASSUME Init PROVE IInv
  OBVIOUS
<1>1. \A i \in Insts : ~Live(i)
  BY DEF Init, Live
<1>2. Types
  <2>1. dir \in BOOLEAN /\ idTomb \in BOOLEAN /\ dirTomb \in BOOLEAN
    BY DEF Init
  <2>2. clock \in 0..MaxInst /\ owner \in Nat /\ epoch \in Nat
    BY DEF Init
  <2>3. stores \in [Insts -> Store \cup {None}]
    BY DEF Init
  <2> QED BY <2>1, <2>2, <2>3 DEF Init, Types
<1> QED BY <1>1, <1>2 DEF Init, IInv, StoresOK, ChargeOK, ViewsOK, DeletionOK, FilesOK, JournalOK,
                          ToldOK, LiveAt, Alive

\* The run in charge stays so, or moves on in its settle block.
MovesOn ==
  \/ active' = active
  \/ active # None /\ active' \in InCharge /\ active'.inst = active.inst /\ active'.stage # "engine"

\* Moving on is never a return to the engine.
LEMMA MovesOnStages ==
  ASSUME Types, MovesOn
  PROVE  /\ active' \in InCharge \cup {None}
         /\ active' # None <=> active # None
         /\ active # None => active'.inst = active.inst
         /\ \A i : InStage(i, {"engine"})' => InStage(i, {"engine"})
         /\ \A i, S : active.inst # i => ~InStage(i, S) /\ ~InStage(i, S)'
BY NoneApart DEF MovesOn, Types, InStage

\* An update of one store's throttle or chain: the files, the views and what was
\* told are as before.
LEMMA BookKeeps ==
  ASSUME IInv, NEW i \in Insts, Live(i), NEW t, Kept(stores[i], t),
         stores' = [stores EXCEPT ![i] = t], MovesOn,
         UNCHANGED <<files, clock, owner, snapshot, recovery, tombs, hist>>
  PROVE  Types' /\ ViewsOK' /\ DeletionOK' /\ FilesOK' /\ JournalOK' /\ ToldOK'
<1>1. /\ t \in Store /\ t.gen = stores[i].gen /\ t.done = stores[i].done /\ t.log = stores[i].log
      /\ t.version = stores[i].version /\ t.written = stores[i].written
      /\ t.pc = stores[i].pc /\ t.image = stores[i].image
  BY DEF Kept
<1>2. Types
  BY DEF IInv
<1>3. /\ stores' \in [Insts -> Store \cup {None}] /\ stores'[i] = t
      /\ \A k \in Insts : k # i => stores'[k] = stores[k]
      /\ \A k \in Insts : Live(k)' <=> Live(k)
      /\ \A k : LiveAt(k)' <=> LiveAt(k)
  BY <1>1, <1>2, OneStore
<1>4. \A k \in Insts : Live(k) =>
        /\ stores'[k].gen = stores[k].gen /\ stores'[k].done = stores[k].done
        /\ stores'[k].log = stores[k].log /\ stores'[k].version = stores[k].version
        /\ stores'[k].written = stores[k].written /\ stores'[k].pc = stores[k].pc
        /\ stores'[k].image = stores[k].image
  BY <1>1, <1>3
<1>5. /\ UNCHANGED <<dir, runFile, journal, idTomb, dirTomb, epoch, deletion, dropped, told, overrun>>
      /\ UNCHANGED <<clock, owner, snapshot, recovery>>
  BY DEF files, tombs, hist
<1>6. /\ active' \in InCharge \cup {None}
      /\ active' # None <=> active # None
      /\ active # None => active'.inst = active.inst
      /\ \A k : InStage(k, {"engine"})' => InStage(k, {"engine"})
  BY <1>2, MovesOnStages
<1>7. Types'
  BY <1>2, <1>3, <1>5, <1>6 DEF Types
<1>8. ViewsOK'
  BY <1>3, <1>4, <1>5, <1>6 DEF IInv, ViewsOK, LiveAt
<1>9. DeletionOK' /\ FilesOK'
  BY <1>3, <1>4, <1>5 DEF IInv, DeletionOK, FilesOK, Alive
<1>10. \A k, calls : Replayable(k, calls)' <=> Replayable(k, calls)
  BY <1>3, <1>4, <1>5 DEF Replayable
<1>11. JournalOK'
  BY <1>3, <1>4, <1>5, <1>10 DEF IInv, JournalOK, Alive
<1>12. ToldOK'
  <2>1. \A k, calls : Holds(k, calls)' <=> Holds(k, calls)
    BY <1>5 DEF Holds
  <2> QED BY <1>3, <1>4, <1>5, <1>6, <2>1 DEF IInv, ToldOK, Alive, LiveAt
<1> QED BY <1>7, <1>8, <1>9, <1>11, <1>12

\* A store that a step leaves alone, in a run that stays where it is.
LEMMA OtherCharge ==
  ASSUME IInv, NEW k \in Insts, Live(k), stores'[k] = stores[k],
         \A S : InStage(k, S)' <=> InStage(k, S)
  PROVE  /\ FinalDue(stores[k])' => InStage(k, {"finalizing", "flush", "retry"})'
         /\ ~InStage(k, {"engine"})' => stores'[k].status = "terminal"
         /\ FreezesFinal(k, stores[k])'
<1>1. FinalDue(stores[k])' <=> FinalDue(stores[k])
  BY DEF FinalDue
<1>2. FreezesFinal(k, stores[k])' <=> FreezesFinal(k, stores[k])
  BY DEF FreezesFinal
<1> QED BY <1>1, <1>2 DEF IInv, ChargeOK

\* Such an update keeps the invariant if the new chain is in order.
LEMMA BookDone ==
  ASSUME IInv, NEW i \in Insts, Live(i), NEW t, Kept(stores[i], t),
         stores' = [stores EXCEPT ![i] = t], MovesOn,
         UNCHANGED <<files, clock, owner, snapshot, recovery, tombs, hist>>,
         active' # active => active.inst = i,
         OneFinal(t.queue), t.pc # "idle" => t.queue # <<>>,
         FinalDue(t) => InStage(i, {"finalizing", "flush", "retry"})',
         InStage(i, {"engine"})' \/ t.status = "terminal",
         FreezesFinal(i, t)'
  PROVE  IInv'
<1>1. Types' /\ ViewsOK' /\ DeletionOK' /\ FilesOK' /\ JournalOK' /\ ToldOK'
  BY BookKeeps
<1>2. /\ stores'[i] = t
      /\ \A k \in Insts : k # i => stores'[k] = stores[k]
      /\ \A k \in Insts : Live(k)' <=> Live(k)
      /\ \A k : LiveAt(k)' <=> LiveAt(k)
  BY OneStore DEF IInv, Kept
<1>3. StoresOK'
  <2>1. ASSUME NEW k \in Insts, Live(k), k # i PROVE StoreOK(k, stores[k])'
    BY <1>2, <2>1 DEF IInv, StoresOK, StoreOK
  <2>2. StoreOK(i, stores[i])'
    BY <1>2 DEF IInv, StoresOK, StoreOK, Kept
  <2> QED BY <1>2, <2>1, <2>2 DEF StoresOK
<1>4. ChargeOK'
  <2>1. active' # None => active'.inst = clock' /\ LiveAt(clock)'
    BY <1>2, MovesOnStages DEF IInv, ChargeOK
  <2>2. owner' <= clock'
    BY DEF IInv, ChargeOK
  <2>3. ASSUME NEW k \in Insts, Live(k), k # i
        PROVE  /\ FinalDue(stores[k])' => InStage(k, {"finalizing", "flush", "retry"})'
               /\ ~InStage(k, {"engine"})' => stores'[k].status = "terminal"
               /\ FreezesFinal(k, stores[k])'
    <3>1. \A S : InStage(k, S)' <=> InStage(k, S)
      <4>1. CASE active' = active
        BY <4>1 DEF InStage
      <4>2. CASE active' # active
        BY <2>3, <4>2, MovesOnStages DEF IInv
      <4> QED BY <4>1, <4>2
    <3> QED BY <1>2, <2>3, <3>1, OtherCharge
  <2>4. /\ FinalDue(stores[i])' => InStage(i, {"finalizing", "flush", "retry"})'
        /\ ~InStage(i, {"engine"})' => stores'[i].status = "terminal"
        /\ FreezesFinal(i, stores[i])'
    BY <1>2 DEF FinalDue, FreezesFinal
  <2> QED BY <1>2, <2>1, <2>2, <2>3, <2>4 DEF ChargeOK
<1> QED BY <1>1, <1>3, <1>4 DEF IInv

\* What is known of a live store.
LEMMA LiveStore ==
  ASSUME IInv, NEW i \in Insts, Live(i)
  PROVE  /\ stores[i] \in Store /\ StoreOK(i, stores[i])
         /\ FinalDue(stores[i]) => InStage(i, {"finalizing", "flush", "retry"})
         /\ ~InStage(i, {"engine"}) => stores[i].status = "terminal"
         /\ FreezesFinal(i, stores[i])
BY LiveStores DEF IInv, StoresOK, ChargeOK

\* What is known of the store in charge.
LEMMA InChargeStore ==
  ASSUME IInv, active # None
  PROVE  active \in InCharge /\ active.inst = clock /\ clock \in Insts /\ Live(clock)
BY DEF IInv, Types, ChargeOK, LiveAt

\* A save: the chain is longer by a save at most.
LEMMA SaveQueued ==
  ASSUME NEW s \in Store, NEW t, t.queue = s.queue \/ t.queue = Append(s.queue, "save"),
         OneFinal(s.queue), s.pc # "idle" => s.queue # <<>>
  PROVE  /\ OneFinal(t.queue) /\ (FinalDue(t) <=> FinalDue(s))
         /\ s.pc # "idle" => t.queue # <<>> /\ Head(t.queue) = Head(s.queue)
<1>1. s.queue \in Seq(Write) /\ "save" \in Write
  BY StoreTypes DEF Write
<1>2. /\ Due(Append(s.queue, "save")) <=> Due(s.queue)
      /\ OneFinal(Append(s.queue, "save")) /\ Append(s.queue, "save") # <<>>
      /\ s.queue # <<>> => Head(Append(s.queue, "save")) = Head(s.queue)
  BY <1>1, ChainGrows
<1> QED BY <1>2 DEF Due, FinalDue

\* A timer fires.
LEMMA TimerKeeps == ASSUME IInv, NEW i \in Insts, TimerFires(i) PROVE IInv'
<1> DEFINE u == [stores[i] EXCEPT !.timer = FALSE]
           s == stores[i]
<1> PICK t : t = IF u.dirty THEN Enqueue(u, "save") ELSE u
  OBVIOUS
<1>1. /\ Live(i) /\ stores' = [stores EXCEPT ![i] = t] /\ active' = active
      /\ UNCHANGED <<files, clock, owner, snapshot, recovery, tombs, hist>>
  BY DEF TimerFires, Live
<1>2. /\ s \in Store /\ StoreOK(i, s)
      /\ FinalDue(s) => InStage(i, {"finalizing", "flush", "retry"})
      /\ ~InStage(i, {"engine"}) => s.status = "terminal"
      /\ FreezesFinal(i, s)
  BY <1>1, LiveStore
<1>3. u \in Store /\ Kept(s, u) /\ u.status = s.status /\ u.queue = s.queue
  BY <1>2 DEF Store, Kept
<1>4. Kept(s, t) /\ t.status = s.status /\ (t.queue = s.queue \/ t.queue = Append(s.queue, "save"))
  <2> HIDE DEF u, s
  <2>1. "save" \in Write /\ Append(u.queue, "save") \in Seq(Write)
    BY <1>3, StoreTypes, ChainGrows DEF Write
  <2>2. /\ Kept(u, Enqueue(u, "save")) /\ Enqueue(u, "save").status = u.status
        /\ Enqueue(u, "save").queue = Append(u.queue, "save")
    BY <1>3, <2>1 DEF Enqueue, Store, Kept, Write
  <2>3. CASE u.dirty
    <3>1. t = Enqueue(u, "save")
      BY <2>3
    <3> QED BY <1>3, <2>2, <3>1 DEF Kept
  <2>4. CASE ~u.dirty
    <3>1. t = u
      BY <2>4
    <3> QED BY <1>3, <3>1
  <2> QED BY <2>3, <2>4
<1> HIDE DEF u, s
<1>5. /\ OneFinal(t.queue) /\ (FinalDue(t) <=> FinalDue(s))
      /\ s.pc # "idle" => t.queue # <<>> /\ Head(t.queue) = Head(s.queue)
  BY <1>2, <1>4, SaveQueued DEF StoreOK
<1>6. /\ s.pc = t.pc /\ s.image = t.image /\ s.done = t.done /\ s.log = t.log
      /\ s.image # None => s.pc # "idle"
  BY <1>2, <1>4 DEF Kept, StoreOK
<1>7. FreezesFinal(i, t)'
  BY <1>1, <1>2, <1>5, <1>6 DEF FreezesFinal, InStage
<1>8. /\ FinalDue(t) => InStage(i, {"finalizing", "flush", "retry"})'
      /\ InStage(i, {"engine"})' \/ t.status = "terminal"
  BY <1>1, <1>2, <1>4, <1>5 DEF InStage
<1> QED BY <1>1, <1>4, <1>5, <1>6, <1>7, <1>8, BookDone DEF MovesOn, s

\* A continuation that nobody awaited updates the run.
LEMMA LateKeeps == ASSUME IInv, NEW i \in Insts, LateUpdate(i) PROVE IInv'
<1> DEFINE s == stores[i]
           u == [stores[i] EXCEPT !.late = TRUE]
<1>1. /\ Live(i) /\ s.status = "terminal" /\ active' = active
      /\ UNCHANGED <<files, clock, owner, snapshot, recovery, tombs, hist>>
  BY DEF LateUpdate, Live
<1>2. PICK t \in Saved(u) : stores' = [stores EXCEPT ![i] = t]
  BY DEF LateUpdate
<1>3. /\ s \in Store /\ StoreOK(i, s)
      /\ FinalDue(s) => InStage(i, {"finalizing", "flush", "retry"})
      /\ FreezesFinal(i, s)
  BY <1>1, LiveStore
<1>4. u \in Store /\ Kept(s, u) /\ u.status = s.status /\ u.queue = s.queue
  BY <1>3 DEF Store, Kept
<1>5. Kept(s, t) /\ t.status = s.status /\ (t.queue = s.queue \/ t.queue = Append(s.queue, "save"))
  <2> HIDE DEF u, s
  <2> QED BY <1>4, SavedKeeps DEF Kept
<1> HIDE DEF u, s
<1>6. /\ OneFinal(t.queue) /\ (FinalDue(t) <=> FinalDue(s))
      /\ s.pc # "idle" => t.queue # <<>> /\ Head(t.queue) = Head(s.queue)
  BY <1>3, <1>5, SaveQueued DEF StoreOK
<1>7. /\ s.pc = t.pc /\ s.image = t.image /\ s.done = t.done /\ s.log = t.log
      /\ s.image # None => s.pc # "idle"
  BY <1>3, <1>5 DEF Kept, StoreOK
<1>8. FreezesFinal(i, t)'
  BY <1>1, <1>3, <1>6, <1>7 DEF FreezesFinal, InStage
<1>9. /\ FinalDue(t) => InStage(i, {"finalizing", "flush", "retry"})'
      /\ t.status = "terminal"
  BY <1>1, <1>3, <1>5, <1>6 DEF InStage
<1> QED BY <1>1, <1>2, <1>5, <1>6, <1>7, <1>8, <1>9, BookDone DEF MovesOn, s

\* A final write joins the chain of the store in charge, which has none.
LEMMA FlushKeeps ==
  ASSUME IInv, active # None, ~FinalDue(stores[clock]),
         NEW v, Kept(stores[clock], v), v.status = "terminal",
         v.queue = stores[clock].queue \/ v.queue = Append(stores[clock].queue, "save"),
         NEW st \in {"finalizing", "flush", "retry"},
         st = "finalizing" \/ ~InStage(clock, {"engine", "finalizing"}),
         stores' = [stores EXCEPT ![clock] = Flushed(v)],
         active' = [active EXCEPT !.stage = st],
         UNCHANGED <<files, clock, owner, snapshot, recovery, tombs, hist>>
  PROVE  IInv'
<1> DEFINE s == stores[clock]
<1>1. active \in InCharge /\ active.inst = clock /\ clock \in Insts /\ Live(clock)
  BY InChargeStore
<1>2. s \in Store /\ StoreOK(clock, s) /\ FreezesFinal(clock, s)
  BY <1>1, LiveStore
<1>3. PICK t : t = Flushed(v)
  OBVIOUS
<1>4. /\ Kept(v, t) /\ t.status = "terminal" /\ t.queue = Append(v.queue, "final") /\ v \in Store
  BY <1>3, FlushedKeeps DEF Kept
<1>5. Kept(s, t)
  BY <1>4 DEF Kept
<1>6. /\ OneFinal(v.queue) /\ ~Due(v.queue) /\ ~Due(s.queue)
      /\ s.pc # "idle" => v.queue # <<>> /\ Head(v.queue) = Head(s.queue)
  BY <1>2, SaveQueued DEF StoreOK, Due, FinalDue
<1>7. /\ OneFinal(t.queue) /\ t.queue # <<>>
      /\ s.pc # "idle" => Head(t.queue) = Head(s.queue) /\ Head(s.queue) # "final"
  <2>1. v.queue \in Seq(Write) /\ s.queue \in Seq(Write) /\ "final" \in Write
    BY <1>2, <1>4, StoreTypes DEF Write
  <2>2. s.pc # "idle" => Head(s.queue) # "final"
    BY <1>2, <1>6, <2>1, ChainShrinks DEF StoreOK
  <2> QED BY <1>4, <1>6, <2>1, <2>2, ChainGrows
<1>8. active' \in InCharge /\ active'.inst = active.inst /\ active'.stage = st /\ active' # None
  BY <1>1, NoneApart DEF InCharge
<1>9. MovesOn
  BY <1>8 DEF MovesOn
<1>10. /\ s.pc = t.pc /\ s.image = t.image /\ s.done = t.done /\ s.log = t.log
       /\ s.image # None => s.pc # "idle"
  BY <1>2, <1>5 DEF Kept, StoreOK
<1>11. FreezesFinal(clock, t)'
  <2> SUFFICES ASSUME t.image # None, ~InStage(clock, {"engine", "finalizing"})' \/ Head(t.queue) = "final"
               PROVE  t.image.status = "terminal" /\ t.image.done = t.done /\ t.image.log = t.log
    BY <1>3 DEF FreezesFinal
  <2>1. Head(t.queue) # "final"
    BY <1>7, <1>10
  <2>2. st # "finalizing"
    BY <1>1, <1>8, <2>1 DEF InStage
  <2> QED BY <1>2, <1>10, <2>2 DEF FreezesFinal
<1>12. InStage(clock, {"finalizing", "flush", "retry"})'
  BY <1>1, <1>8 DEF InStage
<1>13. clock' = clock /\ stores' = [stores EXCEPT ![clock] = t]
  BY <1>3
<1>14. PICK i : i = clock
  OBVIOUS
<1>15. InStage(i, {"finalizing", "flush", "retry"})' /\ FreezesFinal(i, t)'
  BY <1>11, <1>12, <1>13, <1>14 DEF InStage, FreezesFinal
<1> QED BY <1>1, <1>4, <1>5, <1>7, <1>9, <1>10, <1>13, <1>14, <1>15, BookDone

\* The engine finalizes.
LEMMA FinalizeKeeps == ASSUME IInv, Finalize PROVE IInv'
<1> DEFINE s == stores[clock]
           u == [s EXCEPT !.status = "terminal"]
<1>1. active # None /\ active.stage = "engine" /\ active.inst = clock
  BY InChargeStore DEF Finalize, Running
<1>2. PICK v \in Saved(u) : stores' = [stores EXCEPT ![clock] = Flushed(v)]
  BY <1>1 DEF Finalize
<1>3. /\ active' = [active EXCEPT !.stage = "finalizing"]
      /\ UNCHANGED <<files, clock, owner, snapshot, recovery, tombs, hist>>
  BY DEF Finalize
<1>4. s \in Store /\ ~FinalDue(s)
  BY <1>1, InChargeStore, LiveStore DEF InStage
<1>5. u \in Store /\ Kept(s, u) /\ u.status = "terminal" /\ u.queue = s.queue
  BY <1>4 DEF Store, Kept, Status
<1>6. Kept(s, v) /\ v.status = "terminal" /\ (v.queue = s.queue \/ v.queue = Append(s.queue, "save"))
  <2> HIDE DEF u, s
  <2> QED BY <1>5, SavedKeeps DEF Kept
<1> QED BY <1>1, <1>2, <1>3, <1>4, <1>6, FlushKeeps

\* The settle block reclaims the worktrees and flushes.
LEMMA ReclaimKeeps == ASSUME IInv, NEW b \in BOOLEAN, Reclaim(b) PROVE IInv'
<1> DEFINE s == stores[clock]
<1>1. active # None /\ active.stage = "reclaim" /\ active.inst = clock
  BY InChargeStore DEF Reclaim, Running
<1>2. PICK v : /\ v = s \/ v \in Saved(s)
               /\ stores' = [stores EXCEPT ![clock] = Flushed(v)]
  BY <1>1 DEF Reclaim
<1>3. /\ active' = [active EXCEPT !.stage = "flush"]
      /\ UNCHANGED <<files, clock, owner, snapshot, recovery, tombs, hist>>
  BY DEF Reclaim
<1>4. s \in Store /\ ~FinalDue(s) /\ s.status = "terminal" /\ ~InStage(clock, {"engine", "finalizing"})
  BY <1>1, InChargeStore, LiveStore DEF InStage
<1>5. Kept(s, v) /\ v.status = "terminal" /\ (v.queue = s.queue \/ v.queue = Append(s.queue, "save"))
  BY <1>2, <1>4, SavedKeeps DEF Kept
<1> QED BY <1>1, <1>2, <1>3, <1>4, <1>5, FlushKeeps

\* The settle block after its flush.
LEMMA SettleKeeps == ASSUME IInv, NEW cancelled \in BOOLEAN, Settle(cancelled) PROVE IInv'
<1> DEFINE s == stores[clock]
<1>1. /\ active # None /\ active.inst = clock /\ active \in InCharge /\ clock \in Insts /\ Live(clock)
      /\ UNCHANGED <<files, clock, owner, recovery, tombs, hist>>
  BY InChargeStore DEF Settle
<1>2. CASE active.stage = "again"
  <2>1. /\ stores' = [stores EXCEPT ![clock] = Flushed(s)]
        /\ active' = [active EXCEPT !.stage = "retry"] /\ UNCHANGED snapshot
    BY <1>1, <1>2 DEF Settle
  <2>2. s \in Store /\ ~FinalDue(s) /\ s.status = "terminal" /\ ~InStage(clock, {"engine", "finalizing"})
    BY <1>1, <1>2, LiveStore DEF InStage
  <2>3. Kept(s, s)
    BY <2>2 DEF Kept
  <2> QED BY <1>1, <2>1, <2>2, <2>3, FlushKeeps
<1>3. CASE active.stage \in {"persisted", "failed"}
  <2>1. /\ active' = None /\ UNCHANGED stores
        /\ \/ snapshot' = snapshot
           \/ snapshot' = [inst |-> clock, epoch |-> epoch, done |-> s.done, log |-> s.log]
    BY <1>1, <1>3 DEF Settle
  <2>2. s \in Store /\ StoreOK(clock, s)
    BY <1>1, LiveStore
  <2>3. \A i \in Insts : Live(i) => ~FinalDue(stores[i]) /\ stores[i].status = "terminal"
                                    /\ ~InStage(i, {"engine", "finalizing"})
    BY <1>1, <1>3, LiveStore DEF InStage
  <2>4. /\ LiveAt(clock) /\ \A i : Live(i)' <=> Live(i)
        /\ \A i, S : ~InStage(i, S)'
    BY <1>1, <2>1 DEF LiveAt, Live, InStage
  <2>5. UNCHANGED <<dir, runFile, journal, idTomb, dirTomb, epoch, deletion, dropped, told, overrun>>
    BY <1>1 DEF files, tombs, hist
  <2>6. snapshot' \in Snapshot \cup {None}
    <3>1. epoch \in Nat /\ snapshot \in Snapshot \cup {None}
      BY DEF IInv, Types
    <3>2. [inst |-> clock, epoch |-> epoch, done |-> s.done, log |-> s.log] \in Snapshot
      BY <1>1, <2>2, <3>1, StoreTypes DEF Snapshot
    <3> QED BY <2>1, <3>1, <3>2
  <2>7. Types'
    BY <1>1, <2>1, <2>5, <2>6 DEF IInv, Types
  <2>8. StoresOK'
    BY <1>1, <2>1, <2>4, <2>5 DEF IInv, StoresOK, StoreOK
  <2>9. ChargeOK'
    BY <1>1, <2>1, <2>3, <2>4 DEF IInv, ChargeOK, FreezesFinal
  <2>10. snapshot' # None => /\ snapshot'.inst = clock /\ snapshot'.done = s.done /\ snapshot'.log = s.log
                             /\ snapshot'.epoch = epoch
    <3>1. snapshot = None
      BY <1>1 DEF IInv, ViewsOK
    <3> QED BY <2>1, <3>1
  <2>11. ViewsOK'
    BY <1>1, <2>1, <2>4, <2>10 DEF IInv, ViewsOK, LiveAt
  <2>12. DeletionOK'
    BY <1>1, <2>5, <2>10 DEF IInv, DeletionOK, Alive
  <2>13. FilesOK'
    BY <1>1, <2>1, <2>4, <2>5 DEF IInv, FilesOK
  <2>14. \A i, calls : Replayable(i, calls)' <=> Replayable(i, calls)
    BY <2>1, <2>4, <2>5 DEF Replayable
  <2>15. JournalOK'
    BY <1>1, <2>1, <2>4, <2>5, <2>14 DEF IInv, JournalOK, Alive
  <2>16. \A i, calls : Holds(i, calls)' <=> Holds(i, calls)
    BY <2>5 DEF Holds
  <2>17. ToldOK'
    <3>1. ASSUME NEW r \in told
          PROVE  /\ r.inst \in 1..clock
                 /\ Alive /\ r.inst = clock => Holds(r.inst, r.done)
                 /\ LiveAt(r.inst) => /\ r.done = stores[r.inst].done
                                      /\ r.inst = clock => owner # stores[r.inst].gen
      BY <3>1 DEF IInv, ToldOK
    <3>2. /\ stores[clock].pc \in {"journal", "run"} => owner = stores[clock].gen
          /\ Alive /\ owner # stores[clock].gen => Holds(clock, stores[clock].done)
      BY <2>4 DEF IInv, ToldOK
    <3>3. /\ UNCHANGED <<clock, owner, stores, told>> /\ (Alive' <=> Alive)
          /\ \A i : LiveAt(i)' <=> LiveAt(i)
      BY <1>1, <2>1, <2>4, <2>5 DEF Alive, LiveAt
    <3> QED BY <2>4, <2>16, <3>1, <3>2, <3>3 DEF ToldOK
  <2> QED BY <2>7, <2>8, <2>9, <2>11, <2>12, <2>13, <2>15, <2>17 DEF IInv
<1> QED BY <1>1, <1>2, <1>3 DEF Settle

\* An agent call finishes, or is replayed.
LEMMA AgentKeeps == ASSUME IInv, NEW a \in Calls, AgentDone(a) PROVE IInv'
<1> DEFINE s == stores[clock]
           done == [s EXCEPT !.done = @ \cup {a}]
           logged == [done EXCEPT !.log = @ \cup {a}]
           more == [logged EXCEPT !.version = @ + 1]
<1>1. /\ active # None /\ active.stage = "engine" /\ active.inst = clock
      /\ clock \in Insts /\ Live(clock) /\ InStage(clock, {"engine"})
      /\ UNCHANGED <<files, clock, owner, active, snapshot, recovery, tombs, hist>>
  BY InChargeStore DEF AgentDone, Running, InStage
<1>2. PICK u : u = IF a \in s.log THEN done ELSE [done EXCEPT !.log = @ \cup {a}, !.version = @ + 1]
  OBVIOUS
<1>3. PICK t \in Saved(u) : stores' = [stores EXCEPT ![clock] = t]
  <2>1. \E new \in Saved(u) : stores' = [stores EXCEPT ![active.inst] = new]
    BY <1>1, <1>2 DEF AgentDone
  <2> QED BY <1>1, <2>1
<1>4. /\ s \in Store /\ StoreOK(clock, s) /\ ~FinalDue(s) /\ FreezesFinal(clock, s)
  BY <1>1, LiveStore DEF InStage
<1>5. /\ u \in Store /\ u.gen = s.gen /\ u.epoch = s.epoch /\ u.done = s.done \cup {a}
      /\ u.log = s.log \cup {a} /\ u.written = s.written /\ u.pc = s.pc /\ u.image = s.image
      /\ u.queue = s.queue /\ u.status = s.status
      /\ (u.version = s.version /\ u.log = s.log) \/ u.version = s.version + 1
  <2> HIDE DEF s
  <2>1. s.log \subseteq Calls /\ s.done \subseteq Calls /\ s.version \in Nat
    BY <1>4, StoreTypes
  <2>2. /\ done \in Store /\ done.gen = s.gen /\ done.epoch = s.epoch /\ done.done = s.done \cup {a}
        /\ done.log = s.log /\ done.written = s.written /\ done.pc = s.pc /\ done.image = s.image
        /\ done.queue = s.queue /\ done.status = s.status /\ done.version = s.version
    BY <1>4, <2>1 DEF Store
  <2> HIDE DEF done
  <2>3. /\ logged \in Store /\ logged.gen = s.gen /\ logged.epoch = s.epoch /\ logged.done = s.done \cup {a}
        /\ logged.log = s.log \cup {a} /\ logged.written = s.written /\ logged.pc = s.pc
        /\ logged.image = s.image /\ logged.queue = s.queue /\ logged.status = s.status
        /\ logged.version = s.version
    BY <2>1, <2>2 DEF Store
  <2> HIDE DEF logged
  <2>4. /\ more \in Store /\ more.gen = s.gen /\ more.epoch = s.epoch /\ more.done = s.done \cup {a}
        /\ more.log = s.log \cup {a} /\ more.written = s.written /\ more.pc = s.pc /\ more.image = s.image
        /\ more.queue = s.queue /\ more.status = s.status /\ more.version = s.version + 1
    BY <2>1, <2>3 DEF Store
  <2> HIDE DEF more
  <2>5. CASE a \in s.log
    BY <1>2, <2>2, <2>5
  <2>6. CASE a \notin s.log
    <3>1. u = more
      BY <1>2, <2>6 DEF more, logged
    <3> QED BY <2>4, <3>1
  <2> QED BY <2>5, <2>6
<1>6. /\ t \in Store /\ t.gen = s.gen /\ t.epoch = s.epoch /\ t.done = s.done \cup {a}
      /\ t.log = s.log \cup {a} /\ t.written = s.written /\ t.pc = s.pc /\ t.image = s.image
      /\ (t.version = s.version /\ t.log = s.log) \/ t.version = s.version + 1
      /\ t.queue = s.queue \/ t.queue = Append(s.queue, "save")
  <2> HIDE DEF s
  <2>1. Kept(u, t) /\ t.status = u.status /\ (t.queue = u.queue \/ t.queue = Append(u.queue, "save"))
    BY <1>5, SavedKeeps
  <2> QED BY <1>5, <2>1 DEF Kept
<1>7. /\ OneFinal(t.queue) /\ ~FinalDue(t)
      /\ s.pc # "idle" => t.queue # <<>> /\ Head(t.queue) = Head(s.queue)
  BY <1>4, <1>6, SaveQueued DEF StoreOK
<1>8. /\ stores' \in [Insts -> Store \cup {None}] /\ stores'[clock] = t
      /\ \A k \in Insts : k # clock => stores'[k] = stores[k]
      /\ \A k \in Insts : Live(k)' <=> Live(k)
      /\ \A k : LiveAt(k)' <=> LiveAt(k)
  BY <1>1, <1>3, <1>6, OneStore DEF IInv
<1>9. /\ UNCHANGED <<dir, runFile, journal, idTomb, dirTomb, epoch, deletion, dropped, told, overrun>>
      /\ \A i, S : InStage(i, S)' <=> InStage(i, S)
  BY <1>1 DEF files, tombs, hist, InStage
<1>10. Types'
  BY <1>1, <1>8, <1>9 DEF IInv, Types
<1>11. StoreOK(clock, t)'
  <2>1. s.version \in Nat /\ s.image \in Frozen \cup {None} /\ s.written \in Int
    BY <1>4, StoreTypes
  <2>2. s.image # None => s.image.version \in Nat
    BY <2>1 DEF Frozen
  <2>3. /\ t.written <= t.version /\ t.done \subseteq t.log
        /\ t.pc # "idle" => t.queue # <<>>
        /\ t.pc \in {"journal", "run"} <=> t.image # None
    BY <1>4, <1>6, <1>7, <2>1 DEF StoreOK
  <2>4. t.image # None =>
          /\ t.image.inst = clock /\ t.image.version <= t.version /\ t.image.log \subseteq t.log
          /\ t.image.done \subseteq t.image.log
          /\ t.image.version = t.version => t.image.log = t.log
    BY <1>4, <1>6, <2>1, <2>2 DEF StoreOK
  <2> QED BY <1>1, <1>4, <1>6, <1>7, <2>3, <2>4 DEF StoreOK
<1>12. StoresOK'
  <2>1. ASSUME NEW k \in Insts, Live(k), k # clock PROVE StoreOK(k, stores[k])'
    BY <1>1, <1>8, <2>1 DEF IInv, StoresOK, StoreOK
  <2>2. StoreOK(clock, stores[clock])'
    BY <1>1, <1>8, <1>11 DEF StoreOK
  <2> QED BY <1>1, <1>8, <2>1, <2>2 DEF StoresOK
<1>13. ChargeOK'
  <2>1. ASSUME NEW k \in Insts, Live(k), k # clock
        PROVE  /\ FinalDue(stores[k])' => InStage(k, {"finalizing", "flush", "retry"})'
               /\ ~InStage(k, {"engine"})' => stores'[k].status = "terminal"
               /\ FreezesFinal(k, stores[k])'
    BY <1>8, <1>9, <2>1, OtherCharge
  <2>2. /\ ~FinalDue(stores[clock])' /\ InStage(clock, {"engine"})' /\ InStage(clock, {"engine", "finalizing"})'
    BY <1>1, <1>7, <1>8, <1>9 DEF FinalDue, InStage
  <2>3. t.image # None => Head(t.queue) # "final"
    <3>1. s.image # None => s.queue # <<>> /\ s.queue \in Seq(Write) /\ ~Due(s.queue)
      BY <1>4, StoreTypes DEF StoreOK, Due, FinalDue
    <3>2. s.image # None => Head(s.queue) # "final"
      BY <3>1, ChainShrinks
    <3> QED BY <1>4, <1>6, <1>7, <3>2 DEF StoreOK
  <2>4. FreezesFinal(clock, stores[clock])'
    BY <1>1, <1>8, <2>2, <2>3 DEF FreezesFinal
  <2>5. (active # None => active.inst = clock /\ LiveAt(clock)) /\ owner <= clock
    BY DEF IInv, ChargeOK
  <2> QED BY <1>1, <1>8, <2>1, <2>2, <2>4, <2>5 DEF ChargeOK
<1>14. ViewsOK'
  BY <1>1, <1>8, <1>9 DEF IInv, ViewsOK, LiveAt
<1>15. DeletionOK'
  BY <1>1, <1>9 DEF IInv, DeletionOK, Alive
<1>16. \A k \in Insts : stores'[k].pc = stores[k].pc
  BY <1>6, <1>8
<1>17. FilesOK'
  BY <1>1, <1>8, <1>9, <1>16 DEF IInv, FilesOK
<1>18. \A k, calls : Replayable(k, calls) => Replayable(k, calls)'
  BY <1>6, <1>8, <1>9 DEF Replayable
<1>19. JournalOK'
  <2>1. ASSUME NEW k \in Insts, Live(k), Alive
        PROVE  /\ stores'[k].pc = "run" => Replayable(k, stores[k].image.done)'
               /\ stores'[k].version = stores'[k].written => Replayable(k, stores[k].log)'
    <3>1. CASE k # clock
      BY <1>8, <1>18, <2>1, <3>1 DEF IInv, JournalOK
    <3>2. CASE k = clock
      <4>1. s.version \in Nat /\ s.written \in Int /\ s.written <= s.version
        BY <1>4, StoreTypes DEF StoreOK
      <4>2. t.version = t.written => t.log = s.log /\ s.version = s.written
        BY <1>6, <4>1
      <4> QED BY <1>6, <1>8, <1>18, <2>1, <3>2, <4>2 DEF IInv, JournalOK
    <3> QED BY <3>1, <3>2
  <2> QED BY <1>1, <1>8, <1>9, <1>18, <2>1 DEF IInv, JournalOK, Alive
<1>20. ToldOK'
  <2>1. \A k, calls : Holds(k, calls)' <=> Holds(k, calls)
    BY <1>9 DEF Holds
  <2>2. owner = s.gen /\ \A r \in told : r.inst # clock
    BY <1>1 DEF IInv, ToldOK, LiveAt
  <2> QED BY <1>1, <1>6, <1>8, <1>9, <2>1, <2>2 DEF IInv, ToldOK, Alive, LiveAt
<1> QED BY <1>10, <1>12, <1>13, <1>14, <1>15, <1>17, <1>19, <1>20 DEF IInv

\* A launch, or a resume: the new store is in charge, and its journal has what
\* run.json shows unless the script changed.
LEMMA LaunchKeeps == ASSUME IInv, NEW keep \in BOOLEAN, Launch(keep) PROVE IInv'
<1>0. PICK n : n = clock + 1
  OBVIOUS
<1>1. PICK seed : seed = IF clock = 0 THEN {}
                         ELSE IF snapshot # None THEN snapshot.log ELSE journal
  OBVIOUS
<1>2. PICK new : new =
          [gen |-> owner + 1, epoch |-> epoch, status |-> "running",
           done |-> {}, log |-> IF keep THEN seed ELSE {},
           version |-> 0, written |-> -1, dirty |-> FALSE, timer |-> FALSE,
           late |-> FALSE, queue |-> <<"save">>, pc |-> "idle", image |-> None]
  OBVIOUS
<1>3. /\ active = None /\ deletion = "none" /\ clock < MaxInst
      /\ stores' = [stores EXCEPT ![n] = new]
      /\ clock' = n /\ owner' = owner + 1 /\ snapshot' = None
      /\ active' = [inst |-> n, stage |-> "engine"]
      /\ dropped' = IF keep THEN dropped ELSE 1..clock
      /\ UNCHANGED <<dir, runFile, journal, recovery, idTomb, dirTomb, epoch, deletion, told, overrun>>
  BY <1>0, <1>1, <1>2 DEF Launch, files, tombs
<1>4. /\ clock \in Nat /\ owner \in Nat /\ owner <= clock /\ n \in Insts /\ n \in 0..MaxInst /\ epoch = 0
  BY <1>0, <1>3 DEF IInv, Types, ChargeOK, DeletionOK, Insts
<1>5. \A i \in Insts : Live(i) => i \in 1..clock /\ i # n /\ n \notin 1..i
  BY <1>0, <1>4 DEF IInv, StoresOK, StoreOK
<1>6. seed \subseteq Calls
  BY <1>1, StoreTypes DEF IInv, Types, Snapshot
<1>7. /\ new \in Store /\ new # None /\ new.gen = owner + 1 /\ new.epoch = 0 /\ new.done = {}
      /\ new.log = (IF keep THEN seed ELSE {}) /\ new.version = 0 /\ new.written = -1
      /\ new.queue = <<"save">> /\ new.pc = "idle" /\ new.image = None
  <2>1. owner + 1 \in Insts /\ epoch \in Nat /\ <<"save">> \in Seq({"save", "final"})
    BY <1>3, <1>4 DEF Insts
  <2>2. new \in Store
    BY <1>2, <1>4, <1>6, <2>1 DEF Store, Status
  <2> QED BY <1>2, <1>4, <2>2, NoneApart
<1>8. /\ stores' \in [Insts -> Store \cup {None}] /\ stores'[n] = new
      /\ \A k \in Insts : k # n => stores'[k] = stores[k]
      /\ Live(n)' /\ LiveAt(n)'
      /\ \A k \in Insts : k # n => (Live(k)' <=> Live(k))
  BY <1>3, <1>4, <1>7 DEF IInv, Types, Live, LiveAt
<1>9. /\ active' \in InCharge /\ active' # None /\ active'.inst = n /\ active'.stage = "engine"
  <2>1. active' \in InCharge
    BY <1>3, <1>4 DEF InCharge
  <2> QED BY <1>3, <2>1, NoneApart
<1>10. /\ \A S : "engine" \in S => InStage(n, S)'
       /\ \A i, S : i # n => ~InStage(i, S)'
       /\ \A i, S : ~InStage(i, S)
  BY <1>3, <1>9 DEF InStage
<1>11. Types'
  BY <1>3, <1>4, <1>8, <1>9 DEF IInv, Types
<1>12. 1..clock \subseteq 1..n /\ n \in 1..n /\ owner + 1 \in 1..n
  BY <1>0, <1>4
<1>13. OneFinal(<<"save">>) /\ <<"save">> # <<>> /\ \A k \in DOMAIN <<"save">> : <<"save">>[k] # "final"
  BY DEF OneFinal
<1>14. StoresOK'
  <2>1. ASSUME NEW k \in Insts, Live(k), k # n PROVE StoreOK(k, stores[k])'
    BY <1>3, <1>8, <1>12, <2>1 DEF IInv, StoresOK, StoreOK
  <2>2. StoreOK(n, stores[n])'
    BY <1>3, <1>4, <1>7, <1>8, <1>12, <1>13 DEF StoreOK
  <2> QED BY <1>8, <2>1, <2>2 DEF StoresOK
<1>15. ChargeOK'
  <2>1. ASSUME NEW k \in Insts, Live(k), k # n
        PROVE  /\ ~FinalDue(stores[k])'
               /\ stores'[k].status = "terminal"
               /\ FreezesFinal(k, stores[k])'
    BY <1>8, <1>10, <2>1, OtherCharge
  <2>2. ~FinalDue(stores[n])' /\ InStage(n, {"engine"})' /\ FreezesFinal(n, stores[n])'
    BY <1>7, <1>8, <1>10, <1>13 DEF FinalDue, FreezesFinal
  <2>3. owner' <= clock' /\ active'.inst = clock' /\ LiveAt(clock)'
    BY <1>0, <1>3, <1>4, <1>8, <1>9 DEF LiveAt, Live
  <2> QED BY <1>8, <2>1, <2>2, <2>3 DEF ChargeOK
<1>16. recovery # None => recovery.inst \in Insts /\ Live(recovery.inst) /\ recovery.inst # n
                          /\ LiveAt(recovery.inst)'
  BY <1>3, <1>5, <1>8 DEF IInv, ViewsOK, LiveAt
<1>17. ViewsOK'
  BY <1>3, <1>8, <1>9, <1>16 DEF IInv, ViewsOK
<1>18. DeletionOK' /\ FilesOK'
  <2>1. runFile # None => runFile.inst \in Int /\ runFile.inst <= n
    BY <1>0, <1>4 DEF IInv, FilesOK, Types, Image, Insts
  <2> QED BY <1>3, <2>1 DEF IInv, DeletionOK, FilesOK, Alive
<1>19. ASSUME Alive, NEW i \in 1..clock, NEW calls, Replayable(i, calls) PROVE Replayable(i, calls)'
  <2>1. CASE ~keep
    BY <1>3, <1>19, <2>1 DEF Replayable
  <2>2. CASE keep
    <3> SUFFICES ASSUME i \notin dropped \cup overrun PROVE Replayable(i, calls)'
      BY <1>3, <2>2 DEF Replayable
    <3>1. calls \subseteq seed
      <4>1. clock # 0
        BY <1>4
      <4>2. snapshot # None => clock \in Insts /\ Live(clock) /\ snapshot.log = stores[clock].log /\ clock >= i
        BY <1>4 DEF IInv, ViewsOK, LiveAt
      <4> QED BY <1>1, <1>19, <4>1, <4>2 DEF Replayable
    <3> QED BY <1>3, <1>7, <1>8, <1>19, <2>2, <3>1 DEF Replayable
  <2> QED BY <2>1, <2>2
<1>20. JournalOK'
  <2>1. ASSUME Alive, runFile # None PROVE Replayable(runFile.inst, runFile.done)'
    <3>1. runFile.inst \in 1..clock
      BY <1>4, <2>1 DEF IInv, FilesOK, Types, Image, Insts
    <3> QED BY <1>3, <1>19, <2>1, <3>1 DEF IInv, JournalOK
  <2>2. ASSUME Alive, NEW i \in Insts, Live(i), i # n
        PROVE  /\ stores'[i].pc = "run" => Replayable(i, stores[i].image.done)'
               /\ stores'[i].version = stores'[i].written => Replayable(i, stores[i].log)'
    BY <1>5, <1>8, <1>19, <2>2 DEF IInv, JournalOK
  <2>3. ASSUME Alive, recovery # None, recovery.pc = "run" PROVE Replayable(recovery.inst, recovery.done)'
    BY <1>3, <1>5, <1>16, <1>19, <2>3 DEF IInv, JournalOK
  <2>4. stores'[n].pc # "run" /\ stores'[n].version # stores'[n].written
    BY <1>7, <1>8
  <2> QED BY <1>3, <1>8, <2>1, <2>2, <2>3, <2>4 DEF JournalOK, Alive
<1>21. ToldOK'
  <2>1. \A t \in told : t.inst \in 1..n /\ t.inst # n /\ (LiveAt(t.inst)' => LiveAt(t.inst))
    BY <1>0, <1>4, <1>8 DEF IInv, ToldOK, LiveAt
  <2>2. \A t \in told : LiveAt(t.inst) => stores'[t.inst] = stores[t.inst]
    BY <1>8, <2>1 DEF LiveAt
  <2>3. owner' = stores'[n].gen /\ stores'[n].pc = "idle"
    BY <1>3, <1>4, <1>7, <1>8
  <2> QED BY <1>3, <1>10, <2>1, <2>2, <2>3 DEF IInv, ToldOK
<1> QED BY <1>11, <1>14, <1>15, <1>17, <1>18, <1>20, <1>21 DEF IInv

-----------------------------------------------------------------------------
\* s is store i, but for the flag that a write takes down.
SameStore(i, s) == Kept(stores[i], s) /\ s.status = stores[i].status /\ s.queue = stores[i].queue

\* The end of a write: the chain is shorter, and after a final write the run in
\* charge goes on.
LEMMA DoneMoves ==
  ASSUME IInv, NEW i \in Insts, Live(i), NEW s, SameStore(i, s), s.queue # <<>>,
         NEW ok \in BOOLEAN, Done(i, s, ok)
  PROVE  \E t \in Store :
           /\ stores' = [stores EXCEPT ![i] = t]
           /\ t.gen = s.gen /\ t.epoch = s.epoch /\ t.status = s.status /\ t.done = s.done
           /\ t.log = s.log /\ t.version = s.version /\ t.written = s.written
           /\ t.queue = Tail(s.queue) /\ t.pc = "idle" /\ t.image = None
           /\ OneFinal(t.queue)
           /\ IF Head(s.queue) = "final"
                THEN /\ InStage(i, {"finalizing", "flush", "retry"}) /\ i = clock /\ ~FinalDue(t)
                     /\ active' \in InCharge /\ active'.inst = clock
                     /\ active'.stage \in {"reclaim", "persisted", "again", "failed"}
                     /\ owner' = IF ok /\ owner = s.gen THEN 0 ELSE owner
                     /\ told' = IF ok /\ epoch = s.epoch
                                THEN told \cup {[inst |-> i, done |-> s.done]} ELSE told
                ELSE (FinalDue(t) => FinalDue(s)) /\ UNCHANGED <<active, owner, told>>
<1> DEFINE r == [s EXCEPT !.queue = Tail(@)]
           p == [r EXCEPT !.pc = "idle"]
<1>1. PICK t : t = [s EXCEPT !.queue = Tail(@), !.pc = "idle", !.image = None]
  OBVIOUS
<1>2. s \in Store /\ StoreOK(i, s) /\ (FinalDue(s) => InStage(i, {"finalizing", "flush", "retry"}))
  <2>1. /\ stores[i] \in Store /\ StoreOK(i, stores[i])
        /\ FinalDue(stores[i]) => InStage(i, {"finalizing", "flush", "retry"})
    BY LiveStore
  <2> QED BY <2>1 DEF SameStore, Kept, StoreOK, FinalDue
<1>3. s.queue \in Seq(Write) /\ Tail(s.queue) \in Seq(Write)
  BY <1>2, StoreTypes, ChainShrinks
<1>4. /\ OneFinal(Tail(s.queue)) /\ (Due(Tail(s.queue)) => Due(s.queue))
      /\ Head(s.queue) = "final" => Due(s.queue) /\ ~Due(Tail(s.queue))
  BY <1>2, <1>3, ChainShrinks DEF StoreOK
<1>5. /\ t \in Store /\ t.gen = s.gen /\ t.epoch = s.epoch /\ t.status = s.status /\ t.done = s.done
      /\ t.log = s.log /\ t.version = s.version /\ t.written = s.written
      /\ t.queue = Tail(s.queue) /\ t.pc = "idle" /\ t.image = None
  <2>1. /\ r \in Store /\ r.gen = s.gen /\ r.epoch = s.epoch /\ r.status = s.status /\ r.done = s.done
        /\ r.log = s.log /\ r.version = s.version /\ r.written = s.written /\ r.queue = Tail(s.queue)
    BY <1>2, <1>3 DEF Store, Write
  <2> HIDE DEF r
  <2>2. /\ p \in Store /\ p.gen = r.gen /\ p.epoch = r.epoch /\ p.status = r.status /\ p.done = r.done
        /\ p.log = r.log /\ p.version = r.version /\ p.written = r.written /\ p.queue = r.queue
        /\ p.pc = "idle"
    BY <2>1 DEF Store
  <2>3. t = [p EXCEPT !.image = None]
    BY <1>1 DEF r
  <2> HIDE DEF p
  <2>4. /\ t \in Store /\ t.gen = p.gen /\ t.epoch = p.epoch /\ t.status = p.status /\ t.done = p.done
        /\ t.log = p.log /\ t.version = p.version /\ t.written = p.written /\ t.queue = p.queue
        /\ t.pc = p.pc /\ t.image = None
    BY <2>2, <2>3 DEF Store
  <2> QED BY <2>1, <2>2, <2>4
<1>6. /\ OneFinal(t.queue) /\ (FinalDue(t) => FinalDue(s))
      /\ Head(s.queue) = "final" => FinalDue(s) /\ ~FinalDue(t)
  BY <1>4, <1>5 DEF Due, FinalDue
<1>7. stores' = [stores EXCEPT ![i] = t]
  BY <1>1 DEF Done
<1>8. CASE Head(s.queue) = "final"
  <2>1. InStage(i, {"finalizing", "flush", "retry"}) /\ i = clock /\ active \in InCharge /\ active.inst = clock
    BY <1>2, <1>6, <1>8, InChargeStore DEF InStage
  <2>2. PICK st \in {"reclaim", "persisted", "again", "failed"} : active' = [active EXCEPT !.stage = st]
    BY <1>8 DEF Done
  <2>3. active' \in InCharge /\ active'.inst = clock /\ active'.stage = st
    BY <2>1, <2>2 DEF InCharge
  <2>4. /\ owner' = IF ok /\ owner = s.gen THEN 0 ELSE owner
        /\ told' = IF ok /\ epoch = s.epoch THEN told \cup {[inst |-> i, done |-> s.done]} ELSE told
    BY <1>8 DEF Done
  <2> QED BY <1>5, <1>6, <1>7, <1>8, <2>1, <2>2, <2>3, <2>4
<1>9. CASE Head(s.queue) # "final"
  <2>1. UNCHANGED <<active, owner, told>>
    BY <1>9 DEF Done
  <2> QED BY <1>5, <1>6, <1>7, <1>9, <2>1
<1> QED BY <1>8, <1>9

\* Replayable calls stay so while no journal that matters loses them.
LEMMA StillReplayable ==
  ASSUME NEW i, NEW calls, Replayable(i, calls),
         dropped \subseteq dropped', overrun \subseteq overrun', journal' = journal,
         \A k \in Insts : Live(k)' => Live(k),
         \A k \in Insts : Live(k)' =>
           /\ stores'[k].log = stores[k].log
           /\ stores'[k].image = None \/ stores'[k].image = stores[k].image
                                      \/ stores'[k].image.log = stores[k].log
  PROVE  Replayable(i, calls)'
BY DEF Replayable

\* The end of a write keeps the invariant, if the files are in order after it.
LEMMA DoneKeeps ==
  ASSUME IInv, NEW i \in Insts, Live(i), NEW s, SameStore(i, s), s.queue # <<>>,
         NEW ok \in BOOLEAN, Done(i, s, ok),
         UNCHANGED <<clock, snapshot, recovery, tombs, dropped>>,
         dir' \in BOOLEAN, runFile' \in Image \cup {None}, journal' \subseteq Calls,
         FilesOK', overrun \subseteq overrun', Alive => journal' = journal,
         Alive /\ runFile' # None => Replayable(runFile'.inst, runFile'.done),
         Alive /\ (i = clock => owner # s.gen) =>
           \A calls : Holds(clock, calls) => Holds(clock, calls)',
         ok /\ Alive /\ Head(s.queue) = "final" => Holds(clock, s.done)'
  PROVE  IInv'
<1>1. PICK t \in Store :
           /\ stores' = [stores EXCEPT ![i] = t]
           /\ t.gen = s.gen /\ t.epoch = s.epoch /\ t.status = s.status /\ t.done = s.done
           /\ t.log = s.log /\ t.version = s.version /\ t.written = s.written
           /\ t.queue = Tail(s.queue) /\ t.pc = "idle" /\ t.image = None
           /\ OneFinal(t.queue)
           /\ IF Head(s.queue) = "final"
                THEN /\ InStage(i, {"finalizing", "flush", "retry"}) /\ i = clock /\ ~FinalDue(t)
                     /\ active' \in InCharge /\ active'.inst = clock
                     /\ active'.stage \in {"reclaim", "persisted", "again", "failed"}
                     /\ owner' = IF ok /\ owner = s.gen THEN 0 ELSE owner
                     /\ told' = IF ok /\ epoch = s.epoch
                                THEN told \cup {[inst |-> i, done |-> s.done]} ELSE told
                ELSE (FinalDue(t) => FinalDue(s)) /\ UNCHANGED <<active, owner, told>>
  BY DoneMoves
<1>2. /\ t.gen = stores[i].gen /\ t.epoch = stores[i].epoch /\ t.status = stores[i].status
      /\ t.done = stores[i].done /\ t.log = stores[i].log /\ t.version = stores[i].version
      /\ t.written = stores[i].written /\ t.pc = "idle" /\ t.image = None
      /\ s.gen = stores[i].gen /\ s.done = stores[i].done /\ s.epoch = stores[i].epoch
      /\ FinalDue(s) <=> FinalDue(stores[i])
  BY <1>1 DEF SameStore, Kept, FinalDue
<1>3. /\ stores' \in [Insts -> Store \cup {None}] /\ stores'[i] = t
      /\ \A k \in Insts : k # i => stores'[k] = stores[k]
      /\ \A k \in Insts : Live(k)' <=> Live(k)
      /\ \A k : LiveAt(k)' <=> LiveAt(k)
  BY <1>1, OneStore DEF IInv
<1>4. /\ UNCHANGED <<clock, snapshot, recovery, dropped, idTomb, dirTomb, epoch, deletion>>
      /\ stores[i] \in Store /\ StoreOK(i, stores[i])
      /\ FinalDue(stores[i]) => InStage(i, {"finalizing", "flush", "retry"})
      /\ ~InStage(i, {"engine"}) => stores[i].status = "terminal"
  BY LiveStore DEF tombs
<1>5. /\ active' # None <=> active # None
      /\ active' \in InCharge \cup {None}
      /\ active # None => active.inst = clock /\ active'.inst = clock
      /\ owner' \in Nat /\ owner' <= clock /\ owner' \in {0, owner}
      /\ \A k, S : k # clock => ~InStage(k, S) /\ ~InStage(k, S)'
      /\ InStage(clock, {"engine"})' => InStage(clock, {"engine"}) /\ owner' = owner
  <2>1. owner \in Nat /\ owner <= clock /\ clock \in Nat
        /\ active \in InCharge \cup {None} /\ (active # None => active.inst = clock)
    BY DEF IInv, Types, ChargeOK
  <2>2. CASE Head(s.queue) = "final"
    <3>1. active' \in InCharge /\ active' # None /\ active # None
      BY <1>1, <2>2, NoneApart DEF InStage
    <3> QED BY <1>1, <2>1, <2>2, <3>1 DEF InStage
  <2>3. CASE Head(s.queue) # "final"
    BY <1>1, <2>1, <2>3 DEF InStage
  <2> QED BY <2>2, <2>3
<1>6. Types'
  BY <1>3, <1>4, <1>5 DEF IInv, Types
<1>7. StoresOK'
  <2>1. ASSUME NEW k \in Insts, Live(k), k # i PROVE StoreOK(k, stores[k])'
    BY <1>3, <1>4, <2>1 DEF IInv, StoresOK, StoreOK
  <2>2. StoreOK(i, stores[i])'
    BY <1>1, <1>2, <1>3, <1>4 DEF StoreOK
  <2> QED BY <1>3, <2>1, <2>2 DEF StoresOK
<1>8. ChargeOK'
  <2>1. ASSUME NEW k \in Insts, Live(k)
        PROVE  /\ FinalDue(stores[k])' => InStage(k, {"finalizing", "flush", "retry"})'
               /\ ~InStage(k, {"engine"})' => stores'[k].status = "terminal"
               /\ FreezesFinal(k, stores[k])'
    <3>1. CASE k # i
      <4>1. CASE k # clock
        <5>1. \A S : ~InStage(k, S) /\ ~InStage(k, S)'
          BY <1>5, <4>1
        <5> QED BY <1>3, <2>1, <3>1, <5>1, OtherCharge
      <4>2. CASE k = clock
        <5>1. Head(s.queue) # "final" /\ active' = active
          BY <1>1, <3>1, <4>2
        <5>2. \A S : InStage(k, S)' <=> InStage(k, S)
          BY <5>1 DEF InStage
        <5> QED BY <1>3, <2>1, <3>1, <5>2, OtherCharge
      <4> QED BY <4>1, <4>2
    <3>2. CASE k = i
      <4>1. FinalDue(t) => InStage(i, {"finalizing", "flush", "retry"})'
        BY <1>1, <1>2, <1>4 DEF InStage
      <4>2. ~InStage(i, {"engine"})' => t.status = "terminal"
        <5>1. CASE Head(s.queue) = "final"
          BY <1>1, <1>2, <1>4, <5>1 DEF InStage
        <5>2. CASE Head(s.queue) # "final"
          BY <1>1, <1>2, <1>4, <5>2 DEF InStage
        <5> QED BY <5>1, <5>2
      <4> QED BY <1>2, <1>3, <3>2, <4>1, <4>2 DEF FinalDue, FreezesFinal
    <3> QED BY <3>1, <3>2
  <2>2. active' # None => active'.inst = clock' /\ LiveAt(clock)'
    BY <1>3, <1>4, <1>5 DEF IInv, ChargeOK
  <2> QED BY <1>3, <1>4, <1>5, <2>1, <2>2 DEF ChargeOK
<1>9. ViewsOK'
  <2>1. \A k \in Insts : stores'[k].done = stores[k].done /\ stores'[k].log = stores[k].log
    BY <1>2, <1>3
  <2> QED BY <1>3, <1>4, <1>5, <2>1 DEF IInv, ViewsOK, LiveAt
<1>10. DeletionOK'
  BY <1>4 DEF IInv, DeletionOK, Alive
<1>11. JournalOK'
  <2> SUFFICES ASSUME Alive PROVE JournalOK'
    BY <1>4 DEF JournalOK, Alive
  <2>1. \A k, calls : Replayable(k, calls) => Replayable(k, calls)'
    BY <1>2, <1>3, <1>4, StillReplayable
  <2>2. ASSUME NEW k \in Insts, Live(k)
        PROVE  /\ stores'[k].pc = "run" => Replayable(k, stores[k].image.done)'
               /\ stores'[k].version = stores'[k].written => Replayable(k, stores[k].log)'
    <3>1. CASE k # i
      BY <1>3, <2>1, <2>2, <3>1 DEF IInv, JournalOK
    <3>2. CASE k = i
      BY <1>2, <1>3, <2>1, <2>2, <3>2 DEF IInv, JournalOK
    <3> QED BY <3>1, <3>2
  <2>3. runFile' # None => Replayable(runFile.inst, runFile.done)'
    <3> SUFFICES ASSUME runFile' # None PROVE Replayable(runFile.inst, runFile.done)'
      OBVIOUS
    <3>1. PICK k, calls : k = runFile'.inst /\ calls = runFile'.done
      OBVIOUS
    <3>2. Replayable(k, calls)
      BY <3>1
    <3>3. Replayable(k, calls)'
      BY <2>1, <3>2
    <3> QED BY <3>1, <3>3 DEF Replayable
  <2>4. recovery' # None /\ recovery'.pc = "run" => Replayable(recovery.inst, recovery.done)'
    BY <1>4, <2>1 DEF IInv, JournalOK
  <2> QED BY <1>3, <2>2, <2>3, <2>4 DEF JournalOK
<1>12. ToldOK'
  <2>1. \A k \in Insts : stores'[k].done = stores[k].done /\ stores'[k].gen = stores[k].gen
    BY <1>2, <1>3
  <2>2. Alive' <=> Alive
    BY <1>4 DEF Alive
  <2>3. \A k \in Insts : Live(k) => stores[k].gen # 0
    BY DEF IInv, StoresOK, StoreOK
  <2>4. ASSUME NEW r \in told
        PROVE  /\ r.inst \in 1..clock
               /\ Alive /\ r.inst = clock => Holds(r.inst, r.done)'
               /\ LiveAt(r.inst) =>
                    /\ r.done = stores'[r.inst].done /\ ~InStage(r.inst, {"engine"})'
                    /\ r.inst = clock => owner' # stores'[r.inst].gen
    <3>1. /\ r.inst \in 1..clock
          /\ Alive /\ r.inst = clock => Holds(r.inst, r.done)
          /\ LiveAt(r.inst) =>
               /\ r.done = stores[r.inst].done /\ ~InStage(r.inst, {"engine"})
               /\ r.inst = clock => owner # stores[r.inst].gen
      BY DEF IInv, ToldOK
    <3>2. LiveAt(r.inst) =>
               /\ r.done = stores'[r.inst].done /\ ~InStage(r.inst, {"engine"})'
               /\ r.inst = clock => owner' # stores'[r.inst].gen
      BY <1>5, <2>1, <2>3, <3>1 DEF LiveAt
    <3>3. ASSUME Alive, r.inst = clock PROVE Holds(r.inst, r.done)'
      <4>1. i = clock => owner # s.gen
        BY <1>2, <3>1, <3>3 DEF LiveAt
      <4> QED BY <1>4, <3>1, <3>3, <4>1 DEF Holds
    <3> QED BY <3>1, <3>2, <3>3
  <2>5. ASSUME NEW r \in told', r \notin told
        PROVE  /\ r.inst \in 1..clock
               /\ Alive /\ r.inst = clock => Holds(r.inst, r.done)'
               /\ LiveAt(r.inst) =>
                    /\ r.done = stores'[r.inst].done /\ ~InStage(r.inst, {"engine"})'
                    /\ r.inst = clock => owner' # stores'[r.inst].gen
    <3>1. /\ Head(s.queue) = "final" /\ ok /\ r.inst = i /\ r.done = s.done /\ i = clock
          /\ owner' = IF owner = s.gen THEN 0 ELSE owner
          /\ ~InStage(i, {"engine"})'
      BY <1>1, <2>5 DEF InStage
    <3>2. r.inst \in 1..clock
      BY <1>4, <3>1 DEF StoreOK
    <3>3. owner' # stores'[i].gen
      BY <1>2, <2>1, <2>3, <3>1
    <3>4. Alive => Holds(r.inst, r.done)'
      BY <1>4, <3>1 DEF Holds
    <3> QED BY <1>2, <2>1, <3>1, <3>2, <3>3, <3>4
  <2>6. ASSUME LiveAt(clock)
        PROVE  /\ stores'[clock].pc \in {"journal", "run"} => owner' = stores'[clock].gen
               /\ Alive /\ owner' # stores'[clock].gen => Holds(clock, stores[clock].done)'
               /\ InStage(clock, {"engine"})' => owner' = stores'[clock].gen
    <3>1. clock \in Insts /\ Live(clock)
      BY <2>6 DEF LiveAt
    <3>2. /\ stores[clock].pc \in {"journal", "run"} => owner = stores[clock].gen
          /\ Alive /\ owner # stores[clock].gen => Holds(clock, stores[clock].done)
          /\ InStage(clock, {"engine"}) => owner = stores[clock].gen
      BY <2>6 DEF IInv, ToldOK
    <3>3. stores'[clock].pc \in {"journal", "run"} => owner' = stores'[clock].gen
      <4>1. CASE i = clock
        BY <1>2, <1>3, <4>1
      <4>2. CASE i # clock
        BY <1>1, <1>3, <3>1, <3>2, <4>2
      <4> QED BY <4>1, <4>2
    <3>4. ASSUME Alive, owner' # stores'[clock].gen PROVE Holds(clock, stores[clock].done)'
      <4>1. PICK calls : calls = stores[clock].done
        OBVIOUS
      <4>2. Holds(clock, calls)'
        <5>1. CASE owner # stores[clock].gen
          <6>1. i = clock => owner # s.gen
            BY <1>2, <5>1
          <6> QED BY <3>2, <3>4, <4>1, <5>1, <6>1
        <5>2. CASE owner = stores[clock].gen
          <6>1. owner' # owner
            BY <2>1, <3>1, <3>4, <5>2
          <6>2. Head(s.queue) = "final" /\ ok /\ i = clock
            BY <1>1, <6>1
          <6> QED BY <1>2, <3>4, <4>1, <6>2
        <5> QED BY <5>1, <5>2
      <4>3. calls = stores'[clock].done /\ clock' = clock
        BY <1>4, <2>1, <3>1, <4>1
      <4> QED BY <4>2, <4>3 DEF Holds
    <3>5. InStage(clock, {"engine"})' => owner' = stores'[clock].gen
      BY <1>4, <1>5, <2>1, <3>1, <3>2 DEF InStage
    <3> QED BY <3>3, <3>4, <3>5
  <2>7. \A r \in told' : r \in told \/ r \notin told
    OBVIOUS
  <2> QED BY <1>3, <1>4, <2>2, <2>4, <2>5, <2>6 DEF ToldOK, InStage
<1> QED BY <1>6, <1>7, <1>8, <1>9, <1>10, <1>11, <1>12 DEF IInv

\* A write moves on to its next await, with nothing frozen yet.
LEMMA AwaitKeeps ==
  ASSUME IInv, NEW i \in Insts, Live(i), NEW s, SameStore(i, s), s.queue # <<>>,
         stores[i].image = None, NEW pc \in {"mkdir", "check"},
         stores' = [stores EXCEPT ![i] = [s EXCEPT !.pc = pc]],
         UNCHANGED <<runFile, journal, clock, owner, active, snapshot, recovery, tombs, hist>>,
         \/ dir' = dir /\ stores[i].pc # "check"
         \/ dir' = TRUE /\ pc = "check"
  PROVE  IInv'
<1> DEFINE p == stores[i]
<1>1. PICK t : t = [s EXCEPT !.pc = pc]
  OBVIOUS
<1>2. /\ p \in Store /\ StoreOK(i, p)
      /\ FinalDue(p) => InStage(i, {"finalizing", "flush", "retry"})
      /\ ~InStage(i, {"engine"}) => p.status = "terminal"
  BY LiveStore
<1>3. /\ t \in Store /\ t.gen = p.gen /\ t.epoch = p.epoch /\ t.status = p.status /\ t.done = p.done
      /\ t.log = p.log /\ t.version = p.version /\ t.written = p.written
      /\ t.queue = p.queue /\ t.pc = pc /\ t.image = None /\ t.queue # <<>>
  <2> HIDE DEF p
  <2> QED BY <1>1, <1>2 DEF SameStore, Kept, Store, p
<1>4. /\ stores' \in [Insts -> Store \cup {None}] /\ stores'[i] = t
      /\ \A k \in Insts : k # i => stores'[k] = stores[k]
      /\ \A k \in Insts : Live(k)' <=> Live(k)
      /\ \A k : LiveAt(k)' <=> LiveAt(k)
  BY <1>1, <1>3, OneStore DEF IInv
<1>5. UNCHANGED <<dropped, told, overrun, idTomb, dirTomb, epoch, deletion>>
  BY DEF hist, tombs
<1>6. \A k, S : InStage(k, S)' <=> InStage(k, S)
  BY DEF InStage
<1>7. dir' \in BOOLEAN /\ (dir => dir')
  BY DEF IInv, Types
<1>8. Types'
  BY <1>4, <1>5, <1>7 DEF IInv, Types
<1>9. StoresOK'
  <2>1. ASSUME NEW k \in Insts, Live(k), k # i PROVE StoreOK(k, stores[k])'
    BY <1>4, <2>1 DEF IInv, StoresOK, StoreOK
  <2>2. StoreOK(i, stores[i])'
    BY <1>2, <1>3, <1>4 DEF StoreOK
  <2> QED BY <1>4, <2>1, <2>2 DEF StoresOK
<1>10. ChargeOK'
  <2>1. ASSUME NEW k \in Insts, Live(k)
        PROVE  /\ FinalDue(stores[k])' => InStage(k, {"finalizing", "flush", "retry"})'
               /\ ~InStage(k, {"engine"})' => stores'[k].status = "terminal"
               /\ FreezesFinal(k, stores[k])'
    <3>1. CASE k # i
      BY <1>4, <1>6, <2>1, <3>1, OtherCharge
    <3>2. CASE k = i
      <4>1. stores'[k] = t /\ t.status = p.status /\ t.image = None
        BY <1>3, <1>4, <3>2
      <4>2. FinalDue(stores[k])' <=> FinalDue(p)
        BY <1>3, <4>1 DEF FinalDue
      <4>3. FreezesFinal(k, stores[k])'
        BY <4>1 DEF FreezesFinal
      <4> QED BY <1>2, <1>6, <3>2, <4>1, <4>2, <4>3
    <3> QED BY <3>1, <3>2
  <2>2. (active # None => active.inst = clock /\ LiveAt(clock)) /\ owner <= clock
    BY DEF IInv, ChargeOK
  <2> QED BY <1>4, <2>1, <2>2 DEF ChargeOK
<1>11. ViewsOK' /\ DeletionOK'
  <2>1. \A k \in Insts : stores'[k].done = stores[k].done /\ stores'[k].log = stores[k].log
    BY <1>3, <1>4
  <2> QED BY <1>4, <1>5, <2>1 DEF IInv, ViewsOK, LiveAt, DeletionOK, Alive
<1>12. FilesOK'
  <2>1. dir' => dir \/ (Live(i)' /\ stores'[i].pc = "check")
    BY <1>3, <1>4
  <2>2. \A k \in Insts : Live(k) /\ stores[k].pc = "check" => stores'[k].pc = "check"
    BY <1>3, <1>4
  <2> QED BY <1>4, <1>5, <1>7, <2>1, <2>2 DEF IInv, FilesOK
<1>13. JournalOK'
  <2> SUFFICES ASSUME Alive PROVE JournalOK'
    BY <1>5 DEF JournalOK, Alive
  <2>1. \A k, calls : Replayable(k, calls) => Replayable(k, calls)'
    BY <1>3, <1>4, <1>5, StillReplayable
  <2>2. ASSUME NEW k \in Insts, Live(k)
        PROVE  /\ stores'[k].pc = "run" => Replayable(k, stores[k].image.done)'
               /\ stores'[k].version = stores'[k].written => Replayable(k, stores[k].log)'
    <3>1. CASE k # i
      BY <1>4, <2>1, <2>2, <3>1 DEF IInv, JournalOK
    <3>2. CASE k = i
      <4>1. /\ stores'[k].pc # "run" /\ stores'[k].log = stores[k].log
            /\ stores'[k].version = stores[k].version /\ stores'[k].written = stores[k].written
        BY <1>3, <1>4, <3>2
      <4> QED BY <2>1, <2>2, <4>1 DEF IInv, JournalOK
    <3> QED BY <3>1, <3>2
  <2> QED BY <1>4, <2>1, <2>2 DEF IInv, JournalOK
<1>14. ToldOK'
  <2>1. \A k \in Insts : stores'[k].done = stores[k].done /\ stores'[k].gen = stores[k].gen
    BY <1>3, <1>4
  <2>2. \A k, calls : Holds(k, calls)' <=> Holds(k, calls)
    BY <1>5 DEF Holds
  <2>3. clock \in Insts /\ stores'[clock].pc \in {"journal", "run"} => stores[clock].pc \in {"journal", "run"}
    BY <1>3, <1>4
  <2> QED BY <1>4, <1>5, <1>6, <2>1, <2>2, <2>3 DEF IInv, ToldOK, Alive, LiveAt
<1> QED BY <1>8, <1>9, <1>10, <1>11, <1>12, <1>13, <1>14 DEF IInv

\* A stale writer in charge has nothing left to write: its final state is on disk.
LEMMA StaleHolds ==
  ASSUME IInv, NEW i \in Insts, Live(i), NEW s, SameStore(i, s), Stale(s), Alive,
         s.queue # <<>>, Head(s.queue) = "final"
  PROVE  Holds(clock, s.done)
<1>1. /\ stores[i] \in Store /\ StoreOK(i, stores[i])
      /\ FinalDue(stores[i]) => InStage(i, {"finalizing", "flush", "retry"})
  BY LiveStore
<1>2. s.gen = stores[i].gen /\ s.epoch = 0 /\ s.done = stores[i].done /\ s.queue = stores[i].queue
      /\ s.queue \in Seq(Write)
  BY <1>1, StoreTypes DEF SameStore, Kept, StoreOK
<1>3. i = clock
  <2>1. FinalDue(stores[i])
    BY <1>2, ChainShrinks DEF Due, FinalDue
  <2> QED BY <1>1, <2>1, InChargeStore DEF InStage
<1>4. owner # s.gen
  BY <1>2 DEF IInv, DeletionOK, Alive, Stale
<1> QED BY <1>2, <1>3, <1>4 DEF IInv, ToldOK, LiveAt

\* A write that ends without having touched the files.
LEMMA NoWriteKeeps ==
  ASSUME IInv, NEW i \in Insts, Live(i), NEW s, SameStore(i, s), s.queue # <<>>,
         NEW ok \in BOOLEAN, Done(i, s, ok), ~ok \/ Stale(s),
         UNCHANGED <<clock, snapshot, recovery, tombs, dropped, overrun>>,
         \/ UNCHANGED files /\ (dirTomb => stores[i].pc # "check")
         \/ dirTomb /\ dir' = FALSE /\ runFile' = None /\ journal' = {}
  PROVE  IInv'
<1>1. UNCHANGED <<idTomb, dirTomb, epoch, deletion>>
  BY DEF tombs
<1>2. dirTomb <=> deletion = "swept"
  BY DEF IInv, DeletionOK
<1>3. dir' \in BOOLEAN /\ runFile' \in Image \cup {None} /\ journal' \subseteq Calls
  BY DEF IInv, Types, files
<1>4. Alive => journal' = journal /\ runFile' = runFile
  BY <1>2 DEF files, Alive
<1>5. FilesOK'
  <2>1. CASE dirTomb /\ dir' = FALSE /\ runFile' = None /\ journal' = {}
    BY <2>1 DEF FilesOK
  <2>2. CASE UNCHANGED files /\ (dirTomb => stores[i].pc # "check")
    <3>1. UNCHANGED <<dir, runFile, journal>>
      BY <2>2 DEF files
    <3>2. \A k \in Insts : k # i => stores'[k] = stores[k] /\ (Live(k)' <=> Live(k))
      BY DEF Done, Live, IInv, Types
    <3>3. deletion = "swept" => stores[i].pc # "check"
      BY <1>2, <2>2
    <3> QED BY <1>1, <3>1, <3>2, <3>3 DEF IInv, FilesOK
  <2> QED BY <2>1, <2>2
<1>6. Alive /\ runFile' # None => Replayable(runFile'.inst, runFile'.done)
  BY <1>4 DEF IInv, JournalOK
<1>7. \A calls : Alive /\ Holds(clock, calls) => Holds(clock, calls)'
  BY <1>4 DEF Holds
<1>8. ok /\ Alive /\ Head(s.queue) = "final" => Holds(clock, s.done)'
  <2> SUFFICES ASSUME ok, Alive, Head(s.queue) = "final" PROVE Holds(clock, s.done)'
    OBVIOUS
  <2>1. PICK calls : calls = s.done
    OBVIOUS
  <2>2. Holds(clock, calls)
    BY <2>1, StaleHolds
  <2> QED BY <1>4, <2>1, <2>2 DEF Holds
<1> QED BY <1>3, <1>4, <1>5, <1>6, <1>7, <1>8, DoneKeeps

\* The entry of a write.
LEMMA BeginKeeps == ASSUME IInv, NEW i \in Insts, WriteBegins(i) PROVE IInv'
<1> DEFINE p == stores[i]
<1>1. PICK s : s = [p EXCEPT !.dirty = FALSE]
  OBVIOUS
<1>2. /\ Live(i) /\ p.pc = "idle" /\ p.queue # <<>>
      /\ UNCHANGED <<files, clock, snapshot, recovery, tombs, crashes, dropped, overrun>>
  BY DEF WriteBegins, Live
<1>3. p \in Store /\ StoreOK(i, p)
  BY <1>2, LiveStore
<1>4. SameStore(i, s) /\ s.queue = p.queue /\ s.gen = p.gen
  <2> HIDE DEF p
  <2> QED BY <1>1, <1>3 DEF SameStore, Kept, Store, p
<1>5. CASE Stale(s)
  <2>1. Done(i, s, TRUE)
    BY <1>1, <1>5 DEF WriteBegins
  <2> QED BY <1>2, <1>4, <1>5, <2>1, NoWriteKeeps
<1>6. CASE ~Stale(s)
  <2>1. /\ stores' = [stores EXCEPT ![i] = [s EXCEPT !.pc = "mkdir"]]
        /\ UNCHANGED <<owner, active, told>>
    BY <1>1, <1>6 DEF WriteBegins
  <2>2. p.image = None
    BY <1>2, <1>3 DEF StoreOK
  <2> QED BY <1>2, <1>4, <2>1, <2>2, AwaitKeeps DEF files, hist
<1> QED BY <1>5, <1>6

\* The directory is there.
LEMMA MkdirKeeps == ASSUME IInv, NEW i \in Insts, Mkdir(i) PROVE IInv'
<1> DEFINE s == stores[i]
<1>1. /\ Live(i) /\ s.pc = "mkdir" /\ dir' = TRUE
      /\ stores' = [stores EXCEPT ![i] = [s EXCEPT !.pc = "check"]]
      /\ UNCHANGED <<runFile, journal, clock, owner, active, snapshot, recovery, tombs, hist>>
  BY DEF Mkdir, Live
<1>2. s \in Store /\ StoreOK(i, s)
  BY <1>1, LiveStore
<1>3. SameStore(i, s) /\ s.image = None /\ s.queue # <<>>
  BY <1>1, <1>2 DEF SameStore, Kept, StoreOK
<1> QED BY <1>1, <1>3, AwaitKeeps

\* t is store i with its state frozen; the journal is written only if it moved.
Freezes(i, t) ==
  /\ t \in Store /\ t.gen = stores[i].gen /\ t.epoch = stores[i].epoch /\ t.status = stores[i].status
  /\ t.done = stores[i].done /\ t.log = stores[i].log /\ t.version = stores[i].version
  /\ t.written = stores[i].written /\ t.queue = stores[i].queue
  /\ t.pc = IF stores[i].version # stores[i].written THEN "journal" ELSE "run"
  /\ t.image \in Frozen /\ t.image.inst = i /\ t.image.status = stores[i].status
  /\ t.image.done = stores[i].done /\ t.image.log = stores[i].log
  /\ t.image.version = stores[i].version

\* What the second look freezes.
LEMMA FreezeShape ==
  ASSUME NEW i \in Insts, NEW p \in Store, p = stores[i],
         NEW pc \in {"journal", "run"}, pc = IF p.version # p.written THEN "journal" ELSE "run",
         NEW image, image = [inst |-> i, status |-> p.status, done |-> p.done,
                             log |-> p.log, version |-> p.version]
  PROVE  Freezes(i, [p EXCEPT !.pc = pc, !.image = image])
<1> DEFINE u == [p EXCEPT !.pc = pc]
<1>1. /\ image \in Frozen /\ image.inst = i /\ image.status = p.status
      /\ image.done = p.done /\ image.log = p.log /\ image.version = p.version
  BY StoreTypes DEF Frozen
<1>2. /\ u \in Store /\ u.gen = p.gen /\ u.epoch = p.epoch /\ u.status = p.status /\ u.done = p.done
      /\ u.log = p.log /\ u.version = p.version /\ u.written = p.written
      /\ u.queue = p.queue /\ u.pc = pc
  BY DEF Store
<1>3. PICK t : t = [u EXCEPT !.image = image]
  OBVIOUS
<1>4. t = [p EXCEPT !.pc = pc, !.image = image]
  BY <1>3
<1> HIDE DEF u
<1>5. /\ t \in Store /\ t.gen = p.gen /\ t.epoch = p.epoch /\ t.status = p.status /\ t.done = p.done
      /\ t.log = p.log /\ t.version = p.version /\ t.written = p.written
      /\ t.queue = p.queue /\ t.pc = pc /\ t.image = image
  BY <1>1, <1>2, <1>3 DEF Store
<1> QED BY <1>1, <1>4, <1>5 DEF Freezes

\* The write is still the writer's own: it freezes the state.
LEMMA FreezeKeeps ==
  ASSUME IInv, NEW i \in Insts, Live(i), stores[i].pc = "check", ~Stale(stores[i]),
         NEW t, Freezes(i, t), stores' = [stores EXCEPT ![i] = t],
         UNCHANGED <<files, clock, owner, active, snapshot, recovery, tombs, hist>>
  PROVE  IInv'
<1>1. PICK p, image : p = stores[i] /\ image = t.image
  OBVIOUS
<1>2. PICK pc \in {"journal", "run"} : pc = IF p.version # p.written THEN "journal" ELSE "run"
  OBVIOUS
<1>3. stores' = [stores EXCEPT ![i] = t]
  OBVIOUS
<1>4. /\ p \in Store /\ StoreOK(i, p)
      /\ FinalDue(p) => InStage(i, {"finalizing", "flush", "retry"})
      /\ ~InStage(i, {"engine"}) => p.status = "terminal"
  BY <1>1, LiveStore
<1>5. /\ image \in Frozen /\ image # None /\ image.inst = i /\ image.status = p.status
      /\ image.done = p.done /\ image.log = p.log /\ image.version = p.version
  BY <1>1, NoneApart DEF Freezes
<1>6. clock' = clock /\ owner' = owner
  OBVIOUS
<1>7. p.queue # <<>>
  BY <1>1, <1>4 DEF StoreOK
<1>8. /\ t \in Store /\ t.gen = p.gen /\ t.epoch = p.epoch /\ t.status = p.status /\ t.done = p.done
      /\ t.log = p.log /\ t.version = p.version /\ t.written = p.written
      /\ t.queue = p.queue /\ t.pc = pc /\ t.image = image /\ t.queue # <<>>
  BY <1>1, <1>2, <1>7 DEF Freezes
<1>9. /\ stores' \in [Insts -> Store \cup {None}] /\ stores'[i] = t
      /\ \A k \in Insts : k # i => stores'[k] = stores[k]
      /\ \A k \in Insts : Live(k)' <=> Live(k)
      /\ \A k : LiveAt(k)' <=> LiveAt(k)
  BY <1>3, <1>8, OneStore DEF IInv
<1>10. /\ UNCHANGED <<dir, runFile, journal, dropped, told, overrun, idTomb, dirTomb, epoch, deletion>>
       /\ \A k, S : InStage(k, S)' <=> InStage(k, S)
       /\ owner = p.gen /\ ~dirTomb
  BY <1>1 DEF files, hist, tombs, InStage, Stale
<1>11. Types'
  BY <1>9, <1>10 DEF IInv, Types
<1>12. StoresOK'
  <2>1. ASSUME NEW k \in Insts, Live(k), k # i PROVE StoreOK(k, stores[k])'
    BY <1>9, <2>1 DEF IInv, StoresOK, StoreOK
  <2>2. p.version \in Nat
    BY <1>4, StoreTypes
  <2>3. StoreOK(i, stores[i])'
    BY <1>4, <1>5, <1>6, <1>8, <1>9, <2>2 DEF StoreOK
  <2> QED BY <1>9, <2>1, <2>3 DEF StoresOK
<1>13. ChargeOK'
  <2>1. ASSUME NEW k \in Insts, Live(k)
        PROVE  /\ FinalDue(stores[k])' => InStage(k, {"finalizing", "flush", "retry"})'
               /\ ~InStage(k, {"engine"})' => stores'[k].status = "terminal"
               /\ FreezesFinal(k, stores[k])'
    <3>1. CASE k # i
      BY <1>9, <1>10, <2>1, <3>1, OtherCharge
    <3>2. CASE k = i
      <4>1. /\ FinalDue(stores[k])' <=> FinalDue(p)
            /\ stores'[k].status = p.status
        BY <1>8, <1>9, <3>2 DEF FinalDue
      <4>2. ~InStage(i, {"engine", "finalizing"}) => p.status = "terminal"
        BY <1>4 DEF InStage
      <4>3. Head(p.queue) = "final" => p.status = "terminal"
        <5>1. p.queue \in Seq(Write) /\ p.queue # <<>>
          BY <1>4, <1>8, StoreTypes
        <5>2. Head(p.queue) = "final" => FinalDue(p)
          BY <5>1, ChainShrinks DEF Due, FinalDue
        <5> QED BY <1>4, <5>2 DEF InStage
      <4>4. FreezesFinal(k, stores[k])'
        BY <1>5, <1>8, <1>9, <1>10, <3>2, <4>2, <4>3 DEF FreezesFinal
      <4> QED BY <1>4, <1>10, <3>2, <4>1, <4>4
    <3> QED BY <3>1, <3>2
  <2>2. (active # None => active.inst = clock /\ LiveAt(clock)) /\ owner <= clock
    BY DEF IInv, ChargeOK
  <2> QED BY <1>9, <2>1, <2>2 DEF ChargeOK
<1>14. ViewsOK' /\ DeletionOK'
  <2>1. \A k \in Insts : stores'[k].done = stores[k].done /\ stores'[k].log = stores[k].log
    BY <1>1, <1>8, <1>9
  <2> QED BY <1>9, <1>10, <2>1 DEF IInv, ViewsOK, LiveAt, DeletionOK, Alive
<1>15. FilesOK'
  BY <1>10 DEF IInv, FilesOK, DeletionOK
<1>16. JournalOK'
  <2> SUFFICES ASSUME Alive PROVE JournalOK'
    BY <1>10 DEF JournalOK, Alive
  <2>1. \A k, calls : Replayable(k, calls) => Replayable(k, calls)'
    BY <1>1, <1>5, <1>8, <1>9, <1>10, StillReplayable
  <2>2. ASSUME NEW k \in Insts, Live(k)
        PROVE  /\ stores'[k].pc = "run" => Replayable(k, stores[k].image.done)'
               /\ stores'[k].version = stores'[k].written => Replayable(k, stores[k].log)'
    <3>1. CASE k # i
      BY <1>9, <2>1, <2>2, <3>1 DEF IInv, JournalOK
    <3>2. CASE k = i
      <4>1. /\ stores'[k].image.done = p.done /\ stores'[k].log = p.log /\ stores'[k].pc = pc
            /\ stores'[k].version = p.version /\ stores'[k].written = p.written
        BY <1>5, <1>8, <1>9, <3>2
      <4>2. ASSUME p.version = p.written PROVE Replayable(i, p.done) /\ Replayable(i, p.log)
        <5>1. Replayable(i, p.log) /\ p.done \subseteq p.log
          BY <1>1, <1>4, <4>2 DEF IInv, JournalOK, StoreOK
        <5> QED BY <5>1 DEF Replayable
      <4>3. p.version = p.written => Replayable(i, p.done)' /\ Replayable(i, p.log)'
        BY <2>1, <4>2
      <4> QED BY <1>2, <3>2, <4>1, <4>3 DEF Replayable
    <3> QED BY <3>1, <3>2
  <2> QED BY <1>9, <2>1, <2>2, <1>10 DEF IInv, JournalOK
<1>17. ToldOK'
  <2>1. \A k \in Insts : stores'[k].done = stores[k].done /\ stores'[k].gen = stores[k].gen
    BY <1>1, <1>8, <1>9
  <2>2. \A k, calls : Holds(k, calls)' <=> Holds(k, calls)
    BY <1>10 DEF Holds
  <2>3. clock = i => owner = stores'[clock].gen
    BY <1>8, <1>9, <1>10
  <2> QED BY <1>9, <1>10, <2>1, <2>2, <2>3 DEF IInv, ToldOK, Alive, LiveAt
<1> QED BY <1>11, <1>12, <1>13, <1>14, <1>15, <1>16, <1>17 DEF IInv

\* The second look, after the await.
LEMMA CheckKeeps == ASSUME IInv, NEW i \in Insts, WriteChecks(i) PROVE IInv'
<1> DEFINE s == stores[i]
<1>1. /\ Live(i) /\ s.pc = "check"
      /\ UNCHANGED <<clock, snapshot, recovery, tombs, crashes, dropped, overrun>>
  BY DEF WriteChecks, Live
<1>2. s \in Store /\ StoreOK(i, s)
  BY <1>1, LiveStore
<1>3. SameStore(i, s) /\ s.queue # <<>>
  BY <1>1, <1>2 DEF SameStore, Kept, StoreOK
<1>4. CASE Stale(s)
  <2>1. Done(i, s, TRUE)
    BY <1>4 DEF WriteChecks
  <2>2. \/ UNCHANGED files /\ ~dirTomb
        \/ dirTomb /\ dir' = FALSE /\ runFile' = None /\ journal' = {}
    BY <1>4 DEF WriteChecks
  <2> QED BY <1>1, <1>3, <1>4, <2>1, <2>2, NoWriteKeeps
<1>5. CASE ~Stale(s)
  <2>1. /\ stores' = [stores EXCEPT ![i] =
             [s EXCEPT !.pc = IF s.version # s.written THEN "journal" ELSE "run",
                       !.image = [inst |-> i, status |-> s.status, done |-> s.done,
                                  log |-> s.log, version |-> s.version]]]
        /\ UNCHANGED <<files, owner, active, told>>
    BY <1>5 DEF WriteChecks
  <2>2. PICK p, pc, image : /\ p = s /\ pc = IF p.version # p.written THEN "journal" ELSE "run"
                            /\ image = [inst |-> i, status |-> p.status, done |-> p.done,
                                        log |-> p.log, version |-> p.version]
    OBVIOUS
  <2>3. PICK t : t = [p EXCEPT !.pc = pc, !.image = image]
    OBVIOUS
  <2>4. stores' = [stores EXCEPT ![i] = t]
    BY <2>1, <2>2, <2>3
  <2>5. Freezes(i, t)
    BY <1>2, <2>2, <2>3, FreezeShape
  <2> QED BY <1>1, <1>5, <2>1, <2>4, <2>5, FreezeKeeps DEF hist
<1> QED BY <1>4, <1>5

\* The journal is on disk.
LEMMA JournalLands ==
  ASSUME IInv, NEW i \in Insts, Live(i), stores[i].pc = "journal", dir, UNCHANGED dir,
         NEW t \in Store, stores' = [stores EXCEPT ![i] = t],
         t.gen = stores[i].gen, t.epoch = stores[i].epoch, t.status = stores[i].status,
         t.done = stores[i].done, t.log = stores[i].log, t.version = stores[i].version,
         t.queue = stores[i].queue, t.image = stores[i].image,
         t.written = stores[i].image.version, t.pc = "run",
         journal' = stores[i].image.log, overrun' = Late(i),
         UNCHANGED <<runFile, clock, owner, active, snapshot, recovery, tombs, dropped, told>>
  PROVE  IInv'
<1>1. PICK p, image : p = stores[i] /\ image = p.image
  OBVIOUS
<1>2. /\ p \in Store /\ StoreOK(i, p)
      /\ FinalDue(p) => InStage(i, {"finalizing", "flush", "retry"})
      /\ ~InStage(i, {"engine"}) => p.status = "terminal"
      /\ FreezesFinal(i, p)
  BY <1>1, LiveStore
<1>3. /\ image \in Frozen /\ image # None /\ image.inst = i /\ image.version <= p.version
      /\ image.log \subseteq p.log /\ image.done \subseteq image.log /\ p.queue # <<>>
      /\ image.version = p.version => image.log = p.log
      /\ i \in 1..clock /\ image.log \subseteq Calls /\ image.version \in Nat /\ p.version \in Nat
  <2>1. image # None /\ image \in Frozen \cup {None} /\ p.queue # <<>> /\ p.version \in Nat
    BY <1>1, <1>2, StoreTypes DEF StoreOK
  <2>2. image.log \subseteq Calls /\ image.version \in Nat
    BY <2>1 DEF Frozen
  <2> QED BY <1>1, <1>2, <2>1, <2>2 DEF StoreOK
<1>4. /\ stores' \in [Insts -> Store \cup {None}] /\ stores'[i] = t
      /\ \A k \in Insts : k # i => stores'[k] = stores[k]
      /\ \A k \in Insts : Live(k)' <=> Live(k)
      /\ \A k : LiveAt(k)' <=> LiveAt(k)
  BY OneStore DEF IInv
<1>5. /\ UNCHANGED <<dir, runFile, dropped, told, idTomb, dirTomb, epoch, deletion>>
      /\ \A k, S : InStage(k, S)' <=> InStage(k, S)
  BY DEF tombs, InStage
<1>6. /\ overrun \subseteq overrun'
      /\ \A k \in Insts : i < clock /\ k >= i /\ k <= clock => k \in overrun'
  <2>1. clock \in Nat /\ i \in Nat
    BY <1>3 DEF Insts, IInv, Types
  <2> QED BY <2>1 DEF Late, Insts
<1>7. Types'
  BY <1>1, <1>3, <1>4, <1>5 DEF IInv, Types
<1>8. StoresOK'
  <2>1. ASSUME NEW k \in Insts, Live(k), k # i PROVE StoreOK(k, stores[k])'
    BY <1>4, <2>1 DEF IInv, StoresOK, StoreOK
  <2>2. StoreOK(i, stores[i])'
    BY <1>1, <1>2, <1>3, <1>4 DEF StoreOK
  <2> QED BY <1>4, <2>1, <2>2 DEF StoresOK
<1>9. ChargeOK'
  <2>1. ASSUME NEW k \in Insts, Live(k)
        PROVE  /\ FinalDue(stores[k])' => InStage(k, {"finalizing", "flush", "retry"})'
               /\ ~InStage(k, {"engine"})' => stores'[k].status = "terminal"
               /\ FreezesFinal(k, stores[k])'
    <3>1. CASE k # i
      BY <1>4, <1>5, <2>1, <3>1, OtherCharge
    <3>2. CASE k = i
      BY <1>1, <1>2, <1>4, <1>5, <3>2 DEF FinalDue, FreezesFinal
    <3> QED BY <3>1, <3>2
  <2>2. (active # None => active.inst = clock /\ LiveAt(clock)) /\ owner <= clock
    BY DEF IInv, ChargeOK
  <2> QED BY <1>4, <2>1, <2>2 DEF ChargeOK
<1>10. ViewsOK' /\ DeletionOK'
  <2>1. \A k \in Insts : stores'[k].done = stores[k].done /\ stores'[k].log = stores[k].log
    BY <1>4
  <2> QED BY <1>4, <1>5, <2>1 DEF IInv, ViewsOK, LiveAt, DeletionOK, Alive
<1>11. FilesOK'
  <2>1. \A k \in Insts : Live(k) /\ stores[k].pc = "check" => stores'[k].pc = "check"
    BY <1>4
  <2> QED BY <1>4, <1>5, <2>1 DEF IInv, FilesOK
<1>12. JournalOK'
  <2> SUFFICES ASSUME Alive PROVE JournalOK'
    BY <1>5 DEF JournalOK, Alive
  <2>1. ASSUME NEW k \in Insts, k <= clock, NEW calls, Replayable(k, calls) PROVE Replayable(k, calls)'
    <3> SUFFICES ASSUME k \notin dropped \cup overrun' PROVE Replayable(k, calls)'
      BY <1>5 DEF Replayable
    <3>1. k <= i /\ k \in Int /\ i \in Int
      BY <1>3, <1>6, <2>1 DEF Insts, IInv, Types
    <3>2. calls \subseteq image.log
      BY <1>1, <1>3, <1>6, <2>1, <3>1 DEF Replayable
    <3>3. \A m \in Insts : m >= k /\ Live(m) =>
            /\ calls \subseteq stores[m].log
            /\ stores[m].image # None => calls \subseteq stores[m].image.log
      BY <1>6, <2>1 DEF Replayable
    <3>4. \A m \in Insts : stores'[m].log = stores[m].log /\ stores'[m].image = stores[m].image
      BY <1>4
    <3> QED BY <1>1, <1>4, <3>2, <3>3, <3>4 DEF Replayable
  <2>2. ASSUME NEW calls, calls \subseteq image.log PROVE Replayable(i, calls)'
    <3> SUFFICES ASSUME i \notin overrun' PROVE Replayable(i, calls)'
      BY DEF Replayable
    <3>1. \A m \in Insts : m >= i /\ Live(m) => m = i
      <4>1. ~(i < clock)
        BY <1>3, <1>6 DEF Insts, IInv, Types
      <4>2. \A m \in Insts : Live(m) => m <= clock
        BY DEF IInv, StoresOK, StoreOK
      <4> QED BY <1>3, <4>1, <4>2 DEF Insts, IInv, Types
    <3> QED BY <1>1, <1>3, <1>4, <2>2, <3>1 DEF Replayable
  <2>3. ASSUME NEW k \in Insts, Live(k)
        PROVE  /\ stores'[k].pc = "run" => Replayable(k, stores[k].image.done)'
               /\ stores'[k].version = stores'[k].written => Replayable(k, stores[k].log)'
    <3>1. CASE k # i
      <4>1. k <= clock
        BY <2>3 DEF IInv, StoresOK, StoreOK
      <4> QED BY <1>4, <2>1, <2>3, <3>1, <4>1 DEF IInv, JournalOK
    <3>2. CASE k = i
      BY <1>1, <1>3, <1>4, <2>2, <3>2
    <3> QED BY <3>1, <3>2
  <2>4. runFile # None => runFile.inst \in Insts /\ runFile.inst <= clock
    BY DEF IInv, FilesOK, Types, Image
  <2>5. recovery # None => recovery.inst \in Insts /\ recovery.inst <= clock
    BY DEF IInv, ViewsOK, LiveAt, StoresOK, StoreOK
  <2> QED BY <1>4, <1>5, <2>1, <2>3, <2>4, <2>5 DEF IInv, JournalOK
<1>13. ToldOK'
  <2>1. \A k \in Insts : stores'[k].done = stores[k].done /\ stores'[k].gen = stores[k].gen
    BY <1>4
  <2>2. \A k, calls : Holds(k, calls) => Holds(k, calls)'
    BY <1>5, <1>6 DEF Holds
  <2>3. clock = i => owner = stores'[clock].gen
    BY <1>4 DEF IInv, ToldOK, LiveAt
  <2> QED BY <1>4, <1>5, <2>1, <2>2, <2>3 DEF IInv, ToldOK, Alive, LiveAt
<1> QED BY <1>7, <1>8, <1>9, <1>10, <1>11, <1>12, <1>13 DEF IInv

\* The journal is written, or the write fails.
LEMMA WriteJournalKeeps == ASSUME IInv, NEW i \in Insts, NEW ok \in BOOLEAN, WriteJournal(i, ok) PROVE IInv'
<1> DEFINE s == stores[i]
<1>1. /\ Live(i) /\ s.pc = "journal" /\ (ok => dir)
      /\ UNCHANGED <<dir, runFile, clock, snapshot, recovery, tombs, crashes, dropped>>
  BY DEF WriteJournal, Live
<1>2. s \in Store /\ StoreOK(i, s)
  BY <1>1, LiveStore
<1>3. SameStore(i, s) /\ s.queue # <<>>
  BY <1>1, <1>2 DEF SameStore, Kept, StoreOK
<1>4. CASE ~ok
  <2>1. Done(i, s, FALSE) /\ UNCHANGED <<journal, overrun>>
    BY <1>4 DEF WriteJournal
  <2> QED BY <1>1, <1>3, <2>1, NoWriteKeeps DEF files
<1>5. CASE ok
  <2>1. /\ journal' = s.image.log /\ overrun' = Late(i) /\ UNCHANGED <<owner, active, told>>
        /\ stores' = [stores EXCEPT ![i].written = stores[i].image.version, ![i].pc = "run"]
    BY <1>5 DEF WriteJournal
  <2>2. PICK p, v : p = s /\ v = s.image.version
    OBVIOUS
  <2>3. PICK u : u = [p EXCEPT !.written = v]
    OBVIOUS
  <2>4. PICK t : t = [u EXCEPT !.pc = "run"]
    OBVIOUS
  <2>5. v \in Int
    <3>1. s.image \in Frozen
      BY <1>1, <1>2, StoreTypes DEF StoreOK
    <3> QED BY <2>2, <3>1 DEF Frozen
  <2>6. /\ u \in Store /\ u.gen = p.gen /\ u.epoch = p.epoch /\ u.status = p.status /\ u.done = p.done
        /\ u.log = p.log /\ u.version = p.version /\ u.written = v
        /\ u.queue = p.queue /\ u.image = p.image
    BY <1>2, <2>2, <2>3, <2>5 DEF Store
  <2>7. /\ t \in Store /\ t.gen = u.gen /\ t.epoch = u.epoch /\ t.status = u.status /\ t.done = u.done
        /\ t.log = u.log /\ t.version = u.version /\ t.written = u.written
        /\ t.queue = u.queue /\ t.image = u.image /\ t.pc = "run"
    BY <2>4, <2>6 DEF Store
  <2>8. stores' = [stores EXCEPT ![i] = t]
    BY <2>1, <2>2, <2>3, <2>4 DEF IInv, Types
  <2> QED BY <1>1, <1>5, <2>1, <2>2, <2>6, <2>7, <2>8, JournalLands
<1> QED BY <1>4, <1>5

\* run.json is written, or the write fails.
LEMMA WriteRunKeeps == ASSUME IInv, NEW i \in Insts, NEW ok \in BOOLEAN, WriteRun(i, ok) PROVE IInv'
<1> PICK s : s = stores[i]
  OBVIOUS
<1>1. /\ Live(i) /\ s.pc = "run" /\ (ok => dir) /\ Done(i, s, ok)
      /\ UNCHANGED <<dir, journal, clock, snapshot, recovery, tombs, crashes, dropped>>
  BY DEF WriteRun, Live
<1>2. s \in Store /\ StoreOK(i, s) /\ FreezesFinal(i, s)
  BY <1>1, LiveStore
<1>3. SameStore(i, s) /\ s.queue # <<>>
  BY <1>1, <1>2 DEF SameStore, Kept, StoreOK
<1>4. CASE ~ok
  <2>1. UNCHANGED <<runFile, overrun>>
    BY <1>4 DEF WriteRun
  <2> QED BY <1>1, <1>3, <1>4, <2>1, NoWriteKeeps DEF files
<1>5. CASE ok
  <2>1. runFile' = RunRecord(s.image) /\ overrun' = Overruns(i)
    BY <1>5 DEF WriteRun
  <2>2. s.image \in Frozen /\ s.image.inst = i /\ s.image # None /\ i \in 1..clock
    BY <1>1, <1>2, StoreTypes, NoneApart DEF StoreOK
  <2>3. /\ runFile' \in Image /\ runFile' # None /\ runFile'.inst = i
        /\ runFile'.status = s.image.status /\ runFile'.done = s.image.done
    <3>1. runFile' \in Image
      BY <2>1, <2>2 DEF RunRecord, Frozen, Image
    <3> QED BY <2>1, <2>2, <3>1, NoneApart DEF RunRecord
  <2>4. UNCHANGED <<idTomb, dirTomb, epoch, deletion>> /\ dir' \in BOOLEAN /\ journal' \subseteq Calls
    BY <1>1 DEF tombs, IInv, Types
  <2>5. FilesOK'
    <3>1. \A k \in Insts : k # i => stores'[k] = stores[k] /\ (Live(k)' <=> Live(k))
      BY <1>1 DEF Done, Live, IInv, Types
    <3> QED BY <1>1, <1>5, <2>2, <2>3, <2>4, <3>1 DEF IInv, FilesOK
  <2>6. overrun \subseteq overrun'
    BY <2>1 DEF Overruns
  <2>7. Alive => Replayable(runFile'.inst, runFile'.done)
    BY <1>1, <2>3 DEF IInv, JournalOK
  <2>8. ASSUME Alive, i = clock => owner # s.gen, NEW calls, Holds(clock, calls) PROVE Holds(clock, calls)'
    <3>1. i # clock
      BY <1>1, <2>8 DEF IInv, ToldOK, LiveAt
    <3>2. i < clock /\ clock' = clock
      BY <1>1, <2>2, <3>1 DEF IInv, Types
    <3> QED BY <2>1, <2>8, <3>2 DEF Holds, Overruns
  <2>9. Head(s.queue) = "final" => Holds(clock, s.done)'
    <3> SUFFICES ASSUME Head(s.queue) = "final" PROVE Holds(clock, s.done)'
      OBVIOUS
    <3>1. /\ runFile'.status = "terminal" /\ runFile'.done = s.done
      BY <1>2, <2>2, <2>3 DEF FreezesFinal
    <3>2. i = clock
      BY <1>1, <1>3, DoneMoves
    <3>3. s.done = stores'[i].done
      <4>1. PICK t \in Store : stores' = [stores EXCEPT ![i] = t] /\ t.done = s.done
        BY <1>1, <1>3, DoneMoves
      <4> QED BY <4>1 DEF IInv, Types
    <3> QED BY <1>1, <2>3, <3>1, <3>2, <3>3 DEF Holds
  <2> QED BY <1>1, <1>3, <2>3, <2>4, <2>5, <2>6, <2>7, <2>8, <2>9, DoneKeeps
<1> QED BY <1>4, <1>5

-----------------------------------------------------------------------------
\* Steps that leave the stores and the run in charge alone.
LEMMA StoresRest ==
  ASSUME IInv, UNCHANGED <<clock, stores, owner, active>>
  PROVE  /\ StoresOK' /\ ChargeOK'
         /\ \A k : Live(k)' <=> Live(k)
         /\ \A k : LiveAt(k)' <=> LiveAt(k)
         /\ \A k, S : InStage(k, S)' <=> InStage(k, S)
<1>1. /\ \A k : Live(k)' <=> Live(k)
      /\ \A k : LiveAt(k)' <=> LiveAt(k)
      /\ \A k, S : InStage(k, S)' <=> InStage(k, S)
  BY DEF Live, LiveAt, InStage
<1>2. StoresOK'
  BY <1>1 DEF IInv, StoresOK, StoreOK
<1>3. ChargeOK'
  BY <1>1 DEF IInv, ChargeOK, FreezesFinal
<1> QED BY <1>1, <1>2, <1>3

\* What a write-back is about: a store that is there, and is not being run.
LEMMA RecoveredStore ==
  ASSUME IInv, recovery # None
  PROVE  /\ recovery \in Recovery /\ recovery.inst \in Insts /\ Live(recovery.inst)
         /\ recovery.inst <= clock
         /\ StoreOK(recovery.inst, stores[recovery.inst]) /\ ~InStage(recovery.inst, {"engine", "finalizing"})
         /\ FreezesFinal(recovery.inst, stores[recovery.inst])
         /\ recovery.done = stores[recovery.inst].done /\ recovery.log = stores[recovery.inst].log
         /\ recovery.done \subseteq recovery.log /\ recovery.log \subseteq Calls /\ recovery.done \subseteq Calls
         /\ Alive => recovery.epoch = 0
<1>1. /\ recovery \in Recovery /\ recovery.inst \in Insts /\ Live(recovery.inst)
      /\ recovery.done = stores[recovery.inst].done /\ recovery.log = stores[recovery.inst].log
      /\ ~InStage(recovery.inst, {"engine", "finalizing"}) /\ (Alive => recovery.epoch = 0)
  BY DEF IInv, Types, ViewsOK, DeletionOK, LiveAt, InStage
<1>2. StoreOK(recovery.inst, stores[recovery.inst]) /\ FreezesFinal(recovery.inst, stores[recovery.inst])
  BY <1>1, LiveStore
<1>3. recovery.log \subseteq Calls /\ recovery.done \subseteq Calls
  BY <1>1 DEF Recovery
<1>4. recovery.inst <= clock /\ stores[recovery.inst].done \subseteq stores[recovery.inst].log
  BY <1>2 DEF StoreOK
<1> QED BY <1>1, <1>2, <1>3, <1>4

\* A write-back moves on, or ends; the snapshot is kept or forgotten.
LEMMA RecoveryMoves ==
  ASSUME IInv, UNCHANGED <<clock, stores, owner, active, tombs, hist>>,
         snapshot' \in {None, snapshot},
         \/ recovery' = None
         \/ /\ recovery' \in Recovery /\ recovery'.pc # "run"
            /\ \/ /\ recovery # None /\ recovery'.inst = recovery.inst /\ recovery'.epoch = recovery.epoch
                  /\ recovery'.done = recovery.done /\ recovery'.log = recovery.log
               \/ /\ snapshot # None /\ recovery'.inst = snapshot.inst /\ recovery'.epoch = snapshot.epoch
                  /\ recovery'.done = snapshot.done /\ recovery'.log = snapshot.log,
         dir' \in BOOLEAN, runFile' \in {None, runFile}, journal' \in {{}, journal}, FilesOK',
         Alive => UNCHANGED <<runFile, journal>>
  PROVE  IInv'
<1>1. /\ StoresOK' /\ ChargeOK'
      /\ \A k : Live(k)' <=> Live(k)
      /\ \A k : LiveAt(k)' <=> LiveAt(k)
      /\ \A k, S : InStage(k, S)' <=> InStage(k, S)
  BY StoresRest
<1>2. UNCHANGED <<clock, stores, owner, active, dropped, told, overrun, idTomb, dirTomb, epoch, deletion>>
  BY DEF hist, tombs
<1>3. Types'
  <2>1. recovery' \in Recovery \cup {None} /\ snapshot' \in Snapshot \cup {None}
    BY DEF IInv, Types
  <2>2. dir' \in BOOLEAN /\ runFile' \in Image \cup {None} /\ journal' \subseteq Calls
    BY DEF IInv, Types
  <2> QED BY <1>2, <2>1, <2>2 DEF IInv, Types
<1>4. ViewsOK'
  <2>1. recovery' # None =>
          /\ LiveAt(recovery'.inst) /\ (active # None => recovery'.inst # active.inst)
          /\ recovery'.done = stores[recovery'.inst].done /\ recovery'.log = stores[recovery'.inst].log
    BY DEF IInv, ViewsOK
  <2>2. snapshot' # None =>
          /\ active = None /\ LiveAt(clock) /\ snapshot'.inst = clock
          /\ snapshot'.done = stores[clock].done /\ snapshot'.log = stores[clock].log
    BY DEF IInv, ViewsOK
  <2> QED BY <1>1, <1>2, <2>1, <2>2 DEF ViewsOK
<1>5. DeletionOK'
  <2>1. Alive => /\ (snapshot' # None => snapshot'.epoch = 0)
                 /\ (recovery' # None => recovery'.epoch = 0)
    BY DEF IInv, DeletionOK
  <2> QED BY <1>2, <2>1 DEF IInv, DeletionOK, Alive
<1>6. JournalOK'
  <2> SUFFICES ASSUME Alive PROVE JournalOK'
    BY <1>2 DEF JournalOK, Alive
  <2>1. \A i, calls : Replayable(i, calls)' <=> Replayable(i, calls)
    BY <1>1, <1>2 DEF Replayable
  <2>2. recovery' = None \/ recovery'.pc # "run"
    OBVIOUS
  <2> QED BY <1>1, <1>2, <2>1, <2>2 DEF IInv, JournalOK
<1>7. ToldOK'
  <2>1. \A i, calls : Alive => (Holds(i, calls)' <=> Holds(i, calls))
    BY <1>2 DEF Holds
  <2> QED BY <1>1, <1>2, <2>1 DEF IInv, ToldOK, Alive
<1> QED BY <1>1, <1>3, <1>4, <1>5, <1>6, <1>7 DEF IInv

\* The write-back of a snapshot begins.
LEMMA RecoverBeginsKeeps == ASSUME IInv, RecoverBegins PROVE IInv'
<1>1. /\ snapshot # None /\ recovery = None /\ snapshot \in Snapshot
      /\ UNCHANGED <<dir, runFile, journal, clock, stores, owner, active, tombs, hist>>
  BY DEF RecoverBegins, files, IInv, Types
<1>2. /\ snapshot' \in {None, snapshot}
      /\ \/ recovery' = None
         \/ /\ recovery' \in Recovery /\ recovery'.pc # "run"
            /\ recovery'.inst = snapshot.inst /\ recovery'.epoch = snapshot.epoch
            /\ recovery'.done = snapshot.done /\ recovery'.log = snapshot.log
  BY <1>1 DEF RecoverBegins, Recovery, Snapshot
<1>3. FilesOK'
  BY <1>1 DEF IInv, FilesOK, tombs, Live
<1>4. dir' \in BOOLEAN
  BY <1>1 DEF IInv, Types
<1> QED BY <1>1, <1>2, <1>3, <1>4, RecoveryMoves

\* The directory is there again; the second look is still to come.
LEMMA RecoverMkdirKeeps == ASSUME IInv, RecoverMkdir PROVE IInv'
<1>1. /\ recovery # None /\ recovery.pc = "mkdir" /\ recovery \in Recovery
      /\ dir' = TRUE /\ recovery' = [recovery EXCEPT !.pc = "check"]
      /\ UNCHANGED <<runFile, journal, clock, stores, owner, active, snapshot, tombs, hist>>
  BY DEF RecoverMkdir, Recovering, IInv, Types
<1>2. /\ recovery' \in Recovery /\ recovery'.pc = "check"
      /\ recovery'.inst = recovery.inst /\ recovery'.epoch = recovery.epoch
      /\ recovery'.done = recovery.done /\ recovery'.log = recovery.log
  BY <1>1 DEF Recovery
<1>3. recovery' # None
  BY <1>2, NoneApart
<1>4. FilesOK'
  BY <1>1, <1>2, <1>3 DEF IInv, FilesOK
<1> QED BY <1>1, <1>2, <1>4, RecoveryMoves

\* The second look: a deletion in between ends the write-back, and after the
\* sweep removes what it rebuilt.
LEMMA RecoverChecksKeeps == ASSUME IInv, RecoverChecks PROVE IInv'
<1>1. /\ recovery # None /\ recovery.pc = "check" /\ recovery \in Recovery
      /\ UNCHANGED <<clock, stores, owner, active, tombs, hist>>
  BY DEF RecoverChecks, Recovering, IInv, Types
<1>2. /\ \A k : Live(k)' <=> Live(k)
      /\ UNCHANGED <<clock, stores, deletion>> /\ (dirTomb <=> deletion = "swept")
  BY <1>1 DEF Live, tombs, IInv, DeletionOK
<1>3. CASE dirTomb
  <2>1. /\ dir' = FALSE /\ runFile' = None /\ journal' = {} /\ recovery' = None
        /\ snapshot' \in {None, snapshot}
    BY <1>3 DEF RecoverChecks, RecoveryEnds, Dead
  <2>2. FilesOK' /\ ~Alive
    BY <1>2, <1>3, <2>1 DEF FilesOK, Alive
  <2> QED BY <1>1, <2>1, <2>2, RecoveryMoves
<1>4. CASE ~dirTomb
  <2>1. UNCHANGED <<dir, runFile, journal>> /\ snapshot' \in {None, snapshot}
    BY <1>4 DEF RecoverChecks, RecoveryEnds, files
  <2>2. \/ recovery' = None
        \/ recovery' = [recovery EXCEPT !.pc = "journal"]
    BY DEF RecoverChecks, RecoveryEnds
  <2>3. \/ recovery' = None
        \/ /\ recovery' \in Recovery /\ recovery'.pc # "run"
           /\ recovery'.inst = recovery.inst /\ recovery'.epoch = recovery.epoch
           /\ recovery'.done = recovery.done /\ recovery'.log = recovery.log
    BY <1>1, <2>2 DEF Recovery
  <2>4. FilesOK' /\ dir' \in BOOLEAN
    BY <1>2, <1>4, <2>1 DEF IInv, FilesOK, Types
  <2> QED BY <1>1, <2>1, <2>3, <2>4, RecoveryMoves
<1> QED BY <1>3, <1>4

\* The write-back has written the journal, or failed to.
LEMMA RecoverJournalKeeps == ASSUME IInv, NEW ok \in BOOLEAN, RecoverJournal(ok) PROVE IInv'
<1>1. /\ recovery # None /\ recovery.pc = "journal" /\ recovery \in Recovery /\ (ok => dir)
      /\ UNCHANGED <<dir, runFile, clock, stores, owner, active, tombs, dropped, told>>
  BY DEF RecoverJournal, Recovering, IInv, Types
<1>2. /\ \A k : Live(k)' <=> Live(k)
      /\ \A k : LiveAt(k)' <=> LiveAt(k)
      /\ \A k, S : InStage(k, S)' <=> InStage(k, S)
      /\ StoresOK' /\ ChargeOK'
      /\ UNCHANGED <<clock, stores, idTomb, dirTomb, epoch, deletion>>
  BY <1>1, StoresRest DEF tombs
<1>3. CASE ~ok
  <2>1. recovery' = None /\ snapshot' \in {None, snapshot} /\ UNCHANGED <<journal, overrun>>
    BY <1>3 DEF RecoverJournal, RecoveryEnds
  <2>2. FilesOK' /\ dir' \in BOOLEAN /\ UNCHANGED hist
    BY <1>1, <1>2, <2>1 DEF IInv, FilesOK, Types, hist
  <2> QED BY <1>1, <2>1, <2>2, RecoveryMoves
<1>4. CASE ok
  <2> PICK i, log, done : i = recovery.inst /\ log = recovery.log /\ done = recovery.done
    OBVIOUS
  <2>1. /\ journal' = log /\ overrun' = Late(i) /\ snapshot' = snapshot
        /\ recovery' = [recovery EXCEPT !.pc = "run"]
    BY <1>4 DEF RecoverJournal
  <2>2. /\ recovery' \in Recovery /\ recovery'.pc = "run"
        /\ recovery'.inst = i /\ recovery'.epoch = recovery.epoch
        /\ recovery'.done = done /\ recovery'.log = log
    BY <1>1, <2>1 DEF Recovery
  <2>3. /\ i \in Insts /\ Live(i) /\ i <= clock /\ StoreOK(i, stores[i])
        /\ ~InStage(i, {"engine", "finalizing"}) /\ FreezesFinal(i, stores[i])
        /\ done = stores[i].done /\ log = stores[i].log /\ done \subseteq log /\ log \subseteq Calls
    BY <1>1, RecoveredStore
  <2>4. clock \in Nat /\ i \in Nat
    BY <2>3 DEF Insts, IInv, Types
  <2>5. /\ overrun \subseteq overrun'
        /\ \A k \in Insts : i < clock /\ k >= i /\ k <= clock => k \in overrun'
    BY <2>1, <2>4 DEF Late, Insts
  <2>6. Types'
    BY <1>1, <1>2, <2>1, <2>2, <2>3 DEF IInv, Types
  <2>7. ViewsOK'
    <3>1. /\ LiveAt(i) /\ (active # None => i # active.inst)
          /\ done = stores[i].done /\ log = stores[i].log
      BY <1>1 DEF IInv, ViewsOK
    <3> QED BY <1>1, <1>2, <2>1, <2>2, <3>1 DEF IInv, ViewsOK
  <2>8. DeletionOK'
    <3>1. Alive => recovery'.epoch = 0
      BY <1>1, <2>2 DEF IInv, DeletionOK
    <3> QED BY <1>2, <2>1, <3>1 DEF IInv, DeletionOK, Alive
  <2>9. FilesOK'
    <3>1. UNCHANGED <<dir, runFile>> /\ dir
      BY <1>1, <1>4
    <3>2. recovery.pc # "check"
      BY <1>1
    <3> QED BY <1>2, <3>1, <3>2 DEF IInv, FilesOK
  <2>10. JournalOK'
    <3> SUFFICES ASSUME Alive PROVE JournalOK'
      BY <1>2 DEF JournalOK, Alive
    <3>1. ASSUME NEW k \in Insts, k <= clock, NEW calls, Replayable(k, calls) PROVE Replayable(k, calls)'
      <4> SUFFICES ASSUME k \notin dropped \cup overrun' PROVE Replayable(k, calls)'
        BY <1>1 DEF Replayable
      <4>1. k <= i
        BY <2>3, <2>4, <2>5, <3>1 DEF Insts
      <4>2. \A m \in Insts : m >= k /\ Live(m) =>
              /\ calls \subseteq stores[m].log
              /\ stores[m].image # None => calls \subseteq stores[m].image.log
        BY <2>5, <3>1 DEF Replayable
      <4>3. calls \subseteq log
        BY <2>3, <4>1, <4>2
      <4> QED BY <1>2, <2>1, <4>2, <4>3 DEF Replayable
    <3>2. ASSUME NEW calls, calls \subseteq log PROVE Replayable(i, calls)'
      <4> SUFFICES ASSUME i \notin overrun' PROVE Replayable(i, calls)'
        BY DEF Replayable
      <4>1. \A m \in Insts : m >= i /\ Live(m) => m = i
        <5>1. ~(i < clock)
          BY <2>3, <2>4, <2>5
        <5>2. \A m \in Insts : Live(m) => m <= clock
          BY DEF IInv, StoresOK, StoreOK
        <5> QED BY <2>3, <2>4, <5>1, <5>2 DEF Insts
      <4>2. stores[i].image # None => stores[i].image.log = log
        BY <2>3 DEF FreezesFinal
      <4> QED BY <1>2, <2>1, <2>3, <3>2, <4>1, <4>2 DEF Replayable
    <3>3. \A k \in Insts : Live(k) =>
            /\ stores[k].pc = "run" => Replayable(k, stores[k].image.done)
            /\ stores[k].version = stores[k].written => Replayable(k, stores[k].log)
      BY DEF IInv, JournalOK
    <3>4. \A k \in Insts : Live(k) => k <= clock
      BY DEF IInv, StoresOK, StoreOK
    <3>5. ASSUME NEW k \in Insts, Live(k)
          PROVE  /\ stores[k].pc = "run" => Replayable(k, stores[k].image.done)'
                 /\ stores[k].version = stores[k].written => Replayable(k, stores[k].log)'
      <4> PICK a, b : a = stores[k].image.done /\ b = stores[k].log
        OBVIOUS
      <4>1. /\ stores[k].pc = "run" => Replayable(k, a)'
            /\ stores[k].version = stores[k].written => Replayable(k, b)'
        BY <3>1, <3>3, <3>4, <3>5
      <4> QED BY <1>2, <4>1
    <3>6. runFile # None => Replayable(runFile.inst, runFile.done)'
      <4> SUFFICES ASSUME runFile # None PROVE Replayable(runFile.inst, runFile.done)'
        OBVIOUS
      <4> PICK a, b : a = runFile.inst /\ b = runFile.done
        OBVIOUS
      <4>1. a \in Insts /\ a <= clock /\ Replayable(a, b)
        BY DEF IInv, Types, FilesOK, JournalOK, Image
      <4>2. Replayable(a, b)'
        BY <3>1, <4>1
      <4> QED BY <1>1, <4>2
    <3>7. Replayable(recovery.inst, recovery.done)'
      <4>1. Replayable(i, done)'
        BY <2>3, <3>2
      <4> QED BY <2>2, <4>1
    <3> QED BY <1>1, <1>2, <3>5, <3>6, <3>7 DEF JournalOK
  <2>11. ToldOK'
    <3>1. \A k, calls : Holds(k, calls) => Holds(k, calls)'
      BY <1>1, <2>5 DEF Holds
    <3> QED BY <1>1, <1>2, <3>1 DEF IInv, ToldOK, Alive
  <2> QED BY <1>2, <2>6, <2>7, <2>8, <2>9, <2>10, <2>11 DEF IInv
<1> QED BY <1>3, <1>4

\* The write-back has written run.json, or failed to: the state it wrote is the
\* final one of its instance.
LEMMA RecoverRunKeeps == ASSUME IInv, NEW ok \in BOOLEAN, RecoverRun(ok) PROVE IInv'
<1>1. /\ recovery # None /\ recovery.pc = "run" /\ recovery \in Recovery /\ (ok => dir)
      /\ recovery' = None /\ snapshot' \in {None, snapshot}
      /\ UNCHANGED <<dir, journal, clock, stores, owner, active, tombs, dropped, told>>
  BY DEF RecoverRun, RecoveryEnds, Recovering, IInv, Types
<1>2. /\ \A k : Live(k)' <=> Live(k)
      /\ \A k : LiveAt(k)' <=> LiveAt(k)
      /\ \A k, S : InStage(k, S)' <=> InStage(k, S)
      /\ StoresOK' /\ ChargeOK'
      /\ UNCHANGED <<clock, stores, idTomb, dirTomb, epoch, deletion>>
  BY <1>1, StoresRest DEF tombs
<1>3. CASE ~ok
  <2>1. UNCHANGED <<runFile, overrun>>
    BY <1>3 DEF RecoverRun
  <2>2. FilesOK' /\ dir' \in BOOLEAN /\ UNCHANGED hist
    BY <1>1, <1>2, <2>1 DEF IInv, FilesOK, Types, hist
  <2> QED BY <1>1, <2>1, <2>2, RecoveryMoves
<1>4. CASE ok
  <2> PICK i, done, file : /\ i = recovery.inst /\ done = recovery.done
                           /\ file = [inst |-> i, status |-> "terminal", done |-> done]
    OBVIOUS
  <2>1. runFile' = file /\ overrun' = Overruns(i)
    BY <1>4 DEF RecoverRun
  <2>2. /\ i \in Insts /\ Live(i) /\ i <= clock /\ done = stores[i].done /\ done \subseteq Calls
    BY <1>1, RecoveredStore
  <2>3. file \in Image /\ file # None /\ file.inst = i /\ file.done = done /\ file.status = "terminal"
    BY <2>2, NoneApart DEF Image, Status
  <2>4. overrun \subseteq overrun'
    BY <2>1 DEF Overruns
  <2>5. Types'
    BY <1>1, <1>2, <2>1, <2>3 DEF IInv, Types
  <2>6. ViewsOK'
    BY <1>1, <1>2 DEF IInv, ViewsOK
  <2>7. DeletionOK'
    BY <1>1, <1>2 DEF IInv, DeletionOK, Alive
  <2>8. FilesOK'
    BY <1>1, <1>2, <1>4, <2>1, <2>2, <2>3 DEF IInv, FilesOK
  <2>9. JournalOK'
    <3> SUFFICES ASSUME Alive PROVE JournalOK'
      BY <1>2 DEF JournalOK, Alive
    <3>1. \A k, calls : Replayable(k, calls) => Replayable(k, calls)'
      BY <1>1, <1>2, <2>4 DEF Replayable
    <3>2. Replayable(i, done)'
      BY <1>1, <3>1 DEF IInv, JournalOK
    <3>3. \A k \in Insts : Live(k) =>
            /\ stores'[k].pc = "run" => Replayable(k, stores[k].image.done)'
            /\ stores'[k].version = stores'[k].written => Replayable(k, stores[k].log)'
      BY <1>2, <3>1 DEF IInv, JournalOK
    <3>4. Replayable(runFile.inst, runFile.done)'
      BY <2>1, <2>3, <3>2
    <3> QED BY <1>1, <1>2, <3>3, <3>4 DEF JournalOK
  <2>10. ToldOK'
    <3>1. ASSUME i # clock, NEW calls, Holds(clock, calls) PROVE Holds(clock, calls)'
      <4>1. i < clock /\ clock' = clock
        BY <1>2, <2>2, <3>1 DEF Insts, IInv, Types
      <4> QED BY <2>1, <3>1, <4>1 DEF Holds, Overruns
    <3>2. i = clock => Holds(clock, done)'
      BY <1>2, <2>1, <2>3 DEF Holds
    <3>3. ASSUME NEW t \in told, Alive, t.inst = clock PROVE Holds(t.inst, t.done)'
      <4>1. PICK calls : calls = t.done
        OBVIOUS
      <4>2. CASE i = clock
        <5>1. calls = done
          BY <2>2, <3>3, <4>1, <4>2 DEF IInv, ToldOK, LiveAt
        <5> QED BY <1>2, <3>2, <3>3, <4>1, <4>2, <5>1 DEF Holds
      <4>3. CASE i # clock
        <5>1. Holds(clock, calls)'
          BY <3>1, <3>3, <4>1, <4>3 DEF IInv, ToldOK
        <5> QED BY <1>2, <3>3, <4>1, <5>1 DEF Holds
      <4> QED BY <4>2, <4>3
    <3>4. ASSUME LiveAt(clock), Alive, owner # stores[clock].gen PROVE Holds(clock, stores[clock].done)'
      <4>1. PICK calls : calls = stores[clock].done
        OBVIOUS
      <4>2. Holds(clock, calls)'
        BY <2>2, <3>1, <3>2, <3>4, <4>1 DEF IInv, ToldOK
      <4> QED BY <1>2, <4>1, <4>2 DEF Holds
    <3> QED BY <1>1, <1>2, <3>3, <3>4 DEF IInv, ToldOK, Alive
  <2> QED BY <1>2, <2>5, <2>6, <2>7, <2>8, <2>9, <2>10 DEF IInv
<1> QED BY <1>3, <1>4

-----------------------------------------------------------------------------
\* The steps of a deletion.
LEMMA DeleteKeeps ==
  ASSUME IInv, DeleteMarks \/ DeleteRollsBack \/ DeleteCommits \/ DeleteSweeps PROVE IInv'
<1>1. /\ UNCHANGED <<clock, stores, owner, active, recovery, dropped, told, overrun>>
      /\ snapshot' \in {None, snapshot}
      /\ idTomb' \in BOOLEAN /\ dirTomb' \in BOOLEAN /\ epoch' \in Nat
      /\ deletion' \in {"none", "marked", "committed", "swept", "gone"}
      /\ \/ UNCHANGED <<dir, runFile, journal>> /\ deletion' # "swept"
         \/ dir' = FALSE /\ runFile' = None /\ journal' = {} /\ deletion' = "swept"
  <2>1. idTomb \in BOOLEAN /\ dirTomb \in BOOLEAN /\ epoch \in Nat /\ epoch + 1 \in Nat
    BY DEF IInv, Types
  <2>2. CASE DeleteMarks \/ DeleteRollsBack
    BY <2>1, <2>2 DEF DeleteMarks, DeleteRollsBack, files, hist
  <2>3. CASE DeleteCommits
    BY <2>1, <2>3 DEF DeleteCommits, files, hist
  <2>4. CASE DeleteSweeps
    BY <2>1, <2>4 DEF DeleteSweeps, hist
  <2> QED BY <2>2, <2>3, <2>4
<1>2. /\ \A k : Live(k)' <=> Live(k)
      /\ \A k : LiveAt(k)' <=> LiveAt(k)
      /\ \A k, S : InStage(k, S)' <=> InStage(k, S)
      /\ StoresOK' /\ ChargeOK'
  BY <1>1, StoresRest
<1>3. DeletionOK' /\ (Alive' => Alive)
  BY DEF DeleteMarks, DeleteRollsBack, DeleteCommits, DeleteSweeps, IInv, DeletionOK, Alive
<1>4. Types'
  BY <1>1 DEF IInv, Types
<1>5. ViewsOK'
  BY <1>1, <1>2 DEF IInv, ViewsOK
<1>6. FilesOK'
  BY <1>1, <1>2 DEF IInv, FilesOK
<1>7. Alive' => UNCHANGED <<runFile, journal>>
  BY <1>1 DEF Alive
<1>8. JournalOK'
  <2> SUFFICES ASSUME Alive' PROVE JournalOK'
    BY DEF JournalOK
  <2>1. \A i, calls : Replayable(i, calls)' <=> Replayable(i, calls)
    BY <1>1, <1>2, <1>7 DEF Replayable
  <2> QED BY <1>1, <1>2, <1>3, <1>7, <2>1 DEF IInv, JournalOK
<1>9. ToldOK'
  <2>1. \A i, calls : Alive' => (Holds(i, calls)' <=> Holds(i, calls))
    BY <1>1, <1>7 DEF Holds
  <2> QED BY <1>1, <1>2, <1>3, <2>1 DEF IInv, ToldOK
<1> QED BY <1>2, <1>3, <1>4, <1>5, <1>6, <1>8, <1>9 DEF IInv

\* After a crash the files speak for themselves.
LEMMA CrashKeeps == ASSUME IInv, Crash PROVE IInv'
<1>1. /\ stores' = [i \in Insts |-> None] /\ owner' = 0
      /\ active' = None /\ snapshot' = None /\ recovery' = None
      /\ idTomb' = FALSE /\ dirTomb' = FALSE /\ epoch' = 0
      /\ deletion' = IF Alive THEN "none" ELSE "gone"
      /\ UNCHANGED <<dir, runFile, journal, clock, dropped, told, overrun>>
  BY DEF Crash, files, hist, Alive
<1>2. /\ \A k \in Insts : ~Live(k)'
      /\ \A k : ~LiveAt(k)'
      /\ Alive' <=> Alive
  BY <1>1 DEF Live, LiveAt, Alive
<1>3. Types'
  <2>1. stores' \in [Insts -> Store \cup {None}] /\ deletion' \in {"none", "gone"}
    BY <1>1
  <2> QED BY <1>1, <2>1 DEF IInv, Types
<1>4. StoresOK' /\ ViewsOK' /\ DeletionOK'
  BY <1>1, <1>2 DEF StoresOK, ViewsOK, DeletionOK
<1>5. ChargeOK'
  <2>1. 0 <= clock
    BY DEF IInv, Types
  <2> QED BY <1>1, <1>2, <2>1 DEF ChargeOK
<1>6. FilesOK'
  BY <1>1 DEF IInv, FilesOK
<1>7. \A i, calls : (Replayable(i, calls) => Replayable(i, calls)') /\ (Holds(i, calls)' <=> Holds(i, calls))
  BY <1>1, <1>2 DEF Replayable, Holds
<1>8. JournalOK' /\ ToldOK'
  BY <1>1, <1>2, <1>7 DEF IInv, JournalOK, ToldOK
<1> QED BY <1>3, <1>4, <1>5, <1>6, <1>8 DEF IInv

\* Nothing happens.
LEMMA StutterKeeps == ASSUME IInv, UNCHANGED vars PROVE IInv'
<1>1. /\ UNCHANGED <<dir, runFile, journal, clock, stores, owner, active, tombs, hist>>
      /\ UNCHANGED <<snapshot, recovery, dropped, told, overrun, idTomb, dirTomb, epoch, deletion>>
  BY DEF vars, files, tombs, hist
<1>2. /\ \A k : Live(k)' <=> Live(k)
      /\ \A k : LiveAt(k)' <=> LiveAt(k)
      /\ StoresOK' /\ ChargeOK'
      /\ \A i, calls : (Replayable(i, calls)' <=> Replayable(i, calls)) /\ (Holds(i, calls)' <=> Holds(i, calls))
      /\ \A k, S : InStage(k, S)' <=> InStage(k, S)
  BY <1>1, StoresRest DEF Live, Replayable, Holds
<1>3. Types' /\ ViewsOK' /\ DeletionOK' /\ FilesOK'
  BY <1>1, <1>2 DEF IInv, Types, ViewsOK, DeletionOK, FilesOK, Alive
<1>4. JournalOK' /\ ToldOK'
  BY <1>1, <1>2 DEF IInv, JournalOK, ToldOK, Alive
<1> QED BY <1>2, <1>3, <1>4 DEF IInv

\* Every step keeps the invariant.
LEMMA NextIInv == IInv /\ [Next]_vars => IInv'
<1> SUFFICES ASSUME IInv, [Next]_vars PROVE IInv'
  OBVIOUS
<1>1. CASE \E keep \in BOOLEAN : Launch(keep)
  BY <1>1, LaunchKeeps
<1>2. CASE \E a \in Calls : AgentDone(a)
  BY <1>2, AgentKeeps
<1>3. CASE Finalize \/ \E b \in BOOLEAN : Reclaim(b) \/ Settle(b)
  BY <1>3, FinalizeKeeps, ReclaimKeeps, SettleKeeps
<1>4. CASE \E i \in Insts : TimerFires(i) \/ LateUpdate(i) \/ WriteBegins(i) \/ Mkdir(i) \/ WriteChecks(i)
  BY <1>4, TimerKeeps, LateKeeps, BeginKeeps, MkdirKeeps, CheckKeeps
<1>5. CASE \E i \in Insts, ok \in BOOLEAN : WriteJournal(i, ok) \/ WriteRun(i, ok)
  BY <1>5, WriteJournalKeeps, WriteRunKeeps
<1>6. CASE RecoverBegins \/ RecoverMkdir \/ RecoverChecks
  BY <1>6, RecoverBeginsKeeps, RecoverMkdirKeeps, RecoverChecksKeeps
<1>7. CASE \E ok \in BOOLEAN : RecoverJournal(ok) \/ RecoverRun(ok)
  BY <1>7, RecoverJournalKeeps, RecoverRunKeeps
<1>8. CASE DeleteMarks \/ DeleteRollsBack \/ DeleteCommits \/ DeleteSweeps
  BY <1>8, DeleteKeeps
<1>9. CASE Crash
  BY <1>9, CrashKeeps
<1>10. CASE UNCHANGED vars
  BY <1>10, StutterKeeps
<1> QED BY <1>1, <1>2, <1>3, <1>4, <1>5, <1>6, <1>7, <1>8, <1>9, <1>10 DEF Next

\* Every reachable state satisfies the invariant.
LEMMA Invariant == Spec => []IInv
<1> QED BY InitIInv, NextIInv, PTL DEF Spec

-----------------------------------------------------------------------------
\* The type invariant and the order of the two writes: the stores and the files
\* fit together, and what run.json shows as finished can be replayed, whatever
\* fails or crashes between the journal and run.json.
THEOREM StoresAndFiles == Spec => []StoreInv
<1>1. IInv => TypeOK
  <2> SUFFICES ASSUME IInv PROVE TypeOK
    OBVIOUS
  <2>1. ASSUME NEW i \in Insts, Live(i)
        PROVE  /\ i <= clock /\ stores[i].written <= stores[i].version
               /\ stores[i].pc # "idle" => stores[i].queue # <<>>
               /\ stores[i].pc \in {"journal", "run"} <=> stores[i].image # None
               /\ FinalDue(stores[i]) => active # None /\ active.inst = i
    <3>1. StoreOK(i, stores[i]) /\ (FinalDue(stores[i]) => InStage(i, {"finalizing", "flush", "retry"}))
      BY <2>1, LiveStore
    <3> QED BY <3>1 DEF StoreOK, InStage
  <2>2. owner \in 0..MaxInst /\ epoch \in 0..2
    BY DEF IInv, Types, ChargeOK, DeletionOK
  <2>3. runFile # None => dir
    BY DEF IInv, FilesOK
  <2> QED BY <2>1, <2>2, <2>3 DEF IInv, Types, TypeOK
<1>2. IInv => JournalAhead
  BY DEF IInv, JournalOK, JournalAhead, Replayable, Alive
<1> QED BY <1>1, <1>2, Invariant, PTL DEF StoreInv

\* A flush that reported success was honest, even when it was the silent success
\* of a stale writer or a retry.
THEOREM FlushesAreHonest == Spec => []FlushHonest
<1>1. IInv => FlushHonest
  BY DEF IInv, ToldOK, FlushHonest, Holds, Alive
<1> QED BY <1>1, Invariant, PTL

\* A swept directory stays away: whoever rebuilt it also removes it.
THEOREM SweptStaysSwept == Spec => []NoResurrection
<1>1. IInv => NoResurrection
  BY DEF IInv, FilesOK, NoResurrection, Quiet
<1> QED BY <1>1, Invariant, PTL

\* Crashes are counted.
LEMMA CrashCount == Spec => [](crashes \in Nat)
<1>1. Init => crashes \in Nat
  BY DEF Init
<1>2. crashes \in Nat /\ [Next]_vars => (crashes \in Nat)'
  <2> SUFFICES ASSUME crashes \in Nat, [Next]_vars PROVE crashes' \in Nat
    OBVIOUS
  <2>1. \/ UNCHANGED crashes
        \/ crashes' = crashes + 1
    <3>1. CASE \E keep \in BOOLEAN : Launch(keep)
      BY <3>1 DEF Launch
    <3>2. CASE \/ \E a \in Calls : AgentDone(a)
               \/ Finalize \/ \E b \in BOOLEAN : Reclaim(b) \/ Settle(b)
      BY <3>2 DEF AgentDone, Finalize, Reclaim, Settle
    <3>3. CASE \E i \in Insts : TimerFires(i) \/ LateUpdate(i) \/ WriteBegins(i) \/ Mkdir(i) \/ WriteChecks(i)
      BY <3>3 DEF TimerFires, LateUpdate, WriteBegins, Mkdir, WriteChecks
    <3>4. CASE \E i \in Insts, ok \in BOOLEAN : WriteJournal(i, ok) \/ WriteRun(i, ok)
      BY <3>4 DEF WriteJournal, WriteRun
    <3>5. CASE \/ RecoverBegins \/ RecoverMkdir \/ RecoverChecks
               \/ \E ok \in BOOLEAN : RecoverJournal(ok) \/ RecoverRun(ok)
      BY <3>5 DEF RecoverBegins, RecoverMkdir, RecoverChecks, RecoverJournal, RecoverRun
    <3>6. CASE DeleteMarks \/ DeleteRollsBack \/ DeleteCommits \/ DeleteSweeps \/ Crash
      BY <3>6 DEF DeleteMarks, DeleteRollsBack, DeleteCommits, DeleteSweeps, Crash
    <3>7. CASE UNCHANGED vars
      BY <3>7 DEF vars
    <3> QED BY <3>1, <3>2, <3>3, <3>4, <3>5, <3>6, <3>7 DEF Next
  <2> QED BY <2>1
<1> QED BY <1>1, <1>2, PTL DEF Spec

\* A snapshot belongs to its thread as long as the deletion has not committed:
\* only a new launch, or its own state on disk, takes it away.
THEOREM SurvivorsSnapshot == Spec => SurvivorKeepsSnapshot
<1> DEFINE Redeemed == \/ clock' > clock
                       \/ /\ runFile' # None /\ runFile'.inst = snapshot.inst
                          /\ runFile'.done = snapshot.done
           Forgets == /\ snapshot # None /\ snapshot' = None /\ crashes' = crashes
                      /\ deletion' \in {"none", "marked"}
<1>1. ASSUME IInv, crashes \in Nat, Next, Forgets PROVE Redeemed
  <2>1. /\ active = None /\ snapshot.inst = clock /\ snapshot.done = stores[clock].done
        /\ clock \in Nat /\ snapshot # None /\ snapshot' # snapshot
    BY <1>1 DEF IInv, Types, ViewsOK
  <2>2. ASSUME UNCHANGED deletion
        PROVE  ~Dead(snapshot) /\ (recovery # None => ~Dead(recovery))
    <3>1. Alive
      BY <1>1, <2>2 DEF Alive
    <3> QED BY <1>1, <2>1, <3>1 DEF IInv, DeletionOK, Dead, Alive
  <2>3. CASE \E keep \in BOOLEAN : Launch(keep)
    BY <2>1, <2>3 DEF Launch
  <2>4. CASE \/ \E a \in Calls : AgentDone(a)
             \/ Finalize \/ \E b \in BOOLEAN : Reclaim(b) \/ Settle(b)
    BY <2>1, <2>4 DEF AgentDone, Finalize, Reclaim, Settle, Running
  <2>5. CASE \E i \in Insts : TimerFires(i) \/ LateUpdate(i) \/ WriteBegins(i) \/ Mkdir(i) \/ WriteChecks(i)
    BY <2>1, <2>5 DEF TimerFires, LateUpdate, WriteBegins, Mkdir, WriteChecks
  <2>6. CASE \E i \in Insts, ok \in BOOLEAN : WriteJournal(i, ok) \/ WriteRun(i, ok)
    BY <2>1, <2>6 DEF WriteJournal, WriteRun
  <2>7. CASE RecoverBegins
    BY <2>1, <2>2, <2>7 DEF RecoverBegins, tombs
  <2>8. CASE RecoverMkdir
    BY <2>1, <2>8 DEF RecoverMkdir
  <2>9. CASE RecoverChecks
    BY <2>1, <2>2, <2>9 DEF RecoverChecks, RecoveryEnds, Recovering, tombs
  <2>10. CASE \E ok \in BOOLEAN : RecoverJournal(ok)
    BY <2>1, <2>10 DEF RecoverJournal, RecoveryEnds
  <2>11. CASE \E ok \in BOOLEAN : RecoverRun(ok)
    <3>1. PICK ok \in BOOLEAN : RecoverRun(ok)
      BY <2>11
    <3>2. /\ ok /\ recovery # None /\ snapshot.inst = recovery.inst
          /\ runFile' = [inst |-> recovery.inst, status |-> "terminal", done |-> recovery.done]
      BY <2>1, <3>1 DEF RecoverRun, RecoveryEnds, Recovering
    <3>3. recovery.inst \in Insts /\ recovery.done = stores[recovery.inst].done /\ recovery.done \subseteq Calls
      BY <1>1, <3>2, RecoveredStore
    <3>4. runFile' \in Image
      BY <3>2, <3>3 DEF Image, Status
    <3> QED BY <2>1, <3>2, <3>3, <3>4, NoneApart
  <2>12. CASE DeleteMarks \/ DeleteRollsBack \/ DeleteCommits \/ DeleteSweeps
    BY <1>1, <2>1, <2>12 DEF DeleteMarks, DeleteRollsBack, DeleteCommits, DeleteSweeps
  <2>13. CASE Crash
    BY <1>1, <2>13 DEF Crash
  <2> QED BY <1>1, <2>3, <2>4, <2>5, <2>6, <2>7, <2>8, <2>9, <2>10, <2>11, <2>12, <2>13 DEF Next
<1>2. ASSUME IInv, crashes \in Nat, [Next]_vars PROVE [Forgets => Redeemed]_vars
  BY <1>1, <1>2
<1> QED BY <1>2, Invariant, CrashCount, PTL DEF Spec, SurvivorKeepsSnapshot
=============================================================================
