------------------------- MODULE WorkflowNotify_proofs -------------------------
(***************************************************************************)
(* For any number of runs, launches, resumes, stops and crashes: the result *)
(* of a run that settled is reported or can still be found, what has been   *)
(* acknowledged on disk is never reported again, and a result that can be   *)
(* found has somebody who will ask for it.  With that the notification      *)
(* implements at-least-once delivery.                                       *)
(*                                                                          *)
(* The invariant says whose the instances are (a snapshot and a finished    *)
(* run are of the last launch of their id), what a flag writer that has     *)
(* read its file is about to write (the head of a chain: still what the     *)
(* file asks for, unless a live store has written in between), and that     *)
(* write-backs queue in the order of the launches, so that an               *)
(* acknowledgement on disk is never overtaken by an older one.              *)
(***************************************************************************)
EXTENDS WorkflowNotify, FiniteSetTheorems, WellFoundedInduction, TLAPS

\* Launches so far; whose an instance is; the last launch of a run id.
Now == Len(launches)
Of(r, x) == x \in 1..Now /\ launches[x] = r
Latest(r, x) == Of(r, x) /\ \A y \in (x + 1)..Now : launches[y] # r

Tails == [id : RunIds, inst : Insts, cancelled : BOOLEAN, saved : BOOLEAN]
Result == [id : RunIds, inst : Insts]

\* The types of the variables.
Types ==
  /\ disk \in [RunIds -> Record] /\ age \in [RunIds -> Nat]
  /\ launches \in Seq(RunIds) /\ Now \in Insts
  /\ active \in InCharge \cup {None} /\ failed \subseteq Snapshot /\ tails \subseteq Tails
  /\ chain \in [RunIds -> Seq(Op)]
  /\ inFlight \subseteq RunIds /\ attempts \in [RunIds -> 0..(MAX_RENOTIFY_ATTEMPTS + 1)]
  /\ turn \in Turn \cup {None} /\ signal \in BOOLEAN
  /\ finished \subseteq Result /\ reported \subseteq Insts
  /\ settled \subseteq Insts /\ raced \subseteq Insts

\* The run in charge is the last launch; nothing of it is around yet, except that
\* its result may be reported as soon as it is on disk.
ActiveOK ==
  active # None =>
    /\ active.inst = Now /\ Of(active.id, Now)
    /\ (active.saved => active.done) /\ (active.done => active.begun)
    /\ \A s \in failed : s.id # active.id
    /\ \A f \in finished : f.id # active.id
    /\ \A t \in tails : t.inst # Now
    /\ Now \in reported => active.saved
    /\ turn # None /\ turn.inst = Now => active.saved
    /\ disk[active.id].inst = Now /\ disk[active.id].status = "terminal" => active.saved

\* Whose the records are.
OwnOK ==
  /\ \A r \in RunIds : IF disk[r].inst = 0 THEN disk[r].status = "none"
                       ELSE disk[r].status # "none" /\ Of(r, disk[r].inst)
  /\ \A s \in failed : Latest(s.id, s.inst)
  /\ \A s, t \in failed : s.id = t.id => s = t
  /\ \A t \in tails : Of(t.id, t.inst)
  /\ \A f \in finished : Latest(f.id, f.inst)
  /\ turn # None => Of(turn.id, turn.inst)
  /\ reported \subseteq 1..Now /\ settled \subseteq reported

\* What was delivered was reported; a cancelled run is not a finished one; a turn
\* keeps its mark until its acknowledgement is settled.
ReportedOK ==
  /\ \A t \in tails : t.cancelled => \A f \in finished : f.inst # t.inst
  /\ \A s \in failed : s.delivered => s.inst \in reported
  /\ turn # None /\ turn.phase # "model" => turn.inst \in reported
  /\ turn # None /\ turn.phase \in {"model", "acking", "acked"} => turn.id \in inFlight

\* A queue of flag writers: only the head has read, write-backs come in the order
\* of the launches, the turn awaits at most one writer.
Shape(q) ==
  \A i \in DOMAIN q :
    /\ q[i].out # None => i = 1
    /\ \A j \in DOMAIN q : /\ i < j /\ q[j].kind = "recover" => q[i].inst <= q[j].inst
                           /\ q[i].turn /\ q[j].turn => i = j

\* A write-back holds what its snapshot held, and nothing acknowledged is younger.
RecoverOK(r, op) ==
  op.kind = "recover" =>
    /\ op.delivered => op.inst \in reported
    /\ \A s \in failed : s.id = r /\ s.inst = op.inst =>
         op.rev <= s.rev /\ (op.rev = s.rev => op.delivered = s.delivered)
    /\ \A x \in settled : Of(r, x) => x <= op.inst

\* The turn waits for the writers it queued.
AwaitedOK(r, op) ==
  op.turn => /\ turn # None /\ turn.id = r
             /\ \/ op.kind = "ack" /\ turn.phase = "acking" /\ turn.inst = op.inst
                \/ op.kind = "recover" /\ turn.phase = "recovering"

\* A flag writer by itself: an acknowledgement is of a reported instance, the
\* mark of a cancelled run or of an interrupted one is not for a finished run.
OpOK(r, op) ==
  /\ Of(r, op.inst)
  /\ active # None /\ op.inst = Now => op.kind = "ack"
  /\ op.kind = "ack" => op.inst \in reported /\ op.turn
  /\ op.kind = "cancelled" => \A f \in finished : f.id = r => f.inst # op.inst
  /\ op.kind = "interrupt" =>
       \A f \in finished : f.id = r /\ f.inst = op.inst => f.inst \in raced \cup reported
  /\ RecoverOK(r, op) /\ AwaitedOK(r, op)

ChainOK ==
  \A r \in RunIds : Shape(chain[r]) /\ \A i \in DOMAIN chain[r] : OpOK(r, chain[r][i])

\* A live store has written d between a writer's read and its write.
Overtook(d) == d.inst \in raced /\ ~d.delivered /\ d.status \in {"running", "terminal"}

\* What the head of the queue of r is about to write over d.
HeadOK(r, op, d) ==
  /\ op.out \in Record /\ Of(r, op.out.inst)
  /\ active # None /\ op.out.inst = Now /\ op.out.status = "terminal" => active.saved
  /\ op.out = Rewrite(op, d) \/ Overtook(d)
  /\ \A x \in settled : Of(r, x) => x <= op.out.inst
  /\ op.kind = "interrupt" <=> op.out.status = "interrupted"
  /\ op.kind = "recover" =>
       /\ op.out.inst = op.inst /\ op.out.status = "terminal"
       /\ op.delivered => op.out.delivered
       /\ op.out.delivered => \/ op.delivered
                              \/ \A f \in finished : f.id = r /\ f.inst = op.inst =>
                                                       f.inst \in raced \cup reported
       /\ op.inst \in settled \ raced => op.out.delivered \/ d.inst > op.inst
  /\ op.kind # "recover" =>
       /\ op.out.delivered /\ Terminal(op.out)
       /\ op.out.inst = op.inst \/ (op.kind # "ack" /\ op.out.inst \in raced)

HeadsOK == \A r \in RunIds : chain[r] # <<>> /\ chain[r][1].out # None =>
                               HeadOK(r, chain[r][1], disk[r])

\* Neither reported nor a victim of a race; a file that is not marked.
Open(x) == x \notin raced \cup reported
Unmarked(d) == d.status \in {"running", "terminal"} /\ ~d.delivered

\* The file of a run that is open is not marked.
FilesOK ==
  /\ \A r \in RunIds : disk[r].status = "interrupted" => disk[r].delivered
  /\ \A f \in finished : disk[f.id].inst = f.inst /\ Open(f.inst) => Unmarked(disk[f.id])
  /\ active # None /\ Open(active.inst) =>
       /\ disk[active.id].inst = active.inst => Unmarked(disk[active.id])
       /\ active.saved =>
            disk[active.id].inst = active.inst /\ disk[active.id].status = "terminal"

\* What was acknowledged on disk: the file is not older, and marked if it is of
\* the same instance; a snapshot of it waits for the turn to mark it, too.
AckedOK ==
  /\ \A r \in RunIds : \A x \in settled : Of(r, x) => x <= disk[r].inst
  /\ \A r \in RunIds : disk[r].inst \in settled \ raced => disk[r].delivered
  /\ \A s \in failed : s.inst \in settled \ raced /\ ~s.delivered =>
       /\ s.id \in inFlight
       /\ turn # None /\ turn.id = s.id => turn.inst = s.inst /\ turn.phase = "acked"

\* A snapshot in memory holds the result.
InMemory(f) == \E s \in failed : s.id = f.id /\ s.inst = f.inst /\ ~s.delivered

\* Instance x is on disk for good: whoever writes next writes the same instance
\* and does not take the mark away.
Landed(r, x) ==
  /\ disk[r].inst = x /\ Terminal(disk[r])
  /\ \A i \in DOMAIN chain[r] : chain[r][i].kind = "recover" => chain[r][i].inst = x
  /\ chain[r] # <<>> /\ chain[r][1].out # None =>
       /\ chain[r][1].out.inst = x /\ Terminal(chain[r][1].out)
       /\ disk[r].delivered => chain[r][1].out.delivered

\* A write-back that is not marked brings nothing to light that nobody knows of:
\* the result is in memory, it was on disk before, or the turn awaits a later one.
KnownOK ==
  \A r \in RunIds : \A i \in DOMAIN chain[r] : \A f \in finished :
    chain[r][i].kind = "recover" /\ ~chain[r][i].delivered /\ f.id = r /\ f.inst = chain[r][i].inst =>
      \/ InMemory(f) \/ Landed(r, f.inst)
      \/ \E j \in DOMAIN chain[r] : j > i /\ chain[r][j].turn

\* A result that can be found has a trigger, an excuse, or somebody at work who
\* will look for it.
ToldOK == \A f \in finished : Findable(f) /\ ~signal /\ excuse = "none" =>
            turn # None \/ \E t \in tails : ~t.cancelled

\* The inductive invariant.
IInv == /\ Types /\ ActiveOK /\ OwnOK /\ ReportedOK /\ ChainOK /\ HeadsOK
        /\ FilesOK /\ AckedOK /\ KnownOK /\ ToldOK /\ NothingSwallowed

USE NotifyAssumption

-----------------------------------------------------------------------------
\* A set of natural numbers that is not empty has a least element.
LEMMA LeastNumber ==
  ASSUME NEW S \in SUBSET Nat, S # {}
  PROVE  \E n \in S : \A m \in S : n <= m
<1>1. PICK x \in S : \A y \in S : <<y, x>> \notin OpToRel(<, Nat)
  BY WFMin, NatLessThanWellFounded
<1>2. \A y \in S : ~(y < x)
  BY <1>1 DEF OpToRel
<1> QED BY <1>2

\* None is no record of any kind.
LEMMA NoneApart ==
  /\ \A x \in Record : x # None
  /\ \A x \in InCharge : x # None
  /\ \A x \in Turn : x # None
BY NotifyAssumption

\* The fields of the records.
LEMMA RecordFields ==
  ASSUME NEW d \in Record
  PROVE  /\ d.inst \in Insts /\ d.inst \in Nat /\ d.delivered \in BOOLEAN
         /\ d.status \in {"none", "running", "terminal", "interrupted"}
BY DEF Record, Insts

LEMMA OpFields ==
  ASSUME NEW op \in Op
  PROVE  /\ op.kind \in {"ack", "cancelled", "interrupt", "recover"} /\ op.inst \in Insts /\ op.inst \in Nat
         /\ op.delivered \in BOOLEAN /\ op.rev \in 0..MaxRev /\ op.rev \in Nat /\ op.turn \in BOOLEAN
         /\ op.out \in Record \cup {None}
BY DEF Op, Insts

LEMMA SnapshotFields ==
  ASSUME NEW s \in Snapshot
  PROVE  /\ s.id \in RunIds /\ s.inst \in Insts /\ s.inst \in Nat /\ s.delivered \in BOOLEAN
         /\ s.rev \in 0..MaxRev /\ s.rev \in Nat
BY DEF Snapshot, Insts

\* A writer joins a queue.
LEMMA QueueGrows ==
  ASSUME NEW q \in Seq(Op), NEW op \in Op
  PROVE  LET a == Append(q, op) IN
         /\ a \in Seq(Op) /\ a # <<>> /\ Len(q) \in Nat /\ DOMAIN q = 1..Len(q)
         /\ DOMAIN a = 1..Len(q) + 1 /\ a[Len(q) + 1] = op /\ \A i \in DOMAIN q : i \in DOMAIN a /\ a[i] = q[i]
         /\ a[1] = IF q = <<>> THEN op ELSE q[1]
<1> DEFINE a == Append(q, op)
<1>1. /\ a \in Seq(Op) /\ DOMAIN q = 1..Len(q) /\ Len(q) \in Nat /\ Len(a) = Len(q) + 1
      /\ a[Len(q) + 1] = op /\ \A k \in 1..Len(q) : a[k] = q[k]
  OBVIOUS
<1>2. q = <<>> <=> Len(q) = 0
  OBVIOUS
<1> HIDE DEF a
<1>3. DOMAIN a = 1..Len(q) + 1 /\ a # <<>>
  BY <1>1
<1>4. a[1] = IF q = <<>> THEN op ELSE q[1]
  BY <1>1, <1>2
<1> QED BY <1>1, <1>3, <1>4 DEF a

\* ... and keeps its shape.
LEMMA ShapeGrows ==
  ASSUME NEW q \in Seq(Op), NEW op \in Op, Shape(q), op.out = None,
         op.kind = "recover" => \A i \in DOMAIN q : q[i].inst <= op.inst,
         op.turn => \A i \in DOMAIN q : ~q[i].turn
  PROVE  Shape(Append(q, op))
<1> DEFINE a == Append(q, op)
<1>1. /\ a \in Seq(Op) /\ DOMAIN q = 1..Len(q) /\ Len(q) \in Nat /\ DOMAIN a = 1..Len(q) + 1
      /\ a[Len(q) + 1] = op /\ \A k \in 1..Len(q) : a[k] = q[k]
  BY QueueGrows
<1> HIDE DEF a
<1> SUFFICES ASSUME NEW i \in DOMAIN a, NEW j \in DOMAIN a
             PROVE  /\ a[i].out # None => i = 1
                    /\ i < j /\ a[j].kind = "recover" => a[i].inst <= a[j].inst
                    /\ a[i].turn /\ a[j].turn => i = j
  BY DEF Shape, a
<1>2. i \in Nat /\ j \in Nat /\ (i \in DOMAIN q \/ i = Len(q) + 1) /\ (j \in DOMAIN q \/ j = Len(q) + 1)
  BY <1>1
<1>3. a[i].out # None => i = 1
  BY <1>1, <1>2 DEF Shape
<1>4. ASSUME i < j, a[j].kind = "recover" PROVE a[i].inst <= a[j].inst
  <2>1. i \in DOMAIN q /\ a[i] = q[i]
    BY <1>1, <1>2, <1>4
  <2>2. CASE j \in DOMAIN q
    BY <1>1, <1>4, <2>1, <2>2 DEF Shape
  <2>3. CASE j = Len(q) + 1
    BY <1>1, <1>4, <2>1, <2>3
  <2> QED BY <1>2, <2>2, <2>3
<1>5. ASSUME a[i].turn, a[j].turn PROVE i = j
  BY <1>1, <1>2, <1>5 DEF Shape
<1> QED BY <1>3, <1>4, <1>5

\* The head of a queue is through.
LEMMA QueueShrinks ==
  ASSUME NEW q \in Seq(Op), q # <<>>
  PROVE  /\ Tail(q) \in Seq(Op) /\ Head(q) = q[1] /\ q[1] \in Op /\ 1 \in DOMAIN q
         /\ \A i \in DOMAIN Tail(q) : i \in Nat /\ i # 0 /\ i + 1 \in DOMAIN q /\ Tail(q)[i] = q[i + 1]
         /\ \A i \in DOMAIN q : i = 1 \/ (i - 1 \in DOMAIN Tail(q) /\ Tail(q)[i - 1] = q[i])
         /\ Tail(q) # <<>> => 1 \in DOMAIN Tail(q)
  OBVIOUS

LEMMA ShapeShrinks ==
  ASSUME NEW q \in Seq(Op), q # <<>>, Shape(q)
  PROVE  /\ Shape(Tail(q)) /\ \A i \in DOMAIN Tail(q) : Tail(q)[i].out = None
         /\ q[1].turn => \A i \in DOMAIN Tail(q) : ~Tail(q)[i].turn
         /\ \A i \in DOMAIN Tail(q) : Tail(q)[i].kind = "recover" => q[1].inst <= Tail(q)[i].inst
<1> DEFINE t == Tail(q)
<1>1. /\ 1 \in DOMAIN q
      /\ \A i \in DOMAIN t : i \in Nat /\ i # 0 /\ i + 1 \in DOMAIN q /\ t[i] = q[i + 1]
  BY QueueShrinks
<1> HIDE DEF t
<1>2. \A i \in DOMAIN t : t[i].out = None
  BY <1>1 DEF Shape
<1>3. q[1].turn => \A i \in DOMAIN t : ~t[i].turn
  BY <1>1 DEF Shape
<1>4. \A i \in DOMAIN t : t[i].kind = "recover" => q[1].inst <= t[i].inst
  BY <1>1 DEF Shape
<1>5. ASSUME NEW i \in DOMAIN t, NEW j \in DOMAIN t
      PROVE  /\ i < j /\ t[j].kind = "recover" => t[i].inst <= t[j].inst
             /\ t[i].turn /\ t[j].turn => i = j
  BY <1>1 DEF Shape
<1>6. Shape(t)
  BY <1>2, <1>5 DEF Shape
<1> QED BY <1>2, <1>3, <1>4, <1>6 DEF t

\* The head of a queue has read its file.
LEMMA QueueReads ==
  ASSUME NEW q \in Seq(Op), q # <<>>, NEW d \in Record
  PROVE  \E op \in Op, a \in Seq(Op) :
            /\ op = [q[1] EXCEPT !.out = d] /\ a = <<op>> \o Tail(q)
            /\ a # <<>> /\ DOMAIN a = DOMAIN q /\ 1 \in DOMAIN q
            /\ a[1] = op /\ op.out = d /\ op.kind = q[1].kind /\ op.inst = q[1].inst
            /\ op.delivered = q[1].delivered /\ op.rev = q[1].rev /\ op.turn = q[1].turn
            /\ \A i \in DOMAIN q : i # 1 => a[i] = q[i]
<1> DEFINE op == [q[1] EXCEPT !.out = d]
<1> DEFINE a == <<op>> \o Tail(q)
<1>1. q[1] \in Op /\ 1 \in DOMAIN q /\ Tail(q) \in Seq(Op) /\ Len(Tail(q)) = Len(q) - 1 /\ Len(q) \in Nat
  OBVIOUS
<1>2. /\ op \in Op /\ op.out = d /\ op.kind = q[1].kind /\ op.inst = q[1].inst
      /\ op.delivered = q[1].delivered /\ op.rev = q[1].rev /\ op.turn = q[1].turn
  BY <1>1 DEF Op
<1> HIDE DEF op
<1>3. a \in Seq(Op) /\ a # <<>> /\ DOMAIN a = DOMAIN q /\ a[1] = op
  BY <1>1, <1>2
<1>4. \A i \in DOMAIN q : i # 1 => a[i] = q[i]
  BY <1>1, <1>2
<1>5. op = [q[1] EXCEPT !.out = d] /\ a = <<op>> \o Tail(q)
  BY DEF op
<1> HIDE DEF a
<1> QED BY <1>1, <1>2, <1>3, <1>4, <1>5

LEMMA ShapeReads ==
  ASSUME NEW q \in Seq(Op), q # <<>>, NEW d \in Record, Shape(q)
  PROVE  Shape(<<[q[1] EXCEPT !.out = d]>> \o Tail(q))
<1>1. PICK op \in Op, a \in Seq(Op) :
        /\ op = [q[1] EXCEPT !.out = d] /\ a = <<op>> \o Tail(q)
        /\ a # <<>> /\ DOMAIN a = DOMAIN q /\ 1 \in DOMAIN q
        /\ a[1] = op /\ op.out = d /\ op.kind = q[1].kind /\ op.inst = q[1].inst
        /\ op.delivered = q[1].delivered /\ op.rev = q[1].rev /\ op.turn = q[1].turn
        /\ \A i \in DOMAIN q : i # 1 => a[i] = q[i]
  BY QueueReads, Zenon
<1>2. \A i \in DOMAIN a : a[i].kind = q[i].kind /\ a[i].inst = q[i].inst /\ a[i].turn = q[i].turn
  BY <1>1
<1>3. \A i \in DOMAIN a : a[i].out # None => i = 1
  BY <1>1 DEF Shape
<1>4. ASSUME NEW i \in DOMAIN a, NEW j \in DOMAIN a
      PROVE  /\ i < j /\ a[j].kind = "recover" => a[i].inst <= a[j].inst
             /\ a[i].turn /\ a[j].turn => i = j
  <2>1. DOMAIN a = DOMAIN q
    BY <1>1
  <2> QED BY <1>2, <2>1 DEF Shape
<1>5. Shape(a)
  BY <1>3, <1>4 DEF Shape
<1> QED BY <1>1, <1>5

-----------------------------------------------------------------------------
\* A step of the turn, of its mark or of the triggers only: what has to hold of
\* the new turn.
LEMMA TurnMoves ==
  ASSUME IInv,
         UNCHANGED <<disk, age, launches, active, failed, tails, chain, finished, reported, settled, raced>>,
         inFlight' \subseteq RunIds, attempts' \in [RunIds -> 0..(MAX_RENOTIFY_ATTEMPTS + 1)],
         turn' \in Turn \cup {None}, signal' \in BOOLEAN,
         turn' # None =>
           /\ Of(turn'.id, turn'.inst)
           /\ active # None /\ turn'.inst = Now => active.saved
           /\ turn'.phase # "model" => turn'.inst \in reported
           /\ turn'.phase \in {"model", "acking", "acked"} => turn'.id \in inFlight',
         \/ turn' # None /\ turn # None /\ turn'.id = turn.id /\ turn'.inst = turn.inst /\ turn'.phase = turn.phase
         \/ turn = None \/ turn.phase \in {"model", "acked", "recovered"},
         \A s \in failed : s.inst \in settled \ raced /\ ~s.delivered =>
           /\ s.id \in inFlight'
           /\ turn' # None /\ turn'.id = s.id => turn'.inst = s.inst /\ turn'.phase = "acked",
         ToldOK'
  PROVE  IInv'
<1>1. Now' = Now /\ \A r, x : Of(r, x)' <=> Of(r, x)
  BY DEF Now, Of
<1>2. \A r, x : Latest(r, x)' <=> Latest(r, x)
  BY <1>1 DEF Latest
<1>3. Types'
  BY <1>1 DEF IInv, Types
<1>4. ActiveOK'
  BY <1>1 DEF IInv, ActiveOK
<1>5. OwnOK'
  BY <1>1, <1>2 DEF IInv, OwnOK
<1>6. ReportedOK'
  BY DEF IInv, ReportedOK
<1>7. ChainOK'
  <2>1. ASSUME NEW r \in RunIds, NEW i \in DOMAIN chain[r] PROVE OpOK(r, chain[r][i])'
    <3>1. OpOK(r, chain[r][i])
      BY DEF IInv, ChainOK
    <3>2. RecoverOK(r, chain[r][i])'
      BY <1>1, <3>1 DEF OpOK, RecoverOK
    <3>3. AwaitedOK(r, chain[r][i])'
      BY <3>1 DEF OpOK, AwaitedOK
    <3> QED BY <1>1, <3>1, <3>2, <3>3 DEF OpOK
  <2> QED BY <2>1 DEF IInv, ChainOK
<1>8. HeadsOK'
  <2>1. ASSUME NEW r \in RunIds, chain[r] # <<>>, chain[r][1].out # None
        PROVE  HeadOK(r, chain[r][1], disk[r])'
    <3>1. HeadOK(r, chain[r][1], disk[r])
      BY <2>1 DEF IInv, HeadsOK
    <3> QED BY <1>1, <3>1 DEF HeadOK, Overtook
  <2> QED BY <2>1 DEF HeadsOK
<1>9. FilesOK'
  BY DEF IInv, FilesOK, Open
<1>10. AckedOK'
  BY <1>1 DEF IInv, AckedOK
<1>11. KnownOK'
  BY DEF IInv, KnownOK, InMemory, Landed
<1>12. NothingSwallowed'
  BY DEF IInv, NothingSwallowed, Findable
<1> QED BY <1>3, <1>4, <1>5, <1>6, <1>7, <1>8, <1>9, <1>10, <1>11, <1>12 DEF IInv

\* The oldest of some snapshots is one of them.
LEMMA OldestIsOne == ASSUME NEW S \in SUBSET Snapshot, S # {} PROVE Oldest(S) \in S
<1> DEFINE N == {s.inst : s \in S}
<1>1. N \in SUBSET Nat /\ N # {}
  BY SnapshotFields
<1>2. PICK n \in N : \A m \in N : n <= m
  BY <1>1, LeastNumber
<1>3. \E s \in S : \A t \in S : s.inst <= t.inst
  BY <1>2
<1> QED BY <1>3 DEF Oldest

\* What a turn is handed: a run whose mark is free, that is over or done, and
\* whose acknowledgement is not on disk.
LEMMA PendingIsDue ==
  ASSUME IInv, NEW p \in Pending
  PROVE  /\ p \in Result /\ p.id \notin inFlight /\ Of(p.id, p.inst)
         /\ active # None /\ p.inst = Now => active.saved
         /\ p.inst \notin settled \ raced
         /\ \/ \E s \in failed : ~s.delivered /\ s.id = p.id /\ s.inst = p.inst
            \/ disk[p.id].inst = p.inst /\ Terminal(disk[p.id]) /\ ~disk[p.id].delivered
<1> DEFINE mine == {s \in failed : ~s.delivered /\ s.id \notin inFlight}
           onDisk == {r \in RunIds : Terminal(disk[r]) /\ ~disk[r].delivered}
           newest == {r \in onDisk : \A q \in onDisk : age[r] <= age[q]}
<1>1. CASE mine # {}
  <2>1. mine \in SUBSET Snapshot
    BY DEF IInv, Types
  <2>2. Oldest(mine) \in mine
    BY <1>1, <2>1, OldestIsOne
  <2>3. Pending = {[id |-> s.id, inst |-> s.inst] : s \in {Oldest(mine)}}
    BY <1>1 DEF Pending
  <2>4. PICK s \in mine : p = [id |-> s.id, inst |-> s.inst]
    BY <2>3, <2>2
  <2>5. s \in Snapshot /\ s \in failed /\ ~s.delivered /\ s.id \notin inFlight /\ p.id = s.id /\ p.inst = s.inst
    BY <2>1, <2>4
  <2>6. p \in Result
    BY <2>4, <2>5, SnapshotFields DEF Result
  <2>7. Of(p.id, p.inst)
    BY <2>5 DEF IInv, OwnOK, Latest
  <2>8. active # None => p.inst # Now
    BY <2>5, <2>7 DEF IInv, ActiveOK, Of
  <2>9. p.inst \notin settled \ raced
    BY <2>5 DEF IInv, AckedOK
  <2> QED BY <2>5, <2>6, <2>7, <2>8, <2>9
<1>2. CASE mine = {}
  <2>1. PICK r \in newest \ inFlight : p = [id |-> r, inst |-> disk[r].inst]
    BY <1>2 DEF Pending
  <2>2. r \in RunIds /\ disk[r] \in Record /\ Terminal(disk[r]) /\ ~disk[r].delivered /\ r \notin inFlight
    BY <2>1 DEF IInv, Types
  <2>3. p.id = r /\ p.inst = disk[r].inst /\ p \in Result
    BY <2>1, <2>2, RecordFields DEF Result
  <2>4. disk[r].status = "terminal" /\ Of(r, disk[r].inst)
    BY <2>2 DEF IInv, FilesOK, OwnOK, Terminal
  <2>5. active # None /\ p.inst = Now => active.saved
    BY <2>3, <2>4 DEF IInv, ActiveOK, Of
  <2>6. p.inst \notin settled \ raced
    BY <2>2, <2>3 DEF IInv, AckedOK
  <2> QED BY <2>2, <2>3, <2>4, <2>5, <2>6
<1> QED BY <1>1, <1>2

\* Without a mark, whatever can be found is pending, or something else is.
LEMMA NothingPending ==
  ASSUME IInv, Pending = {}, inFlight = {}
  PROVE  \A f \in finished : ~Findable(f)
<1> DEFINE mine == {s \in failed : ~s.delivered /\ s.id \notin inFlight}
           onDisk == {r \in RunIds : Terminal(disk[r]) /\ ~disk[r].delivered}
           newest == {r \in onDisk : \A q \in onDisk : age[r] <= age[q]}
<1>1. mine = {}
  BY DEF Pending
<1>2. newest = {}
  BY <1>1 DEF Pending
<1>3. onDisk = {}
  <2> SUFFICES ASSUME onDisk # {} PROVE FALSE
    OBVIOUS
  <2> DEFINE A == {age[r] : r \in onDisk}
  <2>1. A \in SUBSET Nat /\ A # {}
    <3>1. \A r \in onDisk : age[r] \in Nat
      BY DEF IInv, Types
    <3> HIDE DEF onDisk
    <3> QED BY <3>1
  <2>2. PICK n \in A : \A m \in A : n <= m
    <3> HIDE DEF A
    <3> QED BY <2>1, LeastNumber
  <2>3. PICK r \in onDisk : age[r] = n
    <3>1. n \in A
      BY <2>2
    <3> QED BY <3>1
  <2>4. r \in newest
    BY <2>2, <2>3
  <2> QED BY <1>2, <2>4
<1> QED
  <2> SUFFICES ASSUME NEW f \in finished, Findable(f) PROVE FALSE
    OBVIOUS
  <2>1. f.id \in RunIds
    BY DEF IInv, Types, Result
  <2> QED BY <1>1, <1>3, <2>1 DEF Findable, Terminal

\* While a turn is in its model phase, or goes on after a wait, it awaits nobody.
LEMMA TurnFields ==
  ASSUME NEW t \in Turn
  PROVE  /\ t.id \in RunIds /\ t.inst \in Insts /\ t.aborted \in BOOLEAN /\ t # None
         /\ t.phase \in {"model", "acking", "acked", "recovering", "recovered"}
BY NoneApart DEF Turn

LEMMA HydratePendingKeeps == ASSUME IInv, HydratePending PROVE IInv'
<1>1. ToldOK'
  BY DEF HydratePending, Broadcast, ToldOK
<1>2. turn' = turn /\ inFlight' = inFlight /\ signal' = TRUE /\ attempts' = attempts
  BY DEF HydratePending, Broadcast
<1>3. UNCHANGED <<disk, age, launches, active, failed, tails, chain, finished, reported, settled, raced>>
  BY DEF HydratePending
<1> QED BY <1>1, <1>2, <1>3, TurnMoves DEF IInv, Types, OwnOK, ActiveOK, ReportedOK, AckedOK

LEMMA TurnStartKeeps == ASSUME IInv, TurnStart PROVE IInv'
<1>1. UNCHANGED <<disk, age, launches, active, failed, tails, chain, finished, reported, settled, raced>>
  BY DEF TurnStart
<1>2. turn = None /\ signal' = FALSE /\ attempts' = attempts
  BY DEF TurnStart
<1>3. CASE Pending = {}
  <2>1. turn' = turn /\ inFlight' = inFlight /\ excuse' = IF inFlight # {} THEN "leak" ELSE excuse
    BY <1>3 DEF TurnStart
  <2>2. ToldOK'
    <3>1. CASE inFlight # {}
      BY <2>1, <3>1 DEF ToldOK
    <3>2. CASE inFlight = {}
      <4>1. \A f \in finished : ~Findable(f)
        BY <1>3, <3>2, NothingPending
      <4> QED BY <1>1, <4>1 DEF ToldOK, Findable
    <3> QED BY <3>1, <3>2
  <2> QED BY <1>1, <1>2, <2>1, <2>2, TurnMoves DEF IInv, Types, AckedOK
<1>4. CASE Pending # {}
  <2>1. PICK p \in Pending :
          /\ turn' = [id |-> p.id, inst |-> p.inst, phase |-> "model", answer |-> "none", aborted |-> FALSE]
          /\ inFlight' = inFlight \cup {p.id}
    BY <1>4 DEF TurnStart
  <2>2. /\ p \in Result /\ p.id \notin inFlight /\ Of(p.id, p.inst)
        /\ active # None /\ p.inst = Now => active.saved
    BY PendingIsDue
  <2>3. turn' \in Turn /\ turn' # None
    BY <2>1, <2>2, NoneApart DEF Result, Turn
  <2>4. ToldOK'
    BY <2>3 DEF ToldOK
  <2>5. turn'.id = p.id /\ turn'.inst = p.inst /\ turn'.phase = "model"
    BY <2>1
  <2>6. inFlight' \subseteq RunIds
    BY <2>1, <2>2 DEF IInv, Types, Result
  <2>7. \A s \in failed : s.inst \in settled \ raced /\ ~s.delivered => s.id \in inFlight' /\ turn'.id # s.id
    BY <2>1, <2>2, <2>5 DEF IInv, AckedOK
  <2>8. p.id \in inFlight'
    BY <2>1
  <2>9. signal' \in BOOLEAN /\ attempts' \in [RunIds -> 0..(MAX_RENOTIFY_ATTEMPTS + 1)]
    BY <1>2 DEF IInv, Types
  <2> QED BY <1>1, <1>2, <2>2, <2>3, <2>4, <2>5, <2>6, <2>7, <2>8, <2>9, TurnMoves
<1> QED BY <1>3, <1>4

LEMMA AbortTurnKeeps == ASSUME IInv, AbortTurn PROVE IInv'
<1>1. UNCHANGED <<disk, age, launches, active, failed, tails, chain, finished, reported, settled, raced>>
  BY DEF AbortTurn, hist
<1>2. /\ turn \in Turn /\ inFlight' = inFlight /\ attempts' = attempts /\ signal' = signal /\ excuse' = excuse
      /\ turn' = [turn EXCEPT !.aborted = TRUE]
  BY DEF AbortTurn, hist, IInv, Types
<1>3. /\ turn' \in Turn /\ turn'.id = turn.id /\ turn'.inst = turn.inst /\ turn'.phase = turn.phase
      /\ turn' # None /\ turn # None
  BY <1>2, NoneApart DEF Turn
<1>4. ToldOK'
  BY <1>3 DEF ToldOK
<1>5. /\ Of(turn.id, turn.inst) /\ (active # None /\ turn.inst = Now => active.saved)
      /\ (turn.phase # "model" => turn.inst \in reported)
      /\ (turn.phase \in {"model", "acking", "acked"} => turn.id \in inFlight)
  BY <1>3 DEF IInv, OwnOK, ActiveOK, ReportedOK
<1>6. \A s \in failed : s.inst \in settled \ raced /\ ~s.delivered =>
        s.id \in inFlight /\ (turn.id = s.id => turn.inst = s.inst /\ turn.phase = "acked")
  BY <1>3 DEF IInv, AckedOK
<1>7. inFlight' \subseteq RunIds /\ attempts' \in [RunIds -> 0..(MAX_RENOTIFY_ATTEMPTS + 1)] /\ signal' \in BOOLEAN
  BY <1>2 DEF IInv, Types
<1> QED BY <1>1, <1>2, <1>3, <1>4, <1>5, <1>6, <1>7, TurnMoves

\* The turn ends: nobody waits for it, and what its mark hid is seen to.
LEMMA TurnEnds ==
  ASSUME IInv,
         UNCHANGED <<disk, age, launches, active, failed, tails, chain, finished, reported, settled, raced>>,
         turn # None, turn.phase \in {"model", "acked", "recovered"}, turn' = None,
         inFlight' = inFlight \/ (turn.phase = "model" /\ inFlight' = inFlight \ {turn.id}),
         attempts' \in [RunIds -> 0..(MAX_RENOTIFY_ATTEMPTS + 1)], signal' \in BOOLEAN, ToldOK'
  PROVE  IInv'
<1>1. inFlight' \subseteq RunIds
  BY DEF IInv, Types
<1>2. \A s \in failed : s.inst \in settled \ raced /\ ~s.delivered => s.id \in inFlight'
  BY DEF IInv, AckedOK
<1> QED BY <1>1, <1>2, TurnMoves

LEMMA SilentTells ==
  ASSUME NEW why, IInv, Silent(why), why # "none" PROVE ToldOK' /\ signal' \in BOOLEAN
BY DEF Silent, ToldOK, IInv, Types

LEMMA BroadcastTells == ASSUME Broadcast PROVE ToldOK' /\ signal' \in BOOLEAN
BY DEF Broadcast, ToldOK

LEMMA TurnStoppedKeeps == ASSUME IInv, TurnStopped PROVE IInv'
<1>1. UNCHANGED <<disk, age, launches, active, failed, tails, chain, finished, reported, settled, raced>>
  BY DEF TurnStopped
<1>2. /\ turn # None /\ turn.phase = "model" /\ turn' = None /\ inFlight' = inFlight \ {turn.id}
      /\ attempts' = attempts /\ Silent("policy")
  BY DEF TurnStopped
<1>3. ToldOK' /\ signal' \in BOOLEAN /\ attempts' \in [RunIds -> 0..(MAX_RENOTIFY_ATTEMPTS + 1)]
  BY <1>2, SilentTells DEF IInv, Types
<1> QED BY <1>1, <1>2, <1>3, TurnEnds

LEMMA TurnFailedKeeps == ASSUME IInv, TurnFailed PROVE IInv'
<1>1. UNCHANGED <<disk, age, launches, active, failed, tails, chain, finished, reported, settled, raced>>
  BY DEF TurnFailed
<1>2. /\ turn # None /\ turn.phase = "model" /\ turn' = None /\ inFlight' = inFlight \ {turn.id}
      /\ Broadcast \/ Silent("policy")
  BY DEF TurnFailed
<1>3. ToldOK' /\ signal' \in BOOLEAN
  BY <1>2, SilentTells, BroadcastTells
<1>4. attempts' \in [RunIds -> 0..(MAX_RENOTIFY_ATTEMPTS + 1)]
  <2> DEFINE M == MAX_RENOTIFY_ATTEMPTS
  <2>1. M \in Nat /\ attempts \in [RunIds -> 0..(M + 1)]
    BY DEF IInv, Types
  <2>2. attempts' = [attempts EXCEPT ![turn.id] = IF @ < M THEN @ + 1 ELSE M + 1]
    BY DEF TurnFailed
  <2> HIDE DEF M
  <2>3. \A n \in 0..(M + 1) : (IF n < M THEN n + 1 ELSE M + 1) \in 0..(M + 1)
    BY <2>1
  <2>4. attempts' \in [RunIds -> 0..(M + 1)]
    BY <2>1, <2>2, <2>3
  <2> QED BY <2>4 DEF M
<1> QED BY <1>1, <1>2, <1>3, <1>4, TurnEnds

LEMMA AckAbortedKeeps == ASSUME IInv, AckAborted PROVE IInv'
<1>1. UNCHANGED <<disk, age, launches, active, failed, tails, chain, finished, reported, settled, raced>>
  BY DEF AckAborted
<1>2. /\ turn # None /\ turn.phase \in {"acked", "recovered"} /\ turn' = None /\ inFlight' = inFlight
      /\ attempts' = attempts /\ Silent("policy")
  BY DEF AckAborted
<1>3. ToldOK' /\ signal' \in BOOLEAN /\ attempts' \in [RunIds -> 0..(MAX_RENOTIFY_ATTEMPTS + 1)]
  BY <1>2, SilentTells DEF IInv, Types
<1> QED BY <1>1, <1>2, <1>3, TurnEnds

LEMMA AckEndKeeps == ASSUME IInv, AckEnd PROVE IInv'
<1>1. UNCHANGED <<disk, age, launches, active, failed, tails, chain, finished, reported, settled, raced>>
  BY DEF AckEnd
<1>2. /\ turn # None /\ turn.phase = "recovered" /\ turn' = None /\ inFlight' = inFlight
      /\ attempts' = attempts
  BY DEF AckEnd
<1>3. ToldOK' /\ signal' \in BOOLEAN
  <2> DEFINE why == IF turn.answer = "no" THEN "unmarked" ELSE "policy"
  <2>1. Kick(turn.answer = "yes", why)
    BY DEF AckEnd
  <2>2. CASE Silent(why)
    <3>1. why # "none"
      OBVIOUS
    <3> HIDE DEF why
    <3> QED BY <2>2, <3>1, SilentTells
  <2>3. CASE Broadcast
    BY <2>3, BroadcastTells
  <2>4. CASE Silent("leak")
    BY <2>4, SilentTells
  <2>5. CASE Pending = {} /\ inFlight = {} /\ UNCHANGED <<signal, excuse>>
    <3>1. \A f \in finished : ~Findable(f)
      BY <2>5, NothingPending
    <3> QED BY <1>1, <2>5, <3>1 DEF ToldOK, Findable, IInv, Types
  <2> QED BY <2>1, <2>2, <2>3, <2>4, <2>5 DEF Kick
<1>4. attempts' \in [RunIds -> 0..(MAX_RENOTIFY_ATTEMPTS + 1)]
  BY <1>2 DEF IInv, Types
<1> QED BY <1>1, <1>2, <1>3, <1>4, TurnEnds

-----------------------------------------------------------------------------
\* A run id has one last launch, and no launch of it is later.
LEMMA LatestIsLast ==
  ASSUME Types, NEW r, NEW x, NEW y, Latest(r, x), Of(r, y)
  PROVE  y <= x /\ (Latest(r, y) => x = y)
BY DEF Types, Latest, Of, Now, Insts

\* A queue that a writer joins, seen from every queue.
LEMMA JoinedQueues ==
  ASSUME Types, NEW r \in RunIds, NEW op \in Op, op.out = None,
         chain' = [chain EXCEPT ![r] = Append(@, op)]
  PROVE  LET n == Len(chain[r]) + 1 IN
         /\ chain' \in [RunIds -> Seq(Op)] /\ \A q \in RunIds : q # r => chain'[q] = chain[q]
         /\ chain'[r] = Append(chain[r], op) /\ n \in DOMAIN chain'[r] /\ n \in Nat
         /\ \A q \in RunIds : \A i \in DOMAIN chain[q] :
              i \in DOMAIN chain'[q] /\ chain'[q][i] = chain[q][i] /\ i \in Nat /\ (q = r => i < n)
         /\ \A q \in RunIds : \A i \in DOMAIN chain'[q] :
              \/ i \in DOMAIN chain[q] /\ chain'[q][i] = chain[q][i]
              \/ q = r /\ i = n /\ chain'[q][i] = op
         /\ \A q \in RunIds : chain'[q] # <<>> /\ chain'[q][1].out # None =>
              chain[q] # <<>> /\ chain'[q][1] = chain[q][1]
<1>1. chain \in [RunIds -> Seq(Op)] /\ chain[r] \in Seq(Op)
  BY DEF Types
<1> DEFINE a == Append(chain[r], op)
           n == Len(chain[r]) + 1
<1>2. /\ a \in Seq(Op) /\ a # <<>> /\ Len(chain[r]) \in Nat /\ DOMAIN chain[r] = 1..Len(chain[r])
      /\ DOMAIN a = 1..Len(chain[r]) + 1 /\ a[Len(chain[r]) + 1] = op
      /\ \A i \in DOMAIN chain[r] : i \in DOMAIN a /\ a[i] = chain[r][i]
      /\ a[1] = IF chain[r] = <<>> THEN op ELSE chain[r][1]
  BY <1>1, QueueGrows
<1>3. chain'[r] = a /\ (\A q \in RunIds : q # r => chain'[q] = chain[q]) /\ chain' \in [RunIds -> Seq(Op)]
  BY <1>1, <1>2
<1>4. \A q \in RunIds : chain[q] \in Seq(Op) /\ \A i \in DOMAIN chain[q] : i \in Nat
  BY <1>1
<1> HIDE DEF a
<1>5. n \in DOMAIN chain'[r] /\ n \in Nat
  BY <1>2, <1>3
<1>6. \A q \in RunIds : \A i \in DOMAIN chain[q] :
        i \in DOMAIN chain'[q] /\ chain'[q][i] = chain[q][i] /\ i \in Nat /\ (q = r => i < n)
  BY <1>2, <1>3, <1>4
<1>7. \A q \in RunIds : \A i \in DOMAIN chain'[q] :
        \/ i \in DOMAIN chain[q] /\ chain'[q][i] = chain[q][i]
        \/ q = r /\ i = n /\ chain'[q][i] = op
  BY <1>2, <1>3, <1>4
<1>8. \A q \in RunIds : chain'[q] # <<>> /\ chain'[q][1].out # None =>
        chain[q] # <<>> /\ chain'[q][1] = chain[q][1]
  BY <1>2, <1>3
<1> QED BY <1>3, <1>5, <1>6, <1>7, <1>8 DEF a

\* A writer joins the queue of r; snapshots, the turn and what is reported may
\* change in the same step.
LEMMA Joins ==
  ASSUME IInv, NEW r \in RunIds, NEW op \in Op, op.out = None,
         chain' = [chain EXCEPT ![r] = Append(@, op)],
         UNCHANGED <<disk, age, launches, active, finished, settled, raced>>,
         reported \subseteq reported',
         \A q \in RunIds : \A i \in DOMAIN chain[q] : OpOK(q, chain[q][i])',
         OpOK(r, op)',
         op.kind = "recover" => Latest(r, op.inst),
         op.turn => \A i \in DOMAIN chain[r] : ~chain[r][i].turn,
         op.kind = "recover" /\ ~op.delivered =>
           \A f \in finished : f.id = r /\ f.inst = op.inst => InMemory(f)',
         \A f \in finished : InMemory(f) => InMemory(f)' \/ (op.turn /\ f.id = r)
  PROVE  ChainOK' /\ HeadsOK' /\ KnownOK' /\ chain' \in [RunIds -> Seq(Op)]
<1> DEFINE n == Len(chain[r]) + 1
<1>1. /\ chain' \in [RunIds -> Seq(Op)] /\ \A q \in RunIds : q # r => chain'[q] = chain[q]
      /\ chain'[r] = Append(chain[r], op) /\ n \in DOMAIN chain'[r] /\ n \in Nat
      /\ \A q \in RunIds : \A i \in DOMAIN chain[q] :
           i \in DOMAIN chain'[q] /\ chain'[q][i] = chain[q][i] /\ i \in Nat /\ (q = r => i < n)
      /\ \A q \in RunIds : \A i \in DOMAIN chain'[q] :
           \/ i \in DOMAIN chain[q] /\ chain'[q][i] = chain[q][i]
           \/ q = r /\ i = n /\ chain'[q][i] = op
      /\ \A q \in RunIds : chain'[q] # <<>> /\ chain'[q][1].out # None =>
           chain[q] # <<>> /\ chain'[q][1] = chain[q][1]
  BY JoinedQueues DEF IInv
<1> HIDE DEF n
<1>2. Now' = Now /\ (\A q, x : Of(q, x)' <=> Of(q, x)) /\ (\A q, x : Latest(q, x)' <=> Latest(q, x))
  BY DEF Now, Of, Latest
<1>3. ChainOK'
  <2>1. ASSUME NEW q \in RunIds PROVE Shape(chain'[q])
    <3>1. Shape(chain[q]) /\ chain[q] \in Seq(Op)
      BY DEF IInv, Types, ChainOK
    <3>2. CASE q # r
      BY <1>1, <3>1, <3>2
    <3>3. CASE q = r
      <4>1. \A i \in DOMAIN chain[r] : Of(r, chain[r][i].inst)
        BY DEF IInv, ChainOK, OpOK
      <4>2. op.kind = "recover" => \A i \in DOMAIN chain[r] : chain[r][i].inst <= op.inst
        BY <4>1, LatestIsLast DEF IInv
      <4> QED BY <1>1, <3>1, <3>3, <4>2, ShapeGrows
    <3> QED BY <3>2, <3>3
  <2>2. ASSUME NEW q \in RunIds, NEW i \in DOMAIN chain'[q] PROVE OpOK(q, chain[q][i])'
    BY <1>1
  <2> QED BY <2>1, <2>2 DEF ChainOK
<1>4. HeadsOK'
  <2> SUFFICES ASSUME NEW q \in RunIds, chain'[q] # <<>>, chain'[q][1].out # None
               PROVE  HeadOK(q, chain[q][1], disk[q])'
    BY DEF HeadsOK
  <2>1. chain'[q][1] = chain[q][1] /\ HeadOK(q, chain[q][1], disk[q])
    BY <1>1 DEF IInv, HeadsOK
  <2> QED BY <1>2, <2>1 DEF HeadOK, Overtook
<1>5. KnownOK'
  <2> SUFFICES ASSUME NEW q \in RunIds, NEW i \in DOMAIN chain'[q], NEW f \in finished,
                      chain'[q][i].kind = "recover", ~chain'[q][i].delivered,
                      f.id = q, f.inst = chain'[q][i].inst
               PROVE  \/ InMemory(f)' \/ Landed(q, f.inst)'
                      \/ \E j \in DOMAIN chain'[q] : j > i /\ chain'[q][j].turn
    BY DEF KnownOK
  <2>1. CASE q = r /\ i = n /\ chain'[q][i] = op
    BY <2>1
  <2>2. CASE i \in DOMAIN chain[q] /\ chain'[q][i] = chain[q][i]
    <3>1. \/ InMemory(f) \/ Landed(q, f.inst) \/ \E j \in DOMAIN chain[q] : j > i /\ chain[q][j].turn
      BY <2>2 DEF IInv, KnownOK
    <3>2. CASE InMemory(f)
      BY <1>1, <2>2, <3>2
    <3>3. CASE \E j \in DOMAIN chain[q] : j > i /\ chain[q][j].turn
      BY <1>1, <3>3
    <3>4. CASE Landed(q, f.inst)
      <4>1. Latest(q, f.inst)
        BY DEF IInv, OwnOK
      <4>2. op.kind = "recover" /\ q = r => op.inst = f.inst
        BY <4>1, LatestIsLast DEF IInv, Latest
      <4>3. \A k \in DOMAIN chain'[q] : chain'[q][k].kind = "recover" => chain'[q][k].inst = f.inst
        BY <1>1, <3>4, <4>2 DEF Landed
      <4> QED BY <1>1, <3>4, <4>3 DEF Landed
    <3> QED BY <3>1, <3>2, <3>3, <3>4
  <2> QED BY <1>1, <2>1, <2>2
<1> QED BY <1>1, <1>3, <1>4, <1>5

\* A writer joins and nothing else happens.
LEMMA JoinsOnly ==
  ASSUME IInv, NEW r \in RunIds, NEW op \in Op, op.out = None, ~op.turn, OpOK(r, op),
         chain' = [chain EXCEPT ![r] = Append(@, op)],
         UNCHANGED <<disk, age, launches, active, failed, inFlight, attempts, turn, signal, hist>>,
         tails' \subseteq tails, \A t \in tails : t.cancelled \/ t \in tails',
         op.kind = "recover" => Latest(r, op.inst),
         op.kind = "recover" /\ ~op.delivered =>
           \A f \in finished : f.id = r /\ f.inst = op.inst => InMemory(f)
  PROVE  IInv'
<1>1. Now' = Now /\ (\A q, x : Of(q, x)' <=> Of(q, x)) /\ (\A q, x : Latest(q, x)' <=> Latest(q, x))
  BY DEF Now, Of, Latest
<1>2. \A q : \A o : OpOK(q, o) => OpOK(q, o)'
  BY <1>1 DEF OpOK, RecoverOK, AwaitedOK, hist
<1>3. \A q \in RunIds : \A i \in DOMAIN chain[q] : OpOK(q, chain[q][i])'
  BY <1>2 DEF IInv, ChainOK
<1>4. \A f : InMemory(f)' <=> InMemory(f)
  BY DEF InMemory
<1>5. ChainOK' /\ HeadsOK' /\ KnownOK' /\ chain' \in [RunIds -> Seq(Op)]
  BY <1>2, <1>3, <1>4, Joins DEF hist
<1>6. Types'
  BY <1>1, <1>5 DEF IInv, Types, hist
<1>7. ActiveOK'
  BY <1>1 DEF IInv, ActiveOK, hist
<1>8. OwnOK'
  BY <1>1 DEF IInv, OwnOK, hist
<1>9. ReportedOK'
  BY DEF IInv, ReportedOK, hist
<1>10. FilesOK'
  BY DEF IInv, FilesOK, Open, hist
<1>11. AckedOK'
  BY <1>1 DEF IInv, AckedOK, hist
<1>12. ToldOK' /\ NothingSwallowed'
  BY DEF IInv, ToldOK, NothingSwallowed, Findable, hist
<1> QED BY <1>5, <1>6, <1>7, <1>8, <1>9, <1>10, <1>11, <1>12 DEF IInv

LEMMA ReconcileZombieKeeps == ASSUME IInv, NEW r \in RunIds, ReconcileZombie(r) PROVE IInv'
<1> DEFINE op == [kind |-> "interrupt", inst |-> disk[r].inst, delivered |-> TRUE, rev |-> 0,
                  turn |-> FALSE, out |-> None]
<1>1. disk[r] \in Record /\ disk[r].status = "running" /\ SnapshotOf(r) = {} /\ (active # None => active.id # r)
  BY DEF ReconcileZombie, IInv, Types
<1>2. op \in Op /\ op.kind = "interrupt" /\ op.out = None /\ ~op.turn /\ op.inst = disk[r].inst
  BY <1>1, RecordFields DEF Op
<1>3. /\ chain' = [chain EXCEPT ![r] = Append(@, op)]
      /\ UNCHANGED <<disk, age, launches, active, failed, tails, inFlight, attempts, turn, signal, hist>>
  BY DEF ReconcileZombie
<1> HIDE DEF op
<1>4. Of(r, op.inst)
  BY <1>1, <1>2 DEF IInv, OwnOK
<1>5. active # None => op.inst # Now
  BY <1>1, <1>4 DEF IInv, ActiveOK, Of
<1>6. \A f \in finished : f.id = r /\ f.inst = op.inst => f.inst \in raced \cup reported
  BY <1>1, <1>2 DEF IInv, NothingSwallowed, Findable, SnapshotOf
<1>7. OpOK(r, op)
  BY <1>2, <1>4, <1>5, <1>6 DEF OpOK, RecoverOK, AwaitedOK
<1> QED BY <1>2, <1>3, <1>7, JoinsOnly

\* A write-back that is queued now is in order.
LEMMA RecoverOpOK ==
  ASSUME IInv, NEW s \in failed
  PROVE  /\ RecoverOp(s, FALSE) \in Op /\ RecoverOp(s, TRUE) \in Op
         /\ s.id \in RunIds /\ Latest(s.id, s.inst) /\ OpOK(s.id, RecoverOp(s, FALSE))
<1> DEFINE op == RecoverOp(s, FALSE)
<1>1. s \in Snapshot
  BY DEF IInv, Types
<1>2. /\ op.kind = "recover" /\ op.inst = s.inst /\ op.delivered = s.delivered /\ op.rev = s.rev
      /\ ~op.turn /\ op \in Op /\ RecoverOp(s, TRUE) \in Op
  BY <1>1, SnapshotFields DEF RecoverOp, Op
<1>3. Latest(s.id, s.inst) /\ Of(s.id, s.inst) /\ s.inst \in Nat /\ s.rev \in Nat
  BY <1>1, SnapshotFields DEF IInv, OwnOK, Latest
<1> HIDE DEF op
<1>4. active # None => op.inst # Now
  BY <1>2, <1>3 DEF IInv, ActiveOK, Of
<1>5. \A t \in failed : t.id = s.id => t = s
  BY DEF IInv, OwnOK
<1>6. \A x \in settled : Of(s.id, x) => x <= op.inst
  BY <1>2, <1>3, LatestIsLast DEF IInv
<1>7. s.delivered => s.inst \in reported
  BY DEF IInv, ReportedOK
<1>8. RecoverOK(s.id, op)
  BY <1>2, <1>3, <1>5, <1>6, <1>7 DEF RecoverOK
<1>9. OpOK(s.id, op)
  BY <1>2, <1>3, <1>4, <1>8 DEF OpOK, AwaitedOK
<1> QED BY <1>1, <1>2, <1>3, <1>9, SnapshotFields DEF op

LEMMA RetryPersistKeeps == ASSUME IInv, NEW s \in failed, RetryPersist(s) PROVE IInv'
<1> DEFINE op == RecoverOp(s, FALSE)
<1>1. op.out = None /\ ~op.turn /\ op.delivered = s.delivered /\ op.inst = s.inst
  BY DEF RecoverOp
<1>2. /\ chain' = [chain EXCEPT ![s.id] = Append(@, op)]
      /\ UNCHANGED <<disk, age, launches, active, failed, tails, inFlight, attempts, turn, signal, hist>>
  BY DEF RetryPersist
<1>3. op \in Op /\ s.id \in RunIds /\ Latest(s.id, s.inst) /\ OpOK(s.id, op)
  BY RecoverOpOK
<1> HIDE DEF op
<1>4. ~op.delivered => \A f \in finished : f.id = s.id /\ f.inst = op.inst => InMemory(f)
  BY <1>1 DEF InMemory
<1> QED BY <1>1, <1>2, <1>3, <1>4, JoinsOnly

LEMMA AckStartKeeps == ASSUME IInv, AckStart PROVE IInv'
<1>1. turn \in Turn /\ turn # None /\ turn.phase = "model"
  BY DEF AckStart, IInv, Types
<1>2. PICK r \in RunIds : r = turn.id /\ turn.inst \in Insts /\ Of(r, turn.inst) /\ r \in inFlight
  BY <1>1, TurnFields DEF IInv, OwnOK, ReportedOK
<1>3. /\ turn' \in Turn /\ turn' # None /\ turn'.id = turn.id /\ turn'.inst = turn.inst /\ turn'.phase = "acking"
  BY <1>1, NoneApart DEF AckStart, Turn
<1>4. PICK op \in Op :
        /\ op = [kind |-> "ack", inst |-> turn.inst, delivered |-> TRUE, rev |-> 0, turn |-> TRUE, out |-> None]
        /\ op.kind = "ack" /\ op.inst = turn.inst /\ op.out = None /\ op.turn
  <2> DEFINE o == [kind |-> "ack", inst |-> turn.inst, delivered |-> TRUE, rev |-> 0, turn |-> TRUE, out |-> None]
  <2>1. o \in Op /\ o.kind = "ack" /\ o.inst = turn.inst /\ o.out = None /\ o.turn
    BY <1>2 DEF Op
  <2> QED BY <2>1
<1>5. /\ chain' = [chain EXCEPT ![r] = Append(@, op)] /\ reported' = reported \cup {turn.inst}
      /\ UNCHANGED <<disk, age, launches, active, failed, tails, inFlight, attempts, signal>>
      /\ UNCHANGED <<finished, settled, raced, excuse>>
  BY <1>2, <1>4 DEF AckStart
<1>6. Now' = Now /\ (\A q, x : Of(q, x)' <=> Of(q, x)) /\ (\A q, x : Latest(q, x)' <=> Latest(q, x))
  BY <1>5 DEF Now, Of, Latest
<1>7. active # None /\ turn.inst = Now => active.saved
  BY <1>1 DEF IInv, ActiveOK
<1>8. \A q \in RunIds : \A i \in DOMAIN chain[q] : ~chain[q][i].turn
  BY <1>1 DEF IInv, ChainOK, OpOK, AwaitedOK
<1>9. \A q \in RunIds : \A i \in DOMAIN chain[q] : OpOK(q, chain[q][i])'
  BY <1>5, <1>6, <1>8 DEF IInv, ChainOK, OpOK, RecoverOK, AwaitedOK
<1>10. OpOK(r, op)'
  BY <1>2, <1>3, <1>4, <1>5, <1>6 DEF OpOK, RecoverOK, AwaitedOK
<1>11. \A f : InMemory(f)' <=> InMemory(f)
  BY <1>5 DEF InMemory
<1>12. ChainOK' /\ HeadsOK' /\ KnownOK' /\ chain' \in [RunIds -> Seq(Op)]
  BY <1>2, <1>4, <1>5, <1>8, <1>9, <1>10, <1>11, Joins
<1>13. Types'
  BY <1>2, <1>3, <1>5, <1>6, <1>12 DEF IInv, Types
<1>14. ActiveOK'
  BY <1>3, <1>5, <1>6, <1>7 DEF IInv, ActiveOK
<1>15. OwnOK'
  <2>1. reported' \subseteq 1..Now
    BY <1>2, <1>5 DEF IInv, OwnOK, Of
  <2>2. Of(turn.id, turn.inst)
    BY <1>2
  <2> QED BY <1>3, <1>5, <1>6, <2>1, <2>2 DEF IInv, OwnOK
<1>16. ReportedOK'
  BY <1>2, <1>3, <1>5 DEF IInv, ReportedOK
<1>17. FilesOK'
  BY <1>5 DEF IInv, FilesOK, Open
<1>18. AckedOK'
  BY <1>1, <1>3, <1>5, <1>6 DEF IInv, AckedOK
<1>19. ToldOK' /\ NothingSwallowed'
  BY <1>3, <1>5 DEF IInv, ToldOK, NothingSwallowed, Findable
<1> QED BY <1>12, <1>13, <1>14, <1>15, <1>16, <1>17, <1>18, <1>19 DEF IInv

\* After the acknowledgement: the snapshot of the run, if there is one, is marked
\* when it is of the same instance, and written back.
LEMMA AckSettleKeeps == ASSUME IInv, AckSettle PROVE IInv'
<1>1. turn \in Turn /\ turn # None /\ turn.phase = "acked" /\ turn.inst \in reported
  BY DEF AckSettle, IInv, Types, ReportedOK
<1>2. PICK r \in RunIds : r = turn.id /\ Of(r, turn.inst)
  BY <1>1, TurnFields DEF IInv, OwnOK
<1>3. /\ UNCHANGED <<disk, age, launches, active, tails, signal>>
      /\ UNCHANGED <<finished, reported, settled, raced, excuse>>
      /\ inFlight' = inFlight \ {r} /\ attempts' = [attempts EXCEPT ![r] = 0]
  BY <1>2 DEF AckSettle, hist
<1>4. inFlight' \subseteq RunIds /\ attempts' \in [RunIds -> 0..(MAX_RENOTIFY_ATTEMPTS + 1)]
  <2>1. 0 \in 0..(MAX_RENOTIFY_ATTEMPTS + 1)
    BY NotifyAssumption
  <2> QED BY <1>3, <2>1 DEF IInv, Types
<1>5. active # None /\ turn.inst = Now => active.saved
  BY <1>1 DEF IInv, ActiveOK
<1>6. \A s \in failed : s.inst \in settled \ raced /\ ~s.delivered =>
        s.id \in inFlight /\ (r = s.id => turn.inst = s.inst)
  BY <1>1, <1>2 DEF IInv, AckedOK
<1>7. signal' \in BOOLEAN
  BY <1>3 DEF IInv, Types
<1>8. CASE SnapshotOf(r) = {}
  <2>1. turn' = [turn EXCEPT !.phase = "recovered"] /\ failed' = failed /\ chain' = chain
    BY <1>2, <1>8 DEF AckSettle
  <2>2. turn' \in Turn /\ turn' # None /\ turn'.id = turn.id /\ turn'.inst = turn.inst /\ turn'.phase = "recovered"
    BY <1>1, <2>1, NoneApart DEF Turn
  <2>3. \A s \in failed : s.id # r
    BY <1>8 DEF SnapshotOf
  <2>4. ToldOK'
    BY <2>2 DEF ToldOK
  <2> QED BY <1>1, <1>2, <1>3, <1>4, <1>5, <1>6, <1>7, <2>1, <2>2, <2>3, <2>4, TurnMoves
<1>9. CASE SnapshotOf(r) # {}
  <2>1. PICK s \in SnapshotOf(r) :
          LET mine == s.inst = turn.inst
              next == IF mine THEN [s EXCEPT !.delivered = TRUE, !.rev = @ + 1] ELSE s
          IN /\ mine => s.rev < MaxRev
             /\ failed' = DropSnapshot(r) \cup {next}
             /\ chain' = [chain EXCEPT ![r] = Append(@, RecoverOp(next, TRUE))]
             /\ turn' = [turn EXCEPT !.phase = "recovering"]
    BY <1>2, <1>9 DEF AckSettle
  <2>2. s \in failed /\ s \in Snapshot /\ s.id = r /\ Latest(r, s.inst) /\ \A t \in failed : t.id = r => t = s
    BY DEF SnapshotOf, IInv, Types, OwnOK
  <2>3. turn' \in Turn /\ turn' # None /\ turn'.id = r /\ turn'.inst = turn.inst /\ turn'.phase = "recovering"
    BY <1>1, <1>2, <2>1, NoneApart DEF Turn
  <2>4. PICK next \in Snapshot :
          /\ next.id = r /\ next.inst = s.inst /\ s.rev <= next.rev
          /\ next.rev = s.rev => next = s
          /\ next.delivered => next = s \/ s.inst = turn.inst
          /\ ~next.delivered => (next = s /\ s.inst # turn.inst)
          /\ s.delivered => next.delivered
          /\ failed' = DropSnapshot(r) \cup {next}
          /\ chain' = [chain EXCEPT ![r] = Append(@, RecoverOp(next, TRUE))]
    <3>1. CASE s.inst = turn.inst
      <4> DEFINE next == [s EXCEPT !.delivered = TRUE, !.rev = @ + 1]
      <4>1. next \in Snapshot /\ next.id = r /\ next.inst = s.inst /\ next.rev = s.rev + 1 /\ next.delivered
        <5>1. s.rev < MaxRev
          BY <2>1, <3>1
        <5>2. s.rev \in 0..MaxRev /\ MaxRev \in Nat
          BY <2>2, SnapshotFields
        <5>3. s.rev + 1 \in 0..MaxRev
          BY <5>1, <5>2
        <5> QED BY <2>2, <5>3 DEF Snapshot
      <4>2. s.rev \in Nat
        BY <2>2, SnapshotFields
      <4>3. /\ failed' = DropSnapshot(r) \cup {next}
            /\ chain' = [chain EXCEPT ![r] = Append(@, RecoverOp(next, TRUE))]
        BY <2>1, <3>1
      <4> HIDE DEF next
      <4>4. s.rev <= next.rev /\ next.rev # s.rev
        BY <4>1, <4>2
      <4> QED BY <3>1, <4>1, <4>3, <4>4
    <3>2. CASE s.inst # turn.inst
      <4>1. s.rev <= s.rev
        BY <2>2, SnapshotFields
      <4>2. /\ failed' = DropSnapshot(r) \cup {s}
            /\ chain' = [chain EXCEPT ![r] = Append(@, RecoverOp(s, TRUE))]
        BY <2>1, <3>2
      <4> QED BY <2>2, <3>2, <4>1, <4>2
    <3> QED BY <3>1, <3>2
  <2>5. PICK op \in Op : /\ op = RecoverOp(next, TRUE) /\ op.kind = "recover" /\ op.inst = next.inst
                         /\ op.delivered = next.delivered /\ op.rev = next.rev /\ op.turn /\ op.out = None
    <3>1. RecoverOp(next, TRUE) \in Op
      BY SnapshotFields DEF RecoverOp, Op
    <3> QED BY <3>1 DEF RecoverOp
  <2>6. Now' = Now /\ (\A q, x : Of(q, x)' <=> Of(q, x)) /\ (\A q, x : Latest(q, x)' <=> Latest(q, x))
    BY <1>3 DEF Now, Of, Latest
  <2>7. \A t \in failed' : t = next \/ (t \in failed /\ t.id # r)
    BY <2>4 DEF DropSnapshot
  <2>8. \A t \in failed : t.id # r => t \in failed'
    BY <2>4 DEF DropSnapshot
  <2>9. \A q \in RunIds : \A i \in DOMAIN chain[q] : ~chain[q][i].turn
    BY <1>1 DEF IInv, ChainOK, OpOK, AwaitedOK
  <2>10. s.delivered => s.inst \in reported
    BY <2>2 DEF IInv, ReportedOK
  <2>11. next.delivered => next.inst \in reported
    BY <1>1, <2>4, <2>10
  <2>12. ASSUME NEW q \in RunIds, NEW i \in DOMAIN chain[q] PROVE OpOK(q, chain[q][i])'
    <3>1. PICK o \in Op : o = chain[q][i] /\ OpOK(q, o) /\ ~o.turn
      BY <2>9 DEF IInv, ChainOK, Types
    <3>5. chain'[q][i] = o
      <4>1. chain' = [chain EXCEPT ![r] = Append(@, op)]
        BY <2>4, <2>5
      <4>2. \A p \in RunIds : \A k \in DOMAIN chain[p] : chain'[p][k] = chain[p][k]
        BY <2>5, <4>1, JoinedQueues DEF IInv
      <4> QED BY <3>1, <4>2
    <3>2. ASSUME o.kind = "recover", NEW t \in failed', t.id = q, t.inst = o.inst
          PROVE  o.rev <= t.rev /\ (o.rev = t.rev => o.delivered = t.delivered)
      <4>1. CASE t = next
        <5>1. q = r /\ s.inst = o.inst
          BY <2>4, <3>2, <4>1
        <5>2. o.rev <= s.rev /\ (o.rev = s.rev => o.delivered = s.delivered)
          BY <2>2, <3>1, <3>2, <5>1 DEF OpOK, RecoverOK
        <5>3. o.rev \in Nat /\ s.rev \in Nat /\ next.rev \in Nat
          BY <2>2, <3>1, SnapshotFields, OpFields
        <5> QED BY <2>4, <4>1, <5>2, <5>3
      <4>2. CASE t \in failed
        BY <3>1, <3>2, <4>2 DEF OpOK, RecoverOK
      <4> QED BY <2>7, <3>2, <4>1, <4>2
    <3>3. RecoverOK(q, o)'
      BY <1>3, <2>6, <3>1, <3>2 DEF OpOK, RecoverOK
    <3>4. AwaitedOK(q, o)'
      BY <3>1 DEF AwaitedOK
    <3> QED BY <1>3, <2>6, <3>1, <3>3, <3>4, <3>5 DEF OpOK
  <2>13. OpOK(r, op)'
    <3>1. Of(r, op.inst)
      BY <2>2, <2>4, <2>5 DEF Latest
    <3>2. active # None => op.inst # Now
      BY <2>2, <3>1 DEF IInv, ActiveOK, Of
    <3>3. AwaitedOK(r, op)'
      BY <2>3, <2>5 DEF AwaitedOK
    <3>4. \A x \in settled : Of(r, x) => x <= op.inst
      BY <2>2, <2>4, <2>5, LatestIsLast DEF IInv
    <3>5. \A t \in failed' : t.id = r => t = next
      BY <2>7
    <3>6. next.rev \in Nat
      BY SnapshotFields
    <3>7. RecoverOK(r, op)'
      <4>1. op.delivered => op.inst \in reported'
        BY <1>3, <2>5, <2>11
      <4>2. \A t \in failed' : t.id = r => op.rev <= t.rev /\ (op.rev = t.rev => op.delivered = t.delivered)
        <5> SUFFICES ASSUME NEW t \in failed', t.id = r
                     PROVE  op.rev <= t.rev /\ op.delivered = t.delivered
          OBVIOUS
        <5>1. t = next
          BY <3>5
        <5>2. op.rev <= t.rev
          <6>1. op.rev = t.rev
            BY <2>5, <5>1, Zenon
          <6>2. t.rev \in Nat
            BY <3>6, <5>1, Zenon
          <6> QED BY <6>1, <6>2
        <5>3. op.delivered = t.delivered
          BY <2>5, <5>1, Zenon
        <5> QED BY <5>2, <5>3
      <4>3. \A x \in settled' : Of(r, x)' => x <= op.inst
        BY <1>3, <2>6, <3>4
      <4> QED BY <4>1, <4>2, <4>3 DEF RecoverOK
    <3> QED BY <1>3, <2>5, <2>6, <3>1, <3>2, <3>3, <3>7 DEF OpOK
  <2>14. ~op.delivered => \A f : f.id = r /\ f.inst = op.inst => InMemory(f)'
    BY <2>4, <2>5 DEF InMemory
  <2>15. \A f : InMemory(f) /\ f.id # r => InMemory(f)'
    BY <2>8 DEF InMemory
  <2>16. ChainOK' /\ HeadsOK' /\ KnownOK' /\ chain' \in [RunIds -> Seq(Op)]
    BY <1>3, <2>2, <2>4, <2>5, <2>9, <2>12, <2>13, <2>14, <2>15, Joins
  <2>17. failed' \subseteq Snapshot
    BY <2>7 DEF IInv, Types
  <2>18. Types'
    BY <1>3, <1>4, <1>7, <2>3, <2>6, <2>16, <2>17 DEF IInv, Types
  <2>19. ActiveOK'
    BY <1>3, <1>5, <2>2, <2>3, <2>4, <2>6, <2>7 DEF IInv, ActiveOK
  <2>20. OwnOK'
    <3>1. \A t \in failed' : Latest(t.id, t.inst)
      BY <2>2, <2>4, <2>7 DEF IInv, OwnOK
    <3>2. \A t, u \in failed' : t.id = u.id => t = u
      BY <2>4, <2>7 DEF IInv, OwnOK
    <3> QED BY <1>2, <1>3, <2>3, <2>6, <3>1, <3>2 DEF IInv, OwnOK
  <2>21. ReportedOK'
    BY <1>1, <1>3, <2>3, <2>7, <2>11 DEF IInv, ReportedOK
  <2>22. FilesOK'
    BY <1>3 DEF IInv, FilesOK, Open
  <2>23. AckedOK'
    <3>1. ASSUME NEW t \in failed', t.inst \in settled \ raced, ~t.delivered PROVE t.id \in inFlight' /\ t.id # r
      <4>1. CASE t = next
        <5>1. ~s.delivered /\ next = s /\ s.inst # turn.inst
          BY <2>4, <3>1, <4>1
        <5> QED BY <1>6, <2>2, <3>1, <4>1, <5>1
      <4>2. CASE t \in failed /\ t.id # r
        BY <1>3, <1>6, <3>1, <4>2
      <4> QED BY <2>7, <3>1, <4>1, <4>2
    <3> QED BY <1>3, <2>3, <2>6, <3>1 DEF IInv, AckedOK
  <2>24. ToldOK'
    BY <2>3 DEF ToldOK
  <2>25. NothingSwallowed'
    <3> SUFFICES ASSUME NEW f \in finished, f.inst \notin raced \cup reported PROVE Findable(f)'
      BY <1>3 DEF NothingSwallowed
    <3>1. Findable(f)
      BY DEF IInv, NothingSwallowed
    <3>2. ASSUME NEW t \in failed, t.id = f.id, t.inst = f.inst, ~t.delivered PROVE t \in failed'
      <4>1. t.id = r => t = s /\ next = s
        BY <1>1, <2>2, <2>4, <3>2
      <4> QED BY <2>4, <2>8, <4>1
    <3> QED BY <1>3, <3>1, <3>2 DEF Findable
  <2> QED BY <2>16, <2>18, <2>19, <2>20, <2>21, <2>22, <2>23, <2>24, <2>25 DEF IInv
<1> QED BY <1>8, <1>9


LEMMA SettleTailKeeps == ASSUME IInv, NEW t \in tails, SettleTail(t) PROVE IInv'
<1>1. /\ t.id \in RunIds /\ t.inst \in Insts /\ Of(t.id, t.inst)
      /\ active # None => t.inst # Now
  BY DEF IInv, Types, Tails, OwnOK, ActiveOK
<1>2. /\ UNCHANGED <<disk, age, launches, crashes, active, inFlight, attempts, turn>>
      /\ UNCHANGED <<finished, reported, settled, raced>>
      /\ tails' = tails \ {t}
  BY DEF SettleTail
<1>3. CASE t.cancelled
  <2>1. PICK r \in RunIds : r = t.id
    BY <1>1
  <2>2. PICK op \in Op :
          /\ op = [kind |-> "cancelled", inst |-> t.inst, delivered |-> TRUE, rev |-> 0, turn |-> FALSE, out |-> None]
          /\ op.kind = "cancelled" /\ op.inst = t.inst /\ op.out = None /\ ~op.turn
    <3> DEFINE o == [kind |-> "cancelled", inst |-> t.inst, delivered |-> TRUE, rev |-> 0, turn |-> FALSE, out |-> None]
    <3>1. o \in Op /\ o.kind = "cancelled" /\ o.inst = t.inst /\ o.out = None /\ ~o.turn
      BY <1>1 DEF Op
    <3> QED BY <3>1
  <2>3. chain' = [chain EXCEPT ![r] = Append(@, op)] /\ UNCHANGED <<failed, signal, excuse>>
    BY <1>3, <2>1, <2>2 DEF SettleTail
  <2>4. \A f \in finished : f.inst # op.inst
    BY <1>3, <2>2 DEF IInv, ReportedOK
  <2>5. OpOK(r, op)
    BY <1>1, <2>1, <2>2, <2>4 DEF OpOK, RecoverOK, AwaitedOK
  <2>6. UNCHANGED <<disk, age, launches, active, failed, inFlight, attempts, turn, signal, hist>>
    BY <1>2, <2>3 DEF hist
  <2>7. tails' \subseteq tails /\ \A u \in tails : u.cancelled \/ u \in tails'
    BY <1>2, <1>3
  <2> QED BY <2>2, <2>3, <2>5, <2>6, <2>7, JoinsOnly
<1>4. CASE ~t.cancelled
  <2>1. signal' = TRUE /\ excuse' = "none" /\ chain' = chain
    BY <1>4 DEF SettleTail, Broadcast
  <2>2. failed' \subseteq failed /\ \A s \in failed : s.delivered \/ s \in failed'
    BY <1>4 DEF SettleTail, Evicted
  <2>3. Now' = Now /\ (\A q, x : Of(q, x)' <=> Of(q, x)) /\ (\A q, x : Latest(q, x)' <=> Latest(q, x))
    BY <1>2 DEF Now, Of, Latest
  <2>4. \A f : InMemory(f)' <=> InMemory(f)
    BY <2>2 DEF InMemory
  <2>5. Types'
    BY <1>2, <2>1, <2>2, <2>3 DEF IInv, Types
  <2>6. ActiveOK'
    BY <1>2, <2>2, <2>3 DEF IInv, ActiveOK
  <2>7. OwnOK'
    BY <1>2, <2>2, <2>3 DEF IInv, OwnOK
  <2>8. ReportedOK'
    BY <1>2, <2>2, <2>3 DEF IInv, ReportedOK
  <2>9. ChainOK'
    <3>1. ASSUME NEW q \in RunIds, NEW i \in DOMAIN chain[q] PROVE OpOK(q, chain[q][i])'
      <4>1. OpOK(q, chain[q][i]) /\ chain'[q][i] = chain[q][i]
        BY <2>1 DEF IInv, ChainOK
      <4>2. RecoverOK(q, chain[q][i])'
        BY <1>2, <2>2, <2>3, <4>1 DEF OpOK, RecoverOK
      <4>3. AwaitedOK(q, chain[q][i])'
        BY <1>2, <4>1 DEF OpOK, AwaitedOK
      <4> QED BY <1>2, <2>3, <4>1, <4>2, <4>3 DEF OpOK
    <3> QED BY <2>1, <3>1 DEF IInv, ChainOK
  <2>10. HeadsOK'
    <3> SUFFICES ASSUME NEW q \in RunIds, chain[q] # <<>>, chain[q][1].out # None
                 PROVE  HeadOK(q, chain[q][1], disk[q])'
      BY <2>1 DEF HeadsOK
    <3>1. HeadOK(q, chain[q][1], disk[q])
      BY DEF IInv, HeadsOK
    <3> QED BY <1>2, <2>1, <2>3, <3>1 DEF HeadOK, Overtook
  <2>11. FilesOK'
    BY <1>2 DEF IInv, FilesOK, Open
  <2>12. AckedOK'
    BY <1>2, <2>2, <2>3 DEF IInv, AckedOK
  <2>13. KnownOK'
    BY <1>2, <2>1, <2>4 DEF IInv, KnownOK, Landed
  <2>14. ToldOK'
    BY <2>1 DEF ToldOK
  <2>15. NothingSwallowed'
    BY <1>2, <2>2 DEF IInv, NothingSwallowed, Findable
  <2> QED BY <2>5, <2>6, <2>7, <2>8, <2>9, <2>10, <2>11, <2>12, <2>13, <2>14, <2>15 DEF IInv
<1> QED BY <1>3, <1>4

-----------------------------------------------------------------------------
\* A queue whose head is through, seen from every queue.
LEMMA LeftQueues ==
  ASSUME Types, NEW r \in RunIds, chain[r] # <<>>, chain' = [chain EXCEPT ![r] = Tail(@)]
  PROVE  /\ chain' \in [RunIds -> Seq(Op)] /\ \A q \in RunIds : q # r => chain'[q] = chain[q]
         /\ chain'[r] = Tail(chain[r]) /\ Head(chain[r]) = chain[r][1]
         /\ chain[r][1] \in Op /\ 1 \in DOMAIN chain[r]
         /\ \A i \in DOMAIN chain'[r] : i \in Nat /\ i # 0 /\ i + 1 \in DOMAIN chain[r] /\ chain'[r][i] = chain[r][i + 1]
         /\ \A i \in DOMAIN chain[r] : i = 1 \/ (i - 1 \in DOMAIN chain'[r] /\ chain'[r][i - 1] = chain[r][i])
         /\ \A i \in DOMAIN chain[r] : i \in Nat
         /\ chain'[r] # <<>> => 1 \in DOMAIN chain'[r]
<1>1. chain \in [RunIds -> Seq(Op)] /\ chain[r] \in Seq(Op)
  BY DEF Types
<1>2. /\ chain'[r] = Tail(chain[r]) /\ \A q \in RunIds : q # r => chain'[q] = chain[q]
  BY <1>1
<1>3. /\ Tail(chain[r]) \in Seq(Op) /\ Head(chain[r]) = chain[r][1] /\ chain[r][1] \in Op /\ 1 \in DOMAIN chain[r]
      /\ \A i \in DOMAIN Tail(chain[r]) : i \in Nat /\ i # 0 /\ i + 1 \in DOMAIN chain[r] /\ Tail(chain[r])[i] = chain[r][i + 1]
      /\ \A i \in DOMAIN chain[r] : i = 1 \/ (i - 1 \in DOMAIN Tail(chain[r]) /\ Tail(chain[r])[i - 1] = chain[r][i])
      /\ Tail(chain[r]) # <<>> => 1 \in DOMAIN Tail(chain[r])
  BY <1>1, QueueShrinks
<1>4. chain' \in [RunIds -> Seq(Op)]
  BY <1>1, <1>3
<1>5. \A i \in DOMAIN chain[r] : i \in Nat
  BY <1>1
<1> QED BY <1>2, <1>3, <1>4, <1>5

\* What the head of the queue of r, being op, makes of the turn.
Answered(op, answer) ==
  turn' = IF ~op.turn THEN turn
          ELSE IF op.kind = "ack" THEN [turn EXCEPT !.phase = "acked", !.answer = answer]
          ELSE [turn EXCEPT !.phase = "recovered", !.answer = "yes"]

LEMMA TurnGoesOn ==
  ASSUME IInv, NEW r \in RunIds, NEW op \in Op, AwaitedOK(r, op),
         NEW answer \in {"yes", "no", "failed"}, Answered(op, answer)
  PROVE  /\ turn' \in Turn \cup {None}
         /\ (turn' = None <=> turn = None) /\ turn'.id = turn.id /\ turn'.inst = turn.inst
         /\ turn' = turn \/ (/\ op.turn /\ turn # None /\ turn.id = r
                             /\ \/ /\ op.kind = "ack" /\ turn.phase = "acking" /\ turn.inst = op.inst
                                   /\ turn'.phase = "acked"
                                \/ /\ op.kind = "recover" /\ turn.phase = "recovering"
                                   /\ turn'.phase = "recovered")
<1>1. turn \in Turn \cup {None}
  BY DEF IInv, Types
<1>2. CASE ~op.turn
  BY <1>1, <1>2 DEF Answered
<1>3. CASE op.turn
  <2>1. turn \in Turn /\ turn # None /\ turn.id = r
    BY <1>1, <1>3 DEF AwaitedOK
  <2>2. CASE op.kind = "ack"
    <3>1. turn' = [turn EXCEPT !.phase = "acked", !.answer = answer]
      BY <1>3, <2>2 DEF Answered
    <3>2. turn' \in Turn /\ turn'.id = turn.id /\ turn'.inst = turn.inst /\ turn'.phase = "acked"
      BY <2>1, <3>1 DEF Turn
    <3>3. turn.phase = "acking" /\ turn.inst = op.inst
      BY <1>3, <2>2 DEF AwaitedOK
    <3> QED BY <1>3, <2>1, <2>2, <3>2, <3>3, NoneApart
  <2>3. CASE op.kind = "recover"
    <3>1. turn' = [turn EXCEPT !.phase = "recovered", !.answer = "yes"]
      BY <1>3, <2>3 DEF Answered
    <3>2. turn' \in Turn /\ turn'.id = turn.id /\ turn'.inst = turn.inst /\ turn'.phase = "recovered"
      BY <2>1, <3>1 DEF Turn
    <3>3. turn.phase = "recovering"
      BY <1>3, <2>3 DEF AwaitedOK
    <3> QED BY <1>3, <2>1, <2>3, <3>2, <3>3, NoneApart
  <2> QED BY <1>3, <2>2, <2>3 DEF AwaitedOK
<1> QED BY <1>2, <1>3

\* The head leaves: the queues behind it stay in order, and the turn that
\* awaited it goes on.
LEMMA Leaves ==
  ASSUME IInv, NEW r \in RunIds, chain[r] # <<>>, chain' = [chain EXCEPT ![r] = Tail(@)],
         NEW answer \in {"yes", "no", "failed"}, Answered(chain[r][1], answer),
         UNCHANGED <<launches, active, finished, reported>>,
         failed' \subseteq failed, raced \subseteq raced', settled \subseteq settled',
         settled' = settled \/ (chain[r][1].kind = "ack" /\ settled' = settled \cup {chain[r][1].inst}),
         \A q \in RunIds : q # r => disk'[q] = disk[q]
  PROVE  ChainOK' /\ HeadsOK'
<1>1. PICK op \in Op : op = chain[r][1] /\ OpOK(r, op) /\ (op.turn => AwaitedOK(r, op))
  BY LeftQueues DEF IInv, ChainOK, OpOK
<1>2. /\ chain' \in [RunIds -> Seq(Op)] /\ (\A q \in RunIds : q # r => chain'[q] = chain[q])
      /\ \A i \in DOMAIN chain'[r] : i \in Nat /\ i + 1 \in DOMAIN chain[r] /\ chain'[r][i] = chain[r][i + 1]
      /\ chain'[r] = Tail(chain[r]) /\ (chain'[r] # <<>> => 1 \in DOMAIN chain'[r])
  BY LeftQueues DEF IInv
<1>3. Shape(chain[r]) /\ chain[r] \in Seq(Op)
  BY DEF IInv, ChainOK, Types
<1>4. /\ Shape(chain'[r]) /\ \A i \in DOMAIN chain'[r] : chain'[r][i].out = None
      /\ op.turn => \A i \in DOMAIN chain'[r] : ~chain'[r][i].turn
      /\ \A i \in DOMAIN chain'[r] : chain'[r][i].kind = "recover" => op.inst <= chain'[r][i].inst
  BY <1>1, <1>2, <1>3, ShapeShrinks
<1>5. Now' = Now /\ (\A q, x : Of(q, x)' <=> Of(q, x))
  BY DEF Now, Of
<1>6. turn' = turn \/ (op.turn /\ turn # None /\ turn.id = r)
  BY <1>1, TurnGoesOn DEF OpOK
<1>7. Of(r, op.inst) /\ \A q \in RunIds : q # r => ~Of(q, op.inst)
  BY <1>1 DEF OpOK, Of
<1>8. \A x \in settled' : x \in settled \/ (x = op.inst /\ op.kind = "ack")
  BY <1>1
<1>9. ASSUME NEW q \in RunIds, NEW o \in Op, OpOK(q, o), q = r /\ op.turn => ~o.turn,
             q = r /\ o.kind = "recover" => op.inst <= o.inst
      PROVE  OpOK(q, o)'
  <2>1. AwaitedOK(q, o)'
    BY <1>6, <1>9 DEF OpOK, AwaitedOK
  <2>2. \A x \in settled' : o.kind = "recover" /\ Of(q, x) => x <= o.inst
    BY <1>7, <1>8, <1>9 DEF OpOK, RecoverOK
  <2>3. RecoverOK(q, o)'
    BY <1>5, <1>9, <2>2 DEF OpOK, RecoverOK
  <2> QED BY <1>5, <1>9, <2>1, <2>3 DEF OpOK
<1>10. ChainOK'
  <2>1. ASSUME NEW q \in RunIds PROVE Shape(chain'[q])
    BY <1>2, <1>4 DEF IInv, ChainOK
  <2>2. ASSUME NEW q \in RunIds, NEW i \in DOMAIN chain'[q] PROVE OpOK(q, chain[q][i])'
    <3>1. PICK o \in Op : o = chain'[q][i] /\ OpOK(q, o)
      <4>1. CASE q = r
        BY <1>2, <1>3, <4>1 DEF IInv, ChainOK
      <4>2. CASE q # r
        BY <1>2, <4>2 DEF IInv, ChainOK, Types
      <4> QED BY <4>1, <4>2
    <3>2. q = r => (op.turn => ~o.turn) /\ (o.kind = "recover" => op.inst <= o.inst)
      BY <1>4, <3>1
    <3>3. OpOK(q, o)'
      BY <1>9, <3>1, <3>2
    <3> QED BY <3>1, <3>3
  <2> QED BY <2>1, <2>2 DEF ChainOK
<1>11. HeadsOK'
  <2> SUFFICES ASSUME NEW q \in RunIds, chain'[q] # <<>>, chain'[q][1].out # None
               PROVE  HeadOK(q, chain[q][1], disk[q])'
    BY DEF HeadsOK
  <2>1. q # r /\ chain'[q] = chain[q] /\ disk'[q] = disk[q]
    BY <1>2, <1>4
  <2>2. PICK o \in Op, d \in Record : o = chain[q][1] /\ d = disk[q] /\ HeadOK(q, o, d) /\ OpOK(q, o)
    <3>1. chain[q] \in Seq(Op) /\ chain[q] # <<>>
      BY <2>1 DEF IInv, Types
    <3>2. 1 \in DOMAIN chain[q] /\ chain[q][1] \in Op
      BY <3>1
    <3>3. HeadOK(q, chain[q][1], disk[q]) /\ OpOK(q, chain[q][1])
      BY <2>1, <3>2 DEF IInv, HeadsOK, ChainOK
    <3>4. disk[q] \in Record
      BY DEF IInv, Types
    <3> QED BY <3>2, <3>3, <3>4
  <2>3. \A x \in settled' : Of(q, x) => x \in settled
    BY <1>7, <1>8, <2>1
  <2>4. Of(q, o.inst) /\ (Overtook(d) => Overtook(d)')
    BY <2>2 DEF OpOK, Overtook
  <2>5. HeadOK(q, o, d)'
    BY <1>5, <2>2, <2>3, <2>4 DEF HeadOK
  <2> QED BY <2>1, <2>2, <2>5
<1> QED BY <1>10, <1>11

\* The head leaves and has written nothing.
LEMMA LeavesOnly ==
  ASSUME IInv, NEW r \in RunIds, chain[r] # <<>>, chain' = [chain EXCEPT ![r] = Tail(@)],
         NEW answer \in {"yes", "no", "failed"}, Answered(chain[r][1], answer),
         UNCHANGED <<disk, age, launches, active, failed, tails, inFlight, attempts, signal, hist>>
  PROVE  IInv'
<1>1. PICK op \in Op : op = chain[r][1] /\ OpOK(r, op)
  BY LeftQueues DEF IInv, ChainOK
<1>2. /\ chain' \in [RunIds -> Seq(Op)] /\ (\A q \in RunIds : q # r => chain'[q] = chain[q])
      /\ \A i \in DOMAIN chain'[r] : i \in Nat /\ i + 1 \in DOMAIN chain[r] /\ chain'[r][i] = chain[r][i + 1]
      /\ \A i \in DOMAIN chain[r] : i = 1 \/ (i - 1 \in DOMAIN chain'[r] /\ chain'[r][i - 1] = chain[r][i])
      /\ \A i \in DOMAIN chain[r] : i \in Nat
      /\ chain'[r] # <<>> => 1 \in DOMAIN chain'[r]
      /\ chain'[r] = Tail(chain[r])
  BY LeftQueues DEF IInv
<1>3. /\ UNCHANGED <<disk, age, launches, active, failed, tails, inFlight, attempts, signal>>
      /\ UNCHANGED <<finished, reported, settled, raced, excuse>>
  BY DEF hist
<1>4. Now' = Now /\ (\A q, x : Of(q, x)' <=> Of(q, x)) /\ (\A q, x : Latest(q, x)' <=> Latest(q, x))
  BY <1>3 DEF Now, Of, Latest
<1>5. /\ turn' \in Turn \cup {None}
      /\ (turn' = None <=> turn = None) /\ turn'.id = turn.id /\ turn'.inst = turn.inst
      /\ turn' = turn \/ (/\ op.turn /\ turn # None /\ turn.id = r
                          /\ \/ /\ op.kind = "ack" /\ turn.phase = "acking" /\ turn.inst = op.inst
                                /\ turn'.phase = "acked"
                             \/ /\ op.kind = "recover" /\ turn.phase = "recovering"
                                /\ turn'.phase = "recovered")
  BY <1>1, TurnGoesOn DEF OpOK
<1>6. ChainOK' /\ HeadsOK'
  BY <1>3, Leaves
<1>7. Types'
  BY <1>2, <1>3, <1>4, <1>5 DEF IInv, Types
<1>8. ActiveOK'
  BY <1>3, <1>4, <1>5 DEF IInv, ActiveOK
<1>9. OwnOK'
  BY <1>3, <1>4, <1>5 DEF IInv, OwnOK
<1>10. ReportedOK'
  BY <1>3, <1>5 DEF IInv, ReportedOK
<1>11. FilesOK'
  BY <1>3 DEF IInv, FilesOK, Open
<1>12. AckedOK'
  BY <1>3, <1>4, <1>5 DEF IInv, AckedOK
<1>13. KnownOK'
  <2> SUFFICES ASSUME NEW q \in RunIds, NEW i \in DOMAIN chain'[q], NEW f \in finished,
                      chain'[q][i].kind = "recover", ~chain'[q][i].delivered,
                      f.id = q, f.inst = chain'[q][i].inst
               PROVE  \/ InMemory(f) \/ Landed(q, f.inst)'
                      \/ \E j \in DOMAIN chain'[q] : j > i /\ chain'[q][j].turn
    BY <1>3 DEF KnownOK, InMemory
  <2>1. CASE q # r
    BY <1>2, <1>3, <2>1 DEF IInv, KnownOK, Landed
  <2>2. CASE q = r
    <3>1. \/ InMemory(f) \/ Landed(r, f.inst)
          \/ \E j \in DOMAIN chain[r] : j > i + 1 /\ chain[r][j].turn
      BY <1>2, <2>2 DEF IInv, KnownOK
    <3>2. CASE Landed(r, f.inst)
      <4>1. \A k \in DOMAIN chain'[r] : chain'[r][k].out = None
        <5>1. Shape(chain[r]) /\ chain[r] \in Seq(Op)
          BY DEF IInv, ChainOK, Types
        <5>2. \A k \in DOMAIN Tail(chain[r]) : Tail(chain[r])[k].out = None
          BY <5>1, ShapeShrinks
        <5> QED BY <1>2, <5>2
      <4>2. disk'[r].inst = f.inst /\ Terminal(disk'[r])
        BY <1>3, <3>2 DEF Landed
      <4>3. \A k \in DOMAIN chain'[r] : chain'[r][k].kind = "recover" => chain'[r][k].inst = f.inst
        BY <1>2, <3>2 DEF Landed
      <4> QED BY <1>2, <2>2, <4>1, <4>2, <4>3 DEF Landed, Terminal
    <3>3. CASE \E j \in DOMAIN chain[r] : j > i + 1 /\ chain[r][j].turn
      <4>1. PICK j \in DOMAIN chain[r] : j > i + 1 /\ chain[r][j].turn
        BY <3>3
      <4>2. i \in Nat /\ i \in DOMAIN chain'[r] /\ j \in Nat
        BY <1>2, <2>2
      <4>3. j # 1 /\ j - 1 > i
        BY <4>1, <4>2, <1>2
      <4>4. j - 1 \in DOMAIN chain'[r] /\ chain'[r][j - 1].turn
        BY <1>2, <4>1, <4>3
      <4> QED BY <2>2, <4>3, <4>4
    <3> QED BY <3>1, <3>2, <3>3
  <2> QED BY <2>1, <2>2
<1>14. ToldOK' /\ NothingSwallowed'
  BY <1>3, <1>5 DEF IInv, ToldOK, NothingSwallowed, Findable
<1> QED BY <1>6, <1>7, <1>8, <1>9, <1>10, <1>11, <1>12, <1>13, <1>14 DEF IInv

\* What a flag writer decides on reading d is about the instance it found, or
\* about the one of its snapshot.
LEMMA RewriteSays ==
  ASSUME NEW op \in Op, NEW d \in Record, NEW new, new = Rewrite(op, d), new # None
  PROVE  /\ new \in Record
         /\ op.kind = "interrupt" => /\ new.inst = d.inst /\ new.status = "interrupted" /\ new.delivered
                                     /\ d.status = "running"
         /\ op.kind = "recover" => /\ new.inst = op.inst /\ new.status = "terminal"
                                   /\ new.delivered <=> op.delivered \/ (d.inst = op.inst /\ d.delivered)
         /\ op.kind \in {"ack", "cancelled"} =>
              /\ new.inst = d.inst /\ new.status = d.status /\ new.delivered /\ ~d.delivered
              /\ Terminal(d) /\ (op.kind = "ack" => d.inst = op.inst)
<1>1. op.kind \in {"ack", "cancelled", "interrupt", "recover"} /\ op.inst \in Insts /\ op.delivered \in BOOLEAN
  BY OpFields
<1>2. CASE op.kind = "interrupt"
  BY <1>2 DEF Rewrite, Record
<1>3. CASE op.kind = "recover"
  <2>1. new = [inst |-> op.inst, status |-> "terminal",
               delivered |-> op.delivered \/ (d.inst = op.inst /\ d.delivered)]
    BY <1>3 DEF Rewrite
  <2> QED BY <1>1, <1>3, <2>1 DEF Record
<1>4. CASE op.kind \in {"ack", "cancelled"}
  <2>1. /\ new = [d EXCEPT !.delivered = TRUE] /\ ~d.delivered
        /\ Terminal(d) /\ (op.kind = "ack" => d.inst = op.inst)
    BY <1>4 DEF Rewrite
  <2> QED BY <1>4, <2>1 DEF Record
<1> QED BY <1>1, <1>2, <1>3, <1>4

\* The head has read its file and is about to write.
LEMMA ReadsToWrite ==
  ASSUME IInv, NEW r \in RunIds, chain[r] # <<>>, chain[r][1].out = None,
         NEW new, new = Rewrite(chain[r][1], disk[r]), new # None,
         chain' = [chain EXCEPT ![r] = <<[@[1] EXCEPT !.out = new]>> \o Tail(@)],
         raced' = IF chain[r][1].kind \in {"cancelled", "interrupt"} /\ disk[r].inst # chain[r][1].inst
                  THEN raced \cup {disk[r].inst} ELSE raced,
         UNCHANGED <<disk, age, launches, active, failed, tails, inFlight, attempts, turn, signal>>,
         UNCHANGED <<finished, reported, settled, excuse>>
  PROVE  IInv'
<1>1. chain \in [RunIds -> Seq(Op)] /\ chain[r] \in Seq(Op) /\ Shape(chain[r])
  BY DEF IInv, Types, ChainOK
<1>2. PICK op \in Op : op = chain[r][1] /\ OpOK(r, op) /\ 1 \in DOMAIN chain[r] /\ op.out = None
  BY <1>1, QueueShrinks DEF IInv, ChainOK
<1>3. PICK d \in Record : d = disk[r]
  BY DEF IInv, Types
<1>4. /\ new \in Record /\ new = Rewrite(op, d)
      /\ op.kind = "interrupt" => /\ new.inst = d.inst /\ new.status = "interrupted" /\ new.delivered
                                  /\ d.status = "running"
      /\ op.kind = "recover" => /\ new.inst = op.inst /\ new.status = "terminal"
                                /\ new.delivered <=> op.delivered \/ (d.inst = op.inst /\ d.delivered)
      /\ op.kind \in {"ack", "cancelled"} =>
           /\ new.inst = d.inst /\ new.status = d.status /\ new.delivered /\ ~d.delivered
           /\ Terminal(d) /\ (op.kind = "ack" => d.inst = op.inst)
  BY <1>2, <1>3, RewriteSays
<1>5. PICK ar \in Op, a \in Seq(Op) :
        /\ ar = [chain[r][1] EXCEPT !.out = new] /\ a = <<ar>> \o Tail(chain[r])
        /\ a # <<>> /\ DOMAIN a = DOMAIN chain[r] /\ 1 \in DOMAIN chain[r]
        /\ a[1] = ar /\ ar.out = new /\ ar.kind = chain[r][1].kind /\ ar.inst = chain[r][1].inst
        /\ ar.delivered = chain[r][1].delivered /\ ar.rev = chain[r][1].rev /\ ar.turn = chain[r][1].turn
        /\ \A i \in DOMAIN chain[r] : i # 1 => a[i] = chain[r][i]
  BY <1>1, <1>4, QueueReads, Zenon
<1>6. /\ chain' \in [RunIds -> Seq(Op)] /\ chain'[r] = a /\ \A q \in RunIds : q # r => chain'[q] = chain[q]
  BY <1>1, <1>5
<1>7. /\ ar.out = new /\ ar.kind = op.kind /\ ar.inst = op.inst
      /\ ar.delivered = op.delivered /\ ar.rev = op.rev /\ ar.turn = op.turn
  BY <1>2, <1>5
<1>8. /\ raced \subseteq raced' /\ raced' \subseteq Insts
      /\ op.kind \in {"cancelled", "interrupt"} /\ d.inst # op.inst => d.inst \in raced'
      /\ op.kind = "recover" => raced' = raced
  BY <1>2, <1>3, RecordFields DEF IInv, Types
<1>9. Now' = Now /\ (\A q, x : Of(q, x)' <=> Of(q, x)) /\ (\A q, x : Latest(q, x)' <=> Latest(q, x))
  BY DEF Now, Of, Latest
<1>10. ASSUME NEW q, NEW o, OpOK(q, o) PROVE OpOK(q, o)'
  <2>1. RecoverOK(q, o)'
    BY <1>9, <1>10 DEF OpOK, RecoverOK
  <2>2. AwaitedOK(q, o)'
    BY <1>10 DEF OpOK, AwaitedOK
  <2> QED BY <1>8, <1>9, <1>10, <2>1, <2>2 DEF OpOK
<1>11. OpOK(r, ar)
  <2>1. RecoverOK(r, ar)
    BY <1>2, <1>7 DEF OpOK, RecoverOK
  <2>2. AwaitedOK(r, ar)
    BY <1>2, <1>7 DEF OpOK, AwaitedOK
  <2> QED BY <1>2, <1>7, <2>1, <2>2 DEF OpOK
<1>12. ChainOK'
  <2>1. Shape(a)
    BY <1>1, <1>4, <1>5, ShapeReads
  <2>2. \A i \in DOMAIN a : OpOK(r, a[i])
    <3> SUFFICES ASSUME NEW i \in DOMAIN a PROVE OpOK(r, a[i])
      OBVIOUS
    <3>1. CASE i = 1
      BY <1>5, <1>11, <3>1
    <3>2. CASE i # 1
      <4>1. i \in DOMAIN chain[r] /\ a[i] = chain[r][i]
        BY <1>5, <3>2
      <4> QED BY <4>1 DEF IInv, ChainOK
    <3> QED BY <3>1, <3>2
  <2>3. ASSUME NEW q \in RunIds PROVE Shape(chain'[q])
    BY <1>6, <2>1 DEF IInv, ChainOK
  <2>4. ASSUME NEW q \in RunIds, NEW i \in DOMAIN chain'[q] PROVE OpOK(q, chain[q][i])'
    <3>1. OpOK(q, chain'[q][i])
      BY <1>6, <2>2 DEF IInv, ChainOK
    <3>2. PICK o : o = chain'[q][i]
      OBVIOUS
    <3>3. OpOK(q, o)'
      BY <1>10, <3>1, <3>2
    <3> QED BY <3>2, <3>3
  <2> QED BY <2>3, <2>4 DEF ChainOK
<1>13. Of(r, op.inst) /\ op.inst \in Nat /\ d.inst \in Nat /\ (d.inst # 0 => d.status # "none" /\ Of(r, d.inst))
       /\ (d.inst = 0 => d.status = "none")
  BY <1>2, <1>3, OpFields, RecordFields DEF IInv, OwnOK, OpOK
<1>14. HeadOK(r, ar, d)'
  <2>1. op.kind \in {"ack", "cancelled", "interrupt", "recover"}
    BY OpFields
  <2>2. Of(r, new.inst)
    BY <1>4, <1>13, <2>1 DEF Terminal
  <2>3. active # None /\ new.inst = Now /\ new.status = "terminal" => active.saved
    <3> SUFFICES ASSUME active # None, new.inst = Now, new.status = "terminal" PROVE active.saved
      OBVIOUS
    <3>1. op.kind # "recover"
      BY <1>2, <1>4 DEF OpOK
    <3>2. d.inst = Now /\ d.status = "terminal" /\ Of(r, Now)
      BY <1>4, <2>1, <2>2, <3>1
    <3>3. active.id = r
      BY <3>2 DEF IInv, ActiveOK, Of
    <3> QED BY <1>3, <3>2, <3>3 DEF IInv, ActiveOK
  <2>4. ar.out = Rewrite(ar, d)
    BY <1>4, <1>7 DEF Rewrite
  <2>5. \A x \in settled : Of(r, x) => x <= new.inst
    BY <1>2, <1>3, <1>4, <2>1 DEF IInv, AckedOK, OpOK, RecoverOK
  <2>6. op.kind = "interrupt" <=> new.status = "interrupted"
    <3>1. d.status = "interrupted" => d.delivered
      BY <1>3 DEF IInv, FilesOK
    <3> QED BY <1>4, <2>1, <3>1
  <2>7. ASSUME op.kind = "recover"
        PROVE  /\ new.inst = op.inst /\ new.status = "terminal"
               /\ op.delivered => new.delivered
               /\ new.delivered => \/ op.delivered
                                   \/ \A f \in finished : f.id = r /\ f.inst = op.inst =>
                                                            f.inst \in raced \cup reported
               /\ op.inst \in settled \ raced => new.delivered \/ d.inst > op.inst
    <3>1. \A f \in finished : f.id = r /\ f.inst = d.inst /\ d.delivered => f.inst \in raced \cup reported
      BY <1>3 DEF IInv, FilesOK, Open, Unmarked
    <3>2. ASSUME op.inst \in settled \ raced, ~(d.inst > op.inst) PROVE new.delivered
      <4>1. op.inst <= d.inst
        BY <1>3, <1>13, <3>2 DEF IInv, AckedOK
      <4>2. op.inst = d.inst
        BY <1>13, <3>2, <4>1
      <4>3. d.delivered
        BY <1>3, <3>2, <4>2 DEF IInv, AckedOK
      <4> QED BY <1>4, <2>7, <4>2, <4>3
    <3> QED BY <1>4, <2>7, <3>1, <3>2
  <2>8. ASSUME op.kind # "recover"
        PROVE  /\ new.delivered /\ Terminal(new)
               /\ new.inst = op.inst \/ (op.kind # "ack" /\ new.inst \in raced')
    BY <1>4, <1>8, <2>1, <2>8 DEF Terminal
  <2> QED BY <1>4, <1>7, <1>8, <1>9, <2>2, <2>3, <2>4, <2>5, <2>6, <2>7, <2>8 DEF HeadOK
<1>15. HeadsOK'
  <2> SUFFICES ASSUME NEW q \in RunIds, chain'[q] # <<>>, chain'[q][1].out # None
               PROVE  HeadOK(q, chain[q][1], disk[q])'
    BY DEF HeadsOK
  <2>1. CASE q = r
    BY <1>3, <1>5, <1>6, <1>14, <2>1
  <2>2. CASE q # r
    <3>1. chain'[q] = chain[q] /\ HeadOK(q, chain[q][1], disk[q])
      BY <1>6, <2>2 DEF IInv, HeadsOK
    <3>2. PICK o, e : o = chain[q][1] /\ e = disk[q]
      OBVIOUS
    <3>3. HeadOK(q, o, e)'
      BY <1>8, <1>9, <3>1, <3>2 DEF HeadOK, Overtook
    <3> QED BY <3>1, <3>2, <3>3
  <2> QED BY <2>1, <2>2
<1>16. Types'
  BY <1>6, <1>8, <1>9 DEF IInv, Types
<1>17. ActiveOK'
  BY <1>9 DEF IInv, ActiveOK
<1>18. OwnOK'
  BY <1>9 DEF IInv, OwnOK
<1>19. ReportedOK'
  BY DEF IInv, ReportedOK
<1>20. FilesOK'
  BY <1>8 DEF IInv, FilesOK, Open
<1>21. AckedOK'
  BY <1>8, <1>9 DEF IInv, AckedOK
<1>22. ToldOK' /\ NothingSwallowed'
  BY <1>8 DEF IInv, ToldOK, NothingSwallowed, Findable
<1>23. KnownOK'
  <2>3. \A f : InMemory(f)' <=> InMemory(f)
    BY DEF InMemory
  <2> SUFFICES ASSUME NEW q \in RunIds, NEW i \in DOMAIN chain'[q], NEW f \in finished,
                      chain'[q][i].kind = "recover", ~chain'[q][i].delivered,
                      f.id = q, f.inst = chain'[q][i].inst
               PROVE  \/ InMemory(f) \/ Landed(q, f.inst)'
                      \/ \E j \in DOMAIN chain'[q] : j > i /\ chain'[q][j].turn
    BY <2>3 DEF KnownOK
  <2>1. CASE q # r
    BY <1>6, <2>1 DEF IInv, KnownOK, Landed
  <2>2. CASE q = r
    <3>1. /\ DOMAIN a = DOMAIN chain[r]
          /\ \A k \in DOMAIN a : /\ a[k].kind = chain[r][k].kind /\ a[k].inst = chain[r][k].inst
                                 /\ a[k].delivered = chain[r][k].delivered
                                 /\ a[k].turn = chain[r][k].turn
      <4> SUFFICES ASSUME NEW k \in DOMAIN a
                   PROVE  /\ a[k].kind = chain[r][k].kind /\ a[k].inst = chain[r][k].inst
                          /\ a[k].delivered = chain[r][k].delivered
                          /\ a[k].turn = chain[r][k].turn
        BY <1>5
      <4>1. CASE k = 1
        BY <1>5, <4>1
      <4>2. CASE k # 1
        BY <1>5, <4>2
      <4> QED BY <4>1, <4>2
    <3>2. \/ InMemory(f) \/ Landed(r, f.inst)
          \/ \E j \in DOMAIN chain[r] : j > i /\ chain[r][j].turn
      <4>1. i \in DOMAIN chain[r] /\ chain'[r][i] = a[i]
        BY <1>6, <2>2, <3>1
      <4>2. chain[r][i].kind = "recover" /\ ~chain[r][i].delivered /\ f.inst = chain[r][i].inst /\ f.id = r
        BY <2>2, <3>1, <4>1
      <4> QED BY <4>1, <4>2 DEF IInv, KnownOK
    <3>3. CASE Landed(r, f.inst)
      <4>1. d.inst = f.inst /\ Terminal(d)
        BY <1>3, <3>3 DEF Landed
      <4>2. \A k \in DOMAIN a : a[k].kind = "recover" => a[k].inst = f.inst
        BY <3>1, <3>3 DEF Landed
      <4>3. new.inst = f.inst /\ Terminal(new) /\ (d.delivered => new.delivered)
        <5>1. op.kind \in {"ack", "cancelled", "interrupt", "recover"}
          BY OpFields
        <5>2. op.kind = "recover" => op.inst = f.inst
          BY <1>2, <3>3 DEF Landed
        <5>3. op.kind # "interrupt"
          BY <1>4, <4>1 DEF Terminal
        <5>4. CASE op.kind = "recover"
          BY <1>4, <4>1, <5>2, <5>4 DEF Terminal
        <5>5. CASE op.kind \in {"ack", "cancelled"}
          BY <1>4, <4>1, <5>5 DEF Terminal
        <5> QED BY <5>1, <5>3, <5>4, <5>5
      <4>4. /\ disk'[r] = d /\ chain'[r] = a /\ a[1].out = new
        BY <1>3, <1>5, <1>6
      <4>5. Landed(r, f.inst)'
        BY <4>1, <4>2, <4>3, <4>4 DEF Landed, Terminal
      <4> QED BY <2>2, <4>5
    <3> QED BY <1>6, <2>2, <3>1, <3>2, <3>3
  <2> QED BY <2>1, <2>2
<1> QED BY <1>12, <1>15, <1>16, <1>17, <1>18, <1>19, <1>20, <1>21, <1>22, <1>23 DEF IInv

LEMMA ReadKeeps == ASSUME IInv, NEW r \in RunIds, Read(r) PROVE IInv'
<1>1. PICK op \in Op : op = chain[r][1] /\ op = Head(chain[r]) /\ OpOK(r, op) /\ op.out = None
  BY QueueShrinks DEF Read, IInv, Types, ChainOK
<1>2. PICK new : new = Rewrite(op, disk[r])
  OBVIOUS
<1>3. /\ chain[r] # <<>>
      /\ UNCHANGED <<disk, age, launches, active, tails, inFlight, attempts, signal>>
      /\ UNCHANGED <<finished, reported, settled, excuse>>
  BY DEF Read
<1>4. CASE new = None
  <2>1. op.kind # "recover"
    <3>1. disk[r] \in Record
      BY DEF IInv, Types
    <3>2. ASSUME op.kind = "recover" PROVE new \in Record
      <4>1. new = [inst |-> op.inst, status |-> "terminal",
                   delivered |-> op.delivered \/ (disk[r].inst = op.inst /\ disk[r].delivered)]
        BY <1>2, <3>2 DEF Rewrite
      <4> QED BY <4>1, OpFields DEF Record
    <3> QED BY <1>4, <3>2, NoneApart
  <2>2. PICK answer \in {"yes", "no", "failed"} : Complete(r, answer)
    BY <1>1, <1>2, <1>4 DEF Read
  <2>3. chain' = [chain EXCEPT ![r] = Tail(@)] /\ failed' = failed /\ Answered(op, answer)
    BY <1>1, <2>1, <2>2 DEF Complete, Answered
  <2>4. raced' = raced
    BY <1>1, <1>2, <1>4 DEF Read
  <2>5. UNCHANGED <<disk, age, launches, active, failed, tails, inFlight, attempts, signal, hist>>
    BY <1>3, <2>3, <2>4 DEF hist
  <2> QED BY <1>1, <1>3, <2>3, <2>5, LeavesOnly
<1>5. CASE new # None
  <2>1. chain' = [chain EXCEPT ![r] = <<[op EXCEPT !.out = new]>> \o Tail(@)] /\ failed' = failed /\ turn' = turn
    BY <1>1, <1>2, <1>5 DEF Read
  <2>2. raced' = IF op.kind \in {"cancelled", "interrupt"} /\ disk[r].inst # op.inst
                 THEN raced \cup {disk[r].inst} ELSE raced
    BY <1>1, <1>2, <1>5 DEF Read
  <2>3. chain' = [chain EXCEPT ![r] = <<[@[1] EXCEPT !.out = new]>> \o Tail(@)]
    BY <1>1, <2>1
  <2> QED BY <1>1, <1>2, <1>3, <1>5, <2>1, <2>2, <2>3, ReadsToWrite
<1> QED BY <1>4, <1>5

\* The write of the head lands.
LEMMA WriteLands ==
  ASSUME IInv, NEW r \in RunIds, chain[r] # <<>>, chain[r][1].out # None, NEW ok \in BOOLEAN,
         Complete(r, IF ok THEN "yes" ELSE "failed"), WriteDisk(r, chain[r][1].out),
         settled' = IF ok /\ chain[r][1].kind = "ack" THEN settled \cup {chain[r][1].inst} ELSE settled,
         raced' = IF chain[r][1].kind = "recover" /\ disk[r].inst > chain[r][1].inst
                  THEN raced \cup {disk[r].inst, chain[r][1].inst} ELSE raced,
         UNCHANGED <<launches, active, tails, inFlight, attempts, signal, finished, reported, excuse>>
  PROVE  IInv'
<1>1. PICK op \in Op : op = chain[r][1] /\ op = Head(chain[r]) /\ OpOK(r, op) /\ op.out # None
                       /\ 1 \in DOMAIN chain[r]
  <2>1. chain[r] \in Seq(Op)
    BY DEF IInv, Types
  <2> QED BY <2>1, QueueShrinks DEF IInv, ChainOK
<1>2. PICK d \in Record : d = disk[r] /\ HeadOK(r, op, d)
  BY <1>1 DEF IInv, Types, HeadsOK
<1>3. PICK o \in Record : o = op.out
  BY <1>2 DEF HeadOK
<1>4. /\ disk' = [disk EXCEPT ![r] = o] /\ disk' \in [RunIds -> Record] /\ disk'[r] = o
      /\ \A q \in RunIds : q # r => disk'[q] = disk[q]
  BY <1>1, <1>3 DEF WriteDisk, IInv, Types
<1>5. age' \in [RunIds -> Nat]
  BY DEF WriteDisk, IInv, Types
<1>6. chain' = [chain EXCEPT ![r] = Tail(@)]
  BY DEF Complete
<1>7. /\ chain' \in [RunIds -> Seq(Op)] /\ (\A q \in RunIds : q # r => chain'[q] = chain[q])
      /\ \A i \in DOMAIN chain'[r] : i \in Nat /\ i + 1 \in DOMAIN chain[r] /\ chain'[r][i] = chain[r][i + 1]
      /\ \A i \in DOMAIN chain[r] : i = 1 \/ (i - 1 \in DOMAIN chain'[r] /\ chain'[r][i - 1] = chain[r][i])
      /\ \A i \in DOMAIN chain[r] : i \in Nat
      /\ chain'[r] # <<>> => 1 \in DOMAIN chain'[r]
      /\ chain'[r] = Tail(chain[r])
  BY <1>6, LeftQueues DEF IInv
<1>8. PICK answer \in {"yes", "no", "failed"} : Answered(op, answer)
  BY <1>1 DEF Complete, Answered
<1>9. /\ turn' \in Turn \cup {None}
      /\ (turn' = None <=> turn = None) /\ turn'.id = turn.id /\ turn'.inst = turn.inst
      /\ turn' = turn \/ (/\ op.turn /\ turn # None /\ turn.id = r
                          /\ \/ /\ op.kind = "ack" /\ turn.phase = "acking" /\ turn.inst = op.inst
                                /\ turn'.phase = "acked"
                             \/ /\ op.kind = "recover" /\ turn.phase = "recovering"
                                /\ turn'.phase = "recovered")
  BY <1>1, <1>8, TurnGoesOn DEF OpOK
<1>10. Now' = Now /\ (\A q, x : Of(q, x)' <=> Of(q, x)) /\ (\A q, x : Latest(q, x)' <=> Latest(q, x))
  BY DEF Now, Of, Latest
<1>11. /\ failed' \subseteq failed
       /\ \A s \in failed : s \in failed' \/ (op.kind = "recover" /\ s.id = r /\ s.inst = op.inst /\ s.rev = op.rev)
  BY <1>1 DEF Complete
<1>12. /\ settled \subseteq settled'
       /\ settled' = settled \/ (op.kind = "ack" /\ settled' = settled \cup {op.inst})
       /\ \A x \in settled' : x \in settled \/ (x = op.inst /\ op.kind = "ack")
  BY <1>1
<1>13. /\ op.inst \in Nat /\ op.inst \in Insts /\ d.inst \in Nat /\ d.inst \in Insts /\ o.inst \in Nat
       /\ op.kind \in {"ack", "cancelled", "interrupt", "recover"}
  BY OpFields, RecordFields
<1>14. /\ raced \subseteq raced' /\ raced' \subseteq Insts
       /\ op.kind = "recover" /\ d.inst > op.inst => d.inst \in raced' /\ op.inst \in raced'
  BY <1>1, <1>2, <1>13 DEF IInv, Types
<1>15. /\ Of(r, op.inst) /\ (\A q \in RunIds : q # r => ~Of(q, op.inst)) /\ op.inst # 0
       /\ active # None /\ op.inst = Now => op.kind = "ack"
       /\ op.kind = "ack" => op.inst \in reported /\ op.turn
  BY <1>1 DEF OpOK, Of
<1>16. /\ Of(r, o.inst) /\ o.inst # 0
       /\ active # None /\ o.inst = Now /\ o.status = "terminal" => active.saved
       /\ o = Rewrite(op, d) \/ Overtook(d)
       /\ \A x \in settled : Of(r, x) => x <= o.inst
       /\ op.kind = "interrupt" <=> o.status = "interrupted"
  BY <1>2, <1>3 DEF HeadOK, Of
<1>17. op.kind = "recover" =>
         /\ o.inst = op.inst /\ o.status = "terminal"
         /\ o.delivered => \/ op.delivered
                           \/ \A f \in finished : f.id = r /\ f.inst = op.inst =>
                                                    f.inst \in raced \cup reported
         /\ op.inst \in settled \ raced => o.delivered \/ d.inst > op.inst
  BY <1>2, <1>3 DEF HeadOK
<1>18. op.kind # "recover" => /\ o.delivered /\ Terminal(o)
                              /\ o.inst = op.inst \/ (op.kind # "ack" /\ o.inst \in raced)
  BY <1>2, <1>3 DEF HeadOK
<1>19. ChainOK' /\ HeadsOK'
  <2>1. settled' = settled \/ (chain[r][1].kind = "ack" /\ settled' = settled \cup {chain[r][1].inst})
    BY <1>1
  <2>2. Answered(chain[r][1], answer)
    BY <1>1, <1>8
  <2> QED BY <1>4, <1>6, <1>11, <1>12, <1>14, <2>1, <2>2, Leaves
<1>20. Types'
  <2>1. settled' \subseteq Insts
    BY <1>12, <1>13 DEF IInv, Types
  <2> QED BY <1>4, <1>5, <1>7, <1>9, <1>10, <1>11, <1>14, <2>1 DEF IInv, Types
<1>21. ActiveOK'
  <2>1. active # None /\ disk'[active.id].inst = Now /\ disk'[active.id].status = "terminal" => active.saved
    <3>1. active # None => active.id \in RunIds
      BY NoneApart DEF IInv, Types, InCharge
    <3> QED BY <1>4, <1>16, <3>1 DEF IInv, ActiveOK
  <2> QED BY <1>9, <1>10, <1>11, <2>1 DEF IInv, ActiveOK
<1>22. OwnOK'
  <2>1. o.status # "none"
    BY <1>13, <1>17, <1>18 DEF Terminal
  <2>2. \A q \in RunIds : IF disk'[q].inst = 0 THEN disk'[q].status = "none"
                          ELSE disk'[q].status # "none" /\ Of(q, disk'[q].inst)
    BY <1>4, <1>16, <2>1 DEF IInv, OwnOK
  <2>3. settled' \subseteq reported
    BY <1>12, <1>15 DEF IInv, OwnOK
  <2> QED BY <1>9, <1>10, <1>11, <2>2, <2>3 DEF IInv, OwnOK
<1>23. ReportedOK'
  BY <1>9, <1>11 DEF IInv, ReportedOK
\* An open run that the write is about is not marked by it.
<1>24. ASSUME NEW f \in finished, f.id = r, f.inst = o.inst, f.inst \notin raced \cup reported
       PROVE  op.kind = "recover" /\ o.status = "terminal" /\ ~o.delivered /\ f.inst = op.inst
  <2>1. CASE op.kind = "recover"
    <3>1. ~op.delivered
      BY <1>1, <1>17, <1>24, <2>1 DEF OpOK, RecoverOK
    <3> QED BY <1>17, <1>24, <2>1, <3>1
  <2>2. CASE op.kind # "recover"
    <3>1. o.inst = op.inst
      BY <1>18, <1>24, <2>2
    <3>2. op.kind # "ack"
      BY <1>15, <1>24, <3>1
    <3> QED BY <1>1, <1>13, <1>24, <2>2, <3>1, <3>2 DEF OpOK
  <2> QED BY <2>1, <2>2
<1>25. FilesOK'
  <2>1. \A q \in RunIds : disk'[q].status = "interrupted" => disk'[q].delivered
    BY <1>4, <1>16, <1>18 DEF IInv, FilesOK
  <2>2. ASSUME NEW f \in finished, disk'[f.id].inst = f.inst, f.inst \notin raced' \cup reported PROVE Unmarked(disk'[f.id])
    <3>1. f.id \in RunIds
      BY DEF IInv, Types, Result
    <3>2. CASE f.id = r
      BY <1>4, <1>14, <1>24, <2>2, <3>2 DEF Unmarked
    <3>3. CASE f.id # r
      BY <1>4, <1>14, <2>2, <3>1, <3>3 DEF IInv, FilesOK, Open
    <3> QED BY <3>2, <3>3
  <2>3. ASSUME active # None, active.inst \notin raced' \cup reported
        PROVE  /\ disk'[active.id].inst = active.inst => Unmarked(disk'[active.id])
               /\ active.saved =>
                    disk'[active.id].inst = active.inst /\ disk'[active.id].status = "terminal"
    <3>1. active.id \in RunIds /\ active.inst = Now
      BY <2>3, NoneApart DEF IInv, Types, InCharge, ActiveOK
    <3>2. active.inst \notin raced \cup reported
      BY <1>14, <2>3
    <3>3. /\ disk[active.id].inst = active.inst => Unmarked(disk[active.id])
          /\ active.saved =>
               disk[active.id].inst = active.inst /\ disk[active.id].status = "terminal"
      BY <2>3, <3>2 DEF IInv, FilesOK, Open
    <3>4. CASE active.id = r
      <4>1. o.inst # active.inst
        <5> SUFFICES ASSUME o.inst = active.inst PROVE FALSE
          OBVIOUS
        <5>1. op.inst = Now
          BY <1>17, <1>18, <3>1, <3>2
        <5>2. op.kind = "ack"
          BY <1>15, <2>3, <5>1
        <5> QED BY <1>15, <3>1, <3>2, <5>1, <5>2
      <4>2. ~active.saved
        <5> SUFFICES ASSUME active.saved PROVE FALSE
          OBVIOUS
        <5>1. d.inst = active.inst /\ d.status = "terminal" /\ ~d.delivered
          BY <1>2, <3>3, <3>4 DEF Unmarked
        <5>2. o = Rewrite(op, d)
          BY <1>16, <3>2, <5>1 DEF Overtook
        <5>3. o # None
          BY NoneApart
        <5>4. op.kind = "recover"
          BY <1>13, <4>1, <5>1, <5>2, <5>3, RewriteSays
        <5>5. op.inst < d.inst
          <6>1. op.inst # Now /\ op.inst <= Now
            BY <1>15, <2>3, <5>4 DEF Of
          <6>2. Now \in Nat
            BY DEF IInv, Types, Insts
          <6> QED BY <1>13, <3>1, <5>1, <6>1, <6>2
        <5> QED BY <1>13, <1>14, <2>3, <5>1, <5>4, <5>5
      <4> QED BY <1>4, <3>4, <4>1, <4>2
    <3>5. CASE active.id # r
      BY <1>4, <3>1, <3>3, <3>5
    <3> QED BY <3>4, <3>5
  <2> QED BY <2>1, <2>2, <2>3 DEF FilesOK, Open
<1>26. AckedOK'
  <2>1. \A q \in RunIds : \A x \in settled' : Of(q, x) => x <= disk'[q].inst
    <3> SUFFICES ASSUME NEW q \in RunIds, NEW x \in settled', Of(q, x) PROVE x <= disk'[q].inst
      OBVIOUS
    <3>1. CASE x \in settled
      BY <1>4, <1>16, <3>1 DEF IInv, AckedOK
    <3>2. CASE x = op.inst /\ op.kind = "ack"
      <4>1. q = r /\ o.inst = op.inst
        BY <1>15, <1>18, <3>2
      <4> QED BY <1>4, <1>13, <3>2, <4>1
    <3> QED BY <1>12, <3>1, <3>2
  <2>2. ASSUME NEW q \in RunIds, disk'[q].inst \in settled' \ raced' PROVE disk'[q].delivered
    <3>1. CASE q = r
      <4>1. CASE op.kind = "recover"
        <5>1. op.inst \in settled \ raced /\ ~(d.inst > op.inst)
          BY <1>4, <1>12, <1>14, <1>17, <2>2, <3>1, <4>1
        <5> QED BY <1>4, <1>17, <3>1, <4>1, <5>1
      <4>2. CASE op.kind # "recover"
        BY <1>4, <1>18, <3>1, <4>2
      <4> QED BY <4>1, <4>2
    <3>2. CASE q # r
      <4>1. disk'[q] = disk[q] /\ disk[q].inst # op.inst
        <5>1. disk[q].inst = 0 \/ Of(q, disk[q].inst)
          BY DEF IInv, OwnOK
        <5> QED BY <1>4, <1>15, <3>2, <5>1
      <4> QED BY <1>12, <1>14, <2>2, <4>1 DEF IInv, AckedOK
    <3> QED BY <3>1, <3>2
  <2>3. ASSUME NEW s \in failed', s.inst \in settled' \ raced', ~s.delivered
        PROVE  /\ s.id \in inFlight
               /\ turn' # None /\ turn'.id = s.id => turn'.inst = s.inst /\ turn'.phase = "acked"
    <3>1. s \in failed /\ s.id \in RunIds /\ Of(s.id, s.inst)
      BY <1>11, SnapshotFields DEF IInv, Types, OwnOK, Latest
    <3>2. CASE s.inst \in settled
      <4>1. /\ s.id \in inFlight
            /\ turn # None /\ turn.id = s.id => turn.inst = s.inst /\ turn.phase = "acked"
        BY <1>14, <2>3, <3>1, <3>2 DEF IInv, AckedOK
      <4> QED BY <1>9, <4>1
    <3>3. CASE s.inst = op.inst /\ op.kind = "ack"
      <4>1. s.id = r /\ op.turn /\ turn # None /\ turn.id = r /\ turn.inst = op.inst /\ turn.phase = "acking"
        BY <1>1, <1>15, <3>1, <3>3 DEF OpOK, AwaitedOK
      <4>2. r \in inFlight
        BY <4>1 DEF IInv, ReportedOK
      <4>3. turn'.phase = "acked"
        <5>1. turn' = [turn EXCEPT !.phase = "acked", !.answer = answer]
          BY <1>8, <3>3, <4>1 DEF Answered
        <5>2. turn \in Turn
          BY <4>1 DEF IInv, Types
        <5> QED BY <5>1, <5>2 DEF Turn
      <4> QED BY <1>9, <3>3, <4>1, <4>2, <4>3
    <3> QED BY <1>12, <2>3, <3>2, <3>3
  <2> QED BY <1>10, <2>1, <2>2, <2>3 DEF AckedOK
<1>27. KnownOK'
  <2> SUFFICES ASSUME NEW q \in RunIds, NEW i \in DOMAIN chain'[q], NEW f \in finished,
                      chain'[q][i].kind = "recover", ~chain'[q][i].delivered,
                      f.id = q, f.inst = chain'[q][i].inst
               PROVE  \/ InMemory(f)' \/ Landed(q, f.inst)'
                      \/ \E j \in DOMAIN chain'[q] : j > i /\ chain'[q][j].turn
    BY DEF KnownOK
  <2>1. CASE q # r
    <3>1. \/ InMemory(f) \/ Landed(q, f.inst) \/ \E j \in DOMAIN chain'[q] : j > i /\ chain'[q][j].turn
      BY <1>7, <2>1 DEF IInv, KnownOK
    <3>2. InMemory(f) => InMemory(f)'
      BY <1>11, <2>1 DEF InMemory
    <3>3. Landed(q, f.inst) => Landed(q, f.inst)'
      BY <1>4, <1>7, <2>1 DEF Landed
    <3> QED BY <3>1, <3>2, <3>3
  <2>2. CASE q = r
    <3>1. Shape(chain[r]) /\ chain[r] \in Seq(Op)
      BY DEF IInv, ChainOK, Types
    <3>2. /\ \A k \in DOMAIN chain'[r] : chain'[r][k].out = None
          /\ \A k \in DOMAIN chain'[r] : chain'[r][k].kind = "recover" => op.inst <= chain'[r][k].inst
      BY <1>1, <1>7, <3>1, ShapeShrinks
    <3>3. \/ InMemory(f) \/ Landed(r, f.inst)
          \/ \E j \in DOMAIN chain[r] : j > i + 1 /\ chain[r][j].turn
      BY <1>7, <2>2 DEF IInv, KnownOK
    <3>4. CASE \E j \in DOMAIN chain[r] : j > i + 1 /\ chain[r][j].turn
      <4>1. PICK j \in DOMAIN chain[r] : j > i + 1 /\ chain[r][j].turn
        BY <3>4
      <4>2. i \in Nat /\ i \in DOMAIN chain'[r] /\ j \in Nat
        BY <1>7, <2>2
      <4>3. j # 1 /\ j - 1 > i
        BY <4>1, <4>2, <1>7
      <4>4. j - 1 \in DOMAIN chain'[r] /\ chain'[r][j - 1].turn
        BY <1>7, <4>1, <4>3
      <4> QED BY <2>2, <4>3, <4>4
    <3>5. CASE Landed(r, f.inst)
      <4>1. o.inst = f.inst /\ Terminal(o)
        BY <1>1, <1>3, <3>5 DEF Landed
      <4>2. \A k \in DOMAIN chain'[r] : chain'[r][k].kind = "recover" => chain'[r][k].inst = f.inst
        BY <1>7, <3>5 DEF Landed
      <4>3. Landed(r, f.inst)'
        BY <1>4, <1>7, <3>2, <4>1, <4>2 DEF Landed, Terminal
      <4> QED BY <2>2, <4>3
    <3>6. CASE InMemory(f)
      <4>1. PICK s \in failed : s.id = r /\ s.inst = f.inst /\ ~s.delivered
        BY <2>2, <3>6 DEF InMemory
      <4>2. CASE s \in failed'
        BY <2>2, <4>1, <4>2 DEF InMemory
      <4>3. CASE s \notin failed'
        <5>1. op.kind = "recover" /\ s.inst = op.inst
          BY <1>11, <4>3
        <5>2. o.inst = f.inst /\ Terminal(o)
          BY <1>17, <4>1, <5>1 DEF Terminal
        <5>3. ASSUME NEW k \in DOMAIN chain'[r], chain'[r][k].kind = "recover" PROVE chain'[r][k].inst = f.inst
          <6>1. Of(r, chain'[r][k].inst)
            BY <1>7 DEF IInv, ChainOK, OpOK
          <6>2. chain'[r][k].inst <= f.inst
            BY <2>2, <6>1, LatestIsLast DEF IInv, OwnOK
          <6>3. f.inst <= chain'[r][k].inst
            BY <3>2, <4>1, <5>1, <5>3
          <6>4. chain'[r][k].inst \in Nat /\ f.inst \in Nat
            BY <6>1, <1>13, <4>1, <5>1 DEF Of
          <6> QED BY <6>2, <6>3, <6>4
        <5>4. Landed(r, f.inst)'
          BY <1>4, <1>7, <3>2, <5>2, <5>3 DEF Landed, Terminal
        <5> QED BY <2>2, <5>4
      <4> QED BY <4>2, <4>3
    <3> QED BY <3>3, <3>4, <3>5, <3>6
  <2> QED BY <2>1, <2>2
<1>28. ToldOK'
  <2> SUFFICES ASSUME NEW f \in finished, Findable(f)', ~signal, excuse = "none"
               PROVE  turn # None \/ \E t \in tails : ~t.cancelled
    BY <1>9 DEF ToldOK
  <2>1. Findable(f) \/ turn # None
    <3>1. f.id \in RunIds
      BY DEF IInv, Types, Result
    <3>2. CASE \E s \in failed' : s.id = f.id /\ s.inst = f.inst /\ ~s.delivered
      BY <1>11, <3>2 DEF Findable
    <3>3. CASE disk'[f.id].inst = f.inst /\ disk'[f.id].status = "terminal" /\ ~disk'[f.id].delivered
      <4>1. CASE f.id # r
        BY <1>4, <3>1, <3>3, <4>1 DEF Findable
      <4>2. CASE f.id = r
        <5>1. op.kind = "recover" /\ op.inst = f.inst /\ ~o.delivered
          BY <1>4, <1>17, <1>18, <3>3, <4>2
        <5>2. ~op.delivered
          BY <1>2, <1>3, <5>1 DEF HeadOK
        <5>3. \/ InMemory(f) \/ Landed(r, f.inst)
              \/ \E j \in DOMAIN chain[r] : j > 1 /\ chain[r][j].turn
          BY <1>1, <4>2, <5>1, <5>2 DEF IInv, KnownOK
        <5>4. CASE InMemory(f)
          BY <5>4 DEF InMemory, Findable
        <5>5. CASE Landed(r, f.inst)
          <6>1. d.inst = f.inst /\ Terminal(d) /\ ~d.delivered
            BY <1>1, <1>2, <1>3, <5>1, <5>5 DEF Landed
          <6>2. d.status = "terminal"
            BY <1>2, <6>1 DEF IInv, FilesOK, Terminal
          <6> QED BY <1>2, <4>2, <6>1, <6>2 DEF Findable
        <5>6. CASE \E j \in DOMAIN chain[r] : j > 1 /\ chain[r][j].turn
          BY <5>6 DEF IInv, ChainOK, OpOK, AwaitedOK
        <5> QED BY <5>3, <5>4, <5>5, <5>6
      <4> QED BY <4>1, <4>2
    <3> QED BY <3>2, <3>3 DEF Findable
  <2> QED BY <2>1 DEF IInv, ToldOK
<1>29. NothingSwallowed'
  <2> SUFFICES ASSUME NEW f \in finished, f.inst \notin raced' \cup reported PROVE Findable(f)'
    BY DEF NothingSwallowed
  <2>1. f.id \in RunIds /\ Findable(f) /\ Latest(f.id, f.inst)
    BY <1>14 DEF IInv, Types, Result, NothingSwallowed, OwnOK
  <2>2. CASE f.id # r
    BY <1>4, <1>11, <2>1, <2>2 DEF Findable
  <2>3. CASE f.id = r
    <3>1. o.inst = f.inst => Findable(f)'
      BY <1>4, <1>14, <1>24, <2>3 DEF Findable
    <3>2. CASE \E s \in failed : s.id = f.id /\ s.inst = f.inst /\ ~s.delivered
      <4>1. PICK s \in failed : s.id = f.id /\ s.inst = f.inst /\ ~s.delivered
        BY <3>2
      <4>2. CASE s \in failed'
        BY <4>1, <4>2 DEF Findable
      <4>3. CASE s \notin failed'
        BY <1>11, <1>17, <3>1, <4>1, <4>3
      <4> QED BY <4>2, <4>3
    <3>3. CASE d.inst = f.inst /\ d.status = "terminal" /\ ~d.delivered
      <4>1. o = Rewrite(op, d)
        BY <1>14, <1>16, <3>3 DEF Overtook
      <4>2. o # None
        BY NoneApart
      <4>3. CASE op.kind = "recover"
        <5>1. op.inst <= f.inst
          BY <1>15, <2>1, <2>3, LatestIsLast DEF IInv
        <5>2. ~(d.inst > op.inst)
          BY <1>14, <3>3, <4>3
        <5>3. op.inst = f.inst
          BY <1>13, <3>3, <5>1, <5>2
        <5> QED BY <1>17, <3>1, <4>3, <5>3
      <4>4. CASE op.kind # "recover"
        <5>1. o.inst = d.inst
          BY <1>13, <4>1, <4>2, <4>4, RewriteSays
        <5> QED BY <3>1, <3>3, <5>1
      <4> QED BY <4>3, <4>4
    <3> QED BY <1>2, <2>1, <2>3, <3>2, <3>3 DEF Findable
  <2> QED BY <2>2, <2>3
<1> QED BY <1>19, <1>20, <1>21, <1>22, <1>23, <1>25, <1>26, <1>27, <1>28, <1>29 DEF IInv

LEMMA WriteKeeps ==
  ASSUME IInv, NEW r \in RunIds, NEW landed \in BOOLEAN, NEW ok \in BOOLEAN, Write(r, landed, ok)
  PROVE  IInv'
<1>1. chain[r] \in Seq(Op) /\ chain[r] # <<>> /\ Head(chain[r]) = chain[r][1] /\ chain[r][1].out # None
  BY QueueShrinks DEF Write, IInv, Types
<1>2. UNCHANGED <<launches, active, tails, inFlight, attempts, signal, finished, reported, excuse>>
  BY DEF Write
<1>3. CASE landed
  <2>1. /\ Complete(r, IF ok THEN "yes" ELSE "failed") /\ WriteDisk(r, chain[r][1].out)
        /\ settled' = IF ok /\ chain[r][1].kind = "ack" THEN settled \cup {chain[r][1].inst} ELSE settled
        /\ raced' = IF chain[r][1].kind = "recover" /\ disk[r].inst > chain[r][1].inst
                    THEN raced \cup {disk[r].inst, chain[r][1].inst} ELSE raced
    BY <1>1, <1>3 DEF Write
  <2> QED BY <1>1, <1>2, <2>1, WriteLands
<1>4. CASE ~landed
  <2>1. /\ Complete(r, "failed") /\ UNCHANGED <<disk, age, settled, raced>>
    BY <1>1, <1>4 DEF Write
  <2>2. chain' = [chain EXCEPT ![r] = Tail(@)] /\ failed' = failed /\ Answered(chain[r][1], "failed")
    BY <1>1, <2>1 DEF Complete, Answered
  <2>3. UNCHANGED <<disk, age, launches, active, failed, tails, inFlight, attempts, signal, hist>>
    BY <1>2, <2>1, <2>2 DEF hist
  <2> QED BY <1>1, <2>2, <2>3, LeavesOnly
<1> QED BY <1>3, <1>4

-----------------------------------------------------------------------------
\* The store of the run in charge writes, or nothing is written.
LEMMA StoreKeeps ==
  ASSUME IInv, active # None, NEW status \in {"running", "terminal"}, NEW ok \in BOOLEAN, StoreWrites(status, ok),
         active' \in InCharge, active'.id = active.id, active'.inst = active.inst,
         active.saved => active'.saved, active'.saved => active'.done, active'.done => active'.begun,
         active'.saved => active.saved \/ (ok /\ status = "terminal"),
         ok => ~active.saved /\ (status = "terminal" <=> active'.saved),
         UNCHANGED <<launches, failed, tails, chain, inFlight, attempts, turn, signal>>,
         UNCHANGED <<finished, reported, settled, excuse>>
  PROVE  IInv'
<1>1. active \in InCharge /\ active.inst = Now /\ active' # None
  BY NoneApart DEF IInv, Types, ActiveOK
<1>2. PICK a \in RunIds : a = active.id /\ Of(a, Now) /\ (\A s \in failed : s.id # a) /\ \A f \in finished : f.id # a
  BY <1>1 DEF InCharge, IInv, ActiveOK
<1>3. Now \in Nat /\ Now # 0 /\ Now \in Insts
  BY <1>2 DEF IInv, Types, Of, Insts
<1>4. PICK new \in Record : new = [inst |-> Now, status |-> status, delivered |-> FALSE]
  BY <1>3 DEF Record
<1>5. new.inst = Now /\ new.status = status /\ ~new.delivered
  BY <1>4
<1>6. /\ disk' \in [RunIds -> Record] /\ age' \in [RunIds -> Nat]
      /\ \A q \in RunIds : disk'[q] = IF ok /\ q = a THEN new ELSE disk[q]
  <2>1. CASE ok
    <3>1. new = [inst |-> active.inst, status |-> status, delivered |-> FALSE]
      BY <1>1, <1>4
    <3>2. WriteDisk(a, new)
      BY <1>2, <2>1, <3>1 DEF StoreWrites
    <3>3. disk' = [disk EXCEPT ![a] = new] /\ age' \in [RunIds -> Nat]
      BY <3>2 DEF WriteDisk, IInv, Types
    <3> QED BY <2>1, <3>3 DEF IInv, Types
  <2>2. CASE ~ok
    BY <2>2 DEF StoreWrites, IInv, Types
  <2> QED BY <2>1, <2>2
<1>7. /\ raced \subseteq raced' /\ raced' \subseteq Insts
      /\ ok /\ chain[a] # <<>> /\ chain[a][1].out # None => Now \in raced'
      /\ \A x \in raced' : x \in raced \/ x = Now
  <2>1. chain[a] # <<>> => Head(chain[a]) = chain[a][1]
    BY QueueShrinks DEF IInv, Types
  <2>2. CASE ok
    BY <1>1, <1>2, <1>3, <2>1, <2>2 DEF StoreWrites, Race, IInv, Types
  <2>3. CASE ~ok
    BY <2>3 DEF StoreWrites, IInv, Types
  <2> QED BY <2>2, <2>3
<1>8. Now' = Now /\ (\A q, x : Of(q, x)' <=> Of(q, x)) /\ (\A q, x : Latest(q, x)' <=> Latest(q, x))
  BY DEF Now, Of, Latest
<1>9. ok => Now \notin reported /\ Now \notin settled
  BY DEF IInv, ActiveOK, OwnOK
<1>10. \A q \in RunIds : q # a => ~Of(q, Now)
  BY <1>2 DEF Of
<1>11. Types'
  BY <1>1, <1>6, <1>7, <1>8 DEF IInv, Types
<1>12. ActiveOK'
  <2>1. /\ active'.inst = Now' /\ active'.id = a /\ Of(a, Now)'
        /\ (active'.saved => active'.done) /\ (active'.done => active'.begun)
    BY <1>1, <1>2, <1>8
  <2>2. /\ \A s \in failed : s.id # a
        /\ \A f \in finished : f.id # a
        /\ \A t \in tails : t.inst # Now
        /\ Now \in reported => active'.saved
        /\ turn # None /\ turn.inst = Now => active'.saved
    BY <1>2 DEF IInv, ActiveOK
  <2>3. disk'[a].inst = Now /\ disk'[a].status = "terminal" => active'.saved
    BY <1>2, <1>5, <1>6 DEF IInv, ActiveOK
  <2> QED BY <1>8, <2>1, <2>2, <2>3 DEF ActiveOK
<1>13. OwnOK'
  <2>1. \A q \in RunIds : IF disk'[q].inst = 0 THEN disk'[q].status = "none"
                          ELSE disk'[q].status # "none" /\ Of(q, disk'[q].inst)
    BY <1>2, <1>3, <1>5, <1>6 DEF IInv, OwnOK
  <2> QED BY <1>8, <2>1 DEF IInv, OwnOK
<1>14. ReportedOK'
  BY DEF IInv, ReportedOK
<1>15. ChainOK'
  <2>1. ASSUME NEW q \in RunIds, NEW i \in DOMAIN chain[q] PROVE OpOK(q, chain[q][i])'
    <3>1. PICK o : o = chain[q][i] /\ OpOK(q, o)
      BY DEF IInv, ChainOK
    <3>2. RecoverOK(q, o)' /\ AwaitedOK(q, o)'
      BY <1>8, <3>1 DEF OpOK, RecoverOK, AwaitedOK
    <3>3. OpOK(q, o)'
      BY <1>7, <1>8, <3>1, <3>2 DEF OpOK
    <3> QED BY <3>1, <3>3
  <2> QED BY <2>1 DEF IInv, ChainOK
<1>16. HeadsOK'
  <2> SUFFICES ASSUME NEW q \in RunIds, chain[q] # <<>>, chain[q][1].out # None
               PROVE  HeadOK(q, chain[q][1], disk[q])'
    BY DEF HeadsOK
  <2>1. PICK op \in Op, d \in Record : op = chain[q][1] /\ d = disk[q] /\ HeadOK(q, op, d) /\ OpOK(q, op)
    <3>1. chain[q] \in Seq(Op) /\ disk[q] \in Record
      BY DEF IInv, Types
    <3>2. 1 \in DOMAIN chain[q] /\ chain[q][1] \in Op
      BY <3>1
    <3>3. HeadOK(q, chain[q][1], disk[q]) /\ OpOK(q, chain[q][1])
      BY <3>2 DEF IInv, HeadsOK, ChainOK
    <3> QED BY <3>1, <3>2, <3>3
  <2>2. CASE ~(ok /\ q = a)
    <3>1. disk'[q] = d
      BY <1>6, <2>1, <2>2
    <3>2. Overtook(d) => Overtook(d)'
      BY <1>7 DEF Overtook
    <3>3. HeadOK(q, op, d)'
      BY <1>7, <1>8, <2>1, <3>2 DEF HeadOK
    <3> QED BY <2>1, <3>1, <3>3
  <2>3. CASE ok /\ q = a
    <3>1. disk'[q] = new
      BY <1>6, <2>3
    <3>2. Overtook(new)'
      BY <1>5, <1>7, <2>1, <2>3 DEF Overtook
    <3>3. op.kind = "recover" => new.inst > op.inst
      <4>1. op.kind = "recover" => op.inst # Now /\ op.inst \in 1..Now
        BY <2>1 DEF OpOK, Of
      <4> QED BY <1>3, <1>5, <4>1
    <3>4. HeadOK(q, op, new)'
      BY <1>7, <1>8, <2>1, <3>2, <3>3 DEF HeadOK
    <3> QED BY <2>1, <3>1, <3>4
  <2> QED BY <2>2, <2>3
<1>17. FilesOK'
  <2>1. \A q \in RunIds : disk'[q].status = "interrupted" => disk'[q].delivered
    BY <1>5, <1>6 DEF IInv, FilesOK
  <2>2. ASSUME NEW f \in finished, disk'[f.id].inst = f.inst, f.inst \notin raced' \cup reported
        PROVE  Unmarked(disk'[f.id])
    <3>1. f.id \in RunIds /\ f.id # a
      BY <1>2 DEF IInv, Types, Result
    <3> QED BY <1>6, <1>7, <2>2, <3>1 DEF IInv, FilesOK, Open
  <2>3. ASSUME active.inst \notin raced' \cup reported
        PROVE  /\ disk'[a].inst = Now => Unmarked(disk'[a])
               /\ active'.saved => disk'[a].inst = Now /\ disk'[a].status = "terminal"
    <3>1. CASE ok
      BY <1>5, <1>6, <3>1 DEF Unmarked
    <3>2. CASE ~ok
      BY <1>1, <1>2, <1>6, <1>7, <2>3, <3>2 DEF IInv, FilesOK, Open
    <3> QED BY <3>1, <3>2
  <2> QED BY <1>1, <1>2, <2>1, <2>2, <2>3 DEF FilesOK, Open
<1>18. AckedOK'
  <2>1. \A q \in RunIds : \A x \in settled : Of(q, x) => x <= disk'[q].inst
    <3>1. \A x : Of(a, x) => x <= Now
      BY <1>3 DEF Of
    <3> QED BY <1>5, <1>6, <3>1 DEF IInv, AckedOK
  <2>2. \A q \in RunIds : disk'[q].inst \in settled \ raced' => disk'[q].delivered
    BY <1>5, <1>6, <1>7, <1>9 DEF IInv, AckedOK
  <2> QED BY <1>7, <1>8, <2>1, <2>2 DEF IInv, AckedOK
<1>19. \A f \in finished : f.id \in RunIds /\ f.id # a /\ disk'[f.id] = disk[f.id]
  BY <1>2, <1>6 DEF IInv, Types, Result
<1>20. KnownOK'
  <2>1. \A f : InMemory(f)' <=> InMemory(f)
    BY DEF InMemory
  <2>2. \A f \in finished : Landed(f.id, f.inst) => Landed(f.id, f.inst)'
    BY <1>19 DEF Landed
  <2> QED BY <2>1, <2>2 DEF IInv, KnownOK
<1>21. ToldOK' /\ NothingSwallowed'
  <2>1. \A f \in finished : Findable(f)' <=> Findable(f)
    BY <1>19 DEF Findable
  <2> QED BY <1>7, <2>1 DEF IInv, ToldOK, NothingSwallowed
<1> QED BY <1>11, <1>12, <1>13, <1>14, <1>15, <1>16, <1>17, <1>18, <1>20, <1>21 DEF IInv

LEMMA CancelKeeps == ASSUME IInv, Cancel PROVE IInv'
<1>1. /\ active # None /\ active \in InCharge /\ active' = [active EXCEPT !.cancelled = TRUE]
      /\ UNCHANGED <<disk, age, launches, failed, tails, chain, inFlight, attempts, turn, signal>>
      /\ UNCHANGED <<finished, reported, settled, raced, excuse>>
  BY DEF Cancel, hist, IInv, Types
<1>2. /\ active' \in InCharge /\ active'.id = active.id /\ active'.inst = active.inst
      /\ active'.saved = active.saved /\ active'.done = active.done /\ active'.begun = active.begun
  BY <1>1 DEF InCharge
<1>3. (active.saved => active.done) /\ (active.done => active.begun)
  BY <1>1 DEF IInv, ActiveOK
<1>4. StoreWrites("running", FALSE)
  BY <1>1 DEF StoreWrites
<1> QED BY <1>1, <1>2, <1>3, <1>4, StoreKeeps

LEMMA SaveRunningKeeps == ASSUME IInv, SaveRunning PROVE IInv'
<1>1. /\ active # None /\ active \in InCharge /\ active' = active /\ ~active.done /\ StoreWrites("running", TRUE)
      /\ UNCHANGED <<launches, failed, tails, chain, inFlight, attempts, turn, signal>>
      /\ UNCHANGED <<finished, reported, settled, excuse>>
  BY DEF SaveRunning, mem, IInv, Types
<1>2. (active.saved => active.done) /\ (active.done => active.begun)
  BY <1>1 DEF IInv, ActiveOK
<1> QED BY <1>1, <1>2, StoreKeeps

LEMMA InitialPersistKeeps == ASSUME IInv, NEW ok \in BOOLEAN, InitialPersist(ok) PROVE IInv'
<1>1. /\ active # None /\ active \in InCharge /\ ~active.begun /\ active' = [active EXCEPT !.begun = TRUE]
      /\ StoreWrites("running", ok)
      /\ UNCHANGED <<launches, failed, tails, chain, inFlight, attempts, turn, signal>>
      /\ UNCHANGED <<finished, reported, settled, excuse>>
  BY DEF InitialPersist, IInv, Types
<1>2. /\ active' \in InCharge /\ active'.id = active.id /\ active'.inst = active.inst
      /\ active'.saved = active.saved /\ active'.done = active.done /\ active'.begun
  BY <1>1 DEF InCharge
<1>3. ~active.saved /\ ~active.done
  BY <1>1 DEF IInv, ActiveOK
<1> QED BY <1>1, <1>2, <1>3, StoreKeeps

LEMMA FinalFlushKeeps == ASSUME IInv, NEW ok \in BOOLEAN, FinalFlush(ok) PROVE IInv'
<1>1. /\ active # None /\ active \in InCharge /\ active.begun /\ ~active.done
      /\ active' = [active EXCEPT !.done = TRUE, !.saved = ok] /\ StoreWrites("terminal", ok)
      /\ UNCHANGED <<launches, failed, tails, chain, inFlight, attempts, turn, signal>>
      /\ UNCHANGED <<finished, reported, settled, excuse>>
  BY DEF FinalFlush, IInv, Types
<1>2. /\ active' \in InCharge /\ active'.id = active.id /\ active'.inst = active.inst
      /\ active'.saved = ok /\ active'.done /\ active'.begun
  BY <1>1 DEF InCharge
<1>3. ~active.saved
  BY <1>1 DEF IInv, ActiveOK
<1> QED BY <1>1, <1>2, <1>3, StoreKeeps

-----------------------------------------------------------------------------
\* A launch begins a new instance; the older ones of its id are forgotten.
LEMMA LaunchKeeps == ASSUME IInv, NEW r \in RunIds, Launch(r) PROVE IInv'
<1>1. /\ active = None /\ Now < MaxInst /\ launches' = Append(launches, r)
      /\ attempts' = [attempts EXCEPT ![r] = 0] /\ failed' = DropSnapshot(r)
      /\ finished' = {f \in finished : f.id # r}
      /\ active' = [id |-> r, inst |-> Now + 1, cancelled |-> FALSE, begun |-> FALSE, saved |-> FALSE, done |-> FALSE]
      /\ UNCHANGED <<disk, age, crashes, tails, chain, inFlight, turn, signal, reported, settled, raced, excuse>>
  BY DEF Launch, Now
<1>2. Now \in Nat /\ MaxInst \in Nat /\ launches \in Seq(RunIds)
  BY DEF IInv, Types, Insts
<1>3. /\ launches' \in Seq(RunIds) /\ Now' = Now + 1 /\ launches'[Now + 1] = r
      /\ \A x \in 1..Now : launches'[x] = launches[x]
  BY <1>1, <1>2 DEF Now
<1>4. PICK n \in Insts : n = Now + 1
  BY <1>1, <1>2 DEF Insts
<1> HIDE DEF Now
<1>5. /\ \A q, x : Of(q, x) => Of(q, x)'
      /\ \A q, x : Of(q, x)' <=> Of(q, x) \/ (q = r /\ x = n)
      /\ \A q, x : Of(q, x) => x \in 1..Now
  BY <1>2, <1>3, <1>4 DEF Of
<1>6. \A q, x : q # r /\ Latest(q, x) => Latest(q, x)'
  BY <1>2, <1>3, <1>4, <1>5 DEF Latest
<1>7. /\ active' \in InCharge /\ active' # None /\ active'.id = r /\ active'.inst = n
      /\ ~active'.saved /\ ~active'.done
  BY <1>1, <1>4, NoneApart DEF InCharge
<1>8. /\ failed' \subseteq failed /\ (\A s \in failed' : s.id # r) /\ \A s \in failed : s.id # r => s \in failed'
      /\ finished' \subseteq finished /\ \A f \in finished' : f.id # r
  BY <1>1 DEF DropSnapshot
<1>9. \A m \in 1..Now : m # n /\ m # 0
  BY <1>2, <1>4
<1>10. Types'
  <2>1. 0 \in 0..(MAX_RENOTIFY_ATTEMPTS + 1)
    BY NotifyAssumption
  <2>2. attempts' \in [RunIds -> 0..(MAX_RENOTIFY_ATTEMPTS + 1)]
    BY <1>1, <2>1 DEF IInv, Types
  <2> QED BY <1>1, <1>3, <1>4, <1>7, <1>8, <2>2 DEF IInv, Types
<1>11. ActiveOK'
  <2>1. /\ \A t \in tails : t.inst # n
        /\ n \notin reported
        /\ turn # None => turn.inst # n
        /\ disk[r].inst # n
    <3>1. disk[r].inst = 0 \/ Of(r, disk[r].inst)
      BY DEF IInv, OwnOK
    <3>2. n # 0
      BY <1>2, <1>4
    <3> QED BY <1>5, <1>9, <3>1, <3>2 DEF IInv, OwnOK
  <2>2. Of(r, n)'
    BY <1>5
  <2> QED BY <1>1, <1>3, <1>7, <1>8, <2>1, <2>2 DEF ActiveOK
<1>12. OwnOK'
  <2>1. reported \subseteq 1..n
    <3>1. \A m \in 1..Now : m \in 1..n
      BY <1>2, <1>4
    <3> QED BY <3>1 DEF IInv, OwnOK
  <2>2. \A q \in RunIds : IF disk[q].inst = 0 THEN disk[q].status = "none"
                          ELSE disk[q].status # "none" /\ Of(q, disk[q].inst)'
    BY <1>1, <1>5 DEF IInv, OwnOK
  <2>3. /\ \A s \in failed' : Latest(s.id, s.inst)'
        /\ \A f \in finished' : Latest(f.id, f.inst)'
    BY <1>6, <1>8 DEF IInv, OwnOK
  <2>4. /\ \A t \in tails : Of(t.id, t.inst)'
        /\ turn # None => Of(turn.id, turn.inst)'
    BY <1>1, <1>5 DEF IInv, OwnOK
  <2>5. /\ \A s, t \in failed' : s.id = t.id => s = t
        /\ settled \subseteq reported
    BY <1>8 DEF IInv, OwnOK
  <2> QED BY <1>1, <1>3, <1>4, <2>1, <2>2, <2>3, <2>4, <2>5 DEF OwnOK
<1>13. ReportedOK'
  BY <1>1, <1>8 DEF IInv, ReportedOK
<1>14. \A q, x : x \in settled /\ Of(q, x)' => Of(q, x)
  <2>1. \A x \in settled : x \in 1..Now
    BY DEF IInv, OwnOK
  <2> QED BY <1>5, <1>9, <2>1
<1>15. ChainOK'
  <2>1. ASSUME NEW q \in RunIds, NEW i \in DOMAIN chain[q] PROVE OpOK(q, chain[q][i])'
    <3>1. PICK o : o = chain[q][i] /\ OpOK(q, o)
      BY DEF IInv, ChainOK
    <3>2. RecoverOK(q, o)'
      BY <1>1, <1>8, <1>14, <3>1 DEF OpOK, RecoverOK
    <3>3. AwaitedOK(q, o)'
      BY <1>1, <3>1 DEF OpOK, AwaitedOK
    <3>4. Of(q, o.inst)' /\ o.inst # n
      BY <1>5, <1>9, <3>1 DEF OpOK
    <3>5. OpOK(q, o)'
      BY <1>1, <1>3, <1>4, <1>8, <3>1, <3>2, <3>3, <3>4 DEF OpOK
    <3> QED BY <1>1, <3>1, <3>5
  <2> QED BY <1>1, <2>1 DEF IInv, ChainOK
<1>16. HeadsOK'
  <2> SUFFICES ASSUME NEW q \in RunIds, chain[q] # <<>>, chain[q][1].out # None
               PROVE  HeadOK(q, chain[q][1], disk[q])'
    BY <1>1 DEF HeadsOK
  <2>1. PICK op \in Op, d \in Record : op = chain[q][1] /\ d = disk[q] /\ HeadOK(q, op, d)
    <3>1. chain[q] \in Seq(Op) /\ disk[q] \in Record
      BY DEF IInv, Types
    <3>2. chain[q][1] \in Op
      BY <3>1
    <3>3. HeadOK(q, chain[q][1], disk[q])
      BY DEF IInv, HeadsOK
    <3> QED BY <3>1, <3>2, <3>3
  <2>2. Of(q, op.out.inst)' /\ op.out.inst # n
    BY <1>5, <1>9, <2>1 DEF HeadOK
  <2>3. HeadOK(q, op, d)'
    BY <1>1, <1>3, <1>4, <1>8, <1>14, <2>1, <2>2 DEF HeadOK, Overtook
  <2> QED BY <1>1, <2>1, <2>3
<1>17. FilesOK'
  <2>1. disk[r].inst # n
    <3>1. disk[r].inst = 0 \/ Of(r, disk[r].inst)
      BY DEF IInv, OwnOK
    <3>2. n # 0
      BY <1>2, <1>4
    <3> QED BY <1>5, <1>9, <3>1, <3>2
  <2> QED BY <1>1, <1>7, <1>8, <2>1 DEF IInv, FilesOK, Open
<1>18. AckedOK'
  BY <1>1, <1>8, <1>14 DEF IInv, AckedOK
<1>19. \A f \in finished' : InMemory(f) => InMemory(f)'
  BY <1>8 DEF InMemory
<1>20. KnownOK'
  <2>1. \A f : Landed(f.id, f.inst)' <=> Landed(f.id, f.inst)
    BY <1>1 DEF Landed
  <2> QED BY <1>1, <1>8, <1>19, <2>1 DEF IInv, KnownOK, Landed
<1>21. ToldOK' /\ NothingSwallowed'
  <2>1. \A f \in finished' : Findable(f)' <=> Findable(f)
    BY <1>1, <1>8 DEF Findable
  <2> QED BY <1>1, <1>8, <2>1 DEF IInv, ToldOK, NothingSwallowed
<1> QED BY <1>10, <1>11, <1>12, <1>13, <1>15, <1>16, <1>17, <1>18, <1>20, <1>21 DEF IInv

\* The run settles: its snapshot is in memory before it leaves the table.
LEMMA SettleKeeps == ASSUME IInv, Settle PROVE IInv'
<1>1. /\ active # None /\ active \in InCharge /\ active.done /\ active' = None /\ active.inst = Now
      /\ UNCHANGED <<disk, age, launches, crashes, chain, inFlight, attempts, turn, signal>>
      /\ UNCHANGED <<reported, settled, raced, excuse>>
  BY DEF Settle, IInv, Types, ActiveOK
<1>2. PICK a \in RunIds : a = active.id /\ Of(a, Now) /\ (\A s \in failed : s.id # a)
                          /\ (\A f \in finished : f.id # a) /\ \A t \in tails : t.inst # Now
  BY <1>1 DEF InCharge, IInv, ActiveOK
<1>3. Now \in Insts /\ Now \in Nat
  BY DEF IInv, Types, Insts
<1>4. Now' = Now /\ (\A q, x : Of(q, x)' <=> Of(q, x)) /\ (\A q, x : Latest(q, x)' <=> Latest(q, x))
  BY <1>1 DEF Now, Of, Latest
<1>5. Latest(a, Now) /\ \A q : Of(q, Now) => q = a
  BY <1>2, <1>3 DEF Latest, Of
<1>6. PICK new \in Snapshot : /\ new = [id |-> a, inst |-> Now, delivered |-> FALSE, rev |-> 0]
                              /\ new.id = a /\ new.inst = Now /\ ~new.delivered
  <2> DEFINE n == [id |-> a, inst |-> Now, delivered |-> FALSE, rev |-> 0]
  <2>1. 0 \in 0..MaxRev
    BY NotifyAssumption
  <2>2. n \in Snapshot /\ n.id = a /\ n.inst = Now /\ ~n.delivered
    BY <1>3, <2>1 DEF Snapshot
  <2> QED BY <2>2
<1>7. PICK tail \in Tails : /\ tail.id = a /\ tail.inst = Now /\ tail.cancelled = active.cancelled
                            /\ tails' = tails \cup {tail}
  <2> DEFINE t == [id |-> a, inst |-> Now, cancelled |-> active.cancelled, saved |-> active.saved]
  <2>1. t \in Tails /\ t.id = a /\ t.inst = Now /\ t.cancelled = active.cancelled
    BY <1>1, <1>3 DEF Tails, InCharge
  <2>2. tails' = tails \cup {t}
    BY <1>1, <1>2 DEF Settle
  <2> QED BY <2>1, <2>2
<1>8. PICK res \in Result : /\ res.id = a /\ res.inst = Now
                            /\ finished' = IF active.cancelled THEN finished ELSE finished \cup {res}
  <2> DEFINE f == [id |-> a, inst |-> Now]
  <2>1. f \in Result /\ f.id = a /\ f.inst = Now
    BY <1>3 DEF Result
  <2>2. finished' = IF active.cancelled THEN finished ELSE finished \cup {f}
    BY <1>1, <1>2 DEF Settle
  <2> QED BY <2>1, <2>2
<1>9. failed' = IF active.cancelled \/ active.saved THEN failed ELSE failed \cup {new}
  BY <1>1, <1>2, <1>6 DEF Settle
<1>10. /\ failed \subseteq failed' /\ \A s \in failed' : s \in failed \/ (s = new /\ ~active.saved /\ ~active.cancelled)
       /\ finished \subseteq finished' /\ \A f \in finished' : f \in finished \/ (f = res /\ ~active.cancelled)
  BY <1>8, <1>9
<1>11. ~active.saved => Now \notin reported /\ Now \notin settled
  BY <1>1 DEF IInv, ActiveOK, OwnOK
<1>12. Types'
  BY <1>1, <1>4, <1>7, <1>10 DEF IInv, Types
<1>13. ActiveOK'
  BY <1>1 DEF ActiveOK
<1>14. OwnOK'
  <2>1. \A s \in failed' : Latest(s.id, s.inst)
    BY <1>5, <1>6, <1>10 DEF IInv, OwnOK
  <2>2. \A s, t \in failed' : s.id = t.id => s = t
    BY <1>2, <1>6, <1>10 DEF IInv, OwnOK
  <2>3. \A t \in tails' : Of(t.id, t.inst)
    BY <1>2, <1>7 DEF IInv, OwnOK
  <2>4. \A f \in finished' : Latest(f.id, f.inst)
    BY <1>5, <1>8, <1>10 DEF IInv, OwnOK
  <2> QED BY <1>1, <1>4, <2>1, <2>2, <2>3, <2>4 DEF IInv, OwnOK
<1>15. ReportedOK'
  <2>1. ASSUME NEW t \in tails', t.cancelled, NEW f \in finished' PROVE f.inst # t.inst
    <3>1. CASE t \in tails /\ f \in finished
      BY <2>1, <3>1 DEF IInv, ReportedOK
    <3>2. CASE t \in tails /\ f = res
      BY <1>2, <1>8, <3>2
    <3>3. CASE t = tail
      <4>1. f \in finished /\ t.inst = Now
        BY <1>7, <1>10, <2>1, <3>3
      <4>2. Of(f.id, f.inst) /\ f.id # a
        BY <1>2, <4>1 DEF IInv, OwnOK, Latest
      <4> QED BY <1>5, <4>1, <4>2
    <3> QED BY <1>7, <1>10, <3>1, <3>2, <3>3
  <2>2. \A s \in failed' : s.delivered => s.inst \in reported
    BY <1>6, <1>10 DEF IInv, ReportedOK
  <2> QED BY <1>1, <2>1, <2>2 DEF IInv, ReportedOK
<1>16. ChainOK'
  <2>1. ASSUME NEW q \in RunIds, NEW i \in DOMAIN chain[q] PROVE OpOK(q, chain[q][i])'
    <3>1. PICK o : o = chain[q][i] /\ OpOK(q, o)
      BY DEF IInv, ChainOK
    <3>2. o.inst = Now => o.kind = "ack"
      BY <1>1, <3>1 DEF OpOK
    <3>3. RecoverOK(q, o)'
      BY <1>1, <1>4, <1>6, <1>10, <3>1, <3>2 DEF OpOK, RecoverOK
    <3>4. AwaitedOK(q, o)'
      BY <1>1, <3>1 DEF OpOK, AwaitedOK
    <3>5. OpOK(q, o)'
      BY <1>1, <1>4, <1>8, <1>10, <3>1, <3>2, <3>3, <3>4 DEF OpOK
    <3> QED BY <1>1, <3>1, <3>5
  <2> QED BY <1>1, <2>1 DEF IInv, ChainOK
<1>17. HeadsOK'
  <2> SUFFICES ASSUME NEW q \in RunIds, chain[q] # <<>>, chain[q][1].out # None
               PROVE  HeadOK(q, chain[q][1], disk[q])'
    BY <1>1 DEF HeadsOK
  <2>1. PICK op \in Op, d \in Record : op = chain[q][1] /\ d = disk[q] /\ HeadOK(q, op, d) /\ OpOK(q, op)
    <3>1. chain[q] \in Seq(Op) /\ disk[q] \in Record
      BY DEF IInv, Types
    <3>2. 1 \in DOMAIN chain[q] /\ chain[q][1] \in Op
      BY <3>1
    <3>3. HeadOK(q, chain[q][1], disk[q]) /\ OpOK(q, chain[q][1])
      BY <3>2 DEF IInv, HeadsOK, ChainOK
    <3> QED BY <3>1, <3>2, <3>3
  <2>2. op.inst = Now => op.kind # "recover"
    BY <1>1, <2>1 DEF OpOK
  <2>3. op.kind = "recover" => \A f \in finished' : f.id = q /\ f.inst = op.inst => f \in finished
    BY <1>8, <1>10, <2>2
  <2>4. HeadOK(q, op, d)'
    BY <1>1, <1>4, <2>1, <2>3 DEF HeadOK, Overtook
  <2> QED BY <1>1, <2>1, <2>4
<1>18. FilesOK'
  <2>1. disk[a].inst = Now /\ Open(Now) => Unmarked(disk[a])
    BY <1>1, <1>2 DEF IInv, FilesOK
  <2>2. \A f \in finished' : disk[f.id].inst = f.inst /\ Open(f.inst) => Unmarked(disk[f.id])
    BY <1>8, <1>10, <2>1 DEF IInv, FilesOK
  <2> QED BY <1>1, <2>2 DEF IInv, FilesOK, Open
<1>19. AckedOK'
  <2>1. \A s \in failed' : s.inst \in settled => s \in failed
    BY <1>6, <1>10, <1>11
  <2> QED BY <1>1, <1>4, <2>1 DEF IInv, AckedOK
<1>20. KnownOK'
  <2> SUFFICES ASSUME NEW q \in RunIds, NEW i \in DOMAIN chain[q], NEW f \in finished',
                      chain[q][i].kind = "recover", ~chain[q][i].delivered,
                      f.id = q, f.inst = chain[q][i].inst
               PROVE  \/ InMemory(f)' \/ Landed(q, f.inst)
                      \/ \E j \in DOMAIN chain[q] : j > i /\ chain[q][j].turn
    BY <1>1 DEF KnownOK, Landed
  <2>1. f \in finished
    <3>1. chain[q][i].inst # Now
      BY <1>1 DEF IInv, ChainOK, OpOK
    <3> QED BY <1>8, <1>10, <3>1
  <2>2. InMemory(f) => InMemory(f)'
    BY <1>10 DEF InMemory
  <2> QED BY <2>1, <2>2 DEF IInv, KnownOK
<1>21. ToldOK'
  <2>1. CASE active.cancelled
    <3>1. finished' = finished /\ failed' = failed /\ tails \subseteq tails'
      BY <1>7, <1>8, <1>9, <2>1
    <3> QED BY <1>1, <3>1 DEF IInv, ToldOK, Findable
  <2>2. CASE ~active.cancelled
    BY <1>7, <2>2 DEF ToldOK
  <2> QED BY <2>1, <2>2
<1>22. NothingSwallowed'
  <2> SUFFICES ASSUME NEW f \in finished', f.inst \notin raced \cup reported PROVE Findable(f)'
    BY <1>1 DEF NothingSwallowed
  <2>1. CASE f \in finished
    BY <1>1, <1>10, <2>1 DEF IInv, NothingSwallowed, Findable
  <2>2. CASE f = res /\ ~active.cancelled
    <3>1. CASE active.saved
      <4>1. disk[a].inst = Now /\ disk[a].status = "terminal" /\ ~disk[a].delivered
        BY <1>1, <1>2, <1>8, <2>2, <3>1 DEF IInv, FilesOK, Open, Unmarked
      <4> QED BY <1>1, <1>8, <2>2, <4>1 DEF Findable
    <3>2. CASE ~active.saved
      BY <1>6, <1>8, <1>9, <2>2, <3>2 DEF Findable
    <3> QED BY <3>1, <3>2
  <2> QED BY <1>10, <2>1, <2>2
<1> QED BY <1>12, <1>13, <1>14, <1>15, <1>16, <1>17, <1>18, <1>19, <1>20, <1>21, <1>22 DEF IInv

LEMMA CrashKeeps == ASSUME IInv, Crash PROVE IInv'
<1>1. /\ active' = None /\ failed' = {} /\ tails' = {} /\ chain' = [r \in RunIds |-> <<>>]
      /\ inFlight' = {} /\ attempts' = [r \in RunIds |-> 0] /\ turn' = None /\ signal' = FALSE
      /\ finished' = {f \in finished : disk[f.id].inst = f.inst /\ Terminal(disk[f.id])}
      /\ excuse' = "policy"
      /\ UNCHANGED <<disk, age, launches, reported, settled, raced>>
  BY DEF Crash
<1>2. Now' = Now /\ (\A q, x : Of(q, x)' <=> Of(q, x)) /\ (\A q, x : Latest(q, x)' <=> Latest(q, x))
  BY <1>1 DEF Now, Of, Latest
<1>3. Types'
  <2>1. 0 \in 0..(MAX_RENOTIFY_ATTEMPTS + 1)
    BY NotifyAssumption
  <2>2. chain' \in [RunIds -> Seq(Op)] /\ attempts' \in [RunIds -> 0..(MAX_RENOTIFY_ATTEMPTS + 1)]
    BY <1>1, <2>1
  <2> QED BY <1>1, <1>2, <2>2 DEF IInv, Types
<1>4. ActiveOK' /\ ReportedOK' /\ ToldOK'
  BY <1>1 DEF ActiveOK, ReportedOK, ToldOK
<1>5. OwnOK'
  BY <1>1, <1>2 DEF IInv, OwnOK
<1>6. ChainOK' /\ HeadsOK' /\ KnownOK'
  <2>1. \A r \in RunIds : chain'[r] = <<>> /\ DOMAIN chain'[r] = {}
    BY <1>1
  <2> QED BY <2>1 DEF ChainOK, Shape, HeadsOK, KnownOK
<1>7. FilesOK'
  BY <1>1 DEF IInv, FilesOK, Open
<1>8. AckedOK'
  BY <1>1, <1>2 DEF IInv, AckedOK
<1>9. NothingSwallowed'
  BY <1>1 DEF IInv, FilesOK, Open, Unmarked, Terminal, NothingSwallowed, Findable
<1> QED BY <1>3, <1>4, <1>5, <1>6, <1>7, <1>8, <1>9 DEF IInv

\* At the start nothing was launched.
LEMMA NotifyStarts == ASSUME Init PROVE IInv
<1>1. /\ disk = [r \in RunIds |-> [inst |-> 0, status |-> "none", delivered |-> FALSE]]
      /\ age = [r \in RunIds |-> Cardinality(RunIds)] /\ launches = <<>>
      /\ active = None /\ failed = {} /\ tails = {} /\ chain = [r \in RunIds |-> <<>>]
      /\ inFlight = {} /\ attempts = [r \in RunIds |-> 0] /\ turn = None /\ signal = FALSE
      /\ finished = {} /\ reported = {} /\ settled = {} /\ raced = {}
  BY DEF Init
<1>2. 0 \in Insts /\ Now = 0 /\ \A r \in RunIds : disk[r].inst = 0 /\ disk[r].status = "none"
  BY <1>1 DEF Insts, Now
<1>3. Types
  <2>1. 0 \in 0..(MAX_RENOTIFY_ATTEMPTS + 1)
    BY NotifyAssumption
  <2>2. disk \in [RunIds -> Record] /\ launches \in Seq(RunIds) /\ chain \in [RunIds -> Seq(Op)]
        /\ attempts \in [RunIds -> 0..(MAX_RENOTIFY_ATTEMPTS + 1)]
    BY <1>1, <1>2, <2>1 DEF Record
  <2>3. age \in [RunIds -> Nat]
    BY <1>1, FS_CardinalityType, NotifyAssumption
  <2> QED BY <1>1, <1>2, <2>2, <2>3 DEF Types
<1>4. ActiveOK /\ OwnOK /\ ReportedOK
  BY <1>1, <1>2 DEF ActiveOK, OwnOK, ReportedOK
<1>5. ChainOK /\ HeadsOK /\ KnownOK
  <2>1. \A r \in RunIds : chain[r] = <<>> /\ DOMAIN chain[r] = {}
    BY <1>1
  <2> QED BY <2>1 DEF ChainOK, Shape, HeadsOK, KnownOK
<1>6. FilesOK /\ AckedOK /\ ToldOK /\ NothingSwallowed
  BY <1>1, <1>2 DEF FilesOK, AckedOK, ToldOK, NothingSwallowed
<1> QED BY <1>3, <1>4, <1>5, <1>6 DEF IInv

LEMMA NotifyStep == ASSUME IInv, [Next]_vars PROVE IInv'
<1>1. ASSUME NEW r \in RunIds, Launch(r) \/ Read(r) \/ ReconcileZombie(r) PROVE IInv'
  BY <1>1, LaunchKeeps, ReadKeeps, ReconcileZombieKeeps
<1>2. ASSUME NEW r \in RunIds, NEW landed \in BOOLEAN, NEW ok \in BOOLEAN, Write(r, landed, ok) PROVE IInv'
  BY <1>2, WriteKeeps
<1>3. CASE SaveRunning \/ Cancel \/ Settle
  BY <1>3, SaveRunningKeeps, CancelKeeps, SettleKeeps
<1>4. ASSUME NEW ok \in BOOLEAN, InitialPersist(ok) \/ FinalFlush(ok) PROVE IInv'
  BY <1>4, InitialPersistKeeps, FinalFlushKeeps
<1>5. ASSUME NEW t \in tails, SettleTail(t) PROVE IInv'
  BY <1>5, SettleTailKeeps
<1>6. ASSUME NEW s \in failed, RetryPersist(s) PROVE IInv'
  BY <1>6, RetryPersistKeeps
<1>7. CASE HydratePending \/ TurnStart \/ AbortTurn \/ TurnStopped \/ TurnFailed
  BY <1>7, HydratePendingKeeps, TurnStartKeeps, AbortTurnKeeps, TurnStoppedKeeps, TurnFailedKeeps
<1>8. CASE AckStart \/ AckSettle \/ AckAborted \/ AckEnd
  BY <1>8, AckStartKeeps, AckSettleKeeps, AckAbortedKeeps, AckEndKeeps
<1>9. CASE Crash
  BY <1>9, CrashKeeps
<1>10. CASE UNCHANGED vars
  <2>1. /\ UNCHANGED <<disk, age, launches, active, failed, tails, chain, inFlight, attempts, turn, signal>>
        /\ UNCHANGED <<finished, reported, settled, raced, excuse>>
    BY <1>10 DEF vars, mem, hist
  <2>2. StoreWrites("running", FALSE)
    BY <2>1 DEF StoreWrites
  <2>3. CASE active = None
    <3>1. Now' = Now /\ (\A q, x : Of(q, x)' <=> Of(q, x)) /\ (\A q, x : Latest(q, x)' <=> Latest(q, x))
      BY <2>1 DEF Now, Of, Latest
    <3>2. Types' /\ ActiveOK' /\ OwnOK' /\ ReportedOK'
      BY <2>1, <3>1 DEF IInv, Types, ActiveOK, OwnOK, ReportedOK
    <3>3. ChainOK'
      BY <2>1, <3>1 DEF IInv, ChainOK, OpOK, RecoverOK, AwaitedOK
    <3>4. HeadsOK'
      BY <2>1, <3>1 DEF IInv, HeadsOK, HeadOK, Overtook
    <3>5. FilesOK' /\ AckedOK' /\ KnownOK' /\ ToldOK' /\ NothingSwallowed'
      BY <2>1, <3>1 DEF IInv, FilesOK, Open, AckedOK, KnownOK, InMemory, Landed, ToldOK, Findable, NothingSwallowed
    <3> QED BY <3>2, <3>3, <3>4, <3>5 DEF IInv
  <2>4. CASE active # None
    <3>1. active \in InCharge /\ (active.saved => active.done) /\ (active.done => active.begun)
      BY <2>4 DEF IInv, Types, ActiveOK
    <3> QED BY <2>1, <2>2, <2>4, <3>1, StoreKeeps
  <2> QED BY <2>3, <2>4
<1> QED BY <1>1, <1>2, <1>3, <1>4, <1>5, <1>6, <1>7, <1>8, <1>9, <1>10 DEF Next

LEMMA NotifyInvariant == Spec => []IInv
<1>1. Init => IInv
  BY NotifyStarts
<1>2. IInv /\ [Next]_vars => IInv'
  BY NotifyStep
<1> QED BY <1>1, <1>2, PTL DEF Spec

-----------------------------------------------------------------------------
\* The tables fit together: the run table, the snapshots (one per run id), the
\* chains of flag writers, the turn; and the file of a run that settled and was
\* not reported is not turned into an interrupted one (ipc/workflows.ts).
THEOREM TablesFit == Spec => []NotifyInv
<1>1. IInv => TypeOK
  <2> SUFFICES ASSUME IInv PROVE TypeOK
    OBVIOUS
  <2>1. Len(launches) <= MaxInst
    BY DEF IInv, Types, Insts, Now
  <2>2. \A t \in tails : t.id \in RunIds /\ t.inst \in Insts
    BY DEF IInv, Types, Tails
  <2>3. \A r \in RunIds : \A i \in DOMAIN chain[r] : chain[r][i] \in Op /\ (chain[r][i].out # None => i = 1)
    <3>1. \A r \in RunIds : chain[r] \in Seq(Op) /\ Shape(chain[r])
      BY DEF IInv, Types, ChainOK
    <3> QED BY <3>1 DEF Shape
  <2>4. \A s, t \in failed : s.id = t.id => s = t
    BY DEF IInv, OwnOK
  <2> QED BY <2>1, <2>2, <2>3, <2>4 DEF IInv, Types, TypeOK
<1>2. IInv => OutcomeKept
  BY DEF IInv, FilesOK, Open, Unmarked, OutcomeKept
<1>3. IInv => SettledStaysSettled
  BY PendingIsDue DEF SettledStaysSettled
<1> QED BY <1>1, <1>2, <1>3, NotifyInvariant, PTL DEF NotifyInv

\* A result is reported or can still be found, in memory or on disk, through every
\* order of the live store, the flag writers, the turn, resumes and crashes; the
\* victims of the named races excepted (run-manager.ts: at-least-once).
THEOREM ResultsSurvive == Spec => []NothingSwallowed
<1>1. IInv => NothingSwallowed
  BY DEF IInv
<1> QED BY <1>1, NotifyInvariant, PTL

\* What an acknowledgement has put on disk is not handed to a turn again, however
\* old the write-backs that land after it (persistRecoveredRun merges the flag).
THEOREM AcknowledgedOnce == Spec => []SettledStaysSettled
<1>1. IInv => SettledStaysSettled
  BY PendingIsDue DEF SettledStaysSettled
<1> QED BY <1>1, NotifyInvariant, PTL

\* When nothing moves, a result that can be found has a trigger in the renderer or
\* a named excuse (kickNextPendingNotification, the settle block, hydrate).
THEOREM SomebodyAsks == Spec => []NotStranded
<1>1. ASSUME IInv, Quiet, NEW p \in Pending \cap finished PROVE signal \/ excuse # "none"
  <2>1. \/ \E s \in failed : ~s.delivered /\ s.id = p.id /\ s.inst = p.inst
        \/ disk[p.id].inst = p.inst /\ Terminal(disk[p.id]) /\ ~disk[p.id].delivered
    BY <1>1, PendingIsDue
  <2>2. p.id \in RunIds
    BY <1>1 DEF IInv, Types, Result
  <2>3. Findable(p)
    BY <1>1, <2>1, <2>2 DEF Findable, Terminal, IInv, FilesOK
  <2> QED BY <1>1, <2>3 DEF Quiet, IInv, ToldOK
<1>2. IInv => NotStranded
  BY <1>1 DEF NotStranded
<1> QED BY <1>2, NotifyInvariant, PTL

-----------------------------------------------------------------------------
\* At least once: the steps, seen from the abstract specification.

\* What is due and was neither reported nor hit can be found.
LEMMA DueIsHeld == ASSUME IInv' PROVE Delivery!Kept'
BY DEF IInv, NothingSwallowed, Delivery!Kept, Held

\* A turn that is not in its model phase, or none at all, was given nothing.
LEMMA NothingGiven ==
  ASSUME turn = None \/ turn.phase # "model"
  PROVE  Given = {}
BY DEF Given

\* Whoever only moves a result changes nothing that was promised.
LEMMA MovesOnly ==
  ASSUME IInv', raced \subseteq raced', UNCHANGED <<finished, Given, reported, settled>>
  PROVE  Delivery!Next
<1>1. Delivery!Kept'
  BY DueIsHeld
<1> QED BY <1>1 DEF Delivery!Next, Delivery!Move

\* The run that settles is due.
LEMMA SettleFinishes == ASSUME IInv, IInv', Settle PROVE Delivery!Next
<1> DEFINE f == [id |-> active.id, inst |-> active.inst]
<1>1. UNCHANGED <<turn, reported, settled, raced>> /\ (finished' = finished \/ finished' = finished \cup {f})
  BY DEF Settle
<1>2. UNCHANGED Given
  BY <1>1 DEF Given
<1>3. f \in Delivery!Result
  BY DEF Settle, IInv, Types, InCharge, Delivery!Result
<1>4. Delivery!Kept'
  BY DueIsHeld
<1>5. CASE finished' = finished
  BY <1>1, <1>2, <1>5, MovesOnly
<1>6. CASE finished' = finished \cup {f}
  <2>1. Delivery!Finish(f)
    BY <1>1, <1>2, <1>6 DEF Delivery!Finish
  <2> QED BY <1>1, <1>3, <1>4, <2>1 DEF Delivery!Next
<1> QED BY <1>1, <1>5, <1>6

\* A launch takes the result of its run away.
LEMMA LaunchResumes == ASSUME IInv, IInv', NEW r \in RunIds, Launch(r) PROVE Delivery!Next
<1>1. UNCHANGED <<turn, reported, settled, raced>> /\ finished' = {f \in finished : f.id # r}
  BY DEF Launch
<1>2. UNCHANGED Given
  BY <1>1 DEF Given
<1>3. Delivery!Kept'
  BY DueIsHeld
<1>4. Delivery!Resume(r)
  BY <1>1, <1>2 DEF Delivery!Resume
<1> QED BY <1>1, <1>3, <1>4 DEF Delivery!Next

\* A turn that starts is given what is pending, which is not acknowledged.
LEMMA TurnIsGiven == ASSUME IInv, IInv', TurnStart PROVE Delivery!Next
<1>1. UNCHANGED <<finished, reported, settled, raced>> /\ turn = None
  BY DEF TurnStart
<1>2. CASE Pending = {}
  <2>1. turn' = turn
    BY <1>2 DEF TurnStart
  <2> QED BY <1>1, <2>1, MovesOnly DEF Given
<1>3. CASE Pending # {}
  <2>1. PICK p \in Pending :
          turn' = [id |-> p.id, inst |-> p.inst, phase |-> "model", answer |-> "none", aborted |-> FALSE]
    BY <1>3 DEF TurnStart
  <2>2. p \in Result /\ p.inst \notin settled \ raced
    BY PendingIsDue
  <2>3. p.inst \in Insts
    BY <2>2 DEF Result
  <2>4. turn' # None
    <3>1. turn' \in Turn
      BY <2>1, <2>2 DEF Turn, Result
    <3> QED BY <3>1, NoneApart
  <2>5. Given = {} /\ Given' = {p.inst}
    BY <1>1, <2>1, <2>3, <2>4 DEF Given
  <2>6. Delivery!Give(p.inst)
    BY <1>1, <2>2, <2>5 DEF Delivery!Give
  <2>7. Delivery!Kept'
    BY DueIsHeld
  <2> QED BY <1>1, <2>3, <2>6, <2>7 DEF Delivery!Next
<1> QED BY <1>2, <1>3

\* A turn that fails or is stopped gives it back.
LEMMA TurnWithdraws == ASSUME IInv', TurnStopped \/ TurnFailed PROVE Delivery!Next
<1>1. UNCHANGED <<finished, reported, settled, raced>> /\ turn' = None
  BY DEF TurnStopped, TurnFailed
<1>2. Given' = {}
  BY <1>1 DEF Given
<1>3. Delivery!Kept'
  BY DueIsHeld
<1> QED BY <1>1, <1>2, <1>3 DEF Delivery!Next, Delivery!Withdraw

\* A turn that succeeds has reported it.
LEMMA AckStartReports == ASSUME IInv, IInv', AckStart PROVE Delivery!Next
<1>1. /\ UNCHANGED <<finished, settled, raced>> /\ turn # None /\ turn.phase = "model"
      /\ turn' = [turn EXCEPT !.phase = "acking"] /\ reported' = reported \cup {turn.inst}
  BY DEF AckStart
<1>2. turn \in Turn /\ turn.inst \in Insts
  BY <1>1 DEF IInv, Types, Turn
<1>3. turn'.phase = "acking"
  BY <1>1, <1>2 DEF Turn
<1>4. turn.inst \in Given /\ Given' = {}
  BY <1>1, <1>2, <1>3 DEF Given
<1>5. Delivery!Report(turn.inst)
  BY <1>1, <1>4 DEF Delivery!Report
<1>6. Delivery!Kept'
  BY DueIsHeld
<1> QED BY <1>1, <1>2, <1>5, <1>6 DEF Delivery!Next

\* The writers of the flag: only an acknowledgement that lands is one.
LEMMA HeadsOp ==
  ASSUME IInv, NEW r \in RunIds, chain[r] # <<>>
  PROVE  Head(chain[r]) \in Op /\ OpOK(r, Head(chain[r]))
<1>1. chain[r] \in Seq(Op)
  BY DEF IInv, Types
<1>2. Head(chain[r]) = chain[r][1] /\ chain[r][1] \in Op /\ 1 \in DOMAIN chain[r]
  BY <1>1, QueueShrinks
<1> QED BY <1>2 DEF IInv, ChainOK

\* A writer that is through leaves the turn in a wait that is over: it was not in
\* its model phase and is not now.
LEMMA CompleteGivesNothing ==
  ASSUME IInv, NEW r \in RunIds, chain[r] # <<>>, NEW answer, Complete(r, answer)
  PROVE  UNCHANGED Given
<1> DEFINE op == Head(chain[r])
<1>1. OpOK(r, op) /\ op \in Op
  BY HeadsOp
<1>2. CASE ~op.turn
  BY <1>2 DEF Complete, Given
<1>3. CASE op.turn
  <2>1. turn # None /\ turn \in Turn /\ turn.phase # "model"
    BY <1>1, <1>3 DEF OpOK, AwaitedOK, IInv, Types
  <2>2. turn' = IF op.kind = "ack" THEN [turn EXCEPT !.phase = "acked", !.answer = answer]
                                   ELSE [turn EXCEPT !.phase = "recovered", !.answer = "yes"]
    BY <1>3 DEF Complete
  <2>3. turn'.phase # "model"
    BY <2>1, <2>2 DEF Turn
  <2> QED BY <2>1, <2>3 DEF Given
<1> QED BY <1>1, <1>2, <1>3

LEMMA ReadMoves == ASSUME IInv, IInv', NEW r \in RunIds, Read(r) PROVE Delivery!Next
<1>1. UNCHANGED <<finished, reported, settled>> /\ chain[r] # <<>>
  BY DEF Read
<1>2. raced \subseteq raced'
  BY DEF Read
<1>3. UNCHANGED turn \/ \E answer : Complete(r, answer)
  BY DEF Read
<1>4. UNCHANGED Given
  BY <1>1, <1>3, CompleteGivesNothing DEF Given
<1> QED BY <1>1, <1>2, <1>4, MovesOnly

LEMMA WriteAcknowledges ==
  ASSUME IInv, IInv', NEW r \in RunIds, NEW landed \in BOOLEAN, NEW ok \in BOOLEAN, Write(r, landed, ok)
  PROVE  Delivery!Next
<1> DEFINE op == Head(chain[r])
<1>1. UNCHANGED <<finished, reported>> /\ chain[r] # <<>> /\ Complete(r, IF ok THEN "yes" ELSE "failed")
  BY DEF Write
<1>2. raced \subseteq raced'
  BY DEF Write
<1>3. settled' = IF ok /\ op.kind = "ack" THEN settled \cup {op.inst} ELSE settled
  BY DEF Write
<1>4. UNCHANGED Given
  BY <1>1, CompleteGivesNothing
<1>5. op \in Op /\ OpOK(r, op)
  BY <1>1, HeadsOp
<1>6. CASE op.kind = "ack" /\ ok
  <2>1. op.inst \in reported /\ op.inst \in Insts
    BY <1>5, <1>6, OpFields DEF OpOK
  <2>2. Delivery!Acknowledge(op.inst)
    BY <1>1, <1>3, <1>4, <1>6, <2>1 DEF Delivery!Acknowledge
  <2>3. Delivery!Kept'
    BY DueIsHeld
  <2> QED BY <1>2, <2>1, <2>2, <2>3 DEF Delivery!Next
<1>7. CASE ~(op.kind = "ack" /\ ok)
  <2>1. settled' = settled
    BY <1>3, <1>7
  <2> QED BY <1>1, <1>2, <1>4, <2>1, MovesOnly
<1> QED BY <1>6, <1>7

\* A turn that goes on after its acknowledgement was given nothing.
LEMMA LaterTurnMoves ==
  ASSUME IInv, IInv', AbortTurn \/ AckSettle \/ AckAborted \/ AckEnd
  PROVE  Delivery!Next
<1>1. UNCHANGED <<finished, reported, settled, raced>>
  BY DEF AbortTurn, AckSettle, AckAborted, AckEnd, hist
<1>2. turn \in Turn /\ turn.phase # "model"
  BY DEF AbortTurn, AckSettle, AckAborted, AckEnd, IInv, Types
<1>3. turn' = None \/ turn'.phase # "model"
  <2>1. CASE AbortTurn
    BY <1>2, <2>1 DEF AbortTurn, Turn
  <2>2. CASE AckSettle
    <3>1. turn' = [turn EXCEPT !.phase = "recovered"] \/ turn' = [turn EXCEPT !.phase = "recovering"]
      BY <2>2 DEF AckSettle
    <3> QED BY <1>2, <3>1 DEF Turn
  <2>3. CASE AckAborted \/ AckEnd
    BY <2>3 DEF AckAborted, AckEnd
  <2> QED BY <2>1, <2>2, <2>3
<1>4. UNCHANGED Given
  BY <1>2, <1>3 DEF Given
<1> QED BY <1>1, <1>4, MovesOnly

\* The live store, the requests of the renderer and the settle block move results.
LEMMA OthersMove ==
  ASSUME IInv, IInv',
         \/ SaveRunning \/ Cancel \/ HydratePending
         \/ \E ok \in BOOLEAN : InitialPersist(ok) \/ FinalFlush(ok)
         \/ \E r \in RunIds : ReconcileZombie(r)
         \/ \E t \in tails : SettleTail(t)
         \/ \E s \in failed : RetryPersist(s)
  PROVE  Delivery!Next
<1>1. UNCHANGED <<finished, reported, settled, turn>>
  BY DEF SaveRunning, Cancel, HydratePending, InitialPersist, FinalFlush, ReconcileZombie, SettleTail,
         RetryPersist, hist, mem
<1>2. raced \subseteq raced'
  BY DEF SaveRunning, Cancel, HydratePending, InitialPersist, FinalFlush, ReconcileZombie, SettleTail,
         RetryPersist, hist, StoreWrites, Race
<1>3. UNCHANGED Given
  BY <1>1 DEF Given
<1> QED BY <1>1, <1>2, <1>3, MovesOnly

\* A crash takes what only memory held.
LEMMA CrashStops == ASSUME IInv', Crash PROVE Delivery!Next
<1>1. UNCHANGED <<reported, settled, raced>> /\ turn' = None /\ finished' \subseteq finished
  BY DEF Crash
<1>2. Given' = {}
  BY <1>1 DEF Given
<1>3. Delivery!Kept'
  BY DueIsHeld
<1> QED BY <1>1, <1>2, <1>3 DEF Delivery!Next, Delivery!Stop

\* The notification delivers at least once: a result that is due can be found until
\* its turn has succeeded, only what was reported is acknowledged, and no turn is
\* given what is acknowledged on disk; through resumes, failing disks, crashes and
\* any order of the flag writers (the contract in the head of run-manager.ts).
THEOREM ImplementsDelivery == Spec => IsDelivery
<1>1. Init => Delivery!Init
  BY DEF Init, Delivery!Init, Held, Given
<1>2. IInv /\ IInv' /\ [Next]_vars => [Delivery!Next]_(Delivery!vars)
  <2> SUFFICES ASSUME IInv, IInv', [Next]_vars PROVE [Delivery!Next]_(Delivery!vars)
    OBVIOUS
  <2>1. CASE UNCHANGED vars
    BY <2>1 DEF vars, mem, hist, Delivery!vars, Held, Given, Findable
  <2>2. CASE Next
    <3>1. ASSUME NEW r \in RunIds, Launch(r) \/ Read(r) \/ ReconcileZombie(r) PROVE Delivery!Next
      BY <3>1, LaunchResumes, ReadMoves, OthersMove
    <3>2. ASSUME NEW r \in RunIds, NEW landed \in BOOLEAN, NEW ok \in BOOLEAN, Write(r, landed, ok)
          PROVE  Delivery!Next
      BY <3>2, WriteAcknowledges
    <3>3. CASE SaveRunning \/ Cancel \/ Settle
      BY <3>3, OthersMove, SettleFinishes
    <3>4. ASSUME NEW ok \in BOOLEAN, InitialPersist(ok) \/ FinalFlush(ok) PROVE Delivery!Next
      BY <3>4, OthersMove
    <3>5. ASSUME NEW t \in tails, SettleTail(t) PROVE Delivery!Next
      BY <3>5, OthersMove
    <3>6. ASSUME NEW s \in failed, RetryPersist(s) PROVE Delivery!Next
      BY <3>6, OthersMove
    <3>7. CASE HydratePending \/ TurnStart \/ AbortTurn \/ TurnStopped \/ TurnFailed
      BY <3>7, OthersMove, TurnIsGiven, LaterTurnMoves, TurnWithdraws
    <3>8. CASE AckStart \/ AckSettle \/ AckAborted \/ AckEnd
      BY <3>8, AckStartReports, LaterTurnMoves
    <3>9. CASE Crash
      BY <3>9, CrashStops
    <3> QED BY <2>2, <3>1, <3>2, <3>3, <3>4, <3>5, <3>6, <3>7, <3>8, <3>9 DEF Next
  <2> QED BY <2>1, <2>2
<1>3. Delivery!Init /\ [][Delivery!Next]_(Delivery!vars) => IsDelivery
  BY PTL DEF IsDelivery, Delivery!Spec
<1>4. Spec => [][Next]_vars
  BY PTL DEF Spec
<1>5. Spec => Delivery!Init
  BY <1>1, PTL DEF Spec
<1>6. Spec => [][Delivery!Next]_(Delivery!vars)
  BY <1>2, <1>4, NotifyInvariant, PTL
<1> QED BY <1>3, <1>5, <1>6, PTL
=============================================================================
