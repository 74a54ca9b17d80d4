---------------------- MODULE CheckpointerRegistry_proofs ----------------------
(***************************************************************************)
(* For any number of readers, runs, deletions and savers: one saver of a    *)
(* thread may write its file, nobody's saver is closed under him, and what  *)
(* a deleted thread had does not come back, unless the code makes a saver   *)
(* where it does not look (strays).                                         *)
(***************************************************************************)
EXTENDS CheckpointerRegistry, TLAPS

Typed ==
  /\ kind \in {"service", "ordinary"}
  /\ proc \in [Procs -> [pc : UserPcs, inst : Insts \cup {0}]]
  /\ pinned \subseteq Readers \cup {Beat} /\ pinWait \in BOOLEAN /\ running \in BOOLEAN
  /\ cache \in Insts \cup {0}
  /\ closing \in Insts \cup Closers \cup {NoClose} /\ closingInst \in Insts \cup {0}
  /\ retiring \in BOOLEAN
  /\ prev \in [Closers -> Insts \cup Closers \cup {NoClose}]
  /\ atCall \in [Closers -> Insts \cup {0}]
  /\ deleter \in [pc : {"idle", "prev", "retire"}, inst : Insts \cup {0}]
  /\ tomb \in BOOLEAN /\ deletes \in 0 .. MaxDeletes /\ epoch = deletes + 1
  /\ st \in [Insts -> {"none", "init", "open", "closing", "closed"}]
  /\ born \in [Insts -> 0 .. epoch] /\ data \in [Insts -> 0 .. epoch]
  /\ dirty \in [Insts -> BOOLEAN] /\ flight \in [Insts -> BOOLEAN] /\ poisoned \in [Insts -> BOOLEAN]
  /\ file \in 0 .. epoch /\ strays \subseteq Insts

\* Who holds a pin, and what the close of the service waits for.
Entitled == {"pinned", "init", "refused", "using"}
Pins ==
  /\ \A r \in Readers : r \in pinned <=> proc[r].pc \in Entitled
  /\ Beat \in pinned <=> proc[Beat].pc \in Entitled
  /\ running <=> proc[Beat].pc # "idle"
  /\ kind = "service" => proc[Run].pc = "idle"
  /\ kind = "ordinary" => proc[Beat].pc = "idle"
  /\ pinWait => pinned # {}
  /\ proc[Beat].pc = "pins" /\ ~pinWait => pinned = {}

\* What a user may count on of the saver he has.
Creates(p, i) == proc[p].pc \in {"init", "refused"} /\ proc[p].inst = i
Own ==
  /\ \A p \in Procs, i \in Insts : proc[p].inst = i =>
       /\ proc[p].pc = "init" => st[i] = "init"
       /\ proc[p].pc = "refused" => poisoned[i]
       /\ proc[p].pc = "using" => st[i] = "open" \/ poisoned[i]
       /\ proc[p].pc = "closing" => st[i] \in {"closing", "closed"}
  /\ \A p \in Procs : proc[p].pc \in {"init", "refused"} => proc[p].inst \in Insts
  /\ \A p, q \in Procs, i \in Insts : Creates(p, i) /\ Creates(q, i) => p = q
  /\ \A i \in Insts : st[i] = "init" => \E p \in Procs : proc[p].pc = "init" /\ proc[p].inst = i

\* The savers, and what the tables say of them: one that is being created is in none.
Life ==
  /\ \A i \in Insts :
       /\ st[i] = "none" => data[i] = 0 /\ ~dirty[i] /\ ~flight[i] /\ ~poisoned[i]
       /\ st[i] = "init" => ~poisoned[i]
       /\ st[i] = "closed" => ~flight[i]
       /\ st[i] = "none" => i # cache /\ i # closing /\ i # closingInst
       /\ closing = i => st[i] \in {"closing", "closed"}
       /\ cache = i => st[i] = "open" \/ poisoned[i]
  /\ \A p \in Procs, i \in Insts : Creates(p, i) => i # cache /\ i # closing /\ i # closingInst

\* Who is behind a promise is still at it.
Chans ==
  /\ retiring <=> deleter.pc # "idle"
  /\ deleter.pc = "retire" => cache = 0
  /\ closing = BeatClose \/ prev[Retirement] = BeatClose => proc[Beat].pc \in {"prev", "pins", "closing"}
  /\ closing = Retirement \/ prev[BeatClose] = Retirement => retiring
  /\ prev[BeatClose] # BeatClose

\* The saver named beside the promise will be cleared with it.
Named ==
  /\ closing = NoClose => closingInst = 0
  /\ closing \in Insts => closingInst \in {0, closing}
  /\ closing = BeatClose => atCall[BeatClose] = 0 \/ closingInst \in {0, atCall[BeatClose]}
  /\ closing = Retirement => closingInst \in {0, atCall[Retirement]}

\* What a deletion leaves: until the service revives the thread nobody gets a
\* saver, and it only revives it before it has one.
Buried ==
  /\ tomb /\ cache # 0 => retiring
  /\ cache # 0 /\ ~retiring => ~poisoned[cache]
  /\ proc[Beat].pc = "init" /\ ~tomb => born[proc[Beat].inst] = epoch
  /\ retiring /\ ~tomb => proc[Beat].pc = "pinned"
  /\ proc[Beat].pc = "refused" => tomb
  /\ retiring => \A i \in Insts : st[i] = "init" => born[i] < epoch

Shape == Typed /\ Pins /\ Own /\ Life /\ Chans /\ Named /\ Buried

\* Who may write the file and will not be refused.
Writer(i) == CanWrite(i) /\ i \notin Overtaken
Coming == \E i \in Insts : st[i] = "init" /\ i \notin Overtaken

\* The closes and retirements wait for everybody who may write, and so do those
\* who ask for a saver.
Held ==
  \A i \in Insts : Writer(i) =>
    /\ ~retiring => \/ i = cache \/ i = closing \/ st[i] = "init"
                    \/ closing = BeatClose /\ proc[Beat] = [pc |-> "closing", inst |-> i] /\ pinned = {}
    /\ deleter.pc = "prev" =>
         \/ i = atCall[Retirement] \/ i = prev[Retirement]
         \/ prev[Retirement] = BeatClose /\ proc[Beat] = [pc |-> "closing", inst |-> i]
    /\ deleter.pc = "retire" => i = deleter.inst

\* While a saver is evicted nobody has another one.
Evicted ==
  /\ closing \in Insts => cache = 0 /\ ~Coming /\ proc[Beat].pc \notin {"init", "refused", "using"}
  /\ prev[BeatClose] \notin Insts

\* The saver of the service is cached from its creation until its close takes it.
Served ==
  /\ proc[Beat].pc = "using" /\ ~tomb => cache # 0
  /\ proc[Beat].pc \in {"prev", "pins"} /\ ~retiring /\ ~tomb =>
       \/ cache # 0 /\ closing = BeatClose /\ closingInst = cache /\ atCall[BeatClose] = cache
       \/ cache = 0 /\ pinned = {} /\ ~Coming
  /\ proc[Beat].pc = "closing" /\ closing = BeatClose /\ ~retiring /\ ~tomb => cache = 0 /\ pinned = {}

\* What is on disk, or will be, is of this incarnation or will be swept.
Swept ==
  deleter.pc = "idle" =>
    /\ file \in {0, epoch} \/ \E i \in Overtaken : data[i] = file
    /\ \A i \in Insts : Writer(i) => data[i] \in {0, epoch}

Looked == OneSaverPerFile /\ (strays = {} => Held /\ Evicted /\ Served /\ Swept)
IInv == Shape /\ Looked

-----------------------------------------------------------------------------
\* The promises are told apart from each other and from those of evictions.
LEMMA Promises ==
  /\ NoClose \notin Insts /\ BeatClose \notin Insts /\ Retirement \notin Insts
  /\ NoClose # BeatClose /\ NoClose # Retirement /\ BeatClose # Retirement
  /\ Closers = {BeatClose, Retirement} /\ NoClose = 0
BY RegistryAssumption DEF Insts, NoClose, BeatClose, Retirement, Closers

\* Who uses the saver: readers, the service, the run of an ordinary thread.
LEMMA Users ==
  /\ Beat \in Procs /\ Run \in Procs /\ Beat # Run
  /\ \A r \in Readers : r \in Procs /\ r # Beat /\ r # Run
  /\ \A p \in Procs : p \in Readers \/ p = Beat \/ p = Run
BY RegistryAssumption DEF Procs, Beat, Run

\* At the start there is no saver and the file holds the first incarnation.
LEMMA InitIInv == Init => IInv
<1> SUFFICES ASSUME Init PROVE IInv
  OBVIOUS
<1> USE Promises, Users DEF Init
<1>1. Typed
  <2>1. /\ epoch = deletes + 1 /\ deletes \in 0 .. MaxDeletes /\ file \in 0 .. epoch
        /\ 0 \in 0 .. epoch
    BY RegistryAssumption
  <2>2. /\ proc \in [Procs -> [pc : UserPcs, inst : Insts \cup {0}]]
        /\ deleter \in [pc : {"idle", "prev", "retire"}, inst : Insts \cup {0}]
    BY DEF Idle, UserPcs
  <2> QED BY <2>1, <2>2 DEF Typed
<1>2. Pins /\ Own /\ Life /\ Chans /\ Named /\ Buried
  BY <1>1 DEF Typed, Pins, Own, Life, Chans, Named, Buried, Idle, Entitled, Creates, Closers
<1>3. \A i \in Insts : ~CanWrite(i)
  BY <1>1 DEF Typed, CanWrite
<1>4. OneSaverPerFile /\ Held
  BY <1>3 DEF OneSaverPerFile, Held, Writer
<1>5. Evicted /\ Served /\ Swept
  BY <1>3 DEF Evicted, Served, Swept, Writer, Idle
<1> QED BY <1>1, <1>2, <1>4, <1>5 DEF IInv, Shape, Looked

\* The state after a step of one user.
LEMMA Moved ==
  ASSUME Typed, NEW p \in Procs, NEW c \in UserPcs, NEW i \in Insts \cup {0}, To(p, c, i)
  PROVE  /\ proc' \in [Procs -> [pc : UserPcs, inst : Insts \cup {0}]]
         /\ proc'[p].pc = c /\ proc'[p].inst = i
         /\ \A q \in Procs : q # p => proc'[q] = proc[q]
BY DEF Typed, To

\* Nobody else's creation is touched by it.
LEMMA OthersCreate ==
  ASSUME Typed, NEW p \in Procs, NEW c \in UserPcs, NEW i \in Insts \cup {0}, To(p, c, i)
  PROVE  /\ \A q \in Procs, j \in Insts : q # p => (Creates(q, j)' <=> Creates(q, j))
         /\ \A j \in Insts : Creates(p, j)' <=> c \in {"init", "refused"} /\ j = i
BY Moved DEF Creates

\* close() of an open saver.
LEMMA ClosedSays ==
  ASSUME Typed, NEW k
  PROVE  /\ Closed(k) \in [Insts -> {"none", "init", "open", "closing", "closed"}]
         /\ \A j \in Insts : Closed(k)[j] = IF j = k /\ st[j] = "open" THEN "closing" ELSE st[j]
BY DEF Typed, Closed

\* What retire() marks.
LEMMA PoisonSays ==
  ASSUME Typed, NEW S, Poison(S)
  PROVE  /\ poisoned' \in [Insts -> BOOLEAN]
         /\ \A j \in Insts : poisoned'[j] <=> poisoned[j] \/ j \in S
BY DEF Typed, Poison

\* The background save takes a snapshot.
LEMMA WriteStartsShape ==
  ASSUME Shape, NEW i \in Insts, WriteStarts(i)
  PROVE  Shape'
<1> USE Promises, Users DEF Shape, Typed, WriteStarts, users, chans, deletion, savers, counts
<1>1. Typed'
  BY RegistryAssumption
<1>2. Pins'
  BY DEF Pins
<1>3. Own'
  BY DEF Own, Creates
<1>4. Life'
  BY DEF Life, Creates, MaySave
<1>5. Chans'
  BY DEF Chans
<1>6. Named'
  BY DEF Named
<1>7. Buried'
  BY DEF Buried
<1> QED BY <1>1, <1>2, <1>3, <1>4, <1>5, <1>6, <1>7

\* A write reaches the disk.
LEMMA WriteLandsShape ==
  ASSUME Shape, NEW i \in Insts, WriteLands(i)
  PROVE  Shape'
<1> USE Promises, Users DEF Shape, Typed, WriteLands, users, chans, deletion, savers, counts
<1>1. Typed'
  BY RegistryAssumption
<1>2. Pins'
  BY DEF Pins
<1>3. Own'
  BY DEF Own, Creates
<1>4. Life'
  BY DEF Life, Creates
<1>5. Chans'
  BY DEF Chans
<1>6. Named'
  BY DEF Named
<1>7. Buried'
  BY DEF Buried
<1> QED BY <1>1, <1>2, <1>3, <1>4, <1>5, <1>6, <1>7

\* The end of close() and retire().
LEMMA SaverClosesShape ==
  ASSUME Shape, NEW i \in Insts, SaverCloses(i)
  PROVE  Shape'
<1> USE Promises, Users DEF Shape, Typed, SaverCloses, users, chans, deletion, savers, counts
<1>1. Typed'
  BY RegistryAssumption
<1>2. Pins'
  BY DEF Pins
<1>3. Own'
  BY DEF Own, Creates, MayClose
<1>4. Life'
  BY DEF Life, Creates, MayClose
<1>5. Chans'
  BY DEF Chans
<1>6. Named'
  BY DEF Named
<1>7. Buried'
  BY DEF Buried
<1> QED BY <1>1, <1>2, <1>3, <1>4, <1>5, <1>6, <1>7

\* The promise of an eviction settles.
LEMMA EvictReturnsShape ==
  ASSUME Shape, NEW i \in Insts, EvictReturns(i)
  PROVE  Shape'
<1> USE Promises, Users DEF Shape, Typed, EvictReturns, Settle, users, chans, deletion, savers, counts
<1>1. Typed'
  BY RegistryAssumption
<1>2. Pins'
  BY DEF Pins
<1>3. Own'
  BY DEF Own, Creates
<1>4. Life'
  BY DEF Life, Creates
<1>5. Chans'
  BY DEF Chans
<1>6. Named'
  BY DEF Named
<1>7. Buried'
  BY DEF Buried
<1> QED BY <1>1, <1>2, <1>3, <1>4, <1>5, <1>6, <1>7

\* A user changes something.
LEMMA ChangeShape ==
  ASSUME Shape, NEW p \in Procs, Change(p)
  PROVE  Shape'
<1> USE Promises, Users DEF Shape, Typed, Change, users, chans, deletion, savers, counts
<1>1. Typed'
  BY RegistryAssumption
<1>2. Pins'
  BY DEF Pins
<1>3. Own'
  BY DEF Own, Creates
<1>4. Life'
  BY DEF Life, Creates
<1>5. Chans'
  BY DEF Chans
<1>6. Named'
  BY DEF Named
<1>7. Buried'
  BY DEF Buried
<1> QED BY <1>1, <1>2, <1>3, <1>4, <1>5, <1>6, <1>7

\* withCheckpointer is called.
LEMMA ReadAsksShape ==
  ASSUME Shape, NEW r \in Readers, ReadAsks(r)
  PROVE  Shape'
<1> USE Promises, Users DEF Shape, Typed, ReadAsks, To, users, chans, deletion, savers, counts
<1>1. Typed'
  BY RegistryAssumption DEF UserPcs
<1>2. Pins'
  BY DEF Pins, Entitled
<1>3. Own'
  BY DEF Own, Creates
<1>4. Life'
  BY DEF Life, Creates
<1>5. Chans'
  BY DEF Chans
<1>6. Named'
  BY DEF Named
<1>7. Buried'
  BY DEF Buried
<1> QED BY <1>1, <1>2, <1>3, <1>4, <1>5, <1>6, <1>7

\* A reader gives his pin back.
LEMMA ReadEndsShape ==
  ASSUME Shape, NEW r \in Readers, ReadEnds(r)
  PROVE  Shape'
<1> USE Promises, Users DEF Shape, Typed, ReadEnds, To, Unpin, users, chans, deletion, savers, counts
<1>1. Typed'
  BY RegistryAssumption DEF UserPcs
<1>2. Pins'
  BY DEF Pins, Entitled
<1>3. Own'
  BY DEF Own, Creates
<1>4. Life'
  BY DEF Life, Creates
<1>5. Chans'
  BY DEF Chans
<1>6. Named'
  BY DEF Named
<1>7. Buried'
  BY DEF Buried
<1> QED BY <1>1, <1>2, <1>3, <1>4, <1>5, <1>6, <1>7

\* The run of an ordinary thread ends.
LEMMA RunEndsShape ==
  ASSUME Shape, RunEnds
  PROVE  Shape'
<1> USE Promises, Users DEF Shape, Typed, RunEnds, To, users, chans, deletion, savers, counts
<1>1. Typed'
  BY RegistryAssumption DEF UserPcs
<1>2. Pins'
  BY DEF Pins
<1>3. Own'
  BY DEF Own, Creates
<1>4. Life'
  BY DEF Life, Creates
<1>5. Chans'
  BY DEF Chans
<1>6. Named'
  BY DEF Named
<1>7. Buried'
  BY DEF Buried
<1> QED BY <1>1, <1>2, <1>3, <1>4, <1>5, <1>6, <1>7

\* The service unpins and registers its close.
LEMMA BeatClosesShape ==
  ASSUME Shape, BeatCloses
  PROVE  Shape'
<1> USE Promises, Users DEF Shape, Typed, BeatCloses, To, Unpin, users, chans, deletion, savers, counts
<1>1. Typed'
  BY RegistryAssumption DEF UserPcs
<1>2. Pins'
  BY DEF Pins, Entitled
<1>3. Own'
  BY DEF Own, Creates
<1>4. Life'
  BY DEF Life, Creates
<1>5. Chans'
  BY DEF Chans
<1>6. Named'
  BY DEF Named
<1>7. Buried'
  BY DEF Buried
<1> QED BY <1>1, <1>2, <1>3, <1>4, <1>5, <1>6, <1>7

\* Its close waits for the pins.
LEMMA BeatAwaitsPinsShape ==
  ASSUME Shape, BeatAwaitsPins
  PROVE  Shape'
<1> USE Promises, Users DEF Shape, Typed, BeatAwaitsPins, To, users, chans, deletion, savers, counts
<1>1. Typed'
  BY RegistryAssumption DEF UserPcs
<1>2. Pins'
  BY DEF Pins, Entitled
<1>3. Own'
  BY DEF Own, Creates
<1>4. Life'
  BY DEF Life, Creates
<1>5. Chans'
  BY DEF Chans
<1>6. Named'
  BY DEF Named
<1>7. Buried'
  BY DEF Buried
<1> QED BY <1>1, <1>2, <1>3, <1>4, <1>5, <1>6, <1>7

\* It takes the cached saver and closes it.
LEMMA BeatTakesShape ==
  ASSUME Shape, BeatTakes
  PROVE  Shape'
<1> USE Promises, Users DEF Shape, Typed, BeatTakes, To, Closed, users, chans, deletion, savers, counts
<1>1. Typed'
  BY RegistryAssumption DEF UserPcs
<1>2. Pins'
  BY DEF Pins, Entitled
<1>3. Own'
  BY DEF Pins, Entitled, Own, Life, Creates, Resumes
<1>4. Life'
  BY DEF Life, Creates
<1>5. Chans'
  BY DEF Chans
<1>6. Named'
  BY DEF Named
<1>7. Buried'
  BY DEF Buried
<1> QED BY <1>1, <1>2, <1>3, <1>4, <1>5, <1>6, <1>7

\* Its promise settles.
LEMMA BeatReturnsShape ==
  ASSUME Shape, BeatReturns
  PROVE  Shape'
<1> USE Promises, Users
      DEF Shape, Typed, BeatReturns, To, Settle, IsOver, users, chans, deletion, savers, counts
<1>1. Typed'
  BY RegistryAssumption DEF UserPcs
<1>2. Pins'
  BY DEF Pins, Entitled
<1>3. Own'
  BY DEF Own, Creates
<1>4. Life'
  BY DEF Life, Creates
<1>5. Chans'
  BY DEF Chans
<1>6. Named'
  BY DEF Named
<1>7. Buried'
  BY DEF Buried
<1> QED BY <1>1, <1>2, <1>3, <1>4, <1>5, <1>6, <1>7

\* The LRU drops the idle saver.
LEMMA EvictShape ==
  ASSUME Shape, Evict
  PROVE  Shape'
<1> USE Promises, Users DEF Shape, Typed, Evict, Closed, Busy, users, chans, deletion, savers, counts
<1>1. Typed'
  BY RegistryAssumption
<1>2. Pins'
  BY DEF Pins
<1>3. Own'
  BY DEF Pins, Entitled, Own, Creates
<1>4. Life'
  BY DEF Life, Creates
<1>5. Chans'
  BY DEF Chans
<1>6. Named'
  BY DEF Named
<1>7. Buried'
  BY DEF Buried
<1> QED BY <1>1, <1>2, <1>3, <1>4, <1>5, <1>6, <1>7

\* The retirement takes what is cached after its waits.
LEMMA DeleteTakesShape ==
  ASSUME Shape, DeleteTakes
  PROVE  Shape'
<1> USE Promises, Users
      DEF Shape, Typed, DeleteTakes, RetireCached, Closed, Poison, users, chans, deletion, savers, counts
<1>1. Typed'
  BY RegistryAssumption
<1>2. Pins'
  BY DEF Pins
<1>3. Own'
  BY DEF Pins, Own, Creates, Chans, Buried
<1>4. Life'
  BY DEF Life, Creates
<1>5. Chans'
  BY DEF Chans
<1>6. Named'
  BY DEF Named
<1>7. Buried'
  BY DEF Buried
<1> QED BY <1>1, <1>2, <1>3, <1>4, <1>5, <1>6, <1>7

\* initialize reads the file.
LEMMA InitReadsShape ==
  ASSUME Shape, NEW p \in Procs, InitReads(p)
  PROVE  Shape'
<1> USE Promises, Users DEF Shape, Typed, InitReads, users, chans, deletion, savers, counts
<1>0. PICK i \in Insts : i = proc[p].inst
  BY DEF Own
<1>1. Typed'
  <2>1. data' \in [Insts -> 0 .. epoch]
    BY <1>0
  <2>2. flight' \in [Insts -> BOOLEAN]
    BY <1>0
  <2>3. strays' \subseteq Insts
    BY <1>0
  <2> QED BY <2>1, <2>2, <2>3
<1>2. Pins'
  BY DEF Pins, Entitled
<1>3. Own'
  BY DEF Pins, Entitled, Own, Life, Creates, Chans, Buried
<1>4. Life'
  BY DEF Pins, Own, Life, Chans, Creates, Entitled, Named
<1>5. Chans' /\ Named'
  BY DEF Chans, Named
<1>7. Buried'
  BY DEF Buried, Pins, Own, Life, Chans, Entitled, Creates
<1> QED BY <1>1, <1>2, <1>3, <1>4, <1>5, <1>7

\* It is through: the creator is refused, or has the new saver, which is cached.
LEMMA InitDoneShape ==
  ASSUME Shape, NEW p \in Procs, InitDone(p)
  PROVE  Shape'
<1> USE Promises, Users DEF Shape, users, chans, deletion, savers, counts
<1>0. PICK i \in Insts : i = proc[p].inst
  BY DEF InitDone, Own
<1>1. /\ proc[p].pc = "init" /\ st[i] = "init" /\ data[i] # 0 /\ ~flight[i]
      /\ UNCHANGED <<kind, pinned, pinWait, running, chans, deletion, born, data, flight, file, strays, counts>>
  BY <1>0 DEF InitDone, Own, Resumes
<1>2. CASE tomb \/ epoch # born[i]
  <2>1. To(p, "refused", i) /\ st' = [st EXCEPT ![i] = "closing"] /\ Poison({i}) /\ UNCHANGED <<cache, dirty>>
    BY <1>0, <1>2 DEF InitDone
  <2>2. /\ st' \in [Insts -> {"none", "init", "open", "closing", "closed"}]
        /\ st'[i] = "closing" /\ \A j \in Insts : j # i => st'[j] = st[j]
    BY <2>1 DEF Typed
  <2>3. /\ poisoned' \in [Insts -> BOOLEAN] /\ \A j \in Insts : poisoned'[j] <=> poisoned[j] \/ j = i
    BY <2>1, PoisonSays
  <2>4. /\ proc' \in [Procs -> [pc : UserPcs, inst : Insts \cup {0}]]
        /\ proc'[p].pc = "refused" /\ proc'[p].inst = i /\ \A q \in Procs : q # p => proc'[q] = proc[q]
    BY <2>1, Moved DEF UserPcs
  <2>5. Typed'
    BY <1>1, <2>1, <2>2, <2>3, <2>4 DEF Typed
  <2>6. Pins'
    BY <1>1, <2>4 DEF Pins, Entitled
  <2>7. \A q \in Procs, j \in Insts : Creates(q, j)' <=> Creates(q, j)
    BY <1>0, <1>1, <2>4 DEF Creates
  <2>8. Own'
    <3>1. \A j \in Insts : st'[j] = "init" => \E q \in Procs : proc'[q].pc = "init" /\ proc'[q].inst = j
      <4> SUFFICES ASSUME NEW j \in Insts, st'[j] = "init"
                   PROVE  \E q \in Procs : proc'[q].pc = "init" /\ proc'[q].inst = j
        OBVIOUS
      <4>1. j # i /\ st[j] = "init"
        BY <2>2
      <4>2. PICK q \in Procs : proc[q].pc = "init" /\ proc[q].inst = j
        BY <4>1 DEF Own
      <4> QED BY <1>0, <2>4, <4>1, <4>2
    <3>2. \A q \in Procs : proc'[q].pc \in {"init", "refused"} => proc'[q].inst \in Insts
      BY <2>4 DEF Own
    <3>3. \A q, o \in Procs, j \in Insts : Creates(q, j)' /\ Creates(o, j)' => q = o
      BY <2>7 DEF Own
    <3>4. \A q \in Procs, j \in Insts : proc'[q].inst = j =>
            /\ proc'[q].pc = "init" => st'[j] = "init"
            /\ proc'[q].pc = "refused" => poisoned'[j]
            /\ proc'[q].pc = "using" => st'[j] = "open" \/ poisoned'[j]
            /\ proc'[q].pc = "closing" => st'[j] \in {"closing", "closed"}
      BY <1>0, <1>1, <2>2, <2>3, <2>4 DEF Own, Creates
    <3> QED BY <3>1, <3>2, <3>3, <3>4 DEF Own
  <2>9. Life'
    BY <1>1, <2>1, <2>2, <2>3, <2>7 DEF Life, Typed
  <2>10. Chans' /\ Named'
    BY <1>1, <2>1, <2>4 DEF Chans, Named
  <2>11. Buried'
    BY <1>0, <1>1, <1>2, <2>1, <2>2, <2>3, <2>4 DEF Buried, Life, Creates, Typed
  <2> QED BY <2>5, <2>6, <2>8, <2>9, <2>10, <2>11
<1>3. CASE ~(tomb \/ epoch # born[i])
  <2>1. /\ To(p, "using", i) /\ st' = [st EXCEPT ![i] = "open"]
        /\ cache' = i /\ dirty' = [dirty EXCEPT ![i] = TRUE] /\ poisoned' = poisoned
    BY <1>0, <1>3 DEF InitDone
  <2>2. /\ st' \in [Insts -> {"none", "init", "open", "closing", "closed"}]
        /\ st'[i] = "open" /\ \A j \in Insts : j # i => st'[j] = st[j]
    BY <2>1 DEF Typed
  <2>3. dirty' \in [Insts -> BOOLEAN] /\ \A j \in Insts : j # i => dirty'[j] = dirty[j]
    BY <2>1 DEF Typed
  <2>4. /\ proc' \in [Procs -> [pc : UserPcs, inst : Insts \cup {0}]]
        /\ proc'[p].pc = "using" /\ proc'[p].inst = i /\ \A q \in Procs : q # p => proc'[q] = proc[q]
    BY <2>1, Moved DEF UserPcs
  <2>5. Typed'
    BY <1>1, <2>1, <2>2, <2>3, <2>4 DEF Typed
  <2>6. Pins'
    BY <1>1, <2>4 DEF Pins, Entitled
  <2>7. \A q \in Procs, j \in Insts : Creates(q, j)' <=> Creates(q, j) /\ j # i
    BY <1>0, <1>1, <2>4 DEF Creates, Own
  <2>8. Own'
    BY <1>0, <1>1, <2>1, <2>2, <2>4, <2>7 DEF Own, Creates
  <2>9. Life'
    BY <1>0, <1>1, <2>1, <2>2, <2>3, <2>7 DEF Life, Creates
  <2>10. Chans' /\ Named'
    BY <1>0, <1>1, <1>3, <2>1, <2>4 DEF Chans, Named, Buried, Typed
  <2>11. Buried'
    BY <1>0, <1>1, <1>3, <2>1, <2>2, <2>4 DEF Buried, Life, Creates, Typed
  <2> QED BY <2>5, <2>6, <2>8, <2>9, <2>10, <2>11
<1> QED BY <1>2, <1>3

\* A refused creation is over.
LEMMA RefusedShape ==
  ASSUME Shape, NEW p \in Procs, Refused(p)
  PROVE  Shape'
<1> USE Promises, Users DEF Shape, Refused, users, chans, deletion, savers, counts
<1>0. proc[p].inst \in Insts /\ To(p, "using", 0)
  BY DEF Own
<1>1. Typed'
  <2>1. strays' \subseteq Insts /\ file' \in 0 .. epoch
    BY <1>0 DEF Typed
  <2> QED BY <2>1, <1>0, Moved DEF Typed, UserPcs
<1>2. Pins'
  BY <1>0, Moved DEF Pins, Entitled, UserPcs
<1>3. Own'
  <2>1. \A j \in Insts : ~Creates(p, j)'
    BY <1>0, OthersCreate DEF UserPcs
  <2>2. \A q \in Procs, j \in Insts : Creates(q, j)' => Creates(q, j)
    BY <2>1, <1>0, OthersCreate DEF UserPcs
  <2>3. \A j \in Insts : st[j] = "init" => \E q \in Procs : q # p /\ proc[q].pc = "init" /\ proc[q].inst = j
    BY DEF Own
  <2> QED BY <2>2, <2>3, <1>0, Moved, <1>1 DEF Own, UserPcs
<1>4. Life'
  BY <1>0, Moved DEF Life, Creates, UserPcs
<1>5. Chans' /\ Named'
  BY <1>0, Moved DEF Chans, Named, UserPcs
<1>7. Buried'
  BY <1>0, Moved DEF Buried, UserPcs
<1> QED BY <1>1, <1>2, <1>3, <1>4, <1>5, <1>7

\* A deletion: the tombstone, and what is being closed or cached is retired.
LEMMA DeleteStartsShape ==
  ASSUME Shape, DeleteStarts
  PROVE  Shape'
<1> USE Promises, Users DEF Shape, users, chans, deletion, savers, counts
<1> DEFINE x == deleter'.inst
<1>1. /\ epoch' = epoch + 1 /\ deletes' = deletes + 1 /\ deletes < MaxDeletes /\ tomb' = TRUE
      /\ prev' = [prev EXCEPT ![Retirement] = closing]
      /\ atCall' = [atCall EXCEPT ![Retirement] = closingInst]
      /\ closing' = Retirement /\ retiring' = TRUE /\ deleter.pc = "idle"
      /\ UNCHANGED <<users, closingInst, born, data, dirty, flight, file, strays>>
  BY DEF DeleteStarts
<1>2. PICK k \in Insts \cup {0} :
        /\ \/ closing = NoClose /\ closingInst = 0 /\ k = cache /\ cache' = 0
              /\ deleter' = [pc |-> "retire", inst |-> cache]
           \/ ~(closing = NoClose /\ closingInst = 0) /\ k = closingInst /\ cache' = cache
              /\ deleter' = [pc |-> "prev", inst |-> 0]
        /\ /\ st' \in [Insts -> {"none", "init", "open", "closing", "closed"}]
           /\ \A j \in Insts : st'[j] = IF j = k /\ st[j] = "open" THEN "closing" ELSE st[j]
        /\ /\ poisoned' \in [Insts -> BOOLEAN]
           /\ \A j \in Insts : poisoned'[j] <=> poisoned[j] \/ j = k
  <2>1. CASE closing = NoClose /\ closingInst = 0
    <3>1. RetireCached
      BY <2>1 DEF DeleteStarts
    <3>2. Poison({cache}) /\ st' = (IF cache = 0 THEN st ELSE Closed(cache))
      BY <3>1 DEF RetireCached
    <3>3. cache \in Insts \cup {0} /\ st \in [Insts -> {"none", "init", "open", "closing", "closed"}]
      BY DEF Typed
    <3>4. /\ st' \in [Insts -> {"none", "init", "open", "closing", "closed"}]
          /\ \A j \in Insts : st'[j] = IF j = cache /\ st[j] = "open" THEN "closing" ELSE st[j]
      BY <3>2, <3>3, ClosedSays
    <3>5. /\ poisoned' \in [Insts -> BOOLEAN]
          /\ \A j \in Insts : poisoned'[j] <=> poisoned[j] \/ j = cache
      BY <3>2, PoisonSays
    <3> QED BY <2>1, <3>1, <3>3, <3>4, <3>5 DEF RetireCached
  <2>2. CASE ~(closing = NoClose /\ closingInst = 0)
    <3>1. /\ deleter' = [pc |-> "prev", inst |-> 0] /\ UNCHANGED cache /\ Poison({closingInst})
          /\ st' = IF closingInst = 0 THEN st ELSE Closed(closingInst)
      BY <2>2 DEF DeleteStarts
    <3>2. closingInst \in Insts \cup {0} /\ st \in [Insts -> {"none", "init", "open", "closing", "closed"}]
      BY DEF Typed
    <3>3. /\ st' \in [Insts -> {"none", "init", "open", "closing", "closed"}]
          /\ \A j \in Insts : st'[j] = IF j = closingInst /\ st[j] = "open" THEN "closing" ELSE st[j]
      BY <3>1, <3>2, ClosedSays
    <3>4. /\ poisoned' \in [Insts -> BOOLEAN]
          /\ \A j \in Insts : poisoned'[j] <=> poisoned[j] \/ j = closingInst
      BY <3>1, PoisonSays
    <3> QED BY <2>2, <3>1, <3>2, <3>3, <3>4
  <2> QED BY <2>1, <2>2
<1>3. Typed'
  <2>1. epoch' = deletes' + 1 /\ deletes' \in 0 .. MaxDeletes
    BY <1>1, RegistryAssumption DEF Typed
  <2>2. 0 .. epoch \subseteq 0 .. epoch'
    BY <1>1 DEF Typed
  <2>3. born' \in [Insts -> 0 .. epoch'] /\ data' \in [Insts -> 0 .. epoch'] /\ file' \in 0 .. epoch'
    BY <1>1, <2>2 DEF Typed
  <2>4. st' \in [Insts -> {"none", "init", "open", "closing", "closed"}] /\ poisoned' \in [Insts -> BOOLEAN]
    BY <1>2 DEF Typed
  <2>5. /\ prev' \in [Closers -> Insts \cup Closers \cup {NoClose}] /\ atCall' \in [Closers -> Insts \cup {0}]
        /\ deleter' \in [pc : {"idle", "prev", "retire"}, inst : Insts \cup {0}] /\ cache' \in Insts \cup {0}
    BY <1>1, <1>2 DEF Typed
  <2> QED BY <1>1, <2>1, <2>3, <2>4, <2>5 DEF Typed
<1>4. Pins'
  BY <1>1 DEF Pins, Entitled
<1>5. Own'
  BY <1>1, <1>2 DEF Own, Creates, Life, Typed
<1>6. Life'
  BY <1>1, <1>2 DEF Own, Creates, Life, Typed
<1>7. Chans' /\ Named'
  BY <1>1, <1>2 DEF Chans, Named, Typed
<1>8. Buried'
  BY <1>1, <1>2 DEF Buried, Own, Life, Typed, Chans
<1> QED BY <1>3, <1>4, <1>5, <1>6, <1>7, <1>8

\* The files are swept and the channels cleared.
LEMMA DeleteReturnsShape ==
  ASSUME Shape, DeleteReturns
  PROVE  Shape'
<1> USE Promises, Users
      DEF Shape, Typed, DeleteReturns, Settle, IsOver, Idle, users, chans, deletion, savers, counts
<1>1. Typed'
  <2>1. prev' \in [Closers -> Insts \cup Closers \cup {NoClose}]
    OBVIOUS
  <2>2. file' \in 0 .. epoch
    BY RegistryAssumption
  <2> QED BY <2>1, <2>2
<1>2. Pins'
  BY DEF Pins, Entitled
<1>3. Own' /\ Life'
  BY DEF Own, Life, Creates
<1>5. Chans' /\ Named'
  BY DEF Pins, Chans, Named
<1>7. Buried'
  BY DEF Buried, Own, Life, Chans
<1> QED BY <1>1, <1>2, <1>3, <1>5, <1>7

\* A user asks for a saver: who may, and what it leaves alone.
Turn(p) ==
  /\ \/ proc[p].pc = "pinned" /\ UNCHANGED <<pinned, tomb, running>>
     \/ /\ p \in Readers /\ proc[p].pc = "asks" /\ closing = NoClose /\ ~tomb /\ ~Due
        /\ pinned' = pinned \cup {p} /\ UNCHANGED <<tomb, running>>
     \/ /\ p = Run /\ kind = "ordinary" /\ proc[p].pc = "idle" /\ ~tomb /\ ~Due
        /\ UNCHANGED <<pinned, tomb, running>>
     \/ /\ p = Beat /\ kind = "service" /\ ~running /\ ~Due
        /\ pinned' = pinned \cup {p} /\ tomb' = FALSE /\ running' = TRUE
  /\ UNCHANGED <<kind, pinWait, cache, chans, deleter, epoch, file, deletes>>

\* He waits for a close or a retirement, shares the cached saver, or makes one.
Waits(p) == Turn(p) /\ ~MayGet(pinned') /\ To(p, "pinned", 0) /\ UNCHANGED <<savers, strays>>
Joins(p) == Turn(p) /\ MayGet(pinned') /\ cache # 0 /\ To(p, "using", cache) /\ UNCHANGED <<savers, strays>>
Makes(p, i) ==
  /\ Turn(p) /\ MayGet(pinned') /\ cache = 0 /\ To(p, "init", i) /\ st[i] = "none"
  /\ st' = [st EXCEPT ![i] = "init"] /\ born' = [born EXCEPT ![i] = epoch]
  /\ strays' = strays \cup (IF Beside = {} THEN {} ELSE Beside \cup {i})
  /\ UNCHANGED <<data, dirty, flight, poisoned>>
Asks(p) == Waits(p) \/ Joins(p) \/ \E i \in Insts : Makes(p, i)

\* Whoever gets a saver, at once or after a wait, asks in one of these ways.
LEMMA StartsAsk ==
  ASSUME Shape
  PROVE  /\ \A p \in Procs : Get(p) => Asks(p)
         /\ \A r \in Readers : ReadPins(r) /\ ~tomb => Asks(r)
         /\ RunStarts => Asks(Run)
         /\ BeatStarts => Asks(Beat)
<1> USE DEF users, chans, deletion, savers, counts
<1>1. ASSUME NEW p \in Procs, Turn(p), MayGet(pinned'), Obtain(p) PROVE Asks(p)
  BY <1>1 DEF Obtain, Asks, Joins, Makes
<1>2. ASSUME NEW p \in Procs, Turn(p), GetSaver(p, pinned') PROVE Asks(p)
  <2>1. CASE MayGet(pinned')
    BY <2>1, <1>1, <1>2 DEF GetSaver
  <2>2. CASE ~MayGet(pinned')
    BY <2>2, <1>2 DEF GetSaver, Asks, Waits
  <2> QED BY <2>1, <2>2
<1>3. ASSUME NEW p \in Procs, Get(p) PROVE Asks(p)
  <2>1. Turn(p) /\ MayGet(pinned') /\ Obtain(p)
    BY <1>3 DEF Get, Turn, MayGet, Resumes
  <2> QED BY <2>1, <1>1
<1>4. ASSUME NEW r \in Readers, ReadPins(r), ~tomb PROVE Asks(r)
  <2>1. Turn(r) /\ GetSaver(r, pinned')
    BY <1>4 DEF ReadPins, Turn, Resumes
  <2> QED BY <2>1, <1>2, Users
<1>5. ASSUME RunStarts PROVE Asks(Run)
  <2>1. Turn(Run) /\ GetSaver(Run, pinned')
    BY <1>5 DEF RunStarts, Turn, Quiet
  <2> QED BY <2>1, <1>2, Users
<1>6. ASSUME BeatStarts PROVE Asks(Beat)
  <2>1. Turn(Beat) /\ GetSaver(Beat, pinned')
    BY <1>6 DEF BeatStarts, Turn, Quiet
  <2> QED BY <2>1, <1>2, Users
<1> QED BY <1>3, <1>4, <1>5, <1>6

\* Who asks has the pins that go with it.
LEMMA TurnPins ==
  ASSUME Shape, NEW p \in Procs, Turn(p), NEW c \in Entitled, NEW i \in Insts \cup {0}, To(p, c, i)
  PROVE  Pins'
<1>1. c \in UserPcs
  BY DEF Entitled, UserPcs
<1>2. /\ proc' \in [Procs -> [pc : UserPcs, inst : Insts \cup {0}]]
      /\ proc'[p].pc = c /\ \A q \in Procs : q # p => proc'[q] = proc[q]
  BY <1>1, Moved DEF Shape
<1>3. c # "idle" /\ c # "pins"
  BY DEF Entitled
<1> USE <1>2, <1>3, Users DEF Shape, Typed, Pins
<1>4. CASE proc[p].pc = "pinned" /\ UNCHANGED <<pinned, tomb, running>>
  BY <1>4 DEF Turn, Entitled
<1>5. CASE p \in Readers /\ ~Due /\ pinned' = pinned \cup {p} /\ UNCHANGED <<tomb, running>>
  BY <1>5 DEF Turn, Due, Resumes
<1>6. CASE p = Run /\ kind = "ordinary" /\ UNCHANGED <<pinned, tomb, running>>
  BY <1>6 DEF Turn
<1>7. CASE p = Beat /\ kind = "service" /\ pinned' = pinned \cup {p} /\ running' = TRUE
  BY <1>7 DEF Turn
<1> QED BY <1>4, <1>5, <1>6, <1>7 DEF Turn

\* The three ways to ask.
LEMMA AsksShape ==
  ASSUME Shape, NEW p \in Procs, Asks(p)
  PROVE  Shape'
<1> USE Promises, Users DEF users, chans, deletion, savers, counts
<1>0. /\ Turn(p)
      /\ UNCHANGED <<kind, pinWait, cache, closing, closingInst, retiring, prev, atCall, deleter, epoch, file, deletes>>
      /\ pinned' \subseteq Readers \cup {Beat} /\ running' \in BOOLEAN /\ tomb' \in BOOLEAN
      /\ p = Beat \/ tomb' = tomb
      /\ tomb' = FALSE \/ tomb' = tomb
      /\ proc[p].pc \notin {"init", "refused", "prev", "pins", "closing"}
  BY DEF Asks, Waits, Joins, Makes, Turn, Shape, Typed, Pins
<1>1. CASE Waits(p)
  <2>1. /\ proc' \in [Procs -> [pc : UserPcs, inst : Insts \cup {0}]]
        /\ proc'[p].pc = "pinned" /\ proc'[p].inst = 0 /\ \A q \in Procs : q # p => proc'[q] = proc[q]
    BY <1>1, Moved DEF Waits, Shape, UserPcs
  <2>2. UNCHANGED <<savers, strays>>
    BY <1>1 DEF Waits
  <2>3. Typed'
    BY <1>0, <2>1, <2>2 DEF Shape, Typed
  <2>4. Pins'
    BY <1>1, TurnPins, <1>0 DEF Waits, Entitled
  <2>5. \A q \in Procs, j \in Insts : Creates(q, j)' <=> Creates(q, j)
    BY <1>0, <2>1 DEF Creates
  <2>6. Own'
    BY <1>0, <2>1, <2>2, <2>5 DEF Own, Shape
  <2>7. Life'
    BY <1>0, <2>2, <2>5 DEF Life, Shape
  <2>8. Chans' /\ Named'
    BY <1>0, <2>1 DEF Chans, Named, Shape
  <2>9. Buried'
    BY <1>0, <2>1, <2>2 DEF Buried, Shape
  <2> QED BY <2>3, <2>4, <2>6, <2>7, <2>8, <2>9 DEF Shape
<1>2. CASE Joins(p)
  <2>0. cache \in Insts /\ ~retiring
    BY <1>2 DEF Joins, MayGet, Shape, Typed
  <2>1. /\ proc' \in [Procs -> [pc : UserPcs, inst : Insts \cup {0}]]
        /\ proc'[p].pc = "using" /\ proc'[p].inst = cache /\ \A q \in Procs : q # p => proc'[q] = proc[q]
    BY <1>2, <2>0, Moved DEF Joins, Shape, UserPcs
  <2>2. UNCHANGED <<savers, strays>>
    BY <1>2 DEF Joins
  <2>3. Typed'
    BY <1>0, <2>1, <2>2 DEF Shape, Typed
  <2>4. Pins'
    BY <1>2, <2>0, TurnPins, <1>0 DEF Joins, Entitled
  <2>5. \A q \in Procs, j \in Insts : Creates(q, j)' <=> Creates(q, j)
    BY <1>0, <2>1 DEF Creates
  <2>6. Own'
    BY <1>0, <2>0, <2>1, <2>2, <2>5 DEF Own, Shape, Life
  <2>7. Life'
    BY <1>0, <2>2, <2>5 DEF Life, Shape
  <2>8. Chans' /\ Named'
    BY <1>0, <2>1 DEF Chans, Named, Shape
  <2>9. Buried'
    BY <1>0, <2>0, <2>1, <2>2 DEF Buried, Shape
  <2> QED BY <2>3, <2>4, <2>6, <2>7, <2>8, <2>9 DEF Shape
<1>3. ASSUME NEW i \in Insts, Makes(p, i) PROVE Shape'
  <2>0. ~retiring /\ cache = 0 /\ st[i] = "none" /\ UNCHANGED <<data, dirty, flight, poisoned>>
    BY <1>3 DEF Makes, MayGet
  <2>1. /\ proc' \in [Procs -> [pc : UserPcs, inst : Insts \cup {0}]]
        /\ proc'[p].pc = "init" /\ proc'[p].inst = i /\ \A q \in Procs : q # p => proc'[q] = proc[q]
    BY <1>3, Moved DEF Makes, Shape, UserPcs
  <2>2. /\ st' \in [Insts -> {"none", "init", "open", "closing", "closed"}]
        /\ st'[i] = "init" /\ \A j \in Insts : j # i => st'[j] = st[j]
        /\ born' \in [Insts -> 0 .. epoch]
        /\ born'[i] = epoch /\ \A j \in Insts : j # i => born'[j] = born[j]
    BY <1>3 DEF Makes, Shape, Typed
  <2>3. Typed'
    <3>1. strays' \subseteq Insts
      BY <1>3 DEF Makes, Beside, Shape, Typed
    <3> QED BY <1>0, <2>0, <2>1, <2>2, <3>1 DEF Shape, Typed
  <2>4. Pins'
    BY <1>3, TurnPins, <1>0 DEF Makes, Entitled
  <2>5. \A q \in Procs, j \in Insts : Creates(q, j)' <=> Creates(q, j) \/ (q = p /\ j = i)
    BY <1>0, <2>1 DEF Creates
  <2>6. \A q \in Procs : /\ ~Creates(q, i)
                         /\ proc[q].inst = i => proc[q].pc \notin {"init", "refused", "using", "closing"}
    BY <2>0 DEF Creates, Own, Life, Shape
  <2>7. Own'
    <3>1. \A j \in Insts : st'[j] = "init" => \E q \in Procs : proc'[q].pc = "init" /\ proc'[q].inst = j
      BY <1>0, <2>1, <2>2 DEF Own, Shape
    <3>2. \A q \in Procs : proc'[q].pc \in {"init", "refused"} => proc'[q].inst \in Insts
      BY <2>1 DEF Own, Shape
    <3>3. \A q, o \in Procs, j \in Insts : Creates(q, j)' /\ Creates(o, j)' => q = o
      BY <2>5, <2>6 DEF Own, Shape
    <3>4. \A q \in Procs, j \in Insts : proc'[q].inst = j =>
            /\ proc'[q].pc = "init" => st'[j] = "init"
            /\ proc'[q].pc = "refused" => poisoned'[j]
            /\ proc'[q].pc = "using" => st'[j] = "open" \/ poisoned'[j]
            /\ proc'[q].pc = "closing" => st'[j] \in {"closing", "closed"}
      BY <2>0, <2>1, <2>2, <2>6 DEF Own, Shape
    <3> QED BY <3>1, <3>2, <3>3, <3>4 DEF Own
  <2>8. Life'
    BY <1>0, <2>0, <2>2, <2>5 DEF Life, Shape
  <2>9. Chans' /\ Named'
    BY <1>0, <2>1 DEF Chans, Named, Shape
  <2>10. Buried'
    BY <1>0, <2>0, <2>1, <2>2 DEF Buried, Shape, Own
  <2> QED BY <2>3, <2>4, <2>7, <2>8, <2>9, <2>10 DEF Shape
<1> QED BY <1>1, <1>2, <1>3 DEF Asks

\* A reader finds the thread deleted.
LEMMA ReadRefusedShape ==
  ASSUME Shape, NEW r \in Readers, ReadPins(r), tomb
  PROVE  Shape'
<1> USE Promises, Users DEF users, chans, deletion, savers, counts
<1>1. /\ To(r, "idle", 0) /\ proc[r].pc = "asks"
      /\ UNCHANGED <<kind, pinned, pinWait, running, cache, chans, deletion, savers, file, strays, counts>>
  BY DEF ReadPins
<1>2. /\ proc' \in [Procs -> [pc : UserPcs, inst : Insts \cup {0}]]
      /\ proc'[r].pc = "idle" /\ proc'[r].inst = 0 /\ \A q \in Procs : q # r => proc'[q] = proc[q]
  BY <1>1, Moved DEF Shape, UserPcs
<1>3. \A q \in Procs, j \in Insts : Creates(q, j)' <=> Creates(q, j)
  BY <1>1, <1>2 DEF Creates
<1>4. Typed' /\ Pins'
  <2>1. Typed'
    BY <1>1, <1>2 DEF Shape, Typed
  <2>2. Pins'
    BY <1>1, <1>2 DEF Shape, Pins, Entitled
  <2> QED BY <2>1, <2>2
<1>5. Own'
  BY <1>1, <1>2, <1>3 DEF Shape, Own
<1>6. Life' /\ Chans' /\ Named' /\ Buried'
  BY <1>1, <1>2, <1>3 DEF Shape, Life, Chans, Named, Buried
<1> QED BY <1>4, <1>5, <1>6 DEF Shape

-----------------------------------------------------------------------------
\* Every step but the making of a saver.
Others ==
  \/ \E i \in Insts : SaverStep(i)
  \/ \E p \in Procs : InitReads(p) \/ InitDone(p) \/ Refused(p) \/ Change(p) \/ Waits(p) \/ Joins(p)
  \/ \E r \in Readers : ReadAsks(r) \/ ReadEnds(r) \/ (ReadPins(r) /\ tomb)
  \/ RunEnds \/ BeatStep \/ Evict \/ DeleteStarts \/ DeleteTakes \/ DeleteReturns

\* Each step asks for a new saver or is one of the others.
LEMMA StepKinds ==
  ASSUME Shape, Next
  PROVE  Others \/ \E p \in Procs, i \in Insts : Makes(p, i)
<1>1. ASSUME NEW p \in Procs, Asks(p) PROVE Others \/ \E i \in Insts : Makes(p, i)
  BY <1>1 DEF Asks, Others
<1>2. CASE Progress
  <2>1. ASSUME NEW p \in Procs, UserStep(p) PROVE Others \/ \E i \in Insts : Makes(p, i)
    BY <2>1, <1>1, StartsAsk DEF UserStep, Others
  <2>2. ASSUME NEW r \in Readers, ReadPins(r) \/ ReadEnds(r)
        PROVE  Others \/ \E i \in Insts : Makes(r, i)
    BY <2>2, <1>1, StartsAsk, Users DEF Others
  <2> QED BY <1>2, <2>1, <2>2, Users DEF Progress, Others
<1>3. CASE RunStarts \/ BeatStarts
  BY <1>1, <1>3, StartsAsk, Users
<1> QED BY <1>2, <1>3 DEF Next, Others

\* Every step keeps the shape.
LEMMA NextShape ==
  ASSUME Shape, [Next]_vars
  PROVE  Shape'
<1>1. CASE Next
  <2>1. ASSUME NEW i \in Insts, SaverStep(i) PROVE Shape'
    BY <2>1, WriteStartsShape, WriteLandsShape, SaverClosesShape, EvictReturnsShape DEF SaverStep
  <2>2. ASSUME NEW p \in Procs, InitReads(p) \/ InitDone(p) \/ Refused(p) \/ Change(p) PROVE Shape'
    BY <2>2, InitReadsShape, InitDoneShape, RefusedShape, ChangeShape
  <2>3. ASSUME NEW p \in Procs, Waits(p) \/ Joins(p) \/ \E i \in Insts : Makes(p, i) PROVE Shape'
    BY <2>3, AsksShape DEF Asks
  <2>4. ASSUME NEW r \in Readers, ReadAsks(r) \/ ReadEnds(r) \/ (ReadPins(r) /\ tomb) PROVE Shape'
    BY <2>4, ReadAsksShape, ReadEndsShape, ReadRefusedShape
  <2>5. CASE BeatStep
    BY <2>5, BeatClosesShape, BeatAwaitsPinsShape, BeatTakesShape, BeatReturnsShape DEF BeatStep
  <2>6. CASE RunEnds \/ Evict \/ DeleteStarts \/ DeleteTakes \/ DeleteReturns
    BY <2>6, RunEndsShape, EvictShape, DeleteStartsShape, DeleteTakesShape, DeleteReturnsShape
  <2> QED BY <1>1, StepKinds, <2>1, <2>2, <2>3, <2>4, <2>5, <2>6 DEF Others
<1>2. CASE UNCHANGED vars
  BY <1>2 DEF vars, users, chans, deletion, savers, counts, Shape, Typed, Pins, Own, Creates, Life, Chans, Named, Buried
<1> QED BY <1>1, <1>2

-----------------------------------------------------------------------------
\* Nobody is added to those who may write.
Fewer == /\ \A j \in Insts : Writer(j)' => Writer(j)
         /\ Coming' => Coming
         /\ strays \subseteq strays'

\* No step but the making of a saver adds to those who may write.
LEMMA WritersFewer ==
  ASSUME Shape, Shape', Others
  PROVE  Fewer
<1> USE Promises, Users DEF Shape, Typed, users, chans, deletion, savers, counts
<1>0. ASSUME /\ \A j \in Insts : CanWrite(j)' => CanWrite(j)
             /\ \A j \in Overtaken : CanWrite(j)' => j \in Overtaken'
             /\ Coming' => Coming
             /\ strays \subseteq strays'
      PROVE  Fewer
  <2>1. ASSUME NEW j \in Insts, Writer(j)' PROVE Writer(j)
    <3>1. CanWrite(j)' /\ j \notin Overtaken'
      BY <2>1 DEF Writer
    <3>2. CanWrite(j)
      BY <3>1, <1>0
    <3>3. j \notin Overtaken
      BY <3>1, <1>0
    <3> QED BY <3>2, <3>3 DEF Writer
  <2> QED BY <1>0, <2>1 DEF Fewer
<1>1. ASSUME NEW i \in Insts, WriteStarts(i) PROVE Fewer
  <2>1. \A j \in Insts : CanWrite(j)' => CanWrite(j)
    BY <1>1 DEF WriteStarts, CanWrite, MaySave
  <2>2. \A j \in Overtaken : CanWrite(j)' => j \in Overtaken'
    BY <1>1 DEF WriteStarts, Overtaken
  <2>3. Coming' => Coming
    BY <1>1 DEF WriteStarts, Coming, Overtaken
  <2>4. strays \subseteq strays'
    BY <1>1 DEF WriteStarts
  <2> QED BY <1>0, <2>1, <2>2, <2>3, <2>4
<1>2. ASSUME NEW i \in Insts, WriteLands(i) PROVE Fewer
  <2>1. \A j \in Insts : CanWrite(j)' => CanWrite(j)
    BY <1>2 DEF WriteLands, CanWrite
  <2>2. \A j \in Overtaken : CanWrite(j)' => j \in Overtaken'
    BY <1>2 DEF WriteLands, Overtaken
  <2>3. Coming' => Coming
    BY <1>2 DEF WriteLands, Coming, Overtaken
  <2>4. strays \subseteq strays'
    BY <1>2 DEF WriteLands
  <2> QED BY <1>0, <2>1, <2>2, <2>3, <2>4
<1>3. ASSUME NEW i \in Insts, SaverCloses(i) PROVE Fewer
  <2>1. \A j \in Insts : CanWrite(j)' => CanWrite(j)
    BY <1>3 DEF SaverCloses, CanWrite
  <2>2. \A j \in Overtaken : CanWrite(j)' => j \in Overtaken'
    BY <1>3 DEF SaverCloses, Overtaken
  <2>3. Coming' => Coming
    BY <1>3 DEF SaverCloses, Coming, Overtaken
  <2>4. strays \subseteq strays'
    BY <1>3 DEF SaverCloses
  <2> QED BY <1>0, <2>1, <2>2, <2>3, <2>4
<1>4. ASSUME NEW i \in Insts, EvictReturns(i) PROVE Fewer
  <2>1. \A j \in Insts : CanWrite(j)' => CanWrite(j)
    BY <1>4 DEF EvictReturns, CanWrite
  <2>2. \A j \in Overtaken : CanWrite(j)' => j \in Overtaken'
    BY <1>4 DEF EvictReturns, Overtaken
  <2>3. Coming' => Coming
    BY <1>4 DEF EvictReturns, Coming, Overtaken
  <2>4. strays \subseteq strays'
    BY <1>4 DEF EvictReturns
  <2> QED BY <1>0, <2>1, <2>2, <2>3, <2>4
<1>5. ASSUME NEW p \in Procs, InitReads(p) PROVE Fewer
  <2>1. \A j \in Insts : CanWrite(j)' => CanWrite(j)
    BY <1>5 DEF InitReads, CanWrite, Life, Own
  <2>2. \A j \in Overtaken : CanWrite(j)' => j \in Overtaken'
    BY <1>5 DEF InitReads, Overtaken
  <2>3. Coming' => Coming
    BY <1>5 DEF InitReads, Coming, Overtaken
  <2>4. strays \subseteq strays'
    BY <1>5 DEF InitReads
  <2> QED BY <1>0, <2>1, <2>2, <2>3, <2>4
<1>6. ASSUME NEW p \in Procs, InitDone(p) PROVE Fewer
  <2>1. \A j \in Insts : CanWrite(j)' => CanWrite(j)
    BY <1>6 DEF InitDone, Poison, CanWrite, Life, Own
  <2>2. \A j \in Overtaken : CanWrite(j)' => j \in Overtaken'
    <3>1. \A q \in Procs : q # p => proc'[q] = proc[q]
      BY <1>6 DEF InitDone, To
    <3>2. epoch' = epoch /\ born' = born
      BY <1>6 DEF InitDone
    <3>3. ASSUME NEW j \in Insts, Creates(p, j), born[j] < epoch PROVE Creates(p, j)'
      <4>1. proc[p].inst = j /\ epoch # born[j]
        BY <3>3 DEF Creates
      <4>2. To(p, "refused", j)
        BY <1>6, <4>1 DEF InitDone
      <4> QED BY <4>2 DEF To, Creates
    <3>4. \A q \in Procs, j \in Insts : Creates(q, j) /\ born[j] < epoch => Creates(q, j)'
      BY <3>1, <3>3 DEF Creates
    <3> QED BY <3>2, <3>4 DEF Overtaken, Creates
  <2>3. Coming' => Coming
    BY <1>6 DEF InitDone, To, Poison, Coming, Overtaken
  <2>4. strays \subseteq strays'
    BY <1>6 DEF InitDone
  <2> QED BY <1>0, <2>1, <2>2, <2>3, <2>4
<1>7. ASSUME NEW p \in Procs, Refused(p) PROVE Fewer
  <2>1. \A j \in Insts : CanWrite(j)' => CanWrite(j)
    BY <1>7 DEF Refused, CanWrite
  <2>2. \A j \in Overtaken : CanWrite(j)' => j \in Overtaken'
    BY <1>7 DEF Refused, To, CanWrite, Overtaken, Life, Resumes
  <2>3. Coming' => Coming
    BY <1>7 DEF Refused, To, Coming, Overtaken, Resumes
  <2>4. strays \subseteq strays'
    BY <1>7 DEF Refused
  <2> QED BY <1>0, <2>1, <2>2, <2>3, <2>4
<1>8. ASSUME NEW p \in Procs, Change(p) PROVE Fewer
  <2>1. \A j \in Insts : CanWrite(j)' => CanWrite(j)
    BY <1>8 DEF Change, CanWrite
  <2>2. \A j \in Overtaken : CanWrite(j)' => j \in Overtaken'
    BY <1>8 DEF Change, Overtaken
  <2>3. Coming' => Coming
    BY <1>8 DEF Change, Coming, Overtaken
  <2>4. strays \subseteq strays'
    BY <1>8 DEF Change
  <2> QED BY <1>0, <2>1, <2>2, <2>3, <2>4
<1>9. ASSUME NEW r \in Readers, ReadAsks(r) PROVE Fewer
  <2>1. \A j \in Insts : CanWrite(j)' => CanWrite(j)
    BY <1>9 DEF ReadAsks, CanWrite
  <2>2. \A j \in Overtaken : CanWrite(j)' => j \in Overtaken'
    BY <1>9 DEF ReadAsks, To, Overtaken
  <2>3. Coming' => Coming
    BY <1>9 DEF ReadAsks, To, Coming, Overtaken
  <2>4. strays \subseteq strays'
    BY <1>9 DEF ReadAsks
  <2> QED BY <1>0, <2>1, <2>2, <2>3, <2>4
<1>10. ASSUME NEW r \in Readers, ReadEnds(r) PROVE Fewer
  <2>1. \A j \in Insts : CanWrite(j)' => CanWrite(j)
    BY <1>10 DEF ReadEnds, CanWrite
  <2>2. \A j \in Overtaken : CanWrite(j)' => j \in Overtaken'
    BY <1>10 DEF ReadEnds, To, Overtaken
  <2>3. Coming' => Coming
    BY <1>10 DEF ReadEnds, To, Coming, Overtaken
  <2>4. strays \subseteq strays'
    BY <1>10 DEF ReadEnds
  <2> QED BY <1>0, <2>1, <2>2, <2>3, <2>4
<1>11. CASE RunEnds
  <2>1. \A j \in Insts : CanWrite(j)' => CanWrite(j)
    BY <1>11 DEF RunEnds, CanWrite
  <2>2. \A j \in Overtaken : CanWrite(j)' => j \in Overtaken'
    BY <1>11 DEF RunEnds, To, Overtaken
  <2>3. Coming' => Coming
    BY <1>11 DEF RunEnds, To, Coming, Overtaken
  <2>4. strays \subseteq strays'
    BY <1>11 DEF RunEnds
  <2> QED BY <1>0, <2>1, <2>2, <2>3, <2>4
<1>12. CASE BeatCloses
  <2>1. \A j \in Insts : CanWrite(j)' => CanWrite(j)
    BY <1>12 DEF BeatCloses, CanWrite
  <2>2. \A j \in Overtaken : CanWrite(j)' => j \in Overtaken'
    BY <1>12 DEF BeatCloses, To, Overtaken
  <2>3. Coming' => Coming
    BY <1>12 DEF BeatCloses, To, Coming, Overtaken
  <2>4. strays \subseteq strays'
    BY <1>12 DEF BeatCloses
  <2> QED BY <1>0, <2>1, <2>2, <2>3, <2>4
<1>13. CASE BeatAwaitsPins
  <2>1. \A j \in Insts : CanWrite(j)' => CanWrite(j)
    BY <1>13 DEF BeatAwaitsPins, CanWrite
  <2>2. \A j \in Overtaken : CanWrite(j)' => j \in Overtaken'
    BY <1>13 DEF BeatAwaitsPins, To, Overtaken
  <2>3. Coming' => Coming
    BY <1>13 DEF BeatAwaitsPins, To, Coming, Overtaken
  <2>4. strays \subseteq strays'
    BY <1>13 DEF BeatAwaitsPins
  <2> QED BY <1>0, <2>1, <2>2, <2>3, <2>4
<1>14. CASE BeatTakes
  <2>1. \A j \in Insts : CanWrite(j)' => CanWrite(j)
    BY <1>14 DEF BeatTakes, Closed, CanWrite
  <2>2. \A j \in Overtaken : CanWrite(j)' => j \in Overtaken'
    BY <1>14 DEF BeatTakes, To, Overtaken
  <2>3. Coming' => Coming
    BY <1>14 DEF BeatTakes, To, Closed, Coming, Overtaken
  <2>4. strays \subseteq strays'
    BY <1>14 DEF BeatTakes
  <2> QED BY <1>0, <2>1, <2>2, <2>3, <2>4
<1>15. CASE BeatReturns
  <2>1. \A j \in Insts : CanWrite(j)' => CanWrite(j)
    BY <1>15 DEF BeatReturns, CanWrite
  <2>2. \A j \in Overtaken : CanWrite(j)' => j \in Overtaken'
    BY <1>15 DEF BeatReturns, To, Overtaken
  <2>3. Coming' => Coming
    BY <1>15 DEF BeatReturns, To, Coming, Overtaken
  <2>4. strays \subseteq strays'
    BY <1>15 DEF BeatReturns
  <2> QED BY <1>0, <2>1, <2>2, <2>3, <2>4
<1>16. CASE Evict
  <2>1. \A j \in Insts : CanWrite(j)' => CanWrite(j)
    BY <1>16 DEF Evict, Closed, CanWrite
  <2>2. \A j \in Overtaken : CanWrite(j)' => j \in Overtaken'
    BY <1>16 DEF Evict, Overtaken
  <2>3. Coming' => Coming
    BY <1>16 DEF Evict, Closed, Coming, Overtaken
  <2>4. strays \subseteq strays'
    BY <1>16 DEF Evict
  <2> QED BY <1>0, <2>1, <2>2, <2>3, <2>4
<1>17. CASE DeleteStarts
  <2>1. \A j \in Insts : CanWrite(j)' => CanWrite(j)
    BY <1>17 DEF DeleteStarts, RetireCached, Closed, Poison, CanWrite
  <2>2. \A j \in Overtaken : CanWrite(j)' => j \in Overtaken'
    BY <1>17 DEF DeleteStarts, Overtaken
  <2>3. Coming' => Coming
    BY <1>17 DEF DeleteStarts, RetireCached, Closed, Coming, Overtaken
  <2>4. strays \subseteq strays'
    BY <1>17 DEF DeleteStarts
  <2> QED BY <1>0, <2>1, <2>2, <2>3, <2>4
<1>18. CASE DeleteTakes
  <2>1. \A j \in Insts : CanWrite(j)' => CanWrite(j)
    BY <1>18 DEF DeleteTakes, RetireCached, Closed, Poison, CanWrite
  <2>2. \A j \in Overtaken : CanWrite(j)' => j \in Overtaken'
    BY <1>18 DEF DeleteTakes, Overtaken
  <2>3. Coming' => Coming
    BY <1>18 DEF DeleteTakes, RetireCached, Closed, Coming, Overtaken
  <2>4. strays \subseteq strays'
    BY <1>18 DEF DeleteTakes
  <2> QED BY <1>0, <2>1, <2>2, <2>3, <2>4
<1>19. CASE DeleteReturns
  <2>1. \A j \in Insts : CanWrite(j)' => CanWrite(j)
    BY <1>19 DEF DeleteReturns, CanWrite
  <2>2. \A j \in Overtaken : CanWrite(j)' => j \in Overtaken'
    BY <1>19 DEF DeleteReturns, Overtaken
  <2>3. Coming' => Coming
    BY <1>19 DEF DeleteReturns, Coming, Overtaken
  <2>4. strays \subseteq strays'
    BY <1>19 DEF DeleteReturns
  <2> QED BY <1>0, <2>1, <2>2, <2>3, <2>4
<1>20. ASSUME NEW p \in Procs, Waits(p) PROVE Fewer
  <2>1. \A j \in Insts : CanWrite(j)' => CanWrite(j)
    BY <1>20 DEF Waits, CanWrite
  <2>2. \A q \in Procs, j \in Insts : Creates(q, j) => Creates(q, j)'
    <3>1. proc[p].pc \notin {"init", "refused"}
      BY <1>20 DEF Waits, Turn, Pins
    <3>2. \A q \in Procs : q # p => proc'[q] = proc[q]
      BY <1>20 DEF Waits, To
    <3> QED BY <3>1, <3>2 DEF Creates
  <2>3. \A j \in Overtaken : CanWrite(j)' => j \in Overtaken'
    BY <1>20, <2>2 DEF Waits, Turn, To, Overtaken, Creates
  <2>4. Coming' => Coming
    BY <1>20 DEF Waits, Turn, Coming, Overtaken, Own
  <2>5. strays \subseteq strays'
    BY <1>20 DEF Waits
  <2> QED BY <1>0, <2>1, <2>2, <2>3, <2>4, <2>5
<1>21. ASSUME NEW p \in Procs, Joins(p) PROVE Fewer
  <2>1. \A j \in Insts : CanWrite(j)' => CanWrite(j)
    BY <1>21 DEF Joins, CanWrite
  <2>2. \A q \in Procs, j \in Insts : Creates(q, j) => Creates(q, j)'
    <3>1. proc[p].pc \notin {"init", "refused"}
      BY <1>21 DEF Joins, Turn, Pins
    <3>2. \A q \in Procs : q # p => proc'[q] = proc[q]
      BY <1>21 DEF Joins, To
    <3> QED BY <3>1, <3>2 DEF Creates
  <2>3. \A j \in Overtaken : CanWrite(j)' => j \in Overtaken'
    BY <1>21, <2>2 DEF Joins, Turn, To, Overtaken, Creates
  <2>4. Coming' => Coming
    BY <1>21 DEF Joins, Turn, Coming, Overtaken, Own
  <2>5. strays \subseteq strays'
    BY <1>21 DEF Joins
  <2> QED BY <1>0, <2>1, <2>2, <2>3, <2>4, <2>5
<1>22. ASSUME NEW r \in Readers, ReadPins(r), tomb PROVE Fewer
  <2>1. \A j \in Insts : CanWrite(j)' => CanWrite(j)
    BY <1>22 DEF ReadPins, CanWrite
  <2>2. \A j \in Overtaken : CanWrite(j)' => j \in Overtaken'
    BY <1>22 DEF ReadPins, To, Overtaken
  <2>3. Coming' => Coming
    BY <1>22 DEF ReadPins, To, Coming, Overtaken
  <2>4. strays \subseteq strays'
    BY <1>22 DEF ReadPins
  <2> QED BY <1>0, <2>1, <2>2, <2>3, <2>4
<1> QED BY <1>1, <1>2, <1>3, <1>4, <1>5, <1>6, <1>7, <1>8, <1>9, <1>10, <1>11,
           <1>12, <1>13, <1>14, <1>15, <1>16, <1>17, <1>18, <1>19, <1>20, <1>21, <1>22
  DEF Others, SaverStep, BeatStep

\* Whoever may write is alive, and a saver that is being created and not
\* overtaken is of this incarnation.
LEMMA WriterLives ==
  ASSUME Shape, NEW i \in Insts
  PROVE  /\ Writer(i) => st[i] \in {"init", "open", "closing"}
         /\ st[i] = "init" /\ i \notin Overtaken => Writer(i) /\ born[i] = epoch /\ ~retiring
         /\ i \in Overtaken /\ st[i] = "init" => born[i] < epoch
<1>1. Writer(i) => st[i] \in {"init", "open", "closing"}
  BY DEF Shape, Typed, Life, Writer, CanWrite
<1>2. ASSUME st[i] = "init", i \notin Overtaken PROVE Writer(i) /\ born[i] = epoch /\ ~retiring
  <2>1. ~(born[i] < epoch)
    BY <1>2 DEF Shape, Own, Overtaken
  <2>2. born[i] \in 0 .. epoch /\ epoch \in Nat
    BY DEF Shape, Typed
  <2>3. ~retiring
    BY <1>2, <2>1 DEF Shape, Buried
  <2>4. Writer(i)
    BY <1>2 DEF Shape, Life, Writer, CanWrite
  <2> QED BY <2>1, <2>2, <2>3, <2>4
<1>3. i \in Overtaken => born[i] < epoch
  BY DEF Overtaken
<1> QED BY <1>1, <1>2, <1>3

\* The background save takes a snapshot.
LEMMA WriteStartsLooked ==
  ASSUME Shape, Shape', Looked, Fewer, strays' = {}, NEW i \in Insts, WriteStarts(i)
  PROVE  Held' /\ Evicted' /\ Served' /\ Swept'
<1> USE Promises, Users, WriterLives
      DEF Looked, Fewer, Shape, Typed, WriteStarts, users, chans, deletion, savers, counts
<1>1. Held'
  BY DEF Held
<1>2. Evicted'
  BY DEF Evicted
<1>3. Served'
  BY DEF Served
<1>4. Overtaken' = Overtaken
  BY DEF Overtaken
<1>5. Swept'
  BY <1>4 DEF Swept
<1> QED BY <1>1, <1>2, <1>3, <1>5

\* A write reaches the disk.
LEMMA WriteLandsLooked ==
  ASSUME Shape, Shape', Looked, Fewer, strays' = {}, NEW i \in Insts, WriteLands(i)
  PROVE  Held' /\ Evicted' /\ Served' /\ Swept'
<1> USE Promises, Users, WriterLives
      DEF Looked, Fewer, Shape, Typed, WriteLands, users, chans, deletion, savers, counts
<1>1. Held'
  BY DEF Held
<1>2. Evicted'
  BY DEF Evicted
<1>3. Served'
  BY DEF Served
<1>4. Swept'
  BY DEF Swept, Overtaken, Writer, CanWrite
<1> QED BY <1>1, <1>2, <1>3, <1>4

\* The end of close() and retire().
LEMMA SaverClosesLooked ==
  ASSUME Shape, Shape', Looked, Fewer, strays' = {}, NEW i \in Insts, SaverCloses(i)
  PROVE  Held' /\ Evicted' /\ Served' /\ Swept'
<1> USE Promises, Users, WriterLives
      DEF Looked, Fewer, Shape, Typed, SaverCloses, users, chans, deletion, savers, counts
<1>1. Held'
  BY DEF Held, MayClose
<1>2. Evicted'
  BY DEF Evicted
<1>3. Served'
  BY DEF Served
<1>4. Swept'
  BY DEF Swept, Overtaken
<1> QED BY <1>1, <1>2, <1>3, <1>4

\* The promise of an eviction settles.
LEMMA EvictReturnsLooked ==
  ASSUME Shape, Shape', Looked, Fewer, strays' = {}, NEW i \in Insts, EvictReturns(i)
  PROVE  Held' /\ Evicted' /\ Served' /\ Swept'
<1> USE Promises, Users, WriterLives
      DEF Looked, Fewer, Shape, Typed, EvictReturns, Settle, users, chans, deletion, savers, counts
<1>1. Held'
  BY DEF Held, MaySettle
<1>2. Evicted'
  BY DEF Evicted
<1>3. Served'
  BY DEF Served, Life, Buried, MaySettle
<1>4. Swept'
  BY DEF Swept, Overtaken
<1> QED BY <1>1, <1>2, <1>3, <1>4

\* A refused creation is over.
LEMMA RefusedLooked ==
  ASSUME Shape, Shape', Looked, Fewer, strays' = {}, NEW p \in Procs, Refused(p)
  PROVE  Held' /\ Evicted' /\ Served' /\ Swept'
<1> USE Promises, Users, WriterLives
      DEF Looked, Fewer, Shape, Typed, Refused, To, users, chans, deletion, savers, counts
<1>1. Held'
  BY DEF Held
<1>2. Evicted'
  BY DEF Evicted
<1>3. Served'
  BY DEF Served, Buried
<1>4. Swept'
  BY DEF Swept, Overtaken
<1> QED BY <1>1, <1>2, <1>3, <1>4

\* A user changes something.
LEMMA ChangeLooked ==
  ASSUME Shape, Shape', Looked, Fewer, strays' = {}, NEW p \in Procs, Change(p)
  PROVE  Held' /\ Evicted' /\ Served' /\ Swept'
<1> USE Promises, Users, WriterLives
      DEF Looked, Fewer, Shape, Typed, Change, users, chans, deletion, savers, counts
<1>1. Held'
  BY DEF Held
<1>2. Evicted'
  BY DEF Evicted
<1>3. Served'
  BY DEF Served
<1>4. Overtaken' = Overtaken
  BY DEF Overtaken
<1>5. Swept'
  BY <1>4 DEF Swept
<1> QED BY <1>1, <1>2, <1>3, <1>5

\* withCheckpointer is called.
LEMMA ReadAsksLooked ==
  ASSUME Shape, Shape', Looked, Fewer, strays' = {}, NEW r \in Readers, ReadAsks(r)
  PROVE  Held' /\ Evicted' /\ Served' /\ Swept'
<1> USE Promises, Users, WriterLives
      DEF Looked, Fewer, Shape, Typed, ReadAsks, To, users, chans, deletion, savers, counts
<1>1. Held'
  BY DEF Held
<1>2. Evicted'
  BY DEF Evicted
<1>3. Served'
  BY DEF Served
<1>4. Swept'
  BY DEF Swept, Overtaken
<1> QED BY <1>1, <1>2, <1>3, <1>4

\* A reader gives his pin back.
LEMMA ReadEndsLooked ==
  ASSUME Shape, Shape', Looked, Fewer, strays' = {}, NEW r \in Readers, ReadEnds(r)
  PROVE  Held' /\ Evicted' /\ Served' /\ Swept'
<1> USE Promises, Users, WriterLives
      DEF Looked, Fewer, Shape, Typed, ReadEnds, To, Unpin, users, chans, deletion, savers, counts
<1>1. Held'
  BY DEF Held
<1>2. Evicted'
  BY DEF Evicted
<1>3. Served'
  BY DEF Served
<1>4. Swept'
  BY DEF Swept, Overtaken
<1> QED BY <1>1, <1>2, <1>3, <1>4

\* The run of an ordinary thread ends.
LEMMA RunEndsLooked ==
  ASSUME Shape, Shape', Looked, Fewer, strays' = {}, RunEnds
  PROVE  Held' /\ Evicted' /\ Served' /\ Swept'
<1> USE Promises, Users, WriterLives
      DEF Looked, Fewer, Shape, Typed, RunEnds, To, users, chans, deletion, savers, counts
<1>1. Held'
  BY DEF Held
<1>2. Evicted'
  BY DEF Evicted
<1>3. Served'
  BY DEF Served
<1>4. Swept'
  BY DEF Swept, Overtaken
<1> QED BY <1>1, <1>2, <1>3, <1>4

\* The service unpins and registers its close.
LEMMA BeatClosesLooked ==
  ASSUME Shape, Shape', Looked, Fewer, strays' = {}, BeatCloses
  PROVE  Held' /\ Evicted' /\ Served' /\ Swept'
<1> USE Promises, Users, WriterLives
      DEF Looked, Fewer, Shape, Typed, BeatCloses, To, Unpin, users, chans, deletion, savers, counts
<1>1. Held'
  BY DEF Held, Evicted
<1>2. Evicted'
  BY DEF Evicted
<1>3. Served'
  BY DEF Served
<1>4. Swept'
  BY DEF Swept, Overtaken, Buried
<1> QED BY <1>1, <1>2, <1>3, <1>4

\* Its close waits for the pins.
LEMMA BeatAwaitsPinsLooked ==
  ASSUME Shape, Shape', Looked, Fewer, strays' = {}, BeatAwaitsPins
  PROVE  Held' /\ Evicted' /\ Served' /\ Swept'
<1> USE Promises, Users, WriterLives
      DEF Looked, Fewer, Shape, Typed, BeatAwaitsPins, To, users, chans, deletion, savers, counts
<1>1. Held'
  BY DEF Held
<1>2. Evicted'
  BY DEF Evicted
<1>3. Served'
  BY DEF Served
<1>4. Swept'
  BY DEF Swept, Overtaken
<1> QED BY <1>1, <1>2, <1>3, <1>4

\* It takes the cached saver and closes it.
LEMMA BeatTakesLooked ==
  ASSUME Shape, Shape', Looked, Fewer, strays' = {}, BeatTakes
  PROVE  Held' /\ Evicted' /\ Served' /\ Swept'
<1> USE Promises, Users, WriterLives
      DEF Looked, Fewer, Shape, Typed, BeatTakes, To, Closed, users, chans, deletion, savers, counts
<1>1. Held'
  BY DEF Held, Pins, Served, Buried, Resumes
<1>2. Evicted'
  BY DEF Evicted
<1>3. Served'
  BY DEF Served, Pins, Resumes
<1>4. Swept'
  BY DEF Swept, Overtaken
<1> QED BY <1>1, <1>2, <1>3, <1>4

\* Its promise settles.
LEMMA BeatReturnsLooked ==
  ASSUME Shape, Shape', Looked, Fewer, strays' = {}, BeatReturns
  PROVE  Held' /\ Evicted' /\ Served' /\ Swept'
<1> USE Promises, Users, WriterLives
      DEF Looked, Fewer, Shape, Typed, BeatReturns, To, Settle, IsOver, users, chans, deletion, savers, counts
<1>1. Held'
  BY DEF Held, Resumes
<1>2. Evicted'
  BY DEF Evicted
<1>3. Served'
  BY DEF Served
<1>4. Swept'
  BY DEF Swept, Overtaken
<1> QED BY <1>1, <1>2, <1>3, <1>4

\* The files are swept and the channels cleared.
LEMMA DeleteReturnsLooked ==
  ASSUME Shape, Shape', Looked, Fewer, strays' = {}, DeleteReturns
  PROVE  Held' /\ Evicted' /\ Served' /\ Swept'
<1> USE Promises, Users, WriterLives
      DEF Looked, Fewer, Shape, Typed, DeleteReturns, Settle, IsOver, Idle, users, chans, deletion, savers, counts
<1>1. Held'
  BY DEF Held, DeleterResumes
<1>2. Evicted'
  BY DEF Evicted
<1>3. Served'
  BY DEF Served, Chans, Buried
<1>4. Swept'
  BY DEF Swept, Held, DeleterResumes
<1> QED BY <1>1, <1>2, <1>3, <1>4

\* A user shares the cached saver.
LEMMA JoinsLooked ==
  ASSUME Shape, Shape', Looked, Fewer, strays' = {}, NEW p \in Procs, Joins(p)
  PROVE  Held' /\ Evicted' /\ Served' /\ Swept'
<1> USE Promises, Users, WriterLives
      DEF Looked, Fewer, Shape, Typed, Joins, Turn, To, users, chans, deletion, savers, counts
<1>1. Held'
  BY DEF Held, Chans
<1>2. Evicted'
  BY DEF Evicted
<1>3. Served'
  BY DEF Served
<1>4. Swept'
  BY DEF Swept, Overtaken, Buried
<1> QED BY <1>1, <1>2, <1>3, <1>4

\* initialize reads the file.
LEMMA InitReadsLooked ==
  ASSUME Shape, Shape', Looked, Fewer, strays' = {}, NEW p \in Procs, InitReads(p)
  PROVE  Held' /\ Evicted' /\ Served' /\ Swept'
<1> USE Promises, Users DEF Looked, Fewer, InitReads, users, chans, deletion, savers, counts
<1>0. PICK i \in Insts : i = proc[p].inst
  BY DEF Shape, Own
<1>1. Held' /\ Evicted' /\ Served'
  BY DEF Held, Evicted, Served
<1>2. Overtaken' = Overtaken
  BY DEF Overtaken
<1>3. /\ data' \in [Insts -> 0 .. epoch] /\ data'[i] = IF file = 0 THEN born[i] ELSE file
      /\ \A j \in Insts : j # i => data'[j] = data[j]
  BY <1>0 DEF Shape, Typed
<1>4. st[i] = "init" /\ data[i] = 0
  BY <1>0 DEF Shape, Own
<1>5. ~(file \in 1 .. (born[i] - 1) /\ Overtaken # {})
  BY <1>0
<1>6. ASSUME deleter.pc = "idle" PROVE file \in {0, epoch} \/ \E k \in Overtaken : data'[k] = file
  <2>1. CASE file \notin {0, epoch}
    <3>1. PICK k \in Overtaken : data[k] = file
      BY <2>1, <1>6 DEF Swept
    <3>2. k \in Insts /\ k # i
      BY <3>1, <2>1, <1>4 DEF Overtaken
    <3> QED BY <3>1, <3>2, <1>3
  <2> QED BY <2>1
<1>7. ASSUME deleter.pc = "idle", i \notin Overtaken PROVE data'[i] \in {0, epoch}
  <2>1. born[i] = epoch /\ epoch \in Nat /\ file \in 0 .. epoch
    BY <1>7, <1>4, WriterLives DEF Shape, Typed
  <2>2. Overtaken # {} => file \in {0, epoch}
    BY <2>1, <1>5
  <2>3. file \in {0, epoch}
    BY <2>2, <1>7 DEF Swept
  <2> QED BY <2>1, <2>3, <1>3
<1>8. Swept'
  <2>1. ASSUME NEW j \in Insts, Writer(j)', deleter.pc = "idle" PROVE data'[j] \in {0, epoch}
    <3>1. Writer(j) /\ j \notin Overtaken
      BY <2>1, <1>2 DEF Writer
    <3> QED BY <2>1, <3>1, <1>3, <1>7 DEF Swept
  <2> QED BY <2>1, <1>6, <1>2 DEF Swept
<1> QED BY <1>1, <1>8

\* Its creator is refused, or has the one saver that may write.
LEMMA InitDoneLooked ==
  ASSUME Shape, Shape', Looked, Fewer, strays' = {}, NEW p \in Procs, InitDone(p)
  PROVE  Held' /\ Evicted' /\ Served' /\ Swept'
<1> USE Promises, Users DEF Looked, Fewer, users, chans, deletion, savers, counts
<1>0. PICK i \in Insts : i = proc[p].inst
  BY DEF InitDone, Shape, Own
<1>1. /\ proc[p].pc = "init" /\ st[i] = "init" /\ Creates(p, i)
      /\ UNCHANGED <<kind, pinned, pinWait, running, chans, deletion, born, data, flight, file, strays, counts>>
  BY <1>0 DEF InitDone, Shape, Own, Creates
<1>2. CASE tomb \/ epoch # born[i]
  <2>1. To(p, "refused", i) /\ st' = [st EXCEPT ![i] = "closing"] /\ Poison({i}) /\ UNCHANGED <<cache, dirty>>
    BY <1>0, <1>2 DEF InitDone
  <2>2. /\ proc'[p].pc = "refused" /\ proc'[p].inst = i /\ \A q \in Procs : q # p => proc'[q] = proc[q]
    BY <2>1, Moved DEF UserPcs, Shape
  <2>3. Overtaken' = Overtaken
    BY <1>0, <1>1, <2>2 DEF Overtaken
  <2>4. \A j \in Insts : j # i => st'[j] = st[j]
    BY <2>1 DEF Shape, Typed
  <2>5. ~Writer(i)'
    <3>1. flight[i] = FALSE /\ poisoned'[i]
      BY <1>0, <2>1, PoisonSays DEF InitDone, Shape, Typed, Resumes
    <3> QED BY <3>1, <1>1 DEF Writer, CanWrite
  <2>6. Held'
    BY <1>0, <1>1, <2>1, <2>2, <2>4, <2>5 DEF Held
  <2>7. Evicted' /\ Served'
    BY <1>0, <1>1, <1>2, <2>1, <2>2 DEF Evicted, Served, Shape, Buried
  <2>8. Swept'
    BY <1>1, <2>3 DEF Swept
  <2> QED BY <2>6, <2>7, <2>8
<1>3. CASE ~(tomb \/ epoch # born[i])
  <2>1. To(p, "using", i) /\ st' = [st EXCEPT ![i] = "open"] /\ cache' = i /\ poisoned' = poisoned
    BY <1>0, <1>3 DEF InitDone
  <2>2. /\ proc'[p].pc = "using" /\ proc'[p].inst = i /\ \A q \in Procs : q # p => proc'[q] = proc[q]
    BY <2>1, Moved DEF UserPcs, Shape
  <2>3. i \notin Overtaken /\ Writer(i) /\ ~retiring /\ Coming
    <3>1. i \notin Overtaken
      BY <1>3 DEF Overtaken, Shape, Typed
    <3> QED BY <3>1, <1>1, WriterLives DEF Coming
  <2>4. Overtaken' = Overtaken
    <3>1. \A q \in Procs, j \in Insts : Creates(q, j)' <=> Creates(q, j) /\ j # i
      BY <1>0, <1>1, <2>2 DEF Creates, Shape, Own
    <3> QED BY <3>1, <1>1, <2>3 DEF Overtaken, Creates
  <2>5. \A j \in Insts : Writer(j)' => j = i
    BY <2>3 DEF OneSaverPerFile, Writer
  <2>6. Held'
    BY <1>1, <2>1, <2>3, <2>5 DEF Held, Shape, Chans
  <2>7. Evicted' /\ Served'
    <3>1. cache = 0
      <4>1. cache \in Insts => cache # i /\ (Writer(cache) => cache = i)
        BY <2>3, <1>1 DEF Shape, Life, OneSaverPerFile, Writer
      <4>2. cache \in Insts => Writer(cache)
        BY <2>3 DEF Shape, Typed, Life, Buried, Writer, CanWrite, Overtaken, Creates
      <4> QED BY <4>1, <4>2 DEF Shape, Typed
    <3>2. p # Beat => pinned # {} \/ proc[Beat].pc = "idle"
      BY <1>1 DEF Shape, Typed, Pins, Entitled
    <3>3. Evicted'
      BY <1>1, <2>1, <2>3 DEF Evicted
    <3>4. Served'
      BY <1>1, <2>1, <2>2, <2>3, <3>1, <3>2 DEF Served
    <3> QED BY <3>3, <3>4
  <2>8. Swept'
    BY <1>1, <2>4 DEF Swept
  <2> QED BY <2>6, <2>7, <2>8
<1> QED BY <1>2, <1>3

\* The LRU drops the idle saver: its promise says so.
LEMMA EvictLooked ==
  ASSUME Shape, Shape', Looked, Fewer, strays' = {}, Evict
  PROVE  Held' /\ Evicted' /\ Served' /\ Swept'
<1> USE Promises, Users, WriterLives
      DEF Looked, Fewer, Shape, Typed, Evict, Closed, Busy, users, chans, deletion, savers, counts
<1>1. Held'
  BY DEF Held, Chans, Pins, Entitled, Own, Life, Evicted, Served, Buried
<1>2. ~Coming
  <2>1. CASE retiring
    BY <2>1 DEF Coming
  <2>2. CASE ~retiring
    <3>1. Writer(cache)
      BY <2>2 DEF Buried, Life, Writer, CanWrite, Overtaken, Creates
    <3>2. st[cache] # "init"
      BY <2>2 DEF Life, Buried
    <3> QED BY <3>1, <3>2 DEF OneSaverPerFile, Coming, Writer
  <2> QED BY <2>1, <2>2
<1>3. proc[Beat].pc \notin {"init", "refused", "using"}
  BY DEF Pins, Entitled
<1>4. Evicted' /\ Served'
  BY <1>2, <1>3 DEF Evicted, Served
<1>5. Swept'
  BY DEF Swept, Overtaken
<1> QED BY <1>1, <1>4, <1>5


\* From here the retirement waits for everybody who may write.
LEMMA DeleteStartsLooked ==
  ASSUME Shape, Shape', Looked, Fewer, strays' = {}, DeleteStarts
  PROVE  Held' /\ Evicted' /\ Served' /\ Swept'
<1> USE Promises, Users DEF Looked, Fewer, users, chans, deletion, savers, counts
<1>1. /\ closing' = Retirement /\ retiring' = TRUE /\ deleter.pc = "idle"
      /\ prev' = [prev EXCEPT ![Retirement] = closing] /\ atCall' = [atCall EXCEPT ![Retirement] = closingInst]
      /\ UNCHANGED <<users, closingInst>> /\ ~Due
  BY DEF DeleteStarts, Quiet
<1>2. prev'[Retirement] = closing /\ atCall'[Retirement] = closingInst /\ prev'[BeatClose] = prev[BeatClose]
  BY <1>1 DEF Shape, Typed
<1>3. ~retiring
  BY <1>1 DEF Shape, Chans
<1>4. Evicted' /\ Served'
  BY <1>1, <1>2 DEF Evicted, Served, Shape, Chans, DeleteStarts
<1>5. Swept'
  BY DEF Swept, DeleteStarts, RetireCached
<1>6. Held'
  <2> SUFFICES ASSUME NEW i \in Insts, Writer(i)'
               PROVE  /\ deleter'.pc = "prev" =>
                           \/ i = closingInst \/ i = closing
                           \/ closing = BeatClose /\ proc[Beat] = [pc |-> "closing", inst |-> i]
                      /\ deleter'.pc = "retire" => i = deleter'.inst
    BY <1>1, <1>2 DEF Held
  <2>1. Writer(i) /\ st[i] # "init"
    <3>1. ASSUME st[i] = "init" PROVE FALSE
      <4>1. st'[i] = "init" /\ retiring'
        BY <3>1, <1>1 DEF DeleteStarts, RetireCached, Closed, Shape, Typed
      <4>2. born'[i] < epoch' /\ \E p \in Procs : proc'[p].pc = "init" /\ proc'[p].inst = i
        BY <4>1 DEF Shape, Own, Buried
      <4> QED BY <4>2 DEF Overtaken, Writer
    <3> QED BY <3>1
  <2>2. \/ i = cache \/ i = closing
        \/ closing = BeatClose /\ proc[Beat] = [pc |-> "closing", inst |-> i]
    BY <2>1, <1>3 DEF Held
  <2>3. CASE closing = NoClose
    <3>1. closingInst = 0 /\ i = cache
      BY <2>2, <2>3 DEF Shape, Named
    <3> QED BY <2>3, <3>1 DEF DeleteStarts, RetireCached
  <2>4. CASE closing # NoClose
    <3>1. deleter'.pc = "prev"
      BY <2>4 DEF DeleteStarts
    <3>2. ASSUME i = cache PROVE i = closingInst
      <4>1. cache # 0 /\ ~tomb
        BY <3>2, <1>3 DEF Shape, Buried
      <4>2. closing = BeatClose
        BY <2>4, <4>1, <1>3 DEF Shape, Typed, Chans, Evicted, Closers
      <4>3. proc[Beat].pc \in {"prev", "pins", "closing"}
        BY <4>2 DEF Shape, Chans
      <4> QED BY <3>2, <4>1, <4>2, <4>3, <1>3 DEF Served
    <3> QED BY <2>2, <3>1, <3>2
  <2> QED BY <2>3, <2>4
<1> QED BY <1>4, <1>5, <1>6

\* What it waited for is over: only the cached saver is left.
LEMMA DeleteTakesLooked ==
  ASSUME Shape, Shape', Looked, Fewer, strays' = {}, DeleteTakes
  PROVE  Held' /\ Evicted' /\ Served' /\ Swept'
<1> USE Promises, Users DEF Looked, Fewer, users, chans, deletion, savers, counts
<1>1. /\ deleter.pc = "prev" /\ prev[Retirement] = NoClose /\ IsOver(atCall[Retirement])
      /\ deleter' = [pc |-> "retire", inst |-> cache] /\ cache' = 0 /\ Poison({cache})
      /\ UNCHANGED <<users, chans, tomb, epoch, born, data, dirty, flight, file, strays, counts>>
  BY DEF DeleteTakes, RetireCached, DeleterResumes
<1>2. retiring
  BY <1>1 DEF Shape, Chans
<1>3. ASSUME NEW i \in Insts, Writer(i)' PROVE FALSE
  <2>1. i = atCall[Retirement]
    BY <1>1, <1>3 DEF Held
  <2>2. st[i] = "closed"
    BY <1>1, <2>1 DEF IsOver
  <2> QED BY <1>3, <2>2, WriterLives
<1>4. Held'
  BY <1>3 DEF Held
<1>5. Evicted' /\ Served' /\ Swept'
  BY <1>1, <1>2 DEF Evicted, Served, Swept, Shape, Buried
<1> QED BY <1>4, <1>5

\* A user waits for a close or a retirement.
LEMMA WaitsLooked ==
  ASSUME Shape, Shape', Looked, Fewer, strays' = {}, NEW p \in Procs, Waits(p)
  PROVE  Held' /\ Evicted' /\ Served' /\ Swept'
<1> USE Promises, Users DEF Looked, Fewer, users, chans, deletion, savers, counts
<1>0. /\ UNCHANGED <<cache, closing, closingInst, retiring, prev, atCall, deleter, epoch, file, savers, strays>>
      /\ p = Beat \/ tomb' = tomb
      /\ proc[p].pc \notin {"init", "refused", "prev", "pins", "closing"}
      /\ To(p, "pinned", 0)
  BY DEF Waits, Turn, Shape, Typed, Pins
<1>1. proc'[p].pc = "pinned" /\ \A q \in Procs : q # p => proc'[q] = proc[q]
  BY <1>0, Moved DEF Shape, UserPcs
<1>2. Overtaken' = Overtaken
  BY <1>0, <1>1 DEF Overtaken
<1>3. Swept'
  BY <1>0, <1>2 DEF Swept
<1>4. retiring \/ pinned' = {}
  BY DEF Waits, MayGet
<1>5. ~retiring => p # Beat /\ pinned = {}
  BY <1>4, <1>0 DEF Waits, Turn, Shape, Pins, Entitled
<1>6. Held'
  BY <1>0, <1>1, <1>4 DEF Held
<1>7. Evicted' /\ Served'
  BY <1>0, <1>1, <1>4, <1>5 DEF Evicted, Served, Shape, Buried
<1> QED BY <1>3, <1>6, <1>7

\* Who makes a saver without a stray is the only one who may write.
LEMMA MakesLooked ==
  ASSUME Shape, Shape', strays' = {}, Looked, NEW p \in Procs, NEW i \in Insts, Makes(p, i)
  PROVE  OneSaverPerFile' /\ Held' /\ Evicted' /\ Served' /\ Swept'
<1> USE Promises, Users DEF Looked, users, chans, deletion, savers, counts
<1>0. /\ UNCHANGED <<kind, pinWait, cache, closing, closingInst, retiring, prev, atCall, deleter, epoch, file>>
      /\ UNCHANGED <<data, dirty, flight, poisoned>>
      /\ cache = 0 /\ ~retiring /\ (pinned' = {} => closing = NoClose) /\ st[i] = "none"
      /\ p = Beat \/ tomb' = tomb
      /\ proc[p].pc \notin {"init", "refused", "prev", "pins", "closing"}
      /\ To(p, "init", i) /\ st' = [st EXCEPT ![i] = "init"] /\ born' = [born EXCEPT ![i] = epoch]
      /\ strays = {} /\ Beside = {}
  BY DEF Makes, MayGet, Turn, Shape, Typed, Pins
<1>1. /\ proc'[p].pc = "init" /\ proc'[p].inst = i /\ \A q \in Procs : q # p => proc'[q] = proc[q]
      /\ st'[i] = "init" /\ \A j \in Insts : j # i => st'[j] = st[j]
      /\ born'[i] = epoch /\ \A j \in Insts : j # i => born'[j] = born[j]
  BY <1>0, Moved DEF Shape, Typed, UserPcs
<1>2. \/ p # Beat /\ proc[p].pc = "pinned" /\ pinned' = pinned
      \/ p \in Readers /\ closing = NoClose /\ ~Due
      \/ p = Run /\ kind = "ordinary"
      \/ p = Beat
  BY DEF Makes, Turn
\* whoever is served by the close of the service is in nobody's way
<1>3. ASSUME proc[Beat].pc = "closing", closing = BeatClose, pinned = {} PROVE FALSE
  <2>1. pinned' # {} /\ p # Beat
    BY <1>0, <1>3
  <2>2. kind = "service" /\ proc[Run].pc = "idle"
    BY <1>3 DEF Shape, Typed, Pins
  <2> QED BY <1>2, <1>3, <2>1, <2>2
<1>4. \A j \in Insts : ~Writer(j)
  <2> SUFFICES ASSUME NEW j \in Insts, Writer(j) PROVE FALSE
    OBVIOUS
  <2>1. j # closing /\ st[j] # "init"
    BY <1>0 DEF Beside, Writer
  <2>2. j # cache /\ ~retiring /\ Held
    BY <1>0
  <2>3. closing = BeatClose /\ proc[Beat] = [pc |-> "closing", inst |-> j] /\ pinned = {}
    BY <2>1, <2>2 DEF Held
  <2> QED BY <2>3, <1>3
<1>5. \A k \in Overtaken : k \in Overtaken' /\ k # i
  <2> SUFFICES ASSUME NEW k \in Overtaken PROVE k \in Overtaken' /\ k # i
    OBVIOUS
  <2>1. PICK q \in Procs : proc[q].inst = k /\ proc[q].pc \in {"init", "refused"}
    BY DEF Overtaken
  <2>2. q # p /\ k # i /\ k \in Insts /\ born[k] < epoch
    BY <2>1, <1>0 DEF Overtaken, Shape, Own, Life
  <2> QED BY <2>1, <2>2, <1>0, <1>1 DEF Overtaken
<1>6. \A j \in Insts : Writer(j)' => j = i
  BY <1>0, <1>1, <1>4, <1>5 DEF Writer, CanWrite
<1>7. OneSaverPerFile'
  BY <1>6 DEF OneSaverPerFile, Writer
<1>8. Held'
  BY <1>0, <1>1, <1>6 DEF Held, Shape, Chans
<1>9. Evicted'
  <2>1. closing \notin Insts
    BY <1>0 DEF Beside, Overtaken, Shape, Life, Creates
  <2> QED BY <2>1, <1>0 DEF Evicted
<1>10. Served'
  <2>1. ASSUME p # Beat, ~tomb, proc[Beat].pc \in {"prev", "pins"} PROVE FALSE
    <3>1. pinned = {}
      BY <2>1, <1>0 DEF Served
    <3>2. kind = "service" /\ proc[Run].pc = "idle"
      BY <2>1 DEF Shape, Typed, Pins
    <3>3. p \in Readers /\ ~Due
      BY <1>0, <1>2, <2>1, <3>1, <3>2 DEF Shape, Pins, Entitled
    <3>4. proc[Beat].pc = "prev" /\ prev[BeatClose] # NoClose
      BY <2>1, <3>1, <3>3 DEF Due, Shape, Pins, Resumes
    <3> QED BY <3>4, <1>0 DEF Evicted, Shape, Typed, Chans, Closers
  <2>2. ASSUME p # Beat, ~tomb, proc[Beat].pc = "closing", closing = BeatClose PROVE FALSE
    BY <2>2, <1>0, <1>3 DEF Served
  <2> QED BY <1>0, <1>1, <2>1, <2>2 DEF Served
<1>11. Swept'
  <2>1. data[i] = 0
    BY <1>0 DEF Shape, Life
  <2> QED BY <2>1, <1>0, <1>5, <1>6 DEF Swept
<1> QED BY <1>7, <1>8, <1>9, <1>10, <1>11

\* A reader finds the thread deleted.
LEMMA ReadRefusedLooked ==
  ASSUME Shape, Shape', Looked, Fewer, strays' = {}, NEW r \in Readers, ReadPins(r), tomb
  PROVE  Held' /\ Evicted' /\ Served' /\ Swept'
<1> USE Promises, Users DEF Looked, Fewer, users, chans, deletion, savers, counts
<1>1. /\ To(r, "idle", 0) /\ proc[r].pc = "asks"
      /\ UNCHANGED <<kind, pinned, pinWait, running, cache, chans, deletion, savers, file, strays, counts>>
  BY DEF ReadPins
<1>2. proc'[r].pc = "idle" /\ \A q \in Procs : q # r => proc'[q] = proc[q]
  BY <1>1, Moved DEF Shape, UserPcs
<1>3. Overtaken' = Overtaken
  BY <1>1, <1>2 DEF Overtaken
<1>4. Held' /\ Evicted' /\ Served'
  BY <1>1, <1>2 DEF Held, Evicted, Served
<1>5. Swept'
  BY <1>1, <1>3 DEF Swept
<1> QED BY <1>4, <1>5

\* Every step keeps what follows from looking.
LEMMA NextLooked ==
  ASSUME Shape, Shape', Looked, [Next]_vars
  PROVE  Looked'
<1>1. ASSUME Others PROVE Looked'
  <2>1. Fewer
    BY <1>1, WritersFewer
  <2>2. OneSaverPerFile'
    BY <2>1 DEF Fewer, Looked, OneSaverPerFile, Writer
  <2>3. ASSUME strays' = {} PROVE Held' /\ Evicted' /\ Served' /\ Swept'
    <3> USE <2>1, <2>3
    <3>1. ASSUME NEW i \in Insts, SaverStep(i) PROVE Held' /\ Evicted' /\ Served' /\ Swept'
      BY <3>1, WriteStartsLooked, WriteLandsLooked, SaverClosesLooked, EvictReturnsLooked DEF SaverStep
    <3>2. ASSUME NEW p \in Procs, InitReads(p) \/ InitDone(p) \/ Refused(p) \/ Change(p) \/ Waits(p) \/ Joins(p)
          PROVE  Held' /\ Evicted' /\ Served' /\ Swept'
      BY <3>2, InitReadsLooked, InitDoneLooked, RefusedLooked, ChangeLooked, WaitsLooked, JoinsLooked
    <3>3. ASSUME NEW r \in Readers, ReadAsks(r) \/ ReadEnds(r) \/ (ReadPins(r) /\ tomb)
          PROVE  Held' /\ Evicted' /\ Served' /\ Swept'
      BY <3>3, ReadAsksLooked, ReadEndsLooked, ReadRefusedLooked
    <3>4. CASE BeatStep
      BY <3>4, BeatClosesLooked, BeatAwaitsPinsLooked, BeatTakesLooked, BeatReturnsLooked DEF BeatStep
    <3>5. CASE RunEnds \/ Evict \/ DeleteStarts \/ DeleteTakes \/ DeleteReturns
      BY <3>5, RunEndsLooked, EvictLooked, DeleteStartsLooked, DeleteTakesLooked, DeleteReturnsLooked
    <3> QED BY <1>1, <3>1, <3>2, <3>3, <3>4, <3>5 DEF Others
  <2> QED BY <2>2, <2>3 DEF Looked
<1>2. ASSUME NEW p \in Procs, NEW i \in Insts, Makes(p, i) PROVE Looked'
  <2>1. strays \subseteq strays'
    BY <1>2 DEF Makes
  <2>2. CASE strays' = {}
    BY <1>2, <2>2, MakesLooked DEF Looked
  <2>3. CASE strays' # {}
    BY <2>3 DEF Looked, OneSaverPerFile
  <2> QED BY <2>2, <2>3
<1>3. CASE UNCHANGED vars
  <2>1. Overtaken' = Overtaken /\ \A i \in Insts : CanWrite(i)' <=> CanWrite(i)
    BY <1>3 DEF vars, users, deletion, savers, Overtaken, CanWrite
  <2>2. (\A i \in Insts : Writer(i)' <=> Writer(i)) /\ (Coming' <=> Coming)
    BY <1>3, <2>1 DEF vars, savers, Writer, Coming
  <2>3. /\ UNCHANGED <<proc, pinned, cache, closing, closingInst, retiring, prev, atCall>>
        /\ UNCHANGED <<deleter, tomb, epoch, st, data, file, strays>>
    BY <1>3 DEF vars, users, chans, deletion, savers
  <2>4. OneSaverPerFile'
    BY <2>2, <2>3 DEF Looked, OneSaverPerFile, Writer
  <2>5. strays' = {} => Held' /\ Evicted' /\ Served' /\ Swept'
    BY <2>1, <2>2, <2>3 DEF Looked, Held, Evicted, Served, Swept
  <2> QED BY <2>4, <2>5 DEF Looked
<1> QED BY <1>1, <1>2, <1>3, StepKinds

\* The invariant holds throughout.
LEMMA Invariant == Spec => []IInv
<1>1. Init => IInv
  BY InitIInv
<1>2. IInv /\ [Next]_vars => IInv'
  BY NextShape, NextLooked DEF IInv
<1> QED BY <1>1, <1>2, PTL DEF Spec

-----------------------------------------------------------------------------
\* Who is awaited gets on: a close that somebody waits for has begun.
Ending(i) == st[i] \in {"closing", "closed"}
Begun ==
  /\ \A q \in Closers, i \in Insts : prev[q] = i => Ending(i)
  /\ \A i \in Insts : deleter.pc = "prev" /\ atCall[Retirement] = i => Ending(i)
  /\ \A i \in Insts : deleter.pc = "retire" /\ deleter.inst = i => Ending(i)
  /\ \A p \in Procs, i \in Insts : proc[p].pc = "refused" /\ proc[p].inst = i => Ending(i)

\* A retirement that waits for the service's close, and so for pins, is not what
\* that close waits for, and no reader who holds a pin waits for the retirement.
NoRing ==
  /\ prev[Retirement] # Retirement
  /\ prev[Retirement] = BeatClose =>
       tomb /\ prev[BeatClose] # Retirement /\ \A r \in Readers : proc[r].pc # "pinned"

\* Only the service closes the thread's saver.
OneCloser == \A p \in Procs : proc[p].pc \in {"prev", "pins", "closing"} => p = Beat

\* A saver that is in a table or in use exists and is not being created.
LEMMA Taken ==
  ASSUME Shape, NEW i \in Insts, i = cache \/ i = closingInst
  PROVE  st[i] \in {"open", "closing", "closed"}
<1>1. st[i] # "none"
  BY DEF Shape, Life
<1>2. st[i] # "init"
  BY DEF Shape, Life, Own, Creates
<1> QED BY <1>1, <1>2 DEF Shape, Typed

\* close() and retire() of a saver of a table: its close has begun.
LEMMA ClosedEnds ==
  ASSUME Shape, NEW k \in Insts \cup {0}, k = cache \/ k = closingInst,
         st' = IF k = 0 THEN st ELSE Closed(k)
  PROVE  /\ \A i \in Insts : Ending(i) => Ending(i)'
         /\ k # 0 => Ending(k)'
<1>1. 0 \notin Insts
  BY Promises
<1>2. CASE k = 0
  BY <1>2 DEF Ending
<1>3. CASE k # 0
  <2>1. \A j \in Insts : st'[j] = IF j = k /\ st[j] = "open" THEN "closing" ELSE st[j]
    BY <1>3, ClosedSays DEF Shape
  <2> QED BY <1>3, <2>1, Taken DEF Ending
<1> QED BY <1>2, <1>3

\* A close that has begun is never undone.
LEMMA EndsStay ==
  ASSUME Shape, Next, NEW i \in Insts, Ending(i)
  PROVE  Ending(i)'
<1> USE Promises, Users DEF Ending, users, chans, deletion, savers, counts
<1>1. ASSUME NEW p \in Procs, NEW j \in Insts, Makes(p, j) PROVE Ending(i)'
  BY <1>1 DEF Makes, Shape, Typed
<1>2. ASSUME NEW j \in Insts, SaverStep(j) PROVE Ending(i)'
  BY <1>2 DEF SaverStep, WriteStarts, WriteLands, SaverCloses, EvictReturns, Shape, Typed
<1>3. ASSUME NEW p \in Procs, InitDone(p) PROVE Ending(i)'
  <2>1. proc[p].inst \in Insts /\ st[proc[p].inst] = "init"
    BY <1>3 DEF InitDone, Shape, Own
  <2> QED BY <1>3, <2>1 DEF InitDone, Shape, Typed
<1>4. ASSUME NEW p \in Procs, InitReads(p) \/ Refused(p) \/ Change(p) \/ Waits(p) \/ Joins(p) PROVE Ending(i)'
  BY <1>4 DEF InitReads, Refused, Change, Waits, Joins
<1>5. ASSUME NEW r \in Readers, ReadAsks(r) \/ ReadEnds(r) \/ (ReadPins(r) /\ tomb) PROVE Ending(i)'
  BY <1>5 DEF ReadAsks, ReadEnds, ReadPins
<1>6. CASE RunEnds \/ BeatCloses \/ BeatAwaitsPins \/ BeatReturns \/ DeleteReturns
  BY <1>6 DEF RunEnds, BeatCloses, BeatAwaitsPins, BeatReturns, DeleteReturns
<1>7. CASE BeatTakes \/ DeleteTakes \/ Evict
  <2>1. cache \in Insts \cup {0} /\ st' = IF cache = 0 THEN st ELSE Closed(cache)
    BY <1>7 DEF BeatTakes, DeleteTakes, RetireCached, Evict, Shape, Typed
  <2> QED BY <2>1, ClosedEnds
<1>8. CASE DeleteStarts
  <2>1. /\ cache \in Insts \cup {0} /\ closingInst \in Insts \cup {0}
        /\ \/ st' = IF cache = 0 THEN st ELSE Closed(cache)
           \/ st' = IF closingInst = 0 THEN st ELSE Closed(closingInst)
    BY <1>8 DEF DeleteStarts, RetireCached, Shape, Typed
  <2> QED BY <2>1, ClosedEnds
<1> QED BY StepKinds, <1>1, <1>2, <1>3, <1>4, <1>5, <1>6, <1>7, <1>8 DEF Others, BeatStep

\* What a step does to the promises that are waited for.
LEMMA PromisesMove ==
  ASSUME Shape, Next
  PROVE  /\ \A q \in Closers : prev'[q] \in {NoClose, prev[q], closing}
         /\ prev'[Retirement] \in {NoClose, prev[Retirement]} \/ DeleteStarts
         /\ prev'[BeatClose] \in {NoClose, prev[BeatClose]} \/ BeatCloses
<1> USE Promises, Users DEF users, chans, deletion, savers, counts
<1>1. ASSUME NEW p \in Procs, NEW j \in Insts, Makes(p, j) PROVE UNCHANGED prev
  BY <1>1 DEF Makes, Turn
<1>2. ASSUME NEW j \in Insts, SaverStep(j)
      PROVE  \A q \in Closers : prev'[q] \in {NoClose, prev[q]}
  BY <1>2 DEF SaverStep, WriteStarts, WriteLands, SaverCloses, EvictReturns, Settle, Shape, Typed
<1>3. ASSUME NEW p \in Procs, InitReads(p) \/ InitDone(p) \/ Refused(p) \/ Change(p) \/ Waits(p) \/ Joins(p)
      PROVE  UNCHANGED prev
  BY <1>3 DEF InitReads, InitDone, Refused, Change, Waits, Joins, Turn
<1>4. ASSUME NEW r \in Readers, ReadAsks(r) \/ ReadEnds(r) \/ (ReadPins(r) /\ tomb) PROVE UNCHANGED prev
  BY <1>4 DEF ReadAsks, ReadEnds, ReadPins
<1>5. CASE RunEnds \/ BeatAwaitsPins \/ BeatTakes \/ Evict \/ DeleteTakes
  BY <1>5 DEF RunEnds, BeatAwaitsPins, BeatTakes, Evict, DeleteTakes
<1>6. CASE BeatReturns \/ DeleteReturns
  BY <1>6 DEF BeatReturns, DeleteReturns, Settle, Shape, Typed
<1>7. CASE BeatCloses
  BY <1>7 DEF BeatCloses, Shape, Typed
<1>8. CASE DeleteStarts
  BY <1>8 DEF DeleteStarts, Shape, Typed
<1> QED BY StepKinds, <1>1, <1>2, <1>3, <1>4, <1>5, <1>6, <1>7, <1>8 DEF Others, BeatStep

\* What a step does to the retirement, and who is refused a saver by it.
LEMMA RetirementMoves ==
  ASSUME Shape, Next
  PROVE  /\ \/ UNCHANGED deleter /\ atCall'[Retirement] = atCall[Retirement]
            \/ DeleteStarts \/ DeleteTakes \/ DeleteReturns
         /\ \A p \in Procs : proc'[p].pc = "refused" => proc'[p] = proc[p] \/ InitDone(p)
<1> USE Promises, Users DEF users, chans, deletion, savers, counts
<1> DEFINE Kept == UNCHANGED deleter /\ atCall'[Retirement] = atCall[Retirement]
           Same == \A p \in Procs : proc'[p].pc = "refused" => proc'[p] = proc[p]
           Refusals == \A p \in Procs : proc'[p].pc = "refused" => proc'[p] = proc[p] \/ InitDone(p)
<1>0. ASSUME NEW p \in Procs, NEW c \in UserPcs \ {"refused"}, NEW i \in Insts \cup {0}, To(p, c, i) PROVE Same
  BY <1>0, Moved DEF Shape
<1>1. ASSUME NEW p \in Procs, NEW j \in Insts, Makes(p, j) PROVE Kept /\ Same
  BY <1>1, <1>0 DEF Makes, Turn, UserPcs
<1>2. ASSUME NEW j \in Insts, SaverStep(j) PROVE Kept /\ Same
  BY <1>2 DEF SaverStep, WriteStarts, WriteLands, SaverCloses, EvictReturns
<1>3. ASSUME NEW p \in Procs, InitDone(p) PROVE Kept /\ Refusals
  <2>1. Kept /\ \A q \in Procs : q # p => proc'[q] = proc[q]
    BY <1>3 DEF InitDone, To, Shape, Typed
  <2> QED BY <1>3, <2>1
<1>4. ASSUME NEW p \in Procs, InitReads(p) \/ Refused(p) \/ Change(p) \/ Waits(p) \/ Joins(p) PROVE Kept /\ Same
  <2>1. CASE InitReads(p) \/ Change(p)
    BY <2>1 DEF InitReads, Change
  <2>2. CASE Refused(p) \/ Waits(p) \/ Joins(p)
    BY <2>2, <1>0 DEF Refused, Waits, Joins, Turn, UserPcs, Shape, Typed
  <2> QED BY <1>4, <2>1, <2>2
<1>5. ASSUME NEW r \in Readers, ReadAsks(r) \/ ReadEnds(r) \/ (ReadPins(r) /\ tomb) PROVE Kept /\ Same
  BY <1>5, <1>0 DEF ReadAsks, ReadEnds, ReadPins, UserPcs
<1>6. ASSUME RunEnds \/ BeatCloses \/ BeatAwaitsPins \/ BeatTakes \/ BeatReturns PROVE Kept /\ Same
  <2>1. Kept
    BY <1>6 DEF RunEnds, BeatCloses, BeatAwaitsPins, BeatTakes, BeatReturns, Shape, Typed
  <2>2. \E p \in {Beat, Run}, c \in UserPcs \ {"refused"}, i \in Insts \cup {0} : To(p, c, i)
    BY <1>6 DEF RunEnds, BeatCloses, BeatAwaitsPins, BeatTakes, BeatReturns, UserPcs, Shape, Typed
  <2> QED BY <2>1, <2>2, <1>0
<1>7. ASSUME Evict PROVE Kept /\ Same
  BY <1>7 DEF Evict
<1>8. ASSUME DeleteStarts \/ DeleteTakes \/ DeleteReturns PROVE Same
  BY <1>8 DEF DeleteStarts, DeleteTakes, DeleteReturns
<1>9. Same => Refusals
  OBVIOUS
<1> HIDE DEF Same, Kept, Refusals
<1>10. Refusals /\ (Kept \/ DeleteStarts \/ DeleteTakes \/ DeleteReturns)
  BY StepKinds, <1>1, <1>2, <1>3, <1>4, <1>5, <1>6, <1>7, <1>8, <1>9 DEF Others, BeatStep
<1> QED BY <1>10 DEF Kept, Refusals

\* Every step leaves what somebody waits for begun.
LEMMA NextBegun ==
  ASSUME Shape, Begun, Next
  PROVE  Begun'
<1> USE Promises, Users
<1>1. ASSUME NEW q \in Closers, NEW i \in Insts, prev'[q] = i PROVE Ending(i)'
  <2>1. prev[q] = i \/ closing = i
    BY <1>1, PromisesMove
  <2>2. Ending(i)
    BY <2>1 DEF Begun, Shape, Life, Ending
  <2> QED BY <2>2, EndsStay
<1>2. ASSUME NEW i \in Insts, deleter'.pc = "prev", atCall'[Retirement] = i PROVE Ending(i)'
  <2>1. CASE UNCHANGED deleter /\ atCall'[Retirement] = atCall[Retirement]
    BY <1>2, <2>1, EndsStay DEF Begun
  <2>2. CASE DeleteStarts
    <3>1. atCall'[Retirement] = closingInst
      BY <2>2 DEF DeleteStarts, Shape, Typed
    <3>2. st' = IF closingInst = 0 THEN st ELSE Closed(closingInst)
      BY <2>2, <1>2 DEF DeleteStarts, RetireCached
    <3> QED BY <1>2, <3>1, <3>2, ClosedEnds
  <2>3. CASE DeleteTakes \/ DeleteReturns
    BY <1>2, <2>3 DEF DeleteTakes, RetireCached, DeleteReturns, Idle
  <2> QED BY <2>1, <2>2, <2>3, RetirementMoves
<1>3. ASSUME NEW i \in Insts, deleter'.pc = "retire", deleter'.inst = i PROVE Ending(i)'
  <2>1. CASE UNCHANGED deleter
    BY <1>3, <2>1, EndsStay DEF Begun
  <2>2. CASE DeleteStarts \/ DeleteTakes
    <3>1. RetireCached
      BY <2>2, <1>3 DEF DeleteStarts, DeleteTakes
    <3> QED BY <1>3, <3>1, ClosedEnds DEF RetireCached
  <2>3. CASE DeleteReturns
    BY <1>3, <2>3 DEF DeleteReturns, Idle
  <2> QED BY <2>1, <2>2, <2>3, RetirementMoves
<1>4. ASSUME NEW p \in Procs, NEW i \in Insts, proc'[p].pc = "refused", proc'[p].inst = i PROVE Ending(i)'
  <2>1. CASE proc'[p] = proc[p]
    BY <1>4, <2>1, EndsStay DEF Begun
  <2>2. CASE InitDone(p)
    <3>1. proc[p].inst \in Insts
      BY <2>2 DEF InitDone, Shape, Own
    <3>2. /\ To(p, "refused", proc[p].inst) /\ st' = [st EXCEPT ![proc[p].inst] = "closing"]
      BY <1>4, <2>2, <3>1 DEF InitDone, To, Shape, Typed
    <3> QED BY <1>4, <3>1, <3>2 DEF To, Ending, Shape, Typed
  <2> QED BY <1>4, <2>1, <2>2, RetirementMoves
<1> QED BY <1>1, <1>2, <1>3, <1>4 DEF Begun

\* No reader with a pin begins to wait once the thread is deleted.
LEMMA ReadersGoOn ==
  ASSUME Shape, Next, tomb, NEW r \in Readers, proc[r].pc # "pinned"
  PROVE  proc'[r].pc # "pinned"
<1> USE Promises, Users DEF users, chans, deletion, savers, counts
<1>0. ASSUME NEW p \in Procs, NEW c \in UserPcs, NEW i \in Insts \cup {0}, To(p, c, i), p # r \/ c # "pinned"
      PROVE  proc'[r].pc # "pinned"
  BY <1>0, Moved DEF Shape
<1>1. ASSUME NEW p \in Procs, NEW j \in Insts, Makes(p, j) PROVE proc'[r].pc # "pinned"
  BY <1>1, <1>0 DEF Makes, UserPcs
<1>2. ASSUME NEW j \in Insts, SaverStep(j) PROVE UNCHANGED proc
  BY <1>2 DEF SaverStep, WriteStarts, WriteLands, SaverCloses, EvictReturns
<1>3. ASSUME NEW p \in Procs, InitReads(p) \/ Change(p) PROVE UNCHANGED proc
  BY <1>3 DEF InitReads, Change
<1>4. ASSUME NEW p \in Procs, InitDone(p) \/ Refused(p) \/ Joins(p) PROVE proc'[r].pc # "pinned"
  <2>1. \E c \in UserPcs \ {"pinned"}, i \in Insts \cup {0} : To(p, c, i)
    BY <1>4 DEF InitDone, Refused, Joins, UserPcs, Shape, Typed
  <2> QED BY <2>1, <1>0
<1>5. ASSUME NEW p \in Procs, Waits(p) PROVE proc'[r].pc # "pinned"
  <2>1. p # r
    BY <1>5 DEF Waits, Turn
  <2> QED BY <1>5, <2>1, <1>0 DEF Waits, UserPcs
<1>6. ASSUME NEW q \in Readers, ReadAsks(q) \/ ReadEnds(q) \/ (ReadPins(q) /\ tomb)
      PROVE  proc'[r].pc # "pinned"
  BY <1>6, <1>0 DEF ReadAsks, ReadEnds, ReadPins, UserPcs
<1>7. CASE RunEnds \/ BeatStep
  <2>1. \E p \in {Beat, Run}, c \in UserPcs, i \in Insts \cup {0} : To(p, c, i)
    BY <1>7 DEF RunEnds, BeatStep, BeatCloses, BeatAwaitsPins, BeatTakes, BeatReturns, UserPcs, Shape, Typed
  <2> QED BY <2>1, <1>0
<1>8. CASE Evict \/ DeleteStarts \/ DeleteTakes \/ DeleteReturns
  BY <1>8 DEF Evict, DeleteStarts, DeleteTakes, DeleteReturns
<1> QED BY StepKinds, <1>1, <1>2, <1>3, <1>4, <1>5, <1>6, <1>7, <1>8 DEF Others

\* A deleted thread stays so until the service, which is not closing, revives it.
LEMMA StaysDeleted ==
  ASSUME Shape, Next, tomb, running
  PROVE  tomb'
<1> USE Promises, Users DEF users, chans, deletion, savers, counts
<1>1. ASSUME NEW p \in Procs, Turn(p) PROVE tomb'
  BY <1>1 DEF Turn
<1>2. ASSUME NEW j \in Insts, SaverStep(j) PROVE tomb'
  BY <1>2 DEF SaverStep, WriteStarts, WriteLands, SaverCloses, EvictReturns
<1>3. ASSUME NEW p \in Procs, InitReads(p) \/ InitDone(p) \/ Refused(p) \/ Change(p) PROVE tomb'
  BY <1>3 DEF InitReads, InitDone, Refused, Change
<1>4. ASSUME NEW r \in Readers, ReadAsks(r) \/ ReadEnds(r) \/ (ReadPins(r) /\ tomb) PROVE tomb'
  BY <1>4 DEF ReadAsks, ReadEnds, ReadPins
<1>5. CASE RunEnds \/ BeatStep
  BY <1>5 DEF RunEnds, BeatStep, BeatCloses, BeatAwaitsPins, BeatTakes, BeatReturns
<1>6. CASE Evict \/ DeleteStarts \/ DeleteTakes \/ DeleteReturns
  BY <1>6 DEF Evict, DeleteStarts, DeleteTakes, RetireCached, DeleteReturns
<1> QED BY StepKinds, <1>1, <1>2, <1>3, <1>4, <1>5, <1>6 DEF Others, Waits, Joins, Makes

\* Every step keeps the waits free of rings.
LEMMA NextRing ==
  ASSUME Shape, NoRing, Next
  PROVE  NoRing'
<1> USE Promises, Users
<1>1. prev'[Retirement] # Retirement
  <2>1. CASE DeleteStarts
    <3>1. prev'[Retirement] = closing /\ ~retiring
      BY <2>1 DEF DeleteStarts, Shape, Typed, Chans
    <3> QED BY <3>1 DEF Shape, Chans
  <2>2. CASE prev'[Retirement] \in {NoClose, prev[Retirement]}
    BY <2>2 DEF NoRing
  <2> QED BY <2>1, <2>2, PromisesMove
<1>2. ASSUME prev'[Retirement] = BeatClose
      PROVE  tomb' /\ prev'[BeatClose] # Retirement /\ \A r \in Readers : proc'[r].pc # "pinned"
  <2>1. CASE DeleteStarts
    <3>1. /\ tomb' = TRUE /\ Quiet /\ deleter.pc = "idle" /\ proc' = proc
          /\ prev'[BeatClose] = prev[BeatClose]
      BY <2>1 DEF DeleteStarts, users, Shape, Typed
    <3>2. ~retiring /\ prev'[BeatClose] # Retirement
      BY <3>1 DEF Shape, Chans
    <3>3. ASSUME NEW r \in Readers, proc[r].pc = "pinned" PROVE FALSE
      <4>1. r \in pinned
        BY <3>3 DEF Shape, Pins, Entitled
      <4>2. Resumes(r)
        BY <3>2, <3>3, <4>1 DEF Resumes, MayGet
      <4> QED BY <3>1, <3>3, <4>2 DEF Quiet
    <3> QED BY <3>1, <3>2, <3>3
  <2>2. CASE prev[Retirement] = BeatClose
    <3>1. /\ tomb /\ prev[BeatClose] # Retirement /\ \A r \in Readers : proc[r].pc # "pinned"
      BY <2>2 DEF NoRing
    <3>2. proc[Beat].pc \in {"prev", "pins", "closing"} /\ running
      BY <2>2 DEF Shape, Chans, Pins
    <3>3. prev'[BeatClose] # Retirement
      <4>1. ~BeatCloses
        BY <3>2 DEF BeatCloses
      <4> QED BY <3>1, <4>1, PromisesMove
    <3>4. tomb' /\ \A r \in Readers : proc'[r].pc # "pinned"
      BY <3>1, <3>2, StaysDeleted, ReadersGoOn
    <3> QED BY <3>3, <3>4
  <2> QED BY <1>2, <2>1, <2>2, PromisesMove
<1> QED BY <1>1, <1>2 DEF NoRing

\* No step makes somebody else close.
LEMMA NextOneCloser ==
  ASSUME Shape, OneCloser, Next
  PROVE  OneCloser'
<1> USE Promises, Users DEF users, chans, deletion, savers, counts
<1>0. ASSUME NEW p \in Procs, NEW c \in UserPcs, NEW i \in Insts \cup {0}, To(p, c, i),
             p = Beat \/ c \notin {"prev", "pins", "closing"}
      PROVE  OneCloser'
  BY <1>0, Moved DEF Shape, OneCloser
<1>1. ASSUME NEW p \in Procs, NEW j \in Insts, Makes(p, j) PROVE OneCloser'
  BY <1>1, <1>0 DEF Makes, UserPcs
<1>2. ASSUME NEW j \in Insts, SaverStep(j) PROVE UNCHANGED proc
  BY <1>2 DEF SaverStep, WriteStarts, WriteLands, SaverCloses, EvictReturns
<1>3. ASSUME NEW p \in Procs, InitReads(p) \/ Change(p) PROVE UNCHANGED proc
  BY <1>3 DEF InitReads, Change
<1>4. ASSUME NEW p \in Procs, InitDone(p) \/ Refused(p) \/ Joins(p) \/ Waits(p) PROVE OneCloser'
  <2>1. \E c \in {"refused", "using", "pinned"}, i \in Insts \cup {0} : To(p, c, i)
    BY <1>4 DEF InitDone, Refused, Joins, Waits, Shape, Typed
  <2> QED BY <2>1, <1>0 DEF UserPcs
<1>5. ASSUME NEW r \in Readers, ReadAsks(r) \/ ReadEnds(r) \/ (ReadPins(r) /\ tomb) PROVE OneCloser'
  BY <1>5, <1>0 DEF ReadAsks, ReadEnds, ReadPins, UserPcs
<1>6. CASE RunEnds
  BY <1>6, <1>0 DEF RunEnds, UserPcs
<1>7. CASE BeatStep
  <2>1. \E c \in UserPcs, i \in Insts \cup {0} : To(Beat, c, i)
    BY <1>7 DEF BeatStep, BeatCloses, BeatAwaitsPins, BeatTakes, BeatReturns, UserPcs, Shape, Typed
  <2> QED BY <2>1, <1>0
<1>8. ASSUME Evict \/ DeleteStarts \/ DeleteTakes \/ DeleteReturns PROVE UNCHANGED proc
  BY <1>8 DEF Evict, DeleteStarts, DeleteTakes, DeleteReturns
<1>9. UNCHANGED proc => OneCloser'
  BY DEF OneCloser
<1> QED BY StepKinds, <1>1, <1>2, <1>3, <1>4, <1>5, <1>6, <1>7, <1>8, <1>9 DEF Others

\* Follow the waits: from whoever waits, they lead to somebody who does not.
LEMMA WaitsEnd ==
  ASSUME Shape, Begun, NoRing, OneCloser
  PROVE  NobodyStuck
<1> SUFFICES ASSUME (\E p \in Procs : proc[p].pc # "idle") \/ deleter.pc # "idle",
                    \A p \in Procs : ~Resumes(p), ~DeleterResumes,
                    \A i \in Insts : ~MaySave(i) /\ ~flight[i] /\ ~MayClose(i) /\ ~MaySettle(i)
             PROVE  FALSE
  BY DEF NobodyStuck
<1> USE Promises, Users
<1>1. ASSUME NEW i \in Insts, Ending(i) PROVE st[i] = "closed"
  BY <1>1 DEF Ending, MaySave, MayClose
<1>2. closing \notin Insts /\ \A q \in Closers : prev[q] \notin Insts
  <2>1. \A i \in Insts : i # closing /\ i # prev[BeatClose] /\ i # prev[Retirement]
    BY <1>1 DEF MaySettle, Begun, Shape, Life, Ending
  <2> QED BY <2>1
<1>3. deleter.pc # "idle" => prev[Retirement] = BeatClose
  <2>1. deleter.pc # "retire"
    <3>1. deleter.pc = "retire" => IsOver(deleter.inst)
      BY <1>1 DEF Begun, IsOver, Shape, Typed
    <3> QED BY <3>1 DEF DeleterResumes
  <2>2. deleter.pc = "prev" => IsOver(atCall[Retirement])
    BY <1>1 DEF Begun, IsOver, Shape, Typed
  <2>3. deleter.pc = "prev" => prev[Retirement] # NoClose
    BY <2>2 DEF DeleterResumes
  <2> QED BY <2>1, <2>3, <1>2 DEF NoRing, Shape, Typed
<1>4. ASSUME NEW p \in Procs PROVE proc[p].pc \in {"idle", "asks", "pinned", "prev", "pins"}
  <2>1. proc[p].pc \in UserPcs /\ proc[p].inst \in Insts \cup {0}
    BY DEF Shape, Typed
  <2>2. proc[p].pc # "using"
    BY DEF Resumes
  <2>3. proc[p].pc # "init"
    BY DEF Resumes, Shape, Own
  <2>4. proc[p].pc = "refused" => st[proc[p].inst] = "closed"
    BY <1>1 DEF Begun, Shape, Own
  <2>5. proc[p].pc # "refused"
    BY <2>4 DEF Resumes
  <2>6. proc[p].pc = "closing" => IsOver(proc[p].inst)
    BY <1>1, <2>1 DEF Shape, Own, Ending, IsOver
  <2>7. proc[p].pc # "closing"
    BY <2>6 DEF Resumes
  <2> QED BY <2>1, <2>2, <2>3, <2>5, <2>7 DEF UserPcs
<1>5. proc[Beat].pc # "prev"
  <2>1. SUFFICES ASSUME proc[Beat].pc = "prev" PROVE FALSE
    OBVIOUS
  <2>2. prev[BeatClose] # NoClose
    BY <2>1 DEF Resumes
  <2>3. prev[BeatClose] = Retirement
    BY <2>2, <1>2 DEF Shape, Typed, Chans
  <2>4. prev[Retirement] = BeatClose
    BY <2>3, <1>3 DEF Shape, Chans
  <2> QED BY <2>3, <2>4 DEF NoRing
<1>6. proc[Beat].pc # "pins"
  <2>1. SUFFICES ASSUME proc[Beat].pc = "pins" PROVE FALSE
    OBVIOUS
  <2>2. pinWait
    BY <2>1 DEF Resumes
  <2>3. PICK r \in Readers : r \in pinned
    BY <2>1, <2>2 DEF Shape, Typed, Pins, Entitled
  <2>4. proc[r].pc = "pinned"
    BY <2>3, <1>4 DEF Shape, Pins, Entitled
  <2>5. retiring
    BY <2>3, <2>4 DEF Resumes, MayGet
  <2> QED BY <2>4, <2>5, <1>3 DEF NoRing, Shape, Chans
<1>7. proc[Beat].pc \notin {"prev", "pins", "closing"}
  BY <1>4, <1>5, <1>6
<1>8. deleter.pc = "idle" /\ ~retiring /\ closing = NoClose
  BY <1>2, <1>3, <1>7 DEF Shape, Typed, Chans
<1>9. ASSUME NEW p \in Procs PROVE proc[p].pc \in {"idle", "prev", "pins"}
  BY <1>4, <1>8 DEF Resumes, MayGet
<1> QED BY <1>7, <1>8, <1>9 DEF OneCloser

-----------------------------------------------------------------------------
\* When all is quiet nothing is left behind in the channels.
LEMMA QuietMeansEmpty ==
  ASSUME Shape
  PROVE  NothingLeftBehind
<1> SUFFICES ASSUME \A p \in Procs : proc[p].pc = "idle", deleter.pc = "idle", closing \notin Insts
             PROVE  closing = NoClose /\ closingInst = 0 /\ ~retiring /\ pinned = {}
  BY DEF NothingLeftBehind
<1>1. ~retiring /\ closing # BeatClose /\ closing # Retirement
  BY Users DEF Shape, Chans
<1>2. closing = NoClose /\ closingInst = 0
  BY <1>1 DEF Shape, Typed, Named, Closers
<1>3. pinned = {}
  BY Users DEF Shape, Typed, Pins, Entitled
<1> QED BY <1>1, <1>2, <1>3

\* For any number of readers, runs, deletions and savers the tables fit together,
\* one saver may write the file of a thread, and nothing blocks its next user.
THEOREM RegistryCorrect == Spec => []RegistryInv
<1>1. Shape => TypeOK
  <2> SUFFICES ASSUME Shape PROVE TypeOK
    OBVIOUS
  <2> USE Users DEF Shape, Typed
  <2>1. epoch \in 1 .. (MaxDeletes + 1)
    BY RegistryAssumption
  <2>2. /\ \A r \in Readers : r \in pinned <=> proc[r].pc \in {"pinned", "init", "refused", "using"}
        /\ (Beat \in pinned => running) /\ (proc[Beat].pc # "idle" => running)
    BY DEF Pins, Entitled
  <2>3. cache # 0 => st[cache] = "open" \/ poisoned[cache]
    BY DEF Life
  <2>4. retiring <=> deleter.pc # "idle"
    BY DEF Chans
  <2> QED BY <2>1, <2>2, <2>3, <2>4 DEF TypeOK
<1>2. IInv => RegistryInv
  BY <1>1, QuietMeansEmpty DEF IInv, Looked, RegistryInv
<1> QED BY <1>2, Invariant, PTL

\* Nobody's saver is closed under him, except by the deletion of the thread.
THEOREM StaysOpen == Spec => []InUseStaysOpen
<1>1. IInv => InUseStaysOpen
  BY DEF IInv, Shape, Typed, Own, InUseStaysOpen
<1> QED BY <1>1, Invariant, PTL

\* Once a deletion is through and no overtaken creation is left, the file holds
\* nothing of an earlier incarnation of the thread.
THEOREM NothingComesBack == Spec => []NoResurrection
<1>1. IInv => NoResurrection
  BY DEF IInv, Looked, Swept, NoResurrection
<1> QED BY <1>1, Invariant, PTL

\* For any number of readers, runs, deletions and savers, the waits for pins, closes
\* and retirements never close into a ring: while a user or a deletion is on his way,
\* what somebody awaits is over or a saver has work to do.
THEOREM WaitsFormNoRing == Spec => []NobodyStuck
<1>1. Init => Begun /\ NoRing /\ OneCloser
  <2>1. Init => \A q \in Closers : prev[q] = NoClose
    BY DEF Init
  <2> QED BY <2>1, Promises DEF Init, Idle, Begun, NoRing, OneCloser, Ending
<1>2. Shape /\ (Begun /\ NoRing /\ OneCloser) /\ [Next]_vars => (Begun /\ NoRing /\ OneCloser)'
  <2>1. CASE UNCHANGED vars
    BY <2>1 DEF vars, users, chans, deletion, savers, Begun, Ending, NoRing, OneCloser
  <2>2. CASE Next
    BY <2>2, NextBegun, NextRing, NextOneCloser
  <2> QED BY <2>1, <2>2
<1>3. IInv => Shape
  BY DEF IInv
<1> QED BY <1>1, <1>2, <1>3, Invariant, WaitsEnd, PTL DEF Spec
=============================================================================
