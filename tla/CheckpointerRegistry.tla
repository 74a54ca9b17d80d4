-------------------------- MODULE CheckpointerRegistry --------------------------
(***************************************************************************)
(* Who has the saver of one thread (agent/runtime.ts): the LRU cache, pins, *)
(* reusable closes, evictions, and the retirement of a deleted thread, with *)
(* their users: withCheckpointer (readers), the runs of a service thread    *)
(* (heartbeat, scheduler, ChatX: pin, get, use, unpin, close), the runs of  *)
(* an ordinary thread (the busy guard), and threads:delete.                 *)
(*                                                                          *)
(* A saver is SqlJsSaver seen from outside: initialize may rewrite what it  *)
(* recovered, an open saver may have a write in flight, close writes what   *)
(* is unsaved and retire does not.  The file is abstracted to the           *)
(* incarnation of the thread whose data it holds.  Other threads only       *)
(* appear as the pressure that evicts this one.  Awaiting a helper whose    *)
(* condition already holds is not a step.                                   *)
(***************************************************************************)
EXTENDS Naturals, FiniteSets

CONSTANTS Readers, MaxReads, MaxRuns, MaxDeletes, MaxInst

Beat == "beat"        \* the runs of a service thread, one at a time
Run == "run"          \* an agent run of an ordinary thread

ASSUME RegistryAssumption ==
  /\ MaxReads \in Nat /\ MaxRuns \in Nat /\ MaxDeletes \in Nat /\ MaxInst \in Nat
  /\ Beat \notin Readers /\ Run \notin Readers

Procs == Readers \cup {Beat, Run}
Insts == 1 .. MaxInst

\* The promises in closingCheckpointers: an eviction's is its saver's number.
NoClose == 0
BeatClose == MaxInst + 1
Retirement == MaxInst + 2
Closers == {BeatClose, Retirement}

VARIABLES
  kind,       \* "service" or "ordinary"
  proc,       \* what a user of the thread's saver is doing, and its saver
  pinned,     \* the users that hold a pin
  pinWait,    \* the service's close waits for the pins
  running,    \* the service's own gate
  cache,      \* checkpointers.get(thread), 0 if none
  closing,    \* closingCheckpointers: whose promise it is
  closingInst,\* closingInstances
  retiring,   \* retiringCheckpointers has an entry
  prev,       \* the close that a close or a retirement found and waits for
  atCall,     \* the saver it found: instanceAtCall, closingInstance
  deleter,    \* the retirement ("idle", "prev", "retire") and the cached saver it took
  tomb, epoch,\* the thread is deleted; which incarnation is the current one
  st,         \* of a saver: "none", "init", "open", "closing", "closed"
  born, data, \* the incarnation it was made in, and the one its rows are from
  dirty, flight, poisoned,  \* unsaved, a write is under way, retired
  file,       \* the incarnation whose rows are on disk, 0 if there is no file
  strays,     \* savers made where the code does not look, see Obtain, InitReads and Refused
  reads, runs, deletes

users == <<kind, proc, pinned, pinWait, running>>
chans == <<closing, closingInst, retiring, prev, atCall>>
deletion == <<deleter, tomb, epoch>>
savers == <<st, born, data, dirty, flight, poisoned>>
counts == <<reads, runs, deletes>>
vars == <<users, cache, chans, deletion, savers, file, strays, counts>>

Idle == [pc |-> "idle", inst |-> 0]

Init ==
  /\ kind \in {"service", "ordinary"}
  /\ proc = [p \in Procs |-> Idle]
  /\ pinned = {} /\ pinWait = FALSE /\ running = FALSE
  /\ cache = 0 /\ closing = NoClose /\ closingInst = 0 /\ retiring = FALSE
  /\ prev = [o \in Closers |-> NoClose] /\ atCall = [o \in Closers |-> 0]
  /\ deleter = Idle /\ tomb = FALSE /\ epoch = 1
  /\ st = [i \in Insts |-> "none"]
  /\ born = [i \in Insts |-> 0] /\ data = [i \in Insts |-> 0]
  /\ dirty = [i \in Insts |-> FALSE] /\ flight = [i \in Insts |-> FALSE]
  /\ poisoned = [i \in Insts |-> FALSE]
  /\ file = 1 /\ strays = {}
  /\ reads = 0 /\ runs = 0 /\ deletes = 0

\* p goes on to pc, with saver i.
To(p, pc, i) == proc' = [proc EXCEPT ![p] = [pc |-> pc, inst |-> i]]

\* The promise of operation o settles: whoever awaits it may go on.
Settle(o) == prev' = [q \in Closers |-> IF prev[q] = o THEN NoClose ELSE prev[q]]

IsOver(i) == i # 0 => st[i] = "closed"

-----------------------------------------------------------------------------
\* What everybody awaits.  getCheckpointerInternal waits for a retirement and, if
\* nobody holds a pin, for a close.
MayGet(pins) == ~retiring /\ (pins = {} => closing = NoClose)

\* A user of the saver is on his way, and what he awaits is over.
Resumes(p) ==
  /\ proc[p].pc # "idle"
  /\ proc[p].pc = "asks" => closing = NoClose
  /\ proc[p].pc = "pinned" => MayGet(pinned)
  /\ proc[p].pc = "init" => ~flight[proc[p].inst]
  /\ proc[p].pc = "refused" => st[proc[p].inst] = "closed"
  /\ proc[p].pc = "prev" => prev[BeatClose] = NoClose
  /\ proc[p].pc = "pins" => ~pinWait
  /\ proc[p].pc = "closing" => IsOver(proc[p].inst)

\* Mutant: a retirement waits for the pins.
DeleterResumes_AwaitsPins ==
  /\ deleter.pc # "idle"
  /\ deleter.pc = "prev" => prev[Retirement] = NoClose /\ IsOver(atCall[Retirement])
  /\ deleter.pc = "retire" => IsOver(deleter.inst) /\ pinned = {}

\* A retirement is under way, and what it awaits is over.
DeleterResumes ==
  /\ deleter.pc # "idle"
  /\ deleter.pc = "prev" => prev[Retirement] = NoClose /\ IsOver(atCall[Retirement])
  /\ deleter.pc = "retire" => IsOver(deleter.inst)

\* A saver has something to save, is done with its close, or its eviction is over.
MaySave(i) == st[i] \in {"open", "closing"} /\ dirty[i] /\ ~flight[i] /\ ~poisoned[i]
MayClose(i) == st[i] = "closing" /\ ~flight[i] /\ (dirty[i] => poisoned[i])
MaySettle(i) == st[i] = "closed" /\ i \in {closing, prev[BeatClose], prev[Retirement]}

\* A continuation is due before any other step on the thread: a close or a
\* retirement that no longer waits, an eviction whose close is over.
Due == \/ proc[Beat].pc \in {"prev", "pins"} /\ Resumes(Beat)
       \/ deleter.pc = "prev" /\ DeleterResumes
       \/ \E i \in Insts : MaySettle(i)

\* The next handler, timer or completed write also comes after the users whom a
\* retirement or a close kept from a saver.
Quiet == ~Due /\ \A p \in Procs : proc[p].pc = "pinned" => ~Resumes(p)

-----------------------------------------------------------------------------
\* The savers: the background save takes a snapshot, and the write lands.
WriteStarts(i) ==
  /\ MaySave(i)
  /\ dirty' = [dirty EXCEPT ![i] = FALSE] /\ flight' = [flight EXCEPT ![i] = TRUE]
  /\ UNCHANGED <<users, cache, chans, deletion, st, born, data, poisoned, file, strays, counts>>

WriteLands(i) ==
  /\ flight[i] /\ Quiet
  /\ flight' = [flight EXCEPT ![i] = FALSE] /\ file' = data[i]
  /\ UNCHANGED <<users, cache, chans, deletion, st, born, data, dirty, poisoned, strays, counts>>

\* close() and retire() are over: nothing is under way, or unsaved if it counts.
SaverCloses(i) ==
  /\ MayClose(i)
  /\ st' = [st EXCEPT ![i] = "closed"]
  /\ UNCHANGED <<users, cache, chans, deletion, born, data, dirty, flight, poisoned, file, strays, counts>>

\* Creations that a deletion overtook: they will be refused.
Overtaken == {i \in Insts : born[i] < epoch /\ \E p \in Procs :
                proc[p].inst = i /\ proc[p].pc \in {"init", "refused"}}

\* close() of a saver that may be closed already, and retire() of one.
Closed(i) == [st EXCEPT ![i] = IF @ = "open" THEN "closing" ELSE @]
Poison(S) == poisoned' = [i \in Insts |-> poisoned[i] \/ i \in S]

-----------------------------------------------------------------------------
\* getCheckpointerInternal after its waits: the cached saver or a new one.  Not
\* looked at: another creation under way, and for who has a pin an eviction.
Beside == {j \in Insts : st[j] = "init" \/ closing = j} \ Overtaken

Obtain(p) ==
  IF cache # 0
  THEN To(p, "using", cache) /\ UNCHANGED <<savers, strays>>
  ELSE \E i \in Insts :
         /\ st[i] = "none" /\ \A j \in 1 .. (i - 1) : st[j] # "none"
         /\ To(p, "init", i)
         /\ st' = [st EXCEPT ![i] = "init"]
         /\ born' = [born EXCEPT ![i] = epoch]
         /\ strays' = strays \cup (IF Beside = {} THEN {} ELSE Beside \cup {i})
         /\ UNCHANGED <<data, dirty, flight, poisoned>>

GetSaver(p, pins) ==
  IF MayGet(pins) THEN Obtain(p) ELSE To(p, "pinned", 0) /\ UNCHANGED <<savers, strays>>

Get(p) ==
  /\ proc[p].pc = "pinned" /\ Resumes(p)
  /\ Obtain(p)
  /\ UNCHANGED <<kind, pinned, pinWait, running, cache, chans, deletion, file, counts>>

\* initialize reads the file, and may have to write it back recovered.  What a
\* creation overtaken by the deletion wrote back is read like any other file.
InitReads(p) ==
  LET i == proc[p].inst
  IN /\ proc[p].pc = "init" /\ Resumes(p) /\ data[i] = 0
     /\ data' = [data EXCEPT ![i] = IF file = 0 THEN born[i] ELSE file]
     /\ \E rewrites \in {FALSE, file # 0} : flight' = [flight EXCEPT ![i] = rewrites]
     /\ strays' = strays \cup (IF file \in 1 .. (born[i] - 1) /\ Overtaken # {} THEN {i} ELSE {})
     /\ UNCHANGED <<users, cache, chans, deletion, st, born, dirty, poisoned, file, counts>>

\* After initialize: a thread deleted meanwhile gets no saver, even if it was
\* revived since; what initialize rewrote is swept unless it has a new owner.
InitDone(p) ==
  LET i == proc[p].inst
  IN /\ proc[p].pc = "init" /\ Resumes(p) /\ data[i] # 0
     /\ IF tomb \/ epoch # born[i]
        THEN /\ To(p, "refused", i)
             /\ st' = [st EXCEPT ![i] = "closing"] /\ Poison({i})
             /\ UNCHANGED <<cache, dirty>>
        ELSE /\ To(p, "using", i) /\ cache' = i
             /\ st' = [st EXCEPT ![i] = "open"]
             /\ dirty' = [dirty EXCEPT ![i] = TRUE]
             /\ UNCHANGED poisoned
     /\ UNCHANGED <<kind, pinned, pinWait, running, chans, deletion, born, data, flight, file, strays, counts>>

\* Mutant: what initialize rewrote is left on the disk.
Refused_NoSweep(p) ==
  /\ proc[p].pc = "refused" /\ Resumes(p)
  /\ To(p, "using", 0)
  /\ UNCHANGED <<kind, pinned, pinWait, running, cache, chans, deletion, savers, file, strays, counts>>

Refused(p) ==
  LET i == proc[p].inst
  IN /\ proc[p].pc = "refused" /\ Resumes(p)
     /\ IF tomb \/ cache = 0 THEN file' = 0 /\ UNCHANGED strays
        ELSE UNCHANGED file /\ strays' = strays \cup (IF file = data[i] THEN {i} ELSE {})
     /\ To(p, "using", 0)
     /\ UNCHANGED <<kind, pinned, pinWait, running, cache, chans, deletion, savers, counts>>

\* A user of the saver changes something.
Change(p) ==
  /\ proc[p].pc = "using" /\ proc[p].inst # 0
  /\ LET i == proc[p].inst
     IN /\ st[i] = "open" /\ ~dirty[i] /\ ~poisoned[i]
        /\ dirty' = [dirty EXCEPT ![i] = TRUE]
  /\ UNCHANGED <<users, cache, chans, deletion, st, born, data, flight, poisoned, file, strays, counts>>

\* Releasing the last pin wakes the close that waits for it.
Unpin(p) == /\ pinned' = pinned \ {p}
            /\ pinWait' = (pinWait /\ pinned' # {})

-----------------------------------------------------------------------------
\* withCheckpointer: the wait for a close and the pin are one step, unless the
\* thread is deleted (then getCheckpointerInternal throws).
ReadAsks(r) ==
  /\ proc[r].pc = "idle" /\ reads < MaxReads
  /\ reads' = reads + 1
  /\ To(r, "asks", 0)
  /\ UNCHANGED <<kind, pinned, pinWait, running, cache, chans, deletion, savers, file, strays, deletes, runs>>

ReadPins(r) ==
  /\ proc[r].pc = "asks" /\ Resumes(r) /\ ~Due
  /\ IF tomb THEN To(r, "idle", 0) /\ UNCHANGED <<pinned, savers, strays>>
             ELSE pinned' = pinned \cup {r} /\ GetSaver(r, pinned')
  /\ UNCHANGED <<kind, pinWait, running, cache, chans, deletion, file, counts>>

ReadEnds(r) ==
  /\ proc[r].pc = "using" /\ Resumes(r)
  /\ To(r, "idle", 0) /\ Unpin(r)
  /\ UNCHANGED <<kind, running, cache, chans, deletion, savers, file, strays, counts>>

\* An agent run of an ordinary thread: the busy guard instead of a pin.
RunStarts ==
  /\ kind = "ordinary" /\ proc[Run].pc = "idle" /\ ~tomb /\ Quiet /\ runs < MaxRuns
  /\ runs' = runs + 1
  /\ GetSaver(Run, pinned)
  /\ UNCHANGED <<kind, pinned, pinWait, running, cache, chans, deletion, file, reads, deletes>>

RunEnds ==
  /\ proc[Run].pc = "using" /\ Resumes(Run)
  /\ To(Run, "idle", 0)
  /\ UNCHANGED <<kind, pinned, pinWait, running, cache, chans, deletion, savers, file, strays, counts>>

Busy == proc[Run].pc # "idle"

\* A run of a service thread: gate, pin, revive.
BeatStarts ==
  /\ kind = "service" /\ ~running /\ Quiet /\ runs < MaxRuns
  /\ runs' = runs + 1
  /\ running' = TRUE /\ pinned' = pinned \cup {Beat} /\ tomb' = FALSE
  /\ GetSaver(Beat, pinned')
  /\ UNCHANGED <<kind, pinWait, cache, chans, deleter, epoch, file, reads, deletes>>

\* Its end, and closeCheckpointer up to its first await.
BeatCloses ==
  /\ proc[Beat].pc = "using" /\ Resumes(Beat)
  /\ To(Beat, "prev", 0) /\ Unpin(Beat)
  /\ prev' = [prev EXCEPT ![BeatClose] = closing] /\ atCall' = [atCall EXCEPT ![BeatClose] = cache]
  /\ closing' = BeatClose
  /\ closingInst' = IF cache # 0 THEN cache ELSE closingInst
  /\ UNCHANGED <<kind, running, cache, retiring, deletion, savers, file, strays, counts>>

\* Mutant: the close does not wait for the pins.
BeatAwaitsPins_NoWait ==
  /\ proc[Beat].pc = "prev" /\ Resumes(Beat)
  /\ To(Beat, "pins", 0)
  /\ pinWait' = FALSE
  /\ UNCHANGED <<kind, pinned, running, cache, chans, deletion, savers, file, strays, counts>>

BeatAwaitsPins ==
  /\ proc[Beat].pc = "prev" /\ Resumes(Beat)
  /\ To(Beat, "pins", 0)
  /\ pinWait' = (pinned # {})
  /\ UNCHANGED <<kind, pinned, running, cache, chans, deletion, savers, file, strays, counts>>

BeatTakes ==
  /\ proc[Beat].pc = "pins" /\ Resumes(Beat)
  /\ To(Beat, "closing", cache)
  /\ cache' = 0
  /\ st' = IF cache = 0 THEN st ELSE Closed(cache)
  /\ UNCHANGED <<kind, pinned, pinWait, running, chans, deletion, born, data, dirty, flight, poisoned, file, strays, counts>>

\* Its promise settles, the channels are cleared by whoever owns them now, and
\* the gate goes down.
BeatReturns ==
  /\ proc[Beat].pc = "closing" /\ Resumes(Beat)
  /\ To(Beat, "idle", 0) /\ running' = FALSE
  /\ Settle(BeatClose)
  /\ closing' = IF closing = BeatClose THEN NoClose ELSE closing
  /\ closingInst' = IF closing = BeatClose /\ atCall[BeatClose] \in {0, closingInst} THEN 0 ELSE closingInst
  /\ atCall' = [atCall EXCEPT ![BeatClose] = 0]
  /\ UNCHANGED <<kind, pinned, pinWait, cache, retiring, deletion, savers, file, strays, counts>>

-----------------------------------------------------------------------------
\* Mutant: an eviction registers no close.
Evict_Untracked ==
  /\ cache # 0 /\ ~Busy /\ pinned = {}
  /\ st' = Closed(cache)
  /\ cache' = 0
  /\ UNCHANGED <<users, chans, deletion, born, data, dirty, flight, poisoned, file, strays, counts>>

\* evictIdleCheckpointers reaches this thread while other threads fill the cache.
Evict ==
  /\ cache # 0 /\ ~Busy /\ pinned = {}
  /\ st' = Closed(cache)
  /\ closing' = cache /\ closingInst' = cache /\ cache' = 0
  /\ UNCHANGED <<users, retiring, prev, atCall, deletion, born, data, dirty, flight, poisoned, file, strays, counts>>

EvictReturns(i) ==
  /\ MaySettle(i)
  /\ Settle(i)
  /\ closing' = IF closing = i THEN NoClose ELSE closing
  /\ closingInst' = IF closingInst = i THEN 0 ELSE closingInst
  /\ UNCHANGED <<users, cache, retiring, atCall, deletion, savers, file, strays, counts>>

-----------------------------------------------------------------------------
\* retireThreadCheckpointers: tombstone, epoch, poison what is closing, and
\* (at once if there is nothing to wait for) retire the cached saver.
RetireCached == /\ deleter' = [pc |-> "retire", inst |-> cache]
                /\ cache' = 0
                /\ Poison({cache})
                /\ st' = IF cache = 0 THEN st ELSE Closed(cache)

DeleteStarts ==
  /\ deleter.pc = "idle" /\ Quiet /\ deletes < MaxDeletes
  /\ deletes' = deletes + 1
  /\ tomb' = TRUE /\ epoch' = epoch + 1
  /\ prev' = [prev EXCEPT ![Retirement] = closing]
  /\ atCall' = [atCall EXCEPT ![Retirement] = closingInst]
  /\ closing' = Retirement /\ retiring' = TRUE
  /\ IF closing = NoClose /\ closingInst = 0
     THEN RetireCached
     ELSE /\ deleter' = [pc |-> "prev", inst |-> 0]
          /\ Poison({closingInst}) /\ st' = IF closingInst = 0 THEN st ELSE Closed(closingInst)
          /\ UNCHANGED cache
  /\ UNCHANGED <<users, closingInst, born, data, dirty, flight, file, strays, reads, runs>>

DeleteTakes ==
  /\ deleter.pc = "prev" /\ DeleterResumes
  /\ RetireCached
  /\ UNCHANGED <<users, chans, tomb, epoch, born, data, dirty, flight, file, strays, counts>>

\* Everything is closed: sweep the files, clear the channels, and let whoever
\* waits go on; the deletion's own sweeps follow in the same breath.
DeleteReturns ==
  /\ deleter.pc = "retire" /\ DeleterResumes
  /\ deleter' = Idle /\ file' = 0
  /\ Settle(Retirement)
  /\ closing' = IF closing = Retirement THEN NoClose ELSE closing
  /\ closingInst' = IF closingInst = atCall[Retirement] THEN 0 ELSE closingInst
  /\ retiring' = FALSE
  /\ atCall' = [atCall EXCEPT ![Retirement] = 0]
  /\ UNCHANGED <<users, cache, tomb, epoch, savers, strays, counts>>

-----------------------------------------------------------------------------
UserStep(p) == Get(p) \/ InitReads(p) \/ InitDone(p) \/ Refused(p)
BeatStep == BeatCloses \/ BeatAwaitsPins \/ BeatTakes \/ BeatReturns
SaverStep(i) == WriteStarts(i) \/ WriteLands(i) \/ SaverCloses(i) \/ EvictReturns(i)

\* What goes on by itself: awaits resume, writes land, operations on a saver end.
Progress ==
  \/ \E p \in Procs : UserStep(p)
  \/ \E r \in Readers : ReadPins(r) \/ ReadEnds(r)
  \/ RunEnds \/ BeatStep
  \/ DeleteTakes \/ DeleteReturns
  \/ \E i \in Insts : SaverStep(i)

Next ==
  \/ Progress
  \/ \E r \in Readers : ReadAsks(r)
  \/ RunStarts \/ BeatStarts \/ Evict \/ DeleteStarts
  \/ \E p \in Procs : Change(p)

Spec == Init /\ [][Next]_vars

-----------------------------------------------------------------------------
UserPcs == {"idle", "asks", "pinned", "init", "refused", "using", "prev", "pins", "closing"}

\* Shape of the state: pins belong to those who took them, the cached saver is
\* open and of this incarnation, and only the service's gate owner closes.
TypeOK ==
  /\ proc \in [Procs -> [pc : UserPcs, inst : Insts \cup {0}]]
  /\ deleter \in [pc : {"idle", "prev", "retire"}, inst : Insts \cup {0}]
  /\ pinned \subseteq Readers \cup {Beat} /\ closing \in Insts \cup Closers \cup {NoClose}
  /\ st \in [Insts -> {"none", "init", "open", "closing", "closed"}]
  /\ epoch \in 1 .. (MaxDeletes + 1) /\ file \in 0 .. epoch
  /\ \A r \in Readers : r \in pinned <=> proc[r].pc \in {"pinned", "init", "refused", "using"}
  /\ Beat \in pinned => running
  /\ proc[Beat].pc # "idle" => running
  /\ cache # 0 => st[cache] = "open" \/ poisoned[cache]
  /\ retiring <=> deleter.pc # "idle"

CanWrite(i) == flight[i] \/ (st[i] \in {"init", "open", "closing"} /\ ~poisoned[i])

\* At most one saver of the thread can write its file, as long as no stray was
\* made and apart from those on their way to being refused.
OneSaverPerFile ==
  strays = {} => \A i, j \in Insts \ Overtaken : i # j => ~(CanWrite(i) /\ CanWrite(j))

\* Nobody's saver is closed under him, except by the thread's deletion.
InUseStaysOpen ==
  \A p \in Procs : proc[p].pc = "using" /\ proc[p].inst # 0 =>
    st[proc[p].inst] = "open" \/ poisoned[proc[p].inst]

\* Once a deletion is through and no overtaken creation is left, the file
\* holds nothing of an earlier incarnation.
NoResurrection ==
  deleter.pc = "idle" /\ Overtaken = {} /\ strays = {} => file \in {0, epoch}

\* When all is quiet no channel still names a close, a retirement or a saver.
NothingLeftBehind ==
  /\ \A p \in Procs : proc[p].pc = "idle"
  /\ deleter.pc = "idle" /\ closing \notin Insts
  => closing = NoClose /\ closingInst = 0 /\ ~retiring /\ pinned = {}

\* The waits for pins, closes and retirements never close into a ring: as long
\* as somebody is on his way, what somebody awaits is over or a saver has work to
\* do (a deletion does not wait for pins for this reason, comment at
\* retiringCheckpointers).
NobodyStuck ==
  (\E p \in Procs : proc[p].pc # "idle") \/ deleter.pc # "idle" =>
    \/ \E p \in Procs : Resumes(p)
    \/ DeleterResumes
    \/ \E i \in Insts : MaySave(i) \/ flight[i] \/ MayClose(i) \/ MaySettle(i)

\* The tables of the registry fit together, one saver may write the file, and
\* when all is quiet nothing blocks the next user of the thread.
RegistryInv == TypeOK /\ OneSaverPerFile /\ NothingLeftBehind
=============================================================================
