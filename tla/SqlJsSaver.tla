------------------------------ MODULE SqlJsSaver ------------------------------
(***************************************************************************)
(* One checkpoint saver (checkpointer/sqljs-saver.ts): the database lives   *)
(* in memory, a debounced timer saves it in the background, flush,          *)
(* flushStrict and close drain what is unsaved, retire drops it because the *)
(* file is about to be deleted.  The main database (db/index.ts) saves and  *)
(* drains the same way, without close's and retire's part.                  *)
(*                                                                          *)
(* The content is the number of the last put that went in.  Awaits split    *)
(* the operations; where only microtasks lie between two pieces of code     *)
(* (the end of a drain and the reset of flushPromise, or the closing of     *)
(* the database) other microtasks may come between, but no timer and no     *)
(* completed write.                                                         *)
(***************************************************************************)
EXTENDS SqliteFile, Sequences

CONSTANTS MaxPuts, MaxStrict, MaxFails, MaxCrashes, MaxDamage, MaxStarts

ASSUME SaverAssumption ==
  /\ MaxPuts \in Nat /\ MaxStrict \in Nat /\ MaxFails \in Nat
  /\ MaxCrashes \in Nat /\ MaxDamage \in Nat /\ MaxStarts \in Nat

Writers == {"save", "flush", "close", "open"}

VARIABLES
  disk,       \* the file and its sidecars
  io,         \* persistSqliteSnapshot of each writer: its next step and its data
  open,       \* db is set
  mem, issued,\* the last put in db, and the last put at all
  dirty, timer, block,  \* dirty, saveTimer, blockAsyncWrite
  setup,      \* isSetup
  saving,     \* savePromise is set: runSaveLoop is in its await
  drain,      \* the drain of flushPromise and that of closePromise
  strict,     \* flushStrict calls that wait for somebody else's flushPromise
  need,       \* the last put the callers that wait for a drain have seen
  retired, opening,
  deleting,   \* variants unlinked so far by the deletion of the thread
  gone,       \* it has unlinked the live file
  acked,      \* the newest put a resolved flush or close has vouched for
  fails, crashes, damage, starts

file == <<disk, io>>
memory == <<open, mem, issued>>
flags == <<dirty, timer, block, setup, saving>>
waits == <<drain, strict, need>>
life == <<retired, opening, deleting, gone>>
budget == <<fails, crashes, damage, starts>>
vars == <<file, memory, flags, waits, life, acked, budget>>

NoIO == [step |-> "idle", val |-> 0]
Begin(v) == [step |-> "begin", val |-> v]
NoDrain == [pc |-> "none", failed |-> FALSE]

Fresh == /\ io = [w \in Writers |-> NoIO]
         /\ open = FALSE /\ dirty = FALSE /\ timer = FALSE /\ block = FALSE
         /\ setup = FALSE /\ saving = FALSE
         /\ drain = [d \in {"flush", "close"} |-> NoDrain]
         /\ strict = 0 /\ need = [d \in {"flush", "close"} |-> 0]
         /\ opening = "no"

Init == /\ Fresh
        /\ disk = EmptyDir /\ mem = 0 /\ issued = 0
        /\ retired = FALSE /\ deleting = 0 /\ gone = FALSE /\ acked = 0
        /\ fails = 0 /\ crashes = 0 /\ damage = 0 /\ starts = 0

\* Only microtasks are due: no timer fires and no write completes before them.
Microtasks ==
  \/ \E w \in Writers : io[w].step \in {"done", "failed"}
  \/ \E d \in {"flush", "close"} : drain[d].pc = "ending" \/ (drain[d].pc = "saving" /\ ~saving)
  \/ (strict > 0 /\ drain["flush"].pc = "none")

-----------------------------------------------------------------------------
\* The writes: one step of persistSqliteSnapshot of writer w, or its failure.
Tmp(w) == IF w = "open" THEN "recTmp" ELSE "tmp"

Write(w) ==
  /\ io[w].step \in PersistSteps /\ ~Microtasks
  /\ disk' = PersistEffect(disk, io[w].step, Tmp(w), io[w].val)
  /\ io' = [io EXCEPT ![w].step = PersistNext[@]]
  /\ UNCHANGED <<memory, flags, waits, life, acked, budget>>

WriteFails(w) ==
  /\ io[w].step \in PersistSteps /\ ~Microtasks /\ fails < MaxFails
  /\ fails' = fails + 1
  /\ io' = [io EXCEPT ![w].step = PersistFails(@)]
  /\ UNCHANGED <<disk, memory, flags, waits, life, acked, crashes, damage, starts>>

-----------------------------------------------------------------------------
\* The background save.

\* saveToDisk: arm the timer anew.
SaveToDisk == IF retired THEN UNCHANGED <<dirty, timer>> ELSE dirty' = TRUE /\ timer' = TRUE

\* The synchronous part of put, putWrites, updateCheckpointMetadata and
\* deleteThread, after their last await.
PutRow ==
  /\ open /\ issued < MaxPuts
  /\ issued' = issued + 1 /\ mem' = issued'
  /\ SaveToDisk
  /\ UNCHANGED <<file, open, block, setup, saving, waits, life, acked, budget>>

\* The head of runSaveLoop: take a snapshot, or leave the loop.
LoopHead(d) ==
  IF open /\ d /\ ~block /\ ~retired
  THEN dirty' = FALSE /\ saving' = TRUE /\ io' = [io EXCEPT !["save"] = Begin(mem)]
  ELSE dirty' = d /\ saving' = FALSE /\ io' = [io EXCEPT !["save"] = NoIO]

TimerFires ==
  /\ timer /\ ~Microtasks
  /\ timer' = FALSE
  /\ IF saving THEN UNCHANGED <<dirty, saving, io>> ELSE LoopHead(dirty)
  /\ UNCHANGED <<disk, memory, block, setup, waits, life, acked, budget>>

\* Mutant: the loop ends after one snapshot.
SaveSettles_Once ==
  /\ io["save"].step = "done"
  /\ io' = [io EXCEPT !["save"] = NoIO] /\ saving' = FALSE
  /\ dirty' = (dirty \/ block)
  /\ UNCHANGED <<disk, memory, timer, block, setup, waits, life, acked, budget>>

\* A snapshot of the loop is written: go round, unless a drain took over.
SaveSettles ==
  /\ io["save"].step = "done"
  /\ LoopHead(dirty \/ block)
  /\ UNCHANGED <<disk, memory, timer, block, setup, waits, life, acked, budget>>

\* Mutant: what could not be saved is not marked.
SaveFails_Clean ==
  /\ io["save"].step = "failed"
  /\ io' = [io EXCEPT !["save"] = NoIO] /\ saving' = FALSE
  /\ UNCHANGED <<disk, memory, dirty, timer, block, setup, waits, life, acked, budget>>

\* The loop gives up and leaves the state marked for the next change.
SaveFails ==
  /\ io["save"].step = "failed"
  /\ io' = [io EXCEPT !["save"] = NoIO] /\ saving' = FALSE
  /\ dirty' = TRUE
  /\ UNCHANGED <<disk, memory, timer, block, setup, waits, life, acked, budget>>

-----------------------------------------------------------------------------
\* drainSaves, for flush ("flush", keepBlocked = false) and close ("close").

\* Its end: flush unblocks and re-arms the timer if something is unsaved, and
\* whoever waits for it may rely on what they have seen.
DrainEnds(d, failed, t, dty) ==
  /\ drain' = [drain EXCEPT ![d] = [pc |-> "ending", failed |-> failed]]
  /\ io' = [io EXCEPT ![d] = NoIO]
  /\ dirty' = dty
  /\ IF d = "flush" THEN block' = FALSE /\ timer' = (t \/ (dty /\ open /\ ~retired))
                    ELSE block' = TRUE /\ timer' = t
  /\ acked' = IF failed \/ retired \/ need'[d] <= acked THEN acked ELSE need'[d]

\* Its loop: the next snapshot while there is something unsaved.
DrainLoop(d, t) ==
  IF open /\ dirty /\ ~retired
  THEN /\ drain' = [drain EXCEPT ![d].pc = "writing"]
       /\ io' = [io EXCEPT ![d] = Begin(mem)]
       /\ dirty' = FALSE /\ block' = TRUE /\ timer' = t
       /\ UNCHANGED acked
  ELSE DrainEnds(d, FALSE, t, dirty)

\* Mutant: it does not wait for a background save.
DrainStarts_NoWait(d) == DrainLoop(d, FALSE)

\* Its start: stop the timer, block the background save, wait for a running one.
DrainStarts(d) ==
  IF saving
  THEN /\ drain' = [drain EXCEPT ![d] = [pc |-> "saving", failed |-> FALSE]]
       /\ timer' = FALSE /\ block' = TRUE
       /\ UNCHANGED <<io, dirty, acked>>
  ELSE DrainLoop(d, FALSE)

DrainResumes(d) ==
  /\ drain[d].pc = "saving" /\ ~saving
  /\ UNCHANGED need
  /\ DrainLoop(d, timer)
  /\ UNCHANGED <<disk, memory, setup, saving, strict, life, budget>>

\* Mutant: the loop ends with its first write and calls everything saved.
DrainWrote_ClearsLate(d) ==
  /\ drain[d].pc = "writing" /\ io[d].step = "done"
  /\ UNCHANGED need
  /\ DrainEnds(d, FALSE, timer, FALSE)
  /\ UNCHANGED <<disk, memory, setup, saving, strict, life, budget>>

\* Its snapshot is on disk: look at dirty again.
DrainWrote(d) ==
  /\ drain[d].pc = "writing" /\ io[d].step = "done"
  /\ UNCHANGED need
  /\ DrainLoop(d, timer)
  /\ UNCHANGED <<disk, memory, setup, saving, strict, life, budget>>

DrainFails(d) ==
  /\ drain[d].pc = "writing" /\ io[d].step = "failed"
  /\ UNCHANGED need
  /\ DrainEnds(d, TRUE, timer, TRUE)
  /\ UNCHANGED <<disk, memory, setup, saving, strict, life, budget>>

-----------------------------------------------------------------------------
\* flush joins the drain (or the close) that is under way, also in the moment
\* after its last look at dirty: then it vouches for nothing the caller adds.
Flush ==
  /\ open
  /\ LET on == IF drain["close"].pc # "none" THEN "close" ELSE "flush"
     IN IF drain[on].pc # "none"
        THEN /\ drain[on].pc # "ending" /\ need[on] < mem
             /\ need' = [need EXCEPT ![on] = mem]
             /\ UNCHANGED <<drain, io, dirty, timer, block, acked>>
        ELSE need' = [need EXCEPT !["flush"] = mem] /\ DrainStarts("flush")
  /\ UNCHANGED <<disk, memory, setup, saving, strict, life, budget>>

\* flushStrict does not join: it waits until no drain is under way and starts
\* its own.  Nothing calls it on a saver that is being closed (ipc/threads.ts).
FlushStrict ==
  /\ open /\ drain["close"].pc = "none"
  /\ IF drain["flush"].pc # "none"
     THEN /\ strict < MaxStrict /\ strict' = strict + 1
          /\ UNCHANGED <<drain, need, io, dirty, timer, block, acked>>
     ELSE /\ need' = [need EXCEPT !["flush"] = mem] /\ DrainStarts("flush")
          /\ UNCHANGED strict
  /\ UNCHANGED <<disk, memory, setup, saving, life, budget>>

StrictGoesOn ==
  /\ strict > 0 /\ drain["flush"].pc = "none"
  /\ strict' = strict - 1
  /\ need' = [need EXCEPT !["flush"] = mem] /\ DrainStarts("flush")
  /\ UNCHANGED <<disk, memory, setup, saving, life, budget>>

\* flushPromise = null.
FlushReturns ==
  /\ drain["flush"].pc = "ending"
  /\ drain' = [drain EXCEPT !["flush"] = NoDrain]
  /\ need' = [need EXCEPT !["flush"] = 0]
  /\ UNCHANGED <<file, memory, flags, strict, life, acked, budget>>

\* close, up to its first await: a flush under way comes first.
CloseStarts ==
  /\ drain["close"].pc = "none" /\ strict = 0
  /\ need' = [need EXCEPT !["close"] = mem]
  /\ IF drain["flush"].pc # "none"
     THEN /\ drain' = [drain EXCEPT !["close"].pc = "flush"]
          /\ UNCHANGED <<io, dirty, timer, block, acked>>
     ELSE DrainStarts("close")

Close ==
  /\ open /\ CloseStarts
  /\ UNCHANGED <<disk, memory, setup, saving, strict, life, budget>>

CloseGoesOn ==
  /\ drain["close"].pc = "flush" /\ drain["flush"].pc = "none"
  /\ UNCHANGED need /\ DrainStarts("close")
  /\ UNCHANGED <<disk, memory, setup, saving, strict, life, budget>>

\* db.close(); a put since the drain's last look at dirty goes with it.
CloseReturns ==
  /\ drain["close"].pc = "ending"
  /\ open' = FALSE
  /\ drain' = [drain EXCEPT !["close"] = NoDrain]
  /\ need' = [need EXCEPT !["close"] = 0]
  /\ UNCHANGED <<file, mem, issued, flags, strict, life, acked, budget>>

\* retire poisons the instance before it closes.
Retire ==
  /\ ~retired /\ opening = "no" /\ strict = 0
  /\ retired' = TRUE
  /\ IF open /\ drain["close"].pc = "none"
     THEN LET next == IF drain["flush"].pc # "none" THEN "flush"
                      ELSE IF saving THEN "saving" ELSE "ending"   \* nothing to write
          IN /\ drain' = [drain EXCEPT !["close"].pc = next]
             /\ IF next = "flush" THEN UNCHANGED <<timer, block>>
                                  ELSE timer' = FALSE /\ block' = TRUE
     ELSE UNCHANGED <<drain, timer, block>>
  /\ UNCHANGED <<file, memory, dirty, setup, saving, strict, need, opening, deleting, gone, acked, budget>>

-----------------------------------------------------------------------------
\* initialize: read what is there, restore the file if that is not the live
\* one, then create the tables (once per instance) and arm a save for them.
OpenWith(v) ==
  /\ open' = TRUE /\ mem' = v
  /\ setup' = TRUE
  /\ IF setup THEN UNCHANGED <<dirty, timer>> ELSE dirty' = TRUE /\ timer' = TRUE

Initialize ==
  /\ ~open /\ ~retired /\ ~gone /\ opening = "no" /\ starts < MaxStarts
  /\ starts' = starts + 1
  /\ block' = FALSE
  /\ IF Choice(disk) \in {"", "live"}
     THEN /\ OpenWith(Recoverable(disk))
          /\ disk' = IF Choice(disk) = "" THEN Archived(disk) ELSE disk
          /\ UNCHANGED <<io, opening>>
     ELSE /\ disk' = Archived(disk)
          /\ io' = [io EXCEPT !["open"] = Begin(Recoverable(disk))]
          /\ opening' = "recovering"
          /\ UNCHANGED <<open, mem, setup, dirty, timer>>
  /\ UNCHANGED <<issued, saving, waits, retired, deleting, gone, acked, fails, crashes, damage>>

Recovered ==
  /\ io["open"].step = "done"
  /\ OpenWith(io["open"].val)
  /\ io' = [io EXCEPT !["open"] = NoIO] /\ opening' = "no"
  /\ UNCHANGED <<disk, issued, block, saving, waits, retired, deleting, gone, acked, budget>>

RecoveryFails ==
  /\ io["open"].step = "failed"
  /\ io' = [io EXCEPT !["open"] = NoIO] /\ opening' = "no"
  /\ UNCHANGED <<disk, memory, flags, waits, retired, deleting, gone, acked, budget>>

\* After a close the registry makes a new saver for the next user of the file.
NewInstance ==
  /\ ~open /\ ~retired /\ opening = "no" /\ setup
  /\ dirty' = FALSE /\ timer' = FALSE /\ block' = FALSE /\ setup' = FALSE
  /\ UNCHANGED <<file, memory, saving, waits, life, acked, budget>>

-----------------------------------------------------------------------------
\* The thread's deletion unlinks the variants one by one once the saver is
\* retired; nothing but a crash comes between.
Unlink ==
  /\ retired /\ ~open /\ deleting < Len(DeleteOrder)
  /\ LET n == DeleteOrder[deleting + 1]
     IN disk' = Unlinked(disk, n) /\ gone' = (gone \/ n = "live")
  /\ deleting' = deleting + 1 /\ acked' = 0
  /\ UNCHANGED <<io, memory, flags, waits, retired, opening, budget>>

\* The process dies; the files stay as they are.
Crash ==
  /\ crashes < MaxCrashes /\ crashes' = crashes + 1
  /\ io' = [w \in Writers |-> NoIO]
  /\ open' = FALSE /\ dirty' = FALSE /\ timer' = FALSE /\ block' = FALSE
  /\ setup' = FALSE /\ saving' = FALSE
  /\ drain' = [d \in {"flush", "close"} |-> NoDrain]
  /\ strict' = 0 /\ need' = [d \in {"flush", "close"} |-> 0]
  /\ retired' = FALSE /\ opening' = "no" /\ deleting' = 0
  /\ UNCHANGED <<disk, mem, issued, gone, acked, fails, damage, starts>>

\* The live file becomes unreadable while nobody has it open.
Damage ==
  /\ ~open /\ ~retired /\ opening = "no" /\ damage < MaxDamage
  /\ disk.file["live"].is = "whole"
  /\ disk' = [disk EXCEPT !.file["live"] = Torn]
  /\ damage' = damage + 1
  /\ acked' = IF acked <= Recoverable(disk') THEN acked ELSE Recoverable(disk')
  /\ UNCHANGED <<io, memory, flags, waits, life, fails, crashes, starts>>

Progress ==
  \/ \E w \in Writers : Write(w)
  \/ TimerFires \/ SaveSettles \/ SaveFails
  \/ \E d \in {"flush", "close"} : DrainResumes(d) \/ DrainWrote(d) \/ DrainFails(d)
  \/ FlushReturns \/ StrictGoesOn \/ CloseGoesOn \/ CloseReturns
  \/ Recovered \/ RecoveryFails

Next ==
  \/ Progress
  \/ \E w \in Writers : WriteFails(w)
  \/ PutRow \/ Flush \/ FlushStrict \/ Close \/ Retire
  \/ Initialize \/ NewInstance \/ Unlink \/ Crash \/ Damage

Spec == Init /\ [][Next]_vars

\* Timers fire and the file system answers; nothing else is owed.
FairSpec == Spec /\ WF_vars(Progress)

-----------------------------------------------------------------------------
DrainPcs == {"none", "flush", "saving", "writing", "ending"}

\* Shape of the state: a drain that writes has a write, a background save too,
\* nothing vouched for was not put, and a closed saver has nothing under way.
TypeOK ==
  /\ IsDir(disk, MaxPuts)
  /\ io \in [Writers -> [step : PersistSteps \cup {"idle", "done", "failed"}, val : 0 .. MaxPuts]]
  /\ mem \in 0 .. issued /\ issued \in 0 .. MaxPuts
  /\ drain \in [{"flush", "close"} -> [pc : DrainPcs, failed : BOOLEAN]]
  /\ need \in [{"flush", "close"} -> 0 .. MaxPuts] /\ strict \in 0 .. MaxStrict
  /\ acked \in 0 .. issued /\ deleting \in 0 .. 5
  /\ {open, dirty, timer, block, setup, saving, retired, gone} \subseteq BOOLEAN
  /\ opening \in {"no", "recovering"} /\ (opening = "recovering" <=> io["open"] # NoIO)
  /\ saving <=> io["save"] # NoIO
  /\ \A d \in {"flush", "close"} : drain[d].pc = "writing" <=> io[d] # NoIO
  /\ ~open => ~saving /\ \A d \in {"flush", "close"} : drain[d] = NoDrain

\* At most one snapshot is on its way to the file (comment at db/index.ts
\* flush: a rename cannot be cancelled and would bring an older snapshot back).
OneWriter == \A v, w \in Writers : io[v] # NoIO /\ io[w] # NoIO => v = w

\* What is in memory and not in the file is marked, with somebody to save it,
\* or on its way; only a failed write may leave it waiting for the next change.
NothingForgotten ==
  open /\ ~retired /\ mem > 0 /\ disk.file["live"] # Whole(mem) =>
    \/ dirty /\ (timer \/ saving \/ (\E d \in {"flush", "close"} : drain[d] # NoDrain) \/ fails > 0)
    \/ \E w \in Writers : io[w].val = mem /\ io[w].step \in {"begin", "tmp", "written", "failed"}

\* If the live file were lost now, the next open would find at least the backup.
BackupHolds == Recoverable(Unlinked(disk, "live")) >= disk.file["bak"].val

\* A deletion that has come to the live file leaves nothing an open could
\* resurrect, wherever it is cut short (comment at DELETE_ORDER).
GoneIsGone == gone => Recoverable(disk) = 0

Register == INSTANCE DurableRegister WITH
  running <- open, current <- mem, durable <- Recoverable(disk),
  backed <- IF deleting > 0 THEN 0 ELSE disk.file["bak"].val

\* Background saves, drains, crashes, recovery and deletion together keep the
\* promise of a durable register.
IsRegister == Register!Spec

\* What is put reaches the file in the end, unless the saver is closed, dies,
\* is retired or a write fails (then the code waits for the next change).
EventuallySaved ==
  \A v \in 1 .. MaxPuts :
    mem = v ~> disk.file["live"].val >= v \/ ~open \/ retired \/ fails > 0

\* What holds of the file at every moment, a crash between any two steps of a
\* write or of a deletion included: one writer, a backup that an open would find,
\* and nothing that a finished deletion left to be found.
SaverInv == TypeOK /\ OneWriter /\ BackupHolds /\ GoneIsGone
=============================================================================
