--------------------------- MODULE WorkflowRunStore ---------------------------
(***************************************************************************)
(* The files of one workflow run id: agent/workflow/run-store.ts with the   *)
(* calls run-manager.ts, engine.ts and ipc/threads.ts make on it.           *)
(*                                                                          *)
(* A launch and every resume make a store of their own over the same two    *)
(* files: run.json and, beside it, the journal of finished agent calls that *)
(* a resume replays.  A store collects updates and writes them on a          *)
(* throttle, one write at a time; a write awaits mkdir, the journal and      *)
(* run.json, and each of them can fail.  The same files are written by the   *)
(* recovery of a run whose last flush failed, and removed by the deletion of *)
(* the thread, which marks, commits and sweeps, or rolls back.  The process  *)
(* may crash between any two steps.                                         *)
(*                                                                          *)
(* `dropped', `told' and `overrun' are history.                             *)
(***************************************************************************)
EXTENDS Integers, Sequences, FiniteSets

CONSTANTS Calls,     \* agent calls of the script, by their hash
          MaxInst,   \* bound: launches and resumes
          MaxCrash,  \* bound: crashes
          None

Insts == 1..MaxInst
Status == {"running", "terminal"}

\* run.json; what a write has frozen; a store; an unpersisted run, and its
\* write-back; the run in charge.
Image == [inst : Insts, status : Status, done : SUBSET Calls]
Frozen == [inst : Insts, status : Status, done : SUBSET Calls, log : SUBSET Calls, version : Nat]
Store == [gen : Insts, epoch : Nat, status : Status, done : SUBSET Calls, log : SUBSET Calls,
          version : Nat, written : Int, dirty : BOOLEAN, timer : BOOLEAN, late : BOOLEAN,
          queue : Seq({"save", "final"}), pc : {"idle", "mkdir", "check", "journal", "run"},
          image : Frozen \cup {None}]
Snapshot == [inst : Insts, epoch : Nat, done : SUBSET Calls, log : SUBSET Calls]
Recovery == [inst : Insts, epoch : Nat, done : SUBSET Calls, log : SUBSET Calls,
             pc : {"mkdir", "check", "journal", "run"}]
InCharge == [inst : Insts, stage : {"engine", "finalizing", "reclaim", "flush", "again", "retry",
                                    "persisted", "failed"}]

ASSUME StoreAssumption ==
  /\ MaxInst \in Nat /\ MaxCrash \in Nat /\ IsFiniteSet(Calls)
  /\ None \notin Image \cup Frozen \cup Store \cup Snapshot \cup Recovery \cup InCharge

VARIABLES
  dir,       \* the run directory exists
  runFile,   \* run.json
  journal,   \* the journal sidecar
  clock,     \* launches so far; the newest instance
  stores,    \* the store of each instance
  owner,     \* storeGenerations: 0 when the file is not registered
  active,    \* the instance whose engine or settle block runs
  snapshot,  \* the run whose final flush failed (flushFailedRuns)
  recovery,  \* a write-back of it under way
  idTomb,    \* disposedThreadIds
  dirTomb,   \* disposedRunDirs
  epoch,     \* threadDisposalEpochs
  deletion,  \* how far the deletion of the thread is
  crashes,
  dropped,   \* instances whose journal a resume with another script dropped
  told,      \* instances reported persisted, with their finished calls
  overrun    \* instances whose files an older writer mixed with its own

files == <<dir, runFile, journal>>
tombs == <<idTomb, dirTomb, epoch, deletion>>
hist  == <<dropped, told, overrun>>
vars  == <<files, clock, stores, owner, active, snapshot, recovery, tombs, crashes, hist>>

Init == /\ dir = FALSE /\ runFile = None /\ journal = {}
        /\ clock = 0 /\ stores = [i \in Insts |-> None] /\ owner = 0
        /\ active = None /\ snapshot = None /\ recovery = None
        /\ idTomb = FALSE /\ dirTomb = FALSE /\ epoch = 0 /\ deletion = "none"
        /\ crashes = 0 /\ dropped = {} /\ told = {} /\ overrun = {}

-----------------------------------------------------------------------------
\* Mutant: a deletion that is only marked silences live stores.
Stale_ByMark(s) == owner # s.gen \/ dirTomb \/ epoch # s.epoch \/ idTomb

\* isStaleWriter: a newer store, or a deletion past its point of no return.
Stale(s) == owner # s.gen \/ dirTomb \/ epoch # s.epoch

Enqueue(s, write) == [s EXCEPT !.queue = Append(@, write)]

\* scheduleSave: now, or by the timer that is or will be set.
Saved(s) == IF s.timer THEN {[s EXCEPT !.dirty = TRUE]}
            ELSE {[s EXCEPT !.dirty = TRUE, !.timer = TRUE],
                  Enqueue([s EXCEPT !.dirty = TRUE], "save")}

\* flush: the timer is cleared and the final write joins the chain.
Flushed(s) == Enqueue([s EXCEPT !.timer = FALSE], "final")

-----------------------------------------------------------------------------
\* A launch, or a resume from the snapshot in memory or else from the files; a
\* changed script drops the journal.  The initial save is queued at once.
Launch(keep) ==
  /\ active = None /\ ~idTomb /\ ~dirTomb /\ deletion = "none"
  /\ clock < MaxInst
  /\ clock > 0 => snapshot # None \/ runFile # None
  /\ LET seed == IF clock = 0 THEN {}
                 ELSE IF snapshot # None THEN snapshot.log ELSE journal
     IN stores' = [stores EXCEPT ![clock + 1] =
          [gen |-> owner + 1, epoch |-> epoch, status |-> "running",
           done |-> {}, log |-> IF keep THEN seed ELSE {},
           version |-> 0, written |-> -1, dirty |-> FALSE, timer |-> FALSE,
           late |-> FALSE, queue |-> <<"save">>, pc |-> "idle", image |-> None]]
  /\ clock' = clock + 1
  /\ owner' = owner + 1
  /\ active' = [inst |-> clock + 1, stage |-> "engine"]
  /\ snapshot' = None
  /\ dropped' = IF keep THEN dropped ELSE 1..clock
  /\ UNCHANGED <<files, recovery, tombs, crashes, told, overrun>>

Running(stage) == active # None /\ active.stage = stage

\* An agent call finishes and is journaled, or is replayed from the journal.
AgentDone(a) ==
  /\ Running("engine")
  /\ LET s == stores[active.inst]
         done == [s EXCEPT !.done = @ \cup {a}]
     IN /\ a \notin s.done
        /\ \E new \in Saved(IF a \in s.log THEN done
                            ELSE [done EXCEPT !.log = @ \cup {a}, !.version = @ + 1]) :
             stores' = [stores EXCEPT ![active.inst] = new]
  /\ UNCHANGED <<files, clock, owner, active, snapshot, recovery, tombs, crashes, hist>>

TimerFires(i) ==
  /\ stores[i] # None /\ stores[i].timer
  /\ stores' = [stores EXCEPT ![i] =
       LET s == [stores[i] EXCEPT !.timer = FALSE]
       IN IF s.dirty THEN Enqueue(s, "save") ELSE s]
  /\ UNCHANGED <<files, clock, owner, active, snapshot, recovery, tombs, crashes, hist>>

\* The engine finalizes: the terminal state and the final flush.
Finalize ==
  /\ Running("engine")
  /\ \E s \in Saved([stores[active.inst] EXCEPT !.status = "terminal"]) :
       stores' = [stores EXCEPT ![active.inst] = Flushed(s)]
  /\ active' = [active EXCEPT !.stage = "finalizing"]
  /\ UNCHANGED <<files, clock, owner, snapshot, recovery, tombs, crashes, hist>>

\* The settle block reclaims worktrees, which may update the run, and flushes.
Reclaim(changed) ==
  /\ Running("reclaim")
  /\ LET s == stores[active.inst]
     IN \E new \in IF changed THEN Saved(s) ELSE {s} :
          stores' = [stores EXCEPT ![active.inst] = Flushed(new)]
  /\ active' = [active EXCEPT !.stage = "flush"]
  /\ UNCHANGED <<files, clock, owner, snapshot, recovery, tombs, crashes, hist>>

\* A script continuation that nobody awaited (a slow glob, a read) logs after
\* the run has settled.  (Once per instance: a bound.)
LateUpdate(i) ==
  /\ stores[i] # None /\ ~stores[i].late
  /\ stores[i].status = "terminal" /\ (active # None => active.inst # i)
  /\ \E s \in Saved([stores[i] EXCEPT !.late = TRUE]) :
       stores' = [stores EXCEPT ![i] = s]
  /\ UNCHANGED <<files, clock, owner, active, snapshot, recovery, tombs, crashes, hist>>

-----------------------------------------------------------------------------
\* Mutant: a failed final write gives up the registration too, so that the retry
\* finds itself stale and reports success.
Done_DropsOnFailure(i, s, ok) ==
  LET final == Head(s.queue) = "final"
      landed == final /\ ok
  IN /\ stores' = [stores EXCEPT ![i] =
          [s EXCEPT !.queue = Tail(@), !.pc = "idle", !.image = None]]
     /\ owner' = IF final /\ owner = s.gen THEN 0 ELSE owner
     /\ active' = IF ~final THEN active
                  ELSE IF active.stage = "finalizing" THEN [active EXCEPT !.stage = "reclaim"]
                  ELSE [active EXCEPT !.stage =
                          IF ok THEN "persisted"
                          ELSE IF @ = "flush" THEN "again" ELSE "failed"]
     /\ told' = IF landed /\ epoch = s.epoch
                THEN told \cup {[inst |-> i, done |-> s.done]} ELSE told

\* The end of doWrite with its result.  A final write that landed gives up the
\* registration; the caller of the flush goes on.
Done(i, s, ok) ==
  LET final == Head(s.queue) = "final"
      landed == final /\ ok
  IN /\ stores' = [stores EXCEPT ![i] =
          [s EXCEPT !.queue = Tail(@), !.pc = "idle", !.image = None]]
     /\ owner' = IF landed /\ owner = s.gen THEN 0 ELSE owner
     /\ active' = IF ~final THEN active
                  ELSE IF active.stage = "finalizing" THEN [active EXCEPT !.stage = "reclaim"]
                  ELSE [active EXCEPT !.stage =
                          IF ok THEN "persisted"
                          ELSE IF @ = "flush" THEN "again" ELSE "failed"]
     /\ told' = IF landed /\ epoch = s.epoch
                THEN told \cup {[inst |-> i, done |-> s.done]} ELSE told

\* The entry of doWrite: a stale writer reports success and writes nothing.
WriteBegins(i) ==
  /\ stores[i] # None /\ stores[i].pc = "idle" /\ stores[i].queue # <<>>
  /\ LET s == [stores[i] EXCEPT !.dirty = FALSE]
     IN IF Stale(s) THEN Done(i, s, TRUE)
        ELSE /\ stores' = [stores EXCEPT ![i] = [s EXCEPT !.pc = "mkdir"]]
             /\ UNCHANGED <<owner, active, told>>
  /\ UNCHANGED <<files, clock, snapshot, recovery, tombs, crashes, dropped, overrun>>

Mkdir(i) ==
  /\ stores[i] # None /\ stores[i].pc = "mkdir"
  /\ dir' = TRUE
  /\ stores' = [stores EXCEPT ![i].pc = "check"]
  /\ UNCHANGED <<runFile, journal, clock, owner, active, snapshot, recovery, tombs,
                 crashes, hist>>

\* Mutant: no second look after the await of mkdir.
WriteChecks_EntryOnly(i) ==
  /\ stores[i] # None /\ stores[i].pc = "check"
  /\ LET s == stores[i]
     IN stores' = [stores EXCEPT ![i] =
          [s EXCEPT !.pc = IF s.version # s.written THEN "journal" ELSE "run",
                    !.image = [inst |-> i, status |-> s.status, done |-> s.done,
                               log |-> s.log, version |-> s.version]]]
  /\ UNCHANGED <<files, owner, active, told>>
  /\ UNCHANGED <<clock, snapshot, recovery, tombs, crashes, dropped, overrun>>

\* After the await: still the writer?  If a sweep came between, remove what
\* mkdir rebuilt; else freeze the state, the journal only if it moved.
WriteChecks(i) ==
  /\ stores[i] # None /\ stores[i].pc = "check"
  /\ LET s == stores[i]
     IN IF Stale(s)
          THEN /\ Done(i, s, TRUE)
               /\ IF dirTomb THEN dir' = FALSE /\ runFile' = None /\ journal' = {}
                  ELSE UNCHANGED files
          ELSE /\ stores' = [stores EXCEPT ![i] =
                    [s EXCEPT !.pc = IF s.version # s.written THEN "journal" ELSE "run",
                              !.image = [inst |-> i, status |-> s.status, done |-> s.done,
                                         log |-> s.log,
                                         version |-> s.version]]]
               /\ UNCHANGED <<files, owner, active, told>>
  /\ UNCHANGED <<clock, snapshot, recovery, tombs, crashes, dropped, overrun>>

\* A journal written after a newer launch mixes the two instances.
Late(inst) == IF clock > inst THEN overrun \cup inst..clock ELSE overrun

\* Mutant: the version recorded is the one at the end of the write.
WriteJournal_LateVersion(i, ok) ==
  /\ stores[i] # None /\ stores[i].pc = "journal"
  /\ ok => dir
  /\ IF ok THEN /\ journal' = stores[i].image.log
                /\ overrun' = Late(i)
                /\ stores' = [stores EXCEPT ![i].written = stores[i].version, ![i].pc = "run"]
                /\ UNCHANGED <<owner, active, told>>
     ELSE Done(i, stores[i], FALSE) /\ UNCHANGED <<journal, overrun>>
  /\ UNCHANGED <<dir, runFile, clock, snapshot, recovery, tombs, crashes, dropped>>

\* doWrite, the journal: the version is the one the image was taken at.
WriteJournal(i, ok) ==
  /\ stores[i] # None /\ stores[i].pc = "journal"
  /\ ok => dir
  /\ IF ok THEN /\ journal' = stores[i].image.log
                /\ overrun' = Late(i)
                /\ stores' = [stores EXCEPT ![i].written = stores[i].image.version,
                                             ![i].pc = "run"]
                /\ UNCHANGED <<owner, active, told>>
     ELSE Done(i, stores[i], FALSE) /\ UNCHANGED <<journal, overrun>>
  /\ UNCHANGED <<dir, runFile, clock, snapshot, recovery, tombs, crashes, dropped>>

RunRecord(m) == [inst |-> m.inst, status |-> m.status, done |-> m.done]
Overruns(inst) == IF runFile # None /\ runFile.inst > inst
                  THEN overrun \cup {runFile.inst} ELSE overrun

WriteRun(i, ok) ==
  /\ stores[i] # None /\ stores[i].pc = "run"
  /\ ok => dir
  /\ IF ok THEN /\ runFile' = RunRecord(stores[i].image)
                /\ overrun' = Overruns(i)
     ELSE UNCHANGED <<runFile, overrun>>
  /\ Done(i, stores[i], ok)
  /\ UNCHANGED <<dir, journal, clock, snapshot, recovery, tombs, crashes, dropped>>

\* The settle block after its flush: one retry, then the run leaves `active',
\* with a snapshot in memory when it could not be persisted and was not
\* cancelled.
Settle(cancelled) ==
  /\ active # None
  /\ \/ /\ active.stage = "again"
        /\ stores' = [stores EXCEPT ![active.inst] = Flushed(@)]
        /\ active' = [active EXCEPT !.stage = "retry"]
        /\ UNCHANGED snapshot
     \/ /\ active.stage \in {"persisted", "failed"}
        /\ active' = None
        /\ snapshot' = IF active.stage = "persisted" \/ cancelled THEN snapshot
                       ELSE [inst |-> active.inst, epoch |-> epoch,
                             done |-> stores[active.inst].done,
                             log |-> stores[active.inst].log]
        /\ UNCHANGED stores
  /\ UNCHANGED <<files, clock, owner, recovery, tombs, crashes, hist>>

-----------------------------------------------------------------------------
\* Mutant: a deletion that is only marked counts as done.
Dead_ByMark(r) == idTomb \/ dirTomb \/ epoch # r.epoch

\* persistRecoveredRun.  Dead: the incarnation is gone, report success, so that
\* the snapshot is dropped.  Marked only: report failure and keep it.
Dead(r) == dirTomb \/ epoch # r.epoch

RecoveryEnds(ok) ==
  /\ recovery' = None
  /\ snapshot' = IF ok /\ snapshot # None /\ snapshot.inst = recovery.inst
                 THEN None ELSE snapshot

RecoverBegins ==
  /\ snapshot # None /\ recovery = None
  /\ IF Dead(snapshot) \/ idTomb
       THEN /\ snapshot' = IF Dead(snapshot) THEN None ELSE snapshot
            /\ UNCHANGED recovery
       ELSE /\ recovery' = [inst |-> snapshot.inst, epoch |-> snapshot.epoch,
                            done |-> snapshot.done, log |-> snapshot.log, pc |-> "mkdir"]
            /\ UNCHANGED snapshot
  /\ UNCHANGED <<files, clock, stores, owner, active, tombs, crashes, hist>>

Recovering(pc) == recovery # None /\ recovery.pc = pc

RecoverMkdir == /\ Recovering("mkdir")
                /\ dir' = TRUE
                /\ recovery' = [recovery EXCEPT !.pc = "check"]
                /\ UNCHANGED <<runFile, journal, clock, stores, owner, active, snapshot,
                               tombs, crashes, hist>>

RecoverChecks ==
  /\ Recovering("check")
  /\ IF Dead(recovery) \/ idTomb
       THEN /\ RecoveryEnds(Dead(recovery))
            /\ IF dirTomb THEN dir' = FALSE /\ runFile' = None /\ journal' = {}
               ELSE UNCHANGED files
       ELSE /\ recovery' = [recovery EXCEPT !.pc = "journal"]
            /\ UNCHANGED <<files, snapshot>>
  /\ UNCHANGED <<clock, stores, owner, active, tombs, crashes, hist>>

RecoverJournal(ok) ==
  /\ Recovering("journal")
  /\ ok => dir
  /\ IF ok THEN /\ journal' = recovery.log
                /\ recovery' = [recovery EXCEPT !.pc = "run"]
                /\ overrun' = Late(recovery.inst)
                /\ UNCHANGED snapshot
     ELSE RecoveryEnds(FALSE) /\ UNCHANGED <<journal, overrun>>
  /\ UNCHANGED <<dir, runFile, clock, stores, owner, active, tombs, crashes, dropped, told>>

RecoverRun(ok) ==
  /\ Recovering("run")
  /\ ok => dir
  /\ IF ok THEN /\ runFile' = [inst |-> recovery.inst, status |-> "terminal",
                               done |-> recovery.done]
                /\ overrun' = Overruns(recovery.inst)
     ELSE UNCHANGED <<runFile, overrun>>
  /\ RecoveryEnds(ok)
  /\ UNCHANGED <<dir, journal, clock, stores, owner, active, tombs, crashes, dropped, told>>

-----------------------------------------------------------------------------
\* threads:delete.  The run was cancelled before, but the wait for it may time
\* out, so a store may still be live at any of these steps.
DeleteMarks == /\ deletion = "none"
               /\ deletion' = "marked" /\ idTomb' = TRUE
               /\ UNCHANGED <<files, clock, stores, owner, active, snapshot, recovery,
                              dirTomb, epoch, crashes, hist>>

DeleteRollsBack == /\ deletion = "marked"
                   /\ deletion' = "none" /\ idTomb' = FALSE
                   /\ UNCHANGED <<files, clock, stores, owner, active, snapshot, recovery,
                                  dirTomb, epoch, crashes, hist>>

\* The row is gone: the epoch moves and the snapshots are forgotten.
DeleteCommits == /\ deletion = "marked"
                 /\ deletion' = "committed" /\ epoch' = epoch + 1 /\ snapshot' = None
                 /\ UNCHANGED <<files, clock, stores, owner, active, recovery, idTomb,
                                dirTomb, crashes, hist>>

DeleteSweeps == /\ deletion = "committed"
                /\ deletion' = "swept" /\ dirTomb' = TRUE /\ epoch' = epoch + 1
                /\ dir' = FALSE /\ runFile' = None /\ journal' = {}
                /\ UNCHANGED <<clock, stores, owner, active, snapshot, recovery, idTomb,
                               crashes, hist>>

-----------------------------------------------------------------------------
\* Memory is lost.  A deletion that had committed leaves no thread behind; one
\* that had not leaves it as it was.
Crash == /\ crashes < MaxCrash
         /\ crashes' = crashes + 1
         /\ stores' = [i \in Insts |-> None] /\ owner' = 0
         /\ active' = None /\ snapshot' = None /\ recovery' = None
         /\ idTomb' = FALSE /\ dirTomb' = FALSE /\ epoch' = 0
         /\ deletion' = IF deletion \in {"none", "marked"} THEN "none" ELSE "gone"
         /\ UNCHANGED <<files, clock, hist>>

Next == \/ \E keep \in BOOLEAN : Launch(keep)
        \/ \E a \in Calls : AgentDone(a)
        \/ Finalize \/ \E b \in BOOLEAN : Reclaim(b) \/ Settle(b)
        \/ \E i \in Insts : TimerFires(i) \/ LateUpdate(i) \/ WriteBegins(i)
                            \/ Mkdir(i) \/ WriteChecks(i)
        \/ \E i \in Insts, ok \in BOOLEAN : WriteJournal(i, ok) \/ WriteRun(i, ok)
        \/ RecoverBegins \/ RecoverMkdir \/ RecoverChecks
        \/ \E ok \in BOOLEAN : RecoverJournal(ok) \/ RecoverRun(ok)
        \/ DeleteMarks \/ DeleteRollsBack \/ DeleteCommits \/ DeleteSweeps
        \/ Crash

Spec == Init /\ [][Next]_vars

-----------------------------------------------------------------------------
Live(i) == stores[i] # None
Writing(i) == Live(i) /\ stores[i].pc # "idle"
\* A final write is queued or under way.
FinalDue(s) == \E k \in DOMAIN s.queue : s.queue[k] = "final"
Quiet == recovery = None /\ \A i \in Insts : Live(i) => stores[i].pc = "idle"

\* Shape of the files and of the stores: versions only run ahead of what was
\* written, a write in progress is the head of its chain, and only the active
\* instance has a final write to come.
TypeOK ==
  /\ dir \in BOOLEAN /\ runFile \in Image \cup {None} /\ journal \subseteq Calls
  /\ runFile # None => dir
  /\ clock \in 0..MaxInst /\ owner \in 0..MaxInst /\ epoch \in 0..2
  /\ stores \in [Insts -> Store \cup {None}] /\ active \in InCharge \cup {None}
  /\ snapshot \in Snapshot \cup {None} /\ recovery \in Recovery \cup {None}
  /\ \A i \in Insts : Live(i) =>
       LET s == stores[i]
       IN /\ i <= clock
          /\ s.written <= s.version
          /\ s.pc # "idle" => s.queue # <<>>
          /\ s.pc \in {"journal", "run"} <=> s.image # None
          /\ FinalDue(s) => active # None /\ active.inst = i
  /\ deletion \in {"none", "marked", "committed", "swept", "gone"}

\* The journal is never behind run.json (comment in doWrite: the reverse order
\* "would make resume re-run already-completed agents"): whatever fails or
\* crashes, the calls run.json shows as finished can be replayed.  A resume
\* with another script drops the journal on purpose; what an
\* older writer mixed with its own is set apart (overrun).
JournalAhead ==
  deletion \in {"none", "marked"} /\ runFile # None
    /\ runFile.inst \notin dropped \cup overrun
  => runFile.done \subseteq journal

\* A flush that reported success was honest: as long as no newer instance and
\* no deletion touches the files, they hold the terminal state, crash or not.
\* In particular a deletion that is only marked silences no store, and a retry
\* after a failed flush is a real one.
FlushHonest ==
  \A t \in told :
    t.inst = clock /\ t.inst \notin overrun /\ deletion \in {"none", "marked"}
      => /\ runFile # None /\ runFile.inst = t.inst
         /\ runFile.status = "terminal" /\ runFile.done = t.done

\* A swept directory stays away: once the writes that overlapped the sweep are
\* over, nothing has come back.
NoResurrection == deletion = "swept" /\ Quiet => ~dir /\ runFile = None /\ journal = {}

\* A failed deletion costs the surviving thread nothing: its run can be
\* recovered until the snapshot's state is on disk.
SurvivorKeepsSnapshot ==
  [][snapshot # None /\ snapshot' = None /\ crashes' = crashes
     /\ deletion' \in {"none", "marked"}
     => clock' > clock \/ (runFile' # None /\ runFile'.inst = snapshot.inst
                             /\ runFile'.done = snapshot.done)]_vars

\* The stores and the files fit together, and run.json never shows a call that
\* the journal could not replay.
StoreInv == TypeOK /\ JournalAhead
=============================================================================
