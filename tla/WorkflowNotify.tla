---------------------------- MODULE WorkflowNotify ----------------------------
(***************************************************************************)
(* How the completion of a background workflow reaches the conversation:    *)
(* agent/workflow/run-manager.ts, the flag writers of run-store.ts, the     *)
(* hydrate and list handlers of ipc/workflows.ts, and the notification turn  *)
(* of ipc/agent.ts.                                                         *)
(*                                                                          *)
(* One thread of one workspace.  A launch makes a new instance of a run id  *)
(* (its startedAt); a resume reuses the id.  When the run settles, its      *)
(* final state goes to disk or, when the disk fails, into a snapshot in     *)
(* memory; the renderer is told, starts a notification turn, and the turn's  *)
(* success is acknowledged on disk.  The writers of the delivered flag share *)
(* a chain per run file, and each of them reads and writes in two steps; the *)
(* live store of an active run writes beside that chain.  The process may    *)
(* crash at any point and loses everything but the disk.                    *)
(*                                                                          *)
(* `finished', `reported', `settled', `raced' and `excuse' are history.     *)
(***************************************************************************)
EXTENDS Naturals, Sequences, FiniteSets

CONSTANTS RunIds,
          MaxInst,                 \* bound: launches
          MaxCrash,                \* bound: crashes
          MaxRev,                  \* bound: revisions of a snapshot
          MAX_RENOTIFY_ATTEMPTS,   \* 3 in the code
          MAX_FLUSH_FAILED_RUNS,   \* 8 in the code
          None

Insts == 0..MaxInst
Record == [inst : Insts, status : {"none", "running", "terminal", "interrupted"},
           delivered : BOOLEAN]
InCharge == [id : RunIds, inst : Insts, cancelled : BOOLEAN, begun : BOOLEAN,
             saved : BOOLEAN, done : BOOLEAN]
Turn == [id : RunIds, inst : Insts,
         phase : {"model", "acking", "acked", "recovering", "recovered"},
         answer : {"none", "yes", "no", "failed"}, aborted : BOOLEAN]

ASSUME NotifyAssumption ==
  /\ MaxInst \in Nat /\ MaxCrash \in Nat /\ MaxRev \in Nat
  /\ MAX_RENOTIFY_ATTEMPTS \in Nat /\ MAX_FLUSH_FAILED_RUNS \in Nat
  /\ IsFiniteSet(RunIds) /\ None \notin Record \cup InCharge \cup Turn

VARIABLES disk,      \* run.json of each run id
          age,       \* how many other run files were written since this one
          launches,  \* the run ids of all launches: startedAt is a place here
          active,    \* the thread's entry of WorkflowRunManager.active
          failed,    \* flushFailedRuns with their revisions
          tails,     \* settle blocks past active.delete
          chain,     \* runFileMutationChains: pending flag writers per file
          inFlight,  \* inFlightNotifications
          attempts,  \* renotifyAttempts
          turn,      \* the notification turn, if one runs
          signal,    \* the renderer holds a workflow_notification
          crashes,
          finished,  \* uncancelled instances that settled in this process
          reported,  \* instances whose notification turn succeeded
          settled,   \* instances whose delivered flag an ack put on disk
          raced,     \* instances hit by a write race named below
          excuse     \* why a pending run may be left without a broadcast

mem  == <<active, failed, tails, chain, inFlight, attempts, turn, signal>>
hist == <<finished, reported, settled, raced, excuse>>
vars == <<disk, age, launches, crashes, mem, hist>>

Snapshot == [id : RunIds, inst : Insts, delivered : BOOLEAN, rev : 0..MaxRev]
Op == [kind : {"ack", "cancelled", "interrupt", "recover"}, inst : Insts,
       delivered : BOOLEAN, rev : 0..MaxRev, turn : BOOLEAN, out : Record \cup {None}]

Init == /\ disk = [r \in RunIds |-> [inst |-> 0, status |-> "none", delivered |-> FALSE]]
        /\ age = [r \in RunIds |-> Cardinality(RunIds)] /\ launches = <<>> /\ crashes = 0
        /\ active = None /\ failed = {} /\ tails = {}
        /\ chain = [r \in RunIds |-> <<>>]
        /\ inFlight = {} /\ attempts = [r \in RunIds |-> 0]
        /\ turn = None /\ signal = FALSE
        /\ finished = {} /\ reported = {} /\ settled = {} /\ raced = {}
        /\ excuse = "none"

-----------------------------------------------------------------------------
Terminal(d) == d.status \in {"terminal", "interrupted"}
SnapshotOf(r) == {s \in failed : s.id = r}
DropSnapshot(r) == {s \in failed : s.id # r}
Oldest(S) == CHOOSE s \in S : \A t \in S : s.inst <= t.inst

WriteDisk(r, d) == /\ disk' = [disk EXCEPT ![r] = d]
                   /\ age' = [q \in RunIds |-> IF q = r THEN 0
                                              ELSE IF age[q] < age[r] THEN age[q] + 1 ELSE age[q]]

\* findPendingNotification: snapshots first, oldest first; then the newest
\* undelivered file, unless that one is being reported.
Pending ==
  LET mine == {s \in failed : ~s.delivered /\ s.id \notin inFlight}
      onDisk == {r \in RunIds : Terminal(disk[r]) /\ ~disk[r].delivered}
      newest == {r \in onDisk : \A q \in onDisk : age[r] <= age[q]}
  IN IF mine # {} THEN {[id |-> s.id, inst |-> s.inst] : s \in {Oldest(mine)}}
     ELSE {[id |-> r, inst |-> disk[r].inst] : r \in newest \ inFlight}

\* What runs before any other handler: a flag writer whose turn has come reads
\* its file (only a recovery awaits a mkdir first), and a turn whose flag writer
\* is through goes on.
Resuming == turn # None /\ turn.phase \in {"acked", "recovered"}
EventLoop ==
  /\ ~Resuming
  /\ \A r \in RunIds : chain[r] # <<>> =>
       Head(chain[r]).out # None \/ Head(chain[r]).kind = "recover"

Broadcast == signal' = TRUE /\ excuse' = "none"
Silent(why) == signal' = signal /\ excuse' = (IF signal THEN excuse ELSE why)

-----------------------------------------------------------------------------
\* launch: a new run, or a resume that reuses the id of one it can load.
\* Tools run in an ordinary turn or in the model phase of a notification turn.
Launch(r) ==
  /\ EventLoop
  /\ active = None
  /\ turn # None => turn.phase = "model"
  /\ Len(launches) < MaxInst
  /\ \/ \A i \in DOMAIN launches : launches[i] # r
     \/ disk[r].status # "none" \/ SnapshotOf(r) # {}
  /\ launches' = Append(launches, r)
  /\ attempts' = [attempts EXCEPT ![r] = 0]
  /\ failed' = DropSnapshot(r)
  /\ active' = [id |-> r, inst |-> Len(launches) + 1, cancelled |-> FALSE,
                begun |-> FALSE, saved |-> FALSE, done |-> FALSE]
  /\ finished' = {f \in finished : f.id # r}
  /\ UNCHANGED <<disk, age, crashes, tails, chain, inFlight, turn, signal,
                 reported, settled, raced, excuse>>

\* A live store writes while a flag writer of the same file is between its
\* read and its write.
Race == raced' = IF chain[active.id] # <<>> /\ Head(chain[active.id]).out # None
                   THEN raced \cup {active.inst} ELSE raced

StoreWrites(status, ok) ==
  IF ok THEN /\ WriteDisk(active.id, [inst |-> active.inst, status |-> status,
                                      delivered |-> FALSE])
             /\ Race
        ELSE UNCHANGED <<disk, age, raced>>

\* The initial snapshot lands or fails; the workflow tool waits for it.
InitialPersist(ok) ==
  /\ EventLoop
  /\ active # None /\ ~active.begun
  /\ active' = [active EXCEPT !.begun = TRUE]
  /\ StoreWrites("running", ok)
  /\ UNCHANGED <<launches, crashes, failed, tails, chain, inFlight, attempts, turn,
                 signal, finished, reported, settled, excuse>>

\* A throttled save of the live store.
SaveRunning ==
  /\ EventLoop
  /\ active # None /\ active.begun /\ ~active.done
  /\ StoreWrites("running", TRUE)
  /\ UNCHANGED <<launches, crashes, mem, finished, reported, settled, excuse>>

\* The engine's final flush and the manager's two retries: one of them lands,
\* or none does.
FinalFlush(ok) ==
  /\ EventLoop
  /\ active # None /\ active.begun /\ ~active.done
  /\ active' = [active EXCEPT !.done = TRUE, !.saved = ok]
  /\ StoreWrites("terminal", ok)
  /\ UNCHANGED <<launches, crashes, failed, tails, chain, inFlight, attempts, turn,
                 signal, finished, reported, settled, excuse>>

Cancel == /\ EventLoop
          /\ active # None /\ ~active.cancelled
          /\ active' = [active EXCEPT !.cancelled = TRUE]
          /\ UNCHANGED <<disk, age, launches, crashes, failed, tails, chain, inFlight,
                         attempts, turn, signal, hist>>

\* The snapshot is published before the run stops being active.
Settle ==
  /\ EventLoop
  /\ active # None /\ active.done
  /\ active' = None
  /\ failed' = IF active.cancelled \/ active.saved THEN failed
               ELSE failed \cup {[id |-> active.id, inst |-> active.inst,
                                  delivered |-> FALSE, rev |-> 0]}
  /\ tails' = tails \cup {[id |-> active.id, inst |-> active.inst,
                           cancelled |-> active.cancelled, saved |-> active.saved]}
  /\ finished' = IF active.cancelled THEN finished
                 ELSE finished \cup {[id |-> active.id, inst |-> active.inst]}
  /\ UNCHANGED <<disk, age, launches, crashes, chain, inFlight, attempts, turn, signal,
                 reported, settled, raced, excuse>>

\* The delivered snapshots dropped, oldest first, while there are too many.
Evicted ==
  LET spare == {s \in failed : s.delivered /\ s.id \notin inFlight}
      excess == IF Cardinality(failed) > MAX_FLUSH_FAILED_RUNS
                  THEN Cardinality(failed) - MAX_FLUSH_FAILED_RUNS ELSE 0
  IN {s \in spare : Cardinality({t \in spare : t.inst <= s.inst}) <= excess}

\* The rest of the settle block, after the manifests were listed.
SettleTail(t) ==
  /\ EventLoop
  /\ t \in tails
  /\ tails' = tails \ {t}
  /\ IF t.cancelled
       THEN /\ chain' = [chain EXCEPT ![t.id] = Append(@,
                 [kind |-> "cancelled", inst |-> t.inst, delivered |-> TRUE,
                  rev |-> 0, turn |-> FALSE, out |-> None])]
            /\ UNCHANGED <<failed, signal, excuse>>
       ELSE /\ failed' = IF t.saved THEN failed ELSE failed \ Evicted
            /\ Broadcast
            /\ UNCHANGED chain
  /\ UNCHANGED <<disk, age, launches, crashes, active, inFlight, attempts, turn,
                 finished, reported, settled, raced>>

-----------------------------------------------------------------------------
\* The flag writers.  withRunFileMutation runs them one at a time per file:
\* the head reads the file, decides, and writes later.

\* Mutant: an acknowledgement without the instance fence.
Rewrite_Unfenced(op, d) ==
  CASE op.kind = "interrupt" ->
         IF d.status # "running" THEN None
         ELSE [inst |-> d.inst, status |-> "interrupted", delivered |-> TRUE]
    [] op.kind = "recover" ->
         [inst |-> op.inst, status |-> "terminal",
          delivered |-> op.delivered \/ (d.inst = op.inst /\ d.delivered)]
    [] OTHER ->
         IF Terminal(d) /\ ~d.delivered THEN [d EXCEPT !.delivered = TRUE] ELSE None

\* Mutant: a recovery that overwrites the flag it finds.
Rewrite_NoMerge(op, d) ==
  CASE op.kind = "interrupt" ->
         IF d.status # "running" THEN None
         ELSE [inst |-> d.inst, status |-> "interrupted", delivered |-> TRUE]
    [] op.kind = "recover" ->
         [inst |-> op.inst, status |-> "terminal", delivered |-> op.delivered]
    [] OTHER ->
         IF Terminal(d) /\ (op.kind = "ack" => d.inst = op.inst) /\ ~d.delivered
           THEN [d EXCEPT !.delivered = TRUE] ELSE None

\* What the head writes, having read d; None if there is nothing to write.
Rewrite(op, d) ==
  CASE op.kind = "interrupt" ->
         IF d.status # "running" THEN None
         ELSE [inst |-> d.inst, status |-> "interrupted", delivered |-> TRUE]
    [] op.kind = "recover" ->
         [inst |-> op.inst, status |-> "terminal",
          delivered |-> op.delivered \/ (d.inst = op.inst /\ d.delivered)]
    [] OTHER ->
         IF Terminal(d) /\ (op.kind = "ack" => d.inst = op.inst) /\ ~d.delivered
           THEN [d EXCEPT !.delivered = TRUE] ELSE None

\* The head leaves the chain and its caller goes on.  A recovery drops the
\* snapshot it wrote, if that is still the one in memory.
Complete(r, answer) ==
  LET op == Head(chain[r])
  IN /\ chain' = [chain EXCEPT ![r] = Tail(@)]
     /\ failed' = IF op.kind = "recover" /\ answer = "yes"
                  THEN {s \in failed : ~(s.id = r /\ s.inst = op.inst /\ s.rev = op.rev)}
                  ELSE failed
     /\ turn' = IF ~op.turn THEN turn
                ELSE IF op.kind = "ack" THEN [turn EXCEPT !.phase = "acked", !.answer = answer]
                ELSE [turn EXCEPT !.phase = "recovered", !.answer = "yes"]

Read(r) ==
  /\ chain[r] # <<>> /\ Head(chain[r]).out = None
  /\ Head(chain[r]).kind = "recover" => EventLoop
  /\ LET op == Head(chain[r])
         new == Rewrite(op, disk[r])
         unfenced == new # None /\ op.kind \in {"cancelled", "interrupt"} /\ disk[r].inst # op.inst
     IN /\ IF new = None
             THEN Complete(r, IF Terminal(disk[r]) THEN "yes" ELSE "no")
             ELSE /\ chain' = [chain EXCEPT ![r] = <<[op EXCEPT !.out = new]>> \o Tail(@)]
                  /\ UNCHANGED <<failed, turn>>
        /\ raced' = IF unfenced THEN raced \cup {disk[r].inst} ELSE raced
  /\ UNCHANGED <<disk, age, launches, crashes, active, tails, inFlight, attempts,
                 signal, finished, reported, settled, excuse>>

\* The write lands or fails; a recovery may also fail past the run file, at its
\* backup.
Write(r, landed, ok) ==
  /\ EventLoop
  /\ chain[r] # <<>> /\ Head(chain[r]).out # None
  /\ ok => landed
  /\ landed /\ ~ok => Head(chain[r]).kind = "recover"
  /\ IF landed THEN WriteDisk(r, Head(chain[r]).out) ELSE UNCHANGED <<disk, age>>
  /\ Complete(r, IF ok THEN "yes" ELSE "failed")
  /\ settled' = IF ok /\ Head(chain[r]).kind = "ack"
                THEN settled \cup {Head(chain[r]).inst} ELSE settled
  /\ raced' = IF landed /\ Head(chain[r]).kind = "recover" /\ disk[r].inst > Head(chain[r]).inst
                THEN raced \cup {disk[r].inst, Head(chain[r]).inst} ELSE raced
  /\ UNCHANGED <<launches, crashes, active, tails, inFlight, attempts, signal,
                 finished, reported, excuse>>

Queued(r, kind) == \E i \in DOMAIN chain[r] : chain[r][i].kind = kind /\ ~chain[r][i].turn

\* Mutant: reconciliation that does not ask for a snapshot in memory.
ReconcileZombie_DiskOnly(r) ==
  /\ EventLoop
  /\ disk[r].status = "running"
  /\ active # None => active.id # r
  /\ ~Queued(r, "interrupt")
  /\ chain' = [chain EXCEPT ![r] = Append(@,
        [kind |-> "interrupt", inst |-> disk[r].inst, delivered |-> TRUE, rev |-> 0,
         turn |-> FALSE, out |-> None])]
  /\ UNCHANGED <<disk, age, launches, crashes, active, failed, tails, inFlight,
                 attempts, turn, signal, hist>>

\* list-runs, get-run and hydrate: a running file without a run behind it.
\* (One such request per file at a time: a bound.)
ReconcileZombie(r) ==
  /\ EventLoop
  /\ disk[r].status = "running"
  /\ active # None => active.id # r
  /\ SnapshotOf(r) = {}
  /\ ~Queued(r, "interrupt")
  /\ chain' = [chain EXCEPT ![r] = Append(@,
        [kind |-> "interrupt", inst |-> disk[r].inst, delivered |-> TRUE, rev |-> 0,
         turn |-> FALSE, out |-> None])]
  /\ UNCHANGED <<disk, age, launches, crashes, active, failed, tails, inFlight,
                 attempts, turn, signal, hist>>

RecoverOp(s, byTurn) == [kind |-> "recover", inst |-> s.inst, delivered |-> s.delivered,
                         rev |-> s.rev, turn |-> byTurn, out |-> None]

\* get-run and hydrate retry the write-back and do not wait for it.
RetryPersist(s) ==
  /\ EventLoop
  /\ s \in failed /\ ~Queued(s.id, "recover")
  /\ chain' = [chain EXCEPT ![s.id] = Append(@, RecoverOp(s, FALSE))]
  /\ UNCHANGED <<disk, age, launches, crashes, active, failed, tails, inFlight,
                 attempts, turn, signal, hist>>

\* hydrate's answer makes the renderer start a turn.
HydratePending ==
  /\ EventLoop
  /\ Pending # {} /\ ~signal
  /\ Broadcast
  /\ UNCHANGED <<disk, age, launches, crashes, active, failed, tails, chain,
                 inFlight, attempts, turn, finished, reported, settled, raced>>

-----------------------------------------------------------------------------
\* agent:invoke with the notification trigger; stale when nothing is pending.
TurnStart ==
  /\ EventLoop
  /\ turn = None /\ signal
  /\ active # None => active.begun
  /\ signal' = FALSE
  /\ IF Pending = {}
       THEN /\ excuse' = IF inFlight # {} THEN "leak" ELSE excuse
            /\ UNCHANGED <<turn, inFlight>>
       ELSE \E p \in Pending :
              /\ turn' = [id |-> p.id, inst |-> p.inst, phase |-> "model",
                          answer |-> "none", aborted |-> FALSE]
              /\ inFlight' = inFlight \cup {p.id}
              /\ UNCHANGED excuse
  /\ UNCHANGED <<disk, age, launches, crashes, active, failed, tails, chain,
                 attempts, finished, reported, settled, raced>>

\* The user stops the turn, or a new one replaces it, during the
\* acknowledgement; before it, see TurnStopped.
AbortTurn ==
  /\ EventLoop
  /\ turn # None /\ turn.phase # "model" /\ ~turn.aborted
  /\ turn' = [turn EXCEPT !.aborted = TRUE]
  /\ UNCHANGED <<disk, age, launches, crashes, active, failed, tails, chain,
                 inFlight, attempts, signal, hist>>

\* The model phase ends without success: an abort, a halt by a Stop hook or an
\* early return release the mark; a failure also asks for another report.
TurnStopped ==
  /\ EventLoop
  /\ turn # None /\ turn.phase = "model"
  /\ turn' = None
  /\ inFlight' = inFlight \ {turn.id}
  /\ Silent("policy")
  /\ UNCHANGED <<disk, age, launches, crashes, active, failed, tails, chain,
                 attempts, finished, reported, settled, raced>>

TurnFailed ==
  /\ EventLoop
  /\ turn # None /\ turn.phase = "model"
  /\ turn' = None
  /\ inFlight' = inFlight \ {turn.id}
  /\ attempts' = [attempts EXCEPT ![turn.id] =
                    IF @ < MAX_RENOTIFY_ATTEMPTS THEN @ + 1 ELSE MAX_RENOTIFY_ATTEMPTS + 1]
  /\ IF attempts[turn.id] < MAX_RENOTIFY_ATTEMPTS THEN Broadcast ELSE Silent("policy")
  /\ UNCHANGED <<disk, age, launches, crashes, active, failed, tails, chain,
                 finished, reported, settled, raced>>

\* The model answered: the turn owes nothing to its catch and finally any more.
AckStart ==
  /\ EventLoop
  /\ turn # None /\ turn.phase = "model"
  /\ active # None => active.begun
  /\ turn' = [turn EXCEPT !.phase = "acking"]
  /\ reported' = reported \cup {turn.inst}
  /\ chain' = [chain EXCEPT ![turn.id] = Append(@,
        [kind |-> "ack", inst |-> turn.inst, delivered |-> TRUE, rev |-> 0,
         turn |-> TRUE, out |-> None])]
  /\ UNCHANGED <<disk, age, launches, crashes, active, failed, tails, inFlight,
                 attempts, signal, finished, settled, raced, excuse>>

\* throwIfInvokeAborted after either wait: the turn ends where it stands.
AckAborted ==
  /\ turn # None /\ turn.phase \in {"acked", "recovered"} /\ turn.aborted
  /\ turn' = None
  /\ Silent("policy")
  /\ UNCHANGED <<disk, age, launches, crashes, active, failed, tails, chain,
                 inFlight, attempts, finished, reported, settled, raced>>

\* kickNextPendingNotification, given that Pending is what it sees.
Kick(licence, why) ==
  IF ~licence THEN Silent(why)
  ELSE IF Pending # {} THEN Broadcast
  ELSE IF inFlight # {} THEN Silent("leak")
  ELSE UNCHANGED <<signal, excuse>>

\* After markNotified: release the marks and settle the snapshot of the run.
\* Without a snapshot the turn goes on to the kick; the mark is released first.
AckSettle ==
  /\ turn # None /\ turn.phase = "acked" /\ ~turn.aborted
  /\ attempts' = [attempts EXCEPT ![turn.id] = 0]
  /\ inFlight' = inFlight \ {turn.id}
  /\ IF SnapshotOf(turn.id) = {}
       THEN /\ turn' = [turn EXCEPT !.phase = "recovered"]
            /\ UNCHANGED <<failed, chain>>
       ELSE \E s \in SnapshotOf(turn.id) :
              LET mine == s.inst = turn.inst
                  next == IF mine THEN [s EXCEPT !.delivered = TRUE, !.rev = @ + 1] ELSE s
              IN /\ mine => s.rev < MaxRev
                 /\ failed' = DropSnapshot(turn.id) \cup {next}
                 /\ chain' = [chain EXCEPT ![turn.id] = Append(@, RecoverOp(next, TRUE))]
                 /\ turn' = [turn EXCEPT !.phase = "recovering"]
  /\ UNCHANGED <<disk, age, launches, crashes, active, tails, signal, hist>>

\* Mutant: an acknowledged turn that forgets the backlog.
AckEnd_NoKick ==
  /\ turn # None /\ turn.phase = "recovered" /\ ~turn.aborted
  /\ turn' = None
  /\ UNCHANGED <<disk, age, launches, crashes, active, failed, tails, chain,
                 inFlight, attempts, signal, hist>>

AckEnd ==
  /\ turn # None /\ turn.phase = "recovered" /\ ~turn.aborted
  /\ turn' = None
  /\ Kick(turn.answer = "yes", IF turn.answer = "no" THEN "unmarked" ELSE "policy")
  /\ UNCHANGED <<disk, age, launches, crashes, active, failed, tails, chain,
                 inFlight, attempts, finished, reported, settled, raced>>

-----------------------------------------------------------------------------
\* Memory is gone; what only memory held is lost with it.
Crash ==
  /\ EventLoop
  /\ crashes < MaxCrash
  /\ crashes' = crashes + 1
  /\ active' = None /\ failed' = {} /\ tails' = {}
  /\ chain' = [r \in RunIds |-> <<>>]
  /\ inFlight' = {} /\ attempts' = [r \in RunIds |-> 0]
  /\ turn' = None /\ signal' = FALSE
  /\ finished' = {f \in finished : disk[f.id].inst = f.inst /\ Terminal(disk[f.id])}
  /\ excuse' = "policy"
  /\ UNCHANGED <<disk, age, launches, reported, settled, raced>>

Next == \/ \E r \in RunIds : Launch(r) \/ Read(r) \/ ReconcileZombie(r)
        \/ \E r \in RunIds, landed, ok \in BOOLEAN : Write(r, landed, ok)
        \/ SaveRunning \/ Cancel \/ Settle
        \/ \E ok \in BOOLEAN : InitialPersist(ok) \/ FinalFlush(ok)
        \/ \E t \in tails : SettleTail(t)
        \/ \E s \in failed : RetryPersist(s)
        \/ HydratePending \/ TurnStart \/ AbortTurn \/ TurnStopped \/ TurnFailed
        \/ AckStart \/ AckSettle \/ AckAborted \/ AckEnd
        \/ Crash

Spec == Init /\ [][Next]_vars

-----------------------------------------------------------------------------
\* Shape of the state: the run table, the snapshots, the chains, the turn.
TypeOK ==
  /\ disk \in [RunIds -> Record]
  /\ age \in [RunIds -> Nat]
  /\ launches \in Seq(RunIds) /\ Len(launches) <= MaxInst
  /\ active \in InCharge \cup {None}
  /\ failed \subseteq Snapshot
  /\ \A s, t \in failed : s.id = t.id => s = t
  /\ \A t \in tails : t.id \in RunIds /\ t.inst \in Insts
  /\ \A r \in RunIds : \A i \in DOMAIN chain[r] :
       chain[r][i] \in Op /\ (chain[r][i].out # None => i = 1)
  /\ inFlight \subseteq RunIds
  /\ attempts \in [RunIds -> 0..(MAX_RENOTIFY_ATTEMPTS + 1)]
  /\ turn \in Turn \cup {None}
  /\ signal \in BOOLEAN

Findable(f) == \/ \E s \in failed : s.id = f.id /\ s.inst = f.inst /\ ~s.delivered
               \/ /\ disk[f.id].inst = f.inst
                  /\ disk[f.id].status = "terminal" /\ ~disk[f.id].delivered

\* No result is swallowed (run-manager.ts: at-least-once): as long as the
\* process lives and the id is not resumed, an uncancelled run that settled is
\* either reported or can still be found, in memory or on disk.  Excepted are
\* the victims of three races: a store that wrote between the read and the
\* write of a flag writer, an unfenced mark (of a cancelled or an interrupted
\* predecessor), and the write-back of a predecessor's snapshot, which checks
\* no generation.
NothingSwallowed ==
  \A f \in finished : f.inst \notin raced \cup reported => Findable(f)

\* A run that settled and was not reported yet is never recorded as interrupted
\* (ipc/workflows.ts: zombie reconciliation must not hit a run whose disk copy
\* is merely stale; a reported snapshot may be evicted).
OutcomeKept ==
  \A f \in finished : f.inst \notin raced \cup reported /\ disk[f.id].inst = f.inst
                        => disk[f.id].status # "interrupted"

\* Once an acknowledgement is on disk the instance is never handed to a turn
\* again, whatever write-back of its snapshot was under way (persistRecoveredRun
\* merges the flag it finds); the write-back over a newer instance excepted.
SettledStaysSettled == \A p \in Pending : p.inst \notin settled \ raced

\* What can be found, and what the turn in its model phase is reporting.
Held == {f \in finished : Findable(f)}
Given == {i \in Insts : turn # None /\ turn.phase = "model" /\ i = turn.inst}

\* The notification delivers every result at least once, and does not start a
\* report of it again once it is acknowledged on disk.
Delivery == INSTANCE AtLeastOnce
              WITH due <- finished, held <- Held, given <- Given, acked <- settled
IsDelivery == Delivery!Spec

Quiet == /\ turn = None /\ tails = {}
         /\ active # None => ~active.done
         /\ \A r \in RunIds : chain[r] = <<>>

\* Nothing is stranded: when nothing moves and a result can be found, the
\* renderer has a trigger for it, unless the last report was stopped by the
\* user or by policy, the acknowledgement could not be written, its run was
\* resumed meanwhile, a leaked mark hid the result, or the process restarted.
NotStranded == Quiet /\ Pending \cap finished # {} => signal \/ excuse # "none"

\* An in-flight mark belongs to the turn that set it; when a turn ends its mark
\* is released, on abort too (comment at ipc/agent.ts:8938).
MarkReleased == \A r \in inFlight : turn # None /\ turn.id = r

\* The tables fit together, a run that settled is never turned into an
\* interrupted one before its result was reported, and an acknowledged one is
\* not pending.
NotifyInv == TypeOK /\ OutcomeKept /\ SettledStaysSettled
=============================================================================
