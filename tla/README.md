# CmbCoworkAgent: a verification project

TLA+ models of the parts of CmbCoworkAgent where several actors share state across `await`s: background
workflows (engine, files, worktrees, notification), the steering of a running agent turn, the checkpoint
files and who has them open, questions to the user, and scheduled tasks. Paths below are relative to
`src/main/` of the repository. The program is one Electron main process; its concurrency is the
interleaving of asynchronous functions on one thread, so an action here is the code between two awaits,
and everything another function, an IPC handler, a timer or a crash can do happens between actions.

## 1. Inventory

| component | state | operations | talks to | what is hard |
|---|---|---|---|---|
| workflow engine, `agent/workflow/engine.ts` | call markers, caps, journal index, lifetime signal | `agent()`, timers, drain, finalize | run store, limiter, subagents | calls nobody awaits, cap fan-out, replay in another order, abort at any time |
| limiter, `createLimiter` in `engine.ts` | `active`, queue of resolvers; one per run, one per process | acquire, release with hand-off | engine | nested gates, hand-off to a continuation that runs later |
| run manager, `agent/workflow/run-manager.ts` | active runs, failed flushes, in-flight marks, retry counts | launch, cancel, settle, recover, kick, renotify | store, `ipc/agent.ts`, `ipc/workflows.ts` | result must survive failing disks, resumes and races of acknowledgements |
| run store, `agent/workflow/run-store.ts` | `run.json`, journal, generations, disposal marks, per-file chains | update, flush, appendJournal, mark, interrupt, recover, delete | manager, engine, `ipc/threads.ts` | throttled writes, two files, crashes, deletion against late writes |
| worktree ledger, `agent/workflow/worktree-lease.ts`, `services/git-worktree.ts` | leases, ownership records, records in the run and in `run.json` | acquire, settle, reclaimAll, reconcile, discard | engine, git, history view | disposal during creation, three records written one after the other, half-done cleanup |
| message queue, `agent/current-run-message-queue.ts` | queue, owner token, injected and withdrawn ids | queue, delete, claim, clear, drain, notify | `ipc/agent.ts`, `agent/runtime.ts` | run replaced while a batch is on its way |
| keyed lock, `ipc/async-keyed-lock.ts` | tail promise per key | withKey, has | thread handlers | dropping the key against a new arrival, nesting |
| durable SQLite file, `utils/sqlite-durable-file.ts` | live, tmp and bak image | persist, recover, delete | savers, `db/index.ts` | crash between renames or unlinks |
| checkpoint saver, `checkpointer/sqljs-saver.ts` | database in memory, dirty flag, timer, drain promises | put, flush, flushStrict, close, retire | agent runtime | background save against drains, last look at the dirty flag |
| checkpointer registry, `agent/runtime.ts` | cache, pins, closes, retirements, tombstones and epochs | get, with, close, evict, retire, revive | runs, heartbeat, scheduler, `ipc/threads.ts` | a saver in use, closed, evicted and deleted at once; waits on waits |
| user input, `services/user-input.ts` | one pending request per thread, two timers | request, acknowledge, answer, cancel | windows, agent tools | timeouts against answers, windows that reload |
| scheduler, `services/scheduler.ts` | tasks file, running marks, tick timer | tick, run now, cancel, edit, result | agent runtime, `storage.ts` | results against edits, restart between run and result, a file written in place |
| heartbeat, `services/heartbeat.ts` | fixed thread, gate | beat | registry | its use of the registry |
| goals, coordinator workers, approvals, hooks | revisions, worker states, pending approvals | | agent runtime | late verdicts, cancellation |
| renderer, dashboards, browser, MCP, LSP, skills, memory, updater | | | | not part of the core, see section 8 |

What makes each of the modelled ones correct:

* limiter: never more holders than slots, no slot lost, arrival order, everybody gets through;
* engine: caps hold under fan-out, a resume replays each journal entry once and re-runs nothing that
  an entry could answer, finalize waits for every call, `completed` is never claimed for a run that
  lost calls, the run ends;
* run store: `run.json` never shows work the journal cannot replay, a flush reported as done is on
  disk, a deleted directory stays deleted and a rolled-back deletion costs nothing;
* notification: the result of a finished run is reported at least once, not again after its
  acknowledgement is on disk, and never turned into "interrupted";
* worktrees: a checkout always has an owner on disk and stays within the user's reach, work is deleted
  by nobody but the user, all checkouts of a run come from one commit;
* message queue: a steering message is delivered within its run or is still there, never leaks into
  a later run, and a replaced run cannot touch its successor's queue;
* keyed lock: per key a queue served in order of arrival, without idle entries;
* SQLite file and saver: what a flush or close vouched for survives, whatever stops the process; one
  write at a time; nothing unsaved is forgotten; what was deleted stays deleted;
* registry: one saver may write a thread's file, nobody's saver is closed under him, a deleted
  incarnation does not return, nobody waits for ever;
* user input: a question settles once, is not given up after an acknowledgement, and reaches the user or
  settles;
* scheduler: runs of a task do not overlap, a moment is not run again after its result, a task that is
  due is started or given up, and nothing disarms a task or moves it back but what is meant to. That every
  moment is run is not claimed: one that passes while the task is being run by hand is overwritten by the next
  moment which that run's result computes.

The hazards behind them are listed with their lines in `PROJECT.json`.

## 2. Modules

```
WorkflowLimiter         two nested gates of agent() calls      MCWorkflowLimiter
WorkflowEngine          one run of the engine                  MCWorkflowEngine
WorkflowRunStore        the two files of one run id            MCWorkflowRunStore
WorkflowNotify          from settlement to acknowledgement     MCWorkflowNotify
  implements AtLeastOnce  results, reports, acknowledgements
WorktreeLedger          isolated checkouts of one run          MCWorktreeLedger
MessageQueue            steering of a turn                     MCMessageQueue
AsyncKeyedLock          promise chains per key                 MCAsyncKeyedLock
  implements FifoMutex  a queue per key
SqliteFile              a file, its sidecars, its recovery
SqlJsSaver              a saver over a SqliteFile              MCSqlJsSaver
  implements DurableRegister  a value that survives
CheckpointerRegistry    who has the saver of a thread          MCCheckpointerRegistry
UserInput               questions, timers, windows             MCUserInput
Scheduler               tasks, ticks, results, edits           MCScheduler
*_proofs                theorems about the module named before the underscore
Turns_proofs            theorems about WorkflowLimiter and AsyncKeyedLock
WorkflowEngine_proofs   theorems about WorkflowEngine and WorktreeLedger
Conversation_proofs     theorems about MessageQueue and UserInput
```

The three workflow modules `WorkflowEngine`, `WorkflowRunStore` and `WorkflowNotify` cut one system at two
seams. *Engine and store*: `WorkflowEngine` treats a flush as one action that succeeds or fails and has all
of the calls; `WorkflowRunStore` opens up the flush and has of the engine only when it updates, appends and
finalizes. *Store and notification*: `WorkflowNotify` sees a `run.json` as one record written in one step
and follows who may set its `delivered` flag; `WorkflowRunStore` has no flag but the two files of a write,
`mkdir` and the thread's deletion. The mutation chain of a run file is a queue in `WorkflowNotify`; in
`WorkflowRunStore` one recovery is its only user. `WorktreeLedger` has of the run store only the image in
memory, its throttled write and the final flush. *Saver and registry*: `SqlJsSaver` is one saver over a file
whose bytes matter; `CheckpointerRegistry` has several savers and abstracts each to what its users and its
file can tell: open, closing, closed, a write under way, and which incarnation of the thread its rows are of.

In each module a variable carries the name of, or a comment naming, the map or field it stands for;
an action carries the name of its function or what the handler does. History variables, which no
action reads in a guard, are listed in the head of each module or at their declaration. The first invariant
of a module, named after it (`LimiterInv`, `StoreInv`, ...), is its type invariant together with the
invariants about the shape of the state; each conjunct is a definition of its own with a comment of its
own. An operator with a suffix after an underscore (`Release_Early`) is a wrong version of the
definition below it; it is never part of `Next` and shows which mistake a property would catch.

### WorkflowLimiter

`active[g]` and `queue[g]` are the two locals of `createLimiter`; `pc[c]` is how far a call has come
through `perRunLimiter(() => global(fn))`. A release that finds a waiter passes the slot on without
touching `active`, as the code does.

### WorkflowEngine

A call is `tick` (marker registered, one macrotask to go), `queued` (admitted, waiting for the gates),
`live` (its subagent runs), `settled` or `parked`; `then` says that its continuation has not run yet.
The script is arbitrary: its body, continuations and one timer may call `agent()` while the guards of
the code let them. Macrotasks wait for `Quiet`, the empty microtask queue. `phase` follows
`runWorkflowEngine` from the script through the drain, the update and the two awaits of `finalize`.
A call carries `late` when it was made after the verdict. The limiter is abstracted to `Starts`
happening at some time after `Queues`; its fairness is what WorkflowLimiter shows.

### WorkflowRunStore

`stores[i]` is the closure of instance `i`: versions requested and written, queue of pending writes,
the image being written and its program counter through `doWrite` (`mkdir`, checks, journal, run).
`recovery` is `persistRecoveredRun` under way, with the checks it repeats after each await.
`deletion` is the state of the deletion in `ipc/threads.ts`: marked, committed, swept, gone.

### WorkflowNotify

`chain[r]` is the promise chain of `withRunFileMutation`; the head of the chain reads (`out` is set)
and writes in two steps. `turn` is the notification turn of `ipc/agent.ts`; `answer` is what
`markNotified` returned. `signal` stands for the renderer holding a `workflow_notification`.
`launches` is the sequence of all launches and resumes; an instance of a run id (its `startedAt`) is its place
there. `age` orders the run files by the time of their last write, as the scan for pending results reads it
off mtimes. `excuse` names why a pending result may be without a trigger; without one, `NotStranded` demands a
trigger.

### WorktreeLedger

A checkout is known in three places: `manifest` (the ownership record below `.records`), `known` (the run
in memory) and `saved` (`run.json`). A call goes from `source` through `own`, `add` and `start` to
`working`, and after its agent through `inspect`, `remove`, `forget`, `record` and `report`; `goal` is the
status it is about to record. `reclaim` is `reclaimAll`'s task for a call, `clerk` what the history view
or an action of the user is doing with a record of a finished run. `lingers` holds the calls with a process
that may still write to the checkout, which is why a pristine checkout may have changed by the time it is
removed. Not modelled: merging (for the records a discard that first moves the source branch), pruning,
the guard of thread deletion, a branch that outlives its checkout, a final flush that fails.

### MessageQueue

`phase[r]` is the life of a physical run; an aborted graph stays able to finish an await. `batch[r]`
is what its drain took out and is waiting for the notifier with. `era` counts `clear`s: a message
belongs to the lifetime of the queue it was accepted in.

### AsyncKeyedLock and FifoMutex

A call is its number. `pending[k]` is the entry of the map, `prev[t]` the promise the call found there,
`settled` the calls whose own promise has settled. The release of a call and the settling of its promise
are two steps, because the second takes microtasks in which others arrive. The one nesting of two locks in
the program, the replacement lock inside the mutation lock of a thread, is `InnerOf`. `FifoMutex` has one
guard: everybody of the same key who came before is gone.

### SqliteFile, SqlJsSaver and DurableRegister

`SqliteFile` is a library of operators over a directory: what each variant holds (nothing, a torn file, a
whole snapshot) and which of two was written later, which the code reads off mtimes; two variants are taken
to have different ones. `SqlJsSaver` runs `persistSqliteSnapshot` step by step for each of its writers,
so that a crash, a failure and another writer can come between any two effects. `drain` is the state of
the drain behind `flushPromise` and `closePromise`, `need` what the callers waiting for it have seen,
`acked` the newest put a resolved flush or close vouched for. Of the program around it are assumed: nobody
calls `flushStrict` on a saver that is being closed (`ipc/threads.ts`), and nobody closes or retires a saver
whose `initialize` is under way (the registry). A crash is that of the process, not of the machine: what
was renamed stays renamed. The main database saves and drains in the same way.

`DurableRegister` has a value in memory and what the next start will find. `acked` only falls when the file
itself is lost, and then not below the last backup. The refinement maps its `durable` to what
`chooseRecoveryCandidate` would choose in the current directory.

### CheckpointerRegistry

`closing`, `closingInst` and `retiring` are the three maps of promises and mirrors for one thread,
`prev` and `atCall` what a close or a retirement found in them when it began. `proc` follows each user of
the thread's saver from asking to its end: readers with `withCheckpointer`, the runs of a service thread
(heartbeat, scheduler, ChatX), the run of an ordinary thread. `born` and `data` say in which incarnation of
the thread a saver was made and whose rows it holds. `Due` holds back handlers and completed writes
while a continuation is waiting to run, and `Quiet` also while a user whom a retirement or a close kept from a
saver is about to go on: his continuation is a microtask, so no second deletion can begin before him. What
somebody awaits is an operator of its own (`Resumes`, `DeleterResumes`, `MaySave`, `MayClose`, `MaySettle`), which is
the guard of his step. Service threads have no interactive run, deletions come one after the other, there is one
service run at a time, and other threads appear only as the pressure that evicts this one. `strays` is
explained in section 6.

### UserInput

Messages between the main process and a window are two queues per window, delivered in order and lost by a
window that has no listener; a message of a closed window is refused. `acked` is history. The promise of
a request settles in one of five ways.

### Scheduler

Time is counted in minutes and a moment lies inside one. A row of the tasks file carries its frequency and
next run; of the seven frequencies "once", "manual", "interval" and "daily" are kept, the others differ in
how far away the next moment is. `live[t]` is the list of `executeTask` calls under way, so that an overlap
would be visible. An edit starts a new revision `rev`; `spent` are the moments of this revision whose
automatic run wrote its result. `draft` are the tasks whose row the agent's tool has read and is going to write
back. The history of a task's runs is not modelled.

The tasks file is the one store of the core that is written in place (`storage.ts` 2230, 2236, 2270, 2305). A write
lands (`Lands`), or throws (`Throws`) and leaves either the rows it found or a torn file, which
`getScheduledTasks` reads as no tasks (`Torn`); the death of the process in a write is the second followed by
`Exit`. Every writer meets this, each in its way: an edit is lost (`EditLost`), a result is (`ResultLost`), and a tick
whose give-up of a late task throws leaves its loop (`TickThrows`) with the tasks before that one handled, those behind
it not, and the timer armed all the same. `faults` counts these writes, up to `MaxFaults`.

`up` is the process: from `Launch` on the handlers answer and a task can be run by hand, although `startScheduler`
(`Boot`) comes later (`index.ts` 1279 to 1294). `Boot` is also allowed after a `Stop`: a quit asked for during the
start-up stops the scheduler, which the start-up then starts. This allows more than the program does, which never
starts a scheduler again that it had stopped once started, but it is the order the comment at `scheduler.ts` 88 speaks of.

## 3. Runs

Eleven runs pass; the twelfth finds a disagreement. Each asks one question of one module.

| run | bounds | shows |
|---|---|---|
| `limiter` | 5 calls, 2 runs with limits 1 and 2, process limit 2 | exact counting, arrival order, no idle slot, no ring of the two gates, everybody through |
| `engine` | 4 calls of one identity, 2 seeded entries, ceiling 3, agent cap 2, budget 1 | caps, replay, drain, verdict, record; a run whose body is over ends |
| `run_store` | 2 instances, 1 call, 1 crash | journal ahead, honest flush, no resurrection, a survivor keeps its snapshot |
| `notify` | 2 run ids, 2 instances, 1 crash, 1 retry, 1 kept snapshot | findable until reported, settled once acknowledged, never stranded; implements `AtLeastOnce` |
| `ledger` | 2 calls, 1 failure, 1 crash | no checkout without an owner or out of reach, one baseline, no work lost, discards stand |
| `message_queue` | 2 physical runs, 2 drafts, each submitted twice | nothing lost, nothing leaked, stale runs harmless |
| `keyed_lock` | 5 calls, one key nested in another | a FIFO mutex per key, with liveness, no ring under nesting |
| `saver` | 2 puts, 1 strict flush, 1 failure, 1 crash, 1 damaged file, 3 starts | a durable register; nothing unsaved forgotten |
| `registry` | 2 readers with 2 uses, 2 runs, 2 deletions, 4 savers | one writer, none closed in use, no resurrection, nobody stuck |
| `user_input` | 2 windows, 2 requests, 1 reload each | settles once, keeps its timer until acknowledged, reaches the user or settles |
| `scheduler` | 2 tasks, 2 edits of one and 1 of the other, 2 minutes, 1 failing write, interval 1, day 2, expiry 0 | no overlap, no moment run twice, nothing disarmed by accident, due is served |
| `notify_mark_released` | as `notify`, without the crash | the in-flight mark leaks (see below) |

The bounds are the smallest at which the interesting cases meet, and one more where the state space allows:

* five calls make both gates of the limiter full with waiters of two runs behind each;
* four calls exceed the ceiling of three, which exceeds the cap of two, so that one run has a call that is
  parked, one that is refused and one that runs. One identity is the worst case of replay, since calls of
  different identities do not compete for an entry; `ReplayOnce` is proved for any number of them;
* two instances of a run id make a predecessor and a resume, two ids a backlog behind the reported run;
* two isolated calls are a sibling that is working while the other is created, inspected or removed; one
  failure, one crash and the user's actions combine freely;
* five lock calls leave two in the queue behind a holder and its nested call, with a newcomer on the way;
* two puts are one that is vouched for and one that is not; three starts give a crash, a recovery and what
  the next process finds;
* four savers are the one in use, one that is being closed, its successor, and one made beside them. Two readers
  hold and release pins around both; with a second deletion a reader may be woken by one and meet the next. Making
  a saver takes one of the four, which is a bound and nothing anybody awaits;
* two tasks are the one whose give-up throws and the one its tick then does not reach, or whose row a torn file
  takes along. A creation is an edit, so that one task is created and changed or deleted while the other exists; an
  interval of one and a day of two put the next moment at the end of the two minutes or behind them, and an expiry of 0
  makes a once task of the first minute late in the second. Longer histories are left to the proofs, which have no bounds.

The code's own constants (8 failed flushes, 3 retries, 1000 agents) are parameters. Every bound is a CONSTANT.
Symmetry is used where identifiers are interchangeable and no liveness is checked. Deadlock is checked for the
limiter; the other models stop when their bounds are used up, when a run has ended or when the user does
nothing more, so their configurations switch it off, and what may not get stuck there is a property
(`NobodyStuck`, `NotStranded`, the temporal ones).

### Disagreements between the code and its comments

`notify_mark_released` checks one sentence of a comment ("MUST release its in-flight mark - INCLUDING on
abort", `ipc/agent.ts` 8942), and TLC finds a behaviour that breaks it: the local that names the mark is
cleared before `markNotified` is awaited, so that an abort in between leaves nothing to release.

Modelling showed the following further races. A race of this kind must not make a property unusable that
says something about everything else: where a property of a passing run would be broken by such a race only,
it sets apart exactly the instances the race has hit, which a history variable records at the racing step.

| where | what happens | how the properties treat it |
|---|---|---|
| `run-store.ts` 981, 1736 | an update of a flushed store registers again, or passes the generation check of the resume, and writes `run.json` | `overrun` in `JournalAhead`, `FlushHonest` |
| `run-manager.ts` 391 | the write-back of a failed flush replaces the file of a newer resume | `overrun`; `raced` in the properties of `notify` |
| `run-store.ts` 851 to 882 | a live store writes between the read and the write of a flag writer | `raced` |
| `run-manager.ts` 1008 | the mark of a cancelled predecessor carries no `startedAt` and hits its resume | `raced` |
| `run-store.ts` 842 | "Safe direct write: no live writer can exist for a non-active run": a reconciliation waits in the chain behind the write-back of another snapshot, the run is resumed meanwhile, and the resume's running file is marked as interrupted | `raced`; without that exception TLC breaks `NotifyInv` with one run id and three launches |
| `ipc/agent.ts` 8567 | the reported run was resumed by its own turn, so that neither licence to kick holds | `excuse` in `NotStranded`, as are a stop by user or policy, an acknowledgement that cannot be written, the leaked mark and a restart |
| `engine.ts`, finalize | a timer of the script starts an agent during the awaits of finalize; the settled record shows it as running | `late` calls, left out of `RecordTrue` and `CompletedHonest` |
| `engine.ts`, journal | a live call takes the journal slot of an entry that was replayed to an earlier call | a journal is a set of identities with their indices, so the slot stays; the result in it is not followed |
| `current-run-message-queue.ts`, notify | ids count as injected only after the await: a draft resubmitted in between is injected twice | `DeliveredInItsEra` demands the right run, not once |
| `worktree-lease.ts` 316 | the process dies after a pristine checkout is removed and before `run.json` says so: an open record with nothing behind it | harmless to the checkouts, so to every property |
| `worktree-lease.ts`, report | updates of the ledger that straggle in after the final flush write to the store again | `late` in `DiscardStands` |
| `runtime.ts` 3345 | two cold gets create a saver each, the later replaces the earlier in the cache and nobody closes it | `strays`, see section 6 |
| `sqljs-saver.ts` 1040 | a put between the last look of a drain and `db.close` goes with the database | not vouched for, so a permitted loss of the register |
| `sqljs-saver.ts` 530 | a failed background save waits for the next change | `fails > 0` in `NothingForgotten`, `EventuallySaved` |
| `user-input.ts` 208 | a window that reloads after its acknowledgement strands the question: no timer, nobody asks again | `Stranded` in `AskedOrSettled` |
| `storage.ts` 2292 | the result of a once task is keyed by the task: a moment set during its run is wiped by the result | "once" in `StaysArmed` |
| `scheduler.ts` 323 | a task that was "once" when its run began is switched off at its end, whatever it is by then | "once" in `StaysArmed` |
| `storage.ts` 2230, 2236, 2270, 2305 | the tasks file is written in place, and what a failing write leaves of it reads as no task, so that the next creation writes a file of one task | `Tears` in `StaysArmed`: the step that tears, none after it |
| `scheduler-tool.ts` 258 | the agent's tool writes back a row it read before the deletion | `draft` in `DeletionStands` |

## 4. Fairness and refinement

Every wait that ends by itself in the code is a promise, a timer or an operation of the file system, and only
those are fair; what a user, a script or a model may do or not do is not.

* `WorkflowLimiter`: weak fairness of a call that holds or was handed a slot. Microtasks always run,
  and an agent ends on its own, by failure, or by the engine's watchdogs. A call need never be made.
* `WorkflowEngine` (`FairSpec`): weak fairness of the steps of each call and of the engine's
  drain and finalize steps. A subagent need not end by itself; it is only assumed to settle once the lifetime
  is aborted, which the code races against its stream, and the deadline timer is assumed to fire. The script body
  is not assumed to return: `EventuallyFinished` begins when it has.
* `AsyncKeyedLock`: weak fairness of entering, leaving and settling. That a holder leaves is an assumption on
  the functions run under the lock, which the module itself cannot know.
* `SqlJsSaver`: weak fairness of `Progress`: timers, continuations and file operations. Failing is always
  an alternative to an operation's success, within `MaxFails`.
* `UserInput`: weak fairness of both timers and of the delivery of messages; nobody need ever answer.
* `Scheduler`: weak fairness of the tick, a timer that each tick arms again, whether its loop throws or not. Runs need
  not end, and time need not pass. That a task is served needs that only finitely many give-ups fail (`MaxFaults`).
* The other modules state no fairness and check safety only. What must eventually happen in them is
  stated as safety of quiet states (`NotStranded`: when nothing moves, a trigger is there; `NobodyStuck`:
  while somebody is on the way, the wait of a user, of a close or retirement, or of a saver is over, which is the
  guard of a step that needs nobody from outside).

Three abstract specifications say what a component promises. TLC checks that the detailed one implements them,
and all three are proved (of `FifoMutex` the safety part):

* `AsyncKeyedLock` implements `FifoMutex` (`IsFifoMutex`, with its fairness).
* `SqlJsSaver` over `SqliteFile` implements `DurableRegister` (`IsRegister`). The mapping takes `durable` to what
  recovery would choose in the directory as it is, so that a crash between any two renames has to be a stutter or a
  permitted loss of the register.
* `WorkflowNotify` implements `AtLeastOnce` (`IsDelivery`). The mapping takes what is `held` to the results that are in
  a snapshot or undelivered on disk, and what is `given` to the instance of a turn in its model phase; every other
  step of files, snapshots, chains and marks has to be a stutter. A turn may report again until an acknowledgement
  has landed; from then on no turn may be given the instance, a crash may lose only what memory held, and the victims
  of the races of section 3 are `raced` in the abstract specification, too.

## 5. Proofs

Eight modules hold theorems, each for any value of the constants under the assumption named in the component's
module. Each has one inductive invariant, called `IInv` or named after its parts, and one step per action.

`Turns_proofs` is about the two places where agents and tools wait for their turn. For the limiter, from
`LimiterAssumption` (finitely many calls, each of a run; every gate has at
least one slot): `LimiterCorrect` (`[]LimiterInv`), `CapHolds`, `InOrder`. `SlotAccounting` is not inductive alone:
that a release may pass a slot on without touching the counter is only right if the head of the queue is a
call that waits at this gate and owns no slot of it, and that it leaves nobody in the queue twice. `QueueInv`
says so. The step is proved once for `Acquire` and once for `Release`, for any gate; the four actions of `Next`
instantiate these two lemmas. `InOrder` (`NoOvertaking`) is about two calls at a time: a newcomer takes a free slot
without a look at the queue, and overtakes nobody only because a gate at which somebody waits is full
(`NoIdleSlot`). That the two gates do not wait for each other (`NoGateRing`) follows from the
counting: a call at the process gate means that the gate is full, so somebody holds a slot of it, and so does a full
gate of a run (`SomebodyHolds`). The cardinality steps rest on the library's theorems on finite sets.

`WorkflowEngine_proofs`, from `EngineAssumption` (the bounds are natural numbers, the identities finitely
many, `None` is no call and no word of the model): `EngineCorrect` (`[]EngineInv`), `ReplayedOnce`,
`CompletedIsHonest`, `FinalizeAfterDrain`, `RecordIsTrue` (`RecordTrue`). `ReplayOnce` needs `NoRerun`: the
call finds no entry when it is admitted and runs many steps later, so a call that is queued must remember that
none is there, and no entry may come back. `CompletedHonest` needs `ParkedFor`, that a parked call has the ceiling or an abort as its
reason, and `DrainedBeforeFinalize`: only a call made after the verdict can still be parked or refused. The
steps fall into three kinds (`StepKinds`): the script or the engine moves and perhaps adds a call, one
call moves, or the verdict falls on a drained run. Each part of `IInv` has one lemma with these three cases.
`RecordTrue` says something of the record only once it is written; `ShownTrue` says it of the agents while the run
goes on: one that is shown as running has a live call or belongs to an aborted run, and an aborted run is not
finalized as completed.

For the worktrees the calls lease it has, from `LedgerAssumption`, `LedgerCorrect` (`[]LedgerInv`),
`NoCheckoutHidden` (`[]NothingHidden`), `WorkIsKept` (`WorkKept`), `NothingAfterReclaim` (`NoneHandedOutLate`),
`DiscardsStand` (`DiscardStands`). The invariant says of every point of a call what it may count on (`Safe`: no
checkout before it is added, an owner as soon as git may have added it, none left when its record is forgotten). A
checkout that is left therefore has an ownership record, which the history view reads first, and that is why none is
hidden. The invariant also says that the source commit is frozen before anybody uses it (`Frozen`). For the discards it adds that nobody saves
the store of a run that has ended, unless a call was left on its way (`Ended`): such a save writes what the store
knows over whatever is on disk, while a clerk's write keeps a terminal record, and what a clerk notes is
terminal (`Noted`).

For the keyed lock `Turns_proofs` has `LockCorrect` (`[]LockInv`), `MutualExclusion`, `HasExact`, `LocksFormNoRing`, and `IsFifo`, the
refinement of `FifoMutex`. The invariant says what a chain of promises is: the map names the last call of a key
that is not settled (`LastIsPending`), nobody of the key is between a call and the one it waits for
(`NobodyBetween`), a call inside is the first of those not settled (`InsideIsFirst`), and a settled one is over
(`SettledIsGone`). Exclusion and arrival order both follow from it.
`LocksFormNoRing` adds what a nested call is (`NestedOK`: a call made inside another's function is of the inner key).
The first call of a key that is not settled has nothing ahead of it (`FirstMoves`), and it can only be held up, inside,
by a call of the inner key; the first of that one is held up by nobody. `LockAssumption` says that locks nest one deep,
which is all the program does (the replacement lock inside the mutation lock, `ipc/agent.ts` 5785): with keys that are
taken inside one another both ways the waits could form a ring.

`Scheduler_proofs`, from `SchedulerAssumption` (interval and day are positive), for any number of edits and of failing
writes: `SchedulerCorrect`
(`[]SchedulerInv`), `ArmedUntilServed` (`StaysArmed`), `DeletedStaysDeleted` (`DeletionStands`). That a moment is
not run twice needs the place of every moment in time: those served are past (`SpentIsPast`), the next
one of a task is not among them (`NextIsFresh`) because it is computed to be ahead of the clock
(`NextIsAhead`), and a run started for a moment carries one that is past (`RunsArePast`). That a moment does not move
back needs that the moment of a periodic task is no later than the one that would be computed by now (`NextInReach`),
which the clock keeps because that one only grows (`NextGrows`). What the invariant says of the file is kept by any write
of rows that differ only in what is switched on, whether it lands, throws or tears (`WriteKeeps`).

`Conversation_proofs` is about what the user tells a running agent and what it asks back. For the questions it
has `UserInputCorrect` (`[]UserInputInv`), `SettlesOnce` (`SettledOnce`), `AutoStaysArmed`. `TimedOrAcked` (in `UserInputInv`) and
`AutoStaysArmed` (`AutoKept`) are the safety behind the two liveness properties: a question that nobody acknowledged has
its timer, and an auto resolution is called off by the settlement of its own question only. The dialogs are a
property of the order of messages: a window that shows a dead question, or has one ahead of it in its queue, has
its cancellation behind it in the same queue (`ShownInTime`, `SentInTime`).

For the message queue it has `QueueBelongs` (`[]QueueInv`), `NothingIsLost` (`[]NothingLost`),
`DeliveriesInTheirEra` (`DeliveredInItsEra`), `ForeignRunsAreHarmless` (`ForeignRunsHarmless`). A run that has
been replaced still has a graph, a notifier and a finally block, which compare the run token. An abandoned start
clears without comparing, and is right because it owns the queue until it is published (`StarterOwns`). Whether a
message is lost depends on what is left when a message is withdrawn, which filters the queue. The library states
its facts about filters with the test as an operator parameter, which the provers cannot instantiate; the model
filters with a recursive function (`Without`) and the module proves what it does, by the least length for which it
would not: a set of natural numbers has a least element (`LeastNumber`), the one form of induction that needs no
parameter.

`WorkflowRunStore_proofs`, from `StoreAssumption` (the bounds are natural numbers, `None` is none of the records):
`StoresAndFiles` (`[]StoreInv`), `FlushesAreHonest` (`[]FlushHonest`), `SweptStaysSwept` (`[]NoResurrection`),
`SurvivorsSnapshot` (`SurvivorKeepsSnapshot`). That every call `run.json` shows as finished can be replayed is not
inductive: a store that is about to write decides with what it has frozen, another instance's store may still
rewrite the journal, and a second launch of the same id may do so from a log of its own. `Replayable` says which
calls survive all of them: in the journal, in the log of every later store that lives, and in what such a store has
frozen. `FreezesFinal` says what is frozen once the run is no longer driven. A stale writer reports
success without writing; that is honest because the store that is not the owner any more has left its final state
on disk (`Holds`, `ToldOK`). `FilesOK` ties a directory that came back after the sweep to the writer that will
remove it. The steps follow one store from update over freezing, the journal and the run file to the settling
of the flush, one lemma per step and part of the invariant.

`WorkflowNotify_proofs`, from `NotifyAssumption` (the bounds are natural numbers, the run ids finitely many, `None`
is none of the records): `TablesFit` (`[]NotifyInv`), `ResultsSurvive` (`[]NothingSwallowed`), `AcknowledgedOnce`
(`[]SettledStaysSettled`), `SomebodyAsks` (`[]NotStranded`), `ImplementsDelivery` (`IsDelivery`). All of them follow from
one invariant, since each depends on the others' reasons:

* Whose the records are (`ActiveOK`, `OwnOK`): the run in charge is the last launch, a snapshot and a finished run are
  of the last launch of their id, a file of some launch. A launch drops the snapshot of its id before anything else
  can look at it.
* What the chains hold (`ChainOK`): only the head has read its file, write-backs queue in the order of the launches,
  and none is of an instance older than one that has been acknowledged (`RecoverOK`). This is why an acknowledgement
  on disk is never undone by an older copy of the flag: `persistRecoveredRun` merges the flag it finds, but only that
  of its own instance.
* What the head of a chain is about to write (`HeadsOK`): what it read may be out of date by the time it writes, yet
  only by a live store of the same file, and then the instance is in `raced` (`Overtook`).
* What may be lying where: the file of a run that is open (finished, neither reported nor raced) carries no mark
  (`FilesOK`), an acknowledged file is marked and a snapshot of it waits for the turn to mark it too (`AckedOK`), and a
  write-back without a mark brings nothing to light that nobody knows of (`KnownOK`).
* Who will ask (`ToldOK`): when a result can be found and neither a trigger nor an excuse is there, a turn or a settle
  block is still at work.

Each action has a lemma; those of the flag writers rest on what `Append` and `Tail` do to an ordered queue
(`ShapeGrows`, `ShapeShrinks`, `Joins`, `Leaves`) and on what `Rewrite` returns (`RewriteSays`). For the refinement each action is one step of `AtLeastOnce` or a stutter: a settlement is
a `Finish`, a launch a `Resume`, the start of a turn a `Give` (what is pending is not acknowledged, `PendingIsDue`), its
success a `Report`, its failure a `Withdraw`, and of all the flag writers only an acknowledgement that lands is
an `Acknowledge`. Before the proof TLC
had checked the invariant on the bounds of `notify` and on those of one run id with three launches.

`SqlJsSaver_proofs`, from `SaverAssumption` (the bounds are natural numbers): `SaverCorrect` (`[]SaverInv`),
`NeverForgotten` (`NothingForgotten`), `ImplementsRegister` (`IsRegister`). The proof has three layers.

* Directories. In a sound one the variants are ordered by age, a later one has no smaller value, and no backup is
  ahead of a readable live file. Then what recovery finds is the largest value there is (`LargestIsFound`), although
  it looks at the times first, and each rename or unlink keeps the directory sound if what is written is the
  largest.
* The saver. `SaverIInv` says who may be at work at the same time (`Turns`: a drain that writes has stopped the
  background save, a close has waited for the flush), what the file holds at each step of a write (`OnDisk`), that
  what was vouched for can be found (`Vouched`), what a deletion has left (`Deletion`), and that the database is
  marked whenever the file is behind, with somebody to look at the mark (`Marked`, `Attended`). There is one lemma
  per action.
* The register. Each action of the saver is one step of the register or a stutter: a rename is a `Persist`, the end
  of a drain an `Ack`, an unlink an `Abandon` or the `Delete`, a crash a `Stop`.

`CheckpointerRegistry_proofs`, from `RegistryAssumption` (the bounds are natural numbers, the service and the run are
no readers): `RegistryCorrect` (`[]RegistryInv`), `StaysOpen` (`InUseStaysOpen`), `NothingComesBack`
(`NoResurrection`), `WaitsFormNoRing` (`[]NobodyStuck`). The invariant has two parts, and each has one lemma per action.

* `Shape` says what holds whatever the code looks at: what a user may count on of the saver he has (`Own`), that a
  saver being created is in no table (`Life`), that whoever is behind a promise is still at it (`Chans`), which saver
  is cleared together with a promise (`Named`), and what a deletion leaves until the service revives the thread
  (`Buried`). `InUseStaysOpen` and the quiet end follow from it.
* `Looked` is about who may write the file, and holds as long as no stray was made. No step but the making of a saver
  adds to those who may write (`WritersFewer`), so one saver stays one saver; the question is what somebody who makes
  one knows. He knows that none is being retired or cached and, unless somebody has a pin, that none is being closed,
  and that has to mean that nobody may write: `Held` says that everyone who may is cached, being created, being evicted
  or taken by the service's close, and that a retirement waits for all of them. With a pin the close under way is
  passed over; that is right for the service's own close, whose saver stays cached until it takes it (`Served`), and
  while one is evicted (`Evicted`) such a saver would be a stray. `Swept` says that what is on disk, or will be, is of the current incarnation or will be swept.

`WaitsFormNoRing` follows the waits from whoever is on his way to somebody who need not wait. A user waits for a
retirement, for a close or for a write; a retirement for the close it found; the service's close for the one it found,
then for the pins. For the chain to end, a saver whose close somebody waits for has begun to close (`Begun`), only the
service closes the saver of the thread (`OneCloser`), and there is no ring (`NoRing`): while a retirement waits for the
service's close, and so for pins, that close does not wait for a retirement, and no reader who has a pin waits to get the
saver. The mutant of `NobodyStuck` lets a retirement wait for the pins itself. The first attempt failed for a good
reason: with two deletions the model let a reader who was woken by the end of the first be overtaken by the second, whose
retirement then waited for a close that waited for his pin. In the code his continuation runs before any other handler,
which `Quiet` says now.

Before the proof TLC had checked the invariant with two readers, two runs and two deletions.

Model-checked only: liveness under fairness (`EventuallyThrough`, `EventuallyFinished`, `EventuallySaved`,
`AskedOrSettled`, `AutoSettles`, `DueIsServed`, the fairness of `FifoMutex`), which is outside the prover's reach. What
makes each of them true is proved as safety, where it is a state's property: somebody at a gate or a lock can
move (`NoGateRing`, `NoLockRing`), parked calls have a reason that is not waited for (`ParkedFor`), a marked database has
somebody to save it (`NothingForgotten`), a question has its timers (`TimedOrAcked`, `AutoKept`), a task keeps its next
moment (`StaysArmed`). No property uses `ENABLED`: where a state may not be stuck, the guards are operators and the
property names them.

## 6. Abstractions to know when reading

* Message texts, prompts, results and errors are ids or the set of finished calls; a draft's content is
  the number of its submission; a database is the number of its last put.
* Timestamps that only fence instances (`startedAt`) are the instance number; the scheduler's clock counts minutes.
* One thread, one workspace. Every map concerned is keyed by thread or by run file; the questions of other
  threads, the locks of other keys and the savers of other threads do not touch the modelled ones.
* A write of a file is atomic, as temporary file and rename make it; a failing one leaves the old file. The tasks file
  of the scheduler is written in place, and its module has the writes that fail and those that tear (section 2). A read
  of it that fails, which has the same effect on an edit, is not modelled. The `.bak` of `run.json` is written in place
  too, but only as the last step, when `run.json` itself has landed, and its failure is ignored.
  `SqliteFile` opens this up for databases. `persistRecoveredRun`, which copies a backup too, can fail after
  `run.json` landed.
* A crash ends the process. What had been written or renamed before stays so: a crash of the machine, and with
  it the effect of `fsync`, is not modelled.
* Messages between the main process and a window arrive in order, as Electron delivers them.
* `strays` of the registry: `getCheckpointerInternal` does not see a creation under way (two cold gets), who
  has a pin does not wait for a close, and a creation overtaken by a deletion may leave a file that the next
  incarnation reads before it is swept. A saver made in one of these ways is a stray; `OneSaverPerFile` and
  `NoResurrection` are stated as long as there is none, so they show that these are the only ways. The other
  properties of the registry hold with strays as well.
* The hooks of a prepared message and the model's answers are nondeterministic.

## 7. What the project would take next

1. Goals (revisions against late verdicts of the evaluator) and coordinator workers (cancellation against
   continuation), then the broker of approvals.
2. The rest of the worktree ledger: merging, pruning, the guard of thread deletion.

## 8. Not modelled

* Goals, coordinator workers, approvals, the order of hook results and the updater's marker have protocols of
  their own that no module covers yet. The heartbeat is modelled as a user of the registry only.
* The script surface (VM sandbox, schema validation, prompts), the agent guards, exec policy, routing, skills and
  memory are sequential transformations of text and tables, where a model would repeat the code.
* Browser, code execution, MCP, LSP and ChatX drive external processes whose behaviour is not in this repository.
* Dashboards, adoption tracking and the renderer display and count; of the renderer the signals and messages
  it exchanges with the modelled handlers are taken.
* Of thread deletion, the IPC handlers and the agent runtime only the parts that touch the modelled state are
  taken; graph construction, streaming and context compaction are not. Listing, the migration of old
  layouts and the truncation of long outputs are left out of the run store.
