---------------------------- MODULE WorktreeLedger ----------------------------
(***************************************************************************)
(* The isolated worktrees of one workflow run.  WorkflowWorktreeLedger      *)
(* (agent/workflow/worktree-lease.ts) provisions a checkout for a call and  *)
(* settles it; the run manager reclaims what is outstanding and flushes the *)
(* run (run-manager.ts); the user's history view reconciles and discards    *)
(* what is left (ipc/workflows.ts, services/git-worktree.ts).               *)
(*                                                                          *)
(* A worktree is known in three places that are written one after the       *)
(* other: its ownership manifest, the run in memory, and run.json.  Merging *)
(* is not modelled: for the records it is a discard that deletes nothing    *)
(* until it has moved the source branch.                                    *)
(***************************************************************************)
EXTENDS Naturals, FiniteSets

CONSTANTS Calls, MaxFails, MaxCrashes

ASSUME LedgerAssumption == MaxFails \in Nat /\ MaxCrashes \in Nat

\* WorkflowWorktreeStatus; "discarded" with and without cleanupPending.
Open == {"provisioning", "running", "ready", "recoverable"}
Terminal == {"discarded", "cleaned"}
Records == Open \cup Terminal \cup {"none"}

\* Who works on the records of a finished run: a user's action, the history view.
Clerks == {"action", "history"}

VARIABLES
  tree,       \* the checkout and its branch: "none", "clean", "work"
  manifest,   \* the ownership record under .records
  known,      \* run.worktrees of the run store in memory
  saved,      \* run.worktrees of run.json
  unsaved,    \* the run store owes run.json a write
  head,       \* how often a preparation read the source checkout, each time another commit
  source,     \* sourcePromise: 0 if none, else the base commit it froze
  base,       \* the commit a checkout was made from
  pc, goal,   \* a call: where it is, and the status it is going to record
  pending, disposed,
  lingers,    \* calls with a process that may still change the checkout
  reclaim,    \* reclaimAll's task for a call: "no", "inspect", "report"
  run,        \* "on", "reclaim", "over"; "dead" if the process ended before that
  late,       \* the run was over with a call still on its way
  clerk,      \* what a clerk is doing with a record
  fails, crashes

files == <<tree, manifest>>
store == <<known, unsaved>>
call == <<pc, goal, base>>
ledger == <<pending, disposed, source>>
ending == <<reclaim, run, late>>
env == <<head, lingers, crashes>>
ledgerVars == <<files, store, saved, call, ledger, ending, clerk, env, fails>>

Idle == [pc |-> "idle", on |-> {}, val |-> "none"]

LedgerInit ==
  /\ tree = [a \in Calls |-> "none"] /\ manifest = [a \in Calls |-> "none"]
  /\ known = [a \in Calls |-> "none"] /\ saved = [a \in Calls |-> "none"] /\ unsaved = FALSE
  /\ head = 0 /\ source = 0 /\ base = [a \in Calls |-> 0]
  /\ pc = [a \in Calls |-> "idle"] /\ goal = [a \in Calls |-> "none"]
  /\ pending = {} /\ disposed = FALSE /\ lingers = {}
  /\ reclaim = [a \in Calls |-> "no"] /\ run = "on" /\ late = FALSE
  /\ clerk = [w \in Clerks |-> Idle]
  /\ fails = 0 /\ crashes = 0

Goto(a, where) == pc' = [pc EXCEPT ![a] = where]
Aims(a, status) == goal' = [goal EXCEPT ![a] = status]
Manifest(a, status) == manifest' = [manifest EXCEPT ![a] = status]
Tree(a, state) == tree' = [tree EXCEPT ![a] = state]
Fail == fails < MaxFails /\ fails' = fails + 1

\* onRecordChange and onRecordDelete: runStore.update.
Report(a, status) == known' = [known EXCEPT ![a] = status] /\ unsaved' = TRUE

\* withRepoLock, held while a checkout is added.
RepoFree == \A a \in Calls : pc[a] # "add"

-----------------------------------------------------------------------------
\* acquire, up to its first await.
Acquire(a) ==
  /\ pc[a] = "idle" /\ run = "on" /\ ~disposed
  /\ Goto(a, "source")
  /\ UNCHANGED <<files, store, saved, goal, base, ledger, ending, clerk, env, fails>>

AtSource == {a \in Calls : pc[a] = "source"}

\* The source promise resolves for all who await it; it reads the user's
\* checkout once.  In a run disposed of meanwhile they are refused.
SourceReady ==
  /\ AtSource # {}
  /\ IF source = 0 THEN head' = head + 1 /\ source' = head' ELSE UNCHANGED <<head, source>>
  /\ base' = [a \in Calls |-> IF a \in AtSource THEN source' ELSE base[a]]
  /\ pc' = [a \in Calls |-> IF a \in AtSource THEN (IF disposed THEN "done" ELSE "own") ELSE pc[a]]
  /\ UNCHANGED <<files, store, saved, goal, pending, disposed, ending, clerk, lingers, crashes, fails>>

\* It rejects for all of them, and the next call tries again.
SourceFails ==
  /\ AtSource # {} /\ source = 0 /\ Fail
  /\ pc' = [a \in Calls |-> IF a \in AtSource THEN "done" ELSE pc[a]]
  /\ UNCHANGED <<files, store, saved, goal, base, ledger, ending, clerk, env>>

\* Mutant: the checkout is added before anything says whose it is.
Own_Later(a) ==
  /\ pc[a] = "own" /\ RepoFree
  /\ Tree(a, "clean") /\ Goto(a, "add")
  /\ UNCHANGED <<manifest, store, saved, goal, base, ledger, ending, clerk, env, fails>>

\* createWorkflowWorktree: the ownership record comes first.
Own(a) ==
  /\ pc[a] = "own" /\ RepoFree
  /\ \/ Manifest(a, "provisioning") /\ Goto(a, "add") /\ UNCHANGED fails
     \/ Fail /\ Goto(a, "done") /\ UNCHANGED manifest
  /\ UNCHANGED <<tree, store, saved, goal, base, ledger, ending, clerk, env>>

Add(a) ==
  /\ pc[a] = "add"
  /\ Tree(a, "clean") /\ Goto(a, "start")
  /\ Report(a, "provisioning")
  /\ UNCHANGED <<manifest, saved, goal, base, ledger, ending, clerk, env, fails>>

\* git fails, or the new checkout is not valid: what there is of it is removed
\* and then its record, or it is recorded as recoverable.
AddFails(a) ==
  /\ pc[a] = "add" /\ Fail
  /\ Goto(a, "done")
  /\ \/ \E left \in {"none", "provisioning"} : Manifest(a, left) /\ UNCHANGED tree
     \/ \E partial \in {"none", "clean"}, to \in {"provisioning", "recoverable"} :
          Tree(a, partial) /\ Manifest(a, to)
  /\ UNCHANGED <<store, saved, goal, base, ledger, ending, clerk, env>>

\* Back in acquire, the record is persisted as running; a run that was disposed
\* of meanwhile inspects what it made instead of handing it out.
Start(a) ==
  /\ pc[a] = "start"
  /\ \/ /\ Manifest(a, "running") /\ UNCHANGED fails
        /\ IF disposed
           THEN /\ Goto(a, "inspect") /\ Aims(a, "recoverable")
                /\ UNCHANGED <<pending, store, lingers>>
           ELSE /\ pending' = pending \cup {a} /\ Report(a, "running")
                /\ Goto(a, "working") /\ lingers' = lingers \cup {a} /\ UNCHANGED goal
     \/ /\ Fail /\ Goto(a, "record") /\ Aims(a, "recoverable")
        /\ UNCHANGED <<manifest, pending, store, lingers>>
  /\ UNCHANGED <<tree, saved, base, disposed, source, ending, clerk, head, crashes>>

-----------------------------------------------------------------------------
\* The agent, or a process it left behind, writes to the checkout.
Writes(a) ==
  /\ a \in lingers /\ tree[a] = "clean"
  /\ Tree(a, "work") /\ lingers' = lingers \ {a}
  /\ UNCHANGED <<manifest, store, saved, call, ledger, ending, clerk, head, crashes, fails>>

\* The agent is through and settle takes the worktree out of pending, unless
\* reclaimAll already did.  Whoever was aborted may have left a process.
Settle(a) ==
  /\ pc[a] = "working"
  /\ \E succeeded \in BOOLEAN :
       /\ Aims(a, IF a \notin pending THEN "none" ELSE IF succeeded THEN "ready" ELSE "recoverable")
       /\ lingers' \in IF succeeded THEN {lingers \ {a}} ELSE {lingers, lingers \ {a}}
  /\ Goto(a, IF a \in pending THEN "inspect" ELSE "done")
  /\ pending' = pending \ {a}
  /\ UNCHANGED <<files, store, saved, base, disposed, source, ending, clerk, head, crashes, fails>>

\* inspect: a pristine checkout goes, unreadable or changed ones are kept.
Inspect(a) ==
  /\ pc[a] = "inspect"
  /\ \/ /\ Goto(a, IF tree[a] = "clean" THEN "remove" ELSE "record")
        /\ Aims(a, IF tree[a] = "none" THEN "recoverable" ELSE goal[a])
        /\ UNCHANGED fails
     \/ Fail /\ Goto(a, "record") /\ Aims(a, "recoverable")
  /\ UNCHANGED <<files, store, saved, base, ledger, ending, clerk, env>>

\* Mutant: the checkout is removed by force.
Remove_Forced(a) ==
  /\ pc[a] = "remove"
  /\ Tree(a, "none") /\ Goto(a, "forget")
  /\ UNCHANGED <<manifest, store, saved, goal, base, ledger, ending, clerk, env, fails>>

\* removeWorkflowWorktree without force: git refuses what was changed since.
Remove(a) ==
  /\ pc[a] = "remove"
  /\ \/ /\ tree[a] # "work"
        /\ Tree(a, "none") /\ Goto(a, "forget") /\ lingers' = lingers \ {a}
        /\ UNCHANGED <<goal, fails>>
     \/ /\ IF tree[a] = "work" THEN UNCHANGED fails ELSE Fail
        /\ Goto(a, "record") /\ Aims(a, "recoverable") /\ UNCHANGED <<tree, lingers>>
  /\ UNCHANGED <<manifest, store, saved, base, ledger, ending, clerk, head, crashes>>

\* Then its record goes, or becomes a tombstone whose cleanup is pending.
Forget(a) ==
  /\ pc[a] = "forget"
  /\ \/ Manifest(a, "none") /\ Goto(a, "report") /\ Aims(a, "none") /\ UNCHANGED fails
     \/ Fail /\ Goto(a, "record") /\ Aims(a, "discarded") /\ UNCHANGED manifest
  /\ UNCHANGED <<tree, store, saved, base, ledger, ending, clerk, env>>

\* transition; what cannot be persisted is reported all the same.
Record(a) ==
  /\ pc[a] = "record"
  /\ Goto(a, "report")
  /\ \/ Manifest(a, goal[a]) /\ UNCHANGED <<goal, fails>>
     \/ Fail /\ Aims(a, IF goal[a] = "ready" THEN "recoverable" ELSE goal[a]) /\ UNCHANGED manifest
  /\ UNCHANGED <<tree, store, saved, base, ledger, ending, clerk, env>>

Reports(a) ==
  /\ pc[a] = "report"
  /\ Report(a, goal[a]) /\ Goto(a, "done") /\ Aims(a, "none")
  /\ UNCHANGED <<files, saved, base, ledger, ending, clerk, env, fails>>

-----------------------------------------------------------------------------
\* The run ends, with every call settled or after the engine gave up waiting
\* for the others, and reclaimAll takes what is pending.
ReclaimAll ==
  /\ run = "on"
  /\ run' = "reclaim" /\ disposed' = TRUE
  /\ reclaim' = [a \in Calls |-> IF a \in pending THEN "inspect" ELSE "no"]
  /\ UNCHANGED <<files, store, saved, call, pending, source, late, clerk, env, fails>>

Task(a, where) == reclaim' = [reclaim EXCEPT ![a] = where]

\* retainOutstanding: whatever the inspection says, it is kept.
RetainRecords(a) ==
  /\ reclaim[a] = "inspect"
  /\ \/ Manifest(a, "recoverable") /\ Task(a, "report") /\ UNCHANGED <<pending, fails>>
     \/ Fail /\ Task(a, "no") /\ pending' = pending \ {a} /\ UNCHANGED manifest
  /\ UNCHANGED <<tree, store, saved, call, disposed, source, run, late, clerk, env>>

RetainReports(a) ==
  /\ reclaim[a] = "report"
  /\ Report(a, "recoverable") /\ Task(a, "no") /\ pending' = pending \ {a}
  /\ UNCHANGED <<files, saved, call, disposed, source, run, late, clerk, env, fails>>

\* The run store's throttled write.
Save ==
  /\ unsaved
  /\ saved' = known /\ unsaved' = FALSE
  /\ UNCHANGED <<files, known, call, ledger, ending, clerk, env, fails>>

\* The final flush, and the run is no longer active.
FinalFlush ==
  /\ run = "reclaim" /\ \A a \in Calls : reclaim[a] = "no"
  /\ saved' = known /\ unsaved' = FALSE
  /\ run' = "over" /\ late' = (\E a \in Calls : pc[a] \notin {"idle", "done"})
  /\ UNCHANGED <<files, known, call, ledger, reclaim, clerk, env, fails>>

-----------------------------------------------------------------------------
\* Mutant: the last record counts.
Newer_Last(c, i) == {i}

\* newerWorkflowWorktreeRecord: nothing replaces a terminal status; of two
\* terminal records the later one counts.
Newer(c, i) == CASE c \in Terminal /\ i \in Open -> {c}
                 [] c \in Terminal /\ i \in Terminal -> {c, i}
                 [] OTHER -> {i}

Clerk(w, a, where, val) == clerk' = [clerk EXCEPT ![w] = [pc |-> where, on |-> {a}, val |-> val]]
Rests(w) == clerk' = [clerk EXCEPT ![w] = Idle]
At(w, a, where) == clerk[w].pc = where /\ clerk[w].on = {a}

\* withWorktreeActionLock
ActionFree(a) == ~At("action", a, "delete") /\ ~At("action", a, "close")

\* reconcileWorktreeRecordsForRenderer: what the manifest says counts, and what
\* was interrupted becomes recoverable.
Latest(a) == IF manifest[a] # "none" THEN manifest[a] ELSE saved[a]
Reconciled(a) == IF Latest(a) \in {"provisioning", "running"} THEN "recoverable" ELSE Latest(a)

\* Mutant: only what run.json lists is looked at.
MayReconcile_KnownOnly(a) ==
  /\ run \in {"over", "dead"} /\ clerk["history"].pc = "idle" /\ RepoFree /\ ActionFree(a)
  /\ saved[a] # "none"
  /\ Reconciled(a) \notin Terminal \/ manifest[a] = "none" => Reconciled(a) # saved[a]

\* The history view looks at a run that is not active, and finds something to do.
MayReconcile(a) ==
  /\ run \in {"over", "dead"} /\ clerk["history"].pc = "idle" /\ RepoFree /\ ActionFree(a)
  /\ manifest[a] # "none" \/ saved[a] # "none"
  /\ Reconciled(a) \notin Terminal \/ manifest[a] = "none" => Reconciled(a) # saved[a]

\* A dead run is marked interrupted first.
Reconcile(a) ==
  /\ MayReconcile(a)
  /\ run' = "over"
  /\ Manifest(a, IF manifest[a] = "none" THEN "none" ELSE Reconciled(a))
  /\ Clerk("history", a, "write", Reconciled(a))
  /\ UNCHANGED <<tree, store, saved, call, ledger, reclaim, late, env, fails>>

\* discardWorkflowWorktree and cleanupWorkflowWorktree, up to the deletion.
Discard(a) ==
  /\ run = "over" /\ clerk["action"].pc = "idle" /\ ActionFree(a) /\ RepoFree
  /\ \/ saved[a] \in {"ready", "recoverable"} /\ manifest[a] \in {"ready", "recoverable"}
     \/ saved[a] = "discarded" /\ manifest[a] \in Terminal
  /\ Manifest(a, IF manifest[a] \in Terminal THEN manifest[a] ELSE "discarded")
  /\ Clerk("action", a, "delete", manifest'[a])
  /\ UNCHANGED <<tree, store, saved, call, ledger, ending, env, fails>>

DiscardDeletes(a) ==
  /\ At("action", a, "delete")
  /\ \/ Tree(a, "none") /\ Clerk("action", a, "close", "cleaned") /\ UNCHANGED <<manifest, fails>>
     \/ Fail /\ Manifest(a, "discarded") /\ Clerk("action", a, "write", "discarded") /\ UNCHANGED tree
  /\ UNCHANGED <<store, saved, call, ledger, ending, env>>

DiscardCloses(a) ==
  /\ At("action", a, "close")
  /\ Manifest(a, "cleaned") /\ Clerk("action", a, "write", "cleaned")
  /\ UNCHANGED <<tree, store, saved, call, ledger, ending, env, fails>>

\* run.json takes the record; a terminal one is then finalized.  The history
\* view says in run.json that the cleanup is complete before it is.
RunFile(a, val) == \E r \in Newer(saved[a], val) : saved' = [saved EXCEPT ![a] = r]

ClerkWrites(w, a) ==
  LET val == clerk[w].val
  IN /\ At(w, a, "write")
     /\ RunFile(a, val)
     /\ IF val \notin Terminal \/ manifest[a] = "none" THEN Rests(w)
        ELSE Clerk(w, a, IF w = "history" THEN "authorize" ELSE "finalize", val)
     /\ UNCHANGED <<files, store, call, ledger, ending, env, fails>>

Authorizes(a) ==
  /\ At("history", a, "authorize")
  /\ saved' = [saved EXCEPT ![a] = IF @ \in Open \cup {"none"} THEN @ ELSE "cleaned"]
  /\ Clerk("history", a, "finalize", "cleaned")
  /\ UNCHANGED <<files, store, call, ledger, ending, env, fails>>

\* finalizeWorkflowWorktreeRecord
Finalizes(w, a) ==
  /\ At(w, a, "finalize") /\ ActionFree(a) /\ RepoFree
  /\ IF tree[a] = "none" THEN Manifest(a, "none") /\ Clerk(w, a, "note", "cleaned")
                         ELSE UNCHANGED manifest /\ Clerk(w, a, "note", "discarded")
  /\ UNCHANGED <<tree, store, saved, call, ledger, ending, env, fails>>

Notes(w, a) ==
  /\ At(w, a, "note")
  /\ saved' = [saved EXCEPT ![a] = IF @ \in Open \cup {"none"} THEN @ ELSE clerk[w].val]
  /\ Rests(w)
  /\ UNCHANGED <<files, store, call, ledger, ending, env, fails>>

-----------------------------------------------------------------------------
\* The process dies and is started again; a git that was adding may finish.
Crash ==
  /\ crashes < MaxCrashes /\ crashes' = crashes + 1
  /\ tree' \in [Calls -> {"none", "clean", "work"}]
  /\ \A a \in Calls : tree'[a] # tree[a] => pc[a] = "add" /\ tree'[a] = "clean"
  /\ known' = saved /\ unsaved' = FALSE
  /\ pc' = [a \in Calls |-> "done"] /\ goal' = [a \in Calls |-> "none"]
  /\ pending' = {} /\ disposed' = TRUE /\ source' = 0 /\ lingers' = {}
  /\ reclaim' = [a \in Calls |-> "no"] /\ late' = FALSE
  /\ run' = IF run = "over" THEN "over" ELSE "dead"
  /\ clerk' = [w \in Clerks |-> Idle]
  /\ UNCHANGED <<manifest, saved, base, head, fails>>

LeaseStep(a) == \/ Acquire(a) \/ Own(a) \/ Add(a) \/ AddFails(a) \/ Start(a)
               \/ Writes(a) \/ Settle(a) \/ Inspect(a) \/ Remove(a) \/ Forget(a)
               \/ Record(a) \/ Reports(a)
               \/ RetainRecords(a) \/ RetainReports(a)

ClerkStep(a) == \/ Reconcile(a) \/ Discard(a) \/ DiscardDeletes(a) \/ DiscardCloses(a)
                \/ Authorizes(a)
                \/ \E w \in Clerks : ClerkWrites(w, a) \/ Finalizes(w, a) \/ Notes(w, a)

LedgerNext == \/ \E a \in Calls : LeaseStep(a) \/ ClerkStep(a)
        \/ SourceReady \/ SourceFails \/ ReclaimAll \/ Save \/ FinalFlush
        \/ Crash

LedgerSpec == LedgerInit /\ [][LedgerNext]_ledgerVars

-----------------------------------------------------------------------------
Pcs == {"idle", "source", "own", "add", "start", "working", "inspect", "remove",
        "forget", "record", "report", "done"}

\* Shape of the state; a call is in pending only while it works, and nothing is
\* in memory or in run.json that was never given to a call.
LedgerTypeOK ==
  /\ tree \in [Calls -> {"none", "clean", "work"}]
  /\ manifest \in [Calls -> Records] /\ known \in [Calls -> Records] /\ saved \in [Calls -> Records]
  /\ pc \in [Calls -> Pcs] /\ goal \in [Calls -> Records]
  /\ \A a \in pending : pc[a] = "working"
  /\ \A a \in Calls : tree[a] # "none" => base[a] # 0
  /\ \A a \in Calls : reclaim[a] # "no" => run = "reclaim"

\* A checkout always has an ownership record, so that whatever happens, a crash
\* included, somebody can find it (createWorkflowWorktree, removeAndForget,
\* finalizeWorkflowWorktreeRecord).
NothingOrphaned == \A a \in Calls : tree[a] # "none" => manifest[a] # "none"

\* All checkouts of a run start from one commit, whatever the user does with the
\* source checkout meanwhile (source).
OneBaseline == \A a, b \in Calls : base[a] # 0 /\ base[b] # 0 => base[a] = base[b]

\* Work in a checkout is only ever deleted by the user's discard; a process that
\* outlives its agent may write up to the last moment (settle, removeAndForget).
WorkKept ==
  [][\A a \in Calls : tree[a] = "work" /\ tree'[a] = "none" => At("action", a, "delete")]_ledgerVars

\* Once the run is being reclaimed no worktree is handed out any more (acquire
\* after its awaits): reclaimAll has seen all it will ever see.
NoneHandedOutLate == [][disposed => pending' \subseteq pending]_ledgerVars

\* No checkout of a run that is over is out of the user's reach: run.json lists
\* it with a status he can act on, or the next look at the history will
\* (reconcileWorktreeRecordsForRenderer).
NothingHidden ==
  \A a \in Calls : run \in {"over", "dead"} /\ tree[a] # "none" /\ RepoFree =>
    \/ saved[a] \in {"ready", "recoverable", "discarded", "cleaned"}
    \/ (\E w \in Clerks : clerk[w].pc # "idle") \/ MayReconcile(a)

\* A discarded worktree stays discarded in run.json, if the run left nothing
\* behind that still writes to its store (newerWorkflowWorktreeRecord).
DiscardStands ==
  [][\A a \in Calls : saved[a] \in Terminal /\ run = "over" /\ ~late => saved'[a] \in Terminal]_ledgerVars

\* The records fit together, no checkout is without its ownership record, and all
\* checkouts of a run come from one commit, whatever fails or dies when.
LedgerInv == LedgerTypeOK /\ NothingOrphaned /\ OneBaseline
=============================================================================
