------------------------------ MODULE Scheduler ------------------------------
(***************************************************************************)
(* The scheduler of tasks (services/scheduler.ts) over the tasks file       *)
(* (storage.ts), with the handlers that edit it beside a run                *)
(* (ipc/scheduled-tasks.ts, agent/tools/scheduler-tool.ts).                 *)
(*                                                                          *)
(* A moment lies strictly inside the minute "now".  Of the frequencies      *)
(* "once", "manual", "interval" and "daily" are kept ("hourly", "weekdays"  *)
(* and "weekly" differ from them in how far away the next moment is).       *)
(* Any write of the tasks file may fail, and tear the file.                 *)
(***************************************************************************)
EXTENDS Naturals, Sequences

CONSTANTS
  Tasks, MaxTime, Interval, Day, Expire,
  MaxEdits,  \* per task, how often it is edited
  MaxFaults  \* how many writes of the tasks file fail

ASSUME SchedulerAssumption ==
  /\ MaxTime \in Nat \ {0} /\ MaxEdits \in [Tasks -> Nat] /\ MaxFaults \in Nat
  /\ Interval \in Nat \ {0} /\ Day \in Nat \ {0} /\ Expire \in Nat

Times == 1 .. MaxTime
Never == 0
Frequencies == {"once", "manual", "interval", "daily"}

VARIABLES
  now,
  file,    \* scheduled-tasks.json: per task, its row (runAt of a once task only)
  faults,  \* how many writes of it have failed
  draft,   \* the tasks whose row an update of the agent's tool has read
  up,      \* the process: "off", "starting" (before startScheduler), "on", "stopping" (shuttingDown)
  timer,   \* tickTimer is armed
  running, \* runningTasks
  live,    \* per task, the calls of executeTask under way, oldest first
  rev,     \* per task, how often it was edited
  spent    \* per task, the moments whose automatic run wrote its result, since the last edit

data == <<file, faults, rev, spent>>
service == <<up, timer, running, live>>
vars == <<now, data, draft, service>>

Gone == [there |-> FALSE, enabled |-> FALSE, freq |-> "manual", at |-> Never, next |-> Never]

Init ==
  /\ now = 1
  /\ file = [t \in Tasks |-> Gone] /\ draft = {}
  /\ faults = 0 /\ up = "off" /\ timer = FALSE /\ running = {}
  /\ live = [t \in Tasks |-> <<>>]
  /\ rev = [t \in Tasks |-> 0] /\ spent = [t \in Tasks |-> {}]

\* computeNextRunAt, from inside the minute n.
ComputeNextRunAt(freq, at, n) ==
  CASE freq = "manual" -> Never
    [] freq = "once" -> at
    [] freq = "interval" -> n + Interval
    [] freq = "daily" -> ((n \div Day) + 1) * Day

-----------------------------------------------------------------------------
\* The tasks file is written in place (writeFileSync).  A write lands...
Lands(rows) == file' = rows /\ UNCHANGED faults

\* What is left of a file that was cut short does not parse, and that is read
\* as no task at all (getScheduledTasks), also by whoever writes the file next.
Torn == [t \in Tasks |-> Gone]

\* ... or throws, before or after it has truncated what was there, rows.  The
\* end of the process within a write is a throw followed by Exit.
Throws(rows) ==
  /\ faults < MaxFaults /\ faults' = faults + 1
  /\ file' \in {rows, Torn}

\* The editors.  An edit starts a new revision of the task...
Edited(t, row) ==
  /\ rev[t] < MaxEdits[t] /\ Lands([file EXCEPT ![t] = row])
  /\ rev' = [rev EXCEPT ![t] = @ + 1] /\ spent' = [spent EXCEPT ![t] = {}]

\* ... unless its write throws, which its caller is told.
EditLost == Throws(file) /\ UNCHANGED <<rev, spent>>

\* upsertScheduledTask: the next run is computed anew.
Upsert(t, enabled, freq, at) ==
  Edited(t, [there |-> TRUE, enabled |-> enabled, freq |-> freq, at |-> at,
             next |-> ComputeNextRunAt(freq, at, now)])

\* A once task is set to any moment, be it one that the row had.
Moments(freq) == IF freq = "once" THEN Times ELSE {Never}

\* scheduledTasks:create, with an id of its own, and :update.
Save(t) ==
  /\ up # "off" /\ (file[t].there \/ rev[t] = 0)
  /\ \/ EditLost
     \/ \E freq \in Frequencies, on \in BOOLEAN : \E at \in Moments(freq) :
          Upsert(t, on, freq, at)
  /\ UNCHANGED <<now, draft, service>>

\* The tool's "update" reads the row, then awaits the context it was asked to add...
ToolReads(t) ==
  /\ up # "off" /\ file[t].there
  /\ draft' = draft \cup {t}
  /\ UNCHANGED <<now, data, service>>

\* ... and writes what it read, changed or not.
ToolWrites(t) ==
  /\ t \in draft
  /\ \/ EditLost
     \/ \E freq \in Frequencies, on \in BOOLEAN : \E at \in Moments(freq) :
          Upsert(t, on, freq, at)
  /\ draft' = draft \ {t}
  /\ UNCHANGED <<now, service>>

\* setScheduledTaskEnabled of a user: a once task is not armed for the past.
Enable(t) ==
  /\ up # "off" /\ file[t].there
  /\ \/ EditLost
     \/ Edited(t, [file[t] EXCEPT
          !.enabled = TRUE,
          !.next = IF file[t].freq = "manual" THEN @
                   ELSE IF file[t].freq = "once" THEN (IF file[t].at > now THEN file[t].at ELSE Never)
                   ELSE ComputeNextRunAt(file[t].freq, file[t].at, now)])
  /\ UNCHANGED <<now, draft, service>>

Disable(t) ==
  /\ up # "off" /\ file[t].there
  /\ EditLost \/ Edited(t, [file[t] EXCEPT !.enabled = FALSE])
  /\ UNCHANGED <<now, draft, service>>

Abort(runs) == [i \in DOMAIN runs |-> [runs[i] EXCEPT !.aborted = TRUE]]

\* Deletion from the window cancels a run, deletion by the tool does not.
Delete(t) ==
  /\ up # "off" /\ file[t].there
  /\ EditLost \/ Edited(t, Gone)
  /\ live' \in {live, [live EXCEPT ![t] = Abort(@)]}
  /\ UNCHANGED <<now, draft, up, timer, running>>

-----------------------------------------------------------------------------
\* A run, of the moment it is started for, or of none if by hand.
Run(t, auto) == [pc |-> "working", once |-> file[t].freq = "once", aborted |-> FALSE,
                 slot |-> IF auto THEN file[t].next ELSE Never, rev |-> rev[t]]

\* setScheduledTaskEnabled(task, false) of the tasks of ts.
SwitchedOff(ts) == [t \in Tasks |-> IF t \in ts THEN [file[t] EXCEPT !.enabled = FALSE] ELSE file[t]]

\* executeTask up to its first await, of each task of ts.
Starts(ts, auto) ==
  /\ running' = running \cup ts
  /\ live' = [t \in Tasks |-> IF t \in ts THEN Append(live[t], Run(t, auto)) ELSE live[t]]

\* The tasks a tick acts on.
Due == {t \in Tasks \ running : file[t].there /\ file[t].enabled /\ file[t].freq # "manual"
                                /\ file[t].next # Never /\ now >= file[t].next}

\* Those of them it gives up: once tasks found too late.
Late == {t \in Due : file[t].freq = "once" /\ now - file[t].next > Expire}

\* The loop of a tick ends early when giving up a task fails: the tasks
\* before that one in the file are done, those behind it are left for the next tick.
TickThrows ==
  \E t \in Late : \E done \in SUBSET (Due \ {t}) :
    Starts(done \ Late, TRUE) /\ Throws(SwitchedOff(done \cap Late))

\* Mutant: a once task is disabled before it runs.
Ticks_DisablesOnce ==
  /\ \/ Starts(Due \ Late, TRUE) /\ Lands(SwitchedOff({t \in Due : file[t].freq = "once"}))
     \/ TickThrows
  /\ timer' = TRUE

\* Mutant: the timer is armed at the end of the loop, which a throw does not reach.
Ticks_NoFinally ==
  \/ Starts(Due \ Late, TRUE) /\ Lands(SwitchedOff(Late)) /\ timer' = TRUE
  \/ TickThrows /\ timer' = FALSE

\* tick, which arms the timer again whatever happened.
Ticks ==
  /\ \/ Starts(Due \ Late, TRUE) /\ Lands(SwitchedOff(Late))
     \/ TickThrows
  /\ timer' = TRUE

Tick ==
  /\ up = "on" /\ timer
  /\ Ticks
  /\ UNCHANGED <<now, rev, spent, draft, up>>

\* runTaskNow, of the window or of an agent, also before the scheduler is started.
RunNow(t) ==
  /\ up \in {"starting", "on"} /\ t \notin running /\ file[t].there /\ file[t].enabled
  /\ Starts({t}, FALSE)
  /\ UNCHANGED <<now, data, draft, up, timer>>

\* cancelTask
Cancel(t) ==
  /\ t \in running
  /\ live' = [live EXCEPT ![t] = Abort(@)]
  /\ UNCHANGED <<now, data, draft, up, timer, running>>

-----------------------------------------------------------------------------
\* Mutant: a once task stays armed when its run failed.
NextRun_RetriesOnce(row, how) ==
  IF row.freq = "once" /\ how = "ok" THEN Never ELSE ComputeNextRunAt(row.freq, row.at, now)

\* The next run after a result: of the row as it is by now.
NextRun(row, how) ==
  IF row.freq = "once" THEN Never ELSE ComputeNextRunAt(row.freq, row.at, now)

\* updateScheduledTaskRunResult, which writes nothing for a task that is gone.
ResultWritten(t, how) ==
  Lands(IF file[t].there THEN [file EXCEPT ![t].next = NextRun(file[t], how)] ELSE file)

\* The result of an error is not written, be it the first one or the one of the
\* catch block after the write of a success threw.
ResultLost(t) == file[t].there /\ Throws(file)

At(t, i, pc) == i \in DOMAIN live[t] /\ live[t][i].pc = pc

\* A run whose agent has ended: nothing listens to its signal any more, and
\* only the trace still asks whether the task was a once task.
Ended(run, pc) ==
  [run EXCEPT !.pc = pc, !.aborted = TRUE, !.once = (pc = "tracing" /\ @), !.slot = Never, !.rev = 0]

GoesTo(t, i, pc) == live' = [live EXCEPT ![t][i] = Ended(@, pc)]

\* The run of the agent ends: its result is written, and a success goes on to
\* the trace.  A cancelled run may end as an error too.
Finishes(t, i) ==
  /\ At(t, i, "working")
  /\ \/ /\ \E how \in IF live[t][i].aborted THEN {"error"} ELSE {"ok", "error"} :
             /\ ResultWritten(t, how)
             /\ GoesTo(t, i, IF how = "ok" THEN "tracing" ELSE "closing")
        /\ spent' = IF live[t][i].slot # Never /\ live[t][i].rev = rev[t]
                    THEN [spent EXCEPT ![t] = @ \cup {live[t][i].slot}] ELSE spent
     \/ ResultLost(t) /\ GoesTo(t, i, "closing") /\ UNCHANGED spent
  /\ UNCHANGED <<now, rev, draft, up, timer, running>>

\* The trace is written: a task that was "once" when it started is disabled.
Traced(t, i) ==
  /\ At(t, i, "tracing")
  /\ Lands(IF live[t][i].once THEN SwitchedOff({t}) ELSE file)
  /\ GoesTo(t, i, "closing")
  /\ UNCHANGED <<now, rev, spent, draft, up, timer, running>>

\* The trace, or that the task is disabled, could not be written: a second
\* result, an error, replaces the first.
TraceFails(t, i) ==
  /\ At(t, i, "tracing")
  /\ ResultWritten(t, "error") \/ ResultLost(t)
  /\ GoesTo(t, i, "closing")
  /\ UNCHANGED <<now, rev, spent, draft, up, timer, running>>

Without(s, i) == [j \in 1 .. (Len(s) - 1) |-> IF j < i THEN s[j] ELSE s[j + 1]]

\* The checkpointer is closed, and the task released.
Closed(t, i) ==
  /\ At(t, i, "closing")
  /\ live' = [live EXCEPT ![t] = Without(@, i)]
  /\ running' = running \ {t}
  /\ UNCHANGED <<now, data, draft, up, timer>>

-----------------------------------------------------------------------------
\* The process starts: its handlers work before the scheduler does.
Launch ==
  /\ up = "off" /\ up' = "starting"
  /\ UNCHANGED <<now, data, draft, timer, running, live>>

\* startScheduler, with its first tick.  A quit may have been asked for, and the
\* scheduler stopped, while the process was starting: it is started all the same.
Boot ==
  /\ up \in {"starting", "stopping"} /\ up' = "on"
  /\ Ticks
  /\ UNCHANGED <<now, rev, spent, draft>>

\* stopScheduler
Stop ==
  /\ up \in {"starting", "on"} /\ up' = "stopping"
  /\ timer' = FALSE
  /\ live' = [t \in Tasks |-> Abort(live[t])]
  /\ UNCHANGED <<now, data, draft, running>>

\* The process ends, after a stop or without one.
Exit ==
  /\ up # "off" /\ up' = "off"
  /\ timer' = FALSE /\ running' = {}
  /\ live' = [t \in Tasks |-> <<>>] /\ draft' = {}
  /\ UNCHANGED <<now, data>>

Clock ==
  /\ now < MaxTime /\ now' = now + 1
  /\ UNCHANGED <<data, draft, service>>

Next ==
  \/ Tick \/ Launch \/ Boot \/ Stop \/ Exit \/ Clock
  \/ \E t \in Tasks :
       \/ Save(t) \/ ToolReads(t) \/ ToolWrites(t) \/ Enable(t) \/ Disable(t) \/ Delete(t)
       \/ RunNow(t) \/ Cancel(t)
       \/ \E i \in DOMAIN live[t] : Finishes(t, i) \/ Traced(t, i) \/ TraceFails(t, i) \/ Closed(t, i)

Spec == Init /\ [][Next]_vars

\* A timer that is armed fires.
FairSpec == Spec /\ WF_vars(Tick)

-----------------------------------------------------------------------------
Rows == [there : BOOLEAN, enabled : BOOLEAN, freq : Frequencies, at : Times \cup {Never}, next : Nat]
Runs == [pc : {"working", "tracing", "closing"}, once : BOOLEAN, aborted : BOOLEAN,
         slot : Nat, rev : Nat]

\* Types; a task counts as running exactly while one of its runs is under way.
TypeOK ==
  /\ now \in Times /\ file \in [Tasks -> Rows] /\ draft \subseteq Tasks
  /\ faults \in 0 .. MaxFaults
  /\ up \in {"off", "starting", "on", "stopping"} /\ timer = (up = "on")
  /\ \A t \in Tasks : \A i \in DOMAIN live[t] : live[t][i] \in Runs
  /\ running = {t \in Tasks : live[t] # <<>>}
  /\ rev \in [Tasks -> Nat] /\ \A t \in Tasks : rev[t] <= MaxEdits[t]
  /\ \A t \in Tasks : \A s \in spent[t] : s \in Nat \ {Never}

\* Two runs of a task never overlap, not even while the earlier one still
\* closes its checkpointer (the comment at services/scheduler.ts:424-430).
OneRunPerTask == \A t \in Tasks : Len(live[t]) <= 1

\* A moment whose run wrote a result, ok or error, is not run again, across
\* ticks, crashes and restarts, unless the task was edited.
OncePerSlot ==
  \A t \in Tasks : \A i \in DOMAIN live[t] :
    LET run == live[t][i]
    IN (run.pc = "working" /\ run.rev = rev[t]) => run.slot \notin spent[t]

Armed(t) == file[t].there /\ file[t].enabled /\ file[t].next # Never

\* A write that cut the file short took every row with it.
Tears == faults' > faults /\ \A u \in Tasks : ~file'[u].there

\* Until it is edited, a task stays armed and its moment is not moved back, with three
\* exceptions: a write tears the file and all tasks are lost, a once task's moment
\* passed too long ago, or a run ends that concerns a once task (as it is, or as it was
\* when that run started, which is the row the run decides by).  Whatever a run does to its
\* own task, a write that fails otherwise and a tick that is cut off disarm nobody.
StaysArmed ==
  [][\A t \in Tasks :
       (Armed(t) /\ rev'[t] = rev[t]) =>
         \/ Armed(t)' /\ file'[t].next >= file[t].next
         \/ Tears
         \/ file[t].freq = "once" /\ now > file[t].next + Expire
         \/ \E i \in DOMAIN live[t] : /\ live[t][i].pc \in {"working", "tracing"}
                                      /\ live'[t][i].pc # live[t][i].pc
                                      /\ file[t].freq = "once" \/ live[t][i].once]_vars

\* A run that ends after its task was deleted does not bring it back; only an
\* update of the tool that had read the row before the deletion can.
DeletionStands ==
  [][\A t \in Tasks : (rev[t] > 0 /\ ~file[t].there /\ file'[t].there) =>
                        t \in draft]_vars

\* A task that is due is served: it starts, or is given up as too late.
DueIsServed ==
  \A t \in Tasks : (up = "on" /\ t \in Due) ~> (up # "on" \/ t \notin Due)

\* The running marks are exact, runs of a task do not overlap, and none of them
\* repeats a moment whose run already wrote its result.
SchedulerInv == TypeOK /\ OneRunPerTask /\ OncePerSlot
=============================================================================
