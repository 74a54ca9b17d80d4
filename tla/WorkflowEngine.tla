---------------------------- MODULE WorkflowEngine ----------------------------
(***************************************************************************)
(* One run of agent/workflow/engine.ts: the agent() calls a script makes,    *)
(* awaited or not, and the way the engine ends the run.                      *)
(*                                                                          *)
(* The script is arbitrary: its body, the continuations of settled calls and *)
(* one pending timer may call agent() at any time.  A call registers a       *)
(* marker, yields one macrotask, is refused, replayed from the journal or    *)
(* run by a subagent, and settles.  When the body is over the engine drains  *)
(* the markers, decides the outcome and finalizes, which awaits twice.  A    *)
(* caller or the watchdog may abort at any time.                             *)
(*                                                                          *)
(* One thread runs all of it: macrotasks (timers, setImmediate, I/O) wait    *)
(* until the microtasks (`then') are done.                                   *)
(***************************************************************************)
EXTENDS Integers, FiniteSets

CONSTANTS Hashes,    \* identities of calls
          MaxCalls,  \* bound: agent() calls of the script
          MaxSeed,   \* bound: journal entries a resume starts with
          CallCap,   \* WORKFLOW_MAX_AGENT_INVOCATIONS
          AgentCap,  \* WORKFLOW_MAX_TOTAL_AGENTS
          Budget,    \* the token budget; one agent spends one token
          None

\* How a call may settle, what run.agents may show and how a run may end.
Results  == {"cached", "kept", "value", "null", "abort", "fatal", "invalid"}
Statuses == {"cached", "running", "completed", "error"}
Outcomes == {"completed", "aborted", "error"}

\* A call: how far it is, whether its continuation is due, its callSeq, how it
\* settled; `ran' and `late' are history.
Call == [hash : Hashes, pc : {"tick", "queued", "live", "settled", "parked"},
         then : BOOLEAN, index : Nat \cup {None}, result : Results \cup {None},
         ran : BOOLEAN, late : BOOLEAN]

ASSUME EngineAssumption ==
  /\ MaxCalls \in Nat /\ MaxSeed \in Nat /\ CallCap \in Nat /\ AgentCap \in Nat /\ Budget \in Nat
  /\ IsFiniteSet(Hashes)
  /\ None \notin Call \cup Results \cup Statuses \cup Outcomes

VARIABLES
  seeded,      \* journal entries the run starts with
  avail,       \* availableByHash: those not yet replayed
  journal,     \* journal entries; one slot for an index and a hash
  calls,       \* the agent() calls in order
  invocations, \* shared.invocations
  agentCount,  \* shared.agentCount
  tokens,      \* shared.outputTokens
  capHit,      \* shared.invocationCapHit
  fatalError,  \* shared.fatalError is set
  agents,      \* run.agents: the status each call shows
  script,      \* the script body
  timer,       \* a script timer is pending
  aborted,     \* lifetime.signal.aborted
  abortedBy,   \* "caller", "watchdog" or None
  phase,       \* where runWorkflowEngine is
  outcome,     \* the status it decided on
  disk         \* what the final flush wrote

counters == <<invocations, agentCount, tokens, capHit, fatalError>>
replay   == <<seeded, avail, journal>>
control  == <<script, timer, aborted, abortedBy>>
engine   == <<phase, outcome, disk>>
vars     == <<replay, calls, counters, agents, control, engine>>

Ids == 1..MaxCalls
Called(i) == calls[i] # None
Pending(i) == Called(i) /\ calls[i].pc \in {"tick", "queued", "live"}
Drained == \A i \in Ids : ~Pending(i)
Quiet == \A i \in Ids : Called(i) => ~calls[i].then

\* An entry keeps the callSeq of the call that wrote it.  Earlier calls of that
\* run may have failed, so the first index need not be there.
Entry == [index : 0..1, hash : Hashes]
AvailableFor(h) == {e \in avail : e.hash = h}

Init == /\ seeded \in {E \in SUBSET Entry : Cardinality(E) <= MaxSeed}
        /\ avail = seeded /\ journal = seeded
        /\ calls = [i \in Ids |-> None] /\ agents = [i \in Ids |-> None]
        /\ invocations = 0 /\ agentCount = 0 /\ tokens = 0
        /\ capHit = FALSE /\ fatalError = FALSE
        /\ script = "body" /\ timer = FALSE /\ aborted = FALSE /\ abortedBy = None
        /\ phase = "script" /\ outcome = None /\ disk = None

-----------------------------------------------------------------------------
\* runAgent up to its first await: the marker.  `late' says that finalize has
\* begun, which no code looks at.
Register(h) ==
  /\ invocations < MaxCalls
  /\ invocations' = invocations + 1
  /\ calls' = [calls EXCEPT ![invocations + 1] =
       [hash |-> h, pc |-> "tick", then |-> FALSE, index |-> None, result |-> None,
        ran |-> FALSE, late |-> outcome # None]]

ScriptCalls(h) ==
  /\ script \in {"body", "abandoned"} /\ Register(h)
  /\ UNCHANGED <<replay, agentCount, tokens, capHit, fatalError, agents, control, engine>>

SetTimer == /\ script = "body" /\ ~timer /\ ~aborted
            /\ timer' = TRUE
            /\ UNCHANGED <<replay, calls, counters, agents, script, aborted, abortedBy, engine>>

TimerFires(h) ==
  /\ timer /\ Quiet
  /\ timer' = FALSE
  /\ Register(h)
  /\ UNCHANGED <<replay, agentCount, tokens, capHit, fatalError, agents, script, aborted,
                 abortedBy, engine>>

\* What the script attached to a call: it may call again, or not.
Continue(i) ==
  /\ Called(i) /\ calls[i].then
  /\ calls' = [calls EXCEPT ![i].then = FALSE]
  /\ UNCHANGED <<replay, counters, agents, control, engine>>

ContinueCalls(i, h) ==
  /\ Called(i) /\ calls[i].then
  /\ invocations < MaxCalls
  /\ invocations' = invocations + 1
  /\ calls' = [calls EXCEPT ![i].then = FALSE,
       ![invocations + 1] =
         [hash |-> h, pc |-> "tick", then |-> FALSE, index |-> None, result |-> None,
          ran |-> FALSE, late |-> outcome # None]]
  /\ UNCHANGED <<replay, agentCount, tokens, capHit, fatalError, agents, control, engine>>

\* The body returns or throws; a throw goes to the catch block, which aborts.
Return == /\ script = "body"
          /\ script' = "returned" /\ phase' = "drain"
          /\ UNCHANGED <<replay, calls, counters, agents, timer, aborted, abortedBy,
                         outcome, disk>>

Throw == /\ script = "body"
         /\ script' = "threw" /\ phase' = "drain" /\ aborted' = TRUE /\ timer' = FALSE
         /\ UNCHANGED <<replay, calls, counters, agents, abortedBy, outcome, disk>>

\* The caller's signal, or the inactivity or runtime watchdog.  A body that is
\* still going is abandoned: raceWithAbort lets the engine go on without it.
Abort(by) ==
  /\ abortedBy = None /\ phase # "finished"
  /\ abortedBy' = by /\ aborted' = TRUE /\ timer' = FALSE
  /\ IF script = "body" THEN script' = "abandoned" /\ phase' = "drain"
     ELSE UNCHANGED <<script, phase>>
  /\ UNCHANGED <<replay, calls, counters, agents, outcome, disk>>

-----------------------------------------------------------------------------
\* The call settles with `result': its marker goes, and its continuation runs.
\* A fatal error after the body returned is kept for the run.
Settled(c, result) == [c EXCEPT !.pc = "settled", !.then = TRUE, !.index = None,
                                !.result = result]
Promote(result) == fatalError' = (fatalError \/ (result = "fatal" /\ script = "returned"))

\* Mutant: a parked call keeps its marker.
Parks_KeepsMarker(i) ==
  /\ Quiet /\ Called(i) /\ calls[i].pc = "tick"
  /\ invocations > CallCap \/ aborted
  /\ capHit' = (capHit \/ invocations > CallCap)
  /\ UNCHANGED <<replay, calls, invocations, agentCount, tokens, fatalError, agents, control,
                 engine>>

\* After the macrotask: parked for ever, refused, replayed, or to the limiter.
\* The checks, the agent slot and the replay are one synchronous stretch.
Parks(i) ==
  /\ Quiet /\ Called(i) /\ calls[i].pc = "tick"
  /\ invocations > CallCap \/ aborted
  /\ capHit' = (capHit \/ invocations > CallCap)
  /\ calls' = [calls EXCEPT ![i].pc = "parked"]
  /\ UNCHANGED <<replay, invocations, agentCount, tokens, fatalError, agents, control, engine>>

Admitted(i) == /\ Quiet /\ Called(i) /\ calls[i].pc = "tick"
               /\ invocations <= CallCap /\ ~aborted

Refuses(i) ==
  /\ Admitted(i)
  /\ \/ /\ agentCount >= AgentCap \/ tokens >= Budget
        /\ calls' = [calls EXCEPT ![i] = Settled(@, "fatal")]
        /\ Promote("fatal")
     \/ /\ calls' = [calls EXCEPT ![i] = Settled(@, "invalid")]
        /\ UNCHANGED fatalError
  /\ UNCHANGED <<replay, invocations, agentCount, tokens, capHit, agents, control, engine>>

Allowed(i) == Admitted(i) /\ agentCount < AgentCap /\ tokens < Budget

\* Mutant: the entry is read and not taken out of its bucket.
Replays_NoShift(i) ==
  /\ Allowed(i) /\ AvailableFor(calls[i].hash) # {}
  /\ agentCount' = agentCount + 1
  /\ calls' = [calls EXCEPT ![i] = Settled(@, "cached")]
  /\ agents' = [agents EXCEPT ![i] = "cached"]
  /\ UNCHANGED <<replay, invocations, tokens, capHit, fatalError, control, engine>>

\* A journal entry with the call's identity, whatever its index, is used up.
Replays(i) ==
  /\ Allowed(i)
  /\ \E e \in AvailableFor(calls[i].hash) : avail' = avail \ {e}
  /\ agentCount' = agentCount + 1
  /\ calls' = [calls EXCEPT ![i] = Settled(@, "cached")]
  /\ agents' = [agents EXCEPT ![i] = "cached"]
  /\ UNCHANGED <<seeded, journal, invocations, tokens, capHit, fatalError, control, engine>>

\* No entry: a live call, up to the limiter.  callSeq counts along with agentCount.
Queues(i) ==
  /\ Allowed(i) /\ AvailableFor(calls[i].hash) = {}
  /\ agentCount' = agentCount + 1
  /\ calls' = [calls EXCEPT ![i].pc = "queued", ![i].index = agentCount]
  /\ UNCHANGED <<replay, invocations, tokens, capHit, fatalError, agents, control, engine>>

\* The limiter lets the call through (WorkflowLimiter), perhaps after an abort.
Starts(i) ==
  /\ Called(i) /\ calls[i].pc = "queued"
  /\ IF aborted THEN /\ calls' = [calls EXCEPT ![i] = Settled(@, "abort")]
                     /\ UNCHANGED agents
     ELSE /\ calls' = [calls EXCEPT ![i].pc = "live", ![i].ran = TRUE]
          /\ agents' = [agents EXCEPT ![i] = "running"]
  /\ UNCHANGED <<replay, counters, control, engine>>

\* The subagent is over.  A result that arrives after the abort is dropped; a
\* failure resolves to null; an isolated, oversized or fallen-back result is
\* not journaled.  appendJournal replaces the entry of the same index and hash.
Completes(i, kept) ==
  /\ Quiet /\ Called(i) /\ calls[i].pc = "live" /\ ~aborted
  /\ tokens' = tokens + 1
  /\ journal' = IF kept THEN journal \cup {[index |-> calls[i].index, hash |-> calls[i].hash]}
                ELSE journal
  /\ agents' = [agents EXCEPT ![i] = "completed"]
  /\ calls' = [calls EXCEPT ![i] = Settled(@, IF kept THEN "kept" ELSE "value")]
  /\ UNCHANGED <<seeded, avail, invocations, agentCount, capHit, fatalError, control, engine>>

Fails(i) ==
  /\ Quiet /\ Called(i) /\ calls[i].pc = "live"
  /\ IF aborted THEN /\ calls' = [calls EXCEPT ![i] = Settled(@, "abort")]
                     /\ UNCHANGED agents
     ELSE /\ calls' = [calls EXCEPT ![i] = Settled(@, "null")]
          /\ agents' = [agents EXCEPT ![i] = "error"]
  /\ UNCHANGED <<replay, counters, control, engine>>

-----------------------------------------------------------------------------
\* Mutant: the invocation ceiling does not count.
Verdict_NoCeiling ==
  IF script = "returned"
  THEN IF aborted THEN "aborted" ELSE IF fatalError THEN "error" ELSE "completed"
  ELSE IF script = "abandoned" \/ abortedBy # None THEN "aborted" ELSE "error"

\* The outcome, in the same macrotask; finalize then awaits the result sidecar.
Verdict ==
  IF script = "returned"
  THEN IF aborted THEN "aborted" ELSE IF capHit \/ fatalError THEN "error" ELSE "completed"
  ELSE IF script = "abandoned" \/ abortedBy # None THEN "aborted" ELSE "error"

\* Mutant: no second look at the markers after the macrotask.
DrainTick_NoRecheck ==
  /\ phase = "quiet" /\ Quiet
  /\ outcome' = Verdict /\ phase' = "sidecar"
  /\ UNCHANGED <<replay, calls, counters, agents, control, disk>>

\* The second look, and the verdict.
DrainTick == /\ phase = "quiet" /\ Quiet
             /\ IF Drained THEN outcome' = Verdict /\ phase' = "sidecar"
                ELSE phase' = "drain" /\ UNCHANGED outcome
             /\ UNCHANGED <<replay, calls, counters, agents, control, disk>>

\* drainPendingAgents: no marker, then a macrotask, then still no marker.
DrainEmpty == /\ phase = "drain" /\ Drained
              /\ phase' = "quiet"
              /\ UNCHANGED <<replay, calls, counters, agents, control, outcome, disk>>

\* Mutant: whatever the outcome, a running agent is shown as completed.
Update_AllCompleted ==
  /\ phase = "sidecar" /\ Quiet
  /\ agents' = [i \in Ids |-> IF agents[i] = "running" THEN "completed" ELSE agents[i]]
  /\ phase' = "flush"
  /\ UNCHANGED <<replay, calls, counters, control, outcome, disk>>

\* finalize's update: nobody stays "running"; then flush.
Update == /\ phase = "sidecar" /\ Quiet
          /\ agents' = [i \in Ids |-> IF agents[i] # "running" THEN agents[i]
                                      ELSE IF outcome = "completed" THEN "completed"
                                      ELSE "error"]
          /\ phase' = "flush"
          /\ UNCHANGED <<replay, calls, counters, control, outcome, disk>>

\* The write, which takes its image after an await, or fails (WorkflowRunStore).
Flush(ok) == /\ phase = "flush" /\ Quiet
             /\ disk' = IF ok THEN [status |-> outcome, agents |-> agents] ELSE disk
             /\ phase' = "flushed"
             /\ UNCHANGED <<replay, calls, counters, agents, control, outcome>>

\* `finished' is emitted and the lifetime ends.
Finish == /\ phase = "flushed" /\ Quiet
          /\ phase' = "finished" /\ aborted' = TRUE /\ timer' = FALSE
          /\ UNCHANGED <<replay, calls, counters, agents, script, abortedBy, outcome, disk>>

-----------------------------------------------------------------------------
ScriptStep == \/ \E h \in Hashes : ScriptCalls(h) \/ TimerFires(h)
              \/ SetTimer \/ Return \/ Throw
              \/ \E i \in Ids, h \in Hashes : ContinueCalls(i, h)

CallStep(i) == \/ Continue(i) \/ Parks(i) \/ Refuses(i) \/ Replays(i) \/ Queues(i)
               \/ Starts(i) \/ Fails(i)
               \/ \E kept \in BOOLEAN : Completes(i, kept)

EngineStep == DrainEmpty \/ DrainTick \/ Update \/ Finish
              \/ \E ok \in BOOLEAN : Flush(ok)

Next == \/ ScriptStep
        \/ \E by \in {"caller", "watchdog"} : Abort(by)
        \/ \E i \in Ids : CallStep(i)
        \/ EngineStep

Spec == Init /\ [][Next]_vars

\* Promises settle and timers fire.  A subagent need not end by itself: it races
\* its stream with the abort, and the runtime deadline aborts every run in time.
Fairness ==
  /\ \A i \in Ids : WF_vars(CallStep(i) /\ (calls[i].pc = "live" => aborted))
  /\ WF_vars(EngineStep)
  /\ WF_vars(outcome = None /\ Abort("watchdog"))
FairSpec == Spec /\ Fairness

-----------------------------------------------------------------------------
Entries(h) == {i \in Ids : Called(i) /\ calls[i].hash = h}

\* Shape of the state: the calls are the first `invocations', each at one point
\* of its life, and what it shows in run.agents fits that point.
TypeOK ==
  /\ calls \in [Ids -> Call \cup {None}] /\ agents \in [Ids -> Statuses \cup {None}]
  /\ invocations \in 0..MaxCalls /\ agentCount \in Nat /\ tokens \in Nat
  /\ \A i \in Ids : Called(i) <=> i <= invocations
  /\ \A i \in Ids : Called(i) =>
       /\ calls[i].pc = "settled" <=> calls[i].result # None
       /\ calls[i].then => calls[i].pc = "settled"
       /\ calls[i].pc = "live" => agents[i] # None /\ calls[i].ran
  /\ \A i \in Ids : ~Called(i) \/ calls[i].pc \in {"tick", "queued", "parked"} => agents[i] = None
  /\ timer => ~aborted
  /\ phase = "script" <=> script = "body"
  /\ outcome # None <=> phase \in {"sidecar", "flush", "flushed", "finished"}

\* The agent cap counts a fan-out of calls before any of them runs: slots are
\* taken with the check, so however the calls interleave no more than AgentCap
\* are ever replayed, queued or run.
SlotsReserved ==
  LET taken == {i \in Ids : Called(i) /\ (\/ calls[i].pc \in {"queued", "live"}
                             \/ calls[i].result \in {"cached", "kept", "value", "null", "abort"})}
  IN agentCount = Cardinality(taken) /\ agentCount <= AgentCap

\* Resume does no work twice: no call runs while an entry with its hash waits,
\* every entry is handed out once, to a call of its hash, and nothing the run
\* started with leaves the journal.
ReplayOnce ==
  /\ \A h \in Hashes :
       /\ (\E i \in Entries(h) : calls[i].ran) => AvailableFor(h) = {}
       /\ Cardinality({i \in Entries(h) : calls[i].result = "cached"})
            = Cardinality({e \in seeded \ avail : e.hash = h})
  /\ avail \subseteq seeded /\ seeded \subseteq journal

\* finalize does not race the run (comment at drainPendingAgents): every call
\* made before it began, even by a continuation that nobody awaited, has
\* settled or is parked, whichever way the run ended.
DrainedBeforeFinalize ==
  outcome # None => \A i \in Ids : Called(i) /\ ~calls[i].late => ~Pending(i)

\* "completed" is no silent lie: no abort cut the run short, and no call made
\* before finalize was parked by the ceiling or lost to a fatal error after the
\* body had returned.
CompletedHonest ==
  outcome = "completed" =>
    /\ script = "returned"
    /\ \A i \in Ids : Called(i) /\ ~calls[i].late => calls[i].pc = "settled"
    /\ ~capHit \/ \E i \in Ids : Called(i) /\ calls[i].late
    /\ ~fatalError \/ \E i \in Ids : Called(i) /\ calls[i].late /\ calls[i].result = "fatal"

\* The settled record tells the truth about every call made before finalize: an
\* agent is "completed" exactly if its subagent delivered.
RecordTrue ==
  disk # None => \A i \in Ids : Called(i) /\ ~calls[i].late =>
    /\ disk.agents[i] = "completed" <=> calls[i].result \in {"kept", "value"}
    /\ disk.agents[i] = "cached" <=> calls[i].result = "cached"
    /\ disk.agents[i] # "running"

\* A run whose body is over comes to an end: no call that was refused, parked
\* or abandoned holds up the drain.
EventuallyFinished == (script # "body") ~> (phase = "finished")

\* The calls fit together with the phase of the engine, agentCount is exact and
\* capped under any fan-out, and finalize has waited for everybody it must.
EngineInv == TypeOK /\ SlotsReserved /\ DrainedBeforeFinalize
=============================================================================
