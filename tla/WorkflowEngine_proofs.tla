------------------------ MODULE WorkflowEngine_proofs ------------------------
(***************************************************************************)
(* The agent calls of a run (WorkflowEngine), for scripts with any number of *)
(* calls and any caps, and the worktrees they lease (WorktreeLedger, at the  *)
(* end).  Every step of the engine extends the calls, moves one call or      *)
(* decides the outcome (StepKinds); each part of the inductive invariant     *)
(* IInv has a lemma with these three cases.                                  *)
(***************************************************************************)
EXTENDS WorkflowEngine, WorktreeLedger, FiniteSetTheorems, TLAPS

NewCall(h) == [hash |-> h, pc |-> "tick", then |-> FALSE, index |-> None, result |-> None,
               ran |-> FALSE, late |-> outcome # None]

\* The words of the model are members of their sets, and None is none of them.
LEMMA Literals ==
  /\ "cached" \in Results /\ "kept" \in Results /\ "value" \in Results /\ "null" \in Results
  /\ "abort" \in Results /\ "fatal" \in Results /\ "invalid" \in Results
  /\ "cached" \in Statuses /\ "running" \in Statuses /\ "completed" \in Statuses
  /\ "error" \in Statuses
  /\ \A o \in {"completed", "aborted", "error"} : None # o
  /\ None \notin Call /\ None \notin Results /\ None \notin Statuses
BY EngineAssumption DEF Results, Statuses, Outcomes

\* A settled call is a call, with the hash and the marks it had.
LEMMA SettledCall ==
  ASSUME NEW c \in Call, NEW r \in Results
  PROVE  /\ Settled(c, r) \in Call
         /\ Settled(c, r).pc = "settled" /\ Settled(c, r).result = r
         /\ Settled(c, r).hash = c.hash /\ Settled(c, r).ran = c.ran
         /\ Settled(c, r).late = c.late
BY DEF Call, Settled

\* The state before the script runs has its types.
LEMMA InitTypeOK == Init => TypeOK
BY EngineAssumption DEF Init, TypeOK, Called, Ids, Entry

\* A call that the script makes keeps the types.
LEMMA CallAdded ==
  ASSUME TypeOK, NEW h \in Hashes, invocations < MaxCalls, invocations' = invocations + 1,
         NEW f \in [Ids -> Call \cup {None}],
         \A i \in Ids : /\ f[i] = None <=> calls[i] = None
                        /\ f[i] # calls[i] => calls[i].pc = "settled" /\ f[i] = [calls[i] EXCEPT !.then = FALSE],
         calls' = [f EXCEPT ![invocations + 1] = NewCall(h)],
         UNCHANGED <<agentCount, tokens, agents, aborted, phase, script, outcome>>,
         timer' => timer
  PROVE  TypeOK'
<1> DEFINE n == invocations + 1
<1>1. invocations \in 0..MaxCalls /\ n \in Ids
  BY EngineAssumption DEF TypeOK, Ids
<1>2. f[n] = None /\ agents[n] = None
  <2>1. ~Called(n)
    BY <1>1 DEF TypeOK
  <2> QED BY <1>1, <2>1 DEF TypeOK, Called
<1>3. NewCall(h) \in Call /\ NewCall(h) # None /\ NewCall(h).pc = "tick"
      /\ NewCall(h).result = None /\ NewCall(h).then = FALSE
  <2>1. NewCall(h) \in Call
    BY DEF NewCall, Call
  <2>2. NewCall(h).pc = "tick" /\ NewCall(h).result = None /\ NewCall(h).then = FALSE
    BY DEF NewCall
  <2> QED BY <2>1, <2>2, EngineAssumption
<1>4. calls' \in [Ids -> Call \cup {None}] /\ calls'[n] = NewCall(h)
      /\ \A i \in Ids \ {n} : calls'[i] = f[i]
  BY <1>1, <1>3
<1>5. \A i \in Ids : f[i] # None => /\ f[i].pc = calls[i].pc /\ f[i].result = calls[i].result
                                    /\ f[i].ran = calls[i].ran /\ (f[i].then => calls[i].then)
  <2> TAKE i \in Ids
  <2> HAVE f[i] # None
  <2>1. calls[i] \in Call
    BY DEF TypeOK
  <2> QED BY <2>1 DEF Call
<1>6. invocations' \in 0..MaxCalls /\ \A i \in Ids : Called(i)' <=> i <= invocations'
  <2>1. invocations' = n /\ n \in 0..MaxCalls
    BY <1>1, EngineAssumption DEF Ids
  <2>2. ASSUME NEW i \in Ids PROVE Called(i)' <=> i <= n
    <3>1. CASE i = n
      BY <3>1, <1>1, <1>3, <1>4 DEF Called, Ids
    <3>2. CASE i # n
      <4>1. Called(i)' <=> Called(i)
        BY <3>2, <1>4 DEF Called
      <4>2. i <= n <=> i <= invocations
        BY <3>2, <1>1 DEF Ids
      <4> QED BY <4>1, <4>2 DEF TypeOK
    <3> QED BY <3>1, <3>2
  <2> QED BY <2>1, <2>2
<1>7. ASSUME NEW i \in Ids, Called(i)'
      PROVE /\ calls'[i].pc = "settled" <=> calls'[i].result # None
            /\ calls'[i].then => calls'[i].pc = "settled"
            /\ calls'[i].pc = "live" => agents'[i] # None /\ calls'[i].ran
  <2>1. CASE i = n
    BY <2>1, <1>3, <1>4
  <2>2. CASE i # n
    <3>1. calls'[i] = f[i] /\ f[i] # None /\ Called(i)
      BY <2>2, <1>4, <1>7 DEF Called
    <3> QED BY <3>1, <1>5 DEF TypeOK
  <2> QED BY <2>1, <2>2
<1>8. ASSUME NEW i \in Ids, ~Called(i)' \/ calls'[i].pc \in {"tick", "queued", "parked"}
      PROVE agents'[i] = None
  <2>1. CASE i = n
    BY <2>1, <1>2
  <2>2. CASE i # n
    BY <2>2, <1>4, <1>5, <1>8 DEF TypeOK, Called
  <2> QED BY <2>1, <2>2
<1>9. (timer => ~aborted)' /\ (phase = "script" <=> script = "body")'
      /\ (outcome # None <=> phase \in {"sidecar", "flush", "flushed", "finished"})'
      /\ agents' \in [Ids -> Statuses \cup {None}] /\ agentCount' \in Nat /\ tokens' \in Nat
  BY DEF TypeOK
<1> QED BY <1>4, <1>6, <1>7, <1>8, <1>9 DEF TypeOK

\* A call that moves, whatever it becomes, keeps the types.
LEMMA CallMoved ==
  ASSUME TypeOK, NEW i \in Ids, Called(i),
         calls' \in [Ids -> Call \cup {None}], agents' \in [Ids -> Statuses \cup {None}],
         \A j \in Ids \ {i} : calls'[j] = calls[j] /\ agents'[j] = agents[j],
         calls'[i] # None,
         calls'[i].pc = "settled" <=> calls'[i].result # None,
         calls'[i].then => calls'[i].pc = "settled",
         calls'[i].pc = "live" => agents'[i] # None /\ calls'[i].ran,
         calls'[i].pc \in {"tick", "queued", "parked"} => agents'[i] = None,
         agentCount' \in Nat, tokens' \in Nat,
         UNCHANGED <<invocations, timer, aborted, phase, script, outcome>>
  PROVE  TypeOK'
<1>3. invocations' \in 0..MaxCalls /\ \A j \in Ids : Called(j)' <=> j <= invocations'
  BY DEF TypeOK, Called
<1>4. ASSUME NEW j \in Ids
      PROVE /\ Called(j)' =>
                 /\ calls'[j].pc = "settled" <=> calls'[j].result # None
                 /\ calls'[j].then => calls'[j].pc = "settled"
                 /\ calls'[j].pc = "live" => agents'[j] # None /\ calls'[j].ran
            /\ ~Called(j)' \/ calls'[j].pc \in {"tick", "queued", "parked"} => agents'[j] = None
  <2>1. CASE j = i
    BY <2>1 DEF Called
  <2>2. CASE j # i
    BY <2>2 DEF TypeOK, Called
  <2> QED BY <2>1, <2>2
<1>5. (timer => ~aborted)' /\ (phase = "script" <=> script = "body")'
      /\ (outcome # None <=> phase \in {"sidecar", "flush", "flushed", "finished"})'
  BY DEF TypeOK
<1> QED BY <1>3, <1>4, <1>5 DEF TypeOK

\* Every step keeps the types.
LEMMA NextTypeOK == TypeOK /\ [Next]_vars => TypeOK'
<1> SUFFICES ASSUME TypeOK, [Next]_vars PROVE TypeOK'
  OBVIOUS
<1>0. /\ \A i \in Ids : Called(i) => calls[i] \in Call /\ calls[i] # None
      /\ calls \in [Ids -> Call \cup {None}]
      /\ agents \in [Ids -> Statuses \cup {None}]
      /\ agents = [i \in Ids |-> agents[i]]
  <2>1. calls \in [Ids -> Call \cup {None}] /\ agents \in [Ids -> Statuses \cup {None}]
    BY DEF TypeOK
  <2> QED BY <2>1 DEF Called
<1>1. ASSUME NEW h \in Hashes, ScriptCalls(h) \/ TimerFires(h) PROVE TypeOK'
  <2>1. calls' = [calls EXCEPT ![invocations + 1] = NewCall(h)]
    BY <1>1 DEF ScriptCalls, TimerFires, Register, NewCall
  <2>2. /\ invocations < MaxCalls /\ invocations' = invocations + 1 /\ (timer' => timer)
        /\ UNCHANGED <<agentCount, tokens, agents, aborted, phase, script, outcome>>
    BY <1>1 DEF ScriptCalls, TimerFires, Register, control, engine
  <2> QED BY <1>0, <2>1, <2>2, CallAdded
<1>2. ASSUME SetTimer \/ Return \/ Throw PROVE TypeOK'
  BY <1>2 DEF SetTimer, Return, Throw, replay, counters, control, engine, TypeOK, Called
<1>3. ASSUME NEW i \in Ids, NEW h \in Hashes, ContinueCalls(i, h) PROVE TypeOK'
  <2> DEFINE f == [calls EXCEPT ![i].then = FALSE]
  <2>1. calls' = [f EXCEPT ![invocations + 1] = NewCall(h)]
    BY <1>3 DEF ContinueCalls, NewCall
  <2>2. [calls[i] EXCEPT !.then = FALSE] \in Call
    BY <1>0, <1>3 DEF ContinueCalls, Call
  <2>3. f \in [Ids -> Call \cup {None}] /\ f[i] = [calls[i] EXCEPT !.then = FALSE]
        /\ \A j \in Ids \ {i} : f[j] = calls[j]
    BY <1>0, <2>2
  <2>4. calls[i].pc = "settled" /\ f[i] # None
    BY <1>3, <2>2, <2>3, Literals DEF TypeOK, ContinueCalls
  <2>5. /\ invocations < MaxCalls /\ invocations' = invocations + 1
        /\ UNCHANGED <<agentCount, tokens, agents, aborted, phase, script, outcome, timer>>
        /\ calls[i] # None
    BY <1>3 DEF ContinueCalls, Called, replay, control, engine
  <2>6. \A j \in Ids : /\ f[j] = None <=> calls[j] = None
                       /\ f[j] # calls[j] => calls[j].pc = "settled" /\ f[j] = [calls[j] EXCEPT !.then = FALSE]
    BY <2>3, <2>4, <2>5
  <2> HIDE DEF f
  <2> QED BY <2>1, <2>3, <2>5, <2>6, CallAdded
<1>4. ASSUME NEW by \in {"caller", "watchdog"}, Abort(by) PROVE TypeOK'
  BY <1>4 DEF Abort, replay, counters, TypeOK, Called
<1>5. ASSUME NEW i \in Ids, CallStep(i) PROVE TypeOK'
  <2> DEFINE same == UNCHANGED <<invocations, timer, aborted, phase, script, outcome>>
             rest == \A j \in Ids \ {i} : calls'[j] = calls[j] /\ agents'[j] = agents[j]
  <2>0. /\ agents[i] \in Statuses \cup {None} /\ calls \in [Ids -> Call \cup {None}]
        /\ agentCount \in Nat /\ agentCount + 1 \in Nat /\ tokens \in Nat /\ tokens + 1 \in Nat
        /\ agents \in [Ids -> Statuses \cup {None}]
    BY DEF TypeOK
  <2>1. CASE Continue(i)
    <3>1. /\ Called(i) /\ same /\ UNCHANGED <<agents, agentCount, tokens>>
          /\ calls' = [calls EXCEPT ![i] = [calls[i] EXCEPT !.then = FALSE]] /\ calls[i].then
      BY <2>1 DEF Continue, replay, counters, control, engine
    <3>2. /\ [calls[i] EXCEPT !.then = FALSE] \in Call
          /\ [calls[i] EXCEPT !.then = FALSE].pc = calls[i].pc
          /\ [calls[i] EXCEPT !.then = FALSE].result = calls[i].result
          /\ [calls[i] EXCEPT !.then = FALSE].then = FALSE
      BY <3>1, <1>0 DEF Call
    <3>3. /\ calls'[i] \in Call /\ rest /\ calls' \in [Ids -> Call \cup {None}]
          /\ calls'[i].pc = calls[i].pc /\ calls'[i].result = calls[i].result
          /\ calls'[i].then = FALSE
      BY <3>1, <3>2, <2>0, Literals
    <3>4. /\ calls'[i].pc = "settled" /\ calls'[i].result # None /\ calls'[i] # None
      BY <3>1, <3>3, Literals DEF TypeOK
    <3> QED BY <3>1, <3>3, <3>4, <2>0, CallMoved
  <2>2. CASE Parks(i)
    <3>1. /\ Called(i) /\ same /\ UNCHANGED <<agents, agentCount, tokens>>
          /\ calls' = [calls EXCEPT ![i] = [calls[i] EXCEPT !.pc = "parked"]]
          /\ calls[i].pc = "tick"
      BY <2>2 DEF Parks, replay, control, engine
    <3>2. /\ [calls[i] EXCEPT !.pc = "parked"] \in Call
          /\ [calls[i] EXCEPT !.pc = "parked"].pc = "parked"
          /\ [calls[i] EXCEPT !.pc = "parked"].result = calls[i].result
          /\ [calls[i] EXCEPT !.pc = "parked"].then = calls[i].then
      BY <3>1, <1>0 DEF Call
    <3>3. /\ calls'[i] \in Call /\ rest /\ calls' \in [Ids -> Call \cup {None}]
          /\ calls'[i].pc = "parked" /\ calls'[i].result = calls[i].result
          /\ calls'[i].then = calls[i].then
      BY <3>1, <3>2, <2>0, Literals
    <3>4. /\ calls[i].result = None /\ ~calls[i].then /\ agents[i] = None /\ calls'[i] # None
      BY <3>1, <3>3, Literals DEF TypeOK
    <3> QED BY <3>1, <3>3, <3>4, <2>0, CallMoved
  <2>3. ASSUME NEW r \in Results, Called(i), same,
               calls'[i] = Settled(calls[i], r), rest,
               calls' \in [Ids -> Call \cup {None}], agents' \in [Ids -> Statuses \cup {None}],
               agentCount' \in {agentCount, agentCount + 1}, tokens' \in {tokens, tokens + 1}
        PROVE TypeOK'
    <3>1. calls'[i] \in Call /\ calls'[i].pc = "settled" /\ calls'[i].result = r
      BY <2>3, <1>0, SettledCall
    <3>2. calls'[i] # None /\ r # None
      BY <3>1, Literals
    <3>3. agentCount' \in Nat /\ tokens' \in Nat
      BY <2>3, <2>0
    <3> QED BY <3>1, <3>2, <3>3, <2>3, CallMoved
  <2>31. ASSUME NEW r \in Results, Called(i), calls' = [calls EXCEPT ![i] = Settled(calls[i], r)]
         PROVE  /\ calls' \in [Ids -> Call \cup {None}] /\ calls'[i] = Settled(calls[i], r)
                /\ \A j \in Ids \ {i} : calls'[j] = calls[j]
    <3>1. Settled(calls[i], r) \in Call
      BY <2>31, <1>0, SettledCall
    <3> QED BY <2>31, <3>1, <2>0
  <2>4. CASE Refuses(i)
    <3>1. Called(i) /\ UNCHANGED <<agents, agentCount, tokens>> /\ same
      BY <2>4 DEF Refuses, Admitted, replay, control, engine
    <3>2. CASE calls' = [calls EXCEPT ![i] = Settled(calls[i], "fatal")]
      <4>1. /\ calls' \in [Ids -> Call \cup {None}] /\ calls'[i] = Settled(calls[i], "fatal") /\ rest
        BY <3>1, <3>2, <2>31, Literals
      <4> QED BY <4>1, <3>1, <2>0, <2>3, Literals
    <3>3. CASE calls' = [calls EXCEPT ![i] = Settled(calls[i], "invalid")]
      <4>1. /\ calls' \in [Ids -> Call \cup {None}] /\ calls'[i] = Settled(calls[i], "invalid") /\ rest
        BY <3>1, <3>3, <2>31, Literals
      <4> QED BY <4>1, <3>1, <2>0, <2>3, Literals
    <3> QED BY <2>4, <3>2, <3>3 DEF Refuses
  <2>5. CASE Replays(i)
    <3>1. /\ Called(i) /\ same /\ agentCount' = agentCount + 1 /\ tokens' = tokens
          /\ calls' = [calls EXCEPT ![i] = Settled(calls[i], "cached")]
          /\ agents' = [agents EXCEPT ![i] = "cached"]
      BY <2>5 DEF Replays, Allowed, Admitted, control, engine
    <3>2. /\ calls' \in [Ids -> Call \cup {None}] /\ calls'[i] = Settled(calls[i], "cached")
          /\ rest /\ agents' \in [Ids -> Statuses \cup {None}]
      BY <3>1, <2>0, <2>31, Literals
    <3> QED BY <3>1, <3>2, <2>3, Literals
  <2>6. CASE Queues(i)
    <3>1. /\ Called(i) /\ same /\ agentCount' = agentCount + 1 /\ UNCHANGED <<agents, tokens>>
          /\ calls' = [calls EXCEPT ![i] = [calls[i] EXCEPT !.pc = "queued", !.index = agentCount]]
          /\ calls[i].pc = "tick"
      BY <2>6 DEF Queues, Allowed, Admitted, replay, control, engine
    <3> DEFINE c == [calls[i] EXCEPT !.pc = "queued", !.index = agentCount]
    <3>2. c \in Call /\ c.pc = "queued" /\ c.result = calls[i].result /\ c.then = calls[i].then
      BY <3>1, <1>0, <2>0 DEF Call
    <3>3. /\ calls'[i] \in Call /\ rest /\ calls' \in [Ids -> Call \cup {None}]
          /\ calls'[i].pc = "queued" /\ calls'[i].result = calls[i].result
          /\ calls'[i].then = calls[i].then
      BY <3>1, <3>2, <2>0, Literals
    <3>4. /\ calls[i].result = None /\ ~calls[i].then /\ agents[i] = None /\ calls'[i] # None
      BY <3>1, <3>3, Literals DEF TypeOK
    <3> QED BY <3>1, <3>3, <3>4, <2>0, CallMoved
  <2>7. CASE Starts(i) /\ aborted
    <3>1. /\ Called(i) /\ same /\ UNCHANGED <<agentCount, tokens, agents>>
          /\ calls' = [calls EXCEPT ![i] = Settled(calls[i], "abort")]
      BY <2>7 DEF Starts, replay, counters, control, engine
    <3>2. /\ calls' \in [Ids -> Call \cup {None}] /\ calls'[i] = Settled(calls[i], "abort") /\ rest
      BY <3>1, <2>31, Literals
    <3> QED BY <3>1, <3>2, <2>0, <2>3, Literals
  <2>8. CASE Starts(i) /\ ~aborted
    <3>1. /\ Called(i) /\ same /\ UNCHANGED <<agentCount, tokens>>
          /\ calls' = [calls EXCEPT ![i] = [calls[i] EXCEPT !.pc = "live", !.ran = TRUE]]
          /\ agents' = [agents EXCEPT ![i] = "running"] /\ calls[i].pc = "queued"
      BY <2>8 DEF Starts, replay, counters, control, engine
    <3> DEFINE c == [calls[i] EXCEPT !.pc = "live", !.ran = TRUE]
    <3>2. c \in Call /\ c.pc = "live" /\ c.result = calls[i].result /\ c.then = calls[i].then /\ c.ran
      BY <3>1, <1>0 DEF Call
    <3>3. /\ calls'[i] \in Call /\ rest /\ calls' \in [Ids -> Call \cup {None}]
          /\ calls'[i].pc = "live" /\ calls'[i].result = calls[i].result
          /\ calls'[i].then = calls[i].then /\ calls'[i].ran
          /\ agents' \in [Ids -> Statuses \cup {None}] /\ agents'[i] = "running"
      BY <3>1, <3>2, <2>0, Literals
    <3>4. /\ calls[i].result = None /\ ~calls[i].then /\ calls'[i] # None /\ agents'[i] # None
      BY <3>1, <3>3, Literals DEF TypeOK
    <3> QED BY <3>1, <3>3, <3>4, <2>0, CallMoved
  <2>9. CASE Fails(i)
    <3>1. Called(i) /\ same /\ UNCHANGED <<agentCount, tokens>>
      BY <2>9 DEF Fails, replay, counters, control, engine
    <3>2. CASE calls' = [calls EXCEPT ![i] = Settled(calls[i], "abort")] /\ agents' = agents
      <4>1. /\ calls' \in [Ids -> Call \cup {None}] /\ calls'[i] = Settled(calls[i], "abort") /\ rest
        BY <3>1, <3>2, <2>31, Literals
      <4> QED BY <4>1, <3>1, <3>2, <2>0, <2>3, Literals
    <3>3. CASE /\ calls' = [calls EXCEPT ![i] = Settled(calls[i], "null")]
               /\ agents' = [agents EXCEPT ![i] = "error"]
      <4>1. /\ calls' \in [Ids -> Call \cup {None}] /\ calls'[i] = Settled(calls[i], "null")
            /\ rest /\ agents' \in [Ids -> Statuses \cup {None}]
        BY <3>1, <3>3, <2>0, <2>31, Literals
      <4> QED BY <4>1, <3>1, <3>3, <2>0, <2>3, Literals
    <3> QED BY <2>9, <3>2, <3>3 DEF Fails
  <2>10. ASSUME NEW kept \in BOOLEAN, Completes(i, kept) PROVE TypeOK'
    <3> DEFINE r == IF kept THEN "kept" ELSE "value"
    <3>1. r \in Results /\ calls' = [calls EXCEPT ![i] = Settled(calls[i], r)]
      BY <2>10, Literals DEF Completes
    <3>2. Called(i) /\ same /\ agents' = [agents EXCEPT ![i] = "completed"]
          /\ agentCount' = agentCount /\ tokens' = tokens + 1
      BY <2>10 DEF Completes, control, engine
    <3> HIDE DEF r
    <3>3. /\ calls' \in [Ids -> Call \cup {None}] /\ calls'[i] = Settled(calls[i], r) /\ rest
          /\ agents' \in [Ids -> Statuses \cup {None}]
      BY <3>1, <3>2, <2>0, <2>31, Literals
    <3> QED BY <3>1, <3>2, <3>3, <2>3
  <2> QED BY <1>5, <2>1, <2>2, <2>4, <2>5, <2>6, <2>7, <2>8, <2>9, <2>10 DEF CallStep
<1>11. ASSUME EngineStep PROVE TypeOK'
  <2>1. CASE DrainEmpty \/ Finish \/ \E ok \in BOOLEAN : Flush(ok)
    BY <2>1 DEF DrainEmpty, Flush, Finish, replay, counters, control, engine, TypeOK, Called
  <2>2. CASE DrainTick
    <3>1. Verdict # None
      BY Literals DEF Verdict
    <3>2. UNCHANGED <<calls, agents, invocations, agentCount, tokens, timer, aborted, script>>
          /\ phase = "quiet"
          /\ (\/ outcome' = Verdict /\ phase' = "sidecar"
              \/ phase' = "drain" /\ outcome' = outcome)
      BY <2>2 DEF DrainTick, counters, control
    <3> HIDE DEF Verdict
    <3> QED BY <3>1, <3>2 DEF TypeOK, Called
  <2>3. CASE Update
    <3>1. agents' \in [Ids -> Statuses \cup {None}]
          /\ \A i \in Ids : agents'[i] = None <=> agents[i] = None
      BY <2>3, <1>0, Literals DEF Update
    <3>2. UNCHANGED <<calls, invocations, agentCount, tokens, timer, aborted, script, outcome>>
          /\ phase = "sidecar" /\ phase' = "flush"
      BY <2>3 DEF Update, counters, control
    <3> QED BY <3>1, <3>2 DEF TypeOK, Called
  <2> QED BY <1>11, <2>1, <2>2, <2>3 DEF EngineStep
<1>12. CASE UNCHANGED vars
  BY <1>12 DEF vars, replay, counters, control, engine, TypeOK, Called
<1> QED BY <1>1, <1>2, <1>3, <1>4, <1>5, <1>11, <1>12
        DEF Next, ScriptStep

-----------------------------------------------------------------------------
\* A call i that is not moved keeps everything but its continuation.
SameCall(i) ==
  /\ calls'[i].pc = calls[i].pc /\ calls'[i].result = calls[i].result
  /\ calls'[i].ran = calls[i].ran /\ calls'[i].hash = calls[i].hash
  /\ calls'[i].late = calls[i].late

\* A step of the script or the engine that decides nothing: it may add a call.
Extends ==
  /\ \A i \in Ids : Called(i) => Called(i)' /\ SameCall(i)
  /\ \A i \in Ids : ~Called(i) /\ Called(i)' =>
       /\ calls'[i].pc = "tick" /\ calls'[i].result = None /\ ~calls'[i].ran
       /\ calls'[i].late = (outcome # None)
  /\ UNCHANGED <<seeded, avail, journal, agentCount, capHit, fatalError, outcome>>
  /\ aborted => aborted'
  /\ script # "body" => script' = script

\* A step of call i leaves the other calls, and the decision, as they are.
Moves(i) ==
  /\ Called(i) /\ Called(i)'
  /\ \A j \in Ids \ {i} : calls'[j] = calls[j]
  /\ calls'[i].hash = calls[i].hash /\ calls'[i].late = calls[i].late
  /\ UNCHANGED <<seeded, outcome, script, aborted>>

\* Where a step may bring call i.
MovesNot(i)  == /\ SameCall(i)
                /\ UNCHANGED <<avail, journal, agentCount, capHit, fatalError>>
MovesPark(i) == /\ calls[i].pc = "tick" /\ calls'[i].pc = "parked"
                /\ calls'[i].result = None /\ calls'[i].ran = calls[i].ran
                /\ capHit' \/ aborted
                /\ capHit => capHit'
                /\ UNCHANGED <<avail, journal, agentCount, fatalError>>
MovesRefuse(i) == /\ calls[i].pc = "tick" /\ calls'[i].pc = "settled"
                  /\ calls'[i].result \in {"fatal", "invalid"} /\ calls'[i].ran = calls[i].ran
                  /\ fatalError' => fatalError \/ calls'[i].result = "fatal"
                  /\ UNCHANGED <<avail, journal, agentCount, capHit>>
MovesReplay(i) == /\ calls[i].pc = "tick" /\ calls'[i].pc = "settled"
                  /\ calls'[i].result = "cached" /\ calls'[i].ran = calls[i].ran
                  /\ \E e \in AvailableFor(calls[i].hash) : avail' = avail \ {e}
                  /\ agentCount < AgentCap /\ agentCount' = agentCount + 1
                  /\ UNCHANGED <<journal, capHit, fatalError>>
MovesQueue(i) == /\ calls[i].pc = "tick" /\ calls'[i].pc = "queued"
                 /\ calls'[i].result = None /\ calls'[i].ran = calls[i].ran
                 /\ AvailableFor(calls[i].hash) = {}
                 /\ agentCount < AgentCap /\ agentCount' = agentCount + 1
                 /\ UNCHANGED <<avail, journal, capHit, fatalError>>
MovesStart(i) == /\ calls[i].pc = "queued" /\ calls'[i].pc = "live"
                 /\ calls'[i].result = None
                 /\ UNCHANGED <<avail, journal, agentCount, capHit, fatalError>>
MovesEnd(i) == /\ calls[i].pc \in {"queued", "live"} /\ calls'[i].pc = "settled"
               /\ calls'[i].result \in {"abort", "null", "kept", "value"}
               /\ calls'[i].ran = calls[i].ran
               /\ journal \subseteq journal'
               /\ UNCHANGED <<avail, agentCount, capHit, fatalError>>

\* One step of a call is of one of seven kinds.
LEMMA CallStepMoves ==
  ASSUME TypeOK, NEW i \in Ids, CallStep(i)
  PROVE  /\ Moves(i)
         /\ \/ MovesNot(i) \/ MovesPark(i) \/ MovesRefuse(i) \/ MovesReplay(i)
            \/ MovesQueue(i) \/ MovesStart(i) \/ MovesEnd(i)
<1>0. calls \in [Ids -> Call \cup {None}]
  BY DEF TypeOK
<1>1. Called(i) /\ calls[i] \in Call
  <2>1. Called(i)
    BY DEF CallStep, Continue, Parks, Refuses, Replays, Queues, Starts, Fails, Completes,
           Allowed, Admitted
  <2> QED BY <1>0, <2>1 DEF Called
<1>2. ASSUME NEW c \in Call, calls' = [calls EXCEPT ![i] = c]
      PROVE  /\ Called(i)' /\ calls'[i] = c
             /\ \A j \in Ids \ {i} : calls'[j] = calls[j]
  BY <1>0, <1>2, Literals DEF Called
<1>3. ASSUME NEW r \in Results, calls' = [calls EXCEPT ![i] = Settled(calls[i], r)]
      PROVE  /\ Called(i)' /\ \A j \in Ids \ {i} : calls'[j] = calls[j]
             /\ calls'[i].hash = calls[i].hash /\ calls'[i].late = calls[i].late
             /\ calls'[i].ran = calls[i].ran
             /\ calls'[i].pc = "settled" /\ calls'[i].result = r
  <2> DEFINE c == Settled(calls[i], r)
  <2>1. /\ c \in Call /\ c.pc = "settled" /\ c.result = r /\ c.hash = calls[i].hash
        /\ c.late = calls[i].late /\ c.ran = calls[i].ran
    BY <1>1, SettledCall
  <2> HIDE DEF c
  <2>2. calls' = [calls EXCEPT ![i] = c]
    BY <1>3 DEF c
  <2> QED BY <2>1, <2>2, <1>2
<1>4. CASE Continue(i)
  <2>1. calls' = [calls EXCEPT ![i] = [calls[i] EXCEPT !.then = FALSE]]
        /\ UNCHANGED <<seeded, outcome, script, aborted, avail, journal, agentCount, capHit, fatalError>>
    BY <1>4 DEF Continue, replay, counters, control, engine
  <2> DEFINE c == [calls[i] EXCEPT !.then = FALSE]
  <2>2. /\ c \in Call /\ c.pc = calls[i].pc /\ c.result = calls[i].result /\ c.hash = calls[i].hash
        /\ c.late = calls[i].late /\ c.ran = calls[i].ran /\ calls' = [calls EXCEPT ![i] = c]
    BY <1>1, <2>1 DEF Call
  <2> HIDE DEF c
  <2> QED BY <1>1, <2>1, <2>2, <1>2 DEF Moves, MovesNot, SameCall
<1>5. CASE Parks(i)
  <2>1. calls' = [calls EXCEPT ![i] = [calls[i] EXCEPT !.pc = "parked"]] /\ calls[i].pc = "tick"
        /\ (capHit' \/ aborted) /\ (capHit => capHit')
        /\ UNCHANGED <<seeded, outcome, script, aborted, avail, journal, agentCount, fatalError>>
    BY <1>5 DEF Parks, replay, control, engine
  <2>2. calls[i].result = None
    BY <1>1, <2>1 DEF TypeOK
  <2> DEFINE c == [calls[i] EXCEPT !.pc = "parked"]
  <2>3. /\ c \in Call /\ c.pc = "parked" /\ c.result = calls[i].result /\ c.hash = calls[i].hash
        /\ c.late = calls[i].late /\ c.ran = calls[i].ran /\ calls' = [calls EXCEPT ![i] = c]
    BY <1>1, <2>1 DEF Call
  <2> HIDE DEF c
  <2> QED BY <1>1, <2>1, <2>2, <2>3, <1>2 DEF Moves, MovesPark
<1>6. CASE Refuses(i)
  <2>1. PICK r \in {"fatal", "invalid"} :
          /\ calls' = [calls EXCEPT ![i] = Settled(calls[i], r)]
          /\ fatalError' => fatalError \/ r = "fatal"
    BY <1>6 DEF Refuses, Promote
  <2>2. calls[i].pc = "tick"
        /\ UNCHANGED <<seeded, outcome, script, aborted, avail, journal, agentCount, capHit>>
    BY <1>6 DEF Refuses, Admitted, replay, control, engine
  <2>3. /\ Called(i)' /\ \A j \in Ids \ {i} : calls'[j] = calls[j]
        /\ calls'[i].hash = calls[i].hash /\ calls'[i].late = calls[i].late
        /\ calls'[i].ran = calls[i].ran
        /\ calls'[i].pc = "settled" /\ calls'[i].result = r
    BY <2>1, <1>3, Literals
  <2>4. fatalError' => fatalError \/ r = "fatal"
    BY <2>1, Zenon
  <2>5. Moves(i)
    BY <1>1, <2>2, <2>3 DEF Moves
  <2>6. /\ calls[i].pc = "tick" /\ calls'[i].pc = "settled"
        /\ calls'[i].result \in {"fatal", "invalid"} /\ calls'[i].ran = calls[i].ran
        /\ UNCHANGED <<avail, journal, agentCount, capHit>>
    BY <2>1, <2>2, <2>3
  <2>7. calls'[i].result = r
    BY <2>3
  <2>8. fatalError' => fatalError \/ calls'[i].result = "fatal"
    BY <2>4, <2>7, Zenon
  <2>9. MovesRefuse(i)
    BY <2>6, <2>8, Zenon DEF MovesRefuse
  <2> QED BY <2>5, <2>9
<1>7. CASE Replays(i)
  <2>1. calls' = [calls EXCEPT ![i] = Settled(calls[i], "cached")] /\ calls[i].pc = "tick"
        /\ UNCHANGED <<seeded, outcome, script, aborted, journal, capHit, fatalError>>
        /\ agentCount < AgentCap /\ agentCount' = agentCount + 1
        /\ \E e \in AvailableFor(calls[i].hash) : avail' = avail \ {e}
    BY <1>7 DEF Replays, Allowed, Admitted, control, engine
  <2> QED BY <1>1, <1>3, <2>1, Literals DEF Moves, MovesReplay
<1>8. CASE Queues(i)
  <2>1. calls' = [calls EXCEPT ![i] = [calls[i] EXCEPT !.pc = "queued", !.index = agentCount]]
        /\ calls[i].pc = "tick" /\ AvailableFor(calls[i].hash) = {}
        /\ agentCount < AgentCap /\ agentCount' = agentCount + 1
        /\ UNCHANGED <<seeded, outcome, script, aborted, avail, journal, capHit, fatalError>>
    BY <1>8 DEF Queues, Allowed, Admitted, replay, control, engine
  <2>2. calls[i].result = None /\ agentCount \in Nat
    BY <1>1, <2>1 DEF TypeOK
  <2> DEFINE c == [calls[i] EXCEPT !.pc = "queued", !.index = agentCount]
  <2>3. /\ c \in Call /\ c.pc = "queued" /\ c.result = calls[i].result /\ c.hash = calls[i].hash
        /\ c.late = calls[i].late /\ c.ran = calls[i].ran /\ calls' = [calls EXCEPT ![i] = c]
    BY <1>1, <2>1, <2>2 DEF Call
  <2> HIDE DEF c
  <2> QED BY <1>1, <2>1, <2>2, <2>3, <1>2 DEF Moves, MovesQueue
<1>9. CASE Starts(i) /\ ~aborted
  <2>1. calls' = [calls EXCEPT ![i] = [calls[i] EXCEPT !.pc = "live", !.ran = TRUE]]
        /\ calls[i].pc = "queued"
        /\ UNCHANGED <<seeded, outcome, script, aborted, avail, journal, agentCount, capHit, fatalError>>
    BY <1>9 DEF Starts, replay, counters, control, engine
  <2>2. calls[i].result = None
    BY <1>1, <2>1 DEF TypeOK
  <2> DEFINE c == [calls[i] EXCEPT !.pc = "live", !.ran = TRUE]
  <2>3. /\ c \in Call /\ c.pc = "live" /\ c.result = calls[i].result /\ c.hash = calls[i].hash
        /\ c.late = calls[i].late /\ calls' = [calls EXCEPT ![i] = c]
    BY <1>1, <2>1 DEF Call
  <2> HIDE DEF c
  <2> QED BY <1>1, <2>1, <2>2, <2>3, <1>2 DEF Moves, MovesStart
<1>10. ASSUME (Starts(i) /\ aborted) \/ Fails(i) \/ \E kept \in BOOLEAN : Completes(i, kept)
       PROVE  Moves(i) /\ MovesEnd(i)
  <2>1. PICK r \in {"abort", "null", "kept", "value"} :
          calls' = [calls EXCEPT ![i] = Settled(calls[i], r)]
    BY <1>10 DEF Starts, Fails, Completes
  <2>2. calls[i].pc \in {"queued", "live"} /\ journal \subseteq journal'
        /\ UNCHANGED <<seeded, outcome, script, aborted, avail, agentCount, capHit, fatalError>>
    BY <1>10 DEF Starts, Fails, Completes, replay, counters, control, engine
  <2>3. r \in Results
    BY Literals
  <2>4. /\ Called(i)' /\ \A j \in Ids \ {i} : calls'[j] = calls[j]
        /\ calls'[i].hash = calls[i].hash /\ calls'[i].late = calls[i].late
        /\ calls'[i].ran = calls[i].ran
        /\ calls'[i].pc = "settled" /\ calls'[i].result = r
    BY <2>1, <2>3, <1>3
  <2>5. Moves(i)
    BY <1>1, <2>2, <2>4 DEF Moves
  <2>6. MovesEnd(i)
    BY <2>1, <2>2, <2>4 DEF MovesEnd
  <2> QED BY <2>5, <2>6
<1> QED BY <1>4, <1>5, <1>6, <1>7, <1>8, <1>9, <1>10 DEF CallStep

\* A call that the script makes extends the run and moves no other call.
LEMMA CallAddedExtends ==
  ASSUME TypeOK, NEW h \in Hashes, invocations < MaxCalls,
         NEW f \in [Ids -> Call \cup {None}],
         \A i \in Ids : Called(i) =>
           /\ f[i] # None /\ f[i].pc = calls[i].pc
           /\ f[i].result = calls[i].result /\ f[i].ran = calls[i].ran
           /\ f[i].hash = calls[i].hash /\ f[i].late = calls[i].late,
         \A i \in Ids : ~Called(i) => f[i] = None,
         calls' = [f EXCEPT ![invocations + 1] = NewCall(h)],
         UNCHANGED <<seeded, avail, journal, agentCount, capHit, fatalError, outcome, aborted, script>>
  PROVE  Extends
<1> DEFINE n == invocations + 1
<1>1. n \in Ids /\ ~Called(n)
  <2>1. invocations \in 0..MaxCalls /\ n \in Ids
    BY EngineAssumption DEF TypeOK, Ids
  <2> QED BY <2>1 DEF TypeOK
<1>2. /\ NewCall(h).pc = "tick" /\ NewCall(h).result = None /\ NewCall(h).ran = FALSE
      /\ NewCall(h).late = (outcome # None)
  BY DEF NewCall
<1>3. calls'[n] = NewCall(h) /\ \A i \in Ids \ {n} : calls'[i] = f[i]
  BY <1>1
<1>4. ASSUME NEW i \in Ids, Called(i) PROVE Called(i)' /\ SameCall(i)
  BY <1>1, <1>3, <1>4 DEF Called, SameCall
<1>5. ASSUME NEW i \in Ids, ~Called(i), Called(i)' PROVE i = n
  BY <1>1, <1>3, <1>5 DEF Called
<1> QED BY <1>1, <1>2, <1>3, <1>4, <1>5 DEF Extends

\* The script and the aborts only ever add a call.
LEMMA ScriptExtends ==
  ASSUME TypeOK, ScriptStep \/ \E by \in {"caller", "watchdog"} : Abort(by)
  PROVE  Extends
<1>0. calls \in [Ids -> Call \cup {None}] /\ \A i \in Ids : Called(i) => calls[i] \in Call
  BY DEF TypeOK, Called
<1>1. ASSUME NEW h \in Hashes, ScriptCalls(h) \/ TimerFires(h) PROVE Extends
  <2>1. calls' = [calls EXCEPT ![invocations + 1] = NewCall(h)] /\ invocations < MaxCalls
        /\ UNCHANGED <<seeded, avail, journal, agentCount, capHit, fatalError, outcome, aborted, script>>
    BY <1>1 DEF ScriptCalls, TimerFires, Register, NewCall, replay, control, engine
  <2>2. \A i \in Ids : Called(i) <=> calls[i] # None
    BY DEF Called
  <2> QED BY <1>0, <2>1, <2>2, CallAddedExtends
<1>2. ASSUME NEW i \in Ids, NEW h \in Hashes, ContinueCalls(i, h) PROVE Extends
  <2> DEFINE c == [calls[i] EXCEPT !.then = FALSE]
             f == [calls EXCEPT ![i] = c]
  <2>1. calls' = [f EXCEPT ![invocations + 1] = NewCall(h)] /\ invocations < MaxCalls
        /\ UNCHANGED <<seeded, avail, journal, agentCount, capHit, fatalError, outcome, aborted, script>>
        /\ Called(i)
    BY <1>2 DEF ContinueCalls, NewCall, replay, control, engine
  <2>2. /\ c \in Call /\ c.pc = calls[i].pc /\ c.result = calls[i].result /\ c.hash = calls[i].hash
        /\ c.late = calls[i].late /\ c.ran = calls[i].ran
    BY <1>0, <2>1 DEF Call
  <2> HIDE DEF c
  <2>3. f \in [Ids -> Call \cup {None}] /\ f[i] = c /\ c # None
        /\ \A j \in Ids \ {i} : f[j] = calls[j]
    BY <1>0, <2>2, Literals
  <2> HIDE DEF f
  <2>4. \A j \in Ids : Called(j) => /\ f[j] # None /\ f[j].pc = calls[j].pc
                                    /\ f[j].result = calls[j].result /\ f[j].ran = calls[j].ran
                                    /\ f[j].hash = calls[j].hash /\ f[j].late = calls[j].late
    BY <2>2, <2>3 DEF Called
  <2>5. \A j \in Ids : ~Called(j) => f[j] = None
    BY <2>1, <2>3 DEF Called
  <2> QED BY <2>1, <2>3, <2>4, <2>5, CallAddedExtends
<1>3. ASSUME /\ calls' = calls
             /\ UNCHANGED <<seeded, avail, journal, agentCount, capHit, fatalError, outcome>>
             /\ aborted => aborted'
             /\ script # "body" => script' = script
      PROVE  Extends
  BY <1>3 DEF Extends, SameCall, Called
<1>4. CASE SetTimer \/ Return \/ Throw
  BY <1>3, <1>4 DEF SetTimer, Return, Throw, replay, counters, engine
<1>5. ASSUME NEW by \in {"caller", "watchdog"}, Abort(by) PROVE Extends
  BY <1>3, <1>5 DEF Abort, replay, counters
<1> QED BY <1>1, <1>2, <1>4, <1>5 DEF ScriptStep

\* A step extends the run, moves one call, or draws the verdict of a drained run.
LEMMA StepKinds ==
  ASSUME TypeOK, [Next]_vars
  PROVE  \/ Extends
         \/ \E i \in Ids : CallStep(i)
         \/ /\ phase = "quiet" /\ Drained /\ outcome' = Verdict
            /\ UNCHANGED <<replay, calls, counters, control>>
<1>3. ASSUME /\ calls' = calls
             /\ UNCHANGED <<seeded, avail, journal, agentCount, capHit, fatalError, outcome>>
             /\ aborted => aborted'
             /\ script # "body" => script' = script
      PROVE  Extends
  BY <1>3 DEF Extends, SameCall, Called
<1>6. CASE DrainEmpty \/ Update \/ Finish \/ \E ok \in BOOLEAN : Flush(ok)
  BY <1>3, <1>6 DEF DrainEmpty, Update, Finish, Flush, replay, counters, control
<1>7. CASE DrainTick
  <2>1. CASE Drained
    BY <1>7, <2>1 DEF DrainTick
  <2>2. CASE ~Drained
    BY <1>3, <1>7, <2>2 DEF DrainTick, replay, counters, control
  <2> QED BY <2>1, <2>2
<1>8. CASE UNCHANGED vars
  BY <1>3, <1>8 DEF vars, replay, counters, control, engine
<1> QED BY <1>6, <1>7, <1>8, ScriptExtends DEF Next, EngineStep

-----------------------------------------------------------------------------
\* A call past the replay check found no entry, and none comes back.
NoRerun == \A i \in Ids : Called(i) /\ (calls[i].pc \in {"queued", "live"} \/ calls[i].ran) =>
                           AvailableFor(calls[i].hash) = {}

\* A call is only parked by the ceiling or an abort.
ParkedFor == \A i \in Ids : Called(i) /\ calls[i].pc = "parked" => capHit \/ aborted

\* The parts of ReplayOnce, for one identity.
CachedFor(h) == {i \in Entries(h) : calls[i].result = "cached"}
UsedFor(h)   == {e \in seeded \ avail : e.hash = h}

ReplayInv == /\ avail \subseteq seeded /\ seeded \subseteq journal /\ seeded \subseteq Entry
             /\ \A h \in Hashes : Cardinality(CachedFor(h)) = Cardinality(UsedFor(h))

Taken == {i \in Ids : Called(i) /\ (\/ calls[i].pc \in {"queued", "live"}
                 \/ calls[i].result \in {"cached", "kept", "value", "null", "abort"})}

IInv == /\ TypeOK /\ SlotsReserved /\ NoRerun /\ ReplayInv
        /\ DrainedBeforeFinalize /\ ParkedFor /\ CompletedHonest

\* There are finitely many calls.
LEMMA IdsFinite == IsFiniteSet(Ids) /\ \A S \in SUBSET Ids : IsFiniteSet(S)
<1>1. IsFiniteSet(Ids)
  BY FS_Interval, EngineAssumption DEF Ids
<1> QED BY <1>1, FS_Subset

\* The journal holds finitely many entries.
LEMMA EntryFinite == IsFiniteSet(Entry) /\ \A S \in SUBSET Entry : IsFiniteSet(S)
<1> DEFINE P == (0..1) \X Hashes
           g == [p \in P |-> [index |-> p[1], hash |-> p[2]]]
<1>1. IsFiniteSet(0..1)
  <2>1. 0 \in Int /\ 1 \in Int
    OBVIOUS
  <2> QED BY <2>1, FS_Interval, Zenon
<1>2. IsFiniteSet(P)
  BY <1>1, FS_Product, EngineAssumption
<1>3. g \in [P -> Entry]
  BY DEF Entry
<1>4. ASSUME NEW e \in Entry PROVE \E p \in P : g[p] = e
  <2>1. <<e.index, e.hash>> \in P /\ g[<<e.index, e.hash>>] = e
    BY DEF Entry
  <2> QED BY <2>1
<1> HIDE DEF g, P
<1>5. g \in Surjection(P, Entry)
  BY <1>3, <1>4 DEF Surjection
<1>6. IsFiniteSet(Entry)
  BY <1>2, <1>5, FS_Surjection
<1> QED BY <1>6, FS_Subset

\* The slots: a fan-out of any width never holds more than AgentCap.
LEMMA StepSlots ==
  ASSUME TypeOK, SlotsReserved, [Next]_vars PROVE SlotsReserved'
<1>0. agentCount = Cardinality(Taken) /\ agentCount <= AgentCap /\ agentCount \in Nat
  BY DEF SlotsReserved, Taken, TypeOK
<1>1. Taken \in SUBSET Ids /\ IsFiniteSet(Taken)
  BY IdsFinite DEF Taken
<1>2. SUFFICES agentCount' = Cardinality(Taken') /\ agentCount' <= AgentCap
  BY DEF SlotsReserved, Taken
<1>3. CASE Extends
  <2>1. Taken' = Taken
    BY <1>3, Literals DEF Extends, SameCall, Taken
  <2> QED BY <1>0, <1>3, <2>1 DEF Extends
<1>4. ASSUME NEW i \in Ids, CallStep(i)
      PROVE  agentCount' = Cardinality(Taken') /\ agentCount' <= AgentCap
  <2>1. Moves(i)
    BY <1>4, CallStepMoves
  <2>2. /\ calls[i].pc = "tick" => i \notin Taken
        /\ \A j \in Ids \ {i} : j \in Taken' <=> j \in Taken
    BY <2>1, Literals DEF Taken, Moves, Called, TypeOK
  <2>3. CASE MovesNot(i) \/ MovesPark(i) \/ MovesRefuse(i) \/ MovesStart(i) \/ MovesEnd(i)
    <3>1. i \in Taken' <=> i \in Taken
      BY <2>1, <2>2, <2>3, Literals
         DEF Moves, MovesNot, SameCall, MovesPark, MovesRefuse, MovesStart, MovesEnd, Taken
    <3>2. Taken' = Taken
      BY <2>2, <3>1 DEF Taken
    <3>3. agentCount' = agentCount
      BY <2>3 DEF MovesNot, MovesPark, MovesRefuse, MovesStart, MovesEnd
    <3> QED BY <1>0, <3>2, <3>3
  <2>4. CASE MovesReplay(i) \/ MovesQueue(i)
    <3>1. i \notin Taken /\ i \in Taken'
      BY <2>1, <2>2, <2>4 DEF Moves, MovesReplay, MovesQueue, Taken
    <3>2. Taken' = Taken \cup {i}
      BY <2>2, <3>1 DEF Taken
    <3>3. Cardinality(Taken') = Cardinality(Taken) + 1
      BY <1>1, <3>1, <3>2, FS_AddElement
    <3>4. agentCount' = agentCount + 1 /\ agentCount < AgentCap
      BY <2>4 DEF MovesReplay, MovesQueue
    <3> QED BY <1>0, <3>3, <3>4, EngineAssumption
  <2> QED BY <1>4, <2>3, <2>4, CallStepMoves
<1>5. CASE UNCHANGED <<replay, calls, counters, control>>
  BY <1>0, <1>5 DEF counters, Taken, Called
<1> QED BY <1>3, <1>4, <1>5, StepKinds

\* Resume: each entry is handed out once, to a call of its identity.
LEMMA StepNoRerun ==
  ASSUME TypeOK, NoRerun, [Next]_vars PROVE NoRerun'
<1>1. CASE Extends
  BY <1>1 DEF Extends, SameCall, NoRerun, AvailableFor
<1>2. ASSUME NEW i \in Ids, CallStep(i) PROVE NoRerun'
  <2>1. Moves(i)
    BY <1>2, CallStepMoves
  <2>2. avail' \subseteq avail
    BY <1>2, CallStepMoves
       DEF MovesNot, MovesPark, MovesRefuse, MovesReplay, MovesQueue, MovesStart, MovesEnd
  <2>3. \A h : AvailableFor(h) = {} => AvailableFor(h)' = {}
    BY <2>2 DEF AvailableFor
  <2>4. ASSUME NEW j \in Ids \ {i}, Called(j)',
               calls'[j].pc \in {"queued", "live"} \/ calls'[j].ran
        PROVE  AvailableFor(calls[j].hash) = {}
    BY <2>1, <2>4 DEF Moves, Called, NoRerun
  <2>5. ASSUME calls'[i].pc \in {"queued", "live"} \/ calls'[i].ran
        PROVE  AvailableFor(calls[i].hash) = {}
    <3>1. CASE MovesQueue(i)
      BY <3>1 DEF MovesQueue
    <3>2. CASE MovesNot(i) \/ MovesPark(i) \/ MovesRefuse(i) \/ MovesReplay(i) \/ MovesStart(i) \/ MovesEnd(i)
      BY <2>1, <2>5, <3>2
         DEF MovesNot, SameCall, MovesPark, MovesRefuse, MovesReplay, MovesStart, MovesEnd, NoRerun, Moves
    <3> QED BY <1>2, <3>1, <3>2, CallStepMoves
  <2>6. \A j \in Ids \ {i} : calls'[j].hash = calls[j].hash
    BY <2>1 DEF Moves
  <2>7. calls'[i].hash = calls[i].hash
    BY <2>1 DEF Moves
  <2> QED BY <2>3, <2>4, <2>5, <2>6, <2>7 DEF NoRerun
<1>3. CASE UNCHANGED <<replay, calls, counters, control>>
  BY <1>3 DEF replay, NoRerun, AvailableFor, Called
<1> QED BY <1>1, <1>2, <1>3, StepKinds

\* Every step keeps the replay: an entry is used once, a call that runs had none.
LEMMA StepReplayInv ==
  ASSUME TypeOK, ReplayInv, [Next]_vars PROVE ReplayInv'
<1>1. CASE Extends
  <2>1. \A h \in Hashes : CachedFor(h)' = CachedFor(h) /\ UsedFor(h)' = UsedFor(h)
    BY <1>1, Literals DEF Extends, SameCall, CachedFor, UsedFor, Entries
  <2> QED BY <1>1, <2>1 DEF Extends, ReplayInv
<1>2. ASSUME NEW i \in Ids, CallStep(i) PROVE ReplayInv'
  <2>1. Moves(i)
    BY <1>2, CallStepMoves
  <2>2. \A h : \A j \in Ids \ {i} : j \in CachedFor(h)' <=> j \in CachedFor(h)
    BY <2>1 DEF Moves, Called, CachedFor, Entries
  <2>3. \A h : CachedFor(h) \subseteq Ids /\ CachedFor(h)' \subseteq Ids
    BY DEF CachedFor, Entries
  <2>4. CASE MovesReplay(i)
    <3>0. PICK k \in Hashes : k = calls[i].hash
      BY <2>1 DEF Moves, Called, TypeOK, Call
    <3>1. PICK e \in AvailableFor(k) : avail' = avail \ {e}
      BY <2>4, <3>0 DEF MovesReplay
    <3>2. e \in avail /\ e \in seeded /\ e \in Entry /\ e.hash = k /\ seeded' = seeded /\ journal' = journal
      BY <2>1, <2>4, <3>1 DEF AvailableFor, ReplayInv, Moves, MovesReplay
    <3>3. UsedFor(k)' = UsedFor(k) \cup {e} /\ e \notin UsedFor(k)
      BY <3>1, <3>2 DEF UsedFor
    <3>4. i \notin CachedFor(k) /\ i \in CachedFor(k)'
      BY <2>1, <2>4, <3>0, Literals DEF Moves, MovesReplay, CachedFor, Entries, TypeOK
    <3>5. CachedFor(k)' = CachedFor(k) \cup {i}
      BY <2>2, <2>3, <3>4
    <3>6. IsFiniteSet(CachedFor(k)) /\ IsFiniteSet(UsedFor(k))
      BY <2>3, IdsFinite, EntryFinite DEF UsedFor, ReplayInv
    <3>7. Cardinality(CachedFor(k)') = Cardinality(CachedFor(k)) + 1
          /\ Cardinality(UsedFor(k)') = Cardinality(UsedFor(k)) + 1
      BY <3>3, <3>4, <3>5, <3>6, FS_AddElement
    <3>8. ASSUME NEW h \in Hashes, h # k
          PROVE  CachedFor(h)' = CachedFor(h) /\ UsedFor(h)' = UsedFor(h)
      <4>1. i \notin CachedFor(h) /\ i \notin CachedFor(h)'
        BY <2>1, <3>0, <3>8 DEF Moves, CachedFor, Entries
      <4>2. CachedFor(h)' = CachedFor(h)
        BY <2>2, <2>3, <4>1
      <4> QED BY <3>1, <3>2, <3>8, <4>2 DEF UsedFor
    <3>9. ASSUME NEW h \in Hashes PROVE Cardinality(CachedFor(h)') = Cardinality(UsedFor(h)')
      BY <3>7, <3>8 DEF ReplayInv
    <3>10. avail' \subseteq seeded' /\ seeded' \subseteq journal' /\ seeded' \subseteq Entry
      BY <3>1, <3>2 DEF ReplayInv
    <3> QED BY <3>9, <3>10 DEF ReplayInv
  <2>5. CASE MovesNot(i) \/ MovesPark(i) \/ MovesRefuse(i) \/ MovesQueue(i) \/ MovesStart(i) \/ MovesEnd(i)
    <3>1. UNCHANGED <<seeded, avail>> /\ journal \subseteq journal'
      BY <2>1, <2>5
         DEF Moves, MovesNot, MovesPark, MovesRefuse, MovesQueue, MovesStart, MovesEnd
    <3>2. calls'[i].result = "cached" <=> calls[i].result = "cached"
      BY <2>1, <2>5, Literals
         DEF Moves, MovesNot, SameCall, MovesPark, MovesRefuse, MovesQueue, MovesStart, MovesEnd, TypeOK
    <3>3. \A h \in Hashes : CachedFor(h)' = CachedFor(h)
      <4>1. \A h \in Hashes : i \in CachedFor(h)' <=> i \in CachedFor(h)
        BY <2>1, <3>2 DEF Moves, CachedFor, Entries
      <4> QED BY <2>2, <2>3, <4>1
    <3>4. \A h \in Hashes : UsedFor(h)' = UsedFor(h)
      BY <3>1 DEF UsedFor
    <3> QED BY <3>1, <3>3, <3>4 DEF ReplayInv
  <2> QED BY <1>2, <2>4, <2>5, CallStepMoves
<1>3. CASE UNCHANGED <<replay, calls, counters, control>>
  BY <1>3 DEF replay, ReplayInv, CachedFor, UsedFor, Entries, Called
<1> QED BY <1>1, <1>2, <1>3, StepKinds

\* The drain and the verdict.
LEMMA StepDrained ==
  ASSUME TypeOK, DrainedBeforeFinalize, [Next]_vars PROVE DrainedBeforeFinalize'
<1>1. CASE Extends
  BY <1>1 DEF Extends, SameCall, DrainedBeforeFinalize, Pending
<1>2. ASSUME NEW i \in Ids, CallStep(i) PROVE DrainedBeforeFinalize'
  <2>1. Moves(i)
    BY <1>2, CallStepMoves
  <2>2. Pending(i)' => Pending(i)
    BY <1>2, <2>1, CallStepMoves
       DEF Moves, MovesNot, SameCall, MovesPark, MovesRefuse, MovesReplay, MovesQueue, MovesStart,
           MovesEnd, Pending
  <2>3. \A j \in Ids :
          /\ Pending(j)' => Pending(j)
          /\ Called(j)' => Called(j) /\ calls'[j].late = calls[j].late
    BY <2>1, <2>2 DEF Moves, Pending, Called
  <2> QED BY <2>1, <2>3 DEF Moves, DrainedBeforeFinalize
<1>3. CASE Drained /\ UNCHANGED <<replay, calls, counters, control>>
  BY <1>3 DEF DrainedBeforeFinalize, Drained, Pending, Called
<1> QED BY <1>1, <1>2, <1>3, StepKinds

\* A parked call keeps the ceiling or the abort it is parked for.
LEMMA StepParkedFor ==
  ASSUME TypeOK, ParkedFor, [Next]_vars PROVE ParkedFor'
<1>1. CASE Extends
  BY <1>1 DEF Extends, SameCall, ParkedFor
<1>2. ASSUME NEW i \in Ids, CallStep(i) PROVE ParkedFor'
  <2>1. Moves(i)
    BY <1>2, CallStepMoves
  <2>2. (capHit => capHit') /\ (aborted => aborted')
    BY <1>2, <2>1, CallStepMoves
       DEF Moves, MovesNot, MovesPark, MovesRefuse, MovesReplay, MovesQueue, MovesStart, MovesEnd
  <2>3. calls'[i].pc = "parked" => calls[i].pc = "parked" \/ capHit' \/ aborted'
    BY <1>2, <2>1, CallStepMoves
       DEF Moves, MovesNot, SameCall, MovesPark, MovesRefuse, MovesReplay, MovesQueue, MovesStart,
           MovesEnd
  <2> QED BY <2>1, <2>2, <2>3 DEF Moves, ParkedFor, Called
<1>3. CASE UNCHANGED <<replay, calls, counters, control>>
  BY <1>3 DEF counters, control, ParkedFor, Called
<1> QED BY <1>1, <1>2, <1>3, StepKinds

\* A verdict that says completed is drawn honestly, and calls that come later do not belie it.
LEMMA StepCompletedHonest ==
  ASSUME TypeOK, DrainedBeforeFinalize, ParkedFor, CompletedHonest, [Next]_vars
  PROVE  CompletedHonest'
<1>1. CASE Extends
  <2> SUFFICES ASSUME outcome' = "completed" PROVE CompletedHonest'
    BY DEF CompletedHonest
  <2>1. outcome = "completed" /\ outcome # None /\ script = "returned" /\ script' = "returned"
        /\ capHit' = capHit /\ fatalError' = fatalError
    BY <1>1, Literals DEF Extends, CompletedHonest
  <2>2. ASSUME NEW i \in Ids, Called(i)', ~calls'[i].late PROVE calls'[i].pc = "settled"
    BY <1>1, <2>1, <2>2 DEF Extends, SameCall, CompletedHonest
  <2>3. ASSUME NEW i \in Ids, Called(i)
        PROVE  Called(i)' /\ calls'[i].late = calls[i].late /\ calls'[i].result = calls[i].result
    BY <1>1, <2>3 DEF Extends, SameCall
  <2>4. capHit' => \E i \in Ids : Called(i)' /\ calls'[i].late
    BY <2>1, <2>3 DEF CompletedHonest
  <2>5. fatalError' => \E i \in Ids : Called(i)' /\ calls'[i].late /\ calls'[i].result = "fatal"
    BY <2>1, <2>3 DEF CompletedHonest
  <2> QED BY <2>1, <2>2, <2>4, <2>5 DEF CompletedHonest
<1>2. ASSUME NEW i \in Ids, CallStep(i) PROVE CompletedHonest'
  <2> SUFFICES ASSUME outcome' = "completed" PROVE CompletedHonest'
    BY DEF CompletedHonest
  <2>0. Moves(i)
    BY <1>2, CallStepMoves
  <2>1. outcome = "completed" /\ outcome # None /\ script = "returned" /\ script' = "returned"
    BY <2>0, Literals DEF Moves, CompletedHonest
  <2>2. calls[i].pc = "tick" => calls[i].late
    BY <2>0, <2>1 DEF Moves, DrainedBeforeFinalize, Pending
  <2>3. calls[i].pc = "settled" => MovesNot(i)
    BY <1>2, CallStepMoves
       DEF MovesPark, MovesRefuse, MovesReplay, MovesQueue, MovesStart, MovesEnd
  <2>4. \A j \in Ids \ {i} : calls'[j] = calls[j] /\ (Called(j)' <=> Called(j))
    BY <2>0 DEF Moves, Called
  <2>5. Called(i) /\ Called(i)' /\ calls'[i].late = calls[i].late
    BY <2>0 DEF Moves
  <2>6. ASSUME NEW j \in Ids, Called(j)', ~calls'[j].late PROVE calls'[j].pc = "settled"
    BY <2>1, <2>3, <2>4, <2>5, <2>6 DEF CompletedHonest, MovesNot, SameCall
  <2>7. ASSUME capHit' PROVE \E j \in Ids : Called(j)' /\ calls'[j].late
    <3>1. CASE MovesPark(i)
      BY <2>2, <2>5, <3>1 DEF MovesPark
    <3>2. CASE MovesNot(i) \/ MovesRefuse(i) \/ MovesReplay(i) \/ MovesQueue(i) \/ MovesStart(i) \/ MovesEnd(i)
      <4>1. capHit
        BY <2>7, <3>2 DEF MovesNot, MovesRefuse, MovesReplay, MovesQueue, MovesStart, MovesEnd
      <4> QED BY <2>1, <2>4, <2>5, <4>1 DEF CompletedHonest
    <3> QED BY <1>2, <3>1, <3>2, CallStepMoves
  <2>8. ASSUME fatalError'
        PROVE  \E j \in Ids : Called(j)' /\ calls'[j].late /\ calls'[j].result = "fatal"
    <3>1. CASE fatalError
      <4>1. PICK j \in Ids : Called(j) /\ calls[j].late /\ calls[j].result = "fatal"
        BY <2>1, <3>1 DEF CompletedHonest
      <4>2. calls[j].pc = "settled"
        BY <4>1, Literals DEF TypeOK
      <4>3. Called(j)' /\ calls'[j].late /\ calls'[j].result = "fatal"
        BY <2>3, <2>4, <2>5, <4>1, <4>2 DEF MovesNot, SameCall
      <4> QED BY <4>3
    <3>2. CASE ~fatalError
      <4>1. MovesRefuse(i)
        BY <1>2, <2>8, <3>2, CallStepMoves
           DEF MovesNot, MovesPark, MovesReplay, MovesQueue, MovesStart, MovesEnd
      <4>2. calls'[i].result = "fatal" /\ calls[i].pc = "tick"
        BY <2>8, <3>2, <4>1 DEF MovesRefuse
      <4> QED BY <2>2, <2>5, <4>2
    <3> QED BY <3>1, <3>2
  <2> QED BY <2>1, <2>6, <2>7, <2>8 DEF CompletedHonest
<1>3. CASE /\ Drained /\ outcome' = Verdict
           /\ UNCHANGED <<replay, calls, counters, control>>
  <2> SUFFICES ASSUME outcome' = "completed" PROVE CompletedHonest'
    BY DEF CompletedHonest
  <2>1. script = "returned" /\ ~aborted /\ ~capHit /\ ~fatalError
    BY <1>3 DEF Verdict
  <2>2. UNCHANGED <<calls, script, capHit, fatalError>>
    BY <1>3 DEF counters, control
  <2>3. ASSUME NEW i \in Ids, Called(i) PROVE calls[i].pc = "settled"
    <3>1. calls[i].pc \in {"tick", "queued", "live", "settled", "parked"}
      BY <2>3 DEF TypeOK, Called, Call
    <3> QED BY <1>3, <2>1, <2>3, <3>1 DEF Drained, Pending, ParkedFor
  <2> QED BY <2>1, <2>2, <2>3 DEF CompletedHonest, Called
<1> QED BY <1>1, <1>2, <1>3, StepKinds

-----------------------------------------------------------------------------
\* The invariant holds before the script runs.
LEMMA InitIInv == Init => IInv
<1> SUFFICES ASSUME Init PROVE IInv
  OBVIOUS
<1>1. TypeOK /\ \A i \in Ids : ~Called(i)
  BY InitTypeOK DEF Init, Called
<1>2. SlotsReserved
  <2>1. Taken = {}
    BY <1>1 DEF Taken
  <2>2. agentCount = 0 /\ 0 <= AgentCap
    BY EngineAssumption DEF Init
  <2> QED BY <2>1, <2>2, FS_EmptySet DEF SlotsReserved, Taken
<1>3. ReplayInv
  <2>1. \A h \in Hashes : CachedFor(h) = {} /\ UsedFor(h) = {}
    BY <1>1 DEF Init, CachedFor, Entries, UsedFor
  <2> QED BY <2>1 DEF Init, ReplayInv
<1>4. outcome = None /\ "completed" # None
  BY Literals DEF Init
<1> QED BY <1>1, <1>2, <1>3, <1>4
        DEF IInv, NoRerun, DrainedBeforeFinalize, ParkedFor, CompletedHonest

\* Every step keeps the invariant.
LEMMA NextIInv == IInv /\ [Next]_vars => IInv'
BY NextTypeOK, StepSlots, StepNoRerun, StepReplayInv, StepDrained, StepParkedFor,
   StepCompletedHonest DEF IInv

\* The state is well formed for a script with any number of calls and any caps.
THEOREM TypeCorrect == Spec => []TypeOK
<1>1. IInv => TypeOK
  BY DEF IInv
<1> QED BY InitIInv, NextIInv, <1>1, PTL DEF Spec

\* Shape, caps and drain of a run together: the invariant of the runs, for any
\* number of calls, any caps and any script.
THEOREM EngineCorrect == Spec => []EngineInv
<1>1. IInv => EngineInv
  BY DEF IInv, EngineInv
<1> QED BY InitIInv, NextIInv, <1>1, PTL DEF Spec

\* The agent cap is exact for a fan-out of any width: however the calls of the
\* script interleave, agentCount is the number of calls that hold a slot and
\* never exceeds AgentCap.
THEOREM SlotsAlwaysReserved == Spec => []SlotsReserved
<1>1. IInv => SlotsReserved
  BY DEF IInv
<1> QED BY InitIInv, NextIInv, <1>1, PTL DEF Spec

\* A resume hands every journal entry out once and reruns nothing that waits in
\* the journal, whatever the entries and the calls.
THEOREM ReplayedOnce == Spec => []ReplayOnce
<1>1. IInv => ReplayOnce
  <2> SUFFICES ASSUME IInv PROVE ReplayOnce
    OBVIOUS
  <2>1. avail \subseteq seeded /\ seeded \subseteq journal
    BY DEF IInv, ReplayInv
  <2>2. ASSUME NEW h \in Hashes PROVE Cardinality(CachedFor(h)) = Cardinality(UsedFor(h))
    BY DEF IInv, ReplayInv
  <2>3. ASSUME NEW h \in Hashes, NEW i \in Entries(h), calls[i].ran
        PROVE  AvailableFor(h) = {}
    BY <2>3 DEF IInv, NoRerun, Entries
  <2> QED BY <2>1, <2>2, <2>3 DEF ReplayOnce, CachedFor, UsedFor
<1> QED BY InitIInv, NextIInv, <1>1, PTL DEF Spec

\* finalize never races a call that was made before it began.
THEOREM FinalizeAfterDrain == Spec => []DrainedBeforeFinalize
<1>1. IInv => DrainedBeforeFinalize
  BY DEF IInv
<1> QED BY InitIInv, NextIInv, <1>1, PTL DEF Spec

\* A run that is shown as completed really is.
THEOREM CompletedIsHonest == Spec => []CompletedHonest
<1>1. IInv => CompletedHonest
  BY DEF IInv
<1> QED BY InitIInv, NextIInv, <1>1, PTL DEF Spec

-----------------------------------------------------------------------------
\* What run.agents shows of a call made before finalize; a call shown as running
\* is live or was cut off by an abort, and then the run is not "completed".
Delivered == {"kept", "value"}
ShownTrue ==
  \A i \in Ids : Called(i) /\ ~calls[i].late =>
    /\ agents[i] = "completed" <=> calls[i].result \in Delivered
    /\ agents[i] = "cached" <=> calls[i].result = "cached"
    /\ agents[i] = "running" => calls[i].pc = "live" \/ calls[i].result = "abort"
    /\ calls[i].result = "abort" => aborted /\ outcome # "completed"
    /\ phase \in {"flush", "flushed", "finished"} => agents[i] # "running"

WrittenLate == disk # None => phase \in {"flushed", "finished"}

Shown == ShownTrue /\ WrittenLate /\ RecordTrue

\* Calls are added: those made after the verdict are late, and nothing is shown yet.
LEMMA AddedShown ==
  ASSUME IInv, Shown, Extends, UNCHANGED <<agents, phase, disk>>
  PROVE  Shown'
<1>1. \A i \in Ids : ~Called(i) => agents[i] = None
  BY DEF IInv, TypeOK
<1>2. disk # None => outcome # None
  BY DEF Shown, WrittenLate, IInv, TypeOK
<1>3. phase \in {"flush", "flushed", "finished"} => outcome # None
  BY DEF IInv, TypeOK
<1>4. ASSUME NEW i \in Ids, Called(i)', ~calls'[i].late, ~Called(i)
      PROVE  outcome = None /\ calls'[i].result = None /\ agents'[i] = None
  BY <1>1, <1>4 DEF Extends
<1>5. ShownTrue'
  BY <1>3, <1>4, Literals DEF Shown, ShownTrue, Extends, SameCall, Delivered
<1>6. RecordTrue'
  BY <1>2, <1>4 DEF Shown, RecordTrue, Extends, SameCall
<1> QED BY <1>5, <1>6 DEF Shown, WrittenLate

\* A call moves: what it shows moves along, and after the verdict only late ones do.
LEMMA MovedShown ==
  ASSUME IInv, Shown, NEW i \in Ids, CallStep(i)
  PROVE  Shown'
<1>1. Moves(i)
  BY CallStepMoves DEF IInv
<1>2. UNCHANGED <<phase, disk>> /\ \A j \in Ids \ {i} : agents'[j] = agents[j]
  BY DEF CallStep, Continue, Parks, Refuses, Replays, Queues, Starts, Fails, Completes, engine,
         IInv, TypeOK
<1>3. CASE outcome # None
  <2>1. ASSUME ~calls[i].late
        PROVE  /\ agents'[i] = agents[i] /\ calls'[i].result = calls[i].result
               /\ calls'[i].pc = calls[i].pc
    <3>1. ~Pending(i)
      BY <1>1, <1>3, <2>1 DEF Moves, IInv, DrainedBeforeFinalize
    <3>2. Continue(i)
      BY <3>1 DEF CallStep, Parks, Refuses, Replays, Queues, Starts, Fails, Completes,
                  Allowed, Admitted, Pending
    <3>3. MovesNot(i)
      BY <1>1, <3>1, CallStepMoves DEF IInv, Pending, Moves,
         MovesPark, MovesRefuse, MovesReplay, MovesQueue, MovesStart, MovesEnd
    <3> QED BY <3>2, <3>3 DEF Continue, MovesNot, SameCall
  <2>2. ShownTrue'
    BY <1>1, <1>2, <2>1 DEF Moves, Called, Shown, ShownTrue
  <2>3. RecordTrue'
    BY <1>1, <1>2, <2>1 DEF Moves, Called, Shown, RecordTrue
  <2> QED BY <1>2, <2>2, <2>3 DEF Shown, WrittenLate
<1>4. CASE outcome = None
  <2>1. disk = None /\ phase \notin {"flush", "flushed", "finished"} /\ outcome' # "completed"
    BY <1>1, <1>4, Literals DEF Moves, Shown, WrittenLate, IInv, TypeOK
  <2>2. agents[i] \in Statuses \cup {None} /\ agents \in [Ids -> Statuses \cup {None}]
        /\ (calls[i].pc # "settled" => calls[i].result = None)
        /\ (calls[i].pc \in {"tick", "queued", "parked"} => agents[i] = None)
    BY <1>1 DEF IInv, TypeOK, Moves
  <2> DEFINE Here == /\ agents'[i] = "completed" <=> calls'[i].result \in Delivered
                     /\ agents'[i] = "cached" <=> calls'[i].result = "cached"
                     /\ agents'[i] = "running" => calls'[i].pc = "live" \/ calls'[i].result = "abort"
                     /\ calls'[i].result = "abort" => aborted'
  <2>3. ASSUME ~calls[i].late
        PROVE  /\ agents[i] = "completed" <=> calls[i].result \in Delivered
               /\ agents[i] = "cached" <=> calls[i].result = "cached"
               /\ agents[i] = "running" => calls[i].pc = "live" \/ calls[i].result = "abort"
               /\ calls[i].result = "abort" => aborted
    BY <1>1, <2>3 DEF Shown, ShownTrue, Moves
  <2>4. ASSUME ~calls[i].late, Continue(i) \/ Parks(i) \/ Refuses(i) \/ Queues(i)
        PROVE  Here
    <3>1. agents' = agents
      BY <2>4 DEF Continue, Parks, Refuses, Queues
    <3>2. MovesNot(i) \/ (agents[i] = None /\ calls'[i].result \in {None, "fatal", "invalid"})
      <4>1. TypeOK
        BY DEF IInv
      <4>2. CASE Continue(i)
        <5>1. calls[i].pc = "settled"
          BY <1>1, <4>1, <4>2 DEF Continue, Moves, TypeOK
        <5> QED BY <4>1, <5>1, CallStepMoves
                DEF MovesPark, MovesRefuse, MovesReplay, MovesQueue, MovesStart, MovesEnd
      <4>3. CASE Parks(i) \/ Refuses(i) \/ Queues(i)
        <5>1. calls[i].pc = "tick" /\ agents[i] = None
          BY <2>2, <4>3 DEF Parks, Refuses, Queues, Admitted, Allowed
        <5>2. ~MovesReplay(i)
          <6>1. /\ Parks(i) \/ Refuses(i) => agentCount' = agentCount
                /\ Queues(i) => AvailableFor(calls[i].hash) = {}
            BY DEF Parks, Refuses, Queues
          <6>2. agentCount \in Nat
            BY <4>1 DEF TypeOK
          <6> QED BY <4>3, <6>1, <6>2 DEF MovesReplay
        <5> QED BY <4>1, <5>1, <5>2, CallStepMoves
                DEF MovesPark, MovesRefuse, MovesQueue, MovesStart, MovesEnd
      <4> QED BY <2>4, <4>2, <4>3
    <3>3. aborted' = aborted
      BY <1>1 DEF Moves
    <3>4. CASE MovesNot(i)
      BY <2>3, <2>4, <3>1, <3>3, <3>4 DEF MovesNot, SameCall
    <3>5. CASE agents[i] = None /\ calls'[i].result \in {None, "fatal", "invalid"}
      <4>1. agents'[i] = None /\ None \notin {"completed", "cached", "running"}
        BY <3>1, <3>5, Literals
      <4>2. calls'[i].result \notin Delivered \cup {"cached", "abort"}
        BY <3>5, Literals DEF Delivered
      <4> QED BY <4>1, <4>2
    <3> QED BY <3>2, <3>4, <3>5
  <2>5. ASSUME NEW r \in Results, calls' = [calls EXCEPT ![i] = Settled(calls[i], r)]
        PROVE  calls'[i].result = r
    <3>1. calls[i] \in Call /\ calls \in [Ids -> Call \cup {None}]
      BY <1>1 DEF IInv, TypeOK, Moves, Called
    <3> QED BY <2>5, <3>1, SettledCall
  <2>6. ASSUME Replays(i), ~calls[i].late PROVE Here
    <3>1. calls'[i].result = "cached" /\ agents'[i] = "cached"
      BY <2>2, <2>5, <2>6, Literals DEF Replays
    <3> QED BY <3>1 DEF Delivered
  <2>7. ASSUME Starts(i) /\ ~aborted, ~calls[i].late PROVE Here
    <3>1. calls'[i].pc = "live" /\ calls'[i].result = calls[i].result /\ agents'[i] = "running"
      BY <1>1, <2>2, <2>7 DEF Starts, IInv, TypeOK, Moves, Called, Call
    <3>2. calls'[i].result = None
      BY <2>2, <2>7, <3>1 DEF Starts
    <3> QED BY <3>1, <3>2, Literals DEF Delivered
  <2>8. ASSUME (Starts(i) \/ Fails(i)) /\ aborted, ~calls[i].late PROVE Here
    <3>1. calls'[i].result = "abort" /\ agents' = agents /\ aborted'
      BY <1>1, <2>5, <2>8, Literals DEF Starts, Fails, Moves
    <3>2. calls[i].result = None
      BY <2>2, <2>8 DEF Starts, Fails
    <3>3. agents[i] \notin {"completed", "cached"}
      BY <2>3, <2>8, <3>2, Literals DEF Delivered
    <3> QED BY <3>1, <3>3 DEF Delivered
  <2>9. ASSUME Fails(i) /\ ~aborted, ~calls[i].late PROVE Here
    <3>1. calls'[i].result = "null" /\ agents'[i] = "error"
      BY <2>2, <2>5, <2>9, Literals DEF Fails
    <3> QED BY <3>1 DEF Delivered
  <2>10. ASSUME NEW kept \in BOOLEAN, Completes(i, kept) PROVE Here
    <3>1. calls'[i].result \in Delivered /\ agents'[i] = "completed"
      BY <2>2, <2>5, <2>10, Literals DEF Completes, Delivered
    <3> QED BY <3>1 DEF Delivered
  <2>11. ~calls[i].late => Here
    BY <2>3, <2>4, <2>6, <2>7, <2>8, <2>9, <2>10 DEF CallStep
  <2> HIDE DEF Here
  <2>12. ShownTrue'
    <3> SUFFICES ASSUME NEW j \in Ids, Called(j)', ~calls'[j].late
                 PROVE  /\ agents'[j] = "completed" <=> calls'[j].result \in Delivered
                        /\ agents'[j] = "cached" <=> calls'[j].result = "cached"
                        /\ agents'[j] = "running" => calls'[j].pc = "live" \/ calls'[j].result = "abort"
                        /\ calls'[j].result = "abort" => aborted'
      BY <1>2, <2>1 DEF ShownTrue, Delivered
    <3>1. CASE j = i
      BY <1>1, <2>11, <3>1 DEF Here, Moves
    <3>2. CASE j # i
      BY <1>1, <1>2, <3>2 DEF Shown, ShownTrue, Moves, Called
    <3> QED BY <3>1, <3>2
  <2> QED BY <1>2, <2>1, <2>12 DEF Shown, WrittenLate, RecordTrue
<1> QED BY <1>3, <1>4

\* The verdict, the update of run.agents, the write and the end.
LEMMA EngineShown ==
  ASSUME IInv, Shown, EngineStep
  PROVE  Shown'
<1>0. calls' = calls
  BY DEF EngineStep, DrainEmpty, DrainTick, Update, Flush, Finish
<1>1. CASE DrainEmpty \/ Finish
  BY <1>1 DEF DrainEmpty, Finish, control, Shown, ShownTrue, WrittenLate, RecordTrue, Called,
              IInv, TypeOK
<1>2. CASE DrainTick
  <2>1. /\ UNCHANGED <<agents, aborted, disk>> /\ phase = "quiet"
        /\ phase' \in {"sidecar", "drain"} /\ (outcome' = outcome \/ outcome' = Verdict)
    BY <1>2 DEF DrainTick, control
  <2>2. disk = None
    BY <2>1 DEF Shown, WrittenLate
  <2>3. aborted => Verdict # "completed"
    BY DEF Verdict
  <2>4. ShownTrue'
    BY <1>0, <2>1, <2>3 DEF Shown, ShownTrue, Called
  <2> QED BY <2>1, <2>2, <2>4 DEF Shown, WrittenLate, RecordTrue
<1>3. CASE Update
  <2>1. /\ UNCHANGED <<aborted, outcome, disk>> /\ phase = "sidecar" /\ phase' = "flush"
        /\ \A i \in Ids : agents'[i] = IF agents[i] # "running" THEN agents[i]
                                       ELSE IF outcome = "completed" THEN "completed" ELSE "error"
    BY <1>3 DEF Update, control
  <2>2. disk = None /\ outcome # None
    BY <2>1 DEF Shown, WrittenLate, IInv, TypeOK
  <2>3. ASSUME NEW i \in Ids, Called(i), ~calls[i].late, agents[i] = "running"
        PROVE  calls[i].result = "abort" /\ outcome # "completed"
    BY <2>2, <2>3 DEF Shown, ShownTrue, IInv, DrainedBeforeFinalize, Pending
  <2>4. ShownTrue'
    BY <1>0, <2>1, <2>3 DEF Shown, ShownTrue, Called, Delivered
  <2> QED BY <2>1, <2>2, <2>4 DEF Shown, WrittenLate, RecordTrue
<1>4. ASSUME NEW ok \in BOOLEAN, Flush(ok) PROVE Shown'
  <2>1. /\ UNCHANGED <<agents, aborted, outcome>> /\ phase = "flush" /\ phase' = "flushed"
        /\ disk = None
        /\ disk' = IF ok THEN [status |-> outcome, agents |-> agents] ELSE disk
    BY <1>4 DEF Flush, control, Shown, WrittenLate
  <2>2. ShownTrue'
    BY <1>0, <2>1 DEF Shown, ShownTrue, Called
  <2>3. disk' # None => disk'.agents = agents
    BY <2>1
  <2>4. RecordTrue'
    BY <1>0, <2>1, <2>3 DEF Shown, ShownTrue, RecordTrue, Called, Delivered
  <2> QED BY <2>1, <2>2, <2>4 DEF Shown, WrittenLate
<1> QED BY <1>1, <1>2, <1>3, <1>4 DEF EngineStep

\* Every step keeps what the run record shows true to the calls.
LEMMA NextShown == IInv /\ Shown /\ [Next]_vars => Shown'
<1> SUFFICES ASSUME IInv, Shown, [Next]_vars PROVE Shown'
  OBVIOUS
<1>1. CASE (\E h \in Hashes : ScriptCalls(h) \/ TimerFires(h)) \/ SetTimer
           \/ \E i \in Ids, h \in Hashes : ContinueCalls(i, h)
  <2>1. UNCHANGED <<agents, phase, disk>>
    BY <1>1 DEF ScriptCalls, TimerFires, SetTimer, ContinueCalls, engine
  <2> QED BY <1>1, <2>1, AddedShown, ScriptExtends DEF ScriptStep, IInv
<1>2. CASE Return \/ Throw \/ \E by \in {"caller", "watchdog"} : Abort(by)
  <2>1. /\ UNCHANGED <<calls, agents, outcome, disk>> /\ (aborted => aborted')
        /\ phase' = phase \/ (phase = "script" /\ phase' = "drain")
    BY <1>2 DEF Return, Throw, Abort, IInv, TypeOK
  <2>2. ShownTrue'
    BY <2>1 DEF Shown, ShownTrue, Called
  <2> QED BY <2>1, <2>2 DEF Shown, WrittenLate, RecordTrue, Called
<1>3. CASE UNCHANGED vars
  <2>1. UNCHANGED <<calls, agents, aborted, outcome, phase, disk>>
    BY <1>3 DEF vars, control, engine
  <2> QED BY <2>1 DEF Shown, ShownTrue, WrittenLate, RecordTrue, Called
<1> QED BY <1>1, <1>2, <1>3, MovedShown, EngineShown DEF Next, ScriptStep

\* The settled record tells the truth about every call made before finalize
\* (RecordTrue).
THEOREM RecordIsTrue == Spec => []RecordTrue
<1>1. Init => IInv /\ Shown
  <2>1. Init => disk = None /\ \A i \in Ids : ~Called(i)
    BY DEF Init, Called
  <2> QED BY <2>1, InitIInv DEF Shown, ShownTrue, WrittenLate, RecordTrue
<1>2. IInv /\ Shown /\ [Next]_vars => (IInv /\ Shown)'
  BY NextIInv, NextShown
<1>3. IInv /\ Shown => RecordTrue
  BY DEF Shown
<1> QED BY <1>1, <1>2, <1>3, PTL DEF Spec

-----------------------------------------------------------------------------
(***************************************************************************)
(* The worktrees the calls lease.  For any number of calls, failures and     *)
(* crashes: a checkout has an ownership record and the base commit of its    *)
(* run, work is deleted by nobody but the user's discard, and a run that is  *)
(* being reclaimed hands out no worktree.                                    *)
(***************************************************************************)
Typed ==
  /\ tree \in [Calls -> {"none", "clean", "work"}]
  /\ manifest \in [Calls -> Records] /\ known \in [Calls -> Records] /\ saved \in [Calls -> Records]
  /\ pc \in [Calls -> Pcs] /\ goal \in [Calls -> Records]
  /\ base \in [Calls -> Nat] /\ head \in Nat /\ source \in Nat
  /\ pending \subseteq Calls /\ disposed \in BOOLEAN
  /\ reclaim \in [Calls -> {"no", "inspect", "report"}]
  /\ \A w \in Clerks : clerk[w].val \in Records
  /\ DOMAIN clerk = Clerks

\* What a call may count on: before its checkout is added there is none; while
\* it is added, and as long as it is there, somebody owns it; when its record is
\* forgotten it is gone.
Safe(a) ==
  /\ pc[a] \in {"idle", "source", "own", "add", "forget"} => tree[a] = "none"
  /\ pc[a] = "add" \/ tree[a] # "none" => manifest[a] # "none"
  /\ pc[a] \in {"own", "add"} \/ tree[a] # "none" => base[a] # 0
  /\ pc[a] \in {"inspect", "remove", "record"} => goal[a] # "none"
  /\ a \in pending => pc[a] = "working"
  /\ reclaim[a] # "no" => run = "reclaim"

\* The commits: what the source promise froze, or, after a crash took it, some
\* commit that no call will ever ask for again.
Frozen ==
  /\ source # 0 => \A a \in Calls : base[a] \in {0, source}
  /\ source = 0 => \/ \A a \in Calls : base[a] = 0
                   \/ disposed /\ AtSource = {}
  /\ OneBaseline

LedgerIInv == Typed /\ (\A a \in Calls : Safe(a)) /\ Frozen

USE DEF Goto, Aims, Manifest, Tree, Fail, Report, Task, RepoFree, Clerks, Records, Open, Terminal, Pcs,
        files, store, call, ledger, ending, env

\* At the start there is no checkout and no record.
LEMMA InitLedger == LedgerInit => LedgerIInv
<1> SUFFICES ASSUME LedgerInit PROVE LedgerIInv
  OBVIOUS
<1>1. Typed
  BY DEF LedgerInit, Typed, Idle
<1>2. \A a \in Calls : Safe(a)
  BY DEF LedgerInit, Safe
<1>3. Frozen
  BY DEF LedgerInit, Frozen, OneBaseline
<1> QED BY <1>1, <1>2, <1>3 DEF LedgerIInv

\* The steps of a call, and of reclaimAll's task for it.
LEMMA LeaseStepKeeps ==
  ASSUME LedgerIInv, NEW a \in Calls, LeaseStep(a)
  PROVE  LedgerIInv'
<1> USE DEF LedgerIInv, Typed, Safe, Frozen, OneBaseline, AtSource
<1>1. CASE Acquire(a)
  BY <1>1 DEF Acquire
<1>2. CASE Own(a)
  BY <1>2 DEF Own
<1>3. CASE Add(a)
  BY <1>3 DEF Add
<1>4. CASE AddFails(a)
  BY <1>4 DEF AddFails
<1>5. CASE Start(a)
  BY <1>5 DEF Start
<1>6. CASE Writes(a)
  BY <1>6 DEF Writes
<1>7. CASE Settle(a)
  BY <1>7 DEF Settle
<1>8. CASE Inspect(a)
  BY <1>8 DEF Inspect
<1>9. CASE Remove(a)
  BY <1>9 DEF Remove
<1>10. CASE Forget(a)
  BY <1>10 DEF Forget
<1>11. CASE Record(a)
  BY <1>11 DEF Record
<1>12. CASE Reports(a)
  BY <1>12 DEF Reports
<1>13. CASE RetainRecords(a)
  BY <1>13 DEF RetainRecords
<1>14. CASE RetainReports(a)
  BY <1>14 DEF RetainReports
<1> QED BY <1>1, <1>2, <1>3, <1>4, <1>5, <1>6, <1>7,
           <1>8, <1>9, <1>10, <1>11, <1>12, <1>13, <1>14 DEF LeaseStep

\* What the history view and an action of the user do to a record.
LEMMA ClerkStepKeeps ==
  ASSUME LedgerIInv, NEW a \in Calls, ClerkStep(a)
  PROVE  LedgerIInv'
<1> USE DEF LedgerIInv, Typed, Safe, Frozen, OneBaseline, AtSource, Clerk, Rests, Idle
<1>1. CASE Reconcile(a)
  BY <1>1 DEF Reconcile, MayReconcile, Latest, Reconciled
<1>2. CASE Discard(a)
  BY <1>2 DEF Discard
<1>3. CASE DiscardDeletes(a)
  BY <1>3 DEF DiscardDeletes
<1>4. CASE DiscardCloses(a)
  BY <1>4 DEF DiscardCloses
<1>5. CASE Authorizes(a)
  BY <1>5 DEF Authorizes
<1>6. ASSUME NEW w \in Clerks, ClerkWrites(w, a) PROVE LedgerIInv'
  BY <1>6 DEF ClerkWrites, RunFile, Newer
<1>7. ASSUME NEW w \in Clerks, Finalizes(w, a) PROVE LedgerIInv'
  BY <1>7 DEF Finalizes
<1>8. ASSUME NEW w \in Clerks, Notes(w, a) PROVE LedgerIInv'
  BY <1>8 DEF Notes
<1> QED BY <1>1, <1>2, <1>3, <1>4, <1>5, <1>6, <1>7, <1>8 DEF ClerkStep

\* Every step of a call, of the clerk, of git and of a crash keeps the ledger exact.
LEMMA LedgerInductive == LedgerIInv /\ [LedgerNext]_ledgerVars => LedgerIInv'
<1> SUFFICES ASSUME LedgerIInv, [LedgerNext]_ledgerVars PROVE LedgerIInv'
  OBVIOUS
<1> USE DEF LedgerIInv, Typed, Safe, Frozen, OneBaseline, AtSource
<1>1. ASSUME NEW a \in Calls, LeaseStep(a) \/ ClerkStep(a) PROVE LedgerIInv'
  BY <1>1, LeaseStepKeeps, ClerkStepKeeps
<1>2. CASE SourceReady
  BY <1>2 DEF SourceReady
<1>3. CASE SourceFails
  BY <1>3 DEF SourceFails
<1>4. CASE ReclaimAll
  BY <1>4 DEF ReclaimAll
<1>5. CASE Save
  BY <1>5 DEF Save
<1>6. CASE FinalFlush
  BY <1>6 DEF FinalFlush
<1>7. CASE Crash
  BY <1>7 DEF Crash, Idle
<1>8. CASE UNCHANGED ledgerVars
  BY <1>8 DEF ledgerVars
<1> QED BY <1>1, <1>2, <1>3, <1>4, <1>5, <1>6, <1>7, <1>8 DEF LedgerNext

\* The records fit together, no checkout is without its ownership record, and
\* all checkouts of a run come from one commit (LedgerInv).
THEOREM LedgerCorrect == LedgerSpec => []LedgerInv
<1>1. LedgerIInv => LedgerInv
  BY DEF LedgerIInv, Typed, Safe, Frozen, LedgerInv, LedgerTypeOK, NothingOrphaned
<1> QED BY <1>1, InitLedger, LedgerInductive, PTL DEF LedgerSpec

\* No checkout of a run that is over is out of the user's reach: run.json lists it
\* with a status he can act on, or the next look at the history will.
THEOREM NoCheckoutHidden == LedgerSpec => []NothingHidden
<1>1. LedgerIInv => NothingHidden
  <2> SUFFICES ASSUME LedgerIInv, NEW a \in Calls, run \in {"over", "dead"}, tree[a] # "none", RepoFree,
                      saved[a] \notin {"ready", "recoverable", "discarded", "cleaned"},
                      \A w \in Clerks : clerk[w].pc = "idle"
               PROVE  MayReconcile(a)
    BY DEF NothingHidden
  <2>1. clerk["history"].pc = "idle" /\ ActionFree(a)
    BY DEF ActionFree, At, Clerks
  <2>2. manifest[a] # "none" /\ manifest[a] \in Records
    BY DEF LedgerIInv, Typed, Safe
  <2>3. Reconciled(a) \in {"ready", "recoverable", "discarded", "cleaned"}
    BY <2>2 DEF Reconciled, Latest, Records, Open, Terminal
  <2> QED BY <2>1, <2>2, <2>3 DEF MayReconcile
<1> QED BY <1>1, InitLedger, LedgerInductive, PTL DEF LedgerSpec

\* Work is deleted by nobody but the user's discard (WorkKept).
THEOREM WorkIsKept == LedgerSpec => WorkKept
<1> DEFINE Kept == \A a \in Calls : tree[a] = "work" /\ tree'[a] = "none" => At("action", a, "delete")
<1>1. ASSUME LedgerIInv, [LedgerNext]_ledgerVars PROVE Kept
  <2>1. tree \in [Calls -> {"none", "clean", "work"}] /\ \A a \in Calls : pc[a] = "add" => tree[a] = "none"
    BY <1>1 DEF LedgerIInv, Typed, Safe
  <2>2. ASSUME NEW a \in Calls, tree' = tree \/ (\E s \in {"clean", "work"} : tree' = [tree EXCEPT ![a] = s])
        PROVE  Kept
    BY <2>1, <2>2
  <2>3. ASSUME NEW a \in Calls, AddFails(a) \/ Remove(a) PROVE Kept
    BY <2>1, <2>3 DEF AddFails, Remove
  <2>4. ASSUME NEW a \in Calls, DiscardDeletes(a) PROVE Kept
    BY <2>1, <2>4 DEF DiscardDeletes
  <2>5. CASE Crash
    BY <2>1, <2>5 DEF Crash
  <2>6. ASSUME NEW a \in Calls, LeaseStep(a), ~AddFails(a), ~Remove(a) PROVE Kept
    BY <2>2, <2>6 DEF LeaseStep, Acquire, Own, Add, Start, Writes, Settle, Inspect, Forget, Record, Reports,
                      RetainRecords, RetainReports
  <2>7. ASSUME NEW a \in Calls, ClerkStep(a), ~DiscardDeletes(a) PROVE Kept
    BY <2>2, <2>7 DEF ClerkStep, Reconcile, Discard, DiscardCloses, Authorizes, ClerkWrites, Finalizes, Notes
  <2>8. CASE SourceReady \/ SourceFails \/ ReclaimAll \/ Save \/ FinalFlush \/ UNCHANGED ledgerVars
    BY <2>1, <2>8 DEF SourceReady, SourceFails, ReclaimAll, Save, FinalFlush, ledgerVars
  <2> QED BY <1>1, <2>3, <2>4, <2>5, <2>6, <2>7, <2>8 DEF LedgerNext
<1>2. LedgerIInv /\ [LedgerNext]_ledgerVars => [Kept]_ledgerVars
  BY <1>1
<1> QED BY <1>2, InitLedger, LedgerInductive, PTL DEF LedgerSpec, WorkKept

\* A run that is being reclaimed hands out no worktree (NoneHandedOutLate).
THEOREM NothingAfterReclaim == LedgerSpec => NoneHandedOutLate
<1>1. [LedgerNext]_ledgerVars => [disposed => pending' \subseteq pending]_ledgerVars
  <2> SUFFICES ASSUME LedgerNext, disposed PROVE pending' \subseteq pending
    OBVIOUS
  <2>1. ASSUME NEW a \in Calls, LeaseStep(a) PROVE pending' \subseteq pending
    BY <2>1 DEF LeaseStep, Acquire, Own, Add, AddFails, Start, Writes, Settle, Inspect, Remove, Forget, Record,
                Reports, RetainRecords, RetainReports
  <2>2. ASSUME NEW a \in Calls, ClerkStep(a) PROVE pending' \subseteq pending
    BY <2>2 DEF ClerkStep, Reconcile, Discard, DiscardDeletes, DiscardCloses, Authorizes, ClerkWrites, Finalizes, Notes
  <2>3. CASE SourceReady \/ SourceFails \/ ReclaimAll \/ Save \/ FinalFlush \/ Crash
    BY <2>3 DEF SourceReady, SourceFails, ReclaimAll, Save, FinalFlush, Crash
  <2> QED BY <2>1, <2>2, <2>3 DEF LedgerNext
<1> QED BY <1>1, PTL DEF LedgerSpec, NoneHandedOutLate

\* A clerk at work has a status in hand, and notes a terminal one; of a run that is over, unless a
\* call was left on its way, nobody writes to the store any more.
Noted == \A w \in Clerks : /\ clerk[w].pc # "idle" => clerk[w].val # "none"
                           /\ clerk[w].pc = "note" => clerk[w].val \in Terminal
Ended ==
  run \in {"over", "dead"} /\ ~late => ~unsaved /\ \A a \in Calls : pc[a] \in {"idle", "done"} /\ reclaim[a] = "no"
DInv == LedgerIInv /\ Noted /\ Ended

\* Each step keeps the store of an ended run quiet, and run.json takes no open
\* record over a terminal one.
LEMMA DiscardStep ==
  ASSUME DInv, [LedgerNext]_ledgerVars
  PROVE  /\ Noted' /\ Ended'
         /\ \A a \in Calls : saved[a] \in Terminal /\ run = "over" /\ ~late => saved'[a] \in Terminal
<1> DEFINE Stands == \A a \in Calls : saved[a] \in Terminal /\ run = "over" /\ ~late => saved'[a] \in Terminal
<1> USE DEF DInv, Noted, Ended
<1>1. ASSUME NEW a \in Calls, LeaseStep(a) PROVE Noted' /\ Ended' /\ Stands
  <2>1. clerk' = clerk /\ saved' = saved /\ run' = run /\ late' = late
    BY <1>1 DEF LeaseStep, Acquire, Own, Add, AddFails, Start, Writes, Settle, Inspect, Remove, Forget, Record,
                Reports, RetainRecords, RetainReports
  <2>2. CASE run \in {"over", "dead"} /\ ~late
    <3>1. pc[a] \in {"idle", "done"} /\ reclaim[a] = "no" /\ run # "on"
      BY <2>2
    <3>2. Writes(a)
      BY <1>1, <3>1 DEF LeaseStep, Acquire, Own, Add, AddFails, Start, Settle, Inspect, Remove, Forget, Record,
                        Reports, RetainRecords, RetainReports
    <3> QED BY <2>1, <3>2 DEF Writes
  <2> QED BY <2>1, <2>2
<1>2. ASSUME NEW a \in Calls, ClerkStep(a) PROVE Noted' /\ Ended' /\ Stands
  <2>1. /\ unsaved' = unsaved /\ pc' = pc /\ reclaim' = reclaim /\ late' = late
        /\ run' \in {"over", "dead"} => run \in {"over", "dead"}
    BY <1>2 DEF ClerkStep, Reconcile, MayReconcile, Discard, DiscardDeletes, DiscardCloses, Authorizes, ClerkWrites, Finalizes, Notes
  <2>2. Ended'
    BY <2>1
  <2> USE DEF LedgerIInv, Typed, Clerk, Rests, Idle, At
  <2>3. ASSUME saved' = saved, Reconcile(a) \/ Discard(a) \/ DiscardDeletes(a) \/ DiscardCloses(a)
        PROVE  Noted' /\ Stands
    <3>1. Stands
      BY <2>3
    <3>2. CASE Reconcile(a)
      <4>1. Reconciled(a) \in Records \ {"none"}
        BY <3>2 DEF Reconcile, MayReconcile, Reconciled, Latest
      <4> QED BY <2>3, <3>1, <3>2, <4>1 DEF Reconcile
    <3>3. CASE Discard(a) \/ DiscardDeletes(a) \/ DiscardCloses(a)
      BY <2>3, <3>1, <3>3 DEF Discard, DiscardDeletes, DiscardCloses
    <3> QED BY <2>3, <3>2, <3>3
  <2>4. CASE Authorizes(a)
    BY <2>2, <2>4 DEF Authorizes
  <2>5. ASSUME NEW w \in Clerks, ClerkWrites(w, a) PROVE Noted' /\ Stands
    <3>1. PICK x \in Newer(saved[a], clerk[w].val) : saved' = [saved EXCEPT ![a] = x]
      BY <2>5 DEF ClerkWrites, RunFile
    <3>2. saved[a] \in Terminal => x \in Terminal
      BY <2>5, <3>1 DEF Newer, ClerkWrites
    <3>3. Stands
      BY <3>1, <3>2
    <3>4. Noted'
      BY <2>5 DEF ClerkWrites
    <3> QED BY <3>3, <3>4
  <2>6. ASSUME NEW w \in Clerks, Finalizes(w, a) PROVE Noted' /\ Stands
    BY <2>6 DEF Finalizes
  <2>7. ASSUME NEW w \in Clerks, Notes(w, a) PROVE Noted' /\ Stands
    BY <2>7 DEF Notes
  <2>8. Reconcile(a) \/ Discard(a) \/ DiscardDeletes(a) \/ DiscardCloses(a) => saved' = saved
    BY DEF Reconcile, Discard, DiscardDeletes, DiscardCloses
  <2> QED BY <1>2, <2>2, <2>3, <2>4, <2>5, <2>6, <2>7, <2>8 DEF ClerkStep
<1>3. CASE SourceReady \/ SourceFails
  BY <1>3 DEF SourceReady, SourceFails, AtSource
<1>4. CASE ReclaimAll
  BY <1>4 DEF ReclaimAll
<1>5. CASE Save
  BY <1>5 DEF Save
<1>6. CASE FinalFlush
  BY <1>6 DEF FinalFlush
<1>7. CASE Crash
  BY <1>7 DEF Crash, Idle
<1>8. CASE UNCHANGED ledgerVars
  BY <1>8 DEF ledgerVars
<1> QED BY <1>1, <1>2, <1>3, <1>4, <1>5, <1>6, <1>7, <1>8 DEF LedgerNext

\* A discarded worktree stays discarded in run.json, whatever the history view and
\* an action of the user write about it in whatever order (DiscardStands).
THEOREM DiscardsStand == LedgerSpec => DiscardStands
<1> DEFINE Stands == \A a \in Calls : saved[a] \in Terminal /\ run = "over" /\ ~late => saved'[a] \in Terminal
<1>1. LedgerInit => DInv
  BY InitLedger DEF LedgerInit, DInv, Noted, Ended, Idle
<1>2. DInv /\ [LedgerNext]_ledgerVars => DInv' /\ Stands
  BY LedgerInductive, DiscardStep DEF DInv
<1>3. DInv /\ [LedgerNext]_ledgerVars => [Stands]_ledgerVars
  BY <1>2
<1> QED BY <1>1, <1>2, <1>3, PTL DEF LedgerSpec, DiscardStands
==============================================================================
