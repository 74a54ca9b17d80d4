--------------------------- MODULE Scheduler_proofs ---------------------------
(***************************************************************************)
(* For any tasks, intervals, number of edits and of writes of the tasks     *)
(* file that fail or tear it: runs of a task do not overlap, a moment that  *)
(* was served is not served again, an armed task stays armed and its moment *)
(* does not move back until something named may disarm it, and what was     *)
(* deleted stays so.                                                        *)
(***************************************************************************)
EXTENDS Scheduler, SequenceTheorems, TLAPS

LiveOK == live \in [Tasks -> Seq(Runs)]

\* A manual task, or none at all, has no moment; a moment that was served is past and not the
\* task's next; the run that serves one is the first of its revision to do so.
ManualIsNever == \A t \in Tasks : file[t].freq = "manual" => file[t].next = Never
GoneIsBlank == \A t \in Tasks : ~file[t].there => file[t].next = Never
SpentIsPast == \A t \in Tasks : spent[t] \subseteq 1 .. now
NextInReach ==
  \A t \in Tasks : file[t].freq \in {"interval", "daily"} =>
                     file[t].next <= ComputeNextRunAt(file[t].freq, file[t].at, now)
NextIsFresh == \A t \in Tasks : file[t].next \notin spent[t]
RunsArePast ==
  \A t \in Tasks : \A i \in 1 .. Len(live[t]) :
    live[t][i].slot \in 0 .. now

IInv == /\ TypeOK /\ LiveOK /\ OneRunPerTask /\ OncePerSlot /\ spent \in [Tasks -> SUBSET Nat]
        /\ ManualIsNever /\ GoneIsBlank /\ SpentIsPast /\ NextIsFresh /\ NextInReach /\ RunsArePast

USE SchedulerAssumption

\* The next start of a day is ahead of the moment it is computed from.
LEMMA DayAhead ==
  ASSUME NEW n \in Nat
  PROVE  ((n \div Day) + 1) * Day \in Nat /\ ((n \div Day) + 1) * Day > n
OBVIOUS

\* Computed from a later moment it is no earlier.
LEMMA DayGrows ==
  ASSUME NEW n \in Nat, NEW m \in Nat, n <= m
  PROVE  ((n \div Day) + 1) * Day <= ((m \div Day) + 1) * Day
OBVIOUS

\* So the next moment of a periodic task only grows with the clock.
LEMMA NextGrows ==
  ASSUME NEW freq \in {"interval", "daily"}, NEW at, NEW n \in Nat, NEW m \in Nat, n <= m
  PROVE  ComputeNextRunAt(freq, at, n) <= ComputeNextRunAt(freq, at, m)
<1>1. CASE freq = "interval"
  BY <1>1 DEF ComputeNextRunAt
<1>2. CASE freq = "daily"
  BY <1>2, DayGrows DEF ComputeNextRunAt
<1> QED BY <1>1, <1>2

\* The moment computed after a run is none or one in the future.
LEMMA NextIsAhead ==
  ASSUME NEW freq \in Frequencies, NEW at \in Times \cup {Never}, NEW n \in Times
  PROVE  /\ ComputeNextRunAt(freq, at, n) \in Nat
         /\ freq = "manual" => ComputeNextRunAt(freq, at, n) = Never
         /\ freq \in {"interval", "daily"} => ComputeNextRunAt(freq, at, n) > n
<1>1. n \in Nat /\ n + Interval \in Nat /\ n + Interval > n
  BY DEF Times
<1>2. CASE freq = "manual"
  BY <1>2 DEF ComputeNextRunAt, Never
<1>3. CASE freq = "once"
  BY <1>3 DEF ComputeNextRunAt, Never, Times
<1>4. CASE freq = "interval"
  BY <1>4, <1>1 DEF ComputeNextRunAt
<1>5. CASE freq = "daily"
  BY <1>5, <1>1, DayAhead DEF ComputeNextRunAt
<1> QED BY <1>2, <1>3, <1>4, <1>5 DEF Frequencies

\* Aborting the runs of a task marks each and loses none.
LEMMA AbortSeq ==
  ASSUME NEW s \in Seq(Runs)
  PROVE  /\ Abort(s) \in Seq(Runs) /\ Len(Abort(s)) = Len(s)
         /\ \A i \in 1 .. Len(s) : Abort(s)[i] = [s[i] EXCEPT !.aborted = TRUE]
<1>1. DOMAIN s = 1 .. Len(s) /\ Len(s) \in Nat
  OBVIOUS
<1>2. \A i \in 1 .. Len(s) : s[i] \in Runs
  OBVIOUS
<1>3. \A r \in Runs : [r EXCEPT !.aborted = TRUE] \in Runs
  BY DEF Runs
<1>4. Abort(s) \in [1 .. Len(s) -> Runs]
  BY <1>1, <1>2, <1>3 DEF Abort
<1>5. \A i \in 1 .. Len(s) : Abort(s)[i] = [s[i] EXCEPT !.aborted = TRUE]
  BY <1>1 DEF Abort
<1> HIDE DEF Abort
<1> QED BY <1>1, <1>4, <1>5

\* The task whose only run ends has none left.
LEMMA WithoutOnly ==
  ASSUME NEW s \in Seq(Runs), Len(s) = 1, NEW i
  PROVE  Without(s, i) = <<>>
<1>1. Without(s, i) = [j \in {} |-> IF j < i THEN s[j] ELSE s[j + 1]]
  BY 1 .. (1 - 1) = {} DEF Without
<1>2. Without(s, i) \in [{} -> Runs]
  BY <1>1
<1>3. <<>> \in [{} -> Runs]
  OBVIOUS
<1> QED BY <1>2, <1>3

\* At the start nothing runs and nothing has been served.
LEMMA InitIInv == Init => IInv
<1> SUFFICES ASSUME Init PROVE IInv
  OBVIOUS
<1>1. Gone \in Rows /\ Gone.freq = "manual" /\ Gone.next = Never
  BY DEF Gone, Rows, Never, Frequencies
<1>a. DOMAIN (<<>>) = {} /\ Len(<<>>) = 0 /\ <<>> \in Seq(Runs)
  OBVIOUS
<1>b. \A t \in Tasks : live[t] = <<>>
  BY DEF Init
<1>2. \A t \in Tasks : Len(live[t]) = 0 /\ DOMAIN live[t] = {}
  BY <1>a, <1>b
<1>3. LiveOK /\ OneRunPerTask /\ OncePerSlot /\ RunsArePast
  <2>1. LiveOK
    BY <1>a DEF Init, LiveOK
  <2>0. 1 .. 0 = {} /\ 0 <= 1
    OBVIOUS
  <2>2. \A t \in Tasks : 1 .. Len(live[t]) = {}
    BY <2>0, <1>2, Zenon
  <2>3. OneRunPerTask
    BY <2>0, <1>2, Zenon DEF OneRunPerTask
  <2>4. OncePerSlot
    BY <1>2 DEF OncePerSlot
  <2>5. RunsArePast
    BY <2>2 DEF RunsArePast
  <2> QED BY <2>1, <2>3, <2>4, <2>5
<1>4. spent \in [Tasks -> SUBSET Nat] /\ SpentIsPast /\ NextIsFresh /\ NextInReach /\ ManualIsNever /\ GoneIsBlank
  BY <1>1 DEF Init, SpentIsPast, NextIsFresh, NextInReach, ManualIsNever, GoneIsBlank
<1>5. TypeOK
  <2>1. now \in Times /\ file \in [Tasks -> Rows] /\ draft \subseteq Tasks /\ faults \in 0 .. MaxFaults
    BY <1>1 DEF Init, Times
  <2>2. up \in {"off", "starting", "on", "stopping"} /\ timer = (up = "on")
    BY DEF Init
  <2>3. running = {t \in Tasks : live[t] # <<>>}
    BY <1>b DEF Init
  <2>4. rev \in [Tasks -> Nat] /\ (\A t \in Tasks : rev[t] <= MaxEdits[t]) /\ \A t \in Tasks : spent[t] = {}
    BY DEF Init
  <2> QED BY <1>2, <2>1, <2>2, <2>3, <2>4 DEF TypeOK
<1> QED BY <1>3, <1>4, <1>5 DEF IInv

-----------------------------------------------------------------------------
\* The runs of the next state are runs of this one, perhaps farther on.
Follows ==
  \A u \in Tasks : \A j \in 1 .. Len(live'[u]) :
    /\ j \in 1 .. Len(live[u])
    /\ live'[u][j].slot \in {live[u][j].slot, Never}
    /\ live'[u][j].pc = "working" => /\ live[u][j].pc = "working"
                                     /\ live'[u][j].slot = live[u][j].slot
                                     /\ live'[u][j].rev = live[u][j].rev

\* A step that starts no run and serves no moment twice keeps the served moments in the past.
LEMMA FollowKeeps ==
  ASSUME IInv, LiveOK', Follows, now' \in Nat, now' >= now,
         \A u \in Tasks :
           \/ spent'[u] = {}
           \/ /\ rev'[u] = rev[u]
              /\ \/ spent'[u] = spent[u]
                 \/ \A j \in 1 .. Len(live'[u]) : live'[u][j].pc # "working"
  PROVE  OncePerSlot' /\ RunsArePast'
<1>1. \A u \in Tasks : DOMAIN live[u] = 1 .. Len(live[u]) /\ DOMAIN live'[u] = 1 .. Len(live'[u])
  BY DEF LiveOK, IInv
<1>2. now \in Nat
  BY DEF IInv, TypeOK, Times
<1>3. OncePerSlot'
  <2> SUFFICES ASSUME NEW u \in Tasks, NEW j \in 1 .. Len(live'[u]), live'[u][j].pc = "working",
                      live'[u][j].rev = rev'[u]
               PROVE  live'[u][j].slot \notin spent'[u]
    BY <1>1 DEF OncePerSlot
  <2>1. /\ j \in DOMAIN live[u] /\ live[u][j].pc = "working"
        /\ live'[u][j].slot = live[u][j].slot /\ live'[u][j].rev = live[u][j].rev
    BY <1>1 DEF Follows
  <2>2. live[u][j].rev = rev[u] => live[u][j].slot \notin spent[u]
    BY <2>1 DEF IInv, OncePerSlot
  <2> QED BY <2>1, <2>2
<1>4. RunsArePast'
  BY <1>2 DEF Follows, RunsArePast, IInv, Never
<1> QED BY <1>3, <1>4

\* A run that moves on to its trace or its closing is such a step.
LEMMA GoesToFollows ==
  ASSUME IInv, NEW t \in Tasks, NEW i, NEW pc \in {"working", "tracing", "closing"},
         i \in DOMAIN live[t], GoesTo(t, i, pc), pc # "working"
  PROVE  /\ LiveOK' /\ Follows
         /\ \A u \in Tasks : Len(live'[u]) = Len(live[u])
         /\ \A j \in 1 .. Len(live'[t]) : live'[t][j].pc # "working"
         /\ live'[t][i].pc = pc
<1>1. live \in [Tasks -> Seq(Runs)] /\ i \in 1 .. Len(live[t]) /\ Len(live[t]) <= 1
  BY DEF IInv, LiveOK, OneRunPerTask
<1>2. i = 1 /\ Len(live[t]) = 1
  <2>1. \A n \in Nat : i \in 1 .. n /\ n <= 1 => i = 1 /\ n = 1
    OBVIOUS
  <2>2. Len(live[t]) \in Nat
    BY <1>1, LenProperties
  <2> QED BY <1>1, <2>1, <2>2, Zenon
<1> DEFINE r == Ended(live[t][1], pc)
<1>3. live[t][1] \in Runs
  <2>1. live[t] \in Seq(Runs) /\ 1 \in 1 .. Len(live[t])
    BY <1>1, <1>2
  <2> QED BY <2>1, ElementOfSeq
<1>4. r \in Runs /\ r.pc = pc /\ r.slot = Never
  <2> SUFFICES ASSUME NEW x \in Runs PROVE Ended(x, pc) \in Runs /\ Ended(x, pc).pc = pc /\ Ended(x, pc).slot = Never
    BY <1>3
  <2> QED BY DEF Runs, Ended, Never
<1>5. live' = [live EXCEPT ![t] = [live[t] EXCEPT ![1] = r]]
  <2>1. live' = [live EXCEPT ![t] = [live[t] EXCEPT ![i] = Ended(live[t][i], pc)]]
    BY DEF GoesTo
  <2> QED BY <2>1, <1>2
<1>6. /\ [live[t] EXCEPT ![1] = r] \in Seq(Runs) /\ Len([live[t] EXCEPT ![1] = r]) = 1
      /\ [live[t] EXCEPT ![1] = r][1] = r
  <2>1. live[t] \in Seq(Runs) /\ 1 \in 1 .. Len(live[t])
    BY <1>1, <1>2
  <2> HIDE DEF r
  <2>2. /\ [live[t] EXCEPT ![1] = r] \in Seq(Runs)
        /\ Len([live[t] EXCEPT ![1] = r]) = Len(live[t])
        /\ \A j \in 1 .. Len(live[t]) : [live[t] EXCEPT ![1] = r][j] = IF j = 1 THEN r ELSE live[t][j]
    BY <2>1, <1>4, ExceptSeq
  <2> QED BY <2>1, <2>2, <1>2
<1> HIDE DEF r
<1>7. live'[t] \in Seq(Runs) /\ Len(live'[t]) = 1 /\ live'[t][1] = r
  BY <1>5, <1>6, <1>1
<1>8. \A u \in Tasks \ {t} : live'[u] = live[u]
  BY <1>5, <1>1
<1>9. LiveOK'
  BY <1>1, <1>5, <1>6 DEF LiveOK
<1>10. Follows
  BY <1>1, <1>2, <1>4, <1>7, <1>8 DEF Follows
<1> QED BY <1>2, <1>4, <1>7, <1>8, <1>9, <1>10

\* An abort, of the runs of any set of tasks.
LEMMA AbortFollows ==
  ASSUME IInv, NEW ts,
         live' = [t \in Tasks |-> IF t \in ts THEN Abort(live[t]) ELSE live[t]]
  PROVE  /\ LiveOK' /\ Follows
         /\ \A u \in Tasks : Len(live'[u]) = Len(live[u])
<1>1. \A u \in Tasks : live[u] \in Seq(Runs)
  BY DEF IInv, LiveOK
<1>2. \A u \in Tasks : live'[u] \in Seq(Runs) /\ Len(live'[u]) = Len(live[u])
  BY <1>1, AbortSeq
<1>3. LiveOK'
  BY <1>2 DEF LiveOK
<1>4. Follows
  <2> SUFFICES ASSUME NEW u \in Tasks, NEW j \in 1 .. Len(live[u])
               PROVE  /\ live'[u][j].slot = live[u][j].slot
                      /\ live'[u][j].rev = live[u][j].rev /\ live'[u][j].pc = live[u][j].pc
    BY <1>2 DEF Follows
  <2>1. CASE u \in ts
    <3>1. live'[u][j] = [live[u][j] EXCEPT !.aborted = TRUE]
      BY <2>1, <1>1, AbortSeq
    <3>2. live[u][j] \in Runs
      BY <1>1
    <3> QED BY <3>1, <3>2 DEF Runs
  <2>2. CASE u \notin ts
    BY <2>2
  <2> QED BY <2>1, <2>2
<1> QED BY <1>2, <1>3, <1>4

\* With as many runs as before, the marks stay exact.
LEMMA RunningKept ==
  ASSUME IInv, LiveOK', \A u \in Tasks : Len(live'[u]) = Len(live[u]), running' = running
  PROVE  /\ running' = {t \in Tasks : live'[t] # <<>>}
         /\ OneRunPerTask'
         /\ \A t \in Tasks : \A i \in DOMAIN live'[t] : live'[t][i] \in Runs
<1>1. \A u \in Tasks : live[u] \in Seq(Runs) /\ live'[u] \in Seq(Runs)
  BY DEF IInv, LiveOK
<1>2. \A u \in Tasks : live'[u] # <<>> <=> live[u] # <<>>
  BY <1>1
<1> QED BY <1>1, <1>2 DEF IInv, TypeOK, OneRunPerTask
-----------------------------------------------------------------------------
\* What the invariant says of the tasks file.
FileOK == /\ file \in [Tasks -> Rows] /\ faults \in 0 .. MaxFaults
          /\ ManualIsNever /\ GoneIsBlank /\ NextIsFresh /\ NextInReach

\* Rows that differ from those of the file in what is switched on, at most.
AsFile(rows) ==
  /\ rows \in [Tasks -> Rows]
  /\ \A u \in Tasks : /\ rows[u].next = file[u].next /\ rows[u].freq = file[u].freq
                      /\ rows[u].there = file[u].there /\ rows[u].at = file[u].at

\* Writing such rows keeps it, whether the write lands, throws or tears the file.
LEMMA WriteKeeps ==
  ASSUME IInv, NEW rows, AsFile(rows), Lands(rows) \/ Throws(rows), UNCHANGED <<now, spent>>
  PROVE  FileOK'
<1>1. faults' \in 0 .. MaxFaults
  BY DEF IInv, TypeOK, Lands, Throws
<1>2. CASE file' = rows
  BY <1>1, <1>2 DEF IInv, FileOK, AsFile, ManualIsNever, GoneIsBlank, NextIsFresh, NextInReach
<1>3. CASE file' = Torn
  <2>1. Gone \in Rows /\ Gone.freq = "manual" /\ Gone.next = Never
    BY DEF Gone, Rows, Never, Frequencies
  <2>2. file' \in [Tasks -> Rows] /\ \A u \in Tasks : file'[u].freq = "manual" /\ file'[u].next = Never
    BY <1>3, <2>1 DEF Torn
  <2>3. \A u \in Tasks : Never \notin spent'[u]
    BY DEF IInv, TypeOK
  <2> QED BY <1>1, <2>2, <2>3 DEF FileOK, ManualIsNever, GoneIsBlank, NextIsFresh, NextInReach
<1> QED BY <1>2, <1>3 DEF Lands, Throws

\* The rows tasks are switched off to.
LEMMA OffRows ==
  ASSUME IInv, NEW ts
  PROVE  AsFile(SwitchedOff(ts)) /\ \A u \in Tasks \ ts : SwitchedOff(ts)[u] = file[u]
<1>1. \A u \in Tasks : file[u] \in Rows
  BY DEF IInv, TypeOK
<1>2. \A x \in Rows : LET y == [x EXCEPT !.enabled = FALSE]
                      IN y \in Rows /\ y.next = x.next /\ y.freq = x.freq /\ y.there = x.there /\ y.at = x.at
  BY DEF Rows
<1> QED BY <1>1, <1>2 DEF SwitchedOff, AsFile

\* An edit, a deletion or a toggle of a row keeps the invariant, also when it is lost: the next
\* moment is computed anew.
LEMMA EditStep ==
  ASSUME IInv, NEW t \in Tasks, NEW row \in Rows, row.freq = "manual" \/ ~row.there => row.next = Never,
         row.freq \in {"interval", "daily"} => row.next <= ComputeNextRunAt(row.freq, row.at, now),
         EditLost \/ Edited(t, row), draft' \subseteq Tasks,
         live' = live \/ live' = [live EXCEPT ![t] = Abort(@)],
         UNCHANGED <<now, up, timer, running>>
  PROVE  IInv'
<1>1. /\ file \in [Tasks -> Rows] /\ rev \in [Tasks -> Nat]
      /\ spent \in [Tasks -> SUBSET Nat] /\ live \in [Tasks -> Seq(Runs)] /\ now \in Times
  BY DEF IInv, TypeOK, LiveOK
<1>2. /\ rev' \in [Tasks -> Nat] /\ (\A u \in Tasks : rev'[u] <= MaxEdits[u])
      /\ spent' \in [Tasks -> SUBSET Nat] /\ FileOK'
      /\ \A u \in Tasks : spent'[u] = {} \/ (rev'[u] = rev[u] /\ spent'[u] = spent[u])
  <2>1. CASE EditLost
    <3>1. AsFile(file)
      BY <1>1 DEF AsFile
    <3>2. Throws(file) /\ UNCHANGED <<now, rev, spent>>
      BY <2>1 DEF EditLost
    <3>3. FileOK'
      BY <3>1, <3>2, WriteKeeps
    <3> QED BY <1>1, <3>2, <3>3 DEF IInv, TypeOK
  <2>2. CASE Edited(t, row)
    <3>1. /\ file' = [file EXCEPT ![t] = row] /\ rev' = [rev EXCEPT ![t] = @ + 1]
          /\ spent' = [spent EXCEPT ![t] = {}] /\ rev[t] < MaxEdits[t] /\ faults' = faults
      BY <2>2 DEF Edited, Lands
    <3>2. FileOK'
      BY <1>1, <3>1 DEF FileOK, IInv, TypeOK, ManualIsNever, NextIsFresh, GoneIsBlank, NextInReach
    <3>3. rev' \in [Tasks -> Nat] /\ \A u \in Tasks : rev'[u] <= MaxEdits[u]
      BY <1>1, <3>1 DEF IInv, TypeOK
    <3> QED BY <1>1, <3>1, <3>2, <3>3
  <2> QED BY <2>1, <2>2
<1>3. LiveOK' /\ Follows /\ \A u \in Tasks : Len(live'[u]) = Len(live[u])
  <2>1. CASE live' = live
    <3>1. LiveOK' /\ \A u \in Tasks : Len(live'[u]) = Len(live[u])
      BY <2>1 DEF IInv, LiveOK
    <3>2. Follows
      BY <2>1 DEF Follows
    <3> QED BY <3>1, <3>2
  <2>2. CASE live' = [live EXCEPT ![t] = Abort(@)]
    <3>1. live' = [u \in Tasks |-> IF u \in {t} THEN Abort(live[u]) ELSE live[u]]
      BY <2>2, <1>1
    <3> QED BY <3>1, AbortFollows
  <2> QED BY <2>1, <2>2
<1>4. /\ running' = {u \in Tasks : live'[u] # <<>>} /\ OneRunPerTask'
      /\ \A u \in Tasks : \A i \in DOMAIN live'[u] : live'[u][i] \in Runs
  BY <1>3, RunningKept
<1>5. OncePerSlot' /\ RunsArePast'
  BY <1>1, <1>2, <1>3, FollowKeeps DEF Times
<1>6. TypeOK'
  <2>1. \A u \in Tasks : \A x \in spent'[u] : x \in Nat \ {Never}
    BY <1>2 DEF IInv, TypeOK
  <2> QED BY <2>1, <1>2, <1>4 DEF IInv, TypeOK, FileOK
<1>7. SpentIsPast'
  BY <1>2 DEF IInv, SpentIsPast
<1> QED BY <1>2, <1>3, <1>4, <1>5, <1>6, <1>7 DEF IInv, FileOK

\* A tick or a manual start keeps the invariant: only tasks that do not run are started.
LEMMA StartStep ==
  ASSUME IInv, NEW ts \in SUBSET (Tasks \ running), NEW auto \in BOOLEAN,
         auto => \A t \in ts : file[t].next \in 1 .. now,
         Starts(ts, auto), FileOK', up' \in {"off", "starting", "on", "stopping"}, timer' = (up' = "on"),
         UNCHANGED <<now, rev, spent, draft>>
  PROVE  IInv'
<1>1. /\ file \in [Tasks -> Rows] /\ rev \in [Tasks -> Nat]
      /\ live \in [Tasks -> Seq(Runs)] /\ now \in Times /\ now \in Nat
  BY DEF IInv, TypeOK, LiveOK, Times
<1>2. \A t \in Tasks : /\ Run(t, auto) \in Runs /\ Run(t, auto).pc = "working"
                       /\ Run(t, auto).slot = (IF auto THEN file[t].next ELSE Never)
                       /\ Run(t, auto).rev = rev[t]
  <2> SUFFICES ASSUME NEW t \in Tasks
               PROVE  /\ Run(t, auto) \in Runs /\ Run(t, auto).pc = "working"
                      /\ Run(t, auto).slot = (IF auto THEN file[t].next ELSE Never)
                      /\ Run(t, auto).rev = rev[t]
    OBVIOUS
  <2>1. file[t].next \in Nat /\ rev[t] \in Nat
    BY <1>1 DEF Rows
  <2>2. (file[t].freq = "once") \in BOOLEAN
    OBVIOUS
  <2> QED BY <2>1, <2>2 DEF Run, Runs, Never
<1>3. \A t \in ts : live[t] = <<>> /\ live'[t] = <<Run(t, auto)>>
  <2> SUFFICES ASSUME NEW t \in ts PROVE live[t] = <<>> /\ live'[t] = <<Run(t, auto)>>
    OBVIOUS
  <2>1. live[t] = <<>>
    BY DEF IInv, TypeOK
  <2>2. live'[t] = Append(live[t], Run(t, auto))
    BY DEF Starts
  <2> QED BY <2>1, <2>2
<1>4. \A t \in Tasks \ ts : live'[t] = live[t]
  BY DEF Starts
<1>5. \A t \in ts : Len(live'[t]) = 1 /\ live'[t][1] = Run(t, auto) /\ live'[t] \in Seq(Runs)
                    /\ DOMAIN live'[t] = {1} /\ live'[t] # <<>>
  <2>1. \A r \in Runs : Len(<<r>>) = 1 /\ <<r>>[1] = r /\ <<r>> \in Seq(Runs)
                        /\ DOMAIN (<<r>>) = {1} /\ <<r>> # <<>>
    OBVIOUS
  <2> SUFFICES ASSUME NEW t \in ts
               PROVE  /\ Len(live'[t]) = 1 /\ live'[t][1] = Run(t, auto) /\ live'[t] \in Seq(Runs)
                      /\ DOMAIN live'[t] = {1} /\ live'[t] # <<>>
    OBVIOUS
  <2>2. Run(t, auto) \in Runs /\ live'[t] = <<Run(t, auto)>>
    BY <1>2, <1>3
  <2> HIDE DEF Run
  <2> QED BY <2>1, <2>2
<1>6. LiveOK'
  <2>1. \A t \in Tasks : live'[t] \in Seq(Runs)
    BY <1>1, <1>4, <1>5
  <2> QED BY <2>1 DEF LiveOK, Starts
<1>7. running' = {t \in Tasks : live'[t] # <<>>}
  BY <1>4, <1>5 DEF IInv, TypeOK, Starts
<1>8. OneRunPerTask'
  <2>1. 1 <= 1
    OBVIOUS
  <2>2. \A t \in ts : Len(live'[t]) <= 1
    BY <1>5, <2>1, Zenon
  <2> QED BY <1>4, <2>2 DEF IInv, OneRunPerTask
<1>9. \A t \in Tasks : \A i \in DOMAIN live'[t] : live'[t][i] \in Runs
  BY <1>4, <1>5, <1>2 DEF IInv, TypeOK
<1>10. TypeOK'
  BY <1>7, <1>9 DEF IInv, TypeOK, FileOK
<1>11. OncePerSlot'
  <2>1. \A t \in Tasks : file[t].next \notin spent[t] /\ Never \notin spent[t]
    BY DEF IInv, NextIsFresh, TypeOK
  <2> QED BY <2>1, <1>2, <1>4, <1>5 DEF IInv, OncePerSlot
<1>12. RunsArePast'
  <2>1. \A t \in ts : Run(t, auto).slot \in 0 .. now
    BY <1>1, <1>2 DEF Never
  <2> QED BY <2>1, <1>4, <1>5 DEF IInv, RunsArePast
<1>13. SpentIsPast' /\ spent' \in [Tasks -> SUBSET Nat]
  BY DEF IInv, SpentIsPast
<1> QED BY <1>6, <1>8, <1>10, <1>11, <1>12, <1>13 DEF IInv, FileOK

\* The row a result leaves, and that its next moment, if any, lies ahead and never moves back.
LEMMA ResultRows ==
  ASSUME IInv, NEW t \in Tasks, NEW how, ResultWritten(t, how), now' = now
  PROVE  /\ file' \in [Tasks -> Rows] /\ faults' = faults
         /\ ManualIsNever' /\ GoneIsBlank' /\ NextInReach'
         /\ \A u \in Tasks \ {t} : file'[u] = file[u]
         /\ file[t].there => file'[t].next = Never \/ file'[t].next > now
         /\ ~file[t].there => file'[t] = file[t]
         /\ file'[t].there = file[t].there /\ file'[t].enabled = file[t].enabled
         /\ file[t].there /\ file[t].freq \in {"interval", "daily"} =>
              file'[t].next > now /\ file'[t].next >= file[t].next
<1>1. /\ file \in [Tasks -> Rows] /\ now \in Times /\ file[t] \in Rows
      /\ \A u \in Tasks : file[u].freq = "manual" => file[u].next = Never
  BY DEF IInv, TypeOK, ManualIsNever
<1>2. CASE ~file[t].there
  BY <1>1, <1>2 DEF ResultWritten, Lands, IInv, ManualIsNever, GoneIsBlank, NextInReach
<1>3. CASE file[t].there
  <2> DEFINE n == NextRun(file[t], how)
             row == [file[t] EXCEPT !.next = n]
  <2>1. file' = [file EXCEPT ![t] = row] /\ faults' = faults
    BY <1>3 DEF ResultWritten, Lands
  <2>2. file[t].freq \in Frequencies /\ file[t].at \in Times \cup {Never}
    BY <1>1 DEF Rows
  <2>3. /\ n \in Nat /\ (file[t].freq = "manual" => n = Never)
        /\ file[t].freq \in {"interval", "daily"} =>
             n > now /\ n = ComputeNextRunAt(file[t].freq, file[t].at, now)
        /\ (file[t].freq = "once" => n = Never)
    <3>1. CASE file[t].freq = "once"
      BY <3>1 DEF NextRun, Never
    <3>2. CASE file[t].freq # "once"
      BY <3>2, <2>2, <1>1, NextIsAhead DEF NextRun
    <3> QED BY <3>1, <3>2
  <2>4. file[t].freq \in {"interval", "daily"} => n >= file[t].next
    BY <2>3 DEF IInv, NextInReach
  <2> HIDE DEF n
  <2>5. /\ row \in Rows /\ row.next = n /\ row.freq = file[t].freq /\ row.at = file[t].at
        /\ row.there = file[t].there /\ row.enabled = file[t].enabled
    BY <1>1, <2>3 DEF Rows
  <2> HIDE DEF row
  <2>6. /\ file' \in [Tasks -> Rows] /\ file'[t] = row
        /\ \A u \in Tasks \ {t} : file'[u] = file[u]
    BY <1>1, <2>1, <2>5
  <2>7. ManualIsNever'
    BY <1>1, <2>3, <2>5, <2>6 DEF ManualIsNever
  <2>8. GoneIsBlank'
    BY <1>3, <2>5, <2>6 DEF IInv, GoneIsBlank
  <2>9. NextInReach'
    <3>1. \A u \in Tasks \ {t} : file'[u].freq \in {"interval", "daily"} =>
                                   file'[u].next <= ComputeNextRunAt(file'[u].freq, file'[u].at, now)
      BY <2>6 DEF IInv, NextInReach
    <3>2. file'[t].freq \in {"interval", "daily"} =>
            file'[t].next <= ComputeNextRunAt(file'[t].freq, file'[t].at, now)
      <4>1. n <= n
        BY <2>3
      <4> QED BY <2>3, <2>5, <2>6, <4>1
    <3> QED BY <3>1, <3>2 DEF NextInReach
  <2>10. n = Never \/ n > now
    BY <2>2, <2>3 DEF Frequencies
  <2> QED BY <1>3, <2>1, <2>3, <2>4, <2>5, <2>6, <2>7, <2>8, <2>9, <2>10
<1> QED BY <1>2, <1>3

\* What a step of a run does to the file.
LEMMA RunWrites ==
  ASSUME NEW t \in Tasks, NEW i \in DOMAIN live[t], Finishes(t, i) \/ Traced(t, i) \/ TraceFails(t, i)
  PROVE  \/ \E how : ResultWritten(t, how) /\ (Finishes(t, i) \/ TraceFails(t, i))
         \/ ResultLost(t) /\ spent' = spent
         \/ spent' = spent /\ Traced(t, i) /\ (Lands(file) \/ (live[t][i].once /\ Lands(SwitchedOff({t}))))
<1>1. CASE Finishes(t, i)
  BY <1>1 DEF Finishes
<1>2. CASE Traced(t, i)
  <2>1. spent' = spent /\ Lands(IF live[t][i].once THEN SwitchedOff({t}) ELSE file)
    BY <1>2 DEF Traced
  <2> QED BY <1>2, <2>1
<1>3. CASE TraceFails(t, i)
  BY <1>3 DEF TraceFails
<1> QED BY <1>1, <1>2, <1>3

\* A run that goes on, with or without a result.
LEMMA RunStep ==
  ASSUME IInv, NEW t \in Tasks, NEW i \in DOMAIN live[t],
         Finishes(t, i) \/ Traced(t, i) \/ TraceFails(t, i)
  PROVE  IInv'
<1>1. /\ UNCHANGED <<now, rev, draft, up, timer, running>>
      /\ \E pc \in {"tracing", "closing"} : GoesTo(t, i, pc)
  BY DEF Finishes, Traced, TraceFails
<1>2. /\ LiveOK' /\ Follows
      /\ \A u \in Tasks : Len(live'[u]) = Len(live[u])
      /\ \A j \in 1 .. Len(live'[t]) : live'[t][j].pc # "working"
  BY <1>1, GoesToFollows
<1>3. /\ running' = {u \in Tasks : live'[u] # <<>>} /\ OneRunPerTask'
      /\ \A u \in Tasks : \A j \in DOMAIN live'[u] : live'[u][j] \in Runs
  BY <1>1, <1>2, RunningKept
<1>4. /\ file \in [Tasks -> Rows] /\ rev \in [Tasks -> Nat]
      /\ spent \in [Tasks -> SUBSET Nat] /\ now \in Nat /\ live \in [Tasks -> Seq(Runs)]
  BY DEF IInv, TypeOK, LiveOK, Times
<1>5. \/ spent' = spent
      \/ spent' = [spent EXCEPT ![t] = @ \cup {live[t][i].slot}] /\ live[t][i].slot # Never
  BY DEF Finishes, Traced, TraceFails
<1>6. live[t][i].slot \in 0 .. now
  BY <1>4 DEF IInv, RunsArePast
<1>7. /\ \A u \in Tasks \ {t} : spent'[u] = spent[u]
      /\ spent' \in [Tasks -> SUBSET Nat] /\ SpentIsPast'
      /\ \A u \in Tasks : \A x \in spent'[u] : x \in Nat \ {Never}
  <2>1. \A u \in Tasks : spent[u] \subseteq 1 .. now
    BY DEF IInv, SpentIsPast
  <2>2. \A x \in 1 .. now : x \in Nat \ {Never}
    BY <1>4 DEF Never
  <2>3. CASE spent' = spent
    BY <2>1, <2>2, <2>3, <1>1, <1>4 DEF SpentIsPast
  <2>4. CASE spent' # spent
    <3>1. spent' = [spent EXCEPT ![t] = @ \cup {live[t][i].slot}] /\ live[t][i].slot \in 1 .. now
      BY <2>4, <1>4, <1>5, <1>6 DEF Never
    <3>2. /\ spent'[t] = spent[t] \cup {live[t][i].slot}
          /\ \A u \in Tasks \ {t} : spent'[u] = spent[u]
      BY <3>1, <1>4
    <3>3. \A u \in Tasks : spent'[u] \subseteq 1 .. now
      BY <2>1, <3>1, <3>2
    <3>4. spent' \in [Tasks -> SUBSET Nat]
      <4>1. 1 .. now \subseteq Nat
        BY <1>4
      <4> QED BY <3>1, <3>3, <4>1, <1>4
    <3> QED BY <2>2, <3>2, <3>3, <3>4, <1>1 DEF SpentIsPast
  <2> QED BY <2>3, <2>4
<1>8. OncePerSlot' /\ RunsArePast'
  <2>1. \A u \in Tasks :
           \/ spent'[u] = {}
           \/ /\ rev'[u] = rev[u]
              /\ \/ spent'[u] = spent[u]
                 \/ \A j \in 1 .. Len(live'[u]) : live'[u][j].pc # "working"
    BY <1>1, <1>2, <1>7
  <2>2. now' \in Nat /\ now' >= now
    BY <1>1, <1>4
  <2> QED BY <1>2, <2>1, <2>2, FollowKeeps
<1>9. FileOK'
  <2>1. ASSUME NEW how, ResultWritten(t, how)
        PROVE  FileOK'
    <3>1. file' \in [Tasks -> Rows] /\ faults' = faults /\ ManualIsNever' /\ GoneIsBlank' /\ NextInReach'
      BY <1>1, <2>1, ResultRows
    <3>2. \A u \in Tasks \ {t} : file'[u].next \notin spent'[u]
      BY <1>1, <2>1, ResultRows, <1>7 DEF IInv, NextIsFresh
    <3>3. file'[t].next \notin spent'[t]
      <4>1. spent'[t] \subseteq 1 .. now
        BY <1>7, <1>1 DEF SpentIsPast
      <4>2. CASE file[t].there
        <5>1. file'[t].next = Never \/ file'[t].next > now
          BY <1>1, <2>1, <4>2, ResultRows
        <5> QED BY <4>1, <5>1, <1>4 DEF Never
      <4>3. CASE ~file[t].there
        <5>1. file'[t] = file[t]
          BY <1>1, <2>1, <4>3, ResultRows
        <5>2. file[t].next = Never
          BY <4>3 DEF IInv, GoneIsBlank
        <5> QED BY <4>1, <5>1, <5>2, <1>4 DEF Never
      <4> QED BY <4>2, <4>3
    <3> QED BY <3>1, <3>2, <3>3 DEF NextIsFresh, FileOK, IInv, TypeOK
  <2>2. AsFile(file) /\ AsFile(SwitchedOff({t}))
    BY <1>4, OffRows DEF AsFile
  <2>3. CASE ResultLost(t) /\ spent' = spent
    BY <1>1, <2>2, <2>3, WriteKeeps DEF ResultLost
  <2>4. CASE spent' = spent /\ (Lands(file) \/ Lands(SwitchedOff({t})))
    BY <1>1, <2>2, <2>4, WriteKeeps
  <2> QED BY <2>1, <2>3, <2>4, RunWrites
<1>10. TypeOK'
  BY <1>1, <1>3, <1>7, <1>9 DEF IInv, TypeOK, FileOK
<1> QED BY <1>2, <1>3, <1>7, <1>8, <1>9, <1>10 DEF IInv, FileOK

\* A run that has closed its checkpointer leaves the set of the running ones.
LEMMA ClosedStep ==
  ASSUME IInv, NEW t \in Tasks, NEW i \in DOMAIN live[t], Closed(t, i)
  PROVE  IInv'
<1>1. /\ live \in [Tasks -> Seq(Runs)] /\ Len(live[t]) <= 1 /\ i \in 1 .. Len(live[t])
      /\ now \in Nat
  BY DEF IInv, LiveOK, OneRunPerTask, TypeOK, Times
<1>2. live' = [live EXCEPT ![t] = <<>>]
  <2>1. \A n \in Nat : i \in 1 .. n /\ n <= 1 => n = 1
    OBVIOUS
  <2>2. Len(live[t]) \in Nat /\ live[t] \in Seq(Runs)
    BY <1>1, LenProperties
  <2>3. Len(live[t]) = 1
    BY <1>1, <2>1, <2>2, Zenon
  <2>4. Without(live[t], i) = <<>>
    BY <2>2, <2>3, WithoutOnly
  <2> QED BY <2>4 DEF Closed
<1>3. DOMAIN (<<>>) = {} /\ Len(<<>>) = 0 /\ <<>> \in Seq(Runs) /\ 1 .. 0 = {} /\ 0 <= 1
  OBVIOUS
<1>4. live'[t] = <<>> /\ \A u \in Tasks \ {t} : live'[u] = live[u]
  BY <1>1, <1>2
<1>5. LiveOK'
  BY <1>1, <1>2, <1>3 DEF LiveOK
<1>6. OneRunPerTask'
  <2>1. Len(live'[t]) <= 1
    BY <1>3, <1>4, Zenon
  <2> QED BY <1>4, <2>1 DEF IInv, OneRunPerTask
<1>7. Follows
  <2>1. \A u \in Tasks \ {t} : \A j \in 1 .. Len(live'[u]) : j \in 1 .. Len(live[u]) /\ live'[u][j] = live[u][j]
    BY <1>4
  <2>2. 1 .. Len(live'[t]) = {}
    BY <1>3, <1>4, Zenon
  <2> QED BY <2>1, <2>2 DEF Follows
<1>8. UNCHANGED <<now, file, faults, rev, spent, draft, up, timer>> /\ running' = running \ {t}
  BY DEF Closed, data
<1>9. OncePerSlot' /\ RunsArePast'
  BY <1>1, <1>5, <1>7, <1>8, FollowKeeps
<1>10. TypeOK'
  <2>1. running' = {u \in Tasks : live'[u] # <<>>}
    BY <1>4, <1>8 DEF IInv, TypeOK
  <2>2. \A u \in Tasks : \A j \in DOMAIN live'[u] : live'[u][j] \in Runs
    BY <1>3, <1>4 DEF IInv, TypeOK
  <2> QED BY <2>1, <2>2, <1>8 DEF IInv, TypeOK
<1> QED BY <1>5, <1>6, <1>8, <1>9, <1>10
        DEF IInv, ManualIsNever, GoneIsBlank, SpentIsPast, NextIsFresh, NextInReach

\* Cancel, Stop, Exit, Clock: the files stay as they are.
LEMMA QuietStep ==
  ASSUME IInv, LiveOK', Follows, OneRunPerTask', UNCHANGED data,
         running' = {t \in Tasks : live'[t] # <<>>},
         now' \in Times, now' >= now, draft' \subseteq Tasks,
         up' \in {"off", "starting", "on", "stopping"}, timer' = (up' = "on")
  PROVE  IInv'
<1>1. UNCHANGED <<file, faults, rev, spent>> /\ now \in Nat /\ now' \in Nat
  BY DEF data, IInv, TypeOK, Times
<1>2. OncePerSlot' /\ RunsArePast'
  BY <1>1, FollowKeeps
<1>3. \A t \in Tasks : \A i \in DOMAIN live'[t] : live'[t][i] \in Runs
  BY DEF LiveOK
<1>4. TypeOK'
  BY <1>1, <1>3 DEF IInv, TypeOK
<1>5. SpentIsPast'
  <2>1. 1 .. now \subseteq 1 .. now'
    BY <1>1
  <2> QED BY <1>1, <2>1 DEF IInv, SpentIsPast
<1>6. NextInReach'
  <2> SUFFICES ASSUME NEW t \in Tasks, file[t].freq \in {"interval", "daily"}
               PROVE  file[t].next <= ComputeNextRunAt(file[t].freq, file[t].at, now')
    BY <1>1 DEF NextInReach
  <2>1. file[t].next <= ComputeNextRunAt(file[t].freq, file[t].at, now)
    BY DEF IInv, NextInReach
  <2>2. ComputeNextRunAt(file[t].freq, file[t].at, now) <= ComputeNextRunAt(file[t].freq, file[t].at, now')
    BY <1>1, NextGrows
  <2>3. /\ file[t].next \in Nat /\ ComputeNextRunAt(file[t].freq, file[t].at, now) \in Nat
        /\ ComputeNextRunAt(file[t].freq, file[t].at, now') \in Nat
    BY <1>1, NextIsAhead DEF IInv, TypeOK, Rows
  <2> QED BY <2>1, <2>2, <2>3
<1> QED BY <1>1, <1>2, <1>4, <1>5, <1>6 DEF IInv, ManualIsNever, GoneIsBlank, NextIsFresh

\* Every step of the scheduler keeps the invariant.
LEMMA NextIInv == IInv /\ [Next]_vars => IInv'
<1> SUFFICES ASSUME IInv, [Next]_vars PROVE IInv'
  OBVIOUS
<1>1. /\ file \in [Tasks -> Rows] /\ draft \subseteq Tasks /\ now \in Times /\ now \in Nat
      /\ live \in [Tasks -> Seq(Runs)] /\ LiveOK /\ OneRunPerTask
      /\ up \in {"off", "starting", "on", "stopping"} /\ timer = (up = "on")
      /\ running = {t \in Tasks : live[t] # <<>>}
  BY DEF IInv, TypeOK, LiveOK, Times
<1>2. Gone \in Rows /\ Gone.next = Never /\ Gone.freq = "manual"
  BY DEF Gone, Rows, Never, Frequencies
<1>3. ASSUME NEW t \in Tasks, NEW enabled \in BOOLEAN, NEW freq \in Frequencies,
             NEW at \in Times \cup {Never}, EditLost \/ Upsert(t, enabled, freq, at), draft' \subseteq Tasks,
             UNCHANGED <<now, up, timer, running, live>>
      PROVE  IInv'
  <2> DEFINE row == [there |-> TRUE, enabled |-> enabled, freq |-> freq, at |-> at,
                     next |-> ComputeNextRunAt(freq, at, now)]
  <2>1. EditLost \/ Edited(t, row)
    BY <1>3 DEF Upsert
  <2>2. /\ ComputeNextRunAt(freq, at, now) \in Nat
        /\ freq = "manual" => ComputeNextRunAt(freq, at, now) = Never
    BY <1>1, NextIsAhead
  <2>3. /\ row \in Rows /\ (row.freq = "manual" \/ ~row.there => row.next = Never)
        /\ row.next <= ComputeNextRunAt(row.freq, row.at, now)
    BY <2>2 DEF Rows
  <2> HIDE DEF row
  <2> QED BY <1>3, <2>1, <2>3, EditStep
<1>4. ASSUME Ticks, UNCHANGED <<now, rev, spent, draft>>, up' = "on"
      PROVE  IInv'
  <2>1. \A ts \in SUBSET Due : ts \in SUBSET (Tasks \ running) /\ \A t \in ts : file[t].next \in 1 .. now
    BY <1>1 DEF Due, Never, Rows
  <2>2. Late \subseteq Due
    BY DEF Late
  <2>3. PICK ts \in SUBSET Due, off \in SUBSET Late :
               Starts(ts, TRUE) /\ (Lands(SwitchedOff(off)) \/ Throws(SwitchedOff(off)))
    <3>1. CASE Starts(Due \ Late, TRUE) /\ Lands(SwitchedOff(Late))
      BY <3>1
    <3>2. CASE TickThrows
      <4>1. PICK done \in SUBSET Due : Starts(done \ Late, TRUE) /\ Throws(SwitchedOff(done \cap Late))
        BY <2>2, <3>2 DEF TickThrows
      <4> QED BY <4>1
    <3> QED BY <1>4, <3>1, <3>2 DEF Ticks
  <2>4. FileOK'
    BY <1>4, <2>3, OffRows, WriteKeeps
  <2>5. timer' = TRUE
    BY <1>4 DEF Ticks
  <2> HIDE DEF Due
  <2> QED BY <1>4, <2>1, <2>3, <2>4, <2>5, StartStep
<1>5. ASSUME NEW ts, live' = [t \in Tasks |-> IF t \in ts THEN Abort(live[t]) ELSE live[t]],
             UNCHANGED <<now, data, draft, running>>,
             up' \in {"off", "starting", "on", "stopping"}, timer' = (up' = "on")
      PROVE  IInv'
  <2>1. LiveOK' /\ Follows /\ \A u \in Tasks : Len(live'[u]) = Len(live[u])
    BY <1>5, AbortFollows
  <2>2. running' = {t \in Tasks : live'[t] # <<>>} /\ OneRunPerTask'
    BY <1>5, <2>1, RunningKept
  <2> QED BY <1>1, <1>5, <2>1, <2>2, QuietStep
<1>6. CASE Tick
  BY <1>1, <1>4, <1>6 DEF Tick
<1>7. CASE Boot
  BY <1>4, <1>7 DEF Boot
<1>15. CASE Launch
  <2>1. up' = "starting" /\ timer = FALSE /\ UNCHANGED <<now, data, draft, timer, running, live>>
    BY <1>1, <1>15 DEF Launch
  <2>2. up' \in {"off", "starting", "on", "stopping"} /\ timer' = (up' = "on")
    BY <2>1
  <2>3. LiveOK' /\ OneRunPerTask' /\ running' = {t \in Tasks : live'[t] # <<>>}
    BY <1>1, <2>1 DEF LiveOK, OneRunPerTask
  <2>4. Follows
    BY <2>1 DEF Follows
  <2>5. now' \in Times /\ now' >= now /\ draft' \subseteq Tasks
    BY <1>1, <2>1
  <2> QED BY <2>1, <2>2, <2>3, <2>4, <2>5, QuietStep
<1>8. CASE Stop
  <2>1. live' = [t \in Tasks |-> IF t \in Tasks THEN Abort(live[t]) ELSE live[t]]
    BY <1>8 DEF Stop
  <2> QED BY <2>1, <1>5, <1>8 DEF Stop
<1>9. CASE Exit
  <2>1. DOMAIN (<<>>) = {} /\ Len(<<>>) = 0 /\ <<>> \in Seq(Runs) /\ 1 .. 0 = {} /\ 0 <= 1
    OBVIOUS
  <2>2. \A t \in Tasks : live'[t] = <<>>
    BY <1>9 DEF Exit
  <2>3. LiveOK'
    BY <1>9, <2>1 DEF Exit, LiveOK
  <2>4. OneRunPerTask'
    BY <2>1, <2>2, Zenon DEF OneRunPerTask
  <2>5. \A t \in Tasks : 1 .. Len(live'[t]) = {}
    BY <2>1, <2>2, Zenon
  <2>6. Follows
    BY <2>5 DEF Follows
  <2>7. running' = {t \in Tasks : live'[t] # <<>>}
    BY <1>9, <2>2 DEF Exit
  <2>8. now' \in Times /\ now' >= now /\ draft' \subseteq Tasks /\ UNCHANGED data
    BY <1>1, <1>2, <1>9 DEF Exit
  <2>9. up' = "off" /\ timer' = FALSE
    BY <1>9 DEF Exit
  <2> QED BY <2>3, <2>4, <2>6, <2>7, <2>8, <2>9, QuietStep
<1>10. CASE Clock \/ UNCHANGED vars \/ \E t \in Tasks : ToolReads(t)
  <2>1. UNCHANGED <<data, live, running, up, timer>>
    BY <1>10 DEF Clock, vars, service, ToolReads
  <2>2. now' \in Times /\ now' >= now
    BY <1>1, <1>10 DEF Clock, vars, Times, ToolReads
  <2>3. draft' \subseteq Tasks
    BY <1>1, <1>10 DEF Clock, vars, ToolReads
  <2>4. LiveOK' /\ OneRunPerTask' /\ running' = {t \in Tasks : live'[t] # <<>>}
    BY <1>1, <2>1 DEF LiveOK, OneRunPerTask
  <2>5. Follows
    BY <2>1 DEF Follows
  <2> QED BY <1>1, <2>1, <2>2, <2>3, <2>4, <2>5, QuietStep
<1>11. ASSUME NEW t \in Tasks, Save(t) \/ ToolWrites(t)
       PROVE  IInv'
  <2>1. \A freq \in Frequencies : Moments(freq) \subseteq Times \cup {Never}
    BY DEF Moments
  <2>0. \E enabled \in BOOLEAN, freq \in Frequencies, at \in Times \cup {Never} :
          EditLost \/ Upsert(t, enabled, freq, at)
    <3>1. CASE EditLost
      BY <3>1 DEF Frequencies
    <3>2. CASE ~EditLost
      BY <1>11, <2>1, <3>2 DEF Save, ToolWrites
    <3> QED BY <3>1, <3>2
  <2>2. draft' \subseteq Tasks /\ UNCHANGED <<now, up, timer, running, live>>
    BY <1>1, <1>11 DEF Save, ToolWrites, service
  <2> QED BY <2>0, <2>2, <1>3
<1>12. ASSUME NEW t \in Tasks, Enable(t) \/ Disable(t) \/ Delete(t)
       PROVE  IInv'
  <2>0. /\ file[t] \in Rows /\ file[t].freq \in Frequencies /\ file[t].at \in Times \cup {Never}
        /\ file[t].at \in Nat /\ file[t].next \in Nat
        /\ (file[t].freq = "manual" => file[t].next = Never)
        /\ (~file[t].there => file[t].next = Never)
        /\ file[t].freq \in {"interval", "daily"} => file[t].next <= ComputeNextRunAt(file[t].freq, file[t].at, now)
    BY <1>1 DEF Rows, Times, Never, IInv, ManualIsNever, GoneIsBlank, NextInReach
  <2>1. CASE Enable(t)
    <3> DEFINE n == IF file[t].freq = "manual" THEN file[t].next
                    ELSE IF file[t].freq = "once" THEN (IF file[t].at > now THEN file[t].at ELSE Never)
                    ELSE ComputeNextRunAt(file[t].freq, file[t].at, now)
               row == [file[t] EXCEPT !.enabled = TRUE, !.next = n]
    <3>1. (EditLost \/ Edited(t, row)) /\ file[t].there
      BY <2>1 DEF Enable
    <3>2. /\ n \in Nat /\ (file[t].freq = "manual" => n = Never)
          /\ file[t].freq \in {"interval", "daily"} => n <= ComputeNextRunAt(file[t].freq, file[t].at, now)
      BY <2>0, <1>1, NextIsAhead DEF Never
    <3> HIDE DEF n
    <3>3. row \in Rows /\ row.freq = file[t].freq /\ row.next = n /\ row.there = file[t].there
          /\ row.at = file[t].at
      BY <2>0, <3>2 DEF Rows
    <3> HIDE DEF row
    <3> QED BY <1>1, <2>1, <3>1, <3>2, <3>3, EditStep DEF Enable, service
  <2>2. CASE Disable(t)
    <3> DEFINE row == [file[t] EXCEPT !.enabled = FALSE]
    <3>1. EditLost \/ Edited(t, row)
      BY <2>2 DEF Disable
    <3>2. row \in Rows /\ row.freq = file[t].freq /\ row.next = file[t].next /\ row.there = file[t].there
          /\ row.at = file[t].at
      BY <2>0 DEF Rows
    <3> HIDE DEF row
    <3> QED BY <1>1, <2>0, <2>2, <3>1, <3>2, EditStep DEF Disable, service
  <2>3. CASE Delete(t)
    <3>1. EditLost \/ Edited(t, Gone)
      BY <2>3 DEF Delete
    <3> QED BY <1>1, <1>2, <2>3, <3>1, EditStep DEF Delete
  <2> QED BY <1>12, <2>1, <2>2, <2>3
<1>13. ASSUME NEW t \in Tasks, RunNow(t)
       PROVE  IInv'
  <2>1. /\ {t} \in SUBSET (Tasks \ running) /\ Starts({t}, FALSE) /\ up' = up /\ timer' = (up' = "on")
        /\ UNCHANGED <<now, file, faults, rev, spent, draft>>
    BY <1>1, <1>13 DEF RunNow, data
  <2>2. FileOK'
    <3>1. AsFile(file) /\ Lands(file)
      BY <1>1, <2>1 DEF AsFile, Lands
    <3> QED BY <2>1, <3>1, WriteKeeps
  <2> QED BY <1>1, <2>1, <2>2, StartStep
<1>14. ASSUME NEW t \in Tasks, Cancel(t)
       PROVE  IInv'
  <2>1. live' = [u \in Tasks |-> IF u \in {t} THEN Abort(live[u]) ELSE live[u]]
    BY <1>1, <1>14 DEF Cancel
  <2> QED BY <2>1, <1>1, <1>5, <1>14 DEF Cancel
<1> QED BY <1>6, <1>7, <1>8, <1>9, <1>10, <1>11, <1>12, <1>13, <1>14, <1>15, RunStep, ClosedStep DEF Next

\* The running marks are exact, runs of a task do not overlap, and none repeats
\* a moment that was served (SchedulerInv).
THEOREM SchedulerCorrect == Spec => []SchedulerInv
<1>1. IInv => SchedulerInv
  BY DEF IInv, SchedulerInv
<1> QED BY <1>1, InitIInv, NextIInv, PTL DEF Spec

-----------------------------------------------------------------------------
\* What a step may do to the rows: an edit of one task, a give-up, a trace, a result, or a
\* write that fails.
LEMMA RowSteps ==
  ASSUME IInv, [Next]_vars
  PROVE  \/ \E t \in Tasks : \E row : /\ Edited(t, row)
                                      /\ file[t].there \/ rev[t] = 0 \/ t \in draft
         \/ rev' = rev /\ file' = file
         \/ rev' = rev /\ Throws(file)
         \/ rev' = rev /\ \E off \in SUBSET Late : Lands(SwitchedOff(off)) \/ Throws(SwitchedOff(off))
         \/ \E t \in Tasks : \E i \in DOMAIN live[t] :
              rev' = rev /\ Traced(t, i) /\ live[t][i].once /\ Lands(SwitchedOff({t}))
         \/ \E t \in Tasks : \E i \in DOMAIN live[t] : \E how :
              /\ rev' = rev /\ now' = now /\ (Finishes(t, i) \/ TraceFails(t, i))
              /\ ResultWritten(t, how)
<1>1. CASE \E t \in Tasks : Save(t) \/ ToolWrites(t) \/ Enable(t) \/ Disable(t) \/ Delete(t)
  BY <1>1 DEF Save, ToolWrites, Enable, Disable, Delete, Upsert, EditLost
<1>2. CASE Tick \/ Boot
  <2>1. rev' = rev /\ Ticks
    BY <1>2 DEF Tick, Boot
  <2>2. CASE TickThrows
    BY <2>1, <2>2 DEF TickThrows
  <2>3. CASE Lands(SwitchedOff(Late))
    BY <2>1, <2>3
  <2> QED BY <2>1, <2>2, <2>3 DEF Ticks
<1>3. CASE Launch \/ Stop \/ Exit \/ Clock \/ UNCHANGED vars
           \/ \E t \in Tasks : ToolReads(t) \/ RunNow(t) \/ Cancel(t) \/ \E i \in DOMAIN live[t] : Closed(t, i)
  BY <1>3 DEF Launch, Stop, Exit, Clock, vars, data, ToolReads, RunNow, Cancel, Closed
<1>4. ASSUME NEW t \in Tasks, NEW i \in DOMAIN live[t], Finishes(t, i) \/ TraceFails(t, i) \/ Traced(t, i)
      PROVE  \/ rev' = rev /\ file' = file
             \/ rev' = rev /\ Throws(file)
             \/ rev' = rev /\ Traced(t, i) /\ live[t][i].once /\ Lands(SwitchedOff({t}))
             \/ \E how : /\ rev' = rev /\ now' = now /\ (Finishes(t, i) \/ TraceFails(t, i))
                         /\ ResultWritten(t, how)
  <2>1. rev' = rev /\ now' = now
    BY <1>4 DEF Finishes, TraceFails, Traced
  <2> QED BY <1>4, <2>1, RunWrites DEF ResultLost, Lands
<1> QED BY <1>1, <1>2, <1>3, <1>4 DEF Next

\* A write that throws leaves the rows it found, or none at all.
LEMMA ThrowLeaves ==
  ASSUME IInv, NEW rows, Throws(rows)
  PROVE  file' = rows \/ (Tears /\ \A u \in Tasks : ~file'[u].there)
<1>1. faults' > faults
  BY DEF IInv, TypeOK, Throws
<1>2. CASE file' = Torn
  BY <1>1, <1>2 DEF Torn, Gone, Tears
<1> QED BY <1>2 DEF Throws

\* No result, tick, restart or failing write brings a deleted task back; an update of
\* the agent's tool that had read it before can (DeletionStands).
THEOREM DeletedStaysDeleted == Spec => DeletionStands
<1> DEFINE Stands == \A t \in Tasks : (rev[t] > 0 /\ ~file[t].there /\ file'[t].there) => t \in draft
<1>1. IInv /\ [Next]_vars => Stands
  <2> SUFFICES ASSUME IInv, [Next]_vars, NEW t \in Tasks, rev[t] > 0, ~file[t].there, file'[t].there
               PROVE  t \in draft
    OBVIOUS
  <2>1. file \in [Tasks -> Rows] /\ rev[t] # 0
    BY DEF IInv, TypeOK
  <2>2. ASSUME NEW u \in Tasks, NEW row, Edited(u, row),
               file[u].there \/ rev[u] = 0 \/ u \in draft
        PROVE  t \in draft
    <3>1. u = t
      BY <2>1, <2>2 DEF Edited, Lands
    <3> QED BY <2>1, <2>2, <3>1
  <2>3. file' # file /\ ~Throws(file)
    BY ThrowLeaves
  <2>4. ASSUME NEW ts, Lands(SwitchedOff(ts)) \/ Throws(SwitchedOff(ts)) PROVE FALSE
    <3>1. file' = SwitchedOff(ts)
      BY <2>4, ThrowLeaves DEF Lands
    <3> QED BY <3>1, OffRows DEF AsFile
  <2>5. ASSUME NEW u \in Tasks, NEW how, ResultWritten(u, how), now' = now PROVE FALSE
    BY <2>5, ResultRows
  <2> QED BY <2>2, <2>3, <2>4, <2>5, RowSteps
<1>2. IInv /\ [Next]_vars => [Stands]_vars
  BY <1>1
<1> QED BY <1>2, InitIInv, NextIInv, PTL DEF Spec, DeletionStands

\* Until it is edited, a task stays armed and its moment is not moved back, unless a write
\* tears the file, a once task is too late, or a run ends that concerns a once task (StaysArmed).
THEOREM ArmedUntilServed == Spec => StaysArmed
<1> DEFINE EndsOnce(t) == \E i \in DOMAIN live[t] : /\ live[t][i].pc \in {"working", "tracing"}
                                                    /\ live'[t][i].pc # live[t][i].pc
                                                    /\ file[t].freq = "once" \/ live[t][i].once
           Kept(t) == \/ Armed(t)' /\ file'[t].next >= file[t].next
                      \/ Tears
                      \/ file[t].freq = "once" /\ now > file[t].next + Expire
                      \/ EndsOnce(t)
           Stays == \A t \in Tasks : (Armed(t) /\ rev'[t] = rev[t]) => Kept(t)
<1>1. ASSUME IInv, [Next]_vars, NEW t \in Tasks, Armed(t), rev'[t] = rev[t]
      PROVE  Kept(t)
  <2>1. /\ file \in [Tasks -> Rows] /\ rev \in [Tasks -> Nat] /\ now \in Nat
        /\ file[t].next \in Nat /\ file[t].freq \in Frequencies /\ file[t].there
    BY <1>1 DEF IInv, TypeOK, Times, Rows, Armed
  <2>2. ASSUME file'[t] = file[t] PROVE Kept(t)
    <3>1. file'[t].next >= file[t].next
      BY <2>1, <2>2
    <3> QED BY <1>1, <2>2, <3>1 DEF Armed
  <2>3. ASSUME NEW u \in Tasks, NEW row, Edited(u, row) PROVE Kept(t)
    <3>1. u # t
      BY <1>1, <2>1, <2>3 DEF Edited
    <3>2. file'[t] = file[t]
      BY <2>1, <2>3, <3>1 DEF Edited, Lands
    <3> QED BY <2>2, <3>2
  <2>4. ASSUME Throws(file) PROVE Kept(t)
    BY <1>1, <2>2, <2>4, ThrowLeaves
  <2>5. ASSUME NEW off \in SUBSET Late, Lands(SwitchedOff(off)) \/ Throws(SwitchedOff(off))
        PROVE  Kept(t)
    <3>1. file' = SwitchedOff(off) \/ Tears
      BY <1>1, <2>5, ThrowLeaves DEF Lands
    <3>2. CASE file' = SwitchedOff(off) /\ t \notin off
      BY <1>1, <2>2, <3>2, OffRows
    <3>3. CASE t \in off
      BY <2>1, <3>3 DEF Late, Due
    <3> QED BY <3>1, <3>2, <3>3
  <2>6. ASSUME NEW u \in Tasks, NEW i \in DOMAIN live[u], Traced(u, i), live[u][i].once,
               Lands(SwitchedOff({u}))
        PROVE  Kept(t)
    <3>1. CASE u # t
      <4>1. file'[t] = file[t]
        BY <1>1, <2>6, <3>1, OffRows DEF Lands
      <4> QED BY <2>2, <4>1
    <3>2. CASE u = t
      <4>1. live[t][i].pc = "tracing" /\ GoesTo(t, i, "closing") /\ i \in DOMAIN live[t] /\ live[t][i].once
        BY <2>6, <3>2 DEF Traced, At
      <4>2. live'[t][i].pc = "closing"
        BY <1>1, <4>1, GoesToFollows
      <4>3. EndsOnce(t)
        BY <4>1, <4>2
      <4> QED BY <4>3
    <3> QED BY <3>1, <3>2
  <2>7. ASSUME NEW u \in Tasks, NEW i \in DOMAIN live[u], NEW how,
               Finishes(u, i) \/ TraceFails(u, i), ResultWritten(u, how), now' = now
        PROVE  Kept(t)
    <3>1. CASE u # t
      BY <1>1, <2>2, <2>7, <3>1, ResultRows
    <3>2. CASE u = t /\ file[t].freq \in {"interval", "daily"}
      <4>1. /\ file'[t].next > now /\ file'[t].next >= file[t].next
            /\ file'[t].there = file[t].there /\ file'[t].enabled = file[t].enabled
        BY <1>1, <2>1, <2>7, <3>2, ResultRows
      <4>2. file'[t].next # Never
        BY <2>1, <4>1 DEF Never
      <4> QED BY <1>1, <4>1, <4>2 DEF Armed
    <3>3. CASE u = t /\ file[t].freq = "once"
      <4>1. i \in DOMAIN live[t] /\ live[t][i].pc \in {"working", "tracing"}
        BY <2>7, <3>3 DEF Finishes, TraceFails, At
      <4>2. \E pc \in {"tracing", "closing"} : GoesTo(t, i, pc) /\ pc # live[t][i].pc
        BY <2>7, <3>3 DEF Finishes, TraceFails, At
      <4>3. live'[t][i].pc # live[t][i].pc
        BY <1>1, <4>1, <4>2, GoesToFollows
      <4>4. EndsOnce(t)
        BY <3>3, <4>1, <4>3
      <4> QED BY <4>4
    <3>4. file[t].freq # "manual"
      BY <1>1 DEF Armed, IInv, ManualIsNever
    <3> QED BY <2>1, <3>1, <3>2, <3>3, <3>4 DEF Frequencies
  <2>8. CASE \E u \in Tasks : \E row : Edited(u, row)
    BY <2>3, <2>8
  <2>9. CASE file' = file \/ Throws(file)
    BY <2>2, <2>4, <2>9
  <2>10. CASE \E off \in SUBSET Late : Lands(SwitchedOff(off)) \/ Throws(SwitchedOff(off))
    BY <2>5, <2>10
  <2>11. CASE \E u \in Tasks : \E i \in DOMAIN live[u] :
                Traced(u, i) /\ live[u][i].once /\ Lands(SwitchedOff({u}))
    BY <2>6, <2>11
  <2>12. CASE \E u \in Tasks : \E i \in DOMAIN live[u] : \E how :
                (Finishes(u, i) \/ TraceFails(u, i)) /\ ResultWritten(u, how) /\ now' = now
    BY <2>7, <2>12
  <2> HIDE DEF Kept
  <2> QED BY <1>1, <2>8, <2>9, <2>10, <2>11, <2>12, RowSteps
<1>2. IInv /\ [Next]_vars => Stays
  BY <1>1
<1>3. IInv /\ [Next]_vars => [Stays]_vars
  BY <1>2
<1> QED BY <1>3, InitIInv, NextIInv, PTL DEF Spec, StaysArmed
=============================================================================
