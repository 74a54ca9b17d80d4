----------------------------- MODULE MessageQueue -----------------------------
(***************************************************************************)
(* Steering a running agent turn: agent/current-run-message-queue.ts, with  *)
(* the IPC handlers of ipc/agent.ts that queue, delete, replace, resume and *)
(* cancel, and the injection notifier of agent/runtime.ts.                  *)
(*                                                                          *)
(* One thread is modelled: every map of the code is keyed by thread.  A     *)
(* physical run is a token, an AbortController and a graph.  Invoke clears  *)
(* the queue and takes it over; resume and interrupt take it over with its  *)
(* contents.  The graph drains the queue at its beforeModel and afterModel  *)
(* hooks, awaits the durable notifier and only then records the ids as      *)
(* injected; during that await every handler may run.  An aborted graph may *)
(* outlive the run that replaced it.                                        *)
(*                                                                          *)
(* `era', `accepted' and `delivered' are history: the lifetime of a queue   *)
(* between two clears, the ids it accepted, what the model was given.       *)
(***************************************************************************)
EXTENDS Naturals, Sequences

CONSTANTS Runs,      \* physical run tokens, each used once
          Msgs,      \* message ids of the renderer's drafts
          MaxVer,    \* bound: how often a draft is (re)submitted
          None       \* no run

ASSUME QueueAssumption == MaxVer \in Nat /\ None \notin Runs

VARIABLES owner,       \* currentRunMessageQueueOwners
          queue,       \* currentRunMessageQueues
          injected,    \* injectedMessageIds
          withdrawn,   \* withdrawnMessageIds
          active,      \* activeRuns: the controller in charge
          starting,    \* the run inside the replacement critical section
          preparer,    \* currentRunMessagePreparers
          prep,        \* submissions waiting for the hooks of a run, in lock order
          phase,       \* life of a physical run
          batch,       \* drained messages whose notification is in flight
          transcript,  \* ids of user rows in thread_messages
          submitted,   \* how often a draft was submitted: its content's version
          era, accepted, delivered

vars == <<owner, queue, injected, withdrawn, active, starting, preparer, prep,
          phase, batch, transcript, submitted, era, accepted, delivered>>

Message == [id : Msgs, ver : 1..MaxVer, era : Nat]
Ids(q) == {q[i].id : i \in DOMAIN q}
Held(q) == {q[i] : i \in DOMAIN q}

Init == /\ owner = None /\ active = None /\ starting = None /\ preparer = None
        /\ queue = <<>> /\ injected = {} /\ withdrawn = {}
        /\ prep = [r \in Runs |-> <<>>]
        /\ phase = [r \in Runs |-> "new"]
        /\ batch = [r \in Runs |-> <<>>]
        /\ transcript = {} /\ submitted = [m \in Msgs |-> 0]
        /\ era = 0 /\ accepted = {} /\ delivered = {}

-----------------------------------------------------------------------------
\* clearCurrentRunMessageQueue, for the run that owns the queue or for none.
Clear == /\ queue' = <<>> /\ injected' = {} /\ withdrawn' = {}
         /\ era' = era + 1 /\ accepted' = {}

Abort(r) == IF r # None /\ phase[r] = "live"
              THEN [phase EXCEPT ![r] = "aborted"] ELSE phase

\* agent:invoke, up to the wait for the predecessor.
Invoke(r) ==
  /\ starting = None /\ phase[r] = "new"
  /\ starting' = r
  /\ preparer' = None
  /\ Clear
  /\ owner' = r
  /\ phase' = [Abort(active) EXCEPT ![r] = "starting"]
  /\ UNCHANGED <<active, prep, batch, transcript, submitted, delivered>>

\* agent:resume and agent:interrupt: ownership moves, the contents stay.
Resume(r) ==
  /\ starting = None /\ phase[r] = "new"
  /\ starting' = r
  /\ preparer' = None
  /\ owner' = r
  /\ phase' = [Abort(active) EXCEPT ![r] = "starting"]
  /\ UNCHANGED <<queue, injected, withdrawn, active, prep, batch, transcript,
                 submitted, era, accepted, delivered>>

\* The predecessor settled, or the wait for it timed out.
Publish(r) ==
  /\ starting = r
  /\ starting' = None
  /\ active' = r
  /\ phase' = [phase EXCEPT ![r] = "live"]
  /\ UNCHANGED <<owner, queue, injected, withdrawn, preparer, prep, batch,
                 transcript, submitted, era, accepted, delivered>>

\* The application began to shut down during the wait.
AbandonStart(r) ==
  /\ starting = r
  /\ starting' = None
  /\ phase' = [phase EXCEPT ![r] = "ended"]
  /\ Clear
  /\ owner' = None
  /\ UNCHANGED <<active, preparer, prep, batch, transcript, submitted, delivered>>

RegisterPreparer(r) ==
  /\ active = r /\ phase[r] = "live" /\ owner = r /\ preparer # r
  /\ preparer' = r
  /\ UNCHANGED <<owner, queue, injected, withdrawn, active, starting, prep, phase,
                 batch, transcript, submitted, era, accepted, delivered>>

\* agent:cancel: the controller stays in activeRuns until the run's finally.
Cancel ==
  /\ starting = None /\ active # None /\ phase[active] = "live"
  /\ phase' = Abort(active)
  /\ UNCHANGED <<owner, queue, injected, withdrawn, active, starting, preparer,
                 prep, batch, transcript, submitted, era, accepted, delivered>>

-----------------------------------------------------------------------------
\* agent:queueCurrentRunMessage, up to the preparation lock of the run.
Submit(m) ==
  /\ submitted[m] < MaxVer
  /\ active # None /\ phase[active] = "live" /\ preparer # None
  /\ submitted' = [submitted EXCEPT ![m] = @ + 1]
  /\ prep' = [prep EXCEPT ![preparer] = Append(@, [id |-> m, ver |-> submitted[m] + 1])]
  /\ UNCHANGED <<owner, queue, injected, withdrawn, active, starting, preparer,
                 phase, batch, transcript, era, accepted, delivered>>

Replaced(q, msg) == [i \in DOMAIN q |-> IF q[i].id = msg.id THEN msg ELSE q[i]]

\* queueCurrentRunMessage.
QueueMessage(msg) ==
  /\ msg.id \notin injected /\ msg.id \notin withdrawn
  /\ queue' = IF msg.id \in Ids(queue) THEN Replaced(queue, msg) ELSE Append(queue, msg)
  /\ accepted' = accepted \cup {msg.id}

\* The hooks let the submission through: everything is checked once more.
CommitPrepared(r) ==
  /\ prep[r] # <<>>
  /\ prep' = [prep EXCEPT ![r] = Tail(@)]
  /\ active = r /\ phase[r] = "live" /\ preparer = r /\ owner = r
  /\ LET msg == [id |-> Head(prep[r]).id, ver |-> Head(prep[r]).ver, era |-> era]
     IN QueueMessage(msg)
  /\ UNCHANGED <<owner, injected, withdrawn, active, starting, preparer, phase,
                 batch, transcript, submitted, era, delivered>>

\* A hook, or one of the checks after it, turned the submission down.
RejectPrepared(r) ==
  /\ prep[r] # <<>>
  /\ prep' = [prep EXCEPT ![r] = Tail(@)]
  /\ UNCHANGED <<owner, queue, injected, withdrawn, active, starting, preparer, phase,
                 batch, transcript, submitted, era, accepted, delivered>>

\* The queue filtered by id, as a recursive function that can be reasoned about.
Without(q, m) ==
  LET kept[i \in 0..Len(q)] == IF i = 0 THEN <<>>
                               ELSE IF q[i].id = m THEN kept[i - 1]
                               ELSE Append(kept[i - 1], q[i])
  IN kept[Len(q)]

\* agent:deleteCurrentRunQueuedMessage.
Delete(m) ==
  /\ active # None
  /\ withdrawn' = withdrawn \cup {m}
  /\ queue' = Without(queue, m)
  /\ UNCHANGED <<owner, injected, active, starting, preparer, prep, phase, batch,
                 transcript, submitted, era, accepted, delivered>>

-----------------------------------------------------------------------------
\* A hook of the graph drains the queue and starts the notifier, which writes
\* the user rows and awaits flushStrict.
Drain(r) ==
  /\ phase[r] \in {"live", "aborted", "ended"} /\ batch[r] = <<>> /\ queue # <<>>
  /\ owner = r
  /\ batch' = [batch EXCEPT ![r] = queue]
  /\ queue' = <<>>
  /\ transcript' = transcript \cup Ids(queue)
  /\ UNCHANGED <<owner, injected, withdrawn, active, starting, preparer, prep,
                 phase, submitted, era, accepted, delivered>>

\* The notifier throws before it has written a row (the transcript buffer cannot
\* be flushed, the anchor is unknown): the queue is restored and the graph fails.
DrainRefused(r) ==
  /\ phase[r] \in {"live", "aborted"} /\ batch[r] = <<>> /\ queue # <<>>
  /\ owner = r
  /\ phase' = [phase EXCEPT ![r] = "failed"]
  /\ UNCHANGED <<owner, queue, injected, withdrawn, active, starting, preparer, prep,
                 batch, transcript, submitted, era, accepted, delivered>>

\* NotifyDone as it must not be: the notifier does not look at the owner again.
NotifyDone_AnyOwner(r) ==
  /\ batch[r] # <<>>
  /\ injected' = injected \cup Ids(batch[r])
  /\ delivered' = delivered \cup Held(batch[r])
  /\ batch' = [batch EXCEPT ![r] = <<>>]
  /\ UNCHANGED <<owner, queue, withdrawn, active, starting, preparer, prep, phase,
                 transcript, submitted, era, accepted>>

\* flushStrict resolved and the run still owns the queue: the hook hands the
\* messages to the model.
NotifyDone(r) ==
  /\ batch[r] # <<>> /\ owner = r
  /\ injected' = injected \cup Ids(batch[r])
  /\ delivered' = delivered \cup Held(batch[r])
  /\ batch' = [batch EXCEPT ![r] = <<>>]
  /\ UNCHANGED <<owner, queue, withdrawn, active, starting, preparer, prep, phase,
                 transcript, submitted, era, accepted>>

\* NotifyFail as it must not be: the batch returns whoever owns the queue.
NotifyFail_AnyOwner(r) ==
  /\ batch[r] # <<>>
  /\ queue' = batch[r] \o queue
  /\ batch' = [batch EXCEPT ![r] = <<>>]
  /\ phase' = [phase EXCEPT ![r] = IF @ = "ended" THEN @ ELSE "failed"]
  /\ UNCHANGED <<owner, injected, withdrawn, active, starting, preparer, prep,
                 transcript, submitted, era, accepted, delivered>>

\* NotifyFail as it must not be: the batch replaces what arrived meanwhile.
NotifyFail_Overwrite(r) ==
  /\ batch[r] # <<>>
  /\ queue' = IF owner = r THEN batch[r] ELSE queue
  /\ batch' = [batch EXCEPT ![r] = <<>>]
  /\ phase' = [phase EXCEPT ![r] = IF @ = "ended" THEN @ ELSE "failed"]
  /\ UNCHANGED <<owner, injected, withdrawn, active, starting, preparer, prep,
                 transcript, submitted, era, accepted, delivered>>

\* Persistence failed, or the owner changed meanwhile: the hook throws and the
\* graph ends; only the owner puts its batch back.
NotifyFail(r) ==
  /\ batch[r] # <<>>
  /\ queue' = IF owner = r THEN batch[r] \o queue ELSE queue
  /\ batch' = [batch EXCEPT ![r] = <<>>]
  /\ phase' = [phase EXCEPT ![r] = IF @ = "ended" THEN @ ELSE "failed"]
  /\ UNCHANGED <<owner, injected, withdrawn, active, starting, preparer, prep,
                 transcript, submitted, era, accepted, delivered>>

\* Finish as it must not be: the cleanup forgets to compare the run token.
Finish_ClearsAll(r) ==
  /\ phase[r] \in {"live", "aborted", "failed"}
  /\ phase[r] = "live" => batch[r] = <<>>
  /\ phase' = [phase EXCEPT ![r] = "ended"]
  /\ preparer' = IF preparer = r THEN None ELSE preparer
  /\ active' = IF active = r THEN None ELSE active
  /\ Clear /\ owner' = None
  /\ UNCHANGED <<starting, prep, batch, transcript, submitted, delivered>>

\* The finally block of a run.  The stream of an aborted run may reject while
\* a hook of its graph still awaits the notifier.
Finish(r) ==
  /\ phase[r] \in {"live", "aborted", "failed"}
  /\ phase[r] = "live" => batch[r] = <<>>
  /\ phase' = [phase EXCEPT ![r] = "ended"]
  /\ preparer' = IF preparer = r THEN None ELSE preparer
  /\ active' = IF active = r THEN None ELSE active
  /\ IF owner = r
       THEN Clear /\ owner' = None
       ELSE UNCHANGED <<owner, queue, injected, withdrawn, era, accepted>>
  /\ UNCHANGED <<starting, prep, batch, transcript, submitted, delivered>>

Next ==
  \/ \E r \in Runs : \/ Invoke(r) \/ Resume(r) \/ Publish(r) \/ AbandonStart(r)
                     \/ RegisterPreparer(r) \/ CommitPrepared(r) \/ RejectPrepared(r)
                     \/ Drain(r) \/ DrainRefused(r) \/ NotifyDone(r) \/ NotifyFail(r) \/ Finish(r)
  \/ \E m \in Msgs : Submit(m) \/ Delete(m)
  \/ Cancel

Spec == Init /\ [][Next]_vars

-----------------------------------------------------------------------------
\* The types of the maps; the controller and the preparer in charge belong to a
\* run that has started and has not run its finally block.
TypeOK ==
  /\ owner \in Runs \cup {None} /\ active \in Runs \cup {None}
  /\ starting \in Runs \cup {None} /\ preparer \in Runs \cup {None}
  /\ queue \in Seq(Message) /\ batch \in [Runs -> Seq(Message)]
  /\ injected \subseteq Msgs /\ withdrawn \subseteq Msgs
  /\ prep \in [Runs -> Seq([id : Msgs, ver : 1..MaxVer])]
  /\ phase \in [Runs -> {"new", "starting", "live", "aborted", "failed", "ended"}]
  /\ transcript \subseteq Msgs /\ submitted \in [Msgs -> 0..MaxVer]
  /\ era \in Nat /\ accepted \subseteq Msgs /\ delivered \subseteq Message
  /\ \A r \in Runs : r \in {active, preparer} => phase[r] \in {"live", "aborted", "failed"}

\* A run started by invoke never inherits the steering of the run it replaced:
\* whatever is queued was accepted since the last clear, even though an aborted
\* graph may come back with its batch at any time.
QueueOfThisEra == \A i \in DOMAIN queue : queue[i].era = era

\* An accepted message is never lost within its run and the runs that resume
\* it: it is queued, on its way to the model, in the transcript, or withdrawn.
NothingLost ==
  \A m \in accepted : \/ m \in Ids(queue)
                      \/ \E r \in Runs : m \in Ids(batch[r])
                      \/ m \in transcript
                      \/ m \in withdrawn

\* Only the owner's graph takes messages out of the queue for the model, and a
\* message reaches the model only while its queue's lifetime lasts.
DeliveredInItsEra ==
  [][\A d \in delivered' \ delivered : d.era = era]_vars

\* A physical run that no longer owns the queue leaves no trace on it: neither
\* its graph's hooks nor its finally block change what the owner sees.
ForeignRunsHarmless ==
  [][\A r \in Runs :
       LET Moves == batch'[r] # batch[r]
           Ends == phase[r] # "ended" /\ phase'[r] = "ended"
       IN owner # r /\ (Moves \/ Ends) => UNCHANGED <<owner, queue, injected, withdrawn>>]_vars

\* Without an owner there is no queue: a message is only ever held for a run that can drain it.
NoOwnerNoQueue == owner = None => queue = <<>>

\* The queue belongs to the run that can drain it: without an owner it is empty,
\* and with one it holds nothing from before the last clear, whichever replaced
\* run's preparer, notifier or finally block comes late.
QueueInv == TypeOK /\ NoOwnerNoQueue /\ QueueOfThisEra
=============================================================================
