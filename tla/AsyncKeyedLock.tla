---------------------------- MODULE AsyncKeyedLock ----------------------------
(***************************************************************************)
(* AsyncKeyedLock.withKey (ipc/async-keyed-lock.ts) and its two users that  *)
(* nest: withThreadRunMutationLock outside, withActiveRunReplacementLock    *)
(* inside (ipc/agent.ts).                                                   *)
(*                                                                          *)
(* The lock is a map from a key to the promise of the last call's turn.     *)
(* A call waits for the promise it found there and puts in its own, which   *)
(* settles when that one has and its own function is over; it takes its     *)
(* entry out of the map if it is still the last.  The entry may go only     *)
(* when nobody is behind it, or the next caller would not wait.  Promises   *)
(* settle in microtasks, so the release of a turn and the settling of its   *)
(* promise are two steps.                                                   *)
(***************************************************************************)
EXTENDS Naturals

CONSTANTS Keys,       \* the keys of all locks: <lock, thread>
          InnerOf,    \* the key a holder of a key may go on to take, or NoKey
          NoKey,
          MaxCalls

ASSUME LockAssumption ==
  /\ MaxCalls \in Nat
  /\ NoKey \notin Keys
  /\ InnerOf \in [Keys -> Keys \cup {NoKey}]
  /\ \A k \in Keys : InnerOf[k] \in Keys => InnerOf[InnerOf[k]] = NoKey

Call == 1 .. MaxCalls

VARIABLES made,      \* calls so far; a call is its number
          key,       \* the key of a call
          st,        \* "out", "waiting" (for previous), "inside" (fn runs), "done"
          pending,   \* the map: the last call of a key, 0 where there is no entry
          prev,      \* `previous` of a call: whose promise it waits for, 0 if resolved
          settled,   \* the calls whose `queued` promise has settled
          holds      \* the call inside whose fn this call was made, or 0

lockVars == <<made, key, st, pending, prev, settled, holds>>

LockInit == /\ made = 0
            /\ key = [t \in Call |-> NoKey]
            /\ st = [t \in Call |-> "out"]
            /\ pending = [k \in Keys |-> 0]
            /\ prev = [t \in Call |-> 0]
            /\ settled = {}
            /\ holds = [t \in Call |-> 0]

\* withKey up to its await: read the map and replace the entry, in one go.
\* o is the call whose function makes this one, or 0 for a handler of its own.
WithKey(t, k, o) ==
  /\ t = made + 1
  /\ key' = [key EXCEPT ![t] = k]
  /\ made' = t
  /\ st' = [st EXCEPT ![t] = "waiting"]
  /\ prev' = [prev EXCEPT ![t] = pending[k]]
  /\ pending' = [pending EXCEPT ![k] = t]
  /\ holds' = [holds EXCEPT ![t] = o]
  /\ UNCHANGED settled

\* withThreadRunMutationLock or another handler's call.
CallLock(t, k) == WithKey(t, k, 0)

\* The handler of a run replacement takes the inner lock inside the outer one.
CallNested(t, o) ==
  /\ o < t /\ st[o] = "inside"
  /\ InnerOf[key[o]] \in Keys
  /\ \A u \in Call : holds[u] # o
  /\ WithKey(t, InnerOf[key[o]], o)

\* The promise that t found in the map has settled, either way.
PrevSettled(t) == prev[t] = 0 \/ prev[t] \in settled

\* What t awaits is over: its turn, the calls made inside its function, or the
\* promise its own one is chained to.
MayEnter(t) == st[t] = "waiting" /\ PrevSettled(t)
MayLeave(t) == st[t] = "inside" /\ \A u \in Call : holds[u] = t => st[u] = "done"
MaySettle(t) == st[t] = "done" /\ t \notin settled /\ PrevSettled(t)

\* `previous` has settled: the function runs.
Enter(t) ==
  /\ MayEnter(t)
  /\ st' = [st EXCEPT ![t] = "inside"]
  /\ UNCHANGED <<made, key, pending, prev, settled, holds>>

\* Mutant: the entry stays.
Leave_NeverDrops(t) ==
  /\ MayLeave(t)
  /\ st' = [st EXCEPT ![t] = "done"]
  /\ UNCHANGED <<made, key, pending, prev, settled, holds>>

\* The function returned or threw: release, and drop the entry if it is ours.
Leave(t) ==
  /\ MayLeave(t)
  /\ st' = [st EXCEPT ![t] = "done"]
  /\ pending' = [pending EXCEPT ![key[t]] = IF @ = t THEN 0 ELSE @]
  /\ UNCHANGED <<made, key, prev, settled, holds>>

\* Mutant: the promise of a call that waited never settles.
Settle_OnlyFirst(t) ==
  /\ st[t] = "done" /\ prev[t] = 0 /\ t \notin settled
  /\ settled' = settled \cup {t}
  /\ UNCHANGED <<made, key, st, pending, prev, holds>>

\* queued = previous.then(() => current), some microtasks later.
Settle(t) ==
  /\ MaySettle(t)
  /\ settled' = settled \cup {t}
  /\ UNCHANGED <<made, key, st, pending, prev, holds>>

LockNext == \E t \in Call :
          \/ \E k \in Keys : CallLock(t, k)
          \/ \E o \in Call : CallNested(t, o)
          \/ Enter(t) \/ Leave(t) \/ Settle(t)

LockSpec == LockInit /\ [][LockNext]_lockVars

\* Promises run, and the function of a holder ends; nobody has to call.
LockFairSpec == /\ LockSpec
                /\ \A t \in Call : WF_lockVars(Enter(t)) /\ WF_lockVars(Leave(t)) /\ WF_lockVars(Settle(t))

-----------------------------------------------------------------------------
\* Types, with what ties the promises to the calls: a call waits for an earlier
\* call of its key, an entry is a call of its key, a settled promise is that of a
\* call whose function is over.
LockTypeOK ==
  /\ made \in 0 .. MaxCalls
  /\ key \in [Call -> Keys \cup {NoKey}]
  /\ st \in [Call -> {"out", "waiting", "inside", "done"}]
  /\ pending \in [Keys -> 0 .. made]
  /\ prev \in [Call -> 0 .. MaxCalls]
  /\ settled \in SUBSET Call
  /\ holds \in [Call -> 0 .. MaxCalls]
  /\ \A t \in Call : /\ st[t] = "out" <=> t > made
                     /\ st[t] # "out" => key[t] \in Keys
                     /\ prev[t] # 0 => prev[t] < t /\ key[prev[t]] = key[t]
                     /\ t \in settled => st[t] = "done"
  /\ \A k \in Keys : pending[k] # 0 => key[pending[k]] = k

\* Two functions of one key never run at the same time, however the drop of an
\* entry, the arrival of a caller and the settling of promises interleave.
Exclusive ==
  \A t, u \in Call :
    (t # u /\ key[t] = key[u]) => ~(st[t] = "inside" /\ st[u] = "inside")

\* has(key): there is an entry exactly as long as a call of the key waits or
\* runs, so the map neither forgets a waiter nor keeps an idle key.
HasIsExact ==
  \A k \in Keys :
    pending[k] # 0 <=> \E t \in Call : key[t] = k /\ st[t] \in {"waiting", "inside"}

\* The waits never close into a ring, with a lock taken inside another: as long
\* as a call is waiting or inside, one of them may enter or leave, or a promise
\* may settle.
NoLockRing ==
  (\E t \in Call : st[t] \in {"waiting", "inside"}) =>
    \E t \in Call : MayEnter(t) \/ MayLeave(t) \/ MaySettle(t)

\* The lock is a first-in first-out mutex per key, and every call is served,
\* also with the replacement lock nested in the mutation lock.
Mutex == INSTANCE FifoMutex
IsFifoMutex == Mutex!FairSpec

\* What holds of withKey in every state: the promises fit together, one function
\* per key runs, the map has an entry exactly while somebody needs it, and the
\* waits form no ring.
LockInv == LockTypeOK /\ Exclusive /\ HasIsExact /\ NoLockRing
=============================================================================
