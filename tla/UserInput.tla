------------------------------ MODULE UserInput ------------------------------
(***************************************************************************)
(* Questions of one thread's agent to the user (services/user-input.ts):    *)
(* the request in the main process, its acknowledgement and auto resolution *)
(* timers, the abort of the run, and the windows that show the question     *)
(* (ipc/user-input.ts, preload, the thread context of the renderer).        *)
(*                                                                          *)
(* IPC messages are delivered in order, per window and direction.  Content  *)
(* is left out: a request is its number, an answer names the request.       *)
(***************************************************************************)
EXTENDS Naturals, Sequences

CONSTANTS Windows, MaxRequests, MaxReloads

ASSUME UserInputAssumption == MaxRequests \in Nat /\ MaxReloads \in Nat

Requests == 1 .. MaxRequests
NoRequest == 0

VARIABLES
  state,      \* of a request: "new", "pending", or how its promise settled
  current,    \* pendingUserInputThreads.get(thread)
  ackTimer, autoTimer,  \* requests whose timer is armed
  acked,      \* requests the main process had an acknowledgement for
  toWin, toMain,        \* messages under way, per window
  window,     \* "closed", "loading", "ready" (it listens on the thread's channels)
  shown,      \* the window's pendingUserInput
  reloads

main == <<state, current, ackTimer, autoTimer, acked>>
wires == <<toWin, toMain>>
screen == <<window, shown, reloads>>
askVars == <<main, wires, screen>>

AskInit ==
  /\ state = [r \in Requests |-> "new"] /\ current = NoRequest
  /\ ackTimer = {} /\ autoTimer = {} /\ acked = {}
  /\ toWin = [w \in Windows |-> <<>>] /\ toMain = [w \in Windows |-> <<>>]
  /\ window \in [Windows -> {"closed", "loading", "ready"}]
  /\ shown = [w \in Windows |-> NoRequest]
  /\ reloads = 0

Pending(r) == state[r] = "pending"
Live == {w \in Windows : window[w] # "closed"}

\* sendToThread
Send(what, r) ==
  toWin' = [w \in Windows |-> IF w \in Live THEN Append(toWin[w], [what |-> what, req |-> r]) ELSE toWin[w]]

-----------------------------------------------------------------------------
\* Mutant: no acknowledgement is asked for.
Asks_NoTimer(r) ==
  /\ state[r] = "new" /\ \A q \in 1 .. (r - 1) : state[q] # "new"
  /\ IF Live = {} \/ current # NoRequest
     THEN /\ state' = [state EXCEPT ![r] = "refused"]
          /\ UNCHANGED <<current, ackTimer, autoTimer, toWin>>
     ELSE /\ state' = [state EXCEPT ![r] = "pending"] /\ current' = r
          /\ autoTimer' \in {autoTimer, autoTimer \cup {r}}
          /\ UNCHANGED ackTimer
          /\ Send("request", r)
  /\ UNCHANGED <<acked, toMain, screen>>

\* requestUserInput of the next request: refused without a window or beside a
\* pending one; otherwise recorded, timed and sent.
Asks(r) ==
  /\ state[r] = "new" /\ \A q \in 1 .. (r - 1) : state[q] # "new"
  /\ IF Live = {} \/ current # NoRequest
     THEN /\ state' = [state EXCEPT ![r] = "refused"]
          /\ UNCHANGED <<current, ackTimer, autoTimer, toWin>>
     ELSE /\ state' = [state EXCEPT ![r] = "pending"] /\ current' = r
          /\ ackTimer' = ackTimer \cup {r}
          /\ autoTimer' \in {autoTimer, autoTimer \cup {r}}
          /\ Send("request", r)
  /\ UNCHANGED <<acked, toMain, screen>>

\* cleanupPending, and the promise settles.
Settles(r, how) ==
  /\ state' = [state EXCEPT ![r] = how]
  /\ current' = IF current = r THEN NoRequest ELSE current
  /\ ackTimer' = ackTimer \ {r} /\ autoTimer' = autoTimer \ {r}
  /\ UNCHANGED acked

AckTimesOut(r) ==
  /\ r \in ackTimer
  /\ Settles(r, "unacknowledged") /\ Send("cancel", r)
  /\ UNCHANGED <<toMain, screen>>

\* Mutant: the windows are not told.
AutoResolves_Silently(r) ==
  /\ r \in autoTimer
  /\ Settles(r, "auto")
  /\ UNCHANGED <<wires, screen>>

AutoResolves(r) ==
  /\ r \in autoTimer
  /\ Settles(r, "auto") /\ Send("cancel", r)
  /\ UNCHANGED <<toMain, screen>>

\* The run's abort signal.
Aborts(r) ==
  /\ Pending(r)
  /\ Settles(r, "cancelled") /\ Send("cancel", r)
  /\ UNCHANGED <<toMain, screen>>

\* Mutant: the acknowledgement stops both timers.
Acknowledges_ClearsBoth(r) ==
  /\ IF Pending(r) THEN /\ acked' = acked \cup {r} /\ ackTimer' = ackTimer \ {r}
                        /\ autoTimer' = autoTimer \ {r}
     ELSE UNCHANGED <<acked, ackTimer, autoTimer>>
  /\ UNCHANGED <<state, current>>

\* acknowledgeUserInputRequest
Acknowledges(r) ==
  /\ IF Pending(r) THEN acked' = acked \cup {r} /\ ackTimer' = ackTimer \ {r}
                   ELSE UNCHANGED <<acked, ackTimer>>
  /\ UNCHANGED <<state, current, autoTimer>>

\* submitUserInputResponse: an answer that comes too late is dropped.
Responds(r) == IF Pending(r) THEN Settles(r, "answered") ELSE UNCHANGED main

\* The main process takes the next message of a window; one that has been closed
\* is an unknown sender.
Receives(w) ==
  /\ toMain[w] # <<>>
  /\ LET msg == Head(toMain[w])
     IN CASE w \notin Live -> UNCHANGED main
          [] w \in Live /\ msg.what = "ack" -> Acknowledges(msg.req)
          [] w \in Live /\ msg.what = "response" -> Responds(msg.req)
  /\ toMain' = [toMain EXCEPT ![w] = Tail(@)]
  /\ UNCHANGED <<toWin, screen>>

-----------------------------------------------------------------------------
\* The window: onRequest acknowledges and shows, onCancel closes the dialog if
\* it is that request's; without listeners the message is lost.
Shows(w) ==
  /\ toWin[w] # <<>> /\ window[w] = "ready"
  /\ LET msg == Head(toWin[w])
     IN IF msg.what = "request"
        THEN /\ toMain' = [toMain EXCEPT ![w] = Append(@, [what |-> "ack", req |-> msg.req])]
             /\ shown' = [shown EXCEPT ![w] = msg.req]
        ELSE /\ shown' = [shown EXCEPT ![w] = IF @ = msg.req THEN NoRequest ELSE @]
             /\ UNCHANGED toMain
  /\ toWin' = [toWin EXCEPT ![w] = Tail(@)]
  /\ UNCHANGED <<main, window, reloads>>

\* A page that is still loading has no listener yet.
Misses(w) ==
  /\ toWin[w] # <<>> /\ window[w] = "loading"
  /\ toWin' = [toWin EXCEPT ![w] = Tail(@)]
  /\ UNCHANGED <<main, toMain, screen>>

\* The user answers, or ignores, what the window shows.
Answers(w) ==
  /\ shown[w] # NoRequest
  /\ toMain' = [toMain EXCEPT ![w] = Append(@, [what |-> "response", req |-> shown[w]])]
  /\ shown' = [shown EXCEPT ![w] = NoRequest]
  /\ UNCHANGED <<main, toWin, window, reloads>>

Loaded(w) ==
  /\ window[w] = "loading"
  /\ window' = [window EXCEPT ![w] = "ready"]
  /\ UNCHANGED <<main, wires, shown, reloads>>

\* The window is reloaded or closed: its state is gone.
Reloads(w) ==
  /\ window[w] = "ready" /\ reloads < MaxReloads
  /\ reloads' = reloads + 1
  /\ \E to \in {"loading", "closed"} : window' = [window EXCEPT ![w] = to]
  /\ shown' = [shown EXCEPT ![w] = NoRequest]
  /\ toWin' = [toWin EXCEPT ![w] = <<>>]
  /\ UNCHANGED <<main, toMain>>

-----------------------------------------------------------------------------
AskNext == \/ \E r \in Requests : Asks(r) \/ AckTimesOut(r) \/ AutoResolves(r) \/ Aborts(r)
           \/ \E w \in Windows : Receives(w) \/ Shows(w) \/ Misses(w)
                                 \/ Answers(w) \/ Loaded(w) \/ Reloads(w)

AskSpec == AskInit /\ [][AskNext]_askVars

\* Timers fire and messages arrive; nobody need ever answer or abort.
AskFairSpec == /\ AskSpec
               /\ \A r \in Requests : WF_askVars(AckTimesOut(r)) /\ WF_askVars(AutoResolves(r))
               /\ \A w \in Windows : WF_askVars(Receives(w)) /\ WF_askVars(Shows(w)) /\ WF_askVars(Misses(w))

-----------------------------------------------------------------------------
Settled == {"refused", "unacknowledged", "auto", "cancelled", "answered"}

\* Shape of the state: the thread's entry names the one pending request, and
\* only a pending request has a timer.
AskTypeOK ==
  /\ state \in [Requests -> Settled \cup {"new", "pending"}]
  /\ window \in [Windows -> {"closed", "loading", "ready"}]
  /\ shown \in [Windows -> Requests \cup {NoRequest}]
  /\ \A r \in Requests : Pending(r) <=> current = r
  /\ ackTimer \cup autoTimer \subseteq {r \in Requests : Pending(r)}

\* A promise settles once, whatever timer, abort and answer come after it
\* (cleanupPending is the guard of all of them).
SettledOnce == [][\A r \in Requests : state[r] \in Settled => state'[r] = state[r]]_askVars

\* What a window has acknowledged is not given up as unacknowledged.
AckStands == \A r \in acked : state[r] # "unacknowledged"

\* A pending question that nobody has acknowledged still has its timer: there is
\* none that neither a window nor the clock will settle.
TimedOrAcked == \A r \in Requests : Pending(r) => r \in ackTimer \/ r \in acked

\* An auto resolution that was armed is only called off by the settlement of its
\* question, not by an acknowledgement or another question's end.
AutoKept == [][\A r \in autoTimer : r \in autoTimer' \/ state'[r] \in Settled]_askVars

\* A window does not go on showing a dead question: once its messages are in,
\* what it shows is pending or was answered in another window (submit tells
\* nobody).
DialogIsLive ==
  \A w \in Windows : shown[w] # NoRequest /\ toWin[w] = <<>> =>
    Pending(shown[w]) \/ state[shown[w]] = "answered"

\* The last window that showed an acknowledged question is gone: nobody can
\* answer it, and its acknowledgement timer is gone as well.
Stranded(r) ==
  /\ Pending(r) /\ r \in acked
  /\ \A w \in Windows : /\ shown[w] # r
                        /\ \A k \in DOMAIN toWin[w] : toWin[w][k].req # r
                        /\ \A k \in DOMAIN toMain[w] : toMain[w][k].req # r

\* Every question settles or comes to stand before the user, unless all windows
\* that showed it were reloaded.
AskedOrSettled ==
  \A r \in Requests :
    [](Pending(r) => <>(~Pending(r) \/ Stranded(r) \/ \E w \in Windows : shown[w] = r))

\* A question with an auto resolution settles, reloads or not.
AutoSettles == \A r \in Requests : r \in autoTimer ~> state[r] \in Settled

\* The one pending question of the thread, its timers and the dialogs agree: an
\* acknowledged question is not given up as unacknowledged, one that is not is
\* timed, and no window goes on showing one that is over.
UserInputInv == AskTypeOK /\ AckStands /\ TimedOrAcked /\ DialogIsLive
=============================================================================
