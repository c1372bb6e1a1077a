------------------------------ MODULE HostStatus ------------------------------
(***************************************************************************)
(* How the state of the host's session reaches the tray: the session       *)
(* thread opens the transport, ticks and reports; the bridge thread files  *)
(* what it hears and posts a notice; the UI thread takes both slots at the *)
(* notice.  A Notification is a balloon and no state.                      *)
(***************************************************************************)
EXTENDS Naturals, Sequences

CONSTANTS
    MaxQueue,   \* statuses waiting in the channel: a bound
    MaxBackoff  \* failed opens after which the delay no longer grows

None == "none"
States == {"waiting", "connected", "disconnected"}
Notification == "notification"

VARIABLES
    thread,     \* "opening", "backing off", "ticking", "closing" or "ended"
    attempt,    \* reopen_attempt
    state,      \* Session::current_state
    last,       \* last_reported
    chan,       \* the status channel
    persistent, pending,    \* StatusState
    heard,      \* the bridge thread has filed a status and not told the UI
    notice,     \* a notice is posted
    tray, row,  \* what the tray and the settings window show
    balloon     \* a warning was shown for the last Notification

vars == <<thread, attempt, state, last, chan, persistent, pending,
          heard, notice, tray, row, balloon>>
session == <<thread, attempt, state, last>>
bridge == <<persistent, pending, heard, notice>>
shown == <<tray, row, balloon>>

\* An injector that cannot be built ends the thread before it has opened
\* anything.
Init ==
    /\ \/ thread = "opening" /\ chan = <<>>
       \/ thread = "ended" /\ chan = <<"disconnected">>
    /\ attempt = 0 /\ state = "waiting" /\ last = None
    /\ persistent = "waiting" /\ pending = FALSE
    /\ heard = FALSE /\ notice = FALSE
    /\ tray = "disconnected" /\ row = "waiting" /\ balloon = TRUE

-----------------------------------------------------------------------------
(* session_thread.rs *)

next_backoff(n) == IF n < MaxBackoff THEN n + 1 ELSE n

OpenSucceeds ==
    /\ thread = "opening" /\ Len(chan) < MaxQueue
    /\ thread' = "ticking" /\ attempt' = 0
    /\ state' = "waiting" /\ last' = None
    /\ chan' = Append(chan, "waiting")
    /\ UNCHANGED <<bridge, shown>>

OpenFails ==
    /\ thread = "opening" /\ Len(chan) < MaxQueue
    /\ thread' = "backing off" /\ attempt' = next_backoff(attempt)
    /\ chan' = Append(chan, "disconnected")
    /\ UNCHANGED <<state, last, bridge, shown>>

\* The sleep after a failed open, or the 500 ms after a session was dismantled.
SleepEnds ==
    /\ thread \in {"backing off", "closing"}
    /\ thread' = "opening"
    /\ UNCHANGED <<attempt, state, last, chan, bridge, shown>>

derive_status(s) == s

\* The end of every turn of the loop: a warning first, then the state if it
\* is not the one reported last.
Report(s, w) ==
    LET told == (IF w THEN <<Notification>> ELSE <<>>)
                \o (IF derive_status(s) # last THEN <<derive_status(s)>> ELSE <<>>)
    IN /\ Len(chan) + Len(told) <= MaxQueue
       /\ chan' = chan \o told
       /\ last' = derive_status(s)

\* A turn that ends in the report: ticks that succeed, time out, meet a bad
\* frame or fail in the session itself.  What a tick does to the session is
\* HostSession's; w: it left a clipboard warning.
Turn(s, w) ==
    /\ thread = "ticking"
    /\ Report(s, w)
    /\ state' = s
    /\ UNCHANGED <<thread, attempt, bridge, shown>>

\* A storm of bad frames or a fatal transport error: the session goes, and
\* nothing is reported before the transport is opened again.
TransportLost ==
    /\ thread = "ticking"
    /\ thread' = "closing"
    /\ UNCHANGED <<attempt, state, last, chan, bridge, shown>>

-----------------------------------------------------------------------------
(* status_bridge.rs *)

\* (mutant) one slot for both
OneSlot(s) == persistent' = s /\ pending' = (s = Notification)

apply(s) ==
    IF s = Notification
    THEN pending' = TRUE /\ UNCHANGED persistent
    ELSE persistent' = s /\ UNCHANGED pending

\* recv and apply, under the lock.
Bridge ==
    /\ ~heard /\ chan # <<>>
    /\ apply(Head(chan))
    /\ chan' = Tail(chan)
    /\ heard' = TRUE
    /\ balloon' = IF Head(chan) = Notification THEN FALSE ELSE balloon
    /\ UNCHANGED <<session, notice, tray, row>>

Notify ==
    /\ heard
    /\ heard' = FALSE /\ notice' = TRUE
    /\ UNCHANGED <<session, chan, persistent, pending, shown>>

-----------------------------------------------------------------------------
(* main.rs: the UI thread.  The notice also carries the show-settings flag, *)
(* which is HostProcess's.                                                  *)

\* update_status for a pending notification shows the balloon and leaves the
\* icon; the persistent status goes to the icon and to the settings row.
UpdateStatus ==
    /\ balloon' = (balloon \/ pending)
    /\ tray' = persistent /\ row' = persistent

OnNotice ==
    /\ notice
    /\ notice' = FALSE /\ pending' = FALSE
    /\ UpdateStatus
    /\ UNCHANGED <<session, chan, persistent, heard>>

Next ==
    \/ OpenSucceeds
    \/ OpenFails
    \/ SleepEnds
    \/ \E s \in States, w \in BOOLEAN : Turn(s, w)
    \/ TransportLost
    \/ Bridge
    \/ Notify
    \/ OnNotice

Spec == Init /\ [][Next]_vars

\* Sleeps end, an open returns, and the threads keep running.
FairSpec ==
    /\ Spec
    /\ WF_vars(SleepEnds) /\ WF_vars(OpenSucceeds \/ OpenFails) /\ WF_vars(Turn(state, FALSE))
    /\ WF_vars(Bridge) /\ WF_vars(Notify) /\ WF_vars(OnNotice)

-----------------------------------------------------------------------------
\* What the session stays in is what the tray and the settings window end up
\* showing, balloons in between or not (status_bridge.rs, main.rs OnNotice).
TrayFollowsTheSession == \A s \in States :
    <>[](thread = "ticking" /\ state = s) => <>[](tray = s /\ row = s)
==============================================================================
