---------------------------- MODULE HostSession ----------------------------
(***************************************************************************)
(* The Windows host: the session thread (session_thread.rs), the Session   *)
(* it drives tick by tick (session.rs) and the state the two own: the      *)
(* handshake, the two shell slots and the pre-warmed shell, the input held *)
(* down on the desktop, the heartbeat clock and the storm counter.         *)
(*                                                                         *)
(* One thread runs everything here, so a tick is sequential: "top" checks  *)
(* the heartbeat, "pty" and "exec" pump the slots, "poll" drains browser   *)
(* and clipboard, "recv" takes in packets.  Around it children exit, time  *)
(* passes, the wire fails, and the peer sends any packet at any moment.    *)
(*                                                                         *)
(* What a slot's output weighs and how it is paced is module ShellFlow;    *)
(* here a pump sends something or nothing and may be told to wait.         *)
(***************************************************************************)
EXTENDS Naturals, Sequences

CONSTANTS
    None,            \* "no client", "empty slot"
    Clients,         \* client names a Hello may carry
    Keys,            \* keys and mouse buttons the client can press
    Releasable,      \* the ones WindowsInjector::release_all lets go of
    IdleTimeout,     \* HEARTBEAT_TIMEOUT_IDLE, in units of the clock
    BusyTimeout,     \* HEARTBEAT_TIMEOUT_BUSY
    StormThreshold,  \* DEFAULT_STORM_THRESHOLD
    MaxReports,      \* MAX_REPORTS_PER_TICK
    RecvBlocks,      \* recv has no timeout (BLE); FALSE on serial and RFCOMM
    SendCanTimeOut   \* send may fail with a text holding "timeout" (BLE)

ASSUME TimeoutAssumption ==
    /\ IdleTimeout \in Nat \ {0}
    /\ BusyTimeout \in Nat
    /\ IdleTimeout <= BusyTimeout

ASSUME CounterAssumption == StormThreshold \in Nat \ {0} /\ MaxReports \in Nat

ASSUME InputAssumption == Releasable \subseteq Keys

ASSUME LinkAssumption == RecvBlocks \in BOOLEAN /\ SendCanTimeOut \in BOOLEAN

VARIABLES
    port,    \* "open" while the thread owns a Session, "closed" while reopening
    state,   \* Session::state
    client,  \* Session::client_name
    epoch,   \* parity of the handshakes so far, only to tell sessions apart
    exec,    \* Session::exec: the pipe-mode shell of `wd --exec`
    pty,     \* Session::pty: the console, with how it was opened
    warm,    \* Session::warm: the shell started ahead of time
    clip,    \* a clipboard transfer is in flight
    held,    \* keys and buttons injected down and not up again
    quiet,   \* time since last_heartbeat_recv, capped at BusyTimeout
    storm,   \* StormCounter::consecutive
    at,      \* where in the tick the thread is
    reports, \* reports taken in by this tick on top of its packet
    out      \* shell packets the last step put on the wire

vars == <<port, state, client, epoch, exec, pty, warm, clip, held, quiet,
          storm, at, reports, out>>

slots == <<exec, pty, warm>>

thread == <<port, storm, at, reports>>

session == <<state, client, epoch, clip, held, quiet>>

(* A shell: the session it was opened in and whether the child still runs. *)
Child == {"running", "ended"}

Shell == [epoch : {0, 1}, child : Child]

Console == [epoch : {0, 1}, child : Child, kind : {"legacy", "dedicated"}]

WarmShell == [child : Child]

ASSUME NoneAssumption ==
    /\ None \notin Shell
    /\ None \notin Console
    /\ None \notin WarmShell
    /\ None \notin Clients

(* Shell packets.  `from` and `epoch` name the shell a packet speaks for.  *)
OriginalOps == {"ShellOutput", "ShellExit", "ShellClosed"}

DedicatedOps == {"PtyOutput", "PtyExit"}

ShellPacket == [op : OriginalOps \cup DedicatedOps,
                from : {"exec", "legacy", "console"}, epoch : {0, 1}]

TypeOK ==
    /\ port \in {"open", "closed"}
    /\ state \in {"WaitingForHello", "Connected"}
    /\ client \in Clients \cup {None}
    /\ epoch \in {0, 1}
    /\ exec \in Shell \cup {None}
    /\ pty \in Console \cup {None}
    /\ warm \in WarmShell \cup {None}
    /\ clip \in {"idle", "busy"}
    /\ held \subseteq Keys
    /\ quiet \in 0..BusyTimeout
    /\ storm \in 0..StormThreshold
    /\ at \in {"top", "pty", "exec", "poll", "recv"}
    /\ reports \in 0..MaxReports
    /\ out \in Seq(ShellPacket)

Init ==
    /\ port = "closed"
    /\ state = "WaitingForHello"
    /\ client = None
    /\ epoch = 0
    /\ exec = None /\ pty = None /\ warm = None
    /\ clip = "idle"
    /\ held = {}
    /\ quiet = 0
    /\ storm = 0
    /\ at = "top"
    /\ reports = 0
    /\ out = <<>>

----------------------------------------------------------------------------
(* Decisions the handlers share.                                           *)

LegacyPty == pty # None /\ pty.kind = "legacy"

DedicatedPty == pty # None /\ pty.kind = "dedicated"

ShellOpenBusyOnExecOnly == exec # None

(* A ShellOpen bounces off an open exec shell and off a legacy console.    *)
ShellOpenBusy == exec # None \/ LegacyPty

(* A ShellOpenPty wants the whole shell side to itself.                    *)
LegacyOpenBusy == pty # None \/ exec # None

NothingLetGo(h) == h

(* InputInjector::release_all: the left modifiers and three buttons only.  *)
ReleaseAll(h) == h \ Releasable

OnlyIdleExpires ==
    /\ state = "Connected"
    /\ clip = "idle" /\ exec = None /\ pty = None
    /\ quiet >= IdleTimeout

(* heartbeat_timeout: a transfer or an open shell buys the longer budget.  *)
HeartbeatExpired ==
    /\ state = "Connected"
    /\ quiet >= IF clip = "busy" \/ exec # None \/ pty # None
                THEN BusyTimeout ELSE IdleTimeout

(* A report does not use up the tick's packet, up to MAX_REPORTS_PER_TICK. *)
AnotherReport == reports < MaxReports

NewShell == [epoch |-> epoch, child |-> "running"]

(* What warm_up leaves behind: nothing new when one is already waiting,    *)
(* else a fresh shell or, when the spawn fails, none.                      *)
WarmUp(w) == IF w # None THEN {w} ELSE {None, [child |-> "running"]}

PtySpeaker == IF LegacyPty THEN "legacy" ELSE "console"

SpeaksOriginal(slot) == slot = "exec"

(* legacy_opcodes: exec and a legacy console answer on the originals.      *)
LegacyOpcodes(slot) == slot = "exec" \/ LegacyPty

Packet(op, from, e) == [op |-> op, from |-> from, epoch |-> e]

(* `?` on a send: delivered, or - where a send can time out - swallowed by *)
(* the arm of the tick loop meant for a quiet recv.                        *)
SendOutcomes == IF SendCanTimeOut THEN BOOLEAN ELSE {TRUE}

Sent(ok, packet) == IF ok THEN <<packet>> ELSE <<>>

----------------------------------------------------------------------------
(* Ways a session ends.                                                    *)

(* kill_all_shells: both slots, whatever runs in them.                     *)
KillAllShells == exec' = None /\ pty' = None

(* Heartbeat timeout and Disconnect: let go of the input, kill both slots  *)
(* and the warm shell, reset the clipboard, wait for the next Hello.       *)
EndSession ==
    /\ held' = ReleaseAll(held)
    /\ KillAllShells
    /\ warm' = None
    /\ clip' = "idle"
    /\ state' = "WaitingForHello"
    /\ client' = None
    /\ out' = <<>>
    /\ UNCHANGED <<epoch, quiet>>

(* into_injector and the drop of the Session behind it: the injector lives *)
(* on, ShellProcess::drop kills the children, the port is reopened.        *)
Dismantle ==
    /\ port' = "closed"
    /\ held' = ReleaseAll(held)
    /\ KillAllShells
    /\ warm' = None
    /\ state' = "WaitingForHello"
    /\ client' = None
    /\ clip' = "idle"
    /\ quiet' = 0
    /\ storm' = 0
    /\ at' = "top"
    /\ reports' = 0
    /\ out' = <<>>
    /\ UNCHANGED epoch

----------------------------------------------------------------------------
(* The thread outside the tick.                                            *)

OpenPort ==
    /\ port = "closed"
    /\ port' = "open"
    /\ out' = <<>>
    /\ UNCHANGED <<state, client, epoch, slots, clip, held, quiet, storm, at,
                   reports>>

(* A send or a recv fails for good, wherever in the tick it happens.       *)
TransportFails == port = "open" /\ Dismantle

(* A frame that does not decode; a run of them is a storm.                 *)
ProtocolError ==
    /\ port = "open" /\ at = "recv"
    /\ IF storm + 1 >= StormThreshold
       THEN Dismantle
       ELSE /\ storm' = storm + 1
            /\ at' = "top"
            /\ reports' = 0
            /\ out' = <<>>
            /\ UNCHANGED <<port, session, slots>>

----------------------------------------------------------------------------
(* The tick up to recv.                                                    *)

HeartbeatTimeout ==
    /\ port = "open" /\ at = "top"
    /\ HeartbeatExpired
    /\ EndSession
    /\ UNCHANGED thread

(* The heartbeat goes out if it is due; nothing to time out.               *)
TickTop ==
    /\ port = "open" /\ at = "top"
    /\ ~HeartbeatExpired
    /\ at' = "pty"
    /\ out' = <<>>
    /\ UNCHANGED <<port, storm, reports, session, slots>>

(* The heartbeat is due and its send times out: the tick ends here.        *)
HeartbeatSendTimesOut ==
    /\ port = "open" /\ at = "top"
    /\ state = "Connected"
    /\ SendCanTimeOut
    /\ out' = <<>>
    /\ UNCHANGED <<thread, session, slots>>

Output(slot, from, e) ==
    Packet(IF LegacyOpcodes(slot) THEN "ShellOutput" ELSE "PtyOutput", from, e)

Exit(slot, from, e) ==
    Packet(IF LegacyOpcodes(slot) THEN "ShellExit" ELSE "PtyExit", from, e)

(* What the drained output of a slot amounts to on the wire: some or none. *)
Drained(packet) == {<<>>, <<packet>>}

(* pump_slot for the console: drain, send, then report an exit.            *)
PumpPty ==
    /\ port = "open" /\ at = "pty"
    /\ \/ pty = None
          /\ at' = "exec" /\ out' = <<>> /\ UNCHANGED pty
       \/ /\ pty # None /\ pty.child = "running"
          /\ out' \in Drained(Output("pty", PtySpeaker, pty.epoch))
          /\ at' = "exec" /\ UNCHANGED pty
       \/ /\ pty # None /\ pty.child = "ended"
          /\ pty' = None
          /\ \E said \in Drained(Output("pty", PtySpeaker, pty.epoch)),
                ok \in SendOutcomes :
                /\ out' = said \o Sent(ok, Exit("pty", PtySpeaker, pty.epoch))
                /\ at' = IF ok THEN "exec" ELSE "top"
       \/ (* the send of the output times out: it is lost, the tick ends *)
          /\ pty # None /\ SendCanTimeOut
          /\ at' = "top" /\ out' = <<>> /\ UNCHANGED pty
    /\ UNCHANGED <<port, storm, reports, session, exec, warm>>

(* pump_slot for exec: the same, unless pacing leaves it no budget; then   *)
(* not even an exit is looked for.                                         *)
PumpExec ==
    /\ port = "open" /\ at = "exec"
    /\ \/ at' = "poll" /\ out' = <<>> /\ UNCHANGED exec
       \/ /\ exec # None /\ exec.child = "running"
          /\ out' = <<Output("exec", "exec", exec.epoch)>>
          /\ at' = "poll" /\ UNCHANGED exec
       \/ /\ exec # None /\ exec.child = "ended"
          /\ exec' = None
          /\ \E said \in Drained(Output("exec", "exec", exec.epoch)),
                ok \in SendOutcomes :
                /\ out' = said \o Sent(ok, Exit("exec", "exec", exec.epoch))
                /\ at' = IF ok THEN "poll" ELSE "top"
       \/ /\ exec # None /\ SendCanTimeOut
          /\ at' = "top" /\ out' = <<>> /\ UNCHANGED exec
    /\ UNCHANGED <<port, storm, reports, session, pty, warm>>

(* One browser frame and the clipboard's poll; either may start or finish  *)
(* an outgoing transfer.                                                   *)
Poll ==
    /\ port = "open" /\ at = "poll"
    /\ clip' \in IF state = "Connected" THEN {"idle", "busy"} ELSE {clip}
    /\ at' \in IF state = "Connected" /\ SendCanTimeOut
               THEN {"recv", "top"} ELSE {"recv"}
    /\ out' = <<>>
    /\ UNCHANGED <<port, storm, reports, state, client, epoch, held, quiet, slots>>

RecvTimeout ==
    /\ port = "open" /\ at = "recv"
    /\ ~RecvBlocks
    /\ at' = "top"
    /\ reports' = 0
    /\ out' = <<>>
    /\ UNCHANGED <<port, storm, session, slots>>

----------------------------------------------------------------------------
(* handle_packet, one action per arm.  The peer is unconstrained: a packet *)
(* may be stale, repeated or out of place.                                 *)

CapOnlyRestartsCount(report) ==
    /\ port = "open" /\ at = "recv"
    /\ storm' = 0
    /\ IF report
       THEN at' = "recv" /\ reports' = IF AnotherReport THEN reports + 1 ELSE 0
       ELSE at' = "top" /\ reports' = 0
    /\ UNCHANGED port

Receive(report) ==
    /\ port = "open" /\ at = "recv"
    /\ storm' = 0
    /\ IF report /\ AnotherReport
       THEN at' = "recv" /\ reports' = reports + 1
       ELSE at' = "top" /\ reports' = 0
    /\ UNCHANGED port

ShellsSurviveRehandshake ==
    IF state = "Connected"
    THEN held' = ReleaseAll(held) /\ clip' = "idle" /\ UNCHANGED <<exec, pty>>
    ELSE UNCHANGED <<held, clip, exec, pty>>

(* A Hello in the middle of a session tears it down first; its warm shell  *)
(* is kept.                                                                *)
Rehandshake ==
    IF state = "Connected"
    THEN held' = ReleaseAll(held) /\ clip' = "idle" /\ KillAllShells
    ELSE UNCHANGED <<held, clip, exec, pty>>

(* Hello in any state; then the version decides.                           *)
OnHello ==
    /\ Receive(FALSE)
    /\ Rehandshake
    /\ out' = <<>>
    /\ \/ (* version mismatch: refused with an Error packet *)
          /\ client' = IF state = "Connected" THEN None ELSE client
          /\ state' = "WaitingForHello"
          /\ UNCHANGED <<epoch, quiet, warm>>
       \/ (* accepted, HelloAck on the wire *)
          /\ client' \in Clients
          /\ state' = "Connected"
          /\ epoch' = 1 - epoch
          /\ quiet' = 0
          /\ warm' \in WarmUp(warm)
       \/ (* accepted, but the send of HelloAck timed out *)
          /\ SendCanTimeOut
          /\ client' \in Clients
          /\ state' = "WaitingForHello"
          /\ UNCHANGED <<epoch, quiet, warm>>

OnHeartbeat ==
    /\ Receive(FALSE)
    /\ state = "Connected"
    /\ quiet' = 0
    /\ out' = <<>>
    /\ UNCHANGED <<state, client, epoch, clip, held, slots>>

(* RxProgress and Browser: their state is not in this module.              *)
OnReport ==
    /\ Receive(TRUE)
    /\ out' = <<>>
    /\ UNCHANGED <<session, slots>>

(* Whatever leaves this module's state alone: mouse moves and scrolls,     *)
(* resizes, any input without a shell to take it, and everything but a     *)
(* Hello before the handshake.                                             *)
OnIgnored ==
    /\ Receive(FALSE)
    /\ out' = <<>>
    /\ UNCHANGED <<session, slots>>

OnKeyDown ==
    /\ Receive(FALSE)
    /\ state = "Connected"
    /\ \E k \in Keys : held' = held \cup {k}
    /\ out' = <<>>
    /\ UNCHANGED <<state, client, epoch, clip, quiet, slots>>

OnKeyUp ==
    /\ Receive(FALSE)
    /\ state = "Connected"
    /\ \E k \in Keys : held' = held \ {k}
    /\ out' = <<>>
    /\ UNCHANGED <<state, client, epoch, clip, quiet, slots>>

(* ClipOffer, ClipChunk, ClipDecline: a transfer starts, moves or stops.   *)
OnClip ==
    /\ Receive(FALSE)
    /\ state = "Connected"
    /\ clip' \in {"idle", "busy"}
    /\ out' = <<>>
    /\ UNCHANGED <<state, client, epoch, held, quiet, slots>>

(* ShellOpen: the warm shell if it is the one asked for, else a fresh one; *)
(* then the next one is warmed up.  A refusal is an Error packet.          *)
OnShellOpen ==
    /\ Receive(FALSE)
    /\ state = "Connected"
    /\ out' = <<>>
    /\ \/ ShellOpenBusy /\ UNCHANGED slots
       \/ /\ ~ShellOpenBusy /\ warm # None
          /\ exec' = [epoch |-> epoch, child |-> warm.child]
          /\ warm' \in WarmUp(None)
          /\ UNCHANGED pty
       \/ /\ ~ShellOpenBusy
          /\ exec' = NewShell
          /\ warm' \in WarmUp(warm)
          /\ UNCHANGED pty
       \/ ~ShellOpenBusy /\ UNCHANGED slots   \* the spawn fails
    /\ UNCHANGED session

(* ShellOpenPty: the console of a client that knows one shell only.        *)
OnShellOpenPty ==
    /\ Receive(FALSE)
    /\ state = "Connected"
    /\ out' = <<>>
    /\ \/ UNCHANGED pty   \* busy, or the spawn fails
       \/ ~LegacyOpenBusy
          /\ pty' = [epoch |-> epoch, child |-> "running", kind |-> "legacy"]
    /\ UNCHANGED <<session, exec, warm>>

(* PtyOpen: the dedicated console, whatever the exec slot does.            *)
OnPtyOpen ==
    /\ Receive(FALSE)
    /\ state = "Connected"
    /\ out' = <<>>
    /\ \/ UNCHANGED pty   \* busy, or the spawn fails
       \/ /\ pty = None
          /\ pty' = [epoch |-> epoch, child |-> "running", kind |-> "dedicated"]
    /\ UNCHANGED <<session, exec, warm>>

EveryCloseAnswered(had_shell, ok, packet) == Sent(ok, packet)

(* A close is acknowledged only if it closed something.                    *)
CloseAnswer(had_shell, ok, packet) ==
    IF had_shell THEN Sent(ok, packet) ELSE <<>>

(* ShellClose: the exec slot first, a legacy console second, a dedicated   *)
(* console never.                                                          *)
OnShellClose ==
    /\ Receive(FALSE)
    /\ state = "Connected"
    /\ exec' = None
    /\ pty' = IF exec = None /\ LegacyPty THEN None ELSE pty
    /\ \E ok \in SendOutcomes :
          out' = CloseAnswer(exec # None \/ LegacyPty, ok,
                     Packet("ShellClosed",
                            IF exec # None THEN "exec" ELSE "legacy", epoch))
    /\ UNCHANGED <<session, warm>>

(* PtyClose: the dedicated console only, and nothing is answered.          *)
OnPtyClose ==
    /\ Receive(FALSE)
    /\ state = "Connected"
    /\ pty' = IF DedicatedPty THEN None ELSE pty
    /\ out' = <<>>
    /\ UNCHANGED <<session, exec, warm>>

OnDisconnect ==
    /\ Receive(FALSE)
    /\ state = "Connected"
    /\ EndSession

----------------------------------------------------------------------------
(* Around the thread.                                                      *)

(* A child ends by itself, whichever slot it sits in.                      *)
ChildExits ==
    /\ \/ /\ exec # None /\ exec.child = "running"
          /\ exec' = [exec EXCEPT !.child = "ended"] /\ UNCHANGED <<pty, warm>>
       \/ /\ pty # None /\ pty.child = "running"
          /\ pty' = [pty EXCEPT !.child = "ended"] /\ UNCHANGED <<exec, warm>>
       \/ /\ warm # None /\ warm.child = "running"
          /\ warm' = [warm EXCEPT !.child = "ended"] /\ UNCHANGED <<exec, pty>>
    /\ out' = <<>>
    /\ UNCHANGED <<thread, session>>

(* Time passes without a heartbeat.                                        *)
Tock ==
    /\ state = "Connected"
    /\ quiet < BusyTimeout
    /\ quiet' = quiet + 1
    /\ out' = <<>>
    /\ UNCHANGED <<thread, state, client, epoch, clip, held, slots>>

HandlePacket ==
    \/ OnHello \/ OnHeartbeat \/ OnReport \/ OnIgnored
    \/ OnKeyDown \/ OnKeyUp \/ OnClip
    \/ OnShellOpen \/ OnShellOpenPty \/ OnPtyOpen
    \/ OnShellClose \/ OnPtyClose \/ OnDisconnect

(* The part of the tick that waits for nobody.                             *)
Work == HeartbeatTimeout \/ TickTop \/ PumpPty \/ PumpExec \/ Poll

Next ==
    \/ OpenPort \/ TransportFails \/ ProtocolError
    \/ Work \/ RecvTimeout \/ HeartbeatSendTimesOut \/ HandlePacket
    \/ ChildExits \/ Tock

Spec == Init /\ [][Next]_vars

(* The thread's loop keeps running: its own work gets done, and a recv     *)
(* that has a timeout comes back with something or with the timeout.  The  *)
(* clock keeps running.  Nothing is assumed of the peer or of the wire:    *)
(* a recv without a timeout waits for a peer that may never send.          *)
Fairness ==
    /\ WF_vars(Work)
    /\ WF_vars(~RecvBlocks /\ (RecvTimeout \/ HandlePacket \/ ProtocolError))
    /\ WF_vars(Tock)

FairSpec == Spec /\ Fairness

----------------------------------------------------------------------------
(* Properties.                                                             *)

(* A shell runs only inside the session that opened it: no Disconnect,     *)
(* timeout, reopened port or second Hello leaves one behind for the next   *)
(* client (kill_all_shells: "neither slot may outlive it").                *)
SlotsOfThisSession ==
    /\ exec # None => port = "open" /\ state = "Connected" /\ exec.epoch = epoch
    /\ pty # None => port = "open" /\ state = "Connected" /\ pty.epoch = epoch

(* A console opened the legacy way shares the host with no exec shell,     *)
(* whatever order the three opens and the exits come in: its client could  *)
(* not tell the two outputs apart.                                         *)
LegacyExclusive == LegacyPty => exec = None

(* Every shell packet is in the dialect its shell was opened in, and       *)
(* speaks for a shell of the session the client is in: after a HelloAck    *)
(* nothing of an earlier session follows.                                  *)
AnsweredInOpenersDialect ==
    \A i \in DOMAIN out :
        /\ out[i].op \in OriginalOps <=> out[i].from \in {"exec", "legacy"}
        /\ out[i].epoch = epoch

(* Whatever way a session ends, the modifiers and buttons release_all      *)
(* knows are up again before the next client can connect.                  *)
ModifiersReleased == state # "Connected" => held \cap Releasable = {}

(* The shells that speak the original opcodes.                             *)
OriginalShells ==
    {who \in {"exec", "legacy"} : IF who = "exec" THEN exec # None ELSE LegacyPty}

EndsTold(packets, who) ==
    {i \in DOMAIN packets : packets[i].op \in {"ShellExit", "ShellClosed"}
                             /\ packets[i].from = who}

ToldOnce(packets, who) ==
    \E i \in DOMAIN packets : EndsTold(packets, who) = {i}

EndTold ==
    state = "Connected" /\ state' = "Connected" /\ epoch' = epoch =>
        \A who \in {"exec", "legacy"} :
            IF who \in OriginalShells \ OriginalShells'
            THEN ToldOnce(out', who) \/ (SendCanTimeOut /\ EndsTold(out', who) = {})
            ELSE EndsTold(out', who) = {}

(* While the session lasts, a client on the original opcodes is told of    *)
(* the end of its shell exactly once, by ShellExit or by ShellClosed, and  *)
(* never of an end that did not happen.  Only a send that times out in the *)
(* middle of a tick can lose the news.                                     *)
EndToldOnce == [][EndTold]_vars

(* A session that lasts keeps hearing from its client: a silent one is     *)
(* timed out, however many shells it left running.                         *)
LastingSessionIsHeard ==
    <>[](state = "Connected") => []<>(quiet = 0)

(* However many reports arrive, the thread always gets back to the shells. *)
ShellsKeepBeingPumped == []<>(at = "pty" \/ port = "closed")
============================================================================
