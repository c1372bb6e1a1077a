------------------------------ MODULE Terminal ------------------------------
(***************************************************************************)
(* The wd terminal (wiredesk-term): one invocation, interactive or --exec. *)
(* It first tries the GUI's Unix socket and falls back to the serial port; *)
(* the interactive bridge is four threads around one stop flag.  Frames    *)
(* from the GUI arrive as a byte stream that reads cut anywhere.           *)
(*                                                                         *)
(* The GUI's side of the socket (ipc.rs, modelled in ShellChannel) and the *)
(* host behind the serial port appear here as the peer that answers.       *)
(***************************************************************************)
EXTENDS Naturals, Sequences, SequencesExt

CONSTANT MaxFrames       \* bound: frames the peer sends in one invocation

VARIABLES
    exec,      \* --exec was given
    wd,        \* where the main thread is
    via,       \* "none", "ipc" or "serial"
    gui,       \* "absent", "up", "dead": the process behind the socket
    port,      \* who holds the serial port: "free", "gui", "wd"
    sent,      \* frames the peer wrote
    wire,      \* bytes of them not yet read: <<frame number, byte>>
    rx_buf,    \* bytes read that do not form a frame yet
    got,       \* frames recv returned
    stop,      \* the bridge's stop flag
    threads,   \* the bridge's threads: "off", "run", "done"
    raw,       \* the local terminal is in raw mode
    told       \* messages the host or the relay was sent

vars == <<exec, wd, via, gui, port, sent, wire, rx_buf, got, stop, threads, raw, told>>

BridgeThreads == {"reader", "heartbeat", "resize", "stdin"}
Joined == {"reader", "heartbeat", "resize"}       \* stdin_pump is detached
FrameBytes == 3      \* length prefix in two pieces, then the body
Bytes(i) == [b \in 1 .. FrameBytes |-> <<i, b>>]
Answers == IF exec /\ via = "ipc" THEN {"Stdout", "Exit", "Error", "TransportUnavailable"}
                   ELSE {"HelloAck", "Error", "ShellOutput", "ShellExit", "Disconnect"}

Init ==
    /\ exec \in BOOLEAN
    /\ wd = "start" /\ via = "none"
    /\ gui \in {"absent", "up"}
    /\ port \in IF gui = "up" THEN {"gui", "free"} ELSE {"free"}
    /\ sent = <<>> /\ wire = <<>> /\ rx_buf = <<>> /\ got = 0
    /\ stop = "no" /\ threads = [t \in BridgeThreads |-> "off"]
    /\ raw = FALSE /\ told = {}

----------------------------------------------------------------------------
(* The peer.                                                               *)

PeerOpen == /\ wd \notin {"oneshot", "exited"}      \* the one-shot run: ExecRun
            /\ \/ via = "ipc" /\ gui = "up"
               \/ via = "serial" /\ port = "wd"

\* The peer has written a length prefix and not yet the body.
HalfSent == LET b == rx_buf \o wire IN b # <<>> /\ Last(b)[2] < FrameBytes

\* write_frame: the prefix, then the body.
PeerSends(m) ==
    /\ PeerOpen /\ ~HalfSent
    /\ Len(sent) < MaxFrames
    /\ sent' = Append(sent, m)
    /\ wire' = wire \o SubSeq(Bytes(Len(sent) + 1), 1, FrameBytes - 1)
    /\ UNCHANGED <<exec, wd, via, gui, port, rx_buf, got, stop, threads, raw, told>>

PeerSendsBody ==
    /\ PeerOpen /\ HalfSent
    /\ wire' = Append(wire, <<Len(sent), FrameBytes>>)
    /\ UNCHANGED <<exec, wd, via, gui, port, sent, rx_buf, got, stop, threads, raw, told>>

\* The GUI quits: its sockets close, its port is released.
GuiDies ==
    /\ gui = "up" /\ wd # "exited"
    /\ gui' = "dead"
    /\ port' = IF port = "gui" THEN "free" ELSE port
    /\ UNCHANGED <<exec, wd, via, sent, wire, rx_buf, got, stop, threads, raw, told>>

\* The GUI's link supervisor closes or reopens the port under our feet.
GuiPort ==
    /\ gui = "up" /\ port # "wd" /\ via = "none"
    /\ port' = IF port = "gui" THEN "free" ELSE "gui"
    /\ UNCHANGED <<exec, wd, via, gui, sent, wire, rx_buf, got, stop, threads, raw, told>>

----------------------------------------------------------------------------
(* Reading.  A read returns some of the bytes that are there; nothing is   *)
(* there: a timeout, or the end of the stream once the GUI is gone.        *)

HasFrame == Len(rx_buf) >= FrameBytes
\* The frame at the front is whole and starts at its first byte.
FrontFrame == sent[rx_buf[1][1]]
Eof == via = "ipc" /\ gui = "dead" /\ wire = <<>>

take_buffered_frame ==
    /\ rx_buf' = SubSeq(rx_buf, FrameBytes + 1, Len(rx_buf))
    /\ got' = got + 1

ReadSome ==
    /\ ~HasFrame /\ wire # <<>>
    /\ \E n \in 1 .. Len(wire) :
           /\ rx_buf' = rx_buf \o SubSeq(wire, 1, n)
           /\ wire' = SubSeq(wire, n + 1, Len(wire))
    /\ UNCHANGED got

\* (mutant) read_exact: a timeout in the middle of a frame throws it away
PartialDiscarded == rx_buf' = <<>>
\* "recv timeout": the partial frame stays buffered.
RecvTimeout == UNCHANGED rx_buf

\* Who may call recv now: the main thread, then the reader thread.
MainReads == wd \in {"first", "stream", "handshake"}
ReaderReads == wd = "bridge" /\ threads.reader = "run" /\ stop = "no"

----------------------------------------------------------------------------
(* run: arguments, the socket, the fallback.                               *)

Exit == wd' = "exited" /\ raw' = FALSE /\ port' = (IF port = "wd" THEN "free" ELSE port)

run_BadArguments ==
    /\ wd = "start" /\ Exit
    /\ UNCHANGED <<exec, via, gui, sent, wire, rx_buf, got, stop, threads, told>>

\* --exec: connect to the socket and write the IpcConnect frame; any failure
\* up to here means direct serial.
try_socket_first ==
    /\ wd = "start" /\ exec
    /\ \/ gui # "up" /\ wd' = "open" /\ UNCHANGED <<via, told>>
       \/ gui = "up" /\ via' = "ipc" /\ told' = {"IpcConnect"} /\ wd' = "first"
    /\ UNCHANGED <<exec, gui, port, sent, wire, rx_buf, got, stop, threads, raw>>

\* Interactive: the same, then the handshake; the relay opens the shell.
try_interactive_socket_at ==
    /\ wd = "start" /\ ~exec
    /\ \/ gui # "up" /\ wd' = "open" /\ UNCHANGED <<via, told>>
       \/ gui = "up" /\ via' = "ipc" /\ told' = {"IpcConnect"} /\ wd' = "handshake"
    /\ UNCHANGED <<exec, gui, port, sent, wire, rx_buf, got, stop, threads, raw>>

\* The socket is dropped and its bytes with it: direct serial is next.
FallBack ==
    /\ wd' = "open" /\ via' = "none"
    /\ sent' = <<>> /\ wire' = <<>> /\ rx_buf' = <<>> /\ got' = 0

\* Waiting for the first frame or the HelloAck: a frame, more bytes, the
\* deadline (2 s, 5 s) or the end of the stream.
try_socket_Deadline ==
    /\ wd \in {"first", "handshake"} /\ via = "ipc" /\ ~HasFrame
    /\ FallBack
    /\ UNCHANGED <<exec, gui, port, stop, threads, raw, told>>

MainRecv ==
    /\ MainReads
    /\ \/ ReadSome /\ UNCHANGED wd
       \/ ~HasFrame /\ wire = <<>> /\ RecvTimeout /\ UNCHANGED <<wire, got, wd>>
    /\ UNCHANGED <<exec, via, gui, port, sent, stop, threads, raw, told>>

MainEof ==
    /\ MainReads /\ ~HasFrame /\ Eof /\ Exit
    /\ UNCHANGED <<exec, via, gui, sent, wire, rx_buf, got, stop, threads, told>>

\* --exec over the socket: Stdout is printed, classify_terminal_response
\* turns every other frame into the exit code.
try_socket_first_Frame ==
    /\ wd \in {"first", "stream"} /\ HasFrame /\ take_buffered_frame
    /\ IF FrontFrame = "Stdout" THEN wd' = "stream" /\ UNCHANGED <<raw, port>> ELSE Exit
    /\ UNCHANGED <<exec, via, gui, sent, wire, stop, threads, told>>

----------------------------------------------------------------------------
(* Direct serial: open, handshake, shell.                                  *)

SerialOpen ==
    /\ wd = "open"
    /\ \/ port = "free" /\ port' = "wd" /\ via' = "serial" /\ wd' = "handshake" /\ raw' = raw
       \/ Exit /\ UNCHANGED via            \* busy, absent, or the split failed
    /\ UNCHANGED <<exec, gui, sent, wire, rx_buf, got, stop, threads, told>>

\* handshake: HelloAck goes on, Error ends it, anything else is skipped.
handshake_Frame ==
    /\ wd = "handshake" /\ HasFrame /\ take_buffered_frame
    /\ CASE FrontFrame = "HelloAck" -> wd' = "shell" /\ UNCHANGED <<raw, port>>
         [] FrontFrame = "Error"    -> Exit
         [] OTHER                   -> UNCHANGED <<wd, raw, port>>
    /\ UNCHANGED <<exec, via, gui, sent, wire, stop, threads, told>>

\* No HelloAck in 5 s, or the Hello could not be written.
handshake_Fails ==
    /\ wd = "handshake" /\ via = "serial" /\ Exit
    /\ UNCHANGED <<exec, via, gui, sent, wire, rx_buf, got, stop, threads, told>>

\* On the socket the relay opened the shell; on serial it is sent from here.
\* Then raw mode and the bridge's threads, or the one-shot runner.
OpenShell ==
    /\ wd = "shell"
    /\ told' = told \cup {"ShellOpen"}
    /\ wd' = IF exec THEN "oneshot" ELSE "bridge"
    /\ threads' = [t \in BridgeThreads |-> IF exec /\ t # "heartbeat" THEN "off" ELSE "run"]
    /\ raw' = ~exec
    /\ UNCHANGED <<exec, via, gui, port, sent, wire, rx_buf, got, stop>>

\* The ShellOpen could not be written, or it was and raw mode is refused: an
\* early return, with no goodbye.
OpenShell_Fails ==
    /\ wd = "shell" /\ Exit
    /\ \/ UNCHANGED told
       \/ ~exec /\ told' = told \cup {"ShellOpen"}
    /\ UNCHANGED <<exec, via, gui, sent, wire, rx_buf, got, stop, threads>>

\* run_exec_oneshot: the runner (module ExecRun) returns a code or an error;
\* the heartbeat thread is stopped and joined.
run_exec_oneshot ==
    /\ wd = "oneshot" /\ stop = "no"
    /\ stop' = "yes"
    /\ UNCHANGED <<exec, wd, via, gui, port, sent, wire, rx_buf, got, threads, raw, told>>

----------------------------------------------------------------------------
(* The interactive bridge.                                                 *)

\* (mutant) a dead socket is retried like a serial line
NeverGivesUp == FALSE
\* is_connected of the transport after a failed read.
SocketGone == Eof

reader_thread ==
    /\ ReaderReads
    /\ \/ /\ HasFrame /\ take_buffered_frame /\ UNCHANGED wire
          /\ stop' = IF FrontFrame \in {"ShellExit", "Disconnect"} THEN "yes" ELSE stop
       \/ ReadSome /\ UNCHANGED stop
       \/ /\ ~HasFrame /\ wire = <<>>
          /\ stop' = IF SocketGone THEN "yes" ELSE stop
          /\ RecvTimeout /\ UNCHANGED <<wire, got>>
    /\ UNCHANGED <<exec, wd, via, gui, port, sent, threads, raw, told>>

\* Every loop checks stop between two steps; stdin_pump only after a read.
ThreadSeesStop(t) ==
    /\ threads[t] = "run" /\ stop = "yes" /\ t # "stdin"
    /\ threads' = [threads EXCEPT ![t] = "done"]
    /\ UNCHANGED <<exec, wd, via, gui, port, sent, wire, rx_buf, got, stop, raw, told>>

\* stdin_pump: the user types (forwarded), quits, closes stdin, or a send
\* fails; the read may also stay parked for ever.
stdin_pump ==
    /\ threads.stdin = "run" /\ wd # "exited"
    /\ \/ told' = told \cup {"ShellInput"} /\ UNCHANGED <<stop, threads>>
       \/ stop' = "yes" /\ threads' = [threads EXCEPT !.stdin = "done"] /\ UNCHANGED told
    /\ UNCHANGED <<exec, wd, via, gui, port, sent, wire, rx_buf, got, raw>>

\* (mutant) the supervisor joins the stdin pump as well
JoinsAll == BridgeThreads
Waited == Joined

bridge_loop ==
    /\ wd \in {"bridge", "oneshot"} /\ stop = "yes"
    /\ \A t \in Waited : threads[t] # "run"
    /\ wd' = "goodbye" /\ raw' = FALSE
    /\ UNCHANGED <<exec, via, gui, port, sent, wire, rx_buf, got, stop, threads, told>>

\* Best effort: ShellClose, Disconnect, then the process ends.
Goodbye ==
    /\ wd = "goodbye" /\ Exit
    /\ told' = told \cup {"ShellClose", "Disconnect"}
    /\ UNCHANGED <<exec, via, gui, sent, wire, rx_buf, got, stop, threads>>

Main == \/ run_BadArguments \/ try_socket_first \/ try_interactive_socket_at
        \/ try_socket_Deadline \/ MainRecv \/ MainEof \/ try_socket_first_Frame
        \/ SerialOpen \/ handshake_Frame \/ handshake_Fails
        \/ OpenShell \/ OpenShell_Fails \/ run_exec_oneshot \/ bridge_loop \/ Goodbye

Next == \/ Main \/ reader_thread \/ stdin_pump \/ GuiDies \/ GuiPort
        \/ PeerSendsBody \/ \E m \in Answers : PeerSends(m)
        \/ \E t \in BridgeThreads : ThreadSeesStop(t)

Spec == Init /\ [][Next]_vars

\* Every thread of wd keeps running; nothing is assumed of the user, the GUI
\* and the host.
FairSpec == /\ Spec /\ WF_vars(Main) /\ WF_vars(reader_thread)
            /\ \A t \in BridgeThreads : WF_vars(ThreadSeesStop(t))

----------------------------------------------------------------------------
(* Properties.                                                             *)

\* The k-th byte from now, if the stream has not slipped.
Due(k) == <<got + 1 + (k - 1) \div FrameBytes, 1 + ((k - 1) % FrameBytes)>>

(* Every frame the peer wrote is received once and in order: a read that   *)
(* times out in the middle of a frame loses no byte of it, so the length-  *)
(* prefixed stream never slips.                                            *)
FramesIntact ==
    LET bytes == rx_buf \o wire
        left == FrameBytes * (Len(sent) - got)
    IN  /\ Len(bytes) = IF HalfSent THEN left - 1 ELSE left
        /\ \A k \in 1 .. Len(bytes) : bytes[k] = Due(k)

(* Once anything raises the stop flag - the quit key, the end of stdin, a  *)
(* send error, the shell's exit, a Disconnect - the invocation ends with   *)
(* the terminal restored and the host told, although the stdin thread may  *)
(* be parked in a read for ever.                                           *)
StopIsAnswered ==
    stop = "yes" ~> (wd = "exited" /\ ~raw /\ {"ShellClose", "Disconnect"} \subseteq told)

(* A GUI that quits while wd rides its socket never leaves wd hanging,     *)
(* neither in the handshake, nor in the bridge, nor in an --exec stream.   *)
GuiDeathEndsIt == (via = "ipc" /\ gui = "dead") ~> (wd = "exited" \/ via # "ipc")
=============================================================================
