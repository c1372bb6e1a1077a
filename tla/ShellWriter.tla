---------------------------- MODULE ShellWriter ----------------------------
(***************************************************************************)
(* One pipe-mode shell of the host, shell.rs: the writer thread that feeds *)
(* its stdin and moves a long PowerShell command into a script file, the   *)
(* reader thread that queues its output, and the session that warms the    *)
(* shell up, hands it to a command, closes and kills it.                   *)
(*                                                                         *)
(* The bytes a client has sent are known by their position: typed[i] is    *)
(* the i-th one, and buffers hold positions.                               *)
(***************************************************************************)
EXTENDS Naturals, Sequences, SequencesExt, FiniteSets

CONSTANTS
    MaxPayload,   \* MAX_PAYLOAD, and with it SPILL_THRESHOLD
    Payloads,     \* what a command may send: sequences of "x", "u" and "n"
    MaxBursts,    \* bound: payloads sent to one shell
    MaxIdle       \* bound: chunks the shell prints while it waits

VARIABLES
    slot,     \* "warm", "exec", "closing", "gone": where the session holds it;
              \* "crashed" when the host itself died
    child,    \* "runs" or "dead"
    spill,    \* writer_thread_pipe's spill: a PowerShell with an ASCII path
    typed,    \* every byte sent: "x" ASCII, "u" not ASCII, "n" line feed
    bursts,   \* payloads sent so far
    inbox,    \* stdin_tx: packets of positions, and Close
    writer,   \* "runs", "ends" or "done"
    buf,      \* writer_thread_pipe's buf
    state,    \* WriterState
    stdin,    \* the pipe: positions, and Script
    ran,      \* what the shell has executed: positions, and Mangled
    file,     \* the script's block, <<>> when there is no file
    handed,   \* PowerShellSpill::handed_over
    printed,  \* chunks printed while waiting, not yet read by the reader thread
    events    \* of those, the ones in events_rx

vars == <<slot, child, spill, typed, bursts, inbox, writer, buf, state,
          stdin, ran, file, handed, printed, events>>
input == <<typed, bursts, inbox>>
thread == <<writer, buf, state>>
shell == <<child, stdin, ran, printed>>
script == <<file, handed>>
output == <<events>>

Close == <<>>    \* ShellInput::Close; a packet of data is never empty
Script == 0      \* the line that reads, deletes and dot-sources the file
Mangled == 0     \* something nobody typed was executed

Init ==
    /\ slot = "warm" /\ child = "runs" /\ spill \in BOOLEAN
    /\ typed = <<>> /\ bursts = 0 /\ inbox = <<>>
    /\ writer = "runs" /\ buf = <<>>
    /\ state = [mid_line |-> FALSE, spill_allowed |-> TRUE]
    /\ stdin = <<>> /\ ran = <<>>
    /\ file = <<>> /\ handed = FALSE
    /\ printed = 0 /\ events = 0

----------------------------------------------------------------------------
(* The session.                                                            *)

(* shell_input_packets: a run of full packets closed by a shorter one. *)
Packets(block) ==
    LET count == (Len(block) + MaxPayload - 1) \div MaxPayload
        End(k) == IF k * MaxPayload < Len(block) THEN k * MaxPayload ELSE Len(block)
    IN  [k \in 1..count |-> SubSeq(block, (k - 1) * MaxPayload + 1, End(k))]

(* drain_pending, when take_warm_or_spawn hands the waiting shell over. *)
take_warm_or_spawn ==
    /\ slot = "warm"
    /\ slot' = "exec" /\ events' = 0
    /\ UNCHANGED spill /\ UNCHANGED <<input, thread, shell, script>>

(* A payload arrives as its ShellInput packets. *)
ShellInput(payload) ==
    /\ slot = "exec" /\ bursts < MaxBursts
    /\ bursts' = bursts + 1
    /\ typed' = typed \o payload
    /\ inbox' = inbox \o Packets([i \in DOMAIN payload |-> Len(typed) + i])
    /\ UNCHANGED <<slot, spill>> /\ UNCHANGED <<thread, shell, script, output>>

(* ShellClose: close, and then kill; warm_kill is a kill alone, and its    *)
(* Drop closes the channel.                                                *)
close ==
    /\ slot = "exec"
    /\ slot' = "closing" /\ inbox' = Append(inbox, Close)
    /\ UNCHANGED <<spill, typed, bursts>>
    /\ UNCHANGED <<thread, shell, script, output>>

kill ==
    /\ slot \in {"warm", "closing"}
    /\ slot' = "gone" /\ child' = "dead"
    /\ inbox' = (IF slot = "warm" THEN Append(inbox, Close) ELSE inbox)
    /\ events' = 0
    /\ UNCHANGED <<spill, typed, bursts, stdin, ran, printed>>
    /\ UNCHANGED <<thread, script>>

(* The host dies with everything but the shell and the file. *)
HostDies ==
    /\ slot # "gone" /\ slot # "crashed"
    /\ slot' = "crashed" /\ writer' = "done"
    /\ inbox' = <<>> /\ buf' = <<>> /\ events' = 0
    /\ UNCHANGED <<spill, typed, bursts, state>> /\ UNCHANGED <<shell, script>>

(* vacuum_stale_spills at the next start: a script an hour old, by when    *)
(* the shell has read what it was going to read.                           *)
vacuum_stale_spills ==
    /\ slot \in {"gone", "crashed"} /\ writer = "done" /\ file # <<>>
    /\ child = "dead" \/ Script \notin Range(stdin)
    /\ file' = <<>>
    /\ UNCHANGED <<slot, spill, handed>> /\ UNCHANGED <<input, thread, shell, output>>

Pump ==
    /\ slot = "exec" /\ events > 0
    /\ events' = events - 1
    /\ UNCHANGED <<slot, spill>> /\ UNCHANGED <<input, thread, shell, script>>

----------------------------------------------------------------------------
(* The writer thread.                                                      *)

IsLine(s) == s # <<>> /\ typed[Last(s)] = "n"
Ascii(s) == \A i \in DOMAIN s : typed[s[i]] # "u"

(* write_buffered's spillable: a whole payload, the first this shell gets. *)
Spillable(b) ==
    /\ spill /\ state.spill_allowed /\ ~state.mid_line
    /\ IsLine(b) /\ Len(b) > MaxPayload

(* WriterState after a block was written as it stood. *)
StateAfter(b) ==
    IF b = <<>> THEN state ELSE [mid_line |-> ~IsLine(b), spill_allowed |-> FALSE]

(* write_flush of a block, line by line; to a dead child it fails, and the *)
(* thread ends.                                                            *)
WriteThrough(b, bytes, after, next) ==
    /\ buf' = <<>>
    /\ IF child = "dead" /\ b # <<>>
         THEN writer' = "ends" /\ UNCHANGED <<state, stdin>>
         ELSE writer' = next /\ state' = after /\ stdin' = stdin \o bytes

(* dot_source_block: the block goes to a file that must not exist yet, and *)
(* one line that reads it goes to the shell.  A file that cannot be made,  *)
(* or only in part, sends the block the ordinary way.                      *)
dot_source_block(b, next) ==
    /\ Spillable(b) /\ Ascii(b) /\ file = <<>>
    /\ file' = b /\ handed' = TRUE
    /\ WriteThrough(b, <<Script>>, [mid_line |-> FALSE, spill_allowed |-> FALSE], next)

CannotSpill(b, next) ==
    /\ Spillable(b) => ~Ascii(b) \/ file # <<>>
    /\ UNCHANGED script
    /\ WriteThrough(b, b, StateAfter(b), next)

SpillFails(b, next) ==
    /\ Spillable(b) /\ Ascii(b) /\ file = <<>>
    /\ file' \in {<<>>, SubSeq(b, 1, 1)} /\ UNCHANGED handed
    /\ WriteThrough(b, b, StateAfter(b), next)

write_buffered(b, next) == dot_source_block(b, next) \/ CannotSpill(b, next) \/ SpillFails(b, next)

(* Only a packet shorter than MAX_PAYLOAD ends a burst. *)
BurstContinues(packet) == Len(packet) >= MaxPayload

(* A packet of data: buffered, and written once the burst is over. *)
TakeData ==
    /\ writer = "runs" /\ inbox # <<>> /\ Head(inbox) # Close
    /\ inbox' = Tail(inbox)
    /\ IF BurstContinues(Head(inbox))
         THEN buf' = buf \o Head(inbox) /\ UNCHANGED <<writer, state, stdin>> /\ UNCHANGED script
         ELSE write_buffered(buf \o Head(inbox), "runs")
    /\ UNCHANGED <<slot, child, spill, typed, bursts, ran, printed>> /\ UNCHANGED output

(* BURST_GRACE passed without another packet. *)
GraceExpires ==
    /\ writer = "runs" /\ buf # <<>>
    /\ write_buffered(buf, "runs")
    /\ UNCHANGED <<slot, child, spill, ran, printed>> /\ UNCHANGED <<input, output>>

(* What is buffered is written before the thread ends. *)
TakeClose ==
    /\ writer = "runs" /\ inbox # <<>> /\ Head(inbox) = Close
    /\ inbox' = Tail(inbox)
    /\ write_buffered(buf, "ends")
    /\ UNCHANGED <<slot, child, spill, typed, bursts, ran, printed>> /\ UNCHANGED output

CleanedAlways == <<>>

NeverCleaned == file

(* cleanup: a script the shell was never told of is removed. *)
CleanedUp == IF handed THEN file ELSE <<>>

(* The thread's last step. *)
cleanup ==
    /\ writer = "ends" /\ writer' = "done"
    /\ file' = CleanedUp
    /\ UNCHANGED <<slot, spill, handed, buf, state>> /\ UNCHANGED <<input, shell, output>>

----------------------------------------------------------------------------
(* The shell, and the thread that reads its output.                        *)

Breaks == {i \in DOMAIN stdin : stdin[i] = Script \/ typed[stdin[i]] = "n"}
FirstLine == SubSeq(stdin, 1, CHOOSE i \in Breaks : \A j \in Breaks : i <= j)

(* The shell reads a line and executes it; a script line by itself reads   *)
(* the file and deletes it, then runs what it held.                        *)
RunLine ==
    /\ child = "runs" /\ Breaks # {}
    /\ \E line \in {FirstLine} :
         /\ stdin' = SubSeq(stdin, Len(line) + 1, Len(stdin))
         /\ IF line = <<Script>> /\ file # <<>>
              THEN ran' = ran \o file /\ file' = <<>>
              ELSE /\ ran' = ran \o (IF Last(line) = Script THEN <<Mangled>> ELSE line)
                   /\ UNCHANGED file
    /\ UNCHANGED <<slot, child, spill, handed, printed>> /\ UNCHANGED <<input, thread, output>>

(* A waiting shell prints something nobody asked for. *)
IdlePrint ==
    /\ slot = "warm" /\ child = "runs" /\ printed + events < MaxIdle
    /\ printed' = printed + 1
    /\ UNCHANGED <<slot, child, spill, stdin, ran>>
    /\ UNCHANGED <<input, thread, script, output>>

(* The command ends its shell, or the machine does. *)
ChildExits ==
    /\ slot = "exec" /\ child = "runs"
    /\ child' = "dead"
    /\ UNCHANGED <<slot, spill, stdin, ran, printed>>
    /\ UNCHANGED <<input, thread, script, output>>

stream_to_channel ==
    /\ printed > 0 /\ slot \in {"warm", "exec", "closing"}
    /\ events' = events + 1 /\ printed' = printed - 1
    /\ UNCHANGED <<slot, child, spill, stdin, ran>>
    /\ UNCHANGED <<input, thread, script>>

Next ==
    \/ take_warm_or_spawn \/ close \/ kill \/ Pump \/ HostDies \/ vacuum_stale_spills
    \/ \E payload \in Payloads : ShellInput(payload)
    \/ TakeData \/ GraceExpires \/ TakeClose \/ cleanup
    \/ RunLine \/ IdlePrint \/ ChildExits \/ stream_to_channel

Spec == Init /\ [][Next]_vars

----------------------------------------------------------------------------
Expanded(s) == FlattenSeq([i \in DOMAIN s |-> IF s[i] = Script THEN file ELSE <<s[i]>>])

(* However a command was cut into packets, delayed, buffered or moved to a *)
(* script, the shell executes the bytes that were typed, each once and in  *)
(* order: what it ran, what waits in its stdin with the script read in,    *)
(* what is buffered and what is queued are together what was sent.         *)
RunsWhatWasTyped ==
    child = "runs" /\ slot # "crashed" =>
       ran \o Expanded(stdin) \o buf \o FlattenSeq(inbox) = [i \in DOMAIN typed |-> i]

(* A script on disk (it holds the command, passwords included) outlives    *)
(* the writer only when a shell that was told to read it may still do so   *)
(* or was killed first, or when the host crashed: never one the shell does *)
(* not know of.                                                            *)
OnlyAKillLeavesTheScript ==
    writer = "done" /\ slot # "crashed" /\ file # <<>> =>
       handed /\ (child = "dead" \/ Script \in Range(stdin))
=============================================================================
