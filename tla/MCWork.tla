------------------------------- MODULE MCWork -------------------------------
(***************************************************************************)
(* What the host is asked to do, one part at a time: the browser route and *)
(* the hub of its streams, the run of a command and the writer of its      *)
(* shell, injected input, the file clipboard, the serial port and the      *)
(* browser it starts.  `part' never changes; the variables of the other    *)
(* parts keep their first value.                                           *)
(***************************************************************************)
EXTENDS BrowserHub

CONSTANTS
    Modifiers, Keys, Buttons, LeftButton, ReleasedKeys,   \* HostInput
    Copies, Received, MaxSeq,                             \* FileClipboard
    Sockets, MaxAdapters,                                 \* PortChoice
    Retries, Waits                                        \* BrowserStartup

ASSUME WorkAssumption == LeftButton \in Buttons /\ IsFiniteSet(Modifiers)

VARIABLE part

(* ExecRun and ShellWriter. *)
VARIABLES cmd, pipes, remote, state, phase, pending, compress_buf, emitted, result
VARIABLES at, child, spill, typed, bursts, inbox, writer, buf, shell, stdin, ran, file,
          handed, printed, events

(* HostInput and BrowserStartup. *)
VARIABLES down, session, batch, rest, stuck, handles, stage
VARIABLES enabled, explorer, profile, chromes, listening, worker, launched, tries

(* PortChoice and FileClipboard, on one system or the other. *)
VARIABLES os, plugged, choices, coms, selected, field, port, chosen, missed, opened
VARIABLES lock, open, content, seq, last, found, ours, intact, pc

(* Output with and without a last newline, output that looks like a        *)
(* prompt, compressed output; a line on stderr; payloads of several lines. *)
MCCommands ==
    {c \in [ssh : BOOLEAN, compress : BOOLEAN,
            out : {<<>>, <<"out">>, <<"out", "out$">>, <<"b64">>, <<"b64", "b64">>},
            err : {<<>>, <<"err">>}, tail : BOOLEAN, rc : {0, 3}, lines : 1 .. 3,
            motd : {<<>>, <<"motd#">>}] :
        /\ c.compress <=> c.out \in {<<"b64">>, <<"b64", "b64">>}
        /\ c.ssh \/ c.motd = <<>>
        /\ c.ssh => c.lines < 3
        /\ (c.compress \/ c.out = <<>>) => ~c.tail}

(* Whole and torn lines, shorter and longer than a packet, one not ASCII.  *)
MCPayloads ==
    {<<"x">>, <<"n">>, <<"x", "n">>, <<"x", "x">>, <<"x", "n", "x">>, <<"x", "u", "n">>,
     <<"x", "x", "n">>, <<"x", "n", "x", "n">>, <<"x", "x", "x", "x">>, <<"x", "x", "n", "x", "n">>}

Exec == INSTANCE ExecRun WITH Commands <- MCCommands
Writer == INSTANCE ShellWriter WITH
    MaxPayload <- 2, Payloads <- MCPayloads, MaxBursts <- 2, MaxIdle <- 1,
    slot <- at, state <- shell
Input == INSTANCE HostInput
Startup == INSTANCE BrowserStartup WITH pc <- worker
Ports == INSTANCE PortChoice
Files == INSTANCE FileClipboard WITH Files <- Copies

execvars == <<cmd, pipes, remote, state, phase, pending, compress_buf, emitted, result>>
writervars == <<at, child, spill, typed, bursts, inbox, writer, buf, shell, stdin, ran, file,
                handed, printed, events>>
input == <<down, session, batch, rest, stuck, handles, stage>>
startup == <<enabled, explorer, profile, chromes, listening, worker, launched, tries>>
ports == <<plugged, choices, coms, selected, field, port, chosen, missed, opened>>
files == <<lock, open, content, seq, last, found, ours, intact, pc>>

mcvars == <<part, vars, execvars, writervars, input, startup, os, ports, files>>

MCInit ==
    /\ part \in {"hub", "exec", "writer", "input", "startup", "ports", "files"}
    /\ Init
    /\ Exec!Init
    /\ part # "exec" => cmd = [ssh |-> FALSE, compress |-> FALSE, out |-> <<>>, err |-> <<>>,
                               tail |-> FALSE, rc |-> 0, lines |-> 1, motd |-> <<>>]
    /\ Writer!Init /\ (part # "writer" => ~spill)
    /\ Input!Init
    /\ Startup!Init
    /\ part # "startup" => explorer = "own" /\ ~enabled /\ ~profile /\ ~listening
    /\ Ports!Init
    /\ part \notin {"ports", "files"} => os = "mac"
    /\ part # "ports" => port = IF os = "mac" THEN <<>> ELSE <<"com", 1>>
    /\ Files!Init

MCNext ==
    \/ /\ part = "hub" /\ Next
       /\ UNCHANGED <<part, execvars, writervars, input, startup, os, ports, files>>
    \/ /\ part = "exec" /\ Exec!Next
       /\ UNCHANGED <<part, vars, writervars, input, startup, os, ports, files>>
    \/ /\ part = "writer" /\ Writer!Next
       /\ UNCHANGED <<part, vars, execvars, input, startup, os, ports, files>>
    \/ /\ part = "input" /\ Input!Next
       /\ UNCHANGED <<part, vars, execvars, writervars, startup, os, ports, files>>
    \/ /\ part = "startup" /\ Startup!Next
       /\ UNCHANGED <<part, vars, execvars, writervars, input, os, ports, files>>
    \/ /\ part = "ports" /\ Ports!Next
       /\ UNCHANGED <<part, vars, execvars, writervars, input, startup, files>>
    \/ /\ part = "files" /\ Files!Next
       /\ UNCHANGED <<part, vars, execvars, writervars, input, startup, ports>>

MCSpec == MCInit /\ [][MCNext]_mcvars

----------------------------------------------------------------------------
(* A run ends with the command's own code and all of its output, and       *)
(* passes on nothing else; the shell executes the bytes that were typed,   *)
(* each once and in order, and a script outlives its writer only with a    *)
(* shell that was killed; and wd's command opens the only adapter there is.*)
CommandsRunExactly ==
    /\ part = "exec" => Exec!CodeIsTheCommands /\ Exec!OutputIsComplete /\ Exec!NothingForeign
    /\ part = "writer" => Writer!RunsWhatWasTyped /\ Writer!OnlyAKillLeavesTheScript
    /\ part = "ports" => Ports!TheOnlyAdapterIsOpened

(* What was taken is given back and what was chosen is used: the credits   *)
(* of every epoch, the streams of a reset, the keys of a batch that was    *)
(* cut short, the handles of a capture, the clipboard after a call, the    *)
(* port the user chose; and one browser is started, as the user.           *)
NothingIsLeftTaken ==
    /\ part = "hub" => CreditsMatchHolders /\ TableIsOfThisEpoch
    /\ part = "input" => Input!BatchLetsGo /\ Input!HandlesReturned
    /\ part = "files" => Files!CallsLeaveNothingBehind
    /\ part = "ports" => Ports!FieldIsTheChoice
    /\ part = "startup" => Startup!OneBrowserOfTheUser

(* Neither a companion whose route was taken away nor a worker of an       *)
(* earlier epoch is heard by the other end.                                *)
NothingStaleIsSent == EarlierCompanionIsSilent /\ OnlyThisEpochIsSent
=============================================================================
