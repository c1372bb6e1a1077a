------------------------------ MODULE ExecRun ------------------------------
(***************************************************************************)
(* One run of `wd --exec`: the sentinel driven runner of wiredesk-exec-core*)
(* (runner.rs, helpers.rs, utf8_stream.rs) against the host's shell.       *)
(*                                                                         *)
(* A line of text is a sequence of fragments; a fragment is a token (what  *)
(* the text says) with the part of it that one read of the host returned   *)
(* ("whole", or "head" and later "rest").  The tokens are the classes the  *)
(* runner's predicates tell apart:                                         *)
(*   PS> / rprompt$      a PowerShell or a remote prompt, no newline       *)
(*   srcReady .. srcDone the shell's echo of the payload: its first line   *)
(*                       (it holds the READY marker), a middle line, the   *)
(*                       last one (it holds the DONE marker)               *)
(*   cont                PowerShell's echo of the closing blank line       *)
(*   READY, DONE         the markers themselves, printed by the wrapper    *)
(*   out, out$, err, b64 what the command writes; out$ ends like a prompt  *)
(*   motd, motd#         the login banner; motd# ends like a prompt        *)
(* The shell, its two pipes and the remote login are external: they do     *)
(* what the comments of runner.rs and helpers.rs say they do.              *)
(***************************************************************************)
EXTENDS Naturals, Sequences, SequencesExt

CONSTANTS Commands      \* the runs tried: records as in the comment of cmd

VARIABLES
    cmd,          \* [ssh, compress : BOOLEAN, out, err : lines, tail : BOOLEAN,
                  \*  rc, lines : payload lines, motd : lines]; tail says the
                  \*  last line of out has no newline
    pipes,        \* what the shell wrote and the host has not read, per stream
    remote,       \* the ssh hop: "none", "login", "ready"; "lost" payload
    state,        \* OneShotState
    phase,        \* Phase
    pending,      \* the fragments since the last newline
    compress_buf, \* fragments collected in --compress mode
    emitted,      \* fragments handed to on_chunk
    result        \* [k |-> "running"], or how run_oneshot returned

vars == <<cmd, pipes, remote, state, phase, pending, compress_buf, emitted, result>>

Piece(t, nl) == [t |-> t, part |-> "whole", nl |-> nl]
Frag(p) == [t |-> p.t, part |-> p.part]
Lines(ts) == [i \in DOMAIN ts |-> Piece(ts[i], TRUE)]
Running == [k |-> "running"]

----------------------------------------------------------------------------
(* The classifiers of helpers.rs, on a line of fragments.                  *)

\* The text of token t stands unbroken at positions i.. of the line.
At(line, t, i) ==
    \/ line[i] = [t |-> t, part |-> "whole"]
    \/ i < Len(line) /\ line[i] = [t |-> t, part |-> "head"]
                     /\ line[i + 1] = [t |-> t, part |-> "rest"]

Holds(line, t) == \E i \in DOMAIN line : At(line, t, i)

\* The whole line is token t and nothing else.
IsJust(line, t) == line # <<>> /\ At(line, t, 1) /\ \A i \in DOMAIN line : line[i].t = t

EndsIn(line, ts) == line # <<>> /\ Last(line).t \in ts /\ Last(line).part # "head"

parse_ready(line) == IsJust(line, "READY")

\* The DONE marker followed by a number.  In --compress mode the source of
\* the wrapper carries it as a literal 0; in the plain one a variable's name
\* follows and the parse fails.
parse_sentinel(line) ==
    \/ Holds(line, "DONE")
    \/ cmd.compress /\ Holds(line, "srcDone")
    \/ cmd.compress /\ cmd.lines = 1 /\ Holds(line, "srcReady")

\* (mutant) only the unexpanded sentinel marks an echo
OnlyTheSentinelEchoes(line) == ~cmd.compress /\ Holds(line, "srcDone")

is_echo_line(line) ==
    \/ Holds(line, "srcReady")
    \/ ~cmd.compress /\ Holds(line, "srcDone")
    \/ Holds(line, "READY") /\ ~IsJust(line, "READY")

is_powershell_prompt(line) == EndsIn(line, {"PS>"}) /\ line[1].t = "PS>" /\ line[1].part # "rest"
is_remote_prompt(line) == EndsIn(line, {"rprompt$", "out$", "motd#"})

\* PowerShell prefixes the second and later lines of an echo with >>.
is_powershell_continuation(line) ==
    /\ ~cmd.ssh
    /\ line # <<>>
    /\ line[1].t \in {"srcMid", "srcDone", "cont"}
    /\ line[1].part # "rest"

looks_like_base64(line) == line # <<>> /\ \A i \in DOMAIN line : line[i].t = "b64"

\* (mutant) the sentinel is expected to stand alone
NothingBefore(line) == <<>>

\* What stands before the sentinel on its line.
BeforeSentinel(line) == SelectSeq(line, LAMBDA f : f.t # "DONE")

\* decode_compressed_stream: the base64 text is whole and in order.
Decodes(buf) ==
    /\ buf # <<>>
    /\ \A i \in DOMAIN buf : buf[i].part = "head" => i < Len(buf) /\ buf[i + 1].part = "rest"
    /\ \A i \in DOMAIN buf : buf[i].part = "rest" => i > 1 /\ buf[i - 1].part = "head"
    /\ Len(SelectSeq(buf, LAMBDA f : f.part # "rest")) = Len(cmd.out)

----------------------------------------------------------------------------
(* The payload and the shell (external).                                   *)

\* The echo of the source format_command and format_compressed_command build.
SourceEcho == CASE cmd.lines = 1 -> <<"srcReady">>
                [] cmd.lines = 2 -> <<"srcReady", "srcDone">>
                [] OTHER         -> <<"srcReady", "srcMid", "srcDone">>

\* terminate_multiline_ps: a payload of several lines is closed by a blank one.
PowerShellEcho == Lines(SourceEcho \o (IF cmd.lines > 1 THEN <<"cont">> ELSE <<>>))

CommandOutput ==
    IF cmd.compress \/ ~cmd.tail \/ cmd.out = <<>>
    THEN Lines(cmd.out)
    ELSE Lines(Front(cmd.out)) \o <<Piece(Last(cmd.out), FALSE)>>

\* What the shell writes once it has the payload.  A plain multi-line payload
\* over ssh starts running at its first line, so the echo of the last line
\* comes after READY; a compressed one is a brace group that runs when closed.
Answer ==
    IF cmd.ssh
    THEN [stdout |-> (IF cmd.compress
                      THEN Lines(SourceEcho) \o Lines(<<"READY">>)
                      ELSE Lines(<<Head(SourceEcho), "READY">> \o Tail(SourceEcho)))
                     \o Lines(cmd.err) \o CommandOutput
                     \o Lines(<<"DONE">>) \o <<Piece("rprompt$", FALSE)>>,
          stderr |-> <<>>]
    ELSE [stdout |-> PowerShellEcho \o Lines(<<"READY">>) \o CommandOutput
                     \o Lines(<<"DONE">>) \o <<Piece("PS>", FALSE)>>,
          stderr |-> Lines(cmd.err)]

\* The payload reaches the shell: after an ssh hop only once the remote has
\* put up its prompt (PowerShell's read-ahead swallows it before that).
Deliver(p) ==
    IF remote = "login"
    THEN remote' = "lost" /\ pipes' = p
    ELSE /\ remote' = remote
         /\ pipes' = [s \in DOMAIN p |-> p[s] \o Answer[s]]

\* A new run: the shell has a prompt up; --ssh starts with the hop, the plain
\* run sends its payload at once.
Init ==
    /\ cmd \in Commands
    /\ pipes = LET warm == [stdout |-> <<Piece("PS>", FALSE)>>, stderr |-> <<>>] IN
               IF cmd.ssh THEN [warm EXCEPT !.stdout = @ \o Lines(<<"motd">>)]
                          ELSE [s \in DOMAIN warm |-> warm[s] \o Answer[s]]
    /\ remote = IF cmd.ssh THEN "login" ELSE "none"
    /\ state = IF cmd.ssh THEN "AwaitingRemotePrompt" ELSE "AwaitingSentinel"
    /\ phase = IF cmd.ssh THEN "Mute" ELSE "MuteNoise"
    /\ pending = <<>> /\ compress_buf = <<>> /\ emitted = <<>>
    /\ result = Running

\* The remote end of the hop prints its banner, then its prompt.
RemoteLogsIn ==
    /\ result = Running
    /\ remote \in {"login", "lost"}
    /\ remote' = IF remote = "login" THEN "ready" ELSE "gone"
    /\ pipes' = [pipes EXCEPT !.stdout = @ \o Lines(cmd.motd) \o <<Piece("rprompt$", FALSE)>>]
    /\ UNCHANGED <<cmd, state, phase, pending, compress_buf, emitted, result>>

----------------------------------------------------------------------------
(* The runner.                                                             *)

\* A completed line while the prompt of the remote is awaited.
PromptLine(line, rest) ==
    /\ IF is_remote_prompt(line)
       THEN Deliver(rest) /\ state' = "AwaitingSentinel"
       ELSE pipes' = rest /\ UNCHANGED <<state, remote>>
    /\ pending' = <<>>
    /\ UNCHANGED <<phase, compress_buf, emitted, result>>

\* (mutant) the sentinel counts before READY was seen
SentinelAnywhere(line) == ~is_echo_line(line) /\ parse_sentinel(line)

IsSentinel(line) == phase = "Streaming" /\ ~is_echo_line(line) /\ parse_sentinel(line)

\* The sentinel ends the run; what is glued in front of it is output.
SentinelLine(line) ==
    LET pre == BeforeSentinel(line)
        keep == pre # <<>> /\ ~is_echo_line(pre)
        buf == IF keep /\ cmd.compress /\ looks_like_base64(pre)
               THEN compress_buf \o pre ELSE compress_buf
    IN  /\ compress_buf' = buf
        /\ CASE cmd.compress /\ buf # <<>> /\ ~Decodes(buf) ->
                  result' = [k |-> "CompressionFailed"] /\ UNCHANGED emitted
             [] cmd.compress /\ buf # <<>> /\ Decodes(buf) ->
                  /\ result' = [k |-> "exit", code |-> cmd.rc]
                  /\ emitted' = emitted \o buf
             [] OTHER ->
                  /\ result' = [k |-> "exit", code |->
                                  IF Holds(line, "DONE") /\ ~cmd.compress THEN cmd.rc ELSE 0]
                  /\ emitted' = IF keep /\ ~cmd.compress THEN emitted \o pre ELSE emitted
        /\ UNCHANGED phase

\* Noise ahead of READY, or a stale prompt while streaming.
IsNoise(line) ==
    \/ phase = "Mute"
    \/ phase = "MuteNoise" /\ (line = <<>> \/ is_powershell_continuation(line))
    \/ is_powershell_prompt(line) \/ is_remote_prompt(line)
    \/ is_echo_line(line)

\* Any other line: the READY marker, noise, or output.
OutputLine(line) ==
    /\ phase' = IF parse_ready(line) THEN "Streaming" ELSE phase
    /\ IF parse_ready(line) \/ IsNoise(line)
       THEN UNCHANGED <<compress_buf, emitted>>
       ELSE IF cmd.compress
       THEN /\ compress_buf' = IF looks_like_base64(line) THEN compress_buf \o line ELSE compress_buf
            /\ UNCHANGED emitted
       ELSE emitted' = emitted \o line /\ UNCHANGED compress_buf
    /\ UNCHANGED result

\* Text without a newline stays pending; a remote prompt is looked for in it.
Partial(text, rest) ==
    /\ IF state = "AwaitingRemotePrompt" /\ is_remote_prompt(text)
       THEN Deliver(rest) /\ state' = "AwaitingSentinel" /\ pending' = <<>>
       ELSE pending' = text /\ pipes' = rest /\ UNCHANGED <<state, remote>>
    /\ UNCHANGED <<phase, compress_buf, emitted, result>>

\* recv_event returns the next piece the host read from stream s.
ShellOutput(s, cut) ==
    /\ result = Running
    /\ pipes[s] # <<>>
    /\ LET p == Head(pipes[s])
           piece == IF cut THEN [p EXCEPT !.part = "head", !.nl = FALSE] ELSE p
           rest == [pipes EXCEPT ![s] = IF cut THEN <<[p EXCEPT !.part = "rest"]>> \o Tail(@)
                                               ELSE Tail(@)]
           text == Append(pending, Frag(piece))
       IN  /\ cut => p.part = "whole"
           /\ IF ~piece.nl THEN Partial(text, rest)
              ELSE IF state = "AwaitingRemotePrompt" THEN PromptLine(text, rest)
              ELSE /\ IF IsSentinel(text) THEN SentinelLine(text) ELSE OutputLine(text)
                   /\ pending' = <<>>
                   /\ pipes' = rest
                   /\ UNCHANGED <<state, remote>>
    /\ UNCHANGED cmd

\* The host's shell dies under the run: its code is the run's code.
ShellExit ==
    /\ result = Running
    /\ result' = [k |-> "ShellExit"]
    /\ UNCHANGED <<cmd, pipes, remote, state, phase, pending, compress_buf, emitted>>

\* The budget runs out, or the transport closes or refuses a send.
GivesUp ==
    /\ result = Running
    /\ \E k \in {"Timeout", "Transport", "Closed"} : result' = [k |-> k]
    /\ UNCHANGED <<cmd, pipes, remote, state, phase, pending, compress_buf, emitted>>

Next == RemoteLogsIn \/ ShellExit \/ GivesUp
        \/ \E s \in {"stdout", "stderr"}, cut \in BOOLEAN : ShellOutput(s, cut)

Spec == Init /\ [][Next]_vars

----------------------------------------------------------------------------
(* Properties.                                                             *)

FragsOf(seq, ts) == SelectSeq(seq, LAMBDA f : f.t \in ts)

\* The fragments of seq are complete tokens: ts in order, nothing missing.
Spells(seq, ts) ==
    /\ \A i \in DOMAIN seq : seq[i].part = "head" => i < Len(seq) /\ seq[i + 1].part = "rest"
    /\ LET starts == SelectSeq(seq, LAMBDA f : f.part # "rest") IN
       [i \in DOMAIN starts |-> starts[i].t] = ts

\* With --compress a stray line of the shell's stderr can break into the
\* base64 text: the line is dropped, and when nothing else was collected the
\* run returns the wrapper's fixed 0 with no output.
StrayStderr == cmd.compress /\ cmd.err # <<>>

PromptLike == "out$" \in {cmd.out[i] : i \in DOMAIN cmd.out}

(* A run that ends in an exit code has the command's own code, taken from  *)
(* the sentinel the command's wrapper printed when it was done - never from*)
(* the shell's echo of the wrapper's source, which reaches the runner first*)
(* and in --compress mode holds a parseable sentinel with code 0.  (Left   *)
(* out: --compress with stray text on stderr, see StrayStderr.)            *)
CodeIsTheCommands ==
    (result.k = "exit" /\ ~StrayStderr) =>
        /\ result.code = cmd.rc
        /\ \A i \in DOMAIN pipes.stdout : pipes.stdout[i].t # "DONE"

(* By the time the run returns the command's code, the caller has been     *)
(* handed everything the command wrote to stdout, whole and in order - even*)
(* when reads cut lines in two, a line of stderr falls between the halves, *)
(* or the last line has no newline - and the line of stderr, if the host   *)
(* read it before the sentinel, although it may have overtaken READY (the  *)
(* first half of a cut one can be taken for the shell's echo, and all of it*)
(* when it falls into the >> echo of a multi-line payload).  Output that   *)
(* ends like a shell prompt is swallowed: commands that print such a line  *)
(* are left out.                                                           *)
OutputIsComplete ==
    (result.k = "exit" /\ ~PromptLike /\ ~StrayStderr) =>
        /\ Spells(FragsOf(emitted, {"out", "b64"}), cmd.out)
        /\ (cmd.lines = 1 /\ ~cmd.compress /\ cmd.err # <<>> /\ pipes.stderr = <<>>) =>
               FragsOf(emitted, {"err"}) # <<>>

(* What the caller is handed is the command's: as long as no stderr line   *)
(* broke into another line, no prompt, banner, marker or echo of the       *)
(* payload is ever passed on.                                              *)
NothingForeign ==
    cmd.err = <<>> => \A i \in DOMAIN emitted : emitted[i].t \in {"out", "out$", "b64"}
=============================================================================
