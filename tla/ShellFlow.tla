----------------------------- MODULE ShellFlow -----------------------------
(***************************************************************************)
(* How `wd --exec` output is paced beside an open console on a link that   *)
(* buffers writes: ShellFlow and pump_slot in the host's session.rs,       *)
(* RxProgressReporter in the client's link.rs, and the two directions of   *)
(* the link between them.                                                  *)
(*                                                                         *)
(* The host counts the shell output it sent, the client counts what it     *)
(* decoded and reports that count, and exec only tops its unconfirmed      *)
(* bytes back up to a cap.  Counts restart at every handshake; a report    *)
(* may be lost, late, repeated or left over from the session before.       *)
(*                                                                         *)
(* Output is measured in bytes.  Reads have no fixed boundaries: a read is *)
(* any 1..MaxRead bytes, so what a pump drains is a range.                 *)
(***************************************************************************)
EXTENDS Integers, Sequences, FiniteSetsExt, SequencesExt

CONSTANTS
    None,          \* an empty slot
    Cap,           \* EXEC_INFLIGHT_CAP, equal to PUMP_BUDGET_EXEC_SHARED
    PumpBudget,    \* PUMP_BUDGET
    Payload,       \* MAX_PAYLOAD, the most one output packet carries
    MaxRead,       \* the buffer of stream_to_channel
    Stall,         \* RX_PROGRESS_STALL, in units of the clock
    MaxOutput,     \* bound: bytes the shells print in one session
    MaxUp,         \* bound: packets on their way to the host
    MaxHellos      \* bound: Hellos and their answers on the link

ASSUME BudgetAssumption ==
    /\ Cap \in Nat \ {0}
    /\ PumpBudget \in Nat \ {0}
    /\ Payload \in Nat \ {0}
    /\ MaxRead \in Nat \ {0}
    /\ Stall \in Nat \ {0}

ASSUME BoundAssumption == MaxOutput \in Nat /\ MaxUp \in Nat /\ MaxHellos \in Nat

VARIABLES
    (* the host's session thread *)
    at,        \* where in the tick it is
    state,     \* Session::state
    exec,      \* Session::exec
    pty,       \* Session::pty
    (* ShellFlow *)
    sent,
    acked,
    pending,   \* exec_pending, ordered by the end offsets
    peer,      \* peer_reports
    trust,     \* stalled
    behind,    \* unacked_since is Some
    waited,    \* time since max(unacked_since, last_progress), capped at Stall
    (* the link *)
    down,      \* packets on their way to the client
    up,        \* Hellos and reports sent or queued for the host
    (* the client *)
    link,      \* link_up; RxProgressReporter::enabled goes with it
    decoded,
    reported,
    (* history *)
    misled     \* a report that counts another session was taken in this one

host == <<at, state, exec, pty>>

flow == <<sent, acked, pending, peer, trust, behind, waited>>

client == <<link, decoded, reported>>

vars == <<host, flow, down, up, client, misled>>

(* A shell: its child, and the bytes read from it into events_rx. *)
Shell == [child : {"running", "ended"}, ready : Nat]

ASSUME NoneAssumption == None \notin Shell

Send == [end : Nat, len : Nat]

DownPacket == [op : {"HelloAck", "ShellOutput", "PtyOutput"}, len : Nat]

Hello == [op |-> "Hello", bytes |-> 0, of |-> "this"]

(* The client is yet to see the HelloAck of the host's session. *)
AckDue == \E i \in DOMAIN down : down[i].op = "HelloAck"

Report(n) == [op |-> "RxProgress", bytes |-> n,
              of |-> IF AckDue THEN "earlier" ELSE "this"]

UpPacket == [op : {"Hello", "RxProgress"}, bytes : Nat, of : {"this", "earlier"}]

TypeOK ==
    /\ at \in {"release", "pty", "exec", "recv"}
    /\ state \in {"WaitingForHello", "Connected"}
    /\ exec \in Shell \cup {None}
    /\ pty \in Shell \cup {None}
    /\ sent \in Nat /\ acked \in Nat
    /\ pending \in SUBSET Send
    /\ peer \in {"silent", "reports"}
    /\ trust \in {"moving", "stalled"}
    /\ behind \in {"behind", "caught_up"}
    /\ waited \in 0..Stall
    /\ down \in Seq(DownPacket)
    /\ up \in Seq(UpPacket)
    /\ link \in {"up", "down"}
    /\ decoded \in Nat /\ reported \in Nat
    /\ misled \in {"no", "yes"}

(* ShellFlow::new. *)
FlowNew ==
    /\ sent' = 0 /\ acked' = 0
    /\ pending' = {}
    /\ peer' = "silent"
    /\ trust' = "moving"
    /\ behind' = "caught_up"
    /\ waited' = 0

(* A link has just been opened: the writer's first packet is its Hello.    *)
Init ==
    /\ at = "release"
    /\ state = "WaitingForHello"
    /\ exec = None /\ pty = None
    /\ sent = 0 /\ acked = 0
    /\ pending = {}
    /\ peer = "silent"
    /\ trust = "moving"
    /\ behind = "caught_up"
    /\ waited = 0
    /\ down = <<>>
    /\ up = <<Hello>>
    /\ link = "down"
    /\ decoded = 0 /\ reported = 0
    /\ misled = "no"

----------------------------------------------------------------------------
(* ShellFlow's arithmetic.                                                 *)

(* chunks(MAX_PAYLOAD) over n bytes of output. *)
PieceCount(n) == (n + Payload - 1) \div Payload

PieceEnd(n, i) == IF i * Payload < n THEN i * Payload ELSE n

PieceLen(n, i) == PieceEnd(n, i) - (i - 1) * Payload

(* How much of a pending send the client has not confirmed: len.min(end -  *)
(* acked).                                                                 *)
Unconfirmed(p) == IF p.end - acked < p.len THEN p.end - acked ELSE p.len

ExecInFlight == SumFunction([p \in pending |-> Unconfirmed(p)])

PacingAfterAnyReport == peer = "reports"

(* ShellFlow::pacing. *)
Pacing == peer = "reports" /\ trust = "moving"

BudgetIgnoresFlight == Cap

(* inflight_exec_budget: the saturating difference. *)
InflightExecBudget == IF ExecInFlight >= Cap THEN 0 ELSE Cap - ExecInFlight

(* exec_pump_budget; the shared budget is the cap.  Whether the console    *)
(* was used within PTY_QUIET_BEFORE_FULL_EXEC is left open.                *)
ExecPumpBudgets == IF pty = None THEN {PumpBudget} ELSE {Cap, PumpBudget}

(* Session::exec_budget_at on a link that buffers sends. *)
ExecBudgets ==
    IF pty # None /\ Pacing THEN {InflightExecBudget} ELSE ExecPumpBudgets

NotedWithoutClock(slot, n) ==
    /\ sent' = sent + n
    /\ pending' = pending \cup
         (IF slot = "exec"
          THEN {[end |-> sent + PieceEnd(n, i), len |-> PieceLen(n, i)] :
                   i \in 1..PieceCount(n)}
          ELSE {})
    /\ UNCHANGED <<acked, peer, trust, behind, waited>>

(* note_sent over the pieces of n bytes of output. *)
NoteSent(slot, n) ==
    /\ sent' = sent + n
    /\ pending' = pending \cup
         (IF slot = "exec"
          THEN {[end |-> sent + PieceEnd(n, i), len |-> PieceLen(n, i)] :
                   i \in 1..PieceCount(n)}
          ELSE {})
    /\ IF n > 0 /\ sent = acked
         THEN behind' = "behind" /\ waited' = 0
         ELSE UNCHANGED <<behind, waited>>
    /\ UNCHANGED <<acked, peer, trust>>

Unclamped(bytes) == bytes

(* A count from before a re-handshake may exceed what was sent. *)
Confirmed(bytes) == IF bytes < sent THEN bytes ELSE sent

(* on_report. *)
OnReport(bytes) ==
    /\ peer' = "reports"
    /\ IF Confirmed(bytes) > acked
         THEN /\ acked' = Confirmed(bytes)
              /\ pending' = {p \in pending : p.end > Confirmed(bytes)}
              /\ trust' = "moving"
              /\ waited' = 0
         ELSE UNCHANGED <<acked, pending, trust, waited>>
    /\ behind' = IF acked' = sent THEN "caught_up" ELSE behind
    /\ UNCHANGED sent

NeverGivesUp == FALSE

StallIsOver == behind = "behind" /\ waited >= Stall

(* release_if_stalled. *)
Release ==
    IF StallIsOver
      THEN /\ acked' = sent
           /\ pending' = {}
           /\ behind' = "caught_up"
           /\ trust' = "stalled"
           /\ UNCHANGED <<sent, peer, waited>>
      ELSE UNCHANGED flow

----------------------------------------------------------------------------
(* The host's tick.                                                        *)

PumpTop ==
    /\ at = "release"
    /\ Release
    /\ at' = "pty"
    /\ UNCHANGED <<state, exec, pty, down, up, client, misled>>

(* What one pump of a slot may drain: whole reads until the budget is met. *)
Drained(slot, budget) ==
    {n \in 0..slot.ready :
        /\ n < budget + MaxRead
        /\ n >= budget \/ n = slot.ready}

Pieces(op, n) ==
    [i \in 1..PieceCount(n) |-> [op |-> op, len |-> PieceLen(n, i)]]

(* pump_slot for the console: its budget is never zero, and its output     *)
(* counts as use.                                                          *)
PumpPty ==
    /\ at = "pty"
    /\ at' = "exec"
    /\ IF pty = None
         THEN UNCHANGED <<pty, flow, down>>
         ELSE \E n \in Drained(pty, PumpBudget) :
                /\ NoteSent("pty", n)
                /\ down' = down \o Pieces("PtyOutput", n)
                /\ pty' = IF pty.child = "ended" THEN None
                          ELSE [pty EXCEPT !.ready = @ - n]
    /\ UNCHANGED <<state, exec, up, client, misled>>

(* pump_slot for exec: a spent budget neither drains nor looks for an      *)
(* exit.                                                                   *)
PumpExec ==
    /\ at = "exec"
    /\ at' = "recv"
    /\ \E budget \in ExecBudgets :
         IF exec = None \/ budget = 0
           THEN UNCHANGED <<exec, flow, down>>
           ELSE \E n \in Drained(exec, budget) :
                  /\ NoteSent("exec", n)
                  /\ down' = down \o Pieces("ShellOutput", n)
                  /\ exec' = IF exec.child = "ended" THEN None
                             ELSE [exec EXCEPT !.ready = @ - n]
    /\ UNCHANGED <<state, pty, up, client, misled>>

(* recv timed out. *)
RecvTimeout ==
    /\ at = "recv"
    /\ at' = "release"
    /\ UNCHANGED <<state, exec, pty, flow, down, up, client, misled>>

FreshShell == [child |-> "running", ready |-> 0]

(* A Hello, in either state: shells die and the counts restart. *)
OnHello ==
    /\ state' = "Connected"
    /\ exec' = None /\ pty' = None
    /\ FlowNew
    /\ down' = Append(down, [op |-> "HelloAck", len |-> 0])

(* Reports behind a Hello count the session it ends. *)
OfEarlier(s) == [i \in DOMAIN s |-> [s[i] EXCEPT !.of = "earlier"]]

(* The next Hello or report.  A report does not use up the tick's packet,  *)
(* so more may follow it; anything else ends the tick.                     *)
Receive ==
    /\ at = "recv"
    /\ up # <<>>
    /\ up' = IF Head(up).op = "Hello" THEN OfEarlier(Tail(up)) ELSE Tail(up)
    /\ LET p == Head(up) IN
         \/ /\ p.op = "Hello"
            /\ at' = "release"
            /\ OnHello
            /\ misled' = "no"
         \/ /\ p.op = "RxProgress" /\ state = "Connected"
            /\ at' \in {"recv", "release"}
            /\ OnReport(p.bytes)
            /\ misled' = IF p.of = "earlier" THEN "yes" ELSE misled
            /\ UNCHANGED <<state, exec, pty, down>>
         \/ /\ p.op = "RxProgress" /\ state = "WaitingForHello"
            /\ at' = "release"
            /\ UNCHANGED <<state, exec, pty, flow, down, misled>>
    /\ UNCHANGED client

(* ShellOpen and ShellClose, PtyOpen and PtyClose.  The client may send    *)
(* them at any time.                                                       *)
OpenOrCloseExec ==
    /\ at = "recv" /\ state = "Connected"
    /\ at' = "release"
    /\ exec' = IF exec = None THEN FreshShell ELSE None
    /\ UNCHANGED <<state, pty, flow, down, up, client, misled>>

OpenOrClosePty ==
    /\ at = "recv" /\ state = "Connected"
    /\ at' = "release"
    /\ pty' = IF pty = None THEN FreshShell ELSE None
    /\ UNCHANGED <<state, exec, flow, down, up, client, misled>>

(* The heartbeat ran out: shells die, the counts stay until a Hello. *)
HeartbeatTimeout ==
    /\ at = "release" /\ state = "Connected"
    /\ state' = "WaitingForHello"
    /\ exec' = None /\ pty' = None
    /\ UNCHANGED <<at, flow, down, up, client, misled>>

----------------------------------------------------------------------------
(* The shells and the clock.                                               *)

Held(slot) == IF slot = None THEN 0 ELSE slot.ready

RoomOut(n) == sent + Held(exec) + Held(pty) + n <= MaxOutput

(* stream_to_channel: one read.  The pipe outlives the child, so a read    *)
(* may come after its end.                                                 *)
ReadExec ==
    /\ exec # None
    /\ \E n \in 1..MaxRead :
          RoomOut(n) /\ exec' = [exec EXCEPT !.ready = @ + n]
    /\ UNCHANGED <<at, state, pty, flow, down, up, client, misled>>

ReadPty ==
    /\ pty # None
    /\ \E n \in 1..MaxRead :
          RoomOut(n) /\ pty' = [pty EXCEPT !.ready = @ + n]
    /\ UNCHANGED <<at, state, exec, flow, down, up, client, misled>>

ExecEnds ==
    /\ exec # None /\ exec.child = "running"
    /\ exec' = [exec EXCEPT !.child = "ended"]
    /\ UNCHANGED <<at, state, pty, flow, down, up, client, misled>>

PtyEnds ==
    /\ pty # None /\ pty.child = "running"
    /\ pty' = [pty EXCEPT !.child = "ended"]
    /\ UNCHANGED <<at, state, exec, flow, down, up, client, misled>>

Tock ==
    /\ behind = "behind" /\ waited < Stall
    /\ waited' = waited + 1
    /\ UNCHANGED <<host, sent, acked, pending, peer, trust, behind, down, up, client, misled>>

----------------------------------------------------------------------------
(* The client.                                                             *)

RoomUp == Len(up) < MaxUp

RoomHello ==
    Len(SelectSeq(up \o down, LAMBDA p : p.op \in {"Hello", "HelloAck"})) < MaxHellos

ResetKeepsCount == reported' = 0 /\ UNCHANGED decoded

(* RxProgressReporter::reset on a HelloAck from a host that takes reports. *)
ReporterReset == reported' = 0 /\ decoded' = 0

(* reader_loop: a HelloAck restarts the reporter, output is counted. *)
Decode ==
    /\ down # <<>>
    /\ down' = Tail(down)
    /\ LET p == Head(down) IN
         IF p.op = "HelloAck"
           THEN link' = "up" /\ ReporterReset
           ELSE decoded' = decoded + p.len /\ UNCHANGED <<link, reported>>
    /\ UNCHANGED <<host, flow, up, misled>>

(* RxProgressReporter::due.  Reports stop without a console and come 50 ms *)
(* apart at least: the client may hold one back for as long as it likes.   *)
ReportDue == link = "up" /\ decoded # reported

SendReport ==
    /\ ReportDue /\ RoomUp
    /\ up' = Append(up, Report(decoded))
    /\ reported' = decoded
    /\ UNCHANGED <<host, flow, down, link, decoded, misled>>

(* writer_thread repeats its Hello until the link is up.  It goes straight *)
(* to the transport, ahead of the reports still queued.                    *)
WriterRepeatsHello ==
    /\ link = "down" /\ RoomUp /\ RoomHello
    /\ \E i \in 1..Len(up) + 1 : up' = InsertAt(up, i, Hello)
    /\ UNCHANGED <<host, flow, down, client, misled>>

(* The link is lost and opened again: what was on it is gone, and both     *)
(* ends start a new session or reader.  The client's queue outlives the    *)
(* link, so its reports of the old session follow the new Hello.           *)
Reconnect ==
    /\ down' = <<>>
    /\ \E i \in 1..Len(up) + 1 :
          /\ \A k \in i..Len(up) : up[k].op = "RxProgress"
          /\ up' = <<Hello>> \o SubSeq(up, i, Len(up))
    /\ at' = "release"
    /\ state' = "WaitingForHello"
    /\ exec' = None /\ pty' = None
    /\ FlowNew
    /\ link' = "down"
    /\ decoded' = 0 /\ reported' = 0
    /\ misled' = "no"

----------------------------------------------------------------------------
Thread == PumpTop \/ PumpPty \/ PumpExec \/ RecvTimeout \/ Receive

Shells == ReadExec \/ ReadPty \/ ExecEnds \/ PtyEnds

Client == Decode \/ SendReport \/ WriterRepeatsHello

Next ==
    \/ Thread \/ OpenOrCloseExec \/ OpenOrClosePty \/ HeartbeatTimeout
    \/ Shells \/ Tock
    \/ Client \/ Reconnect

Spec == Init /\ [][Next]_vars

(* The session thread keeps ticking and the clock keeps running; nothing   *)
(* is assumed of the client, the link or the shells.                       *)
Fairness == WF_vars(Thread) /\ WF_vars(Tock)

FairSpec == Spec /\ Fairness

----------------------------------------------------------------------------
(* Safety.                                                                 *)

(* The confirmed count never passes the sent one, and every pending exec   *)
(* send is a run of sent bytes that ends past the confirmed count and      *)
(* overlaps no other, so `end - acked` in exec_in_flight never underflows  *)
(* u64 and no byte is counted twice, stale reports included.               *)
AccountsBalance ==
    /\ acked <= sent
    /\ \A p \in pending : 0 < p.len /\ p.len <= p.end /\ acked < p.end /\ p.end <= sent
    /\ \A p, q \in pending : p.end < q.end => p.end <= q.end - q.len
    /\ \A p, q \in pending : p.end = q.end => p = q

(* The stall clock runs exactly while something is unconfirmed: an armed   *)
(* clock with nothing to wait for would end pacing for no reason, an       *)
(* unarmed one would let a lost report freeze exec for good.               *)
StallClockArmed == behind = "behind" <=> acked < sent

Bytes(s, ops) ==
    SumFunction([i \in DOMAIN s |-> IF s[i].op \in ops THEN s[i].len ELSE 0])

(* The packets on their way after the last HelloAck among them. *)
OfThisSession ==
    LET acks == {i \in DOMAIN down : down[i].op = "HelloAck"} IN
      IF acks = {} THEN down ELSE SubSeq(down, Max(acks) + 1, Len(down))

(* Both ends count the same bytes: what the host sent since the handshake  *)
(* is what the client decoded since its HelloAck plus what is still on the *)
(* way, through repeated Hellos and reconnects.                            *)
SameBytesCounted ==
    sent = Bytes(OfThisSession, {"ShellOutput", "PtyOutput"})
             + (IF AckDue THEN 0 ELSE decoded)

ExecOnWire == Bytes(down, {"ShellOutput"})

(* While exec is paced, the bytes the host believes in flight cover the    *)
(* exec bytes really on the link, so the cap bounds what a keystroke's     *)
(* echo queues behind: a stall release does not blind it, since pacing     *)
(* resumes only past the point it gave up at.  Reports left over from an   *)
(* earlier session can mislead it.                                         *)
PacingCoversTheLink ==
    Pacing /\ misled = "no" => ExecOnWire <= ExecInFlight

(* The two ends agree on what is still on the way: their counts differ by  *)
(* it, and while pacing is on it is what the host believes.                *)
EndsAgree == SameBytesCounted /\ PacingCoversTheLink

(* A pump that paces exec leaves less than the cap and one read of it on   *)
(* the link: the check after the sends, on the packets themselves.         *)
CapHolds ==
    [][ (sent' # sent /\ pty # None /\ Pacing /\ misled = "no" /\ PumpExec) =>
          ExecOnWire' < Cap + MaxRead ]_vars

(* A shell that ended is taken down only once all it printed was sent: the *)
(* exit does not cut the command's tail off.                               *)
TailReachesClient ==
    [][ (PumpExec /\ exec # None /\ exec' = None) =>
          sent' = sent + exec.ready ]_vars

----------------------------------------------------------------------------
(* Liveness.                                                               *)

(* Exec output read from the shell is sent in the end, or its slot is      *)
(* emptied, whatever the client reports or fails to report.                *)
ExecNeverFreezes ==
    (exec # None /\ exec.ready > 0) ~> (exec = None \/ exec.ready = 0)

(* An exec shell that ended frees its slot in the end. *)
EndedShellIsFreed ==
    (exec # None /\ exec.child = "ended") ~> (exec = None \/ exec.child = "running")
=============================================================================
