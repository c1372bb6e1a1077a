----------------------------- MODULE ClientLink -----------------------------
(***************************************************************************)
(* The client's end of the link (link.rs): a supervisor thread that tears  *)
(* down and reopens the transport, the writer and the reader thread of the *)
(* link it spawned, and the UI thread (app.rs) that answers every          *)
(* Disconnected event with a request to reconnect.                         *)
(*                                                                         *)
(* The threads share two cells that IPC handlers read at any moment: the   *)
(* gate `link_up` and the cache `host_info`.  Each store to one of them is *)
(* a step of its own.  A thread is identified by the link it was spawned   *)
(* for; two links, the current and the one before, are told apart.         *)
(***************************************************************************)
EXTENDS Integers, Sequences

CONSTANTS
    None,       \* no host in the cache
    MaxEvents   \* bound: events the supervisor lets pile up for the UI

ASSUME BoundAssumption == MaxEvents \in Nat \ {0}

Links == {0, 1}

ASSUME NoneAssumption == None \notin Links

VARIABLES
    sup,       \* where the supervisor is in its loop
    requests,  \* reconnect requests in its channel
    events,    \* transport events on their way to the UI
    ui,        \* App::state
    cur,       \* the link last spawned
    writer,    \* per link, where its writer is
    reader,    \* per link, where its reader is
    shutdown,  \* LinkHandles::shutdown
    rx,        \* who holds outgoing_rx
    gate,      \* link_up
    info,      \* host_info: the link whose HelloAck filled it
    wire,      \* what the current transport is good for
    acks       \* HelloAcks on their way from the host

threads == <<writer, reader, shutdown>>

vars == <<sup, requests, events, ui, cur, threads, rx, gate, info, wire, acks>>

WriterAt == {"none", "hello", "loop", "failing", "failed", "done"}

ReaderAt == {"none", "loop", "acked", "raised", "left", "cleared", "done"}

TypeOK ==
    /\ sup \in {"waiting", "lower", "clear", "join_writer", "join_reader",
                "open", "opening", "clone", "drain", "spawn"}
    /\ requests \in Nat
    /\ events \in Seq({"Connected", "Disconnected", "Reconnecting"})
    /\ ui \in {"Connecting", "Connected", "Disconnected", "Reconnecting"}
    /\ cur \in Links
    /\ writer \in [Links -> WriterAt]
    /\ reader \in [Links -> ReaderAt]
    /\ shutdown \in [Links -> {"no", "yes"}]
    /\ rx \in {"supervisor", "writer"}
    /\ gate \in {"up", "down"}
    /\ info \in Links \cup {None}
    /\ wire \in {"alive", "silent", "broken"}
    /\ acks \in 0..2

(* main.rs: the first connection goes through a request, too. *)
Init ==
    /\ sup = "waiting"
    /\ requests = 1
    /\ events = <<>>
    /\ ui = "Connecting"
    /\ cur = 0
    /\ writer = [l \in Links |-> "none"]
    /\ reader = [l \in Links |-> "none"]
    /\ shutdown = [l \in Links |-> "no"]
    /\ rx = "supervisor"
    /\ gate = "down"
    /\ info = None
    /\ wire = "silent"
    /\ acks = 0

----------------------------------------------------------------------------
(* The supervisor.                                                         *)

TakeRequest ==
    /\ sup = "waiting" /\ requests > 0
    /\ requests' = requests - 1
    /\ sup' = "lower"
    /\ UNCHANGED <<events, ui, cur, threads, rx, gate, info, wire, acks>>

LowerGate ==
    /\ sup = "lower"
    /\ gate' = "down"
    /\ sup' = "clear"
    /\ UNCHANGED <<requests, events, ui, cur, threads, rx, info, wire, acks>>

(* The cache is cleared; if there is a link, both its threads are told.    *)
ClearCache ==
    /\ sup = "clear"
    /\ info' = None
    /\ IF writer[cur] = "none"
         THEN sup' = "open" /\ UNCHANGED shutdown
         ELSE sup' = "join_writer" /\ shutdown' = [shutdown EXCEPT ![cur] = "yes"]
    /\ UNCHANGED <<requests, events, ui, cur, writer, reader, rx, gate, wire, acks>>

WriterJoinedKeepsReceiver ==
    /\ sup = "join_writer" /\ writer[cur] = "done"
    /\ writer' = [writer EXCEPT ![cur] = "none"]
    /\ sup' = "join_reader"
    /\ UNCHANGED <<requests, events, ui, cur, reader, shutdown, rx, gate, info, wire, acks>>

JoinWriter ==
    /\ sup = "join_writer" /\ writer[cur] = "done"
    /\ writer' = [writer EXCEPT ![cur] = "none"]
    /\ rx' = "supervisor"
    /\ sup' = "join_reader"
    /\ UNCHANGED <<requests, events, ui, cur, reader, shutdown, gate, info, wire, acks>>

ReaderLeftBehind ==
    /\ sup = "join_reader"
    /\ sup' = "open"
    /\ UNCHANGED <<requests, events, ui, cur, threads, rx, gate, info, wire, acks>>

JoinReader ==
    /\ sup = "join_reader" /\ reader[cur] = "done"
    /\ reader' = [reader EXCEPT ![cur] = "none"]
    /\ sup' = "open"
    /\ UNCHANGED <<requests, events, ui, cur, writer, shutdown, rx, gate, info, wire, acks>>

(* Every attempt is announced before it is made. *)
Attempt ==
    /\ sup = "open" /\ Len(events) < MaxEvents
    /\ events' = Append(events, "Reconnecting")
    /\ sup' = "opening"
    /\ UNCHANGED <<requests, ui, cur, threads, rx, gate, info, wire, acks>>

OpenFails ==
    /\ sup = "opening"
    /\ sup' = "open"
    /\ UNCHANGED <<requests, events, ui, cur, threads, rx, gate, info, wire, acks>>

OpenSucceeds ==
    /\ sup = "opening"
    /\ sup' = "clone"
    /\ UNCHANGED <<requests, events, ui, cur, threads, rx, gate, info, wire, acks>>

(* try_clone failed: the UI is told as for any lost link. *)
CloneFails ==
    /\ sup = "clone"
    /\ events' = Append(events, "Disconnected")
    /\ sup' = "waiting"
    /\ UNCHANGED <<requests, ui, cur, threads, rx, gate, info, wire, acks>>

CloneSucceeds ==
    /\ sup = "clone"
    /\ sup' = "drain"
    /\ UNCHANGED <<requests, events, ui, cur, threads, rx, gate, info, wire, acks>>

(* Duplicate requests of the dead link go before the new one is spawned.   *)
DrainRequests ==
    /\ sup = "drain"
    /\ requests' = 0
    /\ sup' = "spawn"
    /\ UNCHANGED <<events, ui, cur, threads, rx, gate, info, wire, acks>>

(* spawn_link: an open port is not yet a usable link, so the gate stays.   *)
Spawn ==
    /\ sup = "spawn"
    /\ cur' = 1 - cur
    /\ writer' = [writer EXCEPT ![cur'] = "hello"]
    /\ reader' = [reader EXCEPT ![cur'] = "loop"]
    /\ shutdown' = [shutdown EXCEPT ![cur'] = "no"]
    /\ rx' = "writer"
    /\ wire' \in {"alive", "silent", "broken"}
    /\ acks' = 0
    /\ sup' = "waiting"
    /\ UNCHANGED <<requests, events, ui, gate, info>>

----------------------------------------------------------------------------
(* The writer of link l.                                                   *)

WriterGoes(l, from, to) ==
    /\ writer[l] = from
    /\ writer' = [writer EXCEPT ![l] = to]

(* A Hello went out; a live host answers it, unless the line ate it. *)
HelloSent ==
    /\ acks' \in IF wire = "alive" /\ acks < 2 THEN {acks, acks + 1} ELSE {acks}

SendHello(l) ==
    /\ wire # "broken"
    /\ WriterGoes(l, "hello", "loop")
    /\ HelloSent
    /\ UNCHANGED <<sup, requests, events, ui, cur, reader, shutdown, rx, gate, info, wire>>

(* The periodic write: a Hello until the gate is up, a heartbeat after.    *)
WriterTick(l) ==
    /\ wire # "broken"
    /\ writer[l] = "loop" /\ gate = "down"
    /\ HelloSent
    /\ UNCHANGED <<sup, requests, events, ui, cur, threads, rx, gate, info, wire>>

(* A send failed: the gate is closed, then the UI is told. *)
SendFails(l) ==
    /\ wire = "broken"
    /\ WriterGoes(l, "hello", "failing") \/ WriterGoes(l, "loop", "failing")
    /\ UNCHANGED <<sup, requests, events, ui, cur, reader, shutdown, rx, gate, info, wire, acks>>

WriterClosesGate(l) ==
    /\ WriterGoes(l, "failing", "failed")
    /\ gate' = "down"
    /\ UNCHANGED <<sup, requests, events, ui, cur, reader, shutdown, rx, info, wire, acks>>

WriterTellsUi(l) ==
    /\ WriterGoes(l, "failed", "done")
    /\ events' = Append(events, "Disconnected")
    /\ UNCHANGED <<sup, requests, ui, cur, reader, shutdown, rx, gate, info, wire, acks>>

WriterDeaf(l) == FALSE

(* A send keeps returning Ok in a storm, so the flag is what ends it. *)
WriterSeesShutdown(l) ==
    /\ shutdown[l] = "yes"
    /\ WriterGoes(l, "loop", "done")
    /\ UNCHANGED <<sup, requests, events, ui, cur, reader, shutdown, rx, gate, info, wire, acks>>

----------------------------------------------------------------------------
(* The reader of link l.                                                   *)

ReaderGoes(l, from, to) ==
    /\ reader[l] = from
    /\ reader' = [reader EXCEPT ![l] = to]

(* A HelloAck fills the cache, then opens the gate, then tells the UI.     *)
DecodeAck(l) ==
    /\ acks > 0 /\ shutdown[l] = "no"
    /\ ReaderGoes(l, "loop", "acked")
    /\ acks' = acks - 1
    /\ info' = l
    /\ UNCHANGED <<sup, requests, events, ui, cur, writer, shutdown, rx, gate, wire>>

RaiseGate(l) ==
    /\ ReaderGoes(l, "acked", "raised")
    /\ gate' = "up"
    /\ UNCHANGED <<sup, requests, events, ui, cur, writer, shutdown, rx, info, wire, acks>>

TellConnected(l) ==
    /\ ReaderGoes(l, "raised", "loop")
    /\ events' = Append(events, "Connected")
    /\ UNCHANGED <<sup, requests, ui, cur, writer, shutdown, rx, gate, info, wire, acks>>

ReaderLeavesQuietly(l) ==
    /\ ReaderGoes(l, "loop", "left")
    /\ UNCHANGED <<sup, requests, events, ui, cur, writer, shutdown, rx, gate, info, wire, acks>>

(* Silence past the budget, a frame-error storm, a fatal error, the host's *)
(* Disconnect: the UI is told and the loop is left.                        *)
ReaderGivesUp(l) ==
    /\ ReaderGoes(l, "loop", "left")
    /\ events' = Append(events, "Disconnected")
    /\ UNCHANGED <<sup, requests, ui, cur, writer, shutdown, rx, gate, info, wire, acks>>

ReaderSeesShutdown(l) ==
    /\ shutdown[l] = "yes"
    /\ ReaderGoes(l, "loop", "left")
    /\ UNCHANGED <<sup, requests, events, ui, cur, writer, shutdown, rx, gate, info, wire, acks>>

(* reader_thread after the loop, whatever way it was left. *)
ReaderClearsCache(l) ==
    /\ ReaderGoes(l, "left", "cleared")
    /\ info' = None
    /\ UNCHANGED <<sup, requests, events, ui, cur, writer, shutdown, rx, gate, wire, acks>>

ReaderLeavesGateUp(l) ==
    /\ ReaderGoes(l, "cleared", "done")
    /\ UNCHANGED <<sup, requests, events, ui, cur, writer, shutdown, rx, gate, info, wire, acks>>

ReaderClosesGate(l) ==
    /\ ReaderGoes(l, "cleared", "done")
    /\ gate' = "down"
    /\ UNCHANGED <<sup, requests, events, ui, cur, writer, shutdown, rx, info, wire, acks>>

----------------------------------------------------------------------------
(* The UI thread and the cable.                                            *)

(* An event sets the state shown ("Connecting" before the first handshake  *)
(* stands for Reconnecting, too), and a Disconnected asks for a new link.  *)
UiTakesEvent ==
    /\ events # <<>>
    /\ events' = Tail(events)
    /\ ui' = Head(events)
    /\ requests' = requests + (IF Head(events) = "Disconnected" THEN 1 ELSE 0)
    /\ UNCHANGED <<sup, cur, threads, rx, gate, info, wire, acks>>

WireDegrades ==
    /\ \/ wire = "alive" /\ wire' \in {"silent", "broken"}
       \/ wire = "silent" /\ wire' = "broken"
    /\ UNCHANGED <<sup, requests, events, ui, cur, threads, rx, gate, info, acks>>

Supervisor ==
    \/ TakeRequest \/ LowerGate \/ ClearCache \/ JoinWriter \/ JoinReader
    \/ Attempt \/ OpenFails \/ OpenSucceeds \/ CloneFails \/ CloneSucceeds
    \/ DrainRequests \/ Spawn

Writer(l) ==
    \/ SendHello(l) \/ WriterTick(l) \/ SendFails(l) \/ WriterClosesGate(l)
    \/ WriterTellsUi(l) \/ WriterSeesShutdown(l)

Reader(l) ==
    \/ DecodeAck(l) \/ RaiseGate(l) \/ TellConnected(l) \/ ReaderGivesUp(l)
    \/ ReaderSeesShutdown(l) \/ ReaderClearsCache(l) \/ ReaderClosesGate(l)

Next ==
    \/ Supervisor \/ UiTakesEvent \/ WireDegrades
    \/ \E l \in Links : Writer(l) \/ Reader(l)

Spec == Init /\ [][Next]_vars

(* Threads run.  A dead transport shows in the end: a write on a broken    *)
(* one fails, a reader on one that is not alive runs out its budget.       *)
(* Opening succeeds if tried often enough.                                 *)
Fairness ==
    /\ WF_vars(Supervisor) /\ SF_vars(OpenSucceeds) /\ SF_vars(CloneSucceeds)
    /\ WF_vars(UiTakesEvent)
    /\ \A l \in Links :
         /\ WF_vars(SendHello(l)) /\ WF_vars(SendFails(l)) /\ WF_vars(WriterClosesGate(l))
         /\ WF_vars(WriterTellsUi(l)) /\ WF_vars(WriterSeesShutdown(l))
         /\ WF_vars(DecodeAck(l)) /\ WF_vars(RaiseGate(l)) /\ WF_vars(TellConnected(l))
         /\ WF_vars(ReaderSeesShutdown(l)) /\ WF_vars(ReaderClearsCache(l))
         /\ WF_vars(ReaderClosesGate(l))
         /\ WF_vars(wire # "alive" /\ ReaderGivesUp(l))

FairSpec == Spec /\ Fairness

----------------------------------------------------------------------------
(* Safety.                                                                 *)

(* While the supervisor reopens the transport no thread of an old link is  *)
(* left to touch the shared cells, so the gate is down and the cache       *)
(* empty until the new link's own handshake.                               *)
NothingStaleWhileReopening ==
    sup \in {"open", "opening", "clone", "drain", "spawn"} =>
      /\ gate = "down" /\ info = None
      /\ rx = "supervisor"
      /\ \A l \in Links : writer[l] = "none" /\ reader[l] = "none"

(* The gate is up only while the reader of the current link runs: link_up  *)
(* is "true only while the handshake is complete AND the reader is alive". *)
GateNeedsReader ==
    gate = "up" => reader[cur] \in {"loop", "raised", "acked", "left", "cleared"}

(* outgoing_rx has one owner, so a request always finds it. *)
ReceiverHasOneOwner ==
    rx = "writer" <=> \E l \in Links : writer[l] # "none"

AtRest ==
    /\ sup = "waiting" /\ requests = 0 /\ events = <<>>
    /\ reader[cur] \notin {"acked", "raised", "left", "cleared"}
    /\ writer[cur] \notin {"failing", "failed"}

(* With nothing on its way the UI and the gate agree: neither a late       *)
(* Connected nor a duplicate Disconnected leaves the window wrong.         *)
UiAgreesWithGate == AtRest => (ui = "Connected" <=> gate = "up")

(* The gate speaks for a reader that runs, and the window for the gate.    *)
GateIsTrue == GateNeedsReader /\ UiAgreesWithGate

(* A writer that gave up on its own leaves the gate closed. *)
DeadWriterClosesGate ==
    writer[cur] = "done" /\ shutdown[cur] = "no" => gate = "down"

----------------------------------------------------------------------------
(* Liveness.                                                               *)

LinkDead == reader[cur] = "done" \/ writer[cur] = "done"

(* A link that lost a thread is replaced: no request of its own is eaten   *)
(* with the duplicates of the one before it.                               *)
DeadLinkIsReplaced == LinkDead ~> sup = "spawn"
=============================================================================
