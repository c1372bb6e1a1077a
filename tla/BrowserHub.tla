----------------------------- MODULE BrowserHub -----------------------------
(***************************************************************************)
(* The route of browser frames around the streams themselves: companions   *)
(* that connect to the client's socket one after another and own its only  *)
(* browser slot, the client's outgoing channel, which survives a lost      *)
(* link, and the hub of the host with its table of streams, its worker     *)
(* threads, the two credits they share and the epoch that tells the frames *)
(* of the present from those of workers a reset has stopped.               *)
(*                                                                         *)
(* Companions are numbered in the order they connect.  What a stream does  *)
(* with its bytes is BrowserStream; here a worker only holds a credit while *)
(* it has a chunk in flight.                                               *)
(***************************************************************************)
EXTENDS Naturals, Sequences, FiniteSets

CONSTANTS
    Companion,      \* the companions, 1..N in the order they connect
    Worker,         \* the worker threads that can be started, 1..N
    MaxStreams,     \* MAX_STREAMS
    Credits,        \* how many chunks may await an ACK
    QueueCap,       \* frames of the pump waiting in the outgoing channel
    RelayCap,       \* packets waiting for the companion's socket
    OutputCap,      \* frames waiting in the hub's output channel
    MaxDown         \* how often the link may drop

ASSUME HubAssumption ==
    /\ Companion \subseteq Nat \ {0} /\ IsFiniteSet(Companion)
    /\ Worker \subseteq Nat /\ IsFiniteSet(Worker)
    /\ {MaxStreams, Credits, QueueCap, RelayCap, OutputCap} \subseteq Nat \ {0}
    /\ MaxDown \in Nat

VARIABLES
    link,           \* "up" or "down"; downs: how often it dropped
    downs,
    slot,           \* the companion that owns the browser route, 0 if none
    handler,        \* handler[c]: where handle_browser_connection is
    pump,           \* pump[c]: where its input thread is
    backlog,        \* backlog[c]: packets for its socket
    outgoing,       \* frames on their way to the host
    epoch,          \* Hub::epoch
    wk,             \* wk[n]: the n-th worker thread
    used,           \* used[e]: the credit counter made for epoch e
    output          \* the hub's output channel: the epochs its frames are tagged with

clientVars == <<slot, handler, pump, backlog>>
hubVars == <<epoch, wk, used, output>>
vars == <<link, downs, slot, handler, pump, backlog, outgoing, epoch, wk, used, output>>

None == [ph |-> "free", owner |-> 0, epoch |-> 0, in |-> "out", credit |-> 0]

Init ==
    /\ link = "up" /\ downs = 0
    /\ slot = 0
    /\ handler = [c \in Companion |-> "new"]
    /\ pump = [c \in Companion |-> "off"]
    /\ backlog = [c \in Companion |-> 0]
    /\ outgoing = <<>>
    /\ epoch = 0
    /\ wk = [n \in Worker |-> None]
    /\ used = [e \in {0} |-> 0]
    /\ output = <<>>

Send(k, c) == outgoing' = Append(outgoing, [k |-> k, owner |-> c])

----------------------------------------------------------------------------
(* handle_browser_connection.                                              *)

\* A companion connects: refused while the link is down or the slot taken.
Connect(c) ==
    /\ handler[c] = "new"
    /\ \A b \in Companion : b < c => handler[b] # "new"
    /\ IF link = "up" /\ slot = 0
       THEN /\ slot' = c
            /\ \/ /\ handler' = [handler EXCEPT ![c] = "relay"]
                  /\ pump' = [pump EXCEPT ![c] = "read"]
               \/ /\ handler' = [handler EXCEPT ![c] = "release"]    \* HelloAck not written
                  /\ UNCHANGED pump
       ELSE /\ handler' = [handler EXCEPT ![c] = "gone"]
            /\ UNCHANGED <<slot, pump>>
    /\ UNCHANGED <<link, downs, backlog, outgoing, hubVars>>

\* The input thread has read a packet of its companion, checks that it still
\* relays and that the link is up, ...
PumpRead(c) ==
    /\ pump[c] = "read"
    /\ pump' = [pump EXCEPT ![c] = IF handler[c] = "relay" /\ link = "up" THEN "checked" ELSE "off"]
    /\ UNCHANGED <<link, downs, slot, handler, backlog, outgoing, hubVars>>

\* ... and under the slot's lock that it still owns the route.
OwnsAnything(c) == TRUE
OwnsRoute(c) == slot = c

PumpSend(c) ==
    /\ pump[c] = "checked"
    /\ IF OwnsRoute(c)
       THEN /\ Len(outgoing) < QueueCap
            /\ \E k \in {"OPEN", "DATA"} : Send(k, c)
            /\ pump' = [pump EXCEPT ![c] = "read"]
       ELSE /\ pump' = [pump EXCEPT ![c] = "off"]
            /\ UNCHANGED outgoing
    /\ UNCHANGED <<link, downs, slot, handler, backlog, hubVars>>

\* The companion closes its socket, or the handler shut it down.
PumpEnd(c) ==
    /\ pump[c] = "read"
    /\ pump' = [pump EXCEPT ![c] = "off"]
    /\ UNCHANGED <<link, downs, slot, handler, backlog, outgoing, hubVars>>

\* The handler writes packets to its companion until the pump has ended, the
\* link is down, the reader dropped the sender or the socket fails.
Relay(c) ==
    /\ handler[c] = "relay"
    /\ backlog[c] > 0
    /\ backlog' = [backlog EXCEPT ![c] = @ - 1]
    /\ UNCHANGED <<link, downs, slot, handler, pump, outgoing, hubVars>>

Close(c) ==
    /\ handler[c] = "relay"
    /\ handler' = [handler EXCEPT ![c] = "joining"]
    /\ backlog' = [backlog EXCEPT ![c] = 0]
    /\ UNCHANGED <<link, downs, slot, pump, outgoing, hubVars>>

ResetOwed(c) == link = "up"
MayReset(c) == slot = c /\ link = "up"

\* The pump is joined before the host's streams are reset, and that happens
\* before the slot is given up.
ResetHost(c) ==
    /\ handler[c] = "joining"
    /\ pump[c] = "off"
    /\ IF MayReset(c) THEN Send("RESET", c) ELSE UNCHANGED outgoing
    /\ handler' = [handler EXCEPT ![c] = "release"]
    /\ UNCHANGED <<link, downs, slot, pump, backlog, hubVars>>

Release(c) ==
    /\ handler[c] = "release"
    /\ slot' = IF slot = c THEN 0 ELSE slot
    /\ handler' = [handler EXCEPT ![c] = "gone"]
    /\ UNCHANGED <<link, downs, pump, backlog, outgoing, hubVars>>

----------------------------------------------------------------------------
(* The hub of the host, driven by the session's loop.                      *)

Table == {n \in Worker : wk[n].in = "table"}
Active == {n \in Table : wk[n].ph # "done"}
StreamOf(c) == {n \in Table : wk[n].owner = c}

StoppedInPlace(n) == [wk[n] EXCEPT !.ph = "stop"]
Stopped(n) == [wk[n] EXCEPT !.in = "out", !.ph = "stop"]
CountersCleared == [e \in 0..epoch + 1 |-> 0]
NewCounter == [e \in 0..epoch + 1 |-> IF e \in DOMAIN used THEN used[e] ELSE 0]

\* Hub::reset: stop every worker, forget the streams, start a new epoch with
\* a new credit counter, throw the queued frames away.
HubReset ==
    /\ wk' = [n \in Worker |->
                IF n \in Active THEN Stopped(n)
                ELSE IF n \in Table THEN None ELSE wk[n]]
    /\ epoch' = epoch + 1
    /\ used' = NewCounter
    /\ output' = <<>>

\* try_send: a full channel swallows the frame.
TrySend(e) == IF Len(output) < OutputCap THEN Append(output, e) ELSE output

\* The host takes the next frame off the link.
Dispatch ==
    /\ link = "up"
    /\ outgoing # <<>>
    /\ outgoing' = Tail(outgoing)
    /\ LET m == Head(outgoing) IN
       \/ /\ m.k = "RESET"
          /\ HubReset
       \/ /\ m.k = "OPEN"
          /\ StreamOf(m.owner) = {}
          /\ \/ /\ Cardinality(Active) < MaxStreams
                /\ \E n \in Worker :
                     /\ wk[n].ph = "free"
                     /\ \A k \in Worker : wk[k].ph = "free" => n <= k
                     /\ wk' = [k \in Worker |->
                                 IF k = n THEN [ph |-> "run", owner |-> m.owner, epoch |-> epoch,
                                                in |-> "table", credit |-> 0]
                                 ELSE IF k \in Table \ Active THEN None
                                 ELSE wk[k]]
                /\ UNCHANGED output
             \/ /\ \/ Cardinality(Active) >= MaxStreams
                   \/ \A n \in Worker : wk[n].ph # "free"       \* the bound on threads
                /\ output' = TrySend(epoch)
                /\ UNCHANGED wk
          /\ UNCHANGED <<epoch, used>>
       \/ /\ m.k = "OPEN"                                       \* its worker answers READY
          /\ StreamOf(m.owner) # {}
          /\ UNCHANGED hubVars
       \/ /\ m.k = "DATA"
          /\ StreamOf(m.owner) # {}
          /\ \/ UNCHANGED hubVars                               \* taken by the worker
             \/ /\ wk' = [n \in Worker |->                      \* its input channel is full
                            IF n \in StreamOf(m.owner) /\ wk[n].ph = "run"
                            THEN [wk[n] EXCEPT !.ph = "stop"] ELSE wk[n]]
                /\ output' = TrySend(epoch)
                /\ UNCHANGED <<epoch, used>>
       \/ /\ m.k = "DATA"
          /\ StreamOf(m.owner) = {}
          /\ output' = TrySend(epoch)
          /\ UNCHANGED <<epoch, wk, used>>
    /\ UNCHANGED <<link, downs, clientVars>>

\* Hub::poll: the first frame of the present epoch goes to the client, whose
\* reader hands it to the companion that owns the slot; a companion that does
\* not keep up loses the route, its streams are reset under the same lock.
NothingStale == {}
Stale == {i \in 1..Len(output) : \A j \in 1..i : output[j] # epoch}
NeverFull(c) == FALSE
RelayFull(c) == backlog[c] = RelayCap

Poll ==
    /\ link = "up"
    /\ output # <<>>
    /\ LET k == Cardinality(Stale) IN
       IF k = Len(output)
       THEN output' = <<>> /\ UNCHANGED <<slot, backlog, outgoing>>
       ELSE /\ output' = SubSeq(output, k + 2, Len(output))
            /\ \/ slot = 0 /\ UNCHANGED <<slot, backlog, outgoing>>
               \/ /\ slot # 0 /\ ~RelayFull(slot)
                  /\ backlog' = [backlog EXCEPT ![slot] = @ + 1]
                  /\ UNCHANGED <<slot, outgoing>>
               \/ /\ slot # 0 /\ (RelayFull(slot) \/ handler[slot] # "relay")
                  /\ Send("RESET", slot)
                  /\ slot' = 0
                  /\ UNCHANGED backlog
    /\ wk' = [n \in Worker |-> IF wk[n].ph = "done" THEN None ELSE wk[n]]
    /\ UNCHANGED <<link, downs, handler, pump, epoch, used>>

\* A worker finds a credit left, reads its socket and sends the chunk.
Claim(n) ==
    /\ wk[n].ph = "run"
    /\ wk[n].credit = 0
    /\ used[wk[n].epoch] < Credits
    /\ used' = [used EXCEPT ![wk[n].epoch] = @ + 1]
    /\ wk' = [wk EXCEPT ![n].credit = 1]
    /\ output' = TrySend(wk[n].epoch)
    /\ UNCHANGED <<link, downs, clientVars, outgoing, epoch>>

\* Credit::drop gives back to the counter the credit was claimed from.
Drop(n) == [used EXCEPT ![wk[n].epoch] = @ - wk[n].credit]

Acked(n) ==
    /\ wk[n].ph = "run"
    /\ wk[n].credit = 1
    /\ wk' = [wk EXCEPT ![n].credit = 0]
    /\ used' = Drop(n)
    /\ UNCHANGED <<link, downs, clientVars, outgoing, epoch, output>>

\* The thread ends: it sees its stop flag, is done, or fails and says so.
Exit(n) ==
    /\ wk[n].ph \in {"run", "stop"}
    /\ wk' = [wk EXCEPT ![n] = IF wk[n].in = "table"
                                THEN [wk[n] EXCEPT !.ph = "done", !.credit = 0] ELSE None]
    /\ used' = Drop(n)
    /\ \/ UNCHANGED output
       \/ output' = TrySend(wk[n].epoch)
    /\ UNCHANGED <<link, downs, clientVars, outgoing, epoch>>

----------------------------------------------------------------------------
(* The link.  What waits in the outgoing channel is sent after the HELLO   *)
(* of the next link, which makes the host reset its hub.                   *)

LinkDown ==
    /\ link = "up" /\ downs < MaxDown
    /\ link' = "down" /\ downs' = downs + 1
    /\ UNCHANGED <<clientVars, outgoing, hubVars>>

LinkUp ==
    /\ link = "down"
    /\ link' = "up"
    /\ HubReset
    /\ UNCHANGED <<downs, clientVars, outgoing>>

\* External: a frame is lost on the way.
LoseFrame ==
    /\ link = "up" /\ outgoing # <<>>
    /\ outgoing' = Tail(outgoing)
    /\ UNCHANGED <<link, downs, clientVars, hubVars>>

Handler(c) == Connect(c) \/ Relay(c) \/ Close(c) \/ ResetHost(c) \/ Release(c)
Pump(c) == PumpRead(c) \/ PumpSend(c) \/ PumpEnd(c)

Next ==
    \/ \E c \in Companion : Handler(c) \/ Pump(c)
    \/ \E n \in Worker : Claim(n) \/ Acked(n) \/ Exit(n)
    \/ Dispatch \/ Poll \/ LinkDown \/ LinkUp \/ LoseFrame

Spec == Init /\ [][Next]_vars

----------------------------------------------------------------------------
(* Properties.                                                             *)

TypeOK ==
    /\ link \in {"up", "down"} /\ downs \in 0..MaxDown
    /\ slot \in Companion \cup {0}
    /\ handler \in [Companion -> {"new", "relay", "joining", "release", "gone"}]
    /\ pump \in [Companion -> {"read", "checked", "off"}]
    /\ backlog \in [Companion -> 0..RelayCap]
    /\ outgoing \in Seq([k : {"OPEN", "DATA", "RESET"}, owner : Companion])
    /\ epoch \in Nat
    /\ wk \in [Worker -> [ph : {"free", "run", "stop", "done"}, owner : Companion \cup {0},
                          epoch : 0..epoch, in : {"table", "out"}, credit : {0, 1}]]
    /\ used \in [0..epoch -> Nat]
    /\ output \in Seq(0..epoch)

\* Every counter counts the credits its workers hold, never more than the two
\* there are: a reset neither loses credits of the new epoch to old workers
\* nor makes an old counter wrap (Credit::claim, Credit::drop, Hub::reset).
CreditsMatchHolders ==
    \A e \in DOMAIN used :
       /\ used[e] = Cardinality({n \in Worker : wk[n].epoch = e /\ wk[n].credit = 1})
       /\ used[e] <= Credits

\* The slots hold the workers of this epoch only, so a frame for a stream
\* never reaches a thread a reset has stopped; one stream per id.
TableIsOfThisEpoch ==
    /\ \A n \in Table : wk[n].epoch = epoch
    /\ \A n, k \in Table : wk[n].owner = wk[k].owner => n = k
    /\ Cardinality(Active) <= MaxStreams

\* The host never gets a frame of an earlier companion once a later one has
\* a stream there: a cleared route feeds no stale bytes into a replacement,
\* and an old reset cannot race a newly accepted companion and kill its
\* streams (the comments at ipc.rs:295 and ipc.rs:409).
EarlierCompanionIsSilent ==
    [][Dispatch => \A n \in Table : wk[n].owner <= Head(outgoing).owner]_vars

\* What the client is sent was produced by a worker of the present epoch,
\* whatever the threads of earlier ones are still doing (Hub::poll).
OnlyThisEpochIsSent ==
    [][\A c \in Companion : backlog'[c] > backlog[c] =>
          \E i \in 1..Len(output) : output[i] = epoch /\ Len(output') <= Len(output) - i]_vars
=============================================================================
