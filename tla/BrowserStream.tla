--------------------------- MODULE BrowserStream ----------------------------
(***************************************************************************)
(* One browser stream: the worker thread of the companion's hub and the    *)
(* worker thread of the host's hub, and between them a link that keeps the *)
(* order of frames and may lose any of them.  One DATA frame is in flight  *)
(* per direction; what is not acknowledged is sent again.                  *)
(*                                                                         *)
(* wire[e] stands for everything between the moment a worker puts a frame  *)
(* in its queue and the moment the other hub dispatches it: the queue, the *)
(* hub's output channel, the link and the worker's input channel.  Timers  *)
(* may fire at any time.  A byte is named by the connection it was read    *)
(* from (a host that is asked to open the same stream again connects       *)
(* again) and its position.                                                *)
(***************************************************************************)
EXTENDS Naturals, Sequences, FiniteSets

CONSTANTS
    Total,          \* Total[e]: how many bytes e's program will send
    Chunk,          \* the largest payload of a DATA frame
    WireCap,        \* frames under way, both directions together, before workers wait
    MaxLoss,        \* how many frames the link may lose
    MaxSpawn,       \* how often the host may open the stream
    LossyResets     \* "yes": the link may lose RESET frames too

End == {"client", "host"}
Peer(e) == CHOOSE p \in End : p # e

\* Connections are numbered in the order they are made: the client's program
\* keeps one, the host makes one each time it is asked to open the stream.
Connections == 1..MaxSpawn

ASSUME StreamAssumption ==
    /\ Total \in [End -> Nat]
    /\ Chunk \in Nat \ {0}
    /\ WireCap \in Nat \ {0}
    /\ MaxLoss \in Nat
    /\ MaxSpawn \in Nat \ {0}

VARIABLES
    w,              \* w[e]: the worker's local variables
    sink,           \* sink[e][c]: the bytes written to the socket of e's c-th connection
    wire,           \* wire[e]: frames on their way from e to the other end
    kind,           \* what the client asks for: "tcp" or "request" (the desktop)
    read,           \* read[c]: bytes read from the host's c-th connection
    lost            \* how many frames the link has lost

vars == <<w, sink, wire, kind, read, lost>>

Flags == {"ready", "localEof", "remoteEof", "finSent", "finAcked"}
Phases == {"none", "run", "clean", "reset", "error"}

Frame(k, off) == [k |-> k, off |-> off, len |-> 0, conn |-> 0]
DataFrame(off, len, conn) == [k |-> "DATA", off |-> off, len |-> len, conn |-> conn]

Fresh(flags) ==
    [ph |-> "run", is |-> flags, sent |-> 0, flight |-> 0,
     got |-> 0, pending |-> 0, written |-> 0, from |-> 0]

Running(e) == w[e].ph = "run"

\* The connection e's socket is: the client has only one.
Conn(e) == IF e = "host" THEN Len(read) ELSE 1

\* Hub::attach on the companion has just started the client's worker.
Init ==
    /\ w = [e \in End |-> IF e = "client" THEN Fresh({})
                                          ELSE [Fresh({}) EXCEPT !.ph = "none"]]
    /\ sink = [e \in End |-> [c \in Connections |-> <<>>]]
    /\ wire = [e \in End |-> IF e = "client" THEN <<Frame("OPEN", 0)>> ELSE <<>>]
    /\ kind \in {"tcp", "request"}
    /\ read = <<>>
    /\ lost = 0

----------------------------------------------------------------------------
(* Frames arriving at e.                                                   *)

Arrives(e, k) ==
    /\ wire[Peer(e)] # <<>>
    /\ Head(wire[Peer(e)]).k = k
Msg(e) == Head(wire[Peer(e)])

\* The frame is consumed; `replies` join the queue of e.
Consume(e, replies) ==
    wire' = [wire EXCEPT ![Peer(e)] = Tail(@), ![e] = @ \o replies]

\* worker returned Err: the thread tries to send RESET and is done.
Broken(e) == [w EXCEPT ![e].ph = "error"]
NoReset == <<>>
Reset == <<Frame("RESET", 0)>>

\* A request socket has its response once the whole request was written.
Responded == w["host"].got = Total["client"]
SocketIsRequest(e) == e = "host" /\ kind = "request"

\* The host is asked to open: a stream it has answers READY again, one it
\* has not is spawned and connects, or fails to.
ReceiveOpen ==
    /\ Arrives("host", "OPEN")
    /\ \/ /\ Running("host")
          /\ Consume("host", <<Frame("READY", 0)>>)
          /\ UNCHANGED <<w, read>>
       \/ /\ ~Running("host")
          /\ Len(read) < MaxSpawn
          /\ read' = Append(read, 0)
          /\ \/ /\ w' = [w EXCEPT !["host"] = Fresh({"ready"})]
                /\ Consume("host", <<Frame("READY", 0)>>)
             \/ /\ kind = "tcp"
                /\ w' = Broken("host")
                /\ Consume("host", Reset)
       \/ /\ ~Running("host")                   \* the bound: the host says no
          /\ Len(read) = MaxSpawn
          /\ Consume("host", Reset)
          /\ UNCHANGED <<w, read>>
    /\ UNCHANGED <<sink, kind, lost>>

\* A frame for a stream the hub does not have (any more).
StraysIgnored(e) == <<>>
StrayAnswer(e) == IF Msg(e).k = "RESET" THEN <<>> ELSE Reset

ReceiveStray(e) ==
    /\ ~Running(e)
    /\ wire[Peer(e)] # <<>>
    /\ ~(e = "host" /\ Msg(e).k = "OPEN")
    /\ Consume(e, StrayAnswer(e))
    /\ UNCHANGED <<w, sink, kind, read, lost>>

ReceiveReset(e) ==
    /\ Running(e)
    /\ Arrives(e, "RESET")
    /\ w' = [w EXCEPT ![e].ph = "reset"]
    /\ Consume(e, <<>>)
    /\ UNCHANGED <<sink, kind, read, lost>>

ReceiveReady ==
    /\ Running("client")
    /\ Arrives("client", "READY")
    /\ w' = [w EXCEPT !["client"].is = @ \cup {"ready"}]
    /\ Consume("client", <<>>)
    /\ UNCHANGED <<sink, kind, read, lost>>

AnyOffset(e) == TRUE
NextOffset(e) == Msg(e).off = w[e].got

\* Receive::data: a gap or a repetition is answered with the offset already
\* written, the next chunk waits for the socket, the same chunk again is
\* the one already waiting.
ReceiveData(e) ==
    /\ Running(e)
    /\ Arrives(e, "DATA")
    /\ LET m == Msg(e) IN
       \/ /\ ~("ready" \in w[e].is /\ "remoteEof" \notin w[e].is)
          /\ Consume(e, <<>>)
          /\ UNCHANGED w
       \/ /\ "ready" \in w[e].is /\ "remoteEof" \notin w[e].is
          /\ \/ /\ ~NextOffset(e)
                /\ Consume(e, <<Frame("ACK", w[e].got)>>)
                /\ UNCHANGED w
             \/ /\ NextOffset(e)
                /\ w[e].pending = 0
                /\ w' = [w EXCEPT ![e].pending = m.len, ![e].from = m.conn, ![e].written = 0]
                /\ Consume(e, <<>>)
             \/ /\ NextOffset(e)
                /\ w[e].pending # 0
                /\ IF m.len = w[e].pending /\ m.conn = w[e].from
                   THEN UNCHANGED w /\ Consume(e, <<>>)
                   ELSE w' = Broken(e) /\ Consume(e, Reset)
    /\ UNCHANGED <<sink, kind, read, lost>>

ReceiveAck(e) ==
    /\ Running(e)
    /\ Arrives(e, "ACK")
    /\ IF Msg(e).off > w[e].sent
       THEN w' = Broken(e) /\ Consume(e, Reset)
       ELSE /\ w' = IF Msg(e).off = w[e].sent THEN [w EXCEPT ![e].flight = 0] ELSE w
            /\ Consume(e, <<>>)
    /\ UNCHANGED <<sink, kind, read, lost>>

\* The end of the other direction counts once every byte before it has been
\* written; a request socket refuses it before its response exists.
ReceiveFin(e) ==
    /\ Running(e)
    /\ Arrives(e, "FIN")
    /\ IF Msg(e).off = w[e].got /\ w[e].pending = 0
       THEN IF "remoteEof" \notin w[e].is /\ SocketIsRequest(e) /\ ~Responded
            THEN w' = Broken(e) /\ Consume(e, Reset)
            ELSE /\ w' = [w EXCEPT ![e].is = @ \cup {"remoteEof"}]
                 /\ Consume(e, <<Frame("FIN_ACK", Msg(e).off)>>)
       ELSE /\ Consume(e, <<Frame("ACK", w[e].got)>>)
            /\ UNCHANGED w
    /\ UNCHANGED <<sink, kind, read, lost>>

ReceiveFinAck(e) ==
    /\ Running(e)
    /\ Arrives(e, "FIN_ACK")
    /\ w' = IF "finSent" \in w[e].is /\ Msg(e).off = w[e].sent
            THEN [w EXCEPT ![e].is = @ \cup {"finAcked"}] ELSE w
    /\ Consume(e, <<>>)
    /\ UNCHANGED <<sink, kind, read, lost>>

Receive(e) ==
    \/ e = "host" /\ ReceiveOpen
    \/ e = "client" /\ ReceiveReady
    \/ ReceiveStray(e) \/ ReceiveReset(e) \/ ReceiveData(e)
    \/ ReceiveAck(e) \/ ReceiveFin(e) \/ ReceiveFinAck(e)

----------------------------------------------------------------------------
(* The rest of the worker's loop: sockets and timers, left alone while the *)
(* link cannot drain what is queued.                                       *)

Drained(e) == Running(e) /\ Len(wire["client"]) + Len(wire["host"]) < WireCap

Emit(e, frame) == wire' = [wire EXCEPT ![e] = Append(@, frame)]

\* What one write may take: a request socket takes all it is given.
Unwritten(e) ==
    LET left == w[e].pending - w[e].written
    IN IF SocketIsRequest(e) THEN {left} ELSE 1..left

\* The socket takes some of the waiting chunk; the last byte of it advances
\* the offset and acknowledges.
WriteSocket(e) ==
    /\ Drained(e)
    /\ w[e].pending # 0
    /\ \E n \in Unwritten(e) :
         LET upTo == w[e].written + n IN
         /\ sink' = [sink EXCEPT ![e][Conn(e)] =
                        @ \o [i \in 1..n |-> [from |-> w[e].from,
                                            pos |-> w[e].got + w[e].written + i]]]
         /\ IF upTo = w[e].pending
            THEN /\ w' = [w EXCEPT ![e].got = @ + upTo, ![e].pending = 0,
                                   ![e].written = 0, ![e].from = 0]
                 /\ Emit(e, Frame("ACK", w[e].got + upTo))
            ELSE /\ w' = [w EXCEPT ![e].written = upTo]
                 /\ UNCHANGED wire
    /\ UNCHANGED <<kind, read, lost>>

\* With nothing in flight the worker reads its socket: bytes, or the end.
ReadSocket(e) ==
    /\ Drained(e)
    /\ "ready" \in w[e].is /\ "localEof" \notin w[e].is
    /\ w[e].flight = 0
    /\ SocketIsRequest(e) => Responded
    /\ \/ \E n \in 1..Chunk :
            /\ w[e].sent + n <= Total[e]
            /\ w' = [w EXCEPT ![e].sent = @ + n, ![e].flight = n]
            /\ Emit(e, DataFrame(w[e].sent, n, Conn(e)))
            /\ read' = IF e = "host" THEN [read EXCEPT ![Conn(e)] = @ + n] ELSE read
       \/ /\ w[e].sent = Total[e]
          /\ w' = [w EXCEPT ![e].is = @ \cup {"localEof"}]
          /\ UNCHANGED <<wire, read>>
    /\ UNCHANGED <<sink, kind, lost>>

NeverAgain(e) == FALSE
RetryDue(e) == w[e].flight # 0

RetryData(e) ==
    /\ Drained(e)
    /\ RetryDue(e)
    /\ Emit(e, DataFrame(w[e].sent - w[e].flight, w[e].flight, Conn(e)))
    /\ UNCHANGED <<w, sink, kind, read, lost>>

SendFin(e) ==
    /\ Drained(e)
    /\ w[e].flight = 0
    /\ "localEof" \in w[e].is /\ "finAcked" \notin w[e].is
    /\ w' = [w EXCEPT ![e].is = @ \cup {"finSent"}]
    /\ Emit(e, Frame("FIN", w[e].sent))
    /\ UNCHANGED <<sink, kind, read, lost>>

RetryOpen ==
    /\ Drained("client")
    /\ "ready" \notin w["client"].is
    /\ Emit("client", Frame("OPEN", 0))
    /\ UNCHANGED <<w, sink, kind, read, lost>>

\* Both directions have ended and the other side knows.
OverOneWay(e) == {"localEof", "finAcked"} \subseteq w[e].is
Over(e) == {"localEof", "remoteEof", "finAcked"} \subseteq w[e].is

Finish(e) ==
    /\ Running(e)
    /\ Over(e)
    /\ w' = [w EXCEPT ![e].ph = "clean"]
    /\ UNCHANGED <<sink, wire, kind, read, lost>>

\* A socket error, a full input channel, or thirty seconds without progress.
Break(e) ==
    /\ Running(e)
    /\ w' = Broken(e)
    /\ wire' = [wire EXCEPT ![e] = @ \o Reset]
    /\ UNCHANGED <<sink, kind, read, lost>>

\* External: the link drops a frame.
Lose(e) ==
    /\ lost < MaxLoss
    /\ \E i \in 1..Len(wire[e]) :
         /\ LossyResets = "no" => wire[e][i].k # "RESET"
         /\ wire' = [wire EXCEPT ![e] = SubSeq(@, 1, i - 1) \o SubSeq(@, i + 1, Len(@))]
    /\ lost' = lost + 1
    /\ UNCHANGED <<w, sink, kind, read>>

\* At most one of these is due: bytes in flight, an end to announce, or a
\* stream still to be opened.
Retry(e) == RetryData(e) \/ SendFin(e) \/ (e = "client" /\ RetryOpen)

Next ==
    \E e \in End : \/ Receive(e) \/ WriteSocket(e) \/ ReadSocket(e) \/ Retry(e)
                   \/ Finish(e) \/ Break(e) \/ Lose(e)

Spec == Init /\ [][Next]_vars

\* Threads keep running, timers fire, the programs at both ends read what
\* they are given and close in the end.  Nothing need ever break.  A worker
\* finds the link drained again and again between two retries, which are
\* two seconds apart, so what waits for that is taken strongly fair.
FairSpec ==
    Spec /\ \A e \in End : /\ WF_vars(Receive(e)) /\ WF_vars(Finish(e))
                           /\ SF_vars(WriteSocket(e) \/ ReadSocket(e))
                           /\ SF_vars(Retry(e))

----------------------------------------------------------------------------
(* Properties.                                                             *)

\* The worker's variables have the types lib.rs gives them, and no more is
\* under way than the bounds allow.
TypeOK ==
    /\ w \in [End -> [ph : Phases, is : SUBSET Flags, sent : Nat, flight : 0..Chunk,
                      got : Nat, pending : 0..Chunk, written : 0..Chunk, from : 0..MaxSpawn]]
    /\ kind \in {"tcp", "request"}
    /\ read \in Seq(Nat) /\ Len(read) <= MaxSpawn
    /\ lost \in 0..MaxLoss
    /\ \A e \in End : w[e].sent <= Total[e] /\ w[e].written <= w[e].pending

\* What the stream is to the client's program and the host's connection.
Abstract == INSTANCE ByteStream WITH
    Most <- Chunk,
    taken <- [e \in End |-> IF e = "client" THEN w[e].sent
                                            ELSE IF read = <<>> THEN 0 ELSE read[1]],
    given <- [e \in End |-> [i \in 1..Len(sink[e][1]) |-> sink[e][1][i].pos]],
    told <- [e \in End |-> IF "remoteEof" \in w[e].is /\ (e = "host" => Len(read) = 1)
                           THEN "eof" ELSE "open"]

\* The two workers and their retries implement a byte stream: lost, late and
\* repeated DATA, ACK and FIN frames never lose, double or reorder a byte
\* that is written, nor end a direction early (worker, Receive::data).
ImplementsByteStream == Abstract!Spec

\* A worker that finished (loop left by its break) has written everything
\* the other program sent and knows its own bytes were written: a stream
\* never ends cleanly on one side with bytes missing on either.
CleanEndIsComplete ==
    \A e \in End : w[e].ph = "clean" =>
       \A d \in End : Len(sink[d][Conn(d)]) = Total[Peer(d)]

\* The bytes of two connections are never mixed: all the client's program
\* gets was read from one connection of the host, the first.
OneConnection == \A i \in 1..Len(sink["client"][1]) : sink["client"][1][i].from = 1

(* A stream that ends cleanly was whole, and of one connection.            *)
StreamsAreWhole == CleanEndIsComplete /\ OneConnection

\* Loss alone costs nothing: unless a worker breaks off, both programs get
\* every byte (the RETRY timers of worker).
AllArrivesOrBreaks ==
    <>(\/ \E e \in End : w[e].ph = "error"
       \/ \A e \in End : Len(sink[e][1]) = Total[Peer(e)])

\* However frames are lost and the host's side breaks, the client's worker
\* ends: its program never hangs on a stream nobody serves.  (Not so on the
\* host: a worker spawned by a late OPEN whose READY is lost stays.)
ClientWorkerEnds == <>[](~Running("client"))
=============================================================================
