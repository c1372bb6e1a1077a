------------------------ MODULE BrowserStreamProofs -------------------------
(***************************************************************************)
(* Proofs about a browser stream, for streams of any length, chunks of any *)
(* size, any number of frames under way, lost frames and reconnects: a     *)
(* clean end is a complete one; and when the link does not lose RESET      *)
(* frames the bytes of two connections are never mixed and the two workers *)
(* implement ByteStream.                                                   *)
(*                                                                         *)
(* A step changes what is under way from an end in one of three ways: not  *)
(* at all, by one frame more at the end, or by one frame less (Shape).     *)
(* What a frame that joins may say of its sender is NewFrame.              *)
(***************************************************************************)
EXTENDS BrowserStream, TLAPS

Kinds == {"OPEN", "READY", "DATA", "ACK", "FIN", "FIN_ACK", "RESET"}
Frames == [k : Kinds, off : Nat, len : 0..Chunk, conn : 0..MaxSpawn]
Bytes == [from : 0..MaxSpawn, pos : Nat]
Worker == [ph : Phases, is : SUBSET Flags, sent : Nat, flight : 0..Chunk,
           got : Nat, pending : 0..Chunk, written : 0..Chunk, from : 0..MaxSpawn]

(* The types of all variables, with none of TypeOK's bounds.               *)
Typed ==
    /\ w \in [End -> Worker]
    /\ sink \in [End -> [Connections -> Seq(Bytes)]]
    /\ wire \in [End -> Seq(Frames)]
    /\ kind \in {"tcp", "request"}
    /\ read \in Seq(Nat) /\ Len(read) <= MaxSpawn
    /\ lost \in 0..MaxLoss

----------------------------------------------------------------------------
(* What is under way, before and after a step.                             *)

(* q2 is q with the frame f behind it.                                     *)
Grown(q, q2, f) ==
    /\ Len(q2) = Len(q) + 1
    /\ q2[Len(q) + 1] = f
    /\ \A j \in 1..Len(q) : q2[j] = q[j]

(* q2 is q without its i-th frame.                                         *)
Cut(q, q2, i) ==
    /\ Len(q2) = Len(q) - 1
    /\ \A j \in 1..Len(q2) : q2[j] = q[IF j < i THEN j ELSE j + 1]

(* A frame f that end e sends, as its worker goes from x to y on its c-th  *)
(* connection.                                                             *)
NewFrame(e, x, y, c, f) ==
    /\ f.k = "OPEN" => e = "client" /\ x.ph = "run" /\ "ready" \notin x.is
    /\ f.k = "DATA" => /\ x.ph = "run" /\ y.ph = "run" /\ "ready" \in y.is
                       /\ f.off + f.len = y.sent /\ f.conn = c
    /\ f.k = "FIN" => /\ x.ph = "run" /\ "ready" \in x.is
                      /\ f.off = Total[e] /\ x.sent = Total[e]
    /\ f.k = "FIN_ACK" => "remoteEof" \in y.is
    /\ f.k = "RESET" => y.ph # "run"

(* What was under way from e is now q2; z is the other worker afterwards,  *)
(* which a RESET that left without being lost has stopped.                 *)
Shape(q, q2, e, x, y, z, c) ==
    \/ q2 = q
    \/ \E f \in Frames : NewFrame(e, x, y, c, f) /\ Grown(q, q2, f)
    \/ \E i \in 1..Len(q) : /\ Cut(q, q2, i)
                            /\ LossyResets = "no" /\ q[i].k = "RESET" => z.ph # "run"

(* A worker only grows: what it has sent and knows, it keeps, and it does  *)
(* not run again.                                                          *)
Grows(x, y) ==
    /\ x.sent <= y.sent
    /\ x.is \subseteq y.is
    /\ x.ph # "run" => y.ph # "run"

LEMMA PeerIs == Peer("client") = "host" /\ Peer("host") = "client"
BY DEF Peer, End

LEMMA PeerOf == \A e \in End : Peer(e) \in End /\ Peer(e) # e /\ Peer(Peer(e)) = e
                               /\ \A d \in End : d = e \/ d = Peer(e)
BY PeerIs DEF End

LEMMA FrameTyped ==
    \A k \in Kinds, off \in Nat :
       Frame(k, off) \in Frames /\ Frame(k, off).k = k /\ Frame(k, off).off = off
BY StreamAssumption DEF Frame, Frames

LEMMA DataFrameTyped ==
    \A off \in Nat, len \in 0..Chunk, conn \in 0..MaxSpawn :
       LET f == DataFrame(off, len, conn)
       IN f \in Frames /\ f.k = "DATA" /\ f.off = off /\ f.len = len /\ f.conn = conn
BY StreamAssumption DEF DataFrame, Frames, Kinds

LEMMA FrameNumbers == \A f \in Frames : f.off \in Nat /\ f.len \in Nat /\ f.conn \in Nat
BY StreamAssumption DEF Frames

LEMMA WorkerNumbers ==
    \A x \in Worker : /\ x.sent \in Nat /\ x.flight \in Nat /\ x.got \in Nat
                      /\ x.pending \in Nat /\ x.written \in Nat /\ x.from \in Nat
BY StreamAssumption DEF Worker

LEMMA SomeConnection == \A r \in Seq(Nat) : r # <<>> => Len(r) \in Nat /\ Len(r) >= 1
OBVIOUS

LEMMA AppendGrows ==
    ASSUME NEW q \in Seq(Frames), NEW f \in Frames
    PROVE  /\ Append(q, f) \in Seq(Frames) /\ Grown(q, Append(q, f), f)
           /\ q \o <<f>> \in Seq(Frames) /\ Grown(q, q \o <<f>>, f)
<1>. DEFINE p == q \o <<f>>
<1>1. Append(q, f) \in Seq(Frames) /\ Grown(q, Append(q, f), f)
  BY DEF Grown
<1>2. p \in Seq(Frames) /\ Len(p) = Len(q) + 1
  OBVIOUS
<1>3. p[Len(q) + 1] = f
  OBVIOUS
<1>4. \A j \in 1..Len(q) : p[j] = q[j]
  OBVIOUS
<1>. QED
  BY <1>1, <1>2, <1>3, <1>4 DEF Grown

LEMMA TailCuts ==
    ASSUME NEW q \in Seq(Frames), q # <<>>
    PROVE  /\ Tail(q) \in Seq(Frames) /\ Cut(q, Tail(q), 1)
           /\ 1 \in 1..Len(q) /\ Head(q) = q[1] /\ q[1] \in Frames
<1>1. Tail(q) \in Seq(Frames) /\ Len(Tail(q)) = Len(q) - 1
  OBVIOUS
<1>2. \A j \in 1..Len(Tail(q)) : Tail(q)[j] = q[j + 1]
  OBVIOUS
<1>3. 1 \in 1..Len(q) /\ Head(q) = q[1] /\ q[1] \in Frames
  OBVIOUS
<1>. QED
  BY <1>1, <1>2, <1>3 DEF Cut

LEMMA LossCuts ==
    ASSUME NEW q \in Seq(Frames), NEW i \in 1..Len(q)
    PROVE  LET p == SubSeq(q, 1, i - 1) \o SubSeq(q, i + 1, Len(q))
           IN p \in Seq(Frames) /\ Cut(q, p, i)
<1>. DEFINE a == SubSeq(q, 1, i - 1)
            b == SubSeq(q, i + 1, Len(q))
            p == a \o b
<1>1. a \in Seq(Frames) /\ Len(a) = i - 1 /\ \A j \in 1..i - 1 : a[j] = q[j]
  OBVIOUS
<1>2. b \in Seq(Frames) /\ Len(b) = Len(q) - i /\ \A j \in 1..Len(q) - i : b[j] = q[i + j]
  <2>1. b \in Seq(Frames)
    OBVIOUS
  <2>2. Len(b) = Len(q) - i
    OBVIOUS
  <2>3. ASSUME NEW j \in 1..Len(q) - i PROVE b[j] = q[i + j]
    OBVIOUS
  <2>. QED
    BY <2>1, <2>2, <2>3
<1>. HIDE DEF a, b
<1>3. p \in Seq(Frames) /\ Len(p) = Len(q) - 1
  <2>1. a \in Seq(Frames) /\ b \in Seq(Frames)
    BY <1>1, <1>2
  <2>2. p \in Seq(Frames) /\ Len(p) = Len(a) + Len(b)
    BY <2>1
  <2>. HIDE DEF p
  <2>. QED
    BY <2>2, <1>1, <1>2
<1>4. ASSUME NEW j \in 1..Len(p)
      PROVE  p[j] = q[IF j < i THEN j ELSE j + 1]
  <2>1. CASE j < i
    BY <2>1, <1>1, <1>2, <1>3
  <2>2. CASE j >= i
    <3>1. p[j] = b[j - (i - 1)]
      BY <2>2, <1>1, <1>2, <1>3
    <3>2. j - (i - 1) \in 1..Len(q) - i /\ i + (j - (i - 1)) = j + 1
      BY <2>2, <1>3
    <3>. QED
      BY <2>2, <3>1, <3>2, <1>2
  <2>. QED
    BY <2>1, <2>2, <1>3
<1>. QED
  BY <1>3, <1>4 DEF Cut, a, b

(* e's hub takes the next frame of the other end and sends nothing.        *)
LEMMA ReceivedQuietly ==
    ASSUME Typed, NEW e \in End, wire[Peer(e)] # <<>>,
           Consume(e, <<>>),
           wire[Peer(e)][1].k = "RESET" => w'[e].ph # "run"
    PROVE  /\ wire' \in [End -> Seq(Frames)]
           /\ \A d \in End : Shape(wire[d], wire'[d], d, w[d], w'[d], w'[Peer(d)], Conn(d))
<1>. DEFINE p == Peer(e)
<1>0. p \in End /\ p # e /\ Peer(p) = e /\ \A d \in End : d = e \/ d = p
  BY PeerOf
<1>1. wire \in [End -> Seq(Frames)] /\ wire[e] \in Seq(Frames) /\ wire[p] \in Seq(Frames)
  BY <1>0 DEF Typed
<1>2. wire' = [[wire EXCEPT ![p] = Tail(wire[p])] EXCEPT ![e] = wire[e] \o <<>>]
  BY <1>0, <1>1 DEF Consume
<1>3. wire[e] \o <<>> = wire[e]
  BY <1>1
<1>4. Tail(wire[p]) \in Seq(Frames) /\ Cut(wire[p], Tail(wire[p]), 1) /\ 1 \in 1..Len(wire[p])
  BY <1>1, TailCuts
<1>5. wire' \in [End -> Seq(Frames)] /\ wire'[e] = wire[e] /\ wire'[p] = Tail(wire[p])
  BY <1>0, <1>1, <1>2, <1>3, <1>4
<1>6. Shape(wire[e], wire'[e], e, w[e], w'[e], w'[Peer(e)], Conn(e))
  BY <1>5 DEF Shape
<1>7. Shape(wire[p], wire'[p], p, w[p], w'[p], w'[Peer(p)], Conn(p))
  BY <1>0, <1>4, <1>5 DEF Shape
<1>. QED
  BY <1>0, <1>5, <1>6, <1>7

(* e's hub takes the next frame of the other end and answers with f.       *)
LEMMA ReceivedAnswering ==
    ASSUME Typed, NEW e \in End, wire[Peer(e)] # <<>>,
           NEW f \in Frames, Consume(e, <<f>>),
           NewFrame(e, w[e], w'[e], Conn(e), f),
           wire[Peer(e)][1].k = "RESET" => w'[e].ph # "run"
    PROVE  /\ wire' \in [End -> Seq(Frames)]
           /\ \A d \in End : Shape(wire[d], wire'[d], d, w[d], w'[d], w'[Peer(d)], Conn(d))
<1>. DEFINE p == Peer(e)
<1>0. p \in End /\ p # e /\ Peer(p) = e /\ \A d \in End : d = e \/ d = p
  BY PeerOf
<1>1. wire \in [End -> Seq(Frames)] /\ wire[e] \in Seq(Frames) /\ wire[p] \in Seq(Frames)
  BY <1>0 DEF Typed
<1>2. wire' = [[wire EXCEPT ![p] = Tail(wire[p])] EXCEPT ![e] = wire[e] \o <<f>>]
  BY <1>0, <1>1 DEF Consume
<1>3. wire[e] \o <<f>> \in Seq(Frames) /\ Grown(wire[e], wire[e] \o <<f>>, f)
  BY <1>1, AppendGrows
<1>4. Tail(wire[p]) \in Seq(Frames) /\ Cut(wire[p], Tail(wire[p]), 1) /\ 1 \in 1..Len(wire[p])
  BY <1>1, TailCuts
<1>5. wire' \in [End -> Seq(Frames)] /\ wire'[e] = wire[e] \o <<f>> /\ wire'[p] = Tail(wire[p])
  BY <1>0, <1>1, <1>2, <1>3, <1>4
<1>6. Shape(wire[e], wire'[e], e, w[e], w'[e], w'[Peer(e)], Conn(e))
  BY <1>3, <1>5 DEF Shape
<1>7. Shape(wire[p], wire'[p], p, w[p], w'[p], w'[Peer(p)], Conn(p))
  BY <1>0, <1>4, <1>5 DEF Shape
<1>. QED
  BY <1>0, <1>5, <1>6, <1>7

(* e's worker sends the frame f.                                           *)
LEMMA SentOne ==
    ASSUME Typed, NEW e \in End, NEW f \in Frames,
           wire' = [wire EXCEPT ![e] = Append(@, f)] \/ wire' = [wire EXCEPT ![e] = @ \o <<f>>],
           NewFrame(e, w[e], w'[e], Conn(e), f)
    PROVE  /\ wire' \in [End -> Seq(Frames)]
           /\ \A d \in End : Shape(wire[d], wire'[d], d, w[d], w'[d], w'[Peer(d)], Conn(d))
<1>1. wire \in [End -> Seq(Frames)] /\ wire[e] \in Seq(Frames)
  BY DEF Typed
<1>2. /\ Append(wire[e], f) \in Seq(Frames) /\ Grown(wire[e], Append(wire[e], f), f)
      /\ wire[e] \o <<f>> \in Seq(Frames) /\ Grown(wire[e], wire[e] \o <<f>>, f)
  BY <1>1, AppendGrows
<1>3. PICK q \in Seq(Frames) : Grown(wire[e], q, f) /\ wire' = [wire EXCEPT ![e] = q]
  BY <1>2
<1>4. wire' \in [End -> Seq(Frames)] /\ wire'[e] = q /\ \A d \in End : d # e => wire'[d] = wire[d]
  BY <1>1, <1>3
<1>5. ASSUME NEW d \in End
      PROVE  Shape(wire[d], wire'[d], d, w[d], w'[d], w'[Peer(d)], Conn(d))
  <2>1. CASE d = e
    BY <2>1, <1>3, <1>4 DEF Shape
  <2>2. CASE d # e
    BY <2>2, <1>4 DEF Shape
  <2>. QED
    BY <2>1, <2>2
<1>. QED
  BY <1>4, <1>5

LEMMA SentNothing ==
    ASSUME Typed, UNCHANGED wire
    PROVE  /\ wire' \in [End -> Seq(Frames)]
           /\ \A d \in End : Shape(wire[d], wire'[d], d, w[d], w'[d], w'[Peer(d)], Conn(d))
BY DEF Typed, Shape

----------------------------------------------------------------------------
(* A worker's variables, one written at a time.                            *)

LEMMA SetPh ==
    ASSUME NEW v \in [End -> Worker], NEW e \in End, NEW x \in Phases
    PROVE  [v EXCEPT ![e].ph = x] \in [End -> Worker]
BY DEF Worker

LEMMA SetFlags ==
    ASSUME NEW v \in [End -> Worker], NEW e \in End, NEW x \in SUBSET Flags
    PROVE  [v EXCEPT ![e].is = x] \in [End -> Worker]
BY DEF Worker

LEMMA SetSent ==
    ASSUME NEW v \in [End -> Worker], NEW e \in End, NEW n \in Nat, NEW m \in 0..Chunk
    PROVE  [v EXCEPT ![e].sent = n, ![e].flight = m] \in [End -> Worker]
<1>1. [v EXCEPT ![e].sent = n] \in [End -> Worker]
  BY DEF Worker
<1>2. ASSUME NEW u \in [End -> Worker] PROVE [u EXCEPT ![e].flight = m] \in [End -> Worker]
  BY DEF Worker
<1>3. [v EXCEPT ![e].sent = n, ![e].flight = m] = [[v EXCEPT ![e].sent = n] EXCEPT ![e].flight = m]
  OBVIOUS
<1>. QED
  BY <1>1, <1>2, <1>3

LEMMA SetFlight ==
    ASSUME NEW v \in [End -> Worker], NEW e \in End, NEW m \in 0..Chunk
    PROVE  [v EXCEPT ![e].flight = m] \in [End -> Worker]
BY DEF Worker

LEMMA SetWritten ==
    ASSUME NEW v \in [End -> Worker], NEW e \in End, NEW m \in 0..Chunk
    PROVE  [v EXCEPT ![e].written = m] \in [End -> Worker]
BY DEF Worker

LEMMA SetPending ==
    ASSUME NEW v \in [End -> Worker], NEW e \in End,
           NEW n \in 0..Chunk, NEW c \in 0..MaxSpawn, NEW m \in 0..Chunk
    PROVE  [v EXCEPT ![e].pending = n, ![e].from = c, ![e].written = m] \in [End -> Worker]
<1>1. ASSUME NEW u \in [End -> Worker] PROVE [u EXCEPT ![e].pending = n] \in [End -> Worker]
  BY DEF Worker
<1>2. ASSUME NEW u \in [End -> Worker] PROVE [u EXCEPT ![e].from = c] \in [End -> Worker]
  BY DEF Worker
<1>3. [v EXCEPT ![e].pending = n, ![e].from = c, ![e].written = m] =
        [[[v EXCEPT ![e].pending = n] EXCEPT ![e].from = c] EXCEPT ![e].written = m]
  OBVIOUS
<1>. QED
  BY <1>1, <1>2, <1>3, SetWritten

LEMMA SetGot ==
    ASSUME NEW v \in [End -> Worker], NEW e \in End, NEW n \in Nat,
           0 \in 0..Chunk, 0 \in 0..MaxSpawn
    PROVE  [v EXCEPT ![e].got = n, ![e].pending = 0, ![e].written = 0, ![e].from = 0]
              \in [End -> Worker]
<1>1. ASSUME NEW u \in [End -> Worker] PROVE [u EXCEPT ![e].got = n] \in [End -> Worker]
  BY DEF Worker
<1>2. ASSUME NEW u \in [End -> Worker] PROVE [u EXCEPT ![e].pending = 0] \in [End -> Worker]
  BY DEF Worker
<1>3. ASSUME NEW u \in [End -> Worker] PROVE [u EXCEPT ![e].from = 0] \in [End -> Worker]
  BY DEF Worker
<1>4. [v EXCEPT ![e].got = n, ![e].pending = 0, ![e].written = 0, ![e].from = 0] =
        [[[[v EXCEPT ![e].got = n] EXCEPT ![e].pending = 0] EXCEPT ![e].written = 0] EXCEPT ![e].from = 0]
  OBVIOUS
<1>. QED
  BY <1>1, <1>2, <1>3, <1>4, SetWritten

----------------------------------------------------------------------------
(* The invariant.                                                          *)

(* A worker by itself: a retry repeats what was sent; a chunk waits while  *)
(* bytes of it are missing; an end is announced after the last byte, and   *)
(* believed when every byte before it was written.                         *)
WorkerOk(e, x) ==
    /\ x.sent <= Total[e] /\ x.flight <= x.sent
    /\ x.written < x.pending \/ (x.pending = 0 /\ x.written = 0)
    /\ x.flight # 0 => "ready" \in x.is
    /\ "localEof" \in x.is => "ready" \in x.is /\ x.sent = Total[e]
    /\ "remoteEof" \in x.is => x.got = Total[Peer(e)] /\ x.pending = 0
    /\ x.ph = "clean" => {"localEof", "remoteEof", "finAcked"} \subseteq x.is

(* What a frame f under way from e says of e's worker x.                   *)
Says(e, x, f) ==
    /\ f.k = "FIN" => f.off = Total[e]
    /\ f.k = "FIN_ACK" => "remoteEof" \in x.is
    /\ e = "client" =>
         /\ f.k = "DATA" => f.off + f.len <= x.sent /\ "ready" \in x.is
         /\ f.k = "FIN" => x.sent = Total["client"] /\ "ready" \in x.is
         /\ f.k = "RESET" => x.ph # "run"

WorkersInv == \A e \in End : WorkerOk(e, w[e])
FramesInv == \A e \in End : \A i \in 1..Len(wire[e]) : Says(e, w[e], wire[e][i])

(* The host's worker serves its latest connection.                         *)
HostInv ==
    /\ (w["host"].ph = "none") <=> (read = <<>>)
    /\ w["host"].ph = "run" => w["host"].sent = read[Len(read)]
    /\ \A c \in 1..Len(read) : read[c] <= Total["host"]
    /\ w["host"].pending # 0 => w["host"].got + w["host"].pending <= w["client"].sent

(* The sockets hold what the workers count: the bytes in order, and as     *)
(* many as the chunks done and the part of the chunk at hand.              *)
SinkInv ==
    /\ \A e \in End, c \in Connections : \A i \in 1..Len(sink[e][c]) : sink[e][c][i].pos = i
    /\ Len(sink["client"][1]) = w["client"].got + w["client"].written
    /\ \A c \in Connections : c > Len(read) => sink["host"][c] = <<>>
    /\ w["host"].ph \in {"run", "clean"} \/ "remoteEof" \in w["host"].is =>
         /\ read # <<>>
         /\ Len(sink["host"][Len(read)]) = w["host"].got + w["host"].written

(* A host that knows the client's end is not asked to open again: no OPEN  *)
(* comes behind a DATA or FIN frame.                                       *)
NoOpen(q) == \A i \in 1..Len(q) : q[i].k # "OPEN"
OpensFirst(q) == \A i \in 1..Len(q) : q[i].k = "OPEN" =>
                    \A j \in 1..i : q[j].k \notin {"DATA", "FIN"}
Opened(x) == "ready" \in x.is \/ x.ph # "run"
EndsInv ==
    /\ OpensFirst(wire["client"])
    /\ "remoteEof" \in w["host"].is => NoOpen(wire["client"]) /\ Opened(w["client"])
    /\ \A e \in End : "finAcked" \in w[e].is => "remoteEof" \in w[Peer(e)].is

LinkInv == Typed /\ WorkersInv /\ FramesInv /\ HostInv /\ SinkInv /\ EndsInv

----------------------------------------------------------------------------
(* What every step leaves true of the link and the workers.                *)

(* The host is asked to open a stream it does not have.                    *)
AskedAgain ==
    /\ wire["client"] # <<>> /\ wire["client"][1].k = "OPEN"
    /\ w["host"].ph # "run"

Calm ==
    /\ Typed'
    /\ \A d \in End : Shape(wire[d], wire'[d], d, w[d], w'[d], w'[Peer(d)], Conn(d))
    /\ Grows(w["client"], w'["client"])
    /\ Grows(w["host"], w'["host"]) \/ AskedAgain

LEMMA ConnTyped ==
    ASSUME Typed, HostInv, NEW e \in End, Running(e)
    PROVE  Conn(e) \in Connections /\ Conn(e) \in 0..MaxSpawn /\ (e = "host" => Conn(e) = Len(read))
<1>1. CASE e = "host"
  <2>1. read # <<>> /\ read \in Seq(Nat) /\ Len(read) <= MaxSpawn
    BY <1>1 DEF HostInv, Running, Typed
  <2>2. Len(read) \in 1..MaxSpawn
    BY <2>1, StreamAssumption
  <2>. QED
    BY <1>1, <2>2, StreamAssumption DEF Conn, Connections
<1>2. CASE e # "host"
  BY <1>2, StreamAssumption DEF Conn, Connections
<1>. QED
  BY <1>1, <1>2

LEMMA GrowsItself == \A x \in Worker : Grows(x, x)
BY DEF Grows, Worker

LEMMA HeadIsFirst ==
    ASSUME Typed, NEW e \in End, wire[Peer(e)] # <<>>
    PROVE  Msg(e) = wire[Peer(e)][1] /\ Msg(e) \in Frames /\ 1 \in 1..Len(wire[Peer(e)])
<1>1. wire[Peer(e)] \in Seq(Frames)
  BY PeerOf DEF Typed
<1>. QED
  BY <1>1, TailCuts DEF Msg

LEMMA ResetFrame ==
    /\ Reset = <<Frame("RESET", 0)>> /\ Frame("RESET", 0) \in Frames /\ Frame("RESET", 0).k = "RESET"
BY FrameTyped DEF Reset, Kinds

(* A RESET may always be sent by a worker that is done.                    *)
LEMMA ResetIsNew ==
    ASSUME NEW e, NEW x, NEW y, y.ph # "run", NEW c
    PROVE  NewFrame(e, x, y, c, Frame("RESET", 0))
BY ResetFrame DEF NewFrame

LEMMA FreshTyped ==
    \A fl \in SUBSET Flags :
       /\ Fresh(fl) \in Worker
       /\ Fresh(fl).ph = "run" /\ Fresh(fl).is = fl /\ Fresh(fl).sent = 0 /\ Fresh(fl).flight = 0
       /\ Fresh(fl).got = 0 /\ Fresh(fl).pending = 0 /\ Fresh(fl).written = 0 /\ Fresh(fl).from = 0
BY StreamAssumption DEF Fresh, Worker, Phases

LEMMA BrokenTyped ==
    ASSUME Typed, NEW e \in End, NEW x \in Phases
    PROVE  LET v == [w EXCEPT ![e].ph = x]
           IN /\ v \in [End -> Worker]
              /\ v[e].ph = x /\ v[e].is = w[e].is /\ v[e].sent = w[e].sent
              /\ v[e].flight = w[e].flight /\ v[e].got = w[e].got
              /\ v[e].pending = w[e].pending /\ v[e].written = w[e].written
              /\ v[e].from = w[e].from
              /\ v[Peer(e)] = w[Peer(e)]
<1>1. w \in [End -> Worker] /\ w[e] \in Worker /\ Peer(e) \in End /\ Peer(e) # e
  BY PeerOf DEF Typed
<1>2. [w EXCEPT ![e].ph = x] \in [End -> Worker]
  BY <1>1, SetPh
<1>. QED
  BY <1>1, <1>2 DEF Worker

LEMMA OpenCalm ==
    ASSUME Typed, WorkersInv, HostInv, ReceiveOpen
    PROVE  Calm
<1>. DEFINE e == "host"
<1>0. e \in End /\ Peer(e) = "client" /\ Peer("client") = e /\ "client" \in End
  BY PeerIs DEF End
<1>1. wire[Peer(e)] # <<>> /\ Msg(e).k = "OPEN" /\ UNCHANGED <<sink, kind, lost>>
  BY DEF ReceiveOpen, Arrives, Msg
<1>2. wire[Peer(e)][1].k = "OPEN"
  BY <1>0, <1>1, HeadIsFirst
<1>3. w \in [End -> Worker] /\ w[e] \in Worker /\ w["client"] \in Worker
  BY <1>0 DEF Typed
<1>4. CASE Running(e) /\ Consume(e, <<Frame("READY", 0)>>) /\ UNCHANGED <<w, read>>
  <2>1. Frame("READY", 0) \in Frames /\ Frame("READY", 0).k = "READY"
    BY FrameTyped DEF Kinds
  <2>2. NewFrame(e, w[e], w'[e], Conn(e), Frame("READY", 0))
    BY <2>1 DEF NewFrame
  <2>3. wire' \in [End -> Seq(Frames)]
        /\ \A d \in End : Shape(wire[d], wire'[d], d, w[d], w'[d], w'[Peer(d)], Conn(d))
    BY <1>0, <1>1, <1>2, <1>4, <2>1, <2>2, ReceivedAnswering
  <2>4. Grows(w["client"], w'["client"]) /\ Grows(w[e], w'[e])
    BY <1>3, <1>4, GrowsItself
  <2>5. Typed'
    BY <1>1, <1>4, <2>3 DEF Typed
  <2>. QED
    BY <2>3, <2>4, <2>5 DEF Calm
<1>5. CASE /\ ~Running(e) /\ Len(read) < MaxSpawn /\ read' = Append(read, 0)
           /\ w' = [w EXCEPT ![e] = Fresh({"ready"})] /\ Consume(e, <<Frame("READY", 0)>>)
  <2>1. Frame("READY", 0) \in Frames /\ Frame("READY", 0).k = "READY"
    BY FrameTyped DEF Kinds
  <2>2. NewFrame(e, w[e], w'[e], Conn(e), Frame("READY", 0))
    BY <2>1 DEF NewFrame
  <2>3. wire' \in [End -> Seq(Frames)]
        /\ \A d \in End : Shape(wire[d], wire'[d], d, w[d], w'[d], w'[Peer(d)], Conn(d))
    BY <1>0, <1>1, <1>2, <1>5, <2>1, <2>2, ReceivedAnswering
  <2>4. Fresh({"ready"}) \in Worker
    BY FreshTyped DEF Flags
  <2>5. w' \in [End -> Worker] /\ w'["client"] = w["client"]
    BY <1>0, <1>3, <1>5, <2>4
  <2>6. read' \in Seq(Nat) /\ Len(read') <= MaxSpawn
    BY <1>5, StreamAssumption DEF Typed
  <2>7. Typed'
    BY <1>1, <2>3, <2>5, <2>6 DEF Typed
  <2>8. Grows(w["client"], w'["client"]) /\ AskedAgain
    BY <1>0, <1>1, <1>2, <1>3, <1>5, <2>5, GrowsItself DEF AskedAgain, Running
  <2>. QED
    BY <2>3, <2>7, <2>8 DEF Calm
<1>6. CASE /\ ~Running(e) /\ Len(read) < MaxSpawn /\ read' = Append(read, 0)
           /\ w' = Broken(e) /\ Consume(e, Reset)
  <2>1. w' \in [End -> Worker] /\ w'[e].ph = "error" /\ w'["client"] = w["client"]
    BY <1>0, <1>6, BrokenTyped DEF Broken, Phases
  <2>2. NewFrame(e, w[e], w'[e], Conn(e), Frame("RESET", 0))
    BY <2>1, ResetIsNew
  <2>3. wire' \in [End -> Seq(Frames)]
        /\ \A d \in End : Shape(wire[d], wire'[d], d, w[d], w'[d], w'[Peer(d)], Conn(d))
    BY <1>0, <1>1, <1>2, <1>6, <2>2, ResetFrame, ReceivedAnswering
  <2>6. read' \in Seq(Nat) /\ Len(read') <= MaxSpawn
    BY <1>6, StreamAssumption DEF Typed
  <2>7. Typed'
    BY <1>1, <2>1, <2>3, <2>6 DEF Typed
  <2>8. Grows(w["client"], w'["client"]) /\ AskedAgain
    BY <1>0, <1>1, <1>2, <1>3, <1>6, <2>1, GrowsItself DEF AskedAgain, Running
  <2>. QED
    BY <2>3, <2>7, <2>8 DEF Calm
<1>7. CASE ~Running(e) /\ Len(read) = MaxSpawn /\ Consume(e, Reset) /\ UNCHANGED <<w, read>>
  <2>1. NewFrame(e, w[e], w'[e], Conn(e), Frame("RESET", 0))
    BY <1>7, ResetIsNew DEF Running
  <2>3. wire' \in [End -> Seq(Frames)]
        /\ \A d \in End : Shape(wire[d], wire'[d], d, w[d], w'[d], w'[Peer(d)], Conn(d))
    BY <1>0, <1>1, <1>2, <1>7, <2>1, ResetFrame, ReceivedAnswering
  <2>4. Grows(w["client"], w'["client"]) /\ Grows(w[e], w'[e])
    BY <1>3, <1>7, GrowsItself
  <2>5. Typed'
    BY <1>1, <1>7, <2>3 DEF Typed
  <2>. QED
    BY <2>3, <2>4, <2>5 DEF Calm
<1>. QED
  BY <1>4, <1>5, <1>6, <1>7 DEF ReceiveOpen

(* An end takes a frame, or does something of its own, in a step that      *)
(* leaves the other worker, the sockets and the connections alone.         *)
LEMMA CalmAlone ==
    ASSUME Typed, NEW e \in End,
           w' \in [End -> Worker], w'[Peer(e)] = w[Peer(e)], Grows(w[e], w'[e]),
           UNCHANGED <<sink, kind, read, lost>>,
           wire' \in [End -> Seq(Frames)],
           \A d \in End : Shape(wire[d], wire'[d], d, w[d], w'[d], w'[Peer(d)], Conn(d))
    PROVE  Calm
<1>1. Typed'
  BY DEF Typed
<1>2. w["client"] \in Worker /\ w["host"] \in Worker
  BY DEF Typed, End
<1>3. Grows(w["client"], w'["client"]) /\ Grows(w["host"], w'["host"])
  <2>1. CASE e = "client"
    BY <2>1, <1>2, PeerIs, GrowsItself
  <2>2. CASE e = "host"
    BY <2>2, <1>2, PeerIs, GrowsItself
  <2>. QED
    BY <2>1, <2>2 DEF End
<1>. QED
  BY <1>1, <1>3 DEF Calm

LEMMA StrayCalm ==
    ASSUME Typed, NEW e \in End, ReceiveStray(e)
    PROVE  Calm
<1>1. /\ ~Running(e) /\ wire[Peer(e)] # <<>> /\ Consume(e, StrayAnswer(e))
      /\ UNCHANGED <<w, sink, kind, read, lost>>
  BY DEF ReceiveStray
<1>2. w \in [End -> Worker] /\ Peer(e) \in End /\ Grows(w[e], w[e])
  BY PeerOf, GrowsItself DEF Typed
<1>3. wire' \in [End -> Seq(Frames)]
      /\ \A d \in End : Shape(wire[d], wire'[d], d, w[d], w'[d], w'[Peer(d)], Conn(d))
  <2>1. CASE Msg(e).k = "RESET"
    <3>1. Consume(e, <<>>)
      BY <1>1, <2>1 DEF StrayAnswer
    <3>. QED
      BY <1>1, <3>1, ReceivedQuietly DEF Running
  <2>2. CASE Msg(e).k # "RESET"
    <3>1. Consume(e, <<Frame("RESET", 0)>>)
      BY <1>1, <2>2, ResetFrame DEF StrayAnswer
    <3>2. NewFrame(e, w[e], w'[e], Conn(e), Frame("RESET", 0))
      BY <1>1, ResetIsNew DEF Running
    <3>. QED
      BY <1>1, <3>1, <3>2, ResetFrame, ReceivedAnswering DEF Running
  <2>. QED
    BY <2>1, <2>2
<1>. QED
  BY <1>1, <1>2, <1>3, CalmAlone

LEMMA ResetCalm ==
    ASSUME Typed, NEW e \in End, ReceiveReset(e)
    PROVE  Calm
<1>1. /\ wire[Peer(e)] # <<>> /\ Consume(e, <<>>) /\ w' = [w EXCEPT ![e].ph = "reset"]
      /\ UNCHANGED <<sink, kind, read, lost>>
  BY DEF ReceiveReset, Arrives
<1>2. /\ w' \in [End -> Worker] /\ w'[e].ph = "reset" /\ w'[e].is = w[e].is
      /\ w'[e].sent = w[e].sent /\ w'[Peer(e)] = w[Peer(e)]
  BY <1>1, BrokenTyped DEF Phases
<1>3. wire' \in [End -> Seq(Frames)]
      /\ \A d \in End : Shape(wire[d], wire'[d], d, w[d], w'[d], w'[Peer(d)], Conn(d))
  BY <1>1, <1>2, ReceivedQuietly
<1>4. Grows(w[e], w'[e])
  BY <1>2 DEF Grows, Typed, Worker
<1>. QED
  BY <1>1, <1>2, <1>3, <1>4, CalmAlone

(* A worker learns something: the flag fl.                                 *)
LEMMA Learns ==
    ASSUME Typed, NEW e \in End, NEW fl \in Flags, w' = [w EXCEPT ![e].is = @ \cup {fl}]
    PROVE  /\ w' \in [End -> Worker]
           /\ w'[e].is = w[e].is \cup {fl} /\ w'[e].ph = w[e].ph
           /\ w'[e].sent = w[e].sent /\ w'[e].flight = w[e].flight
           /\ w'[e].got = w[e].got /\ w'[e].pending = w[e].pending
           /\ w'[e].written = w[e].written /\ w'[e].from = w[e].from
           /\ w'[Peer(e)] = w[Peer(e)]
           /\ Grows(w[e], w'[e])
<1>1. w \in [End -> Worker] /\ w[e] \in Worker /\ Peer(e) \in End /\ Peer(e) # e
  BY PeerOf DEF Typed
<1>2. w[e].is \cup {fl} \in SUBSET Flags
  BY <1>1 DEF Worker
<1>3. w' \in [End -> Worker]
  BY <1>1, <1>2, SetFlags
<1>4. /\ w'[e].is = w[e].is \cup {fl} /\ w'[e].ph = w[e].ph
      /\ w'[e].sent = w[e].sent /\ w'[e].flight = w[e].flight
      /\ w'[e].got = w[e].got /\ w'[e].pending = w[e].pending
      /\ w'[e].written = w[e].written /\ w'[e].from = w[e].from
      /\ w'[Peer(e)] = w[Peer(e)]
  BY <1>1 DEF Worker
<1>5. Grows(w[e], w'[e])
  BY <1>1, <1>4 DEF Grows, Worker
<1>. QED
  BY <1>3, <1>4, <1>5

LEMMA ReadyCalm ==
    ASSUME Typed, ReceiveReady
    PROVE  Calm
<1>. DEFINE e == "client"
<1>0. e \in End /\ Peer(e) = "host"
  BY PeerIs DEF End
<1>1. /\ wire[Peer(e)] # <<>> /\ Msg(e).k = "READY" /\ Consume(e, <<>>)
      /\ w' = [w EXCEPT ![e].is = @ \cup {"ready"}]
      /\ UNCHANGED <<sink, kind, read, lost>>
  BY DEF ReceiveReady, Arrives, Msg
<1>2. w' \in [End -> Worker] /\ w'[Peer(e)] = w[Peer(e)] /\ Grows(w[e], w'[e])
  BY <1>0, <1>1, Learns DEF Flags
<1>3. wire[Peer(e)][1].k # "RESET"
  BY <1>0, <1>1, HeadIsFirst
<1>4. wire' \in [End -> Seq(Frames)]
      /\ \A d \in End : Shape(wire[d], wire'[d], d, w[d], w'[d], w'[Peer(d)], Conn(d))
  BY <1>0, <1>1, <1>3, ReceivedQuietly
<1>. QED
  BY <1>0, <1>1, <1>2, <1>4, CalmAlone

(* A frame that is not a RESET arrives at e, whose worker breaks off.      *)
LEMMA BreaksOff ==
    ASSUME Typed, NEW e \in End, wire[Peer(e)] # <<>>,
           w' = Broken(e), Consume(e, Reset), UNCHANGED <<sink, kind, read, lost>>
    PROVE  Calm
<1>1. /\ w' \in [End -> Worker] /\ w'[e].ph = "error" /\ w'[e].is = w[e].is
      /\ w'[e].sent = w[e].sent /\ w'[Peer(e)] = w[Peer(e)]
  BY BrokenTyped DEF Phases, Broken
<1>2. NewFrame(e, w[e], w'[e], Conn(e), Frame("RESET", 0))
  BY <1>1, ResetIsNew
<1>3. wire' \in [End -> Seq(Frames)]
      /\ \A d \in End : Shape(wire[d], wire'[d], d, w[d], w'[d], w'[Peer(d)], Conn(d))
  BY <1>1, <1>2, ResetFrame, ReceivedAnswering
<1>4. Grows(w[e], w'[e])
  BY <1>1 DEF Grows, Typed, Worker
<1>. QED
  BY <1>1, <1>3, <1>4, CalmAlone

(* A frame that is not a RESET is answered with an ACK, by a worker whose  *)
(* variables stay as they are.                                             *)
LEMMA Acknowledges ==
    ASSUME Typed, NEW e \in End, wire[Peer(e)] # <<>>, wire[Peer(e)][1].k # "RESET",
           NEW n \in Nat, Consume(e, <<Frame("ACK", n)>>),
           UNCHANGED <<w, sink, kind, read, lost>>
    PROVE  Calm
<1>1. w \in [End -> Worker] /\ Peer(e) \in End /\ Grows(w[e], w[e])
  BY PeerOf, GrowsItself DEF Typed
<1>2. Frame("ACK", n) \in Frames /\ Frame("ACK", n).k = "ACK"
  BY FrameTyped DEF Kinds
<1>3. NewFrame(e, w[e], w'[e], Conn(e), Frame("ACK", n))
  BY <1>2 DEF NewFrame
<1>4. wire' \in [End -> Seq(Frames)]
      /\ \A d \in End : Shape(wire[d], wire'[d], d, w[d], w'[d], w'[Peer(d)], Conn(d))
  BY <1>2, <1>3, ReceivedAnswering
<1>. QED
  BY <1>1, <1>4, CalmAlone

(* A frame that is not a RESET changes nothing but, perhaps, the worker.   *)
LEMMA Swallows ==
    ASSUME Typed, NEW e \in End, wire[Peer(e)] # <<>>, wire[Peer(e)][1].k # "RESET",
           Consume(e, <<>>), UNCHANGED <<sink, kind, read, lost>>,
           \/ UNCHANGED w
           \/ w' \in [End -> Worker] /\ w'[Peer(e)] = w[Peer(e)] /\ Grows(w[e], w'[e])
    PROVE  Calm
<1>1. w' \in [End -> Worker] /\ w'[Peer(e)] = w[Peer(e)] /\ Grows(w[e], w'[e])
  BY PeerOf, GrowsItself DEF Typed
<1>2. wire' \in [End -> Seq(Frames)]
      /\ \A d \in End : Shape(wire[d], wire'[d], d, w[d], w'[d], w'[Peer(d)], Conn(d))
  BY ReceivedQuietly
<1>. QED
  BY <1>1, <1>2, CalmAlone

(* The next chunk waits for e's socket.                                    *)
LEMMA Accepts ==
    ASSUME Typed, NEW e \in End, NEW m \in Frames,
           w' = [w EXCEPT ![e].pending = m.len, ![e].from = m.conn, ![e].written = 0]
    PROVE  /\ w' \in [End -> Worker]
           /\ w'[e].pending = m.len /\ w'[e].from = m.conn /\ w'[e].written = 0
           /\ w'[e].is = w[e].is /\ w'[e].ph = w[e].ph /\ w'[e].got = w[e].got
           /\ w'[e].sent = w[e].sent /\ w'[e].flight = w[e].flight
           /\ w'[Peer(e)] = w[Peer(e)]
           /\ Grows(w[e], w'[e])
<1>1. w \in [End -> Worker] /\ w[e] \in Worker /\ Peer(e) \in End /\ Peer(e) # e
  BY PeerOf DEF Typed
<1>2. m.len \in 0..Chunk /\ m.conn \in 0..MaxSpawn /\ 0 \in 0..Chunk
  BY StreamAssumption DEF Frames
<1>3. w' \in [End -> Worker]
  BY <1>1, <1>2, SetPending
<1>4. /\ w'[e].pending = m.len /\ w'[e].from = m.conn /\ w'[e].written = 0
      /\ w'[e].is = w[e].is /\ w'[e].ph = w[e].ph /\ w'[e].got = w[e].got
      /\ w'[e].sent = w[e].sent /\ w'[e].flight = w[e].flight
      /\ w'[Peer(e)] = w[Peer(e)]
  BY <1>1 DEF Worker
<1>5. Grows(w[e], w'[e])
  BY <1>1, <1>4 DEF Grows, Worker
<1>. QED
  BY <1>3, <1>4, <1>5

LEMMA DataCalm ==
    ASSUME Typed, NEW e \in End, ReceiveData(e)
    PROVE  Calm
<1>1. wire[Peer(e)] # <<>> /\ Msg(e).k = "DATA" /\ UNCHANGED <<sink, kind, read, lost>>
  BY DEF ReceiveData, Arrives, Msg
<1>2. wire[Peer(e)][1].k # "RESET" /\ Msg(e) \in Frames
  BY <1>1, HeadIsFirst
<1>3. CASE Consume(e, <<>>) /\ UNCHANGED w
  BY <1>1, <1>2, <1>3, Swallows
<1>4. CASE Consume(e, <<Frame("ACK", w[e].got)>>) /\ UNCHANGED w
  <2>1. w[e].got \in Nat
    BY DEF Typed, Worker
  <2>. QED
    BY <1>1, <1>2, <1>4, <2>1, Acknowledges
<1>5. CASE /\ w' = [w EXCEPT ![e].pending = Msg(e).len, ![e].from = Msg(e).conn, ![e].written = 0]
           /\ Consume(e, <<>>)
  <2>1. w' \in [End -> Worker] /\ w'[Peer(e)] = w[Peer(e)] /\ Grows(w[e], w'[e])
    BY <1>2, <1>5, Accepts
  <2>. QED
    BY <1>1, <1>2, <1>5, <2>1, Swallows
<1>6. CASE w' = Broken(e) /\ Consume(e, Reset)
  BY <1>1, <1>6, BreaksOff
<1>. QED
  BY <1>3, <1>4, <1>5, <1>6 DEF ReceiveData

LEMMA Acked ==
    ASSUME Typed, NEW e \in End, w' = [w EXCEPT ![e].flight = 0]
    PROVE  /\ w' \in [End -> Worker]
           /\ w'[e].pending = w[e].pending /\ w'[e].from = w[e].from /\ w'[e].written = w[e].written
           /\ w'[e].is = w[e].is /\ w'[e].ph = w[e].ph /\ w'[e].got = w[e].got
           /\ w'[e].sent = w[e].sent /\ w'[e].flight = 0
           /\ w'[Peer(e)] = w[Peer(e)]
           /\ Grows(w[e], w'[e])
<1>1. w \in [End -> Worker] /\ w[e] \in Worker /\ Peer(e) \in End /\ Peer(e) # e /\ 0 \in 0..Chunk
  BY PeerOf, StreamAssumption DEF Typed
<1>3. w' \in [End -> Worker]
  BY <1>1, SetFlight
<1>4. /\ w'[e].pending = w[e].pending /\ w'[e].from = w[e].from /\ w'[e].written = w[e].written
      /\ w'[e].is = w[e].is /\ w'[e].ph = w[e].ph /\ w'[e].got = w[e].got
      /\ w'[e].sent = w[e].sent /\ w'[e].flight = 0
      /\ w'[Peer(e)] = w[Peer(e)]
  BY <1>1 DEF Worker
<1>5. Grows(w[e], w'[e])
  BY <1>1, <1>4 DEF Grows, Worker
<1>. QED
  BY <1>3, <1>4, <1>5

LEMMA AckCalm ==
    ASSUME Typed, NEW e \in End, ReceiveAck(e)
    PROVE  Calm
<1>1. wire[Peer(e)] # <<>> /\ Msg(e).k = "ACK" /\ UNCHANGED <<sink, kind, read, lost>>
  BY DEF ReceiveAck, Arrives, Msg
<1>2. wire[Peer(e)][1].k # "RESET"
  BY <1>1, HeadIsFirst
<1>3. CASE w' = Broken(e) /\ Consume(e, Reset)
  BY <1>1, <1>3, BreaksOff
<1>4. CASE w' = [w EXCEPT ![e].flight = 0] /\ Consume(e, <<>>)
  BY <1>1, <1>2, <1>4, Acked, Swallows
<1>5. CASE w' = w /\ Consume(e, <<>>)
  BY <1>1, <1>2, <1>5, Swallows
<1>. QED
  BY <1>3, <1>4, <1>5 DEF ReceiveAck

LEMMA FinCalm ==
    ASSUME Typed, NEW e \in End, ReceiveFin(e)
    PROVE  Calm
<1>1. wire[Peer(e)] # <<>> /\ Msg(e).k = "FIN" /\ UNCHANGED <<sink, kind, read, lost>>
  BY DEF ReceiveFin, Arrives, Msg
<1>2. wire[Peer(e)][1].k # "RESET" /\ Msg(e) \in Frames
  BY <1>1, HeadIsFirst
<1>3. CASE w' = Broken(e) /\ Consume(e, Reset)
  BY <1>1, <1>3, BreaksOff
<1>4. CASE /\ w' = [w EXCEPT ![e].is = @ \cup {"remoteEof"}]
           /\ Consume(e, <<Frame("FIN_ACK", Msg(e).off)>>)
  <2>1. w' \in [End -> Worker] /\ w'[Peer(e)] = w[Peer(e)] /\ Grows(w[e], w'[e])
        /\ "remoteEof" \in w'[e].is
    BY <1>4, Learns DEF Flags
  <2>2. Msg(e).off \in Nat
    BY <1>2 DEF Frames
  <2>3. Frame("FIN_ACK", Msg(e).off) \in Frames /\ Frame("FIN_ACK", Msg(e).off).k = "FIN_ACK"
    BY <2>2, FrameTyped DEF Kinds
  <2>4. NewFrame(e, w[e], w'[e], Conn(e), Frame("FIN_ACK", Msg(e).off))
    BY <2>1, <2>3 DEF NewFrame
  <2>5. wire' \in [End -> Seq(Frames)]
        /\ \A d \in End : Shape(wire[d], wire'[d], d, w[d], w'[d], w'[Peer(d)], Conn(d))
    BY <1>1, <1>2, <1>4, <2>3, <2>4, ReceivedAnswering
  <2>. QED
    BY <1>1, <2>1, <2>5, CalmAlone
<1>5. CASE Consume(e, <<Frame("ACK", w[e].got)>>) /\ UNCHANGED w
  <2>1. w[e].got \in Nat
    BY DEF Typed, Worker
  <2>. QED
    BY <1>1, <1>2, <1>5, <2>1, Acknowledges
<1>. QED
  BY <1>3, <1>4, <1>5 DEF ReceiveFin

LEMMA FinAckCalm ==
    ASSUME Typed, NEW e \in End, ReceiveFinAck(e)
    PROVE  Calm
<1>1. /\ wire[Peer(e)] # <<>> /\ Msg(e).k = "FIN_ACK" /\ Consume(e, <<>>)
      /\ UNCHANGED <<sink, kind, read, lost>>
  BY DEF ReceiveFinAck, Arrives, Msg
<1>2. wire[Peer(e)][1].k # "RESET"
  BY <1>1, HeadIsFirst
<1>3. CASE w' = [w EXCEPT ![e].is = @ \cup {"finAcked"}]
  <2>1. w' \in [End -> Worker] /\ w'[Peer(e)] = w[Peer(e)] /\ Grows(w[e], w'[e])
    BY <1>3, Learns DEF Flags
  <2>. QED
    BY <1>1, <1>2, <2>1, Swallows
<1>4. CASE w' = w
  BY <1>1, <1>2, <1>4, Swallows
<1>. QED
  BY <1>3, <1>4 DEF ReceiveFinAck

(* What one write to e's socket does: n bytes more of the waiting chunk,   *)
(* and the chunk is done when none of it is left.                          *)
Piece(e, n) == [i \in 1..n |-> [from |-> w[e].from, pos |-> w[e].got + w[e].written + i]]

LEMMA Writes ==
    ASSUME Typed, WorkersInv, HostInv, NEW e \in End, WriteSocket(e)
    PROVE  /\ Running(e) /\ Conn(e) \in Connections /\ w[e].pending # 0
           /\ \E n \in Nat :
                /\ n > 0 /\ w[e].written + n <= w[e].pending
                /\ sink' = [sink EXCEPT ![e][Conn(e)] = @ \o Piece(e, n)]
                /\ Piece(e, n) \in Seq(Bytes) /\ Len(Piece(e, n)) = n
                /\ \/ /\ w[e].written + n = w[e].pending
                      /\ w' = [w EXCEPT ![e].got = w[e].got + w[e].pending, ![e].pending = 0,
                                        ![e].written = 0, ![e].from = 0]
                      /\ Emit(e, Frame("ACK", w[e].got + w[e].pending))
                   \/ /\ w[e].written + n < w[e].pending
                      /\ w' = [w EXCEPT ![e].written = w[e].written + n]
                      /\ UNCHANGED wire
           /\ UNCHANGED <<kind, read, lost>>
<1>1. Running(e) /\ w[e].pending # 0 /\ UNCHANGED <<kind, read, lost>>
  BY DEF WriteSocket, Drained
<1>2. Conn(e) \in Connections
  BY <1>1, ConnTyped
<1>3. /\ w[e].got \in Nat /\ w[e].written \in Nat /\ w[e].pending \in Nat
      /\ w[e].from \in 0..MaxSpawn /\ w[e].written < w[e].pending
  BY <1>1, StreamAssumption DEF Typed, Worker, WorkersInv, WorkerOk
<1>4. PICK n \in Unwritten(e) :
         /\ sink' = [sink EXCEPT ![e][Conn(e)] = @ \o Piece(e, n)]
         /\ IF w[e].written + n = w[e].pending
            THEN /\ w' = [w EXCEPT ![e].got = @ + (w[e].written + n), ![e].pending = 0,
                                   ![e].written = 0, ![e].from = 0]
                 /\ Emit(e, Frame("ACK", w[e].got + (w[e].written + n)))
            ELSE /\ w' = [w EXCEPT ![e].written = w[e].written + n]
                 /\ UNCHANGED wire
  BY DEF WriteSocket, Piece
<1>5. n \in Nat /\ n > 0 /\ w[e].written + n <= w[e].pending
  BY <1>3 DEF Unwritten
<1>6. Piece(e, n) \in Seq(Bytes) /\ Len(Piece(e, n)) = n
  <2>1. \A i \in 1..n : [from |-> w[e].from, pos |-> w[e].got + w[e].written + i] \in Bytes
    BY <1>3, <1>5 DEF Bytes
  <2>. QED
    BY <2>1, <1>5 DEF Piece
<1>7. CASE w[e].written + n = w[e].pending
  <2>1. w' = [w EXCEPT ![e].got = w[e].got + w[e].pending, ![e].pending = 0,
                       ![e].written = 0, ![e].from = 0]
    BY <1>4, <1>7
  <2>2. Emit(e, Frame("ACK", w[e].got + w[e].pending))
    BY <1>4, <1>7
  <2>. QED
    BY <1>1, <1>2, <1>4, <1>5, <1>6, <1>7, <2>1, <2>2
<1>8. CASE w[e].written + n # w[e].pending
  <2>1. w[e].written + n < w[e].pending
    BY <1>3, <1>5, <1>8
  <2>2. w' = [w EXCEPT ![e].written = w[e].written + n] /\ UNCHANGED wire
    BY <1>4, <1>8
  <2>. QED
    BY <1>1, <1>2, <1>4, <1>5, <1>6, <2>1, <2>2
<1>. QED
  BY <1>7, <1>8

LEMMA ChunkDone ==
    ASSUME Typed, NEW e \in End, NEW n \in Nat,
           w' = [w EXCEPT ![e].got = n, ![e].pending = 0, ![e].written = 0, ![e].from = 0]
    PROVE  /\ w' \in [End -> Worker]
           /\ w'[e].pending = 0 /\ w'[e].from = 0 /\ w'[e].written = 0
           /\ w'[e].is = w[e].is /\ w'[e].ph = w[e].ph /\ w'[e].got = n
           /\ w'[e].sent = w[e].sent /\ w'[e].flight = w[e].flight
           /\ w'[Peer(e)] = w[Peer(e)]
           /\ Grows(w[e], w'[e])
<1>1. /\ w \in [End -> Worker] /\ w[e] \in Worker /\ Peer(e) \in End /\ Peer(e) # e
      /\ 0 \in 0..Chunk /\ 0 \in 0..MaxSpawn
  BY PeerOf, StreamAssumption DEF Typed
<1>3. w' \in [End -> Worker]
  BY <1>1, SetGot
<1>4. /\ w'[e].pending = 0 /\ w'[e].from = 0 /\ w'[e].written = 0
      /\ w'[e].is = w[e].is /\ w'[e].ph = w[e].ph /\ w'[e].got = n
      /\ w'[e].sent = w[e].sent /\ w'[e].flight = w[e].flight
      /\ w'[Peer(e)] = w[Peer(e)]
  BY <1>1 DEF Worker
<1>5. Grows(w[e], w'[e])
  BY <1>1, <1>4 DEF Grows, Worker
<1>. QED
  BY <1>3, <1>4, <1>5

LEMMA ChunkGoesOn ==
    ASSUME Typed, NEW e \in End, NEW n \in 0..Chunk, w' = [w EXCEPT ![e].written = n]
    PROVE  /\ w' \in [End -> Worker]
           /\ w'[e].pending = w[e].pending /\ w'[e].from = w[e].from /\ w'[e].written = n
           /\ w'[e].is = w[e].is /\ w'[e].ph = w[e].ph /\ w'[e].got = w[e].got
           /\ w'[e].sent = w[e].sent /\ w'[e].flight = w[e].flight
           /\ w'[Peer(e)] = w[Peer(e)]
           /\ Grows(w[e], w'[e])
<1>1. w \in [End -> Worker] /\ w[e] \in Worker /\ Peer(e) \in End /\ Peer(e) # e
  BY PeerOf DEF Typed
<1>3. w' \in [End -> Worker]
  BY <1>1, SetWritten
<1>4. /\ w'[e].pending = w[e].pending /\ w'[e].from = w[e].from /\ w'[e].written = n
      /\ w'[e].is = w[e].is /\ w'[e].ph = w[e].ph /\ w'[e].got = w[e].got
      /\ w'[e].sent = w[e].sent /\ w'[e].flight = w[e].flight
      /\ w'[Peer(e)] = w[Peer(e)]
  BY <1>1 DEF Worker
<1>5. Grows(w[e], w'[e])
  BY <1>1, <1>4 DEF Grows, Worker
<1>. QED
  BY <1>3, <1>4, <1>5

(* One connection's socket takes s.                                        *)
LEMMA SinkTakes ==
    ASSUME Typed, NEW e \in End, NEW c \in Connections, NEW s \in Seq(Bytes),
           sink' = [sink EXCEPT ![e][c] = @ \o s]
    PROVE  /\ sink' \in [End -> [Connections -> Seq(Bytes)]]
           /\ sink'[e][c] = sink[e][c] \o s
           /\ sink[e][c] \in Seq(Bytes)
           /\ \A d \in End, b \in Connections : d # e \/ b # c => sink'[d][b] = sink[d][b]
<1>1. sink \in [End -> [Connections -> Seq(Bytes)]] /\ sink[e][c] \in Seq(Bytes)
  BY DEF Typed
<1>2. sink[e][c] \o s \in Seq(Bytes)
  BY <1>1
<1>3. PICK t \in Seq(Bytes) : t = sink[e][c] \o s /\ sink' = [sink EXCEPT ![e][c] = t]
  BY <1>1, <1>2
<1>. QED
  BY <1>1, <1>3

LEMMA WriteCalm ==
    ASSUME Typed, WorkersInv, HostInv, NEW e \in End, WriteSocket(e)
    PROVE  Calm
<1>1. Running(e) /\ Conn(e) \in Connections /\ UNCHANGED <<kind, read, lost>>
  BY Writes
<1>2. PICK n \in Nat :
        /\ n > 0 /\ w[e].written + n <= w[e].pending
        /\ sink' = [sink EXCEPT ![e][Conn(e)] = @ \o Piece(e, n)]
        /\ Piece(e, n) \in Seq(Bytes)
        /\ \/ /\ w' = [w EXCEPT ![e].got = w[e].got + w[e].pending, ![e].pending = 0,
                                ![e].written = 0, ![e].from = 0]
              /\ Emit(e, Frame("ACK", w[e].got + w[e].pending))
           \/ /\ w' = [w EXCEPT ![e].written = w[e].written + n]
              /\ UNCHANGED wire
  BY Writes
<1>3. sink' \in [End -> [Connections -> Seq(Bytes)]]
  BY <1>1, <1>2, SinkTakes
<1>4. w[e].got + w[e].pending \in Nat /\ w[e].written + n \in 0..Chunk
  <2>1. /\ w[e].got \in Nat /\ w[e].written \in Nat /\ w[e].pending \in Nat
        /\ w[e].pending \in 0..Chunk /\ Chunk \in Nat
    BY WorkerNumbers, StreamAssumption DEF Typed, Worker
  <2>2. w[e].written + n <= w[e].pending
    BY <1>2
  <2>3. w[e].got + w[e].pending \in Nat
    BY <2>1
  <2>4. w[e].written + n \in 0..Chunk
    BY <2>1, <2>2
  <2>. QED
    BY <2>3, <2>4
<1>5. /\ w' \in [End -> Worker] /\ w'[Peer(e)] = w[Peer(e)] /\ Grows(w[e], w'[e])
      /\ wire' \in [End -> Seq(Frames)]
      /\ \A d \in End : Shape(wire[d], wire'[d], d, w[d], w'[d], w'[Peer(d)], Conn(d))
  <2>1. CASE /\ w' = [w EXCEPT ![e].got = w[e].got + w[e].pending, ![e].pending = 0,
                               ![e].written = 0, ![e].from = 0]
             /\ Emit(e, Frame("ACK", w[e].got + w[e].pending))
    <3>1. PICK f \in Frames : f.k = "ACK" /\ Emit(e, f)
      BY <2>1, <1>4, FrameTyped DEF Kinds
    <3>2. NewFrame(e, w[e], w'[e], Conn(e), f)
      BY <3>1 DEF NewFrame
    <3>3. wire' \in [End -> Seq(Frames)]
          /\ \A d \in End : Shape(wire[d], wire'[d], d, w[d], w'[d], w'[Peer(d)], Conn(d))
      BY <3>1, <3>2, SentOne DEF Emit
    <3>. QED
      BY <2>1, <1>4, <3>3, ChunkDone
  <2>2. CASE w' = [w EXCEPT ![e].written = w[e].written + n] /\ UNCHANGED wire
    BY <2>2, <1>4, SentNothing, ChunkGoesOn
  <2>. QED
    BY <1>2, <2>1, <2>2
<1>6. Typed'
  BY <1>1, <1>3, <1>5 DEF Typed
<1>7. Grows(w["client"], w'["client"]) /\ Grows(w["host"], w'["host"])
  <2>1. CASE e = "client"
    BY <2>1, <1>5, PeerIs, GrowsItself DEF Typed, End
  <2>2. CASE e = "host"
    BY <2>2, <1>5, PeerIs, GrowsItself DEF Typed, End
  <2>. QED
    BY <2>1, <2>2 DEF End
<1>. QED
  BY <1>5, <1>6, <1>7 DEF Calm

(* A read puts n bytes more in flight.                                     *)
LEMMA ReadsMore ==
    ASSUME Typed, NEW e \in End, NEW n \in 1..Chunk,
           w' = [w EXCEPT ![e].sent = @ + n, ![e].flight = n]
    PROVE  /\ w' \in [End -> Worker]
           /\ w'[e].pending = w[e].pending /\ w'[e].from = w[e].from /\ w'[e].written = w[e].written
           /\ w'[e].is = w[e].is /\ w'[e].ph = w[e].ph /\ w'[e].got = w[e].got
           /\ w'[e].sent = w[e].sent + n /\ w'[e].flight = n
           /\ w'[Peer(e)] = w[Peer(e)]
           /\ Grows(w[e], w'[e])
<1>1. /\ w \in [End -> Worker] /\ w[e] \in Worker /\ Peer(e) \in End /\ Peer(e) # e
      /\ w[e].sent + n \in Nat /\ n \in 0..Chunk
  BY PeerOf, StreamAssumption DEF Typed, Worker
<1>2. w' = [w EXCEPT ![e].sent = w[e].sent + n, ![e].flight = n]
  OBVIOUS
<1>3. w' \in [End -> Worker]
  <2>1. PICK m \in Nat : m = w[e].sent + n
    BY <1>1
  <2>2. [w EXCEPT ![e].sent = m, ![e].flight = n] \in [End -> Worker]
    BY <1>1, SetSent
  <2>3. w' = [w EXCEPT ![e].sent = m, ![e].flight = n]
    BY <1>2, <2>1
  <2>. QED
    BY <2>2, <2>3
<1>4. /\ w'[e].pending = w[e].pending /\ w'[e].from = w[e].from /\ w'[e].written = w[e].written
      /\ w'[e].is = w[e].is /\ w'[e].ph = w[e].ph /\ w'[e].got = w[e].got
      /\ w'[e].sent = w[e].sent + n /\ w'[e].flight = n
      /\ w'[Peer(e)] = w[Peer(e)]
  BY <1>1, <1>2 DEF Worker
<1>5. Grows(w[e], w'[e])
  BY <1>1, <1>4 DEF Grows, Worker
<1>. QED
  BY <1>3, <1>4, <1>5

(* The count of the host's connection follows.                             *)
LEMMA ReadCounts ==
    ASSUME Typed, HostInv, NEW e \in End, Running(e), NEW n \in 1..Chunk,
           read' = IF e = "host" THEN [read EXCEPT ![Conn(e)] = @ + n] ELSE read
    PROVE  /\ read' \in Seq(Nat) /\ Len(read') = Len(read)
           /\ e = "host" => /\ Len(read) \in 1..Len(read)
                            /\ read'[Len(read)] = read[Len(read)] + n
                            /\ \A c \in 1..Len(read) : c # Len(read) => read'[c] = read[c]
           /\ e # "host" => read' = read
<1>1. read \in Seq(Nat)
  BY DEF Typed
<1>2. CASE e = "host"
  <2>1. Conn(e) = Len(read) /\ Len(read) \in 1..Len(read)
    BY <1>1, <1>2, ConnTyped DEF Connections
  <2>2. read' = [read EXCEPT ![Len(read)] = read[Len(read)] + n]
    BY <1>2, <2>1
  <2>3. read[Len(read)] + n \in Nat
    BY <1>1, <2>1
  <2>. QED
    BY <1>1, <1>2, <2>1, <2>2, <2>3
<1>3. CASE e # "host"
  BY <1>1, <1>3
<1>. QED
  BY <1>2, <1>3

LEMMA ReadCalm ==
    ASSUME Typed, WorkersInv, HostInv, NEW e \in End, ReadSocket(e)
    PROVE  Calm
<1>1. Running(e) /\ "ready" \in w[e].is /\ UNCHANGED <<sink, kind, lost>>
  BY DEF ReadSocket, Drained
<1>2. ASSUME NEW n \in 1..Chunk,
             w' = [w EXCEPT ![e].sent = @ + n, ![e].flight = n],
             Emit(e, DataFrame(w[e].sent, n, Conn(e))),
             read' = IF e = "host" THEN [read EXCEPT ![Conn(e)] = @ + n] ELSE read
      PROVE  Calm
  <2>1. /\ w' \in [End -> Worker] /\ w'[Peer(e)] = w[Peer(e)] /\ Grows(w[e], w'[e])
        /\ w'[e].sent = w[e].sent + n /\ w'[e].is = w[e].is /\ w'[e].ph = w[e].ph
    BY <1>2, ReadsMore
  <2>2. w[e].sent \in Nat /\ n \in 0..Chunk /\ Conn(e) \in 0..MaxSpawn
    BY <1>1, ConnTyped, StreamAssumption DEF Typed, Worker
  <2>3. PICK f \in Frames : /\ Emit(e, f) /\ f.k = "DATA" /\ f.off = w[e].sent /\ f.len = n
                            /\ f.conn = Conn(e)
    BY <1>2, <2>2, DataFrameTyped
  <2>4. NewFrame(e, w[e], w'[e], Conn(e), f)
    BY <1>1, <2>1, <2>3 DEF NewFrame, Running
  <2>5. wire' \in [End -> Seq(Frames)]
        /\ \A d \in End : Shape(wire[d], wire'[d], d, w[d], w'[d], w'[Peer(d)], Conn(d))
    BY <2>3, <2>4, SentOne DEF Emit
  <2>6. read' \in Seq(Nat) /\ Len(read') = Len(read)
    BY <1>1, <1>2, ReadCounts
  <2>7. Typed'
    BY <1>1, <2>1, <2>5, <2>6 DEF Typed
  <2>8. Grows(w["client"], w'["client"]) /\ Grows(w["host"], w'["host"])
    <3>1. CASE e = "client"
      BY <3>1, <2>1, PeerIs, GrowsItself DEF Typed, End
    <3>2. CASE e = "host"
      BY <3>2, <2>1, PeerIs, GrowsItself DEF Typed, End
    <3>. QED
      BY <3>1, <3>2 DEF End
  <2>. QED
    BY <2>5, <2>7, <2>8 DEF Calm
<1>3. CASE w' = [w EXCEPT ![e].is = @ \cup {"localEof"}] /\ UNCHANGED <<wire, read>>
  <2>1. w' \in [End -> Worker] /\ w'[Peer(e)] = w[Peer(e)] /\ Grows(w[e], w'[e])
    BY <1>3, Learns DEF Flags
  <2>2. wire' \in [End -> Seq(Frames)]
        /\ \A d \in End : Shape(wire[d], wire'[d], d, w[d], w'[d], w'[Peer(d)], Conn(d))
    BY <1>3, SentNothing
  <2>. QED
    BY <1>1, <1>3, <2>1, <2>2, CalmAlone
<1>. QED
  BY <1>2, <1>3 DEF ReadSocket

LEMMA RetryDataCalm ==
    ASSUME Typed, WorkersInv, HostInv, NEW e \in End, RetryData(e)
    PROVE  Calm
<1>1. /\ Running(e) /\ w[e].flight # 0 /\ UNCHANGED <<w, sink, kind, read, lost>>
      /\ Emit(e, DataFrame(w[e].sent - w[e].flight, w[e].flight, Conn(e)))
  BY DEF RetryData, Drained, RetryDue
<1>2. /\ w \in [End -> Worker] /\ Peer(e) \in End /\ Grows(w[e], w[e])
      /\ w[e].sent \in Nat /\ w[e].flight \in 0..Chunk /\ w[e].flight \in Nat
      /\ w[e].flight <= w[e].sent /\ "ready" \in w[e].is
  BY <1>1, PeerOf, GrowsItself, StreamAssumption DEF Typed, Worker, WorkersInv, WorkerOk
<1>3. w[e].sent - w[e].flight \in Nat /\ Conn(e) \in 0..MaxSpawn
  BY <1>1, <1>2, ConnTyped
<1>4. PICK f \in Frames : /\ Emit(e, f) /\ f.k = "DATA" /\ f.off = w[e].sent - w[e].flight
                          /\ f.len = w[e].flight /\ f.conn = Conn(e)
  BY <1>1, <1>2, <1>3, DataFrameTyped
<1>5. f.off + f.len = w[e].sent
  BY <1>2, <1>4
<1>6. NewFrame(e, w[e], w'[e], Conn(e), f)
  BY <1>1, <1>2, <1>4, <1>5 DEF NewFrame, Running
<1>7. wire' \in [End -> Seq(Frames)]
      /\ \A d \in End : Shape(wire[d], wire'[d], d, w[d], w'[d], w'[Peer(d)], Conn(d))
  BY <1>4, <1>6, SentOne DEF Emit
<1>. QED
  BY <1>1, <1>2, <1>7, CalmAlone

LEMMA SendFinCalm ==
    ASSUME Typed, WorkersInv, NEW e \in End, SendFin(e)
    PROVE  Calm
<1>1. /\ Running(e) /\ "localEof" \in w[e].is /\ UNCHANGED <<sink, kind, read, lost>>
      /\ w' = [w EXCEPT ![e].is = @ \cup {"finSent"}] /\ Emit(e, Frame("FIN", w[e].sent))
  BY DEF SendFin, Drained
<1>2. w' \in [End -> Worker] /\ w'[Peer(e)] = w[Peer(e)] /\ Grows(w[e], w'[e])
  BY <1>1, Learns DEF Flags
<1>3. w[e].sent \in Nat /\ w[e].sent = Total[e] /\ "ready" \in w[e].is
  BY <1>1 DEF Typed, Worker, WorkersInv, WorkerOk
<1>4. PICK f \in Frames : Emit(e, f) /\ f.k = "FIN" /\ f.off = w[e].sent
  BY <1>1, <1>3, FrameTyped DEF Kinds
<1>5. NewFrame(e, w[e], w'[e], Conn(e), f)
  BY <1>1, <1>3, <1>4 DEF NewFrame, Running
<1>6. wire' \in [End -> Seq(Frames)]
      /\ \A d \in End : Shape(wire[d], wire'[d], d, w[d], w'[d], w'[Peer(d)], Conn(d))
  BY <1>4, <1>5, SentOne DEF Emit
<1>. QED
  BY <1>1, <1>2, <1>6, CalmAlone

LEMMA RetryOpenCalm ==
    ASSUME Typed, RetryOpen
    PROVE  Calm
<1>. DEFINE e == "client"
<1>1. /\ Running(e) /\ "ready" \notin w[e].is /\ UNCHANGED <<w, sink, kind, read, lost>>
      /\ Emit(e, Frame("OPEN", 0))
  BY DEF RetryOpen, Drained
<1>2. e \in End /\ w \in [End -> Worker] /\ Peer(e) \in End /\ Grows(w[e], w[e])
  BY PeerIs, GrowsItself DEF Typed, End
<1>3. PICK f \in Frames : Emit(e, f) /\ f.k = "OPEN"
  BY <1>1, FrameTyped DEF Kinds
<1>4. NewFrame(e, w[e], w'[e], Conn(e), f)
  BY <1>1, <1>3 DEF NewFrame, Running
<1>5. wire' \in [End -> Seq(Frames)]
      /\ \A d \in End : Shape(wire[d], wire'[d], d, w[d], w'[d], w'[Peer(d)], Conn(d))
  BY <1>2, <1>3, <1>4, SentOne DEF Emit
<1>. QED
  BY <1>1, <1>2, <1>5, CalmAlone

LEMMA FinishCalm ==
    ASSUME Typed, NEW e \in End, Finish(e)
    PROVE  Calm
<1>1. w' = [w EXCEPT ![e].ph = "clean"] /\ UNCHANGED <<sink, wire, kind, read, lost>>
  BY DEF Finish
<1>2. /\ w' \in [End -> Worker] /\ w'[e].ph = "clean" /\ w'[e].is = w[e].is
      /\ w'[e].sent = w[e].sent /\ w'[Peer(e)] = w[Peer(e)]
  BY <1>1, BrokenTyped DEF Phases
<1>3. wire' \in [End -> Seq(Frames)]
      /\ \A d \in End : Shape(wire[d], wire'[d], d, w[d], w'[d], w'[Peer(d)], Conn(d))
  BY <1>1, SentNothing
<1>4. Grows(w[e], w'[e])
  BY <1>2 DEF Grows, Typed, Worker
<1>. QED
  BY <1>1, <1>2, <1>3, <1>4, CalmAlone

LEMMA BreakCalm ==
    ASSUME Typed, NEW e \in End, Break(e)
    PROVE  Calm
<1>1. /\ w' = Broken(e) /\ wire' = [wire EXCEPT ![e] = @ \o <<Frame("RESET", 0)>>]
      /\ UNCHANGED <<sink, kind, read, lost>>
  BY ResetFrame DEF Break
<1>2. /\ w' \in [End -> Worker] /\ w'[e].ph = "error" /\ w'[e].is = w[e].is
      /\ w'[e].sent = w[e].sent /\ w'[Peer(e)] = w[Peer(e)]
  BY <1>1, BrokenTyped DEF Phases, Broken
<1>3. NewFrame(e, w[e], w'[e], Conn(e), Frame("RESET", 0))
  BY <1>2, ResetIsNew
<1>4. wire' \in [End -> Seq(Frames)]
      /\ \A d \in End : Shape(wire[d], wire'[d], d, w[d], w'[d], w'[Peer(d)], Conn(d))
  BY <1>1, <1>3, ResetFrame, SentOne
<1>5. Grows(w[e], w'[e])
  BY <1>2 DEF Grows, Typed, Worker
<1>. QED
  BY <1>1, <1>2, <1>4, <1>5, CalmAlone

LEMMA LoseCalm ==
    ASSUME Typed, NEW e \in End, Lose(e)
    PROVE  Calm
<1>1. lost < MaxLoss /\ lost' = lost + 1 /\ UNCHANGED <<w, sink, kind, read>>
  BY DEF Lose
<1>2. PICK i \in 1..Len(wire[e]) :
         /\ LossyResets = "no" => wire[e][i].k # "RESET"
         /\ wire' = [wire EXCEPT ![e] = SubSeq(@, 1, i - 1) \o SubSeq(@, i + 1, Len(@))]
  BY DEF Lose
<1>3. wire \in [End -> Seq(Frames)] /\ wire[e] \in Seq(Frames)
  BY DEF Typed
<1>4. PICK q \in Seq(Frames) : Cut(wire[e], q, i) /\ wire' = [wire EXCEPT ![e] = q]
  BY <1>2, <1>3, LossCuts
<1>5. wire' \in [End -> Seq(Frames)] /\ wire'[e] = q /\ \A d \in End : d # e => wire'[d] = wire[d]
  BY <1>3, <1>4
<1>6. ASSUME NEW d \in End
      PROVE  Shape(wire[d], wire'[d], d, w[d], w'[d], w'[Peer(d)], Conn(d))
  <2>1. CASE d = e
    BY <2>1, <1>2, <1>4, <1>5 DEF Shape
  <2>2. CASE d # e
    BY <2>2, <1>5 DEF Shape
  <2>. QED
    BY <2>1, <2>2
<1>7. Typed'
  BY <1>1, <1>5, StreamAssumption DEF Typed
<1>8. Grows(w["client"], w'["client"]) /\ Grows(w["host"], w'["host"])
  BY <1>1, GrowsItself DEF Typed, End
<1>. QED
  BY <1>6, <1>7, <1>8 DEF Calm

LEMMA EveryStepIsCalm ==
    ASSUME LinkInv, Next
    PROVE  Calm
<1>0. Typed /\ WorkersInv /\ HostInv
  BY DEF LinkInv
<1>1. PICK e \in End : \/ Receive(e) \/ WriteSocket(e) \/ ReadSocket(e) \/ Retry(e)
                       \/ Finish(e) \/ Break(e) \/ Lose(e)
  BY DEF Next
<1>2. CASE Receive(e)
  BY <1>0, <1>2, OpenCalm, ReadyCalm, StrayCalm, ResetCalm, DataCalm, AckCalm, FinCalm, FinAckCalm
     DEF Receive
<1>3. CASE WriteSocket(e) \/ ReadSocket(e)
  BY <1>0, <1>3, WriteCalm, ReadCalm
<1>4. CASE Retry(e)
  BY <1>0, <1>4, RetryDataCalm, SendFinCalm, RetryOpenCalm DEF Retry
<1>5. CASE Finish(e) \/ Break(e) \/ Lose(e)
  BY <1>0, <1>5, FinishCalm, BreakCalm, LoseCalm
<1>. QED
  BY <1>1, <1>2, <1>3, <1>4, <1>5

----------------------------------------------------------------------------
(* Each action keeps the workers, the host's connections and the sockets   *)
(* in step.                                                                *)

LocalInv == WorkersInv /\ HostInv /\ SinkInv

(* A worker's step from x to y that neither writes its socket nor makes a  *)
(* connection.                                                             *)
Steady(x, y) ==
    /\ y.got + y.written = x.got + x.written
    /\ (y.ph = "none") <=> (x.ph = "none")
    /\ y.ph = "run" => x.ph = "run"
    /\ y.ph = "clean" => x.ph \in {"run", "clean"}
    /\ "remoteEof" \in y.is => "remoteEof" \in x.is \/ x.ph = "run"
    /\ y.sent = x.sent

LEMMA LocalAlone ==
    ASSUME LinkInv, NEW e \in End,
           w' \in [End -> Worker], w'[Peer(e)] = w[Peer(e)], UNCHANGED <<sink, read>>,
           WorkerOk(e, w'[e]), Steady(w[e], w'[e]),
           e = "host" /\ w'[e].pending # 0 => w'[e].got + w'[e].pending <= w["client"].sent
    PROVE  LocalInv'
<1>0. Typed /\ WorkersInv /\ HostInv /\ SinkInv
  BY DEF LinkInv
<1>1. \A d \in End : WorkerOk(d, w'[d])
  BY <1>0, PeerOf DEF WorkersInv
<1>2. WorkersInv'
  BY <1>1 DEF WorkersInv
<1>3. CASE e = "client"
  <2>1. w'["host"] = w["host"] /\ w'["client"].sent = w["client"].sent
        /\ w'["client"].got + w'["client"].written = w["client"].got + w["client"].written
    BY <1>3, PeerIs DEF Steady
  <2>. QED
    BY <1>0, <1>2, <2>1 DEF HostInv, SinkInv, LocalInv
<1>4. CASE e = "host"
  <2>1. w'["client"] = w["client"] /\ Steady(w["host"], w'["host"])
        /\ (w'["host"].pending # 0 => w'["host"].got + w'["host"].pending <= w["client"].sent)
    BY <1>4, PeerIs
  <2>2. HostInv'
    BY <1>0, <2>1 DEF HostInv, Steady
  <2>3. SinkInv'
    <3>1. Len(sink'["client"][1]) = w'["client"].got + w'["client"].written
      BY <1>0, <2>1 DEF SinkInv
    <3>2. ASSUME w'["host"].ph \in {"run", "clean"} \/ "remoteEof" \in w'["host"].is
          PROVE  read' # <<>> /\ Len(sink'["host"][Len(read')]) = w'["host"].got + w'["host"].written
      <4>1. w["host"].ph \in {"run", "clean"} \/ "remoteEof" \in w["host"].is
        BY <3>2, <2>1 DEF Steady
      <4>. QED
        BY <1>0, <2>1, <4>1 DEF SinkInv, Steady
    <3>. QED
      BY <1>0, <3>1, <3>2 DEF SinkInv
  <2>. QED
    BY <1>2, <2>2, <2>3 DEF LocalInv
<1>. QED
  BY <1>3, <1>4 DEF End

LEMMA LocalSame ==
    ASSUME LinkInv, UNCHANGED <<w, sink, read>>
    PROVE  LocalInv'
BY DEF LinkInv, LocalInv, WorkersInv, HostInv, SinkInv

(* A worker ends, well or not.                                             *)
LEMMA LocalEnds ==
    ASSUME LinkInv, NEW e \in End, NEW x \in {"reset", "error", "clean"},
           w' = [w EXCEPT ![e].ph = x], w[e].ph = "run",
           x = "clean" => {"localEof", "remoteEof", "finAcked"} \subseteq w[e].is,
           UNCHANGED <<sink, read>>
    PROVE  LocalInv'
<1>0. Typed /\ WorkersInv /\ HostInv
  BY DEF LinkInv
<1>1. /\ w' \in [End -> Worker]
      /\ w'[e].ph = x /\ w'[e].is = w[e].is /\ w'[e].sent = w[e].sent
      /\ w'[e].flight = w[e].flight /\ w'[e].got = w[e].got
      /\ w'[e].pending = w[e].pending /\ w'[e].written = w[e].written
      /\ w'[Peer(e)] = w[Peer(e)]
  <2>1. x \in Phases
    BY DEF Phases
  <2>. QED
    BY <1>0, <2>1, BrokenTyped
<1>2. WorkerOk(e, w'[e])
  BY <1>0, <1>1 DEF WorkersInv, WorkerOk
<1>3. Steady(w[e], w'[e])
  BY <1>1 DEF Steady
<1>4. e = "host" /\ w'[e].pending # 0 => w'[e].got + w'[e].pending <= w["client"].sent
  BY <1>0, <1>1 DEF HostInv
<1>. QED
  BY <1>1, <1>2, <1>3, <1>4, LocalAlone

(* A running worker learns something that is true.                         *)
LEMMA LocalLearns ==
    ASSUME LinkInv, NEW e \in End, NEW fl \in Flags,
           w' = [w EXCEPT ![e].is = @ \cup {fl}], w[e].ph = "run",
           fl = "localEof" => "ready" \in w[e].is /\ w[e].sent = Total[e],
           fl = "remoteEof" => w[e].got = Total[Peer(e)] /\ w[e].pending = 0,
           UNCHANGED <<sink, read>>
    PROVE  LocalInv'
<1>0. Typed /\ WorkersInv /\ HostInv
  BY DEF LinkInv
<1>1. /\ w' \in [End -> Worker]
      /\ w'[e].ph = w[e].ph /\ w'[e].is = w[e].is \cup {fl} /\ w'[e].sent = w[e].sent
      /\ w'[e].flight = w[e].flight /\ w'[e].got = w[e].got
      /\ w'[e].pending = w[e].pending /\ w'[e].written = w[e].written
      /\ w'[Peer(e)] = w[Peer(e)]
  BY <1>0, Learns
<1>2. WorkerOk(e, w'[e])
  BY <1>0, <1>1 DEF WorkersInv, WorkerOk
<1>3. Steady(w[e], w'[e])
  BY <1>1 DEF Steady
<1>4. e = "host" /\ w'[e].pending # 0 => w'[e].got + w'[e].pending <= w["client"].sent
  BY <1>0, <1>1 DEF HostInv
<1>. QED
  BY <1>1, <1>2, <1>3, <1>4, LocalAlone

(* What is known of the frame that arrives at e.                           *)
LEMMA ArrivesSaying ==
    ASSUME LinkInv, NEW e \in End, wire[Peer(e)] # <<>>
    PROVE  Says(Peer(e), w[Peer(e)], Msg(e)) /\ Msg(e) \in Frames
<1>1. Msg(e) = wire[Peer(e)][1] /\ Msg(e) \in Frames /\ 1 \in 1..Len(wire[Peer(e)])
  BY HeadIsFirst DEF LinkInv
<1>. QED
  BY <1>1, PeerOf DEF LinkInv, FramesInv

LEMMA OpenLocal ==
    ASSUME LinkInv, ReceiveOpen
    PROVE  LocalInv'
<1>. DEFINE e == "host"
<1>0. /\ Typed /\ WorkersInv /\ HostInv /\ SinkInv /\ EndsInv
      /\ e \in End /\ "client" \in End /\ Peer(e) = "client"
  BY PeerIs DEF LinkInv, End
<1>1. wire["client"] # <<>> /\ UNCHANGED sink /\ wire["client"][1].k = "OPEN" /\ 1 \in 1..Len(wire["client"])
  BY <1>0, HeadIsFirst DEF ReceiveOpen, Arrives, Msg
<1>2. "remoteEof" \notin w[e].is
  BY <1>0, <1>1 DEF EndsInv, NoOpen
<1>3. CASE UNCHANGED <<w, read>>
  BY <1>1, <1>3, LocalSame
<1>4. ASSUME ~Running(e), Len(read) < MaxSpawn, read' = Append(read, 0),
             w' = [w EXCEPT ![e] = Fresh({"ready"})]
             \/ w' = Broken(e)
      PROVE  LocalInv'
  <2>1. /\ read \in Seq(Nat) /\ Len(read') = Len(read) + 1 /\ read' # <<>>
        /\ read'[Len(read')] = 0
        /\ \A c \in 1..Len(read) : read'[c] = read[c]
    BY <1>0, <1>4 DEF Typed
  <2>2. \A c \in 1..Len(read') : read'[c] <= Total["host"]
    BY <1>0, <2>1, StreamAssumption DEF HostInv, End
  <2>3. \A c \in Connections : c > Len(read') => sink'[e][c] = <<>>
    <3>1. \A c \in Connections : c > Len(read') => c > Len(read)
      BY <2>1, StreamAssumption DEF Connections
    <3>. QED
      BY <1>0, <1>1, <3>1 DEF SinkInv
  <2>4. CASE w' = [w EXCEPT ![e] = Fresh({"ready"})]
    <3>1. /\ w'[e] = Fresh({"ready"}) /\ w'["client"] = w["client"]
      BY <1>0, <2>4 DEF Typed
    <3>2. /\ w'[e].ph = "run" /\ w'[e].is = {"ready"} /\ w'[e].sent = 0 /\ w'[e].flight = 0
          /\ w'[e].got = 0 /\ w'[e].pending = 0 /\ w'[e].written = 0
      BY <3>1, FreshTyped DEF Flags
    <3>3. WorkerOk(e, w'[e])
      BY <3>2, <1>0, StreamAssumption DEF WorkerOk
    <3>4. WorkersInv'
      BY <1>0, <3>1, <3>3 DEF WorkersInv, End
    <3>5. HostInv'
      BY <2>1, <2>2, <3>2 DEF HostInv
    <3>6. Len(read') \in Connections /\ Len(read') > Len(read)
      BY <1>4, <2>1, StreamAssumption DEF Connections
    <3>7. sink'[e][Len(read')] = <<>>
      BY <1>0, <1>1, <3>6 DEF SinkInv
    <3>8. Len(sink'[e][Len(read')]) = w'[e].got + w'[e].written
      BY <3>2, <3>7
    <3>9. SinkInv'
      BY <1>0, <1>1, <2>1, <2>3, <3>1, <3>8 DEF SinkInv
    <3>. QED
      BY <3>4, <3>5, <3>9 DEF LocalInv
  <2>5. CASE w' = Broken(e)
    <3>1. /\ w'[e].ph = "error" /\ w'[e].is = w[e].is /\ w'[e].sent = w[e].sent
          /\ w'[e].flight = w[e].flight /\ w'[e].got = w[e].got
          /\ w'[e].pending = w[e].pending /\ w'[e].written = w[e].written
          /\ w'["client"] = w["client"]
      BY <1>0, <2>5, BrokenTyped DEF Phases, Broken
    <3>2. WorkerOk(e, w'[e])
      BY <1>0, <3>1 DEF WorkersInv, WorkerOk
    <3>4. WorkersInv'
      BY <1>0, <3>1, <3>2 DEF WorkersInv, End
    <3>5. HostInv'
      BY <1>0, <2>1, <2>2, <3>1 DEF HostInv
    <3>9. SinkInv'
      BY <1>0, <1>1, <1>2, <2>1, <2>3, <3>1 DEF SinkInv
    <3>. QED
      BY <3>4, <3>5, <3>9 DEF LocalInv
  <2>. QED
    BY <1>4, <2>4, <2>5
<1>. QED
  BY <1>3, <1>4 DEF ReceiveOpen

LEMMA DataLocal ==
    ASSUME LinkInv, NEW e \in End, ReceiveData(e)
    PROVE  LocalInv'
<1>0. Typed /\ WorkersInv /\ HostInv /\ Peer(e) \in End
  BY PeerOf DEF LinkInv
<1>1. Running(e) /\ wire[Peer(e)] # <<>> /\ Msg(e).k = "DATA" /\ UNCHANGED <<sink, read>>
  BY DEF ReceiveData, Arrives, Msg
<1>2. Msg(e) \in Frames /\ Says(Peer(e), w[Peer(e)], Msg(e))
  BY <1>1, ArrivesSaying
<1>3. CASE UNCHANGED w
  BY <1>1, <1>3, LocalSame
<1>4. CASE /\ w' = [w EXCEPT ![e].pending = Msg(e).len, ![e].from = Msg(e).conn, ![e].written = 0]
           /\ Msg(e).off = w[e].got /\ w[e].pending = 0 /\ "remoteEof" \notin w[e].is
  <2>1. /\ w' \in [End -> Worker]
        /\ w'[e].pending = Msg(e).len /\ w'[e].written = 0
        /\ w'[e].is = w[e].is /\ w'[e].ph = w[e].ph /\ w'[e].got = w[e].got
        /\ w'[e].sent = w[e].sent /\ w'[e].flight = w[e].flight
        /\ w'[Peer(e)] = w[Peer(e)]
    BY <1>0, <1>2, <1>4, Accepts
  <2>2. Msg(e).len \in Nat /\ w[e].got \in Nat /\ w[e].written \in Nat
    BY <1>0, <1>2, FrameNumbers, WorkerNumbers DEF Typed
  <2>3. w[e].written = 0
    BY <1>0, <1>4, <2>2 DEF WorkersInv, WorkerOk
  <2>4. WorkerOk(e, w'[e])
    BY <1>0, <1>4, <2>1, <2>2 DEF WorkersInv, WorkerOk
  <2>5. Steady(w[e], w'[e])
    BY <2>1, <2>3 DEF Steady
  <2>6. e = "host" /\ w'[e].pending # 0 => w'[e].got + w'[e].pending <= w["client"].sent
    BY <1>1, <1>2, <1>4, <2>1, PeerIs DEF Says
  <2>. QED
    BY <1>1, <2>1, <2>4, <2>5, <2>6, LocalAlone
<1>5. CASE w' = Broken(e)
  BY <1>1, <1>5, LocalEnds DEF Broken, Running
<1>. QED
  BY <1>3, <1>4, <1>5 DEF ReceiveData, NextOffset

LEMMA AckLocal ==
    ASSUME LinkInv, NEW e \in End, ReceiveAck(e)
    PROVE  LocalInv'
<1>0. Typed /\ WorkersInv /\ HostInv
  BY DEF LinkInv
<1>1. Running(e) /\ UNCHANGED <<sink, read>>
  BY DEF ReceiveAck
<1>2. CASE w' = Broken(e)
  BY <1>1, <1>2, LocalEnds DEF Broken, Running
<1>3. CASE w' = [w EXCEPT ![e].flight = 0]
  <2>1. /\ w' \in [End -> Worker]
        /\ w'[e].pending = w[e].pending /\ w'[e].written = w[e].written
        /\ w'[e].is = w[e].is /\ w'[e].ph = w[e].ph /\ w'[e].got = w[e].got
        /\ w'[e].sent = w[e].sent /\ w'[e].flight = 0
        /\ w'[Peer(e)] = w[Peer(e)]
    BY <1>0, <1>3, Acked
  <2>2. WorkerOk(e, w'[e])
    BY <1>0, <2>1 DEF WorkersInv, WorkerOk, Typed, Worker
  <2>3. Steady(w[e], w'[e])
    BY <2>1 DEF Steady
  <2>4. e = "host" /\ w'[e].pending # 0 => w'[e].got + w'[e].pending <= w["client"].sent
    BY <1>0, <2>1 DEF HostInv
  <2>. QED
    BY <1>1, <2>1, <2>2, <2>3, <2>4, LocalAlone
<1>4. CASE w' = w
  BY <1>1, <1>4, LocalSame
<1>. QED
  BY <1>2, <1>3, <1>4 DEF ReceiveAck

LEMMA FinLocal ==
    ASSUME LinkInv, NEW e \in End, ReceiveFin(e)
    PROVE  LocalInv'
<1>1. Running(e) /\ wire[Peer(e)] # <<>> /\ Msg(e).k = "FIN" /\ UNCHANGED <<sink, read>>
  BY DEF ReceiveFin, Arrives, Msg
<1>2. Says(Peer(e), w[Peer(e)], Msg(e))
  BY <1>1, ArrivesSaying
<1>3. CASE w' = Broken(e)
  BY <1>1, <1>3, LocalEnds DEF Broken, Running
<1>4. CASE /\ w' = [w EXCEPT ![e].is = @ \cup {"remoteEof"}]
           /\ Msg(e).off = w[e].got /\ w[e].pending = 0
  <2>1. w[e].got = Total[Peer(e)]
    BY <1>1, <1>2, <1>4 DEF Says
  <2>. QED
    BY <1>1, <1>4, <2>1, LocalLearns DEF Flags, Running
<1>5. CASE UNCHANGED w
  BY <1>1, <1>5, LocalSame
<1>. QED
  BY <1>3, <1>4, <1>5 DEF ReceiveFin

LEMMA FinAckLocal ==
    ASSUME LinkInv, NEW e \in End, ReceiveFinAck(e)
    PROVE  LocalInv'
<1>1. Running(e) /\ UNCHANGED <<sink, read>>
  BY DEF ReceiveFinAck
<1>2. CASE w' = [w EXCEPT ![e].is = @ \cup {"finAcked"}]
  BY <1>1, <1>2, LocalLearns DEF Flags, Running
<1>3. CASE w' = w
  BY <1>1, <1>3, LocalSame
<1>. QED
  BY <1>2, <1>3 DEF ReceiveFinAck

(* A running worker's socket holds as much as the worker counts.           *)
LEMMA SocketCount ==
    ASSUME LinkInv, NEW e \in End, Running(e)
    PROVE  Len(sink[e][Conn(e)]) = w[e].got + w[e].written
<1>1. CASE e = "client"
  BY <1>1 DEF LinkInv, SinkInv, Conn
<1>2. CASE e = "host"
  BY <1>2 DEF LinkInv, SinkInv, Conn, Running
<1>. QED
  BY <1>1, <1>2 DEF End

LEMMA Continues ==
    ASSUME NEW q \in Seq(Bytes), NEW p \in Seq(Bytes)
    PROVE  LET s == q \o p IN
           /\ Len(s) = Len(q) + Len(p)
           /\ \A i \in 1..Len(q) : s[i] = q[i]
           /\ \A i \in 1..Len(p) : s[Len(q) + i] = p[i]
           /\ \A i \in 1..Len(s) : i \in 1..Len(q) \/ \E j \in 1..Len(p) : i = Len(q) + j
<1>. DEFINE s == q \o p
<1>1. Len(s) = Len(q) + Len(p)
  OBVIOUS
<1>2. \A i \in 1..Len(q) : s[i] = q[i]
  OBVIOUS
<1>3. \A i \in 1..Len(p) : s[Len(q) + i] = p[i]
  OBVIOUS
<1>. HIDE DEF s
<1>4. ASSUME NEW i \in 1..Len(s), i \notin 1..Len(q)
      PROVE  \E j \in 1..Len(p) : i = Len(q) + j
  <2>1. Len(q) \in Nat /\ Len(p) \in Nat
    OBVIOUS
  <2>2. i - Len(q) \in 1..Len(p) /\ i = Len(q) + (i - Len(q))
    BY <1>1, <1>4, <2>1
  <2>. QED
    BY <2>2
<1>. QED
  BY <1>1, <1>2, <1>3, <1>4 DEF s

(* A write continues the numbering and the count.                          *)
LEMMA WriteContinues ==
    ASSUME LinkInv, NEW e \in End, NEW c \in Connections, NEW n \in Nat,
           Piece(e, n) \in Seq(Bytes), Len(Piece(e, n)) = n,
           Len(sink[e][c]) = w[e].got + w[e].written,
           sink' = [sink EXCEPT ![e][c] = @ \o Piece(e, n)]
    PROVE  /\ Len(sink'[e][c]) = w[e].got + w[e].written + n
           /\ \A i \in 1..Len(sink[e][c]) : sink'[e][c][i] = sink[e][c][i]
           /\ \A i \in 1..n : sink'[e][c][Len(sink[e][c]) + i] = Piece(e, n)[i]
           /\ \A i \in 1..Len(sink'[e][c]) : sink'[e][c][i].pos = i
           /\ \A d \in End, b \in Connections : d # e \/ b # c => sink'[d][b] = sink[d][b]
<1>. DEFINE q == sink[e][c]
            p == Piece(e, n)
            s == sink'[e][c]
<1>0. Typed /\ w[e].got \in Nat /\ w[e].written \in Nat
  BY WorkerNumbers DEF LinkInv, Typed
<1>1. /\ q \in Seq(Bytes) /\ s = q \o p
      /\ \A d \in End, b \in Connections : d # e \/ b # c => sink'[d][b] = sink[d][b]
  BY <1>0, SinkTakes
<1>. HIDE DEF q, p, s
<1>2. p \in Seq(Bytes) /\ Len(p) = n /\ Len(q) = w[e].got + w[e].written
  BY DEF p, q
<1>3. /\ Len(s) = Len(q) + n
      /\ \A i \in 1..Len(s) : i \in 1..Len(q) \/ \E j \in 1..n : i = Len(q) + j
  <2>1. q \in Seq(Bytes) /\ p \in Seq(Bytes) /\ s = q \o p /\ Len(p) = n
    BY <1>1, <1>2
  <2>2. Len(s) = Len(q) + Len(p)
    BY <2>1, Continues
  <2>3. \A i \in 1..Len(s) : i \in 1..Len(q) \/ \E j \in 1..Len(p) : i = Len(q) + j
    BY <2>1, Continues
  <2>. QED
    BY <2>1, <2>2, <2>3
<1>4. \A i \in 1..Len(q) : s[i] = q[i]
  BY <1>1, <1>2, Continues
<1>5. \A i \in 1..n : s[Len(q) + i] = p[i]
  BY <1>1, <1>2, Continues
<1>6. \A i \in 1..n : p[i].pos = w[e].got + w[e].written + i
  BY DEF p, Piece
<1>7. \A i \in 1..Len(q) : q[i].pos = i
  BY DEF LinkInv, SinkInv, q
<1>8. ASSUME NEW i \in 1..Len(s) PROVE s[i].pos = i
  <2>1. CASE i \in 1..Len(q)
    BY <2>1, <1>4, <1>7
  <2>2. CASE i \notin 1..Len(q)
    <3>1. PICK j \in 1..n : i = Len(q) + j
      BY <2>2, <1>3
    <3>2. s[i] = p[j] /\ p[j].pos = w[e].got + w[e].written + j
      BY <3>1, <1>5, <1>6
    <3>. QED
      BY <3>1, <3>2, <1>2
  <2>. QED
    BY <2>1, <2>2
<1>9. Len(s) = w[e].got + w[e].written + n
  BY <1>2, <1>3
<1>. QED
  BY <1>1, <1>4, <1>5, <1>8, <1>9 DEF q, p, s

LEMMA WriteLocal ==
    ASSUME LinkInv, NEW e \in End, WriteSocket(e)
    PROVE  LocalInv'
<1>0. /\ Typed /\ WorkersInv /\ HostInv /\ SinkInv /\ Peer(e) \in End
      /\ w[e].got \in Nat /\ w[e].written \in Nat /\ w[e].pending \in Nat
  BY PeerOf, WorkerNumbers DEF LinkInv, Typed
<1>. DEFINE c == Conn(e)
<1>1. Running(e) /\ c \in Connections /\ w[e].pending # 0 /\ UNCHANGED <<kind, read, lost>>
  BY <1>0, Writes
<1>2. PICK n \in Nat :
        /\ n > 0 /\ w[e].written + n <= w[e].pending
        /\ sink' = [sink EXCEPT ![e][c] = @ \o Piece(e, n)]
        /\ Piece(e, n) \in Seq(Bytes) /\ Len(Piece(e, n)) = n
        /\ \/ /\ w[e].written + n = w[e].pending
              /\ w' = [w EXCEPT ![e].got = w[e].got + w[e].pending, ![e].pending = 0,
                                ![e].written = 0, ![e].from = 0]
           \/ /\ w[e].written + n < w[e].pending
              /\ w' = [w EXCEPT ![e].written = w[e].written + n]
  BY <1>0, Writes
<1>3. Len(sink[e][c]) = w[e].got + w[e].written
  BY <1>1, SocketCount
<1>4. /\ Len(sink'[e][c]) = w[e].got + w[e].written + n
      /\ \A i \in 1..Len(sink'[e][c]) : sink'[e][c][i].pos = i
      /\ \A d \in End, b \in Connections : d # e \/ b # c => sink'[d][b] = sink[d][b]
  BY <1>1, <1>2, <1>3, WriteContinues
<1>5. /\ w'[Peer(e)] = w[Peer(e)] /\ w'[e].is = w[e].is /\ w'[e].ph = w[e].ph
      /\ w'[e].sent = w[e].sent /\ w'[e].flight = w[e].flight
      /\ w'[e].got + w'[e].written = w[e].got + w[e].written + n
      /\ \/ w'[e].pending = 0 /\ w'[e].written = 0
         \/ w'[e].pending = w[e].pending /\ w'[e].got = w[e].got /\ w'[e].written < w'[e].pending
  <2>1. CASE /\ w[e].written + n = w[e].pending
             /\ w' = [w EXCEPT ![e].got = w[e].got + w[e].pending, ![e].pending = 0,
                               ![e].written = 0, ![e].from = 0]
    <3>1. w[e].got + w[e].pending \in Nat
      BY <1>0
    <3>2. /\ w'[e].pending = 0 /\ w'[e].written = 0 /\ w'[e].got = w[e].got + w[e].pending
          /\ w'[e].is = w[e].is /\ w'[e].ph = w[e].ph
          /\ w'[e].sent = w[e].sent /\ w'[e].flight = w[e].flight /\ w'[Peer(e)] = w[Peer(e)]
      BY <1>0, <2>1, <3>1, ChunkDone
    <3>. QED
      BY <1>0, <2>1, <3>2
  <2>2. CASE /\ w[e].written + n < w[e].pending
             /\ w' = [w EXCEPT ![e].written = w[e].written + n]
    <3>1. w[e].written + n \in 0..Chunk
      <4>1. w[e].pending \in 0..Chunk
        BY <1>0 DEF Typed, Worker
      <4>. QED
        BY <1>0, <1>2, <4>1, StreamAssumption
    <3>2. /\ w'[e].pending = w[e].pending /\ w'[e].written = w[e].written + n
          /\ w'[e].is = w[e].is /\ w'[e].ph = w[e].ph /\ w'[e].got = w[e].got
          /\ w'[e].sent = w[e].sent /\ w'[e].flight = w[e].flight /\ w'[Peer(e)] = w[Peer(e)]
      BY <1>0, <2>2, <3>1, ChunkGoesOn
    <3>. QED
      BY <1>0, <2>2, <3>2
  <2>. QED
    BY <1>2, <2>1, <2>2
<1>6. "remoteEof" \notin w[e].is
  BY <1>0, <1>1 DEF WorkersInv, WorkerOk
<1>7. WorkerOk(e, w'[e])
  BY <1>0, <1>1, <1>5, <1>6 DEF WorkersInv, WorkerOk
<1>8. WorkersInv'
  BY <1>0, <1>5, <1>7, PeerOf DEF WorkersInv
<1>9. \A d \in End, b \in Connections : \A i \in 1..Len(sink'[d][b]) : sink'[d][b][i].pos = i
  BY <1>0, <1>4 DEF SinkInv
<1>10. CASE e = "client"
  <2>1. c = 1 /\ w'["host"] = w["host"] /\ w'["client"].sent = w["client"].sent
    BY <1>5, <1>10, PeerIs DEF Conn
  <2>2. Len(sink'["client"][1]) = w'["client"].got + w'["client"].written
    BY <1>4, <1>5, <1>10, <2>1
  <2>3. \A b \in Connections : sink'["host"][b] = sink["host"][b]
    BY <1>4, <1>10 DEF End
  <2>4. read # <<>> => Len(read) \in Connections
    BY <1>0, StreamAssumption DEF Typed, Connections
  <2>5. HostInv'
    BY <1>0, <1>1, <2>1 DEF HostInv
  <2>6. SinkInv'
    BY <1>0, <1>1, <1>9, <2>1, <2>2, <2>3, <2>4 DEF SinkInv
  <2>. QED
    BY <1>8, <2>5, <2>6 DEF LocalInv
<1>11. CASE e = "host"
  <2>1. c = Len(read) /\ w'["client"] = w["client"] /\ read # <<>>
    BY <1>0, <1>1, <1>5, <1>11, PeerIs DEF Conn, HostInv, Running
  <2>2. Len(sink'["host"][Len(read)]) = w'["host"].got + w'["host"].written
    BY <1>4, <1>5, <1>11, <2>1
  <2>3. sink'["client"][1] = sink["client"][1]
    BY <1>4, <1>11, StreamAssumption DEF End, Connections
  <2>4. \A b \in Connections : b > Len(read) => sink'["host"][b] = sink["host"][b]
    BY <1>0, <1>4, <1>11, <2>1 DEF End, Connections, Typed
  <2>5. HostInv'
    BY <1>0, <1>1, <1>5, <1>11, <2>1 DEF HostInv
  <2>6. SinkInv'
    BY <1>0, <1>1, <1>9, <2>1, <2>2, <2>3, <2>4 DEF SinkInv
  <2>. QED
    BY <1>8, <2>5, <2>6 DEF LocalInv
<1>. QED
  BY <1>10, <1>11 DEF End

LEMMA ReadLocal ==
    ASSUME LinkInv, NEW e \in End, ReadSocket(e)
    PROVE  LocalInv'
<1>0. Typed /\ WorkersInv /\ HostInv /\ SinkInv /\ w[e].sent \in Nat /\ Total[e] \in Nat
  BY WorkerNumbers, StreamAssumption DEF LinkInv, Typed
<1>1. /\ Running(e) /\ "ready" \in w[e].is /\ "localEof" \notin w[e].is
      /\ UNCHANGED <<sink, kind, lost>>
  BY DEF ReadSocket, Drained
<1>2. ASSUME NEW n \in 1..Chunk, w[e].sent + n <= Total[e],
             w' = [w EXCEPT ![e].sent = @ + n, ![e].flight = n],
             read' = IF e = "host" THEN [read EXCEPT ![Conn(e)] = @ + n] ELSE read
      PROVE  LocalInv'
  <2>1. /\ w'[e].pending = w[e].pending /\ w'[e].written = w[e].written
        /\ w'[e].is = w[e].is /\ w'[e].ph = w[e].ph /\ w'[e].got = w[e].got
        /\ w'[e].sent = w[e].sent + n /\ w'[e].flight = n
        /\ w'[Peer(e)] = w[Peer(e)]
    BY <1>0, <1>2, ReadsMore
  <2>2. /\ Len(read') = Len(read)
        /\ e = "host" => /\ Len(read) \in 1..Len(read)
                         /\ read'[Len(read)] = read[Len(read)] + n
                         /\ \A c \in 1..Len(read) : c # Len(read) => read'[c] = read[c]
        /\ e # "host" => read' = read
    BY <1>0, <1>1, <1>2, ReadCounts
  <2>3. WorkerOk(e, w'[e])
    BY <1>0, <1>1, <1>2, <2>1 DEF WorkersInv, WorkerOk, Running
  <2>4. WorkersInv'
    BY <1>0, <2>1, <2>3, PeerOf DEF WorkersInv
  <2>5. CASE e = "client"
    <3>1. /\ w'["host"] = w["host"] /\ read' = read /\ w["client"].sent <= w'["client"].sent
          /\ w'["client"].got = w["client"].got /\ w'["client"].written = w["client"].written
      BY <1>0, <2>1, <2>2, <2>5, PeerIs
    <3>2. w["host"].got \in Nat /\ w["host"].pending \in Nat /\ w["client"].sent \in Nat /\ w'["client"].sent \in Nat
      BY <1>0, <2>1, <2>5, WorkerNumbers DEF Typed, End
    <3>3. HostInv'
      BY <1>0, <3>1, <3>2 DEF HostInv
    <3>4. SinkInv'
      BY <1>0, <1>1, <3>1 DEF SinkInv
    <3>. QED
      BY <2>4, <3>3, <3>4 DEF LocalInv
  <2>6. CASE e = "host"
    <3>1. w'["client"] = w["client"]
      BY <2>1, <2>6, PeerIs
    <3>2. w["host"].sent = read[Len(read)] /\ read # <<>> /\ w["host"].ph = "run"
      BY <1>0, <1>1, <2>6 DEF HostInv, Running
    <3>3. \A c \in 1..Len(read') : read'[c] <= Total["host"]
      BY <1>0, <1>2, <2>2, <2>6, <3>2 DEF HostInv
    <3>4. read' # <<>>
      BY <2>2, <2>6, <1>0 DEF Typed
    <3>5. HostInv'
      BY <1>0, <2>1, <2>2, <2>6, <3>1, <3>2, <3>3, <3>4 DEF HostInv
    <3>6. SinkInv'
      BY <1>0, <1>1, <2>1, <2>2, <2>6, <3>1, <3>4 DEF SinkInv
    <3>. QED
      BY <2>4, <3>5, <3>6 DEF LocalInv
  <2>. QED
    BY <2>5, <2>6 DEF End
<1>3. CASE /\ w[e].sent = Total[e] /\ w' = [w EXCEPT ![e].is = @ \cup {"localEof"}]
           /\ UNCHANGED read
  BY <1>1, <1>3, LocalLearns DEF Flags, Running
<1>. QED
  BY <1>2, <1>3 DEF ReadSocket

LEMMA EveryStepKeepsLocal ==
    ASSUME LinkInv, Next
    PROVE  LocalInv'
<1>1. PICK e \in End : \/ Receive(e) \/ WriteSocket(e) \/ ReadSocket(e) \/ Retry(e)
                       \/ Finish(e) \/ Break(e) \/ Lose(e)
  BY DEF Next
<1>2. CASE Receive(e)
  <2>1. CASE ReceiveReady
    BY <2>1, LocalLearns DEF ReceiveReady, Flags, Running, End
  <2>2. CASE ReceiveStray(e)
    BY <2>2, LocalSame DEF ReceiveStray
  <2>3. CASE ReceiveReset(e)
    BY <2>3, LocalEnds DEF ReceiveReset, Running
  <2>. QED
    BY <1>2, <2>1, <2>2, <2>3, OpenLocal, DataLocal, AckLocal, FinLocal, FinAckLocal DEF Receive
<1>3. CASE Retry(e)
  <2>1. CASE RetryData(e)
    BY <2>1, LocalSame DEF RetryData
  <2>2. CASE SendFin(e)
    BY <2>2, LocalLearns DEF SendFin, Flags, Drained, Running
  <2>3. CASE RetryOpen
    BY <2>3, LocalSame DEF RetryOpen
  <2>. QED
    BY <1>3, <2>1, <2>2, <2>3 DEF Retry
<1>4. CASE Finish(e)
  BY <1>4, LocalEnds DEF Finish, Over, Running
<1>5. CASE Break(e)
  BY <1>5, LocalEnds DEF Break, Broken, Running
<1>6. CASE Lose(e)
  BY <1>6, LocalSame DEF Lose
<1>. QED
  BY <1>1, <1>2, <1>3, <1>4, <1>5, <1>6, WriteLocal, ReadLocal

----------------------------------------------------------------------------
(* What is under way, and what the workers know of each other's end.       *)

(* Only a FIN makes a worker believe the other end, and only a FIN_ACK     *)
(* that its own end is known.                                              *)
Believes(d) ==
    \/ w'[d].is \subseteq w[d].is \cup {"ready", "localEof", "finSent"}
    \/ ReceiveFin(d) \/ ReceiveFinAck(d)

LEMMA OnlyEndsAreBelieved ==
    ASSUME LinkInv, Next, NEW d \in End
    PROVE  Believes(d)
<1>0. Typed /\ WorkersInv /\ HostInv
  BY DEF LinkInv
<1>1. PICK e \in End : \/ Receive(e) \/ WriteSocket(e) \/ ReadSocket(e) \/ Retry(e)
                       \/ Finish(e) \/ Break(e) \/ Lose(e)
  BY DEF Next
<1>. DEFINE Stays == w'[d].is \subseteq w[d].is \cup {"ready", "localEof", "finSent"}
<1>2. ASSUME NEW x \in Phases, w' = [w EXCEPT ![e].ph = x] PROVE Stays
  BY <1>0, <1>2, PeerOf, BrokenTyped
<1>3. ASSUME NEW fl \in {"ready", "localEof", "finSent"}, w' = [w EXCEPT ![e].is = @ \cup {fl}]
      PROVE  Stays
  BY <1>0, <1>3, PeerOf, Learns DEF Flags
<1>4. ASSUME UNCHANGED w PROVE Stays
  BY <1>4
<1>a. ASSUME w'[e].is = w[e].is, w'[Peer(e)] = w[Peer(e)] PROVE Believes(d)
  BY <1>a, PeerOf DEF Believes
<1>5. CASE ReceiveOpen
  <2>1. CASE w' = [w EXCEPT !["host"] = Fresh({"ready"})]
    <3>1. w'["host"] = Fresh({"ready"}) /\ w'["client"] = w["client"]
      BY <1>0, <2>1 DEF Typed, End
    <3>2. w'["host"].is = {"ready"}
      BY <3>1, FreshTyped DEF Flags
    <3>. QED
      BY <3>1, <3>2 DEF Believes, End
  <2>2. CASE w' = [w EXCEPT !["host"].ph = "error"]
    <3>1. w'["host"].is = w["host"].is /\ w'["client"] = w["client"]
      BY <1>0, <2>2, PeerIs, BrokenTyped DEF Phases, End
    <3>. QED
      BY <3>1 DEF Believes, End
  <2>. QED
    BY <1>4, <1>5, <2>1, <2>2 DEF ReceiveOpen, Broken, Believes
<1>6. CASE ReceiveReady
  <2>1. w' = [w EXCEPT !["client"].is = @ \cup {"ready"}]
    BY <1>6 DEF ReceiveReady
  <2>. QED
    BY <1>0, <2>1, PeerOf, Learns DEF Flags, End, Believes
<1>7. CASE ReceiveStray(e)
  BY <1>4, <1>7 DEF ReceiveStray, Believes
<1>8. CASE ReceiveReset(e)
  BY <1>2, <1>8 DEF ReceiveReset, Believes, Phases
<1>9. CASE ReceiveData(e)
  <2>1. wire[Peer(e)] # <<>>
    BY <1>9 DEF ReceiveData, Arrives
  <2>2. Msg(e) \in Frames
    BY <1>0, <2>1, HeadIsFirst
  <2>3. CASE w' = [w EXCEPT ![e].pending = Msg(e).len, ![e].from = Msg(e).conn, ![e].written = 0]
    <3>1. w'[e].is = w[e].is /\ w'[Peer(e)] = w[Peer(e)]
      BY <1>0, <2>2, <2>3, Accepts
    <3>. QED
      BY <1>a, <3>1
  <2>4. CASE w' = [w EXCEPT ![e].ph = "error"]
    BY <1>2, <2>4 DEF Believes, Phases
  <2>. QED
    BY <1>4, <1>9, <2>3, <2>4 DEF ReceiveData, Broken, Believes
<1>10. CASE ReceiveAck(e)
  <2>1. CASE w' = [w EXCEPT ![e].flight = 0]
    BY <1>0, <2>1, PeerOf, Acked DEF Believes
  <2>2. CASE w' = [w EXCEPT ![e].ph = "error"]
    BY <1>2, <2>2 DEF Believes, Phases
  <2>. QED
    BY <1>4, <1>10, <2>1, <2>2 DEF ReceiveAck, Broken, Believes
<1>11. CASE ReceiveFin(e) \/ ReceiveFinAck(e)
  <2>1. CASE d = e
    BY <1>11, <2>1 DEF Believes
  <2>2. CASE d # e
    <3>1. w'[d] = w[d]
      BY <1>0, <1>11, <2>2 DEF ReceiveFin, ReceiveFinAck, Broken, Typed
    <3>. QED
      BY <3>1 DEF Believes
  <2>. QED
    BY <2>1, <2>2
<1>12. CASE WriteSocket(e)
  <2>1. PICK n \in Nat :
        /\ n > 0 /\ w[e].written + n <= w[e].pending
        /\ \/ w' = [w EXCEPT ![e].got = w[e].got + w[e].pending, ![e].pending = 0,
                             ![e].written = 0, ![e].from = 0]
           \/ w' = [w EXCEPT ![e].written = w[e].written + n]
    BY <1>0, <1>12, Writes
  <2>2. /\ w[e].got \in Nat /\ w[e].written \in Nat /\ w[e].pending \in Nat
        /\ w[e].pending \in 0..Chunk
    BY <1>0, WorkerNumbers DEF Typed, Worker
  <2>3. w[e].got + w[e].pending \in Nat /\ w[e].written + n \in 0..Chunk
    BY <2>1, <2>2, StreamAssumption
  <2>4. CASE w' = [w EXCEPT ![e].got = w[e].got + w[e].pending, ![e].pending = 0,
                            ![e].written = 0, ![e].from = 0]
    <3>1. w'[e].is = w[e].is /\ w'[Peer(e)] = w[Peer(e)]
      BY <1>0, <2>3, <2>4, ChunkDone
    <3>. QED
      BY <1>a, <3>1
  <2>5. CASE w' = [w EXCEPT ![e].written = w[e].written + n]
    BY <1>0, <2>3, <2>5, PeerOf, ChunkGoesOn DEF Believes
  <2>. QED
    BY <2>1, <2>4, <2>5
<1>13. CASE ReadSocket(e)
  <2>1. ASSUME NEW n \in 1..Chunk, w' = [w EXCEPT ![e].sent = @ + n, ![e].flight = n]
        PROVE  Believes(d)
    <3>1. w'[e].is = w[e].is /\ w'[Peer(e)] = w[Peer(e)]
      BY <1>0, <2>1, ReadsMore
    <3>. QED
      BY <1>a, <3>1
  <2>. QED
    BY <1>3, <1>13, <2>1 DEF ReadSocket, Believes
<1>14. CASE Retry(e)
  <2>1. CASE SendFin(e)
    BY <1>3, <2>1 DEF SendFin, Believes
  <2>. QED
    BY <1>4, <1>14, <2>1 DEF Retry, RetryData, RetryOpen, Believes
<1>15. CASE Finish(e)
  BY <1>2, <1>15 DEF Finish, Believes, Phases
<1>16. CASE Break(e)
  BY <1>2, <1>16 DEF Break, Broken, Believes, Phases
<1>17. CASE Lose(e)
  BY <1>4, <1>17 DEF Lose, Believes
<1>. QED
  BY <1>1, <1>5, <1>6, <1>7, <1>8, <1>9, <1>10, <1>11, <1>12, <1>13, <1>14, <1>15, <1>16, <1>17
     DEF Receive

(* A host that knows the client's end is not asked again.                  *)
LEMMA HostKeepsEnd ==
    ASSUME LinkInv, Calm, "remoteEof" \in w["host"].is
    PROVE  Grows(w["host"], w'["host"])
<1>1. wire["client"] # <<>> => 1 \in 1..Len(wire["client"])
  BY DEF LinkInv, Typed, End
<1>2. ~AskedAgain
  BY <1>1 DEF LinkInv, EndsInv, NoOpen, AskedAgain
<1>. QED
  BY <1>2 DEF Calm

(* A frame under way was under way before or has just been sent.           *)
LEMMA OldOrNew ==
    ASSUME NEW q \in Seq(Frames), NEW q2 \in Seq(Frames), NEW e, NEW x, NEW y, NEW z, NEW c,
           Shape(q, q2, e, x, y, z, c), NEW i \in 1..Len(q2)
    PROVE  \/ \E j \in 1..Len(q) : q2[i] = q[j]
           \/ \E f \in Frames : NewFrame(e, x, y, c, f) /\ q2[i] = f
<1>1. CASE q2 = q
  BY <1>1
<1>2. ASSUME NEW f \in Frames, NewFrame(e, x, y, c, f), Grown(q, q2, f)
      PROVE  \/ \E j \in 1..Len(q) : q2[i] = q[j]
             \/ \E g \in Frames : NewFrame(e, x, y, c, g) /\ q2[i] = g
  <2>1. i \in 1..Len(q) \/ i = Len(q) + 1
    BY <1>2 DEF Grown
  <2>. QED
    BY <1>2, <2>1 DEF Grown
<1>3. ASSUME NEW k \in 1..Len(q), Cut(q, q2, k)
      PROVE  \E j \in 1..Len(q) : q2[i] = q[j]
  <2>1. CASE i < k
    BY <1>3, <2>1 DEF Cut
  <2>2. CASE ~(i < k)
    BY <1>3, <2>2 DEF Cut
  <2>. QED
    BY <2>1, <2>2
<1>. QED
  BY <1>1, <1>2, <1>3 DEF Shape

LEMMA FramesKept ==
    ASSUME LinkInv, Calm, WorkersInv'
    PROVE  FramesInv'
<1>. SUFFICES ASSUME NEW e \in End, NEW i \in 1..Len(wire'[e])
              PROVE  Says(e, w'[e], wire'[e][i])
  BY DEF FramesInv
<1>1. /\ wire[e] \in Seq(Frames) /\ wire'[e] \in Seq(Frames)
      /\ Shape(wire[e], wire'[e], e, w[e], w'[e], w'[Peer(e)], Conn(e))
      /\ Grows(w["client"], w'["client"])
  BY DEF LinkInv, Typed, Calm
<1>2. w[e].sent \in Nat /\ w'[e].sent \in Nat /\ Total[e] \in Nat /\ w'[e].sent <= Total[e]
  BY WorkerNumbers, StreamAssumption DEF LinkInv, Calm, Typed, WorkersInv, WorkerOk
<1>3. ASSUME NEW j \in 1..Len(wire[e]), wire'[e][i] = wire[e][j]
      PROVE  Says(e, w'[e], wire'[e][i])
  <2>1. Says(e, w[e], wire[e][j]) /\ wire[e][j] \in Frames
    BY <1>1 DEF LinkInv, FramesInv
  <2>2. CASE e = "client"
    <3>1. wire[e][j].off \in Nat /\ wire[e][j].len \in Nat
      BY <2>1, FrameNumbers
    <3>. QED
      BY <1>1, <1>2, <1>3, <2>1, <2>2, <3>1 DEF Says, Grows
  <2>3. CASE e = "host"
    <3>1. "remoteEof" \in w["host"].is => "remoteEof" \in w'["host"].is
      BY HostKeepsEnd DEF Grows
    <3>. QED
      BY <1>3, <2>1, <2>3, <3>1 DEF Says
  <2>. QED
    BY <2>2, <2>3 DEF End
<1>4. ASSUME NEW f \in Frames, NewFrame(e, w[e], w'[e], Conn(e), f), wire'[e][i] = f
      PROVE  Says(e, w'[e], wire'[e][i])
  <2>1. f.off \in Nat /\ f.len \in Nat
    BY FrameNumbers
  <2>2. e = "client" => w[e].sent <= w'[e].sent /\ w[e].is \subseteq w'[e].is
    BY <1>1 DEF Grows
  <2>. QED
    BY <1>2, <1>4, <2>1, <2>2 DEF Says, NewFrame
<1>. QED
  BY <1>1, <1>3, <1>4, OldOrNew

LEMMA OpensStayFirst ==
    ASSUME LinkInv, Calm
    PROVE  OpensFirst(wire'["client"])
<1>. DEFINE q == wire["client"]
            q2 == wire'["client"]
            x == w["client"]
<1>1. /\ q \in Seq(Frames) /\ q2 \in Seq(Frames) /\ OpensFirst(q)
      /\ Shape(q, q2, "client", x, w'["client"], w'[Peer("client")], Conn("client"))
      /\ \A i \in 1..Len(q) : Says("client", x, q[i])
  BY DEF LinkInv, EndsInv, FramesInv, Typed, Calm, End
<1>. HIDE DEF q, q2, x
<1>2. CASE q2 = q
  BY <1>1, <1>2 DEF q2
<1>3. ASSUME NEW f \in Frames, NewFrame("client", x, w'["client"], Conn("client"), f), Grown(q, q2, f)
      PROVE  OpensFirst(q2)
  <2>. SUFFICES ASSUME NEW i \in 1..Len(q2), q2[i].k = "OPEN", NEW j \in 1..i
                PROVE  q2[j].k \notin {"DATA", "FIN"}
    BY DEF OpensFirst
  <2>1. CASE i \in 1..Len(q)
    <3>1. q2[i] = q[i] /\ j \in 1..Len(q) /\ q2[j] = q[j]
      BY <1>3, <2>1 DEF Grown
    <3>. QED
      BY <1>1, <2>1, <3>1 DEF OpensFirst
  <2>2. CASE i \notin 1..Len(q)
    <3>1. i = Len(q) + 1 /\ q2[i] = f
      BY <1>3, <2>2 DEF Grown
    <3>2. "ready" \notin x.is
      BY <1>3, <3>1 DEF NewFrame
    <3>3. CASE j = i
      BY <3>1, <3>3
    <3>4. CASE j # i
      <4>1. j \in 1..Len(q) /\ q2[j] = q[j]
        BY <1>3, <3>1, <3>4 DEF Grown
      <4>. QED
        BY <1>1, <3>2, <4>1 DEF Says
    <3>. QED
      BY <3>3, <3>4
  <2>. QED
    BY <2>1, <2>2
<1>4. ASSUME NEW k \in 1..Len(q), Cut(q, q2, k)
      PROVE  OpensFirst(q2)
  <2>. SUFFICES ASSUME NEW i \in 1..Len(q2), q2[i].k = "OPEN", NEW j \in 1..i
                PROVE  q2[j].k \notin {"DATA", "FIN"}
    BY DEF OpensFirst
  <2>0. Len(q) \in Nat /\ Len(q2) = Len(q) - 1
    BY <1>1, <1>4 DEF Cut
  <2>1. PICK a \in 1..Len(q) : q2[i] = q[a] /\ a = IF i < k THEN i ELSE i + 1
    <3>1. q2[i] = q[IF i < k THEN i ELSE i + 1]
      BY <1>4 DEF Cut
    <3>2. (IF i < k THEN i ELSE i + 1) \in 1..Len(q)
      BY <2>0
    <3>. QED
      BY <3>1, <3>2
  <2>2. PICK b \in 1..Len(q) : q2[j] = q[b] /\ b = IF j < k THEN j ELSE j + 1
    <3>1. j \in 1..Len(q2)
      BY <2>0
    <3>2. q2[j] = q[IF j < k THEN j ELSE j + 1]
      BY <1>4, <3>1 DEF Cut
    <3>3. (IF j < k THEN j ELSE j + 1) \in 1..Len(q)
      BY <2>0, <3>1
    <3>. QED
      BY <3>2, <3>3
  <2>3. b \in 1..a
    BY <2>1, <2>2
  <2>. QED
    BY <1>1, <2>1, <2>2, <2>3 DEF OpensFirst
<1>. QED
  BY <1>1, <1>2, <1>3, <1>4 DEF Shape, q2

LEMMA EndsKept ==
    ASSUME LinkInv, Next, Calm
    PROVE  EndsInv'
<1>0. Typed /\ FramesInv /\ EndsInv /\ Grows(w["client"], w'["client"])
  BY DEF LinkInv, Calm
<1>1. OpensFirst(wire'["client"])
  BY OpensStayFirst
<1>2. ASSUME NEW e \in End, ReceiveFin(e)
      PROVE  /\ wire[Peer(e)] # <<>> /\ Msg(e).k = "FIN"
             /\ w'[Peer(e)] = w[Peer(e)] /\ Says(Peer(e), w[Peer(e)], Msg(e))
             /\ wire'[Peer(e)] = Tail(wire[Peer(e)])
  <2>1. wire[Peer(e)] # <<>> /\ Msg(e).k = "FIN"
    BY <1>2 DEF ReceiveFin, Arrives, Msg
  <2>2. w'[Peer(e)] = w[Peer(e)]
    BY <1>0, <1>2, PeerOf DEF ReceiveFin, Broken, Typed
  <2>3. wire'[Peer(e)] = Tail(wire[Peer(e)])
    BY <1>0, <1>2, PeerOf DEF ReceiveFin, Consume, Typed
  <2>. QED
    BY <2>1, <2>2, <2>3, ArrivesSaying
<1>3. ASSUME "remoteEof" \in w'["host"].is
      PROVE  NoOpen(wire'["client"]) /\ Opened(w'["client"])
  <2>1. CASE "remoteEof" \in w["host"].is
    <3>1. NoOpen(wire["client"]) /\ Opened(w["client"])
      BY <1>0, <2>1 DEF EndsInv
    <3>2. Opened(w'["client"])
      BY <1>0, <3>1 DEF Opened, Grows
    <3>3. /\ wire["client"] \in Seq(Frames) /\ wire'["client"] \in Seq(Frames)
          /\ Shape(wire["client"], wire'["client"], "client", w["client"], w'["client"],
                   w'[Peer("client")], Conn("client"))
      BY <1>0 DEF Typed, Calm, End
    <3>4. ASSUME NEW i \in 1..Len(wire'["client"]) PROVE wire'["client"][i].k # "OPEN"
      <4>1. \/ \E j \in 1..Len(wire["client"]) : wire'["client"][i] = wire["client"][j]
            \/ \E f \in Frames : /\ NewFrame("client", w["client"], w'["client"], Conn("client"), f)
                                 /\ wire'["client"][i] = f
        BY <3>3, OldOrNew
      <4>. QED
        BY <3>1, <4>1 DEF NoOpen, Opened, NewFrame
    <3>. QED
      BY <3>2, <3>4 DEF NoOpen
  <2>2. CASE "remoteEof" \notin w["host"].is
    <3>1. ReceiveFin("host") \/ ReceiveFinAck("host")
      BY <1>3, <2>2, OnlyEndsAreBelieved DEF Believes, End
    <3>2. ReceiveFin("host")
      <4>1. ASSUME ReceiveFinAck("host") PROVE FALSE
        <5>1. CASE w' = [w EXCEPT !["host"].is = @ \cup {"finAcked"}]
          BY <1>0, <1>3, <2>2, <5>1, Learns DEF Flags, End
        <5>2. CASE w' = w
          BY <1>3, <2>2, <5>2
        <5>. QED
          BY <4>1, <5>1, <5>2 DEF ReceiveFinAck
      <4>. QED
        BY <3>1, <4>1
    <3>3. /\ wire["client"] # <<>> /\ Msg("host").k = "FIN" /\ w'["client"] = w["client"]
          /\ Says("client", w["client"], Msg("host")) /\ wire'["client"] = Tail(wire["client"])
      BY <1>2, <3>2, PeerIs DEF End
    <3>4. Opened(w'["client"])
      BY <3>3 DEF Says, Opened
    <3>5. /\ wire["client"] \in Seq(Frames) /\ Cut(wire["client"], wire'["client"], 1)
          /\ wire["client"][1].k = "FIN"
      BY <1>0, <3>3, PeerIs, TailCuts DEF Typed, Msg, End
    <3>6. ASSUME NEW i \in 1..Len(wire'["client"]) PROVE wire'["client"][i].k # "OPEN"
      <4>1. i + 1 \in 1..Len(wire["client"]) /\ wire'["client"][i] = wire["client"][i + 1] /\ 1 \in 1..i + 1
        BY <3>5 DEF Cut
      <4>. QED
        BY <1>0, <3>5, <4>1 DEF EndsInv, OpensFirst
    <3>. QED
      BY <3>4, <3>6 DEF NoOpen
  <2>. QED
    BY <2>1, <2>2
<1>4. ASSUME NEW e \in End, "finAcked" \in w'[e].is
      PROVE  "remoteEof" \in w'[Peer(e)].is
  <2>1. CASE "finAcked" \in w[e].is
    <3>1. "remoteEof" \in w[Peer(e)].is
      BY <1>0, <2>1 DEF EndsInv
    <3>2. CASE e = "host"
      BY <1>0, <3>1, <3>2, PeerIs DEF Grows
    <3>3. CASE e = "client"
      BY <3>1, <3>3, PeerIs, HostKeepsEnd DEF Grows
    <3>. QED
      BY <3>2, <3>3 DEF End
  <2>2. CASE "finAcked" \notin w[e].is
    <3>1. ReceiveFin(e) \/ ReceiveFinAck(e)
      BY <1>4, <2>2, OnlyEndsAreBelieved DEF Believes
    <3>2. ReceiveFinAck(e)
      <4>1. ASSUME ReceiveFin(e) PROVE FALSE
        <5>1. CASE w' = [w EXCEPT ![e].is = @ \cup {"remoteEof"}]
          BY <1>0, <1>4, <2>2, <5>1, Learns DEF Flags
        <5>2. CASE w' = [w EXCEPT ![e].ph = "error"]
          BY <1>0, <1>4, <2>2, <5>2, BrokenTyped DEF Phases
        <5>3. CASE w' = w
          BY <1>4, <2>2, <5>3
        <5>. QED
          BY <4>1, <5>1, <5>2, <5>3 DEF ReceiveFin, Broken
      <4>. QED
        BY <3>1, <4>1
    <3>3. wire[Peer(e)] # <<>> /\ Msg(e).k = "FIN_ACK"
      BY <3>2 DEF ReceiveFinAck, Arrives, Msg
    <3>4. w'[Peer(e)] = w[Peer(e)]
      BY <1>0, <3>2, PeerOf DEF ReceiveFinAck, Typed
    <3>. QED
      BY <3>3, <3>4, ArrivesSaying DEF Says
  <2>. QED
    BY <2>1, <2>2
<1>. QED
  BY <1>1, <1>3, <1>4 DEF EndsInv

LEMMA LinkInit ==
    ASSUME Init
    PROVE  LinkInv
<1>. DEFINE none == [Fresh({}) EXCEPT !.ph = "none"]
<1>1. /\ Fresh({}) \in Worker /\ Fresh({}).ph = "run" /\ Fresh({}).is = {} /\ Fresh({}).sent = 0
      /\ Fresh({}).flight = 0 /\ Fresh({}).got = 0 /\ Fresh({}).pending = 0
      /\ Fresh({}).written = 0
  BY FreshTyped
<1>2. /\ none \in Worker /\ none.ph = "none" /\ none.is = {} /\ none.sent = 0
      /\ none.flight = 0 /\ none.got = 0 /\ none.pending = 0 /\ none.written = 0
  BY <1>1 DEF Worker, Phases
<1>. HIDE DEF none
<1>3. w = [e \in End |-> IF e = "client" THEN Fresh({}) ELSE none]
  BY DEF Init, none
<1>4. w \in [End -> Worker] /\ w["client"] = Fresh({}) /\ w["host"] = none
  BY <1>1, <1>2, <1>3 DEF End
<1>5. Frame("OPEN", 0) \in Frames /\ Frame("OPEN", 0).k = "OPEN"
  BY FrameTyped DEF Kinds
<1>6. wire["client"] = <<Frame("OPEN", 0)>> /\ wire["host"] = <<>> /\ wire \in [End -> Seq(Frames)]
  BY <1>5 DEF Init, End
<1>7. /\ Len(wire["client"]) = 1 /\ wire["client"][1].k = "OPEN" /\ Len(wire["host"]) = 0
  BY <1>5, <1>6
<1>8. /\ sink \in [End -> [Connections -> Seq(Bytes)]]
      /\ \A e \in End, c \in Connections : sink[e][c] = <<>>
      /\ sink["client"][1] = <<>>
  BY StreamAssumption DEF Init, End, Connections
<1>a. kind \in {"tcp", "request"} /\ read = <<>> /\ lost = 0
  BY DEF Init
<1>b. read \in Seq(Nat) /\ Len(read) = 0 /\ lost \in 0..MaxLoss /\ Len(read) <= MaxSpawn
  BY <1>a, StreamAssumption
<1>9. Typed
  BY <1>4, <1>6, <1>8, <1>a, <1>b DEF Typed
<1>10. WorkersInv
  <2>1. WorkerOk("client", w["client"])
    BY <1>1, <1>4, StreamAssumption DEF WorkerOk, End
  <2>2. WorkerOk("host", w["host"])
    BY <1>2, <1>4, StreamAssumption DEF WorkerOk, End
  <2>. QED
    BY <2>1, <2>2 DEF WorkersInv, End
<1>11. FramesInv
  <2>1. \A i \in 1..Len(wire["client"]) : Says("client", w["client"], wire["client"][i])
    BY <1>7 DEF Says
  <2>2. \A i \in 1..Len(wire["host"]) : Says("host", w["host"], wire["host"][i])
    BY <1>7
  <2>. QED
    BY <2>1, <2>2 DEF FramesInv, End
<1>12. HostInv
  BY <1>2, <1>4, <1>a, <1>b DEF HostInv
<1>13. SinkInv
  BY <1>1, <1>2, <1>4, <1>8 DEF SinkInv, End
<1>14. OpensFirst(wire["client"])
  BY <1>7 DEF OpensFirst
<1>15. EndsInv
  BY <1>1, <1>2, <1>4, <1>14 DEF EndsInv, End
<1>. QED
  BY <1>9, <1>10, <1>11, <1>12, <1>13, <1>15 DEF LinkInv

LEMMA LinkStutters ==
    ASSUME LinkInv, UNCHANGED vars
    PROVE  LinkInv'
BY DEF LinkInv, vars, Typed, WorkersInv, FramesInv, HostInv, SinkInv, EndsInv

LEMMA LinkStep ==
    ASSUME LinkInv, [Next]_vars
    PROVE  LinkInv'
<1>1. CASE Next
  <2>1. Calm
    BY <1>1, EveryStepIsCalm
  <2>2. LocalInv'
    BY <1>1, EveryStepKeepsLocal
  <2>3. WorkersInv' /\ HostInv' /\ SinkInv'
    BY <2>2 DEF LocalInv
  <2>4. FramesInv'
    BY <2>1, <2>3, FramesKept
  <2>5. EndsInv'
    BY <1>1, <2>1, EndsKept
  <2>6. Typed'
    BY <2>1 DEF Calm
  <2>. QED
    BY <2>3, <2>4, <2>5, <2>6 DEF LinkInv
<1>2. CASE UNCHANGED vars
  BY <1>2, LinkStutters
<1>. QED
  BY <1>1, <1>2

LEMMA LinkAlways == Spec => []LinkInv
BY LinkInit, LinkStep, PTL DEF Spec

(* TypeOK: the variables of both workers keep their types, a worker never  *)
(* counts more sent than its program has nor more written than waits, and  *)
(* no more connections are made and frames lost than the bounds allow.     *)
THEOREM StreamTypeCorrect == Spec => []TypeOK
<1>1. ASSUME LinkInv PROVE TypeOK
  <2>1. Typed /\ WorkersInv
    BY <1>1 DEF LinkInv
  <2>2. ASSUME NEW e \in End PROVE w[e].sent <= Total[e] /\ w[e].written <= w[e].pending
    <3>1. w[e].written \in Nat /\ w[e].pending \in Nat
      BY <2>1, WorkerNumbers DEF Typed
    <3>. QED
      BY <2>1, <3>1 DEF WorkersInv, WorkerOk
  <2>. QED
    BY <2>1, <2>2 DEF TypeOK, Typed, Worker
<1>. QED
  BY <1>1, LinkAlways, PTL

(* CleanEndIsComplete, whatever the link loses: a worker that left its     *)
(* loop by its break has had every byte of the other program written to    *)
(* its socket, and every byte of its own is in the other end's.            *)
THEOREM CleanEndsAreComplete == Spec => []CleanEndIsComplete
<1>1. ASSUME LinkInv PROVE CleanEndIsComplete
  <2>0. Typed /\ WorkersInv /\ SinkInv /\ EndsInv
    BY <1>1 DEF LinkInv
  <2>1. "remoteEof" \in w["client"].is => Len(sink["client"][Conn("client")]) = Total["host"]
    <3>. SUFFICES ASSUME "remoteEof" \in w["client"].is
                  PROVE  Len(sink["client"][Conn("client")]) = Total["host"]
      OBVIOUS
    <3>1. w["client"].got = Total["host"] /\ w["client"].written = 0
      BY <2>0, PeerIs, WorkerNumbers DEF WorkersInv, WorkerOk, Typed, End
    <3>2. Len(sink["client"][1]) = Total["host"]
      BY <2>0, <3>1, StreamAssumption DEF SinkInv, End
    <3>. QED
      BY <3>2 DEF Conn
  <2>2. "remoteEof" \in w["host"].is => Len(sink["host"][Conn("host")]) = Total["client"]
    <3>. SUFFICES ASSUME "remoteEof" \in w["host"].is
                  PROVE  Len(sink["host"][Conn("host")]) = Total["client"]
      OBVIOUS
    <3>1. w["host"].got = Total["client"] /\ w["host"].written = 0
      BY <2>0, PeerIs, WorkerNumbers DEF WorkersInv, WorkerOk, Typed, End
    <3>2. Len(sink["host"][Len(read)]) = Total["client"]
      BY <2>0, <3>1, StreamAssumption DEF SinkInv, End
    <3>. QED
      BY <3>2 DEF Conn
  <2>3. ASSUME NEW e \in End, w[e].ph = "clean"
        PROVE  \A d \in End : Len(sink[d][Conn(d)]) = Total[Peer(d)]
    <3>1. "remoteEof" \in w[e].is /\ "finAcked" \in w[e].is
      BY <2>0, <2>3 DEF WorkersInv, WorkerOk
    <3>2. "remoteEof" \in w[Peer(e)].is
      BY <2>0, <3>1 DEF EndsInv
    <3>3. "remoteEof" \in w["client"].is /\ "remoteEof" \in w["host"].is
      BY <2>3, <3>1, <3>2, PeerIs DEF End
    <3>. QED
      BY <2>1, <2>2, <3>3, PeerIs DEF End
  <2>. QED
    BY <2>3 DEF CleanEndIsComplete
<1>. QED
  BY <1>1, LinkAlways, PTL

----------------------------------------------------------------------------
(* When RESET frames are not lost, a client that still runs has a RESET on *)
(* its way to it or hears the host's first connection and no other.        *)

HasReset(q) == \E i \in 1..Len(q) : q[i].k = "RESET"
Clear(q, i) == \A j \in 1..i : q[j].k # "RESET"

(* The frame f speaks for the first of the connections r.                  *)
OfFirst(f, r) ==
    /\ f.k = "DATA" => r # <<>> /\ f.conn = 1 /\ f.off + f.len <= r[1]
    /\ f.k = "FIN" => r # <<>> /\ r[1] = Total["host"]

FirstSpeaks ==
    w["client"].ph = "run" =>
       /\ HasReset(wire["host"]) \/ (Len(read) <= 1 /\ w["host"].ph \in {"none", "run", "clean"})
       /\ \A i \in 1..Len(wire["host"]) : Clear(wire["host"], i) => OfFirst(wire["host"][i], read)

FirstHeard ==
    w["client"].pending # 0 =>
       /\ w["client"].from = 1 /\ read # <<>>
       /\ w["client"].got + w["client"].pending <= read[1]

ResetInv == FirstSpeaks /\ FirstHeard /\ OneConnection

(* Connections are added and counted on, and none is added while the host  *)
(* runs.                                                                   *)
ReadGrows ==
    /\ Len(read) <= Len(read')
    /\ \A c \in 1..Len(read) : read[c] <= read'[c]
    /\ w["host"].ph = "run" => Len(read') = Len(read)

LEMMA ReadSame ==
    ASSUME Typed, UNCHANGED read
    PROVE  ReadGrows
<1>1. read \in Seq(Nat)
  BY DEF Typed
<1>. QED
  BY <1>1 DEF ReadGrows

LEMMA EveryStepReadGrows ==
    ASSUME LinkInv, Next
    PROVE  ReadGrows
<1>0. Typed /\ HostInv /\ read \in Seq(Nat)
  BY DEF LinkInv, Typed
<1>1. CASE UNCHANGED read
  BY <1>0, <1>1, ReadSame
<1>2. CASE ReceiveOpen /\ ~UNCHANGED read
  <2>1. read' = Append(read, 0) /\ ~Running("host")
    BY <1>2 DEF ReceiveOpen
  <2>. QED
    BY <1>0, <2>1 DEF ReadGrows, Running
<1>3. ASSUME NEW e \in End, ReadSocket(e), ~UNCHANGED read PROVE ReadGrows
  <2>0. Running(e)
    BY <1>3 DEF ReadSocket, Drained
  <2>1. PICK n \in 1..Chunk : read' = IF e = "host" THEN [read EXCEPT ![Conn(e)] = @ + n] ELSE read
    BY <1>3 DEF ReadSocket
  <2>2. /\ Len(read') = Len(read)
        /\ e = "host" => /\ Len(read) \in 1..Len(read)
                         /\ read'[Len(read)] = read[Len(read)] + n
                         /\ \A c \in 1..Len(read) : c # Len(read) => read'[c] = read[c]
        /\ e # "host" => read' = read
    BY <1>0, <2>0, <2>1, ReadCounts
  <2>3. \A c \in 1..Len(read) : read[c] \in Nat
    BY <1>0
  <2>4. e = "host"
    BY <1>3, <2>2
  <2>. QED
    BY <2>2, <2>3, <2>4, <1>0, StreamAssumption DEF ReadGrows
<1>. QED
  BY <1>1, <1>2, <1>3
     DEF Next, Receive, ReceiveReady, ReceiveStray, ReceiveReset, ReceiveData, ReceiveAck,
         ReceiveFin, ReceiveFinAck, WriteSocket, Retry, RetryData, SendFin, RetryOpen, Finish,
         Break, Lose

(* What stands in the way of the host's RESET stays there.                 *)
LEMMA ResetStays ==
    ASSUME LossyResets = "no", NEW q \in Seq(Frames), NEW q2 \in Seq(Frames),
           NEW e, NEW x, NEW y, NEW z, z.ph = "run", NEW c, Shape(q, q2, e, x, y, z, c),
           HasReset(q)
    PROVE  HasReset(q2)
<1>1. CASE q2 = q
  BY <1>1
<1>2. PICK r \in 1..Len(q) : q[r].k = "RESET"
  BY DEF HasReset
<1>3. ASSUME NEW f \in Frames, Grown(q, q2, f) PROVE HasReset(q2)
  BY <1>2, <1>3 DEF Grown, HasReset
<1>4. ASSUME NEW i \in 1..Len(q), Cut(q, q2, i), q[i].k # "RESET" PROVE HasReset(q2)
  <2>1. CASE r < i
    <3>1. r \in 1..Len(q2) /\ q2[r] = q[r]
      BY <1>2, <1>4, <2>1 DEF Cut
    <3>. QED
      BY <1>2, <3>1 DEF HasReset
  <2>2. CASE r > i
    <3>1. r - 1 \in 1..Len(q2) /\ q2[r - 1] = q[(r - 1) + 1] /\ (r - 1) + 1 = r
      BY <1>2, <1>4, <2>2 DEF Cut
    <3>. QED
      BY <1>2, <3>1 DEF HasReset
  <2>. QED
    BY <1>2, <1>4, <2>1, <2>2
<1>. QED
  BY <1>1, <1>3, <1>4 DEF Shape

(* A frame no RESET stands in front of had none in front of it, or has     *)
(* just been sent after no RESET at all.                                   *)
LEMMA ClearBefore ==
    ASSUME LossyResets = "no", NEW q \in Seq(Frames), NEW q2 \in Seq(Frames),
           NEW e, NEW x, NEW y, NEW z, z.ph = "run", NEW c, Shape(q, q2, e, x, y, z, c),
           NEW i \in 1..Len(q2), Clear(q2, i)
    PROVE  \/ \E j \in 1..Len(q) : Clear(q, j) /\ q2[i] = q[j]
           \/ ~HasReset(q) /\ \E f \in Frames : NewFrame(e, x, y, c, f) /\ q2[i] = f
<1>1. CASE q2 = q
  BY <1>1
<1>2. ASSUME NEW f \in Frames, NewFrame(e, x, y, c, f), Grown(q, q2, f)
      PROVE  \/ \E j \in 1..Len(q) : Clear(q, j) /\ q2[i] = q[j]
             \/ ~HasReset(q) /\ \E g \in Frames : NewFrame(e, x, y, c, g) /\ q2[i] = g
  <2>1. CASE i \in 1..Len(q)
    <3>1. q2[i] = q[i] /\ \A j \in 1..i : q2[j] = q[j]
      BY <1>2, <2>1 DEF Grown
    <3>. QED
      BY <2>1, <3>1 DEF Clear
  <2>2. CASE i \notin 1..Len(q)
    <3>1. i = Len(q) + 1 /\ q2[i] = f /\ \A j \in 1..Len(q) : j \in 1..i /\ q2[j] = q[j]
      BY <1>2, <2>2 DEF Grown
    <3>. QED
      BY <1>2, <3>1 DEF Clear, HasReset
  <2>. QED
    BY <2>1, <2>2
<1>3. ASSUME NEW k \in 1..Len(q), Cut(q, q2, k), q[k].k # "RESET"
      PROVE  \E j \in 1..Len(q) : Clear(q, j) /\ q2[i] = q[j]
  <2>1. CASE i < k
    <3>1. i \in 1..Len(q) /\ q2[i] = q[i] /\ \A j \in 1..i : q2[j] = q[j]
      BY <1>3, <2>1 DEF Cut
    <3>. QED
      BY <3>1 DEF Clear
  <2>2. CASE ~(i < k)
    <3>1. i + 1 \in 1..Len(q) /\ q2[i] = q[i + 1]
      BY <1>3, <2>2 DEF Cut
    <3>2. ASSUME NEW j \in 1..i + 1 PROVE q[j].k # "RESET"
      <4>1. CASE j < k
        <5>1. j \in 1..i /\ q2[j] = q[j]
          BY <1>3, <2>2, <4>1 DEF Cut
        <5>. QED
          BY <5>1 DEF Clear
      <4>2. CASE j = k
        BY <1>3, <4>2
      <4>3. CASE j > k
        <5>1. j - 1 \in 1..i /\ q2[j - 1] = q[(j - 1) + 1] /\ (j - 1) + 1 = j
          BY <1>3, <2>2, <3>1, <4>3 DEF Cut
        <5>. QED
          BY <5>1 DEF Clear
      <4>. QED
        BY <4>1, <4>2, <4>3
    <3>. QED
      BY <3>1, <3>2 DEF Clear
  <2>. QED
    BY <2>1, <2>2
<1>. QED
  BY <1>1, <1>2, <1>3 DEF Shape

(* What may become of the host's worker in a step.                         *)
HostStays ==
    \/ Len(read') = Len(read) /\ w'["host"].ph \in {w["host"].ph, "clean"}
    \/ HasReset(wire'["host"])
    \/ w["client"].ph # "run"
    \/ AskedAgain /\ Len(read') = Len(read) + 1 /\ w'["host"].ph = "run"

LEMMA ResetIsUnderWay ==
    ASSUME NEW q \in Seq(Frames)
    PROVE  HasReset(q \o Reset)
<1>1. Grown(q, q \o <<Frame("RESET", 0)>>, Frame("RESET", 0))
  BY ResetFrame, AppendGrows
<1>2. Len(q) + 1 \in 1..Len(q) + 1
  OBVIOUS
<1>. QED
  BY <1>1, <1>2, ResetFrame DEF HasReset, Grown

LEMMA EveryStepHostStays ==
    ASSUME LinkInv, Next
    PROVE  HostStays
<1>0. Typed /\ WorkersInv /\ HostInv /\ wire["host"] \in Seq(Frames) /\ "host" \in End /\ "client" \in End
  BY DEF LinkInv, Typed, End
<1>1. PICK e \in End : \/ Receive(e) \/ WriteSocket(e) \/ ReadSocket(e) \/ Retry(e)
                       \/ Finish(e) \/ Break(e) \/ Lose(e)
  BY DEF Next
<1>2. ASSUME UNCHANGED read, w'[e].ph = w[e].ph, w'[Peer(e)] = w[Peer(e)] PROVE HostStays
  BY <1>2, PeerIs DEF HostStays, End
<1>3. ASSUME UNCHANGED <<w, read>> PROVE HostStays
  BY <1>3 DEF HostStays
<1>4. ASSUME NEW fl \in Flags, w' = [w EXCEPT ![e].is = @ \cup {fl}], UNCHANGED read PROVE HostStays
  <2>1. w'[e].ph = w[e].ph /\ w'[Peer(e)] = w[Peer(e)]
    BY <1>0, <1>4, Learns
  <2>. QED
    BY <1>2, <1>4, <2>1
<1>5. ASSUME w' = Broken(e), wire[Peer(e)] # <<>>, Consume(e, Reset), UNCHANGED read PROVE HostStays
  <2>1. CASE e = "host"
    <3>1. wire'["host"] = wire["host"] \o Reset
      BY <1>0, <1>5, <2>1, PeerIs DEF Consume, Typed
    <3>. QED
      BY <1>0, <3>1, ResetIsUnderWay DEF HostStays
  <2>2. CASE e = "client"
    <3>1. w'["host"] = w["host"]
      BY <1>0, <1>5, <2>2 DEF Broken, Typed
    <3>. QED
      BY <1>5, <3>1 DEF HostStays
  <2>. QED
    BY <2>1, <2>2 DEF End
<1>6. CASE ReceiveOpen
  <2>0. wire["client"] # <<>> /\ Msg("host").k = "OPEN"
    BY <1>6, PeerIs DEF ReceiveOpen, Arrives, Msg
  <2>1. wire["client"][1].k = "OPEN"
    BY <1>0, <2>0, PeerIs, HeadIsFirst
  <2>2. CASE Consume("host", Reset)
    <3>1. wire'["host"] = wire["host"] \o Reset
      BY <1>0, <2>2, PeerIs DEF Consume, Typed
    <3>. QED
      BY <1>0, <3>1, ResetIsUnderWay DEF HostStays
  <2>3. CASE ~Running("host") /\ read' = Append(read, 0) /\ w' = [w EXCEPT !["host"] = Fresh({"ready"})]
    <3>1. w'["host"].ph = "run"
      BY <1>0, <2>3, FreshTyped DEF Typed, Flags
    <3>2. Len(read') = Len(read) + 1
      BY <1>0, <2>3 DEF Typed
    <3>. QED
      BY <2>0, <2>1, <2>3, <3>1, <3>2 DEF HostStays, AskedAgain, Running
  <2>. QED
    BY <1>3, <1>6, <2>2, <2>3 DEF ReceiveOpen
<1>7. CASE ReceiveReady
  <2>1. w'["host"] = w["host"] /\ UNCHANGED read
    BY <1>0, <1>7 DEF ReceiveReady, Typed
  <2>. QED
    BY <2>1 DEF HostStays
<1>8. CASE ReceiveStray(e)
  BY <1>3, <1>8 DEF ReceiveStray
<1>9. CASE ReceiveReset(e)
  <2>1. wire[Peer(e)] # <<>> /\ Msg(e).k = "RESET"
    BY <1>9 DEF ReceiveReset, Arrives, Msg
  <2>2. CASE e = "host"
    <3>1. w["client"].ph # "run"
      BY <2>1, <2>2, PeerIs, ArrivesSaying DEF Says
    <3>. QED
      BY <3>1 DEF HostStays
  <2>3. CASE e = "client"
    <3>1. w'["host"] = w["host"] /\ UNCHANGED read
      BY <1>0, <1>9, <2>3 DEF ReceiveReset, Typed
    <3>. QED
      BY <3>1 DEF HostStays
  <2>. QED
    BY <2>2, <2>3 DEF End
<1>10. CASE ReceiveData(e)
  <2>1. wire[Peer(e)] # <<>> /\ UNCHANGED read
    BY <1>10 DEF ReceiveData, Arrives
  <2>2. CASE w' = [w EXCEPT ![e].pending = Msg(e).len, ![e].from = Msg(e).conn, ![e].written = 0]
    <3>1. Msg(e) \in Frames
      BY <2>1, ArrivesSaying
    <3>2. w'[e].ph = w[e].ph /\ w'[Peer(e)] = w[Peer(e)]
      BY <1>0, <2>2, <3>1, Accepts
    <3>. QED
      BY <1>2, <2>1, <3>2
  <2>. QED
    BY <1>3, <1>5, <1>10, <2>1, <2>2 DEF ReceiveData
<1>11. CASE ReceiveAck(e)
  <2>1. wire[Peer(e)] # <<>> /\ UNCHANGED read
    BY <1>11 DEF ReceiveAck, Arrives
  <2>2. CASE w' = [w EXCEPT ![e].flight = 0]
    <3>1. w'[e].ph = w[e].ph /\ w'[Peer(e)] = w[Peer(e)]
      BY <1>0, <2>2, Acked
    <3>. QED
      BY <1>2, <2>1, <3>1
  <2>. QED
    BY <1>3, <1>5, <1>11, <2>1, <2>2 DEF ReceiveAck
<1>12. CASE ReceiveFin(e)
  <2>1. wire[Peer(e)] # <<>> /\ UNCHANGED read
    BY <1>12 DEF ReceiveFin, Arrives
  <2>2. CASE w' = [w EXCEPT ![e].is = @ \cup {"remoteEof"}]
    BY <1>4, <2>1, <2>2 DEF Flags
  <2>. QED
    BY <1>3, <1>5, <1>12, <2>1, <2>2 DEF ReceiveFin
<1>13. CASE ReceiveFinAck(e)
  BY <1>3, <1>4, <1>13 DEF ReceiveFinAck, Flags
<1>14. CASE WriteSocket(e)
  <2>1. PICK n \in Nat :
        /\ n > 0 /\ w[e].written + n <= w[e].pending
        /\ \/ w' = [w EXCEPT ![e].got = w[e].got + w[e].pending, ![e].pending = 0,
                             ![e].written = 0, ![e].from = 0]
           \/ w' = [w EXCEPT ![e].written = w[e].written + n]
    BY <1>0, <1>14, Writes
  <2>2. /\ w[e].got \in Nat /\ w[e].written \in Nat /\ w[e].pending \in Nat
        /\ w[e].pending \in 0..Chunk /\ UNCHANGED read
    BY <1>0, <1>14, WorkerNumbers DEF Typed, Worker, WriteSocket
  <2>3. w[e].got + w[e].pending \in Nat /\ w[e].written + n \in 0..Chunk
    BY <2>1, <2>2, StreamAssumption
  <2>4. CASE w' = [w EXCEPT ![e].got = w[e].got + w[e].pending, ![e].pending = 0,
                            ![e].written = 0, ![e].from = 0]
    <3>1. w'[e].ph = w[e].ph /\ w'[Peer(e)] = w[Peer(e)]
      BY <1>0, <2>3, <2>4, ChunkDone
    <3>. QED
      BY <1>2, <2>2, <3>1
  <2>5. CASE w' = [w EXCEPT ![e].written = w[e].written + n]
    <3>1. w'[e].ph = w[e].ph /\ w'[Peer(e)] = w[Peer(e)]
      BY <1>0, <2>3, <2>5, ChunkGoesOn
    <3>. QED
      BY <1>2, <2>2, <3>1
  <2>. QED
    BY <2>1, <2>4, <2>5
<1>15. CASE ReadSocket(e)
  <2>0. Running(e)
    BY <1>15 DEF ReadSocket, Drained
  <2>1. ASSUME NEW n \in 1..Chunk, w' = [w EXCEPT ![e].sent = @ + n, ![e].flight = n],
               read' = IF e = "host" THEN [read EXCEPT ![Conn(e)] = @ + n] ELSE read
        PROVE  HostStays
    <3>1. w'[e].ph = w[e].ph /\ w'[Peer(e)] = w[Peer(e)]
      BY <1>0, <2>1, ReadsMore
    <3>2. Len(read') = Len(read)
      BY <1>0, <2>0, <2>1, ReadCounts
    <3>. QED
      BY <3>1, <3>2, PeerIs DEF HostStays, End
  <2>. QED
    BY <1>4, <1>15, <2>1 DEF ReadSocket, Flags
<1>16. CASE Retry(e)
  <2>1. CASE SendFin(e)
    BY <1>4, <2>1 DEF SendFin, Flags
  <2>. QED
    BY <1>3, <1>16, <2>1 DEF Retry, RetryData, RetryOpen
<1>17. CASE Finish(e)
  <2>1. w'[e].ph = "clean" /\ w'[Peer(e)] = w[Peer(e)] /\ UNCHANGED read
    BY <1>0, <1>17, BrokenTyped DEF Finish, Phases
  <2>. QED
    BY <2>1, PeerIs DEF HostStays, End
<1>18. CASE Break(e)
  <2>1. CASE e = "host"
    <3>1. wire'["host"] = wire["host"] \o Reset
      BY <1>0, <1>18, <2>1 DEF Break, Typed
    <3>. QED
      BY <1>0, <3>1, ResetIsUnderWay DEF HostStays
  <2>2. CASE e = "client"
    <3>1. w'["host"] = w["host"] /\ UNCHANGED read
      BY <1>0, <1>18, <2>2 DEF Break, Broken, Typed
    <3>. QED
      BY <3>1 DEF HostStays
  <2>. QED
    BY <2>1, <2>2 DEF End
<1>19. CASE Lose(e)
  BY <1>3, <1>19 DEF Lose
<1>. QED
  BY <1>1, <1>6, <1>7, <1>8, <1>9, <1>10, <1>11, <1>12, <1>13, <1>14, <1>15, <1>16, <1>17, <1>18, <1>19
     DEF Receive

LEMMA FirstStillSpeaks ==
    ASSUME LossyResets = "no", LinkInv, LinkInv', Calm, HostStays, ReadGrows, FirstSpeaks
    PROVE  FirstSpeaks'
<1>. SUFFICES ASSUME w'["client"].ph = "run"
     PROVE /\ HasReset(wire'["host"]) \/ (Len(read') <= 1 /\ w'["host"].ph \in {"none", "run", "clean"})
           /\ \A i \in 1..Len(wire'["host"]) : Clear(wire'["host"], i) => OfFirst(wire'["host"][i], read')
  BY DEF FirstSpeaks
<1>1. w["client"].ph = "run"
  BY DEF Calm, Grows
<1>2. /\ wire["host"] \in Seq(Frames) /\ wire'["host"] \in Seq(Frames)
      /\ Shape(wire["host"], wire'["host"], "host", w["host"], w'["host"], w'["client"], Len(read))
      /\ read \in Seq(Nat) /\ read' \in Seq(Nat)
  BY PeerIs DEF Calm, LinkInv, Typed, End, Conn
<1>3. HasReset(wire["host"]) => HasReset(wire'["host"])
  BY <1>2, ResetStays
<1>4. HasReset(wire'["host"]) \/ (Len(read') <= 1 /\ w'["host"].ph \in {"none", "run", "clean"})
  <2>. SUFFICES ASSUME ~HasReset(wire'["host"])
                PROVE  Len(read') <= 1 /\ w'["host"].ph \in {"none", "run", "clean"}
    OBVIOUS
  <2>1. Len(read) <= 1 /\ w["host"].ph \in {"none", "run", "clean"}
    BY <1>1, <1>3 DEF FirstSpeaks
  <2>2. CASE Len(read') = Len(read) /\ w'["host"].ph \in {w["host"].ph, "clean"}
    BY <2>1, <2>2
  <2>3. CASE AskedAgain /\ Len(read') = Len(read) + 1 /\ w'["host"].ph = "run"
    <3>1. w["host"].ph # "clean"
      <4>1. "remoteEof" \notin w["host"].is
        <5>1. wire["client"] \in Seq(Frames) /\ wire["client"] # <<>> /\ wire["client"][1].k = "OPEN"
          BY <2>3 DEF LinkInv, Typed, AskedAgain, End
        <5>2. 1 \in 1..Len(wire["client"])
          BY <5>1
        <5>. QED
          BY <5>1, <5>2 DEF LinkInv, EndsInv, NoOpen
      <4>. QED
        BY <4>1 DEF LinkInv, WorkersInv, WorkerOk, End
    <3>2. w["host"].ph = "none"
      BY <2>1, <2>3, <3>1 DEF AskedAgain
    <3>3. read = <<>>
      BY <3>2 DEF LinkInv, HostInv
    <3>4. Len(read) = 0
      BY <3>3
    <3>. QED
      BY <2>3, <3>4
  <2>. QED
    BY <1>1, <2>2, <2>3 DEF HostStays
<1>5. \A c \in 1..Len(read') : read'[c] <= Total["host"] /\ read'[c] \in Nat
  BY <1>2 DEF LinkInv, HostInv
<1>6. Total["host"] \in Nat
  BY StreamAssumption DEF End
<1>7. read # <<>> => read' # <<>> /\ 1 \in 1..Len(read') /\ read[1] <= read'[1] /\ read[1] \in Nat
  BY <1>2 DEF ReadGrows
<1>8. ASSUME NEW i \in 1..Len(wire'["host"]), Clear(wire'["host"], i)
      PROVE  OfFirst(wire'["host"][i], read')
  <2>1. ASSUME NEW j \in 1..Len(wire["host"]), Clear(wire["host"], j), wire'["host"][i] = wire["host"][j]
        PROVE  OfFirst(wire'["host"][i], read')
    <3>1. OfFirst(wire["host"][j], read)
      BY <1>1, <2>1 DEF FirstSpeaks
    <3>2. wire["host"][j].off \in Nat /\ wire["host"][j].len \in Nat
      BY <1>2, FrameNumbers
    <3>. QED
      BY <1>5, <1>6, <1>7, <2>1, <3>1, <3>2 DEF OfFirst
  <2>2. ASSUME ~HasReset(wire["host"]), NEW f \in Frames, wire'["host"][i] = f,
               NewFrame("host", w["host"], w'["host"], Len(read), f)
        PROVE  OfFirst(wire'["host"][i], read')
    <3>. SUFFICES ASSUME f.k \in {"DATA", "FIN"} PROVE OfFirst(f, read')
      BY <2>2 DEF OfFirst
    <3>1. w["host"].ph = "run" /\ Len(read) <= 1
      BY <1>1, <2>2 DEF NewFrame, FirstSpeaks
    <3>2. read # <<>> /\ w["host"].sent = read[Len(read)]
      BY <3>1 DEF LinkInv, HostInv
    <3>3. Len(read) = 1 /\ Len(read') = 1
      <4>1. read \in Seq(Nat)
        BY <1>2
      <4>2. Len(read) = 1
        <5>1. Len(read) \in Nat /\ Len(read) >= 1
          BY <3>2, <4>1, SomeConnection
        <5>2. \A m \in Nat : m >= 1 /\ m <= 1 => m = 1
          OBVIOUS
        <5>3. Len(read) <= 1
          BY <3>1
        <5>. QED
          BY <5>1, <5>2, <5>3
      <4>. QED
        BY <3>1, <4>2 DEF ReadGrows
    <3>4. CASE f.k = "DATA"
      <4>1. f.conn = 1 /\ f.off + f.len = w'["host"].sent /\ w'["host"].ph = "run"
        BY <2>2, <3>3, <3>4 DEF NewFrame
      <4>2. w'["host"].sent = read'[1]
        BY <3>3, <4>1 DEF LinkInv, HostInv
      <4>. QED
        BY <1>5, <1>7, <3>2, <3>4, <4>1, <4>2 DEF OfFirst
    <3>5. CASE f.k = "FIN"
      <4>1. w["host"].sent = Total["host"]
        BY <2>2, <3>5 DEF NewFrame
      <4>2. read[1] = Total["host"]
        BY <3>2, <3>3, <4>1
      <4>. QED
        BY <1>5, <1>6, <1>7, <3>2, <3>5, <4>2 DEF OfFirst
    <3>. QED
      BY <3>4, <3>5
  <2>3. \/ \E j \in 1..Len(wire["host"]) : Clear(wire["host"], j) /\ wire'["host"][i] = wire["host"][j]
        \/ /\ ~HasReset(wire["host"])
           /\ \E f \in Frames : /\ NewFrame("host", w["host"], w'["host"], Len(read), f)
                                /\ wire'["host"][i] = f
    <3>. DEFINE q == wire["host"]
                q2 == wire'["host"]
                x == w["host"]
                y == w'["host"]
                z == w'["client"]
    <3>1. /\ q \in Seq(Frames) /\ q2 \in Seq(Frames) /\ z.ph = "run" /\ i \in 1..Len(q2) /\ Clear(q2, i)
          /\ Shape(q, q2, "host", x, y, z, Len(read))
      BY <1>2, <1>8
    <3>. HIDE DEF q, q2, x, y, z
    <3>2. \/ \E j \in 1..Len(q) : Clear(q, j) /\ q2[i] = q[j]
          \/ ~HasReset(q) /\ \E f \in Frames : NewFrame("host", x, y, Len(read), f) /\ q2[i] = f
      BY <3>1, ClearBefore
    <3>. QED
      BY <3>2 DEF q, q2, x, y
  <2>. QED
    BY <2>1, <2>2, <2>3
<1>. QED
  BY <1>4, <1>8

(* What may become of the chunk that waits for the client's socket.        *)
Waits(x, y) == y.pending = 0 \/ (y.pending = x.pending /\ y.from = x.from /\ y.got = x.got)

LEMMA ChunkWaits ==
    ASSUME LinkInv, Next, ~ReceiveData("client")
    PROVE  Waits(w["client"], w'["client"])
<1>0. Typed /\ WorkersInv /\ HostInv /\ "client" \in End
  BY DEF LinkInv, End
<1>1. PICK e \in End : \/ Receive(e) \/ WriteSocket(e) \/ ReadSocket(e) \/ Retry(e)
                       \/ Finish(e) \/ Break(e) \/ Lose(e)
  BY DEF Next
<1>. DEFINE Goal == Waits(w["client"], w'["client"])
<1>2. ASSUME w'[e].pending = w[e].pending, w'[e].from = w[e].from, w'[e].got = w[e].got,
             w'[Peer(e)] = w[Peer(e)]
      PROVE  Goal
  BY <1>2, PeerIs DEF Waits, End
<1>3. ASSUME NEW x \in Phases, w' = [w EXCEPT ![e].ph = x] PROVE Goal
  <2>1. /\ w'[e].pending = w[e].pending /\ w'[e].from = w[e].from /\ w'[e].got = w[e].got
        /\ w'[Peer(e)] = w[Peer(e)]
    BY <1>0, <1>3, BrokenTyped
  <2>. QED
    BY <1>2, <2>1
<1>4. ASSUME NEW fl \in Flags, w' = [w EXCEPT ![e].is = @ \cup {fl}] PROVE Goal
  <2>1. /\ w'[e].pending = w[e].pending /\ w'[e].from = w[e].from /\ w'[e].got = w[e].got
        /\ w'[Peer(e)] = w[Peer(e)]
    BY <1>0, <1>4, Learns
  <2>. QED
    BY <1>2, <2>1
<1>5. ASSUME w'["client"] = w["client"] PROVE Goal
  BY <1>5 DEF Waits
<1>6. CASE ReceiveOpen
  <2>1. w'["client"] = w["client"]
    BY <1>0, <1>6 DEF ReceiveOpen, Broken, Typed
  <2>. QED
    BY <1>5, <2>1
<1>7. CASE ReceiveReady
  <2>1. w' = [w EXCEPT !["client"].is = @ \cup {"ready"}]
    BY <1>7 DEF ReceiveReady
  <2>2. /\ w'["client"].pending = w["client"].pending /\ w'["client"].from = w["client"].from
        /\ w'["client"].got = w["client"].got
    BY <1>0, <2>1, Learns DEF Flags
  <2>. QED
    BY <2>2 DEF Waits
<1>8. CASE ReceiveStray(e) \/ Lose(e) \/ RetryData(e) \/ RetryOpen
  BY <1>5, <1>8 DEF ReceiveStray, Lose, RetryData, RetryOpen
<1>9. CASE ReceiveReset(e) \/ Finish(e) \/ Break(e)
  BY <1>3, <1>9 DEF ReceiveReset, Finish, Break, Broken, Phases
<1>10. CASE ReceiveData(e)
  <2>1. e = "host"
    BY <1>10 DEF End
  <2>2. w'["client"] = w["client"]
    BY <1>0, <1>10, <2>1 DEF ReceiveData, Broken, Typed
  <2>. QED
    BY <1>5, <2>2
<1>11. CASE ReceiveAck(e)
  <2>1. CASE w' = [w EXCEPT ![e].flight = 0]
    <3>1. /\ w'[e].pending = w[e].pending /\ w'[e].from = w[e].from /\ w'[e].got = w[e].got
          /\ w'[Peer(e)] = w[Peer(e)]
      BY <1>0, <2>1, Acked
    <3>. QED
      BY <1>2, <3>1
  <2>. QED
    BY <1>3, <1>5, <1>11, <2>1 DEF ReceiveAck, Broken, Phases
<1>12. CASE ReceiveFin(e)
  BY <1>3, <1>4, <1>5, <1>12 DEF ReceiveFin, Broken, Phases, Flags
<1>13. CASE ReceiveFinAck(e) \/ SendFin(e)
  BY <1>4, <1>5, <1>13 DEF ReceiveFinAck, SendFin, Flags
<1>14. CASE WriteSocket(e)
  <2>1. PICK n \in Nat :
        /\ n > 0 /\ w[e].written + n <= w[e].pending
        /\ \/ w' = [w EXCEPT ![e].got = w[e].got + w[e].pending, ![e].pending = 0,
                             ![e].written = 0, ![e].from = 0]
           \/ w' = [w EXCEPT ![e].written = w[e].written + n]
    BY <1>0, <1>14, Writes
  <2>2. /\ w[e].got \in Nat /\ w[e].written \in Nat /\ w[e].pending \in Nat
        /\ w[e].pending \in 0..Chunk
    BY <1>0, WorkerNumbers DEF Typed, Worker
  <2>3. w[e].got + w[e].pending \in Nat /\ w[e].written + n \in 0..Chunk
    BY <2>1, <2>2, StreamAssumption
  <2>4. CASE w' = [w EXCEPT ![e].got = w[e].got + w[e].pending, ![e].pending = 0,
                            ![e].written = 0, ![e].from = 0]
    <3>1. w'[e].pending = 0 /\ w'[Peer(e)] = w[Peer(e)]
      BY <1>0, <2>3, <2>4, ChunkDone
    <3>. QED
      BY <3>1, PeerIs DEF Waits, End
  <2>5. CASE w' = [w EXCEPT ![e].written = w[e].written + n]
    <3>1. /\ w'[e].pending = w[e].pending /\ w'[e].from = w[e].from /\ w'[e].got = w[e].got
          /\ w'[Peer(e)] = w[Peer(e)]
      BY <1>0, <2>3, <2>5, ChunkGoesOn
    <3>. QED
      BY <1>2, <3>1
  <2>. QED
    BY <2>1, <2>4, <2>5
<1>15. CASE ReadSocket(e)
  <2>1. ASSUME NEW n \in 1..Chunk, w' = [w EXCEPT ![e].sent = @ + n, ![e].flight = n]
        PROVE  Goal
    <3>1. /\ w'[e].pending = w[e].pending /\ w'[e].from = w[e].from /\ w'[e].got = w[e].got
          /\ w'[Peer(e)] = w[Peer(e)]
      BY <1>0, <2>1, ReadsMore
    <3>. QED
      BY <1>2, <3>1
  <2>. QED
    BY <1>4, <1>15, <2>1 DEF ReadSocket, Flags
<1>. QED
  BY <1>1, <1>6, <1>7, <1>8, <1>9, <1>10, <1>11, <1>12, <1>13, <1>14, <1>15 DEF Receive, Retry

LEMMA FirstStillHeard ==
    ASSUME LinkInv, Next, ReadGrows, FirstSpeaks, FirstHeard
    PROVE  FirstHeard'
<1>. SUFFICES ASSUME w'["client"].pending # 0
              PROVE  /\ w'["client"].from = 1 /\ read' # <<>>
                     /\ w'["client"].got + w'["client"].pending <= read'[1]
  BY DEF FirstHeard
<1>0. /\ Typed /\ read \in Seq(Nat) /\ read' \in Seq(Nat) /\ "client" \in End
      /\ w["client"].got \in Nat /\ w["client"].pending \in Nat
  BY EveryStepIsCalm, WorkerNumbers DEF Calm, LinkInv, Typed, End
<1>1. read # <<>> => /\ read' # <<>> /\ read[1] <= read'[1]
                     /\ read[1] \in Nat /\ read'[1] \in Nat
  <2>. SUFFICES ASSUME read # <<>>
                PROVE  read' # <<>> /\ read[1] <= read'[1] /\ read[1] \in Nat /\ read'[1] \in Nat
    OBVIOUS
  <2>1. Len(read) \in Nat /\ Len(read) >= 1 /\ Len(read') \in Nat
    BY <1>0, SomeConnection
  <2>2. 1 \in 1..Len(read) /\ 1 \in 1..Len(read')
    BY <2>1 DEF ReadGrows
  <2>. QED
    BY <1>0, <2>2 DEF ReadGrows
<1>2. CASE /\ w'["client"].pending = w["client"].pending /\ w'["client"].from = w["client"].from
           /\ w'["client"].got = w["client"].got
  BY <1>0, <1>1, <1>2 DEF FirstHeard
<1>3. CASE ReceiveData("client")
  <2>1. Running("client") /\ wire["host"] # <<>> /\ Msg("client").k = "DATA" /\ UNCHANGED read
    BY <1>3, PeerIs DEF ReceiveData, Arrives, Msg
  <2>2. /\ Msg("client") = wire["host"][1] /\ Msg("client") \in Frames
        /\ 1 \in 1..Len(wire["host"])
    BY <1>0, <2>1, PeerIs, HeadIsFirst
  <2>3. Clear(wire["host"], 1)
    BY <2>1, <2>2 DEF Clear
  <2>4. /\ read # <<>> /\ Msg("client").conn = 1
        /\ Msg("client").off + Msg("client").len <= read[1]
    BY <2>1, <2>2, <2>3 DEF FirstSpeaks, OfFirst, Running
  <2>5. CASE w' = w
    BY <1>2, <2>5
  <2>6. CASE w' = [w EXCEPT !["client"].ph = "error"]
    <3>1. /\ w'["client"].pending = w["client"].pending /\ w'["client"].from = w["client"].from
          /\ w'["client"].got = w["client"].got
      BY <1>0, <2>6, BrokenTyped DEF Phases
    <3>. QED
      BY <1>2, <3>1
  <2>7. CASE /\ w' = [w EXCEPT !["client"].pending = Msg("client").len,
                               !["client"].from = Msg("client").conn, !["client"].written = 0]
             /\ Msg("client").off = w["client"].got
    <3>1. /\ w'["client"].pending = Msg("client").len /\ w'["client"].from = Msg("client").conn
          /\ w'["client"].got = w["client"].got
      <4>1. w \in [End -> Worker] /\ w["client"] \in Worker /\ "client" \in End
        BY <1>0 DEF Typed
      <4>. QED
        BY <2>7, <4>1 DEF Worker
    <3>. QED
      BY <2>1, <2>4, <2>7, <3>1
  <2>. QED
    BY <1>3, <2>5, <2>6, <2>7 DEF ReceiveData, Broken, NextOffset
<1>. QED
  BY <1>2, <1>3, ChunkWaits DEF Waits

(* Only a write changes a socket.                                          *)
LEMMA OnlyWritesWrite ==
    ASSUME Next, \A e \in End : ~WriteSocket(e)
    PROVE  UNCHANGED sink
BY DEF Next, Receive, ReceiveOpen, ReceiveReady, ReceiveStray, ReceiveReset, ReceiveData, ReceiveAck,
       ReceiveFin, ReceiveFinAck, ReadSocket, Retry, RetryData, SendFin, RetryOpen, Finish,
       Break, Lose

LEMMA StillOneConnection ==
    ASSUME LinkInv, Next, FirstHeard, OneConnection
    PROVE  OneConnection'
<1>1. CASE UNCHANGED sink
  BY <1>1 DEF OneConnection
<1>2. ASSUME NEW e \in End, WriteSocket(e) PROVE OneConnection'
  <2>0. Typed /\ WorkersInv /\ HostInv /\ "client" \in End
    BY DEF LinkInv, End
  <2>1. Running(e) /\ Conn(e) \in Connections /\ w[e].pending # 0
    BY <1>2, <2>0, Writes
  <2>2. PICK n \in Nat :
        /\ sink' = [sink EXCEPT ![e][Conn(e)] = @ \o Piece(e, n)]
        /\ Piece(e, n) \in Seq(Bytes) /\ Len(Piece(e, n)) = n
    BY <1>2, <2>0, Writes
  <2>3. CASE e = "host"
    <3>1. sink'["client"][1] = sink["client"][1]
      BY <2>0, <2>1, <2>2, <2>3, SinkTakes, StreamAssumption DEF Connections
    <3>. QED
      BY <3>1 DEF OneConnection
  <2>4. CASE e = "client"
    <3>0. Conn(e) = 1 /\ w[e].from = 1
      BY <2>1, <2>4 DEF Conn, FirstHeard
    <3>. DEFINE q == sink["client"][1]
                p == Piece("client", n)
                s == sink'["client"][1]
    <3>1. q \in Seq(Bytes) /\ p \in Seq(Bytes) /\ s = q \o p /\ Len(p) = n
      <4>1. /\ sink'[e][Conn(e)] = sink[e][Conn(e)] \o Piece(e, n)
            /\ sink[e][Conn(e)] \in Seq(Bytes)
        BY <2>0, <2>1, <2>2, SinkTakes
      <4>. QED
        BY <2>2, <2>4, <3>0, <4>1
    <3>2. \A i \in 1..n : p[i].from = 1
      BY <2>4, <3>0 DEF Piece
    <3>3. \A i \in 1..Len(q) : q[i].from = 1
      BY DEF OneConnection
    <3>. HIDE DEF q, p, s
    <3>4. /\ \A i \in 1..Len(q) : s[i] = q[i]
          /\ \A i \in 1..Len(p) : s[Len(q) + i] = p[i]
      BY <3>1, Continues
    <3>5. \A i \in 1..Len(s) : i \in 1..Len(q) \/ \E j \in 1..Len(p) : i = Len(q) + j
      BY <3>1, Continues
    <3>6. \A i \in 1..Len(s) : s[i].from = 1
      BY <3>1, <3>2, <3>3, <3>4, <3>5
    <3>. QED
      BY <3>6 DEF OneConnection, s
  <2>. QED
    BY <2>3, <2>4 DEF End
<1>. QED
  BY <1>1, <1>2, OnlyWritesWrite

LEMMA ResetInit ==
    ASSUME Init
    PROVE  ResetInv
<1>1. /\ w["client"] = Fresh({}) /\ w["host"].ph = "none" /\ wire["host"] = <<>> /\ read = <<>>
      /\ sink["client"][1] = <<>>
  BY FreshTyped, StreamAssumption DEF Init, End, Connections, Worker
<1>2. w["client"].pending = 0 /\ Len(wire["host"]) = 0 /\ Len(read) = 0 /\ Len(sink["client"][1]) = 0
  BY <1>1, FreshTyped
<1>. QED
  BY <1>1, <1>2 DEF ResetInv, FirstSpeaks, FirstHeard, OneConnection

LEMMA ResetStep ==
    ASSUME LossyResets = "no", LinkInv, LinkInv', ResetInv, [Next]_vars
    PROVE  ResetInv'
<1>1. CASE Next
  <2>1. Calm /\ HostStays /\ ReadGrows
    BY <1>1, EveryStepIsCalm, EveryStepHostStays, EveryStepReadGrows
  <2>2. FirstSpeaks'
    BY <2>1, FirstStillSpeaks DEF ResetInv
  <2>3. FirstHeard'
    BY <1>1, <2>1, FirstStillHeard DEF ResetInv
  <2>4. OneConnection'
    BY <1>1, StillOneConnection DEF ResetInv
  <2>. QED
    BY <2>2, <2>3, <2>4 DEF ResetInv
<1>2. CASE UNCHANGED vars
  BY <1>2 DEF vars, ResetInv, FirstSpeaks, FirstHeard, OneConnection
<1>. QED
  BY <1>1, <1>2

LEMMA ResetAlways ==
    ASSUME LossyResets = "no"
    PROVE  Spec => []ResetInv
<1>1. Init => ResetInv
  BY ResetInit
<1>2. LinkInv /\ LinkInv' /\ ResetInv /\ [Next]_vars => ResetInv'
  BY ResetStep
<1>. QED
  BY <1>1, <1>2, LinkAlways, PTL DEF Spec

(* StreamsAreWhole: over a link that does not lose RESET frames, and may   *)
(* lose any other, a stream that ends cleanly was complete and all the     *)
(* client's program was given came from one connection, the host's first.  *)
THEOREM StreamsAreAlwaysWhole ==
    ASSUME LossyResets = "no"
    PROVE  Spec => []StreamsAreWhole
<1>1. CleanEndIsComplete /\ ResetInv => StreamsAreWhole
  BY DEF StreamsAreWhole, ResetInv
<1>. QED
  BY <1>1, CleanEndsAreComplete, ResetAlways, PTL

----------------------------------------------------------------------------
(* The two workers implement ByteStream.                                   *)

(* The variables of ByteStream, as the instance Abstract defines them.     *)
Taken == [e \in End |-> IF e = "client" THEN w[e].sent
                                        ELSE IF read = <<>> THEN 0 ELSE read[1]]
Given == [e \in End |-> [i \in 1..Len(sink[e][1]) |-> sink[e][1][i].pos]]
Told == [e \in End |-> IF "remoteEof" \in w[e].is /\ (e = "host" => Len(read) = 1)
                       THEN "eof" ELSE "open"]

LEMMA Stutters ==
    ASSUME Taken' = Taken, Given' = Given, Told' = Told
    PROVE  UNCHANGED Abstract!streamVars
BY DEF Abstract!streamVars, Taken, Given, Told

LEMMA Takes ==
    ASSUME NEW e \in End, NEW n, n \in Taken[e] + 1 .. Taken[e] + Chunk,
           Taken' = [Taken EXCEPT ![e] = n], Given' = Given, Told' = Told
    PROVE  Abstract!Next
<1>1. Abstract!Take(e)
  <2>1. Taken' \in {[Taken EXCEPT ![e] = m] : m \in Taken[e] + 1 .. Taken[e] + Chunk}
    OBVIOUS
  <2>. QED
    BY <2>1, Zenon DEF Abstract!Take, Taken, Given, Told
<1>. QED
  BY <1>1 DEF Abstract!Next

LEMMA Gives ==
    ASSUME NEW e \in End, Told[e] = "open",
           NEW n, n \in Len(Given[e]) + 1 .. Taken[Peer(e)],
           Given' = [Given EXCEPT ![e] = [i \in 1..n |-> i]], Taken' = Taken, Told' = Told
    PROVE  Abstract!Next
<1>0. Peer(e) \in End \ {e}
  BY PeerOf
<1>1. Abstract!Give(e, Peer(e))
  BY DEF Abstract!Give, Taken, Given, Told
<1>. QED
  BY <1>0, <1>1 DEF Abstract!Next

LEMMA Tells ==
    ASSUME NEW e \in End, Told[e] = "open", Len(Given[e]) = Taken[Peer(e)],
           Told' = [Told EXCEPT ![e] = "eof"], Taken' = Taken, Given' = Given
    PROVE  Abstract!Next
<1>0. Peer(e) \in End \ {e}
  BY PeerOf
<1>1. Abstract!Tell(e, Peer(e))
  BY DEF Abstract!Tell, Taken, Given, Told
<1>. QED
  BY <1>0, <1>1 DEF Abstract!Next

LEMMA TakenSame ==
    ASSUME w'["client"].sent = w["client"].sent,
           (IF read' = <<>> THEN 0 ELSE read'[1]) = (IF read = <<>> THEN 0 ELSE read[1])
    PROVE  Taken' = Taken
BY DEF Taken, End

LEMMA GivenSame ==
    ASSUME \A d \in End : sink'[d][1] = sink[d][1]
    PROVE  Given' = Given
BY DEF Given

LEMMA ToldSame ==
    ASSUME \A d \in End : ("remoteEof" \in w'[d].is) <=> ("remoteEof" \in w[d].is),
           "remoteEof" \notin w["host"].is \/ Len(read') = Len(read)
    PROVE  Told' = Told
BY DEF Told, End

(* The bytes given are numbered without a gap.                             *)
LEMMA GivenIs ==
    ASSUME LinkInv, NEW e \in End
    PROVE  /\ Len(Given[e]) = Len(sink[e][1]) /\ Len(sink[e][1]) \in Nat
           /\ Given[e] = [i \in 1..Len(sink[e][1]) |-> i]
<1>1. sink[e][1] \in Seq(Bytes)
  BY StreamAssumption DEF LinkInv, Typed, Connections
<1>2. \A i \in 1..Len(sink[e][1]) : sink[e][1][i].pos = i
  BY StreamAssumption DEF LinkInv, SinkInv, Connections
<1>3. Given[e] = [i \in 1..Len(sink[e][1]) |-> sink[e][1][i].pos]
  BY DEF Given
<1>4. Len(sink[e][1]) \in Nat
  BY <1>1
<1>5. Given[e] = [i \in 1..Len(sink[e][1]) |-> i]
  BY <1>2, <1>3
<1>6. Len([i \in 1..Len(sink[e][1]) |-> i]) = Len(sink[e][1])
  BY <1>4
<1>. QED
  BY <1>4, <1>5, <1>6

(* Only a read of its program's socket makes the client send more.         *)
LEMMA ClientSentSame ==
    ASSUME LinkInv, Next, ~ReadSocket("client")
    PROVE  w'["client"].sent = w["client"].sent
<1>0. Typed /\ WorkersInv /\ HostInv /\ "client" \in End
  BY DEF LinkInv, End
<1>1. PICK e \in End : \/ Receive(e) \/ WriteSocket(e) \/ ReadSocket(e) \/ Retry(e)
                       \/ Finish(e) \/ Break(e) \/ Lose(e)
  BY DEF Next
<1>. DEFINE Goal == w'["client"].sent = w["client"].sent
<1>2. ASSUME w'[e].sent = w[e].sent, w'[Peer(e)] = w[Peer(e)] PROVE Goal
  BY <1>2, PeerIs DEF End
<1>3. ASSUME NEW x \in Phases, w' = [w EXCEPT ![e].ph = x] PROVE Goal
  <2>1. w'[e].sent = w[e].sent /\ w'[Peer(e)] = w[Peer(e)]
    BY <1>0, <1>3, BrokenTyped
  <2>. QED
    BY <1>2, <2>1
<1>4. ASSUME NEW fl \in Flags, w' = [w EXCEPT ![e].is = @ \cup {fl}] PROVE Goal
  <2>1. w'[e].sent = w[e].sent /\ w'[Peer(e)] = w[Peer(e)]
    BY <1>0, <1>4, Learns
  <2>. QED
    BY <1>2, <2>1
<1>5. CASE ReceiveOpen
  BY <1>0, <1>5 DEF ReceiveOpen, Broken, Typed
<1>6. CASE ReceiveReady
  BY <1>0, <1>6, Learns DEF ReceiveReady, Flags
<1>7. CASE ReceiveStray(e) \/ Lose(e) \/ RetryData(e) \/ RetryOpen
  BY <1>7 DEF ReceiveStray, Lose, RetryData, RetryOpen
<1>8. CASE ReceiveReset(e) \/ Finish(e) \/ Break(e)
  BY <1>3, <1>8 DEF ReceiveReset, Finish, Break, Broken, Phases
<1>9. CASE ReceiveData(e)
  <2>1. wire[Peer(e)] # <<>>
    BY <1>9 DEF ReceiveData, Arrives
  <2>2. Msg(e) \in Frames
    BY <2>1, ArrivesSaying
  <2>3. CASE w' = [w EXCEPT ![e].pending = Msg(e).len, ![e].from = Msg(e).conn, ![e].written = 0]
    <3>1. w'[e].sent = w[e].sent /\ w'[Peer(e)] = w[Peer(e)]
      BY <1>0, <2>2, <2>3, Accepts
    <3>. QED
      BY <1>2, <3>1
  <2>. QED
    BY <1>3, <1>9, <2>3 DEF ReceiveData, Broken, Phases
<1>10. CASE ReceiveAck(e)
  <2>1. CASE w' = [w EXCEPT ![e].flight = 0]
    BY <1>0, <1>2, <2>1, Acked
  <2>. QED
    BY <1>3, <1>10, <2>1 DEF ReceiveAck, Broken, Phases
<1>11. CASE ReceiveFin(e)
  BY <1>3, <1>4, <1>11 DEF ReceiveFin, Broken, Phases, Flags
<1>12. CASE ReceiveFinAck(e) \/ SendFin(e)
  BY <1>4, <1>12 DEF ReceiveFinAck, SendFin, Flags
<1>13. CASE WriteSocket(e)
  <2>1. PICK n \in Nat :
        /\ n > 0 /\ w[e].written + n <= w[e].pending
        /\ \/ w' = [w EXCEPT ![e].got = w[e].got + w[e].pending, ![e].pending = 0,
                             ![e].written = 0, ![e].from = 0]
           \/ w' = [w EXCEPT ![e].written = w[e].written + n]
    BY <1>0, <1>13, Writes
  <2>2. /\ w[e].got \in Nat /\ w[e].written \in Nat /\ w[e].pending \in Nat
        /\ w[e].pending \in 0..Chunk
    BY <1>0, WorkerNumbers DEF Typed, Worker
  <2>3. w[e].got + w[e].pending \in Nat /\ w[e].written + n \in 0..Chunk
    BY <2>1, <2>2, StreamAssumption
  <2>4. CASE w' = [w EXCEPT ![e].got = w[e].got + w[e].pending, ![e].pending = 0,
                            ![e].written = 0, ![e].from = 0]
    <3>1. w'[e].sent = w[e].sent /\ w'[Peer(e)] = w[Peer(e)]
      BY <1>0, <2>3, <2>4, ChunkDone
    <3>. QED
      BY <1>2, <3>1
  <2>5. CASE w' = [w EXCEPT ![e].written = w[e].written + n]
    <3>1. w'[e].sent = w[e].sent /\ w'[Peer(e)] = w[Peer(e)]
      BY <1>0, <2>3, <2>5, ChunkGoesOn
    <3>. QED
      BY <1>2, <3>1
  <2>. QED
    BY <2>1, <2>4, <2>5
<1>14. CASE ReadSocket(e)
  <2>1. e = "host"
    BY <1>14 DEF End
  <2>2. w'["client"] = w["client"]
    BY <1>0, <1>14, <2>1 DEF ReadSocket, Typed
  <2>. QED
    BY <2>2
<1>. QED
  BY <1>1, <1>5, <1>6, <1>7, <1>8, <1>9, <1>10, <1>11, <1>12, <1>13, <1>14 DEF Receive, Retry

(* Who is told of an end: nobody but the one a FIN arrives at.             *)
LEMMA EndsSame ==
    ASSUME LinkInv, Next, NEW d \in End, ~ReceiveFin(d)
    PROVE  ("remoteEof" \in w'[d].is) <=> ("remoteEof" \in w[d].is)
<1>0. Typed
  BY DEF LinkInv
<1>1. ASSUME "remoteEof" \in w[d].is PROVE "remoteEof" \in w'[d].is
  <2>0. Calm
    BY EveryStepIsCalm
  <2>1. Grows(w[d], w'[d])
    <3>1. CASE d = "client"
      BY <2>0, <3>1 DEF Calm
    <3>2. CASE d = "host"
      BY <1>1, <2>0, <3>2, HostKeepsEnd
    <3>. QED
      BY <3>1, <3>2 DEF End
  <2>. QED
    BY <1>1, <2>1 DEF Grows
<1>2. ASSUME "remoteEof" \in w'[d].is PROVE "remoteEof" \in w[d].is
  <2>1. Believes(d)
    BY OnlyEndsAreBelieved
  <2>2. CASE w'[d].is \subseteq w[d].is \cup {"ready", "localEof", "finSent"}
    BY <1>2, <2>2
  <2>3. CASE ReceiveFinAck(d)
    <3>1. CASE w' = [w EXCEPT ![d].is = @ \cup {"finAcked"}]
      BY <1>0, <1>2, <3>1, Learns DEF Flags
    <3>. QED
      BY <1>2, <2>3, <3>1 DEF ReceiveFinAck
  <2>. QED
    BY <2>1, <2>2, <2>3 DEF Believes
<1>. QED
  BY <1>1, <1>2

(* A write sends nothing and announces no end.                             *)
LEMMA WriteSteady ==
    ASSUME LinkInv, NEW e \in End, WriteSocket(e)
    PROVE  w'["client"].sent = w["client"].sent /\ \A d \in End : w'[d].is = w[d].is
<1>0. Typed /\ WorkersInv /\ HostInv
  BY DEF LinkInv
<1>1. PICK n \in Nat :
      /\ n > 0 /\ w[e].written + n <= w[e].pending
      /\ \/ w' = [w EXCEPT ![e].got = w[e].got + w[e].pending, ![e].pending = 0,
                           ![e].written = 0, ![e].from = 0]
         \/ w' = [w EXCEPT ![e].written = w[e].written + n]
  BY <1>0, Writes
<1>2. /\ w[e].got \in Nat /\ w[e].written \in Nat /\ w[e].pending \in Nat
      /\ w[e].pending \in 0..Chunk
  BY <1>0, WorkerNumbers DEF Typed, Worker
<1>3. w[e].got + w[e].pending \in Nat /\ w[e].written + n \in 0..Chunk
  BY <1>1, <1>2, StreamAssumption
<1>4. w'[e].sent = w[e].sent /\ w'[e].is = w[e].is /\ w'[Peer(e)] = w[Peer(e)]
  <2>1. CASE w' = [w EXCEPT ![e].got = w[e].got + w[e].pending, ![e].pending = 0,
                            ![e].written = 0, ![e].from = 0]
    BY <1>0, <1>3, <2>1, ChunkDone
  <2>2. CASE w' = [w EXCEPT ![e].written = w[e].written + n]
    BY <1>0, <1>3, <2>2, ChunkGoesOn
  <2>. QED
    BY <1>1, <2>1, <2>2
<1>. QED
  BY <1>4, PeerIs DEF End

LEMMA NotEmpty ==
    \A r \in Seq(Nat) : /\ r # <<>> => r[1] \in Nat
                        /\ Len(r) # 0 => r # <<>>
OBVIOUS

(* What ByteStream's variables are at each end.                            *)
LEMMA AtEachEnd ==
    /\ Taken["client"] = w["client"].sent
    /\ Taken["host"] = IF read = <<>> THEN 0 ELSE read[1]
    /\ \A e \in End : "remoteEof" \notin w[e].is => Told[e] = "open"
BY DEF Taken, Told, End

(* A write to the first connection hands its bytes to the program there.   *)
LEMMA WriteImplements ==
    ASSUME LinkInv, LinkInv', ResetInv, NEW e \in End, WriteSocket(e)
    PROVE  Abstract!Next \/ UNCHANGED Abstract!streamVars
<1>0. /\ Typed /\ WorkersInv /\ HostInv /\ SinkInv
      /\ w[e].got \in Nat /\ w[e].written \in Nat /\ w[e].pending \in Nat
      /\ 1 \in Connections /\ Peer(e) \in End
  BY WorkerNumbers, PeerOf, StreamAssumption DEF LinkInv, Typed, Connections
<1>. DEFINE c == Conn(e)
<1>1. Running(e) /\ c \in Connections /\ w[e].pending # 0 /\ UNCHANGED <<kind, read, lost>>
  BY <1>0, Writes
<1>2. PICK n \in Nat :
        /\ n > 0 /\ w[e].written + n <= w[e].pending
        /\ sink' = [sink EXCEPT ![e][c] = @ \o Piece(e, n)]
        /\ Piece(e, n) \in Seq(Bytes) /\ Len(Piece(e, n)) = n
  BY <1>0, Writes
<1>3. Len(sink[e][c]) = w[e].got + w[e].written
  BY <1>1, SocketCount
<1>4. /\ Len(sink'[e][c]) = w[e].got + w[e].written + n
      /\ \A d \in End, b \in Connections : d # e \/ b # c => sink'[d][b] = sink[d][b]
  BY <1>1, <1>2, <1>3, WriteContinues
<1>5. Taken' = Taken /\ Told' = Told
  <2>1. w'["client"].sent = w["client"].sent /\ \A d \in End : w'[d].is = w[d].is
    BY WriteSteady
  <2>. QED
    BY <1>1, <2>1, TakenSame, ToldSame
<1>6. CASE c # 1
  <2>1. \A d \in End : sink'[d][1] = sink[d][1]
    BY <1>0, <1>4, <1>6
  <2>. QED
    BY <1>5, <2>1, GivenSame, Stutters
<1>7. CASE c = 1
  <2>. DEFINE m == w[e].got + w[e].written + n
  <2>1. "remoteEof" \notin w[e].is
    BY <1>0, <1>1 DEF WorkersInv, WorkerOk
  <2>2. Told[e] = "open"
    BY <2>1, AtEachEnd
  <2>3. Len(Given[e]) = w[e].got + w[e].written
    BY <1>3, <1>7, GivenIs
  <2>4. Given' = [Given EXCEPT ![e] = [i \in 1..m |-> i]]
    <3>1. Given'[e] = [i \in 1..m |-> i]
      <4>1. Len(sink'[e][1]) = m
        BY <1>4, <1>7
      <4>2. \A i \in 1..Len(sink'[e][1]) : sink'[e][1][i].pos = i
        BY <1>0 DEF LinkInv, SinkInv
      <4>3. Given'[e] = [i \in 1..Len(sink'[e][1]) |-> sink'[e][1][i].pos]
        BY DEF Given
      <4>. HIDE DEF m
      <4>. QED
        BY <4>1, <4>2, <4>3
    <3>2. \A d \in End : d # e => Given'[d] = Given[d]
      <4>1. \A d \in End : d # e => sink'[d][1] = sink[d][1]
        BY <1>0, <1>4
      <4>. QED
        BY <4>1 DEF Given
    <3>3. Given' = [d \in End |-> Given'[d]] /\ Given = [d \in End |-> Given[d]]
      BY DEF Given
    <3>. QED
      BY <3>1, <3>2, <3>3
  <2>5. w[e].got + w[e].pending <= Taken[Peer(e)] /\ Taken[Peer(e)] \in Nat
    <3>1. CASE e = "client"
      <4>1. w[e].got + w[e].pending <= read[1] /\ read # <<>>
        BY <1>1, <3>1 DEF ResetInv, FirstHeard
      <4>2. read[1] \in Nat
        BY <1>0, <4>1 DEF Typed
      <4>. QED
        BY <3>1, <4>1, <4>2, PeerIs, AtEachEnd
    <3>2. CASE e = "host"
      <4>1. w[e].got + w[e].pending <= w["client"].sent
        BY <1>0, <1>1, <3>2 DEF HostInv
      <4>2. w["client"].sent \in Nat
        BY <1>0, WorkerNumbers DEF Typed, End
      <4>. QED
        BY <3>2, <4>1, <4>2, PeerIs, AtEachEnd
    <3>. QED
      BY <3>1, <3>2 DEF End
  <2>6. m \in Len(Given[e]) + 1 .. Taken[Peer(e)]
    <3>. DEFINE g == Len(Given[e])
                t == Taken[Peer(e)]
    <3>1. m \in Nat /\ m <= w[e].got + w[e].pending
      BY <1>0, <1>2
    <3>2. g = w[e].got + w[e].written /\ g \in Nat /\ m = g + n
      BY <1>0, <2>3
    <3>3. w[e].got + w[e].pending <= t /\ t \in Nat /\ w[e].got + w[e].pending \in Nat
      BY <1>0, <2>5
    <3>. HIDE DEF g, t, m
    <3>4. m \in g + 1 .. t
      BY <1>2, <3>1, <3>2, <3>3
    <3>. QED
      BY <3>4 DEF g, t
  <2>. HIDE DEF m
  <2>. QED
    BY <1>5, <2>2, <2>4, <2>6, Gives
<1>. QED
  BY <1>6, <1>7

(* A read from the first connection, or from the client's program, takes   *)
(* bytes from the program there.                                           *)
LEMMA ReadImplements ==
    ASSUME LinkInv, NEW e \in End, ReadSocket(e)
    PROVE  Abstract!Next \/ UNCHANGED Abstract!streamVars
<1>0. /\ Typed /\ HostInv /\ read \in Seq(Nat) /\ w[e].sent \in Nat
      /\ "client" \in End /\ "host" \in End
  BY WorkerNumbers DEF LinkInv, Typed, End
<1>1. Running(e) /\ UNCHANGED sink
  BY DEF ReadSocket, Drained
<1>2. Given' = Given
  BY <1>1, GivenSame
<1>3. ASSUME NEW n \in 1..Chunk,
             w' = [w EXCEPT ![e].sent = @ + n, ![e].flight = n],
             read' = IF e = "host" THEN [read EXCEPT ![Conn(e)] = @ + n] ELSE read
      PROVE  Abstract!Next \/ UNCHANGED Abstract!streamVars
  <2>1. w'[e].is = w[e].is /\ w'[e].sent = w[e].sent + n /\ w'[Peer(e)] = w[Peer(e)]
    BY <1>0, <1>3, ReadsMore
  <2>2. /\ read' \in Seq(Nat) /\ Len(read') = Len(read)
        /\ e = "host" => /\ Len(read) \in 1..Len(read)
                         /\ read'[Len(read)] = read[Len(read)] + n
                         /\ \A c \in 1..Len(read) : c # Len(read) => read'[c] = read[c]
        /\ e # "host" => read' = read
    BY <1>0, <1>1, <1>3, ReadCounts
  <2>3. Told' = Told
    BY <2>1, <2>2, PeerOf, ToldSame
  <2>4. n \in Nat /\ n >= 1 /\ n <= Chunk /\ Chunk \in Nat
    BY StreamAssumption
  <2>5. CASE e = "client"
    <3>1. read' = read /\ w'["client"].sent = w["client"].sent + n
      BY <2>1, <2>2, <2>5
    <3>2. Taken' = [Taken EXCEPT !["client"] = w["client"].sent + n]
      BY <1>0, <3>1 DEF Taken
    <3>3. w["client"].sent + n \in Taken["client"] + 1 .. Taken["client"] + Chunk
      <4>1. Taken["client"] = w["client"].sent /\ w["client"].sent \in Nat
        BY <1>0, <2>5, AtEachEnd
      <4>. QED
        BY <2>4, <4>1
    <3>. QED
      BY <1>0, <1>2, <2>3, <3>2, <3>3, Takes
  <2>6. CASE e = "host" /\ Len(read) = 1
    <3>1. w'["client"].sent = w["client"].sent
      BY <2>1, <2>6, PeerIs
    <3>2. read[1] \in Nat /\ read # <<>> /\ read' # <<>> /\ read'[1] = read[1] + n
      <4>1. read # <<>> /\ read[1] \in Nat
        BY <1>0, <2>6, NotEmpty
      <4>2. Len(read') = 1 /\ read' \in Seq(Nat)
        BY <2>2, <2>6
      <4>3. read' # <<>>
        BY <4>2, NotEmpty
      <4>4. read'[1] = read[1] + n
        BY <2>2, <2>6
      <4>. QED
        BY <4>1, <4>3, <4>4
    <3>3. Taken' = [Taken EXCEPT !["host"] = read[1] + n]
      BY <1>0, <3>1, <3>2 DEF Taken, End
    <3>4. read[1] + n \in Taken["host"] + 1 .. Taken["host"] + Chunk
      <4>1. Taken["host"] = read[1]
        BY <3>2, AtEachEnd
      <4>. QED
        BY <2>4, <3>2, <4>1
    <3>. QED
      BY <1>0, <1>2, <2>3, <3>3, <3>4, Takes
  <2>7. CASE e = "host" /\ Len(read) # 1
    <3>1. w'["client"].sent = w["client"].sent
      BY <2>1, <2>7, PeerIs
    <3>2. read # <<>> /\ read' # <<>> /\ read'[1] = read[1]
      BY <1>0, <2>2, <2>7
    <3>. QED
      BY <1>2, <2>3, <3>1, <3>2, TakenSame, Stutters
  <2>. QED
    BY <2>5, <2>6, <2>7 DEF End
<1>4. ASSUME w' = [w EXCEPT ![e].is = @ \cup {"localEof"}], UNCHANGED read
      PROVE  UNCHANGED Abstract!streamVars
  <2>1. /\ w'[e].is = w[e].is \cup {"localEof"} /\ w'[e].sent = w[e].sent
        /\ w'[Peer(e)] = w[Peer(e)]
    BY <1>0, <1>4, Learns DEF Flags
  <2>2. w'["client"].sent = w["client"].sent
    BY <2>1, PeerIs DEF End
  <2>3. \A d \in End : ("remoteEof" \in w'[d].is) <=> ("remoteEof" \in w[d].is)
    BY <2>1, PeerOf
  <2>. QED
    BY <1>2, <1>4, <2>2, <2>3, TakenSame, ToldSame, Stutters
<1>. QED
  BY <1>3, <1>4 DEF ReadSocket

(* A new connection has taken nothing, and is not told of an end.          *)
LEMMA OpenImplements ==
    ASSUME LinkInv, ReceiveOpen
    PROVE  UNCHANGED Abstract!streamVars
<1>0. Typed /\ EndsInv /\ read \in Seq(Nat) /\ "client" \in End /\ "host" \in End
  BY DEF LinkInv, Typed, End
<1>1. Given' = Given
  BY GivenSame DEF ReceiveOpen
<1>2. "remoteEof" \notin w["host"].is
  <2>1. wire["client"] # <<>> /\ Msg("host").k = "OPEN"
    BY PeerIs DEF ReceiveOpen, Arrives, Msg
  <2>2. wire["client"][1].k = "OPEN" /\ 1 \in 1..Len(wire["client"])
    BY <1>0, <2>1, PeerIs, HeadIsFirst
  <2>. QED
    BY <1>0, <2>2 DEF EndsInv, NoOpen
<1>3. Taken' = Taken
  <2>1. w'["client"].sent = w["client"].sent
    BY <1>0 DEF ReceiveOpen, Broken, Typed
  <2>2. (IF read' = <<>> THEN 0 ELSE read'[1]) = (IF read = <<>> THEN 0 ELSE read[1])
    <3>1. CASE UNCHANGED read
      BY <3>1
    <3>2. CASE read' = Append(read, 0)
      <4>1. CASE read = <<>>
        BY <3>2, <4>1
      <4>2. CASE read # <<>>
        BY <1>0, <3>2, <4>2
      <4>. QED
        BY <4>1, <4>2
    <3>. QED
      BY <3>1, <3>2 DEF ReceiveOpen
  <2>. QED
    BY <2>1, <2>2, TakenSame
<1>4. Told' = Told
  <2>1. w'["client"] = w["client"]
    BY <1>0 DEF ReceiveOpen, Broken, Typed
  <2>2. "remoteEof" \notin w'["host"].is
    <3>1. CASE UNCHANGED w
      BY <1>2, <3>1
    <3>2. CASE w' = [w EXCEPT !["host"] = Fresh({"ready"})]
      <4>1. w'["host"] = Fresh({"ready"})
        BY <1>0, <3>2 DEF Typed
      <4>. QED
        BY <4>1, FreshTyped DEF Flags
    <3>3. CASE w' = Broken("host")
      <4>1. w'["host"].is = w["host"].is
        BY <1>0, <3>3 DEF Broken, Typed, Worker
      <4>. QED
        BY <1>2, <4>1
    <3>. QED
      BY <3>1, <3>2, <3>3 DEF ReceiveOpen
  <2>. QED
    BY <1>2, <2>1, <2>2, ToldSame DEF End
<1>. QED
  BY <1>1, <1>3, <1>4, Stutters

(* An end is told of once every byte taken at the other end was given.     *)
LEMMA FinImplements ==
    ASSUME LinkInv, ResetInv, NEW e \in End, ReceiveFin(e)
    PROVE  Abstract!Next \/ UNCHANGED Abstract!streamVars
<1>0. Typed /\ HostInv /\ Peer(e) \in End /\ "client" \in End /\ "host" \in End
  BY PeerOf DEF LinkInv, End
<1>1. Running(e) /\ wire[Peer(e)] # <<>> /\ Msg(e).k = "FIN" /\ UNCHANGED <<sink, read>>
  BY DEF ReceiveFin, Arrives, Msg
<1>2. Says(Peer(e), w[Peer(e)], Msg(e))
  BY <1>1, ArrivesSaying
<1>3. Given' = Given
  BY <1>1, GivenSame
<1>4. ASSUME w'["client"].sent = w["client"].sent,
             \A d \in End : ("remoteEof" \in w'[d].is) <=> ("remoteEof" \in w[d].is)
      PROVE  UNCHANGED Abstract!streamVars
  BY <1>1, <1>3, <1>4, TakenSame, ToldSame, Stutters
<1>5. CASE w' = Broken(e)
  <2>1. w'[e].sent = w[e].sent /\ w'[e].is = w[e].is /\ w'[Peer(e)] = w[Peer(e)]
    BY <1>0, <1>5, BrokenTyped DEF Broken, Phases
  <2>2. w'["client"].sent = w["client"].sent
    BY <2>1, PeerIs DEF End
  <2>3. \A d \in End : w'[d].is = w[d].is
    BY <2>1, PeerOf
  <2>. QED
    BY <1>4, <2>2, <2>3
<1>6. CASE UNCHANGED w
  BY <1>4, <1>6
<1>7. CASE /\ w' = [w EXCEPT ![e].is = @ \cup {"remoteEof"}]
           /\ Msg(e).off = w[e].got /\ w[e].pending = 0
  <2>1. /\ w'[e].is = w[e].is \cup {"remoteEof"} /\ w'[e].sent = w[e].sent
        /\ w'[Peer(e)] = w[Peer(e)]
    BY <1>0, <1>7, Learns DEF Flags
  <2>2. w'["client"].sent = w["client"].sent
    BY <2>1, PeerIs DEF End
  <2>3. Taken' = Taken
    BY <1>1, <2>2, TakenSame
  <2>4. CASE "remoteEof" \in w[e].is
    <3>1. \A d \in End : ("remoteEof" \in w'[d].is) <=> ("remoteEof" \in w[d].is)
      BY <2>1, <2>4, PeerOf
    <3>. QED
      BY <1>4, <2>2, <3>1
  <2>5. CASE "remoteEof" \notin w[e].is /\ e = "host" /\ Len(read) # 1
    <3>1. Told' = Told
      BY <1>1, <2>1, <2>5, PeerIs DEF Told, End
    <3>. QED
      BY <1>3, <2>3, <3>1, Stutters
  <2>6. CASE "remoteEof" \notin w[e].is /\ (e = "host" => Len(read) = 1)
    <3>1. Told[e] = "open"
      BY <2>6, AtEachEnd
    <3>2. Told' = [Told EXCEPT ![e] = "eof"]
      <4>1. Told'[e] = "eof"
        BY <1>1, <2>1, <2>6 DEF Told
      <4>2. \A d \in End : d # e => Told'[d] = Told[d]
        <5>1. \A d \in End : d # e => w'[d].is = w[d].is
          BY <2>1, PeerOf
        <5>. QED
          BY <1>1, <5>1 DEF Told
      <4>3. Told' = [d \in End |-> Told'[d]] /\ Told = [d \in End |-> Told[d]]
        BY DEF Told
      <4>. QED
        BY <4>1, <4>2, <4>3
    <3>3. Len(sink[e][1]) = w[e].got
      <4>1. Conn(e) = 1
        BY <2>6 DEF Conn
      <4>2. w[e].got \in Nat /\ w[e].written = 0
        <5>1. WorkerOk(e, w[e]) /\ w[e] \in Worker
          BY <1>0 DEF LinkInv, WorkersInv, Typed
        <5>. QED
          BY <1>7, <5>1, WorkerNumbers DEF WorkerOk
      <4>. QED
        BY <1>1, <4>1, <4>2, SocketCount
    <3>4. w[e].got = Total[Peer(e)]
      BY <1>1, <1>2, <1>7 DEF Says
    <3>5. Taken[Peer(e)] = Total[Peer(e)]
      <4>1. CASE e = "client"
        <5>1. wire["host"] # <<>> /\ wire["host"][1].k = "FIN" /\ 1 \in 1..Len(wire["host"])
          BY <1>0, <1>1, <4>1, PeerIs, HeadIsFirst
        <5>2. Clear(wire["host"], 1)
          BY <5>1 DEF Clear
        <5>3. w["client"].ph = "run"
          BY <1>1, <4>1 DEF Running
        <5>4. OfFirst(wire["host"][1], read)
          BY <5>1, <5>2, <5>3 DEF ResetInv, FirstSpeaks
        <5>5. read # <<>> /\ read[1] = Total["host"]
          BY <5>1, <5>4 DEF OfFirst
        <5>. QED
          BY <4>1, <5>5, PeerIs, AtEachEnd
      <4>2. CASE e = "host"
        <5>1. w["client"].sent = Total["client"]
          BY <1>1, <1>2, <4>2, PeerIs DEF Says
        <5>. QED
          BY <4>2, <5>1, PeerIs, AtEachEnd
      <4>. QED
        BY <4>1, <4>2 DEF End
    <3>6. Len(Given[e]) = Taken[Peer(e)]
      BY <3>3, <3>4, <3>5, GivenIs
    <3>. QED
      BY <1>3, <2>3, <3>1, <3>2, <3>6, Tells
  <2>. QED
    BY <2>4, <2>5, <2>6
<1>. QED
  BY <1>5, <1>6, <1>7 DEF ReceiveFin

(* No other step means anything to the programs.                           *)
LEMMA OthersStutter ==
    ASSUME LinkInv, Next, ~ReceiveOpen,
           \A e \in End : ~WriteSocket(e) /\ ~ReadSocket(e) /\ ~ReceiveFin(e)
    PROVE  UNCHANGED Abstract!streamVars
<1>1. UNCHANGED sink
  BY OnlyWritesWrite
<1>2. w'["client"].sent = w["client"].sent
  BY ClientSentSame DEF End
<1>3. UNCHANGED read
  BY DEF Next, Receive, ReceiveReady, ReceiveStray, ReceiveReset, ReceiveData, ReceiveAck,
         ReceiveFinAck, Retry, RetryData, SendFin, RetryOpen, Finish, Break, Lose
<1>4. \A d \in End : ("remoteEof" \in w'[d].is) <=> ("remoteEof" \in w[d].is)
  BY EndsSame
<1>. QED
  BY <1>1, <1>2, <1>3, <1>4, GivenSame, TakenSame, ToldSame, Stutters

LEMMA StepImplements ==
    ASSUME LinkInv, LinkInv', ResetInv, [Next]_vars
    PROVE  [Abstract!Next]_Abstract!streamVars
<1>1. CASE ReceiveOpen
  BY <1>1, OpenImplements
<1>2. ASSUME NEW e \in End, WriteSocket(e) \/ ReadSocket(e) \/ ReceiveFin(e)
      PROVE  Abstract!Next \/ UNCHANGED Abstract!streamVars
  BY <1>2, WriteImplements, ReadImplements, FinImplements
<1>3. CASE UNCHANGED vars
  <2>1. Taken' = Taken /\ Given' = Given /\ Told' = Told
    BY <1>3 DEF vars, Taken, Given, Told
  <2>. QED
    BY <2>1, Stutters
<1>. QED
  BY <1>1, <1>2, <1>3, OthersStutter

LEMMA InitImplements ==
    ASSUME Init
    PROVE  Abstract!Init
<1>1. /\ w["client"].sent = 0 /\ read = <<>>
      /\ \A e \in End : w[e].is = {} /\ sink[e][1] = <<>>
  <2>1. w["client"] = Fresh({}) /\ w["host"] = [Fresh({}) EXCEPT !.ph = "none"] /\ read = <<>>
    BY DEF Init, End
  <2>2. \A e \in End : sink[e][1] = <<>>
    BY StreamAssumption DEF Init, Connections
  <2>3. w["client"].sent = 0 /\ w["client"].is = {} /\ w["host"].is = {}
    BY <2>1 DEF Fresh
  <2>. QED
    BY <2>1, <2>2, <2>3 DEF End
<1>2. Taken = [e \in End |-> 0]
  BY <1>1 DEF Taken
<1>3. Given = [e \in End |-> <<>>]
  <2>1. \A e \in End : [i \in 1..Len(sink[e][1]) |-> sink[e][1][i].pos] = <<>>
    <3>1. ASSUME NEW e \in End PROVE [i \in 1..Len(sink[e][1]) |-> sink[e][1][i].pos] = <<>>
      <4>1. Len(sink[e][1]) = 0
        BY <1>1
      <4>. QED
        BY <4>1
    <3>. QED
      BY <3>1
  <2>. QED
    BY <2>1 DEF Given
<1>4. Told = [e \in End |-> "open"]
  BY <1>1 DEF Told
<1>. QED
  BY <1>2, <1>3, <1>4 DEF Abstract!Init, Taken, Given, Told

(* ImplementsByteStream: over a link that does not lose RESET frames, and  *)
(* may lose any other, the two workers with their timers and retries are a *)
(* byte stream to the two programs: every byte once, in order, and no end  *)
(* before the last one.                                                    *)
THEOREM ImplementsStream ==
    ASSUME LossyResets = "no"
    PROVE  Spec => ImplementsByteStream
<1>1. Init => Abstract!Init
  BY InitImplements
<1>2. LinkInv /\ LinkInv' /\ ResetInv /\ [Next]_vars => [Abstract!Next]_Abstract!streamVars
  BY StepImplements
<1>. QED
  BY <1>1, <1>2, LinkAlways, ResetAlways, PTL DEF Spec, ImplementsByteStream, Abstract!Spec
=============================================================================
