---------------------------- MODULE SerialReader ----------------------------
(***************************************************************************)
(* The receiving half of the serial transport: read_frame in serial.rs,    *)
(* byte by byte, on a line that loses and makes up bytes, with the storm   *)
(* counter (storm.rs) of the thread that calls it.                         *)
(*                                                                         *)
(* The k-th packet is the raw bytes k 0 k; from_bytes accepts these and,   *)
(* for its magic, length and CRC, nothing else.                            *)
(***************************************************************************)
EXTENDS Cobs

CONSTANTS
    MaxFrame,           \* MAX_FRAME_SIZE
    MaxPartialTimeouts, \* MAX_PARTIAL_TIMEOUTS
    StormThreshold,     \* DEFAULT_STORM_THRESHOLD
    MaxSent,            \* bound: packets the peer sends
    MaxDamage           \* bound: bytes the line loses or makes up

VARIABLES
    sent,      \* packets sent so far
    damage,    \* bytes lost or made up so far
    line,      \* bytes on their way, ByteSource's included
    buf,       \* read_buf
    partials,  \* partial_timeouts
    storm,     \* StormCounter::consecutive
    got        \* packets recv returned

vars == <<sent, damage, line, buf, partials, storm, got>>

Packet(k) == <<k, 0, k>>

AnyBytes(raw) == {k \in 1..MaxSent : raw # <<>> /\ raw[1] = k}

(* Packet::from_bytes on decoded bytes. *)
FromBytes(raw) == {k \in 1..MaxSent : raw = Packet(k)}

TypeOK ==
    /\ sent \in 0..MaxSent
    /\ damage \in 0..MaxDamage
    /\ line \in Seq(Bytes)
    /\ buf \in Seq(Bytes)
    /\ partials \in 0..MaxPartialTimeouts
    /\ storm \in Nat
    /\ got \in Seq(1..MaxSent)

Init ==
    /\ sent = 0 /\ damage = 0
    /\ line = <<>>
    /\ buf = <<>>
    /\ partials = 0
    /\ storm = 0
    /\ got = <<>>

----------------------------------------------------------------------------
(* The peer and the line.                                                  *)

(* SerialTransport::send: a leading delimiter, then the encoded packet.    *)
Frame(k) == <<0>> \o Encode(Packet(k))

Send ==
    /\ sent < MaxSent
    /\ sent' = sent + 1
    /\ line' = line \o Frame(sent + 1)
    /\ UNCHANGED <<damage, buf, partials, storm, got>>

LoseByte ==
    /\ damage < MaxDamage /\ line # <<>>
    /\ damage' = damage + 1
    /\ \E i \in DOMAIN line : line' = RemoveAt(line, i)
    /\ UNCHANGED <<sent, buf, partials, storm, got>>

NoiseByte ==
    /\ damage < MaxDamage
    /\ damage' = damage + 1
    /\ \E i \in 1..Len(line) + 1, b \in Bytes : line' = InsertAt(line, i, b)
    /\ UNCHANGED <<sent, buf, partials, storm, got>>

----------------------------------------------------------------------------
(* read_frame.                                                             *)

(* StormCounter::on_protocol_error, and on_valid_packet. *)
BadFrame == storm' = storm + 1 /\ UNCHANGED got

GoodFrame(k) == storm' = 0 /\ got' = Append(got, k)

ReadByteOf(b) == line # <<>> /\ Head(line) = b

(* A delimiter before any byte of a frame is skipped. *)
SkipDelimiter ==
    /\ ReadByteOf(0) /\ buf = <<>>
    /\ line' = Tail(line)
    /\ UNCHANGED <<sent, damage, buf, partials, storm, got>>

TakesDataByte ==
    /\ line # <<>> /\ Head(line) # 0 /\ Len(buf) + 1 <= MaxFrame
    /\ line' = Tail(line)
    /\ buf' = Append(buf, Head(line))
    /\ UNCHANGED <<sent, damage, partials, storm, got>>

(* Past MAX_FRAME_SIZE the bytes are discarded up to the next delimiter,   *)
(* or up to what has arrived.                                              *)
Oversize ==
    /\ line # <<>> /\ Head(line) # 0 /\ Len(buf) + 1 > MaxFrame
    /\ buf' = <<>>
    /\ LET zeros == {i \in DOMAIN line : line[i] = 0} IN
         line' = IF zeros = {} THEN <<>> ELSE SubSeq(line, Min(zeros) + 1, Len(line))
    /\ BadFrame
    /\ UNCHANGED <<sent, damage, partials>>

(* The `?` on a COBS error returns before read_buf.clear(). *)
BufferAfterCobsError(frame) == frame

BufferKept(frame) == frame

BufferAfterFrame(frame) == <<>>

(* A delimiter ends the frame: COBS first, then the packet. *)
FrameEnds ==
    /\ ReadByteOf(0) /\ buf # <<>>
    /\ line' = Tail(line)
    /\ partials' = 0
    /\ \E frame \in {Append(buf, 0)} : \E end \in {Decoded(frame)} :
         IF ~end.ok
           THEN buf' = BufferAfterCobsError(frame) /\ BadFrame
           ELSE /\ buf' = BufferAfterFrame(frame)
                /\ \/ FromBytes(end.out) = {} /\ BadFrame
                   \/ \E k \in FromBytes(end.out) : GoodFrame(k)
    /\ UNCHANGED <<sent, damage>>

NeverAbandons ==
    /\ line = <<>> /\ buf # <<>>
    /\ partials' = IF partials = MaxPartialTimeouts THEN 0 ELSE partials + 1
    /\ UNCHANGED <<sent, damage, line, buf, storm, got>>

(* Nothing arrived while a frame is half read: after enough of these it is *)
(* given up.                                                               *)
PartialTimeout ==
    /\ line = <<>> /\ buf # <<>>
    /\ IF partials + 1 > MaxPartialTimeouts
         THEN buf' = <<>> /\ partials' = 0
         ELSE partials' = partials + 1 /\ UNCHANGED buf
    /\ UNCHANGED <<sent, damage, line, storm, got>>

(* Nothing arrived and nothing is half read: a plain recv timeout. *)
RecvTimeout ==
    /\ line = <<>> /\ buf = <<>>
    /\ UNCHANGED vars

(* The storm threshold is met: the port is closed and opened again. *)
Reopen ==
    /\ storm >= StormThreshold
    /\ line' = <<>> /\ buf' = <<>>
    /\ partials' = 0 /\ storm' = 0
    /\ UNCHANGED <<sent, damage, got>>

Read ==
    \/ SkipDelimiter \/ TakesDataByte \/ Oversize \/ FrameEnds
    \/ PartialTimeout \/ RecvTimeout

Next == Send \/ LoseByte \/ NoiseByte \/ (storm < StormThreshold /\ Read) \/ Reopen

Spec == Init /\ [][Next]_vars

(* The receiving thread keeps calling recv. *)
Fairness == WF_vars(storm < StormThreshold /\ Read) /\ WF_vars(Reopen)

FairSpec == Spec /\ Fairness

----------------------------------------------------------------------------
(* No packet is made up, delivered twice or overtaken by a later one,      *)
(* whatever the line does to the bytes.                                    *)
NothingForged == \A i, j \in DOMAIN got : i < j => got[i] < got[j] /\ got[j] <= sent

(* On a clean line every packet comes out: once the bytes are read nothing *)
(* is missing and nothing is left over.                                    *)
CleanLineLosesNothing ==
    damage = 0 /\ line = <<>> => buf = <<>> /\ got = [k \in 1..sent |-> k]

(* What read_frame hands on is what was sent: all of it on a clean line,   *)
(* some of it, in order, on a bad one.                                     *)
PacketsAsSent == NothingForged /\ CleanLineLosesNothing

(* Bytes of a frame that never ends do not stay in read_buf for good.      *)
HalfFrameIsAbandoned == buf # <<>> ~> buf = <<>>
=============================================================================
