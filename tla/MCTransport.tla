----------------------------- MODULE MCTransport -----------------------------
(***************************************************************************)
(* Everything between a packet and the wire, one part at a time: the       *)
(* serial reader on a bad line, the codecs on every short input, the frame *)
(* reader, and the three radio backends.  `part' never changes; the        *)
(* variables of the other parts keep their first value.  Names without a   *)
(* module are the serial reader's (Init, Next, Read, Reopen) or a codec's. *)
(***************************************************************************)
EXTENDS SerialReader, ClipFile, Messages, Utf8Stream

CONSTANTS
    FrameLimit, FrameTimeouts, FrameLetters, StreamMax, BlockMax,      \* FrameReader
    Paired, HostDevice, MaxDelegates, ConnectTicks, SdpMin, SdpMax, FrameChunks, \* RfcommMac
    Clients, WinClients, MaxLookups, MaxRx,                            \* RfcommWin
    IdSpace, Labels, Totals, AckEvery                                  \* BleLink

ASSUME TransportAssumption ==
    /\ MaxFrame \in Nat /\ MaxPartialTimeouts \in Nat /\ FrameLimit \in Nat
    /\ StormThreshold \in Nat \ {0}
    /\ MaxSent \in 0..MaxCode /\ MaxDamage \in Nat
    /\ MaxDelegates \in Nat /\ MaxLookups \in Nat /\ "none" \notin Clients
    /\ IdSpace \in Nat \ {0} /\ Totals \subseteq Nat /\ Labels \subseteq Nat \ {0}

VARIABLE part

(* The codecs: what is encoded or decoded, and for a message its type and  *)
(* fields.                                                                 *)
VARIABLES input, type, fields

(* FrameReader. *)
VARIABLES stream, partial, resyncing, returned, oversize, timeouts, frames

(* RfcommMac. *)
VARIABLES cfg, auth, asked, hostUp, rotation, at, queue, left, budget, cur, del, cb,
          chan, peerReads, writer, lock, overdue, watchdog, keepalive

(* RfcommWin. *)
VARIABLES listening, guest, closed, backlog, rx, rxError, silent, kaWrites, heard,
          cst, running, abandoned, slot

(* BleLink. *)
VARIABLES dir, up, nextId, writes, out, air, slots, failed

F == INSTANCE FrameReader WITH MaxFrame <- FrameLimit, MaxTimeouts <- FrameTimeouts,
                               Letters <- FrameLetters, MaxBytes <- StreamMax,
                               MaxBlock <- BlockMax, ready <- returned, out <- frames
Mac == INSTANCE RfcommMac WITH Host <- HostDevice
Win == INSTANCE RfcommWin WITH client <- guest
Ble == INSTANCE BleLink

Codecs == {"cobs", "message", "name", "text"}

serialvars == <<sent, damage, line, buf, partials, storm, got>>
codec == <<input, type, fields>>
reader == <<stream, partial, resyncing, returned, oversize, timeouts, frames>>
macvars == <<cfg, auth, asked, hostUp, rotation, at, queue, left, budget, cur, del, cb,
             chan, peerReads, writer, lock, overdue, watchdog, keepalive>>
winvars == <<listening, guest, closed, backlog, rx, rxError, silent, kaWrites, heard,
             cst, running, abandoned, slot>>
blevars == <<dir, up, nextId, writes, out, air, slots, failed>>

transportvars == <<part, serialvars, codec, reader, macvars, winvars, blevars>>

TransportInit ==
    /\ part \in Codecs \cup {"serial", "frames", "mac", "windows", "ble"}
    /\ Init /\ F!Init /\ Mac!Init /\ Win!Init /\ Ble!Init
    /\ input = <<>> /\ fields = <<>>
    /\ type \in IF part = "message" THEN Types ELSE {"none"}
    /\ part # "mac" => cfg = [fixed |-> FALSE, addr |-> 0] /\ auth = "allowed" /\ ~hostUp
    /\ part # "ble" => dir = "up"

(* Inputs grow by one element; a message by one field, or its payload by   *)
(* one byte.                                                               *)
Letter(p) ==
    CASE p = "cobs" -> {0, 1, MaxCode}
      [] p = "name" -> {"a", "/", ":", ".", " ", "*", "CON"}
      [] p = "text" -> 0..3
      [] OTHER -> {0, 1, 4, Lead, Cont}

Longest(p) == CASE p = "cobs" -> 7 [] p = "text" -> 6 [] OTHER -> 4

Grow ==
    /\ fields = <<>> /\ Len(input) < Longest(part)
    /\ \E b \in Letter(part) : input' = Append(input, b)
    /\ UNCHANGED <<type, fields>>

FieldValues(f) ==
    CASE f.kind = "unsigned" ->
           IF f.size = 1 THEN 0..Radix - 1 ELSE {0, 1, Radix, Span(f.size) - 1}
      [] f.kind = "signed" ->
           {0, 1, -1, (Span(f.size) \div 2) - 1, -(Span(f.size) \div 2)}
      [] f.kind = "flag" -> BOOLEAN
      [] f.kind = "string" ->
           (UNION {[1..n -> {1, Lead, Cont}] : n \in 0..3}) \cup {[i \in 1..10 |-> 1]}
      [] OTHER -> {<<>>, <<0>>, <<5, 0, 1>>}

AddField ==
    /\ part = "message" /\ input = <<>> /\ Len(fields) < Len(Writes(type))
    /\ \E v \in FieldValues(Writes(type)[Len(fields) + 1]) : fields' = Append(fields, v)
    /\ UNCHANGED <<input, type>>

CodecNext == Grow \/ AddField

TransportNext ==
    \/ /\ part = "serial" /\ Next
       /\ UNCHANGED <<part, codec, reader, macvars, winvars, blevars>>
    \/ /\ part \in Codecs /\ CodecNext
       /\ UNCHANGED <<part, serialvars, reader, macvars, winvars, blevars>>
    \/ /\ part = "frames" /\ F!Next
       /\ UNCHANGED <<part, serialvars, codec, macvars, winvars, blevars>>
    \/ /\ part = "mac" /\ Mac!Next
       /\ UNCHANGED <<part, serialvars, codec, reader, winvars, blevars>>
    \/ /\ part = "windows" /\ Win!Next
       /\ UNCHANGED <<part, serialvars, codec, reader, macvars, blevars>>
    \/ /\ part = "ble" /\ Ble!Next
       /\ UNCHANGED <<part, serialvars, codec, reader, macvars, winvars>>

(* The fairness of each part's own specification, of the part that runs.   *)
Serial(A) == part = "serial" /\ A /\ UNCHANGED <<part, codec, reader, macvars, winvars, blevars>>

OnMac(A) == part = "mac" /\ A /\ UNCHANGED <<part, serialvars, codec, reader, winvars, blevars>>

OnWindows(A) == part = "windows" /\ A /\ UNCHANGED <<part, serialvars, codec, reader, macvars, blevars>>

TransportSpec ==
    /\ TransportInit /\ [][TransportNext]_transportvars
    /\ WF_transportvars(Serial(storm < StormThreshold /\ Read)) /\ WF_transportvars(Serial(Reopen))
    /\ WF_transportvars(OnMac(Mac!Open)) /\ WF_transportvars(OnMac(Mac!performSDPQuery))
    /\ WF_transportvars(OnMac(Mac!openRFCOMMChannelAsync)) /\ WF_transportvars(OnMac(Mac!Attempt))
    /\ WF_transportvars(OnMac(Mac!Connected)) /\ WF_transportvars(OnMac(Mac!CallbackStores))
    /\ \A d \in Mac!Delegates, op \in {"sdp", "open"} :
         WF_transportvars(OnMac(Mac!CallbackEnters(d, op)))
    /\ WF_transportvars(OnMac(Mac!CallbackCounts)) /\ WF_transportvars(OnMac(Mac!CallbackReturns))
    /\ \A w \in Mac!Writers :
         WF_transportvars(OnMac(Mac!WriteLocks(w))) /\ WF_transportvars(OnMac(Mac!WriteReturns(w)))
    /\ WF_transportvars(OnMac(Mac!DeadlinePasses)) /\ WF_transportvars(OnMac(Mac!write_watchdog))
    /\ WF_transportvars(OnMac(Mac!DropOwner)) /\ WF_transportvars(OnMac(Mac!DropInner))
    /\ WF_transportvars(OnWindows(Win!Host)) /\ WF_transportvars(OnWindows(Win!superseded_by_new_client))
    /\ WF_transportvars(OnWindows(Win!Silence)) /\ WF_transportvars(OnWindows(Win!KeepaliveTimesOut))
    /\ WF_transportvars(OnWindows(Win!Connect("mac")))

----------------------------------------------------------------------------
(* encode and decode of COBS are inverse, zeros, empty and full blocks     *)
(* included, and a frame that lost its tail decodes to a prefix or not at  *)
(* all; serialize and deserialize agree on every message; a file arrives   *)
(* under a usable name; text cut anywhere between two reads decodes as a   *)
(* whole; and the frames next_packet returns are those of the stream.      *)
CodecsAreExact ==
    /\ part = "cobs" =>
         /\ DecodesOk(Encode(input)) /\ Decode(Encode(input)) = input
         /\ \A n \in 1..Len(Encode(input)) - 2 :
              LET torn == Append(SubSeq(Encode(input), 1, n), 0)
              IN  DecodesOk(torn) => IsPrefix(Decode(torn), input)
    /\ part = "message" =>
         /\ Len(fields) = Len(Writes(type)) => Arrives(type, fields)
         /\ ReadsAgain(type, input)
    /\ part = "name" => FileArrives(input, <<1, 2>>) /\ NameIsUsable(input)
    /\ part = "text" => SeamsDoNotShow(input)
    /\ part = "frames" => F!FramesOfTheStream

(* The callbacks of IOBluetooth never reach a freed delegate; one channel  *)
(* lookup at a time, and one client per session of the RFCOMM listener;    *)
(* chunks of two BLE packets never share a slot of the client.             *)
RadioStateIsSound ==
    /\ part = "mac" => Mac!DelegateOutlivesItsCompletions
    /\ part = "windows" => Win!OneLookup /\ Win!PeersNeverSwap
    /\ part = "ble" => Ble!OnePacketPerSlot

(* No link stays stuck: a half frame leaves the serial buffer, a write     *)
(* without credits gives the lock back, a frozen client is replaced.       *)
Stuck ==
    \/ part = "serial" /\ buf # <<>>
    \/ part = "mac" /\ lock # "free"
    \/ part = "windows" /\ guest = "win" /\ cst["win"] = "frozen"

Freed ==
    \/ part = "serial" /\ buf = <<>>
    \/ part = "mac" /\ lock = "free"
    \/ part = "windows" /\ guest # "win"

LinkRecovers == Stuck ~> Freed

(* Once the host is up and Bluetooth allowed, some open() on the Mac gets  *)
(* through to it, whichever paired devices in front of it are dead.        *)
HostIsReached == (part = "mac" /\ hostUp /\ auth = "allowed") ~> (at = "linked")
=============================================================================
