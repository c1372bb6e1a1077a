------------------------------ MODULE Messages ------------------------------
(***************************************************************************)
(* The payload codec of message.rs.  What serialize writes and what        *)
(* deserialize reads are two tables, one line per message, as they are two *)
(* matches in the code; the interpreters below say what a field is on the  *)
(* wire.  A byte is 0..Radix-1 (256 in the code).                          *)
(***************************************************************************)
EXTENDS Integers, Sequences, SequencesExt, FiniteSets

CONSTANTS
    Radix,      \* 256
    NameMax,    \* 32, the longest name of a peer or a shell
    ErrorMax    \* 256, the longest error text

ASSUME MessagesAssumption ==
    /\ Radix \in Nat /\ Radix > 8
    /\ NameMax \in Nat /\ ErrorMax \in Nat

(* A byte of a string is a character, the first of a two-byte character or *)
(* the second.                                                             *)
Lead == Radix - 2
Cont == Radix - 1

(* String::from_utf8. *)
Utf8(s) ==
    \A i \in DOMAIN s :
       /\ s[i] = Lead => i < Len(s) /\ s[i + 1] = Cont
       /\ s[i] = Cont => i > 1 /\ s[i - 1] = Lead

----------------------------------------------------------------------------
(* The kinds of field.                                                     *)

U(n) == [kind |-> "unsigned", size |-> n]
I(n) == [kind |-> "signed", size |-> n]
Flag == [kind |-> "flag", size |-> 1]
Str(max) == [kind |-> "string", size |-> max]
Rest == [kind |-> "rest", size |-> 0]

(* MessageType, and its TryFrom<u8>. *)
Opcode ==
    [Hello |-> 1, HelloAck |-> 2,
     MouseMove |-> 16, MouseButton |-> 17, MouseScroll |-> 18, KeyDown |-> 19, KeyUp |-> 20,
     ClipOffer |-> 32, ClipChunk |-> 33, ClipAck |-> 34, ClipDecline |-> 35,
     Heartbeat |-> 48, Error |-> 49, Disconnect |-> 50,
     ShellOpen |-> 64, ShellInput |-> 65, ShellOutput |-> 66, ShellClose |-> 67,
     ShellExit |-> 68, ShellOpenPty |-> 69, PtyResize |-> 70, ShellClosed |-> 71,
     PtyOpen |-> 72, PtyInput |-> 73, PtyOutput |-> 74, PtyClose |-> 75, PtyExit |-> 76,
     RxProgress |-> 77, Browser |-> 80]

Types == DOMAIN Opcode

TryFrom(v) == {t \in Types : Opcode[t] = v}

(* serialize: the fields in the order they are written. *)
WritesInput ==
    [Hello |-> <<U(1), Str(NameMax)>>, HelloAck |-> <<U(1), Str(NameMax), U(2), U(2)>>,
     MouseMove |-> <<U(2), U(2)>>, MouseButton |-> <<U(1), Flag>>, MouseScroll |-> <<I(2), I(2)>>,
     KeyDown |-> <<U(2), U(1)>>, KeyUp |-> <<U(2), U(1)>>]

WritesClip ==
    [ClipOffer |-> <<U(1), U(4)>>, ClipChunk |-> <<U(2), Rest>>,
     ClipAck |-> <<U(2)>>, ClipDecline |-> <<U(1)>>]

WritesSystem ==
    [Heartbeat |-> <<>>, Disconnect |-> <<>>, Error |-> <<U(2), Str(ErrorMax)>>,
     RxProgress |-> <<U(8)>>, Browser |-> <<U(4), U(1), U(8), Rest>>]

WritesShell ==
    [ShellOpen |-> <<Str(NameMax)>>, ShellInput |-> <<Rest>>, ShellOutput |-> <<Rest>>,
     ShellClose |-> <<>>, ShellClosed |-> <<>>, ShellExit |-> <<I(4)>>,
     ShellOpenPty |-> <<U(2), U(2), Str(NameMax)>>, PtyResize |-> <<U(2), U(2)>>,
     PtyOpen |-> <<U(2), U(2), Str(NameMax)>>, PtyInput |-> <<Rest>>, PtyOutput |-> <<Rest>>,
     PtyClose |-> <<>>, PtyExit |-> <<I(4)>>]

Writes(t) ==
    CASE t \in DOMAIN WritesInput -> WritesInput[t]
      [] t \in DOMAIN WritesClip -> WritesClip[t]
      [] t \in DOMAIN WritesSystem -> WritesSystem[t]
      [] OTHER -> WritesShell[t]

(* deserialize: the fields in the order they are read, out of the payload. *)
ReadsInput ==
    [Hello |-> <<U(1), Str(NameMax)>>, HelloAck |-> <<U(1), Str(NameMax), U(2), U(2)>>,
     MouseMove |-> <<U(2), U(2)>>, MouseButton |-> <<U(1), Flag>>, MouseScroll |-> <<I(2), I(2)>>,
     KeyDown |-> <<U(2), U(1)>>, KeyUp |-> <<U(2), U(1)>>]

ReadsClip ==
    [ClipOffer |-> <<U(1), U(4)>>, ClipChunk |-> <<U(2), Rest>>,
     ClipAck |-> <<U(2)>>, ClipDecline |-> <<U(1)>>]

ReadsSystem ==
    [Heartbeat |-> <<>>, Disconnect |-> <<>>, Error |-> <<U(2), Str(ErrorMax)>>,
     RxProgress |-> <<U(8)>>, Browser |-> <<U(4), U(1), U(8), Rest>>]

ReadsShell ==
    [ShellOpen |-> <<Str(NameMax)>>, ShellInput |-> <<Rest>>, ShellOutput |-> <<Rest>>,
     ShellClose |-> <<>>, ShellClosed |-> <<>>, ShellExit |-> <<I(4)>>,
     ShellOpenPty |-> <<U(2), U(2), Str(NameMax)>>, PtyResize |-> <<U(2), U(2)>>,
     PtyOpen |-> <<U(2), U(2), Str(NameMax)>>, PtyInput |-> <<Rest>>, PtyOutput |-> <<Rest>>,
     PtyClose |-> <<>>, PtyExit |-> <<I(4)>>]

Reads(t) ==
    CASE t \in DOMAIN ReadsInput -> ReadsInput[t]
      [] t \in DOMAIN ReadsClip -> ReadsClip[t]
      [] t \in DOMAIN ReadsSystem -> ReadsSystem[t]
      [] OTHER -> ReadsShell[t]

----------------------------------------------------------------------------
(* Writing.                                                                *)

(* What an integer of n bytes wraps at: Radix to the n, as a product.       *)
Span(n) == FoldLeft(LAMBDA p, i : p * Radix, 1, [i \in 1..n |-> i])

to_le_bytes(v, n) == [i \in 1..n |-> (v \div Span(i - 1)) % Radix]

MinOf(a, b) == IF a <= b THEN a ELSE b

WideLength(s, max) == MinOf(Len(s), max)

(* write_string's length: a byte holds it, and it counts bytes. *)
StringLength(s, max) == MinOf(MinOf(Len(s), max), Radix - 1)

write_string(s, max) ==
    LET n == StringLength(s, max) IN <<n % Radix>> \o SubSeq(s, 1, n)

FieldBytes(f, v) ==
    CASE f.kind \in {"unsigned", "signed"} -> to_le_bytes(v % Span(f.size), f.size)
      [] f.kind = "flag" -> <<IF v THEN 1 ELSE 0>>
      [] f.kind = "string" -> write_string(v, f.size)
      [] OTHER -> v

serialize(t, fields) ==
    FoldLeft(LAMBDA payload, bytes : payload \o bytes, <<>>,
             [i \in DOMAIN fields |-> FieldBytes(Writes(t)[i], fields[i])])

----------------------------------------------------------------------------
(* Reading.                                                                *)

from_le_bytes(s) == FoldLeft(LAMBDA v, b : v * Radix + b, 0, Reverse(s))

ToSigned(v, n) == IF v >= Span(n) \div 2 THEN v - Span(n) ELSE v

(* How many bytes the field takes off the front of `data`, and whether     *)
(* they are all there and make a value: ensure_min_len and read_string.    *)
Taken(f, data) ==
    CASE f.kind = "string" -> IF data = <<>> THEN 1 ELSE 1 + data[1]
      [] f.kind = "rest" -> Len(data)
      [] OTHER -> f.size

Readable(f, data) ==
    /\ Taken(f, data) <= Len(data)
    /\ f.kind = "string" => Utf8(SubSeq(data, 2, Taken(f, data)))

ValueOf(f, bytes) ==
    CASE f.kind = "unsigned" -> from_le_bytes(bytes)
      [] f.kind = "signed" -> ToSigned(from_le_bytes(bytes), f.size)
      [] f.kind = "flag" -> bytes[1] # 0
      [] f.kind = "string" -> Tail(bytes)
      [] OTHER -> bytes

ReadField(r, f) ==
    IF r.ok /\ Readable(f, r.data)
      THEN LET n == Taken(f, r.data) IN
           [ok |-> TRUE, data |-> SubSeq(r.data, n + 1, Len(r.data)),
            fields |-> Append(r.fields, ValueOf(f, SubSeq(r.data, 1, n)))]
      ELSE [r EXCEPT !.ok = FALSE]

(* The check deserialize makes of a browser frame: kinds 1 to 8, data with *)
(* kind 3 (DATA) only, stream 0 for a reset of all, and an offset only     *)
(* where there is something to count.                                      *)
ValidBrowser(stream, kind, offset, data) ==
    /\ kind \in 1..8
    /\ (kind = 3) <=> (data # <<>>)
    /\ stream = 0 => kind = 6 /\ offset = 0
    /\ kind \in {1, 2, 6, 8} => offset = 0

(* PtyResize takes exactly its four bytes, an empty ShellOpen asks for the *)
(* default shell; other bytes after the last field are ignored.            *)
deserialize(t, payload) ==
    LET data == IF t = "ShellOpen" /\ payload = <<>> THEN <<0>> ELSE payload
        r    == FoldLeft(ReadField, [ok |-> TRUE, data |-> data, fields |-> <<>>], Reads(t))
    IN  [ok |-> /\ r.ok
                /\ t = "PtyResize" => Len(payload) = 4
                /\ t = "Browser" =>
                     ValidBrowser(r.fields[1], r.fields[2], r.fields[3], r.fields[4]),
         fields |-> r.fields]

----------------------------------------------------------------------------
(* A message arrives as it was sent, whatever its numbers and data; a text *)
(* too long for its field arrives cut.                                     *)
Arrives(t, fields) ==
    LET Cut(f, v) == IF f.kind = "string"
                       THEN SubSeq(v, 1, MinOf(MinOf(Len(v), f.size), Radix - 1)) ELSE v
        cut == [i \in DOMAIN fields |-> Cut(Writes(t)[i], fields[i])]
        valid == t = "Browser" => ValidBrowser(fields[1], fields[2], fields[3], fields[4])
        whole == \A i \in DOMAIN fields : Writes(t)[i].kind = "string" => Utf8(cut[i])
    IN  /\ TryFrom(Opcode[t]) = {t}
        /\ valid /\ whole => deserialize(t, serialize(t, fields)) = [ok |-> TRUE, fields |-> cut]

(* Any bytes are read without running past their end, and what is accepted *)
(* can be sent on as it was read.                                          *)
ReadsAgain(t, payload) ==
    LET r == deserialize(t, payload) IN r.ok => Arrives(t, r.fields)
=============================================================================
