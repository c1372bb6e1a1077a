---------------------------- MODULE FrameReader ----------------------------
(***************************************************************************)
(* The reader of stream-shaped links, framing.rs, with the bookkeeping     *)
(* RFCOMM keeps around it (RecvState in rfcomm/common.rs): blocks of bytes *)
(* of any size go in, frames come out, a frame too long is skipped up to   *)
(* the next delimiter and a frame whose tail never comes is given up.      *)
(***************************************************************************)
EXTENDS Naturals, Sequences, SequencesExt, FiniteSets

CONSTANTS
    MaxFrame,       \* MAX_FRAME_SIZE
    MaxTimeouts,    \* MAX_PARTIAL_TIMEOUTS
    Letters,        \* bytes of the stream; 0 is the delimiter
    MaxBytes,       \* bound: bytes on the stream
    MaxBlock        \* bound: bytes one read returns

VARIABLES
    stream,     \* every byte fed and not given up, in order
    partial,    \* FrameReader::partial
    resyncing,  \* FrameReader::resyncing
    ready,      \* FrameReader::ready
    oversize,   \* FrameReader::oversize_dropped
    timeouts,   \* RecvState::partial_timeouts
    out         \* frames next_packet took off the queue

vars == <<stream, partial, resyncing, ready, oversize, timeouts, out>>

Init ==
    /\ stream = <<>> /\ partial = <<>> /\ resyncing = FALSE /\ ready = <<>>
    /\ oversize = 0 /\ timeouts = 0 /\ out = <<>>

(* A delimiter ends a frame; with nothing before it, it is a keepalive. *)
Delimiter(r) ==
    IF r.partial = <<>> THEN r
    ELSE [r EXCEPT !.ready = Append(@, Append(r.partial, 0)), !.partial = <<>>]

TooLongByOne(p) == Len(p) >= MaxFrame

TooLong(p) == Len(p) > MaxFrame

(* One byte of feed. *)
FeedByte(r, b) ==
    CASE r.resyncing -> IF b = 0 THEN [r EXCEPT !.resyncing = FALSE] ELSE r
      [] ~r.resyncing /\ b = 0 -> Delimiter(r)
      [] ~r.resyncing /\ b # 0 /\ TooLong(Append(r.partial, b)) ->
           [r EXCEPT !.partial = <<>>, !.resyncing = TRUE, !.oversize = @ + 1]
      [] OTHER -> [r EXCEPT !.partial = Append(@, b)]

feed(block) ==
    LET r == FoldLeft(FeedByte, [partial |-> partial, resyncing |-> resyncing,
                                 ready |-> ready, oversize |-> oversize], block)
    IN  /\ Len(stream) + Len(block) <= MaxBytes
        /\ stream' = stream \o block
        /\ partial' = r.partial /\ resyncing' = r.resyncing
        /\ ready' = r.ready /\ oversize' = r.oversize
        /\ UNCHANGED <<timeouts, out>>

(* next_packet: an oversize frame is reported first; a frame that does not *)
(* decode is taken off too, and only a packet resets the timeouts.         *)
ReportOversize ==
    /\ oversize > 0
    /\ oversize' = 0
    /\ UNCHANGED <<stream, partial, resyncing, ready, timeouts, out>>

next_packet ==
    /\ oversize = 0 /\ ready # <<>>
    /\ out' = Append(out, Head(ready)) /\ ready' = Tail(ready)
    /\ timeouts' \in {0, timeouts}
    /\ UNCHANGED <<stream, partial, resyncing, oversize>>

(* on_timeout: a half frame is given up after enough of them. *)
on_timeout ==
    /\ ready = <<>> /\ oversize = 0 /\ partial # <<>>
    /\ IF timeouts + 1 > MaxTimeouts
         THEN /\ partial' = <<>> /\ timeouts' = 0
              /\ stream' = SubSeq(stream, 1, Len(stream) - Len(partial))
         ELSE timeouts' = timeouts + 1 /\ UNCHANGED <<partial, stream>>
    /\ UNCHANGED <<resyncing, ready, oversize, out>>

Blocks == UNION {[1..n -> Letters] : n \in 1..MaxBlock}

Next ==
    \/ \E block \in Blocks : feed(block)
    \/ ReportOversize \/ next_packet \/ on_timeout

Spec == Init /\ [][Next]_vars

----------------------------------------------------------------------------
(* What a stream holds, read as a whole: the runs of bytes between two     *)
(* delimiters that are neither empty nor too long.                         *)

(* The last delimiter before position i; 0, the front, if there is none.   *)
Behind(s, i) == Max({0} \cup {j \in 1..(i - 1) : s[j] = 0})

FrameAt(s, i) == SubSeq(s, Behind(s, i) + 1, i)

Ends(s) == {i \in DOMAIN s : s[i] = 0 /\ i - Behind(s, i) \in 2..(MaxFrame + 1)}

(* The frames are those that end in s, the k-th the one with the k-th end. *)
AreFramesOf(all, s) ==
    /\ Len(all) = Cardinality(Ends(s))
    /\ \A i \in Ends(s) : all[Cardinality({j \in Ends(s) : j <= i})] = FrameAt(s, i)

(* However the stream was cut into reads, whatever timed out and was given *)
(* up between them, the frames handed out and still queued are the ones    *)
(* the stream holds, all of them and in order: a frame too long takes      *)
(* nothing of the next one with it.                                        *)
FramesOfTheStream == AreFramesOf(out \o ready, stream)
=============================================================================
