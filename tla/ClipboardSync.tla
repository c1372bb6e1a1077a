--------------------------- MODULE ClipboardSync ---------------------------
(* Clipboard synchronisation between the Mac client and the Windows host    *)
(* (apps/wiredesk-client/src/clipboard.rs, the clipboard arms of link.rs,   *)
(* apps/wiredesk-host/src/clipboard.rs and its calls in session.rs).        *)
(*                                                                          *)
(* On the Mac three threads share the state: the poll thread reads the      *)
(* pasteboard and queues an offer with its chunks, the writer thread puts   *)
(* the queue on the wire, the reader thread puts together what the host     *)
(* sends and writes the pasteboard.  The write and the stamp that says      *)
(* "this one is ours" are two steps, so the poll thread can come between.   *)
(* On the host the session thread does everything.                          *)
(*                                                                          *)
(* A payload is [kind, id, n, big]: n chunks of which the last is short, a  *)
(* big one exceeds the cap of its kind.  Payloads with the same id and n    *)
(* are as long as each other, which is what makes a mixture possible.       *)
EXTENDS Naturals, Sequences, FiniteSets, SequencesExt, FiniteSetsExt

CONSTANTS MacItems, WinItems,  \* what the two users may copy
          AtStart,             \* what the clipboards may hold at the start: [mac, win]
          MacSends,            \* kinds the Mac's send_* toggles let through
          Takes,               \* settings of the receive_* toggles: [mac, win], sets of kinds
          TextHistory,         \* texts remembered by the Mac's LastSeen
          MaxMessagesPerPoll,  \* outbox messages the host sends in a tick
          MaxCopies,           \* bounds of a run: what the users copy
          MaxTroubles          \* and how much goes wrong altogether

\* What is copied has bytes: an empty text is not sent, a file carries its
\* header and an image is a PNG.
Payload == [kind : {"text", "image", "file"}, id : Nat, n : Nat \ {0}, big : {"yes", "no"}]

ASSUME ItemsAssumption ==
  /\ MacItems \subseteq Payload /\ WinItems \subseteq Payload
  /\ AtStart.mac \subseteq Payload /\ AtStart.win \subseteq Payload

ASSUME BatchAssumption == MaxMessagesPerPoll \in Nat

VARIABLES
  mac,     \* os: the pasteboard, new: changed since the last file probe, by: who wrote it,
           \* seen: LastSeen, pending: the held text, names: recently sent files,
           \* stamp: written by the reader and not yet stamped
  q,       \* outgoing queue of the Mac, which survives a reconnect
  flags,   \* subset of {"outgoing", "incoming"}: the cancel flags
  macIn,   \* IncomingClipboard: the transfer being put together
  win,     \* os, new, last: the one LastKind slot, outbox
  winIn,
  down,    \* frames on the way from the host to the Mac
  link,    \* "up" from the HelloAck on
  takes,   \* the receive_* toggles in force
  used     \* how much of each bound is used up

vars == <<mac, q, flags, macIn, win, winIn, down, link, takes, used>>

None == [kind |-> "none", id |-> 0, n |-> 0, big |-> "no"]
Mixed == [kind |-> "mixed", id |-> 0, n |-> 0, big |-> "no"]

\* Finder adds a copied file's name to the same pasteboard item as a text.
NameOf(f) == [kind |-> "text", id |-> f.id, n |-> 1, big |-> "no"]

OfKind(os, k) == {i \in os : i.kind = k}

(***************************************************************************)
(* Packets                                                                 *)
(***************************************************************************)
Offer(i) == [k |-> "offer", item |-> i, at |-> 0]
Chunk(i, at) == [k |-> "chunk", item |-> i, at |-> at]
Decline(i) == [k |-> "decline", item |-> i, at |-> 0]
Other == [k |-> "other", item |-> None, at |-> 0]

IsClip(p) == p.k \in {"offer", "chunk"}

emit_offer_and_chunks(i) ==
  <<Offer(i)>> \o [at \in 1 .. i.n |-> Chunk(i, at)]

(***************************************************************************)
(* LastSeen: a recency list of texts, one slot each for images and files.  *)
(* A rejected oversize payload has a slot of its own beside them; both are *)
(* consulted together.                                                     *)
(***************************************************************************)
Unseen == [text |-> <<>>, image |-> None, file |-> None,
           bigimage |-> None, bigfile |-> None]

Untouched(s, i) == s

set_text(s, i) ==
  LET rest == SelectSeq(s.text, LAMBDA h : h # i)
      all == <<i>> \o rest
  IN [s EXCEPT !.text = SubSeq(all, 1, Min({Len(all), TextHistory}))]

Stamp(s, i) ==
  CASE i.kind = "text" -> set_text(s, i)
    [] i.kind = "image" -> [s EXCEPT !.image = i]
    [] i.kind = "file" -> [s EXCEPT !.file = i]
    [] OTHER -> s

StampBig(s, i) ==
  IF i.kind = "image" THEN [s EXCEPT !.bigimage = i] ELSE [s EXCEPT !.bigfile = i]

Matches(s, i) ==
  CASE i.kind = "text" -> i \in Range(s.text)
    [] i.kind = "image" -> i \in {s.image, s.bigimage}
    [] i.kind = "file" -> i \in {s.file, s.bigfile}
    [] OTHER -> FALSE

(***************************************************************************)
(* Reassembly, the same on both sides.  count is received_total: a second  *)
(* chunk with the same index replaces the first and is not counted.        *)
(***************************************************************************)
Idle == [want |-> None, got |-> {}, count |-> 0]

Size(i) == 2 * i.n - 1
ChunkSize(p) == IF p.at = p.item.n THEN 1 ELSE 2

OfferKeepsChunks(in, i, allowed) ==
  IF i.kind \in allowed THEN [in EXCEPT !.want = i] ELSE Idle

\* on_offer: a refused kind leaves nothing armed, any other starts over.
on_offer(in, i, allowed) ==
  IF i.kind \in allowed THEN [want |-> i, got |-> {}, count |-> 0] ELSE Idle

HasIndex(in, at) == \E c \in in.got : c.at = at

store(in, p) ==
  [in EXCEPT !.got = {c \in in.got : c.at # p.at} \cup {p},
             !.count = IF HasIndex(in, p.at) THEN @ ELSE @ + ChunkSize(p)]

on_chunk(in, p) == IF in.want = None THEN in ELSE store(in, p)

Full(in) == in.want # None /\ in.count >= Size(in.want)

contiguous(in) == {c.at : c \in in.got} = 1 .. Cardinality(in.got)

exact(in) == MapThenSumSet(ChunkSize, in.got) = Size(in.want)

\* What the bytes of the chunks decode to.  Texts and files accept any bytes
\* of their kind, a PNG has checksums; bytes of another kind do not decode.
JoinOf(from) == IF Cardinality(from) = 1 THEN CHOOSE i \in from : TRUE ELSE Mixed
AllOf(from, k) == \A i \in from : i.kind = k

commit_text(from) == IF AllOf(from, "text") THEN JoinOf(from) ELSE None
commit_file(from) == IF AllOf(from, "file") THEN JoinOf(from) ELSE None
commit_image(from) ==
  IF AllOf(from, "image") /\ Cardinality(from) = 1 THEN JoinOf(from) ELSE None

\* commit: a gap in the indices or a wrong length drops the payload.
commit(in) ==
  LET from == {c.item : c \in in.got} IN
  IF ~ contiguous(in) \/ ~ exact(in) THEN None
  ELSE CASE in.want.kind = "text" -> commit_text(from)
         [] in.want.kind = "image" -> commit_image(from)
         [] in.want.kind = "file" -> commit_file(from)

(***************************************************************************)
(* The Mac's poll thread: one tick probes file, text and image.            *)
(***************************************************************************)
Ready(k) == link = "up" /\ k \in MacSends

NewFile == IF mac.new = "yes" /\ Ready("file")
           THEN {f \in OfKind(mac.os, "file") : ~ Matches(mac.seen, f)} ELSE {}

\* pack_file_or_warn and check_image_size: over the cap, only a toast and a stamp.
TooLarge(i) == i.big = "yes" /\ i.kind # "text"

SentFiles == {f \in NewFile : ~ TooLarge(f)}

NamesNow == mac.names \cup SentFiles

\* recent_file_names_contains: the text is the name of a file just sent.
IsFileName(t) == \E f \in NamesNow : t = NameOf(f)

decide_text_send(t, kicked) ==
  IF Matches(mac.seen, t) THEN "Skip"
  ELSE IF kicked = "yes" \/ mac.pending = t THEN "Send"
  ELSE "Hold"

TextVerdict(t, kicked) ==
  IF IsFileName(t) THEN "Skip" ELSE decide_text_send(t, kicked)

Texts == IF Ready("text") THEN OfKind(mac.os, "text") ELSE {}

NewImage == IF Ready("image")
            THEN {i \in OfKind(mac.os, "image") : ~ Matches(mac.seen, i)} ELSE {}

\* Texts and images are stamped when they are queued, a file is not: the
\* change counter keeps it from being sent twice, and a declined file can be
\* copied again.
AfterProbe(s, sent, over) ==
  LET stamped == FoldSet(LAMBDA x, acc : Stamp(acc, x), s,
                         OfKind(sent, "text") \cup OfKind(sent, "image"))
  IN FoldSet(LAMBDA x, acc : StampBig(acc, x), stamped, over)

\* A pasteboard holds at most one of each kind.
Emitted(items, k) ==
  LET small == {i \in OfKind(items, k) : i.big = "no"}
  IN IF small = {} THEN <<>> ELSE emit_offer_and_chunks(CHOOSE i \in small : TRUE)

ToQueue(items) ==
  Emitted(items, "file") \o Emitted(items, "text") \o Emitted(items, "image")

Poll(kicked) ==
  /\ UNCHANGED <<flags, macIn, win, winIn, down, link, takes, used>>
  /\ \E files \in {NewFile}, images \in {NewImage},
        txt \in {{t \in Texts : TextVerdict(t, kicked) = "Send"}},
        held \in {{t \in Texts : TextVerdict(t, kicked) = "Hold"}} :
       LET over == {i \in files \cup images : TooLarge(i)}
           sent == files \cup txt \cup images
       IN /\ q' = q \o ToQueue(sent)
          /\ mac' = [mac EXCEPT !.new = "no",
                       !.names = NamesNow,
                       !.pending = IF held = {} THEN None ELSE CHOOSE t \in held : TRUE,
                       !.seen = AfterProbe(@, sent \ over, over)]

PollTick == Poll("no")
KickedPoll == Poll("yes")

\* A name stops being remembered some time after the clipboard moved on.
NameLapses ==
  \E f \in mac.names :
    /\ f \notin mac.os
    /\ \A t \in OfKind(mac.os, "text") : t # NameOf(f)
    /\ mac' = [mac EXCEPT !.names = @ \ {f}]
    /\ UNCHANGED <<q, flags, macIn, win, winIn, down, link, takes, used>>

(***************************************************************************)
(* The users                                                               *)
(***************************************************************************)
Spend(what) == used' = [used EXCEPT ![what] = @ + 1]

Troubles == used.faults + used.downs + used.cancelOut + used.cancelIn

\* Every kind of trouble at most once, MaxTroubles in all.
Trouble(what) == used[what] = 0 /\ Troubles < MaxTroubles /\ Spend(what)

MacCopies ==
  \E i \in MacItems :
    /\ used.copies < MaxCopies
    /\ Spend("copies")
    /\ mac' = [mac EXCEPT !.os = {i}, !.new = "yes", !.by = "user"]
    /\ UNCHANGED <<q, flags, macIn, win, winIn, down, link, takes>>

FinderAddsName ==
  \E f \in OfKind(mac.os, "file") :
    /\ mac.os = {f} /\ mac.by = "user"
    /\ mac' = [mac EXCEPT !.os = {f, NameOf(f)}]
    /\ UNCHANGED <<q, flags, macIn, win, winIn, down, link, takes, used>>

\* locked_copy_local_text puts the browser's access key on the pasteboard and
\* stamps it under one lock.
AccessKey == [kind |-> "text", id |-> 0, n |-> 1, big |-> "no"]

CopyLocalText ==
  /\ used.copies < MaxCopies
  /\ Spend("copies")
  /\ mac' = [mac EXCEPT !.os = {AccessKey}, !.new = "yes", !.by = "us",
                      !.seen = Stamp(@, AccessKey)]
  /\ UNCHANGED <<q, flags, macIn, win, winIn, down, link, takes>>

WinCopies ==
  \E i \in WinItems :
    /\ used.copies < MaxCopies
    /\ Spend("copies")
    /\ win' = [win EXCEPT !.os = {i}, !.new = "yes"]
    /\ UNCHANGED <<mac, q, flags, macIn, winIn, down, link, takes>>

\* Cancel in the status bar, for a transfer under way in either direction.
CancelOutgoing ==
  /\ winIn.want # None
  /\ Trouble("cancelOut")
  /\ flags' = flags \cup {"outgoing"}
  /\ UNCHANGED <<mac, q, macIn, win, winIn, down, link, takes>>

CancelIncoming ==
  /\ macIn.want # None
  /\ Trouble("cancelIn")
  /\ flags' = flags \cup {"incoming"}
  /\ UNCHANGED <<mac, q, macIn, win, winIn, down, link, takes>>

\* Mouse and key packets come from other threads, so one may stand between
\* any two packets of a transfer.  It matters only while a cancel is pending.
MacInput ==
  \E at \in 1 .. Len(q) + 1 :
    /\ "outgoing" \in flags
    /\ used.inputs = 0
    /\ Spend("inputs")
    /\ q' = InsertAt(q, at, Other)
    /\ UNCHANGED <<mac, flags, macIn, win, winIn, down, link, takes>>

(***************************************************************************)
(* The Mac's writer thread and what the host does with the packet          *)
(***************************************************************************)
Cancelling == "outgoing" \in flags

WriterDropsCancelled ==
  /\ q # <<>> /\ Cancelling /\ IsClip(Head(q))
  /\ q' = Tail(q)
  /\ UNCHANGED <<mac, flags, macIn, win, winIn, down, link, takes, used>>

\* The first packet that is not clipboard ends the cancelling.
FlagAfter(p) == IF IsClip(p) THEN flags ELSE flags \ {"outgoing"}

\* The host mirrors the client's reassembly; its write and its stamp are one
\* step of the session thread, and a failed write stamps nothing.
HostWrites(x) ==
  \/ win' = [win EXCEPT !.os = {x}, !.new = "yes", !.last = x] /\ UNCHANGED used
  \/ Trouble("faults") /\ UNCHANGED win

HostCommit(in) ==
  LET x == commit(in) IN
  /\ winIn' = Idle
  /\ IF x = None THEN UNCHANGED <<win, used>> ELSE HostWrites(x)

HostOnOffer(i) ==
  /\ winIn' = on_offer(winIn, i, takes.win)
  /\ down' = IF i.kind \in takes.win THEN down ELSE Append(down, Decline(i))

HostOnChunk(p) ==
  LET in == on_chunk(winIn, p) IN
  IF Full(in) THEN HostCommit(in) ELSE winIn' = in /\ UNCHANGED <<win, used>>

cancel_outgoing(w) == [w EXCEPT !.outbox = <<>>]

HostHandles(p) ==
  CASE p.k = "offer" ->
         HostOnOffer(p.item) /\ UNCHANGED <<win, used>>
    [] p.k = "chunk" ->
         HostOnChunk(p) /\ UNCHANGED down
    [] p.k = "decline" ->
         win' = cancel_outgoing(win) /\ UNCHANGED <<winIn, down, used>>
    [] OTHER -> UNCHANGED <<win, winIn, down, used>>

WriterSends ==
  /\ q # <<>> /\ link = "up"
  /\ ~ (Cancelling /\ IsClip(Head(q)))
  /\ q' = Tail(q)
  /\ flags' = FlagAfter(Head(q))
  /\ UNCHANGED <<mac, macIn, link, takes>>
  /\ HostHandles(Head(q))

\* A frame lost to the line, or written while nobody answers.
WriterLoses ==
  /\ q # <<>> /\ ~ (Cancelling /\ IsClip(Head(q)))
  /\ IF link = "up" THEN Trouble("faults") ELSE UNCHANGED used
  /\ q' = Tail(q)
  /\ flags' = FlagAfter(Head(q))
  /\ UNCHANGED <<mac, macIn, win, winIn, down, link, takes>>

WriterIdles ==
  /\ q = <<>> /\ Cancelling
  /\ flags' = flags \ {"outgoing"}
  /\ UNCHANGED <<mac, q, macIn, win, winIn, down, link, takes, used>>

(***************************************************************************)
(* The host's poll: an outbox under way is drained before anything is      *)
(* probed; texts first, then images, then files.                           *)
(***************************************************************************)
Batch(w) == Min({Len(w.outbox), MaxMessagesPerPoll})

Drain(w) ==
  LET n == Batch(w) IN
  /\ down' = down \o SubSeq(w.outbox, 1, n)
  /\ win' = [w EXCEPT !.outbox = SubSeq(@, n + 1, Len(@))]

Enqueue(w, i) == IF i.big = "yes" THEN w ELSE [w EXCEPT !.outbox = emit_offer_and_chunks(i)]

HostProbe ==
  LET text == OfKind(win.os, "text")
      fresh == {i \in text \cup OfKind(win.os, "image") : i # win.last}
      file == IF win.new = "yes" THEN {f \in OfKind(win.os, "file") : f # win.last} ELSE {}
      seq == IF text = {} THEN [win EXCEPT !.new = "no"] ELSE win
  IN IF fresh # {}
     THEN \E i \in fresh : Drain(Enqueue([win EXCEPT !.last = i], i))
     ELSE IF file # {}
     THEN \E f \in file :
            Drain(IF f.big = "yes" THEN [seq EXCEPT !.last = f] ELSE Enqueue(seq, f))
     ELSE win' = seq /\ UNCHANGED down

HostPoll ==
  /\ link = "up"
  /\ UNCHANGED <<mac, q, flags, macIn, winIn, link, takes, used>>
  /\ IF win.outbox # <<>> THEN Drain(win) ELSE HostProbe

(***************************************************************************)
(* The Mac's reader thread                                                 *)
(***************************************************************************)
ReaderCommits(in) ==
  LET x == commit(in) IN
  /\ macIn' = Idle
  /\ IF x = None THEN UNCHANGED <<mac, used>>
     ELSE \/ /\ mac' = [mac EXCEPT !.os = {x}, !.new = "yes", !.by = "us", !.stamp = x]
             /\ UNCHANGED used
          \/ /\ Trouble("faults")
             /\ UNCHANGED mac

ReaderHandles(p) ==
  CASE p.k = "offer" ->
         /\ flags' = flags \ {"incoming"}
         /\ macIn' = on_offer(macIn, p.item, takes.mac)
         /\ q' = IF p.item.kind \in takes.mac THEN q ELSE Append(q, Decline(p.item))
         /\ UNCHANGED <<mac, used>>
    [] p.k = "chunk" ->
         /\ IF "incoming" \in flags THEN macIn' = Idle /\ UNCHANGED <<mac, used>>
            ELSE LET in == on_chunk(macIn, p) IN
                 IF Full(in) THEN ReaderCommits(in)
                 ELSE macIn' = in /\ UNCHANGED <<mac, used>>
         /\ UNCHANGED <<flags, q>>
    [] OTHER ->  \* a decline: the host sends nothing else
         /\ flags' = flags \cup {"outgoing"}
         /\ Spend("cancelOut")
         /\ UNCHANGED <<mac, q, macIn>>

ReaderReceives ==
  /\ down # <<>> /\ mac.stamp = None
  /\ down' = Tail(down)
  /\ UNCHANGED <<win, winIn, link, takes>>
  /\ ReaderHandles(Head(down))

ReaderMisses ==
  /\ down # <<>>
  /\ Trouble("faults")
  /\ down' = Tail(down)
  /\ UNCHANGED <<mac, q, flags, macIn, win, winIn, link, takes>>

Stamped(m) == [m EXCEPT !.stamp = None, !.seen = Stamp(@, m.stamp)]

ReaderStamps ==
  /\ mac.stamp # None
  /\ mac' = Stamped(mac)
  /\ UNCHANGED <<q, flags, macIn, win, winIn, down, link, takes, used>>

(***************************************************************************)
(* Session boundaries: both sides forget what they have stamped and what   *)
(* is half received, the host its outbox too; the Mac's queue stays.       *)
(***************************************************************************)
KeepSeen(m) == m
reset_session_state(m) == [m EXCEPT !.seen = Unseen]

ResetHost == win' = [win EXCEPT !.outbox = <<>>, !.last = None] /\ winIn' = Idle

LinkDown ==
  /\ link = "up" /\ mac.stamp = None
  /\ Trouble("downs")
  /\ link' = "down" /\ down' = <<>>
  /\ mac' = reset_session_state(mac) /\ macIn' = Idle
  /\ ResetHost
  /\ UNCHANGED <<q, flags, takes>>

LinkUp ==
  /\ link = "down"
  /\ link' = "up"
  /\ mac' = reset_session_state(mac) /\ macIn' = Idle
  /\ ResetHost
  /\ UNCHANGED <<q, flags, down, takes, used>>

(***************************************************************************)
\* At the start whatever is on the pasteboard is stamped, unless it is over the
\* cap, and the change counter is read; the host does the same.
PreStamp(os) ==
  FoldSet(LAMBDA x, acc : IF TooLarge(x) THEN acc ELSE Stamp(acc, x), Unseen, os)

stamp_initial(os) == IF os = {} THEN None ELSE CHOOSE i \in os : TRUE

Holding(items) == {{}} \cup {{i} : i \in items}

Init ==
  \E m \in Holding(AtStart.mac), w \in Holding(AtStart.win) :
    /\ mac = [os |-> m, new |-> "no", by |-> "user", pending |-> None, names |-> {}, stamp |-> None,
              seen |-> PreStamp(m)]
    /\ q = <<>> /\ flags = {} /\ macIn = Idle
    /\ win = [os |-> w, new |-> "no", last |-> stamp_initial(w), outbox |-> <<>>]
    /\ winIn = Idle /\ down = <<>> /\ link = "down" /\ takes \in Takes
    /\ used = [copies |-> 0, faults |-> 0, downs |-> 0, inputs |-> 0,
               cancelOut |-> 0, cancelIn |-> 0]

Next ==
  \/ PollTick \/ KickedPoll \/ NameLapses
  \/ MacCopies \/ FinderAddsName \/ CopyLocalText \/ WinCopies
  \/ CancelOutgoing \/ CancelIncoming \/ MacInput
  \/ WriterDropsCancelled \/ WriterSends \/ WriterLoses \/ WriterIdles
  \/ HostPoll \/ ReaderReceives \/ ReaderMisses \/ ReaderStamps
  \/ LinkDown \/ LinkUp

Spec == Init /\ [][Next]_vars

\* The threads run and the supervisor keeps reopening the link; nobody has to
\* copy, cancel or lose anything.
Fairness ==
  /\ WF_vars(PollTick)
  /\ WF_vars(WriterDropsCancelled \/ WriterSends \/ WriterIdles)
  /\ WF_vars(HostPoll)
  /\ WF_vars(ReaderReceives \/ ReaderStamps)
  /\ WF_vars(LinkUp)

FairSpec == Spec /\ Fairness

-----------------------------------------------------------------------------
\* Neither clipboard holds bytes of two payloads put together: an offer in the
\* middle of another transfer, one lost frame, a decline, a cancelled
\* reception, a reconnect with packets left in the queue never make reassembly
\* join chunks of two transfers.  The one way to it is a cancelled
\* transmission of the Mac's whose flag another packet clears between two chunks.
WholePayload ==
  /\ Mixed \notin mac.os
  /\ Mixed \in win.os => used.cancelOut > 0 /\ used.inputs > 0

\* The two sides stop: what one writes the other does not send back for ever,
\* although the reader writes the pasteboard before it stamps it and the
\* resets of a reconnect forget every stamp.
TrafficDies == <>[](q = <<>> /\ down = <<>> /\ win.outbox = <<>>)

Disturbed == used.faults > 0 \/ used.cancelOut > 0

Shippable == {i \in MacItems : i.kind \in MacSends \ {"file"} /\ i.big = "no"}

\* A text or an image the Mac holds while the link is down, from before the
\* start or copied since, reaches the host once the link is up, unless
\* something else replaces it (the stamps are dropped at the HelloAck) or the
\* line loses a frame.
HeldShipsOnReconnect ==
  \A i \in Shippable :
    (link = "down" /\ mac.os = {i}) ~> (i \in win.os \/ mac.os # {i} \/ Disturbed)
=============================================================================
