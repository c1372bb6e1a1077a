------------------------------- MODULE BleLink -------------------------------
(***************************************************************************)
(* The BLE transport: a packet is cut into chunks, the chunks are written  *)
(* one by one, and the other end puts them together again by packet id.    *)
(* "up" is the Mac's writes, "down" the host's notifications; they share   *)
(* nothing but the link, so a behaviour follows one of them.  A chunk may  *)
(* be lost: only every AckEvery-th write waits for an answer.              *)
(*                                                                         *)
(* The client's reassembler is made with each connection, the host's lives *)
(* as long as its service, and the client counts its ids from 0 each time. *)
(***************************************************************************)
EXTENDS Naturals, Sequences, FiniteSets

CONSTANTS
    IdSpace,    \* packet ids: u16 in the code
    Labels,     \* packets on their way at once: a bound
    Totals,     \* chunks a packet may be cut into
    AckEvery    \* ACK_EVERY

VARIABLES
    dir,        \* the direction that is followed
    up,         \* the link: the client is connected and has subscribed
    nextId,     \* next_packet_id
    writes,     \* write_counter modulo AckEvery
    out,        \* chunks the running send has not written
    air,        \* the chunk on its way, and whether its write is answered
    slots,      \* packet id -> slot of the reassembler
    failed      \* the packet last completed was reported as an error

vars == <<dir, up, nextId, writes, out, air, slots, failed>>

Ids   == 0..(IdSpace - 1)
Empty == [total |-> 0, chunks |-> <<>>, old |-> FALSE, conn |-> "this"]
NoAir == [pid |-> 0, idx |-> 0, total |-> 0, label |-> 0, acked |-> FALSE]

TypeOK ==
    /\ dir \in {"up", "down"} /\ up \in BOOLEAN
    /\ nextId \in Ids /\ writes \in 0..(AckEvery - 1)
    /\ \A i \in Ids : slots[i].total \in {0} \cup Totals

Init ==
    /\ dir \in {"up", "down"} /\ up = FALSE
    /\ nextId = 0 /\ writes = 0 /\ out = <<>> /\ air = NoAir
    /\ slots = [i \in Ids |-> Empty] /\ failed = FALSE

-----------------------------------------------------------------------------
(* Connecting. *)

FromEarlier(s) == IF s = Empty THEN s ELSE [s EXCEPT !.conn = "earlier"]

\* A new notification pump has a new reassembler; the host's keeps what it
\* holds.
SlotsAtOpen ==
    [i \in Ids |-> IF dir = "down" THEN Empty ELSE FromEarlier(slots[i])]

\* next_packet_id is part of the transport: the client's is new with each
\* open(), the host's lives on.
IdAtOpen == IF dir = "up" THEN 0 ELSE nextId

\* scan_and_connect: the first peripheral that advertises the service is
\* taken, whatever its name, and its TX is subscribed.
open ==
    /\ ~up
    /\ up' = TRUE
    /\ nextId' = IdAtOpen /\ writes' = 0
    /\ slots' = SlotsAtOpen
    /\ UNCHANGED <<dir, out, air, failed>>

\* The radio link goes: a send that runs fails, what is on its way is lost.
LinkLost ==
    /\ up
    /\ up' = FALSE /\ out' = <<>> /\ air' = NoAir /\ failed' = FALSE
    /\ UNCHANGED <<dir, nextId, writes, slots>>

-----------------------------------------------------------------------------
(* Sending. *)

\* Packets that some chunk somewhere belongs to.
InUse ==
    {out[k].label : k \in DOMAIN out} \cup {air.label}
        \cup UNION {{slots[i].chunks[k] : k \in DOMAIN slots[i].chunks} : i \in Ids}

split_packet(pid, label, total) ==
    [k \in 1..total |-> [pid |-> pid, idx |-> k, total |-> total, label |-> label]]

\* 65 536 packets take longer than REASSEMBLY_TIMEOUT: an id is not reused
\* on a connection while its slot is young.
IdIsFree ==
    slots[nextId].total = 0 \/ slots[nextId].old \/ slots[nextId].conn = "earlier"

send ==
    /\ up /\ out = <<>> /\ air = NoAir /\ IdIsFree
    /\ Labels \ InUse # {}
    /\ \E total \in Totals :
        out' = split_packet(nextId, CHOOSE x \in Labels \ InUse : TRUE, total)
    /\ nextId' = (nextId + 1) % IdSpace
    /\ UNCHANGED <<dir, up, writes, air, slots, failed>>

\* The next chunk is on its way.
Launched(answered) ==
    /\ out # <<>> /\ air = NoAir
    /\ air' = [pid |-> Head(out).pid, idx |-> Head(out).idx,
               total |-> Head(out).total, label |-> Head(out).label,
               acked |-> answered]
    /\ out' = Tail(out)
    /\ UNCHANGED <<dir, up, nextId, slots, failed>>

\* The Mac: every AckEvery-th write is WithResponse.
write ==
    /\ dir = "up"
    /\ writes' = (writes + 1) % AckEvery
    /\ Launched(writes' = 0)

\* The host: a window of two notifications, in order.
NotifyValueAsync ==
    /\ dir = "down"
    /\ Launched(FALSE)
    /\ UNCHANGED writes

\* A write without response, or a notification, that is dropped on the way.
ChunkLost ==
    /\ air # NoAir /\ ~air.acked
    /\ air' = NoAir
    /\ UNCHANGED <<dir, up, nextId, writes, out, slots, failed>>

\* SEND_TIMEOUT: the rest of the packet is not sent.
SendTimesOut ==
    /\ out # <<>> \/ air.acked
    /\ out' = <<>> /\ air' = NoAir
    /\ UNCHANGED <<dir, up, nextId, writes, slots, failed>>

-----------------------------------------------------------------------------
(* Putting the chunks together. *)

(* (mutant) slots are never looked through. *)
NeverSwept == slots

sweep_expired == [i \in Ids |-> IF slots[i].old THEN Empty ELSE slots[i]]

Started(c) ==
    [total |-> c.total, chunks |-> [k \in 1..c.total |-> 0], old |-> FALSE, conn |-> "this"]

\* The slot the chunk goes to: a new one, or one whose total it agrees with.
SlotOf(ss, c) == IF ss[c.pid].total = c.total THEN ss[c.pid] ELSE Started(c)

\* A chunk that is there already changes nothing.
Filled(s, c) == IF s.chunks[c.idx] = 0 THEN [s EXCEPT !.chunks[c.idx] = c.label] ELSE s

Complete(s) == \A k \in DOMAIN s.chunks : s.chunks[k] # 0

\* Chunks of two packets fail the COBS decoding or the CRC.
Whole(s) == \A k, m \in DOMAIN s.chunks : s.chunks[k] = s.chunks[m]

feed_chunk ==
    /\ air # NoAir
    /\ LET swept  == sweep_expired
           filled == Filled(SlotOf(swept, air), air)
       IN /\ slots' = [swept EXCEPT ![air.pid] = IF Complete(filled) THEN Empty ELSE filled]
          /\ failed' = (Complete(filled) /\ ~Whole(filled))
    /\ air' = NoAir
    /\ UNCHANGED <<dir, up, nextId, writes, out>>

\* REASSEMBLY_TIMEOUT since the first chunk of the slot.
SlotAges(i) ==
    /\ slots[i].total # 0 /\ ~slots[i].old
    /\ slots' = [slots EXCEPT ![i].old = TRUE]
    /\ UNCHANGED <<dir, up, nextId, writes, out, air, failed>>

-----------------------------------------------------------------------------
Next ==
    \/ open \/ LinkLost
    \/ send \/ write \/ NotifyValueAsync \/ ChunkLost \/ SendTimesOut \/ feed_chunk
    \/ \E i \in Ids : SlotAges(i)

Spec == Init /\ [][Next]_vars

-----------------------------------------------------------------------------
PacketsIn(s) == {s.chunks[k] : k \in DOMAIN s.chunks} \ {0}

\* What the client puts together in one slot comes from one packet of the
\* host, however chunks were lost and the link came and went.
OnePacketPerSlot ==
    dir = "down" => \A i \in Ids : Cardinality(PacketsIn(slots[i])) <= 1 /\ ~failed
=============================================================================
