------------------------------ MODULE RfcommWin ------------------------------
(***************************************************************************)
(* RFCOMM over Winsock: the host that listens, and the Windows client that *)
(* connects.  The host serves one client per opened transport; a client    *)
(* whose process froze while the radio keeps its link alive must not keep  *)
(* the others out.  The client resolves the channel with a lookup that has *)
(* no timeout: it runs on a thread of its own, one at a time, and may be   *)
(* given up while it still runs.                                           *)
(***************************************************************************)
EXTENDS Naturals, FiniteSets

CONSTANTS
    Clients,        \* client processes in range
    WinClients,     \* those that look the channel up through Winsock
    MaxLookups,     \* lookup threads alive at once: a bound
    MaxRx           \* blocks of bytes waiting in rx: a bound

VARIABLES
    listening,  \* the host's Inner: "none", "open" or "lingering"
    client,     \* Inner.client
    closed,     \* Inner.closed
    backlog,    \* the connection waiting in listen(1)
    rx,         \* blocks the reader thread queued
    rxError,    \* the reader's reason to stop
    silent,     \* CLIENT_IDLE_TAKEOVER has passed since the last byte
    kaWrites,   \* the keepalive thread is inside a write
    heard,      \* clients whose bytes this host session has been given
    cst,        \* Clients -> state of the client's own link
    running,    \* WinClients -> generations of lookup threads that run
    abandoned,  \* WinClients -> those that lost the slot to a later caller
    slot        \* WinClients -> SDP_LOOKUP_BUSY: [gen, old]

vars == <<listening, client, closed, backlog, rx, rxError, silent, kaWrites,
          heard, cst, running, abandoned, slot>>

host    == <<listening, client, closed, backlog, rx, rxError, silent, kaWrites, heard>>
lookups == <<running, abandoned, slot>>

None == "none"
Free == [gen |-> 0, old |-> FALSE]
Gens == 1..MaxLookups

TypeOK ==
    /\ listening \in {"none", "open", "lingering"}
    /\ client \in Clients \cup {None} /\ backlog \in Clients \cup {None}
    /\ rx \in 0..MaxRx /\ heard \subseteq Clients
    /\ cst \in [Clients -> {"away", "looking", "found", "knocking", "on", "frozen"}]

Init ==
    /\ listening = "open" /\ client = None /\ closed = FALSE /\ backlog = None
    /\ rx = 0 /\ rxError = FALSE /\ silent = FALSE /\ kaWrites = FALSE
    /\ heard = {}
    /\ cst = [c \in Clients |-> "away"]
    /\ running = [c \in WinClients |-> {}] /\ abandoned = running
    /\ slot = [c \in WinClients |-> Free]

-----------------------------------------------------------------------------
(* The client's lookup: one slot per process. *)

\* A slot older than SDP_LOOKUP_ABANDON goes to the next caller.
Claimable(c) == slot[c].gen = 0 \/ slot[c].old

claim_sdp_slot(c) ==
    /\ cst[c] = "away" /\ Claimable(c)
    /\ \E g \in Gens \ (running[c] \cup {slot[c].gen}) :
        /\ \A h \in Gens \ (running[c] \cup {slot[c].gen}) : g <= h
        /\ slot' = [slot EXCEPT ![c] = [gen |-> g, old |-> FALSE]]
        /\ running' = [running EXCEPT ![c] = @ \cup {g}]
    /\ abandoned' = [abandoned EXCEPT ![c] = @ \cup (running[c] \cap {slot[c].gen})]
    /\ cst' = [cst EXCEPT ![c] = "looking"]
    /\ UNCHANGED host

SlotAges(c) ==
    /\ slot[c].gen # 0 /\ ~slot[c].old
    /\ slot' = [slot EXCEPT ![c].old = TRUE]
    /\ UNCHANGED <<host, cst, running, abandoned>>

(* (mutant) the thread that ends clears the slot, whosever it is. *)
ReleaseAny(c, g) == Free

\* Only the claim that is still its own.
release_sdp_slot(c, g) == IF slot[c].gen = g THEN Free ELSE slot[c]

\* The thread ends; whoever waits for it is the one that holds the slot and
\* has not run out of time.
LookupEnds(c, g) ==
    /\ g \in running[c]
    /\ running' = [running EXCEPT ![c] = @ \ {g}]
    /\ abandoned' = [abandoned EXCEPT ![c] = @ \ {g}]
    /\ slot' = [slot EXCEPT ![c] = release_sdp_slot(c, g)]
    /\ cst' = (IF cst[c] = "looking" /\ slot[c].gen = g
               THEN [cst EXCEPT ![c] = IF listening = "open" THEN "found" ELSE "away"]
               ELSE cst)
    /\ UNCHANGED host

\* The connect budget is used up before the lookup answers.
LookupGivenUp(c) ==
    /\ cst[c] = "looking"
    /\ cst' = [cst EXCEPT ![c] = "away"]
    /\ UNCHANGED <<host, lookups>>

-----------------------------------------------------------------------------
(* The client's socket. *)

Reached(c) == cst[c] = IF c \in WinClients THEN "found" ELSE "away"

\* connect(): into the backlog of one, or refused.
Connect(c) ==
    /\ Reached(c)
    /\ \/ /\ listening \in {"open", "lingering"} /\ backlog = None
          /\ backlog' = c /\ cst' = [cst EXCEPT ![c] = "knocking"]
       \/ /\ listening = "none" \/ backlog # None
          /\ backlog' = backlog /\ cst' = [cst EXCEPT ![c] = "away"]
    /\ UNCHANGED <<listening, client, closed, rx, rxError, silent, kaWrites,
                   heard, lookups>>

\* reader_loop: a block of bytes, read by the host's thread.
ClientSends(c) ==
    /\ cst[c] = "on" /\ client = c /\ rx < MaxRx
    /\ rx' = rx + 1 /\ silent' = FALSE
    /\ UNCHANGED <<listening, client, closed, backlog, rxError, kaWrites, heard,
                   cst, lookups>>

\* The client closes: the read returns 0 and the reader stops.
ClientLeaves(c) ==
    /\ cst[c] = "on" /\ client = c
    /\ cst' = [cst EXCEPT ![c] = "away"] /\ rxError' = TRUE
    /\ UNCHANGED <<listening, client, closed, backlog, rx, silent, kaWrites,
                   heard, lookups>>

\* The process stops; its radio keeps the link.
ClientFreezes(c) ==
    /\ cst[c] = "on" /\ client = c
    /\ cst' = [cst EXCEPT ![c] = "frozen"]
    /\ UNCHANGED <<host, lookups>>

-----------------------------------------------------------------------------
(* The host. *)

Silence ==
    /\ client # None /\ ~silent
    /\ cst[client] # "on" \/ rx = 0
    /\ silent' = TRUE
    /\ UNCHANGED <<listening, client, closed, backlog, rx, rxError, kaWrites,
                   heard, cst, lookups>>

\* try_accept, then set_client: what an earlier client left is cleared.
Accept ==
    /\ listening = "open" /\ client = None /\ ~closed /\ backlog # None
    /\ client' = backlog /\ backlog' = None
    /\ rx' = 0 /\ rxError' = FALSE /\ silent' = FALSE /\ closed' = FALSE
    /\ cst' = [cst EXCEPT ![backlog] = "on"]
    /\ UNCHANGED <<listening, kaWrites, heard, lookups>>

\* A session over this transport has had the bytes of these clients.
Feed ==
    /\ listening = "open" /\ client # None /\ rx > 0
    /\ heard' = heard \cup {client} /\ rx' = 0
    /\ UNCHANGED <<listening, client, closed, backlog, rxError, silent, kaWrites,
                   cst, lookups>>

Cut(st, c) == IF c = None THEN st ELSE [st EXCEPT ![c] = "away"]

(* (mutant) the client is released for the next one to be accepted. *)
ReleaseClient ==
    /\ client' = None /\ closed' = closed
    /\ cst' = Cut(cst, client)

\* The socket is shut down and the link flagged: this Inner accepts nobody
\* else, the host opens another one.
drop_client ==
    /\ client' = None /\ closed' = TRUE
    /\ cst' = Cut(cst, client)

\* The queue is empty and the reader has stopped.
Disconnected ==
    /\ listening = "open" /\ client # None /\ rx = 0 /\ rxError
    /\ drop_client
    /\ rxError' = FALSE
    /\ UNCHANGED <<listening, backlog, rx, silent, kaWrites, heard, lookups>>

(* (mutant) a silent client is waited for. *)
NeverSuperseded == FALSE

Superseded == silent /\ backlog # None

\* A silent client and a newcomer: the newcomer is accepted and dropped,
\* it will come back to the next listener.
superseded_by_new_client ==
    /\ listening = "open" /\ client # None /\ Superseded
    /\ client' = None /\ closed' = TRUE
    /\ backlog' = None
    /\ cst' = Cut(Cut(cst, client), backlog)
    /\ UNCHANGED <<listening, rx, rxError, silent, kaWrites, heard, lookups>>

\* A write to a frozen client blocks until WRITE_TIMEOUT, then sets closed.
\* recv does not look at closed while a client is there.
KeepaliveWrites ==
    /\ listening = "open" /\ client # None /\ ~closed /\ ~kaWrites
    /\ cst[client] = "frozen"
    /\ kaWrites' = TRUE
    /\ UNCHANGED <<listening, client, closed, backlog, rx, rxError, silent,
                   heard, cst, lookups>>

KeepaliveTimesOut ==
    /\ kaWrites
    /\ kaWrites' = FALSE
    /\ closed' = (listening = "open")
    /\ listening' = (IF listening = "lingering" THEN "none" ELSE listening)
    /\ backlog' = (IF listening = "lingering" THEN None ELSE backlog)
    /\ cst' = (IF listening = "lingering" THEN Cut(cst, backlog) ELSE cst)
    /\ UNCHANGED <<client, rx, rxError, silent, heard, lookups>>

\* The session ends and drops the transport.  Inner goes with its last
\* handle, which may be a keepalive inside a write; only then are the
\* listener and the SDP record released.
DropTransport ==
    /\ listening = "open"
    /\ listening' = (IF kaWrites THEN "lingering" ELSE "none")
    /\ backlog' = (IF kaWrites THEN backlog ELSE None)
    /\ cst' = (IF kaWrites THEN Cut(cst, client) ELSE Cut(Cut(cst, client), backlog))
    /\ client' = None /\ closed' = FALSE
    /\ rx' = 0 /\ rxError' = FALSE /\ silent' = FALSE
    /\ heard' = {}
    /\ UNCHANGED <<kaWrites, lookups>>

RecvFails == closed /\ client = None /\ DropTransport

\* A send of the session finds the flag a failed write has set.
SendFails == closed /\ client # None /\ DropTransport

\* bind fails while an earlier Inner holds the channel.
open_listen ==
    /\ listening = "none"
    /\ listening' = "open"
    /\ UNCHANGED <<client, closed, backlog, rx, rxError, silent, kaWrites,
                   heard, cst, lookups>>

-----------------------------------------------------------------------------
Host == Accept \/ Feed \/ Disconnected \/ superseded_by_new_client
        \/ RecvFails \/ open_listen

Next ==
    \/ \E c \in WinClients :
        \/ claim_sdp_slot(c) \/ SlotAges(c) \/ LookupGivenUp(c)
        \/ \E g \in Gens : LookupEnds(c, g)
    \/ \E c \in Clients :
        Connect(c) \/ ClientSends(c) \/ ClientLeaves(c) \/ ClientFreezes(c)
    \/ Silence \/ Host \/ SendFails \/ KeepaliveWrites \/ KeepaliveTimesOut

Spec == Init /\ [][Next]_vars

\* recv is polled, timers run out, and a Mac client knocks again and again;
\* a lookup may hang for good and a client may stay frozen.  Nothing makes the session send.
Fairness ==
    /\ WF_vars(Host) /\ WF_vars(superseded_by_new_client)
    /\ WF_vars(Silence) /\ WF_vars(KeepaliveTimesOut)
    /\ \A c \in Clients \ WinClients : WF_vars(Connect(c))

FairSpec == Spec /\ Fairness

-----------------------------------------------------------------------------
\* Of the lookups that run, at most one has not been given up for dead: an
\* abandoned one that wakes up late does not open the slot of its successor.
OneLookup == \A c \in WinClients : Cardinality(running[c] \ abandoned[c]) <= 1

\* The transport never swaps peers underneath a live session: what a host
\* session is given over one opened transport comes from one client.
PeersNeverSwap == Cardinality(heard) <= 1

\* A client that froze with its link up does not keep a persistent newcomer
\* out for ever.
FrozenClientIsReplaced ==
    \A c \in WinClients : (client = c /\ cst[c] = "frozen") ~> (client # c)
=============================================================================
