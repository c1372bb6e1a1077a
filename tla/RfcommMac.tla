------------------------------ MODULE RfcommMac ------------------------------
(***************************************************************************)
(* The macOS end of the RFCOMM link: finding the host among the paired     *)
(* devices, and the life of the channel that is found.                     *)
(*                                                                         *)
(* IOBluetooth delivers completions on the main run loop, whenever it      *)
(* likes, to a delegate it does not retain.  The opening thread gives up   *)
(* on a query after its budget and goes on to the next device, so a        *)
(* delegate must be kept for the completions it is still owed.  A blocked  *)
(* writeSync has no timeout: a watchdog closes the channel under it.       *)
(***************************************************************************)
EXTENDS Naturals, Sequences, SequencesExt, FiniteSets, FiniteSetsExt

CONSTANTS
    Paired,         \* number of paired devices, computers first
    Host,           \* the one that runs the host, in 1..Paired
    MaxDelegates,   \* delegates alive at once: a bound
    ConnectTicks,   \* connect_timeout_secs
    SdpMin, SdpMax, \* SDP_QUERY_MIN and SDP_QUERY_BUDGET
    FrameChunks     \* MTU-sized chunks of one frame

VARIABLES
    cfg,        \* [fixed, addr]: channel # 0; peer_address, 0 when empty
    auth,       \* the Bluetooth privacy grant
    asked,      \* PERMISSION_REQUESTED
    hostUp,     \* the host listens and answers
    rotation,   \* DISCOVERY_ROTATION modulo the number of candidates
    at,         \* where the opening thread is
    queue,      \* candidates this open() has not tried
    left,       \* time left of connect_timeout_secs
    budget,     \* sdp_budget of the query that runs
    cur,        \* the delegate of this attempt, or of the open channel
    del,        \* Delegates -> Shared, with who holds the delegate
    cb,         \* the completion the main loop is running
    chan,       \* the channel: "none", "half", "open" or "closed"
    peerReads,  \* the host still grants credits
    writer,     \* "send" and "keepalive" -> what it is doing
    lock,       \* write_lock: its holder
    overdue,    \* write_deadline has passed
    watchdog,   \* the write watchdog runs
    keepalive   \* the keepalive thread runs

vars == <<cfg, auth, asked, hostUp, rotation, at, queue, left, budget, cur,
          del, cb, chan, peerReads, writer, lock, overdue, watchdog, keepalive>>

opening == <<rotation, queue, left, budget>>
link    == <<chan, peerReads, writer, lock, overdue, watchdog, keepalive>>
grant   == <<cfg, auth, asked, hostUp>>

Writers   == {"send", "keepalive"}
Delegates == 1..MaxDelegates
None      == 0
NoCall  == [d |-> None]
Quiet   == [w \in Writers |-> [at |-> "idle", chunks |-> 0]]

\* pending is what the code counts; owed is what IOBluetooth will deliver.
Fresh == [pending |-> 0, owed |-> {}, sdp |-> "none", open |-> "none",
          closed |-> FALSE, holders |-> {}]

\* A device that runs the host answers in time; any other may not.
Answers(dev) == dev = Host /\ hostUp

TypeOK ==
    /\ at \in {"idle", "next", "sdp", "open", "linked", "dropping"}
    /\ left \in 0..ConnectTicks
    /\ \A d \in Delegates :
        /\ del[d].owed \subseteq {"sdp", "open"}
        /\ del[d].holders \subseteq {"opener", "parked", "callback", "link"}

-----------------------------------------------------------------------------
(* Permission and the list of candidates. *)

candidate_devices ==
    IF cfg.addr # 0 THEN <<cfg.addr>> ELSE [i \in 1..Paired |-> i]

RotateLeft(s, n) == [i \in 1..Len(s) |-> s[((i - 1 + n) % Len(s)) + 1]]

(* (mutant) every walk starts at the head of the list. *)
HeadFirst == 0

Start == IF cfg.addr = 0 /\ Paired > 1 THEN rotation ELSE 0

Init ==
    /\ cfg \in [fixed : BOOLEAN, addr : {0, Host}]
    /\ auth \in {"undetermined", "allowed"} /\ asked = FALSE
    /\ hostUp \in BOOLEAN
    /\ rotation = 0 /\ at = "idle" /\ queue = <<>> /\ left = 0 /\ budget = 0
    /\ cur = None /\ cb = NoCall
    /\ del = [d \in Delegates |-> Fresh]
    /\ chan = "none" /\ peerReads = TRUE
    /\ writer = Quiet /\ lock = "free" /\ overdue = FALSE
    /\ watchdog = FALSE /\ keepalive = FALSE

\* Asked once: the manager is leaked, the prompt is the user's to answer.
request_bluetooth_permission ==
    /\ at = "idle" /\ auth = "undetermined" /\ ~asked
    /\ asked' = TRUE
    /\ UNCHANGED <<cfg, auth, hostUp, opening, at, cur, del, cb, link>>

\* In the prompt, or later in the system settings.
UserAnswers ==
    /\ asked /\ auth # "allowed"
    /\ auth' \in {"allowed", "denied"} \ {auth}
    /\ UNCHANGED <<cfg, asked, hostUp, opening, at, cur, del, cb, link>>

HostComesUp ==
    /\ ~hostUp
    /\ hostUp' = TRUE
    /\ UNCHANGED <<cfg, auth, asked, opening, at, cur, del, cb, link>>

\* open() fails at once without the grant; the supervisor retries later.
ensure_bluetooth_authorized == auth = "allowed"

Open ==
    /\ at = "idle" /\ ensure_bluetooth_authorized
    /\ queue' = RotateLeft(candidate_devices, Start)
    /\ rotation' = (IF cfg.addr = 0 /\ Paired > 1
                    THEN (rotation + 1) % Paired ELSE rotation)
    /\ left' = ConnectTicks /\ at' = "next"
    /\ UNCHANGED <<grant, budget, cur, del, cb, link>>

-----------------------------------------------------------------------------
(* One candidate after the other. *)

sdp_budget ==
    LET share == left \div Len(queue)
    IN IF share < SdpMin THEN SdpMin ELSE IF share > SdpMax THEN SdpMax ELSE share

\* Nobody holds it, or only the list that drops it at its next insert: an
\* id that is owed nothing is used again.
Released(ds) ==
    [d \in Delegates |->
        IF /\ ds[d].owed = {} /\ ds[d].pending = 0
           /\ ds[d].holders \subseteq {"parked"}
        THEN Fresh ELSE ds[d]]

Without(d, who) == [del[d] EXCEPT !.holders = @ \ {who}]

(* (mutant) a failed attempt lets its delegate go. *)
JustDrop(d, channel) ==
    Released([del EXCEPT ![d] = Without(d, "opener")])

\* A delegate that is owed nothing and has no channel is simply dropped; any
\* other is kept, and those kept before are looked through.  Nobody reads
\* the statuses of a kept one again.
Park(d, channel) ==
    LET drop  == del[d].pending = 0 /\ ~channel
        Kept(e) == del[e].pending > 0
    IN Released([e \in Delegates |->
            CASE e = d /\ drop -> Without(e, "opener")
              [] e = d /\ ~drop -> [Without(e, "opener")
                            EXCEPT !.holders = @ \cup {"parked"},
                                   !.sdp = "none", !.open = "none",
                                   !.closed = FALSE]
              [] e # d /\ (drop \/ Kept(e)) -> del[e]
              [] OTHER -> Without(e, "parked")])

\* The walk is over: no candidate or no time left.
OpenFails ==
    /\ at = "next" /\ (queue = <<>> \/ left = 0)
    /\ at' = "idle" /\ queue' = <<>> /\ left' = 0 /\ budget' = 0
    /\ UNCHANGED <<grant, rotation, cur, del, cb, link>>

\* pending goes up before the call, and down again when it is refused.
Issued(d, op) ==
    [del EXCEPT ![d].pending = @ + 1, ![d].owed = @ \cup {op},
                ![d].holders = @ \cup {"opener"}]

Free == {d \in Delegates : del[d] = Fresh}

performSDPQuery ==
    /\ at = "next" /\ queue # <<>> /\ left > 0 /\ ~cfg.fixed
    /\ Free # {}
    /\ budget' = sdp_budget
    /\ LET d == CHOOSE e \in Free : TRUE IN
        /\ cur' = d
        /\ del' = Issued(d, "sdp")
    /\ at' = "sdp"
    /\ UNCHANGED <<grant, rotation, queue, left, cb, link>>

\* The query is refused outright: nothing is owed to the delegate.
SdpRefused ==
    /\ at = "next" /\ queue # <<>> /\ left > 0 /\ ~cfg.fixed
    /\ ~Answers(Head(queue))
    /\ queue' = Tail(queue)
    /\ UNCHANGED <<grant, rotation, at, left, budget, cur, del, cb, link>>

MinOf(a, b) == IF a < b THEN a ELSE b

SdpTimesOut ==
    /\ at = "sdp" /\ del[cur].sdp = "none"
    /\ ~Answers(Head(queue))
    /\ left' = left - MinOf(left, budget)
    /\ queue' = Tail(queue)
    /\ del' = Park(cur, FALSE)
    /\ cur' = None /\ at' = "next" /\ budget' = 0
    /\ UNCHANGED <<grant, rotation, cb, link>>

\* The query failed, or the record does not name our service.
SdpUseless ==
    /\ at = "sdp" /\ del[cur].sdp # "none"
    /\ del[cur].sdp = "failed" \/ Head(queue) # Host
    /\ queue' = Tail(queue)
    /\ del' = Park(cur, FALSE)
    /\ cur' = None /\ at' = "next" /\ budget' = 0
    /\ UNCHANGED <<grant, rotation, left, cb, link>>

\* With a fixed channel there is no query: the delegate is made here.
openRFCOMMChannelAsync ==
    /\ \/ at = "sdp" /\ del[cur].sdp = "ok" /\ Head(queue) = Host
          /\ cur' = cur
       \/ at = "next" /\ queue # <<>> /\ left > 0 /\ cfg.fixed
          /\ Free # {} /\ cur' = CHOOSE e \in Free : TRUE
    /\ del' = Issued(cur', "open")
    /\ at' = "open" /\ chan' = "half" /\ budget' = 0
    /\ UNCHANGED <<grant, rotation, queue, left, cb, peerReads, writer, lock, overdue,
                   watchdog, keepalive>>

\* Refused: the call may have handed out a channel object, which is kept.
OpenRefused ==
    /\ at = "sdp" /\ del[cur].sdp = "ok" /\ Head(queue) = Host
    /\ ~hostUp
    /\ queue' = Tail(queue)
    /\ \E channel \in BOOLEAN : del' = Park(cur, channel)
    /\ cur' = None /\ at' = "next" /\ budget' = 0
    /\ UNCHANGED <<grant, rotation, left, cb, link>>

\* No answer by the deadline of the whole open(): the half-open channel is
\* closed and kept with its delegate.
OpenTimesOut ==
    /\ at = "open" /\ del[cur].open = "none" /\ ~del[cur].closed
    /\ ~Answers(Head(queue))
    /\ left' = 0 /\ queue' = Tail(queue)
    /\ del' = Park(cur, TRUE)
    /\ cur' = None /\ at' = "next" /\ chan' = "none"
    /\ UNCHANGED <<grant, rotation, budget, cb, peerReads, writer, lock,
                   overdue, watchdog, keepalive>>

\* Completed with an error, or closed before it completed.
OpenUseless ==
    /\ at = "open"
    /\ del[cur].open = "failed" \/ (del[cur].closed /\ del[cur].open = "none")
    /\ queue' = Tail(queue)
    /\ del' = Park(cur, TRUE)
    /\ cur' = None /\ at' = "next" /\ chan' = "none"
    /\ UNCHANGED <<grant, rotation, left, budget, cb, peerReads, writer, lock,
                   overdue, watchdog, keepalive>>

Connected ==
    /\ at = "open" /\ del[cur].open = "ok"
    /\ del' = [del EXCEPT ![cur].holders = (@ \ {"opener"}) \cup {"link"},
                          ![cur].sdp = "none", ![cur].open = "none"]
    /\ at' = "linked" /\ chan' = (IF del[cur].closed THEN "closed" ELSE "open")
    /\ queue' = <<>> /\ left' = 0 /\ budget' = 0
    /\ peerReads' = TRUE
    /\ watchdog' = TRUE /\ keepalive' = TRUE
    /\ UNCHANGED <<grant, rotation, cur, cb, writer, lock, overdue>>

-----------------------------------------------------------------------------
(* The main loop: completions and channel events. *)

\* The callback retains the delegate first.
CallbackEnters(d, op) ==
    /\ cb = NoCall /\ op \in del[d].owed
    /\ \E status \in IF d = cur /\ at \in {"sdp", "open"} /\ Answers(Head(queue))
                     THEN {"ok"} ELSE IF d = cur THEN {"ok", "failed"} ELSE {"late"} :
        cb' = [d |-> d, op |-> op, status |-> status, at |-> "entered"]
    /\ del' = [del EXCEPT ![d].owed = @ \ {op}, ![d].holders = @ \cup {"callback"}]
    /\ UNCHANGED <<grant, opening, at, cur, link>>

\* The status is stored and signalled before pending goes down.
CallbackStores ==
    /\ cb # NoCall /\ cb.at = "entered"
    /\ cb' = [cb EXCEPT !.at = "stored"]
    /\ del' = (CASE cb.d # cur -> del
                 [] cb.d = cur /\ cb.op = "sdp" -> [del EXCEPT ![cb.d].sdp = cb.status]
                 [] OTHER -> [del EXCEPT ![cb.d].open = cb.status])
    /\ UNCHANGED <<grant, opening, at, cur, link>>

CallbackCounts ==
    /\ cb # NoCall /\ cb.at = "stored"
    /\ cb' = [cb EXCEPT !.at = "counted"]
    /\ del' = [del EXCEPT ![cb.d].pending = @ - 1]
    /\ UNCHANGED <<grant, opening, at, cur, link>>

CallbackReturns ==
    /\ cb # NoCall /\ cb.at = "counted"
    /\ cb' = NoCall
    /\ del' = Released([del EXCEPT ![cb.d].holders = @ \ {"callback"}])
    /\ UNCHANGED <<grant, opening, at, cur, link>>

\* The peer hung up, or the radio is off.
rfcommChannelClosed ==
    /\ cb = NoCall
    /\ chan \in {"half", "open"} /\ ~(at = "open" /\ Answers(Head(queue)))
    /\ cur # None
    /\ del' = [del EXCEPT ![cur].closed = TRUE]
    /\ chan' = "closed"
    /\ UNCHANGED <<grant, opening, at, cur, cb, peerReads, writer, lock,
                   overdue, watchdog, keepalive>>

-----------------------------------------------------------------------------
(* Writing: send and the idle keepalive share one lock. *)

closed == del[cur].closed

\* The closed flag is looked at before the lock is taken.
WriteBegins(w) ==
    /\ at = "linked" /\ ~closed /\ writer[w].at = "idle"
    /\ w = "keepalive" => keepalive
    /\ writer' = [writer EXCEPT ![w] =
            [at |-> "wants", chunks |-> IF w = "send" THEN FrameChunks ELSE 1]]
    /\ UNCHANGED <<grant, opening, at, cur, del, cb, chan, peerReads, lock,
                   overdue, watchdog, keepalive>>

WriteLocks(w) ==
    /\ writer[w].at = "wants" /\ lock = "free"
    /\ lock' = w /\ overdue' = FALSE
    /\ writer' = [writer EXCEPT ![w].at = "writing"]
    /\ UNCHANGED <<grant, opening, at, cur, del, cb, chan, peerReads,
                   watchdog, keepalive>>

\* A failed keepalive ends its thread.
WriteEnds(w, ok) ==
    /\ lock' = "free" /\ overdue' = FALSE
    /\ writer' = [writer EXCEPT ![w] = [at |-> "idle", chunks |-> 0]]
    /\ keepalive' = (keepalive /\ (w = "send" \/ ok))

\* writeSync of one chunk returns: it went out, or the channel is closed.
\* Each chunk arms the deadline anew.
WriteReturns(w) ==
    /\ writer[w].at = "writing"
    /\ \/ chan = "open" /\ peerReads /\ writer[w].chunks > 1
          /\ writer' = [writer EXCEPT ![w].chunks = @ - 1]
          /\ overdue' = FALSE /\ UNCHANGED <<lock, keepalive>>
       \/ chan = "open" /\ peerReads /\ writer[w].chunks = 1
          /\ WriteEnds(w, TRUE)
       \/ chan # "open" /\ WriteEnds(w, FALSE)
    /\ UNCHANGED <<grant, opening, at, cur, del, cb, chan, peerReads, watchdog>>

\* A host that stops reading starves the credits.
PeerStopsReading ==
    /\ at = "linked" /\ peerReads
    /\ peerReads' = FALSE
    /\ UNCHANGED <<grant, opening, at, cur, del, cb, chan, writer, lock,
                   overdue, watchdog, keepalive>>

DeadlinePasses ==
    /\ lock # "free" /\ ~overdue /\ chan = "open" /\ ~peerReads
    /\ overdue' = TRUE
    /\ UNCHANGED <<grant, opening, at, cur, del, cb, chan, peerReads, writer,
                   lock, watchdog, keepalive>>

(* (mutant) the flag alone, in the hope that the writer sees it. *)
FlagOnly ==
    /\ watchdog /\ overdue
    /\ watchdog' = FALSE
    /\ del' = [del EXCEPT ![cur].closed = TRUE]
    /\ UNCHANGED <<grant, opening, at, cur, cb, chan, peerReads, writer, lock,
                   overdue, keepalive>>

\* The watchdog closes the channel once and ends.
write_watchdog ==
    /\ watchdog /\ overdue
    /\ watchdog' = FALSE
    /\ del' = [del EXCEPT ![cur].closed = TRUE]
    /\ chan' = "closed"
    /\ UNCHANGED <<grant, opening, at, cur, cb, peerReads, writer, lock,
                   overdue, keepalive>>

\* recv looks at the flag with the queue empty, and once more after it has
\* let go of the queue's lock: bytes that came in between are not read.
recv_fails == closed

\* The session drops the owner: the keepalive is stopped and closed is set
\* for the clones.
DropOwner ==
    /\ at = "linked" /\ recv_fails
    /\ at' = "dropping" /\ keepalive' = FALSE
    /\ UNCHANGED <<grant, opening, cur, del, cb, chan, peerReads, writer, lock,
                   overdue, watchdog>>

\* The last handle goes when no write is in flight: Inner::drop closes.
DropInner ==
    /\ at = "dropping" /\ writer = Quiet
    /\ del' = Released([del EXCEPT ![cur].holders = @ \ {"link"}])
    /\ cur' = None /\ at' = "idle" /\ chan' = "none" /\ watchdog' = FALSE
    /\ UNCHANGED <<grant, opening, cb, peerReads, writer, lock, overdue, keepalive>>

-----------------------------------------------------------------------------
Attempt == SdpRefused \/ SdpTimesOut \/ SdpUseless \/ OpenRefused
           \/ OpenTimesOut \/ OpenUseless \/ OpenFails

Next ==
    \/ request_bluetooth_permission \/ UserAnswers \/ HostComesUp
    \/ Open \/ performSDPQuery \/ openRFCOMMChannelAsync \/ Attempt \/ Connected
    \/ \E d \in Delegates, op \in {"sdp", "open"} : CallbackEnters(d, op)
    \/ CallbackStores \/ CallbackCounts \/ CallbackReturns \/ rfcommChannelClosed
    \/ \E w \in Writers : WriteBegins(w) \/ WriteLocks(w) \/ WriteReturns(w)
    \/ PeerStopsReading \/ DeadlinePasses \/ write_watchdog
    \/ DropOwner \/ DropInner

Spec == Init /\ [][Next]_vars

\* The supervisor retries open() for ever, the threads run, time passes and
\* the main loop is pumped.
Fairness ==
    /\ WF_vars(Open) /\ WF_vars(performSDPQuery) /\ WF_vars(openRFCOMMChannelAsync)
    /\ WF_vars(Attempt) /\ WF_vars(Connected)
    /\ \A d \in Delegates, op \in {"sdp", "open"} : WF_vars(CallbackEnters(d, op))
    /\ WF_vars(CallbackStores) /\ WF_vars(CallbackCounts)
    /\ WF_vars(CallbackReturns)
    /\ \A w \in Writers : WF_vars(WriteLocks(w)) /\ WF_vars(WriteReturns(w))
    /\ WF_vars(DeadlinePasses) /\ WF_vars(write_watchdog)
    /\ WF_vars(DropOwner) /\ WF_vars(DropInner)

FairSpec == Spec /\ Fairness

-----------------------------------------------------------------------------
\* IOBluetooth holds the delegate unretained: as long as a completion is
\* owed to it, or one is running in it, somebody of ours keeps it alive,
\* whatever timed out and whichever attempt looked through the kept ones.
DelegateOutlivesItsCompletions ==
    /\ \A d \in Delegates : del[d].owed # {} => del[d].holders # {}
    /\ cb # NoCall => del[cb.d].holders # {}

\* A write that found no credits does not hold the lock for ever: the
\* watchdog closes the channel and the call returns.
StuckWriteIsBroken == (lock # "free") ~> (lock = "free")

\* Once the host is up and Bluetooth allowed, some open() gets through to
\* it, whichever paired devices in front of it are dead.
HostIsReached ==
    (hostUp /\ auth = "allowed") ~> (at = "linked")
=============================================================================
