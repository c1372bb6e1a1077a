---------------------------- MODULE ShellChannel ----------------------------
(***************************************************************************)
(* Who may use the host's shells, and who hears them: the owner lock       *)
(* (shell_channel.rs), the event slots and their routing (exec_bridge.rs), *)
(* the IPC handlers of `wd --exec` and of the interactive `wd` (ipc.rs),   *)
(* around a link that goes down and comes back, and the two shell slots of *)
(* the host at its other end.                                              *)
(*                                                                         *)
(* A handler is the thread of one connection.  An event says whose shell   *)
(* it comes from; the code has only the opcode.                            *)
(***************************************************************************)
EXTENDS Naturals, Sequences, FiniteSets, TLC

CONSTANTS
    None,
    Runs,      \* connections of `wd --exec`
    Consoles,  \* connections of the interactive `wd`
    MaxDrops,  \* bound: times the link goes down
    MaxUp,     \* bound: queued packets a console still types behind
    MaxDown    \* bound: events on the line a shell still speaks behind

Handlers == Runs \cup Consoles

\* The symmetry TLC uses: runs are interchangeable.
Alike == Permutations(Runs)

ASSUME HandlersAssumption ==
    /\ Runs \cap Consoles = {}
    /\ None \notin Handlers
    /\ IsFiniteSet(Handlers)
    /\ MaxDrops \in Nat /\ MaxUp \in Nat /\ MaxDown \in Nat

VARIABLES
    refs,        \* ChannelState::exec_refs
    interactive, \* ChannelState::interactive: "free" or "taken"
    inflight,    \* who holds single_inflight
    slot,        \* ShellSlots: the handler whose sender is installed, by kind
    fallback,    \* ShellSlots::legacy_fallback: "on" or "off"
    gate,        \* link_up: "up" or "down"
    info,        \* host_info: the host's generation, or None
    link,        \* how far the link's reader got with a loss or a handshake
    generation,  \* what the connected host announces
    drops,       \* times the link went down
    pc,          \* where each handler is
    dual,        \* what each handler took the host for
    inbox,       \* each handler's private channel
    up,          \* outgoing queue and line to the host
    down,        \* line to the client
    shell,       \* the host's slots: whose shell runs there, whose input waits
    mishap       \* history: the worst that has happened and no property covers

vars == <<refs, interactive, inflight, slot, fallback, gate, info, link,
          generation, drops, pc, dual, inbox, up, down, shell, mishap>>

owner == <<refs, interactive>>

client == <<slot, fallback, gate, info>>

wire == <<link, generation, drops, down, shell>>

Generations == {"dual", "legacy"}

Kinds == {"exec", "pty"}

Claimed == {"queue", "install", "open", "run", "closing", "drain",
            "relay", "unslot", "uninflight", "unclaim"}

Places == {"idle", "host", "done"} \cup Claimed

Op == {"ShellOpen", "ShellOpenPty", "PtyOpen", "ShellInput", "PtyInput",
       "ShellClose", "PtyClose"}

Event == [op : {"Output", "Exit", "Closed", "Error"}, kind : Kinds,
          of : Handlers, done : SUBSET Handlers]

(* A shell: whose open started it, in which dialect, and whose input it    *)
(* has not answered yet.                                                   *)
Shell == [of : Handlers, dialect : {"original", "dedicated"}, typed : SUBSET Handlers]

TypeOK ==
    /\ refs \in 0..Cardinality(Runs)
    /\ interactive \in {"free", "taken"}
    /\ inflight \in Runs \cup {None}
    /\ slot \in [Kinds -> Handlers \cup {None}]
    /\ fallback \in {"on", "off"}
    /\ gate \in {"up", "down"}
    /\ info \in Generations \cup {None}
    /\ link \in {"lost", "cleared", "down", "greeted", "up"}
    /\ generation \in Generations
    /\ drops \in 0..MaxDrops
    /\ pc \in [Handlers -> Places]
    /\ dual \in [Handlers -> {"yes", "no"}]
    /\ inbox \in [Handlers -> Seq(Event)]
    /\ up \in Seq([op : Op, from : Handlers])
    /\ down \in Seq(Event)
    /\ shell \in [Kinds -> Shell \cup {None}]
    /\ mishap \in {"none", "late", "leaked", "mixed"}

Init ==
    /\ refs = 0 /\ interactive = "free" /\ inflight = None
    /\ slot = [k \in Kinds |-> None]
    /\ fallback = "off" /\ gate = "down" /\ info = None
    /\ link = "down" /\ generation \in Generations /\ drops = 0
    /\ pc = [h \in Handlers |-> "idle"]
    /\ dual = [h \in Handlers |-> "no"]
    /\ inbox = [h \in Handlers |-> <<>>]
    /\ up = <<>> /\ down = <<>>
    /\ shell = [k \in Kinds |-> None]
    /\ mishap = "none"

Goes(h, from, to) == pc[h] = from /\ pc' = [pc EXCEPT ![h] = to]

Send(ops, h) == up' = up \o [i \in DOMAIN ops |-> [op |-> ops[i], from |-> h]]

(* A handler takes the host for the wrong generation ("mixed"), leaves a   *)
(* shell open ("leaked") or stops waiting too early ("late").              *)
Happens(what) ==
    mishap' = IF mishap = "mixed" \/ (what = "late" /\ mishap # "none")
              THEN mishap ELSE what

Present == {h \in Handlers : pc[h] \in Claimed}

----------------------------------------------------------------------------
(* The owner lock.                                                         *)

(* The answers of try_acquire. *)
ExecMayEnter(d) == d = "yes" \/ interactive = "free"

ChecksOnlyTheRunner(d) == interactive = "free" /\ (d = "yes" \/ inflight = None)

ConsoleMayEnter(d) == interactive = "free" /\ (d = "yes" \/ refs = 0)

Acquire(h, d) ==
    /\ dual' = [dual EXCEPT ![h] = d]
    /\ IF h \in Runs
       THEN refs' = refs + 1 /\ UNCHANGED interactive
       ELSE interactive' = "taken" /\ UNCHANGED refs
    /\ IF (d = "yes") # (generation = "dual") THEN Happens("mixed") ELSE UNCHANGED mishap

(* host_supports_pty_slot is read once, just before the claim, and kept for *)
(* the whole connection.                                                   *)
HostSupportsPtySlot == IF info = "dual" THEN "yes" ELSE "no"

MayEnter(h, d) == IF h \in Runs THEN ExecMayEnter(d) ELSE ConsoleMayEnter(d)

(* Busy; or admitted; or admitted and the client's socket is gone when the *)
(* exec handler writes its keepalive, which drops the claim again.         *)
Claims(h) ==
    LET d == HostSupportsPtySlot IN
    /\ \/ /\ MayEnter(h, d)
          /\ Goes(h, "host", IF h \in Runs THEN "queue" ELSE "install")
          /\ Acquire(h, d)
       \/ /\ h \in Runs /\ MayEnter(h, d)
          /\ Goes(h, "host", "unclaim")
          /\ Acquire(h, d)
       \/ /\ ~MayEnter(h, d)
          /\ Goes(h, "host", "done")
          /\ UNCHANGED <<owner, dual, mishap>>
    /\ UNCHANGED <<inflight, client, inbox, up, wire>>

LastOneResets(h) ==
    /\ Goes(h, "unclaim", "done")
    /\ dual' = [dual EXCEPT ![h] = "no"]
    /\ IF h \in Runs THEN refs' = 0 /\ UNCHANGED interactive
       ELSE interactive' = "free" /\ UNCHANGED refs
    /\ UNCHANGED <<inflight, client, inbox, up, wire, mishap>>

(* ShellChannelGuard::drop; the handler returns and its locals with it.    *)
DropsClaim(h) ==
    /\ Goes(h, "unclaim", "done")
    /\ dual' = [dual EXCEPT ![h] = "no"]
    /\ IF h \in Runs
       THEN refs' = (IF refs = 0 THEN 0 ELSE refs - 1) /\ UNCHANGED interactive
       ELSE interactive' = "free" /\ UNCHANGED refs
    /\ UNCHANGED <<inflight, client, inbox, up, wire, mishap>>

----------------------------------------------------------------------------
(* The event slots.                                                        *)

SlotOf(h) == IF h \in Consoles /\ dual[h] = "yes" THEN "pty" ELSE "exec"

(* ExecSlotGuard::install puts the sender in, whoever was there before.    *)
Installs(h) ==
    /\ Goes(h, "install", "open")
    /\ slot' = [slot EXCEPT ![SlotOf(h)] = h]
    /\ UNCHANGED <<owner, inflight, fallback, gate, info, dual, inbox, up, wire,
                   mishap>>

(* ExecSlotGuard::drop empties it, whoever is there now; the channel's     *)
(* receiver goes with the handler.                                         *)
ClearsSlot(h) ==
    /\ Goes(h, "unslot", IF h \in Runs THEN "uninflight" ELSE "unclaim")
    /\ slot' = [slot EXCEPT ![SlotOf(h)] = None]
    /\ inbox' = [inbox EXCEPT ![h] = <<>>]
    /\ UNCHANGED <<owner, inflight, fallback, gate, info, dual, up, wire,
                   mishap>>

(* The sender was taken out of the slot and nothing is left in the channel.*)
CutOff(h) == slot[SlotOf(h)] # h /\ inbox[h] = <<>>

OtherKind(k) == IF k = "exec" THEN "pty" ELSE "exec"

AlwaysFallsBack(e) ==
    IF slot[e.kind] # None THEN slot[e.kind] ELSE slot[OtherKind(e.kind)]

(* route: the slot the opcode names, the other one only for an old host.   *)
Route(e) ==
    IF slot[e.kind] # None THEN slot[e.kind]
    ELSE IF fallback = "on" THEN slot[OtherKind(e.kind)] ELSE None

(* What a handler takes note of; the rest it reads and forgets.            *)
Matters(h, e) ==
    \/ e.op = "Exit"
    \/ e.op = "Error" /\ h \in Consoles
    \/ e.op = "Closed" /\ h \in Runs
    \/ e.op = "Output" /\ h \in e.done \cap Runs

ReaderRoutes ==
    /\ link \in {"greeted", "up"}
    /\ down # <<>>
    /\ down' = Tail(down)
    /\ LET h == Route(Head(down)) IN
         inbox' = IF h = None \/ ~Matters(h, Head(down)) THEN inbox
                  ELSE [inbox EXCEPT ![h] = Append(@, Head(down))]
    /\ UNCHANGED <<owner, inflight, client, pc, dual, up, link, generation, drops,
                   shell, mishap>>

----------------------------------------------------------------------------
(* handle_connection: one `wd --exec`.                                     *)

(* The early look at the gate. *)
ExecConnects(h) ==
    /\ Goes(h, "idle", IF gate = "up" THEN "host" ELSE "done")
    /\ UNCHANGED <<owner, inflight, client, dual, inbox, up, wire, mishap>>

RunsSideBySide(h) ==
    /\ Goes(h, "queue", IF gate = "up" THEN "install" ELSE "uninflight")
    /\ inflight' = h
    /\ UNCHANGED <<owner, client, dual, inbox, up, wire, mishap>>

(* The gate is read again: the wait for single_inflight may have outlived  *)
(* the link.                                                               *)
TakesInflight(h) ==
    /\ inflight = None
    /\ Goes(h, "queue", IF gate = "up" THEN "install" ELSE "uninflight")
    /\ inflight' = h
    /\ UNCHANGED <<owner, client, dual, inbox, up, wire, mishap>>

(* ShellOpen, then the drain of what was queued, then the command; without *)
(* a second handle on the socket the handler returns after the ShellOpen.  *)
ExecOpens(h) ==
    /\ \/ /\ Goes(h, "open", "run")
          /\ Send(<<"ShellOpen", "ShellInput">>, h)
          /\ UNCHANGED mishap
       \/ /\ Goes(h, "open", "unslot")
          /\ Send(<<"ShellOpen">>, h)
          /\ Happens("leaked")
    /\ inbox' = [inbox EXCEPT ![h] = <<>>]
    /\ UNCHANGED <<owner, inflight, client, dual, wire>>

(* run_oneshot ends on its own sentinel and on any ShellExit.              *)
EndsRun(h, e) == e.op = "Exit" \/ (e.op = "Output" /\ h \in e.done)

(* The shell is closed as soon as the run is over, however it ended.       *)
ClosesShell(h) == Goes(h, "run", "drain") /\ Send(<<"ShellClose">>, h)

RunTakesEvent(h) ==
    /\ pc[h] = "run" /\ inbox[h] # <<>>
    /\ IF EndsRun(h, Head(inbox[h])) THEN ClosesShell(h) ELSE UNCHANGED <<pc, up>>
    /\ inbox' = [inbox EXCEPT ![h] = Tail(@)]
    /\ UNCHANGED <<owner, inflight, client, dual, wire, mishap>>

(* The run's timeout, or a channel whose sender is gone.                   *)
RunGivesUp(h) ==
    /\ ClosesShell(h)
    /\ UNCHANGED <<owner, inflight, client, dual, inbox, wire, mishap>>

DrainEndsOnOutput(h) ==
    /\ pc[h] = "drain" /\ inbox[h] # <<>>
    /\ pc' = [pc EXCEPT ![h] = "unslot"]
    /\ inbox' = [inbox EXCEPT ![h] = Tail(@)]
    /\ UNCHANGED <<owner, inflight, client, dual, up, wire, mishap>>

(* The post-run drain waits for the end of the shell it closed.            *)
DrainTakesEvent(h) ==
    /\ pc[h] = "drain" /\ inbox[h] # <<>>
    /\ pc' = [pc EXCEPT ![h] =
                IF Head(inbox[h]).op \in {"Closed", "Exit"} THEN "unslot" ELSE "drain"]
    /\ inbox' = [inbox EXCEPT ![h] = Tail(@)]
    /\ UNCHANGED <<owner, inflight, client, dual, up, wire, mishap>>

(* Something of h's shell is still to come, or has come and is not read.   *)
StillToCome(h) ==
    \/ \E i \in DOMAIN up : up[i].from = h
    \/ \E i \in DOMAIN down : down[i].of = h
    \/ \E g \in Handlers : \E i \in DOMAIN inbox[g] : inbox[g][i].of = h
    \/ \E k \in Kinds : shell[k] # None /\ shell[k].of = h

(* Its idle budget or its grace runs out first, or its sender is gone.     *)
DrainGivesUp(h) ==
    /\ Goes(h, "drain", "unslot")
    /\ IF StillToCome(h) THEN Happens("late") ELSE UNCHANGED mishap
    /\ UNCHANGED <<owner, inflight, client, dual, inbox, up, wire>>

(* The guards drop in reverse: slot, single_inflight, claim.               *)
LeavesInflight(h) ==
    /\ Goes(h, "uninflight", "unclaim")
    /\ inflight' = None
    /\ UNCHANGED <<owner, client, dual, inbox, up, wire, mishap>>

ExecHandler(h) ==
    \/ ExecConnects(h) \/ Claims(h) \/ TakesInflight(h)
    \/ Installs(h) \/ ExecOpens(h) \/ RunTakesEvent(h)
    \/ RunGivesUp(h) \/ DrainTakesEvent(h) \/ DrainGivesUp(h)
    \/ ClearsSlot(h) \/ LeavesInflight(h) \/ DropsClaim(h)

----------------------------------------------------------------------------
(* handle_interactive_connection: one console.                             *)

(* The host must be known and the gate up; which host is read after that.  *)
ConsoleConnects(h) ==
    /\ Goes(h, "idle", IF info # None /\ gate = "up" THEN "host" ELSE "done")
    /\ UNCHANGED <<owner, inflight, client, dual, inbox, up, wire, mishap>>

OpenOp(h) == IF dual[h] = "yes" THEN "PtyOpen" ELSE "ShellOpenPty"

TypesOriginal(h) == "ShellInput"

InputOp(h) == IF dual[h] = "yes" THEN "PtyInput" ELSE "ShellInput"

CloseOp(h) == IF dual[h] = "yes" THEN "PtyClose" ELSE "ShellClose"

(* The terminal's Hello is answered from the cache, or does not come; after *)
(* the open the handler may still fail to get a second handle on the pipe. *)
ConsoleOpens(h) ==
    /\ \/ Goes(h, "open", "relay") /\ Send(<<OpenOp(h)>>, h) /\ UNCHANGED mishap
       \/ /\ Goes(h, "open", "unslot") /\ Send(<<OpenOp(h)>>, h)
          /\ Happens("leaked")
       \/ Goes(h, "open", "unslot") /\ UNCHANGED <<up, mishap>>
    /\ UNCHANGED <<owner, inflight, client, dual, inbox, wire>>

(* The socket's reader thread, until the teardown has joined it.           *)
TermTypes(h) ==
    /\ pc[h] \in {"relay", "closing"} /\ Len(up) < MaxUp
    /\ Send(<<InputOp(h)>>, h)
    /\ UNCHANGED <<owner, inflight, client, pc, dual, inbox, wire, mishap>>

(* Output goes to the terminal; an exit and a host error end the session,  *)
(* an acknowledged close does not.                                         *)
RelayTakesEvent(h) ==
    /\ pc[h] = "relay" /\ inbox[h] # <<>>
    /\ pc' = [pc EXCEPT ![h] =
                IF Head(inbox[h]).op \in {"Exit", "Error"} THEN "closing" ELSE "relay"]
    /\ inbox' = [inbox EXCEPT ![h] = Tail(@)]
    /\ UNCHANGED <<owner, inflight, client, dual, up, wire, mishap>>

RelaySeesLinkDown(h) ==
    /\ gate = "down" \/ CutOff(h)
    /\ Goes(h, "relay", "closing")
    /\ UNCHANGED <<owner, inflight, client, dual, inbox, up, wire, mishap>>

TermLeaves(h) ==
    /\ Goes(h, "relay", "closing")
    /\ UNCHANGED <<owner, inflight, client, dual, inbox, up, wire, mishap>>

(* Teardown: the slot this session opened is closed, no answer awaited.    *)
ConsoleCloses(h) ==
    /\ Goes(h, "closing", "unslot")
    /\ Send(<<CloseOp(h)>>, h)
    /\ UNCHANGED <<owner, inflight, client, dual, inbox, wire, mishap>>

ConsoleHandler(h) ==
    \/ ConsoleConnects(h) \/ Claims(h) \/ Installs(h)
    \/ ConsoleOpens(h) \/ TermTypes(h) \/ RelayTakesEvent(h)
    \/ RelaySeesLinkDown(h) \/ TermLeaves(h) \/ ConsoleCloses(h)
    \/ ClearsSlot(h) \/ DropsClaim(h)

----------------------------------------------------------------------------
(* The link, as far as the handlers see it: its reader stores to host_info *)
(* and then to legacy_fallback and link_up, both ways.  What is sent on a  *)
(* link that is not live is lost; the outgoing queue outlives the link.    *)

Live == link \in {"greeted", "up"}

LinkDrops ==
    /\ link = "up" /\ drops < MaxDrops
    /\ link' = "lost" /\ drops' = drops + 1
    /\ down' = <<>>
    /\ UNCHANGED <<owner, inflight, client, pc, dual, inbox, up, generation, shell,
                   mishap>>

ForgetsHost ==
    /\ \/ link = "lost" /\ link' = "cleared" /\ info' = None
          /\ UNCHANGED <<fallback, gate>>
       \/ link = "cleared" /\ link' = "down" /\ fallback' = "off" /\ gate' = "down"
          /\ UNCHANGED info
    /\ UNCHANGED <<owner, inflight, slot, generation, drops, pc, dual, inbox, up,
                   down, shell, mishap>>

(* A Hello finds the host; shells of an earlier session are gone.          *)
HostAnswers ==
    /\ link = "down" /\ link' = "greeted"
    /\ info' = generation
    /\ shell' = [k \in Kinds |-> None]
    /\ UNCHANGED <<owner, inflight, slot, fallback, gate, generation, drops, pc, dual,
                   inbox, up, down, mishap>>

LearnsHost ==
    /\ link = "greeted" /\ link' = "up"
    /\ fallback' = (IF generation = "dual" THEN "off" ELSE "on")
    /\ gate' = "up"
    /\ UNCHANGED <<owner, inflight, slot, info, generation, drops, pc, dual, inbox,
                   up, down, shell, mishap>>

LosesPacket ==
    /\ ~Live /\ up # <<>>
    /\ up' = Tail(up)
    /\ UNCHANGED <<owner, inflight, client, wire, pc, dual, inbox, mishap>>

----------------------------------------------------------------------------
(* The host's side of a connected session.  A host of the older build is   *)
(* this one without the Pty opcodes.                                       *)

LegacyPty == shell["pty"] # None /\ shell["pty"].dialect = "original"

DedicatedPty == shell["pty"] # None /\ shell["pty"].dialect = "dedicated"

(* The slot that the original opcodes address. *)
OriginalTarget ==
    IF shell["exec"] # None THEN {"exec"} ELSE IF LegacyPty THEN {"pty"} ELSE {}

DedicatedTarget == IF DedicatedPty THEN {"pty"} ELSE {}

OpcodeKind(k) == IF k = "pty" /\ DedicatedPty THEN "pty" ELSE "exec"

Says(op, kind, h, done) ==
    down' = Append(down, [op |-> op, kind |-> kind, of |-> h, done |-> done])

(* An open: taken, or refused because the slot is busy or the spawn fails. *)
Opens(h, k, dialect, busy, errorKind) ==
    \/ /\ ~busy
       /\ shell' = [shell EXCEPT ![k] = [of |-> h, dialect |-> dialect, typed |-> {}]]
       /\ UNCHANGED down
    \/ Says("Error", errorKind, h, {}) /\ UNCHANGED shell

HostOpens(m) ==
    \/ m.op = "ShellOpen"
       /\ Opens(m.from, "exec", "original", shell["exec"] # None \/ LegacyPty, "exec")
    \/ m.op = "ShellOpenPty"
       /\ Opens(m.from, "pty", "original", shell["pty"] # None \/ shell["exec"] # None, "exec")
    \/ m.op = "PtyOpen" /\ generation = "dual"
       /\ Opens(m.from, "pty", "dedicated", shell["pty"] # None, "pty")

HostTypes(m) ==
    /\ m.op \in {"ShellInput", "PtyInput"}
    /\ LET target == IF m.op = "ShellInput" THEN OriginalTarget ELSE DedicatedTarget IN
         shell' = [k \in Kinds |->
                    IF k \in target
                    THEN [shell[k] EXCEPT !.typed = @ \cup {m.from}] ELSE shell[k]]
    /\ UNCHANGED down

(* A ShellClose that ends a shell is answered, a PtyClose never.           *)
HostCloses(m) ==
    /\ m.op \in {"ShellClose", "PtyClose"}
    /\ LET target == IF m.op = "ShellClose" THEN OriginalTarget ELSE DedicatedTarget IN
         /\ shell' = [k \in Kinds |-> IF k \in target THEN None ELSE shell[k]]
         /\ IF m.op = "ShellClose" /\ target # {}
            THEN \E k \in target : Says("Closed", "exec", shell[k].of, {})
            ELSE UNCHANGED down

HostIgnores(m) ==
    m.op = "PtyOpen" /\ generation = "legacy" /\ UNCHANGED <<shell, down>>

HostTakesPacket ==
    /\ Live /\ up # <<>>
    /\ up' = Tail(up)
    /\ \/ HostOpens(Head(up)) \/ HostTypes(Head(up)) \/ HostCloses(Head(up))
       \/ HostIgnores(Head(up))
    /\ UNCHANGED <<owner, inflight, client, link, generation, drops, pc, dual, inbox,
                   mishap>>

(* Output with the sentinels of the commands run so far; output without    *)
(* one only keeps a run waiting, and a console only shows it.              *)
ShellSpeaks(k) ==
    /\ Live /\ shell[k] # None /\ Len(down) < MaxDown
    /\ shell[k].typed \cap Runs # {}
    /\ Says("Output", OpcodeKind(k), shell[k].of, shell[k].typed \cap Runs)
    /\ shell' = [shell EXCEPT ![k].typed = @ \ Runs]
    /\ UNCHANGED <<owner, inflight, client, link, generation, drops, pc, dual, inbox,
                   up, mishap>>

ShellDies(k) ==
    /\ Live /\ shell[k] # None
    /\ Says("Exit", OpcodeKind(k), shell[k].of, {})
    /\ shell' = [shell EXCEPT ![k] = None]
    /\ UNCHANGED <<owner, inflight, client, link, generation, drops, pc, dual, inbox,
                   up, mishap>>

Link == LinkDrops \/ ForgetsHost \/ HostAnswers \/ LearnsHost \/ LosesPacket

Host == HostTakesPacket \/ (\E k \in Kinds : ShellSpeaks(k) \/ ShellDies(k))

Next ==
    \/ \E h \in Runs : ExecHandler(h)
    \/ \E h \in Consoles : ConsoleHandler(h)
    \/ ReaderRoutes
    \/ Link
    \/ Host

Spec == Init /\ [][Next]_vars

----------------------------------------------------------------------------
(* The owner state is exactly the claims that are out, and a held          *)
(* single_inflight has a handler behind it that will still let it go:      *)
(* however handlers queue, fail and leave, no claim is stranded, dropped   *)
(* twice or shared by two consoles.                                        *)
ClaimsAreCounted ==
    /\ inflight # None => pc[inflight] \in Claimed \ {"queue", "unclaim"}
    /\ refs = Cardinality(Present \cap Runs)
    /\ Cardinality(Present \cap Consoles) = IF interactive = "taken" THEN 1 ELSE 0

(* On a host with one shell slot a console and a run, queued runs          *)
(* included, never hold it together: no console slips into the hand-over   *)
(* between two runs.                                                       *)
OldHostHasOneKind ==
    mishap # "mixed" /\ generation = "legacy"
        => Present \cap Runs = {} \/ Present \cap Consoles = {}

(* A handler with a shell open is the one its slot feeds: nobody is        *)
(* unplugged by another handler's install or drop.                         *)
NobodyUnplugged ==
    mishap # "mixed" =>
        \A h \in Handlers :
            pc[h] \in {"open", "run", "closing", "drain", "relay"}
                => slot[SlotOf(h)] = h

(* What a handler types never reaches another handler's shell, across      *)
(* queued opens and closes, reconnects and refused opens.                  *)
InputStaysHome ==
    mishap \in {"none", "late"} =>
        \A k \in Kinds : shell[k] # None => shell[k].typed \subseteq {shell[k].of}

(* On a host with two slots a run that ends on a ShellExit ends on its own *)
(* shell's, as long as no earlier run's drain gave up on something still   *)
(* to come.                                                                *)
RunHearsOwnEnd ==
    [][mishap = "none" => \A h \in Runs :
          pc[h] = "run" /\ pc'[h] = "drain" /\ dual[h] = "yes" /\ inbox'[h] # inbox[h]
              => Head(inbox[h]).of = h]_vars

(* On a host with two slots a console is never hung up by what is left of  *)
(* a run, even of one whose drain gave up early.                           *)
ConsoleDeafToRuns ==
    mishap # "mixed" =>
        \A h \in Consoles : dual[h] = "yes" =>
            \A i \in DOMAIN inbox[h] : inbox[h][i].of \notin Runs

(* Every claim has one owner: claims are counted, an old host's one slot   *)
(* has one kind of user, and an open shell's handler is the one it feeds.  *)
ClaimsHaveOneOwner == ClaimsAreCounted /\ OldHostHasOneKind /\ NobodyUnplugged

(* Neither typed input nor a shell's packets cross to another handler.     *)
NothingCrosses == InputStaysHome /\ ConsoleDeafToRuns
=============================================================================
