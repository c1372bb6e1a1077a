------------------------- MODULE ShellChannelProofs -------------------------
(***************************************************************************)
(* The claims on the host's shells and the packets of their handlers, for  *)
(* any number of runs, consoles and reconnects.                            *)
(***************************************************************************)
EXTENDS ShellChannel, FiniteSetTheorems, TLAPS

USE HandlersAssumption DEF HandlersAssumption

(* Where a run and where a console can be. *)
RunAt == {"idle", "host", "done", "queue", "install", "open", "run", "drain",
          "unslot", "uninflight", "unclaim"}

ConsoleAt == {"idle", "host", "done", "install", "open", "relay", "closing",
              "unslot", "unclaim"}

(* Between the lock of single_inflight and its release. *)
Holding == {"install", "open", "run", "drain", "unslot", "uninflight"}

(* With a sender installed, and about to install it. *)
OnSlot == {"open", "run", "closing", "drain", "relay", "unslot"}

AtSlot == OnSlot \cup {"install"}

CellTypes ==
    /\ interactive \in {"free", "taken"}
    /\ inflight \in Runs \cup {None}
    /\ slot \in [Kinds -> Handlers \cup {None}]
    /\ fallback \in {"on", "off"}
    /\ gate \in {"up", "down"}
    /\ info \in Generations \cup {None}
    /\ link \in {"lost", "cleared", "down", "greeted", "up"}
    /\ generation \in Generations
    /\ drops \in 0..MaxDrops
    /\ dual \in [Handlers -> {"yes", "no"}]
    /\ mishap \in {"none", "late", "leaked", "mixed"}

PlaceTypes ==
    /\ pc \in [Handlers -> Places]
    /\ \A h \in Runs : pc[h] \in RunAt
    /\ \A h \in Consoles : pc[h] \in ConsoleAt

Packet == [op : Op, from : Handlers]

LineTypes ==
    /\ inbox \in [Handlers -> Seq(Event)]
    /\ up \in Seq(Packet)
    /\ down \in Seq(Event)
    /\ shell \in [Kinds -> Shell \cup {None}]

Types == CellTypes /\ PlaceTypes /\ LineTypes

(* The claims that are out, and what the owner state says of them. *)
ClaimInv ==
    /\ \A h \in Runs : inflight = h <=> pc[h] \in Holding
    /\ refs = Cardinality(Present \cap Runs)
    /\ interactive = "taken" <=> Present \cap Consoles # {}
    /\ \A g, h \in Present \cap Consoles : g = h
    /\ mishap # "mixed" => \A h \in Present : dual[h] = "yes" <=> generation = "dual"
    /\ OldHostHasOneKind

(* A sender in a slot is of a handler that uses that slot; a handler with  *)
(* a shell open finds its own there.                                       *)
SlotInv ==
    /\ \A k \in Kinds : slot[k] # None => SlotOf(slot[k]) = k /\ pc[slot[k]] \in OnSlot
    /\ NobodyUnplugged

(* The dialect of an opcode and of a shell, named for the event slot of    *)
(* the handler that speaks it.                                             *)
Lane(op) == IF op \in {"PtyOpen", "PtyInput", "PtyClose"} THEN "pty" ELSE "exec"

ShellLane(s) == IF s.dialect = "original" THEN "exec" ELSE "pty"

Closes(p, lane) == p.op \in {"ShellClose", "PtyClose"} /\ Lane(p.op) = lane

(* With a shell opened and not closed yet. *)
MidSession == {"run", "relay", "closing"}

Tidy == mishap \in {"none", "late"}

(* Between packets of two handlers in one dialect the first one's close is *)
(* queued; a handler's packets end in its close unless it is mid-session.  *)
QueueInv ==
    /\ \A i, j \in DOMAIN up :
          i < j /\ Lane(up[i].op) = Lane(up[j].op) /\ up[i].from # up[j].from
              => \E c \in i..(j - 1) : Closes(up[c], Lane(up[i].op))
    /\ \A i \in DOMAIN up :
          \/ \E c \in i..Len(up) : Closes(up[c], Lane(up[i].op))
          \/ pc[up[i].from] \in MidSession /\ SlotOf(up[i].from) = Lane(up[i].op)

(* The same of a shell that runs on a live link. *)
OpenShellInv ==
    \A k \in Kinds : shell[k] # None =>
        /\ \A j \in DOMAIN up :
              Lane(up[j].op) = ShellLane(shell[k]) /\ up[j].from # shell[k].of
                  => \E c \in 1..(j - 1) : Closes(up[c], ShellLane(shell[k]))
        /\ \/ \E c \in DOMAIN up : Closes(up[c], ShellLane(shell[k]))
           \/ pc[shell[k].of] \in MidSession /\ SlotOf(shell[k].of) = ShellLane(shell[k])

(* No two shells of a host speak one dialect. *)
OneShellPerLane ==
    /\ shell["exec"] # None => shell["exec"].dialect = "original"
    /\ ~(shell["exec"] # None /\ LegacyPty)

LaneInv ==
    /\ OneShellPerLane
    /\ Tidy => QueueInv /\ (Live => OpenShellInv) /\ InputStaysHome

(* Whatever speaks with a console's opcodes is a console's. *)
PtySpeaksForConsoles ==
    /\ \A i \in DOMAIN up : up[i].op = "PtyOpen" => up[i].from \in Consoles
    /\ DedicatedPty => shell["pty"].of \in Consoles
    /\ \A i \in DOMAIN down : down[i].kind = "pty" => down[i].of \in Consoles

(* The fallback is an old host's; a channel fills only while its sender is *)
(* installed.                                                              *)
QuietOffSlot ==
    /\ fallback = "on" => generation = "legacy"
    /\ \A h \in Handlers : pc[h] \notin OnSlot => inbox[h] = <<>>

DeafInv == PtySpeaksForConsoles /\ QuietOffSlot /\ ConsoleDeafToRuns

(* A handler that has a shell open or waits for its end. *)
InRun == {"run", "drain"}

Calm == mishap = "none" /\ generation = "dual"

Without(q, S) == \A i \in DOMAIN q : q[i] \notin S

AtMostOnce(q, S) == \A i, j \in DOMAIN q : q[i] \in S /\ q[j] \in S => i = j

StartsOf(g) == {x \in Packet : x.op = "ShellOpen" /\ x.from = g}

EndsOf(g) == {e \in Event : e.op \in {"Exit", "Closed"} /\ e.of = g}

NoShellOf(g) == \A k \in Kinds : shell[k] # None => shell[k].of # g

(* Of one run there is one trace on its way: its open in the queue, then   *)
(* its shell, then the end of that shell on the line, then in its channel. *)
OneTrace(g) ==
    /\ AtMostOnce(up, StartsOf(g)) /\ AtMostOnce(down, EndsOf(g))
    /\ AtMostOnce(inbox[g], EndsOf(g))
    /\ Without(up, StartsOf(g))
         \/ (NoShellOf(g) /\ Without(down, EndsOf(g)) /\ Without(inbox[g], EndsOf(g)))
    /\ NoShellOf(g) \/ (Without(down, EndsOf(g)) /\ Without(inbox[g], EndsOf(g)))
    /\ Without(down, EndsOf(g)) \/ Without(inbox[g], EndsOf(g))

(* Nothing that can still end a run. *)
Gone(g) == Without(up, StartsOf(g)) /\ NoShellOf(g) /\ Without(down, EndsOf(g))

TraceOf(g) == OneTrace(g) /\ (pc[g] \in InRun \/ Gone(g))

TraceInv == \A g \in Runs : TraceOf(g)

(* On a host with two slots the original opcodes are the runs'. *)
ExecSpeaksForRuns ==
    /\ \A i \in DOMAIN up : /\ up[i].op # "ShellOpenPty"
                            /\ up[i].op = "ShellOpen" => up[i].from \in Runs
                            /\ up[i].op = "PtyOpen" => up[i].from \in Consoles
    /\ shell["exec"] # None => shell["exec"].of \in Runs
    /\ shell["pty"] # None => DedicatedPty /\ shell["pty"].of \in Consoles
    /\ \A i \in DOMAIN down : down[i].kind = "exec" => down[i].of \in Runs

(* Output ends the commands of its own shell, and a run hears itself. *)
HearsItself ==
    /\ \A i \in DOMAIN down : down[i].done \subseteq {down[i].of}
    /\ \A h \in Runs : \A i \in DOMAIN inbox[h] : inbox[h][i].of = h

EarInv == Calm => ExecSpeaksForRuns /\ TraceInv /\ HearsItself

----------------------------------------------------------------------------
(* Types.                                                                  *)

LEMMA SendType ==
    ASSUME Types, NEW ops \in Seq(Op), NEW h \in Handlers, Send(ops, h)
    PROVE  up' \in Seq(Packet)
<1>1. \A i \in 1..Len(ops) : [op |-> ops[i], from |-> h] \in Packet
  BY DEF Packet
<1>2. DOMAIN ops = 1..Len(ops) /\ Len(ops) \in Nat
  OBVIOUS
<1>3. [i \in DOMAIN ops |-> [op |-> ops[i], from |-> h]] \in Seq(Packet)
  BY <1>1, <1>2
<1> QED
  BY <1>3 DEF Send, Types, LineTypes

LEMMA OpTypes ==
    /\ <<"ShellOpen", "ShellInput">> \in Seq(Op) /\ <<"ShellOpen">> \in Seq(Op)
    /\ <<"ShellClose">> \in Seq(Op)
    /\ \A h : /\ <<OpenOp(h)>> \in Seq(Op) /\ <<InputOp(h)>> \in Seq(Op)
              /\ <<CloseOp(h)>> \in Seq(Op)
BY DEF Op, OpenOp, InputOp, CloseOp

(* A handler's channel stays one: it is filled at the end, read at the     *)
(* front, or emptied.                                                      *)
LEMMA InboxStep ==
    ASSUME Types, NEW h \in Handlers, NEW e \in Event,
           \/ inbox' = [inbox EXCEPT ![h] = <<>>]
           \/ inbox[h] # <<>> /\ inbox' = [inbox EXCEPT ![h] = Tail(@)]
           \/ inbox' = [inbox EXCEPT ![h] = Append(@, e)]
           \/ UNCHANGED inbox
    PROVE  inbox' \in [Handlers -> Seq(Event)]
<1>1. inbox \in [Handlers -> Seq(Event)] /\ inbox[h] \in Seq(Event)
  BY DEF Types, LineTypes
<1>2. <<>> \in Seq(Event) /\ Append(inbox[h], e) \in Seq(Event)
  BY <1>1
<1>3. inbox[h] # <<>> => Tail(inbox[h]) \in Seq(Event)
  BY <1>1
<1>4. PICK q \in Seq(Event) : inbox' = [inbox EXCEPT ![h] = q] \/ UNCHANGED inbox
  BY <1>1, <1>2, <1>3
<1> QED
  BY <1>1, <1>4

LEMMA SomeEvent == ASSUME NEW h \in Handlers PROVE \E e : e \in Event
<1>1. [op |-> "Exit", kind |-> "exec", of |-> h, done |-> {}] \in Event
  BY DEF Event, Kinds
<1> QED
  BY <1>1

(* A handler goes where its kind of handler may be. *)
LEMMA PlaceStep ==
    ASSUME PlaceTypes, NEW h \in Handlers, NEW to, pc' = [pc EXCEPT ![h] = to],
           h \in Runs => to \in RunAt, h \in Consoles => to \in ConsoleAt
    PROVE  PlaceTypes'
<1>1. to \in Places
  BY DEF Handlers, RunAt, ConsoleAt, Places, Claimed
<1> QED
  BY <1>1 DEF PlaceTypes, Handlers

LEMMA ExecHandlerTypes ==
    ASSUME Types, NEW h \in Runs, ExecHandler(h)
    PROVE  Types'
<1> USE DEF owner, client, wire, Goes
<1>0. h \in Handlers /\ h \notin Consoles
  BY DEF Handlers
<1>1. PlaceTypes'
  <2>1. PICK to \in RunAt : pc' = [pc EXCEPT ![h] = to] \/ UNCHANGED pc
    BY DEF ExecHandler, ExecConnects, Claims, TakesInflight, Installs, ExecOpens, RunTakesEvent,
           ClosesShell, RunGivesUp, DrainTakesEvent, DrainGivesUp, ClearsSlot, LeavesInflight,
           DropsClaim, RunAt
  <2> QED
    BY <1>0, <2>1, PlaceStep DEF Types, PlaceTypes
<1>2. CellTypes'
  <2> USE DEF Types, CellTypes, Happens
  <2>1. CASE Claims(h)
    <3>1. HostSupportsPtySlot \in {"yes", "no"}
      BY DEF HostSupportsPtySlot
    <3> QED
      BY <1>0, <2>1, <3>1 DEF Claims, Acquire
  <2>2. CASE Installs(h) \/ ClearsSlot(h)
    BY <1>0, <2>2 DEF Installs, ClearsSlot, SlotOf, Kinds
  <2>3. CASE TakesInflight(h) \/ LeavesInflight(h) \/ DropsClaim(h)
    BY <1>0, <2>3 DEF TakesInflight, LeavesInflight, DropsClaim
  <2>4. CASE \/ ExecConnects(h) \/ ExecOpens(h) \/ RunTakesEvent(h) \/ RunGivesUp(h)
             \/ DrainTakesEvent(h) \/ DrainGivesUp(h)
    BY <1>0, <2>4 DEF ExecConnects, ExecOpens, RunTakesEvent, RunGivesUp, DrainTakesEvent, DrainGivesUp
  <2> QED
    BY <2>1, <2>2, <2>3, <2>4 DEF ExecHandler
<1>3. LineTypes'
  <2>1. up' \in Seq(Packet)
    <3>1. CASE UNCHANGED up
      BY <3>1 DEF Types, LineTypes
    <3>2. CASE \E ops \in Seq(Op) : Send(ops, h)
      BY <1>0, <3>2, SendType
    <3>3. CASE ExecOpens(h) \/ RunTakesEvent(h) \/ RunGivesUp(h)
      BY <3>1, <3>2, <3>3, OpTypes DEF ExecOpens, RunTakesEvent, RunGivesUp, ClosesShell
    <3>4. CASE ~(ExecOpens(h) \/ RunTakesEvent(h) \/ RunGivesUp(h))
      BY <3>1, <3>4 DEF ExecHandler, ExecConnects, Claims, TakesInflight, Installs,
           DrainTakesEvent, DrainGivesUp, ClearsSlot, LeavesInflight, DropsClaim
    <3> QED
      BY <3>3, <3>4
  <2>2. inbox' \in [Handlers -> Seq(Event)]
    BY <1>0, InboxStep, SomeEvent
       DEF ExecHandler, ExecConnects, Claims, TakesInflight, Installs, ExecOpens, RunTakesEvent,
           RunGivesUp, DrainTakesEvent, DrainGivesUp, ClearsSlot, LeavesInflight,
           DropsClaim
  <2>3. UNCHANGED <<down, shell>>
    BY DEF ExecHandler, ExecConnects, Claims, TakesInflight, Installs, ExecOpens, RunTakesEvent,
           RunGivesUp, DrainTakesEvent, DrainGivesUp, ClearsSlot, LeavesInflight, DropsClaim
  <2> QED
    BY <2>1, <2>2, <2>3 DEF Types, LineTypes
<1> QED
  BY <1>1, <1>2, <1>3 DEF Types

LEMMA ConsoleHandlerTypes ==
    ASSUME Types, NEW h \in Consoles, ConsoleHandler(h)
    PROVE  Types'
<1> USE DEF owner, client, wire, Goes
<1>0. h \in Handlers /\ h \notin Runs
  BY DEF Handlers
<1>1. PlaceTypes'
  <2>1. PICK to \in ConsoleAt : pc' = [pc EXCEPT ![h] = to] \/ UNCHANGED pc
    BY <1>0 DEF ConsoleHandler, ConsoleConnects, Claims, Installs, ConsoleOpens, TermTypes,
           RelayTakesEvent, RelaySeesLinkDown, TermLeaves, ConsoleCloses, ClearsSlot, DropsClaim,
           ConsoleAt
  <2> QED
    BY <1>0, <2>1, PlaceStep DEF Types, PlaceTypes
<1>2. CellTypes'
  <2> USE DEF Types, CellTypes, Happens
  <2>1. CASE Claims(h)
    <3>1. HostSupportsPtySlot \in {"yes", "no"}
      BY DEF HostSupportsPtySlot
    <3> QED
      BY <1>0, <2>1, <3>1 DEF Claims, Acquire
  <2>2. CASE Installs(h) \/ ClearsSlot(h)
    BY <1>0, <2>2 DEF Installs, ClearsSlot, SlotOf, Kinds
  <2>3. CASE \/ ConsoleConnects(h) \/ DropsClaim(h) \/ RelaySeesLinkDown(h) \/ TermLeaves(h)
             \/ ConsoleOpens(h) \/ TermTypes(h) \/ ConsoleCloses(h) \/ RelayTakesEvent(h)
    BY <1>0, <2>3 DEF ConsoleConnects, DropsClaim, RelaySeesLinkDown, TermLeaves, ConsoleOpens,
                      TermTypes, ConsoleCloses, RelayTakesEvent
  <2> QED
    BY <2>1, <2>2, <2>3 DEF ConsoleHandler
<1>3. LineTypes'
  <2>1. up' \in Seq(Packet)
    <3>1. CASE UNCHANGED up
      BY <3>1 DEF Types, LineTypes
    <3>2. CASE \E ops \in Seq(Op) : Send(ops, h)
      BY <1>0, <3>2, SendType
    <3>3. CASE ConsoleOpens(h) \/ TermTypes(h) \/ ConsoleCloses(h)
      BY <3>1, <3>2, <3>3, OpTypes DEF ConsoleOpens, TermTypes, ConsoleCloses
    <3>4. CASE ~(ConsoleOpens(h) \/ TermTypes(h) \/ ConsoleCloses(h))
      BY <3>1, <3>4 DEF ConsoleHandler, ConsoleConnects, Claims, Installs, RelayTakesEvent,
           RelaySeesLinkDown, TermLeaves, ClearsSlot, DropsClaim
    <3> QED
      BY <3>3, <3>4
  <2>2. inbox' \in [Handlers -> Seq(Event)]
    BY <1>0, InboxStep, SomeEvent
       DEF ConsoleHandler, ConsoleConnects, Claims, Installs, ConsoleOpens, TermTypes,
           RelayTakesEvent, RelaySeesLinkDown, TermLeaves, ConsoleCloses, ClearsSlot, DropsClaim
  <2>3. UNCHANGED <<down, shell>>
    BY DEF ConsoleHandler, ConsoleConnects, Claims, Installs, ConsoleOpens, TermTypes,
           RelayTakesEvent, RelaySeesLinkDown, TermLeaves, ConsoleCloses, ClearsSlot, DropsClaim
  <2> QED
    BY <2>1, <2>2, <2>3 DEF Types, LineTypes
<1> QED
  BY <1>1, <1>2, <1>3 DEF Types

(* What the host says is an event. *)
LEMMA SaysType ==
    ASSUME Types, NEW op \in {"Output", "Exit", "Closed", "Error"}, NEW kind \in Kinds,
           NEW h \in Handlers, NEW done \in SUBSET Handlers, Says(op, kind, h, done)
    PROVE  down' \in Seq(Event)
<1>1. [op |-> op, kind |-> kind, of |-> h, done |-> done] \in Event
  BY DEF Event
<1> QED
  BY <1>1 DEF Says, Types, LineTypes

LEMMA OpensType ==
    ASSUME Types, NEW h \in Handlers, NEW k \in Kinds, NEW dialect \in {"original", "dedicated"},
           NEW busy, NEW errorKind \in Kinds, Opens(h, k, dialect, busy, errorKind)
    PROVE  shell' \in [Kinds -> Shell \cup {None}] /\ down' \in Seq(Event)
<1>1. CASE Says("Error", errorKind, h, {}) /\ UNCHANGED shell
  <2>1. down' \in Seq(Event)
    BY <1>1, SaysType
  <2> QED
    BY <1>1, <2>1 DEF Types, LineTypes
<1>2. CASE /\ shell' = [shell EXCEPT ![k] = [of |-> h, dialect |-> dialect, typed |-> {}]]
           /\ UNCHANGED down
  <2>1. [of |-> h, dialect |-> dialect, typed |-> {}] \in Shell
    BY DEF Shell
  <2> QED
    BY <1>2, <2>1 DEF Types, LineTypes
<1> QED
  BY <1>1, <1>2 DEF Opens

(* A slot some opcode addresses has a shell. *)
LEMMA TargetsHaveShells ==
    ASSUME Types, NEW k \in OriginalTarget \cup DedicatedTarget
    PROVE  k \in Kinds /\ shell[k] # None /\ shell[k] \in Shell /\ shell[k].of \in Handlers
BY DEF OriginalTarget, DedicatedTarget, LegacyPty, DedicatedPty, Types, LineTypes, Kinds, Shell

LEMMA HostTakesPacketTypes == Types /\ HostTakesPacket => Types'
<1> SUFFICES ASSUME Types, HostTakesPacket
             PROVE  Types'
  OBVIOUS
<1> DEFINE m == Head(up)
<1>1. m \in Packet /\ Tail(up) \in Seq(Packet)
  BY DEF Types, LineTypes, HostTakesPacket
<1>2. m.from \in Handlers /\ "exec" \in Kinds /\ "pty" \in Kinds
  BY <1>1 DEF Kinds, Packet
<1>3. shell' \in [Kinds -> Shell \cup {None}] /\ down' \in Seq(Event)
  <2>1. CASE HostOpens(m)
    BY <1>2, <2>1, OpensType DEF HostOpens
  <2>2. CASE HostTypes(m)
    <3>1. \A s \in Shell : [s EXCEPT !.typed = @ \cup {m.from}] \in Shell
      BY <1>2 DEF Shell
    <3> QED
      BY <2>2, <3>1, TargetsHaveShells DEF HostTypes, Types, LineTypes
  <2>3. CASE HostCloses(m)
    <3>1. down' \in Seq(Event)
      BY <1>2, <2>3, TargetsHaveShells, SaysType DEF HostCloses, Types, LineTypes
    <3> QED
      BY <2>3, <3>1 DEF HostCloses, Types, LineTypes
  <2>4. CASE HostIgnores(m)
    BY <2>4 DEF HostIgnores, Types, LineTypes
  <2> QED
    BY <2>1, <2>2, <2>3, <2>4 DEF HostTakesPacket
<1>4. LineTypes'
  BY <1>1, <1>3 DEF HostTakesPacket, Types, LineTypes
<1>5. CellTypes' /\ PlaceTypes'
  BY DEF HostTakesPacket, Types, CellTypes, PlaceTypes, owner, client
<1> QED
  BY <1>4, <1>5 DEF Types

LEMMA NextTypes == Types /\ [Next]_vars => Types'
<1> SUFFICES ASSUME Types, [Next]_vars
             PROVE  Types'
  OBVIOUS
<1> USE DEF owner, client, wire
<1>1. ASSUME NEW h \in Runs, ExecHandler(h)
      PROVE  Types'
  BY <1>1, ExecHandlerTypes
<1>2. ASSUME NEW h \in Consoles, ConsoleHandler(h)
      PROVE  Types'
  BY <1>2, ConsoleHandlerTypes
<1>3. CASE ReaderRoutes
  <2>1. Head(down) \in Event /\ Tail(down) \in Seq(Event)
    BY <1>3 DEF ReaderRoutes, Types, LineTypes
  <2>2. inbox' \in [Handlers -> Seq(Event)]
    <3> DEFINE h == Route(Head(down))
    <3>1. Head(down).kind \in Kinds
      BY <2>1 DEF Event
    <3>2. h \in Handlers \cup {None}
      BY <3>1 DEF Route, OtherKind, Kinds, Types, CellTypes
    <3> QED
      BY <1>3, <2>1, <3>2, InboxStep DEF ReaderRoutes, Types, LineTypes
  <2> QED
    BY <1>3, <2>1, <2>2 DEF ReaderRoutes, Types, CellTypes, PlaceTypes, LineTypes
<1>4. CASE Link
  <2>1. CellTypes'
    BY <1>4 DEF Link, LinkDrops, ForgetsHost, HostAnswers, LearnsHost, LosesPacket, Types, CellTypes
  <2>2. PlaceTypes'
    BY <1>4 DEF Link, LinkDrops, ForgetsHost, HostAnswers, LearnsHost, LosesPacket, Types, PlaceTypes
  <2>3. LineTypes'
    <3>1. CASE LosesPacket
      BY <3>1 DEF LosesPacket, Types, LineTypes
    <3>2. CASE HostAnswers
      BY <3>2 DEF HostAnswers, Types, LineTypes
    <3>3. CASE LinkDrops
      <4>1. <<>> \in Seq(Event)
        OBVIOUS
      <4> QED
        BY <3>3, <4>1 DEF LinkDrops, Types, LineTypes
    <3>4. CASE ForgetsHost \/ LearnsHost
      BY <3>4 DEF ForgetsHost, LearnsHost, Types, LineTypes
    <3> QED
      BY <1>4, <3>1, <3>2, <3>3, <3>4 DEF Link
  <2> QED
    BY <2>1, <2>2, <2>3 DEF Types
<1>5. CASE HostTakesPacket
  BY <1>5, HostTakesPacketTypes
<1>6. ASSUME NEW k \in Kinds, ShellSpeaks(k) \/ ShellDies(k)
      PROVE  Types'
  <2>1. shell[k] \in Shell /\ shell[k].of \in Handlers /\ OpcodeKind(k) \in Kinds
    BY <1>6 DEF ShellSpeaks, ShellDies, Types, LineTypes, Shell, OpcodeKind, Kinds
  <2>2. down' \in Seq(Event)
    <3>1. shell[k].typed \cap Runs \in SUBSET Handlers /\ {} \in SUBSET Handlers
      BY DEF Handlers
    <3> QED
      BY <1>6, <2>1, <3>1, SaysType DEF ShellSpeaks, ShellDies
  <2>3. [shell[k] EXCEPT !.typed = @ \ Runs] \in Shell
    BY <2>1 DEF Shell
  <2>4. shell' \in [Kinds -> Shell \cup {None}]
    BY <1>6, <2>3 DEF ShellSpeaks, ShellDies, Types, LineTypes
  <2> QED
    BY <1>6, <2>2, <2>4 DEF ShellSpeaks, ShellDies, Types, CellTypes, PlaceTypes, LineTypes
<1>7. CASE UNCHANGED vars
  BY <1>7 DEF vars, Types, CellTypes, PlaceTypes, LineTypes
<1> QED
  BY <1>1, <1>2, <1>3, <1>4, <1>5, <1>6, <1>7 DEF Next, Host

LEMMA InitTypes == Init => Types
<1> SUFFICES ASSUME Init
             PROVE  Types
  OBVIOUS
<1>1. CellTypes
  BY DEF Init, CellTypes, Handlers
<1>2. PlaceTypes
  BY DEF Init, PlaceTypes, Handlers, Places, RunAt, ConsoleAt
<1>3. \A S : <<>> \in Seq(S)
  OBVIOUS
<1>4. LineTypes
  BY <1>3 DEF Init, LineTypes
<1> QED
  BY <1>1, <1>2, <1>4 DEF Types

----------------------------------------------------------------------------
(* Claims.                                                                 *)

LEMMA PresentFinite == IsFiniteSet(Present \cap Runs) /\ IsFiniteSet(Present \cap Consoles)
<1>1. Present \cap Runs \subseteq Handlers /\ Present \cap Consoles \subseteq Handlers
  BY DEF Present
<1> QED
  BY <1>1, FS_Subset

(* A handler that moves between places on the same side of its claim and   *)
(* of single_inflight leaves the accounts alone.                           *)
LEMMA MovesKeepClaims ==
    ASSUME Types, ClaimInv, NEW h \in Handlers, NEW to,
           pc' = [pc EXCEPT ![h] = to] \/ UNCHANGED pc,
           to \in Claimed <=> pc[h] \in Claimed,
           h \in Runs => (to \in Holding <=> pc[h] \in Holding),
           mishap' # "mixed" => mishap # "mixed",
           UNCHANGED <<refs, interactive, inflight, dual, generation>>
    PROVE  ClaimInv'
<1>1. Present' = Present
  BY DEF Present, Types, PlaceTypes
<1>2. \A g \in Runs : pc'[g] \in Holding <=> pc[g] \in Holding
  BY DEF Types, PlaceTypes, Handlers
<1>3. OldHostHasOneKind'
  BY <1>1 DEF ClaimInv, OldHostHasOneKind
<1>4. (mishap # "mixed" => \A g \in Present : dual[g] = "yes" <=> generation = "dual")'
  BY <1>1 DEF ClaimInv
<1> QED
  BY <1>1, <1>2, <1>3, <1>4 DEF ClaimInv

LEMMA EnteringKeepsClaims ==
    ASSUME Types, ClaimInv, NEW h \in Handlers, NEW to \in {"queue", "install", "unclaim"},
           pc[h] = "host", pc' = [pc EXCEPT ![h] = to], h \in Runs => to # "install",
           MayEnter(h, HostSupportsPtySlot), Acquire(h, HostSupportsPtySlot),
           UNCHANGED <<inflight, generation>>
    PROVE  ClaimInv'
<1> DEFINE d == HostSupportsPtySlot
<1>0. h \notin Present /\ d \in {"yes", "no"} /\ generation \in Generations
  BY DEF Present, Claimed, HostSupportsPtySlot, Types, CellTypes
<1>1. Present' = Present \cup {h}
  BY DEF Present, Types, PlaceTypes, Claimed
<1>2. \A g \in Runs : pc'[g] \in Holding <=> pc[g] \in Holding
  BY DEF Types, PlaceTypes, Holding
<1>3. (refs = Cardinality(Present \cap Runs))'
  <2>1. CASE h \in Runs
    <3>1. (Present \cap Runs)' = (Present \cap Runs) \cup {h} /\ h \notin Present \cap Runs
      BY <1>0, <1>1, <2>1
    <3>2. Cardinality((Present \cap Runs) \cup {h}) = Cardinality(Present \cap Runs) + 1
      BY <3>1, PresentFinite, FS_AddElement
    <3>3. refs = Cardinality(Present \cap Runs) /\ refs' = refs + 1
      BY <2>1 DEF ClaimInv, Acquire
    <3>4. Cardinality((Present \cap Runs)') = Cardinality((Present \cap Runs) \cup {h})
      BY <3>1
    <3> QED
      BY <3>2, <3>3, <3>4
  <2>2. CASE h \notin Runs
    <3>1. (Present \cap Runs)' = Present \cap Runs
      BY <1>1, <2>2
    <3> QED
      BY <2>2, <3>1 DEF ClaimInv, Acquire
  <2> QED
    BY <2>1, <2>2
<1>4. (interactive = "taken" <=> Present \cap Consoles # {})'
  BY <1>1 DEF ClaimInv, Acquire, Handlers
<1>5. (\A f, g \in Present \cap Consoles : f = g)'
  <2>1. h \in Consoles => Present \cap Consoles = {}
    BY DEF MayEnter, ConsoleMayEnter, ClaimInv, Types, CellTypes
  <2> QED
    BY <1>1, <2>1 DEF ClaimInv, Handlers
<1>6. mishap' # "mixed" => mishap # "mixed" /\ (d = "yes" <=> generation = "dual")
  BY <1>0 DEF Acquire, Happens
<1>7. (mishap # "mixed" => \A g \in Present : dual[g] = "yes" <=> generation = "dual")'
  BY <1>0, <1>1, <1>6 DEF ClaimInv, Acquire, Types, CellTypes, Present
<1>8. OldHostHasOneKind'
  <2> SUFFICES ASSUME mishap' # "mixed", generation = "legacy"
               PROVE  (Present \cap Runs = {} \/ Present \cap Consoles = {})'
    BY DEF OldHostHasOneKind
  <2>1. interactive = "free"
    BY <1>6 DEF MayEnter, ExecMayEnter, ConsoleMayEnter
  <2>2. h \in Consoles => refs = 0
    BY <1>6 DEF MayEnter, ConsoleMayEnter, Handlers
  <2>3. refs = 0 => Present \cap Runs = {}
    BY PresentFinite, FS_EmptySet DEF ClaimInv
  <2> QED
    BY <1>1, <2>1, <2>2, <2>3 DEF ClaimInv, Handlers
<1> QED
  BY <1>2, <1>3, <1>4, <1>5, <1>7, <1>8 DEF ClaimInv

LEMMA LeavingKeepsClaims ==
    ASSUME Types, ClaimInv, NEW h \in Handlers, DropsClaim(h)
    PROVE  ClaimInv'
<1> USE DEF DropsClaim, Goes, wire
<1>0. h \in Present
  BY DEF Present, Claimed
<1>1. Present' = Present \ {h}
  BY DEF Present, Types, PlaceTypes, Claimed
<1>2. \A g \in Runs : pc'[g] \in Holding <=> pc[g] \in Holding
  BY DEF Types, PlaceTypes, Holding
<1>3. (refs = Cardinality(Present \cap Runs))'
  <2>1. CASE h \in Runs
    <3>1. (Present \cap Runs)' = (Present \cap Runs) \ {h} /\ h \in Present \cap Runs
      BY <1>0, <1>1, <2>1
    <3>2. Cardinality(Present \cap Runs) \in Nat
      BY PresentFinite, FS_CardinalityType
    <3>3. Cardinality((Present \cap Runs) \ {h}) = Cardinality(Present \cap Runs) - 1
      BY <3>1, PresentFinite, FS_RemoveElement
    <3>4. Cardinality((Present \cap Runs) \ {h}) \in Nat
      BY PresentFinite, FS_RemoveElement, FS_CardinalityType
    <3>5. refs = Cardinality(Present \cap Runs) /\ refs' = (IF refs = 0 THEN 0 ELSE refs - 1)
      BY <2>1 DEF ClaimInv
    <3>6. Cardinality((Present \cap Runs)') = Cardinality((Present \cap Runs) \ {h})
      BY <3>1
    <3> QED
      BY <3>2, <3>3, <3>4, <3>5, <3>6
  <2>2. CASE h \notin Runs
    <3>1. (Present \cap Runs)' = Present \cap Runs
      BY <1>1, <2>2
    <3> QED
      BY <2>2, <3>1 DEF ClaimInv
  <2> QED
    BY <2>1, <2>2
<1>4. (interactive = "taken" <=> Present \cap Consoles # {})'
  BY <1>0, <1>1 DEF ClaimInv, Handlers
<1>5. (\A f, g \in Present \cap Consoles : f = g)'
  BY <1>1 DEF ClaimInv
<1>6. (mishap # "mixed" => \A g \in Present : dual[g] = "yes" <=> generation = "dual")'
  BY <1>1 DEF ClaimInv, Types, CellTypes, Present
<1>7. OldHostHasOneKind'
  BY <1>1 DEF ClaimInv, OldHostHasOneKind
<1> QED
  BY <1>2, <1>3, <1>4, <1>5, <1>6, <1>7 DEF ClaimInv

LEMMA InflightKeepsClaims ==
    ASSUME Types, ClaimInv, NEW h \in Runs, TakesInflight(h) \/ LeavesInflight(h)
    PROVE  ClaimInv'
<1> USE DEF TakesInflight, LeavesInflight, Goes, owner, wire
<1>1. Present' = Present
  BY DEF Present, Types, PlaceTypes, Claimed
<1>2. (\A g \in Runs : inflight = g <=> pc[g] \in Holding)'
  BY DEF ClaimInv, Types, PlaceTypes, Holding, Handlers
<1>3. OldHostHasOneKind'
  BY <1>1 DEF ClaimInv, OldHostHasOneKind
<1>4. (mishap # "mixed" => \A g \in Present : dual[g] = "yes" <=> generation = "dual")'
  BY <1>1 DEF ClaimInv
<1> QED
  BY <1>1, <1>2, <1>3, <1>4 DEF ClaimInv

LEMMA ClaimInvariant ==
    ASSUME Types, ClaimInv, [Next]_vars
    PROVE  ClaimInv'
<1> USE DEF owner, wire, Goes
<1>1. ASSUME NEW h \in Handlers, Claims(h)
      PROVE  ClaimInv'
  <2>1. CASE MayEnter(h, HostSupportsPtySlot)
    BY <1>1, <2>1, EnteringKeepsClaims DEF Claims, Handlers
  <2>2. CASE ~MayEnter(h, HostSupportsPtySlot)
    <3>1. pc[h] = "host" /\ pc' = [pc EXCEPT ![h] = "done"]
          /\ UNCHANGED <<refs, interactive, inflight, dual, generation, mishap>>
      BY <1>1, <2>2 DEF Claims
    <3> QED
      BY <3>1, MovesKeepClaims DEF Claimed, Holding
  <2> QED
    BY <2>1, <2>2
<1>2. ASSUME NEW h \in Handlers, Installs(h) \/ ClearsSlot(h)
      PROVE  ClaimInv'
  <2> DEFINE to == IF Installs(h) THEN "open" ELSE IF h \in Runs THEN "uninflight" ELSE "unclaim"
  <2>1. pc' = [pc EXCEPT ![h] = to] /\ (to \in Claimed <=> pc[h] \in Claimed)
        /\ (h \in Runs => (to \in Holding <=> pc[h] \in Holding))
    BY <1>2 DEF Installs, ClearsSlot, Claimed, Holding
  <2>2. UNCHANGED <<refs, interactive, inflight, dual, generation, mishap>>
    BY <1>2 DEF Installs, ClearsSlot
  <2> QED
    BY <2>1, <2>2, MovesKeepClaims
<1>3. ASSUME NEW h \in Runs, \/ ExecConnects(h) \/ ExecOpens(h) \/ RunTakesEvent(h) \/ RunGivesUp(h)
                             \/ DrainTakesEvent(h) \/ DrainGivesUp(h)
      PROVE  ClaimInv'
  <2> USE DEF ExecConnects, ExecOpens, RunTakesEvent, RunGivesUp, ClosesShell, DrainTakesEvent, DrainGivesUp
  <2>1. PICK to : /\ pc' = [pc EXCEPT ![h] = to] \/ UNCHANGED pc
                  /\ to \in Claimed <=> pc[h] \in Claimed
                  /\ to \in Holding <=> pc[h] \in Holding
    BY <1>3 DEF Claimed, Holding
  <2>2. UNCHANGED <<refs, interactive, inflight, dual, generation>>
    BY <1>3
  <2>3. mishap' # "mixed" => mishap # "mixed"
    BY <1>3 DEF Happens
  <2> QED
    BY <2>1, <2>2, <2>3, MovesKeepClaims DEF Handlers
<1>4. ASSUME NEW h \in Consoles,
             \/ ConsoleConnects(h) \/ ConsoleOpens(h) \/ TermTypes(h) \/ RelayTakesEvent(h)
             \/ RelaySeesLinkDown(h) \/ TermLeaves(h) \/ ConsoleCloses(h)
      PROVE  ClaimInv'
  <2> USE DEF ConsoleConnects, ConsoleOpens, TermTypes, RelayTakesEvent, RelaySeesLinkDown,
              TermLeaves, ConsoleCloses
  <2>1. PICK to : /\ pc' = [pc EXCEPT ![h] = to] \/ UNCHANGED pc
                  /\ to \in Claimed <=> pc[h] \in Claimed
    BY <1>4 DEF Claimed
  <2>2. UNCHANGED <<refs, interactive, inflight, dual, generation>>
    BY <1>4
  <2>3. mishap' # "mixed" => mishap # "mixed"
    BY <1>4 DEF Happens
  <2> QED
    BY <2>1, <2>2, <2>3, MovesKeepClaims DEF Handlers
<1>5. CASE ReaderRoutes \/ Link \/ Host \/ UNCHANGED vars
  <2>1. UNCHANGED <<refs, interactive, inflight, dual, generation, pc, mishap>>
    BY <1>5 DEF ReaderRoutes, Link, LinkDrops, ForgetsHost, HostAnswers, LearnsHost, LosesPacket,
                Host, HostTakesPacket, ShellSpeaks, ShellDies, vars
  <2>2. UNCHANGED Present
    BY <2>1 DEF Present
  <2> QED
    BY <2>1, <2>2 DEF ClaimInv, OldHostHasOneKind
<1> QED
  BY <1>1, <1>2, <1>3, <1>4, <1>5, InflightKeepsClaims, LeavingKeepsClaims
     DEF Next, ExecHandler, ConsoleHandler, Handlers

LEMMA InitClaims == Init => ClaimInv
<1> SUFFICES ASSUME Init
             PROVE  ClaimInv
  OBVIOUS
<1>1. Present = {}
  BY DEF Init, Present, Claimed
<1>2. Cardinality(Present \cap Runs) = 0
  BY <1>1, FS_EmptySet
<1> QED
  BY <1>1, <1>2 DEF Init, ClaimInv, OldHostHasOneKind, Holding, Handlers

----------------------------------------------------------------------------
(* Slots.                                                                  *)

Plugged == OnSlot \ {"unslot"}

(* Two handlers that use the same slot are one: runs by single_inflight,   *)
(* consoles by their claim, a run and a console by the old host's rule.    *)
LEMMA OneUserOfASlot ==
    ASSUME Types, ClaimInv, mishap # "mixed", NEW g \in Handlers, NEW h \in Handlers,
           pc[g] \in AtSlot, pc[h] \in AtSlot, SlotOf(g) = SlotOf(h)
    PROVE  g = h
<1>1. g \in Present /\ h \in Present
  BY DEF Present, AtSlot, OnSlot, Claimed
<1>2. CASE g \in Runs /\ h \in Runs
  <2>1. pc[g] \in Holding /\ pc[h] \in Holding
    BY <1>2 DEF Types, PlaceTypes, RunAt, AtSlot, OnSlot, Holding
  <2> QED
    BY <1>2, <2>1 DEF ClaimInv
<1>3. CASE g \in Consoles /\ h \in Consoles
  BY <1>1, <1>3 DEF ClaimInv
<1>4. ASSUME NEW r \in Runs \cap Present, NEW c \in Consoles \cap Present, SlotOf(r) = SlotOf(c)
      PROVE  FALSE
  <2>1. dual[c] # "yes"
    BY <1>4 DEF SlotOf
  <2>2. generation = "legacy"
    BY <2>1 DEF ClaimInv, Types, CellTypes, Generations
  <2> QED
    BY <2>2 DEF ClaimInv, OldHostHasOneKind
<1> QED
  BY <1>1, <1>2, <1>3, <1>4 DEF Handlers

(* A handler that neither installs nor clears leaves the slots to their    *)
(* owners.                                                                 *)
LEMMA MovesKeepSlots ==
    ASSUME Types, SlotInv, NEW h \in Handlers, NEW to, NEW d,
           pc' = [pc EXCEPT ![h] = to] \/ UNCHANGED pc,
           pc[h] \in OnSlot => to \in OnSlot,
           to \in Plugged => pc[h] \in Plugged,
           UNCHANGED dual \/ (pc[h] \notin OnSlot /\ to \notin OnSlot /\ dual' = [dual EXCEPT ![h] = d]),
           mishap' # "mixed" => mishap # "mixed",
           UNCHANGED slot
    PROVE  SlotInv'
<1>1. \A g \in Handlers : /\ pc[g] \in OnSlot => pc'[g] \in OnSlot /\ dual'[g] = dual[g]
                          /\ pc'[g] \in Plugged => pc[g] \in Plugged /\ dual'[g] = dual[g]
  BY DEF Types, PlaceTypes, CellTypes, Plugged
<1>2. (\A k \in Kinds : slot[k] # None => SlotOf(slot[k]) = k /\ pc[slot[k]] \in OnSlot)'
  BY <1>1 DEF SlotInv, Types, CellTypes, SlotOf
<1>3. NobodyUnplugged'
  BY <1>1 DEF SlotInv, NobodyUnplugged, Plugged, OnSlot, SlotOf
<1> QED
  BY <1>2, <1>3 DEF SlotInv

LEMMA InstallsKeepsSlots ==
    ASSUME Types, ClaimInv, SlotInv, NEW h \in Handlers, Installs(h)
    PROVE  SlotInv'
<1> USE DEF Installs, Goes
<1>1. SlotOf(h) \in Kinds /\ \A g : SlotOf(g)' = SlotOf(g)
  BY DEF SlotOf, Kinds
<1>2. (\A k \in Kinds : slot[k] # None => SlotOf(slot[k]) = k /\ pc[slot[k]] \in OnSlot)'
  BY <1>1 DEF SlotInv, Types, CellTypes, PlaceTypes, OnSlot
<1>3. NobodyUnplugged'
  <2> SUFFICES ASSUME mishap' # "mixed", NEW g \in Handlers, pc'[g] \in Plugged
               PROVE  slot'[SlotOf(g)'] = g
    BY DEF NobodyUnplugged, Plugged, OnSlot
  <2>1. CASE g = h
    BY <1>1, <2>1 DEF Types, CellTypes
  <2>2. CASE g # h
    <3>1. pc[g] \in Plugged
      BY <2>2 DEF Types, PlaceTypes
    <3>2. SlotOf(g) # SlotOf(h)
      BY <2>2, <3>1, OneUserOfASlot DEF AtSlot, Plugged
    <3>3. SlotOf(g) \in Kinds /\ slot[SlotOf(g)] = g
      BY <3>1 DEF SlotInv, NobodyUnplugged, Plugged, OnSlot, SlotOf, Kinds
    <3> QED
      BY <1>1, <3>2, <3>3 DEF Types, CellTypes
  <2> QED
    BY <2>1, <2>2
<1> QED
  BY <1>2, <1>3 DEF SlotInv

LEMMA ClearsKeepsSlots ==
    ASSUME Types, ClaimInv, SlotInv, NEW h \in Handlers, ClearsSlot(h)
    PROVE  SlotInv'
<1> USE DEF ClearsSlot, Goes
<1>1. SlotOf(h) \in Kinds /\ \A g : SlotOf(g)' = SlotOf(g)
  BY DEF SlotOf, Kinds
<1>2. (\A k \in Kinds : slot[k] # None => SlotOf(slot[k]) = k /\ pc[slot[k]] \in OnSlot)'
  <2> SUFFICES ASSUME NEW k \in Kinds, slot'[k] # None
               PROVE  (SlotOf(slot[k]) = k /\ pc[slot[k]] \in OnSlot)'
    OBVIOUS
  <2>1. k # SlotOf(h) /\ slot'[k] = slot[k]
    BY <1>1 DEF Types, CellTypes
  <2>2. SlotOf(slot[k]) = k /\ pc[slot[k]] \in OnSlot /\ slot[k] \in Handlers
    BY <2>1 DEF SlotInv, Types, CellTypes
  <2>3. slot[k] # h
    BY <2>1, <2>2
  <2>4. (SlotOf(slot[k]) = k)'
    BY <2>1, <2>2 DEF SlotOf
  <2> QED
    BY <2>1, <2>2, <2>3, <2>4 DEF Types, PlaceTypes
<1>3. NobodyUnplugged'
  <2> SUFFICES ASSUME mishap' # "mixed", NEW g \in Handlers, pc'[g] \in Plugged
               PROVE  slot'[SlotOf(g)'] = g
    BY DEF NobodyUnplugged, Plugged, OnSlot
  <2>1. g # h /\ pc[g] \in Plugged
    BY DEF Types, PlaceTypes, Plugged, OnSlot
  <2>2. SlotOf(g) # SlotOf(h)
    BY <2>1, OneUserOfASlot DEF AtSlot, Plugged, OnSlot
  <2>3. SlotOf(g) \in Kinds /\ slot[SlotOf(g)] = g
    BY <2>1 DEF SlotInv, NobodyUnplugged, Plugged, OnSlot, SlotOf, Kinds
  <2> QED
    BY <1>1, <2>2, <2>3 DEF Types, CellTypes
<1> QED
  BY <1>2, <1>3 DEF SlotInv

LEMMA SlotInvariant ==
    ASSUME Types, ClaimInv, SlotInv, [Next]_vars
    PROVE  SlotInv'
<1> USE DEF client, wire, Goes
<1>1. ASSUME NEW h \in Handlers, Claims(h) \/ DropsClaim(h)
      PROVE  SlotInv'
  <2>1. PICK to, d : /\ pc' = [pc EXCEPT ![h] = to] /\ pc[h] \notin OnSlot /\ to \notin OnSlot
                     /\ UNCHANGED dual \/ dual' = [dual EXCEPT ![h] = d]
    BY <1>1 DEF Claims, Acquire, DropsClaim, OnSlot
  <2>2. UNCHANGED slot /\ (mishap' # "mixed" => mishap # "mixed")
    BY <1>1 DEF Claims, Acquire, Happens, DropsClaim
  <2> QED
    BY <2>1, <2>2, MovesKeepSlots DEF Plugged
<1>2. ASSUME NEW h \in Runs, \/ ExecConnects(h) \/ ExecOpens(h) \/ RunTakesEvent(h) \/ RunGivesUp(h)
                             \/ DrainTakesEvent(h) \/ DrainGivesUp(h)
                             \/ TakesInflight(h) \/ LeavesInflight(h)
      PROVE  SlotInv'
  <2> USE DEF ExecConnects, ExecOpens, RunTakesEvent, RunGivesUp, ClosesShell, DrainTakesEvent,
              DrainGivesUp, TakesInflight, LeavesInflight
  <2>1. PICK to : /\ pc' = [pc EXCEPT ![h] = to] \/ UNCHANGED pc
                  /\ pc[h] \in OnSlot => to \in OnSlot
                  /\ to \in Plugged => pc[h] \in Plugged
    <3>1. CASE ExecConnects(h) \/ TakesInflight(h) \/ LeavesInflight(h)
      BY <3>1 DEF OnSlot, Plugged
    <3>2. CASE ExecOpens(h) \/ RunTakesEvent(h) \/ RunGivesUp(h)
      BY <3>2 DEF OnSlot, Plugged
    <3>3. CASE DrainTakesEvent(h) \/ DrainGivesUp(h)
      BY <3>3 DEF OnSlot, Plugged
    <3> QED
      BY <1>2, <3>1, <3>2, <3>3
  <2>2. UNCHANGED <<slot, dual>>
    BY <1>2
  <2>3. mishap' # "mixed" => mishap # "mixed"
    BY <1>2 DEF Happens
  <2> QED
    BY <2>1, <2>2, <2>3, MovesKeepSlots DEF Handlers
<1>3. ASSUME NEW h \in Consoles,
             \/ ConsoleConnects(h) \/ ConsoleOpens(h) \/ TermTypes(h) \/ RelayTakesEvent(h)
             \/ RelaySeesLinkDown(h) \/ TermLeaves(h) \/ ConsoleCloses(h)
      PROVE  SlotInv'
  <2> USE DEF ConsoleConnects, ConsoleOpens, TermTypes, RelayTakesEvent, RelaySeesLinkDown,
              TermLeaves, ConsoleCloses
  <2>1. PICK to : /\ pc' = [pc EXCEPT ![h] = to] \/ UNCHANGED pc
                  /\ pc[h] \in OnSlot => to \in OnSlot
                  /\ to \in Plugged => pc[h] \in Plugged
    BY <1>3 DEF OnSlot, Plugged
  <2>2. UNCHANGED <<slot, dual>>
    BY <1>3
  <2>3. mishap' # "mixed" => mishap # "mixed"
    BY <1>3 DEF Happens
  <2> QED
    BY <2>1, <2>2, <2>3, MovesKeepSlots DEF Handlers
<1>4. CASE ReaderRoutes \/ Link \/ Host \/ UNCHANGED vars
  <2>1. UNCHANGED <<slot, dual, pc, mishap>>
    BY <1>4 DEF ReaderRoutes, Link, LinkDrops, ForgetsHost, HostAnswers, LearnsHost, LosesPacket,
                Host, HostTakesPacket, ShellSpeaks, ShellDies, vars
  <2> QED
    BY <2>1 DEF SlotInv, NobodyUnplugged, SlotOf
<1> QED
  BY <1>1, <1>2, <1>3, <1>4, InstallsKeepsSlots, ClearsKeepsSlots
     DEF Next, ExecHandler, ConsoleHandler, Handlers

OwnerInv == Types /\ ClaimInv /\ SlotInv

LEMMA OwnersInvariant == Spec => []OwnerInv
<1>1. Init => OwnerInv
  <2>1. Init => SlotInv
    BY DEF Init, SlotInv, NobodyUnplugged, Handlers
  <2> QED
    BY <2>1, InitTypes, InitClaims DEF OwnerInv
<1>2. OwnerInv /\ [Next]_vars => OwnerInv'
  BY NextTypes, ClaimInvariant, SlotInvariant DEF OwnerInv
<1> QED
  BY <1>1, <1>2, PTL DEF Spec

(* The owner state of shell_channel.rs is the claims that are out, one     *)
(* console at most; on a host with one shell slot runs and consoles        *)
(* exclude each other; and a handler with a shell open is the one its      *)
(* event slot feeds: for any number of handlers, reconnects and failures.  *)
THEOREM OneOwnerOfEveryClaim == Spec => []ClaimsHaveOneOwner
<1>1. OwnerInv => ClaimsAreCounted
  <2> SUFFICES ASSUME OwnerInv
               PROVE  ClaimsAreCounted
    OBVIOUS
  <2>1. inflight # None => pc[inflight] \in Claimed \ {"queue", "unclaim"}
    BY DEF OwnerInv, Types, CellTypes, ClaimInv, Holding, Claimed
  <2>2. Cardinality(Present \cap Consoles) = IF interactive = "taken" THEN 1 ELSE 0
    <3>1. CASE interactive = "taken"
      <4>1. PICK c \in Present \cap Consoles : Present \cap Consoles = {c}
        BY <3>1 DEF OwnerInv, ClaimInv
      <4> QED
        BY <3>1, <4>1, FS_Singleton
    <3>2. CASE interactive # "taken"
      <4>1. Present \cap Consoles = {}
        BY <3>2 DEF OwnerInv, ClaimInv
      <4> QED
        BY <3>2, <4>1, FS_EmptySet
    <3> QED
      BY <3>1, <3>2
  <2> QED
    BY <2>1, <2>2 DEF ClaimsAreCounted, OwnerInv, ClaimInv
<1>2. OwnerInv => ClaimsHaveOneOwner
  BY <1>1 DEF OwnerInv, ClaimInv, SlotInv, ClaimsHaveOneOwner
<1> QED
  BY <1>2, OwnersInvariant, PTL

----------------------------------------------------------------------------
(* Lanes.                                                                  *)

LEMMA SendAppends ==
    ASSUME Types, NEW ops \in Seq(Op), NEW h \in Handlers, Send(ops, h)
    PROVE  /\ Len(up') = Len(up) + Len(ops) /\ DOMAIN up' = 1..Len(up')
           /\ DOMAIN up = 1..Len(up)
           /\ \A i \in 1..Len(up) : up'[i] = up[i]
           /\ \A i \in (Len(up) + 1)..Len(up') :
                 up'[i].from = h /\ up'[i].op = ops[i - Len(up)] /\ i - Len(up) \in 1..Len(ops)
<1>1. PICK q \in Seq(Packet) : /\ up' = up \o q /\ Len(q) = Len(ops)
                               /\ \A i \in 1..Len(ops) : q[i].from = h /\ q[i].op = ops[i]
  <2> DEFINE q == [i \in DOMAIN ops |-> [op |-> ops[i], from |-> h]]
  <2>1. \A i \in 1..Len(ops) : [op |-> ops[i], from |-> h] \in Packet
    BY DEF Packet
  <2>2. q \in Seq(Packet) /\ Len(q) = Len(ops) /\ DOMAIN ops = 1..Len(ops) /\ Len(ops) \in Nat
    BY <2>1
  <2>3. \A i \in 1..Len(ops) : q[i].from = h /\ q[i].op = ops[i]
    BY <2>2
  <2> QED
    BY <2>2, <2>3 DEF Send
<1>2. Len(ops) \in Nat
  OBVIOUS
<1>4. up \in Seq(Packet)
  BY DEF Types, LineTypes
<1>5. Len(up') = Len(up) + Len(ops) /\ Len(up) \in Nat
  <2>1. Len(up) \in Nat
    BY <1>4
  <2>2. Len(up \o q) = Len(up) + Len(q)
    BY <1>4
  <2> QED
    BY <1>1, <2>1, <2>2
<1>6. \A i \in 1..Len(up) : up'[i] = up[i]
  BY <1>1, <1>4
<1>7. \A i \in (Len(up) + 1)..Len(up') : i - Len(up) \in 1..Len(ops) /\ up'[i] = q[i - Len(up)]
  BY <1>1, <1>2, <1>4, <1>5
<1>8. DOMAIN up' = 1..Len(up') /\ DOMAIN up = 1..Len(up)
  BY <1>4, SendType
<1> QED
  BY <1>1, <1>5, <1>6, <1>7, <1>8

(* A handler at its slot sends in its own dialect, and stays mid-session   *)
(* or ends with its close.                                                 *)
LEMMA SendKeepsLanes ==
    ASSUME Types, ClaimInv, LaneInv, NEW h \in Handlers, NEW ops \in Seq(Op), ops # <<>>,
           Send(ops, h), pc[h] \in AtSlot, NEW to,
           pc' = [pc EXCEPT ![h] = to],
           \A i \in 1..Len(ops) : Lane(ops[i]) = SlotOf(h),
           to \in MidSession \/ ops[Len(ops)] \in {"ShellClose", "PtyClose"},
           Tidy' => Tidy,
           UNCHANGED <<dual, shell, link>>
    PROVE  LaneInv'
<1> DEFINE n == Len(up)
<1>1. OneShellPerLane'
  BY DEF LaneInv, OneShellPerLane, LegacyPty
<1> SUFFICES ASSUME Tidy'
             PROVE  QueueInv' /\ (Live => OpenShellInv)' /\ InputStaysHome'
  BY <1>1 DEF LaneInv
<1>2. Tidy /\ mishap # "mixed" /\ QueueInv /\ (Live => OpenShellInv) /\ InputStaysHome
  BY DEF LaneInv, Tidy
<1>3. n \in Nat /\ Len(ops) \in Nat \ {0} /\ up \in Seq(Packet)
  BY DEF Types, LineTypes
<1>4. Len(up') = n + Len(ops) /\ DOMAIN up' = 1..Len(up') /\ DOMAIN up = 1..n
  BY SendAppends
<1>5. \A i \in 1..n : up'[i] = up[i] /\ up'[i].from \in Handlers
  <2>1. \A i \in 1..n : up[i] \in Packet /\ up'[i] = up[i]
    BY <1>3, SendAppends
  <2>2. \A x \in Packet : x.from \in Handlers
    BY DEF Packet
  <2> QED
    BY <2>1, <2>2
<1>6. \A i \in (n + 1)..Len(up') : up'[i].from = h /\ Lane(up'[i].op) = SlotOf(h)
  BY SendAppends
<1>8. \A g \in Handlers : g # h => pc'[g] = pc[g]
  BY DEF Types, PlaceTypes
<1>9. pc'[h] \in MidSession \/ Closes(up'[Len(up')], SlotOf(h))
  <2>1. CASE to \in MidSession
    BY <2>1 DEF Types, PlaceTypes
  <2>2. CASE ops[Len(ops)] \in {"ShellClose", "PtyClose"}
    <3>1. up'[Len(up')].op = ops[Len(ops)]
      BY <1>3, <1>4, SendAppends
    <3>2. Lane(up'[Len(up')].op) = SlotOf(h)
      BY <1>3, <1>4, <1>6
    <3> QED
      BY <2>2, <3>1, <3>2 DEF Closes
  <2> QED
    BY <2>1, <2>2
<1>10. \A lane : \A c \in 1..n : Closes(up[c], lane) => Closes(up'[c], lane)
  BY <1>5 DEF Closes
<1>11. ASSUME NEW g \in Handlers, pc[g] \in MidSession, SlotOf(g) = SlotOf(h)
       PROVE  g = h
  BY <1>2, <1>11, OneUserOfASlot DEF MidSession, AtSlot, OnSlot
<1>12. ASSUME NEW g \in Handlers, pc[g] \in MidSession
       PROVE  pc'[g] \in MidSession \/ Closes(up'[Len(up')], SlotOf(g))
  BY <1>8, <1>9, <1>12
<1>13. QueueInv'
  <2>1. ASSUME NEW i \in DOMAIN up', NEW j \in DOMAIN up', i < j,
               Lane(up'[i].op) = Lane(up'[j].op), up'[i].from # up'[j].from
        PROVE  \E c \in i..(j - 1) : Closes(up'[c], Lane(up'[i].op))
    <3>1. CASE j <= n
      <4>1. i \in 1..n /\ j \in 1..n /\ i \in Nat /\ j \in Nat
        BY <1>3, <1>4, <2>1, <3>1
      <4>2. up'[i] = up[i] /\ up'[j] = up[j]
        BY <1>5, <4>1
      <4>3. PICK c \in i..(j - 1) : Closes(up[c], Lane(up[i].op))
        BY <1>2, <1>4, <2>1, <4>1, <4>2 DEF QueueInv
      <4>4. c \in 1..n
        BY <1>3, <3>1, <4>1
      <4> QED
        BY <1>10, <4>2, <4>3, <4>4
    <3>2. CASE j > n
      <4>1. i <= n /\ up'[j].from = h /\ Lane(up[i].op) = SlotOf(h) /\ up[i].from # h
        BY <1>3, <1>4, <1>5, <1>6, <2>1, <3>2
      <4>2. \E c \in i..n : Closes(up[c], Lane(up[i].op))
        BY <1>2, <1>4, <1>5, <1>11, <2>1, <4>1 DEF QueueInv
      <4> QED
        BY <1>3, <1>4, <1>5, <1>10, <2>1, <3>2, <4>1, <4>2
    <3> QED
      BY <1>3, <1>4, <2>1, <3>1, <3>2
  <2>2. ASSUME NEW i \in DOMAIN up'
        PROVE  \/ \E c \in i..Len(up') : Closes(up'[c], Lane(up'[i].op))
               \/ pc'[up'[i].from] \in MidSession /\ SlotOf(up'[i].from) = Lane(up'[i].op)
    <3>1. CASE i <= n
      <4>1. CASE \E c \in i..n : Closes(up[c], Lane(up[i].op))
        BY <1>3, <1>4, <1>5, <1>10, <2>2, <3>1, <4>1
      <4>2. CASE pc[up[i].from] \in MidSession /\ SlotOf(up[i].from) = Lane(up[i].op)
        BY <1>3, <1>4, <1>5, <1>12, <2>2, <3>1, <4>2
      <4> QED
        BY <1>2, <1>3, <1>4, <2>2, <3>1, <4>1, <4>2 DEF QueueInv
    <3>2. CASE i > n
      BY <1>3, <1>4, <1>6, <1>9, <2>2, <3>2
    <3> QED
      BY <1>3, <1>4, <2>2, <3>1, <3>2
  <2> QED
    BY <2>1, <2>2 DEF QueueInv, SlotOf
<1>14. (Live => OpenShellInv)'
  <2> SUFFICES ASSUME Live, NEW k \in Kinds, shell[k] # None
               PROVE  /\ \A j \in DOMAIN up' :
                           Lane(up'[j].op) = ShellLane(shell[k]) /\ up'[j].from # shell[k].of
                               => \E c \in 1..(j - 1) : Closes(up'[c], ShellLane(shell[k]))
                      /\ \/ \E c \in DOMAIN up' : Closes(up'[c], ShellLane(shell[k]))
                         \/ /\ pc'[shell[k].of] \in MidSession
                            /\ SlotOf(shell[k].of) = ShellLane(shell[k])
    BY DEF OpenShellInv, Live, SlotOf
  <2>1. shell[k].of \in Handlers
    BY DEF Types, LineTypes, Shell
  <2>2. \/ \E c \in 1..n : Closes(up[c], ShellLane(shell[k]))
        \/ pc[shell[k].of] \in MidSession /\ SlotOf(shell[k].of) = ShellLane(shell[k])
    BY <1>2, <1>4 DEF OpenShellInv
  <2>3. ASSUME NEW j \in DOMAIN up', Lane(up'[j].op) = ShellLane(shell[k]), up'[j].from # shell[k].of
        PROVE  \E c \in 1..(j - 1) : Closes(up'[c], ShellLane(shell[k]))
    <3>1. CASE j <= n
      <4>1. \E c \in 1..(j - 1) : Closes(up[c], ShellLane(shell[k]))
        BY <1>2, <1>3, <1>4, <1>5, <2>3, <3>1 DEF OpenShellInv
      <4> QED
        BY <1>3, <1>4, <1>10, <2>3, <3>1, <4>1
    <3>2. CASE j > n
      <4>1. up'[j].from = h /\ ShellLane(shell[k]) = SlotOf(h) /\ shell[k].of # h
        BY <1>3, <1>4, <1>6, <2>3, <3>2
      <4>2. \E c \in 1..n : Closes(up[c], ShellLane(shell[k]))
        BY <1>11, <2>1, <2>2, <4>1
      <4> QED
        BY <1>3, <1>4, <1>10, <2>3, <3>2, <4>2
    <3> QED
      BY <1>3, <1>4, <2>3, <3>1, <3>2
  <2>4. \/ \E c \in DOMAIN up' : Closes(up'[c], ShellLane(shell[k]))
        \/ pc'[shell[k].of] \in MidSession /\ SlotOf(shell[k].of) = ShellLane(shell[k])
    <3>1. CASE \E c \in 1..n : Closes(up[c], ShellLane(shell[k]))
      BY <1>3, <1>4, <1>10, <3>1
    <3>2. CASE pc[shell[k].of] \in MidSession /\ SlotOf(shell[k].of) = ShellLane(shell[k])
      BY <1>3, <1>4, <1>12, <2>1, <3>2
    <3> QED
      BY <2>2, <3>1, <3>2
  <2> QED
    BY <2>3, <2>4
<1>15. InputStaysHome'
  BY <1>2 DEF InputStaysHome, Tidy
<1> QED
  BY <1>13, <1>14, <1>15

(* A handler that sends nothing stays mid-session if it was. *)
LEMMA MovesKeepLanes ==
    ASSUME Types, LaneInv, NEW h \in Handlers, NEW to, NEW d,
           pc' = [pc EXCEPT ![h] = to] \/ UNCHANGED pc,
           pc[h] \in MidSession => to \in MidSession,
           UNCHANGED dual \/ (pc[h] \notin MidSession /\ dual' = [dual EXCEPT ![h] = d]),
           Tidy' => Tidy,
           UNCHANGED <<up, shell, link>>
    PROVE  LaneInv'
<1>1. \A g \in Handlers : pc[g] \in MidSession => pc'[g] \in MidSession /\ dual'[g] = dual[g]
  BY DEF Types, PlaceTypes, CellTypes
<1>2. OneShellPerLane'
  BY DEF LaneInv, OneShellPerLane, LegacyPty
<1> SUFFICES ASSUME Tidy'
             PROVE  QueueInv' /\ (Live => OpenShellInv)' /\ InputStaysHome'
  BY <1>2 DEF LaneInv
<1>3. Tidy /\ QueueInv /\ (Live => OpenShellInv) /\ InputStaysHome
  BY DEF LaneInv
<1>4. \A i \in DOMAIN up : up[i].from \in Handlers
  <2>1. up \in Seq(Packet) /\ \A x \in Packet : x.from \in Handlers
    BY DEF Types, LineTypes, Packet
  <2> QED
    BY <2>1
<1>5. \A k \in Kinds : shell[k] # None => shell[k].of \in Handlers
  BY DEF Types, LineTypes, Shell
<1>6. QueueInv'
  BY <1>1, <1>3, <1>4 DEF QueueInv, SlotOf
<1>7. (Live => OpenShellInv)'
  BY <1>1, <1>3, <1>5 DEF OpenShellInv, Live, SlotOf
<1>8. InputStaysHome'
  BY <1>3 DEF InputStaysHome, Tidy
<1> QED
  BY <1>6, <1>7, <1>8

(* The first packet leaves the queue. *)
LEMMA TailKeepsQueue ==
    ASSUME Types, QueueInv, up # <<>>, up' = Tail(up), UNCHANGED <<pc, dual>>
    PROVE  /\ QueueInv'
           /\ Len(up) \in Nat \ {0} /\ Len(up') = Len(up) - 1
           /\ DOMAIN up = 1..Len(up) /\ DOMAIN up' = 1..Len(up')
           /\ \A i \in 1..Len(up') : up'[i] = up[i + 1]
<1>1. up \in Seq(Packet) /\ up' \in Seq(Packet) /\ Len(up) \in Nat \ {0} /\ Len(up') = Len(up) - 1
  BY DEF Types, LineTypes
<1>2. \A i \in 1..Len(up') : up'[i] = up[i + 1]
  BY <1>1
<1>3. DOMAIN up = 1..Len(up) /\ DOMAIN up' = 1..Len(up')
  BY <1>1
<1>4. ASSUME NEW i \in DOMAIN up', NEW j \in DOMAIN up', i < j,
             Lane(up'[i].op) = Lane(up'[j].op), up'[i].from # up'[j].from
      PROVE  \E c \in i..(j - 1) : Closes(up'[c], Lane(up'[i].op))
  <2>1. PICK c \in (i + 1)..j : Closes(up[c], Lane(up[i + 1].op))
    <3>1. i + 1 \in DOMAIN up /\ j + 1 \in DOMAIN up /\ i + 1 < j + 1 /\ (j + 1) - 1 = j
      BY <1>1, <1>3, <1>4
    <3> QED
      BY <1>2, <1>3, <1>4, <3>1 DEF QueueInv
  <2>2. c - 1 \in i..(j - 1) /\ up'[c - 1] = up[c] /\ up'[i] = up[i + 1]
    BY <1>1, <1>2, <1>3, <1>4
  <2> QED
    BY <2>1, <2>2
<1>5. ASSUME NEW i \in DOMAIN up'
      PROVE  \/ \E c \in i..Len(up') : Closes(up'[c], Lane(up'[i].op))
             \/ pc[up'[i].from] \in MidSession /\ SlotOf(up'[i].from) = Lane(up'[i].op)
  <2>1. i + 1 \in DOMAIN up /\ up'[i] = up[i + 1]
    BY <1>1, <1>2, <1>3
  <2>2. CASE \E c \in (i + 1)..Len(up) : Closes(up[c], Lane(up[i + 1].op))
    <3>1. PICK c \in (i + 1)..Len(up) : Closes(up[c], Lane(up[i + 1].op))
      BY <2>2
    <3>2. c - 1 \in i..Len(up') /\ up'[c - 1] = up[c]
      BY <1>1, <1>2, <1>3
    <3> QED
      BY <2>1, <3>1, <3>2
  <2>3. CASE pc[up[i + 1].from] \in MidSession /\ SlotOf(up[i + 1].from) = Lane(up[i + 1].op)
    BY <2>1, <2>3
  <2> QED
    BY <2>1, <2>2, <2>3 DEF QueueInv
<1> QED
  BY <1>1, <1>2, <1>3, <1>4, <1>5 DEF QueueInv, SlotOf

(* A shell that runs after the host took the first packet ran before and   *)
(* was not closed by it, or was opened by it.                              *)
Survives(k) ==
    /\ shell[k] # None /\ shell'[k].of = shell[k].of /\ shell'[k].dialect = shell[k].dialect
    /\ ~Closes(up[1], ShellLane(shell[k]))

Opened(k) ==
    /\ shell'[k].of = up[1].from /\ ShellLane(shell'[k]) = Lane(up[1].op)
    /\ \A lane : ~Closes(up[1], lane)

LEMMA TailKeepsShells ==
    ASSUME Types, QueueInv, OpenShellInv, up # <<>>, up' = Tail(up), UNCHANGED <<pc, dual>>,
           \A k \in Kinds : shell'[k] # None => Survives(k) \/ Opened(k)
    PROVE  OpenShellInv'
<1> SUFFICES ASSUME NEW k \in Kinds, shell'[k] # None
             PROVE  /\ \A j \in DOMAIN up' :
                         Lane(up'[j].op) = ShellLane(shell'[k]) /\ up'[j].from # shell'[k].of
                             => \E c \in 1..(j - 1) : Closes(up'[c], ShellLane(shell'[k]))
                    /\ \/ \E c \in DOMAIN up' : Closes(up'[c], ShellLane(shell'[k]))
                       \/ /\ pc[shell'[k].of] \in MidSession
                          /\ SlotOf(shell'[k].of) = ShellLane(shell'[k])
  BY DEF OpenShellInv, SlotOf
<1> DEFINE lane == ShellLane(shell'[k])
<1>1. /\ Len(up) \in Nat \ {0} /\ Len(up') = Len(up) - 1
      /\ DOMAIN up = 1..Len(up) /\ DOMAIN up' = 1..Len(up')
      /\ \A i \in 1..Len(up') : up'[i] = up[i + 1]
  BY TailKeepsQueue
<1>2. ~Closes(up[1], lane)
  BY DEF Survives, Opened, ShellLane
<1>3. \A c \in 1..Len(up) : Closes(up[c], lane) => c - 1 \in 1..Len(up') /\ Closes(up'[c - 1], lane)
  <2> SUFFICES ASSUME NEW c \in 1..Len(up), Closes(up[c], lane)
               PROVE  c - 1 \in 1..Len(up') /\ Closes(up'[c - 1], lane)
    OBVIOUS
  <2>1. c # 1
    BY <1>2
  <2>2. c - 1 \in 1..Len(up') /\ (c - 1) + 1 = c
    BY <1>1, <2>1
  <2>3. up'[c - 1] = up[c]
    BY <1>1, <2>2
  <2> QED
    BY <2>2, <2>3
<1>4. ASSUME NEW j \in DOMAIN up', Lane(up'[j].op) = lane, up'[j].from # shell'[k].of
      PROVE  \E c \in 1..(j - 1) : Closes(up'[c], lane)
  <2>1. j + 1 \in DOMAIN up /\ up'[j] = up[j + 1] /\ (j + 1) - 1 = j /\ 1 < j + 1 /\ 1 \in DOMAIN up
    BY <1>1, <1>4
  <2>2. PICK c \in 1..j : Closes(up[c], lane)
    <3>1. CASE Survives(k)
      BY <1>4, <2>1, <3>1 DEF OpenShellInv, Survives, ShellLane
    <3>2. CASE Opened(k)
      BY <1>4, <2>1, <3>2 DEF QueueInv, Opened
    <3> QED
      BY <3>1, <3>2
  <2>3. c \in 1..Len(up) /\ c - 1 <= j - 1
    BY <1>1, <1>4
  <2> QED
    BY <1>1, <1>3, <1>4, <2>2, <2>3
<1>5. \/ \E c \in DOMAIN up' : Closes(up'[c], lane)
      \/ pc[shell'[k].of] \in MidSession /\ SlotOf(shell'[k].of) = lane
  <2>1. \/ \E c \in 1..Len(up) : Closes(up[c], lane)
        \/ pc[shell'[k].of] \in MidSession /\ SlotOf(shell'[k].of) = lane
    <3>1. CASE Survives(k)
      BY <1>1, <3>1 DEF OpenShellInv, Survives, ShellLane
    <3>2. CASE Opened(k)
      <4>1. 1 \in DOMAIN up
        BY <1>1
      <4> QED
        BY <3>2, <4>1 DEF QueueInv, Opened
    <3> QED
      BY <3>1, <3>2
  <2> QED
    BY <1>1, <1>3, <2>1
<1> QED
  BY <1>4, <1>5

LEMMA HostKeepsLanes ==
    ASSUME Types, LaneInv, HostTakesPacket
    PROVE  LaneInv'
<1> DEFINE m == Head(up)
<1>1. m = up[1] /\ m \in Packet /\ 1 \in DOMAIN up /\ up # <<>> /\ up' = Tail(up)
      /\ UNCHANGED <<pc, dual, mishap, link>>
  <2>1. up \in Seq(Packet) /\ up # <<>>
    BY DEF HostTakesPacket, Types, LineTypes
  <2> QED
    BY <2>1 DEF HostTakesPacket
<1>2. \A k \in Kinds : shell[k] # None => shell[k] \in Shell /\ shell[k].dialect \in {"original", "dedicated"}
  BY DEF Types, LineTypes, Shell
<1>3. shell \in [Kinds -> Shell \cup {None}] /\ m.from \in Handlers
  BY <1>1 DEF Types, LineTypes, Packet
<1>4. OneShellPerLane
  BY DEF LaneInv
<1>5. CASE HostOpens(m)
  <2>1. CASE UNCHANGED shell
    <3>1. OneShellPerLane'
      BY <1>4, <2>1 DEF OneShellPerLane, LegacyPty
    <3>2. \A k \in Kinds : shell'[k] # None => Survives(k)
      BY <1>1, <1>5, <2>1 DEF HostOpens, Survives, Closes
    <3>3. InputStaysHome => InputStaysHome'
      BY <1>1, <2>1 DEF InputStaysHome
    <3> QED
      BY <1>1, <3>1, <3>2, <3>3, TailKeepsQueue, TailKeepsShells DEF LaneInv, HostTakesPacket, Tidy, Live
  <2>2. CASE \E k \in Kinds, dialect \in {"original", "dedicated"} :
               /\ shell' = [shell EXCEPT ![k] = [of |-> m.from, dialect |-> dialect, typed |-> {}]]
               /\ Lane(m.op) = (IF dialect = "original" THEN "exec" ELSE "pty")
               /\ m.op \in {"ShellOpen", "ShellOpenPty", "PtyOpen"}
               /\ k = "exec" => dialect = "original" /\ ~LegacyPty
               /\ k = "pty" /\ dialect = "original" => shell["exec"] = None
    <3>1. PICK k \in Kinds, dialect \in {"original", "dedicated"} :
               /\ shell' = [shell EXCEPT ![k] = [of |-> m.from, dialect |-> dialect, typed |-> {}]]
               /\ Lane(m.op) = (IF dialect = "original" THEN "exec" ELSE "pty")
               /\ m.op \in {"ShellOpen", "ShellOpenPty", "PtyOpen"}
               /\ k = "exec" => dialect = "original" /\ ~LegacyPty
               /\ k = "pty" /\ dialect = "original" => shell["exec"] = None
      BY <2>2
    <3>2. /\ shell'[k].of = m.from /\ shell'[k].dialect = dialect /\ shell'[k].typed = {}
          /\ \A j \in Kinds \ {k} : shell'[j] = shell[j]
      BY <1>3, <3>1
    <3>3. OneShellPerLane'
      BY <1>3, <1>4, <3>1, <3>2 DEF OneShellPerLane, LegacyPty, Kinds
    <3>4. \A j \in Kinds : shell'[j] # None => Survives(j) \/ Opened(j)
      BY <1>1, <3>1, <3>2 DEF Survives, Opened, Closes, ShellLane
    <3>5. InputStaysHome => InputStaysHome'
      BY <1>1, <3>2 DEF InputStaysHome
    <3> QED
      BY <1>1, <3>3, <3>4, <3>5, TailKeepsQueue, TailKeepsShells DEF LaneInv, HostTakesPacket, Tidy, Live
  <2> QED
    BY <1>5, <2>1, <2>2 DEF HostOpens, Opens, Lane, Kinds
<1>6. CASE HostTypes(m)
  <2> DEFINE target == IF m.op = "ShellInput" THEN OriginalTarget ELSE DedicatedTarget
  <2>1. /\ m.op \in {"ShellInput", "PtyInput"}
        /\ shell' = [k \in Kinds |-> IF k \in target
                       THEN [shell[k] EXCEPT !.typed = @ \cup {m.from}] ELSE shell[k]]
    BY <1>6 DEF HostTypes
  <2>2. \A k \in target : k \in Kinds /\ shell[k] # None /\ Lane(m.op) = ShellLane(shell[k])
    BY <1>2, <1>4, <2>1 DEF OriginalTarget, DedicatedTarget, LegacyPty, DedicatedPty, OneShellPerLane,
                       Lane, ShellLane, Kinds
  <2>3. \A k \in Kinds : k \in target =>
           /\ shell'[k].of = shell[k].of /\ shell'[k].dialect = shell[k].dialect
           /\ shell'[k].typed = shell[k].typed \cup {m.from}
    <3>1. \A s \in Shell : LET t == [s EXCEPT !.typed = @ \cup {m.from}] IN
            t.of = s.of /\ t.dialect = s.dialect /\ t.typed = s.typed \cup {m.from}
      BY DEF Shell
    <3> QED
      BY <1>2, <2>1, <2>2, <3>1
  <2>4. \A k \in Kinds : k \notin target => shell'[k] = shell[k]
    BY <2>1
  <2>5. "exec" \in Kinds /\ "pty" \in Kinds
    BY DEF Kinds
  <2> HIDE DEF target
  <2>6. OneShellPerLane'
    BY <1>4, <2>2, <2>3, <2>4, <2>5 DEF OneShellPerLane, LegacyPty
  <2>7. \A k \in Kinds : shell'[k] # None => Survives(k)
    BY <1>1, <2>1, <2>2, <2>3, <2>4 DEF Survives, Closes
  <2>8. OpenShellInv /\ InputStaysHome => InputStaysHome'
    <3> SUFFICES ASSUME OpenShellInv, InputStaysHome, Tidy, NEW k \in target
                 PROVE  shell'[k].typed \subseteq {shell'[k].of}
      BY <1>1, <2>2, <2>4 DEF InputStaysHome, Tidy
    <3>1. m.from = shell[k].of
      BY <1>1, <2>2 DEF OpenShellInv
    <3> QED
      BY <2>2, <2>3, <3>1 DEF InputStaysHome, Tidy
  <2> QED
    BY <1>1, <2>6, <2>7, <2>8, TailKeepsQueue, TailKeepsShells DEF LaneInv, HostTakesPacket, Tidy, Live
<1>7. CASE HostCloses(m)
  <2> DEFINE target == IF m.op = "ShellClose" THEN OriginalTarget ELSE DedicatedTarget
  <2>1. /\ m.op \in {"ShellClose", "PtyClose"}
        /\ shell' = [k \in Kinds |-> IF k \in target THEN None ELSE shell[k]]
    BY <1>7 DEF HostCloses
  <2>2. \A k \in Kinds \ target : shell[k] # None => ~Closes(m, ShellLane(shell[k]))
    BY <1>2, <1>4, <2>1 DEF OriginalTarget, DedicatedTarget, LegacyPty, DedicatedPty, OneShellPerLane,
                       Lane, ShellLane, Kinds, Closes
  <2>3. \A k \in Kinds : shell'[k] # None => k \notin target /\ shell'[k] = shell[k]
    BY <2>1
  <2> HIDE DEF target
  <2>4. OneShellPerLane'
    BY <1>4, <2>3 DEF OneShellPerLane, LegacyPty, Kinds
  <2>5. \A k \in Kinds : shell'[k] # None => Survives(k)
    BY <1>1, <2>2, <2>3 DEF Survives
  <2>6. InputStaysHome => InputStaysHome'
    BY <1>1, <2>3 DEF InputStaysHome
  <2> QED
    BY <1>1, <2>4, <2>5, <2>6, TailKeepsQueue, TailKeepsShells DEF LaneInv, HostTakesPacket, Tidy, Live
<1>8. CASE HostIgnores(m)
  <2>1. OneShellPerLane'
    BY <1>4, <1>8 DEF HostIgnores, OneShellPerLane, LegacyPty
  <2>2. \A k \in Kinds : shell'[k] # None => Survives(k)
    BY <1>1, <1>8 DEF HostIgnores, Survives, Closes
  <2>3. InputStaysHome => InputStaysHome'
    BY <1>1, <1>8 DEF HostIgnores, InputStaysHome
  <2> QED
    BY <1>1, <2>1, <2>2, <2>3, TailKeepsQueue, TailKeepsShells DEF LaneInv, HostTakesPacket, Tidy, Live
<1> QED
  BY <1>5, <1>6, <1>7, <1>8 DEF HostTakesPacket

LEMMA TidyBefore ==
    ASSUME Types, [Next]_vars
    PROVE  Tidy' => Tidy
<1>1. \A what \in {"late", "leaked", "mixed"} : Happens(what) => (Tidy' => Tidy)
  BY DEF Happens, Tidy, Types, CellTypes
<1>2. \/ UNCHANGED mishap
      \/ \E what \in {"late", "leaked", "mixed"} : Happens(what)
  BY DEF Next, ExecHandler, ConsoleHandler, ExecConnects, Claims, Acquire, TakesInflight, Installs,
         ExecOpens, RunTakesEvent, RunGivesUp, DrainTakesEvent, DrainGivesUp, ClearsSlot,
         LeavesInflight, DropsClaim, ConsoleConnects, ConsoleOpens, TermTypes, RelayTakesEvent,
         RelaySeesLinkDown, TermLeaves, ConsoleCloses, ReaderRoutes, Link, LinkDrops, ForgetsHost,
         HostAnswers, LearnsHost, LosesPacket, Host, HostTakesPacket, ShellSpeaks, ShellDies, vars
<1> QED
  BY <1>1, <1>2 DEF Tidy

(* After a mishap only the host's own rule is left to keep. *)
LEMMA UntidyKeepsLanes ==
    ASSUME LaneInv, ~Tidy', UNCHANGED shell
    PROVE  LaneInv'
BY DEF LaneInv, OneShellPerLane, LegacyPty

LEMMA ExecKeepsLanes ==
    ASSUME Types, ClaimInv, LaneInv, NEW h \in Runs, ExecHandler(h), Tidy' => Tidy
    PROVE  LaneInv'
<1> USE DEF wire, Goes
<1>0. h \in Handlers /\ SlotOf(h) = "exec" /\ pc \in [Handlers -> Places]
  BY DEF Handlers, SlotOf, Types, PlaceTypes
<1>1. CASE ExecOpens(h)
  <2>1. CASE pc' = [pc EXCEPT ![h] = "run"] /\ Send(<<"ShellOpen", "ShellInput">>, h)
    <3> DEFINE ops == <<"ShellOpen", "ShellInput">>
    <3>1. ops \in Seq(Op) /\ ops # <<>> /\ \A i \in 1..Len(ops) : Lane(ops[i]) = "exec"
      BY DEF Op, Lane
    <3>2. pc[h] \in AtSlot /\ "run" \in MidSession /\ UNCHANGED <<dual, shell, link>>
      BY <1>1 DEF ExecOpens, AtSlot, OnSlot, MidSession
    <3> HIDE DEF ops
    <3>3. Send(ops, h)
      BY <2>1 DEF ops
    <3> QED
      BY <1>0, <2>1, <3>1, <3>2, <3>3, SendKeepsLanes
  <2>2. CASE Happens("leaked")
    BY <1>1, <2>2, UntidyKeepsLanes DEF ExecOpens, Happens, Tidy
  <2> QED
    BY <1>1, <2>1, <2>2 DEF ExecOpens
<1>2. ASSUME ClosesShell(h), UNCHANGED <<dual, shell, link>>
      PROVE  LaneInv'
  <2> DEFINE ops == <<"ShellClose">>
  <2>1. /\ ops \in Seq(Op) /\ ops # <<>> /\ \A i \in 1..Len(ops) : Lane(ops[i]) = "exec"
        /\ ops[Len(ops)] = "ShellClose"
    BY DEF Op, Lane
  <2>2. pc[h] \in AtSlot /\ pc' = [pc EXCEPT ![h] = "drain"]
    BY <1>2 DEF ClosesShell, AtSlot, OnSlot
  <2>3. Send(ops, h)
    BY <1>2 DEF ClosesShell
  <2> HIDE DEF ops
  <2> QED
    BY <1>0, <1>2, <2>1, <2>2, <2>3, SendKeepsLanes
<1>3. CASE RunTakesEvent(h) \/ RunGivesUp(h)
  <2>1. CASE ClosesShell(h)
    BY <1>2, <1>3, <2>1 DEF RunTakesEvent, RunGivesUp
  <2>2. CASE UNCHANGED <<pc, up>>
    BY <1>0, <1>3, <2>2, MovesKeepLanes DEF RunTakesEvent, RunGivesUp
  <2> QED
    BY <1>3, <2>1, <2>2 DEF RunTakesEvent, RunGivesUp
<1>4. CASE Claims(h) \/ DropsClaim(h)
  <2>1. PICK to, d : /\ pc' = [pc EXCEPT ![h] = to] /\ pc[h] \notin MidSession
                     /\ UNCHANGED dual \/ dual' = [dual EXCEPT ![h] = d]
    BY <1>4 DEF Claims, Acquire, DropsClaim, MidSession
  <2>2. UNCHANGED <<up, shell, link>>
    BY <1>4 DEF Claims, DropsClaim
  <2> QED
    BY <1>0, <2>1, <2>2, MovesKeepLanes
<1>5. CASE \/ ExecConnects(h) \/ TakesInflight(h) \/ Installs(h) \/ DrainTakesEvent(h)
           \/ DrainGivesUp(h) \/ ClearsSlot(h) \/ LeavesInflight(h)
  <2>1. UNCHANGED <<up, shell, link, dual>> /\ pc[h] \notin MidSession
    BY <1>5 DEF ExecConnects, TakesInflight, Installs, DrainTakesEvent, DrainGivesUp, ClearsSlot,
                LeavesInflight, MidSession
  <2>2. PICK to : pc' = [pc EXCEPT ![h] = to]
    BY <1>5 DEF ExecConnects, TakesInflight, Installs, DrainTakesEvent, DrainGivesUp, ClearsSlot,
                LeavesInflight
  <2> QED
    BY <1>0, <2>1, <2>2, MovesKeepLanes
<1> QED
  BY <1>1, <1>3, <1>4, <1>5 DEF ExecHandler

LEMMA ConsoleKeepsLanes ==
    ASSUME Types, ClaimInv, LaneInv, NEW h \in Consoles, ConsoleHandler(h), Tidy' => Tidy
    PROVE  LaneInv'
<1> USE DEF wire, Goes
<1>0. h \in Handlers /\ pc \in [Handlers -> Places]
  BY DEF Handlers, Types, PlaceTypes
<1>1. ASSUME NEW op \in {OpenOp(h), InputOp(h), CloseOp(h)}, Send(<<op>>, h), pc[h] \in AtSlot,
             NEW to, pc' = [pc EXCEPT ![h] = to], to \in MidSession \/ op = CloseOp(h),
             UNCHANGED <<dual, shell, link>>
      PROVE  LaneInv'
  <2> DEFINE ops == <<op>>
  <2>1. op \in Op /\ Lane(op) = SlotOf(h) /\ CloseOp(h) \in {"ShellClose", "PtyClose"}
    BY DEF Op, Lane, SlotOf, OpenOp, InputOp, CloseOp
  <2>2. ops \in Seq(Op) /\ ops # <<>> /\ Len(ops) = 1 /\ ops[1] = op
    BY <2>1
  <2>3. \A i \in 1..Len(ops) : Lane(ops[i]) = SlotOf(h)
    BY <2>1, <2>2
  <2>4. to \in MidSession \/ ops[Len(ops)] \in {"ShellClose", "PtyClose"}
    BY <1>1, <2>1, <2>2
  <2>5. Send(ops, h)
    BY <1>1
  <2> HIDE DEF ops
  <2> QED
    BY <1>0, <1>1, <2>2, <2>3, <2>4, <2>5, SendKeepsLanes
<1>2. CASE ConsoleOpens(h)
  <2>1. CASE pc' = [pc EXCEPT ![h] = "relay"] /\ Send(<<OpenOp(h)>>, h)
    BY <1>1, <1>2, <2>1 DEF ConsoleOpens, AtSlot, OnSlot, MidSession
  <2>2. CASE Happens("leaked")
    BY <1>2, <2>2, UntidyKeepsLanes DEF ConsoleOpens, Happens, Tidy
  <2>3. CASE pc' = [pc EXCEPT ![h] = "unslot"] /\ UNCHANGED up
    BY <1>0, <1>2, <2>3, MovesKeepLanes DEF ConsoleOpens, MidSession
  <2> QED
    BY <1>2, <2>1, <2>2, <2>3 DEF ConsoleOpens
<1>3. CASE TermTypes(h)
  <2>1. pc' = [pc EXCEPT ![h] = pc[h]]
    BY <1>0, <1>3 DEF TermTypes
  <2> QED
    BY <1>1, <1>3, <2>1 DEF TermTypes, AtSlot, OnSlot, MidSession
<1>4. CASE ConsoleCloses(h)
  BY <1>1, <1>4 DEF ConsoleCloses, AtSlot, OnSlot
<1>5. CASE Claims(h) \/ DropsClaim(h)
  <2>1. PICK to, d : /\ pc' = [pc EXCEPT ![h] = to] /\ pc[h] \notin MidSession
                     /\ UNCHANGED dual \/ dual' = [dual EXCEPT ![h] = d]
    BY <1>5 DEF Claims, Acquire, DropsClaim, MidSession
  <2>2. UNCHANGED <<up, shell, link>>
    BY <1>5 DEF Claims, DropsClaim
  <2> QED
    BY <1>0, <2>1, <2>2, MovesKeepLanes
<1>6. CASE \/ ConsoleConnects(h) \/ Installs(h) \/ RelayTakesEvent(h) \/ RelaySeesLinkDown(h)
           \/ TermLeaves(h) \/ ClearsSlot(h)
  <2>1. UNCHANGED <<up, shell, link, dual>>
    BY <1>6 DEF ConsoleConnects, Installs, RelayTakesEvent, RelaySeesLinkDown, TermLeaves, ClearsSlot
  <2>2. PICK to : pc' = [pc EXCEPT ![h] = to] /\ (pc[h] \in MidSession => to \in MidSession)
    BY <1>6 DEF ConsoleConnects, Installs, RelayTakesEvent, RelaySeesLinkDown, TermLeaves, ClearsSlot,
                MidSession
  <2> QED
    BY <1>0, <2>1, <2>2, MovesKeepLanes
<1> QED
  BY <1>2, <1>3, <1>4, <1>5, <1>6 DEF ConsoleHandler

LEMMA LinkKeepsLanes ==
    ASSUME Types, LaneInv, Link
    PROVE  LaneInv'
<1>1. CASE LosesPacket
  <2>1. up # <<>> /\ up' = Tail(up) /\ ~Live /\ UNCHANGED <<pc, dual, link, shell, mishap>>
    BY <1>1 DEF LosesPacket, wire
  <2> QED
    BY <2>1, TailKeepsQueue DEF LaneInv, Tidy, Live, InputStaysHome, OneShellPerLane, LegacyPty
<1>2. CASE HostAnswers
  <2>1. \A k \in Kinds : shell'[k] = None
    BY <1>2 DEF HostAnswers
  <2>2. UNCHANGED <<up, pc, dual, mishap>>
    BY <1>2 DEF HostAnswers
  <2>3. OneShellPerLane' /\ OpenShellInv' /\ InputStaysHome'
    BY <2>1 DEF OneShellPerLane, OpenShellInv, InputStaysHome, Kinds
  <2> QED
    BY <2>2, <2>3 DEF LaneInv, Tidy, QueueInv, SlotOf
<1>3. CASE LinkDrops \/ ForgetsHost \/ LearnsHost
  <2>1. UNCHANGED <<up, pc, dual, mishap, shell>> /\ (Live' => Live)
    BY <1>3 DEF LinkDrops, ForgetsHost, LearnsHost, Live
  <2> QED
    BY <2>1 DEF LaneInv, Tidy, QueueInv, OpenShellInv, InputStaysHome, OneShellPerLane, LegacyPty, SlotOf
<1> QED
  BY <1>1, <1>2, <1>3 DEF Link

LEMMA ShellsKeepLanes ==
    ASSUME Types, LaneInv, NEW k \in Kinds, ShellSpeaks(k) \/ ShellDies(k)
    PROVE  LaneInv'
<1>1. UNCHANGED <<up, pc, dual, mishap, link>>
  BY DEF ShellSpeaks, ShellDies
<1>2. \A j \in Kinds : shell'[j] # None =>
         /\ shell[j] # None /\ shell'[j].of = shell[j].of /\ shell'[j].dialect = shell[j].dialect
         /\ shell'[j].typed \subseteq shell[j].typed
  <2>1. shell \in [Kinds -> Shell \cup {None}] /\ shell[k] \in Shell
    BY DEF Types, LineTypes, ShellSpeaks, ShellDies
  <2>2. CASE ShellDies(k)
    BY <2>1, <2>2 DEF ShellDies
  <2>3. CASE ShellSpeaks(k)
    <3>1. \A s \in Shell : LET t == [s EXCEPT !.typed = @ \ Runs] IN
            t.of = s.of /\ t.dialect = s.dialect /\ t.typed = s.typed \ Runs
      BY DEF Shell
    <3>2. shell' = [shell EXCEPT ![k] = [shell[k] EXCEPT !.typed = @ \ Runs]]
      BY <2>3 DEF ShellSpeaks
    <3>3. \A j \in Kinds : j # k => shell'[j] = shell[j]
      BY <2>1, <3>2
    <3>4. shell'[k] = [shell[k] EXCEPT !.typed = @ \ Runs] /\ shell[k] # None
      BY <2>1, <2>3, <3>2 DEF ShellSpeaks
    <3>5. /\ shell'[k].of = shell[k].of /\ shell'[k].dialect = shell[k].dialect
          /\ shell'[k].typed = shell[k].typed \ Runs
      BY <2>1, <3>1, <3>4
    <3> QED
      BY <3>3, <3>4, <3>5
  <2> QED
    BY <2>2, <2>3
<1>3. OneShellPerLane'
  BY <1>2 DEF LaneInv, OneShellPerLane, LegacyPty, Kinds
<1>4. InputStaysHome => InputStaysHome'
  BY <1>1, <1>2 DEF InputStaysHome
<1>5. OpenShellInv => OpenShellInv'
  BY <1>1, <1>2 DEF OpenShellInv, ShellLane, SlotOf
<1> QED
  BY <1>1, <1>3, <1>4, <1>5 DEF LaneInv, Tidy, QueueInv, Live, SlotOf

LEMMA LaneInvariant ==
    ASSUME Types, ClaimInv, LaneInv, [Next]_vars
    PROVE  LaneInv'
<1>1. Tidy' => Tidy
  BY TidyBefore
<1>2. CASE ReaderRoutes \/ UNCHANGED vars
  <2>1. UNCHANGED <<up, pc, dual, mishap, shell, link>>
    BY <1>2 DEF ReaderRoutes, vars
  <2> QED
    BY <2>1 DEF LaneInv, Tidy, QueueInv, OpenShellInv, InputStaysHome, OneShellPerLane, LegacyPty,
                Live, SlotOf
<1> QED
  BY <1>1, <1>2, ExecKeepsLanes, ConsoleKeepsLanes, LinkKeepsLanes, HostKeepsLanes, ShellsKeepLanes
     DEF Next, Host

----------------------------------------------------------------------------
(* What a console hears.                                                   *)

LEMMA SaysForConsoles ==
    ASSUME Types, PtySpeaksForConsoles, NEW op, NEW kind, NEW h, NEW done, Says(op, kind, h, done),
           kind = "pty" => h \in Consoles
    PROVE  \A i \in DOMAIN down' : down'[i].kind = "pty" => down'[i].of \in Consoles
<1> DEFINE e == [op |-> op, kind |-> kind, of |-> h, done |-> done]
<1>1. down \in Seq(Event) /\ down' = Append(down, e) /\ e.kind = kind /\ e.of = h
  BY DEF Says, Types, LineTypes
<1> HIDE DEF e
<1>2. /\ DOMAIN down' = 1..(Len(down) + 1) /\ DOMAIN down = 1..Len(down) /\ Len(down) \in Nat
      /\ down'[Len(down) + 1] = e /\ \A i \in 1..Len(down) : down'[i] = down[i]
  BY <1>1
<1> QED
  BY <1>1, <1>2 DEF PtySpeaksForConsoles

(* Packets of a run never open a console's slot. *)
LEMMA SendForConsoles ==
    ASSUME Types, PtySpeaksForConsoles, NEW ops \in Seq(Op), NEW h \in Handlers, Send(ops, h),
           h \in Consoles \/ \A i \in 1..Len(ops) : ops[i] # "PtyOpen",
           UNCHANGED <<shell, down>>
    PROVE  PtySpeaksForConsoles'
<1>1. ASSUME NEW i \in DOMAIN up', up'[i].op = "PtyOpen"
      PROVE  up'[i].from \in Consoles
  <2>1. Len(up) \in Nat /\ Len(ops) \in Nat
    BY DEF Types, LineTypes
  <2>2. CASE i <= Len(up)
    <3>1. i \in DOMAIN up /\ up'[i] = up[i]
      BY <1>1, <2>1, <2>2, SendAppends
    <3> QED
      BY <1>1, <3>1 DEF PtySpeaksForConsoles
  <2>3. CASE i > Len(up)
    <3>1. i \in (Len(up) + 1)..Len(up')
      BY <1>1, <2>1, <2>3, SendAppends
    <3> QED
      BY <1>1, <3>1, SendAppends
  <2> QED
    BY <1>1, <2>1, <2>2, <2>3, SendAppends
<1> QED
  BY <1>1 DEF PtySpeaksForConsoles, DedicatedPty

LEMMA HandlersForConsoles ==
    ASSUME Types, PtySpeaksForConsoles, NEW h \in Handlers,
           \/ h \in Runs /\ ExecHandler(h)
           \/ h \in Consoles /\ ConsoleHandler(h)
    PROVE  PtySpeaksForConsoles'
<1> USE DEF wire
<1>1. UNCHANGED <<shell, down>>
  BY DEF ExecHandler, ExecConnects, Claims, TakesInflight, Installs, ExecOpens, RunTakesEvent,
         RunGivesUp, DrainTakesEvent, DrainGivesUp, ClearsSlot, LeavesInflight, DropsClaim,
         ConsoleHandler, ConsoleConnects, ConsoleOpens, TermTypes, RelayTakesEvent,
         RelaySeesLinkDown, TermLeaves, ConsoleCloses
<1>2. CASE UNCHANGED up
  BY <1>1, <1>2 DEF PtySpeaksForConsoles, DedicatedPty
<1>3. CASE h \in Consoles /\ \E ops \in Seq(Op) : Send(ops, h)
  BY <1>1, <1>3, SendForConsoles
<1>4. ASSUME NEW ops \in {<<"ShellOpen", "ShellInput">>, <<"ShellOpen">>, <<"ShellClose">>}, Send(ops, h)
      PROVE  PtySpeaksForConsoles'
  <2>1. ops \in Seq(Op)
    BY <1>4, OpTypes
  <2>2. \A i \in 1..Len(ops) : ops[i] # "PtyOpen"
    <3>1. CASE ops = <<"ShellOpen", "ShellInput">>
      BY <3>1
    <3>2. CASE ops = <<"ShellOpen">> \/ ops = <<"ShellClose">>
      BY <3>2
    <3> QED
      BY <1>4, <3>1, <3>2
  <2> QED
    BY <1>1, <1>4, <2>1, <2>2, SendForConsoles
<1>5. CASE h \in Runs /\ ExecHandler(h)
  <2>1. CASE ExecOpens(h) \/ RunTakesEvent(h) \/ RunGivesUp(h)
    BY <1>2, <1>4, <2>1 DEF ExecOpens, RunTakesEvent, RunGivesUp, ClosesShell
  <2>2. CASE ~(ExecOpens(h) \/ RunTakesEvent(h) \/ RunGivesUp(h))
    BY <1>2, <1>5, <2>2 DEF ExecHandler, ExecConnects, Claims, TakesInflight, Installs, DrainTakesEvent,
         DrainGivesUp, ClearsSlot, LeavesInflight, DropsClaim
  <2> QED
    BY <2>1, <2>2
<1>6. CASE h \in Consoles /\ ConsoleHandler(h)
  <2>1. CASE ConsoleOpens(h) \/ TermTypes(h) \/ ConsoleCloses(h)
    BY <1>2, <1>3, <1>6, <2>1, OpTypes DEF ConsoleOpens, TermTypes, ConsoleCloses
  <2>2. CASE ~(ConsoleOpens(h) \/ TermTypes(h) \/ ConsoleCloses(h))
    BY <1>2, <1>6, <2>2 DEF ConsoleHandler, ConsoleConnects, Claims, Installs, RelayTakesEvent,
         RelaySeesLinkDown, TermLeaves, ClearsSlot, DropsClaim
  <2> QED
    BY <2>1, <2>2
<1> QED
  BY <1>5, <1>6

LEMMA HostForConsoles ==
    ASSUME Types, PtySpeaksForConsoles, HostTakesPacket
    PROVE  PtySpeaksForConsoles'
<1> DEFINE m == Head(up)
<1>1. up \in Seq(Packet) /\ up # <<>> /\ up' = Tail(up)
  BY DEF HostTakesPacket, Types, LineTypes
<1>2. m = up[1] /\ 1 \in DOMAIN up
  BY <1>1
<1>3. \A i \in DOMAIN up' : i + 1 \in DOMAIN up /\ up'[i] = up[i + 1]
  BY <1>1
<1>4. m.op = "PtyOpen" => m.from \in Consoles
  BY <1>2 DEF PtySpeaksForConsoles
<1>5. shell \in [Kinds -> Shell \cup {None}] /\ "pty" \in Kinds /\ "exec" \in Kinds
  BY DEF Types, LineTypes, Kinds
<1>6. (\A i \in DOMAIN down : down[i].kind = "pty" => down[i].of \in Consoles)'
  <2>1. CASE UNCHANGED down
    BY <2>1 DEF PtySpeaksForConsoles
  <2>2. CASE HostOpens(m)
    BY <1>4, <2>1, <2>2, SaysForConsoles DEF HostOpens, Opens
  <2>3. CASE HostCloses(m)
    BY <2>1, <2>3, SaysForConsoles DEF HostCloses
  <2> QED
    BY <2>1, <2>2, <2>3 DEF HostTakesPacket, HostTypes, HostIgnores
<1>7. (DedicatedPty => shell["pty"].of \in Consoles)'
  <2>1. CASE UNCHANGED shell
    BY <2>1 DEF PtySpeaksForConsoles, DedicatedPty
  <2>2. CASE HostOpens(m)
    <3>1. ASSUME NEW k \in Kinds, NEW dialect,
                 shell' = [shell EXCEPT ![k] = [of |-> m.from, dialect |-> dialect, typed |-> {}]],
                 dialect = "dedicated" => m.from \in Consoles
          PROVE  (DedicatedPty => shell["pty"].of \in Consoles)'
      BY <1>5, <3>1 DEF PtySpeaksForConsoles, DedicatedPty
    <3> QED
      BY <1>4, <1>5, <2>1, <2>2, <3>1 DEF HostOpens, Opens
  <2>3. CASE HostTypes(m)
    <3>1. \A s \in Shell : LET t == [s EXCEPT !.typed = @ \cup {m.from}] IN
            t.of = s.of /\ t.dialect = s.dialect
      BY DEF Shell
    <3>2. \/ shell'["pty"] = shell["pty"]
          \/ /\ shell["pty"] \in Shell /\ shell["pty"] # None
             /\ shell'["pty"] = [shell["pty"] EXCEPT !.typed = @ \cup {m.from}]
      BY <1>5, <2>3, TargetsHaveShells DEF HostTypes
    <3>3. CASE shell'["pty"] = shell["pty"]
      BY <3>3 DEF PtySpeaksForConsoles, DedicatedPty
    <3>4. CASE /\ shell'["pty"].of = shell["pty"].of /\ shell'["pty"].dialect = shell["pty"].dialect
               /\ shell["pty"] # None
      BY <3>4 DEF PtySpeaksForConsoles, DedicatedPty
    <3> QED
      BY <3>1, <3>2, <3>3, <3>4
  <2>4. CASE HostCloses(m)
    BY <1>5, <2>4 DEF HostCloses, PtySpeaksForConsoles, DedicatedPty
  <2> QED
    BY <2>1, <2>2, <2>3, <2>4 DEF HostTakesPacket, HostIgnores
<1> QED
  BY <1>3, <1>6, <1>7 DEF PtySpeaksForConsoles

LEMMA PtyInvariant ==
    ASSUME Types, PtySpeaksForConsoles, [Next]_vars
    PROVE  PtySpeaksForConsoles'
<1>1. CASE ReaderRoutes
  <2>1. down \in Seq(Event) /\ down # <<>> /\ down' = Tail(down) /\ UNCHANGED <<up, shell>>
    BY <1>1 DEF ReaderRoutes, Types, LineTypes
  <2>2. \A i \in DOMAIN down' : i + 1 \in DOMAIN down /\ down'[i] = down[i + 1]
    BY <2>1
  <2> QED
    BY <2>1, <2>2 DEF PtySpeaksForConsoles, DedicatedPty
<1>2. CASE Link
  <2>1. CASE LosesPacket
    <3>1. up \in Seq(Packet) /\ up # <<>> /\ up' = Tail(up) /\ UNCHANGED <<down, shell>>
      BY <2>1 DEF LosesPacket, Types, LineTypes, wire
    <3>2. \A i \in DOMAIN up' : i + 1 \in DOMAIN up /\ up'[i] = up[i + 1]
      BY <3>1
    <3> QED
      BY <3>1, <3>2 DEF PtySpeaksForConsoles, DedicatedPty
  <2>2. CASE LinkDrops
    BY <2>2 DEF LinkDrops, PtySpeaksForConsoles, DedicatedPty
  <2>3. CASE HostAnswers \/ ForgetsHost \/ LearnsHost
    BY <2>3 DEF HostAnswers, ForgetsHost, LearnsHost, PtySpeaksForConsoles, DedicatedPty, Kinds
  <2> QED
    BY <1>2, <2>1, <2>2, <2>3 DEF Link
<1>3. ASSUME NEW k \in Kinds, ShellSpeaks(k) \/ ShellDies(k)
      PROVE  PtySpeaksForConsoles'
  <2>1. OpcodeKind(k) = "pty" => shell[k].of \in Consoles
    BY DEF OpcodeKind, PtySpeaksForConsoles
  <2>2. (\A i \in DOMAIN down : down[i].kind = "pty" => down[i].of \in Consoles)'
    BY <1>3, <2>1, SaysForConsoles DEF ShellSpeaks, ShellDies
  <2>3. shell \in [Kinds -> Shell \cup {None}] /\ "pty" \in Kinds /\ UNCHANGED up
    BY <1>3 DEF Types, LineTypes, Kinds, ShellSpeaks, ShellDies
  <2>4. CASE ShellDies(k)
    BY <2>2, <2>3, <2>4 DEF ShellDies, PtySpeaksForConsoles, DedicatedPty
  <2>5. CASE ShellSpeaks(k)
    <3>1. \A s \in Shell : LET t == [s EXCEPT !.typed = @ \ Runs] IN
            t.of = s.of /\ t.dialect = s.dialect
      BY DEF Shell
    <3>2. shell[k] \in Shell /\ shell[k] # None
          /\ shell' = [shell EXCEPT ![k] = [shell[k] EXCEPT !.typed = @ \ Runs]]
      BY <2>3, <2>5 DEF ShellSpeaks
    <3>3. shell'["pty"] = IF k = "pty" THEN [shell[k] EXCEPT !.typed = @ \ Runs] ELSE shell["pty"]
      BY <2>3, <3>2
    <3>4. (DedicatedPty => shell["pty"].of \in Consoles)'
      <4>1. CASE k = "pty"
        <5>1. shell'["pty"].of = shell["pty"].of /\ shell'["pty"].dialect = shell["pty"].dialect
          BY <3>1, <3>2, <3>3, <4>1
        <5> QED
          BY <3>2, <4>1, <5>1 DEF PtySpeaksForConsoles, DedicatedPty
      <4>2. CASE k # "pty"
        BY <3>3, <4>2 DEF PtySpeaksForConsoles, DedicatedPty
      <4> QED
        BY <4>1, <4>2
    <3> QED
      BY <2>2, <2>3, <3>4 DEF PtySpeaksForConsoles
  <2> QED
    BY <1>3, <2>4, <2>5
<1>4. CASE UNCHANGED vars
  BY <1>4 DEF vars, PtySpeaksForConsoles, DedicatedPty
<1> QED
  BY <1>1, <1>2, <1>3, <1>4, HandlersForConsoles, HostForConsoles DEF Next, Host, Handlers

(* What one step of a handler does to its own channel; it takes the host   *)
(* for something else only while that is empty.                            *)
ChannelStep(h) ==
    /\ \A g \in Handlers \ {h} : inbox'[g] = inbox[g] /\ pc'[g] = pc[g] /\ dual'[g] = dual[g]
    /\ \/ inbox'[h] = <<>>
       \/ /\ inbox'[h] = inbox[h] /\ dual'[h] = dual[h]
          /\ pc'[h] \in OnSlot \/ pc[h] \notin OnSlot
       \/ /\ inbox[h] # <<>> /\ inbox'[h] = Tail(inbox[h]) /\ dual'[h] = dual[h]
          /\ pc'[h] \in OnSlot

LEMMA HandlerChannels ==
    ASSUME Types, QuietOffSlot, NEW h \in Handlers,
           \/ h \in Runs /\ ExecHandler(h)
           \/ h \in Consoles /\ ConsoleHandler(h)
    PROVE  ChannelStep(h) /\ UNCHANGED <<fallback, generation>>
<1> USE DEF Goes, wire, client, ChannelStep
<1>0. inbox \in [Handlers -> Seq(Event)] /\ pc \in [Handlers -> Places] /\ dual \in [Handlers -> {"yes", "no"}]
  BY DEF Types, LineTypes, PlaceTypes, CellTypes
<1>1. UNCHANGED <<fallback, generation>>
  BY DEF ExecHandler, ExecConnects, Claims, TakesInflight, Installs, ExecOpens, RunTakesEvent,
         RunGivesUp, DrainTakesEvent, DrainGivesUp, ClearsSlot, LeavesInflight, DropsClaim,
         ConsoleHandler, ConsoleConnects, ConsoleOpens, TermTypes, RelayTakesEvent,
         RelaySeesLinkDown, TermLeaves, ConsoleCloses
<1>2. CASE Claims(h) \/ DropsClaim(h)
  <2>1. inbox' = inbox /\ pc[h] \notin OnSlot
    BY <1>2 DEF Claims, DropsClaim, OnSlot
  <2>2. inbox'[h] = <<>>
    BY <2>1 DEF QuietOffSlot
  <2>3. \A g \in Handlers \ {h} : inbox'[g] = inbox[g] /\ pc'[g] = pc[g] /\ dual'[g] = dual[g]
    BY <1>0, <1>2, <2>1 DEF Claims, Acquire, DropsClaim
  <2> QED
    BY <1>1, <2>2, <2>3
<1>3. CASE ClearsSlot(h) \/ ExecOpens(h)
  BY <1>0, <1>1, <1>3 DEF ClearsSlot, ExecOpens
<1>4. CASE RunTakesEvent(h) \/ DrainTakesEvent(h) \/ RelayTakesEvent(h)
  <2>1. pc' = [pc EXCEPT ![h] = pc'[h]] /\ pc'[h] \in OnSlot
    BY <1>0, <1>4 DEF RunTakesEvent, ClosesShell, DrainTakesEvent, RelayTakesEvent, OnSlot
  <2>2. UNCHANGED dual /\ inbox[h] # <<>> /\ inbox' = [inbox EXCEPT ![h] = Tail(inbox[h])]
    BY <1>4 DEF RunTakesEvent, DrainTakesEvent, RelayTakesEvent
  <2> QED
    BY <1>0, <1>1, <2>1, <2>2
<1>5. CASE \/ ExecConnects(h) \/ TakesInflight(h) \/ Installs(h) \/ RunGivesUp(h) \/ DrainGivesUp(h)
           \/ LeavesInflight(h)
  BY <1>0, <1>1, <1>5 DEF ExecConnects, TakesInflight, Installs, RunGivesUp, ClosesShell, DrainGivesUp,
                    LeavesInflight, OnSlot
<1>6. CASE \/ ConsoleConnects(h) \/ ConsoleOpens(h) \/ TermTypes(h) \/ RelaySeesLinkDown(h)
           \/ TermLeaves(h) \/ ConsoleCloses(h)
  BY <1>0, <1>1, <1>6 DEF ConsoleConnects, ConsoleOpens, TermTypes, RelaySeesLinkDown, TermLeaves,
                    ConsoleCloses, OnSlot
<1> QED
  BY <1>2, <1>3, <1>4, <1>5, <1>6 DEF ExecHandler, ConsoleHandler

LEMMA MixedStays ==
    ASSUME Types, [Next]_vars
    PROVE  mishap' # "mixed" => mishap # "mixed"
BY DEF Next, ExecHandler, ConsoleHandler, ExecConnects, Claims, Acquire, TakesInflight, Installs,
       ExecOpens, RunTakesEvent, RunGivesUp, DrainTakesEvent, DrainGivesUp, ClearsSlot,
       LeavesInflight, DropsClaim, ConsoleConnects, ConsoleOpens, TermTypes, RelayTakesEvent,
       RelaySeesLinkDown, TermLeaves, ConsoleCloses, ReaderRoutes, Link, LinkDrops, ForgetsHost,
       HostAnswers, LearnsHost, LosesPacket, Host, HostTakesPacket, ShellSpeaks, ShellDies, vars,
       Happens

LEMMA HandlersKeepDeaf ==
    ASSUME Types, DeafInv, NEW h \in Handlers, ChannelStep(h), UNCHANGED <<fallback, generation>>,
           mishap' # "mixed" => mishap # "mixed"
    PROVE  QuietOffSlot' /\ ConsoleDeafToRuns'
<1>1. inbox[h] \in Seq(Event)
  BY DEF Types, LineTypes
<1>2. QuietOffSlot'
  BY DEF DeafInv, QuietOffSlot, ChannelStep
<1>3. ASSUME mishap' # "mixed", NEW g \in Consoles, dual'[g] = "yes", NEW i \in DOMAIN inbox'[g]
      PROVE  inbox'[g][i].of \notin Runs
  <2>1. CASE g # h \/ (inbox'[h] = inbox[h] /\ dual'[h] = dual[h])
    BY <1>3, <2>1 DEF DeafInv, ConsoleDeafToRuns, ChannelStep, Handlers
  <2>2. CASE g = h /\ inbox'[h] = <<>>
    BY <1>3, <2>2
  <2>3. CASE g = h /\ inbox[h] # <<>> /\ inbox'[h] = Tail(inbox[h]) /\ dual'[h] = dual[h]
    <3>1. i + 1 \in DOMAIN inbox[h] /\ inbox'[h][i] = inbox[h][i + 1]
      BY <1>1, <1>3, <2>3
    <3> QED
      BY <1>3, <2>3, <3>1 DEF DeafInv, ConsoleDeafToRuns
  <2> QED
    BY <2>1, <2>2, <2>3 DEF ChannelStep
<1> QED
  BY <1>2, <1>3 DEF ConsoleDeafToRuns

LEMMA ReaderKeepsDeaf ==
    ASSUME Types, ClaimInv, SlotInv, DeafInv, ReaderRoutes
    PROVE  QuietOffSlot' /\ ConsoleDeafToRuns'
<1> DEFINE e == Head(down)  h == Route(e)
<1>0. UNCHANGED <<fallback, generation, pc, dual, mishap>>
  BY DEF ReaderRoutes, client
<1>1. CASE inbox' = inbox
  BY <1>0, <1>1 DEF DeafInv, QuietOffSlot, ConsoleDeafToRuns
<1>2. CASE h # None /\ inbox' = [inbox EXCEPT ![h] = Append(@, e)]
  <2>1. e \in Event /\ e = down[1] /\ 1 \in DOMAIN down
    <3>1. down \in Seq(Event) /\ down # <<>>
      BY DEF ReaderRoutes, Types, LineTypes
    <3> QED
      BY <3>1
  <2>2. e.kind \in Kinds
    BY <2>1 DEF Event
  <2> HIDE DEF e
  <2>3. /\ h \in Handlers /\ pc[h] \in OnSlot
        /\ SlotOf(h) = e.kind \/ fallback = "on"
    BY <1>2, <2>2 DEF Route, OtherKind, SlotInv, Types, CellTypes, Kinds
  <2> HIDE DEF h
  <2>4. /\ \A g \in Handlers \ {h} : inbox'[g] = inbox[g]
        /\ inbox[h] \in Seq(Event) /\ inbox'[h] = Append(inbox[h], e)
    BY <1>2, <2>3 DEF Types, LineTypes
  <2>5. QuietOffSlot'
    BY <1>0, <2>3, <2>4 DEF DeafInv, QuietOffSlot
  <2>6. ASSUME mishap # "mixed", h \in Consoles, dual[h] = "yes"
        PROVE  e.of \notin Runs
    <3>1. SlotOf(h) = "pty" /\ h \in Present
      BY <2>3, <2>6 DEF SlotOf, Present, OnSlot, Claimed
    <3>2. fallback # "on"
      BY <2>6, <3>1 DEF ClaimInv, DeafInv, QuietOffSlot
    <3>3. e.of \in Consoles
      BY <2>1, <2>3, <3>1, <3>2 DEF DeafInv, PtySpeaksForConsoles
    <3> QED
      BY <3>3
  <2>7. ASSUME mishap # "mixed", NEW g \in Consoles, dual[g] = "yes", NEW i \in DOMAIN inbox'[g]
        PROVE  inbox'[g][i].of \notin Runs
    <3>1. CASE g # h
      BY <2>4, <2>7, <3>1 DEF DeafInv, ConsoleDeafToRuns, Handlers
    <3>2. CASE g = h
      <4>1. /\ DOMAIN inbox'[h] = 1..(Len(inbox[h]) + 1) /\ DOMAIN inbox[h] = 1..Len(inbox[h])
            /\ Len(inbox[h]) \in Nat /\ inbox'[h][Len(inbox[h]) + 1] = e
            /\ \A j \in 1..Len(inbox[h]) : inbox'[h][j] = inbox[h][j]
        BY <2>4
      <4> QED
        BY <2>6, <2>7, <3>2, <4>1 DEF DeafInv, ConsoleDeafToRuns
    <3> QED
      BY <3>1, <3>2
  <2> QED
    BY <1>0, <2>5, <2>7 DEF ConsoleDeafToRuns
<1> QED
  BY <1>1, <1>2 DEF ReaderRoutes

LEMMA DeafInvariant ==
    ASSUME Types, ClaimInv, SlotInv, DeafInv, [Next]_vars
    PROVE  DeafInv'
<1>1. PtySpeaksForConsoles'
  BY PtyInvariant DEF DeafInv
<1>2. CASE Link \/ Host \/ UNCHANGED vars
  <2>1. UNCHANGED <<generation, pc, dual, inbox, mishap>>
    BY <1>2 DEF Link, LinkDrops, ForgetsHost, HostAnswers, LearnsHost, LosesPacket, Host,
                HostTakesPacket, ShellSpeaks, ShellDies, vars, wire
  <2>2. (fallback = "on" => generation = "legacy")'
    BY <1>2 DEF Link, LinkDrops, ForgetsHost, HostAnswers, LearnsHost, LosesPacket, Host,
                HostTakesPacket, ShellSpeaks, ShellDies, vars, wire, client, DeafInv, QuietOffSlot,
                Types, CellTypes, Generations
  <2> QED
    BY <1>1, <2>1, <2>2 DEF DeafInv, QuietOffSlot, ConsoleDeafToRuns
<1>3. mishap' # "mixed" => mishap # "mixed"
  BY MixedStays
<1>4. ASSUME NEW h \in Handlers, \/ h \in Runs /\ ExecHandler(h)
                                 \/ h \in Consoles /\ ConsoleHandler(h)
      PROVE  DeafInv'
  <2>1. ChannelStep(h) /\ UNCHANGED <<fallback, generation>>
    BY <1>4, HandlerChannels DEF DeafInv
  <2> QED
    BY <1>1, <1>3, <2>1, HandlersKeepDeaf DEF DeafInv
<1> QED
  BY <1>1, <1>2, <1>4, ReaderKeepsDeaf DEF Next, Handlers, DeafInv

LEMMA InitLines == Init => LaneInv /\ DeafInv
<1> SUFFICES ASSUME Init
             PROVE  LaneInv /\ DeafInv
  OBVIOUS
<1>1. \A k \in Kinds : shell[k] = None
  BY DEF Init
<1>2. up = <<>> /\ down = <<>> /\ \A h \in Handlers : inbox[h] = <<>>
  BY DEF Init
<1>3. LaneInv
  BY <1>1, <1>2 DEF LaneInv, OneShellPerLane, QueueInv, OpenShellInv, InputStaysHome, Kinds
<1>4. DeafInv
  BY <1>1, <1>2 DEF DeafInv, PtySpeaksForConsoles, QuietOffSlot, ConsoleDeafToRuns, DedicatedPty,
                    Kinds, Handlers, Init
<1> QED
  BY <1>3, <1>4

(* What a handler types reaches no shell but its own while no handler has  *)
(* mistaken the host or left a shell open, across queued opens and closes, *)
(* refused opens and reconnects; and a console of a host with two slots    *)
(* never hears what is left of a run.                                      *)
THEOREM NothingEverCrosses == Spec => []NothingCrosses
<1> DEFINE Inv == LaneInv /\ DeafInv
<1>1. Init => Inv
  BY InitLines
<1>2. OwnerInv /\ Inv /\ [Next]_vars => Inv'
  BY LaneInvariant, DeafInvariant DEF OwnerInv
<1>3. Inv => NothingCrosses
  BY DEF LaneInv, DeafInv, NothingCrosses, InputStaysHome, Tidy
<1> QED
  BY <1>1, <1>2, <1>3, OwnersInvariant, PTL DEF Spec

----------------------------------------------------------------------------
(* What a run hears.                                                       *)

LEMMA TailSets ==
    ASSUME NEW T, NEW q \in Seq(T), q # <<>>, NEW S
    PROVE  /\ Without(q, S) => Without(Tail(q), S)
           /\ AtMostOnce(q, S) => AtMostOnce(Tail(q), S)
           /\ AtMostOnce(q, S) /\ Head(q) \in S => Without(Tail(q), S)
           /\ Without(q, S) => Head(q) \notin S
<1>1. \A i \in DOMAIN Tail(q) : i \in Nat \ {0} /\ i + 1 \in DOMAIN q /\ Tail(q)[i] = q[i + 1]
  OBVIOUS
<1>2. 1 \in DOMAIN q /\ Head(q) = q[1]
  OBVIOUS
<1>3. \A i, j \in DOMAIN Tail(q) : i + 1 = j + 1 => i = j
  BY <1>1
<1>4. \A i \in DOMAIN Tail(q) : i + 1 # 1
  BY <1>1
<1>5. AtMostOnce(q, S) => AtMostOnce(Tail(q), S)
  BY <1>1, <1>3 DEF AtMostOnce
<1>6. AtMostOnce(q, S) /\ Head(q) \in S => Without(Tail(q), S)
  BY <1>1, <1>2, <1>4 DEF AtMostOnce, Without
<1> QED
  BY <1>1, <1>2, <1>5, <1>6 DEF Without

LEMMA AppendSets ==
    ASSUME NEW T, NEW q \in Seq(T), NEW e, NEW S
    PROVE  /\ e \notin S /\ Without(q, S) => Without(Append(q, e), S)
           /\ e \notin S /\ AtMostOnce(q, S) => AtMostOnce(Append(q, e), S)
           /\ Without(q, S) => AtMostOnce(Append(q, e), S)
<1>1. /\ Len(q) \in Nat /\ DOMAIN q = 1..Len(q) /\ DOMAIN Append(q, e) = 1..(Len(q) + 1)
      /\ Append(q, e)[Len(q) + 1] = e /\ \A i \in 1..Len(q) : Append(q, e)[i] = q[i]
  OBVIOUS
<1>2. \A i \in DOMAIN Append(q, e) : (i \in DOMAIN q /\ Append(q, e)[i] = q[i]) \/ (i = Len(q) + 1)
  BY <1>1
<1> QED
  BY <1>1, <1>2 DEF Without, AtMostOnce

(* Nothing in S is sent, or one thing in S to a queue without any. *)
LEMMA SendSets ==
    ASSUME Types, NEW ops \in Seq(Op), NEW h \in Handlers, Send(ops, h), NEW S
    PROVE  /\ (\A i \in 1..Len(ops) : [op |-> ops[i], from |-> h] \notin S)
                => /\ Without(up, S) => Without(up', S)
                   /\ AtMostOnce(up, S) => AtMostOnce(up', S)
           /\ (/\ Without(up, S)
               /\ \A i, j \in 1..Len(ops) :
                    [op |-> ops[i], from |-> h] \in S /\ [op |-> ops[j], from |-> h] \in S => i = j)
                => AtMostOnce(up', S)
<1> DEFINE n == Len(up)
<1>1. n \in Nat /\ Len(ops) \in Nat
  BY DEF Types, LineTypes
<1>2. up' \in Seq(Packet)
  BY SendType
<1>3. \A i \in (n + 1)..Len(up') : up'[i] = [op |-> ops[i - n], from |-> h] /\ i - n \in 1..Len(ops)
  <2>1. \A i \in (n + 1)..Len(up') : /\ up'[i].from = h /\ up'[i].op = ops[i - n]
                                     /\ i - n \in 1..Len(ops) /\ up'[i] \in Packet
    BY <1>1, <1>2, SendAppends
  <2>2. \A x \in Packet : x = [op |-> x.op, from |-> x.from]
    BY DEF Packet
  <2> QED
    BY <2>1, <2>2
<1>4. /\ Len(up') = n + Len(ops) /\ DOMAIN up' = 1..Len(up') /\ DOMAIN up = 1..n
      /\ \A i \in 1..n : up'[i] = up[i]
  BY SendAppends
<1>5. \A i \in DOMAIN up' : \/ i \in DOMAIN up /\ up'[i] = up[i]
                            \/ i \in (n + 1)..Len(up')
  BY <1>1, <1>4
<1>6. \A i, j \in (n + 1)..Len(up') : i - n = j - n => i = j
  BY <1>1
<1>7. ASSUME \A i \in 1..Len(ops) : [op |-> ops[i], from |-> h] \notin S
      PROVE  \A i \in DOMAIN up' : up'[i] \in S => i \in DOMAIN up /\ up'[i] = up[i]
  BY <1>3, <1>5, <1>7
<1>8. ASSUME Without(up, S), NEW i \in DOMAIN up', up'[i] \in S
      PROVE  i \in (n + 1)..Len(up') /\ i - n \in 1..Len(ops) /\ [op |-> ops[i - n], from |-> h] \in S
  BY <1>3, <1>5, <1>8 DEF Without
<1>9. ASSUME Without(up, S),
             \A i, j \in 1..Len(ops) :
                [op |-> ops[i], from |-> h] \in S /\ [op |-> ops[j], from |-> h] \in S => i = j
      PROVE  AtMostOnce(up', S)
  BY <1>6, <1>8, <1>9 DEF AtMostOnce
<1>10. ASSUME \A i \in 1..Len(ops) : [op |-> ops[i], from |-> h] \notin S
       PROVE  /\ Without(up, S) => Without(up', S)
              /\ AtMostOnce(up, S) => AtMostOnce(up', S)
  BY <1>7, <1>10 DEF Without, AtMostOnce
<1> QED
  BY <1>9, <1>10

(* A step that brings nothing of g. *)
Neutral(g) ==
    /\ Without(up, StartsOf(g)) => Without(up', StartsOf(g))
    /\ AtMostOnce(up, StartsOf(g)) => AtMostOnce(up', StartsOf(g))
    /\ NoShellOf(g) => NoShellOf(g)'
    /\ Without(down, EndsOf(g)) => Without(down', EndsOf(g))
    /\ AtMostOnce(down, EndsOf(g)) => AtMostOnce(down', EndsOf(g))
    /\ Without(inbox[g], EndsOf(g)) => Without(inbox'[g], EndsOf(g))
    /\ AtMostOnce(inbox[g], EndsOf(g)) => AtMostOnce(inbox'[g], EndsOf(g))

LEMMA NeutralKeepsTrace ==
    ASSUME NEW g, TraceOf(g), Neutral(g), pc[g] \in InRun => pc'[g] \in InRun \/ Gone(g)
    PROVE  TraceOf(g)'
BY DEF TraceOf, OneTrace, Gone, Neutral

(* A handler's step that opens no shell in the original dialect. *)
LEMMA QuietStepKeepsEar ==
    ASSUME Types, EarInv, Calm, NEW h \in Handlers,
           \/ UNCHANGED up
           \/ \E ops \in Seq(Op) :
                /\ Send(ops, h)
                /\ \A i \in 1..Len(ops) : /\ ops[i] \notin {"ShellOpen", "ShellOpenPty"}
                                          /\ ops[i] = "PtyOpen" => h \in Consoles,
           \A g \in Handlers \ {h} : inbox'[g] = inbox[g] /\ pc'[g] = pc[g],
           \/ inbox'[h] = inbox[h] \/ inbox'[h] = <<>>
           \/ inbox[h] # <<>> /\ inbox'[h] = Tail(inbox[h]),
           h \in Runs /\ pc[h] \in InRun => pc'[h] \in InRun \/ Gone(h),
           UNCHANGED <<shell, down>>
    PROVE  ExecSpeaksForRuns' /\ TraceInv' /\ HearsItself'
<1>0. ExecSpeaksForRuns /\ TraceInv /\ HearsItself
  BY DEF EarInv
<1>1. ExecSpeaksForRuns'
  <2>1. CASE UNCHANGED up
    BY <1>0, <2>1 DEF ExecSpeaksForRuns, DedicatedPty
  <2>2. CASE ~UNCHANGED up
    <3>1. PICK ops \in Seq(Op) :
                /\ Send(ops, h)
                /\ \A i \in 1..Len(ops) : /\ ops[i] \notin {"ShellOpen", "ShellOpenPty"}
                                          /\ ops[i] = "PtyOpen" => h \in Consoles
      BY <2>2
    <3>2. Len(up) \in Nat /\ Len(ops) \in Nat
      BY DEF Types, LineTypes
    <3>3. \A i \in DOMAIN up' : \/ i \in DOMAIN up /\ up'[i] = up[i]
                                \/ i \in (Len(up) + 1)..Len(up')
      BY <3>1, <3>2, SendAppends
    <3>4. \A i \in (Len(up) + 1)..Len(up') : /\ up'[i].op \notin {"ShellOpen", "ShellOpenPty"}
                                             /\ up'[i].op = "PtyOpen" => up'[i].from \in Consoles
      BY <3>1, SendAppends
    <3> QED
      BY <1>0, <3>3, <3>4 DEF ExecSpeaksForRuns, DedicatedPty
  <2> QED
    BY <2>1, <2>2
<1>2. HearsItself'
  <2>1. ASSUME NEW g \in Runs, NEW i \in DOMAIN inbox'[g]
        PROVE  inbox'[g][i].of = g
    <3>1. CASE inbox'[g] = inbox[g]
      BY <1>0, <2>1, <3>1 DEF HearsItself
    <3>2. CASE inbox'[g] = <<>>
      BY <2>1, <3>2
    <3>3. CASE g = h /\ inbox[h] # <<>> /\ inbox'[h] = Tail(inbox[h])
      <4>1. inbox[g] \in Seq(Event)
        BY <3>3 DEF Types, LineTypes
      <4>2. i + 1 \in DOMAIN inbox[g] /\ inbox'[g][i] = inbox[g][i + 1]
        BY <2>1, <3>3, <4>1
      <4> QED
        BY <1>0, <2>1, <4>2 DEF HearsItself
    <3> QED
      BY <3>1, <3>2, <3>3 DEF Handlers
  <2> QED
    BY <1>0, <2>1 DEF HearsItself
<1>3. ASSUME NEW g \in Runs
      PROVE  TraceOf(g)'
  <2>0. g \in Handlers /\ inbox[g] \in Seq(Event)
    BY DEF Handlers, Types, LineTypes
  <2>1. /\ Without(up, StartsOf(g)) => Without(up', StartsOf(g))
        /\ AtMostOnce(up, StartsOf(g)) => AtMostOnce(up', StartsOf(g))
    <3>1. CASE UNCHANGED up
      BY <3>1
    <3>2. ASSUME NEW ops \in Seq(Op), Send(ops, h), \A i \in 1..Len(ops) : ops[i] # "ShellOpen"
          PROVE  /\ Without(up, StartsOf(g)) => Without(up', StartsOf(g))
                 /\ AtMostOnce(up, StartsOf(g)) => AtMostOnce(up', StartsOf(g))
      <4>1. \A i \in 1..Len(ops) : [op |-> ops[i], from |-> h] \notin StartsOf(g)
        BY <3>2 DEF StartsOf
      <4> QED
        BY <3>2, <4>1, SendSets
    <3> QED
      BY <3>1, <3>2
  <2>2. /\ Without(inbox[g], EndsOf(g)) => Without(inbox'[g], EndsOf(g))
        /\ AtMostOnce(inbox[g], EndsOf(g)) => AtMostOnce(inbox'[g], EndsOf(g))
    <3>1. CASE inbox'[g] = inbox[g]
      BY <3>1
    <3>2. CASE inbox'[g] = <<>>
      BY <3>2 DEF Without, AtMostOnce
    <3>3. CASE g = h /\ inbox[h] # <<>> /\ inbox'[h] = Tail(inbox[h])
      BY <2>0, <3>3, TailSets
    <3> QED
      BY <2>0, <3>1, <3>2, <3>3
  <2>3. NoShellOf(g) => NoShellOf(g)'
    BY DEF NoShellOf
  <2>4. Neutral(g)
    BY <2>1, <2>2, <2>3 DEF Neutral
  <2>5. pc[g] \in InRun => pc'[g] \in InRun \/ Gone(g)
    BY <2>0
  <2> QED
    BY <1>0, <2>4, <2>5, NeutralKeepsTrace DEF TraceInv
<1> QED
  BY <1>1, <1>2, <1>3 DEF TraceInv

(* A drain that stops on the end of a shell stops on its own shell's, and  *)
(* that was the last trace of it; one that gives up in time had none left. *)
LEMMA DrainLeavesNothing ==
    ASSUME Types, EarInv, Calm, Calm', NEW h \in Runs, DrainTakesEvent(h) \/ DrainGivesUp(h)
    PROVE  pc'[h] \in InRun \/ Gone(h)
<1>0. TraceOf(h) /\ HearsItself /\ h \in Handlers /\ inbox[h] \in Seq(Event)
      /\ pc \in [Handlers -> Places]
  BY DEF EarInv, TraceInv, Handlers, Types, LineTypes, PlaceTypes
<1>1. CASE DrainTakesEvent(h)
  <2>1. inbox[h] # <<>> /\ 1 \in DOMAIN inbox[h] /\ Head(inbox[h]) = inbox[h][1]
    BY <1>0, <1>1 DEF DrainTakesEvent
  <2>2. inbox[h][1] \in Event /\ inbox[h][1].of = h
    BY <1>0, <2>1 DEF HearsItself
  <2>3. CASE Head(inbox[h]).op \in {"Closed", "Exit"}
    <3>1. ~Without(inbox[h], EndsOf(h))
      BY <2>1, <2>2, <2>3 DEF Without, EndsOf
    <3> QED
      BY <1>0, <3>1 DEF TraceOf, OneTrace, Gone
  <2>4. CASE Head(inbox[h]).op \notin {"Closed", "Exit"}
    BY <1>0, <1>1, <2>4 DEF DrainTakesEvent, InRun
  <2> QED
    BY <2>3, <2>4
<1>2. CASE DrainGivesUp(h)
  <2>1. ~StillToCome(h)
    BY <1>2 DEF DrainGivesUp, Happens, Calm
  <2>2. Without(up, StartsOf(h)) /\ Without(down, EndsOf(h)) /\ NoShellOf(h)
    BY <2>1 DEF StillToCome, Without, StartsOf, EndsOf, NoShellOf
  <2> QED
    BY <2>2 DEF Gone
<1> QED
  BY <1>1, <1>2

LEMMA ExecKeepsEar ==
    ASSUME Types, EarInv, QuietOffSlot, Calm, Calm', NEW h \in Runs, ExecHandler(h)
    PROVE  ExecSpeaksForRuns' /\ TraceInv' /\ HearsItself'
<1> USE DEF wire, Goes
<1>0. ExecSpeaksForRuns /\ TraceInv /\ HearsItself /\ h \in Handlers /\ h \notin Consoles
      /\ pc \in [Handlers -> Places] /\ inbox \in [Handlers -> Seq(Event)]
  BY DEF EarInv, Handlers, Types, LineTypes, PlaceTypes
<1>1. ChannelStep(h)
  BY <1>0, HandlerChannels
<1>2. UNCHANGED <<shell, down>>
  BY DEF ExecHandler, ExecConnects, Claims, TakesInflight, Installs, ExecOpens, RunTakesEvent,
         RunGivesUp, DrainTakesEvent, DrainGivesUp, ClearsSlot, LeavesInflight, DropsClaim
<1>3. CASE ExecOpens(h)
  <2> DEFINE ops == <<"ShellOpen", "ShellInput">>
  <2>1. /\ pc[h] = "open" /\ pc' = [pc EXCEPT ![h] = "run"] /\ Send(ops, h)
        /\ inbox' = [inbox EXCEPT ![h] = <<>>]
    BY <1>3 DEF ExecOpens, Happens, Calm
  <2>2. ops \in Seq(Op) /\ Len(ops) = 2 /\ ops[1] = "ShellOpen" /\ ops[2] = "ShellInput"
    BY DEF Op
  <2> HIDE DEF ops
  <2>3. Gone(h)
    BY <1>0, <2>1 DEF TraceInv, TraceOf, InRun
  <2>4. TraceOf(h)'
    <3>1. [op |-> ops[2], from |-> h] \notin StartsOf(h)
      BY <2>2 DEF StartsOf
    <3>2. \A i, j \in 1..Len(ops) : /\ [op |-> ops[i], from |-> h] \in StartsOf(h)
                                    /\ [op |-> ops[j], from |-> h] \in StartsOf(h)
                                    => i = j
      BY <2>2, <3>1
    <3>3. AtMostOnce(up', StartsOf(h))
      BY <1>0, <2>1, <2>2, <2>3, <3>2, SendSets DEF Gone
    <3>4. inbox'[h] = <<>> /\ pc'[h] \in InRun
      BY <1>0, <2>1 DEF InRun
    <3>5. Without(inbox'[h], EndsOf(h)) /\ AtMostOnce(inbox'[h], EndsOf(h))
      BY <3>4 DEF Without, AtMostOnce
    <3>6. NoShellOf(h)' /\ Without(down', EndsOf(h)) /\ AtMostOnce(down', EndsOf(h))
      BY <1>2, <2>3 DEF Gone, NoShellOf, Without, AtMostOnce
    <3> QED
      BY <3>3, <3>4, <3>5, <3>6 DEF TraceOf, OneTrace
  <2>5. ASSUME NEW g \in Runs \ {h}
        PROVE  TraceOf(g)'
    <3>1. \A i \in 1..Len(ops) : [op |-> ops[i], from |-> h] \notin StartsOf(g)
      BY <2>5 DEF StartsOf
    <3>2. /\ Without(up, StartsOf(g)) => Without(up', StartsOf(g))
          /\ AtMostOnce(up, StartsOf(g)) => AtMostOnce(up', StartsOf(g))
      BY <1>0, <2>1, <2>2, <3>1, SendSets
    <3>3. inbox'[g] = inbox[g] /\ pc'[g] = pc[g] /\ (NoShellOf(g) => NoShellOf(g)')
      BY <1>0, <1>2, <2>1, <2>5 DEF NoShellOf, Handlers
    <3>4. Neutral(g)
      BY <1>2, <3>2, <3>3 DEF Neutral
    <3> QED
      BY <1>0, <3>3, <3>4, NeutralKeepsTrace DEF TraceInv
  <2>6. ExecSpeaksForRuns'
    <3>1. Len(up) \in Nat
      BY DEF Types, LineTypes
    <3>2. /\ Len(up') = Len(up) + 2 /\ DOMAIN up' = 1..Len(up') /\ DOMAIN up = 1..Len(up)
          /\ \A i \in 1..Len(up) : up'[i] = up[i]
          /\ \A i \in (Len(up) + 1)..Len(up') : /\ up'[i].from = h /\ up'[i].op = ops[i - Len(up)]
                                                /\ i - Len(up) \in 1..2
      BY <1>0, <2>1, <2>2, SendAppends
    <3>3. \A i \in DOMAIN up' : \/ i \in DOMAIN up /\ up'[i] = up[i]
                                \/ i \in (Len(up) + 1)..Len(up')
      BY <3>1, <3>2
    <3>4. \A i \in (Len(up) + 1)..Len(up') : up'[i].from = h /\ up'[i].op \in {"ShellOpen", "ShellInput"}
      BY <2>2, <3>1, <3>2
    <3> QED
      BY <1>0, <1>2, <3>3, <3>4 DEF ExecSpeaksForRuns, DedicatedPty
  <2>7. HearsItself'
    BY <1>0, <1>2, <2>1 DEF HearsItself, Handlers
  <2> QED
    BY <2>4, <2>5, <2>6, <2>7 DEF TraceInv
<1>4. CASE ~ExecOpens(h)
  <2>1. pc[h] \in InRun => pc'[h] \in InRun \/ Gone(h)
    <3>1. CASE DrainTakesEvent(h) \/ DrainGivesUp(h)
      BY <3>1, DrainLeavesNothing
    <3>2. CASE RunTakesEvent(h) \/ RunGivesUp(h)
      BY <1>0, <3>2 DEF RunTakesEvent, RunGivesUp, ClosesShell, InRun
    <3>3. CASE \/ ExecConnects(h) \/ Claims(h) \/ TakesInflight(h) \/ Installs(h) \/ ClearsSlot(h)
               \/ LeavesInflight(h) \/ DropsClaim(h)
      BY <3>3 DEF ExecConnects, Claims, TakesInflight, Installs, ClearsSlot, LeavesInflight, DropsClaim,
                  InRun
    <3> QED
      BY <1>4, <3>1, <3>2, <3>3 DEF ExecHandler
  <2>2. \/ UNCHANGED up
        \/ Send(<<"ShellClose">>, h)
    <3>1. CASE RunTakesEvent(h) \/ RunGivesUp(h)
      BY <3>1 DEF RunTakesEvent, RunGivesUp, ClosesShell
    <3>2. CASE ~(RunTakesEvent(h) \/ RunGivesUp(h))
      BY <1>4, <3>2 DEF ExecHandler, ExecConnects, Claims, TakesInflight, Installs, DrainTakesEvent,
           DrainGivesUp, ClearsSlot, LeavesInflight, DropsClaim
    <3> QED
      BY <3>1, <3>2
  <2>3. \/ UNCHANGED up
        \/ \E ops \in Seq(Op) :
             /\ Send(ops, h)
             /\ \A i \in 1..Len(ops) : /\ ops[i] \notin {"ShellOpen", "ShellOpenPty"}
                                       /\ ops[i] = "PtyOpen" => h \in Consoles
    <3>1. <<"ShellClose">> \in Seq(Op) /\ \A i \in 1..Len(<<"ShellClose">>) : <<"ShellClose">>[i] = "ShellClose"
      BY OpTypes
    <3> QED
      BY <2>2, <3>1
  <2> QED
    BY <1>0, <1>1, <1>2, <2>1, <2>3, QuietStepKeepsEar DEF ChannelStep
<1> QED
  BY <1>3, <1>4

LEMMA ConsoleKeepsEar ==
    ASSUME Types, ClaimInv, EarInv, QuietOffSlot, Calm, NEW h \in Consoles, ConsoleHandler(h)
    PROVE  ExecSpeaksForRuns' /\ TraceInv' /\ HearsItself'
<1> USE DEF wire, Goes
<1>0. h \in Handlers /\ h \notin Runs
  BY DEF Handlers
<1>1. ChannelStep(h)
  BY <1>0, HandlerChannels
<1>2. UNCHANGED <<shell, down>>
  BY DEF ConsoleHandler, ConsoleConnects, Claims, Installs, ConsoleOpens, TermTypes, RelayTakesEvent,
         RelaySeesLinkDown, TermLeaves, ConsoleCloses, ClearsSlot, DropsClaim
<1>3. \/ UNCHANGED up
      \/ h \in Present /\ \E op \in {OpenOp(h), InputOp(h), CloseOp(h)} : Send(<<op>>, h)
  <2>1. CASE ConsoleOpens(h) \/ TermTypes(h) \/ ConsoleCloses(h)
    BY <1>0, <2>1 DEF ConsoleOpens, TermTypes, ConsoleCloses, Present, Claimed
  <2>2. CASE ~(ConsoleOpens(h) \/ TermTypes(h) \/ ConsoleCloses(h))
    BY <2>2 DEF ConsoleHandler, ConsoleConnects, Claims, Installs, RelayTakesEvent,
         RelaySeesLinkDown, TermLeaves, ClearsSlot, DropsClaim
  <2> QED
    BY <2>1, <2>2
<1>4. \/ UNCHANGED up
      \/ \E ops \in Seq(Op) :
           /\ Send(ops, h)
           /\ \A i \in 1..Len(ops) : /\ ops[i] \notin {"ShellOpen", "ShellOpenPty"}
                                     /\ ops[i] = "PtyOpen" => h \in Consoles
  <2>1. h \in Present => dual[h] = "yes"
    BY DEF ClaimInv, Calm
  <2>2. ASSUME NEW op \in {OpenOp(h), InputOp(h), CloseOp(h)}, h \in Present
        PROVE  <<op>> \in Seq(Op) /\ \A i \in 1..Len(<<op>>) : <<op>>[i] \notin {"ShellOpen", "ShellOpenPty"}
    <3>1. op \in Op \ {"ShellOpen", "ShellOpenPty"}
      BY <2>1, <2>2 DEF OpenOp, InputOp, CloseOp, Op
    <3> QED
      BY <3>1
  <2> QED
    BY <1>3, <2>2
<1> QED
  BY <1>0, <1>1, <1>2, <1>4, QuietStepKeepsEar DEF ChannelStep

LEMMA UpSets ==
    ASSUME Types, UNCHANGED up \/ (up # <<>> /\ up' = Tail(up)), NEW g
    PROVE  /\ Without(up, StartsOf(g)) => Without(up', StartsOf(g))
           /\ AtMostOnce(up, StartsOf(g)) => AtMostOnce(up', StartsOf(g))
BY TailSets DEF Types, LineTypes

LEMMA UpSpeaks ==
    ASSUME Types, ExecSpeaksForRuns, UNCHANGED up \/ (up # <<>> /\ up' = Tail(up))
    PROVE  \A i \in DOMAIN up' : /\ up'[i].op # "ShellOpenPty"
                                 /\ up'[i].op = "ShellOpen" => up'[i].from \in Runs
                                 /\ up'[i].op = "PtyOpen" => up'[i].from \in Consoles
<1>1. up \in Seq(Packet)
  BY DEF Types, LineTypes
<1>2. up # <<>> /\ up' = Tail(up) => \A i \in DOMAIN up' : i + 1 \in DOMAIN up /\ up'[i] = up[i + 1]
  BY <1>1
<1> QED
  BY <1>2 DEF ExecSpeaksForRuns

LEMMA DownSpeaks ==
    ASSUME Types, ExecSpeaksForRuns, HearsItself, NEW e, down' = Append(down, e),
           e.kind = "exec" => e.of \in Runs, e.done \subseteq {e.of}
    PROVE  \A i \in DOMAIN down' : /\ down'[i].kind = "exec" => down'[i].of \in Runs
                                   /\ down'[i].done \subseteq {down'[i].of}
<1>1. down \in Seq(Event)
  BY DEF Types, LineTypes
<1>2. \A i \in DOMAIN down' : (i \in DOMAIN down /\ down'[i] = down[i]) \/ down'[i] = e
  BY <1>1
<1> QED
  BY <1>2 DEF ExecSpeaksForRuns, HearsItself

(* The host says something that ends nobody, or nothing; shells stay or    *)
(* go, or a console's comes.                                               *)
LEMMA HarmlessKeepsEar ==
    ASSUME Types, EarInv, Calm, UNCHANGED <<inbox, pc>>,
           UNCHANGED up \/ (up # <<>> /\ up' = Tail(up)),
           \/ UNCHANGED down
           \/ \E e : /\ down' = Append(down, e) /\ e.op \notin {"Exit", "Closed"}
                     /\ e.kind = "exec" => e.of \in Runs
                     /\ e.done \subseteq {e.of},
           \A k \in Kinds : shell'[k] # None =>
              \/ /\ shell[k] # None /\ shell'[k].of = shell[k].of
                 /\ shell'[k].dialect = shell[k].dialect
              \/ k = "pty" /\ shell'[k].of \in Consoles /\ shell'[k].dialect = "dedicated"
    PROVE  ExecSpeaksForRuns' /\ TraceInv' /\ HearsItself'
<1>0. ExecSpeaksForRuns /\ TraceInv /\ HearsItself
  BY DEF EarInv
<1>1. \A i \in DOMAIN down' : /\ down'[i].kind = "exec" => down'[i].of \in Runs
                              /\ down'[i].done \subseteq {down'[i].of}
  <2>1. CASE UNCHANGED down
    BY <1>0, <2>1 DEF ExecSpeaksForRuns, HearsItself
  <2> QED
    BY <1>0, <2>1, DownSpeaks
<1>2. ExecSpeaksForRuns'
  <2>1. (shell["exec"] # None => shell["exec"].of \in Runs)'
    BY <1>0 DEF ExecSpeaksForRuns, Kinds
  <2>2. (shell["pty"] # None => DedicatedPty /\ shell["pty"].of \in Consoles)'
    BY <1>0 DEF ExecSpeaksForRuns, Kinds, DedicatedPty
  <2> QED
    BY <1>0, <1>1, <2>1, <2>2, UpSpeaks DEF ExecSpeaksForRuns
<1>3. HearsItself'
  BY <1>0, <1>1 DEF HearsItself
<1>4. ASSUME NEW g \in Runs
      PROVE  TraceOf(g)'
  <2>1. /\ Without(down, EndsOf(g)) => Without(down', EndsOf(g))
        /\ AtMostOnce(down, EndsOf(g)) => AtMostOnce(down', EndsOf(g))
    <3>1. \A e : e.op \notin {"Exit", "Closed"} => e \notin EndsOf(g)
      BY DEF EndsOf
    <3>2. down \in Seq(Event)
      BY DEF Types, LineTypes
    <3>3. CASE UNCHANGED down
      BY <3>3
    <3>4. ASSUME NEW e, down' = Append(down, e), e \notin EndsOf(g)
          PROVE  /\ Without(down, EndsOf(g)) => Without(down', EndsOf(g))
                 /\ AtMostOnce(down, EndsOf(g)) => AtMostOnce(down', EndsOf(g))
      BY <3>2, <3>4, AppendSets
    <3> QED
      BY <3>1, <3>3, <3>4
  <2>2. NoShellOf(g) => NoShellOf(g)'
    BY DEF NoShellOf
  <2>3. Neutral(g)
    BY <2>1, <2>2, UpSets DEF Neutral
  <2> QED
    BY <1>0, <2>3, NeutralKeepsTrace DEF TraceInv
<1> QED
  BY <1>2, <1>3, <1>4 DEF TraceInv

(* A shell ends: the host says so, and its trace moves to the line. *)
LEMMA EndKeepsEar ==
    ASSUME Types, EarInv, Calm, UNCHANGED <<inbox, pc>>,
           UNCHANGED up \/ (up # <<>> /\ up' = Tail(up)),
           NEW k \in Kinds, shell[k] # None, shell'[k] = None,
           \A j \in Kinds \ {k} : shell'[j] = shell[j],
           NEW op \in {"Exit", "Closed"}, Says(op, OpcodeKind(k), shell[k].of, {})
    PROVE  ExecSpeaksForRuns' /\ TraceInv' /\ HearsItself'
<1> DEFINE e == [op |-> op, kind |-> OpcodeKind(k), of |-> shell[k].of, done |-> {}]
           r == shell[k].of
<1>0. ExecSpeaksForRuns /\ TraceInv /\ HearsItself
  BY DEF EarInv
<1>1. down' = Append(down, e) /\ e.op = op /\ e.kind = OpcodeKind(k) /\ e.of = r /\ e.done = {}
  BY DEF Says
<1>2. down \in Seq(Event)
  BY DEF Types, LineTypes
<1>3. IF k = "exec" THEN r \in Runs ELSE r \in Consoles /\ DedicatedPty
  BY <1>0 DEF ExecSpeaksForRuns, Kinds
<1>4. e.kind = "exec" => r \in Runs
  BY <1>1, <1>3 DEF OpcodeKind, Kinds
<1> HIDE DEF e
<1>5. \A i \in DOMAIN down' : /\ down'[i].kind = "exec" => down'[i].of \in Runs
                              /\ down'[i].done \subseteq {down'[i].of}
  BY <1>0, <1>1, <1>4, DownSpeaks
<1>6. ExecSpeaksForRuns'
  <2>1. (shell["exec"] # None => shell["exec"].of \in Runs)'
    BY <1>0 DEF ExecSpeaksForRuns, Kinds
  <2>2. (shell["pty"] # None => DedicatedPty /\ shell["pty"].of \in Consoles)'
    BY <1>0 DEF ExecSpeaksForRuns, Kinds, DedicatedPty
  <2> QED
    BY <1>0, <1>5, <2>1, <2>2, UpSpeaks DEF ExecSpeaksForRuns
<1>7. HearsItself'
  BY <1>0, <1>5 DEF HearsItself
<1>8. ASSUME NEW g \in Runs
      PROVE  TraceOf(g)'
  <2>0. TraceOf(g)
    BY <1>0 DEF TraceInv
  <2>1. CASE g = r
    <3>1. ~NoShellOf(g)
      BY <2>1 DEF NoShellOf
    <3>2. Without(down, EndsOf(g)) /\ Without(inbox[g], EndsOf(g)) /\ Without(up, StartsOf(g))
          /\ pc[g] \in InRun /\ AtMostOnce(up, StartsOf(g)) /\ AtMostOnce(inbox[g], EndsOf(g))
      BY <2>0, <3>1 DEF TraceOf, OneTrace, Gone
    <3>3. AtMostOnce(down', EndsOf(g))
      BY <1>1, <1>2, <3>2, AppendSets
    <3>4. Without(up', StartsOf(g)) /\ AtMostOnce(up', StartsOf(g))
      BY <3>2, UpSets
    <3>5. NoShellOf(g)'
      BY <1>0, <1>3, <2>1 DEF NoShellOf, ExecSpeaksForRuns, Kinds
    <3> QED
      BY <3>2, <3>3, <3>4, <3>5 DEF TraceOf, OneTrace
  <2>2. CASE g # r
    <3>1. e \notin EndsOf(g)
      BY <1>1, <2>2 DEF EndsOf
    <3>2. NoShellOf(g) => NoShellOf(g)'
      BY DEF NoShellOf
    <3>3. /\ Without(down, EndsOf(g)) => Without(down', EndsOf(g))
          /\ AtMostOnce(down, EndsOf(g)) => AtMostOnce(down', EndsOf(g))
      BY <1>1, <1>2, <3>1, AppendSets
    <3>4. Neutral(g)
      BY <3>2, <3>3, UpSets DEF Neutral
    <3> QED
      BY <2>0, <3>4, NeutralKeepsTrace
  <2> QED
    BY <2>1, <2>2
<1> QED
  BY <1>6, <1>7, <1>8 DEF TraceInv

(* A run's shell opens: its trace moves from the queue to the host. *)
LEMMA OpenKeepsEar ==
    ASSUME Types, EarInv, Calm, UNCHANGED <<inbox, pc, down>>, up # <<>>, up' = Tail(up),
           Head(up).op = "ShellOpen", shell["exec"] = None,
           shell' = [shell EXCEPT !["exec"] =
                       [of |-> Head(up).from, dialect |-> "original", typed |-> {}]]
    PROVE  ExecSpeaksForRuns' /\ TraceInv' /\ HearsItself'
<1> DEFINE m == Head(up)  r == m.from
<1>0. ExecSpeaksForRuns /\ TraceInv /\ HearsItself /\ up \in Seq(Packet)
      /\ shell \in [Kinds -> Shell \cup {None}]
  BY DEF EarInv, Types, LineTypes
<1>1. m = up[1] /\ 1 \in DOMAIN up /\ m \in Packet
  BY <1>0
<1>2. r \in Runs /\ m \in StartsOf(r)
  BY <1>0, <1>1 DEF ExecSpeaksForRuns, StartsOf
<1>3. shell'["exec"].of = r /\ shell'["pty"] = shell["pty"]
  BY <1>0 DEF Kinds
<1>4. ExecSpeaksForRuns'
  <2>1. (shell["pty"] # None => DedicatedPty /\ shell["pty"].of \in Consoles)'
    BY <1>0, <1>3 DEF ExecSpeaksForRuns, DedicatedPty
  <2> QED
    BY <1>0, <1>2, <1>3, <2>1, UpSpeaks DEF ExecSpeaksForRuns
<1>5. HearsItself'
  BY <1>0 DEF HearsItself
<1>6. ASSUME NEW g \in Runs
      PROVE  TraceOf(g)'
  <2>0. TraceOf(g)
    BY <1>0 DEF TraceInv
  <2>1. CASE g = r
    <3>1. ~Without(up, StartsOf(g))
      BY <1>1, <1>2, <2>1 DEF Without
    <3>2. Without(down, EndsOf(g)) /\ Without(inbox[g], EndsOf(g)) /\ AtMostOnce(up, StartsOf(g))
          /\ pc[g] \in InRun /\ AtMostOnce(down, EndsOf(g)) /\ AtMostOnce(inbox[g], EndsOf(g))
      BY <2>0, <3>1 DEF TraceOf, OneTrace, Gone
    <3>3. Without(up', StartsOf(g)) /\ AtMostOnce(up', StartsOf(g))
      BY <1>0, <1>2, <2>1, <3>2, TailSets
    <3> QED
      BY <3>2, <3>3 DEF TraceOf, OneTrace
  <2>2. CASE g # r
    <3>1. NoShellOf(g) => NoShellOf(g)'
      BY <1>3, <2>2 DEF NoShellOf, Kinds
    <3>2. Neutral(g)
      BY <3>1, UpSets DEF Neutral
    <3> QED
      BY <2>0, <3>2, NeutralKeepsTrace
  <2> QED
    BY <2>1, <2>2
<1> QED
  BY <1>4, <1>5, <1>6 DEF TraceInv

LEMMA HostKeepsEar ==
    ASSUME Types, EarInv, Calm, HostTakesPacket
    PROVE  ExecSpeaksForRuns' /\ TraceInv' /\ HearsItself'
<1> DEFINE m == Head(up)
<1>0. ExecSpeaksForRuns /\ up \in Seq(Packet) /\ up # <<>> /\ up' = Tail(up)
      /\ UNCHANGED <<inbox, pc>> /\ shell \in [Kinds -> Shell \cup {None}]
  BY DEF EarInv, Types, LineTypes, HostTakesPacket
<1>1. m = up[1] /\ 1 \in DOMAIN up
  BY <1>0
<1>2. /\ m.op # "ShellOpenPty" /\ (m.op = "ShellOpen" => m.from \in Runs)
      /\ m.op = "PtyOpen" => m.from \in Consoles
  BY <1>0, <1>1 DEF ExecSpeaksForRuns
<1>3. CASE HostOpens(m)
  <2>1. CASE \E kind \in Kinds : /\ Says("Error", kind, m.from, {}) /\ UNCHANGED shell
                                 /\ kind = "exec" => m.from \in Runs
    <3>1. PICK kind \in Kinds : /\ Says("Error", kind, m.from, {}) /\ UNCHANGED shell
                                /\ kind = "exec" => m.from \in Runs
      BY <2>1
    <3> DEFINE e == [op |-> "Error", kind |-> kind, of |-> m.from, done |-> {}]
    <3>2. /\ down' = Append(down, e) /\ e.op \notin {"Exit", "Closed"}
          /\ (e.kind = "exec" => e.of \in Runs) /\ e.done \subseteq {e.of}
      BY <3>1 DEF Says
    <3> HIDE DEF e
    <3> QED
      BY <1>0, <3>1, <3>2, HarmlessKeepsEar
  <2>2. CASE /\ m.op = "ShellOpen" /\ shell["exec"] = None /\ UNCHANGED down
             /\ shell' = [shell EXCEPT !["exec"] =
                            [of |-> m.from, dialect |-> "original", typed |-> {}]]
    BY <1>0, <2>2, OpenKeepsEar
  <2>3. CASE /\ m.op = "PtyOpen" /\ UNCHANGED down
             /\ shell' = [shell EXCEPT !["pty"] =
                            [of |-> m.from, dialect |-> "dedicated", typed |-> {}]]
    <3>1. /\ shell'["pty"].of = m.from /\ shell'["pty"].dialect = "dedicated"
          /\ shell'["exec"] = shell["exec"]
      BY <1>0, <2>3 DEF Kinds
    <3>2. \A k \in Kinds : shell'[k] # None =>
              \/ /\ shell[k] # None /\ shell'[k].of = shell[k].of
                 /\ shell'[k].dialect = shell[k].dialect
              \/ k = "pty" /\ shell'[k].of \in Consoles /\ shell'[k].dialect = "dedicated"
      BY <1>2, <2>3, <3>1 DEF Kinds
    <3> QED
      BY <1>0, <2>3, <3>2, HarmlessKeepsEar
  <2>4. "exec" \in Kinds /\ "pty" \in Kinds
    BY DEF Kinds
  <2> QED
    BY <1>2, <1>3, <2>1, <2>2, <2>3, <2>4 DEF HostOpens, Opens
<1>4. CASE HostTypes(m)
  <2> DEFINE target == IF m.op = "ShellInput" THEN OriginalTarget ELSE DedicatedTarget
  <2>1. /\ shell' = [k \in Kinds |-> IF k \in target
                       THEN [shell[k] EXCEPT !.typed = @ \cup {m.from}] ELSE shell[k]]
        /\ UNCHANGED down
    BY <1>4 DEF HostTypes
  <2>2. \A k \in target : k \in Kinds /\ shell[k] # None /\ shell[k] \in Shell
    BY TargetsHaveShells
  <2>3. \A s \in Shell : LET t == [s EXCEPT !.typed = @ \cup {m.from}] IN
            t.of = s.of /\ t.dialect = s.dialect
    BY DEF Shell
  <2> HIDE DEF target
  <2>4. \A k \in Kinds : shell'[k] # None =>
           /\ shell[k] # None /\ shell'[k].of = shell[k].of
           /\ shell'[k].dialect = shell[k].dialect
    BY <2>1, <2>2, <2>3
  <2> QED
    BY <1>0, <2>1, <2>4, HarmlessKeepsEar
<1>5. CASE HostCloses(m)
  <2>1. OriginalTarget = IF shell["exec"] # None THEN {"exec"} ELSE {}
    BY <1>0 DEF ExecSpeaksForRuns, OriginalTarget, LegacyPty, DedicatedPty
  <2>2. CASE m.op = "ShellClose" /\ shell["exec"] # None
    <3>1. /\ Says("Closed", "exec", shell["exec"].of, {}) /\ OpcodeKind("exec") = "exec"
          /\ "exec" \in Kinds /\ shell'["exec"] = None
          /\ \A j \in Kinds \ {"exec"} : shell'[j] = shell[j]
      BY <1>5, <2>1, <2>2 DEF HostCloses, OpcodeKind, Kinds
    <3> QED
      BY <1>0, <2>2, <3>1, EndKeepsEar
  <2>3. CASE ~(m.op = "ShellClose" /\ shell["exec"] # None)
    <3>1. UNCHANGED down /\ \A k \in Kinds : shell'[k] # None => shell'[k] = shell[k]
      BY <1>5, <2>1, <2>3 DEF HostCloses
    <3> QED
      BY <1>0, <3>1, HarmlessKeepsEar
  <2> QED
    BY <2>2, <2>3
<1>6. CASE HostIgnores(m)
  BY <1>0, <1>6, HarmlessKeepsEar DEF HostIgnores
<1> QED
  BY <1>3, <1>4, <1>5, <1>6 DEF HostTakesPacket

LEMMA ShellsKeepEar ==
    ASSUME Types, EarInv, Calm, InputStaysHome, NEW k \in Kinds, ShellSpeaks(k) \/ ShellDies(k)
    PROVE  ExecSpeaksForRuns' /\ TraceInv' /\ HearsItself'
<1>0. ExecSpeaksForRuns /\ shell \in [Kinds -> Shell \cup {None}] /\ shell[k] # None /\ shell[k] \in Shell
      /\ UNCHANGED <<inbox, pc, up>>
  BY DEF EarInv, Types, LineTypes, ShellSpeaks, ShellDies
<1>1. CASE ShellDies(k)
  <2>1. shell'[k] = None /\ \A j \in Kinds \ {k} : shell'[j] = shell[j]
    BY <1>0, <1>1 DEF ShellDies
  <2> QED
    BY <1>0, <1>1, <2>1, EndKeepsEar DEF ShellDies
<1>2. CASE ShellSpeaks(k)
  <2> DEFINE e == [op |-> "Output", kind |-> OpcodeKind(k), of |-> shell[k].of,
                   done |-> shell[k].typed \cap Runs]
  <2>1. /\ down' = Append(down, e) /\ e.op = "Output" /\ e.kind = OpcodeKind(k)
        /\ e.of = shell[k].of /\ e.done = shell[k].typed \cap Runs
    BY <1>2 DEF ShellSpeaks, Says
  <2> HIDE DEF e
  <2>2. e.kind = "exec" => e.of \in Runs
    BY <1>0, <2>1 DEF ExecSpeaksForRuns, OpcodeKind, Kinds
  <2>3. e.done \subseteq {e.of}
    BY <1>0, <2>1 DEF InputStaysHome, Calm
  <2>4. \A s \in Shell : LET t == [s EXCEPT !.typed = @ \ Runs] IN
            t.of = s.of /\ t.dialect = s.dialect
    BY DEF Shell
  <2>5. shell' = [shell EXCEPT ![k] = [shell[k] EXCEPT !.typed = @ \ Runs]]
    BY <1>2 DEF ShellSpeaks
  <2>6. \A j \in Kinds : shell'[j] # None =>
           /\ shell[j] # None /\ shell'[j].of = shell[j].of
           /\ shell'[j].dialect = shell[j].dialect
    <3>1. shell'[k] = [shell[k] EXCEPT !.typed = @ \ Runs] /\ \A j \in Kinds \ {k} : shell'[j] = shell[j]
      BY <1>0, <2>5
    <3>2. shell'[k].of = shell[k].of /\ shell'[k].dialect = shell[k].dialect
      BY <1>0, <2>4, <3>1
    <3> QED
      BY <1>0, <3>1, <3>2
  <2> QED
    BY <1>0, <2>1, <2>2, <2>3, <2>6, HarmlessKeepsEar
<1> QED
  BY <1>1, <1>2

(* What the reader hands to a run is of that run: only one run is past     *)
(* its open and before the end of its drain, and nothing is left of those  *)
(* that are beyond it.                                                     *)
LEMMA RoutedToItsRun ==
    ASSUME Types, ClaimInv, SlotInv, EarInv, QuietOffSlot, Calm, down # <<>>,
           NEW r \in Runs, Route(Head(down)) = r, Matters(r, Head(down))
    PROVE  Head(down).of = r
<1> DEFINE e == Head(down)
<1>0. ExecSpeaksForRuns /\ TraceInv /\ HearsItself /\ down \in Seq(Event) /\ r \in Handlers
      /\ r \notin Consoles
  BY DEF EarInv, Types, LineTypes, Handlers
<1>1. e = down[1] /\ 1 \in DOMAIN down /\ e \in Event
  BY <1>0
<1>2. e.kind \in Kinds
  BY <1>1 DEF Event
<1>3. fallback # "on"
  BY DEF QuietOffSlot, Calm
<1> HIDE DEF e
<1>4. slot[e.kind] = r /\ pc[r] \in OnSlot /\ SlotOf(r) = e.kind
  BY <1>0, <1>2, <1>3 DEF Route, SlotInv, e
<1>5. e.kind = "exec" /\ inflight = r
  BY <1>0, <1>4 DEF SlotOf, ClaimInv, Types, PlaceTypes, RunAt, OnSlot, Holding
<1>6. e.of \in Runs
  BY <1>0, <1>1, <1>5 DEF ExecSpeaksForRuns
<1>7. CASE e.op = "Output" /\ r \in e.done
  BY <1>0, <1>1, <1>7 DEF HearsItself, e
<1>8. CASE e.op \in {"Exit", "Closed"}
  <2>1. e \in EndsOf(e.of)
    BY <1>1, <1>8 DEF EndsOf
  <2>2. pc[e.of] \in InRun
    BY <1>0, <1>1, <1>6, <2>1 DEF TraceInv, TraceOf, Gone, Without
  <2>3. inflight = e.of
    BY <1>6, <2>2 DEF ClaimInv, InRun, Holding
  <2> QED
    BY <1>5, <2>3 DEF e
<1> QED
  BY <1>0, <1>7, <1>8 DEF Matters, e

LEMMA ReaderKeepsEar ==
    ASSUME Types, ClaimInv, SlotInv, EarInv, QuietOffSlot, Calm, ReaderRoutes
    PROVE  ExecSpeaksForRuns' /\ TraceInv' /\ HearsItself'
<1> DEFINE e == Head(down)  r == Route(e)
<1>0. ExecSpeaksForRuns /\ TraceInv /\ HearsItself /\ down \in Seq(Event) /\ down # <<>>
      /\ down' = Tail(down) /\ UNCHANGED <<up, shell, pc>> /\ inbox \in [Handlers -> Seq(Event)]
  BY DEF EarInv, Types, LineTypes, ReaderRoutes
<1>1. e = down[1] /\ 1 \in DOMAIN down /\ e \in Event
  BY <1>0
<1>2. \A i \in DOMAIN down' : i + 1 \in DOMAIN down /\ down'[i] = down[i + 1]
  BY <1>0
<1>3. ExecSpeaksForRuns'
  BY <1>0, <1>2 DEF ExecSpeaksForRuns, DedicatedPty
<1>4. \A g \in Runs : \/ inbox'[g] = inbox[g]
                      \/ inbox'[g] = Append(inbox[g], e) /\ e.of = g
  <2>1. CASE inbox' = inbox
    BY <2>1
  <2>2. CASE r # None /\ Matters(r, e) /\ inbox' = [inbox EXCEPT ![r] = Append(@, e)]
    <3>1. \A g \in Handlers : inbox'[g] = IF g = r THEN Append(inbox[g], e) ELSE inbox[g]
      BY <1>0, <2>2
    <3>2. r \in Runs => e.of = r
      BY <1>0, <2>2, RoutedToItsRun
    <3> QED
      BY <3>1, <3>2 DEF Handlers
  <2> QED
    BY <2>1, <2>2 DEF ReaderRoutes
<1> HIDE DEF e
<1>5. HearsItself'
  <2>1. ASSUME NEW g \in Runs, NEW i \in DOMAIN inbox'[g]
        PROVE  inbox'[g][i].of = g
    <3>1. CASE inbox'[g] = inbox[g]
      BY <1>0, <2>1, <3>1 DEF HearsItself
    <3>2. CASE inbox'[g] = Append(inbox[g], e) /\ e.of = g
      <4>1. inbox[g] \in Seq(Event)
        BY <1>0 DEF Handlers
      <4>2. (i \in DOMAIN inbox[g] /\ inbox'[g][i] = inbox[g][i]) \/ inbox'[g][i] = e
        BY <2>1, <3>2, <4>1
      <4> QED
        BY <1>0, <2>1, <3>2, <4>2 DEF HearsItself
    <3> QED
      BY <1>4, <3>1, <3>2
  <2> QED
    BY <1>0, <1>2, <2>1 DEF HearsItself
<1>6. ASSUME NEW g \in Runs
      PROVE  TraceOf(g)'
  <2>0. TraceOf(g) /\ inbox[g] \in Seq(Event) /\ (NoShellOf(g) => NoShellOf(g)')
    BY <1>0 DEF TraceInv, Handlers, NoShellOf
  <2>1. /\ Without(down, EndsOf(g)) => Without(down', EndsOf(g)) /\ e \notin EndsOf(g)
        /\ AtMostOnce(down, EndsOf(g)) => AtMostOnce(down', EndsOf(g))
        /\ AtMostOnce(down, EndsOf(g)) /\ e \in EndsOf(g) => Without(down', EndsOf(g))
    BY <1>0, TailSets DEF e
  <2>2. CASE inbox'[g] = inbox[g] \/ e \notin EndsOf(g)
    <3>1. /\ Without(inbox[g], EndsOf(g)) => Without(inbox'[g], EndsOf(g))
          /\ AtMostOnce(inbox[g], EndsOf(g)) => AtMostOnce(inbox'[g], EndsOf(g))
      <4>1. CASE inbox'[g] = inbox[g]
        BY <4>1
      <4>2. CASE inbox'[g] = Append(inbox[g], e) /\ e \notin EndsOf(g)
        BY <2>0, <4>2, AppendSets
      <4> QED
        BY <1>4, <2>2, <4>1, <4>2
    <3>2. Neutral(g)
      BY <1>0, <2>0, <2>1, <3>1 DEF Neutral
    <3> QED
      BY <1>0, <2>0, <3>2, NeutralKeepsTrace
  <2>3. CASE inbox'[g] = Append(inbox[g], e) /\ e \in EndsOf(g)
    <3>1. ~Without(down, EndsOf(g))
      BY <2>1, <2>3
    <3>2. /\ Without(inbox[g], EndsOf(g)) /\ NoShellOf(g) /\ Without(up, StartsOf(g))
          /\ AtMostOnce(up, StartsOf(g)) /\ AtMostOnce(down, EndsOf(g)) /\ pc[g] \in InRun
      BY <2>0, <3>1 DEF TraceOf, OneTrace, Gone
    <3>3. AtMostOnce(inbox'[g], EndsOf(g))
      BY <2>0, <2>3, <3>2, AppendSets
    <3>4. Without(down', EndsOf(g)) /\ AtMostOnce(down', EndsOf(g)) /\ NoShellOf(g)'
      BY <2>0, <2>1, <2>3, <3>2
    <3> QED
      BY <1>0, <3>2, <3>3, <3>4 DEF TraceOf, OneTrace
  <2> QED
    BY <1>4, <2>2, <2>3
<1> QED
  BY <1>3, <1>5, <1>6 DEF TraceInv

LEMMA LinkKeepsEar ==
    ASSUME Types, EarInv, Calm, Link
    PROVE  ExecSpeaksForRuns' /\ TraceInv' /\ HearsItself'
<1>1. CASE LinkDrops
  <2>0. ExecSpeaksForRuns /\ TraceInv /\ HearsItself
    BY DEF EarInv
  <2>1. down' = <<>> /\ UNCHANGED <<up, shell, inbox, pc>>
    BY <1>1 DEF LinkDrops
  <2>2. ASSUME NEW g \in Runs
        PROVE  TraceOf(g)'
    <3>1. Without(down', EndsOf(g)) /\ AtMostOnce(down', EndsOf(g)) /\ (NoShellOf(g) => NoShellOf(g)')
      BY <2>1 DEF Without, AtMostOnce, NoShellOf
    <3>2. Neutral(g)
      BY <2>1, <3>1 DEF Neutral
    <3> QED
      BY <2>0, <2>1, <3>2, NeutralKeepsTrace DEF TraceInv
  <2>3. ExecSpeaksForRuns' /\ HearsItself'
    BY <2>0, <2>1 DEF ExecSpeaksForRuns, DedicatedPty, HearsItself
  <2> QED
    BY <2>2, <2>3 DEF TraceInv
<1>2. CASE HostAnswers
  <2>1. UNCHANGED <<up, down, inbox, pc>> /\ \A k \in Kinds : shell'[k] = None
    BY <1>2 DEF HostAnswers
  <2> QED
    BY <2>1, HarmlessKeepsEar
<1>3. CASE LosesPacket \/ ForgetsHost \/ LearnsHost
  <2>1. /\ UNCHANGED <<down, inbox, pc, shell>>
        /\ UNCHANGED up \/ (up # <<>> /\ up' = Tail(up))
    BY <1>3 DEF LosesPacket, ForgetsHost, LearnsHost, wire
  <2> QED
    BY <2>1, HarmlessKeepsEar
<1> QED
  BY <1>1, <1>2, <1>3 DEF Link

LEMMA EarInvariant ==
    ASSUME Types, ClaimInv, SlotInv, LaneInv, DeafInv, EarInv, [Next]_vars
    PROVE  EarInv'
<1> SUFFICES ASSUME Calm'
             PROVE  ExecSpeaksForRuns' /\ TraceInv' /\ HearsItself'
  BY DEF EarInv
<1>1. Calm
  <2>1. UNCHANGED generation
    BY DEF Next, ExecHandler, ConsoleHandler, ExecConnects, Claims, TakesInflight, Installs,
         ExecOpens, RunTakesEvent, RunGivesUp, DrainTakesEvent, DrainGivesUp, ClearsSlot,
         LeavesInflight, DropsClaim, ConsoleConnects, ConsoleOpens, TermTypes, RelayTakesEvent,
         RelaySeesLinkDown, TermLeaves, ConsoleCloses, ReaderRoutes, Link, LinkDrops, ForgetsHost,
         HostAnswers, LearnsHost, LosesPacket, Host, HostTakesPacket, ShellSpeaks, ShellDies, vars, wire
  <2>2. mishap' = "none" => mishap = "none"
    <3>1. \A what \in {"late", "leaked", "mixed"} : Happens(what) => mishap' # "none"
      BY DEF Happens, Types, CellTypes
    <3>2. \/ UNCHANGED mishap
          \/ \E what \in {"late", "leaked", "mixed"} : Happens(what)
      BY DEF Next, ExecHandler, ConsoleHandler, ExecConnects, Claims, Acquire, TakesInflight, Installs,
         ExecOpens, RunTakesEvent, RunGivesUp, DrainTakesEvent, DrainGivesUp, ClearsSlot,
         LeavesInflight, DropsClaim, ConsoleConnects, ConsoleOpens, TermTypes, RelayTakesEvent,
         RelaySeesLinkDown, TermLeaves, ConsoleCloses, ReaderRoutes, Link, LinkDrops, ForgetsHost,
         HostAnswers, LearnsHost, LosesPacket, Host, HostTakesPacket, ShellSpeaks, ShellDies, vars
    <3> QED
      BY <3>1, <3>2
  <2> QED
    BY <2>1, <2>2 DEF Calm
<1>2. QuietOffSlot /\ InputStaysHome
  BY <1>1 DEF DeafInv, LaneInv, Calm, Tidy
<1>3. CASE UNCHANGED vars
  <2>1. UNCHANGED <<up, down, inbox, pc, shell>>
    BY <1>3 DEF vars
  <2> QED
    BY <1>1, <2>1, HarmlessKeepsEar
<1> QED
  BY <1>1, <1>2, <1>3, ExecKeepsEar, ConsoleKeepsEar, ReaderKeepsEar, LinkKeepsEar, HostKeepsEar,
     ShellsKeepEar DEF Next, Host

(* On a host with two slots a run whose end is an event, its own shell's   *)
(* exit or the sentinel of its command, ends on its own, as long as every  *)
(* drain before it waited long enough: for any number of runs and consoles *)
(* and any number of reconnects.                                           *)
THEOREM RunEndsOnItsOwn == Spec => RunHearsOwnEnd
<1> DEFINE Inv == LaneInv /\ DeafInv /\ EarInv
<1>1. Init => Inv
  <2> SUFFICES ASSUME Init
               PROVE  Inv
    OBVIOUS
  <2>1. LaneInv /\ DeafInv
    BY InitLines
  <2>2. \A k \in Kinds : shell[k] = None
    BY DEF Init
  <2>3. up = <<>> /\ down = <<>> /\ \A h \in Handlers : inbox[h] = <<>>
    BY DEF Init
  <2>4. ASSUME NEW g \in Runs
        PROVE  TraceOf(g)
    <3>1. \A S : Without(<<>>, S) /\ AtMostOnce(<<>>, S)
      BY DEF Without, AtMostOnce
    <3> QED
      BY <2>2, <2>3, <3>1 DEF TraceOf, OneTrace, Gone, NoShellOf, Handlers
  <2>5. EarInv
    BY <2>2, <2>3, <2>4 DEF EarInv, ExecSpeaksForRuns, TraceInv, HearsItself, Kinds, Handlers
  <2> QED
    BY <2>1, <2>5
<1>2. OwnerInv /\ Inv /\ [Next]_vars => Inv'
  BY LaneInvariant, DeafInvariant, EarInvariant DEF OwnerInv
<1>3. OwnerInv /\ Inv /\ [Next]_vars
        => [mishap = "none" => \A h \in Runs :
              pc[h] = "run" /\ pc'[h] = "drain" /\ dual[h] = "yes" /\ inbox'[h] # inbox[h]
                  => Head(inbox[h]).of = h]_vars
  <2> SUFFICES ASSUME OwnerInv, Inv, [Next]_vars, mishap = "none", NEW h \in Runs,
                      pc[h] = "run", pc'[h] = "drain", dual[h] = "yes", inbox'[h] # inbox[h]
               PROVE  Head(inbox[h]).of = h
    OBVIOUS
  <2>1. h \in Handlers /\ h \in Present /\ pc[h] \in OnSlot
    BY DEF Handlers, Present, Claimed, OnSlot
  <2>2. Calm
    BY <2>1 DEF Calm, OwnerInv, ClaimInv
  <2>3. inbox[h] \in Seq(Event) /\ HearsItself
    BY <2>1, <2>2 DEF EarInv, OwnerInv, Types, LineTypes
  <2>4. CASE inbox[h] # <<>>
    <3>1. 1 \in DOMAIN inbox[h] /\ Head(inbox[h]) = inbox[h][1]
      BY <2>3, <2>4
    <3> QED
      BY <2>3, <3>1 DEF HearsItself
  <2>5. CASE inbox[h] = <<>>
    <3>1. CASE \E g \in Handlers : \/ g \in Runs /\ ExecHandler(g)
                                   \/ g \in Consoles /\ ConsoleHandler(g)
      <4>1. PICK g \in Handlers : ChannelStep(g)
        BY <3>1, HandlerChannels DEF OwnerInv, DeafInv
      <4> QED
        BY <2>1, <2>5, <4>1 DEF ChannelStep
    <3>2. CASE ReaderRoutes \/ Link \/ Host \/ UNCHANGED vars
      <4>1. UNCHANGED pc
        BY <3>2 DEF ReaderRoutes, Link, LinkDrops, ForgetsHost, HostAnswers, LearnsHost, LosesPacket,
                    Host, HostTakesPacket, ShellSpeaks, ShellDies, vars
      <4> QED
        BY <4>1
    <3> QED
      BY <3>1, <3>2 DEF Next, Handlers
  <2> QED
    BY <2>4, <2>5
<1> QED
  BY <1>1, <1>2, <1>3, OwnersInvariant, PTL DEF Spec, RunHearsOwnEnd

=============================================================================
