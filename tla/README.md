# WireDesk in TLA+

WireDesk lets a Mac (or a Windows client) drive a Windows machine over one thin
link: a serial cable, Bluetooth RFCOMM or BLE. Keyboard, mouse, clipboard, two
kinds of remote shell and a browser tunnel share that link. This directory models
the parts that carry state across it and the threads around it, checks them with
TLC and proves the most important invariants with TLAPS.

## Inventory

| Component | Source | State it keeps | Operations | What makes it correct |
|---|---|---|---|---|
| Host session | `wiredesk-host/src/session.rs`, `session_thread.rs`, `injector.rs` | handshake, exec and pty slot, warm shell, held input, heartbeat clock, storm counter | `tick`, `handle_packet`, `pump_slot`, `into_injector`, reopen loop | nothing of one session reaches the next; an end is told once; a silent client is timed out |
| Shell output pacing | `session.rs` (`ShellFlow`), `link.rs` (`RxProgressReporter`) | sent and confirmed bytes, stall clock; decoded and reported bytes | `note_sent`, `on_report`, `release_if_stalled`, `due`, `reset` | counts agree, the cap holds, output never freezes |
| Client link | `wiredesk-client/src/link.rs`, `app.rs`, `main.rs` | `link_up`, `host_info`, owner of `outgoing_rx`, threads of the link | supervisor, `writer_thread`, `reader_thread`, the UI's event loop | no thread of an old link speaks for the new one; a dead link is replaced |
| Shell channel, IPC handlers | `shell_channel.rs`, `exec_bridge.rs`, `ipc.rs` | claims, event slots, `single_inflight`, `legacy_fallback` | `try_acquire`, guards, `route`, the connection handlers | one owner per claim; nobody hears or types into another's shell |
| Framing and codecs | `wiredesk-protocol`, `serial.rs`, `framing.rs`, `storm.rs` | `read_buf`, partial timeouts, error count | `encode`, `decode`, `serialize`, `deserialize`, `read_frame`, `feed`, `next_packet` | exact on every input; a bad frame forges nothing |
| BLE and RFCOMM | `wiredesk-transport/src/bluetooth`, `rfcomm` | reassembly slots, delegates, channel, locks, lookups | `split_packet`, `feed_chunk`, open, send, recv, drop | late callbacks touch only what is theirs; nobody waits for ever |
| Host shells | `wiredesk-host/src/shell.rs` | child, channel, line buffer, script file | spawn, write, drain, exit, kill | runs the bytes that were typed, once, in order |
| Exec runner | `wiredesk-exec-core` | phase, text held back, sentinel, deadline | `run_oneshot`, `push`, `finish` | the command's own code and all of its output |
| Browser streams and hub | `wiredesk-browser/src/lib.rs`, `request.rs` | offsets, the frame in flight, end flags; table, credits, epoch | `Hub::dispatch`, `poll`, `worker` | two reliable byte streams; credits given back |
| Browser companion | `apps/wiredesk-browser` | relay control, listeners, request threads | `Service::start`, `relay`, `serve`, `drop` | stopping leaves nothing behind and returns |
| Clipboard | `clipboard.rs` on both sides, `clip_file.rs`, `clipboard_files.rs`, `file_clipboard.rs` | outgoing queue, reassembly, stamps, cancel flags | offer, chunk, decline, commit, reset | no payload made of two, no endless echo, nothing held back for good |
| Keyboard, window, settings | `keyboard_tap.rs`, `app.rs`, `monitor.rs`, `config.rs` | modifiers down, mode, fullscreen, geometry, form | callback, capture toggles, fullscreen, save | no key left down, no place or setting mixed up |
| wd | `wiredesk-term` | socket or port, stop flag, raw mode | fallback, handshake, bridge, goodbye | ends when told; terminal restored |
| Host process, tray, desktop | `main.rs`, `ui/`, `browser_startup.rs`, `desktop.rs` | mutex, event, settings file, logon entries, status slots | start, save, restart, status bridge, capture, inject | one host, also after a restart; the tray tells the truth |

How they interact. On the host one thread runs the session: it pumps the shells,
polls browser and clipboard and receives, in that order, once per tick. Shell
children, their reader and writer threads and the browser workers run beside it
and talk through channels. On the client a writer and a reader thread share the
transport, a supervisor replaces both, the UI thread turns `Disconnected` events
into requests, the clipboard's poll thread feeds the writer's queue, the tap's
callback feeds it keys, and IPC handlers read `link_up` and `host_info` at any
moment. The two machines exchange packets that the line may damage or lose.

What is hard: sessions that end in the middle of anything; two shells and three
ways to open them behind one set of old opcodes; reports that outlive the session
they count; threads of an old link next to a new one; a send that fails half-way
through a tick; completions that arrive after they were given up; frames lost
around a retry; two clipboards that each see the other's copy as new. `PROJECT.json`
lists forty such hazards at their lines.

## Modules

| Module | Models | Checked in |
|---|---|---|
| `HostSession`, `HostProcess` | the session thread; the host's processes, mutex, settings file and logon entries | `MCHost` |
| `ShellFlow` | output pacing, both ends and the link between | itself |
| `ClientLink` | supervisor, writer, reader, UI thread | itself |
| `ShellChannel` | owner lock, event slots, IPC handlers, the host's slots behind the link | itself |
| `SerialReader`, `Cobs`, `FrameReader`, `Messages`, `ClipFile`, `Utf8Stream` | bytes and frames | `MCTransport` |
| `RfcommMac`, `RfcommWin`, `BleLink` | the radio backends | `MCTransport` |
| `BrowserStream`, `ByteStream` | two workers over a lossy link; what they promise | `MCBrowserStream` |
| `BrowserHub` | the companions' route, the hub's table, credits and epochs | `MCWork` |
| `BrowserService`, `Terminal`, `HostStatus` | the companion's threads; a `wd` invocation; session status on its way to the tray | `MCServices` |
| `ClipboardSync` | both sides of the clipboard and the queue between | `MCClipboardSync` |
| `KeyboardTap`, `ClientWindow`, `WindowPlacement`, `Monitors` | the client's desk | `MCDesk` |
| `ExecRun`, `ShellWriter`, `HostInput`, `FileClipboard`, `PortChoice`, `BrowserStartup` | what the host (and `wd`) is asked to do | `MCWork` |
| `HostAndServicesProofs`, `ShellFlowProofs`, `ClientProofs`, `ShellChannelProofs`, `BrowserStreamProofs`, `ClipboardProofs`, `TransportProofs`, `WorkProofs` | theorems | TLAPS |

Composition. `ShellChannel` puts the client's handlers, the reader's stores and the
host's slots together; `ShellFlow` both ends of the pacing; `BrowserStream` both
workers; `BrowserHub` companions, the client's relay and the host's hub;
`ClipboardSync` poll thread, writer, reader and the host; `MCDesk` shares the
tap's mode and events between `KeyboardTap` and `ClientWindow`, and the window's
reported state between `ClientWindow` and `WindowPlacement`.

Runs of several parts. Five MC modules check more than one component: `part` is
chosen in `Init` and never changes, the variables of the other parts keep their
first value, and the fairness of each specification is asked only of the part that
runs. So such a run is the disjoint union of the state spaces of its parts, and a
property of the run is the conjunction of a property of each. The component
modules keep their own `Spec` and, where they have one, `FairSpec`.

### The core, module by module

`HostSession`. `at` is the place in the tick: `"top"` (heartbeat), `"pty"` and
`"exec"` (`pump_slot`), `"poll"`, `"recv"`. Each arm of `handle_packet` is an
action; the peer may send any packet at any time. `epoch` tells one session from
the next (its parity is enough), `out` is what the last step put on the wire.
`RecvBlocks` is TRUE for BLE, whose `recv` waits on a channel; `SendCanTimeOut` is
TRUE for BLE, whose send error contains the word that the tick loop takes for a
quiet `recv`. A failed send of the other kind is `TransportFails`. Key codes are a
set `Keys` of which `Releasable` is what `release_all` knows.

`HostProcess`. Time is counted in the 100 ms between two attempts; a stopping
process keeps the mutex for a bounded number of them. A probing newcomer holds a
handle of the mutex for a moment, as `CreateMutexW` gives it one.

`ShellFlow`. Bytes are counted, not carried. `pending` is `exec_pending` as a set
ordered by end offsets; `waited` the time since the later of `unacked_since` and
`last_progress`. A Hello goes straight to the transport and may overtake reports
in the outgoing queue, which survives a reconnect; `misled` records that a report
of an old session was taken in.

`ClientLink`. A link is 0 or 1: the supervisor joins both threads before it spawns
the next. Each store to `link_up` or `host_info` is a step, and so is each event.

`ShellChannel`. A handler is the thread of one IPC connection; `pc` is its place
between two points where another thread can see it. Packets and events carry the
handler they belong to; the code has only the opcode, and no action looks at the
owner except to record it. `mishap` is history: `"mixed"`, a handler took the host
for the wrong generation; `"leaked"`, one returned after its open without a close;
`"late"`, a drain gave up on something still to come. The properties name the
mishaps they do not cover.

`BrowserStream`. `wire[e]` is everything between a worker's queue and the other
hub's dispatch. A byte is named by its connection and position, so bytes of two
connections cannot be confused; each connection has its own `sink`, and a host asked
to open again writes to the next one. `ImplementsByteStream` is the refinement: the bytes
handed to and by the two programs, the ends seen and the breaks are mapped to the
variables of `ByteStream`, and every step of the workers, the wire and the timers is
a step of it or a stutter.

`ClipboardSync`. A payload is a kind, an identity and a number of chunks. Write and
stamp are two steps of the reader, so the poll thread can come between. Sessions
end and begin, frames are lost, the user cancels, either side declines.

`RfcommMac`. A delegate is alive, parked or freed, and owes completions; IOBluetooth
delivers them at any time. `KeyboardTap`: what the callback loaded is kept in `cb`, so
a release by the UI thread may fall between load and send. `ExecRun`: text is a
sequence of tokens, the classes the runner's predicates tell apart, cut by reads.

## Runs

| Run | States | Bounds | Shows |
|---|---|---|---|
| `host` | 380 k | one client, two keys (one known to `release_all`), timeouts 1 and 2, storm at 2, one extra report; three processes, three attempts | five invariants (`SlotsOfThisSession`, `LegacyExclusive`, `AnsweredInOpenersDialect`, `ModifiersReleased`, `OneHost`), `EndToldOnce`, and three liveness properties |
| `shell_flow` | 1.1 M | cap 1, budget 2, payload 2, reads of 1, three bytes, one packet up, two Hellos | `AccountsBalance`, `EndsAgree`, `CapHolds`; no freeze, ended shells freed |
| `client_link` | 57 k | two events queued by the supervisor | three invariants; a dead link is replaced |
| `shell_channel` | 3.7 M | two runs (symmetric), one console, one loss of the link, either host | claims, routing, own end |
| `transport` | 259 k | a noisy line with two packets and two damaged bytes; every input to length 7 (COBS), 6 (text), 4 (names, payloads) and every message with boundary fields; frames of six bytes; three paired devices; two Winsock clients; two packet ids | nothing forged, codecs exact, radio state sound; links recover, the host is reached |
| `browser_stream` | 129 k | two bytes up, one down, chunks of up to 2, three frames on the wire, one lost frame, two host connections | the refinement, and that all arrives or the stream breaks |
| `services` | 206 k | two request threads, two header waits, hosts of version 3 and 4; two frames to `wd`; three queued statuses | nothing left behind, everybody ends and the tray is right |
| `clipboard` | 236 k | two copies, one trouble (lost frame, reconnect, cancel), two settings of what is taken | `WholePayload`, `TrafficDies`, `HeldShipsOnReconnect` |
| `desk` | 1.1 M | both platforms, two modifiers, three toggles, two edits, two displays on fifteen places | capture, placement, settings |
| `work` | 2.1 M | two companions, two workers, one credit; commands with and without newline, prompt-like output, stderr, compression, banner; ten payloads; two sockets | commands run exactly, nothing stays taken, nothing stale is sent |
| `shell_flow_tail`, `client_link_writer` | | as the passing run, reads to 2 in the first | violated, see Findings |

`host` stands for every transport: a recv that may time out and sends that may time
out allow every step of serial, RFCOMM and BLE, so an invariant that holds there
holds on each. `LastingSessionIsHeard` is for transports whose `recv` returns.

Why the bounds are enough. The two heartbeat limits differ, so the switch between
idle and busy happens; one report more than the tick's packet shows that reports do
not end a tick. A cap smaller than the pump's budget makes sends be confirmed in
part; a Hello overtakes the one packet up, so that it arrives stale. Two runs are
one that holds `single_inflight` and one that queues behind it. With a largest code
of 4 a full block takes three bytes, so seven hold two. Two damaged bytes can break
a frame and then the repair of it. Three devices put two dead ones before the host,
two delegates one late beside one live. One lost frame and two bytes make a retry
meet a late ACK in either direction; a second host connection is what a repeated
OPEN after a loss leads to. One credit among two workers is contention, and two
companions and two epochs are an old one beside a new one. Two copies are one in
each direction or one over the other. Runs without a deadlock check are those whose
systems may stop: inputs at their longest, programs that end, users that do nothing.

Every property of a passing run has a mutant in `PROJECT.json`: the definition of a
mapped operation with a plausible bug, under which TLC finds it violated. Properties
with several parts have more mutants in the modules, marked `(mutant)`, that were
checked the same way: `EncodeNoFullBlock`, `TooLongByOne`, `ReservedNotPrefixed`,
`EveryErrorBad` for `CodecsAreExact`; `JustDrop`, `ReleaseAny` for
`RadioStateIsSound`; `FlagOnly`, `NeverSuperseded` for `LinkRecovers`; `OneSlot`,
`JoinsAll`, `NeverGivesUp` for `EverybodyHears`; `LabelOnly` for
`ShownWhereItShould`; `NothingStale` for `NothingStaleIsSent`; `RunValueAnyway` for
`OneHost`.

### Fairness

* `HostSession`: the thread's own work and, where `recv` has a timeout, its return;
  the clock. Nothing of the peer. `HostProcess`: processes run and sleeps end.
* `ShellFlow`: the session thread ticks and the clock runs. A client that never
  reports is covered.
* `ClientLink`: threads run; a write to a broken transport fails in the end; a
  reader on a transport that is not alive runs out its budget; opening and cloning
  succeed if tried for ever (strong fairness): the supervisor retries without limit.
  The UI takes its events: `update` asks for a repaint every 16 ms.
* `SerialReader`: the receiving thread keeps calling `recv`. `RfcommMac`: the threads
  and the main run loop run, IOBluetooth delivers the completions it owes, deadlines
  pass; nothing of the devices. `RfcommWin`: the host's threads and timers run and a
  second client tries to connect.
* `BrowserStream`: workers run and the wire delivers what it does not lose, of which
  there is a bounded amount. Reading and writing the sockets and the retry timer are
  strongly fair: the worker polls both on every turn, and the programs at the two
  ends take and give bytes, or close, in the end.
* `BrowserService`, `Terminal`, `HostStatus`: their own threads run, and a thread that is
  blocked is fair only for the event that unblocks it. Nothing of the user, of the
  GUI or of the host.
* `ClipboardSync`: poll, writer, reader and session thread run; nobody has to copy.

## Proofs

For every value of the constants that satisfies the named assumptions:

* `HostAndServicesProofs`, the session: `TypeCorrect`, `ShellsEndWithTheirSession`,
  `LegacyConsoleIsAlone`, `ModifiersComeUp`, `DialectIsKept` and `EndIsToldOnce`.
  The inductive invariant `SessionInv` is the conjunction of the type invariant and
  the four properties: what a pump may say depends on whose shell sits in the slot
  (`SlotsOfThisSession`), and which shell a ShellClose ends depends on who may share
  the host (`LegacyExclusive`). Each property has one lemma with a step per action.
  `EndIsToldOnce` is an action property and assumes `SendCanTimeOut = FALSE`:
  on BLE a send that times out may lose the news (see below).
* `ShellFlowProofs`: `FlowTypeCorrect`, `AccountsAlwaysBalance`,
  `StallClockIsArmed`, `EndsAlwaysAgree` and `CapAlwaysHolds`. `acked <= sent` alone is not inductive: a report drops the
  pending sends up to its count, so the invariant needs that pending sends are runs
  of sent bytes that do not overlap and end past the confirmed count. The lemmas on
  pieces show that cutting output at the payload limit gives such runs, for every
  payload and length; it is what makes `end - acked` safe in unsigned arithmetic.
  That the two ends agree relates the host's count to the client's and to the bytes
  between them: `WireInv` says that the count sent is the count decoded plus what is on
  the wire, `ReportInv` that reports under way ascend and never exceed what was decoded,
  except one of an earlier session that a Hello overtook, which `misled` records. Both
  sum over queues; the lemmas at the head of the module are about such sums (adding,
  removing and moving an index), and an induction over naturals stated for a set (`EveryNatural`)
  instead of an operator. The cap follows: exec bytes on the wire are among those the
  host believes in flight, and a pump that finds less than the cap adds one read.
* `ClientProofs`, the link: `NothingStaleIsLeft`, `GateFollowsReader`, `ReceiverIsKept`,
  `GateAndWindowAreTrue`. The invariant `LinkInv` says, for each place of the
  supervisor, which threads may still run and what they may still store: after the
  join of the reader nobody can raise the gate, which is why lowering it before the
  join is enough only because the reader lowers it again on its way out. For the
  window `WindowInv` adds when a reconnect is due: from the moment a thread reports
  the link lost until the next link is spawned. While none is due both threads are at
  work, and the last event under way says what the gate says.
* `ClientProofs`, the desk: `PictureAndDisplayAreRight` and the action property
  `NothingLeaks`. `DeskInv` is the invariant of the part that is explored. `TapInv`: what
  a callback is about to press is in the books, under the swap setting it read, unless
  they were taken in between, which makes it late. `PaneInv`: the chrome, which takes the
  clicks, is drawn only outside fullscreen capture; a frame drains any number of hotkeys,
  so its helpers are proved to keep it along a recursive function over the queue, whose
  existence is a lemma (`ChainExists`). `PlaceInv`: until a toggle comes too early or
  no attempt moves the window (`astray`), the screen's rectangle never
  settles, and is gone back to only when the file had it. `DisplaysInv`: displays have
  identities of their own and the saved one is the picked display's; that a sorted
  arrangement exists (`SortedExists`) is what the list on Windows rests on.
* `HostAndServicesProofs`, the process: `OneHostAtATime`, with no assumption at all. `LockInv`: a
  process past the lock has a handle of the mutex, so whoever probes it finds it, and
  two are never past it; newcomers' handles come and go. For the logon entries:
  whatever `enable`, `disable` and `reconcile_autostart` leave, both are armed only
  when they were, or when a part of the call failed unreported.
* `HostAndServicesProofs`, the services: `NothingStaysOrSlips`, for any number of
  request threads, frames and bytes. `StopInv`: only a service that has not been told
  to stop is alive, so a request thread that looks under the hub's lock attaches
  nothing after the reset. `WireInv`: the bytes between the peer and `wd` are the frames
  that are due, each whole or the last one short of its body (`Whole`).
* `ShellChannelProofs`: `OneOwnerOfEveryClaim`, `NothingEverCrosses` and the action
  property `RunEndsOnItsOwn`, for any number of runs and consoles. Counting claims
  (`refs` is the number of runs present) is not inductive alone: `SlotInv` says which
  handler each slot feeds, `LaneInv` that between packets of two handlers in one
  dialect the first one's close is queued, `EarInv` that of one run a single trace is
  on its way: its open, then its shell, then that shell's end on the line, then in
  its channel. The last is what a drain waits for, and fails after one that gave up.
* `BrowserStreamProofs`: `StreamTypeCorrect`, `CleanEndsAreComplete`,
  `StreamsAreAlwaysWhole`, `ImplementsStream`, for streams and chunks of any length
  and any number of frames under way, lost frames and connections. `LinkInv` is what
  holds on every link: what a frame says of its sender (`Says`: a FIN names the
  last byte, a FIN_ACK was earned), what the sockets hold, and that no OPEN comes
  behind a DATA or FIN. It gives the first two. `ResetInv` needs that RESET frames
  are not lost (`LossyResets = "no"`, stated in the theorems): then a client that
  still runs has a RESET on its way to it, or everything in front of that RESET
  speaks for the host's first connection. With both, the step simulation shows that
  each write is a `Give`, each read a `Take`, the FIN that counts a `Tell`, and any
  other step a stutter.

* `ClipboardProofs`: `PayloadsStayWhole`, for any payloads (also several of one
  length, and identical ones), settings, batch size and number of copies. `UpInv` is
  about the way from the Mac to the host. `Steady`: each chunk in the queue stands behind
  the packet it follows, so until something goes wrong what the host has put together is
  the beginning of one payload and the chunk at the queue's head continues it.
  `Coherent` is what is left after one fault: chunks of another transfer may remain in
  the table, but they are fewer than it expects, and are overwritten or leave a gap.
  `FullIsPure` draws the conclusion: what is complete is of one payload, or the checks of
  `commit` (no gap, exact length) drop it. `DownInv` says the same of the frames to the
  Mac together with the host's outbox as one stream in which declines stand anywhere.
  The theorem is about one fault (`Trouble` has each kind once); with two lost frames
  the property is false (see below).
* `TransportProofs`, the radio backends: `RadioStaysSound`. `RadioInv` is the
  invariant of the backend that runs. `MacInv`: what `pending` counts is at least the
  completions IOBluetooth still owes the delegate and the one that runs in it before it
  is counted down, so a delegate with none pending is owed none; one that is owed a
  completion is held by the attempt or kept; and by the time a channel is open its
  delegate is owed nothing, so the link may let go of it. `LookupInv`: a lookup that
  runs and was not given up has the generation in the slot, so there is one. `PeerInv`:
  once bytes of a client were heard, either that client is still the guest or the
  session is flagged closed and takes nobody else. `BleInv`: one packet is on its way at
  a time, and the slot it goes to is old, hence swept before it is written to, or holds
  chunks of that packet only.

* `TransportProofs`, the codecs: a packet's way to the line and back, for every input and
  not only the short ones of the run. Encoder and decoder are folds, and what a fold returns is shown
  by its iteration, a function on sets of positions (`Stepping`); inductions are over
  sets of naturals or of sequences, by least elements (`EveryNatural`, `EverySequence`).
  `CobsRoundTrip` and `TornFrameIsPrefix`: the bytes written so far are those of the
  closed blocks, and the open block is read back as soon as its code is known.
  `CleanLineIsExact`: the frames not read yet stand behind each other (`Tower`), what is
  left after i packets being frame i + 1 and what is left after i + 1; so `read_frame`
  meets every delimiter where the encoder put it. `FramesAreOfTheStream`: behind each byte
  `partial` holds what stands behind the last delimiter, unless it is too long, and
  that is when `resyncing` is set (`Sound`); giving up a half frame takes off what no
  frame ends in (`GivenUp`). `HeaderRoundTrip` and `EveryNameIsUsable`: a file's name.
  `SeamsNeverShow`: what one decoding makes of a text falls in two at every beginning
  of a character (`TextSeam`), `valid_up_to` stops behind whole characters
  (`ValidUpToIs`), so a push returns what the decoding of everything fed so far has put
  out, and holds the character it is in (`DecodeIs`); a scan is looked at from its end.
  `MessagesArrive` and `AcceptedArrives`: an integer's bytes are its digits and give it
  back (`BytesBack`), with a sign too (`SignBack`); a field's bytes behind which others
  stand are taken off and read as that field (`FieldIsReadBack`), so behind k fields the
  reader has the first k and stands in front of the others' bytes
  (`FieldsAreReadBack`), as it reads by the table the writer writes by (`LayoutIs`);
  and what is read is of the field's type (`AllTyped`), so the first theorem applies to it.
  `CodecsStayExact` puts these together for `MCTransport`: `CodecInv` says what the
  inputs of each codec are made of, and `FrameInv` is the frame reader's invariant.

* `WorkProofs`: `NothingStaleIsEverSent` and `NothingIsEverLeftTaken`, over every part
  of `MCWork` those name. The hub's invariant `HubInv`: of every epoch the count in use
  is the number of its workers with a credit (`CreditsMatchHolders`, without which a
  release could underflow), the table holds workers of this epoch only, a stream that
  is over holds nothing, and `OrderInv` orders what is on its way to the host by
  companion: frames ascend, and none is of one before the companion whose stream runs.
  A step that sends or gives out a frame then does so in that order. Injected input
  (`InputInv`): what is pressed is answered for by the session, by a release that was
  refused, or by the accepted part of a batch whose ups are still to be sent. That the
  ups suffice needs that each batch lets go of what it presses (`EveryBatch`) and what
  a fold over a run of events returns (`AfterIs`, `UpsAre`): the folds of the community
  modules by least elements of sets of naturals, instead of the library's induction.
  The file clipboard (`FilesInv`): who is in a call holds the lock, and clipboard and
  block are held between the two steps that take and give them. `PortsInv`: the list
  and the names behind it are one. `StartupInv`: the worker does not come back to a
  launch that went through.

Assumptions are type assumptions on the constants (a byte of more than eight values; positive budgets, chunks and
thresholds, idle timeout at most the busy one, `None` distinct, runs and consoles
disjoint and finite; payloads of at least one chunk, as an empty text is not sent and
files and images carry a header; companions and workers numbered and finite, a drag's
button among the buttons; a rectangle of the user's neither the screen nor none, and
one display never unplugged); TLC evaluates them in every run. `CleanLineIsExact` also
assumes that the packets' frames fit (`EveryFrameFits`): MAX_FRAME_SIZE is 8192, and a
packet carries at most MAX_PAYLOAD = 4096 bytes.

Model-checked only:

* Liveness, as fairness is outside the prover.
* `CommandsRunExactly`: a command's transcript is cut and searched by folds and filters
  over all of it, a port list by `SelectSeq` and `FlattenSeq`: inductions over data.
* `PacketsAsSent`: true of a number of damaged bytes too small to make up a packet
  that nobody sent; with more of them it is false, and the bound is a number of the
  run and not of the code. With none, it is proved (`CleanLineIsExact`).

## Findings

1. `shell_flow_tail`: an exit found by `try_exit_code` after a drain that met its
   budget drops the output still in the channel.
2. `client_link_writer`: a HelloAck decoded after the writer gave up raises the gate
   again, until the supervisor gets to it.

### Met while modelling

Behaviour that the models have and no run states. Where a property would be
violated its statement is weaker by exactly that case, and says so.

Host session. `release_all` knows three modifiers and three buttons, so another held
key stays down when the port is reopened (`injector.rs:157`). BLE's `recv` has no timeout,
so the heartbeat check is not reached. A BLE send that times out in the step that
reports an exit is swallowed after the slot was emptied. A re-handshake kills both
slots but not the warm shell. How late a heartbeat may be when the last shell closes
and the limit shrinks from 30 s to 6 s (`session.rs:578`) is a question of timing.

Shells. `drain_pending` empties the channel only: output of the idle shell that the
reader has not queued yet arrives with the next command (`session.rs:837-846`). A killed
shell leaves its script until the next vacuum.

Client link and handlers. A reader on its way out empties `host_info` before it lowers
`link_up`, against the comment at `link.rs:673`: a handler that passes the gate in
between takes a host with two slots for an old one, a console then sits in the exec
slot and the next run overwrites its sender. On an old host the next run can take a
console's exit for its own. A handler whose socket cannot be cloned leaves the shell
it opened.

Transport. A COBS error leaves the bad frame in `read_buf`, so every frame after it
fails until the storm counter reopens the port (`serial.rs:164`). The host's BLE
reassembler outlives the connection, and a reused id can merge with a half-filled
slot (`fragment.rs:224-225`). BLE's notification has no timeout of its own, and a
Drop with another owner returns early. In `rfcomm/mac.rs` a close that is reported
after `Inner::drop` is not covered by the parking; with a fixed channel only the
rotation gets past a dead first device. `rfcomm/win.rs:572-573` says a state is
reset that stays set. `write_string` may cut a character in two; the reader enforces
none of the writer's maxima. `".. "` as a file name becomes `".."`.

Browser. A lost RESET can let bytes of two host connections meet in one stream: the
run has resets arrive (`LossyResets = "no"`). A host worker whose READY is lost and
whose client is gone stays. A desktop request past its version check can attach
after a reconnect to an older host (`http.rs:246-280`). After a retry's sleep Chrome is
launched without looking whether it listens by now.

Clipboard. The flag of a cancelled transmission is cleared by the first packet that is
not clipboard (`link.rs:349`), so that a key press between two chunks lets the rest of
the transfer through and two payloads can mix: `WholePayload` leaves out that case. Two lost
frames, a chunk of one transfer and the offer of the next, also mix two texts of the
same length, as nothing but the length is compared at the end. Two copies that cross leave the two clipboards swapped. The stamp of
what was there at start is undone by the reset at HelloAck. A file copied again
while the link is down can be replaced by its name as text. A declined offer's flag
can also drop the next queued transfer. A copy probed while another program has the
clipboard open is not looked at again, and a failed set leaves it emptied.

Keyboard, input and window. On macOS a letter held at disable is not released; key-ups of
Cmd+Enter and Cmd+Esc have no key-down; a synthetic combination's key-up is lost when
capture ends between its halves; a late callback can leave a modifier down. A mouse
button held at release stays down. Toggling fullscreen again while a restore is
pending snapshots the screen's rectangle; a restore given up leaves the screen's size
in the file; an unparsable config is overwritten with defaults; *Reset to defaults*
leaves live toggles; Save & Restart skips `on_exit`. A batch of remote input sends all
its releases, not those it pressed, and the system may refuse them.

Exec and `wd`. Output lines that look like a prompt are swallowed; stderr that loses the
race with the sentinel is dropped and stderr that cuts READY leads to the timeout; a
banner line like a prompt sends the payload early; with `--compress` stray stderr is
dropped. The fallback after the 2 s first-frame timeout can run a command twice
(`wiredesk-term/src/main.rs:397-406`). Raw mode refused after the ShellOpen returns
without a ShellClose. The direct serial bridge never ends on a dead line.

Host process. The newcomer waits 4 x 100 ms, not the 500 ms `single_instance.rs:83-84`
says. Both logon entries stay armed when the removal of the Run value, or the query
of the task, fails. Save & Restart with a failed autostart call leaves the file
changed; `fs::write` failing midway empties it. The tray shows "Connected" while a
reopen blocks. A pick in the port list during a status update is dropped.

## Not modelled

* The CRC's arithmetic: a packet is accepted only whole.
* What the OS does: ConPTY, GATT discovery, IOBluetooth, Winsock, the pasteboard and
  picture codecs are external and appear as what they may answer.
* Pixels and encoding of the desktop view, HTML and HTTP parsing, drawing, menus,
  icons, layout, log files, wording, argument parsing: no state a property relates.
* Tables: key codes, chip names, default values; the mouse debounce.
* Wall-clock bounds: time is a counter or a free timer.
* The middle lines of long ssh payloads, and cache directories on disk.

## Plan

Done: all modules above with their runs, and the theorems listed above. What is left
is out of the provers' reach or not worth its size: liveness, and the transcripts of
the exec runner.
