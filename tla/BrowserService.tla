---------------------------- MODULE BrowserService ----------------------------
(***************************************************************************)
(* The client's browser service: two loopback listeners whose request      *)
(* threads attach streams to the hub, a worker that keeps the hub          *)
(* connected to the GUI's relay, the Drop that ends both, and the launchd  *)
(* helper that forwards port 80 to the viewer's port.  What the hub does   *)
(* with a stream is BrowserStream's and BrowserHub's; here the hub is the  *)
(* set of kinds of stream attached to it.                                  *)
(***************************************************************************)
EXTENDS Naturals, FiniteSets

CONSTANTS
    Threads,    \* request threads alive at once
    MaxHeaders, \* 16 in the code: threads that may be counted in active_headers
    Versions    \* protocol versions of hosts the relay may report

NoKind == "none"
Kinds == {"cdp", "desktop", "targets", "panel"}
Streams == {"cdp", "desktop"}
browser_supported(v) == v >= 3
desktop_supported(v) == v >= 4

VARIABLES
    owner,      \* the GUI: "none", "started", or a step of Drop
    alive,      \* Service.alive
    control,    \* Service.control holds the relay's socket
    worker,     \* where the browser-service thread is
    socket,     \* the IPC socket: "none", "open" or "shut"
    reader,     \* the browser-ipc-reader thread runs
    version,    \* Service.host_version
    listening,  \* the listener threads run
    request,    \* the request threads
    hub,        \* kinds of stream attached
    forward,    \* the forwarder's connection
    upload      \* its upload thread: "none", "copying" or "done"

servicevars == <<owner, alive, control, worker, socket, reader, version, listening,
          request, hub, forward, upload>>
relaying == <<control, worker, socket, reader, version>>
serving == <<listening, request>>
forwarding == <<forward, upload>>

Idle == [at |-> "idle", kind |-> NoKind]
Active == {t \in Threads : request[t] # Idle}

ServiceInit ==
    /\ owner = "none" /\ alive = FALSE /\ control = FALSE
    /\ worker = "none" /\ socket = "none" /\ reader = FALSE /\ version = 0
    /\ listening = FALSE /\ request = [t \in Threads |-> Idle] /\ hub = {}
    /\ forward = "idle" /\ upload = "none"

-----------------------------------------------------------------------------
(* service.rs: the owner *)

\* A token that cannot be read or a port that is taken starts nothing.
start ==
    /\ owner = "none"
    /\ owner' = "started" /\ alive' = TRUE
    /\ worker' = "connecting" /\ listening' = TRUE
    /\ UNCHANGED <<control, socket, reader, version, request, hub, forwarding>>

DropSignals ==
    /\ owner = "started"
    /\ alive' = FALSE
    /\ socket' = IF control THEN "shut" ELSE socket
    /\ owner' = "joining worker"
    /\ UNCHANGED <<control, worker, reader, version, serving, hub, forwarding>>

DropResets ==
    /\ owner = "joining worker" /\ worker = "none"
    /\ hub' = {}
    /\ owner' = "joining listeners"
    /\ UNCHANGED <<alive, relaying, serving, forwarding>>

\* The request threads are not joined.
DropEnds ==
    /\ owner = "joining listeners" /\ ~listening
    /\ owner' = "none"
    /\ UNCHANGED <<alive, relaying, serving, hub, forwarding>>

-----------------------------------------------------------------------------
(* service.rs: the worker *)

Move(at) == worker' = at /\ UNCHANGED <<owner, alive, serving, hub, forwarding>>

Connect ==
    /\ worker = "connecting"
    /\ \/ Move("connected") /\ socket' = "open"
       \/ Move("over") /\ UNCHANGED socket
    /\ UNCHANGED <<control, reader, version>>

\* The stop check and the installation share the lock.
InstallControl ==
    /\ worker = "connected"
    /\ IF alive THEN Move("shaking hands") /\ control' = TRUE
                ELSE Move("over") /\ UNCHANGED control
    /\ UNCHANGED <<socket, reader, version>>

\* The relay answers with the host's version, refuses, or says nothing for
\* three seconds.
Handshake ==
    /\ worker = "shaking hands"
    /\ \/ \E v \in Versions :
             /\ socket = "open" /\ browser_supported(v)
             /\ Move("relaying") /\ version' = v /\ reader' = TRUE
       \/ Move("over") /\ UNCHANGED <<version, reader>>
    /\ UNCHANGED <<control, socket>>

\* EOF, a packet that is not the browser's, or a queue of 64 that is full.
ReaderEnds ==
    /\ reader
    /\ reader' = FALSE
    /\ UNCHANGED <<owner, alive, control, worker, socket, version, serving, hub, forwarding>>

\* The loop looks at both flags every 20 ms; a write may fail.
LoopEnds ==
    /\ worker = "relaying"
    /\ Move("closing")
    /\ UNCHANGED <<control, socket, reader, version>>

ShutDown ==
    /\ worker = "closing"
    /\ Move("joining reader") /\ socket' = "shut"
    /\ UNCHANGED <<control, reader, version>>

JoinReader ==
    /\ worker = "joining reader" /\ ~reader
    /\ Move("over")
    /\ UNCHANGED <<control, socket, reader, version>>

\* After relay(): forget the host, reset the hub, park or stop.
RelayOver ==
    /\ worker = "over"
    /\ version' = 0 /\ control' = FALSE /\ socket' = "none" /\ hub' = {}
    /\ worker' = IF alive THEN "parked" ELSE "none"
    /\ UNCHANGED <<owner, alive, reader, serving, forwarding>>

\* park_timeout, cut short by Drop's unpark; a listener that failed cleared
\* alive as well.
Unpark ==
    /\ worker = "parked"
    /\ Move(IF alive THEN "connecting" ELSE "none")
    /\ UNCHANGED <<control, socket, reader, version>>

-----------------------------------------------------------------------------
(* http.rs *)

At(t, at) == request' = [request EXCEPT ![t].at = at]
Done(t) == request' = [request EXCEPT ![t] = Idle]

\* A connection beyond the limit is closed at once and is left out.
Accept(t, kind) ==
    /\ listening /\ request[t] = Idle /\ Cardinality(Active) < MaxHeaders
    /\ request' = [request EXCEPT ![t] = [at |-> "header", kind |-> kind]]
    /\ UNCHANGED <<owner, alive, relaying, listening, hub, forwarding>>

\* A header that does not come, is too long, or names the wrong host, origin or
\* token is answered with 403; the panel's own files need no token.
authenticate(t) ==
    /\ request[t].at = "header"
    /\ IF request[t].kind = "panel" THEN Done(t) ELSE Done(t) \/ At(t, "authorized")
    /\ UNCHANGED <<owner, alive, relaying, listening, hub, forwarding>>

\* The first look at alive, and the host's version for desktop requests.
CheckVersion(t) ==
    /\ request[t].at = "authorized"
    /\ IF alive /\ (request[t].kind = "desktop" => desktop_supported(version))
       THEN At(t, "checked") ELSE Done(t)
    /\ UNCHANGED <<owner, alive, relaying, listening, hub, forwarding>>

\* GET /targets asks the service's own other port, for five seconds at most.
targets(t) ==
    /\ request[t].at = "checked" /\ request[t].kind = "targets"
    /\ Done(t)
    /\ UNCHANGED <<owner, alive, relaying, listening, hub, forwarding>>

\* (mutant) alive was looked at before
CheckedBefore == TRUE

StillAlive == alive

\* Under the hub's lock; a full hub refuses.
attach(t) ==
    /\ request[t].at = "checked" /\ request[t].kind \in Streams
    /\ hub' \in IF StillAlive THEN {hub, hub \cup {request[t].kind}} ELSE {hub}
    /\ Done(t)
    /\ UNCHANGED <<owner, alive, relaying, listening, forwarding>>

StreamEnds == \E k \in hub :
    /\ hub' = hub \ {k}
    /\ UNCHANGED <<owner, alive, relaying, serving, forwarding>>

\* (mutant) a blocking accept, which sees the flag no more
AcceptBlocks ==
    /\ listening /\ alive
    /\ listening' = FALSE /\ alive' = FALSE
    /\ UNCHANGED <<owner, relaying, request, hub, forwarding>>

\* The accept loop sees the flag, or fails and clears it.
ListenerEnds ==
    /\ listening
    /\ listening' = FALSE /\ alive' = FALSE
    /\ UNCHANGED <<owner, relaying, request, hub, forwarding>>

-----------------------------------------------------------------------------
(* web_forwarder.rs *)

Forward(at, up) ==
    /\ forward' = at /\ upload' = up
    /\ UNCHANGED <<owner, alive, relaying, serving, hub>>

\* A bad header or host, the health check, or nobody on the viewer's port: the
\* helper answers itself.
serve ==
    /\ forward = "idle"
    /\ listening /\ Forward("proxy", "copying")

\* The client closes its half, the upload thread passes that on.
UploadEnds == forward = "proxy" /\ upload = "copying" /\ Forward("proxy", "done")

\* (mutant) the client's socket is left open
ClientLeftOpen == Forward("joining", upload)

\* The service closed its side: both sockets are shut down, which ends the
\* upload thread's read.
DownloadEnds == Forward("joining", "done")

Downloaded == forward = "proxy" /\ DownloadEnds

JoinUpload == forward = "joining" /\ upload = "done" /\ Forward("idle", "none")

-----------------------------------------------------------------------------
Worker == \/ Connect \/ InstallControl \/ Handshake \/ ShutDown \/ JoinReader
          \/ RelayOver \/ Unpark
Handle(t) == authenticate(t) \/ CheckVersion(t) \/ targets(t) \/ attach(t)

ServiceNext ==
    \/ start \/ DropSignals \/ DropResets \/ DropEnds
    \/ Worker \/ LoopEnds \/ ReaderEnds \/ ListenerEnds \/ StreamEnds
    \/ \E t \in Threads : Handle(t) \/ \E k \in Kinds : Accept(t, k)
    \/ serve \/ UploadEnds \/ Downloaded \/ JoinUpload

ServiceSpec == ServiceInit /\ [][ServiceNext]_servicevars

\* Threads run, timeouts end, a shut socket ends its reader, and a stopped
\* service closes the forwarded connection.
ServiceFairSpec ==
    /\ ServiceSpec
    /\ WF_servicevars(DropResets) /\ WF_servicevars(DropEnds) /\ WF_servicevars(Worker)
    /\ WF_servicevars(LoopEnds /\ (~alive \/ ~reader))
    /\ WF_servicevars(ReaderEnds /\ socket = "shut")
    /\ WF_servicevars(ListenerEnds /\ ~alive)
    /\ WF_servicevars(Downloaded /\ ~listening) /\ WF_servicevars(JoinUpload)
    /\ \A t \in Threads : WF_servicevars(Handle(t))

-----------------------------------------------------------------------------
\* A stopped service leaves no stream in the hub, although its request threads
\* are not waited for: one that was past its checks attaches nothing
\* (http.rs, service.rs Drop).
NothingAttachedAfterStop == owner \in {"joining listeners", "none"} => hub = {}

\* Drop returns: no thread it joins waits on a socket nobody shuts.
DropReturns == owner = "joining worker" ~> owner = "none"

\* The helper's connection ends once the service has closed its side.
ForwarderLetsGo == forward = "joining" ~> forward = "idle"
==============================================================================
