------------------------------- MODULE MCHost -------------------------------
(***************************************************************************)
(* The host, one part at a time: the session thread against any client and *)
(* any wire, and the host's processes with their logon entries.  `part'    *)
(* never changes; the variables of the other part keep their first value.  *)
(* One client name is enough: the host does nothing with it but show it.   *)
(***************************************************************************)
EXTENDS HostSession, HostProcess

CONSTANTS ctrl, letter, here

(* Left Ctrl, which release_all lets go of, and a key it does not know.    *)
SomeKeys == {ctrl, letter}

KnownKeys == {ctrl}

(* The user starts the host elevated; the Run entry starts it without the  *)
(* full token.  A stopping host keeps the mutex for one retry of its       *)
(* successor, which has three.                                             *)
Starts == {[exe |-> here, admin |-> TRUE]}

VARIABLE part

mcvars == <<part, vars, processVars>>

MCInit ==
    /\ part \in {"session", "processes"}
    /\ Init /\ ProcessInit
    /\ part # "processes" => file = {} /\ task = NoEntry /\ run = NoEntry

InSession(A) == part = "session" /\ A /\ UNCHANGED <<part, processVars>>
InProcesses(A) == part = "processes" /\ A /\ UNCHANGED <<part, vars>>

MCNext == InSession(Next) \/ InProcesses(ProcessNext)

(* The fairness of each part's own specification, of the part that runs.   *)
MCSpec ==
    /\ MCInit /\ [][MCNext]_mcvars
    /\ WF_mcvars(InSession(Work)) /\ WF_mcvars(InSession(Tock))
    /\ WF_mcvars(InSession(~RecvBlocks /\ (RecvTimeout \/ HandlePacket \/ ProtocolError)))
    /\ WF_mcvars(InProcesses(Tick))
    /\ \A p \in Procs : WF_mcvars(InProcesses(Own(p)))
=============================================================================
