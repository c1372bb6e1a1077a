------------------------------ MODULE MCServices ------------------------------
(***************************************************************************)
(* The threads beside the link, one part at a time: the browser service    *)
(* and its forwarder, a wd invocation, and the status the tray shows of    *)
(* the host's session thread.  `part' never changes; the variables of the  *)
(* other parts keep their first value.                                     *)
(***************************************************************************)
EXTENDS BrowserService

CONSTANT MaxFrames   \* bound: frames a peer sends to one wd

VARIABLE part

(* HostStatus. *)
VARIABLES hostThread, attempt, hostState, last, chan, persistent, pending, heard, notice, tray,
          row, balloon

(* Terminal. *)
VARIABLES execMode, wd, via, gui, serialPort, sent, wire, rx_buf, got, stop, threads, raw, told

Status == INSTANCE HostStatus WITH thread <- hostThread, state <- hostState,
                                   MaxQueue <- 3, MaxBackoff <- 2
Wd == INSTANCE Terminal WITH exec <- execMode, port <- serialPort

statusvars == <<hostThread, attempt, hostState, last, chan, persistent, pending, heard, notice, tray,
                row, balloon>>
wdvars == <<execMode, wd, via, gui, serialPort, sent, wire, rx_buf, got, stop, threads, raw, told>>
mcvars == <<part, servicevars, statusvars, wdvars>>

MCInit ==
    /\ part \in {"browser", "status", "wd"}
    /\ ServiceInit /\ Status!Init /\ Wd!Init
    /\ part # "status" => hostThread = "opening"
    /\ part # "wd" => execMode = FALSE /\ gui = "absent"

OnBrowser(A) == part = "browser" /\ A /\ UNCHANGED <<part, statusvars, wdvars>>
OnStatus(A) == part = "status" /\ A /\ UNCHANGED <<part, servicevars, wdvars>>
OnWd(A) == part = "wd" /\ A /\ UNCHANGED <<part, servicevars, statusvars>>

MCNext == OnBrowser(ServiceNext) \/ OnStatus(Status!Next) \/ OnWd(Wd!Next)

(* The fairness of each part's own specification, of the part that runs.   *)
MCSpec ==
    /\ MCInit /\ [][MCNext]_mcvars
    /\ WF_mcvars(OnBrowser(DropResets)) /\ WF_mcvars(OnBrowser(DropEnds))
    /\ WF_mcvars(OnBrowser(Worker))
    /\ WF_mcvars(OnBrowser(LoopEnds /\ (~alive \/ ~reader)))
    /\ WF_mcvars(OnBrowser(ReaderEnds /\ socket = "shut"))
    /\ WF_mcvars(OnBrowser(ListenerEnds /\ ~alive))
    /\ WF_mcvars(OnBrowser(Downloaded /\ ~listening)) /\ WF_mcvars(OnBrowser(JoinUpload))
    /\ \A t \in Threads : WF_mcvars(OnBrowser(Handle(t)))
    /\ WF_mcvars(OnStatus(Status!SleepEnds))
    /\ WF_mcvars(OnStatus(Status!OpenSucceeds \/ Status!OpenFails))
    /\ WF_mcvars(OnStatus(Status!Turn(hostState, FALSE))) /\ WF_mcvars(OnStatus(Status!Bridge))
    /\ WF_mcvars(OnStatus(Status!Notify)) /\ WF_mcvars(OnStatus(Status!OnNotice))
    /\ WF_mcvars(OnWd(Wd!Main)) /\ WF_mcvars(OnWd(Wd!reader_thread))
    /\ \A t \in Wd!BridgeThreads : WF_mcvars(OnWd(Wd!ThreadSeesStop(t)))

----------------------------------------------------------------------------
(* A stopped browser service leaves no stream in the hub although its      *)
(* request threads are not waited for; and every frame the peer of wd      *)
(* wrote is received once and in order, whatever read timed out in the     *)
(* middle of one.                                                          *)
NothingAttachedNothingSlips ==
    /\ part = "browser" => NothingAttachedAfterStop
    /\ part = "wd" => Wd!FramesIntact

(* Drop of the service returns, no thread it joins waiting on a socket     *)
(* nobody shuts, and its forwarder's connection ends; wd does not outlive  *)
(* the GUI whose socket it rides, and once told to stop it ends with the   *)
(* terminal restored and the host told; what the session stays in is what  *)
(* the tray ends up showing.                                               *)
EverybodyHears ==
    /\ (\/ part = "browser" /\ owner = "joining worker"
        \/ part = "wd" /\ via = "ipc" /\ gui = "dead")
       ~> (\/ part = "browser" /\ owner = "none"
           \/ part = "wd" /\ (wd = "exited" \/ via # "ipc"))
    /\ (\/ part = "browser" /\ forward = "joining"
        \/ part = "wd" /\ stop = "yes")
       ~> (\/ part = "browser" /\ forward = "idle"
           \/ part = "wd" /\ wd = "exited" /\ ~raw
                          /\ {"ShellClose", "Disconnect"} \subseteq told)
    /\ Status!TrayFollowsTheSession
==============================================================================
