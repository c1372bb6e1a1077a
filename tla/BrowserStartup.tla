--------------------------- MODULE BrowserStartup ---------------------------
(***************************************************************************)
(* browser_startup.rs: the worker that starts the managed Chrome once, at  *)
(* logon, through the user's own unelevated Explorer, and the browsers and *)
(* the Explorer it races with.                                             *)
(***************************************************************************)
EXTENDS Naturals, Sequences

CONSTANTS
    Retries,   \* 9: launches after the first that failed
    Waits      \* 30: looks for the debugging port

VARIABLES
    enabled,    \* start_browser
    explorer,   \* the desktop Explorer: "absent", "own", "elevated", "foreign"
    profile,    \* whether Chrome and the profile path are usable
    chromes,    \* the browsers the worker started, each with its token
    listening,  \* whether something answers on the debugging port
    pc,         \* the worker: "off", "check", "launch", "again", "sleep", "wait", "done"
    launched,   \* the outcome of the last launch
    tries       \* retries, then looks, so far

vars == <<enabled, explorer, profile, chromes, listening, pc, launched, tries>>

Explorers == {"absent", "own", "elevated", "foreign"}

Init ==
    /\ enabled \in BOOLEAN /\ profile \in BOOLEAN /\ listening \in BOOLEAN
    /\ explorer \in Explorers
    /\ chromes = <<>> /\ launched = FALSE /\ tries = 0
    /\ pc = "off"

World == <<enabled, explorer, profile, listening>>

start ==
    /\ pc = "off" /\ enabled
    /\ pc' = "check"
    /\ UNCHANGED <<World, chromes, launched, tries>>

(* A browser that is there already is left alone. *)
Check ==
    /\ pc = "check"
    /\ pc' = (IF listening THEN "done" ELSE "launch")
    /\ UNCHANGED <<World, chromes, launched, tries>>

(* ensure_unelevated: the Explorer that owns the desktop window, its token *)
(* not elevated and of the account the host runs under.                    *)
ensure_unelevated == explorer = "own"

(* launch: profile and Chrome first, then the shell; a COM call may fail   *)
(* at any point, and before ShellExecute only.                             *)
launch ==
    /\ pc = "launch"
    /\ \/ /\ profile /\ ensure_unelevated
          /\ chromes' = Append(chromes, explorer)
          /\ launched' = TRUE
       \/ UNCHANGED chromes /\ launched' = FALSE
    /\ pc' = "again"
    /\ UNCHANGED <<World, tries>>

(* (mutant) the loop runs its course *)
Repeated == tries = Retries

(* The retry loop: errors only. *)
GivesUpRetrying == launched \/ listening \/ tries = Retries

Again ==
    /\ pc = "again"
    /\ IF GivesUpRetrying
         THEN /\ pc' = (IF launched THEN "wait" ELSE "done")
              /\ tries' = 0
         ELSE pc' = "sleep" /\ tries' = tries + 1
    /\ UNCHANGED <<World, chromes, launched>>

(* After the sleep the launch is tried without another look at the port. *)
SleepOver ==
    /\ pc = "sleep"
    /\ pc' = "launch"
    /\ UNCHANGED <<World, chromes, launched, tries>>

Wait ==
    /\ pc = "wait"
    /\ IF listening \/ tries = Waits THEN pc' = "done" /\ tries' = 0
       ELSE tries' = tries + 1 /\ UNCHANGED pc
    /\ UNCHANGED <<World, chromes, launched>>

(* Explorer appears, dies or comes back otherwise; a browser opens or      *)
(* closes the port.                                                        *)
ExplorerChanges(e) == explorer' = e /\ UNCHANGED <<enabled, profile, listening, chromes, pc, launched, tries>>

PortChanges == listening' = ~listening /\ UNCHANGED <<enabled, profile, explorer, chromes, pc, launched, tries>>

WorkerThread == start \/ Check \/ launch \/ Again \/ SleepOver \/ Wait

Next ==
    \/ WorkerThread
    \/ \E e \in Explorers \ {explorer} : ExplorerChanges(e)
    \/ PortChanges

Spec == Init /\ [][Next]_vars

----------------------------------------------------------------------------
(* However Explorer and the port change during the retries, the worker     *)
(* starts Chrome at most once, and only with the user's own unelevated     *)
(* token.                                                                  *)
OneBrowserOfTheUser == Len(chromes) <= 1 /\ \A i \in DOMAIN chromes : chromes[i] = "own"
=============================================================================
