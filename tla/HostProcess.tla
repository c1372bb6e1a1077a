----------------------------- MODULE HostProcess -----------------------------
(***************************************************************************)
(* Host processes on one Windows desktop: the named mutex that lets one of *)
(* them run, Save & Restart, which starts the next before the last is      *)
(* gone, the settings file, and the two logon entries that start a host    *)
(* (a scheduled task, and the Run value as its fallback).                  *)
(*                                                                         *)
(* Time is counted in the 100 ms that try_acquire_with_retry sleeps: the   *)
(* calls between two sleeps take no time, a process that stops takes at    *)
(* most StopTicks.  Of the configuration run_on_startup is kept: the other *)
(* fields go from the form to the file and, at the next start, back.       *)
(* The specification is named for the processes (ProcessInit, ...), since  *)
(* MCHost takes this module beside HostSession.                            *)
(***************************************************************************)
EXTENDS Naturals, FiniteSets

CONSTANTS
    MaxProcs,   \* processes alive at once: a bound
    Exes,       \* places the executable has been installed at
    Users,      \* how a user starts it: [exe, admin] records
    Attempts,   \* 5 in the code
    StopTicks   \* how long a stopping process keeps the mutex

VARIABLES
    proc,       \* every process
    handles,    \* processes with an open handle of the named mutex
    event,      \* the show-settings event: "absent", "clear" or "set"
    file,       \* config.toml: {} when missing or not parsable
    task,       \* what the logon task starts
    run,        \* what the Run value starts
    slipped,    \* a task query or the removal of the Run value failed
    wanted      \* a restart was asked for and no host has come up since

processVars == <<proc, handles, event, file, task, run, slipped, wanted>>

NoEntry == "none"
Procs == 1..MaxProcs
Default == FALSE    \* run_on_startup
Gone == [at |-> "gone", left |-> 0, exe |-> NoEntry, admin |-> FALSE]
Launched(how) == [at |-> "locking", left |-> Attempts, exe |-> how.exe, admin |-> how.admin]
Stopping == [at |-> "stopping", left |-> StopTicks, exe |-> NoEntry, admin |-> FALSE]
\* The number the next process gets: processes differ in nothing else.
Free == {p \in Procs : /\ proc[p].at = "gone"
                       /\ \A q \in 1..(p - 1) : proc[q].at # "gone"}

load_from(f) == IF f = {} THEN Default ELSE CHOOSE c \in f : TRUE

-----------------------------------------------------------------------------
(* autostart.rs.  What each call may leave: the entries, whether it        *)
(* answered Ok, and whether a part of it failed without being reported.    *)

Left(t, r, ok, slip) == [task |-> t, run |-> r, ok |-> ok, slip |-> slip]

\* task_command() answers None for a task that is there when schtasks fails.
task_command == {task, NoEntry}
Unseen(seen) == seen # task

\* schtasks refuses to write or to remove a task without the full token.
create_logon_task(p) == IF proc[p].admin THEN BOOLEAN ELSE {FALSE}
delete_logon_task(p, seen) == IF seen # NoEntry /\ proc[p].admin THEN {NoEntry, task} ELSE {task}

set_run_value(p) == {<<proc[p].exe, TRUE>>, <<run, FALSE>>}
delete_run_value == {NoEntry, run}
run_value == run

stored_command(seen) == IF seen # NoEntry THEN seen ELSE run_value

Registered(p) == {Left(proc[p].exe, r, TRUE, r # NoEntry) : r \in delete_run_value}

\* (mutant) the Run value is written although a task is registered
RunValueAnyway(p, seen) == {Left(task, s[1], s[2], Unseen(seen)) : s \in set_run_value(p)}

\* A task that could not be rewritten stays the only entry.
Fallback(p, seen) ==
    IF seen # NoEntry
    THEN {Left(task, run, FALSE, FALSE)}
    ELSE {Left(task, s[1], s[2], Unseen(seen)) : s \in set_run_value(p)}

enable(p) ==
    UNION {IF made THEN Registered(p)
           ELSE UNION {Fallback(p, seen) : seen \in task_command} :
              made \in create_logon_task(p)}

disable(p) ==
    UNION {{Left(t, r, (seen = NoEntry \/ t = NoEntry) /\ r = NoEntry, Unseen(seen)) :
               t \in delete_logon_task(p, seen), r \in delete_run_value} :
              seen \in task_command}

needs_refresh(want, stored, expected) == want /\ stored # expected

\* Startup only adds or corrects an entry.
reconcile_autostart(p, want) ==
    UNION {IF needs_refresh(want, stored_command(seen), proc[p].exe)
           THEN enable(p)
           ELSE {Left(task, run, TRUE, FALSE)} : seen \in task_command}

AutostartLeaves(l) ==
    /\ task' = l.task /\ run' = l.run
    /\ slipped' = (slipped \/ l.slip)

-----------------------------------------------------------------------------
ProcessInit ==
    /\ proc = [p \in Procs |-> Gone]
    /\ handles = {} /\ event = "absent"
    /\ file \in {{}, {FALSE}, {TRUE}}
    /\ task \in {NoEntry} \cup Exes /\ run \in {NoEntry} \cup Exes
    /\ task = NoEntry \/ run = NoEntry         \* as an earlier install left them
    /\ slipped = FALSE /\ wanted = FALSE

entries == <<task, run, slipped>>

UserStarts(p, how) ==
    /\ p \in Free
    /\ proc' = [proc EXCEPT ![p] = Launched(how)]
    /\ UNCHANGED <<handles, event, file, entries, wanted>>

\* Power loss, or the user logs out, and the next logon: Windows starts a
\* task with the full token, a Run entry without it.
Boot ==
    /\ proc' = [p \in Procs |->
                   IF p = 1 /\ task # NoEntry THEN Launched([exe |-> task, admin |-> TRUE])
                   ELSE IF p = 2 /\ run # NoEntry THEN Launched([exe |-> run, admin |-> FALSE])
                   ELSE Gone]
    /\ handles' = {} /\ event' = "absent" /\ wanted' = FALSE
    /\ UNCHANGED <<file, entries>>

(* single_instance.rs *)

\* (mutant) a failed CreateMutexW does not keep the process from starting
Unlocked(p) ==
    /\ proc' = [proc EXCEPT ![p].at = "starting"]
    /\ UNCHANGED <<handles, wanted>>

\* CreateMutexW failed: main refuses to start.
LockFailed(p) ==
    /\ proc' = [proc EXCEPT ![p] = Gone]
    /\ wanted' = FALSE
    /\ UNCHANGED handles

\* The mutex exists as long as anyone has a handle of it, a process that only
\* found out that it exists included.
acquire(p) ==
    /\ proc[p].at = "locking"
    /\ \/ /\ proc' = [proc EXCEPT ![p].at = IF handles = {} THEN "starting"
                                                            ELSE "probing"]
          /\ handles' = handles \cup {p}
          /\ UNCHANGED wanted
       \/ LockFailed(p)
    /\ UNCHANGED <<event, file, entries>>

\* (mutant) one attempt only
NoAttemptLeft(p) == TRUE

LastAttempt(p) == proc[p].left = 1

\* AlreadyRunning: the handle is closed, and after the last attempt the host
\* that runs is asked to show its settings.
AlreadyRunning(p) ==
    /\ proc[p].at = "probing"
    /\ handles' = handles \ {p}
    /\ proc' = [proc EXCEPT ![p] =
                   IF LastAttempt(p) THEN Gone
                   ELSE [proc[p] EXCEPT !.at = "asleep", !.left = @ - 1]]
    /\ event' = IF LastAttempt(p) /\ event # "absent" THEN "set" ELSE event
    /\ UNCHANGED <<file, entries, wanted>>

Tick ==
    /\ \A p \in Procs : /\ proc[p].at \notin {"locking", "probing"}
                        /\ proc[p].at = "stopping" => proc[p].left > 0
    /\ \E p \in Procs : proc[p].at \in {"asleep", "stopping"}
    /\ proc' = [p \in Procs |->
                   IF proc[p].at = "asleep" THEN [proc[p] EXCEPT !.at = "locking"]
                   ELSE IF proc[p].at = "stopping"
                        THEN [proc[p] EXCEPT !.left = @ - 1]
                   ELSE proc[p]]
    /\ UNCHANGED <<handles, event, file, entries, wanted>>

\* The guard is dropped with main's locals; the last handle of the event goes
\* with the process.
ProcessExit(p) ==
    /\ proc[p].at = "stopping"
    /\ proc' = [proc EXCEPT ![p] = Gone]
    /\ handles' = handles \ {p}
    /\ event' = "absent"
    /\ UNCHANGED <<file, entries, wanted>>

-----------------------------------------------------------------------------
(* main.rs *)

Ready(p) == [proc[p] EXCEPT !.at = "running", !.left = 0]

\* main after the lock, then run_windows up to the event loop: a window that
\* cannot be built ends the process.
main(p) ==
    /\ proc[p].at = "starting"
    /\ \E l \in reconcile_autostart(p, load_from(file)) :
          AutostartLeaves(l)
    /\ \/ /\ proc' = [proc EXCEPT ![p] = Ready(p)]
          /\ event' \in {event, IF event = "absent" THEN "clear" ELSE event}
       \/ proc' = [proc EXCEPT ![p] = Stopping] /\ UNCHANGED event
    /\ wanted' = FALSE
    /\ UNCHANGED <<handles, file>>

\* The waiting thread raises the flag and the notice, OnNotice takes it and
\* shows the window; the tray shows it at any time.
ShowRequested(p) ==
    /\ proc[p].at = "running" /\ event = "set"
    /\ event' = "clear"
    /\ UNCHANGED <<proc, handles, file, entries, wanted>>

\* fs::write empties the file before it fills it.
SaveFails == file' \in {file, {}} /\ UNCHANGED <<proc, handles, event, entries, wanted>>

SyncAutostart(p, want) == IF want THEN enable(p) ELSE disable(p)

\* A form that does not validate changes nothing and is left out; an autostart
\* call that fails is reported and changes nothing more.
handle_save(p, want) ==
    /\ proc[p].at = "running"
    /\ \/ SaveFails
       \/ /\ file' = {want}
          /\ \E l \in SyncAutostart(p, want) : AutostartLeaves(l)
          /\ UNCHANGED <<proc, handles, event, wanted>>

\* The next process is started before this one stops.
Respawn(p) == \E q \in Free :
    /\ proc' = [proc EXCEPT ![p] = Stopping, ![q] = Launched(proc[p])]
    /\ wanted' = TRUE

\* What stops half way (the file, the autostart call, the spawn) has done what
\* handle_save does and leaves this process running.
handle_restart(p, want) ==
    /\ proc[p].at = "running"
    /\ file' = {want}
    /\ \E l \in SyncAutostart(p, want) : AutostartLeaves(l) /\ l.ok
    /\ Respawn(p)
    /\ UNCHANGED <<handles, event>>

TrayRestart(p) ==
    /\ proc[p].at = "running"
    /\ Respawn(p)
    /\ UNCHANGED <<handles, event, file, entries>>

Quit(p) ==
    /\ proc[p].at = "running"
    /\ proc' = [proc EXCEPT ![p] = Stopping]
    /\ UNCHANGED <<handles, event, file, entries, wanted>>

Own(p) == acquire(p) \/ AlreadyRunning(p) \/ main(p) \/ ProcessExit(p) \/ ShowRequested(p)

ProcessNext ==
    \/ Boot
    \/ Tick
    \/ \E p \in Procs :
          \/ Own(p)
          \/ TrayRestart(p)
          \/ Quit(p)
          \/ \E how \in Users : UserStarts(p, how)
          \/ \E want \in BOOLEAN : handle_save(p, want) \/ handle_restart(p, want)

ProcessSpec == ProcessInit /\ [][ProcessNext]_processVars

\* A process that runs takes its next step, and a sleep ends.
ProcessFairSpec == ProcessSpec /\ WF_processVars(Tick) /\ \A p \in Procs : WF_processVars(Own(p))

-----------------------------------------------------------------------------
\* At most one process is past the lock, however the probes of several
\* newcomers and the exit of the last host interleave (single_instance.rs).
OnePastTheLock ==
    Cardinality({p \in Procs : proc[p].at \in {"starting", "running", "stopping"}}) <= 1

\* "Only one of the two may be armed, or the host starts twice at logon"
\* (autostart.rs): so it is, unless the Run value could not be removed or a
\* task that is there was not seen.
OneLogonEntry == (task # NoEntry /\ run # NoEntry) => slipped

\* One host runs, and one is started at the next logon.
OneHost == OnePastTheLock /\ OneLogonEntry

\* A restart ends with a host running, although the new process is started
\* while the old one has the mutex and anyone may start a third.
RestartLeavesAHost == wanted ~> ~wanted
==============================================================================
