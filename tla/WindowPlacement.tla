--------------------------- MODULE WindowPlacement ---------------------------
(***************************************************************************)
(* Where the client's window is, where it goes back to after fullscreen,   *)
(* and what config.toml remembers of it.  Two paths write the file: the    *)
(* geometry tracker, which re-reads it and patches four fields, and the    *)
(* Save buttons, which write the panel's buffer as it is.  Rectangles are  *)
(* names: the spots a user puts the window on, and "screen", a rectangle   *)
(* that covers a display.                                                  *)
(***************************************************************************)
EXTENDS Naturals, FiniteSets

CONSTANTS
    Spots,                  \* rectangles the user gives the window
    Far,                    \* those on a display that may be unplugged
    RESTORE_MAX_ATTEMPTS,   \* 6 in the code
    MaxToggles,             \* bound: fullscreen changes in a behaviour
    MaxEdits                \* bound: moves, edits and restarts

None == "none"
NoRestore == [to |-> None, attempts |-> 0]

VARIABLES
    win,        \* the window's real rectangle; None while the app is down
    full,       \* fullscreen: "no", "borderless" or "native"
    reported,   \* viewport().fullscreen
    sent,       \* fullscreen_cmd_at is set
    pre,        \* pre_fullscreen_geometry
    restore,    \* pending_position_restore
    settling,   \* pending_geometry
    persisted,  \* persisted_geometry
    check,      \* offscreen_check is armed
    plugged,    \* the second display is connected
    disk,       \* config.toml: its state, the options and the geometry
    edit,       \* pending_config
    live,       \* the option as the running threads see it
    astray,     \* fullscreen was toggled before the window was back, or the
                \* way back was given up with the window not placed
    toggles, edits

window == <<win, full, reported, sent, pre, restore, settling, persisted,
            check>>
config == <<disk, edit, live>>
bounds == <<toggles, edits>>
vars == <<window, plugged, config, astray, bounds>>

-----------------------------------------------------------------------------
(* config.rs *)

File(opts, geom) == [is |-> "ok", opts |-> opts, geom |-> geom]
Defaults == File("default", None)

\* A file that does not parse counts as no file.
load_from(file) == IF file.is = "ok" THEN file ELSE Defaults

\* Mutant: the panel's buffer is written, not the file patched.
BufferWritten(file, g) == [edit EXCEPT !.geom = g]

save_window_geometry(file, g) == [load_from(file) EXCEPT !.geom = g]

-----------------------------------------------------------------------------
(* The helpers of a frame, as functions of what the window owns. *)

W == [win |-> win, full |-> full, reported |-> reported, sent |-> sent,
      pre |-> pre, restore |-> restore, settling |-> settling,
      persisted |-> persisted, check |-> check, disk |-> disk,
      astray |-> astray]

Becomes(w) ==
    /\ win' = w.win /\ full' = w.full /\ reported' = w.reported
    /\ sent' = w.sent /\ pre' = w.pre /\ restore' = w.restore
    /\ settling' = w.settling /\ persisted' = w.persisted
    /\ check' = w.check /\ disk' = w.disk /\ astray' = w.astray

Returning(w) == w.restore # NoRestore

\* To the snapshot taken on the way in, else to what the config remembers.
queue_position_restore(w) ==
    LET target == IF w.pre # None THEN w.pre ELSE w.persisted
    IN  [w EXCEPT !.pre = None,
                  !.restore = IF target = None THEN @
                              ELSE [to |-> target, attempts |-> 0]]

\* Entering covers the preferred display, or the one the window is on; with
\* no display at all it falls back to the native fullscreen.  On the way out
\* macOS puts a native window back somewhere; a borderless one stays large.
toggle_fullscreen(w, display, back) ==
    IF w.full = "no"
    THEN [w EXCEPT !.pre = w.win, !.win = "screen", !.sent = TRUE,
                   !.full = IF display THEN "borderless" ELSE "native",
                   !.reported = @ \/ ~display,
                   !.astray = @ \/ Returning(w)]
    ELSE queue_position_restore(
             [w EXCEPT !.full = "no", !.reported = FALSE, !.sent = TRUE,
                       !.win = IF w.full = "native" THEN back ELSE @])

decide_fullscreen_sync(w) ==
    w.reported # (w.full # "no") /\ w.full # "borderless"

\* A command of ours may still be on its way; a lasting mismatch is followed.
sync_fullscreen_state(w, timedOut) ==
    IF ~decide_fullscreen_sync(w) THEN [w EXCEPT !.sent = FALSE]
    ELSE IF w.sent /\ ~timedOut THEN w
    ELSE IF w.reported
    THEN [w EXCEPT !.sent = FALSE, !.full = "native", !.pre = None]
    ELSE queue_position_restore([w EXCEPT !.sent = FALSE, !.full = "no"])

window_is_offscreen(rect) == rect \in Far /\ ~plugged

move_onto_primary_if_offscreen(w) ==
    IF w.full = "no" /\ window_is_offscreen(w.win)
    THEN [w EXCEPT !.win = CHOOSE s \in Spots : s \notin Far] ELSE w

\* A command sent during the Spaces transition is dropped (obeys is FALSE);
\* after the last attempt the window is placed through AppKit, or at least
\* put on a display.
drain_pending_position_restore(w, obeys) ==
    LET there == [w EXCEPT !.win = w.restore.to]
    IN  IF ~Returning(w) THEN w
        ELSE IF w.restore.attempts > 0 /\ w.win = w.restore.to
        THEN [w EXCEPT !.restore = NoRestore]
        ELSE IF w.restore.attempts >= RESTORE_MAX_ATTEMPTS
        THEN [(IF obeys THEN there ELSE move_onto_primary_if_offscreen(w))
                 EXCEPT !.restore = NoRestore, !.astray = @ \/ ~obeys]
        ELSE [(IF obeys THEN there ELSE w) EXCEPT !.restore.attempts = @ + 1]

\* Once, a moment after launch.
rescue_offscreen_window(w) ==
    IF w.check = "armed"
    THEN [move_onto_primary_if_offscreen(w) EXCEPT !.check = "done"] ELSE w

geometry_changed(a, b) == a = None \/ a # b

\* A failed write is logged and leaves the books alone.
write_window_geometry(w, g, ok) ==
    IF ok THEN [w EXCEPT !.disk = save_window_geometry(@, g), !.persisted = g]
          ELSE w

\* Mutant: the tracker samples while the window is on its way back.
TrackedWhileReturning(w, settled, ok) ==
    IF w.full # "no" THEN w
    ELSE IF ~geometry_changed(w.persisted, w.win)
    THEN [w EXCEPT !.settling = None]
    ELSE IF w.settling # w.win THEN [w EXCEPT !.settling = w.win]
    ELSE IF settled
    THEN write_window_geometry([w EXCEPT !.settling = None], w.win, ok)
    ELSE w

\* One frame's sample; settled says the window has been still long enough.
track_window_geometry(w, settled, ok) ==
    IF w.full # "no" \/ Returning(w) THEN w
    ELSE IF ~geometry_changed(w.persisted, w.win)
    THEN [w EXCEPT !.settling = None]
    ELSE IF w.settling # w.win THEN [w EXCEPT !.settling = w.win]
    ELSE IF settled
    THEN write_window_geometry([w EXCEPT !.settling = None], w.win, ok)
    ELSE w

\* A frame of update(): the helpers in its order, each with the outcome the
\* system gives it: whether the delay it waits out is over (due, settled,
\* timedOut), the window obeys, the write succeeds.
AfterFrame(f) ==
    LET synced == sync_fullscreen_state(W, f.timedOut)
        drained == IF f.due THEN drain_pending_position_restore(synced, f.obeys)
                            ELSE synced
        rescued == IF f.settled THEN rescue_offscreen_window(drained)
                                ELSE drained
    IN  track_window_geometry(rescued, f.settled, f.ok)

\* The outcomes that make a difference to this frame.
Outcomes ==
    {f \in [due : BOOLEAN, obeys : BOOLEAN, settled : BOOLEAN,
            timedOut : BOOLEAN, ok : BOOLEAN] :
        /\ f.due => restore # NoRestore
        /\ f.due \/ f.obeys
        /\ sent \/ f.timedOut
        /\ (f.settled /\ settling # None) \/ f.ok}

Frame(f) ==
    /\ win # None
    /\ \E w \in {AfterFrame(f)} : Becomes(w)
    /\ UNCHANGED <<plugged, edit, live, bounds>>

\* A frame that ends with the fullscreen hotkey.
ToggleFullscreen(f, display, back) ==
    /\ win # None /\ toggles < MaxToggles
    /\ toggles' = toggles + 1
    /\ \E w \in {toggle_fullscreen(AfterFrame(f), display, back)} : Becomes(w)
    /\ UNCHANGED <<plugged, edit, live, edits>>

\* The green button or Ctrl+Cmd+F; a borderless window has neither.
FullscreenOutside ==
    /\ win # None /\ toggles < MaxToggles /\ full # "borderless"
    /\ toggles' = toggles + 1
    /\ reported' = ~reported
    /\ win' \in IF reported' THEN {"screen"} ELSE Spots
    /\ astray' = (astray \/ restore # NoRestore \/ sent)
    /\ UNCHANGED <<full, sent, pre, restore, settling, persisted, check,
                   plugged, config, edits>>

-----------------------------------------------------------------------------
(* The settings panel. *)

\* Options that apply at once are stored to the running threads too.
EditOption(o) ==
    /\ win # None /\ edits < MaxEdits /\ edits' = edits + 1
    /\ edit' = [edit EXCEPT !.opts = o] /\ live' = o
    /\ UNCHANGED <<window, plugged, disk, astray, toggles>>

\* The connection and the display take effect at the next launch only.
EditDeferred(o) ==
    /\ win # None /\ edits < MaxEdits /\ edits' = edits + 1
    /\ edit' = [edit EXCEPT !.opts = o]
    /\ UNCHANGED <<window, plugged, disk, live, astray, toggles>>

ResetToDefaults ==
    /\ win # None /\ edit' = Defaults
    /\ UNCHANGED <<window, plugged, disk, live, astray, bounds>>

Save ==
    /\ win # None /\ disk' = edit
    /\ UNCHANGED <<window, plugged, edit, live, astray, bounds>>

-----------------------------------------------------------------------------
(* Launch and exit. *)

Stopped ==
    /\ win' = None /\ full' = "no" /\ reported' = FALSE /\ sent' = FALSE
    /\ pre' = None /\ restore' = NoRestore /\ settling' = None
    /\ persisted' = None /\ check' = "done" /\ astray' = FALSE

\* on_exit commits the geometry that still waits for its settle time.
flush_window_geometry(ok) ==
    disk' = IF settling # None /\ geometry_changed(persisted, settling) /\ ok
            THEN save_window_geometry(disk, settling) ELSE disk

Quit(ok) ==
    /\ win # None /\ edits < MaxEdits /\ edits' = edits + 1
    /\ flush_window_geometry(ok)
    /\ Stopped
    /\ UNCHANGED <<plugged, edit, live, toggles>>

\* restart_app ends the process on the spot: no on_exit.
SaveAndRestart ==
    /\ win # None /\ edits < MaxEdits /\ edits' = edits + 1
    /\ disk' = edit
    /\ Stopped
    /\ UNCHANGED <<plugged, edit, live, toggles>>

Launch ==
    /\ win = None
    /\ LET cfg == load_from(disk)
       IN  /\ edit' = cfg /\ live' = cfg.opts
           /\ persisted' = cfg.geom
           /\ win' \in IF persisted' = None THEN Spots \ Far ELSE {persisted'}
    /\ check' = "armed"
    /\ UNCHANGED <<full, reported, sent, pre, restore, settling, plugged,
                   disk, astray, bounds>>

-----------------------------------------------------------------------------
(* The user and the desk. *)

UserMoves(s) ==
    /\ win # None /\ full = "no" /\ ~reported
    /\ edits < MaxEdits /\ edits' = edits + 1
    /\ win' = s
    /\ UNCHANGED <<full, reported, sent, pre, restore, settling, persisted,
                   check, plugged, config, astray, toggles>>

\* The file is spoilt by hand, while the app is down or up.
FileSpoilt ==
    /\ edits < MaxEdits /\ edits' = edits + 1
    /\ disk' = [disk EXCEPT !.is = "broken"]
    /\ UNCHANGED <<window, plugged, edit, live, astray, toggles>>

Unplug ==
    /\ plugged /\ win = None
    /\ plugged' = FALSE
    /\ UNCHANGED <<window, config, astray, bounds>>

Options == {"default", "changed"}

Init ==
    /\ win = None /\ full = "no" /\ reported = FALSE /\ sent = FALSE
    /\ pre = None /\ restore = NoRestore /\ settling = None
    /\ persisted = None /\ check = "done" /\ plugged = TRUE
    /\ disk = [Defaults EXCEPT !.is = "missing"]
    /\ edit = Defaults /\ live = "default" /\ astray = FALSE
    /\ toggles = 0 /\ edits = 0

Next ==
    \/ \E f \in Outcomes : Frame(f)
    \/ \E f \in Outcomes, display \in BOOLEAN, back \in Spots :
          ToggleFullscreen(f, display, back)
    \/ FullscreenOutside
    \/ \E o \in Options : EditOption(o) \/ EditDeferred(o)
    \/ ResetToDefaults \/ Save \/ SaveAndRestart \/ Launch \/ Unplug
    \/ \E ok \in BOOLEAN : Quit(ok)
    \/ \E s \in Spots : UserMoves(s)
    \/ FileSpoilt

Spec == Init /\ [][Next]_vars

-----------------------------------------------------------------------------
(* Properties. *)

\* track_window_geometry: persisting the fullscreen rectangle "would restore
\* a screen-sized window on the next cold start".  The rectangle of a display
\* reaches the file only if fullscreen was toggled again while the window was
\* still on its way back (the second snapshot is then one of the screen), or
\* if no attempt moved the window and AppKit could not place it.
ScreenKeptOutOfTheFile ==
    [][disk'.geom = "screen" /\ disk.geom # "screen"
          => astray \/ edit.geom = "screen"]_vars

\* save_window_geometry: the unsaved buffer of the panel is committed by the
\* Save buttons only; a nudge of the window, or quitting, publishes nothing.
OnlySavePublishesEdits ==
    [][load_from(disk').opts # load_from(disk).opts
          => disk' = edit \/ disk'.is = "broken"]_vars
=============================================================================
