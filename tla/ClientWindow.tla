---------------------------- MODULE ClientWindow ----------------------------
(***************************************************************************)
(* The client's window: what it captures and what it shows.  A frame of    *)
(* update() drains the link's events, reconciles the tap with focus and    *)
(* capture, follows fullscreen changes it did not make, drains the tap's   *)
(* events, draws, and forwards the pointer.  The tap's thread (see         *)
(* KeyboardTap) appears by the hotkeys it reports.                         *)
(***************************************************************************)
EXTENDS Naturals, Sequences

CONSTANTS
    Platforms,      \* which of "mac" and "win" are explored
    MaxTapEvents    \* bound: tap events waiting for the window

VARIABLES
    platform,
    mode,           \* the tap: "off", "passive" or "active"
    readMode,       \* the mode before that: a callback may still act on it
    tapEvents,      \* TapEvents on their way to the window
    conn,           \* ConnectionState
    capturing, fullscreen,
    native,         \* fullscreen_is_native
    unconfirmed,    \* fullscreen_cmd_at is set
    reported,       \* viewport().fullscreen: what winit says
    focused,
    granted,        \* the OS grants Accessibility
    running,        \* the tap thread runs (TapHandle.inner)
    deskFull,       \* desktop_fullscreen
    deskPending,    \* desktop_capture_pending
    view,           \* DesktopView: enabled, texture, the fetch in flight
    chrome          \* the last frame drew the chrome

vars == <<platform, mode, readMode, tapEvents, conn, capturing, fullscreen,
          native, unconfirmed, reported, focused, granted, running, deskFull,
          deskPending, view, chrome>>

\* The window's fields that one frame passes from helper to helper.
W == [capturing |-> capturing, fullscreen |-> fullscreen, native |-> native,
      unconfirmed |-> unconfirmed, deskFull |-> deskFull,
      deskPending |-> deskPending, view |-> view, native_cmd |-> reported]

Becomes(w) ==
    /\ capturing' = w.capturing /\ fullscreen' = w.fullscreen
    /\ native' = w.native /\ unconfirmed' = w.unconfirmed
    /\ deskFull' = w.deskFull /\ deskPending' = w.deskPending
    /\ view' = w.view /\ reported' = w.native_cmd

-----------------------------------------------------------------------------
(* Helpers of WireDeskApp, as functions of the window. *)

toggle_capture(w) ==
    [w EXCEPT !.capturing = ~@, !.deskPending = FALSE]

Engage(w) == IF w.capturing THEN w ELSE toggle_capture(w)
Release(w) == IF w.capturing THEN toggle_capture(w) ELSE w

\* Entering covers a display without telling winit, unless no display could
\* be resolved; leaving always tells winit.
toggle_fullscreen(w, display) ==
    IF ~w.fullscreen
    THEN Engage([w EXCEPT !.fullscreen = TRUE, !.unconfirmed = TRUE,
                          !.native = ~display,
                          !.native_cmd = @ \/ ~display])
    ELSE [Release([w EXCEPT !.fullscreen = FALSE, !.unconfirmed = TRUE])
            EXCEPT !.native = FALSE, !.native_cmd = FALSE]

stop_desktop_fullscreen(w) ==
    [w EXCEPT !.deskFull = FALSE, !.deskPending = FALSE,
              !.view.enabled = FALSE]

toggle_desktop_fullscreen(w, display) ==
    IF w.deskFull
    THEN LET off == stop_desktop_fullscreen(w)
         IN  Release(IF off.fullscreen THEN toggle_fullscreen(off, display)
                                       ELSE off)
    ELSE LET on == [w EXCEPT !.view.enabled = TRUE, !.view.texture = FALSE,
                             !.deskFull = TRUE]
             full == IF on.fullscreen THEN on
                                      ELSE toggle_fullscreen(on, display)
         IN  [Release(full) EXCEPT !.deskPending = TRUE]

OnTapEvent(w, event, display) ==
    CASE event = "ReleaseCapture" ->
            [Release(w) EXCEPT !.deskPending = FALSE]
      [] event = "EngageCapture" -> Engage(w)
      [] event = "ToggleFullscreen" -> toggle_fullscreen(w, display)
      [] event = "ToggleDesktopFullscreen" ->
            IF platform = "mac" THEN toggle_desktop_fullscreen(w, display)
                                ELSE w

AfterTapEvents(w, display) ==
    LET after[n \in 0 .. Len(tapEvents)] ==
            IF n = 0 THEN w ELSE OnTapEvent(after[n-1], tapEvents[n], display)
    IN  after[Len(tapEvents)]

\* "adopt": winit and the window disagree and it is not the borderless case.
decide_fullscreen_sync(w) ==
    /\ reported # w.fullscreen
    /\ ~(w.fullscreen /\ ~w.native /\ ~reported)

\* Mutant: a fullscreen left by the green button keeps capture.
SyncKeepsCapture(w, timedOut) ==
    IF ~decide_fullscreen_sync(w) THEN [w EXCEPT !.unconfirmed = FALSE]
    ELSE IF w.unconfirmed /\ ~timedOut THEN w
    ELSE [w EXCEPT !.unconfirmed = FALSE, !.fullscreen = reported,
                   !.native = reported]

\* A command of ours may still be in flight; only a lasting mismatch counts.
sync_fullscreen_state(w, timedOut) ==
    IF ~decide_fullscreen_sync(w) THEN [w EXCEPT !.unconfirmed = FALSE]
    ELSE IF w.unconfirmed /\ ~timedOut THEN w
    ELSE LET followed == [w EXCEPT !.unconfirmed = FALSE,
                                   !.fullscreen = reported,
                                   !.native = reported]
         IN  IF reported THEN followed ELSE Release(followed)

\* DesktopView::draw: the fetch that finished is taken, the next one started.
draw(v, due) ==
    LET taken == CASE v.fetch = "ok"  -> [v EXCEPT !.fetch = "none",
                                                   !.texture = TRUE]
                   [] v.fetch = "err" -> [v EXCEPT !.fetch = "none",
                                                   !.texture = FALSE]
                   [] v.fetch = "gone" -> [v EXCEPT !.fetch = "none"]
                   [] OTHER -> v
    IN  IF taken.enabled /\ taken.fetch = "none" /\ due
        THEN [taken EXCEPT !.fetch = "running"] ELSE taken

\* Mutant: a lost picture does not release capture.
ReconcileEngagesOnly(w) ==
    IF /\ w.view.texture /\ w.deskPending /\ granted'
       /\ conn' = "Connected" /\ w.deskFull /\ w.fullscreen
    THEN [Engage(w) EXCEPT !.deskPending = FALSE]
    ELSE w

reconcile_desktop_capture(w) ==
    IF /\ w.view.texture /\ w.deskPending /\ granted'
       /\ conn' = "Connected" /\ w.deskFull /\ w.fullscreen
    THEN [Engage(w) EXCEPT !.deskPending = FALSE]
    ELSE IF ~w.view.texture /\ w.capturing THEN toggle_capture(w)
    ELSE w

-----------------------------------------------------------------------------
(* A frame. *)

LinkEvents == {"none", "Connected", "Disconnected", "Reconnecting"}

\* Buttons of the chrome, which is drawn only outside capture and fullscreen
\* and takes a click only in a frame after the one that first drew it.
Clicked(w, click, display) ==
    CASE click = "capture" -> toggle_capture(w)
      [] click = "desktop" -> toggle_desktop_fullscreen(w, display)
      [] OTHER -> w

\* The link's event, if one waits, and the permission (looked at every two
\* seconds: a tap deferred at launch starts when it is granted).
OnLinkEvent(w, ev) ==
    IF ev = "Disconnected"
    THEN [w EXCEPT !.capturing = FALSE, !.deskPending = FALSE] ELSE w

sync_tap_to_focus(w) ==
    IF ~focused THEN "off" ELSE IF w.capturing THEN "active" ELSE "passive"

\* Up to the drawing: the link's event, the fullscreen state, the hotkeys.
BeforeDrawing(w, timedOut, display) ==
    LET synced == sync_fullscreen_state(w, timedOut)
    IN  AfterTapEvents(IF synced.deskFull /\ ~synced.fullscreen
                       THEN stop_desktop_fullscreen(synced) ELSE synced,
                       display)

\* update(): one frame of the window.
Frame(ev, perm, timedOut, display, due, click) ==
    /\ conn' = CASE ev = "none" -> conn
                 [] ev = "Reconnecting" -> "Connecting"
                 [] OTHER -> ev
    /\ granted' = perm
    /\ running' = (running \/ perm)
    /\ \E heard \in {OnLinkEvent(W, ev)} :
       /\ mode' = sync_tap_to_focus(heard)
       /\ \E told \in {BeforeDrawing(heard, timedOut, display)} :
          LET desktop == told.view.enabled
              shown == /\ ~told.capturing /\ ~told.fullscreen
                       /\ ~desktop /\ perm
          IN  /\ click # "none" => shown /\ chrome
              /\ click = "desktop" => platform = "mac"
              /\ chrome' = shown
              /\ \E final \in
                    {IF desktop
                     THEN reconcile_desktop_capture(
                              [told EXCEPT !.view = draw(@, due)])
                     ELSE Clicked(told, click, display)} : Becomes(final)
    /\ readMode' = mode
    /\ tapEvents' = <<>>
    /\ UNCHANGED <<platform, focused>>

-----------------------------------------------------------------------------
(* The tap's thread, the fetch worker, the user and the OS. *)

\* A hotkey, by the mode the callback read.
TapTells(event) ==
    /\ running /\ Len(tapEvents) < MaxTapEvents
    /\ \E m \in {mode, readMode} \ {"off"} :
          CASE event = "ReleaseCapture" -> m = "active"
            [] event = "EngageCapture" -> m = "passive"
            [] event = "ToggleFullscreen" -> TRUE
            [] event = "ToggleDesktopFullscreen" -> platform = "mac"
    /\ tapEvents' = Append(tapEvents, event)
    /\ UNCHANGED <<platform, mode, readMode, conn, capturing, fullscreen,
                   native, unconfirmed, reported, focused, granted, running,
                   deskFull, deskPending, view, chrome>>

\* The worker that fetches a picture answers, or dies.
FetchEnds(result) ==
    /\ view.fetch = "running"
    /\ view' = [view EXCEPT !.fetch = result]
    /\ UNCHANGED <<platform, mode, readMode, tapEvents, conn, capturing,
                   fullscreen, native, unconfirmed, reported, focused,
                   granted, running, deskFull, deskPending, chrome>>

FocusMoves ==
    /\ focused' = ~focused
    /\ UNCHANGED <<platform, mode, readMode, tapEvents, conn, capturing,
                   fullscreen, native, unconfirmed, reported, granted,
                   running, deskFull, deskPending, view, chrome>>

\* The green button, or Ctrl+Cmd+F: winit reports it, the app did not ask.
FullscreenOutside ==
    /\ reported' = ~reported
    /\ UNCHANGED <<platform, mode, readMode, tapEvents, conn, capturing,
                   fullscreen, native, unconfirmed, focused, granted,
                   running, deskFull, deskPending, view, chrome>>

TapEvents == {"ReleaseCapture", "EngageCapture", "ToggleFullscreen",
              "ToggleDesktopFullscreen"}

\* What a frame may find, where it makes a difference to the frame.
Either(matters, default) == IF matters THEN BOOLEAN ELSE {default}

Next ==
    \/ \E ev \in LinkEvents \ {conn},
          perm \in Either(platform = "mac", TRUE),
          timedOut \in Either(unconfirmed, TRUE),
          display \in Either(chrome \/ tapEvents # <<>>, TRUE),
          due \in Either(view.enabled \/ tapEvents # <<>>, TRUE),
          click \in IF chrome THEN {"none", "capture", "desktop"}
                              ELSE {"none"} :
          Frame(ev, perm, timedOut, display, due, click)
    \/ \E event \in TapEvents : TapTells(event)
    \/ \E r \in {"ok", "err", "gone"} : FetchEnds(r)
    \/ FocusMoves \/ FullscreenOutside

Init ==
    /\ platform \in Platforms
    /\ mode = "off" /\ readMode = "off" /\ tapEvents = <<>>
    /\ conn = "Disconnected" /\ capturing = FALSE /\ fullscreen = FALSE
    /\ native = FALSE /\ unconfirmed = FALSE /\ reported = FALSE
    /\ focused = TRUE /\ granted \in BOOLEAN
    /\ (platform = "win") => granted
    /\ running = granted
    /\ deskFull = FALSE /\ deskPending = FALSE
    /\ view = [enabled |-> FALSE, texture |-> FALSE, fetch |-> "none"]
    /\ chrome = FALSE

Spec == Init /\ [][Next]_vars

-----------------------------------------------------------------------------
(* Properties. *)

\* toggle_desktop_fullscreen: "Wait for the first visible frame before
\* sending input to Windows".  In desktop mode a frame that ends with input
\* captured has a picture to show for it, whatever hotkeys came in between.
DesktopInputNeedsAPicture ==
    (view.enabled /\ capturing) => view.texture

\* toggle_fullscreen and sync_fullscreen_state: leaving fullscreen "releases
\* capture so the Mac's keyboard works locally".  A fullscreen left by the
\* green button, with no hotkey waiting, never stays captured.
LeavingFullscreenReleases ==
    [][(fullscreen /\ ~fullscreen' /\ capturing /\ tapEvents = <<>>)
          => ~capturing']_vars
=============================================================================
