----------------------------- MODULE KeyboardTap -----------------------------
(***************************************************************************)
(* The keyboard hijack of the client: a CGEventTap on macOS, a low-level   *)
(* hook on Windows.  The tap thread runs one callback at a time; the UI    *)
(* thread switches the tap between off, passive and active and releases    *)
(* what the host still holds; a dispatcher thread delays posted combos.    *)
(*                                                                         *)
(* The callback loads the mode first and acts on it later, so a release    *)
(* by the UI thread may fall in between.  What was read is kept in cb.     *)
(***************************************************************************)
EXTENDS Naturals, Sequences, FiniteSets

CONSTANTS
    Platforms,      \* which of "mac" and "win" are explored
    Mods,           \* modifier keys of the keyboard
    Chords,         \* sets of modifiers held while another key is pressed
    MaxTapEvents    \* bound: tap events waiting for the UI thread

VARIABLES
    platform,
    mode,       \* enabled and passive: "off", "passive" or "active"
    swap,       \* swap_om_cmd, the Karabiner setting
    prev,       \* prev_flags (macOS): modifiers the tap last reported
    held,       \* HookState.held (Windows): scancodes the hook sent down
    hotkeyDown, \* desktop_return_down (macOS), hotkey_down (Windows)
    cb,         \* the callback that is running, or Idle
    tapEvents,  \* TapEvents on their way to the UI thread
    synthq,     \* combos waiting in the dispatcher
    ui,         \* where the UI thread is in a frame
    uiUps,      \* key-ups the UI thread took and has not sent
    tapHeld     \* keys the tap's own packets leave down at the host

vars == <<platform, mode, swap, prev, held, hotkeyDown, cb,
          tapEvents, synthq, ui, uiUps, tapHeld>>

\* Keys that come as key-down and key-up: modifiers only do on Windows,
\* where they are ordinary keys; "V" stands for what dictation tools post.
Keys == {"Return", "Esc"} \cup IF platform = "win" THEN {"Ctrl"} ELSE {}

Idle == [at |-> "idle"]

-----------------------------------------------------------------------------
(* Modifiers and scancodes. *)

swap_cmd_alt_bits(f) ==
    {CASE m = "Cmd" -> "Alt" [] m = "Alt" -> "Cmd" [] OTHER -> m : m \in f}

\* Cmd and Ctrl collapse to the one Ctrl of Windows.
FlagScancodes(f) ==
    {CASE m \in {"Cmd", "Ctrl"} -> "LCtrl"
       [] m = "Alt" -> "LAlt"
       [] OTHER -> "LShift" : m \in f}

Scancodes(f, swapped) ==
    FlagScancodes(IF swapped THEN swap_cmd_alt_bits(f) ELSE f)

cg_flag_change_to_scancodes(f, before, swapped) ==
    [ups   |-> Scancodes(before, swapped) \ Scancodes(f, swapped),
     downs |-> Scancodes(f, swapped) \ Scancodes(before, swapped)]

matches_cmd_only(f, swapped) ==
    f = {"Cmd"} \/ (swapped /\ f = {"Alt"})

is_cmd_enter(e, swapped) ==
    e.key = "Return" /\ matches_cmd_only(e.flags, swapped)

is_desktop_enter(e, swapped) ==
    /\ e.key = "Return"
    /\ "Ctrl" \in e.flags
    /\ matches_cmd_only(e.flags \ {"Ctrl"}, swapped)

is_release_capture(e, swapped) ==
    e.key = "Esc" /\ matches_cmd_only(e.flags, swapped)

is_win_toggle_fullscreen(e) == e.key = "Return" /\ "Ctrl" \in e.flags
is_win_toggle_capture(e) == e.key = "Esc" /\ "Ctrl" \in e.flags

-----------------------------------------------------------------------------
(* What the packets leave down at the host: they are applied in the order  *)
(* the threads put them in outgoing_tx.                                    *)

Applied(down, packets) == (down \ packets.ups) \cup packets.downs

NoPackets == [ups |-> {}, downs |-> {}]

-----------------------------------------------------------------------------
(* The tap thread. *)

\* A key event of the OS reaches the callback, which loads the mode and the
\* swap setting.  Posted events (CGEventPost) are never swapped.
CallbackBegins(e) ==
    /\ cb.at = "idle"
    /\ Len(tapEvents) < MaxTapEvents
    /\ cb' = [at |-> "read", ev |-> e, mode |-> mode,
              swap |-> swap /\ ~e.posted, packets |-> NoPackets,
              late |-> FALSE]
    /\ UNCHANGED <<platform, mode, swap, prev, held, hotkeyDown, tapEvents,
                   synthq, ui, uiUps, tapHeld>>

Event(kind, k, f, posted) ==
    [kind |-> kind, key |-> k, flags |-> f, posted |-> posted]

\* A press, its autorepeat, or a release, with any modifiers down: the OS may
\* have switched the tap off for a while (timeout, secure input), so an event
\* need not follow from the ones the tap saw.
KeyEvent(kind, k, f) == CallbackBegins(Event(kind, k, f, FALSE))

\* FlagsChanged carries the modifiers that are down now.
FlagsEvent(f) == platform = "mac" /\ CallbackBegins(Event("flags", "none", f, FALSE))

\* A dictation tool posts Cmd+V: the flags come with the key, no FlagsChanged.
PostPaste(kind) ==
    /\ platform = "mac" /\ synthq = <<>>
    /\ CallbackBegins(Event(kind, "V", {"Cmd"}, TRUE))

-----------------------------------------------------------------------------
(* The macOS callback, by outcome. *)

Ev == cb.ev
Active == cb.mode = "active"
Watching == cb.mode \in {"active", "passive"}
Tell(event) == tapEvents' = Append(tapEvents, event)
CallbackEnds == cb' = Idle

\* The second half of the desktop shortcut, or its autorepeat.
DesktopReturnHeld ==
    Ev.key = "Return" /\ Ev.kind \in {"down", "up"} /\ "Return" \in hotkeyDown

DesktopEnter ==
    /\ ~DesktopReturnHeld
    /\ Watching /\ Ev.kind \in {"down", "up"} /\ is_desktop_enter(Ev, cb.swap)

\* The capture hotkey releases in active mode and engages in passive mode.
Hotkey ==
    CASE Ev.kind = "down" /\ Watching /\ is_cmd_enter(Ev, cb.swap) -> "ToggleFullscreen"
      [] Ev.kind = "down" /\ Watching /\ is_release_capture(Ev, cb.swap) ->
            IF Active THEN "ReleaseCapture" ELSE "EngageCapture"
      [] OTHER -> "none"

MacPlain == ~DesktopReturnHeld /\ ~DesktopEnter

MacDesktopReturn ==
    /\ DesktopReturnHeld
    /\ hotkeyDown' = IF Ev.kind = "up" THEN {} ELSE hotkeyDown
    /\ CallbackEnds
    /\ UNCHANGED <<prev, tapEvents, synthq>>

MacDesktopEnter ==
    /\ DesktopEnter
    /\ IF Ev.kind = "down"
       THEN hotkeyDown' = {"Return"} /\ Tell("ToggleDesktopFullscreen")
       ELSE UNCHANGED <<hotkeyDown, tapEvents>>
    /\ CallbackEnds
    /\ UNCHANGED <<prev, synthq>>

MacHotkey ==
    /\ MacPlain /\ Hotkey # "none"
    /\ Tell(Hotkey)
    /\ CallbackEnds
    /\ UNCHANGED <<prev, hotkeyDown, synthq>>

MacKept ==
    /\ MacPlain /\ Hotkey = "none" /\ ~Active
    /\ CallbackEnds
    /\ UNCHANGED <<prev, hotkeyDown, tapEvents, synthq>>

\* A posted key takes its modifiers along, through the dispatcher.
Combo ==
    LET scans == Scancodes(Ev.flags, FALSE) \cup {Ev.key}
    IN  IF Ev.kind = "down" THEN [ups |-> {}, downs |-> scans]
                           ELSE [ups |-> scans, downs |-> {}]

MacPosted ==
    /\ MacPlain /\ Hotkey = "none" /\ Active /\ Ev.posted
    /\ synthq' = Append(synthq, Combo)
    /\ CallbackEnds
    /\ UNCHANGED <<prev, hotkeyDown, tapEvents>>

MacForward ==
    /\ MacPlain /\ Hotkey = "none" /\ Active /\ ~Ev.posted
    /\ IF Ev.kind = "flags"
       THEN /\ prev' = Ev.flags
            /\ cb' = [cb EXCEPT !.at = "send",
                      !.packets = cg_flag_change_to_scancodes(
                                      Ev.flags, prev, cb.swap)]
       ELSE /\ cb' = [cb EXCEPT !.at = "send",
                      !.packets = IF Ev.kind = "down"
                                  THEN [ups |-> {}, downs |-> {Ev.key}]
                                  ELSE [ups |-> {Ev.key}, downs |-> {}]]
            /\ UNCHANGED prev
    /\ UNCHANGED <<hotkeyDown, tapEvents, synthq>>

MacCallback ==
    /\ platform = "mac" /\ cb.at = "read"
    /\ \/ MacDesktopReturn \/ MacDesktopEnter \/ MacHotkey
       \/ MacKept \/ MacPosted \/ MacForward
    /\ UNCHANGED <<platform, mode, swap, held, ui, uiUps, tapHeld>>

-----------------------------------------------------------------------------
(* The Windows hook: the release of a hotkey is swallowed before any mode  *)
(* is looked at.                                                           *)

WinHotkeyUp ==
    /\ Ev.kind = "up" /\ Ev.key \in hotkeyDown
    /\ hotkeyDown' = hotkeyDown \ {Ev.key}
    /\ CallbackEnds
    /\ UNCHANGED <<held, tapEvents>>

WinHotkey ==
    CASE Ev.kind = "down" /\ Watching /\ is_win_toggle_fullscreen(Ev) -> "ToggleFullscreen"
      [] Ev.kind = "down" /\ Watching /\ is_win_toggle_capture(Ev) ->
            IF Active THEN "ReleaseCapture" ELSE "EngageCapture"
      [] OTHER -> "none"

WinPlain == ~(Ev.kind = "up" /\ Ev.key \in hotkeyDown)

WinHotkeyPress ==
    /\ WinPlain /\ WinHotkey # "none"
    /\ hotkeyDown' = hotkeyDown \cup {Ev.key}
    /\ Tell(WinHotkey)
    /\ CallbackEnds
    /\ UNCHANGED held

WinPassed ==
    /\ WinPlain /\ WinHotkey = "none" /\ ~Active
    /\ CallbackEnds
    /\ UNCHANGED <<held, hotkeyDown, tapEvents>>

\* The set of held keys is updated under its lock, the packet sent after it.
WinForward ==
    /\ WinPlain /\ WinHotkey = "none" /\ Active
    /\ held' = IF Ev.kind = "down" THEN held \cup {Ev.key} ELSE held \ {Ev.key}
    /\ cb' = [cb EXCEPT !.at = "send",
              !.packets = IF Ev.kind = "down"
                          THEN [ups |-> {}, downs |-> {Ev.key}]
                          ELSE [ups |-> {Ev.key}, downs |-> {}]]
    /\ UNCHANGED <<hotkeyDown, tapEvents>>

WinCallback ==
    /\ platform = "win" /\ cb.at = "read"
    /\ WinHotkeyUp \/ WinHotkeyPress \/ WinPassed \/ WinForward
    /\ UNCHANGED <<platform, mode, swap, prev, synthq, ui, uiUps,
                   tapHeld>>

\* The callback's packets enter the outgoing channel.
CallbackSends ==
    /\ cb.at = "send"
    /\ tapHeld' = Applied(tapHeld, cb.packets)
    /\ CallbackEnds
    /\ UNCHANGED <<platform, mode, swap, prev, held, hotkeyDown,
                   tapEvents, synthq, ui, uiUps>>

\* The dispatcher held the combo while a clipboard transfer was in flight, at
\* most 4 s, and sends it whatever the mode is by then.  What the combos leave
\* down at the host is not followed further.
DispatchCombo ==
    /\ synthq # <<>>
    /\ synthq' = Tail(synthq)
    /\ UNCHANGED <<platform, mode, swap, prev, held, hotkeyDown, cb,
                   tapEvents, ui, uiUps, tapHeld>>

TapThread ==
    \/ \E kind \in {"down", "up"}, k \in Keys, f \in Chords :
          KeyEvent(kind, k, f)
    \/ \E f \in SUBSET Mods : FlagsEvent(f)
    \/ \E kind \in {"down", "up"} : PostPaste(kind)
    \/ MacCallback \/ WinCallback \/ CallbackSends \/ DispatchCombo

-----------------------------------------------------------------------------
(* The UI thread's side: enable, enable_passive and disable.  disable      *)
(* clears the mode, then takes the books, then sends the key-ups.          *)

ModeWanted(want) ==
    IF want = "active" THEN "active"
    ELSE IF want = "passive" /\ mode # "active" THEN "passive"
    ELSE "off"

\* enable_passive on a tap that is not active releases nothing.
Releases(want) == want = "off" \/ (want = "passive" /\ mode = "active")

SyncTap(want) ==
    /\ ui.at = "idle"
    /\ mode' = ModeWanted(want)
    /\ ui' = IF Releases(want) THEN [at |-> "take", want |-> want] ELSE ui
    /\ UNCHANGED <<platform, swap, prev, held, hotkeyDown, cb, tapEvents,
                   synthq, uiUps, tapHeld>>

TakeBooks ==
    /\ ui.at = "take"
    /\ uiUps' = IF platform = "mac" THEN Scancodes(prev, swap) ELSE held
    /\ IF platform = "mac" THEN prev' = {} /\ UNCHANGED held
                           ELSE held' = {} /\ UNCHANGED prev
    /\ ui' = [ui EXCEPT !.at = "ups"]
    /\ cb' = IF cb.at = "idle" THEN cb ELSE [cb EXCEPT !.late = TRUE]
    /\ UNCHANGED <<platform, mode, swap, hotkeyDown, tapEvents,
                   synthq, tapHeld>>

\* Mutant: the books are cleared and the key-ups never sent.
UpsDropped ==
    /\ ui.at = "ups"
    /\ uiUps' = {}
    /\ mode' = ui.want
    /\ ui' = [at |-> "idle", want |-> "off"]
    /\ UNCHANGED <<platform, swap, prev, held, hotkeyDown, cb,
                   tapEvents, synthq, tapHeld>>

SendUps ==
    /\ ui.at = "ups"
    /\ tapHeld' = tapHeld \ uiUps
    /\ uiUps' = {}
    /\ mode' = ui.want
    /\ ui' = [at |-> "idle", want |-> "off"]
    /\ UNCHANGED <<platform, swap, prev, held, hotkeyDown, cb,
                   tapEvents, synthq>>

\* update() drains what the tap told it.
DrainTapEvents ==
    /\ ui.at = "idle" /\ tapEvents # <<>>
    /\ tapEvents' = <<>>
    /\ UNCHANGED <<platform, mode, swap, prev, held, hotkeyDown, cb, synthq,
                   ui, uiUps, tapHeld>>

\* Settings: the swap flag reaches the running tap at once.
FlipSwap ==
    /\ platform = "mac" /\ ui.at = "idle"
    /\ swap' = ~swap
    /\ UNCHANGED <<platform, mode, prev, held, hotkeyDown, cb, tapEvents,
                   synthq, ui, uiUps, tapHeld>>

UiThread ==
    \/ \E want \in {"off", "passive", "active"} : SyncTap(want)
    \/ TakeBooks \/ SendUps \/ DrainTapEvents \/ FlipSwap

Init ==
    /\ platform \in Platforms
    /\ mode = "off" /\ swap \in BOOLEAN
    /\ (platform = "win") => ~swap
    /\ prev = {} /\ held = {} /\ hotkeyDown = {} /\ cb = Idle
    /\ tapEvents = <<>> /\ synthq = <<>>
    /\ ui = [at |-> "idle", want |-> "off"] /\ uiUps = {}
    /\ tapHeld = {}

Next == TapThread \/ UiThread

Spec == Init /\ [][Next]_vars

-----------------------------------------------------------------------------
(* Properties. *)

\* Scancodes the tap's own packets left down at the host and that no later
\* release would lift: in nobody's books and in nobody's hands.
Lost ==
    LET tracked == IF platform = "mac" THEN {"LCtrl", "LAlt", "LShift"}
                                       ELSE Keys
        known == IF platform = "mac" THEN Scancodes(prev, swap) ELSE held
        lifting == uiUps \cup IF cb.at = "send" THEN cb.packets.ups ELSE {}
    IN  (tapHeld \cap tracked) \ (known \cup lifting)

\* keyboard_tap.rs, disable(): "leave no key stuck on the host".  A key the
\* books track (modifiers on macOS, all keys on Windows) can be lost only by
\* a callback that read the mode before the release and sends after it, or by
\* flipping the swap setting, under which the same flags name other keys.
OnlyALateCallbackLosesAKey ==
    [][\/ Lost' \subseteq Lost
       \/ cb.at # "idle" /\ (cb.late \/ cb.swap # swap)
       \/ swap' # swap]_vars
=============================================================================
