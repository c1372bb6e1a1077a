------------------------------- MODULE MCDesk -------------------------------
(***************************************************************************)
(* The client's desk, one part at a time: keyboard capture, the window and *)
(* its modes, where the window is put, and the displays it is put on.      *)
(* `part' never changes; the variables of the other parts keep their first *)
(* value.                                                                  *)
(***************************************************************************)
EXTENDS Integers, Sequences, FiniteSets

CONSTANTS
    Platforms, Mods, Chords, MaxTapEvents,                        \* KeyboardTap
    Spots, Far, RESTORE_MAX_ATTEMPTS, MaxToggles, MaxEdits,       \* WindowPlacement
    Places                                                        \* Monitors

(* A rectangle of the user's is neither a display's nor no rectangle, and  *)
(* one display is never unplugged.                                         *)
ASSUME DeskAssumption ==
    /\ {"screen", "none"} \cap Spots = {} /\ Spots \ Far # {}
    /\ RESTORE_MAX_ATTEMPTS \in Nat
    /\ Places \subseteq Int \X Int

VARIABLE part

(* KeyboardTap. *)
VARIABLES platform, mode, swap, prev, held, hotkeyDown, cb, tapEvents, synthq, frame, uiUps,
          tapHeld

(* ClientWindow, with the tap's platform, mode and tapEvents. *)
VARIABLES readMode, conn, capturing, fullscreen, native, unconfirmed, reported, focused,
          granted, running, deskFull, deskPending, view, chrome

(* WindowPlacement, with the window's reported. *)
VARIABLES win, full, sent, pre, restore, settling, persisted, check, plugged, disk, edit,
          live, astray, toggles, edits

(* Monitors. *)
VARIABLES os, desk, saved, picked

MCPlatforms == {"mac", "win"}
MCMods == {"Cmd", "Ctrl"}
MCChords == {{}, {"Cmd"}, {"Ctrl", "Cmd"}}
MCPlaces == {-4, -2, 0, 2, 4} \X {-2, 0, 2}

Tap == INSTANCE KeyboardTap WITH ui <- frame
Window == INSTANCE ClientWindow
Placement == INSTANCE WindowPlacement
Displays == INSTANCE Monitors

capture == <<swap, prev, held, hotkeyDown, cb, synthq, frame, uiUps, tapHeld>>
tap == <<platform, mode, tapEvents>>
windowvars == <<readMode, conn, capturing, fullscreen, native, unconfirmed, focused, granted,
                running, deskFull, deskPending, view, chrome>>
placement == <<win, full, sent, pre, restore, settling, persisted, check, plugged, disk, edit,
               live, astray, toggles, edits>>
displays == <<os, desk, saved, picked>>

deskvars == <<part, capture, tap, windowvars, reported, placement, displays>>

DeskInit ==
    /\ part \in {"tap", "window", "placement", "displays"}
    /\ Tap!Init /\ (part # "tap" => ~swap)
    /\ Window!Init /\ (part # "window" => granted)
    /\ part \notin {"tap", "window"} => platform = "mac"
    /\ Placement!Init
    /\ Displays!Init
    /\ part # "displays" =>
         /\ os = "mac"
         /\ desk = <<Displays!Primary(1), Displays!Second(<<-4, 0>>, 2, 1),
                     Displays!Second(<<4, 0>>, 3, 1)>>

DeskNext ==
    \/ /\ part = "tap" /\ Tap!Next
       /\ UNCHANGED <<part, windowvars, reported, placement, displays>>
    \/ /\ part = "window" /\ Window!Next
       /\ UNCHANGED <<part, capture, placement, displays>>
    \/ /\ part = "placement" /\ Placement!Next
       /\ UNCHANGED <<part, capture, tap, windowvars, displays>>
    \/ /\ part = "displays" /\ Displays!Next
       /\ UNCHANGED <<part, capture, tap, windowvars, reported, placement>>

DeskSpec == DeskInit /\ [][DeskNext]_deskvars

----------------------------------------------------------------------------
(* Desktop input is captured only under a picture, and the display the     *)
(* user picked is the one the window goes to.                              *)
ShownWhereItShould ==
    /\ part = "window" => Window!DesktopInputNeedsAPicture
    /\ part = "displays" => Displays!PickedIsFound

(* No step loses a key but that of a callback that was late, leaving       *)
(* fullscreen releases the capture, the screen's rectangle stays out of    *)
(* the file, and only Save publishes what was edited.                      *)
NoStepLeaksState ==
    /\ Tap!OnlyALateCallbackLosesAKey
    /\ Window!LeavingFullscreenReleases
    /\ Placement!ScreenKeptOutOfTheFile /\ Placement!OnlySavePublishesEdits
=============================================================================
