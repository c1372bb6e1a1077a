---------------------------- MODULE ClientProofs ----------------------------
(***************************************************************************)
(* The client.  Its link: it never has two at work, and the shared cells   *)
(* never outlive the link that set them, for any number of events and      *)
(* requests.  Its desk: no key, capture, rectangle or edit leaks from one  *)
(* step to the next, for any number of displays' places, spots and         *)
(* hotkeys.                                                                *)
(***************************************************************************)
EXTENDS ClientLink, MCDesk, SequenceTheorems, WellFoundedInduction, TLAPS

(***************************************************************************)
(* The desk.                                                               *)
(***************************************************************************)

Less == OpToRel(<, Nat)

(* A set of naturals that is not empty has a least element. *)
LEMMA LeastElement ==
    ASSUME NEW T \in SUBSET Nat, T # {}
    PROVE  \E x \in T : \A y \in T : x <= y
<1>1. IsWellFoundedOn(Less, Nat)
  BY NatLessThanWellFounded, Zenon DEF Less
<1>2. PICK x \in T : \A y \in T : ~(<<y, x>> \in Less)
  BY <1>1, WFMin, Zenon
<1>3. \A x1, y \in Nat : <<x1, y>> \in Less <=> x1 < y
  BY DEF Less, OpToRel
<1>4. \A y \in T : y \in Nat /\ x \in Nat /\ ~(y < x)
  BY <1>2, <1>3
<1> QED
  BY <1>4

LEMMA EveryNatural ==
    ASSUME NEW T \in SUBSET Nat, 0 \in T, \A n \in T : n + 1 \in T
    PROVE  \A n \in Nat : n \in T
<1> SUFFICES ASSUME Nat \ T # {}
             PROVE  FALSE
  OBVIOUS
<1>1. PICK m \in Nat \ T : \A y \in Nat \ T : m <= y
  BY LeastElement
<1>2. m # 0 /\ m - 1 \in Nat
  BY <1>1
<1>3. m - 1 \in T
  BY <1>1, <1>2
<1> QED
  BY <1>1, <1>2, <1>3

----------------------------------------------------------------------------
(* Keyboard capture.  What a callback is about to press is in the books it *)
(* wrote, under the swap it read, unless they were taken in between.       *)
Codes == {"LCtrl", "LAlt", "LShift"}

Others == {"Return", "Esc", "Ctrl", "V", "none"}

Names == Codes \cup Others

Called ==
    [at : {"read", "send"},
     ev : [kind : {"down", "up", "flags"}, key : Others,
           flags : Chords \cup (SUBSET Mods) \cup {{"Cmd"}}, posted : BOOLEAN],
     mode : {"off", "passive", "active"}, swap : BOOLEAN,
     packets : [ups : SUBSET Names, downs : SUBSET Names], late : BOOLEAN]

Callbacks == {Tap!Idle} \cup Called

Booked == IF platform = "mac" THEN Tap!Scancodes(prev, cb.swap) ELSE held

Tracked == IF platform = "mac" THEN Codes ELSE {"Return", "Esc", "Ctrl"}

TapTypes ==
    /\ swap \in BOOLEAN /\ mode \in {"off", "passive", "active"}
    /\ cb \in Callbacks
    /\ frame \in [at : {"idle", "take", "ups"}, want : {"off", "passive", "active"}]
    /\ frame.at = "take" => uiUps = {}
    /\ frame.at = "idle" => uiUps = {}

TapInv ==
    /\ TapTypes
    /\ cb.at = "send" /\ ~cb.late => cb.packets.downs \cap Tracked \subseteq Booked

LEMMA CodesOnly ==
    ASSUME NEW f, NEW s PROVE Tap!Scancodes(f, s) \subseteq Codes
BY DEF Tap!Scancodes, Tap!FlagScancodes, Codes

LEMMA TapStarts == ASSUME Tap!Init PROVE TapInv
BY DEF Tap!Init, TapInv, TapTypes, Callbacks, Tap!Idle

\* The parts of a forwarded event.
LEMMA Forwarded ==
    ASSUME NEW c \in Called, NEW p \in [ups : SUBSET Names, downs : SUBSET Names]
    PROVE  LET next == [c EXCEPT !.at = "send", !.packets = p]
           IN  /\ next \in Called /\ next.at = "send" /\ next.packets = p
               /\ next.late = c.late /\ next.swap = c.swap
BY DEF Called

LEMMA MacForwardKeeps ==
    ASSUME TapInv, platform = "mac", cb.at = "read", Tap!MacForward,
           UNCHANGED <<platform, mode, swap, held, frame, uiUps, tapHeld>>
    PROVE  TapInv' /\ (cb.swap = swap => Tap!Lost' \subseteq Tap!Lost)
<1>1. cb \in Called
  BY DEF TapInv, TapTypes, Callbacks, Tap!Idle
<1>2. CASE cb.ev.kind = "flags"
  <2> DEFINE now == Tap!Scancodes(cb.ev.flags, cb.swap)
             before == Tap!Scancodes(prev, cb.swap)
             p == [ups |-> before \ now, downs |-> now \ before]
  <2>1. prev' = cb.ev.flags /\ cb' = [cb EXCEPT !.at = "send", !.packets = p]
    BY <1>2 DEF Tap!MacForward, Tap!Ev, Tap!cg_flag_change_to_scancodes
  <2>2. now \subseteq Codes /\ before \subseteq Codes /\ Codes \subseteq Names
    BY CodesOnly DEF Names
  <2>3. p \in [ups : SUBSET Names, downs : SUBSET Names]
    BY <2>2
  <2> HIDE DEF p
  <2>4. cb' \in Called /\ cb'.at = "send" /\ cb'.packets = p /\ cb'.late = cb.late /\ cb'.swap = cb.swap
    BY <1>1, <2>1, <2>3, Forwarded
  <2>5. TapTypes'
    BY <2>4 DEF TapInv, TapTypes, Callbacks
  <2>6. Booked' = now
    BY <2>1, <2>4 DEF Booked
  <2>7. TapInv'
    BY <2>4, <2>5, <2>6 DEF TapInv, p
  <2>8. ASSUME cb.swap = swap PROVE Tap!Lost' \subseteq Tap!Lost
    <3>1. Tap!Scancodes(prev, swap)' = now /\ Tap!Scancodes(prev, swap) = before
      BY <2>1, <2>8
    <3> HIDE DEF now, before
    <3> QED
      BY <2>4, <3>1 DEF Tap!Lost, p
  <2> QED
    BY <2>7, <2>8
<1>3. CASE cb.ev.kind # "flags"
  <2> DEFINE p == IF cb.ev.kind = "down" THEN [ups |-> {}, downs |-> {cb.ev.key}]
                                        ELSE [ups |-> {cb.ev.key}, downs |-> {}]
  <2>1. prev' = prev /\ cb' = [cb EXCEPT !.at = "send", !.packets = p]
    BY <1>3 DEF Tap!MacForward, Tap!Ev
  <2>2. cb.ev.key \in Others
    BY <1>1 DEF Callbacks, Called, Tap!Idle
  <2>3. p \in [ups : SUBSET Names, downs : SUBSET Names] /\ p.downs \cap Codes = {}
    BY <2>2 DEF Codes, Others, Names
  <2> HIDE DEF p
  <2>4. cb' \in Called /\ cb'.at = "send" /\ cb'.packets = p /\ cb'.late = cb.late /\ cb'.swap = cb.swap
    BY <1>1, <2>1, <2>3, Forwarded
  <2>5. TapInv'
    BY <2>3, <2>4 DEF TapInv, TapTypes, Callbacks, Tracked
  <2>6. Tap!Lost' \subseteq Tap!Lost
    BY <2>1, <2>4 DEF Tap!Lost
  <2> QED
    BY <2>5, <2>6
<1> QED
  BY <1>2, <1>3

LEMMA WinForwardKeeps ==
    ASSUME TapInv, platform # "mac", cb.at = "read", Tap!WinForward,
           UNCHANGED <<platform, mode, swap, prev, frame, uiUps, tapHeld>>
    PROVE  TapInv' /\ Tap!Lost' \subseteq Tap!Lost
<1> DEFINE k == cb.ev.key
           p == IF cb.ev.kind = "down" THEN [ups |-> {}, downs |-> {k}]
                                      ELSE [ups |-> {k}, downs |-> {}]
<1>1. cb \in Called
  BY DEF TapInv, TapTypes, Callbacks, Tap!Idle
<1>2. k \in Names
  BY <1>1 DEF Callbacks, Called, Tap!Idle, Names, Others
<1>3. p \in [ups : SUBSET Names, downs : SUBSET Names]
  BY <1>2
<1>4. /\ held' = IF cb.ev.kind = "down" THEN held \cup {k} ELSE held \ {k}
      /\ cb' = [cb EXCEPT !.at = "send", !.packets = p]
  BY DEF Tap!WinForward, Tap!Ev
<1>5. p.downs \subseteq held' /\ held \subseteq held' \cup p.ups
  BY <1>4
<1> HIDE DEF p
<1>6. cb' \in Called /\ cb'.at = "send" /\ cb'.packets = p /\ cb'.late = cb.late /\ cb'.swap = cb.swap
  BY <1>1, <1>3, <1>4, Forwarded
<1>7. TapInv'
  BY <1>5, <1>6 DEF TapInv, TapTypes, Callbacks, Booked
<1>8. Tap!Lost' \subseteq Tap!Lost
  BY <1>5, <1>6 DEF Tap!Lost, Tap!Keys
<1> QED
  BY <1>7, <1>8

\* One callback of the macOS tap, one of the Windows hook.
LEMMA MacCallbackKeeps ==
    ASSUME TapInv, Tap!MacCallback
    PROVE  TapInv' /\ (cb.swap = swap => Tap!Lost' \subseteq Tap!Lost)
<1>1. /\ platform = "mac" /\ cb.at = "read"
      /\ UNCHANGED <<platform, mode, swap, held, frame, uiUps, tapHeld>>
  BY DEF Tap!MacCallback
<1>2. CASE Tap!MacForward
  BY <1>1, <1>2, MacForwardKeeps
<1>3. ASSUME cb' = Tap!Idle, prev' = prev PROVE TapInv' /\ Tap!Lost' \subseteq Tap!Lost
  <2>1. cb'.at = "idle" /\ cb' \in Callbacks
    BY <1>3 DEF Tap!Idle, Callbacks
  <2>2. TapInv'
    BY <1>1, <2>1 DEF TapInv, TapTypes
  <2>3. Tap!Lost' \subseteq Tap!Lost
    BY <1>1, <1>3, <2>1 DEF Tap!Lost
  <2> QED
    BY <2>2, <2>3
<1>4. CASE ~Tap!MacForward
  <2>1. cb' = Tap!Idle /\ prev' = prev
    BY <1>4 DEF Tap!MacCallback, Tap!MacDesktopReturn, Tap!MacDesktopEnter, Tap!MacHotkey,
                Tap!MacKept, Tap!MacPosted, Tap!CallbackEnds
  <2> QED
    BY <1>3, <2>1
<1> QED
  BY <1>2, <1>4

LEMMA WinCallbackKeeps ==
    ASSUME TapInv, Tap!WinCallback
    PROVE  TapInv' /\ Tap!Lost' \subseteq Tap!Lost
<1>1. /\ platform = "win" /\ cb.at = "read"
      /\ UNCHANGED <<platform, mode, swap, prev, frame, uiUps, tapHeld>>
  BY DEF Tap!WinCallback
<1>2. CASE Tap!WinForward
  BY <1>1, <1>2, WinForwardKeeps
<1>3. CASE ~Tap!WinForward
  <2>1. cb' = Tap!Idle /\ held' = held
    BY <1>3 DEF Tap!WinCallback, Tap!WinHotkeyUp, Tap!WinHotkeyPress, Tap!WinPassed,
                Tap!CallbackEnds
  <2>2. cb'.at = "idle" /\ cb' \in Callbacks
    BY <2>1 DEF Tap!Idle, Callbacks
  <2>3. TapInv'
    BY <1>1, <2>2 DEF TapInv, TapTypes
  <2>4. Tap!Lost' \subseteq Tap!Lost
    BY <1>1, <2>1, <2>2 DEF Tap!Lost, Tap!Keys
  <2> QED
    BY <2>3, <2>4
<1> QED
  BY <1>2, <1>3

LEMMA SendKeeps ==
    ASSUME TapInv, Tap!CallbackSends
    PROVE  TapInv' /\ (~cb.late /\ cb.swap = swap => Tap!Lost' \subseteq Tap!Lost)
<1>1. /\ cb.at = "send" /\ cb' = Tap!Idle
      /\ tapHeld' = (tapHeld \ cb.packets.ups) \cup cb.packets.downs
      /\ UNCHANGED <<platform, mode, swap, prev, held, frame, uiUps>>
  BY DEF Tap!CallbackSends, Tap!Applied, Tap!CallbackEnds
<1>2. cb'.at = "idle" /\ cb' \in Callbacks
  BY <1>1 DEF Tap!Idle, Callbacks
<1>3. TapInv'
  BY <1>1, <1>2 DEF TapInv, TapTypes
<1>4. ASSUME ~cb.late, cb.swap = swap PROVE Tap!Lost' \subseteq Tap!Lost
  <2>1. cb.packets.downs \cap Tracked \subseteq Booked
    BY <1>1, <1>4 DEF TapInv
  <2>2. CASE platform = "mac"
    <3>1. cb.packets.downs \cap Codes \subseteq Tap!Scancodes(prev, swap)
      BY <1>4, <2>1, <2>2 DEF Tracked, Booked
    <3> QED
      BY <1>1, <1>2, <2>2, <3>1 DEF Tap!Lost, Codes
  <2>3. CASE platform # "mac"
    <3>1. cb.packets.downs \cap {"Return", "Esc", "Ctrl"} \subseteq held
      BY <2>1, <2>3 DEF Tracked, Booked
    <3>2. Tap!Keys \subseteq {"Return", "Esc", "Ctrl"}
      BY DEF Tap!Keys
    <3>3. /\ Tap!Lost = (tapHeld \cap Tap!Keys) \ (held \cup uiUps \cup cb.packets.ups)
          /\ Tap!Lost' = (tapHeld' \cap Tap!Keys') \ (held' \cup uiUps')
          /\ Tap!Keys' = Tap!Keys
      BY <1>1, <1>2, <2>3 DEF Tap!Lost, Tap!Keys
    <3> QED
      BY <1>1, <3>1, <3>2, <3>3
  <2> QED
    BY <2>2, <2>3
<1> QED
  BY <1>3, <1>4

LEMMA BooksTaken ==
    ASSUME TapInv, Tap!TakeBooks
    PROVE  TapInv' /\ Tap!Lost' \subseteq Tap!Lost
<1>1. /\ frame.at = "take" /\ uiUps = {}
      /\ uiUps' = IF platform = "mac" THEN Tap!Scancodes(prev, swap) ELSE held
      /\ frame' = [frame EXCEPT !.at = "ups"]
      /\ cb' = IF cb.at = "idle" THEN cb ELSE [cb EXCEPT !.late = TRUE]
      /\ UNCHANGED <<platform, mode, swap, tapHeld>>
  BY DEF Tap!TakeBooks, TapInv, TapTypes
<1>2. frame'.at = "ups" /\ frame' \in [at : {"idle", "take", "ups"}, want : {"off", "passive", "active"}]
  BY <1>1 DEF TapInv, TapTypes
<1>3. /\ cb' \in Callbacks /\ cb'.at = cb.at
      /\ cb.at = "send" => cb'.late /\ cb'.packets = cb.packets
  <2>1. CASE cb = Tap!Idle
    BY <1>1, <2>1 DEF Callbacks, Tap!Idle
  <2>2. CASE cb \in Called
    BY <1>1, <2>2 DEF Callbacks, Called
  <2> QED
    BY <2>1, <2>2 DEF TapInv, TapTypes, Callbacks
<1>4. TapInv'
  BY <1>1, <1>2, <1>3 DEF TapInv, TapTypes
<1>5. Tap!Lost' \subseteq Tap!Lost
  BY <1>1, <1>3 DEF Tap!Lost, Tap!Keys
<1> QED
  BY <1>4, <1>5

LEMMA BeginKeeps ==
    ASSUME TapInv, NEW k \in {"down", "up", "flags"}, NEW y \in Others,
           NEW f \in Chords \cup (SUBSET Mods) \cup {{"Cmd"}}, NEW b \in BOOLEAN,
           Tap!CallbackBegins(Tap!Event(k, y, f, b))
    PROVE  TapInv' /\ Tap!Lost' \subseteq Tap!Lost
<1> DEFINE e == [kind |-> k, key |-> y, flags |-> f, posted |-> b]
<1>1. /\ cb' = [at |-> "read", ev |-> e, mode |-> mode, swap |-> swap /\ ~b,
                packets |-> [ups |-> {}, downs |-> {}], late |-> FALSE]
      /\ UNCHANGED <<platform, mode, swap, prev, held, frame, uiUps, tapHeld>>
      /\ cb.at = "idle"
  BY DEF Tap!CallbackBegins, Tap!Event, Tap!NoPackets
<1>2. swap \in BOOLEAN /\ mode \in {"off", "passive", "active"}
  BY DEF TapInv, TapTypes
<1>3. cb' \in Called /\ cb'.at = "read"
  BY <1>1, <1>2 DEF Called
<1>4. TapInv'
  BY <1>1, <1>3 DEF TapInv, TapTypes, Callbacks
<1>5. Tap!Lost' \subseteq Tap!Lost
  BY <1>1, <1>3 DEF Tap!Lost, Tap!Keys
<1> QED
  BY <1>4, <1>5

LEMMA TapKept ==
    ASSUME TapInv, Tap!Next \/ UNCHANGED <<platform, capture>>,
           mode' \in {"off", "passive", "active"}
    PROVE  /\ TapInv'
           /\ \/ Tap!Lost' \subseteq Tap!Lost
              \/ cb.at # "idle" /\ (cb.late \/ cb.swap # swap)
              \/ swap' # swap
<1> DEFINE Keeps == TapInv' /\ Tap!Lost' \subseteq Tap!Lost
<1>1. ASSUME NEW k \in {"down", "up"}, NEW y \in Tap!Keys, NEW f \in Chords, Tap!KeyEvent(k, y, f)
      PROVE  Keeps
  <2>1. y \in Others
    BY DEF Tap!Keys, Others
  <2>2. k \in {"down", "up", "flags"} /\ f \in Chords \cup (SUBSET Mods) \cup {{"Cmd"}}
    OBVIOUS
  <2>3. Tap!CallbackBegins(Tap!Event(k, y, f, FALSE))
    BY <1>1 DEF Tap!KeyEvent
  <2>4. FALSE \in BOOLEAN
    OBVIOUS
  <2> QED
    BY <2>1, <2>2, <2>3, <2>4, BeginKeeps, Zenon
<1>2. ASSUME NEW f \in SUBSET Mods, Tap!FlagsEvent(f) PROVE Keeps
  BY <1>2, BeginKeeps DEF Tap!FlagsEvent, Others
<1>3. ASSUME NEW k \in {"down", "up"}, Tap!PostPaste(k) PROVE Keeps
  <2>1. /\ k \in {"down", "up", "flags"} /\ "V" \in Others /\ TRUE \in BOOLEAN
        /\ {"Cmd"} \in Chords \cup (SUBSET Mods) \cup {{"Cmd"}}
    BY DEF Others
  <2>2. Tap!CallbackBegins(Tap!Event(k, "V", {"Cmd"}, TRUE))
    BY <1>3 DEF Tap!PostPaste
  <2> QED
    BY <2>1, <2>2, BeginKeeps, Zenon
<1>4. CASE Tap!MacCallback
  <2>1. cb.at # "idle"
    BY <1>4 DEF Tap!MacCallback
  <2> QED
    BY <1>4, <2>1, MacCallbackKeeps
<1>5. CASE Tap!WinCallback
  BY <1>5, WinCallbackKeeps
<1>6. CASE Tap!CallbackSends
  <2>1. cb.at # "idle"
    BY <1>6 DEF Tap!CallbackSends
  <2> QED
    BY <1>6, <2>1, SendKeeps
<1>7. ASSUME UNCHANGED <<platform, mode, swap, prev, held, cb, frame, uiUps, tapHeld>> PROVE Keeps
  BY <1>7 DEF TapInv, TapTypes, Booked, Tracked, Tap!Lost, Tap!Keys
<1>8. CASE Tap!DispatchCombo \/ Tap!DrainTapEvents
  BY <1>7, <1>8 DEF Tap!DispatchCombo, Tap!DrainTapEvents
<1>9. ASSUME NEW w \in {"off", "passive", "active"}, Tap!SyncTap(w) PROVE Keeps
  <2>1. /\ frame.at = "idle"
        /\ frame' = IF Tap!Releases(w) THEN [at |-> "take", want |-> w] ELSE frame
        /\ UNCHANGED <<platform, swap, prev, held, cb, uiUps, tapHeld>>
    BY <1>9 DEF Tap!SyncTap
  <2>2. frame' \in [at : {"idle", "take", "ups"}, want : {"off", "passive", "active"}]
    BY <2>1 DEF TapInv, TapTypes
  <2>3. TapInv'
    BY <2>1, <2>2 DEF TapInv, TapTypes, Booked, Tracked
  <2> QED
    BY <2>1, <2>3 DEF Tap!Lost, Tap!Keys
<1>10. CASE Tap!TakeBooks
  BY <1>10, BooksTaken
<1>11. CASE Tap!SendUps
  <2>1. /\ frame' = [at |-> "idle", want |-> "off"] /\ uiUps' = {}
        /\ tapHeld' = tapHeld \ uiUps
        /\ UNCHANGED <<platform, swap, prev, held, cb>>
    BY <1>11 DEF Tap!SendUps
  <2>2. TapInv'
    BY <2>1 DEF TapInv, TapTypes, Booked, Tracked
  <2> QED
    BY <2>1, <2>2 DEF Tap!Lost, Tap!Keys
<1>12. CASE Tap!FlipSwap
  <2>1. swap' = ~swap /\ UNCHANGED <<platform, mode, prev, held, cb, frame, uiUps>>
    BY <1>12 DEF Tap!FlipSwap
  <2>2. TapInv' /\ swap' # swap
    BY <2>1 DEF TapInv, TapTypes, Booked, Tracked
  <2> QED
    BY <2>2
<1>13. CASE UNCHANGED <<platform, capture>>
  <2>1. UNCHANGED <<platform, swap, prev, held, cb, frame, uiUps, tapHeld>>
    BY <1>13 DEF capture
  <2> QED
    BY <2>1 DEF TapInv, TapTypes, Booked, Tracked, Tap!Lost, Tap!Keys
<1> QED
  BY <1>1, <1>2, <1>3, <1>4, <1>5, <1>6, <1>8, <1>9, <1>10, <1>11, <1>12, <1>13
     DEF Tap!Next, Tap!TapThread, Tap!UiThread
----------------------------------------------------------------------------
(* The window.  The chrome takes a click in a frame after it was drawn, so *)
(* never under capture in fullscreen.                                      *)

Fetches == {"none", "running", "ok", "err", "gone"}

Views == [enabled : BOOLEAN, texture : BOOLEAN, fetch : Fetches]

Panes ==
    [capturing : BOOLEAN, fullscreen : BOOLEAN, native : BOOLEAN, unconfirmed : BOOLEAN,
     deskFull : BOOLEAN, deskPending : BOOLEAN, view : Views, native_cmd : BOOLEAN]

PaneInv ==
    /\ Window!W \in Panes /\ chrome \in BOOLEAN
    /\ tapEvents \in Seq(Window!TapEvents)
    /\ chrome => ~(capturing /\ fullscreen)

\* The helpers of a frame keep the types; what they do to capture and fullscreen.
LEMMA CaptureToggled ==
    ASSUME NEW w \in Panes
    PROVE  LET t == Window!toggle_capture(w)
           IN  /\ t \in Panes /\ t.capturing = ~w.capturing
               /\ t.fullscreen = w.fullscreen /\ t.view = w.view
BY DEF Panes, Window!toggle_capture

LEMMA Engaged ==
    ASSUME NEW w \in Panes
    PROVE  LET t == Window!Engage(w)
           IN  t \in Panes /\ t.capturing /\ t.fullscreen = w.fullscreen /\ t.view = w.view
BY CaptureToggled DEF Window!Engage, Panes

LEMMA Released ==
    ASSUME NEW w \in Panes
    PROVE  LET t == Window!Release(w)
           IN  t \in Panes /\ ~t.capturing /\ t.fullscreen = w.fullscreen /\ t.view = w.view
BY CaptureToggled DEF Window!Release, Panes

LEMMA FullscreenToggled ==
    ASSUME NEW w \in Panes, NEW d \in BOOLEAN
    PROVE  Window!toggle_fullscreen(w, d) \in Panes
<1> DEFINE on == [w EXCEPT !.fullscreen = TRUE, !.unconfirmed = TRUE, !.native = ~d,
                           !.native_cmd = @ \/ ~d]
           off == [w EXCEPT !.fullscreen = FALSE, !.unconfirmed = TRUE]
           r == Window!Release(off)
<1>1. on \in Panes /\ off \in Panes
  BY DEF Panes
<1> HIDE DEF on, off
<1>2. Window!Engage(on) \in Panes /\ r \in Panes
  BY <1>1, Engaged, Released
<1> HIDE DEF r
<1>3. [r EXCEPT !.native = FALSE, !.native_cmd = FALSE] \in Panes
  BY <1>2 DEF Panes
<1>4. Window!toggle_fullscreen(w, d) =
        IF ~w.fullscreen THEN Window!Engage(on)
        ELSE [r EXCEPT !.native = FALSE, !.native_cmd = FALSE]
  BY DEF Window!toggle_fullscreen, on, off, r
<1> QED
  BY <1>2, <1>3, <1>4

LEMMA DesktopStopped ==
    ASSUME NEW w \in Panes
    PROVE  LET t == Window!stop_desktop_fullscreen(w)
           IN  /\ t \in Panes /\ ~t.view.enabled
               /\ t.capturing = w.capturing /\ t.fullscreen = w.fullscreen
BY DEF Panes, Views, Window!stop_desktop_fullscreen

LEMMA DesktopToggled ==
    ASSUME NEW w \in Panes, NEW d \in BOOLEAN
    PROVE  LET t == Window!toggle_desktop_fullscreen(w, d)
           IN  t \in Panes /\ ~t.capturing
<1> DEFINE off == Window!stop_desktop_fullscreen(w)
           left == IF off.fullscreen THEN Window!toggle_fullscreen(off, d) ELSE off
           on == [w EXCEPT !.view.enabled = TRUE, !.view.texture = FALSE, !.deskFull = TRUE]
           entered == IF on.fullscreen THEN on ELSE Window!toggle_fullscreen(on, d)
           r == Window!Release(entered)
<1>1. off \in Panes
  BY DesktopStopped
<1>2. on \in Panes
  BY DEF Panes, Views
<1> HIDE DEF off, on
<1>3. left \in Panes /\ entered \in Panes
  BY <1>1, <1>2, FullscreenToggled
<1> HIDE DEF left, entered
<1>4. /\ Window!Release(left) \in Panes /\ ~Window!Release(left).capturing
      /\ r \in Panes /\ ~r.capturing
  BY <1>3, Released
<1> HIDE DEF r
<1>5. [r EXCEPT !.deskPending = TRUE] \in Panes /\ ~[r EXCEPT !.deskPending = TRUE].capturing
  BY <1>4 DEF Panes
<1>6. Window!toggle_desktop_fullscreen(w, d) =
        IF w.deskFull THEN Window!Release(left) ELSE [r EXCEPT !.deskPending = TRUE]
  BY DEF Window!toggle_desktop_fullscreen, off, left, on, entered, r
<1> QED
  BY <1>4, <1>5, <1>6

LEMMA TapEventTaken ==
    ASSUME NEW w \in Panes, NEW d \in BOOLEAN, NEW e \in Window!TapEvents
    PROVE  Window!OnTapEvent(w, e, d) \in Panes
<1>1. Window!Release(w) \in Panes
  BY Released
<1> DEFINE r == Window!Release(w)
<1> HIDE DEF r
<1>2. [r EXCEPT !.deskPending = FALSE] \in Panes
  BY <1>1 DEF Panes, r
<1>3. /\ Window!Engage(w) \in Panes /\ Window!toggle_fullscreen(w, d) \in Panes
      /\ Window!toggle_desktop_fullscreen(w, d) \in Panes
  BY Engaged, FullscreenToggled, DesktopToggled
<1> QED
  BY <1>2, <1>3 DEF Window!OnTapEvent, Window!TapEvents, r
\* Hotkeys one after the other, in general: st[<<n, v>>] is what the n-th makes of v.
Chained(f, b, st, N) == \A n \in 0..N : f[n] = IF n = 0 THEN b ELSE st[<<n, f[n - 1]>>]

LEMMA ChainExists ==
    ASSUME NEW V, NEW b \in V, NEW N \in Nat, NEW st \in [(1..N) \X V -> V]
    PROVE  \E f \in [0..N -> V] : Chained(f, b, st, N)
<1> DEFINE Done(m) == \E f \in [0..m -> V] : Chained(f, b, st, m)
           T == {m \in Nat : m <= N => Done(m)}
<1> HIDE DEF Done
<1>1. 0 \in T
  <2> DEFINE f == [n \in 0..0 |-> b]
  <2>1. f \in [0..0 -> V] /\ Chained(f, b, st, 0)
    BY DEF Chained
  <2>2. Done(0)
    BY <2>1 DEF Done
  <2> QED
    BY <2>2
<1>2. ASSUME NEW m \in T PROVE m + 1 \in T
  <2>1. m \in Nat /\ (m <= N => Done(m))
    BY <1>2
  <2> SUFFICES ASSUME m + 1 <= N
               PROVE  Done(m + 1)
    BY <2>1
  <2>2. m <= N
    BY <2>1
  <2>3. PICK f \in [0..m -> V] : Chained(f, b, st, m)
    BY <2>1, <2>2, Zenon DEF Done
  <2> DEFINE g == [n \in 0..m + 1 |-> IF n = m + 1 THEN st[<<n, f[m]>>] ELSE f[n]]
  <2>4. st[<<m + 1, f[m]>>] \in V
    BY <2>1
  <2>5. g \in [0..m + 1 -> V]
    BY <2>1, <2>4
  <2>6. ASSUME NEW n \in 0..m + 1
        PROVE  g[n] = IF n = 0 THEN b ELSE st[<<n, g[n - 1]>>]
    <3>1. CASE n = m + 1
      <4>1. n # 0 /\ n - 1 = m /\ m \in 0..m + 1 /\ m # m + 1
        BY <2>1, <3>1
      <4>2. g[n] = st[<<n, f[m]>>] /\ g[m] = f[m]
        BY <3>1, <4>1
      <4> QED
        BY <4>1, <4>2
    <3>2. CASE n # m + 1
      <4>1. n \in 0..m /\ (n # 0 => n - 1 \in 0..m + 1 /\ n - 1 # m + 1)
        BY <2>1, <3>2
      <4>2. g[n] = f[n] /\ (n # 0 => g[n - 1] = f[n - 1])
        BY <3>2, <4>1
      <4> HIDE DEF g
      <4> QED
        BY <2>3, <4>1, <4>2 DEF Chained
    <3> QED
      BY <3>1, <3>2
  <2>7. Done(m + 1)
    <3> HIDE DEF g
    <3>1. Chained(g, b, st, m + 1)
      BY <2>6, Zenon DEF Chained
    <3> QED
      BY <2>5, <3>1, Zenon DEF Done
  <2> QED
    BY <2>1, <2>7
<1>3. \A m \in Nat : m \in T
  <2>1. T \in SUBSET Nat
    OBVIOUS
  <2> HIDE DEF T
  <2> QED
    BY <1>1, <1>2, <2>1, EveryNatural
<1>4. Done(N)
  BY <1>3
<1> QED
  BY <1>4, Zenon DEF Done

LEMMA TapEventsTaken ==
    ASSUME PaneInv, NEW w \in Panes, NEW d \in BOOLEAN
    PROVE  LET t == Window!AfterTapEvents(w, d)
           IN  t \in Panes /\ (tapEvents = <<>> => t = w)
<1> DEFINE N == Len(tapEvents)
           Rule(f) == f = [n \in 0..N |-> IF n = 0 THEN w
                                          ELSE Window!OnTapEvent(f[n - 1], tapEvents[n], d)]
           after == CHOOSE f : Rule(f)
           st == [x \in (1..N) \X Panes |-> Window!OnTapEvent(x[2], tapEvents[x[1]], d)]
<1>1. N \in Nat /\ \A n \in 1..N : tapEvents[n] \in Window!TapEvents
  BY DEF PaneInv
<1>2. st \in [(1..N) \X Panes -> Panes]
  BY <1>1, TapEventTaken
<1>3. Window!AfterTapEvents(w, d) = after[N]
  BY DEF Window!AfterTapEvents
<1> HIDE DEF N
<1>4. PICK f \in [0..N -> Panes] : Chained(f, w, st, N)
  <2> HIDE DEF st
  <2> QED
    BY <1>1, <1>2, ChainExists
<1>5. ASSUME NEW n \in 0..N, n # 0 PROVE st[<<n, f[n - 1]>>] = Window!OnTapEvent(f[n - 1], tapEvents[n], d)
  <2>1. n \in 1..N /\ n - 1 \in 0..N
    BY <1>1, <1>5
  <2> QED
    BY <2>1
<1>6. Rule(f)
  <2> DEFINE g == [n \in 0..N |-> IF n = 0 THEN w ELSE Window!OnTapEvent(f[n - 1], tapEvents[n], d)]
  <2>1. \A n \in 0..N : f[n] = g[n]
    BY <1>4, <1>5 DEF Chained
  <2> QED
    BY <2>1
<1>7. Rule(after)
  <2> HIDE DEF Rule
  <2> QED
    BY <1>6, Zenon
<1> HIDE DEF after
<1>8. \A n \in 0..N : after[n] = IF n = 0 THEN w ELSE Window!OnTapEvent(after[n - 1], tapEvents[n], d)
  BY <1>7
<1> DEFINE T == {m \in Nat : m <= N => after[m] \in Panes}
<1>9. 0 \in T
  BY <1>1, <1>8
<1>10. ASSUME NEW m \in T PROVE m + 1 \in T
  <2>1. m \in Nat /\ (m <= N => after[m] \in Panes)
    BY <1>10
  <2> SUFFICES ASSUME m + 1 <= N
               PROVE  after[m + 1] \in Panes
    BY <2>1
  <2>2. after[m] \in Panes /\ m + 1 \in 0..N /\ m + 1 \in 1..N /\ m + 1 # 0 /\ (m + 1) - 1 = m
    BY <1>1, <2>1
  <2>3. after[m + 1] = Window!OnTapEvent(after[m], tapEvents[m + 1], d)
    BY <1>8, <2>2
  <2> QED
    BY <1>1, <2>2, <2>3, TapEventTaken
<1>11. \A m \in Nat : m \in T
  <2>1. T \in SUBSET Nat
    OBVIOUS
  <2> HIDE DEF T
  <2> QED
    BY <1>9, <1>10, <2>1, EveryNatural
<1>12. after[N] \in Panes
  BY <1>1, <1>11
<1>13. tapEvents = <<>> => after[N] = w
  BY <1>1, <1>8 DEF N
<1> QED
  BY <1>3, <1>12, <1>13
LEMMA FullscreenFollowed ==
    ASSUME NEW w \in Panes, NEW b, reported \in BOOLEAN
    PROVE  LET t == Window!sync_fullscreen_state(w, b)
           IN  t \in Panes /\ (w.fullscreen /\ ~t.fullscreen => ~t.capturing)
<1> DEFINE kept == [w EXCEPT !.unconfirmed = FALSE]
           followed == [w EXCEPT !.unconfirmed = FALSE, !.fullscreen = reported, !.native = reported]
<1>1. kept \in Panes /\ kept.fullscreen = w.fullscreen /\ followed \in Panes /\ followed.fullscreen = reported
  BY DEF Panes
<1> HIDE DEF kept, followed
<1>2. Window!Release(followed) \in Panes /\ ~Window!Release(followed).capturing
  BY <1>1, Released
<1>3. Window!sync_fullscreen_state(w, b) =
        IF ~Window!decide_fullscreen_sync(w) THEN kept
        ELSE IF w.unconfirmed /\ ~b THEN w
        ELSE IF reported THEN followed ELSE Window!Release(followed)
  BY DEF Window!sync_fullscreen_state, kept, followed
<1> QED
  BY <1>1, <1>2, <1>3

LEMMA BeforeTheDrawing ==
    ASSUME PaneInv, NEW w \in Panes, NEW b, NEW d \in BOOLEAN
    PROVE  LET t == Window!BeforeDrawing(w, b, d)
           IN  /\ t \in Panes
               /\ tapEvents = <<>> /\ w.fullscreen /\ ~t.fullscreen => ~t.capturing
<1> DEFINE s == Window!sync_fullscreen_state(w, b)
           k == IF s.deskFull /\ ~s.fullscreen THEN Window!stop_desktop_fullscreen(s) ELSE s
<1>1. reported \in BOOLEAN
  BY DEF PaneInv, Window!W, Panes
<1>2. s \in Panes /\ (w.fullscreen /\ ~s.fullscreen => ~s.capturing)
  BY <1>1, FullscreenFollowed
<1> HIDE DEF s
<1>3. k \in Panes /\ k.fullscreen = s.fullscreen /\ k.capturing = s.capturing
  BY <1>2, DesktopStopped
<1> HIDE DEF k
<1>4. Window!BeforeDrawing(w, b, d) = Window!AfterTapEvents(k, d)
  BY DEF Window!BeforeDrawing, s, k
<1> QED
  BY <1>2, <1>3, <1>4, TapEventsTaken

LEMMA Drawn ==
    ASSUME NEW v \in Views, NEW b \in BOOLEAN
    PROVE  Window!draw(v, b) \in Views /\ Window!draw(v, b).enabled = v.enabled
BY DEF Window!draw, Views, Fetches

LEMMA Reconciled ==
    ASSUME NEW w \in Panes
    PROVE  LET t == Window!reconcile_desktop_capture(w)
           IN  /\ t \in Panes /\ t.view = w.view /\ t.fullscreen = w.fullscreen
               /\ t.capturing => w.view.texture
               /\ ~w.fullscreen /\ ~w.capturing => ~t.capturing
<1> DEFINE e == Window!Engage(w)
           u == Window!toggle_capture(w)
           engaged == [e EXCEPT !.deskPending = FALSE]
<1>1. e \in Panes /\ e.capturing /\ e.fullscreen = w.fullscreen /\ e.view = w.view
  BY Engaged
<1>2. u \in Panes /\ u.capturing = ~w.capturing /\ u.fullscreen = w.fullscreen /\ u.view = w.view
  BY CaptureToggled
<1> HIDE DEF e, u
<1>3. engaged \in Panes /\ engaged.capturing /\ engaged.fullscreen = w.fullscreen /\ engaged.view = w.view
  BY <1>1 DEF Panes
<1> HIDE DEF engaged
<1>4. \/ Window!reconcile_desktop_capture(w) = engaged /\ w.view.texture /\ w.fullscreen
      \/ Window!reconcile_desktop_capture(w) = u /\ ~w.view.texture /\ w.capturing
      \/ Window!reconcile_desktop_capture(w) = w /\ (w.view.texture \/ ~w.capturing)
  BY DEF Window!reconcile_desktop_capture, engaged, e, u
<1> QED
  BY <1>2, <1>3, <1>4

\* What a frame leaves behind.
LEMMA PaneLeft ==
    ASSUME NEW f \in Panes, Window!Becomes(f), tapEvents' = <<>>, chrome' \in BOOLEAN,
           chrome' => ~(f.capturing /\ f.fullscreen),
           f.view.enabled /\ f.capturing => f.view.texture
    PROVE  /\ PaneInv' /\ Window!DesktopInputNeedsAPicture'
           /\ capturing' = f.capturing /\ fullscreen' = f.fullscreen
<1>1. Window!W' = f
  BY DEF Panes, Window!Becomes, Window!W
<1>2. capturing' = f.capturing /\ fullscreen' = f.fullscreen /\ view' = f.view
  BY DEF Window!Becomes
<1>3. <<>> \in Seq(Window!TapEvents')
  BY EmptySeq
<1>4. PaneInv'
  BY <1>1, <1>2, <1>3 DEF PaneInv, Window!TapEvents
<1>5. Window!DesktopInputNeedsAPicture'
  BY <1>2 DEF Window!DesktopInputNeedsAPicture
<1> QED
  BY <1>2, <1>4, <1>5

LEMMA FrameKeeps ==
    ASSUME PaneInv, NEW ev, NEW perm \in BOOLEAN, NEW timedOut, NEW display \in BOOLEAN,
           NEW due \in BOOLEAN, NEW click \in {"none", "capture", "desktop"},
           Window!Frame(ev, perm, timedOut, display, due, click)
    PROVE  /\ PaneInv' /\ Window!DesktopInputNeedsAPicture'
           /\ fullscreen /\ ~fullscreen' /\ capturing /\ tapEvents = <<>> => ~capturing'
<1> DEFINE heard == Window!OnLinkEvent(Window!W, ev)
           told == Window!BeforeDrawing(heard, timedOut, display)
           shown == ~told.capturing /\ ~told.fullscreen /\ ~told.view.enabled /\ perm
           drawn == [told EXCEPT !.view = Window!draw(@, due)]
           final == IF told.view.enabled THEN Window!reconcile_desktop_capture(drawn)
                    ELSE Window!Clicked(told, click, display)
<1>1. heard \in Panes /\ heard.fullscreen = fullscreen
  <2> DEFINE w == Window!W
  <2>1. w \in Panes /\ w.fullscreen = fullscreen
    BY DEF PaneInv, Window!W
  <2> HIDE DEF w
  <2>2. /\ [w EXCEPT !.capturing = FALSE, !.deskPending = FALSE] \in Panes
        /\ [w EXCEPT !.capturing = FALSE, !.deskPending = FALSE].fullscreen = fullscreen
    BY <2>1 DEF Panes
  <2>3. heard = IF ev = "Disconnected"
                THEN [w EXCEPT !.capturing = FALSE, !.deskPending = FALSE] ELSE w
    BY DEF Window!OnLinkEvent, w
  <2> QED
    BY <2>1, <2>2, <2>3
<1>2. /\ click # "none" => shown /\ chrome
      /\ chrome' = shown /\ Window!Becomes(final) /\ tapEvents' = <<>>
  BY DEF Window!Frame
<1> HIDE DEF heard
<1>3. told \in Panes /\ (tapEvents = <<>> /\ fullscreen /\ ~told.fullscreen => ~told.capturing)
  BY <1>1, BeforeTheDrawing
<1> HIDE DEF told
<1>4. /\ drawn \in Panes /\ drawn.capturing = told.capturing /\ drawn.fullscreen = told.fullscreen
      /\ drawn.view.enabled = told.view.enabled
  <2>1. told.view \in Views
    BY <1>3 DEF Panes
  <2>2. Window!draw(told.view, due) \in Views /\ Window!draw(told.view, due).enabled = told.view.enabled
    BY <2>1, Drawn
  <2> QED
    BY <1>3, <2>2 DEF Panes
<1> HIDE DEF drawn
<1>5. CASE told.view.enabled
  <2>1. final = Window!reconcile_desktop_capture(drawn) /\ ~shown
    BY <1>5
  <2>2. /\ final \in Panes /\ final.fullscreen = told.fullscreen
        /\ final.capturing => final.view.texture
        /\ ~told.fullscreen /\ ~told.capturing => ~final.capturing
    BY <1>4, <2>1, Reconciled
  <2>3. chrome' \in BOOLEAN /\ ~chrome'
    BY <1>2, <1>3, <2>1 DEF Panes
  <2> HIDE DEF final, shown
  <2> QED
    BY <1>2, <1>3, <2>2, <2>3, PaneLeft
<1>6. CASE ~told.view.enabled
  <2>1. final = Window!Clicked(told, click, display)
    BY <1>6
  <2>2. final \in Panes
    BY <1>3, <2>1, CaptureToggled, DesktopToggled DEF Window!Clicked
  <2>3. chrome' \in BOOLEAN
    BY <1>2, <1>3, <1>6 DEF Panes
  <2>4. CASE click = "none"
    <3>1. final = told /\ ~final.view.enabled /\ (shown => ~final.capturing)
      BY <1>6, <2>1, <2>4 DEF Window!Clicked
    <3> HIDE DEF final, shown
    <3> QED
      BY <1>2, <1>3, <2>2, <2>3, <3>1, PaneLeft
  <2>5. CASE click # "none"
    <3>1. shown /\ ~(capturing /\ fullscreen) /\ ~told.fullscreen
      BY <1>2, <2>5 DEF PaneInv
    <3>2. CASE click = "capture"
      <4>1. final.view = told.view /\ ~final.fullscreen
        BY <1>3, <2>1, <3>1, <3>2, CaptureToggled DEF Window!Clicked
      <4> HIDE DEF final, shown
      <4> QED
        BY <1>2, <1>6, <2>2, <2>3, <3>1, <4>1, PaneLeft
    <3>3. CASE click # "capture"
      <4>1. ~final.capturing
        BY <1>3, <2>1, <2>5, <3>3, DesktopToggled DEF Window!Clicked
      <4> HIDE DEF final, shown
      <4> QED
        BY <1>2, <2>2, <2>3, <3>1, <4>1, PaneLeft
    <3> QED
      BY <3>2, <3>3
  <2> QED
    BY <2>4, <2>5
<1> QED
  BY <1>5, <1>6
LEMMA PaneStarts == ASSUME Window!Init PROVE PaneInv /\ Window!DesktopInputNeedsAPicture
BY EmptySeq DEF Window!Init, PaneInv, Panes, Views, Fetches, Window!W,
                Window!DesktopInputNeedsAPicture

LEMMA PaneKept ==
    ASSUME PaneInv, Window!DesktopInputNeedsAPicture,
           Window!Next \/ UNCHANGED <<tap, windowvars, reported>>
    PROVE  /\ PaneInv' /\ Window!DesktopInputNeedsAPicture'
           /\ fullscreen /\ ~fullscreen' /\ capturing /\ tapEvents = <<>> => ~capturing'
<1> DEFINE Good == /\ PaneInv' /\ Window!DesktopInputNeedsAPicture'
                   /\ fullscreen /\ ~fullscreen' /\ capturing /\ tapEvents = <<>> => ~capturing'
<1>1. ASSUME NEW ev, NEW perm \in Window!Either(platform = "mac", TRUE), NEW timedOut,
             NEW display \in Window!Either(chrome \/ tapEvents # <<>>, TRUE),
             NEW due \in Window!Either(view.enabled \/ tapEvents # <<>>, TRUE),
             NEW click \in IF chrome THEN {"none", "capture", "desktop"} ELSE {"none"},
             Window!Frame(ev, perm, timedOut, display, due, click)
      PROVE  Good
  <2>1. /\ perm \in BOOLEAN /\ display \in BOOLEAN /\ due \in BOOLEAN
        /\ click \in {"none", "capture", "desktop"}
    BY DEF Window!Either
  <2> QED
    BY <1>1, <2>1, FrameKeeps
<1>2. ASSUME NEW e \in Window!TapEvents, Window!TapTells(e) PROVE Good
  <2>1. /\ tapEvents' = Append(tapEvents, e)
        /\ UNCHANGED <<capturing, fullscreen, native, unconfirmed, deskFull, deskPending, view,
                       reported, chrome>>
    BY <1>2 DEF Window!TapTells
  <2>2. tapEvents' \in Seq(Window!TapEvents)
    BY <2>1, AppendProperties DEF PaneInv
  <2> QED
    BY <2>1, <2>2 DEF PaneInv, Window!W, Window!TapEvents, Window!DesktopInputNeedsAPicture
<1>3. ASSUME NEW r \in {"ok", "err", "gone"}, Window!FetchEnds(r) PROVE Good
  <2>1. /\ view' = [view EXCEPT !.fetch = r]
        /\ UNCHANGED <<tapEvents, capturing, fullscreen, native, unconfirmed, deskFull,
                       deskPending, reported, chrome>>
    BY <1>3 DEF Window!FetchEnds
  <2>2. view \in Views
    BY DEF PaneInv, Window!W, Panes
  <2>3. view' \in Views /\ view'.enabled = view.enabled /\ view'.texture = view.texture
    BY <2>1, <2>2 DEF Views, Fetches
  <2>4. Window!W' \in Panes
    BY <2>1, <2>3 DEF PaneInv, Window!W, Panes
  <2> QED
    BY <2>1, <2>3, <2>4 DEF PaneInv, Window!TapEvents, Window!DesktopInputNeedsAPicture
<1>4. ASSUME UNCHANGED <<tapEvents, capturing, fullscreen, native, unconfirmed, deskFull,
                         deskPending, view, chrome>>, reported' \in BOOLEAN
      PROVE  Good
  BY <1>4 DEF PaneInv, Window!W, Panes, Window!TapEvents, Window!DesktopInputNeedsAPicture
<1>5. reported \in BOOLEAN
  BY DEF PaneInv, Window!W, Panes
<1>6. ASSUME Window!FocusMoves \/ Window!FullscreenOutside PROVE Good
  BY <1>4, <1>5, <1>6 DEF Window!FocusMoves, Window!FullscreenOutside
<1>7. ASSUME UNCHANGED <<tap, windowvars, reported>> PROVE Good
  BY <1>4, <1>5, <1>7 DEF tap, windowvars
<1> DEFINE SomeFrame ==
             \E ev \in Window!LinkEvents \ {conn},
                perm \in Window!Either(platform = "mac", TRUE),
                timedOut \in Window!Either(unconfirmed, TRUE),
                display \in Window!Either(chrome \/ tapEvents # <<>>, TRUE),
                due \in Window!Either(view.enabled \/ tapEvents # <<>>, TRUE),
                click \in IF chrome THEN {"none", "capture", "desktop"} ELSE {"none"} :
                Window!Frame(ev, perm, timedOut, display, due, click)
<1>8. ASSUME SomeFrame PROVE Good
  <2> HIDE DEF Good
  <2>1. PICK ev \in Window!LinkEvents \ {conn},
             perm \in Window!Either(platform = "mac", TRUE),
             timedOut \in Window!Either(unconfirmed, TRUE),
             display \in Window!Either(chrome \/ tapEvents # <<>>, TRUE),
             due \in Window!Either(view.enabled \/ tapEvents # <<>>, TRUE),
             click \in IF chrome THEN {"none", "capture", "desktop"} ELSE {"none"} :
             Window!Frame(ev, perm, timedOut, display, due, click)
    BY <1>8
  <2> QED
    BY <1>1, <2>1
<1>9. ASSUME \E e \in Window!TapEvents : Window!TapTells(e) PROVE Good
  <2> HIDE DEF Good
  <2> QED
    BY <1>2, <1>9, Zenon
<1>10. ASSUME \E r \in {"ok", "err", "gone"} : Window!FetchEnds(r) PROVE Good
  <2> HIDE DEF Good
  <2> QED
    BY <1>3, <1>10, Zenon
<1>11. \/ SomeFrame \/ \E e \in Window!TapEvents : Window!TapTells(e)
       \/ \E r \in {"ok", "err", "gone"} : Window!FetchEnds(r)
       \/ Window!FocusMoves \/ Window!FullscreenOutside
       \/ UNCHANGED <<tap, windowvars, reported>>
  BY Zenon DEF Window!Next
<1> HIDE DEF SomeFrame, Good
<1>12. Good
  BY <1>6, <1>7, <1>8, <1>9, <1>10, <1>11
<1> QED
  BY <1>12 DEF Good
----------------------------------------------------------------------------
(* Where the window is put.  Unless a toggle came too early, the screen's  *)
(* rectangle is never the one that settles, and it is gone back to only    *)
(* when the file had it.                                                   *)

Rects == Spots \cup {"screen"}

Maybe == Rects \cup {"none"}

Files == [is : {"missing", "ok", "broken"}, opts : {"default", "changed"}, geom : Maybe]

Restores == {Placement!NoRestore} \cup [to : Rects, attempts : Nat]

Sites ==
    [win : Maybe, full : {"no", "borderless", "native"}, reported : BOOLEAN, sent : BOOLEAN,
     pre : Maybe, restore : Restores, settling : Maybe, persisted : Maybe,
     check : {"armed", "done"}, disk : Files, astray : BOOLEAN]

\* The way back is under way, or done, or was left to winit.
OnItsWayBack(w) ==
    /\ Placement!Returning(w) => w.full = "no" /\ ~w.reported
    /\ w.restore.to = "screen" => w.persisted = "screen"
    /\ w.full = "no" /\ w.win = "screen" /\ ~Placement!Returning(w)
         => w.persisted = "screen" \/ w.reported

Sound(w) ==
    /\ w.full = "borderless" => w.pre # "none"
    /\ w.full = "no" => w.pre = "none"
    /\ ~w.astray =>
         /\ OnItsWayBack(w)
         /\ w.settling # "screen"
         /\ w.pre = "screen" => w.persisted = "screen"
         /\ w.full = "no" /\ w.reported => ~w.sent
         /\ w.full = "native" /\ ~w.reported => w.win # "screen"

Down(w) ==
    /\ w.full = "no" /\ ~w.reported /\ ~w.sent /\ w.pre = "none"
    /\ w.restore = Placement!NoRestore /\ w.settling = "none" /\ w.persisted = "none"

PlaceInv ==
    /\ Placement!W \in Sites /\ Sound(Placement!W)
    /\ win = "none" => Down(Placement!W)
    /\ edit \in Files

\* A fullscreen that winit reports was followed.
Followed(w) == ~w.astray /\ w.full = "no" => ~w.reported

\* The window is up, its books are sound, and it still has what `was' had.
Still(w, was) ==
    /\ w \in Sites /\ Sound(w) /\ w.win # "none"
    /\ w.settling = was.settling /\ w.disk = was.disk
    /\ Followed(was) => Followed(w)

LEMMA SpotsAreNeither == \A s \in Spots : s # "screen" /\ s # "none"
BY DeskAssumption DEF DeskAssumption

Target(w) == IF w.pre # "none" THEN w.pre ELSE w.persisted

LEMMA WayBackQueued ==
    ASSUME NEW w \in Sites
    PROVE  LET t == Placement!queue_position_restore(w)
           IN  /\ t \in Sites /\ t.win = w.win /\ t.full = w.full /\ t.reported = w.reported
               /\ t.sent = w.sent /\ t.pre = "none" /\ t.settling = w.settling
               /\ t.persisted = w.persisted /\ t.disk = w.disk /\ t.astray = w.astray
               /\ t.restore = IF Target(w) = "none" THEN w.restore
                             ELSE [to |-> Target(w), attempts |-> 0]
<1> DEFINE back == IF Target(w) = "none" THEN w.restore ELSE [to |-> Target(w), attempts |-> 0]
<1>1. w.restore \in Restores /\ Target(w) \in Maybe
  BY DEF Sites, Target
<1>2. back \in Restores
  BY <1>1 DEF Restores, Maybe
<1>3. Placement!queue_position_restore(w) = [w EXCEPT !.pre = "none", !.restore = back]
  BY DEF Placement!queue_position_restore, Placement!None, Target
<1> HIDE DEF back
<1>4. "none" \in Maybe
  BY DEF Maybe
<1>5. [w EXCEPT !.pre = "none", !.restore = back] \in Sites
  BY <1>2, <1>4 DEF Sites
<1> QED
  BY <1>3, <1>5 DEF Sites, back

LEMMA SiteFollows ==
    ASSUME NEW w \in Sites, Sound(w), w.win # "none", NEW b
    PROVE  LET t == Placement!sync_fullscreen_state(w, b)
           IN  Still(t, w) /\ Followed(t)
<1> DEFINE kept == [w EXCEPT !.sent = FALSE]
           native_ == [w EXCEPT !.sent = FALSE, !.full = "native", !.pre = "none"]
           left == [w EXCEPT !.sent = FALSE, !.full = "no"]
           t == Placement!queue_position_restore(left)
<1>1. /\ kept \in Sites /\ native_ \in Sites /\ left \in Sites
  BY DEF Sites, Maybe
<1>2. w.reported \in BOOLEAN /\ w.full \in {"no", "borderless", "native"} /\ w.restore \in Restores
  BY DEF Sites
<1>3. ASSUME Placement!decide_fullscreen_sync(w), w.reported PROVE Still(native_, w) /\ Followed(native_)
  <2>1. w.full = "no"
    BY <1>2, <1>3 DEF Placement!decide_fullscreen_sync
  <2> QED
    BY <1>1, <1>3, <2>1 DEF Still, Followed, Sound, OnItsWayBack, Placement!Returning, Sites
<1>4. ASSUME Placement!decide_fullscreen_sync(w), ~w.reported PROVE Still(t, w) /\ Followed(t)
  <2>1. w.full = "native"
    BY <1>2, <1>4 DEF Placement!decide_fullscreen_sync
  <2>2. /\ t \in Sites /\ t.win = w.win /\ t.full = "no" /\ ~t.reported
        /\ ~t.sent /\ t.pre = "none" /\ t.settling = w.settling
        /\ t.persisted = w.persisted /\ t.disk = w.disk /\ t.astray = w.astray
    BY <1>1, <1>4, WayBackQueued DEF Sites
  <2>3. Target(left) = Target(w) /\ left.restore = w.restore
    BY DEF Sites, Target
  <2>4. t.restore = IF Target(left) = "none" THEN left.restore
                    ELSE [to |-> Target(left), attempts |-> 0]
    <3> HIDE DEF left
    <3> QED
      BY <1>1, WayBackQueued
  <2> HIDE DEF t, left
  <2>5. ASSUME ~w.astray PROVE OnItsWayBack(t)
    BY <1>2, <1>4, <2>1, <2>2, <2>3, <2>4, <2>5
       DEF Sound, OnItsWayBack, Placement!Returning, Placement!NoRestore, Placement!None, Restores, Target
  <2> QED
    BY <2>1, <2>2, <2>5 DEF Still, Followed, Sound
<1>5. /\ Still(kept, w) /\ (~Placement!decide_fullscreen_sync(w) => Followed(kept))
      /\ Still(w, w) /\ (w.sent => Followed(w))
  BY <1>1, <1>2 DEF Still, Followed, Sound, OnItsWayBack, Placement!Returning, Sites,
                    Placement!decide_fullscreen_sync
<1>6. Placement!sync_fullscreen_state(w, b) =
        IF ~Placement!decide_fullscreen_sync(w) THEN kept
        ELSE IF w.sent /\ ~b THEN w
        ELSE IF w.reported THEN native_ ELSE t
  BY DEF Placement!sync_fullscreen_state, Placement!None
<1> HIDE DEF kept, native_, t
<1> QED
  BY <1>3, <1>4, <1>5, <1>6
LEMMA SiteMoved ==
    ASSUME NEW w \in Sites, Sound(w), w.win # "none"
    PROVE  LET t == Placement!move_onto_primary_if_offscreen(w)
           IN  Still(t, w) /\ t.restore = w.restore /\ t.astray = w.astray
<1> DEFINE s == CHOOSE x \in Spots : x \notin Far
           moved == [w EXCEPT !.win = s]
<1>1. s \in Spots
  BY DeskAssumption DEF DeskAssumption
<1>2. s # "screen" /\ s # "none" /\ s \in Maybe
  BY <1>1, SpotsAreNeither DEF Maybe, Rects
<1> HIDE DEF s
<1>3. /\ moved \in Sites /\ moved.win = s /\ moved.restore = w.restore /\ moved.astray = w.astray
      /\ moved.settling = w.settling /\ moved.disk = w.disk /\ moved.full = w.full
      /\ moved.pre = w.pre /\ moved.persisted = w.persisted /\ moved.reported = w.reported
      /\ moved.sent = w.sent
  BY <1>2 DEF Sites
<1> HIDE DEF moved
<1>4. Still(moved, w) /\ Still(w, w)
  BY <1>2, <1>3 DEF Still, Followed, Sound, OnItsWayBack, Placement!Returning
<1>5. Placement!move_onto_primary_if_offscreen(w) \in {moved, w}
  BY DEF Placement!move_onto_primary_if_offscreen, moved, s
<1> QED
  BY <1>3, <1>4, <1>5

LEMMA SiteRestored ==
    ASSUME NEW w \in Sites, Sound(w), w.win # "none", NEW obeys \in BOOLEAN
    PROVE  Still(Placement!drain_pending_position_restore(w, obeys), w)
<1> DEFINE there == [w EXCEPT !.win = w.restore.to]
           moved == Placement!move_onto_primary_if_offscreen(w)
           placed == [w EXCEPT !.restore = Placement!NoRestore]
           last == IF obeys THEN there ELSE moved
           gone == [last EXCEPT !.restore = Placement!NoRestore, !.astray = @ \/ ~obeys]
           next == IF obeys THEN there ELSE w
           again == [next EXCEPT !.restore.attempts = @ + 1]
<1>1. Still(w, w)
  BY DEF Still
<1>2. CASE Placement!Returning(w)
  <2>1. /\ w.restore \in [to : Rects, attempts : Nat] /\ w.restore # Placement!NoRestore
        /\ w.restore.to \in Rects /\ w.restore.to # "none"
    BY <1>2, SpotsAreNeither DEF Sites, Restores, Placement!Returning, Rects
  <2>2. /\ there \in Sites /\ there.win = w.restore.to /\ there.restore = w.restore
        /\ there.astray = w.astray /\ there.settling = w.settling /\ there.disk = w.disk
        /\ there.full = w.full /\ there.pre = w.pre /\ there.persisted = w.persisted
        /\ there.reported = w.reported /\ there.sent = w.sent
    BY <2>1 DEF Sites, Maybe
  <2> HIDE DEF there
  <2>3. Still(there, w)
    BY <1>2, <2>1, <2>2 DEF Still, Followed, Sound, OnItsWayBack, Placement!Returning
  <2>4. Placement!NoRestore \in Restores /\ Placement!NoRestore.to = "none"
    BY DEF Restores, Placement!NoRestore, Placement!None
  <2>5. ASSUME w.win = w.restore.to PROVE Still(placed, w)
    <3>1. /\ placed \in Sites /\ placed.win = w.win /\ placed.restore = Placement!NoRestore
          /\ placed.astray = w.astray /\ placed.settling = w.settling /\ placed.disk = w.disk
          /\ placed.full = w.full /\ placed.pre = w.pre /\ placed.persisted = w.persisted
          /\ placed.reported = w.reported /\ placed.sent = w.sent
      BY <2>4 DEF Sites
    <3> HIDE DEF placed
    <3> QED
      BY <1>2, <2>1, <2>4, <2>5, <3>1 DEF Still, Followed, Sound, OnItsWayBack, Placement!Returning
  <2>6. Still(moved, w) /\ moved.restore = w.restore /\ moved.astray = w.astray
    BY SiteMoved
  <2> HIDE DEF moved
  <2>7. Still(gone, w)
    <3>1. last \in Sites /\ Still(last, w) /\ last.restore = w.restore /\ last.astray = w.astray
      BY <2>2, <2>3, <2>6 DEF Still
    <3>2. obeys => last.win = w.restore.to
      BY <2>2
    <3> HIDE DEF last
    <3>3. /\ gone \in Sites /\ gone.win = last.win /\ gone.restore = Placement!NoRestore
          /\ gone.astray = (w.astray \/ ~obeys) /\ gone.settling = last.settling
          /\ gone.disk = last.disk /\ gone.full = last.full /\ gone.pre = last.pre
          /\ gone.persisted = last.persisted /\ gone.reported = last.reported /\ gone.sent = last.sent
      BY <2>4, <3>1 DEF Sites
    <3> HIDE DEF gone
    <3> QED
      BY <1>2, <2>1, <2>4, <3>1, <3>2, <3>3 DEF Still, Followed, Sound, OnItsWayBack, Placement!Returning
  <2>8. Still(again, w)
    <3>1. next \in Sites /\ Still(next, w) /\ next.restore = w.restore /\ next.astray = w.astray
      BY <1>1, <2>2, <2>3
    <3> HIDE DEF next
    <3> DEFINE more == [next.restore EXCEPT !.attempts = @ + 1]
    <3>2. more \in [to : Rects, attempts : Nat] /\ more.to = w.restore.to /\ more.attempts # 0
      BY <2>1, <3>1
    <3>3. again = [next EXCEPT !.restore = more]
      BY <3>1 DEF Sites
    <3> HIDE DEF more
    <3>4. more # Placement!NoRestore /\ more \in Restores
      BY <3>2 DEF Restores, Placement!NoRestore
    <3>5. /\ again \in Sites /\ again.win = next.win /\ again.restore = more
          /\ again.astray = next.astray /\ again.settling = next.settling
          /\ again.disk = next.disk /\ again.full = next.full /\ again.pre = next.pre
          /\ again.persisted = next.persisted /\ again.reported = next.reported /\ again.sent = next.sent
      BY <3>1, <3>3, <3>4 DEF Sites
    <3> HIDE DEF again
    <3> QED
      BY <1>2, <2>1, <3>1, <3>2, <3>4, <3>5 DEF Still, Followed, Sound, OnItsWayBack, Placement!Returning
  <2>9. Placement!drain_pending_position_restore(w, obeys) =
          IF w.restore.attempts > 0 /\ w.win = w.restore.to THEN placed
          ELSE IF w.restore.attempts >= RESTORE_MAX_ATTEMPTS THEN gone ELSE again
    BY <1>2 DEF Placement!drain_pending_position_restore, there, moved
  <2> HIDE DEF placed, gone, again
  <2> QED
    BY <2>5, <2>7, <2>8, <2>9
<1>3. CASE ~Placement!Returning(w)
  BY <1>1, <1>3 DEF Placement!drain_pending_position_restore
<1> QED
  BY <1>2, <1>3
LEMMA SiteRescued ==
    ASSUME NEW w \in Sites, Sound(w), w.win # "none"
    PROVE  Still(Placement!rescue_offscreen_window(w), w)
<1> DEFINE m == Placement!move_onto_primary_if_offscreen(w)
           done == [m EXCEPT !.check = "done"]
<1>1. Still(m, w)
  BY SiteMoved
<1> HIDE DEF m
<1>2. /\ done \in Sites /\ done.win = m.win /\ done.restore = m.restore
      /\ done.astray = m.astray /\ done.settling = m.settling /\ done.disk = m.disk
      /\ done.full = m.full /\ done.pre = m.pre /\ done.persisted = m.persisted
      /\ done.reported = m.reported /\ done.sent = m.sent
  BY <1>1 DEF Still, Sites
<1> HIDE DEF done
<1>3. Still(done, w)
  BY <1>1, <1>2 DEF Still, Followed, Sound, OnItsWayBack, Placement!Returning
<1>4. Still(w, w)
  BY DEF Still
<1>5. Placement!rescue_offscreen_window(w) \in {done, w}
  BY DEF Placement!rescue_offscreen_window, done, m
<1> QED
  BY <1>3, <1>4, <1>5

LEMMA Saved ==
    ASSUME NEW d \in Files, NEW g \in Maybe
    PROVE  LET t == Placement!save_window_geometry(d, g)
           IN  /\ t \in Files /\ t.geom = g
               /\ Placement!load_from(t).opts = Placement!load_from(d).opts
<1>1. Placement!load_from(d) \in Files /\ Placement!load_from(d).is = "ok"
  BY DEF Placement!load_from, Placement!Defaults, Placement!File, Placement!None, Files, Maybe
<1> DEFINE l == Placement!load_from(d)
<1> HIDE DEF l
<1>2. /\ [l EXCEPT !.geom = g] \in Files /\ [l EXCEPT !.geom = g].geom = g
      /\ [l EXCEPT !.geom = g].opts = l.opts /\ [l EXCEPT !.geom = g].is = "ok"
  BY <1>1 DEF Files, l
<1>3. Placement!save_window_geometry(d, g) = [l EXCEPT !.geom = g]
  BY DEF Placement!save_window_geometry, l
<1> HIDE DEF l
<1>4. Placement!load_from([l EXCEPT !.geom = g]) = [l EXCEPT !.geom = g]
  BY <1>2 DEF Placement!load_from
<1> QED
  BY <1>2, <1>3, <1>4 DEF l

\* A frame's sample is written only if it had settled.
LEMMA SiteTracked ==
    ASSUME NEW w \in Sites, Sound(w), Followed(w), w.win # "none",
           NEW settled \in BOOLEAN, NEW ok \in BOOLEAN
    PROVE  LET t == Placement!track_window_geometry(w, settled, ok)
           IN  /\ t \in Sites /\ Sound(t) /\ Followed(t) /\ t.win # "none"
               /\ \/ t.disk = w.disk
                  \/ /\ t.disk = Placement!save_window_geometry(w.disk, w.win)
                     /\ w.settling = w.win
<1> DEFINE none == [w EXCEPT !.settling = "none"]
           moving == [w EXCEPT !.settling = w.win]
           disk_ == Placement!save_window_geometry(w.disk, w.win)
           wrote == [none EXCEPT !.disk = Placement!save_window_geometry(@, w.win), !.persisted = w.win]
<1>1. w.disk \in Files /\ w.win \in Maybe /\ "none" \in Maybe
  BY DEF Sites, Maybe
<1>2. disk_ \in Files
  BY <1>1, Saved
<1> HIDE DEF disk_
<1>3. /\ none \in Sites /\ none.win = w.win /\ none.restore = w.restore
      /\ none.astray = w.astray /\ none.settling = "none" /\ none.disk = w.disk
      /\ none.full = w.full /\ none.pre = w.pre /\ none.persisted = w.persisted
      /\ none.reported = w.reported /\ none.sent = w.sent
  BY <1>1 DEF Sites
<1> HIDE DEF none
<1>4. /\ moving \in Sites /\ moving.win = w.win /\ moving.restore = w.restore
      /\ moving.astray = w.astray /\ moving.settling = w.win /\ moving.disk = w.disk
      /\ moving.full = w.full /\ moving.pre = w.pre /\ moving.persisted = w.persisted
      /\ moving.reported = w.reported /\ moving.sent = w.sent
  BY <1>1 DEF Sites
<1> HIDE DEF moving
<1>5. wrote = [none EXCEPT !.disk = disk_, !.persisted = w.win]
  BY <1>3 DEF disk_, Sites
<1> HIDE DEF wrote
<1>6. /\ wrote \in Sites /\ wrote.win = w.win /\ wrote.restore = w.restore
      /\ wrote.astray = w.astray /\ wrote.settling = "none" /\ wrote.disk = disk_
      /\ wrote.full = w.full /\ wrote.pre = w.pre /\ wrote.persisted = w.win
      /\ wrote.reported = w.reported /\ wrote.sent = w.sent
  BY <1>1, <1>2, <1>3, <1>5 DEF Sites
<1>7. Sound(none) /\ Followed(none) /\ Followed(moving) /\ Followed(wrote)
  BY <1>3, <1>4, <1>6 DEF Sound, OnItsWayBack, Placement!Returning, Followed
<1>8. CASE w.full = "no" /\ ~Placement!Returning(w)
  <2>1. w.persisted # w.win => Sound(moving)
    BY <1>4, <1>8 DEF Sound, OnItsWayBack, Placement!Returning, Followed
  <2>2. w.restore.to # "screen"
    BY <1>8 DEF Placement!Returning, Placement!NoRestore, Placement!None
  <2>3. Sound(wrote)
    BY <1>6, <1>8, <2>2 DEF Sound, OnItsWayBack, Placement!Returning
  <2>4. Placement!track_window_geometry(w, settled, ok) =
          IF ~(w.persisted = "none" \/ w.persisted # w.win) THEN none
          ELSE IF w.settling # w.win THEN moving
          ELSE IF settled THEN IF ok THEN wrote ELSE none ELSE w
    BY <1>8 DEF Placement!track_window_geometry, Placement!geometry_changed,
                Placement!write_window_geometry, Placement!None, none, moving, wrote
  <2> QED
    BY <1>3, <1>4, <1>6, <1>7, <2>1, <2>3, <2>4 DEF disk_
<1>9. CASE w.full # "no" \/ Placement!Returning(w)
  <2>1. Placement!track_window_geometry(w, settled, ok) = w
    BY <1>9 DEF Placement!track_window_geometry
  <2> QED
    BY <2>1
<1> QED
  BY <1>8, <1>9

\* One frame: what settles was there before, and only that is written.
LEMMA SiteAfterFrame ==
    ASSUME PlaceInv, win # "none", NEW f \in Placement!Outcomes
    PROVE  LET t == Placement!AfterFrame(f)
           IN  /\ t \in Sites /\ Sound(t) /\ Followed(t) /\ t.win # "none"
               /\ Placement!load_from(t.disk).opts = Placement!load_from(disk).opts
               /\ t.disk.geom = "screen" /\ disk.geom # "screen" => astray
<1> DEFINE w == Placement!W
           synced == Placement!sync_fullscreen_state(w, f.timedOut)
           drained == IF f.due THEN Placement!drain_pending_position_restore(synced, f.obeys)
                               ELSE synced
           rescued == IF f.settled THEN Placement!rescue_offscreen_window(drained) ELSE drained
           t == Placement!track_window_geometry(rescued, f.settled, f.ok)
<1>1. f.due \in BOOLEAN /\ f.obeys \in BOOLEAN /\ f.settled \in BOOLEAN /\ f.ok \in BOOLEAN
  BY DEF Placement!Outcomes
<1>2. /\ w \in Sites /\ Sound(w) /\ w.win # "none" /\ w.disk = disk /\ w.astray = astray
      /\ w.settling = settling
  BY DEF PlaceInv, Placement!W
<1>3. Placement!AfterFrame(f) = t
  BY DEF Placement!AfterFrame
<1> HIDE DEF w
<1>4. Still(synced, w) /\ Followed(synced)
  BY <1>2, SiteFollows
<1> HIDE DEF synced
<1>5. Still(drained, synced)
  BY <1>1, <1>4, SiteRestored DEF Still
<1> HIDE DEF drained
<1>6. Still(rescued, drained)
  BY <1>5, SiteRescued DEF Still
<1> HIDE DEF rescued
<1>7. /\ rescued \in Sites /\ Sound(rescued) /\ Followed(rescued) /\ rescued.win # "none"
      /\ rescued.disk = disk /\ rescued.settling = settling
  BY <1>2, <1>4, <1>5, <1>6 DEF Still
<1>8. /\ t \in Sites /\ Sound(t) /\ Followed(t) /\ t.win # "none"
      /\ \/ t.disk = disk
         \/ t.disk = Placement!save_window_geometry(disk, settling) /\ settling = rescued.win
  BY <1>1, <1>7, SiteTracked
<1> HIDE DEF t
<1>9. disk \in Files /\ settling \in Maybe /\ (settling = "screen" => astray)
  BY <1>2 DEF Sites, Sound
<1> QED
  BY <1>3, <1>8, <1>9, Saved
LEMMA SiteToggled ==
    ASSUME NEW w \in Sites, Sound(w), Followed(w), w.win # "none",
           NEW display \in BOOLEAN, NEW back \in Spots
    PROVE  LET t == Placement!toggle_fullscreen(w, display, back)
           IN  t \in Sites /\ Sound(t) /\ t.win # "none" /\ t.disk = w.disk
<1> DEFINE on == [w EXCEPT !.pre = w.win, !.win = "screen", !.sent = TRUE,
                           !.full = IF display THEN "borderless" ELSE "native",
                           !.reported = @ \/ ~display, !.astray = @ \/ Placement!Returning(w)]
           off == [w EXCEPT !.full = "no", !.reported = FALSE, !.sent = TRUE,
                            !.win = IF w.full = "native" THEN back ELSE @]
           t == Placement!queue_position_restore(off)
<1>1. back # "screen" /\ back # "none" /\ back \in Maybe /\ "screen" \in Maybe
  BY SpotsAreNeither DEF Maybe, Rects
<1>2. w.full \in {"no", "borderless", "native"} /\ w.restore \in Restores /\ w.win \in Maybe
  BY DEF Sites
<1>3. CASE w.full = "no"
  <2>1. /\ on \in Sites /\ on.win = "screen" /\ on.restore = w.restore
        /\ on.astray = (w.astray \/ Placement!Returning(w)) /\ on.settling = w.settling
        /\ on.disk = w.disk /\ on.full = (IF display THEN "borderless" ELSE "native")
        /\ on.pre = w.win /\ on.persisted = w.persisted
        /\ on.reported = (w.reported \/ ~display) /\ on.sent
    BY <1>1, <1>2 DEF Sites, Placement!Returning
  <2>2. Placement!toggle_fullscreen(w, display, back) = on
    BY <1>3 DEF Placement!toggle_fullscreen
  <2> HIDE DEF on
  <2>3. Sound(on)
    BY <1>3, <2>1 DEF Sound, OnItsWayBack, Placement!Returning, Placement!NoRestore,
                      Placement!None, Followed
  <2> QED
    BY <2>1, <2>2, <2>3
<1>4. CASE w.full # "no"
  <2>1. /\ off \in Sites /\ off.win = (IF w.full = "native" THEN back ELSE w.win)
        /\ off.restore = w.restore /\ off.astray = w.astray /\ off.settling = w.settling
        /\ off.disk = w.disk /\ off.full = "no" /\ off.pre = w.pre
        /\ off.persisted = w.persisted /\ ~off.reported /\ off.sent
    BY <1>1, <1>2 DEF Sites
  <2>2. Placement!toggle_fullscreen(w, display, back) = t
    BY <1>4 DEF Placement!toggle_fullscreen
  <2> HIDE DEF off
  <2>3. /\ t \in Sites /\ t.win = off.win /\ t.full = off.full /\ t.reported = off.reported
        /\ t.sent = off.sent /\ t.pre = "none" /\ t.settling = off.settling
        /\ t.persisted = off.persisted /\ t.disk = off.disk /\ t.astray = off.astray
        /\ t.restore = IF Target(off) = "none" THEN off.restore
                       ELSE [to |-> Target(off), attempts |-> 0]
    BY <2>1, WayBackQueued
  <2> HIDE DEF t
  <2>4. ASSUME ~w.astray PROVE OnItsWayBack(t)
    BY <1>1, <1>2, <1>4, <2>1, <2>3, <2>4
       DEF Sound, OnItsWayBack, Placement!Returning, Placement!NoRestore, Placement!None, Restores, Target
  <2>5. Sound(t)
    BY <1>4, <2>1, <2>3, <2>4 DEF Sound
  <2> QED
    BY <1>1, <2>1, <2>2, <2>3, <2>5
<1> QED
  BY <1>3, <1>4

\* Only a toggle that came too early lets the screen's rectangle into the
\* file, and only Save an edit.
FileKept ==
    /\ disk'.geom = "screen" /\ disk.geom # "screen" => astray \/ edit.geom = "screen"
    /\ Placement!load_from(disk').opts # Placement!load_from(disk).opts
         => disk' = edit \/ disk'.is = "broken"

LEMMA SiteBecomes ==
    ASSUME PlaceInv, NEW t \in Sites, Sound(t), t.win # "none", Placement!Becomes(t), edit' = edit
    PROVE  PlaceInv' /\ disk' = t.disk
<1>1. Placement!W' = t
  BY DEF Sites, Placement!Becomes, Placement!W
<1>2. win' = t.win /\ disk' = t.disk
  BY DEF Placement!Becomes
<1> QED
  BY <1>1, <1>2 DEF PlaceInv

LEMMA PlaceStarts == ASSUME Placement!Init PROVE PlaceInv
BY DEF Placement!Init, PlaceInv, Sites, Sound, Down, Files, Restores, Maybe, Placement!W, Placement!None,
       Placement!NoRestore, Placement!Defaults, Placement!File, OnItsWayBack, Placement!Returning

LEMMA FrameKeepsSite ==
    ASSUME PlaceInv, NEW f \in Placement!Outcomes, Placement!Frame(f)
    PROVE  PlaceInv' /\ FileKept
<1> DEFINE t == Placement!AfterFrame(f)
<1>1. win # "none" /\ Placement!Becomes(t) /\ edit' = edit
  BY DEF Placement!Frame, Placement!None
<1>2. /\ t \in Sites /\ Sound(t) /\ t.win # "none"
      /\ Placement!load_from(t.disk).opts = Placement!load_from(disk).opts
      /\ t.disk.geom = "screen" /\ disk.geom # "screen" => astray
  BY <1>1, SiteAfterFrame
<1> HIDE DEF t
<1>3. PlaceInv' /\ disk' = t.disk
  BY <1>1, <1>2, SiteBecomes
<1> QED
  BY <1>2, <1>3 DEF FileKept

LEMMA ToggleKeepsSite ==
    ASSUME PlaceInv, NEW f \in Placement!Outcomes, NEW display \in BOOLEAN, NEW back \in Spots,
           Placement!ToggleFullscreen(f, display, back)
    PROVE  PlaceInv' /\ FileKept
<1> DEFINE t == Placement!AfterFrame(f)
           u == Placement!toggle_fullscreen(t, display, back)
<1>1. win # "none" /\ Placement!Becomes(u) /\ edit' = edit
  BY DEF Placement!ToggleFullscreen, Placement!None
<1>2. /\ t \in Sites /\ Sound(t) /\ Followed(t) /\ t.win # "none"
      /\ Placement!load_from(t.disk).opts = Placement!load_from(disk).opts
      /\ t.disk.geom = "screen" /\ disk.geom # "screen" => astray
  BY <1>1, SiteAfterFrame
<1> HIDE DEF t
<1>3. u \in Sites /\ Sound(u) /\ u.win # "none" /\ u.disk = t.disk
  BY <1>2, SiteToggled
<1> HIDE DEF u
<1>4. PlaceInv' /\ disk' = u.disk
  BY <1>1, <1>3, SiteBecomes
<1> QED
  BY <1>2, <1>3, <1>4 DEF FileKept
\* A window that is up and gets sound books by any other step.
LEMMA SiteIs ==
    ASSUME Placement!W' \in Sites, Sound(Placement!W'), win' # "none", edit' \in Files
    PROVE  PlaceInv'
BY DEF PlaceInv, Placement!W

LEMMA StoppedIsDown ==
    ASSUME PlaceInv, Placement!Stopped, disk' \in Files, edit' \in Files
    PROVE  PlaceInv'
<1>1. Placement!W' \in Sites
  BY DEF Placement!Stopped, Placement!W, Sites, Restores, Maybe, Placement!None
<1>2. Sound(Placement!W')
  BY DEF Placement!Stopped, Placement!W, Sound, OnItsWayBack, Placement!Returning,
         Placement!NoRestore, Placement!None
<1>3. Down(Placement!W')
  BY DEF Placement!Stopped, Placement!W, Down, Placement!None
<1> QED
  BY <1>1, <1>2, <1>3 DEF PlaceInv

\* Steps that leave the window alone.
LEMMA FileChanges ==
    ASSUME PlaceInv, UNCHANGED <<win, full, reported, sent, pre, restore, settling, persisted,
                                 check, astray>>, disk' \in Files, edit' \in Files
    PROVE  PlaceInv'
<1>1. Placement!W' \in Sites
  BY DEF PlaceInv, Placement!W, Sites
<1>2. Sound(Placement!W') /\ (win' = "none" => Down(Placement!W'))
  BY DEF PlaceInv, Placement!W, Sound, OnItsWayBack, Placement!Returning, Down
<1> QED
  BY <1>1, <1>2 DEF PlaceInv

LEMMA Loaded ==
    ASSUME NEW d \in Files
    PROVE  Placement!load_from(d) \in Files
BY DEF Placement!load_from, Placement!Defaults, Placement!File, Placement!None, Files, Maybe

LEMMA LaunchKeepsSite ==
    ASSUME PlaceInv, Placement!Launch
    PROVE  PlaceInv' /\ disk' = disk
<1> DEFINE cfg == Placement!load_from(disk)
<1>1. /\ win = "none" /\ edit' = cfg /\ persisted' = cfg.geom /\ check' = "armed"
      /\ win' \in IF persisted' = "none" THEN Spots \ Far ELSE {persisted'}
      /\ UNCHANGED <<full, reported, sent, pre, restore, settling, disk, astray>>
  BY DEF Placement!Launch, Placement!None
<1>2. disk \in Files /\ astray \in BOOLEAN
  BY DEF PlaceInv, Placement!W, Sites
<1>3. cfg \in Files /\ cfg.geom \in Maybe
  BY <1>2, Loaded DEF Files
<1> HIDE DEF cfg
<1>4. /\ full = "no" /\ reported = FALSE /\ sent = FALSE /\ pre = "none"
      /\ restore = Placement!NoRestore /\ settling = "none"
  BY <1>1 DEF PlaceInv, Down, Placement!W, Sites
<1>5. win' \in Maybe /\ win' # "none" /\ (win' = "screen" => persisted' = "screen")
  BY <1>1, <1>3, SpotsAreNeither DEF Maybe, Rects
<1>6. Placement!W' \in Sites
  BY <1>1, <1>2, <1>3, <1>4, <1>5 DEF Placement!W, Sites, Restores, Maybe
<1>7. Sound(Placement!W')
  BY <1>1, <1>4, <1>5 DEF Placement!W, Sound, OnItsWayBack, Placement!Returning,
                          Placement!NoRestore, Placement!None
<1> QED
  BY <1>1, <1>3, <1>5, <1>6, <1>7, SiteIs

LEMMA FullscreenOutsideKeeps ==
    ASSUME PlaceInv, Placement!FullscreenOutside
    PROVE  PlaceInv' /\ disk' = disk
<1>1. /\ win # "none" /\ full # "borderless" /\ reported' = ~reported
      /\ win' \in IF reported' THEN {"screen"} ELSE Spots
      /\ astray' = (astray \/ restore # Placement!NoRestore \/ sent)
      /\ UNCHANGED <<full, sent, pre, restore, settling, persisted, check, disk, edit>>
  BY DEF Placement!FullscreenOutside, Placement!None, Placement!config
<1>2. /\ disk \in Files /\ edit \in Files /\ astray \in BOOLEAN /\ reported \in BOOLEAN /\ sent \in BOOLEAN
      /\ full \in {"no", "borderless", "native"}
  BY DEF PlaceInv, Placement!W, Sites
<1>3. win' \in Maybe /\ win' # "none" /\ (win' = "screen" => reported')
  BY <1>1, SpotsAreNeither DEF Maybe, Rects
<1>4. Placement!W' \in Sites
  BY <1>1, <1>2, <1>3 DEF PlaceInv, Placement!W, Sites
<1>5. Sound(Placement!W')
  BY <1>1, <1>2, <1>3 DEF PlaceInv, Placement!W, Sound, OnItsWayBack, Placement!Returning,
                          Placement!NoRestore, Placement!None
<1> QED
  BY <1>1, <1>2, <1>3, <1>4, <1>5, SiteIs

LEMMA UserMovesKeeps ==
    ASSUME PlaceInv, NEW s \in Spots, Placement!UserMoves(s)
    PROVE  PlaceInv' /\ disk' = disk
<1>1. /\ win # "none" /\ full = "no" /\ ~reported /\ win' = s
      /\ UNCHANGED <<full, reported, sent, pre, restore, settling, persisted, check, disk, edit, astray>>
  BY DEF Placement!UserMoves, Placement!None, Placement!config
<1>2. s \in Maybe /\ s # "none" /\ s # "screen"
  BY SpotsAreNeither DEF Maybe, Rects
<1>3. Placement!W' \in Sites
  BY <1>1, <1>2 DEF PlaceInv, Placement!W, Sites
<1>4. Sound(Placement!W')
  BY <1>1, <1>2 DEF PlaceInv, Placement!W, Sound, OnItsWayBack, Placement!Returning
<1> QED
  BY <1>1, <1>2, <1>3, <1>4, SiteIs DEF PlaceInv

LEMMA PlaceKept ==
    ASSUME PlaceInv, Placement!Next \/ UNCHANGED <<reported, placement>>
    PROVE  PlaceInv' /\ FileKept
<1> DEFINE Good == PlaceInv' /\ FileKept
<1>0. disk \in Files /\ edit \in Files /\ settling \in Maybe /\ Placement!Defaults \in Files
  BY DEF PlaceInv, Placement!W, Sites, Files, Placement!Defaults, Placement!File, Maybe, Placement!None
<1>1. ASSUME PlaceInv', disk' = disk PROVE Good
  BY <1>1 DEF FileKept
<1>2. ASSUME NEW f \in Placement!Outcomes, Placement!Frame(f) PROVE Good
  BY <1>2, FrameKeepsSite
<1>3. ASSUME NEW f \in Placement!Outcomes, NEW d \in BOOLEAN, NEW b \in Spots,
             Placement!ToggleFullscreen(f, d, b)
      PROVE  Good
  BY <1>3, ToggleKeepsSite
<1>4. ASSUME NEW o \in Placement!Options, Placement!EditOption(o) \/ Placement!EditDeferred(o)
      PROVE  Good
  <2>1. [edit EXCEPT !.opts = o] \in Files
    BY <1>0 DEF Files, Placement!Options
  <2> QED
    BY <1>0, <1>1, <1>4, <2>1, FileChanges
       DEF Placement!EditOption, Placement!EditDeferred, Placement!window
<1>5. ASSUME NEW s \in Spots, Placement!UserMoves(s) PROVE Good
  BY <1>1, <1>5, UserMovesKeeps
<1>6. ASSUME NEW ok \in BOOLEAN, Placement!Quit(ok) PROVE Good
  <2>1. Placement!Stopped /\ edit' = edit /\ Placement!flush_window_geometry(ok)
    BY <1>6 DEF Placement!Quit
  <2>2. win # "none" /\ (disk' = disk \/ disk' = Placement!save_window_geometry(disk, settling))
    BY <1>6, <2>1 DEF Placement!Quit, Placement!flush_window_geometry, Placement!None
  <2>3. settling = "screen" => astray
    BY DEF PlaceInv, Sound, Placement!W
  <2>4. disk' \in Files /\ FileKept
    BY <1>0, <2>2, <2>3, Saved DEF FileKept
  <2> QED
    BY <1>0, <2>1, <2>4, StoppedIsDown
<1>7. ASSUME Placement!FullscreenOutside PROVE Good
  BY <1>1, <1>7, FullscreenOutsideKeeps
<1>8. ASSUME Placement!ResetToDefaults \/ Placement!Unplug PROVE Good
  BY <1>0, <1>1, <1>8, FileChanges
     DEF Placement!ResetToDefaults, Placement!Unplug, Placement!window, Placement!config
<1>9. ASSUME Placement!Save PROVE Good
  <2>1. disk' = edit /\ edit' = edit
    BY <1>9 DEF Placement!Save
  <2>2. PlaceInv'
    BY <1>0, <1>9, FileChanges DEF Placement!Save, Placement!window
  <2> QED
    BY <2>1, <2>2 DEF FileKept
<1>10. ASSUME Placement!SaveAndRestart PROVE Good
  <2>1. disk' = edit /\ edit' = edit /\ Placement!Stopped
    BY <1>10 DEF Placement!SaveAndRestart
  <2> QED
    BY <1>0, <2>1, StoppedIsDown DEF FileKept
<1>11. ASSUME Placement!Launch PROVE Good
  BY <1>1, <1>11, LaunchKeepsSite
<1>12. ASSUME Placement!FileSpoilt PROVE Good
  <2>1. /\ disk' = [disk EXCEPT !.is = "broken"] /\ edit' = edit
    BY <1>12 DEF Placement!FileSpoilt
  <2>2. disk' \in Files /\ disk'.is = "broken" /\ disk'.geom = disk.geom
    BY <1>0, <2>1 DEF Files
  <2>3. PlaceInv'
    BY <1>0, <1>12, <2>1, <2>2, FileChanges DEF Placement!FileSpoilt, Placement!window
  <2> QED
    BY <2>2, <2>3 DEF FileKept
<1>13. ASSUME UNCHANGED <<reported, placement>> PROVE Good
  BY <1>0, <1>1, <1>13, FileChanges DEF placement
<1> HIDE DEF Good
<1>14. Good
  <2>1. ASSUME Placement!Next PROVE Good
    BY <1>2, <1>3, <1>4, <1>5, <1>6, <1>7, <1>8, <1>9, <1>10, <1>11, <1>12, <2>1, Zenon
       DEF Placement!Next
  <2> QED
    BY <1>13, <2>1
<1> QED
  BY <1>14 DEF Good
----------------------------------------------------------------------------
(* The displays.  Each has an identity of its own, whatever order they are *)
(* listed in, and the saved one is the picked display's.                   *)

Screens == [left : Int, bottom : Int, size : {2}, scale : {1, 2}, number : 1..3]

Identity(m) ==
    IF os = "mac" THEN [name |-> 0, size |-> 2, x |-> m.left, y |-> 2 - (m.bottom + 2)]
                  ELSE Displays!WinInfo(m)

DisplaysInv ==
    /\ desk \in [1..3 -> Screens]
    /\ \A i, j \in 1..3 : i # j =>
         /\ desk[i].number # desk[j].number
         /\ desk[i].left # desk[j].left \/ desk[i].bottom # desk[j].bottom
    /\ \/ saved = <<>> /\ picked = 0
       \/ \E k \in 1..3 : picked = desk[k].number /\ saved = <<Identity(desk[k])>>

LEMMA ThreeDisplays == \A k \in 1..3 : k = 1 \/ k = 2 \/ k = 3
OBVIOUS

LEMMA BeforeOrders ==
    ASSUME NEW a \in Screens, NEW b \in Screens, NEW c \in Screens
    PROVE  /\ ~Displays!Before(a, a)
           /\ Displays!Before(a, b) /\ Displays!Before(b, c) => Displays!Before(a, c)
           /\ a.left # b.left \/ a.bottom # b.bottom => Displays!Before(a, b) \/ Displays!Before(b, a)
BY DEF Screens, Displays!Before

Arranged(s, x, y, z) == s[1] = x /\ s[2] = y /\ s[3] = z

Sorts(s) == \A i, j \in 1..3 : i < j => Displays!Before(s[i], s[j])

LEMMA ArrangementSorts ==
    ASSUME NEW D, NEW x \in D, NEW y \in D, NEW z \in D,
           Displays!Before(x, y), Displays!Before(y, z), Displays!Before(x, z)
    PROVE  \E s \in [1..3 -> D] : Sorts(s)
<1> DEFINE s == [i \in 1..3 |-> IF i = 1 THEN x ELSE IF i = 2 THEN y ELSE z]
<1>1. s \in [1..3 -> D] /\ s[1] = x /\ s[2] = y /\ s[3] = z
  OBVIOUS
<1> HIDE DEF s
<1>2. \A i, j \in 1..3 : i < j => (i = 1 /\ j = 2) \/ (i = 1 /\ j = 3) \/ (i = 2 /\ j = 3)
  OBVIOUS
<1>3. Sorts(s)
  BY <1>1, <1>2 DEF Sorts
<1> QED
  BY <1>1, <1>3

LEMMA SortedExists ==
    ASSUME DisplaysInv
    PROVE  \E s \in [1..3 -> {desk[i] : i \in 1..3}] : Sorts(s)
<1> DEFINE D == {desk[i] : i \in 1..3}
           a == desk[1]
           b == desk[2]
           c == desk[3]
<1>1. a \in D /\ b \in D /\ c \in D
  OBVIOUS
<1>2. a \in Screens /\ b \in Screens /\ c \in Screens
  BY DEF DisplaysInv
<1>3. /\ a.left # b.left \/ a.bottom # b.bottom
      /\ a.left # c.left \/ a.bottom # c.bottom
      /\ b.left # c.left \/ b.bottom # c.bottom
  BY 1 # 2, 1 # 3, 2 # 3 DEF DisplaysInv
<1> HIDE DEF D, a, b, c
<1>4. /\ Displays!Before(a, b) \/ Displays!Before(b, a)
      /\ Displays!Before(a, c) \/ Displays!Before(c, a)
      /\ Displays!Before(b, c) \/ Displays!Before(c, b)
  BY <1>2, <1>3, BeforeOrders
<1>5. \E x, y, z \in {a, b, c} :
         Displays!Before(x, y) /\ Displays!Before(y, z) /\ Displays!Before(x, z)
  BY <1>2, <1>4, BeforeOrders
<1>6. \E s \in [1..3 -> D] : Sorts(s)
  BY <1>1, <1>5, ArrangementSorts
<1> QED
  BY <1>6 DEF D

\* The list has every display once, under its identity.
LEMMA EveryDisplayListed ==
    ASSUME DisplaysInv, os \in {"mac", "windows"}
    PROVE  LET list == Displays!list_monitors
           IN  /\ DOMAIN list = 1..3
               /\ \A i \in 1..3 : \E k \in 1..3 : /\ list[i].info = Identity(desk[k])
                                                  /\ list[i].of = desk[k].number
               /\ \A k \in 1..3 : \E i \in 1..3 : /\ list[i].info = Identity(desk[k])
                                                  /\ list[i].of = desk[k].number
<1> DEFINE list == Displays!list_monitors
<1>1. DOMAIN desk = 1..3 /\ \A i \in 1..3 : desk[i] \in Screens
  BY DEF DisplaysInv
<1>2. CASE os = "mac"
  <2>1. list = [i \in 1..3 |-> [info |-> Displays!MacInfo(desk[i], desk[1]), of |-> desk[i].number]]
    BY <1>1, <1>2 DEF Displays!list_monitors
  <2>2. \A i \in 1..3 : Displays!MacInfo(desk[i], desk[1]) = Identity(desk[i])
    <3>1. \A i \in 1..3 : desk[i].size = 2
      BY <1>1 DEF Screens
    <3> QED
      BY <1>2, <3>1 DEF Identity, Displays!MacInfo, Displays!flip_nsscreen_y
  <2>3. \A i \in 1..3 : list[i].info = Identity(desk[i]) /\ list[i].of = desk[i].number
    BY <2>1, <2>2
  <2>4. DOMAIN list = 1..3
    BY <2>1
  <2> HIDE DEF list
  <2> QED
    BY <2>3, <2>4 DEF list
<1>3. CASE os # "mac"
  <2> DEFINE sorted == Displays!order_monitors(desk)
  <2>1. sorted = CHOOSE s \in [1..3 -> {desk[i] : i \in 1..3}] : Sorts(s)
    BY <1>1 DEF Displays!order_monitors, Displays!ToSet, Sorts
  <2>2. list = [i \in 1..3 |-> [info |-> Displays!WinInfo(sorted[i]), of |-> sorted[i].number]]
    BY <1>1, <1>3 DEF Displays!list_monitors
  <2> HIDE DEF sorted
  <2>3. sorted \in [1..3 -> {desk[i] : i \in 1..3}] /\ Sorts(sorted)
    <3>1. \E s \in [1..3 -> {desk[i] : i \in 1..3}] : Sorts(s)
      BY SortedExists
    <3> QED
      BY <2>1, <3>1, Zenon
  <2>4. \A i \in 1..3 : list[i].info = Identity(sorted[i]) /\ list[i].of = sorted[i].number
    BY <1>3, <2>2 DEF Identity
  <2>5. DOMAIN list = 1..3
    BY <2>2
  <2>6. \A i \in 1..3 : \E k \in 1..3 : sorted[i] = desk[k]
    BY <2>3
  <2>7. PICK r \in [1..3 -> 1..3] : \A i \in 1..3 : sorted[i] = desk[r[i]]
    <3> DEFINE r == [i \in 1..3 |-> CHOOSE k \in 1..3 : sorted[i] = desk[k]]
    <3>1. r \in [1..3 -> 1..3] /\ \A i \in 1..3 : sorted[i] = desk[r[i]]
      BY <2>6
    <3> QED
      BY <3>1
  <2>8. \A i, j \in 1..3 : i < j => r[i] # r[j]
    BY <1>1, <2>3, <2>7, BeforeOrders DEF Sorts
  <2>9. \A k \in 1..3 : \E i \in 1..3 : r[i] = k
    <3>1. r[1] \in 1..3 /\ r[2] \in 1..3 /\ r[3] \in 1..3 /\ r[1] # r[2] /\ r[1] # r[3] /\ r[2] # r[3]
      BY <2>7, <2>8
    <3> QED
      BY <3>1
  <2> HIDE DEF list
  <2> QED
    BY <2>4, <2>5, <2>7, <2>9 DEF list
<1> QED
  BY <1>2, <1>3

LEMMA IdentitiesDiffer ==
    ASSUME DisplaysInv, NEW i \in 1..3, NEW k \in 1..3, Identity(desk[i]) = Identity(desk[k])
    PROVE  i = k
<1> DEFINE a == desk[i]
           b == desk[k]
<1>1. a \in Screens /\ b \in Screens
  BY DEF DisplaysInv
<1>2. i # k => a.number # b.number /\ (a.left # b.left \/ a.bottom # b.bottom)
  BY DEF DisplaysInv
<1>3. Identity(a) = Identity(b)
  OBVIOUS
<1> HIDE DEF a, b
<1>4. CASE os = "mac"
  <2>1. Identity(a).x = Identity(b).x /\ Identity(a).y = Identity(b).y
    BY <1>3
  <2>2. a.left = b.left /\ 2 - (a.bottom + 2) = 2 - (b.bottom + 2)
    BY <1>4, <2>1 DEF Identity
  <2> QED
    BY <1>1, <1>2, <2>2 DEF Screens
<1>5. CASE os # "mac"
  <2>1. Identity(a).name = Identity(b).name
    BY <1>3
  <2>2. a.number = b.number
    BY <1>5, <2>1 DEF Identity, Displays!WinInfo
  <2> QED
    BY <1>2, <2>2
<1> QED
  BY <1>4, <1>5
LEMMA PickedFound ==
    ASSUME DisplaysInv, os \in {"mac", "windows"}
    PROVE  Displays!PickedIsFound
<1> DEFINE list == Displays!list_monitors
           same == {i \in DOMAIN list : <<list[i].info>> = saved}
           first == CHOOSE i \in same : \A j \in same : i <= j
<1>1. /\ DOMAIN list = 1..3
      /\ \A i \in 1..3 : \E k \in 1..3 : list[i].info = Identity(desk[k]) /\ list[i].of = desk[k].number
      /\ \A k \in 1..3 : \E i \in 1..3 : list[i].info = Identity(desk[k]) /\ list[i].of = desk[k].number
  BY EveryDisplayListed
<1>2. Displays!resolve_target_monitor = IF same = {} THEN 0 ELSE list[first].of
  BY DEF Displays!resolve_target_monitor, Displays!monitor_identity
<1> HIDE DEF list
<1>3. CASE saved = <<>> /\ picked = 0
  <2>1. same = {}
    BY <1>3
  <2> QED
    BY <1>2, <1>3, <2>1 DEF Displays!PickedIsFound
<1>4. CASE \E k \in 1..3 : picked = desk[k].number /\ saved = <<Identity(desk[k])>>
  <2>1. PICK k \in 1..3 : picked = desk[k].number /\ saved = <<Identity(desk[k])>>
    BY <1>4
  <2>2. \A i \in same : list[i].of = desk[k].number
    <3> SUFFICES ASSUME NEW i \in same PROVE list[i].of = desk[k].number
      OBVIOUS
    <3>1. i \in 1..3 /\ list[i].info = Identity(desk[k])
      BY <1>1, <2>1
    <3>2. PICK m \in 1..3 : list[i].info = Identity(desk[m]) /\ list[i].of = desk[m].number
      BY <1>1, <3>1
    <3>3. m = k
      BY <3>1, <3>2, IdentitiesDiffer
    <3> QED
      BY <3>2, <3>3
  <2>3. PICK i \in 1..3 : list[i].info = Identity(desk[k])
    BY <1>1
  <2>4. i \in same /\ same \subseteq 1..3
    BY <1>1, <2>1, <2>3
  <2> HIDE DEF same
  <2>5. \E n \in same : \A j \in same : n <= j
    BY <2>4, ThreeDisplays
  <2>6. first \in same
    BY <2>5, Zenon
  <2> QED
    BY <1>2, <2>1, <2>2, <2>4, <2>6 DEF Displays!PickedIsFound
<1> QED
  BY <1>3, <1>4 DEF DisplaysInv

LEMMA DisplaysStart ==
    ASSUME Displays!Init
    PROVE  DisplaysInv
<1>1. PICK p \in Places, q \in Places, s \in {1, 2}, t \in {1, 2} :
        /\ Displays!Apart(p, q) /\ Displays!Apart(p, <<0, 0>>) /\ Displays!Apart(q, <<0, 0>>)
        /\ desk = <<Displays!Primary(s), Displays!Second(p, 2, s), Displays!Second(q, 3, t)>>
  BY DEF Displays!Init
<1>2. p[1] \in Int /\ p[2] \in Int /\ q[1] \in Int /\ q[2] \in Int
  BY DeskAssumption DEF DeskAssumption
<1> DEFINE a == Displays!Primary(s)
           b == Displays!Second(p, 2, s)
           c == Displays!Second(q, 3, t)
<1>3. a \in Screens /\ b \in Screens /\ c \in Screens
  BY <1>2 DEF Screens, Displays!Primary, Displays!Second
<1>4. /\ a.number = 1 /\ a.left = 0 /\ a.bottom = 0
      /\ b.number = 2 /\ b.left = p[1] /\ b.bottom = p[2]
      /\ c.number = 3 /\ c.left = q[1] /\ c.bottom = q[2]
  BY DEF Displays!Primary, Displays!Second
<1>5. (p[1] # 0 \/ p[2] # 0) /\ (q[1] # 0 \/ q[2] # 0) /\ (p[1] # q[1] \/ p[2] # q[2])
  BY <1>1, <1>2 DEF Displays!Apart
<1> HIDE DEF a, b, c
<1>6. desk = <<a, b, c>>
  BY <1>1 DEF a, b, c
<1>7. desk \in [1..3 -> Screens] /\ desk[1] = a /\ desk[2] = b /\ desk[3] = c
  BY <1>3, <1>6
<1>8. \A i, j \in 1..3 : i # j =>
        /\ desk[i].number # desk[j].number
        /\ desk[i].left # desk[j].left \/ desk[i].bottom # desk[j].bottom
  BY <1>4, <1>5, <1>7, ThreeDisplays
<1>9. saved = <<>> /\ picked = 0
  BY DEF Displays!Init
<1> QED
  BY <1>7, <1>8, <1>9 DEF DisplaysInv

LEMMA DisplaysKept ==
    ASSUME DisplaysInv, os \in {"mac", "windows"}, Displays!Next \/ UNCHANGED displays
    PROVE  DisplaysInv' /\ os' = os
<1>0. DOMAIN desk = 1..3
  BY DEF DisplaysInv
<1>1. ASSUME NEW i \in DOMAIN desk, Displays!Pick(i) PROVE DisplaysInv' /\ os' = os
  <2>1. /\ saved' = <<Displays!list_monitors[i].info>> /\ picked' = Displays!list_monitors[i].of
        /\ desk' = desk /\ os' = os
    BY <1>1 DEF Displays!Pick, Displays!monitor_identity
  <2>2. PICK k \in 1..3 : /\ Displays!list_monitors[i].info = Identity(desk[k])
                          /\ Displays!list_monitors[i].of = desk[k].number
    BY <1>0, EveryDisplayListed
  <2>3. Identity(desk[k])' = Identity(desk[k])
    BY <2>1 DEF Identity
  <2> QED
    BY <2>1, <2>2, <2>3 DEF DisplaysInv
<1>2. CASE Displays!Relist
  <2>1. PICK perm \in [1..3 -> 1..3] :
          /\ \A i, j \in 1..3 : i # j => perm[i] # perm[j]
          /\ desk' = [i \in 1..3 |-> desk[perm[i]]]
    BY <1>0, <1>2 DEF Displays!Relist
  <2>2. os' = os /\ saved' = saved /\ picked' = picked
    BY <1>2 DEF Displays!Relist
  <2>3. \A k \in 1..3 : \E i \in 1..3 : perm[i] = k
    <3>1. /\ perm[1] \in 1..3 /\ perm[2] \in 1..3 /\ perm[3] \in 1..3
          /\ perm[1] # perm[2] /\ perm[1] # perm[3] /\ perm[2] # perm[3]
      BY <2>1
    <3> QED
      BY <3>1
  <2>4. \A i \in 1..3 : perm[i] \in 1..3 /\ desk'[i] = desk[perm[i]]
    BY <2>1
  <2>5. desk' \in [1..3 -> Screens]
    BY <2>1 DEF DisplaysInv
  <2>6. \A i, j \in 1..3 : i # j =>
          /\ desk'[i].number # desk'[j].number
          /\ desk'[i].left # desk'[j].left \/ desk'[i].bottom # desk'[j].bottom
    BY <2>1, <2>4 DEF DisplaysInv
  <2>7. ASSUME NEW k \in 1..3, picked = desk[k].number, saved = <<Identity(desk[k])>>
        PROVE  \E i \in 1..3 : picked' = desk'[i].number /\ saved' = <<Identity(desk[i])'>>
    <3>1. PICK i \in 1..3 : perm[i] = k
      BY <2>3
    <3>2. desk'[i] = desk[k]
      BY <2>4, <3>1
    <3>3. Identity(desk[i])' = Identity(desk[k])
      BY <2>2, <3>2 DEF Identity, Displays!WinInfo
    <3> QED
      BY <2>2, <2>7, <3>2, <3>3
  <2> QED
    BY <2>2, <2>5, <2>6, <2>7 DEF DisplaysInv
<1>3. CASE UNCHANGED displays
  BY <1>3 DEF displays, DisplaysInv, Identity
<1> QED
  BY <1>1, <1>2, <1>3 DEF Displays!Next
----------------------------------------------------------------------------
(* The desk: the invariant of the part that is explored.                   *)

DeskInv ==
    /\ os \in {"mac", "windows"}
    /\ part = "tap" => TapInv
    /\ part = "window" => PaneInv /\ Window!DesktopInputNeedsAPicture
    /\ part = "placement" => PlaceInv
    /\ part = "displays" => DisplaysInv

LEMMA ModeKept ==
    ASSUME TapInv, Tap!Next \/ UNCHANGED <<mode>>
    PROVE  mode' \in {"off", "passive", "active"}
<1>1. /\ mode \in {"off", "passive", "active"} /\ frame.want \in {"off", "passive", "active"}
  BY DEF TapInv, TapTypes
<1>2. CASE Tap!TapThread
  <2>1. mode' = mode
    BY <1>2 DEF Tap!TapThread, Tap!KeyEvent, Tap!FlagsEvent, Tap!PostPaste, Tap!CallbackBegins,
                Tap!MacCallback, Tap!WinCallback, Tap!CallbackSends, Tap!DispatchCombo
  <2> QED
    BY <1>1, <2>1
<1>3. CASE Tap!UiThread
  BY <1>1, <1>3 DEF Tap!UiThread, Tap!SyncTap, Tap!ModeWanted, Tap!TakeBooks, Tap!SendUps,
                    Tap!DrainTapEvents, Tap!FlipSwap
<1> QED
  BY <1>1, <1>2, <1>3 DEF Tap!Next

LEMMA PlatformKept == ASSUME Window!Next PROVE platform' = platform
BY DEF Window!Next, Window!Frame, Window!TapTells, Window!FetchEnds, Window!FocusMoves,
       Window!FullscreenOutside

LEMMA DeskStarts == DeskInit => DeskInv
<1> SUFFICES ASSUME DeskInit PROVE DeskInv
  OBVIOUS
<1>1. Tap!Init /\ Window!Init /\ Placement!Init /\ Displays!Init
  BY DEF DeskInit
<1>2. os \in {"mac", "windows"}
  BY <1>1 DEF Displays!Init
<1> QED
  BY <1>1, <1>2, TapStarts, PaneStarts, PlaceStarts, DisplaysStart DEF DeskInv

\* What a step does to its own part, and that it leaves the others alone.
LEMMA DeskKept ==
    ASSUME DeskInv, [DeskNext]_deskvars
    PROVE  /\ DeskInv'
           /\ \/ Tap!Lost' \subseteq Tap!Lost
              \/ cb.at # "idle" /\ (cb.late \/ cb.swap # swap)
              \/ swap' # swap
           /\ fullscreen /\ ~fullscreen' /\ capturing /\ tapEvents = <<>> => ~capturing'
           /\ FileKept
<1> DEFINE KeyKept == \/ Tap!Lost' \subseteq Tap!Lost
                      \/ cb.at # "idle" /\ (cb.late \/ cb.swap # swap)
                      \/ swap' # swap
           CaptureKept == fullscreen /\ ~fullscreen' /\ capturing /\ tapEvents = <<>> => ~capturing'
           Good == DeskInv' /\ KeyKept /\ CaptureKept /\ FileKept
<1>1. /\ UNCHANGED <<capture, platform>> => KeyKept
      /\ UNCHANGED windowvars => CaptureKept
      /\ UNCHANGED placement => FileKept
  BY DEF capture, Tap!Lost, Tap!Keys, windowvars, placement, FileKept
<1> HIDE DEF KeyKept, CaptureKept
<1>2. ASSUME part = "tap", part' = part, UNCHANGED <<windowvars, reported, placement, displays>>,
             Tap!Next \/ UNCHANGED <<capture, tap>>
      PROVE  Good
  <2>1. TapInv /\ (Tap!Next \/ UNCHANGED <<platform, capture>>) /\ (Tap!Next \/ UNCHANGED <<mode>>)
    BY <1>2 DEF DeskInv, tap
  <2>2. mode' \in {"off", "passive", "active"}
    BY <2>1, ModeKept
  <2>3. TapInv' /\ KeyKept
    BY <2>1, <2>2, TapKept DEF KeyKept
  <2>4. os' = os
    BY <1>2 DEF displays
  <2> QED
    BY <1>1, <1>2, <2>3, <2>4 DEF DeskInv
<1>3. ASSUME part = "window", part' = part, UNCHANGED <<capture, placement, displays>>,
             Window!Next \/ UNCHANGED <<tap, windowvars, reported>>
      PROVE  Good
  <2>1. PaneInv' /\ Window!DesktopInputNeedsAPicture' /\ CaptureKept
    BY <1>3, PaneKept DEF DeskInv, CaptureKept
  <2>2. platform' = platform
    BY <1>3, PlatformKept DEF tap
  <2>3. os' = os
    BY <1>3 DEF displays
  <2> QED
    BY <1>1, <1>3, <2>1, <2>2, <2>3 DEF DeskInv
<1>4. ASSUME part = "placement", part' = part, UNCHANGED <<capture, tap, windowvars, displays>>,
             Placement!Next \/ UNCHANGED <<reported, placement>>
      PROVE  Good
  <2>1. PlaceInv' /\ FileKept
    BY <1>4, PlaceKept DEF DeskInv
  <2>2. platform' = platform /\ os' = os
    BY <1>4 DEF displays, tap
  <2> QED
    BY <1>1, <1>4, <2>1, <2>2 DEF DeskInv
<1>5. ASSUME part = "displays", part' = part,
             UNCHANGED <<capture, tap, windowvars, reported, placement>>,
             Displays!Next \/ UNCHANGED displays
      PROVE  Good
  <2>1. DisplaysInv' /\ os' = os
    BY <1>5, DisplaysKept DEF DeskInv
  <2>2. platform' = platform
    BY <1>5 DEF tap
  <2> QED
    BY <1>1, <1>5, <2>1, <2>2 DEF DeskInv
<1>6. ASSUME part \notin {"tap", "window", "placement", "displays"}, UNCHANGED deskvars PROVE Good
  BY <1>1, <1>6 DEF deskvars, DeskInv, tap, displays
<1> HIDE DEF Good
<1>7. ASSUME UNCHANGED deskvars PROVE Good
  BY <1>2, <1>3, <1>4, <1>5, <1>6, <1>7 DEF deskvars
<1>8. ASSUME DeskNext PROVE Good
  BY <1>2, <1>3, <1>4, <1>5, <1>8 DEF DeskNext
<1> QED
  BY <1>7, <1>8 DEF Good, KeyKept, CaptureKept

(* Desktop input is captured only under a picture, and the display the     *)
(* user picked is found again in every order of the list.                  *)
THEOREM PictureAndDisplayAreRight == DeskSpec => []ShownWhereItShould
<1>1. DeskInv /\ [DeskNext]_deskvars => DeskInv'
  BY DeskKept
<1>2. DeskInv => ShownWhereItShould
  BY PickedFound DEF DeskInv, ShownWhereItShould
<1> QED
  BY <1>1, <1>2, DeskStarts, PTL DEF DeskSpec

(* A key is lost only to a callback that was late, or to a flip of the     *)
(* swap setting; leaving fullscreen releases the capture; the screen's     *)
(* rectangle reaches the file only after a toggle that came too early; and *)
(* only Save publishes an edit.                                            *)
THEOREM NothingLeaks == DeskSpec => NoStepLeaksState
<1>1. DeskInv /\ [DeskNext]_deskvars => DeskInv'
  BY DeskKept
<1>2. DeskInv /\ [DeskNext]_deskvars =>
        \/ Tap!Lost' \subseteq Tap!Lost
        \/ cb.at # "idle" /\ (cb.late \/ cb.swap # swap)
        \/ swap' # swap
  BY DeskKept
<1>3. DeskInv /\ [DeskNext]_deskvars =>
        (fullscreen /\ ~fullscreen' /\ capturing /\ tapEvents = <<>> => ~capturing')
  BY DeskKept
<1>4. DeskInv /\ [DeskNext]_deskvars =>
        (disk'.geom = "screen" /\ disk.geom # "screen" => astray \/ edit.geom = "screen")
  BY DeskKept DEF FileKept
<1>5. DeskInv /\ [DeskNext]_deskvars =>
        (Placement!load_from(disk').opts # Placement!load_from(disk).opts
           => disk' = edit \/ disk'.is = "broken")
  BY DeskKept DEF FileKept
<1> QED
  BY <1>1, <1>2, <1>3, <1>4, <1>5, DeskStarts, PTL
     DEF DeskSpec, NoStepLeaksState, Tap!OnlyALateCallbackLosesAKey, Window!LeavingFullscreenReleases,
         Placement!ScreenKeptOutOfTheFile, Placement!OnlySavePublishesEdits

(***************************************************************************)
(* The link.                                                               *)
(***************************************************************************)

USE BoundAssumption, NoneAssumption DEF BoundAssumption, Links

Reopening == {"open", "opening", "clone", "drain", "spawn"}

(* Threads exist for the current link only, and for it only between its    *)
(* spawn and its two joins.                                                *)
OneLink ==
    /\ writer[1 - cur] = "none" /\ reader[1 - cur] = "none"
    /\ sup \in Reopening => writer[cur] = "none" /\ reader[cur] = "none"
    /\ sup = "join_reader" => writer[cur] = "none" /\ reader[cur] # "none"
    /\ sup = "join_writer" => writer[cur] # "none" /\ reader[cur] # "none"
    /\ sup \in {"waiting", "lower", "clear"} =>
         (writer[cur] = "none" <=> reader[cur] = "none")

(* A reader on its way out has cleared the cache, one that is gone has     *)
(* closed the gate, too.                                                   *)
CellsFollowReader ==
    /\ reader[cur] \in {"none", "cleared", "done"} => info = None
    /\ reader[cur] \in {"none", "done"} => gate = "down"

OwnerOfReceiver == rx = "writer" <=> writer[cur] # "none"

LinkInv == TypeOK /\ OneLink /\ CellsFollowReader /\ OwnerOfReceiver

(* The inductive invariant gives the properties the runs check. *)
LEMMA LinkInvImplies ==
    LinkInv => NothingStaleWhileReopening /\ GateNeedsReader /\ ReceiverHasOneOwner
BY DEF LinkInv, TypeOK, OneLink, CellsFollowReader, OwnerOfReceiver, Reopening,
       NothingStaleWhileReopening, GateNeedsReader, ReceiverHasOneOwner, ReaderAt, WriterAt

(* The supervisor's steps. *)
LEMMA SupervisorKeeps == LinkInv /\ Supervisor => LinkInv'
<1> SUFFICES ASSUME LinkInv, Supervisor
             PROVE  LinkInv'
  OBVIOUS
<1> USE DEF LinkInv, TypeOK, OneLink, CellsFollowReader, OwnerOfReceiver, Reopening,
            threads, WriterAt, ReaderAt
<1>1. CASE TakeRequest
  BY <1>1 DEF TakeRequest
<1>2. CASE LowerGate
  BY <1>2 DEF LowerGate
<1>3. CASE ClearCache
  BY <1>3 DEF ClearCache
<1>4. CASE JoinWriter
  BY <1>4 DEF JoinWriter
<1>5. CASE JoinReader
  BY <1>5 DEF JoinReader
<1>6. CASE Attempt
  BY <1>6 DEF Attempt
<1>7. CASE OpenFails
  BY <1>7 DEF OpenFails
<1>8. CASE OpenSucceeds
  BY <1>8 DEF OpenSucceeds
<1>9. CASE CloneFails
  BY <1>9 DEF CloneFails
<1>10. CASE CloneSucceeds
  BY <1>10 DEF CloneSucceeds
<1>11. CASE DrainRequests
  BY <1>11 DEF DrainRequests
<1>12. CASE Spawn
  BY <1>12 DEF Spawn
<1> QED
  BY <1>1, <1>2, <1>3, <1>4, <1>5, <1>6, <1>7, <1>8, <1>9, <1>10, <1>11, <1>12 DEF Supervisor

(* The steps of a writer: only the current link has one. *)
LEMMA WriterKeeps ==
    ASSUME LinkInv, NEW l \in Links, Writer(l)
    PROVE  LinkInv'
<1> USE DEF LinkInv, TypeOK, OneLink, CellsFollowReader, OwnerOfReceiver, Reopening,
            threads, WriterAt, ReaderAt, WriterGoes, HelloSent
<1>0. l = cur
  BY DEF Writer, SendHello, WriterTick, SendFails, WriterClosesGate, WriterTellsUi, WriterSeesShutdown
<1>1. CASE SendHello(l)
  BY <1>0, <1>1 DEF SendHello
<1>2. CASE WriterTick(l)
  BY <1>0, <1>2 DEF WriterTick
<1>3. CASE SendFails(l)
  BY <1>0, <1>3 DEF SendFails
<1>4. CASE WriterClosesGate(l)
  BY <1>0, <1>4 DEF WriterClosesGate
<1>5. CASE WriterTellsUi(l)
  BY <1>0, <1>5 DEF WriterTellsUi
<1>6. CASE WriterSeesShutdown(l)
  BY <1>0, <1>6 DEF WriterSeesShutdown
<1> QED
  BY <1>1, <1>2, <1>3, <1>4, <1>5, <1>6 DEF Writer

(* The steps of a reader. *)
LEMMA ReaderKeeps ==
    ASSUME LinkInv, NEW l \in Links, Reader(l)
    PROVE  LinkInv'
<1> USE DEF LinkInv, TypeOK, OneLink, CellsFollowReader, OwnerOfReceiver, Reopening,
            threads, WriterAt, ReaderAt, ReaderGoes
<1>0. l = cur
  BY DEF Reader, DecodeAck, RaiseGate, TellConnected, ReaderGivesUp, ReaderSeesShutdown, ReaderClearsCache, ReaderClosesGate
<1>1. CASE DecodeAck(l)
  BY <1>0, <1>1 DEF DecodeAck
<1>2. CASE RaiseGate(l)
  BY <1>0, <1>2 DEF RaiseGate
<1>3. CASE TellConnected(l)
  BY <1>0, <1>3 DEF TellConnected
<1>4. CASE ReaderGivesUp(l)
  BY <1>0, <1>4 DEF ReaderGivesUp
<1>5. CASE ReaderSeesShutdown(l)
  BY <1>0, <1>5 DEF ReaderSeesShutdown
<1>6. CASE ReaderClearsCache(l)
  BY <1>0, <1>6 DEF ReaderClearsCache
<1>7. CASE ReaderClosesGate(l)
  BY <1>0, <1>7 DEF ReaderClosesGate
<1> QED
  BY <1>1, <1>2, <1>3, <1>4, <1>5, <1>6, <1>7 DEF Reader

(* The inductive invariant holds of every state of every behaviour. *)
LEMMA LinkInvariant == Spec => []LinkInv
<1>1. Init => LinkInv
  BY DEF Init, LinkInv, TypeOK, OneLink, CellsFollowReader, OwnerOfReceiver, Reopening,
         WriterAt, ReaderAt
<1>2. LinkInv /\ [Next]_vars => LinkInv'
  <2> SUFFICES ASSUME LinkInv, [Next]_vars
               PROVE  LinkInv'
    OBVIOUS
  <2>1. CASE Supervisor
    BY <2>1, SupervisorKeeps
  <2>2. CASE UiTakesEvent
    BY <2>2 DEF UiTakesEvent, LinkInv, TypeOK, OneLink, CellsFollowReader, OwnerOfReceiver,
                threads
  <2>3. CASE WireDegrades
    BY <2>3 DEF WireDegrades, LinkInv, TypeOK, OneLink, CellsFollowReader, OwnerOfReceiver,
                threads
  <2>4. ASSUME NEW l \in Links, Writer(l) \/ Reader(l)
        PROVE  LinkInv'
    BY <2>4, WriterKeeps, ReaderKeeps
  <2>5. CASE UNCHANGED vars
    BY <2>5 DEF vars, threads, LinkInv, TypeOK, OneLink, CellsFollowReader, OwnerOfReceiver
  <2> QED
    BY <2>1, <2>2, <2>3, <2>4, <2>5 DEF Next
<1> QED
  BY <1>1, <1>2, PTL DEF Spec

(* No thread of a dead link is left when the transport is reopened, and    *)
(* the gate and the cache are already reset.                               *)
THEOREM NothingStaleIsLeft == Spec => []NothingStaleWhileReopening
BY LinkInvariant, LinkInvImplies, PTL

(* The gate is up only while the current link's reader runs. *)
THEOREM GateFollowsReader == Spec => []GateNeedsReader
BY LinkInvariant, LinkInvImplies, PTL

(* The outgoing channel's receiver is never lost nor held twice. *)
THEOREM ReceiverIsKept == Spec => []ReceiverHasOneOwner
BY LinkInvariant, LinkInvImplies, PTL
----------------------------------------------------------------------------
(* The window and the gate.  A reconnect is due from the moment a thread   *)
(* reports its link lost until the next link is spawned; while none is,    *)
(* both threads are at work, and the last event under way says what the    *)
(* gate says.                                                              *)

LastEvent == IF events = <<>> THEN ui ELSE events[Len(events)]

ReconnectDue ==
    \/ sup # "waiting" \/ requests > 0
    \/ \E i \in 1..Len(events) : events[i] = "Disconnected"

BothAtWork ==
    /\ reader[cur] \in {"loop", "acked", "raised"}
    /\ writer[cur] \in {"hello", "loop", "failing", "failed"}
    /\ shutdown[cur] = "no"

EventsFollowGate ==
    writer[cur] # "failed" =>
      /\ reader[cur] = "loop" => (gate = "up" <=> LastEvent = "Connected")
      /\ reader[cur] = "raised" => gate = "up"

WindowInv ==
    /\ sup \in {"opening", "clone", "drain", "spawn"} => LastEvent = "Reconnecting"
    /\ ReconnectDue \/ (BothAtWork /\ EventsFollowGate)

(* What a step does to the last event and to a reconnect that is due.      *)
LEMMA EventAppended ==
    ASSUME TypeOK, NEW e, events' = Append(events, e)
    PROVE  /\ LastEvent' = e
           /\ e = "Disconnected" => ReconnectDue'
           /\ e # "Disconnected" /\ UNCHANGED <<sup, requests>> => (ReconnectDue' <=> ReconnectDue)
<1> USE DEF TypeOK
<1>1. Len(events') = Len(events) + 1 /\ events'[Len(events) + 1] = e
  OBVIOUS
<1>2. \A i \in 1..Len(events) : events'[i] = events[i]
  OBVIOUS
<1>3. events' # <<>>
  BY <1>1
<1>4. LastEvent' = e
  BY <1>1, <1>3 DEF LastEvent
<1>5. e = "Disconnected" => ReconnectDue'
  BY <1>1 DEF ReconnectDue
<1>6. ASSUME e # "Disconnected", UNCHANGED <<sup, requests>>
      PROVE  ReconnectDue' <=> ReconnectDue
  BY <1>1, <1>2, <1>6 DEF ReconnectDue
<1> QED
  BY <1>4, <1>5, <1>6

LEMMA EventTaken ==
    ASSUME TypeOK, UiTakesEvent
    PROVE  LastEvent' = LastEvent /\ (ReconnectDue => ReconnectDue')
<1> USE DEF TypeOK, UiTakesEvent
<1>1. /\ Len(events) \in Nat \ {0} /\ Len(events') = Len(events) - 1
      /\ \A i \in 1..Len(events) - 1 : events'[i] = events[i + 1]
      /\ Head(events) = events[1]
  OBVIOUS
<1>2. LastEvent' = LastEvent
  <2>1. CASE Len(events) = 1
    BY <1>1, <2>1 DEF LastEvent
  <2>2. CASE Len(events) > 1
    <3>1. Len(events') \in 1..Len(events) - 1 /\ events'[Len(events')] = events[Len(events)]
      BY <1>1, <2>2
    <3>2. events' # <<>> /\ events # <<>>
      BY <3>1, <2>2
    <3> QED
      BY <3>1, <3>2 DEF LastEvent
  <2> QED
    BY <1>1, <2>1, <2>2
<1>3. ASSUME NEW i \in 1..Len(events), events[i] = "Disconnected"
      PROVE  ReconnectDue'
  <2>1. CASE i = 1
    <3>1. requests' = requests + 1
      BY <1>1, <1>3, <2>1
    <3> QED
      BY <3>1 DEF ReconnectDue
  <2>2. CASE i > 1
    <3>1. i - 1 \in 1..Len(events') /\ events'[i - 1] = "Disconnected"
      BY <1>1, <1>3, <2>2
    <3> QED
      BY <3>1 DEF ReconnectDue
  <2> QED
    BY <2>1, <2>2
<1>4. requests' >= requests /\ sup' = sup
  OBVIOUS
<1> QED
  BY <1>2, <1>3, <1>4 DEF ReconnectDue

(* The supervisor's steps: a reconnect stays due until Spawn. *)
LEMMA SupervisorKeepsWindow == LinkInv /\ WindowInv /\ Supervisor => WindowInv'
<1> SUFFICES ASSUME LinkInv, WindowInv, Supervisor
             PROVE  WindowInv'
  OBVIOUS
<1> USE DEF LinkInv, TypeOK, WindowInv
<1>1. CASE TakeRequest \/ LowerGate \/ ClearCache \/ JoinWriter \/ JoinReader \/ OpenFails
  BY <1>1 DEF TakeRequest, LowerGate, ClearCache, JoinWriter, JoinReader, OpenFails, ReconnectDue
<1>2. CASE Attempt
  BY <1>2, EventAppended DEF Attempt, ReconnectDue
<1>3. CASE OpenSucceeds \/ CloneSucceeds \/ DrainRequests
  BY <1>3 DEF OpenSucceeds, CloneSucceeds, DrainRequests, ReconnectDue, LastEvent
<1>4. CASE CloneFails
  BY <1>4, EventAppended DEF CloneFails
<1>5. CASE Spawn
  <2>1. LastEvent' = "Reconnecting" /\ gate' = "down"
    BY <1>5 DEF Spawn, LastEvent, CellsFollowReader, OneLink, Reopening
  <2>2. BothAtWork' /\ EventsFollowGate'
    BY <1>5, <2>1 DEF Spawn, BothAtWork, EventsFollowGate
  <2> QED
    BY <1>5, <2>1, <2>2 DEF Spawn
<1> QED
  BY <1>1, <1>2, <1>3, <1>4, <1>5 DEF Supervisor

(* A writer that fails closes the gate and makes a reconnect due. *)
LEMMA WriterKeepsWindow ==
    ASSUME LinkInv, WindowInv, NEW l \in Links, Writer(l)
    PROVE  WindowInv'
<1> USE DEF LinkInv, TypeOK, WindowInv, WriterGoes
<1>0. l = cur
  BY DEF Writer, SendHello, WriterTick, SendFails, WriterClosesGate, WriterTellsUi,
         WriterSeesShutdown, OneLink
<1>1. CASE SendHello(l) \/ WriterTick(l) \/ SendFails(l) \/ WriterClosesGate(l)
  BY <1>0, <1>1 DEF SendHello, WriterTick, SendFails, WriterClosesGate, threads,
         ReconnectDue, LastEvent, BothAtWork, EventsFollowGate
<1>2. CASE WriterTellsUi(l)
  <2>1. sup' = sup /\ sup \notin {"opening", "clone", "drain", "spawn"}
    BY <1>0, <1>2 DEF WriterTellsUi, OneLink, Reopening
  <2> QED
    BY <1>2, <2>1, EventAppended DEF WriterTellsUi
<1>3. CASE WriterSeesShutdown(l)
  BY <1>0, <1>3 DEF WriterSeesShutdown, ReconnectDue, LastEvent, BothAtWork
<1> QED
  BY <1>1, <1>2, <1>3 DEF Writer

(* A reader raises the gate before it says so, and says it is lost before  *)
(* it closes the gate.                                                     *)
LEMMA ReaderKeepsWindow ==
    ASSUME LinkInv, WindowInv, NEW l \in Links, Reader(l)
    PROVE  WindowInv'
<1> USE DEF LinkInv, TypeOK, WindowInv, ReaderGoes
<1>0. l = cur /\ sup' = sup /\ sup \notin {"opening", "clone", "drain", "spawn"}
  BY DEF Reader, DecodeAck, RaiseGate, TellConnected, ReaderGivesUp, ReaderSeesShutdown,
         ReaderClearsCache, ReaderClosesGate, OneLink, Reopening
<1>1. CASE DecodeAck(l) \/ RaiseGate(l)
  BY <1>0, <1>1 DEF DecodeAck, RaiseGate, ReconnectDue, LastEvent, BothAtWork, EventsFollowGate
<1>2. CASE TellConnected(l)
  BY <1>0, <1>2, EventAppended DEF TellConnected, BothAtWork, EventsFollowGate
<1>3. CASE ReaderGivesUp(l)
  BY <1>0, <1>3, EventAppended DEF ReaderGivesUp
<1>4. CASE ReaderSeesShutdown(l) \/ ReaderClearsCache(l) \/ ReaderClosesGate(l)
  BY <1>0, <1>4 DEF ReaderSeesShutdown, ReaderClearsCache, ReaderClosesGate, ReconnectDue,
         LastEvent, BothAtWork
<1> QED
  BY <1>1, <1>2, <1>3, <1>4 DEF Reader

(* While no reconnect is due the link works and the events agree with it.  *)
LEMMA WindowInvariant == Spec => []WindowInv
<1>1. Init => WindowInv
  BY DEF Init, WindowInv, ReconnectDue
<1>2. LinkInv /\ WindowInv /\ [Next]_vars => WindowInv'
  <2> SUFFICES ASSUME LinkInv, WindowInv, [Next]_vars
               PROVE  WindowInv'
    OBVIOUS
  <2>1. CASE Supervisor
    BY <2>1, SupervisorKeepsWindow
  <2>2. CASE UiTakesEvent
    BY <2>2, EventTaken DEF LinkInv, WindowInv, UiTakesEvent, threads, BothAtWork, EventsFollowGate
  <2>3. CASE WireDegrades
    BY <2>3 DEF WireDegrades, WindowInv, threads, ReconnectDue, LastEvent, BothAtWork, EventsFollowGate
  <2>4. ASSUME NEW l \in Links, Writer(l) \/ Reader(l)
        PROVE  WindowInv'
    BY <2>4, WriterKeepsWindow, ReaderKeepsWindow
  <2>5. CASE UNCHANGED vars
    BY <2>5 DEF vars, threads, WindowInv, ReconnectDue, LastEvent, BothAtWork, EventsFollowGate
  <2> QED
    BY <2>1, <2>2, <2>3, <2>4, <2>5 DEF Next
<1> QED
  BY <1>1, <1>2, LinkInvariant, PTL DEF Spec

(* The gate speaks for a reader that runs, and once nothing is under way   *)
(* the window shows what the gate says: no order of late Connected and     *)
(* duplicate Disconnected events leaves the two apart.                     *)
THEOREM GateAndWindowAreTrue == Spec => []GateIsTrue
<1>1. LinkInv /\ WindowInv => GateIsTrue
  <2> SUFFICES ASSUME LinkInv, WindowInv, AtRest
               PROVE  ui = "Connected" <=> gate = "up"
    BY LinkInvImplies DEF GateIsTrue, UiAgreesWithGate
  <2>1. ~ReconnectDue /\ LastEvent = ui
    BY DEF AtRest, ReconnectDue, LastEvent, LinkInv, TypeOK
  <2> QED
    BY <2>1 DEF WindowInv, BothAtWork, EventsFollowGate, AtRest
<1> QED
  BY <1>1, LinkInvariant, WindowInvariant, PTL
=============================================================================
