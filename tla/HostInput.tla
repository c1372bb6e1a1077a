------------------------------ MODULE HostInput ------------------------------
(***************************************************************************)
(* What reaches the Windows desktop: the session's WindowsInjector         *)
(* (injector.rs), and the desktop requests of the browser stream           *)
(* (desktop.rs), each a batch for one SendInput, serialised among          *)
(* themselves and not with the session.                                    *)
(***************************************************************************)
EXTENDS Naturals, Sequences, SequencesExt

CONSTANTS
    Modifiers,    \* the keys a batch may hold around another key
    Keys,         \* the other keys
    Buttons,      \* the buttons of a click; a drag uses LeftButton
    LeftButton,
    ReleasedKeys  \* what release_all lets go of

Inputs == Modifiers \cup Keys \cup Buttons

(* An event of a batch: an input going down or up, or anything else. *)
Event == ({"down", "up"} \X Inputs) \cup {<<"move">>}

VARIABLES
    down,     \* what is pressed on the desktop
    session,  \* what the session has pressed and not released
    batch,    \* the batch being injected, <<>> for none
    rest,     \* the part of it SendInput has refused: <<>>, or the ups to send
    stuck,    \* history: what a release that was refused too left pressed
    handles,  \* GDI handles of the capture that runs
    stage     \* where the capture is

vars == <<down, session, batch, rest, stuck, handles, stage>>

Init ==
    /\ down = {} /\ session = {} /\ batch = <<>> /\ rest = <<>> /\ stuck = {}
    /\ handles = {} /\ stage = "idle"

Gdi == <<handles, stage>>

----------------------------------------------------------------------------
(* The session. *)
Press(i) ==
    /\ down' = down \cup {i}
    /\ session' = session \cup {i}
    /\ UNCHANGED <<batch, rest, stuck, Gdi>>

Release(i) ==
    /\ down' = down \ {i}
    /\ session' = session \ {i}
    /\ stuck' = stuck \ {i}
    /\ UNCHANGED <<batch, rest, Gdi>>

release_all ==
    /\ down' = down \ ReleasedKeys
    /\ session' = session \ ReleasedKeys
    /\ stuck' = stuck \ ReleasedKeys
    /\ UNCHANGED <<batch, rest, Gdi>>

----------------------------------------------------------------------------
(* The batches of the actions. *)
Click(b) == <<<<"move">>, <<"down", b>>, <<"up", b>>>>

Drag == <<<<"move">>, <<"down", LeftButton>>, <<"move">>, <<"up", LeftButton>>>>

Wheel == <<<<"move">>, <<"move">>>>

(* The modifiers of the mask around the key, let go in reverse order; a    *)
(* text is a run of keys without modifiers.                                *)
Key(k, mods) ==
    LET held == SetToSeq(mods)
    IN  [i \in DOMAIN held |-> <<"down", held[i]>>]
        \o <<<<"down", k>>, <<"up", k>>>>
        \o [i \in DOMAIN held |-> <<"up", Reverse(held)[i]>>]

Batches == {Click(b) : b \in Buttons} \cup {Drag, Wheel}
           \cup {Key(k, mods) : k \in Keys, mods \in SUBSET Modifiers}

(* What a run of accepted events leaves pressed. *)
After(pressed, events) ==
    FoldLeft(LAMBDA s, e : IF e[1] = "down" THEN s \cup {e[2]}
                           ELSE IF e[1] = "up" THEN s \ {e[2]} ELSE s,
             pressed, events)

(* The events that let go of something, in their order. *)
KeyUps(events) ==
    FoldLeft(LAMBDA s, e : IF e[1] = "up" /\ e[2] \notin Buttons THEN Append(s, e) ELSE s,
             <<>>, events)

Ups(events) ==
    FoldLeft(LAMBDA s, e : IF e[1] = "up" THEN Append(s, e) ELSE s, <<>>, events)

Serve(b) ==
    /\ batch = <<>> /\ stage = "idle"
    /\ batch' = b
    /\ UNCHANGED <<down, session, rest, stuck, Gdi>>

(* SendInput takes a prefix; when it is not the whole batch, the ups of    *)
(* the batch are sent in a second call.                                    *)
inject(n) ==
    /\ batch # <<>> /\ rest = <<>>
    /\ down' = After(down, SubSeq(batch, 1, n))
    /\ IF n = Len(batch)
         THEN batch' = <<>> /\ rest' = <<>>
         ELSE batch' = batch /\ rest' = <<Ups(batch), SubSeq(batch, 1, n)>>
    /\ UNCHANGED <<session, stuck, Gdi>>

LetGo(m) ==
    /\ rest # <<>>
    /\ down' = After(down, SubSeq(rest[1], 1, m))
    /\ stuck' = IF m = Len(rest[1]) THEN stuck
                ELSE stuck \cup After({}, rest[2] \o SubSeq(rest[1], 1, m))
    /\ batch' = <<>> /\ rest' = <<>>
    /\ UNCHANGED <<session, Gdi>>

----------------------------------------------------------------------------
(* capture: every call may fail. *)
Input == <<down, session, batch, rest, stuck>>

Frame ==
    /\ batch = <<>> /\ stage = "idle"
    /\ stage' = "desktop"
    /\ UNCHANGED <<handles, Input>>

GetDC ==
    /\ stage = "desktop"
    /\ \/ handles' = {"desktop"} /\ stage' = "memory"
       \/ UNCHANGED handles /\ stage' = "idle"
    /\ UNCHANGED Input

CreateCompatibleDC ==
    /\ stage = "memory"
    /\ \/ handles' = handles \cup {"memory"} /\ stage' = "bitmap"
       \/ handles' = handles \ {"desktop"} /\ stage' = "idle"
    /\ UNCHANGED Input

(* (mutant) *)
BitmapFailed == handles \ {"desktop"}

BitmapRefused == handles \ {"memory", "desktop"}

CreateCompatibleBitmap ==
    /\ stage = "bitmap"
    /\ \/ handles' = handles \cup {"bitmap"} /\ stage' = "select"
       \/ handles' = BitmapRefused /\ stage' = "idle"
    /\ UNCHANGED Input

(* The bitmap is selected; copying, putting the old one back, reading,     *)
(* encoding and the size limit: each may end it.                           *)
StretchBlt ==
    /\ stage = "select"
    /\ stage' = "delete"
    /\ UNCHANGED <<handles, Input>>

DeleteAll ==
    /\ stage = "delete"
    /\ handles' = handles \ {"bitmap", "memory", "desktop"}
    /\ stage' = "idle"
    /\ UNCHANGED Input

Next ==
    \/ \E i \in Inputs : Press(i) \/ Release(i)
    \/ release_all
    \/ \E b \in Batches : Serve(b)
    \/ \E n \in 0..Len(batch) : inject(n)
    \/ \E m \in 0..(IF rest = <<>> THEN 0 ELSE Len(rest[1])) : LetGo(m)
    \/ Frame \/ GetDC \/ CreateCompatibleDC \/ CreateCompatibleBitmap
    \/ StretchBlt \/ DeleteAll

Spec == Init /\ [][Next]_vars

----------------------------------------------------------------------------
(* A batch that SendInput cut short leaves nothing pressed that the        *)
(* session is not holding, unless its release was refused as well.         *)
BatchLetsGo == batch = <<>> => down \subseteq session \cup stuck

(* A capture gives every GDI handle back, wherever it failed. *)
HandlesReturned == stage = "idle" => handles = {}
=============================================================================
