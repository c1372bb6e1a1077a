------------------------------ MODULE Monitors ------------------------------
(***************************************************************************)
(* The display the client goes fullscreen on, monitor.rs: the system's     *)
(* list of displays, which comes in no order to rely on, converted to one  *)
(* coordinate system, and the preferred display saved by what identifies   *)
(* it.                                                                     *)
(***************************************************************************)
EXTENDS Integers, Sequences, SequencesExt, FiniteSets

CONSTANT Places    \* bound: where a display other than the primary may stand

(* A display as it stands on the desk: left and bottom edge, size, scale,  *)
(* and the number of the Windows adapter it hangs on.  Both displays are   *)
(* of one model.                                                           *)
VARIABLES
    os,       \* "mac" or "windows"
    desk,     \* the displays, in the order the system lists them
    saved,    \* preferred_monitor: <<>> or an identity
    picked    \* the display the user picked, 0 for none

vars == <<os, desk, saved, picked>>

Primary(scale) == [left |-> 0, bottom |-> 0, size |-> 2, scale |-> scale, number |-> 1]

Second(p, n, scale) == [left |-> p[1], bottom |-> p[2], size |-> 2, scale |-> scale, number |-> n]

Apart(p, q) == p[1] - q[1] \notin -1..1 \/ p[2] - q[2] \notin -1..1

Init ==
    /\ os \in {"mac", "windows"}
    /\ \E p, q \in Places, s, t \in {1, 2} :
         /\ Apart(p, q) /\ Apart(p, <<0, 0>>) /\ Apart(q, <<0, 0>>)
         /\ os = "mac" => s = 1 /\ t = 1
         /\ desk = <<Primary(s), Second(p, 2, s), Second(q, 3, t)>>
    /\ saved = <<>> /\ picked = 0

----------------------------------------------------------------------------
(* From the bottom-left of AppKit, or the top-left of Win32, to the        *)
(* top-left of winit.                                                      *)
flip_nsscreen_y(y, height, primary_height) == primary_height - (y + height)

MacInfo(m, primary) ==
    [name |-> 0, size |-> m.size, x |-> m.left,
     y |-> flip_nsscreen_y(m.bottom, m.size, primary.size)]

(* compose_monitor_name keeps the adapter's number; the frame is divided   *)
(* by the display's own scale.                                             *)
WinInfo(m) ==
    [name |-> m.number, size |-> m.size \div m.scale,
     x |-> m.left \div m.scale, y |-> -(m.bottom + m.size) \div m.scale]

(* order_monitors sorts: primary first, then from the top, then from the    *)
(* left.  No two displays are alike in this, so one arrangement is sorted.  *)
Before(a, b) ==
    \/ a.number = 1 /\ b.number # 1
    \/ /\ (a.number = 1) = (b.number = 1)
       /\ \/ a.bottom + a.size > b.bottom + b.size
          \/ a.bottom + a.size = b.bottom + b.size /\ a.left < b.left

order_monitors(raw) ==
    CHOOSE sorted \in [DOMAIN raw -> ToSet(raw)] :
        \A i, j \in DOMAIN raw : i < j => Before(sorted[i], sorted[j])

(* list_monitors, each with the display it stands for. *)
list_monitors ==
    IF os = "mac"
      THEN [i \in DOMAIN desk |-> [info |-> MacInfo(desk[i], desk[1]), of |-> desk[i].number]]
      ELSE LET sorted == order_monitors(desk)
           IN  [i \in DOMAIN desk |-> [info |-> WinInfo(sorted[i]), of |-> sorted[i].number]]

LabelOnly(info) == [name |-> info.name, size |-> info.size]

monitor_identity(info) == info

(* resolve_target_monitor: the first with the saved identity, 0 for the    *)
(* display the window is on.                                               *)
resolve_target_monitor ==
    LET list == list_monitors
        same == {i \in DOMAIN list : <<monitor_identity(list[i].info)>> = saved}
    IN  IF same = {} THEN 0
        ELSE list[CHOOSE i \in same : \A j \in same : i <= j].of

----------------------------------------------------------------------------
(* Settings: the user picks an entry of the list. *)
Pick(i) ==
    /\ saved' = <<monitor_identity(list_monitors[i].info)>>
    /\ picked' = list_monitors[i].of
    /\ UNCHANGED <<os, desk>>

(* A reboot or a dock lists the displays in another order; AppKit keeps    *)
(* the primary first.                                                      *)
Relist ==
    /\ \E perm \in {f \in [DOMAIN desk -> DOMAIN desk] :
                      \A i, j \in DOMAIN desk : i # j => f[i] # f[j]} :
         /\ os = "mac" => perm[1] = 1
         /\ desk' = [i \in DOMAIN desk |-> desk[perm[i]]]
    /\ UNCHANGED <<os, saved, picked>>

Next == (\E i \in DOMAIN desk : Pick(i)) \/ Relist

Spec == Init /\ [][Next]_vars

----------------------------------------------------------------------------
(* The display the user picked is the one the window goes to, identical    *)
(* displays and other orders of enumeration included.                      *)
PickedIsFound == resolve_target_monitor = picked
=============================================================================
