----------------------------- MODULE PortChoice -----------------------------
(***************************************************************************)
(* Which serial port is opened.  detect.rs lists and classifies the ports; *)
(* the host's Settings window offers them in a dropdown beside a text      *)
(* field (Windows), and wd picks one at start (resolve.rs, macOS, where    *)
(* every adapter is listed twice).                                         *)
(***************************************************************************)
EXTENDS Naturals, Sequences, SequencesExt

CONSTANTS
    Sockets,      \* the places an adapter can be plugged in
    MaxAdapters   \* bound: adapters at a time

Kinds == {"Ch34x", "Ftdi", "OtherUsb", "NonUsb"}

None == <<>>

VARIABLES
    os,        \* "windows": the host's Settings; "mac": wd
    plugged,   \* the adapters, [at, kind], in the system's order
    choices,   \* what the dropdown shows, the ports its labels name
    coms,      \* port_choice_coms
    selected,  \* the dropdown's selection, 0 for none
    field,     \* port_input
    port,      \* the port of the config file, None where it names none
    chosen,    \* history: the port the user last picked, typed or was told
    missed,    \* history: a pick fell into a status update
    opened     \* wd's last start: the port, where it came from, what was there

vars == <<os, plugged, choices, coms, selected, field, port, chosen, missed, opened>>

----------------------------------------------------------------------------
is_target(kind) == kind \in {"Ch34x", "Ftdi"}

(* available_ports, classified: on macOS a callout and a dialin device for *)
(* every adapter.                                                          *)
Named(how, adapter) == [name |-> <<how, adapter.at>>, kind |-> adapter.kind]

classify_ports ==
    IF os = "windows"
      THEN [i \in DOMAIN plugged |-> Named("com", plugged[i])]
      ELSE FlattenSeq([i \in DOMAIN plugged |->
                         <<Named("cu", plugged[i]), Named("tty", plugged[i])>>])

Targets(ports) == SelectSeq(ports, LAMBDA p : is_target(p.kind))

Names(ports) == [i \in DOMAIN ports |-> ports[i].name]

IndexOf(ports, name) ==
    IF \E i \in DOMAIN ports : ports[i].name = name
      THEN CHOOSE i \in DOMAIN ports : ports[i].name = name
      ELSE 0

----------------------------------------------------------------------------
Init ==
    /\ os \in {"windows", "mac"}
    /\ plugged = <<>> /\ choices = <<>> /\ coms = <<>> /\ selected = 0
    /\ \E p \in {None} \cup ({IF os = "windows" THEN "com" ELSE "cu"} \X Sockets) :
         field = p /\ port = p /\ chosen = p
    /\ os = "windows" => port # None
    /\ missed = FALSE /\ opened = None

Dialog == <<choices, coms, selected, field, chosen, missed>>

Plug(at, kind) ==
    /\ Len(plugged) < MaxAdapters
    /\ \A i \in DOMAIN plugged : plugged[i].at # at
    /\ plugged' = Append(plugged, [at |-> at, kind |-> kind])
    /\ UNCHANGED <<os, port, opened, Dialog>>

Unplug(i) ==
    /\ plugged' = RemoveAt(plugged, i)
    /\ UNCHANGED <<os, port, opened, Dialog>>

(* (mutant) the list changes and the names behind it do not *)
LabelsOnly(ports, select) ==
    /\ choices' = Names(ports)
    /\ selected' = select
    /\ UNCHANGED coms

set_port_choices(ports, select) ==
    /\ choices' = Names(ports)
    /\ selected' = select
    /\ coms' = Names(ports)

(* show: refresh_port_choices; an enumeration that fails leaves the list. *)
show ==
    /\ os = "windows"
    /\ \/ set_port_choices(classify_ports, IndexOf(classify_ports, field))
       \/ UNCHANGED <<choices, coms, selected>>
    /\ UNCHANGED <<os, plugged, field, port, chosen, missed, opened>>

(* Detect: the first target adapter into list and field, if there is one. *)
handle_detect ==
    /\ os = "windows"
    /\ LET ports == classify_ports
           found == Targets(ports)
       IN  IF found = <<>>
             THEN set_port_choices(ports, 0) /\ UNCHANGED <<field, chosen, missed>>
             ELSE /\ set_port_choices(ports, IndexOf(ports, found[1].name))
                  /\ field' = found[1].name
                  /\ chosen' = found[1].name
                  /\ missed' = FALSE
    /\ UNCHANGED <<os, plugged, port, opened>>

(* A pick from the dropdown, copied into the field; during a status update *)
(* the window is borrowed and the event is dropped.                        *)
selected_port_com(i) == IF i \in DOMAIN coms THEN coms[i] ELSE field

PickFromList(i) ==
    /\ os = "windows"
    /\ selected' = i
    /\ \/ field' = selected_port_com(i) /\ missed' = FALSE
       \/ field' = field /\ missed' = TRUE
    /\ chosen' = choices[i]
    /\ UNCHANGED <<os, plugged, choices, coms, port, opened>>

Type(p) ==
    /\ os = "windows"
    /\ field' = p /\ chosen' = p /\ missed' = FALSE
    /\ UNCHANGED <<os, plugged, choices, coms, selected, port, opened>>

(* read_form and save: an empty port is refused. *)
read_form ==
    /\ os = "windows" /\ field # None
    /\ port' = field
    /\ UNCHANGED <<os, plugged, opened, Dialog>>

----------------------------------------------------------------------------
NotDeduped(names) == names

dedupe_tty_variants(names) == SelectSeq(names, LAMBDA n : n[1] # "tty")

detect_target_ports == dedupe_tty_variants(Names(Targets(classify_ports)))

resolve_port(cli, detected, toml, fallback) ==
    IF cli # None THEN [port |-> cli, source |-> "Cli"]
    ELSE IF Len(detected) = 1 THEN [port |-> detected[1], source |-> "AutoDetected"]
    ELSE IF toml # None THEN [port |-> toml, source |-> "ConfigToml"]
    ELSE [port |-> fallback, source |-> "Fallback"]

(* wd starts; the file may not parse, the enumeration may fail. *)
wd(cli, parses, lists) ==
    /\ os = "mac"
    /\ \E fallback \in {<<"cu", CHOOSE s \in Sockets : TRUE>>} :
         opened' = <<resolve_port(cli,
                                  IF lists THEN detect_target_ports ELSE <<>>,
                                  IF parses THEN port ELSE None, fallback),
                     IF lists THEN plugged ELSE <<>>>>
    /\ UNCHANGED <<os, plugged, port, Dialog>>

Next ==
    \/ \E s \in Sockets, k \in Kinds : Plug(s, k)
    \/ \E i \in DOMAIN plugged : Unplug(i)
    \/ show
    \/ handle_detect
    \/ \E i \in DOMAIN choices : PickFromList(i)
    \/ \E p \in {None} \cup ({"com"} \X Sockets) : Type(p)
    \/ read_form
    \/ \E cli \in {None} \cup ({"cu"} \X Sockets), parses, lists \in BOOLEAN :
         wd(cli, parses, lists)

Spec == Init /\ [][Next]_vars

----------------------------------------------------------------------------
(* What Save will write is what the user last picked, typed or was told by *)
(* Detect, however the adapters and the list changed in between; the one   *)
(* exception is a pick made during a status update.                        *)
FieldIsTheChoice == ~missed => field = chosen

(* wd without --port opens the only target adapter that is plugged in,     *)
(* whatever the file says, and between two it never takes one by itself.   *)
TheOnlyAdapterIsOpened ==
    opened # None =>
      LET there == SelectSeq(opened[2], LAMBDA a : is_target(a.kind))
          how   == opened[1]
      IN  /\ how.source = "AutoDetected" <=> how.source # "Cli" /\ Len(there) = 1
          /\ how.source = "AutoDetected" => how.port = <<"cu", there[1].at>>
=============================================================================
