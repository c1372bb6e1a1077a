------------------------------ MODULE ClipFile ------------------------------
(***************************************************************************)
(* The file of a clipboard transfer, clip_file.rs: the header that carries *)
(* its name in front of the content, and sanitize_basename, which makes a  *)
(* peer's name into a name of the cache directory.                         *)
(*                                                                         *)
(* A name is a sequence of characters of the kinds the code tells apart:   *)
(* "a" letter, "/" either slash, ":", ".", " ", "*" any other character    *)
(* Windows refuses, "_", and "CON", the letters of a reserved device name. *)
(***************************************************************************)
EXTENDS Naturals, Sequences, SequencesExt, FiniteSets

CONSTANT
    MaxName    \* MAX_FILENAME_LEN

ASSUME ClipFileAssumption == MaxName \in Nat

Fallback == <<"a", ".", "a">>   \* FALLBACK_BASENAME

(* pack_first_chunk: the length of the name, the name, the content. *)
pack_first_chunk(name, content) ==
    IF name = <<>> \/ Len(name) > MaxName THEN [ok |-> FALSE, bytes |-> <<>>]
    ELSE [ok |-> TRUE, bytes |-> <<Len(name)>> \o name \o content]

TrustsTheLength(payload) ==
    [ok |-> payload # <<>> /\ payload[1] <= MaxName,
     name |-> SubSeq(payload, 2, 1 + payload[1]),
     content |-> SubSeq(payload, 2 + payload[1], Len(payload))]

(* unpack_first_chunk: too short, too long a name, or shorter than its     *)
(* name; an empty name is read.                                            *)
unpack_first_chunk(payload) ==
    LET ok == payload # <<>> /\ payload[1] <= MaxName /\ Len(payload) >= 1 + payload[1]
    IN  [ok |-> ok,
         name |-> IF ok THEN SubSeq(payload, 2, 1 + payload[1]) ELSE <<>>,
         content |-> IF ok THEN SubSeq(payload, 2 + payload[1], Len(payload)) ELSE <<>>]

----------------------------------------------------------------------------
strip_drive_letter(s) ==
    IF Len(s) >= 2 /\ s[1] = "a" /\ s[2] = ":" THEN SubSeq(s, 3, Len(s)) ELSE s

(* The pieces between slashes, as first and last position. *)
Segments(s) ==
    LET cuts == {0, Len(s) + 1} \union {i \in DOMAIN s : s[i] = "/"}
        next == {p \in cuts \X cuts : p[1] < p[2] /\ \A k \in cuts : ~(p[1] < k /\ k < p[2])}
    IN  {<<p[1] + 1, p[2] - 1>> : p \in next}

(* The last piece that is neither empty nor "..". *)
LastSegment(s) ==
    LET real == {g \in Segments(s) :
                   g[1] <= g[2] /\ SubSeq(s, g[1], g[2]) # <<".", ".">>}
    IN  IF real = {} THEN <<>>
        ELSE LET g == CHOOSE g \in real : \A h \in real : h[1] <= g[1]
             IN  SubSeq(s, g[1], g[2])

(* Colons and blanks are dropped in front, blanks at the end. *)
Trimmed(s) ==
    LET kept == {i \in DOMAIN s : s[i] \notin {":", " "}}
        full == {i \in DOMAIN s : s[i] # " "}
    IN  IF kept = {} THEN <<>>
        ELSE SubSeq(s, CHOOSE i \in kept : \A j \in kept : i <= j,
                       CHOOSE i \in full : \A j \in full : j <= i)

Escaped(s) == [i \in DOMAIN s |-> IF s[i] \in {":", "*"} THEN "_" ELSE s[i]]

Stem(s) ==
    LET dots == {i \in DOMAIN s : s[i] = "."}
    IN  IF dots = {} THEN s
        ELSE SubSeq(s, 1, (CHOOSE i \in dots : \A j \in dots : i <= j) - 1)

ReservedNotPrefixed(s) == s

(* A reserved device name gets an underscore in front. *)
Prefixed(s) == IF Stem(s) = <<"CON">> THEN <<"_">> \o s ELSE s

sanitize_basename(raw) ==
    LET name == Trimmed(LastSegment(strip_drive_letter(raw)))
    IN  IF name = <<>> THEN Fallback ELSE Prefixed(Escaped(name))

----------------------------------------------------------------------------
(* A file arrives with its name and content, and a header cut short or     *)
(* made up is refused, never read past its end.                            *)
FileArrives(name, content) ==
    LET packed == pack_first_chunk(name, content)
    IN  packed.ok =>
          /\ unpack_first_chunk(packed.bytes) = [ok |-> TRUE, name |-> name, content |-> content]
          /\ \A n \in 0..Len(name) : ~unpack_first_chunk(SubSeq(packed.bytes, 1, n)).ok

(* Whatever a peer calls its file, the name it is written under is one     *)
(* both systems take: something, with no directory in it, no character     *)
(* Windows refuses and no device's name.                                   *)
NameIsUsable(raw) ==
    LET name == sanitize_basename(raw)
    IN  /\ name # <<>>
        /\ \A i \in DOMAIN name : name[i] \notin {"/", ":", "*"}
        /\ Stem(name) # <<"CON">>
=============================================================================
