----------------------------- MODULE Utf8Stream -----------------------------
(***************************************************************************)
(* utf8_stream.rs: a command's output decoded chunk by chunk, holding back *)
(* a character that is not complete yet.  A byte is 0 for a one-byte       *)
(* character, 2 or 3 for the first byte of a character of so many bytes,   *)
(* and 1 for a byte that continues one.                                    *)
(***************************************************************************)
EXTENDS Naturals, Sequences, SequencesExt

Replacement == 4   \* U+FFFD

Width(b) == IF b = 0 THEN 1 ELSE b

(* How many bytes of s, from position i, belong to the character begun     *)
(* there: its first byte and the continuations that follow it.             *)
Begun(s, i) ==
    IF s[i] = 1 THEN 0
    ELSE LET fits == {n \in 1..Width(s[i]) :
                        i + n - 1 <= Len(s) /\ \A k \in i + 1..i + n - 1 : s[k] = 1}
         IN  CHOOSE n \in fits : \A m \in fits : m <= n

(* Utf8Error::valid_up_to: the bytes of the complete characters at the     *)
(* front.                                                                  *)
ValidUpTo(s) ==
    LET upto[n \in 0..Len(s)] ==
          IF n = Len(s) THEN n
          ELSE IF s[n + 1] # 1 /\ Begun(s, n + 1) = Width(s[n + 1])
                 THEN upto[n + Width(s[n + 1])] ELSE n
    IN  upto[0]

EveryErrorBad(s, valid) == 1

(* Utf8Error::error_len, 0 for None: the input stops inside a character. *)
ErrorLen(s, valid) ==
    CASE s[valid + 1] = 1 -> 1
      [] valid + Begun(s, valid + 1) = Len(s) -> 0
      [] OTHER -> Begun(s, valid + 1)

(* decode: good text, a replacement for what can be no character, and the  *)
(* tail of one that may still be completed.                                *)
decode(rest) ==
    LET from[n \in 0..Len(rest)] ==
          LET text  == SubSeq(rest, n + 1, Len(rest))
              valid == ValidUpTo(text)
              good  == SubSeq(text, 1, valid)
          IN  IF valid = Len(text) THEN [out |-> good, tail |-> <<>>]
              ELSE LET bad == ErrorLen(text, valid) IN
                   IF bad = 0 THEN [out |-> good, tail |-> SubSeq(text, valid + 1, Len(text))]
                   ELSE [from[n + valid + bad] EXCEPT !.out = Append(good, Replacement) \o @]
    IN  from[0]

push(tail, chunk) == decode(tail \o chunk)

(* finish: a character still unfinished becomes one replacement. *)
finish(tail) == IF tail = <<>> THEN <<>> ELSE <<Replacement>>

----------------------------------------------------------------------------
(* The reference, String::from_utf8_lossy of the whole text, byte by byte: *)
(* a character is put out when it is complete, and whatever it held when   *)
(* another byte comes too early, or none comes, is one replacement.        *)
Lossy(d, b) ==
    LET held == Append(d.held, b) IN
    CASE b = 1 /\ d.held # <<>> ->
           IF Len(held) = Width(held[1]) THEN [out |-> d.out \o held, held |-> <<>>]
           ELSE [d EXCEPT !.held = held]
      [] b = 1 /\ d.held = <<>> -> [d EXCEPT !.out = Append(@, Replacement)]
      [] OTHER ->
           LET out == d.out \o finish(d.held)
           IN  IF b = 0 THEN [out |-> Append(out, b), held |-> <<>>]
               ELSE [out |-> out, held |-> <<b>>]

from_utf8_lossy(s) ==
    LET d == FoldLeft(Lossy, [out |-> <<>>, held |-> <<>>], s) IN d.out \o finish(d.held)

(* Wherever a text is cut in two, or in three, it decodes as it would in   *)
(* one piece: no character on a seam is lost or damaged, and invalid bytes *)
(* are replaced the same.                                                  *)
SeamsDoNotShow(s) ==
    \A i \in 0..Len(s), j \in 0..Len(s) :
       i <= j =>
         LET first  == push(<<>>, SubSeq(s, 1, i))
             second == push(first.tail, SubSeq(s, i + 1, j))
             third  == push(second.tail, SubSeq(s, j + 1, Len(s)))
         IN  /\ first.out \o second.out \o third.out \o finish(third.tail) = from_utf8_lossy(s)
             /\ Len(first.tail) <= 3 /\ Len(second.tail) <= 3
=============================================================================
