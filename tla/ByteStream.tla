----------------------------- MODULE ByteStream -----------------------------
(***************************************************************************)
(* What a browser stream promises the two programs it connects: in each    *)
(* direction the bytes put in come out once and in order, the end of the   *)
(* input is only announced after the last byte, and the stream may break   *)
(* off at any moment without ever delivering anything wrong.  The bytes of *)
(* a direction are numbered from 1.                                        *)
(***************************************************************************)
EXTENDS Naturals, Sequences

CONSTANTS
    End,                \* the two ends of the stream
    Most                \* the longest piece a program hands over at once

VARIABLES
    taken,              \* taken[e]: how many bytes were read from e's program
    given,              \* given[e]: the bytes handed to e's program, in order
    told                \* told[e]: e's program has seen the end of the stream

streamVars == <<taken, given, told>>

Init ==
    /\ taken = [e \in End |-> 0]
    /\ given = [e \in End |-> <<>>]
    /\ told = [e \in End |-> "open"]

\* More bytes are accepted from e's program.
Take(e) ==
    /\ taken' \in {[taken EXCEPT ![e] = n] : n \in taken[e] + 1 .. taken[e] + Most}
    /\ UNCHANGED <<given, told>>

\* The next bytes the other end's program has put in reach e's program.
Give(e, from) ==
    /\ told[e] = "open"
    /\ \E n \in Len(given[e]) + 1 .. taken[from] : given' = [given EXCEPT ![e] = [i \in 1..n |-> i]]
    /\ UNCHANGED <<taken, told>>

\* e's program learns that no more bytes come: only when none is missing.
Tell(e, from) ==
    /\ told[e] = "open"
    /\ Len(given[e]) = taken[from]
    /\ told' = [told EXCEPT ![e] = "eof"]
    /\ UNCHANGED <<taken, given>>

Next == \E e \in End : \/ Take(e)
                        \/ \E from \in End \ {e} : Give(e, from) \/ Tell(e, from)

Spec == Init /\ [][Next]_streamVars
=============================================================================
