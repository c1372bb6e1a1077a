------------------------------- MODULE Cobs -------------------------------
(***************************************************************************)
(* Consistent Overhead Byte Stuffing as cobs.rs does it: the encoder and   *)
(* the decoder as folds over the bytes, with the largest code (0xFF in the *)
(* code) as a parameter so that full blocks happen on short inputs.        *)
(***************************************************************************)
EXTENDS Naturals, Sequences, SequencesExt

CONSTANT MaxCode  \* 0xFF

ASSUME MaxCodeAssumption == MaxCode \in Nat \ {0, 1}

Bytes == 0..MaxCode

(* Encoder state: the output, the index of the open block's code byte and  *)
(* the code so far.                                                        *)
EncoderInit == [out |-> <<0>>, index |-> 1, code |-> 1]

CloseBlock(e) ==
    [out |-> Append([e.out EXCEPT ![e.index] = e.code], 0),
     index |-> Len(e.out) + 1, code |-> 1]

EncodeNoFullBlock(e, b) ==
    IF b = 0 THEN CloseBlock(e)
    ELSE [e EXCEPT !.out = Append(@, b), !.code = @ + 1]

(* A zero closes the block, and so does the byte that fills it. *)
EncodeByte(e, b) ==
    IF b = 0 THEN CloseBlock(e)
    ELSE LET f == [e EXCEPT !.out = Append(@, b), !.code = @ + 1]
         IN  IF f.code = MaxCode THEN CloseBlock(f) ELSE f

(* cobs::encode, its trailing delimiter included. *)
Encode(data) == CloseBlock(FoldLeft(EncodeByte, EncoderInit, data)).out

(* Decoder state: bytes still due in the block, its code, the output and   *)
(* whether it is still fine.                                               *)
DecoderInit == [due |-> 0, code |-> MaxCode, out |-> <<>>, ok |-> TRUE]

(* No byte may be zero, and once refused an input stays refused.  A code   *)
(* byte stands for the zero that ended the block before it, unless that    *)
(* block was full.                                                         *)
DecodeByte(d, b) ==
    IF b = 0 \/ ~d.ok THEN [d EXCEPT !.ok = FALSE]
    ELSE IF d.due > 0 THEN [d EXCEPT !.due = @ - 1, !.out = Append(@, b)]
    ELSE [d EXCEPT !.due = b - 1, !.code = b,
                   !.out = IF d.code < MaxCode THEN Append(@, 0) ELSE @]

DecodedPadded(data) ==
    LET body == IF data # <<>> /\ Last(data) = 0 THEN Front(data) ELSE data
        end  == FoldLeft(DecodeByte, DecoderInit, body)
    IN  [end EXCEPT !.out = @ \o [i \in 1..end.due |-> 0]]

(* Decoding strips one trailing delimiter.  A block cut short is an error. *)
Decoded(data) ==
    LET body == IF data # <<>> /\ Last(data) = 0 THEN Front(data) ELSE data
        end  == FoldLeft(DecodeByte, DecoderInit, body)
    IN  [end EXCEPT !.ok = @ /\ end.due = 0]

DecodesOk(data) == Decoded(data).ok

Decode(data) == Decoded(data).out
=============================================================================
