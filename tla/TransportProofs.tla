-------------------------- MODULE TransportProofs --------------------------
(***************************************************************************)
(* Proofs about everything between a packet and the wire.                  *)
(*                                                                         *)
(* The codecs, for every input: COBS gives back what it was given, for any *)
(* size of its blocks, a clean line the serial reader every packet, and a  *)
(* stream its frames, whatever reads cut it into; a file travels under a   *)
(* name the other side can use; text may be cut anywhere; and a message    *)
(* arrives as it was sent.  CodecsStayExact puts them together.            *)
(*                                                                         *)
(* The radio backends, for any number of paired devices, delegates,        *)
(* clients, lookups and packet ids.  Each has an invariant of its own      *)
(* (LookupInv and PeerInv, BleInv, MacInv), and RadioInv is that of the    *)
(* one that runs.                                                          *)
(***************************************************************************)
EXTENDS MCTransport, FiniteSetTheorems, SequenceTheorems, WellFoundedInduction, TLAPS

(* COBS.  Encoder and decoder are folds over the bytes, FoldLeft of the    *)
(* community modules: what a fold computes is shown by way of its          *)
(* iteration, a function on the sets of positions it has still to visit.   *)

Less == OpToRel(<, Nat)

(* A set of naturals that is not empty has a least element. *)
LEMMA LeastElement ==
    ASSUME NEW T \in SUBSET Nat, T # {}
    PROVE  \E x \in T : \A y \in T : x <= y
<1>1. IsWellFoundedOn(Less, Nat)
  BY NatLessThanWellFounded, Zenon DEF Less
<1>2. PICK x \in T : \A y \in T : ~(<<y, x>> \in Less)
  BY <1>1, WFMin, Zenon
<1>3. \A x1, y \in Nat : <<x1, y>> \in Less <=> x1 < y
  BY DEF Less, OpToRel
<1>4. \A y \in T : y \in Nat /\ x \in Nat /\ ~(y < x)
  BY <1>2, <1>3
<1> QED
  BY <1>4

(* What holds of 0, and of n + 1 when it holds of n, holds of all n. *)
LEMMA EveryNatural ==
    ASSUME NEW T \in SUBSET Nat, 0 \in T, \A n \in T : n + 1 \in T
    PROVE  \A n \in Nat : n \in T
<1> SUFFICES ASSUME Nat \ T # {}
             PROVE  FALSE
  OBVIOUS
<1>1. PICK m \in Nat \ T : \A y \in Nat \ T : m <= y
  BY LeastElement
<1>2. m # 0 /\ m - 1 \in Nat
  BY <1>1
<1>3. m - 1 \in T
  BY <1>1, <1>2
<1> QED
  BY <1>1, <1>2, <1>3

(* One byte into either how, and one turn of the fold: the last position *)
(* of the set is visited after the others.                                 *)
Fed(how, state, b) ==
    IF how = "encoder" THEN EncodeByte(state, b)
    ELSE IF how = "decoder" THEN DecodeByte(state, b)
    ELSE IF how = "text" THEN Lossy(state, b)
    ELSE IF how = "span" THEN state * Radix
    ELSE IF how = "number" THEN state * Radix + b
    ELSE IF how = "join" THEN state \o b
    ELSE IF how = "read" THEN ReadField(state, b)
    ELSE F!FeedByte(state, b)

Turn(it, how, base, s, S) ==
    IF S = {} THEN base ELSE Fed(how, it[S \ {Max(S)}], s[Max(S)])

Iterates(it, how, base, s, n) ==
    it = [S \in SUBSET (1..n) |-> Turn(it, how, base, s, S)]

Stepping(it, how, base, s, n) ==
    /\ it[{}] = base
    /\ \A k \in 1..n : it[1..k] = Fed(how, it[1..(k - 1)], s[k])

Run(how, base, s) ==
    (CHOOSE it : Iterates(it, how, base, s, Len(s)))[1..Len(s)]

LEMMA EncoderRuns ==
    ASSUME NEW s \in Seq(Nat), NEW base
    PROVE  FoldLeft(EncodeByte, base, s) = Run("encoder", base, s)
<1>1. DOMAIN s = 1..Len(s)
  OBVIOUS
<1> QED
  BY <1>1 DEF FoldLeft, MapThenFoldSet, Run, Iterates, Turn, Fed

LEMMA DecoderRuns ==
    ASSUME NEW s \in Seq(Nat), NEW base
    PROVE  FoldLeft(DecodeByte, base, s) = Run("decoder", base, s)
<1>1. DOMAIN s = 1..Len(s)
  OBVIOUS
<1> QED
  BY <1>1 DEF FoldLeft, MapThenFoldSet, Run, Iterates, Turn, Fed

LEMMA LastPosition ==
    ASSUME NEW n \in Nat, NEW S \in SUBSET (1..n), n \in S
    PROVE  Max(S) = n
<1>1. \A y \in S : n >= y
  OBVIOUS
<1>2. \A m \in S : (\A y \in S : m >= y) => m = n
  OBVIOUS
<1> QED
  BY <1>1, <1>2 DEF Max

LEMMA IterationExists ==
    ASSUME NEW how, NEW base, NEW s, NEW n \in Nat
    PROVE  \E it : Iterates(it, how, base, s, n)
<1> DEFINE T == {m \in Nat : \E it : Iterates(it, how, base, s, m)}
<1>1. 0 \in T
  <2> DEFINE it == [S \in SUBSET (1..0) |-> base]
  <2>1. \A S \in SUBSET (1..0) : S = {}
    OBVIOUS
  <2>2. \A S \in SUBSET (1..0) : Turn(it, how, base, s, S) = base
    BY <2>1 DEF Turn
  <2>3. Iterates(it, how, base, s, 0)
    BY <2>2 DEF Iterates
  <2> HIDE DEF it
  <2> QED
    BY <2>3
<1>2. ASSUME NEW m \in T PROVE m + 1 \in T
  <2>1. PICK it : Iterates(it, how, base, s, m)
    OBVIOUS
  <2>2. m \in Nat
    OBVIOUS
  <2> DEFINE more == [S \in SUBSET (1..m + 1) |->
                        IF m + 1 \in S THEN Fed(how, it[S \ {m + 1}], s[m + 1]) ELSE it[S]]
  <2>3. ASSUME NEW S \in SUBSET (1..m) PROVE more[S] = it[S]
    <3>1. S \in SUBSET (1..m + 1) /\ m + 1 \notin S
      BY <2>2
    <3> QED
      BY <3>1
  <2>4. ASSUME NEW S \in SUBSET (1..m + 1) PROVE more[S] = Turn(more, how, base, s, S)
    <3>1. CASE m + 1 \in S
      <4>1. Max(S) = m + 1
        BY <2>2, <3>1, LastPosition
      <4>2. S \ {m + 1} \in SUBSET (1..m)
        BY <2>2
      <4>3. more[S \ {m + 1}] = it[S \ {m + 1}]
        BY <2>3, <4>2
      <4>4. more[S] = Fed(how, it[S \ {m + 1}], s[m + 1])
        BY <3>1
      <4> QED
        BY <3>1, <4>1, <4>3, <4>4 DEF Turn
    <3>2. CASE m + 1 \notin S
      <4>1. S \in SUBSET (1..m)
        BY <2>2, <3>2
      <4>2. more[S] = Turn(it, how, base, s, S)
        BY <2>1, <2>3, <4>1 DEF Iterates
      <4>3. S \ {Max(S)} \in SUBSET (1..m)
        BY <4>1
      <4>4. more[S \ {Max(S)}] = it[S \ {Max(S)}]
        BY <2>3, <4>3
      <4> HIDE DEF more
      <4> QED
        BY <4>2, <4>4 DEF Turn
    <3> QED
      BY <3>1, <3>2
  <2>5. more = [S \in SUBSET (1..m + 1) |-> more[S]]
    OBVIOUS
  <2> HIDE DEF more
  <2>6. Iterates(more, how, base, s, m + 1)
    BY <2>4, <2>5 DEF Iterates
  <2> QED
    BY <2>2, <2>6
<1> HIDE DEF T
<1>3. n \in T
  BY <1>1, <1>2, EveryNatural DEF T
<1> QED
  BY <1>3 DEF T

(* What an iteration has of the first k positions. *)
LEMMA IterationSteps ==
    ASSUME NEW how, NEW base, NEW s, NEW n \in Nat, NEW it, Iterates(it, how, base, s, n)
    PROVE  Stepping(it, how, base, s, n)
<1>1. \A S \in SUBSET (1..n) : it[S] = Turn(it, how, base, s, S)
  BY DEF Iterates
<1>2. it[{}] = base
  BY <1>1 DEF Turn
<1>3. ASSUME NEW k \in 1..n PROVE it[1..k] = Fed(how, it[1..(k - 1)], s[k])
  <2>1. 1..k \in SUBSET (1..n) /\ k \in 1..k /\ k \in Nat /\ 1..k # {}
    OBVIOUS
  <2>2. Max(1..k) = k
    BY <2>1, LastPosition
  <2>3. (1..k) \ {k} = 1..(k - 1)
    BY <2>1
  <2> QED
    BY <1>1, <2>1, <2>2, <2>3 DEF Turn
<1> QED
  BY <1>2, <1>3 DEF Stepping

(* Two iterations agree as far as the bytes do. *)
LEMMA IterationsAgree ==
    ASSUME NEW how, NEW base, NEW s, NEW t, NEW n \in Nat, NEW m \in Nat, n <= m,
           \A k \in 1..n : s[k] = t[k],
           NEW it, Stepping(it, how, base, s, n),
           NEW jt, Stepping(jt, how, base, t, m)
    PROVE  it[1..n] = jt[1..n]
<1> DEFINE T == {k \in Nat : k <= n => it[1..k] = jt[1..k]}
<1>1. it[{}] = base /\ \A k \in 1..n : it[1..k] = Fed(how, it[1..(k - 1)], s[k])
  BY DEF Stepping
<1>1a. jt[{}] = base /\ \A k \in 1..m : jt[1..k] = Fed(how, jt[1..(k - 1)], t[k])
  BY DEF Stepping
<1>2. 0 \in T
  <2>1. 1..0 = {}
    OBVIOUS
  <2> QED
    BY <1>1, <1>1a, <2>1
<1>3. ASSUME NEW k \in T PROVE k + 1 \in T
  <2> SUFFICES ASSUME k + 1 <= n PROVE it[1..(k + 1)] = jt[1..(k + 1)]
    OBVIOUS
  <2>1. k + 1 \in 1..n /\ k + 1 \in 1..m /\ (k + 1) - 1 = k
    OBVIOUS
  <2>2. it[1..k] = jt[1..k]
    OBVIOUS
  <2>3. it[1..(k + 1)] = Fed(how, it[1..k], s[k + 1]) /\ jt[1..(k + 1)] = Fed(how, jt[1..k], t[k + 1])
    BY <1>1, <1>1a, <2>1
  <2>4. s[k + 1] = t[k + 1]
    BY <2>1
  <2> QED
    BY <2>2, <2>3, <2>4
<1> HIDE DEF T
<1>4. n \in T
  BY <1>2, <1>3, EveryNatural DEF T
<1> QED
  BY <1>4 DEF T

LEMMA RunIterates ==
    ASSUME NEW how, NEW base, NEW S, NEW s \in Seq(S)
    PROVE  \E it : Stepping(it, how, base, s, Len(s)) /\ Run(how, base, s) = it[1..Len(s)]
<1>1. Len(s) \in Nat
  OBVIOUS
<1>2. \E it : Iterates(it, how, base, s, Len(s))
  BY <1>1, IterationExists
<1>3. PICK it : Iterates(it, how, base, s, Len(s)) /\ Run(how, base, s) = it[1..Len(s)]
  BY <1>2 DEF Run
<1> QED
  BY <1>1, <1>3, IterationSteps

LEMMA RunOfNothing ==
    ASSUME NEW how, NEW base PROVE Run(how, base, <<>>) = base
<1>1. <<>> \in Seq(Nat) /\ Len(<<>>) = 0 /\ 1..0 = {}
  OBVIOUS
<1>2. PICK it : Stepping(it, how, base, <<>>, Len(<<>>))
                /\ Run(how, base, <<>>) = it[1..Len(<<>>)]
  BY <1>1, RunIterates
<1>3. 1..Len(<<>>) = {}
  BY <1>1
<1> QED
  BY <1>2, <1>3 DEF Stepping

(* The last byte is fed to what the others left. *)
LEMMA RunOneMore ==
    ASSUME NEW how, NEW base, NEW S, NEW s \in Seq(S), NEW t \in Seq(S), Len(t) = Len(s) + 1,
           \A k \in 1..Len(s) : s[k] = t[k]
    PROVE  Run(how, base, t) = Fed(how, Run(how, base, s), t[Len(t)])
<1>1. Len(s) \in Nat /\ Len(t) \in Nat /\ Len(s) <= Len(t) /\ Len(t) \in 1..Len(t)
      /\ Len(t) - 1 = Len(s)
  OBVIOUS
<1>2. PICK it : Stepping(it, how, base, s, Len(s)) /\ Run(how, base, s) = it[1..Len(s)]
  BY RunIterates
<1>3. PICK jt : Stepping(jt, how, base, t, Len(t)) /\ Run(how, base, t) = jt[1..Len(t)]
  BY RunIterates
<1>4. it[1..Len(s)] = jt[1..Len(s)]
  BY <1>1, <1>2, <1>3, IterationsAgree
<1>5. \A k \in 1..Len(t) : jt[1..k] = Fed(how, jt[1..(k - 1)], t[k])
  BY <1>3 DEF Stepping
<1>6. jt[1..Len(t)] = Fed(how, jt[1..Len(s)], t[Len(t)])
  BY <1>1, <1>5
<1> QED
  BY <1>2, <1>3, <1>4, <1>6

LEMMA RunAppend ==
    ASSUME NEW how, NEW base, NEW S, NEW s \in Seq(S), NEW b \in S
    PROVE  Run(how, base, Append(s, b)) = Fed(how, Run(how, base, s), b)
<1> DEFINE t == Append(s, b)
<1>1. t \in Seq(S) /\ Len(t) = Len(s) + 1 /\ t[Len(s) + 1] = b
      /\ \A k \in 1..Len(s) : t[k] = s[k]
  BY AppendProperties
<1> HIDE DEF t
<1>2. Run(how, base, t) = Fed(how, Run(how, base, s), t[Len(t)])
  BY <1>1, RunOneMore
<1> QED
  BY <1>1, <1>2 DEF t

(* What holds of the empty sequence, and of one more element when it holds *)
(* of the rest, holds of every sequence.                                   *)
LEMMA EverySequence ==
    ASSUME NEW S, NEW T \in SUBSET Seq(S), <<>> \in T,
           \A s \in T : \A b \in S : Append(s, b) \in T
    PROVE  \A s \in Seq(S) : s \in T
<1> DEFINE L == {n \in Nat : \A s \in Seq(S) : Len(s) = n => s \in T}
<1>1. 0 \in L
  OBVIOUS
<1>2. ASSUME NEW n \in L PROVE n + 1 \in L
  <2> SUFFICES ASSUME NEW t \in Seq(S), Len(t) = n + 1
               PROVE  t \in T
    OBVIOUS
  <2> DEFINE s == SubSeq(t, 1, n)
  <2>1. n \in Nat /\ n + 1 \in 1..Len(t) /\ \A k \in 1..n : k \in 1..Len(t)
    OBVIOUS
  <2>2. t[n + 1] \in S /\ \A k \in 1..n : t[k] \in S
    BY <2>1, ElementOfSeq
  <2>3. s \in Seq(S) /\ Len(s) = n /\ \A k \in 1..n : s[k] = t[k]
    BY <2>1, <2>2, SubSeqProperties, SMTT(30)
  <2> HIDE DEF s
  <2>4. s \in T
    BY <2>3
  <2>5. Append(s, t[n + 1]) \in T
    BY <2>2, <2>4
  <2> DEFINE v == Append(s, t[n + 1])
  <2>6. v \in Seq(S) /\ Len(v) = n + 1 /\ v[n + 1] = t[n + 1] /\ \A k \in 1..n : v[k] = s[k]
    <3>1. /\ v \in Seq(S) /\ Len(v) = Len(s) + 1 /\ v[Len(s) + 1] = t[n + 1]
          /\ \A k \in 1..Len(s) : v[k] = s[k]
      <4>1. t[n + 1] \in S /\ s \in Seq(S)
        BY <2>2, <2>3
      <4> QED
        BY <4>1, AppendProperties
    <3> HIDE DEF v
    <3> QED
      BY <2>3, <3>1
  <2> HIDE DEF v
  <2>7. \A k \in 1..(n + 1) : k \in 1..n \/ k = n + 1
    BY <2>1
  <2>8. \A k \in 1..(n + 1) : v[k] = t[k]
    BY <2>3, <2>6, <2>7
  <2>9. v = t
    BY <2>6, <2>8, SeqEqual
  <2> QED
    BY <2>5, <2>9 DEF v
<1>3. L \in SUBSET Nat
  OBVIOUS
<1> HIDE DEF L
<1>4. \A n \in Nat : n \in L
  BY <1>1, <1>2, <1>3, EveryNatural
<1> QED
  BY <1>4 DEF L

(* What the decoder is after the first m bytes of s. *)
ReadOf(s, m) == Run("decoder", DecoderInit, SubSeq(s, 1, m))

(* A decoder that refused nothing, with n bytes due in the block of code c *)
(* and o read; and what a code byte makes of o when it ends that block.    *)
Reading(n, c, o) == [due |-> n, code |-> c, out |-> o, ok |-> TRUE]

Opened(c, o) == IF c < MaxCode THEN Append(o, 0) ELSE o

OpenedBy(d, x, y, z) == [d EXCEPT !.due = x, !.code = y, !.out = z]

GoneOn(d, x, z) == [d EXCEPT !.due = x, !.out = z]

LEMMA ReadingOpens ==
    ASSUME NEW n, NEW c, NEW o, NEW x, NEW y, NEW z
    PROVE  OpenedBy(Reading(n, c, o), x, y, z) = Reading(x, y, z)
<1> DEFINE D == {"due", "code", "out", "ok"}
           a == OpenedBy(Reading(n, c, o), x, y, z)
           r == Reading(x, y, z)
<1>1. a = [f \in D |-> a[f]]
  BY DEF Reading, OpenedBy, GoneOn
<1>2. r = [f \in D |-> r[f]]
  BY DEF Reading, OpenedBy, GoneOn
<1>3. a.due = r.due /\ a.code = r.code /\ a.out = r.out
  BY DEF Reading, OpenedBy, GoneOn
<1>4. a.ok = r.ok
  BY DEF Reading, OpenedBy, GoneOn
<1> HIDE DEF a, r
<1>5. \A f \in D : a[f] = r[f]
  BY <1>3, <1>4
<1> HIDE DEF D
<1>6. a = r
  BY <1>1, <1>2, <1>5
<1> QED
  BY <1>6 DEF a, r

LEMMA ReadingGoesOn ==
    ASSUME NEW n, NEW c, NEW o, NEW x, NEW z
    PROVE  GoneOn(Reading(n, c, o), x, z) = Reading(x, c, z)
<1> DEFINE D == {"due", "code", "out", "ok"}
           a == GoneOn(Reading(n, c, o), x, z)
           r == Reading(x, c, z)
<1>1. a = [f \in D |-> a[f]]
  BY DEF Reading, OpenedBy, GoneOn
<1>2. r = [f \in D |-> r[f]]
  BY DEF Reading, OpenedBy, GoneOn
<1>3. a.due = r.due /\ a.code = r.code /\ a.out = r.out
  BY DEF Reading, OpenedBy, GoneOn
<1>4. a.ok = r.ok
  BY DEF Reading, OpenedBy, GoneOn
<1> HIDE DEF a, r
<1>5. \A f \in D : a[f] = r[f]
  BY <1>3, <1>4
<1> HIDE DEF D
<1>6. a = r
  BY <1>1, <1>2, <1>5
<1> QED
  BY <1>6 DEF a, r

LEMMA CodeByte ==
    ASSUME NEW c, NEW o, NEW b \in Nat \ {0}
    PROVE  DecodeByte(Reading(0, c, o), b) = Reading(b - 1, b, Opened(c, o))
<1> DEFINE d == Reading(0, c, o)
<1>1. d.ok = TRUE /\ ~(d.due > 0) /\ d.code = c /\ d.out = o
  BY DEF Reading
<1>2. OpenedBy(d, b - 1, b, Opened(c, o)) = Reading(b - 1, b, Opened(c, o))
  BY ReadingOpens
<1> HIDE DEF d
<1>3. DecodeByte(d, b) = [d EXCEPT !.due = b - 1, !.code = b,
                                   !.out = IF d.code < MaxCode THEN Append(@, 0) ELSE @]
  BY <1>1 DEF DecodeByte
<1>4. DecodeByte(d, b) = OpenedBy(d, b - 1, b, Opened(c, o))
  BY <1>1, <1>3 DEF Opened, OpenedBy
<1> QED
  BY <1>2, <1>4 DEF d

LEMMA ByteDue ==
    ASSUME NEW c, NEW o, NEW n \in Nat \ {0}, NEW b \in Nat \ {0}
    PROVE  DecodeByte(Reading(n, c, o), b) = Reading(n - 1, c, Append(o, b))
<1> DEFINE d == Reading(n, c, o)
<1>1. d.ok = TRUE /\ d.due > 0 /\ d.due = n /\ d.out = o
  BY DEF Reading
<1>2. GoneOn(d, n - 1, Append(o, b)) = Reading(n - 1, c, Append(o, b))
  BY ReadingGoesOn
<1> HIDE DEF d
<1>3. DecodeByte(d, b) = [d EXCEPT !.due = @ - 1, !.out = Append(@, b)]
  BY <1>1 DEF DecodeByte
<1>4. DecodeByte(d, b) = GoneOn(d, n - 1, Append(o, b))
  BY <1>1, <1>3 DEF GoneOn
<1> QED
  BY <1>2, <1>4 DEF d

LEMMA PrefixFacts ==
    ASSUME NEW s \in Seq(Nat), NEW m \in 0..Len(s)
    PROVE  /\ SubSeq(s, 1, m) \in Seq(Nat)
           /\ Len(SubSeq(s, 1, m)) = m
           /\ \A k \in 1..m : SubSeq(s, 1, m)[k] = s[k]
<1>1. Len(s) \in Nat
  OBVIOUS
<1> QED
  BY <1>1, SubSeqProperties

LEMMA ReadNothing ==
    ASSUME NEW s \in Seq(Nat)
    PROVE  ReadOf(s, 0) = DecoderInit
<1>1. SubSeq(s, 1, 0) = <<>>
  BY SubSeqProperties
<1> QED
  BY <1>1, RunOfNothing DEF ReadOf

LEMMA ReadStep ==
    ASSUME NEW s \in Seq(Nat), NEW m \in Nat, m < Len(s)
    PROVE  ReadOf(s, m + 1) = DecodeByte(ReadOf(s, m), s[m + 1])
<1> DEFINE u == SubSeq(s, 1, m)
           w == SubSeq(s, 1, m + 1)
<1>1. u \in Seq(Nat) /\ Len(u) = m /\ \A k \in 1..m : u[k] = s[k]
  BY PrefixFacts
<1>2. w \in Seq(Nat) /\ Len(w) = m + 1 /\ \A k \in 1..(m + 1) : w[k] = s[k]
  BY PrefixFacts
<1> HIDE DEF u, w
<1>3a. \A k \in 1..m : k \in 1..(m + 1)
  OBVIOUS
<1>3. \A k \in 1..Len(u) : u[k] = w[k]
  BY <1>1, <1>2, <1>3a
<1>4. Run("decoder", DecoderInit, w) = Fed("decoder", Run("decoder", DecoderInit, u), w[Len(w)])
  BY <1>1, <1>2, <1>3, RunOneMore, SMTT(30)
<1>5. w[Len(w)] = s[m + 1]
  BY <1>2
<1> QED
  BY <1>4, <1>5 DEF Fed, ReadOf, u, w

LEMMA ReadAgrees ==
    ASSUME NEW s \in Seq(Nat), NEW t \in Seq(Nat), NEW m \in Nat, m <= Len(s), m <= Len(t),
           \A k \in 1..m : s[k] = t[k]
    PROVE  ReadOf(s, m) = ReadOf(t, m)
<1>1. SubSeq(s, 1, m) \in Seq(Nat) /\ Len(SubSeq(s, 1, m)) = m
      /\ \A k \in 1..m : SubSeq(s, 1, m)[k] = s[k]
  BY PrefixFacts
<1>2. SubSeq(t, 1, m) \in Seq(Nat) /\ Len(SubSeq(t, 1, m)) = m
      /\ \A k \in 1..m : SubSeq(t, 1, m)[k] = t[k]
  BY PrefixFacts
<1>3. SubSeq(s, 1, m) = SubSeq(t, 1, m)
  BY <1>1, <1>2, SeqEqual
<1> QED
  BY <1>3 DEF ReadOf

LEMMA ReadWhole ==
    ASSUME NEW s \in Seq(Nat)
    PROVE  ReadOf(s, Len(s)) = Run("decoder", DecoderInit, s)
<1>1. SubSeq(s, 1, Len(s)) \in Seq(Nat) /\ Len(SubSeq(s, 1, Len(s))) = Len(s)
      /\ \A k \in 1..Len(s) : SubSeq(s, 1, Len(s))[k] = s[k]
  BY PrefixFacts
<1>2. SubSeq(s, 1, Len(s)) = s
  BY <1>1, SeqEqual
<1> QED
  BY <1>2 DEF ReadOf

LEMMA ConcatAppend ==
    ASSUME NEW o \in Seq(Nat), NEW u \in Seq(Nat), NEW x \in Nat
    PROVE  o \o Append(u, x) = Append(o \o u, x)
<1>1. <<x>> \in Seq(Nat) /\ o \o u \in Seq(Nat)
  BY ConcatProperties
<1>2. Append(u, x) = u \o <<x>> /\ Append(o \o u, x) = (o \o u) \o <<x>>
  BY <1>1, AppendIsConcat
<1>3. (o \o u) \o <<x>> = o \o (u \o <<x>>)
  BY <1>1, ConcatAssociative
<1> QED
  BY <1>2, <1>3

LEMMA LastOnTop ==
    ASSUME NEW u \in Seq(Nat), NEW w \in Seq(Nat), Len(w) = Len(u) + 1,
           \A x \in 1..Len(u) : w[x] = u[x]
    PROVE  w = Append(u, w[Len(w)])
<1>1. Len(u) \in Nat /\ Len(w) \in 1..Len(w) /\ w[Len(w)] \in Nat
  OBVIOUS
<1> DEFINE v == Append(u, w[Len(w)])
<1>2. v \in Seq(Nat) /\ Len(v) = Len(u) + 1 /\ v[Len(u) + 1] = w[Len(w)]
      /\ \A x \in 1..Len(u) : v[x] = u[x]
  BY <1>1, AppendProperties
<1> HIDE DEF v
<1>3. \A x \in 1..Len(w) : x \in 1..Len(u) \/ x = Len(u) + 1
  BY <1>1
<1>4. \A x \in 1..Len(w) : w[x] = v[x]
  BY <1>2, <1>3
<1>5. w = v
  BY <1>2, <1>4, SeqEqual
<1> QED
  BY <1>5 DEF v

LEMMA OneMoreOf ==
    ASSUME NEW s \in Seq(Nat), NEW o \in Seq(Nat), NEW i \in 1..Len(s), NEW k \in Nat,
           i + k < Len(s)
    PROVE  Append(o \o SubSeq(s, i + 1, i + k), s[i + k + 1]) = o \o SubSeq(s, i + 1, i + k + 1)
<1> DEFINE u == SubSeq(s, i + 1, i + k)
           w == SubSeq(s, i + 1, i + k + 1)
<1>1. u \in Seq(Nat) /\ Len(u) = k /\ \A x \in 1..k : u[x] = s[i + x]
  BY SubSeqProperties
<1>2. w \in Seq(Nat) /\ Len(w) = k + 1 /\ \A x \in 1..(k + 1) : w[x] = s[i + x]
  BY SubSeqProperties
<1>3. s[i + k + 1] \in Nat /\ s[i + k + 1] = w[k + 1]
  BY <1>2
<1> HIDE DEF u, w
<1>3b. \A x \in 1..k : x \in 1..(k + 1)
  OBVIOUS
<1>3a. \A x \in 1..k : w[x] = u[x]
  BY <1>1, <1>2, <1>3b
<1>4. w = Append(u, w[k + 1])
  BY <1>1, <1>2, <1>3a, LastOnTop
<1>5. o \o Append(u, w[k + 1]) = Append(o \o u, w[k + 1])
  BY <1>1, <1>3, ConcatAppend
<1>6. o \o w = Append(o \o u, s[i + k + 1])
  BY <1>3, <1>4, <1>5
<1> QED
  BY <1>6 DEF u, w

(* A block: the code byte, then one byte less than it says, none a zero. *)
LEMMA BlockRead ==
    ASSUME NEW s \in Seq(Nat), NEW i \in 1..Len(s), NEW c \in Nat, NEW o \in Seq(Nat),
           ReadOf(s, i - 1) = Reading(0, c, o),
           s[i] = Len(s) - i + 1,
           \A k \in i..Len(s) : s[k] # 0
    PROVE  ReadOf(s, Len(s))
             = Reading(0, s[i], Opened(c, o) \o SubSeq(s, i + 1, Len(s)))
<1> DEFINE start == Opened(c, o)
           T == {k \in Nat : i + k <= Len(s) =>
                   ReadOf(s, i + k) = Reading(s[i] - 1 - k, s[i], start \o SubSeq(s, i + 1, i + k))}
<1>0. start \in Seq(Nat) /\ Len(s) \in Nat /\ i \in Nat /\ s[i] \in Nat
  BY DEF Opened
<1>1. 0 \in T
  <2>1. ReadOf(s, (i - 1) + 1) = DecodeByte(ReadOf(s, i - 1), s[(i - 1) + 1])
    BY <1>0, ReadStep
  <2>2. (i - 1) + 1 = i /\ i + 0 = i
    BY <1>0
  <2>3. ReadOf(s, i) = DecodeByte(Reading(0, c, o), s[i])
    BY <2>1, <2>2
  <2>4. s[i] # 0
    BY <1>0
  <2>5. ReadOf(s, i) = Reading(s[i] - 1, s[i], start)
    BY <1>0, <2>3, <2>4, CodeByte
  <2>6. SubSeq(s, i + 1, i) = <<>>
    BY <1>0, SubSeqProperties
  <2>7. start \o <<>> = start
    BY <1>0, ConcatEmptySeq
  <2>8. ReadOf(s, i + 0) = Reading(s[i] - 1 - 0, s[i], start \o SubSeq(s, i + 1, i + 0))
    <3>1. s[i] - 1 - 0 = s[i] - 1
      BY <1>0
    <3> HIDE DEF start
    <3> QED
      BY <2>2, <2>5, <2>6, <2>7, <3>1
  <2> HIDE DEF start
  <2> QED
    BY <2>8
<1> HIDE DEF start
<1>2. ASSUME NEW k \in T PROVE k + 1 \in T
  <2> SUFFICES ASSUME i + (k + 1) <= Len(s)
               PROVE  ReadOf(s, i + (k + 1))
                        = Reading(s[i] - 1 - (k + 1), s[i], start \o SubSeq(s, i + 1, i + (k + 1)))
    OBVIOUS
  <2>1. k \in Nat /\ ReadOf(s, i + k) = Reading(s[i] - 1 - k, s[i], start \o SubSeq(s, i + 1, i + k))
    BY <1>0
  <2>2. i + (k + 1) = (i + k) + 1 /\ i + k \in Nat /\ i + k < Len(s) /\ (i + k) + 1 \in i..Len(s)
    BY <1>0, <2>1
  <2>3. ReadOf(s, (i + k) + 1) = DecodeByte(ReadOf(s, i + k), s[(i + k) + 1])
    BY <2>2, ReadStep
  <2>4. s[(i + k) + 1] # 0 /\ s[i] - 1 - k > 0
    BY <1>0, <2>1, <2>2
  <2>5. ReadOf(s, (i + k) + 1)
          = Reading(s[i] - 1 - k - 1, s[i], Append(start \o SubSeq(s, i + 1, i + k), s[(i + k) + 1]))
    <3>1. s[i] - 1 - k \in Nat \ {0} /\ s[(i + k) + 1] \in Nat \ {0}
      <4>1. s[(i + k) + 1] \in Nat
        <5>1. (i + k) + 1 \in 1..Len(s)
          BY <1>0, <2>1, <2>2
        <5> QED
          BY <5>1, ElementOfSeq
      <4>2. s[i] - 1 - k \in Int
        BY <1>0, <2>1
      <4> QED
        BY <2>4, <4>1, <4>2, SMTT(30)
    <3> QED
      BY <2>1, <2>3, <3>1, ByteDue, SMTT(30)
  <2>6. Append(start \o SubSeq(s, i + 1, i + k), s[(i + k) + 1]) = start \o SubSeq(s, i + 1, (i + k) + 1)
    BY <1>0, <2>1, <2>2, OneMoreOf
  <2>7. s[i] - 1 - k - 1 = s[i] - 1 - (k + 1)
    BY <1>0, <2>1
  <2> QED
    BY <2>2, <2>5, <2>6, <2>7
<1> DEFINE n == Len(s) - i
<1>3. n \in Nat /\ i + n = Len(s) /\ s[i] - 1 - n = 0
  BY <1>0
<1>4. T \in SUBSET Nat
  OBVIOUS
<1> HIDE DEF T
<1>5. n \in T
  BY <1>1, <1>2, <1>3, <1>4, EveryNatural
<1>6. ReadOf(s, i + n) = Reading(s[i] - 1 - n, s[i], start \o SubSeq(s, i + 1, i + n))
  BY <1>3, <1>5 DEF T
<1> QED
  BY <1>3, <1>6 DEF start

LEMMA WrittenSeq ==
    ASSUME NEW s \in Seq(Nat), NEW i \in 1..Len(s), NEW b \in Nat
    PROVE  /\ [s EXCEPT ![i] = b] \in Seq(Nat)
           /\ Len([s EXCEPT ![i] = b]) = Len(s)
           /\ [s EXCEPT ![i] = b][i] = b
           /\ \A k \in 1..Len(s) : k # i => [s EXCEPT ![i] = b][k] = s[k]
OBVIOUS

LEMMA UpTo ==
    ASSUME NEW i \in Nat, NEW n \in Nat
    PROVE  \A x \in 1..(n - i) : i + x \in (i + 1)..n
OBVIOUS

(* What SubSeq takes off the end of a sequence. *)
LEMMA BehindOf ==
    ASSUME NEW s \in Seq(Nat), NEW i \in Nat, NEW n \in Nat, i \in 1..n, n <= Len(s)
    PROVE  LET u == SubSeq(s, i + 1, n)
           IN  u \in Seq(Nat) /\ Len(u) = n - i /\ \A x \in 1..(n - i) : u[x] = s[i + x]
<1> DEFINE u == SubSeq(s, i + 1, n)
<1>1. \A x \in (i + 1)..n : s[x] \in Nat
  <2>1. \A x \in (i + 1)..n : x \in 1..Len(s)
    OBVIOUS
  <2> QED
    BY <2>1, ElementOfSeq
<1>2. i + 1 \in Int /\ n \in Int
  OBVIOUS
<1>3. /\ u \in Seq(Nat) /\ Len(u) = (IF i + 1 <= n THEN n - (i + 1) + 1 ELSE 0)
      /\ \A x \in 1..(n - (i + 1) + 1) : u[x] = s[(i + 1) + x - 1]
  BY <1>1, <1>2, SubSeqProperties
<1> HIDE DEF u
<1>4. \A x \in 1..(n - i) : x \in 1..(n - (i + 1) + 1) /\ (i + 1) + x - 1 = i + x
  OBVIOUS
<1>5. Len(u) = n - i
  BY <1>3
<1>6. u \in Seq(Nat) /\ Len(u) = n - i /\ \A x \in 1..(n - i) : u[x] = s[i + x]
  BY <1>3, <1>4, <1>5
<1> QED
  BY <1>6 DEF u

LEMMA SameTail ==
    ASSUME NEW s \in Seq(Nat), NEW t \in Seq(Nat), NEW i \in Nat, NEW n \in Nat, i \in 1..n,
           n <= Len(s), n <= Len(t),
           \A k \in (i + 1)..n : t[k] = s[k]
    PROVE  SubSeq(t, i + 1, n) = SubSeq(s, i + 1, n)
<1> DEFINE u == SubSeq(s, i + 1, n)
           w == SubSeq(t, i + 1, n)
<1>1. u \in Seq(Nat) /\ Len(u) = n - i /\ \A x \in 1..(n - i) : u[x] = s[i + x]
  BY BehindOf
<1>2. w \in Seq(Nat) /\ Len(w) = n - i /\ \A x \in 1..(n - i) : w[x] = t[i + x]
  BY BehindOf
<1> HIDE DEF u, w
<1>3. \A x \in 1..(n - i) : i + x \in (i + 1)..n
  BY UpTo
<1>4. \A x \in 1..(n - i) : w[x] = u[x]
  BY <1>1, <1>2, <1>3
<1>5. w = u
  BY <1>1, <1>2, <1>4, SeqEqual
<1> QED
  BY <1>5 DEF u, w

(* The encoder after data: the open block's code counts its bytes, no byte *)
(* but the place kept for the code is a zero, and a decoder that has read  *)
(* the closed blocks has all of data but what the open block holds.        *)
Coded(e, data) ==
    /\ e \in [out : Seq(Nat), index : Nat, code : Nat]
    /\ e.index \in 1..Len(e.out)
    /\ e.code = Len(e.out) - e.index + 1
    /\ e.code <= MaxCode
    /\ \A k \in 1..Len(e.out) : e.out[k] <= MaxCode /\ (k # e.index => e.out[k] # 0)
    /\ \E c \in Nat, o \in Seq(Nat) :
          /\ ReadOf(e.out, e.index - 1) = Reading(0, c, o)
          /\ data = Opened(c, o) \o SubSeq(e.out, e.index + 1, Len(e.out))

LEMMA CodedFacts ==
    ASSUME NEW e, NEW data, Coded(e, data)
    PROVE  /\ e \in [out : Seq(Nat), index : Nat, code : Nat]
           /\ e.out \in Seq(Nat) /\ Len(e.out) \in Nat
           /\ e.index \in 1..Len(e.out) /\ e.index \in Nat
           /\ e.code = Len(e.out) - e.index + 1 /\ e.code \in 1..MaxCode
           /\ \A k \in 1..Len(e.out) :
                e.out[k] \in Nat /\ e.out[k] <= MaxCode /\ (k # e.index => e.out[k] # 0)
<1>1. e \in [out : Seq(Nat), index : Nat, code : Nat]
  BY DEF Coded
<1>2. e.index \in 1..Len(e.out) /\ e.code = Len(e.out) - e.index + 1 /\ e.code <= MaxCode
  BY DEF Coded
<1>3. \A k \in 1..Len(e.out) : e.out[k] <= MaxCode /\ (k # e.index => e.out[k] # 0)
  BY DEF Coded
<1>4. MaxCode \in Nat
  BY MaxCodeAssumption
<1>5. e.out \in Seq(Nat) /\ Len(e.out) \in Nat
  BY <1>1
<1>6. \A k \in 1..Len(e.out) : e.out[k] \in Nat
  BY <1>5
<1>7. e.code \in 1..MaxCode /\ e.index \in Nat
  BY <1>2, <1>4, <1>5
<1> QED
  BY <1>1, <1>2, <1>3, <1>5, <1>6, <1>7

WithCode(e) == [e.out EXCEPT ![e.index] = e.code]

LEMMA WithCodeFacts ==
    ASSUME NEW e, NEW data, Coded(e, data)
    PROVE  /\ WithCode(e) \in Seq(Nat)
           /\ Len(WithCode(e)) = Len(e.out)
           /\ WithCode(e)[e.index] = e.code
           /\ \A k \in 1..Len(e.out) : k # e.index => WithCode(e)[k] = e.out[k]
           /\ \A k \in 1..Len(e.out) : WithCode(e)[k] \in 1..MaxCode
<1> DEFINE s == e.out
           i == e.index
<1>0. MaxCode \in Nat
  BY MaxCodeAssumption
<1>1. s \in Seq(Nat) /\ i \in 1..Len(s) /\ Len(s) \in Nat
  BY CodedFacts
<1>2. e.code \in 1..MaxCode /\ e.code \in Nat
  BY <1>0, CodedFacts
<1>3. \A k \in 1..Len(s) : s[k] \in Nat /\ s[k] <= MaxCode /\ (k # i => s[k] # 0)
  BY CodedFacts
<1> DEFINE w == [s EXCEPT ![i] = e.code]
<1> HIDE DEF s, i
<1>4. w \in Seq(Nat) /\ Len(w) = Len(s) /\ w[i] = e.code
      /\ \A k \in 1..Len(s) : k # i => w[k] = s[k]
  BY <1>1, <1>2, WrittenSeq
<1> HIDE DEF w
<1>5. \A k \in 1..Len(s) : w[k] \in 1..MaxCode
  BY <1>0, <1>1, <1>2, <1>3, <1>4, SMTT(30)
<1> QED
  BY <1>4, <1>5 DEF w, s, i, WithCode

(* The blocks read back as the data, the open one with its code written. *)
LEMMA WithCodeReads ==
    ASSUME NEW e, NEW data, Coded(e, data)
    PROVE  ReadOf(WithCode(e), Len(WithCode(e))) = Reading(0, e.code, data)
<1> DEFINE s == e.out
           i == e.index
           w == WithCode(e)
<1>1. s \in Seq(Nat) /\ i \in 1..Len(s) /\ e.code = Len(s) - i + 1 /\ Len(s) \in Nat /\ i \in Nat
  BY DEF Coded
<1>2. PICK c \in Nat, o \in Seq(Nat) :
        ReadOf(s, i - 1) = Reading(0, c, o) /\ data = Opened(c, o) \o SubSeq(s, i + 1, Len(s))
  BY DEF Coded
<1>3. w \in Seq(Nat) /\ Len(w) = Len(s) /\ w[i] = e.code
      /\ (\A k \in 1..Len(s) : k # i => w[k] = s[k]) /\ \A k \in 1..Len(s) : w[k] \in 1..MaxCode
  BY WithCodeFacts
<1> HIDE DEF s, i, w
<1>4. ReadOf(w, i - 1) = ReadOf(s, i - 1)
  <2>1. i - 1 \in Nat /\ i - 1 <= Len(w) /\ i - 1 <= Len(s)
    BY <1>1, <1>3
  <2>2. \A k \in 1..(i - 1) : k \in 1..Len(s) /\ k # i
    BY <1>1
  <2>3. \A k \in 1..(i - 1) : w[k] = s[k]
    BY <1>3, <2>2
  <2> QED
    BY <1>1, <1>3, <2>1, <2>3, ReadAgrees
<1>5. SubSeq(w, i + 1, Len(w)) = SubSeq(s, i + 1, Len(s))
  <2>1. \A k \in (i + 1)..Len(s) : k \in 1..Len(s) /\ k # i
    BY <1>1
  <2>2. \A k \in (i + 1)..Len(s) : w[k] = s[k]
    BY <1>3, <2>1
  <2> QED
    BY <1>1, <1>3, <2>2, SameTail
<1>6. \A k \in i..Len(w) : w[k] # 0
  <2>1. \A k \in i..Len(s) : k \in 1..Len(s)
    BY <1>1
  <2>2. \A k \in i..Len(s) : w[k] \in 1..MaxCode
    BY <1>3, <2>1
  <2> QED
    BY <1>3, <2>2, MaxCodeAssumption
<1>7. i \in 1..Len(w) /\ w[i] = Len(w) - i + 1 /\ ReadOf(w, i - 1) = Reading(0, c, o)
  BY <1>1, <1>2, <1>3, <1>4
<1>8. ReadOf(w, Len(w)) = Reading(0, w[i], Opened(c, o) \o SubSeq(w, i + 1, Len(w)))
  BY <1>3, <1>6, <1>7, BlockRead
<1>9. ReadOf(w, Len(w)) = Reading(0, e.code, data)
  BY <1>2, <1>3, <1>5, <1>8
<1> QED
  BY <1>9 DEF w

LEMMA CloseCodes ==
    ASSUME NEW e, NEW data \in Seq(Nat), Coded(e, data)
    PROVE  Coded(CloseBlock(e), Opened(e.code, data))
<1> DEFINE w == WithCode(e)
           t == Append(w, 0)
           f == CloseBlock(e)
<1>1. w \in Seq(Nat) /\ Len(w) = Len(e.out) /\ \A k \in 1..Len(w) : w[k] \in 1..MaxCode
  BY WithCodeFacts
<1>2. ReadOf(w, Len(w)) = Reading(0, e.code, data)
  BY WithCodeReads
<1>3. e.code \in Nat /\ Opened(e.code, data) \in Seq(Nat) /\ MaxCode \in Nat /\ 1 < MaxCode
  BY MaxCodeAssumption DEF Coded, Opened
<1>4. f = [out |-> t, index |-> Len(w) + 1, code |-> 1]
  BY <1>1 DEF CloseBlock, WithCode
<1> HIDE DEF w
<1>5. t \in Seq(Nat) /\ Len(t) = Len(w) + 1 /\ t[Len(w) + 1] = 0
      /\ \A k \in 1..Len(w) : t[k] = w[k]
  BY <1>1, AppendProperties
<1> HIDE DEF t, f
<1>6. f \in [out : Seq(Nat), index : Nat, code : Nat] /\ f.out = t /\ f.index = Len(w) + 1
      /\ f.code = 1
  BY <1>1, <1>4, <1>5
<1>7. \A k \in 1..Len(t) : k \in 1..Len(w) \/ k = Len(w) + 1
  BY <1>1, <1>5
<1>8. \A k \in 1..Len(t) : t[k] <= MaxCode /\ (k # Len(w) + 1 => t[k] # 0)
  <2>1. ASSUME NEW k \in 1..Len(w) PROVE t[k] <= MaxCode /\ t[k] # 0
    <3>1. w[k] \in 1..MaxCode /\ t[k] = w[k]
      BY <1>1, <1>5
    <3> QED
      BY <1>3, <3>1
  <2>2. t[Len(w) + 1] <= MaxCode
    BY <1>3, <1>5
  <2> QED
    BY <1>7, <2>1, <2>2
<1>9. ReadOf(t, Len(w)) = Reading(0, e.code, data)
  <2>1. Len(w) \in Nat /\ Len(w) <= Len(t)
    BY <1>1, <1>5
  <2> QED
    BY <1>1, <1>2, <1>5, <2>1, ReadAgrees
<1>10. Opened(e.code, data) = Opened(e.code, data) \o SubSeq(t, Len(w) + 2, Len(t))
  <2>1. SubSeq(t, Len(w) + 2, Len(t)) = <<>>
    BY <1>1, <1>5, SubSeqProperties
  <2> QED
    BY <1>3, <2>1, ConcatEmptySeq
<1>11. Len(w) + 1 \in 1..Len(t) /\ (Len(w) + 1) - 1 = Len(w) /\ (Len(w) + 1) + 1 = Len(w) + 2
       /\ Len(t) - (Len(w) + 1) + 1 = 1
  BY <1>1, <1>5
<1>12. Coded(f, Opened(e.code, data))
  <2>1. f.index \in 1..Len(f.out) /\ f.code = Len(f.out) - f.index + 1 /\ f.code <= MaxCode
    BY <1>3, <1>6, <1>11
  <2>2. \A k \in 1..Len(f.out) : f.out[k] <= MaxCode /\ (k # f.index => f.out[k] # 0)
    BY <1>6, <1>8
  <2>3. ReadOf(f.out, f.index - 1) = Reading(0, e.code, data)
    BY <1>6, <1>9, <1>11
  <2>4. Opened(e.code, data) = Opened(e.code, data) \o SubSeq(f.out, f.index + 1, Len(f.out))
    BY <1>6, <1>10, <1>11
  <2> QED
    BY <1>3, <1>6, <2>1, <2>2, <2>3, <2>4 DEF Coded
<1> QED
  BY <1>12 DEF f

Filled(e, b) == [e EXCEPT !.out = Append(@, b), !.code = @ + 1]

LEMMA FillCodes ==
    ASSUME NEW e, NEW data \in Seq(Nat), Coded(e, data), e.code < MaxCode, NEW b \in 1..MaxCode
    PROVE  Coded(Filled(e, b), Append(data, b))
<1> DEFINE s == e.out
           i == e.index
           t == Append(s, b)
           f == Filled(e, b)
<1>0. MaxCode \in Nat
  BY MaxCodeAssumption
<1>1. s \in Seq(Nat) /\ i \in 1..Len(s) /\ e.code = Len(s) - i + 1 /\ Len(s) \in Nat /\ i \in Nat
      /\ e.code \in 1..MaxCode /\ e \in [out : Seq(Nat), index : Nat, code : Nat]
      /\ \A k \in 1..Len(s) : s[k] <= MaxCode /\ (k # i => s[k] # 0)
  BY CodedFacts
<1>1a. e.code \in Nat /\ e.code + 1 <= MaxCode /\ e.code + 1 \in Nat
  BY <1>0, <1>1
<1>2. PICK c \in Nat, o \in Seq(Nat) :
        ReadOf(s, i - 1) = Reading(0, c, o) /\ data = Opened(c, o) \o SubSeq(s, i + 1, Len(s))
  BY DEF Coded
<1>3. f.out = t /\ f.index = i /\ f.code = e.code + 1
  BY <1>1 DEF Filled
<1>4. b \in Nat /\ b # 0 /\ b <= MaxCode
  BY <1>0
<1>5. f \in [out : Seq(Nat), index : Nat, code : Nat]
  BY <1>1, <1>1a, <1>4, AppendProperties DEF Filled
<1> HIDE DEF s, i
<1>6. t \in Seq(Nat) /\ Len(t) = Len(s) + 1 /\ t[Len(s) + 1] = b
      /\ \A k \in 1..Len(s) : t[k] = s[k]
  BY <1>1, <1>4, AppendProperties
<1> HIDE DEF t, f
<1>7. \A k \in 1..Len(t) : k \in 1..Len(s) \/ k = Len(s) + 1
  <2>1. Len(s) \in Nat /\ Len(t) = Len(s) + 1
    BY <1>1, <1>6
  <2> QED
    BY <2>1
<1>8. \A k \in 1..Len(t) : t[k] <= MaxCode /\ (k # i => t[k] # 0)
  <2>1. ASSUME NEW k \in 1..Len(s) PROVE t[k] <= MaxCode /\ (k # i => t[k] # 0)
    BY <1>1, <1>6
  <2>2. t[Len(s) + 1] <= MaxCode /\ t[Len(s) + 1] # 0
    BY <1>4, <1>6
  <2> QED
    BY <1>7, <2>1, <2>2
<1>9. ReadOf(t, i - 1) = Reading(0, c, o)
  <2>1. i - 1 \in Nat /\ i - 1 <= Len(t) /\ i - 1 <= Len(s)
    BY <1>1, <1>6
  <2>2. \A k \in 1..(i - 1) : k \in 1..Len(s)
    BY <1>1
  <2>3. \A k \in 1..(i - 1) : t[k] = s[k]
    BY <1>6, <2>2
  <2> QED
    BY <1>1, <1>2, <1>6, <2>1, <2>3, ReadAgrees
<1>10. Append(data, b) = Opened(c, o) \o SubSeq(t, i + 1, Len(t))
  <2>1. Opened(c, o) \in Seq(Nat)
    BY DEF Opened
  <2> DEFINE n == Len(s) - i
  <2>2. n \in Nat /\ i + n = Len(s) /\ i + n < Len(t) /\ i + n + 1 = Len(t) /\ i \in 1..Len(t)
    BY <1>1, <1>6
  <2> HIDE DEF n
  <2>3. Append(Opened(c, o) \o SubSeq(t, i + 1, i + n), t[i + n + 1])
          = Opened(c, o) \o SubSeq(t, i + 1, i + n + 1)
    BY <1>6, <2>1, <2>2, OneMoreOf
  <2>4. SubSeq(t, i + 1, Len(s)) = SubSeq(s, i + 1, Len(s))
    <3>1. \A k \in (i + 1)..Len(s) : k \in 1..Len(s)
      BY <1>1
    <3>2. \A k \in (i + 1)..Len(s) : t[k] = s[k]
      BY <1>6, <3>1
    <3>3. Len(s) <= Len(t)
      BY <1>1, <1>6
    <3> QED
      BY <1>1, <1>6, <3>2, <3>3, SameTail
  <2>5. t[i + n + 1] = b
    BY <1>6, <2>2
  <2> QED
    BY <1>2, <2>2, <2>3, <2>4, <2>5
<1>11. i \in 1..Len(t) /\ e.code + 1 = Len(t) - i + 1
  BY <1>1, <1>6
<1>12. Coded(f, Append(data, b))
  <2>1. f.index \in 1..Len(f.out) /\ f.code = Len(f.out) - f.index + 1 /\ f.code <= MaxCode
    BY <1>1a, <1>3, <1>11
  <2>2. \A k \in 1..Len(f.out) : f.out[k] <= MaxCode /\ (k # f.index => f.out[k] # 0)
    BY <1>3, <1>8
  <2>3. ReadOf(f.out, f.index - 1) = Reading(0, c, o)
    BY <1>3, <1>9
  <2>4. Append(data, b) = Opened(c, o) \o SubSeq(f.out, f.index + 1, Len(f.out))
    BY <1>3, <1>10
  <2> QED
    BY <1>5, <2>1, <2>2, <2>3, <2>4 DEF Coded
<1> QED
  BY <1>12 DEF f

LEMMA ByteCodes ==
    ASSUME NEW e, NEW data \in Seq(Nat), Coded(e, data), e.code < MaxCode, NEW b \in 0..MaxCode
    PROVE  Coded(EncodeByte(e, b), Append(data, b)) /\ EncodeByte(e, b).code < MaxCode
<1>0. MaxCode \in Nat /\ 1 < MaxCode /\ e.code \in Nat /\ b \in Nat
  BY MaxCodeAssumption, CodedFacts
<1> DEFINE f == Filled(e, b)
<1>1. CASE b = 0
  <2>1. EncodeByte(e, b) = CloseBlock(e)
    BY <1>1 DEF EncodeByte
  <2>2. Opened(e.code, data) = Append(data, b)
    BY <1>1 DEF Opened
  <2>3. CloseBlock(e).code < MaxCode
    BY <1>0 DEF CloseBlock
  <2> QED
    BY <2>1, <2>2, <2>3, CloseCodes
<1>2. CASE b # 0
  <2>1. b \in 1..MaxCode
    BY <1>0, <1>2
  <2>2. Coded(f, Append(data, b)) /\ Append(data, b) \in Seq(Nat)
    <3>1. Coded(f, Append(data, b))
      BY <2>1, FillCodes
    <3> QED
      BY <1>0, <3>1, AppendProperties
  <2>3. f.code = e.code + 1
    BY CodedFacts DEF Filled
  <2>4. EncodeByte(e, b) = IF f.code = MaxCode THEN CloseBlock(f) ELSE f
    BY <1>2 DEF EncodeByte, Filled
  <2> HIDE DEF f
  <2>5. CASE f.code = MaxCode
    <3>1. Opened(f.code, Append(data, b)) = Append(data, b)
      BY <1>0, <2>5 DEF Opened
    <3>2. CloseBlock(f).code < MaxCode
      BY <1>0 DEF CloseBlock
    <3>3. Coded(CloseBlock(f), Append(data, b))
      BY <2>2, <3>1, CloseCodes
    <3> QED
      BY <2>4, <2>5, <3>2, <3>3
  <2>6. CASE f.code # MaxCode
    BY <1>0, <2>2, <2>3, <2>4, <2>6
  <2> QED
    BY <2>5, <2>6
<1> QED
  BY <1>1, <1>2

LEMMA NothingCoded == Coded(EncoderInit, <<>>) /\ EncoderInit.code < MaxCode
<1>0. MaxCode \in Nat /\ 1 < MaxCode
  BY MaxCodeAssumption
<1> DEFINE z == <<0>>
<1>1. z \in Seq(Nat) /\ Len(z) = 1 /\ z[1] = 0
  OBVIOUS
<1>2. EncoderInit = [out |-> z, index |-> 1, code |-> 1]
  BY DEF EncoderInit
<1> HIDE DEF z
<1>3. EncoderInit \in [out : Seq(Nat), index : Nat, code : Nat] /\ EncoderInit.out = z
      /\ EncoderInit.index = 1 /\ EncoderInit.code = 1
  BY <1>1, <1>2
<1>4. ReadOf(z, 0) = Reading(0, MaxCode, <<>>)
  BY <1>1, ReadNothing DEF DecoderInit, Reading
<1>5. <<>> \in Seq(Nat) /\ <<>> = Opened(MaxCode, <<>>) \o SubSeq(z, 2, 1)
  <2>1. Opened(MaxCode, <<>>) = <<>>
    BY <1>0 DEF Opened
  <2>2. SubSeq(z, 2, 1) = <<>>
    BY <1>1, SubSeqProperties
  <2>3. <<>> \in Seq(Nat)
    OBVIOUS
  <2> QED
    BY <2>1, <2>2, <2>3, ConcatEmptySeq
<1>6. \A k \in 1..Len(z) : z[k] <= MaxCode /\ (k # 1 => z[k] # 0)
  BY <1>0, <1>1
<1>7. 1 \in 1..Len(z) /\ 1 = Len(z) - 1 + 1 /\ 1 <= MaxCode /\ 1 - 1 = 0 /\ 1 + 1 = 2
  BY <1>0, <1>1
<1> DEFINE e == EncoderInit
<1> HIDE DEF e
<1>8. e \in [out : Seq(Nat), index : Nat, code : Nat] /\ e.out = z /\ e.index = 1 /\ e.code = 1
  BY <1>3 DEF e
<1>9. \E c \in Nat, o \in Seq(Nat) :
        /\ ReadOf(e.out, e.index - 1) = Reading(0, c, o)
        /\ <<>> = Opened(c, o) \o SubSeq(e.out, e.index + 1, Len(e.out))
  BY <1>0, <1>1, <1>4, <1>5, <1>7, <1>8
<1>10. Coded(e, <<>>)
  BY <1>6, <1>7, <1>8, <1>9 DEF Coded
<1> QED
  BY <1>0, <1>8, <1>10 DEF e

(* Whatever is encoded, the encoder's state stands for it. *)
LEMMA DataCoded ==
    ASSUME NEW data \in Seq(0..MaxCode)
    PROVE  LET e == Run("encoder", EncoderInit, data) IN Coded(e, data) /\ e.code < MaxCode
<1> DEFINE Ok(s) == LET e == Run("encoder", EncoderInit, s) IN Coded(e, s) /\ e.code < MaxCode
           T == {s \in Seq(0..MaxCode) : Ok(s)}
<1>1. <<>> \in T
  <2>1. Run("encoder", EncoderInit, <<>>) = EncoderInit
    BY RunOfNothing
  <2> QED
    BY <2>1, NothingCoded
<1>2. ASSUME NEW s \in T, NEW b \in 0..MaxCode PROVE Append(s, b) \in T
  <2> DEFINE e == Run("encoder", EncoderInit, s)
  <2>1. s \in Seq(0..MaxCode) /\ s \in Seq(Nat) /\ Append(s, b) \in Seq(0..MaxCode)
    BY MaxCodeAssumption
  <2>2. Run("encoder", EncoderInit, Append(s, b)) = EncodeByte(e, b)
    BY <2>1, RunAppend DEF Fed
  <2>3. Coded(e, s) /\ e.code < MaxCode
    OBVIOUS
  <2> HIDE DEF e
  <2>4. Coded(EncodeByte(e, b), Append(s, b)) /\ EncodeByte(e, b).code < MaxCode
    BY <2>1, <2>3, ByteCodes
  <2> QED
    BY <2>1, <2>2, <2>4
<1>3. T \in SUBSET Seq(0..MaxCode)
  OBVIOUS
<1> HIDE DEF T
<1>4. data \in T
  BY <1>1, <1>2, <1>3, EverySequence
<1> QED
  BY <1>4 DEF T

(* Decoding what was encoded gives the data back, whatever the data, and   *)
(* no byte but the delimiter at the end is a zero or exceeds a byte        *)
(* (cobs::encode and cobs::decode).                                        *)
THEOREM CobsRoundTrip ==
    \A data \in Seq(Bytes) :
        /\ DecodesOk(Encode(data)) /\ Decode(Encode(data)) = data
        /\ Encode(data) \in Seq(Bytes)
        /\ \A k \in DOMAIN Encode(data) : Encode(data)[k] = 0 <=> k = Len(Encode(data))
<1> SUFFICES ASSUME NEW data \in Seq(0..MaxCode)
             PROVE  /\ DecodesOk(Encode(data)) /\ Decode(Encode(data)) = data
                    /\ Encode(data) \in Seq(0..MaxCode)
                    /\ \A k \in DOMAIN Encode(data) :
                          Encode(data)[k] = 0 <=> k = Len(Encode(data))
  BY DEF Bytes
<1> DEFINE e == FoldLeft(EncodeByte, EncoderInit, data)
           w == WithCode(e)
           t == Append(w, 0)
<1>1. data \in Seq(Nat) /\ MaxCode \in Nat
  BY MaxCodeAssumption
<1>2. Coded(e, data) /\ e.code < MaxCode
  BY <1>1, DataCoded, EncoderRuns
<1>3. Encode(data) = t
  BY DEF Encode, CloseBlock, WithCode
<1> HIDE DEF e
<1>4. w \in Seq(Nat) /\ \A k \in 1..Len(w) : w[k] \in 1..MaxCode
  BY <1>2, WithCodeFacts
<1>5. ReadOf(w, Len(w)) = Reading(0, e.code, data)
  BY <1>2, WithCodeReads
<1> HIDE DEF w
<1>6. FoldLeft(DecodeByte, DecoderInit, w) = Reading(0, e.code, data)
  BY <1>4, <1>5, DecoderRuns, ReadWhole
<1>7. t \in Seq(Nat) /\ t # <<>> /\ Len(t) = Len(w) + 1 /\ t[Len(w) + 1] = 0
      /\ \A k \in 1..Len(w) : t[k] = w[k]
  BY <1>4, AppendProperties
<1>8. Len(w) \in Nat
  BY <1>4
<1> HIDE DEF t
<1>9. Last(t) = 0 /\ Front(t) = w
  <2>1. Last(t) = 0
    BY <1>7, <1>8 DEF Last
  <2>2. SubSeq(t, 1, Len(w)) \in Seq(Nat) /\ Len(SubSeq(t, 1, Len(w))) = Len(w)
        /\ \A k \in 1..Len(w) : SubSeq(t, 1, Len(w))[k] = t[k]
    BY <1>7, <1>8, PrefixFacts
  <2>3. SubSeq(t, 1, Len(w)) = w
    BY <1>4, <1>7, <2>2, SeqEqual
  <2>4. Len(t) - 1 = Len(w)
    BY <1>7, <1>8
  <2> QED
    BY <2>1, <2>3, <2>4 DEF Front
<1>10. DecodesOk(t) /\ Decode(t) = data
  <2> DEFINE end == Reading(0, e.code, data)
  <2>1. end.ok = TRUE /\ end.due = 0 /\ end.out = data
    BY DEF Reading
  <2>2. Decoded(t) = [end EXCEPT !.ok = @ /\ end.due = 0]
    BY <1>6, <1>7, <1>9 DEF Decoded
  <2>3. Decoded(t).out = data /\ Decoded(t).ok
    BY <2>1, <2>2 DEF Reading
  <2> QED
    BY <2>3 DEF DecodesOk, Decode
<1>11. \A k \in 1..Len(t) : k \in 1..Len(w) \/ k = Len(w) + 1
  BY <1>7, <1>8
<1>12. \A k \in 1..Len(t) : t[k] \in 0..MaxCode /\ (t[k] = 0 <=> k = Len(t))
  <2>1. ASSUME NEW k \in 1..Len(w) PROVE t[k] \in 0..MaxCode /\ t[k] # 0 /\ k # Len(t)
    <3>1. w[k] \in 1..MaxCode /\ t[k] = w[k]
      BY <1>4, <1>7
    <3>2. k # Len(t)
      BY <1>7, <1>8
    <3> QED
      BY <1>1, <3>1, <3>2
  <2>2. t[Len(t)] = 0 /\ 0 \in 0..MaxCode
    BY <1>1, <1>7
  <2> QED
    BY <1>7, <1>11, <2>1, <2>2
<1>13. t \in Seq(0..MaxCode) /\ DOMAIN t = 1..Len(t)
  <2>1. t \in [1..Len(t) -> Nat] /\ DOMAIN t = 1..Len(t) /\ Len(t) \in Nat
    BY <1>7, LenProperties
  <2>2. t \in [1..Len(t) -> 0..MaxCode]
    BY <1>12, <2>1
  <2> QED
    BY <2>1, <2>2, SeqDef
<1> QED
  BY <1>3, <1>10, <1>12, <1>13

----------------------------------------------------------------------------
(* A frame whose tail is lost.  The decoder only adds to what it has read. *)

Decoders == [due : Nat, code : Nat, out : Seq(Nat), ok : BOOLEAN]

Begins(s, t) == Len(s) <= Len(t) /\ \A i \in 1..Len(s) : s[i] = t[i]

LEMMA OutGrows ==
    ASSUME NEW d \in Decoders, NEW b \in Nat
    PROVE  DecodeByte(d, b) \in Decoders /\ Begins(d.out, DecodeByte(d, b).out)
<1>1. d.due \in Nat /\ d.code \in Nat /\ d.out \in Seq(Nat) /\ d.ok \in BOOLEAN
  BY DEF Decoders
<1>2. Begins(d.out, d.out)
  BY <1>1 DEF Begins
<1>3. ASSUME NEW x \in Nat
      PROVE  Append(d.out, x) \in Seq(Nat) /\ Begins(d.out, Append(d.out, x))
  BY <1>1, <1>3, AppendProperties DEF Begins
<1>4. CASE b = 0 \/ ~d.ok
  <2>1. DecodeByte(d, b) = [d EXCEPT !.ok = FALSE]
    BY <1>4 DEF DecodeByte
  <2>2. DecodeByte(d, b) \in Decoders /\ DecodeByte(d, b).out = d.out
    BY <2>1 DEF Decoders
  <2> QED
    BY <1>2, <2>2
<1>5. CASE ~(b = 0 \/ ~d.ok) /\ d.due > 0
  <2>1. DecodeByte(d, b) = [d EXCEPT !.due = @ - 1, !.out = Append(@, b)]
    BY <1>5 DEF DecodeByte
  <2>2. d.due - 1 \in Nat /\ Append(d.out, b) \in Seq(Nat)
    BY <1>1, <1>3, <1>5
  <2>3. DecodeByte(d, b) \in Decoders /\ DecodeByte(d, b).out = Append(d.out, b)
    BY <2>1, <2>2 DEF Decoders
  <2> QED
    BY <1>3, <2>3
<1>6. CASE ~(b = 0 \/ ~d.ok) /\ ~(d.due > 0)
  <2> DEFINE o == IF d.code < MaxCode THEN Append(d.out, 0) ELSE d.out
  <2>1. o \in Seq(Nat) /\ Begins(d.out, o)
    BY <1>1, <1>2, <1>3
  <2>2. DecodeByte(d, b) = [d EXCEPT !.due = b - 1, !.code = b, !.out = o]
    BY <1>6 DEF DecodeByte
  <2>3. b - 1 \in Nat
    BY <1>6
  <2> HIDE DEF o
  <2>4. DecodeByte(d, b) \in Decoders /\ DecodeByte(d, b).out = o
    BY <2>1, <2>2, <2>3 DEF Decoders
  <2> QED
    BY <2>1, <2>4
<1> QED
  BY <1>4, <1>5, <1>6

LEMMA BeginsTwice ==
    ASSUME NEW s \in Seq(Nat), NEW t \in Seq(Nat), NEW u \in Seq(Nat), Begins(s, t), Begins(t, u)
    PROVE  Begins(s, u)
<1>1. Len(s) \in Nat /\ Len(t) \in Nat /\ Len(u) \in Nat
  OBVIOUS
<1>2. Len(s) <= Len(t) /\ Len(t) <= Len(u)
  BY DEF Begins
<1>3. ASSUME NEW i \in 1..Len(s) PROVE s[i] = u[i]
  <2>1. i \in 1..Len(t)
    BY <1>1, <1>2
  <2> QED
    BY <1>3, <2>1 DEF Begins
<1>4. Len(s) <= Len(u)
  BY <1>1, <1>2
<1> QED
  BY <1>3, <1>4 DEF Begins

(* Fewer bytes leave a beginning of what more bytes leave. *)
LEMMA ReadGrows ==
    ASSUME NEW s \in Seq(Nat)
    PROVE  \A m \in 0..Len(s) : ReadOf(s, m) \in Decoders
              /\ \A n \in 0..m : Begins(ReadOf(s, n).out, ReadOf(s, m).out)
<1> DEFINE T == {m \in Nat : m <= Len(s) =>
                   ReadOf(s, m) \in Decoders
                   /\ \A n \in 0..m : ReadOf(s, n) \in Decoders
                                      /\ Begins(ReadOf(s, n).out, ReadOf(s, m).out)}
<1>0. \A d \in Decoders : d.out \in Seq(Nat) /\ Begins(d.out, d.out)
  BY DEF Decoders, Begins
<1>1. 0 \in T
  <2>1. DecoderInit \in Decoders
    BY MaxCodeAssumption DEF DecoderInit, Decoders
  <2>2. ReadOf(s, 0) \in Decoders /\ Begins(ReadOf(s, 0).out, ReadOf(s, 0).out)
    BY <1>0, <2>1, ReadNothing
  <2>3. \A n \in 0..0 : n = 0
    OBVIOUS
  <2> QED
    BY <2>2, <2>3
<1>2. ASSUME NEW m \in T PROVE m + 1 \in T
  <2> SUFFICES ASSUME m + 1 <= Len(s)
               PROVE  ReadOf(s, m + 1) \in Decoders
                      /\ \A n \in 0..(m + 1) : ReadOf(s, n) \in Decoders
                                         /\ Begins(ReadOf(s, n).out, ReadOf(s, m + 1).out)
    OBVIOUS
  <2>1. m \in Nat /\ m < Len(s) /\ m + 1 \in 1..Len(s) /\ Len(s) \in Nat
    OBVIOUS
  <2>2. ReadOf(s, m) \in Decoders
        /\ \A n \in 0..m : ReadOf(s, n) \in Decoders /\ Begins(ReadOf(s, n).out, ReadOf(s, m).out)
    BY <2>1
  <2> HIDE DEF T
  <2>3. s[m + 1] \in Nat
    BY <2>1, ElementOfSeq
  <2>4. ReadOf(s, m + 1) = DecodeByte(ReadOf(s, m), s[m + 1])
    BY <2>1, ReadStep
  <2>5. ReadOf(s, m + 1) \in Decoders /\ Begins(ReadOf(s, m).out, ReadOf(s, m + 1).out)
    BY <2>2, <2>3, <2>4, OutGrows
  <2>6. \A n \in 0..(m + 1) : n \in 0..m \/ n = m + 1
    BY <2>1
  <2>7. ASSUME NEW n \in 0..m PROVE Begins(ReadOf(s, n).out, ReadOf(s, m + 1).out)
    <3>1. ReadOf(s, n) \in Decoders /\ Begins(ReadOf(s, n).out, ReadOf(s, m).out)
      BY <2>2
    <3>2. /\ ReadOf(s, n).out \in Seq(Nat) /\ ReadOf(s, m).out \in Seq(Nat)
          /\ ReadOf(s, m + 1).out \in Seq(Nat)
      BY <1>0, <2>2, <2>5, <3>1
    <3> QED
      BY <2>5, <3>1, <3>2, BeginsTwice
  <2>8. Begins(ReadOf(s, m + 1).out, ReadOf(s, m + 1).out)
    BY <1>0, <2>5
  <2> QED
    BY <2>2, <2>5, <2>6, <2>7, <2>8
<1>3. T \in SUBSET Nat
  OBVIOUS
<1> HIDE DEF T
<1>4. \A m \in Nat : m \in T
  BY <1>1, <1>2, <1>3, EveryNatural
<1>5. \A m \in 0..Len(s) : m \in Nat /\ m <= Len(s)
  OBVIOUS
<1> QED
  BY <1>4, <1>5 DEF T

(* A trailing delimiter is stripped before the bytes are read. *)
LEMMA Delimited ==
    ASSUME NEW u \in Seq(Nat)
    PROVE  Decode(Append(u, 0)) = Run("decoder", DecoderInit, u).out
<1> DEFINE t == Append(u, 0)
           end == FoldLeft(DecodeByte, DecoderInit, u)
<1>1. t \in Seq(Nat) /\ Len(t) = Len(u) + 1 /\ t[Len(u) + 1] = 0
      /\ \A k \in 1..Len(u) : t[k] = u[k]
  BY AppendProperties
<1> HIDE DEF t
<1>2. t # <<>> /\ Last(t) = 0
  BY <1>1 DEF Last
<1>3. Front(t) = u
  <2>1. Len(t) - 1 = Len(u) /\ Len(u) \in 0..Len(t)
    BY <1>1
  <2>2. SubSeq(t, 1, Len(u)) \in Seq(Nat) /\ Len(SubSeq(t, 1, Len(u))) = Len(u)
        /\ \A k \in 1..Len(u) : SubSeq(t, 1, Len(u))[k] = t[k]
    BY <1>1, <2>1, PrefixFacts
  <2>3. SubSeq(t, 1, Len(u)) = u
    BY <1>1, <2>2, SeqEqual
  <2> QED
    BY <2>1, <2>3 DEF Front
<1>4. Decoded(t) = [end EXCEPT !.ok = @ /\ end.due = 0]
  BY <1>2, <1>3 DEF Decoded
<1>5. end = Run("decoder", DecoderInit, u)
  BY DecoderRuns
<1>6. end \in Decoders
  <2>1. Len(u) \in 0..Len(u)
    OBVIOUS
  <2>2. ReadOf(u, Len(u)) = end
    BY <1>5, ReadWhole
  <2> HIDE DEF end
  <2> QED
    BY <2>1, <2>2, ReadGrows
<1> HIDE DEF end
<1>7. Decoded(t).out = end.out
  BY <1>4, <1>6 DEF Decoders
<1> QED
  BY <1>5, <1>7 DEF Decode, t

(* A frame whose tail was lost, so that the delimiter of the next one ends *)
(* it, is refused or decodes to a beginning of what was sent, and to       *)
(* nothing that was not (cobs::decode).                                    *)
THEOREM TornFrameIsPrefix ==
    \A data \in Seq(Bytes) : \A n \in 1..(Len(Encode(data)) - 2) :
        LET torn == Append(SubSeq(Encode(data), 1, n), 0)
        IN  DecodesOk(torn) => IsPrefix(Decode(torn), data)
<1> SUFFICES ASSUME NEW data \in Seq(Bytes), NEW n \in 1..(Len(Encode(data)) - 2)
             PROVE  IsPrefix(Decode(Append(SubSeq(Encode(data), 1, n), 0)), data)
  OBVIOUS
<1> DEFINE e == Encode(data)
           l == Len(e) - 1
           u == SubSeq(e, 1, l)
           v == SubSeq(e, 1, n)
<1>1. /\ Decode(e) = data /\ e \in Seq(Bytes)
      /\ \A k \in DOMAIN e : e[k] = 0 <=> k = Len(e)
  BY CobsRoundTrip
<1>2. \A x \in Seq(Bytes) : x \in Seq(Nat)
  <2>1. \A x \in Seq(0..MaxCode) : x \in Seq(Nat)
    BY MaxCodeAssumption
  <2> QED
    BY <2>1 DEF Bytes
<1>3. n \in 1..(Len(e) - 2)
  OBVIOUS
<1> HIDE DEF e
<1>4. e \in Seq(Nat) /\ data \in Seq(Nat)
  BY <1>1, <1>2
<1>5. /\ Len(e) \in Nat /\ n \in 0..l /\ l \in 0..Len(e) /\ n \in 0..Len(e)
      /\ Len(e) = l + 1 /\ l + 1 \in 1..Len(e)
  BY <1>3, <1>4
<1>6. /\ u \in Seq(Nat) /\ Len(u) = l /\ \A k \in 1..l : u[k] = e[k]
      /\ v \in Seq(Nat)
  BY <1>4, <1>5, PrefixFacts
<1>7. e[Len(e)] = 0
  <2>1. Len(e) \in DOMAIN e
    BY <1>4, <1>5
  <2> QED
    BY <1>1, <2>1
<1>8. e = Append(u, 0)
  <2> HIDE DEF u, l
  <2>1. Len(e) = Len(u) + 1 /\ \A k \in 1..Len(u) : e[k] = u[k]
    BY <1>5, <1>6
  <2> QED
    BY <1>4, <1>6, <1>7, <2>1, LastOnTop
<1>9. data = ReadOf(e, l).out
  <2>1. Decode(Append(u, 0)) = Run("decoder", DecoderInit, u).out
    BY <1>6, Delimited
  <2> QED
    BY <1>1, <1>8, <2>1 DEF ReadOf
<1>10. Decode(Append(v, 0)) = ReadOf(e, n).out
  BY <1>6, Delimited DEF ReadOf
<1>11. /\ Begins(ReadOf(e, n).out, ReadOf(e, l).out)
       /\ ReadOf(e, n) \in Decoders /\ ReadOf(e, l) \in Decoders
  BY <1>4, <1>5, ReadGrows
<1>12. ReadOf(e, n).out \in Seq(Nat) /\ ReadOf(e, l).out \in Seq(Nat)
  BY <1>11 DEF Decoders
<1>13. IsPrefix(ReadOf(e, n).out, ReadOf(e, l).out)
  <2> DEFINE a == ReadOf(e, n).out
             b == ReadOf(e, l).out
  <2>1. Begins(a, b) /\ a \in Seq(Nat) /\ b \in Seq(Nat)
    BY <1>11, <1>12
  <2> HIDE DEF a, b
  <2>2. Len(a) \in 0..Len(b) /\ Len(a) \in 0..Len(a)
    BY <2>1 DEF Begins
  <2> DEFINE p == SubSeq(a, 1, Len(a))
             q == SubSeq(b, 1, Len(a))
  <2>3. /\ p \in Seq(Nat) /\ Len(p) = Len(a) /\ \A k \in 1..Len(a) : p[k] = a[k]
        /\ q \in Seq(Nat) /\ Len(q) = Len(a) /\ \A k \in 1..Len(a) : q[k] = b[k]
    BY <2>1, <2>2, PrefixFacts
  <2> HIDE DEF p, q
  <2>4. p = q
    BY <2>1, <2>3, SeqEqual DEF Begins
  <2> QED
    BY <2>1, <2>4 DEF IsPrefix, Begins, a, b, p, q
<1> QED
  BY <1>9, <1>10, <1>13 DEF e

----------------------------------------------------------------------------
(* The file of a clipboard transfer.                                       *)

(* A file arrives with its name and its content, whatever they are, and a  *)
(* header cut off before the name's last byte is refused, never read past  *)
(* its end (pack_first_chunk and unpack_first_chunk).                      *)
THEOREM HeaderRoundTrip ==
    ASSUME MaxName \in Nat, NEW S, NEW name \in Seq(S), NEW content \in Seq(S)
    PROVE  FileArrives(name, content)
<1> DEFINE V == S \cup Nat
           n == Len(name)
           bytes == (<<n>> \o name) \o content
<1>1. CASE name = <<>> \/ n > MaxName
  <2>1. pack_first_chunk(name, content).ok = FALSE
    BY <1>1 DEF pack_first_chunk
  <2> QED
    BY <2>1 DEF FileArrives
<1>2. CASE ~(name = <<>> \/ n > MaxName)
  <2>1. n \in Nat /\ n <= MaxName /\ n > 0
    BY <1>2
  <2>2. pack_first_chunk(name, content) = [ok |-> TRUE, bytes |-> bytes]
    BY <1>2 DEF pack_first_chunk
  <2>3. <<n>> \in Seq(V) /\ name \in Seq(V) /\ content \in Seq(V) /\ Len(<<n>>) = 1
        /\ Len(content) \in Nat
    BY <2>1
  <2> DEFINE head == <<n>> \o name
  <2>4. head \in Seq(V) /\ Len(head) = 1 + n /\ head[1] = n /\ \A i \in 1..n : head[1 + i] = name[i]
    <3>1. /\ head \in Seq(V) /\ Len(head) = 1 + n
          /\ \A i \in 1..(1 + n) : head[i] = IF i <= 1 THEN <<n>>[i] ELSE name[i - 1]
      BY <2>1, <2>3, ConcatProperties
    <3>2. 1 \in 1..(1 + n) /\ \A i \in 1..n : 1 + i \in 1..(1 + n) /\ ~(1 + i <= 1) /\ (1 + i) - 1 = i
      BY <2>1
    <3> HIDE DEF head
    <3> QED
      BY <3>1, <3>2
  <2> HIDE DEF head
  <2>5. /\ bytes \in Seq(V) /\ Len(bytes) = 1 + n + Len(content)
        /\ \A i \in 1..(1 + n) : bytes[i] = head[i]
        /\ \A i \in 1..Len(content) : bytes[1 + n + i] = content[i]
    <3>1. bytes = head \o content
      BY DEF head
    <3> HIDE DEF bytes
    <3>2. /\ bytes \in Seq(V) /\ Len(bytes) = 1 + n + Len(content)
          /\ \A i \in 1..(1 + n + Len(content)) :
                bytes[i] = IF i <= 1 + n THEN head[i] ELSE content[i - (1 + n)]
      <4>1. head \in Seq(V) /\ content \in Seq(V)
        BY <2>3, <2>4
      <4>2. /\ bytes \in Seq(V) /\ Len(bytes) = Len(head) + Len(content)
            /\ \A i \in 1..(Len(head) + Len(content)) :
                  bytes[i] = IF i <= Len(head) THEN head[i] ELSE content[i - Len(head)]
        BY <3>1, <4>1, ConcatProperties
      <4> QED
        BY <2>4, <4>2
    <3>3. /\ \A i \in 1..(1 + n) : i \in 1..(1 + n + Len(content)) /\ i <= 1 + n
          /\ \A i \in 1..Len(content) : 1 + n + i \in 1..(1 + n + Len(content))
                /\ ~(1 + n + i <= 1 + n) /\ (1 + n + i) - (1 + n) = i
      BY <2>1, <2>3
    <3> QED
      BY <3>2, <3>3
  <2> HIDE DEF bytes
  <2>6. /\ bytes[1] = n /\ bytes # <<>> /\ Len(bytes) >= 1 + n
        /\ \A i \in 1..n : bytes[1 + i] = name[i]
    BY <2>1, <2>3, <2>4, <2>5
  <2>7. SubSeq(bytes, 2, 1 + n) = name
    <3> DEFINE s == SubSeq(bytes, 2, 1 + n)
    <3>1. \A i \in 2..(1 + n) : bytes[i] \in V
      BY <2>1, <2>3, <2>5, ElementOfSeq
    <3>2. s \in Seq(V) /\ Len(s) = n /\ \A i \in 1..n : s[i] = bytes[1 + i]
      <4>1. /\ s \in Seq(V) /\ Len(s) = IF 2 <= 1 + n THEN (1 + n) - 2 + 1 ELSE 0
            /\ \A i \in 1..((1 + n) - 2 + 1) : s[i] = bytes[2 + i - 1]
        BY <2>1, <3>1, SubSeqProperties
      <4>2. 2 <= 1 + n /\ (1 + n) - 2 + 1 = n /\ \A i \in 1..n : 2 + i - 1 = 1 + i
        BY <2>1
      <4> HIDE DEF s
      <4> QED
        BY <4>1, <4>2
    <3> HIDE DEF s
    <3>3. s = name
      BY <2>3, <2>6, <3>2, SeqEqual
    <3> QED
      BY <3>3 DEF s
  <2>8. SubSeq(bytes, 2 + n, Len(bytes)) = content
    <3> DEFINE l == Len(content)
               s == SubSeq(bytes, 2 + n, 1 + n + l)
    <3>1. \A i \in (2 + n)..(1 + n + l) : bytes[i] \in V
      BY <2>1, <2>3, <2>5, ElementOfSeq
    <3>2. s \in Seq(V) /\ Len(s) = l /\ \A i \in 1..l : s[i] = bytes[1 + n + i]
      <4>1. /\ s \in Seq(V)
            /\ Len(s) = IF 2 + n <= 1 + n + l THEN (1 + n + l) - (2 + n) + 1 ELSE 0
            /\ \A i \in 1..((1 + n + l) - (2 + n) + 1) : s[i] = bytes[(2 + n) + i - 1]
        BY <2>1, <2>3, <3>1, SubSeqProperties
      <4>2. /\ (1 + n + l) - (2 + n) + 1 = l /\ (2 + n <= 1 + n + l <=> l # 0)
            /\ \A i \in 1..l : (2 + n) + i - 1 = 1 + n + i
        BY <2>1, <2>3
      <4> HIDE DEF s
      <4> QED
        BY <4>1, <4>2
    <3> HIDE DEF s
    <3>3. s = content
      BY <2>3, <2>5, <3>2, SeqEqual
    <3> QED
      BY <2>5, <3>3 DEF s
  <2>9. unpack_first_chunk(bytes) = [ok |-> TRUE, name |-> name, content |-> content]
    <3>1. bytes # <<>> /\ bytes[1] <= MaxName /\ Len(bytes) >= 1 + bytes[1]
      BY <2>1, <2>6
    <3> QED
      BY <2>6, <2>7, <2>8, <3>1 DEF unpack_first_chunk
  <2>10. ASSUME NEW m \in 0..n PROVE ~unpack_first_chunk(SubSeq(bytes, 1, m)).ok
    <3> DEFINE s == SubSeq(bytes, 1, m)
    <3>1. m \in Nat /\ m <= n /\ \A i \in 1..m : bytes[i] \in V
      BY <2>1, <2>3, <2>5, ElementOfSeq
    <3>2. s \in Seq(V) /\ Len(s) = m /\ \A i \in 1..m : s[i] = bytes[i]
      <4>1. /\ s \in Seq(V) /\ Len(s) = IF 1 <= m THEN m - 1 + 1 ELSE 0
            /\ \A i \in 1..(m - 1 + 1) : s[i] = bytes[1 + i - 1]
        BY <3>1, SubSeqProperties
      <4>2. m - 1 + 1 = m /\ (1 <= m <=> m # 0) /\ \A i \in 1..m : 1 + i - 1 = i
        BY <3>1
      <4> HIDE DEF s
      <4> QED
        BY <4>1, <4>2
    <3> HIDE DEF s
    <3>3. s = <<>> \/ ~(Len(s) >= 1 + s[1])
      <4>1. CASE m = 0
        BY <3>2, <4>1
      <4>2. CASE m # 0
        <5>1. s[1] = n
          BY <2>6, <3>1, <3>2, <4>2
        <5> QED
          BY <2>1, <3>1, <3>2, <5>1
      <4> QED
        BY <4>1, <4>2
    <3>4. unpack_first_chunk(s).ok = (s # <<>> /\ s[1] <= MaxName /\ Len(s) >= 1 + s[1])
      BY DEF unpack_first_chunk
    <3> QED
      BY <3>3, <3>4 DEF s
  <2> QED
    BY <2>2, <2>9, <2>10 DEF FileArrives
<1> QED
  BY <1>1, <1>2

LEMMA GreatestElement ==
    ASSUME NEW n \in Nat, NEW T \in SUBSET (1..n), T # {}
    PROVE  \E x \in T : \A y \in T : y <= x
<1> DEFINE R == {n - x : x \in T}
<1>1. R \in SUBSET Nat /\ R # {}
  <2>1. \A x \in T : n - x \in Nat
    OBVIOUS
  <2>2. PICK x \in T : TRUE
    OBVIOUS
  <2>3. n - x \in R
    BY <2>2
  <2> QED
    BY <2>1, <2>3
<1>2. PICK r \in R : \A y \in R : r <= y
  <2> HIDE DEF R
  <2> QED
    BY <1>1, LeastElement
<1>3. PICK x \in T : r = n - x
  BY <1>2
<1>4. \A y \in T : n - x <= n - y
  BY <1>2, <1>3
<1> QED
  BY <1>3, <1>4

LEMMA OfSequence ==
    ASSUME NEW W, NEW s \in Seq(W)
    PROVE  /\ Len(s) \in Nat /\ DOMAIN s = 1..Len(s) /\ \A i \in 1..Len(s) : s[i] \in W
           /\ (s # <<>> => Len(s) # 0) /\ (Len(s) # 0 => s # <<>>)
           /\ s \in [1..Len(s) -> W]
  BY LenProperties, ElementOfSeq, EmptySeq

LEMMA IsSequence ==
    ASSUME NEW W, NEW n \in Nat, NEW f \in [1..n -> W]
    PROVE  f \in Seq(W) /\ Len(f) = n /\ DOMAIN f = 1..n /\ (n # 0 => f # <<>>)
<1>1. f \in Seq(W)
  BY SeqDef
<1>2. Len(f) = n
  BY <1>1, LenProperties
<1> QED
  BY <1>1, <1>2, OfSequence

LEMMA OneCharacter ==
    ASSUME NEW W, NEW c \in W
    PROVE  <<c>> \in Seq(W) /\ Len(<<c>>) = 1 /\ <<c>>[1] = c
  OBVIOUS

LEMMA ThreeCharacters ==
    ASSUME NEW W, NEW c \in W, NEW d \in W
    PROVE  /\ <<c, d, c>> \in Seq(W) /\ <<c, d, c>> # <<>> /\ <<c, d, c>>[1] = c
           /\ \A i \in DOMAIN <<c, d, c>> : <<c, d, c>>[i] \in {c, d}
  OBVIOUS

(* Part of a name: its characters are the name's. *)
LEMMA PartOf ==
    ASSUME NEW W, NEW s \in Seq(W), NEW a \in 1..(Len(s) + 1), NEW b \in 0..Len(s)
    PROVE  /\ SubSeq(s, a, b) \in Seq(W)
           /\ Len(SubSeq(s, a, b)) = IF a <= b THEN b - a + 1 ELSE 0
           /\ \A i \in 1..Len(SubSeq(s, a, b)) :
                 a + i - 1 \in a..b /\ SubSeq(s, a, b)[i] = s[a + i - 1]
<1> DEFINE t == SubSeq(s, a, b)
<1>1. a \in Int /\ b \in Int /\ Len(s) \in Nat
  OBVIOUS
<1>2. \A i \in a..b : s[i] \in W
  BY ElementOfSeq
<1>3. /\ t \in Seq(W) /\ Len(t) = IF a <= b THEN b - a + 1 ELSE 0
      /\ \A i \in 1..(b - a + 1) : t[i] = s[a + i - 1]
  BY <1>1, <1>2, SubSeqProperties
<1> HIDE DEF t
<1>4. \A i \in 1..Len(t) : i \in 1..(b - a + 1) /\ a + i - 1 \in a..b
  BY <1>1, <1>3
<1>5. \A i \in 1..Len(t) : a + i - 1 \in a..b /\ t[i] = s[a + i - 1]
  BY <1>3, <1>4
<1> QED
  BY <1>3, <1>5 DEF t

Plain(s) == \A i \in 1..Len(s) : s[i] # "/"

LEMMA SegmentIsPlain ==
    ASSUME NEW W, NEW s \in Seq(W)
    PROVE  LastSegment(s) \in Seq(W) /\ Plain(LastSegment(s))
<1> DEFINE real == {g \in Segments(s) : g[1] <= g[2] /\ SubSeq(s, g[1], g[2]) # <<".", ".">>}
           g == CHOOSE g \in real : \A h \in real : h[1] <= g[1]
           cuts == {0, Len(s) + 1} \union {i \in DOMAIN s : s[i] = "/"}
           starts == {h[1] : h \in real}
<1>1. Len(s) \in Nat /\ DOMAIN s = 1..Len(s)
  OBVIOUS
<1>2. CASE real = {}
  <2>1. LastSegment(s) = <<>>
    BY <1>2 DEF LastSegment
  <2> QED
    BY <2>1 DEF Plain
<1>3. CASE real # {}
  <2>1. LastSegment(s) = SubSeq(s, g[1], g[2])
    BY <1>3 DEF LastSegment
  <2>2. \A h \in real : \E p1, p2 \in cuts : h = <<p1 + 1, p2 - 1>> /\ p1 < p2
                           /\ (\A k \in cuts : ~(p1 < k /\ k < p2)) /\ h[1] <= h[2]
    <3> SUFFICES ASSUME NEW h \in real
                 PROVE  \E p1, p2 \in cuts : h = <<p1 + 1, p2 - 1>> /\ p1 < p2
                           /\ (\A k \in cuts : ~(p1 < k /\ k < p2)) /\ h[1] <= h[2]
      OBVIOUS
    <3>1. h \in Segments(s) /\ h[1] <= h[2]
      OBVIOUS
    <3>2. Segments(s) = {<<p[1] + 1, p[2] - 1>> : p \in
             {p \in cuts \X cuts : p[1] < p[2] /\ \A k \in cuts : ~(p[1] < k /\ k < p[2])}}
      BY DEF Segments
    <3> HIDE DEF real, cuts
    <3>3. PICK p \in cuts \X cuts : h = <<p[1] + 1, p[2] - 1>> /\ p[1] < p[2]
                                    /\ \A k \in cuts : ~(p[1] < k /\ k < p[2])
      BY <3>1, <3>2
    <3>4. p[1] \in cuts /\ p[2] \in cuts
      OBVIOUS
    <3> QED
      BY <3>1, <3>3, <3>4
  <2>3. cuts \subseteq 0..(Len(s) + 1)
    BY <1>1
  <2>4. \A h \in real : h[1] \in 1..(Len(s) + 1)
    <3> HIDE DEF real, cuts
    <3> QED
      BY <1>1, <2>2, <2>3
  <2>5. g \in real
    <3>1. starts \in SUBSET (1..(Len(s) + 1)) /\ starts # {}
      <4> HIDE DEF real
      <4> QED
        BY <1>3, <2>4
    <3>2. PICK x \in starts : \A y \in starts : y <= x
      <4>1. Len(s) + 1 \in Nat
        BY <1>1
      <4> HIDE DEF starts
      <4> QED
        BY <3>1, <4>1, GreatestElement
    <3>3. \E f \in real : \A h \in real : h[1] <= f[1]
      <4> HIDE DEF real
      <4> QED
        BY <3>2
    <3> HIDE DEF real
    <3> QED
      BY <3>3
  <2> HIDE DEF real, g
  <2>6. PICK p1, p2 \in cuts : g = <<p1 + 1, p2 - 1>> /\ p1 < p2
                     /\ (\A k \in cuts : ~(p1 < k /\ k < p2)) /\ g[1] <= g[2]
    BY <2>2, <2>5
  <2>7. g[1] = p1 + 1 /\ g[2] = p2 - 1 /\ p1 \in 0..(Len(s) + 1) /\ p2 \in 0..(Len(s) + 1)
    BY <2>3, <2>6
  <2>8. g[1] \in 1..(Len(s) + 1) /\ g[2] \in 0..Len(s)
    BY <1>1, <2>6, <2>7
  <2> DEFINE t == SubSeq(s, g[1], g[2])
  <2>9. t \in Seq(W) /\ \A i \in 1..Len(t) : g[1] + i - 1 \in g[1]..g[2]
                                                  /\ t[i] = s[g[1] + i - 1]
    BY <2>8, PartOf, SMTT(30)
  <2>10. \A k \in g[1]..g[2] : s[k] # "/"
    <3> SUFFICES ASSUME NEW k \in g[1]..g[2], s[k] = "/" PROVE FALSE
      OBVIOUS
    <3>1. k \in Nat /\ p1 < k /\ k < p2 /\ k \in DOMAIN s
      BY <1>1, <2>7, <2>8
    <3>2. k \in cuts
      BY <3>1
    <3> HIDE DEF cuts
    <3> QED
      BY <2>6, <3>1, <3>2
  <2> HIDE DEF t, cuts
  <2>11. \A i \in 1..Len(t) : t[i] # "/"
    BY <2>9, <2>10
  <2> QED
    BY <2>1, <2>9, <2>11 DEF Plain, t
<1> QED
  BY <1>2, <1>3

LEMMA TrimmedIsPlain ==
    ASSUME NEW W, NEW s \in Seq(W), Plain(s)
    PROVE  Trimmed(s) \in Seq(W) /\ Plain(Trimmed(s))
<1> DEFINE kept == {i \in DOMAIN s : s[i] \notin {":", " "}}
           full == {i \in DOMAIN s : s[i] # " "}
           a == CHOOSE i \in kept : \A j \in kept : i <= j
           b == CHOOSE i \in full : \A j \in full : j <= i
<1>1. Len(s) \in Nat /\ DOMAIN s = 1..Len(s)
  OBVIOUS
<1>2. CASE kept = {}
  <2>1. Trimmed(s) = <<>>
    BY <1>2 DEF Trimmed
  <2> QED
    BY <2>1 DEF Plain
<1>3. CASE kept # {}
  <2>1. Trimmed(s) = SubSeq(s, a, b)
    BY <1>3 DEF Trimmed
  <2>2. /\ kept \in SUBSET Nat /\ kept \in SUBSET (1..Len(s))
        /\ full \in SUBSET (1..Len(s)) /\ full # {}
    <3>1. \A i \in DOMAIN s : s[i] \notin {":", " "} => s[i] # " "
      OBVIOUS
    <3>2. kept \subseteq full
      BY <3>1
    <3>3. kept \subseteq DOMAIN s /\ full \subseteq DOMAIN s
      OBVIOUS
    <3> HIDE DEF kept, full
    <3> QED
      BY <1>1, <1>3, <3>2, <3>3
  <2> HIDE DEF kept, full
  <2>3. \E i \in kept : \A j \in kept : i <= j
    BY <1>3, <2>2, LeastElement
  <2>4. \E i \in full : \A j \in full : j <= i
    BY <1>1, <2>2, GreatestElement
  <2>5. a \in kept /\ b \in full
    BY <2>3, <2>4
  <2> HIDE DEF a, b
  <2>6. a \in 1..(Len(s) + 1) /\ b \in 0..Len(s)
    BY <1>1, <2>2, <2>5
  <2> DEFINE t == SubSeq(s, a, b)
  <2>7. t \in Seq(W) /\ \A i \in 1..Len(t) : a + i - 1 \in a..b /\ t[i] = s[a + i - 1]
    BY <2>6, PartOf
  <2>8. \A k \in a..b : k \in 1..Len(s)
    BY <1>1, <2>2, <2>5
  <2> HIDE DEF t
  <2>9. Plain(t)
    BY <2>7, <2>8 DEF Plain
  <2> QED
    BY <2>1, <2>7, <2>9 DEF t
<1> QED
  BY <1>2, <1>3

Usable(s) == \A i \in DOMAIN s : s[i] \notin {"/", ":", "*"}

LEMMA EscapedIsUsable ==
    ASSUME NEW W, NEW s \in Seq(W), "_" \in W, Plain(s), s # <<>>
    PROVE  Escaped(s) \in Seq(W) /\ Escaped(s) # <<>> /\ Usable(Escaped(s))
<1> DEFINE c(i) == IF s[i] \in {":", "*"} THEN "_" ELSE s[i]
           e == Escaped(s)
<1>1. Len(s) \in Nat /\ Len(s) # 0 /\ DOMAIN s = 1..Len(s) /\ \A i \in 1..Len(s) : s[i] \in W
  BY OfSequence
<1>2. e = [i \in 1..Len(s) |-> c(i)]
  BY <1>1 DEF Escaped
<1>3. ASSUME NEW i \in 1..Len(s) PROVE c(i) \in W /\ c(i) \notin {"/", ":", "*"}
  <2>1. s[i] \in W /\ s[i] # "/"
    BY <1>1 DEF Plain
  <2>2. CASE s[i] \in {":", "*"}
    <3>1. c(i) = "_"
      BY <2>2
    <3> HIDE DEF c
    <3> QED
      BY <3>1
  <2>3. CASE s[i] \notin {":", "*"}
    <3>1. c(i) = s[i]
      BY <2>3
    <3> HIDE DEF c
    <3> QED
      BY <2>1, <2>3, <3>1
  <2> QED
    BY <2>2, <2>3
<1> HIDE DEF c, e
<1>4. e \in [1..Len(s) -> W] /\ \A i \in 1..Len(s) : e[i] \notin {"/", ":", "*"}
  BY <1>2, <1>3
<1>5. e \in Seq(W) /\ DOMAIN e = 1..Len(s) /\ e # <<>>
  BY <1>1, <1>4, IsSequence
<1> QED
  BY <1>4, <1>5 DEF Usable, e

(* A stem that is not empty begins like the name. *)
LEMMA StemBegins ==
    ASSUME NEW W, NEW s \in Seq(W), Stem(s) = <<"CON">>
    PROVE  s # <<>> /\ s[1] = "CON"
<1> DEFINE dots == {i \in DOMAIN s : s[i] = "."}
           d == CHOOSE i \in dots : \A j \in dots : i <= j
<1>1. CASE dots = {}
  <2>1. s = <<"CON">>
    BY <1>1 DEF Stem
  <2> QED
    BY <2>1
<1>2. CASE dots # {}
  <2>1. SubSeq(s, 1, d - 1) = <<"CON">>
    BY <1>2 DEF Stem
  <2>2. dots \in SUBSET Nat /\ dots \in SUBSET (1..Len(s))
    OBVIOUS
  <2> HIDE DEF dots
  <2>3. \E i \in dots : \A j \in dots : i <= j
    BY <1>2, <2>2, LeastElement
  <2>4. d \in dots
    BY <2>3
  <2> HIDE DEF d
  <2>5. d \in 1..Len(s) /\ Len(s) \in Nat
    BY <2>2, <2>4
  <2>6. 1 \in 1..(Len(s) + 1) /\ d - 1 \in 0..Len(s)
    BY <2>5
  <2> DEFINE t == SubSeq(s, 1, d - 1)
  <2>7. \A i \in 1..Len(t) : 1 + i - 1 \in 1..(d - 1) /\ t[i] = s[1 + i - 1]
    BY <2>6, PartOf
  <2>8. t = <<"CON">>
    BY <2>1
  <2> HIDE DEF t
  <2>9. Len(t) = 1 /\ t[1] = "CON"
    BY <2>8
  <2>10. 1 \in 1..Len(t) /\ 1 + 1 - 1 = 1
    BY <2>9
  <2>11. t[1] = s[1]
    BY <2>7, <2>10
  <2>12. s # <<>>
    BY <2>5
  <2> QED
    BY <2>9, <2>11, <2>12
<1> QED
  BY <1>1, <1>2

(* Whatever a peer calls its file, the name it is written under is one     *)
(* both systems take: not empty, with no slash in it, so it stays in the   *)
(* cache directory, no character Windows refuses and no device's name      *)
(* (sanitize_basename).                                                    *)
THEOREM EveryNameIsUsable ==
    ASSUME NEW Chars, NEW raw \in Seq(Chars) PROVE NameIsUsable(raw)
<1> DEFINE W == Chars \cup {"_", "a", "."}
           s == strip_drive_letter(raw)
           name == Trimmed(LastSegment(s))
           clean == sanitize_basename(raw)
<1>0. raw \in Seq(W) /\ "_" \in W /\ "a" \in W /\ "." \in W
  <2>1. Len(raw) \in Nat /\ raw \in [1..Len(raw) -> Chars]
    BY OfSequence
  <2>2. raw \in [1..Len(raw) -> W]
    BY <2>1
  <2> HIDE DEF W
  <2>3. raw \in Seq(W)
    BY <2>1, <2>2, IsSequence
  <2> QED
    BY <2>3 DEF W
<1> HIDE DEF W
<1>1. s \in Seq(W)
  <2>1. CASE Len(raw) >= 2 /\ raw[1] = "a" /\ raw[2] = ":"
    <3>1. s = SubSeq(raw, 3, Len(raw))
      BY <2>1 DEF strip_drive_letter
    <3>2. 3 \in 1..(Len(raw) + 1) /\ Len(raw) \in 0..Len(raw)
      BY <2>1
    <3> HIDE DEF s
    <3> QED
      BY <1>0, <3>1, <3>2, PartOf
  <2>2. CASE ~(Len(raw) >= 2 /\ raw[1] = "a" /\ raw[2] = ":")
    BY <1>0, <2>2 DEF strip_drive_letter
  <2> QED
    BY <2>1, <2>2
<1> HIDE DEF s
<1>2. name \in Seq(W) /\ Plain(name)
  BY <1>1, SegmentIsPlain, TrimmedIsPlain
<1>3. clean = IF name = <<>> THEN Fallback ELSE Prefixed(Escaped(name))
  BY DEF sanitize_basename, s
<1> HIDE DEF name, clean
<1>4. clean \in Seq(W) /\ clean # <<>> /\ Usable(clean) /\ Stem(clean) # <<"CON">>
  <2>1. CASE name = <<>>
    <3>1. clean = <<"a", ".", "a">>
      BY <1>3, <2>1 DEF Fallback
    <3>2. /\ clean \in Seq(W) /\ clean # <<>> /\ clean[1] = "a"
          /\ \A i \in DOMAIN clean : clean[i] \in {"a", "."}
      BY <1>0, <3>1, ThreeCharacters
    <3>3. Usable(clean)
      BY <3>2 DEF Usable
    <3>4. Stem(clean) # <<"CON">>
      BY <3>2, StemBegins
    <3> QED
      BY <3>2, <3>3, <3>4
  <2>2. CASE name # <<>>
    <3> DEFINE e == Escaped(name)
    <3>1. e \in Seq(W) /\ e # <<>> /\ Usable(e)
      BY <1>0, <1>2, <2>2, EscapedIsUsable
    <3>2. clean = Prefixed(e)
      BY <1>3, <2>2
    <3> HIDE DEF e
    <3>3. CASE Stem(e) = <<"CON">>
      <4>1. clean = <<"_">> \o e
        BY <3>2, <3>3 DEF Prefixed
      <4>2. /\ clean \in Seq(W) /\ Len(clean) = 1 + Len(e)
            /\ \A i \in 1..(1 + Len(e)) : clean[i] = IF i <= 1 THEN "_" ELSE e[i - 1]
        <5>1. <<"_">> \in Seq(W) /\ Len(<<"_">>) = 1 /\ <<"_">>[1] = "_"
          BY <1>0, OneCharacter
        <5>2. /\ clean \in Seq(W) /\ Len(clean) = 1 + Len(e)
              /\ \A i \in 1..(1 + Len(e)) : clean[i] = IF i <= 1 THEN <<"_">>[i] ELSE e[i - 1]
          BY <3>1, <4>1, <5>1, ConcatProperties
        <5>3. \A i \in 1..(1 + Len(e)) : i <= 1 => i = 1
          BY <3>1
        <5>4. \A i \in 1..(1 + Len(e)) : i <= 1 => <<"_">>[i] = "_"
          BY <5>1, <5>3
        <5> QED
          BY <5>2, <5>4
      <4>3. Len(e) \in Nat /\ DOMAIN e = 1..Len(e) /\ DOMAIN clean = 1..(1 + Len(e)) /\ clean # <<>>
        <5>1. Len(e) \in Nat /\ DOMAIN e = 1..Len(e)
          BY <3>1, OfSequence
        <5>2. DOMAIN clean = 1..Len(clean) /\ (Len(clean) # 0 => clean # <<>>)
          BY <4>2, OfSequence
        <5>3. Len(clean) # 0
          <6>1. \A l \in Nat : 1 + l # 0
            OBVIOUS
          <6>2. Len(clean) = 1 + Len(e)
            BY <4>2
          <6> QED
            BY <5>1, <6>1, <6>2
        <5> QED
          BY <4>2, <5>1, <5>2, <5>3
      <4>4. \A i \in 1..(1 + Len(e)) : i <= 1 \/ i - 1 \in 1..Len(e)
        BY <4>3
      <4>5. Usable(clean)
        <5>1. \A i \in 1..Len(e) : e[i] \notin {"/", ":", "*"}
          BY <3>1, <4>3 DEF Usable
        <5>2. \A i \in 1..(1 + Len(e)) : clean[i] \notin {"/", ":", "*"}
          BY <4>2, <4>4, <5>1
        <5>3. \A i \in DOMAIN clean : clean[i] \notin {"/", ":", "*"}
          BY <4>3, <5>2
        <5> QED
          BY <5>3 DEF Usable
      <4>6. clean[1] = "_"
        <5>1. 1 \in 1..(1 + Len(e)) /\ 1 <= 1
          BY <4>3
        <5> QED
          BY <4>2, <5>1
      <4> QED
        BY <4>2, <4>3, <4>5, <4>6, StemBegins
    <3>4. CASE Stem(e) # <<"CON">>
      BY <3>1, <3>2, <3>4 DEF Prefixed
    <3> QED
      BY <3>3, <3>4
  <2> QED
    BY <2>1, <2>2
<1> QED
  BY <1>4 DEF NameIsUsable, Usable, clean

----------------------------------------------------------------------------
(* The reader of stream-shaped links.                                      *)

Every == FrameLetters \cup {0}

(* What feed works on; and what it is behind the bytes s, when `done' was  *)
(* taken off the queue: the frames of s, and the bytes behind the last     *)
(* delimiter, unless they are too many.                                    *)
States ==
    [partial : Seq(Every), resyncing : BOOLEAN, ready : Seq(Seq(Every)), oversize : Nat]

Loose(s) == F!Behind(s, Len(s) + 1)

Sound(done, s, r) ==
    /\ F!AreFramesOf(done \o r.ready, s)
    /\ r.resyncing => r.partial = <<>> /\ Len(s) - Loose(s) > FrameLimit
    /\ ~r.resyncing => r.partial = SubSeq(s, Loose(s) + 1, Len(s)) /\ Len(s) - Loose(s) <= FrameLimit

(* One element goes from one string to the other; one is put behind both.  *)
LEMMA ElementMoves ==
    ASSUME NEW X, NEW a \in Seq(X), NEW c \in Seq(X), c # <<>>
    PROVE  /\ Append(a, Head(c)) \o Tail(c) = a \o c
           /\ Append(a, Head(c)) \in Seq(X) /\ Tail(c) \in Seq(X)
  OBVIOUS

LEMMA AppendBehind ==
    ASSUME NEW X, NEW a \in Seq(X), NEW c \in Seq(X), NEW e \in X
    PROVE  a \o c \in Seq(X) /\ a \o Append(c, e) = Append(a \o c, e)
<1>1. <<e>> \in Seq(X) /\ a \o c \in Seq(X)
  BY ConcatProperties, OneCharacter
<1>2. Append(c, e) = c \o <<e>> /\ Append(a \o c, e) = (a \o c) \o <<e>>
  BY <1>1, AppendIsConcat
<1>3. (a \o c) \o <<e>> = a \o (c \o <<e>>)
  BY <1>1, ConcatAssociative
<1> QED
  BY <1>1, <1>2, <1>3

LEMMA FramesRun ==
    ASSUME NEW s \in Seq(Every), NEW base
    PROVE  F!FoldLeft(F!FeedByte, base, s) = Run("frames", base, s)
<1>1. DOMAIN s = 1..Len(s)
  OBVIOUS
<1> QED
  BY <1>1 DEF F!FoldLeft, F!MapThenFoldSet, F!Max, Max, Run, Iterates, Turn, Fed

LEMMA BehindFacts ==
    ASSUME NEW s, NEW i \in Nat, i >= 1
    PROVE  /\ F!Behind(s, i) \in 0..(i - 1)
           /\ F!Behind(s, i) # 0 => s[F!Behind(s, i)] = 0
           /\ \A j \in (F!Behind(s, i) + 1)..(i - 1) : s[j] # 0
<1> DEFINE T == {j \in 1..(i - 1) : s[j] = 0}
           Open == {0} \cup T
           z == CHOOSE x \in Open : \A y \in Open : x >= y
<1>1. F!Behind(s, i) = z
  BY DEF F!Behind, F!Max
<1>2. i - 1 \in Nat /\ T \in SUBSET (1..(i - 1)) /\ \A j \in T : s[j] = 0
  OBVIOUS
<1>3. \A j \in 1..(i - 1) : s[j] = 0 => j \in Open
  OBVIOUS
<1> HIDE DEF T
<1>4. \E x \in Open : \A y \in Open : x >= y
  <2>1. CASE T = {}
    BY <2>1
  <2>2. CASE T # {}
    <3>1. PICK x \in T : \A y \in T : y <= x
      BY <1>2, <2>2, GreatestElement
    <3>2. x \in Nat /\ x >= 1 /\ T \subseteq Nat
      BY <1>2
    <3> QED
      BY <3>1, <3>2
  <2> QED
    BY <2>1, <2>2
<1>5. z \in Open /\ \A y \in Open : z >= y
  BY <1>4
<1>6. Open \subseteq 0..(i - 1) /\ \A j \in Open : j # 0 => s[j] = 0
  BY <1>2
<1> HIDE DEF Open, z
<1>7. ASSUME NEW j \in (z + 1)..(i - 1), s[j] = 0 PROVE FALSE
  <2>1. j \in 1..(i - 1) /\ z \in Nat /\ j > z
    BY <1>5, <1>6
  <2>2. z >= j
    BY <1>3, <1>5, <1>7, <2>1
  <2> QED
    BY <2>1, <2>2
<1> QED
  BY <1>1, <1>5, <1>6, <1>7

LEMMA BehindIs ==
    ASSUME NEW s, NEW i \in Nat, i >= 1, NEW z \in 0..(i - 1), z # 0 => s[z] = 0,
           \A j \in (z + 1)..(i - 1) : s[j] # 0
    PROVE  F!Behind(s, i) = z
<1> DEFINE y == F!Behind(s, i)
<1>1. y \in 0..(i - 1) /\ (y # 0 => s[y] = 0) /\ \A j \in (y + 1)..(i - 1) : s[j] # 0
  BY BehindFacts
<1> HIDE DEF y
<1>2. ~(y < z)
  <2> SUFFICES ASSUME y < z PROVE FALSE
    OBVIOUS
  <2>1. z \in (y + 1)..(i - 1) /\ z # 0
    BY <1>1
  <2> QED
    BY <1>1, <2>1
<1>3. ~(z < y)
  <2> SUFFICES ASSUME z < y PROVE FALSE
    OBVIOUS
  <2>1. y \in (z + 1)..(i - 1) /\ y # 0
    BY <1>1
  <2> QED
    BY <1>1, <2>1
<1> QED
  BY <1>1, <1>2, <1>3 DEF y

LEMMA BehindAgrees ==
    ASSUME NEW s, NEW t, NEW i \in Nat, i >= 1, \A j \in 1..(i - 1) : s[j] = t[j]
    PROVE  F!Behind(s, i) = F!Behind(t, i)
<1> DEFINE z == F!Behind(s, i)
<1>1. z \in 0..(i - 1) /\ (z # 0 => s[z] = 0) /\ \A j \in (z + 1)..(i - 1) : s[j] # 0
  BY BehindFacts
<1> HIDE DEF z
<1>2. (z # 0 => z \in 1..(i - 1)) /\ \A j \in (z + 1)..(i - 1) : j \in 1..(i - 1)
  BY <1>1
<1>3. (z # 0 => t[z] = 0) /\ \A j \in (z + 1)..(i - 1) : t[j] # 0
  BY <1>1, <1>2
<1>4. F!Behind(t, i) = z
  BY <1>1, <1>3, BehindIs
<1> QED
  BY <1>4 DEF z

LEMMA EndsFacts ==
    ASSUME NEW s \in Seq(Every)
    PROVE  /\ F!Ends(s) \subseteq 1..Len(s) /\ IsFiniteSet(F!Ends(s))
           /\ Cardinality(F!Ends(s)) \in Nat
           /\ \A i \in F!Ends(s) : s[i] = 0
<1>1. DOMAIN s = 1..Len(s) /\ Len(s) \in Nat
  BY OfSequence
<1>2. F!Ends(s) \subseteq 1..Len(s) /\ \A i \in F!Ends(s) : s[i] = 0
  BY <1>1 DEF F!Ends
<1>3. IsFiniteSet(1..Len(s))
  BY <1>1, FS_Interval
<1>4. IsFiniteSet(F!Ends(s))
  BY <1>2, <1>3, FS_Subset
<1> QED
  BY <1>2, <1>4, FS_CardinalityType

(* Where two strings agree they have the same ends and frames. *)
LEMMA FramesAgree ==
    ASSUME NEW s \in Seq(Every), NEW t \in Seq(Every), NEW i \in 1..Len(s), i <= Len(t),
           \A j \in 1..i : s[j] = t[j]
    PROVE  /\ F!Behind(s, i) = F!Behind(t, i)
           /\ F!FrameAt(s, i) = F!FrameAt(t, i)
           /\ i \in F!Ends(s) <=> i \in F!Ends(t)
<1>1. /\ Len(s) \in Nat /\ Len(t) \in Nat /\ i \in Nat /\ i >= 1 /\ i \in 1..Len(t)
      /\ DOMAIN s = 1..Len(s) /\ DOMAIN t = 1..Len(t)
  BY OfSequence
<1>2. \A j \in 1..(i - 1) : s[j] = t[j]
  BY <1>1
<1>3. F!Behind(s, i) = F!Behind(t, i)
  BY <1>1, <1>2, BehindAgrees
<1> DEFINE z == F!Behind(s, i)
           p == SubSeq(s, z + 1, i)
           q == SubSeq(t, z + 1, i)
<1>4. z \in 0..(i - 1)
  BY <1>1, BehindFacts
<1> HIDE DEF z
<1>5. z + 1 \in 1..(Len(s) + 1) /\ i \in 0..Len(s) /\ z + 1 \in 1..(Len(t) + 1) /\ i \in 0..Len(t)
  BY <1>1, <1>4
<1>6. p \in Seq(Every) /\ Len(p) = (IF z + 1 <= i THEN i - (z + 1) + 1 ELSE 0)
      /\ \A k \in 1..Len(p) : (z + 1) + k - 1 \in (z + 1)..i /\ p[k] = s[(z + 1) + k - 1]
  BY <1>5, PartOf, SMTT(30)
<1>7. q \in Seq(Every) /\ Len(q) = (IF z + 1 <= i THEN i - (z + 1) + 1 ELSE 0)
      /\ \A k \in 1..Len(q) : (z + 1) + k - 1 \in (z + 1)..i /\ q[k] = t[(z + 1) + k - 1]
  BY <1>5, PartOf
<1>8. \A k \in (z + 1)..i : k \in 1..i
  BY <1>1, <1>4
<1> HIDE DEF p, q
<1>9. Len(p) = Len(q) /\ \A k \in 1..Len(p) : p[k] = q[k]
  BY <1>6, <1>7, <1>8
<1>10. p = q
  BY <1>6, <1>7, <1>9, SeqEqual
<1>11. F!FrameAt(s, i) = p /\ F!FrameAt(t, i) = q
  BY <1>3 DEF F!FrameAt, p, q, z
<1>12. s[i] = t[i] /\ i \in DOMAIN s /\ i \in DOMAIN t
  BY <1>1
<1> QED
  BY <1>3, <1>10, <1>11, <1>12 DEF F!Ends

(* Another byte: what it ends. *)
LEMMA EndsOfOneMore ==
    ASSUME FrameLimit \in Nat, NEW s \in Seq(Every), NEW b \in Every, NEW t, t = Append(s, b)
    PROVE  /\ t \in Seq(Every) /\ Len(t) = Len(s) + 1
           /\ Loose(s) \in 0..Len(s)
           /\ b # 0 => Loose(t) = Loose(s)
           /\ b = 0 => Loose(t) = Len(t)
           /\ \A i \in F!Ends(s) : F!FrameAt(t, i) = F!FrameAt(s, i)
           /\ b # 0 \/ Len(s) - Loose(s) \notin 1..FrameLimit => F!Ends(t) = F!Ends(s)
           /\ b = 0 /\ Len(s) - Loose(s) \in 1..FrameLimit =>
                 F!Ends(t) = F!Ends(s) \cup {Len(s) + 1}
           /\ SubSeq(t, Loose(s) + 1, Len(t)) = Append(SubSeq(s, Loose(s) + 1, Len(s)), b)
           /\ F!FrameAt(t, Len(t)) = Append(SubSeq(s, Loose(s) + 1, Len(s)), b)
<1> DEFINE n == Len(s)
           z == Loose(s)
<1>1. n \in Nat /\ DOMAIN s = 1..n
  BY OfSequence
<1>2. /\ t \in Seq(Every) /\ Len(t) = n + 1 /\ t[n + 1] = b
      /\ \A k \in 1..n : t[k] = s[k]
  BY AppendProperties
<1>2a. DOMAIN t = 1..(n + 1)
  BY <1>2, OfSequence
<1>3. z \in 0..n /\ (z # 0 => s[z] = 0) /\ \A j \in (z + 1)..n : s[j] # 0
  <2>1. n + 1 \in Nat /\ n + 1 >= 1 /\ (n + 1) - 1 = n
    BY <1>1
  <2> QED
    BY <2>1, BehindFacts DEF Loose
<1> HIDE DEF n, z
<1>4. F!Behind(t, n + 1) = z
  <2>1. /\ n + 1 \in Nat /\ n + 1 >= 1 /\ (n + 1) - 1 = n
        /\ (z # 0 => z \in 1..n) /\ \A j \in (z + 1)..n : j \in 1..n
    BY <1>1, <1>3
  <2>2. (z # 0 => t[z] = 0) /\ \A j \in (z + 1)..n : t[j] # 0
    BY <1>2, <1>3, <2>1
  <2> QED
    BY <1>3, <2>1, <2>2, BehindIs
<1>5. b # 0 => Loose(t) = z
  <2> SUFFICES ASSUME b # 0 PROVE F!Behind(t, n + 2) = z
    BY <1>1, <1>2 DEF Loose
  <2>1. /\ n + 2 \in Nat /\ n + 2 >= 1 /\ (n + 2) - 1 = n + 1 /\ z \in 0..(n + 1)
        /\ (z # 0 => z \in 1..n)
        /\ \A j \in (z + 1)..(n + 1) : j = n + 1 \/ (j \in 1..n /\ j \in (z + 1)..n)
    BY <1>1, <1>3
  <2>2. z # 0 => t[z] = 0
    BY <1>2, <1>3, <2>1
  <2>3. ASSUME NEW j \in (z + 1)..(n + 1) PROVE t[j] # 0
    <3>1. CASE j = n + 1
      BY <1>2, <3>1
    <3>2. CASE j \in 1..n /\ j \in (z + 1)..n
      BY <1>2, <1>3, <3>2
    <3> QED
      BY <2>1, <3>1, <3>2
  <2> DEFINE m == n + 2
  <2>4. m \in Nat /\ m >= 1 /\ z \in 0..(m - 1) /\ \A j \in (z + 1)..(m - 1) : t[j] # 0
    BY <2>1, <2>3
  <2> HIDE DEF m
  <2>5. F!Behind(t, m) = z
    BY <2>2, <2>4, BehindIs
  <2> QED
    BY <2>5 DEF m
<1>6. b = 0 => Loose(t) = n + 1
  <2> SUFFICES ASSUME b = 0 PROVE F!Behind(t, n + 2) = n + 1
    BY <1>1, <1>2 DEF Loose
  <2>1. /\ n + 2 \in Nat /\ n + 2 >= 1 /\ (n + 2) - 1 = n + 1 /\ n + 1 \in 0..(n + 1)
        /\ n + 1 # 0 /\ \A j \in ((n + 1) + 1)..(n + 1) : FALSE
    BY <1>1
  <2> DEFINE m == n + 2
             y == n + 1
  <2>2. /\ m \in Nat /\ m >= 1 /\ y \in 0..(m - 1) /\ t[y] = 0
        /\ \A j \in (y + 1)..(m - 1) : t[j] # 0
    BY <1>2, <2>1
  <2> HIDE DEF m, y
  <2>3. F!Behind(t, m) = y
    BY <2>2, BehindIs
  <2> QED
    BY <2>3 DEF m, y
<1>7. \A i \in 1..n : /\ F!FrameAt(s, i) = F!FrameAt(t, i)
                      /\ i \in F!Ends(s) <=> i \in F!Ends(t)
  <2> SUFFICES ASSUME NEW i \in 1..n
               PROVE  /\ F!FrameAt(s, i) = F!FrameAt(t, i)
                      /\ i \in F!Ends(s) <=> i \in F!Ends(t)
    OBVIOUS
  <2>1. i \in 1..Len(s) /\ i <= Len(t) /\ \A j \in 1..i : j \in 1..n
    BY <1>1, <1>2 DEF n
  <2> QED
    BY <1>2, <2>1, FramesAgree
<1>8. n + 1 \in F!Ends(t) <=> b = 0 /\ n - z \in 1..FrameLimit
  <2>1. n + 1 \in F!Ends(t) <=> t[n + 1] = 0 /\ (n + 1) - z \in 2..(FrameLimit + 1)
    <3>1. n + 1 \in DOMAIN t
      BY <1>1, <1>2a
    <3> QED
      BY <1>4, <3>1 DEF F!Ends
  <2>2. (n + 1) - z \in 2..(FrameLimit + 1) <=> n - z \in 1..FrameLimit
    BY <1>1, <1>3
  <2> QED
    BY <1>2, <2>1, <2>2
<1>9. F!Ends(s) \subseteq 1..n /\ F!Ends(t) \subseteq 1..(n + 1)
  BY <1>2, EndsFacts DEF n
<1>10. \A i \in 1..(n + 1) : i \in 1..n \/ i = n + 1
  BY <1>1
<1>11. ~(n + 1 \in 1..n)
  BY <1>1
<1>12. b # 0 \/ n - z \notin 1..FrameLimit => F!Ends(t) = F!Ends(s)
  BY <1>7, <1>8, <1>9, <1>10
<1>13. b = 0 /\ n - z \in 1..FrameLimit => F!Ends(t) = F!Ends(s) \cup {n + 1}
  BY <1>7, <1>8, <1>9, <1>10
<1>14. SubSeq(t, z + 1, n + 1) = Append(SubSeq(s, z + 1, n), b)
  <2> DEFINE p == SubSeq(t, z + 1, n + 1)
             q == SubSeq(s, z + 1, n)
             v == Append(q, b)
  <2>1. z + 1 \in 1..(Len(s) + 1) /\ n \in 0..Len(s)
    BY <1>1, <1>3 DEF n
  <2>2. z + 1 \in 1..(Len(t) + 1) /\ n + 1 \in 0..Len(t)
    BY <1>1, <1>2, <1>3
  <2>3. q \in Seq(Every) /\ Len(q) = n - z /\ \A k \in 1..Len(q) : q[k] = s[z + k]
    <3>1. q \in Seq(Every) /\ Len(q) = (IF z + 1 <= n THEN n - (z + 1) + 1 ELSE 0)
          /\ \A k \in 1..Len(q) : (z + 1) + k - 1 \in (z + 1)..n /\ q[k] = s[(z + 1) + k - 1]
      BY <2>1, PartOf
    <3> HIDE DEF q
    <3>2. Len(q) = n - z /\ \A k \in 1..Len(q) : (z + 1) + k - 1 = z + k
      BY <1>1, <1>3, <3>1
    <3> QED
      BY <3>1, <3>2
  <2>4. p \in Seq(Every) /\ Len(p) = n + 1 - z /\ \A k \in 1..Len(p) : p[k] = t[z + k]
    <3>1. p \in Seq(Every) /\ Len(p) = (IF z + 1 <= n + 1 THEN (n + 1) - (z + 1) + 1 ELSE 0)
          /\ \A k \in 1..Len(p) : (z + 1) + k - 1 \in (z + 1)..(n + 1) /\ p[k] = t[(z + 1) + k - 1]
      BY <1>2, <2>2, PartOf
    <3> HIDE DEF p
    <3>2. Len(p) = n + 1 - z /\ \A k \in 1..Len(p) : (z + 1) + k - 1 = z + k
      BY <1>1, <1>3, <3>1
    <3> QED
      BY <3>1, <3>2
  <2> HIDE DEF p, q
  <2>5. /\ v \in Seq(Every) /\ Len(v) = Len(q) + 1 /\ v[Len(q) + 1] = b
        /\ \A k \in 1..Len(q) : v[k] = q[k]
    BY <2>3, AppendProperties
  <2> HIDE DEF v
  <2>6. ASSUME NEW k \in 1..Len(p) PROVE p[k] = v[k]
    <3>1. CASE k = n - z + 1
      <4>1. z + k = n + 1 /\ k = Len(q) + 1
        BY <1>1, <1>3, <2>3, <3>1
      <4> QED
        BY <1>2, <2>4, <2>5, <4>1
    <3>2. CASE k # n - z + 1
      <4>1. k \in 1..Len(q) /\ z + k \in 1..n
        BY <1>1, <1>3, <2>3, <2>4, <3>2
      <4> QED
        BY <1>2, <2>3, <2>4, <2>5, <4>1, ZenonT(60)
    <3> QED
      BY <3>1, <3>2
  <2>7. Len(p) = Len(v)
    BY <1>1, <1>3, <2>3, <2>4, <2>5
  <2>8. p = v
    BY <2>4, <2>5, <2>6, <2>7, SeqEqual
  <2> QED
    BY <2>8 DEF p, q, v
<1>15. F!FrameAt(t, n + 1) = SubSeq(t, z + 1, n + 1)
  BY <1>4 DEF F!FrameAt
<1>16. \A i \in F!Ends(s) : F!FrameAt(t, i) = F!FrameAt(s, i)
  BY <1>7, <1>9
<1> QED
  BY <1>2, <1>3, <1>5, <1>6, <1>12, <1>13, <1>14, <1>15, <1>16 DEF n, z

LEMMA FramesKept ==
    ASSUME NEW all, NEW s, NEW t, F!AreFramesOf(all, s),
           F!Ends(t) = F!Ends(s),
           \A i \in F!Ends(s) : F!FrameAt(t, i) = F!FrameAt(s, i)
    PROVE  F!AreFramesOf(all, t)
  BY DEF F!AreFramesOf

(* Which of the ends the one at i is. *)
Rank(A, i) == Cardinality({j \in A : j <= i})

LEMMA FramesOf ==
    ASSUME NEW all, NEW s
    PROVE  F!AreFramesOf(all, s)
             <=> /\ Len(all) = Cardinality(F!Ends(s))
                 /\ \A i \in F!Ends(s) : all[Rank(F!Ends(s), i)] = F!FrameAt(s, i)
<1>1. ASSUME NEW S PROVE F!Cardinality(S) = Cardinality(S)
  BY DEF F!Cardinality, Cardinality
<1>2. F!Cardinality(F!Ends(s)) = Cardinality(F!Ends(s))
  BY <1>1
<1>3. \A i : F!Cardinality({j \in F!Ends(s) : j <= i}) = Rank(F!Ends(s), i)
  BY <1>1 DEF Rank
<1> QED
  BY <1>2, <1>3 DEF F!AreFramesOf

LEMMA FramesGrow ==
    ASSUME NEW X, NEW all \in Seq(X), NEW s \in Seq(Every), NEW t \in Seq(Every), NEW f \in X,
           F!AreFramesOf(all, s), Len(t) = Len(s) + 1,
           F!Ends(t) = F!Ends(s) \cup {Len(t)}, f = F!FrameAt(t, Len(t)),
           \A i \in F!Ends(s) : F!FrameAt(t, i) = F!FrameAt(s, i)
    PROVE  F!AreFramesOf(Append(all, f), t)
<1> DEFINE E == F!Ends(s)
           D == F!Ends(t)
           n == Len(t)
           more == Append(all, f)
<1>1. /\ E \subseteq 1..Len(s) /\ IsFiniteSet(E) /\ Cardinality(E) \in Nat
      /\ D \subseteq 1..n /\ IsFiniteSet(D)
  BY EndsFacts
<1>2. Len(s) \in Nat /\ n = Len(s) + 1 /\ n \in Nat
  BY OfSequence
<1>3. Len(all) = Cardinality(E) /\ \A i \in E : all[Rank(E, i)] = F!FrameAt(s, i)
  BY FramesOf
<1>4. D = E \cup {n} /\ f = F!FrameAt(t, n)
      /\ \A i \in E : F!FrameAt(t, i) = F!FrameAt(s, i)
  OBVIOUS
<1>5. /\ more \in Seq(X) /\ Len(more) = Len(all) + 1 /\ more[Len(all) + 1] = f
      /\ \A k \in 1..Len(all) : more[k] = all[k]
  BY AppendProperties
<1> HIDE DEF E, D, n, more
<1>6. n \notin E
  BY <1>1, <1>2
<1>7. Cardinality(D) = Cardinality(E) + 1
  BY <1>1, <1>4, <1>6, FS_AddElement
<1>8. ASSUME NEW i \in E
      PROVE  more[Rank(D, i)] = F!FrameAt(t, i)
  <2>1. i \in Nat /\ i < n
    BY <1>1, <1>2
  <2>2. {j \in D : j <= i} = {j \in E : j <= i}
    BY <1>2, <1>4, <2>1
  <2> DEFINE low == {j \in E : j <= i}
  <2>3. low \subseteq E /\ i \in low
    BY <2>1
  <2> HIDE DEF low
  <2>4. IsFiniteSet(low) /\ Cardinality(low) <= Cardinality(E) /\ Cardinality(low) \in Nat
    BY <1>1, <2>3, FS_Subset, FS_CardinalityType
  <2>5. Cardinality(low) # 0
    BY <2>3, <2>4, FS_EmptySet
  <2>6. Cardinality(low) \in 1..Len(all)
    BY <1>1, <1>3, <2>4, <2>5
  <2>7. more[Cardinality(low)] = all[Cardinality(low)]
    BY <1>5, <2>6
  <2>8. Rank(E, i) = Cardinality(low) /\ Rank(D, i) = Cardinality(low)
    BY <2>2 DEF low, Rank
  <2> QED
    BY <1>3, <1>4, <2>7, <2>8
<1>9. more[Rank(D, n)] = F!FrameAt(t, n)
  <2>1. \A j \in D : j <= n
    BY <1>1, <1>2
  <2>2. {j \in D : j <= n} = D
    BY <2>1
  <2>3. Rank(D, n) = Len(all) + 1
    BY <1>3, <1>7, <2>2 DEF Rank
  <2> QED
    BY <1>4, <1>5, <2>3
<1>10. \A i \in D : more[Rank(D, i)] = F!FrameAt(t, i)
  BY <1>4, <1>8, <1>9
<1>11. Len(more) = Cardinality(D)
  BY <1>3, <1>5, <1>7
<1> QED
  BY <1>10, <1>11, FramesOf DEF D, more

(* One byte fed. *)
LEMMA ByteFed ==
    ASSUME FrameLimit \in Nat, NEW done \in Seq(Seq(Every)), NEW s \in Seq(Every), NEW r \in States,
           NEW b \in Every, Sound(done, s, r)
    PROVE  /\ F!FeedByte(r, b) \in States
           /\ Sound(done, Append(s, b), F!FeedByte(r, b))
<1> DEFINE t == Append(s, b)
           z == Loose(s)
           p == SubSeq(s, z + 1, Len(s))
           x == F!FeedByte(r, b)
           X == Seq(Every)
<1>1. /\ t \in Seq(Every) /\ Len(t) = Len(s) + 1
      /\ z \in 0..Len(s)
      /\ b # 0 => Loose(t) = z
      /\ b = 0 => Loose(t) = Len(t)
      /\ \A i \in F!Ends(s) : F!FrameAt(t, i) = F!FrameAt(s, i)
      /\ b # 0 \/ Len(s) - z \notin 1..FrameLimit => F!Ends(t) = F!Ends(s)
      /\ b = 0 /\ Len(s) - z \in 1..FrameLimit => F!Ends(t) = F!Ends(s) \cup {Len(s) + 1}
      /\ SubSeq(t, z + 1, Len(t)) = Append(p, b)
      /\ F!FrameAt(t, Len(t)) = Append(p, b)
  BY EndsOfOneMore
<1>2. /\ r.partial \in Seq(Every) /\ r.resyncing \in BOOLEAN /\ r.ready \in Seq(Seq(Every))
      /\ r.oversize \in Nat
  BY DEF States
<1>3. /\ F!AreFramesOf(done \o r.ready, s)
      /\ r.resyncing => r.partial = <<>> /\ Len(s) - z > FrameLimit
      /\ ~r.resyncing => r.partial = p /\ Len(s) - z <= FrameLimit
  BY DEF Sound
<1>4. p \in Seq(Every) /\ Len(p) = Len(s) - z /\ Len(s) \in Nat /\ z \in Nat
  <2>1. Len(s) \in Nat /\ z \in Nat /\ z + 1 \in 1..(Len(s) + 1) /\ Len(s) \in 0..Len(s)
    BY <1>1, OfSequence
  <2>2. p \in Seq(Every) /\ Len(p) = IF z + 1 <= Len(s) THEN Len(s) - (z + 1) + 1 ELSE 0
    BY <2>1, PartOf
  <2> HIDE DEF p, z
  <2> QED
    BY <1>1, <2>1, <2>2
<1>0. /\ X = Seq(Every) /\ done \in Seq(X) /\ r.ready \in Seq(X)
  BY <1>2
<1> HIDE DEF t, z, p, x, X
<1>5. F!Ends(t) = F!Ends(s) => F!AreFramesOf(done \o r.ready, t)
  BY <1>1, <1>3, FramesKept
<1>6. Append(p, b) \in Seq(Every) /\ Append(r.partial, b) \in Seq(Every) /\ <<>> \in Seq(Every)
  BY <1>2, <1>4, AppendProperties
<1>7. CASE r.resyncing /\ b = 0
  <2>1. x = [r EXCEPT !.resyncing = FALSE]
    BY <1>7 DEF F!FeedByte, x
  <2>2. /\ x \in States /\ x.resyncing = FALSE /\ x.ready = r.ready /\ x.partial = <<>>
    BY <1>3, <1>7, <2>1 DEF States
  <2>3. Len(s) - z \notin 1..FrameLimit
    BY <1>3, <1>4, <1>7
  <2>4. SubSeq(t, Len(t) + 1, Len(t)) = <<>>
    BY <1>1, <1>4
  <2>5. Len(t) - Len(t) <= FrameLimit
    BY <1>1, <1>4
  <2> QED
    BY <1>1, <1>5, <1>7, <2>2, <2>3, <2>4, <2>5 DEF Sound, t, x
<1>8. CASE r.resyncing /\ b # 0
  <2>1. x = r
    BY <1>8 DEF F!FeedByte, x
  <2>2. Len(t) - Loose(t) > FrameLimit
    BY <1>1, <1>3, <1>4, <1>8
  <2> QED
    BY <1>1, <1>3, <1>5, <1>8, <2>1, <2>2 DEF Sound, t, x
<1>9. CASE ~r.resyncing /\ b = 0 /\ r.partial = <<>>
  <2>1. x = r
    BY <1>9 DEF F!FeedByte, F!Delimiter, x
  <2>2. Len(s) - z = 0
    BY <1>3, <1>4, <1>9
  <2>3. SubSeq(t, Len(t) + 1, Len(t)) = <<>> /\ Len(t) - Len(t) <= FrameLimit
    BY <1>1, <1>4
  <2>4. F!Ends(t) = F!Ends(s)
    BY <1>1, <2>2
  <2> QED
    BY <1>1, <1>5, <1>9, <2>1, <2>3, <2>4 DEF Sound, t, x
<1>10. CASE ~r.resyncing /\ b = 0 /\ r.partial # <<>>
  <2> DEFINE f == Append(r.partial, 0)
             more == Append(r.ready, f)
  <2>1. x = [r EXCEPT !.ready = more, !.partial = <<>>]
    BY <1>10 DEF F!FeedByte, F!Delimiter, x
  <2>2. f \in Seq(Every) /\ r.partial = p /\ Len(s) - z <= FrameLimit
    BY <1>3, <1>6, <1>10
  <2>3. more \in Seq(Seq(Every))
    BY <1>2, <2>2, AppendProperties
  <2>4. f = F!FrameAt(t, Len(t))
    BY <1>1, <1>10, <2>2
  <2> HIDE DEF f
  <2>5. Len(s) - z \in 1..FrameLimit
    BY <1>4, <1>10, <2>2, OfSequence
  <2>6. F!Ends(t) = F!Ends(s) \cup {Len(t)}
    BY <1>1, <1>10, <2>5
  <2>7. f \in X
    BY <1>0, <2>2
  <2>11. done \o r.ready \in Seq(X) /\ done \o more = Append(done \o r.ready, f)
    BY <1>0, <2>7, AppendBehind, SMTT(30)
  <2> DEFINE all == done \o r.ready
  <2>12. all \in Seq(X) /\ F!AreFramesOf(all, s)
    BY <1>3, <2>11
  <2> HIDE DEF all
  <2>13. /\ t \in Seq(Every) /\ Len(t) = Len(s) + 1
         /\ \A i \in F!Ends(s) : F!FrameAt(t, i) = F!FrameAt(s, i)
    BY <1>1
  <2>14. F!AreFramesOf(Append(all, f), t)
    BY <2>4, <2>6, <2>7, <2>12, <2>13, FramesGrow
  <2>8. F!AreFramesOf(done \o more, t)
    BY <2>11, <2>14 DEF all
  <2> HIDE DEF more
  <2>9. x \in States /\ x.resyncing = FALSE /\ x.ready = more /\ x.partial = <<>>
    BY <1>6, <1>10, <2>1, <2>3 DEF States
  <2>10. SubSeq(t, Len(t) + 1, Len(t)) = <<>> /\ Len(t) - Len(t) <= FrameLimit
    BY <1>1, <1>4
  <2> QED
    BY <1>1, <1>10, <2>8, <2>9, <2>10 DEF Sound, t, x
<1>11. CASE ~r.resyncing /\ b # 0 /\ F!TooLong(Append(r.partial, b))
  <2>1. x = [r EXCEPT !.partial = <<>>, !.resyncing = TRUE, !.oversize = @ + 1]
    BY <1>11 DEF F!FeedByte, x
  <2>5. r.oversize + 1 \in Nat
    BY <1>2
  <2>6. x = [r EXCEPT !.partial = <<>>, !.resyncing = TRUE, !.oversize = r.oversize + 1]
    BY <2>1 DEF States
  <2>2. x \in States /\ x.resyncing = TRUE /\ x.ready = r.ready /\ x.partial = <<>>
    BY <1>6, <2>5, <2>6 DEF States
  <2>3. r.partial = p /\ Len(Append(p, b)) = Len(p) + 1
    BY <1>3, <1>4, <1>11, AppendProperties
  <2>4. Len(t) - Loose(t) > FrameLimit
    BY <1>1, <1>4, <1>11, <2>3 DEF F!TooLong
  <2> QED
    BY <1>1, <1>5, <1>11, <2>2, <2>4 DEF Sound, t, x
<1>12. CASE ~r.resyncing /\ b # 0 /\ ~F!TooLong(Append(r.partial, b))
  <2>1. x = [r EXCEPT !.partial = Append(@, b)]
    BY <1>12 DEF F!FeedByte, x
  <2>2. r.partial = p /\ Len(Append(p, b)) = Len(p) + 1
    BY <1>3, <1>4, <1>12, AppendProperties
  <2>3. x \in States /\ x.resyncing = FALSE /\ x.ready = r.ready /\ x.partial = Append(p, b)
    BY <1>6, <1>12, <2>1, <2>2 DEF States
  <2>4. Len(t) - Loose(t) <= FrameLimit
    BY <1>1, <1>4, <1>12, <2>2 DEF F!TooLong
  <2> QED
    BY <1>1, <1>5, <1>12, <2>3, <2>4 DEF Sound, t, x
<1> QED
  BY <1>2, <1>7, <1>8, <1>9, <1>10, <1>11, <1>12

(* A block fed. *)
LEMMA BlockFed ==
    ASSUME FrameLimit \in Nat, NEW done \in Seq(Seq(Every)), NEW s \in Seq(Every), NEW r \in States,
           Sound(done, s, r), NEW block \in Seq(Every)
    PROVE  /\ Run("frames", r, block) \in States
           /\ Sound(done, s \o block, Run("frames", r, block))
<1> DEFINE T == {u \in Seq(Every) : Run("frames", r, u) \in States
                                    /\ Sound(done, s \o u, Run("frames", r, u))}
<1>1. <<>> \in T
  <2>1. <<>> \in Seq(Every) /\ s \o <<>> = s
    BY ConcatEmptySeq
  <2> QED
    BY <2>1, RunOfNothing
<1>2. ASSUME NEW u \in T, NEW b \in Every PROVE Append(u, b) \in T
  <2>1. /\ u \in Seq(Every) /\ Run("frames", r, u) \in States
        /\ Sound(done, s \o u, Run("frames", r, u))
    OBVIOUS
  <2>2. /\ s \o u \in Seq(Every) /\ Append(u, b) \in Seq(Every)
        /\ s \o Append(u, b) = Append(s \o u, b)
    BY <2>1, AppendBehind, AppendProperties
  <2>3. Run("frames", r, Append(u, b)) = F!FeedByte(Run("frames", r, u), b)
    BY <2>1, RunAppend DEF Fed
  <2> HIDE DEF T
  <2>4. /\ Run("frames", r, Append(u, b)) \in States
        /\ Sound(done, s \o Append(u, b), Run("frames", r, Append(u, b)))
    BY <2>1, <2>2, <2>3, ByteFed
  <2> QED
    BY <2>2, <2>4 DEF T
<1>3. T \in SUBSET Seq(Every)
  OBVIOUS
<1> HIDE DEF T
<1>4. block \in T
  BY <1>1, <1>2, <1>3, EverySequence
<1> QED
  BY <1>4 DEF T

Held == [partial |-> partial, resyncing |-> resyncing, ready |-> returned, oversize |-> oversize]

FrameInv ==
    /\ stream \in Seq(Every) /\ frames \in Seq(Seq(Every))
    /\ Held \in States /\ Sound(frames, stream, Held)

LEMMA FramesStart == ASSUME FrameLimit \in Nat, F!Init PROVE FrameInv
<1>1. /\ stream = <<>> /\ partial = <<>> /\ resyncing = FALSE /\ returned = <<>> /\ oversize = 0
      /\ frames = <<>>
  BY DEF F!Init
<1>0. <<>> \in Seq(Every) /\ <<>> \in Seq(Seq(Every)) /\ 0 \in Nat
  OBVIOUS
<1>2. Held \in States
  <2>1. /\ partial \in Seq(Every) /\ returned \in Seq(Seq(Every)) /\ resyncing \in BOOLEAN
        /\ oversize \in Nat
    BY <1>0, <1>1
  <2> QED
    BY <2>1 DEF Held, States
<1>3. F!Behind(<<>>, 1) = 0
  BY BehindIs
<1>4. Loose(<<>>) = 0 /\ Len(<<>>) = 0 /\ SubSeq(<<>>, 1, 0) = <<>>
  BY <1>3 DEF Loose
<1>5. F!Ends(<<>>) = {}
  BY DEF F!Ends
<1>6. <<>> \o <<>> = <<>>
  OBVIOUS
<1>7. F!AreFramesOf(<<>>, <<>>)
  <2>1. Len(<<>>) = 0
    OBVIOUS
  <2>2. Cardinality({}) = 0
    BY FS_EmptySet
  <2>3. Len(<<>>) = Cardinality(F!Ends(<<>>))
    BY <1>5, <2>1, <2>2
  <2>4. \A i \in F!Ends(<<>>) : FALSE
    BY <1>5
  <2> QED
    BY <2>3, <2>4, FramesOf
<1>8. Held.partial = <<>> /\ Held.resyncing = FALSE /\ Held.ready = <<>>
  BY <1>1 DEF Held
<1>9. Sound(<<>>, <<>>, Held)
  BY <1>4, <1>6, <1>7, <1>8 DEF Sound
<1> QED
  BY <1>1, <1>2, <1>9 DEF FrameInv

(* The half frame is given up: what is left of the stream ends where the   *)
(* last frame, or whatever came before, ended.                             *)
LEMMA GivenUp ==
    ASSUME FrameLimit \in Nat, NEW all, NEW s \in Seq(Every), NEW t,
           t = SubSeq(s, 1, Loose(s)), F!AreFramesOf(all, s)
    PROVE  /\ t \in Seq(Every) /\ Len(t) = Loose(s) /\ Loose(t) = Len(t)
           /\ F!AreFramesOf(all, t)
<1> DEFINE n == Len(s)
           z == Loose(s)
<1>1. n \in Nat /\ DOMAIN s = 1..n
  BY OfSequence
<1>2. z \in 0..n /\ (z # 0 => s[z] = 0) /\ \A j \in (z + 1)..n : s[j] # 0
  <2>1. n + 1 \in Nat /\ n + 1 >= 1 /\ (n + 1) - 1 = n
    BY <1>1
  <2> QED
    BY <2>1, BehindFacts DEF Loose
<1> HIDE DEF z
<1>3. t \in Seq(Every) /\ Len(t) = z /\ \A i \in 1..z : t[i] = s[i]
  <2>1. 1 \in 1..(Len(s) + 1) /\ z \in 0..Len(s)
    BY <1>1, <1>2
  <2>2. t \in Seq(Every) /\ Len(t) = (IF 1 <= z THEN z - 1 + 1 ELSE 0)
        /\ \A i \in 1..Len(t) : 1 + i - 1 \in 1..z /\ t[i] = s[1 + i - 1]
    BY <2>1, PartOf DEF z
  <2>3. z \in Nat /\ Len(t) = z /\ \A i \in 1..z : 1 + i - 1 = i
    BY <1>1, <1>2, <2>2
  <2> QED
    BY <2>2, <2>3
<1> HIDE DEF n
<1>4. DOMAIN t = 1..z
  BY <1>3, OfSequence
<1>5. Loose(t) = z
  <2> SUFFICES F!Behind(t, z + 1) = z
    BY <1>3 DEF Loose
  <2>1. z + 1 \in Nat /\ z + 1 >= 1 /\ (z + 1) - 1 = z /\ z \in 0..z /\ (z # 0 => z \in 1..z)
        /\ \A j \in (z + 1)..z : FALSE
    BY <1>1, <1>2
  <2>2. z # 0 => t[z] = 0
    BY <1>2, <1>3, <2>1
  <2> QED
    BY <2>1, <2>2, BehindIs
<1>6. \A i \in 1..z : /\ F!FrameAt(t, i) = F!FrameAt(s, i)
                      /\ i \in F!Ends(t) <=> i \in F!Ends(s)
  <2> SUFFICES ASSUME NEW i \in 1..z
               PROVE  /\ F!FrameAt(t, i) = F!FrameAt(s, i)
                      /\ i \in F!Ends(t) <=> i \in F!Ends(s)
    OBVIOUS
  <2>1. i \in 1..Len(t) /\ i <= Len(s) /\ \A j \in 1..i : j \in 1..z
    BY <1>1, <1>2, <1>3 DEF n
  <2> QED
    BY <1>3, <2>1, FramesAgree
<1>7. F!Ends(t) \subseteq 1..z /\ F!Ends(s) \subseteq 1..n
      /\ \A i \in F!Ends(s) : s[i] = 0
  BY <1>3, EndsFacts DEF n
<1>8. \A i \in 1..n : i \in 1..z \/ i \in (z + 1)..n
  BY <1>1, <1>2
<1>9. F!Ends(s) \subseteq 1..z
  BY <1>2, <1>7, <1>8
<1>10. F!Ends(t) = F!Ends(s)
  BY <1>6, <1>7, <1>9
<1>11. \A i \in F!Ends(s) : F!FrameAt(t, i) = F!FrameAt(s, i)
  BY <1>6, <1>9
<1>12. F!AreFramesOf(all, t)
  BY <1>10, <1>11, FramesKept
<1> QED
  BY <1>3, <1>5, <1>12 DEF z

LEMMA FramesHold ==
    ASSUME FrameLimit \in Nat, FrameInv, [F!Next]_(F!vars)
    PROVE  FrameInv'
<1>1. /\ stream \in Seq(Every) /\ frames \in Seq(Seq(Every))
      /\ Held \in States /\ Sound(frames, stream, Held)
  BY DEF FrameInv
<1>2. /\ partial \in Seq(Every) /\ resyncing \in BOOLEAN /\ returned \in Seq(Seq(Every))
      /\ oversize \in Nat
  BY <1>1 DEF Held, States
<1>3. /\ F!AreFramesOf(frames \o returned, stream)
      /\ resyncing => partial = <<>> /\ Len(stream) - Loose(stream) > FrameLimit
      /\ ~resyncing => /\ partial = SubSeq(stream, Loose(stream) + 1, Len(stream))
                       /\ Len(stream) - Loose(stream) <= FrameLimit
  BY <1>1 DEF Sound, Held
<1>4. ASSUME NEW block \in F!Blocks, F!feed(block) PROVE FrameInv'
  <2>1. block \in Seq(Every)
    <3>1. PICK n \in 1..BlockMax : block \in [1..n -> FrameLetters]
      BY DEF F!Blocks
    <3>2. n \in Nat /\ block \in [1..n -> Every]
      BY <3>1 DEF Every
    <3> QED
      BY <3>2, IsSequence
  <2> DEFINE r == Run("frames", Held, block)
  <2>2. F!FoldLeft(F!FeedByte, Held, block) = r
    BY <2>1, FramesRun
  <2> DEFINE q == F!FoldLeft(F!FeedByte, Held, block)
  <2>8. /\ stream' = stream \o block /\ partial' = q.partial /\ resyncing' = q.resyncing
        /\ returned' = q.ready /\ oversize' = q.oversize /\ frames' = frames
    BY <1>4 DEF F!feed, Held
  <2> HIDE DEF q
  <2>9. q = r
    BY <2>2 DEF q
  <2>3. /\ stream' = stream \o block /\ partial' = r.partial /\ resyncing' = r.resyncing
        /\ returned' = r.ready /\ oversize' = r.oversize /\ frames' = frames
    BY <2>8, <2>9
  <2>4. r \in States /\ Sound(frames, stream \o block, r)
    BY <1>1, <2>1, BlockFed
  <2> HIDE DEF r
  <2>5. Held' = r
    BY <2>3, <2>4 DEF Held, States
  <2>6. stream' \in Seq(Every)
    BY <1>1, <2>1, <2>3, ConcatProperties
  <2>7. Sound(frames', stream', r)
    BY <2>3, <2>4
  <2> QED
    BY <1>1, <2>3, <2>4, <2>5, <2>6, <2>7 DEF FrameInv, Sound
<1>5. CASE F!ReportOversize
  <2>1. /\ oversize' = 0 /\ stream' = stream /\ partial' = partial /\ resyncing' = resyncing
        /\ returned' = returned /\ frames' = frames
    BY <1>5 DEF F!ReportOversize
  <2> QED
    BY <1>1, <1>2, <1>3, <2>1 DEF FrameInv, Held, States, Sound
<1>6. CASE F!next_packet
  <2>1. /\ returned # <<>> /\ frames' = Append(frames, Head(returned)) /\ returned' = Tail(returned)
        /\ stream' = stream /\ partial' = partial /\ resyncing' = resyncing /\ oversize' = oversize
    BY <1>6 DEF F!next_packet
  <2>2. /\ frames' \o returned' = frames \o returned
        /\ frames' \in Seq(Seq(Every)) /\ returned' \in Seq(Seq(Every))
    <3> DEFINE X == Seq(Every)
    <3>1. frames \in Seq(X) /\ returned \in Seq(X) /\ returned # <<>>
      BY <1>1, <1>2, <2>1
    <3> HIDE DEF X
    <3>2. /\ Append(frames, Head(returned)) \o Tail(returned) = frames \o returned
          /\ Append(frames, Head(returned)) \in Seq(X) /\ Tail(returned) \in Seq(X)
      BY <3>1, ElementMoves
    <3> QED
      BY <2>1, <3>2 DEF X
  <2> QED
    BY <1>1, <1>2, <1>3, <2>1, <2>2 DEF FrameInv, Held, States, Sound
<1>7. CASE F!on_timeout
  <2>1. /\ partial # <<>> /\ returned' = returned /\ frames' = frames /\ resyncing' = resyncing
        /\ oversize' = oversize
    BY <1>7 DEF F!on_timeout
  <2>2. CASE timeouts + 1 > FrameTimeouts
    <3>1. partial' = <<>> /\ stream' = SubSeq(stream, 1, Len(stream) - Len(partial))
      BY <1>7, <2>2 DEF F!on_timeout
    <3>2. resyncing = FALSE
      BY <1>2, <1>3, <2>1
    <3>3. Len(stream) - Len(partial) = Loose(stream)
      <4> DEFINE z == Loose(stream)
      <4>1. Len(stream) \in Nat /\ Len(stream) + 1 >= 1 /\ (Len(stream) + 1) - 1 = Len(stream)
        BY <1>1, OfSequence
      <4>2. z \in 0..Len(stream)
        BY <4>1, BehindFacts DEF Loose
      <4>3. partial = SubSeq(stream, z + 1, Len(stream))
        BY <1>3, <3>2
      <4> HIDE DEF z
      <4>4. z + 1 \in 1..(Len(stream) + 1) /\ Len(stream) \in 0..Len(stream)
        BY <4>1, <4>2
      <4>5. Len(partial) = IF z + 1 <= Len(stream) THEN Len(stream) - (z + 1) + 1 ELSE 0
        BY <1>1, <4>3, <4>4, PartOf
      <4> QED
        BY <4>1, <4>2, <4>5 DEF z
    <3> DEFINE t == SubSeq(stream, 1, Loose(stream))
    <3>4. stream' = t
      BY <3>1, <3>3
    <3>5. t \in Seq(Every) /\ Loose(t) = Len(t) /\ F!AreFramesOf(frames \o returned, t)
      BY <1>1, <1>3, GivenUp
    <3> HIDE DEF t
    <3>6. Len(t) \in Nat
      BY <3>5, OfSequence
    <3>7. SubSeq(t, Len(t) + 1, Len(t)) = <<>> /\ Len(t) - Len(t) <= FrameLimit
      BY <3>5, <3>6
    <3>8. Held' \in States /\ Held'.partial = <<>> /\ Held'.resyncing = FALSE /\ Held'.ready = returned
      BY <1>2, <2>1, <3>1, <3>2 DEF Held, States
    <3>9. Sound(frames, t, Held')
      BY <3>5, <3>7, <3>8 DEF Sound
    <3> QED
      BY <1>1, <2>1, <3>4, <3>5, <3>8, <3>9 DEF FrameInv, Sound
  <2>3. CASE ~(timeouts + 1 > FrameTimeouts)
    <3>1. partial' = partial /\ stream' = stream
      BY <1>7, <2>3 DEF F!on_timeout
    <3> QED
      BY <1>1, <1>2, <1>3, <2>1, <3>1 DEF FrameInv, Held, States, Sound
  <2> QED
    BY <2>2, <2>3
<1>8. CASE UNCHANGED F!vars
  BY <1>1, <1>8 DEF FrameInv, Held, Sound, F!vars
<1> QED
  BY <1>4, <1>5, <1>6, <1>7, <1>8 DEF F!Next

(* Whatever reads cut the stream into, whatever is taken off the queue and *)
(* given up in between, the frames handed out and still queued are those   *)
(* of the stream, all of them and in order; a frame too long takes nothing *)
(* of the next one with it (FrameReader::feed and next_packet, RecvState). *)
(* For any stream, any reads, and any bounds on a frame and on timeouts.   *)
THEOREM FramesAreOfTheStream ==
    ASSUME FrameLimit \in Nat PROVE F!Spec => []F!FramesOfTheStream
<1>1. F!Init => FrameInv
  BY FramesStart
<1>2. FrameInv /\ [F!Next]_(F!vars) => FrameInv'
  BY FramesHold
<1>3. FrameInv => F!FramesOfTheStream
  BY DEF FrameInv, Sound, Held, F!FramesOfTheStream
<1> QED
  BY <1>1, <1>2, <1>3, PTL DEF F!Spec

----------------------------------------------------------------------------
(* A clean line.  The frames not read yet stand behind each other like a   *)
(* tower: what is left after i packets is frame i + 1 and what is left     *)
(* after i + 1.                                                            *)

(* The bound on a frame never cuts one the peer sends: MAX_FRAME_SIZE is   *)
(* 8192, and a packet carries at most MAX_PAYLOAD = 4096 bytes.            *)
EveryFrameFits == \A k \in 1..MaxSent : Len(Encode(Packet(k))) <= MaxFrame + 1

Tower(S, n) ==
    /\ S \in [0..n -> Seq(Bytes)]
    /\ S[n] = <<>>
    /\ \A i \in 1..n : S[i - 1] = Frame(i) \o S[i]

BetweenFrames(i, S) == buf = <<>> /\ line = S[i]

InsideFrame(i, S) ==
    /\ i < sent
    /\ \E rest \in Seq(Bytes) :
         /\ rest # <<>>
         /\ buf \o rest = Encode(Packet(i + 1))
         /\ line = rest \o S[i + 1]

OnTheWay(i) ==
    \E S \in [0..sent -> Seq(Bytes)] : Tower(S, sent) /\ (BetweenFrames(i, S) \/ InsideFrame(i, S))

(* While nothing was damaged no error is counted, what came out is what    *)
(* was sent so far, and the rest is on its way.                            *)
CleanInv ==
    /\ damage \in Nat
    /\ damage = 0 =>
         /\ sent \in 0..MaxSent /\ line \in Seq(Bytes) /\ buf \in Seq(Bytes)
         /\ storm = 0
         /\ got \in Seq(Nat) /\ Len(got) <= sent /\ \A k \in 1..Len(got) : got[k] = k
         /\ OnTheWay(Len(got))

LEMMA FrameFacts ==
    ASSUME MaxSent \in 0..MaxCode, NEW k \in 1..MaxSent
    PROVE  /\ Packet(k) \in Seq(Bytes)
           /\ Encode(Packet(k)) \in Seq(Bytes) /\ Len(Encode(Packet(k))) \notin {0, 1}
           /\ \A i \in 1..Len(Encode(Packet(k))) :
                 Encode(Packet(k))[i] = 0 <=> i = Len(Encode(Packet(k)))
           /\ Decoded(Encode(Packet(k))).ok /\ Decoded(Encode(Packet(k))).out = Packet(k)
           /\ FromBytes(Packet(k)) = {k}
           /\ Frame(k) \in Seq(Bytes) /\ Frame(k) # <<>>
           /\ Head(Frame(k)) = 0 /\ Tail(Frame(k)) = Encode(Packet(k))
<1> DEFINE e == Encode(Packet(k))
<1>1. MaxCode \in Nat /\ k \in Bytes /\ 0 \in Bytes
  BY MaxCodeAssumption DEF Bytes
<1>2. Packet(k) \in Seq(Bytes)
  BY <1>1 DEF Packet
<1>3. /\ Decoded(e).ok /\ Decoded(e).out = Packet(k) /\ e \in Seq(Bytes)
      /\ \A i \in DOMAIN e : e[i] = 0 <=> i = Len(e)
  BY <1>2, CobsRoundTrip, Zenon DEF DecodesOk, Decode
<1> HIDE DEF e
<1>4. DOMAIN e = 1..Len(e) /\ Len(e) \in Nat
  BY <1>3
<1>5. Len(e) \notin {0, 1}
  <2> SUFFICES ASSUME Len(e) \in {0, 1} PROVE FALSE
    OBVIOUS
  <2>1. e = <<>> \/ (e # <<>> /\ Last(e) = 0 /\ Front(e) = <<>>)
    <3>1. CASE Len(e) = 0
      BY <1>3, <3>1
    <3>2. CASE Len(e) = 1
      <4>1. 1 \in DOMAIN e /\ 1 = Len(e)
        BY <1>4, <3>2
      <4>2. e[1] = 0
        BY <1>3, <4>1
      <4>3. e # <<>>
        BY <3>2
      <4> QED
        BY <1>3, <3>2, <4>2, <4>3 DEF Last, Front
    <3> QED
      BY <1>4, <3>1, <3>2
  <2>2. FoldLeft(DecodeByte, DecoderInit, <<>>) = DecoderInit
    <3>1. <<>> \in Seq(Nat)
      OBVIOUS
    <3> QED
      BY <3>1, DecoderRuns, RunOfNothing
  <2>3. Decoded(e).out = <<>>
    <3>1. Decoded(e) = [DecoderInit EXCEPT !.ok = @ /\ DecoderInit.due = 0]
      BY <2>1, <2>2 DEF Decoded
    <3> QED
      BY <3>1 DEF DecoderInit
  <2> QED
    BY <1>3, <2>3 DEF Packet
<1>6. FromBytes(Packet(k)) = {k}
  BY DEF FromBytes, Packet
<1>7. /\ Frame(k) \in Seq(Bytes) /\ Frame(k) # <<>>
      /\ Head(Frame(k)) = 0 /\ Tail(Frame(k)) = e
  <2>1. Frame(k) = <<0>> \o e /\ <<0>> \in Seq(Bytes)
    BY <1>1 DEF Frame, e
  <2> QED
    BY <1>3, <2>1
<1> QED
  BY <1>2, <1>3, <1>4, <1>5, <1>6, <1>7 DEF e

(* The first byte of two strings joined, and what is left behind it. *)
LEMMA FirstOfTwo ==
    ASSUME NEW s \in Seq(Bytes), NEW t \in Seq(Bytes), s # <<>>
    PROVE  /\ s \o t # <<>> /\ Head(s \o t) = Head(s) /\ Tail(s \o t) = Tail(s) \o t
           /\ s \o t \in Seq(Bytes)
  OBVIOUS

(* The byte read goes from one part to the other. *)
LEMMA ByteMoves ==
    ASSUME NEW b \in Seq(Bytes), NEW rest \in Seq(Bytes), rest # <<>>
    PROVE  /\ Append(b, Head(rest)) \o Tail(rest) = b \o rest
           /\ Append(b, Head(rest)) \in Seq(Bytes) /\ Tail(rest) \in Seq(Bytes)
           /\ Len(b \o rest) = Len(b) + Len(rest)
           /\ (b \o rest)[Len(b) + 1] = Head(rest)
  OBVIOUS

LEMMA Regrouped ==
    ASSUME NEW s \in Seq(Bytes), NEW t \in Seq(Bytes), NEW u \in Seq(Bytes)
    PROVE  (s \o t) \o u = s \o (t \o u)
  BY ConcatAssociative

LEMMA OnlyOne ==
    ASSUME NEW s \in Seq(Bytes), s # <<>>
    PROVE  Len(s) \in Nat /\ Len(s) > 0 /\ (Tail(s) = <<>> <=> Len(s) = 1)
<1>1. Tail(s) \in Seq(Bytes) /\ Len(Tail(s)) = Len(s) - 1 /\ Len(s) \in Nat /\ Len(s) > 0
  BY HeadTailProperties
<1>2. Tail(s) = <<>> <=> Len(Tail(s)) = 0
  BY <1>1
<1> QED
  BY <1>1, <1>2

(* Another frame is put under every floor of the tower. *)
LEMMA TowerGrows ==
    ASSUME MaxSent \in 0..MaxCode, NEW n \in Nat, n + 1 \in 1..MaxSent, NEW S, Tower(S, n),
           NEW R, R = [i \in 0..(n + 1) |-> IF i = n + 1 THEN <<>> ELSE S[i] \o Frame(n + 1)]
    PROVE  R \in [0..(n + 1) -> Seq(Bytes)] /\ Tower(R, n + 1)
           /\ \A i \in 0..n : R[i] = S[i] \o Frame(n + 1)
<1> DEFINE f == Frame(n + 1)
<1>1. f \in Seq(Bytes) /\ f \o <<>> = f /\ <<>> \o f = f /\ <<>> \in Seq(Bytes)
  BY FrameFacts
<1>2. S \in [0..n -> Seq(Bytes)] /\ S[n] = <<>> /\ \A i \in 1..n : S[i - 1] = Frame(i) \o S[i]
  BY DEF Tower
<1>3. R = [i \in 0..(n + 1) |-> IF i = n + 1 THEN <<>> ELSE S[i] \o f]
  OBVIOUS
<1>4. \A i \in 1..n : Frame(i) \in Seq(Bytes)
  <2> SUFFICES ASSUME NEW i \in 1..n PROVE Frame(i) \in Seq(Bytes)
    OBVIOUS
  <2>1. i \in 1..MaxSent
    BY MaxCodeAssumption
  <2> QED
    BY <2>1, FrameFacts
<1> HIDE DEF f
<1>5. \A i \in 0..n : i \in 0..(n + 1) /\ i # n + 1 /\ S[i] \o f \in Seq(Bytes)
  BY <1>1, <1>2
<1>6. \A i \in 0..(n + 1) : R[i] = IF i = n + 1 THEN <<>> ELSE S[i] \o f
  BY <1>3, Zenon
<1>7. n + 1 \in 0..(n + 1) /\ \A i \in 0..(n + 1) : i \in 0..n \/ i = n + 1
  OBVIOUS
<1>9. R[n + 1] = <<>> /\ \A i \in 0..n : R[i] = S[i] \o f
  BY <1>5, <1>6, <1>7
<1>10. R \in [0..(n + 1) -> Seq(Bytes)]
  <2>1. \A i \in 0..(n + 1) : R[i] \in Seq(Bytes)
    BY <1>1, <1>5, <1>7, <1>9
  <2> QED
    BY <1>3, <2>1
<1>8. ASSUME NEW i \in 1..(n + 1) PROVE R[i - 1] = Frame(i) \o R[i]
  <2>1. CASE i = n + 1
    <3>1. i - 1 = n /\ n \in 0..n
      BY <2>1
    <3>2. R[n] = <<>> \o f /\ R[n + 1] = <<>>
      BY <1>2, <1>9, <3>1
    <3>3. R[n] = f \o R[n + 1]
      BY <1>1, <3>2
    <3> QED
      BY <2>1, <3>1, <3>3 DEF f
  <2>2. CASE i # n + 1
    <3>1. i \in 1..n /\ i \in 0..n /\ i - 1 \in 0..n
      BY <2>2
    <3>2. R[i - 1] = (Frame(i) \o S[i]) \o f /\ R[i] = S[i] \o f
      BY <1>2, <1>9, <3>1
    <3>3. Frame(i) \in Seq(Bytes) /\ S[i] \in Seq(Bytes)
      BY <1>2, <1>4, <3>1
    <3>4. (Frame(i) \o S[i]) \o f = Frame(i) \o (S[i] \o f)
      <4>1. f \in Seq(Bytes)
        BY <1>1
      <4> QED
        BY <3>3, <4>1, Regrouped
    <3> QED
      BY <3>2, <3>4
  <2> QED
    BY <2>1, <2>2
<1> QED
  BY <1>9, <1>10, <1>8 DEF Tower, f

(* What a step finds, and what it has to leave, while nothing is damaged.  *)
LEMMA CleanStep ==
    ASSUME CleanInv, damage = 0, damage' = 0, MaxSent \in 0..MaxCode,
           sent' \in 0..MaxSent, storm' = 0,
           line' \in Seq(Bytes), buf' \in Seq(Bytes),
           got' \in Seq(Nat), Len(got') <= sent', \A k \in 1..Len(got') : got'[k] = k,
           NEW i, i = Len(got'), OnTheWay(i)'
    PROVE  CleanInv'
<1>1. OnTheWay(Len(got))'
  BY DEF OnTheWay, BetweenFrames, InsideFrame
<1> QED
  BY <1>1 DEF CleanInv

LEMMA CleanStart ==
    ASSUME Init, MaxSent \in 0..MaxCode PROVE CleanInv
<1>1. MaxSent \in Nat
  BY MaxCodeAssumption
<1> DEFINE S == [i \in 0..0 |-> <<>>]
<1>2. sent = 0 /\ damage = 0 /\ line = <<>> /\ buf = <<>> /\ storm = 0 /\ got = <<>>
  BY DEF Init
<1>3. S \in [0..sent -> Seq(Bytes)] /\ Tower(S, sent) /\ S[0] = <<>>
  BY <1>2 DEF Tower
<1>4. OnTheWay(0)
  BY <1>2, <1>3 DEF OnTheWay, BetweenFrames
<1> QED
  BY <1>1, <1>2, <1>4 DEF CleanInv

LEMMA CleanHolds ==
    ASSUME CleanInv, [Next]_vars, MaxSent \in 0..MaxCode, StormThreshold \in Nat \ {0},
           MaxFrame \in Nat, EveryFrameFits
    PROVE  CleanInv'
<1>1. MaxSent \in Nat /\ MaxCode \in Nat
  BY MaxCodeAssumption
<1>2. CASE damage # 0
  <2>1. damage' = damage \/ damage' = damage + 1
    BY DEF Next, Read, Send, LoseByte, NoiseByte, SkipDelimiter, TakesDataByte, Oversize,
           FrameEnds, PartialTimeout, RecvTimeout, Reopen, vars
  <2> QED
    BY <1>2, <2>1 DEF CleanInv
<1>3. CASE damage = 0
  <2>1. /\ sent \in 0..MaxSent /\ line \in Seq(Bytes) /\ buf \in Seq(Bytes)
        /\ storm = 0
        /\ got \in Seq(Nat) /\ Len(got) <= sent /\ \A k \in 1..Len(got) : got[k] = k
        /\ OnTheWay(Len(got))
    BY <1>3 DEF CleanInv
  <2>8. PICK i : i = Len(got)
    OBVIOUS
  <2>2. i \in Nat /\ sent \in Nat /\ i \in 0..sent
    BY <1>1, <2>1, <2>8
  <2>3. PICK S \in [0..sent -> Seq(Bytes)] :
           Tower(S, sent) /\ (BetweenFrames(i, S) \/ InsideFrame(i, S))
    BY <2>1, <2>8 DEF OnTheWay
  <2>4. S[sent] = <<>> /\ \A j \in 1..sent : S[j - 1] = Frame(j) \o S[j]
    BY <2>3 DEF Tower
  <2>5. ASSUME i < sent
        PROVE  /\ i + 1 \in 1..MaxSent /\ i + 1 \in 0..sent /\ S[i + 1] \in Seq(Bytes)
               /\ S[i] = Frame(i + 1) \o S[i + 1]
               /\ Len(Encode(Packet(i + 1))) <= MaxFrame + 1
    <3>1. i + 1 \in 1..MaxSent /\ i + 1 \in 1..sent /\ i + 1 \in 0..sent /\ (i + 1) - 1 = i
      BY <1>1, <2>1, <2>2, <2>5
    <3> QED
      BY <2>3, <2>4, <3>1 DEF EveryFrameFits
  (* Between two frames the next byte, if there is one, is a delimiter. *)
  <2>6. ASSUME BetweenFrames(i, S), line # <<>>
        PROVE  i < sent /\ Head(line) = 0 /\ Tail(line) = Encode(Packet(i + 1)) \o S[i + 1]
    <3>1. i # sent
      BY <2>4, <2>6 DEF BetweenFrames
    <3>2. i < sent
      BY <2>2, <3>1
    <3>3. /\ Frame(i + 1) \in Seq(Bytes) /\ Frame(i + 1) # <<>>
          /\ Head(Frame(i + 1)) = 0 /\ Tail(Frame(i + 1)) = Encode(Packet(i + 1))
      BY <2>5, <3>2, FrameFacts
    <3>4. line = Frame(i + 1) \o S[i + 1] /\ S[i + 1] \in Seq(Bytes)
      BY <2>5, <2>6, <3>2 DEF BetweenFrames
    <3> QED
      BY <3>2, <3>3, <3>4, FirstOfTwo
  (* Inside one there is a next byte; it is a delimiter at the end only. *)
  <2>7. ASSUME NEW rest \in Seq(Bytes), i < sent, rest # <<>>,
               buf \o rest = Encode(Packet(i + 1)), line = rest \o S[i + 1]
        PROVE  /\ line # <<>> /\ Head(line) = Head(rest) /\ Tail(line) = Tail(rest) \o S[i + 1]
               /\ Len(buf) + Len(rest) = Len(Encode(Packet(i + 1)))
               /\ Head(rest) = 0 <=> Tail(rest) = <<>>
               /\ Append(buf, Head(rest)) \o Tail(rest) = Encode(Packet(i + 1))
               /\ Append(buf, Head(rest)) \in Seq(Bytes) /\ Tail(rest) \in Seq(Bytes)
    <3> DEFINE e == Encode(Packet(i + 1))
    <3>1. S[i + 1] \in Seq(Bytes) /\ i + 1 \in 1..MaxSent
      BY <2>5, <2>7
    <3>2. e \in Seq(Bytes) /\ \A j \in 1..Len(e) : e[j] = 0 <=> j = Len(e)
      BY <3>1, FrameFacts
    <3>3. /\ line # <<>> /\ Head(line) = Head(rest) /\ Tail(line) = Tail(rest) \o S[i + 1]
      BY <2>7, <3>1, FirstOfTwo
    <3>4. /\ Append(buf, Head(rest)) \o Tail(rest) = e
          /\ Append(buf, Head(rest)) \in Seq(Bytes) /\ Tail(rest) \in Seq(Bytes)
          /\ Len(e) = Len(buf) + Len(rest)
          /\ e[Len(buf) + 1] = Head(rest)
      BY <2>1, <2>7, ByteMoves
    <3> HIDE DEF e
    <3>5. Len(buf) \in Nat /\ Len(rest) \in Nat /\ Len(rest) > 0
          /\ (Tail(rest) = <<>> <=> Len(rest) = 1)
      <4>1. Len(buf) \in Nat
        BY <2>1
      <4>2. rest \in Seq(Bytes) /\ rest # <<>>
        BY <2>7
      <4> QED
        BY <4>1, <4>2, OnlyOne
    <3>6. Len(buf) + 1 \in 1..Len(e)
      BY <3>4, <3>5
    <3>7. e[Len(buf) + 1] = 0 <=> Len(buf) + 1 = Len(e)
      BY <3>2, <3>6
    <3>8. Head(rest) = 0 <=> Len(rest) = 1
      BY <3>4, <3>5, <3>7
    <3> QED
      BY <3>3, <3>4, <3>5, <3>8 DEF e
  <2>9. CASE Send
    <3> DEFINE f == Frame(sent + 1)
               R == [j \in 0..(sent + 1) |-> IF j = sent + 1 THEN <<>> ELSE S[j] \o f]
    <3>1. /\ sent' = sent + 1 /\ line' = line \o f /\ buf' = buf /\ storm' = storm
          /\ got' = got /\ damage' = damage /\ sent + 1 \in 1..MaxSent
      BY <1>1, <2>1, <2>9 DEF Send
    <3>2. f \in Seq(Bytes)
      BY <3>1, FrameFacts
    <3>3. R \in [0..(sent + 1) -> Seq(Bytes)] /\ Tower(R, sent + 1)
          /\ \A j \in 0..sent : R[j] = S[j] \o f
      <4> HIDE DEF R, f
      <4>1. R = [j \in 0..(sent + 1) |-> IF j = sent + 1 THEN <<>> ELSE S[j] \o f]
        BY DEF R
      <4> QED
        BY <2>2, <2>3, <3>1, <4>1, TowerGrows, ZenonT(60) DEF f
    <3>6. /\ line' \in Seq(Bytes) /\ buf' \in Seq(Bytes) /\ sent' \in 0..MaxSent /\ storm' = 0
          /\ damage' = 0 /\ got' \in Seq(Nat) /\ Len(got') <= sent'
          /\ \A k \in 1..Len(got') : got'[k] = k
      <4> HIDE DEF f, R
      <4>1. line' \in Seq(Bytes)
        BY <1>1, <2>1, <3>1, <3>2, ConcatProperties
      <4>2. Len(got) \in Nat /\ sent \in Nat /\ MaxSent \in Nat
        BY <1>1, <2>1, MaxCodeAssumption
      <4>3. sent' \in 0..MaxSent /\ Len(got) <= sent + 1
        BY <2>1, <3>1, <4>2
      <4>4. damage' = 0
        BY <1>3, <3>1
      <4> QED
        BY <2>1, <3>1, <4>1, <4>3, <4>4
    <3> HIDE DEF f, R
    <3>4. CASE BetweenFrames(i, S)
      <4>1. buf' = <<>> /\ line' = R[i]
        BY <2>2, <3>1, <3>3, <3>4 DEF BetweenFrames
      <4>2. OnTheWay(i)'
        BY <2>8, <3>1, <3>3, <4>1 DEF OnTheWay, BetweenFrames
      <4> QED
        BY <1>1, <1>3, <2>1, <2>8, <3>1, <3>6, <4>2, CleanStep
    <3>5. CASE InsideFrame(i, S)
      <4>1. PICK rest \in Seq(Bytes) :
              i < sent /\ rest # <<>> /\ buf \o rest = Encode(Packet(i + 1)) /\ line = rest \o S[i + 1]
        BY <3>5 DEF InsideFrame
      <4>2. S[i + 1] \in Seq(Bytes) /\ i + 1 \in 0..sent
        BY <2>5, <4>1
      <4>3. line' = rest \o R[i + 1]
        <5>1. (rest \o S[i + 1]) \o f = rest \o (S[i + 1] \o f)
          BY <3>2, <4>2, ConcatAssociative, SMTT(30)
        <5> QED
          BY <3>1, <3>3, <4>1, <4>2, <5>1
      <4>4. OnTheWay(i)'
        <5>1. i < sent'
          BY <2>2, <3>1, <4>1
        <5> QED
          BY <2>8, <3>1, <3>3, <4>1, <4>3, <5>1 DEF OnTheWay, InsideFrame
      <4> QED
        BY <1>1, <1>3, <2>1, <2>8, <3>1, <3>6, <4>4, CleanStep
    <3> QED
      BY <2>3, <3>4, <3>5
  <2>10. CASE LoseByte \/ NoiseByte
    <3>1. damage' = 1
      BY <1>3, <2>10 DEF LoseByte, NoiseByte
    <3> QED
      BY <3>1 DEF CleanInv
  <2>11. CASE SkipDelimiter
    <3>1. /\ line # <<>> /\ Head(line) = 0 /\ buf = <<>> /\ line' = Tail(line)
          /\ UNCHANGED <<sent, damage, buf, storm, got>>
      BY <2>11 DEF SkipDelimiter, ReadByteOf
    <3>2. CASE BetweenFrames(i, S)
      <4> DEFINE e == Encode(Packet(i + 1))
      <4>1. i < sent /\ line' = e \o S[i + 1]
        BY <2>6, <3>1, <3>2
      <4>2. e \in Seq(Bytes) /\ e # <<>>
        <5>1. e \in Seq(Bytes) /\ Len(e) # 0
          BY <2>5, <4>1, FrameFacts
        <5> QED
          BY <5>1
      <4> HIDE DEF e
      <4>3. buf \o e = e
        BY <3>1, <4>2
      <4>4. InsideFrame(i, S)'
        BY <2>8, <3>1, <4>1, <4>2, <4>3 DEF InsideFrame, e
      <4>5. OnTheWay(i)'
        BY <2>3, <2>8, <3>1, <4>4 DEF OnTheWay
      <4> QED
        BY <1>3, <2>1, <2>8, <3>1, <4>5, CleanStep, HeadTailProperties
    <3>3. CASE InsideFrame(i, S)
      <4>1. PICK rest \in Seq(Bytes) :
              i < sent /\ rest # <<>> /\ buf \o rest = Encode(Packet(i + 1)) /\ line = rest \o S[i + 1]
        BY <3>3 DEF InsideFrame
      <4>2. Tail(rest) = <<>> /\ Len(buf) + Len(rest) = Len(Encode(Packet(i + 1)))
        BY <2>7, <3>1, <4>1
      <4>3. Len(Encode(Packet(i + 1))) # 1
        BY <2>5, <4>1, FrameFacts
      <4>4. Len(rest) = 1
        BY <4>1, <4>2, OnlyOne
      <4>5. Len(buf) = 0
        BY <3>1
      <4>6. Len(Encode(Packet(i + 1))) = 1
        BY <4>2, <4>4, <4>5
      <4> QED
        BY <4>3, <4>6
    <3> QED
      BY <2>3, <3>2, <3>3
  <2>12. CASE TakesDataByte
    <3>1. /\ line # <<>> /\ Head(line) # 0 /\ line' = Tail(line) /\ buf' = Append(buf, Head(line))
          /\ UNCHANGED <<sent, damage, storm, got>>
      BY <2>12 DEF TakesDataByte
    <3>2. InsideFrame(i, S)
      BY <2>3, <2>6, <3>1
    <3>3. PICK rest \in Seq(Bytes) :
            i < sent /\ rest # <<>> /\ buf \o rest = Encode(Packet(i + 1)) /\ line = rest \o S[i + 1]
      BY <3>2 DEF InsideFrame
    <3>4. /\ Head(line) = Head(rest) /\ Tail(line) = Tail(rest) \o S[i + 1] /\ Tail(rest) # <<>>
          /\ Append(buf, Head(rest)) \o Tail(rest) = Encode(Packet(i + 1))
          /\ Append(buf, Head(rest)) \in Seq(Bytes) /\ Tail(rest) \in Seq(Bytes)
      BY <2>7, <3>1, <3>3
    <3>5. InsideFrame(i, S)'
      BY <2>8, <3>1, <3>3, <3>4 DEF InsideFrame
    <3>6. OnTheWay(i)'
      BY <2>3, <2>8, <3>1, <3>5 DEF OnTheWay
    <3> QED
      BY <1>3, <2>1, <2>8, <3>1, <3>4, <3>6, CleanStep, HeadTailProperties
  <2>13. CASE Oversize
    <3>1. line # <<>> /\ Head(line) # 0 /\ Len(buf) + 1 > MaxFrame
      BY <2>13 DEF Oversize
    <3>2. InsideFrame(i, S)
      BY <2>3, <2>6, <3>1
    <3>3. PICK rest \in Seq(Bytes) :
            i < sent /\ rest # <<>> /\ buf \o rest = Encode(Packet(i + 1)) /\ line = rest \o S[i + 1]
      BY <3>2 DEF InsideFrame
    <3>4. Tail(rest) # <<>> /\ Len(buf) + Len(rest) = Len(Encode(Packet(i + 1)))
      BY <2>7, <3>1, <3>3
    <3>5. Len(rest) >= 2 /\ Len(buf) \in Nat /\ Len(rest) \in Nat
      BY <2>1, <3>3, <3>4
    <3>6. Len(Encode(Packet(i + 1))) <= MaxFrame + 1
      BY <2>5, <3>3
    <3> QED
      BY <3>1, <3>4, <3>5, <3>6
  <2>14. CASE FrameEnds
    <3>1. /\ line # <<>> /\ Head(line) = 0 /\ buf # <<>> /\ line' = Tail(line)
          /\ UNCHANGED <<sent, damage>>
      BY <2>14 DEF FrameEnds, ReadByteOf
    <3>2. InsideFrame(i, S)
      BY <2>3, <3>1 DEF BetweenFrames
    <3>3. PICK rest \in Seq(Bytes) :
            i < sent /\ rest # <<>> /\ buf \o rest = Encode(Packet(i + 1)) /\ line = rest \o S[i + 1]
      BY <3>2 DEF InsideFrame
    <3>4. /\ Head(rest) = 0 /\ Tail(line) = Tail(rest) \o S[i + 1] /\ Tail(rest) = <<>>
          /\ Append(buf, Head(rest)) \o Tail(rest) = Encode(Packet(i + 1))
          /\ Append(buf, Head(rest)) \in Seq(Bytes)
      BY <2>7, <3>1, <3>3
    <3>5. /\ i + 1 \in 1..MaxSent /\ S[i + 1] \in Seq(Bytes) /\ i + 1 \in 0..sent
      BY <2>5, <3>3
    <3>6. Append(buf, 0) = Encode(Packet(i + 1)) /\ line' = S[i + 1]
      <4>1. Append(buf, Head(rest)) \o <<>> = Append(buf, Head(rest)) /\ <<>> \o S[i + 1] = S[i + 1]
        BY <3>4, <3>5, ConcatEmptySeq
      <4> QED
        BY <3>1, <3>4, <4>1
    <3>7. /\ Decoded(Append(buf, 0)).ok /\ FromBytes(Decoded(Append(buf, 0)).out) = {i + 1}
      BY <3>5, <3>6, FrameFacts
    <3>8. buf' = <<>> /\ storm' = 0 /\ got' = Append(got, i + 1)
      BY <2>14, <3>7 DEF FrameEnds, BufferAfterFrame, GoodFrame
    <3>9. /\ got' \in Seq(Nat) /\ Len(got') = i + 1
          /\ \A k \in 1..Len(got') : got'[k] = k
      <4>1. i + 1 \in Nat
        BY <2>2
      <4> QED
        BY <2>1, <2>8, <3>8, <4>1
    <3>10. Len(got') <= sent' /\ sent' \in 0..MaxSent
      BY <2>1, <2>2, <3>1, <3>3, <3>9
    <3>11. OnTheWay(i + 1)'
      BY <2>3, <3>1, <3>6, <3>8, <3>9 DEF OnTheWay, BetweenFrames
    <3>12. line' \in Seq(Bytes) /\ buf' \in Seq(Bytes)
      BY <3>5, <3>6, <3>8
    <3> QED
      BY <1>3, <3>1, <3>8, <3>9, <3>10, <3>11, <3>12, CleanStep
  <2>15. CASE PartialTimeout
    <3>1. line = <<>> /\ buf # <<>>
      BY <2>15 DEF PartialTimeout
    <3>2. InsideFrame(i, S)
      BY <2>3, <3>1 DEF BetweenFrames
    <3>3. PICK rest \in Seq(Bytes) :
            i < sent /\ rest # <<>> /\ buf \o rest = Encode(Packet(i + 1)) /\ line = rest \o S[i + 1]
      BY <3>2 DEF InsideFrame
    <3> QED
      BY <2>7, <3>1, <3>3
  <2>16. CASE Reopen
    BY <2>1, <2>16 DEF Reopen
  <2>17. CASE RecvTimeout \/ UNCHANGED vars
    <3>1. UNCHANGED vars
      BY <2>17 DEF RecvTimeout
    <3> QED
      BY <3>1 DEF vars, CleanInv, OnTheWay, BetweenFrames, InsideFrame
  <2> QED
    BY <2>9, <2>10, <2>11, <2>12, <2>13, <2>14, <2>15, <2>16, <2>17 DEF Next, Read
<1> QED
  BY <1>2, <1>3

(* On a line that damaged nothing every packet sent comes out, once and in *)
(* order, and when the bytes are read nothing is left over: no frame is    *)
(* refused, cut off as too long or given up half read, and the storm       *)
(* counter never moves (read_frame and recv in serial.rs, StormCounter).   *)
(* For any sizes of code blocks, frames, timeouts and thresholds, as long  *)
(* as the frames fit.                                                      *)
THEOREM CleanLineIsExact ==
    ASSUME MaxSent \in 0..MaxCode, StormThreshold \in Nat \ {0}, MaxFrame \in Nat, EveryFrameFits
    PROVE  Spec => [](damage = 0 => PacketsAsSent /\ storm = 0)
<1>1. Init => CleanInv
  BY CleanStart
<1>2. CleanInv /\ [Next]_vars => CleanInv'
  BY CleanHolds
<1>3. CleanInv => (damage = 0 => PacketsAsSent /\ storm = 0)
  <2> SUFFICES ASSUME CleanInv, damage = 0 PROVE PacketsAsSent /\ storm = 0
    OBVIOUS
  <2>1. /\ sent \in 0..MaxSent /\ storm = 0 /\ line \in Seq(Bytes)
        /\ got \in Seq(Nat) /\ Len(got) <= sent /\ \A k \in 1..Len(got) : got[k] = k
        /\ OnTheWay(Len(got))
    BY DEF CleanInv
  <2>2. Len(got) \in Nat /\ sent \in Nat /\ DOMAIN got = 1..Len(got)
    BY <2>1, MaxCodeAssumption
  <2>3. NothingForged
    BY <2>1, <2>2 DEF NothingForged
  <2>4. ASSUME line = <<>> PROVE buf = <<>> /\ Len(got) = sent
    <3>0. PICK i : i = Len(got)
      OBVIOUS
    <3>1. PICK S \in [0..sent -> Seq(Bytes)] :
             Tower(S, sent) /\ (BetweenFrames(i, S) \/ InsideFrame(i, S))
      BY <2>1, <3>0 DEF OnTheWay
    <3>4. i \in Nat /\ i <= sent
      BY <2>1, <2>2, <3>0
    <3>2. ~InsideFrame(i, S)
      <4> SUFFICES ASSUME NEW rest \in Seq(Bytes), i < sent, rest # <<>>, line = rest \o S[i + 1]
                   PROVE FALSE
        BY DEF InsideFrame
      <4>1. i + 1 \in 0..sent
        BY <2>2, <3>4
      <4>2. S[i + 1] \in Seq(Bytes)
        BY <4>1
      <4> QED
        BY <2>4, <4>2, FirstOfTwo, ZenonT(60)
    <3>3. i = sent
      <4> SUFFICES ASSUME i < sent PROVE FALSE
        BY <2>2, <3>4
      <4>1. i + 1 \in 1..sent /\ i + 1 \in 0..sent /\ i + 1 \in 1..MaxSent /\ (i + 1) - 1 = i
        BY <2>1, <2>2, <3>4, MaxCodeAssumption
      <4>2. line = Frame(i + 1) \o S[i + 1] /\ S[i + 1] \in Seq(Bytes)
        BY <3>1, <3>2, <4>1 DEF Tower, BetweenFrames
      <4>3. Frame(i + 1) \in Seq(Bytes) /\ Frame(i + 1) # <<>>
        BY <4>1, FrameFacts
      <4> QED
        BY <2>4, <4>2, <4>3, FirstOfTwo, ZenonT(60)
    <3> QED
      BY <3>0, <3>1, <3>2, <3>3 DEF BetweenFrames
  <2>5. ASSUME line = <<>> PROVE got = [k \in 1..sent |-> k]
    <3>1. Len(got) = sent
      BY <2>4, <2>5
    <3>2. got = [k \in DOMAIN got |-> got[k]]
      BY <2>1
    <3> QED
      BY <2>1, <2>2, <3>1, <3>2
  <2> QED
    BY <2>1, <2>3, <2>4, <2>5 DEF PacketsAsSent, CleanLineLosesNothing
<1> QED
  BY <1>1, <1>2, <1>3, PTL DEF Spec

(* A fold over two pieces goes on where the first one left it.             *)
LEMMA RunConcat ==
    ASSUME NEW how, NEW base, NEW S, NEW a \in Seq(S), NEW c \in Seq(S)
    PROVE  Run(how, base, a \o c) = Run(how, Run(how, base, a), c)
<1> DEFINE T == {u \in Seq(S) : Run(how, base, a \o u) = Run(how, Run(how, base, a), u)}
<1>1. <<>> \in T
  <2>1. <<>> \in Seq(S) /\ a \o <<>> = a
    BY ConcatEmptySeq
  <2> QED
    BY <2>1, RunOfNothing
<1>2. ASSUME NEW u \in T, NEW b \in S PROVE Append(u, b) \in T
  <2>1. u \in Seq(S) /\ Run(how, base, a \o u) = Run(how, Run(how, base, a), u)
    OBVIOUS
  <2>1u. u \in Seq(S)
    OBVIOUS
  <2> HIDE DEF T
  <2>2a. Append(u, b) \in Seq(S)
    BY <2>1, AppendProperties
  <2>2. /\ a \o u \in Seq(S) /\ Append(u, b) \in Seq(S)
        /\ a \o Append(u, b) = Append(a \o u, b)
    <3>1. u \in Seq(S)
      BY <2>1
    <3> QED
      BY <3>1, <2>2a, AppendBehind, SMTT(30)
  <2>3. Run(how, base, Append(a \o u, b)) = Fed(how, Run(how, base, a \o u), b)
    <3> DEFINE w == a \o u
    <3>1. w \in Seq(S)
      BY <2>2
    <3> HIDE DEF w
    <3>2. Run(how, base, Append(w, b)) = Fed(how, Run(how, base, w), b)
      BY <3>1, RunAppend
    <3> QED
      BY <2>2, <3>2 DEF w
  <2>4. Run(how, Run(how, base, a), Append(u, b)) = Fed(how, Run(how, Run(how, base, a), u), b)
    BY <2>1, RunAppend
  <2>5. Run(how, base, a \o Append(u, b)) = Run(how, Run(how, base, a), Append(u, b))
    BY <2>1, <2>2, <2>3, <2>4
  <2> QED
    BY <2>2, <2>5 DEF T
<1>3. T \in SUBSET Seq(S)
  OBVIOUS
<1> HIDE DEF T
<1>4. c \in T
  BY <1>1, <1>2, <1>3, EverySequence
<1> QED
  BY <1>4 DEF T

----------------------------------------------------------------------------
(* Text.                                                                   *)

TextByte == 0..3
TextChar == 0..4

(* A character that is not complete yet. *)
Unfinished == {<<>>, <<2>>, <<3>>, <<3, 1>>}

TextState(o, h) == [out |-> o, held |-> h]

TextStates == {TextState(o, h) : o \in Seq(TextChar), h \in Unfinished}

TextRead(s) == Run("text", TextState(<<>>, <<>>), s)

(* The reference's fold is a run.                                          *)
LEMMA TextRun ==
    ASSUME NEW s \in Seq(TextByte)
    PROVE  from_utf8_lossy(s) = TextRead(s).out \o finish(TextRead(s).held)
<1>1. DOMAIN s = 1..Len(s)
  OBVIOUS
<1>2. FoldLeft(Lossy, [out |-> <<>>, held |-> <<>>], s) = TextRead(s)
  BY <1>1 DEF FoldLeft, MapThenFoldSet, TextRead, TextState, Run, Iterates, Turn, Fed
<1> QED
  BY <1>2 DEF from_utf8_lossy

(* Sequences of two and of three.                                          *)
LEMMA TwoOf ==
    ASSUME NEW W, NEW a \in W, NEW b \in W
    PROVE  /\ <<a, b>> \in Seq(W) /\ Len(<<a, b>>) = 2 /\ <<a, b>>[1] = a /\ <<a, b>>[2] = b
           /\ Append(<<a>>, b) = <<a, b>>
<1> DEFINE p == Append(<<a>>, b)
           q == <<a, b>>
<1>1. q \in Seq(W) /\ Len(q) = 2 /\ q[1] = a /\ q[2] = b
  OBVIOUS
<1>2. <<a>> \in Seq(W) /\ Len(<<a>>) = 1 /\ <<a>>[1] = a
  OBVIOUS
<1>3. p \in Seq(W) /\ Len(p) = Len(<<a>>) + 1 /\ p[Len(<<a>>) + 1] = b
      /\ \A k \in 1..Len(<<a>>) : p[k] = <<a>>[k]
  BY <1>2, AppendProperties
<1>4. Len(p) = 2 /\ p[1] = a /\ p[2] = b
  BY <1>2, <1>3
<1> HIDE DEF p, q
<1>5. \A k \in 1..2 : p[k] = q[k]
  BY <1>1, <1>4
<1>6. p = q
  BY <1>1, <1>3, <1>4, <1>5, SeqEqual
<1> QED
  BY <1>1, <1>6 DEF p, q

LEMMA ThreeOf ==
    ASSUME NEW W, NEW a \in W, NEW b \in W, NEW c \in W
    PROVE  Append(<<a, b>>, c) = <<a, b, c>>
<1> DEFINE p == Append(<<a, b>>, c)
           q == <<a, b, c>>
<1>1. q \in Seq(W) /\ Len(q) = 3 /\ q[1] = a /\ q[2] = b /\ q[3] = c
  OBVIOUS
<1>2. <<a, b>> \in Seq(W) /\ Len(<<a, b>>) = 2 /\ <<a, b>>[1] = a /\ <<a, b>>[2] = b
  BY TwoOf
<1>3. p \in Seq(W) /\ Len(p) = Len(<<a, b>>) + 1 /\ p[Len(<<a, b>>) + 1] = c
      /\ \A k \in 1..Len(<<a, b>>) : p[k] = <<a, b>>[k]
  BY <1>2, AppendProperties
<1>4. Len(p) = 3 /\ p[1] = a /\ p[2] = b /\ p[3] = c
  BY <1>2, <1>3
<1> HIDE DEF p, q
<1>5. \A k \in 1..3 : p[k] = q[k]
  BY <1>1, <1>4
<1>6. p = q
  BY <1>1, <1>3, <1>4, <1>5, SeqEqual
<1> QED
  BY <1>6 DEF p, q

(* One byte: what it puts out, and what is held behind it. *)
Emits(h, b) ==
    IF b = 1 THEN IF h = <<>> THEN <<4>> ELSE IF h = <<3>> THEN <<>> ELSE Append(h, 1)
    ELSE IF b = 0 THEN IF h = <<>> THEN <<0>> ELSE <<4, 0>>
    ELSE IF h = <<>> THEN <<>> ELSE <<4>>

After(h, b) ==
    IF b = 1 THEN IF h = <<3>> THEN <<3, 1>> ELSE <<>> ELSE IF b = 0 THEN <<>> ELSE <<b>>

(* The beginnings of a character differ.                                   *)
LEMMA Begun23 ==
    /\ <<2>> # <<>> /\ <<3>> # <<>> /\ <<3, 1>> # <<>> /\ <<2>> # <<3>> /\ <<3, 1>> # <<3>>
    /\ <<2>> # <<3, 1>>
<1>1. Len(<<2>>) = 1 /\ Len(<<3>>) = 1 /\ Len(<<3, 1>>) = 2 /\ Len(<<>>) = 0
  OBVIOUS
<1>2. <<2>>[1] = 2 /\ <<3>>[1] = 3
  OBVIOUS
<1> QED
  BY <1>1, <1>2

(* Beginnings are bytes, and what is put out is characters.                *)
LEMMA TextBytes ==
    /\ <<>> \in Seq(TextByte) /\ <<2>> \in Seq(TextByte) /\ <<3>> \in Seq(TextByte)
    /\ <<3, 1>> \in Seq(TextByte) /\ 0 \in TextByte /\ 1 \in TextByte /\ 2 \in TextByte /\ 3 \in TextByte
    /\ \A h \in Unfinished : h \in Seq(TextByte)
<1>1. 0 \in TextByte /\ 1 \in TextByte /\ 2 \in TextByte /\ 3 \in TextByte
  BY DEF TextByte
<1>2. <<2>> \in Seq(TextByte) /\ <<3>> \in Seq(TextByte) /\ <<>> \in Seq(TextByte)
  BY <1>1, OneCharacter
<1>3. <<3, 1>> \in Seq(TextByte)
  BY <1>1
<1> QED
  BY <1>1, <1>2, <1>3 DEF Unfinished

LEMMA TextChars ==
    /\ Seq(TextByte) \subseteq Seq(TextChar) /\ <<>> \in Seq(TextChar)
    /\ <<4>> \in Seq(TextChar) /\ <<0>> \in Seq(TextChar) /\ <<4, 0>> \in Seq(TextChar)
    /\ <<>> \in Unfinished /\ <<2>> \in Unfinished /\ <<3>> \in Unfinished /\ <<3, 1>> \in Unfinished
<1>1. TextByte \subseteq TextChar /\ 0 \in TextChar /\ 4 \in TextChar
  BY DEF TextByte, TextChar
<1>2. ASSUME NEW s \in Seq(TextByte) PROVE s \in Seq(TextChar)
  <2>1. Len(s) \in Nat /\ s \in [1..Len(s) -> TextByte]
    BY OfSequence
  <2>2. s \in [1..Len(s) -> TextChar]
    BY <1>1, <2>1
  <2> QED
    BY <2>1, <2>2, IsSequence
<1>3. <<4>> \in Seq(TextChar) /\ <<0>> \in Seq(TextChar) /\ <<>> \in Seq(TextChar)
  BY <1>1, OneCharacter
<1>4. <<4, 0>> \in Seq(TextChar)
  BY <1>1
<1> QED
  BY <1>2, <1>3, <1>4 DEF Unfinished

(* The reference, as a table of what it puts out and holds.                *)
LEMMA LossyTable ==
    ASSUME NEW o \in Seq(TextChar), NEW h \in Unfinished, NEW b \in TextByte
    PROVE  /\ Emits(h, b) \in Seq(TextChar) /\ After(h, b) \in Unfinished
           /\ Lossy(TextState(o, h), b) = TextState(o \o Emits(h, b), After(h, b))
<1>0. o \o <<>> = o /\ b \in {0, 1, 2, 3} /\ TextState(o, h).out = o /\ TextState(o, h).held = h
  BY ConcatEmptySeq DEF TextByte, TextState
<1>1. CASE b = 1 /\ h = <<>>
  <2>1. Append(o, 4) = o \o <<4>>
    BY AppendIsConcat DEF TextChar
  <2>2. Lossy(TextState(o, h), b) = TextState(Append(o, 4), <<>>)
    BY <1>1 DEF Lossy, TextState, Replacement
  <2>3. Emits(h, b) = <<4>> /\ After(h, b) = <<>>
    BY <1>1, Begun23 DEF Emits, After
  <2> QED
    BY <2>1, <2>2, <2>3, TextChars
<1>2. CASE b = 1 /\ h # <<>>
  <2> DEFINE p == Append(h, 1)
  <2>0. h \in {<<2>>, <<3>>, <<3, 1>>}
    BY <1>2 DEF Unfinished
  <2>1. h \in Seq(TextByte) /\ p \in Seq(TextByte)
    BY TextBytes, AppendProperties
  <2>2. p \in Seq(TextChar)
    BY <2>1, TextChars
  <2>3. ASSUME h = << 2 >> PROVE Len(p) = Width(p[1])
    <3>1. p = <<2, 1>>
      <4>1. Append(<<2>>, 1) = <<2, 1>>
        BY TextBytes, TwoOf
      <4> QED
        BY <2>3, <4>1
    <3>2. Len(<<2, 1>>) = 2 /\ <<2, 1>>[1] = 2
      OBVIOUS
    <3>3. Width(2) = 2
      BY DEF Width
    <3> HIDE DEF p
    <3> QED
      BY <3>1, <3>2, <3>3
  <2>4. ASSUME h = << 3 >> PROVE p = <<3, 1>> /\ Len(p) # Width(p[1])
    <3>1. p = <<3, 1>>
      <4>1. Append(<<3>>, 1) = <<3, 1>>
        BY TextBytes, TwoOf
      <4> QED
        BY <2>4, <4>1
    <3>2. Len(<<3, 1>>) = 2 /\ <<3, 1>>[1] = 3
      OBVIOUS
    <3>3. Width(3) = 3
      BY DEF Width
    <3> HIDE DEF p
    <3> QED
      BY <3>1, <3>2, <3>3
  <2>5. ASSUME h = <<3, 1>> PROVE Len(p) = Width(p[1])
    <3>1. p = <<3, 1, 1>>
      <4>1. Append(<<3, 1>>, 1) = <<3, 1, 1>>
        BY TextBytes, ThreeOf
      <4> QED
        BY <2>5, <4>1
    <3>2. Len(<<3, 1, 1>>) = 3 /\ <<3, 1, 1>>[1] = 3
      OBVIOUS
    <3>3. Width(3) = 3
      BY DEF Width
    <3> HIDE DEF p
    <3> QED
      BY <3>1, <3>2, <3>3
  <2>6. Lossy(TextState(o, h), b) = IF Len(p) = Width(p[1]) THEN TextState(o \o p, <<>>) ELSE TextState(o, p)
    <3> DEFINE d == TextState(o, h)
    <3>1. Lossy(d, b) = IF Len(p) = Width(p[1]) THEN [out |-> d.out \o p, held |-> <<>>]
                        ELSE [d EXCEPT !.held = p]
      <4>1. d.out = o /\ d.held = h
        BY <1>0
      <4>2. Append(h, b) = p
        BY <1>2
      <4> HIDE DEF d, p
      <4>3. b = 1 /\ d.held # <<>> /\ Append(d.held, b) = p
        BY <1>2, <4>1, <4>2
      <4>4. Lossy(d, b) = IF Len(p) = Width(p[1]) THEN [out |-> d.out \o p, held |-> <<>>]
                          ELSE [d EXCEPT !.held = p]
        <5>1. ASSUME NEW x, x # <<>>, Append(x, b) = p, x = d.held
              PROVE  Lossy(d, b) = IF Len(p) = Width(p[1]) THEN [out |-> d.out \o p, held |-> <<>>]
                                   ELSE [d EXCEPT !.held = p]
          BY <5>1, <4>3, Zenon DEF Lossy
        <5> QED
          BY <4>3, <5>1
      <4> QED
        BY <4>4
    <3>2. [d EXCEPT !.held = p] = TextState(o, p)
      <4> HIDE DEF p
      <4> QED
        BY DEF TextState
    <3>3. d.out = o
      BY <1>0
    <3>4. [out |-> o \o p, held |-> <<>>] = TextState(o \o p, <<>>)
      BY DEF TextState
    <3> HIDE DEF d, p
    <3>5. Lossy(d, b) = IF Len(p) = Width(p[1]) THEN TextState(o \o p, <<>>) ELSE TextState(o, p)
      BY <3>1, <3>2, <3>3, <3>4, Zenon
    <3> QED
      BY <3>5 DEF d
  <2> HIDE DEF p
  <2>7. CASE h = <<3>>
    <3>1. Emits(h, b) = <<>> /\ After(h, b) = <<3, 1>>
      BY <1>2, <2>7 DEF Emits, After
    <3> QED
      BY <1>0, <2>4, <2>6, <2>7, <3>1, TextChars
  <2>8. CASE h # <<3>>
    <3>1. Emits(h, b) = p /\ After(h, b) = <<>>
      BY <1>2, <2>8 DEF Emits, After, p
    <3>2. Len(p) = Width(p[1])
      BY <2>0, <2>3, <2>5, <2>8
    <3> QED
      BY <2>2, <2>6, <3>1, <3>2, TextChars
  <2> QED
    BY <2>7, <2>8
<1>3. CASE b = 0 /\ h = <<>>
  <2>1. Append(o, 0) = o \o <<0>>
    BY AppendIsConcat DEF TextChar
  <2>2. Lossy(TextState(o, h), b) = TextState(Append(o, 0), <<>>)
    BY <1>0, <1>3 DEF Lossy, TextState, finish
  <2>3. Emits(h, b) = <<0>> /\ After(h, b) = <<>>
    BY <1>3 DEF Emits, After
  <2> QED
    BY <2>1, <2>2, <2>3, TextChars
<1>4. CASE b = 0 /\ h # <<>>
  <2>1. Append(<<4>>, 0) = <<4, 0>> /\ 0 \in TextChar
    BY TwoOf DEF TextChar
  <2>2. Append(o \o <<4>>, 0) = o \o <<4, 0>>
    BY <2>1, TextChars, AppendBehind
  <2>3. Lossy(TextState(o, h), b) = TextState(Append(o \o <<4>>, 0), <<>>)
    BY <1>0, <1>4 DEF Lossy, TextState, finish, Replacement
  <2>4. Emits(h, b) = <<4, 0>> /\ After(h, b) = <<>>
    BY <1>4 DEF Emits, After
  <2> QED
    BY <2>2, <2>3, <2>4, TextChars
<1>5. CASE b \in {2, 3}
  <2>1. b # 0 /\ b # 1
    BY <1>5
  <2>2. <<b>> \in Unfinished /\ After(h, b) = <<b>>
    BY <1>5, <2>1, TextChars DEF After
  <2>3. CASE h = <<>>
    <3>1. Lossy(TextState(o, h), b) = TextState(o, <<b>>)
      BY <1>0, <2>1, <2>3 DEF Lossy, TextState, finish
    <3>2. Emits(h, b) = <<>>
      BY <2>1, <2>3 DEF Emits
    <3> QED
      BY <1>0, <2>2, <3>1, <3>2, TextChars
  <2>4. CASE h # <<>>
    <3>1. Lossy(TextState(o, h), b) = TextState(o \o <<4>>, <<b>>)
      BY <1>0, <2>1, <2>4 DEF Lossy, TextState, finish, Replacement
    <3>2. Emits(h, b) = <<4>>
      BY <2>1, <2>4 DEF Emits
    <3> QED
      BY <2>2, <3>1, <3>2, TextChars
  <2> QED
    BY <2>3, <2>4
<1> QED
  BY <1>0, <1>1, <1>2, <1>3, <1>4, <1>5

(* The states of the reference.                                            *)
LEMMA TextStateFacts ==
    ASSUME NEW x \in TextStates
    PROVE  x.out \in Seq(TextChar) /\ x.held \in Unfinished /\ x = TextState(x.out, x.held)
<1>1. PICK o \in Seq(TextChar), h \in Unfinished : x = TextState(o, h)
  BY DEF TextStates
<1> QED
  BY <1>1 DEF TextState

LEMMA IsTextState ==
    ASSUME NEW o \in Seq(TextChar), NEW h \in Unfinished
    PROVE  TextState(o, h) \in TextStates /\ TextState(o, h).out = o /\ TextState(o, h).held = h
BY DEF TextStates, TextState

(* What is out already stays in front. *)
LEMMA TextShift ==
    ASSUME NEW o \in Seq(TextChar), NEW h \in Unfinished, NEW s \in Seq(TextByte)
    PROVE  LET x == Run("text", TextState(<<>>, h), s) IN
           /\ x \in TextStates
           /\ Run("text", TextState(o, h), s) = TextState(o \o x.out, x.held)
<1> DEFINE R(u) == Run("text", TextState(<<>>, h), u)
           T == {u \in Seq(TextByte) : /\ R(u) \in TextStates
                                       /\ Run("text", TextState(o, h), u) = TextState(o \o R(u).out, R(u).held)}
<1>0. <<>> \in Seq(TextChar) /\ o \o <<>> = o
  BY ConcatEmptySeq
<1>1. <<>> \in T
  <2>1. R(<<>>) = TextState(<<>>, h) /\ Run("text", TextState(o, h), <<>>) = TextState(o, h)
    BY RunOfNothing
  <2>2. <<>> \in Seq(TextByte)
    OBVIOUS
  <2>3. R(<<>>) \in TextStates /\ R(<<>>).out = <<>> /\ R(<<>>).held = h
    BY <1>0, <2>1, IsTextState
  <2> QED
    BY <1>0, <2>1, <2>2, <2>3
<1>2. ASSUME NEW u \in T, NEW b \in TextByte PROVE Append(u, b) \in T
  <2> DEFINE x == R(u)
             v == Append(u, b)
  <2>1. u \in Seq(TextByte) /\ x \in TextStates /\ Run("text", TextState(o, h), u) = TextState(o \o x.out, x.held)
    OBVIOUS
  <2>2. v \in Seq(TextByte)
    BY <2>1, AppendProperties
  <2>3. R(v) = Lossy(x, b) /\ Run("text", TextState(o, h), v) = Lossy(TextState(o \o x.out, x.held), b)
    BY <2>1, RunAppend DEF Fed
  <2> HIDE DEF T, R, x, v
  <2>4. x.out \in Seq(TextChar) /\ x.held \in Unfinished /\ x = TextState(x.out, x.held)
    BY <2>1, TextStateFacts
  <2> DEFINE e == Emits(x.held, b)
             k == After(x.held, b)
  <2>5. o \o x.out \in Seq(TextChar)
    BY <2>4, ConcatProperties
  <2>6. e \in Seq(TextChar) /\ k \in Unfinished /\ R(v) = TextState(x.out \o e, k)
    BY <2>3, <2>4, LossyTable
  <2>7. Run("text", TextState(o, h), v) = TextState((o \o x.out) \o e, k)
    BY <2>3, <2>4, <2>5, LossyTable
  <2>7a. x.out \o e \in Seq(TextChar)
    <3>1. x.out \in Seq(TextChar) /\ e \in Seq(TextChar)
      BY <2>4, <2>6
    <3> HIDE DEF e
    <3> QED
      BY <3>1, ConcatProperties
  <2> HIDE DEF e, k
  <2>8. (o \o x.out) \o e = o \o (x.out \o e) /\ x.out \o e \in Seq(TextChar)
    <3>1. x.out \in Seq(TextChar) /\ e \in Seq(TextChar)
      BY <2>4, <2>6
    <3>2. (o \o x.out) \o e = o \o (x.out \o e)
      <4> DEFINE q == x.out
      <4>1. q \in Seq(TextChar) /\ e \in Seq(TextChar) /\ o \in Seq(TextChar)
        BY <3>1
      <4> HIDE DEF q
      <4>2. (o \o q) \o e = o \o (q \o e)
        BY <4>1, ConcatAssociative, SMTT(30)
      <4> QED
        BY <4>2 DEF q
    <3> QED
      BY <3>2, <2>7a
  <2>9. R(v) \in TextStates /\ R(v).out = x.out \o e /\ R(v).held = k
    <3> DEFINE q == x.out \o e
    <3>1. q \in Seq(TextChar) /\ k \in Unfinished /\ R(v) = TextState(q, k)
      BY <2>6, <2>8
    <3> HIDE DEF q, k, R
    <3>2. R(v) \in TextStates /\ R(v).out = q /\ R(v).held = k
      BY <3>1, IsTextState
    <3> QED
      BY <3>2 DEF q
  <2>10. Run("text", TextState(o, h), v) = TextState(o \o R(v).out, R(v).held)
    BY <2>7, <2>8, <2>9
  <2> QED
    BY <2>2, <2>9, <2>10 DEF T, R, v
<1>3. T \in SUBSET Seq(TextByte)
  OBVIOUS
<1> HIDE DEF T
<1>4. s \in T
  BY <1>1, <1>2, <1>3, EverySequence
<1> QED
  BY <1>4 DEF T

LEMMA TextIsState ==
    ASSUME NEW s \in Seq(TextByte)
    PROVE  TextRead(s) \in TextStates /\ TextRead(s).out \in Seq(TextChar) /\ TextRead(s).held \in Unfinished
<1>1. TextRead(s) \in TextStates
  BY TextChars, TextShift DEF TextRead
<1> QED
  BY <1>1, TextStateFacts

(* What is held is read again as what it is. *)
LEMMA HeldAgain ==
    ASSUME NEW h \in Unfinished
    PROVE  h \in Seq(TextByte) /\ TextRead(h) = TextState(<<>>, h)
<1>1. TextRead(<<>>) = TextState(<<>>, <<>>)
  BY RunOfNothing DEF TextRead
<1>2. ASSUME NEW b \in {2, 3} PROVE TextRead(<<b>>) = TextState(<<>>, <<b>>)
  <2>0. b \in TextByte
    BY TextBytes
  <2>1. Append(<<>>, b) = <<b>> /\ b \in TextByte
    BY <2>0
  <2>1a. <<>> \in Seq(TextByte)
    OBVIOUS
  <2>1b. TextRead(Append(<<>>, b)) = Fed("text", TextRead(<<>>), b)
    <3>1. ASSUME NEW base PROVE Run("text", base, Append(<<>>, b)) = Fed("text", Run("text", base, <<>>), b)
      <4> DEFINE q == <<>>
      <4>1. q \in Seq(TextByte)
        BY <2>1a
      <4> HIDE DEF q
      <4>2. Run("text", base, Append(q, b)) = Fed("text", Run("text", base, q), b)
        BY <2>0, <4>1, RunAppend
      <4> QED
        BY <4>2, Zenon DEF q
    <3> QED
      BY <3>1 DEF TextRead
  <2>2. TextRead(<<b>>) = Lossy(TextState(<<>>, <<>>), b)
    BY <1>1, <2>1, <2>1b DEF Fed
  <2>3. Lossy(TextState(<<>>, <<>>), b) = TextState(<<>> \o Emits(<<>>, b), After(<<>>, b))
    BY <2>1, TextChars, LossyTable
  <2>4. Emits(<<>>, b) = <<>> /\ After(<<>>, b) = <<b>> /\ <<>> \o <<>> = <<>>
    BY DEF Emits, After
  <2> QED
    BY <2>2, <2>3, <2>4
<1>3. TextRead(<<3, 1>>) = TextState(<<>>, <<3, 1>>)
  <2>1. Append(<<3>>, 1) = <<3, 1>>
    BY TextBytes, TwoOf
  <2>2a. <<3>> \in Seq(TextByte) /\ 1 \in TextByte
    BY TextBytes
  <2>2b. TextRead(Append(<<3>>, 1)) = Fed("text", TextRead(<<3>>), 1)
    <3>1. ASSUME NEW base PROVE Run("text", base, Append(<<3>>, 1)) = Fed("text", Run("text", base, <<3>>), 1)
      <4> DEFINE q == <<3>>
      <4>1. q \in Seq(TextByte)
        BY <2>2a
      <4> HIDE DEF q
      <4>2. Run("text", base, Append(q, 1)) = Fed("text", Run("text", base, q), 1)
        BY <2>2a, <4>1, RunAppend
      <4> QED
        BY <4>2, Zenon DEF q
    <3> QED
      BY <3>1 DEF TextRead
  <2>2. TextRead(Append(<<3>>, 1)) = Lossy(TextRead(<<3>>), 1)
    BY <2>2b DEF Fed
  <2>3. TextRead(<<3>>) = TextState(<<>>, <<3>>)
    BY <1>2
  <2>5. Lossy(TextState(<<>>, <<3>>), 1) = TextState(<<>> \o Emits(<<3>>, 1), After(<<3>>, 1))
    BY TextBytes, TextChars, LossyTable
  <2>4. Emits(<<3>>, 1) = <<>> /\ After(<<3>>, 1) = <<3, 1>> /\ <<>> \o <<>> = <<>>
    BY Begun23 DEF Emits, After
  <2> QED
    BY <2>1, <2>2, <2>3, <2>4, <2>5
<1> QED
  BY <1>1, <1>2, <1>3, TextBytes DEF Unfinished

(* A text in two pieces: what the first leaves is put before the second. *)
LEMMA TextSeam ==
    ASSUME NEW a \in Seq(TextByte), NEW c \in Seq(TextByte)
    PROVE  LET x == TextRead(a)
               y == TextRead(x.held \o c)
           IN  TextRead(a \o c) = TextState(x.out \o y.out, y.held)
<1> DEFINE x == TextRead(a)
           h == x.held
           y == TextRead(h \o c)
           z == Run("text", TextState(<<>>, h), c)
<1>1. x.out \in Seq(TextChar) /\ h \in Unfinished /\ x = TextState(x.out, h)
  BY TextIsState, TextStateFacts
<1>2. h \in Seq(TextByte) /\ TextRead(h) = TextState(<<>>, h)
  BY <1>1, HeldAgain
<1>3. TextRead(a \o c) = Run("text", x, c)
  BY RunConcat DEF TextRead
<1>4. TextRead(h \o c) = z
  <2> HIDE DEF h
  <2>1. TextRead(h \o c) = Run("text", TextRead(h), c)
    BY <1>2, RunConcat DEF TextRead
  <2> QED
    BY <1>2, <2>1
<1> HIDE DEF x, h, z
<1>5. Run("text", TextState(x.out, h), c) = TextState(x.out \o z.out, z.held)
  BY <1>1, TextShift DEF z
<1>6. TextRead(a \o c) = TextState(x.out \o z.out, z.held)
  BY <1>1, <1>3, <1>5
<1>7. y = z
  BY <1>4
<1> QED
  BY <1>6, <1>7 DEF x, h

(* A stretch of a sequence, cut in two.                                    *)
LEMMA Pieces ==
    ASSUME NEW W, NEW s \in Seq(W), NEW a \in 1..(Len(s) + 1), NEW b \in (a - 1)..Len(s),
           NEW c \in b..Len(s)
    PROVE  /\ SubSeq(s, a, b) \in Seq(W) /\ SubSeq(s, b + 1, c) \in Seq(W)
           /\ SubSeq(s, a, c) = SubSeq(s, a, b) \o SubSeq(s, b + 1, c)
<1> DEFINE p == SubSeq(s, a, b)
           q == SubSeq(s, b + 1, c)
           t == SubSeq(s, a, c)
<1>0. a \in Nat /\ b \in Nat /\ c \in Nat /\ a >= 1 /\ a <= b + 1 /\ b <= c /\ c <= Len(s)
      /\ Len(s) \in Nat
  OBVIOUS
<1>1. p \in Seq(W) /\ Len(p) = b - a + 1 /\ \A i \in 1..Len(p) : p[i] = s[a + i - 1]
  <2>1. a \in 1..(Len(s) + 1) /\ b \in 0..Len(s)
    BY <1>0
  <2>2. /\ p \in Seq(W) /\ Len(p) = (IF a <= b THEN b - a + 1 ELSE 0)
        /\ \A i \in 1..Len(p) : p[i] = s[a + i - 1]
    BY <2>1, PartOf
  <2> HIDE DEF p
  <2> QED
    BY <1>0, <2>2
<1>2. q \in Seq(W) /\ Len(q) = c - b /\ \A i \in 1..Len(q) : q[i] = s[b + i]
  <2>1. b + 1 \in 1..(Len(s) + 1) /\ c \in 0..Len(s)
    BY <1>0
  <2>2. /\ q \in Seq(W) /\ Len(q) = (IF b + 1 <= c THEN c - (b + 1) + 1 ELSE 0)
        /\ \A i \in 1..Len(q) : q[i] = s[b + 1 + i - 1]
    BY <2>1, PartOf
  <2> HIDE DEF q
  <2>3. Len(q) = c - b
    BY <1>0, <2>2
  <2>4. \A i \in 1..Len(q) : b + 1 + i - 1 = b + i
    BY <1>0
  <2> QED
    BY <2>2, <2>3, <2>4
<1>3. t \in Seq(W) /\ Len(t) = c - a + 1 /\ \A i \in 1..Len(t) : t[i] = s[a + i - 1]
  <2>1. a \in 1..(Len(s) + 1) /\ c \in 0..Len(s)
    BY <1>0
  <2>2. /\ t \in Seq(W) /\ Len(t) = (IF a <= c THEN c - a + 1 ELSE 0)
        /\ \A i \in 1..Len(t) : t[i] = s[a + i - 1]
    BY <2>1, PartOf
  <2> HIDE DEF t
  <2> QED
    BY <1>0, <2>2
<1> HIDE DEF p, q, t
<1>4. /\ p \o q \in Seq(W) /\ Len(p \o q) = Len(p) + Len(q)
      /\ \A i \in 1..(Len(p) + Len(q)) :
            (p \o q)[i] = IF i <= Len(p) THEN p[i] ELSE q[i - Len(p)]
  BY <1>1, <1>2, ConcatProperties
<1>5. Len(t) = Len(p \o q)
  BY <1>0, <1>1, <1>2, <1>3, <1>4
<1>6. ASSUME NEW i \in 1..Len(t) PROVE t[i] = (p \o q)[i]
  <2>1. i \in 1..(Len(p) + Len(q)) /\ i \in Nat
    BY <1>0, <1>1, <1>2, <1>3
  <2>2. CASE i <= Len(p)
    <3>1. i \in 1..Len(p)
      BY <1>1, <2>1, <2>2
    <3> QED
      BY <1>1, <1>3, <1>4, <2>1, <2>2, <3>1
  <2>3. CASE ~(i <= Len(p))
    <3>1. i - Len(p) \in 1..Len(q) /\ b + (i - Len(p)) = a + i - 1
      BY <1>0, <1>1, <1>2, <2>1, <2>3, SMTT(30)
    <3>2. q[i - Len(p)] = s[b + (i - Len(p))]
      BY <1>2, <3>1
    <3> QED
      BY <1>3, <1>4, <2>1, <2>3, <3>1, <3>2
  <2> QED
    BY <2>2, <2>3
<1>7. t = p \o q
  BY <1>3, <1>4, <1>5, <1>6, SeqEqual
<1> QED
  BY <1>1, <1>2, <1>7 DEF p, q, t

(* How far a character reaches. *)
LEMMA BegunIs ==
    ASSUME NEW s \in Seq(TextByte), NEW i \in 1..Len(s), s[i] # 1
    PROVE  LET n == Begun(s, i) IN
           /\ n \in 1..Width(s[i]) /\ Width(s[i]) \in 1..3 /\ i + n - 1 <= Len(s)
           /\ \A k \in (i + 1)..(i + n - 1) : s[k] = 1
           /\ n # Width(s[i]) /\ i + n <= Len(s) => s[i + n] # 1
<1> DEFINE w == Width(s[i])
           fits == {n \in 1..w : i + n - 1 <= Len(s) /\ \A k \in (i + 1)..(i + n - 1) : s[k] = 1}
<1>0. i \in Nat /\ i >= 1 /\ i <= Len(s) /\ Len(s) \in Nat
  OBVIOUS
<1>1. s[i] \in {0, 2, 3}
  BY ElementOfSeq DEF TextByte
<1>2. w \in 1..3
  BY <1>1 DEF Width
<1>3. Begun(s, i) = CHOOSE n \in fits : \A m \in fits : m <= n
  BY DEF Begun
<1> HIDE DEF w
<1>4. fits \in SUBSET (1..w) /\ w \in Nat
  BY <1>2
<1>5. 1 \in fits
  <2>1. 1 \in 1..w /\ i + 1 - 1 <= Len(s) /\ (i + 1)..(i + 1 - 1) = {}
    BY <1>0, <1>2
  <2> QED
    BY <2>1
<1>6. \E n \in fits : \A m \in fits : m <= n
  <2> HIDE DEF fits
  <2> QED
    BY <1>4, <1>5, GreatestElement
<1> DEFINE n == Begun(s, i)
<1>7. n \in fits /\ \A m \in fits : m <= n
  <2> HIDE DEF fits
  <2> QED
    BY <1>3, <1>6
<1> HIDE DEF n
<1>8. n \in 1..w /\ i + n - 1 <= Len(s) /\ \A k \in (i + 1)..(i + n - 1) : s[k] = 1
  BY <1>7
<1>9. ASSUME n # w, i + n <= Len(s) PROVE s[i + n] # 1
  <2> SUFFICES ASSUME s[i + n] = 1 PROVE FALSE
    OBVIOUS
  <2>1. n + 1 \in 1..w /\ i + (n + 1) - 1 <= Len(s)
    BY <1>0, <1>2, <1>8, <1>9
  <2>2. ASSUME NEW k \in (i + 1)..(i + (n + 1) - 1) PROVE s[k] = 1
    <3>1. k = i + n \/ k \in (i + 1)..(i + n - 1)
      BY <1>0, <1>2, <1>8
    <3> QED
      BY <1>8, <3>1
  <2>3. n + 1 \in fits
    BY <2>1, <2>2
  <2>4. n + 1 <= n
    BY <1>7, <2>3
  <2> QED
    BY <1>2, <1>8, <2>4
<1> QED
  BY <1>2, <1>8, <1>9 DEF n, w

(* A character is one byte that begins it and the continuations behind:    *)
(* whole, it is put out as it stands; cut off, it is held.                 *)
Characters == {<<0>>, <<2, 1>>, <<3, 1, 1>>}

(* One byte behind a beginning.                                            *)
LEMMA OneMore ==
    ASSUME NEW h \in Unfinished, NEW b \in TextByte
    PROVE  /\ Append(h, b) \in Seq(TextByte)
           /\ TextRead(Append(h, b)) = TextState(Emits(h, b), After(h, b))
<1>1. h \in Seq(TextByte) /\ TextRead(h) = TextState(<<>>, h)
  BY HeldAgain
<1>2. Append(h, b) \in Seq(TextByte)
  BY <1>1, AppendProperties
<1>3. TextRead(Append(h, b)) = Fed("text", TextRead(h), b)
  <2>1. ASSUME NEW base PROVE Run("text", base, Append(h, b)) = Fed("text", Run("text", base, h), b)
    BY <1>1, RunAppend
  <2> QED
    BY <2>1 DEF TextRead
<1>4. TextRead(Append(h, b)) = Lossy(TextState(<<>>, h), b)
  BY <1>1, <1>3 DEF Fed
<1>5. <<>> \in Seq(TextChar) /\ Emits(h, b) \in Seq(TextChar)
      /\ Lossy(TextState(<<>>, h), b) = TextState(<<>> \o Emits(h, b), After(h, b))
  BY TextChars, LossyTable
<1>6. <<>> \o Emits(h, b) = Emits(h, b)
  BY <1>5, ConcatEmptySeq
<1> QED
  BY <1>2, <1>4, <1>5, <1>6

(* A whole character comes out as it is.                                   *)
LEMMA CharactersAreWhole ==
    ASSUME NEW c \in Characters
    PROVE  c \in Seq(TextByte) /\ TextRead(c) = TextState(c, <<>>)
<1>1. CASE c = <<0>>
  <2>1. Append(<<>>, 0) = <<0>>
    OBVIOUS
  <2>2. TextRead(Append(<<>>, 0)) = TextState(Emits(<<>>, 0), After(<<>>, 0)) /\ Append(<<>>, 0) \in Seq(TextByte)
    BY TextBytes, TextChars, OneMore
  <2>3. Emits(<<>>, 0) = <<0>> /\ After(<<>>, 0) = <<>>
    BY DEF Emits, After
  <2> QED
    BY <1>1, <2>1, <2>2, <2>3
<1>2. CASE c = <<2, 1>>
  <2>1. Append(<<2>>, 1) = <<2, 1>>
    BY TextBytes, TwoOf
  <2>2. TextRead(Append(<<2>>, 1)) = TextState(Emits(<<2>>, 1), After(<<2>>, 1)) /\ Append(<<2>>, 1) \in Seq(TextByte)
    BY TextBytes, TextChars, OneMore
  <2>3. Emits(<<2>>, 1) = Append(<<2>>, 1) /\ After(<<2>>, 1) = <<>>
    BY Begun23 DEF Emits, After
  <2> QED
    BY <1>2, <2>1, <2>2, <2>3
<1>3. CASE c = <<3, 1, 1>>
  <2>1. Append(<<3, 1>>, 1) = <<3, 1, 1>>
    BY TextBytes, ThreeOf
  <2>2. /\ TextRead(Append(<<3, 1>>, 1)) = TextState(Emits(<<3, 1>>, 1), After(<<3, 1>>, 1))
        /\ Append(<<3, 1>>, 1) \in Seq(TextByte)
    BY TextBytes, TextChars, OneMore
  <2>3. Emits(<<3, 1>>, 1) = Append(<<3, 1>>, 1) /\ After(<<3, 1>>, 1) = <<>>
    BY Begun23 DEF Emits, After
  <2> QED
    BY <1>3, <2>1, <2>2, <2>3
<1> QED
  BY <1>1, <1>2, <1>3 DEF Characters

(* What Begun finds is a character, or the beginning of one.               *)
LEMMA CharacterAt ==
    ASSUME NEW s \in Seq(TextByte), NEW i \in 1..Len(s), s[i] # 1
    PROVE  LET n == Begun(s, i)
               c == SubSeq(s, i, i + n - 1)
           IN  /\ n = Width(s[i]) => c \in Characters
               /\ n # Width(s[i]) => c \in Unfinished /\ c # <<>>
<1> DEFINE w == Width(s[i])
           n == Begun(s, i)
           e == i + n - 1
           c == SubSeq(s, i, e)
<1>0. i \in Nat /\ i >= 1 /\ i <= Len(s) /\ Len(s) \in Nat
  OBVIOUS
<1>1. s[i] \in {0, 2, 3}
  BY ElementOfSeq DEF TextByte
<1>2. n \in 1..w /\ w \in 1..3 /\ i + n - 1 <= Len(s) /\ \A k \in (i + 1)..(i + n - 1) : s[k] = 1
  BY BegunIs
<1>3. (s[i] = 0 => w = 1) /\ (s[i] = 2 => w = 2) /\ (s[i] = 3 => w = 3)
  BY DEF Width
<1>4. c \in Seq(TextByte) /\ Len(c) = n /\ \A k \in 1..Len(c) : c[k] = s[i + k - 1]
  <2> HIDE DEF n
  <2>1. e \in 0..Len(s) /\ i \in 1..(Len(s) + 1)
    BY <1>0, <1>2
  <2> HIDE DEF e
  <2>2. /\ c \in Seq(TextByte) /\ Len(c) = (IF i <= e THEN e - i + 1 ELSE 0)
        /\ \A k \in 1..Len(c) : c[k] = s[i + k - 1]
    <3>1. ASSUME NEW t \in Seq(TextByte), NEW a \in 1..(Len(t) + 1), NEW b \in 0..Len(t)
          PROVE  /\ SubSeq(t, a, b) \in Seq(TextByte)
                 /\ Len(SubSeq(t, a, b)) = (IF a <= b THEN b - a + 1 ELSE 0)
                 /\ \A k \in 1..Len(SubSeq(t, a, b)) : SubSeq(t, a, b)[k] = t[a + k - 1]
      BY PartOf
    <3> QED
      BY <2>1, <3>1
  <2> HIDE DEF c
  <2>3. Len(c) = n
    BY <1>0, <1>2, <2>2 DEF e
  <2> QED
    BY <2>2, <2>3
<1> HIDE DEF n, w, e, c
<1>5. c[1] = s[i]
  BY <1>0, <1>2, <1>4
<1>6. \A k \in 2..Len(c) : c[k] = 1
  <2> TAKE k \in 2..Len(c)
  <2>1. k \in 1..Len(c) /\ i + k - 1 \in (i + 1)..(i + n - 1)
    BY <1>0, <1>2, <1>4
  <2> QED
    BY <1>2, <1>4, <2>1
<1>7. CASE n = 1
  <2>1. c = <<s[i]>>
    <3> DEFINE q == <<s[i]>>
    <3>1. s[i] \in TextByte
      BY <1>1, TextBytes
    <3>2. q \in Seq(TextByte) /\ Len(q) = 1 /\ q[1] = s[i]
      BY <3>1, OneCharacter
    <3> HIDE DEF q
    <3>3. \A k \in 1..Len(c) : c[k] = q[k]
      BY <1>4, <1>5, <1>7, <3>2
    <3>4. c = q
      BY <1>4, <1>7, <3>2, <3>3, SeqEqual
    <3> QED
      BY <3>4 DEF q
  <2>2. s[i] = 0 \/ (s[i] = 2 /\ n # w) \/ (s[i] = 3 /\ n # w)
    BY <1>1, <1>3, <1>7
  <2>3. <<s[i]>> # <<>>
    OBVIOUS
  <2>4. s[i] = 0 => n = w /\ c = <<0>>
    BY <1>3, <1>7, <2>1
  <2>5. s[i] = 2 => c \in Unfinished
    BY <2>1, TextChars
  <2>6. s[i] = 3 => c \in Unfinished
    BY <2>1, TextChars
  <2>7. (n = w => c \in Characters) /\ (n # w => c \in Unfinished /\ c # <<>>)
    BY <1>1, <2>1, <2>2, <2>3, <2>4, <2>5, <2>6 DEF Characters
  <2> QED
    BY <2>7 DEF n, w, e, c
<1>8. CASE n = 2
  <2>1. c = <<s[i], 1>>
    <3> DEFINE q == <<s[i], 1>>
    <3>1. s[i] \in TextByte /\ 1 \in TextByte
      BY <1>1, TextBytes
    <3>2. q \in Seq(TextByte) /\ Len(q) = 2 /\ q[1] = s[i] /\ q[2] = 1
      BY <3>1, TwoOf
    <3> HIDE DEF q
    <3>3. c[2] = 1
      BY <1>4, <1>6, <1>8
    <3>4. \A k \in 1..Len(c) : k = 1 \/ k = 2
      BY <1>4, <1>8
    <3>5. \A k \in 1..Len(c) : c[k] = q[k]
      BY <1>5, <3>2, <3>3, <3>4
    <3>6. c = q
      BY <1>4, <1>8, <3>2, <3>5, SeqEqual
    <3> QED
      BY <3>6 DEF q
  <2>2. (s[i] = 2 /\ n = w) \/ (s[i] = 3 /\ n # w)
    BY <1>1, <1>2, <1>3, <1>8
  <2>3. (n = w => c \in Characters) /\ (n # w => c \in Unfinished /\ c # <<>>)
    BY <2>1, <2>2, TextChars, Begun23 DEF Characters
  <2> QED
    BY <2>3 DEF n, w, e, c
<1>9. CASE n = 3
  <2>1. c = <<s[i], 1, 1>>
    <3> DEFINE q == <<s[i], 1, 1>>
    <3>1. s[i] \in TextByte /\ 1 \in TextByte
      BY <1>1, TextBytes
    <3>2. q \in Seq(TextByte) /\ Len(q) = 3 /\ q[1] = s[i] /\ q[2] = 1 /\ q[3] = 1
      BY <3>1
    <3> HIDE DEF q
    <3>3. c[2] = 1 /\ c[3] = 1
      BY <1>4, <1>6, <1>9
    <3>4. \A k \in 1..Len(c) : k = 1 \/ k = 2 \/ k = 3
      BY <1>4, <1>9
    <3>5. \A k \in 1..Len(c) : c[k] = q[k]
      BY <1>5, <3>2, <3>3, <3>4
    <3>6. c = q
      BY <1>4, <1>9, <3>2, <3>5, SeqEqual
    <3> QED
      BY <3>6 DEF q
  <2>2. s[i] = 3 /\ n = w
    BY <1>1, <1>2, <1>3, <1>9
  <2>3. (n = w => c \in Characters) /\ (n # w => c \in Unfinished /\ c # <<>>)
    BY <2>1, <2>2 DEF Characters
  <2> QED
    BY <2>3 DEF n, w, e, c
<1>10. n = 1 \/ n = 2 \/ n = 3
  BY <1>2
<1> QED
  BY <1>7, <1>8, <1>9, <1>10

----------------------------------------------------------------------------
(* The two scans go up the text and are read from its end.                 *)

ScanBody(how, f, s, n) ==
    IF how = "upto"
    THEN IF n = Len(s) THEN n
         ELSE IF s[n + 1] # 1 /\ Begun(s, n + 1) = Width(s[n + 1])
                THEN f[n + Width(s[n + 1])] ELSE n
    ELSE LET text  == SubSeq(s, n + 1, Len(s))
             valid == ValidUpTo(text)
             good  == SubSeq(text, 1, valid)
         IN  IF valid = Len(text) THEN [out |-> good, tail |-> <<>>]
             ELSE LET bad == ErrorLen(text, valid) IN
                  IF bad = 0 THEN [out |-> good, tail |-> SubSeq(text, valid + 1, Len(text))]
                  ELSE [f[n + valid + bad] EXCEPT !.out = Append(good, Replacement) \o @]

Downward(f, how, s) == f = [n \in 0..Len(s) |-> ScanBody(how, f, s, n)]

(* A scan that looks up only what is further up exists.                    *)
LEMMA DownwardExists ==
    ASSUME NEW how, NEW s, Len(s) \in Nat,
           \A n \in 0..Len(s) : \A f, g :
              (\A k \in (n + 1)..Len(s) : f[k] = g[k]) => ScanBody(how, f, s, n) = ScanBody(how, g, s, n)
    PROVE  \E f : Downward(f, how, s)
<1> DEFINE L == Len(s)
           Downto(f, m) == DOMAIN f = 0..L /\ \A n \in (L + 1 - m)..L : f[n] = ScanBody(how, f, s, n)
           T == {m \in Nat : m <= L + 1 => \E f : f = [n \in 0..L |-> f[n]] /\ Downto(f, m)}
<1>0. L \in Nat
  OBVIOUS
<1>1. 0 \in T
  <2> DEFINE f == [n \in 0..L |-> 0]
  <2>1. f = [n \in 0..L |-> f[n]] /\ DOMAIN f = 0..L
    OBVIOUS
  <2>2. (L + 1 - 0)..L = {}
    BY <1>0
  <2> HIDE DEF f
  <2>3. Downto(f, 0)
    BY <2>1, <2>2
  <2> QED
    BY <2>1, <2>3
<1>2. ASSUME NEW m \in T PROVE m + 1 \in T
  <2> SUFFICES ASSUME m + 1 <= L + 1
               PROVE  \E f : f = [n \in 0..L |-> f[n]] /\ Downto(f, m + 1)
    OBVIOUS
  <2>0. m \in Nat /\ m <= L + 1
    BY <1>0
  <2>1. PICK f : f = [n \in 0..L |-> f[n]] /\ Downto(f, m)
    BY <2>0
  <2> DEFINE j == L - m
             v == ScanBody(how, f, s, j)
             g == [n \in 0..L |-> IF n = j THEN v ELSE f[n]]
  <2>2. j \in 0..L /\ j \in Nat
    BY <1>0, <2>0
  <2> HIDE DEF v
  <2>3. g = [n \in 0..L |-> g[n]] /\ DOMAIN g = 0..L
    OBVIOUS
  <2>4. g[j] = v
    BY <2>2
  <2>5. \A n \in 0..L : n # j => g[n] = f[n]
    OBVIOUS
  <2> HIDE DEF g, j, T, L
  <2>6. ASSUME NEW n \in 0..L, n >= j PROVE ScanBody(how, g, s, n) = ScanBody(how, f, s, n)
    <3>1. \A k \in (n + 1)..L : k \in 0..L /\ k # j
      BY <1>0, <2>2, <2>6
    <3>2. \A k \in (n + 1)..L : g[k] = f[k]
      BY <2>5, <3>1
    <3> QED
      BY <2>6, <3>2 DEF L
  <2>7. ASSUME NEW n \in (L + 1 - (m + 1))..L PROVE g[n] = ScanBody(how, g, s, n)
    <3>1. n \in 0..L /\ n >= j
      BY <1>0, <2>0, <2>2 DEF j
    <3>2. CASE n = j
      BY <2>4, <2>6, <3>1, <3>2 DEF v
    <3>3. CASE n # j
      <4>1. n \in (L + 1 - m)..L
        BY <1>0, <2>0, <3>1, <3>3 DEF j
      <4>2. f[n] = ScanBody(how, f, s, n)
        BY <2>1, <4>1
      <4> QED
        BY <2>5, <2>6, <3>1, <3>3, <4>2
    <3> QED
      BY <3>2, <3>3
  <2>8. Downto(g, m + 1)
    BY <2>3, <2>7
  <2> QED
    BY <2>3, <2>8
<1>3. L + 1 \in T
  <2>1. T \in SUBSET Nat
    OBVIOUS
  <2> HIDE DEF T
  <2> QED
    BY <1>0, <1>1, <1>2, <2>1, EveryNatural
<1>4. PICK f : f = [n \in 0..L |-> f[n]] /\ Downto(f, L + 1)
  <2> HIDE DEF Downto
  <2>1. L + 1 <= L + 1
    BY <1>0
  <2> QED
    BY <1>3, <2>1
<1>5. (L + 1 - (L + 1))..L = 0..L
  BY <1>0
<1>6. \A n \in 0..L : f[n] = ScanBody(how, f, s, n)
  BY <1>4, <1>5
<1>7. f = [n \in 0..L |-> ScanBody(how, f, s, n)]
  BY <1>4, <1>6
<1> QED
  BY <1>7 DEF Downward

(* The scan of ValidUpTo.                                                  *)
LEMMA UptoExists ==
    ASSUME NEW s \in Seq(TextByte)
    PROVE  \E f : Downward(f, "upto", s) /\ ValidUpTo(s) = f[0]
<1>0. Len(s) \in Nat
  OBVIOUS
<1>1. ASSUME NEW n \in 0..Len(s), NEW f, NEW g, \A k \in (n + 1)..Len(s) : f[k] = g[k]
      PROVE  ScanBody("upto", f, s, n) = ScanBody("upto", g, s, n)
  <2>1. CASE n = Len(s)
    BY <2>1 DEF ScanBody
  <2>2. CASE n # Len(s) /\ s[n + 1] # 1 /\ Begun(s, n + 1) = Width(s[n + 1])
    <3>1. n + 1 \in 1..Len(s)
      BY <1>0, <2>2
    <3>2. Width(s[n + 1]) \in 1..3 /\ (n + 1) + Width(s[n + 1]) - 1 <= Len(s)
      <4>1. LET m == Begun(s, n + 1) IN Width(s[n + 1]) \in 1..3 /\ (n + 1) + m - 1 <= Len(s)
        BY <2>2, <3>1, BegunIs
      <4> QED
        BY <2>2, <4>1
    <3> DEFINE w == Width(s[n + 1])
    <3>3. w \in 1..3 /\ (n + 1) + w - 1 <= Len(s)
      BY <3>2
    <3>4. ScanBody("upto", f, s, n) = f[n + w] /\ ScanBody("upto", g, s, n) = g[n + w]
      BY <2>2 DEF ScanBody
    <3> HIDE DEF w
    <3>5. n + w \in (n + 1)..Len(s)
      BY <1>0, <3>3
    <3> QED
      BY <1>1, <3>4, <3>5
  <2>3. CASE n # Len(s) /\ ~(s[n + 1] # 1 /\ Begun(s, n + 1) = Width(s[n + 1]))
    BY <2>3 DEF ScanBody
  <2> QED
    BY <2>1, <2>2, <2>3
<1>2. \E f : Downward(f, "upto", s)
  BY <1>0, <1>1, DownwardExists
<1>3. ValidUpTo(s) = (CHOOSE f : Downward(f, "upto", s))[0]
  BY DEF ValidUpTo, Downward, ScanBody
<1> QED
  BY <1>2, <1>3

(* Up to v from n, every character is complete; the next one is not. *)
WholeUpTo(s, n, v) ==
    /\ v \in n..Len(s)
    /\ TextRead(SubSeq(s, n + 1, v)) = TextState(SubSeq(s, n + 1, v), <<>>)
    /\ v # Len(s) => s[v + 1] = 1 \/ Begun(s, v + 1) # Width(s[v + 1])

(* Behind whole characters a text is read as if it stood alone.            *)
LEMMA TextGlued ==
    ASSUME NEW a \in Seq(TextByte), NEW c \in Seq(TextByte), TextRead(a) = TextState(a, <<>>)
    PROVE  TextRead(a \o c) = TextState(a \o TextRead(c).out, TextRead(c).held)
<1>1. TextRead(a).out = a /\ TextRead(a).held = <<>>
  BY DEF TextState
<1>2. <<>> \o c = c
  BY ConcatEmptySeq
<1>3. LET x == TextRead(a)
          y == TextRead(x.held \o c)
      IN  TextRead(a \o c) = TextState(x.out \o y.out, y.held)
  BY TextSeam
<1> QED
  BY <1>1, <1>2, <1>3

LEMMA NothingRead == TextRead(<<>>) = TextState(<<>>, <<>>)
  BY RunOfNothing DEF TextRead

(* ValidUpTo stops behind whole characters, in front of none.              *)
LEMMA ValidUpToIs ==
    ASSUME NEW s \in Seq(TextByte)
    PROVE  WholeUpTo(s, 0, ValidUpTo(s))
<1> DEFINE L == Len(s)
<1>0. L \in Nat
  OBVIOUS
<1>1. PICK f : Downward(f, "upto", s) /\ ValidUpTo(s) = f[0]
  BY UptoExists
<1>2. \A n \in 0..L : f[n] = ScanBody("upto", f, s, n)
  BY <1>1 DEF Downward
<1> DEFINE T == {m \in Nat : \A j \in 0..m : j <= L => WholeUpTo(s, L - j, f[L - j])}
<1> HIDE DEF L
<1>3. 0 \in T
  <2>1. f[L] = L
    BY <1>0, <1>2 DEF ScanBody, L
  <2>2. SubSeq(s, L + 1, L) = <<>>
    <3>1. /\ SubSeq(s, L + 1, L) \in Seq(TextByte)
          /\ Len(SubSeq(s, L + 1, L)) = IF L + 1 <= L THEN L - (L + 1) + 1 ELSE 0
      <4>1. L + 1 \in 1..(Len(s) + 1) /\ L \in 0..Len(s)
        BY <1>0 DEF L
      <4> QED
        BY <4>1, PartOf
    <3>2. Len(SubSeq(s, L + 1, L)) = 0
      BY <1>0, <3>1
    <3> QED
      BY <3>1, <3>2, EmptySeq
  <2>3. WholeUpTo(s, L, L)
    <3>1. L = Len(s) /\ L \in L..L
      BY <1>0 DEF L
    <3>2. TextRead(SubSeq(s, L + 1, L)) = TextState(SubSeq(s, L + 1, L), <<>>)
      BY <2>2, NothingRead
    <3> QED
      BY <3>1, <3>2 DEF WholeUpTo
  <2>4. \A j \in 0..0 : L - j = L
    BY <1>0
  <2> QED
    BY <2>1, <2>3, <2>4
<1>4. ASSUME NEW m \in T PROVE m + 1 \in T
  <2>0. m \in Nat /\ \A j \in 0..m : j <= L => WholeUpTo(s, L - j, f[L - j])
    OBVIOUS
  <2> SUFFICES ASSUME m + 1 <= L
               PROVE  WholeUpTo(s, L - (m + 1), f[L - (m + 1)])
    <3>1. \A j \in 0..(m + 1) : j \in 0..m \/ j = m + 1
      BY <2>0
    <3> QED
      BY <2>0, <3>1
  <2> HIDE DEF T
  <2> DEFINE n == L - (m + 1)
             i == n + 1
             w == Width(s[i])
  <2>1. n \in 0..L /\ n # L /\ i \in 1..Len(s) /\ n \in Nat /\ i \in Nat
    BY <1>0, <2>0 DEF L
  <2>2. f[n] = ScanBody("upto", f, s, n)
    BY <1>2, <2>1
  <2>3. CASE s[i] # 1 /\ Begun(s, i) = w
    <3>1. f[n] = f[n + w]
      BY <2>1, <2>2, <2>3 DEF ScanBody, L
    <3>2. LET k == Begun(s, i) IN w \in 1..3 /\ i + k - 1 <= Len(s)
      BY <2>1, <2>3, BegunIs
    <3>3. w \in 1..3 /\ n + w <= L
      BY <2>1, <2>3, <3>2 DEF L
    <3>4. LET k == Begun(s, i) IN k = w => SubSeq(s, i, i + k - 1) \in Characters
      BY <2>1, <2>3, CharacterAt
    <3>5. SubSeq(s, i, i + w - 1) \in Characters
      BY <2>3, <3>4
    <3> DEFINE v == f[n + w]
               c == SubSeq(s, i, n + w)
               e == SubSeq(s, n + w + 1, v)
    <3>6. c \in Characters
      <4>1. i + w - 1 = n + w
        BY <2>1, <3>3
      <4> QED
        BY <3>5, <4>1
    <3> HIDE DEF w
    <3>7. WholeUpTo(s, n + w, v)
      <4>1. m + 1 - w \in 0..m /\ m + 1 - w <= L /\ L - (m + 1 - w) = n + w
        BY <1>0, <2>0, <2>1, <3>3
      <4>2. WholeUpTo(s, L - (m + 1 - w), f[L - (m + 1 - w)])
        BY <2>0, <4>1
      <4> QED
        BY <4>1, <4>2
    <3> HIDE DEF n, v, i
    <3>8. /\ v \in (n + w)..L /\ TextRead(e) = TextState(e, <<>>)
          /\ v # L => s[v + 1] = 1 \/ Begun(s, v + 1) # Width(s[v + 1])
      BY <3>7 DEF WholeUpTo, L
    <3>9. i \in 1..(Len(s) + 1) /\ n + w \in (i - 1)..Len(s) /\ v \in (n + w)..Len(s) /\ i = n + 1
      BY <1>0, <2>1, <3>3, <3>8 DEF L, i
    <3>10. c \in Seq(TextByte) /\ e \in Seq(TextByte) /\ SubSeq(s, i, v) = c \o e
      <4> DEFINE b == n + w
      <4>1. b \in (i - 1)..Len(s) /\ v \in b..Len(s)
        BY <3>9
      <4> HIDE DEF b
      <4>2. /\ SubSeq(s, i, b) \in Seq(TextByte) /\ SubSeq(s, b + 1, v) \in Seq(TextByte)
            /\ SubSeq(s, i, v) = SubSeq(s, i, b) \o SubSeq(s, b + 1, v)
        BY <3>9, <4>1, Pieces
      <4> QED
        BY <4>2 DEF b
    <3> HIDE DEF c, e
    <3>11. TextRead(c) = TextState(c, <<>>)
      BY <3>6, CharactersAreWhole
    <3>12. TextRead(c \o e) = TextState(c \o TextRead(e).out, TextRead(e).held)
      BY <3>10, <3>11, TextGlued
    <3>13. TextRead(e).out = e /\ TextRead(e).held = <<>>
      BY <3>8 DEF TextState
    <3>14. TextRead(c \o e) = TextState(c \o e, <<>>)
      BY <3>12, <3>13
    <3>15. v \in n..L
      BY <1>0, <2>1, <3>3, <3>8
    <3>16. TextRead(SubSeq(s, n + 1, v)) = TextState(SubSeq(s, n + 1, v), <<>>)
      BY <3>9, <3>10, <3>14
    <3>17. WholeUpTo(s, n, v)
      BY <3>8, <3>15, <3>16 DEF WholeUpTo, L
    <3> QED
      BY <3>1, <3>17 DEF n, v
  <2>4. CASE ~(s[i] # 1 /\ Begun(s, i) = w)
    <3>1. f[n] = n
      BY <2>1, <2>2, <2>4 DEF ScanBody, L
    <3> HIDE DEF n
    <3>2. SubSeq(s, n + 1, n) = <<>>
      <4>1. n + 1 \in 1..(Len(s) + 1) /\ n \in 0..Len(s)
        BY <1>0, <2>1 DEF L
      <4>2. /\ SubSeq(s, n + 1, n) \in Seq(TextByte)
            /\ Len(SubSeq(s, n + 1, n)) = IF n + 1 <= n THEN n - (n + 1) + 1 ELSE 0
        BY <4>1, PartOf
      <4>3. Len(SubSeq(s, n + 1, n)) = 0
        BY <2>1, <4>2
      <4> QED
        BY <4>2, <4>3, EmptySeq
    <3>3. n \in n..L
      BY <1>0, <2>1
    <3>4. WholeUpTo(s, n, n)
      BY <2>4, <3>2, <3>3, NothingRead DEF WholeUpTo, L
    <3> QED
      BY <3>1, <3>4 DEF n
  <2> QED
    BY <2>3, <2>4
<1>5. L \in T
  <2>1. T \in SUBSET Nat
    OBVIOUS
  <2> HIDE DEF T
  <2> QED
    BY <1>0, <1>3, <1>4, <2>1, EveryNatural
<1>6. WholeUpTo(s, L - L, f[L - L])
  BY <1>0, <1>5
<1>7. L - L = 0
  BY <1>0
<1> QED
  BY <1>1, <1>6, <1>7

(* A character cut off by a byte that cannot continue it.                  *)
LEMMA CutOff ==
    ASSUME NEW h \in Unfinished, h # <<>>, NEW c \in Seq(TextByte), c # <<>>, c[1] # 1
    PROVE  TextRead(h \o c) = TextState(<<4>> \o TextRead(c).out, TextRead(c).held)
<1> DEFINE b == c[1]
           e == Emits(<<>>, b)
           k == After(<<>>, b)
           r == SubSeq(c, 2, Len(c))
           z == Run("text", TextState(<<>>, k), r)
<1>0. Len(c) \in Nat /\ Len(c) >= 1 /\ 1 \in 1..Len(c) /\ b \in TextByte
  BY OfSequence, ElementOfSeq
<1>1. <<b>> \in Seq(TextByte) /\ r \in Seq(TextByte) /\ c = <<b>> \o r
  <2>1. 2 \in 1..(Len(c) + 1) /\ 1 \in 1..Len(c) /\ Len(c) \in 1..Len(c) /\ Len(c) \in 0..Len(c)
    BY <1>0
  <2>2. r \in Seq(TextByte)
    BY <2>1, PartOf
  <2>3. SubSeq(c, 1, Len(c)) = <<b>> \o SubSeq(c, 1 + 1, Len(c))
    BY <2>1, SubSeqRecursiveFirst
  <2>4. SubSeq(c, 1, Len(c)) = c
    BY <1>0, SubSeqFull
  <2>5. <<b>> \in Seq(TextByte)
    BY <1>0, OneCharacter
  <2>6. 1 + 1 = 2
    OBVIOUS
  <2> HIDE DEF b
  <2> QED
    BY <2>2, <2>3, <2>4, <2>5, <2>6
<1> HIDE DEF b, r
<1>2. b # 1
  BY DEF b
<1>3. h \in Seq(TextByte) /\ Emits(h, b) \in Seq(TextChar) /\ <<>> \in Unfinished /\ <<4>> \in Seq(TextChar)
      /\ e \in Seq(TextChar) /\ k \in Unfinished
  BY <1>0, TextBytes, TextChars, LossyTable
<1>4. Emits(h, b) = <<4>> \o e /\ After(h, b) = k
  <2>1. CASE b = 0
    <3>1. <<4, 0>> = <<4>> \o <<0>>
      <4>1. 4 \in TextChar /\ 0 \in TextChar
        BY DEF TextChar
      <4>2. Append(<<4>>, 0) = <<4, 0>> /\ <<4>> \in Seq(TextChar)
        BY <4>1, TwoOf, OneCharacter
      <4>3. Append(<<4>>, 0) = <<4>> \o <<0>>
        BY <4>1, <4>2, AppendIsConcat
      <4> QED
        BY <4>2, <4>3
    <3>2. e = <<0>> /\ k = <<>> /\ Emits(h, b) = <<4, 0>> /\ After(h, b) = <<>>
      BY <2>1 DEF Emits, After
    <3> QED
      BY <3>1, <3>2
  <2>2. CASE b # 0
    <3>1. e = <<>> /\ k = <<b>> /\ Emits(h, b) = <<4>> /\ After(h, b) = <<b>>
      BY <1>2, <2>2 DEF Emits, After
    <3>2. <<4>> \o <<>> = <<4>>
      BY <1>3, ConcatEmptySeq
    <3> QED
      BY <3>1, <3>2
  <2> QED
    BY <2>1, <2>2
<1> HIDE DEF e, k, z
<1>5. TextRead(Append(h, b)) = TextState(<<4>> \o e, k) /\ Append(h, b) = h \o <<b>>
  BY <1>0, <1>3, <1>4, OneMore, AppendIsConcat
<1>6. TextRead(<<b>>) = TextState(e, k)
  <2>1. TextRead(Append(<<>>, b)) = TextState(e, k)
    BY <1>0, <1>3, OneMore DEF e, k
  <2>2. Append(<<>>, b) = <<b>>
    OBVIOUS
  <2> QED
    BY <2>1, <2>2
<1>7. TextRead(c) = Run("text", TextState(e, k), r)
  <2> DEFINE p == <<b>>
  <2>1. p \in Seq(TextByte) /\ TextRead(p) = TextState(e, k) /\ c = p \o r
    BY <1>1, <1>6
  <2> HIDE DEF p
  <2>2. ASSUME NEW base PROVE Run("text", base, p \o r) = Run("text", Run("text", base, p), r)
    BY <1>1, <2>1, RunConcat
  <2> QED
    BY <2>1, <2>2 DEF TextRead
<1>8. TextRead(c) = TextState(e \o z.out, z.held) /\ z \in TextStates
  BY <1>1, <1>3, <1>7, TextShift DEF z
<1>9. h \o c = (h \o <<b>>) \o r /\ h \o <<b>> \in Seq(TextByte)
  <2>1. h \o c = h \o (<<b>> \o r)
    BY <1>1
  <2>2. (h \o <<b>>) \o r = h \o (<<b>> \o r)
    BY <1>1, <1>3, ConcatAssociative
  <2>3. h \o <<b>> \in Seq(TextByte)
    BY <1>1, <1>3, ConcatProperties
  <2> QED
    BY <2>1, <2>2, <2>3
<1>10. TextRead(h \o c) = Run("text", TextState(<<4>> \o e, k), r)
  <2> DEFINE p == h \o <<b>>
  <2>1. p \in Seq(TextByte) /\ TextRead(p) = TextState(<<4>> \o e, k) /\ h \o c = p \o r
    BY <1>5, <1>9
  <2> HIDE DEF p
  <2>2. ASSUME NEW base PROVE Run("text", base, p \o r) = Run("text", Run("text", base, p), r)
    BY <1>1, <2>1, RunConcat
  <2> QED
    BY <2>1, <2>2 DEF TextRead
<1>11. TextRead(h \o c) = TextState((<<4>> \o e) \o z.out, z.held)
  <2>1. <<4>> \o e \in Seq(TextChar)
    BY <1>3, ConcatProperties
  <2> QED
    BY <1>1, <1>3, <1>10, <2>1, TextShift DEF z
<1>12. z.out \in Seq(TextChar)
  BY <1>8, TextStateFacts
<1>13. (<<4>> \o e) \o z.out = <<4>> \o (e \o z.out)
  <2> DEFINE p == <<4>>
             q == z.out
  <2>1. p \in Seq(TextChar) /\ e \in Seq(TextChar) /\ q \in Seq(TextChar)
    BY <1>3, <1>12
  <2> HIDE DEF p, q
  <2>2. (p \o e) \o q = p \o (e \o q)
    BY <2>1, ConcatAssociative
  <2> QED
    BY <2>2 DEF p, q
<1>14. TextRead(c).out = e \o z.out /\ TextRead(c).held = z.held
  BY <1>8 DEF TextState
<1> QED
  BY <1>11, <1>13, <1>14

(* A byte that continues nothing. *)
LEMMA OutOfPlace ==
    ASSUME NEW c \in Seq(TextByte)
    PROVE  <<1>> \in Seq(TextByte) /\ TextRead(<<1>> \o c) = TextState(<<4>> \o TextRead(c).out, TextRead(c).held)
<1>1. 1 \in TextByte /\ <<>> \in Unfinished /\ <<1>> \in Seq(TextByte) /\ <<4>> \in Seq(TextChar)
  BY TextBytes, TextChars, OneCharacter
<1>2. TextRead(Append(<<>>, 1)) = TextState(Emits(<<>>, 1), After(<<>>, 1))
  BY <1>1, OneMore
<1>3. Append(<<>>, 1) = <<1>>
  OBVIOUS
<1>4. Emits(<<>>, 1) = <<4>> /\ After(<<>>, 1) = <<>>
  BY Begun23 DEF Emits, After
<1>5. TextRead(<<1>>).out = <<4>> /\ TextRead(<<1>>).held = <<>>
  BY <1>2, <1>3, <1>4 DEF TextState
<1>6. <<>> \o c = c
  BY ConcatEmptySeq
<1>7. LET x == TextRead(<<1>>)
          y == TextRead(x.held \o c)
      IN  TextRead(<<1>> \o c) = TextState(x.out \o y.out, y.held)
  BY <1>1, TextSeam
<1> QED
  BY <1>1, <1>5, <1>6, <1>7

LEMMA Associates ==
    \A x, y, z \in Seq(TextChar) : (x \o y) \o z = x \o (y \o z)
  BY ConcatAssociative

(* What decode finds at the end of the valid text. *)
LEMMA ErrorAt ==
    ASSUME NEW t \in Seq(TextByte), ValidUpTo(t) # Len(t)
    PROVE  LET v    == ValidUpTo(t)
               bad  == ErrorLen(t, v)
               good == SubSeq(t, 1, v)
               rest == SubSeq(t, v + bad + 1, Len(t))
           IN  /\ bad = 0 => TextRead(t) = TextState(good, SubSeq(t, v + 1, Len(t)))
               /\ bad # 0 => /\ bad \in 1..(Len(t) - v)
                             /\ TextRead(t) = TextState(Append(good, Replacement) \o TextRead(rest).out, TextRead(rest).held)
<1> DEFINE L == Len(t)
           v == ValidUpTo(t)
           i == v + 1
           m == Begun(t, i)
           bad == ErrorLen(t, v)
           good == SubSeq(t, 1, v)
           after == SubSeq(t, i, L)
<1>0. L \in Nat /\ v \in 0..L /\ v # L /\ TextRead(good) = TextState(good, <<>>)
      /\ (t[i] = 1 \/ m # Width(t[i]))
  <2>1. WholeUpTo(t, 0, v)
    BY ValidUpToIs
  <2>2. 0 + 1 = 1 /\ L \in Nat
    OBVIOUS
  <2> HIDE DEF v
  <2> QED
    BY <2>1, <2>2 DEF WholeUpTo, v
<1> HIDE DEF v
<1>1. i \in 1..L /\ i \in Nat /\ v \in Nat
  BY <1>0
<1>2. good \in Seq(TextByte) /\ after \in Seq(TextByte) /\ t = good \o after
  <2>1. 1 \in 1..(Len(t) + 1) /\ v \in (1 - 1)..Len(t) /\ Len(t) \in v..Len(t)
    BY <1>0
  <2>2. /\ SubSeq(t, 1, v) \in Seq(TextByte) /\ SubSeq(t, v + 1, Len(t)) \in Seq(TextByte)
        /\ SubSeq(t, 1, Len(t)) = SubSeq(t, 1, v) \o SubSeq(t, v + 1, Len(t))
    BY <2>1, Pieces
  <2>3. SubSeq(t, 1, Len(t)) = t
    BY SubSeqFull
  <2> QED
    BY <2>2, <2>3
<1>3. TextRead(t) = TextState(good \o TextRead(after).out, TextRead(after).held)
  <2> HIDE DEF good, after
  <2> QED
    BY <1>0, <1>2, TextGlued
<1>4. good \in Seq(TextChar) /\ 4 \in TextChar /\ <<4>> \in Seq(TextChar)
      /\ Append(good, Replacement) = good \o <<4>>
  <2>1. good \in Seq(TextChar) /\ 4 \in TextChar /\ <<4>> \in Seq(TextChar)
    BY <1>2, TextChars DEF TextChar
  <2> HIDE DEF good
  <2> QED
    BY <2>1, AppendIsConcat DEF Replacement
<1>5. ASSUME NEW k \in 1..(L - v), NEW p \in Seq(TextByte), p = SubSeq(t, i, v + k),
             \A r \in Seq(TextByte) : r = SubSeq(t, v + k + 1, L) =>
                TextRead(p \o r) = TextState(<< 4 >> \o TextRead(r).out, TextRead(r).held)
      PROVE  TextRead(t) = TextState(Append(good, Replacement) \o TextRead(SubSeq(t, v + k + 1, L)).out,
                          TextRead(SubSeq(t, v + k + 1, L)).held)
  <2> DEFINE j == v + k
             r == SubSeq(t, j + 1, L)
  <2>1. i \in 1..(Len(t) + 1) /\ j \in (i - 1)..Len(t) /\ Len(t) \in j..Len(t)
    BY <1>0, <1>1
  <2> HIDE DEF j
  <2>2. /\ SubSeq(t, j + 1, Len(t)) \in Seq(TextByte)
        /\ SubSeq(t, i, Len(t)) = SubSeq(t, i, j) \o SubSeq(t, j + 1, Len(t))
    BY <2>1, Pieces
  <2>3. r \in Seq(TextByte) /\ after = p \o r
    BY <1>5, <2>2 DEF j
  <2>4. r = SubSeq(t, v + k + 1, L)
    BY DEF j
  <2> HIDE DEF r, after, good
  <2>5. TextRead(after) = TextState(<<4>> \o TextRead(r).out, TextRead(r).held)
    BY <1>5, <2>3, <2>4
  <2>6. TextRead(after).out = <<4>> \o TextRead(r).out /\ TextRead(after).held = TextRead(r).held
    BY <2>5 DEF TextState
  <2>7. TextRead(r).out \in Seq(TextChar)
    BY <2>3, TextIsState
  <2>8. good \o (<<4>> \o TextRead(r).out) = (good \o <<4>>) \o TextRead(r).out
    <3> DEFINE x == <<4>>
               y == TextRead(r).out
    <3>1. x \in Seq(TextChar) /\ y \in Seq(TextChar) /\ good \in Seq(TextChar)
      BY <1>4, <2>7
    <3> HIDE DEF x, y
    <3>2. (good \o x) \o y = good \o (x \o y)
      BY <3>1, Associates
    <3> QED
      BY <3>2 DEF x, y
  <2>9. TextRead(t) = TextState((good \o <<4>>) \o TextRead(r).out, TextRead(r).held)
    BY <1>3, <2>6, <2>8
  <2>10. TextRead(t) = TextState(Append(good, Replacement) \o TextRead(r).out, TextRead(r).held)
    BY <1>4, <2>9
  <2> QED
    BY <2>4, <2>10
<1>6. CASE t[i] = 1
  <2>1. m = 0
    BY <1>6 DEF Begun
  <2>2. v + m # L
    BY <1>0, <1>1, <2>1
  <2>3. bad = 1
    <3> HIDE DEF m
    <3>1. t[v + 1] = 1 /\ v + Begun(t, v + 1) # Len(t)
      BY <1>6, <2>2 DEF m
    <3> QED
      BY <3>1 DEF ErrorLen
  <2>4. 1 \in 1..(L - v)
    BY <1>0, <1>1
  <2>5. <<1>> = SubSeq(t, i, v + 1) /\ <<1>> \in Seq(TextByte)
    <3> DEFINE p == SubSeq(t, i, i)
               q == <<1>>
    <3>1. q \in Seq(TextByte) /\ Len(q) = 1 /\ q[1] = 1
      BY TextBytes, OneCharacter
    <3> HIDE DEF i
    <3>2. i \in 1..(Len(t) + 1) /\ i \in 0..Len(t)
      BY <1>1
    <3>3. /\ p \in Seq(TextByte) /\ Len(p) = (IF i <= i THEN i - i + 1 ELSE 0)
          /\ \A k \in 1..Len(p) : p[k] = t[i + k - 1]
      BY <3>2, PartOf
    <3> HIDE DEF p, q
    <3>4. Len(p) = 1 /\ 1 \in 1..Len(p) /\ i + 1 - 1 = i
      BY <1>1, <3>3
    <3>5. p[1] = t[i]
      BY <3>3, <3>4
    <3>6. \A k \in 1..Len(p) : p[k] = q[k]
      BY <1>6, <3>1, <3>4, <3>5
    <3>7. p = q
      BY <3>1, <3>3, <3>4, <3>6, SeqEqual
    <3> QED
      BY <3>1, <3>7 DEF p, q, i
  <2>6. \A r \in Seq(TextByte) : TextRead(<<1>> \o r) = TextState(<<4>> \o TextRead(r).out, TextRead(r).held)
    BY OutOfPlace
  <2>7. TextRead(t) = TextState(Append(good, Replacement) \o TextRead(SubSeq(t, v + 1 + 1, L)).out,
                     TextRead(SubSeq(t, v + 1 + 1, L)).held)
    <3> HIDE DEF good, i, L, after
    <3> QED
      BY <1>5, <2>4, <2>5, <2>6
  <2> HIDE DEF good, after, m, i
  <2> QED
    BY <2>3, <2>4, <2>7 DEF v, good
<1>7. CASE t[i] # 1
  <2>0. /\ m \in 1..Width(t[i]) /\ Width(t[i]) \in 1..3 /\ i + m - 1 <= L
        /\ m # Width(t[i]) /\ i + m <= L => t[i + m] # 1
    BY <1>1, <1>7, BegunIs
  <2>1. m # Width(t[i]) => SubSeq(t, i, i + m - 1) \in Unfinished /\ SubSeq(t, i, i + m - 1) # <<>>
    BY <1>1, <1>7, CharacterAt
  <2> DEFINE p == SubSeq(t, i, v + m)
  <2>2. m \in 1..3 /\ m \in Nat /\ v + m <= L /\ i + m - 1 = v + m /\ i + m = v + m + 1
    BY <1>1, <2>0
  <2>3. p \in Unfinished /\ p # <<>>
    BY <1>0, <1>7, <2>1, <2>2
  <2>4. v + m # L => t[v + m + 1] # 1
    <3> SUFFICES ASSUME v + m # L PROVE t[v + m + 1] # 1
      OBVIOUS
    <3>1. m # Width(t[i])
      BY <1>0, <1>7
    <3>2. i + m <= L
      <4> HIDE DEF m, i
      <4> QED
        BY <1>0, <1>1, <2>2
    <3>3. t[i + m] # 1
      BY <2>0, <3>1, <3>2
    <3> HIDE DEF m, i
    <3> QED
      BY <2>2, <3>3
  <2>5. CASE v + m = L
    <3>1. bad = 0
      <4> HIDE DEF m
      <4>1. t[v + 1] # 1 /\ v + Begun(t, v + 1) = Len(t)
        BY <1>7, <2>5 DEF m
      <4> QED
        BY <4>1 DEF ErrorLen
    <3>2. after = p
      BY <2>5
    <3>3. TextRead(after) = TextState(<<>>, after)
      <4> HIDE DEF p, after
      <4> QED
        BY <2>3, <3>2, HeldAgain
    <3>4. TextRead(after).out = <<>> /\ TextRead(after).held = after
      BY <3>3 DEF TextState
    <3>5. good \o <<>> = good
      BY <1>4, ConcatEmptySeq
    <3>6. TextRead(t) = TextState(good, after)
      BY <1>3, <3>4, <3>5
    <3> HIDE DEF good, m
    <3> QED
      BY <3>1, <3>6 DEF v, good
  <2>6. CASE v + m # L
    <3>1. bad = m
      <4> HIDE DEF m
      <4>1. t[v + 1] # 1 /\ v + Begun(t, v + 1) # Len(t) /\ m = Begun(t, v + 1)
        BY <1>7, <2>6 DEF m
      <4> QED
        BY <4>1 DEF ErrorLen
    <3> HIDE DEF m
    <3>2. m \in 1..(L - v) /\ m # 0
      BY <1>0, <1>1, <2>2
    <3>3. p \in Seq(TextByte)
      BY <2>3, TextBytes
    <3>4. ASSUME NEW r \in Seq(TextByte), r = SubSeq(t, v + m + 1, L)
          PROVE  TextRead(p \o r) = TextState(<<4>> \o TextRead(r).out, TextRead(r).held)
      <4> DEFINE j == v + m + 1
      <4>1. j \in 1..(Len(t) + 1) /\ Len(t) \in 0..Len(t) /\ j <= L /\ j \in Nat
        BY <1>0, <1>1, <2>2, <2>6
      <4>2. t[j] # 1 /\ r = SubSeq(t, j, L)
        BY <2>4, <2>6, <3>4
      <4> HIDE DEF j, p
      <4>3. /\ Len(r) = (IF j <= L THEN L - j + 1 ELSE 0)
            /\ \A k \in 1..Len(r) : r[k] = t[j + k - 1]
        <5>1. /\ Len(SubSeq(t, j, Len(t))) = (IF j <= Len(t) THEN Len(t) - j + 1 ELSE 0)
              /\ \A k \in 1..Len(SubSeq(t, j, Len(t))) : SubSeq(t, j, Len(t))[k] = t[j + k - 1]
          BY <4>1, PartOf
        <5> QED
          BY <4>2, <5>1
      <4>4. Len(r) # 0 /\ 1 \in 1..Len(r) /\ j + 1 - 1 = j
        BY <1>0, <4>1, <4>3
      <4>5. r[1] = t[j]
        BY <4>3, <4>4
      <4>6. r # <<>>
        BY <4>4
      <4> QED
        BY <2>3, <4>2, <4>5, <4>6, CutOff
    <3>5. p = SubSeq(t, i, v + m)
      OBVIOUS
    <3>6. TextRead(t) = TextState(Append(good, Replacement) \o TextRead(SubSeq(t, v + m + 1, L)).out,
                       TextRead(SubSeq(t, v + m + 1, L)).held)
      <4> HIDE DEF good, i, L, after, p
      <4> QED
        BY <1>5, <3>2, <3>3, <3>4, <3>5
    <3> HIDE DEF good, after, i
    <3> QED
      BY <3>1, <3>2, <3>6 DEF v, good
  <2> QED
    BY <2>5, <2>6
<1> QED
  BY <1>6, <1>7

(* Stretches of a text, and fields of a state.                             *)
LEMMA TextPart ==
    \A t \in Seq(TextByte) : \A a \in 1..(Len(t) + 1) : \A b \in 0..Len(t) :
       /\ SubSeq(t, a, b) \in Seq(TextByte)
       /\ Len(SubSeq(t, a, b)) = (IF a <= b THEN b - a + 1 ELSE 0)
       /\ \A k \in 1..Len(SubSeq(t, a, b)) : SubSeq(t, a, b)[k] = t[a + k - 1]
  BY PartOf

LEMMA TextStateFields ==
    \A o, h : TextState(o, h).out = o /\ TextState(o, h).held = h
  BY DEF TextState

LEMMA MoreInFront ==
    ASSUME NEW o, NEW h, NEW g
    PROVE  [[out |-> o, tail |-> h] EXCEPT !.out = g \o @] = [out |-> g \o o, tail |-> h]
<1> DEFINE r == [out |-> o, tail |-> h]
           u == [r EXCEPT !.out = g \o @]
           w == [out |-> g \o o, tail |-> h]
<1>1. DOMAIN r = {"out", "tail"} /\ DOMAIN w = {"out", "tail"} /\ r.out = o /\ r.tail = h
      /\ w.out = g \o o /\ w.tail = h
  OBVIOUS
<1>2. w = [f \in {"out", "tail"} |-> w[f]]
  OBVIOUS
<1> HIDE DEF r, w
<1>3. u = [f \in {"out", "tail"} |-> IF f = "out" THEN g \o r[f] ELSE r[f]]
  BY <1>1
<1> HIDE DEF u
<1>4. \A f \in {"out", "tail"} : w[f] = IF f = "out" THEN g \o r[f] ELSE r[f]
  BY <1>1
<1>5. u = w
  BY <1>2, <1>3, <1>4
<1> QED
  BY <1>5 DEF u, w, r

(* The end of an end.                                                      *)
LEMMA RestOfRest ==
    ASSUME NEW s \in Seq(TextByte), NEW n \in 0..Len(s), NEW k \in 0..(Len(s) - n)
    PROVE  LET t == SubSeq(s, n + 1, Len(s)) IN
           /\ t \in Seq(TextByte) /\ Len(t) = Len(s) - n
           /\ SubSeq(t, k + 1, Len(t)) = SubSeq(s, n + k + 1, Len(s))
<1> DEFINE L == Len(s)
           t == SubSeq(s, n + 1, L)
           u == SubSeq(t, k + 1, Len(t))
           w == SubSeq(s, n + k + 1, L)
<1>0. L \in Nat /\ n \in Nat /\ k \in Nat /\ n <= L /\ n + k <= L
  OBVIOUS
<1>1. t \in Seq(TextByte) /\ Len(t) = L - n /\ \A i \in 1..Len(t) : t[i] = s[n + i]
  <2>1. n + 1 \in 1..(Len(s) + 1) /\ Len(s) \in 0..Len(s)
    BY <1>0
  <2>2. /\ t \in Seq(TextByte) /\ Len(t) = (IF n + 1 <= L THEN L - (n + 1) + 1 ELSE 0)
        /\ \A i \in 1..Len(t) : t[i] = s[n + 1 + i - 1]
    BY <2>1, PartOf
  <2> HIDE DEF t
  <2>3. Len(t) = L - n
    BY <1>0, <2>2
  <2>4. \A i \in 1..Len(t) : n + 1 + i - 1 = n + i
    BY <1>0
  <2> QED
    BY <2>2, <2>3, <2>4
<1>2. w \in Seq(TextByte) /\ Len(w) = L - n - k /\ \A i \in 1..Len(w) : w[i] = s[n + k + i]
  <2>1. n + k + 1 \in 1..(Len(s) + 1) /\ Len(s) \in 0..Len(s)
    BY <1>0
  <2>2. /\ w \in Seq(TextByte) /\ Len(w) = (IF n + k + 1 <= L THEN L - (n + k + 1) + 1 ELSE 0)
        /\ \A i \in 1..Len(w) : w[i] = s[n + k + 1 + i - 1]
    BY <2>1, PartOf
  <2> HIDE DEF w
  <2>3. Len(w) = L - n - k
    BY <1>0, <2>2
  <2>4. \A i \in 1..Len(w) : n + k + 1 + i - 1 = n + k + i
    BY <1>0
  <2> QED
    BY <2>2, <2>3, <2>4
<1> HIDE DEF t, w
<1>3. u \in Seq(TextByte) /\ Len(u) = L - n - k /\ \A i \in 1..Len(u) : u[i] = t[k + i]
  <2>1. k + 1 \in 1..(Len(t) + 1) /\ Len(t) \in 0..Len(t)
    BY <1>0, <1>1
  <2>2. /\ u \in Seq(TextByte) /\ Len(u) = (IF k + 1 <= Len(t) THEN Len(t) - (k + 1) + 1 ELSE 0)
        /\ \A i \in 1..Len(u) : u[i] = t[k + 1 + i - 1]
    BY <1>1, <2>1, TextPart
  <2> HIDE DEF u
  <2>3. Len(u) = L - n - k
    <3>1. Len(t) \in Nat /\ k <= Len(t) /\ Len(t) = L - n
      BY <1>0, <1>1
    <3>2. Len(u) = Len(t) - k
      BY <1>0, <2>2, <3>1
    <3> QED
      BY <1>0, <3>1, <3>2
  <2>4. \A i \in 1..Len(u) : k + 1 + i - 1 = k + i
    BY <1>0
  <2> QED
    BY <2>2, <2>3, <2>4
<1> HIDE DEF u
<1>4. ASSUME NEW i \in 1..Len(u) PROVE u[i] = w[i]
  <2>1. k + i \in 1..Len(t) /\ i \in 1..Len(w) /\ n + (k + i) = n + k + i
    BY <1>0, <1>1, <1>2, <1>3
  <2> QED
    BY <1>1, <1>2, <1>3, <2>1
<1>5. u = w
  BY <1>2, <1>3, <1>4, SeqEqual
<1> QED
  BY <1>1, <1>5 DEF t, u, w

(* What decode returns, by the reference.                                  *)
TextDecoded(r) == [out |-> TextRead(r).out, tail |-> TextRead(r).held]

(* One turn of decode, when the further ones are right.                    *)
LEMMA FromStep ==
    ASSUME NEW s \in Seq(TextByte), NEW n \in 0..Len(s), NEW f,
           \A k \in (n + 1)..Len(s) : f[k] = TextDecoded(SubSeq(s, k + 1, Len(s)))
    PROVE  ScanBody("from", f, s, n) = TextDecoded(SubSeq(s, n + 1, Len(s)))
<1> DEFINE L == Len(s)
           t == SubSeq(s, n + 1, L)
           v == ValidUpTo(t)
           good == SubSeq(t, 1, v)
           bad == ErrorLen(t, v)
<1>0. L \in Nat /\ n \in Nat /\ n <= L /\ 0 \in 0..(Len(s) - n)
  OBVIOUS
<1>1. t \in Seq(TextByte) /\ Len(t) = L - n
  BY <1>0, RestOfRest
<1>2. WholeUpTo(t, 0, v)
  BY <1>1, ValidUpToIs
<1>3. ScanBody("from", f, s, n) =
         IF v = Len(t) THEN [out |-> good, tail |-> <<>>]
         ELSE IF bad = 0 THEN [out |-> good, tail |-> SubSeq(t, v + 1, Len(t))]
         ELSE [f[n + v + bad] EXCEPT !.out = Append(good, Replacement) \o @]
  <2>1. "from" # "upto"
    OBVIOUS
  <2> QED
    BY <2>1 DEF ScanBody
<1>4. CASE v = Len(t)
  <2>1. good = t
    <3> HIDE DEF t, v
    <3>1. good = SubSeq(t, 1, Len(t))
      BY <1>4
    <3> QED
      BY <1>1, <3>1, SubSeqFull
  <2>2. TextRead(good) = TextState(good, <<>>)
    <3> HIDE DEF v, t
    <3>1. TextRead(SubSeq(t, 0 + 1, v)) = TextState(SubSeq(t, 0 + 1, v), <<>>) /\ 0 + 1 = 1
      BY <1>2 DEF WholeUpTo
    <3> QED
      BY <3>1
  <2> HIDE DEF t, v, good
  <2>3. TextRead(t).out = good /\ TextRead(t).held = <<>>
    BY <2>1, <2>2 DEF TextState
  <2>4. ScanBody("from", f, s, n) = [out |-> good, tail |-> <<>>]
    BY <1>3, <1>4, Zenon
  <2>5. ScanBody("from", f, s, n) = TextDecoded(t)
    BY <2>3, <2>4 DEF TextDecoded
  <2> QED
    BY <2>5 DEF t
<1>5. CASE v # Len(t)
  <2> DEFINE rest == SubSeq(t, v + bad + 1, Len(t))
             last == SubSeq(t, v + 1, Len(t))
  <2>1. /\ bad = 0 => TextRead(t) = TextState(good, last)
        /\ bad # 0 => /\ bad \in 1..(Len(t) - v)
                      /\ TextRead(t) = TextState(Append(good, Replacement) \o TextRead(rest).out, TextRead(rest).held)
    <3> HIDE DEF t
    <3> QED
      BY <1>1, <1>5, ErrorAt
  <2>2. v \in Nat /\ v <= Len(t)
    <3> HIDE DEF t, v
    <3> QED
      BY <1>0, <1>1, <1>2 DEF WholeUpTo
  <2> HIDE DEF v, bad, good, last
  <2>3. CASE bad = 0
    <3> HIDE DEF t
    <3>1. TextRead(t).out = good /\ TextRead(t).held = last
      BY <2>1, <2>3 DEF TextState
    <3>2. ScanBody("from", f, s, n) = [out |-> good, tail |-> last]
      BY <1>3, <1>5, <2>3, Zenon DEF last
    <3>3. ScanBody("from", f, s, n) = TextDecoded(t)
      BY <3>1, <3>2 DEF TextDecoded
    <3> QED
      BY <3>3 DEF t
  <2>4. CASE bad # 0
    <3> DEFINE k == n + v + bad
               g == Append(good, Replacement)
    <3>1. bad \in Nat /\ bad >= 1 /\ bad <= Len(t) - v
      <4>1. bad \in 1..(Len(t) - v)
        BY <2>1, <2>4
      <4> QED
        BY <1>1, <2>2, <4>1
    <3>2. k \in (n + 1)..Len(s) /\ v + bad \in 0..(Len(s) - n) /\ k + 1 = n + (v + bad) + 1
      BY <1>0, <1>1, <2>2, <3>1
    <3>3. rest = SubSeq(s, k + 1, L)
      <4> DEFINE j == v + bad
      <4>1. j \in 0..(Len(s) - n) /\ k + 1 = n + j + 1
        BY <3>2
      <4> HIDE DEF j, k
      <4>2. SubSeq(t, j + 1, Len(t)) = SubSeq(s, n + j + 1, Len(s))
        BY <4>1, RestOfRest
      <4>3. rest = SubSeq(t, j + 1, Len(t))
        BY DEF j
      <4> QED
        BY <4>1, <4>2, <4>3
    <3>4. f[k] = TextDecoded(rest)
      <4> HIDE DEF k, rest
      <4> QED
        BY <3>2, <3>3
    <3>5. ScanBody("from", f, s, n) = [f[k] EXCEPT !.out = g \o @]
      BY <1>3, <1>5, <2>4, Zenon
    <3> HIDE DEF k, g, rest, t
    <3>6. [TextDecoded(rest) EXCEPT !.out = g \o @] = [out |-> g \o TextRead(rest).out, tail |-> TextRead(rest).held]
      BY MoreInFront, Zenon DEF TextDecoded
    <3>7. TextRead(t) = TextState(g \o TextRead(rest).out, TextRead(rest).held)
      BY <2>1, <2>4 DEF g
    <3>8. TextRead(t).out = g \o TextRead(rest).out /\ TextRead(t).held = TextRead(rest).held
      BY <3>7 DEF TextState
    <3>9. ScanBody("from", f, s, n) = TextDecoded(t)
      BY <3>4, <3>5, <3>6, <3>8 DEF TextDecoded
    <3> QED
      BY <3>9 DEF t
  <2> QED
    BY <2>3, <2>4
<1> QED
  BY <1>4, <1>5

(* decode looks only further up.                                           *)
LEMMA FromLocal ==
    ASSUME NEW s \in Seq(TextByte), NEW n \in 0..Len(s), NEW f, NEW g,
           \A k \in (n + 1)..Len(s) : f[k] = g[k]
    PROVE  ScanBody("from", f, s, n) = ScanBody("from", g, s, n)
<1> DEFINE L == Len(s)
           t == SubSeq(s, n + 1, L)
           v == ValidUpTo(t)
           good == SubSeq(t, 1, v)
           bad == ErrorLen(t, v)
           Is(h) == ScanBody("from", h, s, n) =
                      IF v = Len(t) THEN [out |-> good, tail |-> <<>>]
                      ELSE IF bad = 0 THEN [out |-> good, tail |-> SubSeq(t, v + 1, Len(t))]
                      ELSE [h[n + v + bad] EXCEPT !.out = Append(good, Replacement) \o @]
<1>0. L \in Nat /\ n \in Nat /\ n <= L /\ 0 \in 0..(Len(s) - n)
  OBVIOUS
<1>1. t \in Seq(TextByte) /\ Len(t) = L - n
  BY <1>0, RestOfRest
<1>2. Is(f) /\ Is(g)
  <2>1. "from" # "upto"
    OBVIOUS
  <2> QED
    BY <2>1 DEF ScanBody
<1>3. CASE v = Len(t) \/ bad = 0
  <2> HIDE DEF v, t, good, bad
  <2>1. CASE v = Len(t)
    BY <1>2, <2>1, Zenon
  <2>2. CASE v # Len(t) /\ bad = 0
    BY <1>2, <2>2, Zenon
  <2> QED
    BY <1>3, <2>1, <2>2
<1>4. CASE v # Len(t) /\ bad # 0
  <2>1. bad \in 1..(Len(t) - v)
    <3> HIDE DEF t
    <3> QED
      BY <1>1, <1>4, ErrorAt
  <2>2. v \in Nat /\ v <= Len(t)
    <3>1. WholeUpTo(t, 0, v)
      BY <1>1, ValidUpToIs
    <3> HIDE DEF t, v
    <3> QED
      BY <1>0, <1>1, <3>1 DEF WholeUpTo
  <2> HIDE DEF v, t, good, bad
  <2>3. n + v + bad \in (n + 1)..Len(s)
    BY <1>0, <1>1, <2>1, <2>2
  <2>4. f[n + v + bad] = g[n + v + bad]
    BY <2>3
  <2> QED
    BY <1>2, <1>4, <2>4
<1> QED
  BY <1>3, <1>4

(* decode is the reference, as far as it can be. *)
LEMMA DecodeIs ==
    ASSUME NEW s \in Seq(TextByte)
    PROVE  decode(s) = TextDecoded(s)
<1> DEFINE L == Len(s)
<1>0. L \in Nat
  OBVIOUS
<1>1. \E f : Downward(f, "from", s)
  BY <1>0, FromLocal, DownwardExists
<1>2. decode(s) = (CHOOSE f : Downward(f, "from", s))[0]
  BY DEF decode, Downward, ScanBody
<1>3. PICK f : Downward(f, "from", s) /\ decode(s) = f[0]
  BY <1>1, <1>2
<1>4. \A n \in 0..L : f[n] = ScanBody("from", f, s, n)
  BY <1>3 DEF Downward
<1> DEFINE P(n) == f[n] = TextDecoded(SubSeq(s, n + 1, Len(s)))
           T == {m \in Nat : \A j \in 0..m : j <= L => P(L - j)}
<1>5. 0 \in T
  <2>1. \A k \in (L + 1)..L : FALSE
    BY <1>0
  <2>2. L \in 0..Len(s)
    BY <1>0
  <2>3. P(L)
    BY <1>4, <2>1, <2>2, FromStep
  <2>4. \A j \in 0..0 : L - j = L
    BY <1>0
  <2> HIDE DEF P
  <2> QED
    BY <2>3, <2>4
<1>6. ASSUME NEW m \in T PROVE m + 1 \in T
  <2>0. m \in Nat /\ \A j \in 0..m : j <= L => P(L - j)
    OBVIOUS
  <2> SUFFICES ASSUME m + 1 <= L
               PROVE  P(L - (m + 1))
    <3>1. \A j \in 0..(m + 1) : j \in 0..m \/ j = m + 1
      BY <2>0
    <3> HIDE DEF P
    <3> QED
      BY <2>0, <3>1
  <2> HIDE DEF T
  <2> DEFINE n == L - (m + 1)
  <2>1. n \in 0..Len(s)
    BY <1>0, <2>0
  <2>2. ASSUME NEW k \in (n + 1)..Len(s) PROVE P(k)
    <3>1. L - k \in 0..m /\ L - k <= L /\ L - (L - k) = k
      BY <1>0, <2>0, <2>1
    <3>2. P(L - (L - k))
      <4> HIDE DEF P
      <4> QED
        BY <2>0, <3>1
    <3> QED
      BY <3>1, <3>2
  <2> HIDE DEF n
  <2>3. \A k \in (n + 1)..Len(s) : f[k] = TextDecoded(SubSeq(s, k + 1, Len(s)))
    BY <2>2
  <2>4. ScanBody("from", f, s, n) = TextDecoded(SubSeq(s, n + 1, Len(s)))
    BY <2>1, <2>3, FromStep
  <2>5. P(n)
    BY <1>4, <2>1, <2>4
  <2> QED
    BY <2>5 DEF n
<1>7. L \in T
  <2>1. T \in SUBSET Nat
    OBVIOUS
  <2> HIDE DEF T
  <2> QED
    BY <1>0, <1>5, <1>6, <2>1, EveryNatural
<1>8. P(L - L) /\ L - L = 0
  BY <1>0, <1>7
<1>9. SubSeq(s, 0 + 1, Len(s)) = s
  <2>1. 0 + 1 = 1 /\ SubSeq(s, 1, Len(s)) = s
    BY SubSeqFull
  <2> QED
    BY <2>1
<1> QED
  BY <1>3, <1>8, <1>9

(* Wherever the output of a command is cut into three reads, it decodes as *)
(* it would in one piece, invalid bytes included, and never more than a    *)
(* character is held back (Utf8StreamDecoder::push and finish).            *)
THEOREM SeamsNeverShow ==
    ASSUME NEW s \in Seq(TextByte)
    PROVE  SeamsDoNotShow(s)
<1> DEFINE L == Len(s)
<1>0. L \in Nat
  OBVIOUS
<1> SUFFICES ASSUME NEW i \in 0..L, NEW j \in 0..L, i <= j
             PROVE  LET first  == push(<<>>, SubSeq(s, 1, i))
                        second == push(first.tail, SubSeq(s, i + 1, j))
                        third  == push(second.tail, SubSeq(s, j + 1, L))
                    IN  /\ first.out \o second.out \o third.out \o finish(third.tail)
                             = from_utf8_lossy(s)
                        /\ Len(first.tail) <= 3 /\ Len(second.tail) <= 3
  BY DEF SeamsDoNotShow
<1> DEFINE a == SubSeq(s, 1, i)
           c == SubSeq(s, i + 1, j)
           e == SubSeq(s, j + 1, L)
<1>1. a \in Seq(TextByte) /\ c \in Seq(TextByte) /\ e \in Seq(TextByte) /\ s = a \o (c \o e)
      /\ c \o e \in Seq(TextByte)
  <2>1. 1 \in 1..(Len(s) + 1) /\ i \in (1 - 1)..Len(s) /\ Len(s) \in i..Len(s)
    BY <1>0
  <2>2. /\ a \in Seq(TextByte) /\ SubSeq(s, i + 1, Len(s)) \in Seq(TextByte)
        /\ SubSeq(s, 1, Len(s)) = a \o SubSeq(s, i + 1, Len(s))
    BY <2>1, Pieces
  <2>3. i + 1 \in 1..(Len(s) + 1) /\ j \in ((i + 1) - 1)..Len(s) /\ Len(s) \in j..Len(s)
    BY <1>0
  <2>4. /\ c \in Seq(TextByte) /\ e \in Seq(TextByte)
        /\ SubSeq(s, i + 1, Len(s)) = c \o e
    <3> DEFINE k == i + 1
    <3>1. k \in 1..(Len(s) + 1) /\ j \in (k - 1)..Len(s) /\ Len(s) \in j..Len(s)
      BY <2>3
    <3> HIDE DEF k
    <3>2. /\ SubSeq(s, k, j) \in Seq(TextByte) /\ SubSeq(s, j + 1, Len(s)) \in Seq(TextByte)
          /\ SubSeq(s, k, Len(s)) = SubSeq(s, k, j) \o SubSeq(s, j + 1, Len(s))
      BY <3>1, Pieces
    <3> QED
      BY <3>2 DEF k
  <2>5. SubSeq(s, 1, Len(s)) = s
    BY SubSeqFull
  <2> HIDE DEF a, c, e
  <2> QED
    BY <2>2, <2>4, <2>5
<1> HIDE DEF a, c, e
<1> DEFINE first == push(<<>>, a)
           x == TextRead(a)
           second == push(x.held, c)
           y == TextRead(x.held \o c)
           third == push(y.held, e)
           z == TextRead(y.held \o e)
<1>2. first = TextDecoded(a) /\ first.out = x.out /\ first.tail = x.held
  <2>1. <<>> \o a = a
    BY <1>1, ConcatEmptySeq
  <2>2. first = TextDecoded(a)
    BY <1>1, <2>1, DecodeIs DEF push
  <2> QED
    BY <2>2 DEF TextDecoded
<1>3. x.out \in Seq(TextChar) /\ x.held \in Unfinished /\ x.held \in Seq(TextByte)
  BY <1>1, TextIsState, TextBytes
<1> HIDE DEF x
<1>4. x.held \o c \in Seq(TextByte)
  BY <1>1, <1>3, ConcatProperties
<1>5. second = TextDecoded(x.held \o c) /\ second.out = y.out /\ second.tail = y.held
  <2>1. second = TextDecoded(x.held \o c)
    BY <1>4, DecodeIs DEF push
  <2> QED
    BY <2>1 DEF TextDecoded
<1>6. y.out \in Seq(TextChar) /\ y.held \in Unfinished /\ y.held \in Seq(TextByte)
  BY <1>4, TextIsState, TextBytes
<1> HIDE DEF y
<1>7. y.held \o e \in Seq(TextByte)
  BY <1>1, <1>6, ConcatProperties
<1>8. third.out = z.out /\ third.tail = z.held
  <2>1. third = TextDecoded(y.held \o e)
    BY <1>7, DecodeIs DEF push
  <2> QED
    BY <2>1 DEF TextDecoded
<1>9. z.out \in Seq(TextChar)
  BY <1>7, TextIsState
<1> HIDE DEF z
<1>10. TextRead((x.held \o c) \o e) = TextState(y.out \o z.out, z.held)
  <2> DEFINE p == x.held \o c
  <2>1. p \in Seq(TextByte) /\ y = TextRead(p)
    BY <1>4 DEF y
  <2> HIDE DEF p
  <2>2. LET x1 == TextRead(p)
            y1 == TextRead(x1.held \o e)
        IN  TextRead(p \o e) = TextState(x1.out \o y1.out, y1.held)
    BY <1>1, <2>1, TextSeam
  <2>3. TextRead(p \o e) = TextState(y.out \o z.out, z.held)
    BY <2>1, <2>2 DEF z
  <2> QED
    BY <2>3 DEF p
<1>11. TextRead(s) = TextState(x.out \o (y.out \o z.out), z.held)
  <2> DEFINE q == c \o e
             w == TextRead(x.held \o q)
  <2>1. q \in Seq(TextByte) /\ s = a \o q
    BY <1>1
  <2>2. (x.held \o c) \o e = x.held \o q
    <3> DEFINE h == x.held
    <3>1. h \in Seq(TextByte)
      BY <1>3
    <3> HIDE DEF h
    <3>2. (h \o c) \o e = h \o (c \o e)
      BY <1>1, <3>1, ConcatAssociative, SMTT(30)
    <3> QED
      BY <3>2 DEF h
  <2>3. w = TextState(y.out \o z.out, z.held)
    BY <1>10, <2>2
  <2> HIDE DEF q
  <2>4. LET x1 == TextRead(a)
            y1 == TextRead(x1.held \o q)
        IN  TextRead(a \o q) = TextState(x1.out \o y1.out, y1.held)
    BY <1>1, <2>1, TextSeam
  <2>5. TextRead(s) = TextState(x.out \o w.out, w.held)
    BY <2>1, <2>4 DEF x
  <2> HIDE DEF w
  <2>6. w.out = y.out \o z.out /\ w.held = z.held
    BY <2>3 DEF TextState
  <2> QED
    BY <2>5, <2>6
<1>12. from_utf8_lossy(s) = (x.out \o (y.out \o z.out)) \o finish(z.held)
  <2>1. from_utf8_lossy(s) = TextRead(s).out \o finish(TextRead(s).held)
    BY TextRun
  <2>2. TextRead(s).out = x.out \o (y.out \o z.out) /\ TextRead(s).held = z.held
    <3> DEFINE o == x.out \o (y.out \o z.out)
    <3>1. TextRead(s) = TextState(o, z.held)
      BY <1>11
    <3> HIDE DEF o
    <3>2. TextRead(s).out = o /\ TextRead(s).held = z.held
      BY <3>1, TextStateFields
    <3> QED
      BY <3>2 DEF o
  <2> QED
    BY <2>1, <2>2
<1>13. (x.out \o y.out) \o z.out = x.out \o (y.out \o z.out)
  BY <1>3, <1>6, <1>9, Associates, Zenon
<1>14. \A h \in Unfinished : Len(h) <= 3
  <2>1. Len(<<>>) <= 3 /\ Len(<<2>>) <= 3 /\ Len(<<3>>) <= 3 /\ Len(<<3, 1>>) <= 3
    OBVIOUS
  <2> QED
    BY <2>1, Zenon DEF Unfinished
<1>15. second = push(first.tail, c) /\ third = push(second.tail, e)
  BY <1>2, <1>5
<1> HIDE DEF first, second, third
<1>16. /\ first.out \o second.out \o third.out \o finish(third.tail) = from_utf8_lossy(s)
       /\ Len(first.tail) <= 3 /\ Len(second.tail) <= 3
  BY <1>2, <1>3, <1>5, <1>6, <1>8, <1>12, <1>13, <1>14
<1> QED
  BY <1>15, <1>16 DEF first, a, c, e

----------------------------------------------------------------------------
(* Messages.  Numbers first.                                               *)

LEMMA Divided ==
    ASSUME NEW x \in Nat, NEW r \in Nat, r > 0
    PROVE  /\ x \div r \in Nat /\ x % r \in 0..(r - 1)
           /\ ((x \div r) * r) + (x % r) = x
<1> DEFINE q == x \div r
           m == x - r * q
<1>1. q \in Int /\ r * q <= x /\ x < r * q + r
  OBVIOUS
<1>2. q \in Nat
  OBVIOUS
<1> HIDE DEF q
<1>3. r * q \in Int /\ r * q = q * r
  BY <1>1
<1>4. m \in Int /\ 0 <= m /\ m < r /\ x = r * q + m
  BY <1>1, <1>3
<1> HIDE DEF m
<1>5. x % r = m
  <2>1. ASSUME NEW k \in Int, NEW l \in Int, 0 <= l, l < r, x = r * k + l
        PROVE  x % r = l
    BY <2>1
  <2> QED
    BY <1>1, <1>4, <2>1
<1>6. m \in 0..(r - 1)
  BY <1>4
<1>7. (q * r) + m = x
  BY <1>3, <1>4
<1>8. (q * r) + (x % r) = x
  BY <1>5, <1>7
<1> QED
  BY <1>2, <1>5, <1>6, <1>8, Zenon DEF q

LEMMA DividedTwice ==
    ASSUME NEW x \in Nat, NEW a \in Nat, NEW r \in Nat, r > 0, a > 0
    PROVE  x \div (a * r) = (x \div a) \div r
  OBVIOUS

LEMMA Remainder ==
    ASSUME NEW x \in Nat, NEW p \in Nat, x < p
    PROVE  x % p = x /\ x \div p = 0
  OBVIOUS

LEMMA Positions ==
    ASSUME NEW n \in Nat
    PROVE  LET s == [i \in 1..n |-> i] IN
           s \in Seq(Nat) /\ Len(s) = n /\ \A i \in 1..n : s[i] = i
<1>1. [i \in 1..n |-> i] \in [1..n -> Nat]
  OBVIOUS
<1> QED
  BY <1>1, IsSequence

LEMMA SpanIs ==
    /\ Span(0) = 1
    /\ \A n \in Nat : Span(n) \in Nat /\ Span(n) > 0 /\ Span(n + 1) = Span(n) * Radix
<1> DEFINE s(n) == [i \in 1..n |-> i]
<1>1. ASSUME NEW n \in Nat PROVE Span(n) = Run("span", 1, s(n))
  <2>1. s(n) \in Seq(Nat) /\ Len(s(n)) = n
    BY Positions
  <2>2. DOMAIN s(n) = 1..Len(s(n))
    BY <2>1
  <2> HIDE DEF s
  <2>3. FoldLeft(LAMBDA p, i : p * Radix, 1, s(n)) = Run("span", 1, s(n))
    BY <2>2 DEF FoldLeft, MapThenFoldSet, Run, Iterates, Turn, Fed
  <2> QED
    BY <2>3 DEF Span, s
<1>2. Span(0) = 1
  <2>1. s(0) = <<>>
    <3>1. s(0) \in Seq(Nat) /\ Len(s(0)) = 0
      BY Positions
    <3> HIDE DEF s
    <3> QED
      BY <3>1, EmptySeq
  <2> HIDE DEF s
  <2> QED
    BY <1>1, <2>1, RunOfNothing
<1>3. ASSUME NEW n \in Nat PROVE Span(n + 1) = Span(n) * Radix
  <2>1. /\ s(n) \in Seq(Nat) /\ Len(s(n)) = n /\ s(n + 1) \in Seq(Nat) /\ Len(s(n + 1)) = n + 1
        /\ \A i \in 1..n : s(n)[i] = i /\ s(n + 1)[i] = i
    BY Positions
  <2> HIDE DEF s
  <2>2. Run("span", 1, s(n + 1)) = Fed("span", Run("span", 1, s(n)), s(n + 1)[Len(s(n + 1))])
    BY <2>1, RunOneMore
  <2>3. Span(n) = Run("span", 1, s(n)) /\ Span(n + 1) = Run("span", 1, s(n + 1))
    BY <1>1
  <2> QED
    BY <2>2, <2>3 DEF Fed
<1> DEFINE T == {n \in Nat : Span(n) \in Nat /\ Span(n) > 0}
<1>4. 0 \in T
  BY <1>2
<1>5. ASSUME NEW n \in T PROVE n + 1 \in T
  <2> DEFINE p == Span(n)
  <2>1. n \in Nat /\ p \in Nat /\ p > 0 /\ Radix \in Nat /\ Radix > 8
    BY MessagesAssumption
  <2>2. Span(n + 1) = p * Radix
    BY <1>3, <2>1
  <2> HIDE DEF p
  <2>3. p * Radix \in Nat /\ p * Radix > 0
    BY <2>1
  <2> QED
    BY <2>1, <2>2, <2>3
<1>6. \A n \in Nat : n \in T
  <2>1. T \in SUBSET Nat
    OBVIOUS
  <2> HIDE DEF T
  <2> QED
    BY <1>4, <1>5, <2>1, EveryNatural
<1> QED
  BY <1>2, <1>3, <1>6

Byte == 0..(Radix - 1)

LEMMA LowBytes ==
    ASSUME NEW v \in Nat, NEW n \in Nat
    PROVE  /\ to_le_bytes(v, n) \in Seq(Byte) /\ Len(to_le_bytes(v, n)) = n
           /\ \A i \in 1..n : to_le_bytes(v, n)[i] = (v \div Span(i - 1)) % Radix
<1>1. ASSUME NEW i \in 1..n PROVE (v \div Span(i - 1)) % Radix \in Byte
  <2>1. i - 1 \in Nat /\ Span(i - 1) \in Nat /\ Span(i - 1) > 0
    BY SpanIs
  <2>2. v \div Span(i - 1) \in Nat
    BY <2>1, Divided
  <2>3. Radix \in Nat /\ Radix > 0
    BY MessagesAssumption
  <2> QED
    BY <2>2, <2>3, Divided DEF Byte
<1>2. to_le_bytes(v, n) \in [1..n -> Byte]
  BY <1>1 DEF to_le_bytes
<1>3. to_le_bytes(v, n) \in Seq(Byte) /\ Len(to_le_bytes(v, n)) = n
  BY <1>2, IsSequence
<1> QED
  BY <1>3 DEF to_le_bytes

(* The number read is that of the bytes from the last one to the first.    *)
LEMMA NumberRuns ==
    ASSUME NEW s \in Seq(Byte)
    PROVE  /\ Reverse(s) \in Seq(Byte) /\ Len(Reverse(s)) = Len(s)
           /\ \A i \in 1..Len(s) : Reverse(s)[i] = s[Len(s) - i + 1]
           /\ from_le_bytes(s) = Run("number", 0, Reverse(s))
<1>1. Len(s) \in Nat /\ DOMAIN s = 1..Len(s) /\ \A i \in 1..Len(s) : s[i] \in Byte
  BY OfSequence
<1>2. ASSUME NEW i \in 1..Len(s) PROVE Len(s) - i + 1 \in 1..Len(s)
  BY <1>1
<1>3. Reverse(s) = [i \in 1..Len(s) |-> s[Len(s) - i + 1]]
  BY DEF Reverse
<1>4. Reverse(s) \in [1..Len(s) -> Byte]
  BY <1>1, <1>2, <1>3
<1>5. Reverse(s) \in Seq(Byte) /\ Len(Reverse(s)) = Len(s)
  BY <1>1, <1>4, IsSequence
<1> DEFINE u == Reverse(s)
<1>6. DOMAIN u = 1..Len(u)
  BY <1>5
<1> HIDE DEF u
<1>7. FoldLeft(LAMBDA v, b : v * Radix + b, 0, u) = Run("number", 0, u)
  BY <1>6 DEF FoldLeft, MapThenFoldSet, Run, Iterates, Turn, Fed
<1> QED
  BY <1>3, <1>5, <1>7 DEF from_le_bytes, u

(* What an integer's bytes say is the integer again: behind m of them, from *)
(* the last one, stands what is left when the others are cut off.           *)
LEMMA BytesBack ==
    ASSUME NEW n \in Nat, NEW v \in Nat, v < Span(n)
    PROVE  from_le_bytes(to_le_bytes(v, n)) = v
<1> DEFINE s == to_le_bytes(v, n)
           u == Reverse(s)
<1>1. s \in Seq(Byte) /\ Len(s) = n /\ \A i \in 1..n : s[i] = (v \div Span(i - 1)) % Radix
  BY LowBytes
<1> HIDE DEF s
<1>2. /\ u \in Seq(Byte) /\ Len(u) = n /\ \A i \in 1..n : u[i] = s[n - i + 1]
      /\ from_le_bytes(s) = Run("number", 0, u)
  BY <1>1, NumberRuns
<1> HIDE DEF u
<1>3. PICK it : Stepping(it, "number", 0, u, n) /\ Run("number", 0, u) = it[1..n]
  BY <1>2, RunIterates
<1>4. it[{}] = 0 /\ \A m \in 1..n : it[1..m] = it[1..(m - 1)] * Radix + u[m]
  BY <1>3 DEF Stepping, Fed
<1> DEFINE T == {m \in Nat : m <= n => it[1..m] = v \div Span(n - m)}
<1>5. 0 \in T
  <2>1. v \div Span(n) = 0
    BY SpanIs, Remainder
  <2>2. 1..0 = {} /\ n - 0 = n
    OBVIOUS
  <2> QED
    BY <1>4, <2>1, <2>2
<1>6. ASSUME NEW m \in T PROVE m + 1 \in T
  <2> SUFFICES ASSUME m + 1 <= n
               PROVE  it[1..(m + 1)] = v \div Span(n - (m + 1))
    OBVIOUS
  <2> DEFINE k == n - (m + 1)
             w == v \div Span(k)
  <2>1. /\ m \in Nat /\ m <= n /\ k \in Nat /\ n - m = k + 1 /\ m + 1 \in 1..n
        /\ (m + 1) - 1 = m /\ n - (m + 1) + 1 \in 1..n /\ (n - (m + 1) + 1) - 1 = k
    OBVIOUS
  <2>2. it[1..m] = v \div Span(k + 1)
    BY <2>1
  <2>3. u[m + 1] = w % Radix
    BY <1>1, <1>2, <2>1
  <2>4. it[1..(m + 1)] = it[1..m] * Radix + u[m + 1]
    BY <1>4, <2>1
  <2> HIDE DEF k
  <2>5. Span(k) \in Nat /\ Span(k) > 0 /\ Span(k + 1) = Span(k) * Radix
    BY <2>1, SpanIs
  <2>6. Radix \in Nat /\ Radix > 0
    BY MessagesAssumption
  <2>7. v \div Span(k + 1) = w \div Radix
    BY <2>5, <2>6, DividedTwice, SMTT(30)
  <2>8. w \in Nat
    BY <2>5, Divided
  <2> HIDE DEF w
  <2>9. ((w \div Radix) * Radix) + (w % Radix) = w
    BY <2>6, <2>8, Divided
  <2>10. it[1..(m + 1)] = w
    BY <2>2, <2>3, <2>4, <2>7, <2>9
  <2> QED
    BY <2>10 DEF w, k
<1>7. n \in T
  <2>1. T \in SUBSET Nat
    OBVIOUS
  <2> HIDE DEF T
  <2> QED
    BY <1>5, <1>6, <2>1, EveryNatural
<1>8. n - n = 0 /\ v \div 1 = v /\ n <= n
  OBVIOUS
<1>9. it[1..n] = v \div Span(n - n)
  BY <1>7, <1>8
<1>10. it[1..n] = v
  BY <1>8, <1>9, SpanIs
<1> QED
  BY <1>2, <1>3, <1>10 DEF s

(* Any n bytes say a number that n bytes hold. *)
LEMMA NumberFits ==
    ASSUME NEW x \in Nat, NEW p \in Nat, NEW r \in Nat, NEW b \in 0..(r - 1), x < p
    PROVE  x * r + b \in Nat /\ x * r + b < p * r
<1>1. (x + 1) * r <= p * r
  <2>1. ASSUME NEW d \in Nat PROVE d * r \in Nat
    OBVIOUS
  <2>2. p - (x + 1) \in Nat
    OBVIOUS
  <2>3. (p - (x + 1)) * r \in Nat
    BY <2>1, <2>2
  <2>4. (p - (x + 1)) * r = p * r - (x + 1) * r
    OBVIOUS
  <2>5. p * r \in Nat /\ (x + 1) * r \in Nat
    OBVIOUS
  <2> QED
    BY <2>3, <2>4, <2>5
<1>2. (x + 1) * r = x * r + r /\ x * r \in Nat /\ p * r \in Nat
  OBVIOUS
<1> QED
  BY <1>1, <1>2

LEMMA NumberOf ==
    ASSUME NEW s \in Seq(Byte)
    PROVE  from_le_bytes(s) \in 0..(Span(Len(s)) - 1)
<1> DEFINE u == Reverse(s)
           n == Len(s)
<1>1. u \in Seq(Byte) /\ Len(u) = n /\ from_le_bytes(s) = Run("number", 0, u) /\ n \in Nat
      /\ \A m \in 1..n : u[m] \in Byte
  <2>1. u \in Seq(Byte) /\ Len(u) = n /\ from_le_bytes(s) = Run("number", 0, u)
    BY NumberRuns
  <2> HIDE DEF u, n
  <2>2. n \in Nat /\ \A m \in 1..n : u[m] \in Byte
    BY <2>1, OfSequence
  <2> QED
    BY <2>1, <2>2
<1> HIDE DEF u, n
<1>2. PICK it : Stepping(it, "number", 0, u, n) /\ Run("number", 0, u) = it[1..n]
  BY <1>1, RunIterates
<1>3. it[{}] = 0 /\ \A m \in 1..n : it[1..m] = it[1..(m - 1)] * Radix + u[m]
  BY <1>2 DEF Stepping, Fed
<1> DEFINE T == {m \in Nat : m <= n => it[1..m] \in Nat /\ it[1..m] < Span(m)}
<1>4. 0 \in T
  <2>1. 1..0 = {} /\ Span(0) = 1
    BY SpanIs
  <2>2. it[1..0] = 0
    BY <1>3, <2>1
  <2> QED
    BY <2>1, <2>2
<1>5. ASSUME NEW m \in T PROVE m + 1 \in T
  <2> SUFFICES ASSUME m + 1 <= n
               PROVE  it[1..(m + 1)] \in Nat /\ it[1..(m + 1)] < Span(m + 1)
    OBVIOUS
  <2>1. m \in Nat /\ m <= n /\ m + 1 \in 1..n /\ (m + 1) - 1 = m
    BY <1>1
  <2>2. it[1..m] \in Nat /\ it[1..m] < Span(m)
    BY <2>1
  <2>3. it[1..(m + 1)] = it[1..m] * Radix + u[m + 1] /\ u[m + 1] \in 0..(Radix - 1)
    BY <1>1, <1>3, <2>1 DEF Byte
  <2>4. Span(m) \in Nat /\ Span(m + 1) = Span(m) * Radix
    BY <2>1, SpanIs
  <2>5. Radix \in Nat
    BY MessagesAssumption
  <2> QED
    BY <2>2, <2>3, <2>4, <2>5, NumberFits
<1>6. n \in T
  <2>1. T \in SUBSET Nat
    OBVIOUS
  <2> HIDE DEF T
  <2> QED
    BY <1>1, <1>4, <1>5, <2>1, EveryNatural
<1>7. it[1..n] \in Nat /\ it[1..n] < Span(n) /\ Span(n) \in Nat
  BY <1>1, <1>6, SpanIs
<1> QED
  BY <1>1, <1>2, <1>7 DEF n

----------------------------------------------------------------------------
(* Fields.                                                                 *)

FieldKinds == {U(1), U(2), U(4), U(8), I(2), I(4), Flag, Str(NameMax), Str(ErrorMax), Rest}

(* What a message may hold in a field of each kind. *)
ValuesOf(f) ==
    IF f.kind = "unsigned" THEN 0..(Span(f.size) - 1)
    ELSE IF f.kind = "signed" THEN ((Span(f.size) \div 2) - Span(f.size))..((Span(f.size) \div 2) - 1)
    ELSE IF f.kind = "flag" THEN BOOLEAN
    ELSE Seq(Byte)

Shown(f, v) ==
    IF f.kind = "string" THEN SubSeq(v, 1, StringLength(v, f.size)) ELSE v

LEMMA KindsAre ==
    ASSUME NEW f \in FieldKinds
    PROVE  /\ f.size \in Nat
           /\ f.kind \in {"unsigned", "signed", "flag", "string", "rest"}
           /\ f.kind = "flag" => f.size = 1
  BY MessagesAssumption DEF FieldKinds, U, I, Flag, Str, Rest

LEMMA BytesAre ==
    Byte \subseteq Nat /\ 0 \in Byte /\ 1 \in Byte /\ Radix - 1 \in Byte
  BY MessagesAssumption DEF Byte

(* An integer with a sign wraps to one without and back. *)
LEMMA SignBack ==
    ASSUME NEW n \in Nat, NEW v \in ((Span(n) \div 2) - Span(n))..((Span(n) \div 2) - 1)
    PROVE  v % Span(n) \in 0..(Span(n) - 1) /\ ToSigned(v % Span(n), n) = v
<1> DEFINE p == Span(n)
<1>1. p \in Nat /\ p > 0
  BY SpanIs
<1> HIDE DEF p
<1>2. v \in Int /\ v < (p \div 2) /\ (p \div 2) - p <= v /\ (p \div 2) \in Nat /\ (p \div 2) <= p
  BY <1>1 DEF p
<1>3. CASE v >= 0
  <2>1. v \in Nat /\ v < p
    BY <1>2, <1>3, <1>1
  <2>2. v % p = v
    BY <2>1, <1>1, Remainder
  <2>3. ToSigned(v, n) = v
    BY <1>2, <1>1 DEF ToSigned, p
  <2> QED
    BY <2>1, <2>2, <2>3, <1>1 DEF p
<1>4. CASE v < 0
  <2>1. v + p \in Nat /\ v + p < p /\ v + p >= (p \div 2)
    BY <1>1, <1>2, <1>4
  <2>2. v % p = v + p
    <3>1. v = p * (0 - 1) + (v + p)
      BY <1>1, <1>2
    <3>2. ASSUME NEW k \in Int, NEW l \in Int, 0 <= l, l < p, v = p * k + l
          PROVE  v % p = l
      BY <3>2, <1>1, <1>2
    <3>3. 0 - 1 \in Int /\ v + p \in Int
      BY <1>1, <1>2
    <3> QED
      BY <3>1, <3>2, <3>3, <2>1
  <2>3. ToSigned(v + p, n) = (v + p) - p
    BY <2>1 DEF ToSigned, p
  <2>4. (v + p) - p = v
    BY <1>1, <1>2
  <2> QED
    BY <2>1, <2>2, <2>3, <2>4, <1>1 DEF p
<1> QED
  BY <1>2, <1>3, <1>4

LEMMA SignOf ==
    ASSUME NEW n \in Nat, NEW u \in 0..(Span(n) - 1)
    PROVE  ToSigned(u, n) \in ((Span(n) \div 2) - Span(n))..((Span(n) \div 2) - 1)
<1> DEFINE p == Span(n)
<1>1. p \in Nat /\ p > 0
  BY SpanIs
<1> HIDE DEF p
<1>2. u \in Int /\ 0 <= u /\ u < p /\ (p \div 2) \in Nat
  BY <1>1 DEF p
<1>3. CASE u >= (p \div 2)
  BY <1>1, <1>2, <1>3 DEF ToSigned, p
<1>4. CASE u < (p \div 2)
  BY <1>1, <1>2, <1>4 DEF ToSigned, p
<1> QED
  BY <1>2, <1>3, <1>4

LEMMA LengthOfString ==
    ASSUME NEW v \in Seq(Byte), NEW m \in Nat
    PROVE  /\ StringLength(v, m) \in 0..Len(v) /\ StringLength(v, m) \in Byte
           /\ StringLength(v, m) % Radix = StringLength(v, m)
           /\ StringLength(v, m) <= m
<1>1. Len(v) \in Nat /\ Radix \in Nat /\ Radix > 8
  BY OfSequence, MessagesAssumption
<1>2. /\ StringLength(v, m) \in 0..Len(v) /\ StringLength(v, m) <= Radix - 1
      /\ StringLength(v, m) <= m
  BY <1>1 DEF StringLength, MinOf
<1>3. StringLength(v, m) \in Nat /\ StringLength(v, m) < Radix
  BY <1>1, <1>2
<1> QED
  BY <1>1, <1>2, <1>3, Remainder DEF Byte

(* The front of bytes that stand behind each other. *)
LEMMA FrontOf ==
    ASSUME NEW W, NEW a \in Seq(W), NEW c \in Seq(W)
    PROVE  /\ a \o c \in Seq(W) /\ Len(a \o c) = Len(a) + Len(c)
           /\ SubSeq(a \o c, 1, Len(a)) = a
           /\ SubSeq(a \o c, Len(a) + 1, Len(a \o c)) = c
<1> DEFINE s == a \o c
           n == Len(a)
           m == Len(c)
<1>1. /\ s \in Seq(W) /\ Len(s) = n + m /\ n \in Nat /\ m \in Nat
  BY ConcatProperties, OfSequence
<1>1a. /\ \A i \in 1..n : s[i] = a[i]
       /\ \A i \in 1..m : s[n + i] = c[i]
  BY ConcatProperties
<1> HIDE DEF s
<1> DEFINE x == SubSeq(s, 1, n)
           y == SubSeq(s, n + 1, n + m)
<1>2. x \in Seq(W) /\ Len(x) = n /\ \A i \in 1..n : x[i] = s[i]
  <2>1. 1 \in 1..(Len(s) + 1) /\ n \in 0..Len(s)
    BY <1>1
  <2>2. /\ x \in Seq(W) /\ Len(x) = IF 1 <= n THEN n - 1 + 1 ELSE 0
        /\ \A i \in 1..Len(x) : 1 + i - 1 \in 1..n /\ x[i] = s[1 + i - 1]
    BY <1>1, <2>1, PartOf
  <2> HIDE DEF x
  <2>3. Len(x) = n
    BY <1>1, <2>2
  <2>4. \A i \in 1..n : 1 + i - 1 = i
    BY <1>1
  <2> QED
    BY <2>2, <2>3, <2>4
<1>3. y \in Seq(W) /\ Len(y) = m /\ \A i \in 1..m : y[i] = s[n + i]
  <2>1. n + 1 \in 1..(Len(s) + 1) /\ n + m \in 0..Len(s)
    BY <1>1
  <2>2. /\ y \in Seq(W) /\ Len(y) = IF n + 1 <= n + m THEN (n + m) - (n + 1) + 1 ELSE 0
        /\ \A i \in 1..Len(y) : (n + 1) + i - 1 \in (n + 1)..(n + m) /\ y[i] = s[(n + 1) + i - 1]
    BY <1>1, <2>1, PartOf
  <2> HIDE DEF y
  <2>3. Len(y) = m
    BY <1>1, <2>2
  <2>4. \A i \in 1..m : (n + 1) + i - 1 = n + i
    BY <1>1
  <2> QED
    BY <2>2, <2>3, <2>4
<1> HIDE DEF x, y
<1>4. x = a
  BY <1>1, <1>1a, <1>2, SeqEqual
<1>5. y = c
  <2>1. \A i \in 1..m : y[i] = c[i]
    BY <1>1a, <1>3
  <2> HIDE DEF m
  <2> QED
    BY <1>3, <2>1, SeqEqual DEF m
<1> QED
  BY <1>1, <1>4, <1>5 DEF s, x, y, n, m

LEMMA TailOf ==
    ASSUME NEW W, NEW e \in W, NEW c \in Seq(W)
    PROVE  <<e>> \o c \in Seq(W) /\ Len(<<e>> \o c) = 1 + Len(c) /\ (<<e>> \o c)[1] = e
           /\ Tail(<<e>> \o c) = c
<1>1. <<e>> \in Seq(W) /\ Len(<<e>>) = 1 /\ <<e>>[1] = e
  BY OneCharacter
<1>2. ASSUME NEW h \in Seq(W), Len(h) = 1
      PROVE  h \o c \in Seq(W) /\ Len(h \o c) = 1 + Len(c) /\ (h \o c)[1] = h[1]
             /\ Tail(h \o c) = c
  <2> DEFINE s == h \o c
  <2>1. s \in Seq(W) /\ Len(s) = Len(h) + Len(c) /\ SubSeq(s, Len(h) + 1, Len(s)) = c
    BY FrontOf
  <2>2. \A j \in 1..Len(h) : s[j] = h[j]
    BY ConcatProperties
  <2> HIDE DEF s
  <2>3. Len(h) + 1 = 2 /\ 1 \in 1..Len(h) /\ Len(c) \in Nat
    BY <1>2, OfSequence
  <2>4. SubSeq(s, 2, Len(s)) = c /\ s[1] = h[1] /\ Len(s) = 1 + Len(c)
    BY <1>2, <2>1, <2>2, <2>3
  <2>5. s # <<>>
    BY <2>1, <2>3, <2>4, OfSequence
  <2>6. Tail(s) = c
    BY <2>1, <2>4, <2>5, TailIsSubSeq
  <2> QED
    BY <2>1, <2>4, <2>6 DEF s
<1> QED
  BY <1>1, <1>2

LEMMA FrontTail ==
    ASSUME NEW W, NEW s \in Seq(W), NEW k \in 1..Len(s)
    PROVE  SubSeq(s, 2, k) = Tail(SubSeq(s, 1, k))
<1>1. 1 \in 1..Len(s) /\ k \in 1..Len(s) /\ 1 + 1 = 2
  BY OfSequence
<1> QED
  BY <1>1, HeadTailOfSubSeq

(* What a field is on the wire says the field. *)
LEMMA FieldIs ==
    ASSUME NEW f \in FieldKinds, NEW v \in ValuesOf(f)
    PROVE  /\ FieldBytes(f, v) \in Seq(Byte)
           /\ ValueOf(f, FieldBytes(f, v)) = Shown(f, v)
           /\ f.kind \in {"unsigned", "signed", "flag"} => Len(FieldBytes(f, v)) = f.size
           /\ f.kind = "string" => /\ FieldBytes(f, v) # <<>>
                                   /\ FieldBytes(f, v)[1] + 1 = Len(FieldBytes(f, v))
                                   /\ Tail(FieldBytes(f, v)) = Shown(f, v)
           /\ f.kind = "rest" => FieldBytes(f, v) = v
<1> DEFINE n == f.size
<1>1. n \in Nat /\ f.kind \in {"unsigned", "signed", "flag", "string", "rest"}
      /\ (f.kind = "flag" => n = 1)
  BY KindsAre
<1>2. CASE f.kind = "unsigned"
  <2>1. v \in 0..(Span(n) - 1) /\ Span(n) \in Nat
    BY <1>1, <1>2, SpanIs DEF ValuesOf
  <2>2. v \in Nat /\ v < Span(n) /\ v % Span(n) = v
    BY <2>1, Remainder
  <2>3. FieldBytes(f, v) = to_le_bytes(v, n)
    BY <1>2, <2>2 DEF FieldBytes
  <2>4. to_le_bytes(v, n) \in Seq(Byte) /\ Len(to_le_bytes(v, n)) = n
        /\ from_le_bytes(to_le_bytes(v, n)) = v
    BY <1>1, <2>2, LowBytes, BytesBack
  <2>5. ValueOf(f, to_le_bytes(v, n)) = v /\ Shown(f, v) = v
    BY <1>2, <2>4 DEF ValueOf, Shown
  <2> QED
    BY <1>2, <2>3, <2>4, <2>5
<1>3. CASE f.kind = "signed"
  <2> DEFINE u == v % Span(n)
  <2>1. v \in ((Span(n) \div 2) - Span(n))..((Span(n) \div 2) - 1) /\ Span(n) \in Nat
    BY <1>1, <1>3, SpanIs DEF ValuesOf
  <2>2. u \in 0..(Span(n) - 1) /\ ToSigned(u, n) = v
    BY <1>1, <2>1, SignBack
  <2>3. FieldBytes(f, v) = to_le_bytes(u, n)
    BY <1>3 DEF FieldBytes
  <2> HIDE DEF u
  <2>4. u \in Nat /\ u < Span(n)
    BY <2>1, <2>2
  <2>5. to_le_bytes(u, n) \in Seq(Byte) /\ Len(to_le_bytes(u, n)) = n
        /\ from_le_bytes(to_le_bytes(u, n)) = u
    BY <1>1, <2>4, LowBytes, BytesBack
  <2>6. ValueOf(f, to_le_bytes(u, n)) = v /\ Shown(f, v) = v
    BY <1>3, <2>2, <2>5 DEF ValueOf, Shown
  <2> QED
    BY <1>3, <2>3, <2>5, <2>6
<1>4. CASE f.kind = "flag"
  <2>1. v \in BOOLEAN
    BY <1>4 DEF ValuesOf
  <2> DEFINE c == IF v THEN 1 ELSE 0
  <2>2. FieldBytes(f, v) = <<c>>
    BY <1>4 DEF FieldBytes
  <2>3. c \in Byte /\ (c # 0) = v
    BY <2>1, BytesAre
  <2> HIDE DEF c
  <2>4. <<c>> \in Seq(Byte) /\ Len(<<c>>) = 1 /\ <<c>>[1] = c
    BY <2>3, OneCharacter
  <2>5. ValueOf(f, <<c>>) = (<<c>>[1] # 0)
    BY <1>4 DEF ValueOf
  <2>6. ValueOf(f, <<c>>) = v
    BY <2>3, <2>4, <2>5
  <2>7. Shown(f, v) = v
    BY <1>4 DEF Shown
  <2> QED
    BY <1>1, <1>4, <2>2, <2>4, <2>6, <2>7
<1>5. CASE f.kind = "string"
  <2> DEFINE l == StringLength(v, n)
             w == SubSeq(v, 1, l)
  <2>1. v \in Seq(Byte)
    BY <1>5 DEF ValuesOf
  <2>2. l \in 0..Len(v) /\ l \in Byte /\ l % Radix = l
    BY <1>1, <2>1, LengthOfString
  <2>3. FieldBytes(f, v) = <<l % Radix>> \o w
    BY <1>5 DEF FieldBytes, write_string
  <2>4. Shown(f, v) = w
    BY <1>5 DEF Shown
  <2> HIDE DEF l
  <2>5. w \in Seq(Byte) /\ Len(w) = l
    <3>1. Len(v) \in Nat /\ 1 \in 1..(Len(v) + 1)
      BY <2>1, OfSequence
    <3>2. w \in Seq(Byte) /\ Len(w) = IF 1 <= l THEN l - 1 + 1 ELSE 0
      BY <2>1, <2>2, <3>1, PartOf
    <3> HIDE DEF w
    <3> QED
      BY <2>2, <3>1, <3>2
  <2> HIDE DEF w
  <2> DEFINE b == <<l>> \o w
  <2>6. FieldBytes(f, v) = b
    BY <2>2, <2>3
  <2>7. b \in Seq(Byte) /\ Len(b) = 1 + l /\ b[1] = l /\ Tail(b) = w
    BY <2>2, <2>5, TailOf
  <2> HIDE DEF b
  <2>8. l \in Nat /\ b # <<>> /\ b[1] + 1 = Len(b)
    BY <2>2, <2>7, OfSequence, BytesAre
  <2>9. ValueOf(f, b) = Tail(b)
    BY <1>5 DEF ValueOf
  <2> QED
    BY <1>5, <2>4, <2>6, <2>7, <2>8, <2>9
<1>6. CASE f.kind = "rest"
  BY <1>6 DEF ValuesOf, FieldBytes, ValueOf, Shown
<1> QED
  BY <1>1, <1>2, <1>3, <1>4, <1>5, <1>6

MessageRead(ok, data, given) == [ok |-> ok, data |-> data, fields |-> given]

(* A field is read back from the front of the data, and nothing else is. *)
LEMMA FieldIsReadBack ==
    ASSUME NEW f \in FieldKinds, NEW v \in ValuesOf(f), NEW c \in Seq(Byte), NEW given,
           f.kind = "rest" => c = <<>>, f.kind = "string" => Utf8(Shown(f, v))
    PROVE  ReadField(MessageRead(TRUE, FieldBytes(f, v) \o c, given), f)
             = MessageRead(TRUE, c, Append(given, Shown(f, v)))
<1> DEFINE b == FieldBytes(f, v)
           s == b \o c
           n == Len(b)
<1>1. /\ b \in Seq(Byte) /\ ValueOf(f, b) = Shown(f, v)
      /\ f.kind \in {"unsigned", "signed", "flag"} => n = f.size
      /\ f.kind = "string" => b # <<>> /\ b[1] + 1 = n /\ Tail(b) = Shown(f, v)
      /\ f.kind \in {"unsigned", "signed", "flag", "string", "rest"}
  BY FieldIs, KindsAre
<1> HIDE DEF b
<1>2. /\ s \in Seq(Byte) /\ Len(s) = n + Len(c) /\ SubSeq(s, 1, n) = b
      /\ SubSeq(s, n + 1, Len(s)) = c /\ n \in Nat /\ Len(c) \in Nat /\ (n # 0 => s[1] = b[1])
  <2>1. /\ s \in Seq(Byte) /\ Len(s) = n + Len(c) /\ SubSeq(s, 1, n) = b
        /\ SubSeq(s, n + 1, Len(s)) = c
    BY <1>1, FrontOf
  <2>2. n \in Nat /\ Len(c) \in Nat
    BY <1>1, OfSequence
  <2>3. \A i \in 1..n : s[i] = b[i]
    BY <1>1, ConcatProperties
  <2> HIDE DEF s, n
  <2>4. n # 0 => s[1] = b[1]
    BY <2>2, <2>3
  <2> QED
    BY <2>1, <2>2, <2>4 DEF s
<1>3. f.kind = "string" => n # 0 /\ s # <<>>
  <2>1. f.kind = "string" => n # 0
    BY <1>1, OfSequence
  <2> HIDE DEF s, n
  <2>2. n # 0 => Len(s) # 0
    BY <1>2
  <2>3. Len(s) # 0 => s # <<>>
    OBVIOUS
  <2> QED
    BY <2>1, <2>2, <2>3
<1>3a. f.kind = "rest" => Len(s) = n
  <2>1. f.kind = "rest" => Len(c) = 0
    OBVIOUS
  <2> HIDE DEF s, n
  <2> QED
    BY <1>2, <2>1
<1> HIDE DEF s, n
<1>4. Taken(f, s) = n
  <2>1. CASE f.kind = "string"
    <3>1. Taken(f, s) = 1 + s[1]
      BY <1>3, <2>1 DEF Taken
    <3>2. b[1] \in Nat
      <4>1. Len(b) \in Nat /\ Len(b) # 0 /\ \A j \in 1..Len(b) : b[j] \in Byte
        BY <1>1, <2>1, OfSequence
      <4>2. 1 \in 1..Len(b)
        BY <4>1
      <4> QED
        BY <4>1, <4>2, BytesAre
    <3> QED
      BY <1>1, <1>2, <1>3, <2>1, <3>1, <3>2
  <2>2. CASE f.kind = "rest"
    BY <1>3a, <2>2 DEF Taken
  <2>3. CASE f.kind \in {"unsigned", "signed", "flag"}
    BY <1>1, <2>3 DEF Taken
  <2> QED
    BY <1>1, <2>1, <2>2, <2>3
<1>5. f.kind = "string" => SubSeq(s, 2, n) = Shown(f, v)
  <2>1. n # 0 => n \in 1..Len(s)
    BY <1>2
  <2>2. n # 0 => SubSeq(s, 2, n) = Tail(SubSeq(s, 1, n))
    BY <1>2, <2>1, FrontTail
  <2> QED
    BY <1>1, <1>2, <1>3, <2>2
<1>6. Readable(f, s)
  <2>1. n <= Len(s)
    BY <1>2
  <2> QED
    BY <1>4, <1>5, <2>1 DEF Readable
<1> DEFINE r == MessageRead(TRUE, s, given)
<1>7. r.ok /\ r.data = s /\ r.fields = given
  BY DEF MessageRead
<1> HIDE DEF r
<1>8. ReadField(r, f) = [ok |-> TRUE, data |-> SubSeq(s, n + 1, Len(s)),
                         fields |-> Append(given, ValueOf(f, SubSeq(s, 1, n)))]
  BY <1>4, <1>6, <1>7 DEF ReadField
<1>9. SubSeq(s, n + 1, Len(s)) = c /\ ValueOf(f, SubSeq(s, 1, n)) = Shown(f, v)
  BY <1>1, <1>2
<1> QED
  BY <1>8, <1>9 DEF MessageRead, r, s, b

----------------------------------------------------------------------------
(* The tables.                                                             *)

Layouts == {w \in Seq(FieldKinds) : \A i \in 1..(Len(w) - 1) : w[i].kind # "rest"}

LEMMA SomeKinds ==
    /\ U(1) \in FieldKinds /\ U(2) \in FieldKinds /\ U(4) \in FieldKinds /\ U(8) \in FieldKinds
    /\ I(2) \in FieldKinds /\ I(4) \in FieldKinds /\ Flag \in FieldKinds
    /\ Str(NameMax) \in FieldKinds /\ Str(ErrorMax) \in FieldKinds /\ Rest \in FieldKinds
  BY DEF FieldKinds

LEMMA NotRest ==
    /\ U(1).kind # "rest" /\ U(2).kind # "rest" /\ U(4).kind # "rest" /\ U(8).kind # "rest"
    /\ I(2).kind # "rest" /\ I(4).kind # "rest" /\ Flag.kind # "rest"
    /\ Str(NameMax).kind # "rest" /\ Str(ErrorMax).kind # "rest"
  BY DEF U, I, Flag, Str

LEMMA LayoutOf ==
    /\ <<>> \in Layouts
    /\ \A a \in FieldKinds : <<a>> \in Layouts
    /\ \A a, b \in FieldKinds : a.kind # "rest" => <<a, b>> \in Layouts
    /\ \A a, b, c \in FieldKinds :
          a.kind # "rest" /\ b.kind # "rest" => <<a, b, c>> \in Layouts
    /\ \A a, b, c, d \in FieldKinds :
          a.kind # "rest" /\ b.kind # "rest" /\ c.kind # "rest" => <<a, b, c, d>> \in Layouts
<1>1. <<>> \in Layouts
  BY DEF Layouts
<1>2. ASSUME NEW a \in FieldKinds PROVE <<a>> \in Layouts
  BY DEF Layouts
<1>3. ASSUME NEW a \in FieldKinds, NEW b \in FieldKinds, a.kind # "rest"
      PROVE  <<a, b>> \in Layouts
  BY <1>3 DEF Layouts
<1>4. ASSUME NEW a \in FieldKinds, NEW b \in FieldKinds, NEW c \in FieldKinds,
             a.kind # "rest", b.kind # "rest"
      PROVE  <<a, b, c>> \in Layouts
  BY <1>4 DEF Layouts
<1>5. ASSUME NEW a \in FieldKinds, NEW b \in FieldKinds, NEW c \in FieldKinds,
             NEW d \in FieldKinds, a.kind # "rest", b.kind # "rest", c.kind # "rest"
      PROVE  <<a, b, c, d>> \in Layouts
  BY <1>5 DEF Layouts
<1> QED
  BY <1>1, <1>2, <1>3, <1>4, <1>5

LEMMA LayoutIs ==
    ASSUME NEW t \in Types
    PROVE  Writes(t) \in Layouts /\ Reads(t) = Writes(t)
<1>1. t \in DOMAIN WritesInput => WritesInput[t] \in Layouts
  BY SomeKinds, NotRest, LayoutOf DEF WritesInput
<1>2. t \in DOMAIN WritesClip => WritesClip[t] \in Layouts
  BY SomeKinds, NotRest, LayoutOf DEF WritesClip
<1>3. t \in DOMAIN WritesSystem => WritesSystem[t] \in Layouts
  BY SomeKinds, NotRest, LayoutOf DEF WritesSystem
<1>4. t \in DOMAIN WritesShell => WritesShell[t] \in Layouts
  BY SomeKinds, NotRest, LayoutOf DEF WritesShell
<1>5. t \notin DOMAIN WritesInput /\ t \notin DOMAIN WritesClip /\ t \notin DOMAIN WritesSystem
        => t \in DOMAIN WritesShell
  BY DEF Types, Opcode, WritesInput, WritesClip, WritesSystem, WritesShell
<1>6. Writes(t) \in Layouts
  <2>1. CASE t \in DOMAIN WritesInput
    <3>1. Writes(t) = WritesInput[t]
      BY <2>1 DEF Writes, WritesInput, WritesClip, WritesSystem
    <3> QED
      BY <1>1, <2>1, <3>1
  <2>2. CASE t \in DOMAIN WritesClip
    <3>1. Writes(t) = WritesClip[t]
      BY <2>2 DEF Writes, WritesInput, WritesClip, WritesSystem
    <3> QED
      BY <1>2, <2>2, <3>1
  <2>3. CASE t \in DOMAIN WritesSystem
    <3>1. Writes(t) = WritesSystem[t]
      BY <2>3 DEF Writes, WritesInput, WritesClip, WritesSystem
    <3> QED
      BY <1>3, <2>3, <3>1
  <2>4. CASE t \notin DOMAIN WritesInput /\ t \notin DOMAIN WritesClip /\ t \notin DOMAIN WritesSystem
    <3>1. Writes(t) = WritesShell[t]
      BY <2>4 DEF Writes
    <3> QED
      BY <1>4, <1>5, <2>4, <3>1
  <2> QED
    BY <2>1, <2>2, <2>3, <2>4
<1>7. ReadsInput = WritesInput /\ ReadsClip = WritesClip
  BY DEF ReadsInput, ReadsClip, WritesInput, WritesClip
<1>8. ReadsSystem = WritesSystem /\ ReadsShell = WritesShell
  BY DEF ReadsSystem, ReadsShell, WritesSystem, WritesShell
<1>9. Reads(t) = Writes(t)
  BY <1>7, <1>8 DEF Reads, Writes
<1> QED
  BY <1>6, <1>9

(* What message an opcode is. *)
Named(v) ==
    CASE v < 32 ->
           (CASE v = 1 -> "Hello" [] v = 2 -> "HelloAck" [] v = 16 -> "MouseMove"
              [] v = 17 -> "MouseButton" [] v = 18 -> "MouseScroll" [] v = 19 -> "KeyDown"
              [] OTHER -> "KeyUp")
      [] v >= 32 /\ v < 64 ->
           (CASE v = 32 -> "ClipOffer" [] v = 33 -> "ClipChunk" [] v = 34 -> "ClipAck"
              [] v = 35 -> "ClipDecline" [] v = 48 -> "Heartbeat" [] v = 49 -> "Error"
              [] OTHER -> "Disconnect")
      [] v >= 64 /\ v < 71 ->
           (CASE v = 64 -> "ShellOpen" [] v = 65 -> "ShellInput" [] v = 66 -> "ShellOutput"
              [] v = 67 -> "ShellClose" [] v = 68 -> "ShellExit" [] v = 69 -> "ShellOpenPty"
              [] OTHER -> "PtyResize")
      [] OTHER ->
           (CASE v = 71 -> "ShellClosed" [] v = 72 -> "PtyOpen" [] v = 73 -> "PtyInput"
              [] v = 74 -> "PtyOutput" [] v = 75 -> "PtyClose" [] v = 76 -> "PtyExit"
              [] v = 77 -> "RxProgress" [] OTHER -> "Browser")

LEMMA OneName ==
    ASSUME NEW t \in Types PROVE TryFrom(Opcode[t]) = {t}
<1>1. /\ Named(Opcode.Hello) = "Hello" /\ Named(Opcode.HelloAck) = "HelloAck"
      /\ Named(Opcode.MouseMove) = "MouseMove" /\ Named(Opcode.MouseButton) = "MouseButton"
      /\ Named(Opcode.MouseScroll) = "MouseScroll" /\ Named(Opcode.KeyDown) = "KeyDown"
      /\ Named(Opcode.KeyUp) = "KeyUp"
  BY DEF Opcode, Named
<1>2. /\ Named(Opcode.ClipOffer) = "ClipOffer" /\ Named(Opcode.ClipChunk) = "ClipChunk"
      /\ Named(Opcode.ClipAck) = "ClipAck" /\ Named(Opcode.ClipDecline) = "ClipDecline"
      /\ Named(Opcode.Heartbeat) = "Heartbeat" /\ Named(Opcode.Error) = "Error"
      /\ Named(Opcode.Disconnect) = "Disconnect"
  BY DEF Opcode, Named
<1>3. /\ Named(Opcode.ShellOpen) = "ShellOpen" /\ Named(Opcode.ShellInput) = "ShellInput"
      /\ Named(Opcode.ShellOutput) = "ShellOutput" /\ Named(Opcode.ShellClose) = "ShellClose"
      /\ Named(Opcode.ShellExit) = "ShellExit" /\ Named(Opcode.ShellOpenPty) = "ShellOpenPty"
      /\ Named(Opcode.PtyResize) = "PtyResize"
  BY DEF Opcode, Named
<1>4. /\ Named(Opcode.ShellClosed) = "ShellClosed" /\ Named(Opcode.PtyOpen) = "PtyOpen"
      /\ Named(Opcode.PtyInput) = "PtyInput" /\ Named(Opcode.PtyOutput) = "PtyOutput"
      /\ Named(Opcode.PtyClose) = "PtyClose" /\ Named(Opcode.PtyExit) = "PtyExit"
      /\ Named(Opcode.RxProgress) = "RxProgress" /\ Named(Opcode.Browser) = "Browser"
  BY DEF Opcode, Named
<1>5. Types = {"Hello", "HelloAck", "MouseMove", "MouseButton", "MouseScroll", "KeyDown", "KeyUp",
               "ClipOffer", "ClipChunk", "ClipAck", "ClipDecline", "Heartbeat", "Error", "Disconnect",
               "ShellOpen", "ShellInput", "ShellOutput", "ShellClose", "ShellExit", "ShellOpenPty",
               "PtyResize", "ShellClosed", "PtyOpen", "PtyInput", "PtyOutput", "PtyClose", "PtyExit",
               "RxProgress", "Browser"}
  BY DEF Types, Opcode
<1>6. \A u \in Types : Named(Opcode[u]) = u
  BY <1>1, <1>2, <1>3, <1>4, <1>5
<1> QED
  BY <1>6 DEF TryFrom

----------------------------------------------------------------------------
(* Whole messages.                                                         *)

AnyValue == UNION {ValuesOf(f) : f \in FieldKinds}

(* Fields a message of this kind can have. *)
FieldsOf(t) ==
    {given \in Seq(AnyValue) :
       /\ Len(given) = Len(Writes(t))
       /\ \A i \in 1..Len(given) : given[i] \in ValuesOf(Writes(t)[i])}

LEMMA JoinFrom ==
    ASSUME NEW a \in Seq(Byte), NEW c \in Seq(Seq(Byte))
    PROVE  Run("join", a, c) = a \o Run("join", <<>>, c) /\ Run("join", <<>>, c) \in Seq(Byte)
<1> DEFINE J(x) == Run("join", <<>>, x)
           T == {x \in Seq(Seq(Byte)) : J(x) \in Seq(Byte) /\ Run("join", a, x) = a \o J(x)}
<1>1. <<>> \in T
  <2>1. J(<<>>) = <<>> /\ Run("join", a, <<>>) = a
    BY RunOfNothing
  <2>2. a \o <<>> = a
    BY ConcatEmptySeq
  <2> HIDE DEF J
  <2>3. <<>> \in Seq(Byte) /\ <<>> \in Seq(Seq(Byte))
    OBVIOUS
  <2> QED
    BY <2>1, <2>2, <2>3
<1>2. ASSUME NEW x \in T, NEW b \in Seq(Byte) PROVE Append(x, b) \in T
  <2>1. x \in Seq(Seq(Byte)) /\ J(x) \in Seq(Byte) /\ Run("join", a, x) = a \o J(x)
    OBVIOUS
  <2>2. /\ Run("join", a, Append(x, b)) = Fed("join", Run("join", a, x), b)
        /\ J(Append(x, b)) = Fed("join", J(x), b)
    BY <2>1, RunAppend
  <2> HIDE DEF J
  <2>3. Run("join", a, Append(x, b)) = (a \o J(x)) \o b /\ J(Append(x, b)) = J(x) \o b
    BY <2>1, <2>2 DEF Fed
  <2>4. (a \o J(x)) \o b = a \o (J(x) \o b) /\ J(x) \o b \in Seq(Byte)
    BY <2>1, ConcatAssociative, ConcatProperties
  <2>5. Append(x, b) \in Seq(Seq(Byte))
    BY <2>1, AppendProperties
  <2> QED
    BY <2>3, <2>4, <2>5
<1>3. c \in T
  <2>1. T \in SUBSET Seq(Seq(Byte))
    OBVIOUS
  <2> HIDE DEF T
  <2> QED
    BY <1>1, <1>2, <2>1, EverySequence
<1> QED
  BY <1>3

LEMMA RunOne ==
    ASSUME NEW how, NEW base, NEW S, NEW b \in S
    PROVE  Run(how, base, <<b>>) = Fed(how, base, b)
<1>1. \A e \in Seq(S) : Run(how, base, Append(e, b)) = Fed(how, Run(how, base, e), b)
  BY RunAppend
<1>2. <<>> \in Seq(S) /\ Append(<<>>, b) = <<b>>
  OBVIOUS
<1>3. Run(how, base, Append(<<>>, b)) = Fed(how, Run(how, base, <<>>), b)
  BY <1>1, <1>2, Zenon
<1>4. Run(how, base, <<>>) = base
  BY RunOfNothing
<1>5. Run(how, base, Append(<<>>, b)) = Run(how, base, <<b>>)
  BY <1>2, Zenon
<1> QED
  BY <1>3, <1>4, <1>5, Zenon

(* What stands on the wire from field k + 1 on begins with that field. *)
LEMMA JoinFirst ==
    ASSUME NEW pieces \in Seq(Seq(Byte)), NEW k \in 0..(Len(pieces) - 1)
    PROVE  Run("join", <<>>, SubSeq(pieces, k + 1, Len(pieces)))
             = pieces[k + 1] \o Run("join", <<>>, SubSeq(pieces, (k + 1) + 1, Len(pieces)))
<1> DEFINE n == Len(pieces)
           h == pieces[k + 1]
           c == SubSeq(pieces, (k + 1) + 1, n)
<1>1. n \in Nat /\ h \in Seq(Byte) /\ k + 1 \in 1..n /\ n \in (k + 1)..n
  BY OfSequence
<1>2. SubSeq(pieces, k + 1, n) = <<h>> \o c
  BY <1>1, SubSeqRecursiveFirst
<1>3. c \in Seq(Seq(Byte))
  <2>1. (k + 1) + 1 \in 1..(n + 1) /\ n \in 0..n
    BY <1>1
  <2> QED
    BY <2>1, PartOf
<1> HIDE DEF n, h, c
<1>4. Run("join", <<>>, <<h>>) = h
  <2>1. Run("join", <<>>, <<h>>) = Fed("join", <<>>, h)
    BY <1>1, RunOne
  <2>2. <<>> \o h = h
    BY <1>1, ConcatEmptySeq
  <2> QED
    BY <2>1, <2>2 DEF Fed
<1> DEFINE o == <<h>>
<1>5. o \in Seq(Seq(Byte))
  BY <1>1, OneCharacter
<1> HIDE DEF o
<1>6. Run("join", <<>>, o \o c) = Run("join", Run("join", <<>>, o), c)
  BY <1>3, <1>5, RunConcat
<1>7. Run("join", h, c) = h \o Run("join", <<>>, c)
  BY <1>1, <1>3, JoinFrom
<1> QED
  BY <1>2, <1>4, <1>6, <1>7 DEF n, h, c, o

LEMMA FieldShown ==
    ASSUME NEW f \in FieldKinds, NEW v \in ValuesOf(f)
    PROVE  Shown(f, v) \in ValuesOf(f)
<1>1. CASE f.kind = "string"
  <2>1. v \in Seq(Byte) /\ f.size \in Nat
    BY <1>1, KindsAre DEF ValuesOf
  <2>2. StringLength(v, f.size) \in 0..Len(v) /\ 1 \in 1..(Len(v) + 1)
    BY <2>1, LengthOfString, OfSequence
  <2>3. SubSeq(v, 1, StringLength(v, f.size)) \in Seq(Byte)
    BY <2>1, <2>2, PartOf
  <2> QED
    BY <1>1, <2>3 DEF Shown, ValuesOf
<1>2. CASE f.kind # "string"
  BY <1>2 DEF Shown
<1> QED
  BY <1>1, <1>2

Cuts(t, given) == [i \in DOMAIN given |-> Shown(Writes(t)[i], given[i])]

LEMMA CutsAre ==
    ASSUME NEW t \in Types, NEW given \in FieldsOf(t)
    PROVE  /\ Cuts(t, given) \in FieldsOf(t) /\ Len(Cuts(t, given)) = Len(given)
           /\ \A i \in 1..Len(given) : Cuts(t, given)[i] = Shown(Writes(t)[i], given[i])
<1> DEFINE w == Writes(t)
           n == Len(w)
           c == Cuts(t, given)
<1>1. w \in Seq(FieldKinds) /\ n \in Nat /\ \A i \in 1..n : w[i] \in FieldKinds
  <2>1. w \in Seq(FieldKinds)
    BY LayoutIs DEF Layouts
  <2> QED
    BY <2>1, OfSequence
<1>2. /\ given \in Seq(AnyValue) /\ Len(given) = n /\ DOMAIN given = 1..n
      /\ \A i \in 1..n : given[i] \in ValuesOf(w[i])
  BY OfSequence DEF FieldsOf
<1> HIDE DEF w, n
<1>3. \A i \in 1..n : Shown(w[i], given[i]) \in ValuesOf(w[i])
  BY <1>1, <1>2, FieldShown
<1>4. \A i \in 1..n : ValuesOf(w[i]) \subseteq AnyValue
  BY <1>1 DEF AnyValue
<1>5. c = [i \in 1..n |-> Shown(w[i], given[i])]
  BY <1>2 DEF Cuts, w
<1> HIDE DEF c
<1>6. c \in [1..n -> AnyValue]
  BY <1>3, <1>4, <1>5
<1>7. c \in Seq(AnyValue) /\ Len(c) = n
  BY <1>1, <1>6, IsSequence
<1>8. \A i \in 1..n : c[i] = Shown(w[i], given[i])
  BY <1>5
<1>9. c \in FieldsOf(t)
  BY <1>3, <1>7, <1>8 DEF FieldsOf, w, n
<1> QED
  BY <1>2, <1>7, <1>8, <1>9 DEF w, c

LEMMA MoreOf ==
    ASSUME NEW W, NEW s \in Seq(W), NEW k \in 0..(Len(s) - 1)
    PROVE  Append(SubSeq(s, 1, k), s[k + 1]) = SubSeq(s, 1, k + 1)
<1> DEFINE a == SubSeq(s, 1, k)
           e == SubSeq(s, 1, k + 1)
           x == Append(a, s[k + 1])
<1>1. Len(s) \in Nat /\ k \in Nat /\ 1 \in 1..(Len(s) + 1) /\ k \in 0..Len(s)
      /\ k + 1 \in 0..Len(s) /\ s[k + 1] \in W
  BY OfSequence
<1>2. /\ a \in Seq(W) /\ Len(a) = IF 1 <= k THEN k - 1 + 1 ELSE 0
      /\ \A j \in 1..Len(a) : 1 + j - 1 \in 1..k /\ a[j] = s[1 + j - 1]
  BY <1>1, PartOf
<1>3. /\ e \in Seq(W) /\ Len(e) = IF 1 <= k + 1 THEN (k + 1) - 1 + 1 ELSE 0
      /\ \A j \in 1..Len(e) : 1 + j - 1 \in 1..(k + 1) /\ e[j] = s[1 + j - 1]
  BY <1>1, PartOf
<1> HIDE DEF a, e
<1>4. Len(a) = k /\ Len(e) = k + 1 /\ \A j \in 1..(k + 1) : 1 + j - 1 = j
  BY <1>1, <1>2, <1>3
<1>5. x \in Seq(W) /\ Len(x) = k + 1 /\ x[k + 1] = s[k + 1] /\ \A j \in 1..k : x[j] = a[j]
  BY <1>1, <1>2, <1>4, AppendProperties
<1> HIDE DEF x
<1>6. \A j \in 1..(k + 1) : x[j] = e[j]
  <2> SUFFICES ASSUME NEW j \in 1..(k + 1) PROVE x[j] = e[j]
    OBVIOUS
  <2>1. e[j] = s[j]
    BY <1>3, <1>4
  <2>2. CASE j = k + 1
    BY <1>5, <2>1, <2>2
  <2>3. CASE j \in 1..k
    BY <1>2, <1>4, <1>5, <2>1, <2>3
  <2> QED
    BY <1>1, <2>2, <2>3
<1>7. x = e
  BY <1>3, <1>4, <1>5, <1>6, SeqEqual
<1> QED
  BY <1>7 DEF x, a, e

PiecesOf(t, given) == [i \in DOMAIN given |-> FieldBytes(Writes(t)[i], given[i])]

LEMMA PiecesAre ==
    ASSUME NEW t \in Types, NEW given \in FieldsOf(t)
    PROVE  /\ PiecesOf(t, given) \in Seq(Seq(Byte)) /\ Len(PiecesOf(t, given)) = Len(given)
           /\ \A i \in 1..Len(given) :
                PiecesOf(t, given)[i] = FieldBytes(Writes(t)[i], given[i])
           /\ serialize(t, given) = Run("join", <<>>, PiecesOf(t, given))
           /\ serialize(t, given) \in Seq(Byte)
<1> DEFINE w == Writes(t)
           n == Len(w)
           p == PiecesOf(t, given)
<1>1. w \in Seq(FieldKinds) /\ n \in Nat /\ \A i \in 1..n : w[i] \in FieldKinds
  <2>1. w \in Seq(FieldKinds)
    BY LayoutIs DEF Layouts
  <2> QED
    BY <2>1, OfSequence
<1>2. /\ given \in Seq(AnyValue) /\ Len(given) = n /\ DOMAIN given = 1..n
      /\ \A i \in 1..n : given[i] \in ValuesOf(w[i])
  BY OfSequence DEF FieldsOf
<1> HIDE DEF w, n
<1>3. \A i \in 1..n : FieldBytes(w[i], given[i]) \in Seq(Byte)
  BY <1>1, <1>2, FieldIs
<1>4. p = [i \in 1..n |-> FieldBytes(w[i], given[i])]
  BY <1>2 DEF PiecesOf, w
<1>5. p \in [1..n -> Seq(Byte)]
  BY <1>3, <1>4
<1>6. p \in Seq(Seq(Byte)) /\ Len(p) = n /\ DOMAIN p = 1..Len(p)
  BY <1>1, <1>5, IsSequence
<1>7. serialize(t, given) = FoldLeft(LAMBDA payload, bytes : payload \o bytes, <<>>, p)
  BY DEF serialize, PiecesOf
<1> HIDE DEF p
<1>8. FoldLeft(LAMBDA payload, bytes : payload \o bytes, <<>>, p) = Run("join", <<>>, p)
  BY <1>6 DEF FoldLeft, MapThenFoldSet, Run, Iterates, Turn, Fed
<1>9. Run("join", <<>>, p) \in Seq(Byte)
  <2>1. <<>> \in Seq(Byte)
    OBVIOUS
  <2> QED
    BY <1>6, <2>1, JoinFrom
<1>10. \A i \in 1..n : p[i] = FieldBytes(w[i], given[i])
  BY <1>4
<1> QED
  BY <1>2, <1>6, <1>7, <1>8, <1>9, <1>10 DEF p, w

ReadAll(t, data) == FoldLeft(ReadField, MessageRead(TRUE, data, <<>>), Reads(t))

LEMMA ReadRuns ==
    ASSUME NEW t \in Types, NEW data
    PROVE  ReadAll(t, data) = Run("read", MessageRead(TRUE, data, <<>>), Writes(t))
<1> DEFINE w == Writes(t)
           r == MessageRead(TRUE, data, <<>>)
<1>1. w \in Seq(FieldKinds) /\ Reads(t) = w
  BY LayoutIs DEF Layouts
<1> HIDE DEF w, r
<1>2. DOMAIN w = 1..Len(w)
  BY <1>1
<1>3. FoldLeft(ReadField, r, w) = Run("read", r, w)
  BY <1>2 DEF FoldLeft, MapThenFoldSet, Run, Iterates, Turn, Fed
<1> QED
  BY <1>1, <1>3 DEF ReadAll, w, r

Whole(t, given) ==
    \A i \in 1..Len(given) :
       Writes(t)[i].kind = "string" => Utf8(Shown(Writes(t)[i], given[i]))

(* Behind k fields the reader has the first k and stands in front of the   *)
(* bytes of the others.                                                    *)
LEMMA FieldsAreReadBack ==
    ASSUME NEW t \in Types, NEW given \in FieldsOf(t), Whole(t, given)
    PROVE  ReadAll(t, serialize(t, given)) = MessageRead(TRUE, <<>>, Cuts(t, given))
<1> DEFINE w == Writes(t)
           n == Len(w)
           p == PiecesOf(t, given)
           c == Cuts(t, given)
           data == serialize(t, given)
           r == MessageRead(TRUE, data, <<>>)
           Left(k) == Run("join", <<>>, SubSeq(p, k + 1, n))
<1>1. /\ w \in Seq(FieldKinds) /\ n \in Nat /\ \A i \in 1..n : w[i] \in FieldKinds
      /\ \A i \in 1..n : w[i].kind = "rest" => i = n
  <2>1. w \in Layouts
    BY LayoutIs
  <2> HIDE DEF w
  <2>2. w \in Seq(FieldKinds) /\ n \in Nat /\ \A i \in 1..n : w[i] \in FieldKinds
    BY <2>1, OfSequence DEF Layouts
  <2>3. \A i \in 1..(n - 1) : w[i].kind # "rest"
    BY <2>1 DEF Layouts
  <2> QED
    BY <2>2, <2>3
<1>2. Len(given) = n /\ \A i \in 1..n : given[i] \in ValuesOf(w[i])
  BY DEF FieldsOf
<1>3. /\ c \in Seq(AnyValue) /\ Len(c) = n
      /\ \A i \in 1..n : c[i] = Shown(w[i], given[i])
  BY <1>2, CutsAre DEF FieldsOf
<1>4. /\ p \in Seq(Seq(Byte)) /\ Len(p) = n /\ \A i \in 1..n : p[i] = FieldBytes(w[i], given[i])
      /\ data = Run("join", <<>>, p)
  BY <1>2, PiecesAre
<1>5. \A i \in 1..n : w[i].kind = "string" => Utf8(Shown(w[i], given[i]))
  BY <1>2 DEF Whole
<1>6. ReadAll(t, data) = Run("read", r, w)
  BY ReadRuns
<1> HIDE DEF w, n, p, c, data
<1>7. \A k \in 0..(n - 1) : Left(k) = p[k + 1] \o Left(k + 1)
  BY <1>4, JoinFirst
<1>8. Left(0) = data
  <2>1. SubSeq(p, 1, n) = p
    BY <1>4, SubSeqFull
  <2>2. 0 + 1 = 1
    OBVIOUS
  <2> QED
    BY <1>4, <2>1, <2>2
<1>9. Left(n) = <<>>
  <2>1. SubSeq(p, n + 1, n) = <<>>
    BY <1>1, <1>4, SubSeqEmpty
  <2> QED
    BY <2>1, RunOfNothing
<1>10. \A k \in 0..n : Left(k) \in Seq(Byte)
  <2> SUFFICES ASSUME NEW k \in 0..n PROVE Left(k) \in Seq(Byte)
    OBVIOUS
  <2>1. k + 1 \in 1..(Len(p) + 1) /\ n \in 0..Len(p)
    BY <1>1, <1>4
  <2>2. SubSeq(p, k + 1, n) \in Seq(Seq(Byte))
    BY <1>4, <2>1, PartOf
  <2>3. <<>> \in Seq(Byte)
    OBVIOUS
  <2> QED
    BY <2>2, <2>3, JoinFrom
<1> HIDE DEF Left, r
<1>11. PICK it : Stepping(it, "read", r, w, n) /\ Run("read", r, w) = it[1..n]
  BY <1>1, RunIterates DEF n
<1>12. it[{}] = r /\ \A k \in 1..n : it[1..k] = ReadField(it[1..(k - 1)], w[k])
  BY <1>11 DEF Stepping, Fed
<1> DEFINE T == {k \in Nat : k <= n => it[1..k] = MessageRead(TRUE, Left(k), SubSeq(c, 1, k))}
<1>13. 0 \in T
  <2>1. 1..0 = {} /\ SubSeq(c, 1, 0) = <<>>
    BY <1>3, SubSeqEmpty
  <2>2. it[1..0] = MessageRead(TRUE, Left(0), SubSeq(c, 1, 0))
    BY <1>8, <1>12, <2>1 DEF r
  <2> QED
    BY <2>2
<1>14. ASSUME NEW k \in T PROVE k + 1 \in T
  <2>0. k + 1 \in Nat
    OBVIOUS
  <2> SUFFICES ASSUME k + 1 <= n
               PROVE  it[1..(k + 1)] = MessageRead(TRUE, Left(k + 1), SubSeq(c, 1, k + 1))
    BY <2>0, Zenon
  <2>1. /\ k \in Nat /\ k <= n /\ k + 1 \in 1..n /\ (k + 1) - 1 = k /\ k \in 0..(n - 1)
        /\ k + 1 \in 0..n
    BY <1>1
  <2> DEFINE f == w[k + 1]
             v == given[k + 1]
             l == Left(k + 1)
             h == SubSeq(c, 1, k)
  <2>2. f \in FieldKinds /\ v \in ValuesOf(f) /\ l \in Seq(Byte)
        /\ (f.kind = "string" => Utf8(Shown(f, v)))
    BY <1>1, <1>2, <1>5, <1>10, <2>1
  <2>3. f.kind = "rest" => l = <<>>
    BY <1>1, <1>9, <2>1
  <2>4. it[1..(k + 1)] = ReadField(it[1..k], f)
    BY <1>12, <2>1
  <2>5. it[1..k] = MessageRead(TRUE, Left(k), h)
    BY <2>1
  <2>6. Left(k) = FieldBytes(f, v) \o l
    BY <1>4, <1>7, <2>1
  <2>7. Append(h, Shown(f, v)) = SubSeq(c, 1, k + 1)
    BY <1>3, <2>1, MoreOf
  <2> HIDE DEF f, v, l, h
  <2>8. ReadField(MessageRead(TRUE, FieldBytes(f, v) \o l, h), f) = MessageRead(TRUE, l, Append(h, Shown(f, v)))
    BY <2>2, <2>3, FieldIsReadBack
  <2> QED
    BY <2>4, <2>5, <2>6, <2>7, <2>8 DEF l
<1>15. n \in T
  <2>1. T \in SUBSET Nat
    OBVIOUS
  <2> HIDE DEF T
  <2> QED
    BY <1>1, <1>13, <1>14, <2>1, EveryNatural
<1>16. it[1..n] = MessageRead(TRUE, Left(n), SubSeq(c, 1, n))
  <2>1. n <= n
    BY <1>1
  <2> QED
    BY <1>15, <2>1, Zenon
<1>17. SubSeq(c, 1, n) = c
  BY <1>3, SubSeqFull
<1> QED
  BY <1>6, <1>9, <1>11, <1>16, <1>17 DEF c, data

LEMMA ShellNeverEmpty ==
    ASSUME NEW given \in FieldsOf("ShellOpen")
    PROVE  serialize("ShellOpen", given) # <<>>
<1> DEFINE t == "ShellOpen"
           p == PiecesOf(t, given)
           x == Run("join", <<>>, SubSeq(p, (0 + 1) + 1, Len(p)))
           f == Str(NameMax)
<1>1. t \in Types /\ Writes(t) = <<f>>
  BY DEF Types, Opcode, Writes, WritesInput, WritesClip, WritesSystem, WritesShell
<1>2. Len(given) = 1 /\ given[1] \in ValuesOf(f)
  <2>1. Len(<<f>>) = 1 /\ <<f>>[1] = f
    OBVIOUS
  <2> QED
    BY <1>1, <2>1 DEF FieldsOf
<1>3. p \in Seq(Seq(Byte)) /\ Len(p) = 1 /\ p[1] = FieldBytes(f, given[1])
      /\ serialize(t, given) = Run("join", <<>>, p)
  <2>1. <<f>>[1] = f
    OBVIOUS
  <2> QED
    BY <1>1, <1>2, <2>1, PiecesAre
<1> HIDE DEF p
<1>4. 0 \in 0..(Len(p) - 1) /\ SubSeq(p, 0 + 1, Len(p)) = p /\ 0 + 1 = 1
  BY <1>3, SubSeqFull
<1>5. Run("join", <<>>, SubSeq(p, 0 + 1, Len(p))) = p[0 + 1] \o x
  BY <1>3, <1>4, JoinFirst
<1>6. Run("join", <<>>, p) = p[1] \o x
  BY <1>4, <1>5
<1>7. x \in Seq(Byte)
  <2>1. (0 + 1) + 1 \in 1..(Len(p) + 1) /\ Len(p) \in 0..Len(p)
    BY <1>3
  <2>2. SubSeq(p, (0 + 1) + 1, Len(p)) \in Seq(Seq(Byte)) /\ <<>> \in Seq(Byte)
    BY <1>3, <2>1, PartOf
  <2> QED
    BY <2>2, JoinFrom
<1> HIDE DEF x
<1>8. f \in FieldKinds /\ f.kind = "string"
  BY DEF FieldKinds, Str
<1>9. p[1] \in Seq(Byte) /\ p[1] # <<>>
  BY <1>2, <1>3, <1>8, FieldIs
<1>10. Len(p[1] \o x) = Len(p[1]) + Len(x) /\ Len(p[1]) \in Nat /\ Len(p[1]) # 0 /\ Len(x) \in Nat
  BY <1>7, <1>9, ConcatProperties, OfSequence
<1>11. Len(p[1] \o x) # 0
  BY <1>10
<1> QED
  BY <1>3, <1>6, <1>11

LEMMA FourBytes ==
    ASSUME NEW given \in FieldsOf("PtyResize")
    PROVE  Len(serialize("PtyResize", given)) = 4
<1> DEFINE t == "PtyResize"
           p == PiecesOf(t, given)
           x == Run("join", <<>>, SubSeq(p, (0 + 1) + 1, Len(p)))
           y == Run("join", <<>>, SubSeq(p, (1 + 1) + 1, Len(p)))
           f == U(2)
<1>1. t \in Types /\ Writes(t) = <<f, f>>
  BY DEF Types, Opcode, Writes, WritesInput, WritesClip, WritesSystem, WritesShell
<1>1a. Len(<<f, f>>) = 2 /\ <<f, f>>[1] = f /\ <<f, f>>[2] = f
  OBVIOUS
<1>2. Len(given) = 2 /\ given[1] \in ValuesOf(f) /\ given[2] \in ValuesOf(f)
  BY <1>1, <1>1a DEF FieldsOf
<1>3. p \in Seq(Seq(Byte)) /\ Len(p) = 2 /\ p[1] = FieldBytes(f, given[1])
      /\ p[2] = FieldBytes(f, given[2]) /\ serialize(t, given) = Run("join", <<>>, p)
  BY <1>1, <1>1a, <1>2, PiecesAre
<1> HIDE DEF p
<1>4. /\ 0 \in 0..(Len(p) - 1) /\ 1 \in 0..(Len(p) - 1) /\ SubSeq(p, 0 + 1, Len(p)) = p
      /\ 0 + 1 = 1 /\ 1 + 1 = 2 /\ (0 + 1) + 1 = 1 + 1
  BY <1>3, SubSeqFull
<1>5. Run("join", <<>>, SubSeq(p, 0 + 1, Len(p))) = p[0 + 1] \o x
  BY <1>3, <1>4, JoinFirst
<1>6. Run("join", <<>>, SubSeq(p, 1 + 1, Len(p))) = p[1 + 1] \o y
  BY <1>3, <1>4, JoinFirst
<1>7. Run("join", <<>>, p) = p[1] \o x /\ x = p[2] \o y
  BY <1>4, <1>5, <1>6
<1>8. y = <<>>
  <2>1. SubSeq(p, (1 + 1) + 1, Len(p)) = <<>>
    BY <1>3, SubSeqEmpty
  <2> QED
    BY <2>1, RunOfNothing
<1> HIDE DEF x, y
<1>9. f \in FieldKinds /\ f.kind = "unsigned" /\ f.size = 2
  BY DEF FieldKinds, U
<1>10. p[1] \in Seq(Byte) /\ Len(p[1]) = 2 /\ p[2] \in Seq(Byte) /\ Len(p[2]) = 2
  BY <1>2, <1>3, <1>9, FieldIs
<1>11. x = p[2]
  BY <1>7, <1>8, <1>10, ConcatEmptySeq
<1>12. Len(p[1] \o p[2]) = Len(p[1]) + Len(p[2])
  BY <1>10, ConcatProperties
<1>13. serialize(t, given) = p[1] \o p[2]
  BY <1>3, <1>7, <1>11, Zenon
<1> HIDE DEF t
<1>14. Len(serialize(t, given)) = 2 + 2
  BY <1>10, <1>12, <1>13
<1> QED
  BY <1>14 DEF t

(***************************************************************************)
(* Every message is read back as it was written, whatever its numbers and   *)
(* its data, and no other message has its opcode.                           *)
(***************************************************************************)
THEOREM MessagesArrive ==
    ASSUME NEW t \in Types, NEW given \in FieldsOf(t)
    PROVE  Arrives(t, given)
<1> DEFINE w == Writes(t)
           cut == Cuts(t, given)
           payload == serialize(t, given)
           valid == t = "Browser" => ValidBrowser(given[1], given[2], given[3], given[4])
           whole == \A i \in DOMAIN given : w[i].kind = "string" => Utf8(cut[i])
<1>1. TryFrom(Opcode[t]) = {t}
  BY OneName
<1>2. /\ cut \in FieldsOf(t) /\ Len(cut) = Len(given) /\ DOMAIN given = 1..Len(given)
      /\ \A i \in 1..Len(given) : cut[i] = Shown(w[i], given[i])
  <2>1. DOMAIN given = 1..Len(given)
    BY OfSequence DEF FieldsOf
  <2> QED
    BY <2>1, CutsAre
<1>3. Arrives(t, given) =
        (/\ TryFrom(Opcode[t]) = {t}
         /\ valid /\ whole => deserialize(t, payload) = [ok |-> TRUE, fields |-> cut])
  BY DEF Arrives, Cuts, Shown, StringLength
<1>4. ASSUME valid, whole
      PROVE  deserialize(t, payload) = [ok |-> TRUE, fields |-> cut]
  <2>1. Whole(t, given)
    BY <1>2, <1>4 DEF Whole
  <2>2. ReadAll(t, payload) = MessageRead(TRUE, <<>>, cut)
    BY <2>1, FieldsAreReadBack
  <2>3. ~(t = "ShellOpen" /\ payload = <<>>)
    BY ShellNeverEmpty
  <2>4. t = "PtyResize" => Len(payload) = 4
    BY FourBytes
  <2>5. t = "Browser" => ValidBrowser(cut[1], cut[2], cut[3], cut[4])
    <3> SUFFICES ASSUME t = "Browser" PROVE ValidBrowser(cut[1], cut[2], cut[3], cut[4])
      OBVIOUS
    <3>1. w = <<U(4), U(1), U(8), Rest>>
      BY DEF Writes, WritesInput, WritesClip, WritesSystem
    <3>2. Len(given) = 4
      BY <3>1 DEF FieldsOf
    <3>3. \A i \in 1..4 : w[i].kind # "string"
      BY <3>1 DEF U, Rest
    <3>4. cut[1] = given[1] /\ cut[2] = given[2] /\ cut[3] = given[3] /\ cut[4] = given[4]
      BY <1>2, <3>2, <3>3 DEF Shown
    <3> QED
      BY <1>4, <3>4
  <2> HIDE DEF payload, cut
  <2> DEFINE r == FoldLeft(ReadField, [ok |-> TRUE, data |-> payload, fields |-> <<>>], Reads(t))
  <2>6. r = MessageRead(TRUE, <<>>, cut)
    BY <2>2 DEF ReadAll, MessageRead
  <2>7. deserialize(t, payload)
          = [ok |-> /\ r.ok
                    /\ t = "PtyResize" => Len(payload) = 4
                    /\ t = "Browser" =>
                         ValidBrowser(r.fields[1], r.fields[2], r.fields[3], r.fields[4]),
             fields |-> r.fields]
    BY <2>3 DEF deserialize
  <2> HIDE DEF r
  <2>8. r.ok = TRUE /\ r.fields = cut
    BY <2>6 DEF MessageRead
  <2> QED
    BY <2>4, <2>5, <2>7, <2>8
<1> QED
  BY <1>1, <1>3, <1>4

(* What is read of a field is a value of the field. *)
LEMMA ReadIsTyped ==
    ASSUME NEW f \in FieldKinds, NEW data \in Seq(Byte), Readable(f, data)
    PROVE  /\ ValueOf(f, SubSeq(data, 1, Taken(f, data))) \in ValuesOf(f)
           /\ SubSeq(data, Taken(f, data) + 1, Len(data)) \in Seq(Byte)
<1> DEFINE n == Taken(f, data)
           b == SubSeq(data, 1, n)
<1>1. f.size \in Nat /\ f.kind \in {"unsigned", "signed", "flag", "string", "rest"}
      /\ (f.kind = "flag" => f.size = 1)
  BY KindsAre
<1>2. n <= Len(data) /\ Len(data) \in Nat
  BY OfSequence DEF Readable
<1>3. n \in Nat /\ (f.kind = "string" => n > 0)
      /\ (f.kind \in {"unsigned", "signed", "flag"} => n = f.size)
  <2>1. CASE f.kind = "string"
    <3>1. CASE data = <<>>
      BY <2>1, <3>1 DEF Taken
    <3>2. CASE data # <<>>
      <4>1. data[1] \in Nat
        <5>1. 1 \in 1..Len(data) /\ \A j \in 1..Len(data) : data[j] \in Byte
          BY <1>2, <3>2, OfSequence
        <5> QED
          BY <5>1, BytesAre
      <4> QED
        BY <2>1, <3>2, <4>1 DEF Taken
    <3> QED
      BY <3>1, <3>2
  <2>2. CASE f.kind = "rest"
    BY <1>2, <2>2 DEF Taken
  <2>3. CASE f.kind \in {"unsigned", "signed", "flag"}
    BY <1>1, <2>3 DEF Taken
  <2> QED
    BY <1>1, <2>1, <2>2, <2>3
<1> HIDE DEF n
<1>4. b \in Seq(Byte) /\ Len(b) = n
  <2>1. 1 \in 1..(Len(data) + 1) /\ n \in 0..Len(data)
    BY <1>2, <1>3
  <2>2. b \in Seq(Byte) /\ Len(b) = IF 1 <= n THEN n - 1 + 1 ELSE 0
    BY <2>1, PartOf
  <2> HIDE DEF b
  <2> QED
    BY <1>3, <2>2
<1>5. SubSeq(data, n + 1, Len(data)) \in Seq(Byte)
  <2>1. n + 1 \in 1..(Len(data) + 1) /\ Len(data) \in 0..Len(data)
    BY <1>2, <1>3
  <2> QED
    BY <2>1, PartOf
<1> HIDE DEF b
<1>6. ValueOf(f, b) \in ValuesOf(f)
  <2>1. CASE f.kind = "unsigned"
    <3>1. from_le_bytes(b) \in 0..(Span(f.size) - 1)
      BY <1>3, <1>4, <2>1, NumberOf
    <3> QED
      BY <2>1, <3>1 DEF ValueOf, ValuesOf
  <2>2. CASE f.kind = "signed"
    <3>1. from_le_bytes(b) \in 0..(Span(f.size) - 1)
      BY <1>3, <1>4, <2>2, NumberOf
    <3>2. ToSigned(from_le_bytes(b), f.size)
            \in ((Span(f.size) \div 2) - Span(f.size))..((Span(f.size) \div 2) - 1)
      BY <1>1, <3>1, SignOf
    <3>3. ValueOf(f, b) = ToSigned(from_le_bytes(b), f.size)
      BY <2>2 DEF ValueOf
    <3>4. ValuesOf(f) = ((Span(f.size) \div 2) - Span(f.size))..((Span(f.size) \div 2) - 1)
      BY <2>2 DEF ValuesOf
    <3> QED
      BY <3>2, <3>3, <3>4
  <2>3. CASE f.kind = "flag"
    BY <2>3 DEF ValueOf, ValuesOf
  <2>4. CASE f.kind = "string"
    <3>1. b # <<>>
      BY <1>3, <1>4, <2>4
    <3>2. Tail(b) \in Seq(Byte)
      BY <1>4, <3>1, HeadTailProperties
    <3> QED
      BY <2>4, <3>2 DEF ValueOf, ValuesOf
  <2>5. CASE f.kind = "rest"
    BY <1>4, <2>5 DEF ValueOf, ValuesOf
  <2> QED
    BY <1>1, <2>1, <2>2, <2>3, <2>4, <2>5
<1> QED
  BY <1>5, <1>6 DEF n, b

(* Behind k fields: refused, or k values of their fields. *)
Typed(t, r, k) ==
    /\ "ok" \in DOMAIN r
    /\ r.ok => /\ r.data \in Seq(Byte) /\ r.fields \in Seq(AnyValue) /\ Len(r.fields) = k
               /\ \A i \in 1..k : r.fields[i] \in ValuesOf(Writes(t)[i])

LEMMA TypedStep ==
    ASSUME NEW t \in Types, NEW r, NEW k \in 0..(Len(Writes(t)) - 1), Typed(t, r, k)
    PROVE  Typed(t, ReadField(r, Writes(t)[k + 1]), k + 1)
<1> DEFINE w == Writes(t)
           f == w[k + 1]
<1>1. f \in FieldKinds /\ k \in Nat
  <2>1. w \in Seq(FieldKinds)
    BY LayoutIs DEF Layouts
  <2> QED
    BY <2>1, OfSequence
<1>2. /\ "ok" \in DOMAIN r
      /\ r.ok => /\ r.data \in Seq(Byte) /\ r.fields \in Seq(AnyValue) /\ Len(r.fields) = k
                 /\ \A i \in 1..k : r.fields[i] \in ValuesOf(w[i])
  BY DEF Typed
<1> HIDE DEF f
<1> DEFINE data == r.data
           given == r.fields
           next == ReadField(r, f)
<1>4. CASE r.ok /\ Readable(f, data)
  <2> DEFINE n == Taken(f, data)
             v == ValueOf(f, SubSeq(data, 1, n))
             d == SubSeq(data, n + 1, Len(data))
             l == Append(given, v)
  <2>1. v \in ValuesOf(f) /\ d \in Seq(Byte)
    BY <1>1, <1>2, <1>4, ReadIsTyped
  <2>2. next = MessageRead(TRUE, d, l)
    BY <1>4 DEF ReadField, MessageRead
  <2>3. given \in Seq(AnyValue) /\ Len(given) = k /\ \A i \in 1..k : given[i] \in ValuesOf(w[i])
    BY <1>2, <1>4
  <2> HIDE DEF v, d, next
  <2>4. v \in AnyValue
    BY <1>1, <2>1 DEF AnyValue
  <2>5. l \in Seq(AnyValue) /\ Len(l) = k + 1 /\ l[k + 1] = v /\ \A i \in 1..k : l[i] = given[i]
    BY <2>3, <2>4, AppendProperties
  <2> HIDE DEF l
  <2>6. \A i \in 1..(k + 1) : l[i] \in ValuesOf(w[i])
    <3> SUFFICES ASSUME NEW i \in 1..(k + 1) PROVE l[i] \in ValuesOf(w[i])
      OBVIOUS
    <3>1. CASE i = k + 1
      BY <2>1, <2>5, <3>1 DEF f
    <3>2. CASE i \in 1..k
      BY <2>3, <2>5, <3>2
    <3> QED
      BY <1>1, <3>1, <3>2
  <2>7. "ok" \in DOMAIN next /\ next.data = d /\ next.fields = l
    BY <2>2 DEF MessageRead
  <2> QED
    BY <2>1, <2>5, <2>6, <2>7 DEF Typed, f, next
<1>5. CASE ~(r.ok /\ Readable(f, data))
  <2>1. next = [r EXCEPT !.ok = FALSE]
    BY <1>5 DEF ReadField
  <2>2. "ok" \in DOMAIN next /\ next.ok = FALSE
    BY <1>2, <2>1
  <2> HIDE DEF next
  <2> QED
    BY <2>2 DEF Typed, f, next
<1> QED
  BY <1>4, <1>5

LEMMA AllTyped ==
    ASSUME NEW t \in Types, NEW data \in Seq(Byte)
    PROVE  Typed(t, ReadAll(t, data), Len(Writes(t)))
<1> DEFINE w == Writes(t)
           n == Len(w)
           r == MessageRead(TRUE, data, <<>>)
<1>1. w \in Seq(FieldKinds) /\ n \in Nat
  <2>1. w \in Seq(FieldKinds)
    BY LayoutIs DEF Layouts
  <2> QED
    BY <2>1, OfSequence
<1>2. ReadAll(t, data) = Run("read", r, w)
  BY ReadRuns
<1>3. Typed(t, r, 0)
  <2>1. <<>> \in Seq(AnyValue) /\ Len(<<>>) = 0 /\ 1..0 = {}
    OBVIOUS
  <2>2. "ok" \in DOMAIN r /\ r.data = data /\ r.fields = <<>>
    BY DEF MessageRead
  <2> HIDE DEF r
  <2> QED
    BY <2>1, <2>2 DEF Typed
<1> HIDE DEF r, w
<1>4. PICK it : Stepping(it, "read", r, w, n) /\ Run("read", r, w) = it[1..n]
  BY <1>1, RunIterates
<1>5. it[{}] = r /\ \A k \in 1..n : it[1..k] = ReadField(it[1..(k - 1)], w[k])
  BY <1>4 DEF Stepping, Fed
<1> HIDE DEF n
<1> DEFINE T == {k \in Nat : k <= n => Typed(t, it[1..k], k)}
<1>6. 0 \in T
  <2>1. 1..0 = {}
    OBVIOUS
  <2> QED
    BY <1>3, <1>5, <2>1
<1>7. ASSUME NEW k \in T PROVE k + 1 \in T
  <2>0. k + 1 \in Nat
    OBVIOUS
  <2> SUFFICES ASSUME k + 1 <= n PROVE Typed(t, it[1..(k + 1)], k + 1)
    BY <2>0, Zenon
  <2>1. k \in 0..(n - 1) /\ k <= n /\ k + 1 \in 1..n /\ (k + 1) - 1 = k
    BY <1>1
  <2>2. Typed(t, it[1..k], k)
    BY <2>1
  <2>3. it[1..(k + 1)] = ReadField(it[1..k], w[k + 1])
    BY <1>5, <2>1
  <2>4. Typed(t, ReadField(it[1..k], w[k + 1]), k + 1)
    BY <2>1, <2>2, TypedStep DEF n, w
  <2> QED
    BY <2>3, <2>4
<1>8. n \in T
  <2>1. T \in SUBSET Nat
    OBVIOUS
  <2> HIDE DEF T
  <2> QED
    BY <1>1, <1>6, <1>7, <2>1, EveryNatural
<1>9. Typed(t, it[1..n], n)
  <2>1. n <= n
    BY <1>1
  <2> QED
    BY <1>8, <2>1, Zenon
<1> QED
  BY <1>2, <1>4, <1>9 DEF n, w

(***************************************************************************)
(* Any bytes: what deserialize accepts is a message, and sent on it arrives *)
(* as it was read.                                                          *)
(***************************************************************************)
THEOREM AcceptedArrives ==
    ASSUME NEW t \in Types, NEW payload \in Seq(Byte)
    PROVE  ReadsAgain(t, payload)
<1> DEFINE data == IF t = "ShellOpen" /\ payload = <<>> THEN <<0>> ELSE payload
           r == ReadAll(t, data)
           e == deserialize(t, payload)
<1>1. data \in Seq(Byte)
  <2>1. <<0>> \in Seq(Byte)
    BY BytesAre, OneCharacter
  <2> QED
    BY <2>1
<1> HIDE DEF data
<1>2. Typed(t, r, Len(Writes(t)))
  BY <1>1, AllTyped
<1>4. r.ok => r.fields \in FieldsOf(t)
  <2> HIDE DEF r
  <2> QED
    BY <1>2 DEF Typed, FieldsOf
<1>5. e.fields = r.fields /\ (e.ok => r.ok)
  BY DEF deserialize, ReadAll, MessageRead, data
<1>6. e.ok => e.fields \in FieldsOf(t)
  BY <1>4, <1>5
<1> HIDE DEF e
<1>7. e.ok => Arrives(t, e.fields)
  BY <1>6, MessagesArrive
<1> QED
  BY <1>7 DEF ReadsAgain, e

----------------------------------------------------------------------------
(* The radio backends.                                                   *)

LEMMA AtMostOne ==
    ASSUME NEW S, NEW x, S \subseteq {x}
    PROVE  Cardinality(S) <= 1
<1>1. IsFiniteSet({x}) /\ Cardinality({x}) = 1
  BY FS_Singleton
<1>2. IsFiniteSet(S) /\ Cardinality(S) <= 1
  BY <1>1, FS_Subset
<1> QED
  BY <1>2

----------------------------------------------------------------------------
(* RFCOMM on Windows.  A lookup that runs and was not given up holds the   *)
(* slot; and a session that has had bytes either still has their client,   *)
(* or was flagged closed and accepts nobody else.                          *)

LookupInv ==
    /\ running \in [WinClients -> SUBSET Nat] /\ abandoned \in [WinClients -> SUBSET Nat]
    /\ slot \in [WinClients -> [gen : Nat, old : BOOLEAN]]
    /\ \A c \in WinClients : running[c] \ abandoned[c] \subseteq {slot[c].gen}

PeerInv ==
    /\ heard # {} => listening = "open"
    /\ guest # "none" => heard \subseteq {guest}
    /\ guest = "none" /\ heard # {} => closed
    /\ \E c \in Clients \cup {"none"} : heard \subseteq {c}
    /\ guest \in Clients \cup {"none"} /\ backlog \in Clients \cup {"none"} /\ closed \in BOOLEAN

LEMMA WindowsStarts == ASSUME Win!Init PROVE LookupInv /\ PeerInv
<1>1. LookupInv
  BY DEF Win!Init, LookupInv, Win!Free
<1>2. PeerInv
  BY DEF Win!Init, PeerInv, Win!None
<1> QED
  BY <1>1, <1>2

LEMMA Looked ==
    ASSUME LookupInv, Win!Next \/ UNCHANGED winvars
    PROVE  LookupInv'
<1>1. ASSUME NEW c \in WinClients, Win!claim_sdp_slot(c) PROVE LookupInv'
  <2>1. PICK g \in Win!Gens \ (running[c] \cup {slot[c].gen}) :
          /\ slot' = [slot EXCEPT ![c] = [gen |-> g, old |-> FALSE]]
          /\ running' = [running EXCEPT ![c] = @ \cup {g}]
    BY <1>1 DEF Win!claim_sdp_slot
  <2>2. abandoned' = [abandoned EXCEPT ![c] = @ \cup (running[c] \cap {slot[c].gen})]
    BY <1>1 DEF Win!claim_sdp_slot
  <2>3. g \in Nat
    BY <2>1, TransportAssumption DEF TransportAssumption, Win!Gens
  <2>4. running'[c] \ abandoned'[c] \subseteq {slot'[c].gen}
    BY <2>1, <2>2, <2>3 DEF LookupInv
  <2>5. \A d \in WinClients \ {c} : running'[d] \ abandoned'[d] \subseteq {slot'[d].gen}
    BY <2>1, <2>2 DEF LookupInv
  <2>6. /\ running' \in [WinClients -> SUBSET Nat] /\ abandoned' \in [WinClients -> SUBSET Nat]
        /\ slot' \in [WinClients -> [gen : Nat, old : BOOLEAN]]
    BY <2>1, <2>2, <2>3 DEF LookupInv
  <2>7. \A d \in WinClients : running'[d] \ abandoned'[d] \subseteq {slot'[d].gen}
    BY <2>4, <2>5
  <2> QED
    BY <2>6, <2>7 DEF LookupInv
<1>2. ASSUME NEW c \in WinClients, Win!SlotAges(c) PROVE LookupInv'
  <2>1. /\ slot' \in [WinClients -> [gen : Nat, old : BOOLEAN]]
        /\ \A d \in WinClients : slot'[d].gen = slot[d].gen
    <3> DEFINE old == [slot[c] EXCEPT !.old = TRUE]
    <3>1. slot' = [slot EXCEPT ![c] = old]
      BY <1>2 DEF Win!SlotAges
    <3>2. old \in [gen : Nat, old : BOOLEAN] /\ old.gen = slot[c].gen
      BY DEF LookupInv
    <3> HIDE DEF old
    <3> QED
      BY <3>1, <3>2 DEF LookupInv
  <2>2. UNCHANGED <<running, abandoned>>
    BY <1>2 DEF Win!SlotAges
  <2> QED
    BY <2>1, <2>2 DEF LookupInv
<1>3. ASSUME NEW c \in WinClients, NEW g \in Win!Gens, Win!LookupEnds(c, g) PROVE LookupInv'
  <2>1. /\ running' = [running EXCEPT ![c] = @ \ {g}]
        /\ abandoned' = [abandoned EXCEPT ![c] = @ \ {g}]
        /\ slot' = [slot EXCEPT ![c] = IF slot[c].gen = g THEN [gen |-> 0, old |-> FALSE] ELSE slot[c]]
    BY <1>3 DEF Win!LookupEnds, Win!release_sdp_slot, Win!Free
  <2> QED
    BY <2>1 DEF LookupInv
<1>4. ASSUME UNCHANGED <<running, abandoned, slot>> PROVE LookupInv'
  BY <1>4 DEF LookupInv
<1>5. ASSUME Win!Next PROVE \/ \E c \in WinClients : Win!claim_sdp_slot(c) \/ Win!SlotAges(c)
                            \/ \E c \in WinClients, g \in Win!Gens : Win!LookupEnds(c, g)
                            \/ UNCHANGED <<running, abandoned, slot>>
  BY <1>5 DEF Win!Next, Win!LookupGivenUp, Win!Connect, Win!ClientSends, Win!ClientLeaves,
       Win!ClientFreezes, Win!Silence, Win!Host, Win!SendFails, Win!KeepaliveWrites,
       Win!KeepaliveTimesOut, Win!Accept, Win!Feed, Win!Disconnected, Win!RecvFails, Win!open_listen,
       Win!superseded_by_new_client, Win!DropTransport, Win!lookups
<1> QED
  BY <1>1, <1>2, <1>3, <1>4, <1>5 DEF winvars

LEMMA PeerKept ==
    ASSUME PeerInv, Win!Next \/ UNCHANGED winvars
    PROVE  PeerInv'
<1>1. ASSUME UNCHANGED <<listening, guest, closed, backlog, heard>> PROVE PeerInv'
  BY <1>1 DEF PeerInv
<1>2. ASSUME Win!Accept PROVE PeerInv'
  BY <1>2 DEF Win!Accept, PeerInv, Win!None
<1>3. ASSUME Win!Feed PROVE PeerInv'
  BY <1>3 DEF Win!Feed, PeerInv, Win!None
<1>4. ASSUME Win!Disconnected PROVE PeerInv'
  BY <1>4 DEF Win!Disconnected, Win!drop_client, PeerInv, Win!None
<1>5. ASSUME Win!superseded_by_new_client PROVE PeerInv'
  BY <1>5 DEF Win!superseded_by_new_client, PeerInv, Win!None
<1>6. ASSUME Win!DropTransport PROVE PeerInv'
  BY <1>6 DEF Win!DropTransport, PeerInv, Win!None
<1>7. ASSUME Win!open_listen PROVE PeerInv'
  BY <1>7 DEF Win!open_listen, PeerInv
<1>8. ASSUME Win!KeepaliveTimesOut PROVE PeerInv'
  BY <1>8 DEF Win!KeepaliveTimesOut, PeerInv, Win!None
<1>9. ASSUME NEW c \in Clients, Win!Connect(c) PROVE PeerInv'
  BY <1>9 DEF Win!Connect, PeerInv
<1> QED
  BY <1>1, <1>2, <1>3, <1>4, <1>5, <1>6, <1>7, <1>8, <1>9
     DEF Win!Next, Win!claim_sdp_slot, Win!SlotAges, Win!LookupGivenUp, Win!LookupEnds, Win!ClientSends,
         Win!ClientLeaves, Win!ClientFreezes, Win!Silence, Win!Host, Win!RecvFails, Win!SendFails,
         Win!KeepaliveWrites, Win!host, winvars

LEMMA WindowsSound ==
    ASSUME LookupInv, PeerInv
    PROVE  Win!OneLookup /\ Win!PeersNeverSwap
<1>1. \A c \in WinClients : Cardinality(running[c] \ abandoned[c]) <= 1
  BY AtMostOne DEF LookupInv
<1>2. Cardinality(heard) <= 1
  BY AtMostOne DEF PeerInv
<1> QED
  BY <1>1, <1>2 DEF Win!OneLookup, Win!PeersNeverSwap, Win!Cardinality, Cardinality

----------------------------------------------------------------------------
(* BLE, towards the client.  One packet is on its way at a time; a slot it *)
(* goes to is old, and swept before it is written to, or holds that packet *)
(* only.                                                                   *)

Ids == 0..(IdSpace - 1)

Chunks == [pid : Ids, idx : Nat, total : Nat, label : Nat]

Airs == [pid : Ids, idx : Nat, total : Nat, label : Nat, acked : BOOLEAN]

Slots == [total : Nat, chunks : Seq(Nat), old : BOOLEAN, conn : {"this"}]

Holds(s, label) == \A k \in 1..Len(s.chunks) : s.chunks[k] \in {0, label}

Fits(s) == s.total = Len(s.chunks)

SlotsOk(ss) ==
    /\ ss \in [Ids -> Slots]
    /\ \A i \in Ids : Fits(ss[i]) /\ \E label \in Nat : Holds(ss[i], label)

Traffic ==
    /\ out \in Seq(Chunks) /\ air \in Airs
    /\ \A k \in 1..Len(out) : out[k].idx \in 1..out[k].total
    /\ air # Ble!NoAir => air.idx \in 1..air.total

Sends(pid, label) ==
    /\ \A k \in 1..Len(out) : out[k].pid = pid /\ out[k].label = label
    /\ air # Ble!NoAir => air.pid = pid /\ air.label = label
    /\ slots[pid].old \/ Holds(slots[pid], label)

BleInv ==
    /\ dir = "down" /\ ~failed /\ nextId \in Ids
    /\ SlotsOk(slots) /\ Traffic
    /\ \E pid \in Ids, label \in Nat : Sends(pid, label)

LEMMA EmptySlot ==
    Ble!Empty \in Slots /\ Fits(Ble!Empty) /\ \A label \in Nat : Holds(Ble!Empty, label)
BY DEF Ble!Empty, Slots, Fits, Holds

LEMMA BleStarts == ASSUME Ble!Init, dir = "down" PROVE BleInv
<1>1. 0 \in Ids
  BY TransportAssumption DEF TransportAssumption, Ids
<1>2. SlotsOk(slots)
  BY EmptySlot DEF Ble!Init, SlotsOk, Ble!Ids, Ids
<1>3. Traffic
  BY <1>1 DEF Ble!Init, Traffic, Ble!NoAir, Airs
<1>4. Sends(0, 0)
  BY <1>1, EmptySlot DEF Ble!Init, Sends, Ble!Ids, Ids
<1> QED
  BY <1>1, <1>2, <1>3, <1>4 DEF Ble!Init, BleInv

\* The slot a chunk goes to, once it is swept, holds its packet only.
LEMMA ChunkFilled ==
    ASSUME NEW c \in Airs, c.idx \in 1..c.total,
           NEW ss, SlotsOk(ss), Holds(ss[c.pid], c.label)
    PROVE  LET filled == Ble!Filled(Ble!SlotOf(ss, c), c)
           IN  /\ filled \in Slots /\ Fits(filled) /\ Holds(filled, c.label)
               /\ Ble!Complete(filled) => Ble!Whole(filled)
<1> DEFINE s == Ble!SlotOf(ss, c)
           zeros == [k \in 1..c.total |-> 0]
           filled == Ble!Filled(s, c)
<1>1. ss[c.pid] \in Slots /\ Fits(ss[c.pid]) /\ c.total \in Nat /\ c.label \in Nat
  BY DEF SlotsOk, Airs
<1>2. zeros \in Seq(Nat) /\ Len(zeros) = c.total /\ \A k \in 1..c.total : zeros[k] = 0
  BY <1>1
<1>3. s \in Slots /\ Fits(s) /\ s.total = c.total /\ Holds(s, c.label)
  <2>1. CASE ss[c.pid].total = c.total
    BY <1>1, <2>1 DEF Ble!SlotOf
  <2>2. CASE ss[c.pid].total # c.total
    <3>1. s = [total |-> c.total, chunks |-> zeros, old |-> FALSE, conn |-> "this"]
      BY <2>2 DEF Ble!SlotOf, Ble!Started
    <3> HIDE DEF s, zeros
    <3> QED
      BY <1>1, <1>2, <3>1 DEF Slots, Fits, Holds
  <2> QED
    BY <2>1, <2>2
<1> HIDE DEF s
<1>4. filled \in Slots /\ Fits(filled) /\ Holds(filled, c.label)
  <2>1. CASE s.chunks[c.idx] # 0
    BY <1>3, <2>1 DEF Ble!Filled
  <2>2. CASE s.chunks[c.idx] = 0
    <3> DEFINE more == [s.chunks EXCEPT ![c.idx] = c.label]
    <3>1. s.chunks \in Seq(Nat) /\ c.idx \in 1..Len(s.chunks) /\ c.label \in Nat
      BY <1>1, <1>3 DEF Slots, Fits
    <3>2. more \in Seq(Nat) /\ Len(more) = Len(s.chunks)
      BY <3>1, ExceptSeq
    <3>3. \A k \in 1..Len(more) : more[k] \in {0, c.label}
      BY <1>3, <3>1, <3>2 DEF Holds
    <3>4. filled = [s EXCEPT !.chunks = more]
      BY <2>2 DEF Ble!Filled
    <3> HIDE DEF more, filled
    <3> QED
      BY <1>3, <3>2, <3>3, <3>4 DEF Slots, Fits, Holds
  <2> QED
    BY <2>1, <2>2
<1>5. Ble!Complete(filled) => Ble!Whole(filled)
  <2> HIDE DEF filled
  <2>1. DOMAIN filled.chunks = 1..Len(filled.chunks)
    BY <1>4 DEF Slots
  <2>2. ASSUME Ble!Complete(filled), NEW k \in 1..Len(filled.chunks) PROVE filled.chunks[k] = c.label
    BY <1>4, <2>1, <2>2 DEF Ble!Complete, Holds
  <2> QED
    BY <2>1, <2>2 DEF Ble!Whole
<1> QED
  BY <1>4, <1>5 DEF s

LEMMA PacketSent ==
    ASSUME NEW pid \in Ids, NEW label \in Nat, NEW total \in Nat,
           NEW packet, packet = Ble!split_packet(pid, label, total)
    PROVE  /\ packet \in Seq(Chunks) /\ Len(packet) = total
           /\ \A k \in 1..total : /\ packet[k].idx \in 1..packet[k].total
                                  /\ packet[k].pid = pid /\ packet[k].label = label
<1>1. packet = [k \in 1..total |-> [pid |-> pid, idx |-> k, total |-> total, label |-> label]]
  BY DEF Ble!split_packet
<1>2. /\ packet \in [1..total -> Chunks]
      /\ \A k \in 1..total : /\ packet[k].idx = k /\ packet[k].total = total
                             /\ packet[k].pid = pid /\ packet[k].label = label
  BY <1>1 DEF Chunks
<1>3. packet \in Seq(Chunks) /\ Len(packet) = total
  BY <1>2
<1> QED
  BY <1>2, <1>3

LEMMA BleKept ==
    ASSUME BleInv, Ble!Next \/ UNCHANGED blevars
    PROVE  BleInv'
<1> USE DEF BleInv
<1>1. PICK pid \in Ids, label \in Nat : Sends(pid, label)
  OBVIOUS
<1>2. CASE UNCHANGED blevars
  BY <1>2 DEF blevars, SlotsOk, Traffic, Sends
<1>3. CASE Ble!open
  <2>1. slots' = [i \in Ids |-> Ble!Empty] /\ nextId' = nextId /\ UNCHANGED <<dir, out, air, failed>>
    BY <1>3 DEF Ble!open, Ble!SlotsAtOpen, Ble!IdAtOpen, Ble!Ids, Ids
  <2>2. SlotsOk(slots')
    BY <2>1, EmptySlot DEF SlotsOk
  <2>3. Sends(pid, label)'
    BY <1>1, <2>1, EmptySlot DEF Sends
  <2> QED
    BY <2>1, <2>2, <2>3 DEF Traffic
<1>4. CASE Ble!LinkLost
  <2>1. out' = <<>> /\ air' = Ble!NoAir /\ failed' = FALSE /\ UNCHANGED <<dir, nextId, slots>>
    BY <1>4 DEF Ble!LinkLost
  <2>2. 0 \in Ids
    BY TransportAssumption DEF TransportAssumption, Ids
  <2>3. Traffic'
    BY <2>1, <2>2 DEF Traffic, Ble!NoAir, Airs
  <2>4. Sends(pid, label)'
    BY <1>1, <2>1 DEF Sends
  <2> QED
    BY <2>1, <2>3, <2>4
<1>5. CASE Ble!send
  <2> PICK id \in Ids : id = nextId
    OBVIOUS
  <2>1. PICK total \in Totals : out' = Ble!split_packet(nextId, CHOOSE x \in Labels \ Ble!InUse : TRUE, total)
    BY <1>5 DEF Ble!send
  <2>2. PICK name \in Nat : name = CHOOSE x \in Labels \ Ble!InUse : TRUE
    BY <1>5, TransportAssumption DEF TransportAssumption, Ble!send
  <2> total \in Nat
    BY TransportAssumption DEF TransportAssumption
  <2>3. air = Ble!NoAir /\ nextId' = (nextId + 1) % IdSpace /\ UNCHANGED <<dir, air, slots, failed>>
    BY <1>5 DEF Ble!send
  <2>4. nextId' \in Ids
    BY <2>3, TransportAssumption DEF TransportAssumption, Ids
  <2>5. /\ out' \in Seq(Chunks) /\ Len(out') = total
        /\ \A k \in 1..Len(out') : /\ out'[k].idx \in 1..out'[k].total
                                  /\ out'[k].pid = id /\ out'[k].label = name
    <3>1. out' = Ble!split_packet(id, name, total)
      BY <2>1, <2>2
    <3>2. /\ out' \in Seq(Chunks) /\ Len(out') = total
          /\ \A k \in 1..total : /\ out'[k].idx \in 1..out'[k].total
                                 /\ out'[k].pid = id /\ out'[k].label = name
      BY <3>1, PacketSent
    <3> QED
      BY <3>2
  <2>6. slots[id].old \/ Holds(slots[id], name)
    <3>1. slots[id] \in Slots /\ Fits(slots[id])
      BY DEF SlotsOk
    <3>2. slots[id].total = 0 \/ slots[id].old
      BY <1>5, <3>1 DEF Ble!send, Ble!IdIsFree, Slots
    <3> QED
      BY <3>1, <3>2 DEF Fits, Holds, Slots
  <2>7. Sends(id, name)'
    BY <2>3, <2>5, <2>6, Zenon DEF Sends
  <2> QED
    <3>1. Traffic' /\ SlotsOk(slots')
      BY <2>3, <2>5 DEF Traffic
    <3> QED
      BY <2>2, <2>3, <2>4, <2>7, <3>1
<1>6. CASE Ble!write
  BY <1>6 DEF Ble!write
<1>7. CASE Ble!NotifyValueAsync
  <2>1. /\ out # <<>> /\ out' = Tail(out) /\ UNCHANGED <<dir, nextId, slots, failed>>
        /\ air' = [pid |-> Head(out).pid, idx |-> Head(out).idx, total |-> Head(out).total,
                   label |-> Head(out).label, acked |-> FALSE]
    BY <1>7 DEF Ble!NotifyValueAsync, Ble!Launched
  <2>2. /\ Head(out) = out[1] /\ out[1] \in Chunks /\ Len(out) >= 1 /\ Len(out) \in Nat
        /\ Tail(out) \in Seq(Chunks) /\ Len(Tail(out)) = Len(out) - 1
        /\ \A k \in 1..Len(out) - 1 : Tail(out)[k] = out[k + 1]
    BY <2>1 DEF Traffic
  <2>3. /\ \A k \in 1..Len(out) : out[k].idx \in 1..out[k].total
        /\ \A k \in 1..Len(out) : out[k].pid = pid /\ out[k].label = label
        /\ slots[pid].old \/ Holds(slots[pid], label)
    BY <1>1 DEF Traffic, Sends
  <2>4. \A k \in 1..Len(out') : k + 1 \in 1..Len(out) /\ out'[k] = out[k + 1]
    BY <2>1, <2>2
  <2>5. Traffic'
    BY <2>1, <2>2, <2>3, <2>4 DEF Traffic, Airs, Chunks
  <2>6. Sends(pid, label)'
    BY <2>1, <2>2, <2>3, <2>4 DEF Sends
  <2> QED
    BY <2>1, <2>5, <2>6
<1>8. CASE Ble!ChunkLost \/ Ble!SendTimesOut
  <2>1. out' \in {out, <<>>} /\ air' = Ble!NoAir /\ UNCHANGED <<dir, nextId, slots, failed>>
    BY <1>8 DEF Ble!ChunkLost, Ble!SendTimesOut
  <2>2. 0 \in Ids
    BY TransportAssumption DEF TransportAssumption, Ids
  <2>3. Traffic'
    <3>1. Ble!NoAir \in Airs
      BY <2>2 DEF Ble!NoAir, Airs
    <3>2. CASE out' = out
      BY <2>1, <3>1, <3>2 DEF Traffic
    <3>3. CASE out' = <<>>
      BY <2>1, <3>1, <3>3 DEF Traffic
    <3> QED
      BY <2>1, <3>2, <3>3
  <2>4. Sends(pid, label)'
    BY <1>1, <2>1 DEF Sends
  <2> QED
    BY <2>1, <2>3, <2>4
<1>9. CASE Ble!feed_chunk
  <2> DEFINE swept == Ble!sweep_expired
             filled == Ble!Filled(Ble!SlotOf(swept, air), air)
  <2>1. /\ air # Ble!NoAir /\ air' = Ble!NoAir /\ UNCHANGED <<dir, nextId, out>>
        /\ slots' = [swept EXCEPT ![air.pid] = IF Ble!Complete(filled) THEN Ble!Empty ELSE filled]
        /\ failed' = (Ble!Complete(filled) /\ ~Ble!Whole(filled))
    BY <1>9 DEF Ble!feed_chunk
  <2>2. swept = [i \in Ids |-> IF slots[i].old THEN Ble!Empty ELSE slots[i]]
    BY DEF Ble!sweep_expired, Ble!Ids, Ids
  <2> HIDE DEF swept
  <2>3. SlotsOk(swept) /\ Holds(swept[pid], label)
    BY <1>1, <2>2, EmptySlot DEF SlotsOk, Sends
  <2>4. air \in Airs /\ air.idx \in 1..air.total /\ air.pid = pid /\ air.label = label
    BY <1>1, <2>1 DEF Traffic, Sends
  <2>5. /\ filled \in Slots /\ Fits(filled) /\ Holds(filled, label)
        /\ Ble!Complete(filled) => Ble!Whole(filled)
    BY <2>3, <2>4, ChunkFilled
  <2> HIDE DEF filled
  <2>6. slots'[pid] \in Slots /\ Fits(slots'[pid]) /\ Holds(slots'[pid], label)
    BY <2>1, <2>3, <2>4, <2>5, EmptySlot DEF SlotsOk
  <2>7. slots' \in [Ids -> Slots] /\ \A i \in Ids \ {pid} : slots'[i] = swept[i]
    BY <2>1, <2>3, <2>4, <2>5, EmptySlot DEF SlotsOk
  <2>8. SlotsOk(slots')
    BY <2>3, <2>6, <2>7 DEF SlotsOk
  <2>9. 0 \in Ids
    BY TransportAssumption DEF TransportAssumption, Ids
  <2>10. Traffic'
    BY <2>1, <2>9 DEF Traffic, Ble!NoAir, Airs
  <2>11. Sends(pid, label)'
    BY <1>1, <2>1, <2>6 DEF Sends
  <2> QED
    BY <2>1, <2>5, <2>8, <2>10, <2>11
<1>10. ASSUME NEW i \in Ids, Ble!SlotAges(i) PROVE BleInv'
  <2>1. slots' = [slots EXCEPT ![i].old = TRUE] /\ UNCHANGED <<dir, nextId, out, air, failed>>
    BY <1>10 DEF Ble!SlotAges
  <2>2. slots[i] \in Slots /\ slots \in [Ids -> Slots]
    BY DEF SlotsOk
  <2>3. /\ slots' \in [Ids -> Slots] /\ \A j \in Ids \ {i} : slots'[j] = slots[j]
        /\ slots'[i].old /\ slots'[i].chunks = slots[i].chunks /\ slots'[i].total = slots[i].total
    BY <2>1, <2>2 DEF Slots
  <2>4. SlotsOk(slots')
    BY <2>3 DEF SlotsOk, Fits, Holds
  <2>5. Sends(pid, label)'
    BY <1>1, <2>1, <2>3 DEF Sends, Holds
  <2> QED
    BY <2>1, <2>4, <2>5 DEF Traffic
<1> QED
  BY <1>2, <1>3, <1>4, <1>5, <1>6, <1>7, <1>8, <1>9, <1>10 DEF Ble!Next, Ble!Ids, Ids

LEMMA BleSound == ASSUME BleInv PROVE Ble!OnePacketPerSlot
<1>1. ASSUME NEW i \in Ids PROVE Cardinality(Ble!PacketsIn(slots[i])) <= 1
  <2>1. PICK label \in Nat : Holds(slots[i], label)
    BY DEF BleInv, SlotsOk
  <2>2. slots[i].chunks \in Seq(Nat)
    BY DEF BleInv, SlotsOk, Slots
  <2>3. Ble!PacketsIn(slots[i]) \subseteq {label}
    BY <2>1, <2>2 DEF Ble!PacketsIn, Holds
  <2> QED
    BY <2>3, AtMostOne
<1> QED
  BY <1>1 DEF BleInv, Ble!OnePacketPerSlot, Ble!Ids, Ids, Ble!Cardinality, Cardinality

----------------------------------------------------------------------------
(* RFCOMM on the Mac.  pending counts the completions a delegate is owed   *)
(* and the one that runs in it; whoever is owed one is held by the attempt *)
(* that asked or is parked; and an open channel's delegate is owed none.   *)

Delegates == 1..MaxDelegates

Calls == {"sdp", "open"}

Statuses == {"none", "ok", "failed", "late"}

Shared ==
    [pending : Nat, owed : SUBSET Calls, sdp : Statuses, open : Statuses, closed : BOOLEAN,
     holders : SUBSET {"opener", "parked", "callback", "link"}]

Completions ==
    [d : Delegates, op : Calls, status : Statuses, at : {"entered", "stored", "counted"}]

Due(x) == (IF "sdp" \in x.owed THEN 1 ELSE 0) + (IF "open" \in x.owed THEN 1 ELSE 0)

RunsIn(c, d) == c # Mac!NoCall /\ c.d = d

Kept(x, d, c) ==
    /\ x.pending >= Due(x) + (IF RunsIn(c, d) /\ c.at # "counted" THEN 1 ELSE 0)
    /\ x.owed # {} => "opener" \in x.holders \/ "parked" \in x.holders
    /\ RunsIn(c, d) => "callback" \in x.holders /\ c.op \notin x.owed

\* What the delegate of an attempt may still be owed, by how far it got.
Attempted(x, d, c, a) ==
    /\ a = "sdp" => /\ "open" \notin x.owed /\ x.open = "none"
                    /\ x.sdp # "none" => "sdp" \notin x.owed
                    /\ RunsIn(c, d) => c.op = "sdp"
    /\ a = "open" => /\ "sdp" \notin x.owed
                     /\ x.open # "none" => "open" \notin x.owed
    /\ a \in {"linked", "dropping"} => x.owed = {}

Table(ds, c) ==
    /\ ds \in [Delegates -> Shared] /\ c \in {Mac!NoCall} \cup Completions
    /\ \A d \in Delegates : Kept(ds[d], d, c)

Underway == {"sdp", "open", "linked", "dropping"}

MacInv ==
    /\ Table(del, cb)
    /\ cur \in Delegates \cup {0}
    /\ at \in Underway => cur \in Delegates /\ Attempted(del[cur], cur, cb, at)

LEMMA CallRuns == \A c \in Completions : c # Mac!NoCall /\ c.d \in Delegates
BY DEF Completions, Mac!NoCall, Mac!None, Delegates

LEMMA FreshKept ==
    ASSUME NEW d, NEW c, ~RunsIn(c, d)
    PROVE  Mac!Fresh \in Shared /\ Kept(Mac!Fresh, d, c)
BY DEF Mac!Fresh, Shared, Kept, Due, Statuses

\* Only delegates that nobody is owed a thing through are used again.
LEMMA ReleasedKept ==
    ASSUME NEW ds, NEW c, Table(ds, c)
    PROVE  /\ Table(Mac!Released(ds), c)
           /\ \A d \in Delegates : Mac!Released(ds)[d] \in {ds[d], Mac!Fresh}
           /\ \A d \in Delegates : Mac!Released(ds)[d] # ds[d] => ~RunsIn(c, d)
<1> DEFINE new == Mac!Released(ds)
           free(d) == ds[d].owed = {} /\ ds[d].pending = 0 /\ ds[d].holders \subseteq {"parked"}
<1>1. new = [d \in Delegates |-> IF free(d) THEN Mac!Fresh ELSE ds[d]]
  BY DEF Mac!Released, Mac!Delegates, Delegates
<1>2. \A d \in Delegates : free(d) => ~RunsIn(c, d)
  BY DEF Table, Kept
<1>3. \A d \in Delegates : free(d) => Mac!Fresh \in Shared /\ Kept(Mac!Fresh, d, c)
  BY <1>2, FreshKept
<1> HIDE DEF new, free
<1>4. \A d \in Delegates : new[d] = IF free(d) THEN Mac!Fresh ELSE ds[d]
  BY <1>1
<1>5. new \in [Delegates -> Shared]
  BY <1>1, <1>3 DEF Table
<1>6. \A d \in Delegates : Kept(new[d], d, c)
  BY <1>3, <1>4 DEF Table
<1>7. Table(new, c)
  BY <1>5, <1>6 DEF Table
<1>8. \A d \in Delegates : new[d] \in {ds[d], Mac!Fresh} /\ (new[d] # ds[d] => ~RunsIn(c, d))
  BY <1>2, <1>4
<1> QED
  BY <1>7, <1>8 DEF new

LEMMA FreshAttempted ==
    ASSUME NEW d, NEW c, ~RunsIn(c, d), NEW a
    PROVE  Attempted(Mac!Fresh, d, c, a)
BY DEF Attempted, Mac!Fresh

LEMMA MacStarts == ASSUME Mac!Init PROVE MacInv
<1>1. \A d \in Delegates : ~RunsIn(Mac!NoCall, d)
  BY DEF RunsIn
<1>2. del = [d \in Delegates |-> Mac!Fresh] /\ cb = Mac!NoCall /\ cur = 0 /\ at = "idle"
  BY DEF Mac!Init, Mac!Delegates, Delegates, Mac!None
<1>3. \A d \in Delegates : Mac!Fresh \in Shared /\ Kept(Mac!Fresh, d, cb)
  BY <1>1, <1>2, FreshKept
<1>4. Table(del, cb)
  BY <1>2, <1>3 DEF Table
<1> QED
  BY <1>2, <1>4 DEF MacInv, Underway

\* A step that changes one delegate, and the completion in no other.
LEMMA OneChanges ==
    ASSUME MacInv, NEW d \in Delegates, NEW x \in Shared, del' = [del EXCEPT ![d] = x],
           cb' \in {Mac!NoCall} \cup Completions, Kept(x, d, cb'),
           \A e \in Delegates \ {d} : RunsIn(cb', e) => RunsIn(cb, e) /\ cb' = cb
    PROVE  /\ Table(del', cb') /\ del'[d] = x
           /\ \A e \in Delegates \ {d} : del'[e] = del[e]
<1>1. del \in [Delegates -> Shared] /\ \A e \in Delegates : Kept(del[e], e, cb)
  BY DEF MacInv, Table
<1>2. del' \in [Delegates -> Shared] /\ del'[d] = x /\ \A e \in Delegates \ {d} : del'[e] = del[e]
  BY <1>1
<1>3. ASSUME NEW e \in Delegates \ {d} PROVE Kept(del'[e], e, cb')
  <2>1. CASE RunsIn(cb', e)
    BY <1>1, <1>2, <2>1
  <2>2. CASE ~RunsIn(cb', e)
    <3>1. del'[e] \in Shared /\ Kept(del'[e], e, cb)
      BY <1>1, <1>2
    <3>2. del'[e].pending \in Nat /\ Due(del'[e]) \in Nat
      BY <3>1 DEF Shared, Due
    <3> QED
      BY <2>2, <3>1, <3>2 DEF Kept
  <2> QED
    BY <2>1, <2>2
<1>4. \A e \in Delegates : Kept(del'[e], e, cb')
  BY <1>2, <1>3
<1> QED
  BY <1>2, <1>4 DEF Table

LEMMA FreeIsFresh ==
    ASSUME MacInv, NEW d \in Delegates, del[d] = Mac!Fresh
    PROVE  ~RunsIn(cb, d) /\ del[d].owed = {} /\ del[d].pending = 0
           /\ del[d].sdp = "none" /\ del[d].open = "none"
BY DEF MacInv, Table, Kept, Mac!Fresh

LEMMA AskKept ==
    ASSUME MacInv, NEW d \in Delegates, NEW op \in Calls, op \notin del[d].owed,
           del' = Mac!Issued(d, op), cb' = cb, RunsIn(cb, d) => cb.op # op,
           cur' = d, at' \in {"sdp", "open"},
           Attempted([del[d] EXCEPT !.owed = @ \cup {op}], d, cb, at')
    PROVE  MacInv'
<1> DEFINE x == [del[d] EXCEPT !.pending = @ + 1, !.owed = @ \cup {op},
                               !.holders = @ \cup {"opener"}]
<1>1. del[d] \in Shared /\ Kept(del[d], d, cb) /\ del \in [Delegates -> Shared]
  BY DEF MacInv, Table
<1>2. del' = [del EXCEPT ![d] = x]
  BY <1>1 DEF Mac!Issued
<1>2a. /\ del[d].owed \cup {op} \in SUBSET Calls /\ del[d].pending + 1 \in Nat
      /\ del[d].holders \cup {"opener"} \in SUBSET {"opener", "parked", "callback", "link"}
  BY <1>1 DEF Shared
<1>3. x \in Shared /\ x.pending = del[d].pending + 1 /\ x.owed = del[d].owed \cup {op}
      /\ "opener" \in x.holders /\ del[d].holders \subseteq x.holders
      /\ x.sdp = del[d].sdp /\ x.open = del[d].open
  BY <1>1, <1>2a DEF Shared
<1> HIDE DEF x
<1>4. Due(x) <= Due(del[d]) + 1 /\ Due(x) \in Nat /\ Due(del[d]) \in Nat
  BY <1>3 DEF Due, Calls
<1>5. Kept(x, d, cb)
  BY <1>1, <1>3, <1>4 DEF Kept, Shared
<1>6. Table(del', cb') /\ del'[d] = x
  BY <1>1, <1>2, <1>3, <1>5, OneChanges DEF MacInv, Table
<1>7. Attempted(x, d, cb, at')
  BY <1>1, <1>3 DEF Attempted, Shared
<1> QED
  BY <1>6, <1>7 DEF MacInv

\* A kept delegate stays with those who wait for it.
LEMMA ParkKept ==
    ASSUME MacInv, cur \in Delegates, NEW channel \in BOOLEAN,
           del' = Mac!Park(cur, channel), cb' = cb, cur' = 0, at' = "next"
    PROVE  MacInv'
<1> DEFINE drop == del[cur].pending = 0 /\ ~channel
           parked(e) == [Mac!Without(e, "opener")
                        EXCEPT !.holders = @ \cup {"parked"},
                               !.sdp = "none", !.open = "none", !.closed = FALSE]
           ds == [e \in Delegates |->
                    CASE e = cur /\ drop -> Mac!Without(e, "opener")
                      [] e = cur /\ ~drop -> parked(e)
                      [] e # cur /\ (drop \/ del[e].pending > 0) -> del[e]
                      [] OTHER -> Mac!Without(e, "parked")]
<1>1. del' = Mac!Released(ds)
  BY DEF Mac!Park, Mac!Delegates, Delegates
<1>2. \A e \in Delegates : /\ del[e] \in Shared /\ Kept(del[e], e, cb)
                           /\ Due(del[e]) \in Nat
                           /\ del[e].pending = 0 => del[e].owed = {}
  BY DEF MacInv, Table, Kept, Due, Shared, Calls
<1>3. ASSUME NEW e \in Delegates, NEW who \in {"opener", "parked"}
      PROVE  /\ Mac!Without(e, who) \in Shared
             /\ del[e].pending = 0 => Kept(Mac!Without(e, who), e, cb)
  <2>1. Mac!Without(e, who) = [del[e] EXCEPT !.holders = @ \ {who}]
    BY DEF Mac!Without
  <2>2. /\ Mac!Without(e, who) \in Shared
        /\ Mac!Without(e, who).pending = del[e].pending
        /\ Mac!Without(e, who).owed = del[e].owed
        /\ Mac!Without(e, who).holders = del[e].holders \ {who}
    BY <1>2, <2>1 DEF Shared
  <2> QED
    BY <1>2, <2>2 DEF Kept, Due
<1>4. parked(cur) \in Shared /\ Kept(parked(cur), cur, cb)
  <2>1. /\ parked(cur) \in Shared /\ parked(cur).pending = del[cur].pending
        /\ parked(cur).owed = del[cur].owed
        /\ parked(cur).holders = (del[cur].holders \ {"opener"}) \cup {"parked"}
    BY <1>2 DEF Mac!Without, Shared, Statuses
  <2> HIDE DEF parked
  <2> QED
    BY <1>2, <2>1 DEF Kept, Due
<1> HIDE DEF parked
<1>5. \A e \in Delegates : ds[e] \in Shared /\ Kept(ds[e], e, cb)
  <2> SUFFICES ASSUME NEW e \in Delegates PROVE ds[e] \in Shared /\ Kept(ds[e], e, cb)
    OBVIOUS
  <2>1. CASE e = cur /\ drop
    <3>1. ds[e] = Mac!Without(e, "opener")
      BY <2>1
    <3> QED
      BY <1>3, <2>1, <3>1
  <2>2. CASE e = cur /\ ~drop
    <3>1. ds[e] = parked(cur)
      BY <2>2
    <3> QED
      BY <1>4, <2>2, <3>1
  <2>3. CASE e # cur /\ (drop \/ del[e].pending > 0)
    <3>1. ds[e] = del[e]
      BY <2>3
    <3> QED
      BY <1>2, <3>1
  <2>4. CASE e # cur /\ ~(drop \/ del[e].pending > 0)
    <3>1. ds[e] = Mac!Without(e, "parked")
      BY <2>4
    <3>2. del[e].pending = 0
      BY <1>2, <2>4 DEF Shared
    <3> QED
      BY <1>3, <3>1, <3>2
  <2> QED
    BY <2>1, <2>2, <2>3, <2>4
<1>6. cb \in {Mac!NoCall} \cup Completions /\ ds \in [Delegates -> Shared]
  BY <1>5 DEF MacInv, Table
<1> HIDE DEF ds
<1>7. Table(ds, cb)
  BY <1>5, <1>6 DEF Table
<1>8. Table(del', cb')
  BY <1>1, <1>7, ReleasedKept
<1> QED
  BY <1>8 DEF MacInv, Underway

LEMMA OpeningKept ==
    ASSUME MacInv, \/ Mac!performSDPQuery \/ Mac!openRFCOMMChannelAsync
                   \/ Mac!Attempt \/ Mac!Connected
    PROVE  MacInv'
<1> USE DEF Mac!Delegates, Delegates
<1>1. CASE Mac!performSDPQuery
  <2>1. PICK d \in Delegates : del[d] = Mac!Fresh /\ cur' = d /\ del' = Mac!Issued(d, "sdp")
    BY <1>1 DEF Mac!performSDPQuery, Mac!Free
  <2>2. cb' = cb /\ at' = "sdp"
    BY <1>1 DEF Mac!performSDPQuery
  <2>3. Attempted([del[d] EXCEPT !.owed = @ \cup {"sdp"}], d, cb, "sdp")
    BY <2>1, FreeIsFresh DEF Attempted, Mac!Fresh
  <2> QED
    BY <2>1, <2>2, <2>3, FreeIsFresh, AskKept DEF Calls
<1>2. CASE Mac!openRFCOMMChannelAsync
  <2>1. cb' = cb /\ at' = "open" /\ del' = Mac!Issued(cur', "open")
    BY <1>2 DEF Mac!openRFCOMMChannelAsync
  <2>2. CASE at = "sdp" /\ del[cur].sdp = "ok" /\ cur' = cur
    <3>1. cur \in Delegates /\ Attempted(del[cur], cur, cb, "sdp") /\ del[cur] \in Shared
      BY <2>2 DEF MacInv, Underway, Table
    <3>2. /\ "open" \notin del[cur].owed /\ "sdp" \notin del[cur].owed /\ del[cur].open = "none"
          /\ RunsIn(cb, cur) => cb.op = "sdp"
      BY <2>2, <3>1 DEF Attempted
    <3>3. Attempted([del[cur] EXCEPT !.owed = @ \cup {"open"}], cur, cb, "open")
      BY <3>1, <3>2 DEF Attempted, Shared
    <3> QED
      BY <2>1, <2>2, <3>1, <3>2, <3>3, AskKept DEF Calls
  <2>3. CASE Mac!Free # {} /\ cur' = CHOOSE e \in Mac!Free : TRUE
    <3>1. PICK d \in Delegates : del[d] = Mac!Fresh /\ cur' = d
      BY <2>3 DEF Mac!Free
    <3>2. Attempted([del[d] EXCEPT !.owed = @ \cup {"open"}], d, cb, "open")
      BY <3>1, FreeIsFresh DEF Attempted, Mac!Fresh
    <3> QED
      BY <2>1, <3>1, <3>2, FreeIsFresh, AskKept DEF Calls
  <2> QED
    BY <1>2, <2>2, <2>3 DEF Mac!openRFCOMMChannelAsync
<1>3. ASSUME at \in {"sdp", "open"}, cb' = cb, cur' = 0, at' = "next",
             \E channel \in BOOLEAN : del' = Mac!Park(cur, channel)
      PROVE  MacInv'
  BY <1>3, ParkKept DEF MacInv, Underway
<1>4. CASE Mac!SdpRefused \/ Mac!OpenFails
  BY <1>4 DEF Mac!SdpRefused, Mac!OpenFails, MacInv, Underway
<1>5. CASE Mac!SdpTimesOut \/ Mac!SdpUseless \/ Mac!OpenRefused \/ Mac!OpenTimesOut \/ Mac!OpenUseless
  BY <1>3, <1>5 DEF Mac!SdpTimesOut, Mac!SdpUseless, Mac!OpenRefused, Mac!OpenTimesOut,
                    Mac!OpenUseless, Mac!None
<1>6. CASE Mac!Connected
  <2> DEFINE x == [del[cur] EXCEPT !.holders = (@ \ {"opener"}) \cup {"link"},
                                   !.sdp = "none", !.open = "none"]
  <2>1. /\ at = "open" /\ del[cur].open = "ok" /\ cb' = cb /\ cur' = cur /\ at' = "linked"
        /\ cur \in Delegates /\ Attempted(del[cur], cur, cb, "open")
        /\ del[cur] \in Shared /\ Kept(del[cur], cur, cb) /\ del \in [Delegates -> Shared]
    BY <1>6 DEF Mac!Connected, MacInv, Underway, Table
  <2>2. del' = [del EXCEPT ![cur] = x]
    BY <1>6, <2>1 DEF Mac!Connected
  <2>3. del[cur].owed = {}
    BY <2>1 DEF Attempted, Shared, Calls
  <2>4. x \in Shared /\ x.owed = {} /\ x.pending = del[cur].pending
        /\ x.holders = (del[cur].holders \ {"opener"}) \cup {"link"}
    BY <2>1, <2>3 DEF Shared, Statuses
  <2> HIDE DEF x
  <2>5. Kept(x, cur, cb)
    BY <2>1, <2>3, <2>4 DEF Kept, Due
  <2>6. Table(del', cb') /\ del'[cur] = x
    BY <2>1, <2>2, <2>4, <2>5, OneChanges DEF MacInv, Table
  <2> QED
    BY <2>1, <2>4, <2>6 DEF MacInv, Attempted
<1> QED
  BY <1>1, <1>2, <1>4, <1>5, <1>6 DEF Mac!Attempt

\* The main loop hands a delegate what it is owed, and counts it down last.
LEMMA MainLoopKept ==
    ASSUME MacInv,
           \/ \E d \in Mac!Delegates, op \in Calls : Mac!CallbackEnters(d, op)
           \/ Mac!CallbackStores \/ Mac!CallbackCounts \/ Mac!CallbackReturns
    PROVE  MacInv'
<1> USE DEF Mac!Delegates, Delegates
<1>1. /\ del \in [Delegates -> Shared] /\ cb \in {Mac!NoCall} \cup Completions
      /\ \A d \in Delegates : del[d] \in Shared /\ Kept(del[d], d, cb)
      /\ cb # Mac!NoCall => cb \in Completions /\ cb.d \in Delegates
  BY CallRuns DEF MacInv, Table
<1>2. ASSUME NEW d \in Delegates, NEW op \in Calls, Mac!CallbackEnters(d, op) PROVE MacInv'
  <2> DEFINE x == [del[d] EXCEPT !.owed = @ \ {op}, !.holders = @ \cup {"callback"}]
  <2>1. PICK status \in Statuses : cb' = [d |-> d, op |-> op, status |-> status, at |-> "entered"]
    BY <1>2 DEF Mac!CallbackEnters, Statuses
  <2>2. cb = Mac!NoCall /\ op \in del[d].owed /\ cur' = cur /\ at' = at /\ del' = [del EXCEPT ![d] = x]
    BY <1>1, <1>2 DEF Mac!CallbackEnters
  <2>3. x \in Shared /\ x.owed = del[d].owed \ {op} /\ x.pending = del[d].pending
        /\ x.holders = del[d].holders \cup {"callback"} /\ x.sdp = del[d].sdp /\ x.open = del[d].open
    BY <1>1 DEF Shared
  <2> HIDE DEF x
  <2>4. cb' \in Completions /\ cb' # Mac!NoCall /\ cb'.d = d /\ cb'.op = op /\ cb'.at = "entered"
    BY <2>1, CallRuns DEF Completions
  <2>5. Due(x) + 1 = Due(del[d]) /\ Due(x) \in Nat
    BY <2>2, <2>3 DEF Due, Calls
  <2>6. Kept(x, d, cb')
    BY <1>1, <2>2, <2>3, <2>4, <2>5 DEF Kept, RunsIn, Shared
  <2>7. Table(del', cb') /\ del'[d] = x /\ \A e \in Delegates \ {d} : del'[e] = del[e]
    BY <2>2, <2>3, <2>4, <2>6, OneChanges DEF RunsIn
  <2>8. ASSUME at \in Underway PROVE cur \in Delegates /\ Attempted(del'[cur], cur, cb', at)
    <3>1. cur \in Delegates /\ Attempted(del[cur], cur, cb, at)
      BY <2>8 DEF MacInv
    <3>2. CASE cur = d
      BY <2>2, <2>3, <2>4, <2>7, <3>1, <3>2 DEF Attempted, Calls
    <3>3. CASE cur # d
      BY <2>4, <2>7, <3>1, <3>3 DEF Attempted, RunsIn
    <3> QED
      BY <3>1, <3>2, <3>3
  <2> QED
    BY <2>2, <2>7, <2>8 DEF MacInv
<1>3. CASE Mac!CallbackStores
  <2>1. /\ cb \in Completions /\ cb.d \in Delegates /\ cb.at = "entered" /\ cb # Mac!NoCall
        /\ cb' = [cb EXCEPT !.at = "stored"] /\ cur' = cur /\ at' = at
    BY <1>1, <1>3 DEF Mac!CallbackStores
  <2>2. /\ cb' \in Completions /\ cb' # Mac!NoCall /\ cb'.d = cb.d /\ cb'.op = cb.op
        /\ cb'.at = "stored" /\ cb.status \in Statuses /\ cb.op \in Calls
    BY <2>1, CallRuns DEF Completions
  <2>3. \A x, e : Kept(x, e, cb') <=> Kept(x, e, cb)
    BY <2>1, <2>2 DEF Kept, RunsIn
  <2>4. \A x, e, a : Attempted(x, e, cb', a) <=> Attempted(x, e, cb, a)
    BY <2>1, <2>2 DEF Attempted, RunsIn
  <2>5. CASE cb.d # cur
    <3>1. del' = del
      BY <1>3, <2>5 DEF Mac!CallbackStores
    <3> QED
      BY <1>1, <2>1, <2>2, <2>3, <2>4, <3>1 DEF MacInv, Table
  <2>6. CASE cb.d = cur
    <3>1. PICK x \in Shared :
            /\ del' = [del EXCEPT ![cur] = x]
            /\ x.owed = del[cur].owed /\ x.pending = del[cur].pending /\ x.holders = del[cur].holders
            /\ IF cb.op = "sdp" THEN x.open = del[cur].open ELSE x.sdp = del[cur].sdp
      <4>1. CASE cb.op = "sdp"
        <5> DEFINE x == [del[cur] EXCEPT !.sdp = cb.status]
        <5>1. del' = [del EXCEPT ![cur] = x]
          BY <1>1, <1>3, <2>6, <4>1 DEF Mac!CallbackStores
        <5>2. x \in Shared /\ x.owed = del[cur].owed /\ x.pending = del[cur].pending
              /\ x.holders = del[cur].holders /\ x.open = del[cur].open
          BY <1>1, <2>1, <2>2, <2>6 DEF Shared
        <5> QED
          BY <4>1, <5>1, <5>2
      <4>2. CASE cb.op = "open"
        <5> DEFINE x == [del[cur] EXCEPT !.open = cb.status]
        <5>1. del' = [del EXCEPT ![cur] = x]
          BY <1>1, <1>3, <2>6, <4>2 DEF Mac!CallbackStores
        <5>2. x \in Shared /\ x.owed = del[cur].owed /\ x.pending = del[cur].pending
              /\ x.holders = del[cur].holders /\ x.sdp = del[cur].sdp
          BY <1>1, <2>1, <2>2, <2>6 DEF Shared
        <5> QED
          BY <4>2, <5>1, <5>2
      <4> QED
        BY <2>2, <4>1, <4>2 DEF Calls
    <3>2. cur \in Delegates /\ RunsIn(cb, cur) /\ cb.op \notin del[cur].owed /\ Kept(x, cur, cb')
      <4>1. cur \in Delegates /\ RunsIn(cb, cur) /\ Kept(del[cur], cur, cb)
        BY <1>1, <2>1, <2>6 DEF RunsIn
      <4>2. Due(x) = Due(del[cur])
        BY <3>1 DEF Due
      <4>3. Kept(x, cur, cb)
        BY <3>1, <4>1, <4>2 DEF Kept
      <4>4. cb.op \notin del[cur].owed
        BY <4>1 DEF Kept
      <4>5. Kept(x, cur, cb')
        <5>1. RunsIn(cb', cur) /\ RunsIn(cb, cur) /\ cb'.at # "counted" /\ cb.at # "counted"
              /\ cb'.op = cb.op
          BY <2>1, <2>2, <2>6 DEF RunsIn
        <5> QED
          BY <4>3, <5>1 DEF Kept
      <4> QED
        BY <4>1, <4>4, <4>5
    <3>3. \A e \in Delegates \ {cur} : ~RunsIn(cb', e)
      BY <2>2, <2>6 DEF RunsIn
    <3>4. cur \in Delegates /\ x \in Shared /\ del' = [del EXCEPT ![cur] = x]
          /\ cb' \in {Mac!NoCall} \cup Completions /\ Kept(x, cur, cb')
      BY <2>2, <3>1, <3>2
    <3>5. Table(del', cb') /\ del'[cur] = x
      BY <3>3, <3>4, OneChanges
    <3>6. ASSUME at \in Underway PROVE Attempted(x, cur, cb, at)
      <4>1. Attempted(del[cur], cur, cb, at)
        BY <3>6 DEF MacInv
      <4> QED
        BY <2>2, <3>1, <3>2, <4>1 DEF Attempted, Calls
    <3> QED
      BY <2>1, <2>4, <3>2, <3>5, <3>6 DEF MacInv
  <2> QED
    BY <2>5, <2>6
<1>4. CASE Mac!CallbackCounts
  <2> DEFINE d == cb.d
             x == [del[d] EXCEPT !.pending = @ - 1]
  <2>1. /\ cb \in Completions /\ d \in Delegates /\ cb.at = "stored" /\ cb # Mac!NoCall
        /\ cb' = [cb EXCEPT !.at = "counted"] /\ cur' = cur /\ at' = at
        /\ del' = [del EXCEPT ![d] = x]
    BY <1>1, <1>4 DEF Mac!CallbackCounts
  <2>2. /\ cb' \in Completions /\ cb' # Mac!NoCall /\ cb'.d = d /\ cb'.op = cb.op
        /\ cb'.at = "counted"
    BY <2>1, CallRuns DEF Completions
  <2>3. del[d].pending >= Due(del[d]) + 1 /\ Due(del[d]) \in Nat /\ del[d].pending \in Nat
    BY <1>1, <2>1 DEF Kept, RunsIn, Due, Shared
  <2>4. x \in Shared /\ x.owed = del[d].owed /\ x.pending = del[d].pending - 1
        /\ x.holders = del[d].holders /\ x.sdp = del[d].sdp /\ x.open = del[d].open
    BY <1>1, <2>1, <2>3 DEF Shared
  <2> HIDE DEF x
  <2>5. Kept(x, d, cb')
    BY <1>1, <2>1, <2>2, <2>3, <2>4 DEF Kept, RunsIn, Due
  <2>6. Table(del', cb') /\ del'[d] = x /\ \A e \in Delegates \ {d} : del'[e] = del[e]
    BY <2>1, <2>2, <2>4, <2>5, OneChanges DEF RunsIn
  <2>7. ASSUME at \in Underway PROVE cur \in Delegates /\ Attempted(del'[cur], cur, cb', at)
    <3>1. cur \in Delegates /\ Attempted(del[cur], cur, cb, at)
      BY <2>7 DEF MacInv
    <3>2. CASE cur = d
      BY <2>1, <2>2, <2>4, <2>6, <3>1, <3>2 DEF Attempted, RunsIn
    <3>3. CASE cur # d
      BY <2>1, <2>2, <2>6, <3>1, <3>3 DEF Attempted, RunsIn
    <3> QED
      BY <3>1, <3>2, <3>3
  <2> QED
    BY <2>1, <2>6, <2>7 DEF MacInv
<1>5. CASE Mac!CallbackReturns
  <2> DEFINE d == cb.d
             x == [del[d] EXCEPT !.holders = @ \ {"callback"}]
             ds == [del EXCEPT ![d] = x]
  <2>1. /\ cb \in Completions /\ d \in Delegates /\ cb' = Mac!NoCall /\ cur' = cur /\ at' = at
        /\ del' = Mac!Released(ds)
    BY <1>1, <1>5 DEF Mac!CallbackReturns
  <2>2. x \in Shared /\ x.owed = del[d].owed /\ x.pending = del[d].pending
        /\ x.holders = del[d].holders \ {"callback"} /\ x.sdp = del[d].sdp /\ x.open = del[d].open
    BY <1>1, <2>1 DEF Shared
  <2> HIDE DEF x
  <2>3. \A e : ~RunsIn(Mac!NoCall, e)
    BY DEF RunsIn
  <2>4. \A e \in Delegates : Kept(del[e], e, Mac!NoCall)
    <3> SUFFICES ASSUME NEW e \in Delegates PROVE Kept(del[e], e, Mac!NoCall)
      OBVIOUS
    <3>1. del[e].pending \in Nat /\ Due(del[e]) \in Nat
      BY <1>1 DEF Shared, Due
    <3> QED
      BY <1>1, <2>3, <3>1 DEF Kept
  <2>5. Kept(x, d, Mac!NoCall)
    BY <2>1, <2>2, <2>3, <2>4 DEF Kept, Due
  <2>6. /\ ds \in [Delegates -> Shared] /\ ds[d] = x
        /\ \A e \in Delegates \ {d} : ds[e] = del[e]
    BY <1>1, <2>1, <2>2
  <2> HIDE DEF ds
  <2>7. Table(ds, Mac!NoCall)
    BY <2>1, <2>4, <2>5, <2>6 DEF Table
  <2>8. Table(del', cb') /\ \A e \in Delegates : del'[e] \in {ds[e], Mac!Fresh}
    BY <2>1, <2>7, ReleasedKept
  <2>9. ASSUME at \in Underway PROVE cur \in Delegates /\ Attempted(del'[cur], cur, cb', at)
    <3>1. cur \in Delegates /\ Attempted(del[cur], cur, cb, at)
      BY <2>9 DEF MacInv
    <3>2. Attempted(ds[cur], cur, Mac!NoCall, at)
      BY <2>1, <2>2, <2>3, <2>6, <3>1 DEF Attempted
    <3> QED
      BY <2>1, <2>3, <2>8, <3>1, <3>2, FreshAttempted
  <2> QED
    BY <2>1, <2>8, <2>9 DEF MacInv
<1> QED
  BY <1>2, <1>3, <1>4, <1>5

LEMMA LinkKept ==
    ASSUME MacInv,
           \/ Mac!rfcommChannelClosed \/ Mac!write_watchdog
           \/ Mac!DropOwner \/ Mac!DropInner
    PROVE  MacInv'
<1> USE DEF Mac!Delegates, Delegates
<1>1. /\ del \in [Delegates -> Shared] /\ cb \in {Mac!NoCall} \cup Completions
      /\ \A d \in Delegates : del[d] \in Shared /\ Kept(del[d], d, cb)
  BY DEF MacInv, Table
<1>2. CASE Mac!rfcommChannelClosed \/ Mac!write_watchdog
  <2> DEFINE x == [del[cur] EXCEPT !.closed = TRUE]
  <2>1. cb' = cb /\ cur' = cur /\ at' = at /\ del' = [del EXCEPT ![cur] = x]
    BY <1>2 DEF Mac!rfcommChannelClosed, Mac!write_watchdog
  <2>2. CASE cur \in Delegates
    <3>1. /\ x \in Shared /\ x.owed = del[cur].owed /\ x.pending = del[cur].pending
          /\ x.holders = del[cur].holders /\ x.sdp = del[cur].sdp /\ x.open = del[cur].open
      BY <1>1, <2>2 DEF Shared
    <3> HIDE DEF x
    <3>2. Due(x) = Due(del[cur])
      BY <3>1 DEF Due
    <3>3. Kept(x, cur, cb)
      BY <1>1, <2>2, <3>1, <3>2 DEF Kept
    <3>4. Table(del', cb') /\ del'[cur] = x
      BY <1>1, <2>1, <2>2, <3>1, <3>3, OneChanges
    <3>5. \A a : Attempted(x, cur, cb, a) <=> Attempted(del[cur], cur, cb, a)
      BY <3>1 DEF Attempted
    <3> QED
      BY <2>1, <2>2, <3>4, <3>5 DEF MacInv
  <2>3. CASE cur \notin Delegates
    <3>1. del' = del
      BY <1>1, <2>1, <2>3
    <3> QED
      BY <2>1, <3>1 DEF MacInv
  <2> QED
    BY <2>2, <2>3
<1>3. CASE Mac!DropOwner
  BY <1>3 DEF Mac!DropOwner, MacInv, Underway, Attempted
<1>4. CASE Mac!DropInner
  <2> DEFINE x == [del[cur] EXCEPT !.holders = @ \ {"link"}]
             ds == [del EXCEPT ![cur] = x]
  <2>1. /\ cur \in Delegates /\ Attempted(del[cur], cur, cb, "dropping")
        /\ cb' = cb /\ cur' = 0 /\ at' = "idle" /\ del' = Mac!Released(ds)
    BY <1>4 DEF Mac!DropInner, Mac!None, MacInv, Underway
  <2>2. /\ x \in Shared /\ x.owed = {} /\ x.pending = del[cur].pending
        /\ x.holders = del[cur].holders \ {"link"} /\ del[cur].owed = {}
    BY <1>1, <2>1 DEF Shared, Attempted
  <2> HIDE DEF x
  <2>3. Kept(x, cur, cb)
    BY <1>1, <2>1, <2>2 DEF Kept, Due
  <2>4. ds \in [Delegates -> Shared] /\ \A d \in Delegates : Kept(ds[d], d, cb)
    BY <1>1, <2>1, <2>2, <2>3
  <2> HIDE DEF ds
  <2>5. Table(del', cb')
    BY <1>1, <2>1, <2>4, ReleasedKept DEF Table
  <2> QED
    BY <2>1, <2>5 DEF MacInv, Underway
<1> QED
  BY <1>2, <1>3, <1>4

LEMMA MacKept == ASSUME MacInv, [Mac!Next]_Mac!vars PROVE MacInv'
<1>1. ASSUME UNCHANGED <<del, cb, cur>>, at' = at \/ at' = "next" PROVE MacInv'
  BY <1>1 DEF MacInv, Underway
<1>2. CASE \/ Mac!request_bluetooth_permission \/ Mac!UserAnswers \/ Mac!HostComesUp
           \/ Mac!Open \/ Mac!PeerStopsReading \/ Mac!DeadlinePasses
           \/ UNCHANGED Mac!vars
           \/ \E who \in Mac!Writers :
                 Mac!WriteBegins(who) \/ Mac!WriteLocks(who) \/ Mac!WriteReturns(who)
  BY <1>1, <1>2 DEF Mac!request_bluetooth_permission, Mac!UserAnswers, Mac!HostComesUp,
       Mac!Open, Mac!PeerStopsReading, Mac!DeadlinePasses, Mac!vars,
       Mac!WriteBegins, Mac!WriteLocks, Mac!WriteReturns
<1>3. CASE \/ Mac!performSDPQuery \/ Mac!openRFCOMMChannelAsync
           \/ Mac!Attempt \/ Mac!Connected
  BY <1>3, OpeningKept
<1>4. CASE \/ \E d \in Mac!Delegates, op \in {"sdp", "open"} : Mac!CallbackEnters(d, op)
           \/ Mac!CallbackStores \/ Mac!CallbackCounts \/ Mac!CallbackReturns
  BY <1>4, MainLoopKept DEF Calls
<1>5. CASE \/ Mac!rfcommChannelClosed \/ Mac!write_watchdog
           \/ Mac!DropOwner \/ Mac!DropInner
  BY <1>5, LinkKept
<1> QED
  BY <1>2, <1>3, <1>4, <1>5 DEF Mac!Next

LEMMA MacSound == ASSUME MacInv PROVE Mac!DelegateOutlivesItsCompletions
<1>1. \A d \in Delegates : Kept(del[d], d, cb)
  BY DEF MacInv, Table
<1>2. cb # Mac!NoCall => cb.d \in Delegates
  BY CallRuns DEF MacInv, Table
<1> QED
  BY <1>1, <1>2 DEF Kept, RunsIn, Mac!DelegateOutlivesItsCompletions, Mac!Delegates, Delegates

----------------------------------------------------------------------------
(* The backends side by side: the invariant of the one that runs.          *)

RadioInv ==
    /\ part = "mac" => MacInv
    /\ part = "windows" => LookupInv /\ PeerInv
    /\ part = "ble" => dir = "up" \/ BleInv

LEMMA RadioStarts == ASSUME TransportInit PROVE RadioInv
<1>1. Mac!Init /\ Win!Init /\ Ble!Init /\ dir \in {"up", "down"}
  BY DEF TransportInit, Ble!Init
<1> QED
  BY <1>1, MacStarts, WindowsStarts, BleStarts DEF RadioInv

LEMMA DirectionStays == ASSUME Ble!Next PROVE dir' = dir
BY DEF Ble!Next, Ble!open, Ble!LinkLost, Ble!send, Ble!write, Ble!Launched, Ble!NotifyValueAsync,
       Ble!ChunkLost, Ble!SendTimesOut, Ble!feed_chunk, Ble!SlotAges

LEMMA RadioKept == ASSUME RadioInv, [TransportNext]_transportvars PROVE RadioInv'
<1>1. part' = part
  BY DEF TransportNext, transportvars
<1>2. CASE part = "mac"
  <2>1. Mac!Next \/ UNCHANGED Mac!vars
    BY <1>2 DEF TransportNext, transportvars, macvars, Mac!vars, Codecs
  <2>2. MacInv'
    BY <1>2, <2>1, MacKept DEF RadioInv
  <2> QED
    BY <1>1, <1>2, <2>2 DEF RadioInv
<1>3. CASE part = "windows"
  <2>1. Win!Next \/ UNCHANGED winvars
    BY <1>3 DEF TransportNext, transportvars, Codecs
  <2>2. LookupInv' /\ PeerInv'
    BY <1>3, <2>1, Looked, PeerKept DEF RadioInv
  <2> QED
    BY <1>1, <1>3, <2>2 DEF RadioInv
<1>4. CASE part = "ble"
  <2>1. Ble!Next \/ UNCHANGED blevars
    BY <1>4 DEF TransportNext, transportvars, Codecs
  <2>2. dir' = dir
    BY <2>1, DirectionStays DEF blevars
  <2>3. BleInv => BleInv'
    BY <2>1, BleKept
  <2>4. dir = "up" \/ BleInv
    BY <1>4 DEF RadioInv
  <2>5. dir' = "up" \/ BleInv'
    BY <2>2, <2>3, <2>4
  <2> QED
    BY <1>1, <1>4, <2>5 DEF RadioInv
<1> QED
  BY <1>1, <1>2, <1>3, <1>4 DEF RadioInv

LEMMA RadioSound == ASSUME RadioInv PROVE RadioStateIsSound
<1>1. part = "ble" /\ dir = "up" => Ble!OnePacketPerSlot
  BY DEF Ble!OnePacketPerSlot
<1> QED
  BY <1>1, MacSound, WindowsSound, BleSound DEF RadioInv, RadioStateIsSound

(* Whatever times out, is refused, is lost or goes away, and however many  *)
(* delegates, clients, lookups and packet ids there are: a completion of   *)
(* IOBluetooth reaches a delegate somebody still holds, one lookup of the  *)
(* channel runs for a client and one client is heard per session of the    *)
(* listener, and no slot of the client joins chunks of two packets.        *)
THEOREM RadioStaysSound == TransportSpec => []RadioStateIsSound
<1>1. TransportInit => RadioInv
  BY RadioStarts
<1>2. RadioInv /\ [TransportNext]_transportvars => RadioInv'
  BY RadioKept
<1>3. RadioInv => RadioStateIsSound
  BY RadioSound
<1> QED
  BY <1>1, <1>2, <1>3, PTL DEF TransportSpec

----------------------------------------------------------------------------
(* The codecs side by side: what the inputs of each have grown to.         *)

NameLetter == Letter("name") \cup {1, 2}

GivenTo(t, given) ==
    /\ given \in Seq(AnyValue) /\ Len(given) <= Len(Writes(t))
    /\ \A i \in 1..Len(given) : given[i] \in ValuesOf(Writes(t)[i])

CodecInv ==
    /\ part = "cobs" => input \in Seq(Bytes)
    /\ part = "name" => input \in Seq(NameLetter)
    /\ part = "text" => input \in Seq(TextByte)
    /\ part = "message" => input \in Seq(Byte) /\ type \in Types /\ GivenTo(type, fields)
    /\ part = "frames" => FrameInv

LEMMA LettersAre ==
    /\ Letter("cobs") \subseteq Bytes /\ Letter("name") \subseteq NameLetter
    /\ Letter("text") \subseteq TextByte /\ Letter("message") \subseteq Byte
<1>1. Letter("cobs") \subseteq Bytes
  <2>1. Letter("cobs") = {0, 1, MaxCode}
    BY DEF Letter
  <2> QED
    BY <2>1, MaxCodeAssumption DEF Bytes
<1>2. Letter("text") \subseteq TextByte
  <2>1. Letter("text") = 0..3
    BY DEF Letter
  <2> QED
    BY <2>1 DEF TextByte
<1>3. Letter("message") \subseteq Byte
  <2>1. Letter("message") = {0, 1, 4, Lead, Cont}
    BY DEF Letter
  <2> QED
    BY <2>1, MessagesAssumption DEF Byte, Lead, Cont
<1> QED
  BY <1>1, <1>2, <1>3 DEF NameLetter

(* A number of two bytes or more has room for the values tried.            *)
LEMMA SpanGrows ==
    ASSUME NEW m \in Nat
    PROVE  Span(m + 1) \in Nat /\ Span(m + 1) >= Radix /\ (m # 0 => Span(m + 1) > Radix)
<1> DEFINE R == Radix
<1>1. R \in Nat /\ R > 8
  BY MessagesAssumption
<1>2. \A n \in Nat : /\ Span(n) \in Nat /\ Span(n) >= 1
                     /\ Span(n + 1) \in Nat /\ Span(n + 1) = Span(n) * R
  BY SpanIs
<1> HIDE DEF R
<1>3. \A x \in Nat : (x >= 1 => x * R >= R) /\ (x >= R => x * R > R)
  BY <1>1
<1>4. \A n \in Nat : Span(n + 1) >= R
  BY <1>2, <1>3
<1>5. ASSUME m # 0 PROVE Span(m + 1) > R
  <2>1. m - 1 \in Nat /\ (m - 1) + 1 = m
    BY <1>5
  <2>2. Span(m) >= R
    BY <1>4, <2>1
  <2> QED
    BY <1>2, <1>3, <2>2
<1> QED
  BY <1>2, <1>4, <1>5 DEF R

LEMMA SpansAreWide ==
    \A n \in {1, 2, 4, 8} : Span(n) \in Nat /\ Span(n) >= Radix /\ (n # 1 => Span(n) > Radix)
<1>1. /\ 0 \in Nat /\ 0 + 1 = 1 /\ 1 \in Nat /\ 1 + 1 = 2
      /\ 3 \in Nat /\ 3 + 1 = 4 /\ 7 \in Nat /\ 7 + 1 = 8
  OBVIOUS
<1>2. \A n \in {1, 2, 4, 8} : \E m \in Nat : m + 1 = n /\ (n # 1 => m # 0)
  BY <1>1
<1> QED
  BY <1>2, SpanGrows

LEMMA ValuesTried ==
    ASSUME NEW f \in FieldKinds
    PROVE  FieldValues(f) \subseteq ValuesOf(f)
<1> DEFINE P == Span(f.size)
<1>0. Radix \in Nat /\ Radix > 8
  BY MessagesAssumption
<1>1. CASE f \in {U(1), U(2), U(4), U(8)}
  <2>1. f.kind = "unsigned" /\ f.size \in {1, 2, 4, 8}
    BY <1>1 DEF U
  <2>2. FieldValues(f) = IF f.size = 1 THEN 0..Radix - 1 ELSE {0, 1, Radix, P - 1}
    BY <2>1 DEF FieldValues
  <2>3. ValuesOf(f) = 0..(P - 1)
    BY <2>1 DEF ValuesOf
  <2>4. P \in Nat /\ P >= Radix
    BY <2>1, SpansAreWide
  <2>5. CASE f.size = 1
    BY <1>0, <2>2, <2>3, <2>4, <2>5
  <2>6. CASE f.size # 1
    <3>1. P > Radix
      BY <2>1, <2>6, SpansAreWide
    <3> HIDE DEF P
    <3> QED
      BY <1>0, <2>2, <2>3, <2>4, <2>6, <3>1
  <2> QED
    BY <2>5, <2>6
<1>2. CASE f \in {I(2), I(4)}
  <2>1. f.kind = "signed" /\ f.size \in {1, 2, 4, 8}
    BY <1>2 DEF I
  <2>2. FieldValues(f) = {0, 1, -1, (P \div 2) - 1, -(P \div 2)}
    BY <2>1 DEF FieldValues
  <2>3. ValuesOf(f) = ((P \div 2) - P)..((P \div 2) - 1)
    BY <2>1 DEF ValuesOf
  <2>4. P \in Nat /\ P > 8
    BY <1>0, <2>1, SpansAreWide
  <2> HIDE DEF P
  <2> QED
    BY <2>2, <2>3, <2>4
<1>3. CASE f = Flag
  BY <1>3 DEF Flag, FieldValues, ValuesOf
<1>4. CASE f \in {Str(NameMax), Str(ErrorMax)}
  <2>1. f.kind = "string"
    BY <1>4 DEF Str
  <2>2. FieldValues(f) = (UNION {[1..n -> {1, Lead, Cont}] : n \in 0..3}) \cup {[i \in 1..10 |-> 1]}
    BY <2>1 DEF FieldValues
  <2>3. 1 \in Byte /\ Lead \in Byte /\ Cont \in Byte
    BY <1>0 DEF Byte, Lead, Cont
  <2>4. \A n \in Nat : [1..n -> {1, Lead, Cont}] \subseteq [1..n -> Byte]
    BY <2>3
  <2>5. \A n \in Nat : [1..n -> Byte] \subseteq Seq(Byte)
    BY IsSequence
  <2>6. \A n \in Nat : [i \in 1..n |-> 1] \in [1..n -> Byte]
    BY <2>3
  <2>7. ValuesOf(f) = Seq(Byte)
    BY <2>1 DEF ValuesOf
  <2>8. \A n \in 0..3 : [1..n -> {1, Lead, Cont}] \subseteq Seq(Byte)
    BY <2>4, <2>5
  <2>9. UNION {[1..n -> {1, Lead, Cont}] : n \in 0..3} \subseteq Seq(Byte)
    BY <2>8
  <2>10. \A n \in Nat : [i \in 1..n |-> 1] \in Seq(Byte)
    BY <2>5, <2>6
  <2> DEFINE short == UNION {[1..n -> {1, Lead, Cont}] : n \in 0..3}
             long == [i \in 1..10 |-> 1]
  <2>11. long \in Seq(Byte)
    BY <2>10
  <2>12. short \subseteq Seq(Byte) /\ FieldValues(f) = short \cup {long}
    BY <2>2, <2>9
  <2> HIDE DEF short, long
  <2> QED
    BY <2>7, <2>11, <2>12
<1>5. CASE f = Rest
  <2>1. FieldValues(f) = {<< >>, << 0 >>, << 5, 0, 1 >>}
    BY <1>5 DEF FieldValues, Rest
  <2>2. 0 \in Byte /\ 1 \in Byte /\ 5 \in Byte
    BY <1>0 DEF Byte
  <2>3. << >> \in Seq(Byte) /\ << 0 >> \in Seq(Byte) /\ << 5, 0, 1 >> \in Seq(Byte)
    BY <2>2
  <2>4. ValuesOf(f) = Seq(Byte)
    BY <1>5 DEF ValuesOf, Rest
  <2> QED
    BY <2>1, <2>3, <2>4
<1> QED
  BY <1>1, <1>2, <1>3, <1>4, <1>5 DEF FieldKinds

LEMMA CodecsStart == ASSUME TransportInit PROVE CodecInv
<1>1. /\ F!Init /\ input = <<>> /\ fields = <<>>
      /\ part = "message" => type \in Types
  BY DEF TransportInit
<1>2. FrameInv
  BY <1>1, FramesStart, TransportAssumption
<1>3. ASSUME part = "message" PROVE GivenTo(type, fields)
  <2>1. Writes(type) \in Seq(FieldKinds)
    BY <1>1, <1>3, LayoutIs DEF Layouts
  <2>2. Len(Writes(type)) \in Nat
    BY <2>1, OfSequence
  <2>3. fields \in Seq(AnyValue) /\ Len(fields) = 0
    BY <1>1
  <2> QED
    BY <2>2, <2>3 DEF GivenTo
<1> QED
  BY <1>1, <1>2, <1>3 DEF CodecInv

LEMMA InputGrows ==
    ASSUME NEW S, input \in Seq(S), NEW L, L \subseteq S, NEW b \in L, input' = Append(input, b)
    PROVE  input' \in Seq(S)
BY AppendProperties

LEMMA FieldAdded ==
    ASSUME type \in Types, GivenTo(type, fields), AddField
    PROVE  type' = type /\ input' = input /\ GivenTo(type, fields)'
<1> DEFINE w == Writes(type)
           n == Len(fields)
<1>1. w \in Seq(FieldKinds)
  BY LayoutIs DEF Layouts
<1>2. Len(w) \in Nat /\ \A i \in 1..Len(w) : w[i] \in FieldKinds
  BY <1>1, OfSequence
<1>3. /\ fields \in Seq(AnyValue) /\ n \in Nat /\ n <= Len(w)
      /\ \A i \in 1..n : fields[i] \in ValuesOf(w[i])
  BY OfSequence DEF GivenTo
<1>4. /\ n < Len(w) /\ type' = type /\ input' = input
      /\ \E v \in FieldValues(w[n + 1]) : fields' = Append(fields, v)
  BY DEF AddField
<1>5. PICK v \in FieldValues(w[n + 1]) : fields' = Append(fields, v)
  BY <1>4
<1> HIDE DEF w, n
<1>6. n + 1 \in 1..Len(w)
  BY <1>2, <1>3, <1>4
<1>7. v \in ValuesOf(w[n + 1]) /\ v \in AnyValue
  BY <1>2, <1>5, <1>6, ValuesTried DEF AnyValue
<1>8. /\ fields' \in Seq(AnyValue) /\ Len(fields') = n + 1
      /\ fields'[n + 1] = v /\ \A i \in 1..n : fields'[i] = fields[i]
  BY <1>3, <1>5, <1>7, AppendProperties DEF n
<1>9. \A i \in 1..(n + 1) : fields'[i] \in ValuesOf(w[i])
  BY <1>3, <1>7, <1>8
<1>10. n + 1 <= Len(w)
  BY <1>6
<1> QED
  BY <1>4, <1>8, <1>9, <1>10 DEF GivenTo, w

LEMMA CodecsKept == ASSUME CodecInv, [TransportNext]_transportvars PROVE CodecInv'
<1>1. part' = part
  BY DEF TransportNext, transportvars
<1>2. CASE part = "frames"
  <2>1. [F!Next]_(F!vars)
    BY <1>2 DEF TransportNext, transportvars, reader, F!vars, Codecs
  <2>2. FrameInv'
    BY <1>2, <2>1, FramesHold, TransportAssumption DEF CodecInv
  <2> QED
    BY <1>1, <1>2, <2>2 DEF CodecInv
<1>3. CASE part \in Codecs
  <2>1. CodecNext \/ UNCHANGED codec
    BY <1>3 DEF TransportNext, transportvars, Codecs
  <2>2. CASE Grow
    <3>1. PICK b \in Letter(part) : input' = Append(input, b)
      BY <2>2 DEF Grow
    <3>2. type' = type /\ fields' = fields
      BY <2>2 DEF Grow
    <3>3. part = "cobs" => input' \in Seq(Bytes)
      BY <3>1, LettersAre, InputGrows DEF CodecInv
    <3>4. part = "name" => input' \in Seq(NameLetter)
      BY <3>1, LettersAre, InputGrows DEF CodecInv
    <3>5. part = "text" => input' \in Seq(TextByte)
      BY <3>1, LettersAre, InputGrows DEF CodecInv
    <3>6. part = "message" => input' \in Seq(Byte)
      BY <3>1, LettersAre, InputGrows DEF CodecInv
    <3>7. part = "message" => type' \in Types /\ GivenTo(type, fields)'
      BY <3>2 DEF CodecInv, GivenTo
    <3> QED
      BY <1>1, <1>3, <3>3, <3>4, <3>5, <3>6, <3>7 DEF CodecInv, Codecs
  <2>3. CASE AddField
    <3>1. part = "message"
      BY <2>3 DEF AddField
    <3>2. type' = type /\ input' = input /\ GivenTo(type, fields)'
      BY <2>3, <3>1, FieldAdded DEF CodecInv
    <3> QED
      BY <1>1, <3>1, <3>2 DEF CodecInv
  <2>4. CASE UNCHANGED codec
    <3>1. input' = input /\ type' = type /\ fields' = fields
      BY <2>4 DEF codec
    <3> QED
      BY <1>1, <1>3, <3>1 DEF CodecInv, Codecs, GivenTo
  <2> QED
    BY <2>1, <2>2, <2>3, <2>4 DEF CodecNext
<1> QED
  BY <1>1, <1>2, <1>3 DEF CodecInv, Codecs

LEMMA CodecsSound == ASSUME CodecInv PROVE CodecsAreExact
<1>1. ASSUME part = "cobs"
      PROVE  /\ DecodesOk(Encode(input)) /\ Decode(Encode(input)) = input
             /\ \A n \in 1..Len(Encode(input)) - 2 :
                  LET torn == Append(SubSeq(Encode(input), 1, n), 0)
                  IN  DecodesOk(torn) => IsPrefix(Decode(torn), input)
  <2>1. input \in Seq(Bytes)
    BY <1>1 DEF CodecInv
  <2> QED
    BY <2>1, CobsRoundTrip, TornFrameIsPrefix, Zenon
<1>2. ASSUME part = "message"
      PROVE  /\ Len(fields) = Len(Writes(type)) => Arrives(type, fields)
             /\ ReadsAgain(type, input)
  <2>1. input \in Seq(Byte) /\ type \in Types /\ GivenTo(type, fields)
    BY <1>2 DEF CodecInv
  <2>2. ReadsAgain(type, input)
    BY <2>1, AcceptedArrives
  <2>3. Len(fields) = Len(Writes(type)) => fields \in FieldsOf(type)
    BY <2>1 DEF GivenTo, FieldsOf
  <2> QED
    BY <2>1, <2>2, <2>3, MessagesArrive
<1>3. ASSUME part = "name" PROVE FileArrives(input, <<1, 2>>) /\ NameIsUsable(input)
  <2>1. input \in Seq(NameLetter)
    BY <1>3 DEF CodecInv
  <2>2. <<1, 2>> \in Seq(NameLetter)
    BY DEF NameLetter
  <2> QED
    BY <2>1, <2>2, ClipFileAssumption, HeaderRoundTrip, EveryNameIsUsable
<1>4. ASSUME part = "text" PROVE SeamsDoNotShow(input)
  BY <1>4, SeamsNeverShow DEF CodecInv
<1>5. ASSUME part = "frames" PROVE F!FramesOfTheStream
  BY <1>5 DEF CodecInv, FrameInv, Sound, Held, F!FramesOfTheStream
<1> QED
  BY <1>1, <1>2, <1>3, <1>4, <1>5 DEF CodecsAreExact

(* Everything the codecs promise, of whatever the run gives them and for   *)
(* every size of block, name, error text, number and frame: a packet       *)
(* survives COBS and a torn frame shows nothing else, a message and a file *)
(* arrive as they were sent, a name is usable, the seams between two reads *)
(* do not show in a text, and a stream gives its frames.                   *)
THEOREM CodecsStayExact == TransportSpec => []CodecsAreExact
<1>1. TransportInit => CodecInv
  BY CodecsStart
<1>2. CodecInv /\ [TransportNext]_transportvars => CodecInv'
  BY CodecsKept
<1>3. CodecInv => CodecsAreExact
  BY CodecsSound
<1> QED
  BY <1>1, <1>2, <1>3, PTL DEF TransportSpec
=============================================================================
