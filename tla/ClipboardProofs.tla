-------------------------- MODULE ClipboardProofs --------------------------
(***************************************************************************)
(* Proofs about the clipboard the two machines share: none ever holds      *)
(* bytes of two payloads, for any payloads, settings, history and batch    *)
(* size and any number of copies.  As in the model a frame is lost, or a   *)
(* write fails, at most once.                                              *)
(***************************************************************************)
EXTENDS ClipboardSync, FiniteSetTheorems, SequenceTheorems, TLAPS

Packet ==
    [k : {"offer"}, item : Payload, at : {0}]
        \cup [k : {"chunk"}, item : Payload, at : Nat]
        \cup [k : {"decline", "other"}, item : Payload \cup {None}, at : {0}]

Pieces == [k : {"chunk"}, item : Payload, at : Nat]

(* p is the chunk after r of the same transfer; an offer stands at 0.      *)
Follows(p, r) == IsClip(r) /\ p.item = r.item /\ p.at = r.at + 1

-----------------------------------------------------------------------------
(* Reassembly.                                                             *)
Indices(in) == {c.at : c \in in.got}

InOK(in) ==
    /\ in = [want |-> in.want, got |-> in.got, count |-> in.count]
    /\ in.want \in Payload \cup {None}
    /\ in.got \subseteq Pieces
    /\ IsFiniteSet(in.got) /\ IsFiniteSet(Indices(in))
    /\ in.count \in Nat /\ in.count <= 2 * Cardinality(Indices(in))
    /\ in.want = None => in.got = {} /\ in.count = 0

(* All that was received is the beginning of the transfer wanted.          *)
Whole(in) ==
    in.want # None =>
        \E a \in 0 .. in.want.n - 1 :
            in.got = {Chunk(in.want, i) : i \in 1 .. a} /\ in.count = 2 * a

(* p is the next chunk of it.                                              *)
Continues(in, p) == in.want # None => p.item = in.want /\ in.count = 2 * (p.at - 1)

(* Before p arrives: what was received is of p's transfer and comes before *)
(* it, or it comes later, is short of the end of the wanted one, and p or  *)
(* its successors will replace it.                                         *)
Coherent(in, p) ==
    \A c \in in.got :
        \/ c.item = p.item /\ c.at < p.at
        \/ c.at >= p.at /\ c.at < in.want.n

LEMMA IdleOK == InOK(Idle) /\ Whole(Idle) /\ Idle.want = None
<1>1. IsFiniteSet(Idle.got) /\ Indices(Idle) = {} BY FS_EmptySet DEF Idle, Indices
<1>2. Cardinality(Indices(Idle)) = 0 BY <1>1, FS_EmptySet
<1> QED BY <1>1, <1>2 DEF InOK, Idle, Whole

(* An offer starts over.                                                   *)
LEMMA OfferStarts ==
    ASSUME NEW in, NEW i \in Payload, NEW allowed
    PROVE  /\ InOK(on_offer(in, i, allowed)) /\ Whole(on_offer(in, i, allowed))
           /\ \A p : Follows(p, Offer(i)) => /\ Coherent(on_offer(in, i, allowed), p)
                                            /\ Continues(on_offer(in, i, allowed), p)
<1> DEFINE o == on_offer(in, i, allowed)
<1>1. CASE i.kind \notin allowed
  <2>1. o = Idle BY <1>1 DEF on_offer
  <2> QED BY <2>1, IdleOK DEF Coherent, Continues, Idle
<1>2. CASE i.kind \in allowed
  <2>1. o = [want |-> i, got |-> {}, count |-> 0] BY <1>2 DEF on_offer
  <2>2. IsFiniteSet(o.got) /\ Indices(o) = {} BY <2>1, FS_EmptySet DEF Indices
  <2>3. Cardinality(Indices(o)) = 0 BY <2>2, FS_EmptySet
  <2>4. InOK(o)
    <3>1. IsFiniteSet(Indices(o)) BY <2>2, FS_EmptySet
    <3> QED BY <2>1, <2>2, <2>3, <3>1 DEF InOK, Payload, None
  <2>5. Whole(o)
    <3>1. 0 \in 0 .. o.want.n - 1 BY <2>1 DEF Payload
    <3>2. o.got = {Chunk(o.want, x) : x \in 1 .. 0} BY <2>1
    <3> QED BY <2>1, <3>1, <3>2 DEF Whole
  <2>6. ASSUME NEW p, Follows(p, Offer(i)) PROVE Coherent(o, p) /\ Continues(o, p)
    BY <2>1, <2>6 DEF Follows, Offer, Coherent, Continues
  <2> QED BY <2>4, <2>5, <2>6
<1> QED BY <1>1, <1>2

LEMMA StoreOK ==
    ASSUME NEW in, InOK(in), in.want # None, NEW p \in Pieces
    PROVE  /\ InOK(store(in, p)) /\ store(in, p).want = in.want
           /\ store(in, p).got = {c \in in.got : c.at # p.at} \cup {p}
<1> DEFINE s == store(in, p)
           kept == {c \in in.got : c.at # p.at}
<1>1. /\ s.want = in.want /\ s.got = kept \cup {p}
      /\ s.count = IF HasIndex(in, p.at) THEN in.count ELSE in.count + ChunkSize(p)
      /\ s = [want |-> s.want, got |-> s.got, count |-> s.count]
  <2>1. in = [want |-> in.want, got |-> in.got, count |-> in.count] BY DEF InOK
  <2> DEFINE more == IF HasIndex(in, p.at) THEN in.count ELSE in.count + ChunkSize(p)
  <2>2. s = [in EXCEPT !.got = kept \cup {p}, !.count = more] BY Zenon DEF store
  <2> HIDE DEF s, more, kept
  <2>3. s = [want |-> in.want, got |-> kept \cup {p}, count |-> more] BY <2>1, <2>2
  <2> QED BY <2>3 DEF more
<1>2. IsFiniteSet(s.got)
  <2>1. IsFiniteSet(kept) BY FS_Subset DEF InOK
  <2> QED BY <2>1, <1>1, FS_AddElement
<1>3. Indices(s) = Indices(in) \cup {p.at} BY <1>1 DEF Indices
<1>4. HasIndex(in, p.at) <=> p.at \in Indices(in) BY DEF HasIndex, Indices
<1>5. /\ IsFiniteSet(Indices(s))
      /\ Cardinality(Indices(s)) = IF p.at \in Indices(in) THEN Cardinality(Indices(in))
                                   ELSE Cardinality(Indices(in)) + 1
  BY <1>3, FS_AddElement DEF InOK
<1>6. Cardinality(Indices(in)) \in Nat BY FS_CardinalityType DEF InOK
<1>7. ChunkSize(p) \in 1 .. 2 BY DEF ChunkSize
<1>8. in.count \in Nat /\ in.count <= 2 * Cardinality(Indices(in)) BY DEF InOK
<1>9. s.count \in Nat /\ s.count <= 2 * Cardinality(Indices(s))
  <2> HIDE DEF s
  <2>1. CASE p.at \in Indices(in) BY <1>1, <1>4, <1>5, <1>8, <2>1
  <2>2. CASE p.at \notin Indices(in)
    <3>1. s.count = in.count + ChunkSize(p) /\ Cardinality(Indices(s)) = Cardinality(Indices(in)) + 1
      BY <1>1, <1>4, <1>5, <2>2
    <3> QED BY <3>1, <1>6, <1>7, <1>8
  <2> QED BY <2>1, <2>2
<1>10. s.got \subseteq Pieces BY <1>1 DEF InOK
<1>11. s.want \in Payload \cup {None} /\ s.want # None BY <1>1 DEF InOK
<1> HIDE DEF s
<1>12. InOK(s) BY <1>1, <1>2, <1>5, <1>9, <1>10, <1>11 DEF InOK
<1> QED BY <1>1, <1>12 DEF s

(* What is complete is p's transfer alone, or is dropped: a chunk of       *)
(* another one would leave a gap or come before the end.                   *)
LEMMA FullIsPure ==
    ASSUME NEW in, InOK(in), in.want # None, NEW p \in Pieces, Coherent(in, p),
           Full(store(in, p))
    PROVE  commit(store(in, p)) \in {None, p.item}
<1> DEFINE s == store(in, p)
           K == Cardinality(s.got)
           from == {c.item : c \in s.got}
<1>1. InOK(s) /\ s.want = in.want /\ s.got = {c \in in.got : c.at # p.at} \cup {p} BY StoreOK
<1>2. Coherent(in, p) /\ Full(s) OBVIOUS
<1> HIDE DEF s
<1>3. K \in Nat BY <1>1, FS_CardinalityType DEF InOK
<1>4. CASE ~ contiguous(s) BY <1>4 DEF commit, s
<1>5. CASE contiguous(s)
  <2>1. Indices(s) = 1 .. K BY <1>5 DEF contiguous, Indices
  <2>2. Cardinality(Indices(s)) = K
    <3>1. Cardinality(1 .. K) = IF 1 > K THEN 0 ELSE K - 1 + 1 BY <1>3, FS_Interval
    <3> QED BY <2>1, <3>1, <1>3
  <2>3. s.count <= 2 * K /\ s.count \in Nat BY <1>1, <2>2 DEF InOK
  <2>4. in.want.n \in Nat \ {0} /\ s.count >= 2 * in.want.n - 1
    BY <1>1, <1>2 DEF InOK, Full, Size, Payload
  <2>5. K >= in.want.n /\ K >= 1 BY <2>3, <2>4, <1>3
  <2>6. PICK last \in s.got : last.at = K
    <3>1. K \in Indices(s) BY <2>1, <2>5, <1>3
    <3> QED BY <3>1 DEF Indices
  <2>7. last.at <= p.at
    <3>1. last \in in.got => last.at < p.at \/ last.at < in.want.n BY <1>2 DEF Coherent
    <3>2. p.at \in Nat /\ in.want.n \in Nat BY <2>4 DEF Pieces
    <3>3. last \in in.got \/ last = p BY <1>1
    <3> QED BY <3>1, <3>2, <3>3, <2>5, <2>6, <1>3
  <2>8. ASSUME NEW c \in s.got PROVE c.item = p.item
    <3>1. c.at \in 1 .. K BY <2>1 DEF Indices
    <3>2. c.at <= p.at BY <3>1, <2>6, <2>7, <1>3 DEF Pieces
    <3>3. c = p \/ (c \in in.got /\ c.at # p.at) BY <1>1
    <3>4. c \in in.got => c.item = p.item \/ c.at >= p.at BY <1>2 DEF Coherent
    <3> QED BY <3>1, <3>2, <3>3, <3>4, <1>3 DEF Pieces
  <2>9. from = {p.item} BY <2>8, <1>1
  <2>10. JoinOf(from) = p.item BY <2>9, FS_Singleton DEF JoinOf
  <2> HIDE DEF from
  <2>11. commit_text(from) \in {None, p.item} /\ commit_image(from) \in {None, p.item}
         /\ commit_file(from) \in {None, p.item}
    BY <2>10 DEF commit_text, commit_image, commit_file
  <2>12. s.want.kind \in {"text", "image", "file"} BY <1>1 DEF InOK, Payload
  <2> QED BY <2>11, <2>12 DEF commit, from, s
<1> QED BY <1>4, <1>5

(* After p comes the chunk that follows it.                                *)
LEMMA CoherentNext ==
    ASSUME NEW in, InOK(in), in.want # None, NEW p \in Pieces, Coherent(in, p),
           NEW r \in Pieces, Follows(r, p)
    PROVE  Coherent(store(in, p), r)
<1>1. /\ store(in, p).want = in.want
      /\ store(in, p).got = {c \in in.got : c.at # p.at} \cup {p}
  BY StoreOK
<1>2. \A c \in in.got : c.at \in Nat BY DEF InOK, Pieces
<1>3. p.at \in Nat /\ r.at = p.at + 1 /\ r.item = p.item BY DEF Follows, Pieces
<1> HIDE DEF store
<1> QED BY <1>1, <1>2, <1>3 DEF Coherent, Pieces

(* While nothing is lost what was received stays a beginning, and the last *)
(* chunk makes it full.                                                    *)
LEMMA WholeNext ==
    ASSUME NEW in, InOK(in), in.want # None, NEW p \in Pieces, Whole(in), Continues(in, p)
    PROVE  ~ Full(store(in, p)) =>
             /\ Whole(store(in, p))
             /\ \A r : Follows(r, p) => Continues(store(in, p), r)
<1> DEFINE s == store(in, p)
           n == in.want.n
<1>1. s.want = in.want /\ s.got = {c \in in.got : c.at # p.at} \cup {p} /\ InOK(s) BY StoreOK
<1>2. PICK a \in 0 .. n - 1 : in.got = {Chunk(in.want, i) : i \in 1 .. a} /\ in.count = 2 * a
  BY DEF Whole
<1>3. n \in Nat \ {0} /\ p.at \in Nat BY DEF InOK, Payload, Pieces
<1>4. p.at = a + 1 /\ p.item = in.want BY <1>2, <1>3 DEF Continues
<1>5. p = Chunk(in.want, a + 1) BY <1>4 DEF Chunk, Pieces
<1>6. \A c \in in.got : c.at \in 1 .. a BY <1>2 DEF Chunk
<1>7. ~ HasIndex(in, p.at) BY <1>6, <1>4, <1>2 DEF HasIndex
<1>8. s.count = 2 * a + ChunkSize(p) BY <1>7, <1>2 DEF store, InOK
<1>9. s.got = {Chunk(in.want, i) : i \in 1 .. a + 1}
  <2>1. {c \in in.got : c.at # p.at} = in.got BY <1>6, <1>4, <1>2
  <2>2. 1 .. a + 1 = (1 .. a) \cup {a + 1} BY <1>2, <1>3
  <2> QED BY <2>1, <2>2, <1>1, <1>2, <1>5
<1> HIDE DEF s
<1>10. CASE p.at = n
  <2>1. s.count = 2 * n - 1 BY <1>8, <1>4, <1>10, <1>2, <1>3 DEF ChunkSize
  <2> QED BY <2>1, <1>1, <1>3 DEF Full, Size, s
<1>11. CASE p.at # n
  <2>1. s.count = 2 * (a + 1) BY <1>8, <1>4, <1>11, <1>2, <1>3 DEF ChunkSize
  <2>2. a + 1 \in 0 .. s.want.n - 1 BY <1>1, <1>2, <1>3, <1>4, <1>11
  <2>3. Whole(s) BY <2>1, <2>2, <1>9, <1>1 DEF Whole
  <2>4. ASSUME NEW r, Follows(r, p) PROVE Continues(s, r)
    BY <2>4, <2>1, <1>1, <1>4, <1>2 DEF Follows, Continues
  <2> QED BY <2>3, <2>4 DEF s
<1> QED BY <1>10, <1>11

(* One packet is lost, the first that is: what comes next does not mix.    *)
LEMMA LostNext ==
    ASSUME NEW in, InOK(in), Whole(in), NEW p \in Packet, NEW r \in Pieces, Follows(r, p),
           p.k = "chunk" => Continues(in, p)
    PROVE  Coherent(in, r)
<1>1. CASE in.want = None BY <1>1 DEF InOK, Coherent
<1>2. CASE in.want # None
  <2>1. PICK a \in 0 .. in.want.n - 1 :
          in.got = {Chunk(in.want, i) : i \in 1 .. a} /\ in.count = 2 * a
    BY <1>2 DEF Whole
  <2>2. in.want.n \in Nat BY <1>2 DEF InOK, Payload
  <2>3. \A c \in in.got : c.item = in.want /\ c.at \in 1 .. a BY <2>1 DEF Chunk
  <2>4. p.at \in Nat /\ r.at = p.at + 1 /\ r.item = p.item /\ IsClip(p) BY DEF Follows, Packet
  <2>5. CASE p.k = "chunk"
    <3>1. p.item = in.want /\ a = p.at - 1 BY <2>5, <1>2, <2>1, <2>4, <2>2 DEF Continues
    <3> QED BY <3>1, <2>1, <2>2, <2>3, <2>4 DEF Coherent
  <2>6. CASE p.k = "offer"
    <3>1. p.at = 0 BY <2>6 DEF Packet
    <3> QED BY <3>1, <2>1, <2>2, <2>3, <2>4 DEF Coherent
  <2> QED BY <2>4, <2>5, <2>6 DEF IsClip
<1> QED BY <1>1, <1>2

-----------------------------------------------------------------------------
(* The Mac's queue: a chunk stands behind the packet it follows.           *)
Steady(s) == \A j \in 2 .. Len(s) : s[j].k = "chunk" => Follows(s[j], s[j - 1])
Fresh(s) == Len(s) > 0 => s[1].k # "chunk"

LEMMA EmissionSteady ==
    ASSUME NEW i \in Payload
    PROVE  LET e == emit_offer_and_chunks(i) IN
           /\ e \in Seq(Packet) /\ Steady(e) /\ Fresh(e)
           /\ Len(e) > 0 /\ \A j \in 1 .. Len(e) : IsClip(e[j])
<1> DEFINE tail == [n \in 1 .. i.n |-> Chunk(i, n)]
           e == emit_offer_and_chunks(i)
<1>1. i.n \in Nat /\ Offer(i) \in Packet BY DEF Payload, Offer, Packet
<1>2. \A n \in 1 .. i.n : Chunk(i, n) \in Packet BY <1>1 DEF Chunk, Packet
<1>3. tail \in Seq(Packet) /\ Len(tail) = i.n BY <1>1, <1>2
<1>4. \A n \in 1 .. i.n : tail[n] = Chunk(i, n) OBVIOUS
<1>5. e = <<Offer(i)>> \o tail BY DEF emit_offer_and_chunks
<1> HIDE DEF e, tail
<1>6. e \in Seq(Packet) /\ Len(e) = i.n + 1 /\ e[1] = Offer(i) BY <1>1, <1>3, <1>5
<1>7. \A j \in 2 .. Len(e) : e[j] = Chunk(i, j - 1)
  <2>1. \A j \in 2 .. Len(e) : e[j] = tail[j - 1] BY <1>1, <1>3, <1>5, <1>6
  <2>2. \A j \in 2 .. Len(e) : j - 1 \in 1 .. i.n BY <1>6, <1>1
  <2> QED BY <2>1, <2>2, <1>4
<1>8. Fresh(e) BY <1>6 DEF Fresh, Offer
<1>9. \A j \in 1 .. Len(e) : IsClip(e[j])
  <2>1. \A j \in 1 .. Len(e) : j = 1 \/ j \in 2 .. Len(e) BY <1>6, <1>1
  <2>2. IsClip(e[1]) BY <1>6 DEF IsClip, Offer
  <2>3. \A a : IsClip(Chunk(i, a)) BY DEF IsClip, Chunk
  <2>4. \A j \in 2 .. Len(e) : IsClip(e[j]) BY Zenon, <1>7, <2>3
  <2> QED BY <2>1, <2>2, <2>4
<1>10. Steady(e)
  <2> SUFFICES ASSUME NEW j \in 2 .. Len(e) PROVE Follows(e[j], e[j - 1])
    BY DEF Steady
  <2>1. e[j] = Chunk(i, j - 1) /\ j \in Nat BY <1>7
  <2>2. IsClip(e[j - 1]) BY <1>9, <1>6, <1>1
  <2>3. e[j - 1].item = i /\ e[j - 1].at = j - 2
    <3>1. CASE j = 2 BY <3>1, <1>6 DEF Offer
    <3>2. CASE j # 2
      <4>1. j - 1 \in 2 .. Len(e) /\ (j - 1) - 1 = j - 2 BY <3>2, <1>6, <1>1
      <4>2. e[j - 1] = Chunk(i, (j - 1) - 1) BY <4>1, <1>7
      <4> QED BY <4>1, <4>2 DEF Chunk
    <3> QED BY <3>1, <3>2
  <2> QED BY <2>1, <2>2, <2>3, <1>6 DEF Follows, Chunk
<1> QED BY <1>1, <1>6, <1>8, <1>9, <1>10 DEF e

LEMMA SteadyJoin ==
    ASSUME NEW s \in Seq(Packet), NEW t \in Seq(Packet), Steady(s), Steady(t), Fresh(t)
    PROVE  /\ s \o t \in Seq(Packet) /\ Steady(s \o t)
           /\ s = <<>> => Fresh(s \o t)
           /\ s # <<>> => Head(s \o t) = Head(s)
           /\ Fresh(s) => Fresh(s \o t)
<1> DEFINE u == s \o t
<1>1. u \in Seq(Packet) /\ Len(u) = Len(s) + Len(t) OBVIOUS
<1>2. /\ \A j \in 1 .. Len(s) : u[j] = s[j]
      /\ \A j \in 1 .. Len(t) : u[Len(s) + j] = t[j]
  OBVIOUS
<1>3. Len(s) \in Nat /\ Len(t) \in Nat OBVIOUS
<1>4. s # <<>> => Len(s) >= 1 /\ Head(s) = s[1] /\ Head(u) = u[1] OBVIOUS
<1>5. s = <<>> => u = t OBVIOUS
<1> HIDE DEF u
<1>6. ASSUME NEW j \in 2 .. Len(u), u[j].k = "chunk" PROVE Follows(u[j], u[j - 1])
  <2>1. CASE j <= Len(s)
    <3>1. j \in 2 .. Len(s) /\ j \in 1 .. Len(s) /\ j - 1 \in 1 .. Len(s) BY <2>1, <1>3
    <3>2. u[j] = s[j] /\ u[j - 1] = s[j - 1] BY <3>1, <1>2
    <3> QED BY <1>6, <3>1, <3>2 DEF Steady
  <2>2. CASE j > Len(s)
    <3>1. j - Len(s) \in 1 .. Len(t) /\ Len(s) + (j - Len(s)) = j BY <1>1, <1>3, <2>2
    <3>2. u[j] = t[j - Len(s)] BY <3>1, <1>2
    <3>3. j - Len(s) # 1 BY <3>2, <1>6, <1>3, <3>1 DEF Fresh
    <3>4. j - 1 - Len(s) \in 1 .. Len(t) /\ Len(s) + (j - 1 - Len(s)) = j - 1
      BY <3>1, <3>3, <1>3
    <3>5. u[j - 1] = t[j - 1 - Len(s)] BY <3>4, <1>2
    <3>6. j - Len(s) \in 2 .. Len(t) /\ (j - Len(s)) - 1 = j - 1 - Len(s) BY <3>1, <3>3, <1>3
    <3> QED BY <3>2, <3>5, <3>6, <1>6 DEF Steady
  <2> QED BY <2>1, <2>2, <1>1, <1>3
<1>7. Steady(u) BY <1>6 DEF Steady
<1>8. Fresh(s) => Fresh(u)
  <2>1. CASE s = <<>> BY <2>1, <1>5
  <2>2. CASE s # <<>> BY <2>2, <1>2, <1>4, <1>3 DEF Fresh
  <2> QED BY <2>1, <2>2
<1>9. s # <<>> => Head(u) = Head(s) BY <1>2, <1>4, <1>3
<1>10. s = <<>> => Fresh(u) BY <1>5
<1> QED BY <1>1, <1>7, <1>8, <1>9, <1>10 DEF u

LEMMA SteadyTail ==
    ASSUME NEW s \in Seq(Packet), s # <<>>, Steady(s)
    PROVE  /\ Tail(s) \in Seq(Packet) /\ Steady(Tail(s)) /\ Head(s) \in Packet
           /\ Tail(s) # <<>> /\ Head(Tail(s)).k = "chunk" => Follows(Head(Tail(s)), Head(s))
<1> DEFINE t == Tail(s)
<1>1. /\ t \in Seq(Packet) /\ Len(t) = Len(s) - 1 /\ Len(s) \in Nat /\ Len(s) >= 1
      /\ \A j \in 1 .. Len(t) : t[j] = s[j + 1]
      /\ Head(s) = s[1] /\ s[1] \in Packet
      /\ t # <<>> => Len(t) >= 1 /\ Head(t) = t[1]
  OBVIOUS
<1> HIDE DEF t
<1>2. Steady(t)
  <2> SUFFICES ASSUME NEW j \in 2 .. Len(t), t[j].k = "chunk" PROVE Follows(t[j], t[j - 1])
    BY DEF Steady
  <2>1. t[j] = s[j + 1] /\ t[j - 1] = s[j] /\ j + 1 \in 2 .. Len(s) /\ (j + 1) - 1 = j
    BY <1>1
  <2> QED BY <2>1 DEF Steady
<1>3. t # <<>> /\ Head(t).k = "chunk" => Follows(Head(t), Head(s))
  <2> SUFFICES ASSUME t # <<>>, Head(t).k = "chunk" PROVE Follows(Head(t), Head(s))
    OBVIOUS
  <2>1. Head(t) = s[2] /\ 2 \in 2 .. Len(s) /\ 2 - 1 = 1 BY <1>1
  <2> QED BY <2>1, <1>1 DEF Steady
<1> QED BY <1>1, <1>2, <1>3 DEF t

(* What a probe queues stands behind whatever is queued already.           *)
LEMMA QueuedSteady ==
    ASSUME NEW items, \A i \in items : i.kind \in {"text", "image", "file"} => i \in Payload
    PROVE  ToQueue(items) \in Seq(Packet) /\ Steady(ToQueue(items)) /\ Fresh(ToQueue(items))
<1>1. ASSUME NEW k \in {"text", "image", "file"}
      PROVE  Emitted(items, k) \in Seq(Packet) /\ Steady(Emitted(items, k))
             /\ Fresh(Emitted(items, k))
  <2> DEFINE small == {i \in OfKind(items, k) : i.big = "no"}
  <2>1. CASE small = {}
    <3>1. Emitted(items, k) = <<>> BY <2>1 DEF Emitted
    <3> QED BY <3>1 DEF Steady, Fresh
  <2>2. CASE small # {}
    <3>1. (CHOOSE i \in small : TRUE) \in small BY <2>2
    <3>2. (CHOOSE i \in small : TRUE) \in Payload BY <3>1 DEF OfKind
    <3>3. Emitted(items, k) = emit_offer_and_chunks(CHOOSE i \in small : TRUE)
      BY <2>2 DEF Emitted
    <3> QED BY <3>2, <3>3, EmissionSteady
  <2> QED BY <2>1, <2>2
<1> DEFINE a == Emitted(items, "file")
           b == Emitted(items, "text")
           c == Emitted(items, "image")
<1>2. /\ a \in Seq(Packet) /\ Steady(a) /\ Fresh(a)
      /\ b \in Seq(Packet) /\ Steady(b) /\ Fresh(b)
      /\ c \in Seq(Packet) /\ Steady(c) /\ Fresh(c)
  BY <1>1
<1>3. ToQueue(items) = (a \o b) \o c BY DEF ToQueue
<1> HIDE DEF a, b, c
<1>4. a \o b \in Seq(Packet) /\ Steady(a \o b) /\ Fresh(a \o b) BY <1>2, SteadyJoin
<1> QED BY <1>2, <1>3, <1>4, SteadyJoin

-----------------------------------------------------------------------------
(* What is on its way from the host, and in its outbox behind it: declines *)
(* stand anywhere, and a chunk follows the clipboard packet before it,     *)
(* unless it is the first.                                                 *)
Quiet(s, i, j) == \A k \in i .. j : ~ IsClip(s[k])

Linked(s) ==
    \A i, j \in 1 .. Len(s) :
        i < j /\ IsClip(s[i]) /\ s[j].k = "chunk" /\ Quiet(s, i + 1, j - 1)
        => Follows(s[j], s[i])

FirstChunk(s, p) ==
    \E j \in 1 .. Len(s) : p = s[j] /\ p.k = "chunk" /\ Quiet(s, 1, j - 1)

LEMMA LinkedTail ==
    ASSUME NEW s \in Seq(Packet), s # <<>>, Linked(s)
    PROVE  /\ Linked(Tail(s))
           /\ \A p : FirstChunk(Tail(s), p) =>
                IF IsClip(Head(s)) THEN Follows(p, Head(s)) ELSE FirstChunk(s, p)
           /\ Head(s).k = "chunk" => FirstChunk(s, Head(s))
<1> DEFINE t == Tail(s)
<1>1. /\ t \in Seq(Packet) /\ Len(t) = Len(s) - 1 /\ Len(s) \in Nat /\ Len(s) >= 1
      /\ \A j \in 1 .. Len(t) : t[j] = s[j + 1]
      /\ Head(s) = s[1]
  OBVIOUS
<1> HIDE DEF t
<1>2. \A i, j \in 1 .. Len(t) + 1 : Quiet(t, i, j - 1) => Quiet(s, i + 1, j)
  <2> SUFFICES ASSUME NEW i \in 1 .. Len(t) + 1, NEW j \in 1 .. Len(t) + 1, Quiet(t, i, j - 1),
                      NEW k \in i + 1 .. j
               PROVE  ~ IsClip(s[k])
    BY DEF Quiet
  <2>1. k - 1 \in i .. j - 1 /\ k - 1 \in 1 .. Len(t) /\ (k - 1) + 1 = k BY <1>1
  <2>2. s[k] = t[k - 1] BY <2>1, <1>1
  <2> QED BY <2>1, <2>2 DEF Quiet
<1>3. Linked(t)
  <2> SUFFICES ASSUME NEW i \in 1 .. Len(t), NEW j \in 1 .. Len(t),
                      i < j, IsClip(t[i]), t[j].k = "chunk", Quiet(t, i + 1, j - 1)
               PROVE  Follows(t[j], t[i])
    BY DEF Linked
  <2>1. /\ i + 1 \in 1 .. Len(s) /\ j + 1 \in 1 .. Len(s) /\ i + 1 < j + 1
        /\ t[i] = s[i + 1] /\ t[j] = s[j + 1]
        /\ i + 1 \in 1 .. Len(t) + 1 /\ j \in 1 .. Len(t) + 1 /\ (j + 1) - 1 = j
    BY <1>1
  <2>2. Quiet(s, (i + 1) + 1, (j + 1) - 1) BY <2>1, <1>2
  <2> QED BY <2>1, <2>2 DEF Linked
<1>4. ASSUME NEW p, FirstChunk(t, p)
      PROVE  IF IsClip(Head(s)) THEN Follows(p, Head(s)) ELSE FirstChunk(s, p)
  <2>1. PICK j \in 1 .. Len(t) : p = t[j] /\ p.k = "chunk" /\ Quiet(t, 1, j - 1)
    BY <1>4 DEF FirstChunk
  <2>2. /\ p = s[j + 1] /\ j + 1 \in 1 .. Len(s) /\ 1 < j + 1 /\ (j + 1) - 1 = j
        /\ 1 \in 1 .. Len(s) /\ 1 \in 1 .. Len(t) + 1 /\ j \in 1 .. Len(t) + 1
    BY <1>1, <2>1
  <2>3. Quiet(s, 1 + 1, j) BY <2>1, <2>2, <1>2
  <2>4. CASE IsClip(Head(s)) BY <2>4, <2>1, <2>2, <2>3, <1>1 DEF Linked
  <2>5. CASE ~ IsClip(Head(s))
    <3>1. \A k \in 1 .. j : k = 1 \/ k \in 1 + 1 .. j OBVIOUS
    <3>2. Quiet(s, 1, j) BY <3>1, <2>3, <2>5, <1>1 DEF Quiet
    <3>3. FirstChunk(s, p) BY <3>2, <2>1, <2>2 DEF FirstChunk
    <3> QED BY <3>3, <2>5
  <2> QED BY <2>4, <2>5
<1>5. Head(s).k = "chunk" => FirstChunk(s, Head(s))
  <2>1. Quiet(s, 1, 1 - 1) BY DEF Quiet
  <2>2. 1 \in 1 .. Len(s) BY <1>1
  <2> QED BY <2>1, <2>2, <1>1 DEF FirstChunk
<1> QED BY <1>3, <1>4, <1>5 DEF t

(* A decline emptied the outbox.                                           *)
LEMMA LinkedPrefix ==
    ASSUME NEW s \in Seq(Packet), NEW t \in Seq(Packet), Linked(s \o t)
    PROVE  Linked(s) /\ \A p : FirstChunk(s, p) => FirstChunk(s \o t, p)
<1> DEFINE u == s \o t
<1>1. Len(u) = Len(s) + Len(t) /\ Len(s) \in Nat /\ Len(t) \in Nat OBVIOUS
<1>2. \A j \in 1 .. Len(s) : u[j] = s[j] OBVIOUS
<1> HIDE DEF u
<1>3. \A i, j \in 1 .. Len(s) + 1 : Quiet(s, i, j - 1) => Quiet(u, i, j - 1)
  <2> SUFFICES ASSUME NEW i \in 1 .. Len(s) + 1, NEW j \in 1 .. Len(s) + 1, Quiet(s, i, j - 1),
                      NEW k \in i .. j - 1
               PROVE  ~ IsClip(u[k])
    BY DEF Quiet
  <2>1. k \in 1 .. Len(s) BY <1>1
  <2> QED BY <2>1, <1>2 DEF Quiet
<1>4. Linked(s)
  <2> SUFFICES ASSUME NEW i \in 1 .. Len(s), NEW j \in 1 .. Len(s),
                      i < j, IsClip(s[i]), s[j].k = "chunk", Quiet(s, i + 1, j - 1)
               PROVE  Follows(s[j], s[i])
    BY DEF Linked
  <2>1. /\ i \in 1 .. Len(u) /\ j \in 1 .. Len(u)
        /\ i + 1 \in 1 .. Len(s) + 1 /\ j \in 1 .. Len(s) + 1
    BY <1>1
  <2>2. Quiet(u, i + 1, j - 1) BY <2>1, <1>3
  <2>3. Linked(u) BY DEF u
  <2>4. s[i] = u[i] /\ s[j] = u[j] BY <1>2
  <2> QED BY <2>1, <2>2, <2>3, <2>4 DEF Linked
<1>5. ASSUME NEW p, FirstChunk(s, p) PROVE FirstChunk(u, p)
  <2>1. PICK j \in 1 .. Len(s) : p = s[j] /\ p.k = "chunk" /\ Quiet(s, 1, j - 1)
    BY <1>5 DEF FirstChunk
  <2>2. j \in 1 .. Len(u) /\ 1 \in 1 .. Len(s) + 1 /\ j \in 1 .. Len(s) + 1 /\ p = u[j]
    BY <1>1, <1>2, <2>1
  <2>3. Quiet(u, 1, j - 1) BY <2>1, <2>2, <1>3
  <2> QED BY <2>1, <2>2, <2>3 DEF FirstChunk
<1> QED BY <1>4, <1>5 DEF u

(* The outbox is filled again, with an offer and its chunks.               *)
LEMMA LinkedEmission ==
    ASSUME NEW s \in Seq(Packet), Linked(s), NEW i \in Payload
    PROVE  /\ Linked(s \o emit_offer_and_chunks(i))
           /\ \A p : FirstChunk(s \o emit_offer_and_chunks(i), p) => FirstChunk(s, p)
<1> DEFINE e == emit_offer_and_chunks(i)
<1>1. /\ e \in Seq(Packet) /\ Steady(e) /\ Fresh(e) /\ Len(e) > 0
      /\ \A j \in 1 .. Len(e) : IsClip(e[j])
  BY EmissionSteady
<1> HIDE DEF e
<1> DEFINE u == s \o e
<1>2. Len(u) = Len(s) + Len(e) /\ Len(s) \in Nat /\ Len(e) \in Nat BY <1>1
<1>3. \A j \in 1 .. Len(s) : u[j] = s[j] BY <1>1
<1>4. \A j \in 1 .. Len(e) : u[Len(s) + j] = e[j] BY <1>1
<1> HIDE DEF u
<1>5. \A j \in Len(s) + 1 .. Len(u) : IsClip(u[j])
  <2> SUFFICES ASSUME NEW j \in Len(s) + 1 .. Len(u) PROVE IsClip(u[j]) OBVIOUS
  <2>1. j - Len(s) \in 1 .. Len(e) /\ Len(s) + (j - Len(s)) = j BY <1>2
  <2> QED BY <2>1, <1>4, <1>1
<1>6. \A i1, j1 \in 1 .. Len(s) + 1 : Quiet(u, i1, j1 - 1) => Quiet(s, i1, j1 - 1)
  <2> SUFFICES ASSUME NEW i1 \in 1 .. Len(s) + 1, NEW j1 \in 1 .. Len(s) + 1,
                      Quiet(u, i1, j1 - 1), NEW k \in i1 .. j1 - 1
               PROVE  ~ IsClip(s[k])
    BY DEF Quiet
  <2>1. k \in 1 .. Len(s) BY <1>2
  <2> QED BY <2>1, <1>3 DEF Quiet
<1>7. u[Len(s) + 1].k # "chunk"
  <2>1. 1 \in 1 .. Len(e) BY <1>1, <1>2
  <2> QED BY <2>1, <1>1, <1>4 DEF Fresh
<1>8. Linked(u)
  <2> SUFFICES ASSUME NEW a \in 1 .. Len(u), NEW b \in 1 .. Len(u),
                      a < b, IsClip(u[a]), u[b].k = "chunk", Quiet(u, a + 1, b - 1)
               PROVE  Follows(u[b], u[a])
    BY DEF Linked
  <2>1. CASE b <= Len(s)
    <3>1. /\ a \in 1 .. Len(s) /\ b \in 1 .. Len(s)
          /\ a + 1 \in 1 .. Len(s) + 1 /\ b \in 1 .. Len(s) + 1
      BY <2>1, <1>2
    <3>2. Quiet(s, a + 1, b - 1) BY <3>1, <1>6
    <3>3. u[a] = s[a] /\ u[b] = s[b] BY <3>1, <1>3
    <3> QED BY <3>1, <3>2, <3>3 DEF Linked
  <2>2. CASE b > Len(s)
    <3>1. b # Len(s) + 1 BY <1>7
    <3>2. b - 1 \in Len(s) + 1 .. Len(u) BY <2>2, <3>1, <1>2
    <3>3. IsClip(u[b - 1]) BY <3>2, <1>5
    <3>4. a = b - 1
      <4>1. b - 1 \notin a + 1 .. b - 1 BY <3>3 DEF Quiet
      <4> QED BY <4>1, <1>2
    <3>5. /\ b - Len(s) \in 2 .. Len(e) /\ b - Len(s) \in 1 .. Len(e)
          /\ (b - Len(s)) - 1 \in 1 .. Len(e)
          /\ Len(s) + (b - Len(s)) = b /\ Len(s) + ((b - Len(s)) - 1) = b - 1
      BY <2>2, <3>1, <1>2
    <3>6. u[b] = e[b - Len(s)] /\ u[b - 1] = e[(b - Len(s)) - 1] BY <3>5, <1>4
    <3> QED BY <3>4, <3>5, <3>6, <1>1 DEF Steady
  <2> QED BY <2>1, <2>2, <1>2
<1>9. ASSUME NEW p, FirstChunk(u, p) PROVE FirstChunk(s, p)
  <2>1. PICK j \in 1 .. Len(u) : p = u[j] /\ p.k = "chunk" /\ Quiet(u, 1, j - 1)
    BY <1>9 DEF FirstChunk
  <2>2. j <= Len(s)
    <3> SUFFICES ASSUME j > Len(s) PROVE FALSE BY <1>2
    <3>1. j # Len(s) + 1 BY <1>7, <2>1
    <3>2. Len(s) + 1 \in 1 .. j - 1 /\ Len(s) + 1 \in Len(s) + 1 .. Len(u) BY <3>1, <1>2
    <3> QED BY <3>2, <1>5, <2>1 DEF Quiet
  <2>3. j \in 1 .. Len(s) /\ 1 \in 1 .. Len(s) + 1 /\ j \in 1 .. Len(s) + 1 BY <2>2, <1>2
  <2>4. Quiet(s, 1, j - 1) BY <2>1, <2>3, <1>6
  <2> QED BY <2>1, <2>3, <2>4, <1>3 DEF FirstChunk
<1> QED BY <1>8, <1>9 DEF u, e

(* A decline comes between what was sent and the outbox.                   *)
LEMMA LinkedDecline ==
    ASSUME NEW s \in Seq(Packet), NEW t \in Seq(Packet), NEW d \in Packet, ~ IsClip(d),
           Linked(s \o t)
    PROVE  /\ Linked(Append(s, d) \o t)
           /\ \A p : FirstChunk(Append(s, d) \o t, p) => FirstChunk(s \o t, p)
<1> DEFINE u == s \o t
           w == Append(s, d) \o t
           n == Len(s)
           Old(j) == IF j <= n THEN j ELSE j - 1
<1>1. n \in Nat /\ Len(t) \in Nat /\ Len(u) = n + Len(t) /\ Len(w) = n + 1 + Len(t)
  OBVIOUS
<1>2. /\ \A j \in 1 .. n : u[j] = s[j] /\ w[j] = s[j]
      /\ \A j \in 1 .. Len(t) : u[n + j] = t[j] /\ w[n + 1 + j] = t[j]
      /\ w[n + 1] = d
  OBVIOUS
<1> HIDE DEF u, w
<1>3. \A j \in 1 .. Len(w) : j # n + 1 => w[j] = u[Old(j)] /\ Old(j) \in 1 .. Len(u)
  <2> SUFFICES ASSUME NEW j \in 1 .. Len(w), j # n + 1
               PROVE  w[j] = u[Old(j)] /\ Old(j) \in 1 .. Len(u)
    OBVIOUS
  <2>1. CASE j <= n BY <2>1, <1>1, <1>2
  <2>2. CASE j > n
    <3>1. j - n - 1 \in 1 .. Len(t) /\ n + (j - n - 1) = j - 1 /\ n + 1 + (j - n - 1) = j
      BY <2>2, <1>1
    <3>2. u[j - 1] = t[j - n - 1] /\ w[j] = t[j - n - 1] BY <3>1, <1>2
    <3> QED BY <2>2, <3>2, <1>1
  <2> QED BY <2>1, <2>2, <1>1
<1>4. ASSUME NEW k \in 1 .. Len(u)
      PROVE  LET m == IF k <= n THEN k ELSE k + 1 IN
             m \in 1 .. Len(w) /\ m # n + 1 /\ Old(m) = k /\ u[k] = w[m]
  <2>1. CASE k <= n BY <2>1, <1>1, <1>2
  <2>2. CASE k > n
    <3>1. k + 1 \in 1 .. Len(w) /\ k + 1 # n + 1 /\ Old(k + 1) = k BY <2>2, <1>1
    <3> QED BY <2>2, <3>1, <1>3, <1>1
  <2> QED BY <2>1, <2>2, <1>1
<1>5. w[n + 1].k # "chunk" /\ ~ IsClip(w[n + 1]) BY <1>2 DEF IsClip
<1>6. Linked(w)
  <2> SUFFICES ASSUME NEW a \in 1 .. Len(w), NEW b \in 1 .. Len(w),
                      a < b, IsClip(w[a]), w[b].k = "chunk", Quiet(w, a + 1, b - 1)
               PROVE  Follows(w[b], w[a])
    BY DEF Linked
  <2>1. a # n + 1 /\ b # n + 1 BY <1>5
  <2>2. /\ w[a] = u[Old(a)] /\ Old(a) \in 1 .. Len(u)
        /\ w[b] = u[Old(b)] /\ Old(b) \in 1 .. Len(u)
    BY <2>1, <1>3
  <2>3. Old(a) < Old(b) BY <2>1, <1>1
  <2>4. Quiet(u, Old(a) + 1, Old(b) - 1)
    <3> SUFFICES ASSUME NEW k \in Old(a) + 1 .. Old(b) - 1 PROVE ~ IsClip(u[k]) BY DEF Quiet
    <3>1. k \in 1 .. Len(u) BY <2>2, <1>1
    <3> DEFINE m == IF k <= n THEN k ELSE k + 1
    <3>2. m \in 1 .. Len(w) /\ u[k] = w[m] BY <3>1, <1>4
    <3>3. m \in a + 1 .. b - 1 BY <2>1, <3>1, <1>1
    <3> QED BY <3>2, <3>3 DEF Quiet
  <2>5. Linked(u) BY DEF u
  <2> QED BY <2>2, <2>3, <2>4, <2>5 DEF Linked
<1>7. ASSUME NEW p, FirstChunk(w, p) PROVE FirstChunk(u, p)
  <2>1. PICK j \in 1 .. Len(w) : p = w[j] /\ p.k = "chunk" /\ Quiet(w, 1, j - 1)
    BY <1>7 DEF FirstChunk
  <2>2. j # n + 1 BY <2>1, <1>5
  <2>3. p = u[Old(j)] /\ Old(j) \in 1 .. Len(u) BY <2>1, <2>2, <1>3
  <2>4. Quiet(u, 1, Old(j) - 1)
    <3> SUFFICES ASSUME NEW k \in 1 .. Old(j) - 1 PROVE ~ IsClip(u[k]) BY DEF Quiet
    <3>1. k \in 1 .. Len(u) BY <2>3, <1>1
    <3> DEFINE m == IF k <= n THEN k ELSE k + 1
    <3>2. m \in 1 .. Len(w) /\ u[k] = w[m] BY <3>1, <1>4
    <3>3. m \in 1 .. j - 1 BY <2>2, <3>1, <1>1
    <3> QED BY <3>2, <3>3, <2>1 DEF Quiet
  <2> QED BY <2>1, <2>3, <2>4 DEF FirstChunk
<1> QED BY <1>6, <1>7 DEF u, w

-----------------------------------------------------------------------------
(* A receiver and the next chunk it may see.  lost is the number of frames *)
(* lost so far; until the first, every transfer received continues.        *)
Ahead(in, p, lost) == Coherent(in, p) /\ (lost = 0 => Continues(in, p))

LEMMA NothingArmed ==
    ASSUME NEW in, InOK(in), in.want = None
    PROVE  Whole(in) /\ \A p, lost : Ahead(in, p, lost)
BY DEF InOK, Whole, Ahead, Coherent, Continues

LEMMA ChunkArrives ==
    ASSUME NEW in, InOK(in), NEW lost, lost = 0 => Whole(in),
           NEW p \in Packet, p.k = "chunk", Ahead(in, p, lost)
    PROVE  LET r == on_chunk(in, p) IN
           /\ InOK(r)
           /\ Full(r) => commit(r) \in {None, p.item}
           /\ ~ Full(r) => /\ lost = 0 => Whole(r)
                           /\ \A x \in Packet : x.k = "chunk" /\ Follows(x, p) => Ahead(r, x, lost)
<1>1. p \in Pieces BY DEF Packet, Pieces
<1>2. CASE in.want = None
  <2>1. on_chunk(in, p) = in /\ ~ Full(in) BY <1>2 DEF on_chunk, Full
  <2> QED BY <2>1, <1>2, NothingArmed
<1>3. CASE in.want # None
  <2>1. on_chunk(in, p) = store(in, p) BY <1>3 DEF on_chunk
  <2>2. InOK(store(in, p)) BY <1>1, <1>3, StoreOK
  <2>3. Coherent(in, p) /\ (lost = 0 => Continues(in, p)) BY DEF Ahead
  <2>4. Full(store(in, p)) => commit(store(in, p)) \in {None, p.item}
    BY <1>1, <1>3, <2>3, FullIsPure
  <2>5. ASSUME NEW x \in Packet, x.k = "chunk", Follows(x, p), ~ Full(store(in, p))
        PROVE  Ahead(store(in, p), x, lost)
    <3>1. x \in Pieces BY <2>5 DEF Packet, Pieces
    <3>2. Coherent(store(in, p), x) BY <3>1, <1>1, <1>3, <2>3, <2>5, CoherentNext
    <3>3. lost = 0 => Continues(store(in, p), x) BY <1>1, <1>3, <2>3, <2>5, WholeNext
    <3> QED BY <3>2, <3>3 DEF Ahead
  <2>6. ~ Full(store(in, p)) => (lost = 0 => Whole(store(in, p)))
    BY <1>1, <1>3, <2>3, WholeNext
  <2> QED BY <2>1, <2>2, <2>4, <2>5, <2>6
<1> QED BY <1>2, <1>3

LEMMA PacketLost ==
    ASSUME NEW in, InOK(in), Whole(in), NEW p \in Packet, p.k = "chunk" => Ahead(in, p, 0),
           NEW x \in Packet, x.k = "chunk", Follows(x, p)
    PROVE  Ahead(in, x, 1)
<1>1. x \in Pieces BY DEF Packet, Pieces
<1>2. p.k = "chunk" => Continues(in, p) BY DEF Ahead
<1> QED BY <1>1, <1>2, LostNext DEF Ahead

-----------------------------------------------------------------------------
(* The inductive invariant.                                                *)
IsMac(m) ==
    /\ m = [os |-> m.os, new |-> m.new, by |-> m.by, pending |-> m.pending,
            names |-> m.names, stamp |-> m.stamp, seen |-> m.seen]
    /\ m.os \subseteq Payload

IsWin(w) ==
    /\ w = [os |-> w.os, new |-> w.new, last |-> w.last, outbox |-> w.outbox]
    /\ w.os \subseteq Payload \cup {Mixed}
    /\ w.outbox \in Seq(Packet)

Counters == [copies : Nat, faults : 0 .. 1, downs : Nat, inputs : Nat,
             cancelOut : Nat, cancelIn : Nat]

TypeInv ==
    /\ IsMac(mac) /\ IsWin(win)
    /\ q \in Seq(Packet) /\ down \in Seq(Packet)
    /\ used \in Counters

(* From the Mac to the host.  While a cancel is pending the writer drops   *)
(* every clipboard packet, so that the next one sent is an offer; only a   *)
(* packet of another kind between two chunks ends the cancelling early.    *)
UpInv ==
    /\ InOK(winIn) /\ (link # "up" => winIn.want = None)
    /\ "outgoing" \in flags \/ used.inputs > 0 => used.cancelOut > 0
    /\ used.inputs = 0 =>
         /\ Mixed \notin win.os
         /\ Steady(q)
         /\ used.faults = 0 => Whole(winIn)
         /\ q # <<>> /\ Head(q).k = "chunk" /\ ~ Cancelling => Ahead(winIn, Head(q), used.faults)

(* From the host to the Mac.                                               *)
Stream == down \o win.outbox

DownInv ==
    /\ InOK(macIn)
    /\ Linked(Stream)
    /\ used.faults = 0 => Whole(macIn)
    /\ \A p : FirstChunk(Stream, p) => Ahead(macIn, p, used.faults)

ClipInv == TypeInv /\ UpInv /\ DownInv

LEMMA StreamType == ASSUME TypeInv PROVE Stream \in Seq(Packet)
BY DEF TypeInv, IsWin, Stream

LEMMA FirstChunkType ==
    ASSUME NEW s \in Seq(Packet), NEW p, FirstChunk(s, p)
    PROVE  p \in Packet /\ p.k = "chunk"
BY DEF FirstChunk

(* Nothing is sent: packets may be queued and the flag may be raised.      *)
LEMMA UpKept ==
    ASSUME TypeInv, UpInv, used' \in Counters, used'.inputs = used.inputs,
           used'.faults \in {used.faults, 1}, used'.cancelOut >= used.cancelOut,
           NEW e \in Seq(Packet), Steady(e), Fresh(e), q' = q \o e,
           win'.os \in {win.os} \cup SUBSET Payload,
           UNCHANGED <<winIn, link>>,
           "outgoing" \in flags' => used'.cancelOut > 0,
           "outgoing" \in flags => "outgoing" \in flags'
    PROVE  UpInv'
<1>1. InOK(winIn)' /\ (link # "up" => winIn.want = None)' BY DEF UpInv
<1>2. ("outgoing" \in flags \/ used.inputs > 0 => used.cancelOut > 0)'
  BY DEF UpInv, Counters, TypeInv
<1>3. ASSUME used.inputs = 0
      PROVE  /\ (Mixed \notin win.os)' /\ Steady(q)'
             /\ (used.faults = 0 => Whole(winIn))'
             /\ (q # <<>> /\ Head(q).k = "chunk" /\ ~ Cancelling
                 => Ahead(winIn, Head(q), used.faults))'
  <2>1. Steady(q) /\ Mixed \notin win.os /\ (used.faults = 0 => Whole(winIn)) BY <1>3 DEF UpInv
  <2>2. /\ q' \in Seq(Packet) /\ Steady(q') /\ (q = <<>> => Fresh(q'))
        /\ (q # <<>> => Head(q') = Head(q))
    BY <2>1, SteadyJoin DEF TypeInv
  <2>3. Mixed \notin win'.os BY <2>1 DEF Payload, Mixed
  <2>4. used'.faults = 0 => used.faults = 0 BY DEF Counters
  <2>5. used'.faults = 0 => Whole(winIn') BY <2>1, <2>4
  <2>6. ASSUME q' # <<>>, Head(q').k = "chunk", "outgoing" \notin flags'
        PROVE  Ahead(winIn', Head(q'), used'.faults)
    <3>1. q # <<>>
      <4> SUFFICES ASSUME q = <<>> PROVE FALSE OBVIOUS
      <4>1. Len(q') > 0 /\ Head(q') = q'[1] BY <2>2, <2>6
      <4> QED BY <4>1, <2>2, <2>6 DEF Fresh
    <3>2. Head(q') = Head(q) /\ "outgoing" \notin flags BY <2>2, <2>6, <3>1
    <3>3. Ahead(winIn, Head(q), used.faults) BY <1>3, <3>1, <3>2, <2>6 DEF UpInv, Cancelling
    <3> QED BY <3>2, <3>3, <2>4 DEF Ahead
  <2> QED BY <2>2, <2>3, <2>5, <2>6 DEF Cancelling
<1> QED BY <1>1, <1>2, <1>3 DEF UpInv

(* Nothing arrives at the Mac.                                             *)
LEMMA DownKept ==
    ASSUME TypeInv, DownInv, used'.faults \in {used.faults, 1},
           macIn' \in {macIn, Idle}, Linked(Stream'),
           \A p : FirstChunk(Stream', p) => FirstChunk(Stream, p)
    PROVE  DownInv'
<1>1. InOK(macIn') BY IdleOK DEF DownInv
<1>2. used'.faults = 0 => used.faults = 0 OBVIOUS
<1>3. used'.faults = 0 => Whole(macIn') BY <1>2, IdleOK DEF DownInv
<1>4. ASSUME NEW p, FirstChunk(Stream', p) PROVE Ahead(macIn', p, used'.faults)
  <2>1. CASE macIn' = macIn
    <3>1. Ahead(macIn, p, used.faults) BY <1>4 DEF DownInv
    <3> QED BY <2>1, <3>1, <1>2 DEF Ahead
  <2>2. CASE macIn' = Idle BY <2>2, IdleOK, NothingArmed
  <2> QED BY <2>1, <2>2
<1> QED BY <1>1, <1>3, <1>4 DEF DownInv

-----------------------------------------------------------------------------
(* What the bounds count.                                                  *)
LEMMA Spent ==
    ASSUME used \in Counters,
           NEW what \in {"copies", "downs", "inputs", "cancelOut", "cancelIn"}, Spend(what)
    PROVE  /\ used' \in Counters /\ used'.faults = used.faults
           /\ used'.inputs = IF what = "inputs" THEN used.inputs + 1 ELSE used.inputs
           /\ used'.cancelOut = IF what = "cancelOut" THEN used.cancelOut + 1 ELSE used.cancelOut
<1>1. CASE what = "copies" BY <1>1 DEF Counters, Spend
<1>2. CASE what = "downs" BY <1>2 DEF Counters, Spend
<1>3. CASE what = "inputs" BY <1>3 DEF Counters, Spend
<1>4. CASE what = "cancelOut" BY <1>4 DEF Counters, Spend
<1>5. CASE what = "cancelIn" BY <1>5 DEF Counters, Spend
<1> QED BY <1>1, <1>2, <1>3, <1>4, <1>5

LEMMA Faulted ==
    ASSUME used \in Counters, Trouble("faults")
    PROVE  /\ used' \in Counters /\ used.faults = 0 /\ used'.faults = 1
           /\ used'.inputs = used.inputs /\ used'.cancelOut = used.cancelOut
BY DEF Counters, Trouble, Spend

LEMMA EmptySteady == <<>> \in Seq(Packet) /\ Steady(<<>>) /\ Fresh(<<>>)
BY DEF Steady, Fresh

LEMMA NothingQueued == ASSUME TypeInv, q' = q PROVE q' = q \o <<>>
BY DEF TypeInv

(* Whatever concerns the two clipboards only, a flag, or what is queued.   *)
LEMMA ElsewhereKeeps ==
    ASSUME ClipInv, IsMac(mac'), IsWin(win'),
           used' \in Counters, used'.inputs = used.inputs,
           used'.faults \in {used.faults, 1}, used'.cancelOut >= used.cancelOut,
           NEW e \in Seq(Packet), Steady(e), Fresh(e), q' = q \o e,
           win'.os \in {win.os} \cup SUBSET Payload, win'.outbox = win.outbox,
           UNCHANGED <<winIn, link, macIn, down>>,
           "outgoing" \in flags' => used'.cancelOut > 0,
           "outgoing" \in flags => "outgoing" \in flags'
    PROVE  ClipInv'
<1>1. TypeInv'
  <2>1. q' \in Seq(Packet) BY DEF ClipInv, TypeInv
  <2> QED BY <2>1 DEF ClipInv, TypeInv
<1>2. UpInv' BY UpKept DEF ClipInv
<1>3. DownInv'
  <2>1. Stream' = Stream BY DEF Stream
  <2>2. Linked(Stream) BY DEF ClipInv, DownInv
  <2> QED BY <2>1, <2>2, DownKept DEF ClipInv
<1> QED BY <1>1, <1>2, <1>3 DEF ClipInv

LEMMA FlagCounted == ASSUME ClipInv, "outgoing" \in flags PROVE used.cancelOut > 0
BY DEF ClipInv, UpInv

LEMMA PollKeeps == ASSUME ClipInv, NEW kicked, Poll(kicked) PROVE ClipInv'
<1>1. PICK files \in {NewFile}, images \in {NewImage},
           txt \in {{t \in Texts : TextVerdict(t, kicked) = "Send"}},
           held \in {{t \in Texts : TextVerdict(t, kicked) = "Hold"}} :
        /\ q' = q \o ToQueue(files \cup txt \cup images)
        /\ \E names, pending, seen :
             mac' = [mac EXCEPT !.new = "no", !.names = names, !.pending = pending, !.seen = seen]
  BY DEF Poll
<1> DEFINE chosen == files \cup txt \cup images
<1>2. chosen \subseteq Payload
  <2>1. mac.os \subseteq Payload BY DEF ClipInv, TypeInv, IsMac
  <2>2. files \subseteq mac.os BY <1>1 DEF NewFile, OfKind
  <2>3. images \subseteq mac.os BY <1>1 DEF NewImage, OfKind
  <2>4. txt \subseteq mac.os BY <1>1 DEF Texts, OfKind
  <2> QED BY <2>1, <2>2, <2>3, <2>4
<1>3. ToQueue(chosen) \in Seq(Packet) /\ Steady(ToQueue(chosen)) /\ Fresh(ToQueue(chosen))
  BY <1>2, QueuedSteady
<1>4. IsMac(mac') BY <1>1 DEF ClipInv, TypeInv, IsMac
<1>5. UNCHANGED <<flags, macIn, win, winIn, down, link, used>> BY DEF Poll
<1>6. TypeInv BY DEF ClipInv
<1>7. /\ used' \in Counters /\ used'.faults \in {used.faults, 1}
      /\ used'.inputs = used.inputs /\ used'.cancelOut >= used.cancelOut
  BY <1>5, <1>6 DEF TypeInv, Counters
<1>8. IsWin(win') /\ win'.os = win.os /\ win'.outbox = win.outbox BY <1>5, <1>6 DEF TypeInv
<1>9. q' = q \o ToQueue(chosen) BY <1>1
<1> HIDE DEF chosen
<1> QED BY <1>3, <1>4, <1>5, <1>7, <1>8, <1>9, FlagCounted, ElsewhereKeeps

(* The users, their names, the access key, the stamp.                      *)
LEMMA MacSideKeeps ==
    ASSUME ClipInv, NameLapses \/ MacCopies \/ FinderAddsName \/ CopyLocalText \/ ReaderStamps
    PROVE  ClipInv'
<1>1. IsMac(mac) /\ used \in Counters BY DEF ClipInv, TypeInv
<1>2. IsMac(mac')
  <2>1. CASE NameLapses BY <2>1, <1>1 DEF NameLapses, IsMac
  <2>2. CASE MacCopies
    <3>1. PICK i \in MacItems : mac' = [mac EXCEPT !.os = {i}, !.new = "yes", !.by = "user"]
      BY <2>2 DEF MacCopies
    <3>2. i \in Payload BY ItemsAssumption
    <3> QED BY <3>1, <3>2, <1>1 DEF IsMac
  <2>3. CASE FinderAddsName
    <3>1. PICK f \in OfKind(mac.os, "file") : mac' = [mac EXCEPT !.os = {f, NameOf(f)}]
      BY <2>3 DEF FinderAddsName
    <3>2. f \in Payload BY <1>1 DEF IsMac, OfKind
    <3>3. NameOf(f) \in Payload BY <3>2 DEF NameOf, Payload
    <3> QED BY <3>1, <3>2, <3>3, <1>1 DEF IsMac
  <2>4. CASE CopyLocalText
    <3>1. AccessKey \in Payload BY DEF AccessKey, Payload
    <3>2. \E seen : mac' = [mac EXCEPT !.os = {AccessKey}, !.new = "yes", !.by = "us", !.seen = seen]
      BY <2>4 DEF CopyLocalText
    <3> HIDE DEF AccessKey
    <3> QED BY <3>1, <3>2, <1>1 DEF IsMac
  <2>5. CASE ReaderStamps
    <3>1. \E seen : mac' = [mac EXCEPT !.stamp = None, !.seen = seen]
      BY <2>5 DEF ReaderStamps, Stamped
    <3> QED BY <3>1, <1>1 DEF IsMac
  <2> QED BY <2>1, <2>2, <2>3, <2>4, <2>5
<1>3. UNCHANGED <<q, flags, macIn, win, winIn, down, link>>
  BY DEF NameLapses, MacCopies, FinderAddsName, CopyLocalText, ReaderStamps
<1>4. used' = used \/ Spend("copies")
  BY DEF NameLapses, MacCopies, FinderAddsName, CopyLocalText, ReaderStamps
<1>5. /\ used' \in Counters /\ used'.inputs = used.inputs
      /\ used'.faults = used.faults /\ used'.cancelOut = used.cancelOut
  BY <1>1, <1>4, Spent
<1>6. used'.cancelOut >= used.cancelOut BY <1>5, <1>1 DEF Counters
<1>7. q' = q \o <<>> BY <1>3, NothingQueued DEF ClipInv
<1>8. IsWin(win') /\ win'.os = win.os /\ win'.outbox = win.outbox
  BY <1>3 DEF ClipInv, TypeInv
<1> QED BY <1>2, <1>3, <1>5, <1>6, <1>7, <1>8, EmptySteady, FlagCounted, ElsewhereKeeps

LEMMA WinCopiesKeeps == ASSUME ClipInv, WinCopies PROVE ClipInv'
<1>1. IsWin(win) /\ IsMac(mac) /\ used \in Counters BY DEF ClipInv, TypeInv
<1>2. PICK i \in WinItems : win' = [win EXCEPT !.os = {i}, !.new = "yes"] BY DEF WinCopies
<1>3. i \in Payload BY ItemsAssumption
<1>4. IsWin(win') /\ win'.os = {i} /\ win'.outbox = win.outbox BY <1>1, <1>2, <1>3 DEF IsWin
<1>5. UNCHANGED <<mac, q, flags, macIn, winIn, down, link>> /\ Spend("copies") BY DEF WinCopies
<1>6. /\ used' \in Counters /\ used'.inputs = used.inputs
      /\ used'.faults = used.faults /\ used'.cancelOut = used.cancelOut
  BY <1>1, <1>5, Spent
<1>7. used'.cancelOut >= used.cancelOut BY <1>6, <1>1 DEF Counters
<1>8. q' = q \o <<>> BY <1>5, NothingQueued DEF ClipInv
<1>9. IsMac(mac') BY <1>1, <1>5
<1> QED BY <1>3, <1>4, <1>5, <1>6, <1>7, <1>8, <1>9, EmptySteady, FlagCounted, ElsewhereKeeps

LEMMA CancelKeeps == ASSUME ClipInv, CancelOutgoing \/ CancelIncoming PROVE ClipInv'
<1>1. IsWin(win) /\ IsMac(mac) /\ used \in Counters BY DEF ClipInv, TypeInv
<1>2. UNCHANGED <<mac, q, macIn, win, winIn, down, link>> BY DEF CancelOutgoing, CancelIncoming
<1>3. \/ Spend("cancelOut") /\ flags' = flags \cup {"outgoing"}
      \/ Spend("cancelIn") /\ flags' = flags \cup {"incoming"}
  BY DEF CancelOutgoing, CancelIncoming, Trouble
<1>4. /\ used' \in Counters /\ used'.inputs = used.inputs /\ used'.faults = used.faults
      /\ used'.cancelOut >= used.cancelOut
      /\ Spend("cancelOut") => used'.cancelOut > 0
  <2>1. CASE Spend("cancelOut")
    <3>1. used' \in Counters /\ used'.inputs = used.inputs /\ used'.faults = used.faults
          /\ used'.cancelOut = used.cancelOut + 1
      BY <2>1, <1>1, Spent
    <3> QED BY <3>1, <1>1 DEF Counters
  <2>2. CASE Spend("cancelIn") /\ ~ Spend("cancelOut")
    <3>1. used' \in Counters /\ used'.inputs = used.inputs /\ used'.faults = used.faults
          /\ used'.cancelOut = used.cancelOut
      BY <2>2, <1>1, Spent
    <3> QED BY <3>1, <2>2, <1>1 DEF Counters
  <2> QED BY <2>1, <2>2, <1>3
<1>5. "outgoing" \in flags' => used'.cancelOut > 0
  <2>1. "outgoing" \in flags => used.cancelOut > 0 BY FlagCounted
  <2>2. used.cancelOut \in Nat /\ used'.cancelOut \in Nat BY <1>1, <1>4 DEF Counters
  <2> QED BY <1>3, <1>4, <2>1, <2>2
<1>6. "outgoing" \in flags => "outgoing" \in flags' BY <1>3
<1>7. q' = q \o <<>> BY <1>2, NothingQueued DEF ClipInv
<1>8. IsMac(mac') /\ IsWin(win') /\ win'.os = win.os /\ win'.outbox = win.outbox BY <1>1, <1>2
<1> QED BY <1>2, <1>4, <1>5, <1>6, <1>7, <1>8, EmptySteady, ElsewhereKeeps

-----------------------------------------------------------------------------
(* The Mac's writer and the host.                                          *)
LEMMA OfferIs ==
    ASSUME NEW p \in Packet, p.k = "offer"
    PROVE  p = Offer(p.item) /\ p.item \in Payload
BY DEF Packet, Offer

LEMMA CommitType ==
    ASSUME NEW in, InOK(in), in.want # None
    PROVE  commit(in) \in Payload \cup {Mixed, None}
<1> DEFINE from == {c.item : c \in in.got}
<1>1. from \subseteq Payload BY DEF InOK, Pieces
<1>2. JoinOf(from) \in Payload \cup {Mixed}
  <2>1. CASE Cardinality(from) = 1
    <3>1. from # {} BY <2>1, FS_EmptySet
    <3>2. JoinOf(from) \in from BY <2>1, <3>1 DEF JoinOf
    <3> QED BY <3>2, <1>1
  <2>2. CASE Cardinality(from) # 1 BY <2>2 DEF JoinOf
  <2> QED BY <2>1, <2>2
<1> HIDE DEF from
<1>3. /\ commit_text(from) \in Payload \cup {Mixed, None}
      /\ commit_image(from) \in Payload \cup {Mixed, None}
      /\ commit_file(from) \in Payload \cup {Mixed, None}
  BY <1>2 DEF commit_text, commit_image, commit_file
<1>4. in.want.kind \in {"text", "image", "file"} BY DEF InOK, Payload
<1> QED BY <1>3, <1>4 DEF commit, from

LEMMA OnChunkOK ==
    ASSUME NEW in, InOK(in), NEW p \in Packet, p.k = "chunk"
    PROVE  InOK(on_chunk(in, p)) /\ (Full(on_chunk(in, p)) => on_chunk(in, p).want # None)
<1>1. p \in Pieces BY DEF Packet, Pieces
<1>2. CASE in.want = None BY <1>2 DEF on_chunk, Full
<1>3. CASE in.want # None BY <1>1, <1>3, StoreOK DEF on_chunk
<1> QED BY <1>2, <1>3

LEMMA InputKeeps == ASSUME ClipInv, MacInput PROVE ClipInv'
<1>1. TypeInv /\ UpInv /\ DownInv /\ used \in Counters BY DEF ClipInv, TypeInv
<1>2. PICK pos \in 1 .. Len(q) + 1 : q' = InsertAt(q, pos, Other) BY DEF MacInput
<1>3. q' \in Seq(Packet)
  <2>1. Other \in Packet BY DEF Other, Packet
  <2>2. q \in Seq(Packet) /\ Len(q) \in Nat BY <1>1 DEF TypeInv
  <2>3. SubSeq(q, 1, pos - 1) \in Seq(Packet) /\ SubSeq(q, pos, Len(q)) \in Seq(Packet) BY <2>2
  <2>4. <<Other>> \in Seq(Packet) BY <2>1
  <2>5. q' = SubSeq(q, 1, pos - 1) \o <<Other>> \o SubSeq(q, pos, Len(q))
    BY <1>2 DEF InsertAt
  <2> QED BY <2>3, <2>4, <2>5
<1>4. /\ "outgoing" \in flags /\ used.inputs = 0 /\ Spend("inputs")
      /\ UNCHANGED <<mac, flags, macIn, win, winIn, down, link>>
  BY DEF MacInput
<1>5. /\ used' \in Counters /\ used'.inputs = 1 /\ used'.faults = used.faults
      /\ used'.cancelOut = used.cancelOut
  BY <1>1, <1>4, Spent
<1>6. TypeInv' BY <1>1, <1>3, <1>4, <1>5 DEF TypeInv
<1>7. UpInv'
  <2>1. used.cancelOut > 0 BY <1>4, FlagCounted
  <2> QED BY <1>1, <1>4, <1>5, <2>1 DEF UpInv
<1>8. DownInv'
  <2>1. Stream' = Stream BY <1>4 DEF Stream
  <2> QED BY <1>1, <1>4, <1>5, <2>1, DownKept DEF DownInv
<1> QED BY <1>6, <1>7, <1>8 DEF ClipInv

(* What the writer takes from the queue leaves the rest in order.          *)
LEMMA WriterTakes ==
    ASSUME ClipInv, q # <<>>, q' = Tail(q)
    PROVE  /\ q' \in Seq(Packet) /\ Head(q) \in Packet
           /\ used.inputs = 0 =>
                /\ Steady(q')
                /\ q' # <<>> /\ Head(q').k = "chunk" =>
                     Head(q') \in Packet /\ Follows(Head(q'), Head(q))
<1>1. q \in Seq(Packet) BY DEF ClipInv, TypeInv
<1>2. Tail(q) \in Seq(Packet) /\ Head(q) \in Packet BY <1>1
<1>3. q' # <<>> => Head(q') \in Packet BY <1>2
<1>4. used.inputs = 0 => Steady(q) BY DEF ClipInv, UpInv
<1> QED BY <1>1, <1>2, <1>3, <1>4, SteadyTail

LEMMA DropKeeps == ASSUME ClipInv, WriterDropsCancelled PROVE ClipInv'
<1>1. TypeInv /\ UpInv /\ DownInv /\ used \in Counters BY DEF ClipInv, TypeInv
<1>2. /\ q # <<>> /\ Cancelling /\ q' = Tail(q)
      /\ UNCHANGED <<mac, flags, macIn, win, winIn, down, link, used>>
  BY DEF WriterDropsCancelled
<1>3. q' \in Seq(Packet) /\ (used.inputs = 0 => Steady(q')) BY <1>2, WriterTakes
<1>4. TypeInv' BY <1>1, <1>2, <1>3 DEF TypeInv
<1>5. UpInv' BY <1>1, <1>2, <1>3 DEF UpInv, Cancelling
<1>6. DownInv'
  <2>1. Stream' = Stream BY <1>2 DEF Stream
  <2> QED BY <1>1, <1>2, <2>1, DownKept DEF DownInv
<1> QED BY <1>4, <1>5, <1>6 DEF ClipInv

LEMMA IdleKeeps == ASSUME ClipInv, WriterIdles PROVE ClipInv'
<1>1. TypeInv /\ UpInv /\ DownInv /\ used \in Counters BY DEF ClipInv, TypeInv
<1>2. /\ q = <<>> /\ flags' = flags \ {"outgoing"}
      /\ UNCHANGED <<mac, q, macIn, win, winIn, down, link, used>>
  BY DEF WriterIdles
<1>3. TypeInv' BY <1>1, <1>2 DEF TypeInv
<1>4. UpInv' BY <1>1, <1>2 DEF UpInv
<1>5. DownInv'
  <2>1. Stream' = Stream BY <1>2 DEF Stream
  <2> QED BY <1>1, <1>2, <2>1, DownKept DEF DownInv
<1> QED BY <1>3, <1>4, <1>5 DEF ClipInv

(* A packet of another kind ends the cancelling.                           *)
LEMMA FlagKept ==
    ASSUME flags' = FlagAfter(Head(q))
    PROVE  /\ "outgoing" \in flags' => "outgoing" \in flags
           /\ "outgoing" \notin flags' /\ IsClip(Head(q)) => "outgoing" \notin flags
BY DEF FlagAfter

LEMMA LossKeeps == ASSUME ClipInv, WriterLoses PROVE ClipInv'
<1> DEFINE p == Head(q)
<1>1. TypeInv /\ UpInv /\ DownInv /\ used \in Counters BY DEF ClipInv, TypeInv
<1>2. /\ q # <<>> /\ ~ (Cancelling /\ IsClip(p)) /\ q' = Tail(q) /\ flags' = FlagAfter(p)
      /\ IF link = "up" THEN Trouble("faults") ELSE UNCHANGED used
      /\ UNCHANGED <<mac, macIn, win, winIn, down, link>>
  BY DEF WriterLoses
<1>3. /\ q' \in Seq(Packet) /\ p \in Packet
      /\ used.inputs = 0 => /\ Steady(q')
                            /\ q' # <<>> /\ Head(q').k = "chunk" =>
                                 Head(q') \in Packet /\ Follows(Head(q'), p)
  BY <1>2, WriterTakes
<1>4. /\ used' \in Counters /\ used'.inputs = used.inputs /\ used'.cancelOut = used.cancelOut
      /\ used'.faults \in {used.faults, 1}
      /\ link = "up" => used.faults = 0 /\ used'.faults = 1
  BY <1>1, <1>2, Faulted
<1>5. TypeInv' BY <1>1, <1>2, <1>3, <1>4 DEF TypeInv
<1>6. UpInv'
  <2>1. InOK(winIn') /\ (link' # "up" => winIn'.want = None) BY <1>1, <1>2 DEF UpInv
  <2>2. "outgoing" \in flags' \/ used'.inputs > 0 => used'.cancelOut > 0
    BY <1>1, <1>2, <1>4, FlagKept DEF UpInv
  <2>3. ASSUME used.inputs = 0
        PROVE  /\ Mixed \notin win'.os /\ (used'.faults = 0 => Whole(winIn'))
               /\ q' # <<>> /\ Head(q').k = "chunk" => Ahead(winIn', Head(q'), used'.faults)
    <3>1. Mixed \notin win.os /\ (used.faults = 0 => Whole(winIn)) /\ InOK(winIn)
      BY <1>1, <2>3 DEF UpInv
    <3>2. CASE link = "up"
      <4>1. ASSUME q' # <<>>, Head(q').k = "chunk" PROVE Ahead(winIn, Head(q'), 1)
        <5>1. Head(q') \in Packet /\ Follows(Head(q'), p) BY <1>3, <2>3, <4>1
        <5>2. ~ Cancelling BY <5>1, <1>2 DEF Follows
        <5>3. p.k = "chunk" => Ahead(winIn, p, 0)
          BY <1>1, <1>2, <1>4, <2>3, <3>2, <5>2 DEF UpInv
        <5> HIDE DEF p
        <5> QED BY <3>1, <3>2, <1>3, <1>4, <4>1, <5>1, <5>3, PacketLost
      <4> QED BY <4>1, <3>1, <3>2, <1>2, <1>4
    <3>3. CASE link # "up"
      <4>1. winIn.want = None BY <1>1, <3>3 DEF UpInv
      <4> QED BY <4>1, <3>1, <1>2, NothingArmed
    <3> QED BY <3>2, <3>3
  <2> QED BY <2>1, <2>2, <2>3, <1>3, <1>4 DEF UpInv
<1>7. DownInv'
  <2>1. Stream' = Stream BY <1>2 DEF Stream
  <2> QED BY <1>1, <1>2, <1>4, <2>1, DownKept DEF DownInv
<1> QED BY <1>5, <1>6, <1>7 DEF ClipInv

LEMMA SendKeeps == ASSUME ClipInv, WriterSends PROVE ClipInv'
<1> DEFINE p == Head(q)
           Next1 == \A x \in Packet : x.k = "chunk" /\ Follows(x, p)
                                        => Ahead(winIn', x, used'.faults)
<1>1. TypeInv /\ UpInv /\ DownInv /\ used \in Counters /\ IsWin(win) /\ win.outbox \in Seq(Packet)
      /\ down \in Seq(Packet)
  BY DEF ClipInv, TypeInv, IsWin
<1>2. /\ q # <<>> /\ link = "up" /\ ~ (Cancelling /\ IsClip(p)) /\ q' = Tail(q)
      /\ flags' = FlagAfter(p) /\ HostHandles(p)
      /\ UNCHANGED <<mac, macIn, link>>
  BY DEF WriterSends
<1>3. /\ q' \in Seq(Packet) /\ p \in Packet
      /\ used.inputs = 0 => /\ Steady(q')
                            /\ q' # <<>> /\ Head(q').k = "chunk" =>
                                 Head(q') \in Packet /\ Follows(Head(q'), p)
  BY <1>2, WriterTakes
<1>4. used.inputs = 0 =>
        /\ Mixed \notin win.os /\ (used.faults = 0 => Whole(winIn))
        /\ p.k = "chunk" => Ahead(winIn, p, used.faults)
  BY <1>1, <1>2 DEF UpInv, IsClip
<1>5. InOK(winIn) BY <1>1 DEF UpInv
<1> HIDE DEF p
(* What the host makes of it.                                              *)
<1>6. /\ IsWin(win') /\ down' \in Seq(Packet) /\ InOK(winIn')
      /\ used' \in Counters /\ used'.inputs = used.inputs /\ used'.cancelOut = used.cancelOut
      /\ used'.faults \in {used.faults, 1}
      /\ used.inputs = 0 =>
           /\ Mixed \notin win'.os
           /\ used'.faults = 0 => Whole(winIn')
           /\ IsClip(p) => Next1
      /\ Linked(Stream') /\ \A x : FirstChunk(Stream', x) => FirstChunk(Stream, x)
  <2>1. CASE p.k = "offer"
    <3>1. HostOnOffer(p.item) /\ UNCHANGED <<win, used>> BY <1>2, <2>1 DEF HostHandles
    <3>2. p = Offer(p.item) /\ p.item \in Payload BY <1>3, <2>1, OfferIs
    <3>3. InOK(winIn') /\ Whole(winIn') /\ Next1
      <4>1. winIn' = on_offer(winIn, p.item, takes.win) BY <3>1 DEF HostOnOffer
      <4> QED BY <4>1, <3>2, OfferStarts DEF Ahead
    <3>4. Decline(p.item) \in Packet /\ ~ IsClip(Decline(p.item))
      BY <3>2 DEF Decline, Packet, IsClip
    <3>5. down' = down \/ down' = Append(down, Decline(p.item)) BY <3>1 DEF HostOnOffer
    <3>6. down' \in Seq(Packet) BY <3>4, <3>5, <1>1
    <3>7. Linked(down \o win.outbox) BY <1>1 DEF DownInv, Stream
    <3>8. Linked(Stream') /\ \A x : FirstChunk(Stream', x) => FirstChunk(Stream, x)
      <4>1. CASE down' = down
        <5>1. Stream' = Stream BY <4>1, <3>1 DEF Stream
        <5> QED BY <5>1, <3>7 DEF Stream
      <4>2. CASE down' = Append(down, Decline(p.item))
        <5>1. Stream' = Append(down, Decline(p.item)) \o win.outbox /\ Stream = down \o win.outbox
          BY <4>2, <3>1 DEF Stream
        <5> QED BY <5>1, <3>4, <3>7, <1>1, LinkedDecline
      <4> QED BY <4>1, <4>2, <3>5
    <3> QED BY <3>1, <3>3, <3>6, <3>8, <1>1, <1>4
  <2>2. CASE p.k = "chunk"
    <3> DEFINE in == on_chunk(winIn, p)
    <3>1. HostOnChunk(p) /\ UNCHANGED down BY <1>2, <2>2 DEF HostHandles
    <3>2. InOK(in) /\ (Full(in) => in.want # None) BY <1>3, <1>5, <2>2, OnChunkOK
    <3>3. used.inputs = 0 =>
            /\ Full(in) => commit(in) \in {None, p.item}
            /\ ~ Full(in) => /\ used.faults = 0 => Whole(in)
                             /\ \A x \in Packet : x.k = "chunk" /\ Follows(x, p)
                                                    => Ahead(in, x, used.faults)
      BY <1>3, <1>4, <1>5, <2>2, ChunkArrives
    <3>4. p.item \in Payload BY <1>3, <2>2 DEF Packet
    <3>5. CASE ~ Full(in)
      <4>1. winIn' = in /\ UNCHANGED <<win, used>> BY <3>1, <3>5 DEF HostOnChunk
      <4>2. Stream' = Stream BY <4>1, <3>1 DEF Stream
      <4> HIDE DEF in
      <4> QED BY <4>1, <4>2, <3>1, <3>2, <3>3, <3>5, <1>1, <1>4 DEF DownInv
    <3>6. CASE Full(in)
      <4>1. HostCommit(in) BY <3>1, <3>6 DEF HostOnChunk
      <4> DEFINE x == commit(in)
      <4> HIDE DEF in
      <4>2. x \in Payload \cup {Mixed, None} BY <3>2, <3>6, CommitType
      <4>3. winIn' = Idle /\ (UNCHANGED <<win, used>> \/ (x # None /\ HostWrites(x)))
        BY <4>1 DEF HostCommit
      <4>4. InOK(winIn') /\ Whole(winIn') /\ Next1 BY <4>3, IdleOK, NothingArmed
      <4> HIDE DEF x
      <4>5. CASE UNCHANGED <<win, used>>
        <5>1. Stream' = Stream BY <4>5, <3>1 DEF Stream
        <5> QED BY <5>1, <4>4, <4>5, <3>1, <1>1, <1>4 DEF DownInv
      <4>6. CASE /\ x # None /\ UNCHANGED used
                 /\ win' = [win EXCEPT !.os = {x}, !.new = "yes", !.last = x]
        <5>1. IsWin(win') /\ win'.os = {x} /\ win'.outbox = win.outbox
          BY <4>6, <4>2, <1>1 DEF IsWin
        <5>2. used.inputs = 0 => Mixed \notin win'.os
          <6>1. used.inputs = 0 => x \in {None, p.item} BY <3>3, <3>6 DEF x
          <6> QED BY <6>1, <5>1, <4>6, <3>4 DEF Mixed, Payload
        <5>3. Stream' = Stream BY <5>1, <3>1 DEF Stream
        <5> QED BY <5>1, <5>2, <5>3, <4>4, <4>6, <3>1, <1>1 DEF DownInv
      <4>7. CASE Trouble("faults") /\ UNCHANGED win
        <5>1. Stream' = Stream BY <4>7, <3>1 DEF Stream
        <5>2. /\ used' \in Counters /\ used'.inputs = used.inputs
              /\ used'.cancelOut = used.cancelOut /\ used'.faults = 1
          BY <4>7, <1>1, Faulted
        <5> QED BY <5>1, <5>2, <4>4, <4>7, <3>1, <1>1, <1>4 DEF DownInv
      <4> QED BY <4>3, <4>5, <4>6, <4>7 DEF HostWrites
    <3> QED BY <3>5, <3>6
  <2>3. CASE p.k = "decline"
    <3>1. win' = cancel_outgoing(win) /\ UNCHANGED <<winIn, down, used>>
      BY <1>2, <2>3 DEF HostHandles
    <3>2. IsWin(win') /\ win'.os = win.os /\ win'.outbox = <<>>
      <4>1. win' = [win EXCEPT !.outbox = <<>>] BY <3>1 DEF cancel_outgoing
      <4> QED BY <4>1, <1>1 DEF IsWin
    <3>3. Stream' = down
      <4>1. Stream' = down \o <<>> BY <3>1, <3>2 DEF Stream
      <4> QED BY <4>1, <1>1
    <3>4. Linked(down) /\ \A x : FirstChunk(down, x) => FirstChunk(Stream, x)
      <4>1. Linked(down \o win.outbox) BY <1>1 DEF DownInv, Stream
      <4> QED BY <4>1, <1>1, LinkedPrefix DEF Stream
    <3>5. ~ IsClip(p) BY <2>3 DEF IsClip
    <3> QED BY <3>1, <3>2, <3>3, <3>4, <3>5, <1>1, <1>4, <1>5
  <2>4. CASE p.k = "other"
    <3>1. UNCHANGED <<win, winIn, down, used>> BY <1>2, <2>4 DEF HostHandles
    <3>2. Stream' = Stream BY <3>1 DEF Stream
    <3>3. ~ IsClip(p) BY <2>4 DEF IsClip
    <3> QED BY <3>1, <3>2, <3>3, <1>1, <1>4, <1>5 DEF DownInv
  <2> QED BY <2>1, <2>2, <2>3, <2>4, <1>3 DEF Packet
<1>7. TypeInv' BY <1>1, <1>2, <1>3, <1>6 DEF TypeInv
<1>8. UpInv'
  <2>1. "outgoing" \in flags' \/ used'.inputs > 0 => used'.cancelOut > 0
    BY <1>1, <1>2, <1>6, FlagKept DEF UpInv, p
  <2>2. ASSUME used.inputs = 0, q' # <<>>, Head(q').k = "chunk"
        PROVE  Ahead(winIn', Head(q'), used'.faults)
    <3>1. Head(q') \in Packet /\ Follows(Head(q'), p) BY <1>3, <2>2
    <3>2. Next1 BY <1>6, <2>2, <3>1 DEF Follows
    <3> QED BY <3>1, <3>2, <2>2
  <2>3. link' = "up" BY <1>2
  <2> QED BY <2>1, <2>2, <2>3, <1>3, <1>6 DEF UpInv
<1>9. DownInv' BY <1>1, <1>2, <1>6, DownKept
<1> QED BY <1>7, <1>8, <1>9 DEF ClipInv

-----------------------------------------------------------------------------
(* The host's poll.                                                        *)
LEMMA BatchType ==
    ASSUME NEW w, w.outbox \in Seq(Packet)
    PROVE  Batch(w) \in 0 .. Len(w.outbox)
<1> DEFINE S == {Len(w.outbox), MaxMessagesPerPoll}
<1>1. Len(w.outbox) \in Nat /\ MaxMessagesPerPoll \in Nat BY BatchAssumption
<1>2. \E x \in S : \A y \in S : x <= y BY <1>1
<1>3. Min(S) \in S /\ \A y \in S : Min(S) <= y BY <1>2 DEF Min
<1>4. Batch(w) = Min(S) BY DEF Batch
<1> QED BY <1>1, <1>3, <1>4

LEMMA SplitJoined ==
    ASSUME NEW d \in Seq(Packet), NEW o \in Seq(Packet), NEW n \in 0 .. Len(o)
    PROVE  /\ d \o SubSeq(o, 1, n) \in Seq(Packet) /\ SubSeq(o, n + 1, Len(o)) \in Seq(Packet)
           /\ (d \o SubSeq(o, 1, n)) \o SubSeq(o, n + 1, Len(o)) = d \o o
<1>1. Len(o) \in Nat /\ 1 \in 1 .. Len(o) + 1 /\ n \in 1 - 1 .. Len(o) /\ Len(o) \in n .. Len(o)
  OBVIOUS
<1>2. SubSeq(o, 1, n) \in Seq(Packet) /\ SubSeq(o, n + 1, Len(o)) \in Seq(Packet)
  <2>1. \A i \in 1 .. n : o[i] \in Packet BY <1>1
  <2>2. \A i \in n + 1 .. Len(o) : o[i] \in Packet BY <1>1
  <2>3. n \in Int /\ n + 1 \in Int /\ 1 \in Int /\ Len(o) \in Int BY <1>1
  <2> QED BY <2>1, <2>2, <2>3, SubSeqProperties
<1>3. SubSeq(o, 1, Len(o)) = o BY <1>1
<1>4. SubSeq(o, 1, n) \o SubSeq(o, n + 1, Len(o)) = o BY <1>1, <1>3, ConcatAdjacentSubSeq
<1> DEFINE a == SubSeq(o, 1, n)
           b == SubSeq(o, n + 1, Len(o))
<1>5. a \in Seq(Packet) /\ b \in Seq(Packet) BY <1>2
<1>6. a \o b = o BY <1>4
<1> HIDE DEF a, b
<1>7. (d \o a) \o b = d \o (a \o b) BY <1>5, ConcatAssociative
<1>8. d \o a \in Seq(Packet) BY <1>5
<1> QED BY <1>5, <1>6, <1>7, <1>8 DEF a, b

LEMMA DrainMoves ==
    ASSUME NEW w, IsWin(w), down \in Seq(Packet), Drain(w)
    PROVE  IsWin(win') /\ win'.os = w.os /\ down' \in Seq(Packet) /\ Stream' = down \o w.outbox
<1>1. PICK n \in 0 .. Len(w.outbox) :
        /\ down' = down \o SubSeq(w.outbox, 1, n)
        /\ win' = [w EXCEPT !.outbox = SubSeq(w.outbox, n + 1, Len(w.outbox))]
  <2>1. Batch(w) \in 0 .. Len(w.outbox) BY BatchType DEF IsWin
  <2> QED BY <2>1 DEF Drain
<1>2. /\ w.outbox \in Seq(Packet)
      /\ SubSeq(w.outbox, n + 1, Len(w.outbox)) \in Seq(Packet)
      /\ down \o SubSeq(w.outbox, 1, n) \in Seq(Packet)
      /\ (down \o SubSeq(w.outbox, 1, n)) \o SubSeq(w.outbox, n + 1, Len(w.outbox))
           = down \o w.outbox
  BY SplitJoined DEF IsWin
<1>3. /\ win'.outbox = SubSeq(w.outbox, n + 1, Len(w.outbox)) /\ win'.os = w.os /\ IsWin(win')
  BY <1>1, <1>2 DEF IsWin
<1> QED BY <1>1, <1>2, <1>3 DEF Stream

LEMMA LastStamped ==
    ASSUME NEW w, IsWin(w), NEW i
    PROVE  LET v == [w EXCEPT !.last = i] IN
           IsWin(v) /\ v.os = w.os /\ v.outbox = w.outbox
BY DEF IsWin

LEMMA EnqueueFills ==
    ASSUME NEW w, IsWin(w), w.outbox = <<>>, NEW i \in Payload
    PROVE  LET v == Enqueue(w, i) IN
           /\ IsWin(v) /\ v.os = w.os
           /\ v.outbox = <<>> \/ v.outbox = emit_offer_and_chunks(i)
<1>1. emit_offer_and_chunks(i) \in Seq(Packet) BY EmissionSteady
<1>2. CASE i.big = "yes" BY <1>2 DEF Enqueue
<1>3. CASE i.big # "yes"
  <2> DEFINE e == emit_offer_and_chunks(i)
  <2>1. Enqueue(w, i) = [w EXCEPT !.outbox = e] BY <1>3 DEF Enqueue
  <2> HIDE DEF e
  <2>2. LET v == [w EXCEPT !.outbox = e] IN IsWin(v) /\ v.os = w.os /\ v.outbox = e
    BY <1>1 DEF IsWin, e
  <2> QED BY <2>1, <2>2 DEF e
<1> QED BY <1>2, <1>3

LEMMA HostPollKeeps == ASSUME ClipInv, HostPoll PROVE ClipInv'
<1>1. TypeInv /\ UpInv /\ DownInv /\ used \in Counters /\ IsWin(win) /\ IsMac(mac)
      /\ win.outbox \in Seq(Packet) /\ down \in Seq(Packet)
  BY DEF ClipInv, TypeInv, IsWin
<1>2. UNCHANGED <<mac, q, flags, macIn, winIn, link, used>> BY DEF HostPoll
<1>3. Linked(down \o win.outbox) /\ Stream = down \o win.outbox BY <1>1 DEF DownInv, Stream
<1>4. /\ IsWin(win') /\ win'.os = win.os /\ down' \in Seq(Packet)
      /\ Linked(Stream') /\ \A x : FirstChunk(Stream', x) => FirstChunk(Stream, x)
  <2>1. CASE win.outbox # <<>>
    <3>1. Drain(win) BY <2>1 DEF HostPoll
    <3> QED BY <3>1, <1>1, <1>3, DrainMoves
  <2>2. CASE win.outbox = <<>>
    <3>1. HostProbe BY <2>2 DEF HostPoll
    <3>2. Stream = down /\ Linked(down) BY <2>2, <1>1, <1>3
    <3>3. ASSUME NEW w, IsWin(w), w.os = win.os,
                 w.outbox = <<>> \/ \E i \in Payload : w.outbox = emit_offer_and_chunks(i),
                 Drain(w)
          PROVE  /\ IsWin(win') /\ win'.os = win.os /\ down' \in Seq(Packet)
                 /\ Linked(Stream') /\ \A x : FirstChunk(Stream', x) => FirstChunk(Stream, x)
      <4>1. IsWin(win') /\ win'.os = w.os /\ down' \in Seq(Packet) /\ Stream' = down \o w.outbox
        BY <3>3, <1>1, DrainMoves
      <4>2. CASE w.outbox = <<>>
        <5>1. Stream' = down BY <4>1, <4>2, <1>1
        <5> QED BY <5>1, <4>1, <3>2, <3>3
      <4>3. CASE \E i \in Payload : w.outbox = emit_offer_and_chunks(i)
        <5>1. PICK i \in Payload : w.outbox = emit_offer_and_chunks(i) BY <4>3
        <5>2. /\ Linked(down \o emit_offer_and_chunks(i))
              /\ \A x : FirstChunk(down \o emit_offer_and_chunks(i), x) => FirstChunk(down, x)
          BY <3>2, <1>1, LinkedEmission
        <5>3. Stream' = down \o emit_offer_and_chunks(i) BY <4>1, <5>1
        <5> QED BY <5>2, <5>3, <4>1, <3>2, <3>3
      <4> QED BY <3>3, <4>2, <4>3
    <3>4. \A k \in {"text", "image", "file"} : OfKind(win.os, k) \subseteq Payload
      BY <1>1 DEF OfKind, IsWin, Mixed
    <3> DEFINE text == OfKind(win.os, "text")
               fresh == {i \in text \cup OfKind(win.os, "image") : i # win.last}
               file == IF win.new = "yes" THEN {f \in OfKind(win.os, "file") : f # win.last}
                       ELSE {}
               seq == IF text = {} THEN [win EXCEPT !.new = "no"] ELSE win
    <3>5. fresh \subseteq Payload /\ file \subseteq Payload BY <3>4
    <3>6. IsWin(seq) /\ seq.os = win.os /\ seq.outbox = <<>> BY <1>1, <2>2 DEF IsWin
    <3>7. \/ \E i \in fresh : Drain(Enqueue([win EXCEPT !.last = i], i))
          \/ \E f \in file : Drain(IF f.big = "yes" THEN [seq EXCEPT !.last = f] ELSE Enqueue(seq, f))
          \/ win' = seq /\ UNCHANGED down
      BY <3>1 DEF HostProbe
    <3> HIDE DEF text, fresh, file, seq
    <3>8. CASE \E i \in fresh : Drain(Enqueue([win EXCEPT !.last = i], i))
      <4>1. PICK i \in fresh : Drain(Enqueue([win EXCEPT !.last = i], i)) BY <3>8
      <4> DEFINE w == [win EXCEPT !.last = i]
      <4>2. IsWin(w) /\ w.os = win.os /\ w.outbox = <<>> BY <1>1, <2>2, LastStamped
      <4>3. Drain(Enqueue(w, i)) /\ i \in Payload BY <4>1, <3>5
      <4> HIDE DEF w
      <4> DEFINE v == Enqueue(w, i)
      <4>4. IsWin(v) /\ v.os = win.os /\ (v.outbox = <<>> \/ v.outbox = emit_offer_and_chunks(i))
        BY <4>2, <4>3, EnqueueFills
      <4>5. Drain(v) BY <4>3
      <4> HIDE DEF v
      <4> QED BY <4>3, <4>4, <4>5, <3>3
    <3>9. CASE \E f \in file :
                 Drain(IF f.big = "yes" THEN [seq EXCEPT !.last = f] ELSE Enqueue(seq, f))
      <4>1. PICK f \in file :
              Drain(IF f.big = "yes" THEN [seq EXCEPT !.last = f] ELSE Enqueue(seq, f))
        BY <3>9
      <4>2. f \in Payload BY <4>1, <3>5
      <4>3. CASE f.big = "yes"
        <5> DEFINE w == [seq EXCEPT !.last = f]
        <5>1. IsWin(w) /\ w.os = win.os /\ w.outbox = <<>> BY <3>6, LastStamped
        <5>2. Drain(w) BY <4>1, <4>3
        <5> HIDE DEF w
        <5> QED BY <5>1, <5>2, <3>3
      <4>4. CASE f.big # "yes"
        <5> DEFINE v == Enqueue(seq, f)
        <5>1. IsWin(v) /\ v.os = win.os /\ (v.outbox = <<>> \/ v.outbox = emit_offer_and_chunks(f))
          BY <3>6, <4>2, EnqueueFills
        <5>2. Drain(v) BY <4>1, <4>4
        <5> HIDE DEF v
        <5> QED BY <5>1, <5>2, <4>2, <3>3
      <4> QED BY <4>3, <4>4
    <3>10. CASE win' = seq /\ UNCHANGED down
      <4>1. Stream' = down
        <5>1. Stream' = down \o <<>> BY <3>10, <3>6 DEF Stream
        <5> QED BY <5>1, <1>1
      <4> QED BY <4>1, <3>2, <3>6, <3>10, <1>1
    <3> QED BY <3>7, <3>8, <3>9, <3>10
  <2> QED BY <2>1, <2>2
<1>5. TypeInv' BY <1>1, <1>2, <1>4 DEF TypeInv
<1>6. UpInv' BY <1>1, <1>2, <1>4 DEF UpInv, Cancelling
<1>7. DownInv' BY <1>1, <1>2, <1>4, DownKept
<1> QED BY <1>5, <1>6, <1>7 DEF ClipInv

-----------------------------------------------------------------------------
(* The Mac's reader.                                                       *)
LEMMA StreamTail ==
    ASSUME ClipInv, down # <<>>, down' = Tail(down), win'.outbox = win.outbox
    PROVE  /\ down' \in Seq(Packet) /\ Head(down) \in Packet /\ Linked(Stream')
           /\ Head(down).k = "chunk" => Ahead(macIn, Head(down), used.faults)
           /\ \A x : FirstChunk(Stream', x) =>
                /\ x \in Packet /\ x.k = "chunk"
                /\ IF IsClip(Head(down)) THEN Follows(x, Head(down))
                   ELSE Ahead(macIn, x, used.faults)
<1>1. down \in Seq(Packet) /\ win.outbox \in Seq(Packet) BY DEF ClipInv, TypeInv, IsWin
<1>2. Tail(down) \in Seq(Packet) /\ Head(down) \in Packet BY <1>1
<1> DEFINE s == down \o win.outbox
<1>3. /\ s \in Seq(Packet) /\ s # <<>> /\ Head(s) = Head(down)
      /\ Tail(s) = Tail(down) \o win.outbox
  <2>1. Len(down) \in Nat \ {0} /\ Len(win.outbox) \in Nat BY <1>1
  <2>2. s \in Seq(Packet) /\ Len(s) = Len(down) + Len(win.outbox) /\ s[1] = down[1]
    BY <1>1, <2>1
  <2>3. s # <<>> /\ Head(s) = Head(down) BY <1>1, <2>1, <2>2
  <2>4. down = <<Head(down)>> \o Tail(down) BY <1>1
  <2>5. s = <<Head(down)>> \o (Tail(down) \o win.outbox)
    <3>1. <<Head(down)>> \in Seq(Packet) BY <1>2
    <3>2. (<<Head(down)>> \o Tail(down)) \o win.outbox
            = <<Head(down)>> \o (Tail(down) \o win.outbox)
      BY <3>1, <1>1, <1>2, ConcatAssociative
    <3> QED BY <3>2, <2>4
  <2>6. Tail(<<Head(down)>> \o (Tail(down) \o win.outbox)) = Tail(down) \o win.outbox
    <3> DEFINE r == Tail(down) \o win.outbox
    <3>1. r \in Seq(Packet) BY <1>1, <1>2
    <3> HIDE DEF r
    <3>2. Tail(<<Head(down)>> \o r) = r BY <3>1, <1>2
    <3> QED BY <3>2 DEF r
  <2> QED BY <2>2, <2>3, <2>5, <2>6
<1>4. s = Stream /\ Stream' = Tail(s) BY <1>3 DEF Stream
<1> HIDE DEF s
<1>5. /\ Linked(s) /\ \A x : FirstChunk(s, x) => Ahead(macIn, x, used.faults)
  BY <1>4 DEF ClipInv, DownInv
<1>6. /\ Linked(Tail(s))
      /\ \A x : FirstChunk(Tail(s), x) =>
           IF IsClip(Head(s)) THEN Follows(x, Head(s)) ELSE FirstChunk(s, x)
      /\ Head(s).k = "chunk" => FirstChunk(s, Head(s))
  BY <1>3, <1>5, LinkedTail
<1>7. Tail(s) \in Seq(Packet) BY <1>3
<1> QED BY <1>2, <1>3, <1>4, <1>5, <1>6, <1>7, FirstChunkType

LEMMA ReceiveKeeps == ASSUME ClipInv, ReaderReceives PROVE ClipInv'
<1> DEFINE p == Head(down)
<1>1. TypeInv /\ UpInv /\ DownInv /\ used \in Counters /\ IsMac(mac) /\ IsWin(win)
  BY DEF ClipInv, TypeInv
<1>2. /\ down # <<>> /\ down' = Tail(down) /\ UNCHANGED <<win, winIn, link>> /\ ReaderHandles(p)
  BY DEF ReaderReceives
<1>3. /\ down' \in Seq(Packet) /\ p \in Packet /\ Linked(Stream')
      /\ p.k = "chunk" => Ahead(macIn, p, used.faults)
      /\ \A x : FirstChunk(Stream', x) =>
           /\ x \in Packet /\ x.k = "chunk"
           /\ IF IsClip(p) THEN Follows(x, p) ELSE Ahead(macIn, x, used.faults)
  BY <1>2, StreamTail
<1>4. InOK(macIn) /\ (used.faults = 0 => Whole(macIn)) BY <1>1 DEF DownInv
<1> HIDE DEF p
<1>5. ASSUME IsMac(mac'), used' \in Counters, used'.inputs = used.inputs,
             used'.faults \in {used.faults, 1}, used'.cancelOut >= used.cancelOut,
             NEW e \in Seq(Packet), Steady(e), Fresh(e), q' = q \o e,
             "outgoing" \in flags' => used'.cancelOut > 0,
             "outgoing" \in flags => "outgoing" \in flags',
             InOK(macIn'), used'.faults = 0 => Whole(macIn'),
             \A x : FirstChunk(Stream', x) => Ahead(macIn', x, used'.faults)
      PROVE  ClipInv'
  <2>1. q' \in Seq(Packet) BY <1>5, <1>1 DEF TypeInv
  <2>2. TypeInv' BY <1>1, <1>2, <1>3, <1>5, <2>1 DEF TypeInv
  <2>3. UpInv' BY <1>1, <1>2, <1>5, UpKept
  <2>4. DownInv' BY <1>3, <1>5 DEF DownInv
  <2> QED BY <2>2, <2>3, <2>4 DEF ClipInv
<1>6. used.cancelOut >= used.cancelOut BY <1>1 DEF Counters
<1>7. CASE p.k = "offer"
  <2>1. /\ flags' = flags \ {"incoming"} /\ macIn' = on_offer(macIn, p.item, takes.mac)
        /\ q' = IF p.item.kind \in takes.mac THEN q ELSE Append(q, Decline(p.item))
        /\ UNCHANGED <<mac, used>>
    BY <1>2, <1>7 DEF ReaderHandles
  <2>2. p = Offer(p.item) /\ p.item \in Payload BY <1>3, <1>7, OfferIs
  <2>3. IsClip(p) BY <1>7 DEF IsClip
  <2>4. InOK(macIn') /\ Whole(macIn') BY <2>1, <2>2, OfferStarts
  <2>5. ASSUME NEW x, FirstChunk(Stream', x) PROVE Ahead(macIn', x, used'.faults)
    <3>1. Follows(x, p) BY <1>3, <2>3, <2>5
    <3> QED BY <3>1, <2>1, <2>2, OfferStarts DEF Ahead
  <2>6. Decline(p.item) \in Packet BY <2>2 DEF Decline, Packet
  <2>7. PICK e \in Seq(Packet) : Steady(e) /\ Fresh(e) /\ q' = q \o e
    <3>1. CASE q' = q BY <3>1, <1>1, EmptySteady, NothingQueued
    <3>2. CASE q' = Append(q, Decline(p.item))
      <4> DEFINE e == <<Decline(p.item)>>
      <4>1. e \in Seq(Packet) /\ Len(e) = 1 /\ e[1] = Decline(p.item) BY <2>6
      <4>2. Steady(e) /\ Fresh(e) BY <4>1 DEF Steady, Fresh, Decline
      <4>3. q' = q \o e BY <3>2, <2>6, <1>1 DEF TypeInv
      <4> QED BY <4>1, <4>2, <4>3
    <3> QED BY <2>1, <3>1, <3>2
  <2> QED BY <1>1, <1>5, <1>6, <2>1, <2>4, <2>5, <2>7, FlagCounted
<1>8. CASE p.k = "chunk"
  <2>1. UNCHANGED <<flags, q>> BY <1>2, <1>8 DEF ReaderHandles
  <2>2. IsClip(p) /\ p.item \in Payload BY <1>3, <1>8 DEF IsClip, Packet
  <2>3. q' = q \o <<>> BY <1>1, <2>1, NothingQueued
  <2>4. ASSUME NEW x, FirstChunk(Stream', x)
        PROVE  x \in Packet /\ x.k = "chunk" /\ Follows(x, p)
    BY <2>4, <2>2, <1>3
  <2> DEFINE in == on_chunk(macIn, p)
  <2>5. /\ InOK(in)
        /\ Full(in) => commit(in) \in {None, p.item}
        /\ ~ Full(in) =>
             /\ used.faults = 0 => Whole(in)
             /\ \A x \in Packet : x.k = "chunk" /\ Follows(x, p) => Ahead(in, x, used.faults)
    BY <1>3, <1>4, <1>8, ChunkArrives
  <2>6. CASE "incoming" \in flags
    <3>1. macIn' = Idle /\ UNCHANGED <<mac, used>> BY <1>2, <1>8, <2>6 DEF ReaderHandles
    <3> QED BY <3>1, <1>1, <1>5, <1>6, <2>1, <2>3, EmptySteady, IdleOK, NothingArmed, FlagCounted
  <2>7. CASE "incoming" \notin flags /\ ~ Full(in)
    <3>1. macIn' = in /\ UNCHANGED <<mac, used>> BY <1>2, <1>8, <2>7 DEF ReaderHandles
    <3> HIDE DEF in
    <3>2. \A x : FirstChunk(Stream', x) => Ahead(macIn', x, used'.faults)
      BY <3>1, <2>4, <2>5, <2>7
    <3> QED BY <3>1, <3>2, <1>1, <1>5, <1>6, <2>1, <2>3, <2>5, <2>7, EmptySteady, FlagCounted
  <2>8. CASE "incoming" \notin flags /\ Full(in)
    <3>1. ReaderCommits(in) BY <1>2, <1>8, <2>8 DEF ReaderHandles
    <3> DEFINE c == commit(in)
    <3>2. c \in {None, p.item} BY <2>5, <2>8
    <3>3. macIn' = Idle /\ \/ UNCHANGED <<mac, used>>
                           \/ /\ c # None /\ UNCHANGED used
                              /\ mac' = [mac EXCEPT !.os = {c}, !.new = "yes", !.by = "us", !.stamp = c]
                           \/ Trouble("faults") /\ UNCHANGED mac
      BY <3>1 DEF ReaderCommits
    <3> HIDE DEF c, in
    <3>4. /\ IsMac(mac') /\ used' \in Counters /\ used'.inputs = used.inputs
          /\ used'.faults \in {used.faults, 1} /\ used'.cancelOut = used.cancelOut
      <4>1. CASE UNCHANGED <<mac, used>> BY <4>1, <1>1
      <4>2. CASE /\ c # None /\ UNCHANGED used
                 /\ mac' = [mac EXCEPT !.os = {c}, !.new = "yes", !.by = "us", !.stamp = c]
        <5>1. c \in Payload BY <3>2, <4>2, <2>2
        <5> QED BY <5>1, <4>2, <1>1 DEF IsMac
      <4>3. CASE Trouble("faults") /\ UNCHANGED mac BY <4>3, <1>1, Faulted
      <4> QED BY <3>3, <4>1, <4>2, <4>3
    <3>5. used'.cancelOut >= used.cancelOut BY <3>4, <1>6
    <3>6. "outgoing" \in flags' => used'.cancelOut > 0 BY <2>1, <3>4, FlagCounted
    <3>7. InOK(macIn') /\ Whole(macIn') /\ \A x, lost : Ahead(macIn', x, lost)
      BY <3>3, IdleOK, NothingArmed
    <3> QED BY <3>4, <3>5, <3>6, <3>7, <1>5, <2>1, <2>3, EmptySteady
  <2> QED BY <2>6, <2>7, <2>8
<1>9. CASE p.k \notin {"offer", "chunk"}
  <2>1. /\ flags' = flags \cup {"outgoing"} /\ Spend("cancelOut") /\ UNCHANGED <<mac, q, macIn>>
    BY <1>2, <1>9 DEF ReaderHandles
  <2>2. ~ IsClip(p) BY <1>9 DEF IsClip
  <2>3. /\ used' \in Counters /\ used'.inputs = used.inputs /\ used'.faults = used.faults
        /\ used'.cancelOut = used.cancelOut + 1
    BY <1>1, <2>1, Spent
  <2>4. used'.cancelOut > 0 /\ used'.cancelOut >= used.cancelOut BY <2>3, <1>1 DEF Counters
  <2>5. q' = q \o <<>> BY <1>1, <2>1, NothingQueued
  <2>6. \A x : FirstChunk(Stream', x) => Ahead(macIn', x, used'.faults) BY <1>3, <2>1, <2>2, <2>3
  <2> QED BY <1>1, <1>4, <1>5, <2>1, <2>3, <2>4, <2>5, <2>6, EmptySteady
<1> QED BY <1>7, <1>8, <1>9

LEMMA MissKeeps == ASSUME ClipInv, ReaderMisses PROVE ClipInv'
<1> DEFINE p == Head(down)
<1>1. TypeInv /\ UpInv /\ DownInv /\ used \in Counters BY DEF ClipInv, TypeInv
<1>2. /\ down # <<>> /\ down' = Tail(down) /\ Trouble("faults")
      /\ UNCHANGED <<mac, q, flags, macIn, win, winIn, link>>
  BY DEF ReaderMisses
<1>3. /\ down' \in Seq(Packet) /\ p \in Packet /\ Linked(Stream')
      /\ p.k = "chunk" => Ahead(macIn, p, used.faults)
      /\ \A x : FirstChunk(Stream', x) =>
           /\ x \in Packet /\ x.k = "chunk"
           /\ IF IsClip(p) THEN Follows(x, p) ELSE Ahead(macIn, x, used.faults)
  BY <1>2, StreamTail
<1>4. /\ used' \in Counters /\ used.faults = 0 /\ used'.faults = 1
      /\ used'.inputs = used.inputs /\ used'.cancelOut = used.cancelOut
  BY <1>1, <1>2, Faulted
<1>5. used'.cancelOut >= used.cancelOut BY <1>4, <1>1 DEF Counters
<1> HIDE DEF p
<1>6. TypeInv' BY <1>1, <1>2, <1>3, <1>4 DEF TypeInv
<1>7. UpInv'
  <2>1. q' = q \o <<>> BY <1>1, <1>2, NothingQueued
  <2>2. "outgoing" \in flags' => used'.cancelOut > 0 BY <1>2, <1>4, FlagCounted
  <2> QED BY <1>1, <1>2, <1>4, <1>5, <2>1, <2>2, EmptySteady, UpKept
<1>8. DownInv'
  <2>1. InOK(macIn) /\ Whole(macIn) BY <1>1, <1>4 DEF DownInv
  <2>2. ASSUME NEW x, FirstChunk(Stream', x) PROVE Ahead(macIn, x, 1)
    <3>1. x \in Packet /\ x.k = "chunk" BY <1>3, <2>2
    <3>2. CASE IsClip(p)
      <4>1. Follows(x, p) BY <1>3, <2>2, <3>2
      <4> QED BY <4>1, <3>1, <2>1, <1>3, <1>4, PacketLost
    <3>3. CASE ~ IsClip(p)
      <4>1. Ahead(macIn, x, used.faults) BY <1>3, <2>2, <3>3
      <4> QED BY <4>1 DEF Ahead
    <3> QED BY <3>2, <3>3
  <2> QED BY <2>1, <2>2, <1>2, <1>3, <1>4 DEF DownInv
<1> QED BY <1>6, <1>7, <1>8 DEF ClipInv

-----------------------------------------------------------------------------
(* Session boundaries.                                                     *)
LEMMA EmptyLinked == Linked(<<>>) /\ \A x : ~ FirstChunk(<<>>, x)
BY DEF Linked, FirstChunk

LEMMA BoundaryKeeps == ASSUME ClipInv, LinkDown \/ LinkUp PROVE ClipInv'
<1>1. TypeInv /\ UpInv /\ DownInv /\ used \in Counters /\ IsMac(mac) /\ IsWin(win)
      /\ win.outbox \in Seq(Packet) /\ down \in Seq(Packet)
  BY DEF ClipInv, TypeInv, IsWin
<1>2. /\ mac' = [mac EXCEPT !.seen = Unseen] /\ macIn' = Idle
      /\ win' = [win EXCEPT !.outbox = <<>>, !.last = None] /\ winIn' = Idle
      /\ UNCHANGED <<q, flags>>
      /\ down' = <<>> \/ down' = down
      /\ used' = used \/ Spend("downs")
  BY DEF LinkDown, LinkUp, ResetHost, reset_session_state, Trouble
<1>3. /\ used' \in Counters /\ used'.inputs = used.inputs /\ used'.faults = used.faults
      /\ used'.cancelOut = used.cancelOut
  BY <1>1, <1>2, Spent
<1>4. IsMac(mac')
  <2> DEFINE u == Unseen
  <2>1. mac' = [mac EXCEPT !.seen = u] BY <1>2
  <2> HIDE DEF u
  <2> QED BY <2>1, <1>1 DEF IsMac
<1>5. IsWin(win') /\ win'.os = win.os /\ win'.outbox = <<>>
  <2> DEFINE n == None
  <2>1. win' = [win EXCEPT !.outbox = <<>>, !.last = n] BY <1>2
  <2> HIDE DEF n
  <2>2. <<>> \in Seq(Packet) OBVIOUS
  <2> QED BY <2>1, <2>2, <1>1 DEF IsWin
<1>6. down' \in Seq(Packet)
  <2>1. <<>> \in Seq(Packet) OBVIOUS
  <2> QED BY <2>1, <1>1, <1>2
<1>7. TypeInv' BY <1>1, <1>2, <1>3, <1>4, <1>5, <1>6 DEF TypeInv
<1>8. UpInv' BY <1>1, <1>2, <1>3, <1>5, IdleOK, NothingArmed DEF UpInv
<1>9. DownInv'
  <2>1. Stream' = down' BY <1>5, <1>6 DEF Stream
  <2>2. Linked(down')
    <3>1. Linked(down \o win.outbox) BY <1>1 DEF DownInv, Stream
    <3>2. Linked(down) BY <3>1, <1>1, LinkedPrefix
    <3> QED BY <3>2, <1>2, EmptyLinked
  <2> QED BY <2>1, <2>2, <1>2, IdleOK, NothingArmed DEF DownInv
<1> QED BY <1>7, <1>8, <1>9 DEF ClipInv

-----------------------------------------------------------------------------
LEMMA InitClip == Init => ClipInv
<1> SUFFICES ASSUME Init PROVE ClipInv OBVIOUS
<1>1. PICK m \in Holding(AtStart.mac), w \in Holding(AtStart.win) :
        /\ \E seen : mac = [os |-> m, new |-> "no", by |-> "user", pending |-> None, names |-> {},
                            stamp |-> None, seen |-> seen]
        /\ \E last : win = [os |-> w, new |-> "no", last |-> last, outbox |-> <<>>]
  BY DEF Init
<1>2. /\ q = <<>> /\ flags = {} /\ macIn = Idle /\ winIn = Idle /\ down = <<>>
      /\ used = [copies |-> 0, faults |-> 0, downs |-> 0, inputs |-> 0,
                 cancelOut |-> 0, cancelIn |-> 0]
  BY DEF Init
<1>3. m \subseteq Payload /\ w \subseteq Payload BY ItemsAssumption DEF Holding
<1>4. IsMac(mac) BY <1>1, <1>3 DEF IsMac
<1>5. IsWin(win) /\ win.os = w /\ win.outbox = <<>>
  <2>1. <<>> \in Seq(Packet) OBVIOUS
  <2> QED BY <1>1, <1>3, <2>1 DEF IsWin
<1>6. used \in Counters /\ used.inputs = 0 BY <1>2 DEF Counters
<1>7. TypeInv BY <1>2, <1>4, <1>5, <1>6 DEF TypeInv
<1>8. UpInv
  <2>1. Mixed \notin win.os BY <1>3, <1>5 DEF Mixed, Payload
  <2>2. ~ ("outgoing" \in flags \/ used.inputs > 0) BY <1>2, <1>6
  <2>3. Steady(q) /\ q = <<>> BY <1>2, EmptySteady
  <2> QED BY <1>2, <2>1, <2>2, <2>3, IdleOK DEF UpInv
<1>9. DownInv
  <2>1. Stream = <<>> BY <1>2, <1>5 DEF Stream
  <2> QED BY <2>1, <1>2, IdleOK, EmptyLinked DEF DownInv
<1> QED BY <1>7, <1>8, <1>9 DEF ClipInv

LEMMA NextClip == ClipInv /\ [Next]_vars => ClipInv'
<1> SUFFICES ASSUME ClipInv, [Next]_vars PROVE ClipInv' OBVIOUS
<1>1. CASE UNCHANGED vars
  BY <1>1 DEF vars, ClipInv, TypeInv, UpInv, DownInv, Stream, Cancelling
<1>2. CASE PollTick \/ KickedPoll BY <1>2, PollKeeps DEF PollTick, KickedPoll
<1>3. CASE NameLapses \/ MacCopies \/ FinderAddsName \/ CopyLocalText \/ ReaderStamps
  BY <1>3, MacSideKeeps
<1>4. CASE WinCopies BY <1>4, WinCopiesKeeps
<1>5. CASE CancelOutgoing \/ CancelIncoming BY <1>5, CancelKeeps
<1>6. CASE MacInput BY <1>6, InputKeeps
<1>7. CASE WriterDropsCancelled BY <1>7, DropKeeps
<1>8. CASE WriterSends BY <1>8, SendKeeps
<1>9. CASE WriterLoses BY <1>9, LossKeeps
<1>10. CASE WriterIdles BY <1>10, IdleKeeps
<1>11. CASE HostPoll BY <1>11, HostPollKeeps
<1>12. CASE ReaderReceives BY <1>12, ReceiveKeeps
<1>13. CASE ReaderMisses BY <1>13, MissKeeps
<1>14. CASE LinkDown \/ LinkUp BY <1>14, BoundaryKeeps
<1> QED
  BY <1>1, <1>2, <1>3, <1>4, <1>5, <1>6, <1>7, <1>8, <1>9, <1>10, <1>11, <1>12, <1>13, <1>14
  DEF Next

LEMMA ClipAlways == Spec => []ClipInv
<1>1. Init => ClipInv BY InitClip
<1>2. ClipInv /\ [Next]_vars => ClipInv' BY NextClip
<1> QED BY <1>1, <1>2, PTL DEF Spec

(* Neither clipboard ever holds a payload put together from two: not the   *)
(* Mac's at all, and the host's only after a cancelled transmission whose  *)
(* flag another packet cleared (the reader and writer arms of link.rs,     *)
(* IncomingClipboard and the host's reassembly).                           *)
THEOREM PayloadsStayWhole == Spec => []WholePayload
<1>1. ClipInv => WholePayload
  <2> SUFFICES ASSUME ClipInv PROVE WholePayload OBVIOUS
  <2>1. Mixed \notin mac.os BY DEF ClipInv, TypeInv, IsMac, Mixed, Payload
  <2>2. used.inputs \in Nat BY DEF ClipInv, TypeInv, Counters
  <2>3. Mixed \in win.os => used.inputs > 0 /\ used.cancelOut > 0
    BY <2>2 DEF ClipInv, UpInv
  <2> QED BY <2>1, <2>3 DEF WholePayload
<1> QED BY <1>1, ClipAlways, PTL
=============================================================================
