------------------------ MODULE HostAndServicesProofs ------------------------
(***************************************************************************)
(* Proofs about HostSession, for any number of clients, keys and reports,  *)
(* any timeouts and either kind of link; about HostProcess, for any number *)
(* of processes, installations, users, attempts and any time a process     *)
(* takes to stop; and about the threads beside the link: a stopped browser *)
(* service leaves no stream attached, for any number of request threads,   *)
(* and the bytes between the peer and wd are the frames that are due, each *)
(* whole or the last one short of its body, wherever reads cut them.       *)
(***************************************************************************)
EXTENDS HostSession, HostProcess, MCServices, FiniteSetTheorems, SequenceTheorems, TLAPS

----------------------------------------------------------------------------
(* The browser service.                                                    *)

\* Only a service that has not been told to stop is alive, so a request thread
\* that looks under the hub's lock attaches nothing after the reset.
StopInv ==
    /\ owner # "started" => alive = FALSE
    /\ NothingAttachedAfterStop

LEMMA StopKept == ASSUME StopInv, [ServiceNext]_servicevars PROVE StopInv'
<1> USE DEF StopInv, NothingAttachedAfterStop, relaying, serving, forwarding, Move
<1>1. CASE start
  BY <1>1 DEF start
<1>2. CASE DropSignals
  BY <1>2 DEF DropSignals
<1>3. CASE DropResets
  BY <1>3 DEF DropResets
<1>4. CASE DropEnds
  BY <1>4 DEF DropEnds
<1>5. CASE Worker
  BY <1>5 DEF Worker, Connect, InstallControl, Handshake, ShutDown, JoinReader, RelayOver, Unpark
<1>6. CASE LoopEnds \/ ReaderEnds
  BY <1>6 DEF LoopEnds, ReaderEnds
<1>7. CASE ListenerEnds
  BY <1>7 DEF ListenerEnds
<1>8. CASE StreamEnds
  BY <1>8 DEF StreamEnds
<1>9. ASSUME NEW t \in Threads, Handle(t) PROVE StopInv'
  <2>1. CASE authenticate(t) \/ CheckVersion(t) \/ targets(t)
    BY <2>1 DEF authenticate, CheckVersion, targets
  <2>2. CASE attach(t)
    BY <2>2 DEF attach, StillAlive
  <2>3. QED BY <1>9, <2>1, <2>2 DEF Handle
<1>10. ASSUME NEW t \in Threads, NEW k \in Kinds, Accept(t, k) PROVE StopInv'
  BY <1>10 DEF Accept
<1>11. CASE serve \/ UploadEnds \/ Downloaded \/ JoinUpload
  BY <1>11 DEF serve, UploadEnds, Downloaded, DownloadEnds, JoinUpload, Forward
<1>12. CASE UNCHANGED servicevars
  BY <1>12 DEF servicevars
<1>13. QED
  BY <1>1, <1>2, <1>3, <1>4, <1>5, <1>6, <1>7, <1>8, <1>9, <1>10, <1>11, <1>12 DEF ServiceNext

----------------------------------------------------------------------------
(* The bytes on their way to wd.                                           *)

FrameByte == Nat \X (1..3)

\* The bytes b are what is due of n frames when g were received.
Whole(b, n, g) ==
    /\ Len(b) = IF b # <<>> /\ b[Len(b)][2] < 3 THEN 3 * (n - g) - 1 ELSE 3 * (n - g)
    /\ \A k \in 1 .. Len(b) : b[k] = <<g + 1 + (k - 1) \div 3, 1 + ((k - 1) % 3)>>

LEMMA BytesAssociate ==
    ASSUME NEW x \in Seq(FrameByte), NEW y \in Seq(FrameByte), NEW z \in Seq(FrameByte)
    PROVE  (x \o y) \o z = x \o (y \o z)
BY ConcatAssociative

\* A read moves bytes and loses none.
LEMMA ReadKeeps ==
    ASSUME NEW b \in Seq(FrameByte), NEW w \in Seq(FrameByte), NEW n \in 1 .. Len(w)
    PROVE  /\ b \o SubSeq(w, 1, n) \in Seq(FrameByte)
           /\ SubSeq(w, n + 1, Len(w)) \in Seq(FrameByte)
           /\ (b \o SubSeq(w, 1, n)) \o SubSeq(w, n + 1, Len(w)) = b \o w
<1>1. Len(w) \in Nat /\ \A i \in 1 .. Len(w) : w[i] \in FrameByte
  BY LenProperties, ElementOfSeq
<1>2. SubSeq(w, 1, n) \in Seq(FrameByte)
  BY <1>1, SubSeqProperties, 1 \in Int, n \in Int
<1>3. SubSeq(w, n + 1, Len(w)) \in Seq(FrameByte)
  BY <1>1, SubSeqProperties, n + 1 \in Int, Len(w) \in Int
<1>4. SubSeq(w, 1, n) \o SubSeq(w, n + 1, Len(w)) = w
  <2>1. SubSeq(w, 1, n) \o SubSeq(w, n + 1, Len(w)) = SubSeq(w, 1, Len(w))
    BY <1>1, ConcatAdjacentSubSeq, 1 \in 1 .. Len(w) + 1, n \in 0 .. Len(w), Len(w) \in n .. Len(w)
  <2>2. QED BY <2>1, SubSeqFull
<1>5. (b \o SubSeq(w, 1, n)) \o SubSeq(w, n + 1, Len(w)) = b \o w
  <2> DEFINE x == SubSeq(w, 1, n)
             y == SubSeq(w, n + 1, Len(w))
  <2>1. x \in Seq(FrameByte) /\ y \in Seq(FrameByte) /\ x \o y = w
    BY <1>2, <1>3, <1>4
  <2> HIDE DEF x, y
  <2>2. (b \o x) \o y = b \o (x \o y)
    BY <2>1, BytesAssociate
  <2>3. (b \o x) \o y = b \o w
    BY <2>1, <2>2
  <2>4. QED BY <2>3 DEF x, y
<1>6. QED BY <1>2, <1>3, <1>5, ConcatProperties

\* A frame taken from the buffer is the next that is due.
LEMMA TakeKeeps ==
    ASSUME NEW b \in Seq(FrameByte), NEW w \in Seq(FrameByte), NEW n \in Nat, NEW g \in Nat,
           Whole(b \o w, n, g), Len(b) >= 3
    PROVE  /\ SubSeq(b, 4, Len(b)) \in Seq(FrameByte)
           /\ Whole(SubSeq(b, 4, Len(b)) \o w, n, g + 1)
<1> DEFINE s == b \o w
           c == SubSeq(b, 4, Len(b))
           t == c \o w
<1>1. Len(b) \in Nat /\ Len(w) \in Nat /\ \A i \in 1 .. Len(b) : b[i] \in FrameByte
  BY LenProperties, ElementOfSeq
<1>2. /\ c \in Seq(FrameByte) /\ Len(c) = Len(b) - 3
      /\ \A i \in 1 .. Len(c) : c[i] = b[i + 3]
  <2>1. \A i \in 4 .. Len(b) : b[i] \in FrameByte
    BY <1>1
  <2>2. /\ c \in Seq(FrameByte) /\ Len(c) = IF 4 <= Len(b) THEN Len(b) - 4 + 1 ELSE 0
        /\ \A i \in 1 .. Len(b) - 4 + 1 : c[i] = b[4 + i - 1]
    BY <1>1, <2>1, SubSeqProperties, 4 \in Int, Len(b) \in Int
  <2> HIDE DEF c
  <2> DEFINE m == Len(b)
  <2>3. m \in Nat /\ m >= 3 /\ Len(c) = (IF 4 <= m THEN m - 4 + 1 ELSE 0)
    BY <1>1, <2>2
  <2>4. c \in Seq(FrameByte) /\ \A i \in 1 .. m - 4 + 1 : c[i] = b[4 + i - 1]
    BY <2>2
  <2> HIDE DEF m
  <2>5. Len(c) = m - 3
    BY <2>3
  <2>6. ASSUME NEW i \in 1 .. m - 3 PROVE c[i] = b[i + 3]
    <3>1. i \in 1 .. m - 4 + 1 /\ 4 + i - 1 = i + 3
      BY <2>3
    <3>2. QED BY <3>1, <2>4
  <2>7. QED BY <2>4, <2>5, <2>6 DEF m
<1>3. /\ s \in Seq(FrameByte) /\ Len(s) = Len(b) + Len(w)
      /\ \A i \in 1 .. Len(s) : s[i] = IF i <= Len(b) THEN b[i] ELSE w[i - Len(b)]
  BY ConcatProperties
<1>4. /\ t \in Seq(FrameByte) /\ Len(t) = Len(c) + Len(w)
      /\ \A i \in 1 .. Len(t) : t[i] = IF i <= Len(c) THEN c[i] ELSE w[i - Len(c)]
  BY <1>2, ConcatProperties
<1>5. Len(t) = Len(s) - 3 /\ \A i \in 1 .. Len(t) : t[i] = s[i + 3]
  BY <1>1, <1>2, <1>3, <1>4
<1> HIDE DEF s, c, t
<1>6. \A k \in 1 .. Len(s) : s[k] = <<g + 1 + (k - 1) \div 3, 1 + ((k - 1) % 3)>>
  BY DEF Whole, s
<1>7. \A k \in 1 .. Len(t) : t[k] = <<g + 1 + 1 + (k - 1) \div 3, 1 + ((k - 1) % 3)>>
  <2> SUFFICES ASSUME NEW k \in 1 .. Len(t)
               PROVE  t[k] = <<g + 1 + 1 + (k - 1) \div 3, 1 + ((k - 1) % 3)>>
    OBVIOUS
  <2>1. k + 3 \in 1 .. Len(s) /\ k \in Nat
    BY <1>1, <1>3, <1>4, <1>2, <1>5
  <2>2. (k + 3 - 1) \div 3 = 1 + (k - 1) \div 3 /\ (k + 3 - 1) % 3 = (k - 1) % 3
    BY <2>1
  <2>3. t[k] = <<g + 1 + (k + 3 - 1) \div 3, 1 + ((k + 3 - 1) % 3)>>
    <3> DEFINE j == k + 3
    <3>1. j \in 1 .. Len(s) /\ t[k] = s[j]
      BY <2>1, <1>5
    <3> HIDE DEF j
    <3>2. s[j] = <<g + 1 + (j - 1) \div 3, 1 + ((j - 1) % 3)>>
      BY <1>6, <3>1
    <3>3. QED BY <3>1, <3>2 DEF j
  <2>4. QED BY <2>2, <2>3
<1>8. Len(t) = IF t # <<>> /\ t[Len(t)][2] < 3 THEN 3 * (n - (g + 1)) - 1 ELSE 3 * (n - (g + 1))
  <2>1. Len(s) = IF s[Len(s)][2] < 3 THEN 3 * (n - g) - 1 ELSE 3 * (n - g)
    BY <1>1, <1>3, EmptySeq DEF Whole, s
  <2>2. CASE Len(t) = 0
    <3>1. Len(s) = 3 /\ s[3] = <<g + 1 + 2 \div 3, 1 + (2 % 3)>>
      BY <1>5, <1>6, <2>2, <1>3, <1>1
    <3>2. t = <<>>
      BY <1>4, <2>2, EmptySeq
    <3>3. ~(s[Len(s)][2] < 3)
      BY <3>1
    <3>4. QED BY <2>1, <2>2, <3>2, <3>3, <3>1
  <2>3. CASE Len(t) > 0
    <3>1. t # <<>> /\ t[Len(t)] = s[Len(s)]
      BY <1>1, <1>2, <1>4, <1>5, <2>3, EmptySeq
    <3>2. QED BY <2>1, <3>1, <1>5, <1>1, <1>3
  <2>4. QED BY <2>2, <2>3, <1>4, <1>1, <1>2
<1>9. QED BY <1>2, <1>7, <1>8 DEF Whole, c, t

\* The peer begins a frame when the last one is whole ...
LEMMA PrefixKeeps ==
    ASSUME NEW b \in Seq(FrameByte), NEW w \in Seq(FrameByte), NEW n \in Nat, NEW g \in Nat,
           Whole(b \o w, n, g),
           ~(b \o w # <<>> /\ (b \o w)[Len(b \o w)][2] < 3)
    PROVE  /\ w \o <<<<n + 1, 1>>, <<n + 1, 2>>>> \in Seq(FrameByte)
           /\ Whole(b \o (w \o <<<<n + 1, 1>>, <<n + 1, 2>>>>), n + 1, g)
<1> DEFINE s == b \o w
           p == <<<<n + 1, 1>>, <<n + 1, 2>>>>
           t == s \o p
<1>1. p \in Seq(FrameByte) /\ Len(p) = 2 /\ p[1] = <<n + 1, 1>> /\ p[2] = <<n + 1, 2>>
  BY DEF FrameByte
<1>2. s \in Seq(FrameByte) /\ w \o p \in Seq(FrameByte)
  BY <1>1, ConcatProperties
<1>3. b \o (w \o p) = t
  <2> HIDE DEF p
  <2>1. (b \o w) \o p = b \o (w \o p)
    BY <1>1, BytesAssociate
  <2>2. QED BY <2>1
<1>4. Len(s) \in Nat
  BY <1>2, LenProperties
<1>5. /\ t \in Seq(FrameByte) /\ Len(t) = Len(s) + 2
      /\ \A i \in 1 .. Len(t) : t[i] = IF i <= Len(s) THEN s[i] ELSE p[i - Len(s)]
  BY <1>1, <1>2, ConcatProperties
<1> HIDE DEF s, p, t
<1>6. Len(s) = 3 * (n - g)
  BY DEF Whole, s
<1>7. /\ t[Len(s) + 1] = <<n + 1, 1>> /\ t[Len(s) + 2] = <<n + 1, 2>>
      /\ \A i \in 1 .. Len(s) : t[i] = s[i]
  <2>1. Len(s) + 1 \in 1 .. Len(t) /\ Len(s) + 2 \in 1 .. Len(t) /\ 1 .. Len(s) \subseteq 1 .. Len(t)
    BY <1>4, <1>5
  <2>2. /\ ~(Len(s) + 1 <= Len(s)) /\ Len(s) + 1 - Len(s) = 1
        /\ ~(Len(s) + 2 <= Len(s)) /\ Len(s) + 2 - Len(s) = 2
    BY <1>4
  <2>3. t[Len(s) + 1] = p[1] /\ t[Len(s) + 2] = p[2]
    BY <1>5, <2>1, <2>2
  <2>4. \A i \in 1 .. Len(s) : t[i] = s[i]
    BY <1>5, <2>1
  <2>5. QED BY <1>1, <2>3, <2>4
<1>8. \A k \in 1 .. Len(t) : t[k] = <<g + 1 + (k - 1) \div 3, 1 + ((k - 1) % 3)>>
  <2> SUFFICES ASSUME NEW k \in 1 .. Len(t)
               PROVE  t[k] = <<g + 1 + (k - 1) \div 3, 1 + ((k - 1) % 3)>>
    OBVIOUS
  <2>1. CASE k \in 1 .. Len(s)
    BY <2>1, <1>7 DEF Whole, s
  <2>2. CASE k = Len(s) + 1
    BY <2>2, <1>6, <1>7
  <2>3. CASE k = Len(s) + 2
    BY <2>3, <1>6, <1>7
  <2>4. QED BY <2>1, <2>2, <2>3, <1>4, <1>5
<1>9. t # <<>> /\ t[Len(t)][2] < 3 /\ Len(t) = 3 * (n + 1 - g) - 1
  BY <1>4, <1>5, <1>6, <1>7, EmptySeq
<1>10. Whole(t, n + 1, g)
  BY <1>8, <1>9 DEF Whole
<1>11. QED BY <1>2, <1>3, <1>10 DEF p

\* ... and ends it with its body.
LEMMA BodyKeeps ==
    ASSUME NEW b \in Seq(FrameByte), NEW w \in Seq(FrameByte), NEW n \in Nat, NEW g \in Nat,
           Whole(b \o w, n, g),
           b \o w # <<>>, (b \o w)[Len(b \o w)][2] < 3
    PROVE  /\ Append(w, <<n, 3>>) \in Seq(FrameByte)
           /\ Whole(b \o Append(w, <<n, 3>>), n, g)
<1> DEFINE s == b \o w
           p == <<<<n, 3>>>>
           t == s \o p
<1>1. p \in Seq(FrameByte) /\ Len(p) = 1 /\ p[1] = <<n, 3>>
  BY DEF FrameByte
<1>2. s \in Seq(FrameByte) /\ w \o p \in Seq(FrameByte)
  BY <1>1, ConcatProperties
<1>3. b \o (w \o p) = t
  <2> HIDE DEF p
  <2>1. (b \o w) \o p = b \o (w \o p)
    BY <1>1, BytesAssociate
  <2>2. QED BY <2>1
<1>4. Append(w, <<n, 3>>) = w \o p
  BY AppendIsConcat, <<n, 3>> \in FrameByte DEF FrameByte
<1>5. Len(s) \in Nat
  BY <1>2, LenProperties
<1>6. /\ t \in Seq(FrameByte) /\ Len(t) = Len(s) + 1
      /\ \A i \in 1 .. Len(t) : t[i] = IF i <= Len(s) THEN s[i] ELSE p[i - Len(s)]
  BY <1>1, <1>2, ConcatProperties
<1> HIDE DEF s, p, t
<1>7. Len(s) = 3 * (n - g) - 1
  BY DEF Whole, s
<1>8. /\ t[Len(s) + 1] = <<n, 3>>
      /\ \A i \in 1 .. Len(s) : t[i] = s[i]
  BY <1>1, <1>5, <1>6
<1>9. \A k \in 1 .. Len(t) : t[k] = <<g + 1 + (k - 1) \div 3, 1 + ((k - 1) % 3)>>
  <2> SUFFICES ASSUME NEW k \in 1 .. Len(t)
               PROVE  t[k] = <<g + 1 + (k - 1) \div 3, 1 + ((k - 1) % 3)>>
    OBVIOUS
  <2>1. CASE k \in 1 .. Len(s)
    BY <2>1, <1>8 DEF Whole, s
  <2>2. CASE k = Len(s) + 1
    <3>1. (k - 1) \div 3 = n - g - 1 /\ (k - 1) % 3 = 2
      BY <2>2, <1>7, <1>5
    <3>2. t[k] = <<n, 3>>
      BY <2>2, <1>8
    <3>3. QED BY <3>1, <3>2
  <2>3. QED BY <2>1, <2>2, <1>5, <1>6
<1>10. ~(t[Len(t)][2] < 3) /\ Len(t) = 3 * (n - g)
  BY <1>5, <1>6, <1>7, <1>8
<1>11. Whole(t, n, g)
  BY <1>9, <1>10 DEF Whole
<1>12. QED BY <1>2, <1>3, <1>4, <1>11

Words == {"Stdout", "Exit", "Error", "TransportUnavailable", "HelloAck", "ShellOutput",
          "ShellExit", "Disconnect"}

WireInv ==
    /\ sent \in Seq(Words) /\ got \in Nat
    /\ rx_buf \in Seq(FrameByte) /\ wire \in Seq(FrameByte)
    /\ Whole(rx_buf \o wire, Len(sent), got)

LEMMA WholeIsIntact ==
    ASSUME WireInv PROVE Wd!FramesIntact
<1>1. rx_buf \o wire \in Seq(FrameByte) /\ Len(rx_buf \o wire) \in Nat
  BY ConcatProperties, LenProperties DEF WireInv
<1>2. Wd!HalfSent <=> (rx_buf \o wire # <<>> /\ (rx_buf \o wire)[Len(rx_buf \o wire)][2] < 3)
  BY DEF Wd!HalfSent, Wd!FrameBytes, Wd!Last
<1>3. \A k \in 1 .. Len(rx_buf \o wire) :
        (rx_buf \o wire)[k] = <<got + 1 + (k - 1) \div 3, 1 + ((k - 1) % 3)>>
  BY DEF WireInv, Whole
<1>4. Len(rx_buf \o wire) = IF Wd!HalfSent THEN 3 * (Len(sent) - got) - 1 ELSE 3 * (Len(sent) - got)
  BY <1>2 DEF WireInv, Whole
<1>5. QED
  BY <1>3, <1>4, Zenon DEF Wd!FramesIntact, Wd!FrameBytes, Wd!Due

LEMMA WireStarts ==
    ASSUME sent = <<>>, wire = <<>>, rx_buf = <<>>, got = 0
    PROVE  WireInv
<1>1. rx_buf \o wire = <<>> /\ Len(rx_buf \o wire) = 0 /\ Len(sent) = 0
  OBVIOUS
<1>2. Whole(rx_buf \o wire, Len(sent), got)
  BY <1>1 DEF Whole
<1>3. QED BY <1>2 DEF WireInv

\* What take_buffered_frame and ReadSome leave of the invariant.
LEMMA FrameTaken ==
    ASSUME WireInv, Wd!HasFrame, Wd!take_buffered_frame, UNCHANGED <<sent, wire>>
    PROVE  WireInv'
<1>1. Len(rx_buf) >= 3 /\ rx_buf' = SubSeq(rx_buf, 4, Len(rx_buf)) /\ got' = got + 1
  BY DEF Wd!HasFrame, Wd!take_buffered_frame, Wd!FrameBytes
<1>2. Len(sent) \in Nat
  BY LenProperties DEF WireInv
<1>3. /\ SubSeq(rx_buf, 4, Len(rx_buf)) \in Seq(FrameByte)
      /\ Whole(SubSeq(rx_buf, 4, Len(rx_buf)) \o wire, Len(sent), got + 1)
  BY <1>1, <1>2, TakeKeeps DEF WireInv
<1>4. QED BY <1>1, <1>3 DEF WireInv

LEMMA SomeRead ==
    ASSUME WireInv, Wd!ReadSome, UNCHANGED sent
    PROVE  WireInv'
<1>1. PICK n \in 1 .. Len(wire) :
        rx_buf' = rx_buf \o SubSeq(wire, 1, n) /\ wire' = SubSeq(wire, n + 1, Len(wire))
  BY DEF Wd!ReadSome
<1>2. got' = got
  BY DEF Wd!ReadSome
<1>3. /\ rx_buf' \in Seq(FrameByte) /\ wire' \in Seq(FrameByte)
      /\ rx_buf' \o wire' = rx_buf \o wire
  BY <1>1, ReadKeeps DEF WireInv
<1>4. QED BY <1>2, <1>3 DEF WireInv

LEMMA PrefixBytes ==
    ASSUME NEW n \in Nat
    PROVE  SubSeq(Wd!Bytes(n), 1, Wd!FrameBytes - 1) = <<<<n, 1>>, <<n, 2>>>>
<1> DEFINE bs == Wd!Bytes(n)
           p == <<<<n, 1>>, <<n, 2>>>>
<1>1. Wd!FrameBytes - 1 = 2
  BY DEF Wd!FrameBytes
<1>2. bs[1] = <<n, 1>> /\ bs[2] = <<n, 2>>
  BY DEF Wd!Bytes, Wd!FrameBytes
<1>3. p \in Seq(FrameByte) /\ Len(p) = 2 /\ p[1] = <<n, 1>> /\ p[2] = <<n, 2>>
  BY DEF FrameByte
<1> HIDE DEF bs, p
<1>4. \A i \in 1 .. 2 : bs[i] \in FrameByte
  BY <1>2 DEF FrameByte
<1>5. /\ SubSeq(bs, 1, 2) \in Seq(FrameByte)
      /\ Len(SubSeq(bs, 1, 2)) = 2
      /\ \A i \in 1 .. 2 - 1 + 1 : SubSeq(bs, 1, 2)[i] = bs[1 + i - 1]
  BY <1>4, SubSeqProperties, 1 \in Int, 2 \in Int
<1>6. SubSeq(bs, 1, 2) = p
  <2>1. \A i \in 1 .. 2 : SubSeq(bs, 1, 2)[i] = p[i]
    BY <1>2, <1>3, <1>5
  <2>2. QED BY <1>3, <1>5, <2>1, SeqEqual
<1>7. QED BY <1>1, <1>6 DEF bs, p

LEMMA PrefixSent ==
    ASSUME WireInv, NEW m \in Words, Wd!PeerSends(m)
    PROVE  WireInv'
<1> DEFINE p == <<<<Len(sent) + 1, 1>>, <<Len(sent) + 1, 2>>>>
<1>1. Len(sent) \in Nat /\ rx_buf \o wire \in Seq(FrameByte)
  BY LenProperties, ConcatProperties DEF WireInv
<1>2. ~(rx_buf \o wire # <<>> /\ (rx_buf \o wire)[Len(rx_buf \o wire)][2] < 3)
  BY DEF Wd!PeerSends, Wd!HalfSent, Wd!FrameBytes, Wd!Last
<1>3. SubSeq(Wd!Bytes(Len(sent) + 1), 1, Wd!FrameBytes - 1) = p
  BY <1>1, PrefixBytes
<1>4. /\ sent' = Append(sent, m) /\ wire' = wire \o p
      /\ rx_buf' = rx_buf /\ got' = got
  BY <1>3 DEF Wd!PeerSends
<1>5. wire \o p \in Seq(FrameByte) /\ Whole(rx_buf \o (wire \o p), Len(sent) + 1, got)
  BY <1>1, <1>2, PrefixKeeps DEF WireInv
<1>6. sent' \in Seq(Words) /\ Len(sent') = Len(sent) + 1
  BY <1>4, AppendProperties DEF WireInv
<1> HIDE DEF p
<1>7. QED BY <1>4, <1>5, <1>6 DEF WireInv

LEMMA BodySent ==
    ASSUME WireInv, Wd!PeerSendsBody
    PROVE  WireInv'
<1>1. Len(sent) \in Nat
  BY LenProperties DEF WireInv
<1>2. rx_buf \o wire # <<>> /\ (rx_buf \o wire)[Len(rx_buf \o wire)][2] < 3
  BY DEF Wd!PeerSendsBody, Wd!HalfSent, Wd!FrameBytes, Wd!Last
<1>3. wire' = Append(wire, <<Len(sent), 3>>) /\ UNCHANGED <<sent, rx_buf, got>>
  BY DEF Wd!PeerSendsBody, Wd!FrameBytes
<1>4. /\ Append(wire, <<Len(sent), 3>>) \in Seq(FrameByte)
      /\ Whole(rx_buf \o Append(wire, <<Len(sent), 3>>), Len(sent), got)
  BY <1>1, <1>2, BodyKeeps DEF WireInv
<1>5. QED BY <1>3, <1>4 DEF WireInv

LEMMA WireKept == ASSUME WireInv, [Wd!Next]_wdvars PROVE WireInv'
<1>1. CASE UNCHANGED <<sent, wire, rx_buf, got>>
  BY <1>1 DEF WireInv
<1>2. CASE \/ Wd!run_BadArguments \/ Wd!try_socket_first \/ Wd!try_interactive_socket_at
           \/ Wd!MainEof \/ Wd!SerialOpen \/ Wd!handshake_Fails
  BY <1>1, <1>2 DEF Wd!run_BadArguments, Wd!try_socket_first, Wd!try_interactive_socket_at,
     Wd!MainEof, Wd!SerialOpen, Wd!handshake_Fails
<1>3. CASE \/ Wd!OpenShell \/ Wd!OpenShell_Fails \/ Wd!run_exec_oneshot \/ Wd!bridge_loop
           \/ Wd!Goodbye
  BY <1>1, <1>3 DEF Wd!OpenShell, Wd!OpenShell_Fails, Wd!run_exec_oneshot, Wd!bridge_loop,
     Wd!Goodbye
<1>4. CASE Wd!try_socket_Deadline
  <2>1. sent' = <<>> /\ wire' = <<>> /\ rx_buf' = <<>> /\ got' = 0
    BY <1>4 DEF Wd!try_socket_Deadline, Wd!FallBack
  <2>2. rx_buf' \o wire' = <<>> /\ Len(rx_buf' \o wire') = 0 /\ Len(sent') = 0
    BY <2>1
  <2>3. Whole(rx_buf' \o wire', Len(sent'), got')
    BY <2>1, <2>2 DEF Whole
  <2>4. QED BY <2>1, <2>3 DEF WireInv
<1>5. CASE Wd!MainRecv
  <2>1. CASE Wd!ReadSome
    BY <1>5, <2>1, SomeRead DEF Wd!MainRecv
  <2>2. CASE ~Wd!ReadSome
    BY <1>1, <1>5, <2>2 DEF Wd!MainRecv, Wd!RecvTimeout
  <2>3. QED BY <2>1, <2>2
<1>6. CASE Wd!try_socket_first_Frame \/ Wd!handshake_Frame
  BY <1>6, FrameTaken DEF Wd!try_socket_first_Frame, Wd!handshake_Frame
<1>7. CASE Wd!reader_thread
  <2>1. CASE Wd!ReadSome
    BY <1>7, <2>1, SomeRead DEF Wd!reader_thread
  <2>2. CASE Wd!HasFrame /\ Wd!take_buffered_frame /\ UNCHANGED wire
    BY <1>7, <2>2, FrameTaken DEF Wd!reader_thread
  <2>3. CASE Wd!RecvTimeout /\ UNCHANGED <<wire, got>>
    BY <1>1, <1>7, <2>3 DEF Wd!reader_thread, Wd!RecvTimeout
  <2>4. QED BY <1>7, <2>1, <2>2, <2>3 DEF Wd!reader_thread
<1>8. CASE Wd!stdin_pump \/ Wd!GuiDies \/ Wd!GuiPort
  BY <1>1, <1>8 DEF Wd!stdin_pump, Wd!GuiDies, Wd!GuiPort
<1>9. ASSUME NEW t \in Wd!BridgeThreads, Wd!ThreadSeesStop(t) PROVE WireInv'
  BY <1>1, <1>9 DEF Wd!ThreadSeesStop
<1>10. ASSUME NEW m \in Wd!Answers, Wd!PeerSends(m) PROVE WireInv'
  <2>1. m \in Words
    BY DEF Wd!Answers, Words
  <2>2. QED BY <1>10, <2>1, PrefixSent
<1>11. CASE Wd!PeerSendsBody
  BY <1>11, BodySent
<1>12. CASE UNCHANGED wdvars
  BY <1>1, <1>12 DEF wdvars
<1>13. Wd!Main => \/ Wd!run_BadArguments \/ Wd!try_socket_first \/ Wd!try_interactive_socket_at
                  \/ Wd!try_socket_Deadline \/ Wd!MainRecv \/ Wd!MainEof
                  \/ Wd!try_socket_first_Frame \/ Wd!SerialOpen \/ Wd!handshake_Frame
                  \/ Wd!handshake_Fails \/ Wd!OpenShell \/ Wd!OpenShell_Fails
                  \/ Wd!run_exec_oneshot \/ Wd!bridge_loop \/ Wd!Goodbye
  BY DEF Wd!Main
<1>14. QED
  BY <1>2, <1>3, <1>4, <1>5, <1>6, <1>7, <1>8, <1>9, <1>10, <1>11, <1>12, <1>13 DEF Wd!Next

----------------------------------------------------------------------------
(* A stopped browser service leaves no stream in the hub, and every frame  *)
(* the peer of wd wrote is received once and in order.                     *)
THEOREM NothingStaysOrSlips == MCSpec => []NothingAttachedNothingSlips
<1> DEFINE Inv == StopInv /\ WireInv
<1>1. MCInit => Inv
  <2> SUFFICES ASSUME MCInit PROVE Inv
    OBVIOUS
  <2>1. StopInv
    BY DEF MCInit, ServiceInit, StopInv, NothingAttachedAfterStop
  <2>2. WireInv
    BY WireStarts DEF MCInit, Wd!Init
  <2>3. QED BY <2>1, <2>2
<1>2. Inv /\ [MCNext]_mcvars => Inv'
  <2> SUFFICES ASSUME Inv, [MCNext]_mcvars PROVE Inv'
    OBVIOUS
  <2>1. [ServiceNext]_servicevars /\ [Wd!Next]_wdvars
    BY DEF MCNext, mcvars, OnBrowser, OnStatus, OnWd
  <2>2. QED BY <2>1, StopKept, WireKept
<1>3. Inv => NothingAttachedNothingSlips
  BY WholeIsIntact DEF StopInv, NothingAttachedNothingSlips
<1>4. MCSpec => MCInit /\ [][MCNext]_mcvars
  BY PTL DEF MCSpec
<1>5. QED BY <1>1, <1>2, <1>3, <1>4, PTL

----------------------------------------------------------------------------
(* The host session.                                                       *)

(* A packet put together from legal parts is a shell packet.               *)
LEMMA ShellPacketType ==
    ASSUME NEW op \in OriginalOps \cup DedicatedOps,
           NEW from \in {"exec", "legacy", "console"}, NEW e \in {0, 1}
    PROVE  Packet(op, from, e) \in ShellPacket
BY DEF Packet, ShellPacket

(* A shell packet and a packet after it are both sequences of them.        *)
LEMMA OneOrTwoPackets ==
    ASSUME NEW p \in ShellPacket, NEW q \in ShellPacket
    PROVE  /\ <<>> \in Seq(ShellPacket)
           /\ <<p>> \in Seq(ShellPacket)
           /\ <<>> \o <<>> \in Seq(ShellPacket)
           /\ <<p>> \o <<>> \in Seq(ShellPacket)
           /\ <<>> \o <<q>> \in Seq(ShellPacket)
           /\ <<p>> \o <<q>> \in Seq(ShellPacket)
OBVIOUS

(* A packet handed to a send is on the wire or swallowed.                  *)
LEMMA SentType ==
    ASSUME NEW p \in ShellPacket, NEW said \in Drained(p),
           NEW q \in ShellPacket, NEW ok
    PROVE  /\ Sent(ok, q) \in Seq(ShellPacket)
           /\ said \in Seq(ShellPacket)
           /\ said \o Sent(ok, q) \in Seq(ShellPacket)
BY OneOrTwoPackets DEF Sent, Drained

USE TimeoutAssumption, CounterAssumption, InputAssumption
    DEF TimeoutAssumption, CounterAssumption, InputAssumption

(* The dismantled session is as good as a new one.                         *)
LEMMA DismantleType == TypeOK /\ Dismantle => TypeOK'
BY DEF TypeOK, Dismantle, KillAllShells, ReleaseAll

(* The end of a session resets what it touches to values of its type.      *)
LEMMA EndSessionType ==
    ASSUME TypeOK, EndSession
    PROVE  /\ state' \in {"WaitingForHello", "Connected"}
           /\ client' \in Clients \cup {None}
           /\ epoch' \in {0, 1}
           /\ exec' \in Shell \cup {None}
           /\ pty' \in Console \cup {None}
           /\ warm' \in WarmShell \cup {None}
           /\ clip' \in {"idle", "busy"}
           /\ held' \subseteq Keys
           /\ quiet' \in 0..BusyTimeout
           /\ out' \in Seq(ShellPacket)
BY DEF TypeOK, EndSession, KillAllShells, ReleaseAll

(* Taking in a packet keeps the thread's counters in range.                *)
LEMMA ReceiveType ==
    ASSUME TypeOK, Receive(TRUE) \/ Receive(FALSE)
    PROVE  /\ port' \in {"open", "closed"}
           /\ storm' \in 0..StormThreshold
           /\ at' \in {"top", "pty", "exec", "poll", "recv"}
           /\ reports' \in 0..MaxReports
BY DEF TypeOK, Receive, AnotherReport

(* What warm_up leaves behind is a warm shell or none.                     *)
LEMMA WarmUpType ==
    ASSUME NEW w \in WarmShell \cup {None}
    PROVE  WarmUp(w) \subseteq WarmShell \cup {None}
BY DEF WarmUp, WarmShell, Child

(* No step of the thread, the peer or the children breaks a type.          *)
LEMMA TypeStep == TypeOK /\ [Next]_vars => TypeOK'
<1> SUFFICES ASSUME TypeOK, [Next]_vars PROVE TypeOK'
  OBVIOUS
<1> USE DEF session, slots, thread
<1>1. CASE OpenPort
  BY <1>1 DEF OpenPort, TypeOK
<1>2. CASE TransportFails
  BY <1>2, DismantleType DEF TransportFails
<1>3. CASE ProtocolError
  <2>1. CASE storm + 1 >= StormThreshold
    BY <1>3, <2>1, DismantleType DEF ProtocolError
  <2>2. CASE ~(storm + 1 >= StormThreshold)
    BY <1>3, <2>2 DEF ProtocolError, TypeOK
  <2> QED BY <2>1, <2>2
<1>4. CASE HeartbeatTimeout
  BY <1>4, EndSessionType DEF HeartbeatTimeout, TypeOK
<1>5. CASE TickTop
  BY <1>5 DEF TickTop, TypeOK
<1>6. CASE PumpPty
  <2>1. CASE pty = None
    BY <1>6, <2>1 DEF PumpPty, TypeOK
  <2>2. CASE pty # None
    <3>1. /\ Output("pty", PtySpeaker, pty.epoch) \in ShellPacket
          /\ Exit("pty", PtySpeaker, pty.epoch) \in ShellPacket
      BY <2>2, ShellPacketType
         DEF TypeOK, Console, Output, Exit, PtySpeaker, LegacyPty, OriginalOps, DedicatedOps
    <3>3. out' \in Seq(ShellPacket)
      BY <1>6, <2>2, <3>1, SentType, OneOrTwoPackets DEF PumpPty
    <3>4. pty' \in Console \cup {None} /\ at' \in {"top", "pty", "exec", "poll", "recv"}
      BY <1>6, <2>2 DEF PumpPty, TypeOK
    <3> QED BY <1>6, <3>3, <3>4 DEF PumpPty, TypeOK
  <2> QED BY <2>1, <2>2
<1>7. CASE PumpExec
  <2>1. CASE exec = None
    BY <1>7, <2>1 DEF PumpExec, TypeOK
  <2>2. CASE exec # None
    <3>1. /\ Output("exec", "exec", exec.epoch) \in ShellPacket
          /\ Exit("exec", "exec", exec.epoch) \in ShellPacket
      BY <2>2, ShellPacketType
         DEF TypeOK, Shell, Output, Exit, OriginalOps, DedicatedOps
    <3>3. out' \in Seq(ShellPacket)
      BY <1>7, <2>2, <3>1, SentType, OneOrTwoPackets DEF PumpExec
    <3>4. exec' \in Shell \cup {None} /\ at' \in {"top", "pty", "exec", "poll", "recv"}
      BY <1>7, <2>2 DEF PumpExec, TypeOK
    <3> QED BY <1>7, <3>3, <3>4 DEF PumpExec, TypeOK
  <2> QED BY <2>1, <2>2
<1>8. CASE Poll
  BY <1>8 DEF Poll, TypeOK
<1>9. CASE RecvTimeout
  BY <1>9 DEF RecvTimeout, TypeOK
<1>10. CASE HeartbeatSendTimesOut
  BY <1>10 DEF HeartbeatSendTimesOut, TypeOK
<1>11. CASE OnHello
  <2>1. /\ held' \subseteq Keys /\ clip' \in {"idle", "busy"}
        /\ exec' \in Shell \cup {None} /\ pty' \in Console \cup {None}
    BY <1>11 DEF OnHello, Rehandshake, KillAllShells, ReleaseAll, TypeOK
  <2>2. /\ client' \in Clients \cup {None}
        /\ state' \in {"WaitingForHello", "Connected"}
        /\ epoch' \in {0, 1} /\ quiet' \in 0..BusyTimeout
        /\ warm' \in WarmShell \cup {None} /\ out' \in Seq(ShellPacket)
    BY <1>11, WarmUpType DEF OnHello, TypeOK
  <2> QED BY <1>11, <2>1, <2>2, ReceiveType DEF OnHello, TypeOK
<1>12. CASE OnHeartbeat
  BY <1>12, ReceiveType DEF OnHeartbeat, TypeOK
<1>13. CASE OnReport
  BY <1>13, ReceiveType DEF OnReport, TypeOK
<1>14. CASE OnIgnored
  BY <1>14, ReceiveType DEF OnIgnored, TypeOK
<1>24. CASE OnKeyDown
  <2>1. held' \subseteq Keys
    BY <1>24 DEF OnKeyDown, TypeOK
  <2> QED BY <1>24, <2>1, ReceiveType DEF OnKeyDown, TypeOK
<1>25. CASE OnKeyUp
  <2>1. held' \subseteq Keys
    BY <1>25 DEF OnKeyUp, TypeOK
  <2> QED BY <1>25, <2>1, ReceiveType DEF OnKeyUp, TypeOK
<1>15. CASE OnClip
  BY <1>15, ReceiveType DEF OnClip, TypeOK
<1>16. CASE OnShellOpen
  <2>1. exec' \in Shell \cup {None} /\ pty' \in Console \cup {None}
    BY <1>16 DEF OnShellOpen, NewShell, TypeOK, Shell, WarmShell, Child
  <2>2. warm' \in WarmShell \cup {None}
    BY <1>16, WarmUpType DEF OnShellOpen, TypeOK
  <2> QED BY <1>16, <2>1, <2>2, ReceiveType DEF OnShellOpen, TypeOK
<1>17. CASE OnShellOpenPty
  <2>1. pty' \in Console \cup {None}
    BY <1>17 DEF OnShellOpenPty, TypeOK, Console, Child
  <2> QED BY <1>17, <2>1, ReceiveType DEF OnShellOpenPty, TypeOK
<1>26. CASE OnPtyOpen
  <2>1. pty' \in Console \cup {None}
    BY <1>26 DEF OnPtyOpen, TypeOK, Console, Child
  <2> QED BY <1>26, <2>1, ReceiveType DEF OnPtyOpen, TypeOK
<1>18. CASE OnShellClose
  <2>1. \A from \in {"exec", "legacy"} :
           Packet("ShellClosed", from, epoch) \in ShellPacket
    BY ShellPacketType DEF TypeOK, OriginalOps
  <2>2. out' \in Seq(ShellPacket)
    BY <1>18, <2>1 DEF OnShellClose, CloseAnswer, Sent
  <2> QED BY <1>18, <2>2, ReceiveType DEF OnShellClose, TypeOK
<1>19. CASE OnPtyClose
  BY <1>19, ReceiveType DEF OnPtyClose, TypeOK
<1>20. CASE OnDisconnect
  BY <1>20, ReceiveType, EndSessionType DEF OnDisconnect, TypeOK
<1>21. CASE ChildExits
  BY <1>21 DEF ChildExits, TypeOK, Shell, Console, WarmShell, Child
<1>22. CASE Tock
  BY <1>22 DEF Tock, TypeOK
<1>23. CASE UNCHANGED vars
  BY <1>23 DEF vars, TypeOK
<1> QED
  BY <1>1, <1>2, <1>3, <1>4, <1>5, <1>6, <1>7, <1>8, <1>9, <1>10, <1>11,
     <1>12, <1>13, <1>14, <1>15, <1>16, <1>17, <1>18, <1>19, <1>20, <1>21,
     <1>22, <1>23, <1>24, <1>25, <1>26
     DEF Next, Work, HandlePacket

(* Every variable keeps its type.                                          *)
THEOREM TypeCorrect == Spec => []TypeOK
<1>1. Init => TypeOK
  BY DEF Init, TypeOK
<1> QED BY <1>1, TypeStep, PTL DEF Spec

(* No step leaves a shell of one session to the next. *)
LEMMA SlotsStep ==
    ASSUME TypeOK, SlotsOfThisSession, [Next]_vars
    PROVE  SlotsOfThisSession'
<1> USE DEF TypeOK, SlotsOfThisSession, LegacyPty, DedicatedPty, Shell, Console, session, slots, thread
<1>1. CASE OpenPort
  BY <1>1 DEF OpenPort
<1>2. CASE TransportFails
  BY <1>2 DEF TransportFails, Dismantle, KillAllShells
<1>3. CASE ProtocolError
  BY <1>3 DEF ProtocolError, Dismantle, KillAllShells
<1>4. CASE HeartbeatTimeout
  BY <1>4 DEF HeartbeatTimeout, EndSession, KillAllShells
<1>5. CASE TickTop
  BY <1>5 DEF TickTop
<1>6. CASE PumpPty
  BY <1>6 DEF PumpPty
<1>7. CASE PumpExec
  BY <1>7 DEF PumpExec
<1>8. CASE Poll
  BY <1>8 DEF Poll
<1>9. CASE RecvTimeout
  BY <1>9 DEF RecvTimeout
<1>10. CASE HeartbeatSendTimesOut
  BY <1>10 DEF HeartbeatSendTimesOut
<1>11. CASE OnHello
  BY <1>11 DEF OnHello, Rehandshake, KillAllShells, Receive
<1>12. CASE OnHeartbeat
  BY <1>12 DEF OnHeartbeat, Receive
<1>13. CASE OnReport
  BY <1>13 DEF OnReport, Receive
<1>14. CASE OnIgnored
  BY <1>14 DEF OnIgnored, Receive
<1>15. CASE OnKeyDown
  BY <1>15 DEF OnKeyDown, Receive
<1>16. CASE OnKeyUp
  BY <1>16 DEF OnKeyUp, Receive
<1>17. CASE OnClip
  BY <1>17 DEF OnClip, Receive
<1>18. CASE OnShellOpen
  BY <1>18 DEF OnShellOpen, NewShell, ShellOpenBusy, Receive
<1>19. CASE OnShellOpenPty
  BY <1>19 DEF OnShellOpenPty, LegacyOpenBusy, Receive
<1>20. CASE OnPtyOpen
  BY <1>20 DEF OnPtyOpen, Receive
<1>21. CASE OnShellClose
  BY <1>21 DEF OnShellClose, Receive
<1>22. CASE OnPtyClose
  BY <1>22 DEF OnPtyClose, Receive
<1>23. CASE OnDisconnect
  BY <1>23 DEF OnDisconnect, EndSession, KillAllShells, Receive
<1>24. CASE ChildExits
  BY <1>24 DEF ChildExits
<1>25. CASE Tock
  BY <1>25 DEF Tock
<1>26. CASE UNCHANGED vars
  BY <1>26 DEF vars
<1> QED
  BY <1>1, <1>2, <1>3, <1>4, <1>5, <1>6, <1>7, <1>8, <1>9, <1>10,
     <1>11, <1>12, <1>13, <1>14, <1>15, <1>16, <1>17, <1>18, <1>19, <1>20,
     <1>21, <1>22, <1>23, <1>24, <1>25, <1>26
     DEF Next, Work, HandlePacket

(* No order of opens puts an exec shell beside a legacy console. *)
LEMMA LegacyStep ==
    ASSUME TypeOK, LegacyExclusive, [Next]_vars
    PROVE  LegacyExclusive'
<1> USE DEF TypeOK, LegacyExclusive, LegacyPty, DedicatedPty, Console, session, slots, thread
<1>1. CASE OpenPort
  BY <1>1 DEF OpenPort
<1>2. CASE TransportFails
  BY <1>2 DEF TransportFails, Dismantle, KillAllShells
<1>3. CASE ProtocolError
  BY <1>3 DEF ProtocolError, Dismantle, KillAllShells
<1>4. CASE HeartbeatTimeout
  BY <1>4 DEF HeartbeatTimeout, EndSession, KillAllShells
<1>5. CASE TickTop
  BY <1>5 DEF TickTop
<1>6. CASE PumpPty
  BY <1>6 DEF PumpPty
<1>7. CASE PumpExec
  BY <1>7 DEF PumpExec
<1>8. CASE Poll
  BY <1>8 DEF Poll
<1>9. CASE RecvTimeout
  BY <1>9 DEF RecvTimeout
<1>10. CASE HeartbeatSendTimesOut
  BY <1>10 DEF HeartbeatSendTimesOut
<1>11. CASE OnHello
  BY <1>11 DEF OnHello, Rehandshake, KillAllShells, Receive
<1>12. CASE OnHeartbeat
  BY <1>12 DEF OnHeartbeat, Receive
<1>13. CASE OnReport
  BY <1>13 DEF OnReport, Receive
<1>14. CASE OnIgnored
  BY <1>14 DEF OnIgnored, Receive
<1>15. CASE OnKeyDown
  BY <1>15 DEF OnKeyDown, Receive
<1>16. CASE OnKeyUp
  BY <1>16 DEF OnKeyUp, Receive
<1>17. CASE OnClip
  BY <1>17 DEF OnClip, Receive
<1>18. CASE OnShellOpen
  BY <1>18 DEF OnShellOpen, NewShell, ShellOpenBusy, Receive
<1>19. CASE OnShellOpenPty
  BY <1>19 DEF OnShellOpenPty, LegacyOpenBusy, Receive
<1>20. CASE OnPtyOpen
  BY <1>20 DEF OnPtyOpen, Receive
<1>21. CASE OnShellClose
  BY <1>21 DEF OnShellClose, Receive
<1>22. CASE OnPtyClose
  BY <1>22 DEF OnPtyClose, Receive
<1>23. CASE OnDisconnect
  BY <1>23 DEF OnDisconnect, EndSession, KillAllShells, Receive
<1>24. CASE ChildExits
  BY <1>24 DEF ChildExits
<1>25. CASE Tock
  BY <1>25 DEF Tock
<1>26. CASE UNCHANGED vars
  BY <1>26 DEF vars
<1> QED
  BY <1>1, <1>2, <1>3, <1>4, <1>5, <1>6, <1>7, <1>8, <1>9, <1>10,
     <1>11, <1>12, <1>13, <1>14, <1>15, <1>16, <1>17, <1>18, <1>19, <1>20,
     <1>21, <1>22, <1>23, <1>24, <1>25, <1>26
     DEF Next, Work, HandlePacket

(* Every way out of a session goes through release_all. *)
LEMMA ModifiersStep ==
    ASSUME TypeOK, ModifiersReleased, [Next]_vars
    PROVE  ModifiersReleased'
<1> USE DEF TypeOK, ModifiersReleased, ReleaseAll, session, slots, thread
<1>1. CASE OpenPort
  BY <1>1 DEF OpenPort
<1>2. CASE TransportFails
  BY <1>2 DEF TransportFails, Dismantle, KillAllShells
<1>3. CASE ProtocolError
  BY <1>3 DEF ProtocolError, Dismantle, KillAllShells
<1>4. CASE HeartbeatTimeout
  BY <1>4 DEF HeartbeatTimeout, EndSession, KillAllShells
<1>5. CASE TickTop
  BY <1>5 DEF TickTop
<1>6. CASE PumpPty
  BY <1>6 DEF PumpPty
<1>7. CASE PumpExec
  BY <1>7 DEF PumpExec
<1>8. CASE Poll
  BY <1>8 DEF Poll
<1>9. CASE RecvTimeout
  BY <1>9 DEF RecvTimeout
<1>10. CASE HeartbeatSendTimesOut
  BY <1>10 DEF HeartbeatSendTimesOut
<1>11. CASE OnHello
  BY <1>11 DEF OnHello, Rehandshake, KillAllShells, Receive
<1>12. CASE OnHeartbeat
  BY <1>12 DEF OnHeartbeat, Receive
<1>13. CASE OnReport
  BY <1>13 DEF OnReport, Receive
<1>14. CASE OnIgnored
  BY <1>14 DEF OnIgnored, Receive
<1>15. CASE OnKeyDown
  BY <1>15 DEF OnKeyDown, Receive
<1>16. CASE OnKeyUp
  BY <1>16 DEF OnKeyUp, Receive
<1>17. CASE OnClip
  BY <1>17 DEF OnClip, Receive
<1>18. CASE OnShellOpen
  BY <1>18 DEF OnShellOpen, NewShell, ShellOpenBusy, Receive
<1>19. CASE OnShellOpenPty
  BY <1>19 DEF OnShellOpenPty, LegacyOpenBusy, Receive
<1>20. CASE OnPtyOpen
  BY <1>20 DEF OnPtyOpen, Receive
<1>21. CASE OnShellClose
  BY <1>21 DEF OnShellClose, Receive
<1>22. CASE OnPtyClose
  BY <1>22 DEF OnPtyClose, Receive
<1>23. CASE OnDisconnect
  BY <1>23 DEF OnDisconnect, EndSession, KillAllShells, Receive
<1>24. CASE ChildExits
  BY <1>24 DEF ChildExits
<1>25. CASE Tock
  BY <1>25 DEF Tock
<1>26. CASE UNCHANGED vars
  BY <1>26 DEF vars
<1> QED
  BY <1>1, <1>2, <1>3, <1>4, <1>5, <1>6, <1>7, <1>8, <1>9, <1>10,
     <1>11, <1>12, <1>13, <1>14, <1>15, <1>16, <1>17, <1>18, <1>19, <1>20,
     <1>21, <1>22, <1>23, <1>24, <1>25, <1>26
     DEF Next, Work, HandlePacket

(* A packet in the right dialect, of session e.                            *)
Fine(p, e) ==
    /\ p.op \in OriginalOps <=> p.from \in {"exec", "legacy"}
    /\ p.epoch = e

(* What a pump puts on the wire is fine when its two packets are.          *)
LEMMA SaidFine ==
    ASSUME NEW e, NEW p \in ShellPacket, NEW q \in ShellPacket,
           Fine(p, e), Fine(q, e), NEW ok, NEW said \in Drained(p)
    PROVE  /\ \A i \in DOMAIN said : Fine(said[i], e)
           /\ \A i \in DOMAIN (said \o Sent(ok, q)) :
                 Fine((said \o Sent(ok, q))[i], e)
<1> USE DEF Drained, Sent
<1>1. CASE said = <<>>
  BY <1>1
<1>2. CASE said = <<p>>
  BY <1>2
<1> QED BY <1>1, <1>2

(* A step that says nothing says nothing wrong.                            *)
LEMMA SilentFine == out' = <<>> => AnsweredInOpenersDialect'
BY DEF AnsweredInOpenersDialect

(* No pump and no close answers in the wrong dialect or for an earlier     *)
(* session.                                                                *)
LEMMA DialectStep ==
    ASSUME TypeOK, SlotsOfThisSession, AnsweredInOpenersDialect, [Next]_vars
    PROVE  AnsweredInOpenersDialect'
<1> USE DEF session, slots, thread
<1>1. CASE OpenPort
  BY <1>1, SilentFine DEF OpenPort
<1>2. CASE TransportFails
  BY <1>2, SilentFine DEF TransportFails, Dismantle
<1>3. CASE ProtocolError
  BY <1>3, SilentFine DEF ProtocolError, Dismantle
<1>4. CASE HeartbeatTimeout
  BY <1>4, SilentFine DEF HeartbeatTimeout, EndSession
<1>5. CASE TickTop
  BY <1>5, SilentFine DEF TickTop
<1>6. CASE PumpPty
  <2>1. CASE pty = None
    BY <1>6, <2>1, SilentFine DEF PumpPty
  <2>2. CASE pty # None
    <3> DEFINE p == Output("pty", PtySpeaker, pty.epoch)
               q == Exit("pty", PtySpeaker, pty.epoch)
    <3>1. p \in ShellPacket /\ q \in ShellPacket
      BY <2>2, ShellPacketType
         DEF TypeOK, Console, Output, Exit, PtySpeaker, OriginalOps, DedicatedOps
    <3>2. Fine(p, epoch) /\ Fine(q, epoch)
      BY <2>2 DEF SlotsOfThisSession, Fine, Output, Exit, Packet, PtySpeaker,
                  LegacyOpcodes, OriginalOps
    <3>3. /\ epoch' = epoch
          /\ \/ out' = <<>>
             \/ out' \in Drained(p)
             \/ \E said \in Drained(p), ok \in SendOutcomes : out' = said \o Sent(ok, q)
      BY <1>6, <2>2 DEF PumpPty
    <3> HIDE DEF p, q
    <3>4. \A i \in DOMAIN out' : Fine(out'[i], epoch)
      <4>1. CASE out' = <<>>
        BY <4>1
      <4>2. CASE out' \in Drained(p)
        BY <3>1, <3>2, <4>2, SaidFine
      <4>3. ASSUME NEW said \in Drained(p), NEW ok, out' = said \o Sent(ok, q)
            PROVE  \A i \in DOMAIN out' : Fine(out'[i], epoch)
        BY <3>1, <3>2, <4>3, SaidFine
      <4> QED BY <3>3, <4>1, <4>2, <4>3
    <3> QED BY <3>3, <3>4 DEF AnsweredInOpenersDialect, Fine
  <2> QED BY <2>1, <2>2
<1>7. CASE PumpExec
  <2>1. CASE exec = None
    BY <1>7, <2>1, SilentFine DEF PumpExec
  <2>2. CASE exec # None
    <3> DEFINE p == Output("exec", "exec", exec.epoch)
               q == Exit("exec", "exec", exec.epoch)
    <3>1. p \in ShellPacket /\ q \in ShellPacket
      BY <2>2, ShellPacketType
         DEF TypeOK, Shell, Output, Exit, OriginalOps, DedicatedOps
    <3>2. Fine(p, epoch) /\ Fine(q, epoch)
      BY <2>2 DEF SlotsOfThisSession, Fine, Output, Exit, Packet,
                  LegacyOpcodes, OriginalOps
    <3>3. /\ epoch' = epoch
          /\ \/ out' = <<>>
             \/ out' \in Drained(p)
             \/ \E said \in Drained(p), ok \in SendOutcomes : out' = said \o Sent(ok, q)
      BY <1>7, <2>2 DEF PumpExec, Drained
    <3> HIDE DEF p, q
    <3>4. \A i \in DOMAIN out' : Fine(out'[i], epoch)
      <4>1. CASE out' = <<>>
        BY <4>1
      <4>2. CASE out' \in Drained(p)
        BY <3>1, <3>2, <4>2, SaidFine
      <4>3. ASSUME NEW said \in Drained(p), NEW ok, out' = said \o Sent(ok, q)
            PROVE  \A i \in DOMAIN out' : Fine(out'[i], epoch)
        BY <3>1, <3>2, <4>3, SaidFine
      <4> QED BY <3>3, <4>1, <4>2, <4>3
    <3> QED BY <3>3, <3>4 DEF AnsweredInOpenersDialect, Fine
  <2> QED BY <2>1, <2>2
<1>8. CASE Poll
  BY <1>8, SilentFine DEF Poll
<1>9. CASE RecvTimeout
  BY <1>9, SilentFine DEF RecvTimeout
<1>10. CASE HeartbeatSendTimesOut
  BY <1>10, SilentFine DEF HeartbeatSendTimesOut
<1>11. CASE OnHello
  BY <1>11, SilentFine DEF OnHello
<1>12. CASE OnHeartbeat
  BY <1>12, SilentFine DEF OnHeartbeat
<1>13. CASE OnReport
  BY <1>13, SilentFine DEF OnReport
<1>14. CASE OnIgnored
  BY <1>14, SilentFine DEF OnIgnored
<1>15. CASE OnKeyDown
  BY <1>15, SilentFine DEF OnKeyDown
<1>16. CASE OnKeyUp
  BY <1>16, SilentFine DEF OnKeyUp
<1>17. CASE OnClip
  BY <1>17, SilentFine DEF OnClip
<1>18. CASE OnShellOpen
  BY <1>18, SilentFine DEF OnShellOpen
<1>19. CASE OnShellOpenPty
  BY <1>19, SilentFine DEF OnShellOpenPty
<1>20. CASE OnPtyOpen
  BY <1>20, SilentFine DEF OnPtyOpen
<1>21. CASE OnShellClose
  BY <1>21 DEF OnShellClose, CloseAnswer, Sent, Packet, OriginalOps, AnsweredInOpenersDialect
<1>22. CASE OnPtyClose
  BY <1>22, SilentFine DEF OnPtyClose
<1>23. CASE OnDisconnect
  BY <1>23, SilentFine DEF OnDisconnect, EndSession
<1>24. CASE ChildExits
  BY <1>24, SilentFine DEF ChildExits
<1>25. CASE Tock
  BY <1>25, SilentFine DEF Tock
<1>26. CASE UNCHANGED vars
  BY <1>26 DEF vars, AnsweredInOpenersDialect
<1> QED
  BY <1>1, <1>2, <1>3, <1>4, <1>5, <1>6, <1>7, <1>8, <1>9, <1>10,
     <1>11, <1>12, <1>13, <1>14, <1>15, <1>16, <1>17, <1>18, <1>19, <1>20,
     <1>21, <1>22, <1>23, <1>24, <1>25, <1>26
     DEF Next, Work, HandlePacket

(* The strengthening that is inductive: what a slot holds decides what the *)
(* wire carries, so the four properties are kept together with the types.  *)
SessionInv ==
    /\ TypeOK
    /\ SlotsOfThisSession
    /\ LegacyExclusive
    /\ ModifiersReleased
    /\ AnsweredInOpenersDialect

(* The conjunction is inductive; each part is read off it below.           *)
LEMMA SessionInvariant == Spec => []SessionInv
<1>1. Init => SessionInv
  <2> SUFFICES ASSUME Init PROVE SessionInv
    OBVIOUS
  <2>1. TypeOK
    BY DEF Init, TypeOK
  <2> QED BY <2>1 DEF Init, SessionInv, SlotsOfThisSession, LegacyExclusive,
             LegacyPty, ModifiersReleased, AnsweredInOpenersDialect
<1>2. SessionInv /\ [Next]_vars => SessionInv'
  BY TypeStep, SlotsStep, LegacyStep, ModifiersStep, DialectStep DEF SessionInv
<1> QED BY <1>1, <1>2, PTL DEF Spec

(* No shell outlives the session it was opened in.                         *)
THEOREM ShellsEndWithTheirSession == Spec => []SlotsOfThisSession
BY SessionInvariant, PTL DEF SessionInv

(* A legacy console never shares the host with an exec shell.              *)
THEOREM LegacyConsoleIsAlone == Spec => []LegacyExclusive
BY SessionInvariant, PTL DEF SessionInv

(* Every shell packet is in its opener's dialect and of this session.      *)
THEOREM DialectIsKept == Spec => []AnsweredInOpenersDialect
BY SessionInvariant, PTL DEF SessionInv

(* Modifiers and buttons are up whenever no client is connected.           *)
THEOREM ModifiersComeUp == Spec => []ModifiersReleased
BY SessionInvariant, PTL DEF SessionInv

(* A step that says nothing and takes no shell away tells of no end.       *)
LEMMA SilentEnd ==
    ASSUME out' = <<>>, OriginalShells \subseteq OriginalShells'
    PROVE  EndTold
BY DEF EndTold, EndsTold

(* The ends told by the output of a pump and, after it, an exit.           *)
LEMMA OneEnd ==
    ASSUME NEW p \in ShellPacket, p.op \notin {"ShellExit", "ShellClosed"},
           NEW q \in ShellPacket, NEW said \in Drained(p), NEW who
    PROVE  /\ EndsTold(said, who) = {}
           /\ q.op \in {"ShellExit", "ShellClosed"} /\ q.from = who =>
                ToldOnce(said \o <<q>>, who)
           /\ ~(q.op \in {"ShellExit", "ShellClosed"} /\ q.from = who) =>
                EndsTold(said \o <<q>>, who) = {}
<1> USE DEF Drained, EndsTold, ToldOnce
<1>1. CASE said = <<>>
  <2>1. <<>> \o <<q>> = <<q>>
    OBVIOUS
  <2> QED BY <1>1, <2>1
<1>2. CASE said = <<p>>
  <2> DEFINE s == <<p>> \o <<q>>
  <2>1. DOMAIN s = {1, 2} /\ s[1] = p /\ s[2] = q
    OBVIOUS
  <2>2. DOMAIN <<p>> = {1} /\ <<p>>[1] = p
    OBVIOUS
  <2>3. EndsTold(<<p>>, who) = {}
    BY <2>2
  <2> HIDE DEF s
  <2>4. q.op \in {"ShellExit", "ShellClosed"} /\ q.from = who => EndsTold(s, who) = {2}
    BY <2>1
  <2>5. ~(q.op \in {"ShellExit", "ShellClosed"} /\ q.from = who) => EndsTold(s, who) = {}
    BY <2>1
  <2>6. said \o <<q>> = s
    BY <1>2 DEF s
  <2> HIDE DEF EndsTold
  <2> QED BY <1>2, <2>1, <2>3, <2>4, <2>5, <2>6
<1> QED BY <1>1, <1>2

(* On a link whose sends do not time out every step tells of exactly the   *)
(* ends it brings about.                                                   *)
LEMMA EndStep ==
    ASSUME SendCanTimeOut = FALSE, SessionInv, Next
    PROVE  EndTold
<1> USE DEF session, slots, thread, SessionInv, OriginalShells, LegacyPty
<1>1. CASE OpenPort
  BY <1>1, SilentEnd DEF OpenPort
<1>2. CASE TransportFails
  BY <1>2, SilentEnd DEF TransportFails, Dismantle, EndTold
<1>3. CASE ProtocolError
  BY <1>3, SilentEnd DEF ProtocolError, Dismantle, EndTold
<1>4. CASE HeartbeatTimeout
  BY <1>4, SilentEnd DEF HeartbeatTimeout, EndSession, EndTold
<1>5. CASE TickTop
  BY <1>5, SilentEnd DEF TickTop
<1>6. CASE PumpPty
  <2>1. CASE pty = None
    BY <1>6, <2>1, SilentEnd DEF PumpPty
  <2>2. CASE pty # None
    <3> DEFINE p == Output("pty", PtySpeaker, pty.epoch)
               q == Exit("pty", PtySpeaker, pty.epoch)
    <3>1. p \in ShellPacket /\ q \in ShellPacket
      BY <2>2, ShellPacketType
         DEF TypeOK, Console, Output, Exit, PtySpeaker, OriginalOps, DedicatedOps
    <3>2. /\ p.op \notin {"ShellExit", "ShellClosed"}
          /\ q.op \in {"ShellExit", "ShellClosed"} <=> LegacyPty
          /\ q.from = PtySpeaker
      BY <2>2 DEF Output, Exit, Packet, LegacyOpcodes
    <3>3. CASE pty.child = "running"
      <4>1. out' \in Drained(p) /\ OriginalShells' = OriginalShells
        BY <1>6, <2>2, <3>3 DEF PumpPty
      <4> HIDE DEF p, q
      <4> QED BY <3>1, <3>2, <4>1, OneEnd DEF EndTold
    <3>4. CASE pty.child = "ended"
      <4>1. PICK said \in Drained(p) : out' = said \o <<q>>
        BY <1>6, <2>2, <3>4 DEF PumpPty, SendOutcomes, Sent
      <4>2. OriginalShells' = OriginalShells \ {"legacy"}
        BY <1>6, <2>2, <3>4 DEF PumpPty
      <4>3. \A who \in {"exec", "legacy"} :
               who \in OriginalShells \ OriginalShells' <=>
                  q.op \in {"ShellExit", "ShellClosed"} /\ q.from = who
        BY <2>2, <3>2, <4>2 DEF PtySpeaker
      <4> HIDE DEF p, q, OriginalShells, LegacyPty
      <4>4. \A who \in {"exec", "legacy"} :
               IF who \in OriginalShells \ OriginalShells'
               THEN ToldOnce(out', who)
               ELSE EndsTold(out', who) = {}
        <5> TAKE who \in {"exec", "legacy"}
        <5>1. CASE q.op \in {"ShellExit", "ShellClosed"} /\ q.from = who
          <6>1. ToldOnce(said \o <<q>>, who)
            BY <3>1, <3>2, <5>1, OneEnd
          <6>2. who \in OriginalShells \ OriginalShells'
            BY <4>3, <5>1
          <6> QED BY <4>1, <6>1, <6>2
        <5>2. CASE ~(q.op \in {"ShellExit", "ShellClosed"} /\ q.from = who)
          BY <3>1, <3>2, <4>1, <4>3, <5>2, OneEnd
        <5> QED BY <5>1, <5>2
      <4> QED BY <4>4 DEF EndTold
    <3> QED BY <2>2, <3>3, <3>4 DEF TypeOK, Console, Child
  <2> QED BY <2>1, <2>2
<1>7. CASE PumpExec
  <2>1. CASE exec = None \/ (out' = <<>> /\ UNCHANGED exec)
    BY <1>7, <2>1, SilentEnd DEF PumpExec
  <2>2. CASE exec # None /\ ~(out' = <<>> /\ UNCHANGED exec)
    <3> DEFINE p == Output("exec", "exec", exec.epoch)
               q == Exit("exec", "exec", exec.epoch)
    <3>1. p \in ShellPacket /\ q \in ShellPacket
      BY <2>2, ShellPacketType
         DEF TypeOK, Shell, Output, Exit, OriginalOps, DedicatedOps
    <3>2. /\ p.op \notin {"ShellExit", "ShellClosed"}
          /\ q.op \in {"ShellExit", "ShellClosed"}
          /\ q.from = "exec"
      BY <2>2 DEF Output, Exit, Packet, LegacyOpcodes
    <3>3. CASE exec.child = "running"
      <4>1. out' \in Drained(p) /\ OriginalShells' = OriginalShells
        BY <1>7, <2>2, <3>3 DEF PumpExec, Drained
      <4> HIDE DEF p, q
      <4> QED BY <3>1, <3>2, <4>1, OneEnd DEF EndTold
    <3>4. CASE exec.child = "ended"
      <4>1. PICK said \in Drained(p) : out' = said \o <<q>>
        BY <1>7, <2>2, <3>4 DEF PumpExec, SendOutcomes, Sent
      <4>2. OriginalShells' = OriginalShells \ {"exec"} /\ "exec" \in OriginalShells
        BY <1>7, <2>2, <3>4 DEF PumpExec
      <4>3. \A who \in {"exec", "legacy"} :
               who \in OriginalShells \ OriginalShells' <=>
                  q.op \in {"ShellExit", "ShellClosed"} /\ q.from = who
        BY <2>2, <3>2, <4>2
      <4> HIDE DEF p, q, OriginalShells, LegacyPty
      <4>4. \A who \in {"exec", "legacy"} :
               IF who \in OriginalShells \ OriginalShells'
               THEN ToldOnce(out', who)
               ELSE EndsTold(out', who) = {}
        <5> TAKE who \in {"exec", "legacy"}
        <5>1. CASE q.op \in {"ShellExit", "ShellClosed"} /\ q.from = who
          <6>1. ToldOnce(said \o <<q>>, who)
            BY <3>1, <3>2, <5>1, OneEnd
          <6>2. who \in OriginalShells \ OriginalShells'
            BY <4>3, <5>1
          <6> QED BY <4>1, <6>1, <6>2
        <5>2. CASE ~(q.op \in {"ShellExit", "ShellClosed"} /\ q.from = who)
          BY <3>1, <3>2, <4>1, <4>3, <5>2, OneEnd
        <5> QED BY <5>1, <5>2
      <4> QED BY <4>4 DEF EndTold
    <3>5. exec \in Shell
      BY <2>2 DEF TypeOK
    <3>6. exec.child \in {"running", "ended"}
      BY <3>5 DEF Shell, Child
    <3> QED BY <3>3, <3>4, <3>6
  <2> QED BY <2>1, <2>2
<1>8. CASE Poll
  BY <1>8, SilentEnd DEF Poll
<1>9. CASE RecvTimeout
  BY <1>9, SilentEnd DEF RecvTimeout
<1>10. CASE HeartbeatSendTimesOut
  BY <1>10, SilentEnd DEF HeartbeatSendTimesOut
<1>11. CASE OnHello
  <2>1. ~(state' = "Connected" /\ epoch' = epoch)
    BY <1>11 DEF OnHello, TypeOK
  <2> QED BY <2>1 DEF EndTold
<1>12. CASE OnHeartbeat
  BY <1>12, SilentEnd DEF OnHeartbeat
<1>13. CASE OnReport
  BY <1>13, SilentEnd DEF OnReport
<1>14. CASE OnIgnored
  BY <1>14, SilentEnd DEF OnIgnored
<1>15. CASE OnKeyDown
  BY <1>15, SilentEnd DEF OnKeyDown
<1>16. CASE OnKeyUp
  BY <1>16, SilentEnd DEF OnKeyUp
<1>17. CASE OnClip
  BY <1>17, SilentEnd DEF OnClip
<1>18. CASE OnShellOpen
  BY <1>18, SilentEnd DEF OnShellOpen, ShellOpenBusy
<1>19. CASE OnShellOpenPty
  BY <1>19, SilentEnd DEF OnShellOpenPty, LegacyOpenBusy
<1>20. CASE OnPtyOpen
  BY <1>20, SilentEnd DEF OnPtyOpen
<1>21. CASE OnShellClose
  BY <1>21 DEF OnShellClose, CloseAnswer, Sent, SendOutcomes, Packet, EndTold,
               EndsTold, ToldOnce, LegacyExclusive
<1>22. CASE OnPtyClose
  BY <1>22, SilentEnd DEF OnPtyClose, DedicatedPty
<1>23. CASE OnDisconnect
  BY <1>23, SilentEnd DEF OnDisconnect, EndSession, EndTold
<1>24. CASE ChildExits
  <2>1. (exec' # None <=> exec # None) /\ (pty # None => pty' # None)
    BY <1>24, NoneAssumption DEF ChildExits, TypeOK, Shell, Console, Child, NoneAssumption
  <2>2. pty # None => pty'.kind = pty.kind
    BY <1>24 DEF ChildExits, TypeOK, Console
  <2> QED BY <1>24, <2>1, <2>2, SilentEnd DEF ChildExits
<1>25. CASE Tock
  BY <1>25, SilentEnd DEF Tock
<1> QED
  BY <1>1, <1>2, <1>3, <1>4, <1>5, <1>6, <1>7, <1>8, <1>9, <1>10,
     <1>11, <1>12, <1>13, <1>14, <1>15, <1>16, <1>17, <1>18, <1>19, <1>20,
     <1>21, <1>22, <1>23, <1>24, <1>25
     DEF Next, Work, HandlePacket

(* Where a send is either delivered or fatal, a client on the original     *)
(* opcodes hears of the end of its shell exactly once.                     *)
THEOREM EndIsToldOnce ==
    ASSUME SendCanTimeOut = FALSE
    PROVE  Spec => EndToldOnce
<1>1. SessionInv /\ [Next]_vars => [EndTold]_vars
  BY EndStep
<1> QED BY <1>1, SessionInvariant, PTL DEF Spec, EndToldOnce

-----------------------------------------------------------------------------
(* One host at a time, and one logon entry (HostProcess).  Nothing is       *)
(* assumed of its constants.                                               *)

PastTheLock == {"starting", "running", "stopping"}

IsProcess(r) == r = [at |-> r.at, left |-> r.left, exe |-> r.exe, admin |-> r.admin]

ProcType == proc = [p \in Procs |-> proc[p]] /\ \A p \in Procs : IsProcess(proc[p])

(* A process past the lock has a handle of the mutex, so whoever probes it *)
(* finds it; and two are never past it.                                    *)
LockInv ==
    /\ ProcType
    /\ \A p \in Procs : proc[p].at \in PastTheLock => p \in handles
    /\ \A p, q \in Procs : proc[p].at \in PastTheLock /\ proc[q].at \in PastTheLock => p = q

(* The invariant in terms of processes: who steps past the lock found no   *)
(* handle, everyone else past it was there before, and only a process that *)
(* is not past it any more gives its handle back.                          *)
LEMMA LockKept ==
    ASSUME LockInv, ProcType',
           \A p \in Procs : proc'[p].at \in PastTheLock =>
              p \in handles' /\ (proc[p].at \in PastTheLock \/ handles = {}),
           \A p, q \in Procs :
              /\ proc'[p].at \in PastTheLock /\ proc[p].at \notin PastTheLock
              /\ proc'[q].at \in PastTheLock /\ proc[q].at \notin PastTheLock
              => p = q
    PROVE  LockInv'
BY DEF LockInv

(* A record with the four fields is a process. *)
LEMMA RecordIsProcess ==
    ASSUME NEW a, NEW b, NEW c, NEW d
    PROVE  /\ IsProcess([at |-> a, left |-> b, exe |-> c, admin |-> d])
           /\ [at |-> a, left |-> b, exe |-> c, admin |-> d].at = a
BY DEF IsProcess

(* Processes that start, and those that stop. *)
LEMMA NewProcesses ==
    /\ IsProcess(Gone) /\ Gone.at \notin PastTheLock
    /\ IsProcess(Stopping) /\ Stopping.at = "stopping"
    /\ \A how : IsProcess(Launched(how)) /\ Launched(how).at \notin PastTheLock
BY RecordIsProcess DEF Gone, Stopping, Launched, PastTheLock

(* The processes' own steps: the mutex is probed, taken and given back. *)
LEMMA OwnKeepsLock ==
    ASSUME LockInv, NEW p \in Procs, Own(p)
    PROVE  LockInv'
<1> USE DEF LockInv, ProcType
<1>1. CASE acquire(p)
  BY <1>1, NewProcesses DEF acquire, LockFailed, IsProcess, PastTheLock
<1>2. CASE AlreadyRunning(p)
  <2> DEFINE fewer == proc[p].left - 1
  <2>0. \/ proc' = [proc EXCEPT ![p] = Gone]
        \/ proc' = [proc EXCEPT ![p] = [proc[p] EXCEPT !.at = "asleep", !.left = fewer]]
    BY <1>2 DEF AlreadyRunning
  <2> HIDE DEF fewer
  <2>1. IsProcess(proc'[p]) /\ proc'[p].at \notin PastTheLock
    BY <2>0, NewProcesses DEF IsProcess, PastTheLock
  <2>2. /\ proc' = [q \in Procs |-> proc'[q]]
        /\ \A q \in Procs \ {p} : proc'[q] = proc[q] /\ (q \in handles' <=> q \in handles)
    BY <1>2 DEF AlreadyRunning
  <2> QED
    BY <2>1, <2>2
<1>3. CASE main(p)
  BY <1>3, NewProcesses DEF main, Ready, IsProcess, PastTheLock
<1>4. CASE ProcessExit(p)
  BY <1>4, NewProcesses DEF ProcessExit, IsProcess, PastTheLock
<1>5. CASE ShowRequested(p)
  BY <1>5 DEF ShowRequested
<1> QED
  BY <1>1, <1>2, <1>3, <1>4, <1>5 DEF Own

(* A process that starts another stays past the lock until it has stopped. *)
LEMMA RespawnKeepsLock ==
    ASSUME LockInv, NEW p \in Procs, proc[p].at = "running", Respawn(p), UNCHANGED handles
    PROVE  LockInv'
<1>1. PICK q \in Free : proc' = [proc EXCEPT ![p] = Stopping, ![q] = Launched(proc[p])]
  BY DEF Respawn
<1>2. q \in Procs /\ q # p
  BY DEF Free
<1>3. ProcType'
  BY <1>1, <1>2, NewProcesses DEF LockInv, ProcType
<1> QED
  BY <1>1, <1>2, <1>3, NewProcesses, LockKept DEF LockInv, ProcType, PastTheLock

(* Every other step. *)
LEMMA NextKeepsLock == LockInv /\ [ProcessNext]_processVars => LockInv'
<1> SUFFICES ASSUME LockInv, [ProcessNext]_processVars
             PROVE  LockInv'
  OBVIOUS
<1>1. CASE Boot
  BY <1>1, NewProcesses DEF Boot, LockInv, ProcType
<1>2. CASE Tick
  BY <1>2 DEF Tick, LockInv, ProcType, IsProcess, PastTheLock
<1>3. ASSUME NEW p \in Procs, Own(p)
      PROVE  LockInv'
  BY <1>3, OwnKeepsLock
<1>4. ASSUME NEW p \in Procs, TrayRestart(p)
      PROVE  LockInv'
  BY <1>4, RespawnKeepsLock DEF TrayRestart
<1>5. ASSUME NEW p \in Procs, Quit(p)
      PROVE  LockInv'
  BY <1>5, NewProcesses DEF Quit, LockInv, ProcType, PastTheLock
<1>6. ASSUME NEW p \in Procs, NEW how \in Users, UserStarts(p, how)
      PROVE  LockInv'
  BY <1>6, NewProcesses DEF UserStarts, Free, LockInv, ProcType, PastTheLock
<1>7. ASSUME NEW p \in Procs, NEW want \in BOOLEAN, handle_save(p, want)
      PROVE  LockInv'
  BY <1>7 DEF handle_save, SaveFails, LockInv, ProcType
<1>8. ASSUME NEW p \in Procs, NEW want \in BOOLEAN, handle_restart(p, want)
      PROVE  LockInv'
  BY <1>8, RespawnKeepsLock DEF handle_restart
<1>9. CASE UNCHANGED processVars
  BY <1>9 DEF processVars, LockInv, ProcType
<1> QED
  BY <1>1, <1>2, <1>3, <1>4, <1>5, <1>6, <1>7, <1>8, <1>9 DEF ProcessNext

(* Two processes never past the lock, counted. *)
LEMMA LockInvCounts == LockInv => OnePastTheLock
<1> SUFFICES ASSUME LockInv
             PROVE  OnePastTheLock
  OBVIOUS
<1> DEFINE past == {p \in Procs : proc[p].at \in {"starting", "running", "stopping"}}
<1>1. CASE past = {}
  BY <1>1, FS_EmptySet DEF OnePastTheLock
<1>2. CASE past # {}
  <2>1. PICK p \in Procs : past = {p}
    BY <1>2 DEF LockInv, PastTheLock
  <2> QED
    <3>1. Cardinality(past) = 1
      BY <2>1, FS_Singleton
    <3> QED
      BY <3>1 DEF OnePastTheLock
<1> QED
  BY <1>1, <1>2

-----------------------------------------------------------------------------
(* The logon entries.  Whatever enable, disable and reconcile leave, both  *)
(* entries are armed only when they were, or when a part of the call       *)
(* failed without being reported.                                          *)
Harmless(l) ==
    l.task # NoEntry /\ l.run # NoEntry =>
        l.slip \/ (task # NoEntry /\ run # NoEntry)

LEMMA EnableHarmless ==
    ASSUME NEW p, NEW l \in enable(p)
    PROVE  Harmless(l)
<1>1. CASE l \in Registered(p)
  <2>1. PICK r \in delete_run_value : l = Left(proc[p].exe, r, TRUE, r # NoEntry)
    BY <1>1 DEF Registered
  <2>2. l.run = r /\ l.slip = (r # NoEntry)
    BY <2>1 DEF Left
  <2> QED
    BY <2>2 DEF Harmless
<1>2. ASSUME NEW seen \in task_command, l \in Fallback(p, seen)
      PROVE  Harmless(l)
  <2>1. CASE l = Left(task, run, FALSE, FALSE)
    BY <2>1 DEF Harmless, Left
  <2>2. CASE seen = NoEntry /\ \E s \in set_run_value(p) : l = Left(task, s[1], s[2], Unseen(seen))
    <3>1. l.task = task /\ l.slip = (seen # task)
      BY <2>2 DEF Left, Unseen
    <3> QED
      BY <2>2, <3>1 DEF Harmless
  <2> QED
    BY <1>2, <2>1, <2>2 DEF Fallback
<1>3. l \in Registered(p) \/ \E seen \in task_command : l \in Fallback(p, seen)
  BY DEF enable
<1> QED
  BY <1>1, <1>2, <1>3

LEMMA DisableHarmless ==
    ASSUME NEW p, NEW l \in disable(p)
    PROVE  Harmless(l)
BY DEF disable, Left, Harmless, delete_logon_task, delete_run_value

LEMMA ReconcileHarmless ==
    ASSUME NEW p, NEW want, NEW l \in reconcile_autostart(p, want)
    PROVE  Harmless(l)
<1>1. PICK seen \in task_command :
        l \in IF needs_refresh(want, stored_command(seen), proc[p].exe)
              THEN enable(p) ELSE {Left(task, run, TRUE, FALSE)}
  BY Zenon DEF reconcile_autostart
<1> QED
  BY <1>1, EnableHarmless DEF Left, Harmless

(* A harmless result keeps the entries as they should be. *)
LEMMA HarmlessKeeps ==
    ASSUME OneLogonEntry, NEW l, Harmless(l), AutostartLeaves(l)
    PROVE  OneLogonEntry'
BY DEF OneLogonEntry, Harmless, AutostartLeaves

LEMMA SyncKeeps ==
    ASSUME OneLogonEntry, NEW p, NEW want, NEW l \in SyncAutostart(p, want), AutostartLeaves(l)
    PROVE  OneLogonEntry'
BY HarmlessKeeps, EnableHarmless, DisableHarmless DEF SyncAutostart

LEMMA NextKeepsEntry == OneLogonEntry /\ [ProcessNext]_processVars => OneLogonEntry'
<1> SUFFICES ASSUME OneLogonEntry, [ProcessNext]_processVars
             PROVE  OneLogonEntry'
  OBVIOUS
<1>1. CASE UNCHANGED entries
  BY <1>1 DEF entries, OneLogonEntry
<1>2. ASSUME NEW p \in Procs, main(p)
      PROVE  OneLogonEntry'
  BY <1>2, ReconcileHarmless, HarmlessKeeps DEF main
<1>3. ASSUME NEW p \in Procs, NEW want \in BOOLEAN, handle_save(p, want)
      PROVE  OneLogonEntry'
  BY <1>1, <1>3, SyncKeeps DEF handle_save, SaveFails
<1>4. ASSUME NEW p \in Procs, NEW want \in BOOLEAN, handle_restart(p, want)
      PROVE  OneLogonEntry'
  BY <1>4, SyncKeeps DEF handle_restart
<1>5. ASSUME \/ Boot \/ Tick \/ UNCHANGED processVars
             \/ \E p \in Procs : \/ acquire(p) \/ AlreadyRunning(p) \/ ProcessExit(p)
                                 \/ ShowRequested(p) \/ TrayRestart(p) \/ Quit(p)
                                 \/ \E how \in Users : UserStarts(p, how)
      PROVE  UNCHANGED entries
  BY <1>5 DEF Boot, Tick, processVars, entries, acquire, AlreadyRunning, ProcessExit, ShowRequested,
              TrayRestart, Quit, UserStarts
<1> QED
  BY <1>1, <1>2, <1>3, <1>4, <1>5 DEF ProcessNext, Own

(* At most one host is past the lock, whatever newcomers probe it while    *)
(* the last one stops, and at most one logon entry is armed unless a part  *)
(* of an autostart call failed unseen.                                     *)
THEOREM OneHostAtATime == ProcessSpec => []OneHost
<1>1. ProcessInit => LockInv /\ OneLogonEntry
  BY NewProcesses DEF ProcessInit, LockInv, ProcType, OneLogonEntry
<1> QED
  BY <1>1, NextKeepsLock, NextKeepsEntry, LockInvCounts, PTL DEF ProcessSpec, OneHost
==============================================================================
