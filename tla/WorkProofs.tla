----------------------------- MODULE WorkProofs -----------------------------
(***************************************************************************)
(* Proofs about what the host is asked to do.  The browser hub, for any    *)
(* companions, workers and limits: its credits add up through every reset, *)
(* and neither a companion that lost the route nor a worker of an earlier  *)
(* epoch is heard by the other end.                                        *)
(***************************************************************************)
EXTENDS MCWork, FiniteSetTheorems, SequenceTheorems, WellFoundedInduction, TLAPS

Less == OpToRel(<, Nat)

(* A set of naturals that is not empty has a least element. *)
LEMMA LeastElement ==
    ASSUME NEW T \in SUBSET Nat, T # {}
    PROVE  \E x \in T : \A y \in T : x <= y
<1>1. IsWellFoundedOn(Less, Nat)
  BY NatLessThanWellFounded, Zenon DEF Less
<1>2. PICK x \in T : \A y \in T : ~(<<y, x>> \in Less)
  BY <1>1, WFMin, Zenon
<1>3. \A x1, y \in Nat : <<x1, y>> \in Less <=> x1 < y
  BY DEF Less, OpToRel
<1>4. \A y \in T : y \in Nat /\ x \in Nat /\ ~(y < x)
  BY <1>2, <1>3
<1> QED
  BY <1>4

----------------------------------------------------------------------------
(* The browser hub: what its variables hold.                               *)

\* A thread that is over holds no credit, and a free place nothing at all.
OverHoldsNothing ==
    \A n \in Worker :
       /\ wk[n].ph \in {"done", "free"} => wk[n].credit = 0
       /\ wk[n].ph = "free" => wk[n].in = "out"

\* Companions come in their order: those that have connected are the first ones,
\* and the one that owns the route is among them.
Began(c) == handler[c] # "new"

CompanionsInOrder ==
    /\ \A b, c \in Companion : b < c /\ Began(c) => Began(b)
    /\ slot # 0 => Began(slot)

\* Frames stand in the outgoing channel in the order of the companions that sent
\* them, and none is from before a stream that the host runs, or after the owner.
FramesInOrder ==
    /\ \A i \in 1..Len(outgoing) :
          /\ Began(outgoing[i].owner)
          /\ slot # 0 => outgoing[i].owner <= slot
          /\ \A j \in i..Len(outgoing) : outgoing[i].owner <= outgoing[j].owner
          /\ \A n \in Table : wk[n].owner <= outgoing[i].owner
    /\ \A n \in Table :
          /\ wk[n].owner \in Companion
          /\ Began(wk[n].owner)
          /\ slot # 0 => wk[n].owner <= slot

OrderInv == CompanionsInOrder /\ FramesInOrder

HubInv == TypeOK /\ OverHoldsNothing /\ CreditsMatchHolders /\ TableIsOfThisEpoch /\ OrderInv

----------------------------------------------------------------------------
(* Types.                                                                  *)

Frames == [k : {"OPEN", "DATA", "RESET"}, owner : Companion]

Seats(e) == [ph : {"free", "run", "stop", "done"}, owner : Companion \cup {0},
             epoch : 0..e, in : {"table", "out"}, credit : {0, 1}]

ClientTypes ==
    /\ link \in {"up", "down"} /\ downs \in 0..MaxDown
    /\ slot \in Companion \cup {0}
    /\ handler \in [Companion -> {"new", "relay", "joining", "release", "gone"}]
    /\ pump \in [Companion -> {"read", "checked", "off"}]
    /\ backlog \in [Companion -> 0..RelayCap]
    /\ outgoing \in Seq(Frames)

HubTypes ==
    /\ epoch \in Nat
    /\ wk \in [Worker -> Seats(epoch)]
    /\ used \in [0..epoch -> Nat]
    /\ output \in Seq(0..epoch)

LEMMA TwoHalves == TypeOK <=> ClientTypes /\ HubTypes
BY Zenon DEF TypeOK, ClientTypes, HubTypes, Frames, Seats

LEMMA Appended ==
    ASSUME NEW S, NEW s \in Seq(S), NEW e \in S
    PROVE  Append(s, e) \in Seq(S)
BY AppendProperties

LEMMA Removed ==
    ASSUME NEW S, NEW s \in Seq(S), s # <<>>
    PROVE  Tail(s) \in Seq(S) /\ Head(s) \in S
BY HeadTailProperties

LEMMA Cut ==
    ASSUME NEW S, NEW s \in Seq(S), NEW k \in Nat
    PROVE  SubSeq(s, k + 2, Len(s)) \in Seq(S)
<1>1. \A i \in k + 2..Len(s) : s[i] \in S
  BY ElementOfSeq
<1>2. k + 2 \in Int /\ Len(s) \in Int
  OBVIOUS
<1> QED
  BY <1>1, <1>2, SubSeqProperties

\* A frame is appended at the end, and a channel that is full stays as it is.
LEMMA TrySendKeeps ==
    ASSUME HubTypes, NEW e \in 0..epoch
    PROVE  TrySend(e) \in Seq(0..epoch)
BY Appended DEF HubTypes, TrySend

LEMMA SendKeeps ==
    ASSUME ClientTypes, NEW c \in Companion, NEW k \in {"OPEN", "DATA", "RESET"}, Send(k, c)
    PROVE  outgoing' \in Seq(Frames)
<1>1. [k |-> k, owner |-> c] \in Frames
  BY DEF Frames
<1>2. outgoing \in Seq(Frames)
  BY DEF ClientTypes
<1> QED
  BY <1>1, <1>2, Appended DEF Send

LEMMA ResetKeepsTypes ==
    ASSUME HubTypes, HubReset
    PROVE  HubTypes'
<1>1. epoch \in Nat /\ epoch' = epoch + 1 /\ wk \in [Worker -> Seats(epoch)]
      /\ used \in [0..epoch -> Nat]
  BY DEF HubReset, HubTypes
<1>2. used' \in [0..epoch' -> Nat]
  BY <1>1 DEF HubReset, NewCounter
<1>3. \A n \in Worker : wk[n] \in Seats(epoch')
  BY <1>1 DEF Seats
<1>4. None \in Seats(epoch')
  BY <1>1 DEF Seats, None
<1>5. \A n \in Worker : Stopped(n) \in Seats(epoch')
  BY <1>3 DEF Stopped, Seats
<1>6. wk' \in [Worker -> Seats(epoch')]
  BY <1>3, <1>4, <1>5 DEF HubReset
<1>7. output' \in Seq(0..epoch')
  BY EmptySeq DEF HubReset
<1> QED
  BY <1>1, <1>2, <1>6, <1>7 DEF HubTypes

LEMMA ClientTypesKept ==
    ASSUME HubAssumption, ClientTypes, [Next]_vars
    PROVE  ClientTypes'
<1>0. 1 \in 0..RelayCap /\ RelayCap \in Nat /\ MaxDown \in Nat
  BY DEF HubAssumption
<1>1. ASSUME NEW c \in Companion, Handler(c) PROVE ClientTypes'
  <2>1. CASE Connect(c)
    BY <2>1 DEF Connect, ClientTypes
  <2>3. CASE Relay(c)
    <3>1. backlog[c] - 1 \in 0..RelayCap
      BY <1>0, <2>3 DEF Relay, ClientTypes
    <3> QED
      BY <2>3, <3>1 DEF Relay, ClientTypes
  <2>4. CASE Close(c)
    BY <1>0, <2>4 DEF Close, ClientTypes
  <2>5. CASE Release(c)
    BY <2>5 DEF Release, ClientTypes
  <2>2. CASE ResetHost(c)
    <3>1. outgoing' \in Seq(Frames)
      BY <2>2, SendKeeps DEF ResetHost, ClientTypes
    <3> QED
      BY <2>2, <3>1 DEF ResetHost, ClientTypes
  <2> QED
    BY <1>1, <2>1, <2>2, <2>3, <2>4, <2>5 DEF Handler
<1>2. ASSUME NEW c \in Companion, Pump(c) PROVE ClientTypes'
  <2>1. CASE PumpRead(c) \/ PumpEnd(c)
    BY <2>1 DEF PumpRead, PumpEnd, ClientTypes
  <2>2. CASE PumpSend(c)
    <3>1. outgoing' \in Seq(Frames)
      BY <2>2, SendKeeps DEF PumpSend, ClientTypes
    <3> QED
      BY <2>2, <3>1 DEF PumpSend, ClientTypes
  <2> QED
    BY <1>2, <2>1, <2>2 DEF Pump
<1>3. ASSUME NEW n \in Worker, Claim(n) \/ Acked(n) \/ Exit(n) PROVE ClientTypes'
  BY <1>3 DEF Claim, Acked, Exit, ClientTypes, clientVars
<1>4. CASE Dispatch \/ LoseFrame
  <2>0. outgoing # <<>> /\ outgoing' = Tail(outgoing)
    BY <1>4, Zenon DEF Dispatch, LoseFrame
  <2>1. outgoing' \in Seq(Frames)
    BY <2>0, Removed DEF ClientTypes
  <2>2. UNCHANGED <<link, downs, clientVars>>
    BY <1>4, Zenon DEF Dispatch, LoseFrame
  <2> QED
    BY <2>1, <2>2 DEF ClientTypes, clientVars
<1>5. CASE Poll
  <2>1. outgoing' \in Seq(Frames)
    BY <1>5, SendKeeps DEF Poll, ClientTypes
  <2>2. slot' \in Companion \cup {0}
    BY <1>5 DEF Poll, ClientTypes
  <2>3. backlog' \in [Companion -> 0..RelayCap]
    BY <1>0, <1>5 DEF Poll, RelayFull, ClientTypes
  <2> QED
    BY <1>5, <2>1, <2>2, <2>3 DEF Poll, ClientTypes
<1>6. CASE LinkDown \/ LinkUp
  BY <1>0, <1>6 DEF LinkDown, LinkUp, ClientTypes, clientVars
<1>7. CASE UNCHANGED vars
  BY <1>7 DEF vars, ClientTypes
<1> QED
  BY <1>1, <1>2, <1>3, <1>4, <1>5, <1>6, <1>7 DEF Next

\* Who holds a credit is counted, so giving it back cannot wrap the counter.
LEMMA HeldIsCounted ==
    ASSUME HubAssumption, HubTypes, CreditsMatchHolders, NEW n \in Worker
    PROVE  /\ wk[n].epoch \in 0..epoch
           /\ used[wk[n].epoch] - wk[n].credit \in Nat
<1> DEFINE e == wk[n].epoch
           H == {k \in Worker : wk[k].epoch = e /\ wk[k].credit = 1}
<1>1. e \in 0..epoch /\ wk[n].credit \in {0, 1} /\ DOMAIN used = 0..epoch /\ used[e] \in Nat
  BY DEF HubTypes, Seats
<1>2. used[e] = Cardinality(H)
  BY <1>1 DEF CreditsMatchHolders
<1>3. IsFiniteSet(H)
  BY FS_Subset DEF HubAssumption
<1>4. wk[n].credit = 1 => H # {}
  OBVIOUS
<1>5. wk[n].credit = 1 => used[e] # 0
  BY <1>2, <1>3, <1>4, FS_EmptySet
<1> QED
  BY <1>1, <1>5

LEMMA HubTypesKept ==
    ASSUME HubAssumption, ClientTypes, HubTypes, CreditsMatchHolders, [Next]_vars
    PROVE  HubTypes'
<1>0. epoch \in Nat /\ epoch \in 0..epoch /\ wk \in [Worker -> Seats(epoch)]
      /\ used \in [0..epoch -> Nat] /\ output \in Seq(0..epoch)
  BY DEF HubTypes
<1>01. ASSUME epoch' = epoch, wk' \in [Worker -> Seats(epoch)],
              used' \in [0..epoch -> Nat], output' \in Seq(0..epoch)
       PROVE  HubTypes'
  BY <1>0, <1>01 DEF HubTypes
<1>02. None \in Seats(epoch)
  BY <1>0 DEF Seats, None
<1>03. TrySend(epoch) \in Seq(0..epoch)
  BY <1>0, TrySendKeeps
<1>1. ASSUME NEW c \in Companion, Handler(c) \/ Pump(c) PROVE HubTypes'
  <2>1. UNCHANGED hubVars
    BY <1>1 DEF Handler, Pump, Connect, Relay, Close, ResetHost, Release, PumpRead, PumpSend, PumpEnd
  <2> QED
    BY <1>0, <2>1, Zenon DEF HubTypes, hubVars
<1>2. ASSUME NEW n \in Worker, Claim(n) \/ Acked(n) \/ Exit(n) PROVE HubTypes'
  <2>0. wk[n] \in Seats(epoch) /\ wk[n].epoch \in 0..epoch /\ used[wk[n].epoch] \in Nat
    BY <1>0 DEF Seats
  <2>1. epoch' = epoch
    BY <1>2 DEF Claim, Acked, Exit
  <2>2. output' \in Seq(0..epoch)
    BY <1>0, <1>2, <2>0, TrySendKeeps DEF Claim, Acked, Exit
  <2>3. CASE Claim(n)
    <3>1. wk' \in [Worker -> Seats(epoch)]
      <4>1. [wk[n] EXCEPT !.credit = 1] \in Seats(epoch)
        BY <2>0 DEF Seats
      <4> QED
        BY <1>0, <2>3, <4>1 DEF Claim
    <3>2. used' \in [0..epoch -> Nat]
      BY <1>0, <2>0, <2>3 DEF Claim
    <3> QED
      BY <1>01, <2>1, <2>2, <3>1, <3>2
  <2>4. CASE Acked(n)
    <3>1. wk' \in [Worker -> Seats(epoch)]
      BY <1>0, <2>4 DEF Acked, Seats
    <3>2. used' \in [0..epoch -> Nat]
      BY <1>0, <2>0, <2>4, HeldIsCounted DEF Acked, Drop
    <3> QED
      BY <1>01, <2>1, <2>2, <3>1, <3>2
  <2>5. CASE Exit(n)
    <3>1. wk' \in [Worker -> Seats(epoch)]
      BY <1>0, <1>02, <2>5 DEF Exit, Seats
    <3>2. used' \in [0..epoch -> Nat]
      BY <1>0, <2>0, <2>5, HeldIsCounted DEF Exit, Drop
    <3> QED
      BY <1>01, <2>1, <2>2, <3>1, <3>2
  <2> QED
    BY <1>2, <2>3, <2>4, <2>5
<1>3. CASE Dispatch
  <2> DEFINE m == Head(outgoing)
  <2>0. m.owner \in Companion
    <3>1. outgoing # <<>> /\ outgoing \in Seq(Frames)
      BY <1>3, Zenon DEF Dispatch, ClientTypes
    <3>2. m \in Frames
      BY <3>1, Removed
    <3> QED
      BY <3>2 DEF Frames
  <2>1. CASE HubReset
    BY <2>1, ResetKeepsTypes
  <2>2. ASSUME NEW n \in Worker, UNCHANGED <<epoch, used, output>>,
               wk' = [k \in Worker |->
                        IF k = n THEN [ph |-> "run", owner |-> m.owner, epoch |-> epoch,
                                       in |-> "table", credit |-> 0]
                        ELSE IF k \in Table \ Active THEN None ELSE wk[k]]
        PROVE  HubTypes'
    <3>1. [ph |-> "run", owner |-> m.owner, epoch |-> epoch, in |-> "table", credit |-> 0]
          \in Seats(epoch)
      BY <1>0, <2>0 DEF Seats
    <3> QED
      BY <1>0, <1>01, <1>02, <2>2, <3>1
  <2>3. CASE output' = TrySend(epoch) /\ UNCHANGED <<epoch, used, wk>>
    BY <1>0, <1>01, <1>03, <2>3
  <2>4. CASE /\ wk' = [n \in Worker |->
                        IF n \in StreamOf(m.owner) /\ wk[n].ph = "run"
                        THEN [wk[n] EXCEPT !.ph = "stop"] ELSE wk[n]]
             /\ output' = TrySend(epoch)
             /\ UNCHANGED <<epoch, used>>
    <3>1. \A n \in Worker : [wk[n] EXCEPT !.ph = "stop"] \in Seats(epoch)
      BY <1>0 DEF Seats
    <3> QED
      BY <1>0, <1>01, <1>03, <2>4, <3>1
  <2>5. CASE UNCHANGED hubVars
    BY <1>0, <2>5, Zenon DEF HubTypes, hubVars
  <2> QED
    BY <1>3, <2>1, <2>2, <2>3, <2>4, <2>5 DEF Dispatch
<1>4. CASE Poll
  <2>1. wk' \in [Worker -> Seats(epoch)] /\ epoch' = epoch /\ used' = used
    BY <1>0, <1>02, <1>4 DEF Poll
  <2>2. Cardinality(Stale) \in Nat
    <3>1. Stale \in SUBSET (1..Len(output)) /\ IsFiniteSet(1..Len(output))
      BY <1>0, FS_Interval DEF Stale
    <3> QED
      BY <3>1, FS_Subset, FS_CardinalityType
  <2>3. output' = <<>> \/ output' = SubSeq(output, Cardinality(Stale) + 2, Len(output))
    BY <1>4, Zenon DEF Poll
  <2>5. \A S, s, k : s \in Seq(S) /\ k \in Nat => SubSeq(s, k + 2, Len(s)) \in Seq(S)
    BY Cut
  <2>6. SubSeq(output, Cardinality(Stale) + 2, Len(output)) \in Seq(0..epoch)
    BY <1>0, <2>2, <2>5, Zenon
  <2>4. output' \in Seq(0..epoch)
    BY <2>3, <2>6, EmptySeq, Zenon
  <2> QED
    BY <1>0, <1>01, <2>1, <2>4
<1>5. CASE LinkUp
  BY <1>5, ResetKeepsTypes DEF LinkUp
<1>6. CASE LinkDown \/ LoseFrame \/ UNCHANGED vars
  <2>1. UNCHANGED hubVars
    BY <1>6 DEF LinkDown, LoseFrame, vars, hubVars
  <2> QED
    BY <1>0, <2>1, Zenon DEF HubTypes, hubVars
<1> QED
  BY <1>1, <1>2, <1>3, <1>4, <1>5, <1>6 DEF Next

LEMMA TypesKept ==
    ASSUME HubAssumption, TypeOK, CreditsMatchHolders, [Next]_vars
    PROVE  TypeOK'
<1>1. ClientTypes /\ HubTypes
  BY TwoHalves
<1>2. ClientTypes' /\ HubTypes'
  BY <1>1, ClientTypesKept, HubTypesKept
<1> QED
  BY <1>2, TwoHalves, PTL

----------------------------------------------------------------------------
(* Credits.                                                                *)

Holders(e) == {n \in Worker : wk[n].epoch = e /\ wk[n].credit = 1}

\* Who holds a credit, and of which epoch, decides the counters.
SameHolders == \A n \in Worker : /\ wk'[n].credit = wk[n].credit
                                 /\ wk[n].credit = 1 => wk'[n].epoch = wk[n].epoch

LEMMA SameHoldersSets ==
    ASSUME SameHolders
    PROVE  \A e : {n \in Worker : wk'[n].epoch = e /\ wk'[n].credit = 1} = Holders(e)
BY DEF SameHolders, Holders

LEMMA SameHoldersCount ==
    ASSUME CreditsMatchHolders, SameHolders, used' = used
    PROVE  CreditsMatchHolders'
BY SameHoldersSets DEF CreditsMatchHolders, Holders

\* A reset keeps every counter that someone may still give back to, and the
\* counter it makes is nobody's yet.
LEMMA ResetKeepsCredits ==
    ASSUME HubAssumption, HubTypes, OverHoldsNothing, CreditsMatchHolders, HubReset
    PROVE  OverHoldsNothing' /\ CreditsMatchHolders'
<1>1. epoch \in Nat /\ epoch' = epoch + 1 /\ wk \in [Worker -> Seats(epoch)]
      /\ used \in [0..epoch -> Nat] /\ used' = NewCounter
  BY DEF HubReset, HubTypes
<1>2. \A n \in Worker : wk'[n] = IF n \in Active THEN Stopped(n)
                                 ELSE IF n \in Table THEN None ELSE wk[n]
  BY DEF HubReset
<1>3. \A n \in Worker : wk[n].epoch \in 0..epoch
                        /\ wk[n].credit \in {0, 1}
  BY <1>1 DEF Seats
<1>30. \A n \in Worker : /\ Stopped(n).ph = "stop" /\ Stopped(n).in = "out"
                         /\ Stopped(n).epoch = wk[n].epoch /\ Stopped(n).credit = wk[n].credit
  BY <1>1 DEF Stopped, Seats
<1>4. \A n \in Worker : n \in Table \ Active => wk[n].credit = 0
  BY DEF Table, Active, OverHoldsNothing
<1>5. SameHolders
  BY <1>2, <1>3, <1>30, <1>4 DEF SameHolders, None
<1>6. OverHoldsNothing'
  <2>1. \A n \in Worker : /\ wk'[n].ph \in {"done", "free"} => wk'[n].credit = 0
                          /\ wk'[n].ph = "free" => wk'[n].in = "out"
    BY <1>2, <1>30 DEF OverHoldsNothing, None
  <2> QED
    BY <2>1 DEF OverHoldsNothing
<1>7. \A e : {n \in Worker : wk'[n].epoch = e /\ wk'[n].credit = 1} = Holders(e)
  BY <1>5, SameHoldersSets, Zenon
<1>8. Holders(epoch + 1) = {}
  <2>1. \A n \in Worker : wk[n].epoch # epoch + 1
    BY <1>1, <1>3
  <2> QED
    BY <2>1 DEF Holders
<1>9. \A e \in 0..epoch + 1 : used'[e] = IF e \in 0..epoch THEN used[e] ELSE 0
  BY <1>1 DEF NewCounter
<1>10. ASSUME NEW e \in 0..epoch + 1 PROVE used'[e] = Cardinality(Holders(e)) /\ used'[e] <= Credits
  <2>1. CASE e \in 0..epoch
    BY <1>1, <1>9, <2>1 DEF CreditsMatchHolders, Holders
  <2>2. CASE e = epoch + 1
    <3>1. e \notin 0..epoch
      BY <1>1, <2>2
    <3> QED
      BY <1>8, <1>9, <2>2, <3>1, FS_EmptySet DEF HubAssumption
  <2> QED
    BY <1>1, <2>1, <2>2
<1>11. DOMAIN used' = 0..epoch + 1
  BY <1>1 DEF NewCounter
<1> QED
  BY <1>6, <1>7, <1>10, <1>11 DEF CreditsMatchHolders

\* The next counter after one claim, or one credit given back.
LEMMA OneHolderMore ==
    ASSUME HubAssumption, HubTypes, CreditsMatchHolders, NEW n \in Worker, Claim(n)
    PROVE  CreditsMatchHolders'
<1> DEFINE e0 == wk[n].epoch
<1>1. e0 \in 0..epoch /\ wk \in [Worker -> Seats(epoch)] /\ used \in [0..epoch -> Nat]
  BY DEF HubTypes, Seats
<1>2. used' = [used EXCEPT ![e0] = @ + 1] /\ used[e0] < Credits /\ wk[n].credit = 0
  BY DEF Claim
<1>3. \A k \in Worker : /\ wk'[k].epoch = wk[k].epoch
                        /\ wk'[k].credit = IF k = n THEN 1 ELSE wk[k].credit
  BY <1>1 DEF Claim, Seats
<1>4. \A e : Holders(e)' = IF e = e0 THEN Holders(e) \cup {n} ELSE Holders(e)
  BY <1>2, <1>3 DEF Holders
<1>5. n \notin Holders(e0) /\ IsFiniteSet(Holders(e0))
  BY <1>2, FS_Subset DEF Holders, HubAssumption
<1>6. Cardinality(Holders(e0) \cup {n}) = Cardinality(Holders(e0)) + 1
  BY <1>5, FS_AddElement
<1>7. \A e \in DOMAIN used : used[e] = Cardinality(Holders(e)) /\ used[e] <= Credits
  BY DEF CreditsMatchHolders, Holders
<1>8. ASSUME NEW e \in DOMAIN used'
      PROVE  used'[e] = Cardinality(Holders(e)') /\ used'[e] <= Credits
  <2>1. Credits \in Nat
    BY DEF HubAssumption
  <2>2. e \in DOMAIN used /\ used[e] = Cardinality(Holders(e)) /\ used[e] \in Nat /\ used[e] <= Credits
    BY <1>1, <1>2, <1>7
  <2>3. CASE e = e0
    <3>1. used'[e0] = used[e0] + 1
      BY <1>1, <1>2
    <3>2. Holders(e)' = Holders(e0) \cup {n}
      BY <1>4, <2>3
    <3> QED
      BY <1>1, <1>2, <1>6, <2>1, <2>2, <2>3, <3>1, <3>2
  <2>4. CASE e # e0
    BY <1>1, <1>2, <1>4, <2>2, <2>4
  <2> QED
    BY <2>3, <2>4
<1> QED
  BY <1>8 DEF CreditsMatchHolders, Holders

LEMMA LessByOne ==
    ASSUME NEW H, IsFiniteSet(H), NEW n, NEW c \in {0, 1}, n \in H <=> c = 1
    PROVE  Cardinality(H \ {n}) = Cardinality(H) - c
<1>1. Cardinality(H) \in Nat
  BY FS_CardinalityType
<1>2. CASE c = 1
  BY <1>2, FS_RemoveElement
<1>3. CASE c = 0
  <2>1. H \ {n} = H
    BY <1>3
  <2>2. Cardinality(H \ {n}) = Cardinality(H)
    BY <2>1, Zenon
  <2> QED
    BY <1>1, <1>3, <2>2
<1> QED
  BY <1>2, <1>3

LEMMA OneHolderLess ==
    ASSUME HubAssumption, HubTypes, CreditsMatchHolders, NEW n \in Worker,
           used' = Drop(n), wk'[n].credit = 0,
           \A k \in Worker \ {n} : wk'[k] = wk[k]
    PROVE  CreditsMatchHolders'
<1> DEFINE e0 == wk[n].epoch
<1>1. e0 \in 0..epoch /\ wk \in [Worker -> Seats(epoch)] /\ used \in [0..epoch -> Nat]
      /\ wk[n].credit \in {0, 1}
  BY DEF HubTypes, Seats
<1>2. used' = [used EXCEPT ![e0] = @ - wk[n].credit]
  BY DEF Drop
<1>4. ASSUME NEW e PROVE Holders(e)' = IF e = e0 THEN Holders(e) \ {n} ELSE Holders(e)
  <2>1. \A k \in Worker : k \in Holders(e)' <=> k \in Holders(e) /\ k # n
    BY DEF Holders
  <2>2. e # e0 => n \notin Holders(e)
    BY DEF Holders
  <2>3. Holders(e)' \subseteq Worker /\ Holders(e) \subseteq Worker
    BY DEF Holders
  <2> QED
    BY <2>1, <2>2, <2>3
<1>5. IsFiniteSet(Holders(e0))
  BY FS_Subset DEF Holders, HubAssumption
<1>6. Cardinality(Holders(e0) \ {n}) = Cardinality(Holders(e0)) - wk[n].credit
  <2>1. n \in Holders(e0) <=> wk[n].credit = 1
    BY DEF Holders
  <2> QED
    BY <1>1, <1>5, <2>1, LessByOne
<1>7. \A e \in DOMAIN used : used[e] = Cardinality(Holders(e)) /\ used[e] <= Credits
  BY DEF CreditsMatchHolders, Holders
<1>8. ASSUME NEW e \in DOMAIN used'
      PROVE  used'[e] = Cardinality(Holders(e)') /\ used'[e] <= Credits
  <2>1. Credits \in Nat
    BY DEF HubAssumption
  <2>2. e \in DOMAIN used /\ used[e] = Cardinality(Holders(e)) /\ used[e] \in Nat /\ used[e] <= Credits
    BY <1>1, <1>2, <1>7
  <2>3. CASE e = e0
    <3>1. used'[e0] = used[e0] - wk[n].credit
      BY <1>1, <1>2
    <3>2. Holders(e)' = Holders(e0) \ {n}
      BY <1>4, <2>3
    <3> QED
      BY <1>1, <1>2, <1>6, <2>1, <2>2, <2>3, <3>1, <3>2
  <2>4. CASE e # e0
    BY <1>1, <1>2, <1>4, <2>2, <2>4
  <2> QED
    BY <2>3, <2>4
<1> QED
  BY <1>8 DEF CreditsMatchHolders, Holders

LEMMA SeatsChange ==
    ASSUME OverHoldsNothing, CreditsMatchHolders, used' = used,
           \A n \in Worker : \/ wk'[n] = wk[n]
                             \/ /\ wk'[n].credit = 0 /\ wk[n].credit = 0
                                /\ wk'[n].ph = "free" => wk'[n].in = "out"
                             \/ /\ wk'[n].ph = "stop"
                                /\ wk'[n].credit = wk[n].credit
                                /\ wk'[n].epoch = wk[n].epoch
    PROVE  OverHoldsNothing' /\ CreditsMatchHolders'
<1>1. SameHolders
  BY DEF SameHolders
<1> QED
  BY <1>1, SameHoldersCount DEF OverHoldsNothing

LEMMA CreditsKept ==
    ASSUME HubAssumption, HubTypes, OverHoldsNothing, CreditsMatchHolders, [Next]_vars
    PROVE  OverHoldsNothing' /\ CreditsMatchHolders'
<1>0. wk \in [Worker -> Seats(epoch)]
  BY DEF HubTypes
<1>1. ASSUME NEW c \in Companion, Handler(c) \/ Pump(c) PROVE UNCHANGED <<wk, used>>
  BY <1>1 DEF Handler, Pump, Connect, Relay, Close, ResetHost, Release, PumpRead, PumpSend, PumpEnd,
     hubVars
<1>2. ASSUME NEW n \in Worker, Claim(n) PROVE OverHoldsNothing' /\ CreditsMatchHolders'
  <2>1. wk' = [wk EXCEPT ![n] = [wk[n] EXCEPT !.credit = 1]] /\ wk[n].ph = "run"
    BY <1>2 DEF Claim
  <2>2. wk'[n].ph = "run" /\ wk'[n].in = wk[n].in /\ \A k \in Worker \ {n} : wk'[k] = wk[k]
    BY <1>0, <2>1 DEF Seats
  <2> QED
    BY <1>2, <2>2, OneHolderMore DEF OverHoldsNothing
<1>3. ASSUME NEW n \in Worker, Acked(n) PROVE OverHoldsNothing' /\ CreditsMatchHolders'
  <2>1. wk' = [wk EXCEPT ![n] = [wk[n] EXCEPT !.credit = 0]] /\ wk[n].ph = "run" /\ used' = Drop(n)
    BY <1>3 DEF Acked
  <2>2. wk'[n].ph = "run" /\ wk'[n].credit = 0 /\ \A k \in Worker \ {n} : wk'[k] = wk[k]
    BY <1>0, <2>1 DEF Seats
  <2> QED
    BY <2>1, <2>2, OneHolderLess DEF OverHoldsNothing
<1>4. ASSUME NEW n \in Worker, Exit(n) PROVE OverHoldsNothing' /\ CreditsMatchHolders'
  <2>1. wk' = [wk EXCEPT ![n] = IF wk[n].in = "table"
                                 THEN [wk[n] EXCEPT !.ph = "done", !.credit = 0] ELSE None]
        /\ used' = Drop(n)
    BY <1>4 DEF Exit
  <2>2. wk'[n].credit = 0 /\ (wk'[n].ph = "free" => wk'[n].in = "out")
        /\ \A k \in Worker \ {n} : wk'[k] = wk[k]
    BY <1>0, <2>1 DEF Seats, None
  <2> QED
    BY <2>1, <2>2, OneHolderLess DEF OverHoldsNothing
<1>5. CASE Dispatch
  <2> DEFINE m == Head(outgoing)
  <2>1. CASE HubReset
    BY <2>1, ResetKeepsCredits
  <2>2. ASSUME NEW n \in Worker, UNCHANGED <<epoch, used, output>>, wk[n].ph = "free",
               wk' = [k \in Worker |->
                        IF k = n THEN [ph |-> "run", owner |-> m.owner, epoch |-> epoch,
                                       in |-> "table", credit |-> 0]
                        ELSE IF k \in Table \ Active THEN None ELSE wk[k]]
        PROVE  OverHoldsNothing' /\ CreditsMatchHolders'
    <3>1. \A k \in Table \ Active : wk[k].credit = 0
      BY DEF Table, Active, OverHoldsNothing
    <3>2. wk[n].credit = 0
      BY <2>2 DEF OverHoldsNothing
    <3> QED
      BY <2>2, <3>1, <3>2, SeatsChange DEF None
  <2>3. CASE /\ wk' = [n \in Worker |->
                        IF n \in StreamOf(m.owner) /\ wk[n].ph = "run"
                        THEN [wk[n] EXCEPT !.ph = "stop"] ELSE wk[n]]
             /\ UNCHANGED <<epoch, used>>
    BY <1>0, <2>3, SeatsChange DEF Seats
  <2>4. CASE UNCHANGED <<wk, used>>
    BY <2>4, SeatsChange
  <2> QED
    BY <1>5, <2>1, <2>2, <2>3, <2>4 DEF Dispatch, hubVars
<1>6. CASE Poll
  <2>1. wk' = [n \in Worker |-> IF wk[n].ph = "done" THEN None ELSE wk[n]] /\ used' = used
    BY <1>6 DEF Poll
  <2> QED
    BY <2>1, SeatsChange DEF OverHoldsNothing, None
<1>7. CASE LinkUp
  BY <1>7, ResetKeepsCredits DEF LinkUp
<1>8. CASE LinkDown \/ LoseFrame \/ UNCHANGED vars
  BY <1>8, SeatsChange DEF LinkDown, LoseFrame, vars, hubVars
<1> QED
  BY <1>1, <1>2, <1>3, <1>4, <1>5, <1>6, <1>7, <1>8, SeatsChange DEF Next

----------------------------------------------------------------------------
(* The table.                                                              *)

\* What is in the table stays in its place, or leaves it.
LEMMA TableShrinks ==
    ASSUME HubAssumption, TableIsOfThisEpoch, epoch' = epoch,
           \A n \in Worker :
              wk'[n].in = "table" =>
                /\ wk[n].in = "table" /\ wk'[n].epoch = wk[n].epoch /\ wk'[n].owner = wk[n].owner
                /\ wk[n].ph = "done" => wk'[n].ph = "done"
    PROVE  TableIsOfThisEpoch'
<1>1. Table' \subseteq Table /\ Active' \subseteq Active
  BY DEF Table, Active
<1>2. IsFiniteSet(Active)
  BY FS_Subset DEF Active, Table, HubAssumption
<1>3. Cardinality(Active') <= Cardinality(Active) /\ Cardinality(Active') \in Nat
      /\ Cardinality(Active) \in Nat
  BY <1>1, <1>2, FS_Subset, FS_CardinalityType
<1>4. \A n \in Table' : wk'[n].epoch = epoch' /\ wk'[n].owner = wk[n].owner
  BY <1>1 DEF Table, TableIsOfThisEpoch
<1>5. \A n, k \in Table' : wk'[n].owner = wk'[k].owner => n = k
  BY <1>1, <1>4 DEF TableIsOfThisEpoch
<1>6. Cardinality(Active') <= MaxStreams
  BY <1>3 DEF TableIsOfThisEpoch, HubAssumption
<1> QED
  BY <1>4, <1>5, <1>6 DEF TableIsOfThisEpoch

LEMMA ResetEmptiesTable ==
    ASSUME HubAssumption, HubTypes, HubReset
    PROVE  Table' = {} /\ TableIsOfThisEpoch'
<1>1. wk \in [Worker -> Seats(epoch)]
  BY DEF HubTypes
<1>2. \A n \in Worker : wk'[n] = IF n \in Active THEN Stopped(n)
                                 ELSE IF n \in Table THEN None ELSE wk[n]
  BY DEF HubReset
<1>20. \A n \in Worker : Stopped(n).in = "out"
  BY <1>1 DEF Stopped, Seats
<1>3. \A n \in Worker : wk'[n].in # "table"
  BY <1>2, <1>20 DEF None, Active, Table
<1>4. Table' = {} /\ Active' = {}
  BY <1>3 DEF Table, Active
<1> QED
  BY <1>4, FS_EmptySet DEF TableIsOfThisEpoch, HubAssumption

\* A new stream takes a free place, when its companion has none and the number of
\* those at work is under the limit.
LEMMA StreamEntersTable ==
    ASSUME HubAssumption, HubTypes, OverHoldsNothing, TableIsOfThisEpoch, epoch' = epoch,
           NEW n \in Worker, wk[n].ph = "free", NEW o \in Companion, StreamOf(o) = {},
           Cardinality(Active) < MaxStreams,
           wk' = [k \in Worker |->
                    IF k = n THEN [ph |-> "run", owner |-> o, epoch |-> epoch,
                                   in |-> "table", credit |-> 0]
                    ELSE IF k \in Table \ Active THEN None ELSE wk[k]]
    PROVE  TableIsOfThisEpoch' /\ Table' = Active \cup {n} /\ wk'[n].owner = o
           /\ \A k \in Table' \ {n} : k \in Active /\ wk'[k] = wk[k]
<1>1. n \notin Table
  BY DEF Table, OverHoldsNothing
<1>2. \A k \in Worker : wk'[k].in = "table" <=> k \in Active \cup {n}
  BY <1>1 DEF Table, Active, None
<1>3. Table' = Active \cup {n} /\ Active \subseteq Table
  BY <1>2 DEF Table, Active
<1>4. wk'[n].owner = o /\ wk'[n].epoch = epoch /\ \A k \in Active : wk'[k] = wk[k]
  BY <1>1 DEF Active, Table
<1>5. Active' \subseteq Active \cup {n}
  BY <1>3 DEF Active
<1>6. IsFiniteSet(Active)
  BY FS_Subset DEF Active, Table, HubAssumption
<1>7. Cardinality(Active') <= MaxStreams
  <2>1. Cardinality(Active \cup {n}) = Cardinality(Active) + 1
        /\ IsFiniteSet(Active \cup {n})
    BY <1>1, <1>3, <1>6, FS_AddElement
  <2>2. Cardinality(Active) \in Nat /\ MaxStreams \in Nat
    BY <1>6, FS_CardinalityType DEF HubAssumption
  <2>3. Cardinality(Active') <= Cardinality(Active \cup {n}) /\ Cardinality(Active') \in Nat
    BY <1>5, <2>1, FS_Subset, FS_CardinalityType
  <2> QED
    BY <2>1, <2>2, <2>3
<1>8. \A k \in Active : wk[k].owner # o
  BY <1>3 DEF StreamOf
<1>9. \A a, b \in Table' : wk'[a].owner = wk'[b].owner => a = b
  BY <1>3, <1>4, <1>8 DEF TableIsOfThisEpoch
<1>10. \A k \in Table' : wk'[k].epoch = epoch'
  BY <1>3, <1>4 DEF TableIsOfThisEpoch
<1> QED
  BY <1>3, <1>4, <1>7, <1>9, <1>10 DEF TableIsOfThisEpoch

LEMMA TableKept ==
    ASSUME HubAssumption, ClientTypes, HubTypes, OverHoldsNothing, TableIsOfThisEpoch, [Next]_vars
    PROVE  TableIsOfThisEpoch'
<1>0. wk \in [Worker -> Seats(epoch)]
  BY DEF HubTypes
<1>01. ASSUME UNCHANGED <<wk, epoch>> PROVE TableIsOfThisEpoch'
  BY <1>01, TableShrinks
<1>1. ASSUME NEW c \in Companion, Handler(c) \/ Pump(c) PROVE TableIsOfThisEpoch'
  BY <1>01, <1>1 DEF Handler, Pump, Connect, Relay, Close, ResetHost, Release, PumpRead, PumpSend,
     PumpEnd, hubVars
<1>2. ASSUME NEW n \in Worker, Claim(n) \/ Acked(n) \/ Exit(n) PROVE TableIsOfThisEpoch'
  <2>1. epoch' = epoch /\ \A k \in Worker \ {n} : wk'[k] = wk[k]
    BY <1>0, <1>2 DEF Claim, Acked, Exit
  <2>2. wk[n].ph \in {"run", "stop"}
    BY <1>2 DEF Claim, Acked, Exit
  <2>3. wk'[n].in = "table" => wk[n].in = "table" /\ wk'[n].epoch = wk[n].epoch
                               /\ wk'[n].owner = wk[n].owner
    <3>1. CASE Claim(n)
      <4>1. wk'[n] = [wk[n] EXCEPT !.credit = 1]
        BY <1>0, <3>1 DEF Claim
      <4> QED
        BY <1>0, <4>1 DEF Seats
    <3>2. CASE Acked(n)
      <4>1. wk'[n] = [wk[n] EXCEPT !.credit = 0]
        BY <1>0, <3>2 DEF Acked
      <4> QED
        BY <1>0, <4>1 DEF Seats
    <3>3. CASE Exit(n)
      <4>1. wk'[n] = IF wk[n].in = "table" THEN [wk[n] EXCEPT !.ph = "done", !.credit = 0] ELSE None
        BY <1>0, <3>3 DEF Exit
      <4> QED
        BY <1>0, <4>1 DEF Seats, None
    <3> QED
      BY <1>2, <3>1, <3>2, <3>3
  <2> QED
    BY <2>1, <2>2, <2>3, TableShrinks
<1>3. CASE Dispatch
  <2> DEFINE m == Head(outgoing)
  <2>1. CASE HubReset
    BY <2>1, ResetEmptiesTable
  <2>2. ASSUME NEW n \in Worker, UNCHANGED <<epoch, used, output>>, wk[n].ph = "free",
               StreamOf(m.owner) = {}, Cardinality(Active) < MaxStreams,
               wk' = [k \in Worker |->
                        IF k = n THEN [ph |-> "run", owner |-> m.owner, epoch |-> epoch,
                                       in |-> "table", credit |-> 0]
                        ELSE IF k \in Table \ Active THEN None ELSE wk[k]]
        PROVE  TableIsOfThisEpoch'
    <3>1. outgoing # <<>> /\ outgoing \in Seq(Frames)
      BY <1>3, Zenon DEF Dispatch, ClientTypes
    <3>2. m \in Frames
      BY <3>1, Removed
    <3>3. m.owner \in Companion
      BY <3>2 DEF Frames
    <3> QED
      BY <2>2, <3>3, StreamEntersTable
  <2>3. CASE /\ wk' = [n \in Worker |->
                        IF n \in StreamOf(m.owner) /\ wk[n].ph = "run"
                        THEN [wk[n] EXCEPT !.ph = "stop"] ELSE wk[n]]
             /\ UNCHANGED <<epoch, used>>
    <3>1. \A n \in Worker : wk'[n].in = wk[n].in /\ wk'[n].epoch = wk[n].epoch
                            /\ wk'[n].owner = wk[n].owner
                            /\ (wk[n].ph = "done" => wk'[n].ph = "done")
      BY <1>0, <2>3 DEF Seats
    <3> QED
      BY <2>3, <3>1, TableShrinks
  <2>4. CASE UNCHANGED <<wk, epoch>>
    BY <1>01, <2>4
  <2> QED
    BY <1>3, <2>1, <2>2, <2>3, <2>4 DEF Dispatch, hubVars
<1>4. CASE Poll
  <2>1. wk' = [n \in Worker |-> IF wk[n].ph = "done" THEN None ELSE wk[n]] /\ epoch' = epoch
    BY <1>4 DEF Poll
  <2> QED
    BY <2>1, TableShrinks DEF None
<1>5. CASE LinkUp
  BY <1>5, ResetEmptiesTable DEF LinkUp
<1>6. CASE LinkDown \/ LoseFrame \/ UNCHANGED vars
  BY <1>01, <1>6 DEF LinkDown, LoseFrame, vars, hubVars
<1> QED
  BY <1>1, <1>2, <1>3, <1>4, <1>5, <1>6 DEF Next

----------------------------------------------------------------------------
(* The order of companions and frames.                                     *)

\* A companion that connects comes after all that have connected before.
LEMMA NextCompanion ==
    ASSUME HubAssumption, CompanionsInOrder, NEW c \in Companion, ~Began(c),
           NEW b \in Companion, Began(b)
    PROVE  b < c
<1>1. b \in Nat /\ c \in Nat
  BY SMT DEF HubAssumption
<1>2. b # c
  BY Zenon
<1>3. ~(c < b)
  BY Zenon DEF CompanionsInOrder
<1> QED
  BY <1>1, <1>2, <1>3, SMT

\* Frames and table as they are, the route perhaps given up.
LEMMA OrderStays ==
    ASSUME HubAssumption, ClientTypes, OrderInv, slot' \in {slot, 0}, outgoing' = outgoing,
           \A b \in Companion : Began(b)' <=> Began(b),
           Table' \subseteq Table, \A n \in Table' : wk'[n].owner = wk[n].owner
    PROVE  OrderInv'
<1>1. \A i \in 1..Len(outgoing) : outgoing[i].owner \in Companion
  <2>1. \A i \in 1..Len(outgoing) : outgoing[i] \in Frames
    BY ElementOfSeq DEF ClientTypes
  <2> QED
    BY <2>1 DEF Frames
<1>2. slot \in Companion \cup {0} /\ 0 \notin Companion
  BY DEF ClientTypes, HubAssumption
<1>3. CompanionsInOrder'
  BY <1>2 DEF OrderInv, CompanionsInOrder
<1>4. FramesInOrder'
  BY <1>1 DEF OrderInv, FramesInOrder
<1> QED
  BY <1>3, <1>4 DEF OrderInv

\* A frame of the owner is appended; the route may be given up with it.
LEMMA OrderSent ==
    ASSUME HubAssumption, ClientTypes, OrderInv, NEW k \in {"OPEN", "DATA", "RESET"},
           slot # 0, Send(k, slot), slot' \in {slot, 0},
           \A b \in Companion : Began(b)' <=> Began(b),
           Table' \subseteq Table, \A n \in Table' : wk'[n].owner = wk[n].owner
    PROVE  OrderInv'
<1> DEFINE f == [k |-> k, owner |-> slot]
<1>1. slot \in Companion /\ Began(slot) /\ outgoing \in Seq(Frames)
  BY DEF ClientTypes, OrderInv, CompanionsInOrder
<1>2. \A i \in 1..Len(outgoing) : outgoing[i].owner \in Companion
  <2>1. \A i \in 1..Len(outgoing) : outgoing[i] \in Frames
    BY <1>1, ElementOfSeq
  <2> QED
    BY <2>1 DEF Frames
<1>3. f \in Frames
  BY <1>1 DEF Frames
<1>4. /\ Len(outgoing') = Len(outgoing) + 1 /\ Len(outgoing) \in Nat
      /\ \A i \in 1..Len(outgoing) : outgoing'[i] = outgoing[i]
      /\ outgoing'[Len(outgoing) + 1].owner = slot
  BY <1>1, <1>3, AppendProperties DEF Send
<1>5. \A i \in 1..Len(outgoing') :
         \/ i \in 1..Len(outgoing) /\ outgoing'[i] = outgoing[i]
         \/ i = Len(outgoing) + 1 /\ outgoing'[i].owner = slot
  BY <1>4
<1>7. CompanionsInOrder'
  BY <1>1 DEF OrderInv, CompanionsInOrder
<1>8. slot \in Nat /\ Companion \subseteq Nat
  BY <1>1 DEF HubAssumption
<1>9. ASSUME NEW i \in 1..Len(outgoing')
      PROVE  /\ outgoing'[i].owner \in Companion
             /\ Began(outgoing'[i].owner) /\ outgoing'[i].owner <= slot
             /\ \A j \in i..Len(outgoing') : outgoing'[i].owner <= outgoing'[j].owner
             /\ \A n \in Table' : wk'[n].owner <= outgoing'[i].owner
  <2>1. CASE i \in 1..Len(outgoing)
    <3>1. \A j \in i..Len(outgoing') : j \in i..Len(outgoing) \/ j = Len(outgoing) + 1
      BY <1>4, <2>1
    <3>2. /\ outgoing'[i].owner = outgoing[i].owner
          /\ outgoing[i].owner \in Companion /\ outgoing[i].owner <= slot /\ Began(outgoing[i].owner)
      BY <1>2, <1>4, <2>1 DEF OrderInv, FramesInOrder
    <3>3. \A j \in i..Len(outgoing) : outgoing[i].owner <= outgoing[j].owner
                                      /\ outgoing'[j] = outgoing[j]
      BY <1>4, <2>1 DEF OrderInv, FramesInOrder
    <3>4. \A n \in Table' : wk'[n].owner <= outgoing[i].owner
      BY <2>1 DEF OrderInv, FramesInOrder
    <3> QED
      BY <1>4, <3>1, <3>2, <3>3, <3>4
  <2>2. CASE i = Len(outgoing) + 1
    <3>1. outgoing'[i].owner = slot
      BY <1>4, <2>2
    <3>2. \A j \in i..Len(outgoing') : j = i
      BY <1>4, <2>2
    <3>3. \A n \in Table' : wk'[n].owner <= slot
      BY DEF OrderInv, FramesInOrder
    <3> QED
      BY <1>1, <1>8, <3>1, <3>2, <3>3
  <2> QED
    BY <1>5, <2>1, <2>2
<1>10. \A n \in Table' : /\ wk'[n].owner \in Companion /\ Began(wk'[n].owner)
                         /\ wk'[n].owner <= slot
  BY DEF OrderInv, FramesInOrder
<1>11. FramesInOrder'
  BY <1>9, <1>10 DEF FramesInOrder
<1> QED
  BY <1>7, <1>11 DEF OrderInv

\* The first frame is taken; a stream that is opened then is its companion's.
LEMMA OrderTaken ==
    ASSUME HubAssumption, ClientTypes, OrderInv, outgoing # <<>>, outgoing' = Tail(outgoing),
           slot' = slot, handler' = handler,
           \A n \in Table' : \/ n \in Table /\ wk'[n].owner = wk[n].owner
                             \/ wk'[n].owner = Head(outgoing).owner
    PROVE  OrderInv'
<1>1. outgoing \in Seq(Frames)
  BY DEF ClientTypes
<1>2. /\ Len(outgoing) \in Nat /\ Len(outgoing) > 0 /\ Len(outgoing') = Len(outgoing) - 1
      /\ \A i \in 1..Len(outgoing') : outgoing'[i] = outgoing[i + 1]
      /\ Head(outgoing) = outgoing[1]
  BY <1>1, HeadTailProperties
<1>3. \A b \in Companion : Began(b)' <=> Began(b)
  BY DEF Began
<1>4. CompanionsInOrder'
  <2>1. slot \in Companion \cup {0}
    BY DEF ClientTypes
  <2> QED
    BY <1>3, <2>1 DEF OrderInv, CompanionsInOrder
<1>5. \A i \in 1..Len(outgoing) : outgoing[i].owner \in Companion
  <2>1. \A i \in 1..Len(outgoing) : outgoing[i] \in Frames
    BY <1>1, ElementOfSeq
  <2> QED
    BY <2>1 DEF Frames
<1>6. Companion \subseteq Nat
  BY DEF HubAssumption
<1>7. \A n \in Table' : /\ wk'[n].owner \in Companion /\ Began(wk'[n].owner)
                        /\ slot # 0 => wk'[n].owner <= slot
  BY <1>2, <1>5 DEF OrderInv, FramesInOrder
<1>8. ASSUME NEW i \in 1..Len(outgoing')
      PROVE  /\ Began(outgoing'[i].owner)
             /\ slot # 0 => outgoing'[i].owner <= slot
             /\ \A j \in i..Len(outgoing') : outgoing'[i].owner <= outgoing'[j].owner
             /\ \A n \in Table' : wk'[n].owner <= outgoing'[i].owner
  <2>1. i + 1 \in 1..Len(outgoing) /\ outgoing'[i] = outgoing[i + 1]
        /\ i + 1 \in 1..Len(outgoing) /\ 1 \in 1..Len(outgoing)
    BY <1>2
  <2>2. \A j \in i..Len(outgoing') : j + 1 \in i + 1..Len(outgoing) /\ outgoing'[j] = outgoing[j + 1]
    BY <1>2
  <2>3. outgoing[1].owner <= outgoing[i + 1].owner
    BY <2>1 DEF OrderInv, FramesInOrder
  <2>4. \A j \in i..Len(outgoing') : outgoing'[i].owner <= outgoing'[j].owner
    BY <2>1, <2>2 DEF OrderInv, FramesInOrder
  <2>5. \A n \in Table' : wk'[n].owner <= outgoing'[i].owner
    BY <1>2, <2>1, <2>3 DEF OrderInv, FramesInOrder
  <2>6. Began(outgoing'[i].owner) /\ (slot # 0 => outgoing'[i].owner <= slot)
    BY <2>1 DEF OrderInv, FramesInOrder
  <2> QED
    BY <2>4, <2>5, <2>6
<1>9. \A i \in 1..Len(outgoing') : outgoing'[i].owner \in Companion
  BY <1>2, <1>5
<1>10. FramesInOrder'
  BY <1>3, <1>7, <1>8, <1>9 DEF FramesInOrder
<1> QED
  BY <1>4, <1>10 DEF OrderInv

LEMMA OrderConnects ==
    ASSUME HubAssumption, ClientTypes, OrderInv, NEW c \in Companion, Connect(c)
    PROVE  OrderInv'
<1>1. ~Began(c) /\ \A b \in Companion : b < c => Began(b)
  BY DEF Connect, Began
<1>2. \A b \in Companion : Began(b)' <=> Began(b) \/ b = c
  BY DEF Connect, Began, ClientTypes
<1>3. UNCHANGED <<outgoing, wk>> /\ (slot' = slot \/ (slot = 0 /\ slot' = c))
  BY DEF Connect, hubVars
<1>4. \A i \in 1..Len(outgoing) : outgoing[i].owner \in Companion
  <2>1. \A i \in 1..Len(outgoing) : outgoing[i] \in Frames
    BY ElementOfSeq DEF ClientTypes
  <2> QED
    BY <2>1 DEF Frames
<1>5. slot \in Companion \cup {0} /\ Companion \subseteq Nat
  BY DEF ClientTypes, HubAssumption
<1>6. Table' = Table /\ \A n \in Table' : wk'[n].owner = wk[n].owner
  BY <1>3 DEF Table
<1>7. CompanionsInOrder'
  BY <1>1, <1>2, <1>3, <1>5 DEF OrderInv, CompanionsInOrder
<1>8. ASSUME NEW b \in Companion, Began(b) PROVE b < c
  <2>1. CompanionsInOrder
    BY DEF OrderInv
  <2> QED
    BY <1>1, <1>8, <2>1, NextCompanion
<1>9. ASSUME NEW b \in Companion, Began(b), slot # 0 => b <= slot
      PROVE  slot' # 0 => b <= slot'
  <2>1. b \in Nat /\ c \in Nat /\ b < c
    BY <1>5, <1>8, <1>9
  <2> QED
    BY <1>3, <1>9, <2>1
<1>10. FramesInOrder'
  BY <1>2, <1>3, <1>4, <1>6, <1>9 DEF OrderInv, FramesInOrder
<1> QED
  BY <1>7, <1>10 DEF OrderInv

LEMMA OrderKept ==
    ASSUME HubAssumption, ClientTypes, HubTypes, OverHoldsNothing, TableIsOfThisEpoch, OrderInv,
           [Next]_vars
    PROVE  OrderInv'
<1>0. wk \in [Worker -> Seats(epoch)]
  BY DEF HubTypes
<1>01. handler' = handler => \A b \in Companion : Began(b)' <=> Began(b)
  BY DEF Began
<1>02. wk' = wk => Table' \subseteq Table /\ \A n \in Table' : wk'[n].owner = wk[n].owner
  BY DEF Table
<1>1. ASSUME NEW c \in Companion, Handler(c) PROVE OrderInv'
  <2>1. CASE Connect(c)
    BY <2>1, OrderConnects
  <2>2. CASE Relay(c)
    <3>1. UNCHANGED <<slot, handler, outgoing, wk>>
      BY <2>2 DEF Relay, hubVars
    <3> QED
      BY <1>01, <1>02, <3>1, OrderStays
  <2>3. CASE Close(c) \/ Release(c)
    <3>1. UNCHANGED <<outgoing, wk>> /\ slot' \in {slot, 0}
      BY <2>3 DEF Close, Release, hubVars
    <3>2. \A b \in Companion : Began(b)' <=> Began(b)
      BY <2>3 DEF Close, Release, Began, ClientTypes
    <3> QED
      BY <1>02, <3>1, <3>2, OrderStays
  <2>4. CASE ResetHost(c)
    <3>1. UNCHANGED <<slot, wk>>
      BY <2>4 DEF ResetHost, hubVars
    <3>2. \A b \in Companion : Began(b)' <=> Began(b)
      BY <2>4 DEF ResetHost, Began, ClientTypes
    <3>3. outgoing' = outgoing \/ (slot = c /\ c # 0 /\ Send("RESET", slot))
      BY <2>4 DEF ResetHost, MayReset, HubAssumption
    <3> QED
      BY <1>02, <3>1, <3>2, <3>3, OrderStays, OrderSent
  <2> QED
    BY <1>1, <2>1, <2>2, <2>3, <2>4 DEF Handler
<1>2. ASSUME NEW c \in Companion, Pump(c) PROVE OrderInv'
  <2>1. UNCHANGED <<slot, handler, wk>>
    BY <1>2 DEF Pump, PumpRead, PumpSend, PumpEnd, hubVars
  <2>2. outgoing' = outgoing
        \/ (slot = c /\ c # 0 /\ \E k \in {"OPEN", "DATA"} : Send(k, slot))
    BY <1>2 DEF Pump, PumpRead, PumpSend, PumpEnd, OwnsRoute, HubAssumption
  <2> QED
    BY <1>01, <1>02, <2>1, <2>2, OrderStays, OrderSent
<1>3. ASSUME NEW n \in Worker, Claim(n) \/ Acked(n) \/ Exit(n) PROVE OrderInv'
  <2>1. UNCHANGED <<slot, handler, outgoing>>
    BY <1>3 DEF Claim, Acked, Exit, clientVars
  <2>2. \A k \in Worker \ {n} : wk'[k] = wk[k]
    BY <1>0, <1>3 DEF Claim, Acked, Exit
  <2>3. wk'[n].in = "table" => wk[n].in = "table" /\ wk'[n].owner = wk[n].owner
    <3>1. CASE Claim(n)
      <4>1. wk'[n] = [wk[n] EXCEPT !.credit = 1]
        BY <1>0, <3>1 DEF Claim
      <4> QED
        BY <1>0, <4>1 DEF Seats
    <3>2. CASE Acked(n)
      <4>1. wk'[n] = [wk[n] EXCEPT !.credit = 0]
        BY <1>0, <3>2 DEF Acked
      <4> QED
        BY <1>0, <4>1 DEF Seats
    <3>3. CASE Exit(n)
      <4>1. wk'[n] = IF wk[n].in = "table" THEN [wk[n] EXCEPT !.ph = "done", !.credit = 0] ELSE None
        BY <1>0, <3>3 DEF Exit
      <4> QED
        BY <1>0, <4>1 DEF Seats, None
    <3> QED
      BY <1>3, <3>1, <3>2, <3>3
  <2>4. Table' \subseteq Table /\ \A k \in Table' : wk'[k].owner = wk[k].owner
    BY <2>2, <2>3 DEF Table
  <2> QED
    BY <1>01, <2>1, <2>4, OrderStays
<1>4. CASE Dispatch
  <2> DEFINE m == Head(outgoing)
  <2>1. outgoing # <<>> /\ outgoing' = Tail(outgoing) /\ UNCHANGED <<slot, handler>>
    BY <1>4, Zenon DEF Dispatch, clientVars
  <2>2. ASSUME \A n \in Table' : \/ n \in Table /\ wk'[n].owner = wk[n].owner
                                 \/ wk'[n].owner = m.owner
        PROVE  OrderInv'
    BY <2>1, <2>2, OrderTaken
  <2>3. CASE HubReset
    BY <2>2, <2>3, ResetEmptiesTable
  <2>4. ASSUME NEW n \in Worker, UNCHANGED <<epoch, used, output>>, wk[n].ph = "free",
               wk' = [k \in Worker |->
                        IF k = n THEN [ph |-> "run", owner |-> m.owner, epoch |-> epoch,
                                       in |-> "table", credit |-> 0]
                        ELSE IF k \in Table \ Active THEN None ELSE wk[k]]
        PROVE  OrderInv'
    <3>1. \A k \in Worker : wk'[k].in = "table" => \/ wk'[k] = wk[k]
                                                   \/ wk'[k].owner = m.owner
      BY <2>4 DEF None
    <3> QED
      BY <2>2, <3>1 DEF Table
  <2>5. CASE wk' = [n \in Worker |->
                        IF n \in StreamOf(m.owner) /\ wk[n].ph = "run"
                        THEN [wk[n] EXCEPT !.ph = "stop"] ELSE wk[n]]
    <3>1. \A n \in Worker : wk'[n].in = wk[n].in /\ wk'[n].owner = wk[n].owner
      BY <1>0, <2>5 DEF Seats
    <3> QED
      BY <2>2, <3>1 DEF Table
  <2>6. CASE wk' = wk
    BY <1>02, <2>2, <2>6
  <2> QED
    BY <1>4, <2>3, <2>4, <2>5, <2>6 DEF Dispatch, hubVars
<1>5. CASE Poll
  <2>1. wk' = [n \in Worker |-> IF wk[n].ph = "done" THEN None ELSE wk[n]] /\ handler' = handler
    BY <1>5 DEF Poll
  <2>2. Table' \subseteq Table /\ \A n \in Table' : wk'[n].owner = wk[n].owner
    BY <2>1 DEF Table, None
  <2>3. \/ outgoing' = outgoing /\ slot' = slot
        \/ slot # 0 /\ Send("RESET", slot) /\ slot' = 0
    BY <1>5 DEF Poll
  <2> QED
    BY <1>01, <2>1, <2>2, <2>3, OrderStays, OrderSent
<1>6. CASE LinkUp
  <2>1. Table' = {} /\ UNCHANGED <<slot, handler, outgoing>>
    BY <1>6, ResetEmptiesTable DEF LinkUp, clientVars
  <2> QED
    BY <1>01, <2>1, OrderStays
<1>7. CASE LinkDown \/ UNCHANGED vars
  <2>1. UNCHANGED <<slot, handler, outgoing, wk>>
    BY <1>7 DEF LinkDown, vars, clientVars, hubVars
  <2> QED
    BY <1>01, <1>02, <2>1, OrderStays
<1>8. CASE LoseFrame
  <2>1. outgoing # <<>> /\ outgoing' = Tail(outgoing) /\ UNCHANGED <<slot, handler, wk>>
    BY <1>8, Zenon DEF LoseFrame, clientVars, hubVars
  <2> QED
    BY <1>02, <2>1, OrderTaken
<1> QED
  BY <1>1, <1>2, <1>3, <1>4, <1>5, <1>6, <1>7, <1>8 DEF Next

LEMMA HubStarts == ASSUME HubAssumption, Init PROVE HubInv
<1> USE DEF Init, None
<1>1. TypeOK
  <2>1. ClientTypes
    BY EmptySeq DEF ClientTypes, HubAssumption
  <2>2. HubTypes
    BY EmptySeq DEF HubTypes, Seats
  <2> QED
    BY <2>1, <2>2, TwoHalves
<1>2. OverHoldsNothing /\ Table = {} /\ Active = {}
  BY DEF OverHoldsNothing, Table, Active
<1>3. CreditsMatchHolders
  <2>1. \A n \in Worker : wk[n].credit = 0
    OBVIOUS
  <2>2. \A e : {n \in Worker : wk[n].epoch = e /\ wk[n].credit = 1} = {}
    BY <2>1
  <2>3. Credits \in Nat /\ Cardinality({}) = 0
    BY FS_EmptySet DEF HubAssumption
  <2>4. \A e \in DOMAIN used : used[e] = 0
    OBVIOUS
  <2>5. ASSUME NEW e \in DOMAIN used
        PROVE  /\ used[e] = Cardinality({n \in Worker : wk[n].epoch = e /\ wk[n].credit = 1})
               /\ used[e] <= Credits
    <3>1. Cardinality({n \in Worker : wk[n].epoch = e /\ wk[n].credit = 1}) = 0
      BY <2>2, <2>3, Zenon
    <3>2. used[e] = 0
      BY <2>4
    <3> QED
      BY <2>3, <3>1, <3>2
  <2> QED
    BY <2>5, Zenon DEF CreditsMatchHolders
<1>4. TableIsOfThisEpoch
  BY <1>2, FS_EmptySet DEF TableIsOfThisEpoch, HubAssumption
<1>5. OrderInv
  BY <1>2 DEF OrderInv, CompanionsInOrder, FramesInOrder, Began
<1> QED
  BY <1>1, <1>2, <1>3, <1>4, <1>5 DEF HubInv

LEMMA HubKept == ASSUME HubAssumption, HubInv, [Next]_vars PROVE HubInv'
<1>1. TypeOK /\ ClientTypes /\ HubTypes /\ OverHoldsNothing /\ CreditsMatchHolders
      /\ TableIsOfThisEpoch /\ OrderInv
  BY TwoHalves DEF HubInv
<1> QED
  BY <1>1, TypesKept, CreditsKept, TableKept, OrderKept DEF HubInv

----------------------------------------------------------------------------
(* What is sent is not stale.                                              *)

LEMMA FirstNumbers == ASSUME NEW n \in Nat PROVE Cardinality(1..n) = n
BY FS_Interval

\* The stale frames are those in front of the first of the present epoch.
LEMMA FirstOfEpoch ==
    ASSUME HubTypes, Cardinality(Stale) # Len(output)
    PROVE  /\ Cardinality(Stale) \in Nat
           /\ Cardinality(Stale) + 1 \in 1..Len(output)
           /\ output[Cardinality(Stale) + 1] = epoch
<1> DEFINE T == {i \in 1..Len(output) : output[i] = epoch}
<1>1. Len(output) \in Nat
  BY DEF HubTypes
<1>2. T # {}
  <2> SUFFICES ASSUME T = {} PROVE FALSE
    OBVIOUS
  <2>1. Stale = 1..Len(output)
    <3>1. \A i \in 1..Len(output) : \A j \in 1..i : j \in 1..Len(output) /\ output[j] # epoch
      BY <1>1
    <3>2. \A i \in 1..Len(output) : i \in Stale
      BY <3>1 DEF Stale
    <3>3. Stale \subseteq 1..Len(output)
      BY DEF Stale
    <3> QED
      BY <3>2, <3>3, Zenon
  <2>2. Cardinality(1..Len(output)) = Len(output)
    BY <1>1, FirstNumbers
  <2> QED
    BY <2>1, <2>2
<1>3. PICK m \in T : \A y \in T : m <= y
  <2>1. T \in SUBSET Nat
    BY <1>1
  <2> HIDE DEF T
  <2> QED
    BY <1>2, <2>1, LeastElement
<1>4. m \in 1..Len(output) /\ output[m] = epoch
  OBVIOUS
<1>5. Stale = 1..m - 1
  <2>1. \A i \in 1..m - 1 : i \in 1..Len(output) /\ \A j \in 1..i : j \in 1..Len(output) /\ j \notin T
    BY <1>1, <1>3, <1>4
  <2>2. \A i \in 1..Len(output) : i \notin 1..m - 1 => m \in 1..i
    BY <1>1, <1>4
  <2> QED
    BY <1>4, <2>1, <2>2 DEF Stale
<1>6. Cardinality(1..m - 1) = m - 1
  BY <1>1, <1>4, FirstNumbers
<1> QED
  BY <1>1, <1>4, <1>5, <1>6

LEMMA SilentStep ==
    ASSUME HubInv, Dispatch
    PROVE  \A n \in Table : wk[n].owner <= Head(outgoing).owner
<1>1. outgoing # <<>> /\ outgoing \in Seq(Frames)
  BY TwoHalves, Zenon DEF HubInv, Dispatch, ClientTypes
<1>2. 1 \in 1..Len(outgoing) /\ Head(outgoing) = outgoing[1]
  BY <1>1, HeadTailProperties
<1> QED
  BY <1>2 DEF HubInv, OrderInv, FramesInOrder

LEMMA EpochStep ==
    ASSUME HubAssumption, HubInv, [Next]_vars, NEW c \in Companion, backlog'[c] > backlog[c]
    PROVE  \E i \in 1..Len(output) : output[i] = epoch /\ Len(output') <= Len(output) - i
<1>1. ClientTypes /\ HubTypes
  BY TwoHalves DEF HubInv
<1>2. backlog \in [Companion -> 0..RelayCap] /\ RelayCap \in Nat
  BY <1>1 DEF ClientTypes, HubAssumption
<1>3. backlog' # backlog
  BY <1>2
<1>4. Poll
  <2>1. ASSUME NEW b \in Companion, Handler(b) PROVE FALSE
    <3>1. backlog' = [backlog EXCEPT ![b] = @ - 1] \/ backlog' = [backlog EXCEPT ![b] = 0]
      BY <1>3, <2>1 DEF Handler, Connect, Relay, Close, ResetHost, Release
    <3>2. backlog[c] \in 0..RelayCap /\ backlog[b] \in 0..RelayCap
      BY <1>2
    <3>3. backlog'[c] \in {backlog[c], backlog[c] - 1, 0}
      BY <1>2, <3>1
    <3> QED
      BY <1>2, <3>2, <3>3
  <2>2. ASSUME NEW b \in Companion, Pump(b) PROVE FALSE
    BY <1>3, <2>2 DEF Pump, PumpRead, PumpSend, PumpEnd
  <2>3. ASSUME NEW n \in Worker, Claim(n) \/ Acked(n) \/ Exit(n) PROVE FALSE
    BY <1>3, <2>3 DEF Claim, Acked, Exit, clientVars
  <2>4. CASE Dispatch \/ LinkDown \/ LinkUp \/ LoseFrame \/ UNCHANGED vars
    <3>1. UNCHANGED clientVars
      BY <2>4, Zenon DEF Dispatch, LinkDown, LinkUp, LoseFrame, vars, clientVars
    <3> QED
      BY <1>3, <3>1 DEF clientVars
  <2> QED
    BY <2>1, <2>2, <2>3, <2>4 DEF Next
<1>5. Cardinality(Stale) # Len(output) /\ output' = SubSeq(output, Cardinality(Stale) + 2, Len(output))
  BY <1>3, <1>4 DEF Poll
<1> DEFINE k == Cardinality(Stale)
<1>6. k \in Nat /\ k + 1 \in 1..Len(output) /\ output[k + 1] = epoch
  BY <1>1, <1>5, FirstOfEpoch
<1>7. Len(output) \in Nat /\ output \in Seq(0..epoch)
  BY <1>1 DEF HubTypes
<1>8. Len(output') <= Len(output) - (k + 1)
  <2> HIDE DEF k
  <2>1. k \in Int /\ k + 2 \in Int /\ Len(output) \in Int
    BY <1>6, <1>7
  <2>2. \A i \in k + 2..Len(output) : output[i] \in 0..epoch
    <3>1. \A i \in k + 2..Len(output) : i \in 1..Len(output)
      BY <1>6, <1>7
    <3>2. \A i \in 1..Len(output) : output[i] \in 0..epoch
      BY <1>7, ElementOfSeq
    <3> QED
      BY <3>1, <3>2
  <2>3. output' = SubSeq(output, k + 2, Len(output))
    BY <1>5 DEF k
  <2>4. Len(output') = IF k + 2 <= Len(output) THEN Len(output) - (k + 2) + 1 ELSE 0
    BY <2>1, <2>2, <2>3, SubSeqProperties
  <2> QED
    BY <1>6, <1>7, <2>1, <2>4
<1> QED
  BY <1>6, <1>8

----------------------------------------------------------------------------
(* For any companions, workers and limits, whatever is lost and however    *)
(* often the link drops: the host is never sent a frame of a companion     *)
(* that came before one whose stream it runs, and the client only what a   *)
(* worker of the present epoch has produced.                               *)
THEOREM NothingStaleIsEverSent == MCSpec => NothingStaleIsSent
<1>1. MCInit => HubInv
  BY HubStarts, HubAssumption, Zenon DEF MCInit
<1>2. [MCNext]_mcvars => [Next]_vars
  BY Zenon DEF MCNext, mcvars
<1>3. HubInv /\ [Next]_vars => HubInv'
  BY HubKept, HubAssumption
<1>4. HubInv /\ [Next]_vars => (Dispatch => \A n \in Table : wk[n].owner <= Head(outgoing).owner)
  BY SilentStep
<1>5. HubInv /\ [Next]_vars =>
        \A c \in Companion : backlog'[c] > backlog[c] =>
          \E i \in 1..Len(output) : output[i] = epoch /\ Len(output') <= Len(output) - i
  BY EpochStep, HubAssumption
<1> QED
  BY <1>1, <1>2, <1>3, <1>4, <1>5, PTL
     DEF MCSpec, NothingStaleIsSent, EarlierCompanionIsSilent, OnlyThisEpochIsSent

----------------------------------------------------------------------------
(* Folds over a sequence: FoldLeft of the community modules, by what it    *)
(* does with the first n elements.  Induction is stated of a set of        *)
(* naturals, and follows from the least element of its complement.         *)

LEMMA EveryNatural ==
    ASSUME NEW T \in SUBSET Nat, 0 \in T, \A n \in T : n + 1 \in T
    PROVE  \A n \in Nat : n \in T
<1> SUFFICES ASSUME Nat \ T # {}
             PROVE  FALSE
  OBVIOUS
<1>1. PICK m \in Nat \ T : \A y \in Nat \ T : m <= y
  BY LeastElement
<1>2. m # 0 /\ m - 1 \in Nat
  BY <1>1
<1>3. m - 1 \in T
  BY <1>1, <1>2
<1> QED
  BY <1>1, <1>2, <1>3

Latest(S) == CHOOSE x \in S : \A y \in S : x >= y

LEMMA LatestIs ==
    ASSUME NEW S, NEW m \in S, S \subseteq Nat, \A y \in S : m >= y
    PROVE  Latest(S) = m
<1>1. Latest(S) \in S /\ \A y \in S : Latest(S) >= y
  BY DEF Latest
<1>2. Latest(S) \in Nat /\ m \in Nat /\ m >= Latest(S) /\ Latest(S) >= m
  BY <1>1
<1> QED
  BY <1>2

LEMMA LatestOf ==
    ASSUME NEW N \in Nat, NEW S \in SUBSET (1..N), S # {}
    PROVE  Latest(S) \in S /\ Latest(S) \in 1..N /\ S \ {Latest(S)} \in SUBSET (1..N)
<1> DEFINE U == {k \in 0..N : \A y \in S : k >= y}
<1>0. \A y \in S : y \in Nat /\ y > 0 /\ N >= y
  OBVIOUS
<1>1. U \in SUBSET Nat /\ N \in U
  BY <1>0
<1>2. PICK k \in U : \A z \in U : k <= z
  <2> HIDE DEF U
  <2> QED
    BY <1>1, LeastElement
<1>3. k \in Nat /\ k <= N /\ \A y \in S : k >= y
  <2>1. k \in U
    BY <1>2
  <2>2. k \in 0..N /\ \A y \in S : k >= y
    BY <2>1
  <2> QED
    BY <2>2
<1>4. k > 0
  <2>1. PICK y \in S : TRUE
    OBVIOUS
  <2>2. y \in Nat /\ y > 0 /\ k >= y
    BY <1>0, <1>3
  <2> HIDE DEF U
  <2> QED
    BY <1>3, <2>2
<1>5. k \in S
  <2> SUFFICES ASSUME k \notin S PROVE FALSE
    OBVIOUS
  <2>1. \A y \in S : k - 1 >= y
    BY <1>0, <1>3
  <2>2. k - 1 \in U
    BY <1>3, <1>4, <2>1
  <2> QED
    BY <1>2, <1>3, <2>2
<1>6. Latest(S) \in S
  BY <1>3, <1>5 DEF Latest
<1> QED
  BY <1>6

\* A fold takes the latest index first; st[<<i, v>>] is what element i makes of v.
Folds(f, b, st, D) ==
    \A S \in SUBSET D : f[S] = IF S = {} THEN b ELSE st[<<Latest(S), f[S \ {Latest(S)}]>>]

LEMMA FoldExists ==
    ASSUME NEW V, NEW b \in V, NEW N \in Nat, NEW st \in [(1..N) \X V -> V]
    PROVE  \E f \in [SUBSET (1..N) -> V] : Folds(f, b, st, 1..N)
<1> DEFINE Done(n) == \E f \in [SUBSET (1..n) -> V] : Folds(f, b, st, 1..n)
           T == {n \in Nat : n <= N => Done(n)}
<1> HIDE DEF Done
<1>1. 0 \in T
  <2> DEFINE f == [S \in SUBSET (1..0) |-> b]
  <2>1. \A S \in SUBSET (1..0) : S = {}
    OBVIOUS
  <2>2. f \in [SUBSET (1..0) -> V] /\ Folds(f, b, st, 1..0)
    BY <2>1 DEF Folds
  <2>3. Done(0)
    BY <2>2, Zenon DEF Done
  <2> QED
    BY <2>3
<1>2. ASSUME NEW n \in T PROVE n + 1 \in T
  <2>1. n \in Nat /\ (n <= N => Done(n))
    BY <1>2
  <2> SUFFICES ASSUME n + 1 <= N
               PROVE  Done(n + 1)
    BY <2>1
  <2>0. n <= N
    BY <2>1
  <2>2. PICK f \in [SUBSET (1..n) -> V] : Folds(f, b, st, 1..n)
    BY <2>0, <2>1, Zenon DEF Done
  <2> DEFINE g == [S \in SUBSET (1..n + 1) |->
                     IF n + 1 \in S THEN st[<<n + 1, f[S \ {n + 1}]>>] ELSE f[S]]
  <2>3. \A S \in SUBSET (1..n + 1) : S \ {n + 1} \in SUBSET (1..n) /\ (n + 1 \notin S => S \in SUBSET (1..n))
    BY <2>1
  <2>4. n + 1 \in 1..N
    BY <2>1
  <2>5. g \in [SUBSET (1..n + 1) -> V]
    BY <2>2, <2>3, <2>4
  <2>6. ASSUME NEW S \in SUBSET (1..n + 1)
        PROVE  g[S] = IF S = {} THEN b ELSE st[<<Latest(S), g[S \ {Latest(S)}]>>]
    <3>1. CASE n + 1 \in S
      <4>1. Latest(S) = n + 1
        <5>1. S \subseteq Nat /\ \A y \in S : n + 1 >= y
          BY <2>1
        <5> QED
          BY <3>1, <5>1, LatestIs
      <4>2. g[S \ {n + 1}] = f[S \ {n + 1}]
        BY <2>3
      <4> QED
        BY <3>1, <4>1, <4>2
    <3>2. CASE n + 1 \notin S
      <4>1. S \in SUBSET (1..n) /\ g[S] = f[S]
        BY <2>3, <3>2
      <4>2. g[S \ {Latest(S)}] = f[S \ {Latest(S)}]
        BY <3>2, <4>1
      <4> QED
        BY <2>2, <4>1, <4>2 DEF Folds
    <3> QED
      BY <3>1, <3>2
  <2>7. Folds(g, b, st, 1..n + 1)
    BY <2>6, Zenon DEF Folds
  <2> QED
    BY <2>5, <2>7, Zenon DEF Done
<1>3. \A n \in Nat : n \in T
  <2>1. T \in SUBSET Nat
    OBVIOUS
  <2> HIDE DEF T
  <2> QED
    BY <1>1, <1>2, <2>1, EveryNatural
<1>4. Done(N)
  BY <1>3
<1> QED
  BY <1>4, Zenon DEF Done

----------------------------------------------------------------------------
(* What a run of input events leaves pressed.                              *)

Presses == Input!Inputs
Events == Input!Event

LEMMA EventKinds ==
    ASSUME NEW e \in Events
    PROVE  \/ e[1] = "down" /\ e[2] \in Presses /\ e = <<"down", e[2]>>
           \/ e[1] = "up" /\ e[2] \in Presses /\ e = <<"up", e[2]>>
           \/ e[1] = "move" /\ \A k, x : k \in {"down", "up"} => e # <<k, x>>
BY DEF Events, Presses, Input!Event

Effect(p, e) == IF e[1] = "down" THEN p \cup {e[2]}
                ELSE IF e[1] = "up" THEN p \ {e[2]} ELSE p

Plays(f, p, s) ==
    f = [S \in SUBSET DOMAIN s |->
           IF S = {} THEN p ELSE Effect(f[S \ {Latest(S)}], s[Latest(S)])]

LEMMA AfterUnfolded ==
    ASSUME NEW s, NEW p
    PROVE  Input!After(p, s) = (CHOOSE f : Plays(f, p, s))[DOMAIN s]
BY DEF Input!After, Input!FoldLeft, Input!MapThenFoldSet, Input!Max, Latest, Plays, Effect

\* x is pressed after the first n events of s.
Pressed(p, s, n, x) ==
    \/ x \in p /\ \A i \in 1..n : s[i] # <<"up", x>>
    \/ \E i \in 1..n : s[i] = <<"down", x>> /\ \A j \in i + 1..n : s[j] # <<"up", x>>

LEMMA PressedNext ==
    ASSUME NEW p \in SUBSET Presses, NEW s \in Seq(Events), NEW n \in Nat, n + 1 <= Len(s)
    PROVE  {x \in Presses : Pressed(p, s, n + 1, x)}
             = Effect({x \in Presses : Pressed(p, s, n, x)}, s[n + 1])
<1> DEFINE e == s[n + 1]
<1>1. e \in Events /\ n + 1 \in 1..n + 1
  BY ElementOfSeq
<1>2. \A i \in 1..n + 1 : i \in 1..n \/ i = n + 1
  OBVIOUS
<1>3. \A i \in 1..n : i \in 1..n + 1 /\ (\A j \in i + 1..n + 1 : j \in i + 1..n \/ j = n + 1)
                      /\ n + 1 \in i + 1..n + 1 /\ \A j \in i + 1..n : j \in i + 1..n + 1
  OBVIOUS
<1>4. \A j \in n + 1 + 1..n + 1 : FALSE
  OBVIOUS
<1> HIDE DEF e
<1>5. ASSUME NEW x \in Presses
      PROVE  Pressed(p, s, n + 1, x)
               <=> e = <<"down", x>> \/ (e # <<"up", x>> /\ Pressed(p, s, n, x))
  <2>1. ASSUME Pressed(p, s, n + 1, x), e # <<"down", x>>
        PROVE  e # <<"up", x>> /\ Pressed(p, s, n, x)
    BY <1>1, <1>2, <1>3, <2>1 DEF Pressed, e
  <2>2. ASSUME e = <<"down", x>> PROVE Pressed(p, s, n + 1, x)
    BY <1>1, <1>4, <2>2 DEF Pressed, e
  <2>3. ASSUME e # <<"up", x>>, Pressed(p, s, n, x) PROVE Pressed(p, s, n + 1, x)
    BY <1>1, <1>2, <1>3, <2>3 DEF Pressed, e
  <2> QED
    BY <2>1, <2>2, <2>3
<1>6. CASE e[1] = "down" /\ e = <<"down", e[2]>> /\ e[2] \in Presses
  <2>1. \A x \in Presses : Pressed(p, s, n + 1, x) <=> x = e[2] \/ Pressed(p, s, n, x)
    BY <1>5, <1>6
  <2> QED
    BY <1>6, <2>1 DEF Effect, e
<1>7. CASE e[1] = "up" /\ e = <<"up", e[2]>> /\ e[2] \in Presses
  <2>1. \A x \in Presses : Pressed(p, s, n + 1, x) <=> x # e[2] /\ Pressed(p, s, n, x)
    BY <1>5, <1>7
  <2> QED
    BY <1>7, <2>1 DEF Effect, e
<1>8. CASE e[1] = "move" /\ \A k, x : k \in {"down", "up"} => e # <<k, x>>
  <2>1. \A x \in Presses : Pressed(p, s, n + 1, x) <=> Pressed(p, s, n, x)
    BY <1>5, <1>8
  <2> QED
    BY <1>8, <2>1 DEF Effect, e
<1> QED
  BY <1>1, <1>6, <1>7, <1>8, EventKinds

LEMMA AfterIs ==
    ASSUME NEW p \in SUBSET Presses, NEW s \in Seq(Events)
    PROVE  Input!After(p, s) = {x \in Presses : Pressed(p, s, Len(s), x)}
<1> DEFINE N == Len(s)
           V == SUBSET Presses
           st == [a \in (1..N) \X V |-> Effect(a[2], s[a[1]])]
           Is(n) == {x \in Presses : Pressed(p, s, n, x)}
<1>1. N \in Nat /\ DOMAIN s = 1..N /\ \A i \in 1..N : s[i] \in Events
  BY ElementOfSeq
<1>2. st \in [(1..N) \X V -> V]
  <2>1. ASSUME NEW i \in 1..N, NEW v \in V PROVE Effect(v, s[i]) \in V
    BY <1>1, <2>1, EventKinds DEF Effect
  <2> QED
    BY <2>1
<1>3. \A i \in 1..N, v \in V : st[<<i, v>>] = Effect(v, s[i])
  OBVIOUS
<1>4. p \in V
  OBVIOUS
<1> HIDE DEF st, N, V
<1>5. PICK f \in [SUBSET (1..N) -> V] : Folds(f, p, st, 1..N)
  BY <1>1, <1>2, <1>4, FoldExists
<1>6. ASSUME NEW S \in SUBSET (1..N), S # {}
      PROVE  Latest(S) \in 1..N /\ S \ {Latest(S)} \in SUBSET (1..N)
  BY <1>1, <1>6, LatestOf
<1>7. Plays(f, p, s)
  <2>1. ASSUME NEW S \in SUBSET (1..N)
        PROVE  f[S] = IF S = {} THEN p ELSE Effect(f[S \ {Latest(S)}], s[Latest(S)])
    <3>1. CASE S = {}
      BY <1>5, <3>1 DEF Folds
    <3>2. CASE S # {}
      <4>1. Latest(S) \in 1..N /\ f[S \ {Latest(S)}] \in V
        BY <1>5, <1>6, <3>2
      <4>2. f[S] = st[<<Latest(S), f[S \ {Latest(S)}]>>]
        BY <1>5, <3>2 DEF Folds
      <4> QED
        BY <1>3, <3>2, <4>1, <4>2
    <3> QED
      BY <3>1, <3>2
  <2> QED
    BY <1>1, <2>1 DEF Plays
<1> DEFINE g == CHOOSE h : Plays(h, p, s)
<1>8. Plays(g, p, s)
  BY <1>7, Zenon
<1> HIDE DEF g
<1>9. g[{}] = p /\ \A n \in 0..N - 1 : g[1..n + 1] = Effect(g[1..n], s[n + 1])
  <2>1. \A S \in SUBSET (1..N) :
          g[S] = IF S = {} THEN p ELSE Effect(g[S \ {Latest(S)}], s[Latest(S)])
    BY <1>1, <1>8 DEF Plays
  <2>2. ASSUME NEW n \in 0..N - 1 PROVE g[1..n + 1] = Effect(g[1..n], s[n + 1])
    <3>1. 1..n + 1 \in SUBSET (1..N) /\ n + 1 \in 1..n + 1 /\ 1..n + 1 \subseteq Nat
          /\ \A y \in 1..n + 1 : n + 1 >= y
      BY <1>1
    <3>2. Latest(1..n + 1) = n + 1
      BY <3>1, LatestIs
    <3>3. (1..n + 1) \ {n + 1} = 1..n
      BY <1>1
    <3> QED
      BY <2>1, <3>1, <3>2, <3>3
  <2>3. g[{}] = p
    BY <2>1
  <2> QED
    BY <2>2, <2>3
<1> DEFINE T == {n \in Nat : n <= N => g[1..n] = Is(n)}
<1>10. 0 \in T
  <2>1. 1..0 = {}
    OBVIOUS
  <2>2. Is(0) = p
    BY DEF Pressed
  <2> QED
    BY <1>9, <2>1, <2>2
<1>11. ASSUME NEW n \in T PROVE n + 1 \in T
  <2>1. n \in Nat /\ (n <= N => g[1..n] = Is(n))
    OBVIOUS
  <2> SUFFICES ASSUME n + 1 <= N PROVE g[1..n + 1] = Is(n + 1)
    BY <2>1
  <2>2. g[1..n] = Is(n) /\ n \in 0..N - 1
    BY <1>1, <2>1
  <2>3. Is(n + 1) = Effect(Is(n), s[n + 1])
    BY <2>1, PressedNext DEF N
  <2> QED
    BY <1>9, <2>2, <2>3
<1>12. g[1..N] = Is(N)
  <2>1. T \in SUBSET Nat
    OBVIOUS
  <2> HIDE DEF T
  <2>2. N \in T
    BY <1>1, <1>10, <1>11, <2>1, EveryNatural
  <2> QED
    BY <1>1, <2>2 DEF T
<1> QED
  BY <1>1, <1>12, AfterUnfolded DEF g, N

----------------------------------------------------------------------------
(* The ups of a batch.                                                     *)

Keeps(v, e) == IF e[1] = "up" THEN Append(v, e) ELSE v

Collects(f, s) ==
    f = [S \in SUBSET DOMAIN s |->
           IF S = {} THEN <<>> ELSE Keeps(f[S \ {Latest(S)}], s[Latest(S)])]

LEMMA UpsUnfolded ==
    ASSUME NEW s
    PROVE  Input!Ups(s) = (CHOOSE f : Collects(f, s))[DOMAIN s]
BY DEF Input!Ups, Input!FoldLeft, Input!MapThenFoldSet, Input!Max, Latest, Collects, Keeps

UpEvents == {e \in Events : e[1] = "up"}

\* Every up of a batch is among them, and nothing else.
LEMMA UpsAre ==
    ASSUME NEW s \in Seq(Events)
    PROVE  /\ Input!Ups(s) \in Seq(UpEvents)
           /\ \A i \in 1..Len(s) : s[i][1] = "up" =>
                 \E j \in 1..Len(Input!Ups(s)) : Input!Ups(s)[j] = s[i]
<1> DEFINE N == Len(s)
           V == Seq(UpEvents)
           st == [a \in (1..N) \X V |-> Keeps(a[2], s[a[1]])]
           Has(v, n) == \A i \in 1..n : s[i][1] = "up" => \E j \in 1..Len(v) : v[j] = s[i]
<1>1. N \in Nat /\ DOMAIN s = 1..N /\ \A i \in 1..N : s[i] \in Events
  BY ElementOfSeq
<1>20. ASSUME NEW i \in 1..N, NEW v \in V PROVE Keeps(v, s[i]) \in V
  <2>1. CASE s[i][1] = "up"
    <3>1. s[i] \in UpEvents
      BY <1>1, <2>1 DEF UpEvents
    <3> QED
      BY <2>1, <3>1, AppendProperties DEF Keeps
  <2>2. CASE s[i][1] # "up"
    BY <2>2 DEF Keeps
  <2> QED
    BY <2>1, <2>2
<1>2. st \in [(1..N) \X V -> V]
  <2> HIDE DEF N, V
  <2> QED
    BY <1>20
<1>3. \A i \in 1..N, v \in V : st[<<i, v>>] = Keeps(v, s[i])
  <2> HIDE DEF N, V
  <2> QED
    OBVIOUS
<1>4. <<>> \in V
  BY EmptySeq
<1> HIDE DEF st, N, V
<1>5. PICK f \in [SUBSET (1..N) -> V] : Folds(f, <<>>, st, 1..N)
  BY <1>1, <1>2, <1>4, FoldExists
<1>6. ASSUME NEW S \in SUBSET (1..N), S # {}
      PROVE  Latest(S) \in 1..N /\ S \ {Latest(S)} \in SUBSET (1..N)
  BY <1>1, <1>6, LatestOf
<1>7. Collects(f, s)
  <2>1. ASSUME NEW S \in SUBSET (1..N)
        PROVE  f[S] = IF S = {} THEN <<>> ELSE Keeps(f[S \ {Latest(S)}], s[Latest(S)])
    <3>1. CASE S = {}
      BY <1>5, <3>1 DEF Folds
    <3>2. CASE S # {}
      <4>1. Latest(S) \in 1..N /\ f[S \ {Latest(S)}] \in V
        BY <1>5, <1>6, <3>2
      <4>2. f[S] = st[<<Latest(S), f[S \ {Latest(S)}]>>]
        BY <1>5, <3>2 DEF Folds
      <4> QED
        BY <1>3, <3>2, <4>1, <4>2
    <3> QED
      BY <3>1, <3>2
  <2> QED
    BY <1>1, <2>1 DEF Collects
<1> DEFINE g == CHOOSE h : Collects(h, s)
<1>8. Collects(g, s)
  BY <1>7, Zenon
<1> HIDE DEF g
<1>9. g[{}] = <<>> /\ \A n \in 0..N - 1 : g[1..n + 1] = Keeps(g[1..n], s[n + 1])
  <2>1. \A S \in SUBSET (1..N) :
          g[S] = IF S = {} THEN <<>> ELSE Keeps(g[S \ {Latest(S)}], s[Latest(S)])
    BY <1>1, <1>8 DEF Collects
  <2>2. ASSUME NEW n \in 0..N - 1 PROVE g[1..n + 1] = Keeps(g[1..n], s[n + 1])
    <3>1. 1..n + 1 \in SUBSET (1..N) /\ n + 1 \in 1..n + 1 /\ 1..n + 1 \subseteq Nat
          /\ \A y \in 1..n + 1 : n + 1 >= y
      BY <1>1
    <3>2. Latest(1..n + 1) = n + 1
      BY <3>1, LatestIs
    <3>3. (1..n + 1) \ {n + 1} = 1..n
      BY <1>1
    <3> QED
      BY <2>1, <3>1, <3>2, <3>3
  <2>3. g[{}] = <<>>
    BY <2>1
  <2> QED
    BY <2>2, <2>3
<1> HIDE DEF Has
<1> DEFINE T == {n \in Nat : n <= N => g[1..n] \in V /\ Has(g[1..n], n)}
<1>10. 0 \in T
  <2>1. 1..0 = {}
    OBVIOUS
  <2>2. g[1..0] \in V /\ Has(g[1..0], 0)
    BY <1>4, <1>9, <2>1 DEF Has
  <2> QED
    BY <2>2
<1>11. ASSUME NEW n \in T PROVE n + 1 \in T
  <2>1. n \in Nat /\ (n <= N => g[1..n] \in V /\ Has(g[1..n], n))
    OBVIOUS
  <2> SUFFICES ASSUME n + 1 <= N PROVE g[1..n + 1] \in V /\ Has(g[1..n + 1], n + 1)
    BY <2>1
  <2>2. g[1..n] \in V /\ Has(g[1..n], n) /\ n \in 0..N - 1 /\ n + 1 \in 1..N
    BY <1>1, <2>1
  <2>3. g[1..n + 1] = Keeps(g[1..n], s[n + 1]) /\ g[1..n + 1] \in V
    BY <1>9, <1>20, <2>2
  <2>4. \A v \in V, e \in UpEvents : /\ Len(Append(v, e)) = Len(v) + 1 /\ Append(v, e)[Len(v) + 1] = e
                                     /\ \A j \in 1..Len(v) : Append(v, e)[j] = v[j]
                                     /\ Len(v) \in Nat
    BY AppendProperties DEF V
  <2>5. \A i \in 1..n + 1 : i \in 1..n \/ i = n + 1
    BY <2>1
  <2>6. CASE s[n + 1][1] = "up"
    <3> DEFINE v == g[1..n]
    <3>1. s[n + 1] \in UpEvents /\ g[1..n + 1] = Append(v, s[n + 1])
      BY <1>1, <2>2, <2>3, <2>6 DEF Keeps, UpEvents
    <3>2. \A j \in 1..Len(v) : j \in 1..Len(g[1..n + 1]) /\ g[1..n + 1][j] = v[j]
      BY <2>2, <2>4, <3>1
    <3>3. Len(v) + 1 \in 1..Len(g[1..n + 1]) /\ g[1..n + 1][Len(v) + 1] = s[n + 1]
      BY <2>2, <2>4, <3>1
    <3>4. Has(g[1..n + 1], n + 1)
      <4> HIDE DEF v
      <4>1. Has(v, n)
        BY <2>2 DEF v
      <4> QED
        BY <2>5, <3>2, <3>3, <4>1 DEF Has
    <3> QED
      BY <2>3, <3>4
  <2>7. CASE s[n + 1][1] # "up"
    <3>1. g[1..n + 1] = g[1..n]
      BY <2>3, <2>7 DEF Keeps
    <3>2. Has(g[1..n], n + 1)
      BY <2>2, <2>5, <2>7 DEF Has
    <3> QED
      BY <2>3, <3>1, <3>2
  <2> QED
    BY <2>6, <2>7
<1>12. g[1..N] \in V /\ Has(g[1..N], N)
  <2>1. T \in SUBSET Nat
    OBVIOUS
  <2> HIDE DEF T
  <2>2. N \in T
    BY <1>1, <1>10, <1>11, <2>1, EveryNatural
  <2> QED
    BY <1>1, <2>2 DEF T
<1>13. Input!Ups(s) = g[1..N]
  BY <1>1, UpsUnfolded DEF g
<1> QED
  BY <1>12, <1>13 DEF V, N, Has

----------------------------------------------------------------------------
(* The port of the Settings window: the list and the names behind it go    *)
(* together, so a pick is what its label said.                             *)
PortsInv == choices = coms /\ Ports!FieldIsTheChoice

LEMMA PortsStart == ASSUME Ports!Init PROVE PortsInv
BY DEF Ports!Init, PortsInv, Ports!FieldIsTheChoice

LEMMA PortsKept ==
    ASSUME PortsInv, Ports!Next \/ UNCHANGED ports
    PROVE  PortsInv'
<1> USE DEF PortsInv, Ports!FieldIsTheChoice
<1>1. ASSUME NEW s \in Sockets, NEW k \in Ports!Kinds, Ports!Plug(s, k) PROVE PortsInv'
  BY <1>1 DEF Ports!Plug, Ports!Dialog
<1>2. ASSUME NEW i \in DOMAIN plugged, Ports!Unplug(i) PROVE PortsInv'
  BY <1>2 DEF Ports!Unplug, Ports!Dialog
<1>3. CASE Ports!show
  BY <1>3 DEF Ports!show, Ports!set_port_choices
<1>4. CASE Ports!handle_detect
  BY <1>4 DEF Ports!handle_detect, Ports!set_port_choices
<1>5. ASSUME NEW i \in DOMAIN choices, Ports!PickFromList(i) PROVE PortsInv'
  BY <1>5 DEF Ports!PickFromList, Ports!selected_port_com
<1>6. ASSUME NEW p, Ports!Type(p) PROVE PortsInv'
  BY <1>6 DEF Ports!Type
<1>7. CASE Ports!read_form
  BY <1>7 DEF Ports!read_form, Ports!Dialog
<1>8. ASSUME NEW cli, NEW parses, NEW lists, Ports!wd(cli, parses, lists) PROVE PortsInv'
  BY <1>8 DEF Ports!wd, Ports!Dialog
<1>9. CASE UNCHANGED ports
  BY <1>9 DEF ports
<1> QED
  BY <1>1, <1>2, <1>3, <1>4, <1>5, <1>6, <1>7, <1>8, <1>9 DEF Ports!Next

----------------------------------------------------------------------------
(* The browser: once a launch went through, the worker never comes back to *)
(* one.                                                                    *)
StartupInv ==
    /\ chromes \in {<<>>, <<"own">>}
    /\ chromes # <<>> => launched /\ worker \in {"again", "wait", "done"}

LEMMA StartupStarts == ASSUME Startup!Init PROVE StartupInv
BY DEF Startup!Init, StartupInv

LEMMA StartupKept ==
    ASSUME StartupInv, [Startup!Next]_startup
    PROVE  StartupInv'
<1> USE DEF StartupInv, Startup!World
<1>1. CASE Startup!start
  BY <1>1 DEF Startup!start
<1>2. CASE Startup!Check
  BY <1>2 DEF Startup!Check
<1>3. CASE Startup!launch
  <2>1. chromes = <<>>
    BY <1>3 DEF Startup!launch
  <2>2. Append(<<>>, "own") = <<"own">>
    OBVIOUS
  <2> QED
    BY <1>3, <2>1, <2>2 DEF Startup!launch, Startup!ensure_unelevated
<1>4. CASE Startup!Again
  BY <1>4 DEF Startup!Again, Startup!GivesUpRetrying
<1>5. CASE Startup!SleepOver
  BY <1>5 DEF Startup!SleepOver
<1>6. CASE Startup!Wait
  BY <1>6 DEF Startup!Wait
<1>7. ASSUME NEW e, Startup!ExplorerChanges(e) PROVE StartupInv'
  BY <1>7 DEF Startup!ExplorerChanges
<1>8. CASE Startup!PortChanges
  BY <1>8 DEF Startup!PortChanges
<1>9. CASE UNCHANGED startup
  BY <1>9 DEF startup
<1> QED
  BY <1>1, <1>2, <1>3, <1>4, <1>5, <1>6, <1>7, <1>8, <1>9
     DEF Startup!Next, Startup!WorkerThread

LEMMA OneBrowser == ASSUME StartupInv PROVE Startup!OneBrowserOfTheUser
<1>1. CASE chromes = <<>>
  BY <1>1 DEF Startup!OneBrowserOfTheUser
<1>2. CASE chromes = <<"own">>
  <2>1. Len(chromes) = 1 /\ chromes[1] = "own" /\ \A i \in DOMAIN chromes : i = 1
    BY <1>2
  <2> QED
    BY <2>1 DEF Startup!OneBrowserOfTheUser
<1> QED
  BY <1>1, <1>2 DEF StartupInv

----------------------------------------------------------------------------
(* The file clipboard: who is in a call holds the lock, who has the        *)
(* clipboard open is between opening and closing it, and a block is owned  *)
(* while it waits for SetClipboardData.                                    *)
FilesInv ==
    /\ pc \in [Files!Threads -> {"idle", "in", "probe", "read", "filled", "opened", "emptied"}]
    /\ \A t \in Files!Threads : pc[t] # "idle" => lock = t
    /\ open = "poll" => pc["poll"] = "read"
    /\ open = "reader" => pc["reader"] \in {"opened", "emptied"}
    /\ ours => pc["reader"] \in {"filled", "opened", "emptied"}
    /\ intact

LEMMA FilesStart == ASSUME Files!Init PROVE FilesInv
BY DEF Files!Init, FilesInv, Files!Threads

LEMMA FilesKept ==
    ASSUME FilesInv, Files!Next \/ UNCHANGED files
    PROVE  FilesInv'
<1> USE DEF FilesInv, Files!Threads, Files!At, Files!Leaves
<1>1. ASSUME NEW t \in Files!Threads, Files!Enter(t) PROVE FilesInv'
  BY <1>1 DEF Files!Enter, Files!hold
<1>2. CASE Files!Unchanged
  BY <1>2 DEF Files!Unchanged
<1>3. CASE Files!poll_file_url
  BY <1>3 DEF Files!poll_file_url
<1>4. CASE Files!OpenForRead
  BY <1>4 DEF Files!OpenForRead
<1>5. CASE Files!poll_cf_hdrop
  BY <1>5 DEF Files!poll_cf_hdrop
<1>6. CASE Files!Alloc
  BY <1>6 DEF Files!Alloc
<1>7. CASE Files!OpenForWrite
  BY <1>7 DEF Files!OpenForWrite
<1>8. CASE Files!EmptyClipboard
  BY <1>8 DEF Files!EmptyClipboard
<1>9. CASE Files!set_file_url
  BY <1>9 DEF Files!set_file_url, Files!HandedOver
<1>10. ASSUME NEW c, Files!Copy(c) PROVE FilesInv'
  BY <1>10 DEF Files!Copy
<1>11. CASE Files!OtherOpens
  BY <1>11 DEF Files!OtherOpens
<1>12. CASE UNCHANGED files
  BY <1>12 DEF files
<1> QED
  BY <1>1, <1>2, <1>3, <1>4, <1>5, <1>6, <1>7, <1>8, <1>9, <1>10, <1>11, <1>12 DEF Files!Next

LEMMA CallsEndClean == ASSUME FilesInv PROVE Files!CallsLeaveNothingBehind
<1> DEFINE Busy == {t \in Files!Threads : pc[t] # "idle"}
<1>1. Busy \in SUBSET {lock}
  BY DEF FilesInv
<1>2. Cardinality(Busy) <= 1
  <2> HIDE DEF Busy
  <2>1. IsFiniteSet({lock}) /\ Cardinality({lock}) = 1
    BY FS_Singleton, Zenon
  <2>2. Cardinality(Busy) <= Cardinality({lock})
    BY <1>1, <2>1, FS_Subset
  <2> QED
    BY <2>1, <2>2
<1>3. /\ \A t \in Files!Threads : pc[t] = "idle" => open # t
      /\ pc["reader"] = "idle" => ~ours
      /\ intact
  BY DEF FilesInv, Files!Threads
<1> QED
  BY <1>2, <1>3 DEF Files!CallsLeaveNothingBehind, Files!Cardinality, Cardinality

----------------------------------------------------------------------------
(* The batches: whatever one presses, it lets go of later on.              *)
Balanced(s) ==
    \A i \in 1..Len(s), x \in Presses :
        s[i] = <<"down", x>> => \E j \in i + 1..Len(s) : s[j] = <<"up", x>>

IsBatch(s) == s \in Seq(Events) /\ s # <<>> /\ Balanced(s)

LEMMA ClickIsBatch == ASSUME NEW b \in Buttons PROVE IsBatch(Input!Click(b))
<1> DEFINE s == <<<<"move">>, <<"down", b>>, <<"up", b>>>>
<1>1. b \in Presses /\ \A e \in {<<"move">>, <<"down", b>>, <<"up", b>>} : e \in Events
  BY DEF Presses, Input!Inputs, Events, Input!Event
<1>2. s \in Seq(Events) /\ Len(s) = 3 /\ s[1] = <<"move">> /\ s[2] = <<"down", b>> /\ s[3] = <<"up", b>>
  BY <1>1
<1> HIDE DEF s
<1>3. Balanced(s)
  <2>1. \A i \in 1..Len(s) : i = 1 \/ i = 2 \/ i = 3
    BY <1>2
  <2>2. 3 \in 2 + 1..Len(s)
    BY <1>2
  <2> QED
    BY <1>2, <2>1, <2>2 DEF Balanced
<1> QED
  BY <1>2, <1>3 DEF IsBatch, Input!Click, s

LEMMA DragIsBatch == ASSUME WorkAssumption PROVE IsBatch(Input!Drag)
<1> DEFINE b == LeftButton
           s == <<<<"move">>, <<"down", b>>, <<"move">>, <<"up", b>>>>
<1>0. b \in Buttons
  BY DEF WorkAssumption
<1>1. b \in Presses /\ \A e \in {<<"move">>, <<"down", b>>, <<"up", b>>} : e \in Events
  BY <1>0 DEF Presses, Input!Inputs, Events, Input!Event
<1>2. /\ s \in Seq(Events) /\ Len(s) = 4
      /\ s[1] = <<"move">> /\ s[2] = <<"down", b>> /\ s[3] = <<"move">> /\ s[4] = <<"up", b>>
  BY <1>1
<1> HIDE DEF s
<1>3. Balanced(s)
  <2>1. \A i \in 1..Len(s) : i = 1 \/ i = 2 \/ i = 3 \/ i = 4
    BY <1>2
  <2>2. 4 \in 2 + 1..Len(s)
    BY <1>2
  <2> QED
    BY <1>2, <2>1, <2>2 DEF Balanced
<1> QED
  BY <1>2, <1>3 DEF IsBatch, Input!Drag, s

LEMMA WheelIsBatch == IsBatch(Input!Wheel)
<1> DEFINE s == <<<<"move">>, <<"move">>>>
<1>1. <<"move">> \in Events
  BY DEF Events, Input!Event
<1>2. s \in Seq(Events) /\ Len(s) = 2 /\ s[1] = <<"move">> /\ s[2] = <<"move">>
  BY <1>1
<1> HIDE DEF s
<1>3. Balanced(s)
  <2>1. \A i \in 1..Len(s) : i = 1 \/ i = 2
    BY <1>2
  <2> QED
    BY <1>2, <2>1 DEF Balanced
<1> QED
  BY <1>2, <1>3 DEF IsBatch, Input!Wheel, s

LEMMA HeldModifiers ==
    ASSUME NEW S, IsFiniteSet(S)
    PROVE  /\ Cardinality(S) \in Nat
           /\ Input!SetToSeq(S) \in [1..Cardinality(S) -> S]
<1>1. PICK f : f \in Bijection(1..Cardinality(S), S)
  BY FS_CardinalityType DEF ExistsBijection
<1>2. f \in [1..Cardinality(S) -> S] /\ Input!IsInjective(f)
  BY <1>1 DEF Bijection, Injection, Surjection, Input!IsInjective, IsInjective
<1>3. Input!Cardinality(S) = Cardinality(S)
  BY DEF Input!Cardinality, Cardinality
<1>4. (CHOOSE h \in [1..Cardinality(S) -> S] : Input!IsInjective(h)) \in [1..Cardinality(S) -> S]
  BY <1>2, Zenon
<1> QED
  BY <1>3, <1>4, FS_CardinalityType DEF Input!SetToSeq

LEMMA Numbered ==
    ASSUME NEW S, NEW n \in Nat, NEW f \in [1..n -> S]
    PROVE  f \in Seq(S) /\ Len(f) = n
OBVIOUS

LEMMA Joined ==
    ASSUME NEW a \in Seq(Events), NEW b \in Seq(Events)
    PROVE  /\ a \o b \in Seq(Events)
           /\ Len(a \o b) = Len(a) + Len(b)
           /\ \A i \in 1..Len(a) : (a \o b)[i] = a[i]
           /\ \A i \in 1..Len(b) : (a \o b)[Len(a) + i] = b[i]
<1>1. Len(a) \in Nat /\ Len(b) \in Nat
  OBVIOUS
<1>2. /\ a \o b \in Seq(Events)
      /\ Len(a \o b) = Len(a) + Len(b)
      /\ \A i \in 1..Len(a) + Len(b) :
           (a \o b)[i] = IF i <= Len(a) THEN a[i] ELSE b[i - Len(a)]
  BY ConcatProperties
<1>3. ASSUME NEW i \in 1..Len(a) PROVE (a \o b)[i] = a[i]
  BY <1>1, <1>2
<1>4. ASSUME NEW i \in 1..Len(b) PROVE (a \o b)[Len(a) + i] = b[i]
  <2>1. Len(a) + i \in 1..Len(a) + Len(b) /\ ~(Len(a) + i <= Len(a)) /\ Len(a) + i - Len(a) = i
    BY <1>1
  <2> QED
    BY <1>2, <2>1
<1> QED
  BY <1>2, <1>3, <1>4

LEMMA KeyIsBatch ==
    ASSUME WorkAssumption, NEW k \in Keys, NEW mods \in SUBSET Modifiers
    PROVE  IsBatch(Input!Key(k, mods))
<1> DEFINE held == Input!SetToSeq(mods)
           n == Cardinality(mods)
           before == [i \in 1..n |-> <<"down", held[i]>>]
           key == <<<<"down", k>>, <<"up", k>>>>
           behind == [i \in 1..n |-> <<"up", held[n - i + 1]>>]
           s == before \o key \o behind
<1>1. n \in Nat /\ held \in [1..n -> mods]
  BY FS_Subset, HeldModifiers DEF WorkAssumption
<1> HIDE DEF held, n
<1>2. \A x \in mods \cup {k} : <<"down", x>> \in Events /\ <<"up", x>> \in Events
  BY DEF Events, Input!Event, Input!Inputs
<1>3. /\ before \in Seq(Events) /\ Len(before) = n
      /\ \A i \in 1..n : before[i] = <<"down", held[i]>>
  <2>1. \A i \in 1..n : held[i] \in mods
    BY <1>1
  <2>2. before \in [1..n -> Events]
    BY <1>2, <2>1
  <2>3. before \in Seq(Events) /\ Len(before) = n
    <3> HIDE DEF before
    <3> QED
      BY <1>1, <2>2, Numbered
  <2> QED
    BY <2>3
<1>4. /\ behind \in Seq(Events) /\ Len(behind) = n
      /\ \A i \in 1..n : behind[i] = <<"up", held[n - i + 1]>>
  <2>1. \A i \in 1..n : n - i + 1 \in 1..n
    BY <1>1
  <2>2. \A i \in 1..n : held[n - i + 1] \in mods
    BY <1>1, <2>1
  <2>3. behind \in [1..n -> Events]
    BY <1>2, <2>2
  <2>4. behind \in Seq(Events) /\ Len(behind) = n
    <3> HIDE DEF behind
    <3> QED
      BY <1>1, <2>3, Numbered
  <2> QED
    BY <2>4
<1>5. key \in Seq(Events) /\ Len(key) = 2 /\ key[1] = <<"down", k>> /\ key[2] = <<"up", k>>
  BY <1>2
<1> DEFINE head == before \o key
<1> HIDE DEF before, behind, key
<1>6. /\ head \in Seq(Events) /\ Len(head) = n + 2
      /\ \A i \in 1..n : head[i] = before[i]
      /\ \A i \in 1..2 : head[n + i] = key[i]
  <2>1. /\ head \in Seq(Events) /\ Len(head) = Len(before) + Len(key)
        /\ \A i \in 1..Len(before) : head[i] = before[i]
        /\ \A i \in 1..Len(key) : head[Len(before) + i] = key[i]
    <3>1. before \in Seq(Events) /\ key \in Seq(Events)
      BY <1>3, <1>5
    <3> QED
      BY <3>1, Joined
  <2> HIDE DEF head
  <2> QED
    BY <1>1, <1>3, <1>5, <2>1
<1> HIDE DEF head
<1>7. /\ head \o behind \in Seq(Events) /\ Len(head \o behind) = n + 2 + n
      /\ \A i \in 1..n + 2 : (head \o behind)[i] = head[i]
      /\ \A i \in 1..n : (head \o behind)[n + 2 + i] = behind[i]
  <2>1. /\ head \o behind \in Seq(Events) /\ Len(head \o behind) = Len(head) + Len(behind)
        /\ \A i \in 1..Len(head) : (head \o behind)[i] = head[i]
        /\ \A i \in 1..Len(behind) : (head \o behind)[Len(head) + i] = behind[i]
    <3>1. head \in Seq(Events) /\ behind \in Seq(Events)
      BY <1>4, <1>6
    <3> QED
      BY <3>1, Joined
  <2> QED
    BY <1>1, <1>4, <1>6, <2>1
<1>8. s = head \o behind
  BY DEF head
<1> HIDE DEF s
<1>9. Len(s) = n + 2 + n /\ s \in Seq(Events)
  BY <1>7, <1>8
<1>10. \A i \in 1..n : s[i] = <<"down", held[i]>> /\ s[n + 2 + i] = <<"up", held[n - i + 1]>>
  <2> SUFFICES ASSUME NEW i \in 1..n
               PROVE  s[i] = <<"down", held[i]>> /\ s[n + 2 + i] = <<"up", held[n - i + 1]>>
    OBVIOUS
  <2>1. s[i] = head[i] /\ head[i] = before[i]
    <3>1. i \in 1..n + 2
      BY <1>1
    <3> QED
      BY <1>6, <1>7, <1>8, <3>1
  <2>2. s[n + 2 + i] = behind[i]
    BY <1>7, <1>8
  <2> QED
    BY <1>3, <1>4, <2>1, <2>2
<1>11. s[n + 1] = <<"down", k>> /\ s[n + 2] = <<"up", k>>
  <2>1. n + 1 \in 1..n + 2 /\ n + 2 \in 1..n + 2 /\ 1 \in 1..2 /\ 2 \in 1..2
    BY <1>1
  <2>2. s[n + 1] = head[n + 1] /\ s[n + 2] = head[n + 2]
    BY <1>7, <1>8, <2>1
  <2>3. head[n + 1] = key[1] /\ head[n + 2] = key[2]
    BY <1>6, <2>1
  <2> QED
    BY <1>5, <2>2, <2>3
<1>12. Balanced(s)
  <2> SUFFICES ASSUME NEW i \in 1..Len(s), NEW x \in Presses, s[i] = <<"down", x>>
               PROVE  \E j \in i + 1..Len(s) : s[j] = <<"up", x>>
    BY DEF Balanced
  <2>1. CASE i \in 1..n
    <3>1. n - i + 1 \in 1..n /\ n - (n - i + 1) + 1 = i
      BY <1>1, <2>1
    <3>2. s[n + 2 + (n - i + 1)] = <<"up", held[i]>> /\ held[i] = x
      BY <1>10, <2>1, <3>1
    <3>3. n + 2 + (n - i + 1) \in i + 1..Len(s)
      BY <1>1, <1>9, <2>1
    <3> QED
      BY <3>2, <3>3
  <2>2. CASE i = n + 1
    <3>1. n + 2 \in i + 1..Len(s) /\ x = k
      BY <1>1, <1>9, <1>11, <2>2
    <3> QED
      BY <1>11, <3>1
  <2>3. CASE i = n + 2
    BY <1>11, <2>3
  <2>4. CASE i \notin 1..n /\ i # n + 1 /\ i # n + 2
    <3>1. i - (n + 2) \in 1..n /\ n + 2 + (i - (n + 2)) = i
      BY <1>1, <1>9, <2>4
    <3>2. s[i] = <<"up", held[n - (i - (n + 2)) + 1]>>
      BY <1>10, <3>1
    <3> QED
      BY <3>2
  <2> QED
    BY <2>1, <2>2, <2>3, <2>4
<1>13. Input!Key(k, mods) = s
  <2>1. DOMAIN held = 1..n /\ Len(held) = n
    BY <1>1
  <2>2. Input!Reverse(held) = [i \in 1..n |-> held[n - i + 1]]
    BY <2>1 DEF Input!Reverse
  <2>3. [i \in DOMAIN held |-> <<"up", Input!Reverse(held)[i]>>] = behind
    BY <2>1, <2>2 DEF behind
  <2>4. [i \in DOMAIN held |-> <<"down", held[i]>>] = before
    BY <2>1 DEF before
  <2> QED
    BY <2>3, <2>4 DEF Input!Key, s, held, key
<1>14. s # <<>>
  BY <1>1, <1>9
<1> QED
  BY <1>9, <1>12, <1>13, <1>14 DEF IsBatch

LEMMA EveryBatch == ASSUME WorkAssumption, NEW b \in Input!Batches PROVE IsBatch(b)
BY ClickIsBatch, DragIsBatch, WheelIsBatch, KeyIsBatch DEF Input!Batches

----------------------------------------------------------------------------
(* What the session and a failed release answer for covers what is         *)
(* pressed; while the ups of a cut batch wait, so do its accepted downs.   *)
Pushed(s) == Input!After({}, s)

GdiAt ==
    [idle |-> {}, desktop |-> {}, memory |-> {"desktop"}, bitmap |-> {"desktop", "memory"},
     select |-> {"desktop", "memory", "bitmap"}, delete |-> {"desktop", "memory", "bitmap"}]

InputTypes ==
    /\ down \subseteq Presses /\ session \subseteq Presses /\ stuck \subseteq Presses
    /\ batch = <<>> \/ IsBatch(batch)

PressedIsAnswered == rest = <<>> => down \subseteq session \cup stuck

CutIsAnswered ==
    rest # <<>> =>
      /\ IsBatch(batch)
      /\ \E n \in 0..Len(batch) :
           /\ rest = <<Input!Ups(batch), SubSeq(batch, 1, n)>>
           /\ down \subseteq session \cup stuck \cup Pushed(SubSeq(batch, 1, n))

HandlesFollow == stage \in DOMAIN GdiAt /\ handles \subseteq GdiAt[stage]

InputInv == InputTypes /\ PressedIsAnswered /\ CutIsAnswered /\ HandlesFollow

LEMMA InputStarts == ASSUME Input!Init PROVE InputInv
BY DEF Input!Init, InputInv, InputTypes, PressedIsAnswered, CutIsAnswered, HandlesFollow, GdiAt

LEMMA InputIsGood == ASSUME InputInv PROVE Input!BatchLetsGo /\ Input!HandlesReturned
<1>1. Input!BatchLetsGo
  BY DEF InputInv, PressedIsAnswered, CutIsAnswered, IsBatch, Input!BatchLetsGo
<1>2. Input!HandlesReturned
  BY DEF InputInv, HandlesFollow, GdiAt, Input!HandlesReturned
<1> QED
  BY <1>1, <1>2

LEMMA Prefix ==
    ASSUME NEW s \in Seq(Events), NEW n \in 0..Len(s)
    PROVE  /\ SubSeq(s, 1, n) \in Seq(Events) /\ Len(SubSeq(s, 1, n)) = n
           /\ \A i \in 1..n : SubSeq(s, 1, n)[i] = s[i]
<1>1. Len(s) \in Nat /\ n \in Nat /\ n <= Len(s) /\ \A i \in 1..Len(s) : s[i] \in Events
  BY ElementOfSeq
<1>2. \A i \in 1..n : s[i] \in Events
  BY <1>1
<1>3. /\ SubSeq(s, 1, n) \in Seq(Events)
      /\ Len(SubSeq(s, 1, n)) = IF 1 <= n THEN n - 1 + 1 ELSE 0
      /\ \A i \in 1..n - 1 + 1 : SubSeq(s, 1, n)[i] = s[1 + i - 1]
  BY <1>1, <1>2, SubSeqProperties
<1>4. Len(SubSeq(s, 1, n)) = n
  BY <1>1, <1>3
<1>5. n - 1 + 1 = n /\ \A i \in 1..n : 1 + i - 1 = i
  BY <1>1
<1> QED
  BY <1>3, <1>4, <1>5

\* What is pressed after some events was pressed before or by them.
LEMMA AfterSplits ==
    ASSUME NEW p \in SUBSET Presses, NEW s \in Seq(Events)
    PROVE  /\ Input!After(p, s) \subseteq p \cup Pushed(s)
           /\ Input!After(p, s) \subseteq Presses /\ Pushed(s) \subseteq Presses
<1>1. Input!After(p, s) = {x \in Presses : Pressed(p, s, Len(s), x)}
  BY AfterIs
<1>2. Pushed(s) = {x \in Presses : Pressed({}, s, Len(s), x)}
  BY AfterIs DEF Pushed
<1>3. \A x : Pressed(p, s, Len(s), x) => x \in p \/ Pressed({}, s, Len(s), x)
  BY DEF Pressed
<1> QED
  BY <1>1, <1>2, <1>3

\* A whole batch leaves nothing pressed.
LEMMA BatchPushesNothing == ASSUME NEW s, IsBatch(s) PROVE Pushed(s) = {}
<1>1. s \in Seq(Events) /\ Len(s) \in Nat
  BY DEF IsBatch
<1>2. Pushed(s) = {x \in Presses : Pressed({}, s, Len(s), x)}
  BY <1>1, AfterIs DEF Pushed
<1>3. \A x \in Presses : ~Pressed({}, s, Len(s), x)
  BY DEF Pressed, IsBatch, Balanced
<1> QED
  BY <1>2, <1>3, Zenon

\* Nor do all of its ups after a part of it.
LEMMA UpsLetGo ==
    ASSUME NEW s, IsBatch(s), NEW n \in 0..Len(s), NEW p \in SUBSET Presses
    PROVE  /\ Input!After(p, Input!Ups(s)) \subseteq p
           /\ Input!After(p, Input!Ups(s)) \cap Pushed(SubSeq(s, 1, n)) = {}
<1> DEFINE ups == Input!Ups(s)
           t == SubSeq(s, 1, n)
<1>0. UpEvents \subseteq Events
  BY DEF UpEvents
<1>1. s \in Seq(Events) /\ Len(s) \in Nat /\ n \in Nat /\ n <= Len(s)
  BY DEF IsBatch
<1>2. /\ ups \in Seq(UpEvents)
      /\ \A i \in 1..Len(s) : s[i][1] = "up" => \E j \in 1..Len(ups) : ups[j] = s[i]
  BY <1>1, UpsAre
<1> HIDE DEF ups
<1>3. \A i \in 1..Len(ups) : ups[i] \in UpEvents
  BY <1>2, ElementOfSeq
<1>4. ups \in Seq(Events)
  BY <1>0, <1>2
<1>5. t \in Seq(Events) /\ Len(t) = n /\ \A i \in 1..n : t[i] = s[i]
  BY <1>1, Prefix
<1> HIDE DEF t
<1>6. Input!After(p, ups) = {x \in Presses : Pressed(p, ups, Len(ups), x)}
  BY <1>4, AfterIs
<1>7. Pushed(t) = {x \in Presses : Pressed({}, t, Len(t), x)}
  BY <1>5, AfterIs DEF Pushed
<1>8. \A x : \A i \in 1..Len(ups) : ups[i] # <<"down", x>>
  BY <1>3 DEF UpEvents
<1>9. ASSUME NEW x \in Presses, Pressed(p, ups, Len(ups), x)
      PROVE  x \in p /\ \A i \in 1..Len(ups) : ups[i] # <<"up", x>>
  BY <1>8, <1>9 DEF Pressed
<1>10. ASSUME NEW x \in Presses, Pressed({}, t, Len(t), x)
       PROVE  \E i \in 1..Len(ups) : ups[i] = <<"up", x>>
  <2>1. PICK i \in 1..n : t[i] = <<"down", x>>
    BY <1>5, <1>10 DEF Pressed
  <2>2. i \in 1..Len(s) /\ s[i] = <<"down", x>>
    BY <1>1, <1>5, <2>1
  <2>3. PICK j \in i + 1..Len(s) : s[j] = <<"up", x>>
    BY <2>2 DEF IsBatch, Balanced
  <2>4. j \in 1..Len(s) /\ s[j][1] = "up"
    BY <1>1, <2>2, <2>3
  <2> QED
    BY <1>2, <2>3, <2>4
<1>11. Input!After(p, ups) \subseteq p
  BY <1>6, <1>9
<1>12. Input!After(p, ups) \cap Pushed(t) = {}
  BY <1>6, <1>7, <1>9, <1>10
<1> QED
  BY <1>11, <1>12 DEF ups, t

\* What the rest of a batch leaves of its downs and of what was pressed is
\* pressed by both together.
LEMMA RestLeaves ==
    ASSUME NEW p \in SUBSET Presses, NEW t \in Seq(Events), NEW u \in Seq(Events),
           \A x : \A i \in 1..Len(u) : u[i] # <<"down", x>>
    PROVE  /\ Input!After(p, u) \subseteq p
           /\ Input!After(p, u) \cap Pushed(t) \subseteq Pushed(t \o u)
<1> DEFINE w == t \o u
<1>1. Len(t) \in Nat /\ Len(u) \in Nat
  OBVIOUS
<1>2. /\ w \in Seq(Events) /\ Len(w) = Len(t) + Len(u)
      /\ \A i \in 1..Len(t) : w[i] = t[i]
      /\ \A i \in 1..Len(u) : w[Len(t) + i] = u[i]
  BY Joined
<1> HIDE DEF w
<1>3. Input!After(p, u) = {x \in Presses : Pressed(p, u, Len(u), x)}
  BY AfterIs
<1>4. Pushed(t) = {x \in Presses : Pressed({}, t, Len(t), x)}
  BY AfterIs DEF Pushed
<1>5. Pushed(w) = {x \in Presses : Pressed({}, w, Len(w), x)}
  BY <1>2, AfterIs DEF Pushed
<1>6. ASSUME NEW x \in Presses, Pressed(p, u, Len(u), x)
      PROVE  x \in p /\ \A i \in 1..Len(u) : u[i] # <<"up", x>>
  BY <1>6 DEF Pressed
<1>7. ASSUME NEW x \in Presses, Pressed({}, t, Len(t), x), Pressed(p, u, Len(u), x)
      PROVE  Pressed({}, w, Len(w), x)
  <2>1. PICK i \in 1..Len(t) : t[i] = <<"down", x>> /\ \A j \in i + 1..Len(t) : t[j] # <<"up", x>>
    BY <1>7 DEF Pressed
  <2>2. i \in 1..Len(w) /\ w[i] = <<"down", x>>
    BY <1>1, <1>2, <2>1
  <2>3. ASSUME NEW j \in i + 1..Len(w) PROVE w[j] # <<"up", x>>
    <3>1. CASE j <= Len(t)
      <4>1. j \in 1..Len(t) /\ j \in i + 1..Len(t)
        BY <1>1, <1>2, <3>1
      <4> QED
        BY <1>2, <2>1, <4>1
    <3>2. CASE ~(j <= Len(t))
      <4>1. j - Len(t) \in 1..Len(u) /\ Len(t) + (j - Len(t)) = j
        BY <1>1, <1>2, <3>2
      <4>2. w[j] = u[j - Len(t)]
        BY <1>2, <4>1
      <4> QED
        BY <1>6, <1>7, <4>1, <4>2
    <3> QED
      BY <3>1, <3>2
  <2> QED
    BY <2>2, <2>3 DEF Pressed
<1>8. Input!After(p, u) \subseteq p
  BY <1>3, <1>6
<1>9. Input!After(p, u) \cap Pushed(t) \subseteq Pushed(w)
  BY <1>3, <1>4, <1>5, <1>7
<1> QED
  BY <1>8, <1>9 DEF w

LEMMA GdiKept ==
    ASSUME HandlesFollow, Input!Next \/ UNCHANGED input
    PROVE  HandlesFollow'
<1> USE DEF HandlesFollow, GdiAt
<1>1. ASSUME UNCHANGED <<handles, stage>> PROVE HandlesFollow'
  BY <1>1
<1>2. CASE Input!Frame
  BY <1>2 DEF Input!Frame
<1>3. CASE Input!GetDC
  BY <1>3 DEF Input!GetDC
<1>4. CASE Input!CreateCompatibleDC
  BY <1>4 DEF Input!CreateCompatibleDC
<1>5. CASE Input!CreateCompatibleBitmap
  BY <1>5 DEF Input!CreateCompatibleBitmap, Input!BitmapRefused
<1>6. CASE Input!StretchBlt
  BY <1>6 DEF Input!StretchBlt
<1>7. CASE Input!DeleteAll
  BY <1>7 DEF Input!DeleteAll
<1>8. ASSUME \/ \E i \in Input!Inputs : Input!Press(i) \/ Input!Release(i)
             \/ Input!release_all
             \/ \E b \in Input!Batches : Input!Serve(b)
             \/ \E n \in 0..Len(batch) : Input!inject(n)
             \/ \E m \in 0..(IF rest = <<>> THEN 0 ELSE Len(rest[1])) : Input!LetGo(m)
             \/ UNCHANGED input
      PROVE  UNCHANGED <<handles, stage>>
  BY <1>8 DEF Input!Press, Input!Release, Input!release_all, Input!Serve, Input!inject,
              Input!LetGo, Input!Gdi, input
<1> QED
  BY <1>1, <1>2, <1>3, <1>4, <1>5, <1>6, <1>7, <1>8 DEF Input!Next

Answers == InputTypes /\ PressedIsAnswered /\ CutIsAnswered

LEMMA AnswersStay ==
    ASSUME Answers, UNCHANGED <<batch, rest>>,
           down' \subseteq Presses, session' \subseteq Presses, stuck' \subseteq Presses,
           \A x : x \in down' \ (session' \cup stuck') => x \in down \ (session \cup stuck)
    PROVE  Answers'
<1>1. InputTypes'
  BY DEF Answers, InputTypes, IsBatch, Balanced
<1>2. PressedIsAnswered'
  BY DEF Answers, PressedIsAnswered
<1>3. CutIsAnswered'
  <2> SUFFICES ASSUME rest # <<>>
               PROVE  /\ IsBatch(batch)'
                      /\ \E n \in 0..Len(batch) :
                           /\ rest = <<Input!Ups(batch), SubSeq(batch, 1, n)>>
                           /\ down' \subseteq session' \cup stuck' \cup Pushed(SubSeq(batch, 1, n))
    BY DEF CutIsAnswered
  <2>1. IsBatch(batch)
    BY DEF Answers, CutIsAnswered
  <2>2. PICK n \in 0..Len(batch) :
           /\ rest = <<Input!Ups(batch), SubSeq(batch, 1, n)>>
           /\ down \subseteq session \cup stuck \cup Pushed(SubSeq(batch, 1, n))
    BY DEF Answers, CutIsAnswered
  <2>3. down' \subseteq session' \cup stuck' \cup Pushed(SubSeq(batch, 1, n))
    BY <2>2
  <2> QED
    BY <2>1, <2>2, <2>3 DEF IsBatch, Balanced
<1> QED
  BY <1>1, <1>2, <1>3 DEF Answers

LEMMA BatchTaken ==
    ASSUME Answers, NEW n \in 0..Len(batch), Input!inject(n)
    PROVE  Answers'
<1>1. batch # <<>> /\ rest = <<>> /\ IsBatch(batch) /\ batch \in Seq(Events)
      /\ down \subseteq Presses /\ session \subseteq Presses /\ stuck \subseteq Presses
      /\ down \subseteq session \cup stuck
  BY DEF Input!inject, Answers, InputTypes, PressedIsAnswered, IsBatch
<1> DEFINE t == SubSeq(batch, 1, n)
<1>2. t \in Seq(Events)
  BY <1>1, Prefix
<1>3. down' = Input!After(down, t) /\ UNCHANGED <<session, stuck>>
  BY DEF Input!inject
<1>4. down' \subseteq down \cup Pushed(t) /\ down' \subseteq Presses
  <2> HIDE DEF t
  <2> QED
    BY <1>1, <1>2, <1>3, AfterSplits
<1>5. CASE n = Len(batch)
  <2>1. batch' = <<>> /\ rest' = <<>>
    BY <1>5 DEF Input!inject
  <2>2. t = batch
    BY <1>1, <1>5
  <2>3. Pushed(t) = {}
    BY <1>1, <2>2, BatchPushesNothing
  <2>4. down' \subseteq session' \cup stuck'
    BY <1>1, <1>3, <1>4, <2>3
  <2> QED
    BY <1>1, <1>3, <1>4, <2>1, <2>4 DEF Answers, InputTypes, PressedIsAnswered, CutIsAnswered
<1>6. CASE n # Len(batch)
  <2>1. batch' = batch /\ rest' = <<Input!Ups(batch), t>>
    BY <1>6 DEF Input!inject
  <2>2. IsBatch(batch)'
    BY <1>1, <2>1 DEF IsBatch, Balanced
  <2>3. rest' # <<>>
    BY <2>1
  <2>4. down' \subseteq session' \cup stuck' \cup Pushed(t)
    BY <1>1, <1>3, <1>4
  <2>5. InputTypes'
    BY <1>1, <1>3, <1>4, <2>2 DEF InputTypes
  <2>6. PressedIsAnswered'
    BY <2>3 DEF PressedIsAnswered
  <2>7. CutIsAnswered'
    BY <2>1, <2>2, <2>4 DEF CutIsAnswered
  <2> QED
    BY <2>5, <2>6, <2>7 DEF Answers
<1> QED
  BY <1>5, <1>6

LEMMA BatchLetGo ==
    ASSUME Answers, rest # <<>>, NEW m \in 0..Len(rest[1]), Input!LetGo(m)
    PROVE  Answers'
<1>1. PICK n \in 0..Len(batch) :
         /\ rest = <<Input!Ups(batch), SubSeq(batch, 1, n)>>
         /\ down \subseteq session \cup stuck \cup Pushed(SubSeq(batch, 1, n))
  BY DEF Answers, CutIsAnswered
<1>2. /\ IsBatch(batch) /\ batch \in Seq(Events) /\ down \in SUBSET Presses
      /\ down \subseteq Presses /\ session \subseteq Presses /\ stuck \subseteq Presses
  BY DEF Answers, InputTypes, CutIsAnswered, IsBatch
<1> DEFINE ups == Input!Ups(batch)
           t == SubSeq(batch, 1, n)
           u == SubSeq(ups, 1, m)
<1>3. rest[1] = ups /\ rest[2] = t
  BY <1>1
<1>4. ups \in Seq(UpEvents) /\ ups \in Seq(Events)
  <2>1. ups \in Seq(UpEvents)
    BY <1>2, UpsAre
  <2>2. UpEvents \subseteq Events
    BY DEF UpEvents
  <2> HIDE DEF ups
  <2> QED
    BY <2>1, <2>2
<1>5. t \in Seq(Events)
  BY <1>2, Prefix
<1> HIDE DEF ups, t
<1>6. u \in Seq(Events) /\ Len(u) = m /\ \A i \in 1..m : u[i] = ups[i]
  BY <1>3, <1>4, Prefix
<1>7. m \in Nat /\ m <= Len(ups) /\ Len(ups) \in Nat
  BY <1>3, <1>4
<1>8. /\ down' = Input!After(down, u)
      /\ stuck' = IF m = Len(ups) THEN stuck ELSE stuck \cup Pushed(t \o u)
      /\ batch' = <<>> /\ rest' = <<>> /\ session' = session
  BY <1>3 DEF Input!LetGo, Pushed
<1>9. \A x : \A i \in 1..Len(u) : u[i] # <<"down", x>>
  <2>1. \A i \in 1..Len(ups) : ups[i] \in UpEvents
    BY <1>4, ElementOfSeq
  <2>2. \A i \in 1..Len(u) : u[i][1] = "up"
    BY <1>6, <1>7, <2>1 DEF UpEvents
  <2> QED
    BY <2>2
<1>10. CASE m = Len(ups)
  <2>1. u = ups
    BY <1>4, <1>10
  <2>2. down' \subseteq down /\ down' \cap Pushed(t) = {}
    <3> HIDE DEF u
    <3> QED
      BY <1>2, <1>8, <2>1, UpsLetGo DEF ups, t
  <2>3. down' \subseteq session' \cup stuck'
    BY <1>1, <1>8, <1>10, <2>2 DEF t
  <2> QED
    BY <1>2, <1>8, <1>10, <2>2, <2>3 DEF Answers, InputTypes, PressedIsAnswered, CutIsAnswered
<1>11. CASE m # Len(ups)
  <2> HIDE DEF u
  <2>1. down' \subseteq down /\ down' \cap Pushed(t) \subseteq Pushed(t \o u)
    BY <1>2, <1>5, <1>6, <1>8, <1>9, RestLeaves
  <2>2. stuck' = stuck \cup Pushed(t \o u)
    BY <1>8, <1>11
  <2>3. t \o u \in Seq(Events)
    BY <1>5, <1>6, Joined
  <2>4. Pushed(t \o u) \subseteq Presses
    <3> DEFINE w == t \o u
    <3>1. w \in Seq(Events)
      BY <2>3
    <3> HIDE DEF w
    <3>2. Pushed(w) \subseteq Presses
      BY <3>1, AfterSplits
    <3> QED
      BY <3>2 DEF w
  <2>5. down' \subseteq session' \cup stuck'
    BY <1>1, <1>8, <2>1, <2>2 DEF t
  <2> QED
    BY <1>2, <1>8, <2>1, <2>2, <2>4, <2>5 DEF Answers, InputTypes, PressedIsAnswered, CutIsAnswered
<1> QED
  BY <1>10, <1>11

LEMMA InputKept ==
    ASSUME WorkAssumption, InputInv, Input!Next \/ UNCHANGED input
    PROVE  InputInv'
<1>1. Answers
  BY DEF InputInv, Answers
<1>2. down \subseteq Presses /\ session \subseteq Presses /\ stuck \subseteq Presses
  BY <1>1 DEF Answers, InputTypes
<1>3. HandlesFollow'
  BY GdiKept DEF InputInv
<1>4. ASSUME NEW i \in Input!Inputs, Input!Press(i) PROVE Answers'
  BY <1>1, <1>2, <1>4, AnswersStay DEF Input!Press, Presses
<1>5. ASSUME NEW i \in Input!Inputs, Input!Release(i) PROVE Answers'
  BY <1>1, <1>2, <1>5, AnswersStay DEF Input!Release, Presses
<1>6. ASSUME Input!release_all PROVE Answers'
  <2>1. /\ down' = down \ ReleasedKeys /\ session' = session \ ReleasedKeys
        /\ stuck' = stuck \ ReleasedKeys /\ UNCHANGED <<batch, rest>>
    BY <1>6 DEF Input!release_all
  <2>2. down' \subseteq Presses /\ session' \subseteq Presses /\ stuck' \subseteq Presses
    BY <1>2, <2>1
  <2>3. \A x : x \in down' \ (session' \cup stuck') => x \in down \ (session \cup stuck)
    BY <2>1
  <2>4. UNCHANGED <<batch, rest>>
    BY <2>1
  <2> QED
    BY <1>1, <2>2, <2>3, <2>4, AnswersStay
<1>7. ASSUME NEW b \in Input!Batches, Input!Serve(b) PROVE Answers'
  <2>1. batch = <<>> /\ batch' = b /\ IsBatch(b) /\ UNCHANGED <<down, session, rest, stuck>>
    BY <1>7, EveryBatch DEF Input!Serve
  <2>2. rest = <<>>
    BY <1>1, <2>1 DEF Answers, CutIsAnswered, IsBatch
  <2>3. InputTypes'
    BY <1>2, <2>1 DEF InputTypes, IsBatch, Balanced
  <2> QED
    BY <1>1, <2>1, <2>2, <2>3 DEF Answers, PressedIsAnswered, CutIsAnswered
<1>8. ASSUME NEW n \in 0..Len(batch), Input!inject(n) PROVE Answers'
  BY <1>1, <1>8, BatchTaken
<1>9. ASSUME NEW m \in 0..(IF rest = <<>> THEN 0 ELSE Len(rest[1])), Input!LetGo(m) PROVE Answers'
  <2>1. rest # <<>> /\ m \in 0..Len(rest[1])
    BY <1>9 DEF Input!LetGo
  <2> QED
    BY <1>1, <1>9, <2>1, BatchLetGo
<1>10. ASSUME \/ Input!Frame \/ Input!GetDC \/ Input!CreateCompatibleDC
              \/ Input!CreateCompatibleBitmap \/ Input!StretchBlt \/ Input!DeleteAll
              \/ UNCHANGED input
       PROVE  Answers'
  <2>1. UNCHANGED <<down, session, batch, rest, stuck>>
    BY <1>10 DEF Input!Frame, Input!GetDC, Input!CreateCompatibleDC, Input!StretchBlt,
                 Input!CreateCompatibleBitmap, Input!DeleteAll, Input!Input, input
  <2> QED
    BY <1>1, <1>2, <2>1, AnswersStay
<1>11. Answers'
  BY <1>4, <1>5, <1>6, <1>7, <1>8, <1>9, <1>10 DEF Input!Next
<1> QED
  BY <1>3, <1>11 DEF InputInv, Answers

----------------------------------------------------------------------------
(* The parts together: each is moved by its own steps only.                *)
PartsInv == InputInv /\ FilesInv /\ PortsInv /\ StartupInv

LEMMA PartsKept ==
    ASSUME WorkAssumption, PartsInv, [MCNext]_mcvars
    PROVE  PartsInv'
<1>1. Input!Next \/ UNCHANGED input
  BY DEF MCNext, mcvars, input
<1>2. Files!Next \/ UNCHANGED files
  BY DEF MCNext, mcvars, files
<1>3. Ports!Next \/ UNCHANGED ports
  BY DEF MCNext, mcvars, ports
<1>4. [Startup!Next]_startup
  BY DEF MCNext, mcvars, startup
<1> QED
  BY <1>1, <1>2, <1>3, <1>4, InputKept, FilesKept, PortsKept, StartupKept DEF PartsInv

(* For any companions, workers, limits, modifiers, keys, buttons, files,   *)
(* sockets and retries, and wherever a call is refused: the credits in use *)
(* are those of the workers that hold one, a reset leaves no stream of an  *)
(* earlier epoch, a batch of input that was cut short leaves nothing       *)
(* pressed, a capture no handle and a clipboard call neither the clipboard *)
(* nor memory; Save writes the port that was chosen; and one browser is    *)
(* started, as the user.                                                   *)
THEOREM NothingIsEverLeftTaken == MCSpec => []NothingIsLeftTaken
<1>1. MCInit => HubInv /\ PartsInv
  <2>1. MCInit => HubInv
    BY HubStarts, HubAssumption DEF MCInit
  <2>2. MCInit => PartsInv
    BY InputStarts, FilesStart, PortsStart, StartupStarts DEF MCInit, PartsInv
  <2> QED
    BY <2>1, <2>2
<1>2. HubInv /\ [MCNext]_mcvars => HubInv'
  <2>1. [MCNext]_mcvars => [Next]_vars
    BY Zenon DEF MCNext, mcvars
  <2> QED
    BY <2>1, HubKept, HubAssumption
<1>3. PartsInv /\ [MCNext]_mcvars => PartsInv'
  BY PartsKept, WorkAssumption
<1>4. HubInv /\ PartsInv => NothingIsLeftTaken
  BY InputIsGood, CallsEndClean, OneBrowser
     DEF HubInv, PartsInv, PortsInv, NothingIsLeftTaken
<1> QED
  BY <1>1, <1>2, <1>3, <1>4, PTL DEF MCSpec
=============================================================================
