-------------------------- MODULE ShellFlowProofs --------------------------
(***************************************************************************)
(* The host's byte accounting is sound, the two ends agree on what is      *)
(* still on the link, and a paced pump keeps to the cap: for every cap,    *)
(* budget, read size and payload, whatever the client reports and however  *)
(* often it restarts the session.                                          *)
(***************************************************************************)
EXTENDS ShellFlow, FiniteSetTheorems, WellFoundedInduction, TLAPS

----------------------------------------------------------------------------
(* Sums of functions over finite sets, SumFunctionOnSet of the community   *)
(* modules, and the induction they rest on.  Induction is stated of a set  *)
(* of naturals, and follows from the least element of its complement.      *)

Less == OpToRel(<, Nat)

(* A set of naturals that is not empty has a least element. *)
LEMMA LeastElement ==
    ASSUME NEW T \in SUBSET Nat, T # {}
    PROVE  \E x \in T : \A y \in T : x <= y
<1>1. IsWellFoundedOn(Less, Nat)
  BY NatLessThanWellFounded, Zenon DEF Less
<1>2. PICK x \in T : \A y \in T : ~(<<y, x>> \in Less)
  BY <1>1, WFMin, Zenon
<1>3. \A x1, y \in Nat : <<x1, y>> \in Less <=> x1 < y
  BY DEF Less, OpToRel
<1>4. \A y \in T : y \in Nat /\ x \in Nat /\ ~(y < x)
  BY <1>2, <1>3
<1> QED
  BY <1>4

(* What holds of 0, and of n + 1 when it holds of n, holds of all n. *)
LEMMA EveryNatural ==
    ASSUME NEW T \in SUBSET Nat, 0 \in T, \A n \in T : n + 1 \in T
    PROVE  \A n \in Nat : n \in T
<1> SUFFICES ASSUME Nat \ T # {}
             PROVE  FALSE
  OBVIOUS
<1>1. PICK m \in Nat \ T : \A y \in Nat \ T : m <= y
  BY LeastElement
<1>2. m # 0 /\ m - 1 \in Nat
  BY <1>1
<1>3. m - 1 \in T
  BY <1>1, <1>2
<1> QED
  BY <1>1, <1>2, <1>3

----------------------------------------------------------------------------
(* The sum of a function over a finite set.                                *)

(* The element a fold takes first, and one turn of it. *)
First(s) == CHOOSE x \in s : TRUE

Turn(it, g, s) == IF s = {} THEN 0 ELSE g[First(s)] + it[s \ {First(s)}]

Iterates(it, g, D) == it = [s \in D |-> Turn(it, g, s)]

Small(S, n) == {s \in SUBSET S : Cardinality(s) <= n}

(* What the fold computes. *)
LEMMA SumUnfolded ==
    ASSUME NEW g, NEW S
    PROVE  SumFunctionOnSet(g, S) = (CHOOSE it : Iterates(it, g, SUBSET S))[S]
BY DEF SumFunctionOnSet, FoldFunctionOnSet, MapThenFoldSet, Iterates, Turn, First

(* The first element is one, and removing it makes the set smaller. *)
LEMMA FirstRemoved ==
    ASSUME NEW s, IsFiniteSet(s), s # {}
    PROVE  /\ First(s) \in s
           /\ IsFiniteSet(s \ {First(s)})
           /\ Cardinality(s) \in Nat /\ Cardinality(s) > 0
           /\ Cardinality(s \ {First(s)}) = Cardinality(s) - 1
<1>1. First(s) \in s
  BY DEF First
<1>2. Cardinality(s) \in Nat
  BY FS_CardinalityType
<1>3. Cardinality(s) # 0
  BY FS_EmptySet
<1>4. /\ IsFiniteSet(s \ {First(s)})
      /\ Cardinality(s \ {First(s)}) = Cardinality(s) - 1
  BY <1>1, FS_RemoveElement
<1> QED
  BY <1>1, <1>2, <1>3, <1>4

(* A fold has an iteration. *)
LEMMA IterationExists ==
    ASSUME NEW g, NEW S, IsFiniteSet(S)
    PROVE  \E it : Iterates(it, g, SUBSET S)
<1> DEFINE T == {n \in Nat : \E it : Iterates(it, g, Small(S, n))}
<1>1. \A s \in SUBSET S : IsFiniteSet(s) /\ Cardinality(s) \in Nat
  BY FS_Subset, FS_CardinalityType
<1>2. 0 \in T
  <2> DEFINE it == [s \in Small(S, 0) |-> 0]
  <2>1. \A s \in Small(S, 0) : s = {}
    BY <1>1, FS_EmptySet DEF Small
  <2>2. it = [s \in Small(S, 0) |-> Turn(it, g, s)]
    BY <2>1 DEF Turn
  <2>3. Iterates(it, g, Small(S, 0))
    BY <2>2 DEF Iterates
  <2> HIDE DEF it
  <2> QED
    BY <2>3
<1>3. ASSUME NEW n \in T
      PROVE  n + 1 \in T
  <2>1. PICK it : Iterates(it, g, Small(S, n))
    OBVIOUS
  <2> DEFINE more == [s \in Small(S, n + 1) |-> Turn(it, g, s)]
  <2>2. n \in Nat
    OBVIOUS
  <2>3. \A s \in Small(S, n) : it[s] = Turn(it, g, s)
    BY <2>1 DEF Iterates
  <2>4. ASSUME NEW s \in Small(S, n + 1)
        PROVE  Turn(it, g, s) = Turn(more, g, s)
    <3>1. CASE s = {}
      BY <3>1 DEF Turn
    <3>2. CASE s # {}
      <4>1. s \in SUBSET S /\ IsFiniteSet(s)
        BY <1>1 DEF Small
      <4>2. s \ {First(s)} \in Small(S, n)
        <5>1. Cardinality(s) \in Nat /\ Cardinality(s \ {First(s)}) = Cardinality(s) - 1
          BY <3>2, <4>1, FirstRemoved
        <5>2. Cardinality(s) <= n + 1
          BY DEF Small
        <5> QED
          BY <2>2, <4>1, <5>1, <5>2 DEF Small
      <4>3. s \ {First(s)} \in Small(S, n + 1)
        BY <1>1, <2>2, <4>2 DEF Small
      <4>4. more[s \ {First(s)}] = it[s \ {First(s)}]
        BY <2>3, <4>2, <4>3
      <4> QED
        BY <3>2, <4>4 DEF Turn
    <3> QED
      BY <3>1, <3>2
  <2>5. more = [s \in Small(S, n + 1) |-> Turn(more, g, s)]
    BY <2>4
  <2>6. Iterates(more, g, Small(S, n + 1))
    BY <2>5 DEF Iterates
  <2> HIDE DEF more
  <2> QED
    BY <2>2, <2>6
<1>4. Cardinality(S) \in T
  <2>1. T \in SUBSET Nat
    OBVIOUS
  <2> HIDE DEF T
  <2>2. \A n \in Nat : n \in T
    BY <1>2, <1>3, <2>1, EveryNatural
  <2> QED
    BY <2>2, FS_CardinalityType
<1>5. Small(S, Cardinality(S)) = SUBSET S
  BY FS_Subset DEF Small
<1> QED
  BY <1>4, <1>5

(* Two iterations agree where their functions do. *)
LEMMA IterationsAgree ==
    ASSUME NEW S, IsFiniteSet(S), NEW B, S \in SUBSET B,
           NEW a, NEW g, Iterates(a, g, SUBSET S),
           NEW b, NEW h, Iterates(b, h, SUBSET B),
           \A x \in S : g[x] = h[x]
    PROVE  a[S] = b[S]
<1> DEFINE T == {n \in Nat : \A s \in SUBSET S : Cardinality(s) = n => a[s] = b[s]}
<1>1. \A s \in SUBSET S : IsFiniteSet(s) /\ Cardinality(s) \in Nat
  BY FS_Subset, FS_CardinalityType
<1>2. \A s \in SUBSET S : a[s] = Turn(a, g, s) /\ b[s] = Turn(b, h, s)
  BY DEF Iterates
<1>3. 0 \in T
  <2>1. \A s \in SUBSET S : Cardinality(s) = 0 => s = {}
    BY <1>1, FS_EmptySet
  <2> QED
    BY <1>2, <2>1 DEF Turn
<1>4. ASSUME NEW n \in T
      PROVE  n + 1 \in T
  <2>1. n \in Nat /\ \A s \in SUBSET S : Cardinality(s) = n => a[s] = b[s]
    OBVIOUS
  <2>2. ASSUME NEW s \in SUBSET S, Cardinality(s) = n + 1
        PROVE  a[s] = b[s]
    <3>1. s # {}
      <4>1. Cardinality({}) = 0
        BY FS_EmptySet
      <4> QED
        BY <2>1, <2>2, <4>1
    <3>2. /\ First(s) \in s
          /\ Cardinality(s \ {First(s)}) = n
      BY <1>1, <2>1, <2>2, <3>1, FirstRemoved
    <3>3. a[s \ {First(s)}] = b[s \ {First(s)}]
      BY <2>1, <3>2
    <3>4. g[First(s)] = h[First(s)]
      BY <3>2
    <3> QED
      BY <1>2, <3>1, <3>3, <3>4 DEF Turn
  <2> QED
    BY <2>1, <2>2
<1>5. Cardinality(S) \in T
  <2>1. T \in SUBSET Nat
    OBVIOUS
  <2> HIDE DEF T
  <2>2. \A n \in Nat : n \in T
    BY <1>3, <1>4, <2>1, EveryNatural
  <2> QED
    BY <2>2, FS_CardinalityType
<1> QED
  BY <1>5

(* The sum is what any iteration over a larger set says of it. *)
LEMMA SumIterates ==
    ASSUME NEW g, NEW S, IsFiniteSet(S), NEW it, Iterates(it, g, SUBSET S),
           NEW s \in SUBSET S
    PROVE  SumFunctionOnSet(g, s) = it[s]
<1>1. IsFiniteSet(s)
  BY FS_Subset
<1> DEFINE c == CHOOSE k : Iterates(k, g, SUBSET s)
<1>2. Iterates(c, g, SUBSET s)
  BY <1>1, IterationExists
<1>3. SumFunctionOnSet(g, s) = c[s]
  BY SumUnfolded
<1> HIDE DEF c
<1>4. ASSUME NEW k, Iterates(k, g, SUBSET s)
      PROVE  k[s] = it[s]
  <2>1. \A x \in s : g[x] = g[x]
    OBVIOUS
  <2> QED
    BY <1>1, <1>4, <2>1, IterationsAgree, Z3
<1> QED
  BY <1>2, <1>3, <1>4

(* The sum of nothing. *)
LEMMA SumEmpty == ASSUME NEW g PROVE SumFunctionOnSet(g, {}) = 0
<1>1. IsFiniteSet({})
  BY FS_EmptySet
<1>2. PICK it : Iterates(it, g, SUBSET {})
  BY <1>1, IterationExists
<1>3. SumFunctionOnSet(g, {}) = it[{}]
  BY <1>1, <1>2, SumIterates
<1>4. it[{}] = Turn(it, g, {})
  BY <1>2 DEF Iterates
<1> QED
  BY <1>3, <1>4 DEF Turn

(* One turn of a sum. *)
LEMMA SumTurn ==
    ASSUME NEW g, NEW S, IsFiniteSet(S), S # {}
    PROVE  SumFunctionOnSet(g, S) = g[First(S)] + SumFunctionOnSet(g, S \ {First(S)})
<1>1. PICK it : Iterates(it, g, SUBSET S)
  BY IterationExists
<1>2. SumFunctionOnSet(g, S) = it[S] /\ SumFunctionOnSet(g, S \ {First(S)}) = it[S \ {First(S)}]
  BY <1>1, SumIterates
<1>3. it[S] = Turn(it, g, S)
  BY <1>1 DEF Iterates
<1> QED
  BY <1>2, <1>3 DEF Turn

(* Sums of functions that agree. *)
LEMMA SumSame ==
    ASSUME NEW g, NEW h, NEW S, IsFiniteSet(S), \A x \in S : g[x] = h[x]
    PROVE  SumFunctionOnSet(g, S) = SumFunctionOnSet(h, S)
<1>1. PICK a : Iterates(a, g, SUBSET S)
  BY IterationExists
<1>2. PICK b : Iterates(b, h, SUBSET S)
  BY IterationExists
<1>3. a[S] = b[S]
  <2>1. S \in SUBSET S
    OBVIOUS
  <2> QED
    BY <1>1, <1>2, <2>1, IterationsAgree
<1> QED
  BY <1>1, <1>2, <1>3, SumIterates

(* The sum of naturals is one. *)
LEMMA SumType ==
    ASSUME NEW g, NEW S, IsFiniteSet(S), \A x \in S : g[x] \in Nat
    PROVE  SumFunctionOnSet(g, S) \in Nat
<1> DEFINE T == {n \in Nat : \A s \in SUBSET S :
                    Cardinality(s) = n => SumFunctionOnSet(g, s) \in Nat}
<1>1. \A s \in SUBSET S : IsFiniteSet(s) /\ Cardinality(s) \in Nat
  BY FS_Subset, FS_CardinalityType
<1>2. 0 \in T
  <2>1. \A s \in SUBSET S : Cardinality(s) = 0 => s = {}
    BY <1>1, FS_EmptySet
  <2> QED
    BY <2>1, SumEmpty
<1>3. ASSUME NEW n \in T
      PROVE  n + 1 \in T
  <2>1. n \in Nat /\ \A s \in SUBSET S : Cardinality(s) = n => SumFunctionOnSet(g, s) \in Nat
    OBVIOUS
  <2>2. ASSUME NEW s \in SUBSET S, Cardinality(s) = n + 1
        PROVE  SumFunctionOnSet(g, s) \in Nat
    <3>1. s # {}
      <4>1. Cardinality({}) = 0
        BY FS_EmptySet
      <4> QED
        BY <2>1, <2>2, <4>1
    <3>2. First(s) \in s /\ Cardinality(s \ {First(s)}) = n
      BY <1>1, <2>1, <2>2, <3>1, FirstRemoved
    <3>3. SumFunctionOnSet(g, s \ {First(s)}) \in Nat
      BY <2>1, <3>2
    <3>4. SumFunctionOnSet(g, s) = g[First(s)] + SumFunctionOnSet(g, s \ {First(s)})
      BY <1>1, <3>1, SumTurn
    <3> QED
      BY <3>2, <3>3, <3>4
  <2> QED
    BY <2>1, <2>2
<1>4. Cardinality(S) \in T
  <2>1. T \in SUBSET Nat
    OBVIOUS
  <2> HIDE DEF T
  <2>2. \A n \in Nat : n \in T
    BY <1>2, <1>3, <2>1, EveryNatural
  <2> QED
    BY <2>2, FS_CardinalityType
<1> QED
  BY <1>4

(* Any element may be taken out first. *)
LEMMA SumRemove ==
    ASSUME NEW g, NEW S, IsFiniteSet(S), \A x \in S : g[x] \in Nat, NEW e \in S
    PROVE  SumFunctionOnSet(g, S) = g[e] + SumFunctionOnSet(g, S \ {e})
<1> DEFINE Holds(s) == \A x \in s : SumFunctionOnSet(g, s) = g[x] + SumFunctionOnSet(g, s \ {x})
           T == {n \in Nat : \A s \in SUBSET S : Cardinality(s) = n => Holds(s)}
<1>1. \A s \in SUBSET S : IsFiniteSet(s) /\ Cardinality(s) \in Nat
  BY FS_Subset, FS_CardinalityType
<1>2. 0 \in T
  <2>1. \A s \in SUBSET S : Cardinality(s) = 0 => s = {}
    BY <1>1, FS_EmptySet
  <2> QED
    BY <2>1
<1>3. ASSUME NEW n \in T
      PROVE  n + 1 \in T
  <2>1. n \in Nat /\ \A s \in SUBSET S : Cardinality(s) = n => Holds(s)
    OBVIOUS
  <2>2. ASSUME NEW s \in SUBSET S, Cardinality(s) = n + 1, NEW x \in s
        PROVE  SumFunctionOnSet(g, s) = g[x] + SumFunctionOnSet(g, s \ {x})
    <3> DEFINE c == First(s)
    <3>1. s # {}
      OBVIOUS
    <3>2. c \in s /\ Cardinality(s \ {c}) = n
      BY <1>1, <2>1, <2>2, <3>1, FirstRemoved
    <3>3. SumFunctionOnSet(g, s) = g[c] + SumFunctionOnSet(g, s \ {c})
      BY <1>1, <3>1, SumTurn
    <3> HIDE DEF c
    <3>4. CASE x = c
      BY <3>3, <3>4
    <3>5. CASE x # c
      <4>1. Cardinality(s \ {x}) = n
        <5>1. Cardinality(s \ {x}) = Cardinality(s) - 1
          BY <1>1, FS_RemoveElement
        <5> QED
          BY <2>1, <2>2, <5>1
      <4>2. SumFunctionOnSet(g, s \ {c}) = g[x] + SumFunctionOnSet(g, (s \ {c}) \ {x})
        BY <2>1, <3>2, <3>5
      <4>3. SumFunctionOnSet(g, s \ {x}) = g[c] + SumFunctionOnSet(g, (s \ {x}) \ {c})
        BY <2>1, <3>2, <3>5, <4>1
      <4>4. (s \ {c}) \ {x} = (s \ {x}) \ {c}
        OBVIOUS
      <4>5. g[x] \in Nat /\ g[c] \in Nat
        BY <3>2
      <4>6. SumFunctionOnSet(g, (s \ {c}) \ {x}) \in Nat
        <5>1. IsFiniteSet((s \ {c}) \ {x}) /\ (s \ {c}) \ {x} \subseteq S
          BY <1>1
        <5> QED
          BY <5>1, SumType
      <4> DEFINE rest == SumFunctionOnSet(g, (s \ {c}) \ {x})
      <4>7. SumFunctionOnSet(g, s \ {c}) = g[x] + rest /\ SumFunctionOnSet(g, s \ {x}) = g[c] + rest
        BY <4>2, <4>3, <4>4, Zenon
      <4>8. rest \in Nat
        BY <4>6
      <4> HIDE DEF rest
      <4> QED
        BY <3>3, <4>5, <4>7, <4>8
    <3> QED
      BY <3>4, <3>5
  <2> QED
    BY <2>1, <2>2
<1>4. Cardinality(S) \in T
  <2>1. T \in SUBSET Nat
    OBVIOUS
  <2> HIDE DEF T
  <2>2. \A n \in Nat : n \in T
    BY <1>2, <1>3, <2>1, EveryNatural
  <2> QED
    BY <2>2, FS_CardinalityType
<1> QED
  BY <1>4

(* An element more. *)
LEMMA SumAdd ==
    ASSUME NEW g, NEW S, IsFiniteSet(S), NEW e, e \notin S,
           g[e] \in Nat, \A x \in S : g[x] \in Nat
    PROVE  SumFunctionOnSet(g, S \cup {e}) = SumFunctionOnSet(g, S) + g[e]
<1>1. IsFiniteSet(S \cup {e}) /\ (S \cup {e}) \ {e} = S
  BY FS_AddElement
<1>2. \A x \in S \cup {e} : g[x] \in Nat
  OBVIOUS
<1>3. SumFunctionOnSet(g, S \cup {e}) = g[e] + SumFunctionOnSet(g, (S \cup {e}) \ {e})
  BY <1>1, <1>2, SumRemove
<1>4. SumFunctionOnSet(g, S) \in Nat
  BY SumType
<1>5. SumFunctionOnSet(g, S \cup {e}) = g[e] + SumFunctionOnSet(g, S)
  BY <1>1, <1>3, Zenon
<1> QED
  BY <1>4, <1>5

(* A part sums to no more than the whole. *)
LEMMA SumPart ==
    ASSUME NEW g, NEW S, IsFiniteSet(S), \A x \in S : g[x] \in Nat, NEW P \in SUBSET S
    PROVE  SumFunctionOnSet(g, P) <= SumFunctionOnSet(g, S)
<1> DEFINE T == {n \in Nat : \A s \in SUBSET S :
                    P \subseteq s /\ Cardinality(s) = n =>
                       SumFunctionOnSet(g, P) <= SumFunctionOnSet(g, s)}
<1>1. \A s \in SUBSET S : IsFiniteSet(s) /\ Cardinality(s) \in Nat
  BY FS_Subset, FS_CardinalityType
<1>2. \A s \in SUBSET S : SumFunctionOnSet(g, s) \in Nat
  BY <1>1, SumType
<1>3. 0 \in T
  <2>1. \A s \in SUBSET S : Cardinality(s) = 0 => s = {}
    BY <1>1, FS_EmptySet
  <2>2. \A s \in SUBSET S : s = {} /\ P \subseteq s => P = s
    OBVIOUS
  <2> QED
    BY <1>2, <2>1, <2>2
<1>4. ASSUME NEW n \in T
      PROVE  n + 1 \in T
  <2>1. n \in Nat /\ \A s \in SUBSET S :
                         P \subseteq s /\ Cardinality(s) = n =>
                            SumFunctionOnSet(g, P) <= SumFunctionOnSet(g, s)
    OBVIOUS
  <2>2. ASSUME NEW s \in SUBSET S, P \subseteq s, Cardinality(s) = n + 1
        PROVE  SumFunctionOnSet(g, P) <= SumFunctionOnSet(g, s)
    <3>1. CASE P = s
      BY <1>2, <3>1
    <3>2. CASE P # s
      <4>1. PICK e \in s : e \notin P
        BY <2>2, <3>2
      <4>2. Cardinality(s \ {e}) = n
        <5>1. Cardinality(s \ {e}) = Cardinality(s) - 1
          BY <1>1, FS_RemoveElement
        <5> QED
          BY <2>1, <2>2, <5>1
      <4>3. SumFunctionOnSet(g, P) <= SumFunctionOnSet(g, s \ {e})
        BY <2>1, <2>2, <4>1, <4>2
      <4>4. SumFunctionOnSet(g, s) = g[e] + SumFunctionOnSet(g, s \ {e})
        BY <1>1, SumRemove
      <4>5. SumFunctionOnSet(g, P) \in Nat /\ SumFunctionOnSet(g, s \ {e}) \in Nat /\ g[e] \in Nat
        BY <1>2
      <4> QED
        BY <4>3, <4>4, <4>5
    <3> QED
      BY <3>1, <3>2
  <2> QED
    BY <2>1, <2>2
<1>5. Cardinality(S) \in T
  <2>1. T \in SUBSET Nat
    OBVIOUS
  <2> HIDE DEF T
  <2>2. \A n \in Nat : n \in T
    BY <1>3, <1>4, <2>1, EveryNatural
  <2> QED
    BY <2>2, FS_CardinalityType
<1> QED
  BY <1>5

(* The sum over one index more. *)
LEMMA SumNext ==
    ASSUME NEW g, NEW n \in Nat, \A i \in 1..(n + 1) : g[i] \in Nat
    PROVE  /\ SumFunctionOnSet(g, 1..n) \in Nat
           /\ SumFunctionOnSet(g, 1..(n + 1)) = SumFunctionOnSet(g, 1..n) + g[n + 1]
<1>1. IsFiniteSet(1..n)
  BY FS_Interval
<1>2. 1..(n + 1) = (1..n) \cup {n + 1} /\ n + 1 \notin 1..n
  OBVIOUS
<1>3. \A i \in 1..n : g[i] \in Nat
  OBVIOUS
<1>4. SumFunctionOnSet(g, (1..n) \cup {n + 1}) = SumFunctionOnSet(g, 1..n) + g[n + 1]
  <2> DEFINE S == 1..n
             e == n + 1
  <2>1. IsFiniteSet(S) /\ e \notin S /\ g[e] \in Nat /\ \A x \in S : g[x] \in Nat
    BY <1>1, <1>2, <1>3
  <2> HIDE DEF S, e
  <2>2. SumFunctionOnSet(g, S \cup {e}) = SumFunctionOnSet(g, S) + g[e]
    BY <2>1, SumAdd
  <2> QED
    BY <2>2 DEF S, e
<1>5. SumFunctionOnSet(g, 1..(n + 1)) = SumFunctionOnSet(g, 1..n) + g[n + 1]
  BY <1>2, <1>4, Zenon
<1> QED
  BY <1>1, <1>3, <1>5, SumType

----------------------------------------------------------------------------
(* Bytes and the pieces they are sent in.                                  *)

USE BudgetAssumption, BoundAssumption DEF BudgetAssumption, BoundAssumption

(* Multiples of the payload keep their order. *)
LEMMA MultiplesKeepOrder ==
    ASSUME NEW a \in Nat, NEW b \in Nat, a <= b
    PROVE  /\ a * Payload \in Nat
           /\ b * Payload \in Nat
           /\ a * Payload <= b * Payload
OBVIOUS

(* n bytes make finitely many pieces, and each starts before the end.      *)
LEMMA PiecesStartInside ==
    ASSUME NEW n \in Nat
    PROVE  /\ PieceCount(n) \in Nat
           /\ \A i \in 1..PieceCount(n) :
                 (i - 1) * Payload \in Nat /\ (i - 1) * Payload < n
BY DEF PieceCount

(* A piece is a non-empty run of the output, and a later piece starts      *)
(* where the earlier one ended or after it.                                *)
LEMMA PieceShape ==
    ASSUME NEW n \in Nat, NEW i \in 1..PieceCount(n)
    PROVE  /\ PieceEnd(n, i) \in Nat /\ PieceLen(n, i) \in Nat
           /\ 0 < PieceLen(n, i)
           /\ PieceLen(n, i) <= PieceEnd(n, i)
           /\ PieceEnd(n, i) <= n
           /\ PieceEnd(n, i) - PieceLen(n, i) = (i - 1) * Payload
           /\ PieceEnd(n, i) <= i * Payload
<1>1. /\ (i - 1) * Payload \in Nat
      /\ (i - 1) * Payload < n
  BY PiecesStartInside
<1>2. i \in Nat /\ i - 1 \in Nat
  BY PiecesStartInside
<1>3. i * Payload \in Nat /\ i * Payload = (i - 1) * Payload + Payload
  BY <1>2
<1> QED
  BY <1>1, <1>3 DEF PieceEnd, PieceLen

(* Two pieces of one output do not overlap. *)
LEMMA PiecesApart ==
    ASSUME NEW n \in Nat,
           NEW i \in 1..PieceCount(n), NEW j \in 1..PieceCount(n), i < j
    PROVE  PieceEnd(n, i) <= PieceEnd(n, j) - PieceLen(n, j)
<1>1. i \in Nat /\ j - 1 \in Nat /\ i <= j - 1
  BY PiecesStartInside
<1>2. i * Payload <= (j - 1) * Payload /\ i * Payload \in Nat /\ (j - 1) * Payload \in Nat
  BY <1>1, MultiplesKeepOrder
<1>3. PieceEnd(n, i) \in Nat /\ PieceEnd(n, i) <= i * Payload
  BY PieceShape
<1>4. PieceEnd(n, j) - PieceLen(n, j) = (j - 1) * Payload
  BY PieceShape
<1> QED
  BY <1>2, <1>3, <1>4

(* The pieces of one output are packets for the link. *)
LEMMA PiecesType ==
    ASSUME NEW n \in Nat, NEW op \in {"ShellOutput", "PtyOutput"}
    PROVE  Pieces(op, n) \in Seq(DownPacket)
<1>1. \A i \in 1..PieceCount(n) : [op |-> op, len |-> PieceLen(n, i)] \in DownPacket
  BY PieceShape DEF DownPacket
<1>2. PieceCount(n) \in Nat
  BY PiecesStartInside
<1> QED
  BY <1>1, <1>2 DEF Pieces

----------------------------------------------------------------------------
(* The accounting alone, as the shell output and the reports drive it.     *)

FlowType ==
    /\ sent \in Nat /\ acked \in Nat
    /\ pending \in SUBSET Send
    /\ peer \in {"silent", "reports"}
    /\ trust \in {"moving", "stalled"}
    /\ behind \in {"behind", "caught_up"}
    /\ waited \in 0..Stall

FlowInv == FlowType /\ AccountsBalance /\ StallClockArmed

(* A handshake restarts the counts. *)
LEMMA FlowNewKeeps == FlowNew => FlowInv'
BY DEF FlowNew, FlowInv, FlowType, AccountsBalance, StallClockArmed

(* Steps that leave the counts alone. *)
LEMMA FlowUnchanged == FlowInv /\ UNCHANGED flow => FlowInv'
BY DEF flow, FlowInv, FlowType, AccountsBalance, StallClockArmed

(* Sending n bytes of either slot's output. *)
LEMMA NoteSentKeeps ==
    ASSUME FlowInv, NEW n \in Nat, NEW slot, NoteSent(slot, n)
    PROVE  FlowInv'
<1> DEFINE new == {[end |-> sent + PieceEnd(n, i), len |-> PieceLen(n, i)] :
                      i \in 1..PieceCount(n)}
<1> USE DEF FlowInv, FlowType
<1>1. /\ sent' = sent + n
      /\ acked' = acked
      /\ pending' = pending \cup new \/ pending' = pending
  BY DEF NoteSent
<1>2. \A p \in new : /\ p \in Send
                     /\ 0 < p.len
                     /\ sent < p.end
                     /\ p.end <= sent + n
                     /\ sent <= p.end - p.len
  <2> TAKE p \in new
  <2>1. PICK i \in 1..PieceCount(n) :
           p = [end |-> sent + PieceEnd(n, i), len |-> PieceLen(n, i)]
    OBVIOUS
  <2> QED
    BY <2>1, PieceShape DEF Send
<1>3. \A p, q \in new : p.end < q.end => p.end <= q.end - q.len
  <2> TAKE p, q \in new
  <2>1. PICK i \in 1..PieceCount(n) :
           p = [end |-> sent + PieceEnd(n, i), len |-> PieceLen(n, i)]
    OBVIOUS
  <2>2. PICK j \in 1..PieceCount(n) :
           q = [end |-> sent + PieceEnd(n, j), len |-> PieceLen(n, j)]
    OBVIOUS
  <2>3. /\ PieceEnd(n, i) \in Nat /\ PieceEnd(n, j) \in Nat
        /\ PieceLen(n, i) \in Nat /\ PieceLen(n, j) \in Nat
        /\ 0 < PieceLen(n, i)
    BY PieceShape
  <2>4. CASE i < j
    BY <2>1, <2>2, <2>3, <2>4, PiecesApart
  <2>5. CASE i = j
    BY <2>1, <2>2, <2>3, <2>5
  <2>6. CASE j < i
    <3>1. PieceEnd(n, j) <= PieceEnd(n, i) - PieceLen(n, i)
      BY <2>6, PiecesApart
    <3> QED
      BY <2>1, <2>2, <2>3, <3>1
  <2>7. i \in Nat /\ j \in Nat
    BY PiecesStartInside
  <2> QED
    BY <2>4, <2>5, <2>6, <2>7
<1>4. \A p, q \in new : p.end = q.end => p = q
  <2> TAKE p, q \in new
  <2>1. PICK i \in 1..PieceCount(n) :
           p = [end |-> sent + PieceEnd(n, i), len |-> PieceLen(n, i)]
    OBVIOUS
  <2>2. PICK j \in 1..PieceCount(n) :
           q = [end |-> sent + PieceEnd(n, j), len |-> PieceLen(n, j)]
    OBVIOUS
  <2>3. /\ PieceEnd(n, i) \in Nat /\ PieceEnd(n, j) \in Nat
        /\ PieceLen(n, i) \in Nat /\ PieceLen(n, j) \in Nat
        /\ 0 < PieceLen(n, i) /\ 0 < PieceLen(n, j)
    BY PieceShape
  <2>4. CASE i < j
    <3>1. PieceEnd(n, i) <= PieceEnd(n, j) - PieceLen(n, j)
      BY <2>4, PiecesApart
    <3> QED
      BY <2>1, <2>2, <2>3, <3>1
  <2>5. CASE i = j
    BY <2>1, <2>2, <2>5
  <2>6. CASE j < i
    <3>1. PieceEnd(n, j) <= PieceEnd(n, i) - PieceLen(n, i)
      BY <2>6, PiecesApart
    <3> QED
      BY <2>1, <2>2, <2>3, <3>1
  <2>7. i \in Nat /\ j \in Nat
    BY PiecesStartInside
  <2> QED
    BY <2>4, <2>5, <2>6, <2>7
<1> HIDE DEF new
<1>5. FlowType'
  <2>1. sent' \in Nat /\ acked' \in Nat
    BY <1>1
  <2>2. pending' \in SUBSET Send
    BY <1>1, <1>2
  <2> QED
    BY <2>1, <2>2 DEF NoteSent
<1>6. AccountsBalance'
  <2>1. \A p \in pending : /\ p \in Send
                           /\ 0 < p.len /\ p.len <= p.end
                           /\ acked < p.end /\ p.end <= sent
    BY DEF AccountsBalance
  <2>2. acked <= sent /\ acked \in Nat /\ sent \in Nat
    BY DEF AccountsBalance
  <2>3. \A p \in pending' : /\ p \in Send
                            /\ 0 < p.len /\ p.len <= p.end
                            /\ acked < p.end /\ p.end <= sent + n
    BY <1>1, <1>2, <2>1, <2>2 DEF Send
  <2>4. \A p, q \in pending' : p.end < q.end => p.end <= q.end - q.len
    <3> TAKE p, q \in pending'
    <3>1. CASE p \in pending /\ q \in pending
      BY <3>1 DEF AccountsBalance
    <3>2. CASE p \in pending /\ q \in new
      BY <3>2, <2>1, <1>2, <2>2 DEF Send
    <3>3. CASE p \in new /\ q \in pending
      BY <3>3, <2>1, <1>2, <2>2 DEF Send
    <3>4. CASE p \in new /\ q \in new
      BY <3>4, <1>3
    <3> QED
      BY <1>1, <3>1, <3>2, <3>3, <3>4
  <2>5. \A p, q \in pending' : p.end = q.end => p = q
    <3> TAKE p, q \in pending'
    <3>1. CASE p \in pending /\ q \in pending
      BY <3>1 DEF AccountsBalance
    <3>2. CASE p \in pending /\ q \in new
      BY <3>2, <2>1, <1>2, <2>2 DEF Send
    <3>3. CASE p \in new /\ q \in pending
      BY <3>3, <2>1, <1>2, <2>2 DEF Send
    <3>4. CASE p \in new /\ q \in new
      BY <3>4, <1>4
    <3> QED
      BY <1>1, <3>1, <3>2, <3>3, <3>4
  <2> QED
    BY <1>1, <2>2, <2>3, <2>4, <2>5 DEF AccountsBalance
<1>7. StallClockArmed'
  BY DEF NoteSent, StallClockArmed, AccountsBalance
<1> QED
  BY <1>5, <1>6, <1>7

(* A report of any count. *)
LEMMA OnReportKeeps ==
    ASSUME FlowInv, NEW bytes \in Nat, OnReport(bytes)
    PROVE  FlowInv'
<1> USE DEF FlowInv, FlowType
<1>1. Confirmed(bytes) \in Nat /\ Confirmed(bytes) <= sent
  BY DEF Confirmed
<1>2. CASE Confirmed(bytes) > acked
  BY <1>1, <1>2 DEF OnReport, AccountsBalance, StallClockArmed, Send
<1>3. CASE ~(Confirmed(bytes) > acked)
  BY <1>1, <1>3 DEF OnReport, AccountsBalance, StallClockArmed, Send
<1> QED
  BY <1>2, <1>3

(* A stall release. *)
LEMMA ReleaseKeeps == FlowInv /\ Release => FlowInv'
BY DEF FlowInv, FlowType, Release, flow, AccountsBalance, StallClockArmed

----------------------------------------------------------------------------
(* Time passing. *)
LEMMA TockKeeps == FlowInv /\ Tock => FlowInv'
BY DEF FlowInv, FlowType, Tock, AccountsBalance, StallClockArmed

(* The part of the type invariant that is not about the accounting. *)
RestType ==
    /\ at \in {"release", "pty", "exec", "recv"}
    /\ state \in {"WaitingForHello", "Connected"}
    /\ exec \in Shell \cup {None}
    /\ pty \in Shell \cup {None}
    /\ down \in Seq(DownPacket)
    /\ up \in Seq(UpPacket)
    /\ link \in {"up", "down"}
    /\ decoded \in Nat /\ reported \in Nat
    /\ misled \in {"no", "yes"}

(* The two parts make up what is proved. *)
LEMMA Parts == TypeOK /\ AccountsBalance /\ StallClockArmed <=> RestType /\ FlowInv
BY DEF TypeOK, RestType, FlowInv, FlowType

(* Draining a shell leaves a shell, and an amount to send. *)
LEMMA DrainType ==
    ASSUME NEW s \in Shell, NEW budget, NEW n \in Drained(s, budget)
    PROVE  n \in Nat /\ [s EXCEPT !.ready = @ - n] \in Shell
BY NoneAssumption DEF Drained, Shell

USE DEF host, flow, client

(* A tick starts by giving up on a stalled client. *)
LEMMA PumpTopKeeps == RestType /\ FlowInv /\ PumpTop => RestType' /\ FlowInv'
<1>1. RestType /\ PumpTop => RestType'
  BY DEF RestType, PumpTop
<1>2. FlowInv /\ PumpTop => FlowInv'
  BY ReleaseKeeps DEF PumpTop
<1> QED
  BY <1>1, <1>2

(* The console's share of a tick. *)
LEMMA PumpPtyKeeps ==
    ASSUME RestType, FlowInv, PumpPty
    PROVE  RestType' /\ FlowInv'
<1>1. CASE pty = None
  <2>1. FlowInv'
    BY <1>1, FlowUnchanged DEF PumpPty
  <2>2. RestType'
    BY <1>1 DEF PumpPty, RestType
  <2> QED
    BY <2>1, <2>2
<1>2. CASE pty # None
  <2>1. PICK n \in Drained(pty, PumpBudget) :
           /\ NoteSent("pty", n)
           /\ down' = down \o Pieces("PtyOutput", n)
           /\ pty' = IF pty.child = "ended" THEN None
                     ELSE [pty EXCEPT !.ready = @ - n]
    BY <1>2 DEF PumpPty
  <2>2. n \in Nat /\ [pty EXCEPT !.ready = @ - n] \in Shell
    BY <1>2, DrainType DEF RestType
  <2>3. FlowInv'
    BY <2>1, <2>2, NoteSentKeeps
  <2>4. down' \in Seq(DownPacket)
    <3>1. Pieces("PtyOutput", n) \in Seq(DownPacket)
      BY <2>2, PiecesType
    <3> QED
      BY <2>1, <3>1 DEF RestType
  <2>5. pty' \in Shell \cup {None}
    BY <2>1, <2>2
  <2>6. RestType'
    BY <2>4, <2>5 DEF PumpPty, RestType
  <2> QED
    BY <2>3, <2>6
<1> QED
  BY <1>1, <1>2

(* Exec's share of a tick, paced or not. *)
LEMMA PumpExecKeeps ==
    ASSUME RestType, FlowInv, PumpExec
    PROVE  RestType' /\ FlowInv'
<1>1. PICK budget \in ExecBudgets :
         IF exec = None \/ budget = 0
           THEN UNCHANGED <<exec, flow, down>>
           ELSE \E n \in Drained(exec, budget) :
                  /\ NoteSent("exec", n)
                  /\ down' = down \o Pieces("ShellOutput", n)
                  /\ exec' = IF exec.child = "ended" THEN None
                             ELSE [exec EXCEPT !.ready = @ - n]
  BY DEF PumpExec
<1>2. CASE exec = None \/ budget = 0
  <2>1. UNCHANGED <<exec, flow, down>>
    BY <1>1, <1>2
  <2>2. FlowInv'
    BY <2>1, FlowUnchanged
  <2>3. RestType'
    BY <2>1 DEF PumpExec, RestType
  <2> QED
    BY <2>2, <2>3
<1>3. CASE ~(exec = None \/ budget = 0)
  <2>1. PICK n \in Drained(exec, budget) :
           /\ NoteSent("exec", n)
           /\ down' = down \o Pieces("ShellOutput", n)
           /\ exec' = IF exec.child = "ended" THEN None
                      ELSE [exec EXCEPT !.ready = @ - n]
    BY <1>1, <1>3
  <2>2. n \in Nat /\ [exec EXCEPT !.ready = @ - n] \in Shell
    BY <1>3, DrainType DEF RestType
  <2>3. FlowInv'
    BY <2>1, <2>2, NoteSentKeeps
  <2>4. down' \in Seq(DownPacket)
    <3>1. Pieces("ShellOutput", n) \in Seq(DownPacket)
      BY <2>2, PiecesType
    <3> QED
      BY <2>1, <3>1 DEF RestType
  <2>5. exec' \in Shell \cup {None}
    BY <2>1, <2>2
  <2>6. RestType'
    BY <2>4, <2>5 DEF PumpExec, RestType
  <2> QED
    BY <2>3, <2>6
<1> QED
  BY <1>2, <1>3

(* A Hello or a report taken in. *)
LEMMA ReceiveKeeps ==
    ASSUME RestType, FlowInv, Receive
    PROVE  RestType' /\ FlowInv'
<1> DEFINE p == Head(up)
<1>1. p \in UpPacket /\ Tail(up) \in Seq(UpPacket)
  BY DEF Receive, RestType
<1>2. up' \in Seq(UpPacket)
  <2>1. \A i \in DOMAIN Tail(up) : [Tail(up)[i] EXCEPT !.of = "earlier"] \in UpPacket
    <3> TAKE i \in DOMAIN Tail(up)
    <3>1. Tail(up)[i] \in UpPacket
      BY <1>1
    <3> QED
      BY <3>1 DEF UpPacket
  <2>2. OfEarlier(Tail(up)) \in Seq(UpPacket)
    BY <1>1, <2>1 DEF OfEarlier
  <2> QED
    BY <1>1, <2>2 DEF Receive
<1>3. CASE p.op = "Hello" /\ OnHello /\ at' = "release" /\ misled' = "no"
  <2>1. FlowInv'
    BY <1>3, FlowNewKeeps DEF OnHello
  <2>2. down' \in Seq(DownPacket)
    BY <1>3 DEF OnHello, RestType, DownPacket
  <2>3. RestType'
    BY <1>2, <1>3, <2>2 DEF Receive, OnHello, RestType
  <2> QED
    BY <2>1, <2>3
<1>4. CASE /\ OnReport(p.bytes)
           /\ at' \in {"recv", "release"}
           /\ misled' = IF p.of = "earlier" THEN "yes" ELSE misled
           /\ UNCHANGED <<state, exec, pty, down>>
  <2>1. FlowInv'
    BY <1>1, <1>4, OnReportKeeps DEF UpPacket
  <2>2. RestType'
    BY <1>2, <1>4 DEF Receive, RestType
  <2> QED
    BY <2>1, <2>2
<1>5. CASE at' = "release" /\ UNCHANGED <<state, exec, pty, flow, down, misled>>
  <2>1. FlowInv'
    BY <1>5, FlowUnchanged
  <2>2. RestType'
    BY <1>2, <1>5 DEF Receive, RestType
  <2> QED
    BY <2>1, <2>2
<1> QED
  BY <1>3, <1>4, <1>5 DEF Receive

(* The host's steps that leave the accounting alone. *)
LEMMA HostStepsKeep ==
    ASSUME RestType, FlowInv,
           \/ RecvTimeout \/ OpenOrCloseExec \/ OpenOrClosePty \/ HeartbeatTimeout
    PROVE  RestType' /\ FlowInv'
<1>1. UNCHANGED flow
  BY DEF RecvTimeout, OpenOrCloseExec, OpenOrClosePty, HeartbeatTimeout
<1>2. FlowInv'
  BY <1>1, FlowUnchanged
<1>3. FreshShell \in Shell
  BY DEF FreshShell, Shell
<1>4. RestType'
  BY <1>3 DEF RestType, RecvTimeout, OpenOrCloseExec, OpenOrClosePty, HeartbeatTimeout
<1> QED
  BY <1>2, <1>4

(* Reads arriving and children ending. *)
LEMMA ShellStepsKeep ==
    ASSUME RestType, FlowInv, Shells
    PROVE  RestType' /\ FlowInv'
<1>1. UNCHANGED flow
  BY DEF Shells, ReadExec, ReadPty, ExecEnds, PtyEnds
<1>2. FlowInv'
  BY <1>1, FlowUnchanged
<1>3. \A s \in Shell, n \in 1..MaxRead : [s EXCEPT !.ready = @ + n] \in Shell
  BY DEF Shell
<1>4. \A s \in Shell : [s EXCEPT !.child = "ended"] \in Shell
  BY DEF Shell
<1>5. CASE ReadExec
  BY <1>2, <1>3, <1>5 DEF RestType, ReadExec
<1>6. CASE ReadPty
  BY <1>2, <1>3, <1>6 DEF RestType, ReadPty
<1>7. CASE ExecEnds
  BY <1>2, <1>4, <1>7 DEF RestType, ExecEnds
<1>8. CASE PtyEnds
  BY <1>2, <1>4, <1>8 DEF RestType, PtyEnds
<1> QED
  BY <1>2, <1>5, <1>6, <1>7, <1>8 DEF Shells

(* Putting a Hello anywhere among the packets keeps them a sequence. *)
LEMMA InsertType ==
    ASSUME NEW s \in Seq(UpPacket), NEW i \in 1..Len(s) + 1, NEW p \in UpPacket
    PROVE  InsertAt(s, i, p) \in Seq(UpPacket)
<1>1. SubSeq(s, 1, i - 1) \in Seq(UpPacket)
  OBVIOUS
<1>2. SubSeq(s, i, Len(s)) \in Seq(UpPacket)
  OBVIOUS
<1>3. <<p>> \in Seq(UpPacket)
  OBVIOUS
<1> QED
  BY <1>1, <1>2, <1>3 DEF InsertAt

(* The client's steps. *)
LEMMA ClientStepsKeep ==
    ASSUME RestType, FlowInv, Client
    PROVE  RestType' /\ FlowInv'
<1>1. UNCHANGED flow
  BY DEF Client, Decode, SendReport, WriterRepeatsHello
<1>2. FlowInv'
  BY <1>1, FlowUnchanged
<1>3. CASE Decode
  <2>1. Head(down) \in DownPacket /\ Tail(down) \in Seq(DownPacket)
    BY <1>3 DEF Decode, RestType
  <2>2. decoded' \in Nat /\ reported' \in Nat /\ link' \in {"up", "down"}
    BY <1>3, <2>1 DEF Decode, RestType, ReporterReset, DownPacket
  <2> QED
    BY <1>2, <1>3, <2>1, <2>2 DEF Decode, RestType
<1>4. CASE SendReport
  <2>1. Report(decoded) \in UpPacket
    BY DEF Report, UpPacket, RestType
  <2> QED
    BY <1>2, <1>4, <2>1 DEF SendReport, RestType
<1>5. CASE WriterRepeatsHello
  <2>1. PICK i \in 1..Len(up) + 1 : up' = InsertAt(up, i, Hello)
    BY <1>5 DEF WriterRepeatsHello
  <2>2. Hello \in UpPacket
    BY DEF Hello, UpPacket
  <2>3. up' \in Seq(UpPacket)
    BY <2>1, <2>2, InsertType DEF RestType
  <2> QED
    BY <1>2, <1>5, <2>3 DEF WriterRepeatsHello, RestType
<1> QED
  BY <1>2, <1>3, <1>4, <1>5 DEF Client

(* The link lost and opened again. *)
LEMMA ReconnectKeeps ==
    ASSUME RestType, FlowInv, Reconnect
    PROVE  RestType' /\ FlowInv'
<1>1. FlowInv'
  BY FlowNewKeeps DEF Reconnect
<1>2. PICK i \in 1..Len(up) + 1 : up' = <<Hello>> \o SubSeq(up, i, Len(up))
  BY DEF Reconnect
<1>3. SubSeq(up, i, Len(up)) \in Seq(UpPacket)
  BY <1>2 DEF RestType
<1>4. <<Hello>> \in Seq(UpPacket)
  BY DEF Hello, UpPacket
<1>5. up' \in Seq(UpPacket)
  BY <1>2, <1>3, <1>4
<1>6. /\ at' = "release" /\ state' = "WaitingForHello" /\ link' = "down"
      /\ exec' = None /\ pty' = None
      /\ decoded' = 0 /\ reported' = 0
      /\ misled' = "no"
      /\ down' = <<>>
  BY DEF Reconnect
<1>7. RestType'
  BY <1>5, <1>6 DEF RestType
<1> QED
  BY <1>1, <1>7

(* The inductive invariant holds of every state of every behaviour. *)
LEMMA FlowInvariant == Spec => [](RestType /\ FlowInv)
<1>1. Init => RestType /\ FlowInv
  BY DEF Init, RestType, FlowInv, FlowType, AccountsBalance, StallClockArmed,
         Hello, UpPacket
<1>2. ASSUME RestType, FlowInv, [Next]_vars
      PROVE  RestType' /\ FlowInv'
  <2>1. CASE Thread
    BY <1>2, <2>1, PumpTopKeeps, PumpPtyKeeps, PumpExecKeeps, ReceiveKeeps, HostStepsKeep
       DEF Thread
  <2>2. CASE OpenOrCloseExec \/ OpenOrClosePty \/ HeartbeatTimeout
    BY <1>2, <2>2, HostStepsKeep
  <2>3. CASE Shells
    BY <1>2, <2>3, ShellStepsKeep
  <2>4. CASE Tock
    <3>1. RestType'
      BY <1>2, <2>4 DEF Tock, RestType
    <3> QED
      BY <1>2, <2>4, <3>1, TockKeeps
  <2>5. CASE Client
    BY <1>2, <2>5, ClientStepsKeep
  <2>6. CASE Reconnect
    BY <1>2, <2>6, ReconnectKeeps
  <2>7. CASE UNCHANGED vars
    <3>1. FlowInv'
      BY <1>2, <2>7, FlowUnchanged DEF vars
    <3>2. RestType'
      BY <1>2, <2>7 DEF vars, RestType
    <3> QED
      BY <3>1, <3>2
  <2> QED
    BY <1>2, <2>1, <2>2, <2>3, <2>4, <2>5, <2>6, <2>7 DEF Next
<1> QED
  BY <1>1, <1>2, PTL DEF Spec

(* The variables of the pacing and of both ends keep their types: no count *)
(* goes negative and a drained shell never holds less than nothing.        *)
THEOREM FlowTypeCorrect == Spec => []TypeOK
BY FlowInvariant, Parts, PTL

(* exec_in_flight never underflows and no pending byte is counted twice,   *)
(* for every cap and payload and every report, stale ones included.        *)
THEOREM AccountsAlwaysBalance == Spec => []AccountsBalance
BY FlowInvariant, Parts, PTL

(* The stall clock is armed exactly while something is unconfirmed.        *)
THEOREM StallClockIsArmed == Spec => []StallClockArmed
BY FlowInvariant, Parts, PTL

----------------------------------------------------------------------------
(* The two ends' counts: what is on the link, byte by byte.                *)

(* The bytes of one kind, packet by packet. *)
Lengths(s, ops) == [i \in DOMAIN s |-> IF s[i].op \in ops THEN s[i].len ELSE 0]

(* A count of bytes is a sum of the packets' lengths. *)
LEMMA BytesAreSummed ==
    ASSUME NEW s \in Seq(DownPacket), NEW ops
    PROVE  /\ Bytes(s, ops) = SumFunctionOnSet(Lengths(s, ops), 1..Len(s))
           /\ \A i \in 1..Len(s) : Lengths(s, ops)[i] \in Nat
<1>1. DOMAIN s = 1..Len(s) /\ DOMAIN Lengths(s, ops) = DOMAIN s
  BY DEF Lengths
<1>2. Bytes(s, ops) = SumFunctionOnSet(Lengths(s, ops), DOMAIN Lengths(s, ops))
  BY DEF Bytes, SumFunction, Lengths
<1>3. \A i \in 1..Len(s) : s[i] \in DownPacket
  OBVIOUS
<1> QED
  BY <1>1, <1>2, <1>3 DEF Lengths, DownPacket

(* Packets of consecutive bytes amount to the run from first to last. *)
LEMMA BytesOfARun ==
    ASSUME NEW s \in Seq(DownPacket), NEW ops, NEW b,
           \A i \in 0..Len(s) : b[i] \in Nat,
           \A i \in 1..Len(s) : s[i].op \in ops /\ b[i] = b[i - 1] + s[i].len
    PROVE  Bytes(s, ops) = b[Len(s)] - b[0]
<1> DEFINE g == Lengths(s, ops)
           T == {m \in Nat : m <= Len(s) => SumFunctionOnSet(g, 1..m) = b[m] - b[0]}
<1>1. /\ Bytes(s, ops) = SumFunctionOnSet(g, 1..Len(s))
      /\ \A i \in 1..Len(s) : g[i] \in Nat
  BY BytesAreSummed
<1>2. \A i \in 1..Len(s) : g[i] = s[i].len
  BY DEF Lengths
<1>3. Len(s) \in Nat /\ b[0] \in Nat
  OBVIOUS
<1> HIDE DEF g
<1>4. 0 \in T
  <2>1. 1..0 = {}
    OBVIOUS
  <2>2. SumFunctionOnSet(g, 1..0) = 0
    BY <2>1, SumEmpty
  <2> QED
    BY <1>3, <2>2
<1>5. ASSUME NEW m \in T
      PROVE  m + 1 \in T
  <2> SUFFICES ASSUME m + 1 <= Len(s)
               PROVE  SumFunctionOnSet(g, 1..(m + 1)) = b[m + 1] - b[0]
    OBVIOUS
  <2>1. m \in Nat /\ SumFunctionOnSet(g, 1..m) = b[m] - b[0]
    BY <1>3
  <2>2. \A i \in 1..(m + 1) : g[i] \in Nat
    BY <1>1, <1>3, <2>1
  <2>3. SumFunctionOnSet(g, 1..(m + 1)) = SumFunctionOnSet(g, 1..m) + g[m + 1]
    BY <2>1, <2>2, SumNext
  <2>4. m + 1 \in 1..Len(s) /\ (m + 1) - 1 = m
    BY <1>3, <2>1
  <2>5. g[m + 1] = s[m + 1].len /\ b[m + 1] = b[m] + s[m + 1].len /\ g[m + 1] \in Nat
    BY <1>1, <1>2, <2>4
  <2>6. b[m] \in Nat
    BY <1>3, <2>1
  <2> QED
    BY <1>3, <2>1, <2>3, <2>5, <2>6
<1>6. Len(s) \in T
  <2>1. T \in SUBSET Nat
    OBVIOUS
  <2> HIDE DEF T
  <2>2. \A n \in Nat : n \in T
    BY <1>4, <1>5, <2>1, EveryNatural
  <2> QED
    BY <1>3, <2>2
<1> QED
  BY <1>1, <1>6

(* The link from its last HelloAck on, at k, carries the bytes after those *)
(* the client counted up to those the host counted, b[i] being the count   *)
(* at the end of packet i; and each exec packet that ends past the         *)
(* confirmed count is a pending send.                                      *)
Wire(k, b) ==
    /\ k \in 0..Len(down)
    /\ k > 0 => down[k].op = "HelloAck"
    /\ \A i \in 0..Len(down) : b[i] \in Nat
    /\ b[k] = IF k = 0 THEN decoded ELSE 0
    /\ b[Len(down)] = sent
    /\ \A i \in (k + 1)..Len(down) :
          /\ down[i].op # "HelloAck"
          /\ 0 < down[i].len
          /\ b[i] = b[i - 1] + down[i].len
          /\ down[i].op = "ShellOutput" /\ acked < b[i]
                => [end |-> b[i], len |-> down[i].len] \in pending

WireInv == \E k, b : Wire(k, b)

(* A HelloAck is under way exactly while k points at one. *)
LEMMA AckIsDue ==
    ASSUME RestType, NEW k, NEW b, Wire(k, b)
    PROVE  AckDue <=> k > 0
<1>1. k \in 0..Len(down) /\ Len(down) \in Nat /\ DOMAIN down = 1..Len(down)
  BY DEF Wire, RestType
<1>2. CASE k > 0
  <2>1. k \in DOMAIN down /\ down[k].op = "HelloAck"
    BY <1>1, <1>2 DEF Wire
  <2> QED
    BY <1>2, <2>1 DEF AckDue
<1>3. CASE k = 0
  <2>1. \A i \in DOMAIN down : i \in (k + 1)..Len(down)
    BY <1>1, <1>3
  <2>2. \A i \in DOMAIN down : down[i].op # "HelloAck"
    BY <2>1 DEF Wire
  <2> QED
    BY <1>3, <2>2 DEF AckDue
<1> QED
  BY <1>1, <1>2, <1>3

(* The packets behind the last HelloAck are those from k on. *)
LEMMA SessionFromK ==
    ASSUME RestType, NEW k, NEW b, Wire(k, b)
    PROVE  OfThisSession = IF k = 0 THEN down ELSE SubSeq(down, k + 1, Len(down))
<1> DEFINE acks == {i \in DOMAIN down : down[i].op = "HelloAck"}
<1>1. k \in 0..Len(down) /\ Len(down) \in Nat /\ DOMAIN down = 1..Len(down)
  BY DEF Wire, RestType
<1>2. \A i \in acks : i <= k
  <2> SUFFICES ASSUME NEW i \in acks, ~(i <= k)
               PROVE  FALSE
    OBVIOUS
  <2>1. i \in (k + 1)..Len(down)
    BY <1>1
  <2> QED
    BY <2>1 DEF Wire
<1>3. CASE k = 0
  <2>1. acks = {}
    BY <1>1, <1>2, <1>3
  <2> QED
    BY <1>3, <2>1 DEF OfThisSession
<1>4. CASE k # 0
  <2>1. k \in acks
    BY <1>1, <1>4 DEF Wire
  <2>2. \A x \in acks : (\A y \in acks : x >= y) => x = k
    BY <1>1, <1>2, <2>1
  <2>3. \A y \in acks : k >= y
    BY <1>1, <1>2
  <2>4. Max(acks) = k
    <3> HIDE DEF acks
    <3> QED
      BY <2>1, <2>2, <2>3 DEF Max
  <2>5. acks # {}
    BY <2>1
  <2> QED
    BY <1>4, <2>4, <2>5 DEF OfThisSession
<1> QED
  BY <1>3, <1>4

(* What was sent and not decoded is under way. *)
LEMMA WireCountsTheBytes ==
    ASSUME RestType, FlowInv, WireInv
    PROVE  SameBytesCounted
<1>1. PICK k, b : Wire(k, b)
  BY DEF WireInv
<1> DEFINE n == Len(down)
           s == SubSeq(down, k + 1, n)
           c == [i \in 0..Len(s) |-> b[k + i]]
<1>2. k \in 0..n /\ n \in Nat /\ down \in Seq(DownPacket)
  BY <1>1 DEF Wire, RestType
<1>3. s \in Seq(DownPacket) /\ Len(s) = n - k /\ \A i \in 1..Len(s) : s[i] = down[k + i]
  BY <1>2
<1>4. OfThisSession = s
  <2>1. CASE k = 0
    <3>1. s = down
      BY <1>2, <1>3, <2>1
    <3> QED
      BY <1>1, <2>1, <3>1, SessionFromK
  <2> QED
    BY <1>1, <2>1, SessionFromK
<1> HIDE DEF s
<1>5. \A i \in 0..Len(s) : c[i] \in Nat /\ c[i] = b[k + i]
  BY <1>1, <1>2, <1>3 DEF Wire
<1>6. ASSUME NEW i \in 1..Len(s)
      PROVE  s[i].op \in {"ShellOutput", "PtyOutput"} /\ c[i] = c[i - 1] + s[i].len
  <2>1. k + i \in (k + 1)..n /\ (k + i) - 1 = k + (i - 1) /\ i - 1 \in 0..Len(s)
    BY <1>2, <1>3
  <2>2. down[k + i].op # "HelloAck" /\ b[k + i] = b[(k + i) - 1] + down[k + i].len
    BY <1>1, <2>1 DEF Wire
  <2>3. s[i] \in DownPacket
    BY <1>3
  <2> QED
    BY <1>3, <1>5, <2>1, <2>2, <2>3 DEF DownPacket
<1>7. Bytes(s, {"ShellOutput", "PtyOutput"}) = c[Len(s)] - c[0]
  <2> HIDE DEF c
  <2> QED
    BY <1>3, <1>5, <1>6, BytesOfARun
<1>8. c[Len(s)] = sent /\ c[0] = (IF k = 0 THEN decoded ELSE 0)
  BY <1>1, <1>2, <1>3, <1>5 DEF Wire
<1>9. AckDue <=> k > 0
  BY <1>1, AckIsDue
<1>10. sent \in Nat /\ decoded \in Nat
  BY DEF RestType, FlowInv, FlowType
<1> QED
  BY <1>2, <1>4, <1>7, <1>8, <1>9, <1>10 DEF SameBytesCounted

(* Pending sends are finitely many: no two end at one count. *)
LEMMA PendingIsFinite == FlowInv => IsFiniteSet(pending)
<1> SUFFICES ASSUME FlowInv
             PROVE  IsFiniteSet(pending)
  OBVIOUS
<1> DEFINE f == [p \in pending |-> p.end]
<1>1. sent \in Nat /\ \A p \in pending : p.end \in 1..sent
  BY DEF FlowInv, FlowType, AccountsBalance, Send
<1>2. \A p, q \in pending : p.end = q.end => p = q
  BY DEF FlowInv, AccountsBalance
<1>3. f \in Injection(pending, 1..sent)
  BY <1>1, <1>2 DEF Injection, IsInjective
<1>4. IsFiniteSet(1..sent)
  BY <1>1, FS_Interval
<1> QED
  BY <1>3, <1>4, FS_Injection

(* The unconfirmed bytes, send by send. *)
Owed == [p \in pending |-> Unconfirmed(p)]

(* What is in flight is the sum of what is owed, each a number of bytes. *)
LEMMA FlightIsSummed ==
    ASSUME FlowInv
    PROVE  /\ ExecInFlight = SumFunctionOnSet(Owed, pending)
           /\ \A p \in pending : Owed[p] \in Nat
<1>1. DOMAIN Owed = pending
  BY DEF Owed
<1>2. ExecInFlight = SumFunctionOnSet(Owed, DOMAIN Owed)
  BY DEF ExecInFlight, SumFunction, Owed
<1>3. ASSUME NEW p \in pending
      PROVE  Unconfirmed(p) \in Nat
  <2>1. p.end \in Nat /\ p.len \in Nat /\ acked \in Nat /\ acked < p.end
    BY DEF FlowInv, FlowType, AccountsBalance, Send
  <2> QED
    BY <2>1 DEF Unconfirmed
<1> QED
  BY <1>1, <1>2, <1>3 DEF Owed

(* While the confirmed count is not ahead of the client, every exec packet *)
(* on the link is a pending send, and none of its bytes is confirmed.      *)
LEMMA FlightCoversTheLink ==
    ASSUME RestType, FlowInv, NEW b, Wire(0, b), acked <= decoded
    PROVE  ExecOnWire <= ExecInFlight
<1> DEFINE n == Len(down)
           g == Lengths(down, {"ShellOutput"})
           e(i) == [end |-> b[i], len |-> down[i].len]
           Sends(m) == {e(i) : i \in {j \in 1..m : down[j].op = "ShellOutput"}}
           Covers(m) == /\ Sends(m) \in SUBSET pending
                        /\ decoded <= b[m]
                        /\ \A p \in Sends(m) : p.end <= b[m]
                        /\ SumFunctionOnSet(g, 1..m) = SumFunctionOnSet(Owed, Sends(m))
           T == {m \in Nat : m <= n => Covers(m)}
<1>1. /\ n \in Nat /\ down \in Seq(DownPacket)
      /\ \A i \in 1..n : down[i] \in DownPacket /\ down[i].len \in Nat
  <2>1. down \in Seq(DownPacket)
    BY DEF RestType
  <2>2. \A i \in 1..n : down[i] \in DownPacket
    BY <2>1
  <2>3. \A p \in DownPacket : p.len \in Nat
    BY DEF DownPacket
  <2> QED
    BY <2>1, <2>2, <2>3
<1>2. /\ \A i \in 0..n : b[i] \in Nat
      /\ b[0] = decoded
  BY DEF Wire
<1>3. ASSUME NEW i \in 1..n
      PROVE  /\ 0 < down[i].len
             /\ b[i] = b[i - 1] + down[i].len
             /\ down[i].op = "ShellOutput" /\ acked < b[i] => e(i) \in pending
  <2>1. i \in (0 + 1)..n
    OBVIOUS
  <2> QED
    BY <2>1 DEF Wire
<1>4. /\ ExecOnWire = SumFunctionOnSet(g, 1..n)
      /\ \A i \in 1..n : g[i] \in Nat
  BY <1>1, BytesAreSummed DEF ExecOnWire
<1>5. acked \in Nat /\ decoded \in Nat
  BY DEF FlowInv, FlowType, RestType
<1>6. \A i \in 1..n : g[i] = IF down[i].op = "ShellOutput" THEN down[i].len ELSE 0
  BY <1>1 DEF Lengths
<1> HIDE DEF g
<1>7. Covers(0)
  <2>1. 1..0 = {} /\ Sends(0) = {}
    OBVIOUS
  <2>2. SumFunctionOnSet(g, 1..0) = 0 /\ SumFunctionOnSet(Owed, Sends(0)) = 0
    BY <2>1, SumEmpty, Zenon
  <2> QED
    BY <1>2, <1>5, <2>1, <2>2
<1>8. ASSUME NEW m \in Nat, m + 1 <= n, Covers(m)
      PROVE  Covers(m + 1)
  <2> DEFINE i == m + 1
  <2>1. i \in 1..n /\ m \in 0..n /\ i - 1 = m
    BY <1>1, <1>8
  <2>2. 0 < down[i].len /\ b[i] = b[m] + down[i].len /\ b[m] \in Nat /\ down[i].len \in Nat
    BY <1>1, <1>2, <1>3, <2>1
  <2>3. decoded <= b[i] /\ \A p \in Sends(m) : p.end <= b[i]
    <3>1. b[m] <= b[i] /\ b[i] \in Nat
      BY <2>2
    <3>2. \A p \in Sends(m) : p.end \in Nat
      BY <1>8 DEF FlowInv, FlowType, Send
    <3> QED
      BY <1>5, <1>8, <2>2, <3>1, <3>2
  <2>4. \A k \in 1..i : g[k] \in Nat
    BY <1>1, <1>4, <1>8
  <2>5. /\ SumFunctionOnSet(g, 1..i) = SumFunctionOnSet(g, 1..m) + g[i]
        /\ SumFunctionOnSet(g, 1..m) \in Nat
    BY <2>4, SumNext
  <2>6. CASE down[i].op # "ShellOutput"
    <3>1. \A j \in 1..i : j = i \/ j \in 1..m
      BY <2>1
    <3>2. \A j \in 1..m : j \in 1..i
      BY <2>1
    <3>3. Sends(i) = Sends(m)
      BY <2>6, <3>1, <3>2
    <3>4. g[i] = 0
      BY <1>6, <2>1, <2>6
    <3>5. SumFunctionOnSet(g, 1..i) = SumFunctionOnSet(g, 1..m)
      BY <2>5, <3>4
    <3>6. SumFunctionOnSet(g, 1..i) = SumFunctionOnSet(Owed, Sends(i))
      BY <1>8, <3>3, <3>5, Zenon
    <3>7. Sends(i) \in SUBSET pending /\ \A p \in Sends(i) : p.end <= b[i]
      BY <1>8, <2>3, <3>3, Zenon
    <3> QED
      BY <2>3, <3>6, <3>7, Zenon
  <2>7. CASE down[i].op = "ShellOutput"
    <3>1. \A j \in 1..i : j = i \/ j \in 1..m
      BY <2>1
    <3>2. i \in 1..i /\ \A j \in 1..m : j \in 1..i
      BY <2>1
    <3>3. Sends(i) = Sends(m) \cup {e(i)}
      BY <2>7, <3>1, <3>2
    <3>4. e(i) \in pending
      BY <1>3, <1>5, <1>8, <2>1, <2>2, <2>7
    <3>5. e(i) \notin Sends(m)
      <4>1. e(i).end = b[i] /\ ~(b[i] <= b[m])
        BY <2>2
      <4>2. \A p \in Sends(m) : p.end <= b[m]
        BY <1>8
      <4> HIDE DEF Sends, e
      <4> QED
        BY <4>1, <4>2
    <3>6. Owed[e(i)] = down[i].len
      <4>1. Unconfirmed(e(i)) = down[i].len
        BY <1>5, <1>8, <2>2 DEF Unconfirmed
      <4> QED
        BY <3>4, <4>1 DEF Owed
    <3>7. IsFiniteSet(Sends(m)) /\ \A p \in Sends(m) : Owed[p] \in Nat
      BY <1>8, PendingIsFinite, FlightIsSummed, FS_Subset
    <3>8. SumFunctionOnSet(Owed, Sends(m) \cup {e(i)})
             = SumFunctionOnSet(Owed, Sends(m)) + Owed[e(i)]
      <4>1. Owed[e(i)] \in Nat
        BY <2>2, <3>6
      <4> DEFINE S == Sends(m)
                 x == e(i)
      <4>2. IsFiniteSet(S) /\ x \notin S /\ Owed[x] \in Nat /\ \A p \in S : Owed[p] \in Nat
        BY <3>5, <3>7, <4>1
      <4> HIDE DEF S, x
      <4>3. SumFunctionOnSet(Owed, S \cup {x}) = SumFunctionOnSet(Owed, S) + Owed[x]
        BY <4>2, SumAdd
      <4> QED
        BY <4>3 DEF S, x
    <3>9. g[i] = down[i].len
      BY <1>6, <2>1, <2>7
    <3>10. SumFunctionOnSet(g, 1..i) = SumFunctionOnSet(Owed, Sends(i))
      BY <1>8, <2>5, <3>3, <3>6, <3>8, <3>9, Zenon
    <3>11. Sends(i) \in SUBSET pending /\ \A p \in Sends(i) : p.end <= b[i]
      <4>1. e(i).end <= b[i]
        BY <2>2
      <4> QED
        BY <1>8, <2>3, <3>3, <3>4, <4>1
    <3> QED
      BY <2>3, <3>10, <3>11
  <2> QED
    BY <2>6, <2>7
<1>9. Covers(n)
  <2> HIDE DEF Covers
  <2>1. T \in SUBSET Nat /\ 0 \in T
    BY <1>7
  <2>2. \A m \in T : m + 1 \in T
    BY <1>1, <1>8
  <2> HIDE DEF T
  <2>3. n \in T
    BY <1>1, <2>1, <2>2, EveryNatural
  <2> QED
    BY <1>1, <2>3 DEF T
<1>10. SumFunctionOnSet(Owed, Sends(n)) <= SumFunctionOnSet(Owed, pending)
  <2> DEFINE S == Sends(n)
  <2>1. S \in SUBSET pending /\ IsFiniteSet(pending) /\ \A p \in pending : Owed[p] \in Nat
    BY <1>9, PendingIsFinite, FlightIsSummed
  <2> HIDE DEF S
  <2>2. SumFunctionOnSet(Owed, S) <= SumFunctionOnSet(Owed, pending)
    BY <2>1, SumPart
  <2> QED
    BY <2>2 DEF S
<1> QED
  <2>1. ExecInFlight = SumFunctionOnSet(Owed, pending)
    BY FlightIsSummed
  <2>2. ExecOnWire = SumFunctionOnSet(Owed, Sends(n))
    BY <1>4, <1>9
  <2> QED
    BY <1>10, <2>1, <2>2

----------------------------------------------------------------------------
(* Each step keeps the bytes of the link in order.                         *)

(* The pieces of n bytes end at n. *)
LEMMA PiecesEnd ==
    ASSUME NEW n \in Nat
    PROVE  /\ PieceCount(n) = 0 => n = 0
           /\ PieceCount(n) > 0 => PieceEnd(n, PieceCount(n)) = n
<1> DEFINE m == PieceCount(n)
<1>1. m \in Nat
  BY PiecesStartInside
<1>2. n + Payload - 1 < (m + 1) * Payload
  <2>1. n + Payload - 1 \in Nat
    OBVIOUS
  <2>2. \A a \in Nat : a < ((a \div Payload) + 1) * Payload
    OBVIOUS
  <2> QED
    BY <2>1, <2>2 DEF PieceCount
<1>3. (m + 1) * Payload = m * Payload + Payload /\ m * Payload \in Nat
  BY <1>1
<1>4. n <= m * Payload
  BY <1>2, <1>3
<1>5. m = 0 => m * Payload = 0
  BY <1>1
<1> HIDE DEF m
<1> QED
  BY <1>3, <1>4, <1>5 DEF PieceEnd, m

(* Each piece starts where the one before it ended. *)
LEMMA PiecesFollow ==
    ASSUME NEW n \in Nat, NEW j \in 1..PieceCount(n)
    PROVE  PieceEnd(n, j) = (IF j = 1 THEN 0 ELSE PieceEnd(n, j - 1)) + PieceLen(n, j)
<1>1. /\ PieceCount(n) \in Nat
      /\ (j - 1) * Payload \in Nat /\ (j - 1) * Payload < n
  BY PiecesStartInside
<1>2. /\ PieceEnd(n, j) \in Nat /\ PieceLen(n, j) \in Nat
      /\ PieceEnd(n, j) - PieceLen(n, j) = (j - 1) * Payload
  BY PieceShape
<1>3. CASE j = 1
  <2>1. (j - 1) * Payload = 0
    BY <1>3
  <2> QED
    BY <1>2, <1>3, <2>1
<1>4. CASE j # 1
  <2>1. PieceEnd(n, j - 1) = (j - 1) * Payload
    BY <1>1 DEF PieceEnd
  <2> QED
    BY <1>1, <1>2, <1>4, <2>1
<1> QED
  BY <1>3, <1>4

(* Nothing sent or decoded, and the confirmed count no lower: pending sends *)
(* past it stay pending.                                                   *)
LEMMA WireKept ==
    ASSUME RestType, FlowInv, WireInv, UNCHANGED <<down, decoded, sent>>,
           acked' \in Nat, acked <= acked',
           \A p \in pending : acked' < p.end => p \in pending'
    PROVE  WireInv'
<1>1. PICK k, b : Wire(k, b)
  BY DEF WireInv
<1>2. Len(down) \in Nat /\ acked \in Nat
  BY DEF RestType, FlowInv, FlowType
<1>3. ASSUME NEW i \in (k + 1)..Len(down), down[i].op = "ShellOutput", acked' < b[i]
      PROVE  [end |-> b[i], len |-> down[i].len] \in pending'
  <2>1. i \in 0..Len(down) /\ b[i] \in Nat
    BY <1>1, <1>2 DEF Wire
  <2>2. acked < b[i]
    BY <1>2, <1>3, <2>1
  <2>3. [end |-> b[i], len |-> down[i].len] \in pending
    BY <1>1, <1>3, <2>2 DEF Wire
  <2> QED
    BY <1>3, <2>3
<1>4. Wire(k, b)'
  BY <1>1, <1>3 DEF Wire
<1> QED
  BY <1>4 DEF WireInv

(* Steps that leave both counts alone. *)
LEMMA WireUnchanged ==
    ASSUME RestType, FlowInv, WireInv, UNCHANGED <<flow, down, decoded>>
    PROVE  WireInv'
<1>1. acked \in Nat
  BY DEF FlowInv, FlowType
<1> QED
  BY <1>1, WireKept

(* A report, or giving up on one. *)
LEMMA WireConfirmed ==
    ASSUME RestType, FlowInv, WireInv, UNCHANGED <<down, decoded>>,
           Release \/ \E bytes \in Nat : OnReport(bytes)
    PROVE  WireInv'
<1>1. /\ acked \in Nat /\ sent \in Nat /\ acked <= sent
      /\ \A p \in pending : p.end \in Nat /\ p.end <= sent
  BY DEF FlowInv, FlowType, AccountsBalance, Send
<1>2. CASE Release
  <2>1. CASE StallIsOver
    <3>1. acked' = sent /\ sent' = sent
      BY <1>2, <2>1 DEF Release
    <3>2. \A p \in pending : acked' < p.end => p \in pending'
      BY <1>1, <3>1
    <3> QED
      BY <1>1, <3>1, <3>2, WireKept
  <2>2. CASE ~StallIsOver
    BY <1>2, <2>2, WireUnchanged DEF Release
  <2> QED
    BY <2>1, <2>2
<1>3. ASSUME NEW bytes \in Nat, OnReport(bytes)
      PROVE  WireInv'
  <2>1. Confirmed(bytes) \in Nat
    BY <1>1 DEF Confirmed
  <2>2. sent' = sent
    BY <1>3 DEF OnReport
  <2>3. CASE Confirmed(bytes) > acked
    <3>1. /\ acked' = Confirmed(bytes)
          /\ pending' = {p \in pending : p.end > Confirmed(bytes)}
      BY <1>3, <2>3 DEF OnReport
    <3>2. \A p \in pending : acked' < p.end => p \in pending'
      BY <1>1, <2>1, <3>1
    <3> QED
      BY <1>1, <2>1, <2>2, <2>3, <3>1, <3>2, WireKept
  <2>4. CASE ~(Confirmed(bytes) > acked)
    <3>1. acked' = acked /\ pending' = pending
      BY <1>3, <2>4 DEF OnReport
    <3> QED
      BY <1>1, <2>2, <3>1, WireKept
  <2> QED
    BY <2>3, <2>4
<1> QED
  BY <1>2, <1>3

(* A handshake: nothing follows its HelloAck yet. *)
LEMMA WireRestarts ==
    ASSUME RestType, FlowNew, down' = Append(down, [op |-> "HelloAck", len |-> 0])
    PROVE  WireInv'
<1>1. PICK k : k = Len(down) + 1
  OBVIOUS
<1>2. PICK b : b = [i \in 0..k |-> 0]
  OBVIOUS
<1>3. Len(down) \in Nat /\ Len(down') = k /\ down'[k].op = "HelloAck"
  BY <1>1 DEF RestType
<1>4. sent' = 0
  BY DEF FlowNew
<1>5. k \in 0..k /\ k > 0 /\ (\A i \in 0..k : b[i] = 0) /\ (k + 1)..k = {}
  BY <1>1, <1>2, <1>3
<1>6. Wire(k, b)'
  BY <1>3, <1>4, <1>5 DEF Wire
<1> QED
  BY <1>6 DEF WireInv

(* A link of its own. *)
LEMMA WireReopens ==
    ASSUME FlowNew, down' = <<>>, decoded' = 0
    PROVE  WireInv'
<1> DEFINE b == [i \in 0..0 |-> 0]
<1>1. b[0] = 0 /\ Len(down') = 0 /\ sent' = 0 /\ (0 + 1)..0 = {} /\ 0..0 = {0}
  BY DEF FlowNew
<1> HIDE DEF b
<1>2. Wire(0, b)'
  BY <1>1 DEF Wire
<1> QED
  BY <1>2 DEF WireInv

(* Packets put behind others on the link. *)
LEMMA PacketsFollow ==
    ASSUME NEW s \in Seq(DownPacket), NEW t \in Seq(DownPacket)
    PROVE  /\ s \o t \in Seq(DownPacket)
           /\ Len(s \o t) = Len(s) + Len(t)
           /\ \A i \in 1..Len(s) : (s \o t)[i] = s[i]
           /\ \A j \in 1..Len(t) : (s \o t)[Len(s) + j] = t[j]
<1>1. /\ Len(s) \in Nat /\ Len(t) \in Nat
      /\ s \o t \in Seq(DownPacket) /\ Len(s \o t) = Len(s) + Len(t)
  OBVIOUS
<1>2. ASSUME NEW i \in 1..Len(s)
      PROVE  (s \o t)[i] = s[i]
  OBVIOUS
<1>3. ASSUME NEW j \in 1..Len(t)
      PROVE  (s \o t)[Len(s) + j] = t[j]
  <2>1. /\ Len(s) + j \in 1..(Len(s) + Len(t)) /\ ~(Len(s) + j <= Len(s))
        /\ (Len(s) + j) - Len(s) = j
    BY <1>1
  <2> QED
    BY <2>1
<1> QED
  BY <1>1, <1>2, <1>3

(* Output sent: its pieces follow the packets already on the link, and     *)
(* those of exec are pending.                                              *)
LEMMA WirePumped ==
    ASSUME RestType, FlowInv, WireInv, UNCHANGED decoded,
           NEW slot, NEW op \in {"ShellOutput", "PtyOutput"}, NEW n \in Nat,
           op = "ShellOutput" => slot = "exec",
           NoteSent(slot, n), down' = down \o Pieces(op, n)
    PROVE  WireInv'
<1>1. PICK k, b : Wire(k, b)
  BY DEF WireInv
<1>2. PICK d : d = Len(down)
  OBVIOUS
<1>3. PICK m : m = PieceCount(n)
  OBVIOUS
<1>4. PICK c : c = [i \in 0..(d + m) |-> IF i <= d THEN b[i] ELSE sent + PieceEnd(n, i - d)]
  OBVIOUS
<1>5. d \in Nat /\ m \in Nat /\ d + m \in Nat
  <2>1. d \in Nat
    BY <1>2 DEF RestType
  <2>2. m \in Nat
    BY <1>3, PiecesStartInside
  <2> QED
    BY <2>1, <2>2
<1>6. /\ Len(Pieces(op, n)) = m
      /\ \A j \in 1..m : Pieces(op, n)[j] = [op |-> op, len |-> PieceLen(n, j)]
  BY <1>3, <1>5 DEF Pieces
<1>7. Pieces(op, n) \in Seq(DownPacket) /\ down \in Seq(DownPacket)
  BY PiecesType DEF RestType
<1>8. /\ Len(down') = d + m
      /\ \A i \in 1..d : down'[i] = down[i]
      /\ \A j \in 1..m : down'[d + j] = Pieces(op, n)[j]
  <2>1. PICK s \in Seq(DownPacket) : s = down
    BY <1>7
  <2>2. PICK P \in Seq(DownPacket) : P = Pieces(op, n)
    BY <1>7
  <2>3. Len(s) = d /\ Len(P) = m /\ down' = s \o P
    BY <1>2, <1>6, <2>1, <2>2
  <2>4. /\ Len(s \o P) = d + m
        /\ \A i \in 1..d : (s \o P)[i] = s[i]
        /\ \A j \in 1..m : (s \o P)[d + j] = P[j]
    BY <1>5, <2>3, PacketsFollow
  <2> QED
    BY <2>1, <2>2, <2>3, <2>4, Zenon
<1>9. /\ sent \in Nat /\ sent' = sent + n /\ acked' = acked /\ acked \in Nat
      /\ \A p \in pending : p \in pending'
  BY DEF NoteSent, FlowInv, FlowType
<1>10. /\ k \in 0..d /\ b[d] = sent /\ \A i \in 0..d : b[i] \in Nat
       /\ k > 0 => down[k].op = "HelloAck"
       /\ b[k] = IF k = 0 THEN decoded ELSE 0
  BY <1>1, <1>2 DEF Wire
<1>11. /\ \A i \in 0..d : c[i] = b[i]
       /\ \A j \in 1..m : c[d + j] = sent + PieceEnd(n, j)
  <2>1. \A i \in 0..d : i \in 0..(d + m) /\ i <= d
    BY <1>5
  <2>2. \A j \in 1..m : d + j \in 0..(d + m) /\ ~(d + j <= d) /\ (d + j) - d = j
    BY <1>5
  <2>3. ASSUME NEW j \in 1..m
        PROVE  c[d + j] = sent + PieceEnd(n, j)
    <3>1. c[d + j] = sent + PieceEnd(n, (d + j) - d)
      BY <1>4, <2>2
    <3> QED
      BY <2>2, <3>1
  <2> QED
    BY <1>4, <2>1, <2>3
<1>12. \A i \in 0..(d + m) : c[i] \in Nat
  <2>1. ASSUME NEW i \in 0..(d + m), ~(i \in 0..d)
        PROVE  c[i] \in Nat
    <3>1. i - d \in 1..m /\ d + (i - d) = i
      BY <1>5, <2>1
    <3>2. PieceEnd(n, i - d) \in Nat
      BY <1>3, <3>1, PieceShape
    <3>3. c[i] = sent + PieceEnd(n, i - d)
      BY <1>11, <3>1
    <3> QED
      BY <1>9, <3>2, <3>3
  <2> QED
    BY <1>10, <1>11, <2>1
<1>13. c[d + m] = sent'
  <2>1. CASE m = 0
    <3>1. n = 0
      BY <1>3, <2>1, PiecesEnd
    <3>2. d + m = d /\ d \in 0..d
      BY <1>5, <2>1
    <3> QED
      BY <1>9, <1>10, <1>11, <3>1, <3>2
  <2>2. CASE m # 0
    <3>1. m \in 1..m
      BY <1>5, <2>2
    <3>2. PieceEnd(n, m) = n
      BY <1>3, <1>5, <2>2, PiecesEnd
    <3> QED
      BY <1>9, <1>11, <3>1, <3>2
  <2> QED
    BY <2>1, <2>2
<1>14. ASSUME NEW i \in (k + 1)..d
       PROVE  /\ down'[i].op # "HelloAck"
              /\ 0 < down'[i].len
              /\ c[i] = c[i - 1] + down'[i].len
              /\ down'[i].op = "ShellOutput" /\ acked' < c[i]
                    => [end |-> c[i], len |-> down'[i].len] \in pending'
  <2>1. i \in 1..d /\ i \in 0..d /\ i - 1 \in 0..d
    BY <1>5, <1>10
  <2>2. down'[i] = down[i] /\ c[i] = b[i] /\ c[i - 1] = b[i - 1]
    BY <1>8, <1>11, <2>1
  <2>3. /\ down[i].op # "HelloAck"
        /\ 0 < down[i].len
        /\ b[i] = b[i - 1] + down[i].len
        /\ down[i].op = "ShellOutput" /\ acked < b[i]
              => [end |-> b[i], len |-> down[i].len] \in pending
    BY <1>1, <1>2 DEF Wire
  <2> QED
    BY <1>9, <2>2, <2>3
<1>15. ASSUME NEW j \in 1..m
       PROVE  /\ down'[d + j].op # "HelloAck"
              /\ 0 < down'[d + j].len
              /\ c[d + j] = c[(d + j) - 1] + down'[d + j].len
              /\ down'[d + j].op = "ShellOutput"
                    => [end |-> c[d + j], len |-> down'[d + j].len] \in pending'
  <2>1. down'[d + j].op = op /\ down'[d + j].len = PieceLen(n, j)
    <3>1. down'[d + j] = [op |-> op, len |-> PieceLen(n, j)]
      BY <1>6, <1>8, Zenon
    <3> QED
      BY <3>1
  <2>2. 0 < PieceLen(n, j) /\ PieceLen(n, j) \in Nat /\ PieceEnd(n, j) \in Nat
    BY <1>3, PieceShape
  <2>3. PieceEnd(n, j) = (IF j = 1 THEN 0 ELSE PieceEnd(n, j - 1)) + PieceLen(n, j)
    BY <1>3, PiecesFollow
  <2>4. op = "ShellOutput" => [end |-> c[d + j], len |-> down'[d + j].len] \in pending'
    <3>1. c[d + j] = sent + PieceEnd(n, j)
      BY <1>11
    <3> QED
      BY <1>3, <2>1, <3>1 DEF NoteSent
  <2>5. CASE j = 1
    <3>1. (d + j) - 1 = d /\ d \in 0..d
      BY <1>5, <2>5
    <3>2. c[(d + j) - 1] = sent
      BY <1>10, <1>11, <3>1
    <3> QED
      BY <1>9, <1>11, <2>1, <2>2, <2>3, <2>4, <2>5, <3>2
  <2>6. CASE j # 1
    <3>1. (d + j) - 1 = d + (j - 1) /\ j - 1 \in 1..m
      BY <1>5, <2>6
    <3>2. c[(d + j) - 1] = sent + PieceEnd(n, j - 1)
      BY <1>11, <3>1
    <3>3. PieceEnd(n, j - 1) \in Nat
      BY <1>3, <3>1, PieceShape
    <3>4. c[d + j] = c[(d + j) - 1] + PieceLen(n, j)
      BY <1>9, <1>11, <2>2, <2>3, <2>6, <3>2, <3>3
    <3> QED
      BY <2>1, <2>2, <2>4, <3>4
  <2> QED
    BY <2>5, <2>6
<1>16. ASSUME NEW i \in (k + 1)..(d + m)
       PROVE  /\ down'[i].op # "HelloAck"
              /\ 0 < down'[i].len
              /\ c[i] = c[i - 1] + down'[i].len
              /\ down'[i].op = "ShellOutput" /\ acked' < c[i]
                    => [end |-> c[i], len |-> down'[i].len] \in pending'
  <2>1. CASE i \in (k + 1)..d
    BY <1>14, <2>1
  <2>2. CASE ~(i \in (k + 1)..d)
    <3>1. i - d \in 1..m /\ d + (i - d) = i
      BY <1>5, <1>10, <2>2
    <3> DEFINE j == i - d
    <3>2. j \in 1..m /\ d + j = i
      BY <3>1
    <3> HIDE DEF j
    <3> QED
      BY <1>15, <3>2
  <2> QED
    BY <2>1, <2>2
<1>17. k \in 0..(d + m) /\ (k > 0 => down'[k].op = "HelloAck")
  <2>1. k > 0 => k \in 1..d
    BY <1>10
  <2> QED
    BY <1>5, <1>8, <1>10, <2>1
<1>18. c[k] = IF k = 0 THEN decoded' ELSE 0
  BY <1>10, <1>11
<1>19. Wire(k, c)'
  BY <1>8, <1>12, <1>13, <1>16, <1>17, <1>18 DEF Wire
<1> QED
  BY <1>19 DEF WireInv

(* The client taking a packet in: its count moves past it, or starts over. *)
LEMMA WireDecoded ==
    ASSUME RestType, FlowInv, WireInv, Decode
    PROVE  WireInv'
<1>1. PICK k, b : Wire(k, b)
  BY DEF WireInv
<1>2. PICK d : d = Len(down)
  OBVIOUS
<1>3. PICK c : c = [i \in 0..(d - 1) |-> b[i + 1]]
  OBVIOUS
<1>4. /\ down \in Seq(DownPacket) /\ down # <<>> /\ down' = Tail(down)
      /\ sent' = sent /\ acked' = acked /\ pending' = pending
  BY DEF Decode, RestType
<1>5. d \in Nat /\ d >= 1 /\ d - 1 \in Nat /\ Len(down') = d - 1
  BY <1>2, <1>4
<1>6. \A i \in 1..(d - 1) : down'[i] = down[i + 1]
  BY <1>2, <1>4, <1>5
<1>7. \A i \in 0..(d - 1) : c[i] = b[i + 1] /\ c[i] \in Nat
  <2>1. \A i \in 0..(d - 1) : i + 1 \in 0..d
    BY <1>5
  <2>2. \A i \in 0..d : b[i] \in Nat
    BY <1>1, <1>2 DEF Wire
  <2> QED
    BY <1>3, <2>1, <2>2
<1>8. c[d - 1] = sent'
  <2>1. d - 1 \in 0..(d - 1) /\ (d - 1) + 1 = d
    BY <1>5
  <2>2. b[d] = sent
    BY <1>1, <1>2 DEF Wire
  <2> QED
    BY <1>4, <1>7, <2>1, <2>2
<1>9. ASSUME NEW i \in 1..(d - 1), i >= k
      PROVE  /\ down'[i].op # "HelloAck"
             /\ 0 < down'[i].len
             /\ c[i] = c[i - 1] + down'[i].len
             /\ down'[i].op = "ShellOutput" /\ acked' < c[i]
                   => [end |-> c[i], len |-> down'[i].len] \in pending'
  <2> DEFINE j == i + 1
  <2>1. k \in 0..d
    BY <1>1, <1>2 DEF Wire
  <2>2. j \in (k + 1)..d /\ j - 1 = (i - 1) + 1 /\ i \in 0..(d - 1) /\ i - 1 \in 0..(d - 1)
    BY <1>5, <1>9, <2>1
  <2>3. down'[i] = down[j] /\ c[i] = b[j] /\ c[i - 1] = b[j - 1]
    BY <1>6, <1>7, <2>2
  <2> HIDE DEF j
  <2>4. /\ down[j].op # "HelloAck"
        /\ 0 < down[j].len
        /\ b[j] = b[j - 1] + down[j].len
        /\ down[j].op = "ShellOutput" /\ acked < b[j]
              => [end |-> b[j], len |-> down[j].len] \in pending
    BY <1>1, <1>2, <2>2 DEF Wire
  <2> QED
    <3>1. \A x, y : down'[i] = x /\ c[i] = y =>
             [end |-> c[i], len |-> down'[i].len] = [end |-> y, len |-> x.len]
      OBVIOUS
    <3>2. [end |-> c[i], len |-> down'[i].len] = [end |-> b[j], len |-> down[j].len]
      BY <2>3, <3>1
    <3>3. down'[i].op # "HelloAck" /\ 0 < down'[i].len /\ c[i] = c[i - 1] + down'[i].len
      BY <2>3, <2>4
    <3> QED
      BY <1>4, <2>3, <2>4, <3>2, <3>3
<1>10. k \in 0..d /\ (k > 0 => down[k].op = "HelloAck")
       /\ b[k] = IF k = 0 THEN decoded ELSE 0
  BY <1>1, <1>2 DEF Wire
<1>11. Head(down) = down[1] /\ 0 \in 0..(d - 1) /\ c[0] = b[1]
  BY <1>4, <1>5, <1>7
<1>12. CASE k <= 1
  <2>1. \A i \in (0 + 1)..(d - 1) : i \in 1..(d - 1) /\ i >= k
    BY <1>10, <1>12
  <2>2. c[0] = decoded'
    <3>1. CASE k = 1
      <4>1. decoded' = 0
        BY <1>10, <1>11, <3>1 DEF Decode, ReporterReset
      <4> QED
        BY <1>10, <1>11, <3>1, <4>1
    <3>2. CASE k = 0
      <4>1. 1 \in (k + 1)..d /\ 1 - 1 = 0
        BY <1>5, <3>2
      <4>2. down[1].op # "HelloAck" /\ b[1] = b[1 - 1] + down[1].len
        BY <1>1, <1>2, <4>1 DEF Wire
      <4>3. decoded' = decoded + down[1].len
        BY <1>11, <4>2 DEF Decode
      <4> QED
        BY <1>10, <1>11, <3>2, <4>1, <4>2, <4>3
    <3> QED
      BY <1>10, <1>12, <3>1, <3>2
  <2>3. 0 \in 0..(d - 1)
    BY <1>5
  <2>4. Wire(0, c)'
    BY <1>5, <1>7, <1>8, <1>9, <2>1, <2>2, <2>3 DEF Wire
  <2> QED
    BY <2>4 DEF WireInv
<1>13. CASE k > 1
  <2>1. PICK q : q = k - 1
    OBVIOUS
  <2>2. q \in 0..(d - 1) /\ q > 0 /\ q + 1 = k /\ q \in 1..(d - 1)
    BY <1>5, <1>10, <1>13, <2>1
  <2>3. \A i \in (q + 1)..(d - 1) : i \in 1..(d - 1) /\ i >= k
    BY <1>10, <2>2
  <2>4. down'[q].op = "HelloAck" /\ c[q] = 0
    BY <1>6, <1>7, <1>10, <1>13, <2>2
  <2>5. Wire(q, c)'
    BY <1>5, <1>7, <1>8, <1>9, <2>2, <2>3, <2>4 DEF Wire
  <2> QED
    BY <2>5 DEF WireInv
<1> QED
  BY <1>10, <1>12, <1>13

----------------------------------------------------------------------------
(* What the reports under way count.                                       *)

(* A report of the host's own session that no Hello is in front of. *)
Counted(s, i) ==
    /\ s[i].op = "RxProgress" /\ s[i].of = "this"
    /\ \A j \in 1..(i - 1) : s[j].op # "Hello"

ReportsInTime ==
    \A i \in DOMAIN up : Counted(up, i) => ~AckDue /\ up[i].bytes <= decoded

AnsweredBeforePaced == misled = "no" /\ peer = "reports" => ~AckDue

ConfirmedIsDecoded ==
    misled = "no" /\ trust = "moving" => acked <= (IF AckDue THEN 0 ELSE decoded)

(* A report in time follows the HelloAck and counts no more than was       *)
(* decoded; so does what it confirmed, until a report misleads the host or *)
(* the host gives up waiting.                                              *)
ReportInv == ReportsInTime /\ AnsweredBeforePaced /\ ConfirmedIsDecoded

(* Taking the head off leaves the reports behind it as they were. *)
LEMMA CountedBehind ==
    ASSUME NEW s \in Seq(UpPacket), s # <<>>, s[1].op # "Hello",
           NEW i \in DOMAIN Tail(s), Counted(Tail(s), i)
    PROVE  /\ i + 1 \in DOMAIN s /\ Counted(s, i + 1)
           /\ Tail(s)[i] = s[i + 1]
<1>1. /\ Len(s) \in Nat /\ Len(s) >= 1 /\ DOMAIN s = 1..Len(s)
      /\ Len(Tail(s)) = Len(s) - 1 /\ DOMAIN Tail(s) = 1..(Len(s) - 1)
  OBVIOUS
<1>2. \A j \in 1..(Len(s) - 1) : Tail(s)[j] = s[j + 1]
  OBVIOUS
<1>3. i \in 1..(Len(s) - 1) /\ i + 1 \in 1..Len(s) /\ (i + 1) - 1 = i
  BY <1>1
<1>4. s[i + 1].op = "RxProgress" /\ s[i + 1].of = "this"
  BY <1>2, <1>3 DEF Counted
<1>5. ASSUME NEW j \in 1..i
      PROVE  s[j].op # "Hello"
  <2>1. CASE j = 1
    BY <2>1
  <2>2. CASE j # 1
    <3>1. j - 1 \in 1..(i - 1) /\ j - 1 \in 1..(Len(s) - 1) /\ (j - 1) + 1 = j
      BY <1>1, <1>3, <2>2
    <3>2. Tail(s)[j - 1].op # "Hello"
      BY <3>1 DEF Counted
    <3> QED
      BY <1>2, <3>1, <3>2
  <2> QED
    BY <2>1, <2>2
<1> QED
  BY <1>1, <1>2, <1>3, <1>4, <1>5 DEF Counted

(* A Hello among the packets: the reports in front of it are as they were, *)
(* those behind it no longer count for the session.                        *)
LEMMA CountedAroundHello ==
    ASSUME NEW s \in Seq(UpPacket), NEW i \in 1..Len(s) + 1,
           NEW j \in DOMAIN InsertAt(s, i, Hello), Counted(InsertAt(s, i, Hello), j)
    PROVE  /\ j \in DOMAIN s /\ Counted(s, j)
           /\ InsertAt(s, i, Hello)[j] = s[j]
<1> DEFINE t == InsertAt(s, i, Hello)
           a == SubSeq(s, 1, i - 1)
           c == SubSeq(s, i, Len(s))
<1>1. Hello \in UpPacket /\ Hello.op = "Hello"
  BY DEF Hello, UpPacket
<1>2. /\ a \in Seq(UpPacket) /\ Len(a) = i - 1
      /\ \A k \in 1..(i - 1) : a[k] = s[k]
  OBVIOUS
<1>3. c \in Seq(UpPacket) /\ Len(c) \in Nat
  OBVIOUS
<1>4. t = (a \o <<Hello>>) \o c
  BY DEF InsertAt
<1> HIDE DEF a, c
<1>5. PICK h : h = a \o <<Hello>>
  OBVIOUS
<1>6. /\ h \in Seq(UpPacket) /\ Len(h) = i
      /\ \A k \in 1..(i - 1) : h[k] = a[k]
      /\ h[i] = Hello
  <2>1. h \in Seq(UpPacket) /\ Len(h) = i
    BY <1>1, <1>2, <1>5
  <2>2. h = Append(a, Hello)
    BY <1>1, <1>2, <1>5
  <2> QED
    BY <1>1, <1>2, <2>1, <2>2
<1>7. /\ t = h \o c
      /\ \A k \in 1..i : t[k] = h[k]
  <2>1. t = h \o c
    BY <1>4, <1>5
  <2>2. \A k \in 1..i : (h \o c)[k] = h[k]
    <3> TAKE k \in 1..i
    <3>1. k \in 1..(Len(h) + Len(c)) /\ k <= Len(h)
      BY <1>3, <1>6
    <3> QED
      BY <1>3, <1>6, <3>1
  <2> QED
    BY <2>1, <2>2
<1>8. j \in Nat /\ j >= 1 /\ i \in Nat /\ i >= 1 /\ i - 1 <= Len(s) /\ Len(s) \in Nat
  <2>1. t \in Seq(UpPacket)
    BY <1>3, <1>6, <1>7
  <2>2. DOMAIN t = 1..Len(t) /\ Len(t) \in Nat
    BY <2>1
  <2> HIDE DEF t
  <2>3. j \in DOMAIN t
    BY DEF t
  <2>4. Len(s) \in Nat
    OBVIOUS
  <2> QED
    BY <2>2, <2>3, <2>4
<1>9. t[i].op = "Hello"
  <2>1. i \in 1..i
    BY <1>8
  <2> QED
    BY <1>1, <1>6, <1>7, <2>1
<1>10. /\ t[j].op = "RxProgress" /\ t[j].of = "this"
       /\ \A k \in 1..(j - 1) : t[k].op # "Hello"
  BY DEF Counted
<1> HIDE DEF t
<1>11. j < i
  <2>1. j # i
    BY <1>9, <1>10
  <2>2. ~(i < j)
    <3> SUFFICES ASSUME i < j
                 PROVE  FALSE
      OBVIOUS
    <3>1. i \in 1..(j - 1)
      BY <1>8
    <3> QED
      BY <1>9, <1>10, <3>1
  <2> QED
    BY <1>8, <2>1, <2>2
<1>12. \A k \in 1..j : k \in 1..i /\ k \in 1..(i - 1) /\ t[k] = s[k]
  <2> TAKE k \in 1..j
  <2>1. k \in 1..i /\ k \in 1..(i - 1)
    BY <1>8, <1>11
  <2> QED
    BY <1>2, <1>6, <1>7, <2>1
<1>13. j \in 1..j /\ (\A k \in 1..(j - 1) : k \in 1..j) /\ j \in 1..Len(s)
  BY <1>8, <1>11
<1>14. t[j] = s[j] /\ \A k \in 1..(j - 1) : t[k] = s[k]
  BY <1>12, <1>13
<1>15. Counted(s, j)
  BY <1>10, <1>14 DEF Counted
<1>16. DOMAIN s = 1..Len(s)
  OBVIOUS
<1> QED
  BY <1>13, <1>14, <1>15, <1>16 DEF t

(* Steps that leave the link up and what the reports confirmed alone. *)
LEMMA ReportsUnchanged ==
    ASSUME ReportInv, UNCHANGED <<up, decoded, misled, acked, peer, trust>>,
           AckDue' <=> AckDue
    PROVE  ReportInv'
BY DEF ReportInv, ReportsInTime, AnsweredBeforePaced, ConfirmedIsDecoded

(* Output sent is no answer to a Hello. *)
LEMMA OutputIsNoAck ==
    ASSUME RestType, NEW op \in {"ShellOutput", "PtyOutput"}, NEW n \in Nat,
           down' = down \o Pieces(op, n)
    PROVE  AckDue' <=> AckDue
<1>1. PICK s \in Seq(DownPacket) : s = down
  BY DEF RestType
<1>2. PICK t \in Seq(DownPacket) : t = Pieces(op, n)
  BY PiecesType
<1>3. \A j \in 1..Len(t) : t[j].op # "HelloAck"
  <2>1. PieceCount(n) \in Nat
    BY PiecesStartInside
  <2> QED
    BY <1>2, <2>1 DEF Pieces
<1>4. /\ Len(s) \in Nat /\ Len(t) \in Nat
      /\ DOMAIN s = 1..Len(s)
  OBVIOUS
<1>5. PICK u \in Seq(DownPacket) : u = s \o t
  BY PacketsFollow
<1>6. /\ Len(u) = Len(s) + Len(t)
      /\ \A i \in 1..Len(s) : u[i] = s[i]
      /\ \A j \in 1..Len(t) : u[Len(s) + j] = t[j]
  BY <1>5, PacketsFollow
<1>7. \A i \in 1..Len(u) : u[i].op = "HelloAck" => i \in 1..Len(s)
  <2> SUFFICES ASSUME NEW i \in 1..Len(u), ~(i \in 1..Len(s))
               PROVE  u[i].op # "HelloAck"
    OBVIOUS
  <2>1. i - Len(s) \in 1..Len(t) /\ Len(s) + (i - Len(s)) = i
    BY <1>4, <1>6
  <2>2. u[Len(s) + (i - Len(s))] = t[i - Len(s)]
    BY <1>6, <2>1
  <2>3. u[i] = t[i - Len(s)]
    BY <2>1, <2>2
  <2> QED
    BY <1>3, <2>1, <2>3
<1>8. DOMAIN u = 1..Len(u) /\ \A i \in 1..Len(s) : i \in 1..Len(u)
  BY <1>4, <1>6
<1>9. down = s /\ down' = u
  BY <1>1, <1>2, <1>5
<1> QED
  BY <1>4, <1>6, <1>7, <1>8, <1>9 DEF AckDue

----------------------------------------------------------------------------
(* Each step keeps the order of the link's bytes and what reports count.   *)

LinkInv == RestType /\ FlowInv /\ WireInv /\ ReportInv

(* A tick starts by giving up on a stalled client. *)
LEMMA PumpTopOnLink == LinkInv /\ PumpTop => WireInv' /\ ReportInv'
<1> SUFFICES ASSUME LinkInv, PumpTop
             PROVE  WireInv' /\ ReportInv'
  OBVIOUS
<1> USE DEF LinkInv
<1>1. /\ Release
      /\ down' = down /\ decoded' = decoded /\ up' = up /\ misled' = misled
  BY DEF PumpTop
<1>2. WireInv'
  BY <1>1, WireConfirmed
<1>3. AckDue' <=> AckDue
  BY <1>1 DEF AckDue
<1>4. CASE StallIsOver
  <2>1. trust' = "stalled" /\ peer' = peer
    BY <1>1, <1>4 DEF Release
  <2> QED
    BY <1>1, <1>2, <1>3, <2>1
       DEF ReportInv, ReportsInTime, AnsweredBeforePaced, ConfirmedIsDecoded
<1>5. CASE ~StallIsOver
  <2>1. UNCHANGED <<acked, peer, trust>>
    BY <1>1, <1>5 DEF Release
  <2> QED
    BY <1>1, <1>2, <1>3, <2>1, ReportsUnchanged
<1> QED
  BY <1>4, <1>5

(* Output sent from either slot. *)
LEMMA OutputOnLink ==
    ASSUME LinkInv, NEW slot, NEW op \in {"ShellOutput", "PtyOutput"}, NEW n \in Nat,
           op = "ShellOutput" => slot = "exec",
           NoteSent(slot, n), down' = down \o Pieces(op, n),
           UNCHANGED <<up, decoded, misled>>
    PROVE  WireInv' /\ ReportInv'
<1> USE DEF LinkInv
<1>1. WireInv'
  BY WirePumped
<1>2. AckDue' <=> AckDue
  BY OutputIsNoAck
<1>3. UNCHANGED <<acked, peer, trust>>
  BY DEF NoteSent
<1> QED
  BY <1>1, <1>2, <1>3, ReportsUnchanged

(* Steps that leave the accounting, the link and the client's count alone. *)
LEMMA QuietOnLink ==
    ASSUME LinkInv, UNCHANGED <<flow, down, up, decoded, misled>>
    PROVE  WireInv' /\ ReportInv'
<1> USE DEF LinkInv
<1>1. WireInv'
  BY WireUnchanged
<1>2. AckDue' <=> AckDue
  BY DEF AckDue
<1> QED
  BY <1>1, <1>2, ReportsUnchanged

(* The console's share of a tick. *)
LEMMA PumpPtyOnLink == LinkInv /\ PumpPty => WireInv' /\ ReportInv'
<1> SUFFICES ASSUME LinkInv, PumpPty
             PROVE  WireInv' /\ ReportInv'
  OBVIOUS
<1>1. UNCHANGED <<up, decoded, misled>>
  BY DEF PumpPty
<1>2. CASE pty = None
  <2>1. UNCHANGED <<flow, down>>
    BY <1>2 DEF PumpPty
  <2> QED
    BY <1>1, <2>1, QuietOnLink
<1>3. CASE pty # None
  <2>1. PICK n \in Drained(pty, PumpBudget) :
           NoteSent("pty", n) /\ down' = down \o Pieces("PtyOutput", n)
    BY <1>3 DEF PumpPty
  <2>2. n \in Nat
    BY <1>3, DrainType DEF LinkInv, RestType
  <2> QED
    BY <1>1, <2>1, <2>2, OutputOnLink
<1> QED
  BY <1>2, <1>3

(* Exec's share of a tick. *)
LEMMA PumpExecOnLink == LinkInv /\ PumpExec => WireInv' /\ ReportInv'
<1> SUFFICES ASSUME LinkInv, PumpExec
             PROVE  WireInv' /\ ReportInv'
  OBVIOUS
<1>1. UNCHANGED <<up, decoded, misled>>
  BY DEF PumpExec
<1>2. PICK budget \in ExecBudgets :
         IF exec = None \/ budget = 0
           THEN UNCHANGED <<exec, flow, down>>
           ELSE \E n \in Drained(exec, budget) :
                  /\ NoteSent("exec", n)
                  /\ down' = down \o Pieces("ShellOutput", n)
                  /\ exec' = IF exec.child = "ended" THEN None
                             ELSE [exec EXCEPT !.ready = @ - n]
  BY DEF PumpExec
<1>3. CASE exec = None \/ budget = 0
  <2>1. UNCHANGED <<flow, down>>
    BY <1>2, <1>3
  <2> QED
    BY <1>1, <2>1, QuietOnLink
<1>4. CASE ~(exec = None \/ budget = 0)
  <2>1. PICK n \in Drained(exec, budget) :
           NoteSent("exec", n) /\ down' = down \o Pieces("ShellOutput", n)
    BY <1>2, <1>4
  <2>2. n \in Nat
    BY <1>4, DrainType DEF LinkInv, RestType
  <2> QED
    BY <1>1, <2>1, <2>2, OutputOnLink
<1> QED
  BY <1>3, <1>4

(* A Hello taken in: nothing in front of its answer counts any more. *)
LEMMA HelloOnLink ==
    ASSUME LinkInv, up # <<>>, up' = OfEarlier(Tail(up)), OnHello,
           misled' = "no", UNCHANGED client
    PROVE  WireInv' /\ ReportInv'
<1>1. FlowNew /\ down' = Append(down, [op |-> "HelloAck", len |-> 0])
  BY DEF OnHello
<1>2. WireInv'
  BY <1>1, WireRestarts DEF LinkInv
<1>3. \A i \in DOMAIN up' : up'[i].of = "earlier"
  <2>1. \A i \in DOMAIN Tail(up) : Tail(up)[i] \in UpPacket
    <3>1. Tail(up) \in Seq(UpPacket)
      BY DEF LinkInv, RestType
    <3> QED
      BY <3>1
  <2> QED
    BY <2>1 DEF OfEarlier, UpPacket
<1>4. ReportsInTime'
  BY <1>3 DEF ReportsInTime, Counted
<1>5. peer' = "silent" /\ acked' = 0
  BY <1>1 DEF FlowNew
<1>6. decoded' \in Nat
  BY DEF LinkInv, RestType
<1>7. ConfirmedIsDecoded'
  BY <1>5, <1>6 DEF ConfirmedIsDecoded
<1>8. AnsweredBeforePaced'
  BY <1>5 DEF AnsweredBeforePaced
<1> QED
  BY <1>2, <1>4, <1>7, <1>8 DEF ReportInv

(* The reports behind one taken in. *)
LEMMA TailOnLink ==
    ASSUME LinkInv, up # <<>>, up' = Tail(up), up[1].op # "Hello",
           UNCHANGED <<down, decoded>>
    PROVE  ReportsInTime'
<1>1. PICK s \in Seq(UpPacket) : s = up
  BY DEF LinkInv, RestType
<1>2. ASSUME NEW i \in DOMAIN up', Counted(up, i)'
      PROVE  ~AckDue /\ up'[i].bytes <= decoded
  <2>1. s # <<>> /\ s[1].op # "Hello" /\ i \in DOMAIN Tail(s) /\ Counted(Tail(s), i)
    BY <1>1, <1>2 DEF Counted
  <2>2. i + 1 \in DOMAIN s /\ Counted(s, i + 1) /\ Tail(s)[i] = s[i + 1]
    BY <2>1, CountedBehind
  <2> QED
    BY <1>1, <2>2 DEF LinkInv, ReportInv, ReportsInTime
<1> QED
  BY <1>2 DEF ReportsInTime, AckDue

(* A report taken in. *)
LEMMA ReportOnLink ==
    ASSUME LinkInv, up # <<>>, up' = Tail(up), up[1].op = "RxProgress",
           OnReport(up[1].bytes),
           misled' = IF up[1].of = "earlier" THEN "yes" ELSE misled,
           UNCHANGED <<down, client>>
    PROVE  WireInv' /\ ReportInv'
<1>1. /\ 1 \in DOMAIN up /\ up[1] \in UpPacket
      /\ up[1].bytes \in Nat /\ up[1].of \in {"this", "earlier"}
  <2>1. up \in Seq(UpPacket)
    BY DEF LinkInv, RestType
  <2>2. 1 \in DOMAIN up /\ up[1] \in UpPacket
    BY <2>1
  <2> QED
    BY <2>2 DEF UpPacket
<1>2. decoded' = decoded /\ decoded \in Nat /\ down' = down
  BY DEF LinkInv, RestType
<1>3. WireInv'
  BY <1>1, <1>2, WireConfirmed DEF LinkInv
<1>4. ReportsInTime'
  BY <1>2, TailOnLink
<1>5. AckDue' <=> AckDue
  BY <1>2 DEF AckDue
<1>6. ASSUME misled' = "no"
      PROVE  /\ misled = "no"
             /\ ~AckDue
             /\ up[1].bytes <= decoded
  <2>1. up[1].of = "this" /\ misled = "no"
    BY <1>1, <1>6
  <2>2. Counted(up, 1)
    BY <2>1 DEF Counted
  <2> QED
    BY <1>1, <2>1, <2>2 DEF LinkInv, ReportInv, ReportsInTime
<1>7. AnsweredBeforePaced'
  BY <1>5, <1>6 DEF AnsweredBeforePaced
<1>8. ASSUME misled' = "no", trust' = "moving"
      PROVE  acked' <= decoded
  <2>1. sent \in Nat /\ acked \in Nat
    BY DEF LinkInv, FlowInv, FlowType
  <2>2. CASE Confirmed(up[1].bytes) > acked
    <3>1. acked' = Confirmed(up[1].bytes)
      BY <2>2 DEF OnReport
    <3>2. Confirmed(up[1].bytes) <= up[1].bytes /\ Confirmed(up[1].bytes) \in Nat
      BY <1>1, <2>1 DEF Confirmed
    <3> QED
      BY <1>1, <1>2, <1>6, <1>8, <3>1, <3>2
  <2>3. CASE ~(Confirmed(up[1].bytes) > acked)
    <3>1. acked' = acked /\ trust' = trust
      BY <2>3 DEF OnReport
    <3> QED
      BY <1>6, <1>8, <3>1 DEF LinkInv, ReportInv, ConfirmedIsDecoded
  <2> QED
    BY <2>2, <2>3
<1>9. ConfirmedIsDecoded'
  <2> SUFFICES ASSUME misled' = "no", trust' = "moving"
               PROVE  acked' <= (IF AckDue' THEN 0 ELSE decoded')
    BY DEF ConfirmedIsDecoded
  <2> QED
    BY <1>2, <1>5, <1>6, <1>8
<1> QED
  BY <1>3, <1>4, <1>7, <1>9 DEF ReportInv

(* A Hello or a report taken in. *)
LEMMA ReceiveOnLink == LinkInv /\ Receive => WireInv' /\ ReportInv'
<1> SUFFICES ASSUME LinkInv, Receive
             PROVE  WireInv' /\ ReportInv'
  OBVIOUS
<1>1. up # <<>> /\ UNCHANGED client
  BY DEF Receive
<1>2. Head(up) = up[1]
  OBVIOUS
<1>3. CASE /\ up[1].op = "Hello" /\ up' = OfEarlier(Tail(up))
           /\ OnHello /\ misled' = "no"
  BY <1>1, <1>3, HelloOnLink
<1>4. CASE /\ up[1].op = "RxProgress" /\ up' = Tail(up)
           /\ OnReport(up[1].bytes)
           /\ misled' = IF up[1].of = "earlier" THEN "yes" ELSE misled
           /\ down' = down
  BY <1>1, <1>4, ReportOnLink
<1>5. CASE /\ up[1].op = "RxProgress" /\ up' = Tail(up)
           /\ UNCHANGED <<flow, down, misled>>
  <2>1. decoded' = decoded
    BY <1>1
  <2>2. ReportsInTime'
    BY <1>1, <1>5, <2>1, TailOnLink
  <2>3. WireInv'
    BY <1>5, <2>1, WireUnchanged DEF LinkInv
  <2>4. AckDue' <=> AckDue
    BY <1>5 DEF AckDue
  <2>5. AnsweredBeforePaced' /\ ConfirmedIsDecoded'
    BY <1>5, <2>1, <2>4 DEF LinkInv, ReportInv, AnsweredBeforePaced, ConfirmedIsDecoded
  <2> QED
    BY <2>2, <2>3, <2>5 DEF ReportInv
<1> QED
  BY <1>2, <1>3, <1>4, <1>5 DEF Receive

(* The client takes a packet in. *)
LEMMA DecodeOnLink == LinkInv /\ Decode => WireInv' /\ ReportInv'
<1> SUFFICES ASSUME LinkInv, Decode
             PROVE  WireInv' /\ ReportInv'
  OBVIOUS
<1>1. WireInv'
  BY WireDecoded DEF LinkInv
<1>2. /\ down \in Seq(DownPacket) /\ down # <<>> /\ down' = Tail(down)
      /\ UNCHANGED <<up, misled, acked, peer, trust>>
      /\ acked \in Nat /\ decoded \in Nat
  BY DEF Decode, LinkInv, RestType, FlowInv, FlowType
<1>3. /\ Len(down) \in Nat /\ Len(down) >= 1
      /\ DOMAIN down = 1..Len(down) /\ DOMAIN down' = 1..(Len(down) - 1)
      /\ \A i \in 1..(Len(down) - 1) : down'[i] = down[i + 1]
      /\ down[1] \in DownPacket /\ Head(down) = down[1]
  BY <1>2
<1>4. AckDue' => AckDue
  <2> SUFFICES ASSUME NEW i \in DOMAIN down', down'[i].op = "HelloAck"
               PROVE  AckDue
    BY DEF AckDue
  <2>1. i + 1 \in DOMAIN down /\ down[i + 1].op = "HelloAck"
    BY <1>3
  <2> QED
    BY <2>1 DEF AckDue
<1>5. CASE AckDue
  <2>1. ReportsInTime' /\ AnsweredBeforePaced'
    BY <1>2, <1>5 DEF LinkInv, ReportInv, ReportsInTime, AnsweredBeforePaced
  <2>2. decoded' \in Nat
    BY <1>2, <1>3 DEF Decode, ReporterReset, DownPacket
  <2>3. ConfirmedIsDecoded'
    BY <1>2, <1>5, <2>2 DEF LinkInv, ReportInv, ConfirmedIsDecoded
  <2> QED
    BY <1>1, <2>1, <2>3 DEF ReportInv
<1>6. CASE ~AckDue
  <2>1. down[1].op # "HelloAck"
    <3>1. 1 \in DOMAIN down
      BY <1>3
    <3> QED
      BY <1>6, <3>1 DEF AckDue
  <2>2. decoded' = decoded + down[1].len /\ down[1].len \in Nat
    BY <1>3, <2>1 DEF Decode, DownPacket
  <2>3. decoded' \in Nat /\ decoded <= decoded' /\ \A x \in Nat : x <= decoded => x <= decoded'
    BY <1>2, <2>2
  <2>4. \A i \in DOMAIN up : up[i].bytes \in Nat
    <3>1. up \in Seq(UpPacket)
      BY DEF LinkInv, RestType
    <3>2. \A i \in DOMAIN up : up[i] \in UpPacket
      BY <3>1
    <3> QED
      BY <3>2 DEF UpPacket
  <2>5. ReportsInTime'
    BY <1>2, <1>4, <1>6, <2>3, <2>4 DEF LinkInv, ReportInv, ReportsInTime
  <2>6. AnsweredBeforePaced'
    BY <1>4, <1>6 DEF AnsweredBeforePaced
  <2>7. ConfirmedIsDecoded'
    BY <1>2, <1>4, <1>6, <2>3 DEF LinkInv, ReportInv, ConfirmedIsDecoded
  <2> QED
    BY <1>1, <2>5, <2>6, <2>7 DEF ReportInv
<1> QED
  BY <1>5, <1>6

(* The client reports what it decoded. *)
LEMMA SendReportOnLink == LinkInv /\ SendReport => WireInv' /\ ReportInv'
<1> SUFFICES ASSUME LinkInv, SendReport
             PROVE  WireInv' /\ ReportInv'
  OBVIOUS
<1>1. /\ UNCHANGED <<flow, down, decoded, misled>>
      /\ up' = Append(up, Report(decoded))
      /\ decoded \in Nat
  BY DEF SendReport, LinkInv, RestType
<1>2. WireInv'
  BY <1>1, WireUnchanged DEF LinkInv
<1>3. AckDue' <=> AckDue
  BY <1>1 DEF AckDue
<1>4. PICK r \in UpPacket : r = Report(decoded)
  BY <1>1 DEF Report, UpPacket
<1>5. r.of = "this" => ~AckDue /\ r.bytes = decoded
  BY <1>4 DEF Report
<1>6. up \in Seq(UpPacket)
  BY DEF LinkInv, RestType
<1>7. /\ Len(up) \in Nat /\ DOMAIN up = 1..Len(up) /\ DOMAIN up' = 1..(Len(up) + 1)
      /\ \A i \in 1..Len(up) : up'[i] = up[i]
      /\ up'[Len(up) + 1] = r
  BY <1>1, <1>4, <1>6
<1>8. ASSUME NEW i \in DOMAIN up', Counted(up, i)'
      PROVE  ~AckDue /\ up'[i].bytes <= decoded
  <2>1. CASE i = Len(up) + 1
    <3>1. r.of = "this"
      BY <1>7, <1>8, <2>1 DEF Counted
    <3> QED
      BY <1>1, <1>5, <1>7, <2>1, <3>1
  <2>2. CASE i # Len(up) + 1
    <3>1. i \in DOMAIN up /\ up'[i] = up[i] /\ \A j \in 1..(i - 1) : j \in 1..Len(up)
      BY <1>7, <2>2
    <3>2. Counted(up, i)
      BY <1>7, <1>8, <3>1 DEF Counted
    <3> QED
      BY <3>1, <3>2 DEF LinkInv, ReportInv, ReportsInTime
  <2> QED
    BY <2>1, <2>2
<1>9. ReportsInTime'
  BY <1>1, <1>3, <1>8 DEF ReportsInTime
<1>10. AnsweredBeforePaced' /\ ConfirmedIsDecoded'
  BY <1>1, <1>3 DEF LinkInv, ReportInv, AnsweredBeforePaced, ConfirmedIsDecoded
<1> QED
  BY <1>2, <1>9, <1>10 DEF ReportInv

(* The writer puts another Hello in front of the reports still queued. *)
LEMMA RepeatedHelloOnLink == LinkInv /\ WriterRepeatsHello => WireInv' /\ ReportInv'
<1> SUFFICES ASSUME LinkInv, WriterRepeatsHello
             PROVE  WireInv' /\ ReportInv'
  OBVIOUS
<1>1. UNCHANGED <<flow, down, decoded, misled>>
  BY DEF WriterRepeatsHello
<1>2. WireInv'
  BY <1>1, WireUnchanged DEF LinkInv
<1>3. AckDue' <=> AckDue
  BY <1>1 DEF AckDue
<1>4. PICK s \in Seq(UpPacket) : s = up
  BY DEF LinkInv, RestType
<1>5. PICK i \in 1..Len(s) + 1 : up' = InsertAt(s, i, Hello)
  BY <1>4 DEF WriterRepeatsHello
<1>6. ASSUME NEW j \in DOMAIN up', Counted(up, j)'
      PROVE  ~AckDue /\ up'[j].bytes <= decoded
  <2>1. j \in DOMAIN InsertAt(s, i, Hello) /\ Counted(InsertAt(s, i, Hello), j)
    BY <1>5, <1>6 DEF Counted
  <2>2. j \in DOMAIN s /\ Counted(s, j) /\ InsertAt(s, i, Hello)[j] = s[j]
    BY <2>1, CountedAroundHello
  <2> QED
    BY <1>4, <1>5, <2>2 DEF LinkInv, ReportInv, ReportsInTime
<1>7. ReportsInTime'
  BY <1>1, <1>3, <1>6 DEF ReportsInTime
<1>8. AnsweredBeforePaced' /\ ConfirmedIsDecoded'
  BY <1>1, <1>3 DEF LinkInv, ReportInv, AnsweredBeforePaced, ConfirmedIsDecoded
<1> QED
  BY <1>2, <1>7, <1>8 DEF ReportInv

(* A packet put in front of others. *)
LEMMA HelloInFront ==
    ASSUME NEW h \in UpPacket, NEW t \in Seq(UpPacket)
    PROVE  <<h>> \o t \in Seq(UpPacket) /\ (<<h>> \o t)[1] = h
<1>1. <<h>> \in Seq(UpPacket) /\ Len(<<h>>) = 1 /\ Len(t) \in Nat
  OBVIOUS
<1>2. 1 \in 1..(Len(<<h>>) + Len(t)) /\ 1 <= Len(<<h>>) /\ <<h>>[1] = h
  BY <1>1
<1> QED
  BY <1>1, <1>2

(* The link lost and opened again: its first packet is a Hello. *)
LEMMA ReconnectOnLink == LinkInv /\ Reconnect => WireInv' /\ ReportInv'
<1> SUFFICES ASSUME LinkInv, Reconnect
             PROVE  WireInv' /\ ReportInv'
  OBVIOUS
<1>1. FlowNew /\ down' = <<>> /\ decoded' = 0
  BY DEF Reconnect
<1>2. WireInv'
  BY <1>1, WireReopens
<1>3. peer' = "silent" /\ acked' = 0 /\ ~AckDue'
  BY <1>1 DEF FlowNew, AckDue
<1>4. up' \in Seq(UpPacket) /\ up'[1].op = "Hello"
  <2>1. PICK s \in Seq(UpPacket) : s = up
    BY DEF LinkInv, RestType
  <2>2. PICK i \in 1..Len(s) + 1 : up' = <<Hello>> \o SubSeq(s, i, Len(s))
    BY <2>1 DEF Reconnect
  <2>3. SubSeq(s, i, Len(s)) \in Seq(UpPacket)
    OBVIOUS
  <2>4. Hello \in UpPacket /\ Hello.op = "Hello"
    BY DEF Hello, UpPacket
  <2> QED
    BY <2>2, <2>3, <2>4, HelloInFront
<1>5. ReportsInTime'
  <2> SUFFICES ASSUME NEW i \in DOMAIN up', Counted(up, i)'
               PROVE  FALSE
    BY DEF ReportsInTime
  <2>1. i \in Nat /\ i >= 1
    BY <1>4
  <2>2. i # 1
    BY <1>4 DEF Counted
  <2>3. 1 \in 1..(i - 1)
    BY <2>1, <2>2
  <2> QED
    BY <1>4, <2>3 DEF Counted
<1>6. AnsweredBeforePaced' /\ ConfirmedIsDecoded'
  BY <1>1, <1>3 DEF AnsweredBeforePaced, ConfirmedIsDecoded
<1> QED
  BY <1>2, <1>5, <1>6 DEF ReportInv

(* What the link carries and what the ends count go together in every      *)
(* state of every behaviour.                                               *)
LEMMA LinkInvariant == Spec => []LinkInv
<1>1. Init => WireInv /\ ReportInv
  <2> SUFFICES ASSUME Init
               PROVE  WireInv /\ ReportInv
    OBVIOUS
  <2>1. PICK b : b = [i \in 0..0 |-> 0]
    OBVIOUS
  <2>2. b[0] = 0 /\ Len(down) = 0 /\ (0 + 1)..0 = {} /\ 0..0 = {0}
    BY <2>1 DEF Init
  <2>3. down = <<>> /\ decoded = 0 /\ sent = 0 /\ \A i \in (0 + 1)..0 : FALSE
    BY DEF Init
  <2>4. Wire(0, b)
    BY <2>2, <2>3 DEF Wire
  <2>5. \A i \in DOMAIN up : up[i].op = "Hello"
    BY DEF Init, Hello
  <2>6. ReportsInTime
    BY <2>5 DEF ReportsInTime, Counted
  <2>7. AnsweredBeforePaced /\ ConfirmedIsDecoded
    BY DEF Init, AnsweredBeforePaced, ConfirmedIsDecoded
  <2> QED
    BY <2>4, <2>6, <2>7 DEF WireInv, ReportInv
<1>2. ASSUME LinkInv, [Next]_vars
      PROVE  WireInv' /\ ReportInv'
  <2>1. CASE PumpTop \/ PumpPty \/ PumpExec
    BY <1>2, <2>1, PumpTopOnLink, PumpPtyOnLink, PumpExecOnLink
  <2>2. CASE Receive
    BY <1>2, <2>2, ReceiveOnLink
  <2>3. CASE RecvTimeout \/ OpenOrCloseExec \/ OpenOrClosePty \/ HeartbeatTimeout
    <3>1. UNCHANGED <<flow, down, up, decoded, misled>>
      BY <2>3 DEF RecvTimeout, OpenOrCloseExec, OpenOrClosePty, HeartbeatTimeout
    <3> QED
      BY <1>2, <3>1, QuietOnLink
  <2>4. CASE Shells
    <3>1. UNCHANGED <<flow, down, up, decoded, misled>>
      BY <2>4 DEF Shells, ReadExec, ReadPty, ExecEnds, PtyEnds
    <3> QED
      BY <1>2, <3>1, QuietOnLink
  <2>5. CASE Tock
    <3>1. /\ UNCHANGED <<down, up, decoded, misled, sent, acked, pending, peer, trust>>
      BY <2>5 DEF Tock
    <3>2. AckDue' <=> AckDue
      BY <3>1 DEF AckDue
    <3>3. ReportInv'
      BY <1>2, <3>1, <3>2, ReportsUnchanged DEF LinkInv
    <3>4. acked \in Nat
      BY <1>2 DEF LinkInv, FlowInv, FlowType
    <3>5. acked' \in Nat /\ acked <= acked' /\ \A p \in pending : acked' < p.end => p \in pending'
      BY <3>1, <3>4
    <3>6. WireInv'
      BY <1>2, <3>1, <3>5, WireKept DEF LinkInv
    <3> QED
      BY <3>3, <3>6
  <2>6. CASE Decode
    BY <1>2, <2>6, DecodeOnLink
  <2>7. CASE SendReport \/ WriterRepeatsHello
    BY <1>2, <2>7, SendReportOnLink, RepeatedHelloOnLink
  <2>8. CASE Reconnect
    BY <1>2, <2>8, ReconnectOnLink
  <2>9. CASE UNCHANGED vars
    <3>1. UNCHANGED <<flow, down, up, decoded, misled>>
      BY <2>9 DEF vars
    <3> QED
      BY <1>2, <3>1, QuietOnLink
  <2> QED
    BY <1>2, <2>1, <2>2, <2>3, <2>4, <2>5, <2>6, <2>7, <2>8, <2>9
       DEF Next, Thread, Client
<1>3. RestType /\ FlowInv /\ WireInv /\ ReportInv <=> LinkInv
  BY DEF LinkInv
<1> QED
  BY <1>1, <1>2, <1>3, FlowInvariant, PTL DEF Spec

(* While exec is paced by reports of its own session, the link carries no  *)
(* more exec output than the host believes in flight.                      *)
LEMMA PacingCovers == LinkInv => PacingCoversTheLink
<1> SUFFICES ASSUME LinkInv, Pacing, misled = "no"
             PROVE  ExecOnWire <= ExecInFlight
  BY DEF PacingCoversTheLink
<1>1. ~AckDue
  BY DEF LinkInv, ReportInv, AnsweredBeforePaced, Pacing
<1>2. acked <= decoded
  BY <1>1 DEF LinkInv, ReportInv, ConfirmedIsDecoded, Pacing
<1>3. PICK k, b : Wire(k, b)
  BY DEF LinkInv, WireInv
<1>4. k = 0
  <2>1. k \in 0..Len(down) /\ Len(down) \in Nat
    BY <1>3 DEF Wire, LinkInv, RestType
  <2>2. ~(k > 0)
    BY <1>1, <1>3, AckIsDue DEF LinkInv
  <2> QED
    BY <2>1, <2>2
<1>5. Wire(0, b)
  BY <1>3, <1>4
<1> QED
  BY <1>2, <1>5, FlightCoversTheLink DEF LinkInv

(* The two ends' counts differ by what is still on the way, and while      *)
(* pacing is on the host's own account covers it, for every cap, budget,   *)
(* payload and read size, any number of Hellos, reconnects and reports.    *)
THEOREM EndsAlwaysAgree == Spec => []EndsAgree
<1>1. LinkInv => EndsAgree
  BY WireCountsTheBytes, PacingCovers DEF LinkInv, EndsAgree
<1> QED
  BY <1>1, LinkInvariant, PTL

----------------------------------------------------------------------------
(* What a pump that paces exec leaves on the link.                         *)

(* The pieces of n bytes add n bytes. *)
LEMMA BytesOfPieces ==
    ASSUME NEW s \in Seq(DownPacket), NEW n \in Nat
    PROVE  /\ Bytes(s, {"ShellOutput"}) \in Nat
           /\ Bytes(s \o Pieces("ShellOutput", n), {"ShellOutput"})
                 = Bytes(s, {"ShellOutput"}) + n
<1>1. PICK ops : ops = {"ShellOutput"}
  OBVIOUS
<1>2. PICK t \in Seq(DownPacket) : t = Pieces("ShellOutput", n)
  BY PiecesType
<1>3. PICK u \in Seq(DownPacket) : u = s \o t
  BY PacketsFollow
<1>4. PICK m \in Nat : m = PieceCount(n)
  BY PiecesStartInside
<1>5. PICK d \in Nat : d = Len(s)
  OBVIOUS
<1>6. PICK g : g = Lengths(s, ops)
  OBVIOUS
<1>7. PICK h : h = Lengths(u, ops)
  OBVIOUS
<1>8. Len(t) = m /\ \A j \in 1..m : t[j] = [op |-> "ShellOutput", len |-> PieceLen(n, j)]
  BY <1>2, <1>4 DEF Pieces
<1>9. /\ Len(u) = d + m
      /\ \A i \in 1..d : u[i] = s[i]
      /\ \A j \in 1..m : u[d + j] = t[j]
  BY <1>3, <1>5, <1>8, PacketsFollow
<1>10. /\ Bytes(s, ops) = SumFunctionOnSet(g, 1..d)
       /\ \A i \in 1..d : g[i] \in Nat
  BY <1>5, <1>6, BytesAreSummed
<1>11. /\ Bytes(u, ops) = SumFunctionOnSet(h, 1..(d + m))
       /\ \A i \in 1..(d + m) : h[i] \in Nat
  BY <1>7, <1>9, BytesAreSummed
<1>12. IsFiniteSet(1..d) /\ SumFunctionOnSet(g, 1..d) \in Nat
  <2>1. IsFiniteSet(1..d)
    BY FS_Interval
  <2> QED
    BY <1>10, <2>1, SumType, Zenon
<1>13. \A i \in 1..d : g[i] = h[i]
  <2>1. DOMAIN s = 1..d /\ DOMAIN u = 1..(d + m) /\ \A i \in 1..d : i \in 1..(d + m)
    BY <1>5, <1>9
  <2> QED
    BY <1>6, <1>7, <1>9, <2>1 DEF Lengths
<1>14. \A j \in 1..m : h[d + j] = PieceLen(n, j)
  <2> TAKE j \in 1..m
  <2>1. d + j \in DOMAIN u
    BY <1>9
  <2>2. u[d + j] = [op |-> "ShellOutput", len |-> PieceLen(n, j)]
    BY <1>8, <1>9
  <2> QED
    BY <1>1, <1>7, <2>1, <2>2 DEF Lengths
<1> DEFINE Sent(j) == IF j = 0 THEN 0 ELSE PieceEnd(n, j)
           T == {j \in Nat : j <= m => SumFunctionOnSet(h, 1..(d + j))
                                          = SumFunctionOnSet(g, 1..d) + Sent(j)}
<1>15. 0 \in T
  <2>1. SumFunctionOnSet(h, 1..d) = SumFunctionOnSet(g, 1..d)
    BY <1>12, <1>13, SumSame
  <2>2. d + 0 = d
    OBVIOUS
  <2> QED
    BY <1>12, <2>1, <2>2
<1>16. ASSUME NEW j \in T
       PROVE  j + 1 \in T
  <2> SUFFICES ASSUME j + 1 <= m
               PROVE  SumFunctionOnSet(h, 1..(d + (j + 1)))
                         = SumFunctionOnSet(g, 1..d) + Sent(j + 1)
    OBVIOUS
  <2>1. j \in Nat /\ SumFunctionOnSet(h, 1..(d + j)) = SumFunctionOnSet(g, 1..d) + Sent(j)
    OBVIOUS
  <2>2. (d + j) + 1 = d + (j + 1) /\ d + j \in Nat /\ j + 1 \in 1..m /\ (j + 1) - 1 = j
    BY <2>1
  <2>3. \A i \in 1..((d + j) + 1) : h[i] \in Nat
    BY <1>11, <2>1
  <2>4. SumFunctionOnSet(h, 1..((d + j) + 1)) = SumFunctionOnSet(h, 1..(d + j)) + h[(d + j) + 1]
    BY <2>2, <2>3, SumNext
  <2>5. h[d + (j + 1)] = PieceLen(n, j + 1)
    BY <1>14, <2>2
  <2>6. /\ PieceEnd(n, j + 1) = (IF j + 1 = 1 THEN 0 ELSE PieceEnd(n, (j + 1) - 1))
                                   + PieceLen(n, j + 1)
        /\ PieceLen(n, j + 1) \in Nat
    BY <1>4, <2>2, PiecesFollow, PieceShape
  <2>7. Sent(j + 1) = Sent(j) + PieceLen(n, j + 1)
    <3>1. CASE j = 0
      BY <2>6, <3>1
    <3>2. CASE j # 0
      BY <2>1, <2>2, <2>6, <3>2
    <3> QED
      BY <3>1, <3>2
  <2>8. Sent(j) \in Nat
    <3>1. CASE j # 0
      <4>1. j \in 1..m
        BY <2>1, <3>1
      <4> QED
        BY <1>4, <3>1, <4>1, PieceShape
    <3> QED
      BY <3>1
  <2> HIDE DEF Sent
  <2>9. SumFunctionOnSet(h, 1..(d + (j + 1))) = SumFunctionOnSet(h, 1..(d + j)) + PieceLen(n, j + 1)
    BY <2>2, <2>4, <2>5, Zenon
  <2> QED
    BY <1>12, <2>1, <2>6, <2>7, <2>8, <2>9
<1>17. m \in T
  <2>1. T \in SUBSET Nat
    OBVIOUS
  <2> HIDE DEF T
  <2> QED
    BY <1>15, <1>16, <2>1, EveryNatural
<1>18. Sent(m) = n
  BY <1>4, PiecesEnd
<1>19. SumFunctionOnSet(h, 1..(d + m)) = SumFunctionOnSet(g, 1..d) + n
  <2> HIDE DEF Sent
  <2> QED
    BY <1>17, <1>18
<1> QED
  BY <1>1, <1>2, <1>3, <1>10, <1>11, <1>12, <1>19

(* What the host believes in flight is a number of bytes. *)
LEMMA FlightIsACount == FlowInv => ExecInFlight \in Nat
BY FlightIsSummed, PendingIsFinite, SumType

(* A pump that paces exec sends less than what is left of the cap and one  *)
(* read, so with what was on the link before it stays below the cap and    *)
(* one read: a keystroke's echo queues behind no more than that, for every *)
(* cap, payload and read size.                                             *)
THEOREM CapAlwaysHolds == Spec => CapHolds
<1>1. ASSUME LinkInv, sent' # sent, pty # None, Pacing, misled = "no", PumpExec
      PROVE  ExecOnWire' < Cap + MaxRead
  <2> USE <1>1
  <2>1. PICK budget \in ExecBudgets :
           IF exec = None \/ budget = 0
             THEN UNCHANGED <<exec, flow, down>>
             ELSE \E n \in Drained(exec, budget) :
                    /\ NoteSent("exec", n)
                    /\ down' = down \o Pieces("ShellOutput", n)
                    /\ exec' = IF exec.child = "ended" THEN None
                               ELSE [exec EXCEPT !.ready = @ - n]
    BY DEF PumpExec
  <2>2. ~(exec = None \/ budget = 0)
    BY <2>1
  <2>3. PICK n \in Drained(exec, budget) : down' = down \o Pieces("ShellOutput", n)
    BY <2>1, <2>2
  <2>4. n \in Nat /\ n < budget + MaxRead
    <3>1. exec \in Shell
      BY <2>2 DEF LinkInv, RestType
    <3> QED
      BY <3>1, DrainType DEF Drained
  <2>5. budget = InflightExecBudget
    BY DEF ExecBudgets
  <2>6. ExecInFlight \in Nat
    BY FlightIsACount DEF LinkInv
  <2>7. budget = Cap - ExecInFlight
    BY <2>2, <2>5 DEF InflightExecBudget
  <2>8. ExecOnWire <= ExecInFlight
    BY PacingCovers DEF PacingCoversTheLink
  <2>9. ExecOnWire \in Nat /\ ExecOnWire' = ExecOnWire + n
    <3>1. PICK s \in Seq(DownPacket) : s = down
      BY DEF LinkInv, RestType
    <3>2. /\ Bytes(s, {"ShellOutput"}) \in Nat
          /\ Bytes(s \o Pieces("ShellOutput", n), {"ShellOutput"})
                = Bytes(s, {"ShellOutput"}) + n
      BY <2>4, BytesOfPieces
    <3>3. down' = s \o Pieces("ShellOutput", n)
      BY <2>3, <3>1
    <3>4. Bytes(down', {"ShellOutput"}) = Bytes(s \o Pieces("ShellOutput", n), {"ShellOutput"})
      BY <3>3, Zenon
    <3> QED
      BY <3>1, <3>2, <3>4 DEF ExecOnWire
  <2> QED
    BY <2>4, <2>6, <2>7, <2>8, <2>9
<1>2. ASSUME LinkInv
      PROVE  (sent' # sent /\ pty # None /\ Pacing /\ misled = "no" /\ PumpExec) =>
                ExecOnWire' < Cap + MaxRead
  BY <1>1, <1>2
<1> QED
  BY <1>2, LinkInvariant, PTL DEF CapHolds
=============================================================================
