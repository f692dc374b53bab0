---------------------------- MODULE LevelsProofs ----------------------------
(***************************************************************************)
(* The equation that a recursion by depth obeys, for whatever is built at  *)
(* each depth, and induction over the depth.                               *)
(***************************************************************************)
EXTENDS Levels, TLAPS, WellFoundedInduction

\* A set of depths that is not empty has a least element.
LEMMA Least ==
  ASSUME NEW T, T \subseteq Nat, T # {}
  PROVE  \E n \in T : \A m \in T : n <= m
<1> DEFINE R == {ss \in Nat \X Nat : ss[1] < ss[2]}
<1>1. IsWellFoundedOn(R, Nat)
  BY NatLessThanWellFounded DEF OpToRel
<1>2. PICK n \in T : \A m \in T : ~(<<m, n>> \in R)
  <2> HIDE DEF R
  <2> QED BY <1>1, WFMin
<1>3. \A m \in T : ~(m < n)
  BY <1>2
<1> QED BY <1>3

\* Induction over the depth: a set that has 0, and n + 1 with n, has them all.
LEMMA SetInduction ==
  ASSUME NEW T, 0 \in T, \A n \in Nat : n \in T => n + 1 \in T
  PROVE  Nat \subseteq T
<1> DEFINE B == Nat \ T
<1>1. SUFFICES ASSUME B # {} PROVE FALSE
  OBVIOUS
<1>2. PICK n \in B : \A m \in B : n <= m
  <2>1. B \subseteq Nat OBVIOUS
  <2> HIDE DEF B
  <2> QED BY <1>1, <2>1, Least
<1>3. n # 0 /\ n - 1 \in Nat
  OBVIOUS
<1>4. n - 1 \in T
  BY <1>2, <1>3
<1> QED BY <1>3, <1>4

\* g obeys the equation up to depth n.
Approximates(g, n) ==
  g = [i \in 0..n |-> IF i = 0 THEN Bottom ELSE Above(g[i - 1])]

\* Up to every depth there is a function that obeys the equation,
LEMMA Existence == \A n \in Nat : \E g : Approximates(g, n)
<1> DEFINE T == {n \in Nat : \E g : Approximates(g, n)}
<1>1. 0 \in T
  <2> DEFINE g == [i \in 0..0 |-> Bottom]
  <2>1. Approximates(g, 0) BY DEF Approximates
  <2> QED BY <2>1
<1>2. ASSUME NEW n \in Nat, n \in T PROVE n + 1 \in T
  <2>1. PICK g : Approximates(g, n) BY <1>2
  <2> DEFINE h == [i \in 0..n + 1 |-> IF i = n + 1 THEN Above(g[n]) ELSE g[i]]
  <2>2. h = [i \in 0..n + 1 |-> IF i = 0 THEN Bottom ELSE Above(h[i - 1])]
    <3> SUFFICES ASSUME NEW i \in 0..n + 1
                 PROVE  h[i] = IF i = 0 THEN Bottom ELSE Above(h[i - 1])
      OBVIOUS
    <3>1. \A k \in 0..n : g[k] = IF k = 0 THEN Bottom ELSE Above(g[k - 1])
      BY <2>1 DEF Approximates
    <3>2. CASE i = n + 1
      <4>1. h[i - 1] = g[n] BY <3>2
      <4> QED BY <3>2, <4>1
    <3>3. CASE i \in 1..n
      <4>1. h[i] = g[i] /\ h[i - 1] = g[i - 1] BY <3>3
      <4> QED BY <3>1, <3>3, <4>1
    <3>4. CASE i = 0
      BY <3>1, <3>4
    <3> QED BY <3>2, <3>3, <3>4
  <2> HIDE DEF h
  <2>3. Approximates(h, n + 1) BY <2>2 DEF Approximates
  <2> QED BY <2>3
<1> HIDE DEF T
<1>3. Nat \subseteq T BY <1>1, <1>2, SetInduction
<1> QED BY <1>3 DEF T

\* and two such functions agree as far as both go.
LEMMA Agreement ==
  ASSUME NEW n \in Nat, NEW m \in Nat, n <= m, NEW g, NEW h,
         Approximates(g, n), Approximates(h, m)
  PROVE  \A i \in 0..n : g[i] = h[i]
<1> DEFINE T == {i \in Nat : i <= n => g[i] = h[i]}
<1>0. /\ \A k \in 0..n : g[k] = IF k = 0 THEN Bottom ELSE Above(g[k - 1])
      /\ \A k \in 0..m : h[k] = IF k = 0 THEN Bottom ELSE Above(h[k - 1])
  BY DEF Approximates
<1>1. 0 \in T
  BY <1>0
<1>2. ASSUME NEW i \in Nat, i \in T PROVE i + 1 \in T
  <2> SUFFICES ASSUME i + 1 <= n PROVE g[i + 1] = h[i + 1]
    OBVIOUS
  <2>1. g[i] = h[i] BY <1>2
  <2>2. g[i + 1] = Above(g[i]) /\ h[i + 1] = Above(h[i])
    BY <1>0
  <2> QED BY <2>1, <2>2
<1> HIDE DEF T
<1>3. Nat \subseteq T BY <1>1, <1>2, SetInduction
<1> QED BY <1>3 DEF T

\* What a recursion by depth computes (all conversions of scval.rs that call
\* themselves): at each depth, what Above makes of the depth before.
THEOREM LevelEquation ==
  /\ Level[0] = Bottom
  /\ \A n \in Nat : Level[n + 1] = Above(Level[n])
<1> DEFINE A(n) == CHOOSE g : Approximates(g, n)
           F == [n \in Nat |-> A(n)[n]]
<1>1. \A n \in Nat : Approximates(A(n), n)
  BY Existence
<1> HIDE DEF A
<1>2. F = [n \in Nat |-> IF n = 0 THEN Bottom ELSE Above(F[n - 1])]
  <2> SUFFICES ASSUME NEW n \in Nat
               PROVE  F[n] = IF n = 0 THEN Bottom ELSE Above(F[n - 1])
    OBVIOUS
  <2>1. \A k \in 0..n : A(n)[k] = IF k = 0 THEN Bottom ELSE Above(A(n)[k - 1])
    BY <1>1 DEF Approximates
  <2>2. CASE n = 0
    BY <2>1, <2>2
  <2>3. CASE n # 0
    <3>1. n - 1 \in Nat BY <2>3
    <3>2. A(n - 1)[n - 1] = A(n)[n - 1]
      BY <1>1, <3>1, Agreement
    <3> QED BY <2>1, <2>3, <3>1, <3>2
  <2> QED BY <2>2, <2>3
<1> HIDE DEF F
<1>3. Level = [n \in Nat |-> IF n = 0 THEN Bottom ELSE Above(Level[n - 1])]
  BY <1>2 DEF Level
<1>4. Level[0] = Bottom
  BY <1>3
<1>5. ASSUME NEW n \in Nat PROVE Level[n + 1] = Above(Level[n])
  <2>1. Level[n + 1] = IF n + 1 = 0 THEN Bottom ELSE Above(Level[(n + 1) - 1])
    BY <1>3
  <2>2. n + 1 # 0 /\ (n + 1) - 1 = n
    OBVIOUS
  <2> QED BY <2>1, <2>2
<1> QED BY <1>4, <1>5
=============================================================================
