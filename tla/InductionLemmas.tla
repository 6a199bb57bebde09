---------------------------- MODULE InductionLemmas ---------------------------
(***************************************************************************)
(* Induction and recursion over data, for the recursive functions of the   *)
(* model: a property is the set of the numbers that have it, and the step   *)
(* of a recursive function is itself a function, so that the facts below    *)
(* are about sets only.                                                    *)
(***************************************************************************)
EXTENDS Integers, WellFoundedInduction, TLAPS

\* A non-empty set of natural numbers has a least element.
LEMMA Smallest ==
  ASSUME NEW T, T \subseteq Nat, T # {}
  PROVE  \E x \in T : \A y \in T : x <= y
<1>1. PICK x \in T : \A y \in T : ~(<<y, x>> \in OpToRel(<, Nat))
  BY NatLessThanWellFounded, WFMin
<1>2. \A y \in T : ~(y < x)
  BY <1>1 DEF OpToRel
<1>. QED
  BY <1>2

\* Induction up to a bound: the numbers that have a property are all of 0 .. M.
LEMMA InductionUpTo ==
  ASSUME NEW M \in Nat, NEW S, 0 \in S, \A n \in 0 .. M - 1 : n \in S => n + 1 \in S
  PROVE  0 .. M \subseteq S
<1>. SUFFICES ASSUME (0 .. M) \ S # {} PROVE FALSE
  OBVIOUS
<1>1. PICK x \in (0 .. M) \ S : \A y \in (0 .. M) \ S : x <= y
  <2>. (0 .. M) \ S \subseteq Nat
    OBVIOUS
  <2>. QED
    BY Smallest
<1>2. x - 1 \in 0 .. M - 1 /\ x - 1 \in S
  BY <1>1
<1>. QED
  BY <1>1, <1>2

\* A loop takes an element of D to the next until it reaches one of Stop, and
\* each has a lower rank than the one before.  f is what it computes.
EndingLoop(D, Stop, next, rank, M) ==
  /\ M \in Nat /\ rank \in [D -> 0 .. M] /\ next \in [D -> D]
  /\ \A d \in D : d \notin Stop => rank[next[d]] < rank[d]

ComputedBy(f, D, Stop, val, next) ==
  \A d \in D : f[d] = IF d \in Stop THEN val[d] ELSE f[next[d]]

\* A loop that ends computes a function.
LEMMA LoopExists ==
  ASSUME NEW D, NEW V, NEW Stop, NEW next, NEW rank, NEW M,
         EndingLoop(D, Stop, next, rank, M), NEW val \in [D -> V]
  PROVE  \E f \in [D -> V] : ComputedBy(f, D, Stop, val, next)
<1>. USE DEF EndingLoop, ComputedBy
<1>. DEFINE Low(n) == {d \in D : rank[d] < n}
            Solves(f, n) ==
              \A d \in Low(n) : f[d] = IF d \in Stop THEN val[d] ELSE f[next[d]]
            S == {n \in Nat : \E f \in [Low(n) -> V] : Solves(f, n)}
<1>1. 0 \in S
  <2>1. Low(0) = {}
    OBVIOUS
  <2>. DEFINE f == [d \in Low(0) |-> val[d]]
  <2>2. f \in [Low(0) -> V] /\ Solves(f, 0)
    BY <2>1
  <2>. QED
    BY <2>2
<1>2. ASSUME NEW n \in Nat, n \in S PROVE n + 1 \in S
  <2>1. PICK f \in [Low(n) -> V] : Solves(f, n)
    BY <1>2
  <2>. DEFINE g == [d \in Low(n + 1) |-> IF d \in Stop THEN val[d] ELSE f[next[d]]]
  <2>2. ASSUME NEW d \in Low(n + 1), d \notin Stop PROVE next[d] \in Low(n)
    <3>1. d \in D /\ next[d] \in D /\ rank[d] \in 0 .. M /\ rank[next[d]] \in 0 .. M
      OBVIOUS
    <3>. QED
      BY <3>1, <2>2
  <2>3. g \in [Low(n + 1) -> V]
    BY <2>2
  <2>4. ASSUME NEW d \in Low(n) PROVE g[d] = f[d]
    <3>1. d \in Low(n + 1)
      OBVIOUS
    <3>2. f[d] = IF d \in Stop THEN val[d] ELSE f[next[d]]
      BY <2>1
    <3>. QED
      BY <3>1, <3>2
  <2>5. ASSUME NEW d \in Low(n + 1)
        PROVE  g[d] = IF d \in Stop THEN val[d] ELSE g[next[d]]
    BY <2>2, <2>4
  <2>6. Solves(g, n + 1)
    BY <2>5
  <2>. HIDE DEF g
  <2>7. \E h \in [Low(n + 1) -> V] : Solves(h, n + 1)
    BY <2>3, <2>6
  <2>. HIDE DEF Solves, Low
  <2>. QED
    BY <2>7
<1>. HIDE DEF S
<1>3. 0 .. M + 1 \subseteq S
  BY <1>1, <1>2, InductionUpTo
<1>4. M + 1 \in S
  BY <1>3
<1>5. Low(M + 1) = D
  OBVIOUS
<1>. QED
  BY <1>4, <1>5 DEF S

\* f is a value computed step by step along 1 .. M.
Accumulates(f, M, base, step) ==
  f[0] = base /\ \A n \in 1 .. M : f[n] = step[<<f[n - 1], n>>]

\* A value computed step by step is a function of the number of steps.
LEMMA StepsExist ==
  ASSUME NEW M \in Nat, NEW V, NEW base \in V, NEW step \in [V \X (1 .. M) -> V]
  PROVE  \E f \in [0 .. M -> V] : Accumulates(f, M, base, step)
<1>. USE DEF Accumulates
<1>. DEFINE Solves(f, m) ==
              f[0] = base /\ \A n \in 1 .. m : f[n] = step[<<f[n - 1], n>>]
            S == {m \in 0 .. M : \E f \in [0 .. m -> V] : Solves(f, m)}
<1>1. 0 \in S
  <2>. DEFINE f == [n \in 0 .. 0 |-> base]
  <2>2. f \in [0 .. 0 -> V] /\ Solves(f, 0)
    OBVIOUS
  <2>. HIDE DEF f
  <2>3. \E g \in [0 .. 0 -> V] : Solves(g, 0)
    BY <2>2
  <2>. HIDE DEF Solves
  <2>. QED
    BY <2>3
<1>2. ASSUME NEW m \in 0 .. M - 1, m \in S PROVE m + 1 \in S
  <2>1. PICK f \in [0 .. m -> V] : Solves(f, m)
    BY <1>2
  <2>. DEFINE g == [n \in 0 .. m + 1 |-> IF n = 0 THEN base ELSE step[<<f[n - 1], n>>]]
  <2>3. ASSUME NEW n \in 0 .. m + 1 PROVE g[n] \in V
    <3>1. CASE n = 0
      BY <3>1
    <3>2. CASE n # 0
      <4>1. n - 1 \in 0 .. m /\ n \in 1 .. M
        BY <3>2
      <4>2. f[n - 1] \in V
        BY <4>1
      <4>3. <<f[n - 1], n>> \in V \X (1 .. M)
        BY <4>1, <4>2
      <4>4. step[<<f[n - 1], n>>] \in V
        BY <4>3
      <4>. QED
        BY <3>2, <4>4
    <3>. QED
      BY <3>1, <3>2
  <2>4. g \in [0 .. m + 1 -> V]
    BY <2>3
  <2>5. ASSUME NEW n \in 0 .. m PROVE g[n] = f[n]
    BY <2>1
  <2>6. ASSUME NEW n \in 0 .. m + 1
        PROVE  g[n] = IF n = 0 THEN base ELSE step[<<g[n - 1], n>>]
    <3>1. CASE n = 0
      BY <3>1
    <3>2. CASE n # 0
      <4>1. n - 1 \in 0 .. m
        BY <3>2
      <4>. QED
        BY <3>2, <4>1, <2>5
    <3>. QED
      BY <3>1, <3>2
  <2>7. Solves(g, m + 1)
    BY <2>6
  <2>8. m + 1 \in 0 .. M
    OBVIOUS
  <2>. QED
    BY <2>4, <2>7, <2>8
<1>. HIDE DEF S
<1>3. 0 .. M \subseteq S
  BY <1>1, <1>2, InductionUpTo
<1>4. M \in S
  BY <1>3
<1>. QED
  BY <1>4 DEF S
===============================================================================
