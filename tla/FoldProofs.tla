----------------------------- MODULE FoldProofs -----------------------------
(***************************************************************************)
(* What a loop over a list computes.  The models write such loops with     *)
(* FoldLeft, which is a recursive function on the sets of positions; the   *)
(* lemmas say that this function exists, stays in its range, and takes one *)
(* element of the list after the other.  Induction is the least            *)
(* counterexample.                                                         *)
(***************************************************************************)
EXTENDS Integers, SequencesExt, WellFoundedInduction, TLAPS

(* The least number of a set. *)
LEMMA LeastNatural ==
    ASSUME NEW S \in SUBSET Nat, S # {}
    PROVE  Min(S) \in S /\ \A n \in S : Min(S) <= n
<1>1. PICK m \in S : \A n \in S : ~(<<n, m>> \in OpToRel(<, Nat))
  BY NatLessThanWellFounded, WFMin
<1>2. \A n \in S : ~(n < m)
  BY <1>1 DEF OpToRel
<1>3. \A n \in S : m <= n
  BY <1>2
<1> QED BY <1>3 DEF Min

(* Induction up to a bound: the set of the numbers that have the property. *)
LEMMA UpTo ==
    ASSUME NEW n \in Nat, NEW S, 0 \in S, \A k \in 1..n : k - 1 \in S => k \in S
    PROVE  \A k \in 0..n : k \in S
<1> DEFINE Bad == {k \in 0..n : k \notin S}
<1> SUFFICES ASSUME Bad # {} PROVE FALSE
  OBVIOUS
<1>1. Bad \in SUBSET Nat
  OBVIOUS
<1>2. PICK m \in Bad : \A k \in Bad : m <= k
  <2> HIDE DEF Bad
  <2> QED BY <1>1, LeastNatural
<1>3. m \in 1..n /\ m - 1 \in 0..n
  BY <1>2
<1>4. m - 1 \notin Bad
  BY <1>2, <1>3
<1> QED BY <1>2, <1>3, <1>4

LEMMA MaxLemma ==
    ASSUME NEW n \in Nat, NEW t \in SUBSET (1..n), t # {}
    PROVE  Max(t) \in t /\ \A x \in t : x <= Max(t)
<1> DEFINE B == {m \in Nat : \A x \in t : x <= m}
<1>1. n \in B /\ B \in SUBSET Nat
  OBVIOUS
<1>2. PICK m \in B : \A k \in B : m <= k
  <2> HIDE DEF B
  <2> QED BY <1>1, LeastNatural
<1>3. m \in t
  <2> SUFFICES ASSUME m \notin t PROVE FALSE
    OBVIOUS
  <2>1. \A x \in t : x \in 1..n /\ x <= m /\ x # m
    BY <1>2
  <2>2. \A x \in t : x <= m - 1 /\ m - 1 \in Nat
    BY <2>1, <1>2
  <2>3. m - 1 \in B
    BY <2>2
  <2> QED BY <1>2, <2>3
<1>4. \A x \in t : x <= m
  BY <1>2
<1>5. \E x \in t : \A y \in t : x >= y
  BY <1>3, <1>4
<1>6. Max(t) \in t /\ \A y \in t : Max(t) >= y
  BY <1>5 DEF Max
<1> QED BY <1>6

LEMMA MaxOfUpTo ==
    ASSUME NEW k \in Nat \ {0}
    PROVE  Max(1..k) = k /\ (1..k) \ {Max(1..k)} = 1..(k - 1)
<1>1. Max(1..k) \in 1..k /\ \A x \in 1..k : x <= Max(1..k)
  <2>1. 1 \in 1..k /\ k \in Nat
    OBVIOUS
  <2>2. 1..k # {}
    BY <2>1
  <2> QED BY <2>1, <2>2, MaxLemma
<1>2. Max(1..k) = k
  BY <1>1
<1> QED BY <1>2

(* A function on the sets of positions that takes the last one first. *)
IsFold(n, g, b, step) ==
    \A t \in SUBSET (1..n) : g[t] = IF t = {} THEN b ELSE step[<<Max(t), g[t \ {Max(t)}]>>]

LEMMA FoldExists ==
    ASSUME NEW n \in Nat, NEW R, NEW b \in R, NEW step \in [(1..n) \X R -> R]
    PROVE  \E g \in [SUBSET (1..n) -> R] : IsFold(n, g, b, step)
<1> DEFINE S == {m \in 0..n : \E g \in [SUBSET (1..m) -> R] : IsFold(m, g, b, step)}
<1>1. 0 \in S
  <2> DEFINE g == [t \in SUBSET (1..0) |-> b]
  <2>1. g \in [SUBSET (1..0) -> R] /\ IsFold(0, g, b, step)
    BY DEF IsFold
  <2> QED BY <2>1
<1>2. ASSUME NEW k \in 1..n, k - 1 \in S PROVE k \in S
  <2>1. PICK g \in [SUBSET (1..(k - 1)) -> R] : IsFold(k - 1, g, b, step)
    BY <1>2
  <2> DEFINE h == [t \in SUBSET (1..k) |-> IF k \in t THEN step[<<k, g[t \ {k}]>>] ELSE g[t]]
  <2>2. \A t \in SUBSET (1..k) : /\ t \ {k} \in SUBSET (1..(k - 1))
                                 /\ k \notin t => t \in SUBSET (1..(k - 1))
    OBVIOUS
  <2>3. h \in [SUBSET (1..k) -> R]
    <3> SUFFICES ASSUME NEW t \in SUBSET (1..k) PROVE h[t] \in R
      OBVIOUS
    <3>1. CASE k \in t
      <4>1. g[t \ {k}] \in R
        BY <2>2
      <4>2. <<k, g[t \ {k}]>> \in (1..n) \X R
        BY <4>1
      <4> QED BY <3>1, <4>2
    <3>2. CASE k \notin t
      BY <2>2, <3>2
    <3> QED BY <3>1, <3>2
  <2>4. ASSUME NEW t \in SUBSET (1..k)
        PROVE  h[t] = IF t = {} THEN b ELSE step[<<Max(t), h[t \ {Max(t)}]>>]
    <3>1. CASE k \in t
      <4>1. k \in Nat /\ t # {}
        BY <3>1
      <4>2. Max(t) \in t /\ \A x \in t : x <= Max(t)
        BY <4>1, MaxLemma
      <4>3. Max(t) \in 1..k /\ k <= Max(t)
        BY <3>1, <4>2
      <4>4. Max(t) = k
        BY <4>1, <4>3
      <4>5. h[t \ {k}] = g[t \ {k}]
        OBVIOUS
      <4>6. h[t] = step[<<k, g[t \ {k}]>>]
        BY <3>1
      <4> QED BY <4>1, <4>4, <4>5, <4>6
    <3>2. CASE k \notin t /\ t # {}
      <4>1. t \in SUBSET (1..(k - 1))
        BY <2>2, <3>2
      <4>2. g[t] = step[<<Max(t), g[t \ {Max(t)}]>>]
        BY <2>1, <3>2, <4>1 DEF IsFold
      <4>3. h[t] = g[t] /\ h[t \ {Max(t)}] = g[t \ {Max(t)}]
        BY <3>2
      <4> QED BY <3>2, <4>2, <4>3
    <3>3. CASE t = {}
      <4>1. g[{}] = b
        BY <2>1 DEF IsFold
      <4> QED BY <3>3, <4>1
    <3> QED BY <3>1, <3>2, <3>3
  <2>5. IsFold(k, h, b, step)
    BY <2>4 DEF IsFold
  <2>6. k \in 0..n
    OBVIOUS
  <2> HIDE DEF h
  <2> QED BY <2>3, <2>5, <2>6
<1>3. n \in S
  <2> HIDE DEF S
  <2> QED BY <1>1, <1>2, UpTo
<1> QED BY <1>3

(* A set that the fold never leaves. *)
LEMMA FoldRange ==
    ASSUME NEW n \in Nat, NEW R, NEW g, g[{}] \in R,
           \A t \in SUBSET (1..n) : t # {} /\ g[t \ {Max(t)}] \in R => g[t] \in R
    PROVE  \A t \in SUBSET (1..n) : g[t] \in R
<1> DEFINE S == {m \in 0..n : \A t \in SUBSET (1..m) : g[t] \in R}
<1>1. 0 \in S
  <2>1. \A t \in SUBSET (1..0) : t = {}
    OBVIOUS
  <2>2. \A t \in SUBSET (1..0) : g[t] \in R
    BY <2>1
  <2>3. 0 \in 0..n
    OBVIOUS
  <2> QED BY <2>2, <2>3
<1>2. ASSUME NEW k \in 1..n, k - 1 \in S PROVE k \in S
  <2>1. ASSUME NEW t \in SUBSET (1..k) PROVE g[t] \in R
    <3>1. CASE t = {}
      BY <3>1
    <3>2. CASE t # {}
      <4>1. k \in Nat
        OBVIOUS
      <4>2. Max(t) \in t /\ \A x \in t : x <= Max(t)
        BY <3>2, <4>1, MaxLemma
      <4>3. ASSUME NEW x \in t \ {Max(t)} PROVE x \in 1..(k - 1)
        <5>1. x \in 1..k /\ Max(t) \in 1..k /\ x <= Max(t) /\ x # Max(t)
          BY <4>2
        <5> QED BY <4>1, <5>1
      <4>4. t \ {Max(t)} \in SUBSET (1..(k - 1))
        BY <4>3
      <4>5. g[t \ {Max(t)}] \in R
        BY <1>2, <4>4
      <4>6. t \in SUBSET (1..n)
        OBVIOUS
      <4> QED BY <3>2, <4>5, <4>6
    <3> QED BY <3>1, <3>2
  <2>2. k \in 0..n
    OBVIOUS
  <2> QED BY <2>1, <2>2
<1>3. n \in S
  <2> HIDE DEF S
  <2> QED BY <1>1, <1>2, UpTo
<1> QED BY <1>3

(* The same one position after the other. *)
IsRun(h, n, R, b, step) ==
    /\ h \in [0..n -> R]
    /\ h[0] = b
    /\ \A k \in 1..n : h[k] = step[<<k, h[k - 1]>>]

(* There is such a function. *)
LEMMA RunExists ==
    ASSUME NEW n \in Nat, NEW R, NEW b \in R, NEW step \in [(1..n) \X R -> R]
    PROVE  \E h : IsRun(h, n, R, b, step)
<1>1. PICK g \in [SUBSET (1..n) -> R] : IsFold(n, g, b, step)
  BY FoldExists
<1> DEFINE h == [k \in 0..n |-> g[1..k]]
<1>2. \A k \in 0..n : 1..k \in SUBSET (1..n)
  OBVIOUS
<1>3. h \in [0..n -> R]
  BY <1>2
<1>4. h[0] = b
  <2>1. 1..0 = {} /\ 0 \in 0..n
    OBVIOUS
  <2>2. g[{}] = b
    BY <1>1 DEF IsFold
  <2> QED BY <2>1, <2>2
<1>5. ASSUME NEW k \in 1..n PROVE h[k] = step[<<k, h[k - 1]>>]
  <2>1. k \in Nat \ {0} /\ k \in 0..n /\ k - 1 \in 0..n
    OBVIOUS
  <2>2. 1 \in 1..k
    OBVIOUS
  <2>3. Max(1..k) = k /\ (1..k) \ {Max(1..k)} = 1..(k - 1)
    BY <2>1, MaxOfUpTo
  <2>4. g[1..k] = step[<<Max(1..k), g[(1..k) \ {Max(1..k)}]>>]
    BY <1>1, <1>2, <2>1, <2>2 DEF IsFold
  <2> QED BY <2>1, <2>3, <2>4
<1> HIDE DEF h
<1> QED BY <1>3, <1>4, <1>5 DEF IsRun

(* The same without the name. *)
LEMMA StepsExist ==
    ASSUME NEW n \in Nat, NEW R, NEW b \in R, NEW step \in [(1..n) \X R -> R]
    PROVE  \E h \in [0..n -> R] : h[0] = b /\ \A k \in 1..n : h[k] = step[<<k, h[k - 1]>>]
<1>1. PICK h : IsRun(h, n, R, b, step)
  BY RunExists
<1> QED BY <1>1 DEF IsRun

(* A loop written as a fold: iter is the recursive function behind it, of  *)
(* which a step needs to be known only from the states the loop gets to.   *)
IsLoop(n, R, iter, b, step) ==
    /\ n \in Nat /\ b \in R /\ step \in [(1..n) \X R -> R]
    /\ iter[{}] = b
    /\ \A t \in SUBSET (1..n) : t # {} /\ iter[t \ {Max(t)}] \in R =>
          iter[t] = step[<<Max(t), iter[t \ {Max(t)}]>>]

(* The states it goes through. *)
Runs(h, n, R, iter, b, step) ==
    /\ h \in [0..n -> R]
    /\ h[0] = b /\ h[n] = iter[1..n]
    /\ \A k \in 1..n : h[k] = step[<<k, h[k - 1]>>]

LEMMA FoldSteps ==
    ASSUME NEW n, NEW R, NEW b, NEW step, NEW iter, IsLoop(n, R, iter, b, step)
    PROVE  \E h : Runs(h, n, R, iter, b, step)
<1> USE DEF IsLoop
<1>1. \A t \in SUBSET (1..n) : iter[t] \in R
  <2>1. ASSUME NEW t \in SUBSET (1..n), t # {} /\ iter[t \ {Max(t)}] \in R PROVE iter[t] \in R
    <3>1. Max(t) \in 1..n
      BY <2>1, MaxLemma
    <3>2. <<Max(t), iter[t \ {Max(t)}]>> \in (1..n) \X R
      BY <2>1, <3>1
    <3> QED BY <2>1, <3>2
  <2> QED BY <2>1, FoldRange
<1> DEFINE h == [k \in 0..n |-> iter[1..k]]
<1>2. \A k \in 0..n : 1..k \in SUBSET (1..n)
  OBVIOUS
<1>3. h \in [0..n -> R]
  BY <1>1, <1>2
<1>4. h[0] = b /\ h[n] = iter[1..n]
  <2>1. 1..0 = {} /\ 0 \in 0..n /\ n \in 0..n
    OBVIOUS
  <2> QED BY <2>1
<1>5. ASSUME NEW k \in 1..n PROVE h[k] = step[<<k, h[k - 1]>>]
  <2>1. k \in Nat \ {0} /\ k \in 0..n /\ k - 1 \in 0..n
    OBVIOUS
  <2>2. 1..k # {}
    OBVIOUS
  <2>3. Max(1..k) = k /\ (1..k) \ {Max(1..k)} = 1..(k - 1)
    BY <2>1, MaxOfUpTo
  <2>4. iter[(1..k) \ {Max(1..k)}] \in R /\ 1..k \in SUBSET (1..n)
    BY <1>1, <1>2, <2>1, <2>3
  <2>5. iter[1..k] = step[<<Max(1..k), iter[(1..k) \ {Max(1..k)}]>>]
    BY <2>2, <2>4
  <2> QED BY <2>1, <2>3, <2>5
<1> HIDE DEF h
<1> QED BY <1>3, <1>4, <1>5 DEF Runs
=============================================================================
