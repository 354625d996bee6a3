--------------------------- MODULE BalancerProofs ---------------------------
(***************************************************************************)
(* Theorems about Balancer for every tree, every irq db and every load.    *)
(***************************************************************************)
EXTENDS Balancer, FoldProofs

-----------------------------------------------------------------------------
(* What the sums of parse_proc_stat (procinterrupts.c) come to: for_each   *)
(* loops that add up loads and interrupts, and the recursion over the      *)
(* object tree that hands them up and down.                                *)

(* h[k] is the sum of the first k elements of the list. *)
Adds(h, f, s) ==
    /\ h \in [0..Len(s) -> Int]
    /\ h[0] = 0
    /\ \A k \in 1..Len(s) : h[k] = h[k - 1] + f[s[k]]

LEMMA AddsExist ==
    ASSUME NEW S, NEW s \in Seq(S), NEW f, \A x \in S : f[x] \in Int
    PROVE  \E h : Adds(h, f, s) /\ SumOver(f, s) = h[Len(s)]
<1> DEFINE n == Len(s)
           Is(g) == g = [t \in SUBSET (DOMAIN s) |->
                            IF t = {} THEN 0 ELSE g[t \ {Max(t)}] + f[s[Max(t)]]]
           iter == CHOOSE g : Is(g)
           step == [p \in (1..n) \X Int |-> p[2] + f[s[p[1]]]]
<1>1. SumOver(f, s) = iter[DOMAIN s]
  BY DEF SumOver, FoldLeft, MapThenFoldSet
<1>2. n \in Nat /\ DOMAIN s = 1..n /\ \A k \in 1..n : f[s[k]] \in Int
  OBVIOUS
<1>3. step \in [(1..n) \X Int -> Int]
  BY <1>2
<1>n. n = Len(s)
  OBVIOUS
<1> HIDE DEF n
<1>4. PICK g \in [SUBSET (1..n) -> Int] : IsFold(n, g, 0, step)
  <2>1. 0 \in Int
    OBVIOUS
  <2> HIDE DEF step
  <2> DEFINE R == Int
  <2> HIDE DEF R
  <2>2. step \in [(1..n) \X R -> R] /\ 0 \in R
    BY <1>3, <2>1 DEF R
  <2>3. \E g \in [SUBSET (1..n) -> R] : IsFold(n, g, 0, step)
    BY <1>2, <2>2, FoldExists
  <2> QED BY <2>3 DEF R
<1>5. ASSUME NEW t \in SUBSET (1..n), t # {} PROVE g[t] = g[t \ {Max(t)}] + f[s[Max(t)]]
  <2>1. g[t] = step[<<Max(t), g[t \ {Max(t)}]>>]
    BY <1>4, <1>5 DEF IsFold
  <2>2. Max(t) \in 1..n /\ g[t \ {Max(t)}] \in Int
    BY <1>2, <1>5, MaxLemma
  <2>3. <<Max(t), g[t \ {Max(t)}]>> \in (1..n) \X Int
    BY <2>2
  <2> QED BY <2>1, <2>3
<1>6. g[{}] = 0
  BY <1>4 DEF IsFold
<1>7. Is(g)
  BY <1>2, <1>5, <1>6
<1>8. Is(iter)
  BY <1>7
<1>9. /\ iter[{}] = 0
      /\ \A t \in SUBSET (1..n) : t # {} => iter[t] = iter[t \ {Max(t)}] + f[s[Max(t)]]
  BY <1>2, <1>8
<1> HIDE DEF iter
<1>10. \A t \in SUBSET (1..n) : iter[t] \in Int
  <2>1. ASSUME NEW t \in SUBSET (1..n), t # {}, iter[t \ {Max(t)}] \in Int PROVE iter[t] \in Int
    <3>1. Max(t) \in 1..n
      BY <1>2, <2>1, MaxLemma
    <3>2. iter[t] = iter[t \ {Max(t)}] + f[s[Max(t)]]
      BY <1>9, <2>1
    <3> QED BY <1>2, <2>1, <3>1, <3>2
  <2>2. iter[{}] \in Int
    BY <1>9
  <2> QED BY <1>2, <2>1, <2>2, FoldRange
<1> DEFINE h == [k \in 0..n |-> iter[1..k]]
<1>11. \A k \in 0..n : 1..k \in SUBSET (1..n)
  BY <1>2
<1>12. h \in [0..n -> Int]
  BY <1>10, <1>11
<1>13. h[0] = 0
  <2>1. 1..0 = {} /\ 0 \in 0..n
    BY <1>2
  <2> QED BY <2>1, <1>9
<1>14. ASSUME NEW k \in 1..n PROVE h[k] = h[k - 1] + f[s[k]]
  <2>1. k \in Nat \ {0} /\ k \in 0..n /\ k - 1 \in 0..n
    BY <1>2
  <2>2. 1..k # {}
    BY <2>1
  <2>3. Max(1..k) = k /\ (1..k) \ {Max(1..k)} = 1..(k - 1)
    BY <2>1, MaxOfUpTo
  <2>4. iter[1..k] = iter[(1..k) \ {Max(1..k)}] + f[s[Max(1..k)]]
    BY <1>9, <1>11, <2>1, <2>2
  <2> QED BY <2>1, <2>3, <2>4
<1>15. n \in 0..n /\ h[n] = iter[1..n]
  BY <1>2
<1> HIDE DEF h
<1>16. Adds(h, f, s)
  BY <1>12, <1>13, <1>14, <1>n DEF Adds
<1> QED BY <1>1, <1>2, <1>15, <1>16, <1>n

(* The partial sums are determined. *)
LEMMA AddsAgree ==
    ASSUME NEW S, NEW s \in Seq(S), NEW T, NEW u \in Seq(T), Len(u) = Len(s), NEW f, NEW e,
           NEW g, NEW h, Adds(g, f, s), Adds(h, e, u),
           \A k \in 1..Len(s) : f[s[k]] = e[u[k]]
    PROVE  \A k \in 0..Len(s) : g[k] = h[k]
<1> DEFINE n == Len(s)
           Same == {k \in 0..n : g[k] = h[k]}
<1>1. n \in Nat
  OBVIOUS
<1>2. 0 \in Same
  BY DEF Adds
<1>3. ASSUME NEW k \in 1..n, k - 1 \in Same PROVE k \in Same
  <2>1. g[k] = g[k - 1] + f[s[k]] /\ h[k] = h[k - 1] + e[u[k]]
    BY DEF Adds
  <2> QED BY <1>3, <2>1
<1> HIDE DEF Same
<1>4. \A k \in 0..n : k \in Same
  BY <1>1, <1>2, <1>3, UpTo
<1> QED BY <1>4 DEF Same

LEMMA SumIs ==
    ASSUME NEW S, NEW s \in Seq(S), NEW f, \A x \in S : f[x] \in Int, NEW h, Adds(h, f, s)
    PROVE  SumOver(f, s) = h[Len(s)]
<1>1. PICK g : Adds(g, f, s) /\ SumOver(f, s) = g[Len(s)]
  BY AddsExist
<1>2. g[Len(s)] = h[Len(s)]
  BY <1>1, AddsAgree
<1> QED BY <1>1, <1>2

-----------------------------------------------------------------------------
(* Loads are natural numbers, and so are their sums. *)
LEMMA SumNat ==
    ASSUME NEW S, NEW s \in Seq(S), NEW f, \A x \in S : f[x] \in Nat
    PROVE  SumOver(f, s) \in Nat
<1>1. PICK h : Adds(h, f, s) /\ SumOver(f, s) = h[Len(s)]
  BY AddsExist
<1> DEFINE n == Len(s)
           P == {k \in 0..n : h[k] \in Nat}
<1>2. n \in Nat
  OBVIOUS
<1>3. 0 \in P
  BY <1>1 DEF Adds
<1>4. ASSUME NEW k \in 1..n, k - 1 \in P PROVE k \in P
  <2>1. h[k] = h[k - 1] + f[s[k]] /\ s[k] \in S
    BY <1>1 DEF Adds
  <2> QED BY <1>4, <2>1
<1> HIDE DEF P, n
<1>5. n \in P
  <2>1. n \in 0..n
    BY <1>2
  <2> QED BY <1>2, <1>3, <1>4, <2>1, UpTo
<1> QED BY <1>1, <1>5 DEF P, n

(* Only what the elements of the list contribute matters. *)
LEMMA SumSame ==
    ASSUME NEW S, NEW s \in Seq(S), NEW f, NEW e, \A x \in S : f[x] \in Int,
           \A x \in S : e[x] = f[x]
    PROVE  SumOver(e, s) = SumOver(f, s)
<1>1. PICK h : Adds(h, f, s) /\ SumOver(f, s) = h[Len(s)]
  BY AddsExist
<1>2. Adds(h, e, s)
  <2>1. \A k \in 1..Len(s) : e[s[k]] = f[s[k]]
    OBVIOUS
  <2> QED BY <1>1, <2>1 DEF Adds
<1>3. \A x \in S : e[x] \in Int
  OBVIOUS
<1>4. SumOver(e, s) = h[Len(s)]
  BY <1>2, <1>3, SumIs
<1> QED BY <1>1, <1>4

(* If no element contributes more than c times as much, the sum does not   *)
(* either.                                                                 *)
LEMMA SumBound ==
    ASSUME NEW S, NEW s \in Seq(S), NEW f, NEW e, NEW c \in Nat,
           \A x \in S : f[x] \in Nat /\ e[x] \in Nat,
           \A x \in Range(s) : e[x] <= c * f[x]
    PROVE  SumOver(e, s) <= c * SumOver(f, s)
<1>1. PICK h : Adds(h, f, s) /\ SumOver(f, s) = h[Len(s)]
  BY AddsExist
<1>2. PICK g : Adds(g, e, s) /\ SumOver(e, s) = g[Len(s)]
  BY AddsExist
<1> DEFINE n == Len(s)
           P == {k \in 0..n : g[k] <= c * h[k]}
<1>3. n \in Nat
  OBVIOUS
<1>4. 0 \in P
  BY <1>1, <1>2 DEF Adds
<1>5. ASSUME NEW k \in 1..n, k - 1 \in P PROVE k \in P
  <2>1. h[k] = h[k - 1] + f[s[k]] /\ g[k] = g[k - 1] + e[s[k]]
    BY <1>1, <1>2 DEF Adds
  <2>2. s[k] \in Range(s) /\ s[k] \in S
    BY DEF Range
  <2>3. e[s[k]] <= c * f[s[k]] /\ f[s[k]] \in Nat /\ e[s[k]] \in Nat
    BY <2>2
  <2>0. k - 1 \in 0..n /\ h \in [0..n -> Int] /\ g \in [0..n -> Int]
    BY <1>1, <1>2, <1>3 DEF Adds
  <2>4. h[k - 1] \in Int /\ g[k - 1] \in Int
    <3> HIDE DEF n
    <3> QED BY <2>0
  <2>5. c * (h[k - 1] + f[s[k]]) = c * h[k - 1] + c * f[s[k]]
    BY <2>3, <2>4
  <2>6. c * h[k - 1] \in Int /\ c * f[s[k]] \in Int
    BY <2>3, <2>4
  <2>7. g[k - 1] <= c * h[k - 1]
    BY <1>5
  <2>8. g[k] <= c * h[k]
    <3>1. g[k - 1] + e[s[k]] <= c * h[k - 1] + c * f[s[k]]
      <4>1. e[s[k]] \in Int
        BY <2>3
      <4> DEFINE a == g[k - 1]
                 b == e[s[k]]
                 x == c * h[k - 1]
                 y == c * f[s[k]]
      <4>2. a \in Int /\ b \in Int /\ x \in Int /\ y \in Int /\ a <= x /\ b <= y
        BY <2>3, <2>4, <2>6, <2>7, <4>1
      <4> HIDE DEF a, b, x, y
      <4>3. a + b <= x + y
        BY <4>2
      <4> QED BY <4>3 DEF a, b, x, y
    <3> QED BY <2>1, <2>5, <3>1
  <2> QED BY <2>8
<1> HIDE DEF P, n
<1>6. n \in P
  <2>1. n \in 0..n
    BY <1>3
  <2> QED BY <1>3, <1>4, <1>5, <2>1, UpTo
<1> QED BY <1>1, <1>2, <1>6 DEF P, n

-----------------------------------------------------------------------------
(* The list without its k-th element. *)
Without(s, k) == [j \in 1..(Len(s) - 1) |-> IF j < k THEN s[j] ELSE s[j + 1]]

LEMMA WithoutLemma ==
    ASSUME NEW S, NEW s \in Seq(S), NEW k \in 1..Len(s)
    PROVE  /\ Without(s, k) \in Seq(S) /\ Len(Without(s, k)) = Len(s) - 1
           /\ \A j \in 1..Len(s) : j # k => s[j] \in Range(Without(s, k))
<1> DEFINE w == Without(s, k)
<1>1. /\ Len(s) - 1 \in Nat
      /\ \A j \in 1..(Len(s) - 1) : s[j] \in S /\ s[j + 1] \in S
  OBVIOUS
<1>2. w \in [1..(Len(s) - 1) -> S]
  BY <1>1 DEF Without
<1>3. w \in Seq(S) /\ Len(w) = Len(s) - 1 /\ DOMAIN w = 1..(Len(s) - 1)
  <2> HIDE DEF w
  <2> QED BY <1>1, <1>2
<1>4. ASSUME NEW j \in 1..Len(s), j # k PROVE s[j] \in Range(w)
  <2>1. CASE j < k
    <3>1. j \in DOMAIN w /\ w[j] = s[j]
      BY <1>3, <2>1 DEF Without
    <3> QED BY <3>1 DEF Range
  <2>2. CASE j > k
    <3>1. j - 1 \in DOMAIN w /\ w[j - 1] = s[j]
      BY <1>3, <2>2 DEF Without
    <3> QED BY <3>1 DEF Range
  <2> QED BY <1>4, <2>1, <2>2
<1> QED BY <1>3, <1>4

LEMMA SumWithout ==
    ASSUME NEW S, NEW s \in Seq(S), NEW f, \A x \in S : f[x] \in Nat, NEW k \in 1..Len(s)
    PROVE  SumOver(f, s) = SumOver(f, Without(s, k)) + f[s[k]]
<1> DEFINE n == Len(s)
           w == Without(s, k)
<1>1. PICK h : Adds(h, f, s) /\ SumOver(f, s) = h[n]
  BY AddsExist
<1> DEFINE g == [j \in 0..(n - 1) |-> IF j < k THEN h[j] ELSE h[j + 1] - f[s[k]]]
<1>2. n \in Nat /\ n - 1 \in Nat /\ k \in 1..n /\ s[k] \in S /\ f[s[k]] \in Nat
  OBVIOUS
<1>3. w \in Seq(S) /\ Len(w) = n - 1
  BY WithoutLemma
<1>4. \A j \in 1..(n - 1) : w[j] = IF j < k THEN s[j] ELSE s[j + 1]
  BY DEF Without
<1>5. /\ h \in [0..n -> Int] /\ h[0] = 0
      /\ \A j \in 1..n : h[j] = h[j - 1] + f[s[j]] /\ f[s[j]] \in Nat
  <2>1. \A j \in 1..n : s[j] \in S
    OBVIOUS
  <2> QED BY <1>1, <2>1 DEF Adds
<1> HIDE DEF n, w
<1>6. g \in [0..(n - 1) -> Int]
  <2>0. \A j \in 0..(n - 1) : j \in 0..n /\ j + 1 \in 0..n
    BY <1>2
  <2>1. \A j \in 0..(n - 1) : h[j] \in Int /\ h[j + 1] \in Int
    BY <1>5, <2>0
  <2>2. f[s[k]] \in Int
    BY <1>2, <1>5
  <2>3. \A j \in 0..(n - 1) : h[j + 1] - f[s[k]] \in Int
    BY <2>1, <2>2
  <2> QED BY <2>1, <2>3
<1>7. g[0] = 0
  BY <1>2, <1>5
<1>8. ASSUME NEW j \in 1..(n - 1) PROVE g[j] = g[j - 1] + f[w[j]]
  <2>1. CASE j < k
    <3>1. g[j] = h[j] /\ g[j - 1] = h[j - 1] /\ w[j] = s[j]
      BY <1>2, <1>4, <2>1
    <3>2. h[j] = h[j - 1] + f[s[j]]
      BY <1>2, <1>5
    <3> QED BY <3>1, <3>2
  <2>2. CASE j = k
    <3>1. g[j] = h[j + 1] - f[s[k]] /\ g[j - 1] = h[j - 1] /\ w[j] = s[j + 1]
      BY <1>2, <1>4, <2>2
    <3>0. j \in 1..n /\ j + 1 \in 1..n /\ (j + 1) - 1 = j /\ j - 1 \in 0..n
      BY <1>2
    <3>2. h[j + 1] = h[j] + f[s[j + 1]] /\ h[j] = h[j - 1] + f[s[j]]
      BY <1>5, <3>0
    <3>3. h[j - 1] \in Int /\ f[s[j]] \in Nat /\ f[s[j + 1]] \in Nat
      BY <1>5, <3>0
    <3> DEFINE a == h[j - 1]
               b == f[s[j + 1]]
               c == f[s[j]]
    <3>4. a \in Int /\ b \in Nat /\ c \in Nat
      BY <3>3
    <3>5. g[j] = ((a + c) + b) - c /\ g[j - 1] = a /\ f[w[j]] = b
      BY <2>2, <3>1, <3>2
    <3>6. ((a + c) + b) - c = a + b
      <4> HIDE DEF a, b, c
      <4> QED BY <3>4
    <3> QED BY <3>5, <3>6
  <2>3. CASE j > k
    <3>1. g[j] = h[j + 1] - f[s[k]] /\ g[j - 1] = h[j] - f[s[k]] /\ w[j] = s[j + 1]
      BY <1>2, <1>4, <2>3
    <3>0. j \in 0..n /\ j + 1 \in 1..n /\ (j + 1) - 1 = j
      BY <1>2
    <3>2. h[j + 1] = h[j] + f[s[j + 1]]
      BY <1>5, <3>0
    <3>3. h[j] \in Int /\ f[s[j + 1]] \in Nat
      BY <1>5, <3>0
    <3> DEFINE a == h[j]
               b == f[s[j + 1]]
               c == f[s[k]]
    <3>4. a \in Int /\ b \in Nat /\ c \in Nat
      BY <1>2, <3>3
    <3>5. g[j] = (a + b) - c /\ g[j - 1] = a - c /\ f[w[j]] = b
      BY <3>1, <3>2
    <3>6. (a + b) - c = (a - c) + b
      <4> HIDE DEF a, b, c
      <4> QED BY <3>4
    <3> QED BY <3>5, <3>6
  <2> QED BY <1>2, <2>1, <2>2, <2>3
<1>9. g[n - 1] = h[n] - f[s[k]]
  <2>1. CASE n - 1 < k
    <3>1. k = n /\ n - 1 \in 0..(n - 1) /\ n - 1 \in 0..n /\ n \in 1..n
      BY <1>2, <2>1
    <3>2. g[n - 1] = h[n - 1]
      BY <2>1, <3>1
    <3>3. h[n] = h[n - 1] + f[s[n]] /\ h[n - 1] \in Int
      BY <1>5, <3>1
    <3> QED BY <1>2, <3>1, <3>2, <3>3
  <2>2. CASE ~(n - 1 < k)
    <3>1. n - 1 \in 0..(n - 1) /\ (n - 1) + 1 = n
      BY <1>2
    <3> QED BY <2>2, <3>1
  <2> QED BY <2>1, <2>2
<1> HIDE DEF g
<1>10. Adds(g, f, w)
  BY <1>3, <1>6, <1>7, <1>8 DEF Adds
<1>11. SumOver(f, w) = g[n - 1]
  <2>1. \A x \in S : f[x] \in Int
    OBVIOUS
  <2> QED BY <1>3, <1>10, <2>1, SumIs
<1>12. h[n] \in Int
  BY <1>2, <1>5
<1> QED BY <1>1, <1>2, <1>9, <1>11, <1>12 DEF w

LEMMA SumEmpty == ASSUME NEW f PROVE SumOver(f, <<>>) = 0
<1> DEFINE s == <<>>
           E == {}
<1>1. s \in Seq(E) /\ Len(s) = 0 /\ \A x \in E : f[x] \in Int
  <2>1. s \in Seq(E)
    <3> HIDE DEF E
    <3> QED OBVIOUS
  <2>2. Len(s) = 0
    OBVIOUS
  <2>3. \A x \in E : f[x] \in Int
    OBVIOUS
  <2> QED BY <2>1, <2>2, <2>3
<1> HIDE DEF s, E
<1>2. PICK h : Adds(h, f, s) /\ SumOver(f, s) = h[Len(s)]
  BY <1>1, AddsExist
<1>3. SumOver(f, s) = 0
  BY <1>1, <1>2 DEF Adds
<1> QED BY <1>3 DEF s

LEMMA SumTail ==
    ASSUME NEW S, NEW s \in Seq(S), s # <<>>, NEW f, \A x \in S : f[x] \in Nat
    PROVE  SumOver(f, s) = SumOver(f, Tail(s)) + f[Head(s)]
<1>1. Len(s) \in Nat /\ 1 \in 1..Len(s) /\ Head(s) = s[1]
  OBVIOUS
<1>2. Tail(s) \in Seq(S) /\ Len(Tail(s)) = Len(s) - 1
      /\ \A k \in 1..(Len(s) - 1) : Tail(s)[k] = s[k + 1]
  OBVIOUS
<1>3. Without(s, 1) \in Seq(S) /\ Len(Without(s, 1)) = Len(s) - 1
  BY <1>1, WithoutLemma
<1>4. \A k \in 1..(Len(s) - 1) : Without(s, 1)[k] = s[k + 1]
  BY <1>1 DEF Without
<1>5. \A x \in S : f[x] \in Int
  OBVIOUS
<1>6. PICK g : Adds(g, f, Tail(s)) /\ SumOver(f, Tail(s)) = g[Len(s) - 1]
  BY <1>2, <1>5, AddsExist
<1>7. PICK h : Adds(h, f, Without(s, 1)) /\ SumOver(f, Without(s, 1)) = h[Len(s) - 1]
  BY <1>3, <1>5, AddsExist
<1> DEFINE t == Tail(s)
           w == Without(s, 1)
<1>8. \A k \in 1..Len(t) : f[t[k]] = f[w[k]]
  BY <1>2, <1>4
<1>9. \A k \in 0..Len(t) : g[k] = h[k]
  <2> HIDE DEF t, w
  <2>1. /\ t \in Seq(S) /\ w \in Seq(S) /\ Len(w) = Len(t)
        /\ Adds(g, f, t) /\ Adds(h, f, w)
    BY <1>2, <1>3, <1>6, <1>7 DEF t, w
  <2> QED BY <1>8, <2>1, AddsAgree
<1>10. Len(s) - 1 \in 0..Len(t)
  BY <1>1, <1>2
<1>11. SumOver(f, s) = SumOver(f, Without(s, 1)) + f[s[1]]
  BY <1>1, SumWithout
<1> QED BY <1>1, <1>6, <1>7, <1>9, <1>10, <1>11

(* A list that holds some of the elements of another one, each once, sums  *)
(* up to no more.                                                          *)
LEMMA SumSub ==
    ASSUME NEW S, NEW f, \A x \in S : f[x] \in Nat,
           NEW t \in Seq(S), NEW s \in Seq(S), IsInjective(t), Range(t) \subseteq Range(s)
    PROVE  SumOver(f, t) <= SumOver(f, s)
<1> DEFINE n == Len(t)
           Fits(m) == \A u, v \in Seq(S) :
                        (Len(u) = m /\ IsInjective(u) /\ Range(u) \subseteq Range(v))
                            => SumOver(f, u) <= SumOver(f, v)
           P == {m \in 0..n : Fits(m)}
<1>1. n \in Nat
  OBVIOUS
<1>2. 0 \in P
  <2>1. ASSUME NEW u \in Seq(S), NEW v \in Seq(S), Len(u) = 0
        PROVE  SumOver(f, u) <= SumOver(f, v)
    <3>1. u = <<>>
      BY <2>1
    <3>2. SumOver(f, u) = 0
      BY <3>1, SumEmpty
    <3>3. SumOver(f, v) \in Nat
      BY SumNat
    <3> QED BY <3>2, <3>3
  <2>2. 0 \in 0..n
    BY <1>1
  <2> QED BY <2>1, <2>2
<1>3. ASSUME NEW k \in 1..n, k - 1 \in P PROVE k \in P
  <2>1. ASSUME NEW u \in Seq(S), NEW v \in Seq(S), Len(u) = k, IsInjective(u),
               Range(u) \subseteq Range(v)
        PROVE  SumOver(f, u) <= SumOver(f, v)
    <3>1. k \in 1..Len(u) /\ DOMAIN u = 1..Len(u) /\ DOMAIN v = 1..Len(v)
      BY <2>1
    <3>2. u[k] \in Range(v) /\ u[k] \in S
      <4>1. u[k] \in S
        BY <3>1
      <4>2. u[k] \in Range(u)
        BY <3>1 DEF Range
      <4> QED BY <2>1, <4>1, <4>2
    <3>3. PICK j \in 1..Len(v) : v[j] = u[k]
      BY <3>1, <3>2 DEF Range
    <3> DEFINE a == Without(u, k)
               b == Without(v, j)
    <3>4. a \in Seq(S) /\ Len(a) = k - 1 /\ b \in Seq(S)
      BY <2>1, <3>1, WithoutLemma
    <3>5. \A i \in 1..(k - 1) : a[i] = u[i] /\ i \in DOMAIN u /\ i # k
      BY <2>1, <3>1 DEF Without
    <3>6. DOMAIN a = 1..(k - 1)
      <4> HIDE DEF a
      <4> QED BY <3>4
    <3>7. \A i \in 1..Len(v) : i # j => v[i] \in Range(b)
      BY WithoutLemma
    <3> HIDE DEF a, b
    <3>8. IsInjective(a)
      BY <2>1, <3>5, <3>6 DEF IsInjective
    <3>9. Range(a) \subseteq Range(b)
      <4> SUFFICES ASSUME NEW i \in 1..(k - 1) PROVE a[i] \in Range(b)
        BY <3>6 DEF Range
      <4>1. u[i] \in Range(v)
        BY <2>1, <3>5 DEF Range
      <4>2. PICK l \in 1..Len(v) : v[l] = u[i]
        BY <3>1, <4>1 DEF Range
      <4>3. u[i] # u[k]
        BY <2>1, <3>1, <3>5 DEF IsInjective
      <4> QED BY <3>3, <3>5, <3>7, <4>2, <4>3
    <3>10. SumOver(f, a) <= SumOver(f, b)
      BY <1>3, <3>4, <3>8, <3>9
    <3>11. SumOver(f, u) = SumOver(f, a) + f[u[k]] /\ SumOver(f, v) = SumOver(f, b) + f[v[j]]
      BY <3>1, SumWithout DEF a, b
    <3>12. SumOver(f, a) \in Nat /\ SumOver(f, b) \in Nat /\ f[u[k]] \in Nat
      BY <3>2, <3>4, SumNat
    <3> QED BY <3>3, <3>10, <3>11, <3>12
  <2>2. k \in 0..n
    BY <1>1
  <2> QED BY <2>1, <2>2
<1> HIDE DEF P, n
<1>4. n \in P
  <2>1. n \in 0..n
    BY <1>1
  <2> QED BY <1>1, <1>2, <1>3, <2>1, UpTo
<1> QED BY <1>4 DEF P, n

-----------------------------------------------------------------------------
(* The tree has four levels; a child is one level below its parent. *)
LEMMA DownLemma ==
    ASSUME NEW d \in Objs
    PROVE  /\ Depth(d) \in 0..3
           /\ Children[d] \in Seq({e \in Objs : Depth(e) = Depth(d) + 1})
<1>1. Depth(d) \in 0..3
  BY DEF Depth
<1>2. Children[d] \in Seq(Objs) /\ \A k \in DOMAIN Children[d] : Depth(Children[d][k]) = Depth(d) + 1
  BY TreeAssumption DEF IsTree
<1> QED BY <1>1, <1>2

LEMMA UpLemma ==
    ASSUME NEW d \in Objs, Parent(d) # Null
    PROVE  /\ Parent(d) \in Objs /\ Depth(d) = Depth(Parent(d)) + 1
           /\ Len(Children[Parent(d)]) \in Nat \ {0}
<1> DEFINE p == Parent(d)
<1>1. p \in Objs /\ d \in Range(Children[p])
  BY DEF Parent
<1> HIDE DEF p
<1>2. Children[p] \in Seq(Objs)
  BY <1>1, TreeAssumption DEF IsTree
<1>3. PICK k \in DOMAIN Children[p] : Children[p][k] = d
  BY <1>1 DEF Range
<1>4. Depth(d) = Depth(p) + 1
  BY <1>1, <1>3, TreeAssumption DEF IsTree
<1>5. Len(Children[p]) \in Nat \ {0}
  BY <1>2, <1>3
<1> QED BY <1>1, <1>4, <1>5 DEF p

LEMMA FourLevels ==
    /\ \A d \in Objs : ~(Depth(d) >= 4 - 0) /\ Depth(d) >= 4 - 4
    /\ \A d \in Objs : ~(Depth(d) < 0) /\ Depth(d) < 4
<1>1. \A d \in Objs : Depth(d) \in 0..3
  BY DownLemma
<1> QED BY <1>1

(* Induction over the tree, from the cpus up and from the nodes down. *)
LEMMA FromCpusUp ==
    ASSUME NEW N, \A d \in Objs : (\A e \in Objs : Depth(e) = Depth(d) + 1 => e \in N) => d \in N
    PROVE  \A d \in Objs : d \in N
<1> DEFINE P == {m \in 0..4 : \A d \in Objs : Depth(d) >= 4 - m => d \in N}
<1>1. 0 \in P
  <2>1. 0 \in 0..4
    OBVIOUS
  <2> QED BY <2>1, FourLevels
<1>2. ASSUME NEW m \in 1..4, m - 1 \in P PROVE m \in P
  <2>1. ASSUME NEW d \in Objs, Depth(d) >= 4 - m PROVE d \in N
    <3>1. ASSUME NEW e \in Objs, Depth(e) = Depth(d) + 1 PROVE e \in N
      <4>1. Depth(d) \in 0..3
        BY DownLemma
      <4>2. Depth(e) >= 4 - (m - 1)
        BY <2>1, <3>1, <4>1
      <4> QED BY <1>2, <4>2
    <3> QED BY <3>1
  <2>2. m \in 0..4
    OBVIOUS
  <2> QED BY <2>1, <2>2
<1>3. 4 \in P
  <2> HIDE DEF P
  <2>1. 4 \in Nat /\ 4 \in 0..4
    OBVIOUS
  <2>2. \A m \in 0..4 : m \in P
    BY <1>1, <1>2, <2>1, UpTo
  <2> QED BY <2>1, <2>2
<1> QED BY <1>3, FourLevels

LEMMA FromNodesDown ==
    ASSUME NEW N, \A d \in Objs : (\A e \in Objs : Depth(d) = Depth(e) + 1 => e \in N) => d \in N
    PROVE  \A d \in Objs : d \in N
<1> DEFINE P == {m \in 0..4 : \A d \in Objs : Depth(d) < m => d \in N}
<1>1. 0 \in P
  <2>1. 0 \in 0..4
    OBVIOUS
  <2> QED BY <2>1, FourLevels
<1>2. ASSUME NEW m \in 1..4, m - 1 \in P PROVE m \in P
  <2>1. ASSUME NEW d \in Objs, Depth(d) < m PROVE d \in N
    <3>1. ASSUME NEW e \in Objs, Depth(d) = Depth(e) + 1 PROVE e \in N
      <4>1. Depth(e) \in 0..3
        BY DownLemma
      <4>2. Depth(e) < m - 1
        BY <2>1, <3>1, <4>1
      <4> QED BY <1>2, <4>2
    <3> QED BY <3>1
  <2>2. m \in 0..4
    OBVIOUS
  <2> QED BY <2>1, <2>2
<1>3. 4 \in P
  <2> HIDE DEF P
  <2>1. 4 \in Nat /\ 4 \in 0..4
    OBVIOUS
  <2>2. \A m \in 0..4 : m \in P
    BY <1>1, <1>2, <2>1, UpTo
  <2> QED BY <2>1, <2>2
<1> QED BY <1>3, FourLevels

(* The recursion from the cpus up: what an object has itself, and what its *)
(* children have.                                                          *)
BranchOf(g, own, d) == own[d] + SumOver(g, Children[d])

LEMMA BranchExists ==
    ASSUME NEW own \in [Objs -> Nat]
    PROVE  \E g \in [Objs -> Nat] : g = [d \in Objs |-> BranchOf(g, own, d)]
<1> DEFINE Good(g, m) == \A d \in Objs : Depth(d) >= 4 - m => g[d] = BranchOf(g, own, d)
           P == {m \in 0..4 : \E g \in [Objs -> Nat] : Good(g, m)}
<1>1. 0 \in P
  <2>1. [d \in Objs |-> 0] \in [Objs -> Nat]
    OBVIOUS
  <2>2. \A d \in Objs : ~(Depth(d) >= 4 - 0)
    BY FourLevels
  <2>3. 0 \in 0..4
    OBVIOUS
  <2> QED BY <2>1, <2>2, <2>3
<1>2. ASSUME NEW m \in 1..4, m - 1 \in P PROVE m \in P
  <2>1. PICK g \in [Objs -> Nat] : Good(g, m - 1)
    BY <1>2
  <2> DEFINE h == [d \in Objs |-> BranchOf(g, own, d)]
  <2>2. h \in [Objs -> Nat]
    <3> SUFFICES ASSUME NEW d \in Objs PROVE BranchOf(g, own, d) \in Nat
      OBVIOUS
    <3>1. SumOver(g, Children[d]) \in Nat
      <4>1. Children[d] \in Seq(Objs)
        BY TreeAssumption DEF IsTree
      <4> QED BY <4>1, SumNat
    <3> QED BY <3>1 DEF BranchOf
  <2>3. ASSUME NEW d \in Objs, Depth(d) >= 4 - m PROVE h[d] = BranchOf(h, own, d)
    <3> DEFINE Below == {e \in Objs : Depth(e) = Depth(d) + 1}
    <3>1. Depth(d) \in 0..3 /\ Children[d] \in Seq(Below)
      BY DownLemma
    <3>2. \A e \in Below : h[e] = g[e] /\ g[e] \in Int
      <4> SUFFICES ASSUME NEW e \in Objs, Depth(e) = Depth(d) + 1 PROVE h[e] = g[e] /\ g[e] \in Int
        OBVIOUS
      <4>1. Depth(e) >= 4 - (m - 1)
        BY <2>3, <3>1
      <4>2. g[e] = BranchOf(g, own, e)
        BY <2>1, <4>1
      <4> QED BY <4>2
    <3> HIDE DEF Below, h
    <3>3. SumOver(h, Children[d]) = SumOver(g, Children[d])
      <4>1. \A e \in Below : g[e] \in Int
        BY <3>2
      <4>2. \A e \in Below : h[e] = g[e]
        BY <3>2
      <4> DEFINE s == Children[d]
      <4>3. s \in Seq(Below)
        BY <3>1
      <4> HIDE DEF s
      <4>4. SumOver(h, s) = SumOver(g, s)
        BY <4>1, <4>2, <4>3, SumSame, SMTT(30)
      <4> QED BY <4>4 DEF s
    <3>4. h[d] = own[d] + SumOver(g, Children[d])
      BY DEF h, BranchOf
    <3> QED BY <3>3, <3>4 DEF BranchOf
  <2> HIDE DEF h
  <2>4. Good(h, m)
    <3> HIDE DEF h
    <3> QED BY <2>3
  <2>5. m \in 0..4
    OBVIOUS
  <2> QED BY <2>2, <2>4, <2>5
<1>3. 4 \in P
  <2> HIDE DEF P
  <2>1. 4 \in Nat /\ 4 \in 0..4
    OBVIOUS
  <2>2. \A m \in 0..4 : m \in P
    BY <1>1, <1>2, <2>1, UpTo
  <2> QED BY <2>1, <2>2
<1>4. PICK g \in [Objs -> Nat] : Good(g, 4)
  BY <1>3
<1>5. \A d \in Objs : g[d] = BranchOf(g, own, d)
  <2>1. \A d \in Objs : Depth(d) >= 4 - 4
    BY FourLevels
  <2> QED BY <1>4, <2>1
<1> QED BY <1>5

LEMMA BranchNat ==
    ASSUME NEW own \in [Objs -> Nat], NEW g, \A d \in Objs : g[d] = BranchOf(g, own, d)
    PROVE  \A d \in Objs : g[d] \in Nat
<1> DEFINE N == {d \in Objs : g[d] \in Nat}
<1>1. ASSUME NEW d \in Objs, \A e \in Objs : Depth(e) = Depth(d) + 1 => e \in N PROVE d \in N
  <2> DEFINE Below == {e \in Objs : Depth(e) = Depth(d) + 1}
  <2>1. Children[d] \in Seq(Below)
    BY DownLemma
  <2>2. \A e \in Below : g[e] \in Nat
    BY <1>1
  <2> HIDE DEF Below
  <2>3. SumOver(g, Children[d]) \in Nat
    BY <2>1, <2>2, SumNat
  <2>4. g[d] = own[d] + SumOver(g, Children[d])
    BY DEF BranchOf
  <2> QED BY <2>3, <2>4
<1> HIDE DEF N
<1>2. \A d \in Objs : d \in N
  BY <1>1, FromCpusUp
<1> QED BY <1>2 DEF N

-----------------------------------------------------------------------------
(* set_load gives every object a load. *)
LEMMA SetLoadLemma ==
    ASSUME NEW l \in [Objs -> Nat]
    PROVE  /\ set_load(l) \in [Objs -> Nat]
           /\ \A d \in Objs : set_load(l)[d] = IF Children[d] = <<>> THEN l[d]
                                               ELSE SumOver(set_load(l), Children[d])
<1> DEFINE Is(g) == g = [d \in Objs |-> IF Children[d] = <<>> THEN l[d]
                                        ELSE SumOver(g, Children[d])]
           own == [d \in Objs |-> IF Children[d] = <<>> THEN l[d] ELSE 0]
           total == CHOOSE g : Is(g)
<1>1. set_load(l) = total
  BY DEF set_load
<1>2. own \in [Objs -> Nat]
  OBVIOUS
<1>3. ASSUME NEW g, NEW d \in Objs, Children[d] = <<>>
      PROVE  BranchOf(g, own, d) = l[d]
  <2>1. SumOver(g, Children[d]) = 0 /\ own[d] = l[d] /\ l[d] \in Nat
    BY <1>3, SumEmpty
  <2> QED BY <2>1 DEF BranchOf
<1>4. PICK g \in [Objs -> Nat] : g = [d \in Objs |-> BranchOf(g, own, d)]
  <2> HIDE DEF own
  <2> QED BY <1>2, BranchExists
<1>5. ASSUME NEW d \in Objs
      PROVE  g[d] = IF Children[d] = <<>> THEN l[d] ELSE SumOver(g, Children[d])
  <2>1. g[d] = BranchOf(g, own, d)
    BY <1>4
  <2>2. CASE Children[d] = <<>>
    BY <1>3, <2>1, <2>2
  <2>3. CASE Children[d] # <<>>
    <3>1. SumOver(g, Children[d]) \in Nat
      <4>1. Children[d] \in Seq(Objs)
        BY TreeAssumption DEF IsTree
      <4> QED BY <4>1, SumNat
    <3>2. own[d] = 0
      BY <2>3
    <3> QED BY <2>1, <2>3, <3>1, <3>2 DEF BranchOf
  <2> QED BY <2>2, <2>3
<1>6. Is(g)
  BY <1>5
<1>7. Is(total)
  BY <1>6
<1>8. \A d \in Objs : total[d] = IF Children[d] = <<>> THEN l[d] ELSE SumOver(total, Children[d])
  BY <1>7
<1> HIDE DEF total
<1> DEFINE N == {d \in Objs : total[d] \in Nat}
<1>9. ASSUME NEW d \in Objs, \A e \in Objs : Depth(e) = Depth(d) + 1 => e \in N PROVE d \in N
  <2> DEFINE Below == {e \in Objs : Depth(e) = Depth(d) + 1}
  <2>1. Children[d] \in Seq(Below)
    BY DownLemma
  <2>2. \A e \in Below : total[e] \in Nat
    BY <1>9
  <2> HIDE DEF Below
  <2>3. SumOver(total, Children[d]) \in Nat
    BY <2>1, <2>2, SumNat
  <2> QED BY <1>8, <2>3
<1>12. \A d \in Objs : total[d] \in Nat
  <2> HIDE DEF N
  <2>1. \A d \in Objs : d \in N
    BY <1>9, FromCpusUp
  <2> QED BY <2>1 DEF N
<1>13. total \in [Objs -> Nat]
  BY <1>7, <1>12
<1> QED BY <1>1, <1>8, <1>13

-----------------------------------------------------------------------------
(* The recursion from the nodes down: what an object has itself, and its   *)
(* share of what its parent has.                                           *)
ShareOf(g, own, d) ==
    own[d] + (IF Parent(d) = Null THEN 0 ELSE g[Parent(d)] \div Len(Children[Parent(d)]))

LEMMA ShareOfNat ==
    ASSUME NEW own \in [Objs -> Nat], NEW g, NEW d \in Objs,
           Parent(d) # Null => g[Parent(d)] \in Nat
    PROVE  ShareOf(g, own, d) \in Nat /\ ShareOf(g, own, d) >= own[d]
<1>1. own[d] \in Nat
  OBVIOUS
<1>2. CASE Parent(d) = Null
  BY <1>1, <1>2 DEF ShareOf
<1>3. CASE Parent(d) # Null
  <2> DEFINE a == g[Parent(d)]
             n == Len(Children[Parent(d)])
  <2>1. a \in Nat /\ n \in Nat \ {0}
    BY <1>3, UpLemma
  <2>2. ShareOf(g, own, d) = own[d] + (a \div n)
    BY <1>3 DEF ShareOf
  <2> HIDE DEF a, n
  <2>3. a \div n \in Nat
    BY <2>1
  <2> QED BY <1>1, <2>2, <2>3
<1> QED BY <1>2, <1>3

LEMMA ShareExists ==
    ASSUME NEW own \in [Objs -> Nat]
    PROVE  \E g \in [Objs -> Nat] : g = [d \in Objs |-> ShareOf(g, own, d)]
<1> DEFINE Good(g, m) == \A d \in Objs : Depth(d) < m => g[d] = ShareOf(g, own, d)
           P == {m \in 0..4 : \E g \in [Objs -> Nat] : Good(g, m)}
<1>1. 0 \in P
  <2>1. [d \in Objs |-> 0] \in [Objs -> Nat]
    OBVIOUS
  <2>2. \A d \in Objs : ~(Depth(d) < 0)
    BY FourLevels
  <2>3. 0 \in 0..4
    OBVIOUS
  <2> QED BY <2>1, <2>2, <2>3
<1>2. ASSUME NEW m \in 1..4, m - 1 \in P PROVE m \in P
  <2>1. PICK g \in [Objs -> Nat] : Good(g, m - 1)
    BY <1>2
  <2> DEFINE h == [d \in Objs |-> ShareOf(g, own, d)]
  <2>2. h \in [Objs -> Nat]
    <3> SUFFICES ASSUME NEW d \in Objs PROVE ShareOf(g, own, d) \in Nat
      OBVIOUS
    <3>1. Parent(d) # Null => g[Parent(d)] \in Nat
      BY UpLemma
    <3> QED BY <3>1, ShareOfNat
  <2>3. ASSUME NEW d \in Objs, Depth(d) < m PROVE h[d] = ShareOf(h, own, d)
    <3>1. ASSUME Parent(d) # Null PROVE h[Parent(d)] = g[Parent(d)]
      <4> DEFINE p == Parent(d)
      <4>1. p \in Objs /\ Depth(d) = Depth(p) + 1
        BY <3>1, UpLemma
      <4>2. Depth(p) \in 0..3
        BY <4>1, DownLemma
      <4>3. Depth(p) < m - 1
        BY <2>3, <4>1, <4>2
      <4>4. g[p] = ShareOf(g, own, p)
        BY <2>1, <4>1, <4>3
      <4> QED BY <4>1, <4>4
    <3>2. h[d] = ShareOf(g, own, d)
      OBVIOUS
    <3> HIDE DEF h
    <3> QED BY <3>1, <3>2 DEF ShareOf
  <2> HIDE DEF h
  <2>4. Good(h, m)
    BY <2>3
  <2>5. m \in 0..4
    OBVIOUS
  <2> QED BY <2>2, <2>4, <2>5
<1>3. 4 \in P
  <2> HIDE DEF P
  <2>1. 4 \in Nat /\ 4 \in 0..4
    OBVIOUS
  <2>2. \A m \in 0..4 : m \in P
    BY <1>1, <1>2, <2>1, UpTo
  <2> QED BY <2>1, <2>2
<1>4. PICK g \in [Objs -> Nat] : Good(g, 4)
  BY <1>3
<1>5. \A d \in Objs : g[d] = ShareOf(g, own, d)
  BY <1>4, FourLevels
<1> QED BY <1>5

LEMMA ShareNat ==
    ASSUME NEW own \in [Objs -> Nat], NEW g, \A d \in Objs : g[d] = ShareOf(g, own, d)
    PROVE  \A d \in Objs : g[d] \in Nat /\ g[d] >= own[d]
<1> DEFINE N == {d \in Objs : g[d] \in Nat /\ g[d] >= own[d]}
<1>1. ASSUME NEW d \in Objs, \A e \in Objs : Depth(d) = Depth(e) + 1 => e \in N PROVE d \in N
  <2>1. Parent(d) # Null => g[Parent(d)] \in Nat
    BY <1>1, UpLemma
  <2>2. g[d] = ShareOf(g, own, d)
    OBVIOUS
  <2> QED BY <2>1, <2>2, ShareOfNat
<1> HIDE DEF N
<1>2. \A d \in Objs : d \in N
  BY <1>1, FromNodesDown
<1> QED BY <1>2 DEF N

LEMMA ParentShareLemma ==
    ASSUME NEW own \in [Objs -> Nat]
    PROVE  \A d \in Objs : /\ get_parent_branch_irq_count_share(own)[d] \in Nat
                           /\ get_parent_branch_irq_count_share(own)[d] >= own[d]
<1> DEFINE Is(g) == g = [d \in Objs |->
                            own[d] + (IF Parent(d) = Null THEN 0
                                      ELSE g[Parent(d)] \div Len(Children[Parent(d)]))]
           share == CHOOSE g : Is(g)
<1>1. get_parent_branch_irq_count_share(own) = share
  BY DEF get_parent_branch_irq_count_share
<1>2. PICK g \in [Objs -> Nat] : g = [d \in Objs |-> ShareOf(g, own, d)]
  BY ShareExists
<1>3. Is(g)
  BY <1>2 DEF ShareOf
<1>4. Is(share)
  BY <1>3
<1>5. \A d \in Objs : share[d] = ShareOf(share, own, d)
  BY <1>4 DEF ShareOf
<1> HIDE DEF share
<1> QED BY <1>1, <1>5, ShareNat

LEMMA ChildrenBranchLemma ==
    ASSUME NEW own \in [Objs -> Nat]
    PROVE  \A d \in Objs : get_children_branch_irq_count(own)[d] \in Nat
<1> DEFINE Is(g) == g = [d \in Objs |-> own[d] + SumOver(g, Children[d])]
           branch == CHOOSE g : Is(g)
<1>1. get_children_branch_irq_count(own) = branch
  BY DEF get_children_branch_irq_count
<1>2. PICK g \in [Objs -> Nat] : g = [d \in Objs |-> BranchOf(g, own, d)]
  BY BranchExists
<1>3. Is(g)
  BY <1>2 DEF BranchOf
<1>4. Is(branch)
  BY <1>3
<1>5. \A d \in Objs : branch[d] = BranchOf(branch, own, d)
  BY <1>4 DEF BranchOf
<1> HIDE DEF branch
<1> QED BY <1>1, <1>5, BranchNat

(* local_irq_counts counts at least the interrupts of the irqs that sit on *)
(* the object.                                                             *)
LEMMA LocalLemma ==
    ASSUME NEW I, NEW delta \in [I -> Nat], NEW its_irqs, \A d \in Objs : its_irqs[d] \in Seq(I)
    PROVE  \A d \in Objs : /\ LocalIrqCounts(its_irqs, delta)[d] \in Nat
                           /\ SumOver(delta, its_irqs[d]) <= LocalIrqCounts(its_irqs, delta)[d]
<1> DEFINE own == accumulate_interrupts(its_irqs, delta)
           share == get_parent_branch_irq_count_share(own)
           branch == get_children_branch_irq_count(own)
<1>1. own \in [Objs -> Nat] /\ \A d \in Objs : own[d] = SumOver(delta, its_irqs[d])
  <2>1. \A d \in Objs : SumOver(delta, its_irqs[d]) \in Nat
    BY SumNat
  <2> QED BY <2>1 DEF accumulate_interrupts
<1>2. LocalIrqCounts(its_irqs, delta) = [d \in Objs |-> share[d] + SumOver(branch, Children[d])]
  BY DEF LocalIrqCounts
<1> HIDE DEF own
<1>3. \A d \in Objs : share[d] \in Nat /\ share[d] >= own[d]
  BY <1>1, ParentShareLemma
<1>4. \A d \in Objs : branch[d] \in Nat
  BY <1>1, ChildrenBranchLemma
<1> HIDE DEF share, branch
<1>5. ASSUME NEW d \in Objs PROVE SumOver(branch, Children[d]) \in Nat
  <2>1. Children[d] \in Seq(Objs)
    BY TreeAssumption DEF IsTree
  <2> QED BY <1>4, <2>1, SumNat
<1> QED BY <1>1, <1>2, <1>3, <1>5

-----------------------------------------------------------------------------
(* What one interrupt of an object stands for, times what the object       *)
(* counted, is no more than the load of the object.                        *)
LEMMA SliceLemma ==
    ASSUME NEW objload \in Nat, NEW local \in Nat
    PROVE  /\ LoadSlice(objload, local) \in Nat
           /\ local # 0 => LoadSlice(objload, local) * local <= objload
<1>1. CASE local = 0
  BY <1>1 DEF LoadSlice
<1>2. CASE local # 0
  <2>1. LoadSlice(objload, local) = objload \div local
    BY <1>2 DEF LoadSlice
  <2>2. objload \div local \in Nat /\ (objload \div local) * local <= objload
    BY <1>2
  <2> QED BY <2>1, <2>2
<1> QED BY <1>1, <1>2

(* compute_irq_branch_load_share gives every irq a load; no two lists hold *)
(* an irq.                                                                 *)
Shareable(I, objload, its_irqs, delta, old) ==
    /\ delta \in [I -> Nat] /\ old \in [I -> Nat] /\ objload \in [Objs -> Nat]
    /\ \A d \in Objs : its_irqs[d] \in Seq(I)
    /\ \A d, e \in Objs : Range(its_irqs[d]) \cap Range(its_irqs[e]) # {} => d = e

LEMMA BranchShareLemma ==
    ASSUME NEW I, NEW objload, NEW its_irqs, NEW delta, NEW old,
           Shareable(I, objload, its_irqs, delta, old)
    PROVE  LET new == compute_irq_branch_load_share(objload, its_irqs, delta, old)
               local == LocalIrqCounts(its_irqs, delta)
           IN  /\ new \in [I -> Nat]
               /\ \A d \in Objs : \A i \in Range(its_irqs[d]) :
                     new[i] = assign_load_slice(delta[i], LoadSlice(objload[d], local[d]))
<1> USE DEF Shareable
<1> DEFINE new == compute_irq_branch_load_share(objload, its_irqs, delta, old)
           local == LocalIrqCounts(its_irqs, delta)
           On(i) == {d \in Objs : i \in Range(its_irqs[d])}
           At(i) == CHOOSE d \in On(i) : TRUE
<1>1. /\ DOMAIN old = I
      /\ new = [i \in I |-> IF On(i) = {} THEN old[i]
                            ELSE assign_load_slice(delta[i], LoadSlice(objload[At(i)], local[At(i)]))]
  BY DEF compute_irq_branch_load_share
<1>2. \A d \in Objs : local[d] \in Nat
  BY LocalLemma
<1> HIDE DEF new, local
<1>3. \A i \in I : On(i) # {} => At(i) \in Objs /\ i \in Range(its_irqs[At(i)])
  OBVIOUS
<1>4. ASSUME NEW i \in I, NEW d \in Objs
      PROVE  assign_load_slice(delta[i], LoadSlice(objload[d], local[d])) \in Nat
  <2> DEFINE a == delta[i]
             b == LoadSlice(objload[d], local[d])
  <2>1. a \in Nat /\ b \in Nat
    BY <1>2, SliceLemma
  <2> HIDE DEF a, b
  <2>2. a * b \in Nat
    BY <2>1
  <2>3. assign_load_slice(a, b) \in Nat
    BY <2>2 DEF assign_load_slice
  <2> QED BY <2>3 DEF a, b
<1>5. new \in [I -> Nat]
  BY <1>1, <1>3, <1>4
<1>6. ASSUME NEW d \in Objs, NEW i \in Range(its_irqs[d])
      PROVE  new[i] = assign_load_slice(delta[i], LoadSlice(objload[d], local[d]))
  <2>1. i \in I
    BY DEF Range
  <2>2. On(i) # {}
    BY <1>6
  <2>3. At(i) = d
    BY <1>3, <2>1, <2>2
  <2> HIDE DEF On, At
  <2> QED BY <1>1, <2>1, <2>2, <2>3
<1> QED BY <1>5, <1>6 DEF new, local

LEMMA ScaledLemma ==
    ASSUME NEW a \in Nat, NEW b \in Nat, NEW c \in Nat, a <= b
    PROVE  c * a <= c * b
<1> DEFINE k == b - a
<1>1. k \in Nat /\ b = a + k
  OBVIOUS
<1> HIDE DEF k
<1>2. c * (a + k) = c * a + c * k
  BY <1>1
<1>3. c * a \in Nat /\ c * k \in Nat
  BY <1>1
<1> DEFINE x == c * a
           y == c * k
<1> HIDE DEF x, y
<1>4. x <= x + y
  BY <1>3 DEF x, y
<1> QED BY <1>1, <1>2, <1>4 DEF x, y

(* The loads of the irqs of an object, those of 1 left out, sum up to no   *)
(* more than the load of the object.                                       *)
SharedOut(I, s, delta, new, objload, local, heavy) ==
    /\ s \in Seq(I) /\ delta \in [I -> Nat] /\ new \in [I -> Nat] /\ heavy \in [I -> Nat]
    /\ objload \in Nat /\ local \in Nat /\ SumOver(delta, s) <= local
    /\ \A i \in Range(s) : new[i] = assign_load_slice(delta[i], LoadSlice(objload, local))
    /\ \A i \in I : heavy[i] = IF new[i] > 1 THEN new[i] ELSE 0

LEMMA SharesLemma ==
    ASSUME NEW I, NEW s, NEW delta, NEW new, NEW objload, NEW local, NEW heavy,
           SharedOut(I, s, delta, new, objload, local, heavy)
    PROVE  SumOver(heavy, s) <= objload
<1> USE DEF SharedOut
<1> DEFINE c == LoadSlice(objload, local)
           sum == SumOver(delta, s)
           heavies == SumOver(heavy, s)
<1>1. c \in Nat /\ sum \in Nat /\ heavies \in Nat
  BY SliceLemma, SumNat
<1>2. ASSUME NEW i \in Range(s) PROVE heavy[i] <= c * delta[i]
  <2>1. i \in I /\ delta[i] \in Nat /\ new[i] \in Nat
    BY DEF Range
  <2>2. new[i] = assign_load_slice(delta[i], c)
    BY <1>2
  <2> HIDE DEF c
  <2>3. delta[i] * c = c * delta[i] /\ c * delta[i] \in Nat
    BY <1>1, <2>1
  <2>4. new[i] = IF delta[i] * c = 0 THEN 1 ELSE delta[i] * c
    BY <2>2 DEF assign_load_slice
  <2> QED BY <2>1, <2>3, <2>4
<1> HIDE DEF c
<1>3. heavies <= c * sum
  BY <1>1, <1>2, SumBound
<1>4. CASE local = 0
  <2>1. sum = 0
    BY <1>1, <1>4
  <2>2. c * sum = 0
    BY <1>1, <2>1
  <2>3. heavies <= 0
    BY <1>3, <2>2
  <2> HIDE DEF heavies
  <2>4. heavies <= objload
    BY <1>1, <2>3
  <2> QED BY <2>4 DEF heavies
<1>5. CASE local # 0
  <2>1. c * local <= objload
    BY <1>5, SliceLemma DEF c
  <2>2. c * sum <= c * local
    <3> HIDE DEF sum
    <3>1. sum <= local
      BY DEF sum
    <3> QED BY <1>1, <3>1, ScaledLemma
  <2> HIDE DEF sum, heavies
  <2>3. c * sum \in Nat /\ c * local \in Nat
    BY <1>1
  <2> DEFINE x == c * sum
             y == c * local
  <2>4. x \in Nat /\ y \in Nat /\ heavies <= x /\ x <= y /\ y <= objload
    BY <1>3, <2>1, <2>2, <2>3
  <2> HIDE DEF x, y
  <2>5. heavies <= objload
    BY <1>1, <2>4
  <2> QED BY <2>5 DEF heavies
<1> QED BY <1>4, <1>5

-----------------------------------------------------------------------------
(* Unlinking the first link that holds i from a list without duplicates    *)
(* removes i and nothing else (g_list_delete_link in migrate_irq).         *)
LEMMA UnlinkLemma ==
    ASSUME NEW S, NEW s \in Seq(S), IsInjective(s), NEW i \in Range(s)
    PROVE  LET t == Unlink(s, Position(s, i))
           IN  /\ t \in Seq(S)
               /\ Range(t) = Range(s) \ {i}
               /\ IsInjective(t)
<1> DEFINE k == Position(s, i)
           t == Unlink(s, k)
<1>1. PICK m \in DOMAIN s : s[m] = i
  BY DEF Range
<1>2. \A j \in 1..(m-1) : s[j] # i
  BY <1>1 DEF IsInjective
<1>3. k \in DOMAIN s /\ s[k] = i
  BY <1>1, <1>2 DEF Position
<1> HIDE DEF k
<1>4. /\ t = [j \in 1..(Len(s) - 1) |-> IF j < k THEN s[j] ELSE s[j + 1]]
      /\ k \in 1..Len(s)
      /\ Len(s) \in Nat /\ DOMAIN s = 1..Len(s)
      /\ \A j \in 1..Len(s) : s[j] \in S
  BY <1>3 DEF Unlink
<1>5. t \in Seq(S)
  BY <1>4
<1>6. DOMAIN t = 1..(Len(s) - 1)
  BY <1>4
<1>7. Range(t) \subseteq Range(s) \ {i}
  BY <1>3, <1>4, <1>6 DEF Range, IsInjective
<1>8. Range(s) \ {i} \subseteq Range(t)
  <2> SUFFICES ASSUME NEW x \in Range(s), x # i PROVE x \in Range(t)
    OBVIOUS
  <2>1. PICK j \in 1..Len(s) : s[j] = x
    BY <1>4 DEF Range
  <2>2. CASE j < k
    <3>1. j \in DOMAIN t /\ t[j] = x
      BY <2>1, <2>2, <1>4, <1>6
    <3> QED BY <3>1 DEF Range
  <2>3. CASE j > k
    <3>1. j - 1 \in DOMAIN t /\ t[j - 1] = x
      BY <2>1, <2>3, <1>4, <1>6
    <3> QED BY <3>1 DEF Range
  <2> QED BY <2>1, <2>2, <2>3, <1>3, <1>4
<1>9. IsInjective(t)
  BY <1>4, <1>6 DEF IsInjective
<1> QED BY <1>5, <1>7, <1>8, <1>9 DEF k

(* g_list_append of an irq that is not on the list yet. *)
LEMMA AppendLemma ==
    ASSUME NEW S, NEW s \in Seq(S), NEW i \in S
    PROVE  /\ Append(s, i) \in Seq(S)
           /\ Range(Append(s, i)) = Range(s) \cup {i}
           /\ IsInjective(s) /\ i \notin Range(s) => IsInjective(Append(s, i))
<1> DEFINE t == Append(s, i)
<1>1. /\ t \in Seq(S)
      /\ DOMAIN t = 1..(Len(s) + 1) /\ DOMAIN s = 1..Len(s) /\ Len(s) \in Nat
      /\ t[Len(s) + 1] = i
      /\ \A j \in 1..Len(s) : t[j] = s[j]
  OBVIOUS
<1> HIDE DEF t
<1>2. Range(t) \subseteq Range(s) \cup {i}
  BY <1>1 DEF Range
<1>3. Range(s) \cup {i} \subseteq Range(t)
  <2>1. i \in Range(t)
    BY <1>1 DEF Range
  <2>2. ASSUME NEW x \in Range(s) PROVE x \in Range(t)
    <3>1. PICK j \in 1..Len(s) : s[j] = x
      BY <1>1 DEF Range
    <3>2. j \in DOMAIN t /\ t[j] = x
      BY <3>1, <1>1
    <3> QED BY <3>2 DEF Range
  <2> QED BY <2>1, <2>2
<1>4. ASSUME IsInjective(s), i \notin Range(s) PROVE IsInjective(t)
  <2>1. \A j \in 1..Len(s) : s[j] # i
    BY <1>4, <1>1 DEF Range
  <2> QED BY <2>1, <1>1, <1>4 DEF IsInjective
<1> QED BY <1>1, <1>2, <1>3, <1>4 DEF t

(* What for_each_irq has still to visit after one turn. *)
LEMMA TailLemma ==
    ASSUME NEW S, NEW s \in Seq(S), s # <<>>
    PROVE  /\ Tail(s) \in Seq(S)
           /\ Head(s) \in Range(s) /\ Head(s) \in S
           /\ Range(Tail(s)) \subseteq Range(s)
           /\ Range(s) = Range(Tail(s)) \cup {Head(s)}
           /\ IsInjective(s) => /\ IsInjective(Tail(s))
                                /\ Head(s) \notin Range(Tail(s))
           /\ Len(s) = 1 <=> Tail(s) = <<>>
<1> DEFINE t == Tail(s)
<1>1. /\ t \in Seq(S)
      /\ Len(s) \in Nat /\ Len(s) >= 1
      /\ DOMAIN t = 1..(Len(s) - 1) /\ DOMAIN s = 1..Len(s)
      /\ Head(s) = s[1] /\ Head(s) \in S
      /\ \A j \in 1..(Len(s) - 1) : t[j] = s[j + 1]
  OBVIOUS
<1>len. Len(t) = Len(s) - 1
  OBVIOUS
<1> HIDE DEF t
<1>6. Len(s) = 1 <=> t = <<>>
  <2>2. t = <<>> <=> Len(t) = 0
    BY <1>1
  <2> QED BY <1>1, <1>len, <2>2
<1>2. Head(s) \in Range(s)
  BY <1>1 DEF Range
<1>3. Range(t) \subseteq Range(s)
  BY <1>1 DEF Range
<1>4. Range(s) \subseteq Range(t) \cup {Head(s)}
  <2> SUFFICES ASSUME NEW x \in Range(s), x # Head(s) PROVE x \in Range(t)
    OBVIOUS
  <2>1. PICK j \in 1..Len(s) : s[j] = x
    BY <1>1 DEF Range
  <2>2. j - 1 \in DOMAIN t /\ t[j - 1] = x
    BY <2>1, <1>1
  <2> QED BY <2>2 DEF Range
<1>5. ASSUME IsInjective(s) PROVE IsInjective(t) /\ Head(s) \notin Range(t)
  <2>1. IsInjective(t)
    <3> SUFFICES ASSUME NEW a \in DOMAIN t, NEW b \in DOMAIN t, t[a] = t[b] PROVE a = b
      BY DEF IsInjective
    <3>1. a + 1 \in DOMAIN s /\ b + 1 \in DOMAIN s /\ s[a + 1] = s[b + 1]
      BY <1>1
    <3>2. a + 1 = b + 1
      BY <3>1, <1>5 DEF IsInjective
    <3> QED BY <3>2, <1>1
  <2>2. \A j \in DOMAIN t : t[j] # Head(s)
    BY <1>1, <1>5 DEF IsInjective
  <2> QED BY <2>1, <2>2 DEF Range
<1> QED BY <1>1, <1>2, <1>3, <1>4, <1>5, <1>6 DEF t

(* A list is empty exactly if nothing is on it. *)
LEMMA EmptyLemma ==
    ASSUME NEW S, NEW s \in Seq(S)
    PROVE  Range(s) = {} <=> s = <<>>
<1>1. s = <<>> => Range(s) = {}
  BY DEF Range
<1>2. ASSUME s # <<>> PROVE Range(s) # {}
  BY <1>2, TailLemma
<1> QED BY <1>1, <1>2

(* g_list_sort returns a permutation of its list. *)
LEMMA SortLemma ==
    ASSUME NEW S, NEW l \in Seq(S), NEW s \in sort_irq_list(l)
    PROVE  /\ s \in Seq(S)
           /\ Len(s) = Len(l)
           /\ Range(s) = Range(l)
           /\ IsInjective(l) => IsInjective(s)
<1>1. PICK p \in Bijection(DOMAIN l, DOMAIN l) : s = [k \in DOMAIN l |-> l[p[k]]]
  BY DEF sort_irq_list
<1>2. /\ p \in [DOMAIN l -> DOMAIN l]
      /\ \A a, b \in DOMAIN l : p[a] = p[b] => a = b
      /\ \A t \in DOMAIN l : \E k \in DOMAIN l : p[k] = t
  BY DEF Bijection, Injection, Surjection, IsInjective
<1>3. DOMAIN l = 1..Len(l) /\ Len(l) \in Nat /\ \A k \in DOMAIN l : l[k] \in S
  OBVIOUS
<1>4. s \in Seq(S) /\ DOMAIN s = DOMAIN l /\ Len(s) = Len(l)
  BY <1>1, <1>2, <1>3
<1>5. Range(s) \subseteq Range(l)
  BY <1>1, <1>2, <1>4 DEF Range
<1>6. Range(l) \subseteq Range(s)
  <2> SUFFICES ASSUME NEW x \in Range(l) PROVE x \in Range(s)
    OBVIOUS
  <2>1. PICK t \in DOMAIN l : l[t] = x
    BY DEF Range
  <2>2. PICK k \in DOMAIN l : p[k] = t
    BY <1>2
  <2>3. s[k] = x
    BY <2>1, <2>2, <1>1
  <2> QED BY <2>3, <1>4 DEF Range
<1>7. ASSUME IsInjective(l) PROVE IsInjective(s)
  BY <1>1, <1>2, <1>4, <1>7 DEF IsInjective
<1> QED BY <1>4, <1>5, <1>6, <1>7
-----------------------------------------------------------------------------
(* The inductive invariant.  ListsConsistent alone is not inductive: a     *)
(* callback may only assume that its irq is on the list it runs over       *)
(* because the loop started from that list and has visited no irq twice.   *)
BootLoop ==
    pc \in {"boot", "rescan"} =>
        /\ todo_irqs # <<>>
        /\ IsInjective(todo_irqs)
        /\ Range(todo_irqs) \subseteq Range(interrupts_db)
        /\ \A i \in Irqs : assigned_obj[i] = Null

(* Only cpus are ever put into powersave mode, and while their irqs are    *)
(* forced away the loop still has all that is left on the list before it.  *)
PowersaveLoop ==
    /\ \A d \in Objs : powersave_mode[d] => d \in Range(cpus)
    /\ pc = "force" => Range(lists[cur]) \subseteq Range(todo_irqs)
    /\ (phase = 1 /\ pc \in {"objs", "candidates"}) => Range(todo_objs) \subseteq Range(cpus)
    /\ phase = 1 => lb_info.powersave \in Range(cpus) \cup {Null}

IInv == /\ TypeOK
        /\ ListsConsistent
        /\ LoopOnList
        /\ BootLoop
        /\ LevelRespected
        /\ PowersaveIdle
        /\ PowersaveLoop

-----------------------------------------------------------------------------
(* What the proofs use of the constants: the lists of objects, the levels *)
(* and the depth of the tree.                                             *)
LEMMA ConstantsLemma ==
    /\ Objs \subseteq Lists /\ Null \in Lists /\ Null \notin Objs
    /\ \A d \in Objs : Depth(d) \in 0..3
    /\ Range(numa_nodes) \subseteq Objs /\ Range(cpus) \subseteq Objs
    /\ \A d \in Range(numa_nodes) : Depth(d) = 0
    /\ \A d \in Range(cpus) : Depth(d) = 3
    /\ \A i \in Irqs : Info[i].level \in 0..3 /\ Info[i].numa_node \in Range(numa_nodes)
    /\ \A d \in Objs : \A k \in DOMAIN Children[d] :
          Children[d][k] \in Objs /\ Children[d][k] # d
    /\ \A k \in DOMAIN numa_nodes : numa_nodes[k] \in Range(numa_nodes)
    /\ \A n \in 1..4 : LevelLists[n] \in Seq(Objs)
<1>1. Objs \subseteq Lists /\ Null \in Lists /\ Null \notin Objs
  BY TreeAssumption DEF IsTree, Lists
<1>2. \A d \in Objs : Depth(d) \in 0..3
  BY DEF Depth
<1>3. Range(numa_nodes) \subseteq Objs /\ Range(cpus) \subseteq Objs
  BY DEF Objs
<1>4. \A d \in Range(numa_nodes) : Depth(d) = 0
  BY TreeAssumption DEF IsTree
<1>5. \A d \in Range(cpus) : Depth(d) = 3
  BY TreeAssumption DEF IsTree
<1>6. \A i \in Irqs : Info[i].level \in 0..3 /\ Info[i].numa_node \in Range(numa_nodes)
  BY IrqAssumption DEF BALANCE_NONE, BALANCE_CORE
<1>7. ASSUME NEW d \in Objs, NEW k \in DOMAIN Children[d]
      PROVE  Children[d][k] \in Objs /\ Children[d][k] # d
  <2>1. Children[d] \in Seq(Objs)
    BY TreeAssumption DEF IsTree
  <2>2. Children[d][k] \in Objs
    BY <2>1
  <2>3. Depth(Children[d][k]) = Depth(d) + 1
    BY TreeAssumption DEF IsTree
  <2> QED BY <2>2, <2>3, <1>2
<1>8. \A k \in DOMAIN numa_nodes : numa_nodes[k] \in Range(numa_nodes)
  BY DEF Range
<1>9. \A n \in 1..4 : LevelLists[n] \in Seq(Objs)
  BY TreeAssumption DEF IsTree, LevelLists
<1> QED BY <1>1, <1>2, <1>3, <1>4, <1>5, <1>6, <1>7, <1>8, <1>9

(* migrate_irq of an irq that is on the list moves it to the other list    *)
(* and changes nothing else.                                               *)
LEMMA MigrateLemma ==
    ASSUME TypeOK, PointsBack, NoDuplicates,
           NEW from \in Lists, NEW to \in Lists, from # to,
           NEW i \in Irqs, i \in Range(lists[from]),
           migrate_irq(from, to, i)
    PROVE  /\ lists' \in [Lists -> Seq(Irqs)]
           /\ moved' \in [Irqs -> BOOLEAN]
           /\ \A l \in Lists : IsInjective(lists'[l])
           /\ Range(lists'[from]) = Range(lists[from]) \ {i}
           /\ Range(lists'[to]) = Range(lists[to]) \cup {i}
           /\ \A l \in Lists : l # from /\ l # to => lists'[l] = lists[l]
<1> DEFINE A == Unlink(lists[from], Position(lists[from], i))
           B == Append(lists[to], i)
<1>1. lists[from] \in Seq(Irqs) /\ lists[to] \in Seq(Irqs)
  BY DEF TypeOK
<1>2. A \in Seq(Irqs) /\ Range(A) = Range(lists[from]) \ {i} /\ IsInjective(A)
  BY <1>1, UnlinkLemma DEF NoDuplicates
<1>3. i \notin Range(lists[to])
  BY DEF PointsBack
<1>4. B \in Seq(Irqs) /\ Range(B) = Range(lists[to]) \cup {i} /\ IsInjective(B)
  BY <1>1, <1>3, AppendLemma DEF NoDuplicates
<1>5. /\ lists' = [lists EXCEPT ![from] = A, ![to] = B]
      /\ moved' = [moved EXCEPT ![i] = TRUE]
  BY DEF migrate_irq, TypeOK
<1> HIDE DEF A, B
<1>6. lists'[from] = A /\ lists'[to] = B
  BY <1>5 DEF TypeOK
<1>7. \A l \in Lists : l # from /\ l # to => lists'[l] = lists[l]
  BY <1>5 DEF TypeOK
<1>8. lists' \in [Lists -> Seq(Irqs)]
  BY <1>2, <1>4, <1>5 DEF TypeOK
<1>9. \A l \in Lists : IsInjective(lists'[l])
  BY <1>2, <1>4, <1>6, <1>7 DEF NoDuplicates
<1>10. moved' \in [Irqs -> BOOLEAN]
  BY <1>5 DEF TypeOK
<1> QED BY <1>2, <1>4, <1>6, <1>7, <1>8, <1>9, <1>10

(* With its assigned_obj set to the new owner the move keeps the lists     *)
(* consistent.                                                             *)
LEMMA MoveLemma ==
    ASSUME TypeOK, ListsConsistent,
           NEW from \in Lists, NEW to \in Lists, from # to,
           NEW i \in Irqs, i \in Range(lists[from]),
           migrate_irq(from, to, i),
           assigned_obj' = [assigned_obj EXCEPT ![i] = to],
           interrupts_db' = interrupts_db,
           pc \notin {"boot", "rescan"}, pc' \notin {"boot", "rescan"}
    PROVE  /\ ListsConsistent'
           /\ assigned_obj' \in [Irqs -> Lists]
<1>1. /\ lists' \in [Lists -> Seq(Irqs)]
      /\ \A l \in Lists : IsInjective(lists'[l])
      /\ Range(lists'[from]) = Range(lists[from]) \ {i}
      /\ Range(lists'[to]) = Range(lists[to]) \cup {i}
      /\ \A l \in Lists : l # from /\ l # to => lists'[l] = lists[l]
  BY MigrateLemma DEF ListsConsistent
<1>2. /\ assigned_obj' \in [Irqs -> Lists]
      /\ assigned_obj'[i] = to
      /\ \A j \in Irqs : j # i => assigned_obj'[j] = assigned_obj[j]
  BY DEF TypeOK
<1>3. \A l \in Lists : Range(lists[l]) \subseteq Irqs
  BY DEF TypeOK, Range
<1>4. PointsBack'
  <2> SUFFICES ASSUME NEW l \in Lists, NEW j \in Range(lists'[l])
               PROVE  assigned_obj'[j] = l
    BY DEF PointsBack
  <2>1. CASE l = to
    BY <2>1, <1>1, <1>2, <1>3 DEF ListsConsistent, PointsBack
  <2>2. CASE l = from
    BY <2>2, <1>1, <1>2, <1>3 DEF ListsConsistent, PointsBack
  <2>3. CASE l # from /\ l # to
    BY <2>3, <1>1, <1>2, <1>3 DEF ListsConsistent, PointsBack
  <2> QED BY <2>1, <2>2, <2>3
<1>5. NoDuplicates'
  BY <1>1 DEF NoDuplicates
<1>6. \A j \in Irqs : OnSomeList(j)' <=> OnSomeList(j)
  <2>1. ASSUME NEW j \in Irqs, OnSomeList(j) PROVE OnSomeList(j)'
    <3>1. PICK l \in Lists : j \in Range(lists[l])
      BY <2>1 DEF OnSomeList
    <3>2. CASE j = i
      BY <3>2, <1>1 DEF OnSomeList
    <3>3. CASE j # i
      <4>1. j \in Range(lists'[l])
        BY <3>1, <3>3, <1>1
      <4> QED BY <4>1 DEF OnSomeList
    <3> QED BY <3>2, <3>3
  <2>2. ASSUME NEW j \in Irqs, OnSomeList(j)' PROVE OnSomeList(j)
    <3>1. PICK l \in Lists : j \in Range(lists'[l])
      BY <2>2 DEF OnSomeList
    <3>2. j = i \/ j \in Range(lists[l])
      BY <3>1, <1>1
    <3> QED BY <3>2 DEF OnSomeList
  <2> QED BY <2>1, <2>2
<1>7. AllOnLists'
  BY <1>6 DEF ListsConsistent, AllOnLists, Pending
<1> QED BY <1>2, <1>4, <1>5, <1>7 DEF ListsConsistent
-----------------------------------------------------------------------------
(* A step that leaves lists and pointers alone. *)
LEMMA FrameLemma ==
    ASSUME IInv, UNCHANGED <<lists, assigned_obj, interrupts_db>>,
           pc \notin {"boot", "rescan"}, pc' \notin {"boot", "rescan"}
    PROVE  ListsConsistent' /\ LevelRespected' /\ BootLoop'
<1>1. PointsBack' /\ NoDuplicates'
  BY DEF IInv, ListsConsistent, PointsBack, NoDuplicates
<1>2. AllOnLists'
  BY DEF IInv, ListsConsistent, AllOnLists, OnSomeList, Pending
<1>3. LevelRespected'
  BY DEF IInv, LevelRespected
<1> QED BY <1>1, <1>2, <1>3 DEF ListsConsistent, BootLoop

(* The irq a loop is about to visit. *)
LEMMA VisitLemma ==
    ASSUME IInv, pc \in LoopPCs
    PROVE  /\ todo_irqs \in Seq(Irqs) /\ todo_irqs # <<>>
           /\ Head(todo_irqs) \in Irqs
           /\ Head(todo_irqs) \in Range(lists[cur])
           /\ assigned_obj[Head(todo_irqs)] = cur
           /\ cur \in Lists /\ (cur = Null <=> pc = "nodes")
           /\ Tail(todo_irqs) \in Seq(Irqs)
<1>1. todo_irqs \in Seq(Irqs) /\ todo_irqs # <<>> /\ cur \in Lists
  BY DEF IInv, TypeOK, LoopOnList
<1>2. Head(todo_irqs) \in Irqs /\ Head(todo_irqs) \in Range(todo_irqs)
      /\ Tail(todo_irqs) \in Seq(Irqs)
  BY <1>1, TailLemma
<1>3. Head(todo_irqs) \in Range(lists[cur]) /\ (cur = Null <=> pc = "nodes")
  BY <1>2 DEF IInv, LoopOnList, LoopPCs
<1>4. assigned_obj[Head(todo_irqs)] = cur
  BY <1>1, <1>3 DEF IInv, ListsConsistent, PointsBack
<1> QED BY <1>1, <1>2, <1>3, <1>4

(* One turn of a loop that removes at most the irq it visits. *)
LEMMA TurnLemma ==
    ASSUME IInv, pc \in LoopPCs,
           todo_irqs' = Tail(todo_irqs),
           Len(todo_irqs) = 1 => pc' \notin LoopPCs /\ cur' = Null,
           Len(todo_irqs) # 1 => pc' = pc /\ cur' = cur,
           Range(lists[cur]) \ {Head(todo_irqs)} \subseteq Range(lists'[cur])
    PROVE  LoopOnList'
<1>1. CASE Len(todo_irqs) = 1
  BY <1>1 DEF LoopOnList
<1>2. CASE Len(todo_irqs) # 1
  <2>1. /\ todo_irqs \in Seq(Irqs) /\ todo_irqs # <<>> /\ IsInjective(todo_irqs)
        /\ Range(todo_irqs) \subseteq Range(lists[cur])
        /\ (cur = Null <=> pc \notin LoopPCs \ {"nodes"})
    BY DEF IInv, TypeOK, LoopOnList
  <2>2. /\ Tail(todo_irqs) # <<>> /\ IsInjective(Tail(todo_irqs))
        /\ Head(todo_irqs) \notin Range(Tail(todo_irqs))
        /\ Range(Tail(todo_irqs)) \subseteq Range(todo_irqs)
    BY <1>2, <2>1, TailLemma
  <2>3. Range(todo_irqs') \subseteq Range(lists'[cur'])
    BY <1>2, <2>1, <2>2
  <2> QED BY <1>2, <2>1, <2>2, <2>3 DEF LoopOnList
<1> QED BY <1>1, <1>2

(* Moving an irq off a list and onto one that is not in powersave keeps    *)
(* the powersave cpus empty.                                               *)
LEMMA IdleLemma ==
    ASSUME IInv, pc # "force", pc' # "force", powersave_mode' = powersave_mode,
           NEW from \in Lists, NEW to \in Lists,
           NEW i \in Range(lists[from]),
           to # Null => ~powersave_mode[to],
           \A l \in Lists : l # from /\ l # to => lists'[l] = lists[l]
    PROVE  PowersaveIdle'
<1> SUFFICES ASSUME NEW d \in Objs, powersave_mode[d] PROVE lists'[d] = <<>>
  BY DEF PowersaveIdle
<1>1. lists[d] = <<>>
  BY DEF IInv, PowersaveIdle
<1>2. d # from
  BY <1>1 DEF Range
<1>3. d \in Lists /\ d # to
  BY ConstantsLemma
<1> QED BY <1>1, <1>2, <1>3

-----------------------------------------------------------------------------
(* force_rebalance_irq over the new db. *)
LEMMA BootStep == IInv /\ ForceRebalanceIrq => IInv'
<1> SUFFICES ASSUME IInv, ForceRebalanceIrq PROVE IInv'
  OBVIOUS
<1> USE DEF irqVars, fixedVars
<1> DEFINE i == Head(todo_irqs)
<1>1. /\ TypeOK /\ pc \in {"boot", "rescan"}
      /\ todo_irqs \in Seq(Irqs) /\ todo_irqs # <<>> /\ IsInjective(todo_irqs)
      /\ Range(todo_irqs) \subseteq Range(interrupts_db)
      /\ cur = Null /\ cur' = Null
      /\ \A j \in Irqs : assigned_obj[j] = Null
      /\ todo_irqs' = Tail(todo_irqs)
      /\ pc' = IF Len(todo_irqs) = 1 THEN IF pc = "boot" THEN "measure" ELSE "sort" ELSE pc
      /\ UNCHANGED <<fixedVars, irqload, load, powersave_mode, phase, lb_info, todo_objs>>
  BY DEF IInv, TypeOK, BootLoop, LoopOnList, LoopPCs, ForceRebalanceIrq, LoopStep,
         AfterRescan
<1>2. /\ i \in Irqs /\ i \in Range(todo_irqs)
      /\ Tail(todo_irqs) \in Seq(Irqs) /\ IsInjective(Tail(todo_irqs))
      /\ Range(todo_irqs) = Range(Tail(todo_irqs)) \cup {i}
      /\ i \notin Range(Tail(todo_irqs))
      /\ (Len(todo_irqs) = 1 <=> Tail(todo_irqs) = <<>>)
  BY <1>1, TailLemma
<1>3. assigned_obj' \in [Irqs -> Lists] /\ (\A j \in Irqs : assigned_obj'[j] = Null)
      /\ moved' \in [Irqs -> BOOLEAN]
  BY <1>1, <1>2 DEF ForceRebalanceIrq, TypeOK, Lists
<1>4. /\ lists' \in [Lists -> Seq(Irqs)]
      /\ \A l \in Lists : IsInjective(lists'[l])
      /\ \A l \in Objs : lists'[l] = lists[l]
      /\ Range(lists'[Null]) = IF Info[i].level = BALANCE_NONE THEN Range(lists[Null])
                               ELSE Range(lists[Null]) \cup {i}
  <2>1. i \notin Range(lists[Null])
    <3>1. Pending(i)
      BY <1>1, <1>2 DEF Pending
    <3> QED BY <1>2, <3>1 DEF IInv, ListsConsistent, AllOnLists, OnSomeList, Lists
  <2>2. CASE Info[i].level = BALANCE_NONE
    BY <2>2, <1>1 DEF ForceRebalanceIrq, IInv, TypeOK, ListsConsistent, NoDuplicates
  <2>3. CASE Info[i].level # BALANCE_NONE
    <3>1. lists' = [lists EXCEPT ![Null] = Append(lists[Null], i)]
      BY <2>3, <1>1, <1>2 DEF ForceRebalanceIrq
    <3>2. /\ Append(lists[Null], i) \in Seq(Irqs)
          /\ Range(Append(lists[Null], i)) = Range(lists[Null]) \cup {i}
          /\ IsInjective(Append(lists[Null], i))
      BY <1>2, <2>1, <1>1, AppendLemma DEF TypeOK, IInv, ListsConsistent, NoDuplicates, Lists
    <3>3. Null \in Lists /\ Null \notin Objs /\ Objs \subseteq Lists
      BY ConstantsLemma
    <3>4. lists \in [Lists -> Seq(Irqs)] /\ (\A l \in Lists : IsInjective(lists[l]))
      BY DEF IInv, TypeOK, ListsConsistent, NoDuplicates
    <3> HIDE DEF i
    <3> QED BY <3>1, <3>2, <3>3, <3>4, <2>3
  <2> QED BY <2>2, <2>3
<1> HIDE DEF i
<1>5. TypeOK'
  BY <1>1, <1>2, <1>3, <1>4 DEF TypeOK, PCs, Lists
<1>6. PointsBack'
  <2>1. ASSUME NEW l \in Lists, NEW j \in Range(lists'[l]) PROVE assigned_obj'[j] = l
    <3>1. \A d \in Objs : Range(lists[d]) = {}
      <4> SUFFICES ASSUME NEW d \in Objs, NEW x \in Range(lists[d]) PROVE FALSE
        OBVIOUS
      <4>1. x \in Irqs /\ assigned_obj[x] = d
        BY ConstantsLemma DEF IInv, TypeOK, ListsConsistent, PointsBack, Range
      <4> QED BY <4>1, <1>1, ConstantsLemma
    <3>2. j \in Irqs
      BY <1>4 DEF Range
    <3> QED BY <3>1, <3>2, <1>3, <1>4 DEF Lists
  <2> QED BY <2>1 DEF PointsBack
<1>7. AllOnLists'
  <2> SUFFICES ASSUME NEW j \in Irqs
               PROVE  OnSomeList(j)' <=> /\ j \in Range(interrupts_db')
                                         /\ Info[j].level # BALANCE_NONE
                                         /\ ~Pending(j)'
    BY DEF AllOnLists
  <2>1. OnSomeList(j) <=> /\ j \in Range(interrupts_db)
                          /\ Info[j].level # BALANCE_NONE
                          /\ j \notin Range(todo_irqs)
    BY <1>1 DEF IInv, ListsConsistent, AllOnLists, Pending
  <2>2. Pending(j)' <=> j \in Range(Tail(todo_irqs))
    BY <1>1, <1>2 DEF Pending, Range
  <2>3. OnSomeList(j)' <=> OnSomeList(j) \/ (j = i /\ Info[i].level # BALANCE_NONE)
    BY <1>4 DEF OnSomeList, Lists
  <2> QED BY <2>1, <2>2, <2>3, <1>1, <1>2
<1>8. LoopOnList' /\ BootLoop'
  BY <1>1, <1>2, <1>3 DEF LoopOnList, BootLoop, LoopPCs
<1>9. LevelRespected'
  BY <1>3 DEF LevelRespected
<1>10. PowersaveIdle' /\ PowersaveLoop'
  BY <1>1, <1>4 DEF IInv, PowersaveIdle, PowersaveLoop
<1> QED BY <1>4, <1>5, <1>6, <1>7, <1>8, <1>9, <1>10 DEF IInv, ListsConsistent, NoDuplicates
-----------------------------------------------------------------------------
(* parse_proc_stat hands out natural loads, and to the irqs of an object   *)
(* no more than the object has.                                            *)
LEMMA MeasuredLemma ==
    ASSUME IInv, Measure
    PROVE  /\ load' \in [Objs -> Nat] /\ irqload' \in [Irqs -> Nat]
           /\ \A d \in Objs : SumOver(Heavy', lists[d]) <= load'[d]
<1>1. PICK fresh \in [Range(cpus) -> CpuLoads], delta \in [Irqs -> Deltas] :
          /\ load' = set_load([d \in Objs |-> IF d \in Range(cpus) /\ cycle_count > 0
                                              THEN fresh[d] ELSE load[d]])
          /\ irqload' = compute_irq_branch_load_share(load', lists, delta, clear_work_stats)
  BY DEF Measure
<1> DEFINE sampled == [d \in Objs |-> IF d \in Range(cpus) /\ cycle_count > 0
                                      THEN fresh[d] ELSE load[d]]
           local == LocalIrqCounts(lists, delta)
<1>2. sampled \in [Objs -> Nat]
  BY IrqAssumption DEF IInv, TypeOK
<1>3. load' \in [Objs -> Nat]
  <2> HIDE DEF sampled
  <2>1. load' = set_load(sampled)
    BY <1>1 DEF sampled
  <2> QED BY <1>2, <2>1, SetLoadLemma
<1>4. delta \in [Irqs -> Nat] /\ clear_work_stats \in [Irqs -> Nat]
  BY IrqAssumption DEF clear_work_stats, IInv, TypeOK
<1>5. \A d \in Objs : lists[d] \in Seq(Irqs)
  BY ConstantsLemma DEF IInv, TypeOK
<1>6. \A d, e \in Objs : Range(lists[d]) \cap Range(lists[e]) # {} => d = e
  <2> SUFFICES ASSUME NEW d \in Objs, NEW e \in Objs, NEW i \in Range(lists[d]),
                      i \in Range(lists[e])
               PROVE  d = e
    OBVIOUS
  <2>1. assigned_obj[i] = d /\ assigned_obj[i] = e
    BY ConstantsLemma DEF IInv, ListsConsistent, PointsBack
  <2> QED BY <2>1
<1>7. /\ irqload' \in [Irqs -> Nat]
      /\ \A d \in Objs : \A i \in Range(lists[d]) :
            irqload'[i] = assign_load_slice(delta[i], LoadSlice(load'[d], local[d]))
  <2> DEFINE new == compute_irq_branch_load_share(load', lists, delta, clear_work_stats)
             objload == load'
             old == clear_work_stats
  <2>0. objload \in [Objs -> Nat] /\ old \in [Irqs -> Nat] /\ delta \in [Irqs -> Nat]
    BY <1>3, <1>4
  <2>1. /\ new \in [Irqs -> Nat]
        /\ \A d \in Objs : \A i \in Range(lists[d]) :
              new[i] = assign_load_slice(delta[i], LoadSlice(objload[d], local[d]))
    <3> HIDE DEF objload, old
    <3>1. new = compute_irq_branch_load_share(objload, lists, delta, old)
      BY DEF objload, old
    <3>2. /\ compute_irq_branch_load_share(objload, lists, delta, old) \in [Irqs -> Nat]
          /\ \A d \in Objs : \A i \in Range(lists[d]) :
                compute_irq_branch_load_share(objload, lists, delta, old)[i]
                    = assign_load_slice(delta[i], LoadSlice(objload[d], local[d]))
      <4>1. Shareable(Irqs, objload, lists, delta, old)
        BY <1>5, <1>6, <2>0 DEF Shareable
      <4> QED BY <4>1, BranchShareLemma
    <3> QED BY <3>1, <3>2
  <2> HIDE DEF new, local
  <2>2. irqload' = new
    BY <1>1 DEF new
  <2> QED BY <2>1, <2>2
<1>8. \A d \in Objs : local[d] \in Nat /\ SumOver(delta, lists[d]) <= local[d]
  BY <1>4, <1>5, LocalLemma
<1> HIDE DEF local
<1>9. Heavy' \in [Irqs -> Nat] /\ \A i \in Irqs : Heavy'[i] = IF irqload'[i] > 1 THEN irqload'[i] ELSE 0
  BY <1>7 DEF Heavy
<1>10. ASSUME NEW d \in Objs PROVE SumOver(Heavy', lists[d]) <= load'[d]
  <2> DEFINE s == lists[d]
             objload == load'[d]
             loc == local[d]
             new == irqload'
             heavy == Heavy'
  <2>1. objload \in Nat /\ loc \in Nat /\ SumOver(delta, s) <= loc /\ s \in Seq(Irqs)
    BY <1>3, <1>5, <1>8
  <2>2. \A i \in Range(s) : new[i] = assign_load_slice(delta[i], LoadSlice(objload, loc))
    BY <1>7
  <2>3. heavy \in [Irqs -> Nat] /\ new \in [Irqs -> Nat]
    BY <1>7, <1>9
  <2>4. \A i \in Irqs : heavy[i] = IF new[i] > 1 THEN new[i] ELSE 0
    BY <1>9
  <2>5. delta \in [Irqs -> Nat]
    BY <1>4
  <2> HIDE DEF s, objload, loc, new, heavy
  <2>6. SumOver(heavy, s) <= objload
    <3>1. SharedOut(Irqs, s, delta, new, objload, loc, heavy)
      BY <2>1, <2>2, <2>3, <2>4, <2>5 DEF SharedOut
    <3> QED BY <3>1, SharesLemma
  <2> QED BY <2>6 DEF s, objload, heavy
<1> QED BY <1>3, <1>7, <1>10

(* The steps that only measure, count or move on. *)
LEMMA MeasureStep == IInv /\ (Measure \/ MeasureBroken) => IInv'
<1> SUFFICES ASSUME IInv, Measure \/ MeasureBroken PROVE IInv'
  OBVIOUS
<1> USE DEF irqVars, fixedVars
<1>1. /\ UNCHANGED <<irqVars, fixedVars, powersave_mode, phase, lb_info, cur, todo_objs, todo_irqs>>
      /\ pc = "measure" /\ pc' \in {"find", "sort"}
  BY DEF Measure, MeasureBroken, AfterMeasure
<1>2. load' \in [Objs -> Nat] /\ irqload' \in [Irqs -> Nat]
  <2>1. CASE Measure
    BY <2>1, MeasuredLemma
  <2>2. CASE MeasureBroken
    <3>1. PICK done \in SUBSET Range(cpus) : \E fresh \in [done -> CpuLoads] :
             load' = [d \in Objs |-> IF d \in done /\ cycle_count > 0 THEN fresh[d] ELSE load[d]]
      BY <2>2 DEF MeasureBroken
    <3>2. PICK fresh \in [done -> CpuLoads] :
             load' = [d \in Objs |-> IF d \in done /\ cycle_count > 0 THEN fresh[d] ELSE load[d]]
      BY <3>1
    <3>4. load' \in [Objs -> Nat]
      BY <3>2, IrqAssumption DEF IInv, TypeOK
    <3>3. irqload' \in [Irqs -> Nat]
      BY <2>2 DEF MeasureBroken, clear_work_stats, IInv, TypeOK
    <3> QED BY <3>3, <3>4
  <2> QED BY <2>1, <2>2
<1>3. TypeOK'
  BY <1>1, <1>2 DEF IInv, TypeOK, PCs
<1>4. ListsConsistent' /\ LevelRespected' /\ BootLoop'
  BY <1>1, FrameLemma
<1>5. LoopOnList' /\ PowersaveIdle' /\ PowersaveLoop'
  BY <1>1 DEF IInv, LoopOnList, LoopPCs, PowersaveIdle, PowersaveLoop
<1> QED BY <1>3, <1>4, <1>5 DEF IInv

(* A rescan starts from a fresh tree and a fresh db. *)
LEMMA RescanStep == IInv /\ Rescan => IInv'
<1> SUFFICES ASSUME IInv, Rescan PROVE IInv'
  OBVIOUS
<1>1. interrupts_db' \in Seq(Irqs) /\ IsInjective(interrupts_db')
  BY IrqAssumption DEF Rescan
<1>2. TypeOK'
  BY <1>1, IrqAssumption DEF Rescan, AfterRescan, IInv, TypeOK, PCs, Lists
<1>3. \A l \in Lists : lists'[l] = <<>> /\ Range(lists'[l]) = {} /\ IsInjective(lists'[l])
  BY DEF Rescan, Range, IsInjective
<1>4. ListsConsistent'
  <2>1. \A j \in Irqs : ~OnSomeList(j)'
    BY <1>3 DEF OnSomeList
  <2>2. \A j \in Irqs : j \in Range(interrupts_db') => Pending(j)'
    <3> SUFFICES ASSUME NEW j \in Range(interrupts_db') PROVE Pending(j)'
      OBVIOUS
    <3>1. interrupts_db' # <<>>
      BY DEF Range
    <3> QED BY <3>1 DEF Pending, Rescan
  <2> QED BY <1>3, <2>1, <2>2 DEF ListsConsistent, PointsBack, NoDuplicates, AllOnLists
<1>5. LoopOnList' /\ LevelRespected'
  BY DEF IInv, Rescan, AfterRescan, LoopOnList, LoopPCs, LevelRespected
<1>6. BootLoop'
  BY <1>1 DEF Rescan, AfterRescan, BootLoop
<1>7. PowersaveIdle' /\ PowersaveLoop'
  BY <1>3 DEF Rescan, AfterRescan, IInv, PowersaveIdle, PowersaveLoop
<1> QED BY <1>2, <1>4, <1>5, <1>6, <1>7 DEF IInv

(* The least load gather_load_stats comes to is a load, and not less than  *)
(* that of every object.                                                   *)
LEMMA MinLoadLemma ==
    ASSUME NEW s \in Seq(Objs), load \in [Objs -> Nat]
    PROVE  /\ MinLoad(s) \in Nat
           /\ s # <<>> => \E d \in Range(s) : load[d] <= MinLoad(s)
<1> DEFINE n == Len(s)
           Is(g) == g = [t \in SUBSET (DOMAIN s) |->
                            IF t = {} THEN 0
                            ELSE gather_load_stats(g[t \ {Max(t)}], load[s[Max(t)]])]
           iter == CHOOSE g : Is(g)
           step == [p \in (1..n) \X Nat |-> gather_load_stats(p[2], load[s[p[1]]])]
<1>1. MinLoad(s) = iter[DOMAIN s]
  BY DEF MinLoad, FoldLeft, MapThenFoldSet
<1>2. n \in Nat /\ DOMAIN s = 1..n /\ \A k \in 1..n : load[s[k]] \in Nat
  OBVIOUS
<1>3. step \in [(1..n) \X Nat -> Nat]
  BY <1>2 DEF gather_load_stats
<1> HIDE DEF n
<1>4. PICK g \in [SUBSET (1..n) -> Nat] : IsFold(n, g, 0, step)
  <2> HIDE DEF step
  <2> QED BY <1>2, <1>3, FoldExists
<1>5. ASSUME NEW t \in SUBSET (1..n), t # {}
      PROVE  g[t] = gather_load_stats(g[t \ {Max(t)}], load[s[Max(t)]])
  <2>1. g[t] = step[<<Max(t), g[t \ {Max(t)}]>>]
    BY <1>4, <1>5 DEF IsFold
  <2>2. Max(t) \in 1..n /\ g[t \ {Max(t)}] \in Nat
    BY <1>2, <1>5, MaxLemma
  <2>3. <<Max(t), g[t \ {Max(t)}]>> \in (1..n) \X Nat
    BY <2>2
  <2> QED BY <2>1, <2>3
<1>6. g[{}] = 0
  BY <1>4 DEF IsFold
<1>7. Is(g)
  BY <1>2, <1>5, <1>6
<1>8. Is(iter)
  BY <1>7
<1>9. /\ iter[{}] = 0
      /\ \A t \in SUBSET (1..n) : t # {} =>
            iter[t] = gather_load_stats(iter[t \ {Max(t)}], load[s[Max(t)]])
  BY <1>2, <1>8
<1> HIDE DEF iter
<1> DEFINE R == {v \in Nat : v = 0 \/ \E k \in 1..n : load[s[k]] <= v}
<1>10. ASSUME NEW t \in SUBSET (1..n), t # {}, iter[t \ {Max(t)}] \in R
       PROVE  iter[t] \in Nat /\ \E k \in 1..n : load[s[k]] <= iter[t]
  <2>1. Max(t) \in 1..n
    BY <1>2, <1>10, MaxLemma
  <2>2. iter[t] = gather_load_stats(iter[t \ {Max(t)}], load[s[Max(t)]])
    BY <1>9, <1>10
  <2> DEFINE before == iter[t \ {Max(t)}]
             last == load[s[Max(t)]]
  <2>3. iter[t] = IF before = 0 \/ last < before THEN last ELSE before
    BY <2>2 DEF gather_load_stats
  <2>4. last \in Nat /\ before \in Nat
    BY <1>2, <1>10, <2>1
  <2>5. CASE iter[t] = last
    BY <2>1, <2>4, <2>5
  <2>6. CASE iter[t] # last
    BY <1>10, <2>3, <2>6
  <2> QED BY <2>5, <2>6
<1>11. \A t \in SUBSET (1..n) : iter[t] \in R
  <2>1. iter[{}] \in R
    BY <1>9
  <2>2. \A t \in SUBSET (1..n) : t # {} /\ iter[t \ {Max(t)}] \in R => iter[t] \in R
    BY <1>10
  <2> HIDE DEF R
  <2> QED BY <1>2, <2>1, <2>2, FoldRange
<1>12. ASSUME s # <<>> PROVE \E k \in 1..n : load[s[k]] <= iter[1..n]
  <2>1. n \in 1..n
    BY <1>2, <1>12
  <2>2. 1..n # {} /\ 1..n \in SUBSET (1..n)
    BY <2>1
  <2>3. (1..n) \ {Max(1..n)} \in SUBSET (1..n)
    OBVIOUS
  <2>4. iter[(1..n) \ {Max(1..n)}] \in R
    BY <1>11, <2>3
  <2> HIDE DEF R
  <2> QED BY <1>10, <2>2, <2>4
<1>13. \A k \in 1..n : s[k] \in Range(s)
  BY <1>2 DEF Range
<1>14. iter[1..n] \in Nat
  BY <1>11
<1> QED BY <1>1, <1>2, <1>12, <1>13, <1>14

LEMMA FiguresLemma ==
    ASSUME IInv, FindOverloadedObjs
    PROVE  lb_info' \in LbInfos
<1> DEFINE name == LevelLists[phase]
           load_sources == IF Len(name) = 0 THEN 1 ELSE Len(name)
           avg == SumOver(load, name) \div load_sources
           square == [d \in Objs |-> compute_deviations(avg, load[d])]
           variance == IF load_sources = 1 THEN 0
                       ELSE SumOver(square, name) \div (load_sources - 1)
<1>1. lb_info' = [NoInfo EXCEPT !.avg_load = avg, !.min_load = MinLoad(name),
                                !.variance = variance]
  BY DEF FindOverloadedObjs
<1>2. name \in Seq(Objs) /\ load \in [Objs -> Nat]
  BY ConstantsLemma DEF IInv, TypeOK
<1>3. load_sources \in Nat \ {0}
  <2> HIDE DEF name
  <2> QED BY <1>2
<1> HIDE DEF name, load_sources
<1>4. SumOver(load, name) \in Nat /\ MinLoad(name) \in Nat
  BY <1>2, SumNat, MinLoadLemma
<1>5. avg \in Nat
  <2> DEFINE total == SumOver(load, name)
  <2>1. total \in Nat
    BY <1>4
  <2> HIDE DEF total
  <2>2. total \div load_sources \in Nat
    BY <1>3, <2>1
  <2> QED BY <2>2 DEF total
<1> HIDE DEF avg
<1>6. ASSUME NEW d \in Objs PROVE square[d] \in Nat
  <2>1. load[d] \in Nat
    BY <1>2
  <2>2. \A a \in Nat : a * a \in Nat
    OBVIOUS
  <2> QED BY <1>5, <2>1, <2>2 DEF compute_deviations
<1> HIDE DEF square
<1>7. SumOver(square, name) \in Nat
  BY <1>2, <1>6, SumNat
<1>8. variance \in Nat
  <2> DEFINE total == SumOver(square, name)
             n == load_sources - 1
  <2>1. total \in Nat
    BY <1>7
  <2>2. load_sources # 1 => n \in Nat \ {0}
    BY <1>3
  <2>3. CASE load_sources = 1
    BY <2>3
  <2>4. CASE load_sources # 1
    <3>1. variance = total \div n
      BY <2>4
    <3> HIDE DEF total, n, variance
    <3>2. total \div n \in Nat
      BY <2>1, <2>2, <2>4
    <3> QED BY <3>1, <3>2
  <2> QED BY <2>3, <2>4
<1> HIDE DEF variance
<1> QED BY <1>1, <1>4, <1>5, <1>8 DEF NoInfo, LbInfos, Lists

(* find_overloaded_objs computes the figures of a level and touches no list. *)
LEMMA FindStep == IInv /\ FindOverloadedObjs => IInv'
<1> SUFFICES ASSUME IInv, FindOverloadedObjs PROVE IInv'
  OBVIOUS
<1> USE DEF irqVars, fixedVars
<1>1. /\ UNCHANGED <<irqVars, fixedVars, irqload, load, powersave_mode, phase, cur, todo_irqs>>
      /\ pc = "find" /\ pc' = "objs"
      /\ todo_objs' = LevelLists[phase]
  BY DEF FindOverloadedObjs
<1>0. lb_info' \in LbInfos
  BY FiguresLemma
<1>2. lb_info'.powersave = Null
  BY DEF FindOverloadedObjs, NoInfo
<1>3. TypeOK'
  BY <1>0, <1>1, ConstantsLemma DEF IInv, TypeOK, PCs
<1>4. ListsConsistent' /\ LevelRespected' /\ BootLoop'
  BY <1>1, FrameLemma
<1>5. phase = 1 => todo_objs' = cpus
  BY <1>1 DEF LevelLists
<1>6. LoopOnList' /\ PowersaveIdle' /\ PowersaveLoop'
  BY <1>1, <1>2, <1>5 DEF IInv, LoopOnList, LoopPCs, PowersaveIdle, PowersaveLoop
<1> QED BY <1>3, <1>4, <1>6 DEF IInv

(* NextLevel resets lb_info. *)
LEMMA NextLevelLemma ==
    ASSUME IInv, NextLevel
    PROVE  /\ lb_info' \in LbInfos /\ lb_info'.powersave = Null
           /\ phase' \in 1..4 /\ pc' \in {"sort", "find"}
BY DEF IInv, TypeOK, NextLevel, NoInfo, LbInfos, Lists

(* The end of a level, and the end of powersave, touch no list; a cpu that *)
(* leaves powersave may be used again.                                     *)
LEMMA EndLevelStep == IInv /\ (EndLevel \/ LeavePowersave) => IInv'
<1> SUFFICES ASSUME IInv, EndLevel \/ LeavePowersave PROVE IInv'
  OBVIOUS
<1> USE DEF irqVars, fixedVars
<1>1. /\ UNCHANGED <<irqVars, fixedVars, irqload, load, cur, todo_objs, todo_irqs>>
      /\ pc = "objs" /\ NextLevel
      /\ powersave_mode' \in [Objs -> BOOLEAN]
      /\ \A d \in Objs : powersave_mode'[d] => powersave_mode[d]
  BY DEF EndLevel, LeavePowersave, AtPowersaveDecision, IInv, TypeOK
<1>2. /\ lb_info' \in LbInfos /\ lb_info'.powersave = Null
      /\ phase' \in 1..4 /\ pc' \in {"sort", "find"}
  BY <1>1, NextLevelLemma
<1>3. TypeOK'
  BY <1>1, <1>2 DEF IInv, TypeOK, PCs
<1>4. ListsConsistent' /\ LevelRespected' /\ BootLoop'
  BY <1>1, <1>2, FrameLemma
<1>5. LoopOnList' /\ PowersaveIdle' /\ PowersaveLoop'
  BY <1>1, <1>2 DEF IInv, LoopOnList, LoopPCs, PowersaveIdle, PowersaveLoop
<1> QED BY <1>3, <1>4, <1>5 DEF IInv

(* activate_mapping clears moved and writes masks; the lists stay. *)
LEMMA ActivateStep == IInv /\ (PlacementDone \/ ActivateMapping \/ EndCycle) => IInv'
<1> SUFFICES ASSUME IInv, PlacementDone \/ ActivateMapping \/ EndCycle PROVE IInv'
  OBVIOUS
<1> USE DEF irqVars, fixedVars
<1>1. /\ UNCHANGED <<lists, assigned_obj, interrupts_db, irqload, load, powersave_mode,
                     phase, lb_info, cur, todo_objs>>
      /\ pc \in {"objects", "activate"} /\ pc' \in {"activate", "measure"}
  BY DEF PlacementDone, ActivateMapping, EndCycle
<1>2. TypeOK'
  <2>1. CASE PlacementDone
    BY <2>1 DEF PlacementDone, IInv, TypeOK, PCs
  <2>2. CASE ActivateMapping
    <3> DEFINE i == Head(todo_irqs)
    <3>1. todo_irqs \in Seq(Irqs) /\ todo_irqs # <<>>
      BY <2>2 DEF ActivateMapping, IInv, TypeOK
    <3>2. i \in Irqs /\ Tail(todo_irqs) \in Seq(Irqs)
      BY <3>1, TailLemma
    <3>3. assigned_obj[i] # Null => Mask[assigned_obj[i]] \subseteq CpuIds
      BY <3>2, TreeAssumption DEF IsTree, IInv, TypeOK, Lists
    <3>4. Info[i].affinity_hint \subseteq CpuIds
      BY <3>2, IrqAssumption
    <3>5. \A m \in AppliedMasks(i) : m \subseteq CpuIds
      BY <3>3, <3>4 DEF AppliedMasks, SubsetMask
    <3>6. affinity' \in [Irqs -> SUBSET CpuIds]
      <4>1. CASE affinity' = affinity
        BY <4>1 DEF IInv, TypeOK
      <4>2. CASE \E m \in AppliedMasks(i) : affinity' = [affinity EXCEPT ![i] = m]
        BY <4>2, <3>5 DEF IInv, TypeOK
      <4> QED BY <2>2, <4>1, <4>2 DEF ActivateMapping
    <3>7. warned' \in [Irqs -> BOOLEAN] /\ moved' \in [Irqs -> BOOLEAN]
      <4>1. moved' \in [Irqs -> BOOLEAN]
        BY <2>2 DEF ActivateMapping, IInv, TypeOK
      <4>2. Warns(i) \in BOOLEAN
        BY <3>2 DEF Warns, IInv, TypeOK
      <4>3. warned' = [warned EXCEPT ![i] = warned[i] \/ Warns(i)]
        BY <2>2 DEF ActivateMapping
      <4>4. warned' \in [Irqs -> BOOLEAN]
        BY <4>2, <4>3 DEF IInv, TypeOK
      <4> QED BY <4>1, <4>4
    <3> HIDE DEF i
    <3> QED BY <2>2, <3>2, <3>6, <3>7, <1>1 DEF ActivateMapping, IInv, TypeOK, PCs
  <2>3. CASE EndCycle
    BY <2>3, IrqAssumption DEF EndCycle, IInv, TypeOK, PCs
  <2> QED BY <2>1, <2>2, <2>3
<1>3. ListsConsistent' /\ LevelRespected' /\ BootLoop'
  BY <1>1, FrameLemma
<1>4. LoopOnList' /\ PowersaveIdle' /\ PowersaveLoop'
  BY <1>1 DEF IInv, LoopOnList, LoopPCs, PowersaveIdle, PowersaveLoop
<1> QED BY <1>2, <1>3, <1>4 DEF IInv
-----------------------------------------------------------------------------
(* The steps that start a loop over a list. *)
LEMMA SortedListsLemma ==
    ASSUME IInv, NEW d \in Lists, NEW s \in sort_irq_list(lists[d]),
           lists' = [lists EXCEPT ![d] = s],
           UNCHANGED <<assigned_obj, interrupts_db>>,
           pc \notin {"boot", "rescan"}, pc' \notin {"boot", "rescan"}
    PROVE  /\ ListsConsistent' /\ LevelRespected' /\ BootLoop'
           /\ lists' \in [Lists -> Seq(Irqs)]
           /\ s \in Seq(Irqs) /\ IsInjective(s) /\ Len(s) = Len(lists[d])
           /\ lists'[d] = s /\ Range(s) = Range(lists[d])
           /\ \A l \in Lists : l # d => lists'[l] = lists[l]
<1>1. lists[d] \in Seq(Irqs) /\ IsInjective(lists[d]) /\ lists \in [Lists -> Seq(Irqs)]
  BY DEF IInv, TypeOK, ListsConsistent, NoDuplicates
<1>2. s \in Seq(Irqs) /\ IsInjective(s) /\ Len(s) = Len(lists[d]) /\ Range(s) = Range(lists[d])
  BY <1>1, SortLemma
<1>3. /\ lists' \in [Lists -> Seq(Irqs)]
      /\ lists'[d] = s
      /\ \A l \in Lists : l # d => lists'[l] = lists[l]
  BY <1>1, <1>2
<1>4. \A l \in Lists : Range(lists'[l]) = Range(lists[l])
  BY <1>2, <1>3
<1>5. PointsBack' /\ NoDuplicates'
  BY <1>2, <1>3, <1>4 DEF IInv, ListsConsistent, PointsBack, NoDuplicates
<1>6. AllOnLists'
  BY <1>4 DEF IInv, ListsConsistent, AllOnLists, OnSomeList, Pending
<1>7. LevelRespected' /\ BootLoop'
  BY DEF IInv, LevelRespected, BootLoop
<1> QED BY <1>2, <1>3, <1>5, <1>6, <1>7 DEF ListsConsistent

(* The bookkeeping of migrate_overloaded_irqs keeps the type of lb_info, and *)
(* what it picks for powersave is the object it looks at.                    *)
LEMMA CountObjLemma ==
    ASSUME NEW d \in Objs, NEW info \in LbInfos
    PROVE  /\ CountObj(d, info) \in LbInfos
           /\ CountObj(d, info).powersave \in {info.powersave, d}
<1> DEFINE np == IF powersave_mode[d] THEN info.num_powersave + 1 ELSE info.num_powersave
           nu == IF Under(load[d], info) THEN info.num_under + 1 ELSE info.num_under
           no == IF ~Under(load[d], info) /\ Over(load[d], info)
                 THEN info.num_over + 1 ELSE info.num_over
           pw == IF /\ Under(load[d], info) /\ power_thresh # PowersaveOff
                    /\ info.powersave = Null /\ ~powersave_mode[d]
                 THEN d ELSE info.powersave
<1>1. CountObj(d, info) = [info EXCEPT !.num_powersave = np, !.num_under = nu,
                                       !.num_over = no, !.powersave = pw]
  BY DEF CountObj, LbInfos
<1>2. np \in Nat /\ nu \in Nat /\ no \in Nat
  BY DEF LbInfos
<1>3. pw \in {info.powersave, d} /\ pw \in Lists
  BY ConstantsLemma DEF LbInfos
<1> HIDE DEF np, nu, no, pw
<1> QED BY <1>1, <1>2, <1>3 DEF LbInfos

(* migrate_overloaded_irqs sorts the list of an object and starts the loop *)
(* over it: sorting loses and repeats nothing.                             *)
LEMMA MigrateStep == IInv /\ MigrateOverloadedIrqs => IInv'
<1> SUFFICES ASSUME IInv, MigrateOverloadedIrqs PROVE IInv'
  OBVIOUS
<1> USE DEF irqVars, fixedVars
<1> DEFINE d == Head(todo_objs)
<1>1. /\ pc = "objs" /\ todo_objs # <<>> /\ todo_objs \in Seq(Objs)
      /\ todo_objs' = Tail(todo_objs)
      /\ UNCHANGED <<assigned_obj, moved, fixedVars, irqload, load, powersave_mode, phase>>
      /\ lb_info \in LbInfos
  BY DEF MigrateOverloadedIrqs, IInv, TypeOK
<1>2. /\ d \in Objs /\ d \in Range(todo_objs) /\ Tail(todo_objs) \in Seq(Objs)
      /\ Range(Tail(todo_objs)) \subseteq Range(todo_objs)
  BY <1>1, TailLemma
<1>3. d \in Lists /\ d # Null
  BY <1>2, ConstantsLemma
<1>4. /\ CountObj(d, lb_info) \in LbInfos
      /\ CountObj(d, lb_info).powersave \in {lb_info.powersave, d}
  BY <1>1, <1>2, CountObjLemma
<1>5. phase = 1 => d \in Range(cpus) /\ Range(todo_objs') \subseteq Range(cpus)
                      /\ CountObj(d, lb_info).powersave \in Range(cpus) \cup {Null}
  BY <1>1, <1>2, <1>4 DEF IInv, PowersaveLoop
<1>6. CASE Donor(d)
  <2>1. PICK s \in sort_irq_list(lists[d]) :
           lists' = [lists EXCEPT ![d] = s] /\ todo_irqs' = for_each_irq(s)
    BY <1>6 DEF MigrateOverloadedIrqs
  <2>2. /\ lb_info' = [CountObj(d, lb_info) EXCEPT !.adjustment_load = load[d]]
        /\ cur' = d /\ pc' = "candidates"
    BY <1>6 DEF MigrateOverloadedIrqs
  <2>3. /\ ListsConsistent' /\ LevelRespected' /\ BootLoop'
        /\ lists' \in [Lists -> Seq(Irqs)]
        /\ s \in Seq(Irqs) /\ IsInjective(s) /\ Len(s) = Len(lists[d])
        /\ lists'[d] = s
        /\ \A l \in Lists : l # d => lists'[l] = lists[l]
    BY <1>1, <1>3, <2>1, <2>2, SortedListsLemma
  <2>4. Len(s) > 1
    BY <1>6, <2>3 DEF Donor
  <2>5. s # <<>> /\ todo_irqs' = s
    BY <2>1, <2>3, <2>4 DEF for_each_irq
  <2>6. lb_info' \in LbInfos /\ lb_info'.powersave = CountObj(d, lb_info).powersave
    <3>1. load[d] \in Nat
      BY <1>2 DEF IInv, TypeOK
    <3> QED BY <1>4, <2>2, <3>1 DEF LbInfos
  <2>7. ~powersave_mode[d]
    BY <1>1, <1>2, <2>3, <2>4 DEF IInv, PowersaveIdle
  <2> HIDE DEF d
  <2>8. TypeOK'
    BY <1>1, <1>2, <1>3, <2>2, <2>3, <2>5, <2>6 DEF IInv, TypeOK, PCs
  <2>9. LoopOnList'
    BY <2>2, <2>3, <2>5, <1>3 DEF LoopOnList, LoopPCs
  <2>10. PowersaveIdle'
    BY <1>1, <2>2, <2>3, <2>7, ConstantsLemma DEF IInv, PowersaveIdle
  <2>11. PowersaveLoop'
    BY <1>1, <1>5, <2>2, <2>6 DEF IInv, PowersaveLoop
  <2> QED BY <2>3, <2>8, <2>9, <2>10, <2>11 DEF IInv
<1>7. CASE ~Donor(d)
  <2>1. lb_info' = CountObj(d, lb_info) /\ UNCHANGED <<lists, todo_irqs, cur, pc>>
    BY <1>7 DEF MigrateOverloadedIrqs
  <2> HIDE DEF d
  <2>2. TypeOK'
    BY <1>1, <1>2, <1>4, <2>1 DEF IInv, TypeOK
  <2>3. ListsConsistent' /\ LevelRespected' /\ BootLoop'
    BY <1>1, <2>1, FrameLemma
  <2>4. LoopOnList' /\ PowersaveIdle' /\ PowersaveLoop'
    BY <1>1, <1>5, <2>1 DEF IInv, LoopOnList, LoopPCs, PowersaveIdle, PowersaveLoop
  <2> QED BY <2>2, <2>3, <2>4 DEF IInv
<1> QED BY <1>6, <1>7

(* A list that is not empty is run over from its start. *)
LEMMA LoopStartLemma ==
    ASSUME IInv, NEW l \in Lists, Len(lists[l]) > 0
    PROVE  /\ for_each_irq(lists[l]) = lists[l]
           /\ lists[l] # <<>> /\ IsInjective(lists[l]) /\ lists[l] \in Seq(Irqs)
BY DEF IInv, TypeOK, ListsConsistent, NoDuplicates, for_each_irq

(* Powersave is entered with the loop over exactly the irqs of the cpu. *)
LEMMA EnterStep == IInv /\ EnterPowersave => IInv'
<1> SUFFICES ASSUME IInv, EnterPowersave PROVE IInv'
  OBVIOUS
<1> USE DEF irqVars, fixedVars
<1> DEFINE p == lb_info.powersave
<1>1. /\ pc = "objs" /\ phase = 1 /\ p # Null
      /\ powersave_mode' = [powersave_mode EXCEPT ![p] = TRUE]
      /\ UNCHANGED <<irqVars, fixedVars, irqload, load, todo_objs>>
  BY DEF EnterPowersave, AtPowersaveDecision, EnterCondition
<1>2. p \in Range(cpus) /\ p \in Objs /\ p \in Lists
  BY <1>1, ConstantsLemma DEF IInv, PowersaveLoop
<1>3. /\ powersave_mode' \in [Objs -> BOOLEAN]
      /\ \A d \in Objs : powersave_mode'[d] => d = p \/ powersave_mode[d]
  BY <1>1, <1>2 DEF IInv, TypeOK
<1>4. CASE Len(lists[p]) > 0
  <2>1. /\ todo_irqs' = for_each_irq(lists[p]) /\ cur' = p /\ pc' = "force"
        /\ UNCHANGED <<lb_info, phase>>
    BY <1>4 DEF EnterPowersave
  <2>2. todo_irqs' = lists[p] /\ lists[p] # <<>> /\ IsInjective(lists[p]) /\ lists[p] \in Seq(Irqs)
    BY <1>2, <1>4, <2>1, LoopStartLemma
  <2> HIDE DEF p
  <2>3. TypeOK'
    BY <1>1, <1>2, <1>3, <2>1, <2>2 DEF IInv, TypeOK, PCs
  <2>4. ListsConsistent' /\ LevelRespected' /\ BootLoop'
    BY <1>1, <2>1, FrameLemma
  <2>5. LoopOnList'
    BY <1>1, <1>2, <2>1, <2>2 DEF LoopOnList, LoopPCs
  <2>6. PowersaveIdle'
    BY <1>1, <1>3, <2>1 DEF IInv, PowersaveIdle
  <2>7. PowersaveLoop'
    BY <1>1, <1>2, <1>3, <2>1, <2>2 DEF IInv, PowersaveLoop
  <2> QED BY <2>3, <2>4, <2>5, <2>6, <2>7 DEF IInv
<1>5. CASE ~(Len(lists[p]) > 0)
  <2>1. NextLevel /\ UNCHANGED <<todo_irqs, cur>>
    BY <1>5 DEF EnterPowersave
  <2>2. /\ lb_info' \in LbInfos /\ lb_info'.powersave = Null
        /\ phase' \in 1..4 /\ pc' \in {"sort", "find"}
    BY <2>1, NextLevelLemma
  <2>3. lists[p] = <<>>
    BY <1>2, <1>5 DEF IInv, TypeOK
  <2> HIDE DEF p
  <2>4. TypeOK'
    BY <1>1, <1>2, <1>3, <2>1, <2>2 DEF IInv, TypeOK, PCs
  <2>5. ListsConsistent' /\ LevelRespected' /\ BootLoop'
    BY <1>1, <2>2, FrameLemma
  <2>6. LoopOnList'
    BY <1>1, <2>1, <2>2 DEF IInv, LoopOnList, LoopPCs
  <2>7. PowersaveIdle' /\ PowersaveLoop'
    BY <1>1, <1>2, <1>3, <2>2, <2>3 DEF IInv, PowersaveIdle, PowersaveLoop
  <2> QED BY <2>4, <2>5, <2>6, <2>7 DEF IInv
<1> QED BY <1>4, <1>5

(* calculate_placement sorts rebalance_irq_list and starts the loop over it. *)
LEMMA PlacementStep == IInv /\ CalculatePlacement => IInv'
<1> SUFFICES ASSUME IInv, CalculatePlacement PROVE IInv'
  OBVIOUS
<1> USE DEF irqVars, fixedVars
<1>1. /\ pc = "sort" /\ pc' \in {"nodes", "activate"}
      /\ UNCHANGED <<assigned_obj, moved, fixedVars, irqload, load, powersave_mode,
                     phase, lb_info, cur>>
  BY DEF CalculatePlacement
<1>2. PICK s \in sort_irq_list(lists[Null]) :
         /\ lists' = [lists EXCEPT ![Null] = s]
         /\ \/ /\ Len(s) > 0 /\ pc' = "nodes"
               /\ todo_irqs' = for_each_irq(s)
               /\ todo_objs' = numa_nodes \o packages \o cache_domains
            \/ /\ Len(s) = 0 /\ pc' = "activate"
               /\ todo_irqs' = interrupts_db
               /\ UNCHANGED todo_objs
  BY DEF CalculatePlacement, PlacementOrder
<1>3. /\ ListsConsistent' /\ LevelRespected' /\ BootLoop'
      /\ lists' \in [Lists -> Seq(Irqs)]
      /\ s \in Seq(Irqs) /\ IsInjective(s)
      /\ lists'[Null] = s
      /\ \A l \in Lists : l # Null => lists'[l] = lists[l]
  BY <1>1, <1>2, ConstantsLemma, SortedListsLemma
<1>4. Len(s) > 0 => s # <<>> /\ for_each_irq(s) = s
  BY <1>3 DEF for_each_irq
<1>5. numa_nodes \o packages \o cache_domains \in Seq(Objs)
  BY TreeAssumption DEF IsTree
<1>6. TypeOK'
  BY <1>1, <1>2, <1>3, <1>4, <1>5 DEF IInv, TypeOK, PCs
<1>7. LoopOnList'
  BY <1>1, <1>2, <1>3, <1>4 DEF IInv, LoopOnList, LoopPCs
<1>8. PowersaveIdle' /\ PowersaveLoop'
  BY <1>1, <1>3, ConstantsLemma DEF IInv, PowersaveIdle, PowersaveLoop
<1> QED BY <1>3, <1>6, <1>7, <1>8 DEF IInv

(* place_irq_in_object starts the loop over the list of one object. *)
LEMMA PlaceObjectStep == IInv /\ PlaceIrqInObject => IInv'
<1> SUFFICES ASSUME IInv, PlaceIrqInObject PROVE IInv'
  OBVIOUS
<1> USE DEF irqVars, fixedVars
<1> DEFINE d == Head(todo_objs)
<1>1. /\ pc = "objects" /\ todo_objs # <<>> /\ todo_objs \in Seq(Objs)
      /\ todo_objs' = Tail(todo_objs)
      /\ UNCHANGED <<irqVars, fixedVars, irqload, load, powersave_mode, phase, lb_info>>
  BY DEF PlaceIrqInObject, IInv, TypeOK
<1>2. d \in Objs /\ Tail(todo_objs) \in Seq(Objs)
  BY <1>1, TailLemma
<1>3. d \in Lists /\ d # Null
  BY <1>2, ConstantsLemma
<1>4. CASE Len(lists[d]) > 0
  <2>1. todo_irqs' = for_each_irq(lists[d]) /\ cur' = d /\ pc' = "best"
    BY <1>4 DEF PlaceIrqInObject
  <2>2. todo_irqs' = lists[d] /\ lists[d] # <<>> /\ IsInjective(lists[d]) /\ lists[d] \in Seq(Irqs)
    BY <1>3, <1>4, <2>1, LoopStartLemma
  <2> HIDE DEF d
  <2>3. TypeOK'
    BY <1>1, <1>2, <1>3, <2>1, <2>2 DEF IInv, TypeOK, PCs
  <2>4. ListsConsistent' /\ LevelRespected' /\ BootLoop'
    BY <1>1, <2>1, FrameLemma
  <2>5. LoopOnList'
    BY <1>1, <1>3, <2>1, <2>2 DEF LoopOnList, LoopPCs
  <2>6. PowersaveIdle' /\ PowersaveLoop'
    BY <1>1, <2>1 DEF IInv, PowersaveIdle, PowersaveLoop
  <2> QED BY <2>3, <2>4, <2>5, <2>6 DEF IInv
<1>5. CASE ~(Len(lists[d]) > 0)
  <2>1. UNCHANGED <<todo_irqs, cur, pc>>
    BY <1>5 DEF PlaceIrqInObject
  <2> HIDE DEF d
  <2>2. TypeOK'
    BY <1>1, <1>2, <2>1 DEF IInv, TypeOK, PCs
  <2>3. ListsConsistent' /\ LevelRespected' /\ BootLoop'
    BY <1>1, <2>1, FrameLemma
  <2>4. LoopOnList' /\ PowersaveIdle' /\ PowersaveLoop'
    BY <1>1, <2>1 DEF IInv, LoopOnList, LoopPCs, PowersaveIdle, PowersaveLoop
  <2> QED BY <2>2, <2>3, <2>4 DEF IInv
<1> QED BY <1>4, <1>5
-----------------------------------------------------------------------------
(* The steps that take an irq off a list. *)
LEMMA CandidateStep == IInv /\ MoveCandidateIrqs => IInv'
<1> SUFFICES ASSUME IInv, MoveCandidateIrqs PROVE IInv'
  OBVIOUS
<1> USE DEF irqVars, fixedVars
<1> DEFINE i == Head(todo_irqs)
<1>1. /\ pc = "candidates" /\ LoopStep("candidates", "objs")
      /\ UNCHANGED <<fixedVars, irqload, load, powersave_mode, phase, todo_objs>>
  BY DEF MoveCandidateIrqs
<1>2. /\ todo_irqs' = Tail(todo_irqs) /\ Tail(todo_irqs) \in Seq(Irqs)
      /\ i \in Irqs /\ i \in Range(lists[cur]) /\ assigned_obj[i] = cur
      /\ cur \in Lists /\ cur # Null
      /\ pc' \in {"candidates", "objs"} /\ cur' \in {cur, Null}
      /\ Len(todo_irqs) = 1 => pc' = "objs" /\ cur' = Null
      /\ Len(todo_irqs) # 1 => pc' = pc /\ cur' = cur
  BY <1>1, VisitLemma DEF LoopPCs, LoopStep
<1>3. CASE Candidate(i)
  <2>1. /\ lb_info' = [lb_info EXCEPT
              !.adjustment_load = (lb_info.adjustment_load - irqload[i]) % WordSize,
              !.min_load = lb_info.min_load + irqload[i]]
        /\ migrate_irq(cur, Null, i)
        /\ assigned_obj' = [assigned_obj EXCEPT ![i] = Null]
    BY <1>2, <1>3 DEF MoveCandidateIrqs, IInv, TypeOK, LbInfos
  <2> HIDE DEF i
  <2>2. /\ lists' \in [Lists -> Seq(Irqs)]
        /\ moved' \in [Irqs -> BOOLEAN]
        /\ Range(lists'[cur]) = Range(lists[cur]) \ {i}
        /\ \A l \in Lists : l # cur /\ l # Null => lists'[l] = lists[l]
    <3>1. TypeOK /\ PointsBack /\ NoDuplicates /\ Null \in Lists
      BY ConstantsLemma DEF IInv, ListsConsistent
    <3> QED BY <1>2, <2>1, <3>1, MigrateLemma
  <2>3. ListsConsistent' /\ assigned_obj' \in [Irqs -> Lists]
    BY <1>1, <1>2, <2>1, MoveLemma, ConstantsLemma DEF IInv
  <2>4. lb_info' \in LbInfos /\ lb_info'.powersave = lb_info.powersave
    <3>1. (lb_info.adjustment_load - irqload[i]) % WordSize \in Nat
          /\ lb_info.min_load + irqload[i] \in Nat
      <4>1. irqload[i] \in Nat /\ lb_info.adjustment_load \in Nat /\ lb_info.min_load \in Nat
        BY <1>2 DEF IInv, TypeOK, LbInfos
      <4>2. WordSize \in Nat /\ WordSize > 0
        BY IrqAssumption
      <4> QED BY <4>1, <4>2
    <3> QED BY <2>1, <3>1 DEF IInv, TypeOK, LbInfos
  <2>5. TypeOK'
    BY <1>1, <1>2, <2>2, <2>3, <2>4, ConstantsLemma DEF IInv, TypeOK, PCs
  <2>6. LoopOnList'
    BY <1>1, <1>2, <2>2, TurnLemma DEF i, LoopPCs
  <2>7. BootLoop' /\ LevelRespected'
    BY <1>2, <2>1 DEF IInv, TypeOK, BootLoop, LevelRespected
  <2>8. PowersaveIdle'
    BY <1>1, <1>2, <2>2, IdleLemma, ConstantsLemma
  <2>9. PowersaveLoop'
    BY <1>1, <1>2, <2>4 DEF IInv, PowersaveLoop
  <2> QED BY <2>3, <2>5, <2>6, <2>7, <2>8, <2>9 DEF IInv
<1>4. CASE ~Candidate(i)
  <2>1. UNCHANGED <<lb_info, lists, assigned_obj, moved>>
    BY <1>4 DEF MoveCandidateIrqs
  <2> HIDE DEF i
  <2>2. TypeOK'
    BY <1>1, <1>2, <2>1, ConstantsLemma DEF IInv, TypeOK, PCs
  <2>3. ListsConsistent' /\ LevelRespected' /\ BootLoop'
    BY <1>1, <1>2, <2>1, FrameLemma
  <2>4. LoopOnList'
    BY <1>1, <1>2, <2>1, TurnLemma DEF LoopPCs
  <2>5. PowersaveIdle' /\ PowersaveLoop'
    BY <1>1, <1>2, <2>1 DEF IInv, PowersaveIdle, PowersaveLoop
  <2> QED BY <2>2, <2>3, <2>4, <2>5 DEF IInv
<1> QED BY <1>3, <1>4

(* force_irq_migration takes one irq off the cpu that goes into powersave; *)
(* after the last one the list of the cpu is empty.                        *)
LEMMA ForceStep == IInv /\ ForceIrqMigration => IInv'
<1> SUFFICES ASSUME IInv, ForceIrqMigration PROVE IInv'
  OBVIOUS
<1> USE DEF irqVars, fixedVars
<1> DEFINE i == Head(todo_irqs)
<1>1. /\ pc = "force" /\ todo_irqs' = Tail(todo_irqs)
      /\ assigned_obj' = [assigned_obj EXCEPT ![i] = Null]
      /\ UNCHANGED <<fixedVars, irqload, load, powersave_mode, todo_objs>>
  BY DEF ForceIrqMigration
<1>2. /\ Tail(todo_irqs) \in Seq(Irqs) /\ todo_irqs \in Seq(Irqs) /\ todo_irqs # <<>>
      /\ i \in Irqs /\ i \in Range(lists[cur]) /\ assigned_obj[i] = cur
      /\ cur \in Lists /\ cur # Null /\ cur \in Objs
  BY <1>1, VisitLemma DEF LoopPCs, Lists
<1>3. migrate_irq(cur, Null, i)
  BY <1>2 DEF ForceIrqMigration
<1>4. /\ lb_info' \in LbInfos /\ lb_info'.powersave \in {lb_info.powersave, Null}
      /\ phase' \in 1..4 /\ pc' \in {"sort", "find", "force"} /\ cur' \in {cur, Null}
      /\ Len(todo_irqs) = 1 => pc' \in {"sort", "find"} /\ cur' = Null /\ lb_info'.powersave = Null
      /\ Len(todo_irqs) # 1 => pc' = pc /\ cur' = cur /\ phase' = phase /\ lb_info' = lb_info
  <2>1. CASE Len(todo_irqs) = 1
    BY <2>1, NextLevelLemma DEF ForceIrqMigration
  <2>2. CASE Len(todo_irqs) # 1
    BY <2>2, <1>1 DEF ForceIrqMigration, IInv, TypeOK
  <2> QED BY <2>1, <2>2
<1>5. /\ Range(todo_irqs) = Range(Tail(todo_irqs)) \cup {i}
      /\ (Len(todo_irqs) = 1 <=> Tail(todo_irqs) = <<>>)
  BY <1>2, TailLemma
<1> HIDE DEF i
<1>6. /\ lists' \in [Lists -> Seq(Irqs)]
      /\ moved' \in [Irqs -> BOOLEAN]
      /\ Range(lists'[cur]) = Range(lists[cur]) \ {i}
      /\ \A l \in Lists : l # cur /\ l # Null => lists'[l] = lists[l]
  <2>1. TypeOK /\ PointsBack /\ NoDuplicates /\ Null \in Lists
    BY ConstantsLemma DEF IInv, ListsConsistent
  <2> QED BY <1>2, <1>3, <2>1, MigrateLemma
<1>7. ListsConsistent' /\ assigned_obj' \in [Irqs -> Lists]
  BY <1>1, <1>2, <1>3, <1>4, MoveLemma, ConstantsLemma DEF IInv
<1>8. TypeOK'
  BY <1>1, <1>2, <1>4, <1>6, <1>7, ConstantsLemma DEF IInv, TypeOK, PCs
<1>9. LoopOnList'
  BY <1>1, <1>2, <1>4, <1>6, TurnLemma DEF i, LoopPCs
<1>10. BootLoop' /\ LevelRespected'
  BY <1>1, <1>2, <1>4 DEF IInv, TypeOK, BootLoop, LevelRespected
<1>11. Range(lists'[cur]) \subseteq Range(Tail(todo_irqs))
  BY <1>1, <1>5, <1>6 DEF IInv, PowersaveLoop
<1>12. PowersaveIdle'
  <2> SUFFICES ASSUME NEW d \in Objs, powersave_mode'[d], ~(pc' = "force" /\ cur' = d)
               PROVE  lists'[d] = <<>>
    BY DEF PowersaveIdle
  <2>1. CASE d = cur
    <3>1. Tail(todo_irqs) = <<>>
      BY <2>1, <1>1, <1>4, <1>5
    <3>2. Range(lists'[d]) = {}
      BY <3>1, <2>1, <1>2, <1>11, EmptyLemma
    <3>3. lists'[d] \in Seq(Irqs)
      BY <1>6, ConstantsLemma
    <3> QED BY <3>2, <3>3, EmptyLemma
  <2>2. CASE d # cur
    <3>1. lists'[d] = lists[d]
      BY <2>2, <1>6, ConstantsLemma
    <3> QED BY <2>2, <3>1, <1>1 DEF IInv, PowersaveIdle
  <2> QED BY <2>1, <2>2
<1>13. PowersaveLoop'
  BY <1>1, <1>4, <1>11 DEF IInv, PowersaveLoop
<1> QED BY <1>7, <1>8, <1>9, <1>10, <1>12, <1>13 DEF IInv

(* What find_best_object returns is a position whose object is eligible. *)
LEMMA BestLemma ==
    ASSUME NEW j, NEW objs, NEW k \in find_best_object(j, objs)
    PROVE  k \in DOMAIN objs /\ ~powersave_mode[objs[k]]
BY DEF find_best_object, Eligible

(* Putting the visited irq of a placement loop on a lower object. *)
LEMMA AssignLemma ==
    ASSUME IInv, pc \in {"nodes", "best"},
           NEW i \in Irqs, i = Head(todo_irqs),
           NEW d \in Objs, d # cur, ~powersave_mode[d], Depth(d) <= Info[i].level,
           NEW extra \in Nat, Assign(cur, d, i, extra),
           LoopStep(pc, "objects"),
           UNCHANGED <<fixedVars, irqload, powersave_mode, phase, lb_info, todo_objs>>
    PROVE  IInv'
<1> USE DEF fixedVars
<1>1. /\ todo_irqs' = Tail(todo_irqs) /\ Tail(todo_irqs) \in Seq(Irqs)
      /\ i \in Range(lists[cur]) /\ assigned_obj[i] = cur
      /\ cur \in Lists /\ cur' \in {cur, Null}
      /\ pc' \in {"nodes", "best", "objects"}
      /\ Len(todo_irqs) = 1 => pc' = "objects" /\ cur' = Null
      /\ Len(todo_irqs) # 1 => pc' = pc /\ cur' = cur
      /\ d \in Lists /\ d # Null
  BY VisitLemma, ConstantsLemma DEF LoopPCs, LoopStep
<1>2. /\ migrate_irq(cur, d, i)
      /\ assigned_obj' = [assigned_obj EXCEPT ![i] = d]
      /\ load' = [load EXCEPT ![d] = load[d] + irqload[i] + extra]
  BY DEF Assign, IInv, TypeOK
<1>3. /\ lists' \in [Lists -> Seq(Irqs)]
      /\ moved' \in [Irqs -> BOOLEAN]
      /\ Range(lists'[cur]) = Range(lists[cur]) \ {i}
      /\ \A l \in Lists : l # cur /\ l # d => lists'[l] = lists[l]
  BY <1>1, <1>2, MigrateLemma DEF IInv, ListsConsistent
<1>4. ListsConsistent' /\ assigned_obj' \in [Irqs -> Lists]
  BY <1>1, <1>2, MoveLemma DEF IInv
<1>5. load' \in [Objs -> Nat]
  <2>1. load \in [Objs -> Nat] /\ load[d] \in Nat /\ irqload[i] \in Nat
    BY DEF IInv, TypeOK
  <2>2. load[d] + irqload[i] + extra \in Nat
    BY <2>1
  <2> QED BY <1>2, <2>1, <2>2
<1>6. TypeOK'
  BY <1>1, <1>3, <1>4, <1>5, ConstantsLemma DEF IInv, TypeOK, PCs
<1>7. LoopOnList'
  BY <1>1, <1>3, TurnLemma DEF LoopPCs
<1>8. BootLoop' /\ LevelRespected'
  BY <1>1, <1>2 DEF IInv, TypeOK, BootLoop, LevelRespected
<1>9. PowersaveIdle'
  BY <1>1, <1>3, IdleLemma
<1>10. PowersaveLoop'
  BY <1>1 DEF IInv, PowersaveLoop
<1> QED BY <1>4, <1>6, <1>7, <1>8, <1>9, <1>10 DEF IInv

(* A placement loop that leaves the visited irq where it is. *)
LEMMA StayLemma ==
    ASSUME IInv, pc \in {"nodes", "best"}, UNCHANGED <<irqVars, load>>,
           LoopStep(pc, "objects"),
           UNCHANGED <<fixedVars, irqload, powersave_mode, phase, lb_info, todo_objs>>
    PROVE  IInv'
<1> USE DEF irqVars, fixedVars
<1>1. /\ todo_irqs' = Tail(todo_irqs) /\ Tail(todo_irqs) \in Seq(Irqs)
      /\ cur \in Lists /\ cur' \in {cur, Null}
      /\ pc' \in {"nodes", "best", "objects"}
      /\ Len(todo_irqs) = 1 => pc' = "objects" /\ cur' = Null
      /\ Len(todo_irqs) # 1 => pc' = pc /\ cur' = cur
  BY VisitLemma DEF LoopPCs, LoopStep
<1>2. TypeOK'
  BY <1>1, ConstantsLemma DEF IInv, TypeOK, PCs
<1>3. ListsConsistent' /\ LevelRespected' /\ BootLoop'
  BY <1>1, FrameLemma
<1>4. LoopOnList'
  BY <1>1, TurnLemma DEF LoopPCs
<1>5. PowersaveIdle' /\ PowersaveLoop'
  BY <1>1 DEF IInv, PowersaveIdle, PowersaveLoop
<1> QED BY <1>2, <1>3, <1>4, <1>5 DEF IInv

(* place_irq_in_node: an irq goes from rebalance_irq_list to a node or stays. *)
LEMMA NodeStep == IInv /\ PlaceIrqInNode => IInv'
<1> SUFFICES ASSUME IInv, PlaceIrqInNode PROVE IInv'
  OBVIOUS
<1> DEFINE i == Head(todo_irqs)
<1>1. /\ pc = "nodes" /\ LoopStep(pc, "objects")
      /\ UNCHANGED <<fixedVars, irqload, powersave_mode, phase, lb_info, todo_objs>>
  BY DEF PlaceIrqInNode
<1>2. i \in Irqs /\ cur = Null
  BY <1>1, VisitLemma DEF LoopPCs
<1>3. /\ \A n \in Range(numa_nodes) : n \in Objs /\ n # cur /\ ~powersave_mode[n]
                                        /\ Depth(n) <= Info[i].level
  BY <1>2, ConstantsLemma DEF IInv, PowersaveLoop
<1>4. CASE UNCHANGED <<irqVars, load>>
  BY <1>1, <1>4, StayLemma
<1>5. CASE Assign(Null, Info[i].numa_node, i, 1)
  <2>1. Info[i].numa_node \in Range(numa_nodes)
    BY <1>2, ConstantsLemma
  <2> QED BY <1>1, <1>2, <1>3, <1>5, <2>1, AssignLemma
<1>6. CASE \E k \in find_best_object(i, numa_nodes) : Assign(Null, numa_nodes[k], i, 0)
  <2>1. PICK k \in find_best_object(i, numa_nodes) : Assign(Null, numa_nodes[k], i, 0)
    BY <1>6
  <2>2. numa_nodes[k] \in Range(numa_nodes)
    BY BestLemma, ConstantsLemma
  <2> QED BY <1>1, <1>2, <1>3, <2>1, <2>2, AssignLemma
<1> QED BY <1>4, <1>5, <1>6 DEF PlaceIrqInNode, PlaceInBest

(* find_best_object_for_irq: an irq goes one level down, which is not below *)
(* its own level, and not to an object in powersave mode.                   *)
LEMMA BestStep == IInv /\ FindBestObjectForIrq => IInv'
<1> SUFFICES ASSUME IInv, FindBestObjectForIrq PROVE IInv'
  OBVIOUS
<1> DEFINE i == Head(todo_irqs)
<1>1. /\ pc = "best" /\ LoopStep(pc, "objects")
      /\ UNCHANGED <<fixedVars, irqload, powersave_mode, phase, lb_info, todo_objs>>
  BY DEF FindBestObjectForIrq
<1>2. i \in Irqs /\ cur \in Objs /\ assigned_obj[i] = cur
  BY <1>1, VisitLemma DEF LoopPCs, Lists
<1>3. CASE UNCHANGED <<irqVars, load>>
  BY <1>1, <1>3, StayLemma
<1>4. CASE /\ Info[i].level # Depth(cur)
           /\ \E k \in find_best_object(i, Children[cur]) : Assign(cur, Children[cur][k], i, 0)
  <2>1. PICK k \in find_best_object(i, Children[cur]) : Assign(cur, Children[cur][k], i, 0)
    BY <1>4
  <2> DEFINE d == Children[cur][k]
  <2>2. k \in DOMAIN Children[cur] /\ ~powersave_mode[d]
    BY BestLemma
  <2>3. d \in Objs /\ d # cur
    BY <1>2, <2>2, ConstantsLemma
  <2>4. Depth(d) = Depth(cur) + 1
    BY <1>2, <2>2, TreeAssumption DEF IsTree
  <2>5. Depth(cur) <= Info[i].level
    BY <1>2, ConstantsLemma DEF IInv, LevelRespected
  <2>6. Depth(d) <= Info[i].level
    <3>1. Depth(cur) \in 0..3 /\ Info[i].level \in 0..3
      BY <1>2, ConstantsLemma
    <3> HIDE DEF d
    <3> QED BY <1>4, <2>4, <2>5, <3>1
  <2> HIDE DEF d
  <2>7. Assign(cur, d, i, 0)
    BY <2>1 DEF d
  <2> QED BY <1>1, <1>2, <2>2, <2>3, <2>6, <2>7, AssignLemma
<1> QED BY <1>3, <1>4 DEF FindBestObjectForIrq, Stays, PlaceInBest

-----------------------------------------------------------------------------
(* A freshly built tree and db satisfy the invariant. *)
LEMMA InitLemma == Init => IInv
<1> SUFFICES ASSUME Init PROVE IInv
  OBVIOUS
<1>1. interrupts_db \in Seq(Irqs) /\ IsInjective(interrupts_db)
  BY IrqAssumption DEF Init
<1>2. TypeOK
  BY <1>1, IrqAssumption DEF Init, TypeOK, PCs, Lists, NoInfo, LbInfos
<1>3. \A l \in Lists : lists[l] = <<>> /\ Range(lists[l]) = {} /\ IsInjective(lists[l])
  BY DEF Init, Range, IsInjective
<1>4. ListsConsistent
  <2>1. \A j \in Irqs : ~OnSomeList(j)
    BY <1>3 DEF OnSomeList
  <2>2. \A j \in Irqs : j \in Range(interrupts_db) => Pending(j)
    <3> SUFFICES ASSUME NEW j \in Range(interrupts_db) PROVE Pending(j)
      OBVIOUS
    <3>1. interrupts_db # <<>>
      BY DEF Range
    <3> QED BY <3>1 DEF Pending, Init
  <2> QED BY <1>3, <2>1, <2>2 DEF ListsConsistent, PointsBack, NoDuplicates, AllOnLists
<1>5. LoopOnList /\ LevelRespected
  BY DEF Init, LoopOnList, LoopPCs, LevelRespected
<1>6. BootLoop
  BY <1>1 DEF Init, BootLoop
<1>7. PowersaveIdle /\ PowersaveLoop
  BY <1>3 DEF Init, PowersaveIdle, PowersaveLoop, NoInfo
<1> QED BY <1>2, <1>4, <1>5, <1>6, <1>7 DEF IInv

(* A step that changes nothing keeps the invariant. *)
LEMMA StutterLemma == IInv /\ UNCHANGED vars => IInv'
BY DEF vars, IInv, TypeOK, ListsConsistent, PointsBack, NoDuplicates, AllOnLists, OnSomeList,
       Pending, LoopOnList, BootLoop, LevelRespected, PowersaveIdle, PowersaveLoop

(* The invariant is inductive. *)
THEOREM Invariance == Spec => []IInv
<1>1. IInv /\ [Next]_vars => IInv'
  BY BootStep, MeasureStep, RescanStep, FindStep, EndLevelStep, ActivateStep, MigrateStep,
     EnterStep, PlacementStep, PlaceObjectStep, CandidateStep, ForceStep, NodeStep, BestStep,
     StutterLemma DEF Next
<1> QED BY <1>1, InitLemma, PTL DEF Spec

(* Every list, pointer, counter and cursor of the balancer keeps its type, *)
(* for every tree, irq db and load.                                        *)
THEOREM TypeCorrect == Spec => []TypeOK
<1>1. IInv => TypeOK
  BY DEF IInv
<1> QED BY <1>1, Invariance, PTL

(* The lists of the objects and rebalance_irq_list always partition the    *)
(* balanced irqs and agree with assigned_obj: the check of validate_irq,   *)
(* which the daemon only makes in debug mode, never fails.                 *)
THEOREM ListsStayConsistent == Spec => []ListsConsistent
<1>1. IInv => ListsConsistent
  BY DEF IInv
<1> QED BY <1>1, Invariance, PTL

(* No loop of the balancer dereferences the assigned_obj of an irq that    *)
(* has none, or visits an irq that has left the list.                      *)
THEOREM LoopsStayOnList == Spec => []LoopOnList
<1>1. IInv => LoopOnList
  BY DEF IInv
<1> QED BY <1>1, Invariance, PTL

(* No irq is ever placed below its balance level. *)
THEOREM LevelsRespected == Spec => []LevelRespected
<1>1. IInv => LevelRespected
  BY DEF IInv
<1> QED BY <1>1, Invariance, PTL

(* A cpu in powersave mode stays without irqs until it is woken up. *)
THEOREM PowersaveStaysIdle == Spec => []PowersaveIdle
<1>1. IInv => PowersaveIdle
  BY DEF IInv
<1> QED BY <1>1, Invariance, PTL

-----------------------------------------------------------------------------
(* From the measurement to the placement the irqs on an object claim no    *)
(* more than its load, and those that move_candidate_irqs has still to     *)
(* visit no more than what is left of it.                                  *)
Balancing == {"find", "objs", "candidates", "force"}

SharesInv == pc \in Balancing => \A d \in Objs : SumOver(Heavy, lists[d]) <= load[d]

LeftInv == pc = "candidates" => /\ SumOver(Heavy, todo_irqs) <= lb_info.adjustment_load
                                /\ lb_info.adjustment_load < WordSize

LEMMA HeavyLemma ==
    ASSUME TypeOK
    PROVE  /\ Heavy \in [Irqs -> Nat]
           /\ \A i \in Irqs : /\ Heavy[i] \in Nat
                              /\ irqload[i] > 1 => Heavy[i] = irqload[i]
BY DEF TypeOK, Heavy

(* Irqs that leave an object take their claims along. *)
LEMMA ShrinkLemma ==
    ASSUME IInv, IInv', SharesInv, pc \in Balancing, UNCHANGED <<irqload, load>>,
           \A d \in Objs : Range(lists'[d]) \subseteq Range(lists[d])
    PROVE  SharesInv'
<1> SUFFICES ASSUME NEW d \in Objs PROVE SumOver(Heavy, lists'[d]) <= load[d]
  BY DEF SharesInv, Heavy
<1> DEFINE s == lists[d]
           t == lists'[d]
<1>1. d \in Lists
  BY ConstantsLemma
<1>2. s \in Seq(Irqs) /\ t \in Seq(Irqs) /\ IsInjective(t) /\ Range(t) \subseteq Range(s)
  BY <1>1 DEF IInv, TypeOK, ListsConsistent, NoDuplicates
<1>3. \A i \in Irqs : Heavy[i] \in Nat
  BY HeavyLemma DEF IInv
<1>4. SumOver(Heavy, s) <= load[d] /\ load[d] \in Nat
  BY DEF SharesInv, IInv, TypeOK
<1> HIDE DEF s, t
<1>5. SumOver(Heavy, t) <= SumOver(Heavy, s)
  BY <1>2, <1>3, SumSub
<1>6. SumOver(Heavy, s) \in Nat /\ SumOver(Heavy, t) \in Nat
  BY <1>2, <1>3, SumNat
<1>7. SumOver(Heavy, t) <= load[d]
  BY <1>4, <1>5, <1>6
<1> QED BY <1>7 DEF t

(* clear_work_stats takes every claim back. *)
LEMMA ClearedLemma ==
    ASSUME IInv, IInv', MeasureBroken
    PROVE  SharesInv'
<1> SUFFICES ASSUME NEW d \in Objs PROVE SumOver(Heavy', lists[d]) <= load'[d]
  BY DEF SharesInv, MeasureBroken, irqVars
<1> DEFINE s == lists[d]
           heavy == Heavy'
<1>1. s \in Seq(Irqs) /\ load'[d] \in Nat
  BY ConstantsLemma DEF IInv, TypeOK
<1>2. heavy \in [Irqs -> Nat] /\ \A i \in Irqs : heavy[i] \in Nat
  BY DEF IInv, TypeOK, Heavy
<1>3. ASSUME NEW i \in Range(s) PROVE heavy[i] = 0
  <2>1. s # <<>> /\ i \in Irqs
    BY <1>1 DEF Range
  <2>2. i \in Cleared
    BY <2>1 DEF Cleared, for_each_irq
  <2>3. irqload'[i] = 0
    BY <2>1, <2>2 DEF MeasureBroken, clear_work_stats
  <2> QED BY <2>1, <2>3 DEF Heavy
<1> HIDE DEF s, heavy
<1>4. SumOver(heavy, s) <= 0 * SumOver(heavy, s)
  <2>1. \A i \in Range(s) : heavy[i] <= 0 * heavy[i]
    <3> SUFFICES ASSUME NEW i \in Range(s) PROVE heavy[i] <= 0 * heavy[i]
      OBVIOUS
    <3>1. heavy[i] = 0
      BY <1>3
    <3> QED BY <3>1
  <2> QED BY <1>1, <1>2, <2>1, SumBound
<1>5. SumOver(heavy, s) \in Nat
  BY <1>1, <1>2, SumNat
<1>6. SumOver(heavy, s) <= load'[d]
  BY <1>1, <1>4, <1>5
<1> QED BY <1>6 DEF s, heavy

LEMMA SharesStep == IInv /\ IInv' /\ SharesInv /\ [Next]_vars => SharesInv'
<1> SUFFICES ASSUME IInv, IInv', SharesInv, [Next]_vars PROVE SharesInv'
  OBVIOUS
<1> USE DEF irqVars, fixedVars
<1>1. CASE Measure
  <2>1. \A d \in Objs : SumOver(Heavy', lists[d]) <= load'[d]
    BY <1>1, MeasuredLemma
  <2>2. lists' = lists
    BY <1>1 DEF Measure
  <2> QED BY <2>1, <2>2 DEF SharesInv
<1>2. CASE MeasureBroken
  BY <1>2, ClearedLemma
<1>3. CASE FindOverloadedObjs \/ EndLevel \/ LeavePowersave \/ EnterPowersave \/ UNCHANGED vars
  <2>1. UNCHANGED <<lists, irqload, load>>
    BY <1>3 DEF FindOverloadedObjs, EndLevel, LeavePowersave, EnterPowersave, vars
  <2>2. pc' \in Balancing => pc \in Balancing
    BY <1>3 DEF FindOverloadedObjs, EndLevel, LeavePowersave, EnterPowersave,
                AtPowersaveDecision, vars, Balancing
  <2> QED BY <2>1, <2>2 DEF SharesInv, Heavy
<1>4. CASE MigrateOverloadedIrqs
  <2>1. UNCHANGED <<irqload, load>> /\ pc = "objs" /\ todo_objs # <<>>
    BY <1>4 DEF MigrateOverloadedIrqs
  <2>2. \A d \in Objs : Range(lists'[d]) \subseteq Range(lists[d])
    <3>1. CASE lists' = lists
      BY <3>1
    <3>2. CASE lists' # lists
      <4> DEFINE e == Head(todo_objs)
      <4>1. e \in Objs
        BY <2>1, TailLemma DEF IInv, TypeOK
      <4>2. PICK s \in sort_irq_list(lists[e]) : lists' = [lists EXCEPT ![e] = s]
        BY <1>4, <3>2 DEF MigrateOverloadedIrqs
      <4>3. lists[e] \in Seq(Irqs) /\ IsInjective(lists[e]) /\ lists \in [Lists -> Seq(Irqs)]
        BY <4>1, ConstantsLemma DEF IInv, TypeOK, ListsConsistent, NoDuplicates
      <4> HIDE DEF e
      <4>4. Range(s) = Range(lists[e])
        BY <4>3, SortLemma
      <4>5. Objs \subseteq Lists
        BY ConstantsLemma
      <4> QED BY <4>1, <4>2, <4>3, <4>4, <4>5
    <3> QED BY <3>1, <3>2
  <2> QED BY <2>1, <2>2, ShrinkLemma DEF Balancing
<1>5. CASE MoveCandidateIrqs \/ ForceIrqMigration
  <2> DEFINE i == Head(todo_irqs)
  <2>1. UNCHANGED <<irqload, load>> /\ pc \in {"candidates", "force"}
    BY <1>5 DEF MoveCandidateIrqs, ForceIrqMigration
  <2>2. i \in Irqs /\ i \in Range(lists[cur]) /\ assigned_obj[i] = cur /\ cur \in Lists /\ cur # Null
    BY <2>1, VisitLemma DEF LoopPCs
  <2>3. lists' = lists \/ migrate_irq(cur, Null, i)
    BY <1>5, <2>2 DEF MoveCandidateIrqs, ForceIrqMigration
  <2> HIDE DEF i
  <2>4. \A d \in Objs : Range(lists'[d]) \subseteq Range(lists[d])
    <3>1. CASE lists' = lists
      BY <3>1
    <3>2. CASE migrate_irq(cur, Null, i)
      <4>1. /\ Range(lists'[cur]) = Range(lists[cur]) \ {i}
            /\ \A l \in Lists : l # cur /\ l # Null => lists'[l] = lists[l]
        <5>1. TypeOK /\ PointsBack /\ NoDuplicates
          BY DEF IInv, ListsConsistent
        <5>2. Null \in Lists
          BY ConstantsLemma
        <5> QED BY <2>2, <3>2, <5>1, <5>2, MigrateLemma
      <4> QED BY <4>1, ConstantsLemma
    <3> QED BY <2>3, <3>1, <3>2
  <2> QED BY <2>1, <2>4, ShrinkLemma DEF Balancing
<1>6. CASE ForceRebalanceIrq \/ Rescan \/ CalculatePlacement \/ PlaceIrqInNode \/ PlaceIrqInObject
           \/ FindBestObjectForIrq \/ PlacementDone \/ ActivateMapping \/ EndCycle
  <2>1. pc' \notin Balancing
    BY <1>6 DEF ForceRebalanceIrq, Rescan, AfterRescan, CalculatePlacement, PlaceIrqInNode,
         PlaceIrqInObject, FindBestObjectForIrq, PlacementDone, ActivateMapping, EndCycle, LoopStep, Balancing
  <2> QED BY <2>1 DEF SharesInv
<1> QED BY <1>1, <1>2, <1>3, <1>4, <1>5, <1>6 DEF Next

LEMMA SharesInvariant == Spec => [](IInv /\ SharesInv)
<1>1. Init => SharesInv
  BY DEF Init, SharesInv, Balancing
<1> QED BY <1>1, Invariance, SharesStep, PTL DEF Spec

(* compute_irq_branch_load_share never hands out more than the object has, *)
(* whatever the cpus and the irqs did in the cycle and however the irqs    *)
(* are spread over the tree.                                               *)
THEOREM SharesAlwaysFit == Spec => []SharesFit
<1>1. SharesInv => SharesFit
  BY DEF SharesInv, SharesFit, Balancing
<1> QED BY <1>1, SharesInvariant, PTL

(* One turn of move_candidate_irqs: what is left of the load covers what   *)
(* is left of the list.                                                    *)
LEMMA LeftStep == IInv /\ IInv' /\ SharesInv /\ LoadsFit /\ LeftInv /\ [Next]_vars => LeftInv'
<1> SUFFICES ASSUME IInv, IInv', SharesInv, LoadsFit, LeftInv, [Next]_vars, pc' = "candidates"
             PROVE  LeftInv'
  BY DEF LeftInv
<1> USE DEF irqVars, fixedVars
<1> DEFINE adj == lb_info.adjustment_load
<1>1. \A i \in Irqs : Heavy[i] \in Nat /\ (irqload[i] > 1 => Heavy[i] = irqload[i])
  BY HeavyLemma DEF IInv
<1>2. CASE UNCHANGED vars
  BY <1>2 DEF vars, LeftInv, Heavy
<1>3. CASE MigrateOverloadedIrqs
  <2> DEFINE e == Head(todo_objs)
  <2>1. UNCHANGED <<irqload, load>> /\ pc = "objs" /\ todo_objs # <<>>
    BY <1>3 DEF MigrateOverloadedIrqs
  <2>2. e \in Objs /\ e \in Lists
    BY <2>1, TailLemma, ConstantsLemma DEF IInv, TypeOK
  <2>3. PICK s \in sort_irq_list(lists[e]) :
           /\ Len(lists[e]) > 1
           /\ todo_irqs' = for_each_irq(s)
           /\ lb_info' = [CountObj(e, lb_info) EXCEPT !.adjustment_load = load[e]]
    BY <1>3, <2>1 DEF MigrateOverloadedIrqs, Donor
  <2>4. lists[e] \in Seq(Irqs) /\ IsInjective(lists[e])
    BY <2>2 DEF IInv, TypeOK, ListsConsistent, NoDuplicates
  <2>5. s \in Seq(Irqs) /\ IsInjective(s) /\ Len(s) = Len(lists[e]) /\ Range(s) = Range(lists[e])
    <3> HIDE DEF e
    <3> QED BY <2>3, <2>4, SortLemma
  <2>6. todo_irqs' = s
    <3>1. s # <<>>
      BY <2>3, <2>5
    <3> QED BY <2>3, <3>1 DEF for_each_irq
  <2>7. lb_info'.adjustment_load = load[e]
    <3>1. lb_info \in LbInfos
      BY DEF IInv, TypeOK
    <3> QED BY <2>3, <3>1 DEF CountObj, LbInfos
  <2>8. SumOver(Heavy, s) <= SumOver(Heavy, lists[e])
    <3> HIDE DEF e
    <3> QED BY <1>1, <2>4, <2>5, SumSub
  <2>9. SumOver(Heavy, lists[e]) <= load[e] /\ load[e] < WordSize /\ load[e] \in Nat
    BY <2>1, <2>2 DEF SharesInv, Balancing, LoadsFit, IInv, TypeOK
  <2>10. SumOver(Heavy, s) \in Nat /\ SumOver(Heavy, lists[e]) \in Nat
    <3> HIDE DEF e
    <3> QED BY <1>1, <2>4, <2>5, SumNat
  <2>11. Heavy' = Heavy
    BY <2>1 DEF Heavy
  <2> HIDE DEF e
  <2>12. SumOver(Heavy, s) <= load[e]
    BY <2>8, <2>9, <2>10
  <2> QED BY <2>6, <2>7, <2>9, <2>11, <2>12 DEF LeftInv
<1>4. CASE MoveCandidateIrqs
  <2> DEFINE i == Head(todo_irqs)
             rest == SumOver(Heavy, Tail(todo_irqs))
  <2>1. UNCHANGED <<irqload, load>> /\ pc = "candidates" /\ todo_irqs' = Tail(todo_irqs)
    BY <1>4 DEF MoveCandidateIrqs, LoopStep
  <2>2. todo_irqs \in Seq(Irqs) /\ todo_irqs # <<>> /\ i \in Irqs /\ Tail(todo_irqs) \in Seq(Irqs)
    BY <2>1, VisitLemma DEF LoopPCs
  <2>3. SumOver(Heavy, todo_irqs) = rest + Heavy[i]
    BY <1>1, <2>2, SumTail
  <2>4. rest \in Nat /\ Heavy[i] \in Nat
    BY <1>1, <2>2, SumNat
  <2>5. SumOver(Heavy, todo_irqs) <= adj /\ adj < WordSize /\ adj \in Nat
    BY <2>1 DEF LeftInv, IInv, TypeOK, LbInfos
  <2>6. Heavy' = Heavy
    BY <2>1 DEF Heavy
  <2>7. ASSUME NEW a, a = lb_info'.adjustment_load, a \in Nat, rest <= a, a < WordSize PROVE LeftInv'
    BY <2>1, <2>6, <2>7 DEF LeftInv
  <2>8. CASE ~Candidate(i)
    <3>1. lb_info' = lb_info
      BY <1>4, <2>8 DEF MoveCandidateIrqs
    <3>2. adj = lb_info'.adjustment_load
      BY <3>1
    <3>3. rest <= adj
      <4> HIDE DEF rest, adj
      <4> QED BY <2>3, <2>4, <2>5
    <3> QED BY <2>5, <2>7, <3>2, <3>3
  <2>9. CASE Candidate(i)
    <3>1. irqload[i] > 1 /\ Heavy[i] = irqload[i]
      BY <1>1, <2>2, <2>9 DEF Candidate
    <3>2. lb_info'.adjustment_load = (adj - irqload[i]) % WordSize
      <4>1. lb_info \in LbInfos
        BY DEF IInv, TypeOK
      <4>2. lb_info' = [lb_info EXCEPT !.adjustment_load = (adj - irqload[i]) % WordSize,
                                       !.min_load = lb_info.min_load + irqload[i]]
        BY <1>4, <2>9 DEF MoveCandidateIrqs
      <4> QED BY <4>1, <4>2 DEF LbInfos
    <3> DEFINE b == adj - irqload[i]
               w == WordSize
    <3>3. b \in Nat /\ rest <= b /\ b < w /\ w \in Nat \ {0}
      <4> DEFINE c == irqload[i]
      <4>1. c \in Nat /\ rest + c <= adj /\ w \in Nat \ {0} /\ adj < w
        BY <2>2, <2>3, <2>4, <2>5, <3>1, IrqAssumption DEF IInv, TypeOK
      <4> HIDE DEF rest, adj, c, w
      <4>2. adj - c \in Nat /\ rest <= adj - c /\ adj - c < w
        BY <2>4, <2>5, <4>1
      <4> QED BY <4>1, <4>2 DEF c
    <3> HIDE DEF b, w
    <3>4. b % w = b
      BY <3>3
    <3>5. b = lb_info'.adjustment_load
      BY <3>2, <3>4 DEF b, w
    <3>6. b < WordSize
      BY <3>3 DEF w
    <3> QED BY <2>7, <3>3, <3>5, <3>6
  <2> QED BY <2>8, <2>9
<1>5. CASE /\ ~UNCHANGED vars /\ ~MigrateOverloadedIrqs /\ ~MoveCandidateIrqs
  <2>1. pc' # "candidates"
    BY <1>5 DEF Next, ForceRebalanceIrq, Measure, MeasureBroken, AfterMeasure, Rescan, AfterRescan,
         FindOverloadedObjs, EndLevel, NextLevel, EnterPowersave, ForceIrqMigration, LeavePowersave,
         AtPowersaveDecision, CalculatePlacement, PlaceIrqInNode, PlaceIrqInObject,
         FindBestObjectForIrq, PlacementDone, ActivateMapping, EndCycle, LoopStep
  <2> QED BY <2>1
<1> QED BY <1>2, <1>3, <1>4, <1>5

(* What is left of the load of an object covers the next irq. *)
LEMMA NeverUnderflows == Spec /\ []LoadsFit => []NoUnderflow
<1>1. Init => LeftInv
  BY DEF Init, LeftInv
<1>2. IInv /\ LeftInv => NoUnderflow
  <2> SUFFICES ASSUME IInv, LeftInv, pc = "candidates", irqload[Head(todo_irqs)] > 1
               PROVE  irqload[Head(todo_irqs)] <= lb_info.adjustment_load
    BY DEF NoUnderflow
  <2> DEFINE i == Head(todo_irqs)
             rest == SumOver(Heavy, Tail(todo_irqs))
             adj == lb_info.adjustment_load
  <2>1. \A j \in Irqs : Heavy[j] \in Nat /\ (irqload[j] > 1 => Heavy[j] = irqload[j])
    BY HeavyLemma DEF IInv
  <2>2. todo_irqs \in Seq(Irqs) /\ todo_irqs # <<>> /\ i \in Irqs /\ Tail(todo_irqs) \in Seq(Irqs)
    BY VisitLemma DEF LoopPCs
  <2>3. SumOver(Heavy, todo_irqs) = rest + Heavy[i]
    BY <2>1, <2>2, SumTail
  <2>4. rest \in Nat /\ Heavy[i] \in Nat /\ Heavy[i] = irqload[i]
    BY <2>1, <2>2, SumNat
  <2>5. rest + Heavy[i] <= adj /\ adj \in Nat
    BY <2>3 DEF LeftInv, IInv, TypeOK, LbInfos
  <2> HIDE DEF rest, adj, i
  <2>6. irqload[i] <= adj
    BY <2>4, <2>5
  <2> QED BY <2>6 DEF adj, i
<1> QED BY <1>1, <1>2, SharesInvariant, LeftStep, PTL DEF Spec

(* The minimum find_overloaded_objs compares with is not below every load. *)
LeastInv ==
    pc \in {"objs", "candidates"} =>
        /\ LevelLists[phase] # <<>> =>
              \E d \in Range(LevelLists[phase]) : load[d] <= lb_info.min_load
        /\ todo_objs # <<>> => LevelLists[phase] # <<>>

LEMMA LeastStep == IInv /\ LeastInv /\ LeastKeeps /\ [Next]_vars => LeastInv' /\ LeastKeeps'
<1> SUFFICES ASSUME IInv, LeastInv, LeastKeeps, [Next]_vars, pc' \in {"objs", "candidates"}
             PROVE  LeastInv' /\ LeastKeeps'
  BY DEF LeastInv, LeastKeeps
<1> USE DEF irqVars, fixedVars
<1> DEFINE level == LevelLists[phase]
<1>1. /\ level \in Seq(Objs) /\ load \in [Objs -> Nat] /\ todo_objs \in Seq(Objs)
      /\ irqload \in [Irqs -> Nat] /\ lb_info \in LbInfos /\ \A d \in Range(level) : load[d] \in Nat
  <2>1. level \in Seq(Objs) /\ load \in [Objs -> Nat] /\ todo_objs \in Seq(Objs)
        /\ irqload \in [Irqs -> Nat] /\ lb_info \in LbInfos
    BY ConstantsLemma DEF IInv, TypeOK
  <2> HIDE DEF level
  <2> QED BY <2>1 DEF Range
<1>2. CASE UNCHANGED vars
  BY <1>2 DEF vars, LeastInv, LeastKeeps, LevelLists
<1>3. CASE FindOverloadedObjs
  <2>1. pc' = "objs" /\ todo_objs' = level /\ UNCHANGED <<load, phase>>
        /\ lb_info'.min_load = MinLoad(level)
    BY <1>3 DEF FindOverloadedObjs, NoInfo
  <2>2. LevelLists'[phase'] = level
    BY <2>1 DEF LevelLists
  <2>3. level # <<>> => \E d \in Range(level) : load[d] <= MinLoad(level)
    <3> HIDE DEF level
    <3> QED BY <1>1, MinLoadLemma
  <2> HIDE DEF level
  <2> QED BY <2>1, <2>2, <2>3 DEF LeastInv, LeastKeeps
<1>4. CASE MigrateOverloadedIrqs
  <2> DEFINE e == Head(todo_objs)
  <2>1. pc = "objs" /\ todo_objs # <<>> /\ todo_objs' = Tail(todo_objs) /\ UNCHANGED <<load, phase>>
    BY <1>4 DEF MigrateOverloadedIrqs
  <2>2. lb_info'.min_load = lb_info.min_load
    BY <1>1, <1>4 DEF MigrateOverloadedIrqs, CountObj, LbInfos
  <2>3. PICK d \in Range(level) : load[d] <= lb_info.min_load
    BY <2>1 DEF LeastInv
  <2>4. pc' = "candidates" => cur' = e /\ load[e] > lb_info.min_load
    BY <1>4, <2>1 DEF MigrateOverloadedIrqs, Donor
  <2>5. e \in Objs /\ load[e] \in Nat /\ load[d] \in Nat /\ lb_info.min_load \in Nat
    BY <1>1, <2>1, <2>3, TailLemma DEF LbInfos
  <2>6. level # <<>> /\ LevelLists'[phase'] = level
    BY <2>1 DEF LeastInv, LevelLists
  <2>7. pc' = "candidates" => load'[d] < load'[cur']
    <3> HIDE DEF e, level
    <3> QED BY <2>1, <2>3, <2>4, <2>5
  <2> HIDE DEF e, level
  <2> QED BY <2>1, <2>2, <2>3, <2>6, <2>7 DEF LeastInv, LeastKeeps
<1>5. CASE MoveCandidateIrqs
  <2> DEFINE i == Head(todo_irqs)
  <2>1. pc = "candidates" /\ UNCHANGED <<load, phase, todo_objs>> /\ (pc' = "candidates" => cur' = cur)
    BY <1>5 DEF MoveCandidateIrqs, LoopStep
  <2>2. i \in Irqs /\ irqload[i] \in Nat
    BY <1>1, <2>1, VisitLemma DEF LoopPCs
  <2>3. lb_info'.min_load \in {lb_info.min_load, lb_info.min_load + irqload[i]}
    BY <1>1, <1>5 DEF MoveCandidateIrqs, LbInfos
  <2>4. lb_info'.min_load >= lb_info.min_load /\ lb_info.min_load \in Nat /\ lb_info'.min_load \in Nat
    <3>1. lb_info.min_load \in Nat
      BY <1>1 DEF LbInfos
    <3> HIDE DEF i
    <3> QED BY <2>2, <2>3, <3>1
  <2>5. LevelLists'[phase'] = level
    BY <2>1 DEF LevelLists
  <2>6. ASSUME level # <<>> PROVE \E d \in Range(level) : load[d] <= lb_info'.min_load
    <3>1. PICK d \in Range(level) : load[d] <= lb_info.min_load
      BY <2>1, <2>6 DEF LeastInv
    <3> HIDE DEF level
    <3> QED BY <1>1, <2>4, <3>1
  <2> HIDE DEF level
  <2> QED BY <2>1, <2>5, <2>6 DEF LeastInv, LeastKeeps, level
<1>6. CASE /\ ~UNCHANGED vars /\ ~FindOverloadedObjs /\ ~MigrateOverloadedIrqs /\ ~MoveCandidateIrqs
  BY <1>6 DEF Next, ForceRebalanceIrq, Measure, MeasureBroken, AfterMeasure, Rescan, AfterRescan,
       EndLevel, NextLevel, EnterPowersave, ForceIrqMigration, LeavePowersave,
       AtPowersaveDecision, CalculatePlacement, PlaceIrqInNode, PlaceIrqInObject,
       FindBestObjectForIrq, PlacementDone, ActivateMapping, EndCycle, LoopStep
<1> QED BY <1>2, <1>3, <1>4, <1>5, <1>6

(* An object that offers irqs has more load than another one of its level, *)
(* whatever minimum gather_load_stats comes to, and the unsigned           *)
(* difference in move_candidate_irqs never wraps: in any sequence of       *)
(* cycles, migrations, powersave decisions and rescans, as long as the     *)
(* load of an object fits into its 64 bits.                                *)
THEOREM DonorsAreSound == Spec /\ []LoadsFit => []DonorsSound
<1>1. Init => LeastInv /\ LeastKeeps
  BY DEF Init, LeastInv, LeastKeeps
<1>2. Spec => []LeastKeeps
  BY <1>1, Invariance, LeastStep, PTL DEF Spec
<1>3. NoUnderflow /\ LeastKeeps => DonorsSound
  BY DEF DonorsSound
<1> QED BY <1>2, <1>3, NeverUnderflows, PTL
=============================================================================
