---------------------------- MODULE IrqHeapProofs ----------------------------
(***************************************************************************)
(* Proofs about the list library and the irq lists built from it.          *)
(***************************************************************************)
EXTENDS IrqHeap, FoldProofs, FiniteSetTheorems

-----------------------------------------------------------------------------
(* Reading and writing cells. *)

(* What is read through a pointer, whatever the pointer is. *)
LEMMA ReadType ==
    ASSUME NEW h \in Heaps, NEW p
    PROVE  /\ next(h, p) \in Pointers /\ prev(h, p) \in Pointers
           /\ Cell(h, p).data \in Irqs \cup {Junk}
           /\ p \in Cells => /\ h.cell[p] \in CellType
                             /\ next(h, p) = h.cell[p].next /\ prev(h, p) = h.cell[p].prev
                             /\ Cell(h, p).data = h.cell[p].data
BY DEF next, prev, Cell, Heaps, CellType, Pointers, FreeCell

(* Heaps stay heaps. *)
LEMMA WriteType ==
    ASSUME NEW h \in Heaps, NEW p, NEW v \in Pointers
    PROVE  SetNext(h, p, v) \in Heaps /\ SetPrev(h, p, v) \in Heaps /\ free(h, p) \in Heaps
<1> USE DEF Heaps, CellType, Pointers
<1>1. h.bad \in BOOLEAN /\ h.cell \in [Cells -> CellType] /\ FreeCell \in CellType
  BY DEF FreeCell
<1>2. [h EXCEPT !.bad = TRUE] \in Heaps
  OBVIOUS
<1>3. ASSUME p \in Cells
      PROVE  /\ [h EXCEPT !.cell[p].next = v] \in Heaps /\ [h EXCEPT !.cell[p].prev = v] \in Heaps
             /\ [h EXCEPT !.cell[p] = FreeCell] \in Heaps
  <2>1. h.cell[p] \in CellType
    BY <1>1, <1>3
  <2>2. [h.cell[p] EXCEPT !.next = v] \in CellType /\ [h.cell[p] EXCEPT !.prev = v] \in CellType
    BY <2>1
  <2> HIDE DEF CellType, Pointers
  <2> QED BY <1>1, <1>3, <2>2
<1> HIDE DEF Heaps, CellType, Pointers
<1> QED BY <1>2, <1>3 DEF SetNext, SetPrev, free, IsLive

(* What a write into an allocated cell changes. *)
LEMMA SetNextEffect ==
    ASSUME NEW h \in Heaps, NEW p \in Cells, NEW v \in Pointers, h.cell[p].live
    PROVE  /\ SetNext(h, p, v).bad = h.bad
           /\ \A c \in Cells : /\ SetNext(h, p, v).cell[c].live = h.cell[c].live
                               /\ SetNext(h, p, v).cell[c].data = h.cell[c].data
                               /\ SetNext(h, p, v).cell[c].next = IF c = p THEN v ELSE h.cell[c].next
                               /\ SetNext(h, p, v).cell[c].prev = h.cell[c].prev
BY DEF SetNext, IsLive, Heaps, CellType

(* The same for the pointer back. *)
LEMMA SetPrevEffect ==
    ASSUME NEW h \in Heaps, NEW p \in Cells, NEW v \in Pointers, h.cell[p].live
    PROVE  /\ SetPrev(h, p, v).bad = h.bad
           /\ \A c \in Cells : /\ SetPrev(h, p, v).cell[c].live = h.cell[c].live
                               /\ SetPrev(h, p, v).cell[c].data = h.cell[c].data
                               /\ SetPrev(h, p, v).cell[c].next = h.cell[c].next
                               /\ SetPrev(h, p, v).cell[c].prev = IF c = p THEN v ELSE h.cell[c].prev
BY DEF SetPrev, IsLive, Heaps, CellType

(* The first and the last element, and the elements, of a sequence. *)
LEMMA SeqFacts ==
    ASSUME NEW S, NEW s \in Seq(S)
    PROVE  /\ Len(s) \in Nat /\ DOMAIN s = 1..Len(s)
           /\ \A k \in 1..Len(s) : s[k] \in S
           /\ ToSet(s) = {s[k] : k \in 1..Len(s)}
           /\ s = <<>> <=> Len(s) = 0
           /\ s # <<>> => Last(s) = s[Len(s)]
BY DEF ToSet, Last

(* An element before a sequence. *)
LEMMA PrependFacts ==
    ASSUME NEW S, NEW e \in S, NEW s \in Seq(S)
    PROVE  /\ <<e>> \o s \in Seq(S)
           /\ Len(<<e>> \o s) = Len(s) + 1
           /\ (<<e>> \o s)[1] = e
           /\ \A k \in 1..Len(s) : (<<e>> \o s)[k + 1] = s[k]
BY SeqFacts

(* A sequence is given by its length and its elements. *)
LEMMA SeqSame ==
    ASSUME NEW S, NEW s \in Seq(S), NEW t \in Seq(S), Len(s) = Len(t),
           \A k \in 1..Len(s) : s[k] = t[k]
    PROVE  s = t
<1>1. s = [k \in 1..Len(s) |-> s[k]] /\ t = [k \in 1..Len(t) |-> t[k]]
  BY SeqFacts
<1> QED BY <1>1

(* The number of steps is a number. *)
LEMMA BoundNat == Bound \in Nat \ {0} /\ Cardinality(Cells) \in Nat
BY CellsAssumption, FS_CardinalityType DEF Bound

(* The loop along a list exists. *)
LEMMA ChainSteps ==
    ASSUME NEW h \in Heaps
    PROVE  \E from \in [0..Bound -> [Pointers -> Seq(Cells)]] :
              /\ \A p \in Pointers : Chain(h, p) = from[Bound][p]
              /\ \A q \in Pointers : from[0][q] = <<>>
              /\ \A n \in 1..Bound, q \in Pointers :
                    from[n][q] = IF q \in Cells THEN <<q>> \o from[n - 1][next(h, q)] ELSE <<>>
<1> DEFINE Turn(f) == [q \in Pointers |-> IF q \in Cells THEN <<q>> \o f[next(h, q)] ELSE <<>>]
           Is(g) == g = [n \in 0..Bound |-> 
                           [q \in Pointers |-> IF n = 0 \/ q \notin Cells THEN <<>> ELSE <<q>> \o g[n - 1][next(h, q)]]]
           from == CHOOSE g : Is(g)
           R == [Pointers -> Seq(Cells)]
           b == [q \in Pointers |-> <<>>]
           step == [x \in (1..Bound) \X R |-> Turn(x[2])]
<1>1. \A p : Chain(h, p) = from[Bound][p]
  BY DEF Chain
<1>2. b \in R
  OBVIOUS
<1>3. ASSUME NEW f \in R PROVE Turn(f) \in R
  <2>1. ASSUME NEW q \in Pointers PROVE next(h, q) \in Pointers
    BY ReadType
  <2>2. ASSUME NEW q \in Pointers, q \in Cells PROVE <<q>> \o f[next(h, q)] \in Seq(Cells)
    <3>1. f[next(h, q)] \in Seq(Cells)
      BY <2>1
    <3> QED BY <2>2, <3>1, PrependFacts
  <2>3. ASSUME NEW q \in Pointers PROVE (IF q \in Cells THEN <<q>> \o f[next(h, q)] ELSE <<>>) \in Seq(Cells)
    BY <2>2
  <2> QED BY <2>3
<1>4. step \in [(1..Bound) \X R -> R]
  <2> HIDE DEF Turn, R
  <2> QED BY <1>3
<1>5. PICK g : IsRun(g, Bound, R, b, step)
  <2>1. Bound \in Nat
    BY BoundNat
  <2> HIDE DEF R, b, step
  <2> QED BY <1>2, <1>4, <2>1, RunExists
<1> USE DEF IsRun
<1>6. ASSUME NEW n \in 1..Bound PROVE n # 0 /\ n - 1 \in 0..Bound /\ g[n - 1] \in R /\ g[n] = Turn(g[n - 1])
  <2>1. n # 0 /\ n - 1 \in 0..Bound
    BY BoundNat
  <2>2. g[n - 1] \in R
    BY <2>1, <1>5
  <2> HIDE DEF R, Turn
  <2>3. <<n, g[n - 1]>> \in (1..Bound) \X R
    BY <2>2
  <2> QED BY <1>5, <2>1, <2>2, <2>3
<1>7. Is(g)
  <2>1. ASSUME NEW n \in 0..Bound
        PROVE  g[n] = [q \in Pointers |-> IF n = 0 \/ q \notin Cells THEN <<>> ELSE <<q>> \o g[n - 1][next(h, q)]]
    <3>1. CASE n = 0
      BY <1>5, <3>1
    <3>2. CASE n # 0
      <4>1. n \in 1..Bound
        BY <3>2, BoundNat
      <4>2. g[n] = Turn(g[n - 1])
        BY <1>6, <4>1
      <4>3. Turn(g[n - 1]) = [q \in Pointers |-> IF n = 0 \/ q \notin Cells THEN <<>> ELSE <<q>> \o g[n - 1][next(h, q)]]
        BY <3>2
      <4> QED BY <4>2, <4>3
    <3> QED BY <3>1, <3>2
  <2>2. g = [n \in 0..Bound |-> g[n]]
    BY <1>5
  <2> HIDE DEF R, Turn
  <2> QED BY <2>1, <2>2
<1>8. Is(from)
  <2> HIDE DEF Is
  <2> QED BY <1>7
<1> HIDE DEF from
<1>9. from[0] = b /\ \A n \in 1..Bound : from[n] = Turn(from[n - 1])
  <2>1. 0 \in 0..Bound /\ \A n \in 1..Bound : n \in 0..Bound /\ n # 0
    BY BoundNat
  <2> QED BY <1>8, <2>1
<1>10. \A n \in 0..Bound : from[n] \in R
  <2> DEFINE E == {n \in 0..Bound : from[n] \in R}
  <2> HIDE DEF R, Turn
  <2>1. 0 \in E
    BY <1>2, <1>9, BoundNat
  <2>2. ASSUME NEW n \in 1..Bound, n - 1 \in E PROVE n \in E
    BY <1>3, <1>9, <2>2, BoundNat
  <2>3. Bound \in Nat
    BY BoundNat
  <2>4. \A n \in 0..Bound : n \in E
    <3> HIDE DEF E
    <3> QED BY <2>1, <2>2, <2>3, UpTo
  <2> QED BY <2>4
<1>11. from \in [0..Bound -> R]
  <2> HIDE DEF R
  <2>1. from = [n \in 0..Bound |-> from[n]]
    BY <1>8
  <2> QED BY <1>10, <2>1
<1>12. \A q \in Pointers : from[0][q] = <<>>
  BY <1>9
<1>13. ASSUME NEW n \in 1..Bound, NEW q \in Pointers
       PROVE from[n][q] = IF q \in Cells THEN <<q>> \o from[n - 1][next(h, q)] ELSE <<>>
  <2>1. from[n] = Turn(from[n - 1])
    BY <1>9
  <2> QED BY <2>1
<1>14. \A p \in Pointers : Chain(h, p) = from[Bound][p]
  BY <1>1
<1> HIDE DEF Turn
<1> QED BY <1>11, <1>12, <1>13, <1>14

(* What a chain is, whatever the heap. *)
LEMMA ChainType ==
    ASSUME NEW h \in Heaps, NEW p \in Pointers
    PROVE  Chain(h, p) \in Seq(Cells)
<1>1. PICK from \in [0..Bound -> [Pointers -> Seq(Cells)]] : Chain(h, p) = from[Bound][p]
  BY ChainSteps
<1> QED BY <1>1, BoundNat

-----------------------------------------------------------------------------
(* Lists. *)

(* The cell at a position, and no cell where there is none. *)
At(s, k) == IF k \in 1..Len(s) THEN s[k] ELSE NULL

(* The part of a sequence that begins at a position. *)
Suffix(s, k) == [j \in 1..Len(s) + 1 - k |-> s[k + j - 1]]

(* No cell is on s twice. *)
Distinct(s) == \A j, k \in 1..Len(s) : s[j] = s[k] => j = k

(* s are the cells of a list from p on: each is allocated, points to the   *)
(* next one and is pointed back to by it; what the first one points back   *)
(* to is left open.                                                        *)
Path(h, p, s) ==
    /\ s \in Seq(Cells) /\ Distinct(s)
    /\ p = At(s, 1)
    /\ \A k \in 1..Len(s) : /\ h.cell[s[k]].live /\ h.cell[s[k]].data \in Irqs
                            /\ h.cell[s[k]].next = At(s, k + 1)
    /\ \A k \in 2..Len(s) : h.cell[s[k]].prev = At(s, k - 1)

(* And the first one points back to nothing. *)
IsList(h, p, s) == Path(h, p, s) /\ (s # <<>> => h.cell[s[1]].prev = NULL)

(* The irqs on these cells. *)
DataOn(h, s) == [k \in 1..Len(s) |-> h.cell[s[k]].data]

(* NULL and Junk are no cells. *)
LEMMA NoCells == NULL \notin Cells /\ Junk \notin Cells /\ NULL # Junk
BY CellsAssumption

(* A sequence without repetitions is as long as the set of its elements is *)
(* large.                                                                  *)
LEMMA DistinctLen ==
    ASSUME NEW S, IsFiniteSet(S), NEW s \in Seq(S), Distinct(s)
    PROVE  Len(s) <= Cardinality(S) /\ Cardinality(ToSet(s)) = Len(s)
<1>1. s \in [1..Len(s) -> S] /\ Len(s) \in Nat /\ ToSet(s) = {s[k] : k \in 1..Len(s)}
  BY SeqFacts
<1>2. s \in Injection(1..Len(s), S)
  BY <1>1 DEF Distinct, Injection, IsInjective
<1>3. IsFiniteSet(1..Len(s)) /\ Cardinality(1..Len(s)) = Len(s)
  <2>1. 1 \in Int /\ Len(s) \in Int /\ Len(s) >= 0
    BY <1>1
  <2>2. IsFiniteSet(1..Len(s)) /\ Cardinality(1..Len(s)) = IF 1 > Len(s) THEN 0 ELSE Len(s) - 1 + 1
    BY <2>1, FS_Interval
  <2> QED BY <2>1, <2>2
<1>4. Len(s) <= Cardinality(S)
  BY <1>2, <1>3, FS_Injection
<1>5. s \in Bijection(1..Len(s), ToSet(s))
  BY <1>1 DEF Distinct, Bijection, Injection, Surjection, IsInjective
<1>6. ExistsBijection(1..Len(s), ToSet(s))
  BY <1>5 DEF ExistsBijection
<1> QED BY <1>1, <1>4, <1>6, FS_CountingElements

(* A function on 1..n is a sequence. *)
LEMMA SeqOfFunction ==
    ASSUME NEW S, NEW n \in Nat, NEW f \in [1..n -> S]
    PROVE  f \in Seq(S) /\ Len(f) = n
OBVIOUS

(* The part of a sequence that begins at a position. *)
LEMMA SuffixFacts ==
    ASSUME NEW S, NEW s \in Seq(S), NEW i \in 1..Len(s) + 1
    PROVE  /\ Suffix(s, i) \in Seq(S) /\ Len(Suffix(s, i)) = Len(s) + 1 - i
           /\ \A j \in 1..Len(s) + 1 - i : Suffix(s, i)[j] = s[i + j - 1]
<1>1. Len(s) \in Nat /\ Len(s) + 1 - i \in Nat /\ \A j \in 1..Len(s) + 1 - i : i + j - 1 \in 1..Len(s)
  BY SeqFacts
<1>2. \A k \in 1..Len(s) : s[k] \in S
  BY SeqFacts
<1>3. Suffix(s, i) \in [1..Len(s) + 1 - i -> S]
  BY <1>1, <1>2 DEF Suffix
<1>4. Suffix(s, i) \in Seq(S) /\ Len(Suffix(s, i)) = Len(s) + 1 - i
  BY <1>1, <1>3, SeqOfFunction
<1> QED BY <1>4 DEF Suffix

(* The chain from a cell of a list is the rest of the list. *)
LEMMA ChainSuffix ==
    ASSUME NEW h \in Heaps, NEW p, NEW s, Path(h, p, s), NEW i \in 1..Len(s) + 1
    PROVE  At(s, i) \in Pointers /\ Chain(h, At(s, i)) = Suffix(s, i)
<1> DEFINE L == Len(s)
<1>1. s \in Seq(Cells) /\ L \in Nat /\ \A k \in 1..L : s[k] \in Cells
  BY SeqFacts DEF Path
<1>2. L <= Cardinality(Cells)
  BY <1>1, CellsAssumption, DistinctLen DEF Path
<1>3. PICK from \in [0..Bound -> [Pointers -> Seq(Cells)]] :
              /\ \A q \in Pointers : Chain(h, q) = from[Bound][q]
              /\ \A q \in Pointers : from[0][q] = <<>>
              /\ \A n \in 1..Bound, q \in Pointers :
                    from[n][q] = IF q \in Cells THEN <<q>> \o from[n - 1][next(h, q)] ELSE <<>>
  BY ChainSteps
<1> DEFINE S == {d \in 0..L : \A n \in 0..Bound : d <= n => from[n][At(s, L + 1 - d)] = Suffix(s, L + 1 - d)}
<1>4. \A k \in 1..L + 1 : At(s, k) \in Pointers
  BY <1>1 DEF At, Pointers
<1>5. 0 \in S
  <2>1. At(s, L + 1) = NULL /\ Suffix(s, L + 1) = <<>>
    BY <1>1 DEF At, Suffix
  <2>2. NULL \in Pointers /\ NULL \notin Cells
    BY NoCells DEF Pointers
  <2>3. ASSUME NEW n \in 0..Bound PROVE from[n][NULL] = <<>>
    <3>1. n = 0 \/ n \in 1..Bound
      BY BoundNat
    <3> QED BY <1>3, <2>2, <3>1
  <2>4. L + 1 - 0 = L + 1 /\ 0 \in 0..L
    BY <1>1
  <2> QED BY <2>1, <2>3, <2>4
<1>6. ASSUME NEW d \in 1..L, d - 1 \in S PROVE d \in S
  <2> DEFINE k == L + 1 - d
  <2>1. /\ k \in 1..L /\ k + 1 \in 1..L + 1 /\ L + 1 - (d - 1) = k + 1
        /\ d \in 0..L /\ d - 1 \in 0..L /\ d \in Nat \ {0}
    BY <1>1
  <2>2. At(s, k) = s[k] /\ s[k] \in Cells /\ s[k] \in Pointers
    BY <1>1, <2>1 DEF At, Pointers
  <2>3. next(h, s[k]) = At(s, k + 1)
    BY <2>1, <2>2, ReadType DEF Path
  <2>4. Suffix(s, k + 1) \in Seq(Cells) /\ Len(Suffix(s, k + 1)) = L - k
        /\ \A j \in 1..L - k : Suffix(s, k + 1)[j] = s[k + j]
    <3>1. \A j \in 1..L - k : k + 1 + j - 1 = k + j
      BY <1>1, <2>1
    <3>2. L + 1 - (k + 1) = L - k
      BY <1>1, <2>1
    <3> HIDE DEF k
    <3>3. /\ Suffix(s, k + 1) \in Seq(Cells) /\ Len(Suffix(s, k + 1)) = Len(s) + 1 - (k + 1)
          /\ \A j \in 1..Len(s) + 1 - (k + 1) : Suffix(s, k + 1)[j] = s[(k + 1) + j - 1]
      BY <1>1, <2>1, SuffixFacts, SMTT(30)
    <3> QED BY <3>1, <3>2, <3>3
  <2>5. Suffix(s, k) \in Seq(Cells) /\ Len(Suffix(s, k)) = L + 1 - k
        /\ \A j \in 1..L + 1 - k : Suffix(s, k)[j] = s[k + j - 1]
    <3>1. k \in 1..L + 1
      BY <1>1, <2>1
    <3> HIDE DEF k
    <3> QED BY <1>1, <3>1, SuffixFacts
  <2>6. <<s[k]>> \o Suffix(s, k + 1) = Suffix(s, k)
    <3> DEFINE t == <<s[k]>> \o Suffix(s, k + 1)
    <3>1. /\ t \in Seq(Cells) /\ Len(t) = L - k + 1 /\ t[1] = s[k]
          /\ \A j \in 1..L - k : t[j + 1] = s[k + j]
      BY <2>2, <2>4, PrependFacts
    <3>2. L - k + 1 = L + 1 - k /\ k \in Int /\ L \in Nat
      BY <1>1, <2>1
    <3> HIDE DEF t, k, L
    <3>3. ASSUME NEW j \in 1..L + 1 - k PROVE t[j] = Suffix(s, k)[j]
      <4>1. CASE j = 1
        <5>1. k + j - 1 = k
          BY <3>2, <4>1
        <5> QED BY <2>5, <3>1, <4>1, <5>1
      <4>2. CASE j # 1
        <5>1. j - 1 \in 1..L - k /\ (j - 1) + 1 = j /\ k + (j - 1) = k + j - 1
          BY <3>2, <4>2
        <5> QED BY <2>5, <3>1, <5>1
      <4> QED BY <4>1, <4>2
    <3>4. t = Suffix(s, k)
      BY <2>5, <3>1, <3>2, <3>3, SeqSame
    <3> QED BY <3>4 DEF t
  <2>7. ASSUME NEW n \in 0..Bound, d <= n PROVE from[n][At(s, k)] = Suffix(s, k)
    <3>1. n \in 1..Bound /\ n - 1 \in 0..Bound /\ d - 1 <= n - 1
      BY <2>1, <2>7, BoundNat
    <3>2. from[n - 1][At(s, k + 1)] = Suffix(s, k + 1)
      BY <1>6, <2>1, <3>1
    <3> HIDE DEF k
    <3>3. from[n][s[k]] = <<s[k]>> \o from[n - 1][At(s, k + 1)]
      BY <1>3, <2>2, <2>3, <3>1
    <3> QED BY <2>2, <2>6, <3>2, <3>3
  <2> QED BY <2>1, <2>7
<1>7. \A d \in 0..L : d \in S
  <2> HIDE DEF S, L
  <2> QED BY <1>1, <1>5, <1>6, UpTo
<1>8. L + 1 - i \in 0..L /\ L + 1 - (L + 1 - i) = i /\ L + 1 - i <= Bound /\ Bound \in 0..Bound
  BY <1>1, <1>2, BoundNat DEF Bound
<1>9. from[Bound][At(s, i)] = Suffix(s, i)
  <2>1. L + 1 - i \in S
    BY <1>7, <1>8
  <2> QED BY <1>8, <2>1
<1> HIDE DEF S
<1> QED BY <1>3, <1>4, <1>9

(* The chain from its first cell is all of it. *)
LEMMA ChainIs ==
    ASSUME NEW h \in Heaps, NEW p, NEW s, Path(h, p, s)
    PROVE  /\ p \in Cells \cup {NULL} /\ p \in Pointers
           /\ p = NULL <=> s = <<>>
           /\ Chain(h, p) = s
<1>1. s \in Seq(Cells) /\ Len(s) \in Nat /\ (\A k \in 1..Len(s) : s[k] \in Cells) /\ (s = <<>> <=> Len(s) = 0)
  BY SeqFacts DEF Path
<1>2. p = At(s, 1) /\ 1 \in 1..Len(s) + 1
  BY <1>1 DEF Path
<1>3. Chain(h, p) = Suffix(s, 1)
  BY <1>2, ChainSuffix
<1>4. Suffix(s, 1) = s
  <2>1. Len(s) + 1 - 1 = Len(s) /\ \A j \in 1..Len(s) : 1 + j - 1 = j
    BY <1>1
  <2>2. Suffix(s, 1) = [j \in 1..Len(s) |-> s[j]]
    BY <2>1 DEF Suffix
  <2> QED BY <1>1, <2>2
<1>5. p \in Cells \cup {NULL} /\ (p = NULL <=> s = <<>>)
  BY <1>1, <1>2, NoCells DEF At
<1> QED BY <1>3, <1>4, <1>5 DEF Pointers

(* What Data reads from a list, and from a cell of it on. *)
LEMMA DataIs ==
    ASSUME NEW h \in Heaps, NEW p, NEW s, Path(h, p, s)
    PROVE  /\ Data(h, p) = DataOn(h, s) /\ DataOn(h, s) \in Seq(Irqs) /\ Len(DataOn(h, s)) = Len(s)
           /\ \A k \in 1..Len(s) : DataOn(h, s)[k] = h.cell[s[k]].data
           /\ \A i \in 1..Len(s) + 1 : Data(h, At(s, i)) = Suffix(DataOn(h, s), i)
<1>1. s \in Seq(Cells) /\ Len(s) \in Nat /\ DOMAIN s = 1..Len(s) /\ \A k \in 1..Len(s) : s[k] \in Cells
  BY SeqFacts DEF Path
<1>2. Chain(h, p) = s
  BY ChainIs
<1>3. Data(h, p) = DataOn(h, s)
  BY <1>1, <1>2 DEF Data, DataOn
<1>4. DataOn(h, s) \in [1..Len(s) -> Irqs]
  BY DEF DataOn, Path
<1>5. DataOn(h, s) \in Seq(Irqs) /\ Len(DataOn(h, s)) = Len(s)
  BY <1>1, <1>4, SeqOfFunction
<1>6. \A k \in 1..Len(s) : DataOn(h, s)[k] = h.cell[s[k]].data
  BY DEF DataOn
<1>7. ASSUME NEW i \in 1..Len(s) + 1 PROVE Data(h, At(s, i)) = Suffix(DataOn(h, s), i)
  <2> DEFINE c == Suffix(s, i)
  <2>1. Chain(h, At(s, i)) = c
    BY ChainSuffix
  <2>2. c \in Seq(Cells) /\ Len(c) = Len(s) + 1 - i /\ \A j \in 1..Len(s) + 1 - i : c[j] = s[i + j - 1]
    BY <1>1, SuffixFacts
  <2>3. DOMAIN c = 1..Len(s) + 1 - i
    BY <2>2, SeqFacts
  <2>4. \A j \in 1..Len(s) + 1 - i : i + j - 1 \in 1..Len(s)
    BY <1>1
  <2> HIDE DEF c
  <2>5. Data(h, At(s, i)) = [j \in 1..Len(s) + 1 - i |-> h.cell[c[j]].data]
    BY <2>1, <2>3 DEF Data
  <2>6. Suffix(DataOn(h, s), i) = [j \in 1..Len(s) + 1 - i |-> DataOn(h, s)[i + j - 1]]
    BY <1>5 DEF Suffix
  <2>7. \A j \in 1..Len(s) + 1 - i : DataOn(h, s)[i + j - 1] = h.cell[c[j]].data
    BY <1>6, <2>2, <2>4
  <2> QED BY <2>5, <2>6, <2>7
<1> QED BY <1>3, <1>5, <1>6, <1>7

(* A cell is as it was. *)
SameCell(g, h, d) ==
    /\ g.cell[d].live = h.cell[d].live /\ g.cell[d].data = h.cell[d].data
    /\ g.cell[d].next = h.cell[d].next /\ g.cell[d].prev = h.cell[d].prev

(* What it does to free an allocated cell. *)
LEMMA FreeEffect ==
    ASSUME NEW h \in Heaps, NEW p \in Cells, h.cell[p].live
    PROVE  /\ free(h, p).bad = h.bad /\ ~free(h, p).cell[p].live
           /\ \A d \in Cells \ {p} : SameCell(free(h, p), h, d)
<1>1. p # NULL
  BY NoCells
<1>2. free(h, p) = [h EXCEPT !.cell[p] = FreeCell]
  BY <1>1 DEF free, IsLive
<1>3. free(h, p).cell[p] = FreeCell
  BY <1>2 DEF Heaps
<1>4. free(h, p).bad = h.bad /\ \A d \in Cells \ {p} : free(h, p).cell[d] = h.cell[d]
  BY <1>2 DEF Heaps
<1> QED BY <1>3, <1>4 DEF FreeCell, SameCell

(* What an operation on a list does to the heap h: the list that had the   *)
(* cells s has the cells t in g, which were on it or free, and the other   *)
(* cells are as they were.                                                 *)
Changes(h, g, s, t) ==
    /\ g \in Heaps /\ g.bad = h.bad
    /\ \A d \in Cells : d \notin ToSet(s) /\ d \notin ToSet(t) => SameCell(g, h, d)
    /\ \A d \in Cells : d \in ToSet(t) => g.cell[d].live /\ (d \in ToSet(s) \/ ~h.cell[d].live)
    /\ \A d \in Cells : d \in ToSet(s) /\ d \notin ToSet(t) => ~g.cell[d].live

(* A list whose cells are as they were. *)
LEMMA ListFrame ==
    ASSUME NEW h, NEW g, NEW p, NEW s, IsList(h, p, s), \A k \in 1..Len(s) : SameCell(g, h, s[k])
    PROVE  IsList(g, p, s) /\ DataOn(g, s) = DataOn(h, s)
<1>1. s \in Seq(Cells) /\ Len(s) \in Nat /\ (s = <<>> <=> Len(s) = 0)
  BY SeqFacts DEF IsList, Path
<1>2. DataOn(g, s) = DataOn(h, s)
  BY DEF DataOn, SameCell
<1>3. \A k \in 2..Len(s) : k \in 1..Len(s)
  BY <1>1
<1>4. s # <<>> => 1 \in 1..Len(s)
  BY <1>1
<1> QED BY <1>2, <1>3, <1>4 DEF IsList, Path, SameCell

(* An element after a sequence. *)
LEMMA AppendFacts ==
    ASSUME NEW S, NEW s \in Seq(S), NEW e \in S
    PROVE  /\ Append(s, e) \in Seq(S) /\ Append(s, e) # <<>>
           /\ Len(Append(s, e)) = Len(s) + 1
           /\ \A k \in 1..Len(s) : Append(s, e)[k] = s[k]
           /\ Append(s, e)[Len(s) + 1] = e
           /\ ToSet(Append(s, e)) = ToSet(s) \cup {e}
<1> DEFINE t == Append(s, e)
<1>1. /\ t \in Seq(S) /\ t # <<>> /\ Len(t) = Len(s) + 1 /\ t[Len(s) + 1] = e
      /\ \A k \in 1..Len(s) : t[k] = s[k]
  OBVIOUS
<1>2. Len(s) \in Nat /\ ToSet(s) = {s[k] : k \in 1..Len(s)}
  BY SeqFacts
<1>3. ToSet(t) = {t[k] : k \in 1..Len(t)}
  BY <1>1, SeqFacts
<1> HIDE DEF t
<1>4. 1..Len(t) = 1..Len(s) \cup {Len(s) + 1}
  BY <1>1, <1>2
<1>5. ToSet(t) = ToSet(s) \cup {e}
  BY <1>1, <1>2, <1>3, <1>4
<1> QED BY <1>1, <1>5 DEF t

(* g_list_append: the new cell is behind the others. *)
LEMMA AppendCorrect ==
    ASSUME NEW h \in Heaps, NEW p, NEW s, IsList(h, p, s), NEW c \in Cells, ~h.cell[c].live, NEW i \in Irqs
    PROVE  LET r == g_list_append(h, p, c, i)
           IN  /\ IsList(r.heap, r.list, Append(s, c))
               /\ Changes(h, r.heap, s, Append(s, c))
               /\ DataOn(r.heap, Append(s, c)) = Append(DataOn(h, s), i)
<1> DEFINE r == g_list_append(h, p, c, i)
           n == Len(s)
           last == At(s, n)
           new == [h EXCEPT !.cell[c] = [live |-> TRUE, data |-> i, next |-> NULL, prev |-> last]]
           t == Append(s, c)
<1>1. /\ s \in Seq(Cells) /\ n \in Nat /\ (s = <<>> <=> n = 0) /\ Distinct(s) /\ ToSet(s) = {s[k] : k \in 1..n}
      /\ \A k \in 1..n : s[k] \in Cells /\ h.cell[s[k]].live /\ s[k] # c
  BY SeqFacts, SMTT(30) DEF IsList, Path
<1>2. /\ t \in Seq(Cells) /\ Len(t) = n + 1 /\ t[n + 1] = c /\ \A k \in 1..n : t[k] = s[k]
  BY <1>1, AppendFacts
<1>t. ToSet(t) = ToSet(s) \cup {c}
  BY <1>1, AppendFacts
<1>3. g_list_last(h, p) = last
  <2>1. Chain(h, p) = s /\ (p = NULL <=> s = <<>>)
    BY ChainIs DEF IsList
  <2>2. s # <<>> => Last(s) = s[n]
    BY <1>1, SeqFacts
  <2> QED BY <1>1, <2>1, <2>2 DEF g_list_last, At
<1>4. last \in Pointers /\ (n > 0 => last = s[n] /\ last \in Cells)
  BY <1>1 DEF At, Pointers
<1>5. /\ new \in Heaps /\ new.bad = h.bad
      /\ \A d \in Cells : new.cell[d] = IF d = c THEN [live |-> TRUE, data |-> i, next |-> NULL, prev |-> last] ELSE h.cell[d]
  <2>1. [live |-> TRUE, data |-> i, next |-> NULL, prev |-> last] \in CellType
    BY <1>4 DEF CellType, Pointers
  <2> HIDE DEF last
  <2> QED BY <2>1 DEF Heaps
<1>6. r = IF p = NULL THEN [heap |-> new, list |-> c] ELSE [heap |-> SetNext(new, last, c), list |-> p]
  BY <1>3 DEF g_list_append
<1>7. p = At(s, 1) /\ (p = NULL <=> n = 0) /\ r.list = At(t, 1)
  <2>1. p = At(s, 1) /\ (p = NULL <=> n = 0)
    BY <1>1, ChainIs DEF IsList, Path
  <2>2. CASE n = 0
    BY <1>2, <1>6, <2>1, <2>2 DEF At
  <2>3. CASE n > 0
    <3>1. 1 \in 1..n /\ 1 \in 1..(n + 1)
      BY <2>3
    <3> QED BY <1>1, <1>2, <1>6, <2>1, <2>3, <3>1 DEF At
  <2> QED BY <1>1, <2>1, <2>2, <2>3
<1> HIDE DEF new, r
<1>8. /\ r.heap \in Heaps /\ r.heap.bad = h.bad
      /\ \A d \in Cells : /\ (d = c => r.heap.cell[d].live) /\ (d # c => r.heap.cell[d].live = h.cell[d].live)
                          /\ r.heap.cell[d].data = IF d = c THEN i ELSE h.cell[d].data
                          /\ r.heap.cell[d].next = IF d = c THEN NULL ELSE IF d = last THEN c ELSE h.cell[d].next
                          /\ r.heap.cell[d].prev = IF d = c THEN last ELSE h.cell[d].prev
  <2>1. CASE n = 0
    <3>1. r.heap = new
      BY <1>6, <1>7, <2>1
    <3>2. last \notin Cells
      BY <2>1, NoCells DEF At
    <3> QED BY <1>5, <3>1, <3>2
  <2>2. CASE n > 0
    <3>1. r.heap = SetNext(new, last, c)
      BY <1>6, <1>7, <2>2
    <3>2. last \in Cells /\ last # c /\ c \in Pointers /\ new.cell[last].live
      <4>1. n \in 1..n
        BY <1>1, <2>2
      <4> QED BY <1>1, <1>4, <1>5, <2>2, <4>1 DEF Pointers
    <3> HIDE DEF last
    <3>3. r.heap \in Heaps
      BY <1>5, <3>1, <3>2, WriteType
    <3>4. /\ r.heap.bad = new.bad
          /\ \A d \in Cells : /\ r.heap.cell[d].live = new.cell[d].live
                              /\ r.heap.cell[d].data = new.cell[d].data
                              /\ r.heap.cell[d].next = IF d = last THEN c ELSE new.cell[d].next
                              /\ r.heap.cell[d].prev = new.cell[d].prev
      BY <1>5, <3>1, <3>2, SetNextEffect
    <3> QED BY <1>5, <3>2, <3>3, <3>4
  <2> QED BY <1>1, <2>1, <2>2
<1>9. Distinct(t)
  BY <1>1, <1>2 DEF Distinct
<1>10. ASSUME NEW k \in 1..n + 1 PROVE r.heap.cell[t[k]].live /\ r.heap.cell[t[k]].data \in Irqs
  <2>1. CASE k = n + 1
    BY <1>2, <1>8, <2>1
  <2>2. CASE k # n + 1
    <3>1. k \in 1..n
      BY <1>1, <2>2
    <3>2. s[k] \in Cells /\ s[k] # c /\ t[k] = s[k] /\ h.cell[s[k]].live /\ h.cell[s[k]].data \in Irqs
      BY <1>1, <1>2, <3>1 DEF IsList, Path
    <3> HIDE DEF t
    <3> QED BY <1>8, <3>2
  <2> QED BY <2>1, <2>2
<1>11. ASSUME NEW k \in 1..n + 1 PROVE r.heap.cell[t[k]].next = At(t, k + 1)
  <2>1. CASE k = n + 1
    BY <1>1, <1>2, <1>8, <2>1 DEF At
  <2>2. CASE k = n
    <3>1. k \in 1..n /\ k + 1 \in 1..n + 1
      BY <1>1, <2>2
    <3>2. t[k] = s[k] /\ s[k] \in Cells /\ s[k] # c /\ last = s[k] /\ At(t, k + 1) = c
      BY <1>1, <1>2, <2>2, <3>1 DEF At
    <3> HIDE DEF last
    <3> QED BY <1>8, <3>2
  <2>3. CASE k < n
    <3>1. k \in 1..n /\ k + 1 \in 1..n /\ n \in 1..n /\ k # n /\ k + 1 \in 1..n + 1
      BY <1>1, <2>3
    <3>2. t[k] = s[k] /\ s[k] \in Cells /\ s[k] # c /\ last = s[n] /\ At(t, k + 1) = s[k + 1] /\ At(s, k + 1) = s[k + 1]
      BY <1>1, <1>2, <3>1 DEF At
    <3>3. s[k] # s[n]
      BY <1>1, <3>1 DEF Distinct
    <3>4. h.cell[s[k]].next = s[k + 1]
      BY <3>1, <3>2 DEF IsList, Path
    <3> HIDE DEF last
    <3> QED BY <1>8, <3>2, <3>3, <3>4
  <2> QED BY <1>1, <2>1, <2>2, <2>3
<1>12. ASSUME NEW k \in 1..n + 1 PROVE r.heap.cell[t[k]].prev = At(t, k - 1)
  <2>1. CASE k = n + 1
    <3>1. At(t, n) = last
      BY <1>1, <1>2 DEF At
    <3>2. k - 1 = n /\ t[k] = c
      BY <1>1, <1>2, <2>1
    <3> HIDE DEF last
    <3> QED BY <1>8, <3>1, <3>2
  <2>2. CASE k # n + 1
    <3>1. k \in 1..n /\ (k # 1 => k \in 2..n /\ k - 1 \in 1..n /\ k - 1 \in 1..n + 1) /\ (k = 1 => k - 1 \notin 1..n + 1)
      BY <1>1, <2>2
    <3>2. t[k] = s[k] /\ s[k] \in Cells /\ s[k] # c /\ s # <<>>
      BY <1>1, <1>2, <3>1
    <3>3. r.heap.cell[t[k]].prev = h.cell[s[k]].prev
      BY <1>8, <3>2
    <3>4. CASE k = 1
      BY <1>2, <3>1, <3>2, <3>3, <3>4 DEF IsList, At
    <3>5. CASE k # 1
      <4>1. h.cell[s[k]].prev = At(s, k - 1)
        BY <3>1, <3>5 DEF IsList, Path
      <4> QED BY <1>2, <3>1, <3>3, <3>5, <4>1 DEF At
    <3> QED BY <3>4, <3>5
  <2> QED BY <2>1, <2>2
<1>13. IsList(r.heap, r.list, t)
  <2>1. \A k \in 2..Len(t) : k \in 1..n + 1
    BY <1>1, <1>2
  <2>2. r.heap.cell[t[1]].prev = NULL
    <3>1. 1 \in 1..n + 1 /\ At(t, 1 - 1) = NULL
      BY <1>1, <1>2 DEF At
    <3> QED BY <1>12, <3>1
  <2> HIDE DEF t
  <2> QED BY <1>2, <1>7, <1>9, <1>10, <1>11, <1>12, <2>1, <2>2 DEF IsList, Path
<1>14. Changes(h, r.heap, s, t)
  <2>1. last \in ToSet(s) \/ last \notin Cells
    <3>1. n > 0 => n \in 1..n
      BY <1>1
    <3> QED BY <1>1, <1>4, <3>1, NoCells DEF At
  <2> HIDE DEF last, t
  <2>2. \A d \in ToSet(s) : r.heap.cell[d].live
    BY <1>1, <1>8
  <2> QED BY <1>t, <1>8, <2>1, <2>2 DEF Changes, SameCell
<1>15. DataOn(r.heap, t) = Append(DataOn(h, s), i)
  <2>1. /\ DataOn(h, s) \in Seq(Irqs) /\ Len(DataOn(h, s)) = n
        /\ \A k \in 1..n : DataOn(h, s)[k] = h.cell[s[k]].data
    BY DataIs DEF IsList
  <2>2. /\ DataOn(r.heap, t) \in Seq(Irqs) /\ Len(DataOn(r.heap, t)) = n + 1
        /\ \A k \in 1..n + 1 : DataOn(r.heap, t)[k] = r.heap.cell[t[k]].data
    <3> HIDE DEF t
    <3> QED BY <1>2, <1>8, <1>13, DataIs DEF IsList
  <2> DEFINE u == Append(DataOn(h, s), i)
  <2>3. u \in Seq(Irqs) /\ Len(u) = n + 1 /\ u[n + 1] = i /\ \A k \in 1..n : u[k] = h.cell[s[k]].data
    BY <2>1, AppendFacts
  <2> HIDE DEF u, t
  <2>4. \A k \in 1..n + 1 : DataOn(r.heap, t)[k] = u[k]
    BY <1>1, <1>2, <1>8, <2>2, <2>3
  <2>5. DataOn(r.heap, t) = u
    BY <2>2, <2>3, <2>4, SeqSame
  <2> QED BY <2>5 DEF u
<1> QED BY <1>13, <1>14, <1>15 DEF r

(* One sequence after the other. *)
LEMMA ConcatFacts ==
    ASSUME NEW S, NEW s \in Seq(S), NEW t \in Seq(S)
    PROVE  /\ s \o t \in Seq(S) /\ Len(s \o t) = Len(s) + Len(t)
           /\ \A k \in 1..Len(s) : (s \o t)[k] = s[k]
           /\ \A k \in 1..Len(t) : (s \o t)[Len(s) + k] = t[k]
BY SeqFacts

(* A sequence without the element at a position. *)
LEMMA RemoveAtFacts ==
    ASSUME NEW S, NEW s \in Seq(S), NEW k \in 1..Len(s)
    PROVE  /\ RemoveAt(s, k) \in Seq(S) /\ Len(RemoveAt(s, k)) = Len(s) - 1
           /\ \A j \in 1..Len(s) - 1 : RemoveAt(s, k)[j] = IF j < k THEN s[j] ELSE s[j + 1]
           /\ \A j \in 0..Len(s) : At(RemoveAt(s, k), j) = IF j < k THEN At(s, j) ELSE At(s, j + 1)
<1> DEFINE n == Len(s)
           a == SubSeq(s, 1, k - 1)
           b == SubSeq(s, k + 1, n)
           t == RemoveAt(s, k)
<1>1. n \in Nat /\ k \in Int /\ 1 <= k /\ k <= n /\ \A j \in 1..n : s[j] \in S
  BY SeqFacts
<1>2. a \in Seq(S) /\ Len(a) = k - 1 /\ \A j \in 1..k - 1 : a[j] = s[j]
  BY <1>1
<1>3. b \in Seq(S) /\ Len(b) = n - k /\ \A j \in 1..n - k : b[j] = s[k + j]
  BY <1>1
<1>4. t = a \o b
  BY DEF RemoveAt
<1> HIDE DEF t, a, b, n
<1>5. t \in Seq(S) /\ Len(t) = n - 1
  <2>1. t \in Seq(S) /\ Len(t) = Len(a) + Len(b)
    BY <1>2, <1>3, <1>4, ConcatFacts
  <2> QED BY <1>1, <1>2, <1>3, <2>1
<1>6. ASSUME NEW j \in 1..n - 1 PROVE t[j] = IF j < k THEN s[j] ELSE s[j + 1]
  <2>1. CASE j < k
    <3>1. j \in 1..k - 1
      BY <1>1, <2>1
    <3>2. t[j] = a[j]
      BY <1>1, <1>2, <1>3, <1>4, <3>1
    <3> QED BY <1>2, <2>1, <3>1, <3>2
  <2>2. CASE ~(j < k)
    <3>1. j - (k - 1) \in 1..n - k /\ k + (j - (k - 1)) = j + 1 /\ j > k - 1
      BY <1>1, <2>2
    <3>2. t[j] = b[j - (k - 1)]
      BY <1>1, <1>2, <1>3, <1>4, <3>1
    <3> QED BY <1>3, <2>2, <3>1, <3>2
  <2> QED BY <2>1, <2>2
<1>7. ASSUME NEW j \in 0..n PROVE At(t, j) = IF j < k THEN At(s, j) ELSE At(s, j + 1)
  <2>1. CASE j = 0
    <3>1. j \notin 1..n - 1 /\ j \notin 1..n /\ j < k
      BY <1>1, <2>1
    <3> QED BY <1>5, <3>1 DEF At, n
  <2>2. CASE j = n
    <3>1. j \notin 1..n - 1 /\ j + 1 \notin 1..n /\ ~(j < k)
      BY <1>1, <2>2
    <3> QED BY <1>5, <3>1 DEF At, n
  <2>3. CASE j # 0 /\ j # n
    <3>1. j \in 1..n - 1 /\ j \in 1..n /\ j + 1 \in 1..n
      BY <1>1, <2>3
    <3> QED BY <1>5, <1>6, <3>1 DEF At, n
  <2> QED BY <2>1, <2>2, <2>3
<1> QED BY <1>5, <1>6, <1>7 DEF t, n

(* _g_list_remove_link and free, cell by cell. *)
LEMMA RemoveEffect ==
    ASSUME NEW h \in Heaps, NEW p, NEW s, IsList(h, p, s), NEW k \in 1..Len(s)
    PROVE  LET g == g_list_delete_link(h, p, s[k]).heap
           IN  /\ g \in Heaps /\ g.bad = h.bad /\ ~g.cell[s[k]].live
               /\ \A d \in Cells \ {s[k]} :
                     /\ g.cell[d].live = h.cell[d].live /\ g.cell[d].data = h.cell[d].data
                     /\ g.cell[d].next = IF d = At(s, k - 1) THEN At(s, k + 1) ELSE h.cell[d].next
                     /\ g.cell[d].prev = IF d = At(s, k + 1) THEN At(s, k - 1) ELSE h.cell[d].prev
<1> DEFINE n == Len(s)
           c == s[k]
           x == At(s, k - 1)
           y == At(s, k + 1)
           h1 == IF x # NULL THEN SetNext(h, x, y) ELSE h
           h2 == IF y # NULL THEN SetPrev(h1, y, x) ELSE h1
           h3 == SetNext(h2, c, NULL)
           h4 == SetPrev(h3, c, NULL)
           g == free(h4, c)
<1>1. /\ s \in Seq(Cells) /\ n \in Nat /\ Distinct(s)
      /\ \A j \in 1..n : s[j] \in Cells /\ h.cell[s[j]].live
  BY SeqFacts DEF IsList, Path
<1>2. c \in Cells /\ h.cell[c].live /\ c # NULL /\ NULL \in Pointers
  BY <1>1, NoCells DEF Pointers
<1>3. /\ x \in Pointers /\ (x # NULL => x \in Cells /\ h.cell[x].live /\ x # c)
      /\ y \in Pointers /\ (y # NULL => y \in Cells /\ h.cell[y].live /\ y # c)
  <2>1. k - 1 # k /\ k + 1 # k
    OBVIOUS
  <2> QED BY <1>1, <2>1, NoCells DEF At, Pointers, Distinct
<1>4. next(h, c) = y /\ prev(h, c) = x
  <2>1. next(h, c) = h.cell[c].next /\ prev(h, c) = h.cell[c].prev
    BY <1>2, ReadType
  <2>2. h.cell[c].next = y
    BY DEF IsList, Path
  <2>3. CASE k = 1
    <3>1. s # <<>> /\ x = NULL
      BY <1>1, <2>3 DEF At
    <3> QED BY <2>1, <2>2, <2>3, <3>1 DEF IsList
  <2>4. CASE k # 1
    <3>1. k \in 2..n
      BY <1>1, <2>4
    <3> QED BY <2>1, <2>2, <3>1 DEF IsList, Path
  <2> QED BY <2>3, <2>4
<1>5. g_list_delete_link(h, p, c).heap = g
  BY <1>4 DEF g_list_delete_link, _g_list_remove_link
<1> HIDE DEF c, x, y
<1>6. /\ h1 \in Heaps /\ h1.bad = h.bad
      /\ \A d \in Cells : /\ h1.cell[d].live = h.cell[d].live /\ h1.cell[d].data = h.cell[d].data
                          /\ h1.cell[d].next = IF d = x THEN y ELSE h.cell[d].next
                          /\ h1.cell[d].prev = h.cell[d].prev
  <2>1. CASE x = NULL
    BY <2>1, NoCells
  <2>2. CASE x # NULL
    <3>1. h1 = SetNext(h, x, y) /\ x \in Cells /\ h.cell[x].live
      BY <1>3, <2>2
    <3> HIDE DEF h1
    <3> QED BY <1>3, <3>1, WriteType, SetNextEffect
  <2> QED BY <2>1, <2>2
<1> HIDE DEF h1
<1>7. /\ h2 \in Heaps /\ h2.bad = h.bad
      /\ \A d \in Cells : /\ h2.cell[d].live = h.cell[d].live /\ h2.cell[d].data = h.cell[d].data
                          /\ h2.cell[d].next = IF d = x THEN y ELSE h.cell[d].next
                          /\ h2.cell[d].prev = IF d = y THEN x ELSE h.cell[d].prev
  <2>1. CASE y = NULL
    BY <1>6, <2>1, NoCells
  <2>2. CASE y # NULL
    <3>1. h2 = SetPrev(h1, y, x) /\ y \in Cells /\ h1.cell[y].live
      BY <1>3, <1>6, <2>2
    <3> HIDE DEF h2
    <3>2. /\ h2 \in Heaps /\ h2.bad = h1.bad
          /\ \A d \in Cells : /\ h2.cell[d].live = h1.cell[d].live /\ h2.cell[d].data = h1.cell[d].data
                              /\ h2.cell[d].next = h1.cell[d].next
                              /\ h2.cell[d].prev = IF d = y THEN x ELSE h1.cell[d].prev
      BY <1>3, <1>6, <3>1, WriteType, SetPrevEffect
    <3> QED BY <1>6, <3>2
  <2> QED BY <2>1, <2>2
<1> HIDE DEF h2
<1>8. /\ h3 \in Heaps /\ h3.bad = h.bad /\ h3.cell[c].live
      /\ \A d \in Cells \ {c} : SameCell(h3, h2, d)
  <2>1. h2.cell[c].live
    BY <1>2, <1>7
  <2> QED BY <1>2, <1>7, <2>1, WriteType, SetNextEffect DEF SameCell
<1> HIDE DEF h3
<1>9. /\ h4 \in Heaps /\ h4.bad = h.bad /\ h4.cell[c].live
      /\ \A d \in Cells \ {c} : SameCell(h4, h3, d)
  BY <1>2, <1>8, WriteType, SetPrevEffect DEF SameCell
<1> HIDE DEF h4
<1>10. /\ g \in Heaps /\ g.bad = h.bad /\ ~g.cell[c].live
       /\ \A d \in Cells \ {c} : SameCell(g, h4, d)
  BY <1>2, <1>9, WriteType, FreeEffect
<1> HIDE DEF g
<1>11. \A d \in Cells \ {c} : SameCell(g, h2, d)
  BY <1>8, <1>9, <1>10 DEF SameCell
<1>12. \A d \in Cells \ {c} :
                     /\ g.cell[d].live = h.cell[d].live /\ g.cell[d].data = h.cell[d].data
                     /\ g.cell[d].next = IF d = x THEN y ELSE h.cell[d].next
                     /\ g.cell[d].prev = IF d = y THEN x ELSE h.cell[d].prev
  BY <1>7, <1>11 DEF SameCell
<1> QED BY <1>5, <1>10, <1>12 DEF c, x, y

(* A cell is at one position only. *)
LEMMA AtIs ==
    ASSUME NEW s \in Seq(Cells), Distinct(s), NEW j \in 1..Len(s), NEW i \in Int
    PROVE  /\ s[j] = At(s, j) /\ s[j] \in Cells /\ s[j] # NULL
           /\ s[j] = At(s, i) <=> i = j
BY SeqFacts, NoCells DEF At, Distinct

(* g_list_delete_link: the list without the cell. *)
LEMMA DeleteCorrect ==
    ASSUME NEW h \in Heaps, NEW p, NEW s, IsList(h, p, s), NEW k \in 1..Len(s)
    PROVE  LET r == g_list_delete_link(h, p, s[k])
           IN  /\ IsList(r.heap, r.list, RemoveAt(s, k))
               /\ Changes(h, r.heap, s, RemoveAt(s, k))
               /\ DataOn(r.heap, RemoveAt(s, k)) = RemoveAt(DataOn(h, s), k)
               /\ ~r.heap.cell[s[k]].live
<1> DEFINE r == g_list_delete_link(h, p, s[k])
           g == r.heap
           n == Len(s)
           t == RemoveAt(s, k)
           pos(j) == IF j < k THEN j ELSE j + 1
<1>1. /\ s \in Seq(Cells) /\ n \in Nat /\ Distinct(s) /\ ToSet(s) = {s[j] : j \in 1..n}
      /\ \A j \in 1..n : s[j] \in Cells /\ h.cell[s[j]].live /\ h.cell[s[j]].data \in Irqs
  BY SeqFacts DEF IsList, Path
<1>2. /\ t \in Seq(Cells) /\ Len(t) = n - 1
      /\ \A j \in 1..n - 1 : t[j] = IF j < k THEN s[j] ELSE s[j + 1]
      /\ \A j \in 0..n : At(t, j) = IF j < k THEN At(s, j) ELSE At(s, j + 1)
  BY <1>1, RemoveAtFacts
<1>3. \A j \in 1..n - 1 : pos(j) \in 1..n /\ pos(j) # k /\ t[j] = s[pos(j)] /\ pos(j) \in Int
  BY <1>1, <1>2
<1>4. \A j, i \in 1..n - 1 : pos(j) = pos(i) => j = i
  BY <1>1
<1>5. Distinct(t)
  <2> HIDE DEF pos, t
  <2> QED BY <1>1, <1>2, <1>3, <1>4, SMTT(30) DEF Distinct
<1>6. /\ g \in Heaps /\ g.bad = h.bad /\ ~g.cell[s[k]].live
      /\ \A d \in Cells \ {s[k]} :
            /\ g.cell[d].live = h.cell[d].live /\ g.cell[d].data = h.cell[d].data
            /\ g.cell[d].next = IF d = At(s, k - 1) THEN At(s, k + 1) ELSE h.cell[d].next
            /\ g.cell[d].prev = IF d = At(s, k + 1) THEN At(s, k - 1) ELSE h.cell[d].prev
  BY RemoveEffect
<1>7. r.list = At(t, 1)
  <2>1. p = At(s, 1) /\ s[1] = p /\ 1 \in 1..n /\ p \in Cells
    BY <1>1 DEF IsList, Path, At
  <2>2. r.list = IF s[k] = p THEN next(h, p) ELSE p
    BY DEF g_list_delete_link, _g_list_remove_link
  <2>3. At(t, 1) = IF 1 < k THEN At(s, 1) ELSE At(s, 1 + 1)
    <3>1. 1 \in 0..n
      BY <2>1
    <3> HIDE DEF t
    <3> QED BY <1>2, <3>1
  <2>4. s[k] = p <=> k = 1
    BY <1>1, <2>1 DEF Distinct
  <2>5. next(h, p) = At(s, 1 + 1)
    BY <2>1, ReadType, SMTT(30) DEF IsList, Path
  <2> HIDE DEF t, r
  <2> QED BY <2>1, <2>2, <2>3, <2>4, <2>5
<1> HIDE DEF t, r
<1>8. ASSUME NEW j \in 1..n - 1
      PROVE  /\ t[j] \in Cells \ {s[k]} /\ g.cell[t[j]].live /\ g.cell[t[j]].data = h.cell[s[pos(j)]].data
             /\ h.cell[s[pos(j)]].data \in Irqs
             /\ g.cell[t[j]].next = IF s[pos(j)] = At(s, k - 1) THEN At(s, k + 1) ELSE h.cell[s[pos(j)]].next
             /\ g.cell[t[j]].prev = IF s[pos(j)] = At(s, k + 1) THEN At(s, k - 1) ELSE h.cell[s[pos(j)]].prev
  <2>1. pos(j) \in 1..n /\ pos(j) # k /\ t[j] = s[pos(j)]
    BY <1>3
  <2> HIDE DEF pos
  <2>2. s[pos(j)] # s[k]
    BY <1>1, <2>1 DEF Distinct
  <2> HIDE DEF g
  <2> QED BY <1>1, <1>6, <2>1, <2>2
<1>9. ASSUME NEW j \in 1..n - 1 PROVE g.cell[t[j]].next = At(t, j + 1)
  <2>1. pos(j) \in 1..n /\ pos(j) # k /\ pos(j) \in Int
    BY <1>3
  <2>2. s[pos(j)] = At(s, k - 1) <=> k - 1 = pos(j)
    <3>1. k - 1 \in Int
      OBVIOUS
    <3> HIDE DEF pos
    <3> QED BY <1>1, <2>1, <3>1, AtIs
  <2>3. h.cell[s[pos(j)]].next = At(s, pos(j) + 1)
    <3> HIDE DEF pos
    <3> QED BY <2>1 DEF IsList, Path
  <2>4. At(t, j + 1) = IF j + 1 < k THEN At(s, j + 1) ELSE At(s, j + 2)
    <3>1. j + 1 \in 0..n /\ (j + 1) + 1 = j + 2
      BY <1>1
    <3> QED BY <1>2, <3>1
  <2>5. CASE j + 1 < k
    <3>1. pos(j) = j /\ k - 1 # j
      BY <2>5
    <3> HIDE DEF pos, g
    <3> QED BY <1>8, <2>2, <2>3, <2>4, <2>5, <3>1
  <2>6. CASE j + 1 = k
    <3>1. pos(j) = j /\ k - 1 = j /\ k + 1 = j + 2 /\ ~(j + 1 < k)
      BY <2>6
    <3> HIDE DEF pos, g
    <3> QED BY <1>8, <2>2, <2>4, <3>1
  <2>7. CASE j + 1 > k
    <3>1. pos(j) = j + 1 /\ k - 1 # j + 1 /\ (j + 1) + 1 = j + 2 /\ ~(j + 1 < k)
      BY <2>7
    <3> HIDE DEF pos, g
    <3> QED BY <1>8, <2>2, <2>3, <2>4, <3>1
  <2> QED BY <2>5, <2>6, <2>7
<1>10. ASSUME NEW j \in 1..n - 1 PROVE g.cell[t[j]].prev = At(t, j - 1)
  <2>1. pos(j) \in 1..n /\ pos(j) # k /\ pos(j) \in Int
    BY <1>3
  <2>2. s[pos(j)] = At(s, k + 1) <=> k + 1 = pos(j)
    <3>1. k + 1 \in Int
      OBVIOUS
    <3> HIDE DEF pos
    <3> QED BY <1>1, <2>1, <3>1, AtIs
  <2>3. h.cell[s[pos(j)]].prev = At(s, pos(j) - 1)
    <3>1. CASE pos(j) = 1
      <4>1. s # <<>> /\ At(s, 1 - 1) = NULL
        BY <1>1, <2>1 DEF At
      <4> HIDE DEF pos
      <4> QED BY <3>1, <4>1 DEF IsList
    <3>2. CASE pos(j) # 1
      <4>1. pos(j) \in 2..n
        BY <2>1, <3>2
      <4> HIDE DEF pos
      <4> QED BY <4>1 DEF IsList, Path
    <3> QED BY <3>1, <3>2
  <2>4. At(t, j - 1) = IF j - 1 < k THEN At(s, j - 1) ELSE At(s, j)
    <3>1. j - 1 \in 0..n /\ (j - 1) + 1 = j
      BY <1>1
    <3> QED BY <1>2, <3>1
  <2>5. CASE j < k
    <3>1. pos(j) = j /\ k + 1 # j /\ j - 1 < k
      BY <2>5
    <3> HIDE DEF pos, g
    <3> QED BY <1>8, <2>2, <2>3, <2>4, <3>1
  <2>6. CASE j = k
    <3>1. pos(j) = j + 1 /\ k + 1 = j + 1 /\ k - 1 = j - 1 /\ j - 1 < k
      BY <2>6
    <3> HIDE DEF pos, g
    <3> QED BY <1>8, <2>2, <2>4, <3>1
  <2>7. CASE j > k
    <3>1. pos(j) = j + 1 /\ k + 1 # j + 1 /\ (j + 1) - 1 = j /\ ~(j - 1 < k)
      BY <2>7
    <3> HIDE DEF pos, g
    <3> QED BY <1>8, <2>2, <2>3, <2>4, <3>1
  <2> QED BY <2>5, <2>6, <2>7
<1>11. IsList(g, r.list, t)
  <2>1. \A j \in 2..Len(t) : j \in 1..n - 1
    BY <1>1, <1>2
  <2>2. t # <<>> => 1 \in 1..n - 1 /\ g.cell[t[1]].prev = NULL
    <3> SUFFICES ASSUME t # <<>> PROVE 1 \in 1..n - 1 /\ g.cell[t[1]].prev = NULL
      OBVIOUS
    <3>0. t = <<>> <=> Len(t) = 0
      BY <1>2, SeqFacts
    <3>1. 1 \in 1..n - 1
      <4>1. Len(t) = n - 1 /\ n \in Nat /\ k \in 1..n
        BY <1>1, <1>2
      <4>2. n - 1 # 0
        BY <3>0, <4>1
      <4> QED BY <4>1, <4>2
    <3>2. At(t, 1 - 1) = NULL
      BY <1>2 DEF At
    <3> QED BY <1>10, <3>1, <3>2
  <2>3. \A j \in 1..n - 1 : g.cell[t[j]].live /\ g.cell[t[j]].data \in Irqs
    BY <1>8
  <2> HIDE DEF g
  <2> QED BY <1>2, <1>5, <1>7, <1>9, <1>10, <2>1, <2>2, <2>3 DEF IsList, Path
<1>12. ToSet(t) = ToSet(s) \ {s[k]}
  <2>1. ToSet(t) = {t[j] : j \in 1..n - 1}
    BY <1>2, SeqFacts
  <2>2. ASSUME NEW j \in 1..n, j # k PROVE \E i \in 1..n - 1 : pos(i) = j
    <3> DEFINE i == IF j < k THEN j ELSE j - 1
    <3>1. i \in 1..n - 1 /\ pos(i) = j
      BY <1>1, <2>2
    <3> QED BY <3>1
  <2> HIDE DEF pos
  <2>3. \A j \in 1..n : s[j] = s[k] => j = k
    BY <1>1 DEF Distinct
  <2>4. ASSUME NEW d \in ToSet(t) PROVE d \in ToSet(s) \ {s[k]}
    <3>1. PICK j \in 1..n - 1 : d = t[j]
      BY <2>1
    <3>2. pos(j) \in 1..n /\ pos(j) # k /\ d = s[pos(j)]
      BY <1>3, <3>1
    <3> QED BY <1>1, <2>3, <3>2
  <2>5. ASSUME NEW d \in ToSet(s) \ {s[k]} PROVE d \in ToSet(t)
    <3>1. PICK j \in 1..n : d = s[j] /\ j # k
      BY <1>1
    <3>2. PICK i \in 1..n - 1 : pos(i) = j
      BY <2>2, <3>1
    <3>3. d = t[i]
      BY <1>3, <3>1, <3>2
    <3> QED BY <2>1, <3>3
  <2> QED BY <2>4, <2>5
<1>13. Changes(h, g, s, t)
  <2>1. \A i \in Int : At(s, i) \in Cells => At(s, i) \in ToSet(s)
    BY <1>1, NoCells DEF At
  <2>2. s[k] \in ToSet(s) /\ k - 1 \in Int /\ k + 1 \in Int
    BY <1>1
  <2>3. \A d \in ToSet(s) : h.cell[d].live
    BY <1>1
  <2>4. \A d \in Cells : d \notin ToSet(s) => SameCell(g, h, d)
    <3> HIDE DEF g
    <3> QED BY <1>6, <2>1, <2>2 DEF SameCell
  <2>5. \A d \in Cells : d \in ToSet(t) => d \in ToSet(s) /\ g.cell[d].live
    <3> HIDE DEF g
    <3> QED BY <1>6, <1>12, <2>3
  <2>6. \A d \in Cells : d \in ToSet(s) /\ d \notin ToSet(t) => ~g.cell[d].live
    <3> HIDE DEF g
    <3> QED BY <1>6, <1>12
  <2> HIDE DEF g
  <2> QED BY <1>6, <2>4, <2>5, <2>6 DEF Changes
<1>14. DataOn(g, t) = RemoveAt(DataOn(h, s), k)
  <2> DEFINE a == DataOn(h, s)
             b == DataOn(g, t)
             u == RemoveAt(a, k)
  <2>1. a \in Seq(Irqs) /\ Len(a) = n /\ \A j \in 1..n : a[j] = h.cell[s[j]].data
    BY DataIs DEF IsList
  <2>2. b \in Seq(Irqs) /\ Len(b) = n - 1 /\ \A j \in 1..n - 1 : b[j] = g.cell[t[j]].data
    BY <1>2, <1>6, <1>11, DataIs DEF IsList
  <2> HIDE DEF a, b
  <2>3. u \in Seq(Irqs) /\ Len(u) = n - 1 /\ \A j \in 1..n - 1 : u[j] = IF j < k THEN a[j] ELSE a[j + 1]
    BY <2>1, RemoveAtFacts
  <2>4. ASSUME NEW j \in 1..n - 1 PROVE b[j] = u[j]
    <3>1. u[j] = a[pos(j)]
      BY <2>3
    <3>2. pos(j) \in 1..n
      BY <1>3
    <3> HIDE DEF pos, u, g
    <3> QED BY <1>8, <2>1, <2>2, <3>1, <3>2
  <2> HIDE DEF u
  <2>5. b = u
    BY <2>2, <2>3, <2>4, SeqSame
  <2> QED BY <2>5 DEF a, b, u
<1> QED BY <1>6, <1>11, <1>13, <1>14 DEF r, t

(* g_list_free: none of its cells is allocated any more. *)
LEMMA FreeCorrect ==
    ASSUME NEW h \in Heaps, NEW p, NEW s, IsList(h, p, s)
    PROVE  Changes(h, g_list_free(h, p), s, <<>>)
<1> DEFINE N == Len(s)
           Is(g) == g = [n \in 0..N |-> IF n = 0 THEN h ELSE free(g[n - 1], s[n])]
           freed == CHOOSE g : Is(g)
           step == [x \in (1..N) \X Heaps |-> free(x[2], s[x[1]])]
<1>1. /\ s \in Seq(Cells) /\ N \in Nat /\ Distinct(s) /\ ToSet(s) = {s[j] : j \in 1..N}
      /\ \A j \in 1..N : s[j] \in Cells /\ h.cell[s[j]].live
  BY SeqFacts DEF IsList, Path
<1>2. Chain(h, p) = s
  BY ChainIs DEF IsList
<1>3. g_list_free(h, p) = freed[N]
  BY <1>2 DEF g_list_free
<1>4. step \in [(1..N) \X Heaps -> Heaps]
  <2>1. \A x \in (1..N) \X Heaps : free(x[2], s[x[1]]) \in Heaps
    BY WriteType, NoCells DEF Pointers
  <2> QED BY <2>1
<1>5. PICK g : IsRun(g, N, Heaps, h, step)
  <2> HIDE DEF step
  <2> QED BY <1>1, <1>4, RunExists
<1>6. Is(g)
  <2>1. ASSUME NEW n \in 0..N PROVE g[n] = IF n = 0 THEN h ELSE free(g[n - 1], s[n])
    <3>1. CASE n = 0
      BY <1>5, <3>1 DEF IsRun
    <3>2. CASE n # 0
      <4>1. n \in 1..N /\ n - 1 \in 0..N
        BY <1>1, <3>2
      <4>2. g[n] = step[<<n, g[n - 1]>>] /\ g[n - 1] \in Heaps
        BY <1>5, <4>1 DEF IsRun
      <4> QED BY <3>2, <4>1, <4>2
    <3> QED BY <3>1, <3>2
  <2>2. g = [n \in 0..N |-> g[n]]
    BY <1>5 DEF IsRun
  <2> QED BY <2>1, <2>2
<1>7. Is(freed)
  <2> HIDE DEF Is
  <2> QED BY <1>6
<1> HIDE DEF freed
<1>8. freed[0] = h /\ \A n \in 1..N : freed[n] = free(freed[n - 1], s[n])
  <2>1. 0 \in 0..N /\ \A n \in 1..N : n \in 0..N /\ n # 0
    BY <1>1
  <2> QED BY <1>7, <2>1
<1> DEFINE Good(g_, n) == /\ g_ \in Heaps /\ g_.bad = h.bad
                          /\ \A d \in Cells : (\A j \in 1..n : s[j] # d) => SameCell(g_, h, d)
                          /\ \A j \in 1..n : ~g_.cell[s[j]].live
           S == {n \in 0..N : Good(freed[n], n)}
<1>9. 0 \in S
  BY <1>1, <1>8 DEF SameCell
<1>10. ASSUME NEW n \in 1..N, n - 1 \in S PROVE n \in S
  <2> DEFINE f == freed[n - 1]
  <2>1. Good(f, n - 1) /\ freed[n] = free(f, s[n])
    BY <1>8, <1>10
  <2>2. s[n] \in Cells /\ f \in Heaps
    BY <1>1, <2>1
  <2>3. \A j \in 1..n - 1 : j \in 1..N /\ s[j] # s[n] /\ s[j] \in Cells
    BY <1>1 DEF Distinct
  <2>4. f.cell[s[n]].live
    <3>1. \A j \in 1..n - 1 : s[j] # s[n]
      BY <2>3
    <3>2. SameCell(f, h, s[n])
      <4> HIDE DEF f
      <4> QED BY <2>1, <2>2, <3>1
    <3> QED BY <1>1, <3>2 DEF SameCell
  <2> HIDE DEF f
  <2>5. /\ freed[n] \in Heaps /\ freed[n].bad = f.bad /\ ~freed[n].cell[s[n]].live
        /\ \A d \in Cells \ {s[n]} : SameCell(freed[n], f, d)
    <3> HIDE DEF Good
    <3>1. freed[n] = free(f, s[n])
      BY <2>1
    <3>2. free(f, s[n]) \in Heaps
      BY <2>2, WriteType DEF Pointers
    <3>3. /\ free(f, s[n]).bad = f.bad /\ ~free(f, s[n]).cell[s[n]].live
          /\ \A d \in Cells \ {s[n]} : SameCell(free(f, s[n]), f, d)
      BY <2>2, <2>4, FreeEffect
    <3> QED BY <3>1, <3>2, <3>3
  <2>6. 1..n = 1..(n - 1) \cup {n}
    OBVIOUS
  <2>7. ASSUME NEW d \in Cells, \A j \in 1..n : s[j] # d PROVE SameCell(freed[n], h, d)
    <3>1. SameCell(f, h, d) /\ d # s[n]
      BY <2>1, <2>6, <2>7
    <3> QED BY <2>5, <3>1 DEF SameCell
  <2>8. ASSUME NEW j \in 1..n PROVE ~freed[n].cell[s[j]].live
    <3>1. CASE j = n
      BY <2>5, <3>1
    <3>2. CASE j # n
      <4>1. j \in 1..n - 1
        BY <3>2
      <4>2. SameCell(freed[n], f, s[j]) /\ ~f.cell[s[j]].live
        BY <2>1, <2>3, <2>5, <4>1
      <4> QED BY <4>2 DEF SameCell
    <3> QED BY <3>1, <3>2
  <2>9. n \in 0..N /\ freed[n].bad = h.bad
    BY <2>1, <2>5
  <2> QED BY <2>5, <2>7, <2>8, <2>9
<1>11. \A n \in 0..N : n \in S
  <2> HIDE DEF S, N
  <2> QED BY <1>1, <1>9, <1>10, UpTo
<1>12. Good(freed[N], N)
  <2>1. N \in S
    BY <1>1, <1>11
  <2> QED BY <2>1
<1>13. ToSet(<<>>) = {}
  BY DEF ToSet
<1>14. \A d \in Cells : d \notin ToSet(s) => SameCell(freed[N], h, d)
  BY <1>1, <1>12
<1>15. \A d \in ToSet(s) : ~freed[N].cell[d].live
  BY <1>1, <1>12
<1> QED BY <1>3, <1>12, <1>13, <1>14, <1>15 DEF Changes

(* The empty list. *)
LEMMA EmptyList ==
    ASSUME NEW h
    PROVE  IsList(h, NULL, <<>>) /\ DataOn(h, <<>>) = <<>> /\ ToSet(<<>>) = {} /\ <<>> \in Seq(Cells)
<1>1. <<>> \in Seq(Cells) /\ Len(<<>>) = 0 /\ 1..0 = {} /\ 2..0 = {}
  OBVIOUS
<1>2. DataOn(h, <<>>) = <<>>
  BY <1>1 DEF DataOn
<1>3. ToSet(<<>>) = {}
  BY DEF ToSet
<1> QED BY <1>1, <1>2, <1>3 DEF IsList, Path, At, Distinct

-----------------------------------------------------------------------------
(* All the lists. *)

(* The heap h with the list heads hd holds lists with the cells cs: no two *)
(* have a cell in common, every allocated cell is on one, and no cell was  *)
(* used that is not allocated.                                             *)
Rep(h, hd, cs) ==
    /\ h \in Heaps /\ ~h.bad
    /\ hd \in [Lists -> Cells \cup {NULL}]
    /\ cs \in [Lists -> Seq(Cells)]
    /\ \A l \in Lists : IsList(h, hd[l], cs[l])
    /\ \A l, m \in Lists : l # m => ToSet(cs[l]) \cap ToSet(cs[m]) = {}
    /\ \A c \in Cells : h.cell[c].live => \E l \in Lists : c \in ToSet(cs[l])

(* The irqs on each. *)
Contents(h, cs) == [l \in Lists |-> DataOn(h, cs[l])]

(* An operation on one list leaves the others alone. *)
LEMMA RepChange ==
    ASSUME NEW h, NEW hd, NEW cs, Rep(h, hd, cs), NEW l \in Lists,
           NEW g, NEW p, NEW t, IsList(g, p, t), Changes(h, g, cs[l], t)
    PROVE  /\ Rep(g, [hd EXCEPT ![l] = p], [cs EXCEPT ![l] = t])
           /\ Contents(g, [cs EXCEPT ![l] = t]) = [Contents(h, cs) EXCEPT ![l] = DataOn(g, t)]
<1> DEFINE hd2 == [hd EXCEPT ![l] = p]
           cs2 == [cs EXCEPT ![l] = t]
<1>1. g \in Heaps /\ t \in Seq(Cells) /\ p \in Cells \cup {NULL}
  <2>1. g \in Heaps /\ t \in Seq(Cells)
    BY DEF Changes, IsList, Path
  <2> QED BY <2>1, ChainIs DEF IsList
<1>2. /\ hd2 \in [Lists -> Cells \cup {NULL}] /\ cs2 \in [Lists -> Seq(Cells)]
      /\ hd2[l] = p /\ cs2[l] = t /\ \A m \in Lists : m # l => hd2[m] = hd[m] /\ cs2[m] = cs[m]
  BY <1>1 DEF Rep
<1>3. ~g.bad
  BY DEF Rep, Changes
<1>4. \A m \in Lists : cs[m] \in Seq(Cells) /\ ToSet(cs[m]) = {cs[m][k] : k \in 1..Len(cs[m])}
                       /\ \A k \in 1..Len(cs[m]) : cs[m][k] \in Cells /\ h.cell[cs[m][k]].live
  <2> TAKE m \in Lists
  <2>1. cs[m] \in Seq(Cells)
    BY DEF Rep
  <2> QED BY <2>1, SeqFacts DEF Rep, IsList, Path
<1>t. ToSet(t) = {t[k] : k \in 1..Len(t)} /\ \A k \in 1..Len(t) : t[k] \in Cells
  BY <1>1, SeqFacts
<1>5. ASSUME NEW m \in Lists, m # l, NEW c \in ToSet(cs[m]) PROVE c \in Cells /\ c \notin ToSet(cs[l]) /\ c \notin ToSet(t)
  <2>1. c \in Cells /\ h.cell[c].live
    BY <1>4
  <2>2. c \notin ToSet(cs[l])
    BY <1>5 DEF Rep
  <2> QED BY <2>1, <2>2 DEF Changes
<1>6. ASSUME NEW m \in Lists, m # l PROVE IsList(g, hd2[m], cs2[m]) /\ DataOn(g, cs2[m]) = DataOn(h, cs[m])
  <2>1. hd2[m] = hd[m] /\ cs2[m] = cs[m] /\ IsList(h, hd[m], cs[m])
    BY <1>2, <1>6 DEF Rep
  <2>2. ASSUME NEW k \in 1..Len(cs[m]) PROVE SameCell(g, h, cs[m][k])
    <3>1. cs[m][k] \in ToSet(cs[m])
      <4>1. ToSet(cs[m]) = {cs[m][j] : j \in 1..Len(cs[m])}
        BY <1>4
      <4> QED BY <4>1
    <3>2. cs[m][k] \in Cells /\ cs[m][k] \notin ToSet(cs[l]) /\ cs[m][k] \notin ToSet(t)
      BY <1>5, <1>6, <3>1
    <3> QED BY <3>2 DEF Changes
  <2> HIDE DEF hd2, cs2
  <2> QED BY <2>1, <2>2, ListFrame
<1> HIDE DEF hd2, cs2
<1>7. \A m \in Lists : IsList(g, hd2[m], cs2[m])
  <2> TAKE m \in Lists
  <2> QED BY <1>2, <1>6
<1>8. \A m, k \in Lists : m # k => ToSet(cs2[m]) \cap ToSet(cs2[k]) = {}
  <2> SUFFICES ASSUME NEW m \in Lists, NEW k \in Lists, m # k PROVE ToSet(cs2[m]) \cap ToSet(cs2[k]) = {}
    OBVIOUS
  <2>1. CASE m = l
    BY <1>2, <1>5, <2>1
  <2>2. CASE k = l
    BY <1>2, <1>5, <2>2
  <2>3. CASE m # l /\ k # l
    BY <1>2, <2>3 DEF Rep
  <2> QED BY <2>1, <2>2, <2>3
<1>9. ASSUME NEW c \in Cells, g.cell[c].live PROVE \E m \in Lists : c \in ToSet(cs2[m])
  <2>1. CASE c \in ToSet(t)
    BY <1>2, <2>1
  <2>2. CASE c \notin ToSet(t)
    <3>1. c \notin ToSet(cs[l])
      BY <1>9, <2>2 DEF Changes
    <3>2. h.cell[c].live
      BY <1>9, <2>2, <3>1 DEF Changes, SameCell
    <3>3. PICK m \in Lists : c \in ToSet(cs[m])
      BY <3>2 DEF Rep
    <3>4. m # l
      BY <3>1, <3>3
    <3> QED BY <1>2, <3>3, <3>4
  <2> QED BY <2>1, <2>2
<1>10. Rep(g, hd2, cs2)
  BY <1>1, <1>2, <1>3, <1>7, <1>8, <1>9 DEF Rep
<1>11. Contents(g, cs2) = [Contents(h, cs) EXCEPT ![l] = DataOn(g, t)]
  BY <1>2, <1>6 DEF Contents
<1> QED BY <1>10, <1>11 DEF hd2, cs2

-----------------------------------------------------------------------------
(* Sorting. *)

(* Nothing but the pointers of the cells of S is changed. *)
Keeps(h, g, S) ==
    /\ g \in Heaps /\ g.bad = h.bad
    /\ \A d \in Cells : g.cell[d].live = h.cell[d].live /\ g.cell[d].data = h.cell[d].data
    /\ \A d \in Cells : d \notin S => g.cell[d].next = h.cell[d].next /\ g.cell[d].prev = h.cell[d].prev

Precedes(before, i, j) == before[<<i, j>>]

(* before is the order of a comparison that never calls two irqs equal. *)
StrictOrder(before) ==
    /\ \A i, j \in Irqs : i # j => Precedes(before, i, j) \/ Precedes(before, j, i)
    /\ \A i, j, k \in Irqs : Precedes(before, i, j) /\ Precedes(before, j, k) => Precedes(before, i, k)

(* The irqs on the cells s are in this order, or all come before those on  *)
(* the cells t.                                                            *)
Sorted(before, h, s) ==
    \A j, k \in 1..Len(s) : j < k => Precedes(before, h.cell[s[j]].data, h.cell[s[k]].data)
Ahead(before, h, s, t) ==
    \A j \in 1..Len(s), k \in 1..Len(t) : Precedes(before, h.cell[s[j]].data, h.cell[t[k]].data)

(* The cells of the result of a merge, of which the last points nowhere    *)
(* yet.                                                                    *)
Out(g, o) ==
    /\ o \in Seq(Cells) /\ Distinct(o)
    /\ \A k \in 1..Len(o) : g.cell[o[k]].live /\ g.cell[o[k]].data \in Irqs
    /\ \A k \in 1..Len(o) - 1 : g.cell[o[k]].next = o[k + 1]
    /\ \A k \in 1..Len(o) : g.cell[o[k]].prev = At(o, k - 1)

(* Halfway through a merge: o is done, x and y are left. *)
Merging(h, S, before, g, o, l, list, p, x, q, y) ==
    /\ Keeps(h, g, S)
    /\ Out(g, o) /\ l = At(o, Len(o)) /\ list = At(o, 1)
    /\ Path(g, p, x) /\ Path(g, q, y)
    /\ ToSet(o) \cap ToSet(x) = {} /\ ToSet(o) \cap ToSet(y) = {} /\ ToSet(x) \cap ToSet(y) = {}
    /\ S = ToSet(o) \cup ToSet(x) \cup ToSet(y)
    /\ Sorted(before, h, o) /\ Sorted(before, h, x) /\ Sorted(before, h, y)
    /\ Ahead(before, h, o, x) /\ Ahead(before, h, o, y)
    /\ x # <<>> \/ y # <<>>
    /\ o = <<>> => x # <<>> /\ y # <<>>

(* It is the same from either side. *)
LEMMA MergingBothWays ==
    ASSUME NEW h, NEW S, NEW before, NEW g, NEW o, NEW l, NEW list, NEW p, NEW x, NEW q, NEW y,
           Merging(h, S, before, g, o, l, list, p, x, q, y)
    PROVE  Merging(h, S, before, g, o, l, list, q, y, p, x)
BY Zenon DEF Merging

(* A path of which the cells are as they were. *)
LEMMA PathFrame ==
    ASSUME NEW h, NEW g, NEW p, NEW s, Path(h, p, s),
           \A k \in 1..Len(s) : /\ g.cell[s[k]].live = h.cell[s[k]].live /\ g.cell[s[k]].data = h.cell[s[k]].data
                                /\ g.cell[s[k]].next = h.cell[s[k]].next,
           \A k \in 2..Len(s) : g.cell[s[k]].prev = h.cell[s[k]].prev
    PROVE  Path(g, p, s)
<1>1. s \in Seq(Cells) /\ Distinct(s) /\ p = At(s, 1)
  BY DEF Path
<1>2. \A k \in 1..Len(s) : /\ g.cell[s[k]].live /\ g.cell[s[k]].data \in Irqs
                           /\ g.cell[s[k]].next = At(s, k + 1)
  BY DEF Path
<1>3. \A k \in 2..Len(s) : g.cell[s[k]].prev = At(s, k - 1)
  BY DEF Path
<1> QED BY <1>1, <1>2, <1>3 DEF Path

(* The path from the second cell on. *)
LEMMA PathRest ==
    ASSUME NEW g \in Heaps, NEW p, NEW x, Path(g, p, x), x # <<>>
    PROVE  /\ p = x[1] /\ p \in Cells /\ p # NULL /\ next(g, p) = At(x, 2) /\ 1 \in 1..Len(x)
           /\ Path(g, At(x, 2), Suffix(x, 2))
           /\ Len(Suffix(x, 2)) = Len(x) - 1 /\ \A k \in 1..Len(x) - 1 : Suffix(x, 2)[k] = x[k + 1]
           /\ ToSet(Suffix(x, 2)) = ToSet(x) \ {p} /\ p \in ToSet(x)
<1> DEFINE n == Len(x)
           t == Suffix(x, 2)
<1>1. x \in Seq(Cells) /\ n \in Nat /\ Distinct(x) /\ ToSet(x) = {x[k] : k \in 1..n} /\ n # 0
      /\ \A k \in 1..n : x[k] \in Cells
  BY SeqFacts DEF Path
<1>2. 1 \in 1..n /\ p = x[1] /\ p \in Cells /\ p # NULL
  <2>1. 1 \in 1..n
    BY <1>1
  <2> QED BY <1>1, <2>1, NoCells DEF Path, At
<1>3. next(g, p) = At(x, 2)
  <2>1. g.cell[x[1]].next = At(x, 1 + 1)
    BY <1>2 DEF Path
  <2> QED BY <1>2, <2>1, ReadType
<1>4. t \in Seq(Cells) /\ Len(t) = n - 1 /\ \A k \in 1..n - 1 : t[k] = x[k + 1]
  <2>1. 2 \in 1..n + 1 /\ n + 1 - 2 = n - 1 /\ \A k \in 1..n - 1 : 2 + k - 1 = k + 1
    BY <1>1
  <2>2. t \in Seq(Cells) /\ Len(t) = n + 1 - 2 /\ \A k \in 1..n + 1 - 2 : t[k] = x[2 + k - 1]
    BY <1>1, <2>1, SuffixFacts
  <2> QED BY <2>1, <2>2
<1> HIDE DEF t
<1>5. \A k \in 1..n - 1 : k + 1 \in 2..n /\ k + 1 \in 1..n /\ k + 1 # 1
  BY <1>1
<1>6. \A k \in Nat : At(t, k) = IF k = 0 THEN NULL ELSE At(x, k + 1)
  <2> TAKE k \in Nat
  <2>1. k \in 1..n - 1 <=> k # 0 /\ k + 1 \in 1..n
    BY <1>1
  <2>2. k = 0 => k \notin 1..n - 1
    BY <1>1
  <2> QED BY <1>4, <2>1, <2>2 DEF At
<1>7. Distinct(t)
  <2> SUFFICES ASSUME NEW j \in 1..n - 1, NEW k \in 1..n - 1, t[j] = t[k] PROVE j = k
    BY <1>4 DEF Distinct
  <2>1. x[j + 1] = x[k + 1] /\ j + 1 \in 1..n /\ k + 1 \in 1..n
    BY <1>4, <1>5
  <2>2. j + 1 = k + 1
    BY <1>1, <2>1 DEF Distinct
  <2> QED BY <2>2
<1>8. Path(g, At(x, 2), t)
  <2>1. At(x, 2) = At(t, 1)
    BY <1>6
  <2>2. ASSUME NEW k \in 1..n - 1
        PROVE  g.cell[t[k]].live /\ g.cell[t[k]].data \in Irqs /\ g.cell[t[k]].next = At(t, k + 1)
    <3>1. t[k] = x[k + 1] /\ k + 1 \in 1..n
      BY <1>4, <1>5
    <3>2. At(t, k + 1) = At(x, (k + 1) + 1)
      <4>1. k + 1 \in Nat /\ k + 1 # 0
        OBVIOUS
      <4> QED BY <1>6, <4>1
    <3>3. g.cell[x[k + 1]].next = At(x, (k + 1) + 1) /\ g.cell[x[k + 1]].live /\ g.cell[x[k + 1]].data \in Irqs
      BY <3>1 DEF Path
    <3> QED BY <3>1, <3>2, <3>3
  <2>3. ASSUME NEW k \in 2..n - 1 PROVE g.cell[t[k]].prev = At(t, k - 1)
    <3>1. t[k] = x[k + 1] /\ k + 1 \in 2..n
      BY <1>4, <1>5
    <3>2. At(t, k - 1) = At(x, k)
      <4>1. k - 1 \in Nat /\ k - 1 # 0 /\ (k - 1) + 1 = k
        OBVIOUS
      <4> QED BY <1>6, <4>1
    <3>3. g.cell[x[k + 1]].prev = At(x, (k + 1) - 1) /\ (k + 1) - 1 = k
      BY <3>1 DEF Path
    <3> QED BY <3>1, <3>2, <3>3
  <2> QED BY <1>4, <1>7, <2>1, <2>2, <2>3 DEF Path
<1>9. ToSet(t) = ToSet(x) \ {p}
  <2>1. ToSet(t) = {t[k] : k \in 1..n - 1}
    BY <1>4, SeqFacts
  <2>2. ASSUME NEW d \in ToSet(t) PROVE d \in ToSet(x) \ {p}
    <3>1. PICK k \in 1..n - 1 : d = x[k + 1]
      BY <1>4, <2>1
    <3> QED BY <1>1, <1>2, <1>5, <3>1 DEF Distinct
  <2>3. ASSUME NEW d \in ToSet(x) \ {p} PROVE d \in ToSet(t)
    <3>1. PICK k \in 1..n : d = x[k] /\ k # 1
      BY <1>1, <1>2
    <3>2. k - 1 \in 1..n - 1 /\ (k - 1) + 1 = k
      BY <1>1, <3>1
    <3>3. t[k - 1] = d
      BY <1>4, <3>1, <3>2
    <3> QED BY <2>1, <3>2, <3>3
  <2> QED BY <2>2, <2>3
<1> QED BY <1>1, <1>2, <1>3, <1>4, <1>8, <1>9 DEF t

(* Two writes: c comes behind l, if there is an l. *)
LEMMA LinkBehind ==
    ASSUME NEW g \in Heaps, NEW c \in Cells, g.cell[c].live,
           NEW l \in Pointers, l # NULL => l \in Cells /\ g.cell[l].live
    PROVE  LET f == SetPrev(IF l = NULL THEN g ELSE SetNext(g, l, c), c, l)
           IN  /\ f \in Heaps /\ f.bad = g.bad
               /\ \A d \in Cells : /\ f.cell[d].live = g.cell[d].live /\ f.cell[d].data = g.cell[d].data
                                   /\ f.cell[d].next = IF d = l THEN c ELSE g.cell[d].next
                                   /\ f.cell[d].prev = IF d = c THEN l ELSE g.cell[d].prev
<1> DEFINE e == IF l = NULL THEN g ELSE SetNext(g, l, c)
           f == SetPrev(e, c, l)
<1>1. /\ e \in Heaps /\ e.bad = g.bad
      /\ \A d \in Cells : /\ e.cell[d].live = g.cell[d].live /\ e.cell[d].data = g.cell[d].data
                          /\ e.cell[d].next = IF d = l THEN c ELSE g.cell[d].next
                          /\ e.cell[d].prev = g.cell[d].prev
  <2>1. CASE l = NULL
    BY <2>1, NoCells
  <2>2. CASE l # NULL
    <3>1. e = SetNext(g, l, c) /\ l \in Cells /\ g.cell[l].live /\ c \in Pointers
      BY <2>2 DEF Pointers
    <3> HIDE DEF e
    <3> QED BY <3>1, WriteType, SetNextEffect
  <2> QED BY <2>1, <2>2
<1> HIDE DEF e
<1>2. e.cell[c].live
  BY <1>1
<1>3. /\ f \in Heaps /\ f.bad = e.bad
      /\ \A d \in Cells : /\ f.cell[d].live = e.cell[d].live /\ f.cell[d].data = e.cell[d].data
                          /\ f.cell[d].next = e.cell[d].next
                          /\ f.cell[d].prev = IF d = c THEN l ELSE e.cell[d].prev
  BY <1>1, <1>2, WriteType, SetPrevEffect
<1> HIDE DEF f
<1>4. /\ f \in Heaps /\ f.bad = g.bad
      /\ \A d \in Cells : /\ f.cell[d].live = g.cell[d].live /\ f.cell[d].data = g.cell[d].data
                          /\ f.cell[d].next = IF d = l THEN c ELSE g.cell[d].next
                          /\ f.cell[d].prev = IF d = c THEN l ELSE g.cell[d].prev
  BY <1>1, <1>3
<1> QED BY <1>4 DEF e, f

(* What a merge works on. *)
Order(h, before, S) ==
    /\ StrictOrder(before)
    /\ \A d \in S : d \in Cells /\ h.cell[d].data \in Irqs
    /\ \A c, d \in S : h.cell[c].data = h.cell[d].data => c = d

(* One turn takes the first cell of the list whose irq comes first. *)
LEMMA MergeTake ==
    ASSUME NEW h \in Heaps, NEW S, NEW before, Order(h, before, S),
           NEW g, NEW o, NEW l, NEW list, NEW p, NEW x, NEW q, NEW y,
           Merging(h, S, before, g, o, l, list, p, x, q, y),
           x # <<>>, y # <<>>, Precedes(before, h.cell[p].data, h.cell[q].data)
    PROVE  Merging(h, S, before, SetPrev(IF l = NULL THEN g ELSE SetNext(g, l, p), p, l), Append(o, p), p,
                   IF l = NULL THEN p ELSE list, next(g, p), Suffix(x, 2), q, y)
<1> DEFINE f == SetPrev(IF l = NULL THEN g ELSE SetNext(g, l, p), p, l)
           n == Len(o)
           u == Append(o, p)
           t == Suffix(x, 2)
<1>1. /\ g \in Heaps /\ g.bad = h.bad /\ Path(g, p, x) /\ Path(g, q, y)
      /\ \A d \in Cells : g.cell[d].live = h.cell[d].live /\ g.cell[d].data = h.cell[d].data
      /\ \A d \in Cells : d \notin S => g.cell[d].next = h.cell[d].next /\ g.cell[d].prev = h.cell[d].prev
  BY DEF Merging, Keeps
<1>2. /\ p = x[1] /\ p \in Cells /\ p # NULL /\ next(g, p) = At(x, 2) /\ 1 \in 1..Len(x)
      /\ Path(g, At(x, 2), t) /\ p \in ToSet(x) /\ ToSet(t) = ToSet(x) \ {p}
      /\ Len(t) = Len(x) - 1 /\ \A k \in 1..Len(x) - 1 : t[k] = x[k + 1]
  BY <1>1, PathRest
<1>3. q = y[1] /\ q \in Cells /\ q \in ToSet(y) /\ 1 \in 1..Len(y)
  BY <1>1, PathRest
<1>4. /\ o \in Seq(Cells) /\ n \in Nat /\ Distinct(o) /\ ToSet(o) = {o[k] : k \in 1..n} /\ (o = <<>> <=> n = 0)
      /\ \A k \in 1..n : o[k] \in Cells /\ o[k] \in ToSet(o)
  BY SeqFacts DEF Merging, Out
<1>5. l = At(o, n) /\ list = At(o, 1) /\ l \in Pointers /\ (l # NULL => l \in Cells /\ g.cell[l].live /\ l \in ToSet(o))
      /\ (l = NULL <=> n = 0)
  <2>1. l = At(o, n) /\ list = At(o, 1)
    BY DEF Merging
  <2>2. n # 0 => n \in 1..n
    BY <1>4
  <2>3. \A k \in 1..n : g.cell[o[k]].live
    BY DEF Merging, Out
  <2> QED BY <1>4, <2>1, <2>2, <2>3, NoCells DEF At, Pointers
<1>6. x \in Seq(Cells) /\ ToSet(x) = {x[k] : k \in 1..Len(x)} /\ Len(x) \in Nat /\ y \in Seq(Cells) /\ ToSet(y) = {y[k] : k \in 1..Len(y)}
      /\ Len(y) \in Nat
  BY <1>1, SeqFacts DEF Path
<1>7. /\ p \notin ToSet(o) /\ p \notin ToSet(y) /\ ToSet(o) \cap ToSet(x) = {} /\ ToSet(o) \cap ToSet(y) = {}
      /\ ToSet(x) \cap ToSet(y) = {} /\ S = ToSet(o) \cup ToSet(x) \cup ToSet(y) /\ p \in S
  BY <1>2 DEF Merging
<1>8. /\ f \in Heaps /\ f.bad = g.bad
      /\ \A d \in Cells : /\ f.cell[d].live = g.cell[d].live /\ f.cell[d].data = g.cell[d].data
                          /\ f.cell[d].next = IF d = l THEN p ELSE g.cell[d].next
                          /\ f.cell[d].prev = IF d = p THEN l ELSE g.cell[d].prev
  <2>1. g.cell[p].live
    BY <1>1, <1>2 DEF Path
  <2> QED BY <1>1, <1>2, <1>5, <2>1, LinkBehind
<1>9. u \in Seq(Cells) /\ u # <<>> /\ Len(u) = n + 1 /\ u[n + 1] = p /\ (\A k \in 1..n : u[k] = o[k]) /\ ToSet(u) = ToSet(o) \cup {p}
  BY <1>2, <1>4, AppendFacts
<1> HIDE DEF f, u, t
<1>10. Keeps(h, f, S)
  <2>1. ASSUME NEW d \in Cells, d \notin S PROVE f.cell[d].next = h.cell[d].next /\ f.cell[d].prev = h.cell[d].prev
    <3>1. d # p /\ d # l
      BY <1>5, <1>7, <2>1, NoCells
    <3>2. f.cell[d].next = g.cell[d].next /\ f.cell[d].prev = g.cell[d].prev
      BY <1>8, <3>1
    <3> QED BY <1>1, <2>1, <3>2
  <2>2. ASSUME NEW d \in Cells PROVE f.cell[d].live = h.cell[d].live /\ f.cell[d].data = h.cell[d].data
    <3>1. f.cell[d].live = g.cell[d].live /\ f.cell[d].data = g.cell[d].data
      BY <1>8
    <3> QED BY <1>1, <3>1
  <2>3. f \in Heaps /\ f.bad = h.bad
    BY <1>1, <1>8
  <2> QED BY <2>1, <2>2, <2>3, Zenon DEF Keeps
<1>11. \A k \in 0..n : At(u, k) = At(o, k)
  <2> TAKE k \in 0..n
  <2>1. k \in 1..n => k \in 1..n + 1
    BY <1>4
  <2>2. k \notin 1..n => k \notin 1..n + 1
    BY <1>4
  <2> QED BY <1>9, <2>1, <2>2 DEF At
<1>12. Out(f, u)
  <2>1. Distinct(u)
    <3> SUFFICES ASSUME NEW j \in 1..n + 1, NEW k \in 1..n + 1, u[j] = u[k] PROVE j = k
      BY <1>9 DEF Distinct
    <3>1. \A i \in 1..n + 1 : i = n + 1 \/ i \in 1..n
      BY <1>4
    <3> QED BY <1>4, <1>7, <1>9, <3>1 DEF Distinct
  <2>2. ASSUME NEW k \in 1..n + 1 PROVE f.cell[u[k]].live /\ f.cell[u[k]].data \in Irqs
    <3>1. CASE k = n + 1
      <4>1. g.cell[x[1]].live /\ g.cell[x[1]].data \in Irqs
        BY <1>1, <1>2 DEF Path
      <4>2. u[k] = x[1] /\ u[k] \in Cells
        BY <1>2, <1>9, <3>1
      <4> QED BY <1>8, <4>1, <4>2
    <3>2. CASE k # n + 1
      <4>1. k \in 1..n
        BY <1>4, <3>2
      <4>2. g.cell[o[k]].live /\ g.cell[o[k]].data \in Irqs
        BY <4>1 DEF Merging, Out
      <4> QED BY <1>4, <1>8, <1>9, <4>1, <4>2
    <3> QED BY <3>1, <3>2
  <2>3. ASSUME NEW k \in 1..n PROVE f.cell[u[k]].next = u[k + 1]
    <3>1. u[k] = o[k] /\ o[k] \in Cells
      BY <1>4, <1>9
    <3>2. CASE k = n
      <4>1. l = o[k] /\ u[k + 1] = p
        BY <1>5, <1>9, <3>2 DEF At
      <4> QED BY <1>8, <3>1, <4>1
    <3>3. CASE k # n
      <4>1. k \in 1..n - 1 /\ k + 1 \in 1..n /\ n \in 1..n
        BY <1>4, <3>3
      <4>2. l = o[n] /\ o[k] # o[n]
        BY <1>4, <1>5, <3>3, <4>1 DEF At, Distinct
      <4>3. g.cell[o[k]].next = o[k + 1]
        BY <4>1 DEF Merging, Out
      <4> QED BY <1>8, <1>9, <3>1, <4>1, <4>2, <4>3
    <3> QED BY <3>2, <3>3
  <2>4. ASSUME NEW k \in 1..n + 1 PROVE f.cell[u[k]].prev = At(u, k - 1)
    <3>1. k - 1 \in 0..n
      BY <1>4
    <3>2. At(u, k - 1) = At(o, k - 1)
      BY <1>11, <3>1
    <3>3. CASE k = n + 1
      <4>1. k - 1 = n /\ u[k] = p
        BY <1>4, <1>9, <3>3
      <4> QED BY <1>2, <1>5, <1>8, <3>2, <4>1
    <3>4. CASE k # n + 1
      <4>1. k \in 1..n
        BY <1>4, <3>4
      <4>2. g.cell[o[k]].prev = At(o, k - 1)
        BY <4>1 DEF Merging, Out
      <4>3. o[k] # p /\ o[k] \in Cells
        BY <1>4, <1>7, <4>1
      <4> QED BY <1>8, <1>9, <3>2, <4>1, <4>2, <4>3
    <3> QED BY <3>3, <3>4
  <2>5. \A k \in 1..Len(u) - 1 : k \in 1..n
    BY <1>4, <1>9
  <2> QED BY <1>9, <2>1, <2>2, <2>3, <2>4, <2>5 DEF Out
<1>13. p = At(u, Len(u)) /\ (IF l = NULL THEN p ELSE list) = At(u, 1)
  <2>1. n + 1 \in 1..n + 1 /\ 1 \in 1..n + 1
    BY <1>4
  <2>2. p = At(u, Len(u)) /\ At(u, 1) = u[1]
    BY <1>9, <2>1 DEF At
  <2>3. CASE n = 0
    BY <1>5, <1>9, <2>2, <2>3
  <2>4. CASE n # 0
    <3>1. 1 \in 1..n
      BY <1>4, <2>4
    <3> QED BY <1>5, <1>9, <2>2, <2>4, <3>1 DEF At
  <2> QED BY <2>2, <2>3, <2>4
<1>14. Path(f, next(g, p), t)
  <2>1. t \in Seq(Cells) /\ ToSet(t) = {t[k] : k \in 1..Len(t)} /\ \A k \in 1..Len(t) : t[k] \in Cells
    BY <1>2, SeqFacts DEF Path
  <2>2. \A k \in 1..Len(t) : t[k] # l /\ t[k] # p
    <3> TAKE k \in 1..Len(t)
    <3>1. t[k] \in ToSet(t) /\ t[k] \in Cells
      BY <2>1
    <3> QED BY <1>2, <1>5, <1>7, <3>1, NoCells
  <2>3. \A k \in 2..Len(t) : k \in 1..Len(t)
    BY <2>1, SeqFacts
  <2> QED BY <1>2, <1>8, <2>1, <2>2, <2>3, PathFrame, SMTT(30)
<1>15. Path(f, q, y)
  <2>1. \A k \in 1..Len(y) : y[k] # l /\ y[k] # p /\ y[k] \in Cells
    <3> TAKE k \in 1..Len(y)
    <3>1. y[k] \in ToSet(y) /\ y[k] \in Cells
      BY <1>6, SeqFacts
    <3> QED BY <1>5, <1>7, <3>1, NoCells
  <2>2. \A k \in 2..Len(y) : k \in 1..Len(y)
    BY <1>6
  <2> QED BY <1>1, <1>8, <2>1, <2>2, PathFrame
<1>16. /\ ToSet(u) \cap ToSet(t) = {} /\ ToSet(u) \cap ToSet(y) = {} /\ ToSet(t) \cap ToSet(y) = {}
       /\ S = ToSet(u) \cup ToSet(t) \cup ToSet(y)
  BY <1>2, <1>7, <1>9
<1>17. \A k \in 1..Len(x) : h.cell[x[k]].data \in Irqs /\ x[k] \in Cells
  <2>1. \A k \in 1..Len(x) : x[k] \in S
    BY <1>6, <1>7
  <2> QED BY <2>1 DEF Order
<1>18. \A k \in 1..Len(y) : h.cell[y[k]].data \in Irqs /\ y[k] \in Cells
  <2>1. \A k \in 1..Len(y) : y[k] \in S
    BY <1>6, <1>7
  <2> QED BY <2>1 DEF Order
<1>19. \A k \in 1..n : Precedes(before, h.cell[o[k]].data, h.cell[p].data)
  <2>1. Ahead(before, h, o, x)
    BY DEF Merging
  <2> QED BY <1>2, <2>1 DEF Ahead
<1>20. Sorted(before, h, u)
  <2> SUFFICES ASSUME NEW j \in 1..n + 1, NEW k \in 1..n + 1, j < k
               PROVE  Precedes(before, h.cell[u[j]].data, h.cell[u[k]].data)
    BY <1>9 DEF Sorted
  <2>1. j \in 1..n /\ u[j] = o[j]
    BY <1>4, <1>9
  <2>2. CASE k = n + 1
    BY <1>9, <1>19, <2>1, <2>2
  <2>3. CASE k # n + 1
    <3>1. k \in 1..n
      <4>1. k \in 1..n + 1 /\ n \in Nat
        BY <1>4
      <4> HIDE DEF n
      <4> QED BY <2>3, <4>1
    <3>2. Sorted(before, h, o)
      BY DEF Merging
    <3> QED BY <1>9, <2>1, <3>1, <3>2 DEF Sorted
  <2> QED BY <2>2, <2>3
<1>21. \A k \in 1..Len(t) : t[k] = x[k + 1] /\ k + 1 \in 1..Len(x) /\ 1 < k + 1
  BY <1>2, <1>6
<1>22. Sorted(before, h, t)
  <2> SUFFICES ASSUME NEW j \in 1..Len(t), NEW k \in 1..Len(t), j < k
               PROVE  Precedes(before, h.cell[t[j]].data, h.cell[t[k]].data)
    BY DEF Sorted
  <2>1. t[j] = x[j + 1] /\ j + 1 \in 1..Len(x) /\ t[k] = x[k + 1] /\ k + 1 \in 1..Len(x)
    BY <1>21
  <2>2. j + 1 < k + 1
    BY <1>2, <1>6
  <2>3. Sorted(before, h, x)
    BY DEF Merging
  <2> QED BY <2>1, <2>2, <2>3 DEF Sorted
<1>23. Ahead(before, h, u, t)
  <2> SUFFICES ASSUME NEW j \in 1..n + 1, NEW k \in 1..Len(t)
               PROVE  Precedes(before, h.cell[u[j]].data, h.cell[t[k]].data)
    BY <1>9 DEF Ahead
  <2>1. t[k] = x[k + 1] /\ k + 1 \in 1..Len(x) /\ 1 < k + 1
    BY <1>21
  <2>2. CASE j = n + 1
    <3>1. Sorted(before, h, x)
      BY DEF Merging
    <3>2. Precedes(before, h.cell[x[1]].data, h.cell[x[k + 1]].data)
      BY <1>2, <2>1, <3>1 DEF Sorted
    <3> QED BY <1>2, <1>9, <2>1, <2>2, <3>2
  <2>3. CASE j # n + 1
    <3>1. j \in 1..n /\ u[j] = o[j]
      BY <1>4, <1>9, <2>3
    <3>2. Ahead(before, h, o, x)
      BY DEF Merging
    <3> QED BY <2>1, <3>1, <3>2 DEF Ahead
  <2> QED BY <2>2, <2>3
<1>24. Ahead(before, h, u, y)
  <2> SUFFICES ASSUME NEW j \in 1..n + 1, NEW k \in 1..Len(y)
               PROVE  Precedes(before, h.cell[u[j]].data, h.cell[y[k]].data)
    BY <1>9 DEF Ahead
  <2>1. CASE j = n + 1
    <3>1. u[j] = p
      BY <1>9, <2>1
    <3>2. CASE k = 1
      BY <1>3, <3>1, <3>2
    <3>3. CASE k # 1
      <4>1. 1 < k
        BY <1>6, <3>3
      <4>2. Sorted(before, h, y)
        BY DEF Merging
      <4>3. Precedes(before, h.cell[q].data, h.cell[y[k]].data)
        BY <1>3, <4>1, <4>2 DEF Sorted
      <4>4. h.cell[p].data \in Irqs /\ h.cell[q].data \in Irqs /\ h.cell[y[k]].data \in Irqs
        BY <1>2, <1>3, <1>17, <1>18
      <4>5. \A i1, i2, i3 \in Irqs : Precedes(before, i1, i2) /\ Precedes(before, i2, i3) => Precedes(before, i1, i3)
        BY DEF Order, StrictOrder
      <4> QED BY <3>1, <4>3, <4>4, <4>5
    <3> QED BY <3>2, <3>3
  <2>2. CASE j # n + 1
    <3>1. j \in 1..n /\ u[j] = o[j]
      BY <1>4, <1>9, <2>2
    <3>2. Ahead(before, h, o, y)
      BY DEF Merging
    <3> QED BY <3>1, <3>2 DEF Ahead
  <2> QED BY <2>1, <2>2
<1>25. Sorted(before, h, y) /\ y # <<>> /\ u # <<>>
  BY <1>9 DEF Merging
<1>26. Merging(h, S, before, f, u, p, IF l = NULL THEN p ELSE list, next(g, p), t, q, y)
  BY <1>10, <1>12, <1>13, <1>14, <1>15, <1>16, <1>20, <1>22, <1>23, <1>24, <1>25, Zenon DEF Merging
<1> QED BY <1>26 DEF f, u, t
(* The elements of a concatenation, and at which position they are. *)
LEMMA ConcatElements ==
    ASSUME NEW S, NEW s \in Seq(S), NEW t \in Seq(S)
    PROVE  /\ ToSet(s \o t) = ToSet(s) \cup ToSet(t)
           /\ \A k \in 1..Len(s \o t) : \/ k \in 1..Len(s) /\ (s \o t)[k] = s[k]
                                        \/ k - Len(s) \in 1..Len(t) /\ (s \o t)[k] = t[k - Len(s)]
<1> DEFINE w == s \o t
<1>1. /\ w \in Seq(S) /\ Len(w) = Len(s) + Len(t)
      /\ \A k \in 1..Len(s) : w[k] = s[k]
      /\ \A k \in 1..Len(t) : w[Len(s) + k] = t[k]
  BY ConcatFacts
<1>2. /\ Len(s) \in Nat /\ Len(t) \in Nat /\ ToSet(s) = {s[k] : k \in 1..Len(s)} /\ ToSet(t) = {t[k] : k \in 1..Len(t)}
      /\ ToSet(w) = {w[k] : k \in 1..Len(w)}
  BY <1>1, SeqFacts
<1> HIDE DEF w
<1>3. ASSUME NEW k \in 1..Len(w)
      PROVE \/ k \in 1..Len(s) /\ w[k] = s[k]
            \/ k - Len(s) \in 1..Len(t) /\ w[k] = t[k - Len(s)]
  <2>1. CASE k <= Len(s)
    BY <1>1, <1>2, <2>1
  <2>2. CASE k > Len(s)
    <3>1. k - Len(s) \in 1..Len(t) /\ Len(s) + (k - Len(s)) = k
      BY <1>1, <1>2, <2>2
    <3>2. w[Len(s) + (k - Len(s))] = t[k - Len(s)]
      BY <1>1, <3>1
    <3> QED BY <3>1, <3>2
  <2> QED BY <1>1, <1>2, <2>1, <2>2
<1>4. ASSUME NEW d \in ToSet(w) PROVE d \in ToSet(s) \cup ToSet(t)
  <2>1. PICK k \in 1..Len(w) : d = w[k]
    BY <1>2
  <2> QED BY <1>2, <1>3, <2>1
<1>5. ASSUME NEW d \in ToSet(s) \cup ToSet(t) PROVE d \in ToSet(w)
  <2>1. CASE d \in ToSet(s)
    <3>1. PICK k \in 1..Len(s) : d = s[k]
      BY <1>2, <2>1
    <3>2. k \in 1..Len(w)
      BY <1>1, <1>2
    <3> QED BY <1>1, <1>2, <3>1, <3>2
  <2>2. CASE d \in ToSet(t)
    <3>1. PICK k \in 1..Len(t) : d = t[k]
      BY <1>2, <2>2
    <3>2. Len(s) + k \in 1..Len(w)
      BY <1>1, <1>2
    <3> QED BY <1>1, <1>2, <3>1, <3>2
  <2> QED BY <2>1, <2>2
<1> QED BY <1>3, <1>4, <1>5 DEF w

(* What a sort promises. *)
Result(h, S, before, g, p, s) ==
    /\ IsList(g, p, s) /\ ToSet(s) = S /\ Keeps(h, g, S) /\ Sorted(before, h, s)

(* When one list has run out, the rest of the other is put at the end. *)
LEMMA MergeEnd ==
    ASSUME NEW h \in Heaps, NEW S, NEW before,
           NEW g, NEW o, NEW l, NEW list, NEW p, NEW x, NEW q, NEW y,
           Merging(h, S, before, g, o, l, list, p, x, q, y), y = <<>>
    PROVE  /\ Result(h, S, before, SetPrev(SetNext(g, l, p), p, l), list, o \o x)
           /\ p # NULL /\ q = NULL
<1> DEFINE f == SetPrev(SetNext(g, l, p), p, l)
           n == Len(o)
           w == o \o x
<1>1. /\ g \in Heaps /\ g.bad = h.bad /\ Path(g, p, x) /\ Path(g, q, y)
      /\ \A d \in Cells : g.cell[d].live = h.cell[d].live /\ g.cell[d].data = h.cell[d].data
      /\ \A d \in Cells : d \notin S => g.cell[d].next = h.cell[d].next /\ g.cell[d].prev = h.cell[d].prev
  BY DEF Merging, Keeps
<1>2. x # <<>> /\ o # <<>> /\ S = ToSet(o) \cup ToSet(x) /\ ToSet(o) \cap ToSet(x) = {}
  <2>1. ToSet(<<>>) = {}
    BY EmptyList
  <2> QED BY <2>1 DEF Merging
<1>3. q = NULL
  BY <1>1, ChainIs
<1>4. p = x[1] /\ p \in Cells /\ p # NULL /\ p \in ToSet(x) /\ 1 \in 1..Len(x)
  BY <1>1, <1>2, PathRest
<1>5. /\ o \in Seq(Cells) /\ n \in Nat \ {0} /\ n \in 1..n /\ Distinct(o) /\ ToSet(o) = {o[k] : k \in 1..n}
      /\ \A k \in 1..n : o[k] \in Cells /\ o[k] \in ToSet(o)
  <2>1. /\ o \in Seq(Cells) /\ n \in Nat /\ Distinct(o) /\ ToSet(o) = {o[k] : k \in 1..n}
        /\ \A k \in 1..n : o[k] \in Cells /\ o[k] \in ToSet(o)
    BY SeqFacts DEF Merging, Out
  <2>2. n # 0
    BY <1>2, <2>1, SeqFacts
  <2> QED BY <2>1, <2>2
<1>6. /\ x \in Seq(Cells) /\ Len(x) \in Nat /\ Distinct(x) /\ ToSet(x) = {x[k] : k \in 1..Len(x)}
      /\ \A k \in 1..Len(x) : x[k] \in Cells /\ x[k] \in ToSet(x)
  BY <1>1, SeqFacts DEF Path
<1>7. /\ l = o[n] /\ list = o[1] /\ l \in Cells /\ l # NULL /\ l \in Pointers /\ l \in ToSet(o) /\ 1 \in 1..n
      /\ g.cell[l].live
  <2>1. l = At(o, n) /\ list = At(o, 1) /\ \A k \in 1..n : g.cell[o[k]].live
    BY DEF Merging, Out
  <2>2. 1 \in 1..n
    BY <1>5
  <2> QED BY <1>5, <2>1, <2>2, NoCells DEF At, Pointers
<1>8. /\ f \in Heaps /\ f.bad = g.bad
      /\ \A d \in Cells : /\ f.cell[d].live = g.cell[d].live /\ f.cell[d].data = g.cell[d].data
                          /\ f.cell[d].next = IF d = l THEN p ELSE g.cell[d].next
                          /\ f.cell[d].prev = IF d = p THEN l ELSE g.cell[d].prev
  <2>1. g.cell[p].live
    BY <1>1, <1>4 DEF Path
  <2>2. f = SetPrev(IF l = NULL THEN g ELSE SetNext(g, l, p), p, l)
    BY <1>7
  <2> HIDE DEF f
  <2> QED BY <1>1, <1>4, <1>7, <2>1, <2>2, LinkBehind
<1>9. /\ w \in Seq(Cells) /\ Len(w) = n + Len(x)
      /\ (\A k \in 1..n : w[k] = o[k]) /\ (\A k \in 1..Len(x) : w[n + k] = x[k])
      /\ ToSet(w) = S
      /\ \A k \in 1..Len(w) : \/ k \in 1..n /\ w[k] = o[k]
                              \/ k - n \in 1..Len(x) /\ w[k] = x[k - n]
  BY <1>2, <1>5, <1>6, ConcatFacts, ConcatElements
<1> HIDE DEF f, w
<1>10. Keeps(h, f, S)
  <2>1. ASSUME NEW d \in Cells, d \notin S PROVE f.cell[d].next = h.cell[d].next /\ f.cell[d].prev = h.cell[d].prev
    <3>1. d # p /\ d # l
      BY <1>2, <1>4, <1>7, <2>1
    <3>2. f.cell[d].next = g.cell[d].next /\ f.cell[d].prev = g.cell[d].prev
      BY <1>8, <3>1
    <3> QED BY <1>1, <2>1, <3>2
  <2>2. ASSUME NEW d \in Cells PROVE f.cell[d].live = h.cell[d].live /\ f.cell[d].data = h.cell[d].data
    <3>1. f.cell[d].live = g.cell[d].live /\ f.cell[d].data = g.cell[d].data
      BY <1>8
    <3> QED BY <1>1, <2>2, <3>1
  <2>3. f \in Heaps /\ f.bad = h.bad
    BY <1>1, <1>8
  <2> QED BY <2>1, <2>2, <2>3, Zenon DEF Keeps
<1>11. Distinct(w)
  <2> SUFFICES ASSUME NEW j \in 1..Len(w), NEW k \in 1..Len(w), w[j] = w[k] PROVE j = k
    BY DEF Distinct
  <2>1. CASE j \in 1..n /\ w[j] = o[j]
    <3>1. k \in 1..n /\ w[k] = o[k]
      <4>1. w[k] \in ToSet(o)
        BY <1>5, <2>1
      <4>2. ~(k - n \in 1..Len(x) /\ w[k] = x[k - n])
        BY <1>2, <1>6, <4>1
      <4> QED BY <1>9, <4>2
    <3> QED BY <1>5, <2>1, <3>1 DEF Distinct
  <2>2. CASE j - n \in 1..Len(x) /\ w[j] = x[j - n]
    <3>1. k - n \in 1..Len(x) /\ w[k] = x[k - n]
      <4>1. w[k] \in ToSet(x)
        BY <1>6, <2>2
      <4>2. ~(k \in 1..n /\ w[k] = o[k])
        BY <1>2, <1>5, <4>1
      <4> QED BY <1>9, <4>2
    <3>2. j - n = k - n
      BY <1>6, <2>2, <3>1 DEF Distinct
    <3> QED BY <1>5, <3>2
  <2> QED BY <1>9, <2>1, <2>2
<1>12. \A k \in 0..n : At(w, k) = At(o, k)
  <2> TAKE k \in 0..n
  <2>1. k \in 1..n => k \in 1..Len(w)
    BY <1>5, <1>6, <1>9
  <2>2. k \notin 1..n => k \notin 1..Len(w)
    BY <1>5, <1>6, <1>9
  <2> QED BY <1>9, <2>1, <2>2 DEF At
<1>13. \A k \in 1..Len(x) + 1 : At(w, n + k) = At(x, k)
  <2> TAKE k \in 1..Len(x) + 1
  <2>1. k \in 1..Len(x) <=> n + k \in 1..Len(w)
    BY <1>5, <1>6, <1>9
  <2> QED BY <1>9, <2>1 DEF At
<1>14. ASSUME NEW k \in 1..n
       PROVE  /\ f.cell[o[k]].live /\ f.cell[o[k]].data \in Irqs
              /\ f.cell[o[k]].next = At(w, k + 1) /\ f.cell[o[k]].prev = At(w, k - 1)
  <2>1. g.cell[o[k]].live /\ g.cell[o[k]].data \in Irqs /\ g.cell[o[k]].prev = At(o, k - 1)
    BY DEF Merging, Out
  <2>2. o[k] \in Cells /\ o[k] # p
    BY <1>2, <1>4, <1>5
  <2>3. At(w, k - 1) = At(o, k - 1)
    <3>1. k - 1 \in 0..n
      BY <1>5
    <3> QED BY <1>12, <3>1
  <2>4. f.cell[o[k]].next = At(w, k + 1)
    <3>1. CASE k = n
      <4>1. At(w, n + 1) = At(x, 1) /\ At(x, 1) = p
        <5>1. 1 \in 1..Len(x) + 1
          BY <1>6
        <5> QED BY <1>4, <1>13, <5>1 DEF At
      <4> QED BY <1>7, <1>8, <2>2, <3>1, <4>1
    <3>2. CASE k # n
      <4>1. k \in 1..n - 1 /\ k + 1 \in 1..n /\ k + 1 \in 0..n
        BY <1>5, <3>2
      <4>2. o[k] # l
        BY <1>5, <1>7, <3>2 DEF Distinct
      <4>3. g.cell[o[k]].next = o[k + 1]
        BY <4>1 DEF Merging, Out
      <4>4. At(w, k + 1) = o[k + 1]
        <5>1. At(o, k + 1) = o[k + 1]
          BY <4>1 DEF At
        <5> QED BY <1>12, <4>1, <5>1
      <4> QED BY <1>8, <2>2, <4>2, <4>3, <4>4
    <3> QED BY <3>1, <3>2
  <2> QED BY <1>8, <2>1, <2>2, <2>3, <2>4
<1>15. ASSUME NEW k \in 1..Len(x)
       PROVE  /\ f.cell[x[k]].live /\ f.cell[x[k]].data \in Irqs
              /\ f.cell[x[k]].next = At(w, (n + k) + 1) /\ f.cell[x[k]].prev = At(w, (n + k) - 1)
  <2>1. g.cell[x[k]].live /\ g.cell[x[k]].data \in Irqs /\ g.cell[x[k]].next = At(x, k + 1)
    BY <1>1 DEF Path
  <2>2. x[k] \in Cells /\ x[k] # l
    BY <1>2, <1>6, <1>7
  <2>3. At(w, (n + k) + 1) = At(x, k + 1)
    <3>1. k + 1 \in 1..Len(x) + 1 /\ n + (k + 1) = (n + k) + 1
      BY <1>5, <1>6
    <3>2. At(w, n + (k + 1)) = At(x, k + 1)
      BY <1>13, <3>1
    <3> QED BY <3>1, <3>2
  <2>4. f.cell[x[k]].prev = At(w, (n + k) - 1)
    <3>1. CASE k = 1
      <4>1. (n + k) - 1 = n /\ n \in 0..n
        BY <1>5, <3>1
      <4>2. At(w, n) = At(o, n) /\ At(o, n) = l
        BY <1>5, <1>7, <1>12, <4>1 DEF At
      <4>3. x[k] = p
        BY <1>4, <3>1
      <4> QED BY <1>8, <2>2, <4>1, <4>2, <4>3
    <3>2. CASE k # 1
      <4>1. k \in 2..Len(x) /\ k - 1 \in 1..Len(x) + 1 /\ n + (k - 1) = (n + k) - 1
        BY <1>5, <1>6, <3>2
      <4>2. x[k] # p
        BY <1>4, <1>6, <3>2 DEF Distinct
      <4>3. g.cell[x[k]].prev = At(x, k - 1)
        BY <1>1, <4>1 DEF Path
      <4>4. At(w, n + (k - 1)) = At(x, k - 1)
        BY <1>13, <4>1
      <4> QED BY <1>8, <2>2, <4>1, <4>2, <4>3, <4>4
    <3> QED BY <3>1, <3>2
  <2> QED BY <1>8, <2>1, <2>2, <2>3, <2>4
<1>16. ASSUME NEW k \in 1..Len(w)
       PROVE  /\ f.cell[w[k]].live /\ f.cell[w[k]].data \in Irqs
              /\ f.cell[w[k]].next = At(w, k + 1) /\ f.cell[w[k]].prev = At(w, k - 1)
  <2>1. CASE k \in 1..n /\ w[k] = o[k]
    BY <1>14, <2>1
  <2>2. CASE k - n \in 1..Len(x) /\ w[k] = x[k - n]
    <3>1. n + (k - n) = k
      BY <1>5
    <3> QED BY <1>15, <2>2, <3>1
  <2> QED BY <1>9, <2>1, <2>2
<1>17. IsList(f, list, w)
  <2>1. 1 \in 1..Len(w) /\ \A k \in 2..Len(w) : k \in 1..Len(w)
    BY <1>5, <1>6, <1>9
  <2>2. list = At(w, 1)
    BY <1>7, <1>9, <2>1 DEF At
  <2>3. f.cell[w[1]].prev = NULL
    <3>1. f.cell[w[1]].prev = At(w, 1 - 1) /\ 1 - 1 = 0 /\ 0 \notin 1..Len(w)
      BY <1>16, <2>1
    <3> QED BY <3>1 DEF At
  <2>4. Path(f, list, w)
    BY <1>9, <1>11, <1>16, <2>1, <2>2 DEF Path
  <2> QED BY <2>3, <2>4 DEF IsList
<1>18. Sorted(before, h, w)
  <2> SUFFICES ASSUME NEW j \in 1..Len(w), NEW k \in 1..Len(w), j < k
               PROVE  Precedes(before, h.cell[w[j]].data, h.cell[w[k]].data)
    BY DEF Sorted
  <2>1. CASE j \in 1..n /\ w[j] = o[j]
    <3>1. CASE k \in 1..n /\ w[k] = o[k]
      BY <2>1, <3>1 DEF Merging, Sorted
    <3>2. CASE k - n \in 1..Len(x) /\ w[k] = x[k - n]
      BY <2>1, <3>2 DEF Merging, Ahead
    <3> QED BY <1>9, <3>1, <3>2
  <2>2. CASE j - n \in 1..Len(x) /\ w[j] = x[j - n]
    <3>1. k - n \in 1..Len(x) /\ j - n < k - n
      BY <1>5, <1>6, <1>9, <2>2
    <3>2. n + (k - n) = k
      BY <1>5
    <3>3. w[k] = x[k - n]
      <4>1. w[n + (k - n)] = x[k - n]
        BY <1>9, <3>1
      <4> QED BY <3>2, <4>1
    <3> QED BY <2>2, <3>1, <3>3 DEF Merging, Sorted
  <2> QED BY <1>9, <2>1, <2>2
<1>19. Result(h, S, before, f, list, w)
  BY <1>9, <1>10, <1>17, <1>18 DEF Result
<1> QED BY <1>3, <1>4, <1>19 DEF f, w
(* The states of the loop. *)
MergeState == [heap : Heaps, l1 : Pointers, l2 : Pointers, l : Pointers, list : Pointers]

(* Every turn leads to such a state. *)
LEMMA MergeStepType ==
    ASSUME NEW before, NEW m \in MergeState
    PROVE  MergeStep(before, m) \in MergeState
<1> DEFINE c == IF before[<<Cell(m.heap, m.l1).data, Cell(m.heap, m.l2).data>>] THEN m.l1 ELSE m.l2
           g == IF m.l = NULL THEN m.heap ELSE SetNext(m.heap, m.l, c)
<1>1. m.heap \in Heaps /\ m.l1 \in Pointers /\ m.l2 \in Pointers /\ m.l \in Pointers /\ m.list \in Pointers
  BY DEF MergeState
<1>2. c \in Pointers
  BY <1>1
<1> HIDE DEF c
<1>3. g \in Heaps
  BY <1>1, <1>2, WriteType
<1> HIDE DEF g
<1>4. SetPrev(g, c, m.l) \in Heaps
  BY <1>1, <1>3, WriteType
<1>5. next(m.heap, c) \in Pointers
  BY <1>1, ReadType
<1>6. [heap |-> SetPrev(g, c, m.l),
       l1   |-> IF c = m.l1 THEN next(m.heap, c) ELSE m.l1,
       l2   |-> IF c = m.l2 THEN next(m.heap, c) ELSE m.l2,
       l    |-> c,
       list |-> IF m.l = NULL THEN c ELSE m.list] \in MergeState
  BY <1>1, <1>2, <1>4, <1>5 DEF MergeState
<1> QED BY <1>6 DEF MergeStep, c, g

(* A turn goes on with the merge. *)
LEMMA MergeStepCorrect ==
    ASSUME NEW h \in Heaps, NEW S, NEW before, Order(h, before, S),
           NEW m \in MergeState, NEW o, NEW x, NEW y,
           Merging(h, S, before, m.heap, o, m.l, m.list, m.l1, x, m.l2, y),
           x # <<>>, y # <<>>
    PROVE  LET z == MergeStep(before, m)
           IN  \E u, v, w : /\ Merging(h, S, before, z.heap, u, z.l, z.list, z.l1, v, z.l2, w)
                            /\ Len(u) = Len(o) + 1
<1> DEFINE p == m.l1
           q == m.l2
           g == m.heap
           z == MergeStep(before, m)
           Take(c) == SetPrev(IF m.l = NULL THEN g ELSE SetNext(g, m.l, c), c, m.l)
<1>1. /\ g \in Heaps /\ Path(g, p, x) /\ Path(g, q, y) /\ o \in Seq(Cells)
      /\ \A d \in Cells : g.cell[d].live = h.cell[d].live /\ g.cell[d].data = h.cell[d].data
  BY DEF Merging, Keeps, Out
<1>2. p \in Cells /\ p \in ToSet(x) /\ q \in Cells /\ q \in ToSet(y)
  BY <1>1, PathRest
<1>3. p # q /\ p \in S /\ q \in S
  BY <1>2 DEF Merging
<1>4. Cell(g, p).data = h.cell[p].data /\ Cell(g, q).data = h.cell[q].data
  BY <1>1, <1>2, ReadType
<1>5. Precedes(before, h.cell[p].data, h.cell[q].data) \/ Precedes(before, h.cell[q].data, h.cell[p].data)
  <2>1. h.cell[p].data \in Irqs /\ h.cell[q].data \in Irqs /\ h.cell[p].data # h.cell[q].data
    BY <1>3 DEF Order
  <2> QED BY <2>1 DEF Order, StrictOrder
<1>6. \A c \in Cells : Append(o, c) \in Seq(Cells) /\ Len(Append(o, c)) = Len(o) + 1
  BY <1>1, AppendFacts
<1>7. CASE Precedes(before, h.cell[p].data, h.cell[q].data)
  <2>1. Merging(h, S, before, Take(p), Append(o, p), p, IF m.l = NULL THEN p ELSE m.list,
                next(g, p), Suffix(x, 2), q, y)
    <3> HIDE DEF p, q, g
    <3>1. Merging(h, S, before, g, o, m.l, m.list, p, x, q, y)
      BY DEF p, q, g
    <3> QED BY <1>7, <3>1, MergeTake
  <2>2. before[<<Cell(g, p).data, Cell(g, q).data>>]
    <3> HIDE DEF p, q, g
    <3> QED BY <1>4, <1>7 DEF Precedes
  <2>3. z = [heap |-> Take(p), l1 |-> next(g, p), l2 |-> q, l |-> p, list |-> IF m.l = NULL THEN p ELSE m.list]
    BY <1>3, <2>2 DEF MergeStep
  <2>4. /\ z.heap = Take(p) /\ z.l1 = next(g, p) /\ z.l2 = q /\ z.l = p
        /\ z.list = IF m.l = NULL THEN p ELSE m.list
    <3> HIDE DEF z
    <3> QED BY <2>3
  <2> HIDE DEF z, Take, p, q, g
  <2>5. Merging(h, S, before, z.heap, Append(o, p), z.l, z.list, z.l1, Suffix(x, 2), z.l2, y)
    BY <2>1, <2>4
  <2>6. Len(Append(o, p)) = Len(o) + 1
    BY <1>2, <1>6
  <2>7. \E u, v, w : Merging(h, S, before, z.heap, u, z.l, z.list, z.l1, v, z.l2, w) /\ Len(u) = Len(o) + 1
    BY <2>5, <2>6
  <2> QED BY <2>7 DEF z
<1>8. CASE ~Precedes(before, h.cell[p].data, h.cell[q].data)
  <2>1. Merging(h, S, before, Take(q), Append(o, q), q, IF m.l = NULL THEN q ELSE m.list,
                next(g, q), Suffix(y, 2), p, x)
    <3> HIDE DEF p, q, g
    <3>1. Merging(h, S, before, g, o, m.l, m.list, q, y, p, x)
      BY MergingBothWays DEF p, q, g
    <3>2. Precedes(before, h.cell[q].data, h.cell[p].data)
      BY <1>5, <1>8
    <3> QED BY <3>1, <3>2, MergeTake
  <2>2. ~before[<<Cell(g, p).data, Cell(g, q).data>>]
    <3> HIDE DEF p, q, g
    <3> QED BY <1>4, <1>8 DEF Precedes
  <2>3. z = [heap |-> Take(q), l1 |-> p, l2 |-> next(g, q), l |-> q, list |-> IF m.l = NULL THEN q ELSE m.list]
    BY <1>3, <2>2 DEF MergeStep
  <2>4. /\ z.heap = Take(q) /\ z.l1 = p /\ z.l2 = next(g, q) /\ z.l = q
        /\ z.list = IF m.l = NULL THEN q ELSE m.list
    <3> HIDE DEF z
    <3> QED BY <2>3
  <2> HIDE DEF z, Take, p, q, g
  <2>5. Merging(h, S, before, z.heap, Append(o, q), z.l, z.list, z.l2, Suffix(y, 2), z.l1, x)
    BY <2>1, <2>4
  <2>6. Merging(h, S, before, z.heap, Append(o, q), z.l, z.list, z.l1, x, z.l2, Suffix(y, 2))
    BY <2>5, MergingBothWays
  <2>7. Len(Append(o, q)) = Len(o) + 1
    BY <1>2, <1>6
  <2>8. \E u, v, w : Merging(h, S, before, z.heap, u, z.l, z.list, z.l1, v, z.l2, w) /\ Len(u) = Len(o) + 1
    BY <2>6, <2>7
  <2> QED BY <2>8 DEF z
<1> QED BY <1>7, <1>8
(* The loop of a merge exists. *)
LEMMA MergedSteps ==
    ASSUME NEW h \in Heaps, NEW before, NEW p \in Pointers, NEW q \in Pointers
    PROVE  \E merged \in [0..Bound -> MergeState] :
              /\ Merged(h, p, q, before) = merged[Bound]
              /\ merged[0] = [heap |-> h, l1 |-> p, l2 |-> q, l |-> NULL, list |-> NULL]
              /\ \A n \in 1..Bound :
                    merged[n] = IF merged[n - 1].l1 # NULL /\ merged[n - 1].l2 # NULL
                                THEN MergeStep(before, merged[n - 1]) ELSE merged[n - 1]
<1> DEFINE b == [heap |-> h, l1 |-> p, l2 |-> q, l |-> NULL, list |-> NULL]
           Turn(m) == IF m.l1 # NULL /\ m.l2 # NULL THEN MergeStep(before, m) ELSE m
           Is(f) == f = [n \in 0..Bound |->
                           IF n = 0 THEN [heap |-> h, l1 |-> p, l2 |-> q, l |-> NULL, list |-> NULL]
                           ELSE LET m == f[n - 1]
                                IN  IF m.l1 # NULL /\ m.l2 # NULL THEN MergeStep(before, m) ELSE m]
           merged == CHOOSE f : Is(f)
           step == [a \in (1..Bound) \X MergeState |-> Turn(a[2])]
<1>1. Merged(h, p, q, before) = merged[Bound]
  BY DEF Merged
<1>2. b \in MergeState
  BY DEF MergeState, Pointers
<1>3. ASSUME NEW m \in MergeState PROVE Turn(m) \in MergeState
  BY MergeStepType
<1> HIDE DEF Turn
<1>4. step \in [(1..Bound) \X MergeState -> MergeState]
  BY <1>3
<1>5. PICK g : IsRun(g, Bound, MergeState, b, step)
  <2>1. Bound \in Nat
    BY BoundNat
  <2> HIDE DEF b, step
  <2> QED BY <1>2, <1>4, <2>1, RunExists
<1>6. ASSUME NEW n \in 1..Bound
      PROVE  n # 0 /\ n - 1 \in 0..Bound /\ n \in 0..Bound /\ g[n - 1] \in MergeState /\ g[n] = Turn(g[n - 1])
  <2>1. n # 0 /\ n - 1 \in 0..Bound /\ n \in 0..Bound
    BY BoundNat
  <2>2. g[n - 1] \in MergeState
    BY <2>1, <1>5 DEF IsRun
  <2>3. <<n, g[n - 1]>> \in (1..Bound) \X MergeState
    BY <2>2
  <2>4. g[n] = step[<<n, g[n - 1]>>]
    BY <1>5 DEF IsRun
  <2> QED BY <2>1, <2>2, <2>3, <2>4
<1>7. Is(g)
  <2>1. ASSUME NEW n \in 0..Bound PROVE g[n] = IF n = 0 THEN b ELSE Turn(g[n - 1])
    <3>1. CASE n = 0
      BY <1>5, <3>1 DEF IsRun
    <3>2. CASE n # 0
      <4>1. n \in 1..Bound
        BY <3>2, BoundNat
      <4> HIDE DEF b
      <4> QED BY <1>6, <3>2, <4>1
    <3> QED BY <3>1, <3>2
  <2>2. g = [n \in 0..Bound |-> g[n]]
    BY <1>5 DEF IsRun
  <2>3. g = [n \in 0..Bound |-> IF n = 0 THEN b ELSE Turn(g[n - 1])]
    <3> HIDE DEF b
    <3> QED BY <2>1, <2>2
  <2> QED BY <2>3 DEF Turn
<1>8. Is(merged)
  <2> HIDE DEF Is
  <2> QED BY <1>7
<1> HIDE DEF merged
<1>9. merged[0] = b /\ \A n \in 1..Bound : merged[n] = Turn(merged[n - 1])
  <2>1. 0 \in 0..Bound /\ \A n \in 1..Bound : n \in 0..Bound /\ n # 0
    BY BoundNat
  <2>2. merged = [n \in 0..Bound |-> IF n = 0 THEN b ELSE Turn(merged[n - 1])]
    BY <1>8 DEF Turn
  <2> HIDE DEF b, Is
  <2> QED BY <2>1, <2>2
<1> HIDE DEF Is
<1>10. \A n \in 0..Bound : merged[n] \in MergeState
  <2> DEFINE E == {n \in 0..Bound : merged[n] \in MergeState}
  <2>1. 0 \in E
    BY <1>2, <1>9, BoundNat
  <2>2. ASSUME NEW n \in 1..Bound, n - 1 \in E PROVE n \in E
    BY <1>3, <1>9, <2>2, BoundNat
  <2>3. Bound \in Nat
    BY BoundNat
  <2>4. \A n \in 0..Bound : n \in E
    <3> HIDE DEF E
    <3> QED BY <2>1, <2>2, <2>3, UpTo
  <2> QED BY <2>4
<1>11. merged \in [0..Bound -> MergeState]
  <2>1. merged = [n \in 0..Bound |-> merged[n]]
    BY <1>8 DEF Is
  <2> QED BY <1>10, <2>1
<1>12. ASSUME NEW n \in 1..Bound
       PROVE  merged[n] = IF merged[n - 1].l1 # NULL /\ merged[n - 1].l2 # NULL
                          THEN MergeStep(before, merged[n - 1]) ELSE merged[n - 1]
  BY <1>9 DEF Turn
<1>13. merged[0] = b
  BY <1>9
<1> QED BY <1>1, <1>11, <1>12, <1>13

(* Whatever the pointers, a merge gives a heap and a pointer. *)
LEMMA MergeType ==
    ASSUME NEW h \in Heaps, NEW before, NEW p \in Pointers, NEW q \in Pointers
    PROVE  g_list_sort_merge(h, p, q, before) \in [heap : Heaps, list : Pointers]
<1> DEFINE m == Merged(h, p, q, before)
           rest == IF m.l1 # NULL THEN m.l1 ELSE m.l2
<1>1. m \in MergeState
  <2>1. PICK merged \in [0..Bound -> MergeState] :
           /\ Merged(h, p, q, before) = merged[Bound]
           /\ merged[0] = [heap |-> h, l1 |-> p, l2 |-> q, l |-> NULL, list |-> NULL]
           /\ \A n \in 1..Bound :
                 merged[n] = IF merged[n - 1].l1 # NULL /\ merged[n - 1].l2 # NULL
                             THEN MergeStep(before, merged[n - 1]) ELSE merged[n - 1]
    BY MergedSteps
  <2> QED BY <2>1, BoundNat
<1> HIDE DEF m
<1>2. m.heap \in Heaps /\ m.l \in Pointers /\ m.list \in Pointers /\ rest \in Pointers
  BY <1>1 DEF MergeState
<1> HIDE DEF rest
<1>3. SetNext(m.heap, m.l, rest) \in Heaps
  BY <1>2, WriteType
<1>4. SetPrev(SetNext(m.heap, m.l, rest), rest, m.l) \in Heaps
  BY <1>2, <1>3, WriteType
<1>5. [heap |-> SetPrev(SetNext(m.heap, m.l, rest), rest, m.l), list |-> m.list] \in [heap : Heaps, list : Pointers]
  BY <1>2, <1>4
<1> QED BY <1>5 DEF g_list_sort_merge, m, rest

(* A merge that has gone over both lists, or has used one of them up. *)
LEMMA MergedCorrect ==
    ASSUME NEW h \in Heaps, NEW S, NEW before, Order(h, before, S),
           NEW p, NEW x, NEW q, NEW y,
           Merging(h, S, before, h, <<>>, NULL, NULL, p, x, q, y)
    PROVE  LET z == Merged(h, p, q, before)
           IN  /\ z \in MergeState
               /\ \E u, v, w : /\ Merging(h, S, before, z.heap, u, z.l, z.list, z.l1, v, z.l2, w)
                               /\ v = <<>> \/ w = <<>>
<1> DEFINE b == [heap |-> h, l1 |-> p, l2 |-> q, l |-> NULL, list |-> NULL]
           Turn(m) == IF m.l1 # NULL /\ m.l2 # NULL THEN MergeStep(before, m) ELSE m
<1>1. p \in Pointers /\ q \in Pointers
  BY ChainIs DEF Merging
<1>2. PICK merged \in [0..Bound -> MergeState] :
         /\ Merged(h, p, q, before) = merged[Bound]
         /\ merged[0] = b
         /\ \A n \in 1..Bound : merged[n] = Turn(merged[n - 1])
  BY <1>1, MergedSteps
<1> HIDE DEF Turn
<1> DEFINE Over(m, u, v, w) == Merging(h, S, before, m.heap, u, m.l, m.list, m.l1, v, m.l2, w)
           Done(m, n) == m \in MergeState /\ \E u, v, w : Over(m, u, v, w) /\ (Len(u) = n \/ v = <<>> \/ w = <<>>)
           E == {n \in 0..Bound : Done(merged[n], n)}
<1>10. 0 \in E
  <2>1. Over(b, <<>>, x, y)
    OBVIOUS
  <2>2. Len(<<>>) = 0 /\ 0 \in 0..Bound
    BY BoundNat
  <2>3. merged[0] \in MergeState /\ merged[0] = b
    BY <1>2, <2>2
  <2> HIDE DEF Over, b
  <2> QED BY <2>1, <2>2, <2>3
<1>11. ASSUME NEW n \in 1..Bound, n - 1 \in E PROVE n \in E
  <2> DEFINE m == merged[n - 1]
  <2>1. Done(m, n - 1)
    BY <1>11
  <2>2. PICK u, v, w : Over(m, u, v, w) /\ (Len(u) = n - 1 \/ v = <<>> \/ w = <<>>)
    BY <2>1
  <2>3. m \in MergeState /\ merged[n] = Turn(m) /\ n \in 0..Bound
    BY <1>2, <2>1, BoundNat
  <2> HIDE DEF m
  <2>4. (m.l1 = NULL <=> v = <<>>) /\ (m.l2 = NULL <=> w = <<>>)
    <3>1. m.heap \in Heaps /\ Path(m.heap, m.l1, v) /\ Path(m.heap, m.l2, w)
      BY <2>2, <2>3 DEF Merging, MergeState
    <3> QED BY <3>1, ChainIs
  <2>5. CASE v = <<>> \/ w = <<>>
    <3>1. merged[n] = m
      BY <2>3, <2>4, <2>5 DEF Turn
    <3> QED BY <2>2, <2>3, <2>5, <3>1
  <2>6. CASE v # <<>> /\ w # <<>>
    <3>1. merged[n] = MergeStep(before, m)
      BY <2>3, <2>4, <2>6 DEF Turn
    <3>2. PICK u2, v2, w2 : Over(merged[n], u2, v2, w2) /\ Len(u2) = Len(u) + 1
      <4> DEFINE z == MergeStep(before, m)
      <4>1. Order(h, before, S) /\ Merging(h, S, before, m.heap, u, m.l, m.list, m.l1, v, m.l2, w)
        BY <2>2
      <4>2. \E u2, v2, w2 : /\ Merging(h, S, before, z.heap, u2, z.l, z.list, z.l1, v2, z.l2, w2)
                            /\ Len(u2) = Len(u) + 1
        BY <2>3, <2>6, <4>1, MergeStepCorrect
      <4> HIDE DEF z
      <4>3. merged[n] = z
        BY <3>1 DEF z
      <4> QED BY <4>2, <4>3
    <3>3. Len(u2) = n
      <4>1. Len(u) = n - 1
        BY <2>2, <2>6
      <4> QED BY <3>2, <4>1
    <3>4. merged[n] \in MergeState
      BY <2>3, <3>1, MergeStepType
    <3> HIDE DEF Over
    <3> QED BY <2>3, <3>2, <3>3, <3>4
  <2> QED BY <2>5, <2>6
<1>12. \A n \in 0..Bound : n \in E
  <2>1. Bound \in Nat
    BY BoundNat
  <2> HIDE DEF E
  <2> QED BY <1>10, <1>11, <2>1, UpTo
<1>13. Done(merged[Bound], Bound)
  <2>1. Bound \in E
    BY <1>12, BoundNat
  <2> QED BY <2>1
<1> DEFINE last == merged[Bound]
<1> HIDE DEF last
<1>14. PICK u, v, w : Over(last, u, v, w) /\ (Len(u) = Bound \/ v = <<>> \/ w = <<>>)
  <2>1. \E u, v, w : Over(last, u, v, w) /\ (Len(u) = Bound \/ v = <<>> \/ w = <<>>)
    BY <1>13 DEF last
  <2> HIDE DEF Over, Done
  <2> QED BY <2>1, Zenon
<1>15. Len(u) # Bound
  <2>1. u \in Seq(Cells) /\ Distinct(u)
    BY <1>14 DEF Merging, Out
  <2>2. Len(u) <= Cardinality(Cells) /\ Len(u) \in Nat
    BY <2>1, CellsAssumption, DistinctLen
  <2> QED BY <2>2, BoundNat DEF Bound
<1>16. last \in MergeState /\ Merged(h, p, q, before) = last
  BY <1>2, <1>13 DEF last
<1>17. Merging(h, S, before, last.heap, u, last.l, last.list, last.l1, v, last.l2, w) /\ (v = <<>> \/ w = <<>>)
  BY <1>14, <1>15
<1> QED BY <1>16, <1>17

(* g_list_sort_merge makes one sorted list of two. *)
LEMMA MergeCorrect ==
    ASSUME NEW h \in Heaps, NEW S, NEW before, Order(h, before, S),
           NEW p, NEW x, NEW q, NEW y,
           Path(h, p, x), Path(h, q, y), x # <<>>, y # <<>>,
           ToSet(x) \cap ToSet(y) = {}, S = ToSet(x) \cup ToSet(y),
           Sorted(before, h, x), Sorted(before, h, y)
    PROVE  LET r == g_list_sort_merge(h, p, q, before)
           IN  \E s : Result(h, S, before, r.heap, r.list, s)
<1> DEFINE z == Merged(h, p, q, before)
           rest == IF z.l1 # NULL THEN z.l1 ELSE z.l2
           r == g_list_sort_merge(h, p, q, before)
<1>1. Merging(h, S, before, h, <<>>, NULL, NULL, p, x, q, y)
  <2>1. Keeps(h, h, S)
    BY DEF Keeps
  <2>2. <<>> \in Seq(Cells) /\ Len(<<>>) = 0 /\ 1..0 = {} /\ 1..0 - 1 = {} /\ ToSet(<<>>) = {}
    BY EmptyList
  <2>3. Out(h, <<>>) /\ NULL = At(<<>>, Len(<<>>)) /\ NULL = At(<<>>, 1)
    BY <2>2 DEF Out, At, Distinct
  <2>4. Sorted(before, h, <<>>) /\ Ahead(before, h, <<>>, x) /\ Ahead(before, h, <<>>, y)
    BY <2>2 DEF Sorted, Ahead
  <2> QED BY <2>1, <2>2, <2>3, <2>4 DEF Merging
<1>2. PICK u, v, w : /\ Merging(h, S, before, z.heap, u, z.l, z.list, z.l1, v, z.l2, w)
                     /\ v = <<>> \/ w = <<>>
  BY <1>1, MergedCorrect
<1>3. r.heap = SetPrev(SetNext(z.heap, z.l, rest), rest, z.l) /\ r.list = z.list
  BY DEF g_list_sort_merge
<1> HIDE DEF r, z
<1>4. CASE w = <<>>
  <2>1. /\ Result(h, S, before, SetPrev(SetNext(z.heap, z.l, z.l1), z.l1, z.l), z.list, u \o v)
        /\ z.l1 # NULL
    BY <1>2, <1>4, MergeEnd
  <2>2. Result(h, S, before, r.heap, r.list, u \o v)
    BY <1>3, <2>1
  <2> QED BY <2>2 DEF r
<1>5. CASE v = <<>>
  <2>1. Merging(h, S, before, z.heap, u, z.l, z.list, z.l2, w, z.l1, v)
    BY <1>2, MergingBothWays
  <2>2. /\ Result(h, S, before, SetPrev(SetNext(z.heap, z.l, z.l2), z.l2, z.l), z.list, u \o w)
        /\ z.l1 = NULL
    BY <1>5, <2>1, MergeEnd
  <2>3. Result(h, S, before, r.heap, r.list, u \o w)
    BY <1>3, <2>2
  <2> QED BY <2>3 DEF r
<1> QED BY <1>2, <1>4, <1>5
(* What a sort gives. *)
SortState == [heap : Heaps, list : Pointers]

(* One level of a sort, where f sorts the halves. *)
SortTurn(before, f, h, p) ==
    LET c == Chain(h, p)
    IN  IF Len(c) <= 1 THEN [heap |-> h, list |-> p]
        ELSE LET l1 == c[Len(c) \div 2]
                 l2 == next(h, l1)
                 s1 == f[<<SetNext(h, l1, NULL), p>>]
                 s2 == f[<<s1.heap, l2>>]
             IN  g_list_sort_merge(s2.heap, s1.list, s2.list, before)

(* It gives a heap and a pointer, whatever the pointers. *)
LEMMA SortTurnType ==
    ASSUME NEW before, NEW f \in [Heaps \X Pointers -> SortState], NEW h \in Heaps, NEW p \in Pointers
    PROVE  SortTurn(before, f, h, p) \in SortState
<1> DEFINE c == Chain(h, p)
           l1 == c[Len(c) \div 2]
           l2 == next(h, l1)
           s1 == f[<<SetNext(h, l1, NULL), p>>]
           s2 == f[<<s1.heap, l2>>]
<1>1. c \in Seq(Cells) /\ Len(c) \in Nat
  BY ChainType, SeqFacts
<1>2. NULL \in Pointers
  BY DEF Pointers
<1>3. l2 \in Pointers /\ SetNext(h, l1, NULL) \in Heaps
  BY <1>2, ReadType, WriteType
<1> HIDE DEF l1, l2
<1>4. s1 \in SortState
  BY <1>3
<1>5. s1.heap \in Heaps /\ s1.list \in Pointers
  BY <1>4 DEF SortState
<1> HIDE DEF s1
<1>6. s2 \in SortState
  BY <1>3, <1>5
<1>7. s2.heap \in Heaps /\ s2.list \in Pointers
  BY <1>6 DEF SortState
<1> HIDE DEF s2
<1>8. g_list_sort_merge(s2.heap, s1.list, s2.list, before) \in SortState
  BY <1>5, <1>7, MergeType DEF SortState
<1>9. [heap |-> h, list |-> p] \in SortState
  BY DEF SortState
<1> HIDE DEF c
<1>10. (IF Len(c) <= 1 THEN [heap |-> h, list |-> p] ELSE g_list_sort_merge(s2.heap, s1.list, s2.list, before)) \in SortState
  BY <1>8, <1>9
<1> QED BY <1>10 DEF SortTurn, c, l1, l2, s1, s2

(* sort[n] sorts with n levels of halves. *)
IsSort(sort, before) ==
    /\ sort \in [0..Bound -> [Heaps \X Pointers -> SortState]]
    /\ \A h \in Heaps, p \in Pointers : g_list_sort(h, p, before) = sort[Bound][<<h, p>>]
    /\ \A h \in Heaps, p \in Pointers : sort[0][<<h, p>>] = [heap |-> h, list |-> p]
    /\ \A n \in 1..Bound : \A h \in Heaps, p \in Pointers :
          sort[n][<<h, p>>] = SortTurn(before, sort[n - 1], h, p)

(* The recursion of g_list_sort exists. *)
LEMMA SortSteps ==
    ASSUME NEW before
    PROVE  \E sort : IsSort(sort, before)
<1> DEFINE R == [Heaps \X Pointers -> SortState]
           b == [x \in Heaps \X Pointers |-> [heap |-> x[1], list |-> x[2]]]
           Turn(f) == [x \in Heaps \X Pointers |-> SortTurn(before, f, x[1], x[2])]
           Is(f) == f = [n \in 0..Bound |->
                    [x \in Heaps \X Pointers |->
                        LET c == Chain(x[1], x[2])
                        IN  IF n = 0 \/ Len(c) <= 1 THEN [heap |-> x[1], list |-> x[2]]
                            ELSE LET l1 == c[Len(c) \div 2]
                                     l2 == next(x[1], l1)
                                     s1 == f[n - 1][<<SetNext(x[1], l1, NULL), x[2]>>]
                                     s2 == f[n - 1][<<s1.heap, l2>>]
                                 IN  g_list_sort_merge(s2.heap, s1.list, s2.list, before)]]
           sort == CHOOSE f : Is(f)
           step == [a \in (1..Bound) \X R |-> Turn(a[2])]
<1>1. \A h, p : g_list_sort(h, p, before) = sort[Bound][<<h, p>>]
  BY DEF g_list_sort
<1>2. b \in R
  BY DEF SortState
<1>3. ASSUME NEW f \in R PROVE Turn(f) \in R
  <2>1. ASSUME NEW x \in Heaps \X Pointers PROVE SortTurn(before, f, x[1], x[2]) \in SortState
    BY SortTurnType
  <2> QED BY <2>1
<1>4. step \in [(1..Bound) \X R -> R]
  <2> HIDE DEF Turn, R
  <2> QED BY <1>3
<1>5. PICK g : IsRun(g, Bound, R, b, step)
  <2>1. Bound \in Nat
    BY BoundNat
  <2> HIDE DEF b, step, R
  <2> QED BY <1>2, <1>4, <2>1, RunExists
<1> HIDE DEF R
<1>6. ASSUME NEW n \in 1..Bound
      PROVE  n # 0 /\ n - 1 \in 0..Bound /\ n \in 0..Bound /\ g[n - 1] \in R /\ g[n] = Turn(g[n - 1])
  <2> HIDE DEF Turn
  <2>1. n # 0 /\ n - 1 \in 0..Bound /\ n \in 0..Bound
    BY BoundNat
  <2>2. g[n - 1] \in R
    BY <2>1, <1>5 DEF IsRun
  <2>3. <<n, g[n - 1]>> \in (1..Bound) \X R
    BY <2>2
  <2>4. g[n] = step[<<n, g[n - 1]>>]
    BY <1>5 DEF IsRun
  <2> QED BY <2>1, <2>2, <2>3, <2>4
<1> DEFINE Body(f, n) == [x \in Heaps \X Pointers |->
                        LET c == Chain(x[1], x[2])
                        IN  IF n = 0 \/ Len(c) <= 1 THEN [heap |-> x[1], list |-> x[2]]
                            ELSE LET l1 == c[Len(c) \div 2]
                                     l2 == next(x[1], l1)
                                     s1 == f[n - 1][<<SetNext(x[1], l1, NULL), x[2]>>]
                                     s2 == f[n - 1][<<s1.heap, l2>>]
                                 IN  g_list_sort_merge(s2.heap, s1.list, s2.list, before)]
<1>7. \A f : Body(f, 0) = b
  OBVIOUS
<1>8. ASSUME NEW f, NEW n \in 1..Bound PROVE Body(f, n) = Turn(f[n - 1])
  <2>1. n # 0
    BY BoundNat
  <2> QED BY <2>1 DEF SortTurn
<1>9. Is(g)
  <2> HIDE DEF Body, Turn, b
  <2>1. ASSUME NEW n \in 0..Bound PROVE g[n] = Body(g, n)
    <3>1. CASE n = 0
      BY <1>5, <1>7, <3>1 DEF IsRun
    <3>2. CASE n # 0
      <4>1. n \in 1..Bound
        BY <3>2, BoundNat
      <4> QED BY <1>6, <1>8, <4>1
    <3> QED BY <3>1, <3>2
  <2>2. g = [n \in 0..Bound |-> g[n]]
    BY <1>5 DEF IsRun
  <2>3. g = [n \in 0..Bound |-> Body(g, n)]
    BY <2>1, <2>2
  <2> QED BY <2>3 DEF Body
<1>10. Is(sort)
  <2> HIDE DEF Is
  <2> QED BY <1>9
<1> HIDE DEF sort
<1>11. sort = [n \in 0..Bound |-> Body(sort, n)]
  BY <1>10
<1> HIDE DEF Is, Body
<1>12. sort[0] = b /\ \A n \in 1..Bound : sort[n] = Turn(sort[n - 1])
  <2>1. 0 \in 0..Bound /\ \A n \in 1..Bound : n \in 0..Bound /\ n # 0
    BY BoundNat
  <2> HIDE DEF Turn, b
  <2>2. \A n \in 0..Bound : sort[n] = Body(sort, n)
    BY <1>11
  <2>3. sort[0] = b
    BY <1>7, <2>1, <2>2
  <2>4. \A n \in 1..Bound : sort[n] = Turn(sort[n - 1])
    BY <1>8, <2>1, <2>2
  <2> QED BY <2>3, <2>4
<1>13. \A n \in 0..Bound : sort[n] \in R
  <2> DEFINE E == {n \in 0..Bound : sort[n] \in R}
  <2> HIDE DEF Turn, b
  <2>1. 0 \in E
    BY <1>2, <1>12, BoundNat
  <2>2. ASSUME NEW n \in 1..Bound, n - 1 \in E PROVE n \in E
    BY <1>3, <1>12, <2>2, BoundNat
  <2>3. Bound \in Nat
    BY BoundNat
  <2>4. \A n \in 0..Bound : n \in E
    <3> HIDE DEF E
    <3> QED BY <2>1, <2>2, <2>3, UpTo
  <2> QED BY <2>4
<1>14. sort \in [0..Bound -> R]
  <2>1. sort = [n \in 0..Bound |-> sort[n]]
    BY <1>11
  <2> QED BY <1>13, <2>1
<1>15. ASSUME NEW h \in Heaps, NEW p \in Pointers PROVE sort[0][<<h, p>>] = [heap |-> h, list |-> p]
  BY <1>12
<1>16. ASSUME NEW n \in 1..Bound, NEW h \in Heaps, NEW p \in Pointers
       PROVE  sort[n][<<h, p>>] = SortTurn(before, sort[n - 1], h, p)
  <2> DEFINE f == sort[n - 1]
  <2>1. sort[n] = Turn(f)
    BY <1>12
  <2> HIDE DEF f
  <2>2. Turn(f)[<<h, p>>] = SortTurn(before, f, h, p)
    OBVIOUS
  <2> HIDE DEF Turn
  <2> QED BY <2>1, <2>2 DEF f
<1>17. sort \in [0..Bound -> [Heaps \X Pointers -> SortState]]
  BY <1>14 DEF R
<1> HIDE DEF Turn, b, step
<1>18. IsSort(sort, before)
  BY <1>1, <1>15, <1>16, <1>17 DEF IsSort
<1> QED BY <1>18
(* Two such changes one after the other. *)
LEMMA KeepsTwice ==
    ASSUME NEW h, NEW g, NEW f, NEW S, NEW T, NEW U, Keeps(h, g, S), Keeps(g, f, T), S \subseteq U, T \subseteq U
    PROVE  Keeps(h, f, U)
<1>1. f \in Heaps /\ f.bad = h.bad
  BY DEF Keeps
<1>2. ASSUME NEW d \in Cells PROVE f.cell[d].live = h.cell[d].live /\ f.cell[d].data = h.cell[d].data
  <2>1. f.cell[d].live = g.cell[d].live /\ f.cell[d].data = g.cell[d].data
    BY DEF Keeps
  <2>2. g.cell[d].live = h.cell[d].live /\ g.cell[d].data = h.cell[d].data
    BY DEF Keeps
  <2> QED BY <2>1, <2>2
<1>3. ASSUME NEW d \in Cells, d \notin U PROVE f.cell[d].next = h.cell[d].next /\ f.cell[d].prev = h.cell[d].prev
  <2>1. f.cell[d].next = g.cell[d].next /\ f.cell[d].prev = g.cell[d].prev
    BY <1>3 DEF Keeps
  <2>2. g.cell[d].next = h.cell[d].next /\ g.cell[d].prev = h.cell[d].prev
    BY <1>3 DEF Keeps
  <2> QED BY <2>1, <2>2
<1> QED BY <1>1, <1>2, <1>3, Zenon DEF Keeps

(* The irqs stay where they are, so what is sorted stays sorted. *)
LEMMA KeepsSorted ==
    ASSUME NEW h, NEW g, NEW S, Keeps(h, g, S), NEW before, NEW s \in Seq(Cells), Sorted(before, g, s)
    PROVE  Sorted(before, h, s)
<1>1. \A k \in 1..Len(s) : s[k] \in Cells
  BY SeqFacts
<1>2. \A k \in 1..Len(s) : g.cell[s[k]].data = h.cell[s[k]].data
  BY <1>1 DEF Keeps
<1> SUFFICES ASSUME NEW j \in 1..Len(s), NEW k \in 1..Len(s), j < k
             PROVE  Precedes(before, h.cell[s[j]].data, h.cell[s[k]].data)
  BY DEF Sorted
<1>3. Precedes(before, g.cell[s[j]].data, g.cell[s[k]].data)
  BY DEF Sorted
<1> QED BY <1>2, <1>3

(* So does what a merge asks for. *)
LEMMA KeepsOrder ==
    ASSUME NEW h, NEW g, NEW S, Keeps(h, g, S), NEW before, NEW T, Order(h, before, T), NEW U, U \subseteq T
    PROVE  Order(g, before, U)
<1>1. \A d \in U : d \in T /\ d \in Cells
  BY DEF Order
<1>2. \A d \in U : g.cell[d].data = h.cell[d].data
  BY <1>1 DEF Keeps
<1>3. \A d \in U : d \in Cells /\ g.cell[d].data \in Irqs
  <2> TAKE d \in U
  <2>1. h.cell[d].data \in Irqs
    BY <1>1 DEF Order
  <2> QED BY <1>1, <1>2, <2>1
<1>4. \A c, d \in U : g.cell[c].data = g.cell[d].data => c = d
  <2> TAKE c, d \in U
  <2>1. h.cell[c].data = h.cell[d].data => c = d
    BY <1>1 DEF Order
  <2> QED BY <1>2, <2>1
<1> QED BY <1>3, <1>4 DEF Order

(* A path away from the cells that are changed. *)
LEMMA KeepsPath ==
    ASSUME NEW h, NEW g, NEW S, Keeps(h, g, S), NEW p, NEW s, Path(h, p, s), ToSet(s) \cap S = {}
    PROVE  Path(g, p, s)
<1>1. \A k \in 1..Len(s) : s[k] \in Cells /\ s[k] \notin S
  <2>1. s \in Seq(Cells)
    BY DEF Path
  <2> QED BY <2>1, SeqFacts
<1>2. \A k \in 1..Len(s) : /\ g.cell[s[k]].live = h.cell[s[k]].live /\ g.cell[s[k]].data = h.cell[s[k]].data
                           /\ g.cell[s[k]].next = h.cell[s[k]].next /\ g.cell[s[k]].prev = h.cell[s[k]].prev
  BY <1>1 DEF Keeps
<1>3. \A k \in 2..Len(s) : k \in 1..Len(s)
  <2>1. s \in Seq(Cells)
    BY DEF Path
  <2> QED BY <2>1, SeqFacts
<1> QED BY <1>2, <1>3, PathFrame

(* The first k elements. *)
Prefix(s, k) == [j \in 1..k |-> s[j]]

(* g_list_sort cuts a list in two. *)
LEMMA SplitCorrect ==
    ASSUME NEW h \in Heaps, NEW p, NEW x, Path(h, p, x), NEW m \in 1..Len(x), m < Len(x)
    PROVE  LET g == SetNext(h, x[m], NULL)
               a == Prefix(x, m)
               b == Suffix(x, m + 1)
           IN  /\ Keeps(h, g, ToSet(x)) /\ Path(g, p, a) /\ Path(g, next(h, x[m]), b)
               /\ Len(a) = m /\ Len(b) = Len(x) - m
               /\ ToSet(a) \cap ToSet(b) = {} /\ ToSet(x) = ToSet(a) \cup ToSet(b)
<1> DEFINE n == Len(x)
           g == SetNext(h, x[m], NULL)
           a == Prefix(x, m)
           b == Suffix(x, m + 1)
<1>1. /\ x \in Seq(Cells) /\ n \in Nat /\ Distinct(x) /\ ToSet(x) = {x[k] : k \in 1..n}
      /\ \A k \in 1..n : x[k] \in Cells /\ h.cell[x[k]].live /\ h.cell[x[k]].data \in Irqs
  BY SeqFacts DEF Path
<1>2. /\ 1 \in 1..n /\ 1 \in 1..m /\ m + 1 \in 1..n /\ m + 1 \in 1..n + 1 /\ m \in Nat /\ n + 1 - (m + 1) = n - m
      /\ \A k \in 1..m : k \in 1..n
      /\ \A k \in 1..n - m : m + k \in 1..n /\ (m + 1) + k - 1 = m + k
  <2>1. n \in Nat /\ m \in 1..n /\ m < n
    BY <1>1
  <2> HIDE DEF n
  <2>2. 1 \in 1..n /\ 1 \in 1..m /\ m + 1 \in 1..n /\ m + 1 \in 1..n + 1 /\ m \in Nat /\ n + 1 - (m + 1) = n - m
    BY <2>1
  <2>3. \A k \in 1..m : k \in 1..n
    BY <2>1
  <2>4. \A k \in 1..n - m : m + k \in 1..n /\ (m + 1) + k - 1 = m + k
    BY <2>1
  <2> QED BY <2>2, <2>3, <2>4
<1>3. /\ g \in Heaps /\ g.bad = h.bad
      /\ \A d \in Cells : /\ g.cell[d].live = h.cell[d].live /\ g.cell[d].data = h.cell[d].data
                          /\ g.cell[d].next = IF d = x[m] THEN NULL ELSE h.cell[d].next
                          /\ g.cell[d].prev = h.cell[d].prev
  <2>1. x[m] \in Cells /\ h.cell[x[m]].live /\ NULL \in Pointers
    BY <1>1 DEF Pointers
  <2> QED BY <2>1, WriteType, SetNextEffect
<1> HIDE DEF g
<1>4. a \in Seq(Cells) /\ Len(a) = m /\ \A k \in 1..m : a[k] = x[k]
  <2>1. a \in [1..m -> Cells]
    BY <1>1, <1>2 DEF Prefix
  <2>2. \A k \in 1..m : a[k] = x[k]
    BY DEF Prefix
  <2> HIDE DEF a
  <2> QED BY <1>2, <2>1, <2>2, SeqOfFunction
<1>5. b \in Seq(Cells) /\ Len(b) = n - m /\ \A k \in 1..n - m : b[k] = x[m + k]
  <2>1. b \in Seq(Cells) /\ Len(b) = n + 1 - (m + 1) /\ \A k \in 1..n + 1 - (m + 1) : b[k] = x[(m + 1) + k - 1]
    <3> DEFINE i == m + 1
    <3>1. i \in 1..Len(x) + 1
      BY <1>2
    <3> HIDE DEF i
    <3>2. /\ Suffix(x, i) \in Seq(Cells) /\ Len(Suffix(x, i)) = Len(x) + 1 - i
          /\ \A k \in 1..Len(x) + 1 - i : Suffix(x, i)[k] = x[i + k - 1]
      BY <1>1, <3>1, SuffixFacts
    <3> QED BY <3>2 DEF i
  <2> HIDE DEF b
  <2> QED BY <1>2, <2>1
<1>6. ToSet(a) = {a[k] : k \in 1..m} /\ ToSet(b) = {b[k] : k \in 1..n - m}
  <2> HIDE DEF a, b
  <2> QED BY <1>4, <1>5, SeqFacts
<1> HIDE DEF a, b
<1>7. ToSet(a) \cap ToSet(b) = {}
  <2> SUFFICES ASSUME NEW j \in 1..m, NEW k \in 1..n - m, a[j] = b[k] PROVE FALSE
    BY <1>6
  <2>1. x[j] = x[m + k] /\ j \in 1..n /\ m + k \in 1..n
    BY <1>2, <1>4, <1>5
  <2>2. j = m + k
    BY <2>1, <1>1 DEF Distinct
  <2> QED BY <1>1, <2>2
<1>8. ToSet(x) = ToSet(a) \cup ToSet(b)
  <2>1. ASSUME NEW d \in ToSet(x) PROVE d \in ToSet(a) \cup ToSet(b)
    <3>1. PICK k \in 1..n : d = x[k]
      BY <1>1
    <3>2. CASE k <= m
      <4>1. k \in 1..m
        BY <1>1, <3>2
      <4> QED BY <1>4, <1>6, <3>1, <4>1
    <3>3. CASE k > m
      <4>1. k - m \in 1..n - m /\ m + (k - m) = k
        BY <1>1, <3>3
      <4>2. b[k - m] = d
        BY <1>5, <3>1, <4>1
      <4> QED BY <1>6, <4>1, <4>2
    <3> QED BY <1>1, <3>2, <3>3
  <2>2. ASSUME NEW d \in ToSet(a) \cup ToSet(b) PROVE d \in ToSet(x)
    <3>1. \A k \in 1..m : a[k] \in ToSet(x)
      BY <1>1, <1>2, <1>4
    <3>2. \A k \in 1..n - m : b[k] \in ToSet(x)
      BY <1>1, <1>2, <1>5
    <3> QED BY <1>6, <3>1, <3>2
  <2> QED BY <2>1, <2>2
<1>9. Keeps(h, g, ToSet(x))
  <2>1. x[m] \in ToSet(x)
    BY <1>1
  <2>2. ASSUME NEW d \in Cells, d \notin ToSet(x) PROVE g.cell[d].next = h.cell[d].next /\ g.cell[d].prev = h.cell[d].prev
    BY <1>3, <2>1, <2>2
  <2>3. ASSUME NEW d \in Cells PROVE g.cell[d].live = h.cell[d].live /\ g.cell[d].data = h.cell[d].data
    BY <1>3
  <2> QED BY <1>3, <2>2, <2>3, Zenon DEF Keeps
<1>10. ASSUME NEW k \in 1..n
       PROVE  /\ g.cell[x[k]].live /\ g.cell[x[k]].data \in Irqs
              /\ g.cell[x[k]].next = IF k = m THEN NULL ELSE At(x, k + 1)
              /\ k # 1 => g.cell[x[k]].prev = At(x, k - 1)
  <2>1. x[k] \in Cells /\ h.cell[x[k]].live /\ h.cell[x[k]].data \in Irqs /\ h.cell[x[k]].next = At(x, k + 1)
    BY <1>1 DEF Path
  <2>2. x[k] = x[m] <=> k = m
    BY <1>1 DEF Distinct
  <2>3. k # 1 => h.cell[x[k]].prev = At(x, k - 1)
    <3> SUFFICES ASSUME k # 1 PROVE h.cell[x[k]].prev = At(x, k - 1)
      OBVIOUS
    <3>1. k \in 2..n
      BY <1>1
    <3> QED BY <3>1 DEF Path
  <2> QED BY <1>3, <2>1, <2>2, <2>3
<1>11. Path(g, p, a)
  <2>1. Distinct(a)
    BY <1>1, <1>2, <1>4 DEF Distinct
  <2>2. p = At(a, 1)
    <3>1. p = At(x, 1)
      BY DEF Path
    <3> QED BY <1>2, <1>4, <3>1 DEF At
  <2>3. ASSUME NEW k \in 1..m PROVE g.cell[a[k]].live /\ g.cell[a[k]].data \in Irqs /\ g.cell[a[k]].next = At(a, k + 1)
    <3>1. a[k] = x[k] /\ k \in 1..n
      BY <1>2, <1>4
    <3>2. CASE k = m
      <4>1. k + 1 \notin 1..m
        BY <1>2, <3>2
      <4>2. At(a, k + 1) = NULL
        BY <1>4, <4>1 DEF At
      <4> QED BY <1>10, <3>1, <3>2, <4>2
    <3>3. CASE k # m
      <4>1. k + 1 \in 1..m
        BY <1>2, <3>3
      <4>2. At(a, k + 1) = At(x, k + 1)
        BY <1>2, <1>4, <4>1 DEF At
      <4> QED BY <1>10, <3>1, <3>3, <4>2
    <3> QED BY <3>2, <3>3
  <2>4. ASSUME NEW k \in 2..m PROVE g.cell[a[k]].prev = At(a, k - 1)
    <3>1. k \in 1..m /\ k - 1 \in 1..m /\ k # 1
      BY <1>2
    <3>2. At(a, k - 1) = At(x, k - 1)
      BY <1>2, <1>4, <3>1 DEF At
    <3>3. g.cell[x[k]].prev = At(x, k - 1)
      BY <1>2, <1>10, <3>1
    <3> QED BY <1>4, <3>1, <3>2, <3>3
  <2> QED BY <1>4, <2>1, <2>2, <2>3, <2>4 DEF Path
<1>12. Path(g, next(h, x[m]), b)
  <2>1. Distinct(b)
    <3> SUFFICES ASSUME NEW j \in 1..n - m, NEW k \in 1..n - m, b[j] = b[k] PROVE j = k
      BY <1>5 DEF Distinct
    <3>1. m + j = m + k
      BY <1>1, <1>2, <1>5 DEF Distinct
    <3> QED BY <1>2, <3>1
  <2>2. next(h, x[m]) = At(b, 1)
    <3>1. next(h, x[m]) = At(x, m + 1)
      <4>1. h.cell[x[m]].next = At(x, m + 1)
        BY DEF Path
      <4> QED BY <1>1, <4>1, ReadType
    <3>2. 1 \in 1..n - m
      BY <1>1
    <3> QED BY <1>2, <1>5, <3>1, <3>2 DEF At
  <2>3. \A k \in 1..(n - m) + 1 : At(b, k) = At(x, m + k)
    <3> TAKE k \in 1..(n - m) + 1
    <3>1. k \in 1..n - m <=> m + k \in 1..n
      BY <1>1
    <3> QED BY <1>5, <3>1 DEF At
  <2>4. ASSUME NEW k \in 1..n - m PROVE g.cell[b[k]].live /\ g.cell[b[k]].data \in Irqs /\ g.cell[b[k]].next = At(b, k + 1)
    <3>1. b[k] = x[m + k] /\ m + k \in 1..n /\ m + k # m
      BY <1>2, <1>5
    <3>2. At(b, k + 1) = At(x, (m + k) + 1)
      <4>1. k + 1 \in 1..(n - m) + 1 /\ m + (k + 1) = (m + k) + 1
        BY <1>1
      <4> QED BY <2>3, <4>1
    <3> QED BY <1>10, <3>1, <3>2
  <2>5. ASSUME NEW k \in 2..n - m PROVE g.cell[b[k]].prev = At(b, k - 1)
    <3>1. k \in 1..n - m /\ m + k \in 1..n /\ m + k # 1 /\ k - 1 \in 1..(n - m) + 1 /\ m + (k - 1) = (m + k) - 1
      BY <1>1
    <3>2. At(b, k - 1) = At(x, (m + k) - 1)
      BY <2>3, <3>1
    <3> QED BY <1>5, <1>10, <3>1, <3>2
  <2> QED BY <1>5, <2>1, <2>2, <2>4, <2>5 DEF Path
<1> QED BY <1>4, <1>5, <1>7, <1>8, <1>9, <1>11, <1>12 DEF g, a, b
(* What g_list_sort makes of the list with the cells x.  A list with one   *)
(* cell is left alone, also what its cell points back to.                  *)
Sorts(h, before, p, x, r) ==
    \E s : /\ Path(r.heap, r.list, s) /\ ToSet(s) = ToSet(x)
           /\ Keeps(h, r.heap, ToSet(x)) /\ Sorted(before, h, s)
           /\ Len(x) > 1 => IsList(r.heap, r.list, s)
           /\ Len(x) <= 1 => r.heap = h /\ r.list = p /\ s = x

(* Short lists are sorted. *)
LEMMA SortShort ==
    ASSUME NEW h \in Heaps, NEW before, NEW p, NEW x, Path(h, p, x), Len(x) <= 1
    PROVE  Sorts(h, before, p, x, [heap |-> h, list |-> p])
<1> DEFINE r == [heap |-> h, list |-> p]
<1>1. r.heap = h /\ r.list = p
  OBVIOUS
<1>2. Len(x) \in Nat
  BY SeqFacts DEF Path
<1>3. Sorted(before, h, x)
  <2>1. \A j, k \in 1..Len(x) : ~(j < k)
    BY <1>2
  <2> QED BY <2>1 DEF Sorted
<1>4. Keeps(h, h, ToSet(x)) /\ ~(Len(x) > 1)
  BY <1>2 DEF Keeps
<1> HIDE DEF r
<1>5. Sorts(h, before, p, x, r)
  BY <1>1, <1>3, <1>4 DEF Sorts
<1> QED BY <1>5 DEF r

(* A level sorts if the level below it sorts the halves. *)
LEMMA SortLevel ==
    ASSUME NEW before, NEW f \in [Heaps \X Pointers -> SortState], NEW n \in Nat \ {0},
           \A g \in Heaps : \A q, y : Path(g, q, y) /\ Order(g, before, ToSet(y)) /\ Len(y) <= n
                                        => Sorts(g, before, q, y, f[<<g, q>>]),
           NEW h \in Heaps, NEW p, NEW x, Path(h, p, x), Order(h, before, ToSet(x)), Len(x) <= n + 1
    PROVE  Sorts(h, before, p, x, SortTurn(before, f, h, p))
<1> DEFINE m == Len(x) \div 2
           l1 == x[m]
           l2 == next(h, l1)
           g == SetNext(h, l1, NULL)
           s1 == f[<<g, p>>]
           s2 == f[<<s1.heap, l2>>]
           r == g_list_sort_merge(s2.heap, s1.list, s2.list, before)
           a == Prefix(x, m)
           b == Suffix(x, m + 1)
<1>1. x \in Seq(Cells) /\ Len(x) \in Nat /\ Chain(h, p) = x
  BY SeqFacts, ChainIs DEF Path
<1>2. CASE Len(x) <= 1
  <2>1. SortTurn(before, f, h, p) = [heap |-> h, list |-> p]
    BY <1>1, <1>2 DEF SortTurn
  <2> QED BY <1>2, <2>1, SortShort
<1>3. CASE Len(x) > 1
  <2>1. SortTurn(before, f, h, p) = r
    <3>1. ~(Len(x) <= 1)
      BY <1>1, <1>3
    <3> QED BY <1>1, <3>1 DEF SortTurn
  <2>2. m \in 1..Len(x) /\ m < Len(x) /\ m <= n /\ Len(x) - m <= n
    BY <1>1, <1>3
  <2> HIDE DEF m
  <2>3. /\ Keeps(h, g, ToSet(x)) /\ Path(g, p, a) /\ Path(g, l2, b)
        /\ Len(a) = m /\ Len(b) = Len(x) - m
        /\ ToSet(a) \cap ToSet(b) = {} /\ ToSet(x) = ToSet(a) \cup ToSet(b)
    BY <2>2, SplitCorrect
  <2>4. g \in Heaps
    BY <2>3 DEF Keeps
  <2> HIDE DEF l1, l2, g, a, b
  <2>5. Order(g, before, ToSet(a))
    BY <2>3, KeepsOrder
  <2>6. Sorts(g, before, p, a, s1)
    BY <2>2, <2>3, <2>4, <2>5
  <2> HIDE DEF s1
  <2>7. PICK u : /\ Path(s1.heap, s1.list, u) /\ ToSet(u) = ToSet(a)
                 /\ Keeps(g, s1.heap, ToSet(a)) /\ Sorted(before, g, u)
    BY <2>6 DEF Sorts
  <2>8. Path(s1.heap, l2, b)
    <3>1. ToSet(b) \cap ToSet(a) = {}
      BY <2>3
    <3> QED BY <2>3, <2>7, <3>1, KeepsPath
  <2>9. s1.heap \in Heaps /\ Keeps(h, s1.heap, ToSet(x))
    <3>1. ToSet(a) \subseteq ToSet(x)
      BY <2>3
    <3> QED BY <2>3, <2>7, <3>1, KeepsTwice DEF Keeps
  <2>10. Order(s1.heap, before, ToSet(b))
    BY <2>3, <2>9, KeepsOrder
  <2>11. Sorts(s1.heap, before, l2, b, s2)
    BY <2>2, <2>3, <2>8, <2>9, <2>10
  <2> HIDE DEF s2
  <2>12. PICK v : /\ Path(s2.heap, s2.list, v) /\ ToSet(v) = ToSet(b)
                  /\ Keeps(s1.heap, s2.heap, ToSet(b)) /\ Sorted(before, s1.heap, v)
    BY <2>11 DEF Sorts
  <2>13. Path(s2.heap, s1.list, u)
    <3>1. ToSet(u) \cap ToSet(b) = {}
      BY <2>3, <2>7
    <3> QED BY <2>7, <2>12, <3>1, KeepsPath
  <2>14. s2.heap \in Heaps /\ Keeps(h, s2.heap, ToSet(x))
    <3>1. ToSet(b) \subseteq ToSet(x)
      BY <2>3
    <3> QED BY <2>9, <2>12, <3>1, KeepsTwice DEF Keeps
  <2>15. Order(s2.heap, before, ToSet(x))
    BY <2>14, KeepsOrder
  <2>16. Sorted(before, s2.heap, u) /\ Sorted(before, s2.heap, v)
    <3>1. u \in Seq(Cells) /\ v \in Seq(Cells)
      BY <2>7, <2>12 DEF Path
    <3>2. \A k \in 1..Len(u) : u[k] \in Cells
      BY <3>1, SeqFacts
    <3>3. \A k \in 1..Len(v) : v[k] \in Cells
      BY <3>1, SeqFacts
    <3>4. \A d \in Cells : s2.heap.cell[d].data = s1.heap.cell[d].data
      BY <2>12 DEF Keeps
    <3>5. \A d \in Cells : s1.heap.cell[d].data = g.cell[d].data
      BY <2>7 DEF Keeps
    <3>6. Sorted(before, s2.heap, u)
      BY <2>7, <3>2, <3>4, <3>5 DEF Sorted
    <3>7. Sorted(before, s2.heap, v)
      BY <2>12, <3>3, <3>4 DEF Sorted
    <3> QED BY <3>6, <3>7
  <2>17. u # <<>> /\ v # <<>>
    <3>1. a # <<>> /\ b # <<>>
      <4>1. a \in Seq(Cells) /\ b \in Seq(Cells)
        BY <2>3 DEF Path
      <4>2. Len(a) # 0 /\ Len(b) # 0
        BY <1>1, <2>2, <2>3
      <4> QED BY <4>2, EmptyList, SeqFacts
    <3>2. 1 \in 1..Len(a) /\ 1 \in 1..Len(b) /\ a[1] \in ToSet(a) /\ b[1] \in ToSet(b)
      <4>1. a \in Seq(Cells) /\ b \in Seq(Cells)
        BY <2>3 DEF Path
      <4>2. 1 \in 1..Len(a) /\ 1 \in 1..Len(b)
        BY <1>1, <2>2, <2>3
      <4> QED BY <4>1, <4>2, SeqFacts
    <3> QED BY <2>7, <2>12, <3>2, EmptyList
  <2>18. PICK s : Result(s2.heap, ToSet(x), before, r.heap, r.list, s)
    <3>1. ToSet(u) \cap ToSet(v) = {} /\ ToSet(x) = ToSet(u) \cup ToSet(v)
      BY <2>3, <2>7, <2>12
    <3> QED BY <2>12, <2>13, <2>14, <2>15, <2>16, <2>17, <3>1, MergeCorrect
  <2> HIDE DEF r
  <2>19. Keeps(h, r.heap, ToSet(x))
    <3>1. Keeps(s2.heap, r.heap, ToSet(x))
      BY <2>18 DEF Result
    <3> QED BY <2>14, <3>1, KeepsTwice
  <2>20. Sorted(before, h, s)
    <3>1. s \in Seq(Cells) /\ Sorted(before, s2.heap, s)
      BY <2>18 DEF Result, IsList, Path
    <3> QED BY <2>14, <3>1, KeepsSorted
  <2>21. IsList(r.heap, r.list, s) /\ Path(r.heap, r.list, s) /\ ToSet(s) = ToSet(x)
    BY <2>18 DEF Result, IsList
  <2>22. ~(Len(x) <= 1)
    BY <1>1, <1>3
  <2>23. Sorts(h, before, p, x, r)
    BY <2>19, <2>20, <2>21, <2>22 DEF Sorts
  <2> QED BY <2>1, <2>23
<1> QED BY <1>1, <1>2, <1>3

(* g_list_sort sorts every list. *)
LEMMA SortCorrect ==
    ASSUME NEW before, NEW h \in Heaps, NEW p, NEW x, IsList(h, p, x), Order(h, before, ToSet(x))
    PROVE  LET r == g_list_sort(h, p, before)
           IN  \E s : Result(h, ToSet(x), before, r.heap, r.list, s)
<1>0. PICK sort : IsSort(sort, before)
  BY SortSteps
<1>1. /\ sort \in [0..Bound -> [Heaps \X Pointers -> SortState]]
      /\ \A g \in Heaps, q \in Pointers : g_list_sort(g, q, before) = sort[Bound][<<g, q>>]
      /\ \A g \in Heaps, q \in Pointers : sort[0][<<g, q>>] = [heap |-> g, list |-> q]
      /\ \A n \in 1..Bound : \A g \in Heaps, q \in Pointers :
            sort[n][<<g, q>>] = SortTurn(before, sort[n - 1], g, q)
  BY <1>0 DEF IsSort
<1> DEFINE All(n) == \A g \in Heaps : \A q, y : Path(g, q, y) /\ Order(g, before, ToSet(y)) /\ Len(y) <= n + 1
                                                => Sorts(g, before, q, y, sort[n][<<g, q>>])
           E == {n \in 0..Bound : All(n)}
<1>2. 0 \in E
  <2>1. 0 \in 0..Bound
    BY BoundNat
  <2>2. ASSUME NEW g \in Heaps, NEW q, NEW y, Path(g, q, y), Len(y) <= 0 + 1
        PROVE  Sorts(g, before, q, y, sort[0][<<g, q>>])
    <3>1. q \in Pointers /\ Len(y) <= 1
      BY <2>2, ChainIs
    <3>2. sort[0][<<g, q>>] = [heap |-> g, list |-> q]
      BY <1>1, <3>1
    <3> QED BY <2>2, <3>1, <3>2, SortShort
  <2> QED BY <2>1, <2>2
<1>3. ASSUME NEW n \in 1..Bound, n - 1 \in E PROVE n \in E
  <2>1. n \in 0..Bound /\ n \in Nat \ {0} /\ (n - 1) + 1 = n /\ n - 1 \in 0..Bound
    BY BoundNat
  <2> DEFINE f == sort[n - 1]
  <2>2. f \in [Heaps \X Pointers -> SortState]
    BY <1>1, <2>1
  <2>3. \A g \in Heaps : \A q, y : Path(g, q, y) /\ Order(g, before, ToSet(y)) /\ Len(y) <= n
                                     => Sorts(g, before, q, y, f[<<g, q>>])
    BY <1>3, <2>1
  <2> HIDE DEF f
  <2>4. ASSUME NEW g \in Heaps, NEW q, NEW y, Path(g, q, y), Order(g, before, ToSet(y)), Len(y) <= n + 1
        PROVE  Sorts(g, before, q, y, sort[n][<<g, q>>])
    <3>1. sort[n][<<g, q>>] = SortTurn(before, f, g, q)
      <4>1. q \in Pointers
        BY <2>4, ChainIs
      <4> QED BY <1>1, <4>1 DEF f
    <3>2. Sorts(g, before, q, y, SortTurn(before, f, g, q))
      BY <2>1, <2>2, <2>3, <2>4, SortLevel
    <3> QED BY <3>1, <3>2
  <2> QED BY <2>1, <2>4
<1>4. \A n \in 0..Bound : n \in E
  <2>1. Bound \in Nat
    BY BoundNat
  <2> HIDE DEF E
  <2> QED BY <1>2, <1>3, <2>1, UpTo
<1>5. x \in Seq(Cells) /\ Path(h, p, x) /\ Len(x) <= Bound + 1
  <2>1. x \in Seq(Cells) /\ Path(h, p, x) /\ Distinct(x)
    BY DEF IsList, Path
  <2>2. Len(x) <= Cardinality(Cells) /\ Len(x) \in Nat
    BY <2>1, CellsAssumption, DistinctLen, SeqFacts
  <2> QED BY <2>1, <2>2, BoundNat DEF Bound
<1> DEFINE r == g_list_sort(h, p, before)
<1>6. Sorts(h, before, p, x, r)
  <2>1. Bound \in E
    BY <1>4, BoundNat
  <2>2. r = sort[Bound][<<h, p>>]
    BY <1>1, <1>5, ChainIs
  <2> HIDE DEF r
  <2> QED BY <1>5, <2>1, <2>2
<1> HIDE DEF r
<1>7. PICK s : /\ Path(r.heap, r.list, s) /\ ToSet(s) = ToSet(x)
               /\ Keeps(h, r.heap, ToSet(x)) /\ Sorted(before, h, s)
               /\ Len(x) > 1 => IsList(r.heap, r.list, s)
               /\ Len(x) <= 1 => r.heap = h /\ r.list = p /\ s = x
  BY <1>6 DEF Sorts
<1>8. IsList(r.heap, r.list, s)
  <2>1. Len(x) \in Nat
    BY <1>5, SeqFacts
  <2>2. CASE Len(x) > 1
    BY <1>7, <2>2
  <2>3. CASE Len(x) <= 1
    BY <1>7, <2>3
  <2> QED BY <2>1, <2>2, <2>3
<1>9. Result(h, ToSet(x), before, r.heap, r.list, s)
  BY <1>7, <1>8 DEF Result
<1> QED BY <1>9 DEF r
-----------------------------------------------------------------------------
(* Reading a list. *)

(* g_list_first of the first cell of a list is that cell. *)
LEMMA FirstCorrect ==
    ASSUME NEW h \in Heaps, NEW p, NEW s, IsList(h, p, s)
    PROVE  g_list_first(h, p) = p
<1> DEFINE Is(f) == f = [n \in 0..Bound |->
                            IF n = 0 THEN p
                            ELSE LET q == f[n - 1] IN IF prev(h, q) \in Cells THEN prev(h, q) ELSE q]
           at == CHOOSE f : Is(f)
           g == [n \in 0..Bound |-> p]
<1>1. g_list_first(h, p) = at[Bound]
  BY DEF g_list_first
<1>2. prev(h, p) \notin Cells
  <2>1. CASE p = NULL
    BY <2>1, NoCells DEF prev, Cell, FreeCell
  <2>2. CASE p # NULL
    <3>1. s # <<>> /\ p \in Cells
      BY <2>2, ChainIs DEF IsList
    <3>2. p = s[1] /\ h.cell[s[1]].prev = NULL
      BY <3>1, PathRest DEF IsList
    <3> QED BY <3>1, <3>2, NoCells, ReadType
  <2> QED BY <2>1, <2>2
<1>3. Is(g)
  <2>1. \A n \in 0..Bound : n # 0 => n - 1 \in 0..Bound
    BY BoundNat
  <2>2. \A n \in 0..Bound : p = IF n = 0 THEN p ELSE IF prev(h, g[n - 1]) \in Cells THEN prev(h, g[n - 1]) ELSE g[n - 1]
    BY <1>2, <2>1
  <2> QED BY <2>2
<1>4. Is(at)
  <2> HIDE DEF Is, g
  <2> QED BY <1>3
<1> HIDE DEF at
<1>5. at[0] = p
  BY <1>4, BoundNat
<1>6. \A n \in 1..Bound : at[n] = IF prev(h, at[n - 1]) \in Cells THEN prev(h, at[n - 1]) ELSE at[n - 1]
  <2>1. \A n \in 1..Bound : n \in 0..Bound /\ n # 0
    BY BoundNat
  <2> QED BY <1>4, <2>1
<1> HIDE DEF Is
<1> DEFINE E == {n \in 0..Bound : at[n] = p}
<1>7. \A n \in 0..Bound : n \in E
  <2>1. 0 \in E
    BY <1>5, BoundNat
  <2>2. ASSUME NEW n \in 1..Bound, n - 1 \in E PROVE n \in E
    BY <1>2, <1>6, <2>2, BoundNat
  <2>3. Bound \in Nat
    BY BoundNat
  <2> HIDE DEF E
  <2> QED BY <2>1, <2>2, <2>3, UpTo
<1>8. Bound \in E
  BY <1>7, BoundNat
<1> QED BY <1>1, <1>8

(* g_list_find_custom finds a cell with the irq if there is one. *)
LEMMA FindCorrect ==
    ASSUME NEW h \in Heaps, NEW p, NEW s, IsList(h, p, s), NEW i
    PROVE  LET e == g_list_find_custom(h, p, i)
           IN  \/ e = NULL /\ \A k \in 1..Len(s) : h.cell[s[k]].data # i
               \/ e # NULL /\ \E k \in 1..Len(s) : e = s[k] /\ h.cell[s[k]].data = i
<1> DEFINE I == {k \in 1..Len(s) : Cell(h, s[k]).data = i}
           e == g_list_find_custom(h, p, i)
<1>1. s \in Seq(Cells) /\ Len(s) \in Nat /\ (\A k \in 1..Len(s) : s[k] \in Cells) /\ Chain(h, p) = s
  BY SeqFacts, ChainIs DEF IsList, Path
<1>2. \A k \in 1..Len(s) : Cell(h, s[k]).data = h.cell[s[k]].data
  BY <1>1, ReadType
<1>3. e = LET k == IF I # {} THEN Min(I) ELSE 0 IN IF k = 0 THEN NULL ELSE s[k]
  BY <1>1 DEF g_list_find_custom, SelectInSeq
<1> HIDE DEF e
<1>4. CASE I = {}
  <2>1. e = NULL
    BY <1>3, <1>4
  <2>2. \A k \in 1..Len(s) : h.cell[s[k]].data # i
    BY <1>2, <1>4
  <2> QED BY <2>1, <2>2 DEF e
<1>5. CASE I # {}
  <2>1. I \in SUBSET Nat
    BY <1>1
  <2> HIDE DEF I
  <2>2. Min(I) \in I
    BY <1>5, <2>1, LeastNatural
  <2>3. Min(I) \in 1..Len(s) /\ Cell(h, s[Min(I)]).data = i
    BY <2>2 DEF I
  <2>4. Min(I) # 0
    BY <1>1, <2>3
  <2>5. e = s[Min(I)]
    BY <1>3, <1>5, <2>4
  <2>6. e # NULL
    BY <1>1, <2>3, <2>5, NoCells
  <2>7. h.cell[s[Min(I)]].data = i
    BY <1>2, <2>3
  <2> QED BY <2>3, <2>5, <2>6, <2>7 DEF e
<1> QED BY <1>4, <1>5

(* What the invariant says of a list in memory. *)
LEMMA LinkedIs ==
    ASSUME NEW h \in Heaps, NEW p, NEW s, IsList(h, p, s)
    PROVE  Linked(h, p)
<1>1. s \in Seq(Cells) /\ Len(s) \in Nat /\ DOMAIN s = 1..Len(s) /\ \A k \in 1..Len(s) : s[k] \in Cells
  BY SeqFacts DEF IsList, Path
<1>2. Chain(h, p) = s
  BY ChainIs DEF IsList
<1>3. IsInjective(s)
  BY <1>1 DEF IsInjective, IsList, Path, Distinct
<1>4. ASSUME p # NULL PROVE IsLive(h, p) /\ prev(h, p) = NULL /\ next(h, Last(s)) = NULL
  <2>1. s # <<>> /\ p \in Cells
    BY <1>4, ChainIs DEF IsList
  <2>2. p = s[1] /\ 1 \in 1..Len(s)
    BY <2>1, PathRest DEF IsList
  <2>3. Last(s) = s[Len(s)] /\ Len(s) \in 1..Len(s) /\ Len(s) + 1 \notin 1..Len(s)
    <3>1. Last(s) = s[Len(s)]
      BY <1>1, <2>1, SeqFacts
    <3> QED BY <1>1, <2>2, <3>1
  <2>4. IsLive(h, p) /\ prev(h, p) = NULL
    <3>1. h.cell[s[1]].live /\ h.cell[s[1]].prev = NULL
      BY <2>1, <2>2 DEF IsList, Path
    <3> QED BY <2>1, <2>2, <3>1, ReadType DEF IsLive
  <2>5. next(h, s[Len(s)]) = NULL
    <3>1. h.cell[s[Len(s)]].next = At(s, Len(s) + 1)
      BY <2>3 DEF IsList, Path
    <3>2. At(s, Len(s) + 1) = NULL
      BY <2>3 DEF At
    <3> QED BY <1>1, <2>3, <3>1, <3>2, ReadType
  <2> QED BY <2>3, <2>4, <2>5
<1>5. ASSUME NEW k \in 1..Len(s) - 1 PROVE prev(h, s[k + 1]) = s[k]
  <2>1. k + 1 \in 2..Len(s) /\ k + 1 \in 1..Len(s) /\ (k + 1) - 1 = k /\ k \in 1..Len(s)
    BY <1>1
  <2>2. h.cell[s[k + 1]].prev = At(s, (k + 1) - 1)
    BY <2>1 DEF IsList, Path
  <2>3. At(s, k) = s[k]
    BY <2>1 DEF At
  <2> QED BY <1>1, <2>1, <2>2, <2>3, ReadType
<1> QED BY <1>2, <1>3, <1>4, <1>5 DEF Linked

(* The sequences of the elements of a set. *)
LEMMA PermutationFacts ==
    ASSUME NEW S, IsFiniteSet(S), NEW s \in SetToSeqs(S)
    PROVE  s \in Seq(S) /\ Len(s) = Cardinality(S) /\ Distinct(s) /\ ToSet(s) = S
<1> DEFINE n == Cardinality(S)
<1>1. n \in Nat
  BY FS_CardinalityType
<1>2. s \in [1..n -> S] /\ \A j, k \in 1..n : j # k => s[j] # s[k]
  BY DEF SetToSeqs
<1> HIDE DEF n
<1>3. s \in Seq(S) /\ Len(s) = n
  BY <1>1, <1>2, SeqOfFunction
<1>4. Distinct(s)
  BY <1>2, <1>3 DEF Distinct
<1>5. Cardinality(ToSet(s)) = n
  BY <1>3, <1>4, DistinctLen
<1>6. ToSet(s) \in SUBSET S
  BY <1>3, SeqFacts
<1>7. ToSet(s) = S
  BY <1>5, <1>6, FS_Subset DEF n
<1> QED BY <1>3, <1>4, <1>7 DEF n

(* The order in which a sequence of all irqs has them. *)
LEMMA BeforeOrder ==
    ASSUME NEW ord \in SetToSeqs(Irqs)
    PROVE  StrictOrder(Before(ord))
<1> DEFINE n == Len(ord)
<1>1. n \in Nat /\ IsFiniteSet(Irqs)
  BY CellsAssumption, PermutationFacts, SeqFacts
<1>3. ord \in Seq(Irqs) /\ DOMAIN ord = 1..n /\ ToSet(ord) = Irqs /\ Distinct(ord)
  BY <1>1, PermutationFacts, SeqFacts
<1>2. \A j, k \in 1..n : j # k => ord[j] # ord[k]
  BY <1>3 DEF Distinct
<1>6. ToSet(ord) = Irqs
  BY <1>3
<1>7. ToSet(ord) = {ord[k] : k \in 1..n}
  BY <1>3, SeqFacts
<1> HIDE DEF n
<1>8. \A i, j \in Irqs : Precedes(Before(ord), i, j) <=> \E a, b \in 1..n : a < b /\ ord[a] = i /\ ord[b] = j
  BY <1>3 DEF Precedes, Before
<1>9. ASSUME NEW i \in Irqs, NEW j \in Irqs, i # j PROVE Precedes(Before(ord), i, j) \/ Precedes(Before(ord), j, i)
  <2>1. PICK a \in 1..n : ord[a] = i
    BY <1>6, <1>7
  <2>2. PICK b \in 1..n : ord[b] = j
    BY <1>6, <1>7
  <2>3. a # b
    BY <1>9, <2>1, <2>2
  <2>4. a < b \/ b < a
    BY <1>1, <2>3
  <2> QED BY <1>8, <2>1, <2>2, <2>4
<1>10. ASSUME NEW i \in Irqs, NEW j \in Irqs, NEW k \in Irqs,
              Precedes(Before(ord), i, j), Precedes(Before(ord), j, k)
       PROVE  Precedes(Before(ord), i, k)
  <2>1. PICK a, b \in 1..n : a < b /\ ord[a] = i /\ ord[b] = j
    BY <1>8, <1>10
  <2>2. PICK c, d \in 1..n : c < d /\ ord[c] = j /\ ord[d] = k
    BY <1>8, <1>10
  <2>3. b = c
    BY <1>2, <2>1, <2>2
  <2>4. a < d
    BY <1>1, <2>1, <2>2, <2>3
  <2> QED BY <1>8, <2>1, <2>2, <2>4
<1> QED BY <1>9, <1>10 DEF StrictOrder
-----------------------------------------------------------------------------
(* The state. *)

(* The cells of every list, and the irqs on them; those on one list, and   *)
(* those for_each_irq has still to visit.                                  *)
CellsFrom(h, hd) == [l \in Lists |-> Chain(h, hd[l])]
IrqsFrom(h, hd)  == [l \in Lists |-> Data(h, hd[l])]
CellsOn          == CellsFrom(heap, head)
Held             == IrqsFrom(heap, head)
On(l)            == ToSet(Held[l])
Todo             == Data(heap, walk.entry)

(* The callbacks of for_each_irq. *)
Callbacks == {"force_rebalance_irq", "move_candidate_irqs", "force_irq_migration", "place_irq_in_node",
              "find_best_object_for_irq", "free_irq"}

(* The walk is at the k-th cell of its list, or behind the last one. *)
AtCell(k) == k \in 1..Len(CellsOn[walk.on]) + 1 /\ walk.entry = At(CellsOn[walk.on], k)

(* The lists in memory are lists, and the walk is on one. *)
MemoryInv ==
    /\ Rep(heap, head, CellsOn)
    /\ \/ walk = NoWalk
       \/ walk \in [on : Lists, cb : Callbacks, entry : Cells \cup {NULL}] /\ \E k : AtCell(k)

(* Which list is walked, and why, when. *)
PhaseInv ==
    /\ pc \in {"build", "rebalance", "migrate", "place", "free_irq_db", "free_db", "free_banned_irqs",
              "free_banned", "exit"}
    /\ pc \in {"build", "free_irq_db", "free_banned_irqs", "exit"} => walk = NoWalk
    /\ pc = "rebalance" => walk.cb = "force_rebalance_irq" /\ walk.on = "interrupts_db"
    /\ pc = "migrate" => \/ walk = NoWalk
                         \/ walk.cb \in {"move_candidate_irqs", "force_irq_migration"} /\ walk.on \in Objs
    /\ pc = "place" => \/ walk = NoWalk
                       \/ walk.cb = "place_irq_in_node" /\ walk.on = "rebalance_irq_list"
                       \/ walk.cb = "find_best_object_for_irq" /\ walk.on \in Objs
    /\ pc = "free_db" => \/ walk = NoWalk
                         \/ walk.cb = "free_irq" /\ walk.on = "interrupts_db"
    /\ pc = "free_banned" => \/ walk = NoWalk
                             \/ walk.cb = "free_irq" /\ walk.on = "banned_irqs"
                             \/ walk.cb = "free_irq" /\ walk.on = "interrupts_db" /\ Todo = <<>>

(* An irq is on the list of the object it is assigned to. *)
AssignedInv ==
    /\ assigned \in [Irqs -> Objs \cup {NULL}]
    /\ \A o \in Objs : \A i \in On(o) : assigned[i] = o
    /\ \A i \in On("rebalance_irq_list") : assigned[i] = NULL
    /\ pc \in {"build", "rebalance"} => \A i \in On("interrupts_db") : assigned[i] = NULL

(* Each list has each irq once, the irqs to place are in the db. *)
ListsInv ==
    /\ \A l \in Lists : Distinct(Held[l])
    /\ On("interrupts_db") \cap On("banned_irqs") = {}
    /\ pc \in {"build", "rebalance", "migrate", "place", "free_irq_db"}
          => \A l \in Objs \cup {"rebalance_irq_list"} : On(l) \subseteq On("interrupts_db")
    /\ pc = "rebalance" => On("rebalance_irq_list") \cap ToSet(Todo) = {}
    /\ pc \notin {"migrate", "place"} => \A o \in Objs : Held[o] = <<>>
    /\ pc \in {"build", "exit"} => Held["rebalance_irq_list"] = <<>>
    /\ pc \in {"free_banned_irqs", "free_banned", "exit"} => Held["interrupts_db"] = <<>>
    /\ pc = "exit" => Held["banned_irqs"] = <<>>

(* The irq_infos allocated are those of the irqs in the db and the banned  *)
(* ones, and while free_irq_db frees them, those it has still to visit.    *)
InfoInv ==
    info = IF pc = "free_db" THEN ToSet(Todo) \cup On("banned_irqs")
           ELSE IF pc = "free_banned" THEN ToSet(Todo) ELSE On("interrupts_db") \cup On("banned_irqs")

IInv == MemoryInv /\ PhaseInv /\ AssignedInv /\ ListsInv /\ InfoInv

(* The lists are what the pointers lead to. *)
LEMMA RepIs ==
    ASSUME NEW h, NEW hd, NEW cs, Rep(h, hd, cs)
    PROVE  /\ cs = CellsFrom(h, hd) /\ IrqsFrom(h, hd) = Contents(h, cs)
           /\ \A l \in Lists : /\ Chain(h, hd[l]) = cs[l] /\ Data(h, hd[l]) = DataOn(h, cs[l])
                               /\ IrqsFrom(h, hd)[l] = DataOn(h, cs[l]) /\ IrqsFrom(h, hd)[l] \in Seq(Irqs)
                               /\ Len(IrqsFrom(h, hd)[l]) = Len(cs[l])
                               /\ hd[l] = NULL <=> cs[l] = <<>>
<1>1. h \in Heaps /\ cs \in [Lists -> Seq(Cells)] /\ \A l \in Lists : IsList(h, hd[l], cs[l])
  BY DEF Rep
<1>2. ASSUME NEW l \in Lists
      PROVE /\ Chain(h, hd[l]) = cs[l] /\ Data(h, hd[l]) = DataOn(h, cs[l]) /\ DataOn(h, cs[l]) \in Seq(Irqs)
            /\ Len(DataOn(h, cs[l])) = Len(cs[l]) /\ (hd[l] = NULL <=> cs[l] = <<>>)
  <2>1. Path(h, hd[l], cs[l])
    BY <1>1 DEF IsList
  <2> QED BY <1>1, <2>1, ChainIs, DataIs
<1>3. cs = [l \in Lists |-> cs[l]]
  BY <1>1
<1>4. cs = CellsFrom(h, hd)
  BY <1>2, <1>3 DEF CellsFrom
<1>5. IrqsFrom(h, hd) = Contents(h, cs)
  BY <1>2 DEF IrqsFrom, Contents
<1>6. \A l \in Lists : IrqsFrom(h, hd)[l] = DataOn(h, cs[l])
  BY <1>2 DEF IrqsFrom
<1> QED BY <1>2, <1>4, <1>5, <1>6

(* f but for l. *)
With(f, l, v) == [f EXCEPT ![l] = v]

(* One list changes. *)
LEMMA OneChanges ==
    ASSUME NEW h, NEW hd, NEW cs, Rep(h, hd, cs), NEW l \in Lists,
           NEW g, NEW p, NEW t, IsList(g, p, t), Changes(h, g, cs[l], t)
    PROVE  /\ Rep(g, With(hd, l, p), With(cs, l, t))
           /\ IrqsFrom(g, With(hd, l, p)) = With(IrqsFrom(h, hd), l, DataOn(g, t))
<1> USE DEF With
<1>1. /\ Rep(g, [hd EXCEPT ![l] = p], [cs EXCEPT ![l] = t])
      /\ Contents(g, [cs EXCEPT ![l] = t]) = [Contents(h, cs) EXCEPT ![l] = DataOn(g, t)]
  BY RepChange
<1>2. IrqsFrom(h, hd) = Contents(h, cs)
  BY RepIs
<1>3. IrqsFrom(g, [hd EXCEPT ![l] = p]) = Contents(g, [cs EXCEPT ![l] = t])
  BY <1>1, RepIs
<1> QED BY <1>1, <1>2, <1>3

(* An irq is appended. *)
LEMMA AppendRep ==
    ASSUME NEW h, NEW hd, NEW cs, Rep(h, hd, cs), NEW l \in Lists, NEW i \in Irqs, AppendTo(h, hd, l, i)
    PROVE  \E c \in Cells : /\ Rep(heap', head', With(cs, l, Append(cs[l], c)))
                            /\ IrqsFrom(heap', head') = With(IrqsFrom(h, hd), l, Append(IrqsFrom(h, hd)[l], i))
<1>1. PICK c \in Malloc(h) : LET r == g_list_append(h, hd[l], c, i)
                             IN  heap' = r.heap /\ head' = [hd EXCEPT ![l] = r.list]
  BY DEF AppendTo
<1>2. c \in Cells /\ ~h.cell[c].live
  <2>1. {d \in Cells : ~h.cell[d].live} \in SUBSET Cells
    OBVIOUS
  <2>2. Pick({d \in Cells : ~h.cell[d].live}) \subseteq {d \in Cells : ~h.cell[d].live}
    BY <2>1, CellsAssumption
  <2> QED BY <1>1, <2>2 DEF Malloc
<1> DEFINE r == g_list_append(h, hd[l], c, i)
           t == Append(cs[l], c)
<1>3. /\ IsList(r.heap, r.list, t) /\ Changes(h, r.heap, cs[l], t)
      /\ DataOn(r.heap, t) = Append(DataOn(h, cs[l]), i)
  <2>1. h \in Heaps /\ IsList(h, hd[l], cs[l])
    BY DEF Rep
  <2> QED BY <1>2, <2>1, AppendCorrect
<1>4. heap' = r.heap /\ head' = With(hd, l, r.list)
  BY <1>1 DEF With
<1>5. IrqsFrom(h, hd)[l] = DataOn(h, cs[l])
  BY RepIs
<1> HIDE DEF r, t
<1>6. /\ Rep(r.heap, With(hd, l, r.list), With(cs, l, t))
      /\ IrqsFrom(r.heap, With(hd, l, r.list)) = With(IrqsFrom(h, hd), l, DataOn(r.heap, t))
  <2> DEFINE g == r.heap
             p == r.list
  <2>1. IsList(g, p, t) /\ Changes(h, g, cs[l], t)
    BY <1>3
  <2> HIDE DEF g, p
  <2>2. /\ Rep(g, With(hd, l, p), With(cs, l, t))
        /\ IrqsFrom(g, With(hd, l, p)) = With(IrqsFrom(h, hd), l, DataOn(g, t))
    BY <2>1, OneChanges
  <2> QED BY <2>2 DEF g, p
<1>7. /\ Rep(heap', head', With(cs, l, t))
      /\ IrqsFrom(heap', head') = With(IrqsFrom(h, hd), l, Append(IrqsFrom(h, hd)[l], i))
  BY <1>3, <1>4, <1>5, <1>6
<1> QED BY <1>2, <1>7 DEF t

(* An irq is moved from one list to the end of another. *)
LEMMA MigrateRep ==
    ASSUME NEW cs, Rep(heap, head, cs), NEW from \in Lists, NEW to \in Lists, from # to,
           Distinct(Held[from]), NEW k \in 1..Len(Held[from]), NEW i \in Irqs, Held[from][k] = i,
           migrate_irq(from, to, i)
    PROVE  \E c \in Cells :
              /\ Rep(heap', head', With(With(cs, from, RemoveAt(cs[from], k)), to, Append(cs[to], c)))
              /\ Held' = With(With(Held, from, RemoveAt(Held[from], k)), to, Append(Held[to], i))
<1> DEFINE entry == g_list_find_custom(heap, head[from], i)
           r == g_list_delete_link(heap, head[from], entry)
           s == cs[from]
           hd == With(head, from, r.list)
           cs2 == With(cs, from, RemoveAt(s, k))
<1>1. heap \in Heaps /\ IsList(heap, head[from], s)
  BY DEF Rep
<1>2. Held[from] = DataOn(heap, s) /\ Len(Held[from]) = Len(s) /\ \A j \in 1..Len(s) : Held[from][j] = heap.cell[s[j]].data
  <2>1. Held[from] = DataOn(heap, s) /\ Len(Held[from]) = Len(s)
    BY RepIs DEF Held
  <2>2. \A j \in 1..Len(s) : DataOn(heap, s)[j] = heap.cell[s[j]].data
    BY DEF DataOn
  <2> QED BY <2>1, <2>2
<1>3. entry # NULL /\ entry = s[k]
  <2>1. k \in 1..Len(s) /\ heap.cell[s[k]].data = i
    BY <1>2
  <2>2. PICK j \in 1..Len(s) : entry # NULL /\ entry = s[j] /\ heap.cell[s[j]].data = i
    BY <1>1, <2>1, FindCorrect
  <2>3. j = k
    BY <1>2, <2>1, <2>2 DEF Distinct
  <2> QED BY <2>2, <2>3
<1>4. AppendTo(r.heap, hd, to, i)
  BY <1>3 DEF migrate_irq, With
<1>5. r = g_list_delete_link(heap, head[from], s[k])
  BY <1>3
<1> HIDE DEF entry, r
<1>6. /\ IsList(r.heap, r.list, RemoveAt(s, k)) /\ Changes(heap, r.heap, s, RemoveAt(s, k))
      /\ DataOn(r.heap, RemoveAt(s, k)) = RemoveAt(DataOn(heap, s), k)
  BY <1>1, <1>2, <1>5, DeleteCorrect
<1>7. Rep(r.heap, hd, cs2) /\ IrqsFrom(r.heap, hd) = With(Held, from, RemoveAt(Held[from], k))
  BY <1>2, <1>6, OneChanges DEF Held
<1> HIDE DEF hd, cs2
<1>8. PICK c \in Cells : /\ Rep(heap', head', With(cs2, to, Append(cs2[to], c)))
                         /\ IrqsFrom(heap', head') = With(IrqsFrom(r.heap, hd), to, Append(IrqsFrom(r.heap, hd)[to], i))
  BY <1>4, <1>7, AppendRep
<1>9. cs2[to] = cs[to]
  BY DEF cs2, Rep, With
<1>10. IrqsFrom(r.heap, hd)[to] = Held[to]
  BY <1>7 DEF Held, IrqsFrom, With
<1>11. Held' = IrqsFrom(heap', head')
  BY DEF Held
<1>12. Rep(heap', head', With(With(cs, from, RemoveAt(cs[from], k)), to, Append(cs[to], c)))
  BY <1>8, <1>9 DEF cs2
<1>13. Held' = With(With(Held, from, RemoveAt(Held[from], k)), to, Append(Held[to], i))
  BY <1>7, <1>8, <1>10, <1>11
<1> QED BY <1>12, <1>13

-----------------------------------------------------------------------------
(* The walk. *)

(* The rest of a sequence from a position on, with and without the element *)
(* there.                                                                  *)
LEMMA SuffixTail ==
    ASSUME NEW S, NEW s \in Seq(S), NEW k \in 1..Len(s)
    PROVE  /\ Suffix(s, k) \in Seq(S) /\ Suffix(s, k) # <<>> /\ Head(Suffix(s, k)) = s[k]
           /\ Tail(Suffix(s, k)) = Suffix(s, k + 1)
           /\ Suffix(RemoveAt(s, k), k) = Suffix(s, k + 1)
<1> DEFINE n == Len(s)
           t == Suffix(s, k)
           u == Suffix(s, k + 1)
           r == RemoveAt(s, k)
           v == Suffix(r, k)
<1>1. n \in Nat /\ k \in Nat /\ k \in 1..n + 1 /\ k + 1 \in 1..n + 1
  BY SeqFacts
<1>2. t \in Seq(S) /\ Len(t) = n + 1 - k /\ \A j \in 1..n + 1 - k : t[j] = s[k + j - 1]
  BY <1>1, SuffixFacts
<1>3. u \in Seq(S) /\ Len(u) = n + 1 - (k + 1) /\ \A j \in 1..n + 1 - (k + 1) : u[j] = s[(k + 1) + j - 1]
  BY <1>1, SuffixFacts
<1>4. r \in Seq(S) /\ Len(r) = n - 1 /\ \A j \in 1..n - 1 : r[j] = IF j < k THEN s[j] ELSE s[j + 1]
  BY RemoveAtFacts
<1> HIDE DEF r, t, u, n
<1>5. v \in Seq(S) /\ Len(v) = n - k /\ \A j \in 1..n - k : v[j] = r[k + j - 1]
  <2>1. k \in 1..Len(r) + 1 /\ Len(r) + 1 - k = n - k
    BY <1>1, <1>4
  <2>2. v \in Seq(S) /\ Len(v) = Len(r) + 1 - k /\ \A j \in 1..Len(r) + 1 - k : v[j] = r[k + j - 1]
    BY <1>4, <2>1, SuffixFacts
  <2> QED BY <2>1, <2>2
<1> HIDE DEF v
<1>6. t # <<>> /\ Head(t) = s[k]
  <2>1. Len(t) \in Nat \ {0} /\ 1 \in 1..n + 1 - k /\ k + 1 - 1 = k
    BY <1>1, <1>2
  <2>2. t[1] = s[k]
    BY <1>2, <2>1
  <2>3. t # <<>>
    BY <1>2, <2>1, SeqFacts
  <2> QED BY <2>2, <2>3
<1>7. Tail(t) = u
  <2>1. Tail(t) \in Seq(S) /\ Len(Tail(t)) = Len(t) - 1 /\ \A j \in 1..Len(t) - 1 : Tail(t)[j] = t[j + 1]
    BY <1>2, <1>6
  <2>2. Len(t) - 1 = n - k /\ n + 1 - (k + 1) = n - k
    BY <1>1, <1>2
  <2>3. ASSUME NEW j \in 1..n - k PROVE Tail(t)[j] = u[j]
    <3>1. j + 1 \in 1..n + 1 - k /\ k + (j + 1) - 1 = (k + 1) + j - 1
      BY <1>1
    <3> QED BY <1>2, <1>3, <2>1, <2>2, <3>1
  <2> HIDE DEF t
  <2>4. Len(Tail(t)) = n - k /\ Len(u) = n - k
    BY <1>3, <2>1, <2>2
  <2> QED BY <1>3, <2>1, <2>3, <2>4, SeqSame
<1>8. v = u
  <2>1. n + 1 - (k + 1) = n - k
    BY <1>1
  <2>2. ASSUME NEW j \in 1..n - k PROVE v[j] = u[j]
    <3>1. k + j - 1 \in 1..n - 1 /\ ~(k + j - 1 < k) /\ k + j - 1 + 1 = (k + 1) + j - 1
      BY <1>1
    <3>2. r[k + j - 1] = s[k + j - 1 + 1]
      BY <1>4, <3>1
    <3> QED BY <1>3, <1>5, <2>1, <3>1, <3>2
  <2> QED BY <1>3, <1>5, <2>1, <2>2, SeqSame
<1> QED BY <1>2, <1>6, <1>7, <1>8 DEF t, u, v, r

(* The rest of a sequence has the elements from the position on. *)
LEMMA SuffixElements ==
    ASSUME NEW S, NEW s \in Seq(S), NEW k \in 1..Len(s) + 1
    PROVE  /\ Suffix(s, k) \in Seq(S) /\ ToSet(Suffix(s, k)) = {s[j] : j \in k..Len(s)}
           /\ ToSet(Suffix(s, k)) \subseteq ToSet(s)
           /\ Suffix(s, k) = <<>> <=> k = Len(s) + 1
           /\ k = 1 => Suffix(s, k) = s
<1> DEFINE n == Len(s)
           t == Suffix(s, k)
<1>1. n \in Nat /\ k \in Nat /\ 1 <= k /\ k <= n + 1
  BY SeqFacts
<1>2. t \in Seq(S) /\ Len(t) = n + 1 - k /\ \A j \in 1..n + 1 - k : t[j] = s[k + j - 1]
  BY SuffixFacts
<1>3. ToSet(t) = {t[j] : j \in 1..Len(t)} /\ ToSet(s) = {s[j] : j \in 1..n}
  BY <1>2, SeqFacts
<1> HIDE DEF t, n
<1>4. ToSet(t) = {s[j] : j \in k..n}
  <2>1. ASSUME NEW x \in ToSet(t) PROVE x \in {s[j] : j \in k..n}
    <3>1. PICK j \in 1..Len(t) : x = t[j]
      BY <1>3
    <3>2. k + j - 1 \in k..n /\ j \in 1..n + 1 - k
      BY <1>1, <1>2
    <3> QED BY <1>2, <3>1, <3>2
  <2>2. ASSUME NEW j \in k..n PROVE s[j] \in ToSet(t)
    <3>1. j - k + 1 \in 1..n + 1 - k /\ k + (j - k + 1) - 1 = j
      BY <1>1
    <3>2. t[j - k + 1] = s[k + (j - k + 1) - 1]
      BY <1>2, <3>1
    <3>3. j - k + 1 \in 1..Len(t) /\ t[j - k + 1] = s[j]
      BY <1>2, <3>1, <3>2
    <3> QED BY <1>3, <3>3
  <2> QED BY <2>1, <2>2
<1>5. k..n \subseteq 1..n
  BY <1>1
<1>6. t = <<>> <=> k = n + 1
  <2>1. t = <<>> <=> Len(t) = 0
    BY <1>2, SeqFacts
  <2> QED BY <1>1, <1>2, <2>1
<1>7. k = 1 => t = s
  <2> SUFFICES ASSUME k = 1 PROVE t = s
    OBVIOUS
  <2>1. Len(t) = n /\ \A j \in 1..n : j \in 1..n + 1 - k /\ k + j - 1 = j
    BY <1>1, <1>2
  <2>2. \A j \in 1..Len(t) : t[j] = s[j]
    BY <1>2, <2>1
  <2> QED BY <1>2, <2>1, <2>2, SeqSame DEF n
<1> QED BY <1>2, <1>3, <1>4, <1>5, <1>6, <1>7 DEF t, n

(* The lists of the state are sequences of irqs, all empty exactly if they *)
(* have no head.                                                           *)
LEMMA HeldFacts ==
    ASSUME MemoryInv
    PROVE  /\ heap \in Heaps /\ Held \in [Lists -> Seq(Irqs)] /\ CellsOn \in [Lists -> Seq(Cells)]
           /\ \A l \in Lists : /\ IsList(heap, head[l], CellsOn[l]) /\ Held[l] = DataOn(heap, CellsOn[l])
                               /\ Len(Held[l]) = Len(CellsOn[l]) /\ Len(Held[l]) \in Nat
                               /\ head[l] = NULL <=> Held[l] = <<>>
                               /\ On(l) = {Held[l][k] : k \in 1..Len(Held[l])} /\ On(l) \subseteq Irqs
<1>1. /\ Rep(heap, head, CellsOn) /\ heap \in Heaps /\ CellsOn \in [Lists -> Seq(Cells)]
      /\ \A l \in Lists : IsList(heap, head[l], CellsOn[l])
  BY DEF MemoryInv, Rep
<1>2. ASSUME NEW l \in Lists
      PROVE  /\ Held[l] = DataOn(heap, CellsOn[l]) /\ Held[l] \in Seq(Irqs) /\ Len(Held[l]) = Len(CellsOn[l])
             /\ head[l] = NULL <=> CellsOn[l] = <<>>
  BY <1>1, RepIs DEF Held
<1>3. ASSUME NEW l \in Lists
      PROVE  /\ Len(Held[l]) \in Nat /\ (CellsOn[l] = <<>> <=> Held[l] = <<>>)
             /\ On(l) = {Held[l][k] : k \in 1..Len(Held[l])} /\ On(l) \subseteq Irqs
  <2> DEFINE s == Held[l]
             c == CellsOn[l]
  <2>1. s \in Seq(Irqs) /\ c \in Seq(Cells) /\ Len(s) = Len(c)
    BY <1>1, <1>2
  <2> HIDE DEF s, c
  <2>2. (c = <<>> <=> Len(c) = 0) /\ (s = <<>> <=> Len(s) = 0)
    BY <2>1, SeqFacts
  <2>3. Len(s) \in Nat /\ ToSet(s) = {s[k] : k \in 1..Len(s)} /\ ToSet(s) \subseteq Irqs
    BY <2>1, SeqFacts
  <2> QED BY <2>1, <2>2, <2>3 DEF s, c, On
<1>4. Held \in [Lists -> Seq(Irqs)]
  <2>1. Held = [l \in Lists |-> Held[l]]
    BY DEF Held, IrqsFrom
  <2> QED BY <1>2, <2>1
<1> QED BY <1>1, <1>2, <1>3, <1>4

(* No list is walked: nothing is to be visited. *)
LEMMA IdleFacts ==
    ASSUME heap \in Heaps, walk = NoWalk
    PROVE  Todo = <<>> /\ walk.on = NoList /\ walk.entry = NULL /\ NoList \notin Lists
<1>1. walk.entry = NULL /\ walk.on = NoList
  BY DEF NoWalk
<1>2. IsList(heap, NULL, <<>>) /\ DataOn(heap, <<>>) = <<>>
  BY EmptyList
<1>3. Data(heap, NULL) = <<>>
  BY <1>2, DataIs DEF IsList
<1> QED BY <1>1, <1>3, ListsAssumption DEF Todo

(* What is to be visited is the rest of the list that is walked. *)
LEMMA WalkFacts ==
    ASSUME MemoryInv, walk # NoWalk
    PROVE  /\ walk.on \in Lists /\ walk.on # NoList
           /\ Todo \in Seq(Irqs) /\ ToSet(Todo) \subseteq On(walk.on)
           /\ walk.entry = NULL <=> Todo = <<>>
           /\ \E k \in 1..Len(Held[walk.on]) + 1 : AtCell(k) /\ Todo = Suffix(Held[walk.on], k)
<1> DEFINE l == walk.on
           s == Held[l]
           c == CellsOn[l]
<1>1. l \in Lists /\ l # NoList
  BY ListsAssumption DEF MemoryInv
<1>2. PICK k : AtCell(k)
  BY DEF MemoryInv
<1>3. /\ heap \in Heaps /\ IsList(heap, head[l], c) /\ s = DataOn(heap, c) /\ Len(s) = Len(c) /\ Len(s) \in Nat
      /\ s \in Seq(Irqs) /\ On(l) = ToSet(s) /\ c \in Seq(Cells)
  BY <1>1, HeldFacts DEF On
<1>4. k \in 1..Len(c) + 1 /\ walk.entry = At(c, k)
  BY <1>2 DEF AtCell
<1> HIDE DEF s, c, l
<1>5. Todo = Suffix(s, k)
  <2>1. Path(heap, head[l], c)
    BY <1>3 DEF IsList
  <2> QED BY <1>3, <1>4, <2>1, DataIs DEF Todo
<1>6. k \in 1..Len(s) + 1
  BY <1>3, <1>4
<1>7. Todo \in Seq(Irqs) /\ ToSet(Todo) \subseteq ToSet(s) /\ (Todo = <<>> <=> k = Len(s) + 1)
  BY <1>3, <1>5, <1>6, SuffixElements
<1>8. walk.entry = NULL <=> k = Len(c) + 1
  <2>1. k = Len(c) + 1 => k \notin 1..Len(c)
    BY <1>3
  <2>2. k # Len(c) + 1 => k \in 1..Len(c)
    BY <1>3, <1>4
  <2>3. \A j \in 1..Len(c) : c[j] # NULL
    BY <1>3, NoCells, SeqFacts
  <2> QED BY <1>4, <2>1, <2>2, <2>3 DEF At
<1> QED BY <1>1, <1>2, <1>3, <1>5, <1>6, <1>7, <1>8 DEF s, c, l

(* The irq the callback is called for, and the cell behind it. *)
LEMMA VisitFacts ==
    ASSUME MemoryInv, walk.entry # NULL
    PROVE  /\ walk # NoWalk /\ walk.on \in Lists /\ Todo \in Seq(Irqs) /\ Todo # <<>>
           /\ Irq = Head(Todo) /\ Irq \in Irqs /\ Irq \in ToSet(Todo) /\ Irq \in On(walk.on)
           /\ \E k \in 1..Len(Held[walk.on]) :
                 /\ Held[walk.on][k] = Irq /\ Tail(Todo) = Suffix(Held[walk.on], k + 1)
                 /\ Todo = Suffix(Held[walk.on], k)
                 /\ next(heap, walk.entry) = At(CellsOn[walk.on], k + 1)
<1> DEFINE l == walk.on
           s == Held[l]
           c == CellsOn[l]
<1>1. walk # NoWalk
  BY DEF NoWalk
<1>2. l \in Lists /\ Todo \in Seq(Irqs) /\ ToSet(Todo) \subseteq On(l) /\ Todo # <<>>
  BY <1>1, WalkFacts
<1>3. PICK k \in 1..Len(s) + 1 : AtCell(k) /\ Todo = Suffix(s, k)
  BY <1>1, WalkFacts
<1>4. /\ heap \in Heaps /\ IsList(heap, head[l], c) /\ s = DataOn(heap, c) /\ Len(s) = Len(c) /\ Len(s) \in Nat
      /\ s \in Seq(Irqs) /\ c \in Seq(Cells)
  BY <1>2, HeldFacts
<1>5. walk.entry = At(c, k)
  BY <1>3 DEF AtCell
<1> HIDE DEF s, c, l
<1>6. k \in 1..Len(s)
  BY <1>2, <1>3, <1>4, SuffixElements
<1>7. Head(Todo) = s[k] /\ Tail(Todo) = Suffix(s, k + 1)
  BY <1>3, <1>4, <1>6, SuffixTail
<1>8. k \in 1..Len(c) /\ walk.entry = c[k] /\ c[k] \in Cells
  <2>1. k \in 1..Len(c)
    BY <1>4, <1>6
  <2> QED BY <1>4, <1>5, <2>1, SeqFacts DEF At
<1>9. s[k] = heap.cell[c[k]].data /\ heap.cell[c[k]].next = At(c, k + 1)
  BY <1>4, <1>8 DEF DataOn, IsList, Path
<1>10. Irq = s[k] /\ next(heap, walk.entry) = At(c, k + 1)
  BY <1>4, <1>8, <1>9, ReadType DEF Irq
<1>11. Irq \in ToSet(Todo) /\ Irq \in Irqs
  <2>1. Irq \in Irqs
    BY <1>4, <1>6, <1>10, SeqFacts
  <2>2. Todo[1] \in ToSet(Todo) /\ Head(Todo) = Todo[1]
    <3>1. Len(Todo) \in Nat \ {0}
      BY <1>2, SeqFacts
    <3> QED BY <1>2, <3>1, SeqFacts
  <2> QED BY <1>7, <1>10, <2>1, <2>2
<1> QED BY <1>1, <1>2, <1>3, <1>6, <1>7, <1>10, <1>11 DEF s, c, l

(* A walk at a cell of a list. *)
LEMMA WalkAt ==
    ASSUME Rep(heap', head', CellsOn'), NEW l \in Lists, NEW b \in Callbacks, NEW k \in 1..Len(CellsOn'[l]) + 1,
           walk' = [on |-> l, cb |-> b, entry |-> At(CellsOn'[l], k)]
    PROVE  MemoryInv' /\ Todo' = Suffix(Held'[l], k) /\ walk'.on = l /\ walk'.cb = b
<1> DEFINE c == CellsOn'[l]
           e == walk'.entry
<1>1. heap' \in Heaps /\ IsList(heap', head'[l], c) /\ c \in Seq(Cells)
  BY DEF Rep
<1>2. walk'.on = l /\ walk'.cb = b /\ e = At(c, k) /\ k \in 1..Len(c) + 1
  OBVIOUS
<1>3. Data(heap', e) = Suffix(DataOn(heap', c), k)
  <2>1. Path(heap', head'[l], c)
    BY <1>1 DEF IsList
  <2> HIDE DEF c, e
  <2> QED BY <1>1, <1>2, <2>1, DataIs
<1>4. Held'[l] = DataOn(heap', c)
  <2>1. IrqsFrom(heap', head')[l] = DataOn(heap', c)
    BY RepIs
  <2> QED BY <2>1 DEF Held
<1>5. Todo' = Suffix(Held'[l], k)
  BY <1>3, <1>4 DEF Todo
<1>6. e \in Cells \cup {NULL}
  <2> HIDE DEF c, e
  <2> QED BY <1>1, <1>2, SeqFacts DEF At
<1>7. walk' \in [on : Lists, cb : Callbacks, entry : Cells \cup {NULL}]
  BY <1>6
<1>8. AtCell(k)'
  BY <1>2 DEF AtCell
<1> QED BY <1>2, <1>5, <1>7, <1>8 DEF MemoryInv

(* No walk. *)
LEMMA NoWalkAt ==
    ASSUME Rep(heap', head', CellsOn'), walk' = NoWalk
    PROVE  MemoryInv' /\ Todo' = <<>>
<1>1. heap' \in Heaps
  BY DEF Rep
<1>2. IsList(heap', NULL, <<>>) /\ DataOn(heap', <<>>) = <<>>
  BY EmptyList
<1>3. Data(heap', NULL) = <<>>
  BY <1>1, <1>2, DataIs DEF IsList
<1>4. walk'.entry = NULL
  BY DEF NoWalk
<1> QED BY <1>3, <1>4 DEF Todo, MemoryInv

(* What a step does to the lists: nothing, an irq joins one, an irq goes   *)
(* from one to the other.                                                  *)
Kept             == Held' = Held
Gained(l, i)     == Held' = With(Held, l, Append(Held[l], i))
Moved(from, to, i) ==
    \E k \in 1..Len(Held[from]) :
        /\ Held[from][k] = i
        /\ Held' = With(With(Held, from, RemoveAt(Held[from], k)), to, Append(Held[to], i))

(* The walk goes on with the next irq. *)
Advances == Todo' = Tail(Todo) /\ walk'.on = walk.on /\ walk'.cb = walk.cb

(* It does if the callback leaves the list alone or takes its irq off it. *)
LEMMA Advance ==
    ASSUME MemoryInv, walk.entry # NULL, Steps, Rep(heap', head', CellsOn'),
           NEW k \in 1..Len(Held[walk.on]), next(heap, walk.entry) = At(CellsOn[walk.on], k + 1),
           Tail(Todo) = Suffix(Held[walk.on], k + 1),
           \/ CellsOn'[walk.on] = CellsOn[walk.on] /\ Held'[walk.on] = Held[walk.on]
           \/ CellsOn'[walk.on] = RemoveAt(CellsOn[walk.on], k) /\ Held'[walk.on] = RemoveAt(Held[walk.on], k)
    PROVE  MemoryInv' /\ Advances
<1> DEFINE l == walk.on
           b == walk.cb
           s == Held[l]
           c == CellsOn[l]
           e == next(heap, walk.entry)
<1>1. l \in Lists /\ b \in Callbacks /\ walk' = [on |-> l, cb |-> b, entry |-> e]
  <2>1. walk \in [on : Lists, cb : Callbacks, entry : Cells \cup {NULL}]
    BY DEF MemoryInv, NoWalk
  <2> QED BY <2>1 DEF Steps
<1>2. s \in Seq(Irqs) /\ c \in Seq(Cells) /\ Len(s) = Len(c) /\ Len(s) \in Nat /\ e = At(c, k + 1)
  BY <1>1, HeldFacts
<1>3. /\ \/ CellsOn'[l] = c /\ Held'[l] = s
         \/ CellsOn'[l] = RemoveAt(c, k) /\ Held'[l] = RemoveAt(s, k)
      /\ Tail(Todo) = Suffix(s, k + 1) /\ k \in 1..Len(s)
  OBVIOUS
<1> HIDE DEF l, b, s, c, e
<1>4. CASE CellsOn'[l] = c /\ Held'[l] = s
  <2>1. k + 1 \in 1..Len(CellsOn'[l]) + 1
    BY <1>2, <1>3, <1>4
  <2>2. walk' = [on |-> l, cb |-> b, entry |-> At(CellsOn'[l], k + 1)]
    BY <1>1, <1>2, <1>4
  <2> DEFINE j == k + 1
  <2>3. MemoryInv' /\ Todo' = Suffix(Held'[l], j) /\ walk'.on = l /\ walk'.cb = b
    <3>1. j \in 1..Len(CellsOn'[l]) + 1 /\ walk' = [on |-> l, cb |-> b, entry |-> At(CellsOn'[l], j)]
      BY <2>1, <2>2
    <3> HIDE DEF j
    <3> QED BY <1>1, <3>1, WalkAt
  <2> QED BY <1>3, <1>4, <2>3 DEF Advances, l, b
<1>5. CASE CellsOn'[l] = RemoveAt(c, k) /\ Held'[l] = RemoveAt(s, k)
  <2>1. k \in 1..Len(c) /\ Len(RemoveAt(c, k)) = Len(c) - 1 /\ k \in 0..Len(c) /\ ~(k < k)
    BY <1>2, <1>3, RemoveAtFacts
  <2>2. k \in 1..Len(CellsOn'[l]) + 1
    BY <1>2, <1>5, <2>1
  <2>3. At(RemoveAt(c, k), k) = At(c, k + 1)
    BY <1>2, <2>1, RemoveAtFacts
  <2>4. walk' = [on |-> l, cb |-> b, entry |-> At(CellsOn'[l], k)]
    BY <1>1, <1>2, <1>5, <2>3
  <2>5. MemoryInv' /\ Todo' = Suffix(Held'[l], k) /\ walk'.on = l /\ walk'.cb = b
    BY <1>1, <2>2, <2>4, WalkAt
  <2>6. Suffix(RemoveAt(s, k), k) = Suffix(s, k + 1)
    BY <1>2, <1>3, SuffixTail
  <2> QED BY <1>3, <1>5, <2>5, <2>6 DEF Advances, l, b
<1> QED BY <1>3, <1>4, <1>5

(* A function that is changed at one place. *)
LEMMA WithFacts ==
    ASSUME NEW A, NEW f, f = [x \in A |-> f[x]], NEW l \in A, NEW v
    PROVE  /\ With(f, l, v) = [x \in A |-> IF x = l THEN v ELSE f[x]]
           /\ With(f, l, v) = [x \in A |-> With(f, l, v)[x]]
           /\ With(f, l, v)[l] = v /\ \A x \in A : x # l => With(f, l, v)[x] = f[x]
BY DEF With

(* The callback leaves its irq where it is. *)
LEMMA VisitKeeps ==
    ASSUME MemoryInv, walk.entry # NULL, Steps, UNCHANGED <<heap, head>>
    PROVE  MemoryInv' /\ Advances /\ Kept
<1>1. PICK k \in 1..Len(Held[walk.on]) :
         /\ Tail(Todo) = Suffix(Held[walk.on], k + 1)
         /\ next(heap, walk.entry) = At(CellsOn[walk.on], k + 1)
  BY VisitFacts
<1>2. CellsOn' = CellsOn /\ Held' = Held
  BY DEF CellsOn, CellsFrom, Held, IrqsFrom
<1>3. Rep(heap', head', CellsOn')
  BY <1>2 DEF MemoryInv
<1> QED BY <1>1, <1>2, <1>3, Advance DEF Kept

(* It appends its irq to a list that is not walked. *)
LEMMA VisitGains ==
    ASSUME MemoryInv, walk.entry # NULL, Steps, NEW to \in Lists, to # walk.on, AppendTo(heap, head, to, Irq)
    PROVE  MemoryInv' /\ Advances /\ Gained(to, Irq)
<1>1. PICK k \in 1..Len(Held[walk.on]) :
         /\ Tail(Todo) = Suffix(Held[walk.on], k + 1)
         /\ next(heap, walk.entry) = At(CellsOn[walk.on], k + 1)
  BY VisitFacts
<1>2. /\ Rep(heap, head, CellsOn) /\ Irq \in Irqs /\ walk.on \in Lists
      /\ CellsOn = [l \in Lists |-> CellsOn[l]] /\ Held = [l \in Lists |-> Held[l]]
  BY VisitFacts DEF MemoryInv, CellsOn, CellsFrom, Held, IrqsFrom
<1>3. PICK c \in Cells : /\ Rep(heap', head', With(CellsOn, to, Append(CellsOn[to], c)))
                         /\ IrqsFrom(heap', head') = With(IrqsFrom(heap, head), to, Append(IrqsFrom(heap, head)[to], Irq))
  BY <1>2, AppendRep
<1>4. CellsOn' = With(CellsOn, to, Append(CellsOn[to], c))
  BY <1>3, RepIs DEF CellsOn
<1>5. Held' = With(Held, to, Append(Held[to], Irq))
  BY <1>3 DEF Held
<1>6. CellsOn'[walk.on] = CellsOn[walk.on]
  BY <1>2, <1>4, WithFacts
<1>7. Held'[walk.on] = Held[walk.on]
  BY <1>2, <1>5, WithFacts
<1>8. Rep(heap', head', CellsOn')
  BY <1>3, <1>4
<1>9. MemoryInv' /\ Advances
  BY <1>1, <1>6, <1>7, <1>8, Advance
<1> QED BY <1>5, <1>9 DEF Gained

(* It moves its irq from the list that is walked to another. *)
LEMMA VisitMoves ==
    ASSUME MemoryInv, walk.entry # NULL, Steps, Distinct(Held[walk.on]),
           NEW to \in Lists, to # walk.on, migrate_irq(walk.on, to, Irq)
    PROVE  MemoryInv' /\ Advances /\ Moved(walk.on, to, Irq)
<1> DEFINE on == walk.on
           i == Irq
<1>1. PICK k \in 1..Len(Held[on]) :
         /\ Held[on][k] = i /\ Tail(Todo) = Suffix(Held[on], k + 1)
         /\ next(heap, walk.entry) = At(CellsOn[on], k + 1)
  BY VisitFacts
<1>2. /\ Rep(heap, head, CellsOn) /\ i \in Irqs /\ on \in Lists
      /\ CellsOn = [l \in Lists |-> CellsOn[l]] /\ Held = [l \in Lists |-> Held[l]]
  BY VisitFacts DEF MemoryInv, CellsOn, CellsFrom, Held, IrqsFrom
<1> DEFINE cs == With(CellsOn, on, RemoveAt(CellsOn[on], k))
           hs == With(Held, on, RemoveAt(Held[on], k))
<1>3. PICK c \in Cells : /\ Rep(heap', head', With(cs, to, Append(CellsOn[to], c)))
                         /\ Held' = With(hs, to, Append(Held[to], i))
  <2>1. migrate_irq(on, to, i) /\ on # to /\ Distinct(Held[on])
    OBVIOUS
  <2> HIDE DEF i, on
  <2> QED BY <1>1, <1>2, <2>1, MigrateRep
<1>4. CellsOn' = With(cs, to, Append(CellsOn[to], c))
  BY <1>3, RepIs DEF CellsOn
<1>5. CellsOn'[on] = RemoveAt(CellsOn[on], k)
  <2>1. cs = [l \in Lists |-> cs[l]] /\ cs[on] = RemoveAt(CellsOn[on], k)
    BY <1>2, WithFacts
  <2> HIDE DEF cs
  <2> QED BY <1>2, <1>4, <2>1, WithFacts
<1>6. Held'[on] = RemoveAt(Held[on], k)
  <2>1. hs = [l \in Lists |-> hs[l]] /\ hs[on] = RemoveAt(Held[on], k)
    BY <1>2, WithFacts
  <2> HIDE DEF hs
  <2> QED BY <1>2, <1>3, <2>1, WithFacts
<1>7. Rep(heap', head', CellsOn')
  BY <1>3, <1>4
<1>8. MemoryInv' /\ Advances
  BY <1>1, <1>5, <1>6, <1>7, Advance
<1>9. Moved(on, to, i)
  BY <1>1, <1>3 DEF Moved
<1> QED BY <1>8, <1>9

-----------------------------------------------------------------------------
(* Lists that are sorted or freed as a whole, and walks that begin. *)

(* for_each_irq begins with the first irq; no list stands for the db. *)
LEMMA BeginsAt ==
    ASSUME Rep(heap', head', CellsOn'), NEW l \in Lists, NEW b \in Callbacks,
           NEW h, NEW hd, h = heap', hd = head', Begins(h, hd, l, b)
    PROVE  /\ MemoryInv' /\ walk'.cb = b
           /\ walk'.on = IF Held'[l] = <<>> THEN "interrupts_db" ELSE l
           /\ Todo' = Held'[walk'.on]
<1> DEFINE on == IF head'[l] = NULL THEN "interrupts_db" ELSE l
           c == CellsOn'[on]
           s == Held'[on]
<1>1. on \in Lists
  BY DEF Lists
<1>2. walk' = [on |-> on, cb |-> b, entry |-> g_list_first(heap', head'[on])]
  BY DEF Begins, First
<1>3. heap' \in Heaps /\ IsList(heap', head'[on], c) /\ c \in Seq(Cells)
  BY <1>1 DEF Rep
<1>4. Held' = IrqsFrom(heap', head')
  BY DEF Held
<1>5. s \in Seq(Irqs) /\ Len(s) = Len(c) /\ (head'[l] = NULL <=> Held'[l] = <<>>)
  <2>1. s \in Seq(Irqs) /\ Len(s) = Len(c)
    <3> HIDE DEF on
    <3> QED BY <1>1, <1>4, RepIs
  <2>2. head'[l] = NULL <=> CellsOn'[l] = <<>>
    BY RepIs
  <2>3. Held'[l] \in Seq(Irqs) /\ CellsOn'[l] \in Seq(Cells) /\ Len(Held'[l]) = Len(CellsOn'[l])
    <3>1. CellsOn'[l] \in Seq(Cells)
      BY DEF Rep
    <3>2. Held'[l] \in Seq(Irqs) /\ Len(Held'[l]) = Len(CellsOn'[l])
      BY <1>4, RepIs
    <3> QED BY <3>1, <3>2
  <2>4. (Held'[l] = <<>> <=> Len(Held'[l]) = 0) /\ (CellsOn'[l] = <<>> <=> Len(CellsOn'[l]) = 0)
    BY <2>3, SeqFacts
  <2> QED BY <2>1, <2>2, <2>3, <2>4
<1>6. on = IF Held'[l] = <<>> THEN "interrupts_db" ELSE l
  BY <1>5
<1> HIDE DEF on, c, s
<1>7. g_list_first(heap', head'[on]) = At(c, 1)
  <2>1. g_list_first(heap', head'[on]) = head'[on]
    BY <1>3, FirstCorrect
  <2> QED BY <1>3, <2>1 DEF IsList, Path
<1>8. 1 \in 1..Len(c) + 1 /\ walk' = [on |-> on, cb |-> b, entry |-> At(CellsOn'[on], 1)]
  BY <1>2, <1>3, <1>7, SeqFacts DEF c
<1>9. MemoryInv' /\ Todo' = Suffix(Held'[on], 1) /\ walk'.on = on /\ walk'.cb = b
  <2> DEFINE k == 1
  <2>1. k \in 1..Len(CellsOn'[on]) + 1 /\ walk' = [on |-> on, cb |-> b, entry |-> At(CellsOn'[on], k)]
    BY <1>8 DEF c
  <2> HIDE DEF k
  <2>2. MemoryInv' /\ Todo' = Suffix(Held'[on], k) /\ walk'.on = on /\ walk'.cb = b
    BY <1>1, <2>1, WalkAt
  <2> QED BY <2>2 DEF k
<1>10. Suffix(s, 1) = s
  <2>1. 1 \in 1..Len(s) + 1
    BY <1>5, <1>8
  <2> QED BY <1>5, <2>1, SuffixElements
<1> QED BY <1>6, <1>9, <1>10 DEF s

(* The irqs on the cells of a list. *)
LEMMA DataElements ==
    ASSUME NEW h \in Heaps, NEW s \in Seq(Cells), \A k \in 1..Len(s) : h.cell[s[k]].data \in Irqs
    PROVE  /\ DataOn(h, s) \in Seq(Irqs) /\ Len(DataOn(h, s)) = Len(s) /\ Len(s) \in Nat
           /\ \A k \in 1..Len(s) : DataOn(h, s)[k] = h.cell[s[k]].data
           /\ ToSet(DataOn(h, s)) = {h.cell[c].data : c \in ToSet(s)}
<1>1. Len(s) \in Nat /\ ToSet(s) = {s[k] : k \in 1..Len(s)}
  BY SeqFacts
<1>2. DataOn(h, s) \in [1..Len(s) -> Irqs]
  BY DEF DataOn
<1>3. DataOn(h, s) \in Seq(Irqs) /\ Len(DataOn(h, s)) = Len(s)
  BY <1>1, <1>2, SeqOfFunction
<1>4. \A k \in 1..Len(s) : DataOn(h, s)[k] = h.cell[s[k]].data
  BY DEF DataOn
<1>5. ToSet(DataOn(h, s)) = {DataOn(h, s)[k] : k \in 1..Len(s)}
  BY <1>3, SeqFacts
<1>6. ToSet(DataOn(h, s)) = {h.cell[c].data : c \in ToSet(s)}
  BY <1>1, <1>4, <1>5
<1> QED BY <1>1, <1>3, <1>4, <1>6

(* What sorting promises of a list that has each irq once. *)
SortedList(h, x, ord, g, p, t) ==
    /\ IsList(g, p, t) /\ Changes(h, g, x, t)
    /\ DataOn(g, t) \in SetToSeqs(ToSet(DataOn(h, x)))
    /\ \A j, k \in 1..Len(DataOn(g, t)) : j < k => Before(ord)[<<DataOn(g, t)[j], DataOn(g, t)[k]>>]

(* It keeps the promise. *)
LEMMA SortExactly ==
    ASSUME NEW h \in Heaps, NEW p, NEW x, IsList(h, p, x), Distinct(DataOn(h, x)), NEW ord \in SetToSeqs(Irqs)
    PROVE  LET r == g_list_sort(h, p, Before(ord))
           IN  \E t : SortedList(h, x, ord, r.heap, r.list, t)
<1> DEFINE before == Before(ord)
           r == g_list_sort(h, p, before)
           g == r.heap
           q == r.list
           d == DataOn(h, x)
           S == ToSet(d)
<1>1. /\ x \in Seq(Cells) /\ Distinct(x)
      /\ \A k \in 1..Len(x) : h.cell[x[k]].live /\ h.cell[x[k]].data \in Irqs /\ x[k] \in Cells
  BY SeqFacts DEF IsList, Path
<1>2. /\ d \in Seq(Irqs) /\ Len(d) = Len(x) /\ Len(x) \in Nat
      /\ \A k \in 1..Len(x) : d[k] = h.cell[x[k]].data
      /\ S = {h.cell[c].data : c \in ToSet(x)} /\ ToSet(x) = {x[k] : k \in 1..Len(x)}
  BY <1>1, DataElements, SeqFacts
<1>3. \A a, b \in ToSet(x) : h.cell[a].data = h.cell[b].data => a = b
  <2> SUFFICES ASSUME NEW a \in ToSet(x), NEW b \in ToSet(x), h.cell[a].data = h.cell[b].data PROVE a = b
    OBVIOUS
  <2>1. PICK j \in 1..Len(x) : a = x[j]
    BY <1>2
  <2>2. PICK k \in 1..Len(x) : b = x[k]
    BY <1>2
  <2>3. d[j] = d[k] /\ j \in 1..Len(d) /\ k \in 1..Len(d)
    BY <1>2, <2>1, <2>2
  <2>4. j = k
    BY <2>3 DEF Distinct
  <2> QED BY <2>1, <2>2, <2>4
<1>4. StrictOrder(before)
  BY BeforeOrder
<1> HIDE DEF before
<1>5. Order(h, before, ToSet(x))
  BY <1>1, <1>2, <1>3, <1>4 DEF Order
<1>6. PICK t : Result(h, ToSet(x), before, g, q, t)
  <2> HIDE DEF d, S
  <2> QED BY <1>5, SortCorrect
<1> HIDE DEF r, g, q, d, S
<1>7. IsList(g, q, t) /\ ToSet(t) = ToSet(x) /\ Keeps(h, g, ToSet(x)) /\ Sorted(before, h, t)
  BY <1>6 DEF Result
<1> DEFINE e == DataOn(g, t)
<1>8. /\ t \in Seq(Cells) /\ Distinct(t) /\ g \in Heaps
      /\ \A k \in 1..Len(t) : g.cell[t[k]].live /\ g.cell[t[k]].data \in Irqs /\ t[k] \in Cells
      /\ \A c \in Cells : g.cell[c].live = h.cell[c].live /\ g.cell[c].data = h.cell[c].data
  BY <1>7, SeqFacts DEF IsList, Path, Keeps
<1>9. /\ e \in Seq(Irqs) /\ Len(e) = Len(t) /\ Len(t) \in Nat
      /\ \A k \in 1..Len(t) : e[k] = h.cell[t[k]].data
      /\ ToSet(t) = {t[k] : k \in 1..Len(t)}
  BY <1>8, DataElements, SeqFacts
<1>10. ToSet(e) = S
  <2>1. ToSet(e) = {g.cell[c].data : c \in ToSet(t)}
    BY <1>8, DataElements
  <2>2. \A c \in ToSet(t) : c \in Cells
    BY <1>8, <1>9
  <2> QED BY <1>2, <1>7, <1>8, <2>1, <2>2, SMTT(30)
<1> HIDE DEF e
<1>11. \A j, k \in 1..Len(e) : e[j] = e[k] => j = k
  <2> SUFFICES ASSUME NEW j \in 1..Len(e), NEW k \in 1..Len(e), e[j] = e[k] PROVE j = k
    OBVIOUS
  <2>1. t[j] \in ToSet(x) /\ t[k] \in ToSet(x) /\ h.cell[t[j]].data = h.cell[t[k]].data
    BY <1>7, <1>9
  <2>2. t[j] = t[k]
    BY <1>3, <2>1
  <2> QED BY <1>8, <1>9, <2>2 DEF Distinct
<1>12. Cardinality(S) = Len(e)
  <2>1. IsFiniteSet(Irqs) /\ Distinct(e)
    BY <1>11, CellsAssumption DEF Distinct
  <2> QED BY <1>9, <1>10, <2>1, DistinctLen
<1>13. e \in SetToSeqs(S)
  <2>1. e \in [1..Len(e) -> S]
    <3>1. \A k \in 1..Len(e) : e[k] \in S
      <4>1. ToSet(e) = {e[k] : k \in 1..Len(e)}
        BY <1>9, SeqFacts
      <4> QED BY <1>10, <4>1
    <3>2. e = [k \in 1..Len(e) |-> e[k]]
      BY <1>9
    <3> QED BY <3>1, <3>2
  <2> QED BY <1>11, <1>12, <2>1 DEF SetToSeqs
<1>14. Changes(h, g, x, t)
  <2>1. g \in Heaps /\ g.bad = h.bad /\ \A c \in Cells : c \notin ToSet(x) => SameCell(g, h, c)
    BY <1>7 DEF Keeps, SameCell
  <2>2. \A c \in Cells : c \in ToSet(t) => g.cell[c].live /\ c \in ToSet(x)
    BY <1>7, <1>8, <1>9
  <2> QED BY <1>7, <2>1, <2>2 DEF Changes
<1>15. ASSUME NEW j \in 1..Len(e), NEW k \in 1..Len(e), j < k PROVE before[<<e[j], e[k]>>]
  BY <1>7, <1>9, <1>15 DEF Sorted, Precedes
<1>16. SortedList(h, x, ord, g, q, t)
  BY <1>7, <1>13, <1>14, <1>15 DEF SortedList, e, S, d, before
<1> QED BY <1>16 DEF g, q, r, before

(* A list is sorted. *)
LEMMA SortRep ==
    ASSUME MemoryInv, NEW l \in Lists, Distinct(Held[l]), NEW ord \in SetToSeqs(Irqs),
           NEW r, r = g_list_sort(heap, head[l], Before(ord)),
           heap' = r.heap, head' = [head EXCEPT ![l] = r.list]
    PROVE  Rep(heap', head', CellsOn') /\ \E s \in SetToSeqs(On(l)) : Held' = With(Held, l, s)
<1> DEFINE x == CellsOn[l]
<1>1. heap \in Heaps /\ IsList(heap, head[l], x) /\ Held[l] = DataOn(heap, x) /\ Rep(heap, head, CellsOn)
  BY HeldFacts DEF MemoryInv
<1>2. PICK t : SortedList(heap, x, ord, r.heap, r.list, t)
  BY <1>1, SortExactly
<1> DEFINE g == r.heap
           p == r.list
           s == DataOn(g, t)
<1>3. IsList(g, p, t) /\ Changes(heap, g, x, t) /\ s \in SetToSeqs(On(l))
  BY <1>1, <1>2 DEF SortedList, On
<1>4. heap' = g /\ head' = With(head, l, p)
  BY DEF With
<1> HIDE DEF g, p
<1>5. Rep(g, With(head, l, p), With(CellsOn, l, t)) /\ IrqsFrom(g, With(head, l, p)) = With(IrqsFrom(heap, head), l, s)
  BY <1>1, <1>3, OneChanges
<1>6. CellsOn' = With(CellsOn, l, t)
  <2>1. With(CellsOn, l, t) = CellsFrom(g, With(head, l, p))
    BY <1>5, RepIs
  <2>2. CellsOn' = CellsFrom(heap', head')
    BY DEF CellsOn
  <2> QED BY <1>4, <2>1, <2>2
<1>7. Held' = With(Held, l, s)
  BY <1>4, <1>5 DEF Held
<1> QED BY <1>3, <1>4, <1>5, <1>6, <1>7

(* A list is freed. *)
LEMMA FreeRep ==
    ASSUME NEW h, NEW hd, NEW cs, Rep(h, hd, cs), NEW l \in Lists, NEW p, p = hd[l]
    PROVE  LET g == g_list_free(h, p)
           IN  /\ Rep(g, With(hd, l, NULL), With(cs, l, <<>>))
               /\ IrqsFrom(g, With(hd, l, NULL)) = With(IrqsFrom(h, hd), l, <<>>)
<1> DEFINE g == g_list_free(h, p)
<1>1. h \in Heaps /\ IsList(h, p, cs[l])
  BY DEF Rep
<1>2. Changes(h, g, cs[l], <<>>)
  BY <1>1, FreeCorrect
<1> HIDE DEF g
<1>3. IsList(g, NULL, <<>>) /\ DataOn(g, <<>>) = <<>>
  BY EmptyList
<1> DEFINE q == NULL
           t == <<>>
<1>4. IsList(g, q, t) /\ Changes(h, g, cs[l], t) /\ DataOn(g, t) = <<>>
  BY <1>2, <1>3
<1> HIDE DEF q, t
<1>5. /\ Rep(g, With(hd, l, q), With(cs, l, t))
      /\ IrqsFrom(g, With(hd, l, q)) = With(IrqsFrom(h, hd), l, DataOn(g, t))
  BY <1>4, OneChanges
<1> QED BY <1>4, <1>5 DEF g, q, t

(* Some lists are empty. *)
Emptied(f, S, v) == [l \in Lists |-> IF l \in S THEN v ELSE f[l]]

(* One more is. *)
LEMMA EmptiedOne ==
    ASSUME NEW f, NEW S, NEW v, NEW l \in Lists
    PROVE  With(Emptied(f, S, v), l, v) = Emptied(f, S \cup {l}, v)
BY DEF With, Emptied

(* None is. *)
LEMMA EmptiedNone ==
    ASSUME NEW f, f = [l \in Lists |-> f[l]], NEW v
    PROVE  Emptied(f, {}, v) = f
BY DEF Emptied

(* The lists of the objects are freed one after the other. *)
LEMMA FreeAllRep ==
    ASSUME MemoryInv, NEW objs \in SetToSeqs(Objs),
           LET freed[n \in 0..Len(objs)] == IF n = 0 THEN heap ELSE g_list_free(freed[n - 1], head[objs[n]])
           IN  heap' = freed[Len(objs)],
           head' = [l \in Lists |-> IF l \in Objs THEN NULL ELSE head[l]]
    PROVE  Rep(heap', head', CellsOn') /\ Held' = Emptied(Held, Objs, <<>>)
<1> DEFINE N == Len(objs)
           Is(f) == f = [n \in 0..N |-> IF n = 0 THEN heap ELSE g_list_free(f[n - 1], head[objs[n]])]
           freed == CHOOSE f : Is(f)
<1>1. heap' = freed[N] /\ head' = Emptied(head, Objs, NULL)
  BY DEF Emptied
<1>2. /\ N \in Nat /\ objs \in Seq(Objs) /\ ToSet(objs) = Objs /\ \A k \in 1..N : objs[k] \in Objs
      /\ \A j, k \in 1..N : objs[j] = objs[k] => j = k
  <2>1. objs \in Seq(Objs) /\ Distinct(objs) /\ ToSet(objs) = Objs
    BY ListsAssumption, PermutationFacts
  <2> QED BY <2>1, SeqFacts DEF Distinct
<1> DEFINE G(n) == {objs[j] : j \in 1..n}
           step == [x \in (1..N) \X Heaps |->
                       IF g_list_free(x[2], head[objs[x[1]]]) \in Heaps THEN g_list_free(x[2], head[objs[x[1]]])
                       ELSE heap]
           Good(h, S) == /\ Rep(h, Emptied(head, S, NULL), Emptied(CellsOn, S, <<>>))
                         /\ IrqsFrom(h, Emptied(head, S, NULL)) = Emptied(Held, S, <<>>)
<1>3. /\ heap \in Heaps /\ Good(heap, {}) /\ head = [l \in Lists |-> head[l]]
  <2>1. Rep(heap, head, CellsOn) /\ heap \in Heaps
    BY DEF MemoryInv, Rep
  <2>2. /\ head = [l \in Lists |-> head[l]] /\ CellsOn = [l \in Lists |-> CellsOn[l]]
        /\ Held = [l \in Lists |-> Held[l]] /\ Held = IrqsFrom(heap, head)
    BY <2>1 DEF Rep, CellsOn, CellsFrom, Held, IrqsFrom
  <2>3. Emptied(head, {}, NULL) = head /\ Emptied(CellsOn, {}, <<>>) = CellsOn /\ Emptied(Held, {}, <<>>) = Held
    BY <2>2, EmptiedNone
  <2> QED BY <2>1, <2>2, <2>3
<1>4. PICK g : IsRun(g, N, Heaps, heap, step)
  <2>1. step \in [(1..N) \X Heaps -> Heaps]
    BY <1>3
  <2> HIDE DEF step, N
  <2> QED BY <1>2, <1>3, <2>1, RunExists
<1>5. g \in [0..N -> Heaps] /\ g[0] = heap
  BY <1>4 DEF IsRun
<1>6. ASSUME NEW n \in 1..N
      PROVE  g[n] = IF g_list_free(g[n - 1], head[objs[n]]) \in Heaps THEN g_list_free(g[n - 1], head[objs[n]]) ELSE heap
  <2>1. g[n] = step[<<n, g[n - 1]>>]
    BY <1>4 DEF IsRun
  <2>2. n - 1 \in 0..N
    BY <1>2
  <2>3. g[n - 1] \in Heaps
    BY <1>5, <2>2
  <2> QED BY <2>1, <2>3
<1> HIDE DEF step
<1>7. ASSUME NEW n \in 1..N, Good(g[n - 1], G(n - 1))
      PROVE  Good(g[n], G(n)) /\ g[n] = g_list_free(g[n - 1], head[objs[n]])
  <2> DEFINE S == G(n - 1)
             o == objs[n]
             h == g[n - 1]
             hd == Emptied(head, S, NULL)
             cs == Emptied(CellsOn, S, <<>>)
             f == g_list_free(h, head[o])
  <2>1. o \in Lists /\ o \notin S
    <3>1. \A j \in 1..n - 1 : j \in 1..N /\ j # n
      BY <1>2
    <3>2. \A j \in 1..n - 1 : objs[j] # objs[n]
      BY <1>2, <3>1
    <3> QED BY <1>2, <3>2 DEF Lists
  <2>2. Rep(h, hd, cs) /\ IrqsFrom(h, hd) = Emptied(Held, S, <<>>) /\ head[o] = hd[o]
    BY <1>7, <2>1 DEF Emptied
  <2>g. G(n) = S \cup {o}
    <3>1. 1..n = 1..(n - 1) \cup {n}
      BY <1>2
    <3> QED BY <3>1
  <2> HIDE DEF o, h, hd, cs, f, S, G
  <2>3. Rep(f, With(hd, o, NULL), With(cs, o, <<>>)) /\ IrqsFrom(f, With(hd, o, NULL)) = With(IrqsFrom(h, hd), o, <<>>)
    <3> DEFINE p == head[o]
    <3>1. p = hd[o] /\ f = g_list_free(h, p)
      BY <2>2 DEF f
    <3> HIDE DEF p
    <3> QED BY <2>1, <2>2, <3>1, FreeRep
  <2>4. f \in Heaps
    BY <2>3 DEF Rep
  <2>5. g[n] = f
    BY <1>6, <2>4 DEF f, h, o
  <2>6. /\ With(hd, o, NULL) = Emptied(head, S \cup {o}, NULL)
        /\ With(cs, o, <<>>) = Emptied(CellsOn, S \cup {o}, <<>>)
        /\ With(IrqsFrom(h, hd), o, <<>>) = Emptied(Held, S \cup {o}, <<>>)
    BY <2>1, <2>2, EmptiedOne DEF hd, cs
  <2>7. Good(f, S \cup {o})
    BY <2>3, <2>6
  <2> HIDE DEF Good
  <2>8. Good(g[n], G(n))
    BY <2>5, <2>7, <2>g
  <2> QED BY <2>5, <2>8 DEF f, h, o
<1> DEFINE E == {n \in 0..N : Good(g[n], G(n)) /\ (n # 0 => g[n] = g_list_free(g[n - 1], head[objs[n]]))}
<1>8. \A n \in 0..N : n \in E
  <2>1. G(0) = {} /\ 0 \in 0..N
    BY <1>2
  <2> HIDE DEF Good, G
  <2>2. 0 \in E
    BY <1>3, <1>5, <2>1
  <2>3. ASSUME NEW n \in 1..N, n - 1 \in E PROVE n \in E
    <3>1. n \in 0..N
      BY <1>2
    <3>2. Good(g[n - 1], G(n - 1))
      BY <2>3
    <3> QED BY <1>7, <3>1, <3>2
  <2> HIDE DEF E
  <2> QED BY <1>2, <2>2, <2>3, UpTo
<1>9. \A n \in 0..N : Good(g[n], G(n)) /\ (n # 0 => g[n] = g_list_free(g[n - 1], head[objs[n]]))
  <2> HIDE DEF Good, G
  <2> QED BY <1>8
<1>10. Is(g)
  <2>1. \A n \in 0..N : g[n] = IF n = 0 THEN heap ELSE g_list_free(g[n - 1], head[objs[n]])
    BY <1>5, <1>9
  <2> QED BY <1>5, <2>1
<1>11. Is(freed)
  <2> HIDE DEF Is
  <2> QED BY <1>10
<1> HIDE DEF freed
<1>12. freed[0] = heap /\ \A n \in 1..N : freed[n] = g_list_free(freed[n - 1], head[objs[n]])
  <2>1. 0 \in 0..N /\ \A n \in 1..N : n \in 0..N /\ n # 0
    BY <1>2
  <2> QED BY <1>11, <2>1
<1> DEFINE U == {n \in 0..N : freed[n] = g[n]}
<1>13. \A n \in 0..N : n \in U
  <2>1. 0 \in U
    BY <1>2, <1>5, <1>12
  <2>2. ASSUME NEW n \in 1..N, n - 1 \in U PROVE n \in U
    <3>1. n \in 0..N /\ n # 0
      BY <1>2
    <3> QED BY <1>9, <1>12, <2>2, <3>1
  <2> HIDE DEF U
  <2> QED BY <1>2, <2>1, <2>2, UpTo
<1>14. freed[N] = g[N] /\ Good(g[N], G(N)) /\ G(N) = Objs
  <2>1. N \in 0..N
    BY <1>2
  <2>2. freed[N] = g[N]
    BY <1>13, <2>1
  <2>3. G(N) = Objs
    BY <1>2, SeqFacts
  <2> HIDE DEF Good, G
  <2> QED BY <1>9, <2>1, <2>2, <2>3
<1>15. Good(heap', Objs)
  <2> HIDE DEF Good, G
  <2> QED BY <1>1, <1>14
<1>16. Rep(heap', head', Emptied(CellsOn, Objs, <<>>)) /\ IrqsFrom(heap', head') = Emptied(Held, Objs, <<>>)
  BY <1>1, <1>15
<1>17. CellsOn' = Emptied(CellsOn, Objs, <<>>)
  BY <1>16, RepIs DEF CellsOn
<1> QED BY <1>16, <1>17 DEF Held

-----------------------------------------------------------------------------
(* What happens to the irqs on the lists. *)

(* An element is appended, *)
LEMMA AppendDistinct ==
    ASSUME NEW S, NEW s \in Seq(S), Distinct(s), NEW e \in S, e \notin ToSet(s)
    PROVE  Distinct(Append(s, e)) /\ ToSet(Append(s, e)) = ToSet(s) \cup {e}
<1> DEFINE t == Append(s, e)
           n == Len(s)
<1>1. /\ t \in Seq(S) /\ Len(t) = n + 1 /\ (\A k \in 1..n : t[k] = s[k]) /\ t[n + 1] = e
      /\ ToSet(t) = ToSet(s) \cup {e}
  BY AppendFacts
<1>2. n \in Nat /\ \A k \in 1..n : s[k] # e
  BY SeqFacts
<1> HIDE DEF t, n
<1>3. ASSUME NEW j \in 1..Len(t), NEW k \in 1..Len(t), t[j] = t[k] PROVE j = k
  <2>1. \A i \in 1..Len(t) : i \in 1..n \/ i = n + 1
    BY <1>1, <1>2
  <2>2. CASE j \in 1..n /\ k \in 1..n
    BY <1>1, <1>3, <2>2 DEF Distinct, n
  <2>3. CASE ~(j \in 1..n /\ k \in 1..n)
    BY <1>1, <1>2, <1>3, <2>1, <2>3
  <2> QED BY <2>2, <2>3
<1> QED BY <1>1, <1>3 DEF Distinct, t

(* and one is removed. *)
LEMMA RemoveDistinct ==
    ASSUME NEW S, NEW s \in Seq(S), Distinct(s), NEW k \in 1..Len(s)
    PROVE  Distinct(RemoveAt(s, k)) /\ ToSet(RemoveAt(s, k)) = ToSet(s) \ {s[k]}
<1> DEFINE t == RemoveAt(s, k)
           n == Len(s)
           pos(j) == IF j < k THEN j ELSE j + 1
<1>1. t \in Seq(S) /\ Len(t) = n - 1 /\ \A j \in 1..n - 1 : t[j] = IF j < k THEN s[j] ELSE s[j + 1]
  BY RemoveAtFacts
<1>2. n \in Nat /\ ToSet(s) = {s[j] : j \in 1..n} /\ ToSet(t) = {t[j] : j \in 1..Len(t)} /\ k \in 1..n
  BY <1>1, SeqFacts
<1> HIDE DEF t
<1>3. /\ \A j \in 1..n - 1 : pos(j) \in 1..n /\ pos(j) # k /\ t[j] = s[pos(j)]
      /\ \A i, j \in 1..n - 1 : pos(i) = pos(j) => i = j
  BY <1>1, <1>2
<1>4. ASSUME NEW j \in 1..n, j # k PROVE \E i \in 1..n - 1 : j = pos(i)
  <2>1. CASE j < k
    <3>1. j \in 1..n - 1 /\ j = pos(j)
      BY <1>2, <2>1
    <3> QED BY <3>1
  <2>2. CASE ~(j < k)
    <3>1. j - 1 \in 1..n - 1 /\ j = pos(j - 1)
      BY <1>2, <1>4, <2>2
    <3> QED BY <3>1
  <2> QED BY <2>1, <2>2
<1> HIDE DEF pos, n
<1>5. Distinct(t)
  <2> SUFFICES ASSUME NEW i \in 1..n - 1, NEW j \in 1..n - 1, t[i] = t[j] PROVE i = j
    BY <1>1 DEF Distinct
  <2>1. pos(i) = pos(j)
    BY <1>3 DEF Distinct, n
  <2> QED BY <1>3, <2>1
<1>6. ASSUME NEW x \in ToSet(t) PROVE x \in ToSet(s) \ {s[k]}
  <2>1. PICK j \in 1..n - 1 : x = t[j]
    BY <1>1, <1>2
  <2>2. x = s[pos(j)] /\ pos(j) \in 1..n /\ pos(j) # k
    BY <1>3, <2>1
  <2>3. s[pos(j)] # s[k]
    BY <1>2, <2>2 DEF Distinct, n
  <2> QED BY <1>2, <2>2, <2>3
<1>7. ASSUME NEW x \in ToSet(s) \ {s[k]} PROVE x \in ToSet(t)
  <2>1. PICK j \in 1..n : x = s[j] /\ j # k
    BY <1>2
  <2>2. PICK i \in 1..n - 1 : j = pos(i)
    BY <1>4, <2>1
  <2>3. x = t[i] /\ i \in 1..Len(t)
    BY <1>1, <1>3, <2>1, <2>2
  <2> QED BY <1>2, <2>3
<1> QED BY <1>5, <1>6, <1>7 DEF t

(* An irq joins a list. *)
LEMMA GainedSets ==
    ASSUME MemoryInv, \A m \in Lists : Distinct(Held[m]),
           NEW l \in Lists, NEW i \in Irqs, i \notin On(l), Gained(l, i)
    PROVE  \A m \in Lists : /\ Distinct(Held'[m])
                            /\ ToSet(Held'[m]) = IF m = l THEN On(l) \cup {i} ELSE On(m)
                            /\ m # l => Held'[m] = Held[m]
<1> DEFINE s == Append(Held[l], i)
<1>1. Held' = With(Held, l, s) /\ Held = [m \in Lists |-> Held[m]] /\ Held[l] \in Seq(Irqs)
  BY HeldFacts DEF Gained
<1>2. Distinct(s) /\ ToSet(s) = On(l) \cup {i}
  <2> DEFINE h == Held[l]
  <2>1. h \in Seq(Irqs) /\ Distinct(h) /\ i \notin ToSet(h)
    BY <1>1 DEF On
  <2> HIDE DEF h
  <2>2. Distinct(Append(h, i)) /\ ToSet(Append(h, i)) = ToSet(h) \cup {i}
    BY <2>1, AppendDistinct
  <2> QED BY <2>2 DEF h, On
<1> HIDE DEF s
<1>3. Held'[l] = s /\ \A m \in Lists : m # l => Held'[m] = Held[m]
  BY <1>1, WithFacts
<1> QED BY <1>2, <1>3 DEF On

(* An irq goes from one list to another. *)
LEMMA MovedSets ==
    ASSUME MemoryInv, \A m \in Lists : Distinct(Held[m]),
           NEW from \in Lists, NEW to \in Lists, from # to, NEW i \in Irqs, i \notin On(to), Moved(from, to, i)
    PROVE  \A m \in Lists : /\ Distinct(Held'[m])
                            /\ ToSet(Held'[m]) = IF m = to THEN On(to) \cup {i}
                                                 ELSE IF m = from THEN On(from) \ {i} ELSE On(m)
                            /\ m \notin {from, to} => Held'[m] = Held[m]
<1>1. Held = [m \in Lists |-> Held[m]] /\ Held[to] \in Seq(Irqs) /\ Held[from] \in Seq(Irqs)
  BY HeldFacts
<1>2. PICK k \in 1..Len(Held[from]) :
          /\ Held[from][k] = i
          /\ Held' = With(With(Held, from, RemoveAt(Held[from], k)), to, Append(Held[to], i))
  BY DEF Moved
<1> DEFINE r == RemoveAt(Held[from], k)
           s == Append(Held[to], i)
           f == With(Held, from, r)
<1>3. Distinct(r) /\ ToSet(r) = On(from) \ {i}
  <2> DEFINE h == Held[from]
  <2>1. h \in Seq(Irqs) /\ Distinct(h) /\ k \in 1..Len(h) /\ h[k] = i
    BY <1>1, <1>2
  <2> HIDE DEF h
  <2>2. Distinct(RemoveAt(h, k)) /\ ToSet(RemoveAt(h, k)) = ToSet(h) \ {i}
    BY <2>1, RemoveDistinct
  <2> QED BY <2>2 DEF h, On
<1>4. Distinct(s) /\ ToSet(s) = On(to) \cup {i}
  <2> DEFINE h == Held[to]
  <2>1. h \in Seq(Irqs) /\ Distinct(h) /\ i \notin ToSet(h)
    BY <1>1 DEF On
  <2> HIDE DEF h
  <2>2. Distinct(Append(h, i)) /\ ToSet(Append(h, i)) = ToSet(h) \cup {i}
    BY <2>1, AppendDistinct
  <2> QED BY <2>2 DEF h, On
<1> HIDE DEF r, s
<1>5. f = [m \in Lists |-> f[m]] /\ f[from] = r /\ \A m \in Lists : m # from => f[m] = Held[m]
  BY <1>1, WithFacts
<1>6. Held' = With(f, to, s)
  BY <1>2 DEF r, s
<1> HIDE DEF f
<1>7. Held'[to] = s /\ \A m \in Lists : m # to => Held'[m] = f[m]
  BY <1>5, <1>6, WithFacts
<1> QED BY <1>3, <1>4, <1>5, <1>7 DEF On

(* A list is put in another order. *)
LEMMA SortedSets ==
    ASSUME MemoryInv, \A m \in Lists : Distinct(Held[m]),
           NEW l \in Lists, NEW s \in SetToSeqs(On(l)), Held' = With(Held, l, s)
    PROVE  /\ \A m \in Lists : /\ Distinct(Held'[m]) /\ ToSet(Held'[m]) = On(m)
                               /\ Held'[m] = <<>> <=> Held[m] = <<>>
           /\ Held'[l] = s
<1>1. Held = [m \in Lists |-> Held[m]] /\ Held[l] \in Seq(Irqs) /\ On(l) \in SUBSET Irqs
  BY HeldFacts
<1>2. IsFiniteSet(On(l))
  BY <1>1, CellsAssumption, FS_Subset
<1>3. s \in Seq(On(l)) /\ Distinct(s) /\ ToSet(s) = On(l)
  BY <1>2, PermutationFacts
<1>4. Held'[l] = s /\ \A m \in Lists : m # l => Held'[m] = Held[m]
  BY <1>1, WithFacts
<1>5. s = <<>> <=> Held[l] = <<>>
  <2> DEFINE h == Held[l]
  <2>1. ToSet(s) = ToSet(h) /\ h \in Seq(Irqs)
    BY <1>1, <1>3 DEF On
  <2> HIDE DEF h
  <2>2. s = <<>> <=> ToSet(s) = {}
    <3>1. Len(s) \in Nat /\ ToSet(s) = {s[k] : k \in 1..Len(s)} /\ (s = <<>> <=> Len(s) = 0)
      BY <1>3, SeqFacts
    <3>2. Len(s) = 0 <=> 1..Len(s) = {}
      BY <3>1
    <3> QED BY <3>1, <3>2
  <2>3. h = <<>> <=> ToSet(h) = {}
    <3>1. Len(h) \in Nat /\ ToSet(h) = {h[k] : k \in 1..Len(h)} /\ (h = <<>> <=> Len(h) = 0)
      BY <2>1, SeqFacts
    <3>2. Len(h) = 0 <=> 1..Len(h) = {}
      BY <3>1
    <3> QED BY <3>1, <3>2
  <2> QED BY <2>1, <2>2, <2>3 DEF h
<1> QED BY <1>3, <1>4, <1>5 DEF On

(* The irqs that are to be visited once this one has been. *)
LEMMA TodoSets ==
    ASSUME MemoryInv, walk.entry # NULL, Distinct(Held[walk.on])
    PROVE  ToSet(Tail(Todo)) = ToSet(Todo) \ {Irq}
<1> DEFINE s == Held[walk.on]
           n == Len(s)
<1>1. s \in Seq(Irqs) /\ n \in Nat /\ Distinct(s)
  BY VisitFacts, HeldFacts
<1>2. PICK k \in 1..n : s[k] = Irq /\ Tail(Todo) = Suffix(s, k + 1) /\ Todo = Suffix(s, k)
  BY VisitFacts
<1> HIDE DEF s
<1>3. k \in 1..n + 1 /\ k + 1 \in 1..n + 1 /\ k..n = (k + 1..n) \cup {k} /\ \A j \in k + 1..n : j \in 1..n /\ j # k
  BY <1>1
<1>4. ToSet(Todo) = {s[j] : j \in k..n}
  BY <1>1, <1>2, <1>3, SuffixElements
<1>5. ToSet(Tail(Todo)) = {s[j] : j \in k + 1..n}
  <2> DEFINE m == k + 1
  <2>1. m \in 1..n + 1 /\ Tail(Todo) = Suffix(s, m)
    BY <1>2, <1>3
  <2> HIDE DEF m
  <2>2. ToSet(Tail(Todo)) = {s[j] : j \in m..n}
    BY <1>1, <2>1, SuffixElements
  <2> QED BY <2>2 DEF m
<1>6. \A j \in k + 1..n : s[j] # Irq
  BY <1>1, <1>2, <1>3 DEF Distinct
<1> QED BY <1>2, <1>3, <1>4, <1>5, <1>6

-----------------------------------------------------------------------------
(* The invariant is inductive. *)

(* The names of the lists. *)
LEMMA ListNames ==
    /\ {"interrupts_db", "banned_irqs", "rebalance_irq_list"} \subseteq Lists /\ Objs \subseteq Lists
    /\ "interrupts_db" \notin Objs /\ "banned_irqs" \notin Objs /\ "rebalance_irq_list" \notin Objs
    /\ \A l \in Lists : l \in Objs \/ l \in {"interrupts_db", "banned_irqs", "rebalance_irq_list"}
    /\ NULL \notin Objs /\ NoList \notin Lists /\ Nodes \subseteq Objs /\ Cpus \subseteq Objs
BY ListsAssumption, CellsAssumption DEF Lists, Objs

(* What the daemon is doing while the callback is called. *)
LEMMA CallbackPhase ==
    ASSUME IInv, walk.entry # NULL
    PROVE  /\ walk.cb = "force_rebalance_irq" => pc = "rebalance" /\ walk.on = "interrupts_db"
           /\ walk.cb \in {"move_candidate_irqs", "force_irq_migration"} => pc = "migrate" /\ walk.on \in Objs
           /\ walk.cb = "place_irq_in_node" => pc = "place" /\ walk.on = "rebalance_irq_list"
           /\ walk.cb = "find_best_object_for_irq" => pc = "place" /\ walk.on \in Objs
           /\ walk.cb = "free_irq" => \/ pc = "free_db" /\ walk.on = "interrupts_db"
                                      \/ pc = "free_banned" /\ walk.on = "banned_irqs"
<1>1. walk # NoWalk /\ Todo # <<>>
  BY VisitFacts DEF IInv
<1>2. PhaseInv
  BY DEF IInv
<1> HIDE DEF Todo, NoWalk
<1> QED BY <1>1, <1>2 DEF PhaseInv

(* The walk, the phase and the list that is walked go on as they were. *)
LEMMA PhaseGoesOn ==
    ASSUME IInv, walk.entry # NULL, Advances, UNCHANGED pc
    PROVE  PhaseInv'
<1>1. walk # NoWalk /\ Todo # <<>>
  BY VisitFacts DEF IInv
<1>2. PhaseInv
  BY DEF IInv
<1> HIDE DEF Todo, NoWalk
<1>3. walk'.on = walk.on /\ walk'.cb = walk.cb /\ pc' = pc
  BY DEF Advances
<1>4. pc \notin {"build", "free_irq_db", "free_banned_irqs", "exit"}
  BY <1>1, <1>2 DEF PhaseInv
<1>5. pc = "free_banned" => walk.cb = "free_irq" /\ walk.on = "banned_irqs"
  BY <1>1, <1>2 DEF PhaseInv
<1> QED BY <1>1, <1>2, <1>3, <1>4, <1>5 DEF PhaseInv

(* An irq is moved from the list that is walked to that of an object, or   *)
(* to the irqs to place, and assigned accordingly.                         *)
LEMMA MovingKeepsInv ==
    ASSUME IInv, walk.entry # NULL, pc \in {"migrate", "place"}, walk.on \in Objs \cup {"rebalance_irq_list"},
           NEW to \in Objs \cup {"rebalance_irq_list"}, to # walk.on,
           MemoryInv', Advances, Moved(walk.on, to, Irq), UNCHANGED <<pc, info>>,
           assigned' = [assigned EXCEPT ![Irq] = IF to \in Objs THEN to ELSE NULL]
    PROVE  IInv'
<1> DEFINE on == walk.on
           i == Irq
           v == IF to \in Objs THEN to ELSE NULL
<1>1. /\ on \in Lists /\ to \in Lists /\ i \in Irqs /\ i \in On(on) /\ pc' = pc /\ info' = info
      /\ MemoryInv /\ PhaseInv /\ AssignedInv /\ ListsInv /\ InfoInv
  BY VisitFacts, ListNames DEF IInv
<1>2. /\ "rebalance_irq_list" \notin Objs /\ "interrupts_db" \notin Objs /\ "banned_irqs" \notin Objs
      /\ NULL \notin Objs /\ Objs \subseteq Lists
      /\ {"interrupts_db", "banned_irqs", "rebalance_irq_list"} \subseteq Lists
  BY ListNames
<1>3. i \notin On(to)
  <2>1. on \in Objs => assigned[i] = on
    BY <1>1 DEF AssignedInv
  <2>2. on = "rebalance_irq_list" => assigned[i] = NULL
    BY <1>1 DEF AssignedInv
  <2>3. to \in Objs => \A j \in On(to) : assigned[j] = to
    BY <1>1 DEF AssignedInv
  <2>4. to = "rebalance_irq_list" => \A j \in On(to) : assigned[j] = NULL
    BY <1>1 DEF AssignedInv
  <2> QED BY <1>2, <2>1, <2>2, <2>3, <2>4
<1>4. \A m \in Lists : Distinct(Held[m])
  BY <1>1 DEF ListsInv
<1>5. \A m \in Lists : /\ Distinct(Held'[m])
                       /\ On(m)' = IF m = to THEN On(to) \cup {i} ELSE IF m = on THEN On(on) \ {i} ELSE On(m)
                       /\ m \notin {on, to} => Held'[m] = Held[m]
  <2>1. /\ Moved(on, to, i) /\ on # to /\ MemoryInv
        /\ on \in Lists /\ to \in Lists /\ i \in Irqs
    BY <1>1
  <2> HIDE DEF i, on
  <2>2. \A m \in Lists : /\ Distinct(Held'[m])
                         /\ ToSet(Held'[m]) = IF m = to THEN On(to) \cup {i}
                                              ELSE IF m = on THEN On(on) \ {i} ELSE On(m)
                         /\ m \notin {on, to} => Held'[m] = Held[m]
    BY <1>3, <1>4, <2>1, MovedSets
  <2> QED BY <2>2 DEF On
<1>6. assigned' = [j \in Irqs |-> IF j = i THEN v ELSE assigned[j]]
  BY <1>1 DEF AssignedInv
<1>7. PhaseInv'
  BY PhaseGoesOn
<1> HIDE DEF v, i, on
<1>8. AssignedInv'
  <2>1. assigned' \in [Irqs -> Objs \cup {NULL}]
    BY <1>1, <1>2, <1>6 DEF AssignedInv, v
  <2>2. ASSUME NEW o \in Objs, NEW j \in On(o)' PROVE assigned'[j] = o
    <3>1. o \in Lists /\ (j \in On(o) \/ (o = to /\ j = i)) /\ (o = on => j # i \/ o = to)
      BY <1>2, <1>5, <2>2
    <3>2. j \in Irqs
      BY <1>1, <3>1, HeldFacts
    <3>3. CASE j = i
      <4>1. j \in On(o) => assigned[j] = o
        BY <1>1 DEF AssignedInv
      <4>2. assigned[i] = IF on \in Objs THEN on ELSE NULL
        BY <1>1, <1>2 DEF AssignedInv, on
      <4>3. o = to
        BY <1>2, <1>3, <3>1, <3>3, <4>1, <4>2
      <4> QED BY <1>6, <3>2, <3>3, <4>3 DEF v
    <3>4. CASE j # i
      BY <1>1, <1>6, <3>1, <3>2, <3>4 DEF AssignedInv
    <3> QED BY <3>3, <3>4
  <2>3. ASSUME NEW j \in On("rebalance_irq_list")' PROVE assigned'[j] = NULL
    <3> DEFINE o == "rebalance_irq_list"
    <3>1. o \in Lists /\ (j \in On(o) \/ (o = to /\ j = i)) /\ (o = on => j # i \/ o = to)
      BY <1>2, <1>5, <2>3
    <3>2. j \in Irqs
      BY <1>1, <3>1, HeldFacts
    <3>3. CASE j = i
      <4>1. j \in On(o) => assigned[j] = NULL
        BY <1>1 DEF AssignedInv
      <4>2. assigned[i] = IF on \in Objs THEN on ELSE NULL
        BY <1>1, <1>2 DEF AssignedInv, on
      <4>3. o = to
        BY <1>2, <1>3, <3>1, <3>3, <4>1, <4>2 DEF on
      <4> QED BY <1>2, <1>6, <3>2, <3>3, <4>3 DEF v
    <3>4. CASE j # i
      BY <1>1, <1>6, <3>1, <3>2, <3>4 DEF AssignedInv
    <3> QED BY <3>3, <3>4
  <2> QED BY <1>1, <2>1, <2>2, <2>3 DEF AssignedInv
<1>9. ListsInv'
  <2>1. On("interrupts_db")' = On("interrupts_db") /\ On("banned_irqs")' = On("banned_irqs")
    BY <1>2, <1>5 DEF on
  <2>2. ASSUME NEW l \in Objs \cup {"rebalance_irq_list"} PROVE On(l)' \subseteq On("interrupts_db")'
    <3>1. \A m \in Objs \cup {"rebalance_irq_list"} : On(m) \subseteq On("interrupts_db")
      BY <1>1 DEF ListsInv
    <3>2. i \in On("interrupts_db")
      BY <1>1, <3>1 DEF on
    <3>3. l \in Lists
      BY <1>2
    <3> QED BY <1>5, <2>1, <3>1, <3>2, <3>3
  <2> QED BY <1>1, <1>5, <2>1, <2>2 DEF ListsInv
<1>10. InfoInv'
  <2>1. On("interrupts_db")' = On("interrupts_db") /\ On("banned_irqs")' = On("banned_irqs")
    BY <1>2, <1>5 DEF on
  <2> QED BY <1>1, <2>1 DEF InfoInv
<1> QED BY <1>7, <1>8, <1>9, <1>10 DEF IInv

(* The callback leaves its irq alone. *)
LEMMA KeepingKeepsInv ==
    ASSUME IInv, walk.entry # NULL, pc \in {"rebalance", "migrate", "place"},
           MemoryInv', Advances, Kept, UNCHANGED <<pc, info, assigned>>
    PROVE  IInv'
<1>1. MemoryInv /\ PhaseInv /\ AssignedInv /\ ListsInv /\ InfoInv /\ walk.on \in Lists
  BY VisitFacts DEF IInv
<1>2. Held' = Held /\ pc' = pc /\ info' = info /\ assigned' = assigned /\ \A l : On(l)' = On(l)
  BY DEF Kept, On
<1>3. ToSet(Todo') \subseteq ToSet(Todo)
  <2>1. Distinct(Held[walk.on])
    BY <1>1 DEF ListsInv
  <2> QED BY <1>1, <2>1, TodoSets DEF Advances
<1>4. PhaseInv'
  BY PhaseGoesOn
<1>5. AssignedInv'
  BY <1>1, <1>2 DEF AssignedInv
<1>6. ListsInv'
  BY <1>1, <1>2, <1>3 DEF ListsInv
<1>7. InfoInv'
  BY <1>1, <1>2 DEF InfoInv
<1> QED BY <1>4, <1>5, <1>6, <1>7 DEF IInv

(* What a visit may do. *)
Visiting ==
    /\ walk.entry # NULL /\ Advances
    /\ \/ Kept
       \/ walk.on = "interrupts_db" /\ Gained("rebalance_irq_list", Irq)
       \/ walk.on # "interrupts_db" /\ \E to \in Lists \ {walk.on} : Moved(walk.on, to, Irq)

(* force_rebalance_irq *)
LEMMA ForceRebalanceStep ==
    ASSUME IInv, force_rebalance_irq
    PROVE  IInv' /\ Visiting
<1> DEFINE reb == "rebalance_irq_list"
           db  == "interrupts_db"
<1>1. walk.entry # NULL /\ walk.cb = "force_rebalance_irq" /\ Steps /\ UNCHANGED <<pc, info>>
  BY DEF force_rebalance_irq, Visits
<1>2. pc = "rebalance" /\ walk.on = db
  BY <1>1, CallbackPhase
<1>3. /\ MemoryInv /\ PhaseInv /\ AssignedInv /\ ListsInv /\ InfoInv
      /\ Irq \in Irqs /\ Irq \in On(db) /\ Irq \in ToSet(Todo) /\ reb \in Lists /\ db \in Lists /\ reb # db
  BY <1>1, <1>2, VisitFacts, ListNames DEF IInv
<1>4. assigned[Irq] = NULL
  BY <1>2, <1>3 DEF AssignedInv
<1>5. CASE UNCHANGED <<heap, head, assigned>>
  <2>1. MemoryInv' /\ Advances /\ Kept
    BY <1>1, <1>3, <1>5, VisitKeeps
  <2>2. IInv'
    BY <1>1, <1>2, <1>5, <2>1, KeepingKeepsInv
  <2> QED BY <1>1, <2>1, <2>2 DEF Visiting
<1>6. CASE AppendTo(heap, head, reb, Irq) /\ assigned' = [assigned EXCEPT ![Irq] = NULL]
  <2>1. MemoryInv' /\ Advances /\ Gained(reb, Irq)
    BY <1>1, <1>2, <1>3, <1>6, VisitGains
  <2>2. Visiting
    BY <1>1, <1>2, <2>1 DEF Visiting
  <2>3. assigned' = assigned
    BY <1>3, <1>4, <1>6 DEF AssignedInv
  <2>4. Irq \notin On(reb) /\ \A m \in Lists : Distinct(Held[m])
    BY <1>2, <1>3 DEF ListsInv
  <2>5. \A m \in Lists : /\ Distinct(Held'[m])
                         /\ On(m)' = IF m = reb THEN On(reb) \cup {Irq} ELSE On(m)
                         /\ m # reb => Held'[m] = Held[m]
    <3>1. \A m \in Lists : /\ Distinct(Held'[m])
                           /\ ToSet(Held'[m]) = IF m = reb THEN On(reb) \cup {Irq} ELSE On(m)
                           /\ m # reb => Held'[m] = Held[m]
      BY <1>3, <2>1, <2>4, GainedSets
    <3> QED BY <3>1 DEF On
  <2>6. ToSet(Todo') = ToSet(Todo) \ {Irq}
    BY <1>1, <1>3, <2>1, <2>4, VisitFacts, TodoSets DEF Advances
  <2>7. PhaseInv'
    BY <1>1, <2>1, PhaseGoesOn
  <2>8. pc' = pc /\ info' = info
    BY <1>1
  <2>9. "banned_irqs" \in Lists /\ "banned_irqs" # reb /\ Objs \subseteq Lists /\ reb \notin Objs
    BY ListNames
  <2>10. AssignedInv'
    BY <1>2, <1>3, <1>4, <2>3, <2>5, <2>8, <2>9 DEF AssignedInv
  <2>11. ListsInv'
    <3>1. On(db)' = On(db) /\ On("banned_irqs")' = On("banned_irqs")
      BY <1>3, <2>5, <2>9
    <3>2. \A l \in Objs \cup {reb} : On(l)' \subseteq On(db)'
      BY <1>2, <1>3, <2>5, <2>9, <3>1 DEF ListsInv
    <3>3. On(reb)' \cap ToSet(Todo') = {}
      BY <1>2, <1>3, <2>5, <2>6 DEF ListsInv
    <3>4. \A o \in Objs : Held'[o] = <<>>
      BY <1>2, <1>3, <2>5, <2>9 DEF ListsInv
    <3> QED BY <1>2, <1>3, <2>5, <2>8, <3>1, <3>2, <3>3, <3>4 DEF ListsInv
  <2>12. InfoInv'
    <3>1. On(db)' = On(db) /\ On("banned_irqs")' = On("banned_irqs")
      BY <1>3, <2>5, <2>9
    <3> QED BY <1>2, <1>3, <2>8, <3>1 DEF InfoInv
  <2> QED BY <2>1, <2>2, <2>7, <2>10, <2>11, <2>12 DEF IInv
<1> QED BY <1>4, <1>5, <1>6 DEF force_rebalance_irq

(* An irq that is taken off its object goes to the irqs to place. *)
LEMMA TakesStep ==
    ASSUME IInv, walk.entry # NULL, pc = "migrate", walk.on \in Objs, Takes, Steps, UNCHANGED <<pc, info>>
    PROVE  IInv' /\ Visiting
<1> DEFINE reb == "rebalance_irq_list"
<1>1. /\ MemoryInv /\ AssignedInv /\ ListsInv /\ Irq \in Irqs /\ Irq \in On(walk.on) /\ walk.on \in Lists
      /\ reb \in Lists /\ reb \notin Objs /\ "interrupts_db" \notin Objs
  BY VisitFacts, ListNames DEF IInv
<1>2. assigned[Irq] = walk.on
  BY <1>1 DEF AssignedInv
<1>3. migrate_irq(walk.on, reb, Irq) /\ reb # walk.on /\ Distinct(Held[walk.on])
  BY <1>1, <1>2 DEF Takes, ListsInv
<1>4. MemoryInv' /\ Advances /\ Moved(walk.on, reb, Irq)
  BY <1>1, <1>3, VisitMoves
<1>5. assigned' = [assigned EXCEPT ![Irq] = IF reb \in Objs THEN reb ELSE NULL]
  BY <1>1 DEF Takes
<1>6. IInv'
  <2> DEFINE to == reb
  <2>1. /\ to \in Objs \cup {"rebalance_irq_list"} /\ to # walk.on /\ Moved(walk.on, to, Irq)
        /\ assigned' = [assigned EXCEPT ![Irq] = IF to \in Objs THEN to ELSE NULL]
    BY <1>1, <1>4, <1>5
  <2> HIDE DEF to
  <2> QED BY <1>4, <2>1, MovingKeepsInv
<1>7. Visiting
  <2>1. walk.on # "interrupts_db" /\ reb \in Lists \ {walk.on}
    BY <1>1
  <2> QED BY <1>4, <2>1 DEF Visiting
<1> QED BY <1>6, <1>7

(* move_candidate_irqs and force_irq_migration *)
LEMMA MigrateStep ==
    ASSUME IInv, move_candidate_irqs \/ force_irq_migration
    PROVE  IInv' /\ Visiting
<1>1. /\ walk.entry # NULL /\ walk.cb \in {"move_candidate_irqs", "force_irq_migration"}
      /\ Steps /\ UNCHANGED <<pc, info>>
      /\ UNCHANGED <<heap, head, assigned>> \/ Takes
  BY DEF move_candidate_irqs, force_irq_migration, Visits
<1>2. pc = "migrate" /\ walk.on \in Objs
  BY <1>1, CallbackPhase
<1>3. CASE UNCHANGED <<heap, head, assigned>>
  <2>1. MemoryInv' /\ Advances /\ Kept
    BY <1>1, <1>3, VisitKeeps DEF IInv
  <2>2. IInv'
    BY <1>1, <1>2, <1>3, <2>1, KeepingKeepsInv
  <2> QED BY <1>1, <2>1, <2>2 DEF Visiting
<1>4. CASE Takes
  BY <1>1, <1>2, <1>4, TakesStep
<1> QED BY <1>1, <1>3, <1>4

(* An irq that is placed goes to an object. *)
LEMMA PlacedStep ==
    ASSUME IInv, walk.entry # NULL, pc = "place", walk.on \in Objs \cup {"rebalance_irq_list"},
           NEW o \in Objs, o # walk.on, migrate_irq(walk.on, o, Irq), assigned' = [assigned EXCEPT ![Irq] = o],
           Steps, UNCHANGED <<pc, info>>
    PROVE  IInv' /\ Visiting
<1>1. /\ MemoryInv /\ ListsInv /\ walk.on \in Lists /\ o \in Lists /\ walk.on # "interrupts_db"
  BY VisitFacts, ListNames DEF IInv
<1>2. MemoryInv' /\ Advances /\ Moved(walk.on, o, Irq)
  BY <1>1, VisitMoves DEF ListsInv
<1>3. assigned' = [assigned EXCEPT ![Irq] = IF o \in Objs THEN o ELSE NULL]
  OBVIOUS
<1>4. IInv'
  BY <1>2, <1>3, MovingKeepsInv
<1>5. Visiting
  <2>1. o \in Lists \ {walk.on}
    BY <1>1
  <2> QED BY <1>1, <1>2, <2>1 DEF Visiting
<1> QED BY <1>4, <1>5

(* place_irq_in_node and find_best_object_for_irq *)
LEMMA PlaceStep ==
    ASSUME IInv, place_irq_in_node \/ find_best_object_for_irq
    PROVE  IInv' /\ Visiting
<1>1. /\ walk.entry # NULL /\ walk.cb \in {"place_irq_in_node", "find_best_object_for_irq"}
      /\ Steps /\ UNCHANGED <<pc, info>>
  BY DEF place_irq_in_node, find_best_object_for_irq, Visits
<1>2. /\ pc = "place" /\ walk.on \in Objs \cup {"rebalance_irq_list"}
      /\ walk.cb = "place_irq_in_node" => walk.on = "rebalance_irq_list"
      /\ walk.cb = "find_best_object_for_irq" => walk.on \in Objs
  BY <1>1, CallbackPhase
<1>3. /\ Nodes \cap Cpus = {} /\ Nodes \subseteq Objs /\ Cpus \subseteq Objs /\ "rebalance_irq_list" \notin Objs
  BY ListNames, ListsAssumption
<1>4. CASE UNCHANGED <<heap, head, assigned>>
  <2>1. MemoryInv' /\ Advances /\ Kept
    BY <1>1, <1>4, VisitKeeps DEF IInv
  <2>2. IInv'
    BY <1>1, <1>2, <1>4, <2>1, KeepingKeepsInv
  <2> QED BY <1>1, <2>1, <2>2 DEF Visiting
<1>5. CASE \E o \in Objs : o # walk.on /\ migrate_irq(walk.on, o, Irq) /\ assigned' = [assigned EXCEPT ![Irq] = o]
  BY <1>1, <1>2, <1>5, PlacedStep
<1>6. \/ UNCHANGED <<heap, head, assigned>>
      \/ \E o \in Objs : o # walk.on /\ migrate_irq(walk.on, o, Irq) /\ assigned' = [assigned EXCEPT ![Irq] = o]
  <2>1. CASE place_irq_in_node
    <3>1. walk.on = "rebalance_irq_list"
      BY <1>2, <2>1 DEF place_irq_in_node, Visits
    <3> QED BY <1>3, <2>1, <3>1 DEF place_irq_in_node
  <2>2. CASE find_best_object_for_irq
    BY <1>3, <2>2 DEF find_best_object_for_irq
  <2> QED BY <2>1, <2>2
<1> QED BY <1>4, <1>5, <1>6

(* free_irq *)
LEMMA FreeIrqStep ==
    ASSUME IInv, free_irq
    PROVE  IInv' /\ Visiting
<1>1. /\ walk.entry # NULL /\ walk.cb = "free_irq" /\ Steps /\ UNCHANGED <<pc, head, assigned>>
      /\ heap' = [heap EXCEPT !.bad = @ \/ Irq \notin info] /\ info' = info \ {Irq}
  BY DEF free_irq, Visits
<1>2. \/ pc = "free_db" /\ walk.on = "interrupts_db"
      \/ pc = "free_banned" /\ walk.on = "banned_irqs"
  BY <1>1, CallbackPhase
<1>3. /\ MemoryInv /\ PhaseInv /\ AssignedInv /\ ListsInv /\ InfoInv /\ walk.on \in Lists
      /\ Irq \in ToSet(Todo) /\ Irq \in On(walk.on)
  BY <1>1, VisitFacts DEF IInv
<1>4. heap' = heap
  <2>1. Irq \in info
    BY <1>2, <1>3 DEF InfoInv
  <2>2. heap \in Heaps /\ ~heap.bad
    BY <1>3 DEF MemoryInv, Rep
  <2>3. heap.bad = FALSE
    BY <2>2 DEF Heaps
  <2>4. (heap.bad \/ Irq \notin info) = FALSE
    BY <2>1, <2>3
  <2> QED BY <1>1, <2>2, <2>3, <2>4 DEF Heaps
<1>5. MemoryInv' /\ Advances /\ Kept
  BY <1>1, <1>3, <1>4, VisitKeeps
<1>6. Held' = Held /\ pc' = pc /\ assigned' = assigned /\ \A l : On(l)' = On(l)
  BY <1>1, <1>5 DEF Kept, On
<1>7. ToSet(Todo') = ToSet(Todo) \ {Irq}
  <2>1. Distinct(Held[walk.on])
    BY <1>3 DEF ListsInv
  <2> QED BY <1>1, <1>3, <1>5, <2>1, TodoSets DEF Advances
<1>8. PhaseInv'
  BY <1>1, <1>5, PhaseGoesOn
<1>9. AssignedInv'
  BY <1>3, <1>6 DEF AssignedInv
<1>10. ListsInv'
  BY <1>2, <1>3, <1>6, <1>7 DEF ListsInv
<1>11. InfoInv'
  <2>1. CASE pc = "free_db" /\ walk.on = "interrupts_db"
    <3>1. Irq \notin On("banned_irqs")
      BY <1>3, <2>1 DEF ListsInv
    <3> QED BY <1>1, <1>3, <1>6, <1>7, <2>1, <3>1 DEF InfoInv
  <2>2. CASE pc = "free_banned"
    BY <1>1, <1>3, <1>6, <1>7, <2>2 DEF InfoInv
  <2> QED BY <1>2, <2>1, <2>2
<1>12. Visiting
  BY <1>1, <1>5 DEF Visiting
<1> QED BY <1>5, <1>8, <1>9, <1>10, <1>11, <1>12 DEF IInv

(* The lists have the irqs they had, each once. *)
SameIrqs == \A m \in Lists : /\ Distinct(Held'[m]) /\ On(m)' = On(m)
                             /\ Held'[m] = <<>> <=> Held[m] = <<>>

(* A walk begins on the list l, which may have been sorted. *)
Beginning(l) ==
    /\ walk = NoWalk /\ walk'.on = l
    /\ \E s \in SetToSeqs(On(l)) : Held' = With(Held, l, s) /\ Todo' = s

(* A list is the sequence of its irqs in some order. *)
LEMMA HeldIsOrdered ==
    ASSUME MemoryInv, NEW l \in Lists, Distinct(Held[l])
    PROVE  Held[l] \in SetToSeqs(On(l)) /\ Held = With(Held, l, Held[l])
<1> DEFINE s == Held[l]
<1>1. s \in Seq(Irqs) /\ Held = [m \in Lists |-> Held[m]]
  BY HeldFacts
<1>2. Held = With(Held, l, s)
  BY <1>1 DEF With
<1>3. On(l) = ToSet(s)
  BY DEF On
<1> HIDE DEF s
<1>4. Cardinality(ToSet(s)) = Len(s)
  BY <1>1, CellsAssumption, DistinctLen DEF s
<1>5. s \in [1..Len(s) -> ToSet(s)] /\ \A j, k \in 1..Len(s) : j # k => s[j] # s[k]
  <2>1. ToSet(s) = {s[k] : k \in 1..Len(s)} /\ DOMAIN s = 1..Len(s)
    BY <1>1, SeqFacts
  <2>2. s = [k \in 1..Len(s) |-> s[k]]
    BY <1>1
  <2> QED BY <2>1, <2>2 DEF Distinct, s
<1>6. s \in SetToSeqs(ToSet(s))
  BY <1>4, <1>5 DEF SetToSeqs
<1> QED BY <1>2, <1>3, <1>6 DEF s

(* A walk begins on the lists as they are. *)
LEMMA BeginKept ==
    ASSUME MemoryInv, \A m \in Lists : Distinct(Held[m]), walk = NoWalk, NEW l \in Lists, NEW b \in Callbacks,
           UNCHANGED <<heap, head>>, Begins(heap, head, l, b)
    PROVE  /\ MemoryInv' /\ Held' = Held /\ SameIrqs /\ walk'.cb = b
           /\ walk'.on = IF Held[l] = <<>> THEN "interrupts_db" ELSE l
           /\ Todo' = Held[walk'.on]
           /\ Beginning(walk'.on)
<1>1. CellsOn' = CellsOn /\ Held' = Held /\ \A m : On(m)' = On(m)
  BY DEF CellsOn, CellsFrom, Held, IrqsFrom, On
<1>2. Rep(heap', head', CellsOn')
  BY <1>1 DEF MemoryInv
<1> DEFINE h == heap
           hd == head
<1>3. h = heap' /\ hd = head' /\ Begins(h, hd, l, b)
  OBVIOUS
<1> HIDE DEF h, hd
<1>4. /\ MemoryInv' /\ walk'.cb = b
      /\ walk'.on = IF Held'[l] = <<>> THEN "interrupts_db" ELSE l
      /\ Todo' = Held'[walk'.on]
  BY <1>2, <1>3, BeginsAt
<1>5. SameIrqs
  BY <1>1 DEF SameIrqs
<1>6. Beginning(walk'.on)
  <2> DEFINE on == walk'.on
  <2>1. on \in Lists
    BY <1>1, <1>4, ListNames
  <2> HIDE DEF on
  <2>2. Held[on] \in SetToSeqs(On(on)) /\ Held = With(Held, on, Held[on])
    BY <2>1, HeldIsOrdered
  <2>3. Todo' = Held[on] /\ Held' = With(Held, on, Held[on]) /\ walk'.on = on
    BY <1>1, <1>4, <2>2 DEF on
  <2>4. Beginning(on)
    BY <2>2, <2>3 DEF Beginning
  <2> QED BY <2>4 DEF on
<1> QED BY <1>1, <1>4, <1>5, <1>6

(* A walk begins on a list that has been sorted and is not empty. *)
LEMMA BeginSorted ==
    ASSUME MemoryInv, \A m \in Lists : Distinct(Held[m]), walk = NoWalk, NEW l \in Lists, NEW b \in Callbacks,
           NEW ord \in SetToSeqs(Irqs), NEW r, r = g_list_sort(heap, head[l], Before(ord)),
           heap' = r.heap, head' = [head EXCEPT ![l] = r.list], Held[l] # <<>>,
           Begins(r.heap, [head EXCEPT ![l] = r.list], l, b)
    PROVE  MemoryInv' /\ SameIrqs /\ walk'.on = l /\ walk'.cb = b /\ Todo' = Held'[l] /\ Beginning(l)
<1>1. Rep(heap', head', CellsOn')
  BY SortRep
<1>2. PICK s \in SetToSeqs(On(l)) : Held' = With(Held, l, s)
  BY SortRep
<1>3. SameIrqs /\ Held'[l] = s
  BY <1>2, SortedSets DEF SameIrqs, On
<1> DEFINE h == r.heap
           hd == [head EXCEPT ![l] = r.list]
<1>4. h = heap' /\ hd = head' /\ Begins(h, hd, l, b)
  OBVIOUS
<1> HIDE DEF h, hd
<1>5. /\ MemoryInv' /\ walk'.cb = b
      /\ walk'.on = IF Held'[l] = <<>> THEN "interrupts_db" ELSE l
      /\ Todo' = Held'[walk'.on]
  BY <1>1, <1>4, BeginsAt
<1>6. walk'.on = l
  BY <1>3, <1>5 DEF SameIrqs
<1> QED BY <1>2, <1>3, <1>5, <1>6 DEF Beginning

(* The irqs on the lists stay what they are while irqs are migrated. *)
LEMMA SameKeepsInv ==
    ASSUME IInv, pc = "migrate", pc' \in {"migrate", "place"}, MemoryInv', SameIrqs, UNCHANGED <<info, assigned>>
    PROVE  AssignedInv' /\ ListsInv' /\ InfoInv'
<1>1. AssignedInv /\ ListsInv /\ InfoInv
  BY DEF IInv
<1>2. Objs \subseteq Lists /\ {"interrupts_db", "banned_irqs", "rebalance_irq_list"} \subseteq Lists
  BY ListNames
<1>3. AssignedInv'
  BY <1>1, <1>2 DEF AssignedInv, SameIrqs
<1>4. ListsInv'
  <2>1. \A l \in Objs \cup {"rebalance_irq_list"} : On(l)' \subseteq On("interrupts_db")'
    BY <1>1, <1>2 DEF ListsInv, SameIrqs
  <2>2. \A l \in Lists : Distinct(Held'[l])
    BY DEF SameIrqs
  <2>3. On("interrupts_db")' \cap On("banned_irqs")' = {}
    BY <1>1, <1>2 DEF ListsInv, SameIrqs
  <2>4. pc' \notin {"rebalance", "build", "exit", "free_banned_irqs", "free_banned"}
    OBVIOUS
  <2> QED BY <2>1, <2>2, <2>3, <2>4 DEF ListsInv
<1>5. InfoInv'
  BY <1>1, <1>2 DEF InfoInv, SameIrqs
<1> QED BY <1>3, <1>4, <1>5

(* The length that is tested before a walk. *)
LEMMA LengthIs ==
    ASSUME NEW h, NEW hd, NEW cs, Rep(h, hd, cs), NEW l \in Lists
    PROVE  /\ g_list_length(h, hd[l]) = Len(IrqsFrom(h, hd)[l])
           /\ g_list_length(h, hd[l]) > 0 <=> IrqsFrom(h, hd)[l] # <<>>
<1> DEFINE s == IrqsFrom(h, hd)[l]
<1>1. Chain(h, hd[l]) = cs[l] /\ s \in Seq(Irqs) /\ Len(s) = Len(cs[l])
  BY RepIs
<1> HIDE DEF s
<1>2. g_list_length(h, hd[l]) = Len(s)
  BY <1>1 DEF g_list_length
<1>3. Len(s) \in Nat /\ (s = <<>> <=> Len(s) = 0)
  BY <1>1, SeqFacts
<1>4. Len(s) > 0 <=> s # <<>>
  BY <1>3
<1> QED BY <1>2, <1>4 DEF s

(* A list of an object is walked as it is. *)
LEMMA ObjectWalkStep ==
    ASSUME IInv, NEW o \in Objs, EnterPowersave(o) \/ place_irq_in_object(o)
    PROVE  IInv' /\ Beginning(o)
<1>1. /\ pc \in {"migrate", "place"} /\ walk = NoWalk /\ g_list_length(heap, head[o]) > 0
      /\ UNCHANGED <<pc, heap, head, info, assigned>>
      /\ \/ pc = "migrate" /\ Begins(heap, head, o, "force_irq_migration")
         \/ pc = "place" /\ Begins(heap, head, o, "find_best_object_for_irq")
  BY DEF EnterPowersave, place_irq_in_object
<1>2. /\ MemoryInv /\ PhaseInv /\ AssignedInv /\ ListsInv /\ InfoInv /\ o \in Lists
      /\ \A m \in Lists : Distinct(Held[m])
  BY ListNames DEF IInv, ListsInv, Callbacks
<1>3. Held[o] # <<>>
  BY <1>1, <1>2, LengthIs DEF MemoryInv, Held
<1>4. /\ MemoryInv' /\ Held' = Held /\ walk'.on = o /\ Beginning(o)
      /\ walk'.cb = IF pc = "migrate" THEN "force_irq_migration" ELSE "find_best_object_for_irq"
  <2>1. CASE pc = "migrate"
    <3> DEFINE b == "force_irq_migration"
    <3>1. b \in Callbacks /\ Begins(heap, head, o, b)
      BY <1>1, <2>1 DEF Callbacks
    <3> HIDE DEF b
    <3>2. MemoryInv' /\ Held' = Held /\ walk'.on = o /\ Beginning(o) /\ walk'.cb = b
      BY <1>1, <1>2, <1>3, <3>1, BeginKept
    <3> QED BY <2>1, <3>2 DEF b
  <2>2. CASE pc # "migrate"
    <3> DEFINE b == "find_best_object_for_irq"
    <3>1. b \in Callbacks /\ Begins(heap, head, o, b)
      BY <1>1, <2>2 DEF Callbacks
    <3> HIDE DEF b
    <3>2. MemoryInv' /\ Held' = Held /\ walk'.on = o /\ Beginning(o) /\ walk'.cb = b
      BY <1>1, <1>2, <1>3, <3>1, BeginKept
    <3> QED BY <2>2, <3>2 DEF b
  <2> QED BY <2>1, <2>2
<1>5. pc' = pc /\ info' = info /\ assigned' = assigned /\ \A l : On(l)' = On(l)
  BY <1>1, <1>4 DEF On
<1>6. PhaseInv'
  BY <1>1, <1>4, <1>5 DEF PhaseInv
<1>7. AssignedInv' /\ InfoInv'
  BY <1>1, <1>2, <1>5 DEF AssignedInv, InfoInv
<1>8. ListsInv'
  BY <1>1, <1>2, <1>4, <1>5 DEF ListsInv
<1> QED BY <1>4, <1>6, <1>7, <1>8 DEF IInv

(* The db is walked when the balancing begins, *)
LEMMA StartRebalanceStep ==
    ASSUME IInv, StartRebalance
    PROVE  IInv' /\ Beginning("interrupts_db")
<1> DEFINE db == "interrupts_db"
           b == "force_rebalance_irq"
<1>1. pc = "build" /\ pc' = "rebalance" /\ Begins(heap, head, db, b) /\ UNCHANGED <<heap, head, info, assigned>>
  BY DEF StartRebalance
<1>2. /\ MemoryInv /\ PhaseInv /\ AssignedInv /\ ListsInv /\ InfoInv /\ db \in Lists /\ b \in Callbacks
      /\ \A m \in Lists : Distinct(Held[m])
  BY ListNames DEF IInv, ListsInv, Callbacks
<1>3. walk = NoWalk
  BY <1>1, <1>2 DEF PhaseInv
<1>4. /\ MemoryInv' /\ Held' = Held /\ walk'.on = db /\ walk'.cb = b /\ Beginning(db)
  <2> HIDE DEF db, b
  <2>1. /\ MemoryInv' /\ Held' = Held /\ walk'.cb = b /\ Beginning(walk'.on)
        /\ walk'.on = IF Held[db] = <<>> THEN "interrupts_db" ELSE db
    BY <1>1, <1>2, <1>3, BeginKept
  <2>2. walk'.on = db
    BY <2>1 DEF db
  <2> QED BY <2>1, <2>2
<1>5. info' = info /\ assigned' = assigned /\ \A l : On(l)' = On(l)
  BY <1>1, <1>4 DEF On
<1>6. PhaseInv'
  BY <1>1, <1>4 DEF PhaseInv
<1>7. AssignedInv' /\ InfoInv'
  BY <1>1, <1>2, <1>5 DEF AssignedInv, InfoInv
<1>8. ListsInv'
  <2>1. On("rebalance_irq_list")' = {}
    <3>1. Held["rebalance_irq_list"] = <<>>
      BY <1>1, <1>2 DEF ListsInv
    <3> QED BY <1>5, <3>1, EmptyList DEF On
  <2> QED BY <1>1, <1>2, <1>4, <1>5, <2>1 DEF ListsInv
<1> QED BY <1>4, <1>6, <1>7, <1>8 DEF IInv

(* and when its irqs are freed. *)
LEMMA FreeIrqDbStep ==
    ASSUME IInv, free_irq_db
    PROVE  IInv' /\ Beginning("interrupts_db")
<1> DEFINE db == "interrupts_db"
           b == "free_irq"
<1>1. pc = "free_irq_db" /\ pc' = "free_db" /\ Begins(heap, head, db, b) /\ UNCHANGED <<heap, head, info, assigned>>
  BY DEF free_irq_db
<1>2. /\ MemoryInv /\ PhaseInv /\ AssignedInv /\ ListsInv /\ InfoInv /\ db \in Lists /\ b \in Callbacks
      /\ \A m \in Lists : Distinct(Held[m])
  BY ListNames DEF IInv, ListsInv, Callbacks
<1>3. walk = NoWalk
  BY <1>1, <1>2 DEF PhaseInv
<1>4. /\ MemoryInv' /\ Held' = Held /\ walk'.on = db /\ walk'.cb = b /\ Beginning(db) /\ Todo' = Held[db]
  <2> HIDE DEF db, b
  <2>1. /\ MemoryInv' /\ Held' = Held /\ walk'.cb = b /\ Beginning(walk'.on) /\ Todo' = Held[walk'.on]
        /\ walk'.on = IF Held[db] = <<>> THEN "interrupts_db" ELSE db
    BY <1>1, <1>2, <1>3, BeginKept
  <2>2. walk'.on = db
    BY <2>1 DEF db
  <2> QED BY <2>1, <2>2
<1>5. info' = info /\ assigned' = assigned /\ \A l : On(l)' = On(l)
  BY <1>1, <1>4 DEF On
<1>6. PhaseInv'
  BY <1>1, <1>4 DEF PhaseInv
<1>7. AssignedInv'
  BY <1>1, <1>2, <1>5 DEF AssignedInv
<1>8. InfoInv'
  <2>1. ToSet(Todo') = On(db)
    BY <1>4 DEF On
  <2> QED BY <1>1, <1>2, <1>5, <2>1 DEF InfoInv
<1>9. ListsInv'
  BY <1>1, <1>2, <1>4, <1>5 DEF ListsInv
<1> QED BY <1>4, <1>6, <1>7, <1>8, <1>9 DEF IInv

(* The list of the banned is walked, or the db, which is empty by now. *)
LEMMA FreeBannedIrqsStep ==
    ASSUME IInv, FreeBannedIrqs
    PROVE  IInv' /\ \E l \in Lists : Beginning(l)
<1> DEFINE ban == "banned_irqs"
           b == "free_irq"
<1>1. /\ pc = "free_banned_irqs" /\ pc' = "free_banned" /\ Begins(heap, head, ban, b)
      /\ UNCHANGED <<heap, head, info, assigned>>
  BY DEF FreeBannedIrqs
<1>2. /\ MemoryInv /\ PhaseInv /\ AssignedInv /\ ListsInv /\ InfoInv /\ ban \in Lists /\ b \in Callbacks
      /\ "interrupts_db" \in Lists /\ \A m \in Lists : Distinct(Held[m])
  BY ListNames DEF IInv, ListsInv, Callbacks
<1>3. walk = NoWalk /\ Held["interrupts_db"] = <<>>
  BY <1>1, <1>2 DEF PhaseInv, ListsInv
<1>4. /\ MemoryInv' /\ Held' = Held /\ walk'.cb = b /\ Beginning(walk'.on) /\ Todo' = Held[walk'.on]
      /\ walk'.on = IF Held[ban] = <<>> THEN "interrupts_db" ELSE ban
  <2> HIDE DEF ban, b
  <2> QED BY <1>1, <1>2, <1>3, BeginKept
<1>5. info' = info /\ assigned' = assigned /\ \A l : On(l)' = On(l)
  BY <1>1, <1>4 DEF On
<1>6. Todo' = Held[ban]
  BY <1>3, <1>4
<1>7. PhaseInv'
  <2>1. walk'.on = ban \/ (walk'.on = "interrupts_db" /\ Todo' = <<>>)
    BY <1>3, <1>4
  <2> QED BY <1>1, <1>4, <2>1 DEF PhaseInv
<1>8. AssignedInv'
  BY <1>1, <1>2, <1>5 DEF AssignedInv
<1>9. InfoInv'
  <2>1. ToSet(Todo') = On(ban) /\ On("interrupts_db") = {}
    BY <1>3, <1>6, EmptyList DEF On
  <2> QED BY <1>1, <1>2, <1>5, <2>1 DEF InfoInv
<1>10. ListsInv'
  BY <1>1, <1>2, <1>4, <1>5 DEF ListsInv
<1>11. \E l \in Lists : Beginning(l)
  BY <1>2, <1>4
<1> QED BY <1>4, <1>7, <1>8, <1>9, <1>10, <1>11 DEF IInv

(* The list of an object is sorted and walked, *)
LEMMA OverloadedStep ==
    ASSUME IInv, NEW o \in Objs, migrate_overloaded_irqs(o)
    PROVE  IInv' /\ Beginning(o)
<1>1. /\ pc = "migrate" /\ walk = NoWalk /\ g_list_length(heap, head[o]) > 1 /\ UNCHANGED <<pc, info, assigned>>
      /\ \E ord \in SetToSeqs(Irqs) :
            LET r == g_list_sort(heap, head[o], Before(ord))
                s == [head EXCEPT ![o] = r.list]
            IN  heap' = r.heap /\ head' = s /\ Begins(r.heap, s, o, "move_candidate_irqs")
  BY DEF migrate_overloaded_irqs
<1>2. MemoryInv /\ PhaseInv /\ o \in Lists /\ \A m \in Lists : Distinct(Held[m])
  BY ListNames DEF IInv, ListsInv
<1>3. Held[o] # <<>>
  <2>1. Len(Held[o]) > 1
    BY <1>1, <1>2, LengthIs DEF MemoryInv, Held
  <2> QED BY <2>1
<1> DEFINE b == "move_candidate_irqs"
<1>4. PICK ord \in SetToSeqs(Irqs) :
         LET r == g_list_sort(heap, head[o], Before(ord))
             s == [head EXCEPT ![o] = r.list]
         IN  heap' = r.heap /\ head' = s /\ Begins(r.heap, s, o, b)
  BY <1>1
<1> DEFINE r == g_list_sort(heap, head[o], Before(ord))
<1>5. heap' = r.heap /\ head' = [head EXCEPT ![o] = r.list] /\ Begins(r.heap, [head EXCEPT ![o] = r.list], o, b)
  BY <1>4
<1>6. r = g_list_sort(heap, head[o], Before(ord)) /\ b \in Callbacks
  BY DEF Callbacks
<1> HIDE DEF r, b
<1>7. MemoryInv' /\ SameIrqs /\ walk'.on = o /\ walk'.cb = b /\ Beginning(o)
  BY <1>1, <1>2, <1>3, <1>5, <1>6, BeginSorted
<1>8. AssignedInv' /\ ListsInv' /\ InfoInv'
  BY <1>1, <1>7, SameKeepsInv
<1>9. PhaseInv'
  <2>1. pc' = "migrate" /\ walk'.cb = "move_candidate_irqs" /\ walk'.on \in Objs
    BY <1>1, <1>7 DEF b
  <2> QED BY <2>1 DEF PhaseInv
<1> QED BY <1>7, <1>8, <1>9 DEF IInv

(* and so are the irqs to place, if there are any. *)
LEMMA StartPlacementStep ==
    ASSUME IInv, StartPlacement
    PROVE  /\ IInv'
           /\ \/ Beginning("rebalance_irq_list")
              \/ walk = NoWalk /\ walk' = NoWalk /\ Held' = Held
<1> DEFINE reb == "rebalance_irq_list"
           b == "place_irq_in_node"
<1>1. /\ pc = "migrate" /\ walk = NoWalk /\ pc' = "place" /\ UNCHANGED <<info, assigned>>
      /\ \E ord \in SetToSeqs(Irqs) :
            LET r == g_list_sort(heap, head[reb], Before(ord))
                s == [head EXCEPT ![reb] = r.list]
            IN  /\ heap' = r.heap /\ head' = s
                /\ IF g_list_length(r.heap, r.list) > 0 THEN Begins(r.heap, s, reb, b) ELSE UNCHANGED walk
  BY DEF StartPlacement
<1>2. MemoryInv /\ PhaseInv /\ reb \in Lists /\ b \in Callbacks /\ \A m \in Lists : Distinct(Held[m])
  BY ListNames DEF IInv, ListsInv, Callbacks
<1>3. PICK ord \in SetToSeqs(Irqs) :
         LET r == g_list_sort(heap, head[reb], Before(ord))
             s == [head EXCEPT ![reb] = r.list]
         IN  /\ heap' = r.heap /\ head' = s
             /\ IF g_list_length(r.heap, r.list) > 0 THEN Begins(r.heap, s, reb, b) ELSE UNCHANGED walk
  BY <1>1
<1> DEFINE r == g_list_sort(heap, head[reb], Before(ord))
<1>4. /\ heap' = r.heap /\ head' = [head EXCEPT ![reb] = r.list]
      /\ IF g_list_length(r.heap, r.list) > 0 THEN Begins(r.heap, [head EXCEPT ![reb] = r.list], reb, b)
         ELSE UNCHANGED walk
      /\ r = g_list_sort(heap, head[reb], Before(ord))
  BY <1>3
<1> HIDE DEF r, b
<1>5. pc' = "place" /\ reb = "rebalance_irq_list" /\ b = "place_irq_in_node"
  BY <1>1 DEF b
<1> HIDE DEF reb
<1>6. Rep(heap', head', CellsOn') /\ \E s \in SetToSeqs(On(reb)) : Held' = With(Held, reb, s)
  BY <1>2, <1>4, SortRep
<1>7. g_list_length(r.heap, r.list) > 0 <=> Held'[reb] # <<>>
  <2> DEFINE h == heap'
             hd == head'
  <2>1. Rep(h, hd, CellsOn')
    BY <1>6
  <2>2. r.heap = h /\ r.list = hd[reb]
    BY <1>2, <1>4 DEF MemoryInv, Rep
  <2> HIDE DEF h, hd
  <2>3. g_list_length(h, hd[reb]) > 0 <=> IrqsFrom(h, hd)[reb] # <<>>
    BY <1>2, <2>1, LengthIs
  <2>4. Held' = IrqsFrom(h, hd)
    BY DEF Held, h, hd
  <2> QED BY <2>2, <2>3, <2>4
<1>8. SameIrqs
  <2>1. PICK s \in SetToSeqs(On(reb)) : Held' = With(Held, reb, s)
    BY <1>6
  <2> QED BY <1>2, <2>1, SortedSets DEF SameIrqs, On
<1>9. CASE Held[reb] # <<>>
  <2>1. Begins(r.heap, [head EXCEPT ![reb] = r.list], reb, b)
    BY <1>2, <1>4, <1>7, <1>8, <1>9 DEF SameIrqs
  <2>2. MemoryInv' /\ SameIrqs /\ walk'.on = reb /\ walk'.cb = b /\ Beginning(reb)
    BY <1>1, <1>2, <1>4, <1>9, <2>1, BeginSorted
  <2>3. AssignedInv' /\ ListsInv' /\ InfoInv'
    BY <1>1, <2>2, SameKeepsInv
  <2>4. PhaseInv'
    BY <1>5, <2>2 DEF PhaseInv
  <2> QED BY <1>5, <2>2, <2>3, <2>4 DEF IInv
<1>10. CASE Held[reb] = <<>>
  <2>1. walk' = NoWalk /\ Held'[reb] = <<>>
    BY <1>1, <1>2, <1>4, <1>7, <1>8, <1>10 DEF SameIrqs
  <2>2. MemoryInv'
    BY <1>6, <2>1, NoWalkAt
  <2>3. AssignedInv' /\ ListsInv' /\ InfoInv'
    BY <1>1, <1>8, <2>2, SameKeepsInv
  <2>4. PhaseInv'
    BY <1>5, <2>1 DEF PhaseInv
  <2>5. Held' = Held
    <3>1. PICK s \in SetToSeqs(On(reb)) : Held' = With(Held, reb, s)
      BY <1>6
    <3>2. Held = [l \in Lists |-> Held[l]]
      BY <1>2, HeldFacts
    <3>3. s = Held[reb]
      BY <1>2, <1>10, <2>1, <3>1, <3>2, WithFacts
    <3> QED BY <3>1, <3>2, <3>3 DEF With
  <2> QED BY <1>1, <2>1, <2>2, <2>3, <2>4, <2>5 DEF IInv
<1> QED BY <1>5, <1>9, <1>10

(* An irq is found. *)
LEMMA BuildStep ==
    ASSUME IInv, NEW l \in {"interrupts_db", "banned_irqs"}, Build(l)
    PROVE  IInv' /\ walk = NoWalk /\ walk' = NoWalk /\ \E i \in Irqs : Gained(l, i)
<1> DEFINE db == "interrupts_db"
           ban == "banned_irqs"
           reb == "rebalance_irq_list"
<1>1. pc = "build" /\ UNCHANGED <<pc, walk>>
  BY DEF Build
<1>2. PICK i \in Irqs : /\ get_irq_info(i) = NULL /\ AppendTo(heap, head, l, i)
                        /\ info' = info \cup {i} /\ assigned' = [assigned EXCEPT ![i] = NULL]
  BY DEF Build
<1>3. /\ MemoryInv /\ PhaseInv /\ AssignedInv /\ ListsInv /\ InfoInv /\ l \in Lists
      /\ db \in Lists /\ ban \in Lists /\ reb \in Lists /\ db # ban /\ reb \notin {db, ban}
      /\ Objs \subseteq Lists /\ db \notin Objs /\ ban \notin Objs /\ reb \notin Objs
      /\ \A m \in Lists : Distinct(Held[m])
  BY ListNames DEF IInv, ListsInv
<1>4. walk = NoWalk /\ walk' = NoWalk
  BY <1>1, <1>3 DEF PhaseInv
<1>5. i \notin On(db) \cup On(ban)
  <2>1. ASSUME NEW m \in Lists, g_list_find_custom(heap, head[m], i) = NULL PROVE i \notin On(m)
    <3>1. heap \in Heaps /\ IsList(heap, head[m], CellsOn[m])
      BY <1>3, HeldFacts
    <3>2. \A k \in 1..Len(CellsOn[m]) : heap.cell[CellsOn[m][k]].data # i
      BY <2>1, <3>1, FindCorrect
    <3>3. /\ Held[m] = DataOn(heap, CellsOn[m]) /\ Len(Held[m]) = Len(CellsOn[m])
          /\ On(m) = {Held[m][k] : k \in 1..Len(Held[m])}
      BY <1>3, HeldFacts
    <3> QED BY <3>2, <3>3 DEF DataOn
  <2> QED BY <1>2, <1>3, <2>1 DEF get_irq_info
<1>6. Rep(heap', head', CellsOn') /\ Gained(l, i)
  <2>1. Rep(heap, head, CellsOn)
    BY <1>3 DEF MemoryInv
  <2>2. PICK c \in Cells : /\ Rep(heap', head', With(CellsOn, l, Append(CellsOn[l], c)))
                           /\ IrqsFrom(heap', head') = With(IrqsFrom(heap, head), l, Append(IrqsFrom(heap, head)[l], i))
    BY <1>2, <1>3, <2>1, AppendRep
  <2>3. CellsOn' = With(CellsOn, l, Append(CellsOn[l], c))
    <3>1. With(CellsOn, l, Append(CellsOn[l], c)) = CellsFrom(heap', head')
      BY <2>2, RepIs
    <3>2. CellsOn' = CellsFrom(heap', head')
      BY DEF CellsOn
    <3> QED BY <3>1, <3>2
  <2> QED BY <2>2, <2>3 DEF Gained, Held
<1>7. MemoryInv' /\ Todo' = <<>>
  BY <1>4, <1>6, NoWalkAt
<1>8. \A m \in Lists : /\ Distinct(Held'[m])
                       /\ On(m)' = IF m = l THEN On(l) \cup {i} ELSE On(m)
                       /\ m # l => Held'[m] = Held[m]
  <2>1. i \notin On(l)
    BY <1>5
  <2>2. \A m \in Lists : /\ Distinct(Held'[m])
                         /\ ToSet(Held'[m]) = IF m = l THEN On(l) \cup {i} ELSE On(m)
                         /\ m # l => Held'[m] = Held[m]
    BY <1>3, <1>6, <2>1, GainedSets
  <2> QED BY <2>2 DEF On
<1>9. \A m \in Objs \cup {reb} : Held'[m] = <<>> /\ On(m)' = {}
  <2> TAKE m \in Objs \cup {reb}
  <2>1. Held[m] = <<>> /\ m \in Lists /\ m # l
    BY <1>1, <1>3 DEF ListsInv
  <2>2. Held'[m] = <<>>
    BY <1>8, <2>1
  <2> QED BY <2>2, EmptyList DEF On
<1>10. PhaseInv'
  BY <1>1, <1>4 DEF PhaseInv
<1>11. AssignedInv'
  <2>1. assigned' \in [Irqs -> Objs \cup {NULL}] /\ \A j \in Irqs : assigned'[j] = IF j = i THEN NULL ELSE assigned[j]
    BY <1>2, <1>3 DEF AssignedInv
  <2>2. ASSUME NEW j \in On(db)' PROVE assigned'[j] = NULL
    <3>1. j \in On(db) \/ j = i
      BY <1>3, <1>8, <2>2
    <3>2. j \in Irqs
      BY <1>3, <3>1, HeldFacts
    <3> QED BY <1>1, <1>3, <2>1, <3>1, <3>2 DEF AssignedInv
  <2> QED BY <1>9, <2>1, <2>2 DEF AssignedInv
<1>12. ListsInv'
  <2>1. On(db)' \cap On(ban)' = {}
    BY <1>3, <1>5, <1>8 DEF ListsInv
  <2> QED BY <1>1, <1>8, <1>9, <2>1 DEF ListsInv
<1>13. InfoInv'
  BY <1>1, <1>2, <1>3, <1>8 DEF InfoInv
<1> QED BY <1>4, <1>6, <1>7, <1>10, <1>11, <1>12, <1>13 DEF IInv

(* No list changes and none is walked. *)
LEMMA IdleStays ==
    ASSUME MemoryInv, UNCHANGED <<heap, head>>, walk' = NoWalk
    PROVE  MemoryInv' /\ Held' = Held /\ Todo' = <<>> /\ \A l : On(l)' = On(l)
<1>1. CellsOn' = CellsOn /\ Held' = Held /\ \A m : On(m)' = On(m)
  BY DEF CellsOn, CellsFrom, Held, IrqsFrom, On
<1>2. Rep(heap', head', CellsOn')
  BY <1>1 DEF MemoryInv
<1> QED BY <1>1, <1>2, NoWalkAt

(* for_each_irq returns. *)
LEMMA ReturnStep ==
    ASSUME IInv, Return
    PROVE  IInv' /\ walk # NoWalk /\ Todo = <<>> /\ walk' = NoWalk /\ Held' = Held
<1>1. /\ walk.on # NoList /\ walk.entry = NULL /\ walk' = NoWalk
      /\ pc' = (IF pc = "rebalance" THEN "migrate" ELSE pc) /\ UNCHANGED <<heap, head, info, assigned>>
  BY DEF Return
<1>2. MemoryInv /\ PhaseInv /\ AssignedInv /\ ListsInv /\ InfoInv /\ walk # NoWalk
  BY <1>1 DEF IInv, NoWalk
<1>3. Todo = <<>>
  BY <1>1, <1>2, WalkFacts
<1>4. MemoryInv' /\ Held' = Held /\ Todo' = <<>> /\ \A l : On(l)' = On(l)
  BY <1>1, <1>2, IdleStays
<1>5. info' = info /\ assigned' = assigned /\ pc \notin {"build", "free_irq_db", "free_banned_irqs", "exit"}
  BY <1>1, <1>2 DEF PhaseInv
<1> HIDE DEF NoWalk
<1>6. PhaseInv'
  <2>1. pc' # "rebalance" /\ pc' \in {"migrate", "place", "free_db", "free_banned"}
    BY <1>1, <1>2, <1>5 DEF PhaseInv
  <2> QED BY <1>1, <2>1 DEF PhaseInv
<1>7. AssignedInv'
  BY <1>1, <1>2, <1>4, <1>5 DEF AssignedInv
<1>8. ListsInv'
  BY <1>1, <1>2, <1>4, <1>5 DEF ListsInv
<1>9. InfoInv'
  BY <1>1, <1>2, <1>3, <1>4, <1>5 DEF InfoInv
<1> QED BY <1>1, <1>2, <1>3, <1>4, <1>6, <1>7, <1>8, <1>9 DEF IInv

(* The next cycle begins, or the daemon has ended. *)
LEMMA IdleStep ==
    ASSUME IInv, NextCycle \/ Terminating
    PROVE  IInv' /\ walk = NoWalk /\ walk' = NoWalk /\ Held' = Held
<1>1. /\ UNCHANGED <<heap, head, info, assigned, walk>>
      /\ \/ pc = "place" /\ pc' = "migrate" /\ walk = NoWalk
         \/ pc = "exit" /\ pc' = "exit"
  BY DEF NextCycle, Terminating, vars
<1>2. MemoryInv /\ PhaseInv /\ AssignedInv /\ ListsInv /\ InfoInv
  BY DEF IInv
<1>3. walk = NoWalk /\ walk' = NoWalk
  BY <1>1, <1>2 DEF PhaseInv
<1>4. MemoryInv' /\ Held' = Held /\ Todo' = <<>> /\ \A l : On(l)' = On(l)
  BY <1>1, <1>2, <1>3, IdleStays
<1> HIDE DEF NoWalk
<1>5. PhaseInv'
  BY <1>1, <1>3 DEF PhaseInv
<1>6. AssignedInv' /\ InfoInv'
  BY <1>1, <1>2, <1>4 DEF AssignedInv, InfoInv
<1>7. ListsInv'
  BY <1>1, <1>2, <1>4 DEF ListsInv
<1> QED BY <1>3, <1>4, <1>5, <1>6, <1>7 DEF IInv

(* Some lists are freed, none is walked. *)
Dropping == walk = NoWalk /\ walk' = NoWalk /\ \E S \in SUBSET Lists : Held' = Emptied(Held, S, <<>>)

(* What is on the lists then. *)
LEMMA EmptiedSets ==
    ASSUME MemoryInv, \A m \in Lists : Distinct(Held[m]), NEW S \in SUBSET Lists, Held' = Emptied(Held, S, <<>>)
    PROVE  \A m \in Lists : /\ Distinct(Held'[m])
                            /\ m \in S => Held'[m] = <<>> /\ On(m)' = {}
                            /\ m \notin S => Held'[m] = Held[m] /\ On(m)' = On(m)
<1>1. \A m \in Lists : Held'[m] = IF m \in S THEN <<>> ELSE Held[m]
  BY DEF Emptied
<1>2. ToSet(<<>>) = {} /\ Distinct(<<>>)
  BY EmptyList DEF Distinct
<1> QED BY <1>1, <1>2 DEF On

(* The objects are freed, with their lists. *)
LEMMA FreeTreeStep ==
    ASSUME IInv, free_object_tree
    PROVE  IInv' /\ Dropping
<1>1. /\ pc = "migrate" /\ walk = NoWalk /\ pc' = "free_irq_db" /\ UNCHANGED <<info, assigned, walk>>
      /\ head' = [l \in Lists |-> IF l \in Objs THEN NULL ELSE head[l]]
  BY DEF free_object_tree
<1>2. PICK objs \in SetToSeqs(Objs) :
         LET freed[n \in 0..Len(objs)] == IF n = 0 THEN heap ELSE g_list_free(freed[n - 1], head[objs[n]])
         IN  heap' = freed[Len(objs)]
  BY DEF free_object_tree
<1>3. MemoryInv /\ AssignedInv /\ ListsInv /\ InfoInv /\ \A m \in Lists : Distinct(Held[m])
  BY DEF IInv, ListsInv
<1>4. Rep(heap', head', CellsOn') /\ Held' = Emptied(Held, Objs, <<>>)
  BY <1>1, <1>2, <1>3, FreeAllRep
<1>5. MemoryInv' /\ Todo' = <<>> /\ walk' = NoWalk
  BY <1>1, <1>4, NoWalkAt
<1>6. Objs \in SUBSET Lists /\ \A l \in {"interrupts_db", "banned_irqs", "rebalance_irq_list"} : l \in Lists /\ l \notin Objs
  BY ListNames
<1>7. \A m \in Lists : /\ Distinct(Held'[m])
                       /\ m \in Objs => Held'[m] = <<>> /\ On(m)' = {}
                       /\ m \notin Objs => Held'[m] = Held[m] /\ On(m)' = On(m)
  BY <1>3, <1>4, <1>6, EmptiedSets
<1> HIDE DEF NoWalk
<1>8. PhaseInv'
  BY <1>1, <1>5 DEF PhaseInv
<1>9. AssignedInv'
  BY <1>1, <1>3, <1>6, <1>7 DEF AssignedInv
<1>10. ListsInv'
  <2>1. \A l \in Objs \cup {"rebalance_irq_list"} : On(l)' \subseteq On("interrupts_db")'
    BY <1>1, <1>3, <1>6, <1>7 DEF ListsInv
  <2>2. On("interrupts_db")' \cap On("banned_irqs")' = {}
    BY <1>3, <1>6, <1>7 DEF ListsInv
  <2> QED BY <1>1, <1>6, <1>7, <2>1, <2>2 DEF ListsInv
<1>11. InfoInv'
  BY <1>1, <1>3, <1>6, <1>7 DEF InfoInv
<1>12. Dropping
  BY <1>1, <1>4, <1>6 DEF Dropping
<1> QED BY <1>5, <1>8, <1>9, <1>10, <1>11, <1>12 DEF IInv

(* The db is freed. *)
LEMMA FreeDbStep ==
    ASSUME IInv, FreeDb
    PROVE  IInv' /\ Dropping
<1> DEFINE db == "interrupts_db"
           ban == "banned_irqs"
           S == {db}
<1>1. /\ pc = "free_db" /\ walk = NoWalk /\ pc' = "free_banned_irqs" /\ UNCHANGED <<info, assigned, walk>>
      /\ heap' = g_list_free(heap, head[db]) /\ head' = With(head, db, NULL)
  BY DEF FreeDb, With
<1>2. /\ MemoryInv /\ AssignedInv /\ ListsInv /\ InfoInv /\ db \in Lists /\ ban \in Lists /\ ban # db
      /\ Objs \subseteq Lists /\ db \notin Objs /\ "rebalance_irq_list" \in Lists /\ "rebalance_irq_list" # db
      /\ \A m \in Lists : Distinct(Held[m])
  BY ListNames DEF IInv, ListsInv
<1> HIDE DEF db, ban
<1>3. Rep(heap', head', CellsOn') /\ Held' = Emptied(Held, S, <<>>)
  <2> DEFINE p == head[db]
  <2>1. Rep(heap, head, CellsOn) /\ p = head[db]
    BY <1>2 DEF MemoryInv
  <2>2. heap' = g_list_free(heap, p)
    BY <1>1
  <2> HIDE DEF p
  <2>3. /\ Rep(heap', head', With(CellsOn, db, <<>>))
        /\ IrqsFrom(heap', head') = With(IrqsFrom(heap, head), db, <<>>)
    BY <1>1, <1>2, <2>1, <2>2, FreeRep
  <2>4. CellsOn' = With(CellsOn, db, <<>>)
    <3>1. With(CellsOn, db, <<>>) = CellsFrom(heap', head')
      BY <2>3, RepIs
    <3>2. CellsOn' = CellsFrom(heap', head')
      BY DEF CellsOn
    <3> QED BY <3>1, <3>2
  <2>5. Held' = With(Held, db, <<>>)
    BY <2>3 DEF Held
  <2>6. Held = [l \in Lists |-> Held[l]]
    BY <1>2, HeldFacts
  <2> QED BY <1>2, <2>3, <2>4, <2>5, <2>6, WithFacts DEF Emptied
<1>4. MemoryInv' /\ Todo' = <<>> /\ walk' = NoWalk
  BY <1>1, <1>3, NoWalkAt
<1>5. S \in SUBSET Lists
  BY <1>2
<1> HIDE DEF S
<1>6. \A m \in Lists : /\ Distinct(Held'[m])
                       /\ m \in S => Held'[m] = <<>> /\ On(m)' = {}
                       /\ m \notin S => Held'[m] = Held[m] /\ On(m)' = On(m)
  BY <1>2, <1>3, <1>5, EmptiedSets
<1>7. Held'[db] = <<>> /\ On(db)' = {} /\ \A m \in Lists : m # db => Held'[m] = Held[m] /\ On(m)' = On(m)
  BY <1>2, <1>6 DEF S
<1>8. info = On(ban)
  <2>1. Todo = <<>>
    BY <1>1, <1>2, IdleFacts DEF MemoryInv, Rep
  <2>2. ToSet(Todo) = {}
    BY <2>1, EmptyList
  <2> QED BY <1>1, <1>2, <2>2 DEF InfoInv, ban
<1> USE DEF db, ban
<1> HIDE DEF NoWalk
<1>9. PhaseInv'
  BY <1>1, <1>4 DEF PhaseInv
<1>10. AssignedInv'
  BY <1>1, <1>2, <1>7 DEF AssignedInv
<1>11. ListsInv'
  BY <1>1, <1>2, <1>6, <1>7 DEF ListsInv
<1>12. InfoInv'
  BY <1>1, <1>2, <1>7, <1>8 DEF InfoInv
<1>13. Dropping
  BY <1>1, <1>3, <1>5 DEF Dropping
<1> QED BY <1>4, <1>9, <1>10, <1>11, <1>12, <1>13 DEF IInv

(* The lists of the banned and of the irqs to place are freed. *)
LEMMA FreeBannedStep ==
    ASSUME IInv, FreeBanned
    PROVE  IInv' /\ Dropping
<1> DEFINE db == "interrupts_db"
           ban == "banned_irqs"
           reb == "rebalance_irq_list"
           S == {ban, reb}
           h == g_list_free(heap, head[ban])
           hd == With(head, ban, NULL)
<1>1. /\ pc = "free_banned" /\ walk = NoWalk /\ pc' \in {"free_irq_db", "build", "exit"}
      /\ UNCHANGED <<info, assigned, walk>>
      /\ heap' = g_list_free(h, head[reb]) /\ head' = With(hd, reb, NULL)
  BY DEF FreeBanned, With
<1>2. /\ MemoryInv /\ AssignedInv /\ ListsInv /\ InfoInv /\ db \in Lists /\ ban \in Lists /\ reb \in Lists
      /\ db \notin S /\ ban # reb /\ Objs \subseteq Lists /\ Objs \cap S = {} /\ db \notin Objs
      /\ \A m \in Lists : Distinct(Held[m])
  BY ListNames DEF IInv, ListsInv
<1> HIDE DEF db, ban, reb
<1>3. Rep(heap', head', CellsOn') /\ Held' = Emptied(Held, S, <<>>)
  <2>1. /\ Rep(heap, head, CellsOn) /\ Held = IrqsFrom(heap, head)
        /\ CellsOn = [l \in Lists |-> CellsOn[l]] /\ Held = [l \in Lists |-> Held[l]] /\ head = [l \in Lists |-> head[l]]
    BY <1>2, HeldFacts DEF MemoryInv, Held, Rep
  <2> DEFINE p == head[ban]
             cs == With(CellsOn, ban, <<>>)
             f == With(Held, ban, <<>>)
  <2>2. p = head[ban] /\ h = g_list_free(heap, p)
    OBVIOUS
  <2> HIDE DEF h, p
  <2>3. Rep(h, With(head, ban, NULL), With(CellsOn, ban, <<>>))
        /\ IrqsFrom(h, With(head, ban, NULL)) = With(IrqsFrom(heap, head), ban, <<>>)
    BY <1>2, <2>1, <2>2, FreeRep
  <2>4. Rep(h, hd, cs) /\ IrqsFrom(h, hd) = f
    BY <2>1, <2>3
  <2> DEFINE q == head[reb]
  <2>5. q = hd[reb]
    BY <1>2, <2>1, WithFacts
  <2>6. heap' = g_list_free(h, q)
    BY <1>1
  <2> HIDE DEF hd, q, cs, f
  <2>7. Rep(heap', head', With(cs, reb, <<>>)) /\ IrqsFrom(heap', head') = With(IrqsFrom(h, hd), reb, <<>>)
    BY <1>1, <1>2, <2>4, <2>5, <2>6, FreeRep
  <2>8. CellsOn' = With(cs, reb, <<>>)
    <3>1. With(cs, reb, <<>>) = CellsFrom(heap', head')
      BY <2>7, RepIs
    <3>2. CellsOn' = CellsFrom(heap', head')
      BY DEF CellsOn
    <3> QED BY <3>1, <3>2
  <2>9. Held' = With(f, reb, <<>>)
    BY <2>4, <2>7 DEF Held
  <2>10. f = [m \in Lists |-> IF m = ban THEN <<>> ELSE Held[m]]
    <3> DEFINE v == <<>>
    <3>1. With(Held, ban, v) = [m \in Lists |-> IF m = ban THEN v ELSE Held[m]]
      <4> HIDE DEF v
      <4>1. Held = [m \in Lists |-> Held[m]]
        BY <1>2, HeldFacts
      <4> QED BY <1>2, <4>1, WithFacts
    <3> QED BY <3>1 DEF f
  <2>11. f = [m \in Lists |-> f[m]]
    BY <2>10
  <2>12. With(f, reb, <<>>) = [m \in Lists |-> IF m = reb THEN <<>> ELSE f[m]]
    BY <1>2, <2>11, WithFacts
  <2> QED BY <2>7, <2>8, <2>9, <2>10, <2>12 DEF Emptied
<1>4. MemoryInv' /\ Todo' = <<>> /\ walk' = NoWalk
  BY <1>1, <1>3, NoWalkAt
<1>5. S \in SUBSET Lists
  BY <1>2
<1>6. \A m \in Lists : /\ Distinct(Held'[m])
                       /\ m \in S => Held'[m] = <<>> /\ On(m)' = {}
                       /\ m \notin S => Held'[m] = Held[m] /\ On(m)' = On(m)
  <2> HIDE DEF S
  <2> QED BY <1>2, <1>3, <1>5, EmptiedSets
<1>7. \A m \in Objs \cup {db} : Held[m] = <<>>
  BY <1>1, <1>2 DEF ListsInv, db
<1>8. \A m \in Lists : m \in Objs \cup {db} \/ m \in S
  BY ListNames DEF db, ban, reb
<1>9. \A m \in Lists : Held'[m] = <<>> /\ On(m)' = {}
  <2>1. \A m \in Lists : Held'[m] = <<>>
    <3> HIDE DEF S
    <3> QED BY <1>6, <1>7, <1>8
  <2> QED BY <2>1, EmptyList DEF On
<1>10. info = {}
  <2>1. Todo = <<>>
    BY <1>1, <1>2, IdleFacts DEF MemoryInv, Rep
  <2>2. ToSet(Todo) = {}
    BY <2>1, EmptyList
  <2> QED BY <1>1, <1>2, <2>2 DEF InfoInv
<1>11. Dropping
  BY <1>1, <1>3, <1>5 DEF Dropping
<1> USE DEF db, ban, reb
<1> HIDE DEF NoWalk, S, h, hd
<1>12. PhaseInv'
  BY <1>1, <1>4 DEF PhaseInv
<1>13. AssignedInv'
  BY <1>1, <1>2, <1>9 DEF AssignedInv
<1>14. ListsInv'
  BY <1>1, <1>2, <1>6, <1>9 DEF ListsInv
<1>15. InfoInv'
  BY <1>1, <1>2, <1>9, <1>10 DEF InfoInv
<1> QED BY <1>4, <1>11, <1>12, <1>13, <1>14, <1>15 DEF IInv

(* The invariant holds when the daemon starts. *)
LEMMA InitInv ==
    ASSUME Init
    PROVE  IInv /\ Held = [l \in Lists |-> <<>>] /\ Todo = <<>> /\ walk = NoWalk
<1> DEFINE cs == [l \in Lists |-> <<>>]
<1>1. /\ pc = "free_irq_db" /\ heap = NewHeap /\ head = [l \in Lists |-> NULL] /\ info = {}
      /\ assigned = [i \in Irqs |-> NULL] /\ walk = NoWalk
  BY DEF Init
<1>2. heap \in Heaps /\ ~heap.bad /\ \A c \in Cells : ~heap.cell[c].live
  BY <1>1 DEF NewHeap, Heaps, CellType, FreeCell, Pointers
<1>3. Rep(heap, head, cs)
  <2>1. \A l \in Lists : head[l] = NULL /\ cs[l] = <<>> /\ IsList(heap, NULL, <<>>) /\ ToSet(<<>>) = {} /\ <<>> \in Seq(Cells)
    BY <1>1, EmptyList
  <2>2. head \in [Lists -> Cells \cup {NULL}] /\ cs \in [Lists -> Seq(Cells)]
    BY <1>1, EmptyList
  <2> QED BY <1>2, <2>1, <2>2 DEF Rep
<1> HIDE DEF cs
<1>4. CellsOn = cs
  BY <1>3, RepIs DEF CellsOn
<1>5. MemoryInv
  BY <1>1, <1>3, <1>4 DEF MemoryInv
<1>6. \A l \in Lists : Held[l] = <<>>
  BY <1>1, <1>5, HeldFacts
<1>7. Held = [l \in Lists |-> <<>>]
  <2>1. Held = [l \in Lists |-> Held[l]]
    BY <1>5, HeldFacts
  <2> QED BY <1>6, <2>1
<1>8. Todo = <<>>
  BY <1>1, <1>2, IdleFacts
<1>9. \A l \in Lists : On(l) = {}
  BY <1>6, EmptyList DEF On
<1>10. Objs \subseteq Lists /\ {"interrupts_db", "banned_irqs", "rebalance_irq_list"} \subseteq Lists
  BY ListNames
<1> HIDE DEF NoWalk
<1>11. PhaseInv
  BY <1>1 DEF PhaseInv
<1>12. AssignedInv
  BY <1>1, <1>9, <1>10 DEF AssignedInv
<1>13. ListsInv
  <2>1. \A l \in Lists : Distinct(Held[l])
    BY <1>6 DEF Distinct
  <2> QED BY <1>1, <1>6, <1>9, <1>10, <2>1 DEF ListsInv
<1>14. InfoInv
  BY <1>1, <1>9, <1>10 DEF InfoInv
<1> QED BY <1>1, <1>5, <1>7, <1>8, <1>11, <1>12, <1>13, <1>14 DEF IInv

(* What a step does to the lists and to the walk. *)
Effect ==
    \/ Visiting
    \/ \E l \in Lists : Beginning(l)
    \/ Dropping
    \/ walk = NoWalk /\ walk' = NoWalk /\ \E l \in Lists : \E i \in Irqs : Gained(l, i)
    \/ walk # NoWalk /\ Todo = <<>> /\ walk' = NoWalk /\ Held' = Held
    \/ walk = NoWalk /\ walk' = NoWalk /\ Held' = Held

(* Every step keeps the invariant and has such an effect. *)
LEMMA NextStep ==
    ASSUME IInv, Next
    PROVE  IInv' /\ Effect
<1> USE DEF Effect
<1>n. {"interrupts_db", "banned_irqs", "rebalance_irq_list"} \subseteq Lists /\ Objs \subseteq Lists /\ Cpus \subseteq Objs
  BY ListNames
<1>1. CASE add_one_irq_to_db \/ add_banned_irq
  <2>1. PICK l \in {"interrupts_db", "banned_irqs"} : Build(l)
    BY <1>1 DEF add_one_irq_to_db, add_banned_irq
  <2>2. IInv' /\ walk = NoWalk /\ walk' = NoWalk /\ \E i \in Irqs : Gained(l, i)
    BY <2>1, BuildStep
  <2>3. l \in Lists
    BY <1>n
  <2> QED BY <2>2, <2>3
<1>2. CASE StartRebalance
  BY <1>2, <1>n, StartRebalanceStep
<1>3. CASE force_rebalance_irq
  BY <1>3, ForceRebalanceStep
<1>4. CASE \E o \in Objs : migrate_overloaded_irqs(o)
  <2>1. PICK o \in Objs : migrate_overloaded_irqs(o)
    BY <1>4
  <2>2. IInv' /\ Beginning(o)
    BY <2>1, OverloadedStep
  <2> QED BY <1>n, <2>2
<1>5. CASE \E o \in Objs : EnterPowersave(o) \/ place_irq_in_object(o)
  <2>1. PICK o \in Objs : EnterPowersave(o) \/ place_irq_in_object(o)
    BY <1>5
  <2>2. IInv' /\ Beginning(o)
    BY <2>1, ObjectWalkStep
  <2> QED BY <1>n, <2>2
<1>6. CASE move_candidate_irqs \/ force_irq_migration
  BY <1>6, MigrateStep
<1>7. CASE StartPlacement
  BY <1>7, <1>n, StartPlacementStep
<1>8. CASE place_irq_in_node \/ find_best_object_for_irq
  BY <1>8, PlaceStep
<1>9. CASE NextCycle \/ Terminating
  BY <1>9, IdleStep
<1>10. CASE free_object_tree
  BY <1>10, FreeTreeStep
<1>11. CASE free_irq_db
  BY <1>11, <1>n, FreeIrqDbStep
<1>12. CASE free_irq
  BY <1>12, FreeIrqStep
<1>13. CASE FreeDb
  BY <1>13, FreeDbStep
<1>14. CASE FreeBannedIrqs
  BY <1>14, FreeBannedIrqsStep
<1>15. CASE FreeBanned
  BY <1>15, FreeBannedStep
<1>16. CASE Return
  BY <1>16, ReturnStep
<1> HIDE DEF Effect
<1> QED BY <1>n, <1>1, <1>2, <1>3, <1>4, <1>5, <1>6, <1>7, <1>8, <1>9, <1>10, <1>11, <1>12, <1>13, <1>14, <1>15,
           <1>16 DEF Next

(* Nothing changes. *)
LEMMA StutterKeepsInv ==
    ASSUME IInv, UNCHANGED vars
    PROVE  IInv' /\ Held' = Held /\ Todo' = Todo /\ walk' = walk
<1>1. UNCHANGED <<pc, heap, head, info, assigned, walk>>
  BY DEF vars
<1>2. CellsOn' = CellsOn /\ Held' = Held /\ Todo' = Todo /\ \A l : On(l)' = On(l)
  BY <1>1 DEF CellsOn, CellsFrom, Held, IrqsFrom, Todo, On
<1>3. \A k : AtCell(k)' <=> AtCell(k)
  BY <1>1, <1>2 DEF AtCell
<1>4. MemoryInv'
  BY <1>1, <1>2, <1>3 DEF IInv, MemoryInv
<1>5. PhaseInv'
  BY <1>1, <1>2 DEF IInv, PhaseInv
<1>6. AssignedInv' /\ ListsInv' /\ InfoInv'
  BY <1>1, <1>2 DEF IInv, AssignedInv, ListsInv, InfoInv
<1> QED BY <1>1, <1>2, <1>4, <1>5, <1>6 DEF IInv

(* The invariant holds in every state: what the pointers of the daemon     *)
(* lead to are lists, the walk is on one, and the irq_infos, the lists and *)
(* the objects agree.                                                      *)
THEOREM InductiveInvariant == Spec => []IInv
<1>1. Init => IInv
  BY InitInv
<1>2. IInv /\ [Next]_vars => IInv'
  BY NextStep, StutterKeepsInv
<1> QED BY <1>1, <1>2, PTL DEF Spec

-----------------------------------------------------------------------------
(* The properties. *)

(* The lists are lists and no memory is lost or used after it is freed. *)
LEMMA InvWellFormed ==
    ASSUME IInv
    PROVE  WellFormed
<1>1. /\ MemoryInv /\ PhaseInv /\ AssignedInv /\ InfoInv /\ Rep(heap, head, CellsOn)
      /\ \A l \in Lists : On(l) \subseteq Irqs
  BY HeldFacts DEF IInv, MemoryInv
<1>2. \A l \in Lists : CellsOf(l) = ToSet(CellsOn[l]) /\ CellsOn[l] \in Seq(Cells) /\ IsList(heap, head[l], CellsOn[l])
  <2>1. \A l \in Lists : Chain(heap, head[l]) = CellsOn[l]
    BY DEF CellsOn, CellsFrom
  <2>2. \A l \in Lists : CellsOn[l] \in Seq(Cells) /\ IsList(heap, head[l], CellsOn[l])
    BY <1>1 DEF Rep
  <2> QED BY <2>1, <2>2 DEF CellsOf
<1>3. /\ heap \in Heaps /\ ~heap.bad /\ head \in [Lists -> Cells \cup {NULL}]
      /\ \A l, m \in Lists : l # m => ToSet(CellsOn[l]) \cap ToSet(CellsOn[m]) = {}
      /\ \A c \in Cells : heap.cell[c].live => \E l \in Lists : c \in ToSet(CellsOn[l])
  BY <1>1 DEF Rep
<1>4. TypeOK
  <2>1. walk.on \in Lists \cup {NoList} /\ walk.entry \in Cells \cup {NULL}
    BY <1>1 DEF MemoryInv, NoWalk
  <2>2. info \subseteq Irqs
    <3>1. On("interrupts_db") \subseteq Irqs /\ On("banned_irqs") \subseteq Irqs
      BY <1>1, ListNames
    <3>2. ToSet(Todo) \subseteq Irqs
      <4>1. CASE walk = NoWalk
        <5>1. Todo = <<>>
          BY <1>3, <4>1, IdleFacts
        <5> QED BY <5>1, EmptyList
      <4>2. CASE walk # NoWalk
        BY <1>1, <4>2, WalkFacts
      <4> QED BY <4>1, <4>2
    <3> QED BY <1>1, <3>1, <3>2 DEF InfoInv
  <2>3. pc \in {"build", "rebalance", "migrate", "place", "free_irq_db", "free_db", "free_banned_irqs",
                "free_banned", "exit"}
    BY <1>1 DEF PhaseInv
  <2>4. assigned \in [Irqs -> Objs \cup {NULL}]
    BY <1>1 DEF AssignedInv
  <2> QED BY <1>3, <2>1, <2>2, <2>3, <2>4 DEF TypeOK
<1>5. \A l \in Lists : Linked(heap, head[l])
  BY <1>2, <1>3, LinkedIs
<1>6. {c \in Cells : heap.cell[c].live} = UNION {CellsOf(l) : l \in Lists}
  <2>1. ASSUME NEW c \in Cells, heap.cell[c].live PROVE \E l \in Lists : c \in CellsOf(l)
    BY <1>2, <1>3, <2>1
  <2>2. ASSUME NEW l \in Lists, NEW c \in CellsOf(l) PROVE c \in Cells /\ heap.cell[c].live
    <3> DEFINE s == CellsOn[l]
    <3>1. s \in Seq(Cells) /\ c \in ToSet(s) /\ Path(heap, head[l], s)
      BY <1>2, <2>2 DEF IsList
    <3> HIDE DEF s
    <3>2. PICK k \in 1..Len(s) : c = s[k]
      BY <3>1, SeqFacts
    <3> QED BY <3>1, <3>2, SeqFacts DEF Path
  <2> QED BY <2>1, <2>2
<1> QED BY <1>2, <1>3, <1>4, <1>5, <1>6 DEF WellFormed

(* No list keeps an irq whose irq_info is gone. *)
LEMMA InvNoDangling ==
    ASSUME IInv
    PROVE  NoDangling
<1> DEFINE db == "interrupts_db"
           ban == "banned_irqs"
           reb == "rebalance_irq_list"
<1>1. /\ MemoryInv /\ PhaseInv /\ ListsInv /\ InfoInv /\ heap \in Heaps
      /\ \A l \in Lists : ToSet(Data(heap, head[l])) = On(l)
  BY HeldFacts DEF IInv, On, Held, IrqsFrom
<1>2. /\ db \in Lists /\ ban \in Lists /\ reb \in Lists /\ Objs \subseteq Lists
      /\ \A l \in Lists : l \in Objs \cup {reb} \/ l = db \/ l = ban
  BY ListNames
<1>3. Known = On(db) \cup On(ban)
  BY <1>1, <1>2 DEF Known
<1>t. ToSet(Todo) \subseteq IF pc = "free_db" THEN On(db) ELSE IF pc = "free_banned" THEN On(ban) ELSE ToSet(Todo)
  <2>1. CASE walk = NoWalk \/ Todo = <<>>
    <3>1. Todo = <<>>
      BY <1>1, <2>1, IdleFacts
    <3> QED BY <3>1, EmptyList
  <2>2. CASE walk # NoWalk /\ Todo # <<>>
    <3>1. ToSet(Todo) \subseteq On(walk.on)
      BY <1>1, <2>2, WalkFacts
    <3>2. (pc = "free_db" => walk.on = db) /\ (pc = "free_banned" => walk.on = ban)
      <4> HIDE DEF NoWalk, Todo
      <4> QED BY <1>1, <2>2 DEF PhaseInv
    <3> QED BY <3>1, <3>2
  <2> QED BY <2>1, <2>2
<1>4. info \subseteq Known
  BY <1>1, <1>3, <1>t DEF InfoInv
<1>5. pc = "exit" => \A l \in Lists : On(l) = {}
  <2> SUFFICES ASSUME pc = "exit" PROVE \A l \in Lists : On(l) = {}
    OBVIOUS
  <2>1. Held[db] = <<>> /\ Held[ban] = <<>> /\ Held[reb] = <<>> /\ \A o \in Objs : Held[o] = <<>>
    BY <1>1 DEF ListsInv
  <2>2. \A l \in Lists : Held[l] = <<>>
    BY <1>2, <2>1
  <2> QED BY <2>2, EmptyList DEF On
<1>6. pc = "exit" => info = {}
  BY <1>2, <1>3, <1>4, <1>5
<1>7. ASSUME pc \notin {"free_db", "free_banned_irqs", "free_banned"}, NEW l \in Lists PROVE On(l) \subseteq info
  <2>1. info = On(db) \cup On(ban)
    BY <1>1, <1>7 DEF InfoInv
  <2>2. CASE pc = "exit"
    BY <1>5, <2>2
  <2>3. CASE pc # "exit"
    <3>1. pc \in {"build", "rebalance", "migrate", "place", "free_irq_db"}
      BY <1>1, <1>7, <2>3 DEF PhaseInv
    <3>2. \A m \in Objs \cup {reb} : On(m) \subseteq On(db)
      BY <1>1, <3>1 DEF ListsInv
    <3> QED BY <1>2, <2>1, <3>2
  <2> QED BY <2>2, <2>3
<1> QED BY <1>1, <1>4, <1>6, <1>7 DEF NoDangling

(* Any list could be sorted. *)
LEMMA InvSortExact ==
    ASSUME IInv
    PROVE  SortExact
<1> SUFFICES ASSUME NEW l \in Lists, NEW ord \in SetToSeqs(Irqs)
             PROVE  LET r == g_list_sort(heap, head[l], Before(ord))
                        d == Data(r.heap, r.list)
                    IN  /\ d \in SetToSeqs(ToSet(Data(heap, head[l])))
                        /\ \A j, k \in DOMAIN d : j < k => Before(ord)[<<d[j], d[k]>>]
                        /\ Linked(r.heap, r.list)
  BY DEF SortExact
<1> DEFINE r == g_list_sort(heap, head[l], Before(ord))
           g == r.heap
           p == r.list
           x == CellsOn[l]
<1>1. heap \in Heaps /\ IsList(heap, head[l], x) /\ Held[l] = DataOn(heap, x) /\ Distinct(DataOn(heap, x))
  BY HeldFacts DEF IInv, ListsInv
<1>2. PICK t : SortedList(heap, x, ord, r.heap, r.list, t)
  BY <1>1, SortExactly
<1>3. SortedList(heap, x, ord, g, p, t)
  BY <1>2
<1>4. Data(heap, head[l]) = DataOn(heap, x)
  BY <1>1 DEF Held, IrqsFrom
<1> HIDE DEF r, g, p, x
<1>5. g \in Heaps /\ IsList(g, p, t)
  BY <1>3 DEF SortedList, Changes
<1>6. Data(g, p) = DataOn(g, t) /\ DataOn(g, t) \in Seq(Irqs)
  BY <1>5, DataIs DEF IsList
<1>7. DOMAIN Data(g, p) = 1..Len(DataOn(g, t))
  BY <1>6
<1>8. Linked(g, p)
  BY <1>5, LinkedIs
<1> QED BY <1>3, <1>4, <1>6, <1>7, <1>8 DEF SortedList, r, g, p

(* The lists in memory are lists in every state, and no memory is lost or  *)
(* used after it is freed (classify.c, irqlist.c, glib/glist.c).           *)
THEOREM ListsAreWellFormed == Spec => []WellFormed
BY InductiveInvariant, InvWellFormed, PTL

(* No list keeps an irq whose irq_info free_irq has freed, and no irq_info *)
(* is lost.                                                                *)
THEOREM NothingDangles == Spec => []NoDangling
BY InductiveInvariant, InvNoDangling, PTL

(* g_list_sort sorts whatever list the daemon has, in any order.           *)
THEOREM ListsAreSorted == Spec => []SortExact
BY InductiveInvariant, InvSortExact, PTL

-----------------------------------------------------------------------------
(* The lists in memory implement sequences of irqs. *)

(* The state of the sequences. *)
LEMMA AbstractState ==
    /\ Abstract!Lists = Lists /\ Abstract!Idle = [on |-> NoList, todo |-> <<>>]
    /\ [l \in Lists |-> Data(heap, head[l])] = Held
    /\ Data(heap, walk.entry) = Todo
BY DEF Abstract!Lists, Abstract!Idle, Lists, Objs, Held, IrqsFrom, Todo

(* They are empty at first. *)
LEMMA AbstractInit ==
    ASSUME Init
    PROVE  Abstract!Init
<1>1. Held = [l \in Lists |-> <<>>] /\ Todo = <<>> /\ walk = NoWalk
  BY InitInv
<1>2. walk.on = NoList
  BY <1>1 DEF NoWalk
<1> QED BY <1>1, <1>2, AbstractState DEF Abstract!Init

(* And the state after a step. *)
LEMMA AbstractPrimed ==
    [l \in Lists |-> Data(heap, head[l])]' = Held' /\ Data(heap, walk.entry)' = Todo'
BY DEF Held, IrqsFrom, Todo

(* The irqs to visit without the first one. *)
LEMMA TailOfTodo ==
    ASSUME NEW l, NEW t
    PROVE  [[on |-> l, todo |-> t] EXCEPT !.todo = Tail(t)] = [on |-> l, todo |-> Tail(t)]
<1> DEFINE v == Tail(t)
<1> HIDE DEF v
<1>1. [[on |-> l, todo |-> t] EXCEPT !.todo = v] = [on |-> l, todo |-> v]
  OBVIOUS
<1> QED BY <1>1 DEF v

(* for_each_irq goes on to the next irq. *)
LEMMA AbstractVisit ==
    ASSUME IInv, Visiting
    PROVE  Abstract!Visit
<1> DEFINE ls == [l \in Lists |-> Data(heap, head[l])]
           w  == [on |-> walk.on, todo |-> Data(heap, walk.entry)]
<1>1. /\ Todo # <<>> /\ Irq = Head(Todo) /\ Irq \in On(walk.on) /\ walk.on \in Lists
      /\ Todo' = Tail(Todo) /\ walk'.on = walk.on
  BY VisitFacts DEF IInv, Visiting, Advances
<1>2. Held = [l \in Lists |-> Held[l]] /\ \A l \in Lists : Held[l] \in Seq(Irqs)
  BY HeldFacts DEF IInv
<1>3. "rebalance_irq_list" \in Lists
  BY ListNames
<1>4. ls = Held /\ ls' = Held' /\ w = [on |-> walk.on, todo |-> Todo] /\ w' = [on |-> walk.on, todo |-> Tail(Todo)]
  BY <1>1, AbstractState, AbstractPrimed
<1>5. w.on = walk.on /\ w.todo = Todo
  BY <1>4
<1> HIDE DEF ls, w
<1>6. w' = [w EXCEPT !.todo = Tail(w.todo)]
  BY <1>4, <1>5, TailOfTodo
<1>7. Abstract!Lists = Lists
  BY AbstractState
<1>8. CASE Kept
  <2>1. UNCHANGED ls
    BY <1>4, <1>8 DEF Kept
  <2> QED BY <1>1, <1>5, <1>6, <2>1 DEF Abstract!Visit, ls, w
<1>9. CASE walk.on = "interrupts_db" /\ Gained("rebalance_irq_list", Irq)
  <2>1. Abstract!Joins("rebalance_irq_list", Head(w.todo))
    <3>1. ls' = [ls EXCEPT !["rebalance_irq_list"] = Append(ls["rebalance_irq_list"], Head(w.todo))]
      BY <1>1, <1>4, <1>5, <1>9 DEF Gained, With
    <3> QED BY <3>1 DEF Abstract!Joins, ls
  <2> QED BY <1>1, <1>5, <1>6, <1>9, <2>1 DEF Abstract!Visit, w
<1>10. CASE walk.on # "interrupts_db" /\ \E to \in Lists \ {walk.on} : Moved(walk.on, to, Irq)
  <2>1. PICK to \in Lists \ {walk.on} : Moved(walk.on, to, Irq)
    BY <1>10
  <2>2. PICK k \in 1..Len(Held[walk.on]) :
            /\ Held[walk.on][k] = Irq
            /\ Held' = With(With(Held, walk.on, RemoveAt(Held[walk.on], k)), to, Append(Held[to], Irq))
    BY <2>1 DEF Moved
  <2>3. k \in DOMAIN Held[walk.on]
    BY <1>1, <1>2
  <2>4. Abstract!ToSet(Held[walk.on]) = On(walk.on)
    BY DEF Abstract!ToSet, ToSet, On
  <2>5. Abstract!RemoveAt(Held[walk.on], k) = RemoveAt(Held[walk.on], k)
    BY DEF Abstract!RemoveAt, RemoveAt
  <2>6. Held' = [Held EXCEPT ![walk.on] = Abstract!RemoveAt(@, k), ![to] = Append(@, Irq)]
    BY <1>1, <1>2, <2>1, <2>2, <2>5 DEF With
  <2>7. Abstract!Moves(Irq, walk.on, to)
    BY <1>1, <1>4, <2>2, <2>3, <2>4, <2>6 DEF Abstract!Moves, ls
  <2>8. Abstract!Moves(Head(w.todo), w.on, to) /\ to \in Abstract!Lists \ {w.on} /\ w.on # "interrupts_db"
    BY <1>1, <1>5, <1>7, <1>10, <2>1, <2>7
  <2> QED BY <1>1, <1>5, <1>6, <2>8 DEF Abstract!Visit, w
<1> QED BY <1>8, <1>9, <1>10 DEF Visiting

(* A walk begins.                                                          *)
LEMMA AbstractBegin ==
    ASSUME IInv, NEW l \in Lists, Beginning(l)
    PROVE  Abstract!Begin(l)
<1>1. walk = NoWalk /\ walk'.on = l
  BY DEF Beginning
<1>2. Todo = <<>> /\ walk.on = NoList
  BY <1>1, IdleFacts DEF IInv, MemoryInv, Rep
<1>3. PICK s \in SetToSeqs(On(l)) : Held' = With(Held, l, s) /\ Todo' = s
  BY DEF Beginning
<1>4. s \in Abstract!SetToSeqs(Abstract!ToSet(Held[l]))
  BY <1>3 DEF Abstract!SetToSeqs, SetToSeqs, Abstract!ToSet, ToSet, On, Abstract!Cardinality, Cardinality
<1> QED BY <1>1, <1>2, <1>3, <1>4, AbstractState, AbstractPrimed DEF Abstract!Begin, With

(* Every step is a step of the sequences, or none.                         *)
LEMMA AbstractNext ==
    ASSUME IInv, [Next]_vars
    PROVE  [Abstract!Next]_<<[l \in Lists |-> Data(heap, head[l])],
                             [on |-> walk.on, todo |-> Data(heap, walk.entry)]>>
<1> USE DEF Abstract!Next
<1>i. walk = NoWalk => Todo = <<>> /\ walk.on = NoList
  BY IdleFacts DEF IInv, MemoryInv, Rep
<1>p. walk' = NoWalk => walk'.on = NoList /\ Todo' = <<>>
  <2> SUFFICES ASSUME walk' = NoWalk PROVE walk'.on = NoList /\ Todo' = <<>>
    OBVIOUS
  <2>1. IInv'
    BY NextStep, StutterKeepsInv
  <2>2. Rep(heap', head', CellsOn')
    BY <2>1 DEF IInv, MemoryInv
  <2> QED BY <2>2, NoWalkAt DEF NoWalk
<1>1. CASE UNCHANGED vars
  BY <1>1, StutterKeepsInv, AbstractState, AbstractPrimed
<1>2. CASE Visiting
  BY <1>2, AbstractVisit
<1>3. CASE \E l \in Lists : Beginning(l)
  BY <1>3, AbstractBegin, AbstractState
<1>4. CASE Dropping
  <2>1. PICK S \in SUBSET Lists : Held' = Emptied(Held, S, <<>>)
    BY <1>4 DEF Dropping
  <2>2. Todo = <<>> /\ Todo' = <<>> /\ walk.on = NoList /\ walk'.on = NoList
    BY <1>i, <1>p, <1>4 DEF Dropping
  <2>3. Abstract!Drop
    BY <2>1, <2>2, AbstractState, AbstractPrimed DEF Emptied, Abstract!Drop
  <2> QED BY <2>3
<1>5. CASE walk = NoWalk /\ walk' = NoWalk /\ \E l \in Lists : \E i \in Irqs : Gained(l, i)
  <2>1. PICK l \in Lists, i \in Irqs : Gained(l, i)
    BY <1>5
  <2>2. Todo = <<>> /\ Todo' = <<>> /\ walk.on = NoList /\ walk'.on = NoList
    BY <1>i, <1>p, <1>5
  <2>3. Abstract!Add(l, i)
    BY <2>1, <2>2, AbstractState, AbstractPrimed DEF Gained, With, Abstract!Add, Abstract!Joins
  <2> QED BY <2>3, AbstractState
<1>6. CASE walk # NoWalk /\ Todo = <<>> /\ walk' = NoWalk /\ Held' = Held
  <2>1. walk.on # NoList /\ Todo' = <<>> /\ walk'.on = NoList
    BY <1>p, <1>6, WalkFacts DEF IInv
  <2>2. Abstract!End
    BY <1>6, <2>1, AbstractState, AbstractPrimed DEF Abstract!End
  <2> QED BY <2>2
<1>7. CASE walk = NoWalk /\ walk' = NoWalk /\ Held' = Held
  <2>1. Todo = <<>> /\ Todo' = <<>> /\ walk.on = NoList /\ walk'.on = NoList
    BY <1>i, <1>p, <1>7
  <2> QED BY <1>7, <2>1, AbstractState, AbstractPrimed
<1> HIDE DEF Abstract!Next
<1>8. CASE Next
  BY <1>2, <1>3, <1>4, <1>5, <1>6, <1>7, <1>8, NextStep DEF Effect
<1> QED BY <1>1, <1>8

(* The lists in memory implement sequences of irqs, and for_each_irq       *)
(* visits each irq that was on the list when it began, once and in order,  *)
(* though its callback moves irqs off the list or frees them.              *)
THEOREM HeapImplementsLists == Spec => ImplementsLists
<1>1. Init => Abstract!Init
  BY AbstractInit
<1>2. IInv /\ [Next]_vars => [Abstract!Next]_<<[l \in Lists |-> Data(heap, head[l])],
                                               [on |-> walk.on, todo |-> Data(heap, walk.entry)]>>
  BY AbstractNext
<1> QED BY <1>1, <1>2, InductiveInvariant, PTL DEF Spec, ImplementsLists, Abstract!Spec
=============================================================================
