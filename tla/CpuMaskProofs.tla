--------------------------- MODULE CpuMaskProofs ---------------------------
(***************************************************************************)
(* Theorems about the cpu masks: for every length of a word and every      *)
(* number of cpus the operations of bitmap.c and cpumask.h on words in     *)
(* memory are the operations on sets of cpus.                              *)
(***************************************************************************)
EXTENDS CpuMask, FoldProofs, FiniteSetTheorems

(* The bit of a cpu: which word it is in, and where. *)
LEMMA DivMod ==
    ASSUME NEW W \in Nat \ {0}, NEW c \in Nat
    PROVE  /\ c \div W \in Nat /\ c % W \in 0..W - 1
           /\ c = W * (c \div W) + (c % W)
<1> DEFINE v == W * (c \div W)
<1>1. c \div W \in Nat /\ c % W \in 0..W - 1
  OBVIOUS
<1>2. c % W = c - v
  OBVIOUS
<1>3. v \in Nat
  BY <1>1
<1>4. c = v + (c % W)
  <2> HIDE DEF v
  <2> QED BY <1>2, <1>3
<1> QED BY <1>1, <1>4, Zenon

(* A number has one word and one bit. *)
LEMMA DivModUnique ==
    ASSUME NEW W \in Nat \ {0}, NEW k \in Nat, NEW b \in 0..W - 1
    PROVE  (W * k + b) \div W = k /\ (W * k + b) % W = b
  OBVIOUS

(* Multiples of the length of a word are in the order of the words. *)
LEMMA WordOrder ==
    ASSUME NEW W \in Nat \ {0}, NEW k \in Nat, NEW q \in Nat, k < q
    PROVE  W * k \in Nat /\ W * q \in Nat /\ W * k + W <= W * q
<1>1. PICK e \in Nat : q = k + 1 + e
  <2>1. q - k - 1 \in Nat /\ q = k + 1 + (q - k - 1)
    OBVIOUS
  <2> QED BY <2>1
<1>2. W * q = W * k + W + W * e /\ W * e \in Nat /\ W * k \in Nat
  BY <1>1
<1> QED BY <1>2

(* How many words nbits bits need. *)
LEMMA WordCount ==
    ASSUME NEW n \in Nat \ {0}
    PROVE  /\ n % BITS_PER_LONG = 0 => BITS_TO_LONGS(n) = n \div BITS_PER_LONG
           /\ n % BITS_PER_LONG # 0 => BITS_TO_LONGS(n) = (n \div BITS_PER_LONG) + 1
           /\ BITS_TO_LONGS(n) \in Nat \ {0}
<1> DEFINE W == BITS_PER_LONG
           q == n \div W
           r == n % W
<1>1. W \in Nat \ {0}
  BY WordAssumption
<1> HIDE DEF W
<1>2. q \in Nat /\ r \in 0..W - 1 /\ n = W * q + r
  BY <1>1, DivMod
<1> HIDE DEF q, r
<1>3. CASE r = 0
  <2> DEFINE v == W * q
  <2>0. v \in Nat /\ n = v
    BY <1>1, <1>2, <1>3
  <2>1. n + W - 1 = v + (W - 1) /\ W - 1 \in 0..W - 1
    <3> HIDE DEF v
    <3> QED BY <1>1, <2>0
  <2>2. (n + W - 1) \div W = q
    BY <1>1, <1>2, <2>1, DivModUnique
  <2>3. q # 0
    <3> SUFFICES ASSUME q = 0 PROVE FALSE
      OBVIOUS
    <3>1. W * q = 0
      BY <1>1
    <3> QED BY <2>0, <3>1
  <2> QED BY <1>2, <1>3, <2>2, <2>3 DEF BITS_TO_LONGS, W, q, r
<1>4. CASE r # 0
  <2> DEFINE v == W * q
             u == W * (q + 1)
  <2>0. v \in Nat /\ n = v + r /\ u = v + W
    BY <1>1, <1>2
  <2>1. n + W - 1 = u + (r - 1) /\ r - 1 \in 0..W - 1
    <3> HIDE DEF v, u
    <3> QED BY <1>1, <1>2, <1>4, <2>0
  <2>2. (n + W - 1) \div W = q + 1
    <3>1. q + 1 \in Nat
      BY <1>2
    <3> QED BY <1>1, <2>1, <3>1, DivModUnique
  <2> QED BY <1>2, <1>4, <2>2 DEF BITS_TO_LONGS, W, q, r
<1> QED BY <1>3, <1>4

(* A cpu is one of nbits exactly when its bit is a valid one. *)
LEMMA Position ==
    ASSUME NEW n \in Nat \ {0}, NEW c \in Nat
    PROVE  c \in 0..n - 1 <=> /\ BITOP_WORD(c) \in Words(n)
                              /\ BITOP_BIT(c) \in Valid(n, BITOP_WORD(c))
<1> DEFINE W == BITS_PER_LONG
           q == n \div W
           r == n % W
           k == c \div W
           b == c % W
           L == BITS_TO_LONGS(n)
<1>1. W \in Nat \ {0}
  BY WordAssumption
<1>2. q \in Nat /\ r \in 0..W - 1 /\ n = W * q + r
  <2> HIDE DEF W
  <2> QED BY <1>1, DivMod
<1>3. k \in Nat /\ b \in 0..W - 1 /\ c = W * k + b
  <2> HIDE DEF W
  <2> QED BY <1>1, DivMod
<1>4. /\ r = 0 => L = q
      /\ r # 0 => L = q + 1
      /\ L \in Nat \ {0}
  BY WordCount
<1>5. BITOP_WORD(c) = k /\ BITOP_BIT(c) = b /\ Words(n) = 0..L - 1 /\ AllOnes = 0..W - 1
  BY DEF BITOP_WORD, BITOP_BIT, Words, AllOnes
<1>6. Valid(n, k) = IF k = L - 1 /\ r # 0 THEN 0..r - 1 ELSE 0..W - 1
  BY DEF Valid, BITMAP_LAST_WORD_MASK, LowBits, AllOnes
<1> HIDE DEF q, r, k, b, L, W
<1> SUFFICES c < n <=> k < L /\ b \in Valid(n, k)
  BY <1>3, <1>4, <1>5
<1> DEFINE u == W * k
           v == W * q
<1>7. u \in Nat /\ v \in Nat /\ c = u + b /\ n = v + r
  BY <1>1, <1>2, <1>3
<1>8. CASE k < q
  <2>1. u + W <= v
    BY <1>1, <1>2, <1>3, <1>8, WordOrder
  <2>2. c < n
    <3> HIDE DEF u, v
    <3> QED BY <1>1, <1>2, <1>3, <1>7, <2>1
  <2>3. k < L
    BY <1>2, <1>3, <1>4, <1>8
  <2>4. ~(k = L - 1 /\ r # 0)
    BY <1>2, <1>3, <1>4, <1>8
  <2>5. b \in Valid(n, k)
    BY <1>3, <1>6, <2>4
  <2> QED BY <2>2, <2>3, <2>5
<1>9. CASE k = q
  <2>1. c < n <=> b < r
    <3>1. u = v
      BY <1>9
    <3> HIDE DEF u, v
    <3> QED BY <1>1, <1>2, <1>3, <1>7, <3>1
  <2>2. CASE r = 0
    BY <1>2, <1>3, <1>4, <1>9, <2>1, <2>2
  <2>3. CASE r # 0
    <3>1. k < L /\ k = L - 1
      BY <1>2, <1>4, <1>9, <2>3
    <3>2. b \in Valid(n, k) <=> b < r
      BY <1>1, <1>2, <1>3, <1>6, <2>3, <3>1, SMTT(30)
    <3> QED BY <2>1, <3>1, <3>2
  <2> QED BY <2>2, <2>3
<1>10. CASE q < k
  <2>1. v + W <= u
    BY <1>1, <1>2, <1>3, <1>10, WordOrder
  <2>2. ~(c < n)
    <3> HIDE DEF u, v
    <3> QED BY <1>1, <1>2, <1>3, <1>7, <2>1
  <2>3. ~(k < L)
    BY <1>2, <1>3, <1>4, <1>10
  <2> QED BY <2>2, <2>3
<1> QED BY <1>2, <1>3, <1>8, <1>9, <1>10

(* Every valid bit is the bit of one cpu. *)
LEMMA CpuOfBit ==
    ASSUME NEW n \in Nat \ {0}, NEW k \in Words(n), NEW b \in Valid(n, k)
    PROVE  \E c \in 0..n - 1 : BITOP_WORD(c) = k /\ BITOP_BIT(c) = b
<1> DEFINE W == BITS_PER_LONG
           c == W * k + b
<1>1. W \in Nat \ {0} /\ n % W \in 0..W - 1
  BY WordAssumption
<1>2. k \in Nat
  BY WordCount DEF Words
<1>3. b \in 0..W - 1
  BY <1>1 DEF Valid, BITMAP_LAST_WORD_MASK, LowBits, AllOnes
<1>4. c \in Nat
  BY <1>1, <1>2, <1>3
<1>5. BITOP_WORD(c) = k /\ BITOP_BIT(c) = b
  BY <1>1, <1>2, <1>3, DivModUnique DEF BITOP_WORD, BITOP_BIT
<1> HIDE DEF c
<1>6. c \in 0..n - 1
  BY <1>4, <1>5, Position
<1> QED BY <1>5, <1>6

(* Two cpus have two bits. *)
LEMMA OneBitEach ==
    ASSUME NEW c \in Nat, NEW x \in Nat, BITOP_WORD(c) = BITOP_WORD(x), BITOP_BIT(c) = BITOP_BIT(x)
    PROVE  c = x
<1>1. c = BITS_PER_LONG * (c \div BITS_PER_LONG) + (c % BITS_PER_LONG)
  BY WordAssumption, DivMod
<1>2. x = BITS_PER_LONG * (x \div BITS_PER_LONG) + (x % BITS_PER_LONG)
  BY WordAssumption, DivMod
<1> QED BY <1>1, <1>2, Zenon DEF BITOP_WORD, BITOP_BIT

-----------------------------------------------------------------------------
(* The bits of the cpus. *)
LEMMA CpuBits ==
    ASSUME NEW n \in Nat \ {0}, NEW c \in 0..n - 1
    PROVE  /\ BITOP_WORD(c) \in Words(n)
           /\ BITOP_BIT(c) \in Valid(n, BITOP_WORD(c))
           /\ BITOP_BIT(c) \in AllOnes
<1>1. c \in Nat
  OBVIOUS
<1>2. BITOP_WORD(c) \in Words(n) /\ BITOP_BIT(c) \in Valid(n, BITOP_WORD(c))
  BY <1>1, Position
<1>3. BITOP_BIT(c) \in AllOnes
  BY <1>1, WordAssumption, DivMod DEF BITOP_BIT, AllOnes
<1> QED BY <1>2, <1>3

(* A cpu is in a mask when its bit is set in its word. *)
LEMMA BitsIn ==
    ASSUME NEW map, NEW n
    PROVE  \A c : c \in Bits(map, n) <=> c \in 0..n - 1 /\ BITOP_BIT(c) \in map[BITOP_WORD(c)]
  BY DEF Bits, test_bit

(* A bitmap: as many words as its bits need. *)
Bitmaps(n) == [Words(n) -> SUBSET AllOnes]

(* Valid bits are bits of a word. *)
LEMMA ValidBits ==
    ASSUME NEW n \in Nat \ {0}, NEW k PROVE Valid(n, k) \subseteq AllOnes
<1>1. n % BITS_PER_LONG \in 0..BITS_PER_LONG - 1 /\ BITS_PER_LONG \in Nat
  BY WordAssumption
<1>2. LowBits(n % BITS_PER_LONG) \subseteq AllOnes
  BY <1>1 DEF LowBits, AllOnes
<1> QED BY <1>2 DEF Valid, BITMAP_LAST_WORD_MASK

(* The word by word operations are the set operations. *)
LEMMA WordOps ==
    ASSUME NEW n \in Nat \ {0}, NEW a \in Bitmaps(n), NEW b \in Bitmaps(n)
    PROVE  /\ Bits(bitmap_and(a, b), n) = Bits(a, n) \cap Bits(b, n)
           /\ Bits(bitmap_or(a, b), n) = Bits(a, n) \cup Bits(b, n)
           /\ Bits(bitmap_xor(a, b), n) = SymDiff(Bits(a, n), Bits(b, n))
           /\ Bits(bitmap_andnot(a, b), n) = Bits(a, n) \ Bits(b, n)
<1>1. \A c \in 0..n - 1 : BITOP_WORD(c) \in DOMAIN a /\ BITOP_BIT(c) \in AllOnes
  BY CpuBits DEF Bitmaps
<1>2. \A c \in 0..n - 1 : test_bit(c, bitmap_and(a, b)) <=> test_bit(c, a) /\ test_bit(c, b)
  BY <1>1 DEF bitmap_and, test_bit
<1>3. \A c \in 0..n - 1 : test_bit(c, bitmap_or(a, b)) <=> test_bit(c, a) \/ test_bit(c, b)
  BY <1>1 DEF bitmap_or, test_bit
<1>4. \A c \in 0..n - 1 : test_bit(c, bitmap_xor(a, b)) <=> ~(test_bit(c, a) <=> test_bit(c, b))
  BY <1>1 DEF bitmap_xor, test_bit, SymDiff
<1>5. \A c \in 0..n - 1 : test_bit(c, bitmap_andnot(a, b)) <=> test_bit(c, a) /\ ~test_bit(c, b)
  BY <1>1 DEF bitmap_andnot, test_bit
<1>6. Bits(bitmap_and(a, b), n) = Bits(a, n) \cap Bits(b, n)
  BY <1>2 DEF Bits
<1>7. Bits(bitmap_or(a, b), n) = Bits(a, n) \cup Bits(b, n)
  BY <1>3 DEF Bits
<1>8. Bits(bitmap_xor(a, b), n) = SymDiff(Bits(a, n), Bits(b, n))
  BY <1>4 DEF Bits, SymDiff
<1>9. Bits(bitmap_andnot(a, b), n) = Bits(a, n) \ Bits(b, n)
  BY <1>5 DEF Bits
<1> QED BY <1>6, <1>7, <1>8, <1>9

(* bitmap_complement, bitmap_zero and bitmap_fill. *)
LEMMA FillOps ==
    ASSUME NEW n \in Nat \ {0}, NEW a \in Bitmaps(n)
    PROVE  /\ Bits(bitmap_complement(a, n), n) = (0..n - 1) \ Bits(a, n)
           /\ Bits(bitmap_zero(n), n) = {}
           /\ Bits(bitmap_fill(n), n) = 0..n - 1
<1>1. \A c \in 0..n - 1 : /\ BITOP_WORD(c) \in DOMAIN a /\ BITOP_WORD(c) \in Words(n)
                          /\ BITOP_BIT(c) \in AllOnes /\ BITOP_BIT(c) \in Valid(n, BITOP_WORD(c))
  BY CpuBits DEF Bitmaps
<1>2. \A c \in 0..n - 1 : test_bit(c, bitmap_complement(a, n)) <=> ~test_bit(c, a)
  BY <1>1 DEF bitmap_complement, test_bit
<1>3. \A c \in 0..n - 1 : ~test_bit(c, bitmap_zero(n)) /\ test_bit(c, bitmap_fill(n))
  BY <1>1 DEF bitmap_zero, bitmap_fill, test_bit
<1>4. Bits(bitmap_complement(a, n), n) = (0..n - 1) \ Bits(a, n)
  BY <1>2 DEF Bits
<1>5. Bits(bitmap_zero(n), n) = {} /\ Bits(bitmap_fill(n), n) = 0..n - 1
  BY <1>3 DEF Bits
<1> QED BY <1>4, <1>5

(* set_bit and clear_bit touch one cpu. *)
LEMMA SingleOps ==
    ASSUME NEW n \in Nat \ {0}, NEW a \in Bitmaps(n), NEW c \in 0..n - 1
    PROVE  /\ Bits(set_bit(c, a), n) = Bits(a, n) \cup {c}
           /\ Bits(clear_bit(c, a), n) = Bits(a, n) \ {c}
<1>1. \A x \in 0..n - 1 : x \in Nat /\ BITOP_WORD(x) \in DOMAIN a
  BY CpuBits DEF Bitmaps
<1>2. \A x \in 0..n - 1 : BITOP_WORD(c) = BITOP_WORD(x) /\ BITOP_BIT(c) = BITOP_BIT(x) => c = x
  BY <1>1, OneBitEach
<1>3. \A x \in 0..n - 1 : test_bit(x, set_bit(c, a)) <=> test_bit(x, a) \/ x = c
  BY <1>1, <1>2 DEF set_bit, test_bit
<1>4. \A x \in 0..n - 1 : test_bit(x, clear_bit(c, a)) <=> test_bit(x, a) /\ x # c
  BY <1>1, <1>2 DEF clear_bit, test_bit
<1>5. Bits(set_bit(c, a), n) = Bits(a, n) \cup {c}
  BY <1>3 DEF Bits
<1>6. Bits(clear_bit(c, a), n) = Bits(a, n) \ {c}
  BY <1>4 DEF Bits
<1> QED BY <1>5, <1>6

(* What the predicates decide. *)
LEMMA Predicates ==
    ASSUME NEW n \in Nat \ {0}, NEW a \in Bitmaps(n), NEW b \in Bitmaps(n)
    PROVE  /\ bitmap_equal(a, b, n) <=> Bits(a, n) = Bits(b, n)
           /\ bitmap_intersects(a, b, n) <=> Bits(a, n) \cap Bits(b, n) # {}
           /\ bitmap_empty(a, n) <=> Bits(a, n) = {}
           /\ bitmap_full(a, n) <=> Bits(a, n) = 0..n - 1
<1> DEFINE C == 0..n - 1
<1>1. \A c \in C : BITOP_WORD(c) \in Words(n) /\ BITOP_BIT(c) \in Valid(n, BITOP_WORD(c))
  BY CpuBits
<1>2. \A k \in Words(n) : \A x \in Valid(n, k) :
          \E c \in C : BITOP_WORD(c) = k /\ BITOP_BIT(c) = x
  BY CpuOfBit
<1> HIDE DEF C
<1>3. bitmap_equal(a, b, n) <=> \A c \in C : test_bit(c, a) <=> test_bit(c, b)
  <2>1. bitmap_equal(a, b, n) <=>
           \A k \in Words(n) : \A x \in Valid(n, k) : x \in a[k] <=> x \in b[k]
    BY DEF bitmap_equal, SymDiff
  <2> QED BY <1>1, <1>2, <2>1 DEF test_bit
<1>4. bitmap_intersects(a, b, n) <=> \E c \in C : test_bit(c, a) /\ test_bit(c, b)
  <2>1. bitmap_intersects(a, b, n) <=>
           \E k \in Words(n) : \E x \in Valid(n, k) : x \in a[k] /\ x \in b[k]
    BY DEF bitmap_intersects
  <2> QED BY <1>1, <1>2, <2>1 DEF test_bit
<1>5. bitmap_empty(a, n) <=> \A c \in C : ~test_bit(c, a)
  <2>1. bitmap_empty(a, n) <=> \A k \in Words(n) : \A x \in Valid(n, k) : x \notin a[k]
    BY DEF bitmap_empty
  <2> QED BY <1>1, <1>2, <2>1 DEF test_bit
<1>6. bitmap_full(a, n) <=> \A c \in C : test_bit(c, a)
  <2>1. bitmap_full(a, n) <=> \A k \in Words(n) : \A x \in Valid(n, k) : x \in a[k]
    BY DEF bitmap_full
  <2> QED BY <1>1, <1>2, <2>1 DEF test_bit
<1>7. Bits(a, n) = {c \in C : test_bit(c, a)} /\ Bits(b, n) = {c \in C : test_bit(c, b)}
  BY DEF Bits, C
<1>8. bitmap_equal(a, b, n) <=> Bits(a, n) = Bits(b, n)
  BY <1>3, <1>7
<1>9. bitmap_intersects(a, b, n) <=> Bits(a, n) \cap Bits(b, n) # {}
  BY <1>4, <1>7
<1>10. bitmap_empty(a, n) <=> Bits(a, n) = {}
  BY <1>5, <1>7
<1>11. bitmap_full(a, n) <=> Bits(a, n) = C
  BY <1>6, <1>7
<1> QED BY <1>8, <1>9, <1>10, <1>11 DEF C

(* A bitmap of one word. *)
LEMMA OneWord ==
    ASSUME NEW n \in Nat \ {0}
    PROVE  n <= BITS_PER_LONG <=> BITS_TO_LONGS(n) = 1
<1> DEFINE W == BITS_PER_LONG
           q == n \div W
           r == n % W
           v == W * q
<1>1. W \in Nat \ {0}
  BY WordAssumption
<1> HIDE DEF W
<1>2. q \in Nat /\ r \in 0..W - 1 /\ n = v + r
  BY <1>1, DivMod
<1>3. /\ r = 0 => BITS_TO_LONGS(n) = q
      /\ r # 0 => BITS_TO_LONGS(n) = q + 1
  BY WordCount DEF W
<1> HIDE DEF q, r
<1>4. /\ q = 0 => v = 0
      /\ q = 1 => v = W
      /\ v \in Nat
  BY <1>1, <1>2
<1>5. q > 1 => v >= W + W
  <2> SUFFICES ASSUME q > 1 PROVE v >= W + W
    OBVIOUS
  <2>1. W * 1 + W <= W * q
    BY <1>1, <1>2, WordOrder
  <2> QED BY <1>1, <2>1
<1> HIDE DEF v
<1>6. n <= W <=> (q = 0 /\ r # 0) \/ (q = 1 /\ r = 0)
  BY <1>1, <1>2, <1>4, <1>5
<1> QED BY <1>2, <1>3, <1>6 DEF W

(* bitmap_subset looks at the first word, which is all there is. *)
LEMMA SubsetDecided ==
    ASSUME NEW n \in Nat \ {0}, NEW a \in Bitmaps(n), NEW b \in Bitmaps(n), n <= BITS_PER_LONG
    PROVE  bitmap_subset(a, b, n) <=> Bits(a, n) \subseteq Bits(b, n)
<1> DEFINE C == 0..n - 1
<1>1. Words(n) = {0}
  BY OneWord DEF Words
<1>2. \A c \in C : BITOP_WORD(c) = 0 /\ BITOP_BIT(c) \in Valid(n, 0)
  BY <1>1, CpuBits
<1>3. \A x \in Valid(n, 0) : \E c \in C : BITOP_WORD(c) = 0 /\ BITOP_BIT(c) = x
  BY <1>1, CpuOfBit
<1>4. Valid(n, 0) \subseteq AllOnes
  BY ValidBits
<1> HIDE DEF C
<1>5. bitmap_subset(a, b, n) <=> \A x \in Valid(n, 0) : x \in a[0] => x \in b[0]
  BY <1>4 DEF bitmap_subset
<1>6. bitmap_subset(a, b, n) <=> \A c \in C : test_bit(c, a) => test_bit(c, b)
  BY <1>2, <1>3, <1>5 DEF test_bit
<1>7. Bits(a, n) = {c \in C : test_bit(c, a)} /\ Bits(b, n) = {c \in C : test_bit(c, b)}
  BY DEF Bits, C
<1> QED BY <1>6, <1>7

-----------------------------------------------------------------------------
(* The cpus of a mask that have their bits in the words t. *)
InWords(a, n, t) == {c \in Bits(a, n) : BITOP_WORD(c) \in t}

(* The bits of one word are as many as its cpus. *)
LEMMA OneWordWeighs ==
    ASSUME NEW n \in Nat \ {0}, NEW a \in Bitmaps(n), NEW k \in Words(n)
    PROVE  /\ IsFiniteSet(InWords(a, n, {k}))
           /\ Cardinality(InWords(a, n, {k})) = hweight_long(a[k] \cap Valid(n, k))
<1> DEFINE S == InWords(a, n, {k})
           T == a[k] \cap Valid(n, k)
           f == [c \in S |-> BITOP_BIT(c)]
<1>1. \A c \in S : /\ c \in 0..n - 1 /\ c \in Nat
                   /\ BITOP_WORD(c) = k /\ BITOP_BIT(c) \in a[k] /\ BITOP_BIT(c) \in Valid(n, k)
  <2>1. \A c \in S : c \in 0..n - 1 /\ BITOP_WORD(c) = k /\ BITOP_BIT(c) \in a[k]
    BY BitsIn DEF InWords
  <2>2. \A c \in S : BITOP_BIT(c) \in Valid(n, k)
    BY <2>1, CpuBits
  <2> QED BY <2>1, <2>2
<1>2. \A x \in T : \E c \in S : f[c] = x
  <2> SUFFICES ASSUME NEW x \in T PROVE \E c \in S : f[c] = x
    OBVIOUS
  <2>1. PICK c \in 0..n - 1 : BITOP_WORD(c) = k /\ BITOP_BIT(c) = x
    BY CpuOfBit
  <2>2. c \in S
    BY <2>1, BitsIn DEF InWords
  <2> QED BY <2>1, <2>2
<1>3. \A c, x \in S : f[c] = f[x] => c = x
  BY <1>1, OneBitEach
<1>4. f \in [S -> T]
  BY <1>1
<1>5. IsFiniteSet(S)
  <2>1. IsFiniteSet(0..n - 1)
    BY FS_Interval
  <2>2. S \in SUBSET (0..n - 1)
    BY <1>1
  <2> HIDE DEF S
  <2> QED BY <2>1, <2>2, FS_Subset
<1> HIDE DEF S, T, f
<1>6. f \in Bijection(S, T)
  BY <1>2, <1>3, <1>4 DEF Bijection, Injection, Surjection, IsInjective
<1>7. ExistsBijection(S, T)
  BY <1>6 DEF ExistsBijection
<1>8. Cardinality(T) = Cardinality(S)
  BY <1>5, <1>7, FS_Bijection
<1> QED BY <1>5, <1>8 DEF S, T, hweight_long

(* One word more: its cpus are none of those before. *)
LEMMA InWordsSum ==
    ASSUME NEW n \in Nat \ {0}, NEW a \in Bitmaps(n), NEW t \in SUBSET Words(n), NEW k \in t
    PROVE  /\ Cardinality(InWords(a, n, t)) \in Nat
           /\ Cardinality(InWords(a, n, t)) =
                 hweight_long(a[k] \cap Valid(n, k)) + Cardinality(InWords(a, n, t \ {k}))
<1> DEFINE S == InWords(a, n, t)
           U == InWords(a, n, {k})
           V == InWords(a, n, t \ {k})
<1>1. S = U \cup V /\ U \cap V = {}
  BY DEF InWords
<1>2. IsFiniteSet(U) /\ Cardinality(U) = hweight_long(a[k] \cap Valid(n, k))
  BY OneWordWeighs
<1>3. IsFiniteSet(V)
  <2>1. IsFiniteSet(0..n - 1)
    BY FS_Interval
  <2>2. V \in SUBSET (0..n - 1)
    BY DEF InWords, Bits
  <2> HIDE DEF V
  <2> QED BY <2>1, <2>2, FS_Subset
<1> HIDE DEF S, U, V
<1>4. Cardinality(S) = Cardinality(U) + Cardinality(V) - Cardinality(U \cap V)
  BY <1>1, <1>2, <1>3, FS_Union
<1>5. Cardinality(U \cap V) = 0 /\ Cardinality(U) \in Nat /\ Cardinality(V) \in Nat
  BY <1>1, <1>2, <1>3, FS_EmptySet, FS_CardinalityType
<1>6. Cardinality(S) = Cardinality(U) + Cardinality(V) /\ Cardinality(S) \in Nat
  BY <1>4, <1>5
<1> QED BY <1>2, <1>6 DEF S, U, V

(* bitmap_weight adds up the words in any order; the sum is the number of  *)
(* cpus.                                                                   *)
LEMMA WeightCounts ==
    ASSUME NEW n \in Nat \ {0}, NEW a \in Bitmaps(n)
    PROVE  bitmap_weight(a, n) = Cardinality(Bits(a, n))
<1> DEFINE S == Words(n)
           h(k) == hweight_long(a[k] \cap Valid(n, k))
           one(t) == CHOOSE x \in t : TRUE
           Is(g) == g = [t \in SUBSET S |-> IF t = {} THEN 0 ELSE h(one(t)) + g[t \ {one(t)}]]
           iter == CHOOSE g : Is(g)
           count == [t \in SUBSET S |-> Cardinality(InWords(a, n, t))]
<1>1. bitmap_weight(a, n) = iter[S]
  BY DEF bitmap_weight, MapThenSumSet, MapThenFoldSet
<1>2. \A t \in SUBSET S : t # {} => one(t) \in t
  OBVIOUS
<1>3. InWords(a, n, {}) = {} /\ InWords(a, n, S) = Bits(a, n)
  <2>1. \A c \in Bits(a, n) : BITOP_WORD(c) \in S
    BY CpuBits, BitsIn
  <2> QED BY <2>1 DEF InWords
<1>4. count[{}] = 0
  BY <1>3, FS_EmptySet
<1>5. \A t \in SUBSET S : t # {} => count[t] = h(one(t)) + count[t \ {one(t)}]
  <2> SUFFICES ASSUME NEW t \in SUBSET S, t # {} PROVE count[t] = h(one(t)) + count[t \ {one(t)}]
    OBVIOUS
  <2>1. one(t) \in t
    BY <1>2
  <2> HIDE DEF one
  <2>2. Cardinality(InWords(a, n, t)) = h(one(t)) + Cardinality(InWords(a, n, t \ {one(t)}))
    BY <2>1, InWordsSum
  <2> QED BY <2>2
<1> HIDE DEF one, h
<1>6. Is(count)
  <2> DEFINE other == [t \in SUBSET S |-> IF t = {} THEN 0 ELSE h(one(t)) + count[t \ {one(t)}]]
  <2>1. \A t \in SUBSET S : count[t] = other[t]
    <3> HIDE DEF count
    <3> QED BY <1>4, <1>5
  <2>2. count = other
    BY <2>1
  <2> QED BY <2>2
<1>7. Is(iter)
  <2> HIDE DEF count, Is
  <2> QED BY <1>6
<1>8. /\ iter[{}] = 0
      /\ \A t \in SUBSET S : t # {} => iter[t] = h(one(t)) + iter[t \ {one(t)}]
  <2> DEFINE i == iter
  <2>1. Is(i)
    BY <1>7
  <2> HIDE DEF i
  <2>2. /\ i[{}] = 0
        /\ \A t \in SUBSET S : t # {} => i[t] = h(one(t)) + i[t \ {one(t)}]
    BY <2>1
  <2> QED BY <2>2 DEF i
<1>9. IsFiniteSet(S) /\ \A t \in SUBSET S : IsFiniteSet(t) /\ Cardinality(t) \in Nat
  <2>1. IsFiniteSet(S)
    <3>1. BITS_TO_LONGS(n) - 1 \in Int
      BY WordCount
    <3> QED BY <3>1, FS_Interval DEF Words
  <2> QED BY <2>1, FS_Subset, FS_CardinalityType
<1> HIDE DEF iter, count, S
<1> DEFINE N == Cardinality(S)
           Q == {m \in 0..N : \A t \in SUBSET S : Cardinality(t) = m => iter[t] = count[t]}
<1>10. N \in Nat
  BY <1>9
<1>11. 0 \in Q
  <2>1. \A t \in SUBSET S : Cardinality(t) = 0 => t = {}
    BY <1>9, FS_EmptySet
  <2>2. \A t \in SUBSET S : Cardinality(t) = 0 => iter[t] = count[t]
    BY <2>1, <1>4, <1>8
  <2>3. 0 \in 0..N
    BY <1>10
  <2> QED BY <2>2, <2>3
<1>12. ASSUME NEW m \in 1..N, m - 1 \in Q PROVE m \in Q
  <2>1. ASSUME NEW t \in SUBSET S, Cardinality(t) = m PROVE iter[t] = count[t]
    <3>1. t # {}
      BY <2>1, FS_EmptySet
    <3>2. one(t) \in t
      BY <1>2, <3>1 DEF S
    <3>3. Cardinality(t \ {one(t)}) = m - 1
      BY <1>9, <2>1, <3>2, FS_RemoveElement
    <3>4. t \ {one(t)} \in SUBSET S
      OBVIOUS
    <3>5. iter[t \ {one(t)}] = count[t \ {one(t)}]
      BY <1>12, <3>3, <3>4
    <3>6. iter[t] = h(one(t)) + iter[t \ {one(t)}]
      BY <1>8, <3>1
    <3>7. count[t] = h(one(t)) + count[t \ {one(t)}]
      BY <1>5, <3>1 DEF S
    <3> QED BY <3>5, <3>6, <3>7
  <2>2. m \in 0..N
    BY <1>10
  <2> QED BY <2>1, <2>2
<1>13. N \in Q
  <2>1. \A m \in 1..N : m - 1 \in Q => m \in Q
    BY <1>12
  <2>2. N \in 0..N
    BY <1>10
  <2> HIDE DEF N, Q
  <2> QED BY <1>10, <1>11, <2>1, <2>2, UpTo
<1>14. iter[S] = count[S]
  BY <1>13
<1>15. count[S] = Cardinality(InWords(a, n, S))
  BY DEF count, S
<1> QED BY <1>1, <1>3, <1>14, <1>15 DEF S

-----------------------------------------------------------------------------
(* The memory of the masks. *)
Memories(n) == [Masks -> Bitmaps(n)]

(* TypeOK in terms of memories. *)
LEMMA TypesHold == TypeOK <=> nbits \in Sizes /\ mem \in Memories(nbits)
  BY DEF TypeOK, Memories, Bitmaps

(* What TypeOK says of the size and the memory. *)
LEMMA SizeLemma == ASSUME TypeOK PROVE nbits \in Nat \ {0} /\ mem \in Memories(nbits)
  BY TypesHold, SizesAssumption

(* cpumask_of_cpu is the mask of one cpu. *)
LEMMA OfCpuExact ==
    ASSUME nbits \in Nat \ {0}, NEW c \in AllCpus
    PROVE  /\ cpumask_of_cpu(c) \in Bitmaps(nbits)
           /\ Bits(cpumask_of_cpu(c), nbits) = {c}
           /\ \A k \in Words(nbits) : cpumask_of_cpu(c)[k] \subseteq Valid(nbits, k)
<1> DEFINE n == nbits
           z == bitmap_zero(n)
<1>1. /\ c \in 0..n - 1 /\ c \in Nat
      /\ BITOP_WORD(c) \in Words(n) /\ BITOP_BIT(c) \in AllOnes
      /\ BITOP_BIT(c) \in Valid(n, BITOP_WORD(c))
  BY CpuBits DEF AllCpus
<1>2. z \in Bitmaps(n) /\ Bits(z, n) = {}
  <2>1. z \in Bitmaps(n)
    BY DEF bitmap_zero, Bitmaps
  <2>2. Bits(z, n) = {}
    BY <2>1, FillOps
  <2> QED BY <2>1, <2>2
<1>3. CASE BITS_TO_LONGS(n) = 1
  <2>1. n <= BITS_PER_LONG /\ BITS_PER_LONG \in Nat \ {0}
    BY <1>3, OneWord, WordAssumption
  <2>2. Words(n) = {0}
    BY <1>3 DEF Words
  <2>3. \A x \in 0..n - 1 : BITOP_WORD(x) = 0 /\ BITOP_BIT(x) = x
    <3> SUFFICES ASSUME NEW x \in 0..n - 1 PROVE BITOP_WORD(x) = 0 /\ BITOP_BIT(x) = x
      OBVIOUS
    <3>1. x \in Nat
      OBVIOUS
    <3>2. BITOP_WORD(x) = 0
      BY <2>2, CpuBits
    <3>3. x = BITS_PER_LONG * BITOP_WORD(x) + BITOP_BIT(x) /\ BITOP_BIT(x) \in Int
      BY <2>1, <3>1, DivMod DEF BITOP_WORD, BITOP_BIT
    <3>4. BITS_PER_LONG * 0 = 0
      BY <2>1
    <3> QED BY <3>2, <3>3, <3>4
  <2>4. cpumask_of_cpu(c) = [k \in {0} |-> {c}]
    BY <1>3 DEF cpumask_of_cpu
  <2>5. cpumask_of_cpu(c) \in Bitmaps(n)
    BY <1>1, <2>2, <2>3, <2>4 DEF Bitmaps
  <2>6. \A x \in 0..n - 1 : test_bit(x, cpumask_of_cpu(c)) <=> x = c
    BY <1>1, <2>3, <2>4 DEF test_bit
  <2>7. Bits(cpumask_of_cpu(c), n) = {c}
    BY <1>1, <2>6 DEF Bits
  <2>8. \A k \in Words(n) : cpumask_of_cpu(c)[k] \subseteq Valid(n, k)
    BY <1>1, <2>2, <2>3, <2>4
  <2> QED BY <2>5, <2>7, <2>8
<1>4. CASE BITS_TO_LONGS(n) # 1
  <2>1. cpumask_of_cpu(c) = set_bit(c, z)
    BY <1>4 DEF cpumask_of_cpu
  <2>2. set_bit(c, z) \in Bitmaps(n)
    BY <1>1, <1>2 DEF set_bit, Bitmaps
  <2>3. Bits(set_bit(c, z), n) = {c}
    <3>1. Bits(set_bit(c, z), n) = Bits(z, n) \cup {c}
      BY <1>1, <1>2, SingleOps
    <3> QED BY <1>2, <3>1
  <2>4. \A k \in Words(n) : set_bit(c, z)[k] \subseteq Valid(n, k)
    BY <1>1 DEF set_bit, bitmap_zero
  <2> QED BY <2>1, <2>2, <2>3, <2>4
<1> QED BY <1>3, <1>4

(* The operations, on any memory. *)
LEMMA OpsLemma == ASSUME TypeOK PROVE OpsExact
<1>1. nbits \in Nat \ {0} /\ \A a \in Masks : mem[a] \in Bitmaps(nbits)
  BY SizeLemma DEF Memories
<1>2. \A a, b \in Masks :
         /\ Bits(bitmap_and(mem[a], mem[b]), nbits) = Set(a) \cap Set(b)
         /\ Bits(bitmap_or(mem[a], mem[b]), nbits) = Set(a) \cup Set(b)
         /\ Bits(bitmap_xor(mem[a], mem[b]), nbits) = SymDiff(Set(a), Set(b))
         /\ Bits(bitmap_andnot(mem[a], mem[b]), nbits) = Set(a) \ Set(b)
  BY <1>1, WordOps DEF Set
<1>3. \A a \in Masks : Bits(bitmap_complement(mem[a], nbits), nbits) = AllCpus \ Set(a)
  BY <1>1, FillOps DEF Set, AllCpus
<1>4. \A a \in Masks : \A c \in AllCpus : /\ Bits(set_bit(c, mem[a]), nbits) = Set(a) \cup {c}
                                          /\ Bits(clear_bit(c, mem[a]), nbits) = Set(a) \ {c}
  BY <1>1, SingleOps DEF Set, AllCpus
<1>5. \A c \in AllCpus : Bits(cpumask_of_cpu(c), nbits) = {c}
  BY <1>1, OfCpuExact
<1>6. Bits(bitmap_zero(nbits), nbits) = {} /\ Bits(bitmap_fill(nbits), nbits) = AllCpus
  <2>1. bitmap_zero(nbits) \in Bitmaps(nbits)
    BY DEF bitmap_zero, Bitmaps
  <2> QED BY <1>1, <2>1, FillOps DEF AllCpus
<1> QED BY <1>2, <1>3, <1>4, <1>5, <1>6, Zenon DEF OpsExact

(* The predicates, on any memory. *)
LEMMA PredicatesLemma == ASSUME TypeOK PROVE PredicatesExact
<1>1. nbits \in Nat \ {0} /\ \A a \in Masks : mem[a] \in Bitmaps(nbits)
  BY SizeLemma DEF Memories
<1>2. \A a, b \in Masks :
         /\ bitmap_equal(mem[a], mem[b], nbits) <=> Set(a) = Set(b)
         /\ bitmap_intersects(mem[a], mem[b], nbits) <=> Set(a) \cap Set(b) # {}
         /\ bitmap_empty(mem[a], nbits) <=> Set(a) = {}
         /\ bitmap_full(mem[a], nbits) <=> Set(a) = AllCpus
  BY <1>1, Predicates DEF Set, AllCpus
<1>3. \A a, b \in Masks : nbits <= BITS_PER_LONG =>
         (bitmap_subset(mem[a], mem[b], nbits) <=> Set(a) \subseteq Set(b))
  BY <1>1, SubsetDecided DEF Set
<1>4. \A a \in Masks : bitmap_weight(mem[a], nbits) = Cardinality(Set(a))
  BY <1>1, WeightCounts DEF Set
<1> QED BY <1>2, <1>3, <1>4, Zenon DEF PredicatesExact

-----------------------------------------------------------------------------
(* The loops of the shifts.  What they write into a word: *)
Off(shift) == shift \div BITS_PER_LONG
Rem(shift) == shift % BITS_PER_LONG

RightWord(m, s, shift, n, k) ==
    (Shl(IF Rem(shift) = 0 \/ Off(shift) + k + 1 >= BITS_TO_LONGS(n) THEN {}
         ELSE m[s][Off(shift) + k + 1] \cap Valid(n, Off(shift) + k + 1), BITS_PER_LONG - Rem(shift))
       \cup Shr(m[s][Off(shift) + k] \cap Valid(n, Off(shift) + k), Rem(shift)))
    \cap Valid(n, k)

LeftWord(m, s, shift, n, k) ==
    (Shr(IF Rem(shift) # 0 /\ k > 0 THEN m[s][k - 1] ELSE {}, BITS_PER_LONG - Rem(shift))
       \cup Shl(m[s][k] \cap Valid(n, k), Rem(shift)))
    \cap Valid(n, k + Off(shift))

(* The words a shift skips are words of the bitmap. *)
LEMMA OffLemma ==
    ASSUME NEW n \in Nat \ {0}, NEW shift \in 0..n
    PROVE  /\ BITS_TO_LONGS(n) \in Nat \ {0} /\ Off(shift) \in Nat
           /\ BITS_TO_LONGS(n) - Off(shift) \in Nat
           /\ Rem(shift) \in 0..BITS_PER_LONG - 1
           /\ shift = BITS_PER_LONG * Off(shift) + Rem(shift)
<1> DEFINE W == BITS_PER_LONG
           q == n \div W
           r == n % W
           o == shift \div W
           e == shift % W
           v == W * q
           u == W * o
<1>1. W \in Nat \ {0}
  BY WordAssumption
<1>w. BITS_TO_LONGS(n) \in Nat \ {0} /\ BITS_TO_LONGS(n) >= q
  <2>1. q \in Nat
    BY <1>1
  <2> QED BY <2>1, WordCount
<1> HIDE DEF W
<1>2. q \in Nat /\ r \in 0..W - 1 /\ n = v + r
  BY <1>1, DivMod
<1>3. shift \in Nat /\ o \in Nat /\ e \in 0..W - 1 /\ shift = u + e
  BY <1>1, DivMod
<1>4. o <= q
  <2> SUFFICES ASSUME q < o PROVE FALSE
    BY <1>2, <1>3
  <2>1. v \in Nat /\ u \in Nat /\ v + W <= u
    <3> HIDE DEF q, o
    <3> QED BY <1>1, <1>2, <1>3, WordOrder
  <2> HIDE DEF q, o, u, v, r, e
  <2> QED BY <1>1, <1>2, <1>3, <2>1
<1>5. BITS_TO_LONGS(n) - o \in Nat
  <2> HIDE DEF q, o
  <2> QED BY <1>w, <1>2, <1>3, <1>4
<1> QED BY <1>w, <1>3, <1>5, Zenon DEF Off, Rem, W

(* What the loop of __bitmap_shift_right leaves before it clears words. *)
RightDone(res, m0, d, s, shift, n) ==
    /\ res \in Memories(n)
    /\ __bitmap_shift_right(m0, d, s, shift, n) =
          ClearWords(res, d, (BITS_TO_LONGS(n) - Off(shift))..(BITS_TO_LONGS(n) - 1))
    /\ \A r \in Masks \ {d} : res[r] = m0[r]
    /\ \A k \in 0..BITS_TO_LONGS(n) - Off(shift) - 1 :
          res[d][k] = RightWord(m0, s, shift, n, k)

(* The loop goes up: a word is read before it is written, in place too. *)
LEMMA RightLoop ==
    ASSUME NEW n \in Nat \ {0}, NEW shift \in 0..n, NEW m0 \in Memories(n),
           NEW d \in Masks, NEW s \in Masks
    PROVE  \E res : RightDone(res, m0, d, s, shift, n)
<1> DEFINE L == BITS_TO_LONGS(n)
           N == L - Off(shift)
           up == [i \in 1..N |-> i - 1]
           Is(g) == g = [t \in SUBSET (DOMAIN up) |->
                           IF t = {} THEN m0
                           ELSE [g[t \ {Max(t)}] EXCEPT
                                   ![d][up[Max(t)]] = RightWord(g[t \ {Max(t)}], s, shift, n, up[Max(t)])]]
           iter == CHOOSE g : Is(g)
<1>1. __bitmap_shift_right(m0, d, s, shift, n) = ClearWords(iter[DOMAIN up], d, N..(L - 1))
  BY DEF __bitmap_shift_right, Loop, FoldLeft, MapThenFoldSet, RightWord, Off, Rem
<1>2. /\ L \in Nat \ {0} /\ Off(shift) \in Nat /\ N \in Nat
      /\ Words(n) = 0..L - 1 /\ \A k \in 0..N - 1 : k \in Words(n) /\ Off(shift) + k \in Words(n)
  BY OffLemma DEF Words
<1>n. N \in Nat /\ \A k \in Words(n) : k \in Nat
  BY <1>2
<1> DEFINE R == Memories(n)
           step == [p \in (1..N) \X R |->
                      [p[2] EXCEPT ![d][p[1] - 1] = RightWord(p[2], s, shift, n, p[1] - 1)]]
<1>3. DOMAIN up = 1..N /\ \A i \in 1..N : up[i] = i - 1 /\ i - 1 \in 0..N - 1
  BY <1>2
<1> HIDE DEF L, N, up
<1>4. step \in [(1..N) \X R -> R]
  <2> SUFFICES ASSUME NEW i \in 1..N, NEW m \in R
               PROVE  [m EXCEPT ![d][i - 1] = RightWord(m, s, shift, n, i - 1)] \in R
    OBVIOUS
  <2>1. RightWord(m, s, shift, n, i - 1) \subseteq AllOnes
    BY ValidBits DEF RightWord
  <2> HIDE DEF R
  <2>2. m \in [Masks -> [Words(n) -> SUBSET AllOnes]]
    BY DEF R, Memories, Bitmaps
  <2>3. [m EXCEPT ![d][i - 1] = RightWord(m, s, shift, n, i - 1)] \in [Masks -> [Words(n) -> SUBSET AllOnes]]
    BY <2>1, <2>2
  <2> QED BY <2>3 DEF R, Memories, Bitmaps
<1>5. ASSUME NEW i \in 1..N, NEW m \in R
      PROVE  step[<<i, m>>] = [m EXCEPT ![d][i - 1] = RightWord(m, s, shift, n, i - 1)]
  <2>1. <<i, m>> \in (1..N) \X R
    BY <1>5
  <2> QED BY <2>1
<1>6. m0 \in R
  OBVIOUS
<1> HIDE DEF step, R
<1>7. PICK g \in [SUBSET (1..N) -> R] : IsFold(N, g, m0, step)
  BY <1>2, <1>4, <1>6, FoldExists
<1>8. Is(g)
  <2>1. g[{}] = m0
    BY <1>7 DEF IsFold
  <2>2. ASSUME NEW t \in SUBSET (1..N), t # {}
        PROVE  g[t] = [g[t \ {Max(t)}] EXCEPT
                         ![d][up[Max(t)]] = RightWord(g[t \ {Max(t)}], s, shift, n, up[Max(t)])]
    <3>1. Max(t) \in 1..N
      BY <1>2, <2>2, MaxLemma
    <3>2. g[t \ {Max(t)}] \in R
      OBVIOUS
    <3>3. g[t] = step[<<Max(t), g[t \ {Max(t)}]>>]
      BY <1>7, <2>2 DEF IsFold
    <3> QED BY <1>3, <1>5, <3>1, <3>2, <3>3
  <2> QED BY <1>3, <2>1, <2>2
<1>9. Is(iter)
  <2> HIDE DEF Is
  <2> QED BY <1>8
<1>10. iter[{}] = m0
  <2> DEFINE j == iter
  <2>1. Is(j)
    BY <1>9, Zenon
  <2> HIDE DEF j
  <2>2. j[{}] = m0
    BY <1>3, <2>1
  <2> QED BY <2>2 DEF j
<1>11. ASSUME NEW t \in SUBSET (1..N), t # {} /\ iter[t \ {Max(t)}] \in R
       PROVE  iter[t] = step[<<Max(t), iter[t \ {Max(t)}]>>]
  <2>1. Max(t) \in 1..N
    BY <1>2, <1>11, MaxLemma, Zenon
  <2> DEFINE j == iter
  <2>2. Is(j)
    BY <1>9, Zenon
  <2> HIDE DEF j
  <2>3. j[t] = [j[t \ {Max(t)}] EXCEPT
                  ![d][up[Max(t)]] = RightWord(j[t \ {Max(t)}], s, shift, n, up[Max(t)])]
    BY <1>3, <1>11, <2>2
  <2>4. j[t \ {Max(t)}] \in R
    BY <1>11 DEF j
  <2>5. j[t] = step[<<Max(t), j[t \ {Max(t)}]>>]
    BY <1>3, <1>5, <2>1, <2>3, <2>4
  <2> QED BY <2>5, Zenon DEF j
<1> HIDE DEF iter
<1>12. PICK h : /\ h \in [0..N -> R]
                /\ h[0] = m0 /\ h[N] = iter[1..N]
                /\ \A k \in 1..N : h[k] = step[<<k, h[k - 1]>>]
  <2>1. IsLoop(N, R, iter, m0, step)
    BY <1>n, <1>4, <1>6, <1>10, <1>11 DEF IsLoop
  <2>2. \E h : Runs(h, N, R, iter, m0, step)
    BY <2>1, FoldSteps
  <2> QED BY <2>2 DEF Runs
<1> DEFINE Done(m, i) ==
             /\ \A r \in Masks \ {d} : m[r] = m0[r]
             /\ \A k \in Words(n) : m[d][k] = IF k < i THEN RightWord(m0, s, shift, n, k) ELSE m0[d][k]
           P == {i \in 0..N : Done(h[i], i)}
<1>13. 0 \in P
  <2>1. \A k \in Words(n) : ~(k < 0)
    BY <1>2
  <2>2. 0 \in 0..N
    BY <1>2
  <2> QED BY <1>12, <2>1, <2>2
<1>14. ASSUME NEW i \in 1..N, i - 1 \in P PROVE i \in P
  <2> DEFINE m == h[i - 1]
             w == RightWord(m0, s, shift, n, i - 1)
  <2>1. m \in R /\ Done(m, i - 1) /\ i - 1 \in Words(n)
    BY <1>2, <1>3, <1>12, <1>14
  <2>2. h[i] = [m EXCEPT ![d][i - 1] = RightWord(m, s, shift, n, i - 1)]
    BY <1>5, <1>12, <2>1
  <2> HIDE DEF m
  <2>3. \A k \in Words(n) : ~(k < i - 1) => m[s][k] = m0[s][k]
    BY <2>1
  <2>4. RightWord(m, s, shift, n, i - 1) = w
    <3> DEFINE x == Off(shift) + (i - 1)
    <3>1. x \in Words(n) /\ ~(x < i - 1)
      BY <1>2, <1>3
    <3>2. x + 1 < L => x + 1 \in Words(n) /\ ~(x + 1 < i - 1)
      BY <1>2, <3>1
    <3>3. m[s][x] = m0[s][x] /\ (x + 1 < L => m[s][x + 1] = m0[s][x + 1])
      BY <2>3, <3>1, <3>2
    <3>4. x + 1 >= L <=> ~(x + 1 < L)
      BY <1>2, <3>1
    <3>5. (IF Rem(shift) = 0 \/ x + 1 >= L THEN {} ELSE m[s][x + 1] \cap Valid(n, x + 1)) =
             (IF Rem(shift) = 0 \/ x + 1 >= L THEN {} ELSE m0[s][x + 1] \cap Valid(n, x + 1))
      BY <3>3, <3>4
    <3> QED BY <3>3, <3>5 DEF RightWord, L
  <2>5. m \in [Masks -> [Words(n) -> SUBSET AllOnes]]
    BY <2>1 DEF R, Memories, Bitmaps
  <2> HIDE DEF w
  <2>6. /\ \A r \in Masks \ {d} : h[i][r] = m[r]
        /\ \A k \in Words(n) : h[i][d][k] = IF k = i - 1 THEN w ELSE m[d][k]
    BY <2>1, <2>2, <2>4, <2>5
  <2>7. \A r \in Masks \ {d} : h[i][r] = m0[r]
    BY <2>1, <2>6
  <2>8. \A k \in Words(n) : h[i][d][k] = IF k < i THEN RightWord(m0, s, shift, n, k) ELSE m0[d][k]
    <3> SUFFICES ASSUME NEW k \in Words(n)
                 PROVE  h[i][d][k] = IF k < i THEN RightWord(m0, s, shift, n, k) ELSE m0[d][k]
      OBVIOUS
    <3>1. CASE k = i - 1
      <4>1. k < i /\ h[i][d][k] = w
        BY <1>2, <2>6, <3>1
      <4> QED BY <3>1, <4>1 DEF w
    <3>2. CASE k # i - 1
      <4>0. k \in Nat /\ i \in Nat
        BY <1>n
      <4>1. k < i <=> k < i - 1
        BY <3>2, <4>0
      <4>2. h[i][d][k] = m[d][k]
        BY <2>6, <3>2
      <4> QED BY <2>1, <4>1, <4>2
    <3> QED BY <3>1, <3>2
  <2>9. i \in 0..N
    BY <1>2
  <2> QED BY <2>7, <2>8, <2>9
<1>15. Done(h[N], N)
  <2>1. \A i \in 1..N : i - 1 \in P => i \in P
    BY <1>14
  <2>2. N \in 0..N
    BY <1>2
  <2>3. N \in P
    <3> HIDE DEF P
    <3> QED BY <1>2, <1>13, <2>1, <2>2, UpTo
  <2> QED BY <2>3
<1>16. h[N] \in Memories(n) /\ iter[DOMAIN up] = h[N]
  <2>1. N \in 0..N
    BY <1>2
  <2> QED BY <1>3, <1>12, <2>1 DEF R
<1>17. \A k \in 0..N - 1 : h[N][d][k] = RightWord(m0, s, shift, n, k)
  <2>1. \A k \in 0..N - 1 : k \in Words(n)
    BY <1>2
  <2>2. \A k \in 0..N - 1 : k < N
    BY <1>n
  <2> QED BY <1>15, <2>1, <2>2
<1>18. RightDone(h[N], m0, d, s, shift, n)
  BY <1>1, <1>15, <1>16, <1>17 DEF L, N, RightDone
<1> QED BY <1>18

(* The same for __bitmap_shift_left. *)
LeftDone(res, m0, d, s, shift, n) ==
    /\ res \in Memories(n)
    /\ __bitmap_shift_left(m0, d, s, shift, n) = ClearWords(res, d, 0..(Off(shift) - 1))
    /\ \A r \in Masks \ {d} : res[r] = m0[r]
    /\ \A k \in Off(shift)..BITS_TO_LONGS(n) - 1 :
          res[d][k] = LeftWord(m0, s, shift, n, k - Off(shift))

(* The loop goes down: a word is read before it is written, in place too. *)
LEMMA LeftLoop ==
    ASSUME NEW n \in Nat \ {0}, NEW shift \in 0..n, NEW m0 \in Memories(n),
           NEW d \in Masks, NEW s \in Masks
    PROVE  \E res : LeftDone(res, m0, d, s, shift, n)
<1> DEFINE L == BITS_TO_LONGS(n)
           N == L - Off(shift)
           o == Off(shift)
           down == [i \in 1..N |-> N - i]
           Is(g) == g = [t \in SUBSET (DOMAIN down) |->
                           IF t = {} THEN m0
                           ELSE [g[t \ {Max(t)}] EXCEPT
                                   ![d][down[Max(t)] + o] = LeftWord(g[t \ {Max(t)}], s, shift, n, down[Max(t)])]]
           iter == CHOOSE g : Is(g)
<1>1. __bitmap_shift_left(m0, d, s, shift, n) = ClearWords(iter[DOMAIN down], d, 0..(o - 1))
  BY DEF __bitmap_shift_left, Loop, FoldLeft, MapThenFoldSet, LeftWord, Off, Rem
<1>2. /\ L \in Nat \ {0} /\ o \in Nat /\ N \in Nat /\ N = L - o
      /\ Words(n) = 0..L - 1
  BY OffLemma DEF Words
<1>n. N \in Nat /\ \A k \in Words(n) : k \in Nat
  BY <1>2
<1> DEFINE R == Memories(n)
           step == [p \in (1..N) \X R |->
                      [p[2] EXCEPT ![d][(N - p[1]) + o] = LeftWord(p[2], s, shift, n, N - p[1])]]
<1>3. DOMAIN down = 1..N /\ \A i \in 1..N : down[i] = N - i
  BY <1>2
<1>i. \A i \in 1..N : (N - i) + o = L - i /\ L - i \in Words(n) /\ N - i \in Words(n) /\ N - i <= L - i
  BY <1>2, SMTT(30)
<1> HIDE DEF L, N, down, o
<1>4. step \in [(1..N) \X R -> R]
  <2> SUFFICES ASSUME NEW i \in 1..N, NEW m \in R
               PROVE  [m EXCEPT ![d][(N - i) + o] = LeftWord(m, s, shift, n, N - i)] \in R
    OBVIOUS
  <2>1. LeftWord(m, s, shift, n, N - i) \subseteq AllOnes
    BY ValidBits DEF LeftWord
  <2> HIDE DEF R
  <2>2. m \in [Masks -> [Words(n) -> SUBSET AllOnes]]
    BY DEF R, Memories, Bitmaps
  <2>3. [m EXCEPT ![d][(N - i) + o] = LeftWord(m, s, shift, n, N - i)] \in [Masks -> [Words(n) -> SUBSET AllOnes]]
    BY <1>i, <2>1, <2>2
  <2> QED BY <2>3 DEF R, Memories, Bitmaps
<1>5. ASSUME NEW i \in 1..N, NEW m \in R
      PROVE  step[<<i, m>>] = [m EXCEPT ![d][(N - i) + o] = LeftWord(m, s, shift, n, N - i)]
  <2>1. <<i, m>> \in (1..N) \X R
    BY <1>5
  <2> QED BY <2>1
<1>6. m0 \in R
  OBVIOUS
<1> HIDE DEF step, R
<1>7. PICK g \in [SUBSET (1..N) -> R] : IsFold(N, g, m0, step)
  BY <1>2, <1>4, <1>6, FoldExists
<1>8. Is(g)
  <2>1. g[{}] = m0
    BY <1>7 DEF IsFold
  <2>2. ASSUME NEW t \in SUBSET (1..N), t # {}
        PROVE  g[t] = [g[t \ {Max(t)}] EXCEPT
                         ![d][down[Max(t)] + o] = LeftWord(g[t \ {Max(t)}], s, shift, n, down[Max(t)])]
    <3>1. Max(t) \in 1..N
      BY <1>2, <2>2, MaxLemma, Zenon
    <3>2. g[t \ {Max(t)}] \in R
      OBVIOUS
    <3>3. g[t] = step[<<Max(t), g[t \ {Max(t)}]>>]
      BY <1>7, <2>2 DEF IsFold
    <3> QED BY <1>3, <1>5, <3>1, <3>2, <3>3
  <2> QED BY <1>3, <2>1, <2>2
<1>9. Is(iter)
  <2> HIDE DEF Is
  <2> QED BY <1>8
<1>10. iter[{}] = m0
  <2> DEFINE j == iter
  <2>1. Is(j)
    BY <1>9, Zenon
  <2> HIDE DEF j
  <2>2. j[{}] = m0
    BY <1>3, <2>1
  <2> QED BY <2>2 DEF j
<1>11. ASSUME NEW t \in SUBSET (1..N), t # {} /\ iter[t \ {Max(t)}] \in R
       PROVE  iter[t] = step[<<Max(t), iter[t \ {Max(t)}]>>]
  <2>1. Max(t) \in 1..N
    BY <1>2, <1>11, MaxLemma, Zenon
  <2> DEFINE j == iter
  <2>2. Is(j)
    BY <1>9, Zenon
  <2> HIDE DEF j
  <2>3. j[t] = [j[t \ {Max(t)}] EXCEPT
                  ![d][down[Max(t)] + o] = LeftWord(j[t \ {Max(t)}], s, shift, n, down[Max(t)])]
    BY <1>3, <1>11, <2>2
  <2>4. j[t \ {Max(t)}] \in R
    BY <1>11 DEF j
  <2>5. j[t] = step[<<Max(t), j[t \ {Max(t)}]>>]
    BY <1>3, <1>5, <2>1, <2>3, <2>4
  <2> QED BY <2>5 DEF j
<1> HIDE DEF iter
<1>12. PICK h : /\ h \in [0..N -> R]
                /\ h[0] = m0 /\ h[N] = iter[1..N]
                /\ \A k \in 1..N : h[k] = step[<<k, h[k - 1]>>]
  <2>1. IsLoop(N, R, iter, m0, step)
    BY <1>n, <1>4, <1>6, <1>10, <1>11 DEF IsLoop
  <2>2. \E h : Runs(h, N, R, iter, m0, step)
    BY <2>1, FoldSteps
  <2> QED BY <2>2 DEF Runs
<1> DEFINE Done(m, i) ==
             /\ \A r \in Masks \ {d} : m[r] = m0[r]
             /\ \A k \in Words(n) : m[d][k] = IF k >= L - i THEN LeftWord(m0, s, shift, n, k - o) ELSE m0[d][k]
           P == {i \in 0..N : Done(h[i], i)}
<1>13. 0 \in P
  <2>1. \A k \in Words(n) : ~(k >= L - 0)
    BY <1>2
  <2>2. 0 \in 0..N
    BY <1>2
  <2> QED BY <1>12, <2>1, <2>2
<1>14. ASSUME NEW i \in 1..N, i - 1 \in P PROVE i \in P
  <2> DEFINE m == h[i - 1]
             x == L - i
             w == LeftWord(m0, s, shift, n, N - i)
  <2>0. x \in Words(n) /\ (N - i) + o = x /\ N - i \in Words(n) /\ N - i <= x
    BY <1>i
  <2>1. m \in R /\ Done(m, i - 1)
    BY <1>12, <1>14
  <2>2. h[i] = [m EXCEPT ![d][(N - i) + o] = LeftWord(m, s, shift, n, N - i)]
    BY <1>5, <1>12, <2>1
  <2> HIDE DEF m
  <2>3. \A k \in Words(n) : k <= x => m[s][k] = m0[s][k]
    <3> SUFFICES ASSUME NEW k \in Words(n), k <= x PROVE m[s][k] = m0[s][k]
      OBVIOUS
    <3>1. k \in Nat /\ L \in Nat /\ i \in Nat
      BY <1>2, <1>n
    <3>2. ~(k >= L - (i - 1))
      BY <3>1
    <3> QED BY <2>1, <3>2
  <2>4. LeftWord(m, s, shift, n, N - i) = w
    <3> DEFINE y == N - i
    <3>1. m[s][y] = m0[s][y]
      BY <2>0, <2>3
    <3>2. y > 0 => m[s][y - 1] = m0[s][y - 1]
      <4> SUFFICES ASSUME y > 0 PROVE m[s][y - 1] = m0[s][y - 1]
        OBVIOUS
      <4>1. y \in Int /\ x \in Int /\ y <= x /\ y \in 0..L - 1
        BY <1>2, <2>0
      <4>2. y - 1 \in Words(n) /\ y - 1 <= x
        <5> HIDE DEF y, x
        <5> QED BY <1>2, <4>1
      <4> QED BY <2>3, <4>2
    <3>3. (IF Rem(shift) # 0 /\ y > 0 THEN m[s][y - 1] ELSE {}) =
             (IF Rem(shift) # 0 /\ y > 0 THEN m0[s][y - 1] ELSE {})
      BY <3>2
    <3> QED BY <3>1, <3>3 DEF LeftWord
  <2>5. m \in [Masks -> [Words(n) -> SUBSET AllOnes]]
    BY <2>1 DEF R, Memories, Bitmaps
  <2> HIDE DEF w, x
  <2>6. /\ \A r \in Masks \ {d} : h[i][r] = m[r]
        /\ \A k \in Words(n) : h[i][d][k] = IF k = x THEN w ELSE m[d][k]
    BY <2>0, <2>2, <2>4, <2>5
  <2>7. \A r \in Masks \ {d} : h[i][r] = m0[r]
    BY <2>1, <2>6
  <2>8. \A k \in Words(n) : h[i][d][k] = IF k >= L - i THEN LeftWord(m0, s, shift, n, k - o) ELSE m0[d][k]
    <3> SUFFICES ASSUME NEW k \in Words(n)
                 PROVE  h[i][d][k] = IF k >= L - i THEN LeftWord(m0, s, shift, n, k - o) ELSE m0[d][k]
      OBVIOUS
    <3>0. k \in Nat /\ i \in Nat /\ L \in Nat /\ N \in Nat /\ o \in Nat
      BY <1>n, <1>2
    <3>1. CASE k = x
      <4>1. h[i][d][k] = w
        BY <2>6, <3>1
      <4>2. k >= L - i /\ k - o = N - i
        BY <2>0, <3>0, <3>1 DEF x
      <4> QED BY <4>1, <4>2 DEF w
    <3>2. CASE k # x
      <4>1. k >= L - i <=> k >= L - (i - 1)
        BY <3>0, <3>2 DEF x
      <4>2. h[i][d][k] = m[d][k]
        BY <2>6, <3>2
      <4> QED BY <2>1, <4>1, <4>2
    <3> QED BY <3>1, <3>2
  <2>9. i \in 0..N
    BY <1>2
  <2> QED BY <2>7, <2>8, <2>9
<1>15. Done(h[N], N)
  <2>1. \A i \in 1..N : i - 1 \in P => i \in P
    BY <1>14
  <2>2. N \in 0..N
    BY <1>2
  <2>3. N \in P
    <3> HIDE DEF P
    <3> QED BY <1>2, <1>13, <2>1, <2>2, UpTo
  <2> QED BY <2>3
<1>16. h[N] \in Memories(n) /\ iter[DOMAIN down] = h[N]
  <2>1. N \in 0..N
    BY <1>2
  <2> QED BY <1>3, <1>12, <2>1 DEF R
<1>17. \A k \in o..L - 1 : h[N][d][k] = LeftWord(m0, s, shift, n, k - o)
  <2>1. \A k \in o..L - 1 : k \in Words(n) /\ k >= L - N
    BY <1>2
  <2> QED BY <1>15, <2>1
<1>18. LeftDone(h[N], m0, d, s, shift, n)
  BY <1>1, <1>15, <1>16, <1>17 DEF L, o, LeftDone
<1> QED BY <1>18

-----------------------------------------------------------------------------
(* What the shifts leave in a mask. *)
LEMMA ShlIn ==
    ASSUME NEW w \in SUBSET AllOnes, NEW e \in 0..BITS_PER_LONG, NEW b \in AllOnes
    PROVE  b \in Shl(w, e) <=> b - e \in w
<1>1. BITS_PER_LONG \in Nat /\ AllOnes \subseteq Int
  BY WordAssumption DEF AllOnes
<1>2. \A x \in w : x + e = b <=> x = b - e
  BY <1>1
<1>3. b - e \in w => (b - e) + e = b
  BY <1>1
<1> QED BY <1>2, <1>3 DEF Shl

(* A word shifted towards bit 0. *)
LEMMA ShrIn ==
    ASSUME NEW w \in SUBSET AllOnes, NEW e \in 0..BITS_PER_LONG, NEW b \in AllOnes
    PROVE  b \in Shr(w, e) <=> b + e \in w
<1>1. BITS_PER_LONG \in Nat /\ AllOnes \subseteq Nat
  BY WordAssumption DEF AllOnes
<1>2. \A x \in w : x - e = b <=> x = b + e
  BY <1>1
<1>3. (b + e) - e = b /\ b + e >= e
  BY <1>1
<1> QED BY <1>2, <1>3 DEF Shr

(* Where the bit of a cpu goes. *)
LEMMA BitMoves ==
    ASSUME NEW c \in Nat, NEW shift \in Nat
    PROVE  LET k == BITOP_WORD(c)
               b == BITOP_BIT(c)
           IN  /\ k \in Nat /\ b \in AllOnes /\ Off(shift) \in Nat /\ Rem(shift) \in AllOnes
               /\ b + Rem(shift) \in AllOnes =>
                     /\ BITOP_WORD(c + shift) = Off(shift) + k
                     /\ BITOP_BIT(c + shift) = b + Rem(shift)
               /\ b + Rem(shift) \notin AllOnes =>
                     /\ b - (BITS_PER_LONG - Rem(shift)) \in AllOnes
                     /\ BITOP_WORD(c + shift) = Off(shift) + k + 1
                     /\ BITOP_BIT(c + shift) = b - (BITS_PER_LONG - Rem(shift))
<1> DEFINE W == BITS_PER_LONG
           k == BITOP_WORD(c)
           b == BITOP_BIT(c)
           o == Off(shift)
           e == Rem(shift)
<1>1. W \in Nat \ {0} /\ AllOnes = 0..W - 1
  BY WordAssumption DEF AllOnes
<1>2. k \in Nat /\ b \in 0..W - 1 /\ c = W * k + b
  BY <1>1, DivMod DEF BITOP_WORD, BITOP_BIT
<1>3. o \in Nat /\ e \in 0..W - 1 /\ shift = W * o + e
  BY <1>1, DivMod DEF Off, Rem
<1> DEFINE u == W * k
           v == W * o
           z == W * (o + k)
           y == W * (o + k + 1)
<1> HIDE DEF W, k, b, o, e
<1>4. u \in Nat /\ v \in Nat /\ z = u + v /\ y = u + v + W
  BY <1>1, <1>2, <1>3
<1>5. c + shift = z + (b + e) /\ c + shift = y + (b - (W - e))
  <2> HIDE DEF u, v, z, y
  <2> QED BY <1>1, <1>2, <1>3, <1>4 DEF u, v
<1>6. ASSUME b + e \in 0..W - 1
      PROVE  (c + shift) \div W = o + k /\ (c + shift) % W = b + e
  <2>1. o + k \in Nat
    BY <1>2, <1>3
  <2>2. (z + (b + e)) \div W = o + k /\ (z + (b + e)) % W = b + e
    BY <1>1, <1>6, <2>1, DivModUnique
  <2> QED BY <1>5, <2>2
<1>7. ASSUME b + e \notin 0..W - 1
      PROVE  /\ b - (W - e) \in 0..W - 1
             /\ (c + shift) \div W = o + k + 1 /\ (c + shift) % W = b - (W - e)
  <2>1. o + k + 1 \in Nat /\ b - (W - e) \in 0..W - 1
    BY <1>1, <1>2, <1>3, <1>7
  <2>2. (y + (b - (W - e))) \div W = o + k + 1 /\ (y + (b - (W - e))) % W = b - (W - e)
    BY <1>1, <2>1, DivModUnique
  <2> QED BY <1>5, <2>1, <2>2
<1>8. BITOP_WORD(c + shift) = (c + shift) \div W /\ BITOP_BIT(c + shift) = (c + shift) % W
  BY DEF BITOP_WORD, BITOP_BIT, W
<1> QED BY <1>1, <1>2, <1>3, <1>6, <1>7, <1>8, Zenon DEF W, k, b, o, e

(* A bit of a word written by __bitmap_shift_right comes from shift bits above. *)
LEMMA RightBit ==
    ASSUME NEW n \in Nat \ {0}, NEW shift \in 0..n, NEW m \in Memories(n), NEW s \in Masks,
           NEW c \in 0..n - 1, BITOP_WORD(c) < BITS_TO_LONGS(n) - Off(shift)
    PROVE  BITOP_BIT(c) \in RightWord(m, s, shift, n, BITOP_WORD(c)) <=> c + shift \in Bits(m[s], n)
<1> DEFINE W == BITS_PER_LONG
           L == BITS_TO_LONGS(n)
           k == BITOP_WORD(c)
           b == BITOP_BIT(c)
           o == Off(shift)
           e == Rem(shift)
           low == m[s][o + k] \cap Valid(n, o + k)
           upper == IF e = 0 \/ o + k + 1 >= L THEN {}
                    ELSE m[s][o + k + 1] \cap Valid(n, o + k + 1)
<1>1. c \in Nat /\ shift \in Nat /\ c + shift \in Nat
  OBVIOUS
<1>2. /\ k \in Nat /\ b \in AllOnes /\ o \in Nat /\ e \in AllOnes
      /\ b + e \in AllOnes => BITOP_WORD(c + shift) = o + k /\ BITOP_BIT(c + shift) = b + e
      /\ b + e \notin AllOnes => /\ b - (W - e) \in AllOnes
                                 /\ BITOP_WORD(c + shift) = o + k + 1
                                 /\ BITOP_BIT(c + shift) = b - (W - e)
  BY <1>1, BitMoves
<1>3. W \in Nat \ {0} /\ AllOnes = 0..W - 1 /\ L \in Nat \ {0} /\ Words(n) = 0..L - 1
  BY WordAssumption, WordCount DEF AllOnes, Words
<1>4. k < L - o /\ b \in Valid(n, k)
  BY CpuBits
<1>5. b \in RightWord(m, s, shift, n, k) <=> b \in Shl(upper, W - e) \/ b \in Shr(low, e)
  BY <1>4 DEF RightWord
<1>6. c + shift \in Bits(m[s], n) <=>
         /\ BITOP_WORD(c + shift) \in Words(n)
         /\ BITOP_BIT(c + shift) \in Valid(n, BITOP_WORD(c + shift))
         /\ BITOP_BIT(c + shift) \in m[s][BITOP_WORD(c + shift)]
  <2>1. c + shift \in 0..n - 1 <=> /\ BITOP_WORD(c + shift) \in Words(n)
                                   /\ BITOP_BIT(c + shift) \in Valid(n, BITOP_WORD(c + shift))
    BY <1>1, Position
  <2> QED BY <2>1, BitsIn
<1>7. low \subseteq AllOnes /\ upper \subseteq AllOnes
  BY ValidBits
<1> HIDE DEF W, L, k, b, o, e
<1>8. /\ b \in Shl(upper, W - e) <=> b - (W - e) \in upper
      /\ b \in Shr(low, e) <=> b + e \in low
  <2>1. e \in 0..W /\ W - e \in 0..W
    BY <1>2, <1>3
  <2> HIDE DEF low, upper
  <2> QED BY <1>2, <1>7, <2>1, ShlIn, ShrIn DEF W
<1>9. CASE b + e \in AllOnes
  <2>1. b - (W - e) \notin AllOnes
    BY <1>2, <1>3, <1>9
  <2>2. b - (W - e) \notin upper
    BY <1>7, <2>1
  <2>3. o + k \in Words(n)
    BY <1>2, <1>3, <1>4
  <2>4. b + e \in low <=> c + shift \in Bits(m[s], n)
    BY <1>2, <1>6, <1>9, <2>3
  <2> QED BY <1>5, <1>8, <2>2, <2>4 DEF k, b
<1>10. CASE b + e \notin AllOnes
  <2>1. b + e \notin low
    BY <1>7, <1>10
  <2>2. e # 0
    BY <1>2, <1>3, <1>10
  <2>3. o + k + 1 \in Words(n) <=> ~(o + k + 1 >= L)
    BY <1>2, <1>3
  <2>4. b - (W - e) \in upper <=> c + shift \in Bits(m[s], n)
    BY <1>2, <1>6, <1>10, <2>2, <2>3
  <2> QED BY <1>5, <1>8, <2>1, <2>4 DEF k, b
<1> QED BY <1>9, <1>10

(* A bit of a word written by __bitmap_shift_left comes from shift bits below. *)
LEMMA LeftBit ==
    ASSUME NEW n \in Nat \ {0}, NEW shift \in 0..n, NEW m \in Memories(n), NEW s \in Masks,
           NEW c \in Nat, c + shift \in 0..n - 1
    PROVE  /\ BITOP_WORD(c + shift) >= Off(shift)
           /\ BITOP_BIT(c + shift) \in LeftWord(m, s, shift, n, BITOP_WORD(c + shift) - Off(shift))
                 <=> c \in Bits(m[s], n)
<1> DEFINE W == BITS_PER_LONG
           L == BITS_TO_LONGS(n)
           k == BITOP_WORD(c)
           b == BITOP_BIT(c)
           o == Off(shift)
           e == Rem(shift)
           x == BITOP_WORD(c + shift)
           y == BITOP_BIT(c + shift)
           j == x - o
           low == IF e # 0 /\ j > 0 THEN m[s][j - 1] ELSE {}
           own == m[s][j] \cap Valid(n, j)
<1>1. c \in 0..n - 1 /\ shift \in Nat
  OBVIOUS
<1>2. /\ k \in Nat /\ b \in AllOnes /\ o \in Nat /\ e \in AllOnes
      /\ b + e \in AllOnes => x = o + k /\ y = b + e
      /\ b + e \notin AllOnes => /\ b - (W - e) \in AllOnes
                                 /\ x = o + k + 1 /\ y = b - (W - e)
  BY <1>1, BitMoves
<1>3. W \in Nat \ {0} /\ AllOnes = 0..W - 1 /\ L \in Nat \ {0} /\ Words(n) = 0..L - 1
  BY WordAssumption, WordCount DEF AllOnes, Words
<1>4. x \in Words(n) /\ y \in Valid(n, x) /\ k \in Words(n) /\ b \in Valid(n, k) /\ y \in AllOnes
  BY <1>1, CpuBits
<1>5. c \in Bits(m[s], n) <=> b \in m[s][k]
  BY <1>1, BitsIn
<1>6. \A i \in Words(n) : m[s][i] \subseteq AllOnes
  BY DEF Memories, Bitmaps
<1>7. j + o = x
  BY <1>2, <1>3, <1>4, SMTT(30)
<1>8. y \in LeftWord(m, s, shift, n, j) <=> y \in Shr(low, W - e) \/ y \in Shl(own, e)
  BY <1>4, <1>7 DEF LeftWord
<1> HIDE DEF W, L, k, b, o, e, x, y
<1>9. x >= o /\ j \in Words(n)
  BY <1>2, <1>3, <1>4
<1>10. low \subseteq AllOnes /\ own \subseteq AllOnes
  <2>1. j > 0 => j - 1 \in Words(n)
    BY <1>3, <1>9
  <2> HIDE DEF j
  <2> QED BY <1>6, <1>9, <2>1
<1>11. /\ y \in Shr(low, W - e) <=> y + (W - e) \in low
       /\ y \in Shl(own, e) <=> y - e \in own
  <2>1. e \in 0..W /\ W - e \in 0..W
    BY <1>2, <1>3
  <2> HIDE DEF low, own
  <2> QED BY <1>4, <1>10, <2>1, ShlIn, ShrIn DEF W
<1>12. CASE b + e \in AllOnes
  <2>1. j = k /\ y - e = b
    BY <1>2, <1>3, <1>12
  <2>2. y + (W - e) \notin AllOnes
    BY <1>2, <1>3, <1>12
  <2>3. y + (W - e) \notin low
    BY <1>10, <2>2
  <2>4. y - e \in own <=> b \in m[s][k]
    BY <1>4, <2>1
  <2>5. y \in LeftWord(m, s, shift, n, j) <=> c \in Bits(m[s], n)
    BY <1>5, <1>8, <1>11, <2>3, <2>4
  <2> QED BY <1>9, <2>5 DEF x, y, o
<1>13. CASE b + e \notin AllOnes
  <2>1. j - 1 = k /\ y + (W - e) = b /\ j > 0 /\ e # 0
    BY <1>2, <1>3, <1>13
  <2>2. y - e \notin AllOnes
    BY <1>2, <1>3, <1>13
  <2>3. y - e \notin own
    BY <1>10, <2>2
  <2>4. y + (W - e) \in low <=> b \in m[s][k]
    BY <2>1
  <2>5. y \in LeftWord(m, s, shift, n, j) <=> c \in Bits(m[s], n)
    BY <1>5, <1>8, <1>11, <2>3, <2>4
  <2> QED BY <1>9, <2>5 DEF x, y, o
<1> QED BY <1>12, <1>13

(* Nothing comes into the bits below the shift. *)
LEMMA LeftNone ==
    ASSUME NEW n \in Nat \ {0}, NEW shift \in 0..n, NEW m \in Memories(n), NEW s \in Masks,
           NEW c \in 0..n - 1
    PROVE  /\ BITOP_WORD(c) < Off(shift) => c < shift
           /\ BITOP_WORD(c) >= Off(shift) /\ c < shift =>
                 BITOP_BIT(c) \notin LeftWord(m, s, shift, n, BITOP_WORD(c) - Off(shift))
<1> DEFINE W == BITS_PER_LONG
           k == BITOP_WORD(c)
           b == BITOP_BIT(c)
           o == Off(shift)
           e == Rem(shift)
           u == W * k
           v == W * o
<1>1. W \in Nat \ {0} /\ AllOnes = 0..W - 1
  BY WordAssumption DEF AllOnes
<1>c. c \in Nat
  OBVIOUS
<1>2. k \in Nat /\ b \in 0..W - 1 /\ c = u + b
  BY <1>c, <1>1, DivMod DEF BITOP_WORD, BITOP_BIT
<1>3. o \in Nat /\ e \in 0..W - 1 /\ shift = v + e
  BY <1>1, OffLemma
<1>4. u \in Nat /\ v \in Nat
  BY <1>1, <1>2, <1>3, SMTT(30)
<1>5. k < o => u + W <= v
  BY <1>1, <1>2, <1>3, WordOrder
<1>6. o < k => v + W <= u
  BY <1>1, <1>2, <1>3, WordOrder
<1>7. k = o => u = v
  OBVIOUS
<1> HIDE DEF W, k, b, o, e, u, v
<1>8. k < o => c < shift
  BY <1>1, <1>2, <1>3, <1>4, <1>5
<1>9. ASSUME k >= o, c < shift PROVE b \notin LeftWord(m, s, shift, n, k - o)
  <2>1. ~(o < k)
    BY <1>1, <1>2, <1>3, <1>4, <1>6, <1>9
  <2>2. k = o
    BY <1>2, <1>3, <1>9, <2>1
  <2>3. b < e
    BY <1>1, <1>2, <1>3, <1>4, <1>7, <1>9, <2>2
  <2>4. k - o = 0 /\ ~(0 > 0)
    BY <1>2, <2>2
  <2> DEFINE own == m[s][0] \cap Valid(n, 0)
  <2>5. LeftWord(m, s, shift, n, 0) \subseteq Shr({}, W - e) \cup Shl(own, e)
    BY <2>4 DEF LeftWord, W, e
  <2>6. Shr({}, W - e) = {}
    BY DEF Shr
  <2>7. own \subseteq AllOnes
    BY ValidBits
  <2>8. b - e \notin AllOnes
    BY <1>1, <1>2, <1>3, <2>3
  <2>9. b \in Shl(own, e) <=> b - e \in own
    <3>1. e \in 0..W /\ b \in AllOnes
      BY <1>1, <1>2, <1>3
    <3> HIDE DEF own
    <3> QED BY <2>7, <3>1, ShlIn DEF W
  <2>10. b \notin Shl(own, e)
    BY <2>7, <2>8, <2>9
  <2> QED BY <2>4, <2>5, <2>6, <2>10
<1> QED BY <1>8, <1>9 DEF k, b, o

(* The loop that clears the words nothing was shifted into. *)
LEMMA ClearLemma ==
    ASSUME NEW n \in Nat \ {0}, NEW m \in Memories(n), NEW d \in Masks, NEW ks
    PROVE  /\ ClearWords(m, d, ks) \in Memories(n)
           /\ \A r \in Masks \ {d} : ClearWords(m, d, ks)[r] = m[r]
           /\ \A k \in Words(n) : ClearWords(m, d, ks)[d][k] = IF k \in ks THEN {} ELSE m[d][k]
<1>1. m \in [Masks -> Bitmaps(n)] /\ m[d] \in Bitmaps(n)
  BY DEF Memories
<1> DEFINE map == [k \in DOMAIN m[d] |-> IF k \in ks THEN {} ELSE m[d][k]]
<1>2. map \in Bitmaps(n) /\ \A k \in Words(n) : map[k] = IF k \in ks THEN {} ELSE m[d][k]
  BY <1>1 DEF Bitmaps
<1>3. ClearWords(m, d, ks) = [m EXCEPT ![d] = map]
  BY DEF ClearWords
<1> HIDE DEF map
<1> QED BY <1>1, <1>2, <1>3 DEF Memories

(* After a shift only d has changed, it has no unused bits, and it stands  *)
(* for the cpus in set.                                                    *)
Clean(map, n) == \A k \in Words(n) : map[k] \subseteq Valid(n, k)

Shifted(out, m, d, n, set) ==
    /\ out \in Memories(n)
    /\ \A r \in Masks \ {d} : out[r] = m[r]
    /\ Clean(out[d], n)
    /\ Bits(out[d], n) = set

(* The shifts of bitmaps of several words. *)
LEMMA LongShiftRight ==
    ASSUME NEW n \in Nat \ {0}, NEW shift \in 0..n, NEW m \in Memories(n),
           NEW d \in Masks, NEW s \in Masks
    PROVE  Shifted(__bitmap_shift_right(m, d, s, shift, n), m, d, n,
                   {c - shift : c \in {x \in Bits(m[s], n) : x >= shift}})
<1> DEFINE out == __bitmap_shift_right(m, d, s, shift, n)
           L == BITS_TO_LONGS(n)
           o == Off(shift)
           ks == (L - o)..(L - 1)
<1>1. PICK res : RightDone(res, m, d, s, shift, n)
  BY RightLoop
<1>r. /\ res \in Memories(n)
      /\ out = ClearWords(res, d, ks)
      /\ \A r \in Masks \ {d} : res[r] = m[r]
      /\ \A k \in 0..L - o - 1 : res[d][k] = RightWord(m, s, shift, n, k)
  BY <1>1 DEF RightDone
<1>2. /\ L \in Nat \ {0} /\ o \in Nat /\ L - o \in Nat
      /\ Words(n) = 0..L - 1
  BY OffLemma DEF Words
<1> HIDE DEF out
<1>3. /\ out \in Memories(n)
      /\ \A r \in Masks \ {d} : out[r] = m[r]
      /\ \A k \in Words(n) : out[d][k] = IF k \in ks THEN {} ELSE res[d][k]
  <2> DEFINE z == ClearWords(res, d, ks)
  <2>1. /\ z \in Memories(n)
        /\ \A r \in Masks \ {d} : z[r] = res[r]
        /\ \A k \in Words(n) : z[d][k] = IF k \in ks THEN {} ELSE res[d][k]
    <3> HIDE DEF ks
    <3> QED BY <1>r, ClearLemma
  <2>2. out = z
    BY <1>r
  <2> HIDE DEF z, ks
  <2> QED BY <1>r, <2>1, <2>2
<1>4. \A k \in Words(n) : out[d][k] = IF k < L - o THEN RightWord(m, s, shift, n, k) ELSE {}
  <2>1. \A k \in Words(n) : /\ k < L - o => k \notin ks /\ k \in 0..L - o - 1
                            /\ ~(k < L - o) => k \in ks
    BY <1>2
  <2> HIDE DEF ks
  <2> QED BY <1>r, <1>3, <2>1
<1>5. \A k \in Words(n) : out[d][k] \subseteq Valid(n, k)
  BY <1>4 DEF RightWord
<1>6. ASSUME NEW c \in 0..n - 1 PROVE c \in Bits(out[d], n) <=> c + shift \in Bits(m[s], n)
  <2> DEFINE k == BITOP_WORD(c)
  <2>1. k \in Words(n)
    BY CpuBits
  <2>2. c \in Bits(out[d], n) <=> BITOP_BIT(c) \in out[d][k]
    BY BitsIn
  <2>3. CASE k < L - o
    BY <1>4, <2>1, <2>2, <2>3, RightBit
  <2>4. CASE ~(k < L - o)
    <3>1. c \notin Bits(out[d], n)
      BY <1>4, <2>1, <2>2, <2>4
    <3>2. c \in Nat /\ shift \in Nat /\ k \in Nat
      BY <1>2, <2>1
    <3>3. BITOP_WORD(c + shift) \in {o + k, o + k + 1}
      BY <3>2, BitMoves
    <3> HIDE DEF k
    <3>4. BITOP_WORD(c + shift) \notin Words(n)
      BY <1>2, <2>4, <3>2, <3>3
    <3>5. c + shift \notin 0..n - 1
      BY <3>4, CpuBits
    <3> QED BY <3>1, <3>5, BitsIn
  <2> QED BY <2>3, <2>4
<1>7. Bits(out[d], n) = {c - shift : c \in {x \in Bits(m[s], n) : x >= shift}}
  <2>1. \A x : x \in Bits(m[s], n) \/ x \in Bits(out[d], n) => x \in 0..n - 1
    BY BitsIn
  <2>2. ASSUME NEW c \in Bits(out[d], n)
        PROVE  \E x \in Bits(m[s], n) : x >= shift /\ c = x - shift
    <3>1. c \in 0..n - 1 /\ c + shift \in Bits(m[s], n)
      BY <1>6, <2>1
    <3>2. c + shift >= shift /\ c = (c + shift) - shift
      BY <3>1
    <3> QED BY <3>1, <3>2
  <2>3. ASSUME NEW x \in Bits(m[s], n), x >= shift PROVE x - shift \in Bits(out[d], n)
    <3>1. x - shift \in 0..n - 1 /\ (x - shift) + shift = x
      BY <2>1, <2>3
    <3> QED BY <1>6, <3>1
  <2> QED BY <2>2, <2>3
<1> QED BY <1>3, <1>5, <1>7 DEF out, Shifted, Clean

(* The same away from bit 0. *)
LEMMA LongShiftLeft ==
    ASSUME NEW n \in Nat \ {0}, NEW shift \in 0..n, NEW m \in Memories(n),
           NEW d \in Masks, NEW s \in Masks
    PROVE  Shifted(__bitmap_shift_left(m, d, s, shift, n), m, d, n,
                   {c + shift : c \in Bits(m[s], n)} \cap (0..n - 1))
<1> DEFINE out == __bitmap_shift_left(m, d, s, shift, n)
           L == BITS_TO_LONGS(n)
           o == Off(shift)
           ks == 0..(o - 1)
<1>1. PICK res : LeftDone(res, m, d, s, shift, n)
  BY LeftLoop
<1>r. /\ res \in Memories(n)
      /\ out = ClearWords(res, d, ks)
      /\ \A r \in Masks \ {d} : res[r] = m[r]
      /\ \A k \in o..L - 1 : res[d][k] = LeftWord(m, s, shift, n, k - o)
  BY <1>1 DEF LeftDone
<1>2. /\ L \in Nat \ {0} /\ o \in Nat /\ L - o \in Nat
      /\ Words(n) = 0..L - 1
  BY OffLemma DEF Words
<1> HIDE DEF out
<1>3. /\ out \in Memories(n)
      /\ \A r \in Masks \ {d} : out[r] = m[r]
      /\ \A k \in Words(n) : out[d][k] = IF k \in ks THEN {} ELSE res[d][k]
  <2> DEFINE z == ClearWords(res, d, ks)
  <2>1. /\ z \in Memories(n)
        /\ \A r \in Masks \ {d} : z[r] = res[r]
        /\ \A k \in Words(n) : z[d][k] = IF k \in ks THEN {} ELSE res[d][k]
    <3> HIDE DEF ks
    <3> QED BY <1>r, ClearLemma
  <2>2. out = z
    BY <1>r
  <2> HIDE DEF z, ks
  <2> QED BY <1>r, <2>1, <2>2
<1>4. \A k \in Words(n) : out[d][k] = IF k >= o THEN LeftWord(m, s, shift, n, k - o) ELSE {}
  <2>1. \A k \in Words(n) : /\ k >= o => k \notin ks /\ k \in o..L - 1
                            /\ ~(k >= o) => k \in ks
    BY <1>2
  <2> HIDE DEF ks
  <2> QED BY <1>r, <1>3, <2>1
<1>5. \A k \in Words(n) : out[d][k] \subseteq Valid(n, k)
  <2>1. \A k \in Words(n) : (k - o) + o = k
    BY <1>2
  <2> QED BY <1>4, <2>1 DEF LeftWord
<1>6. ASSUME NEW c \in 0..n - 1
      PROVE  c \in Bits(out[d], n) <=> c >= shift /\ c - shift \in Bits(m[s], n)
  <2> DEFINE k == BITOP_WORD(c)
  <2>1. k \in Words(n)
    BY CpuBits
  <2>2. c \in Bits(out[d], n) <=> BITOP_BIT(c) \in out[d][k]
    BY BitsIn
  <2>3. CASE c >= shift
    <3> DEFINE x == c - shift
    <3>1. x \in Nat /\ x + shift = c /\ x + shift \in 0..n - 1
      BY <2>3
    <3> HIDE DEF x
    <3>2. /\ BITOP_WORD(x + shift) >= o
          /\ BITOP_BIT(x + shift) \in LeftWord(m, s, shift, n, BITOP_WORD(x + shift) - o)
                <=> x \in Bits(m[s], n)
      BY <3>1, LeftBit
    <3>3. k >= o /\ (BITOP_BIT(c) \in LeftWord(m, s, shift, n, k - o) <=> x \in Bits(m[s], n))
      BY <3>1, <3>2
    <3> QED BY <1>4, <2>1, <2>2, <2>3, <3>3 DEF x
  <2>4. CASE ~(c >= shift)
    <3>1. c < shift
      BY <2>4
    <3>2. k >= o => BITOP_BIT(c) \notin LeftWord(m, s, shift, n, k - o)
      BY <3>1, LeftNone
    <3> QED BY <1>4, <2>1, <2>2, <2>4, <3>2
  <2> QED BY <2>3, <2>4
<1>7. Bits(out[d], n) = {c + shift : c \in Bits(m[s], n)} \cap (0..n - 1)
  <2>1. \A x : x \in Bits(m[s], n) \/ x \in Bits(out[d], n) => x \in 0..n - 1
    BY BitsIn
  <2>2. ASSUME NEW c \in Bits(out[d], n) PROVE \E x \in Bits(m[s], n) : c = x + shift
    <3>1. c \in 0..n - 1 /\ c - shift \in Bits(m[s], n)
      BY <1>6, <2>1
    <3>2. c = (c - shift) + shift
      BY <3>1
    <3> QED BY <3>1, <3>2
  <2>3. ASSUME NEW x \in Bits(m[s], n), x + shift \in 0..n - 1 PROVE x + shift \in Bits(out[d], n)
    <3>1. x + shift >= shift /\ (x + shift) - shift = x
      BY <2>1
    <3> QED BY <1>6, <2>3, <3>1
  <2> QED BY <2>1, <2>2, <2>3
<1> QED BY <1>3, <1>5, <1>7 DEF out, Shifted, Clean

-----------------------------------------------------------------------------
(* The shifts as the callers see them. *)
(* In a bitmap of one word a cpu is its bit. *)
LEMMA OneWordBits ==
    ASSUME NEW n \in Nat \ {0}, n <= BITS_PER_LONG
    PROVE  /\ Words(n) = {0} /\ Valid(n, 0) = 0..n - 1 /\ BITMAP_LAST_WORD_MASK(n) = 0..n - 1
           /\ \A map : Bits(map, n) = map[0] \cap (0..n - 1)
<1>1. BITS_TO_LONGS(n) = 1 /\ BITS_PER_LONG \in Nat \ {0}
  BY OneWord, WordAssumption
<1>2. Words(n) = {0}
  BY <1>1 DEF Words
<1>3. ASSUME NEW x \in Nat, BITOP_WORD(x) = 0 PROVE BITOP_BIT(x) = x
  <2>1. x = BITS_PER_LONG * BITOP_WORD(x) + BITOP_BIT(x) /\ BITOP_BIT(x) \in Int
    BY <1>1, DivMod DEF BITOP_WORD, BITOP_BIT
  <2>2. BITS_PER_LONG * 0 = 0
    BY <1>1
  <2> QED BY <1>3, <2>1, <2>2
<1>4. \A x \in 0..n - 1 : BITOP_WORD(x) = 0 /\ BITOP_BIT(x) = x /\ x \in Valid(n, 0)
  <2> SUFFICES ASSUME NEW x \in 0..n - 1
               PROVE  BITOP_WORD(x) = 0 /\ BITOP_BIT(x) = x /\ x \in Valid(n, 0)
    OBVIOUS
  <2>1. x \in Nat
    OBVIOUS
  <2>2. BITOP_WORD(x) = 0 /\ BITOP_BIT(x) \in Valid(n, BITOP_WORD(x))
    BY <1>2, CpuBits
  <2> QED BY <1>3, <2>1, <2>2
<1>5. Valid(n, 0) = 0..n - 1
  <2>1. ASSUME NEW b \in Valid(n, 0) PROVE b \in 0..n - 1
    <3>1. PICK c \in 0..n - 1 : BITOP_WORD(c) = 0 /\ BITOP_BIT(c) = b
      BY <1>2, CpuOfBit
    <3> QED BY <1>4, <3>1
  <2> QED BY <1>4, <2>1
<1>6. BITMAP_LAST_WORD_MASK(n) = 0..n - 1
  BY <1>1, <1>5 DEF Valid
<1>7. \A map : Bits(map, n) = map[0] \cap (0..n - 1)
  BY <1>4 DEF Bits, test_bit
<1> QED BY <1>2, <1>5, <1>6, <1>7

(* The right shift of one word does not mask its source. *)
LEMMA ShiftRight ==
    ASSUME NEW n \in Nat \ {0}, NEW shift \in 0..n, NEW m \in Memories(n),
           NEW d \in Masks, NEW s \in Masks, n <= BITS_PER_LONG => Clean(m[s], n)
    PROVE  Shifted(bitmap_shift_right(m, d, s, shift, n), m, d, n,
                   {c - shift : c \in {x \in Bits(m[s], n) : x >= shift}})
<1> DEFINE out == bitmap_shift_right(m, d, s, shift, n)
           set == {c - shift : c \in {x \in Bits(m[s], n) : x >= shift}}
<1>1. CASE ~(n <= BITS_PER_LONG)
  <2>1. out = __bitmap_shift_right(m, d, s, shift, n)
    BY <1>1 DEF bitmap_shift_right
  <2> QED BY <2>1, LongShiftRight
<1>2. CASE n <= BITS_PER_LONG
  <2> DEFINE w == Shr(m[s][0], shift)
  <2>1. /\ Words(n) = {0} /\ Valid(n, 0) = 0..n - 1
        /\ \A map : Bits(map, n) = map[0] \cap (0..n - 1)
    BY <1>2, OneWordBits
  <2>2. m[s][0] \subseteq 0..n - 1 /\ Bits(m[s], n) = m[s][0]
    BY <1>2, <2>1 DEF Clean
  <2>3. w = set
    BY <2>2 DEF Shr
  <2>4. w \subseteq 0..n - 1
    <3> SUFFICES ASSUME NEW x \in m[s][0], x >= shift PROVE x - shift \in 0..n - 1
      BY DEF Shr
    <3>1. x \in 0..n - 1
      BY <2>2
    <3> QED BY <3>1
  <2>5. 0..n - 1 \subseteq AllOnes
    BY <2>1, ValidBits
  <2>6. out = [m EXCEPT ![d][0] = w]
    BY <1>2 DEF bitmap_shift_right
  <2> HIDE DEF w, out, set
  <2>7. m \in [Masks -> [Words(n) -> SUBSET AllOnes]]
    BY DEF Memories, Bitmaps
  <2>8. /\ out \in [Masks -> [Words(n) -> SUBSET AllOnes]]
        /\ \A r \in Masks \ {d} : out[r] = m[r]
        /\ out[d][0] = w
    BY <2>1, <2>4, <2>5, <2>6, <2>7
  <2>9. Clean(out[d], n)
    BY <2>1, <2>4, <2>8 DEF Clean
  <2>10. Bits(out[d], n) = set
    BY <2>1, <2>3, <2>4, <2>8
  <2> QED BY <2>8, <2>9, <2>10 DEF Shifted, Memories, Bitmaps, out, set
<1> QED BY <1>1, <1>2

(* The left shift masks what it stores. *)
LEMMA ShiftLeft ==
    ASSUME NEW n \in Nat \ {0}, NEW shift \in 0..n, NEW m \in Memories(n),
           NEW d \in Masks, NEW s \in Masks, n <= BITS_PER_LONG => Clean(m[s], n)
    PROVE  Shifted(bitmap_shift_left(m, d, s, shift, n), m, d, n,
                   {c + shift : c \in Bits(m[s], n)} \cap (0..n - 1))
<1> DEFINE out == bitmap_shift_left(m, d, s, shift, n)
           set == {c + shift : c \in Bits(m[s], n)} \cap (0..n - 1)
<1>1. CASE ~(n <= BITS_PER_LONG)
  <2>1. out = __bitmap_shift_left(m, d, s, shift, n)
    BY <1>1 DEF bitmap_shift_left
  <2> QED BY <2>1, LongShiftLeft
<1>2. CASE n <= BITS_PER_LONG
  <2> DEFINE w == Shl(m[s][0], shift) \cap BITMAP_LAST_WORD_MASK(n)
  <2>1. /\ Words(n) = {0} /\ Valid(n, 0) = 0..n - 1 /\ BITMAP_LAST_WORD_MASK(n) = 0..n - 1
        /\ \A map : Bits(map, n) = map[0] \cap (0..n - 1)
    BY <1>2, OneWordBits
  <2>2. Bits(m[s], n) = m[s][0]
    BY <1>2, <2>1 DEF Clean
  <2>5. 0..n - 1 \subseteq AllOnes
    BY <2>1, ValidBits
  <2>3. w = set /\ w \subseteq 0..n - 1
    BY <2>1, <2>2, <2>5 DEF Shl
  <2>6. out = [m EXCEPT ![d][0] = w]
    BY <1>2 DEF bitmap_shift_left
  <2> HIDE DEF w, out, set
  <2>7. m \in [Masks -> [Words(n) -> SUBSET AllOnes]]
    BY DEF Memories, Bitmaps
  <2>8. /\ out \in [Masks -> [Words(n) -> SUBSET AllOnes]]
        /\ \A r \in Masks \ {d} : out[r] = m[r]
        /\ out[d][0] = w
    BY <2>1, <2>3, <2>5, <2>6, <2>7
  <2>9. Clean(out[d], n)
    BY <2>1, <2>3, <2>8 DEF Clean
  <2>10. Bits(out[d], n) = set
    BY <2>1, <2>3, <2>8
  <2> QED BY <2>8, <2>9, <2>10 DEF Shifted, Memories, Bitmaps, out, set
<1> QED BY <1>1, <1>2

-----------------------------------------------------------------------------
(* What the invariant needs beyond the types: the masks of one word have   *)
(* no unused bits, for which bitmap_shift_right relies on its callers.     *)
MaskInv ==
    /\ TypeOK
    /\ nbits <= BITS_PER_LONG => \A r \in Masks : Unused(r) = {}

(* No unused bits, before and after a step. *)
LEMMA UnusedClean == \A r : Unused(r) = {} <=> Clean(mem[r], nbits)
  BY DEF Unused, Clean

LEMMA UnusedCleanNext == \A r : Unused(r)' = {} <=> Clean(mem'[r], nbits')
  BY DEF Unused, Clean

(* A bitmap as an operation may leave it. *)
CleanMap(map, n) == map \in Bitmaps(n) /\ Clean(map, n)

(* Unused bits appear only out of unused bits. *)
LEMMA WordOpsMaps ==
    ASSUME NEW n \in Nat \ {0}, NEW a \in Bitmaps(n), NEW b \in Bitmaps(n)
    PROVE  \A map \in {bitmap_and(a, b), bitmap_or(a, b), bitmap_xor(a, b), bitmap_andnot(a, b)} :
              /\ map \in Bitmaps(n)
              /\ Clean(a, n) /\ Clean(b, n) => Clean(map, n)
<1>1. DOMAIN a = Words(n) /\ \A k \in Words(n) : a[k] \subseteq AllOnes /\ b[k] \subseteq AllOnes
  BY DEF Bitmaps
<1>2. /\ bitmap_and(a, b) \in Bitmaps(n)
      /\ Clean(a, n) /\ Clean(b, n) => Clean(bitmap_and(a, b), n)
  BY <1>1 DEF bitmap_and, Bitmaps, Clean
<1>3. /\ bitmap_or(a, b) \in Bitmaps(n)
      /\ Clean(a, n) /\ Clean(b, n) => Clean(bitmap_or(a, b), n)
  BY <1>1 DEF bitmap_or, Bitmaps, Clean
<1>4. /\ bitmap_xor(a, b) \in Bitmaps(n)
      /\ Clean(a, n) /\ Clean(b, n) => Clean(bitmap_xor(a, b), n)
  BY <1>1 DEF bitmap_xor, Bitmaps, Clean, SymDiff
<1>5. /\ bitmap_andnot(a, b) \in Bitmaps(n)
      /\ Clean(a, n) /\ Clean(b, n) => Clean(bitmap_andnot(a, b), n)
  BY <1>1 DEF bitmap_andnot, Bitmaps, Clean
<1> QED BY <1>2, <1>3, <1>4, <1>5

(* The others leave none, whatever was there, or keep those there are. *)
LEMMA OtherOpsMaps ==
    ASSUME NEW n \in Nat \ {0}, NEW a \in Bitmaps(n)
    PROVE  /\ CleanMap(bitmap_zero(n), n) /\ CleanMap(bitmap_fill(n), n)
           /\ CleanMap(bitmap_complement(a, n), n)
           /\ \A c \in 0..n - 1 : \A map \in {set_bit(c, a), clear_bit(c, a)} :
                 map \in Bitmaps(n) /\ (Clean(a, n) => Clean(map, n))
<1>1. DOMAIN a = Words(n) /\ \A k \in Words(n) : a[k] \subseteq AllOnes
  BY DEF Bitmaps
<1>2. \A k : Valid(n, k) \subseteq AllOnes
  BY ValidBits
<1>3. CleanMap(bitmap_zero(n), n) /\ CleanMap(bitmap_fill(n), n)
  BY <1>2 DEF CleanMap, bitmap_zero, bitmap_fill, Bitmaps, Clean
<1>4. CleanMap(bitmap_complement(a, n), n)
  BY <1>1 DEF CleanMap, bitmap_complement, Bitmaps, Clean
<1>5. ASSUME NEW c \in 0..n - 1
      PROVE  /\ set_bit(c, a) \in Bitmaps(n) /\ (Clean(a, n) => Clean(set_bit(c, a), n))
             /\ clear_bit(c, a) \in Bitmaps(n) /\ (Clean(a, n) => Clean(clear_bit(c, a), n))
  <2>1. /\ BITOP_WORD(c) \in Words(n) /\ BITOP_BIT(c) \in Valid(n, BITOP_WORD(c))
        /\ BITOP_BIT(c) \in AllOnes
    BY CpuBits
  <2>2. set_bit(c, a) \in Bitmaps(n) /\ clear_bit(c, a) \in Bitmaps(n)
    BY <2>1 DEF set_bit, clear_bit, Bitmaps
  <2>3. \A k \in Words(n) : /\ set_bit(c, a)[k] \subseteq a[k] \cup Valid(n, k)
                            /\ clear_bit(c, a)[k] \subseteq a[k]
    BY <1>1, <2>1 DEF set_bit, clear_bit
  <2> QED BY <2>2, <2>3 DEF Clean
<1> QED BY <1>3, <1>4, <1>5

(* What a call does to the memory: the destination only, to a bitmap that  *)
(* has unused bits only if there were some before.                         *)
Kept(d) ==
    /\ UNCHANGED nbits
    /\ mem' \in Memories(nbits)
    /\ \A r \in Masks \ {d} : mem'[r] = mem[r]
    /\ (\A r \in Masks : Clean(mem[r], nbits)) => Clean(mem'[d], nbits)

(* Every operation but the shifts stores one bitmap. *)
LEMMA StoreKeeps ==
    ASSUME TypeOK, NEW d \in Masks, NEW map \in Bitmaps(nbits), Store(d, map),
           (\A r \in Masks : Clean(mem[r], nbits)) => Clean(map, nbits)
    PROVE  Kept(d)
<1>1. mem \in [Masks -> Bitmaps(nbits)]
  BY SizeLemma DEF Memories
<1>2. mem' = [mem EXCEPT ![d] = map] /\ UNCHANGED nbits
  BY DEF Store
<1> QED BY <1>1, <1>2 DEF Kept, Memories

(* Every call is like this. *)
LEMMA StepKeeps ==
    ASSUME MaskInv, Next
    PROVE  \E d \in Masks : Kept(d)
<1> USE DEF MaskInv
<1>1. nbits \in Nat \ {0} /\ mem \in Memories(nbits) /\ \A r \in Masks : mem[r] \in Bitmaps(nbits)
  BY SizeLemma DEF Memories
<1>2. nbits <= BITS_PER_LONG => \A r \in Masks : Clean(mem[r], nbits)
  BY UnusedClean
<1> SUFFICES ASSUME NEW d \in Masks,
                    \/ cpus_setall(d) \/ cpus_clear(d)
                    \/ \E c \in AllCpus : cpu_set(c, d) \/ cpu_clear(c, d) \/ Store(d, cpumask_of_cpu(c))
                    \/ \E a \in Masks :
                          \/ cpus_complement(d, a)
                          \/ \E n \in Shifts : cpus_shift_right(d, a, n) \/ cpus_shift_left(d, a, n)
                          \/ \E b \in Masks : \/ cpus_and(d, a, b) \/ cpus_or(d, a, b)
                                              \/ cpus_xor(d, a, b) \/ cpus_andnot(d, a, b)
             PROVE  Kept(d)
  BY DEF Next
<1>3. CASE cpus_setall(d)
  <2>1. CleanMap(bitmap_fill(nbits), nbits)
    BY <1>1, OtherOpsMaps
  <2> QED BY <1>3, <2>1, StoreKeeps DEF cpus_setall, CleanMap
<1>4. CASE cpus_clear(d)
  <2>1. CleanMap(bitmap_zero(nbits), nbits)
    BY <1>1, OtherOpsMaps
  <2> QED BY <1>4, <2>1, StoreKeeps DEF cpus_clear, CleanMap
<1>5. ASSUME NEW c \in AllCpus, cpu_set(c, d) \/ cpu_clear(c, d) PROVE Kept(d)
  <2>1. c \in 0..nbits - 1
    BY DEF AllCpus
  <2>2. /\ set_bit(c, mem[d]) \in Bitmaps(nbits) /\ clear_bit(c, mem[d]) \in Bitmaps(nbits)
        /\ Clean(mem[d], nbits) => /\ Clean(set_bit(c, mem[d]), nbits)
                                   /\ Clean(clear_bit(c, mem[d]), nbits)
    BY <1>1, <2>1, OtherOpsMaps
  <2>3. CASE cpu_set(c, d)
    BY <2>2, <2>3, StoreKeeps DEF cpu_set
  <2>4. CASE cpu_clear(c, d)
    BY <2>2, <2>4, StoreKeeps DEF cpu_clear
  <2> QED BY <1>5, <2>3, <2>4
<1>6. ASSUME NEW c \in AllCpus, Store(d, cpumask_of_cpu(c)) PROVE Kept(d)
  <2>1. cpumask_of_cpu(c) \in Bitmaps(nbits) /\ Clean(cpumask_of_cpu(c), nbits)
    BY <1>1, OfCpuExact DEF Clean
  <2> HIDE DEF MaskInv
  <2>2. TypeOK
    BY DEF MaskInv
  <2> QED BY <1>6, <2>1, <2>2, StoreKeeps
<1>7. ASSUME NEW a \in Masks, cpus_complement(d, a) PROVE Kept(d)
  <2>1. CleanMap(bitmap_complement(mem[a], nbits), nbits)
    BY <1>1, OtherOpsMaps
  <2> QED BY <1>7, <2>1, StoreKeeps DEF cpus_complement, CleanMap
<1>8. ASSUME NEW a \in Masks, NEW n \in Shifts, cpus_shift_right(d, a, n) \/ cpus_shift_left(d, a, n)
      PROVE  Kept(d)
  <2>1. n \in 0..nbits
    BY <1>1 DEF Shifts
  <2>2. CASE cpus_shift_right(d, a, n)
    <3>1. mem' = bitmap_shift_right(mem, d, a, n, nbits) /\ UNCHANGED nbits
      BY <2>2 DEF cpus_shift_right
    <3>2. Shifted(bitmap_shift_right(mem, d, a, n, nbits), mem, d, nbits,
                  {c - n : c \in {x \in Bits(mem[a], nbits) : x >= n}})
      BY <1>1, <1>2, <2>1, ShiftRight
    <3> QED BY <3>1, <3>2 DEF Shifted, Kept
  <2>3. CASE cpus_shift_left(d, a, n)
    <3>1. mem' = bitmap_shift_left(mem, d, a, n, nbits) /\ UNCHANGED nbits
      BY <2>3 DEF cpus_shift_left
    <3>2. Shifted(bitmap_shift_left(mem, d, a, n, nbits), mem, d, nbits,
                  {c + n : c \in Bits(mem[a], nbits)} \cap (0..nbits - 1))
      BY <1>1, <1>2, <2>1, ShiftLeft
    <3> QED BY <3>1, <3>2 DEF Shifted, Kept
  <2> QED BY <1>8, <2>2, <2>3
<1>9. ASSUME NEW a \in Masks, NEW b \in Masks,
             cpus_and(d, a, b) \/ cpus_or(d, a, b) \/ cpus_xor(d, a, b) \/ cpus_andnot(d, a, b)
      PROVE  Kept(d)
  <2> DEFINE maps == {bitmap_and(mem[a], mem[b]), bitmap_or(mem[a], mem[b]),
                      bitmap_xor(mem[a], mem[b]), bitmap_andnot(mem[a], mem[b])}
  <2>1. \A map \in maps : /\ map \in Bitmaps(nbits)
                          /\ Clean(mem[a], nbits) /\ Clean(mem[b], nbits) => Clean(map, nbits)
    BY <1>1, WordOpsMaps
  <2>2. \E map \in maps : Store(d, map)
    BY <1>9 DEF cpus_and, cpus_or, cpus_xor, cpus_andnot
  <2> HIDE DEF maps
  <2> QED BY <2>1, <2>2, StoreKeeps
<1> QED BY <1>3, <1>4, <1>5, <1>6, <1>7, <1>8, <1>9

(* MaskInv is inductive. *)
LEMMA Invariant == Spec => []MaskInv
<1>1. Init => MaskInv
  BY DEF Init, MaskInv, TypeOK
<1>2. ASSUME MaskInv, [Next]_vars PROVE MaskInv'
  <2>1. CASE UNCHANGED vars
    BY <1>2, <2>1 DEF vars, MaskInv, TypeOK, Unused
  <2>2. CASE Next
    <3>1. PICK d \in Masks : Kept(d)
      BY <1>2, <2>2, StepKeeps
    <3>2. nbits' = nbits /\ mem' \in Memories(nbits)
      BY <3>1 DEF Kept
    <3>3. TypeOK'
      BY <1>2, <3>2 DEF MaskInv, TypeOK, Memories, Bitmaps
    <3>4. nbits <= BITS_PER_LONG => \A r \in Masks : Clean(mem'[r], nbits)
      BY <1>2, <3>1, UnusedClean DEF MaskInv, Kept
    <3>5. nbits' <= BITS_PER_LONG => \A r \in Masks : Unused(r)' = {}
      BY <3>2, <3>4, UnusedCleanNext
    <3> QED BY <3>3, <3>5 DEF MaskInv
  <2> QED BY <1>2, <2>1, <2>2
<1> QED BY <1>1, <1>2, PTL DEF Spec

-----------------------------------------------------------------------------
(* For every length of a word, every number of cpus and whatever the       *)
(* memory held at first, the operations of cpumask.h compute and decide on *)
(* the words of the masks what the set operations do on the cpus.          *)
THEOREM MasksAlwaysSets == Spec => []MasksAreSets
<1>1. MaskInv => MasksAreSets
  BY OpsLemma, PredicatesLemma DEF MaskInv, MasksAreSets
<1> QED BY <1>1, Invariant, PTL

(* The loops of __bitmap_shift_right and __bitmap_shift_left, and the one  *)
(* word versions of bitmap.h, move every cpu by n, lose those that leave   *)
(* the mask and touch no other mask, the destination being a source or     *)
(* not.                                                                    *)
THEOREM ShiftsAlwaysExact == Spec => []ShiftsExact
<1>1. ASSUME MaskInv PROVE ShiftsExact
  <2>1. nbits \in Nat \ {0} /\ mem \in Memories(nbits)
    BY <1>1, SizeLemma DEF MaskInv
  <2>2. nbits <= BITS_PER_LONG => \A r \in Masks : Clean(mem[r], nbits)
    BY <1>1, UnusedClean DEF MaskInv
  <2>3. \A n \in Shifts : n \in 0..nbits
    BY <2>1 DEF Shifts
  <2> DEFINE right(d, a, n) == bitmap_shift_right(mem, d, a, n, nbits)
             left(d, a, n)  == bitmap_shift_left(mem, d, a, n, nbits)
  <2>4. ASSUME NEW d \in Masks, NEW a \in Masks, NEW n \in Shifts
        PROVE  /\ Bits(right(d, a, n)[d], nbits) = {c - n : c \in {x \in Set(a) : x >= n}}
               /\ Bits(left(d, a, n)[d], nbits) = {c + n : c \in Set(a)} \cap AllCpus
               /\ \A r \in Masks \ {d} : right(d, a, n)[r] = mem[r] /\ left(d, a, n)[r] = mem[r]
    <3>1. Shifted(right(d, a, n), mem, d, nbits,
                  {c - n : c \in {x \in Bits(mem[a], nbits) : x >= n}})
      BY <2>1, <2>2, <2>3, ShiftRight
    <3>2. Shifted(left(d, a, n), mem, d, nbits,
                  {c + n : c \in Bits(mem[a], nbits)} \cap (0..nbits - 1))
      BY <2>1, <2>2, <2>3, ShiftLeft
    <3> HIDE DEF right, left
    <3> QED BY <3>1, <3>2 DEF Shifted, Set, AllCpus
  <2> HIDE DEF right, left
  <2>5. ShiftsExact <=>
          \A d, a \in Masks, n \in Shifts :
             /\ Bits(right(d, a, n)[d], nbits) = {c - n : c \in {x \in Set(a) : x >= n}}
             /\ Bits(left(d, a, n)[d], nbits) = {c + n : c \in Set(a)} \cap AllCpus
             /\ \A r \in Masks \ {d} : right(d, a, n)[r] = mem[r] /\ left(d, a, n)[r] = mem[r]
    BY Zenon DEF ShiftsExact, right, left
  <2> QED BY <2>4, <2>5, Zenon
<1> QED BY <1>1, Invariant, PTL

(* An operation on masks without unused bits leaves none, in any mask:     *)
(* what bitmap.h promises of every operation.                              *)
THEOREM UnusedAlwaysClear == Spec => UnusedStayClear
<1>1. ASSUME MaskInv, [Next]_vars
      PROVE  [(\A r \in Masks : Unused(r) = {}) => \A r \in Masks : Unused(r)' = {}]_vars
  <2>1. CASE UNCHANGED vars
    BY <2>1
  <2>2. CASE Next
    <3>1. PICK d \in Masks : Kept(d)
      BY <1>1, <2>2, StepKeeps
    <3>2. ASSUME \A r \in Masks : Unused(r) = {} PROVE \A r \in Masks : Clean(mem'[r], nbits')
      BY <3>1, <3>2, UnusedClean DEF Kept
    <3> QED BY <3>2, UnusedCleanNext
  <2> QED BY <1>1, <2>1, <2>2
<1> QED BY <1>1, Invariant, PTL DEF Spec, UnusedStayClear
=============================================================================
