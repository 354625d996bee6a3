------------------------------- MODULE Bitmap -------------------------------
(***************************************************************************)
(* Bitmaps as arrays of words (bitmap.h, bitmap.c, non-atomic.h).  A word  *)
(* is the set of its bits that are set, a bitmap a function from word      *)
(* numbers to words.  The shifts run over the words in the order of the    *)
(* code's loops and on the memory itself, because callers pass the same    *)
(* bitmap as source and destination.                                       *)
(***************************************************************************)
EXTENDS Integers, FiniteSetsExt, SequencesExt

CONSTANT BITS_PER_LONG   \* 64 or 32

ASSUME WordAssumption == BITS_PER_LONG \in Nat \ {0}

AllOnes  == 0..BITS_PER_LONG - 1             \* ~0UL
LowBits(n) == 0..n - 1                       \* (1UL << n) - 1
Shl(w, n) == {b + n : b \in w} \cap AllOnes  \* w << n
Shr(w, n) == {b - n : b \in {x \in w : x >= n}}

BITS_TO_LONGS(bits) == (bits + BITS_PER_LONG - 1) \div BITS_PER_LONG
Words(nbits) == 0..BITS_TO_LONGS(nbits) - 1
BITMAP_LAST_WORD_MASK(nbits) ==
    IF nbits % BITS_PER_LONG # 0 THEN LowBits(nbits % BITS_PER_LONG) ELSE AllOnes

(* The bits of word k that belong to a bitmap of nbits bits: all of them,  *)
(* except in a last word that is only partly used.                         *)
Valid(nbits, k) ==
    IF k = BITS_TO_LONGS(nbits) - 1 THEN BITMAP_LAST_WORD_MASK(nbits) ELSE AllOnes

hweight_long(w) == Cardinality(w)
fls(w) == IF w = {} THEN 0 ELSE Max(w) + 1

-----------------------------------------------------------------------------
(* Single bits. *)
BITOP_WORD(nr) == nr \div BITS_PER_LONG
BITOP_BIT(nr)  == nr % BITS_PER_LONG

set_bit(nr, map)   == [map EXCEPT ![BITOP_WORD(nr)] = @ \cup {BITOP_BIT(nr)}]
clear_bit(nr, map) == [map EXCEPT ![BITOP_WORD(nr)] = @ \ {BITOP_BIT(nr)}]
test_bit(nr, map)  == BITOP_BIT(nr) \in map[BITOP_WORD(nr)]

-----------------------------------------------------------------------------
(* Word by word operations.  Up to one word they are written out in        *)
(* bitmap.h, beyond that they are loops in bitmap.c; both do this.         *)
bitmap_zero(nbits) == [k \in Words(nbits) |-> {}]
bitmap_fill(nbits) == [k \in Words(nbits) |-> Valid(nbits, k)]
bitmap_and(a, b)    == [k \in DOMAIN a |-> a[k] \cap b[k]]
bitmap_or(a, b)     == [k \in DOMAIN a |-> a[k] \cup b[k]]
bitmap_xor(a, b)    == [k \in DOMAIN a |-> SymDiff(a[k], b[k])]
bitmap_andnot(a, b) == [k \in DOMAIN a |-> a[k] \cap (AllOnes \ b[k])]

(* Mutant: the last word is not masked. *)
ComplementAll(a, nbits) == [k \in DOMAIN a |-> AllOnes \ a[k]]

bitmap_complement(a, nbits) == [k \in DOMAIN a |-> (AllOnes \ a[k]) \cap Valid(nbits, k)]

(* Mutant: the unused bits are compared too. *)
EqualWords(a, b, nbits) == a = b

bitmap_equal(a, b, nbits) ==
    \A k \in Words(nbits) : SymDiff(a[k], b[k]) \cap Valid(nbits, k) = {}
bitmap_intersects(a, b, nbits) ==
    \E k \in Words(nbits) : a[k] \cap b[k] \cap Valid(nbits, k) # {}
bitmap_empty(a, nbits) == \A k \in Words(nbits) : a[k] \cap Valid(nbits, k) = {}
bitmap_full(a, nbits)  == \A k \in Words(nbits) : Valid(nbits, k) \ a[k] = {}
bitmap_weight(a, nbits) ==
    MapThenSumSet(LAMBDA k : hweight_long(a[k] \cap Valid(nbits, k)), Words(nbits))

(* Only for one word: the function for longer bitmaps is declared and      *)
(* nowhere defined.                                                        *)
bitmap_subset(a, b, nbits) == (a[0] \cap (AllOnes \ b[0])) \cap Valid(nbits, 0) = {}

-----------------------------------------------------------------------------
(* Runs body(mem, k), the new value of word dst(k) of bitmap d, over the   *)
(* word numbers ks in their order.                                         *)
Loop(mem, d, ks, dst(_), body(_, _)) ==
    FoldLeft(LAMBDA m, k : [m EXCEPT ![d][dst(k)] = body(m, k)], mem, ks)

ClearWords(mem, d, ks) == [mem EXCEPT ![d] = [k \in DOMAIN @ |-> IF k \in ks THEN {} ELSE @[k]]]

(* Bitmap d becomes bitmap s shifted towards bit 0. *)
__bitmap_shift_right(mem, d, s, shift, bits) ==
    LET lim == BITS_TO_LONGS(bits)
        off == shift \div BITS_PER_LONG
        rem == shift % BITS_PER_LONG
        src(m, k) == m[s][k] \cap Valid(bits, k)
        upper(m, k) == IF rem = 0 \/ off + k + 1 >= lim THEN {} ELSE src(m, off + k + 1)
        word(m, k) == (Shl(upper(m, k), BITS_PER_LONG - rem) \cup Shr(src(m, off + k), rem))
                          \cap Valid(bits, k)
        up == [i \in 1..lim - off |-> i - 1]
    IN  ClearWords(Loop(mem, d, up, LAMBDA k : k, word), d, lim - off..lim - 1)

(* Mutant: the words are visited from the first to the last. *)
ShiftLeftUpwards(mem, d, s, shift, bits) ==
    LET lim == BITS_TO_LONGS(bits)
        off == shift \div BITS_PER_LONG
        rem == shift % BITS_PER_LONG
        lower(m, k) == IF rem # 0 /\ k > 0 THEN m[s][k - 1] ELSE {}
        word(m, k) == (Shr(lower(m, k), BITS_PER_LONG - rem)
                          \cup Shl(m[s][k] \cap Valid(bits, k), rem)) \cap Valid(bits, k + off)
        up == [i \in 1..lim - off |-> i - 1]
    IN  ClearWords(Loop(mem, d, up, LAMBDA k : k + off, word), d, 0..off - 1)

(* Bitmap d becomes bitmap s shifted away from bit 0: from the last word   *)
(* down, so that no word is read after it was written.                     *)
__bitmap_shift_left(mem, d, s, shift, bits) ==
    LET lim == BITS_TO_LONGS(bits)
        off == shift \div BITS_PER_LONG
        rem == shift % BITS_PER_LONG
        lower(m, k) == IF rem # 0 /\ k > 0 THEN m[s][k - 1] ELSE {}
        word(m, k) == (Shr(lower(m, k), BITS_PER_LONG - rem)
                          \cup Shl(m[s][k] \cap Valid(bits, k), rem)) \cap Valid(bits, k + off)
        down == [i \in 1..lim - off |-> lim - off - i]
    IN  ClearWords(Loop(mem, d, down, LAMBDA k : k + off, word), d, 0..off - 1)

(* The one word versions: the right shift does not mask its source. *)
bitmap_shift_right(mem, d, s, n, nbits) ==
    IF nbits <= BITS_PER_LONG THEN [mem EXCEPT ![d][0] = Shr(mem[s][0], n)]
    ELSE __bitmap_shift_right(mem, d, s, n, nbits)

bitmap_shift_left(mem, d, s, n, nbits) ==
    IF nbits <= BITS_PER_LONG
    THEN [mem EXCEPT ![d][0] = Shl(mem[s][0], n) \cap BITMAP_LAST_WORD_MASK(nbits)]
    ELSE __bitmap_shift_left(mem, d, s, n, nbits)

(* The bits a bitmap of nbits bits stands for. *)
Bits(map, nbits) == {c \in 0..nbits - 1 : test_bit(c, map)}
=============================================================================
