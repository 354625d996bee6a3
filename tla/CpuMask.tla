------------------------------- MODULE CpuMask -------------------------------
(***************************************************************************)
(* The cpumask operations (cpumask.h) on masks in memory.  A mask that was *)
(* never written holds whatever the stack held, the unused bits of its     *)
(* last word included; one action is one call, and the destination may be  *)
(* a source.  nbits is NR_CPUS; it is a variable here because the bitmap   *)
(* library claims to work for every size.                                  *)
(***************************************************************************)
EXTENDS Bitmap

CONSTANTS
    Masks,   \* cpumask_t variables
    Sizes    \* the values of NR_CPUS to try

ASSUME SizesAssumption == Sizes \subseteq Nat \ {0}

VARIABLES mem, nbits

vars == <<mem, nbits>>

AllCpus == 0..nbits - 1
Unused(r) == {k \in Words(nbits) : mem[r][k] \ Valid(nbits, k) # {}}

(* An uninitialised one word mask with set unused bits is left out: see    *)
(* bitmap_shift_right.                                                     *)
Init == /\ nbits \in Sizes
        /\ mem \in [Masks -> [Words(nbits) -> SUBSET AllOnes]]
        /\ nbits <= BITS_PER_LONG => \A r \in Masks : Unused(r) = {}

Store(d, map) == mem' = [mem EXCEPT ![d] = map] /\ UNCHANGED nbits

cpu_set(c, d)        == Store(d, set_bit(c, mem[d]))
cpu_clear(c, d)      == Store(d, clear_bit(c, mem[d]))
cpus_setall(d)       == Store(d, bitmap_fill(nbits))
cpus_clear(d)        == Store(d, bitmap_zero(nbits))
cpus_and(d, a, b)    == Store(d, bitmap_and(mem[a], mem[b]))
cpus_or(d, a, b)     == Store(d, bitmap_or(mem[a], mem[b]))
cpus_xor(d, a, b)    == Store(d, bitmap_xor(mem[a], mem[b]))
cpus_andnot(d, a, b) == Store(d, bitmap_andnot(mem[a], mem[b]))
cpus_complement(d, a) == Store(d, bitmap_complement(mem[a], nbits))
cpus_shift_right(d, a, n) == mem' = bitmap_shift_right(mem, d, a, n, nbits) /\ UNCHANGED nbits
cpus_shift_left(d, a, n)  == mem' = bitmap_shift_left(mem, d, a, n, nbits) /\ UNCHANGED nbits

(* Every bit of a mask of one word, else cpus_clear and cpu_set. *)
cpumask_of_cpu(c) ==
    IF BITS_TO_LONGS(nbits) = 1 THEN [k \in {0} |-> {c}]
    ELSE set_bit(c, bitmap_zero(nbits))

(* A word cannot be shifted by its whole length. *)
Shifts == 0..(IF nbits <= BITS_PER_LONG THEN nbits - 1 ELSE nbits)

Next == \E d \in Masks :
            \/ cpus_setall(d) \/ cpus_clear(d)
            \/ \E c \in AllCpus : cpu_set(c, d) \/ cpu_clear(c, d) \/ Store(d, cpumask_of_cpu(c))
            \/ \E a \in Masks :
                  \/ cpus_complement(d, a)
                  \/ \E n \in Shifts : cpus_shift_right(d, a, n) \/ cpus_shift_left(d, a, n)
                  \/ \E b \in Masks : \/ cpus_and(d, a, b) \/ cpus_or(d, a, b)
                                       \/ cpus_xor(d, a, b) \/ cpus_andnot(d, a, b)

Spec == Init /\ [][Next]_vars
-----------------------------------------------------------------------------
(* The cpus of a mask. *)
Set(r) == Bits(mem[r], nbits)

(* Types: masks have as many words as nbits needs, and words hold no more  *)
(* bits than a word has.                                                   *)
TypeOK == nbits \in Sizes /\ mem \in [Masks -> [Words(nbits) -> SUBSET AllOnes]]

(* "The possible unused bits in the last, partially used word of a bitmap  *)
(* are 'don't care' ... their value will not affect the results of any     *)
(* operation": whatever is in memory, every operation computes on the cpus *)
(* of its sources what its name says.                                      *)
OpsExact ==
    LET Is(map, s) == Bits(map, nbits) = s
    IN  /\ \A a, b \in Masks :
              /\ Is(bitmap_and(mem[a], mem[b]), Set(a) \cap Set(b))
              /\ Is(bitmap_or(mem[a], mem[b]), Set(a) \cup Set(b))
              /\ Is(bitmap_xor(mem[a], mem[b]), SymDiff(Set(a), Set(b)))
              /\ Is(bitmap_andnot(mem[a], mem[b]), Set(a) \ Set(b))
        /\ \A a \in Masks :
              /\ Is(bitmap_complement(mem[a], nbits), AllCpus \ Set(a))
              /\ \A c \in AllCpus : /\ Is(set_bit(c, mem[a]), Set(a) \cup {c})
                                    /\ Is(clear_bit(c, mem[a]), Set(a) \ {c})
                                    /\ Is(cpumask_of_cpu(c), {c})
        /\ Is(bitmap_zero(nbits), {}) /\ Is(bitmap_fill(nbits), AllCpus)

(* Shifts move every cpu by n and lose those that leave the mask; they     *)
(* touch no other mask; and they are right also in place, as               *)
(* __bitmap_parse calls them.                                              *)
ShiftsExact ==
    \A d, a \in Masks, n \in Shifts :
        LET right == bitmap_shift_right(mem, d, a, n, nbits)
            left  == bitmap_shift_left(mem, d, a, n, nbits)
        IN  /\ Bits(right[d], nbits) = {c - n : c \in {x \in Set(a) : x >= n}}
            /\ Bits(left[d], nbits) = {c + n : c \in Set(a)} \cap AllCpus
            /\ \A r \in Masks \ {d} : right[r] = mem[r] /\ left[r] = mem[r]

(* "The bitmap operations that return Boolean or scalar results carefully  *)
(* filter out these unused bits": cpus_equal decides in the cpu tree       *)
(* whether two cpus share a cache or a package.                            *)
PredicatesExact ==
    \A a, b \in Masks :
        /\ bitmap_equal(mem[a], mem[b], nbits) <=> Set(a) = Set(b)
        /\ bitmap_intersects(mem[a], mem[b], nbits) <=> Set(a) \cap Set(b) # {}
        /\ nbits <= BITS_PER_LONG => (bitmap_subset(mem[a], mem[b], nbits) <=> Set(a) \subseteq Set(b))
        /\ bitmap_empty(mem[a], nbits) <=> Set(a) = {}
        /\ bitmap_full(mem[a], nbits) <=> Set(a) = AllCpus
        /\ bitmap_weight(mem[a], nbits) = Cardinality(Set(a))

(* Masks are sets of cpus: the operations compute and decide what the set  *)
(* operations do, so that every other module may take a mask for a set.    *)
MasksAreSets == TypeOK /\ OpsExact /\ PredicatesExact

(* "if you don't input any bitmaps to these ops that have some unused bits *)
(* set, then they won't output any set unused bits in output bitmaps".     *)
UnusedStayClear ==
    [][(\A r \in Masks : Unused(r) = {}) => \A r \in Masks : Unused(r)' = {}]_vars
=============================================================================
