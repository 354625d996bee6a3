-------------------------------- MODULE GList --------------------------------
(***************************************************************************)
(* The list library (glib/glist.c) on cells with next and prev pointers.   *)
(* A heap is [cell, bad]: the contents of every cell, and whether a cell   *)
(* that is not allocated was ever written or freed.  What is read from     *)
(* such a cell is Junk, and a loop that meets Junk ends.  A loop or a      *)
(* recursion of the code is a function of the number of its steps.         *)
(***************************************************************************)
EXTENDS Integers, FiniteSets, SequencesExt

CONSTANTS Cells, Irqs, NULL, Junk     \* the data of a cell is an irq

Pointers == Cells \cup {NULL, Junk}
CellType == [live : BOOLEAN, data : Irqs \cup {Junk}, next : Pointers, prev : Pointers]
Heaps    == [cell : [Cells -> CellType], bad : BOOLEAN]

(* As many steps as it takes to go through every cell and notice a circle. *)
Bound == 1 + Cardinality(Cells)

FreeCell == [live |-> FALSE, data |-> Junk, next |-> Junk, prev |-> Junk]
NewHeap  == [cell |-> [c \in Cells |-> FreeCell], bad |-> FALSE]

IsLive(h, p) == p \in Cells /\ h.cell[p].live
Cell(h, p)   == IF p \in Cells THEN h.cell[p] ELSE FreeCell
next(h, p)   == Cell(h, p).next
prev(h, p)   == Cell(h, p).prev

SetNext(h, p, v) == IF IsLive(h, p) THEN [h EXCEPT !.cell[p].next = v] ELSE [h EXCEPT !.bad = TRUE]
SetPrev(h, p, v) == IF IsLive(h, p) THEN [h EXCEPT !.cell[p].prev = v] ELSE [h EXCEPT !.bad = TRUE]

free(h, p) == IF p = NULL THEN h
              ELSE IF IsLive(h, p) THEN [h EXCEPT !.cell[p] = FreeCell]
              ELSE [h EXCEPT !.bad = TRUE]

(* The cells from p on, as far as there are cells to go to. *)
Chain(h, p) ==
    LET from[n \in 0..Bound] ==
            [q \in Pointers |-> IF n = 0 \/ q \notin Cells THEN <<>> ELSE <<q>> \o from[n - 1][next(h, q)]]
    IN  from[Bound][p]

Data(h, p) == LET c == Chain(h, p) IN [k \in DOMAIN c |-> h.cell[c[k]].data]

-----------------------------------------------------------------------------
g_list_length(h, list) == Len(Chain(h, list))

g_list_last(h, list) == IF list = NULL THEN NULL ELSE Last(Chain(h, list))

g_list_first(h, list) ==
    LET at[n \in 0..Bound] ==
            IF n = 0 THEN list
            ELSE LET p == at[n - 1] IN IF prev(h, p) \in Cells THEN prev(h, p) ELSE p
    IN  at[Bound]

g_list_find_custom(h, list, data) ==
    LET c == Chain(h, list)
        k == SelectInSeq(c, LAMBDA p : Cell(h, p).data = data)
    IN  IF k = 0 THEN NULL ELSE c[k]

(* Each of the following gives the heap and the new start of the list.     *)
(* c is the cell malloc returned.                                          *)
g_list_append(h, list, c, data) ==
    LET last == g_list_last(h, list)
        new  == [h EXCEPT !.cell[c] = [live |-> TRUE, data |-> data, next |-> NULL, prev |-> last]]
    IN  IF list = NULL THEN [heap |-> new, list |-> c]
        ELSE [heap |-> SetNext(new, last, c), list |-> list]

(* Mutant: the successor keeps its pointer back. *)
RemoveForward(h, list, link) ==
    [heap |-> IF prev(h, link) # NULL THEN SetNext(h, prev(h, link), next(h, link)) ELSE h,
     list |-> IF link = list THEN next(h, list) ELSE list]

_g_list_remove_link(h, list, link) ==
    LET h1 == IF prev(h, link) # NULL THEN SetNext(h, prev(h, link), next(h, link)) ELSE h
        h2 == IF next(h, link) # NULL THEN SetPrev(h1, next(h, link), prev(h, link)) ELSE h1
    IN  [heap |-> SetPrev(SetNext(h2, link, NULL), link, NULL),
         list |-> IF link = list THEN next(h, list) ELSE list]

g_list_delete_link(h, list, link) ==
    LET r == _g_list_remove_link(h, list, link)
    IN  [heap |-> free(r.heap, link), list |-> r.list]

(* Frees the cells from list on; next is read before the cell is freed. *)
g_list_free(h, list) ==
    LET c == Chain(h, list)
        freed[n \in 0..Len(c)] == IF n = 0 THEN h ELSE free(freed[n - 1], c[n])
    IN  freed[Len(c)]

-----------------------------------------------------------------------------
(* One turn of the merge of l1 and l2: l is the last cell of the result,   *)
(* whose start is list.                                                    *)
MergeStep(before, m) ==
    LET c == IF before[<<Cell(m.heap, m.l1).data, Cell(m.heap, m.l2).data>>] THEN m.l1 ELSE m.l2
        h == IF m.l = NULL THEN m.heap ELSE SetNext(m.heap, m.l, c)
    IN  [heap |-> SetPrev(h, c, m.l),
         l1   |-> IF c = m.l1 THEN next(m.heap, c) ELSE m.l1,
         l2   |-> IF c = m.l2 THEN next(m.heap, c) ELSE m.l2,
         l    |-> c,
         list |-> IF m.l = NULL THEN c ELSE m.list]

Merged(h, l1, l2, before) ==
    LET merged[n \in 0..Bound] ==
            IF n = 0 THEN [heap |-> h, l1 |-> l1, l2 |-> l2, l |-> NULL, list |-> NULL]
            ELSE LET m == merged[n - 1]
                 IN  IF m.l1 # NULL /\ m.l2 # NULL THEN MergeStep(before, m) ELSE m
    IN  merged[Bound]

(* Mutant: the rest keeps its pointer back. *)
MergeForward(h, l1, l2, before) ==
    LET m == Merged(h, l1, l2, before)
    IN  [heap |-> SetNext(m.heap, m.l, IF m.l1 # NULL THEN m.l1 ELSE m.l2), list |-> m.list]

(* The lists are not empty. *)
g_list_sort_merge(h, l1, l2, before) ==
    LET m    == Merged(h, l1, l2, before)
        rest == IF m.l1 # NULL THEN m.l1 ELSE m.l2
    IN  [heap |-> SetPrev(SetNext(m.heap, m.l, rest), rest, m.l), list |-> m.list]

(* Two fast steps per slow one end in the middle: the first half is the    *)
(* shorter one.  before[<<a, b>>] is compare_func(a, b) <= 0; n bounds the     *)
(* depth of the recursion.                                                 *)
g_list_sort(h, list, before) ==
    LET sort[n \in 0..Bound] ==
            [x \in Heaps \X Pointers |->
                LET c == Chain(x[1], x[2])
                IN  IF n = 0 \/ Len(c) <= 1 THEN [heap |-> x[1], list |-> x[2]]
                    ELSE LET l1 == c[Len(c) \div 2]
                             l2 == next(x[1], l1)
                             s1 == sort[n - 1][<<SetNext(x[1], l1, NULL), x[2]>>]
                             s2 == sort[n - 1][<<s1.heap, l2>>]
                         IN  g_list_sort_merge(s2.heap, s1.list, s2.list, before)]
    IN  sort[Bound][<<h, list>>]
=============================================================================
