------------------------------- MODULE IrqHeap -------------------------------
(***************************************************************************)
(* The irq lists of the daemon in memory: interrupts_db, banned_irqs and   *)
(* rebalance_irq_list (classify.c, irqlist.c), and the list interrupts of  *)
(* every topology object, built from the cells of GList.  for_each_irq     *)
(* walks a list while its callback moves irqs off it or frees them, and a  *)
(* rescan frees everything and starts again.                               *)
(*                                                                         *)
(* Which irq a callback moves, and where to, is for Balancer to say: here  *)
(* it is a free choice, within the conditions that are about lists.  An    *)
(* object is a node or lies below one; the deeper levels all work alike.   *)
(***************************************************************************)
EXTENDS GList

CONSTANTS
    Nodes, Cpus, NoList,
    Pick(_)    \* the free cells of which malloc may return one

Objs  == Nodes \cup Cpus
Lists == {"interrupts_db", "banned_irqs", "rebalance_irq_list"} \cup Objs

ASSUME CellsAssumption ==
    /\ IsFiniteSet(Cells) /\ IsFiniteSet(Irqs)
    /\ NULL # Junk /\ {NULL, Junk} \cap (Cells \cup Irqs \cup Objs) = {}
    /\ \A f \in SUBSET Cells : Pick(f) \subseteq f

ASSUME ListsAssumption ==
    /\ IsFiniteSet(Objs)
    /\ Nodes \cap Cpus = {}
    /\ {"interrupts_db", "banned_irqs", "rebalance_irq_list"} \cap Objs = {}
    /\ NoList \notin Lists

VARIABLES
    pc,        \* what the daemon is doing
    heap,      \* the cells
    head,      \* the pointer each list is known by
    info,      \* the irqs whose struct irq_info is allocated
    assigned,  \* info->assigned_obj
    walk       \* for_each_irq: [on, cb, entry]

vars == <<pc, heap, head, info, assigned, walk>>

NoWalk == [on |-> NoList, cb |-> NoList, entry |-> NULL]

Init == /\ pc = "free_irq_db"
        /\ heap = NewHeap
        /\ head = [l \in Lists |-> NULL]
        /\ info = {}
        /\ assigned = [i \in Irqs |-> NULL]
        /\ walk = NoWalk

-----------------------------------------------------------------------------
(* malloc returns a cell that is free. *)
Malloc(h) == Pick({c \in Cells : ~h.cell[c].live})

(* The list l becomes what g_list_append makes of it, in the heap h with   *)
(* the list heads hd.                                                      *)
AppendTo(h, hd, l, i) ==
    \E c \in Malloc(h) :
        LET r == g_list_append(h, hd[l], c, i)
        IN  heap' = r.heap /\ head' = [hd EXCEPT ![l] = r.list]

migrate_irq(from, to, i) ==
    LET entry == g_list_find_custom(heap, head[from], i)
        r     == g_list_delete_link(heap, head[from], entry)
    IN  IF entry = NULL THEN UNCHANGED <<heap, head>>
        ELSE AppendTo(r.heap, [head EXCEPT ![from] = r.list], to, i)

get_irq_info(i) ==
    LET entry == g_list_find_custom(heap, head["interrupts_db"], i)
    IN  IF entry # NULL THEN entry ELSE g_list_find_custom(heap, head["banned_irqs"], i)

(* sort_irqs as g_list_sort uses it: the order depends on class, load and  *)
(* address, and is a strict one.                                           *)
Before(ord) == [p \in Irqs \X Irqs |-> \E j, k \in DOMAIN ord : j < k /\ ord[j] = p[1] /\ ord[k] = p[2]]

(* The walk for_each_irq(list, cb): no list stands for interrupts_db. *)
First(h, hd, l) == g_list_first(h, IF hd[l] = NULL THEN hd["interrupts_db"] ELSE hd[l])

Begins(h, hd, l, cb) ==
    walk' = [on |-> IF hd[l] = NULL THEN "interrupts_db" ELSE l, cb |-> cb, entry |-> First(h, hd, l)]

(* Mutant: if the cell is gone, the walk starts again. *)
StepRestart ==
    walk' = [walk EXCEPT !.entry = IF IsLive(heap', walk.entry) THEN next(heap', walk.entry) ELSE head'[walk.on]]

(* entry = next, where next was read before the callback *)
Steps == walk' = [walk EXCEPT !.entry = next(heap, walk.entry)]

Visits(cb) == walk.cb = cb /\ walk.entry # NULL
Irq        == Cell(heap, walk.entry).data

-----------------------------------------------------------------------------
(* rebuild_irq_db puts an irq in the db or on the list of the banned. *)
Build(l) ==
    /\ pc = "build"
    /\ \E i \in Irqs : /\ get_irq_info(i) = NULL
                       /\ AppendTo(heap, head, l, i)
                       /\ info' = info \cup {i}
                       /\ assigned' = [assigned EXCEPT ![i] = NULL]   \* calloc
    /\ UNCHANGED <<pc, walk>>

add_one_irq_to_db == Build("interrupts_db")
add_banned_irq    == Build("banned_irqs")

(* for_each_irq(NULL, force_rebalance_irq, NULL) *)
StartRebalance ==
    /\ pc = "build" /\ pc' = "rebalance"
    /\ Begins(heap, head, "interrupts_db", "force_rebalance_irq")
    /\ UNCHANGED <<heap, head, info, assigned>>

force_rebalance_irq ==
    /\ Visits("force_rebalance_irq")
    /\ \/ UNCHANGED <<heap, head, assigned>>          \* level BALANCE_NONE
       \/ /\ IF assigned[Irq] = NULL THEN AppendTo(heap, head, "rebalance_irq_list", Irq)
             ELSE migrate_irq(assigned[Irq], "rebalance_irq_list", Irq)
          /\ assigned' = [assigned EXCEPT ![Irq] = NULL]
    /\ Steps /\ UNCHANGED <<pc, info>>

-----------------------------------------------------------------------------
(* update_migration_status: an object with more than one irq is sorted and *)
(* walked, an object that enters powersave mode is emptied.                *)
migrate_overloaded_irqs(o) ==
    /\ pc = "migrate" /\ walk = NoWalk
    /\ g_list_length(heap, head[o]) > 1
    /\ \E ord \in SetToSeqs(Irqs) :
          LET r == g_list_sort(heap, head[o], Before(ord))
              s == [head EXCEPT ![o] = r.list]
          IN  heap' = r.heap /\ head' = s /\ Begins(r.heap, s, o, "move_candidate_irqs")
    /\ UNCHANGED <<pc, info, assigned>>

Takes == migrate_irq(assigned[Irq], "rebalance_irq_list", Irq) /\ assigned' = [assigned EXCEPT ![Irq] = NULL]

move_candidate_irqs ==
    /\ Visits("move_candidate_irqs")
    /\ \/ UNCHANGED <<heap, head, assigned>>          \* hint, level or load
       \/ g_list_length(heap, head[assigned[Irq]]) > 1 /\ Takes
    /\ Steps /\ UNCHANGED <<pc, info>>

EnterPowersave(o) ==
    /\ pc = "migrate" /\ walk = NoWalk
    /\ g_list_length(heap, head[o]) > 0
    /\ Begins(heap, head, o, "force_irq_migration")
    /\ UNCHANGED <<pc, heap, head, info, assigned>>

force_irq_migration == Visits("force_irq_migration") /\ Takes /\ Steps /\ UNCHANGED <<pc, info>>

(* calculate_placement: the irqs on rebalance_irq_list go to nodes, *)
StartPlacement ==
    /\ pc = "migrate" /\ walk = NoWalk
    /\ pc' = "place"
    /\ \E ord \in SetToSeqs(Irqs) :
          LET r == g_list_sort(heap, head["rebalance_irq_list"], Before(ord))
              s == [head EXCEPT !["rebalance_irq_list"] = r.list]
          IN  /\ heap' = r.heap /\ head' = s
              /\ IF g_list_length(r.heap, r.list) > 0
                 THEN Begins(r.heap, s, "rebalance_irq_list", "place_irq_in_node")
                 ELSE UNCHANGED walk
    /\ UNCHANGED <<info, assigned>>

place_irq_in_node ==
    /\ Visits("place_irq_in_node")
    /\ \/ UNCHANGED <<heap, head, assigned>>          \* level BALANCE_NONE, or no node will do
       \/ \E n \in Nodes : /\ migrate_irq("rebalance_irq_list", n, Irq)
                           /\ assigned' = [assigned EXCEPT ![Irq] = n]
    /\ Steps /\ UNCHANGED <<pc, info>>

(* and the ones on a node to what is below it. *)
place_irq_in_object(o) ==
    /\ pc = "place" /\ walk = NoWalk
    /\ g_list_length(heap, head[o]) > 0
    /\ Begins(heap, head, o, "find_best_object_for_irq")
    /\ UNCHANGED <<pc, heap, head, info, assigned>>

find_best_object_for_irq ==
    /\ Visits("find_best_object_for_irq")
    /\ \/ UNCHANGED <<heap, head, assigned>>          \* not moved, level reached, or no child will do
       \/ \E c \in Cpus : /\ walk.on \in Nodes
                          /\ migrate_irq(walk.on, c, Irq)
                          /\ assigned' = [assigned EXCEPT ![Irq] = c]
    /\ Steps /\ UNCHANGED <<pc, info>>

(* The next cycle, or a rescan. *)
NextCycle ==
    /\ pc = "place" /\ walk = NoWalk
    /\ pc' = "migrate"
    /\ UNCHANGED <<heap, head, info, assigned, walk>>

-----------------------------------------------------------------------------
(* free_object_tree: free_numa_node_list and clear_cpu_tree free the list  *)
(* of every object with the object, one after the other, then free_irq_db  *)
(* frees the irqs.                                                         *)
free_object_tree ==
    /\ pc = "migrate" /\ walk = NoWalk
    /\ pc' = "free_irq_db"
    /\ \E objs \in SetToSeqs(Objs) :
          LET freed[n \in 0..Len(objs)] == IF n = 0 THEN heap ELSE g_list_free(freed[n - 1], head[objs[n]])
          IN  heap' = freed[Len(objs)]
    /\ head' = [l \in Lists |-> IF l \in Objs THEN NULL ELSE head[l]]
    /\ UNCHANGED <<info, assigned, walk>>

(* free_irq_db also is the first thing rebuild_irq_db does. *)
free_irq_db ==
    /\ pc = "free_irq_db" /\ pc' = "free_db"
    /\ Begins(heap, head, "interrupts_db", "free_irq")
    /\ UNCHANGED <<heap, head, info, assigned>>

free_irq ==
    /\ Visits("free_irq")
    /\ heap' = [heap EXCEPT !.bad = @ \/ Irq \notin info]
    /\ info' = info \ {Irq}
    /\ UNCHANGED <<pc, head, assigned>>
    /\ Steps

FreeDb ==
    /\ pc = "free_db" /\ walk = NoWalk /\ pc' = "free_banned_irqs"
    /\ heap' = g_list_free(heap, head["interrupts_db"])
    /\ head' = [head EXCEPT !["interrupts_db"] = NULL]
    /\ UNCHANGED <<info, assigned, walk>>

(* for_each_irq(banned_irqs, free_irq, NULL) walks the db, which is empty  *)
(* by now, when no irq is banned.                                          *)
FreeBannedIrqs ==
    /\ pc = "free_banned_irqs" /\ pc' = "free_banned"
    /\ Begins(heap, head, "banned_irqs", "free_irq")
    /\ UNCHANGED <<heap, head, info, assigned>>

(* Mutant: the irqs to place are forgotten. *)
KeepRebalance ==
    /\ pc = "free_banned" /\ walk = NoWalk
    /\ pc' \in {"free_irq_db", "build", "exit"}
    /\ heap' = g_list_free(heap, head["banned_irqs"])
    /\ head' = [head EXCEPT !["banned_irqs"] = NULL]
    /\ UNCHANGED <<info, assigned, walk>>

FreeBanned ==
    /\ pc = "free_banned" /\ walk = NoWalk
    /\ pc' \in {"free_irq_db", "build", "exit"}
    /\ heap' = g_list_free(g_list_free(heap, head["banned_irqs"]), head["rebalance_irq_list"])
    /\ head' = [head EXCEPT !["banned_irqs"] = NULL, !["rebalance_irq_list"] = NULL]
    /\ UNCHANGED <<info, assigned, walk>>

(* for_each_irq returns. *)
Return ==
    /\ walk.on # NoList /\ walk.entry = NULL
    /\ walk' = NoWalk
    /\ pc' = IF pc = "rebalance" THEN "migrate" ELSE pc
    /\ UNCHANGED <<heap, head, info, assigned>>

Terminating == pc = "exit" /\ UNCHANGED vars

Next == \/ add_one_irq_to_db \/ add_banned_irq \/ StartRebalance \/ force_rebalance_irq
        \/ \E o \in Objs : migrate_overloaded_irqs(o) \/ place_irq_in_object(o)
        \/ \E c \in Cpus : EnterPowersave(c)
        \/ move_candidate_irqs \/ force_irq_migration
        \/ StartPlacement \/ place_irq_in_node \/ find_best_object_for_irq \/ NextCycle
        \/ free_object_tree \/ free_irq_db \/ free_irq \/ FreeDb \/ FreeBannedIrqs \/ FreeBanned
        \/ Return \/ Terminating

Spec == Init /\ [][Next]_vars
-----------------------------------------------------------------------------
(* The types of the variables. *)
TypeOK ==
    /\ pc \in {"build", "rebalance", "migrate", "place", "free_irq_db", "free_db", "free_banned_irqs",
              "free_banned", "exit"}
    /\ heap \in Heaps
    /\ head \in [Lists -> Cells \cup {NULL}]
    /\ info \subseteq Irqs
    /\ assigned \in [Irqs -> Objs \cup {NULL}]
    /\ walk.on \in Lists \cup {NoList} /\ walk.entry \in Cells \cup {NULL}

(* The lists in memory are lists: they start at their head, the pointers   *)
(* back undo the pointers forward, they share no cell, every cell they     *)
(* reach is allocated and every allocated cell is reached (no cell is      *)
(* leaked), whatever the callbacks did to them.  No freed cell was written *)
(* and nothing was freed twice.                                            *)
Linked(h, p) ==
    LET c == Chain(h, p)
    IN  /\ p # NULL => IsLive(h, p) /\ prev(h, p) = NULL /\ next(h, Last(c)) = NULL
        /\ IsInjective(c)
        /\ \A k \in 1..Len(c) - 1 : prev(h, c[k + 1]) = c[k]

CellsOf(l) == ToSet(Chain(heap, head[l]))

WellFormed ==
    /\ TypeOK /\ ~heap.bad
    /\ \A l \in Lists : Linked(heap, head[l])
    /\ \A l, m \in Lists : l # m => CellsOf(l) \cap CellsOf(m) = {}
    /\ {c \in Cells : heap.cell[c].live} = UNION {CellsOf(l) : l \in Lists}

(* No list holds an irq whose struct irq_info has been freed, except while *)
(* free_irq_db works its way through it, and no irq_info is lost: every    *)
(* one allocated is in the db or on the list of the banned.                *)
Known == ToSet(Data(heap, head["interrupts_db"])) \cup ToSet(Data(heap, head["banned_irqs"]))

NoDangling ==
    /\ pc \notin {"free_db", "free_banned_irqs", "free_banned"} => \A l \in Lists : ToSet(Data(heap, head[l])) \subseteq info
    /\ info \subseteq Known
    /\ pc = "exit" => info = {}

(* g_list_sort puts any of the lists in the order the comparison asks for, *)
(* and leaves a well formed list of the same irqs.                         *)
SortExact ==
    \A l \in Lists, ord \in SetToSeqs(Irqs) :
        LET r == g_list_sort(heap, head[l], Before(ord))
            d == Data(r.heap, r.list)
        IN  /\ d \in SetToSeqs(ToSet(Data(heap, head[l])))
            /\ \A j, k \in DOMAIN d : j < k => Before(ord)[<<d[j], d[k]>>]
            /\ Linked(r.heap, r.list)

(* The lists in memory implement sequences of irqs, and for_each_irq       *)
(* visits each irq that was on the list when it began once and in order,   *)
(* though its callback moves irqs off the list or frees them.              *)
Abstract == INSTANCE IrqLists WITH
    lists <- [l \in Lists |-> Data(heap, head[l])],
    walk  <- [on   |-> walk.on, todo |-> Data(heap, walk.entry)]

ImplementsLists == Abstract!Spec
=============================================================================
