------------------------------ MODULE LoadShare ------------------------------
(***************************************************************************)
(* How parse_proc_stat (procinterrupts.c) turns the load of each cpu and   *)
(* the interrupts counted since the last cycle into a load for every       *)
(* object of the tree and every irq.                                       *)
(*                                                                         *)
(*   l      the loads: l[c] for a cpu c is fresh, the others are the ones  *)
(*          of the last cycle                                              *)
(*   lists  d->interrupts for every object d                               *)
(*   delta  irq_count - last_irq_count for every irq                       *)
(***************************************************************************)
EXTENDS Topology

SumOver(f, s) == FoldLeft(LAMBDA sum, x : sum + f[x], 0, s)

(* An object with children carries the sum of their loads; a childless one *)
(* keeps the load it has.                                                  *)
set_load(l) ==
    LET total[d \in Objs] ==
            IF Children[d] = <<>> THEN l[d] ELSE SumOver(total, Children[d])
    IN  total

(* Interrupts counted on the irqs that sit on the object itself. *)
accumulate_interrupts(lists, delta) ==
    [d \in Objs |-> SumOver(delta, lists[d])]

(* Mutant: the interrupts of the object itself are forgotten. *)
ShareWithoutOwn(irq_count) ==
    LET share[d \in Objs] ==
            IF Parent(d) = Null THEN 0 ELSE share[Parent(d)] \div Len(Children[Parent(d)])
    IN  share

(* The interrupts of irqs placed higher up that this object is taken to    *)
(* have served, plus its own.                                              *)
get_parent_branch_irq_count_share(irq_count) ==
    LET share[d \in Objs] ==
            irq_count[d] + (IF Parent(d) = Null THEN 0
                            ELSE share[Parent(d)] \div Len(Children[Parent(d)]))
    IN  share

(* The interrupts of the object and of everything below it. *)
get_children_branch_irq_count(irq_count) ==
    LET branch[d \in Objs] == irq_count[d] + SumOver(branch, Children[d])
    IN  branch

(* local_irq_counts of compute_irq_branch_load_share *)
LocalIrqCounts(lists, delta) ==
    LET irq_count == accumulate_interrupts(lists, delta)
        share  == get_parent_branch_irq_count_share(irq_count)
        branch == get_children_branch_irq_count(irq_count)
    IN  [d \in Objs |-> share[d] + SumOver(branch, Children[d])]

(* Mutant: every interrupt is charged the whole load. *)
UndividedSlice(objload, local) == objload

(* The load one interrupt on an object stands for. *)
LoadSlice(objload, local) == IF local = 0 THEN 1 ELSE objload \div local

(* Every irq has a load of at least 1. *)
assign_load_slice(delta, slice) == IF delta * slice = 0 THEN 1 ELSE delta * slice

(* The loads of the irqs on the tree; an irq on no list keeps the load it  *)
(* has in irqload.                                                         *)
compute_irq_branch_load_share(objload, lists, delta, irqload) ==
    LET local == LocalIrqCounts(lists, delta)
        On(i) == {d \in Objs : i \in Range(lists[d])}
    IN  [i \in DOMAIN irqload |->
            IF On(i) = {} THEN irqload[i]
            ELSE LET d == CHOOSE d \in On(i) : TRUE
                 IN  assign_load_slice(delta[i], LoadSlice(objload[d], local[d]))]
=============================================================================
