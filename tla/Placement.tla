------------------------------ MODULE Placement ------------------------------
(***************************************************************************)
(* What the balancer promises, without its lists, loops and loads: every   *)
(* managed irq is in exactly one place, an object of the tree or the pool  *)
(* of irqs waiting to be placed.  From the pool an irq enters the tree at  *)
(* a numa node, from there it goes down one level at a time and never past *)
(* its balance level, and the only way back is to the pool.  The kernel is *)
(* only ever told the mask of the place an irq is in, cut down to its      *)
(* hint, or its exact hint.                                                *)
(***************************************************************************)
EXTENDS Topology

CONSTANTS Irqs, Info

VARIABLES
    live,      \* the irqs under management
    where,     \* the object each one is on, Null for the pool
    told       \* the affinity the kernel has for each irq

absVars == <<live, where, told>>

HasHint(i, policy) == Info[i].hint_policy = policy /\ Info[i].affinity_hint # {}

(* The masks that fit an irq on object d. *)
Fitting(i, d) ==
    IF HasHint(i, "exact") THEN {Info[i].affinity_hint}
    ELSE IF HasHint(i, "subset") THEN {Mask[d] \cap Info[i].affinity_hint}
    ELSE {Mask[d]}

Start ==
    /\ live \in SUBSET Irqs
    /\ where = [i \in Irqs |-> Null]
    /\ told = [i \in Irqs |-> CpuIds]

TakeBack(i) ==
    /\ i \in live
    /\ where[i] # Null
    /\ where' = [where EXCEPT ![i] = Null]
    /\ UNCHANGED <<live, told>>

Enter(i) ==
    /\ i \in live
    /\ where[i] = Null
    /\ \E n \in Range(numa_nodes) : where' = [where EXCEPT ![i] = n]
    /\ UNCHANGED <<live, told>>

Descend(i) ==
    /\ i \in live
    /\ where[i] # Null
    /\ Depth(where[i]) < Info[i].level
    /\ \E c \in Range(Children[where[i]]) : where' = [where EXCEPT ![i] = c]
    /\ UNCHANGED <<live, told>>

Tell(i) ==
    /\ i \in live
    /\ where[i] # Null
    /\ \E m \in Fitting(i, where[i]) : told' = [told EXCEPT ![i] = m]
    /\ UNCHANGED <<live, where>>

Restart ==
    /\ live' \in SUBSET Irqs
    /\ where' = [i \in Irqs |-> Null]
    /\ UNCHANGED told

AbsNext == Restart \/ \E i \in Irqs : TakeBack(i) \/ Enter(i) \/ Descend(i) \/ Tell(i)

AbsSpec == Start /\ [][AbsNext]_absVars
=============================================================================
