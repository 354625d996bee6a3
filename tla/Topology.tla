------------------------------ MODULE Topology ------------------------------
(***************************************************************************)
(* The object tree irqbalance builds from sysfs (struct topo_obj, types.h) *)
(* as the balancer sees it between two rescans: numa nodes, packages,      *)
(* cache domains and cpus, each a list in the order the scan appended      *)
(* them, and for every object its children and its cpu mask.  The tree is  *)
(* rebuilt from nothing by every rescan, so within one generation it is a  *)
(* constant.                                                               *)
(***************************************************************************)
EXTENDS Integers, SequencesExt

CONSTANTS
    numa_nodes,      \* GList of nodes, the unspecified node first
    packages,        \* GList of packages
    cache_domains,   \* GList of cache domains
    cpus,            \* GList of the cpus that are online and not banned
    Children,        \* d->children: one sequence per object
    Mask,            \* d->mask: a set of cpu numbers per object
    CpuIds,          \* the bits of a cpumask_t
    banned_cpus,     \* IRQBALANCE_BANNED_CPUS, or isolated and nohz_full cpus
    numa_avail,      \* numa_available() > -1
    Unspecified,     \* the node whose number is -1
    Null             \* the NULL pointer

(* Every object of the tree. *)
Objs == Range(numa_nodes) \cup Range(packages)
            \cup Range(cache_domains) \cup Range(cpus)

(* The complement of banned_cpus, kept by parse_cpu_tree. *)
unbanned_cpus == CpuIds \ banned_cpus

(* obj_type_e, counted from the top so that it lines up with the balance   *)
(* levels: a node is at depth 0, a cpu at depth 3.                         *)
Depth(d) == CASE d \in Range(numa_nodes)    -> 0
              [] d \in Range(packages)      -> 1
              [] d \in Range(cache_domains) -> 2
              [] OTHER                      -> 3

(* d->parent *)
Parent(d) == IF \E p \in Objs : d \in Range(Children[p])
             THEN CHOOSE p \in Objs : d \in Range(Children[p])
             ELSE Null

-----------------------------------------------------------------------------
(* What the balancer relies on and parse_cpu_tree is meant to establish:   *)
(* every list and child list consists of objects, no object is on the      *)
(* lists of two levels, and a child is one level below its parent.         *)
(* CpuTree checks it of every scan.                                        *)
IsTree ==
    /\ Children \in [Objs -> Seq(Objs)]
    /\ Mask \in [Objs -> SUBSET CpuIds]
    /\ numa_nodes \in Seq(Objs) /\ packages \in Seq(Objs)
    /\ cache_domains \in Seq(Objs) /\ cpus \in Seq(Objs)
    /\ \A d \in Range(numa_nodes) : Depth(d) = 0
    /\ \A d \in Range(packages) : Depth(d) = 1
    /\ \A d \in Range(cache_domains) : Depth(d) = 2
    /\ \A d \in Range(cpus) : Depth(d) = 3
    /\ \A d \in Objs : \A k \in DOMAIN Children[d] : Depth(Children[d][k]) = Depth(d) + 1
    /\ numa_avail \in BOOLEAN
    /\ Unspecified \in Range(numa_nodes)
    /\ banned_cpus \subseteq CpuIds
    /\ Null \notin Objs

ASSUME TreeAssumption == IsTree
=============================================================================
