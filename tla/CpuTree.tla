------------------------------- MODULE CpuTree -------------------------------
(***************************************************************************)
(* How irqbalance builds the object tree from sysfs (cputree.c, numa.c),   *)
(* cpu by cpu, while the kernel may take cpus up and down: between two     *)
(* cpus, and within one between its online file, its core_siblings and the *)
(* rest of its files, which are read in one step here.  The masks in sysfs *)
(* name online cpus only, and the files of a cpu that goes down disappear. *)
(***************************************************************************)
EXTENDS Integers, SequencesExt, FiniteSetsExt

CONSTANTS
    CpuIds,         \* cpu numbers
    ScanOrders,     \* the orders readdir may return the cpu directories in
    PkgOf,          \* hardware: physical_package_id of each cpu
    CacheOf,        \* hardware: per cpu the groups it shares index1, index2, ... with
    NodeOf,         \* hardware: the numa node of each cpu, -1 if there is none
    NodeIds,        \* the nodes in /sys/devices/system/node
    numa_avail,     \* numa_available() > -1
    banned_cpus,    \* IRQBALANCE_BANNED_CPUS, or isolated and nohz_full cpus
    deepest_cache,  \* -c
    NoSiblings,     \* cpus without a core_siblings file
    MaxHotplug      \* bound: how many cpus go up or down

None == -2   \* the NULL pointer: positions start at 1, node ids at -1

ASSUME CpuTreeAssumption ==
    /\ IsFiniteSet(CpuIds)
    /\ \A s \in ScanOrders : s \in Seq(CpuIds) /\ ToSet(s) = CpuIds /\ IsInjective(s)
    /\ PkgOf \in [CpuIds -> Int]
    /\ \A c \in CpuIds : CacheOf[c] \in Seq(ToSet(CacheOf[c]))
    /\ NodeOf \in [CpuIds -> Int]
    /\ IsFiniteSet(NodeIds) /\ NodeIds \subseteq Int /\ None \notin NodeIds
    /\ numa_avail \in BOOLEAN
    /\ banned_cpus \subseteq CpuIds /\ NoSiblings \subseteq CpuIds
    /\ deepest_cache \in Nat \ {0} /\ MaxHotplug \in Nat

VARIABLES
    pc,
    online, hotplugs,
    todo,           \* cpu directories still to visit
    cur,            \* the cpu do_one_cpu is at, and the package mask it has read
    numa_nodes,     \* node id -> its children, as positions in packages
    packages,       \* [mask, number, children, parent]; children are positions in cache_domains
    cache_domains,  \* [mask, children, parent]; children are positions in cpus
    cpus,           \* [number, parent]
    core_count,
    changed,        \* history: cpus that went up or down since the scan began
    unread          \* history: cpus whose core_siblings could not be read

treeVars == <<numa_nodes, packages, cache_domains, cpus, core_count>>
vars == <<pc, online, hotplugs, todo, cur, numa_nodes, packages, cache_domains, cpus,
          core_count, changed, unread>>

unbanned_cpus == CpuIds \ banned_cpus

(* Nothing interfered with the scan, or at least not with these cpus. *)
stable == changed = {}
steady == online \ changed

-----------------------------------------------------------------------------
(* build_numa_node_list: the unspecified node, and without libnuma no other. *)
build_numa_node_list == [n \in {-1} \cup (IF numa_avail THEN NodeIds ELSE {}) |-> <<>>]

(* NULL for a node that was not there when the list was built. *)
get_numa_node(nodeid) ==
    IF ~numa_avail \/ nodeid = -1 THEN -1
    ELSE IF nodeid \in NodeIds THEN nodeid
    ELSE None

(* What is in sysfs right now. *)
core_siblings(c) == {x \in online : PkgOf[x] = PkgOf[c]}

(* 0 if the file is not there. *)
packageid(c) == IF c \in online THEN PkgOf[c] ELSE 0

(* The deepest cache, but no deeper than deepest_cache. *)
CacheIndex(c) == IF Len(CacheOf[c]) < deepest_cache THEN Len(CacheOf[c]) ELSE deepest_cache

SharesCache(x, c) == /\ CacheIndex(c) \in DOMAIN CacheOf[x]
                     /\ CacheOf[x][CacheIndex(c)] = CacheOf[c][CacheIndex(c)]

(* "if it doesn't exist assume solitary" *)
shared_cpu_map(c) == IF CacheIndex(c) = 0 \/ c \notin online THEN {c}
                     ELSE {x \in online : SharesCache(x, c)}

(* Mutant: an object with the same mask is never found. *)
AlwaysNew(list, mask) == Len(list) + 1

(* The first element of list with this mask, or the next free position. *)
WithMask(list, mask) ==
    LET found == {k \in DOMAIN list : list[k].mask = mask}
    IN  IF found = {} THEN Len(list) + 1 ELSE Min(found)

(* Mutant: the test is inverted. *)
AppendKnown(list, x) == IF x \in ToSet(list) THEN Append(list, x) ELSE list

AppendNew(list, x) == IF x \in ToSet(list) THEN list ELSE Append(list, x)

add_cpu_to_cache_domain(cpu, mask) ==
    LET k   == WithMask(cache_domains, mask)
        all == IF k \in DOMAIN cache_domains THEN cache_domains
               ELSE Append(cache_domains, [mask |-> mask, children |-> <<>>, parent |-> None])
    IN  [all EXCEPT ![k].children = AppendNew(@, cpu)]

add_cache_domain_to_package(cache, id, mask) ==
    LET k   == WithMask(packages, mask)
        all == IF k \in DOMAIN packages THEN packages
               ELSE Append(packages, [mask |-> mask, number |-> id,
                                      children |-> <<>>, parent |-> None])
    IN  [all EXCEPT ![k].children = AppendNew(@, cache)]

(* A package joins a node that was found, unless it has one already. *)
add_package_to_node(p, node) == node # None /\ p.parent = None

-----------------------------------------------------------------------------
Init ==
    /\ pc = "scan"
    /\ online \in SUBSET CpuIds \ {{}}
    /\ hotplugs = 0
    /\ todo \in ScanOrders
    /\ cur = [cpu |-> None, package_mask |-> {}]
    /\ numa_nodes = build_numa_node_list
    /\ packages = <<>> /\ cache_domains = <<>> /\ cpus = <<>> /\ core_count = 0
    /\ changed = {} /\ unread = {}

(* The kernel takes a cpu up or down. *)
Hotplug(c) ==
    /\ hotplugs < MaxHotplug
    /\ hotplugs' = hotplugs + 1
    /\ online' = IF c \in online THEN online \ {c} ELSE online \cup {c}
    /\ online' # {}
    /\ changed' = changed \cup {c}
    /\ UNCHANGED <<pc, todo, cur, treeVars, unread>>

(* do_one_cpu up to the topology files: an offline cpu is skipped, a       *)
(* banned one only counted.                                                *)
do_one_cpu ==
    /\ pc = "scan"
    /\ todo # <<>>
    /\ LET c == Head(todo)
       IN  \/ /\ c \notin online
              /\ todo' = Tail(todo)
              /\ UNCHANGED <<pc, cur, core_count>>
           \/ /\ c \in online /\ c \in banned_cpus
              /\ core_count' = core_count + 1
              /\ todo' = Tail(todo)
              /\ UNCHANGED <<pc, cur>>
           \/ /\ c \in online /\ c \notin banned_cpus
              /\ cur' = [cpu |-> c, package_mask |-> {}]
              /\ pc' = "siblings"
              /\ UNCHANGED <<todo, core_count>>
    /\ UNCHANGED <<online, hotplugs, numa_nodes, packages, cache_domains, cpus, changed, unread>>

(* core_siblings: if it cannot be read, package_mask holds whatever was on *)
(* the stack, with the bit of the cpu set.                                 *)
ReadSiblings ==
    /\ pc = "siblings"
    /\ LET c == cur.cpu
           readable == c \in online /\ c \notin NoSiblings
       IN  /\ \E stack \in SUBSET CpuIds :
                 cur' = [cur EXCEPT !.package_mask = IF readable THEN core_siblings(c)
                                                     ELSE stack \cup {c}]
           /\ unread' = IF readable THEN unread ELSE unread \cup {c}
    /\ pc' = "insert"
    /\ UNCHANGED <<online, hotplugs, todo, treeVars, changed>>

(* The package id, the cache mask, the node, and the three insertions.     *)
(* The banned cpus are blanked out of both masks.  A cache goes to the     *)
(* package of the last cpu that did not find it there, a package stays at  *)
(* its first node.                                                         *)
AddCpu ==
    /\ pc = "insert"
    /\ LET c     == cur.cpu
           cmask == shared_cpu_map(c) \cap unbanned_cpus
           pmask == cur.package_mask \cap unbanned_cpus
           cpu   == Len(cpus) + 1
           cache == WithMask(cache_domains, cmask)
           pkg   == WithMask(packages, pmask)
           node  == get_numa_node(NodeOf[c])
           caches == add_cpu_to_cache_domain(cpu, cmask)
           pkgs  == add_cache_domain_to_package(cache, packageid(c), pmask)
           knew  == pkg \in DOMAIN packages /\ cache \in ToSet(packages[pkg].children)
           first == add_package_to_node(pkgs[pkg], node)
       IN  /\ cpus' = Append(cpus, [number |-> c, parent |-> cache])
           /\ cache_domains' = [caches EXCEPT ![cache].parent = IF knew THEN @ ELSE pkg]
           /\ packages' = [pkgs EXCEPT ![pkg].parent = IF first THEN node ELSE @]
           /\ numa_nodes' = IF first THEN [numa_nodes EXCEPT ![node] = Append(@, pkg)]
                            ELSE numa_nodes
    /\ core_count' = core_count + 1
    /\ todo' = Tail(todo)
    /\ pc' = "scan"
    /\ UNCHANGED <<online, hotplugs, cur, changed, unread>>

ScanDone ==
    /\ pc = "scan"
    /\ todo = <<>>
    /\ pc' = "built"
    /\ UNCHANGED <<online, hotplugs, todo, cur, treeVars, changed, unread>>

(* A rescan: free_numa_node_list, clear_cpu_tree, and everything again. *)
Rescan ==
    /\ pc = "built"
    /\ numa_nodes' = build_numa_node_list
    /\ packages' = <<>> /\ cache_domains' = <<>> /\ cpus' = <<>> /\ core_count' = 0
    /\ todo' \in ScanOrders
    /\ pc' = "scan"
    /\ changed' = {} /\ unread' = {}
    /\ UNCHANGED <<online, hotplugs, cur>>

Next == \/ \E c \in CpuIds : Hotplug(c)
        \/ do_one_cpu \/ ReadSiblings \/ AddCpu \/ ScanDone \/ Rescan

Spec == Init /\ [][Next]_vars
-----------------------------------------------------------------------------
Numbers(k)   == {cpus[x].number : x \in ToSet(cache_domains[k].children)}
Holding(k)   == {p \in DOMAIN packages : k \in ToSet(packages[p].children)}
CpuHolding(x) == {k \in DOMAIN cache_domains : x \in ToSet(cache_domains[k].children)}
NodesHolding(p) == {n \in DOMAIN numa_nodes : p \in ToSet(numa_nodes[n])}

(* Types: positions are positions of the list they point into. *)
TypeOK ==
    /\ pc \in {"scan", "siblings", "insert", "built"}
    /\ \A x \in DOMAIN cpus : cpus[x].parent \in DOMAIN cache_domains
    /\ \A k \in DOMAIN cache_domains : /\ ToSet(cache_domains[k].children) \subseteq DOMAIN cpus
                                       /\ cache_domains[k].parent \in DOMAIN packages
    /\ \A p \in DOMAIN packages :
          ToSet(packages[p].children) \subseteq DOMAIN cache_domains
    /\ core_count \in 0..Cardinality(CpuIds)

(* Whatever goes up or down during the scan: every cpu of the tree hangs   *)
(* in exactly one cache domain, every cache domain in some package and     *)
(* every package in at most one node, so that placement from the nodes     *)
(* down reaches every cpu whose node is known; and the parent pointers     *)
(* that the loads go up by agree with the lists of children.               *)
EveryCpuReached ==
    /\ \A x \in DOMAIN cpus : CpuHolding(x) = {cpus[x].parent}
    /\ \A k \in DOMAIN cache_domains : cache_domains[k].parent \in Holding(k)
    /\ \A p \in DOMAIN packages : NodesHolding(p) = {packages[p].parent} \ {None}
    /\ \A x \in DOMAIN cpus : get_numa_node(NodeOf[cpus[x].number]) # None =>
          \E p \in Holding(cpus[x].parent) : packages[p].parent # None

(* The cpu is below some node, where placement may find it. *)
FromTop(c) == \E n \in DOMAIN numa_nodes : \E p \in ToSet(numa_nodes[n]) :
                 \E k \in ToSet(packages[p].children) :
                    \E x \in ToSet(cache_domains[k].children) : cpus[x].number = c

(* No cpu that is there from the beginning of the scan is lost, whatever   *)
(* the others do meanwhile: it is in the tree, and below a node if its own *)
(* node is listed.  (If not, it is below one only if another cpu brings    *)
(* its package there.)                                                     *)
EveryCpuFound ==
    pc = "built" => \A c \in steady \ banned_cpus :
        /\ \E x \in DOMAIN cpus : cpus[x].number = c
        /\ get_numa_node(NodeOf[c]) # None => FromTop(c)

(* "blank out the banned cpus from the various masks so that interrupts    *)
(* will never be told to go there": no cache domain or package has a       *)
(* banned cpu in its mask, not even from an uninitialised one, and no      *)
(* banned cpu is in the tree.                                              *)
BannedBlankedOut ==
    /\ \A k \in DOMAIN cache_domains : cache_domains[k].mask \cap banned_cpus = {}
    /\ \A p \in DOMAIN packages : packages[p].mask \cap banned_cpus = {}
    /\ \A x \in DOMAIN cpus : cpus[x].number \notin banned_cpus

(* Hardware as it is built: cpus that share a cache have as many levels of *)
(* cache, and are in the same package.                                     *)
Regular ==
    \A c, x \in CpuIds : CacheIndex(c) # 0 /\ SharesCache(x, c) =>
        CacheIndex(x) = CacheIndex(c) /\ PkgOf[x] = PkgOf[c]

(* A scan nothing interferes with gives the hardware's tree: the masks of  *)
(* the cache domains partition the online cpus that are not banned, a mask *)
(* is what hangs below it, and core_count is the number of columns         *)
(* /proc/interrupts has.                                                   *)
StableScanIsExact ==
    pc = "built" /\ stable /\ unread = {} =>
        /\ core_count = Cardinality(online)
        /\ {cpus[x].number : x \in DOMAIN cpus} = online \ banned_cpus
        /\ \A k \in DOMAIN cache_domains : /\ cache_domains[k].mask = Numbers(k)
                                           /\ Cardinality(Holding(k)) = 1
        /\ \A p \in DOMAIN packages :
              packages[p].mask = UNION {cache_domains[k].mask : k \in ToSet(packages[p].children)}

(* The tree as Topology describes it, with the masks of the nodes as in    *)
(* their cpumap files.                                                     *)
NodeSeq == SetToSeq(DOMAIN numa_nodes)
Listed(kind, s) == [k \in DOMAIN s |-> <<kind, s[k]>>]
Positions(kind, s) == [k \in DOMAIN s |-> <<kind, k>>]

ChildrenOf(d) ==
    CASE d[1] = "node"  -> Listed("package", numa_nodes[d[2]])
      [] d[1] = "package" -> Listed("cache", packages[d[2]].children)
      [] d[1] = "cache" -> Listed("cpu", cache_domains[d[2]].children)
      [] d[1] = "cpu"   -> <<>>

MaskOf(d) ==
    CASE d[1] = "node" /\ d[2] = -1 -> CpuIds   \* CPU_MASK_ALL
      [] d[1] = "node" /\ d[2] # -1 -> {c \in CpuIds : NodeOf[c] = d[2]}
      [] d[1] = "package" -> packages[d[2]].mask
      [] d[1] = "cache" -> cache_domains[d[2]].mask
      [] d[1] = "cpu"   -> {cpus[d[2]].number}

ParentOf(d) ==
    CASE d[1] = "package" /\ packages[d[2]].parent # None -> <<"node", packages[d[2]].parent>>
      [] d[1] = "cache" -> <<"package", cache_domains[d[2]].parent>>
      [] d[1] = "cpu"   -> <<"cache", cpus[d[2]].parent>>
      [] OTHER -> <<"null">>

AllObjs == ToSet(Listed("node", NodeSeq) \o Positions("package", packages)
                   \o Positions("cache", cache_domains) \o Positions("cpu", cpus))

Built == INSTANCE Topology WITH
    numa_nodes <- Listed("node", NodeSeq), packages <- Positions("package", packages),
    cache_domains <- Positions("cache", cache_domains), cpus <- Positions("cpu", cpus),
    Children <- [d \in AllObjs |-> ChildrenOf(d)], Mask <- [d \in AllObjs |-> MaskOf(d)],
    Unspecified <- <<"node", -1>>, Null <- <<"null">>

(* What Balancer and the proofs about it assume of the tree is true of     *)
(* every tree a scan leaves behind, whatever went up or down meanwhile;    *)
(* and after a scan nothing interferes with, the parent the loads go up to *)
(* is the one object that has it among its children.                       *)
TreeForBalancer ==
    pc = "built" =>
        /\ Built!IsTree
        /\ stable /\ unread = {} => \A d \in AllObjs : Built!Parent(d) = ParentOf(d)
=============================================================================
