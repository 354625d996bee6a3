-------------------------- MODULE ObjectTreeProofs --------------------------
(***************************************************************************)
(* Theorems about build_object_tree, for every hardware, every order of    *)
(* the directories and every cpu that goes up or down meanwhile: the tree  *)
(* that do_one_cpu builds, what it is for the balancer, and the irq        *)
(* database on top of it, which obeys the administrator.                   *)
(***************************************************************************)
EXTENDS ObjectTree, FoldProofs, FiniteSetTheorems

-----------------------------------------------------------------------------
(* What readdir has still to return after one directory. *)
LEMMA TailLemma ==
    ASSUME NEW S, NEW s \in Seq(S), s # <<>>, IsInjective(s)
    PROVE  /\ Tail(s) \in Seq(S) /\ IsInjective(Tail(s))
           /\ Head(s) \in ToSet(s) /\ Head(s) \in S
           /\ ToSet(Tail(s)) = ToSet(s) \ {Head(s)}
<1> DEFINE t == Tail(s)
<1>1. /\ t \in Seq(S)
      /\ Len(s) \in Nat /\ Len(s) >= 1
      /\ DOMAIN t = 1..(Len(s) - 1) /\ DOMAIN s = 1..Len(s)
      /\ Head(s) = s[1] /\ Head(s) \in S
      /\ \A j \in 1..(Len(s) - 1) : t[j] = s[j + 1]
  OBVIOUS
<1> HIDE DEF t
<1>2. Head(s) \in ToSet(s)
  BY <1>1 DEF ToSet
<1>3. ASSUME NEW x \in ToSet(s), x # Head(s) PROVE x \in ToSet(t)
  <2>1. PICK j \in 1..Len(s) : s[j] = x
    BY <1>1 DEF ToSet
  <2>2. j - 1 \in DOMAIN t /\ t[j - 1] = x
    BY <2>1, <1>1, <1>3
  <2> QED BY <2>2 DEF ToSet
<1>4. \A j \in DOMAIN t : j + 1 \in DOMAIN s /\ t[j] = s[j + 1] /\ j + 1 # 1
  BY <1>1
<1>5. ASSUME NEW x \in ToSet(t) PROVE x \in ToSet(s) /\ x # Head(s)
  <2>1. PICK j \in DOMAIN t : t[j] = x
    BY <1>5 DEF ToSet
  <2>2. 1 \in DOMAIN s
    BY <1>1
  <2> QED BY <1>1, <1>4, <2>1, <2>2 DEF ToSet, IsInjective
<1>6. IsInjective(t)
  <2> SUFFICES ASSUME NEW a \in DOMAIN t, NEW b \in DOMAIN t, t[a] = t[b] PROVE a = b
    BY DEF IsInjective
  <2>1. a + 1 = b + 1
    BY <1>4 DEF IsInjective
  <2> QED BY <1>1, <2>1
<1> QED BY <1>1, <1>2, <1>3, <1>5, <1>6 DEF t

LEMMA ElementOfSeq ==
    ASSUME NEW S, NEW s \in Seq(S), NEW j \in DOMAIN s PROVE s[j] \in S
OBVIOUS

(* The list with an element more. *)
LEMMA AppendLemma ==
    ASSUME NEW S, NEW s \in Seq(S), NEW x \in S
    PROVE  Append(s, x) \in Seq(S) /\ ToSet(Append(s, x)) = ToSet(s) \cup {x}
<1> DEFINE t == Append(s, x)
<1>1. /\ t \in Seq(S) /\ DOMAIN t = 1..(Len(s) + 1) /\ DOMAIN s = 1..Len(s) /\ Len(s) \in Nat
      /\ t[Len(s) + 1] = x
      /\ \A j \in 1..Len(s) : t[j] = s[j]
  OBVIOUS
<1> HIDE DEF t
<1>2. ToSet(t) \subseteq ToSet(s) \cup {x}
  BY <1>1 DEF ToSet
<1>3. x \in ToSet(t)
  BY <1>1 DEF ToSet
<1>4. \A y \in ToSet(s) : y \in ToSet(t)
  <2> SUFFICES ASSUME NEW j \in DOMAIN s PROVE s[j] \in ToSet(t)
    BY DEF ToSet
  <2>1. j \in DOMAIN t /\ t[j] = s[j]
    BY <1>1
  <2> QED BY <2>1 DEF ToSet
<1>5. t \in Seq(S) /\ ToSet(t) = ToSet(s) \cup {x}
  BY <1>1, <1>2, <1>3, <1>4
<1> QED BY <1>5 DEF t

(* The list with a new element, if it is not on it yet. *)
LEMMA AppendNewLemma ==
    ASSUME NEW S, NEW s \in Seq(S), NEW x \in S
    PROVE  /\ AppendNew(s, x) \in Seq(S)
           /\ ToSet(AppendNew(s, x)) = ToSet(s) \cup {x}
<1>1. CASE x \in ToSet(s)
  BY <1>1 DEF AppendNew
<1>2. CASE x \notin ToSet(s)
  BY <1>2, AppendLemma DEF AppendNew
<1> QED BY <1>1, <1>2

(* Looking for an object with this mask finds the first one, or says where *)
(* a new one goes.                                                         *)
LEMMA WithMaskLemma ==
    ASSUME NEW S, NEW list \in Seq(S), NEW mask
    PROVE  LET k == WithMask(list, mask)
           IN  /\ k \in 1..(Len(list) + 1)
               /\ k \in DOMAIN list => list[k].mask = mask
               /\ k \notin DOMAIN list => /\ k = Len(list) + 1
                                          /\ \A j \in DOMAIN list : list[j].mask # mask
<1> DEFINE found == {k \in DOMAIN list : list[k].mask = mask}
<1>1. DOMAIN list = 1..Len(list) /\ Len(list) \in Nat
  OBVIOUS
<1>2. CASE found = {}
  <2>1. WithMask(list, mask) = Len(list) + 1
    BY <1>2 DEF WithMask
  <2> QED BY <1>1, <1>2, <2>1
<1>3. CASE found # {}
  <2>1. WithMask(list, mask) = Min(found)
    BY <1>3 DEF WithMask
  <2>2. found \in SUBSET Nat
    BY <1>1
  <2>3. Min(found) \in found
    BY <1>3, <2>2, LeastNatural
  <2> QED BY <1>1, <2>1, <2>3
<1> QED BY <1>2, <1>3
-----------------------------------------------------------------------------
CpuRec   == [number : CpuIds, parent : Nat]
CacheRec == [mask : SUBSET CpuIds, children : Seq(Nat), parent : Int]
PkgRec   == [mask : SUBSET CpuIds, number : Int, children : Seq(Nat), parent : Int]

Lists ==
    /\ cpus \in Seq(CpuRec) /\ cache_domains \in Seq(CacheRec) /\ packages \in Seq(PkgRec)
    /\ numa_nodes \in [DOMAIN build_numa_node_list -> Seq(Nat)]

(* The loop over the cpu directories.  A cpu is counted when its directory *)
(* is left, so the cpus that are counted and the directories that are left *)
(* are never more than there are cpus.                                     *)
Scanning ==
    /\ pc \in {"scan", "siblings", "insert", "built"}
    /\ online \subseteq CpuIds
    /\ todo \in Seq(CpuIds) /\ IsInjective(todo)
    /\ cur \in [cpu : CpuIds \cup {None}, package_mask : SUBSET CpuIds]
    /\ pc \in {"siblings", "insert"} => /\ todo # <<>> /\ cur.cpu = Head(todo)
                                        /\ cur.cpu \notin banned_cpus
    /\ pc = "built" => todo = <<>>

Counted ==
    /\ core_count \in Nat
    /\ core_count + Cardinality(ToSet(todo)) <= Cardinality(CpuIds)

(* Positions point into the lists, as in TypeOK, and so do the nodes. *)
Linked ==
    /\ \A x \in DOMAIN cpus : cpus[x].parent \in DOMAIN cache_domains
    /\ \A k \in DOMAIN cache_domains : ToSet(cache_domains[k].children) \subseteq DOMAIN cpus
    /\ \A p \in DOMAIN packages : ToSet(packages[p].children) \subseteq DOMAIN cache_domains
    /\ \A n \in DOMAIN numa_nodes : ToSet(numa_nodes[n]) \subseteq DOMAIN packages

Tree    == Lists /\ Linked /\ EveryCpuReached /\ BannedBlankedOut
TreeInv == Scanning /\ Counted /\ Tree

-----------------------------------------------------------------------------
(* A child joins the object at k of a list, which is appended if it is not *)
(* there yet: the common part of add_cpu_to_cache_domain and               *)
(* add_cache_domain_to_package.                                            *)
Joined(list, k, new) == IF k \in DOMAIN list THEN list ELSE Append(list, new)

WithChild(r, x) == [r EXCEPT !.children = AppendNew(@, x)]
JoinedWith(list, k, new, x) == [Joined(list, k, new) EXCEPT ![k].children = AppendNew(@, x)]

(* Records of one kind, with a list of children that can be any. *)
HaveChildren(S, N, new) ==
    \A r \in S : /\ DOMAIN r = DOMAIN new
                 /\ "children" \in DOMAIN r /\ r.children \in Seq(N)
                 /\ \A s \in Seq(N) : [r EXCEPT !.children = s] \in S

IsJoined(S, list, k, x, old, t) ==
    /\ t \in Seq(S)
    /\ DOMAIN t = DOMAIN list \cup {k}
    /\ \A j \in DOMAIN list : j # k => t[j] = list[j]
    /\ t[k] = WithChild(old, x)
    /\ ToSet(t[k].children) = ToSet(old.children) \cup {x}

LEMMA JoinLemma ==
    ASSUME NEW S, NEW list \in Seq(S), NEW k, k \in 1..(Len(list) + 1),
           NEW new \in S, NEW N, NEW x \in N, HaveChildren(S, N, new),
           NEW old \in S, old = IF k \in DOMAIN list THEN list[k] ELSE new
    PROVE  IsJoined(S, list, k, x, old, JoinedWith(list, k, new, x))
<1> DEFINE all == Joined(list, k, new)
           t   == [all EXCEPT ![k].children = AppendNew(@, x)]
           rec == [old EXCEPT !.children = AppendNew(old.children, x)]
<1>1. /\ all \in Seq(S) /\ k \in DOMAIN all /\ all[k] = old
      /\ DOMAIN all = DOMAIN list \cup {k}
      /\ \A j \in DOMAIN list : all[j] = list[j]
  <2>1. CASE k \in DOMAIN list
    BY <2>1 DEF Joined
  <2>2. CASE k \notin DOMAIN list
    <3> DEFINE u == Append(list, new)
    <3>1. /\ u \in Seq(S) /\ DOMAIN u = 1..(Len(list) + 1)
          /\ DOMAIN list = 1..Len(list) /\ Len(list) \in Nat
          /\ \A j \in 1..Len(list) : u[j] = list[j]
          /\ u[Len(list) + 1] = new
      OBVIOUS
    <3>2. all = u
      BY <2>2 DEF Joined
    <3> HIDE DEF u, all
    <3>3. k = Len(list) + 1
      BY <2>2, <3>1
    <3> QED BY <2>2, <3>1, <3>2, <3>3
  <2> QED BY <2>1, <2>2
<1> HIDE DEF all
<1>2. "children" \in DOMAIN old /\ old.children \in Seq(N)
  BY DEF HaveChildren
<1>3. /\ AppendNew(old.children, x) \in Seq(N)
      /\ ToSet(AppendNew(old.children, x)) = ToSet(old.children) \cup {x}
  <2> DEFINE s == old.children
  <2>1. s \in Seq(N)
    BY <1>2
  <2> HIDE DEF s
  <2>2. AppendNew(s, x) \in Seq(N) /\ ToSet(AppendNew(s, x)) = ToSet(s) \cup {x}
    BY <2>1, AppendNewLemma
  <2> QED BY <2>2 DEF s
<1>4. rec \in S /\ rec.children = AppendNew(old.children, x)
  <2>1. \A s \in Seq(N) : [old EXCEPT !.children = s] \in S
    BY DEF HaveChildren
  <2> QED BY <1>2, <1>3, <2>1
<1>5. t = [all EXCEPT ![k] = rec]
  BY <1>1
<1> HIDE DEF rec
<1>6. t \in Seq(S)
  BY <1>1, <1>4, <1>5
<1>7. DOMAIN t = DOMAIN all /\ t[k] = rec /\ \A j \in DOMAIN all : j # k => t[j] = all[j]
  BY <1>1, <1>5
<1> HIDE DEF t
<1>8. /\ t \in Seq(S)
      /\ DOMAIN t = DOMAIN list \cup {k} /\ k \in DOMAIN t
      /\ \A j \in DOMAIN list : j # k => t[j] = list[j]
      /\ t[k] = rec
      /\ ToSet(t[k].children) = ToSet(old.children) \cup {x}
  BY <1>1, <1>3, <1>4, <1>6, <1>7
<1>9. t = JoinedWith(list, k, new, x) /\ rec = WithChild(old, x)
  BY DEF t, all, rec, JoinedWith, WithChild
<1> HIDE DEF t, rec
<1> QED BY <1>8, <1>9 DEF IsJoined

(* The children an object has before a new one comes: none if it is new. *)
Kids(list, k) == IF k \in DOMAIN list THEN ToSet(list[k].children) ELSE {}

CacheMask == shared_cpu_map(cur.cpu) \cap unbanned_cpus
PkgMask   == cur.package_mask \cap unbanned_cpus

Knew(k, p)     == k \in Kids(packages, p)
First(p, node) == node # None /\ (p \in DOMAIN packages => packages[p].parent = None)

(* The three insertions of do_one_cpu, object by object: cpu c goes to     *)
(* cache domain k, this to package p, and this to a node.                  *)
NewCpu(c, k) ==
    /\ DOMAIN cpus' = DOMAIN cpus \cup {Len(cpus) + 1} /\ Len(cpus) + 1 \notin DOMAIN cpus
    /\ cpus'[Len(cpus) + 1] = [number |-> c, parent |-> k]
    /\ \A x \in DOMAIN cpus : cpus'[x] = cpus[x]

InCache(k, p) ==
    /\ k \in DOMAIN cache_domains => cache_domains[k].mask = CacheMask
    /\ k \notin DOMAIN cache_domains => \A j \in DOMAIN cache_domains : cache_domains[j].mask # CacheMask
    /\ DOMAIN cache_domains' = DOMAIN cache_domains \cup {k}
    /\ \A j \in DOMAIN cache_domains : j # k => cache_domains'[j] = cache_domains[j]
    /\ cache_domains'[k].mask = CacheMask
    /\ ToSet(cache_domains'[k].children) = Kids(cache_domains, k) \cup {Len(cpus) + 1}
    /\ cache_domains'[k].parent = IF k \in DOMAIN cache_domains /\ Knew(k, p)
                                  THEN cache_domains[k].parent ELSE p

InPackage(k, p, node) ==
    /\ p \in DOMAIN packages => packages[p].mask = PkgMask
    /\ p \notin DOMAIN packages => \A j \in DOMAIN packages : packages[j].mask # PkgMask
    /\ DOMAIN packages' = DOMAIN packages \cup {p}
    /\ \A j \in DOMAIN packages : j # p => packages'[j] = packages[j]
    /\ packages'[p].mask = PkgMask
    /\ ToSet(packages'[p].children) = Kids(packages, p) \cup {k}
    /\ packages'[p].parent = IF First(p, node) THEN node
                             ELSE IF p \in DOMAIN packages THEN packages[p].parent ELSE None

InNode(p, node) ==
    /\ DOMAIN numa_nodes' = DOMAIN numa_nodes
    /\ \A n \in DOMAIN numa_nodes :
          ToSet(numa_nodes'[n]) = IF First(p, node) /\ n = node THEN ToSet(numa_nodes[n]) \cup {p}
                                  ELSE ToSet(numa_nodes[n])
    /\ node # None => node \in DOMAIN numa_nodes

Added(c, k, p, node) ==
    /\ c = cur.cpu /\ c \in CpuIds /\ c \notin banned_cpus
    /\ node = get_numa_node(NodeOf[c])
    /\ NewCpu(c, k) /\ InCache(k, p) /\ InPackage(k, p, node) /\ InNode(p, node)
LEMMA AddLemma ==
    ASSUME Lists, Scanning, Linked, AddCpu
    PROVE  Lists' /\ \E c \in CpuIds, k \in Nat, p \in Nat, node \in Int : Added(c, k, p, node)
<1> DEFINE c     == cur.cpu
           cmask == CacheMask
           pmask == PkgMask
           x     == Len(cpus) + 1
           k     == WithMask(cache_domains, cmask)
           p     == WithMask(packages, pmask)
           node  == get_numa_node(NodeOf[c])
           caches == add_cpu_to_cache_domain(x, cmask)
           pkgs  == add_cache_domain_to_package(k, packageid(c), pmask)
           knew  == p \in DOMAIN packages /\ k \in ToSet(packages[p].children)
           first == add_package_to_node(pkgs[p], node)
<1>1. /\ cpus' = Append(cpus, [number |-> c, parent |-> k])
      /\ cache_domains' = [caches EXCEPT ![k].parent = IF knew THEN @ ELSE p]
      /\ packages' = [pkgs EXCEPT ![p].parent = IF first THEN node ELSE @]
      /\ numa_nodes' = IF first THEN [numa_nodes EXCEPT ![node] = Append(@, p)] ELSE numa_nodes
      /\ pc = "insert"
  BY DEF AddCpu, CacheMask, PkgMask
<1>2. /\ c \in CpuIds /\ c \notin banned_cpus /\ NodeOf[c] \in Int /\ packageid(c) \in Int
      /\ cmask \in SUBSET CpuIds /\ pmask \in SUBSET CpuIds
  <2>1. c \in CpuIds /\ c \notin banned_cpus
    BY <1>1 DEF Scanning
  <2>2. NodeOf[c] \in Int /\ packageid(c) \in Int
    BY <2>1, CpuTreeAssumption DEF packageid
  <2>3. cmask \in SUBSET CpuIds /\ pmask \in SUBSET CpuIds
    BY DEF CacheMask, PkgMask, unbanned_cpus
  <2> QED BY <2>1, <2>2, <2>3
<1>3. /\ cpus \in Seq(CpuRec) /\ cache_domains \in Seq(CacheRec) /\ packages \in Seq(PkgRec)
      /\ DOMAIN cpus = 1..Len(cpus) /\ Len(cpus) \in Nat
      /\ DOMAIN cache_domains = 1..Len(cache_domains) /\ Len(cache_domains) \in Nat
      /\ DOMAIN packages = 1..Len(packages) /\ Len(packages) \in Nat
  BY DEF Lists
<1>4. /\ k \in 1..(Len(cache_domains) + 1)
      /\ k \in DOMAIN cache_domains => cache_domains[k].mask = cmask
      /\ k \notin DOMAIN cache_domains => /\ k = Len(cache_domains) + 1
                                          /\ \A j \in DOMAIN cache_domains : cache_domains[j].mask # cmask
  BY <1>3, WithMaskLemma
<1>5. /\ p \in 1..(Len(packages) + 1)
      /\ p \in DOMAIN packages => packages[p].mask = pmask
      /\ p \notin DOMAIN packages => /\ p = Len(packages) + 1
                                     /\ \A j \in DOMAIN packages : packages[j].mask # pmask
  BY <1>3, WithMaskLemma
<1>6. k \in Nat /\ p \in Nat /\ x \in Nat
  BY <1>3, <1>4, <1>5
<1>7. node \in Int /\ (node # None => node \in DOMAIN build_numa_node_list)
  <2>1. node \in {-1, NodeOf[c], None}
    BY DEF get_numa_node
  <2>2. node \in Int
    BY <1>2, <2>1 DEF None
  <2>3. node # None => node \in DOMAIN build_numa_node_list
    BY DEF get_numa_node, build_numa_node_list
  <2> QED BY <2>2, <2>3
<1> HIDE DEF c, cmask, pmask, x, k, p, node
<1>8. /\ caches \in Seq(CacheRec)
      /\ DOMAIN caches = DOMAIN cache_domains \cup {k}
      /\ \A j \in DOMAIN cache_domains : j # k => caches[j] = cache_domains[j]
      /\ caches[k].mask = cmask
      /\ ToSet(caches[k].children) = Kids(cache_domains, k) \cup {x}
      /\ k \in DOMAIN cache_domains => caches[k].parent = cache_domains[k].parent
  <2> DEFINE new == [mask |-> cmask, children |-> <<>>, parent |-> None]
             old == IF k \in DOMAIN cache_domains THEN cache_domains[k] ELSE new
  <2>1. new \in CacheRec /\ ToSet(new.children) = {}
    BY <1>2 DEF CacheRec, None, ToSet
  <2>2. HaveChildren(CacheRec, Nat, new)
    BY DEF CacheRec, HaveChildren
  <2>3. caches = JoinedWith(cache_domains, k, new, x)
    BY DEF add_cpu_to_cache_domain, k, Joined, JoinedWith
  <2> HIDE DEF caches
  <2>4. old \in CacheRec /\ old = IF k \in DOMAIN cache_domains THEN cache_domains[k] ELSE new
    BY <1>3, <2>1
  <2>5. old.mask = cmask
    <3>1. new.mask = cmask
      OBVIOUS
    <3> HIDE DEF new
    <3> QED BY <1>4, <3>1
  <2>6. ToSet(old.children) = Kids(cache_domains, k)
    <3> HIDE DEF new
    <3> QED BY <2>1 DEF Kids
  <2> HIDE DEF new, old
  <2>7. /\ caches \in Seq(CacheRec)
        /\ DOMAIN caches = DOMAIN cache_domains \cup {k}
        /\ \A j \in DOMAIN cache_domains : j # k => caches[j] = cache_domains[j]
        /\ caches[k] = WithChild(old, x)
        /\ ToSet(caches[k].children) = ToSet(old.children) \cup {x}
    <3>1. k \in 1..(Len(cache_domains) + 1) /\ cache_domains \in Seq(CacheRec) /\ x \in Nat
      BY <1>3, <1>4, <1>6
    <3>2. new \in CacheRec
      BY <2>1
    <3>3. IsJoined(CacheRec, cache_domains, k, x, old, caches)
      BY ONLY <3>1, <3>2, <2>2, <2>3, <2>4, JoinLemma, Zenon
    <3> QED BY <3>3 DEF IsJoined
  <2>8. caches[k].mask = old.mask /\ caches[k].parent = old.parent
    BY <2>4, <2>7 DEF CacheRec, WithChild
  <2>9. k \in DOMAIN cache_domains => old = cache_domains[k]
    BY <2>4
  <2> QED BY <2>5, <2>6, <2>7, <2>8, <2>9
<1>9. /\ pkgs \in Seq(PkgRec)
      /\ DOMAIN pkgs = DOMAIN packages \cup {p}
      /\ \A j \in DOMAIN packages : j # p => pkgs[j] = packages[j]
      /\ pkgs[p].mask = pmask
      /\ ToSet(pkgs[p].children) = Kids(packages, p) \cup {k}
      /\ pkgs[p].parent = IF p \in DOMAIN packages THEN packages[p].parent ELSE None
  <2> DEFINE new == [mask |-> pmask, number |-> packageid(c), children |-> <<>>, parent |-> None]
             old == IF p \in DOMAIN packages THEN packages[p] ELSE new
  <2>1. new \in PkgRec /\ ToSet(new.children) = {} /\ new.parent = None
    BY <1>2 DEF PkgRec, None, ToSet
  <2>2. HaveChildren(PkgRec, Nat, new)
    BY DEF PkgRec, HaveChildren
  <2>3. pkgs = JoinedWith(packages, p, new, k)
    BY DEF add_cache_domain_to_package, p, Joined, JoinedWith
  <2> HIDE DEF pkgs
  <2>4. old \in PkgRec /\ old = IF p \in DOMAIN packages THEN packages[p] ELSE new
    BY <1>3, <2>1
  <2>5. old.mask = pmask
    <3>1. new.mask = pmask
      OBVIOUS
    <3> HIDE DEF new
    <3> QED BY <1>5, <3>1
  <2>6. ToSet(old.children) = Kids(packages, p)
    <3> HIDE DEF new
    <3> QED BY <2>1 DEF Kids
  <2> HIDE DEF new, old
  <2>7. IsJoined(PkgRec, packages, p, k, old, pkgs)
    <3>1. p \in 1..(Len(packages) + 1) /\ packages \in Seq(PkgRec) /\ k \in Nat
      BY <1>3, <1>5, <1>6
    <3>2. new \in PkgRec
      BY <2>1
    <3> QED BY ONLY <3>1, <3>2, <2>2, <2>3, <2>4, JoinLemma, Zenon
  <2>8. /\ pkgs \in Seq(PkgRec)
        /\ DOMAIN pkgs = DOMAIN packages \cup {p}
        /\ \A j \in DOMAIN packages : j # p => pkgs[j] = packages[j]
        /\ pkgs[p] = WithChild(old, k)
        /\ ToSet(pkgs[p].children) = ToSet(old.children) \cup {k}
    BY <2>7 DEF IsJoined
  <2>9. pkgs[p].mask = old.mask /\ pkgs[p].parent = old.parent
    BY <2>4, <2>8 DEF PkgRec, WithChild
  <2>10. old.parent = IF p \in DOMAIN packages THEN packages[p].parent ELSE None
    BY <2>1, <2>4
  <2> QED BY <2>5, <2>6, <2>8, <2>9, <2>10
<1>10. knew <=> Knew(k, p)
  BY DEF Knew, Kids
<1>11. first <=> First(p, node)
  BY <1>9 DEF First, add_package_to_node
<1> HIDE DEF caches, pkgs, knew, first
<1>12. cpus' \in Seq(CpuRec) /\ NewCpu(c, k)
  <2> DEFINE r == [number |-> c, parent |-> k]
  <2>1. r \in CpuRec
    BY <1>2, <1>6 DEF CpuRec
  <2>2. cpus' = Append(cpus, r)
    BY <1>1
  <2> HIDE DEF r
  <2>3. cpus' \in Seq(CpuRec) /\ Len(cpus') = Len(cpus) + 1 /\ DOMAIN cpus' = 1..(Len(cpus) + 1)
    BY <1>3, <2>1, <2>2
  <2>4. cpus'[Len(cpus) + 1] = r /\ \A y \in DOMAIN cpus : cpus'[y] = cpus[y]
    BY <1>3, <2>1, <2>2
  <2>5. DOMAIN cpus' = DOMAIN cpus \cup {Len(cpus) + 1} /\ Len(cpus) + 1 \notin DOMAIN cpus
    BY <1>3, <2>3
  <2> QED BY <2>3, <2>4, <2>5 DEF NewCpu, r
<1>13. cache_domains' \in Seq(CacheRec) /\ InCache(k, p)
  <2> DEFINE par == IF knew THEN caches[k].parent ELSE p
             rec == [caches[k] EXCEPT !.parent = par]
  <2>1. k \in DOMAIN caches /\ caches[k] \in CacheRec
    <3>1. caches \in Seq(CacheRec) /\ k \in DOMAIN caches
      BY <1>8
    <3> QED BY ONLY <3>1, ElementOfSeq
  <2>2. par \in Int
    BY <1>6, <2>1 DEF CacheRec
  <2>3. cache_domains' = [caches EXCEPT ![k] = rec]
    BY <1>1, <2>1
  <2> HIDE DEF par
  <2>4. /\ rec \in CacheRec /\ rec.mask = caches[k].mask /\ rec.children = caches[k].children
        /\ rec.parent = par
    BY <2>1, <2>2 DEF CacheRec
  <2> HIDE DEF rec
  <2>5. cache_domains' \in Seq(CacheRec)
    BY <1>8, <2>1, <2>3, <2>4
  <2>6. /\ DOMAIN cache_domains' = DOMAIN cache_domains \cup {k}
        /\ cache_domains'[k] = rec
        /\ \A j \in DOMAIN cache_domains : j # k => cache_domains'[j] = cache_domains[j]
    BY <1>8, <2>1, <2>3
  <2>7. par = IF k \in DOMAIN cache_domains /\ Knew(k, p) THEN cache_domains[k].parent ELSE p
    <3>1. Knew(k, p) => k \in DOMAIN cache_domains
      BY DEF Knew, Kids, Linked
    <3> QED BY <1>8, <1>10, <3>1 DEF par
  <2> QED BY <1>4, <1>8, <2>4, <2>5, <2>6, <2>7 DEF InCache, cmask, x
<1>14. packages' \in Seq(PkgRec) /\ InPackage(k, p, node)
  <2> DEFINE par == IF first THEN node ELSE pkgs[p].parent
             rec == [pkgs[p] EXCEPT !.parent = par]
  <2>1. p \in DOMAIN pkgs /\ pkgs[p] \in PkgRec
    <3>1. pkgs \in Seq(PkgRec) /\ p \in DOMAIN pkgs
      BY <1>9
    <3> QED BY ONLY <3>1, ElementOfSeq
  <2>2. par \in Int
    BY <1>7, <2>1 DEF PkgRec
  <2>3. packages' = [pkgs EXCEPT ![p] = rec]
    BY <1>1, <2>1
  <2> HIDE DEF par
  <2>4. /\ rec \in PkgRec /\ rec.mask = pkgs[p].mask /\ rec.children = pkgs[p].children
        /\ rec.parent = par
    BY <2>1, <2>2 DEF PkgRec
  <2> HIDE DEF rec
  <2>5. packages' \in Seq(PkgRec)
    BY <1>9, <2>1, <2>3, <2>4
  <2>6. /\ DOMAIN packages' = DOMAIN packages \cup {p}
        /\ packages'[p] = rec
        /\ \A j \in DOMAIN packages : j # p => packages'[j] = packages[j]
    BY <1>9, <2>1, <2>3
  <2>7. par = IF First(p, node) THEN node
              ELSE IF p \in DOMAIN packages THEN packages[p].parent ELSE None
    BY <1>9, <1>11 DEF par
  <2> QED BY <1>5, <1>9, <2>4, <2>5, <2>6, <2>7 DEF InPackage, pmask
<1>15. numa_nodes' \in [DOMAIN build_numa_node_list -> Seq(Nat)] /\ InNode(p, node)
  <2>1. /\ numa_nodes \in [DOMAIN build_numa_node_list -> Seq(Nat)]
        /\ node # None => node \in DOMAIN numa_nodes
    BY <1>7 DEF Lists
  <2>2. CASE First(p, node)
    <3> DEFINE old == numa_nodes[node]
               new == Append(old, p)
    <3>1. node \in DOMAIN numa_nodes /\ old \in Seq(Nat)
      BY <2>1, <2>2 DEF First
    <3>2. numa_nodes' = [numa_nodes EXCEPT ![node] = new]
      BY <1>1, <1>11, <2>2
    <3> HIDE DEF old
    <3>3. new \in Seq(Nat) /\ ToSet(new) = ToSet(old) \cup {p}
      BY <1>6, <3>1, AppendLemma
    <3> HIDE DEF new
    <3>4. numa_nodes' \in [DOMAIN build_numa_node_list -> Seq(Nat)]
      BY <2>1, <3>1, <3>2, <3>3
    <3>5. /\ DOMAIN numa_nodes' = DOMAIN numa_nodes /\ numa_nodes'[node] = new
          /\ \A n \in DOMAIN numa_nodes : n # node => numa_nodes'[n] = numa_nodes[n]
      BY <2>1, <3>1, <3>2
    <3> QED BY <2>1, <2>2, <3>3, <3>4, <3>5 DEF InNode, old
  <2>3. CASE ~First(p, node)
    <3>1. numa_nodes' = numa_nodes
      BY <1>1, <1>11, <2>3
    <3> QED BY <2>1, <2>3, <3>1 DEF InNode
  <2> QED BY <2>2, <2>3
<1>16. Lists'
  <2>1. (DOMAIN build_numa_node_list)' = DOMAIN build_numa_node_list
    BY DEF build_numa_node_list
  <2> QED BY <1>12, <1>13, <1>14, <1>15, <2>1 DEF Lists
<1>17. Added(c, k, p, node)
  BY <1>2, <1>12, <1>13, <1>14, <1>15 DEF Added, c, node
<1> QED BY <1>2, <1>6, <1>7, <1>16, <1>17

-----------------------------------------------------------------------------
(* Nothing is ever taken out of a list of children while a scan goes on. *)
LEMMA AddKeeps ==
    ASSUME Linked, NEW c \in CpuIds, NEW k \in Nat, NEW p \in Nat, NEW node \in Int,
           Added(c, k, p, node)
    PROVE  /\ \A q \in DOMAIN packages : /\ q \in DOMAIN packages'
                                         /\ ToSet(packages[q].children) \subseteq ToSet(packages'[q].children)
                                         /\ packages[q].parent # None => packages'[q].parent # None
           /\ \A j, q : q \in Holding(j) => q \in Holding(j)'
           /\ p \in Holding(k)'
           /\ node # None => packages'[p].parent # None
<1>1. \A q \in DOMAIN packages : /\ q \in DOMAIN packages'
                                 /\ ToSet(packages[q].children) \subseteq ToSet(packages'[q].children)
                                 /\ packages[q].parent # None => packages'[q].parent # None
  BY DEF Added, InPackage, Kids, First
<1>2. \A j, q : q \in Holding(j) => q \in Holding(j)'
  BY <1>1 DEF Holding
<1>3. p \in Holding(k)'
  BY DEF Added, InPackage, Holding
<1>4. node # None => packages'[p].parent # None
  BY DEF Added, InPackage, First
<1> QED BY <1>1, <1>2, <1>3, <1>4

LEMMA AddLinked ==
    ASSUME Linked, NEW c \in CpuIds, NEW k \in Nat, NEW p \in Nat, NEW node \in Int,
           Added(c, k, p, node)
    PROVE  Linked'
<1>1. \A x \in DOMAIN cpus' : cpus'[x].parent \in DOMAIN cache_domains'
  BY DEF Added, NewCpu, InCache, Linked
<1>2. \A j \in DOMAIN cache_domains' : ToSet(cache_domains'[j].children) \subseteq DOMAIN cpus'
  BY DEF Added, NewCpu, InCache, Linked, Kids
<1>3. \A q \in DOMAIN packages' : ToSet(packages'[q].children) \subseteq DOMAIN cache_domains'
  BY DEF Added, InPackage, InCache, Linked, Kids
<1>4. \A n \in DOMAIN numa_nodes' : ToSet(numa_nodes'[n]) \subseteq DOMAIN packages'
  BY DEF Added, InPackage, InNode, Linked
<1> QED BY <1>1, <1>2, <1>3, <1>4 DEF Linked

LEMMA AddReached ==
    ASSUME Linked, EveryCpuReached,
           NEW c \in CpuIds, NEW k \in Nat, NEW p \in Nat, NEW node \in Int,
           Added(c, k, p, node)
    PROVE  EveryCpuReached'
<1> DEFINE x == Len(cpus) + 1
<1>1. ASSUME NEW y \in DOMAIN cpus' PROVE CpuHolding(y)' = {cpus'[y].parent}
  <2>1. CASE y = x
    <3>1. cpus'[y].parent = k
      BY <2>1 DEF Added, NewCpu
    <3>2. y \notin DOMAIN cpus
      BY <2>1 DEF Added, NewCpu
    <3>3. \A j \in DOMAIN cache_domains' : y \in ToSet(cache_domains'[j].children) <=> j = k
      BY <2>1, <3>2 DEF Added, InCache, Linked
    <3>4. k \in DOMAIN cache_domains'
      BY DEF Added, InCache
    <3> QED BY <3>1, <3>3, <3>4 DEF CpuHolding
  <2>2. CASE y # x
    <3>1. y \in DOMAIN cpus /\ cpus'[y] = cpus[y] /\ cpus[y].parent \in DOMAIN cache_domains
      BY <2>2 DEF Added, NewCpu, Linked
    <3>2. \A j \in DOMAIN cache_domains : y \in ToSet(cache_domains[j].children) <=> j = cpus[y].parent
      BY <3>1 DEF EveryCpuReached, CpuHolding
    <3>3. \A j \in DOMAIN cache_domains' : y \in ToSet(cache_domains'[j].children) <=> j = cpus[y].parent
      BY <2>2, <3>1, <3>2 DEF Added, InCache, Kids
    <3>4. cpus[y].parent \in DOMAIN cache_domains'
      BY <3>1 DEF Added, InCache
    <3> QED BY <3>1, <3>3, <3>4 DEF CpuHolding
  <2> QED BY <2>1, <2>2
<1>2. ASSUME NEW j \in DOMAIN cache_domains' PROVE cache_domains'[j].parent \in Holding(j)'
  <2>1. CASE j = k
    <3>1. CASE k \in DOMAIN cache_domains /\ Knew(k, p)
      <4>1. cache_domains'[k].parent = cache_domains[k].parent
        BY <3>1 DEF Added, InCache
      <4>2. cache_domains[k].parent \in Holding(k)
        BY <3>1 DEF EveryCpuReached
      <4> QED BY <2>1, <4>1, <4>2, AddKeeps
    <3>2. CASE ~(k \in DOMAIN cache_domains /\ Knew(k, p))
      <4>1. cache_domains'[k].parent = p
        BY <3>2 DEF Added, InCache
      <4> QED BY <2>1, <4>1, AddKeeps
    <3> QED BY <3>1, <3>2
  <2>2. CASE j # k
    <3>1. j \in DOMAIN cache_domains /\ cache_domains'[j] = cache_domains[j]
      BY <2>2 DEF Added, InCache
    <3>2. cache_domains[j].parent \in Holding(j)
      BY <3>1 DEF EveryCpuReached
    <3> QED BY <3>1, <3>2, AddKeeps
  <2> QED BY <2>1, <2>2
<1>3. ASSUME NEW q \in DOMAIN packages' PROVE NodesHolding(q)' = {packages'[q].parent} \ {None}
  <2>1. q \in DOMAIN packages =>
           \A n \in DOMAIN numa_nodes : q \in ToSet(numa_nodes[n]) <=> n \in {packages[q].parent} \ {None}
    BY DEF EveryCpuReached, NodesHolding
  <2>2. q \in DOMAIN packages => {packages[q].parent} \ {None} \subseteq DOMAIN numa_nodes
    BY DEF EveryCpuReached, NodesHolding
  <2>3. q \notin DOMAIN packages => q = p /\ \A n \in DOMAIN numa_nodes : q \notin ToSet(numa_nodes[n])
    BY DEF Linked, Added, InPackage
  <2>4. CASE q # p
    <3>1. q \in DOMAIN packages /\ packages'[q] = packages[q]
      BY <2>4 DEF Added, InPackage
    <3>2. \A n \in DOMAIN numa_nodes : q \in ToSet(numa_nodes'[n]) <=> q \in ToSet(numa_nodes[n])
      BY <2>4 DEF Added, InNode
    <3>3. DOMAIN numa_nodes' = DOMAIN numa_nodes
      BY DEF Added, InNode
    <3> QED BY <2>1, <2>2, <3>1, <3>2, <3>3 DEF NodesHolding
  <2>5. CASE q = p /\ First(p, node)
    <3>1. packages'[p].parent = node /\ node # None /\ node \in DOMAIN numa_nodes'
      BY <2>5 DEF Added, InPackage, InNode, First
    <3>2. \A n \in DOMAIN numa_nodes : p \notin ToSet(numa_nodes[n])
      BY <2>1, <2>3, <2>5 DEF First
    <3>3. \A n \in DOMAIN numa_nodes' : p \in ToSet(numa_nodes'[n]) <=> n = node
      BY <2>5, <3>2 DEF Added, InNode
    <3> QED BY <2>5, <3>1, <3>3 DEF NodesHolding
  <2>6. CASE q = p /\ ~First(p, node)
    <3>1. DOMAIN numa_nodes' = DOMAIN numa_nodes
          /\ \A n \in DOMAIN numa_nodes : ToSet(numa_nodes'[n]) = ToSet(numa_nodes[n])
      BY <2>6 DEF Added, InNode
    <3>2. packages'[p].parent = IF p \in DOMAIN packages THEN packages[p].parent ELSE None
      BY <2>6 DEF Added, InPackage
    <3> QED BY <2>1, <2>2, <2>3, <2>6, <3>1, <3>2 DEF NodesHolding
  <2> QED BY <2>4, <2>5, <2>6
<1>4. ASSUME NEW y \in DOMAIN cpus', get_numa_node(NodeOf[cpus'[y].number]) # None
      PROVE  \E q \in DOMAIN packages' : /\ cpus'[y].parent \in ToSet(packages'[q].children)
                                          /\ packages'[q].parent # None
  <2>1. CASE y = x
    <3>1. cpus'[y].parent = k /\ cpus'[y].number = c /\ node # None
      BY <1>4, <2>1 DEF Added, NewCpu
    <3>2. p \in Holding(k)' /\ packages'[p].parent # None
      BY <3>1, AddKeeps
    <3>3. p \in DOMAIN packages' /\ k \in ToSet(packages'[p].children)
      BY <3>2 DEF Holding
    <3> QED BY <3>1, <3>2, <3>3
  <2>2. CASE y # x
    <3>1. y \in DOMAIN cpus /\ cpus'[y] = cpus[y]
      BY <2>2 DEF Added, NewCpu
    <3>2. PICK q \in Holding(cpus[y].parent) : packages[q].parent # None
      BY <1>4, <3>1 DEF EveryCpuReached
    <3>3. q \in DOMAIN packages /\ cpus[y].parent \in ToSet(packages[q].children)
      BY DEF Holding
    <3>4. /\ q \in DOMAIN packages' /\ packages'[q].parent # None
          /\ cpus[y].parent \in ToSet(packages'[q].children)
      BY <3>2, <3>3, AddKeeps
    <3> QED BY <3>1, <3>4
  <2> QED BY <2>1, <2>2
<1>5. /\ \A y \in DOMAIN cpus' : CpuHolding(y)' = {cpus'[y].parent}
      /\ \A j \in DOMAIN cache_domains' : cache_domains'[j].parent \in Holding(j)'
      /\ \A q \in DOMAIN packages' : NodesHolding(q)' = {packages'[q].parent} \ {None}
  BY <1>1, <1>2, <1>3
<1>6. \A y \in DOMAIN cpus' : get_numa_node(NodeOf[cpus'[y].number]) # None =>
         \E q \in {r \in DOMAIN packages' : cpus'[y].parent \in ToSet(packages'[r].children)} :
            packages'[q].parent # None
  BY <1>4
<1> QED BY <1>5, <1>6 DEF EveryCpuReached, Holding, CpuHolding, NodesHolding, get_numa_node

LEMMA AddBlanked ==
    ASSUME BannedBlankedOut,
           NEW c \in CpuIds, NEW k \in Nat, NEW p \in Nat, NEW node \in Int,
           Added(c, k, p, node)
    PROVE  BannedBlankedOut'
<1>1. CacheMask \cap banned_cpus = {} /\ PkgMask \cap banned_cpus = {}
  BY DEF CacheMask, PkgMask, unbanned_cpus
<1>2. \A j \in DOMAIN cache_domains' : cache_domains'[j].mask \cap banned_cpus = {}
  BY <1>1 DEF Added, InCache, BannedBlankedOut
<1>3. \A q \in DOMAIN packages' : packages'[q].mask \cap banned_cpus = {}
  BY <1>1 DEF Added, InPackage, BannedBlankedOut
<1>4. \A y \in DOMAIN cpus' : cpus'[y].number \notin banned_cpus
  BY DEF Added, NewCpu, BannedBlankedOut
<1> QED BY <1>2, <1>3, <1>4 DEF BannedBlankedOut

-----------------------------------------------------------------------------
(* Only the insertions and a rescan touch the tree. *)
LEMMA TreeFrame ==
    ASSUME Tree, UNCHANGED <<numa_nodes, packages, cache_domains, cpus>>
    PROVE  Tree'
<1>1. Lists'
  BY DEF Tree, Lists, build_numa_node_list
<1>2. Linked'
  BY DEF Tree, Linked
<1>3. EveryCpuReached'
  BY DEF Tree, EveryCpuReached, CpuHolding, Holding, NodesHolding, get_numa_node
<1>4. BannedBlankedOut'
  BY DEF Tree, BannedBlankedOut
<1> QED BY <1>1, <1>2, <1>3, <1>4 DEF Tree

(* What a scan starts from. *)
NoTree ==
    /\ numa_nodes = build_numa_node_list
    /\ packages = <<>> /\ cache_domains = <<>> /\ cpus = <<>>

LEMMA NothingInEmpty ==
    ASSUME NEW s, s = <<>>
    PROVE  DOMAIN s = {} /\ ToSet(s) = {}
<1>1. DOMAIN s = {}
  OBVIOUS
<1>2. ToSet(s) = {}
  BY <1>1 DEF ToSet
<1> QED BY <1>1, <1>2

LEMMA NoPackages ==
    /\ build_numa_node_list \in [DOMAIN build_numa_node_list -> Seq(Nat)]
    /\ \A n \in DOMAIN build_numa_node_list : ToSet(build_numa_node_list[n]) = {}
<1> DEFINE N == {-1} \cup (IF numa_avail THEN NodeIds ELSE {})
<1>1. build_numa_node_list = [n \in N |-> <<>>]
  BY DEF build_numa_node_list
<1> HIDE DEF N
<1>2. DOMAIN build_numa_node_list = N /\ \A n \in N : build_numa_node_list[n] = <<>>
  BY <1>1
<1>3. build_numa_node_list \in [N -> Seq(Nat)]
  BY <1>1
<1>4. \A n \in N : ToSet(build_numa_node_list[n]) = {}
  BY <1>2, NothingInEmpty, Zenon
<1> QED BY <1>2, <1>3, <1>4

LEMMA NoTreeInit ==
    ASSUME NoTree PROVE Tree
<1>1. /\ DOMAIN cpus = {} /\ DOMAIN packages = {} /\ DOMAIN cache_domains = {}
      /\ cpus \in Seq(CpuRec) /\ cache_domains \in Seq(CacheRec) /\ packages \in Seq(PkgRec)
  BY NothingInEmpty DEF NoTree
<1>2. /\ numa_nodes \in [DOMAIN build_numa_node_list -> Seq(Nat)]
      /\ \A n \in DOMAIN numa_nodes : ToSet(numa_nodes[n]) = {}
  BY NoPackages DEF NoTree
<1> QED BY <1>1, <1>2 DEF Tree, Lists, Linked, EveryCpuReached, BannedBlankedOut

LEMMA NoTreeNext ==
    ASSUME NoTree' PROVE Tree'
<1>1. /\ DOMAIN cpus' = {} /\ DOMAIN packages' = {} /\ DOMAIN cache_domains' = {}
      /\ cpus' \in Seq(CpuRec) /\ cache_domains' \in Seq(CacheRec) /\ packages' \in Seq(PkgRec)
  BY NothingInEmpty DEF NoTree
<1>2. /\ numa_nodes' \in [DOMAIN build_numa_node_list -> Seq(Nat)]
      /\ \A n \in DOMAIN numa_nodes' : ToSet(numa_nodes'[n]) = {}
  BY NoPackages DEF NoTree, build_numa_node_list
<1>3. (DOMAIN build_numa_node_list)' = DOMAIN build_numa_node_list
  BY DEF build_numa_node_list
<1> QED BY <1>1, <1>2, <1>3 DEF Tree, Lists, Linked, EveryCpuReached, BannedBlankedOut

LEMMA TreeStep ==
    ASSUME Tree, Scanning, [Next]_vars
    PROVE  Tree'
<1>1. CASE UNCHANGED <<numa_nodes, packages, cache_domains, cpus>>
  BY <1>1, TreeFrame
<1>2. CASE AddCpu
  <2>1. PICK c \in CpuIds, k \in Nat, p \in Nat, node \in Int : Added(c, k, p, node)
    BY <1>2, AddLemma DEF Tree
  <2>2. Lists'
    BY <1>2, AddLemma DEF Tree
  <2>3. Linked' /\ EveryCpuReached' /\ BannedBlankedOut'
    BY <2>1, AddLinked, AddReached, AddBlanked DEF Tree
  <2> QED BY <2>2, <2>3 DEF Tree
<1>3. CASE Rescan
  <2>1. NoTree'
    BY <1>3 DEF Rescan, NoTree, build_numa_node_list
  <2> QED BY <2>1, NoTreeNext
<1>4. UNCHANGED <<numa_nodes, packages, cache_domains, cpus>> \/ AddCpu \/ Rescan
  BY DEF Next, Hotplug, do_one_cpu, ReadSiblings, ScanDone, vars, treeVars
<1> QED BY <1>1, <1>2, <1>3, <1>4

-----------------------------------------------------------------------------
(* The loop: directories are left one by one, in the order of todo. *)
LEMMA ScanningStep ==
    ASSUME Scanning, [Next]_vars
    PROVE  Scanning'
<1>1. /\ pc \in {"scan", "siblings", "insert", "built"} /\ online \subseteq CpuIds
      /\ todo \in Seq(CpuIds) /\ IsInjective(todo)
      /\ cur \in [cpu : CpuIds \cup {None}, package_mask : SUBSET CpuIds]
      /\ pc \in {"siblings", "insert"} => /\ todo # <<>> /\ cur.cpu = Head(todo)
                                          /\ cur.cpu \notin banned_cpus
      /\ pc = "built" => todo = <<>>
  BY DEF Scanning
<1>2. todo # <<>> => Tail(todo) \in Seq(CpuIds) /\ IsInjective(Tail(todo)) /\ Head(todo) \in CpuIds
  BY <1>1, TailLemma
<1>3. ASSUME NEW c \in CpuIds, Hotplug(c) PROVE Scanning'
  <2>1. online' \subseteq CpuIds /\ UNCHANGED <<pc, todo, cur>>
    BY <1>1, <1>3 DEF Hotplug
  <2> QED BY <1>1, <2>1 DEF Scanning
<1>4. CASE do_one_cpu
  <2>1. /\ pc = "scan" /\ todo # <<>> /\ online' = online
        /\ \/ todo' = Tail(todo) /\ UNCHANGED <<pc, cur>>
           \/ /\ cur' = [cpu |-> Head(todo), package_mask |-> {}] /\ pc' = "siblings"
              /\ Head(todo) \notin banned_cpus /\ todo' = todo
    BY <1>4 DEF do_one_cpu
  <2>2. CASE todo' = Tail(todo) /\ UNCHANGED <<pc, cur>>
    BY <1>1, <1>2, <2>1, <2>2 DEF Scanning
  <2>3. CASE /\ cur' = [cpu |-> Head(todo), package_mask |-> {}] /\ pc' = "siblings"
             /\ Head(todo) \notin banned_cpus /\ todo' = todo
    BY <1>1, <1>2, <2>1, <2>3 DEF Scanning
  <2> QED BY <2>1, <2>2, <2>3
<1>5. CASE ReadSiblings
  <2>1. PICK mask \in SUBSET CpuIds : cur' = [cur EXCEPT !.package_mask = mask]
    <3>1. \A stack \in SUBSET CpuIds : stack \cup {cur.cpu} \in SUBSET CpuIds
      BY <1>1, <1>2, <1>5 DEF ReadSiblings
    <3>2. core_siblings(cur.cpu) \in SUBSET CpuIds
      BY <1>1 DEF core_siblings
    <3> QED BY <1>5, <3>1, <3>2 DEF ReadSiblings
  <2>2. pc = "siblings" /\ pc' = "insert" /\ UNCHANGED <<online, todo>>
    BY <1>5 DEF ReadSiblings
  <2>3. cur'.cpu = cur.cpu /\ cur' \in [cpu : CpuIds \cup {None}, package_mask : SUBSET CpuIds]
    BY <1>1, <2>1
  <2> QED BY <1>1, <2>2, <2>3 DEF Scanning
<1>6. CASE AddCpu
  <2>1. pc = "insert" /\ pc' = "scan" /\ todo' = Tail(todo) /\ UNCHANGED <<online, cur>>
    BY <1>6 DEF AddCpu
  <2> QED BY <1>1, <1>2, <2>1 DEF Scanning
<1>7. CASE ScanDone
  BY <1>1, <1>7 DEF ScanDone, Scanning
<1>8. CASE Rescan
  <2>1. todo' \in Seq(CpuIds) /\ IsInjective(todo')
    BY <1>8, CpuTreeAssumption DEF Rescan
  <2>2. pc' = "scan" /\ UNCHANGED <<online, cur>>
    BY <1>8 DEF Rescan
  <2> QED BY <1>1, <2>1, <2>2 DEF Scanning
<1>9. CASE UNCHANGED vars
  BY <1>1, <1>9 DEF Scanning, vars
<1> QED BY <1>3, <1>4, <1>5, <1>6, <1>7, <1>8, <1>9 DEF Next

LEMMA CountedStep ==
    ASSUME Scanning, Counted, [Next]_vars
    PROVE  Counted'
<1>1. todo \in Seq(CpuIds) /\ IsInjective(todo)
  BY DEF Scanning
<1>2. ToSet(todo) \subseteq CpuIds /\ IsFiniteSet(ToSet(todo)) /\ Cardinality(ToSet(todo)) \in Nat
  <2>1. ToSet(todo) \subseteq CpuIds
    BY <1>1 DEF ToSet
  <2>2. IsFiniteSet(CpuIds)
    BY CpuTreeAssumption
  <2> QED BY <2>1, <2>2, FS_Subset, FS_CardinalityType
<1>3. todo # <<>> => Cardinality(ToSet(Tail(todo))) = Cardinality(ToSet(todo)) - 1
  <2> SUFFICES ASSUME todo # <<>> PROVE Cardinality(ToSet(Tail(todo))) = Cardinality(ToSet(todo)) - 1
    OBVIOUS
  <2>1. ToSet(Tail(todo)) = ToSet(todo) \ {Head(todo)} /\ Head(todo) \in ToSet(todo)
    BY <1>1, TailLemma
  <2> QED BY <1>2, <2>1, FS_RemoveElement
<1>4. /\ core_count \in Nat
      /\ core_count + Cardinality(ToSet(todo)) <= Cardinality(CpuIds)
      /\ Cardinality(CpuIds) \in Nat
  BY CpuTreeAssumption, FS_CardinalityType DEF Counted
<1>5. CASE todo # <<>> /\ todo' = Tail(todo) /\ core_count' \in {core_count, core_count + 1}
  <2>1. Cardinality(ToSet(todo')) = Cardinality(ToSet(todo)) - 1
    BY <1>3, <1>5
  <2> QED BY <1>2, <1>4, <1>5, <2>1 DEF Counted
<1>6. CASE UNCHANGED <<todo, core_count>>
  BY <1>6 DEF Counted
<1>7. CASE Rescan
  <2>1. core_count' = 0 /\ ToSet(todo') = CpuIds
    BY <1>7, CpuTreeAssumption DEF Rescan
  <2> QED BY <1>4, <2>1 DEF Counted
<1>8. \/ todo # <<>> /\ todo' = Tail(todo) /\ core_count' \in {core_count, core_count + 1}
      \/ UNCHANGED <<todo, core_count>>
      \/ Rescan
  <2>1. AddCpu => todo # <<>> /\ todo' = Tail(todo) /\ core_count' = core_count + 1
    BY DEF AddCpu, Scanning
  <2>2. do_one_cpu => \/ todo # <<>> /\ todo' = Tail(todo) /\ core_count' \in {core_count, core_count + 1}
                      \/ UNCHANGED <<todo, core_count>>
    BY DEF do_one_cpu
  <2> QED BY <2>1, <2>2 DEF Next, Hotplug, ReadSiblings, ScanDone, vars, treeVars
<1> QED BY <1>5, <1>6, <1>7, <1>8

LEMMA TreeInvInit ==
    ASSUME Init PROVE TreeInv
<1>1. Scanning
  <2>1. todo \in Seq(CpuIds) /\ IsInjective(todo)
    BY CpuTreeAssumption DEF Init
  <2>2. cur \in [cpu : CpuIds \cup {None}, package_mask : SUBSET CpuIds]
    BY DEF Init
  <2> QED BY <2>1, <2>2 DEF Init, Scanning
<1>2. Counted
  <2>1. core_count = 0 /\ ToSet(todo) = CpuIds
    BY CpuTreeAssumption DEF Init
  <2>2. Cardinality(CpuIds) \in Nat
    BY CpuTreeAssumption, FS_CardinalityType
  <2> QED BY <2>1, <2>2 DEF Counted
<1>3. Tree
  BY NoTreeInit DEF Init, NoTree
<1> QED BY <1>1, <1>2, <1>3 DEF TreeInv

LEMMA TreeInvStep ==
    ASSUME TreeInv, [Next]_vars PROVE TreeInv'
BY ScanningStep, CountedStep, TreeStep DEF TreeInv

LEMMA TreeInvTypes ==
    ASSUME TreeInv PROVE TypeOK
<1>1. core_count \in 0..Cardinality(CpuIds)
  <2>1. Cardinality(CpuIds) \in Nat
    BY CpuTreeAssumption, FS_CardinalityType
  <2>2. Cardinality(ToSet(todo)) \in Nat
    <3>1. ToSet(todo) \subseteq CpuIds
      BY DEF TreeInv, Scanning, ToSet
    <3> QED BY <3>1, CpuTreeAssumption, FS_Subset, FS_CardinalityType
  <2> QED BY <2>1, <2>2 DEF TreeInv, Counted
<1>2. \A k \in DOMAIN cache_domains : cache_domains[k].parent \in DOMAIN packages
  BY DEF TreeInv, Tree, EveryCpuReached, Holding
<1> QED BY <1>1, <1>2 DEF TypeOK, TreeInv, Tree, Linked, Scanning

-----------------------------------------------------------------------------
(* A cpu that stays online is in the tree or has its directory to come.    *)
Seen == \A c \in steady \ banned_cpus :
            c \in ToSet(todo) \/ \E x \in DOMAIN cpus : cpus[x].number = c

LEMMA SeenInit ==
    ASSUME Init PROVE Seen
<1>1. ToSet(todo) = CpuIds /\ online \subseteq CpuIds
  BY CpuTreeAssumption DEF Init
<1> QED BY <1>1 DEF Seen, steady

LEMMA SeenStep ==
    ASSUME TreeInv, Seen, [Next]_vars PROVE Seen'
<1>1. todo # <<>> => ToSet(Tail(todo)) = ToSet(todo) \ {Head(todo)}
  BY TailLemma DEF TreeInv, Scanning
<1>2. CASE UNCHANGED <<todo, cpus>> /\ steady' \subseteq steady
  BY <1>2 DEF Seen
<1>3. ASSUME NEW c \in CpuIds, Hotplug(c) PROVE Seen'
  <2>1. UNCHANGED <<todo, cpus>> /\ steady' \subseteq steady
    BY <1>3 DEF Hotplug, steady, treeVars
  <2> QED BY <1>2, <2>1
<1>4. CASE do_one_cpu
  <2>1. /\ UNCHANGED <<cpus, online, changed>>
        /\ \/ todo' = todo
           \/ /\ todo # <<>> /\ todo' = Tail(todo)
              /\ Head(todo) \notin online \ banned_cpus
    BY <1>4 DEF do_one_cpu
  <2> QED BY <1>1, <2>1 DEF Seen, steady
<1>5. CASE AddCpu
  <2>1. PICK c \in CpuIds, k \in Nat, p \in Nat, node \in Int : Added(c, k, p, node)
    BY <1>5, AddLemma DEF TreeInv, Tree
  <2>2. /\ todo # <<>> /\ todo' = Tail(todo) /\ c = Head(todo) /\ UNCHANGED <<online, changed>>
    BY <1>5, <2>1 DEF AddCpu, Added, TreeInv, Scanning
  <2>3. \A x \in DOMAIN cpus : x \in DOMAIN cpus' /\ cpus'[x] = cpus[x]
    BY <2>1 DEF Added, NewCpu
  <2>4. \E x \in DOMAIN cpus' : cpus'[x].number = c
    BY <2>1 DEF Added, NewCpu
  <2>5. ASSUME NEW y \in (steady \ banned_cpus)'
        PROVE  y \in ToSet(todo') \/ \E x \in DOMAIN cpus' : cpus'[x].number = y
    <3>1. y \in steady \ banned_cpus
      BY <2>2, <2>5 DEF steady
    <3>2. y \in ToSet(todo) \/ \E x \in DOMAIN cpus : cpus[x].number = y
      BY <3>1 DEF Seen
    <3> QED BY <1>1, <2>2, <2>3, <2>4, <3>2
  <2> QED BY <2>5 DEF Seen
<1>6. CASE Rescan
  <2>1. ToSet(todo') = CpuIds /\ online' \subseteq CpuIds
    BY <1>6, CpuTreeAssumption DEF Rescan, TreeInv, Scanning
  <2> QED BY <2>1 DEF Seen, steady
<1>7. CASE ReadSiblings \/ ScanDone \/ UNCHANGED vars
  <2>1. UNCHANGED <<todo, cpus>> /\ steady' \subseteq steady
    BY <1>7 DEF ReadSiblings, ScanDone, vars, treeVars, steady
  <2> QED BY <1>2, <2>1
<1> QED BY <1>3, <1>4, <1>5, <1>6, <1>7 DEF Next

(* At the end no directory is left; and down from a node the cpu is found  *)
(* the way its pointers go up.                                             *)
LEMMA SeenIsFound ==
    ASSUME TreeInv, Seen PROVE EveryCpuFound
<1> SUFFICES ASSUME pc = "built", NEW c \in steady \ banned_cpus
             PROVE  /\ \E x \in DOMAIN cpus : cpus[x].number = c
                    /\ get_numa_node(NodeOf[c]) # None => FromTop(c)
  BY DEF EveryCpuFound
<1>1. ToSet(todo) = {}
  BY NothingInEmpty DEF TreeInv, Scanning
<1>2. PICK x \in DOMAIN cpus : cpus[x].number = c
  BY <1>1 DEF Seen
<1>3. EveryCpuReached /\ Linked
  BY DEF TreeInv, Tree
<1> DEFINE k == cpus[x].parent
<1>4. k \in DOMAIN cache_domains /\ x \in ToSet(cache_domains[k].children)
  <2>1. CpuHolding(x) = {k}
    BY <1>2, <1>3 DEF EveryCpuReached
  <2> QED BY <2>1 DEF CpuHolding
<1>5. ASSUME get_numa_node(NodeOf[c]) # None PROVE FromTop(c)
  <2>1. PICK p \in Holding(k) : packages[p].parent # None
    BY <1>2, <1>3, <1>5 DEF EveryCpuReached
  <2>2. p \in DOMAIN packages /\ k \in ToSet(packages[p].children)
    BY <2>1 DEF Holding
  <2>3. packages[p].parent \in NodesHolding(p)
    BY <1>3, <2>1, <2>2 DEF EveryCpuReached
  <2>4. packages[p].parent \in DOMAIN numa_nodes /\ p \in ToSet(numa_nodes[packages[p].parent])
    BY <2>3 DEF NodesHolding
  <2> QED BY <1>2, <1>4, <2>2, <2>4 DEF FromTop
<1> QED BY <1>2, <1>5

(* The tree of a scan is sound whatever the kernel does meanwhile: the     *)
(* positions point into the lists, no cpu that stays online is missing,    *)
(* every cpu is reached from the top once, and no banned cpu is in a mask  *)
(* or in the tree.                                                         *)
THEOREM ScannedTreeIsSound ==
    Spec => [](TypeOK /\ EveryCpuReached /\ EveryCpuFound /\ BannedBlankedOut)
<1>1. Init => TreeInv /\ Seen
  BY TreeInvInit, SeenInit
<1>2. TreeInv /\ Seen /\ [Next]_vars => (TreeInv /\ Seen)'
  BY TreeInvStep, SeenStep
<1>3. TreeInv /\ Seen => TypeOK /\ EveryCpuReached /\ EveryCpuFound /\ BannedBlankedOut
  BY TreeInvTypes, SeenIsFound DEF TreeInv, Tree
<1> QED BY <1>1, <1>2, <1>3, PTL DEF Spec

-----------------------------------------------------------------------------
(* The cpus that share the cache of c that do_one_cpu looks at, and the    *)
(* masks a cpu must get when nothing interferes.                           *)
Share(c)    == IF CacheIndex(c) = 0 THEN {c} ELSE {x \in CpuIds : SharesCache(x, c)}
Usable      == online \ banned_cpus
CacheSet(c) == Share(c) \cap Usable
PkgSet(c)   == {x \in Usable : PkgOf[x] = PkgOf[c]}

Quiet == stable /\ unread = {}

(* As long as no cpu went up or down the cpu at work is there, and the     *)
(* counter counts the online cpus whose directories are left.              *)
StableCount ==
    stable => /\ pc \in {"siblings", "insert"} => cur.cpu \in online
              /\ core_count = Cardinality(online \ ToSet(todo))

(* The cpu at work has read its siblings, and a cpu that is not banned is  *)
(* in the tree or has its directory still to come.                         *)
QuietScan ==
    /\ pc = "insert" => cur.package_mask = core_siblings(cur.cpu)
    /\ \A x \in DOMAIN cpus : cpus[x].number \in Usable
    /\ \A y \in Usable : y \in ToSet(todo) \/ \E x \in DOMAIN cpus : cpus[x].number = y

(* Objects with different masks, each of them with something below it, and *)
(* the masks those of the hardware.                                        *)
QuietCaches ==
    /\ \A x \in DOMAIN cpus : cache_domains[cpus[x].parent].mask = CacheSet(cpus[x].number)
    /\ \A k \in DOMAIN cache_domains : \E x \in DOMAIN cpus : cpus[x].parent = k
    /\ \A j, k \in DOMAIN cache_domains : cache_domains[j].mask = cache_domains[k].mask => j = k

QuietPackages ==
    /\ \A x \in DOMAIN cpus, p \in DOMAIN packages :
          cpus[x].parent \in ToSet(packages[p].children) => packages[p].mask = PkgSet(cpus[x].number)
    /\ \A p \in DOMAIN packages : ToSet(packages[p].children) # {}
    /\ \A p, q \in DOMAIN packages : packages[p].mask = packages[q].mask => p = q

QuietInv == StableCount /\ (Quiet => QuietScan /\ QuietCaches /\ QuietPackages)

(* Sharing a cache is an equivalence on regular hardware. *)
LEMMA ShareLemma ==
    ASSUME Regular, NEW c \in CpuIds
    PROVE  /\ c \in Share(c)
           /\ \A x \in Share(c) \cap CpuIds : Share(x) = Share(c) /\ PkgOf[x] = PkgOf[c]
<1>1. CacheIndex(c) \in Nat /\ (CacheIndex(c) # 0 => CacheIndex(c) \in DOMAIN CacheOf[c])
  <2>1. CacheOf[c] \in Seq(ToSet(CacheOf[c])) /\ deepest_cache \in Nat \ {0}
    BY CpuTreeAssumption
  <2>2. Len(CacheOf[c]) \in Nat /\ DOMAIN CacheOf[c] = 1..Len(CacheOf[c])
    BY <2>1
  <2> QED BY <2>1, <2>2 DEF CacheIndex
<1>2. c \in Share(c)
  BY <1>1 DEF Share, SharesCache
<1>3. ASSUME NEW x \in Share(c) \cap CpuIds PROVE Share(x) = Share(c) /\ PkgOf[x] = PkgOf[c]
  <2>1. CASE CacheIndex(c) = 0
    BY <2>1 DEF Share
  <2>2. CASE CacheIndex(c) # 0
    <3>1. SharesCache(x, c)
      BY <2>2 DEF Share
    <3>2. CacheIndex(x) = CacheIndex(c) /\ PkgOf[x] = PkgOf[c]
      BY <2>2, <3>1 DEF Regular
    <3>3. CacheOf[x][CacheIndex(x)] = CacheOf[c][CacheIndex(c)]
      BY <3>1, <3>2 DEF SharesCache
    <3>4. \A y \in CpuIds : SharesCache(y, x) <=> SharesCache(y, c)
      BY <3>2, <3>3 DEF SharesCache
    <3> QED BY <2>2, <3>2, <3>4 DEF Share
  <2> QED BY <2>1, <2>2
<1> QED BY <1>2, <1>3

LEMMA CacheSetLemma ==
    ASSUME Regular, online \subseteq CpuIds, NEW a \in Usable, NEW b \in Usable
    PROVE  /\ a \in CacheSet(a)
           /\ a \in CacheSet(b) => CacheSet(a) = CacheSet(b) /\ PkgSet(a) = PkgSet(b)
           /\ CacheSet(a) = CacheSet(b) => PkgSet(a) = PkgSet(b)
           /\ CacheSet(a) \subseteq PkgSet(a)
<1>1. a \in CpuIds /\ b \in CpuIds /\ Usable \subseteq CpuIds
  BY DEF Usable
<1>2. a \in CacheSet(a)
  BY <1>1, ShareLemma DEF CacheSet
<1>3. ASSUME a \in CacheSet(b) PROVE CacheSet(a) = CacheSet(b) /\ PkgSet(a) = PkgSet(b)
  <2>1. Share(a) = Share(b) /\ PkgOf[a] = PkgOf[b]
    BY <1>1, <1>3, ShareLemma DEF CacheSet
  <2> QED BY <2>1 DEF CacheSet, PkgSet
<1>4. CacheSet(a) \subseteq PkgSet(a)
  <2> SUFFICES ASSUME NEW y \in CacheSet(a) PROVE y \in PkgSet(a)
    OBVIOUS
  <2>1. y \in Usable /\ y \in Share(a) \cap CpuIds
    BY <1>1 DEF CacheSet
  <2>2. PkgOf[y] = PkgOf[a]
    BY <1>1, <2>1, ShareLemma
  <2> QED BY <2>1, <2>2 DEF PkgSet
<1> QED BY <1>2, <1>3, <1>4

(* What do_one_cpu adds for a cpu, when nothing has interfered. *)
LEMMA QuietMasks ==
    ASSUME Scanning, pc = "insert", cur.cpu \in online, QuietScan
    PROVE  /\ cur.cpu \in Usable
           /\ CacheMask = CacheSet(cur.cpu)
           /\ PkgMask = PkgSet(cur.cpu)
<1>1. cur.cpu \in online /\ cur.cpu \notin banned_cpus /\ online \subseteq CpuIds
  BY DEF QuietScan, Scanning
<1>2. CacheMask = CacheSet(cur.cpu)
  BY <1>1 DEF CacheMask, CacheSet, Share, Usable, shared_cpu_map, unbanned_cpus
<1>3. PkgMask = PkgSet(cur.cpu)
  BY <1>1 DEF PkgMask, PkgSet, Usable, core_siblings, unbanned_cpus, QuietScan
<1> QED BY <1>1, <1>2, <1>3 DEF Usable

LEMMA AddQuiet ==
    ASSUME Regular, Scanning, Linked, QuietScan, QuietCaches, QuietPackages, AddCpu,
           cur.cpu \in online,
           NEW c \in CpuIds, NEW k \in Nat, NEW p \in Nat, NEW node \in Int,
           Added(c, k, p, node)
    PROVE  (QuietScan /\ QuietCaches /\ QuietPackages)'
<1> DEFINE x == Len(cpus) + 1
<1>1. /\ c \in Usable /\ CacheMask = CacheSet(c) /\ PkgMask = PkgSet(c)
      /\ online \subseteq CpuIds /\ online' = online /\ pc' = "scan"
      /\ todo # <<>> /\ c = Head(todo) /\ todo' = Tail(todo)
  BY QuietMasks DEF AddCpu, Added, Scanning
<1>2. Usable' = Usable
  BY <1>1 DEF Usable
<1>3. /\ DOMAIN cpus' = DOMAIN cpus \cup {x} /\ x \notin DOMAIN cpus
      /\ cpus'[x].number = c /\ cpus'[x].parent = k
      /\ \A y \in DOMAIN cpus : cpus'[y] = cpus[y]
  BY DEF Added, NewCpu
<1>4. QuietScan'
  <2>1. ToSet(todo') = ToSet(todo) \ {c}
    <3>1. todo \in Seq(CpuIds) /\ IsInjective(todo)
      BY DEF Scanning
    <3> QED BY <1>1, <3>1, TailLemma
  <2>2. \A y \in DOMAIN cpus' : cpus'[y].number \in Usable
    BY <1>1, <1>3 DEF QuietScan
  <2>3. ASSUME NEW y \in Usable PROVE y \in ToSet(todo') \/ \E z \in DOMAIN cpus' : cpus'[z].number = y
    <3>1. CASE y = c
      BY <1>3, <3>1
    <3>2. CASE y # c
      <4>1. y \in ToSet(todo) => y \in ToSet(todo')
        BY <2>1, <3>2
      <4> QED BY <1>3, <4>1 DEF QuietScan
    <3> QED BY <3>1, <3>2
  <2> QED BY <1>1, <1>2, <2>2, <2>3 DEF QuietScan
<1>5. /\ DOMAIN cache_domains' = DOMAIN cache_domains \cup {k}
      /\ \A j \in DOMAIN cache_domains : cache_domains'[j].mask = cache_domains[j].mask
      /\ cache_domains'[k].mask = CacheSet(c)
      /\ k \notin DOMAIN cache_domains => \A j \in DOMAIN cache_domains : cache_domains[j].mask # CacheSet(c)
  BY <1>1 DEF Added, InCache
<1>6. QuietCaches'
  <2>1. ASSUME NEW y \in DOMAIN cpus' PROVE cache_domains'[cpus'[y].parent].mask = CacheSet(cpus'[y].number)
    <3>1. CASE y = x
      BY <1>3, <1>5, <3>1
    <3>2. CASE y # x
      <4>1. y \in DOMAIN cpus /\ cpus'[y] = cpus[y] /\ cpus[y].parent \in DOMAIN cache_domains
        BY <1>3, <3>2 DEF Linked
      <4> QED BY <1>5, <4>1 DEF QuietCaches
    <3> QED BY <3>1, <3>2
  <2>2. \A j \in DOMAIN cache_domains' : \E y \in DOMAIN cpus' : cpus'[y].parent = j
    BY <1>3, <1>5 DEF QuietCaches
  <2>3. \A i, j \in DOMAIN cache_domains' : cache_domains'[i].mask = cache_domains'[j].mask => i = j
    BY <1>5 DEF QuietCaches
  <2>4. \A y \in DOMAIN cpus' : cache_domains'[cpus'[y].parent].mask = CacheSet(cpus'[y].number)
    BY <2>1
  <2> QED BY <1>1, <2>2, <2>3, <2>4 DEF QuietCaches, CacheSet, Usable
<1>7. /\ DOMAIN packages' = DOMAIN packages \cup {p}
      /\ \A q \in DOMAIN packages : packages'[q].mask = packages[q].mask
      /\ packages'[p].mask = PkgSet(c)
      /\ p \notin DOMAIN packages => \A q \in DOMAIN packages : packages[q].mask # PkgSet(c)
      /\ \A q \in DOMAIN packages : q # p => packages'[q].children = packages[q].children
      /\ ToSet(packages'[p].children) = Kids(packages, p) \cup {k}
  BY <1>1 DEF Added, InPackage
<1>8. ASSUME NEW y \in DOMAIN cpus, cpus[y].parent = k
      PROVE  PkgSet(cpus[y].number) = PkgSet(c)
  <2>1. cpus[y].number \in Usable /\ k \in DOMAIN cache_domains
    BY <1>8 DEF QuietScan, Linked
  <2>2. CacheSet(cpus[y].number) = CacheSet(c)
    BY <1>5, <1>8, <2>1 DEF QuietCaches
  <2> QED BY <1>1, <2>1, <2>2, CacheSetLemma
<1>9. QuietPackages'
  <2>1. ASSUME NEW y \in DOMAIN cpus', NEW q \in DOMAIN packages',
               cpus'[y].parent \in ToSet(packages'[q].children)
        PROVE  packages'[q].mask = PkgSet(cpus'[y].number)
    <3>1. CASE y = x /\ q = p
      BY <1>3, <1>7, <3>1
    <3>2. CASE y = x /\ q # p
      <4>1. q \in DOMAIN packages /\ k \in ToSet(packages[q].children) /\ packages'[q].mask = packages[q].mask
        BY <1>3, <1>7, <2>1, <3>2
      <4>2. k \in DOMAIN cache_domains
        BY <4>1 DEF Linked
      <4>3. PICK z \in DOMAIN cpus : cpus[z].parent = k
        BY <4>2 DEF QuietCaches
      <4>4. packages[q].mask = PkgSet(cpus[z].number)
        BY <4>1, <4>3 DEF QuietPackages
      <4> QED BY <1>3, <1>8, <3>2, <4>1, <4>3, <4>4
    <3>3. CASE y # x /\ cpus[y].parent = k /\ q = p
      <4>1. y \in DOMAIN cpus /\ cpus'[y] = cpus[y]
        BY <1>3, <3>3
      <4> QED BY <1>7, <1>8, <3>3, <4>1
    <3>4. CASE y # x /\ ~(cpus[y].parent = k /\ q = p)
      <4>1. y \in DOMAIN cpus /\ cpus'[y] = cpus[y]
        BY <1>3, <3>4
      <4>2. q \in DOMAIN packages /\ cpus[y].parent \in ToSet(packages[q].children)
        BY <1>7, <2>1, <3>4, <4>1 DEF Kids
      <4> QED BY <1>7, <4>1, <4>2 DEF QuietPackages
    <3> QED BY <3>1, <3>2, <3>3, <3>4
  <2>2. \A q \in DOMAIN packages' : ToSet(packages'[q].children) # {}
    BY <1>7 DEF QuietPackages
  <2>3. \A q, r \in DOMAIN packages' : packages'[q].mask = packages'[r].mask => q = r
    BY <1>7 DEF QuietPackages
  <2>4. \A y \in DOMAIN cpus', q \in DOMAIN packages' :
           cpus'[y].parent \in ToSet(packages'[q].children) => packages'[q].mask = PkgSet(cpus'[y].number)
    BY <2>1
  <2> QED BY <1>1, <2>2, <2>3, <2>4 DEF QuietPackages, PkgSet, Usable
<1> QED BY <1>4, <1>6, <1>9

LEMMA StableCountStep ==
    ASSUME TreeInv, StableCount, [Next]_vars
    PROVE  StableCount'
<1> SUFFICES ASSUME stable'
             PROVE  /\ pc' \in {"siblings", "insert"} => cur'.cpu \in online'
                    /\ core_count' = Cardinality(online' \ ToSet(todo'))
  BY DEF StableCount
<1>1. /\ todo \in Seq(CpuIds) /\ IsInjective(todo)
      /\ IsFiniteSet(online) /\ IsFiniteSet(online \ ToSet(todo))
  <2>1. online \subseteq CpuIds /\ IsFiniteSet(CpuIds) /\ online \ ToSet(todo) \subseteq CpuIds
    BY CpuTreeAssumption DEF TreeInv, Scanning
  <2> QED BY <2>1, FS_Subset DEF TreeInv, Scanning
<1>2. CASE Rescan
  <2>1. core_count' = 0 /\ online' = online /\ ToSet(todo') = CpuIds /\ pc' = "scan"
    BY <1>2, CpuTreeAssumption DEF Rescan
  <2>2. online' \ ToSet(todo') = {}
    BY <2>1 DEF TreeInv, Scanning
  <2> QED BY <2>1, <2>2, FS_EmptySet
<1>3. CASE ~Rescan
  <2>1. /\ stable /\ online' = online /\ core_count = Cardinality(online \ ToSet(todo))
        /\ pc \in {"siblings", "insert"} => cur.cpu \in online
    <3>1. stable /\ online' = online
      BY <1>3 DEF Next, Hotplug, do_one_cpu, ReadSiblings, AddCpu, ScanDone, vars, stable
    <3> QED BY <3>1 DEF StableCount
  <2>2. ASSUME UNCHANGED <<todo, core_count>> PROVE core_count' = Cardinality(online' \ ToSet(todo'))
    BY <2>1, <2>2
  <2>3. ASSUME todo # <<>>, todo' = Tail(todo),
               \/ Head(todo) \in online /\ core_count' = core_count + 1
               \/ Head(todo) \notin online /\ core_count' = core_count
        PROVE  core_count' = Cardinality(online' \ ToSet(todo'))
    <3> DEFINE c == Head(todo)
    <3>1. ToSet(todo') = ToSet(todo) \ {c} /\ c \in ToSet(todo)
      BY <1>1, <2>3, TailLemma
    <3>2. CASE c \in online /\ core_count' = core_count + 1
      <4> HIDE DEF c
      <4>1. online \ ToSet(todo') = (online \ ToSet(todo)) \cup {c} /\ c \notin online \ ToSet(todo)
        BY <3>1, <3>2
      <4> QED BY <1>1, <2>1, <3>2, <4>1, FS_AddElement
    <3>3. CASE c \notin online /\ core_count' = core_count
      <4> HIDE DEF c
      <4>1. online \ ToSet(todo') = online \ ToSet(todo)
        BY <3>1, <3>3
      <4> QED BY <2>1, <3>3, <4>1
    <3> QED BY <2>3, <3>2, <3>3
  <2>4. CASE do_one_cpu
    <3>1. /\ todo # <<>> /\ pc = "scan"
          /\ \/ todo' = Tail(todo) /\ Head(todo) \in online /\ core_count' = core_count + 1 /\ pc' = pc
             \/ todo' = Tail(todo) /\ Head(todo) \notin online /\ core_count' = core_count /\ pc' = pc
             \/ UNCHANGED <<todo, core_count>> /\ cur'.cpu = Head(todo) /\ Head(todo) \in online
      BY <2>4 DEF do_one_cpu
    <3> QED BY <2>1, <2>2, <2>3, <3>1
  <2>5. CASE AddCpu
    <3>1. /\ todo # <<>> /\ todo' = Tail(todo) /\ Head(todo) \in online
          /\ core_count' = core_count + 1 /\ pc' = "scan"
      BY <2>1, <2>5 DEF AddCpu, TreeInv, Scanning
    <3> QED BY <2>3, <3>1
  <2>6. CASE ReadSiblings
    <3>1. cur'.cpu = cur.cpu /\ pc = "siblings" /\ UNCHANGED <<todo, core_count>>
      BY <2>6 DEF ReadSiblings, TreeInv, Scanning, treeVars
    <3> QED BY <2>1, <2>2, <3>1
  <2>7. CASE ScanDone \/ UNCHANGED vars
    <3>1. UNCHANGED <<todo, core_count, cur>> /\ pc' \in {pc, "built"}
      BY <2>7 DEF ScanDone, vars, treeVars
    <3> QED BY <2>1, <2>2, <3>1
  <2>8. \A c \in CpuIds : ~Hotplug(c)
    BY DEF Hotplug, stable
  <2> QED BY <1>3, <2>4, <2>5, <2>6, <2>7, <2>8 DEF Next
<1> QED BY <1>2, <1>3

LEMMA QuietStep ==
    ASSUME Regular, TreeInv, QuietInv, [Next]_vars
    PROVE  QuietInv'
<1>1. StableCount'
  BY StableCountStep DEF QuietInv
<1> SUFFICES ASSUME Quiet' PROVE (QuietScan /\ QuietCaches /\ QuietPackages)'
  BY <1>1 DEF QuietInv
<1>2. CASE Rescan
  <2>1. cpus' = <<>> /\ packages' = <<>> /\ cache_domains' = <<>> /\ pc' = "scan" /\ online' = online
        /\ ToSet(todo') = CpuIds
    BY <1>2, CpuTreeAssumption DEF Rescan
  <2>2. DOMAIN cpus' = {} /\ DOMAIN packages' = {} /\ DOMAIN cache_domains' = {}
    BY <2>1
  <2>3. Usable' \subseteq CpuIds
    BY <2>1 DEF Usable, TreeInv, Scanning
  <2>4. QuietScan'
    BY <2>1, <2>2, <2>3 DEF QuietScan
  <2>5. QuietCaches' /\ QuietPackages'
    BY <2>2 DEF QuietCaches, QuietPackages
  <2> QED BY <2>4, <2>5
<1>3. CASE ~Rescan
  <2>1. Quiet /\ online' = online
    BY <1>3 DEF Quiet, stable, Next, Hotplug, do_one_cpu, ReadSiblings, AddCpu, ScanDone, vars
  <2>2. QuietScan /\ QuietCaches /\ QuietPackages
    BY <2>1 DEF QuietInv
  <2>3. CASE AddCpu
    <3>1. PICK c \in CpuIds, k \in Nat, p \in Nat, node \in Int : Added(c, k, p, node)
      BY <2>3, AddLemma DEF TreeInv, Tree
    <3>2. cur.cpu \in online
      BY <2>1, <2>3 DEF QuietInv, StableCount, Quiet, AddCpu
    <3> QED BY <2>2, <2>3, <3>1, <3>2, AddQuiet DEF TreeInv, Tree
  <2>4. CASE ~AddCpu
    <3>1. UNCHANGED <<packages, cache_domains, cpus>>
      BY <1>3, <2>4 DEF Next, Hotplug, do_one_cpu, ReadSiblings, ScanDone, vars, treeVars
    <3>2. Usable' = Usable
      BY <2>1 DEF Usable
    <3>3. QuietCaches'
      BY <2>2, <3>1, <3>2 DEF QuietCaches, CacheSet
    <3>4. QuietPackages'
      BY <2>2, <3>1, <3>2 DEF QuietPackages, PkgSet
    <3>5. pc' = "insert" => cur'.package_mask = core_siblings(cur'.cpu)
      <4>1. CASE ReadSiblings
        <5>1. unread' = {} => cur.cpu \in online /\ cur.cpu \notin NoSiblings
          BY <4>1 DEF ReadSiblings
        <5>2. cur' = [cur EXCEPT !.package_mask = core_siblings(cur.cpu)]
          BY <4>1, <5>1 DEF ReadSiblings, Quiet
        <5> QED BY <5>2 DEF TreeInv, Scanning
      <4>2. CASE ~ReadSiblings
        <5>1. pc' = "insert" => pc = "insert" /\ cur' = cur
          BY <1>3, <2>4, <4>2 DEF Next, Hotplug, do_one_cpu, ScanDone, vars
        <5> QED BY <2>2, <5>1 DEF QuietScan
      <4> QED BY <4>1, <4>2
    <3>6. ASSUME NEW y \in Usable, y \in ToSet(todo) PROVE y \in ToSet(todo')
      <4>1. CASE todo' = todo
        BY <3>6, <4>1
      <4>2. CASE todo' # todo
        <5>1. do_one_cpu /\ todo # <<>> /\ todo' = Tail(todo) /\ Head(todo) \notin Usable
          BY <1>3, <2>4, <4>2 DEF Next, Hotplug, do_one_cpu, ReadSiblings, ScanDone, vars, Usable
        <5>2. ToSet(todo') = ToSet(todo) \ {Head(todo)}
          <6>1. todo \in Seq(CpuIds) /\ IsInjective(todo)
            BY DEF TreeInv, Scanning
          <6> QED BY <5>1, <6>1, TailLemma
        <5> QED BY <3>6, <5>1, <5>2
      <4> QED BY <4>1, <4>2
    <3>7. QuietScan'
      <4>1. core_siblings(cur'.cpu) = {y \in online' : PkgOf[y] = PkgOf[cur'.cpu]}
        BY <2>1 DEF core_siblings
      <4> QED BY <2>2, <3>1, <3>2, <3>5, <3>6, <4>1 DEF QuietScan, core_siblings
    <3> QED BY <3>3, <3>4, <3>7
  <2> QED BY <2>3, <2>4
<1> QED BY <1>2, <1>3

LEMMA QuietInit ==
    ASSUME Init PROVE QuietInv
<1>1. /\ cpus = <<>> /\ packages = <<>> /\ cache_domains = <<>> /\ pc = "scan"
      /\ ToSet(todo) = CpuIds /\ online \subseteq CpuIds /\ core_count = 0
  BY CpuTreeAssumption DEF Init
<1>2. DOMAIN cpus = {} /\ DOMAIN packages = {} /\ DOMAIN cache_domains = {}
  BY <1>1
<1>3. online \ ToSet(todo) = {}
  BY <1>1
<1>4. StableCount
  BY <1>1, <1>3, FS_EmptySet DEF StableCount
<1>5. QuietScan
  BY <1>1, <1>2 DEF QuietScan, Usable
<1>6. QuietCaches /\ QuietPackages
  BY <1>2 DEF QuietCaches, QuietPackages
<1> QED BY <1>4, <1>5, <1>6 DEF QuietInv

(* At the end every directory is left, so every cpu that can be used is in *)
(* the tree: the cpus of a mask are then the cpus below the object.        *)
LEMMA QuietExact ==
    ASSUME Regular, TreeInv, QuietInv PROVE StableScanIsExact
<1> SUFFICES ASSUME pc = "built", stable, unread = {}
             PROVE  /\ core_count = Cardinality(online)
                    /\ {cpus[x].number : x \in DOMAIN cpus} = online \ banned_cpus
                    /\ \A k \in DOMAIN cache_domains : /\ cache_domains[k].mask = Numbers(k)
                                                       /\ Cardinality(Holding(k)) = 1
                    /\ \A p \in DOMAIN packages :
                          packages[p].mask = UNION {cache_domains[k].mask : k \in ToSet(packages[p].children)}
  BY DEF StableScanIsExact
<1>1. QuietScan /\ QuietCaches /\ QuietPackages /\ core_count = Cardinality(online \ ToSet(todo))
  BY DEF QuietInv, Quiet, StableCount
<1>2. ToSet(todo) = {}
  BY NothingInEmpty DEF TreeInv, Scanning
<1>3. core_count = Cardinality(online)
  <2>1. online \ ToSet(todo) = online
    BY <1>2
  <2> QED BY <1>1, <2>1
<1>4. /\ \A x \in DOMAIN cpus : cpus[x].number \in Usable
      /\ \A y \in Usable : \E x \in DOMAIN cpus : cpus[x].number = y
  BY <1>1, <1>2 DEF QuietScan
<1>5. {cpus[x].number : x \in DOMAIN cpus} = online \ banned_cpus
  BY <1>4 DEF Usable
<1>6. online \subseteq CpuIds /\ Linked /\ EveryCpuReached
  BY DEF TreeInv, Tree, Scanning
<1>7. \A x \in DOMAIN cpus, k \in DOMAIN cache_domains :
         x \in ToSet(cache_domains[k].children) <=> cpus[x].parent = k
  BY <1>6 DEF EveryCpuReached, CpuHolding
<1>8. ASSUME NEW k \in DOMAIN cache_domains PROVE cache_domains[k].mask = Numbers(k)
  <2>1. PICK z \in DOMAIN cpus : cpus[z].parent = k
    BY <1>1 DEF QuietCaches
  <2> DEFINE n == cpus[z].number
  <2>2. n \in Usable /\ cache_domains[k].mask = CacheSet(n)
    BY <1>1, <1>4, <2>1 DEF QuietCaches
  <2>3. ASSUME NEW y \in CacheSet(n) PROVE y \in Numbers(k)
    <3>1. y \in Usable
      BY DEF CacheSet
    <3>2. PICK x \in DOMAIN cpus : cpus[x].number = y
      BY <1>4, <3>1
    <3>3. CacheSet(y) = CacheSet(n)
      BY <1>6, <2>2, <2>3, <3>1, CacheSetLemma
    <3>4. cache_domains[cpus[x].parent].mask = cache_domains[k].mask /\ cpus[x].parent \in DOMAIN cache_domains
      BY <1>1, <1>6, <2>2, <3>2, <3>3 DEF QuietCaches, Linked
    <3>5. cpus[x].parent = k
      BY <1>1, <3>4 DEF QuietCaches
    <3>6. x \in ToSet(cache_domains[k].children)
      BY <1>7, <3>5
    <3> QED BY <3>2, <3>6 DEF Numbers
  <2>4. ASSUME NEW y \in Numbers(k) PROVE y \in CacheSet(n)
    <3>1. PICK x \in ToSet(cache_domains[k].children) : cpus[x].number = y
      BY DEF Numbers
    <3>2. x \in DOMAIN cpus
      BY <1>6, <3>1 DEF Linked
    <3>3. cpus[x].parent = k
      BY <1>7, <3>1, <3>2
    <3>4. y \in Usable /\ CacheSet(y) = CacheSet(n)
      BY <1>1, <1>4, <2>2, <3>1, <3>2, <3>3 DEF QuietCaches
    <3> QED BY <1>6, <3>4, CacheSetLemma
  <2> QED BY <2>2, <2>3, <2>4
<1>9. ASSUME NEW k \in DOMAIN cache_domains, NEW p \in Holding(k), NEW q \in Holding(k) PROVE p = q
  <2>1. PICK z \in DOMAIN cpus : cpus[z].parent = k
    BY <1>1 DEF QuietCaches
  <2>2. /\ p \in DOMAIN packages /\ k \in ToSet(packages[p].children)
        /\ q \in DOMAIN packages /\ k \in ToSet(packages[q].children)
    BY DEF Holding
  <2>3. packages[p].mask = PkgSet(cpus[z].number) /\ packages[q].mask = PkgSet(cpus[z].number)
    BY <1>1, <2>1, <2>2 DEF QuietPackages
  <2> QED BY <1>1, <2>2, <2>3 DEF QuietPackages
<1>10. ASSUME NEW k \in DOMAIN cache_domains PROVE Cardinality(Holding(k)) = 1
  <2>1. cache_domains[k].parent \in Holding(k)
    BY <1>6 DEF EveryCpuReached
  <2>2. Holding(k) = {cache_domains[k].parent}
    BY <1>9, <2>1
  <2> QED BY <2>2, FS_Singleton
<1>11. ASSUME NEW p \in DOMAIN packages
       PROVE  packages[p].mask = UNION {cache_domains[k].mask : k \in ToSet(packages[p].children)}
  <2>1. ASSUME NEW k \in ToSet(packages[p].children)
        PROVE  \E n \in Usable : /\ cache_domains[k].mask = CacheSet(n)
                                 /\ packages[p].mask = PkgSet(n)
    <3>1. k \in DOMAIN cache_domains
      BY <1>6 DEF Linked
    <3>2. PICK z \in DOMAIN cpus : cpus[z].parent = k
      BY <1>1, <3>1 DEF QuietCaches
    <3>3. /\ cpus[z].number \in Usable /\ cache_domains[k].mask = CacheSet(cpus[z].number)
          /\ packages[p].mask = PkgSet(cpus[z].number)
      BY <1>1, <1>4, <3>2 DEF QuietCaches, QuietPackages
    <3> QED BY <3>3
  <2>2. ASSUME NEW k \in ToSet(packages[p].children) PROVE cache_domains[k].mask \subseteq packages[p].mask
    BY <1>6, <2>1, CacheSetLemma
  <2>3. ASSUME NEW y \in packages[p].mask
        PROVE  \E k \in ToSet(packages[p].children) : y \in cache_domains[k].mask
    <3>1. PICK k \in ToSet(packages[p].children) : TRUE
      BY <1>1 DEF QuietPackages
    <3>2. PICK n \in Usable : packages[p].mask = PkgSet(n)
      BY <2>1, <3>1
    <3>3. y \in Usable /\ PkgOf[y] = PkgOf[n]
      BY <2>3, <3>2 DEF PkgSet
    <3>4. PkgSet(y) = packages[p].mask
      BY <3>2, <3>3 DEF PkgSet
    <3>5. PICK x \in DOMAIN cpus : cpus[x].number = y
      BY <1>4, <3>3
    <3> DEFINE j == cpus[x].parent
               q == cache_domains[j].parent
    <3>6. j \in DOMAIN cache_domains /\ q \in DOMAIN packages /\ j \in ToSet(packages[q].children)
      BY <1>6 DEF Linked, EveryCpuReached, Holding
    <3>7. packages[q].mask = PkgSet(y)
      BY <1>1, <3>5, <3>6 DEF QuietPackages
    <3>8. q = p
      BY <1>1, <3>4, <3>6, <3>7 DEF QuietPackages
    <3>9. y \in cache_domains[j].mask
      BY <1>1, <1>6, <3>3, <3>5, CacheSetLemma DEF QuietCaches
    <3> QED BY <3>6, <3>8, <3>9
  <2> QED BY <2>2, <2>3
<1> QED BY <1>3, <1>5, <1>8, <1>10, <1>11

(* On regular hardware, a scan during which no cpu goes up or down and     *)
(* every cpu can read its siblings gives the hardware's tree.              *)
THEOREM QuietScansAreExact ==
    ASSUME Regular PROVE Spec => []StableScanIsExact
<1>1. Init => TreeInv /\ QuietInv
  BY TreeInvInit, QuietInit
<1>2. TreeInv /\ QuietInv /\ [Next]_vars => (TreeInv /\ QuietInv)'
  BY TreeInvStep, QuietStep
<1>3. TreeInv /\ QuietInv => StableScanIsExact
  BY QuietExact
<1> QED BY <1>1, <1>2, <1>3, PTL DEF Spec

-----------------------------------------------------------------------------
(* The tree as the balancer sees it.  A finite set as a list.              *)
LEMMA SetToSeqLemma ==
    ASSUME NEW S, IsFiniteSet(S)
    PROVE  SetToSeq(S) \in Seq(S) /\ ToSet(SetToSeq(S)) = S
<1> DEFINE n == Cardinality(S)
           f == SetToSeq(S)
<1>1. n \in Nat /\ Bijection(1..n, S) # {}
  BY FS_CardinalityType DEF ExistsBijection
<1>2. \E g \in [1..n -> S] : IsInjective(g)
  BY <1>1 DEF Bijection, Injection
<1>3. f \in [1..n -> S] /\ IsInjective(f)
  BY <1>2 DEF SetToSeq
<1> HIDE DEF f
<1>4. f \in Injection(1..n, S)
  BY <1>3 DEF Injection
<1>5. IsFiniteSet(1..n) /\ Cardinality(1..n) = n
  <2>1. 1 \in Int /\ n \in Int
    BY <1>1
  <2>2. /\ IsFiniteSet(1..n)
        /\ Cardinality(1..n) = IF 1 > n THEN 0 ELSE n - 1 + 1
    BY <2>1, FS_Interval
  <2> QED BY <1>1, <2>2
<1>6. f \in Surjection(1..n, S)
  BY <1>4, <1>5, FS_Injection
<1>7. f \in Seq(S)
  BY <1>1, <1>3
<1>8. ToSet(f) = S
  BY <1>3, <1>6 DEF ToSet, Surjection
<1> QED BY <1>7, <1>8 DEF f

LEMMA ConcatLemma ==
    ASSUME NEW S, NEW s \in Seq(S), NEW t \in Seq(S)
    PROVE  s \o t \in Seq(S) /\ ToSet(s \o t) = ToSet(s) \cup ToSet(t)
<1> DEFINE u == s \o t
<1>1. /\ u \in Seq(S) /\ DOMAIN u = 1..(Len(s) + Len(t))
      /\ DOMAIN s = 1..Len(s) /\ DOMAIN t = 1..Len(t) /\ Len(s) \in Nat /\ Len(t) \in Nat
      /\ \A j \in 1..(Len(s) + Len(t)) : u[j] = IF j <= Len(s) THEN s[j] ELSE t[j - Len(s)]
  OBVIOUS
<1> HIDE DEF u
<1>2. ASSUME NEW j \in DOMAIN s PROVE s[j] \in ToSet(u)
  <2>1. j \in DOMAIN u /\ u[j] = s[j]
    BY <1>1
  <2> QED BY <2>1 DEF ToSet
<1>3. ASSUME NEW j \in DOMAIN t PROVE t[j] \in ToSet(u)
  <2>1. j + Len(s) \in DOMAIN u /\ u[j + Len(s)] = t[j]
    BY <1>1
  <2> QED BY <2>1 DEF ToSet
<1>4. ASSUME NEW j \in DOMAIN u PROVE u[j] \in ToSet(s) \cup ToSet(t)
  <2>1. CASE j <= Len(s)
    <3>1. j \in DOMAIN s /\ u[j] = s[j]
      BY <1>1, <2>1
    <3> QED BY <3>1 DEF ToSet
  <2>2. CASE ~(j <= Len(s))
    <3>1. j - Len(s) \in DOMAIN t /\ u[j] = t[j - Len(s)]
      BY <1>1, <2>2
    <3> QED BY <3>1 DEF ToSet
  <2> QED BY <2>1, <2>2
<1>5. ToSet(u) = ToSet(s) \cup ToSet(t)
  <2>1. ToSet(u) \subseteq ToSet(s) \cup ToSet(t)
    BY <1>4 DEF ToSet
  <2>2. ToSet(s) \subseteq ToSet(u) /\ ToSet(t) \subseteq ToSet(u)
    BY <1>2, <1>3 DEF ToSet
  <2> QED BY <2>1, <2>2
<1> QED BY <1>1, <1>5 DEF u

(* A list of objects of one kind. *)
LEMMA ListedLemma ==
    ASSUME NEW S, NEW s \in Seq(S), NEW kind
    PROVE  /\ DOMAIN Listed(kind, s) = DOMAIN s
           /\ \A j \in DOMAIN s : Listed(kind, s)[j] = <<kind, s[j]>>
           /\ ToSet(Listed(kind, s)) = {<<kind, x>> : x \in ToSet(s)}
           /\ \A T : (\A x \in ToSet(s) : <<kind, x>> \in T) => Listed(kind, s) \in Seq(T)
<1> DEFINE l == Listed(kind, s)
           n == Len(s)
<1>1. n \in Nat /\ DOMAIN s = 1..n
  OBVIOUS
<1>2. l = [j \in 1..n |-> <<kind, s[j]>>]
  BY <1>1 DEF Listed
<1> HIDE DEF l, n
<1>3. DOMAIN l = 1..n /\ \A j \in 1..n : l[j] = <<kind, s[j]>>
  BY <1>2
<1>4. ToSet(l) = {<<kind, x>> : x \in ToSet(s)}
  <2>1. ASSUME NEW j \in 1..n PROVE l[j] \in {<<kind, x>> : x \in ToSet(s)}
    BY <1>1, <1>3 DEF ToSet
  <2>2. ASSUME NEW x \in ToSet(s) PROVE <<kind, x>> \in ToSet(l)
    <3>1. PICK j \in 1..n : s[j] = x
      BY <1>1 DEF ToSet
    <3> QED BY <1>3, <3>1 DEF ToSet
  <2>3. ToSet(l) \subseteq {<<kind, x>> : x \in ToSet(s)}
    BY <1>3, <2>1 DEF ToSet
  <2> QED BY <2>2, <2>3
<1>5. ASSUME NEW T, \A x \in ToSet(s) : <<kind, x>> \in T PROVE l \in Seq(T)
  <2>1. \A j \in 1..n : l[j] \in T
    BY <1>1, <1>3, <1>5 DEF ToSet
  <2>2. l = [j \in 1..n |-> l[j]]
    BY <1>2
  <2>3. l \in [1..n -> T]
    BY <2>1, <2>2
  <2> QED BY <1>1, <2>3
<1> QED BY <1>1, <1>3, <1>4, <1>5 DEF l

LEMMA PositionsLemma ==
    ASSUME NEW S, NEW s \in Seq(S), NEW kind
    PROVE  /\ ToSet(Positions(kind, s)) = {<<kind, x>> : x \in DOMAIN s}
           /\ \A T : (\A x \in DOMAIN s : <<kind, x>> \in T) => Positions(kind, s) \in Seq(T)
<1> DEFINE l == Positions(kind, s)
           n == Len(s)
<1>1. n \in Nat /\ DOMAIN s = 1..n
  OBVIOUS
<1>2. l = [j \in 1..n |-> <<kind, j>>]
  BY <1>1 DEF Positions
<1> HIDE DEF l, n
<1>3. DOMAIN l = 1..n /\ \A j \in 1..n : l[j] = <<kind, j>>
  BY <1>2
<1>4. ToSet(l) = {<<kind, x>> : x \in DOMAIN s}
  BY <1>1, <1>3 DEF ToSet
<1>5. ASSUME NEW T, \A x \in DOMAIN s : <<kind, x>> \in T PROVE l \in Seq(T)
  <2>1. \A j \in 1..n : l[j] \in T
    BY <1>1, <1>3, <1>5
  <2>2. l = [j \in 1..n |-> l[j]]
    BY <1>2
  <2>3. l \in [1..n -> T]
    BY <2>1, <2>2
  <2> QED BY <1>1, <2>3
<1> QED BY <1>4, <1>5 DEF l

(* The objects of each kind. *)
NodeObjs  == {<<"node", n>> : n \in DOMAIN numa_nodes}
PkgObjs   == {<<"package", p>> : p \in DOMAIN packages}
CacheObjs == {<<"cache", k>> : k \in DOMAIN cache_domains}
CpuObjs   == {<<"cpu", x>> : x \in DOMAIN cpus}

LEMMA FiniteNodes == IsFiniteSet(DOMAIN build_numa_node_list)
<1>1. IsFiniteSet(NodeIds \cup {-1})
  BY CpuTreeAssumption, FS_AddElement
<1>2. DOMAIN build_numa_node_list \in SUBSET (NodeIds \cup {-1})
  BY DEF build_numa_node_list
<1> QED BY <1>1, <1>2, FS_Subset

LEMMA ObjsLemma ==
    ASSUME Lists
    PROVE  /\ ToSet(Listed("node", NodeSeq)) = NodeObjs
           /\ ToSet(Positions("package", packages)) = PkgObjs
           /\ ToSet(Positions("cache", cache_domains)) = CacheObjs
           /\ ToSet(Positions("cpu", cpus)) = CpuObjs
           /\ AllObjs = NodeObjs \cup PkgObjs \cup CacheObjs \cup CpuObjs
           /\ Listed("node", NodeSeq) \in Seq(AllObjs)
           /\ Positions("package", packages) \in Seq(AllObjs)
           /\ Positions("cache", cache_domains) \in Seq(AllObjs)
           /\ Positions("cpu", cpus) \in Seq(AllObjs)
<1> DEFINE A == NodeObjs \cup PkgObjs \cup CacheObjs \cup CpuObjs
           L0 == Listed("node", NodeSeq)
           L1 == Positions("package", packages)
           L2 == Positions("cache", cache_domains)
           L3 == Positions("cpu", cpus)
<1>1. NodeSeq \in Seq(DOMAIN numa_nodes) /\ ToSet(NodeSeq) = DOMAIN numa_nodes
  <2>1. IsFiniteSet(DOMAIN numa_nodes)
    BY FiniteNodes DEF Lists
  <2> QED BY <2>1, SetToSeqLemma DEF NodeSeq
<1>2. /\ cpus \in Seq(CpuRec) /\ cache_domains \in Seq(CacheRec) /\ packages \in Seq(PkgRec)
  BY DEF Lists
<1>3. ToSet(L0) = NodeObjs /\ L0 \in Seq(A)
  <2>1. \A x \in ToSet(NodeSeq) : <<"node", x>> \in A
    BY <1>1 DEF NodeObjs
  <2> HIDE DEF A
  <2>2. ToSet(L0) = {<<"node", x>> : x \in ToSet(NodeSeq)} /\ L0 \in Seq(A)
    BY <1>1, <2>1, ListedLemma
  <2> QED BY <1>1, <2>2 DEF NodeObjs
<1>4. ToSet(L1) = PkgObjs /\ L1 \in Seq(A)
  <2>1. \A x \in DOMAIN packages : <<"package", x>> \in A
    BY DEF PkgObjs
  <2> HIDE DEF A
  <2>2. ToSet(L1) = {<<"package", x>> : x \in DOMAIN packages} /\ L1 \in Seq(A)
    BY <1>2, <2>1, PositionsLemma
  <2> QED BY <2>2 DEF PkgObjs
<1>5. ToSet(L2) = CacheObjs /\ L2 \in Seq(A)
  <2>1. \A x \in DOMAIN cache_domains : <<"cache", x>> \in A
    BY DEF CacheObjs
  <2> HIDE DEF A
  <2>2. ToSet(L2) = {<<"cache", x>> : x \in DOMAIN cache_domains} /\ L2 \in Seq(A)
    BY <1>2, <2>1, PositionsLemma
  <2> QED BY <2>2 DEF CacheObjs
<1>6. ToSet(L3) = CpuObjs /\ L3 \in Seq(A)
  <2>1. \A x \in DOMAIN cpus : <<"cpu", x>> \in A
    BY DEF CpuObjs
  <2> HIDE DEF A
  <2>2. ToSet(L3) = {<<"cpu", x>> : x \in DOMAIN cpus} /\ L3 \in Seq(A)
    BY <1>2, <2>1, PositionsLemma
  <2> QED BY <2>2 DEF CpuObjs
<1>7. AllObjs = A
  <2> DEFINE M1 == L0 \o L1
             M2 == M1 \o L2
             M3 == M2 \o L3
  <2> HIDE DEF A, L0, L1, L2, L3
  <2>1. M1 \in Seq(A) /\ ToSet(M1) = NodeObjs \cup PkgObjs
    BY <1>3, <1>4, ConcatLemma
  <2> HIDE DEF M1
  <2>2. M2 \in Seq(A) /\ ToSet(M2) = NodeObjs \cup PkgObjs \cup CacheObjs
    BY <1>5, <2>1, ConcatLemma
  <2> HIDE DEF M2
  <2>3. ToSet(M3) = NodeObjs \cup PkgObjs \cup CacheObjs \cup CpuObjs
    BY <1>6, <2>2, ConcatLemma
  <2>4. ToSet(M3) = A
    BY <2>3 DEF A
  <2> QED BY <2>4, Zenon DEF AllObjs, M3, M2, M1, L0, L1, L2, L3
<1> QED BY <1>3, <1>4, <1>5, <1>6, <1>7

(* What Topology says of the lists, the objects and their levels. *)
LEMMA LevelsLemma ==
    ASSUME Lists
    PROVE  /\ Built!Objs = AllObjs
           /\ \A d \in NodeObjs : Built!Depth(d) = 0
           /\ \A d \in PkgObjs : Built!Depth(d) = 1
           /\ \A d \in CacheObjs : Built!Depth(d) = 2
           /\ \A d \in CpuObjs : Built!Depth(d) = 3
           /\ Built!Range(Listed("node", NodeSeq)) = NodeObjs
           /\ Built!Range(Positions("package", packages)) = PkgObjs
           /\ Built!Range(Positions("cache", cache_domains)) = CacheObjs
           /\ Built!Range(Positions("cpu", cpus)) = CpuObjs
<1>1. \A f : Built!Range(f) = ToSet(f)
  BY DEF Built!Range, ToSet
<1>2. /\ Built!Range(Listed("node", NodeSeq)) = NodeObjs
      /\ Built!Range(Positions("package", packages)) = PkgObjs
      /\ Built!Range(Positions("cache", cache_domains)) = CacheObjs
      /\ Built!Range(Positions("cpu", cpus)) = CpuObjs
  BY <1>1, ObjsLemma
<1>3. Built!Objs = AllObjs
  BY <1>2, ObjsLemma DEF Built!Objs
<1> DEFINE R0 == Built!Range(Listed("node", NodeSeq))
           R1 == Built!Range(Positions("package", packages))
           R2 == Built!Range(Positions("cache", cache_domains))
<1>4. \A d : Built!Depth(d) = CASE d \in R0 -> 0 [] d \in R1 -> 1 [] d \in R2 -> 2 [] OTHER -> 3
  BY DEF Built!Depth
<1>5. R0 = NodeObjs /\ R1 = PkgObjs /\ R2 = CacheObjs
  BY <1>2
<1> HIDE DEF R0, R1, R2
<1>6. \A d \in PkgObjs : d \notin NodeObjs
  BY DEF PkgObjs, NodeObjs
<1>7. \A d \in CacheObjs : d \notin NodeObjs /\ d \notin PkgObjs
  BY DEF PkgObjs, NodeObjs, CacheObjs
<1>8. \A d \in CpuObjs : d \notin NodeObjs /\ d \notin PkgObjs /\ d \notin CacheObjs
  BY DEF PkgObjs, NodeObjs, CacheObjs, CpuObjs
<1>9. \A d \in NodeObjs : Built!Depth(d) = 0
  BY <1>4, <1>5, <1>6, <1>7
<1>10. \A d \in PkgObjs : Built!Depth(d) = 1
  BY <1>4, <1>5, <1>6, <1>7
<1>11. \A d \in CacheObjs : Built!Depth(d) = 2
  BY <1>4, <1>5, <1>6, <1>7
<1>12. \A d \in CpuObjs : Built!Depth(d) = 3
  BY <1>4, <1>5, <1>6, <1>7, <1>8
<1> QED BY <1>2, <1>3, <1>9, <1>10, <1>11, <1>12

(* The children of each object are on the level below. *)
LEMMA ChildrenLemma ==
    ASSUME Lists, Linked, NEW d \in AllObjs
    PROVE  /\ ChildrenOf(d) \in Seq(AllObjs)
           /\ \/ d \in NodeObjs /\ ToSet(ChildrenOf(d)) \subseteq PkgObjs
              \/ d \in PkgObjs /\ ToSet(ChildrenOf(d)) \subseteq CacheObjs
              \/ d \in CacheObjs /\ ToSet(ChildrenOf(d)) \subseteq CpuObjs
              \/ d \in CpuObjs /\ ChildrenOf(d) = <<>>
<1>1. AllObjs = NodeObjs \cup PkgObjs \cup CacheObjs \cup CpuObjs
  BY ObjsLemma
<1>2. ASSUME NEW n \in DOMAIN numa_nodes, d = <<"node", n>>
      PROVE  ChildrenOf(d) \in Seq(AllObjs) /\ ToSet(ChildrenOf(d)) \subseteq PkgObjs
  <2>1. ChildrenOf(d) = Listed("package", numa_nodes[n])
    BY <1>2 DEF ChildrenOf
  <2>2. numa_nodes[n] \in Seq(Nat)
    BY DEF Lists
  <2>3. \A p \in ToSet(numa_nodes[n]) : <<"package", p>> \in PkgObjs
    BY DEF Linked, PkgObjs
  <2>4. \A p \in ToSet(numa_nodes[n]) : <<"package", p>> \in AllObjs
    BY <1>1, <2>3, Zenon
  <2>5. Listed("package", numa_nodes[n]) \in Seq(AllObjs)
    BY <2>2, <2>4, ListedLemma
  <2>6. ToSet(Listed("package", numa_nodes[n])) = {<<"package", x>> : x \in ToSet(numa_nodes[n])}
    BY <2>2, ListedLemma
  <2> QED BY <2>1, <2>3, <2>5, <2>6
<1>3. ASSUME NEW p \in DOMAIN packages, d = <<"package", p>>
      PROVE  ChildrenOf(d) \in Seq(AllObjs) /\ ToSet(ChildrenOf(d)) \subseteq CacheObjs
  <2> DEFINE s == packages[p].children
  <2>1. ChildrenOf(d) = Listed("cache", s)
    BY <1>3 DEF ChildrenOf
  <2>2. s \in Seq(Nat)
    <3>1. packages[p] \in PkgRec
      BY ElementOfSeq DEF Lists
    <3> QED BY <3>1 DEF PkgRec
  <2>3. \A k \in ToSet(s) : <<"cache", k>> \in CacheObjs
    BY DEF Linked, CacheObjs
  <2> HIDE DEF s
  <2>4. \A k \in ToSet(s) : <<"cache", k>> \in AllObjs
    BY <1>1, <2>3, Zenon
  <2>5. Listed("cache", s) \in Seq(AllObjs)
    BY <2>2, <2>4, ListedLemma
  <2>6. ToSet(Listed("cache", s)) = {<<"cache", x>> : x \in ToSet(s)}
    BY <2>2, ListedLemma
  <2> QED BY <2>1, <2>3, <2>5, <2>6
<1>4. ASSUME NEW k \in DOMAIN cache_domains, d = <<"cache", k>>
      PROVE  ChildrenOf(d) \in Seq(AllObjs) /\ ToSet(ChildrenOf(d)) \subseteq CpuObjs
  <2> DEFINE s == cache_domains[k].children
  <2>1. ChildrenOf(d) = Listed("cpu", s)
    BY <1>4 DEF ChildrenOf
  <2>2. s \in Seq(Nat)
    <3>1. cache_domains[k] \in CacheRec
      BY ElementOfSeq DEF Lists
    <3> QED BY <3>1 DEF CacheRec
  <2>3. \A x \in ToSet(s) : <<"cpu", x>> \in CpuObjs
    BY DEF Linked, CpuObjs
  <2> HIDE DEF s
  <2>4. \A x \in ToSet(s) : <<"cpu", x>> \in AllObjs
    BY <1>1, <2>3, Zenon
  <2>5. Listed("cpu", s) \in Seq(AllObjs)
    BY <2>2, <2>4, ListedLemma
  <2>6. ToSet(Listed("cpu", s)) = {<<"cpu", x>> : x \in ToSet(s)}
    BY <2>2, ListedLemma
  <2> QED BY <2>1, <2>3, <2>5, <2>6
<1>5. ASSUME NEW x \in DOMAIN cpus, d = <<"cpu", x>>
      PROVE  ChildrenOf(d) = <<>> /\ ChildrenOf(d) \in Seq(AllObjs)
  BY <1>5 DEF ChildrenOf
<1>6. CASE d \in NodeObjs
  BY <1>2, <1>6 DEF NodeObjs
<1>7. CASE d \in PkgObjs
  BY <1>3, <1>7 DEF PkgObjs
<1>8. CASE d \in CacheObjs
  BY <1>4, <1>8 DEF CacheObjs
<1>9. CASE d \in CpuObjs
  BY <1>5, <1>9 DEF CpuObjs
<1> QED BY <1>1, <1>6, <1>7, <1>8, <1>9

(* The masks are sets of cpus. *)
LEMMA MasksLemma ==
    ASSUME Lists, NEW d \in AllObjs
    PROVE  MaskOf(d) \in SUBSET CpuIds
<1>1. AllObjs = NodeObjs \cup PkgObjs \cup CacheObjs \cup CpuObjs
  BY ObjsLemma
<1>2. ASSUME NEW n \in DOMAIN numa_nodes, d = <<"node", n>> PROVE MaskOf(d) \in SUBSET CpuIds
  <2>1. MaskOf(d) \in {CpuIds, {c \in CpuIds : NodeOf[c] = d[2]}}
    BY <1>2 DEF MaskOf
  <2> QED BY <2>1
<1>3. ASSUME NEW p \in DOMAIN packages, d = <<"package", p>> PROVE MaskOf(d) \in SUBSET CpuIds
  <2>1. packages[p] \in PkgRec
    BY ElementOfSeq DEF Lists
  <2>2. MaskOf(d) = packages[p].mask
    BY <1>3 DEF MaskOf
  <2> QED BY <2>1, <2>2 DEF PkgRec
<1>4. ASSUME NEW k \in DOMAIN cache_domains, d = <<"cache", k>> PROVE MaskOf(d) \in SUBSET CpuIds
  <2>1. cache_domains[k] \in CacheRec
    BY ElementOfSeq DEF Lists
  <2>2. MaskOf(d) = cache_domains[k].mask
    BY <1>4 DEF MaskOf
  <2> QED BY <2>1, <2>2 DEF CacheRec
<1>5. ASSUME NEW x \in DOMAIN cpus, d = <<"cpu", x>> PROVE MaskOf(d) \in SUBSET CpuIds
  <2>1. cpus[x] \in CpuRec
    BY ElementOfSeq DEF Lists
  <2>2. MaskOf(d) = {cpus[x].number}
    BY <1>5 DEF MaskOf
  <2> QED BY <2>1, <2>2 DEF CpuRec
<1>6. CASE d \in NodeObjs
  BY <1>2, <1>6 DEF NodeObjs
<1>7. CASE d \in PkgObjs
  BY <1>3, <1>7 DEF PkgObjs
<1>8. CASE d \in CacheObjs
  BY <1>4, <1>8 DEF CacheObjs
<1>9. CASE d \in CpuObjs
  BY <1>5, <1>9 DEF CpuObjs
<1> QED BY <1>1, <1>6, <1>7, <1>8, <1>9

(* What the balancer assumes of the tree is true of every tree of a scan,  *)
(* whatever went up or down meanwhile.                                     *)
LEMMA TreeShape ==
    ASSUME Lists, Linked PROVE Built!IsTree
<1> DEFINE Kids0 == [d \in AllObjs |-> ChildrenOf(d)]
           Mask0 == [d \in AllObjs |-> MaskOf(d)]
<1>1. Built!Objs = AllObjs
  BY LevelsLemma
<1>2. Kids0 \in [AllObjs -> Seq(AllObjs)]
  BY ChildrenLemma
<1>3. Mask0 \in [AllObjs -> SUBSET CpuIds]
  BY MasksLemma
<1>4. /\ Listed("node", NodeSeq) \in Seq(AllObjs)
      /\ Positions("package", packages) \in Seq(AllObjs)
      /\ Positions("cache", cache_domains) \in Seq(AllObjs)
      /\ Positions("cpu", cpus) \in Seq(AllObjs)
  BY ObjsLemma
<1>5. /\ \A d \in Built!Range(Listed("node", NodeSeq)) : Built!Depth(d) = 0
      /\ \A d \in Built!Range(Positions("package", packages)) : Built!Depth(d) = 1
      /\ \A d \in Built!Range(Positions("cache", cache_domains)) : Built!Depth(d) = 2
      /\ \A d \in Built!Range(Positions("cpu", cpus)) : Built!Depth(d) = 3
  BY LevelsLemma
<1>6. ASSUME NEW d \in AllObjs, NEW k \in DOMAIN Kids0[d]
      PROVE  Built!Depth(Kids0[d][k]) = Built!Depth(d) + 1
  <2> DEFINE s == ChildrenOf(d)
  <2>1. Kids0[d] = s
    OBVIOUS
  <2>2. /\ \A e \in NodeObjs : Built!Depth(e) = 0
        /\ \A e \in PkgObjs : Built!Depth(e) = 1
        /\ \A e \in CacheObjs : Built!Depth(e) = 2
        /\ \A e \in CpuObjs : Built!Depth(e) = 3
    BY LevelsLemma
  <2>3. \/ d \in NodeObjs /\ ToSet(s) \subseteq PkgObjs
        \/ d \in PkgObjs /\ ToSet(s) \subseteq CacheObjs
        \/ d \in CacheObjs /\ ToSet(s) \subseteq CpuObjs
        \/ d \in CpuObjs /\ s = <<>>
    BY ChildrenLemma
  <2>4. k \in DOMAIN s
    BY <2>1
  <2> HIDE DEF Kids0, s
  <2>5. s[k] \in ToSet(s)
    BY <2>4 DEF ToSet
  <2>6. s # <<>>
    BY <2>4
  <2>7. Built!Depth(s[k]) = Built!Depth(d) + 1
    BY <2>2, <2>3, <2>5, <2>6
  <2> QED BY <2>1, <2>7
<1>7. <<"node", -1>> \in Built!Range(Listed("node", NodeSeq))
  <2>1. -1 \in DOMAIN numa_nodes
    BY DEF Lists, build_numa_node_list
  <2> QED BY <2>1, LevelsLemma DEF NodeObjs
<1>8. <<"null">> \notin AllObjs
  <2>1. AllObjs = NodeObjs \cup PkgObjs \cup CacheObjs \cup CpuObjs
    BY ObjsLemma
  <2>2. <<"null">> \notin NodeObjs /\ <<"null">> \notin PkgObjs
    BY DEF NodeObjs, PkgObjs
  <2>3. <<"null">> \notin CacheObjs /\ <<"null">> \notin CpuObjs
    BY DEF CacheObjs, CpuObjs
  <2> QED BY <2>1, <2>2, <2>3
<1>9. numa_avail \in BOOLEAN /\ banned_cpus \subseteq CpuIds
  BY CpuTreeAssumption
<1> QED BY <1>1, <1>2, <1>3, <1>4, <1>5, <1>6, <1>7, <1>8, <1>9 DEF Built!IsTree

(* Who has an object among its children. *)
Above(d) == {q \in AllObjs : d \in ToSet(ChildrenOf(q))}

LEMMA ParentLemma ==
    ASSUME Lists, Linked, NEW d \in AllObjs
    PROVE  /\ \A q : Above(d) = {q} => Built!Parent(d) = q
           /\ Above(d) = {} => Built!Parent(d) = <<"null">>
<1> DEFINE Kids0 == [e \in AllObjs |-> ChildrenOf(e)]
           Up == {q \in AllObjs : d \in Built!Range(Kids0[q])}
<1>1. Built!Objs = AllObjs
  BY LevelsLemma
<1>2. \A f : Built!Range(f) = ToSet(f)
  BY DEF Built!Range, ToSet
<1>3. Up = Above(d)
  BY <1>2 DEF Above
<1>4. Built!Parent(d) = IF \E q \in AllObjs : d \in Built!Range(Kids0[q])
                        THEN CHOOSE q \in AllObjs : d \in Built!Range(Kids0[q])
                        ELSE <<"null">>
  BY <1>1 DEF Built!Parent
<1>5. ASSUME NEW q, Above(d) = {q} PROVE Built!Parent(d) = q
  <2>1. \A e : e \in AllObjs /\ d \in Built!Range(Kids0[e]) <=> e = q
    BY <1>3, <1>5
  <2> HIDE DEF Kids0, Up
  <2>2. (CHOOSE e \in AllObjs : d \in Built!Range(Kids0[e])) = q
    BY <2>1
  <2> QED BY <1>4, <2>1, <2>2
<1>6. ASSUME Above(d) = {} PROVE Built!Parent(d) = <<"null">>
  <2>1. \A e \in AllObjs : d \notin Built!Range(Kids0[e])
    BY <1>3, <1>6
  <2> HIDE DEF Kids0, Up
  <2> QED BY <1>4, <2>1
<1> QED BY <1>5, <1>6

(* The objects above one of each kind, in terms of the lists. *)
LEMMA AboveLemma ==
    ASSUME Lists, Linked
    PROVE  /\ \A n \in DOMAIN numa_nodes : Above(<<"node", n>>) = {}
           /\ \A p \in DOMAIN packages : Above(<<"package", p>>) = {<<"node", n>> : n \in NodesHolding(p)}
           /\ \A k \in DOMAIN cache_domains : Above(<<"cache", k>>) = {<<"package", p>> : p \in Holding(k)}
           /\ \A x \in DOMAIN cpus : Above(<<"cpu", x>>) = {<<"cache", k>> : k \in CpuHolding(x)}
<1>1. AllObjs = NodeObjs \cup PkgObjs \cup CacheObjs \cup CpuObjs
  BY ObjsLemma
<1>2. \A n \in DOMAIN numa_nodes :
         ToSet(ChildrenOf(<<"node", n>>)) = {<<"package", p>> : p \in ToSet(numa_nodes[n])}
  <2> TAKE n \in DOMAIN numa_nodes
  <2>1. numa_nodes[n] \in Seq(Nat)
    BY DEF Lists
  <2>2. ChildrenOf(<<"node", n>>) = Listed("package", numa_nodes[n])
    BY DEF ChildrenOf
  <2> QED BY <2>1, <2>2, ListedLemma
<1>3. \A p \in DOMAIN packages :
         ToSet(ChildrenOf(<<"package", p>>)) = {<<"cache", k>> : k \in ToSet(packages[p].children)}
  <2> TAKE p \in DOMAIN packages
  <2>1. packages[p] \in PkgRec
    BY ElementOfSeq DEF Lists
  <2>2. packages[p].children \in Seq(Nat)
    BY <2>1 DEF PkgRec
  <2>3. ChildrenOf(<<"package", p>>) = Listed("cache", packages[p].children)
    BY DEF ChildrenOf
  <2> QED BY <2>2, <2>3, ListedLemma
<1>4. \A k \in DOMAIN cache_domains :
         ToSet(ChildrenOf(<<"cache", k>>)) = {<<"cpu", x>> : x \in ToSet(cache_domains[k].children)}
  <2> TAKE k \in DOMAIN cache_domains
  <2>1. cache_domains[k] \in CacheRec
    BY ElementOfSeq DEF Lists
  <2>2. cache_domains[k].children \in Seq(Nat)
    BY <2>1 DEF CacheRec
  <2>3. ChildrenOf(<<"cache", k>>) = Listed("cpu", cache_domains[k].children)
    BY DEF ChildrenOf
  <2> QED BY <2>2, <2>3, ListedLemma
<1>5. \A x \in DOMAIN cpus : ToSet(ChildrenOf(<<"cpu", x>>)) = {}
  BY NothingInEmpty DEF ChildrenOf
<1>6. ASSUME NEW d, NEW q \in Above(d)
      PROVE  \/ \E n \in DOMAIN numa_nodes : /\ q = <<"node", n>>
                                             /\ \E p \in ToSet(numa_nodes[n]) : d = <<"package", p>>
             \/ \E p \in DOMAIN packages : /\ q = <<"package", p>>
                                           /\ \E k \in ToSet(packages[p].children) : d = <<"cache", k>>
             \/ \E k \in DOMAIN cache_domains : /\ q = <<"cache", k>>
                                                /\ \E x \in ToSet(cache_domains[k].children) : d = <<"cpu", x>>
  <2>1. q \in AllObjs /\ d \in ToSet(ChildrenOf(q))
    BY <1>6 DEF Above
  <2>2. CASE q \in NodeObjs
    BY <1>2, <2>1, <2>2 DEF NodeObjs
  <2>3. CASE q \in PkgObjs
    BY <1>3, <2>1, <2>3 DEF PkgObjs
  <2>4. CASE q \in CacheObjs
    BY <1>4, <2>1, <2>4 DEF CacheObjs
  <2>5. CASE q \in CpuObjs
    BY <1>5, <2>1, <2>5 DEF CpuObjs
  <2> QED BY <1>1, <2>1, <2>2, <2>3, <2>4, <2>5
<1>7. ASSUME NEW n \in DOMAIN numa_nodes PROVE Above(<<"node", n>>) = {}
  BY <1>6
<1>8. ASSUME NEW p \in DOMAIN packages
      PROVE  Above(<<"package", p>>) = {<<"node", n>> : n \in NodesHolding(p)}
  <2>1. ASSUME NEW q \in Above(<<"package", p>>) PROVE q \in {<<"node", n>> : n \in NodesHolding(p)}
    BY <1>6 DEF NodesHolding
  <2>2. ASSUME NEW n \in NodesHolding(p) PROVE <<"node", n>> \in Above(<<"package", p>>)
    BY <1>1, <1>2 DEF NodesHolding, Above, NodeObjs
  <2> QED BY <2>1, <2>2
<1>9. ASSUME NEW k \in DOMAIN cache_domains
      PROVE  Above(<<"cache", k>>) = {<<"package", p>> : p \in Holding(k)}
  <2>1. ASSUME NEW q \in Above(<<"cache", k>>) PROVE q \in {<<"package", p>> : p \in Holding(k)}
    BY <1>6 DEF Holding
  <2>2. ASSUME NEW p \in Holding(k) PROVE <<"package", p>> \in Above(<<"cache", k>>)
    BY <1>1, <1>3 DEF Holding, Above, PkgObjs
  <2> QED BY <2>1, <2>2
<1>10. ASSUME NEW x \in DOMAIN cpus
       PROVE  Above(<<"cpu", x>>) = {<<"cache", k>> : k \in CpuHolding(x)}
  <2>1. ASSUME NEW q \in Above(<<"cpu", x>>) PROVE q \in {<<"cache", k>> : k \in CpuHolding(x)}
    BY <1>6 DEF CpuHolding
  <2>2. ASSUME NEW k \in CpuHolding(x) PROVE <<"cache", k>> \in Above(<<"cpu", x>>)
    BY <1>1, <1>4 DEF CpuHolding, Above, CacheObjs
  <2> QED BY <2>1, <2>2
<1> QED BY <1>7, <1>8, <1>9, <1>10

(* After a quiet scan the parent pointers lead to the one object that has  *)
(* the object among its children.                                          *)
LEMMA ParentsAgree ==
    ASSUME Lists, Linked, EveryCpuReached,
           \A k \in DOMAIN cache_domains : Cardinality(Holding(k)) = 1,
           NEW d \in AllObjs
    PROVE  Built!Parent(d) = ParentOf(d)
<1>1. AllObjs = NodeObjs \cup PkgObjs \cup CacheObjs \cup CpuObjs
  BY ObjsLemma
<1>2. ASSUME NEW n \in DOMAIN numa_nodes, d = <<"node", n>> PROVE Built!Parent(d) = ParentOf(d)
  <2>1. ParentOf(d) = <<"null">>
    BY <1>2 DEF ParentOf
  <2> QED BY <1>2, <2>1, AboveLemma, ParentLemma
<1>3. ASSUME NEW p \in DOMAIN packages, d = <<"package", p>> PROVE Built!Parent(d) = ParentOf(d)
  <2> DEFINE n == packages[p].parent
  <2>1. Above(d) = {<<"node", m>> : m \in {n} \ {None}}
    BY <1>3, AboveLemma DEF EveryCpuReached
  <2>2. CASE n = None
    <3>1. ParentOf(d) = <<"null">>
      BY <1>3, <2>2 DEF ParentOf
    <3>2. Above(d) = {}
      BY <2>1, <2>2
    <3> QED BY <3>1, <3>2, ParentLemma
  <2>3. CASE n # None
    <3>1. ParentOf(d) = <<"node", n>>
      BY <1>3, <2>3 DEF ParentOf
    <3>2. Above(d) = {<<"node", n>>}
      BY <2>1, <2>3
    <3> QED BY <3>1, <3>2, ParentLemma
  <2> QED BY <2>2, <2>3
<1>4. ASSUME NEW k \in DOMAIN cache_domains, d = <<"cache", k>> PROVE Built!Parent(d) = ParentOf(d)
  <2> DEFINE p == cache_domains[k].parent
  <2>1. ParentOf(d) = <<"package", p>>
    BY <1>4 DEF ParentOf
  <2>2. Holding(k) = {p}
    <3>1. p \in Holding(k) /\ Cardinality(Holding(k)) = 1
      BY DEF EveryCpuReached
    <3>2. IsFiniteSet(Holding(k))
      <4>1. IsFiniteSet(DOMAIN packages)
        <5>1. DOMAIN packages = 1..Len(packages) /\ Len(packages) \in Nat
          BY DEF Lists
        <5> QED BY <5>1, FS_Interval
      <4> QED BY <4>1, FS_Subset DEF Holding
    <3>3. PICK q : Holding(k) = {q}
      BY <3>1, <3>2, FS_Singleton
    <3> QED BY <3>1, <3>3
  <2>3. Above(d) = {<<"package", p>>}
    BY <1>4, <2>2, AboveLemma
  <2> QED BY <2>1, <2>3, ParentLemma
<1>5. ASSUME NEW x \in DOMAIN cpus, d = <<"cpu", x>> PROVE Built!Parent(d) = ParentOf(d)
  <2> DEFINE k == cpus[x].parent
  <2>1. ParentOf(d) = <<"cache", k>>
    BY <1>5 DEF ParentOf
  <2>2. Above(d) = {<<"cache", k>>}
    BY <1>5, AboveLemma DEF EveryCpuReached
  <2> QED BY <2>1, <2>2, ParentLemma
<1>6. CASE d \in NodeObjs
  BY <1>2, <1>6 DEF NodeObjs
<1>7. CASE d \in PkgObjs
  BY <1>3, <1>7 DEF PkgObjs
<1>8. CASE d \in CacheObjs
  BY <1>4, <1>8 DEF CacheObjs
<1>9. CASE d \in CpuObjs
  BY <1>5, <1>9 DEF CpuObjs
<1> QED BY <1>1, <1>6, <1>7, <1>8, <1>9

(* What a scan leaves is what the balancer assumes. *)
LEMMA TreeIsForBalancer ==
    ASSUME Regular, TreeInv, QuietInv PROVE TreeForBalancer
<1> SUFFICES ASSUME pc = "built"
             PROVE  /\ Built!IsTree
                    /\ stable /\ unread = {} => \A d \in AllObjs : Built!Parent(d) = ParentOf(d)
  BY DEF TreeForBalancer
<1>1. Lists /\ Linked /\ EveryCpuReached
  BY DEF TreeInv, Tree
<1>2. Built!IsTree
  BY <1>1, TreeShape
<1>3. ASSUME stable, unread = {}, NEW d \in AllObjs PROVE Built!Parent(d) = ParentOf(d)
  <2>1. \A k \in DOMAIN cache_domains : Cardinality(Holding(k)) = 1
    BY <1>3, QuietExact DEF StableScanIsExact
  <2> QED BY <1>1, <2>1, ParentsAgree
<1> QED BY <1>2, <1>3

-----------------------------------------------------------------------------
(* Every step of the whole is a step of the scan or leaves the tree alone. *)
LEMMA ObjStepIsScanStep == [ObjNext]_allVars => [Next]_vars
BY DEF ObjNext, KernelStep, ScanStep, DbStep, free_object_tree, Next, allVars

(* Whatever the kernel does while the tree and the irq database are built  *)
(* and given up again: no cpu that stays online is missing, every cpu is   *)
(* reached from the top, the pointers up agree with the lists down, and no *)
(* mask has a banned cpu.                                                  *)
THEOREM TreeAlwaysCoversCpus == ObjSpec => []TreeCoversCpus
<1>1. ObjInit => TreeInv /\ Seen
  BY TreeInvInit, SeenInit DEF ObjInit
<1>2. TreeInv /\ Seen /\ [ObjNext]_allVars => (TreeInv /\ Seen)'
  BY TreeInvStep, SeenStep, ObjStepIsScanStep
<1>3. TreeInv /\ Seen => TreeCoversCpus
  BY SeenIsFound DEF TreeInv, Tree, TreeCoversCpus
<1> QED BY <1>1, <1>2, <1>3, PTL DEF ObjSpec

(* On regular hardware, a scan that nothing interferes with gives the      *)
(* hardware's tree, and it stays so while the irqs are looked at.          *)
THEOREM TreeOfQuietScanIsExact ==
    ASSUME Regular PROVE ObjSpec => []StableScanIsExact
<1>1. ObjInit => TreeInv /\ QuietInv
  BY TreeInvInit, QuietInit DEF ObjInit
<1>2. TreeInv /\ QuietInv /\ [ObjNext]_allVars => (TreeInv /\ QuietInv)'
  BY TreeInvStep, QuietStep, ObjStepIsScanStep
<1>3. TreeInv /\ QuietInv => StableScanIsExact
  BY QuietExact
<1> QED BY <1>1, <1>2, <1>3, PTL DEF ObjSpec

-----------------------------------------------------------------------------
(* The words of the script, line by line: whatever they are, the policy is *)
(* at a level or at none, and on a node that the tree has.                 *)
IsPolicy(pol) == /\ pol.level \in -1..3
                 /\ pol.numa_node_set => Db!get_numa_node(pol.numa_node) # None

Values(output) == {e.value : e \in ToSet(output)} \cup {-1}

Policies(output) ==
    {pol \in [ban : {-1, 0, 1}, level : -1..3, numa_node_set : BOOLEAN,
              numa_node : Values(output),
              hintpolicy : {global_hint_policy, "exact", "subset", "ignore"}] : IsPolicy(pol)}

LEMMA PolicyKey ==
    ASSUME NEW output, NEW pol \in Policies(output), NEW line \in ToSet(output)
    PROVE  Db!parse_user_policy_key(pol, line) \in Policies(output)
<1> DEFINE new == Db!parse_user_policy_key(pol, line)
<1>1. /\ pol \in [ban : {-1, 0, 1}, level : -1..3, numa_node_set : BOOLEAN,
                  numa_node : Values(output),
                  hintpolicy : {global_hint_policy, "exact", "subset", "ignore"}]
      /\ IsPolicy(pol)
  BY DEF Policies
<1>2. line.value \in Values(output)
  BY DEF Values
<1>3. \/ new = [pol EXCEPT !.ban = 1] \/ new = [pol EXCEPT !.ban = 0]
      \/ \E l \in 0..3 : new = [pol EXCEPT !.level = l]
      \/ /\ Db!get_numa_node(line.value) # None
         /\ new = [pol EXCEPT !.numa_node = line.value, !.numa_node_set = TRUE]
      \/ \E w \in {"exact", "subset", "ignore"} : new = [pol EXCEPT !.hintpolicy = w]
      \/ new = pol
  <2>1. \A w \in DOMAIN Db!LevelVals : Db!LevelVals[w] \in 0..3
    BY DEF Db!LevelVals, Db!BALANCE_NONE, Db!BALANCE_PACKAGE, Db!BALANCE_CACHE, Db!BALANCE_CORE
  <2>2. CASE line.key = "ban" /\ line.value \in {"true", "false"}
    BY <2>2 DEF Db!parse_user_policy_key
  <2>3. CASE line.key = "balance_level" /\ line.value \in DOMAIN Db!LevelVals
    BY <2>1, <2>3 DEF Db!parse_user_policy_key
  <2>4. CASE line.key = "numa_node" /\ Db!get_numa_node(line.value) # None
    BY <2>4 DEF Db!parse_user_policy_key
  <2>5. CASE line.key = "hintpolicy" /\ line.value \in {"exact", "subset", "ignore"}
    BY <2>5 DEF Db!parse_user_policy_key
  <2>6. CASE /\ ~(line.key = "ban" /\ line.value \in {"true", "false"})
             /\ ~(line.key = "balance_level" /\ line.value \in DOMAIN Db!LevelVals)
             /\ ~(line.key = "numa_node" /\ Db!get_numa_node(line.value) # None)
             /\ ~(line.key = "hintpolicy" /\ line.value \in {"exact", "subset", "ignore"})
    BY <2>6 DEF Db!parse_user_policy_key
  <2> QED BY <2>2, <2>3, <2>4, <2>5, <2>6
<1> HIDE DEF new
<1>4. ASSUME NEW b \in {0, 1}, new = [pol EXCEPT !.ban = b] PROVE new \in Policies(output)
  BY <1>1, <1>4 DEF Policies, IsPolicy
<1>5. ASSUME NEW l \in 0..3, new = [pol EXCEPT !.level = l] PROVE new \in Policies(output)
  <2>1. l \in -1..3
    OBVIOUS
  <2> QED BY <1>1, <1>5, <2>1 DEF Policies, IsPolicy
<1>6. ASSUME Db!get_numa_node(line.value) # None,
             new = [pol EXCEPT !.numa_node = line.value, !.numa_node_set = TRUE]
      PROVE  new \in Policies(output)
  BY <1>1, <1>2, <1>6 DEF Policies, IsPolicy
<1>7. ASSUME NEW w \in {"exact", "subset", "ignore"}, new = [pol EXCEPT !.hintpolicy = w]
      PROVE  new \in Policies(output)
  BY <1>1, <1>7 DEF Policies, IsPolicy
<1>8. new \in Policies(output)
  BY <1>3, <1>4, <1>5, <1>6, <1>7
<1> QED BY <1>8 DEF new

LEMMA PolicyLemma ==
    ASSUME NEW output \in Outputs
    PROVE  IsPolicy(Db!get_irq_user_policy(output))
<1> DEFINE n == Len(output)
           R == Policies(output)
           Op(pol, line) == Db!parse_user_policy_key(pol, line)
           Is(g) == g = [t \in SUBSET (DOMAIN output) |->
                            IF t = {} THEN Db!DefaultPolicy
                            ELSE Op(g[t \ {Max(t)}], output[Max(t)])]
           iter == CHOOSE g : Is(g)
           step == [p \in (1..n) \X R |-> Op(p[2], output[p[1]])]
<1>1. Db!get_irq_user_policy(output) = iter[DOMAIN output]
  BY DEF Db!get_irq_user_policy, Db!FoldLeft, Db!MapThenFoldSet, Db!Max, Max
<1>2. n \in Nat /\ DOMAIN output = 1..n /\ \A k \in 1..n : output[k] \in ToSet(output)
  BY DbAssumption DEF ToSet
<1>3. Db!DefaultPolicy \in R
  BY DEF Db!DefaultPolicy, Policies, IsPolicy, Values
<1>4. \A pol \in R, k \in 1..n : Op(pol, output[k]) \in R
  BY <1>2, PolicyKey
<1> HIDE DEF n, R, Op
<1>5. step \in [(1..n) \X R -> R]
  BY <1>4
<1>6. PICK g \in [SUBSET (1..n) -> R] : IsFold(n, g, Db!DefaultPolicy, step)
  <2> HIDE DEF step
  <2> QED BY <1>2, <1>3, <1>5, FoldExists
<1>7. ASSUME NEW t \in SUBSET (1..n), t # {} PROVE g[t] = Op(g[t \ {Max(t)}], output[Max(t)])
  <2>1. g[t] = step[<<Max(t), g[t \ {Max(t)}]>>]
    BY <1>6, <1>7 DEF IsFold
  <2>2. Max(t) \in 1..n /\ g[t \ {Max(t)}] \in R
    BY <1>2, <1>7, MaxLemma
  <2>3. <<Max(t), g[t \ {Max(t)}]>> \in (1..n) \X R
    BY <2>2
  <2> QED BY <2>1, <2>3
<1>8. g[{}] = Db!DefaultPolicy
  BY <1>6 DEF IsFold
<1>9. Is(g)
  BY <1>2, <1>7, <1>8
<1>10. Is(iter)
  BY <1>9
<1>11. /\ iter[{}] = Db!DefaultPolicy
       /\ \A t \in SUBSET (1..n) : t # {} => iter[t] = Op(iter[t \ {Max(t)}], output[Max(t)])
  BY <1>2, <1>10
<1> HIDE DEF iter
<1>12. \A t \in SUBSET (1..n) : iter[t] \in R
  <2>1. ASSUME NEW t \in SUBSET (1..n), t # {}, iter[t \ {Max(t)}] \in R PROVE iter[t] \in R
    <3>1. Max(t) \in 1..n
      BY <1>2, <2>1, MaxLemma
    <3>2. iter[t] = Op(iter[t \ {Max(t)}], output[Max(t)])
      BY <1>11, <2>1
    <3> QED BY <1>4, <2>1, <3>1, <3>2
  <2>2. iter[{}] \in R
    BY <1>3, <1>11
  <2> QED BY <1>2, <2>1, <2>2, FoldRange
<1>13. iter[DOMAIN output] \in R
  BY <1>2, <1>12
<1> QED BY <1>1, <1>13 DEF R, Policies

LEMMA SeqOfItself ==
    ASSUME NEW S, NEW s \in Seq(S) PROVE s \in Seq(ToSet(s))
<1> DEFINE n == Len(s)
<1>1. n \in Nat /\ DOMAIN s = 1..n /\ s = [j \in 1..n |-> s[j]]
  OBVIOUS
<1>2. s \in [1..n -> ToSet(s)]
  BY <1>1 DEF ToSet
<1> HIDE DEF n
<1> QED BY <1>1, <1>2

(* The irqs of the devices of the bus, device by device. *)
LEMMA DeviceIrqsLemma ==
    ASSUME NEW devices \in DeviceLists
    PROVE  LET found == Db!DeviceIrqs(devices)
           IN  IrqList(found) /\ \A e \in ToSet(found) : IsDevice(e.dev)
<1> DEFINE n == Len(devices)
           E == {[irq |-> i, dev |-> d] : i \in Irqs, d \in ToSet(devices)}
           R == Seq(E)
           seqs == [d \in DOMAIN devices |->
                      [k \in DOMAIN devices[d].irqs |-> [irq |-> devices[d].irqs[k], dev |-> devices[d]]]]
           Is(g) == g = [j \in 1..Len(seqs) |-> IF j = 1 THEN seqs[j] ELSE g[j - 1] \o seqs[j]]
           flatten == CHOOSE g : Is(g)
           step == [p \in (1..n) \X R |-> p[2] \o seqs[p[1]]]
           found == Db!DeviceIrqs(devices)
<1>1. n \in Nat /\ DOMAIN devices = 1..n /\ \A d \in 1..n : devices[d] \in ToSet(devices)
  BY DbAssumption DEF ToSet
<1>2. DOMAIN seqs = 1..n /\ Len(seqs) = n
  BY <1>1
<1>3. ASSUME NEW d \in 1..n PROVE seqs[d] \in R
  <2>1. devices[d] \in ToSet(devices) /\ devices[d].irqs \in Seq(Irqs)
    BY <1>1, DbAssumption DEF IsDevice
  <2>2. seqs[d] = [k \in 1..Len(devices[d].irqs) |-> [irq |-> devices[d].irqs[k], dev |-> devices[d]]]
    BY <1>1, <2>1
  <2>3. Len(devices[d].irqs) \in Nat
    BY <2>1
  <2>4. \A k \in 1..Len(devices[d].irqs) : devices[d].irqs[k] \in Irqs
    BY <2>1
  <2>5. \A k \in 1..Len(devices[d].irqs) : [irq |-> devices[d].irqs[k], dev |-> devices[d]] \in E
    BY <2>1, <2>4
  <2> HIDE DEF E
  <2> QED BY <2>2, <2>3, <2>5
<1>4. found = IF n = 0 THEN seqs ELSE flatten[n]
  <2>1. found = Db!FlattenSeq(seqs)
    BY DEF Db!DeviceIrqs
  <2> HIDE DEF seqs, found
  <2>2. found = IF Len(seqs) = 0 THEN seqs ELSE flatten[Len(seqs)]
    BY <2>1 DEF Db!FlattenSeq
  <2> QED BY <1>2, <2>2
<1>5. ASSUME n = 0 PROVE found = <<>>
  <2>1. seqs = <<>>
    BY <1>2, <1>5
  <2> HIDE DEF seqs, found
  <2> QED BY <1>4, <1>5, <2>1
<1> HIDE DEF n, E, seqs
<1>6. ASSUME n # 0 PROVE found \in R
  <2>1. step \in [(1..n) \X R -> R]
    BY <1>3
  <2>2. <<>> \in R
    OBVIOUS
  <2>3. PICK h \in [0..n -> R] : h[0] = <<>> /\ \A k \in 1..n : h[k] = step[<<k, h[k - 1]>>]
    <3> HIDE DEF step, R
    <3> QED BY <1>1, <2>1, <2>2, StepsExist
  <2>4. \A k \in 1..n : h[k] = h[k - 1] \o seqs[k]
    <3> TAKE k \in 1..n
    <3>1. k - 1 \in 0..n
      BY <1>1
    <3>2. <<k, h[k - 1]>> \in (1..n) \X R
      BY <3>1
    <3> QED BY <2>3, <3>2
  <2> DEFINE g == [j \in 1..n |-> h[j]]
  <2>5. Is(g)
    <3> SUFFICES ASSUME NEW j \in 1..n PROVE g[j] = IF j = 1 THEN seqs[j] ELSE g[j - 1] \o seqs[j]
      BY <1>2
    <3>1. CASE j = 1
      <4>1. h[1] = <<>> \o seqs[1]
        <5>1. 1 \in 1..n /\ 1 - 1 = 0
          BY <3>1
        <5>2. h[1] = h[1 - 1] \o seqs[1]
          BY <2>4, <5>1
        <5>3. h[0] = <<>>
          BY <2>3
        <5> QED BY <5>1, <5>2, <5>3
      <4>2. <<>> \o seqs[1] = seqs[1]
        BY <1>3, <3>1
      <4> QED BY <3>1, <4>1, <4>2
    <3>2. CASE j # 1
      <4>1. j - 1 \in 1..n
        BY <1>1, <3>2
      <4> QED BY <2>4, <3>2, <4>1, Zenon
    <3> QED BY <3>1, <3>2
  <2>6. Is(flatten)
    <3> HIDE DEF g
    <3> QED BY <2>5, Zenon
  <2>7. \A j \in 1..n : flatten[j] = IF j = 1 THEN seqs[j] ELSE flatten[j - 1] \o seqs[j]
    BY <1>2, <2>6, Zenon
  <2> HIDE DEF flatten
  <2> DEFINE S == {m \in 0..n : m = 0 \/ flatten[m] \in R}
  <2>8. 0 \in S
    BY <1>1
  <2>9. ASSUME NEW k \in 1..n, k - 1 \in S PROVE k \in S
    <3>1. CASE k = 1
      BY <1>3, <2>7, <3>1
    <3>2. CASE k # 1
      <4>1. k - 1 # 0 /\ flatten[k - 1] \in R
        BY <2>9, <3>2
      <4>2. flatten[k] = flatten[k - 1] \o seqs[k] /\ seqs[k] \in R
        BY <1>3, <2>7, <3>2
      <4>3. flatten[k] \in R
        BY <4>1, <4>2
      <4> QED BY <4>3
    <3> QED BY <3>1, <3>2
  <2>10. n \in S
    <3> HIDE DEF S
    <3>1. n \in Nat
      BY <1>1
    <3>2. \A k \in 1..n : k - 1 \in S => k \in S
      BY <2>9
    <3>3. \A k \in 0..n : k \in S
      BY <2>8, <3>1, <3>2, UpTo
    <3> QED BY <3>1, <3>3
  <2> QED BY <1>4, <1>6, <2>10
<1>7. found \in Seq(E)
  <2>1. <<>> \in Seq(E)
    OBVIOUS
  <2> HIDE DEF found
  <2> QED BY <1>5, <1>6, <2>1
<1> HIDE DEF found
<1>8. ToSet(found) \subseteq E
  BY <1>7, ElementOfSeq DEF ToSet
<1>9. found \in Seq(ToSet(found))
  BY <1>7, SeqOfItself
<1>10. \A e \in E : e.irq \in Irqs /\ e.dev \in ToSet(devices)
  BY DEF E
<1>11. \A dev \in ToSet(devices) : IsDevice(dev)
  BY DbAssumption
<1> QED BY <1>8, <1>9, <1>10, <1>11 DEF IrqList, found

-----------------------------------------------------------------------------
(* The irq database: its lists hold irqs, and an irq has one entry. *)
IrqLists == /\ interrupts_db \in Seq(Irqs) /\ banned_irqs \in Seq(Irqs)
            /\ DOMAIN info = Irqs
            /\ Db!OneEntry

(* While the missing irqs are looked for, a listed irq is known or has its *)
(* line still to come.                                                     *)
LeftToFind ==
    /\ db_pc = "built" => db_todo = <<>>
    /\ db_pc \in {"missing", "built"} =>
          \A i \in Db!Listed : \/ i \in ToSet(interrupts_db) \cup ToSet(banned_irqs) \cup name_banned
                               \/ \E e \in ToSet(db_todo) : e.irq = i

(* The db is filled when the tree is there, and given up with it. *)
OnTopOfTree ==
    /\ db_pc \in {"idle", "devices", "missing", "built", "no_bus"}
    /\ db_pc # "idle" => pc = "built"
    /\ db_pc = "idle" => interrupts_db = <<>>

DbInv == /\ IrqLists /\ IrqList(tmp_irqs) /\ IrqList(db_todo)
         /\ LeftToFind /\ OnTopOfTree /\ AdminObeyed

LEMMA IrqListTail ==
    ASSUME NEW s, IrqList(s), s # <<>>
    PROVE  /\ IrqList(Tail(s)) /\ Head(s).irq \in Irqs
           /\ ToSet(s) = ToSet(Tail(s)) \cup {Head(s)}
<1> DEFINE t == Tail(s)
           S == ToSet(s)
<1>1. s \in Seq(S) /\ \A e \in S : e.irq \in Irqs
  BY DEF IrqList
<1> HIDE DEF S
<1>2. /\ t \in Seq(S)
      /\ Len(s) \in Nat /\ Len(s) >= 1
      /\ DOMAIN t = 1..(Len(s) - 1) /\ DOMAIN s = 1..Len(s)
      /\ Head(s) = s[1] /\ Head(s) \in S
      /\ \A j \in 1..(Len(s) - 1) : t[j] = s[j + 1]
  BY <1>1
<1> HIDE DEF t
<1>3. S = {s[j] : j \in 1..Len(s)} /\ ToSet(t) = {t[j] : j \in 1..(Len(s) - 1)}
  BY <1>2 DEF S, ToSet
<1>4. ToSet(t) \subseteq S
  BY <1>2, <1>3
<1>5. ASSUME NEW e \in S, e # Head(s) PROVE e \in ToSet(t)
  <2>1. PICK j \in 1..Len(s) : s[j] = e
    BY <1>3
  <2>2. j - 1 \in 1..(Len(s) - 1) /\ t[j - 1] = e
    BY <1>2, <1>5, <2>1
  <2> QED BY <1>3, <2>2
<1>6. t \in Seq(ToSet(t))
  <2>1. \A j \in 1..(Len(s) - 1) : t[j] \in ToSet(t)
    BY <1>3
  <2> DEFINE n == Len(s) - 1
  <2>2. n \in Nat
    BY <1>2
  <2>3. t = [j \in 1..n |-> t[j]]
    BY <1>2
  <2>4. t \in [1..n -> ToSet(t)]
    BY <2>1, <2>3
  <2> HIDE DEF n
  <2> QED BY <2>2, <2>4
<1>7. IrqList(t)
  BY <1>1, <1>4, <1>6 DEF IrqList
<1>8. S = ToSet(t) \cup {Head(s)}
  BY <1>2, <1>4, <1>5
<1> QED BY <1>1, <1>2, <1>7, <1>8 DEF t, S

(* An irq that is not on a list yet is appended once. *)
LEMMA AppendOnce ==
    ASSUME NEW S, NEW s \in Seq(S), NEW x \in S, x \notin ToSet(s), IsInjective(s)
    PROVE  /\ Append(s, x) \in Seq(S) /\ ToSet(Append(s, x)) = ToSet(s) \cup {x}
           /\ IsInjective(Append(s, x))
<1>1. Append(s, x) \in Seq(S) /\ ToSet(Append(s, x)) = ToSet(s) \cup {x}
  BY AppendLemma
<1> DEFINE t == Append(s, x)
<1>2. /\ DOMAIN t = 1..(Len(s) + 1) /\ DOMAIN s = 1..Len(s) /\ Len(s) \in Nat
      /\ t[Len(s) + 1] = x
      /\ \A j \in 1..Len(s) : t[j] = s[j]
  OBVIOUS
<1> HIDE DEF t
<1>3. \A j \in 1..Len(s) : t[j] # x
  BY <1>2 DEF ToSet
<1>4. \A j \in 1..(Len(s) + 1) : j = Len(s) + 1 \/ j \in 1..Len(s)
  BY <1>2
<1>5. IsInjective(t)
  <2> SUFFICES ASSUME NEW a \in DOMAIN t, NEW b \in DOMAIN t, t[a] = t[b] PROVE a = b
    BY DEF IsInjective
  <2>1. CASE a \in 1..Len(s) /\ b \in 1..Len(s)
    BY <1>2, <2>1 DEF IsInjective
  <2>2. CASE a = Len(s) + 1 \/ b = Len(s) + 1
    BY <1>2, <1>3, <1>4, <2>2
  <2> QED BY <1>2, <1>4, <2>1, <2>2
<1> QED BY <1>1, <1>5 DEF t

-----------------------------------------------------------------------------
(* The helpers IrqDb takes from the library are those of this module. *)
LEMMA SameHelpers ==
    /\ \A s : Db!ToSet(s) = ToSet(s)
    /\ \A f : Db!IsInjective(f) <=> IsInjective(f)
BY DEF Db!ToSet, ToSet, Db!IsInjective, IsInjective

(* What one irq of a device, or one line of /proc/interrupts, comes to.    *)
Entered(irq, new) ==
    /\ ToSet(interrupts_db)' = ToSet(interrupts_db) \cup {irq} /\ banned_irqs' = banned_irqs
    /\ info'[irq] = new
    /\ \A i \in ToSet(interrupts_db) : info'[i] = info[i]

BannedNow(irq) ==
    /\ UNCHANGED <<interrupts_db, info>>
    /\ ToSet(banned_irqs)' = ToSet(banned_irqs) \cup {irq}

Skipped == UNCHANGED <<interrupts_db, banned_irqs, info>>

LEMMA EnterLemma ==
    ASSUME IrqLists, NEW irq \in Irqs, ~Db!get_irq_info(irq), NEW new,
           Db!add_one_irq_to_db(irq, new), banned_irqs' = banned_irqs
    PROVE  IrqLists' /\ Entered(irq, new)
<1>1. irq \notin ToSet(interrupts_db) /\ irq \notin ToSet(banned_irqs)
  BY SameHelpers DEF Db!get_irq_info
<1>2. interrupts_db' = Append(interrupts_db, irq) /\ info' = [info EXCEPT ![irq] = new]
  BY <1>1, SameHelpers DEF Db!add_one_irq_to_db, Db!is_banned_irq
<1>3. /\ interrupts_db \in Seq(Irqs) /\ banned_irqs \in Seq(Irqs) /\ DOMAIN info = Irqs
      /\ IsInjective(interrupts_db) /\ IsInjective(banned_irqs)
      /\ ToSet(interrupts_db) \cap ToSet(banned_irqs) = {}
  BY SameHelpers DEF IrqLists, Db!OneEntry, Db!Db, Db!Banned
<1>4. /\ interrupts_db' \in Seq(Irqs) /\ ToSet(interrupts_db') = ToSet(interrupts_db) \cup {irq}
      /\ IsInjective(interrupts_db')
  BY <1>1, <1>2, <1>3, AppendOnce
<1>5. DOMAIN info' = Irqs /\ info'[irq] = new /\ \A i \in ToSet(interrupts_db) : info'[i] = info[i]
  BY <1>1, <1>2, <1>3
<1>6. ToSet(interrupts_db') \cap ToSet(banned_irqs') = {}
  BY <1>1, <1>3, <1>4
<1>7. IrqLists'
  BY <1>3, <1>4, <1>5, <1>6, SameHelpers DEF IrqLists, Db!OneEntry, Db!Db, Db!Banned
<1> QED BY <1>4, <1>5, <1>7 DEF Entered

LEMMA BanLemma ==
    ASSUME IrqLists, NEW irq \in Irqs, ~Db!get_irq_info(irq),
           Db!add_banned_irq(irq), UNCHANGED <<interrupts_db, info>>
    PROVE  IrqLists' /\ BannedNow(irq)
<1>1. irq \notin ToSet(interrupts_db) /\ irq \notin ToSet(banned_irqs)
  BY SameHelpers DEF Db!get_irq_info
<1>2. banned_irqs' = Append(banned_irqs, irq)
  BY <1>1, SameHelpers DEF Db!add_banned_irq
<1>3. /\ interrupts_db \in Seq(Irqs) /\ banned_irqs \in Seq(Irqs) /\ DOMAIN info = Irqs
      /\ IsInjective(interrupts_db) /\ IsInjective(banned_irqs)
      /\ ToSet(interrupts_db) \cap ToSet(banned_irqs) = {}
  BY SameHelpers DEF IrqLists, Db!OneEntry, Db!Db, Db!Banned
<1>4. /\ banned_irqs' \in Seq(Irqs) /\ ToSet(banned_irqs') = ToSet(banned_irqs) \cup {irq}
      /\ IsInjective(banned_irqs')
  BY <1>1, <1>2, <1>3, AppendOnce
<1>5. ToSet(interrupts_db') \cap ToSet(banned_irqs') = {}
  BY <1>1, <1>3, <1>4
<1>6. IrqLists'
  BY <1>3, <1>4, <1>5, SameHelpers DEF IrqLists, Db!OneEntry, Db!Db, Db!Banned
<1> QED BY <1>4, <1>6 DEF BannedNow

(* The irq a device has, and what the script, the command line and the     *)
(* list of /proc/interrupts make of it.                                    *)
DeviceEntry(irq, new) ==
    /\ irq \in Irqs /\ Entered(irq, new)
    /\ new.dev = TRUE /\ new.pol.ban # 1
    /\ irq \notin cl_banned_irqs
    /\ irq \in Db!Listed => irq \notin module_banned
    /\ new.level # Db!BALANCE_NONE =>
          /\ new.pol.level >= 0 => new.level = new.pol.level
          /\ new.pol.numa_node_set => new.numa_node = Db!get_numa_node(new.pol.numa_node)

MissingEntry(irq, new) ==
    /\ irq \in Irqs /\ Entered(irq, new)
    /\ new.dev = FALSE /\ new.pol.ban # 1
    /\ irq \notin cl_banned_irqs /\ irq \notin name_banned

LEMMA DeviceStep ==
    ASSUME IrqLists, IrqList(db_todo), Db!build_one_dev_entry
    PROVE  /\ IrqLists'
           /\ \/ Skipped
              \/ \E irq \in Irqs : BannedNow(irq)
              \/ \E irq \in Irqs : \E new : DeviceEntry(irq, new)
<1> DEFINE irq == Head(db_todo).irq
           dev == Head(db_todo).dev
<1>1. irq \in Irqs
  BY IrqListTail DEF Db!build_one_dev_entry
<1>2. CASE irq = 0 \/ Db!get_irq_info(irq)
  <2>1. Skipped
    BY <1>2 DEF Db!build_one_dev_entry, Skipped
  <2> QED BY <2>1 DEF Skipped, IrqLists, Db!OneEntry, Db!Db, Db!Banned
<1>3. CASE ~(irq = 0 \/ Db!get_irq_info(irq))
  <2>1. PICK output \in Outputs :
           LET pol == Db!get_irq_user_policy(output)
               new == Db!NewInfo(Db!get_irq_class(dev), dev.numa_node, pol, TRUE)
           IN  IF pol.ban = 1 \/ Db!check_for_irq_ban(irq, Db!Listed)
               THEN Db!add_banned_irq(irq) /\ UNCHANGED <<interrupts_db, info>>
               ELSE Db!add_one_irq_to_db(irq, new) /\ UNCHANGED banned_irqs
    BY <1>3 DEF Db!build_one_dev_entry, Db!Listed
  <2> DEFINE pol == Db!get_irq_user_policy(output)
             class == Db!get_irq_class(dev)
             new == Db!NewInfo(class, dev.numa_node, pol, TRUE)
  <2> HIDE DEF irq, pol, class
  <2>2. CASE pol.ban = 1 \/ Db!check_for_irq_ban(irq, Db!Listed)
    <3>1. Db!add_banned_irq(irq) /\ UNCHANGED <<interrupts_db, info>>
      BY <2>1, <2>2 DEF pol, irq
    <3> QED BY <1>1, <1>3, <3>1, BanLemma
  <2>3. CASE ~(pol.ban = 1 \/ Db!check_for_irq_ban(irq, Db!Listed))
    <3>1. Db!add_one_irq_to_db(irq, new) /\ banned_irqs' = banned_irqs
      BY <2>1, <2>3 DEF pol, irq, class
    <3>2. IrqLists' /\ Entered(irq, new)
      BY <1>1, <1>3, <3>1, EnterLemma
    <3>3. /\ new.dev = TRUE /\ new.pol = pol /\ new.level = Db!PolicyLevel(class, pol)
          /\ pol.numa_node_set => new.numa_node = Db!get_numa_node(pol.numa_node)
      BY DEF Db!NewInfo
    <3> HIDE DEF new
    <3>4. irq \notin cl_banned_irqs /\ (irq \in Db!Listed => irq \notin module_banned)
      BY <2>3 DEF Db!check_for_irq_ban
    <3>5. new.level # Db!BALANCE_NONE /\ pol.level >= 0 => new.level = pol.level
      BY <3>3 DEF Db!PolicyLevel
    <3>6. DeviceEntry(irq, new)
      BY <1>1, <2>3, <3>2, <3>3, <3>4, <3>5 DEF DeviceEntry
    <3> QED BY <1>1, <3>2, <3>6
  <2> QED BY <2>2, <2>3
<1> QED BY <1>2, <1>3

LEMMA MissingStep ==
    ASSUME IrqLists, IrqList(db_todo), Db!add_missing_irq
    PROVE  /\ IrqLists'
           /\ \E irq \in Irqs :
                 /\ irq = Head(db_todo).irq
                 /\ \/ Skipped /\ irq \in ToSet(interrupts_db) \cup ToSet(banned_irqs) \cup name_banned
                    \/ BannedNow(irq)
                    \/ \E new : MissingEntry(irq, new)
<1> DEFINE line == Head(db_todo)
           irq == line.irq
<1>1. irq \in Irqs
  BY IrqListTail, Zenon DEF Db!add_missing_irq
<1>2. CASE Db!get_irq_info(irq) \/ irq \in name_banned
  <2>1. Skipped
    BY <1>2, Zenon DEF Db!add_missing_irq, Skipped
  <2>2. irq \in ToSet(interrupts_db) \cup ToSet(banned_irqs) \cup name_banned
    BY <1>2, SameHelpers DEF Db!get_irq_info
  <2>3. IrqLists'
    BY <2>1 DEF Skipped, IrqLists, Db!OneEntry, Db!Db, Db!Banned
  <2> QED BY <1>1, <2>1, <2>2, <2>3
<1>3. CASE ~(Db!get_irq_info(irq) \/ irq \in name_banned)
  <2>1. PICK output \in Outputs :
           LET pol  == Db!get_irq_user_policy(output)
               hint == Db!ProcClass(line)
               new  == [Db!NewInfo(Db!IRQ_OTHER, -1, pol, FALSE) EXCEPT
                           !.class = hint, !.level = Db!map_class_to_level(hint)]
           IN  IF pol.ban = 1 \/ Db!check_for_irq_ban(irq, Db!ListForBan)
               THEN Db!add_banned_irq(irq) /\ UNCHANGED <<interrupts_db, info>>
               ELSE Db!add_one_irq_to_db(irq, new) /\ UNCHANGED banned_irqs
    BY <1>3, Zenon DEF Db!add_missing_irq
  <2> DEFINE pol  == Db!get_irq_user_policy(output)
             hint == Db!ProcClass(line)
             new  == [Db!NewInfo(Db!IRQ_OTHER, -1, pol, FALSE) EXCEPT
                         !.class = hint, !.level = Db!map_class_to_level(hint)]
  <2>2. CASE pol.ban = 1 \/ Db!check_for_irq_ban(irq, Db!ListForBan)
    <3>1. Db!add_banned_irq(irq) /\ UNCHANGED <<interrupts_db, info>>
      BY <2>1, <2>2
    <3> QED BY <1>1, <1>3, <3>1, BanLemma
  <2>3. CASE ~(pol.ban = 1 \/ Db!check_for_irq_ban(irq, Db!ListForBan))
    <3>1. Db!add_one_irq_to_db(irq, new) /\ banned_irqs' = banned_irqs
      BY <2>1, <2>3
    <3>2. IrqLists' /\ Entered(irq, new)
      BY <1>1, <1>3, <3>1, EnterLemma
    <3>3. new.dev = FALSE /\ new.pol = pol
      BY DEF Db!NewInfo
    <3> HIDE DEF new
    <3>4. irq \notin cl_banned_irqs /\ irq \notin name_banned
      BY <1>3, <2>3 DEF Db!check_for_irq_ban
    <3>5. MissingEntry(irq, new)
      BY <1>1, <2>3, <3>2, <3>3, <3>4 DEF MissingEntry
    <3> QED BY <1>1, <3>2, <3>5
  <2> QED BY <2>2, <2>3
<1> QED BY <1>2, <1>3

-----------------------------------------------------------------------------
(* The administrator is obeyed, entry by entry. *)
Obeyed(i) ==
    /\ i \notin cl_banned_irqs
    /\ info[i].dev /\ i \in Db!Listed => i \notin module_banned
    /\ ~info[i].dev => i \notin name_banned
    /\ info[i].pol.ban # 1
    /\ info[i].dev /\ info[i].level # Db!BALANCE_NONE =>
          /\ info[i].pol.level >= 0 => info[i].level = info[i].pol.level
          /\ info[i].pol.numa_node_set => info[i].numa_node = Db!get_numa_node(info[i].pol.numa_node)

LEMMA ObeyedLemma == AdminObeyed <=> \A i \in ToSet(interrupts_db) : Obeyed(i)
BY SameHelpers DEF AdminObeyed, Db!BansHonoured, Db!PolicyHonoured, Db!Db, Obeyed

LEMMA ObeyedStep ==
    ASSUME AdminObeyed, tmp_irqs' = tmp_irqs,
           \/ Skipped
           \/ \E irq \in Irqs : BannedNow(irq)
           \/ \E irq \in Irqs : \E new : DeviceEntry(irq, new) \/ MissingEntry(irq, new)
    PROVE  AdminObeyed'
<1>1. Db!Listed' = Db!Listed
  BY DEF Db!Listed
<1>2. \A i \in ToSet(interrupts_db) : Obeyed(i)
  BY ObeyedLemma
<1>3. SUFFICES \A i \in ToSet(interrupts_db)' : Obeyed(i)'
  BY SameHelpers DEF AdminObeyed, Db!BansHonoured, Db!PolicyHonoured, Db!Db, Obeyed
<1>4. CASE UNCHANGED <<interrupts_db, info>>
  BY <1>1, <1>2, <1>4 DEF Obeyed, Db!get_numa_node
<1>5. ASSUME NEW irq \in Irqs, NEW new, DeviceEntry(irq, new) \/ MissingEntry(irq, new)
      PROVE  \A i \in ToSet(interrupts_db)' : Obeyed(i)'
  <2>1. Entered(irq, new)
    BY <1>5 DEF DeviceEntry, MissingEntry
  <2>2. ASSUME NEW i \in ToSet(interrupts_db) PROVE Obeyed(i)'
    <3>1. info'[i] = info[i]
      BY <2>1 DEF Entered
    <3> QED BY <1>1, <1>2, <3>1 DEF Obeyed, Db!get_numa_node
  <2>3. Obeyed(irq)'
    <3>1. info'[irq] = new
      BY <2>1 DEF Entered
    <3> QED BY <1>1, <1>5, <3>1 DEF Obeyed, DeviceEntry, MissingEntry, Db!get_numa_node
  <2> QED BY <2>1, <2>2, <2>3 DEF Entered
<1> QED BY <1>4, <1>5 DEF Skipped, BannedNow

-----------------------------------------------------------------------------
(* An empty database. *)
NoDb ==
    /\ interrupts_db = <<>> /\ banned_irqs = <<>>
    /\ DOMAIN info = Irqs

LEMMA EmptyList ==
    ASSUME NEW s, s = <<>>
    PROVE  s \in Seq(Irqs) /\ IsInjective(s) /\ ToSet(s) = {} /\ IrqList(s)
<1>1. DOMAIN s = {} /\ ToSet(s) = {}
  BY NothingInEmpty
<1>2. s \in Seq(Irqs) /\ s \in Seq(ToSet(s))
  OBVIOUS
<1> QED BY <1>1, <1>2 DEF IsInjective, IrqList

LEMMA NoDbInit ==
    ASSUME NoDb PROVE IrqLists /\ AdminObeyed
<1>1. /\ interrupts_db \in Seq(Irqs) /\ IsInjective(interrupts_db) /\ ToSet(interrupts_db) = {}
      /\ banned_irqs \in Seq(Irqs) /\ IsInjective(banned_irqs) /\ ToSet(banned_irqs) = {}
  BY EmptyList DEF NoDb
<1>2. IrqLists
  BY <1>1, SameHelpers DEF IrqLists, NoDb, Db!OneEntry, Db!Db, Db!Banned
<1> QED BY <1>1, <1>2, ObeyedLemma

LEMMA NoDbNext ==
    ASSUME NoDb' PROVE IrqLists' /\ AdminObeyed'
<1>1. /\ interrupts_db' \in Seq(Irqs) /\ IsInjective(interrupts_db') /\ ToSet(interrupts_db') = {}
      /\ banned_irqs' \in Seq(Irqs) /\ IsInjective(banned_irqs') /\ ToSet(banned_irqs') = {}
  BY EmptyList DEF NoDb
<1>2. IrqLists'
  BY <1>1, SameHelpers DEF IrqLists, NoDb, Db!OneEntry, Db!Db, Db!Banned
<1>3. AdminObeyed'
  BY <1>1, SameHelpers DEF AdminObeyed, Db!BansHonoured, Db!PolicyHonoured, Db!Db
<1> QED BY <1>2, <1>3

LEMMA DbInvInit ==
    ASSUME ObjInit PROVE DbInv
<1>1. NoDb /\ db_pc = "idle" /\ tmp_irqs = <<>> /\ db_todo = <<>>
  BY DEF ObjInit, Db!Init, NoDb
<1>2. IrqList(tmp_irqs) /\ IrqList(db_todo)
  BY <1>1, EmptyList
<1>3. LeftToFind /\ OnTopOfTree
  BY <1>1 DEF LeftToFind, OnTopOfTree, NoDb
<1> QED BY <1>1, <1>2, <1>3, NoDbInit DEF DbInv

(* Nothing leaves the lists of a database that is being built. *)
LEMMA KnownStays ==
    ASSUME \/ Skipped
           \/ \E irq \in Irqs : BannedNow(irq)
           \/ \E irq \in Irqs : \E new : Entered(irq, new)
    PROVE  ToSet(interrupts_db) \cup ToSet(banned_irqs)
              \subseteq ToSet(interrupts_db)' \cup ToSet(banned_irqs)'
BY DEF Skipped, BannedNow, Entered

LEMMA DbInvStep ==
    ASSUME DbInv, [ObjNext]_allVars
    PROVE  DbInv'
<1>1. /\ IrqLists /\ IrqList(tmp_irqs) /\ IrqList(db_todo)
      /\ LeftToFind /\ OnTopOfTree /\ AdminObeyed
  BY DEF DbInv
<1>2. CASE UNCHANGED dbVars /\ (pc = "built" => pc' = "built")
  <2>1. IrqLists' /\ AdminObeyed'
    BY <1>1, <1>2 DEF dbVars, IrqLists, Db!OneEntry, Db!Db, Db!Banned, AdminObeyed, Db!Listed,
                      Db!BansHonoured, Db!PolicyHonoured, Db!get_numa_node
  <2>2. IrqList(tmp_irqs)' /\ IrqList(db_todo)' /\ LeftToFind' /\ OnTopOfTree'
    BY <1>1, <1>2 DEF dbVars, IrqList, LeftToFind, OnTopOfTree, Db!Listed
  <2> QED BY <2>1, <2>2 DEF DbInv
<1>3. CASE pc = "built" /\ Db!rebuild_irq_db /\ UNCHANGED vars
  <2>1. NoDb'
    BY <1>3 DEF Db!rebuild_irq_db, NoDb
  <2>2. IrqList(tmp_irqs)' /\ IrqList(db_todo)'
    <3>1. IrqList(tmp_irqs')
      BY <1>3, DbAssumption, DeviceIrqsLemma DEF Db!rebuild_irq_db
    <3>2. IrqList(db_todo')
      BY <1>3, DeviceIrqsLemma, EmptyList DEF Db!rebuild_irq_db
    <3> QED BY <3>1, <3>2 DEF IrqList
  <2>3. LeftToFind' /\ OnTopOfTree'
    BY <1>3 DEF Db!rebuild_irq_db, LeftToFind, OnTopOfTree, vars
  <2> QED BY <2>1, <2>2, <2>3, NoDbNext DEF DbInv
<1>4. CASE pc = "built" /\ Db!build_one_dev_entry /\ UNCHANGED vars
  <2>1. /\ db_pc = "devices" /\ db_todo # <<>> /\ db_todo' = Tail(db_todo)
        /\ UNCHANGED <<db_pc, tmp_irqs, pc>>
    BY <1>4 DEF Db!build_one_dev_entry, vars
  <2>2. /\ IrqLists'
        /\ \/ Skipped
           \/ \E irq \in Irqs : BannedNow(irq)
           \/ \E irq \in Irqs : \E new : DeviceEntry(irq, new)
    BY <1>1, <1>4, DeviceStep
  <2>3. AdminObeyed'
    BY <1>1, <2>1, <2>2, ObeyedStep
  <2>4. IrqList(db_todo') /\ IrqList(tmp_irqs')
    BY <1>1, <2>1, IrqListTail
  <2>5. LeftToFind' /\ OnTopOfTree'
    BY <1>4, <2>1 DEF LeftToFind, OnTopOfTree
  <2> QED BY <2>2, <2>3, <2>4, <2>5 DEF DbInv, IrqList
<1>5. CASE pc = "built" /\ Db!DevicesDone /\ UNCHANGED vars
  <2>1. /\ db_pc' = "missing" /\ db_todo' = Db!for_each_irq(tmp_irqs)
        /\ UNCHANGED <<interrupts_db, banned_irqs, info, tmp_irqs, pc>>
    BY <1>5 DEF Db!DevicesDone, vars
  <2>2. IrqLists' /\ AdminObeyed'
    BY <1>1, <2>1 DEF IrqLists, Db!OneEntry, Db!Db, Db!Banned, AdminObeyed, Db!Listed,
                      Db!BansHonoured, Db!PolicyHonoured, Db!get_numa_node
  <2>3. IrqList(db_todo') /\ IrqList(tmp_irqs')
    <3>1. CASE tmp_irqs # <<>>
      BY <1>1, <2>1, <3>1 DEF Db!for_each_irq
    <3>2. CASE tmp_irqs = <<>>
      <4>1. PICK n \in Nat : DOMAIN interrupts_db = 1..n /\ \A j \in 1..n : interrupts_db[j] \in Irqs
        BY <1>1 DEF IrqLists
      <4>2. db_todo' = [j \in 1..n |-> [irq |-> interrupts_db[j], rows |-> {},
                                        found |-> "none", virt |-> FALSE]]
        BY <2>1, <3>2, <4>1 DEF Db!for_each_irq
      <4>3. DOMAIN db_todo' = 1..n /\ \A j \in 1..n : db_todo'[j].irq \in Irqs
        BY <4>1, <4>2
      <4>4. \A j \in 1..n : db_todo'[j] \in ToSet(db_todo')
        BY <4>3 DEF ToSet
      <4>5. db_todo' = [j \in 1..n |-> db_todo'[j]]
        BY <4>2
      <4>6. db_todo' \in [1..n -> ToSet(db_todo')]
        BY <4>4, <4>5
      <4>7. db_todo' \in Seq(ToSet(db_todo'))
        BY <4>6
      <4>8. \A e \in ToSet(db_todo') : e.irq \in Irqs
        BY <4>3 DEF ToSet
      <4> QED BY <1>1, <2>1, <4>7, <4>8 DEF IrqList
    <3> QED BY <3>1, <3>2
  <2>4. LeftToFind'
    <3>1. ASSUME NEW i \in Db!Listed' PROVE \E e \in ToSet(db_todo') : e.irq = i
      <4>1. PICK k \in DOMAIN tmp_irqs : tmp_irqs[k].irq = i
        BY <2>1 DEF Db!Listed
      <4>2. tmp_irqs # <<>>
        BY <4>1
      <4>3. db_todo' = tmp_irqs
        BY <2>1, <4>2 DEF Db!for_each_irq
      <4>4. tmp_irqs[k] \in ToSet(tmp_irqs)
        BY DEF ToSet
      <4> QED BY <4>1, <4>3, <4>4
    <3> QED BY <2>1, <3>1 DEF LeftToFind
  <2>5. OnTopOfTree'
    BY <1>5, <2>1 DEF OnTopOfTree
  <2> QED BY <2>2, <2>3, <2>4, <2>5 DEF DbInv, IrqList
<1>6. CASE pc = "built" /\ Db!add_missing_irq /\ UNCHANGED vars
  <2>1. /\ db_pc = "missing" /\ db_todo # <<>> /\ db_todo' = Tail(db_todo)
        /\ UNCHANGED <<db_pc, tmp_irqs, pc>>
    BY <1>6, Zenon DEF Db!add_missing_irq, vars
  <2>2. IrqLists'
    BY <1>1, <1>6, MissingStep
  <2>3. PICK irq \in Irqs :
           /\ irq = Head(db_todo).irq
           /\ \/ Skipped /\ irq \in ToSet(interrupts_db) \cup ToSet(banned_irqs) \cup name_banned
              \/ BannedNow(irq)
              \/ \E new : MissingEntry(irq, new)
    BY <1>1, <1>6, MissingStep
  <2>4. AdminObeyed'
    BY <1>1, <2>1, <2>3, ObeyedStep
  <2>5. IrqList(db_todo') /\ IrqList(tmp_irqs') /\ ToSet(db_todo) = ToSet(db_todo') \cup {Head(db_todo)}
    BY <1>1, <2>1, IrqListTail
  <2>6. LeftToFind'
    <3>1. irq \in ToSet(interrupts_db)' \cup ToSet(banned_irqs)' \cup name_banned
      BY <2>3 DEF Skipped, BannedNow, MissingEntry, Entered
    <3>2. ToSet(interrupts_db) \cup ToSet(banned_irqs)
             \subseteq ToSet(interrupts_db)' \cup ToSet(banned_irqs)'
      BY <2>3, KnownStays DEF MissingEntry
    <3>3. Db!Listed' = Db!Listed
      BY <2>1 DEF Db!Listed
    <3>4. ASSUME NEW i \in Db!Listed
          PROVE  \/ i \in ToSet(interrupts_db)' \cup ToSet(banned_irqs)' \cup name_banned
                 \/ \E e \in ToSet(db_todo') : e.irq = i
      <4>1. \/ i \in ToSet(interrupts_db) \cup ToSet(banned_irqs) \cup name_banned
            \/ \E e \in ToSet(db_todo) : e.irq = i
        BY <1>1, <2>1 DEF LeftToFind
      <4> QED BY <2>3, <2>5, <3>1, <3>2, <4>1
    <3> QED BY <2>1, <3>3, <3>4 DEF LeftToFind
  <2>7. OnTopOfTree'
    BY <1>6, <2>1 DEF OnTopOfTree
  <2> QED BY <2>2, <2>4, <2>5, <2>6, <2>7 DEF DbInv, IrqList
<1>7. CASE pc = "built" /\ Db!RebuildDone /\ UNCHANGED vars
  <2>1. /\ db_pc = "missing" /\ db_pc' = "built" /\ db_todo = <<>>
        /\ UNCHANGED <<interrupts_db, banned_irqs, info, tmp_irqs, db_todo, pc>>
    BY <1>7 DEF Db!RebuildDone, vars
  <2>2. IrqLists' /\ AdminObeyed'
    BY <1>1, <2>1 DEF IrqLists, Db!OneEntry, Db!Db, Db!Banned, AdminObeyed, Db!Listed,
                      Db!BansHonoured, Db!PolicyHonoured, Db!get_numa_node
  <2>3. IrqList(tmp_irqs)' /\ IrqList(db_todo)' /\ LeftToFind' /\ OnTopOfTree'
    BY <1>1, <1>7, <2>1 DEF IrqList, LeftToFind, OnTopOfTree, Db!Listed
  <2> QED BY <2>2, <2>3 DEF DbInv
<1>8. CASE free_object_tree
  <2>1. /\ NoDb' /\ tmp_irqs' = <<>> /\ db_todo' = <<>> /\ db_pc' = "idle"
    BY <1>8 DEF free_object_tree, NoDb
  <2>2. IrqList(tmp_irqs') /\ IrqList(db_todo')
    BY <2>1, EmptyList
  <2>3. LeftToFind' /\ OnTopOfTree'
    BY <2>1 DEF LeftToFind, OnTopOfTree, NoDb
  <2> QED BY <2>1, <2>2, <2>3, NoDbNext DEF DbInv, IrqList
<1>9. \/ UNCHANGED dbVars /\ (pc = "built" => pc' = "built")
      \/ /\ pc = "built" /\ UNCHANGED vars
         /\ \/ Db!rebuild_irq_db \/ Db!build_one_dev_entry \/ Db!DevicesDone
            \/ Db!add_missing_irq \/ Db!RebuildDone
      \/ free_object_tree
  <2>1. KernelStep \/ ScanStep => UNCHANGED dbVars /\ (pc = "built" => pc' = "built")
    BY DEF KernelStep, ScanStep, Hotplug, do_one_cpu, ReadSiblings, AddCpu, ScanDone
  <2>2. UNCHANGED allVars => UNCHANGED dbVars /\ (pc = "built" => pc' = "built")
    BY DEF allVars, vars
  <2> QED BY <2>1, <2>2 DEF ObjNext, DbStep
<1> QED BY <1>2, <1>3, <1>4, <1>5, <1>6, <1>7, <1>8, <1>9

LEMMA DbInvMeans ==
    ASSUME DbInv PROVE AllKnown /\ AdminObeyed
<1>1. ASSUME db_pc = "built", NEW i \in Db!Listed
      PROVE  i \in Db!Db \cup Db!Banned \cup name_banned
  <2>1. ToSet(db_todo) = {}
    BY <1>1, NothingInEmpty DEF DbInv, LeftToFind
  <2> QED BY <1>1, <2>1, SameHelpers DEF DbInv, LeftToFind, Db!Db, Db!Banned
<1> QED BY <1>1 DEF AllKnown, Db!AllKnown, DbInv

(* The database never balances an irq that the command line, a module or   *)
(* a name ban or the last word of the script forbids, and a device irq is  *)
(* at the level and on the node the script gives, in whatever order the    *)
(* devices come and however often an irq turns up.                         *)
THEOREM AdminIsObeyed == ObjSpec => []AdminObeyed
<1>1. ObjInit => DbInv
  BY DbInvInit
<1>2. DbInv /\ [ObjNext]_allVars => DbInv'
  BY DbInvStep
<1>3. DbInv => AdminObeyed
  BY DbInvMeans
<1> QED BY <1>1, <1>2, <1>3, PTL DEF ObjSpec

(* A database that is built knows every listed irq, or has it banned by    *)
(* name: for every /proc/interrupts, every bus and every script.           *)
THEOREM ListedIrqsAreKnown == ObjSpec => []AllKnown
<1>1. ObjInit => DbInv
  BY DbInvInit
<1>2. DbInv /\ [ObjNext]_allVars => DbInv'
  BY DbInvStep
<1>3. DbInv => AllKnown
  BY DbInvMeans
<1> QED BY <1>1, <1>2, <1>3, PTL DEF ObjSpec

-----------------------------------------------------------------------------
(* Every entry has a class, a level, and a node that the tree has. *)
Good(r) ==
    /\ r.class \in 0..7 /\ r.level \in 0..3
    /\ r.numa_node \in DOMAIN build_numa_node_list

InfoTypes ==
    /\ \A i \in Irqs : Good(info[i])
    /\ \A e \in ToSet(tmp_irqs) : IsLine(e)
    /\ db_pc = "devices" => \A e \in ToSet(db_todo) : IsDevice(e.dev)
    /\ db_pc = "missing" => \A e \in ToSet(db_todo) : IsLine(e)

LEMMA NodeLemma ==
    ASSUME NEW n
    PROVE  /\ Db!get_numa_node(n) # None => Db!get_numa_node(n) \in DOMAIN build_numa_node_list
           /\ n \in NodeIds \cup {-1} => Db!get_numa_node(n) # None
BY CpuTreeAssumption DEF Db!get_numa_node, build_numa_node_list, None

LEMMA PciClass ==
    ASSUME NEW dev, IsDevice(dev) PROVE Db!get_irq_class(dev) \in -1..5
<1> USE DEF Db!IRQ_NODEF, Db!IRQ_OTHER, Db!IRQ_LEGACY, Db!IRQ_SCSI, Db!IRQ_VIDEO, Db!IRQ_ETH
<1>1. Db!major_class_codes \in [1..20 -> -1..5]
  BY DEF Db!major_class_codes
<1>2. \A m \in Nat : m < 20 => Db!major_class_codes[m + 1] \in -1..5
  <2> SUFFICES ASSUME NEW m \in Nat, m < 20 PROVE Db!major_class_codes[m + 1] \in -1..5
    OBVIOUS
  <2>1. m + 1 \in 1..20
    OBVIOUS
  <2> QED BY <1>1, <2>1
<1>3. \A u : Db!serial_sub_codes(u) \in -1..5
  BY DEF Db!serial_sub_codes
<1>4. \A m, u \in Nat : Db!map_pci_irq_class(m, u) \in -1..5
  <2> SUFFICES ASSUME NEW m \in Nat, NEW u \in Nat PROVE Db!map_pci_irq_class(m, u) \in -1..5
    OBVIOUS
  <2>1. CASE m >= 20
    BY <2>1 DEF Db!map_pci_irq_class
  <2>2. CASE m = 12
    BY <2>2, <1>3 DEF Db!map_pci_irq_class
  <2>3. CASE m < 20 /\ m # 12
    BY <2>3, <1>2 DEF Db!map_pci_irq_class
  <2> QED BY <2>1, <2>2, <2>3
<1>5. dev.major \in Nat /\ dev.sub \in Nat
  BY DEF IsDevice
<1> QED BY <1>4, <1>5 DEF Db!get_irq_class

(* The last row that matches. *)
LEMMA LastRow ==
    ASSUME NEW R \in SUBSET (1..11), R # {}
    PROVE  (CHOOSE r \in R : \A q \in R : q <= r) \in R
<1> DEFINE S == {n \in Nat : \E r \in R : n = 11 - r}
<1>1. S \in SUBSET Nat /\ S # {}
  <2>1. PICK r \in R : TRUE
    OBVIOUS
  <2>2. r \in 1..11
    BY <2>1
  <2>3. 11 - r \in S
    BY <2>1, <2>2
  <2> QED BY <2>3
<1>2. PICK m \in S : \A n \in S : m <= n
  BY <1>1, LeastNatural
<1>3. PICK r \in R : m = 11 - r
  BY <1>2
<1>4. ASSUME NEW q \in R PROVE q <= r
  <2>1. q \in 1..11 /\ r \in 1..11
    BY <1>3
  <2>2. 11 - q \in S
    BY <2>1
  <2>3. m <= 11 - q
    BY <1>2, <2>2
  <2> QED BY <1>3, <2>1, <2>3
<1> QED BY <1>3, <1>4

LEMMA LineClass ==
    ASSUME NEW line, IsLine(line) PROVE Db!ProcClass(line) \in 0..7
<1> USE DEF Db!IRQ_OTHER, Db!IRQ_SCSI, Db!IRQ_VIDEO, Db!IRQ_ETH, Db!IRQ_GBETH, Db!IRQ_VIRT_EVENT
<1>1. DOMAIN Db!matches = 1..11 /\ \A r \in 1..11 : Db!matches[r] \in 0..7
  BY DEF Db!matches
<1>2. Db!check_platform_device(line.found) \in 0..7
  BY DEF Db!check_platform_device
<1>3. line.rows \in SUBSET (1..11)
  BY <1>1 DEF IsLine
<1>4. Db!guess_arm_irq_hints(line) \in 0..7
  <2>1. CASE line.rows = {}
    BY <2>1 DEF Db!guess_arm_irq_hints
  <2>2. CASE line.rows # {}
    <3> DEFINE last == CHOOSE r \in line.rows : \A q \in line.rows : q <= r
    <3>1. last \in 1..11
      BY <1>3, <2>2, LastRow
    <3>2. Db!guess_arm_irq_hints(line) = IF last \in {10, 11} THEN Db!check_platform_device(line.found)
                                         ELSE Db!matches[last]
      BY <2>2 DEF Db!guess_arm_irq_hints
    <3> HIDE DEF last
    <3> QED BY <1>1, <1>2, <3>1, <3>2
  <2> QED BY <2>1, <2>2
<1> QED BY <1>4 DEF Db!ProcClass

LEMMA LevelOfClass ==
    \A class : Db!map_class_to_level(class) \in 0..3
BY DEF Db!map_class_to_level, Db!BALANCE_PACKAGE, Db!BALANCE_CACHE, Db!BALANCE_CORE

LEMMA GoodEntry ==
    ASSUME NEW class \in -1..5, NEW node \in NodeIds \cup {-1}, NEW pol, IsPolicy(pol), NEW dev
    PROVE  Good(Db!NewInfo(class, node, pol, dev))
<1> DEFINE new == Db!NewInfo(class, node, pol, dev)
           n   == IF pol.numa_node_set THEN pol.numa_node ELSE IF numa_avail THEN node ELSE -1
<1>1. new.class \in 0..7
  BY DEF Db!NewInfo, Db!IRQ_OTHER
<1>2. new.level \in 0..3
  <2>1. pol.level \in -1..3
    BY DEF IsPolicy
  <2>2. Db!PolicyLevel(class, pol) \in 0..3
    BY <2>1, LevelOfClass DEF Db!PolicyLevel, Db!BALANCE_NONE
  <2> QED BY <2>2 DEF Db!NewInfo
<1>3. new.numa_node = Db!get_numa_node(n)
  BY DEF Db!NewInfo
<1>4. Db!get_numa_node(n) # None
  BY NodeLemma DEF IsPolicy
<1> HIDE DEF n
<1>5. new.numa_node \in DOMAIN build_numa_node_list
  BY <1>3, <1>4, NodeLemma
<1> QED BY <1>1, <1>2, <1>5 DEF Good

LEMMA GoodUnused == Good(Db!Unused)
<1>1. IsPolicy(Db!DefaultPolicy)
  BY DEF IsPolicy, Db!DefaultPolicy
<1>2. Db!IRQ_NODEF \in -1..5 /\ -1 \in NodeIds \cup {-1}
  BY DEF Db!IRQ_NODEF
<1> QED BY <1>1, <1>2, GoodEntry DEF Db!Unused

LEMMA GoodStep ==
    ASSUME DOMAIN info = Irqs, \A i \in Irqs : Good(info[i]),
           NEW irq \in Irqs, NEW new, Good(new),
           Db!add_one_irq_to_db(irq, new)
    PROVE  \A i \in Irqs : Good(info[i])'
<1>1. UNCHANGED info \/ info' = [info EXCEPT ![irq] = new]
  BY DEF Db!add_one_irq_to_db
<1>2. \A i \in Irqs : info'[i] = info[i] \/ info'[i] = new
  BY <1>1
<1>3. (DOMAIN build_numa_node_list)' = DOMAIN build_numa_node_list
  BY DEF build_numa_node_list
<1>4. \A i \in Irqs : Good(info'[i])
  BY <1>2
<1> QED BY <1>3, <1>4 DEF Good

LEMMA InfoTypesInit ==
    ASSUME ObjInit PROVE InfoTypes
<1>1. db_pc = "idle" /\ tmp_irqs = <<>> /\ info = [i \in Irqs |-> Db!Unused]
  BY DEF ObjInit, Db!Init
<1>2. \A i \in Irqs : Good(info[i])
  BY <1>1, GoodUnused
<1>3. ToSet(tmp_irqs) = {}
  BY <1>1, NothingInEmpty
<1> QED BY <1>1, <1>2, <1>3 DEF InfoTypes

LEMMA InfoTypesStep ==
    ASSUME DbInv, InfoTypes, [ObjNext]_allVars
    PROVE  InfoTypes'
<1>1. /\ \A i \in Irqs : Good(info[i])
      /\ \A e \in ToSet(tmp_irqs) : IsLine(e)
      /\ db_pc = "devices" => \A e \in ToSet(db_todo) : IsDevice(e.dev)
      /\ db_pc = "missing" => \A e \in ToSet(db_todo) : IsLine(e)
  BY DEF InfoTypes
<1>2. DOMAIN info = Irqs /\ IrqList(db_todo)
  BY DEF DbInv, IrqLists
<1>3. (DOMAIN build_numa_node_list)' = DOMAIN build_numa_node_list
  BY DEF build_numa_node_list
<1>4. ASSUME \A i \in Irqs : Good(info'[i]),
             \A e \in ToSet(tmp_irqs') : IsLine(e),
             db_pc' = "devices" => \A e \in ToSet(db_todo') : IsDevice(e.dev),
             db_pc' = "missing" => \A e \in ToSet(db_todo') : IsLine(e)
      PROVE  InfoTypes'
  BY <1>3, <1>4 DEF InfoTypes, Good, IsLine, IsDevice, Db!matches
<1>5. CASE UNCHANGED dbVars
  BY <1>1, <1>4, <1>5 DEF dbVars
<1>6. CASE Db!rebuild_irq_db
  <2>1. info' = [i \in Irqs |-> Db!Unused]
    BY <1>6 DEF Db!rebuild_irq_db
  <2>2. \A i \in Irqs : Good(info'[i])
    BY <2>1, GoodUnused
  <2>3. \A e \in ToSet(tmp_irqs') : IsLine(e)
    BY <1>6, DbAssumption DEF Db!rebuild_irq_db
  <2>4. db_pc' # "missing"
    BY <1>6 DEF Db!rebuild_irq_db
  <2>5. db_pc' = "devices" => \A e \in ToSet(db_todo') : IsDevice(e.dev)
    BY <1>6, DeviceIrqsLemma DEF Db!rebuild_irq_db
  <2> QED BY <1>4, <2>2, <2>3, <2>4, <2>5
<1>7. CASE Db!build_one_dev_entry
  <2> DEFINE irq == Head(db_todo).irq
             dev == Head(db_todo).dev
  <2>1. /\ db_pc = "devices" /\ db_todo # <<>> /\ db_todo' = Tail(db_todo)
        /\ UNCHANGED <<db_pc, tmp_irqs>>
    BY <1>7 DEF Db!build_one_dev_entry
  <2>2. irq \in Irqs /\ ToSet(db_todo) = ToSet(db_todo') \cup {Head(db_todo)}
    BY <1>2, <2>1, IrqListTail
  <2>3. IsDevice(dev)
    BY <1>1, <2>1, <2>2
  <2>4. \A output \in Outputs :
           Good(Db!NewInfo(Db!get_irq_class(dev), dev.numa_node, Db!get_irq_user_policy(output), TRUE))
    <3> SUFFICES ASSUME NEW output \in Outputs
                 PROVE  Good(Db!NewInfo(Db!get_irq_class(dev), dev.numa_node,
                                        Db!get_irq_user_policy(output), TRUE))
      OBVIOUS
    <3>1. IsPolicy(Db!get_irq_user_policy(output))
      BY PolicyLemma
    <3>2. Db!get_irq_class(dev) \in -1..5 /\ dev.numa_node \in NodeIds \cup {-1}
      BY <2>3, PciClass DEF IsDevice
    <3> QED BY <3>1, <3>2, GoodEntry
  <2>5. info' = info \/ \E new : Good(new) /\ Db!add_one_irq_to_db(irq, new)
    BY <1>7, <2>4 DEF Db!build_one_dev_entry
  <2> HIDE DEF irq, dev
  <2>6. \A i \in Irqs : Good(info'[i])
    <3>1. CASE info' = info
      BY <1>1, <3>1
    <3>2. ASSUME NEW new, Good(new), Db!add_one_irq_to_db(irq, new) PROVE \A i \in Irqs : Good(info'[i])
      <4>1. \A i \in Irqs : Good(info[i])'
        BY <1>1, <1>2, <2>2, <3>2, GoodStep
      <4> QED BY <1>3, <4>1 DEF Good
    <3> QED BY <2>5, <3>1, <3>2
  <2> QED BY <1>1, <1>4, <2>1, <2>2, <2>6
<1>8. CASE Db!DevicesDone
  <2>1. db_pc' = "missing" /\ db_todo' = Db!for_each_irq(tmp_irqs) /\ UNCHANGED <<info, tmp_irqs>>
    BY <1>8 DEF Db!DevicesDone
  <2>2. \A e \in ToSet(db_todo') : IsLine(e)
    <3>1. CASE tmp_irqs # <<>>
      BY <1>1, <2>1, <3>1 DEF Db!for_each_irq
    <3>2. CASE tmp_irqs = <<>>
      BY <2>1, <3>2 DEF Db!for_each_irq, ToSet, IsLine
    <3> QED BY <3>1, <3>2
  <2> QED BY <1>1, <1>4, <2>1, <2>2
<1>9. CASE Db!add_missing_irq
  <2> DEFINE line == Head(db_todo)
             irq == line.irq
             hint == Db!ProcClass(line)
             NewLine(pol) == [Db!NewInfo(Db!IRQ_OTHER, -1, pol, FALSE) EXCEPT
                                 !.class = hint, !.level = Db!map_class_to_level(hint)]
  <2>1. /\ db_pc = "missing" /\ db_todo # <<>> /\ db_todo' = Tail(db_todo)
        /\ UNCHANGED <<db_pc, tmp_irqs>>
    BY <1>9, Zenon DEF Db!add_missing_irq
  <2>2. irq \in Irqs /\ ToSet(db_todo) = ToSet(db_todo') \cup {line}
    BY <1>2, <2>1, IrqListTail
  <2>3. IsLine(line)
    BY <1>1, <2>1, <2>2
  <2>4. ASSUME NEW output \in Outputs PROVE Good(NewLine(Db!get_irq_user_policy(output)))
    <3> DEFINE pol == Db!get_irq_user_policy(output)
               old == Db!NewInfo(Db!IRQ_OTHER, -1, pol, FALSE)
    <3>1. IsPolicy(pol)
      BY PolicyLemma
    <3>2. Good(old)
      <4>1. Db!IRQ_OTHER \in -1..5 /\ -1 \in NodeIds \cup {-1}
        BY DEF Db!IRQ_OTHER
      <4> HIDE DEF pol
      <4> QED BY <3>1, <4>1, GoodEntry
    <3>3. hint \in 0..7 /\ Db!map_class_to_level(hint) \in 0..3
      BY <2>3, LineClass, LevelOfClass
    <3> HIDE DEF hint, pol
    <3>4. /\ NewLine(pol).class = hint /\ NewLine(pol).level = Db!map_class_to_level(hint)
          /\ NewLine(pol).numa_node = old.numa_node
      BY DEF Db!NewInfo
    <3> HIDE DEF old, NewLine
    <3>5. Good(NewLine(pol))
      BY <3>2, <3>3, <3>4 DEF Good
    <3> QED BY <3>5 DEF pol
  <2>5. info' = info \/ \E new : Good(new) /\ Db!add_one_irq_to_db(irq, new)
    BY <1>9, <2>4, Zenon DEF Db!add_missing_irq
  <2> HIDE DEF irq, line, hint, NewLine
  <2>6. \A i \in Irqs : Good(info'[i])
    <3>1. CASE info' = info
      BY <1>1, <3>1
    <3>2. ASSUME NEW new, Good(new), Db!add_one_irq_to_db(irq, new) PROVE \A i \in Irqs : Good(info'[i])
      <4>1. \A i \in Irqs : Good(info[i])'
        BY <1>1, <1>2, <2>2, <3>2, GoodStep
      <4> QED BY <1>3, <4>1 DEF Good
    <3> QED BY <2>5, <3>1, <3>2
  <2> QED BY <1>1, <1>4, <2>1, <2>2, <2>6
<1>10. CASE Db!RebuildDone
  <2>1. db_pc' = "built" /\ UNCHANGED <<info, tmp_irqs>>
    BY <1>10 DEF Db!RebuildDone
  <2> QED BY <1>1, <1>4, <2>1
<1>11. CASE free_object_tree
  <2>1. db_pc' = "idle" /\ tmp_irqs' = <<>> /\ info' = [i \in Irqs |-> Db!Unused]
    BY <1>11 DEF free_object_tree
  <2>2. \A i \in Irqs : Good(info'[i])
    BY <2>1, GoodUnused
  <2>3. ToSet(tmp_irqs') = {}
    BY <2>1, NothingInEmpty
  <2> QED BY <1>4, <2>1, <2>2, <2>3
<1>12. \/ UNCHANGED dbVars \/ free_object_tree
       \/ Db!rebuild_irq_db \/ Db!build_one_dev_entry \/ Db!DevicesDone
       \/ Db!add_missing_irq \/ Db!RebuildDone
  BY DEF ObjNext, KernelStep, ScanStep, DbStep, allVars
<1> QED BY <1>5, <1>6, <1>7, <1>8, <1>9, <1>10, <1>11, <1>12

(* The three invariants together give the balancer what it assumes. *)
LEMMA InputLemma ==
    ASSUME Regular, TreeInv, QuietInv, DbInv, InfoTypes PROVE InputForBalancer
<1>1. TypeOK
  BY TreeInvTypes
<1>2. /\ db_pc \in {"idle", "devices", "missing", "built", "no_bus"}
      /\ interrupts_db \in Seq(Irqs) /\ banned_irqs \in Seq(Irqs)
      /\ DOMAIN info = Irqs /\ Db!OneEntry
  BY DEF DbInv, OnTopOfTree, IrqLists
<1>3. \A i \in Irqs : Good(info[i])
  BY DEF InfoTypes
<1>4. DOMAIN numa_nodes = DOMAIN build_numa_node_list
  BY DEF TreeInv, Tree, Lists
<1>5. Db!TypeOK
  <2>1. DOMAIN build_numa_node_list \subseteq NodeIds \cup {-1}
    BY DEF build_numa_node_list
  <2>2. ASSUME NEW i \in Irqs
        PROVE  /\ info[i].class \in Db!IRQ_OTHER..7
               /\ info[i].level \in Db!BALANCE_NONE..Db!BALANCE_CORE
               /\ info[i].numa_node \in NodeIds \cup {-1}
    BY <1>3, <2>1 DEF Good, Db!IRQ_OTHER, Db!BALANCE_NONE, Db!BALANCE_CORE
  <2> QED BY <1>2, <2>2 DEF Db!TypeOK
<1>6. TreeForBalancer
  BY TreeIsForBalancer
<1>7. ASSUME NEW i \in Db!Db
      PROVE  /\ pc = "built"
             /\ info[i].numa_node \in DOMAIN numa_nodes
             /\ info[i].level \in Db!BALANCE_NONE..Db!BALANCE_CORE
  <2>1. i \in ToSet(interrupts_db)
    BY SameHelpers DEF Db!Db
  <2>2. i \in Irqs
    BY <1>2, <2>1, ElementOfSeq DEF ToSet
  <2>3. interrupts_db # <<>>
    BY <2>1, NothingInEmpty
  <2>4. pc = "built"
    BY <1>2, <2>3 DEF DbInv, OnTopOfTree
  <2>5. info[i].numa_node \in DOMAIN numa_nodes
    BY <1>3, <1>4, <2>2 DEF Good
  <2>6. info[i].level \in Db!BALANCE_NONE..Db!BALANCE_CORE
    BY <1>3, <2>2 DEF Good, Db!BALANCE_NONE, Db!BALANCE_CORE
  <2> QED BY <2>4, <2>5, <2>6
<1> QED BY <1>1, <1>2, <1>5, <1>6, <1>7 DEF InputForBalancer

(* On regular hardware everything that Balancer and the theorems about it  *)
(* assume is established by build_object_tree and kept by every rescan,    *)
(* whatever cpus come and go, whatever /proc/interrupts, the bus and the   *)
(* script say: the objects form a tree, its parent pointers are the one    *)
(* way up after a scan that nothing interferes with, and each irq of the   *)
(* database is there once, with a level and a node of this tree.           *)
THEOREM BalancerInputIsSound ==
    ASSUME Regular PROVE ObjSpec => []InputForBalancer
<1> DEFINE Inv == TreeInv /\ QuietInv /\ DbInv /\ InfoTypes
<1>1. ObjInit => Inv
  BY TreeInvInit, QuietInit, DbInvInit, InfoTypesInit DEF ObjInit
<1>2. Inv /\ [ObjNext]_allVars => Inv'
  BY TreeInvStep, QuietStep, DbInvStep, InfoTypesStep, ObjStepIsScanStep
<1>3. Inv => InputForBalancer
  BY InputLemma
<1> QED BY <1>1, <1>2, <1>3, PTL DEF ObjSpec
=============================================================================
