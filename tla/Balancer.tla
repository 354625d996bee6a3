------------------------------ MODULE Balancer ------------------------------
(***************************************************************************)
(* The balancing core of irqbalance: one cycle of the main loop measures   *)
(* the loads, selects irqs to move (irqlist.c), places them down the       *)
(* object tree (placement.c) and writes their affinity (activate.c).       *)
(*                                                                         *)
(* One action is one callback of for_each_irq or for_each_object.  The     *)
(* loops keep a cursor: todo_objs is what for_each_object has still to     *)
(* visit, todo_irqs what for_each_irq has still to visit of the list of    *)
(* cur.  for_each_irq saves the next link before the callback runs, and no *)
(* callback removes or appends a later element of the list it runs over,   *)
(* so the rest of the list taken at the start is what the loop visits.     *)
(***************************************************************************)
EXTENDS LoadShare

CONSTANTS
    Irqs,            \* irq numbers
    Info,            \* the fields of irq_info the rescan fills in and balancing only reads
    Dbs,             \* the lists interrupts_db may be after a rescan
    power_thresh,    \* -p <n>, or PowersaveOff
    PowersaveOff,    \* ULONG_MAX
    PowersaveCycle,  \* powersave is considered after this many cycles (5 in the code)
    CpuLoads,        \* the loads a cpu may show in one cycle
    Deltas,          \* how often an irq may fire in one cycle
    WordSize         \* 2^64: unsigned arithmetic wraps here

(* BALANCE_NONE .. BALANCE_CORE and the hint policies (irqbalance.h) *)
BALANCE_NONE == 0
BALANCE_CORE == 3
HintPolicies == {"exact", "subset", "ignore"}

ASSUME IrqAssumption ==
    /\ Info \in [Irqs -> [level : BALANCE_NONE..BALANCE_CORE, class : Nat,
                          hint_policy : HintPolicies,
                          affinity_hint : SUBSET CpuIds,
                          numa_node : Range(numa_nodes)]]
    /\ Dbs \subseteq {s \in Seq(Irqs) : IsInjective(s)}
    /\ PowersaveOff \notin Nat
    /\ power_thresh \in Nat \cup {PowersaveOff}
    /\ PowersaveCycle \in Nat
    /\ CpuLoads \subseteq Nat /\ Deltas \subseteq Nat
    /\ WordSize \in Nat \ {0}

(* The list heads: d->interrupts of every object d, and at Null            *)
(* rebalance_irq_list, the irqs that belong to no object.                  *)
Lists == Objs \cup {Null}

VARIABLES
    pc,              \* where in the cycle the daemon is
    lists,           \* lists[d] = d->interrupts, lists[Null] = rebalance_irq_list
    interrupts_db,   \* every irq that is not banned
    assigned_obj,    \* info->assigned_obj
    moved,           \* info->moved
    warned,          \* info->warned
    irqload,         \* info->load
    load,            \* d->load
    powersave_mode,  \* d->powersave_mode
    cycle_count,     \* cycles since the last rescan, saturating past PowersaveCycle
    affinity,        \* the kernel's /proc/irq/<i>/smp_affinity
    phase,           \* which find_overloaded_objs of update_migration_status runs
    lb_info,         \* struct load_balance_info of that call
    cur,             \* the list the irq loop runs over
    todo_objs,       \* objects the current for_each_object has still to visit
    todo_irqs        \* irqs the current for_each_irq has still to visit

irqVars   == <<lists, assigned_obj, moved>>
fixedVars == <<interrupts_db, affinity, warned, cycle_count>>
vars == <<pc, lists, interrupts_db, assigned_obj, moved, warned, irqload, load,
          powersave_mode, cycle_count, affinity, phase, lb_info, cur,
          todo_objs, todo_irqs>>

-----------------------------------------------------------------------------
(* Mutant: the loop runs over the whole db. *)
ForEveryIrq(list) == interrupts_db

(* for_each_irq(list, ...): an empty list is a NULL GList, and NULL means  *)
(* the whole interrupts_db.                                                *)
for_each_irq(list) == IF list = <<>> THEN interrupts_db ELSE list

(* g_list_find_custom and g_list_delete_link: unlink the first link that   *)
(* holds irq i.                                                            *)
Position(s, i) == CHOOSE k \in DOMAIN s : s[k] = i /\ \A j \in 1..(k-1) : s[j] # i

(* Mutant: the link after the one that was found is removed. *)
UnlinkNext(s, k) == [j \in 1..(Len(s) - 1) |-> IF j <= k THEN s[j] ELSE s[j + 1]]

Unlink(s, k)   == [j \in 1..(Len(s) - 1) |-> IF j < k THEN s[j] ELSE s[j + 1]]

(* migrate_irq: an irq that is not on the list stays where it is, and is   *)
(* not marked as moved.                                                    *)
migrate_irq(from, to, i) ==
    IF i \in Range(lists[from])
    THEN /\ lists' = [lists EXCEPT ![from] = Unlink(@, Position(@, i)),
                                   ![to]   = Append(@, i)]
         /\ moved' = [moved EXCEPT ![i] = TRUE]
    ELSE UNCHANGED <<lists, moved>>

(* sort_irqs: class first, then load, both descending; the address of the  *)
(* irq_info breaks ties, so any order of equals is possible.               *)
sort_irqs(a, b) == \/ Info[a].class > Info[b].class
                   \/ Info[a].class = Info[b].class /\ irqload[a] >= irqload[b]

sort_irq_list(l) ==
    {s \in {[k \in DOMAIN l |-> l[p[k]]] : p \in Bijection(DOMAIN l, DOMAIN l)} :
        \A j, k \in DOMAIN s : j < k => sort_irqs(s[j], s[k])}

NoInfo == [avg_load |-> 0, min_load |-> 0, adjustment_load |-> 0, variance |-> 0,
           num_over |-> 0, num_under |-> 0, num_powersave |-> 0, powersave |-> Null]

LbInfos == [avg_load : Nat, min_load : Nat, adjustment_load : Nat, variance : Nat,
            num_over : Nat, num_under : Nat, num_powersave : Nat, powersave : Lists]

-----------------------------------------------------------------------------
(* A freshly built tree and irq db.  main then runs force_rebalance_irq    *)
(* over the db (pc "boot"); an empty db leaves nothing to do.              *)
Init ==
    /\ interrupts_db \in Dbs
    /\ pc = IF interrupts_db = <<>> THEN "measure" ELSE "boot"
    /\ lists = [l \in Lists |-> <<>>]
    /\ assigned_obj = [i \in Irqs |-> Null]
    /\ moved = [i \in Irqs |-> FALSE]
    /\ warned = [i \in Irqs |-> FALSE]
    /\ irqload = [i \in Irqs |-> 0]
    /\ load = [d \in Objs |-> 0]
    /\ powersave_mode = [d \in Objs |-> FALSE]
    /\ cycle_count = 0
    /\ affinity = [i \in Irqs |-> CpuIds]
    /\ phase = 1
    /\ lb_info = NoInfo
    /\ cur = Null
    /\ todo_objs = <<>>
    /\ todo_irqs = interrupts_db

-----------------------------------------------------------------------------
(* One turn of a for_each_irq loop; done is where the code goes after it. *)
LoopStep(loop, done) ==
    /\ todo_irqs' = Tail(todo_irqs)
    /\ pc' = IF Len(todo_irqs) = 1 THEN done ELSE loop
    /\ cur' = IF Len(todo_irqs) = 1 THEN Null ELSE cur

(* Mutant: the cycle begins again after a rescan. *)
MeasureAgain == "measure"

(* The cycle in which the daemon scans again goes on to calculate_placement. *)
AfterRescan == "sort"

(* Every irq that can be balanced is put on rebalance_irq_list.  It is not *)
(* marked as moved; only migrate_irq does that.                            *)
ForceRebalanceIrq ==
    /\ pc \in {"boot", "rescan"}
    /\ LET i == Head(todo_irqs)
       IN  \/ /\ Info[i].level = BALANCE_NONE
              /\ UNCHANGED irqVars
           \/ /\ Info[i].level # BALANCE_NONE
              /\ IF assigned_obj[i] = Null
                 THEN /\ lists' = [lists EXCEPT ![Null] = Append(@, i)]
                      /\ UNCHANGED moved
                 ELSE migrate_irq(assigned_obj[i], Null, i)
              /\ assigned_obj' = [assigned_obj EXCEPT ![i] = Null]
    /\ LoopStep(pc, IF pc = "boot" THEN "measure" ELSE AfterRescan)
    /\ UNCHANGED <<fixedVars, irqload, load, powersave_mode, phase, lb_info, todo_objs>>

-----------------------------------------------------------------------------
(* The irqs clear_work_stats resets.  It guards no list against being      *)
(* empty, so one object without irqs resets the whole db.                  *)
Cleared == UNION {Range(for_each_irq(lists[d])) : d \in Objs}

clear_work_stats == [i \in Irqs |-> IF i \in Cleared THEN 0 ELSE irqload[i]]

AfterMeasure == pc' = IF cycle_count > 0 THEN "find" ELSE "sort"

(* clear_work_stats; parse_proc_interrupts; parse_proc_stat, every cpu     *)
(* found.  Before the first full cycle the cpu loads are left alone: there *)
(* is no earlier sample to subtract.                                       *)
Measure ==
    /\ pc = "measure"
    /\ \E fresh \in [Range(cpus) -> CpuLoads], delta \in [Irqs -> Deltas] :
          LET sampled == [d \in Objs |-> IF d \in Range(cpus) /\ cycle_count > 0
                                         THEN fresh[d] ELSE load[d]]
          IN  /\ load' = set_load(sampled)
              /\ irqload' = compute_irq_branch_load_share(load', lists, delta, clear_work_stats)
    /\ AfterMeasure
    /\ UNCHANGED <<irqVars, fixedVars, powersave_mode, phase, lb_info, cur, todo_objs, todo_irqs>>

(* The same when /proc/stat lists a cpu the tree does not have or cannot   *)
(* be read: only the cpus before that line are sampled, nothing is         *)
(* propagated and the irqs keep the cleared loads.                         *)
MeasureBroken ==
    /\ pc = "measure"
    /\ \E done \in SUBSET Range(cpus) \ {Range(cpus)} : \E fresh \in [done -> CpuLoads] :
          load' = [d \in Objs |-> IF d \in done /\ cycle_count > 0 THEN fresh[d] ELSE load[d]]
    /\ irqload' = clear_work_stats
    /\ AfterMeasure
    /\ UNCHANGED <<irqVars, fixedVars, powersave_mode, phase, lb_info, cur, todo_objs, todo_irqs>>

(* need_rescan: the tree and the irq db are freed and built again and      *)
(* force_rebalance_irq runs over the new db.  cycle_count is 0 again, so   *)
(* the two parses that follow set no cpu load and no irq load, and the     *)
(* cycle goes on with calculate_placement.                                 *)
Rescan ==
    /\ pc = "measure"
    /\ interrupts_db' \in Dbs
    /\ todo_irqs' = interrupts_db'
    /\ pc' = IF interrupts_db' = <<>> THEN AfterRescan ELSE "rescan"
    /\ lists' = [l \in Lists |-> <<>>]
    /\ assigned_obj' = [i \in Irqs |-> Null]
    /\ moved' = [i \in Irqs |-> FALSE]
    /\ warned' = [i \in Irqs |-> FALSE]
    /\ irqload' = [i \in Irqs |-> 0]
    /\ load' = [d \in Objs |-> 0]
    /\ powersave_mode' = [d \in Objs |-> FALSE]
    /\ cycle_count' = 0
    /\ UNCHANGED <<affinity, phase, lb_info, cur, todo_objs>>

-----------------------------------------------------------------------------
(* update_migration_status looks at the four levels bottom up. *)
LevelLists == <<cpus, cache_domains, packages, numa_nodes>>

(* Mutant: the minimum begins with 0. *)
LeastLoad(min_load, objload) == IF objload < min_load THEN objload ELSE min_load

(* 0 stands for "no minimum yet" as well as for an idle object. *)
gather_load_stats(min_load, objload) ==
    IF min_load = 0 \/ objload < min_load THEN objload ELSE min_load

MinLoad(name) == FoldLeft(LAMBDA m, d : gather_load_stats(m, load[d]), 0, name)

compute_deviations(avg, objload) ==
    IF objload > avg THEN (objload - avg) * (objload - avg)
                     ELSE (avg - objload) * (avg - objload)

(* find_overloaded_objs up to the migration loop.  std_deviation is the    *)
(* root of variance; only its square is kept.                              *)
FindOverloadedObjs ==
    /\ pc = "find"
    /\ LET name == LevelLists[phase]
           load_sources == IF Len(name) = 0 THEN 1 ELSE Len(name)
           avg == SumOver(load, name) \div load_sources
           deviations == SumOver([d \in Objs |-> compute_deviations(avg, load[d])], name)
       IN  /\ todo_objs' = name
           /\ lb_info' = [NoInfo EXCEPT
                 !.avg_load = avg,
                 !.min_load = MinLoad(name),
                 !.variance = IF load_sources = 1 THEN 0
                              ELSE deviations \div (load_sources - 1)]
    /\ pc' = "objs"
    /\ UNCHANGED <<irqVars, fixedVars, irqload, load, powersave_mode, phase, cur, todo_irqs>>

(* load + std_deviation <= avg_load and load - std_deviation >= avg_load *)
Under(l, info) == l <= info.avg_load /\ info.variance <= (info.avg_load - l) * (info.avg_load - l)
Over(l, info)  == l >= info.avg_load /\ info.variance <= (l - info.avg_load) * (l - info.avg_load)

(* The bookkeeping half of migrate_overloaded_irqs. *)
CountObj(d, info) ==
    LET under == Under(load[d], info)
        over  == ~under /\ Over(load[d], info)
    IN  [info EXCEPT
           !.num_powersave = IF powersave_mode[d] THEN @ + 1 ELSE @,
           !.num_under     = IF under THEN @ + 1 ELSE @,
           !.num_over      = IF over  THEN @ + 1 ELSE @,
           !.powersave     = IF under /\ power_thresh # PowersaveOff
                                /\ @ = Null /\ ~powersave_mode[d]
                             THEN d ELSE @]

(* An object above the minimum with more than one irq offers its irqs. *)
Donor(d) == load[d] > lb_info.min_load /\ Len(lists[d]) > 1

MigrateOverloadedIrqs ==
    /\ pc = "objs"
    /\ todo_objs # <<>>
    /\ LET d == Head(todo_objs)
       IN  \/ /\ Donor(d)
              /\ \E s \in sort_irq_list(lists[d]) :
                    /\ lists' = [lists EXCEPT ![d] = s]
                    /\ todo_irqs' = for_each_irq(s)
              /\ lb_info' = [CountObj(d, lb_info) EXCEPT !.adjustment_load = load[d]]
              /\ cur' = d
              /\ pc' = "candidates"
           \/ /\ ~Donor(d)
              /\ lb_info' = CountObj(d, lb_info)
              /\ UNCHANGED <<lists, todo_irqs, cur, pc>>
    /\ todo_objs' = Tail(todo_objs)
    /\ UNCHANGED <<assigned_obj, moved, fixedVars, irqload, load, powersave_mode, phase>>

(* An irq with an exact hint stays where it is. *)
Pinned(i) == Info[i].hint_policy = "exact" /\ Info[i].affinity_hint # {}

(* "If we can migrate an irq without swapping the imbalance do it": the    *)
(* left side is an unsigned difference.                                    *)
KeepsImbalance(i) ==
    (lb_info.adjustment_load - irqload[i]) % WordSize > lb_info.min_load + irqload[i]

Candidate(i) ==
    /\ ~Pinned(i)
    /\ Info[i].level # BALANCE_NONE
    /\ Len(lists[assigned_obj[i]]) > 1
    /\ irqload[i] > 1
    /\ KeepsImbalance(i)

MoveCandidateIrqs ==
    /\ pc = "candidates"
    /\ LET i == Head(todo_irqs)
       IN  \/ /\ Candidate(i)
              /\ lb_info' = [lb_info EXCEPT
                    !.adjustment_load = (@ - irqload[i]) % WordSize,
                    !.min_load = @ + irqload[i]]
              /\ migrate_irq(assigned_obj[i], Null, i)
              /\ assigned_obj' = [assigned_obj EXCEPT ![i] = Null]
           \/ /\ ~Candidate(i)
              /\ UNCHANGED <<lb_info, irqVars>>
    /\ LoopStep("candidates", "objs")
    /\ UNCHANGED <<fixedVars, irqload, load, powersave_mode, phase, todo_objs>>

(* Mutant: the next cycle goes on counting levels. *)
NextLevelWithoutReset ==
    /\ lb_info' = NoInfo
    /\ phase' = phase + 1
    /\ pc' = IF phase = 4 THEN "sort" ELSE "find"

(* A level is done: the cpus are followed by the powersave decision, the   *)
(* numa nodes by calculate_placement.                                      *)
NextLevel ==
    /\ lb_info' = NoInfo
    /\ phase' = IF phase = 4 THEN 1 ELSE phase + 1
    /\ pc' = IF phase = 4 THEN "sort" ELSE "find"

EndLevel ==
    /\ pc = "objs"
    /\ todo_objs = <<>>
    /\ phase # 1
    /\ NextLevel
    /\ UNCHANGED <<irqVars, fixedVars, irqload, load, powersave_mode, cur, todo_objs, todo_irqs>>

-----------------------------------------------------------------------------
PowersavePossible == power_thresh # PowersaveOff /\ cycle_count > PowersaveCycle

EnterCondition ==
    /\ PowersavePossible
    /\ lb_info.num_over = 0
    /\ lb_info.num_under >= power_thresh
    /\ lb_info.powersave # Null

LeaveCondition ==
    /\ PowersavePossible
    /\ ~EnterCondition
    /\ lb_info.num_over > 0
    /\ lb_info.num_powersave > 0

AtPowersaveDecision == pc = "objs" /\ todo_objs = <<>> /\ phase = 1

(* The quietest moment: one more cpu is set aside and its irqs taken off. *)
EnterPowersave ==
    /\ AtPowersaveDecision
    /\ EnterCondition
    /\ LET p == lb_info.powersave
       IN  /\ powersave_mode' = [powersave_mode EXCEPT ![p] = TRUE]
           /\ \/ /\ Len(lists[p]) > 0
                 /\ todo_irqs' = for_each_irq(lists[p])
                 /\ cur' = p
                 /\ pc' = "force"
                 /\ UNCHANGED <<lb_info, phase>>
              \/ /\ Len(lists[p]) = 0
                 /\ NextLevel
                 /\ UNCHANGED <<todo_irqs, cur>>
    /\ UNCHANGED <<irqVars, fixedVars, irqload, load, todo_objs>>

ForceIrqMigration ==
    /\ pc = "force"
    /\ LET i == Head(todo_irqs)
       IN  /\ migrate_irq(assigned_obj[i], Null, i)
           /\ assigned_obj' = [assigned_obj EXCEPT ![i] = Null]
    /\ todo_irqs' = Tail(todo_irqs)
    /\ \/ /\ Len(todo_irqs) = 1
          /\ NextLevel
          /\ cur' = Null
       \/ /\ Len(todo_irqs) # 1
          /\ UNCHANGED <<pc, lb_info, phase, cur>>
    /\ UNCHANGED <<fixedVars, irqload, load, powersave_mode, todo_objs>>

(* Load is rising again, or there is nothing to decide. *)
LeavePowersave ==
    /\ AtPowersaveDecision
    /\ ~EnterCondition
    /\ powersave_mode' = [d \in Objs |-> IF LeaveCondition /\ d \in Range(cpus)
                                         THEN FALSE ELSE powersave_mode[d]]
    /\ NextLevel
    /\ UNCHANGED <<irqVars, fixedVars, irqload, load, cur, todo_objs, todo_irqs>>

-----------------------------------------------------------------------------
(* find_best_object's early returns. *)
HintAllows(i, d) == \/ Info[i].hint_policy # "subset"
                    \/ Info[i].affinity_hint = {}
                    \/ Info[i].affinity_hint \cap Mask[d] # {}

(* Mutant: powersave mode is not looked at. *)
EligibleInPowersave(i, d) ==
    /\ ~(numa_avail /\ d = Unspecified)
    /\ ~(Depth(d) = 0 /\ Mask[d] \cap unbanned_cpus = {})
    /\ HintAllows(i, d)

Eligible(i, d) ==
    /\ ~(numa_avail /\ d = Unspecified)
    /\ ~(Depth(d) = 0 /\ Mask[d] \cap unbanned_cpus = {})
    /\ HintAllows(i, d)
    /\ ~powersave_mode[d]

(* The loop keeps the first object of least load, and among equal loads    *)
(* the one with the shorter list.                                          *)
Cheaper(d, e) == \/ load[d] < load[e]
                 \/ load[d] = load[e] /\ Len(lists[d]) < Len(lists[e])

(* for_each_object(objs, find_best_object, &place): the positions of the   *)
(* object it ends with, none if no object is eligible.                     *)
find_best_object(i, objs) ==
    {k \in DOMAIN objs :
        /\ Eligible(i, objs[k])
        /\ \A j \in DOMAIN objs : Eligible(i, objs[j]) =>
              /\ ~Cheaper(objs[j], objs[k])
              /\ j < k => Cheaper(objs[k], objs[j])}

(* migrate_irq, assigned_obj and the load of the object it lands on. *)
Assign(from, d, i, extra) ==
    /\ migrate_irq(from, d, i)
    /\ assigned_obj' = [assigned_obj EXCEPT ![i] = d]
    /\ load' = [load EXCEPT ![d] = @ + irqload[i] + extra]

PlaceInBest(from, i, objs) ==
    \/ \E k \in find_best_object(i, objs) : Assign(from, objs[k], i, 0)
    \/ /\ find_best_object(i, objs) = {}
       /\ UNCHANGED <<irqVars, load>>

(* Mutant: the packages are visited before the nodes. *)
PackagesFirst == packages \o numa_nodes \o cache_domains

(* The objects calculate_placement hands irqs down from, top down. *)
PlacementOrder == numa_nodes \o packages \o cache_domains

(* calculate_placement up to its first loop. *)
CalculatePlacement ==
    /\ pc = "sort"
    /\ \E s \in sort_irq_list(lists[Null]) :
          /\ lists' = [lists EXCEPT ![Null] = s]
          /\ \/ /\ Len(s) > 0
                /\ todo_irqs' = for_each_irq(s)
                /\ todo_objs' = PlacementOrder
                /\ pc' = "nodes"
             \/ /\ Len(s) = 0
                /\ todo_irqs' = interrupts_db
                /\ pc' = "activate"
                /\ UNCHANGED todo_objs
    /\ UNCHANGED <<assigned_obj, moved, fixedVars, irqload, load, powersave_mode,
                   phase, lb_info, cur>>

(* Mutant: the test for banned cpus is inverted. *)
PreferredIfBanned(i) == /\ Info[i].numa_node # Unspecified
                        /\ Mask[Info[i].numa_node] \cap unbanned_cpus = {}

(* A device on a known node keeps its irqs there, unless every cpu of the  *)
(* node is banned.                                                         *)
PreferredNode(i) == /\ Info[i].numa_node # Unspecified
                    /\ Mask[Info[i].numa_node] \cap unbanned_cpus # {}

(* An irq that is not balanced needs a node only to keep off banned cpus. *)
NotPlaced(i) == Info[i].level = BALANCE_NONE /\ banned_cpus = {}

PlaceIrqInNode ==
    /\ pc = "nodes"
    /\ LET i == Head(todo_irqs)
       IN  IF NotPlaced(i)
           THEN UNCHANGED <<irqVars, load>>
           ELSE \/ PreferredNode(i)  /\ Assign(Null, Info[i].numa_node, i, 1)
                \/ ~PreferredNode(i) /\ PlaceInBest(Null, i, numa_nodes)
    /\ LoopStep("nodes", "objects")
    /\ UNCHANGED <<fixedVars, irqload, powersave_mode, phase, lb_info, todo_objs>>

PlaceIrqInObject ==
    /\ pc = "objects"
    /\ todo_objs # <<>>
    /\ LET d == Head(todo_objs)
       IN  \/ /\ Len(lists[d]) > 0
              /\ todo_irqs' = for_each_irq(lists[d])
              /\ cur' = d
              /\ pc' = "best"
           \/ /\ Len(lists[d]) = 0
              /\ UNCHANGED <<todo_irqs, cur, pc>>
    /\ todo_objs' = Tail(todo_objs)
    /\ UNCHANGED <<irqVars, fixedVars, irqload, load, powersave_mode, phase, lb_info>>

(* Mutant: the level is not looked at. *)
StaysIfUnmoved(i) == ~moved[i]

(* An irq goes no further if it has not moved or is at its level. *)
Stays(i) == ~moved[i] \/ Info[i].level = Depth(cur)

(* One level down. *)
FindBestObjectForIrq ==
    /\ pc = "best"
    /\ LET i == Head(todo_irqs)
       IN  \/ /\ Stays(i)
              /\ UNCHANGED <<irqVars, load>>
           \/ /\ ~Stays(i)
              /\ PlaceInBest(cur, i, Children[cur])
    /\ LoopStep("best", "objects")
    /\ UNCHANGED <<fixedVars, irqload, powersave_mode, phase, lb_info, todo_objs>>

PlacementDone ==
    /\ pc = "objects"
    /\ todo_objs = <<>>
    /\ pc' = "activate"
    /\ todo_irqs' = interrupts_db
    /\ UNCHANGED <<irqVars, fixedVars, irqload, load, powersave_mode, phase, lb_info, cur, todo_objs>>

-----------------------------------------------------------------------------
Exact(i)  == Info[i].hint_policy = "exact"  /\ Info[i].affinity_hint # {}
Subset(i) == Info[i].hint_policy = "subset" /\ Info[i].affinity_hint # {}

(* Mutants: the whole hint, or the whole object. *)
WholeHint(i)   == Info[i].affinity_hint
WholeObject(i) == Mask[assigned_obj[i]]

(* cpus_and(applied_mask, irq affinity_hint) *)
SubsetMask(i) == Mask[assigned_obj[i]] \cap Info[i].affinity_hint

(* The mask activate_mapping would write, or no mask at all. *)
AppliedMasks(i) ==
    IF Exact(i)
    THEN {m \in {Info[i].affinity_hint} : m \cap banned_cpus = {}}
    ELSE IF assigned_obj[i] = Null THEN {}
    ELSE IF Subset(i)
    THEN {m \in {SubsetMask(i)} : m \cap unbanned_cpus # {}}
    ELSE {Mask[assigned_obj[i]]}

(* A subset hint that leaves no usable cpu is reported once. *)
Warns(i) == moved[i] /\ Subset(i) /\ assigned_obj[i] # Null /\ AppliedMasks(i) = {}

(* The smp_affinity file is written when check_affinity reads a different  *)
(* mask.  The kernel may refuse the mask; the result of the write is not   *)
(* looked at.                                                              *)
ActivateMapping ==
    /\ pc = "activate"
    /\ todo_irqs # <<>>
    /\ LET i == Head(todo_irqs)
       IN  /\ warned' = [warned EXCEPT ![i] = @ \/ Warns(i)]
           /\ \/ UNCHANGED <<moved, affinity>>  \* nothing to write, or a file does not open
              \/ /\ moved[i]
                 /\ assigned_obj[i] # Null
                 /\ \E m \in AppliedMasks(i) :
                       /\ m # affinity[i]
                       /\ affinity' \in {affinity, [affinity EXCEPT ![i] = m]}
                 /\ moved' = [moved EXCEPT ![i] = FALSE]
    /\ todo_irqs' = Tail(todo_irqs)
    /\ UNCHANGED <<lists, assigned_obj, interrupts_db, cycle_count, irqload, load,
                   powersave_mode, pc, phase, lb_info, cur, todo_objs>>

EndCycle ==
    /\ pc = "activate"
    /\ todo_irqs = <<>>
    /\ cycle_count' = IF cycle_count > PowersaveCycle THEN cycle_count ELSE cycle_count + 1
    /\ pc' = "measure"
    /\ UNCHANGED <<irqVars, interrupts_db, affinity, warned, irqload, load,
                   powersave_mode, phase, lb_info, cur, todo_objs, todo_irqs>>

Next ==
    \/ ForceRebalanceIrq \/ Measure \/ MeasureBroken \/ Rescan
    \/ FindOverloadedObjs \/ MigrateOverloadedIrqs \/ MoveCandidateIrqs \/ EndLevel
    \/ EnterPowersave \/ ForceIrqMigration \/ LeavePowersave
    \/ CalculatePlacement \/ PlaceIrqInNode \/ PlaceIrqInObject
    \/ FindBestObjectForIrq \/ PlacementDone
    \/ ActivateMapping \/ EndCycle

Spec == Init /\ [][Next]_vars

(* The daemon is one thread that the kernel keeps scheduling: as long as a *)
(* step is possible it takes one.                                          *)
FairSpec == Spec /\ WF_vars(Next)
-----------------------------------------------------------------------------
(* Types: every list is a list of irqs, every pointer points to an object  *)
(* or is NULL, every counter is a natural number.                          *)
PCs == {"boot", "rescan", "measure", "find", "objs", "candidates", "force", "sort", "nodes",
        "objects", "best", "activate"}

TypeOK ==
    /\ pc \in PCs
    /\ lists \in [Lists -> Seq(Irqs)]
    /\ interrupts_db \in Seq(Irqs)
    /\ assigned_obj \in [Irqs -> Lists]
    /\ moved \in [Irqs -> BOOLEAN]
    /\ warned \in [Irqs -> BOOLEAN]
    /\ irqload \in [Irqs -> Nat]
    /\ load \in [Objs -> Nat]
    /\ powersave_mode \in [Objs -> BOOLEAN]
    /\ cycle_count \in 0..(PowersaveCycle + 1)
    /\ affinity \in [Irqs -> SUBSET CpuIds]
    /\ phase \in 1..4
    /\ lb_info \in LbInfos
    /\ cur \in Lists
    /\ todo_objs \in Seq(Objs)
    /\ todo_irqs \in Seq(Irqs)

(* What validate_object_tree_placement prints an error about, and more: an *)
(* irq on a list points back to the owner of the list, it is on the list   *)
(* once, and every irq of the db that can be balanced is on some list (as  *)
(* soon as force_rebalance_irq has come by).  A callback that ran over the *)
(* wrong list, or a migrate_irq that did not find its irq, would break it. *)
PointsBack   == \A l \in Lists : \A i \in Range(lists[l]) : assigned_obj[i] = l
NoDuplicates == \A l \in Lists : IsInjective(lists[l])
OnSomeList(i) == \E l \in Lists : i \in Range(lists[l])
Pending(i)    == pc \in {"boot", "rescan"} /\ i \in Range(todo_irqs)
AllOnLists   == \A i \in Irqs :
    OnSomeList(i) <=> /\ i \in Range(interrupts_db)
                      /\ Info[i].level # BALANCE_NONE
                      /\ ~Pending(i)

ListsConsistent == PointsBack /\ NoDuplicates /\ AllOnLists

(* The loops of move_candidate_irqs, force_irq_migration, place_irq_in_node *)
(* and find_best_object_for_irq visit only irqs that are still on the list  *)
(* they run over, and each of them once: the callbacks follow assigned_obj  *)
(* without a NULL check.                                                    *)
LoopPCs == {"candidates", "force", "nodes", "best"}

LoopOnList ==
    /\ cur = Null <=> pc \notin LoopPCs \ {"nodes"}
    /\ pc \in LoopPCs => /\ todo_irqs # <<>>
                         /\ IsInjective(todo_irqs)
                         /\ Range(todo_irqs) \subseteq Range(lists[cur])

(* A cpu in powersave mode holds no irq once its irqs are forced away, and  *)
(* no placement puts one there until powersave is left.                     *)
PowersaveIdle ==
    \A d \in Objs : powersave_mode[d] /\ ~(pc = "force" /\ cur = d) => lists[d] = <<>>

(* No irq is placed below the level its class or policy asks for.          *)
LevelRespected ==
    \A i \in Irqs : assigned_obj[i] # Null => Depth(assigned_obj[i]) <= Info[i].level

(* move_candidate_irqs subtracts the load of an irq from what is left of    *)
(* the load of its object: the unsigned difference never wraps.             *)
NoUnderflow ==
    (pc = "candidates" /\ irqload[Head(todo_irqs)] > 1)
        => irqload[Head(todo_irqs)] <= lb_info.adjustment_load

(* The minimum gather_load_stats finds may be too high, because it takes an *)
(* idle object for "no minimum yet", but never too low: an object that      *)
(* offers its irqs has more load than another one of its level.             *)
LeastKeeps ==
    pc = "candidates" => \E d \in Range(LevelLists[phase]) : load[d] < load[cur]

(* Only an object above the least of its level gives irqs away, and never   *)
(* more load than it has.                                                   *)
DonorsSound == NoUnderflow /\ LeastKeeps

(* The load of an object is shared out to its irqs, never more than there   *)
(* is: slices are rounded down and count the interrupts of irqs that sit    *)
(* above and below.  (A load of 1 only says that the irq is there.)         *)
Heavy == [i \in Irqs |-> IF irqload[i] > 1 THEN irqload[i] ELSE 0]

SharesFit ==
    pc = "find" /\ phase = 1 => \A d \in Objs : SumOver(Heavy, lists[d]) <= load[d]

(* A load is an unsigned 64-bit number in the code and any number here;     *)
(* this says that none has wrapped yet.                                     *)
LoadsFit == \A d \in Objs : load[d] < WordSize

(* When the placement loops are done, an irq that was moved sits at its     *)
(* level or has nowhere below to go.                                        *)
PlacedDeep ==
    pc = "activate" =>
        \A i \in Irqs : (assigned_obj[i] # Null /\ moved[i]
                            /\ Depth(assigned_obj[i]) < Info[i].level)
            => \A k \in DOMAIN Children[assigned_obj[i]] :
                  ~Eligible(i, Children[assigned_obj[i]][k])

(* The irqs of a device on a numa node with a usable cpu stay in that node, *)
(* through every migration and every level of the placement.                *)
NodeHonoured ==
    \A i \in Irqs :
        (/\ assigned_obj[i] # Null
         /\ Info[i].numa_node # Unspecified
         /\ Mask[Info[i].numa_node] \cap unbanned_cpus # {})
            => Mask[assigned_obj[i]] \subseteq Mask[Info[i].numa_node]

(* The mask of a child lies within the mask of its parent: the cpus of a    *)
(* package share its node, those of a cache domain its package.             *)
Nested == \A d \in Objs : \A k \in DOMAIN Children[d] : Mask[Children[d][k]] \subseteq Mask[d]

(* What activate_mapping tells the kernel names no banned cpu. *)
NeverToBanned ==
    [][\A i \in Irqs : affinity'[i] # affinity[i] => affinity'[i] \cap banned_cpus = {}]_vars

(* A node place_irq_in_node may choose. *)
Usable(n) == Mask[n] \cap unbanned_cpus # {} /\ ~(numa_avail /\ n = Unspecified)

(* What parse_cpu_tree makes of the masks below the nodes. *)
BlankedOut == \A d \in Objs : Depth(d) # 0 => Mask[d] \cap banned_cpus = {}

(* A node that still names a banned cpu has a package for every irq that    *)
(* may get there: one that meets the hint, if there is a hint and it names  *)
(* a cpu of the node that is not banned.                                    *)
PackageForAll == \A n \in Range(numa_nodes), i \in Irqs :
    (/\ Usable(n) /\ Mask[n] \cap banned_cpus # {}
     /\ Subset(i) => Info[i].affinity_hint \cap Mask[n] \cap unbanned_cpus # {})
        => \E k \in DOMAIN Children[n] : HintAllows(i, Children[n][k])

(* A published hint is honoured by every affinity that is written: exactly, *)
(* or as a superset of what is written.                                     *)
HintHonoured ==
    [][\A i \in Irqs : affinity'[i] # affinity[i] =>
          /\ Exact(i)  => affinity'[i] = Info[i].affinity_hint
          /\ Subset(i) => affinity'[i] \subseteq Info[i].affinity_hint
                            /\ affinity'[i] # {}]_vars

(* An irq waiting on rebalance_irq_list gets to an object in the end, unless *)
(* a rescan finds it gone: as long as some numa node may hold it, no         *)
(* sequence of load changes, powersave decisions and rescans, each of which  *)
(* puts every irq back on the list, keeps it from being placed for ever.     *)
Placeable(i) == \E k \in DOMAIN numa_nodes :
    /\ Mask[numa_nodes[k]] \cap unbanned_cpus # {}
    /\ ~(numa_avail /\ numa_nodes[k] = Unspecified)
    /\ HintAllows(i, numa_nodes[k])

WaitingIrqsPlaced ==
    \A i \in Irqs : Placeable(i) =>
        (i \in Range(lists[Null]) ~> \/ \E d \in Objs : i \in Range(lists[d])
                                     \/ i \notin Range(interrupts_db))

-----------------------------------------------------------------------------
(* The place of an irq, read off the lists and not off assigned_obj. *)
PlaceOf(i) == IF \E d \in Objs : i \in Range(lists[d])
              THEN CHOOSE d \in Objs : i \in Range(lists[d])
              ELSE Null

Live  == UNION {Range(lists[l]) : l \in Lists}
Where == [i \in Irqs |-> PlaceOf(i)]

Promise == INSTANCE Placement WITH live <- Live, where <- Where, told <- affinity

(* The lists, loops and cursors of the balancer implement the promise of   *)
(* Placement: no step loses or duplicates an irq, skips a level, goes past *)
(* a level or tells the kernel about a place the irq is not in.            *)
ImplementsPlacement == Promise!AbsSpec
=============================================================================
