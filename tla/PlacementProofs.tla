-------------------------- MODULE PlacementProofs --------------------------
(***************************************************************************)
(* Balancer implements Placement: its initial states map to initial states *)
(* and each of its steps to a step or a stutter of the promise.  And where *)
(* calculate_placement leaves the irqs: as deep as their level and the     *)
(* tree allow, within the node of their device, and off the banned cpus.   *)
(* All this for every tree, irq db and load.                               *)
(***************************************************************************)
EXTENDS BalancerProofs

-----------------------------------------------------------------------------
(* The refinement. *)

(* assigned_obj names the place of every irq, also the other way round than *)
(* PointsBack: an irq that points to an object is on its list.              *)
Agree == Where = assigned_obj

(* Placement brings its own copies of the operators of the tree: they are   *)
(* the same.                                                                *)
LEMMA SameTree ==
    /\ \A f : Promise!Range(f) = Range(f)
    /\ \A d : Promise!Depth(d) = Depth(d)
<1>1. \A f : Promise!Range(f) = Range(f)
  BY DEF Range, Promise!Range
<1>2. \A d : Promise!Depth(d) = Depth(d)
  BY <1>1 DEF Depth, Promise!Depth
<1> QED BY <1>1, <1>2

(* An irq is in the place whose list it is on. *)
LEMMA PlaceLemma ==
    ASSUME IInv, NEW i \in Irqs
    PROVE  /\ \A l \in Lists : i \in Range(lists[l]) => PlaceOf(i) = l
           /\ (\A d \in Objs : i \notin Range(lists[d])) => PlaceOf(i) = Null
           /\ PlaceOf(i) # Null => i \in Range(lists[PlaceOf(i)]) /\ PlaceOf(i) \in Objs
<1>1. \A l, m \in Lists : i \in Range(lists[l]) /\ i \in Range(lists[m]) => l = m
  BY DEF IInv, ListsConsistent, PointsBack
<1>2. Objs \subseteq Lists /\ Null \notin Objs /\ Lists = Objs \cup {Null}
  BY ConstantsLemma DEF Lists
<1>3. ASSUME NEW d \in Objs, i \in Range(lists[d]) PROVE PlaceOf(i) = d
  BY <1>1, <1>2, <1>3 DEF PlaceOf
<1>4. (\A d \in Objs : i \notin Range(lists[d])) => PlaceOf(i) = Null
  BY DEF PlaceOf
<1>5. i \in Range(lists[Null]) => PlaceOf(i) = Null
  BY <1>1, <1>2, <1>4
<1> QED BY <1>2, <1>3, <1>4, <1>5

(* Steps that only reorder lists, or leave them alone, are stutters. *)
LEMMA SamePlaces ==
    ASSUME \A l \in Lists : Range(lists'[l]) = Range(lists[l])
    PROVE  Live' = Live /\ Where' = Where
<1>1. \A d \in Objs : Range(lists'[d]) = Range(lists[d])
  BY ConstantsLemma
<1>2. \A i \in Irqs : PlaceOf(i)' = PlaceOf(i)
  BY <1>1 DEF PlaceOf
<1> QED BY <1>2 DEF Live, Where

(* migrate_irq moves one irq from its place to another. *)
LEMMA MovedPlace ==
    ASSUME IInv, IInv',
           NEW from \in Lists, NEW to \in Lists, from # to,
           NEW i \in Irqs, i \in Range(lists[from]),
           migrate_irq(from, to, i)
    PROVE  /\ Live' = Live /\ i \in Live
           /\ Where[i] = from
           /\ Where' = [Where EXCEPT ![i] = to]
<1>1. /\ Range(lists'[from]) = Range(lists[from]) \ {i}
      /\ Range(lists'[to]) = Range(lists[to]) \cup {i}
      /\ \A l \in Lists : l # from /\ l # to => lists'[l] = lists[l]
  BY MigrateLemma DEF IInv, ListsConsistent
<1>2. Live' = Live /\ i \in Live
  BY <1>1 DEF Live
<1>3. PlaceOf(i) = from
  BY PlaceLemma
<1>4. PlaceOf(i)' = to
  <2>1. i \in Range(lists'[to]) /\ \A l \in Lists : l # to => i \notin Range(lists'[l])
    BY <1>1 DEF IInv, ListsConsistent, PointsBack
  <2>2. Objs \subseteq Lists /\ Lists = Objs \cup {Null}
    BY ConstantsLemma DEF Lists
  <2>3. CASE to \in Objs
    <3>1. \A d \in Objs : i \in Range(lists'[d]) <=> d = to
      BY <2>1, <2>2, <2>3
    <3> QED BY <3>1, <2>3 DEF PlaceOf
  <2>4. CASE to \notin Objs
    <3>1. to = Null /\ \A d \in Objs : i \notin Range(lists'[d])
      BY <2>1, <2>2, <2>4
    <3> QED BY <3>1 DEF PlaceOf
  <2> QED BY <2>3, <2>4
<1>5. ASSUME NEW j \in Irqs, j # i PROVE PlaceOf(j)' = PlaceOf(j)
  <2>1. \A l \in Lists : j \in Range(lists'[l]) <=> j \in Range(lists[l])
    BY <1>1, <1>5
  <2>2. \A d \in Objs : j \in Range(lists'[d]) <=> j \in Range(lists[d])
    BY <2>1, ConstantsLemma
  <2> QED BY <2>2 DEF PlaceOf
<1> QED BY <1>2, <1>3, <1>4, <1>5 DEF Where
-----------------------------------------------------------------------------
(* Without an object no irq has a place. *)
LEMMA NoPlaces ==
    ASSUME \A d \in Objs : lists[d] = <<>>
    PROVE  Where = [i \in Irqs |-> Null]
BY DEF Where, PlaceOf, Range

(* The initial states map to initial states. *)
LEMMA RefInit == Init => Promise!Start /\ Agree
<1> SUFFICES ASSUME Init PROVE Promise!Start /\ Agree
  OBVIOUS
<1>1. \A l \in Lists : lists[l] = <<>>
  BY DEF Init
<1>2. Where = [i \in Irqs |-> Null]
  BY <1>1, NoPlaces, ConstantsLemma
<1>3. Live \in SUBSET Irqs
  BY <1>1 DEF Live, Range
<1> QED BY <1>2, <1>3 DEF Promise!Start, Init, Agree

(* The lists are filled after a rescan while nothing is placed yet. *)
LEMMA RefRestart ==
    ASSUME IInv, IInv', ForceRebalanceIrq \/ Rescan
    PROVE  Promise!AbsNext /\ Agree'
<1>1. affinity' = affinity
  BY DEF ForceRebalanceIrq, Rescan, fixedVars
<1>2. Live' \in SUBSET Irqs
  BY DEF IInv, TypeOK, Live, Range
<1>3. \A i \in Irqs : assigned_obj'[i] = Null
  <2>1. CASE ForceRebalanceIrq
    BY <2>1 DEF ForceRebalanceIrq, IInv, BootLoop, TypeOK, irqVars
  <2>2. CASE Rescan
    BY <2>2 DEF Rescan
  <2> QED BY <2>1, <2>2
<1>4. \A d \in Objs, i \in Irqs : i \notin Range(lists'[d])
  BY <1>3, ConstantsLemma DEF IInv, ListsConsistent, PointsBack
<1>5. Where' = [i \in Irqs |-> Null]
  BY <1>4 DEF Where, PlaceOf
<1>6. Agree'
  BY <1>3, <1>5 DEF Agree, IInv, TypeOK
<1> QED BY <1>1, <1>2, <1>5, <1>6 DEF Promise!Restart, Promise!AbsNext

(* Taking an irq off its object: load migration and powersave. *)
LEMMA RefTakeBack ==
    ASSUME IInv, IInv', Agree, MoveCandidateIrqs \/ ForceIrqMigration
    PROVE  (Promise!AbsNext \/ UNCHANGED Promise!absVars) /\ Agree'
<1> DEFINE i == Head(todo_irqs)
<1>1. affinity' = affinity
  BY DEF MoveCandidateIrqs, ForceIrqMigration, fixedVars
<1>2. /\ i \in Irqs /\ i \in Range(lists[cur]) /\ assigned_obj[i] = cur
      /\ cur \in Lists /\ cur # Null
  BY VisitLemma DEF LoopPCs, MoveCandidateIrqs, ForceIrqMigration
<1>3. CASE migrate_irq(cur, Null, i) /\ assigned_obj' = [assigned_obj EXCEPT ![i] = Null]
  <2>1. /\ Live' = Live /\ i \in Live
        /\ Where[i] = cur
        /\ Where' = [Where EXCEPT ![i] = Null]
    BY <1>2, <1>3, MovedPlace, ConstantsLemma
  <2>2. Promise!TakeBack(i)
    BY <1>1, <1>2, <2>1 DEF Promise!TakeBack
  <2> QED BY <1>2, <1>3, <2>1, <2>2 DEF Promise!AbsNext, Agree
<1>4. CASE lists' = lists /\ assigned_obj' = assigned_obj
  BY <1>1, <1>4, SamePlaces DEF Promise!absVars, Agree
<1> QED BY <1>2, <1>3, <1>4 DEF MoveCandidateIrqs, ForceIrqMigration, irqVars

(* Entering the tree at a node. *)
LEMMA RefEnter ==
    ASSUME IInv, IInv', Agree, PlaceIrqInNode
    PROVE  (Promise!AbsNext \/ UNCHANGED Promise!absVars) /\ Agree'
<1> DEFINE i == Head(todo_irqs)
<1>1. affinity' = affinity
  BY DEF PlaceIrqInNode, fixedVars
<1>2. i \in Irqs /\ i \in Range(lists[Null])
  BY VisitLemma DEF LoopPCs, PlaceIrqInNode
<1>3. CASE \E n \in Range(numa_nodes) :
              migrate_irq(Null, n, i) /\ assigned_obj' = [assigned_obj EXCEPT ![i] = n]
  <2>1. PICK n \in Range(numa_nodes) :
              migrate_irq(Null, n, i) /\ assigned_obj' = [assigned_obj EXCEPT ![i] = n]
    BY <1>3
  <2>2. n \in Lists /\ n # Null /\ Null \in Lists
    BY ConstantsLemma
  <2>3. /\ Live' = Live /\ i \in Live
        /\ Where[i] = Null
        /\ Where' = [Where EXCEPT ![i] = n]
    BY <1>2, <2>1, <2>2, MovedPlace
  <2>4. Promise!Enter(i)
    BY <1>1, <2>3, SameTree DEF Promise!Enter
  <2> QED BY <1>2, <2>1, <2>3, <2>4 DEF Promise!AbsNext, Agree
<1>4. CASE lists' = lists /\ assigned_obj' = assigned_obj
  BY <1>1, <1>4, SamePlaces DEF Promise!absVars, Agree
<1>5. \A k \in find_best_object(i, numa_nodes) : numa_nodes[k] \in Range(numa_nodes)
  BY BestLemma, ConstantsLemma
<1>6. Info[i].numa_node \in Range(numa_nodes)
  BY <1>2, ConstantsLemma
<1> QED BY <1>3, <1>4, <1>5, <1>6 DEF PlaceIrqInNode, PlaceInBest, Assign, irqVars

(* One level down. *)
LEMMA RefDescend ==
    ASSUME IInv, IInv', Agree, FindBestObjectForIrq
    PROVE  (Promise!AbsNext \/ UNCHANGED Promise!absVars) /\ Agree'
<1> DEFINE i == Head(todo_irqs)
<1>1. affinity' = affinity
  BY DEF FindBestObjectForIrq, fixedVars
<1>2. i \in Irqs /\ i \in Range(lists[cur]) /\ assigned_obj[i] = cur /\ cur \in Objs
  BY VisitLemma DEF LoopPCs, FindBestObjectForIrq, Lists
<1>3. CASE /\ Info[i].level # Depth(cur)
           /\ \E k \in find_best_object(i, Children[cur]) :
                 /\ migrate_irq(cur, Children[cur][k], i)
                 /\ assigned_obj' = [assigned_obj EXCEPT ![i] = Children[cur][k]]
  <2>1. PICK k \in find_best_object(i, Children[cur]) :
                 /\ migrate_irq(cur, Children[cur][k], i)
                 /\ assigned_obj' = [assigned_obj EXCEPT ![i] = Children[cur][k]]
    BY <1>3
  <2> DEFINE c == Children[cur][k]
  <2>2. c \in Objs /\ c # cur /\ c \in Range(Children[cur])
    BY <1>2, BestLemma, ConstantsLemma DEF Range
  <2>3. cur \in Lists /\ c \in Lists /\ cur # Null
    BY <1>2, <2>2, ConstantsLemma
  <2>4. Depth(cur) < Info[i].level
    <3>1. Depth(cur) \in 0..3 /\ Info[i].level \in 0..3
      BY <1>2, ConstantsLemma
    <3>2. Depth(cur) <= Info[i].level
      BY <1>2, ConstantsLemma DEF IInv, LevelRespected
    <3> QED BY <1>3, <3>1, <3>2
  <2>5. migrate_irq(cur, c, i) /\ assigned_obj' = [assigned_obj EXCEPT ![i] = c]
    BY <2>1
  <2> HIDE DEF c
  <2>6. /\ Live' = Live /\ i \in Live
        /\ Where[i] = cur
        /\ Where' = [Where EXCEPT ![i] = c]
    BY <1>2, <2>2, <2>3, <2>5, MovedPlace
  <2>7. Promise!Descend(i)
    BY <1>1, <2>2, <2>3, <2>4, <2>6, SameTree DEF Promise!Descend
  <2> QED BY <1>2, <2>5, <2>6, <2>7 DEF Promise!AbsNext, Agree
<1>4. CASE lists' = lists /\ assigned_obj' = assigned_obj
  BY <1>1, <1>4, SamePlaces DEF Promise!absVars, Agree
<1> QED BY <1>3, <1>4 DEF FindBestObjectForIrq, Stays, PlaceInBest, Assign, irqVars

(* What activate_mapping writes fits the place of the irq. *)
LEMMA RefTell ==
    ASSUME IInv, IInv', Agree, ActivateMapping
    PROVE  (Promise!AbsNext \/ UNCHANGED Promise!absVars) /\ Agree'
<1> DEFINE i == Head(todo_irqs)
<1>1. /\ Live' = Live /\ Where' = Where /\ assigned_obj' = assigned_obj
      /\ i \in Irqs
  BY SamePlaces DEF ActivateMapping, IInv, TypeOK
<1>2. Agree'
  BY <1>1 DEF Agree
<1>3. CASE affinity' = affinity
  BY <1>1, <1>2, <1>3 DEF Promise!absVars
<1>4. CASE affinity' # affinity
  <2>1. PICK m \in AppliedMasks(i) : affinity' = [affinity EXCEPT ![i] = m]
    BY <1>4 DEF ActivateMapping
  <2>2. assigned_obj[i] # Null /\ Where[i] = assigned_obj[i]
    BY <1>1, <1>4 DEF ActivateMapping, Agree
  <2>3. i \in Live
    BY <1>1, <2>2, PlaceLemma, ConstantsLemma DEF Live, Where
  <2>4. m \in Promise!Fitting(i, Where[i])
    BY <2>1, <2>2 DEF AppliedMasks, SubsetMask, Exact, Subset, Promise!Fitting, Promise!HasHint
  <2>5. Promise!Tell(i)
    BY <1>1, <2>1, <2>2, <2>3, <2>4 DEF Promise!Tell
  <2> QED BY <1>1, <1>2, <2>5 DEF Promise!AbsNext
<1> QED BY <1>3, <1>4

(* Every other step changes no list, or only the order of one. *)
LEMMA RefStutter ==
    ASSUME IInv, Agree,
           \/ Measure \/ MeasureBroken \/ FindOverloadedObjs \/ MigrateOverloadedIrqs
           \/ EndLevel \/ EnterPowersave \/ LeavePowersave \/ CalculatePlacement
           \/ PlaceIrqInObject \/ PlacementDone \/ EndCycle \/ UNCHANGED vars
    PROVE  UNCHANGED Promise!absVars /\ Agree'
<1>1. affinity' = affinity /\ assigned_obj' = assigned_obj
  BY DEF Measure, MeasureBroken, FindOverloadedObjs, MigrateOverloadedIrqs, EndLevel,
         EnterPowersave, LeavePowersave, CalculatePlacement, PlaceIrqInObject, PlacementDone,
         EndCycle, vars, irqVars, fixedVars
<1>2. \A l \in Lists : Range(lists'[l]) = Range(lists[l])
  <2>1. CASE lists' = lists
    BY <2>1
  <2>2. CASE \E d \in Lists : \E s \in sort_irq_list(lists[d]) : lists' = [lists EXCEPT ![d] = s]
    <3>0. PICK d \in Lists : \E s \in sort_irq_list(lists[d]) : lists' = [lists EXCEPT ![d] = s]
      BY <2>2
    <3>1. PICK s \in sort_irq_list(lists[d]) : lists' = [lists EXCEPT ![d] = s]
      BY <3>0
    <3>2. lists \in [Lists -> Seq(Irqs)]
      BY DEF IInv, TypeOK
    <3>3. Range(s) = Range(lists[d])
      BY <3>1, <3>2, SortLemma
    <3> QED BY <3>1, <3>2, <3>3
  <2>3. MigrateOverloadedIrqs => Head(todo_objs) \in Lists
    BY ConstantsLemma DEF MigrateOverloadedIrqs, IInv, TypeOK
  <2> QED BY <2>1, <2>2, <2>3, ConstantsLemma
          DEF Measure, MeasureBroken, FindOverloadedObjs, MigrateOverloadedIrqs, EndLevel,
              EnterPowersave, LeavePowersave, CalculatePlacement, PlaceIrqInObject,
              PlacementDone, EndCycle, vars, irqVars
<1> QED BY <1>1, <1>2, SamePlaces DEF Promise!absVars, Agree

-----------------------------------------------------------------------------
(* The balancer keeps the promise of Placement for every tree, irq db and   *)
(* load: an irq enters the tree at a numa node, goes down one level at a    *)
(* time and never past its level, comes back only to the pool, and the      *)
(* kernel is told nothing but the mask of the place it is in, cut down to   *)
(* its hint.                                                                *)
THEOREM BalancerImplementsPlacement == Spec => ImplementsPlacement
<1>1. Init => Promise!Start /\ Agree
  BY RefInit
<1>2. IInv /\ IInv' /\ Agree /\ [Next]_vars => [Promise!AbsNext]_(Promise!absVars) /\ Agree'
  BY RefRestart, RefTakeBack, RefEnter, RefDescend, RefTell, RefStutter DEF Next
<1> QED BY <1>1, <1>2, Invariance, PTL DEF Spec, ImplementsPlacement, Promise!AbsSpec

(* A published affinity hint binds every mask that is written, whatever the *)
(* placement decided: an exact hint is written as it is, a subset hint      *)
(* bounds the mask and leaves it a cpu.                                     *)
THEOREM HintsAreHonoured == Spec => HintHonoured
<1> DEFINE Honours(i) == affinity'[i] # affinity[i] =>
              /\ Exact(i)  => affinity'[i] = Info[i].affinity_hint
              /\ Subset(i) => affinity'[i] \subseteq Info[i].affinity_hint
                                /\ affinity'[i] # {}
<1>1. ASSUME IInv, Next, NEW i \in Irqs PROVE Honours(i)
  <2>1. CASE affinity' = affinity
    BY <2>1
  <2>2. CASE ActivateMapping /\ affinity' # affinity
    <3>1. PICK m \in AppliedMasks(Head(todo_irqs)) :
              affinity' = [affinity EXCEPT ![Head(todo_irqs)] = m]
      BY <2>2 DEF ActivateMapping
    <3>2. affinity'[i] # affinity[i] => i = Head(todo_irqs) /\ affinity'[i] = m
      BY <1>1, <3>1 DEF IInv, TypeOK
    <3>3. i = Head(todo_irqs) => /\ Exact(i)  => m = Info[i].affinity_hint
                                 /\ Subset(i) => m \subseteq Info[i].affinity_hint /\ m # {}
      BY <3>1 DEF AppliedMasks, SubsetMask, Exact, Subset
    <3> QED BY <3>2, <3>3
  <2>3. ~ActivateMapping => affinity' = affinity
    BY <1>1 DEF Next, ForceRebalanceIrq, Measure, MeasureBroken, Rescan, FindOverloadedObjs,
         MigrateOverloadedIrqs, MoveCandidateIrqs, EndLevel, EnterPowersave, ForceIrqMigration,
         LeavePowersave, CalculatePlacement, PlaceIrqInNode, PlaceIrqInObject,
         FindBestObjectForIrq, PlacementDone, EndCycle, fixedVars
  <2> QED BY <2>1, <2>2, <2>3
<1>2. IInv /\ [Next]_vars => [\A i \in Irqs : Honours(i)]_vars
  BY <1>1 DEF vars
<1> QED BY <1>2, Invariance, PTL DEF Spec, HintHonoured

-----------------------------------------------------------------------------
(* The way down. *)

Placing == {"nodes", "objects", "best"}

(* Nothing below d is ever put into powersave mode or taken out of it. *)
Steady(d) == power_thresh = PowersaveOff \/ Depth(d) < 2

(* An irq above its level that the next visit of its object would move on, *)
(* if there is an eligible child.                                          *)
Hungry(i) == /\ moved[i]
             /\ assigned_obj[i] # Null
             /\ Depth(assigned_obj[i]) < Info[i].level

NoneBelow(i) == \A k \in DOMAIN Children[assigned_obj[i]] :
                   ~Eligible(i, Children[assigned_obj[i]][k])

(* The visit is still to come. *)
Awaits(i) == \/ pc \in Placing /\ assigned_obj[i] \in Range(todo_objs)
             \/ pc = "best" /\ assigned_obj[i] = cur /\ i \in Range(todo_irqs)

Descent == \A i \in Irqs :
    Hungry(i) => \/ NoneBelow(i)
                 \/ Awaits(i)
                 \/ pc \notin Placing /\ ~Steady(assigned_obj[i])

(* The loops of calculate_placement go down the levels: what is deeper than *)
(* an object still to be visited, or than the one being visited, is still   *)
(* to be visited itself (the cpus are not visited at all).                  *)
Downwards ==
    pc \in Placing =>
        /\ \A j, k \in DOMAIN todo_objs : j <= k => Depth(todo_objs[j]) <= Depth(todo_objs[k])
        /\ \A d \in Range(todo_objs), e \in Objs :
              Depth(d) < Depth(e) /\ Depth(e) < 3 => e \in Range(todo_objs)
        /\ pc = "nodes" => \A e \in Objs : Depth(e) < 3 => e \in Range(todo_objs)
        /\ pc = "best" => \A e \in Objs :
              Depth(cur) < Depth(e) /\ Depth(e) < 3 => e \in Range(todo_objs)

NoPowersave == power_thresh = PowersaveOff => \A d \in Objs : ~powersave_mode[d]

DInv == Descent /\ Downwards /\ NoPowersave

-----------------------------------------------------------------------------
(* find_best_object comes back with an object as soon as one is eligible:   *)
(* the first of the shortest lists among the least loads.                   *)
LEMMA BestExists ==
    ASSUME IInv, NEW i \in Irqs, NEW objs \in Seq(Objs),
           NEW k0 \in DOMAIN objs, Eligible(i, objs[k0])
    PROVE  find_best_object(i, objs) # {}
<1> DEFINE E == {k \in DOMAIN objs : Eligible(i, objs[k])}
           ld(k) == load[objs[k]]
           ln(k) == Len(lists[objs[k]])
<1>1. \A k \in DOMAIN objs : k \in Nat /\ objs[k] \in Objs
  OBVIOUS
<1>2. \A k \in DOMAIN objs : ld(k) \in Nat /\ ln(k) \in Nat
  BY <1>1, ConstantsLemma DEF IInv, TypeOK
<1>3. \A j, k \in DOMAIN objs : Cheaper(objs[j], objs[k])
          <=> ld(j) < ld(k) \/ (ld(j) = ld(k) /\ ln(j) < ln(k))
  BY DEF Cheaper
<1> HIDE DEF ld, ln
<1>4. PICK m1 \in {ld(k) : k \in E} : \A n \in {ld(k) : k \in E} : m1 <= n
  <2>1. {ld(k) : k \in E} \subseteq Nat /\ {ld(k) : k \in E} # {}
    BY <1>2
  <2> QED BY <2>1, LeastNatural
<1> DEFINE E1 == {k \in E : ld(k) = m1}
<1>5. PICK m2 \in {ln(k) : k \in E1} : \A n \in {ln(k) : k \in E1} : m2 <= n
  <2>1. {ln(k) : k \in E1} \subseteq Nat /\ {ln(k) : k \in E1} # {}
    BY <1>2, <1>4
  <2> QED BY <2>1, LeastNatural
<1> DEFINE E2 == {k \in E1 : ln(k) = m2}
<1>6. PICK p \in E2 : \A n \in E2 : p <= n
  <2>1. E2 \subseteq Nat /\ E2 # {}
    BY <1>1, <1>5
  <2> HIDE DEF E2
  <2> QED BY <2>1, LeastNatural
<1>7. ASSUME NEW j \in DOMAIN objs, Eligible(i, objs[j])
      PROVE  ~Cheaper(objs[j], objs[p]) /\ (j < p => Cheaper(objs[p], objs[j]))
  <2>1. p \in DOMAIN objs /\ ld(p) = m1 /\ ln(p) = m2
    OBVIOUS
  <2>2. m1 <= ld(j)
    BY <1>4, <1>7
  <2>3. ld(j) = m1 => m2 <= ln(j)
    BY <1>5, <1>7
  <2>4. ld(j) = m1 /\ ln(j) = m2 => p <= j
    BY <1>6, <1>7
  <2>5. /\ ld(j) \in Nat /\ ln(j) \in Nat /\ m1 \in Nat /\ m2 \in Nat
        /\ j \in Nat /\ p \in Nat
    BY <1>1, <1>2, <2>1
  <2>6. ~Cheaper(objs[j], objs[p])
    BY <1>3, <2>1, <2>2, <2>3, <2>5
  <2>7. ASSUME j < p PROVE Cheaper(objs[p], objs[j])
    <3>1. ~(p <= j)
      BY <2>5, <2>7
    <3>2. ld(j) # m1 \/ ln(j) # m2
      BY <2>4, <3>1
    <3> QED BY <1>3, <2>1, <2>2, <2>3, <2>5, <3>2
  <2> QED BY <2>6, <2>7
<1>8. p \in find_best_object(i, objs)
  BY <1>6, <1>7 DEF find_best_object
<1> QED BY <1>8

(* assigned_obj never points to an object whose list the irq is not on. *)
LEMMA Placed ==
    ASSUME IInv, Agree, NEW i \in Irqs, assigned_obj[i] # Null
    PROVE  assigned_obj[i] \in Objs /\ i \in Range(lists[assigned_obj[i]])
<1>1. PlaceOf(i) = assigned_obj[i]
  BY DEF Agree, Where
<1> QED BY <1>1, PlaceLemma

(* calculate_placement visits nodes, packages and cache domains, all of     *)
(* them and in this order.                                                  *)
LEMMA OrderLemma ==
    /\ PlacementOrder \in Seq(Objs)
    /\ \A j, k \in DOMAIN PlacementOrder :
          j <= k => Depth(PlacementOrder[j]) <= Depth(PlacementOrder[k])
    /\ \A e \in Objs : Depth(e) < 3 => e \in Range(PlacementOrder)
<1> DEFINE a == Len(numa_nodes)
           b == Len(packages)
           c == Len(cache_domains)
           s == PlacementOrder
<1>1. /\ numa_nodes \in Seq(Objs) /\ packages \in Seq(Objs) /\ cache_domains \in Seq(Objs)
      /\ \A d \in Range(numa_nodes) : Depth(d) = 0
      /\ \A d \in Range(packages) : Depth(d) = 1
      /\ \A d \in Range(cache_domains) : Depth(d) = 2
      /\ \A d \in Range(cpus) : Depth(d) = 3
  BY TreeAssumption DEF IsTree
<1>2. /\ a \in Nat /\ b \in Nat /\ c \in Nat
      /\ DOMAIN numa_nodes = 1..a /\ DOMAIN packages = 1..b /\ DOMAIN cache_domains = 1..c
  BY <1>1
<1>3. /\ s \in Seq(Objs)
      /\ DOMAIN s = 1..(a + b + c)
      /\ \A k \in 1..a : s[k] = numa_nodes[k]
      /\ \A k \in 1..b : s[a + k] = packages[k]
      /\ \A k \in 1..c : s[a + b + k] = cache_domains[k]
  <2>1. /\ numa_nodes \o packages \in Seq(Objs)
        /\ Len(numa_nodes \o packages) = a + b
        /\ \A k \in 1..a : (numa_nodes \o packages)[k] = numa_nodes[k]
        /\ \A k \in 1..b : (numa_nodes \o packages)[a + k] = packages[k]
    BY <1>1, <1>2
  <2> DEFINE t == numa_nodes \o packages
  <2>2. s = t \o cache_domains
    BY DEF PlacementOrder
  <2> HIDE DEF t
  <2>3. /\ s \in Seq(Objs) /\ Len(s) = a + b + c
        /\ \A k \in 1..(a + b) : s[k] = t[k]
        /\ \A k \in 1..c : s[a + b + k] = cache_domains[k]
    BY <1>1, <1>2, <2>1, <2>2 DEF t
  <2> HIDE DEF a, b, c, s
  <2>4. /\ \A k \in 1..a : k \in 1..(a + b)
        /\ \A k \in 1..b : a + k \in 1..(a + b)
        /\ DOMAIN s = 1..(a + b + c)
    BY <1>2, <2>3
  <2>5. \A k \in 1..a : s[k] = numa_nodes[k]
    BY <2>1, <2>3, <2>4 DEF t
  <2>6. \A k \in 1..b : s[a + k] = packages[k]
    BY <2>1, <2>3, <2>4 DEF t
  <2> QED BY <2>3, <2>4, <2>5, <2>6
<1> HIDE DEF a, b, c, s
<1>4. /\ \A k \in 1..a : Depth(s[k]) = 0
      /\ \A k \in (a + 1)..(a + b) : Depth(s[k]) = 1
      /\ \A k \in (a + b + 1)..(a + b + c) : Depth(s[k]) = 2
  <2>1. \A k \in 1..a : Depth(s[k]) = 0
    BY <1>1, <1>2, <1>3 DEF Range
  <2>2. \A k \in 1..b : Depth(s[a + k]) = 1
    BY <1>1, <1>2, <1>3 DEF Range
  <2>3. \A k \in 1..c : Depth(s[a + b + k]) = 2
    <3>1. \A k \in 1..c : cache_domains[k] \in Range(cache_domains)
      BY <1>2 DEF Range
    <3> QED BY <1>1, <1>3, <3>1
  <2>4. ASSUME NEW k \in (a + 1)..(a + b) PROVE Depth(s[k]) = 1
    <3>1. k - a \in 1..b /\ a + (k - a) = k
      BY <1>2
    <3> QED BY <2>2, <3>1
  <2>5. ASSUME NEW k \in (a + b + 1)..(a + b + c) PROVE Depth(s[k]) = 2
    <3>1. k - a - b \in 1..c /\ a + b + (k - a - b) = k
      BY <1>2
    <3> QED BY <2>3, <3>1
  <2> QED BY <2>1, <2>4, <2>5
<1>5. \A j, k \in DOMAIN s : j <= k => Depth(s[j]) <= Depth(s[k])
  BY <1>2, <1>3, <1>4
<1>6. ASSUME NEW e \in Objs, Depth(e) < 3 PROVE e \in Range(s)
  <2>1. e \in Range(numa_nodes) \/ e \in Range(packages) \/ e \in Range(cache_domains)
    BY <1>1, <1>6 DEF Objs
  <2>2. \E k \in DOMAIN s : s[k] = e
    <3>1. CASE e \in Range(numa_nodes)
      BY <3>1, <1>2, <1>3 DEF Range
    <3>2. CASE e \in Range(packages)
      <4>1. PICK k \in 1..b : packages[k] = e
        BY <3>2, <1>2 DEF Range
      <4>2. a + k \in DOMAIN s /\ s[a + k] = e
        BY <4>1, <1>2, <1>3
      <4> QED BY <4>2
    <3>3. CASE e \in Range(cache_domains)
      <4>1. PICK k \in 1..c : cache_domains[k] = e
        BY <3>3, <1>2 DEF Range
      <4>2. a + b + k \in DOMAIN s /\ s[a + b + k] = e
        BY <4>1, <1>2, <1>3
      <4> QED BY <4>2
    <3> QED BY <2>1, <3>1, <3>2, <3>3
  <2> QED BY <2>2 DEF Range
<1> QED BY <1>3, <1>5, <1>6 DEF s-----------------------------------------------------------------------------
(* Without -p no step puts an object into powersave mode, and no step but   *)
(* the powersave decision changes the mode of an object at all.             *)
LEMMA PowersaveFrame ==
    ASSUME IInv, [Next]_vars
    PROVE  /\ \/ EnterPowersave \/ LeavePowersave \/ Rescan
              \/ powersave_mode' = powersave_mode
           /\ NoPowersave => NoPowersave'
<1>1. \/ EnterPowersave \/ LeavePowersave \/ Rescan
      \/ powersave_mode' = powersave_mode
  BY DEF Next, ForceRebalanceIrq, Measure, MeasureBroken, FindOverloadedObjs,
         MigrateOverloadedIrqs, MoveCandidateIrqs, EndLevel, ForceIrqMigration,
         CalculatePlacement, PlaceIrqInNode, PlaceIrqInObject,
         FindBestObjectForIrq, PlacementDone, ActivateMapping, EndCycle, vars
<1>2. power_thresh = PowersaveOff => ~EnterPowersave
  BY DEF EnterPowersave, EnterCondition, PowersavePossible
<1>3. LeavePowersave => \A d \in Objs : powersave_mode'[d] => powersave_mode[d]
  BY DEF LeavePowersave
<1>4. Rescan => \A d \in Objs : ~powersave_mode'[d]
  BY DEF Rescan
<1> QED BY <1>1, <1>2, <1>3, <1>4 DEF NoPowersave

(* Eligibility looks at the constants and at powersave mode. *)
LEMMA EligibleFrame ==
    ASSUME NEW i, NEW d, powersave_mode'[d] <=> powersave_mode[d]
    PROVE  Eligible(i, d)' <=> Eligible(i, d)
BY DEF Eligible, HintAllows

(* What the children of a steady object are eligible for does not change. *)
LEMMA SteadyFrame ==
    ASSUME IInv, IInv', NoPowersave, NoPowersave',
           NEW i \in Irqs, NEW d \in Objs, Steady(d), NEW k \in DOMAIN Children[d]
    PROVE  Eligible(i, Children[d][k])' <=> Eligible(i, Children[d][k])
<1> DEFINE c == Children[d][k]
<1>1. c \in Objs /\ Depth(c) = Depth(d) + 1 /\ Depth(d) \in 0..3
  BY ConstantsLemma, TreeAssumption DEF IsTree
<1>2. ~powersave_mode[c] /\ ~powersave_mode'[c]
  <2>1. CASE power_thresh = PowersaveOff
    BY <1>1, <2>1 DEF NoPowersave
  <2>2. CASE Depth(d) < 2
    <3>1. Depth(c) # 3
      BY <1>1, <2>2
    <3>2. c \notin Range(cpus)
      BY <3>1, ConstantsLemma
    <3> QED BY <1>1, <3>2 DEF IInv, PowersaveLoop
  <2> QED BY <2>1, <2>2 DEF Steady
<1> HIDE DEF c
<1>3. Eligible(i, c)' <=> Eligible(i, c)
  BY <1>2, EligibleFrame
<1> QED BY <1>3 DEF c

(* Outside the placement irqs only leave their objects, and no irq that     *)
(* stays is marked as moved.                                                *)
LEMMA QuietLemma ==
    ASSUME IInv, IInv', DInv, NoPowersave',
           pc \notin Placing, pc' \notin Placing,
           \A j \in Irqs : assigned_obj'[j] # Null =>
               assigned_obj'[j] = assigned_obj[j] /\ (moved'[j] => moved[j])
    PROVE  DInv'
<1>1. ASSUME NEW j \in Irqs, Hungry(j)', Steady(assigned_obj'[j])
      PROVE  NoneBelow(j)'
  <2>1. /\ assigned_obj'[j] # Null /\ moved'[j] /\ Depth(assigned_obj'[j]) < Info[j].level
        /\ assigned_obj'[j] = assigned_obj[j] /\ moved[j]
    BY <1>1 DEF Hungry
  <2>2. Hungry(j) /\ assigned_obj[j] \in Objs
    BY <2>1 DEF Hungry, IInv, TypeOK, Lists
  <2>3. NoneBelow(j)
    BY <1>1, <2>1, <2>2 DEF DInv, Descent, Awaits, Placing
  <2> QED BY <1>1, <2>1, <2>2, <2>3, SteadyFrame DEF NoneBelow, DInv
<1>2. Descent'
  BY <1>1 DEF Descent, Steady
<1> QED BY <1>2 DEF DInv, Downwards

LEMMA QuietSteps ==
    ASSUME IInv, IInv', DInv, [Next]_vars, pc \notin Placing, ~CalculatePlacement
    PROVE  DInv'
<1>1. \A j \in Irqs : assigned_obj'[j] # Null =>
          assigned_obj'[j] = assigned_obj[j] /\ (moved'[j] => moved[j])
  <2>1. CASE Rescan
    BY <2>1 DEF Rescan
  <2>2. CASE ActivateMapping
    BY <2>2 DEF ActivateMapping, IInv, TypeOK
  <2>3. CASE ForceRebalanceIrq
    BY <2>3 DEF ForceRebalanceIrq, irqVars, IInv, BootLoop, TypeOK
  <2>4. CASE MoveCandidateIrqs \/ ForceIrqMigration
    BY <2>4 DEF MoveCandidateIrqs, ForceIrqMigration, migrate_irq, irqVars, IInv, TypeOK
  <2>5. CASE UNCHANGED <<assigned_obj, moved>>
    BY <2>5
  <2> QED BY <2>1, <2>2, <2>3, <2>4, <2>5
          DEF Next, Measure, MeasureBroken, FindOverloadedObjs, MigrateOverloadedIrqs, EndLevel,
              EnterPowersave, LeavePowersave, PlaceIrqInNode, PlaceIrqInObject,
              FindBestObjectForIrq, PlacementDone, EndCycle, vars, irqVars, Placing
<1>2. pc' \notin Placing
  BY DEF Next, ForceRebalanceIrq, Measure, MeasureBroken, Rescan, FindOverloadedObjs,
         MigrateOverloadedIrqs, MoveCandidateIrqs, EndLevel, EnterPowersave, ForceIrqMigration,
         LeavePowersave, PlaceIrqInNode, PlaceIrqInObject,
         FindBestObjectForIrq, PlacementDone, ActivateMapping, EndCycle, vars, Placing,
         NextLevel, LoopStep, AfterMeasure, AfterRescan
<1> QED BY <1>1, <1>2, QuietLemma, PowersaveFrame DEF DInv
-----------------------------------------------------------------------------
(* Every object above the cpus that is still to be visited will take its    *)
(* irqs on.                                                                 *)
LEMMA AllAwait ==
    ASSUME IInv', pc' \in Placing, \A e \in Objs : Depth(e) < 3 => e \in Range(todo_objs')
    PROVE  Descent'
<1>1. ASSUME NEW i \in Irqs, Hungry(i)' PROVE Awaits(i)'
  <2>1. assigned_obj'[i] \in Objs
    BY <1>1 DEF Hungry, IInv, TypeOK, Lists
  <2>2. Depth(assigned_obj'[i]) < 3
    <3>1. Depth(assigned_obj'[i]) \in 0..3 /\ Info[i].level \in 0..3
      BY <2>1, ConstantsLemma
    <3>2. Depth(assigned_obj'[i]) < Info[i].level
      BY <1>1 DEF Hungry
    <3> QED BY <3>1, <3>2
  <2> QED BY <2>1, <2>2 DEF Awaits
<1> QED BY <1>1 DEF Descent

LEMMA StartDown == IInv /\ IInv' /\ DInv /\ CalculatePlacement => DInv'
<1> SUFFICES ASSUME IInv, IInv', DInv, CalculatePlacement PROVE DInv'
  OBVIOUS
<1>1. NoPowersave' /\ pc \notin Placing
  BY PowersaveFrame DEF DInv, Next, CalculatePlacement, Placing
<1>2. CASE pc' = "activate"
  <2>1. UNCHANGED <<assigned_obj, moved>> /\ pc' \notin Placing
    BY <1>2 DEF CalculatePlacement, Placing
  <2> QED BY <1>1, <2>1, QuietLemma
<1>3. CASE pc' = "nodes"
  <2>1. todo_objs' = PlacementOrder
    BY <1>3 DEF CalculatePlacement
  <2>2. Downwards'
    BY <1>3, <2>1, OrderLemma DEF Downwards
  <2>3. pc' \in Placing /\ \A e \in Objs : Depth(e) < 3 => e \in Range(todo_objs')
    BY <1>3, <2>1, OrderLemma DEF Placing
  <2>4. Descent'
    BY <2>3, AllAwait
  <2> QED BY <1>1, <2>2, <2>4 DEF DInv
<1> QED BY <1>2, <1>3 DEF CalculatePlacement
(* While the nodes are handed out, every object is still to be visited. *)
LEMMA NodeDown == IInv /\ IInv' /\ DInv /\ PlaceIrqInNode => DInv'
<1> SUFFICES ASSUME IInv, IInv', DInv, PlaceIrqInNode PROVE DInv'
  OBVIOUS
<1>1. NoPowersave'
  BY PowersaveFrame DEF DInv, Next
<1>2. pc = "nodes" /\ pc' \in {"nodes", "objects"} /\ todo_objs' = todo_objs
  BY DEF PlaceIrqInNode, LoopStep
<1>3. Downwards'
  BY <1>2 DEF DInv, Downwards, Placing
<1>4. pc' \in Placing /\ \A e \in Objs : Depth(e) < 3 => e \in Range(todo_objs')
  BY <1>2 DEF DInv, Downwards, Placing
<1>5. Descent'
  BY <1>4, AllAwait
<1> QED BY <1>1, <1>3, <1>5 DEF DInv

(* An object is visited: its irqs are taken up, nothing is left out. *)
LEMMA ObjectDown == IInv /\ IInv' /\ Agree /\ DInv /\ PlaceIrqInObject => DInv'
<1> SUFFICES ASSUME IInv, IInv', Agree, DInv, PlaceIrqInObject PROVE DInv'
  OBVIOUS
<1> DEFINE d == Head(todo_objs)
<1>1. NoPowersave'
  BY PowersaveFrame DEF DInv, Next
<1>2. /\ pc = "objects" /\ pc' \in {"objects", "best"} /\ pc' \in Placing
      /\ todo_objs' = Tail(todo_objs) /\ todo_objs # <<>>
      /\ pc' = "best" => cur' = d
      /\ UNCHANGED <<assigned_obj, moved, powersave_mode>>
  BY DEF PlaceIrqInObject, Placing, irqVars
<1>3. /\ todo_objs \in Seq(Objs) /\ d \in Objs
      /\ Range(todo_objs) = Range(todo_objs') \cup {d}
  BY <1>2, TailLemma DEF IInv, TypeOK
<1>4. /\ \A j, k \in DOMAIN todo_objs : j <= k => Depth(todo_objs[j]) <= Depth(todo_objs[k])
      /\ \A x \in Range(todo_objs), e \in Objs :
            Depth(x) < Depth(e) /\ Depth(e) < 3 => e \in Range(todo_objs)
  BY <1>2 DEF DInv, Downwards, Placing
<1>5. /\ Len(todo_objs) \in Nat /\ DOMAIN todo_objs = 1..Len(todo_objs)
      /\ DOMAIN todo_objs' = 1..(Len(todo_objs) - 1) /\ Len(todo_objs) >= 1
      /\ \A j \in 1..(Len(todo_objs) - 1) : todo_objs'[j] = todo_objs[j + 1]
      /\ d = todo_objs[1]
  BY <1>2, <1>3
<1> HIDE DEF d
<1>6. \A j, k \in DOMAIN todo_objs' : j <= k => Depth(todo_objs'[j]) <= Depth(todo_objs'[k])
  <2> SUFFICES ASSUME NEW j \in DOMAIN todo_objs', NEW k \in DOMAIN todo_objs', j <= k
               PROVE  Depth(todo_objs'[j]) <= Depth(todo_objs'[k])
    OBVIOUS
  <2>1. j + 1 \in DOMAIN todo_objs /\ k + 1 \in DOMAIN todo_objs /\ j + 1 <= k + 1
    BY <1>5
  <2>2. todo_objs'[j] = todo_objs[j + 1] /\ todo_objs'[k] = todo_objs[k + 1]
    BY <1>5
  <2> QED BY <1>4, <2>1, <2>2
<1>7. \A x \in Range(todo_objs) : Depth(d) <= Depth(x)
  <2> SUFFICES ASSUME NEW k \in DOMAIN todo_objs PROVE Depth(d) <= Depth(todo_objs[k])
    BY DEF Range
  <2>1. 1 \in DOMAIN todo_objs /\ 1 <= k
    BY <1>5
  <2> QED BY <1>4, <1>5, <2>1
<1>8. ASSUME NEW x \in Range(todo_objs), NEW e \in Objs, Depth(x) < Depth(e), Depth(e) < 3
      PROVE  e \in Range(todo_objs')
  <2>1. Depth(d) <= Depth(x)
    BY <1>7
  <2>2. Depth(d) \in 0..3 /\ Depth(x) \in 0..3 /\ Depth(e) \in 0..3
    <3>1. x \in Objs
      BY <1>3 DEF Range
    <3> QED BY <1>3, <3>1, ConstantsLemma
  <2>3. e # d
    BY <1>8, <2>1, <2>2
  <2> QED BY <1>3, <1>4, <1>8, <2>3
<1>9. Downwards'
  <2>1. \A x \in Range(todo_objs'), e \in Objs :
            Depth(x) < Depth(e) /\ Depth(e) < 3 => e \in Range(todo_objs')
    BY <1>3, <1>8
  <2>2. \A e \in Objs : Depth(d) < Depth(e) /\ Depth(e) < 3 => e \in Range(todo_objs')
    BY <1>3, <1>8
  <2> QED BY <1>2, <1>6, <2>1, <2>2 DEF Downwards
<1>10. ASSUME NEW i \in Irqs, Hungry(i)' PROVE NoneBelow(i)' \/ Awaits(i)'
  <2>1. Hungry(i) /\ assigned_obj'[i] = assigned_obj[i]
    BY <1>2, <1>10 DEF Hungry
  <2>2. NoneBelow(i) => NoneBelow(i)'
    BY <1>2 DEF NoneBelow, Eligible, HintAllows
  <2>3. CASE Awaits(i)
    <3>1. assigned_obj[i] \in Range(todo_objs)
      BY <1>2, <2>3 DEF Awaits
    <3>2. CASE assigned_obj[i] \in Range(todo_objs')
      BY <1>2, <3>2 DEF Awaits
    <3>3. CASE assigned_obj[i] = d
      <4>1. i \in Range(lists[d])
        BY <2>1, <3>3, Placed DEF Hungry
      <4>2. lists[d] \in Seq(Irqs)
        BY <1>3, ConstantsLemma DEF IInv, TypeOK
      <4>3. lists[d] # <<>> /\ Len(lists[d]) # 0
        BY <4>1, <4>2, EmptyLemma
      <4>4. pc' = "best" /\ cur' = d /\ todo_irqs' = lists[d]
        BY <4>3 DEF PlaceIrqInObject, for_each_irq, d
      <4> QED BY <2>1, <3>3, <4>1, <4>4 DEF Awaits
    <3> QED BY <1>3, <3>1, <3>2, <3>3
  <2> QED BY <1>2, <2>1, <2>2, <2>3 DEF DInv, Descent, Placing
<1>11. Descent'
  BY <1>10 DEF Descent
<1> QED BY <1>1, <1>9, <1>11 DEF DInv
(* One irq goes down one level, stays, or finds nobody below. *)
LEMMA BestDown == IInv /\ IInv' /\ DInv /\ FindBestObjectForIrq => DInv'
<1> SUFFICES ASSUME IInv, IInv', DInv, FindBestObjectForIrq PROVE DInv'
  OBVIOUS
<1>0. Head(todo_irqs) \in Irqs
  BY VisitLemma DEF LoopPCs, FindBestObjectForIrq
<1> PICK i \in Irqs : i = Head(todo_irqs)
  BY <1>0
<1>1. NoPowersave'
  BY PowersaveFrame DEF DInv, Next
<1>2. /\ pc = "best" /\ pc' \in {"best", "objects"} /\ pc' \in Placing
      /\ UNCHANGED <<todo_objs, powersave_mode>>
      /\ todo_irqs' = Tail(todo_irqs)
      /\ Len(todo_irqs) # 1 => pc' = "best" /\ cur' = cur
      /\ pc' = "best" => cur' = cur
  BY DEF FindBestObjectForIrq, LoopStep, Placing
<1>3. i \in Irqs /\ assigned_obj[i] = cur /\ cur \in Objs
  BY VisitLemma DEF LoopPCs, FindBestObjectForIrq, Lists
<1>4. /\ todo_irqs \in Seq(Irqs) /\ todo_irqs # <<>>
      /\ Range(todo_irqs) = Range(todo_irqs') \cup {i}
      /\ Len(todo_irqs) = 1 => todo_irqs' = <<>>
  BY <1>2, TailLemma DEF IInv, TypeOK, LoopOnList, LoopPCs
<1>5. Downwards'
  BY <1>2 DEF DInv, Downwards, Placing
<1>6. /\ assigned_obj' \in [Irqs -> Lists]
      /\ \A j \in Irqs : j # i => assigned_obj'[j] = assigned_obj[j] /\ moved'[j] = moved[j]
  BY DEF FindBestObjectForIrq, PlaceInBest, Assign, migrate_irq, irqVars, IInv, TypeOK
<1>7. \A j \in Irqs : NoneBelow(j) /\ assigned_obj'[j] = assigned_obj[j] => NoneBelow(j)'
  BY <1>2 DEF NoneBelow, Eligible, HintAllows
<1>8. ASSUME NEW j \in Irqs, j # i, Hungry(j)' PROVE NoneBelow(j)' \/ Awaits(j)'
  <2>1. Hungry(j) /\ assigned_obj'[j] = assigned_obj[j]
    BY <1>6, <1>8 DEF Hungry
  <2>2. CASE Awaits(j)
    <3>1. CASE assigned_obj[j] \in Range(todo_objs)
      BY <1>2, <2>1, <3>1 DEF Awaits
    <3>2. CASE assigned_obj[j] = cur /\ j \in Range(todo_irqs)
      <4>1. j \in Range(todo_irqs')
        BY <1>4, <1>8, <3>2
      <4>2. todo_irqs' # <<>>
        BY <4>1 DEF Range
      <4>3. pc' = "best" /\ cur' = cur
        BY <1>2, <1>4, <4>2
      <4> QED BY <2>1, <3>2, <4>1, <4>3 DEF Awaits
    <3> QED BY <2>2, <3>1, <3>2 DEF Awaits
  <2> QED BY <1>2, <1>7, <2>1, <2>2 DEF DInv, Descent, Placing
<1>9. ASSUME Hungry(i)' PROVE NoneBelow(i)' \/ Awaits(i)'
  <2>1. CASE Stays(i)
    <3>1. assigned_obj'[i] = cur /\ moved'[i] = moved[i]
      BY <1>3, <2>1 DEF FindBestObjectForIrq, irqVars
    <3>2. Depth(cur) \in 0..3
      BY <1>3, ConstantsLemma
    <3> QED BY <1>9, <2>1, <3>1, <3>2 DEF Hungry, Stays
  <2>2. CASE find_best_object(i, Children[cur]) = {} /\ assigned_obj' = assigned_obj
    <3>1. Children[cur] \in Seq(Objs)
      BY <1>3, TreeAssumption DEF IsTree
    <3>2. NoneBelow(i)
      BY <1>3, <2>2, <3>1, BestExists DEF NoneBelow
    <3> QED BY <1>3, <1>7, <2>2, <3>2
  <2>3. CASE \E k \in find_best_object(i, Children[cur]) :
                assigned_obj' = [assigned_obj EXCEPT ![i] = Children[cur][k]]
    <3>1. PICK k \in find_best_object(i, Children[cur]) :
                assigned_obj' = [assigned_obj EXCEPT ![i] = Children[cur][k]]
      BY <2>3
    <3> DEFINE c == Children[cur][k]
    <3>2. k \in DOMAIN Children[cur]
      BY <3>1 DEF find_best_object
    <3>3. c \in Objs /\ Depth(c) = Depth(cur) + 1
      BY <1>3, <3>2, ConstantsLemma, TreeAssumption DEF IsTree
    <3>4. assigned_obj'[i] = c
      BY <1>3, <3>1 DEF IInv, TypeOK
    <3> HIDE DEF c
    <3>5. Depth(cur) < Depth(c) /\ Depth(c) < 3
      <4>1. Depth(c) < Info[i].level
        BY <1>9, <3>4 DEF Hungry
      <4>2. Depth(c) \in 0..3 /\ Depth(cur) \in 0..3 /\ Info[i].level \in 0..3
        BY <1>3, <3>3, ConstantsLemma
      <4> QED BY <3>3, <4>1, <4>2
    <3>6. c \in Range(todo_objs')
      BY <1>2, <3>3, <3>5 DEF DInv, Downwards, Placing
    <3> QED BY <1>2, <3>4, <3>6 DEF Awaits
  <2> QED BY <2>1, <2>2, <2>3 DEF FindBestObjectForIrq, PlaceInBest, Assign, irqVars
<1>10. Descent'
  BY <1>8, <1>9 DEF Descent
<1> QED BY <1>1, <1>5, <1>10 DEF DInv

(* The loops are over: nobody waits for a visit any more. *)
LEMMA DoneDown ==
    ASSUME IInv, IInv', DInv, PlacementDone
    PROVE  DInv' /\ PlacedDeep'
<1>1. NoPowersave'
  BY PowersaveFrame DEF DInv, Next
<1>2. /\ pc = "objects" /\ pc' = "activate" /\ Range(todo_objs) = {}
      /\ UNCHANGED <<assigned_obj, moved, powersave_mode>>
  BY DEF PlacementDone, irqVars, Range
<1>3. ASSUME NEW i \in Irqs, Hungry(i)' PROVE NoneBelow(i)'
  <2>1. Hungry(i) /\ ~Awaits(i)
    BY <1>2, <1>3 DEF Hungry, Awaits
  <2>2. NoneBelow(i)
    BY <1>2, <2>1 DEF DInv, Descent, Placing
  <2> QED BY <1>2, <2>2 DEF NoneBelow, Eligible, HintAllows
<1>4. Descent' /\ Downwards'
  BY <1>2, <1>3 DEF Descent, Downwards, Placing
<1>5. PlacedDeep'
  BY <1>3 DEF PlacedDeep, Hungry, NoneBelow
<1> QED BY <1>1, <1>4, <1>5 DEF DInv

(* The placement goes down the tree. *)
LEMMA DescentStep == IInv /\ IInv' /\ Agree /\ DInv /\ [Next]_vars => DInv'
<1> SUFFICES ASSUME IInv, IInv', Agree, DInv, [Next]_vars PROVE DInv'
  OBVIOUS
<1>1. CASE pc \notin Placing
  BY <1>1, QuietSteps, StartDown
<1>2. CASE pc \in Placing /\ UNCHANGED vars
  <2>1. pc' = pc /\ cur' = cur /\ todo_objs' = todo_objs /\ todo_irqs' = todo_irqs
        /\ UNCHANGED <<assigned_obj, moved, powersave_mode>>
    BY <1>2 DEF vars
  <2> QED BY <2>1 DEF DInv, Descent, Downwards, NoPowersave, Hungry, NoneBelow, Awaits,
                      Eligible, HintAllows, Steady
<1>3. CASE pc \in Placing /\ Next
  <2>1. PlaceIrqInNode \/ PlaceIrqInObject \/ FindBestObjectForIrq \/ PlacementDone
    BY <1>3 DEF Next, ForceRebalanceIrq, Measure, MeasureBroken, Rescan, FindOverloadedObjs,
         MigrateOverloadedIrqs, MoveCandidateIrqs, EndLevel, EnterPowersave, ForceIrqMigration,
         LeavePowersave, AtPowersaveDecision, CalculatePlacement, ActivateMapping, EndCycle,
         Placing
  <2> QED BY <2>1, NodeDown, ObjectDown, BestDown, DoneDown
<1> QED BY <1>1, <1>2, <1>3

LEMMA DescentInit == Init => DInv
BY DEF Init, DInv, Descent, Downwards, NoPowersave, Hungry, Placing

(* assigned_obj and the lists agree in every state, and so do the loops of  *)
(* calculate_placement and the depth of the irqs.                           *)
LEMMA Deepening == Spec => [](IInv /\ Agree /\ DInv)
<1>1. Init => Agree /\ DInv
  BY RefInit, DescentInit
<1>2. IInv /\ IInv' /\ Agree /\ [Next]_vars => Agree'
  BY RefRestart, RefTakeBack, RefEnter, RefDescend, RefTell, RefStutter DEF Next
<1> QED BY <1>1, <1>2, DescentStep, Invariance, PTL DEF Spec
-----------------------------------------------------------------------------
(* calculate_placement leaves every irq that was moved at its level, or     *)
(* where no object below is eligible, whatever the tree, the loads and the  *)
(* powersave settings: placement.c's three loops miss nobody.               *)
THEOREM PlacementEndsDeep == Spec => [][PlacementDone => PlacedDeep']_vars
<1>1. IInv /\ IInv' /\ DInv /\ [Next]_vars => [PlacementDone => PlacedDeep']_vars
  BY DoneDown
<1> QED BY <1>1, Deepening, PTL DEF Spec

(* Without powersave (no -p) this holds as long as activate_mapping writes, *)
(* in every cycle, also in one that had nothing to place.                   *)
THEOREM PlacementIsDeep ==
    ASSUME power_thresh = PowersaveOff
    PROVE  Spec => []PlacedDeep
<1>1. DInv => PlacedDeep
  BY DEF DInv, Descent, PlacedDeep, Hungry, NoneBelow, Awaits, Steady, Placing
<1> QED BY <1>1, Deepening, PTL

(* Where a step may put an irq. *)
LEMMA Moves ==
    ASSUME IInv, [Next]_vars, NEW j \in Irqs,
           assigned_obj'[j] # assigned_obj[j], assigned_obj'[j] # Null
    PROVE  \/ PreferredNode(j) /\ assigned_obj'[j] = Info[j].numa_node
           \/ /\ ~PreferredNode(j)
              /\ assigned_obj'[j] \in Range(numa_nodes)
              /\ Eligible(j, assigned_obj'[j])
           \/ /\ assigned_obj[j] \in Objs
              /\ \E k \in DOMAIN Children[assigned_obj[j]] :
                    assigned_obj'[j] = Children[assigned_obj[j]][k]
<1>1. PlaceIrqInNode \/ FindBestObjectForIrq
  BY DEF Next, ForceRebalanceIrq, Measure, MeasureBroken, Rescan, FindOverloadedObjs,
         MigrateOverloadedIrqs, MoveCandidateIrqs, EndLevel, EnterPowersave, ForceIrqMigration,
         LeavePowersave, CalculatePlacement, PlaceIrqInObject, PlacementDone,
         ActivateMapping, EndCycle, vars, irqVars, IInv, TypeOK
<1>2. CASE PlaceIrqInNode
  <2>1. j = Head(todo_irqs)
    BY <1>2 DEF PlaceIrqInNode, PlaceInBest, Assign, irqVars, IInv, TypeOK
  <2>2. CASE PreferredNode(j) /\ assigned_obj' = [assigned_obj EXCEPT ![j] = Info[j].numa_node]
    BY <2>2 DEF IInv, TypeOK
  <2>3. CASE /\ ~PreferredNode(j)
             /\ \E k \in find_best_object(j, numa_nodes) :
                   assigned_obj' = [assigned_obj EXCEPT ![j] = numa_nodes[k]]
    BY <2>3 DEF find_best_object, Range, IInv, TypeOK
  <2> QED BY <1>2, <2>1, <2>2, <2>3 DEF PlaceIrqInNode, PlaceInBest, Assign, irqVars
<1>3. CASE FindBestObjectForIrq
  <2>1. j = Head(todo_irqs)
    BY <1>3 DEF FindBestObjectForIrq, PlaceInBest, Assign, irqVars, IInv, TypeOK
  <2>2. assigned_obj[j] = cur /\ cur \in Objs
    BY <1>3, <2>1, VisitLemma DEF LoopPCs, FindBestObjectForIrq, Lists
  <2>3. PICK k \in find_best_object(j, Children[cur]) :
            assigned_obj' = [assigned_obj EXCEPT ![j] = Children[cur][k]]
    BY <1>3, <2>1 DEF FindBestObjectForIrq, PlaceInBest, Assign, irqVars
  <2> QED BY <2>2, <2>3 DEF find_best_object, IInv, TypeOK
<1> QED BY <1>1, <1>2, <1>3

(* On a machine whose domains are nested the irqs of a device on a numa     *)
(* node with a usable cpu never leave that node: place_irq_in_node starts   *)
(* them there, every later step goes down from it or back to the pool.      *)
THEOREM NodesAreHonoured ==
    ASSUME Nested
    PROVE  Spec => []NodeHonoured
<1>1. Init => NodeHonoured
  BY DEF Init, NodeHonoured
<1>2. ASSUME IInv, NodeHonoured, [Next]_vars PROVE NodeHonoured'
  <2> SUFFICES ASSUME NEW j \in Irqs, assigned_obj'[j] # Null, PreferredNode(j)
               PROVE  Mask[assigned_obj'[j]] \subseteq Mask[Info[j].numa_node]
    BY DEF NodeHonoured, PreferredNode
  <2>1. CASE assigned_obj'[j] = assigned_obj[j]
    BY <1>2, <2>1 DEF NodeHonoured, PreferredNode
  <2>2. CASE assigned_obj'[j] = Info[j].numa_node
    BY <2>2
  <2>3. CASE /\ assigned_obj[j] \in Objs
             /\ \E k \in DOMAIN Children[assigned_obj[j]] :
                    assigned_obj'[j] = Children[assigned_obj[j]][k]
    <3>1. Mask[assigned_obj'[j]] \subseteq Mask[assigned_obj[j]]
      BY <2>3 DEF Nested
    <3>2. Mask[assigned_obj[j]] \subseteq Mask[Info[j].numa_node]
      BY <1>2, <2>3, ConstantsLemma DEF NodeHonoured, PreferredNode
    <3> QED BY <3>1, <3>2
  <2> QED BY <1>2, <2>1, <2>2, <2>3, Moves
<1> QED BY <1>1, <1>2, Invariance, PTL DEF Spec
-----------------------------------------------------------------------------
(* No irq is on a node that place_irq_in_node may not choose. *)
NodesUsable == \A i \in Irqs :
    assigned_obj[i] \in Range(numa_nodes) => Usable(assigned_obj[i])

LEMMA UsableInvariant == Spec => []NodesUsable
<1>1. Init => NodesUsable
  BY ConstantsLemma DEF Init, NodesUsable
<1>2. ASSUME IInv, NodesUsable, [Next]_vars PROVE NodesUsable'
  <2> SUFFICES ASSUME NEW j \in Irqs, assigned_obj'[j] \in Range(numa_nodes)
               PROVE  Usable(assigned_obj'[j])
    BY DEF NodesUsable, Usable
  <2> DEFINE n == assigned_obj'[j]
  <2>1. n # Null /\ n \in Objs /\ Depth(n) = 0
    BY ConstantsLemma
  <2>2. CASE n = assigned_obj[j]
    BY <1>2, <2>2 DEF NodesUsable
  <2>3. CASE PreferredNode(j) /\ n = Info[j].numa_node
    BY <2>3 DEF PreferredNode, Usable
  <2>4. CASE Eligible(j, n)
    BY <2>1, <2>4 DEF Eligible, Usable
  <2>5. ASSUME assigned_obj[j] \in Objs, NEW k \in DOMAIN Children[assigned_obj[j]],
               n = Children[assigned_obj[j]][k]
        PROVE  FALSE
    <3>1. Depth(n) = Depth(assigned_obj[j]) + 1
      BY <2>5, TreeAssumption DEF IsTree
    <3>2. Depth(assigned_obj[j]) \in 0..3
      BY <2>5, ConstantsLemma
    <3> QED BY <2>1, <3>1, <3>2
  <2> QED BY <1>2, <2>1, <2>2, <2>3, <2>4, <2>5, Moves
<1> QED BY <1>1, <1>2, Invariance, PTL DEF Spec
(* An irq that is told its place is not on a node with banned cpus, unless  *)
(* its hint leaves nothing of the node that may be used.                    *)
LEMMA OffBanned ==
    ASSUME BlankedOut, PackageForAll, IInv, Agree, DInv, NodesUsable, pc = "activate",
           NEW i \in Irqs, assigned_obj[i] # Null, moved[i],
           Subset(i) => SubsetMask(i) \cap unbanned_cpus # {}
    PROVE  Mask[assigned_obj[i]] \cap banned_cpus = {}
<1> DEFINE n == assigned_obj[i]
<1>1. n \in Objs /\ n \in Lists /\ i \in Range(lists[n])
  BY Placed, ConstantsLemma
<1>2. CASE Depth(n) # 0
  BY <1>1, <1>2 DEF BlankedOut
<1>3. CASE Depth(n) = 0 /\ Mask[n] \cap banned_cpus # {}
  <2>1. n \in Range(numa_nodes)
    <3>1. \/ n \in Range(numa_nodes) \/ n \in Range(packages)
          \/ n \in Range(cache_domains) \/ n \in Range(cpus)
      BY <1>1 DEF Objs
    <3> QED BY <1>3, <3>1, TreeAssumption DEF IsTree
  <2>2. Usable(n)
    BY <2>1 DEF NodesUsable
  <2>3. Subset(i) => Info[i].affinity_hint \cap Mask[n] \cap unbanned_cpus # {}
    BY DEF SubsetMask
  <2>4. PICK k \in DOMAIN Children[n] : HintAllows(i, Children[n][k])
    BY <1>3, <2>1, <2>2, <2>3 DEF PackageForAll
  <2> DEFINE c == Children[n][k]
  <2>5. c \in Objs /\ Depth(c) = 1
    BY <1>1, <1>3, ConstantsLemma, TreeAssumption DEF IsTree
  <2>6. Eligible(i, c)
    <3>1. c # Unspecified
      BY <2>5, TreeAssumption DEF IsTree
    <3>2. ~powersave_mode[c]
      BY <2>5, ConstantsLemma DEF IInv, PowersaveLoop
    <3> QED BY <2>4, <2>5, <3>1, <3>2 DEF Eligible
  <2>7. Hungry(i)
    <3>1. Info[i].level # 0 /\ Info[i].level \in 0..3
      BY <1>1, ConstantsLemma
         DEF IInv, ListsConsistent, AllOnLists, OnSomeList, BALANCE_NONE
    <3>2. 0 < Info[i].level
      BY <3>1
    <3> QED BY <1>3, <3>2 DEF Hungry
  <2>8. ~NoneBelow(i)
    BY <2>6 DEF NoneBelow
  <2>9. ~Awaits(i) /\ Steady(n)
    BY <1>3 DEF Awaits, Steady, Placing
  <2> QED BY <2>7, <2>8, <2>9 DEF DInv, Descent
<1> QED BY <1>2, <1>3

(* No banned cpu is ever named to the kernel, whatever the loads and the    *)
(* powersave settings, as long as the masks below the nodes are blanked out *)
(* and every node has a package for every irq.  (What happens without such  *)
(* a package is the run banned_hint.)                                       *)
THEOREM NeverToldBanned ==
    ASSUME BlankedOut, PackageForAll
    PROVE  Spec => NeverToBanned
<1> DEFINE Spares(i) == affinity'[i] # affinity[i] => affinity'[i] \cap banned_cpus = {}
<1>1. ASSUME IInv, Agree, DInv, NodesUsable, [Next]_vars, NEW i \in Irqs PROVE Spares(i)
  <2>1. CASE affinity' = affinity
    BY <2>1
  <2>2. CASE ActivateMapping /\ affinity' # affinity
    <3> DEFINE j == Head(todo_irqs)
    <3>1. /\ moved[j] /\ assigned_obj[j] # Null /\ pc = "activate"
          /\ \E m \in AppliedMasks(j) : affinity' = [affinity EXCEPT ![j] = m]
      BY <2>2 DEF ActivateMapping
    <3>2. PICK m \in AppliedMasks(j) : affinity' = [affinity EXCEPT ![j] = m]
      BY <3>1
    <3>3. affinity'[i] # affinity[i] => i = j /\ affinity'[i] = m
      BY <1>1, <3>2 DEF IInv, TypeOK
    <3>4. ASSUME i = j PROVE m \cap banned_cpus = {}
      <4>1. CASE Exact(i)
        BY <3>2, <3>4, <4>1 DEF AppliedMasks
      <4>2. CASE ~Exact(i) /\ Subset(i)
        <5>1. m = SubsetMask(i) /\ m \cap unbanned_cpus # {}
          BY <3>1, <3>2, <3>4, <4>2 DEF AppliedMasks
        <5>2. Mask[assigned_obj[i]] \cap banned_cpus = {}
          BY <1>1, <3>1, <3>4, <5>1, OffBanned
        <5> QED BY <5>1, <5>2 DEF SubsetMask
      <4>3. CASE ~Exact(i) /\ ~Subset(i)
        <5>1. m = Mask[assigned_obj[i]]
          BY <3>1, <3>2, <3>4, <4>3 DEF AppliedMasks
        <5>2. Mask[assigned_obj[i]] \cap banned_cpus = {}
          BY <1>1, <3>1, <3>4, <4>3, OffBanned
        <5> QED BY <5>1, <5>2
      <4> QED BY <4>1, <4>2, <4>3
    <3> QED BY <3>3, <3>4
  <2>3. ~ActivateMapping => affinity' = affinity
    BY <1>1 DEF Next, ForceRebalanceIrq, Measure, MeasureBroken, Rescan, FindOverloadedObjs,
         MigrateOverloadedIrqs, MoveCandidateIrqs, EndLevel, EnterPowersave, ForceIrqMigration,
         LeavePowersave, CalculatePlacement, PlaceIrqInNode, PlaceIrqInObject,
         FindBestObjectForIrq, PlacementDone, EndCycle, fixedVars, vars
  <2> QED BY <2>1, <2>2, <2>3
<1>2. IInv /\ Agree /\ DInv /\ NodesUsable /\ [Next]_vars => [\A i \in Irqs : Spares(i)]_vars
  BY <1>1
<1> QED BY <1>2, Deepening, UsableInvariant, PTL DEF Spec, NeverToBanned
=============================================================================
