---------------------------- MODULE DaemonProofs ----------------------------
(***************************************************************************)
(* Theorems about Daemon for any number of cpus, irqs and events.          *)
(***************************************************************************)
EXTENDS Daemon, FiniteSetTheorems, TLAPS

(* What the counters need: the kernel's totals are numbers, and so are the *)
(* ones the daemon has read.                                               *)
Counters ==
    /\ count \in [Irqs -> Nat]
    /\ irq_count \in [Irqs -> Nat]
    /\ last_irq_count \in [Irqs -> Nat]
    /\ NoCountUnderflow

(* As long as nothing has changed since the scan began, what the daemon    *)
(* has built so far is what the kernel shows.  While a rescan is under way *)
(* but has not begun to read, something has changed.                       *)
TreeFits == core_count = Cardinality(online)
DbFits   == /\ present \subseteq known
            /\ \A i \in present : irq_count[i] <= count[i]

InStep ==
    /\ need_rescan \in BOOLEAN /\ changed \in BOOLEAN /\ present \subseteq Irqs
    /\ RescanHasReason
    /\ pc \in {"zero", "tree"} => changed
    /\ ~changed /\ pc # "boot_tree" => TreeFits
    /\ ~changed /\ pc \notin {"boot_tree", "boot_db", "db"} => DbFits

-----------------------------------------------------------------------------
(* A parse takes over a line only if its total has not gone down. *)
LEMMA ParseKeepsCounters ==
    ASSUME Counters, parse_proc_interrupts
    PROVE  Counters'
<1> DEFINE bad  == {k \in ProcInterrupts : BadLine(IrqOrder[k])}
           read == {IrqOrder[k] : k \in {j \in ProcInterrupts : \A b \in bad : j < b}}
<1>1. /\ last_irq_count' = [i \in Irqs |-> IF i \in read THEN irq_count[i] ELSE last_irq_count[i]]
      /\ irq_count' = [i \in Irqs |-> IF i \in read THEN count[i] ELSE irq_count[i]]
      /\ count' = count
  BY DEF parse_proc_interrupts, NeedRescan, kernelVars
<1>2. ASSUME NEW i \in read PROVE ~BadLine(i)
  <2>1. PICK k \in ProcInterrupts : IrqOrder[k] = i /\ \A b \in bad : k < b
    OBVIOUS
  <2>2. k \in Nat
    BY DaemonAssumption DEF ProcInterrupts
  <2>3. k \notin bad
    BY <2>1, <2>2
  <2> QED BY <2>1, <2>3
<1>3. \A i \in Irqs : i \in read => irq_count[i] <= count[i]
  BY <1>2 DEF BadLine, Counters
<1> HIDE DEF read
<1> QED BY <1>1, <1>3 DEF Counters, NoCountUnderflow

(* Every step keeps the counters. *)
LEMMA CountersStep == Counters /\ [Next]_vars => Counters'
<1> SUFFICES ASSUME Counters, [Next]_vars PROVE Counters'
  OBVIOUS
<1>1. CASE parse_proc_interrupts
  BY <1>1, ParseKeepsCounters
<1>2. CASE RebuildIrqDb
  BY <1>2 DEF RebuildIrqDb, FreshCounts, Counters, NoCountUnderflow, kernelVars
<1>3. CASE Kernel
  BY <1>3 DEF Kernel, CpuUp, CpuDown, IrqRegistered, IrqFreed, IrqFires, Counters,
              NoCountUnderflow, dbVars
<1>4. CASE \/ BuildTree \/ CheckCores \/ ProcUnreadable \/ Loop \/ CheckRescan \/ ResetCycles \/ Balance
           \/ handler \/ force_rescan \/ Finished \/ UNCHANGED vars
  BY <1>4 DEF BuildTree, CheckCores, ProcUnreadable, Loop, CheckRescan, ResetCycles, Balance, handler,
              force_rescan, Finished, Counters, NoCountUnderflow, dbVars, kernelVars, vars
<1> QED BY <1>1, <1>2, <1>3, <1>4 DEF Next, DaemonStep

(* The unsigned differences of the counters never wrap, although an irq    *)
(* that is freed and registered again counts from 0.                       *)
THEOREM CountsNeverUnderflow == Spec => []NoCountUnderflow
<1>1. Init => Counters
  BY DEF Init, Counters, NoCountUnderflow
<1>2. Counters => NoCountUnderflow
  BY DEF Counters
<1> QED BY <1>1, <1>2, CountersStep, PTL DEF Spec

-----------------------------------------------------------------------------
(* What the kernel and the signals do keeps InStep: they leave a reason,   *)
(* or only count up.                                                       *)
LEMMA InStepKernel ==
    ASSUME Counters, InStep, Kernel \/ handler \/ force_rescan
    PROVE  InStep'
<1>1. CASE changed'
  BY <1>1 DEF Kernel, CpuUp, CpuDown, IrqRegistered, IrqFreed, IrqFires, handler, force_rescan,
              Event, InStep, RescanHasReason, flags, kernelVars
<1>2. CASE ~changed'
  <2>1. \/ \E i \in Irqs : IrqFires(i)
        \/ handler
    BY <1>2 DEF Kernel, CpuUp, CpuDown, IrqRegistered, IrqFreed, force_rescan, Event
  <2>2. ASSUME NEW i \in Irqs, IrqFires(i) PROVE InStep'
    BY <2>2 DEF IrqFires, InStep, RescanHasReason, TreeFits, DbFits, Counters, flags, dbVars
  <2>3. CASE handler
    BY <2>3 DEF handler, InStep, RescanHasReason, TreeFits, DbFits, dbVars, kernelVars
  <2> QED BY <2>1, <2>2, <2>3
<1> QED BY <1>1, <1>2 DEF InStep

(* A parse of a db and a tree that fit finds no bad line. *)
LEMMA InStepParse ==
    ASSUME Counters, InStep, parse_proc_interrupts
    PROVE  InStep'
<1> DEFINE bad  == {k \in ProcInterrupts : BadLine(IrqOrder[k])}
           read == {IrqOrder[k] : k \in {j \in ProcInterrupts : \A b \in bad : j < b}}
<1>1. /\ need_rescan' = (need_rescan \/ bad # {})
      /\ irq_count' = [i \in Irqs |-> IF i \in read THEN count[i] ELSE irq_count[i]]
      /\ UNCHANGED <<changed, known, core_count, online, present, count>>
      /\ pc \in {"parse_boot", "parse", "parse_new", "parse_again"}
      /\ pc' \in {"loop", "check", "parse_again", "balance"}
  BY DEF parse_proc_interrupts, NeedRescan, AfterParse, kernelVars
<1>2. \A k \in ProcInterrupts : IrqOrder[k] \in present
  BY DEF ProcInterrupts
<1>3. ~changed => bad = {}
  BY <1>1, <1>2 DEF InStep, TreeFits, DbFits, BadLine, Counters
<1>4. ~changed => DbFits' /\ TreeFits'
  <2> HIDE DEF read
  <2> QED BY <1>1 DEF InStep, TreeFits, DbFits, Counters
<1> HIDE DEF bad
<1> QED BY <1>1, <1>3, <1>4 DEF InStep, RescanHasReason

(* The other steps of the daemon. *)
LEMMA InStepDaemon ==
    ASSUME Counters, InStep, pci_bus, name_banned = {},
           \/ BuildTree \/ RebuildIrqDb \/ CheckCores \/ ProcUnreadable \/ Loop \/ CheckRescan
           \/ ResetCycles \/ Balance \/ Finished \/ UNCHANGED vars
    PROVE  InStep'
<1>1. CASE BuildTree
  BY <1>1 DEF BuildTree, CountedCores, InStep, RescanHasReason, TreeFits, DbFits, flags, dbVars, kernelVars
<1>2. CASE RebuildIrqDb
  BY <1>2 DEF RebuildIrqDb, FreshCounts, InStep, RescanHasReason, TreeFits, DbFits, Counters,
              flags, kernelVars
<1>3. CASE CheckRescan
  BY <1>3 DEF CheckRescan, InStep, RescanHasReason, TreeFits, DbFits, dbVars, kernelVars
<1>4. CASE ProcUnreadable
  BY <1>4 DEF ProcUnreadable, AfterParse, InStep, RescanHasReason, TreeFits, DbFits, flags, dbVars,
              kernelVars
<1>5. CASE CheckCores \/ Loop \/ ResetCycles \/ Balance \/ Finished \/ UNCHANGED vars
  BY <1>5 DEF CheckCores, Loop, ResetCycles, Balance, Finished, vars, InStep, RescanHasReason,
              TreeFits, DbFits, flags, dbVars, kernelVars
<1> QED BY <1>1, <1>2, <1>3, <1>4, <1>5

(* With a pci bus, and unless irqs are banned by name, a rescan always     *)
(* answers a change of the hardware or a SIGHUP: the daemon never scans    *)
(* because of its own scan.                                                *)
THEOREM ScansHaveReasons ==
    ASSUME pci_bus, name_banned = {}
    PROVE  Spec => []RescanHasReason
<1>1. Init => Counters /\ InStep
  <2> SUFFICES ASSUME Init PROVE Counters /\ InStep
    OBVIOUS
  <2>1. Counters
    BY DEF Init, Counters, NoCountUnderflow
  <2>2. InStep
    BY DEF Init, InStep, RescanHasReason
  <2> QED BY <2>1, <2>2
<1>2. Counters /\ InStep /\ [Next]_vars => Counters' /\ InStep'
  BY CountersStep, InStepKernel, InStepParse, InStepDaemon DEF Next, DaemonStep
<1>3. InStep => RescanHasReason
  BY DEF InStep
<1> QED BY <1>1, <1>2, <1>3, PTL DEF Spec

-----------------------------------------------------------------------------
(* The type invariant, one conjunct per variable. *)
Types ==
    /\ pc \in {"boot_tree", "boot_db", "boot_check", "loop", "check", "zero", "tree", "db", "balance",
               "done", "parse_boot", "parse", "parse_new", "parse_again"}
    /\ one_shot_mode \in BOOLEAN /\ keep_going \in BOOLEAN /\ need_rescan \in BOOLEAN
    /\ changed \in BOOLEAN /\ hup_owed \in BOOLEAN
    /\ cycle_count \in 0..MaxCycles
    /\ known \subseteq Irqs /\ present \subseteq Irqs
    /\ irq_count \in [Irqs -> 0..MaxCount] /\ last_irq_count \in [Irqs -> 0..MaxCount]
    /\ count \in [Irqs -> 0..MaxCount]
    /\ core_count \in 0..Cardinality(Cpus)
    /\ online \subseteq Cpus
    /\ events \in 0..MaxEvents
    /\ seen \in [online : SUBSET Cpus, present : SUBSET Irqs]

LEMMA TypesAreTypeOK == Types => TypeOK
<1> SUFFICES ASSUME Types PROVE TypeOK
  OBVIOUS
<1>1. DOMAIN AfterParse = {"parse_boot", "parse", "parse_new", "parse_again"}
  BY DEF AfterParse
<1>2. pc \in {"boot_tree", "boot_db", "boot_check", "loop", "check", "zero", "tree", "db",
               "balance", "done"} \cup DOMAIN AfterParse
  BY <1>1 DEF Types
<1> HIDE <1>1
<1> QED BY <1>2 DEF Types, TypeOK

(* A scan counts no more cpus than there are. *)
LEMMA CoresCounted ==
    ASSUME NEW S \in SUBSET Cpus
    PROVE  Cardinality(S) \in 0..Cardinality(Cpus)
<1>1. IsFiniteSet(Cpus)
  BY DaemonAssumption
<1>2. Cardinality(S) \in Nat /\ Cardinality(Cpus) \in Nat /\ Cardinality(S) <= Cardinality(Cpus)
  BY <1>1, FS_Subset, FS_CardinalityType
<1> QED BY <1>2

(* The parse takes over counts within their bound, line by line. *)
LEMMA TypesParse == Types /\ (parse_proc_interrupts \/ ProcUnreadable) => Types'
<1> SUFFICES ASSUME Types, parse_proc_interrupts \/ ProcUnreadable PROVE Types'
  OBVIOUS
<1> DEFINE bad  == {k \in ProcInterrupts : BadLine(IrqOrder[k])}
           read == {IrqOrder[k] : k \in {j \in ProcInterrupts : \A b \in bad : j < b}}
<1>1. pc' \in {"loop", "check", "parse_again", "balance"}
  BY DEF parse_proc_interrupts, ProcUnreadable, AfterParse
<1>2. CASE ProcUnreadable
  BY <1>1, <1>2 DEF ProcUnreadable, Types, flags, dbVars, kernelVars
<1>3. CASE parse_proc_interrupts
  <2>1. /\ need_rescan' \in BOOLEAN
        /\ last_irq_count' = [i \in Irqs |-> IF i \in read THEN irq_count[i] ELSE last_irq_count[i]]
        /\ irq_count' = [i \in Irqs |-> IF i \in read THEN count[i] ELSE irq_count[i]]
        /\ seen' = [online |-> online, present |-> present]
        /\ UNCHANGED <<one_shot_mode, keep_going, cycle_count, known, core_count, online, present, count,
                       events, changed, hup_owed>>
    BY <1>3 DEF parse_proc_interrupts, NeedRescan, kernelVars
  <2> HIDE DEF read
  <2>2. /\ last_irq_count' \in [Irqs -> 0..MaxCount] /\ irq_count' \in [Irqs -> 0..MaxCount]
        /\ seen' \in [online : SUBSET Cpus, present : SUBSET Irqs]
    BY <2>1 DEF Types
  <2> QED BY <1>1, <2>1, <2>2 DEF Types
<1> QED BY <1>2, <1>3

LEMMA TypesStep == Types /\ [Next]_vars => Types'
<1> SUFFICES ASSUME Types, [Next]_vars PROVE Types'
  OBVIOUS
<1> MaxEvents \in Nat /\ MaxCount \in Nat /\ MaxCycles \in Nat \ {0}
  BY DaemonAssumption
<1>1. CASE BuildTree
  <2>1. core_count' \in 0..Cardinality(Cpus)
    BY <1>1, CoresCounted DEF BuildTree, CountedCores, Types
  <2>2. seen' \in [online : SUBSET Cpus, present : SUBSET Irqs]
    BY <1>1 DEF BuildTree, Nothing
  <2> QED BY <1>1, <2>1, <2>2 DEF BuildTree, Types, flags, dbVars, kernelVars
<1>2. CASE RebuildIrqDb
  <2>1. known' \subseteq Irqs
    BY <1>2, DaemonAssumption DEF RebuildIrqDb, Types
  <2>2. irq_count' \in [Irqs -> 0..MaxCount] /\ last_irq_count' \in [Irqs -> 0..MaxCount]
    BY <1>2 DEF RebuildIrqDb, FreshCounts
  <2> QED BY <1>2, <2>1, <2>2 DEF RebuildIrqDb, Types, flags, kernelVars
<1>3. CASE parse_proc_interrupts \/ ProcUnreadable
  BY <1>3, TypesParse
<1>4. CASE CheckCores \/ Loop \/ ResetCycles
  BY <1>4 DEF CheckCores, Loop, ResetCycles, Types, flags, dbVars, kernelVars
<1>5. CASE CheckRescan
  BY <1>5 DEF CheckRescan, Types, flags, dbVars, kernelVars
<1>6. CASE Balance
  <2>1. keep_going' \in BOOLEAN /\ cycle_count' \in 0..MaxCycles
    BY <1>6 DEF Balance, Types
  <2> QED BY <1>6, <2>1 DEF Balance, Types, dbVars, kernelVars
<1>7. ASSUME NEW c \in Cpus, CpuUp(c) \/ CpuDown(c) PROVE Types'
  <2>1. events' \in 0..MaxEvents /\ online' \subseteq Cpus
    BY <1>7 DEF CpuUp, CpuDown, Event, Types
  <2> QED BY <1>7, <2>1 DEF CpuUp, CpuDown, Event, Types, flags, dbVars
<1>8. ASSUME NEW i \in Irqs, IrqRegistered(i) \/ IrqFreed(i) PROVE Types'
  <2>1. events' \in 0..MaxEvents /\ present' \subseteq Irqs
    BY <1>8 DEF IrqRegistered, IrqFreed, Event, Types
  <2>2. count' \in [Irqs -> 0..MaxCount]
    BY <1>8 DEF IrqRegistered, IrqFreed, Types
  <2> QED BY <1>8, <2>1, <2>2 DEF IrqRegistered, IrqFreed, Event, Types, flags, dbVars
<1>9. ASSUME NEW i \in Irqs, IrqFires(i) PROVE Types'
  <2>1. count' \in [Irqs -> 0..MaxCount]
    BY <1>9 DEF IrqFires, Types
  <2> QED BY <1>9, <2>1 DEF IrqFires, Types, flags, dbVars
<1>10. CASE handler \/ force_rescan
  <2>1. events' \in 0..MaxEvents
    BY <1>10 DEF handler, force_rescan, Event, Types
  <2> QED BY <1>10, <2>1 DEF handler, force_rescan, Event, Types, flags, dbVars, kernelVars
<1>11. CASE Finished \/ UNCHANGED vars
  BY <1>11 DEF Finished, Types, vars
<1> QED BY <1>1, <1>2, <1>3, <1>4, <1>5, <1>6, <1>7, <1>8, <1>9, <1>10, <1>11 DEF Next, DaemonStep, Kernel

LEMMA TypesInit == Init => Types
<1> SUFFICES ASSUME Init PROVE Types
  OBVIOUS
<1>1. one_shot_mode \in BOOLEAN
  BY DaemonAssumption DEF Init
<1>2. 0 \in 0..Cardinality(Cpus)
  BY CoresCounted, FS_EmptySet
<1>3. MaxEvents \in Nat /\ MaxCount \in Nat /\ MaxCycles \in Nat
  BY DaemonAssumption
<1>4. seen \in [online : SUBSET Cpus, present : SUBSET Irqs]
  BY DEF Init, Nothing
<1>5. /\ irq_count \in [Irqs -> 0..MaxCount] /\ last_irq_count \in [Irqs -> 0..MaxCount]
      /\ count \in [Irqs -> 0..MaxCount]
  BY <1>3 DEF Init
<1>6. cycle_count \in 0..MaxCycles /\ events \in 0..MaxEvents /\ core_count \in 0..Cardinality(Cpus)
  BY <1>2, <1>3 DEF Init
<1> QED BY <1>1, <1>4, <1>5, <1>6 DEF Init, Types

(* Every flag stays a flag and every counter within its bound: the count   *)
(* of cycles saturates, and core_count never exceeds the cpus there are,   *)
(* however often the tree is scanned.                                      *)
THEOREM DaemonTypeCorrect == Spec => []TypeOK
BY TypesInit, TypesStep, TypesAreTypeOK, PTL DEF Spec

-----------------------------------------------------------------------------
(* What the daemon saw last fits the tree and the db it has. *)
SeenFits ==
    /\ seen.present \subseteq known
    /\ seen.present # {} => Cardinality(seen.online) = core_count

(* Only the way from a set flag to the new tree is taken with a tree that  *)
(* is known not to fit; until the db is there nothing has been seen yet.   *)
Noticed ==
    /\ pc \notin {"zero", "tree"} /\ ~need_rescan => SeenFits
    /\ pc \in {"boot_tree", "boot_db", "db"} => seen = Nothing

(* A parse that asks for no rescan has found every irq known and as many   *)
(* columns as cpus were counted.                                           *)
LEMMA NoticedParse == Types /\ Noticed /\ parse_proc_interrupts => Noticed'
<1> SUFFICES ASSUME Types, Noticed, parse_proc_interrupts PROVE Noticed'
  OBVIOUS
<1> DEFINE bad == {k \in ProcInterrupts : BadLine(IrqOrder[k])}
<1>1. /\ need_rescan' = (need_rescan \/ bad # {})
      /\ seen' = [online |-> online, present |-> present]
      /\ known' = known /\ core_count' = core_count
      /\ pc' \in {"loop", "check", "parse_again", "balance"}
  BY DEF parse_proc_interrupts, NeedRescan, AfterParse
<1>2. \A i \in present : \E k \in ProcInterrupts : IrqOrder[k] = i
  <2> SUFFICES ASSUME NEW i \in present PROVE \E k \in ProcInterrupts : IrqOrder[k] = i
    OBVIOUS
  <2>1. i \in ToSet(IrqOrder)
    BY DaemonAssumption DEF Types
  <2>2. PICK k \in DOMAIN IrqOrder : IrqOrder[k] = i
    BY <2>1 DEF ToSet
  <2> QED BY <2>2 DEF ProcInterrupts
<1>3. ASSUME bad = {}, NEW i \in present PROVE i \in known /\ Cardinality(online) = core_count
  <2>1. PICK k \in ProcInterrupts : IrqOrder[k] = i
    BY <1>2
  <2>2. ~BadLine(i)
    BY <1>3, <2>1
  <2> QED BY <2>2 DEF BadLine
<1> HIDE DEF bad
<1>4. ~need_rescan' => SeenFits'
  BY <1>1, <1>3 DEF SeenFits
<1> QED BY <1>1, <1>4 DEF Noticed

LEMMA NoticedStep == Types /\ Noticed /\ [Next]_vars => Noticed'
<1> SUFFICES ASSUME Types, Noticed, [Next]_vars PROVE Noticed'
  OBVIOUS
<1>1. CASE BuildTree
  BY <1>1 DEF BuildTree, Noticed, SeenFits, Nothing, flags, dbVars
<1>2. CASE RebuildIrqDb
  BY <1>2 DEF RebuildIrqDb, Noticed, SeenFits, Nothing, flags
<1>3. CASE parse_proc_interrupts
  BY <1>3, NoticedParse
<1>4. CASE ProcUnreadable
  BY <1>4 DEF ProcUnreadable, AfterParse, Noticed, SeenFits, flags, dbVars
<1>5. CASE CheckRescan
  BY <1>5 DEF CheckRescan, Noticed, SeenFits, dbVars
<1>6. CASE CheckCores \/ Loop \/ ResetCycles \/ Balance
  BY <1>6 DEF CheckCores, Loop, ResetCycles, Balance, Noticed, SeenFits, flags, dbVars
<1>7. CASE Kernel
  BY <1>7 DEF Kernel, CpuUp, CpuDown, IrqRegistered, IrqFreed, IrqFires, Noticed, SeenFits, flags, dbVars
<1>8. CASE handler \/ force_rescan \/ Finished \/ UNCHANGED vars
  BY <1>8 DEF handler, force_rescan, Finished, Noticed, SeenFits, flags, dbVars, vars, Booting
<1> QED BY <1>1, <1>2, <1>3, <1>4, <1>5, <1>6, <1>7, <1>8 DEF Next, DaemonStep

(* Whatever comes and goes, and whenever /proc/interrupts cannot be read:  *)
(* the daemon balances with a tree or a db it has seen not to fit only if  *)
(* the next cycle will scan.                                               *)
THEOREM OutdatedIsAlwaysNoticed == Spec => []OutdatedIsNoticed
<1>1. Init => Noticed
  BY DEF Init, Noticed, SeenFits, Nothing
<1>2. Noticed => OutdatedIsNoticed
  BY DEF Noticed, SeenFits, OutdatedIsNoticed
<1> QED BY <1>1, <1>2, NoticedStep, TypesInit, TypesStep, PTL DEF Spec
=============================================================================
