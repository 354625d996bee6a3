------------------------------- MODULE Daemon -------------------------------
(***************************************************************************)
(* The main loop of irqbalance (irqbalance.c) between the kernel, which    *)
(* brings cpus and irqs up and down, and the signals: when the daemon      *)
(* notices that its object tree and irq db are out of date, when it scans  *)
(* again, and how it ends.  Balancing itself is one step here (Balancer    *)
(* opens it up).                                                           *)
(***************************************************************************)
EXTENDS Integers, SequencesExt, FiniteSetsExt

CONSTANTS
    Irqs,          \* irq numbers
    IrqOrder,      \* their order in /proc/interrupts
    Cpus,          \* cpu numbers
    pci_bus,       \* /sys/bus/pci/devices can be opened
    device_irqs,   \* irqs of pci devices
    name_banned,   \* irqs without a pci device whose name -n bans
    OneShotModes,  \* the values of one_shot_mode to consider: -o or not
    MaxEvents,     \* bound: hotplug events, irq registrations and SIGHUPs
    MaxCount,      \* bound: how often an irq fires
    MaxCycles      \* bound: cycle_count stops counting here; the code only asks if it is 0

ASSUME DaemonAssumption ==
    /\ IrqOrder \in Seq(Irqs) /\ ToSet(IrqOrder) = Irqs /\ IsInjective(IrqOrder)
    /\ IsFiniteSet(Cpus) /\ Cpus # {}
    /\ pci_bus \in BOOLEAN
    /\ device_irqs \subseteq Irqs
    /\ name_banned \subseteq Irqs \ device_irqs
    /\ OneShotModes \subseteq BOOLEAN
    /\ MaxEvents \in Nat /\ MaxCount \in Nat /\ MaxCycles \in Nat \ {0}

VARIABLES
    pc, one_shot_mode, keep_going, need_rescan, cycle_count,
    known,           \* the irqs get_irq_info finds, in interrupts_db or banned_irqs
    irq_count, last_irq_count,
    core_count,      \* the online cpus the last scan counted
    online, present, count,  \* the kernel: cpus up, irqs registered, their totals
    events,          \* events so far
    changed,         \* the kernel or a SIGHUP gave a reason to scan since the last scan
    hup_owed,        \* an accepted SIGHUP has not been followed by a scan
    seen             \* what the last complete look at /proc/interrupts showed

dbVars     == <<known, irq_count, last_irq_count>>
kernelVars == <<online, present, count>>
flags      == <<one_shot_mode, keep_going, need_rescan, cycle_count>>
vars == <<pc, one_shot_mode, keep_going, need_rescan, cycle_count, known, irq_count, last_irq_count,
          core_count, online, present, count, events, changed, hup_owed, seen>>

Nothing == [online |-> {}, present |-> {}]

(* Signals are blocked until the handlers are installed. *)
Booting == pc \in {"boot_tree", "boot_db", "boot_check"}
Done    == pc = "done"

Init ==
    /\ pc = "boot_tree"
    /\ one_shot_mode \in OneShotModes
    /\ keep_going = TRUE /\ need_rescan = FALSE /\ cycle_count = 0
    /\ known = {}
    /\ irq_count = [i \in Irqs |-> 0] /\ last_irq_count = [i \in Irqs |-> 0]
    /\ core_count = 0
    /\ online = Cpus
    /\ present \in SUBSET Irqs
    /\ count = [i \in Irqs |-> 0]
    /\ events = 0 /\ changed = FALSE /\ hup_owed = FALSE /\ seen = Nothing

-----------------------------------------------------------------------------
(* The kernel. *)
Event ==
    /\ ~Done
    /\ events < MaxEvents
    /\ events' = events + 1
    /\ changed' = TRUE

CpuUp(c) ==
    /\ Event /\ c \notin online
    /\ online' = online \cup {c}
    /\ UNCHANGED <<pc, flags, dbVars, core_count, present, count, hup_owed, seen>>

CpuDown(c) ==
    /\ Event /\ c \in online /\ online # {c}
    /\ online' = online \ {c}
    /\ UNCHANGED <<pc, flags, dbVars, core_count, present, count, hup_owed, seen>>

IrqRegistered(i) ==
    /\ Event /\ i \notin present
    /\ present' = present \cup {i}
    /\ count' = [count EXCEPT ![i] = 0]
    /\ UNCHANGED <<pc, flags, dbVars, core_count, online, hup_owed, seen>>

IrqFreed(i) ==
    /\ Event /\ i \in present
    /\ present' = present \ {i}
    /\ UNCHANGED <<pc, flags, dbVars, core_count, online, count, hup_owed, seen>>

IrqFires(i) ==
    /\ ~Done /\ i \in present /\ count[i] < MaxCount
    /\ count' = [count EXCEPT ![i] = @ + 1]
    /\ UNCHANGED <<pc, flags, dbVars, core_count, online, present, events, changed, hup_owed, seen>>

(* SIGINT, SIGTERM, SIGUSR1 and SIGUSR2 *)
handler ==
    /\ ~Booting /\ ~Done /\ keep_going
    /\ keep_going' = FALSE
    /\ UNCHANGED <<pc, one_shot_mode, need_rescan, cycle_count, dbVars, core_count, kernelVars,
                   events, changed, hup_owed, seen>>

(* SIGHUP: ignored as long as no cycle has been completed since the scan.  *)
force_rescan ==
    /\ ~Booting /\ cycle_count > 0
    /\ Event
    /\ need_rescan' = TRUE
    /\ hup_owed' = TRUE
    /\ UNCHANGED <<pc, one_shot_mode, keep_going, cycle_count, dbVars, core_count, kernelVars, seen>>

-----------------------------------------------------------------------------
(* Mutant: clear_cpu_tree does not reset the counter. *)
CountedOnTop == core_count + Cardinality(online)

(* do_one_cpu counts every online cpu, banned ones as well. *)
CountedCores == Cardinality(online)

(* build_numa_node_list and parse_cpu_tree. *)
BuildTree ==
    /\ pc \in {"boot_tree", "tree"}
    /\ core_count' = CountedCores
    /\ seen' = Nothing
    /\ changed' = need_rescan
    /\ hup_owed' = FALSE
    /\ pc' = IF pc = "tree" THEN "db" ELSE "boot_db"
    /\ UNCHANGED <<flags, dbVars, kernelVars, events>>

(* Mutant: free_irq_db keeps the entries. *)
OldCounts == irq_count

(* The entries are freed and allocated again, zeroed. *)
FreshCounts == [i \in Irqs |-> 0]

(* rebuild_irq_db: the irqs of the devices and the ones of /proc/interrupts *)
(* end up in one of the two lists, except that an irq banned by its name is *)
(* in neither; without the bus nothing is added at all.                     *)
RebuildIrqDb ==
    /\ pc \in {"boot_db", "db"}
    /\ known' = IF pci_bus THEN (present \ name_banned) \cup device_irqs ELSE {}
    /\ irq_count' = FreshCounts
    /\ last_irq_count' = FreshCounts
    /\ pc' = IF pc = "db" THEN "parse_new" ELSE "boot_check"
    /\ UNCHANGED <<flags, core_count, kernelVars, events, changed, hup_owed, seen>>

(* "On single core UP systems irqbalance obviously has no work to do" *)
CheckCores ==
    /\ pc = "boot_check"
    /\ pc' = IF core_count < 2 THEN "done" ELSE "parse_boot"
    /\ UNCHANGED <<flags, dbVars, core_count, kernelVars, events, changed, hup_owed, seen>>

(* The lines of /proc/interrupts that name an irq, and the ones that make  *)
(* parse_proc_interrupts ask for a rescan and stop reading.                *)
ProcInterrupts == {k \in DOMAIN IrqOrder : IrqOrder[k] \in present}

(* Mutants: a check is left out. *)
BadUnlessReset(i) == i \notin known \/ Cardinality(online) # core_count
BadUnlessHotplug(i) == i \notin known \/ count[i] < irq_count[i]

BadLine(i) == \/ i \notin known
              \/ Cardinality(online) # core_count
              \/ count[i] < irq_count[i]

AfterParse == [parse_boot |-> "loop", parse |-> "check",
               parse_new |-> "parse_again", parse_again |-> "balance"]

(* Mutant: a flag that a signal has set is overwritten. *)
OnlyFromLines(bad) == bad # {}

(* The flag is only ever set here. *)
NeedRescan(bad) == need_rescan \/ bad # {}

(* The lines before the first bad one are taken over. *)
parse_proc_interrupts ==
    /\ pc \in DOMAIN AfterParse
    /\ LET bad  == {k \in ProcInterrupts : BadLine(IrqOrder[k])}
           read == {IrqOrder[k] : k \in {j \in ProcInterrupts : \A b \in bad : j < b}}
       IN  /\ need_rescan' = NeedRescan(bad)
           /\ last_irq_count' = [i \in Irqs |-> IF i \in read THEN irq_count[i]
                                                ELSE last_irq_count[i]]
           /\ irq_count' = [i \in Irqs |-> IF i \in read THEN count[i] ELSE irq_count[i]]
    /\ seen' = [online |-> online, present |-> present]
    /\ pc' = AfterParse[pc]
    /\ UNCHANGED <<one_shot_mode, keep_going, cycle_count, known, core_count, kernelVars, events, changed, hup_owed>>

(* /proc/interrupts does not open: the counts stay as they are. *)
ProcUnreadable ==
    /\ pc \in DOMAIN AfterParse
    /\ pc' = AfterParse[pc]
    /\ UNCHANGED <<flags, dbVars, core_count, kernelVars, events, changed, hup_owed, seen>>

(* Mutant: the flag is not looked at again. *)
LoopForEver ==
    /\ pc = "loop"
    /\ pc' = "parse"
    /\ UNCHANGED <<flags, dbVars, core_count, kernelVars, events, changed, hup_owed, seen>>

(* while (keep_going) and the sleep: everything may happen in the sleep. *)
Loop ==
    /\ pc = "loop"
    /\ pc' = IF keep_going THEN "parse" ELSE "done"
    /\ UNCHANGED <<flags, dbVars, core_count, kernelVars, events, changed, hup_owed, seen>>

(* if (need_rescan) need_rescan = 0; *)
CheckRescan ==
    /\ pc = "check"
    /\ need_rescan' = FALSE
    /\ pc' = IF need_rescan THEN "zero" ELSE "balance"
    /\ UNCHANGED <<one_shot_mode, keep_going, cycle_count, dbVars, core_count, kernelVars, events, changed,
                   hup_owed, seen>>

(* cycle_count = 0; a SIGHUP from here on is ignored. *)
ResetCycles ==
    /\ pc = "zero"
    /\ cycle_count' = 0
    /\ pc' = "tree"
    /\ UNCHANGED <<one_shot_mode, keep_going, need_rescan, dbVars, core_count, kernelVars, events, changed,
                   hup_owed, seen>>

(* update_migration_status unless the tree is new, calculate_placement and *)
(* activate_mappings.                                                      *)
Balance ==
    /\ pc = "balance"
    /\ keep_going' = (keep_going /\ ~one_shot_mode)
    /\ cycle_count' = IF cycle_count < MaxCycles THEN cycle_count + 1 ELSE cycle_count
    /\ pc' = "loop"
    /\ UNCHANGED <<one_shot_mode, need_rescan, dbVars, core_count, kernelVars, events, changed, hup_owed, seen>>

Finished == Done /\ UNCHANGED vars

DaemonStep ==
    \/ BuildTree \/ RebuildIrqDb \/ CheckCores \/ parse_proc_interrupts \/ ProcUnreadable
    \/ Loop \/ CheckRescan \/ ResetCycles \/ Balance

Kernel ==
    \/ \E c \in Cpus : CpuUp(c) \/ CpuDown(c)
    \/ \E i \in Irqs : IrqRegistered(i) \/ IrqFreed(i) \/ IrqFires(i)

Next == DaemonStep \/ Kernel \/ handler \/ force_rescan \/ Finished

Spec == Init /\ [][Next]_vars

(* The kernel keeps scheduling the daemon and wakes it up from its sleep;  *)
(* nobody has to send a signal or change the hardware.                     *)
FairSpec == Spec /\ WF_vars(DaemonStep)
-----------------------------------------------------------------------------
(* Types: every flag is a flag, every counter within its bound. *)
TypeOK ==
    /\ pc \in {"boot_tree", "boot_db", "boot_check", "loop", "check", "zero", "tree", "db",
               "balance", "done"} \cup DOMAIN AfterParse
    /\ {one_shot_mode, keep_going, need_rescan, changed, hup_owed} \subseteq BOOLEAN
    /\ cycle_count \in 0..MaxCycles
    /\ known \subseteq Irqs /\ present \subseteq Irqs
    /\ {irq_count, last_irq_count, count} \subseteq [Irqs -> 0..MaxCount]
    /\ core_count \in 0..Cardinality(Cpus)
    /\ online \subseteq Cpus
    /\ events \in 0..MaxEvents
    /\ seen \in [online : SUBSET Cpus, present : SUBSET Irqs]

(* An irq that is removed and registered again starts to count from 0; the *)
(* unsigned difference irq_count - last_irq_count that accumulate_irq_count *)
(* and assign_load_slice take never wraps all the same.                    *)
NoCountUnderflow == \A i \in Irqs : last_irq_count[i] <= irq_count[i]

(* Whatever comes and goes, before, during and after a scan: the daemon    *)
(* balances with a tree of the wrong size or a db that lacks an irq of     *)
(* /proc/interrupts only if the next cycle will scan.                      *)
OutdatedIsNoticed ==
    pc = "balance" /\ ~need_rescan =>
        /\ seen.present \subseteq known
        /\ seen.present # {} => Cardinality(seen.online) = core_count

(* A scan is never asked for without a reason: a hardware change or a      *)
(* SIGHUP after the last one began.                                        *)
RescanHasReason == need_rescan => changed

(* An accepted SIGHUP leads to a scan that starts after it, or the daemon  *)
(* ends.  need_rescan is cleared before the scan, so that a SIGHUP in the  *)
(* middle is not lost.                                                     *)
HupServed == hup_owed ~> (~hup_owed \/ Done)

(* A signal to stop ends the daemon, wherever it arrives, and with -o the  *)
(* daemon ends by itself, even if its one cycle has to scan again.         *)
StopsOnSignal == (~keep_going \/ one_shot_mode) ~> Done

(* Once the hardware and the user leave it alone the daemon finds back to  *)
(* cycles that migrate irqs by load: scanning comes to an end.             *)
BalancingResumes == []<>(pc = "balance" /\ cycle_count > 0) \/ <>Done
=============================================================================
