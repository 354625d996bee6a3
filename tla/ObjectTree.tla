----------------------------- MODULE ObjectTree -----------------------------
(***************************************************************************)
(* build_object_tree and free_object_tree (irqbalance.c): the numa nodes   *)
(* and the cpus of CpuTree, then the irqs of IrqDb on top of them, while   *)
(* cpus go up and down throughout; a rescan gives up both.                 *)
(***************************************************************************)
EXTENDS CpuTree

CONSTANTS Irqs, ProcFiles, DeviceLists, Outputs, cl_banned_irqs, module_banned, name_banned,
          global_hint_policy

VARIABLES db_pc, interrupts_db, banned_irqs, info, tmp_irqs, db_todo

dbVars  == <<db_pc, interrupts_db, banned_irqs, info, tmp_irqs, db_todo>>
allVars == <<vars, dbVars>>

Db == INSTANCE IrqDb WITH pc <- db_pc, todo <- db_todo, NoNode <- None

(* What the lines of /proc/interrupts, the files of the devices and the    *)
(* script hold: the kernel puts a device on no node that it does not list. *)
(* (For one that it does not list get_numa_node would give the irq no node *)
(* at all; but as long as numa_available() is -1, as in this build, every  *)
(* irq is on the unspecified node.)                                        *)
IrqList(s) == s \in Seq(ToSet(s)) /\ \A e \in ToSet(s) : e.irq \in Irqs
IsLine(e)  == e.rows \subseteq DOMAIN Db!matches
IsDevice(dev) == /\ dev.irqs \in Seq(Irqs)
                 /\ dev.major \in Nat /\ dev.sub \in Nat
                 /\ dev.numa_node \in NodeIds \cup {-1}

ASSUME DbAssumption ==
    /\ \A lines \in ProcFiles : IrqList(lines) /\ \A e \in ToSet(lines) : IsLine(e)
    /\ \A devices \in DeviceLists : /\ devices \in Seq(ToSet(devices))
                                    /\ \A dev \in ToSet(devices) : IsDevice(dev)
    /\ \A output \in Outputs : output \in Seq(ToSet(output))

ObjInit == Init /\ Db!Init

KernelStep == (\E c \in CpuIds : Hotplug(c)) /\ UNCHANGED dbVars

(* parse_cpu_tree *)
ScanStep == (do_one_cpu \/ ReadSiblings \/ AddCpu \/ ScanDone) /\ UNCHANGED dbVars

(* rebuild_irq_db, when the tree is there *)
DbStep ==
    /\ pc = "built"
    /\ \/ Db!rebuild_irq_db \/ Db!build_one_dev_entry \/ Db!DevicesDone
       \/ Db!add_missing_irq \/ Db!RebuildDone
    /\ UNCHANGED vars

(* Mutant: the irqs are left to rebuild_irq_db. *)
FreeTreeOnly ==
    /\ db_pc \in {"built", "no_bus"} /\ db_pc' = "idle"
    /\ Rescan
    /\ UNCHANGED <<interrupts_db, banned_irqs, info, tmp_irqs, db_todo>>

(* free_object_tree with free_irq_db, and build_object_tree starts again. *)
free_object_tree ==
    /\ db_pc \in {"built", "no_bus"} /\ db_pc' = "idle"
    /\ Rescan
    /\ interrupts_db' = <<>> /\ banned_irqs' = <<>>
    /\ info' = [i \in Irqs |-> Db!Unused]
    /\ tmp_irqs' = <<>> /\ db_todo' = <<>>

ObjNext == KernelStep \/ ScanStep \/ DbStep \/ free_object_tree

ObjSpec == ObjInit /\ [][ObjNext]_allVars
-----------------------------------------------------------------------------
(* The cpus the tree is for, whatever goes up or down while it is built    *)
(* and used: every cpu that is online all the time and not banned is in    *)
(* it; whatever cpu is in it is found from the top, if its node is listed, *)
(* and its load goes up the same way; and no mask below the nodes has a    *)
(* banned cpu: see CpuTree.  A cpu that comes up after its directory was   *)
(* visited is not in this tree: that is noticed later, by the number of    *)
(* columns of /proc/interrupts (OutdatedIsNoticed in Daemon).              *)
TreeCoversCpus == EveryCpuReached /\ EveryCpuFound /\ BannedBlankedOut

(* get_irq_info finds every irq that was listed, or the next parse would   *)
(* ask for a rescan: see IrqDb.                                            *)
AllKnown == Db!AllKnown

(* The administrator is obeyed however often and wherever an irq turns up: *)
(* no banned irq is balanced, and a device irq follows the script: see     *)
(* IrqDb.                                                                  *)
AdminObeyed == Db!BansHonoured /\ Db!PolicyHonoured

(* What Balancer and the proofs about it assume holds whenever it runs,    *)
(* whatever cpus went up or down while the tree and the db were built:     *)
(* the objects form a tree, the irqs to balance are on the db once, and    *)
(* each has a level and a node that is on the list of this tree.  And no   *)
(* irq outlives the tree its node belongs to.                              *)
InputForBalancer ==
    /\ TypeOK /\ Db!TypeOK /\ Db!OneEntry
    /\ db_pc \in {"built", "no_bus"} => TreeForBalancer
    /\ \A i \in Db!Db : /\ pc = "built"
                         /\ info[i].numa_node \in DOMAIN numa_nodes
                         /\ info[i].level \in Db!BALANCE_NONE..Db!BALANCE_CORE
=============================================================================
