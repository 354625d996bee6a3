-------------------------------- MODULE IrqDb --------------------------------
(***************************************************************************)
(* The irq database of irqbalance (classify.c): rebuild_irq_db collects    *)
(* the irqs of /proc/interrupts, walks the pci devices in sysfs, asks the  *)
(* user's policy script about every irq, drops the banned ones, and then   *)
(* adds the irqs no device claimed.  One action is one irq.                *)
(***************************************************************************)
EXTENDS Integers, SequencesExt

CONSTANTS
    Irqs,              \* irq numbers
    ProcFiles,         \* what /proc/interrupts may hold: lists of [irq, rows, found, virt]
    DeviceLists,       \* what the pci bus may hold: lists of devices
    Outputs,           \* what the policy script may print: lists of [key, value]
    cl_banned_irqs,    \* -i
    module_banned,     \* the irqs whose module -m bans
    name_banned,       \* the irqs whose name -n bans
    global_hint_policy,\* -h
    numa_avail,        \* numa_available() > -1
    NodeIds,           \* the numa nodes the tree has
    NoNode             \* the NULL pointer

(* types.h *)
BALANCE_NONE    == 0
BALANCE_PACKAGE == 1
BALANCE_CACHE   == 2
BALANCE_CORE    == 3
IRQ_NODEF  == -1
IRQ_OTHER  == 0
IRQ_LEGACY == 1
IRQ_SCSI   == 2
IRQ_VIDEO  == 3
IRQ_ETH    == 4
IRQ_GBETH  == 5
IRQ_VIRT_EVENT == 7

map_class_to_level(class) ==
    CASE class = IRQ_OTHER  -> BALANCE_PACKAGE
      [] class = IRQ_LEGACY -> BALANCE_CACHE
      [] OTHER              -> BALANCE_CORE

VARIABLES
    pc,
    interrupts_db,   \* irqs to balance
    banned_irqs,     \* irqs the scan banned
    info,            \* irq -> [class, level, numa_node, hint_policy], and as
                     \* history variables: dev (has a device) and pol (the policy used)
    tmp_irqs,        \* the irqs of /proc/interrupts when the scan began
    todo             \* what the current loop has still to visit

vars == <<pc, interrupts_db, banned_irqs, info, tmp_irqs, todo>>

-----------------------------------------------------------------------------
(* Classification of pci devices: the tables of map_pci_irq_class. *)
major_class_codes ==
    <<IRQ_OTHER, IRQ_SCSI, IRQ_ETH, IRQ_VIDEO, IRQ_OTHER, IRQ_OTHER, IRQ_LEGACY,
      IRQ_OTHER, IRQ_OTHER, IRQ_LEGACY, IRQ_OTHER, IRQ_OTHER, IRQ_NODEF, IRQ_ETH,
      IRQ_SCSI, IRQ_OTHER, IRQ_OTHER, IRQ_OTHER, IRQ_LEGACY, IRQ_LEGACY>>

serial_sub_codes(sub) ==
    CASE sub \in {4, 6}     -> IRQ_SCSI
      [] sub \in 10..127    -> IRQ_NODEF
      [] OTHER              -> IRQ_LEGACY

map_pci_irq_class(major, sub) ==
    CASE major >= 20              -> IRQ_NODEF
      [] major = 12 /\ sub >= 129 -> IRQ_NODEF
      [] major = 12 /\ sub < 129  -> serial_sub_codes(sub)
      [] OTHER                    -> major_class_codes[major + 1]

(* A device some file of which cannot be read has no class; dev.quirk are  *)
(* the boards apply_pci_quirks knows.                                      *)
get_irq_class(dev) ==
    IF ~dev.readable \/ map_pci_irq_class(dev.major, dev.sub) < 0 THEN IRQ_NODEF
    ELSE IF dev.quirk THEN IRQ_SCSI
    ELSE map_pci_irq_class(dev.major, dev.sub)

(* Classification by name on arm: the class of each row of the match       *)
(* table.  line.rows are the rows whose expression matches; a later row    *)
(* overrides an earlier one, and the last two look at the entries of the   *)
(* platform device.                                                        *)
matches == <<IRQ_GBETH, IRQ_SCSI, IRQ_VIDEO, IRQ_VIDEO, IRQ_VIDEO, IRQ_VIDEO, IRQ_VIDEO,
             IRQ_VIDEO, IRQ_VIDEO, IRQ_OTHER, IRQ_OTHER>>

check_platform_device(found) ==
    CASE found = "ata" -> IRQ_SCSI
      [] found = "net" -> IRQ_ETH
      [] OTHER         -> IRQ_OTHER

guess_arm_irq_hints(line) ==
    IF line.rows = {} THEN IRQ_OTHER
    ELSE LET last == CHOOSE r \in line.rows : \A q \in line.rows : q <= r
         IN  IF last \in {10, 11} THEN check_platform_device(line.found) ELSE matches[last]

(* The class collect_full_irq_list gives a line of /proc/interrupts; the   *)
(* event channels of a xen guest have their own.                           *)
ProcClass(line) == IF line.virt THEN IRQ_VIRT_EVENT ELSE guess_arm_irq_hints(line)

-----------------------------------------------------------------------------
get_numa_node(nodeid) ==
    IF ~numa_avail \/ nodeid = -1 THEN -1
    ELSE IF nodeid \in NodeIds THEN nodeid
    ELSE NoNode

(* The policy before the script has said anything. *)
DefaultPolicy == [ban |-> -1, level |-> -1, numa_node_set |-> FALSE, numa_node |-> -1,
                  hintpolicy |-> global_hint_policy]

LevelVals == [none |-> BALANCE_NONE, package |-> BALANCE_PACKAGE,
              cache |-> BALANCE_CACHE, core |-> BALANCE_CORE]

(* One key=value line of the script.  Lines without a known key or value   *)
(* are ignored.                                                            *)
parse_user_policy_key(pol, line) ==
    CASE line.key = "ban" /\ line.value \in {"true", "false"} ->
            [pol EXCEPT !.ban = IF line.value = "true" THEN 1 ELSE 0]
      [] line.key = "balance_level" /\ line.value \in DOMAIN LevelVals ->
            [pol EXCEPT !.level = LevelVals[line.value]]
      [] line.key = "numa_node" /\ get_numa_node(line.value) # NoNode ->
            [pol EXCEPT !.numa_node = line.value, !.numa_node_set = TRUE]
      [] line.key = "hintpolicy" /\ line.value \in {"exact", "subset", "ignore"} ->
            [pol EXCEPT !.hintpolicy = line.value]
      [] OTHER -> pol

(* No script, or one that does not run, prints nothing. *)
get_irq_user_policy(output) == FoldLeft(parse_user_policy_key, DefaultPolicy, output)

-----------------------------------------------------------------------------
(* get_irq_info looks into both lists. *)
get_irq_info(irq) == irq \in ToSet(interrupts_db) \cup ToSet(banned_irqs)

is_banned_irq(irq) == irq \in ToSet(banned_irqs)

(* Mutant: the irq is only left out of the db. *)
ForgetBanned(irq) == UNCHANGED banned_irqs

add_banned_irq(irq) ==
    banned_irqs' = IF irq \in ToSet(banned_irqs) THEN banned_irqs ELSE Append(banned_irqs, irq)

(* Mutant: the command line is not looked at. *)
ModuleBanOnly(irq, list) == irq \in list /\ irq \in module_banned

(* The irqs on the command line, and the ones whose entry of list belongs  *)
(* to a banned module.                                                     *)
check_for_irq_ban(irq, list) ==
    \/ irq \in cl_banned_irqs
    \/ irq \in list /\ irq \in module_banned

(* Without a class the level stays at BALANCE_NONE, also if the policy     *)
(* gives one.                                                              *)
PolicyLevel(irq_class, pol) ==
    IF irq_class < 0 THEN BALANCE_NONE
    ELSE IF pol.level >= 0 THEN pol.level
    ELSE map_class_to_level(irq_class)

(* What add_one_irq_to_db fills in. *)
NewInfo(irq_class, node, pol, dev) ==
    [class |-> IF irq_class < 0 THEN IRQ_OTHER ELSE irq_class,
     level |-> PolicyLevel(irq_class, pol),
     numa_node |-> get_numa_node(IF pol.numa_node_set THEN pol.numa_node
                                 ELSE IF numa_avail THEN node ELSE -1),
     hint_policy |-> pol.hintpolicy,
     dev |-> dev, pol |-> pol]

(* Duplicates and banned irqs are refused. *)
add_one_irq_to_db(irq, new) ==
    IF irq \in ToSet(interrupts_db) \/ is_banned_irq(irq)
    THEN UNCHANGED <<interrupts_db, info>>
    ELSE /\ interrupts_db' = Append(interrupts_db, irq)
         /\ info' = [info EXCEPT ![irq] = new]

Unused == NewInfo(IRQ_NODEF, -1, DefaultPolicy, FALSE)

Init ==
    /\ pc = "idle"
    /\ interrupts_db = <<>> /\ banned_irqs = <<>>
    /\ info = [i \in Irqs |-> Unused]
    /\ tmp_irqs = <<>> /\ todo = <<>>

(* for_each_irq over an empty list runs over interrupts_db. *)
for_each_irq(list) ==
    IF list = <<>> THEN [k \in DOMAIN interrupts_db |-> [irq |-> interrupts_db[k], rows |-> {},
                                                         found |-> "none", virt |-> FALSE]]
    ELSE list

(* build_one_dev_entry goes through the irqs in the msi directory of each  *)
(* device of the bus, or else takes its one irq.                           *)
DeviceIrqs(devices) ==
    FlattenSeq([d \in DOMAIN devices |->
        [k \in DOMAIN devices[d].irqs |-> [irq |-> devices[d].irqs[k], dev |-> devices[d]]]])

(* free_irq_db, collect_full_irq_list, opendir.  Without the bus directory *)
(* the db stays empty.                                                     *)
rebuild_irq_db ==
    /\ pc = "idle"
    /\ interrupts_db' = <<>> /\ banned_irqs' = <<>>
    /\ info' = [i \in Irqs |-> Unused]
    /\ tmp_irqs' \in ProcFiles
    /\ \/ (\E devices \in DeviceLists : todo' = DeviceIrqs(devices)) /\ pc' = "devices"
       \/ todo' = <<>> /\ pc' = "no_bus"

(* build_one_dev_entry for one irq.  "no pci device has irq 0".            *)
build_one_dev_entry ==
    /\ pc = "devices"
    /\ todo # <<>>
    /\ todo' = Tail(todo)
    /\ LET irq == Head(todo).irq
           dev == Head(todo).dev
       IN  IF irq = 0 \/ get_irq_info(irq)
           THEN UNCHANGED <<interrupts_db, banned_irqs, info>>
           ELSE \E output \in Outputs :
                   LET pol == get_irq_user_policy(output)
                       new == NewInfo(get_irq_class(dev), dev.numa_node, pol, TRUE)
                       listed == {tmp_irqs[k].irq : k \in DOMAIN tmp_irqs}
                   IN  IF pol.ban = 1 \/ check_for_irq_ban(irq, listed)
                       THEN add_banned_irq(irq) /\ UNCHANGED <<interrupts_db, info>>
                       ELSE add_one_irq_to_db(irq, new) /\ UNCHANGED banned_irqs
    /\ UNCHANGED <<pc, tmp_irqs>>

DevicesDone ==
    /\ pc = "devices"
    /\ todo = <<>>
    /\ pc' = "missing"
    /\ todo' = for_each_irq(tmp_irqs)
    /\ UNCHANGED <<interrupts_db, banned_irqs, info, tmp_irqs>>

(* The list add_missing_irq hands to check_for_irq_ban is interrupts_db:   *)
(* the irq, which get_irq_info did not find, is not on it.                 *)
ListForBan == ToSet(interrupts_db)

(* add_missing_irq and add_new_irq.  The level is the one of the class,    *)
(* whatever the policy said.                                               *)
add_missing_irq ==
    /\ pc = "missing"
    /\ todo # <<>>
    /\ todo' = Tail(todo)
    /\ LET line == Head(todo)
           irq  == line.irq
       IN  IF get_irq_info(irq) \/ irq \in name_banned
           THEN UNCHANGED <<interrupts_db, banned_irqs, info>>
           ELSE \E output \in Outputs :
                   LET pol  == get_irq_user_policy(output)
                       hint == ProcClass(line)
                       new  == [NewInfo(IRQ_OTHER, -1, pol, FALSE) EXCEPT
                                   !.class = hint, !.level = map_class_to_level(hint)]
                   IN  IF pol.ban = 1 \/ check_for_irq_ban(irq, ListForBan)
                       THEN add_banned_irq(irq) /\ UNCHANGED <<interrupts_db, info>>
                       ELSE add_one_irq_to_db(irq, new) /\ UNCHANGED banned_irqs
    /\ UNCHANGED <<pc, tmp_irqs>>

RebuildDone ==
    /\ pc = "missing"
    /\ todo = <<>>
    /\ pc' = "built"
    /\ UNCHANGED <<interrupts_db, banned_irqs, info, tmp_irqs, todo>>

(* The daemon works with the db until it has to scan again. *)
NextRescan ==
    /\ pc \in {"built", "no_bus"}
    /\ pc' = "idle"
    /\ UNCHANGED <<interrupts_db, banned_irqs, info, tmp_irqs, todo>>

Next == \/ rebuild_irq_db \/ build_one_dev_entry \/ DevicesDone
        \/ add_missing_irq \/ RebuildDone \/ NextRescan

Spec == Init /\ [][Next]_vars
-----------------------------------------------------------------------------
Db     == ToSet(interrupts_db)
Banned == ToSet(banned_irqs)
Listed == {tmp_irqs[k].irq : k \in DOMAIN tmp_irqs}

(* Types: the lists hold irqs, every entry has a class and a level. *)
TypeOK ==
    /\ pc \in {"idle", "devices", "missing", "built", "no_bus"}
    /\ interrupts_db \in Seq(Irqs) /\ banned_irqs \in Seq(Irqs)
    /\ DOMAIN info = Irqs
    /\ \A i \in Irqs : /\ info[i].class \in IRQ_OTHER..7
                       /\ info[i].level \in BALANCE_NONE..BALANCE_CORE
                       /\ info[i].numa_node \in NodeIds \cup {-1}

(* However often an irq turns up, at several devices, in /proc/interrupts, *)
(* with a policy script that changes its mind: it has one entry, in        *)
(* interrupts_db or in banned_irqs.                                        *)
OneEntry == /\ IsInjective(interrupts_db) /\ IsInjective(banned_irqs)
            /\ Db \cap Banned = {}

(* After a scan of the bus, get_irq_info finds every irq that was listed   *)
(* in /proc/interrupts and is not banned by name: parse_proc_interrupts    *)
(* has no reason to ask for the next rescan.                               *)
AllKnown == pc = "built" => Listed \subseteq Db \cup Banned \cup name_banned

(* No irq to be balanced was banned: by -i, by -m if it belongs to a       *)
(* listed device irq, by -n if it has no device, or by the last word of    *)
(* the script.                                                             *)
BansHonoured ==
    \A i \in Db : /\ i \notin cl_banned_irqs
                  /\ info[i].dev /\ i \in Listed => i \notin module_banned
                  /\ ~info[i].dev => i \notin name_banned
                  /\ info[i].pol.ban # 1

(* A classified device irq is balanced at the level and on the node the    *)
(* script asks for, also if /proc/interrupts would put it in another class. *)
PolicyHonoured ==
    \A i \in Db : info[i].dev /\ info[i].level # BALANCE_NONE =>
        /\ info[i].pol.level >= 0 => info[i].level = info[i].pol.level
        /\ info[i].pol.numa_node_set => info[i].numa_node = get_numa_node(info[i].pol.numa_node)

(* "Check to see if we banned module which the irq belongs to."  With -m   *)
(* no irq of the module is balanced.                                       *)
ModuleBansHonoured == \A i \in Db \cap Listed : i \notin module_banned
=============================================================================
