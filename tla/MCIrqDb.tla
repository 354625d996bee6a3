------------------------------- MODULE MCIrqDb -------------------------------
(***************************************************************************)
(* Irq 0 and 3 belong to no device; irq 1 is shared by two devices, irq 2  *)
(* is a message signalled irq.  The script may ban, set a level and a node *)
(* that exists or not, or print nonsense.                                  *)
(***************************************************************************)
EXTENDS IrqDb

Line(i, rows, found) == [irq |-> i, rows |-> rows, found |-> found, virt |-> i = 4]
Device(irqs, major, sub, readable, quirk, node) ==
    [irqs |-> irqs, major |-> major, sub |-> sub, readable |-> readable, quirk |-> quirk,
     numa_node |-> node]

const_ProcFiles ==
    {<<>>,
     <<Line(0, {}, "none"), Line(1, {1, 2}, "none"), Line(2, {10}, "net"), Line(3, {1, 9}, "none")>>,
     <<Line(1, {}, "none"), Line(3, {1, 11}, "ata"), Line(4, {11}, "none")>>}

const_DeviceLists ==
    {<<>>,
     <<Device(<<1>>, 2, 0, TRUE, FALSE, 0), Device(<<1, 2>>, 12, 3, TRUE, TRUE, -1)>>,
     <<Device(<<0>>, 1, 0, TRUE, FALSE, 0), Device(<<2>>, 12, 16, TRUE, FALSE, 0),
       Device(<<4>>, 12, 4, TRUE, FALSE, 0), Device(<<1>>, 20, 0, TRUE, FALSE, 0)>>,
     <<Device(<<1>>, 3, 0, FALSE, FALSE, -1), Device(<<>>, 12, 129, TRUE, FALSE, 0),
       Device(<<2>>, 12, 200, TRUE, FALSE, 0)>>}

Set(k, v) == [key |-> k, value |-> v]

const_Outputs ==
    {<<>>,
     <<Set("ban", "true")>>,
     <<Set("ban", "true"), Set("ban", "false"), Set("balance_level", "core")>>,
     <<Set("balance_level", "none"), Set("numa_node", 0)>>,
     <<Set("numa_node", 7), Set("balance_level", "cluster"), Set("hintpolicy", "exact"),
       Set("ban", "maybe"), Set("colour", "red"), Set("balance_level", "cache")>>}
=============================================================================
