------------------------------ MODULE MCIrqHeap ------------------------------
(* Three irqs, a node and a cpu: enough for a list to lose its first, its  *)
(* middle and its last cell, and for a sort with two levels of halves.     *)
EXTENDS IrqHeap

CONSTANTS i1, i2, i3, n1, c1

MCIrqs  == {i1, i2, i3}
MCNodes == {n1}
MCCpus  == {c1}
MCCells == 1..6      \* one for the db and one for the list it is on, for each irq

(* A cell that was just freed is reused or left alone; while nothing has   *)
(* been freed, the cells are taken in order.                               *)
MCPick(f) == IF f = {} THEN {} ELSE IF f = Min(f)..Max(f) THEN {Min(f)} ELSE {Min(f), Max(f)}
=============================================================================
