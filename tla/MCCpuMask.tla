------------------------------ MODULE MCCpuMask ------------------------------
(* Words of two bits: masks of one, two and three words, whose last word   *)
(* is full or half used.                                                   *)
EXTENDS CpuMask

const_Sizes == 1..6
=============================================================================
