------------------------------ MODULE MCCpuText ------------------------------
(* Five cpus in words of four bits, each of two chunks of two bits: the    *)
(* last chunk and the last word are only partly used.                      *)
EXTENDS CpuText
=============================================================================
