------------------------------ MODULE MCDaemon ------------------------------
(* Two or three cpus that come and go, and two irqs. *)
EXTENDS Daemon

CONSTANTS c1, c2, c3, i1, i2

const_Order == <<i1, i2>>
=============================================================================
