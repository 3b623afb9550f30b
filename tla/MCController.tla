---------------------------- MODULE MCController ----------------------------
(***************************************************************************)
(* Controller with scaled-down integer widths in the code's relation:      *)
(* 12-bit acks (32 in the code), an 11-bit int (31), a shift of 2 (10) and *)
(* an 8-bit window (16), so ack differences, the int cast of the burst     *)
(* estimate and the window assignment wrap as they do in the code.         *)
(* INIT_SCHED: rw enabled, burst interval 1, threshold 80%, pace 10%,      *)
(* link 1 with history 3 and RTT 3, link 2 with history 40 and RTT 2.      *)
(***************************************************************************)
EXTENDS Controller

MCInitArgs == [enable |-> 1, burst |-> 1, threshold |-> 80, pace |-> 10,
               hist |-> <<3, 40>>, rtt |-> <<3, 2>>]
=============================================================================
