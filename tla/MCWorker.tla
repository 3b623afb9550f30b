------------------------------ MODULE MCWorker ------------------------------
(***************************************************************************)
(* Worker over a handful of packets and commands.  Ack numbers are two     *)
(* values of the 32-bit space; marks are the two links; drop budgets and   *)
(* reorder arguments are those a HANDOVER line can carry (src/event.c      *)
(* parse_ho only ever enables, with count > 0), and the reorder capacity   *)
(* is scaled down so that the clamp in worker_set_reorder is exercised.    *)
(***************************************************************************)
EXTENDS Worker

MCReorderArgs == {<<1, 1>>, <<3, 1>>}

\* parse_ho arms reorder with whatever offset the line carries, 0 included.
MCReorderArgsOffsetZero == {<<2, 0>>}
=============================================================================
