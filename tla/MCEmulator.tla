----------------------------- MODULE MCEmulator -----------------------------
(***************************************************************************)
(* The emulator on a timeline of one queue: INIT "0,0,0,1,9" (queue 0,    *)
(* mark 1, torn down at 9), INIT_SCHED on queue 0 with rwnd tuning on, and *)
(* a HANDOVER at 3 to mark 2 that drops one packet and reorders one with   *)
(* offset one.                                                             *)
(***************************************************************************)
EXTENDS Emulator

T == INSTANCE Timeline WITH U16Mod <- 65536

InitLine == [type |-> T!EVENT_INIT, time |-> 0, q |-> 0, mark |-> 1, end |-> 9]
InitSchedLine ==
  [type |-> T!EVENT_INIT_SCHED, time |-> 0, q |-> 0, enable |-> 1, burst |-> 1,
   start |-> 0, hist |-> <<3, 4>>, rtt |-> <<3, 2>>]
\* HANDOVER "3,2,0,2,1,1,1,1": stop for 1 ms, new mark 2, reorder 1 with
\* offset 1, drop 1.
HoLine ==
  [type |-> T!EVENT_HO, time |-> 3, q |-> 0, mark |-> 2, gap |-> 1,
   count |-> 1, offset |-> 1, drop |-> 1]

OneReorder == {<<1, 1>>}

HandoverScript == T!Execution(<<InitLine, InitSchedLine, HoLine>>)
=============================================================================
