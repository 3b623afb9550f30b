------------------------------ MODULE MCQueue ------------------------------
(***************************************************************************)
(* The queue lifecycle driven by timelines that the Timeline module        *)
(* expands and orders as scheduler_run executes them.  A line is written   *)
(* as its fields, e.g. INIT "0,0,0,1,9" is [type 0, time 0, q 0, mark 1,  *)
(* end 9].                                                                 *)
(***************************************************************************)
EXTENDS Queue

T == INSTANCE Timeline WITH U16Mod <- 65536

InitQ(q, t, e) == [type |-> T!EVENT_INIT, time |-> t, q |-> q, mark |-> 1, end |-> e]
InitSchedQ(q) ==
  [type |-> T!EVENT_INIT_SCHED, time |-> 0, q |-> q, enable |-> 1, burst |-> 1,
   start |-> 0, hist |-> <<3, 4>>, rtt |-> <<3, 2>>]
CmdLine == [type |-> T!EVENT_CMD, time |-> 1]
\* HANDOVER "3,2,0,2,1,0,0,1": stop for 1 ms, new mark 2, drop 1 packet.
HoLine ==
  [type |-> T!EVENT_HO, time |-> 3, q |-> 0, mark |-> 2, gap |-> 1,
   count |-> 0, offset |-> 0, drop |-> 1]
\* SOLUTION "5,6,0,1,1,0,1,1,1,1": freeze, dedup, burst and adapt.
SolLine ==
  [type |-> T!EVENT_HANDLEDSOL, time |-> 5, q |-> 0, mark |-> 1, freeze |-> 1,
   freezeMs |-> 0, dedup |-> 1, smooth |-> 1, burst |-> 1, adapt |-> 1]

\* One queue, the controller bound to it, a handover and a solution; the
\* queue is torn down at 9, after every other event.
OneQueueScript == T!Execution(<<InitQ(0, 0, 9), InitSchedQ(0), CmdLine, HoLine, SolLine>>)

\* Two queues, the controller bound to queue 0, which is torn down first.
TwoQueueScript == T!Execution(<<InitQ(0, 0, 6), InitQ(1, 0, 9), InitSchedQ(0)>>)
=============================================================================
