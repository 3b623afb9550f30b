---------------------------- MODULE MCScheduler ----------------------------
(***************************************************************************)
(* Model of the event scheduler over a small timeline.  Each member of     *)
(* MCLines is the event group one timeline line expands to, in the order  *)
(* src/event.c calls scheduler_add_event for it (times in ms):             *)
(*   INIT_SCHED  "0,5,0,1,1,80,10,0,1,50,3,2,50,2": one init_tcp_sched     *)
(*               event, start 0, burst interval 1, rtts 3 and 2;           *)
(*   SOLUTION    "5,6,0,2,0,0,1,1,2,1": sol_update, set_dedup on/on, burst *)
(*               on at 5 and off at 7, set_adapt at 7 (freeze off);        *)
(*   INIT        "0,0,0,1,9": init, teardown at 9, start, set_mark.        *)
(***************************************************************************)
EXTENDS Scheduler

Ev(t, h, a) == [time |-> t, h |-> h, arg |-> a]
None == [enable |-> 0]

InitSchedLine == <<Ev(0, "init_sched", [start |-> 0, burst |-> 1, rtt |-> <<3, 2>>])>>

SolutionLine ==
  << Ev(5, "sol", [mark |-> 2]),
     Ev(5, "other", None), Ev(6, "other", None),
     Ev(5, "burst", [enable |-> 1]), Ev(7, "burst", [enable |-> 0]),
     Ev(7, "adapt", [enable |-> 1]) >>

InitLine ==
  << Ev(0, "other", None), Ev(9, "other", None),
     Ev(0, "other", None), Ev(0, "other", None) >>

MCLines == {InitSchedLine, SolutionLine, InitLine}
=============================================================================
