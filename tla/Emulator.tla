------------------------------ MODULE Emulator ------------------------------
(***************************************************************************)
(* The whole emulator process for one queue: main sets up the contexts,   *)
(* reads the timeline and runs the scheduler; the scheduler thread runs   *)
(* the script's events (Queue) and the worker_set_* calls those events    *)
(* make (Worker); the capture thread that init starts takes each packet    *)
(* through the worker's stages (Worker) on the queue handle it serves     *)
(* (Queue).  When scheduler_run returns, main returns and the process,    *)
(* with its capture thread, ends.                                          *)
(*                                                                         *)
(* The Worker's variables are those of the one worker_ctx the script's    *)
(* single INIT allocates (object 1 of Queue).                              *)
(***************************************************************************)
EXTENDS Integers, Sequences, SequencesExt

CONSTANTS
  Script, InitStatus, InitFails, TeardownFails, MaxPackets, MaxTicks,
  Acks, Kinds, Marks, DropCounts, ReorderArgs, MaxReorder, MaxCmds

VARIABLES
  queues, workers, allocs, status, nfq, wstate, thr, kq, wk, cursor, ticks,
  sent, late, ub,
  mark, doDrop, dropCount, doReorder, reorderCount, reorderOffset,
  reorderIds, doDedup, doRwnd, lastAck, pc, pkt, nextId, cmds, verdicts,
  arrived, dropArm, reorderArm,
  proc,  \* main: "setup", "run" (in scheduler_run) or "exited"
  restarted \* history: per packet taken, whether the last restart had run

Q == INSTANCE Queue
W == INSTANCE Worker

ASSUME Q!Objs = {1}

\* Queue's variables other than ub.
qrest == <<queues, workers, allocs, status, nfq, wstate, thr, kq, wk, cursor,
           ticks, sent, late>>
qvars == <<qrest, ub>>
wvars == <<mark, doDrop, dropCount, doReorder, reorderCount, reorderOffset,
           reorderIds, doDedup, doRwnd, lastAck, pc, pkt, nextId, cmds,
           verdicts, arrived, dropArm, reorderArm>>
evars == <<qvars, wvars, proc, restarted>>

\* main up to the input file: scheduler_init_ctx, action_init_ctx and
\* init_tcp_scheduler.
Init == Q!Init /\ W!Init /\ proc = "setup" /\ restarted = <<>>

\* main returns -1 before scheduler_run: too few arguments, or the log
\* file or the input file cannot be opened.
SetupFails ==
  /\ proc = "setup"
  /\ proc' = "exited"
  /\ UNCHANGED <<qvars, wvars, restarted>>

\* The fgets / parse_event loop has filled the table with Script.
ReadInput ==
  /\ proc = "setup"
  /\ proc' = "run"
  /\ UNCHANGED <<qvars, wvars, restarted>>

-----------------------------------------------------------------------------
(* Scheduler thread *)

\* The worker_set_* call of action_set_mark, _set_reorder, _set_drop,
\* _set_dedup and action_init_tcp_sched; the int enable is a C truth value.
WorkerCall(e) ==
  CASE e.h = "mark"       -> W!SetMark(e.arg.mark)
    [] e.h = "drop"       -> W!SetDrop(e.arg.n)
    [] e.h = "reorder"    -> W!SetReorder(e.arg.count, e.arg.offset)
    [] e.h = "dedup"      -> W!SetDedup(e.arg.enable # 0)
    [] e.h = "init_sched" -> W!InitTcpSched(e.arg.enable # 0)
    [] OTHER              -> UNCHANGED wvars

\* One event of scheduler_run.  The worker call writes the worker object
\* through workers[q] even when it has been destroyed; through NULL or a
\* garbage slot it writes no worker of the model (Queue records the UB).
RunEvent ==
  /\ proc = "run"
  /\ Q!RunEvent
  /\ LET e == Script[cursor + 1] IN
       IF "q" \in DOMAIN e.arg /\ Q!IsObj(workers[e.arg.q])
       THEN WorkerCall(e) ELSE UNCHANGED wvars
  /\ UNCHANGED <<proc, restarted>>

Tick == proc = "run" /\ Q!Tick /\ UNCHANGED <<wvars, proc, restarted>>

\* scheduler_run returns, the contexts are destroyed and main returns 0:
\* the process ends, and the capture thread with it.
Exit ==
  /\ proc = "run"
  /\ cursor = Len(Script)
  /\ proc' = "exited"
  /\ UNCHANGED <<qvars, wvars, restarted>>

Halted == proc = "exited" /\ UNCHANGED evars

\* The last start event that restarts a stopped queue, and the mark the
\* script sets last.
Restarts ==
  {k \in DOMAIN Script :
     Script[k].h = "start" /\ \E j \in 1..k-1 : Script[j].h = "stop"}
MarkEvents == {k \in DOMAIN Script : Script[k].h = "mark"}
FinalMark == Script[Max(MarkEvents)].arg.mark

-----------------------------------------------------------------------------
(* Capture thread of the queue object *)

Loop(A) == proc = "run" /\ A /\ UNCHANGED <<wvars, proc, restarted>>

\* recv returns a packet and nfq_handle_packet enters worker_callback.
Take ==
  /\ proc = "run"
  /\ Q!Recv(1)
  /\ W!Receive
  /\ restarted' = Append(restarted, Restarts # {} /\ cursor >= Max(Restarts))
  /\ UNCHANGED proc

\* One stage of worker_callback on the worker object; the stage locks its
\* mutex, and the verdict it may give goes through the queue handle.
Stage(A) ==
  /\ proc = "run"
  /\ thr[1] = "handle"
  /\ A
  /\ ub' = Q!Deref("capture", 1, nfq[1] = "open" /\ wstate[1] = "live")
  /\ UNCHANGED <<qrest, proc, restarted>>

\* worker_callback has returned: back to the top of the nfq_run loop.
Done ==
  /\ proc = "run"
  /\ thr[1] = "handle" /\ pc = "recv"
  /\ thr' = [thr EXCEPT ![1] = "poll"]
  /\ UNCHANGED <<queues, workers, allocs, status, nfq, wstate, kq, wk,
                 cursor, ticks, sent, late, ub, wvars, proc, restarted>>

Next ==
  \/ SetupFails \/ ReadInput
  \/ RunEvent \/ Tick \/ Exit \/ Halted
  \/ Loop(Q!Poll(1)) \/ Loop(Q!EnterRecv(1)) \/ Loop(Q!Arrive(1))
  \/ Take \/ Done
  \/ Stage(W!HandleDrop) \/ Stage(W!HandleReorder) \/ Stage(W!HandleDedup)
  \/ Stage(W!HandleRwnd) \/ Stage(W!HandleDefault)

Spec == Init /\ [][Next]_evars

-----------------------------------------------------------------------------
(* Properties *)

\* Spec section 8 (HANDOVER): the queue is stopped for the gap while the
\* new mark is set, so every packet the capture thread takes once the
\* queue has been restarted is accepted with the new link's mark, never
\* with the old one (parse_ho schedules start at t + gap and the mark at
\* t).  Stated for a script whose last handover sets its last mark.
HandoverMarkApplies ==
  \A n \in DOMAIN verdicts :
    /\ verdicts[n].v = "accept"
    /\ restarted[verdicts[n].id + 1]
    => verdicts[n].mark = FinalMark

\* Queue's stop property, now with the worker's stages between recv and
\* the verdict: a capture thread that passed nfq_run's status check and
\* blocks in recv takes at most one packet after stop.
AtMostOneAfterStop == Q!AtMostOneAfterStop
=============================================================================
