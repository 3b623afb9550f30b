------------------------------- MODULE Queue -------------------------------
(***************************************************************************)
(* The queue lifecycle: the action dispatcher's init/start/stop/teardown   *)
(* of an NFQUEUE (src/src/action.c) with the capture-source calls they     *)
(* make (src/src/nfqueue.c), the capture thread nfq_run each successful    *)
(* init creates, the worker actions that dereference workers[q], and the   *)
(* controller tick that dereferences the worker bound by init_tcp_sched.   *)
(*                                                                         *)
(* The scheduler thread executes Script, the timeline's events in the     *)
(* order scheduler_run runs them, one event per step.  A controller tick  *)
(* may come before an event whose time is later than the previous one's,  *)
(* or right after an event that changed the tick timing.                  *)
(*                                                                         *)
(* Every init allocates a fresh nfq_ctx and worker_ctx, named here by the  *)
(* index o of the init among all inits.  A pointer is an object index, or  *)
(* NULL, or GARBAGE for the uninitialised slots of the malloc'd           *)
(* queues[] and workers[] arrays.  Dereferencing a pointer that is not a   *)
(* live object is undefined behaviour; it is recorded in ub and the step   *)
(* goes on as if it had worked.                                            *)
(***************************************************************************)
EXTENDS Integers, Sequences, FiniteSets

CONSTANTS
  Script,       \* the events, in execution order: [time, h, arg, idx]
  InitStatus,   \* values the malloc'd nfq_ctx.status may hold at nfq_init
  InitFails,    \* whether nfq_init may fail (BOOLEAN subsets)
  TeardownFails,\* whether nfq_teardown may fail
  MaxPackets,   \* bound on packets the kernel queues to all queues
  MaxTicks      \* bound on controller ticks

Qs == {Script[k].arg.q : k \in {j \in DOMAIN Script : "q" \in DOMAIN Script[j].arg}}
\* One object per init event of the script.
Objs == 1..Cardinality({k \in DOMAIN Script : Script[k].h = "init"})
\* Pointer values other than an object: NULL, and the indeterminate
\* contents of a malloc'd slot never written.
NULL == 0
GARBAGE == -1
Status == {"STOPPED", "RUNNING", "DEAD", "other"}
\* Handlers that dereference workers[q] (src/src/action.c 142-222).
WorkerHandlers == {"mark", "drop", "reorder", "dedup", "rwnd", "burst", "adapt", "sol"}
\* Handlers that change fire or sample_interval.
TimingHandlers == {"init_sched", "burst", "adapt"}

VARIABLES
  queues, workers, \* action_ctx.queues[q], action_ctx.workers[q]
  allocs,          \* number of inits so far: the next object index
  status,          \* nfq_ctx.status of each object
  nfq,             \* "none", "open" (queue bound, handle usable), "closed"
  wstate,          \* worker_ctx of each object: "none", "live", "destroyed"
                   \* (worker_destroy_ctx: mutexes destroyed, reorder_ids
                   \* freed; the struct itself is never freed)
  thr,             \* capture thread of each object: its pc in nfq_run
  kq,              \* packets the kernel holds for each object's socket
  wk,              \* tcp_ctx.wkctx
  cursor, ticks, sent,
  late,            \* history: packets taken after the last stop
  ub               \* history: undefined dereferences, [by, what]

vars == <<queues, workers, allocs, status, nfq, wstate, thr, kq, wk, cursor,
          ticks, sent, late, ub>>

Ptr == Objs \cup {NULL, GARBAGE}
ThreadPc == {"none", "poll", "torecv", "recv", "handle", "verdict", "exit"}

TypeOK ==
  /\ queues \in [Qs -> Ptr] /\ workers \in [Qs -> Ptr]
  /\ allocs \in 0..Cardinality(Objs)
  /\ status \in [Objs -> Status]
  /\ nfq \in [Objs -> {"none", "open", "closed"}]
  /\ wstate \in [Objs -> {"none", "live", "destroyed"}]
  /\ thr \in [Objs -> ThreadPc]
  /\ kq \in [Objs -> 0..MaxPackets] /\ wk \in Ptr
  /\ cursor \in 0..Len(Script) /\ ticks \in 0..MaxTicks /\ sent \in 0..MaxPackets
  /\ late \in [Objs -> Nat]

\* p points at some allocated object (and is neither NULL nor garbage).
IsObj(p) == p \in Objs

LiveWorker(p) == IsObj(p) /\ wstate[p] = "live"

\* Record the undefined dereference of pointer p by thread "by": what it
\* pointed at was NULL, garbage, or an object no longer valid.
Deref(by, p, ok) ==
  IF ok THEN ub
  ELSE ub \cup {[by |-> by, what |-> CASE p = NULL -> "null"
                                          [] p = GARBAGE -> "garbage"
                                          [] OTHER -> "dangling"]}



(* action_init_ctx: the arrays are malloc'd and never cleared;            *)
(* init_tcp_scheduler: wkctx = NULL.                                       *)
Init ==
  /\ queues = [q \in Qs |-> GARBAGE] /\ workers = [q \in Qs |-> GARBAGE]
  /\ allocs = 0
  /\ status = [o \in Objs |-> "STOPPED"]
  /\ nfq = [o \in Objs |-> "none"] /\ wstate = [o \in Objs |-> "none"]
  /\ thr = [o \in Objs |-> "none"] /\ kq = [o \in Objs |-> 0]
  /\ wk = NULL
  /\ cursor = 0 /\ ticks = 0 /\ sent = 0
  /\ late = [o \in Objs |-> 0]
  /\ ub = {}

\* Pointers that name an nfq_ctx an init has allocated (never freed).
Allocated(p) == IsObj(p) /\ p <= allocs

handlerVars == <<queues, workers, allocs, status, nfq, wstate, thr, kq, wk,
                 late, ub>>

-----------------------------------------------------------------------------
(* Scheduler thread: the queue actions. *)

\* nfq_init on a fresh ctx: on success the queue is bound and the capture
\* thread started; status is never written, so it keeps what malloc gave.
NfqInitOk(o) ==
  /\ nfq' = [nfq EXCEPT ![o] = "open"]
  /\ thr' = [thr EXCEPT ![o] = "poll"]
  /\ \E s \in InitStatus : status' = [status EXCEPT ![o] = s]

\* Mutant: workers[q] is never published.
InitQueueNoPublish(q) ==
  LET o == allocs + 1 IN
  /\ allocs' = o
  /\ wstate' = [wstate EXCEPT ![o] = "live"]
  /\ \/ /\ NfqInitOk(o)
        /\ queues' = [queues EXCEPT ![q] = o]
        /\ UNCHANGED workers
     \/ /\ TRUE \in InitFails
        /\ UNCHANGED <<nfq, thr, status, queues, workers>>
  /\ UNCHANGED <<kq, wk, late, ub>>

\* action_init_nfqueue: malloc both contexts and worker_init_ctx; on an
\* nfq_init failure return before queues[q] and workers[q] are written.
InitQueue(q) ==
  LET o == allocs + 1 IN
  /\ allocs' = o
  /\ wstate' = [wstate EXCEPT ![o] = "live"]
  /\ \/ /\ NfqInitOk(o)
        /\ queues' = [queues EXCEPT ![q] = o]
        /\ workers' = [workers EXCEPT ![q] = o]
     \/ /\ TRUE \in InitFails
        /\ UNCHANGED <<nfq, thr, status, queues, workers>>
  /\ UNCHANGED <<kq, wk, late, ub>>

\* action_start_nfqueue / action_stop_nfqueue: nfq_start / nfq_stop store
\* the status through queues[q].
SetStatus(q, s) ==
  LET p == queues[q] IN
  /\ ub' = Deref("scheduler", p, Allocated(p))
  /\ status' = IF Allocated(p) THEN [status EXCEPT ![p] = s] ELSE status
  /\ late' = IF Allocated(p) THEN [late EXCEPT ![p] = 0] ELSE late
  /\ UNCHANGED <<queues, workers, allocs, nfq, wstate, thr, kq, wk>>
Start(q) == SetStatus(q, "RUNNING")
Stop(q) == SetStatus(q, "STOPPED")

\* nfq_teardown: store DEAD, destroy the queue and close the handle (the
\* close runs even when the destroy failed).
NfqTeardown(p) ==
  /\ status' = IF Allocated(p) THEN [status EXCEPT ![p] = "DEAD"] ELSE status
  /\ nfq' = IF Allocated(p) THEN [nfq EXCEPT ![p] = "closed"] ELSE nfq

\* action_teardown_nfqueue: if nfq_teardown reports a failure the action
\* returns before worker_destroy_ctx and before clearing the slots.
Teardown(q) ==
  LET p == queues[q]
      w == workers[q]
  IN
  /\ NfqTeardown(p)
  /\ \/ /\ wstate' = IF IsObj(w) THEN [wstate EXCEPT ![w] = "destroyed"] ELSE wstate
        /\ queues' = [queues EXCEPT ![q] = NULL]
        /\ workers' = [workers EXCEPT ![q] = NULL]
        /\ ub' = Deref("scheduler", w, LiveWorker(w))
                 \cup Deref("scheduler", p, Allocated(p) /\ nfq[p] = "open")
     \/ /\ TRUE \in TeardownFails
        /\ ub' = Deref("scheduler", p, Allocated(p) /\ nfq[p] = "open")
        /\ UNCHANGED <<wstate, queues, workers>>
  /\ UNCHANGED <<allocs, thr, kq, wk, late>>

\* action_set_mark, _sol_update, _set_reorder, _set_drop, _set_rwnd,
\* _set_dedup, _set_burst, _set_adapt: each calls worker_* on workers[q].
UseWorker(q) ==
  /\ ub' = Deref("scheduler", workers[q], LiveWorker(workers[q]))
  /\ UNCHANGED <<queues, workers, allocs, status, nfq, wstate, thr, kq, wk, late>>

\* action_init_tcp_sched: wkctx = workers[q], then worker_init_tcp_sched.
InitSched(q) ==
  /\ wk' = workers[q]
  /\ ub' = Deref("scheduler", workers[q], LiveWorker(workers[q]))
  /\ UNCHANGED <<queues, workers, allocs, status, nfq, wstate, thr, kq, late>>

Dispatch(e) ==
  CASE e.h = "init"       -> InitQueue(e.arg.q)
    [] e.h = "start"      -> Start(e.arg.q)
    [] e.h = "stop"       -> Stop(e.arg.q)
    [] e.h = "teardown"   -> Teardown(e.arg.q)
    [] e.h = "init_sched" -> InitSched(e.arg.q)
    [] e.h \in WorkerHandlers -> UseWorker(e.arg.q)
    [] e.h = "cmd"        -> UNCHANGED handlerVars

\* One scripted event of scheduler_run.
RunEvent ==
  /\ cursor < Len(Script)
  /\ cursor' = cursor + 1
  /\ Dispatch(Script[cursor + 1])
  /\ UNCHANGED <<ticks, sent>>

\* Mutant: the loop still ticks once the last event has run.
TickAfterEnd ==
  /\ \E k \in 1..cursor : Script[k].h = "init_sched"
  /\ ticks < MaxTicks
  /\ ticks' = ticks + 1
  /\ ub' = Deref("tick", wk, LiveWorker(wk))
  /\ UNCHANGED <<queues, workers, allocs, status, nfq, wstate, thr, kq, wk,
                 cursor, sent, late>>

\* tcp_schedule reads wkctx->mark and locks wkctx->rwnd_lock.  Ticks run
\* only once init_tcp_sched has set fire, only while events remain, and
\* never between two events of the same time unless the first changed
\* the timing.
Tick ==
  /\ 0 < cursor /\ cursor < Len(Script)
  /\ \E k \in 1..cursor : Script[k].h = "init_sched"
  /\ \/ Script[cursor + 1].time > Script[cursor].time
     \/ Script[cursor].h \in TimingHandlers
  /\ ticks < MaxTicks
  /\ ticks' = ticks + 1
  /\ ub' = Deref("tick", wk, LiveWorker(wk))
  /\ UNCHANGED <<queues, workers, allocs, status, nfq, wstate, thr, kq, wk,
                 cursor, sent, late>>
-----------------------------------------------------------------------------
(* Capture thread of object o: the loop of nfq_run. *)

\* Mutant: the STOPPED case falls through to recv (a missing continue).
PollNoContinue(o) ==
  /\ thr[o] = "poll"
  /\ thr' = [thr EXCEPT ![o] = IF status[o] = "DEAD" THEN "exit" ELSE "torecv"]
  /\ UNCHANGED <<queues, workers, allocs, status, nfq, wstate, kq, wk, cursor,
                 ticks, sent, late, ub>>

\* Mutant: the thread also leaves its loop when it finds the queue stopped.
PollExitOnStop(o) ==
  /\ thr[o] = "poll"
  /\ thr' = [thr EXCEPT ![o] = IF status[o] \in {"DEAD", "STOPPED"} THEN "exit" ELSE "torecv"]
  /\ UNCHANGED <<queues, workers, allocs, status, nfq, wstate, kq, wk, cursor,
                 ticks, sent, late, ub>>

\* The status switch: RUNNING goes on to recv, STOPPED sleeps and polls
\* again (a stuttering step), DEAD returns; a value matching no case falls
\* out of the switch and goes on to recv.
Poll(o) ==
  /\ thr[o] = "poll"
  /\ status[o] # "STOPPED"
  /\ thr' = [thr EXCEPT ![o] = IF status[o] = "DEAD" THEN "exit" ELSE "torecv"]
  /\ UNCHANGED <<queues, workers, allocs, status, nfq, wstate, kq, wk, cursor,
                 ticks, sent, late, ub>>

\* recv on the queue's socket: on a closed handle it fails at once and the
\* loop continues; otherwise the thread blocks until a packet is queued.
EnterRecv(o) ==
  /\ thr[o] = "torecv"
  /\ thr' = [thr EXCEPT ![o] = IF nfq[o] = "open" THEN "recv" ELSE "poll"]
  /\ UNCHANGED <<queues, workers, allocs, status, nfq, wstate, kq, wk, cursor,
                 ticks, sent, late, ub>>

Recv(o) ==
  /\ thr[o] = "recv"
  /\ kq[o] > 0
  /\ kq' = [kq EXCEPT ![o] = @ - 1]
  /\ thr' = [thr EXCEPT ![o] = "handle"]
  /\ late' = IF status[o] = "STOPPED" THEN [late EXCEPT ![o] = @ + 1] ELSE late
  /\ UNCHANGED <<queues, workers, allocs, status, nfq, wstate, wk, cursor,
                 ticks, sent, ub>>

\* nfq_handle_packet on the handle enters worker_callback with the worker.
Handle(o) ==
  /\ thr[o] = "handle"
  /\ thr' = [thr EXCEPT ![o] = "verdict"]
  /\ ub' = Deref("capture", o, nfq[o] = "open" /\ wstate[o] = "live")
  /\ UNCHANGED <<queues, workers, allocs, status, nfq, wstate, kq, wk, cursor,
                 ticks, sent, late>>

\* The pipeline stages lock the worker's mutexes and nfq_set_verdict uses
\* the queue handle.
Verdict(o) ==
  /\ thr[o] = "verdict"
  /\ thr' = [thr EXCEPT ![o] = "poll"]
  /\ ub' = Deref("capture", o, nfq[o] = "open" /\ wstate[o] = "live")
  /\ UNCHANGED <<queues, workers, allocs, status, nfq, wstate, kq, wk, cursor,
                 ticks, sent, late>>

\* The kernel queues a packet to a bound queue.
Arrive(o) ==
  /\ nfq[o] = "open"
  /\ sent < MaxPackets
  /\ sent' = sent + 1
  /\ kq' = [kq EXCEPT ![o] = @ + 1]
  /\ UNCHANGED <<queues, workers, allocs, status, nfq, wstate, thr, wk, cursor,
                 ticks, late, ub>>

\* The last event has run: scheduler_run returns and main exits.
Finished == cursor = Len(Script) /\ UNCHANGED vars

Next ==
  \/ RunEvent
  \/ Tick
  \/ \E o \in Objs : Poll(o) \/ EnterRecv(o) \/ Recv(o) \/ Handle(o)
                     \/ Verdict(o) \/ Arrive(o)
  \/ Finished

Spec == Init /\ [][Next]_vars

-----------------------------------------------------------------------------
(* Properties *)

\* Spec section 7: a failure of one action is contained; no scheduled
\* action dereferences a queue or worker slot that init did not fill or
\* that teardown has released.
NoInvalidDerefByScheduler == \A u \in ub : u.by # "scheduler"

\* Spec section 5: teardown terminates the capture thread and then
\* releases its resources, so the capture thread never works on a
\* destroyed worker or a closed queue handle.
CaptureUsesLiveObjects == \A u \in ub : u.by # "capture"

\* The controller tick only ever works on a live worker: the worker bound
\* by init_tcp_sched is not torn down while ticks can still run.
TickUsesLiveWorker == \A u \in ub : u.by # "tick"

\* Spec section 5: stopping a queue halts delivery.  A capture thread that
\* was already blocked in recv takes at most one more packet after stop
\* before it sees the status and idles.
AtMostOneAfterStop == \A o \in Objs : late[o] <= 1

\* A queue that is bound and started has a capture thread to serve it:
\* no running queue is left with a thread that has already returned.
StartedQueueHasThread ==
  \A o \in Objs : status[o] = "RUNNING" /\ nfq[o] = "open" => thr[o] # "exit"
=============================================================================
