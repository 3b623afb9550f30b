----------------------------- MODULE Controller -----------------------------
(***************************************************************************)
(* The receive-window controller: the window sub-state of the bound worker *)
(* (do_rwnd, do_burst, do_adapt, tune_rwnd, data_rcvd, last_ack guarded by *)
(* rwnd_lock, src/src/worker.c) and the learned link parameters of tcp_ctx *)
(* (src/action.h), changed by                                              *)
(*   - the capture thread's window stage, which counts acknowledged bytes  *)
(*     and rewrites the advertised window (worker_handle_rwnd);            *)
(*   - the controller tick tcp_schedule (src/src/action.c);                *)
(*   - the actions init_tcp_sched, set_rwnd, set_burst, set_adapt and      *)
(*     sol_update, each with the worker_* call it makes.                   *)
(* When the tick runs is the scheduler's business (module Scheduler); here *)
(* a tick may come between any two other steps.                           *)
(*                                                                         *)
(* Integer widths are parameters: the code has 32-bit acks, a 31-bit int   *)
(* for the burst estimate, a shift of 10 and a 16-bit window; a model uses *)
(* smaller widths in the same relation so that the same wraps happen.      *)
(***************************************************************************)
EXTENDS Integers, Sequences

CONSTANTS
  AckMod,     \* 2^32: ack numbers are uint32, recv is their uint32 difference
  IntLimit,   \* 2^31: the (int) cast of the burst estimate overflows beyond
  RwDiv,      \* 2^RWSCALE: the estimate is shifted right by RWSCALE
  WndMod,     \* 2^16: tune_rwnd is a uint16_t
  InitArgs,   \* the INIT_SCHED line: [enable, burst, threshold, pace, hist, rtt]
  Acks,       \* ack numbers packets carry
  Windows,    \* advertised windows packets carry
  Marks,      \* marks sol_update may switch to (1 and 2)
  RwndArgs,   \* values set_rwnd is called with
  MaxPackets, \* bound on packets through the window stage
  MaxTicks,   \* bound on controller ticks
  MaxCmds,    \* bound on actions, init_tcp_sched included
  Garbage     \* values an unwritten tcp_ctx field may hold

ASSUME /\ IntLimit < AckMod /\ WndMod * RwDiv <= IntLimit
       /\ InitArgs.threshold \in Nat /\ InitArgs.pace \in Nat
       /\ Marks \subseteq {1, 2}
       /\ InitArgs.burst > 0 /\ \A m \in {1, 2} : InitArgs.rtt[m] > 0
       /\ Garbage \subseteq Nat

VARIABLES
  bound,     \* tcp_ctx.wkctx # NULL: init_tcp_sched has run
  doRwnd, doBurst, doAdapt,
  tune,      \* tune_rwnd
  data,      \* data_rcvd
  lastAck,   \* last_ack
  tmark,     \* tcp_ctx.mark
  interval,  \* tcp_ctx.sample_interval
  hist,      \* tcp_ctx.hist_param[1..2].hist_rw
  packets, ticks, cmds,  \* step counters for the bounds
  op,        \* history: the last step, [name, arg]
  fwd        \* history: window field of the last forwarded packet

vars == <<bound, doRwnd, doBurst, doAdapt, tune, data, lastAck, tmark,
          interval, hist, packets, ticks, cmds, op, fwd>>

Rtt(m) == InitArgs.rtt[m]

TypeOK ==
  /\ bound \in BOOLEAN
  /\ doRwnd \in BOOLEAN /\ doBurst \in BOOLEAN /\ doAdapt \in BOOLEAN
  /\ tune \in 0..WndMod - 1
  /\ data \in Nat
  /\ lastAck \in 0..AckMod - 1
  /\ tmark \in {1, 2}
  /\ interval \in Nat
  /\ hist \in [{1, 2} -> Int]
  /\ packets \in 0..MaxPackets /\ ticks \in 0..MaxTicks /\ cmds \in 0..MaxCmds
  /\ fwd \in 0..WndMod - 1

(* Before init_tcp_sched the worker's flags are clear (worker_init_ctx);   *)
(* last_ack and the tcp_ctx on main's stack hold whatever the memory held:  *)
(* init_tcp_scheduler sets only wkctx = NULL and sample_interval = 0.  The  *)
(* garbage mark is taken to be one of the two links.                       *)
Init ==
  /\ bound = FALSE
  /\ doRwnd = FALSE /\ doBurst = FALSE /\ doAdapt = FALSE
  /\ tune = 0
  /\ data = 0
  /\ lastAck \in Acks
  /\ tmark \in {1, 2} /\ interval = 0
  /\ hist \in [{1, 2} -> Garbage]
  /\ packets = 0 /\ ticks = 0 /\ cmds = 0
  /\ op = [name |-> "none", arg |-> 0]
  /\ fwd = 0

\* Mutant: the value is kept whole, as if tune_rwnd were wider.
U16Unwrapped(x) == x

\* Assignment of an int to the uint16_t tune_rwnd.
U16(x) == x % WndMod

-----------------------------------------------------------------------------
(* Capture thread: the window stage of worker_callback for a TCP segment. *)

\* worker_handle_rwnd: with do_rwnd, add the uint32 ack difference to
\* data_rcvd and lower the advertised window to tune_rwnd when it is
\* smaller; on every path last_ack becomes the segment's ack.
HandleRwnd(ack, win) ==
  /\ packets < MaxPackets
  /\ packets' = packets + 1
  /\ data' = IF doRwnd THEN data + ((ack - lastAck) % AckMod) ELSE data
  /\ fwd' = IF doRwnd /\ tune < win THEN tune ELSE win
  /\ lastAck' = ack
  /\ op' = [name |-> "packet", arg |-> ack]
  /\ UNCHANGED <<bound, doRwnd, doBurst, doAdapt, tune, tmark, interval,
                 hist, ticks, cmds>>

-----------------------------------------------------------------------------
(* Scheduler thread: the controller tick. *)

\* The burst estimate (int)(data_rcvd * rtt / sample_interval) >> RWSCALE,
\* as a uint64.  A product beyond the int range converts (on x86) to
\* INT_MIN, which as a uint64 is AckMod * AckMod - IntLimit.
BurstEstimate ==
  LET prod == (data * Rtt(tmark)) \div interval IN
    IF prod < IntLimit THEN prod \div RwDiv
    ELSE (AckMod * AckMod - IntLimit) \div RwDiv

\* The adaptive step: utilisation cw / tune_rwnd above the threshold grows
\* the window by pace, below 0.7 shrinks it by pace/4 (float arithmetic,
\* truncated on assignment to the uint16_t).
AdaptStep ==
  LET cw == data \div RwDiv IN
    IF tune > 0 /\ cw * 100 > InitArgs.threshold * tune
    THEN U16((tune * (100 + InitArgs.pace)) \div 100)
    ELSE IF tune > 0 /\ cw * 10 < 7 * tune
    THEN U16((tune * (400 - InitArgs.pace)) \div 400)
    ELSE tune

\* tcp_schedule under rwnd_lock, through tcp_ctx.wkctx (so only once a
\* worker is bound: before that fire is 0xFFFFFFFF and no tick is due): burst raises tune_rwnd to the estimate,
\* else adapt applies the adaptive step; data_rcvd is reset in every case.
Tick ==
  /\ bound
  /\ ticks < MaxTicks
  /\ ticks' = ticks + 1
  /\ tune' = CASE doBurst /\ BurstEstimate > tune -> U16(BurstEstimate)
               [] doBurst                          -> tune
               [] doAdapt                          -> AdaptStep
               [] OTHER                            -> tune
  /\ data' = 0
  /\ op' = [name |-> "tick", arg |-> 0]
  /\ UNCHANGED <<bound, doRwnd, doBurst, doAdapt, lastAck, tmark, interval,
                 hist, packets, cmds, fwd>>

-----------------------------------------------------------------------------
(* The worker_* setters the actions call, each under rwnd_lock; a window *)
(* argument is stored into the uint16_t tune_rwnd.                       *)

\* worker_init_tcp_sched: the window stage on or off, adaptive regime on.
WorkerInitTcpSched(enable) ==
  /\ doRwnd' = enable /\ doAdapt' = TRUE /\ data' = 0

\* worker_sol_update: stop both regimes and take the given window.
WorkerSolUpdate(rw) ==
  /\ doAdapt' = FALSE /\ doBurst' = FALSE /\ tune' = U16(rw)

\* worker_set_rwnd.
WorkerSetRwnd(rw) == tune' = U16(rw)

\* worker_set_burst: arming a burst stops adapting, clears the byte count
\* and takes the given window; disarming touches nothing else.
WorkerSetBurst(on, rw) ==
  /\ doBurst' = on
  /\ IF on THEN doAdapt' = FALSE /\ data' = 0 /\ tune' = U16(rw)
     ELSE UNCHANGED <<doAdapt, data, tune>>

\* worker_set_adapt: the mirror image of worker_set_burst.
WorkerSetAdapt(on, rw) ==
  /\ doAdapt' = on
  /\ IF on THEN doBurst' = FALSE /\ data' = 0 /\ tune' = U16(rw)
     ELSE UNCHANGED <<doBurst, data, tune>>

-----------------------------------------------------------------------------
(* Scheduler thread: the actions. *)

\* One scripted action.  The handlers check nothing: each may run before
\* or after init_tcp_sched, and init_tcp_sched itself may run again.
Command(name, arg) ==
  /\ cmds < MaxCmds
  /\ cmds' = cmds + 1
  /\ op' = [name |-> name, arg |-> arg]
  /\ UNCHANGED <<lastAck, packets, ticks, fwd>>

\* sample_interval as the actions set it.  Before init_tcp_sched it takes
\* an unwritten burst interval or RTT; no tick reads it before
\* init_tcp_sched writes it again, so the model leaves it as it was.
SetInterval(v) == interval' = IF bound THEN v ELSE interval

\* action_init_tcp_sched: bind, learn both links, start on link 1 with its
\* RTT as interval, then worker_init_tcp_sched and worker_set_rwnd with
\* link 1's history.
InitTcpSched ==
  /\ Command("init", 0)
  /\ bound' = TRUE
  /\ hist' = [m \in {1, 2} |-> InitArgs.hist[m]]
  /\ tmark' = 1
  /\ interval' = Rtt(1)
  /\ WorkerInitTcpSched(InitArgs.enable # 0)
  /\ WorkerSetRwnd(InitArgs.hist[1])
  /\ UNCHANGED doBurst

\* action_set_rwnd: requests below 10 are raised to 10.
SetRwnd(w) ==
  /\ Command("rwnd", w)
  /\ WorkerSetRwnd(IF w < 10 THEN 10 ELSE w)
  /\ UNCHANGED <<bound, doRwnd, doBurst, doAdapt, data, tmark, interval, hist>>

\* action_set_burst: worker_set_burst with the active link's history; on,
\* the burst interval is used; off, the burst result is kept as the
\* link's history if it is larger.
SetBurst(on) ==
  /\ Command("burst", IF on THEN 1 ELSE 0)
  /\ WorkerSetBurst(on, hist[tmark])
  /\ IF on
     THEN SetInterval(InitArgs.burst) /\ UNCHANGED hist
     ELSE /\ UNCHANGED interval
          /\ hist' = IF tune > hist[tmark] THEN [hist EXCEPT ![tmark] = tune]
                     ELSE hist
  /\ UNCHANGED <<bound, doRwnd, tmark>>

\* action_set_adapt(1): the active link's RTT as interval, then
\* worker_set_adapt with the active link's history.
SetAdapt ==
  /\ Command("adapt", 1)
  /\ SetInterval(Rtt(tmark))
  /\ WorkerSetAdapt(TRUE, hist[tmark])
  /\ UNCHANGED <<bound, doRwnd, tmark, hist>>

\* action_sol_update: only when tune_rwnd > 0 is it saved as the outgoing
\* link's history and the active link switched; then worker_sol_update
\* with link m's history.
SolUpdate(m) ==
  /\ Command("sol", m)
  /\ IF tune > 0
     THEN /\ hist' = [hist EXCEPT ![tmark] = tune]
          /\ tmark' = m
     ELSE UNCHANGED <<hist, tmark>>
  /\ WorkerSolUpdate(hist'[m])
  /\ UNCHANGED <<bound, doRwnd, data, interval>>

\* Every bound reached: the run ends with the last scripted event (with no
\* worker bound, no tick is ever due).
Finished ==
  /\ packets = MaxPackets /\ cmds = MaxCmds /\ (~bound \/ ticks = MaxTicks)
  /\ UNCHANGED vars

Next ==
  \/ \E a \in Acks, w \in Windows : HandleRwnd(a, w)
  \/ Tick
  \/ InitTcpSched
  \/ \E w \in RwndArgs : SetRwnd(w)
  \/ \E on \in BOOLEAN : SetBurst(on)
  \/ SetAdapt
  \/ \E m \in Marks : SolUpdate(m)
  \/ Finished

Spec == Init /\ [][Next]_vars

-----------------------------------------------------------------------------
(* Properties *)

\* Burst and adaptive regimes are never armed together, so a tick applies
\* at most one regime (spec 4.2: one of three regimes).  set_burst and
\* set_adapt each disarm the other, but worker_init_tcp_sched arms adapt
\* and leaves do_burst as it is: a burst from a SOLUTION line that runs
\* before INIT_SCHED, or a second INIT_SCHED, arms both.
RegimesExclusive == ~(doBurst /\ doAdapt)

\* Spec section 8, burst monotonicity: during a burst a tick only ever
\* raises tune_rwnd ("monotonic increase only; never shrinks").
BurstMonotone == [][op'.name = "tick" /\ doBurst => tune' >= tune]_vars

\* An adaptive tick never closes an open window: tune_rwnd > 0 stays > 0.
\* (A window of 0 also disables the adaptive step, which needs tune > 0.)
AdaptKeepsWindowOpen ==
  [][op'.name = "tick" /\ doAdapt /\ tune > 0 => tune' > 0]_vars

\* Spec section 4.3: sol-update(q, m) switches the active link to m.
ActiveLinkFollowsHandover == [][op'.name = "sol" => tmark' = op'.arg]_vars

=============================================================================
