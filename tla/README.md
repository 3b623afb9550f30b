# TLA+ models of the emulator

This directory holds TLA+ models of the network emulator in `src/`. The
emulator reads a timeline file and replays it against NFQUEUE-captured
traffic. TLC checks the models. Every action is translated from the C code.
`PROJECT.json` maps each definition to the lines it models.

## The system

The program runs two kinds of thread.

* **Scheduler thread** (`src/src/scheduler.c`). The parser (`src/event.c`)
  expands every timeline line into a group of events, added with
  `scheduler_add_event`. `scheduler_run` sorts them by (time, insertion index).
  Each loop iteration then runs one of two things, whichever is earlier: the
  next scripted event, or the controller tick `tcp_schedule`, due at
  `fire + sample_interval`. The scripted handlers are the actions of
  `src/src/action.c`. They reconfigure a worker through `worker_set_*` and
  change the controller's `tcp_ctx`.
* **Capture thread per queue** (`nfq_run`, `src/src/nfqueue.c`). For every
  packet it calls `worker_callback` (`src/src/worker.c`). The callback passes
  the packet through four stages: drop, reorder, dedup and receive window.
  Each stage runs under its own mutex, and the first stage that handles the
  packet gives its verdict. Packets that no stage handles are accepted with
  the current mark.

The scheduler thread also owns the queue lifecycle. `action_init_nfqueue`
allocates an `nfq_ctx` and a `worker_ctx` and starts that queue's capture
thread. `start` and `stop` store the status the thread polls. `teardown`
stores DEAD, closes the handle and destroys the worker (`worker_destroy_ctx`
destroys its mutexes and frees `reorder_ids`; the struct itself is never
freed), without waiting for the thread. `init_tcp_sched` binds the controller to one queue's worker
(`tcp_ctx.wkctx`), and every tick dereferences it.

The two threads share the worker context. A scheduler-thread command takes a
stage's mutex, so it can run between two stages of a packet but never inside
one. This is how the models interleave them.

## Modules

| Module | Models | State | Actions |
|---|---|---|---|
| `Timeline` | `src/event.c` (every `parse_*`), the main read loop | none: operators from a tokenised line to its event group | `ParseInit`, `ParseCmd`, `ParseHo`, `ParseHandleDup`, `ParseInitSched`, `ParseSolution`, `ParseEvent`; `Load` (a file) and `Execution` (sorted as `scheduler_run` sorts); `ArgsOk`, the argument structs of `src/action.h` each handler receives |
| `Scheduler` | `scheduler.c`, the loop-relevant fields of `tcp_ctx`, `parse_event` | event table, phase, cursor, `fire`, `sample_interval`, `burst_sample_interval`, active link, RTTs | `ReadLine` (one line's `scheduler_add_event` calls), `StartRun` (qsort), `RunEvent`, `RunTick`; handlers `InitTcpSched`, `SetBurst`, `SetAdapt`, `SolUpdate` |
| `EventOrder` | the scheduler's promise (spec 4.4, 8), no code | pending events, count, stage, run order | `Submit`, `Begin`, `Execute` (earliest pending first) |
| `Queue` | `action.c` queue actions, `nfqueue.c`, the `wkctx` dereference of `tcp_schedule` | `queues[]`, `workers[]`, per-object status, handle state, worker state, capture-thread pc, kernel queue, `wkctx`, script cursor | scheduler thread: `RunEvent` dispatching `InitQueue` (`NfqInitOk` or failure), `Start`/`Stop` (`SetStatus`), `Teardown` (`NfqTeardown`, ok or failure), `InitSched`, `UseWorker`; `Tick`; capture thread: `Poll`, `EnterRecv`, `Recv`, `Handle`, `Verdict`; kernel: `Arrive` |
| `Worker` | `worker_callback` and its stages; `worker_set_*` except the window ones | mark, drop/reorder/dedup sub-state, `last_ack`, capture pc, current packet | `Receive`, `HandleDrop`, `HandleReorder`, `HandleDedup`, `HandleRwnd`, `HandleDefault`; `SetMark`, `SetDrop`, `SetReorder`, `SetDedup`, `InitTcpSched` |
| `Emulator` | the three `main`s, with `Queue` and `Worker` composed (`Q == INSTANCE Queue`, `W == INSTANCE Worker`) on one queue object | both modules' variables, `main`'s phase (`proc`), and per packet taken whether the handover's restart had run | `main`: `SetupFails`, `ReadInput`, `Exit`; scheduler thread: `RunEvent` (Queue's event plus the `worker_set_*` call it makes, `WorkerCall`), `Tick`; capture thread: `Poll`/`EnterRecv`/`Arrive` of Queue, `Take` (Queue's `Recv` with Worker's `Receive`), `Stage` (one Worker stage on the queue object), `Done` |
| `Controller` | window sub-state of the worker plus `tcp_schedule` and the window actions | `do_rwnd/burst/adapt`, `tune_rwnd`, `data_rcvd`, `last_ack`, active link, interval, link histories | `HandleRwnd`, `Tick`, `InitTcpSched`, `SetRwnd`, `SetBurst`, `SetAdapt`, `SolUpdate`; each calls its `worker_*` setter (`WorkerSetRwnd`, `WorkerSetBurst`, `WorkerSetAdapt`, `WorkerSolUpdate`, `WorkerInitTcpSched`) |

Each `MC*` module and its `.cfg` files instantiate one module for TLC.
`MCQueue` and `MCEmulator` build their scripts with `Timeline`: the lines are written as
records, and `Execution` turns them into the events in the order
`scheduler_run` executes them. `Scheduler` instantiates `EventOrder` under a
refinement mapping (`Promise`):

* the pending events are the table entries after the cursor;
* the count is the table length;
* the stage is the loop phase.

A controller tick is a stuttering step of the promise.

Abstractions:

* A packet is its id, its kind (`ack`, `data`, `udp`, `short`) and an ack
  number.
* Packet bytes that the model does not track are nondeterministic. One example
  is whether a UDP payload "looks like" an empty TCP segment.
* Undefined reads are nondeterministic:
  * `last_ack` is never initialised, and `tcph` is read on the early-exit path
    of the window stage, so both can take any value in `Acks`;
  * `nfq_ctx.status` is never written by `nfq_init`, so the status the capture
    thread first reads ranges over `InitStatus`;
  * the malloc'd `queues[]`/`workers[]` slots start as `GARBAGE`.
  * `tcp_ctx` lives on `main`'s stack and `init_tcp_scheduler` writes only
    `wkctx` and `sample_interval`, so before INIT_SCHED the active mark is
    either link and each link's history is a value of `Garbage`. A mark
    outside 1..2 is left out (listed as a hazard).
* In `Queue`, memory is object identities, and a dereference checks that its
  target is valid:
  * every init allocates object `o`, its nfq_ctx and worker;
  * a dereference of NULL, `GARBAGE` or a destroyed object is recorded in the
    history variable `ub`, by thread, and the step goes on;
  * the netlink socket is a per-object packet counter.
* Integer widths are scaled down, keeping the same relations:
  * `AckMod` stands for 2^32.
  * `IntLimit` stands for 2^31, the int range of the burst estimate.
  * `RwDiv` stands for 2^RWSCALE.
  * `WndMod` stands for 2^16, the range of `tune_rwnd`.
  * Because the relations are the same, the same wraps happen: uint32 ack
    difference, int cast to INT_MIN, uint16 truncation.
  * `Timeline` keeps the real 2^16 for the uint16 argument fields; a uint32_t field is typed as `Nat`, since 2^32 exceeds TLC's integers.
* The float arithmetic of the adaptive step is done exactly in integers with
  percentages. This follows how the parser divides threshold and pace by 100.
* The scheduler's busy wait is left out. It delays a step but never changes
  which handler runs next. In `Queue`, a tick may come only where the loop can
  run one:
  * after `init_tcp_sched`;
  * while events remain;
  * before an event that is later than the previous one, or right after an
    event that changed the tick timing.

## Runs

| Run | Result | What it shows |
|---|---|---|
| `MCScheduler.cfg` | pass (724 states) | **ImplementsEventOrder**: the loop refines `EventOrder`, fairness included: scripted handlers run in (time, idx) order, each exactly once, and the loop terminates. **TypeOK**: the table stays within `MAX_EVENTS`. Both hold with burst, adapt, sol-update and init_sched changing the interval mid-run. |
| `MCWorker.cfg` | pass (1.31M states) | **NoDoubleVerdict**: no packet gets two verdicts. **DropBudget**: an armed drop drops exactly N packets. Both hold under every interleaving of 4 packets with 2 commands. |
| `MCWorker_NoOrphanedPackets.cfg` | violation | Re-arming reorder while packets are buffered orphans them. `worker_set_reorder` resets `reorder_id_cur`. |
| `MCWorker_DedupDropsOnlyRepeats.cfg` | violation | Because `last_ack` is uninitialised, dedup can drop a pure ACK that repeats nothing. |
| `MCController.cfg` | pass (91,986 states) | **TypeOK**: `tune_rwnd` stays a uint16, with commands before `init_tcp_sched` and `init_tcp_sched` run again. |
| `MCController_RegimesExclusive.cfg` | violation | No action checks that `init_tcp_sched` has run, and `worker_init_tcp_sched` arms adapt without clearing `do_burst`: a `set_burst` before INIT_SCHED, then `init_tcp_sched`, arms both regimes. |
| `MCController_BurstMonotone.cfg` | violation | A backward ACK wraps `data_rcvd`. The int cast then gives INT_MIN, and the truncated estimate lowers the window during a burst. |
| `MCTimeline.cfg` | pass (312 states) | **TypeOK**: every event's argument fits its struct in `src/action.h`; each uint16_t field (queue, reorder count and offset, window) holds 0..65535 after `parse_*` stored it, whatever the line's integers. **InitExpansionMatchesSpec**: every INIT line runs init, start, mark at its time and teardown at its end (the example of spec §8). **SolutionPhases**: `sol_update` runs first and adapt runs only after the burst window closed. |
| `MCTimeline_DedupWindowCloses.cfg` | violation | `event.c:236` schedules the end of the smoothing window with `dedup_args`, so dedup is never switched off. |
| `MCEmulator.cfg` | pass (41,284 states) | **HandoverMarkApplies**: every packet the capture thread takes after the handover's restart is accepted with the new mark; it holds because `parse_ho` starts the queue only after the gap, and fails as soon as start runs before the mark (gap 0). **AtMostOneAfterStop**: a capture thread already in `recv` takes at most one packet after `stop`. Both hold with the worker's stages running between recv and the verdict, failing `nfq_init`/`nfq_teardown`, and a non-DEAD initial status. |
| `MCQueue_CaptureUsesLiveObjects.cfg` | violation | Teardown destroys the worker and closes the handle while the capture thread is still inside `worker_callback`. |
| `MCQueue_TickUsesLiveWorker.cfg` | violation | With two queues, a tick after the controlled queue's teardown runs on the destroyed worker that `wkctx` still holds: `tcp_schedule` locks its destroyed `rwnd_lock`. |

The findings, with their source lines, are in `PROJECT.json`.

### Further checks

These cfgs are kept beside the runs above and are not in `PROJECT.json`'s run
list. Each one still fails as described, and the hazards that name them say so.

| Cfg | Result | What it shows |
|---|---|---|
| `MCScheduler_TieFavorsScript.cfg` | violation | On a tie, the tick runs before the scripted event (`scheduler.c:63` uses a strict `<`). Spec §4.4 says ties favour the scripted event. |
| `MCScheduler_NominalTimeMonotone.cfg` | violation | `set_burst` shortens the interval. The loop then runs catch-up ticks at nominal times before the event that just ran. |
| `MCWorker_ReorderFlushComplete.cfg` | violation | With offset 0, the reorder stage flushes after one buffered packet. |
| `MCController_AdaptKeepsWindowOpen.cfg` | violation | Idle adaptive ticks shrink the window 3→2→1→0, and the adaptive step never reopens it. |
| `MCController_ActiveLinkFollowsHandover.cfg` | violation | `sol_update` with `tune_rwnd = 0` leaves the active link unchanged. |
| `MCTimeline_HandoverConfiguresBeforeRestart.cfg` | violation | With gap 0, `parse_ho`'s start event runs before the new mark, drop and reorder are set. |
| `MCTimeline_ReorderArgsFaithful.cfg` | violation | A reorder count of 65537 reaches `worker_set_reorder` as 1 (uint16 field). |
| `MCQueue_NoInvalidDerefByScheduler.cfg` | violation | After a failed `nfq_init`, the `start` from the same INIT line dereferences the never-written `queues[q]`. The script has one queue and no failing teardown, so only this path of the three is explored. |
| `MCQueue.cfg` | pass (1,686 states) | `AtMostOneAfterStop` and `StartedQueueHasThread` on the longer Queue script with CMD and SOLUTION lines, without the worker's stages. |
| `MCQueue_StartedQueueHasThread.cfg` | violation | If the uninitialised status reads as DEAD, the capture thread returns at once and the started queue is never served. |

Observed while modelling `tcp_schedule` (no run, since `AdaptStep` already
follows the code): spec §4.2 clamps `cw` to the tuned window before it
computes the utilisation. `action.c:45-48` computes `rate` first and clamps
`cw` afterwards, so the clamp has no effect. The two agree for a threshold
below 100%; with a threshold of 100% or more, the code can still grow the
window, and the spec never would.

### Bounds

* **Scheduler.** Three lines: INIT_SCHED, SOLUTION and INIT. Together they give
  11 events, against a table of 12, so reading three lines can fill the table.
  They contain:
  * same-time events, from several lines and within one line;
  * a burst interval (1) shorter than the RTTs (3, 2);
  * events that fall exactly on a tick.
* **Worker.** 4 packets, 2 commands, and a reorder capacity of 2. This is
  enough for:
  * a drop budget of 2 to be used up and re-armed;
  * a reorder of (3,1), which gets clamped to 2, to buffer, pass and flush;
  * a command between every pair of stages.
* **Controller.** 3 packets and ticks and 4 commands (`init_tcp_sched` is one of
  them, so commands can run before it and it can run twice), with acks
  100/200. The unwritten `tcp_ctx` histories are 0 or 7 (`Garbage`). A backward
  ACK (200 then 100) wraps `data_rcvd`.
* **Timeline.** Every INIT, HANDOVER and SOLUTION line over small field
  values. These include:
  * zero and non-zero gaps, freezes, dedup windows, bursts and adapt flags;
  * times that tie;
  * one reorder count past 2^16.
* **Queue.** One queue with INIT, INIT_SCHED, CMD, HANDOVER and SOLUTION lines
  (17 events), with 3 packets and 1 tick. The packets are enough for two of
  them to arrive while the queue is stopped. The two-queue script adds a
  second queue that outlives the controlled one.
* **Emulator.** INIT (mark 1, teardown at 9), INIT_SCHED, and a HANDOVER at 3
  to mark 2 with gap 1, one drop and a reorder of (1, 1): 10 events. There
  are 4 packets of kind `ack`, 1 tick, 6 worker commands, and failing init
  and teardown. The initial status is STOPPED or an undefined value, which
  `nfq_run` treats as RUNNING. A packet can be taken before INIT's mark, between stop and
  start, and after the restart. The drop, the hold and the flush of the
  handover can each take one of the packets.

### Fairness

Only `Scheduler` and its refinement assume fairness: weak fairness of the
loop. The scheduler thread waits only for the monotonic clock, which always
advances.

`Worker`, `Controller`, `Queue` and `Emulator` check only safety:

* Packet arrival depends on the network and is never guaranteed.
* The capture thread's progress after teardown says nothing, because `main`
  returns right after `scheduler_run` and that ends every thread.

## Not modelled

* **`action_destroy_ctx` and `worker_destroy_ctx` internals.** They only free
  memory. `Queue` models the freeing as the worker becoming invalid.
* **Out-of-range queue numbers.** A `queue_num` of 255 or more writes past
  the 0xFF-slot arrays. The effect is memory corruption, which the model
  cannot express. The hazard is listed in `PROJECT.json`.
* **Zero sampling interval.** A burst interval or RTT of 0 makes the loop tick
  forever. The hazard is listed; the Scheduler runs use positive intervals.
* **Composition of the controller.** `Emulator` composes `Queue` and
  `Worker`. `Controller`'s window sub-state and `Scheduler`'s tick timing are
  still checked separately. Each takes the other's effect as nondeterministic
  input.
* **Logging.** Argument text, log setup and the log lock are I/O. `Emulator`
  keeps only their early returns.
* **The `pkt_buff` of the window stage.** It is allocated for every TCP
  packet but freed only when `do_rwnd` is set. `last_ack` is then read
  through `tcph`, inside the freed buffer. Neither changes a modelled value;
  both are listed as hazards.
* **Liveness of the whole process.** `main` returns without joining the
  capture thread, so the process ends even when that thread is blocked in
  `recv`. Checking this under fairness would make TLC re-evaluate the
  timeline-derived script for every enabledness test, which is too slow.
  The Emulator run checks safety only.
* **`src/src/event.h`.** It declares an older event enum (with SOL_HO) that
  no parser in the repository implements.
* **Other `main`s.** The three `main`s differ only in their argument count and
  log file. `Emulator` models their shared structure, and `PROJECT.json` maps
  each of its steps to one of them.
* **Kernel NFQUEUE.** The socket is reduced to a packet counter.
