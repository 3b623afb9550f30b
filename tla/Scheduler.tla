----------------------------- MODULE Scheduler -----------------------------
(***************************************************************************)
(* The event scheduler of the emulator (src/src/scheduler.c) together with *)
(* the timing fields of the TCP controller context tcp_ctx (src/action.h)  *)
(* that the scheduler loop reads on every iteration.                       *)
(*                                                                         *)
(* Loading: every timeline line is expanded by the parser into a group of  *)
(* scheduler_add_event calls; each call appends an event with the next     *)
(* insertion index, or is rejected when the table is full.                 *)
(* Running: scheduler_run sorts the table by (time, idx) once, then in     *)
(* every iteration compares the next scripted event with the controller's  *)
(* next fire time fire + sample_interval and runs whichever the code picks.*)
(*                                                                         *)
(* Of the handlers, only those that write the fields the loop reads are    *)
(* distinguished: init_tcp_sched, set_burst, set_adapt and sol_update.     *)
(* Every other handler ("other") leaves the scheduler state alone.  The    *)
(* busy wait until the chosen time has elapsed is left out: it delays a    *)
(* step but never changes which handler runs next.                         *)
(***************************************************************************)
EXTENDS Integers, Sequences, SequencesExt

CONSTANTS
  Never,     \* initial tcp_ctx.fire, 0xFFFFFFFF in init_tcp_scheduler
  MaxEvent,  \* SCHEDULER_MAX_EVENT, capacity of the event table
  Lines,     \* the event groups that timeline lines expand to
  MaxLines   \* bound on the number of lines in the timeline file

ASSUME Never \in Nat /\ MaxEvent \in Nat \ {0} /\ MaxLines \in Nat

\* tcp_ctx.hist_param[3]: slots 1 and 2 are the two links, 0 is unused.
Links == 0..2

\* The scripted events any line can contribute: [time, h, arg].
Scripted == UNION {ToSet(l) : l \in Lines}

VARIABLES
  events,    \* scheduler_ctx.events[0..event_count-1], as a sequence
  phase,     \* "load" while parsing, "run" inside scheduler_run, "done" after
  cursor,    \* i in scheduler_run: number of scripted events consumed
  fire,      \* tcp_ctx.fire, nominal time of the last controller tick
  interval,  \* tcp_ctx.sample_interval
  burstInt,  \* tcp_ctx.burst_sample_interval
  tmark,     \* tcp_ctx.mark, the active link
  rtt,       \* tcp_ctx.hist_param[*].rtt
  lines,     \* number of timeline lines read so far
  ran,       \* history: the scripted events in the order they ran
  lastAt     \* history: nominal time of the handler that ran last

vars == <<events, phase, cursor, fire, interval, burstInt, tmark, rtt,
          lines, ran, lastAt>>

tcpVars == <<fire, interval, burstInt, tmark, rtt>>

TypeOK ==
  /\ \A k \in DOMAIN events :
        /\ [time |-> events[k].time, h |-> events[k].h,
            arg |-> events[k].arg] \in Scripted
        /\ events[k].idx \in 0..MaxEvent - 1
  /\ Len(events) <= MaxEvent
  /\ phase \in {"load", "run", "done"}
  /\ cursor \in 0..Len(events)
  /\ {fire, interval, burstInt, lastAt} \subseteq Nat
  /\ tmark \in Links /\ rtt \in [Links -> Nat]
  /\ lines \in 0..MaxLines

(* init_tcp_scheduler: only fire, wkctx and sample_interval are set; the  *)
(* rest of the stack-allocated tcp_ctx is whatever the stack held, here 0. *)
Init ==
  /\ events = <<>>
  /\ phase = "load"
  /\ cursor = 0
  /\ fire = Never
  /\ interval = 0
  /\ burstInt = 0
  /\ tmark = 0
  /\ rtt = [l \in Links |-> 0]
  /\ lines = 0
  /\ ran = <<>>
  /\ lastAt = 0

-----------------------------------------------------------------------------
(* Loading *)

\* Mutant: the table-full check of scheduler_add_event is missing.
AddEventUnchecked(tbl, e) ==
  Append(tbl, [time |-> e.time, h |-> e.h, arg |-> e.arg, idx |-> Len(tbl)])

\* scheduler_add_event: append with idx = event_count unless the table is full.
AddEvent(tbl, e) ==
  IF Len(tbl) >= MaxEvent THEN tbl
  ELSE Append(tbl, [time |-> e.time, h |-> e.h, arg |-> e.arg, idx |-> Len(tbl)])

RECURSIVE AddAll(_, _)
AddAll(tbl, l) == IF l = <<>> THEN tbl ELSE AddAll(AddEvent(tbl, Head(l)), Tail(l))

\* parse_event for one line: its parse_* function calls scheduler_add_event
\* once for every event of the group, in the order of the group.
ReadLine(l) ==
  /\ phase = "load"
  /\ lines < MaxLines
  /\ events' = AddAll(events, l)
  /\ lines' = lines + 1
  /\ UNCHANGED <<phase, cursor, tcpVars, ran, lastAt>>

\* Mutant: the tie-break on the insertion index compares the wrong way.
EventBeforeIdxSwapped(a, b) == a.time < b.time \/ (a.time = b.time /\ a.idx > b.idx)

\* scheduler_compare_event: by time, ties by insertion index.
EventBefore(a, b) == a.time < b.time \/ (a.time = b.time /\ a.idx < b.idx)

\* scheduler_run entry: return at once on an empty table, else qsort.
StartRun ==
  /\ phase = "load"
  /\ phase' = IF Len(events) <= 0 THEN "done" ELSE "run"
  /\ events' = SortSeq(events, EventBefore)
  /\ UNCHANGED <<cursor, tcpVars, lines, ran, lastAt>>

-----------------------------------------------------------------------------
(* The handlers that write tcp_ctx fields read by the loop *)

\* action_init_tcp_sched: the parser always passes mark 1.
InitTcpSched(a) ==
  /\ fire' = a.start
  /\ burstInt' = a.burst
  /\ tmark' = 1
  /\ interval' = a.rtt[1]
  /\ rtt' = [l \in Links |-> IF l \in {1, 2} THEN a.rtt[l] ELSE rtt[l]]

\* action_set_burst: enabling switches to the burst sampling interval.
SetBurst(a) ==
  /\ interval' = IF a.enable > 0 THEN burstInt ELSE interval
  /\ UNCHANGED <<fire, burstInt, tmark, rtt>>

\* action_set_adapt: enabling switches to the active link's RTT.
SetAdapt(a) ==
  /\ interval' = IF a.enable > 0 THEN rtt[tmark] ELSE interval
  /\ UNCHANGED <<fire, burstInt, tmark, rtt>>

\* action_sol_update: the active link changes only when the worker's
\* tune_rwnd > 0, a value this module does not track.
SolUpdate(a) ==
  /\ \E positive \in BOOLEAN : tmark' = IF positive THEN a.mark ELSE tmark
  /\ UNCHANGED <<fire, interval, burstInt, rtt>>

Handle(e) ==
  CASE e.h = "init_sched" -> InitTcpSched(e.arg)
    [] e.h = "burst"      -> SetBurst(e.arg)
    [] e.h = "adapt"      -> SetAdapt(e.arg)
    [] e.h = "sol"        -> SolUpdate(e.arg)
    [] OTHER              -> UNCHANGED tcpVars

-----------------------------------------------------------------------------
(* One iteration of the while loop of scheduler_run *)

NextTick == fire + interval

\* The next scripted event is strictly earlier than the controller's tick.
RunEvent ==
  /\ phase = "run"
  /\ cursor < Len(events)
  /\ LET e == events[cursor + 1] IN
       /\ e.time < NextTick
       /\ Handle(e)
       /\ cursor' = cursor + 1
       /\ phase' = IF cursor + 1 < Len(events) THEN "run" ELSE "done"
       /\ ran' = Append(ran, e)
       /\ lastAt' = e.time
  /\ UNCHANGED <<events, lines>>

\* Otherwise the controller ticks: fire advances by the current interval and
\* tcp_schedule runs, which writes no field this module tracks.
RunTick ==
  /\ phase = "run"
  /\ cursor < Len(events)
  /\ ~(events[cursor + 1].time < NextTick)
  /\ fire' = NextTick
  /\ lastAt' = NextTick
  /\ UNCHANGED <<events, phase, cursor, interval, burstInt, tmark, rtt,
                 lines, ran>>

\* The program returns from main once scheduler_run has finished.
Finished == phase = "done" /\ UNCHANGED vars

Next ==
  \/ \E l \in Lines : ReadLine(l)
  \/ StartRun
  \/ RunEvent
  \/ RunTick
  \/ Finished

\* The scheduler thread never blocks except in the busy wait, which ends as
\* the monotonic clock advances: the loop is weakly fair.
Spec == Init /\ [][Next]_vars /\ WF_vars(RunEvent \/ RunTick \/ StartRun)

-----------------------------------------------------------------------------
(* Properties *)

\* Spec section 4.4: the loop runs whichever of the scripted event and the
\* controller tick is strictly earlier, ties favouring the scripted event.
\* So a tick never runs while a scripted event at or before its time waits.
TieFavorsScript ==
  [][RunTick => events[cursor + 1].time > NextTick]_vars

\* Spec sections 3 and 5: scripted events and controller ticks run in
\* nondecreasing time order on the scheduler thread, so no handler runs at a
\* nominal time earlier than a handler that ran before it.
NominalTimeMonotone == [][phase = "run" => lastAt' >= lastAt]_vars

-----------------------------------------------------------------------------
(* Refinement: the table and the loop implement the ordering promise.     *)
(* The pending events are those after the cursor (before the sort, the    *)
(* whole table); controller ticks are stuttering steps of the promise.    *)

Promise == INSTANCE EventOrder
  WITH pending <- {events[k] : k \in cursor + 1..Len(events)},
       count <- Len(events), stage <- phase, Capacity <- MaxEvent

\* scheduler_run with its table, sort and ticks implements EventOrder: the
\* scripted events run once each, earliest (time, idx) first, all of them.
ImplementsEventOrder == Promise!Spec
=============================================================================
