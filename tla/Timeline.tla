------------------------------ MODULE Timeline ------------------------------
(***************************************************************************)
(* The timeline parser (src/event.c): one text line "time_ms,type,args..." *)
(* expands into a group of scheduled events, added to the scheduler's     *)
(* table in the order parse_* calls scheduler_add_event.                   *)
(*                                                                         *)
(* A line is a record of its already tokenised integer fields; strtok and  *)
(* strtol are left out.  An event is [time, h, arg]: h names the action    *)
(* handler and arg its argument record, with the conversions the argument  *)
(* structs of src/action.h apply (uint16_t fields wrap modulo U16Mod).     *)
(***************************************************************************)
EXTENDS Integers, Sequences, SequencesExt

CONSTANT U16Mod   \* 2^16: range of the uint16_t argument fields

\* enum in src/event.h
EVENT_INIT == 0
EVENT_CMD == 1
EVENT_HO == 2
EVENT_HANDLEDUP == 3
EVENT_HANDLERW == 4
EVENT_INIT_SCHED == 5
EVENT_HANDLEDSOL == 6

\* Mutant: the int is stored unconverted.
ToU16Unwrapped(x) == x

\* An int stored into a uint16_t field.
ToU16(x) == x % U16Mod

\* The argument struct each handler receives (src/action.h): the fields the
\* parser fills, each in the range of its C type.  The ctx pointer, the
\* floats and the enable fields the parser fixes to 1 are left out.
ArgsOk(h, a) ==
  LET U16 == 0..U16Mod - 1
      U32 == Nat   \* uint32_t: 2^32 exceeds TLC's integers
  IN  CASE h = "cmd"          -> DOMAIN a = {"command"}
        [] h \in {"init", "start", "stop", "teardown"} -> a \in [q : U16]
        [] h \in {"mark", "sol"} -> a \in [q : U16, mark : U32]
        [] h = "rwnd"         -> a \in [q : U16, rwnd : U16]
        [] h = "reorder"      -> a \in [q : U16, count : U16, offset : U16]
        [] h = "drop"         -> a \in [q : U16, n : Int]
        [] h \in {"dedup", "burst", "adapt"} -> a \in [q : U16, enable : Int]
        [] h = "init_sched"   ->
             a \in [q : U16, enable : Int, burst : Int, start : Int,
                    hist : [1..2 -> Int], rtt : [1..2 -> Int]]
        [] OTHER              -> FALSE

Ev(t, h, a) == [time |-> t, h |-> h, arg |-> a]

\* parse_cmd: one command event; the command text is not modelled.
ParseCmd(t, l) == <<Ev(t, "cmd", [command |-> "text"])>>

\* Mutant: the queue is restarted at once, with no gap.
ParseHoNoGap(t, l) ==
  << Ev(t, "stop", [q |-> ToU16(l.q)]),
     Ev(t, "start", [q |-> ToU16(l.q)]),
     Ev(t, "mark", [q |-> ToU16(l.q), mark |-> l.mark]) >>
  \o (IF l.drop > 0
      THEN <<Ev(t, "drop", [q |-> ToU16(l.q), n |-> l.drop])>> ELSE <<>>)
  \o (IF l.count > 0
      THEN <<Ev(t, "reorder", [q |-> ToU16(l.q), count |-> ToU16(l.count),
                               offset |-> ToU16(l.offset)])>>
      ELSE <<>>)

\* parse_ho: stop now, start after the gap, set the mark now, and arm drop
\* and reorder now when their counts are positive.
ParseHo(t, l) ==
  << Ev(t, "stop", [q |-> ToU16(l.q)]),
     Ev(t + l.gap, "start", [q |-> ToU16(l.q)]),
     Ev(t, "mark", [q |-> ToU16(l.q), mark |-> l.mark]) >>
  \o (IF l.drop > 0
      THEN <<Ev(t, "drop", [q |-> ToU16(l.q), n |-> l.drop])>> ELSE <<>>)
  \o (IF l.count > 0
      THEN <<Ev(t, "reorder", [q |-> ToU16(l.q), count |-> ToU16(l.count),
                               offset |-> ToU16(l.offset)])>>
      ELSE <<>>)

\* Mutant: start is added before init.
ParseInitStartFirst(t, l) ==
  << Ev(t, "start", [q |-> ToU16(l.q)]),
     Ev(t, "init", [q |-> ToU16(l.q)]),
     Ev(l.end, "teardown", [q |-> ToU16(l.q)]) >>
  \o (IF l.mark > 0 THEN <<Ev(t, "mark", [q |-> ToU16(l.q), mark |-> l.mark])>>
      ELSE <<>>)

\* parse_init: init now, teardown at end_ms, start now, the mark if > 0.
ParseInit(t, l) ==
  << Ev(t, "init", [q |-> ToU16(l.q)]),
     Ev(l.end, "teardown", [q |-> ToU16(l.q)]),
     Ev(t, "start", [q |-> ToU16(l.q)]) >>
  \o (IF l.mark > 0 THEN <<Ev(t, "mark", [q |-> ToU16(l.q), mark |-> l.mark])>>
      ELSE <<>>)

\* parse_handle_dup
ParseHandleDup(t, l) == <<Ev(t, "dedup", [q |-> ToU16(l.q), enable |-> l.enable])>>

\* parse_init_sched: the active link is always 1; the per-link mark field
\* is parsed and ignored.
ParseInitSched(t, l) ==
  << Ev(t, "init_sched", [q |-> ToU16(l.q), enable |-> l.enable,
                          burst |-> l.burst, start |-> l.start,
                          hist |-> l.hist, rtt |-> l.rtt]) >>

\* Mutant: the adapt event is added before the burst window.
ParseSolutionAdaptFirst(t, l) ==
  LET t2 == t + l.freezeMs
      t3 == t2 + l.burst
  IN  << Ev(t, "sol", [q |-> ToU16(l.q), mark |-> l.mark]) >>
      \o (IF l.adapt > 0
          THEN <<Ev(t3, "adapt", [q |-> ToU16(l.q), enable |-> l.adapt])>> ELSE <<>>)
      \o (IF l.burst > 0
          THEN << Ev(t2, "burst", [q |-> ToU16(l.q), enable |-> 1]),
                  Ev(t3, "burst", [q |-> ToU16(l.q), enable |-> 0]) >>
          ELSE <<>>)

\* parse_handle_solution: sol_update now; the freeze sets the window to the
\* mark (action_set_rwnd raises it to 10); after freeze_ms dedup is set on
\* and, smooth_ms later, set again with the same enable = true argument
\* (the nodedup argument is built but never used); a burst window of
\* burst_duration follows the freeze, and adapt starts when it ends.
ParseSolution(t, l) ==
  LET t2 == t + l.freezeMs
      t3 == t2 + l.burst
  IN  << Ev(t, "sol", [q |-> ToU16(l.q), mark |-> l.mark]) >>
      \o (IF l.freeze > 0
          THEN <<Ev(t, "rwnd", [q |-> ToU16(l.q), rwnd |-> ToU16(l.mark)])>> ELSE <<>>)
      \o (IF l.dedup > 0
          THEN << Ev(t2, "dedup", [q |-> ToU16(l.q), enable |-> 1]),
                  Ev(t2 + l.smooth, "dedup", [q |-> ToU16(l.q), enable |-> 1]) >>
          ELSE <<>>)
      \o (IF l.burst > 0
          THEN << Ev(t2, "burst", [q |-> ToU16(l.q), enable |-> 1]),
                  Ev(t3, "burst", [q |-> ToU16(l.q), enable |-> 0]) >>
          ELSE <<>>)
      \o (IF l.adapt > 0
          THEN <<Ev(t3, "adapt", [q |-> ToU16(l.q), enable |-> l.adapt])>> ELSE <<>>)

\* parse_event: dispatch on the type field; HANDLERW is reserved and adds
\* nothing, an unknown type is reported and adds nothing.
ParseEvent(l) ==
  CASE l.type = EVENT_INIT       -> ParseInit(l.time, l)
    [] l.type = EVENT_CMD        -> ParseCmd(l.time, l)
    [] l.type = EVENT_HO         -> ParseHo(l.time, l)
    [] l.type = EVENT_HANDLEDUP  -> ParseHandleDup(l.time, l)
    [] l.type = EVENT_INIT_SCHED -> ParseInitSched(l.time, l)
    [] l.type = EVENT_HANDLEDSOL -> ParseSolution(l.time, l)
    [] OTHER                     -> <<>>

\* The main loop reads the file line by line into one table; every event
\* gets the next insertion index (the table capacity is Scheduler's concern).
Load(lines) ==
  LET evs == FoldLeft(LAMBDA acc, l : acc \o ParseEvent(l), <<>>, lines)
  IN  [k \in 1..Len(evs) |-> [time |-> evs[k].time, h |-> evs[k].h,
                            arg |-> evs[k].arg, idx |-> k - 1]]

\* scheduler_compare_event, and the order scheduler_run executes the table.
ExecOrder(a, b) == a.time < b.time \/ (a.time = b.time /\ a.idx < b.idx)
Execution(lines) == SortSeq(Load(lines), ExecOrder)
=============================================================================
