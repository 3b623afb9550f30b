---------------------------- MODULE MCTimeline ----------------------------
(***************************************************************************)
(* Checks the expansion of single timeline lines.  The state is the line  *)
(* the parser has just read; the properties compare the order in which    *)
(* scheduler_run will execute that line's events with what the line is   *)
(* meant to do.  Field values are small but cover zero and non-zero       *)
(* gaps, durations and counts, times that tie, and a reorder count past   *)
(* the uint16_t range.                                                     *)
(***************************************************************************)
EXTENDS Timeline

InitLines ==
  [type : {EVENT_INIT}, time : {0, 5}, q : {0}, mark : {1, 2}, end : {3, 9}]
HoLines ==
  [type : {EVENT_HO}, time : {0, 5}, q : {0}, mark : {1, 2}, gap : {0, 2},
   count : {0, 2, 65537}, offset : {1}, drop : {0, 1}]
SolLines ==
  [type : {EVENT_HANDLEDSOL}, time : {0, 5}, q : {0}, mark : {1, 2},
   freeze : {0, 1}, freezeMs : {0, 3}, dedup : {0, 1}, smooth : {0, 2},
   burst : {0, 4}, adapt : {0, 1}]
Lines == InitLines \cup HoLines \cup SolLines

VARIABLE line

Init == line \in Lines

\* main reads the next line of the timeline file.
ReadNext == \E l \in Lines : line' = l

Spec == Init /\ [][ReadNext]_line

\* The handlers of the line, in the order scheduler_run executes them.
Run == Execution(<<line>>)
Pos(h) == {k \in DOMAIN Run : Run[k].h = h}

\* Every event a line expands to carries an argument that fits the struct
\* of its action in src/action.h: whatever the integers on the line, each
\* uint16_t field (queue number, reorder count and offset, window) holds a
\* value of 0..65535 once parse_* has stored it.
TypeOK == \A k \in DOMAIN Run : Run[k].time \in Int /\ ArgsOk(Run[k].h, Run[k].arg)

\* Spec section 8: an INIT line "t,0,q,m,end" with end after t runs
\* init-queue, start-queue, set-mark at t and teardown-queue at end, in
\* that order (src/event.c parse_init).
InitExpansionMatchesSpec ==
  line.type = EVENT_INIT /\ line.end > line.time =>
    /\ [k \in DOMAIN Run |-> Run[k].h] = <<"init", "start", "mark", "teardown">>
    /\ [k \in DOMAIN Run |-> Run[k].time] = <<line.time, line.time, line.time, line.end>>

\* A SOLUTION line hands over first and adapts last: sol_update runs before
\* every other handler of the line, and adapt runs only after the burst
\* window has been closed, so the burst result is folded into the link
\* history before adapt seeds the window from it (parse_handle_solution).
SolutionPhases ==
  line.type = EVENT_HANDLEDSOL =>
    /\ Run[1].h = "sol"
    /\ \A a \in Pos("adapt"), b \in Pos("burst") : Run[b].arg.enable = 0 => b < a

\* parse_handle_solution builds a set_dedup(false) argument for the end of
\* the smoothing window: after the line's events have run, dedup is off.
DedupWindowCloses ==
  line.type = EVENT_HANDLEDSOL /\ line.dedup > 0 =>
    \A k \in Pos("dedup") :
      (\A j \in Pos("dedup") : j <= k) => Run[k].arg.enable = 0

\* A HANDOVER line stops the queue, sets the new mark and arms drop and
\* reorder, then restarts it: no packet is let through between the restart
\* and the new configuration (src/event.c parse_ho).
HandoverConfiguresBeforeRestart ==
  line.type = EVENT_HO =>
    \A s \in Pos("start"), c \in Pos("mark") \cup Pos("drop") \cup Pos("reorder") :
      c < s

\* Spec section 8: a HANDOVER line with reorder count c holds c packets
\* and releases them after offset more: the reorder event carries the
\* count and offset written on the line (parse_ho passes them through the
\* uint16_t fields of action_set_reorder_args).
ReorderArgsFaithful ==
  line.type = EVENT_HO =>
    \A k \in Pos("reorder") : Run[k].arg.count = line.count /\ Run[k].arg.offset = line.offset
=============================================================================
