---------------------------- MODULE EventOrder ----------------------------
(***************************************************************************)
(* What the event scheduler promises (spec sections 4.4 and 8), with no   *)
(* table layout, no sort and no controller ticks: while the timeline is    *)
(* read, each line submits its events, stamped with consecutive insertion *)
(* indices, as long as the table has room; once running, the pending     *)
(* event that is earliest by (time, index) runs next; every pending event *)
(* eventually runs and the run then ends.                                  *)
(***************************************************************************)
EXTENDS Integers, Sequences, SequencesExt

CONSTANTS
  Lines,     \* the event groups a timeline line may submit
  Capacity,  \* room for events
  MaxLines   \* bound on the number of lines

VARIABLES
  pending,   \* submitted events not yet run, each [time, h, arg, idx]
  count,     \* events submitted so far
  stage,     \* "load", "run" or "done"
  ran,       \* the events in the order they ran
  lines      \* lines read so far

avars == <<pending, count, stage, ran, lines>>

\* (time, index) order of the promise.
Earlier(a, b) == a.time < b.time \/ (a.time = b.time /\ a.idx < b.idx)

\* The events of group l that fit, stamped from index n on.
Stamped(l, n) ==
  LET fit == IF Len(l) <= Capacity - n THEN Len(l) ELSE Capacity - n
  IN  {[time |-> l[k].time, h |-> l[k].h, arg |-> l[k].arg, idx |-> n + k - 1] :
         k \in 1..fit}

Init ==
  /\ pending = {} /\ count = 0 /\ stage = "load" /\ ran = <<>> /\ lines = 0

Submit(l) ==
  /\ stage = "load"
  /\ lines < MaxLines
  /\ pending' = pending \cup Stamped(l, count)
  /\ count' = count + Cardinality(Stamped(l, count))
  /\ lines' = lines + 1
  /\ UNCHANGED <<stage, ran>>

Begin ==
  /\ stage = "load"
  /\ stage' = IF count = 0 THEN "done" ELSE "run"
  /\ UNCHANGED <<pending, count, ran, lines>>

Execute ==
  /\ stage = "run"
  /\ \E e \in pending :
       /\ \A f \in pending \ {e} : Earlier(e, f)
       /\ pending' = pending \ {e}
       /\ ran' = Append(ran, e)
       /\ stage' = IF pending' = {} THEN "done" ELSE "run"
  /\ UNCHANGED <<count, lines>>

Done == stage = "done" /\ UNCHANGED avars

Next == (\E l \in Lines : Submit(l)) \/ Begin \/ Execute \/ Done

Spec == Init /\ [][Next]_avars /\ WF_avars(Begin \/ Execute)
=============================================================================
