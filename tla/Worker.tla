------------------------------- MODULE Worker -------------------------------
(***************************************************************************)
(* The packet worker of one NFQUEUE (src/src/worker.c): the capture        *)
(* thread running worker_callback on every packet, and the scheduler       *)
(* thread reconfiguring the worker through worker_set_*.                   *)
(*                                                                         *)
(* worker_callback runs four stages, each under its own mutex (drop_lock,  *)
(* reorder_lock, dedup_lock, rwnd_lock), and stops at the first stage that *)
(* handles the packet.  A stage is one atomic step here; the scheduler     *)
(* thread's commands take the same mutexes and so interleave between the   *)
(* stages of a packet, never inside one.                                   *)
(*                                                                         *)
(* A packet is abstracted to its id, its kind and its ack number:          *)
(*   "ack"   a TCP segment without payload (a pure ACK),                   *)
(*   "data"  a TCP segment with payload,                                   *)
(*   "udp"   a long enough IP packet of another protocol,                  *)
(*   "short" a packet shorter than the IP and TCP headers.                 *)
(* For "udp" the ack is whatever bytes sit where a TCP ack would be.       *)
(* The advertised window and its rewrite are left to the Controller        *)
(* module; here the window stage decides the verdict and updates last_ack. *)
(***************************************************************************)
EXTENDS Integers, Sequences, SequencesExt, FiniteSets

CONSTANTS
  Acks,          \* ack numbers packets carry (a few values of the 32-bit space)
  Kinds,         \* packet kinds that arrive
  Marks,         \* marks set_mark may set
  DropCounts,    \* drop budgets set_drop may arm
  ReorderArgs,   \* <<count, offset>> pairs set_reorder may arm
  MaxReorder,    \* WORKER_MAX_REORDER_COUNT, capacity of reorder_ids
  MaxPackets,    \* bound on the packets the queue delivers
  MaxCmds        \* bound on the commands the scheduler thread issues

ASSUME MaxReorder \in Nat \ {0} /\ MaxPackets \in Nat /\ MaxCmds \in Nat
ASSUME Kinds \subseteq {"ack", "data", "udp", "short"}

VARIABLES
  mark,                                  \* ctx->mark
  doDrop, dropCount,                     \* drop sub-state
  doReorder, reorderCount, reorderOffset, reorderIds, \* reorder sub-state
  doDedup,                               \* dedup sub-state
  doRwnd, lastAck,                       \* window sub-state read here
  pc,      \* capture thread: "recv" or the stage the current packet is at
  pkt,     \* the packet worker_callback is handling
  nextId,  \* NFQUEUE packet ids are assigned in arrival order
  cmds,    \* commands issued so far by the scheduler thread
  verdicts,   \* history: nfq_set_verdict calls, in order
  arrived,    \* history: packets delivered to worker_callback, in order
  dropArm,    \* history: budget of the last set_drop(1, n), and when
  reorderArm  \* history: clamped count of the last set_reorder(1, c, o)

cfgVars == <<mark, doDrop, dropCount, doReorder, reorderCount, reorderOffset,
             reorderIds, doDedup, doRwnd, lastAck>>
vars == <<cfgVars, pc, pkt, nextId, cmds, verdicts, arrived, dropArm,
          reorderArm>>

Packet == [id : Nat, kind : Kinds, ack : Acks]
Verdict == [id : Nat, v : {"accept", "drop"}, mark : Marks \cup {0},
            stage : {"drop", "reorder", "dedup", "rwnd", "default"}]

TypeOK ==
  /\ mark \in Marks \cup {0}
  /\ doDrop \in BOOLEAN /\ dropCount \in Int
  /\ doReorder \in BOOLEAN /\ reorderCount \in Int /\ reorderOffset \in Int
  /\ reorderIds \in Seq(Nat) /\ Len(reorderIds) <= MaxReorder
  /\ doDedup \in BOOLEAN /\ doRwnd \in BOOLEAN /\ lastAck \in Acks
  /\ pc \in {"recv", "drop", "reorder", "dedup", "rwnd", "default"}
  /\ pkt \in Packet
  /\ nextId \in 0..MaxPackets /\ cmds \in 0..MaxCmds
  /\ verdicts \in Seq(Verdict) /\ arrived \in Seq(Packet)

(* worker_init_ctx: every do_* flag cleared and mark 0.  last_ack is never *)
(* initialised (the ctx comes from malloc), so it holds any value.         *)
Init ==
  /\ mark = 0
  /\ doDrop = FALSE /\ dropCount = 0
  /\ doReorder = FALSE /\ reorderCount = 0 /\ reorderOffset = 0
  /\ reorderIds = <<>>
  /\ doDedup = FALSE /\ doRwnd = FALSE
  /\ lastAck \in Acks
  /\ pc = "recv"
  /\ pkt = [id |-> 0, kind |-> CHOOSE k \in Kinds : TRUE, ack |-> CHOOSE a \in Acks : TRUE]
  /\ nextId = 0 /\ cmds = 0
  /\ verdicts = <<>> /\ arrived = <<>>
  /\ dropArm = [n |-> 0, at |-> 0] /\ reorderArm = 0

IsTcp(p) == p.kind \in {"ack", "data"}

\* nfq_set_verdict / nfq_set_verdict2 for packet id, with the mark loaded now.
SetVerdict(id, v, stage) == [id |-> id, v |-> v, mark |-> mark, stage |-> stage]

-----------------------------------------------------------------------------
(* Capture thread: nfq_run receives a packet and worker_callback runs. *)

Receive ==
  /\ pc = "recv"
  /\ nextId < MaxPackets
  /\ \E k \in Kinds, a \in Acks :
       /\ pkt' = [id |-> nextId, kind |-> k, ack |-> a]
       /\ arrived' = Append(arrived, pkt')
  /\ nextId' = nextId + 1
  /\ pc' = "drop"
  /\ UNCHANGED <<cfgVars, cmds, verdicts, dropArm, reorderArm>>

\* Mutant: the mode disarms one drop early.
StillArmedEarlyStop == doDrop /\ dropCount - 1 > 1

\* After the decrement the drop mode stays armed while drop_count > 0.
StillArmed == doDrop /\ dropCount - 1 > 0

\* worker_handle_drop: drop while drop_count-- > 0, disarm when it reaches 0.
HandleDrop ==
  /\ pc = "drop"
  /\ LET drops == doDrop /\ dropCount > 0 IN
       /\ dropCount' = IF doDrop THEN dropCount - 1 ELSE dropCount
       /\ doDrop' = StillArmed
       /\ verdicts' = IF drops THEN Append(verdicts, SetVerdict(pkt.id, "drop", "drop"))
                      ELSE verdicts
       /\ pc' = IF drops THEN "recv" ELSE "reorder"
  /\ UNCHANGED <<mark, doReorder, reorderCount, reorderOffset, reorderIds,
                 doDedup, doRwnd, lastAck, pkt, nextId, cmds, arrived,
                 dropArm, reorderArm>>

\* The release loop of worker_handle_reorder: from reorder_id_cur - 1 down
\* to 0, i.e. most recently buffered first.
Release(ids) == [k \in 1..Len(ids) |-> SetVerdict(Reverse(ids)[k], "accept", "reorder")]

\* worker_handle_reorder: while armed the stage handles every packet.  It
\* buffers while reorder_count-- > 0, else accepts while reorder_offset-- > 0,
\* and flushes the buffer and disarms as soon as reorder_offset <= 0.
Buffers == reorderCount > 0
Passes == ~Buffers /\ reorderOffset > 0
OffsetAfter == IF Buffers THEN reorderOffset ELSE reorderOffset - 1
\* Mutant: the id is stored before deciding whether to buffer it.
BufferAfterAlways == Append(reorderIds, pkt.id)
BufferAfter == IF Buffers THEN Append(reorderIds, pkt.id) ELSE reorderIds
Flushes == OffsetAfter <= 0

HandleReorder ==
  /\ pc = "reorder"
  /\ IF doReorder
     THEN /\ reorderCount' = reorderCount - 1
          /\ reorderOffset' = OffsetAfter
          /\ reorderIds' = IF Flushes THEN <<>> ELSE BufferAfter
          /\ doReorder' = ~Flushes
          /\ verdicts' = verdicts
                \o (IF Passes THEN <<SetVerdict(pkt.id, "accept", "reorder")>> ELSE <<>>)
                \o (IF Flushes THEN Release(BufferAfter) ELSE <<>>)
          /\ pc' = "recv"
     ELSE /\ pc' = "dedup"
          /\ UNCHANGED <<doReorder, reorderCount, reorderOffset, reorderIds, verdicts>>
  /\ UNCHANGED <<mark, doDrop, dropCount, doDedup, doRwnd, lastAck, pkt,
                 nextId, cmds, arrived, dropArm, reorderArm>>

\* worker_handle_dedup: drop a segment whose ack equals last_ack and whose
\* length is at most the IP plus TCP header lengths.  Only the length is
\* checked, not the protocol: for a non-TCP packet the "TCP header" is its
\* payload, so whether it looks payload-free depends on bytes not modelled.
HandleDedup ==
  /\ pc = "dedup"
  /\ \E looksEmpty \in (CASE pkt.kind = "ack"  -> {TRUE}
                          [] pkt.kind = "data" -> {FALSE}
                          [] OTHER             -> BOOLEAN) :
       LET drops == /\ doDedup
                    /\ pkt.kind # "short"
                    /\ pkt.ack = lastAck
                    /\ looksEmpty
       IN /\ verdicts' = IF drops THEN Append(verdicts, SetVerdict(pkt.id, "drop", "dedup"))
                         ELSE verdicts
          /\ pc' = IF drops THEN "recv" ELSE "rwnd"
  /\ UNCHANGED <<cfgVars, pkt, nextId, cmds, arrived, dropArm, reorderArm>>

\* worker_handle_rwnd: with do_rwnd a TCP packet is accepted (its window
\* possibly rewritten).  last_ack is then set from tcph->ack_seq on every
\* path; on the early exits for a short or non-TCP packet tcph was never
\* assigned, so the value read is undefined.
HandleRwnd ==
  /\ pc = "rwnd"
  /\ LET handled == doRwnd /\ IsTcp(pkt) IN
       /\ verdicts' = IF handled THEN Append(verdicts, SetVerdict(pkt.id, "accept", "rwnd"))
                      ELSE verdicts
       /\ pc' = IF handled THEN "recv" ELSE "default"
  /\ IF IsTcp(pkt) THEN lastAck' = pkt.ack ELSE lastAck' \in Acks
  /\ UNCHANGED <<mark, doDrop, dropCount, doReorder, reorderCount,
                 reorderOffset, reorderIds, doDedup, doRwnd, pkt, nextId,
                 cmds, arrived, dropArm, reorderArm>>

\* The tail of worker_callback: accept unmodified with the current mark.
HandleDefault ==
  /\ pc = "default"
  /\ verdicts' = Append(verdicts, SetVerdict(pkt.id, "accept", "default"))
  /\ pc' = "recv"
  /\ UNCHANGED <<cfgVars, pkt, nextId, cmds, arrived, dropArm, reorderArm>>

-----------------------------------------------------------------------------
(* Scheduler thread: the worker_set_* commands the actions call. *)

Command == cmds < MaxCmds /\ cmds' = cmds + 1

\* worker_set_mark: an atomic store.
SetMark(m) ==
  /\ Command
  /\ mark' = m
  /\ UNCHANGED <<doDrop, dropCount, doReorder, reorderCount, reorderOffset,
                 reorderIds, doDedup, doRwnd, lastAck, pc, pkt, nextId,
                 verdicts, arrived, dropArm, reorderArm>>

\* worker_set_drop(ctx, enable, n): the parser only ever enables.
SetDrop(n) ==
  /\ Command
  /\ doDrop' = TRUE /\ dropCount' = n
  /\ dropArm' = [n |-> n, at |-> Len(verdicts)]
  /\ UNCHANGED <<mark, doReorder, reorderCount, reorderOffset, reorderIds,
                 doDedup, doRwnd, lastAck, pc, pkt, nextId, verdicts, arrived,
                 reorderArm>>

\* Mutant: the count is not clamped to WORKER_MAX_REORDER_COUNT.
SetReorderUnclamped(c, o) ==
  /\ Command
  /\ doReorder' = TRUE
  /\ reorderCount' = c /\ reorderOffset' = o
  /\ reorderIds' = <<>>
  /\ reorderArm' = c
  /\ UNCHANGED <<mark, doDrop, dropCount, doDedup, doRwnd, lastAck, pc, pkt,
                 nextId, verdicts, arrived, dropArm>>

\* worker_set_reorder(ctx, 1, c, o): c is clamped to the buffer capacity;
\* arming resets reorder_id_cur whatever the buffer still holds.
SetReorder(c, o) ==
  LET count == IF c > MaxReorder THEN MaxReorder ELSE c IN
  /\ Command
  /\ doReorder' = TRUE
  /\ reorderCount' = count /\ reorderOffset' = o
  /\ reorderIds' = <<>>
  /\ reorderArm' = count
  /\ UNCHANGED <<mark, doDrop, dropCount, doDedup, doRwnd, lastAck, pc, pkt,
                 nextId, verdicts, arrived, dropArm>>

\* worker_set_dedup(ctx, enable)
SetDedup(on) ==
  /\ Command
  /\ doDedup' = on
  /\ UNCHANGED <<mark, doDrop, dropCount, doReorder, reorderCount,
                 reorderOffset, reorderIds, doRwnd, lastAck, pc, pkt, nextId,
                 verdicts, arrived, dropArm, reorderArm>>

\* worker_init_tcp_sched(ctx, do_rwnd): the part read by the pipeline.
InitTcpSched(on) ==
  /\ Command
  /\ doRwnd' = on
  /\ UNCHANGED <<mark, doDrop, dropCount, doReorder, reorderCount,
                 reorderOffset, reorderIds, doDedup, lastAck, pc, pkt, nextId,
                 verdicts, arrived, dropArm, reorderArm>>

\* Every packet has been delivered and every command issued.
Quiescent ==
  /\ pc = "recv" /\ nextId = MaxPackets /\ cmds = MaxCmds
  /\ UNCHANGED vars

Next ==
  \/ Receive \/ HandleDrop \/ HandleReorder \/ HandleDedup \/ HandleRwnd
  \/ HandleDefault
  \/ \E m \in Marks : SetMark(m)
  \/ \E n \in DropCounts : SetDrop(n)
  \/ \E a \in ReorderArgs : SetReorder(a[1], a[2])
  \/ \E on \in BOOLEAN : SetDedup(on)
  \/ \E on \in BOOLEAN : InitTcpSched(on)
  \/ Quiescent

Spec == Init /\ [][Next]_vars

-----------------------------------------------------------------------------
(* Properties *)

\* No packet is given two verdicts: a packet the reorder stage held back is
\* released by exactly one flush, and nothing else gives it a verdict.
NoDoubleVerdict ==
  \A j, k \in DOMAIN verdicts : j # k => verdicts[j].id # verdicts[k].id

\* Spec section 8: arming drop with budget N drops exactly the next N
\* packets that reach the drop stage; the mode disarms after the Nth drop.
DroppedSinceArm ==
  Cardinality({k \in DOMAIN verdicts : k > dropArm.at /\ verdicts[k].stage = "drop"})
DropBudget ==
  /\ DroppedSinceArm <= dropArm.n
  /\ ~doDrop => DroppedSinceArm = dropArm.n

\* Every packet handed to worker_callback either has a verdict, is the one
\* being handled, or is held in the live reorder buffer: none is left in
\* the kernel queue without a verdict.
Orphans ==
  {p.id : p \in ToSet(arrived)}
    \ ({v.id : v \in ToSet(verdicts)} \cup ToSet(reorderIds)
       \cup (IF pc = "recv" THEN {} ELSE {pkt.id}))
NoOrphanedPackets == Orphans = {}

\* Spec section 8: arming reorder with (C, O) buffers the first C packets
\* (C clamped to the buffer capacity), passes the next O, then flushes.  So
\* when the reorder stage flushes, it flushes as many packets as were armed.
ReorderFlushComplete ==
  [][pc = "reorder" /\ doReorder /\ Flushes => Len(BufferAfter) = reorderArm]_vars

\* Spec section 8: dedup drops only a pure TCP ACK that repeats the ack
\* number of an earlier TCP segment of the queue; nothing else is dropped.
DedupDropsOnlyRepeats ==
  \A k \in DOMAIN verdicts :
    verdicts[k].stage = "dedup" =>
      LET p == arrived[verdicts[k].id + 1] IN
        /\ p.kind = "ack"
        /\ \E j \in 1..p.id : IsTcp(arrived[j]) /\ arrived[j].ack = p.ack
=============================================================================
