CONSTANTS
  Acks = {10, 20}
  Kinds = {"ack", "data"}
  Marks = {1, 2}
  DropCounts = {1, 2}
  ReorderArgs <- MCReorderArgs
  MaxReorder = 2
  MaxPackets = 3
  MaxCmds = 2
SPECIFICATION Spec
INVARIANTS DedupDropsOnlyRepeats
