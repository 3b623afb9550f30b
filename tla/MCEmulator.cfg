CONSTANTS
  Script <- HandoverScript
  InitStatus = {"STOPPED", "other"}
  InitFails = {FALSE, TRUE}
  TeardownFails = {FALSE, TRUE}
  MaxPackets = 4
  MaxTicks = 1
  Acks = {10}
  Kinds = {"ack"}
  Marks = {1, 2}
  DropCounts = {1}
  ReorderArgs <- OneReorder
  MaxReorder = 2
  MaxCmds = 6
SPECIFICATION Spec
INVARIANTS HandoverMarkApplies AtMostOneAfterStop
