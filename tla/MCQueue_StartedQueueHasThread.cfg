CONSTANTS
  Script <- OneQueueScript
  InitStatus = {"STOPPED", "DEAD"}
  InitFails = {FALSE}
  TeardownFails = {FALSE}
  MaxPackets = 0
  MaxTicks = 0
SPECIFICATION Spec
INVARIANTS StartedQueueHasThread
