CONSTANTS
  Script <- OneQueueScript
  InitStatus = {"STOPPED", "RUNNING", "other"}
  InitFails = {FALSE, TRUE}
  TeardownFails = {FALSE, TRUE}
  MaxPackets = 3
  MaxTicks = 1
SPECIFICATION Spec
INVARIANTS AtMostOneAfterStop StartedQueueHasThread
