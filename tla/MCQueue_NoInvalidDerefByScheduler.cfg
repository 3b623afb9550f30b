CONSTANTS
  Script <- OneQueueScript
  InitStatus = {"STOPPED"}
  InitFails = {FALSE, TRUE}
  TeardownFails = {FALSE}
  MaxPackets = 0
  MaxTicks = 0
SPECIFICATION Spec
INVARIANTS NoInvalidDerefByScheduler
