CONSTANTS
  Script <- TwoQueueScript
  InitStatus = {"STOPPED"}
  InitFails = {FALSE}
  TeardownFails = {FALSE}
  MaxPackets = 0
  MaxTicks = 2
SPECIFICATION Spec
INVARIANTS TickUsesLiveWorker
