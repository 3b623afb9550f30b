CONSTANTS
  Script <- OneQueueScript
  InitStatus = {"STOPPED"}
  InitFails = {FALSE}
  TeardownFails = {FALSE}
  MaxPackets = 1
  MaxTicks = 0
SPECIFICATION Spec
INVARIANTS CaptureUsesLiveObjects
