CONSTANTS
  AckMod = 4096
  IntLimit = 2048
  RwDiv = 4
  WndMod = 256
  InitArgs <- MCInitArgs
  Acks = {100, 200}
  Windows = {30, 60}
  Marks = {1, 2}
  RwndArgs = {2}
  MaxPackets = 2
  MaxTicks = 2
  MaxCmds = 2
  Garbage = {0, 7}
SPECIFICATION Spec
PROPERTIES BurstMonotone
