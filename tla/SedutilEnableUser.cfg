SPECIFICATION Spec
CONSTANTS
  CommandLines <- EnableUserLines
  Disks <- OneDisk
  PacketLimits = {1950, 2048, 9000, 9216}
  TokenLimits = {1950, 2048, 9000, 9216}
  FileSizes = {0}
INVARIANT DeviceIsLast
CHECK_DEADLOCK FALSE
