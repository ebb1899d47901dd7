SPECIFICATION Spec
CONSTANTS
  CommandLines <- AllLines
  Disks <- AllDisks
  PacketLimits = {1950, 2048, 9000, 9216, 65536}
  TokenLimits = {1950, 2048, 9000, 9216, 65536}
  FileSizes = {0, 1840, 4000, 20000, 123000}
INVARIANTS TypeOK ArgumentsAsUsage HandlerSeesItsDisk Fits FitsDisk LoadedWhole
PROPERTY Ends
CHECK_DEADLOCK FALSE
