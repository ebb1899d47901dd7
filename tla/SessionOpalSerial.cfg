CONSTANTS
  NoOne = NoOne
  Procs = {p1, p2}
  Eprise = FALSE
  Serial = TRUE
  WhenBusy = {"refuse", "replace"}
  MaxMethods = 2
SPECIFICATION FairSpec
INVARIANTS TypeOK OwnAnswer OwnSession HostViewIsTrue OnlyAbortedRevertLeaks
PROPERTIES Terminates
CHECK_DEADLOCK FALSE
