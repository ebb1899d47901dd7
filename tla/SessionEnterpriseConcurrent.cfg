CONSTANTS
  NoOne = NoOne
  Procs = {p1, p2}
  Eprise = TRUE
  Serial = FALSE
  WhenBusy = {"refuse"}
  MaxMethods = 1
SPECIFICATION FairSpec
PROPERTIES Terminates TimeoutFreesSlot
CHECK_DEADLOCK FALSE
