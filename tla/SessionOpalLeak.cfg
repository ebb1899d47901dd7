CONSTANTS
  NoOne = NoOne
  Procs = {p1, p2}
  Eprise = FALSE
  Serial = TRUE
  WhenBusy = {"refuse", "replace"}
  MaxMethods = 2
SPECIFICATION FairSpec
INVARIANTS DestructorEndsSession
CHECK_DEADLOCK FALSE
