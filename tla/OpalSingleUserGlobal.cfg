SPECIFICATION Spec
CONSTANTS
  MaxRange = 1
  Empty = Empty
  MSID = MSID
  PSID = PSID
  Passwords = {Empty, MSID, PSID}
  Nowhere = Nowhere
  Places = {Nowhere, here}
  Features = {"Locking", "SingleUser"}
  Procs = {p1}
  NoOne = NoOne
  Commands <- SingleUserSetup
  Entered = {Empty, MSID, PSID}
  NoHash <- Hashed
PROPERTIES
  SetupSUMRunsThrough
