SPECIFICATION Spec
CONSTANTS
  MaxRange = 0
  Empty = Empty
  MSID = MSID
  PSID = PSID
  Passwords = {Empty, MSID, PSID}
  Nowhere = Nowhere
  Places = {Nowhere}
  Features = {"Locking", "SingleUser"}
  Procs = {p1, p2}
  NoOne = NoOne
  Commands <- Racing
  Entered = {Empty, MSID, PSID}
  NoHash <- Hashed
PROPERTIES
  OwnershipKept
SYMMETRY Symmetry
