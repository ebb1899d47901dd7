SPECIFICATION Spec
CONSTANTS
  MaxRange = 0
  Empty = Empty
  MSID = MSID
  PSID = PSID
  Passwords = {Empty, MSID, PSID, s1, s2}
  Nowhere = Nowhere
  Places = {Nowhere}
  Features = {"Locking"}
  Procs = {p1}
  NoOne = NoOne
  Commands <- Provisioning
  Entered = {Empty, MSID, PSID, s1, s2}
  NoHash <- Hashed
PROPERTIES
  SuccessMeansDone
  CleanFailureIsAtomic
  PSIDRecovers
  ShadowStaysDown
  OwnershipKept
