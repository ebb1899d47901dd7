SPECIFICATION Spec
CONSTANTS
  BandSeq <- ThreeBands
  Empty = Empty
  MSID = MSID
  PSID = PSID
  Passwords = {Empty, MSID, PSID}
  Nowhere = Nowhere
  Places = {Nowhere, here}
  Plain = {}
  Enabled = {0}
  Named = {2, 3}
  Commands <- Provisioning
  Entered = {Empty, PSID}
  NoHash <- Hashed
INVARIANTS
  TypeOK
  GuardedBandLocks
PROPERTIES
  SuccessMeansDone
  CleanFailureIsAtomic
  MSIDFinishes
  PSIDRecovers
