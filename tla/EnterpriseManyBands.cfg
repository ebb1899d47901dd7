SPECIFICATION Spec
CONSTANTS
  BandSeq <- ManyBands
  Empty = Empty
  MSID = MSID
  PSID = PSID
  Passwords = {Empty, MSID, PSID}
  Nowhere = Nowhere
  Places = {Nowhere}
  Plain = {}
  Enabled = {0, 1, 256}
  Named = {0, 1, 256}
  Commands <- Passwording
  Entered = {Empty, PSID}
  NoHash <- Hashed
PROPERTIES
  OnlyNamedMaster
