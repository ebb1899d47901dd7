SPECIFICATION Spec
CONSTANTS
  MaxRange = 1
  Empty = Empty
  MSID = MSID
  PSID = PSID
  Passwords = {Empty, MSID, PSID, right, wrong}
  Nowhere = Nowhere
  Places = {Nowhere}
  Features = {"Locking", "SingleUser"}
  Devices = 2
  Owners = {right}
  Typed = {right, wrong}
  NoHash = {FALSE, TRUE}
  Provisioned <- SetUp
INVARIANTS
  UnlockedIsOpen
  FailedIsShut
  PassPhraseOpens
