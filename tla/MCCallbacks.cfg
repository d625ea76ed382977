SPECIFICATION FairSpec
CONSTANTS
  Runes <- MCRunes
  FastPathTime = 15
  Req = {1, 2}
  Inputs <- MCInputs
INVARIANTS TypeOK IntakeIsFaithful ResultIsTrue ConnectionsKept
PROPERTY Judged
CHECK_DEADLOCK FALSE
