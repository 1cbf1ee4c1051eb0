SPECIFICATION FairSpec
CONSTANTS
  Handlers = {h1, h2}
  Capacity = 2
  MaxEntries = 4
INVARIANTS TypeOK InOrder Accounted
PROPERTY Settled
CHECK_DEADLOCK FALSE
