SPECIFICATION FairSpec
CONSTANTS
  Addrs = {a1, a2}
  Requests = {r1, r2}
  MaxFailures = 3
  Window = 2
  NoAddr = NoAddr
INVARIANTS TypeOK FailuresBounded
PROPERTIES WindowSpec BlockLifts
