SPECIFICATION SignOnSpec
CONSTANTS
  Addrs = {a1, a2}
  Requests = {r1, r2}
  MaxFailures = 1
  Window = 0
  NoAddr = NoAddr
  Flows = {f1, f2}
  People = {p1, p2}
  Ids = {1, 2}
  TTL = 0
  NoFlow = NoFlow
  NoOne = NoOne
SYMMETRY Interchangeable
INVARIANTS OwnSession SignOnIsOwn
