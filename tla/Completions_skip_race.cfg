SPECIFICATION Spec
CONSTANTS
  alice = alice
  bob = bob
  t1 = t1
  m1 = m1
  m2 = m2
  Users = {alice, bob}
  Tasks = {t1}
  Months = {m1, m2}
  Files = {f1}
  Requests = {r1, r2}
  Owner <- MCOwner
  Ops = {"toggle", "skip"}
  Faults = {}
  NoFile = NoFile
  NoKey = NoKey
  NoCall = NoCall
PROPERTY SkipLeavesCompletedAlone
