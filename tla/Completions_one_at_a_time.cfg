SPECIFICATION FairSpec
CONSTANTS
  alice = alice
  bob = bob
  t1 = t1
  m1 = m1
  m2 = m2
  Users = {alice, bob}
  Tasks = {t1}
  Months = {m1, m2}
  Files = {f1, f2, f3}
  Requests = {r1}
  Owner <- MCOwner
  Ops = {"toggle", "skip", "upload", "unreceipt", "delete", "share"}
  Faults = {"file"}
  NoFile = NoFile
  NoKey = NoKey
  NoCall = NoCall
INVARIANTS NoStrayAtRest ReceiptOnlyOnCompleted
PROPERTY StrayFilesGo
