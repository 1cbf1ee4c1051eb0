SPECIFICATION Spec
CONSTANTS
  Months = {m1}
  Valid = {ten, twenty}
  Invalid = {}
  Requests = {r1}
  Ops = {"toggle", "skip", "update"}
  Empty = Empty
  Absent = Absent
  NoCall = NoCall
PROPERTY CompletedAtCurrentAmount
