SPECIFICATION ReportSpec
CONSTANTS
  Months = {m1}
  Zero = zero
  Valid = {zero, ten}
  Invalid = {}
  Requests = {r1}
  Ops = {"toggle", "skip", "patch", "update"}
  Empty = Empty
  Absent = Absent
  NoCall = NoCall
INVARIANT PaidIsLogged
