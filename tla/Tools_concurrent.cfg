SPECIFICATION ToolsSpec
CONSTANTS
  Months = {m1}
  ten = ten
  t2 = t2
  Valid = {zero, ten}
  Invalid = {}
  Requests = {r1, r2}
  Ops = {"toggle", "skip", "patch", "update", "import"}
  Empty = Empty
  Absent = Absent
  NoCall = NoCall
  Agents = {a1}
  Names = {"complete", "uncomplete", "edit"}
  Titles = {t1, t2}
  Bare = Bare
  Metas = {Bare}
  Zero = zero
  Edits <- OneField
  NoSlot = NoSlot
SYMMETRY Interchangeable
CONSTRAINT Apart
INVARIANTS TypeOK ReportTrue
PROPERTIES HistoryKept LoggedAmountKept CompleteNeverUndoesSilently EditKeepsOtherFields
