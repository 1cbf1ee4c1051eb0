SPECIFICATION ToolsSpec
CONSTANTS
  Months = {m1}
  ten = ten
  t2 = t2
  Valid = {zero, ten}
  Invalid = {}
  Requests = {r1}
  Ops = {"toggle", "update"}
  Empty = Empty
  Absent = Absent
  NoCall = NoCall
  Agents = {a1}
  Names = {"edit"}
  Titles = {t1, t2}
  Bare = Bare
  Metas = {Bare, own}
  Zero = zero
  Edits <- OneField
  NoSlot = NoSlot
PROPERTY EditKeepsMetadata
