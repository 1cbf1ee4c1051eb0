SPECIFICATION CsvSpec
CONSTANTS
  rent = rent
  gym = gym
  Tasks = {t1, t2}
  Users = {u1, u2}
  Labels = {rent, gym}
  Intervals = {1, 2}
  FirstMonth = 1
  LastMonth = 2
  History = 2
  Forecast = 1
  Shapes <- SomeShapes
  NoMonth = NoMonth
  NoTask = NoTask
  Statuses = {"completed", "skipped"}
  Untyped = {}
  HandMade <- TwoFiles
  NoRow = NoRow
SYMMETRY Interchangeable
CONSTRAINT Few
INVARIANTS ViewsAgree
PROPERTIES RestoredIsShown ImportIsExact
