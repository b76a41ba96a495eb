\* Two processes run passes over one file that is edited under them.
CONSTANTS
  v1 = v1   v2 = v2   p1 = p1   p2 = p2
  one = one   two = two   t1 = t1   w1 = w1   w2 = w2
  Proc = {w1, w2}
  Vault = {v1}
  Path = {p1}
  Body = {one, two}
  Tag = {}
  Task = {}
  Model = {}
  Stamp <- MCStamp
  NumChunks <- MCNumChunks
  TagsOf <- MCNoTags
  TasksOf <- MCTasksOf
  SizeOf <- MCSizeOf
  LinksOf <- MCLinksOf
  NoRow = NoRow
  NoDelete = NoDelete
  NoFile = NoFile
  NoBody = NoBody
  NoWork = NoWork
  NoJob = NoJob
  Retention = {0}
  MaxRowId = 2
  BacklinkScoring = TRUE
  Ticks <- Apart
  MaxEdits = 3
  Renames = FALSE
SPECIFICATION BatchSpec
SYMMETRY WriterSymmetry
INVARIANTS NoFalseSkip ChartSettles
