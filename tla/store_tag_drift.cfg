\* A file is reindexed between the tag read and the delete transaction.
CONSTANTS
  v1 = v1   v2 = v2   p1 = p1   p2 = p2
  short = short   long = long   t1 = t1   k1 = k1   m1 = m1   w1 = w1   w2 = w2
  Proc = {w1, w2}
  Vault = {v1}
  Path = {p1}
  Body = {short, long}
  Tag = {t1}
  Task = {k1}
  Model = {}
  Stamp <- OneStamp
  NumChunks <- MCNumChunks
  TagsOf <- MCTagsOf
  TasksOf <- MCTasksOf
  NoRow = NoRow
  NoDelete = NoDelete
  MaxRowId = 5
SPECIFICATION StoreSpec
SYMMETRY WriterSymmetry
INVARIANT TagCountsExact
