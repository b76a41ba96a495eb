\* Two processes write, with and without embeddings, to two vaults that hold
\* a file of the same path.
CONSTANTS
  v1 = v1   v2 = v2   p1 = p1   p2 = p2
  short = short   long = long   t1 = t1   k1 = k1   m1 = m1   w1 = w1   w2 = w2
  Proc = {w1, w2}
  Vault = {v1, v2}
  Path = {p1}
  Body = {short, long}
  Tag = {t1}
  Task = {k1}
  Model = {m1}
  Stamp <- OneStamp
  NumChunks <- MCNumChunks
  TagsOf <- MCTagsOf
  TasksOf <- MCTasksOf
  NoRow = NoRow
  NoDelete = NoDelete
  MaxRowId = 4
CONSTRAINT TagBound
SPECIFICATION StoreSpec
SYMMETRY WriterSymmetry
INVARIANTS TypeOK TextIndexExact VectorsMatchChunks CacheMatchesRows
