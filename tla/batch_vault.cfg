\* One process, two linked notes, renames, crashes in between.
CONSTANTS
  v1 = v1   v2 = v2   p1 = p1   p2 = p2
  one = one   two = two   t1 = t1   w1 = w1   w2 = w2
  Proc = {w1}
  Vault = {v1}
  Path = {p1, p2}
  Body = {one, two}
  Tag = {t1}
  Task = {}
  Model = {}
  Stamp <- MCStamp
  NumChunks <- MCVaultChunks
  TagsOf <- MCTagsOf
  TasksOf <- MCTasksOf
  SizeOf <- MCSizeOf
  LinksOf <- MCLinksOf
  NoRow = NoRow
  NoDelete = NoDelete
  NoFile = NoFile
  NoBody = NoBody
  NoWork = NoWork
  NoJob = NoJob
  Retention = {0}
  MaxRowId = 8
  BacklinkScoring = TRUE
  Ticks <- Apart
  MaxEdits = 3
  Renames = TRUE
SPECIFICATION FairBatchSpec
INVARIANTS DredgeSettles BacklinksSettle TagCountsExact
PROPERTIES StoreSpec PassEnds
