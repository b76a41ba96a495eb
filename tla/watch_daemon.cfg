\* The user edits, renames and removes two notes and moves them out and in
\* under the daemon, and whatever it does may fail.
CONSTANTS
  v1 = v1   v2 = v2   p1 = p1   p2 = p2
  one = one   two = two   t1 = t1   m1 = m1   w1 = w1   w2 = w2
  Proc = {w1}
  Vault = {v1}
  Path = {p1, p2}
  Body = {one, two}
  Tag = {}
  Task = {}
  Model = {}
  Stamp <- MCStamp
  NumChunks <- MCNumChunks
  TagsOf <- MCNoTags
  TasksOf <- MCTasksOf
  SizeOf <- MCSizeOf
  LinksOf <- MCLinksOf
  NoRow = NoRow
  NoDelete = NoDelete
  NoFile = NoFile
  NoBody = NoBody
  NoWork = NoWork
  MaxRowId = 6
  BacklinkScoring = TRUE
  Ticks <- Apart
  MaxEdits = 4
  MovesOut = TRUE
  Failures = TRUE
SPECIFICATION FairWatchSpec
CHECK_DEADLOCK FALSE
INVARIANT CaughtUpIsExact
PROPERTIES IndexFollowsDisk StoreSpec
