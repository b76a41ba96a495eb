\* A boosted score becomes the cursor.
CONSTANTS
  RowId = {1, 2, 3, 4}
  Rank = {1, 2}
  Chunk <- MCChunk
  NoChunk = NoChunk
  NoCursor = NoCursor
  Limit = 2
  MaxChanges = 0
  MaxPages = 5
SPECIFICATION PagingSpec
CHECK_DEADLOCK FALSE
INVARIANT NoneTwice
