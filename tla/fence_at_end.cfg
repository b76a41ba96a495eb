\* Texts of at most five pieces.
CONSTANTS
  Level2SplitThreshold = 4
  MinYGap = 2
  MinXGap = 4
  FullWidth = 18
  K = 60
  MaxRank = 4
  PoolFactor = 3
  NoVector = NoVector
  Similarity <- MCSimilarity
  Likeness <- MCLikeness
  MaxLength <- MCSegmentsOnly
  Starting <- MCStarting
  Ending <- MCEnding
  Unclosed = "unclosed"
  DotName = {".git"}
  NoiseName = {"dist"}
  Stem <- MCStem
  Included = {"n.md", "m.markdown", "draft_1.md"}
  Threshold = 2
  RowId = {1, 2, 3, 4}
  Rank = {1, 2}
  Chunk <- MCChunk
  MaxSeqLen = 3
  State <- MCState
  Padding = Padding
  Failed = Failed
  Unset = Unset
  PathName <- MCPathName
  Refused = Refused
  Small <- MCSmall
  HttpLimit = 2
  HttpOffset = 4
  McpLimit = 2
  NoChunk = NoChunk
  NoCursor = NoCursor
  Limit = 2
  MaxChanges = 1
  MaxPages = 5
SPECIFICATION Spec
CHECK_DEADLOCK FALSE
INVARIANT FencedCodeIsReturned
