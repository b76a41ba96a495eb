\* A note or a PDF over three versions, with a local and a remote model; and
\* one process over three months that counts calls: crashes, resets and
\* writes that fail.
CONSTANTS
  onnx = onnx  api = api  w1 = w1  i1 = i1  i2 = i2
  None = None
  Wording <- MCWording
  ChunkCount <- MCChunkCount
  Local = {onnx}
  Remote = {api}
  BatchCap = 2
  MaxAttempts = 2
  MaxStamp = 3
  MaxFaults = 1
  Limit = 1
  Months = 2
  Absent = Absent
  Proc = {w1}
  MonthlyLimit = 2
  LastMonth = 3
  Inode = {i1, i2}
  Failures = TRUE
SPECIFICATION Spec
INVARIANTS VectorsAgree CachedIsCurrent RequestsBounded AdmittedAreCounted
PROPERTIES OnlyNewText TextSettles ImplementsLimit
