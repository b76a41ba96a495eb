\* Two processes count at the same time.
CONSTANTS
  w1 = w1   w2 = w2   i1 = i1   i2 = i2   i3 = i3   i4 = i4
  Absent = Absent
  Proc = {w1, w2}
  MonthlyLimit = 2
  LastMonth = 1
  Inode = {i1, i2, i3, i4}
  Failures = FALSE
SPECIFICATION TrackerSpec
SYMMETRY InodeSymmetry
INVARIANT LimitHolds
