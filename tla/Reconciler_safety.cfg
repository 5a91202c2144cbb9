SPECIFICATION RSpec
CONSTANTS
  Inodes = {i1, i2, i3, i4}
  NoFile = NoFile
  MaxBackups = 2
  RotateAt = 2
  MaxLines = 4
  MaxFaults = 1
  Estimate = 2
CHECK_DEADLOCK FALSE
SYMMETRY AnyInode
CONSTRAINT Unexcused
INVARIANTS CalmPassAgrees
PROPERTIES EveryRecordOnce
