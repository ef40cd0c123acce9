CONSTANTS
  RideIds = {i1, i2}
  Keys = {k1}
  Bodies = {b1}
  Workers = {w1, w2}
  MaxFailures = 0
  NoKey = NoKey
  NoRide = NoRide
  NoRecord = NoRecord
  NoSession = NoSession
SPECIFICATION CreationSpec
SYMMETRY Symmetry
PROPERTY DuplicateIsReplayed
