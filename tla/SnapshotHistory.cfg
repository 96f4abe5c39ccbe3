SPECIFICATION FairSpec
CONSTANTS
  Callers = {c1, c2}
  Nodes = {n1}
  Versions = {v1, v2, text}
  Int64s = {v1, v2}
  MaxUpdates = 4
  MaxLookups = 1
  MaxRollbacks = 1
  MaxFaults = 1
INVARIANTS TypeOK ServedIsRecorded ReadersKeepRecords
PROPERTIES EveryCallReturns
CHECK_DEADLOCK FALSE
