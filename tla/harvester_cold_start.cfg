SPECIFICATION HSpec
CONSTANTS
  Faults = {"latest"}
  MaxFaults = 1
  Block = {1, 3, 4, 5}
  MaxSlot = 6
  MaxStreamLen = 20
  MaxEntries = 8
  Limit = 2
INVARIANT
  ColdStartAtLatest
