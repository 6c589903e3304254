SPECIFICATION HFairSpec
CONSTANTS
  Faults = {"crash", "lag", "latest", "hang"}
  MaxFaults = 3
  Block = {1, 3, 4, 6}
  MaxSlot = 6
  MaxStreamLen = 20
  MaxEntries = 16
  Limit = 2
CHECK_DEADLOCK FALSE
INVARIANTS
  HTypeOK
  HInv
  NoGap
  CopiesPerCrash
PROPERTIES
  OnlyForward
  EveryBlockScheduled
