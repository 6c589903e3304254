SPECIFICATION IFairSpec
CONSTANTS
  Faults = {"block", "redis", "lag", "crash", "hang"}
  MaxFaults = 1
  Block = {1}
  MaxSlot = 2
  Limit = 2
  MaxStreamLen = 8
  MaxEntries = 3
  MaxEnqueued = 0
  Consumer = {c1, c2}
  Responsive = {c2}
  BatchSize = 1
  Retries = 0
  Relation = {1}
  BlockOf <- MCBlockOf
  Versioned = {}
  Undecodable = {}
INVARIANT
  NoBlockForgotten
PROPERTIES
  EveryBlockIndexed
  EveryEntrySettles
