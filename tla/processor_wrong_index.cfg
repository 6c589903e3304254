SPECIFICATION PSpec
CONSTANTS
  Faults = {"block"}
  MaxFaults = 2
  Block = {1, 2}
  MaxStreamLen = 6
  MaxEntries = 4
  MaxEnqueued = 2
  Consumer = {c1}
  Responsive = {}
  BatchSize = 2
  Retries = 1
  Relation = {"r1", "r2"}
  BlockOf <- MCBlockOf
  Versioned = {}
  Undecodable = {}
INVARIANT
  FailedBlocksAreReturned
