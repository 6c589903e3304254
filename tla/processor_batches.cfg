SPECIFICATION PSpec
CONSTANTS
  Faults = {"block", "batch", "redis"}
  MaxFaults = 1
  Block = {1, 2, 3}
  MaxStreamLen = 3
  MaxEntries = 4
  MaxEnqueued = 3
  Consumer = {c1}
  Responsive = {}
  BatchSize = 3
  Retries = 2
  Relation = {"r1", "r1b", "r2", "r2v"}
  BlockOf <- MCBlockOf
  Versioned = {"r2v"}
  Undecodable = {"r1b"}
INVARIANTS
  NoSilentLoss
  RetriesFit
  MissNeedsCompany
