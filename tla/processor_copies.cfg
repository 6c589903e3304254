SPECIFICATION PSpec
CONSTANTS
  Faults = {"block", "mongo", "redis", "crash"}
  MaxFaults = 3
  Block = {1}
  MaxStreamLen = 3
  MaxEntries = 4
  MaxEnqueued = 2
  Consumer = {c1, c2}
  Responsive = {}
  BatchSize = 1
  Retries = 0
  Relation = {"r1"}
  BlockOf <- MCBlockOf
  Versioned = {}
  Undecodable = {}
SYMMETRY Symmetry
INVARIANTS
  PTypeOK
  CInv
  NoSilentLoss
  CopiesArePaidFor
  LossNeedsBacklog
PROPERTY
  KeepsLedger
