SPECIFICATION RFairSpec
CONSTANTS
  Thread = {t1, t2}
  Responsive = {t1}
  MaxIdle = 1
  Word = 8
  MaxTip = 2
  MaxBatches = 2
CHECK_DEADLOCK FALSE
INVARIANTS
  RTypeOK
  EveryBatchReportedOnce
  NeverBehindTheChain
PROPERTY
  StopsAfterSignal
