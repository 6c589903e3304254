SPECIFICATION ASpec
CONSTANTS
  alice = "alice"
  bob = "bob"
  p = "p"
  q = "q"
  Thread = {t1, t2}
  Relation <- MCRelation
  Filter <- MCFilter
  DefaultLimit = 1
  MaxLimit = 2
  MaxBatch = 2
  MaxId = 4
SYMMETRY Symmetry
INVARIANTS
  ATypeOK
  NewestFirst
  AInv
PROPERTY
  WalkShowsAll
