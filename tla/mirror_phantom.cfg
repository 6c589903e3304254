SPECIFICATION MSpec
CONSTANTS
  Key = {k1, k2}
  UsersigPda = usersig
  Controller = controller
  Nobody = nobody
  Tree = {t1}
  NoTree = none
  MaxLeaves = 2
  MaxCount = 1
  ForeignHash <- MCForeignHash
  MaxForeign = 1
  Heir <- MCHeir
SYMMETRY Symmetry
INVARIANT
  OnlyAddRelation
