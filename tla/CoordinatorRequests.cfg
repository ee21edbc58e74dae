SPECIFICATION Spec
CONSTANTS
  n1 = n1  n2 = n2  NoNode = NoNode  k1 = k1  k2 = k2
  Node = {n1, n2}
  Task = {k1, k2}
  MaxLease = 1  MaxStamp = 3  PromotionFails = TRUE
INVARIANTS
  EpochGrantedOnce
  PromotedIsGranted
PROPERTIES
  ImplementsJobLease
SYMMETRY Symmetry
