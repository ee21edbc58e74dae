SPECIFICATION LiveSpec
CONSTANTS
  n1 = n1  n2 = n2  n3 = n3  NoNode = NoNode
  Node = {n1, n2, n3}
  MaxLease = 2  MaxCrashes = 2
INVARIANTS
  TypeOK
  SoleHolder
PROPERTIES
  ImplementsJobLease
  DeadHolderIsReplaced
