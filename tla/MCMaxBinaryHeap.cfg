SPECIFICATION Spec
CONSTANTS
  Accounts = {a1, a2, a3, a4, a5}
  NoAccount = none
  Heaps = {"short", "long"}
  NoHeap = "noheap"
  Capacity = 5
  MaxKey = 2
SYMMETRY AccountSymmetry
INVARIANTS
  TypeOK
  PointersConsistent
  OrderedExceptAtIndex
  RootIsMax
PROPERTY
  ImplementsPriorityMap
