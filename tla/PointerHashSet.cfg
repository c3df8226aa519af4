SPECIFICATION FairSpec
CONSTANTS
  Pointers = {null, p1, p2, p3, p4}
  Null = null
  Size = 3
  null = null
  p1 = p1
  p2 = p2
  p3 = p3
  p4 = p4
INVARIANTS
  TypeOK
  NoGap
PROPERTIES
  ImplementsSet
  AddReturns
