CONSTANTS
  Row = {r1, r2}
  Phone = {p1, p2}
  SweptTime = 2
  Batch = 1
  Garbage = {2}
  MaxTime = 3
SPECIFICATION Spec
CONSTRAINT Telling
SYMMETRY Symmetry
INVARIANTS TypeOK PastMeansHeld
CHECK_DEADLOCK FALSE
