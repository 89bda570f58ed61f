SPECIFICATION FairSpec
CONSTANTS
  a = a
  b = b
  q1 = q1
  q2 = q2
  q3 = q3
  Operators = {a, b}
  Instances = {q1, q2, q3}
INVARIANTS
  ManageInv
PROPERTIES
  FoundIsEnded
CHECK_DEADLOCK FALSE
