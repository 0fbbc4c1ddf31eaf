CONSTANTS
  first = first
  second = second
  Commands = {first, second}
  MaxCommits = 3
SYMMETRY BothOrders
SPECIFICATION Spec
INVARIANT ReleasedIsAudited
CHECK_DEADLOCK FALSE
