CONSTANTS
  first = first
  second = second
  Commands = {first, second}
  MaxCommits = 3
SYMMETRY BothOrders
SPECIFICATION Spec
INVARIANTS PushedBeforeDraft ReleasedIsWhole
PROPERTIES TagsStay
CHECK_DEADLOCK FALSE
