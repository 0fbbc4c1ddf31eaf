CONSTANTS
  one = one
  two = two
  here = here
  there = there
  kept = kept
  tmp = tmp
  Procs = {one, two}
  Files = {here, there}
  Evidence = {kept, tmp}
  Scratch = {tmp}
  Given <- OneAtATime
  MaxContent = 2
  MaxCommands = 2
  MaxEdits = 1
SYMMETRY Anyone
SPECIFICATION Spec
INVARIANT ProvenanceMatches
CHECK_DEADLOCK FALSE
