\* Three workers contend for two slots over one midnight; one limit below and one above the ceiling.
SPECIFICATION Spec
CONSTANTS
  Drafter = {d1, d2}
  Editor = {e1}
  Ceiling = 2
  Limit = {0, 3}
  Days = 2
  Before = 1
  MaxLost = 1
INVARIANTS
  TypeOK
  DailyCeiling
  RowCoversWork
SYMMETRY Alike
CHECK_DEADLOCK FALSE
