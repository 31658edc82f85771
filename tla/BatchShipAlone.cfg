\* Runs, a person and the sweep take turns; no draft is re-offered once it is finished.
SPECIFICATION Spec
CONSTANTS
  d1 = d1
  d2 = d2
  d3 = d3
  r1 = r1
  r2 = r2
  r3 = r3
  h1 = h1
  p1 = p1
  p2 = p2
  sweeper = sweeper
  Draft = {d1, d2, d3}
  Repair = {}
  Run = {r1, r2, r3}
  Locked = {r1, r2, r3}
  Pipeline = {}
  Human = {h1}
  Process = {p1}
  Home <- HomeOne
  Sweep = sweeper
  NoDraft = NoDraft
  NoBranch = NoBranch
  NoSha = NoSha
  Alone = TRUE
  MaxFault = 2
  MaxCrash = 1
  MaxMain = 1
INVARIANTS
  ShippedHasPr
  BatchIsSomebodys
PROPERTIES
  ReviewedCommitsStay
SYMMETRY Alike
CHECK_DEADLOCK FALSE
