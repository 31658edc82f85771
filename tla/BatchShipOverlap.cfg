\* A locked run, an unlocked ship stage and the sweep, interleaved, in two processes.
SPECIFICATION Spec
CONSTANTS
  d1 = d1
  d2 = d2
  d3 = d3
  r1 = r1
  r2 = r2
  r3 = r3
  h1 = h1
  p1 = p1
  p2 = p2
  sweeper = sweeper
  Draft = {d1, d2}
  Repair = {d1}
  Run = {r1, r2}
  Locked = {r1}
  Pipeline = {r2}
  Human = {}
  Process = {p1, p2}
  Home <- HomeTwo
  Sweep = sweeper
  NoDraft = NoDraft
  NoBranch = NoBranch
  NoSha = NoSha
  Alone = FALSE
  MaxFault = 0
  MaxCrash = 1
  MaxMain = 0
INVARIANTS
  TypeOK
PROPERTIES
  NeverBackwards
  PushedIsResolved
CHECK_DEADLOCK FALSE
