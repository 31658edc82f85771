\* One worker process, killed once, and an earlier profile with its templates.
SPECIFICATION Spec
CONSTANTS
  Worker = {w1}
  Drafter = Drafter
  Caller = {c1}
  MaxReclaims = 2
  Attempts = 1
  Retain = 20
  MaxJob = 2
  MaxStamp = 3
  MaxEdit = 0
  MaxCrash = 1
  MaxSlow = 0
  MaxFault = 0
PROPERTY RefreshedIsProjected
CHECK_DEADLOCK FALSE
