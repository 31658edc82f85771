\* Two workers on one job that can be in both of their hands, up to three outcomes, a crash,
\* a worker slower than the stale threshold, a failing await and an edit by a person.
SPECIFICATION Spec
CONSTANTS
  Worker = {w1, w2}
  Drafter = Drafter
  Caller = {c1}
  MaxReclaims = 1
  Attempts = 2
  Retain = 0
  MaxJob = 1
  MaxStamp = 3
  MaxEdit = 1
  MaxCrash = 1
  MaxSlow = 1
  MaxFault = 1
INVARIANTS TypeOK CompletedIsKept RequeuesBounded
PROPERTIES ImplementsConfigStore SavedIsStored JobsEnd
CHECK_DEADLOCK FALSE
