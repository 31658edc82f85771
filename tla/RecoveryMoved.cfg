\* One run on one finding, one attempt for each evidence, one recovery cycle, people, a crash.
SPECIFICATION Spec
CONSTANTS
  Shipper = {s}
  MaxFailed = 1
  MaxCycles = 1
  MaxDraft = 3
  MaxCrash = 1

PROPERTIES MovedDraftIsSpared
CHECK_DEADLOCK FALSE
