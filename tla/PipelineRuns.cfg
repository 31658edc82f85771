\* Three passes over the required stage and one that stands for the optional ones, which is
\* gated and may be skipped; one crash, one failed write.
SPECIFICATION Spec
CONSTANTS
  Stages = 2
  Required = {1}
  Gated = {2}
  MaySkip = {2}
  MaxAttempts = 2
  Passes = 3
  MaxCrash = 1
  MaxFault = 1
INVARIANTS
  TypeOK
  StartsWithinBudget
PROPERTIES
  ResearchFirst
  TimelyDoneIsKept
  PassEnds
CHECK_DEADLOCK FALSE
