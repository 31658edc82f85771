\* Two findings, so that a batch can fail for one of them; two overlapping passes, the ship
\* run, people at work on one of the findings, a crash or a draft left alive.
CONSTANTS
  Finding = {f1, f2}
  Pass = {p1, p2}
  NoFinding = NoFinding
  MaxDraft = 2
  MaxMishap = 1
  People = {f1}
SPECIFICATION Spec
SYMMETRY Alike
INVARIANTS TypeOK OneClaimant ClaimIsHeld ShippedHasPr 
