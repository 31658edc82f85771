\* One pass, one ship run, nobody else: an outage while shipping.
CONSTANTS
  Finding = {f1}
  Pass = {p1}
  NoFinding = NoFinding
  MaxDraft = 1
  MaxMishap = 1
  People = {}
SPECIFICATION Spec
INVARIANT PreparedIsShippable
