\* One peer: who is there becomes known, who is gone is forgotten.
SPECIFICATION Spec
CONSTANTS
  Self = self
  Peers = {p}
  MaxLosses = 4
INVARIANTS TypeOK StaleForOneInterval
PROPERTIES SteadyStaysKnown TableFollows
