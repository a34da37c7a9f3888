SPECIFICATION Spec
CONSTANTS
  snap = snap
  wages = wages
  other1 = other1
  other2 = other2
  Catalogue <- MCCatalogue
  FraudTypes = {snap, wages}
  Cases = {other1, other2}
  Holdings <- MCHoldings
  Summaries <- MCSummaries
  MaxTurns = 3
INVARIANTS TypeOK LossesAddNothing
CHECK_DEADLOCK FALSE
