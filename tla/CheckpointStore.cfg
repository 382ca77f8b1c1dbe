SPECIFICATION Spec
CONSTANTS
  Limits = {1, 3}
  MaxSnapshots = 6
INVARIANTS
  LatestSurvives
  TornIsNext
  RetainsNewest
PROPERTIES
  NeverOverwritten
  ImplementsRegister
