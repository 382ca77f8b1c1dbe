SPECIFICATION Spec
CONSTANTS
  Kinds <- MCAggregate
  Inputs <- MCInputs
  MaxCalls <- MCMaxCalls
  Entities <- MCEntities
  Patterns <- MCPatterns
  MaxBuffer = 3
  MaxSpeed = 3
  StopSpeed = 1
  StopSecs = 2
  Zones <- MCZones
  CellOf <- MCCellOf
  Threshold = 3
  HalfWorld = 180
  Hav <- MCHav
  Radius = 5
  Token = 2
  Rate = 1
  TicksPerSecond = 4
  MaxPerEntity = 2
  Roads <- MCRoads
  MaxDistance = 3
  Stretch = 2
  Parts = 5
INVARIANTS AggregatesAreOfSpeeds
