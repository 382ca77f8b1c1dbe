SPECIFICATION Spec
CONSTANTS
  Sources <- MCSources
  Sinks <- MCSinks
  Readers = {r1, r2}
  Malformed = {2}
  Capacity = 1
  MaxEvents = 3
  MaxStarts = 3
INVARIANTS TakenIsKept LandsInOrder
