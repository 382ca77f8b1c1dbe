SPECIFICATION Spec
CONSTANTS
  Entities = {e1}
  Times <- MCTimes
  Strategies <- MCSessions
  MaxLateness = 4
  MaxEvents = 4
  MaxResumes = 0
INVARIANT
  SessionWaitsForGap
