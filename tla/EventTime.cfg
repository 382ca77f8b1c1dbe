SPECIFICATION Spec
CONSTANTS
  Entities = {e1, e2}
  Times <- MCTimes
  Strategies <- MCStrategies
  MaxLateness = 2
  MaxEvents = 4
  MaxResumes = 1
SYMMETRY MCSymmetry
INVARIANTS
  TypeOK
  WatermarkTrails
  NoStragglerAccepted
  OpenWindowsLive
  NoReopen
  EventsConserved
  CountWindowsFill
  SessionsSplitOnlyByGap
