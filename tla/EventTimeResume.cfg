SPECIFICATION Spec
CONSTANTS
  Entities = {e1}
  Times <- MCTimes
  Strategies <- MCTumblings
  MaxLateness = 2
  MaxEvents = 4
  MaxResumes = 1
PROPERTY
  ResumeKeepsLateness
