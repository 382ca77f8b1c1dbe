SPECIFICATION Spec
CONSTANTS
  Topologies <- MCTopologies
  Entities = {1}
  MaxLateness = 0
  Checkpointing = TRUE
  Capacity = 1
  MaxEvents = 2
INVARIANTS OutputsInOrder StagesSeeKeptEvents CheckpointIsACut ClosingCheckpointIsCurrent OneWindowBetweenFlushes MetricsAddUp FlushedOncePerWindow
PROPERTIES ImplementsEventTime RunEnds SentIsReceived
