SPECIFICATION Spec
CONSTANTS
  Features = {"mqtt"}
  Environment = {"PASSWORD"}
  Commands <- MCCommands
  SourceBind <- MCBind
  SinkBind <- Bare
  Scrapers = {c1, c2}
  Counters <- MCCounters
  HeadLimit = 1
  Capacity = 1
  MaxStarts = 3
  ScrapedStarts = {1}
  MaxEvents = 2
INVARIANTS ResumesItsOwnState ScrapesGoForward
PROPERTIES HistoryGoesOn RequestsAnswered
