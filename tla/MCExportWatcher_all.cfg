SPECIFICATION FairWatchSpec
CONSTANTS
  Job = {e1, e2}
  NoJob = NoJob
  e1 = e1
  e2 = e2
INVARIANTS
  ClosedToastStaysClosed
  LoneToastIsTrue
PROPERTIES
  LoneExportIsAnnounced
CHECK_DEADLOCK FALSE
