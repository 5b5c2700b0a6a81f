SPECIFICATION FairSpec
CONSTANTS
  Export = {e1}
  Reader = {r1, r2, r3}
  MaxRestarts = 2
  MaxFaults = 2
  e1 = e1
  r1 = r1
  r2 = r2
  r3 = r3
INVARIANTS
  ReadyIsDownloadable
  DownloadBreaksOnlyPastTTL
  RedisMirrorsMemory
PROPERTIES
  AnswersNeverGoBack
  PollingEnds
