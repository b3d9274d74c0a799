CONSTANTS
  a = a
  b = b
  ok = ok
  failed = failed
  Path <- MCPath
  Stamp <- MCStamp
  Result <- MCResult
  ReadBack <- MCReadBack
  Word <- MCWord
  QueueFile <- MCQueue
  Watched <- MCPath
  Archive <- MCArchive
  UA_STATUS_MAX = 2
  UA_MAX_CANDIDATES = 2
  stability_wait_seconds = 1
  delete_after_extract = FALSE
  TouchesJobs = FALSE
  MaxFaults = 1
  MaxCrashes = 1
  MaxJobs = 4
SPECIFICATION LogSpec
INVARIANTS RerunOnlyAfterAgeing RingIsRecentJobs
PROPERTY DestinationIsAsked
