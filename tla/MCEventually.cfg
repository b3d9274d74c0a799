CONSTANTS
  a = a
  b = b
  ok = ok
  failed = failed
  Path <- MCPath
  Stamp <- MCStamp
  Result <- MCResult
  ReadBack <- MCReadBack
  Word <- MCWord
  QueueFile <- MCQueue
  Watched <- MCWatched
  Archive <- MCArchive
  UA_STATUS_MAX = 1
  UA_MAX_CANDIDATES = 2
  stability_wait_seconds = 1
  delete_after_extract = TRUE
  TouchesJobs = TRUE
  MaxFaults = 1
  MaxCrashes = 1
SPECIFICATION FairDriverSpec
INVARIANTS DriverTypeOK VerdictIsCurrent
PROPERTIES AcceptedWhenQuiet UnlinkedAfterSuccess StableIsProcessed
