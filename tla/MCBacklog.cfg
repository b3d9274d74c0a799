CONSTANTS
  a = a
  b = b
  ok = ok
  failed = failed
  Path <- MCPath
  Stamp <- MCStamp
  Result <- MCResult
  ReadBack <- MCReadBack
  Word <- MCWord
  QueueFile <- MCQueue
  Watched <- MCPath
  Archive <- MCArchive
  UA_STATUS_MAX = 2
  UA_MAX_CANDIDATES = 2
  stability_wait_seconds = 1
  delete_after_extract = TRUE
  TouchesJobs = FALSE
  MaxFaults = 0
  MaxCrashes = 0
SPECIFICATION ClaimSpec
INVARIANT BatchDrainsAtFullSpeed
