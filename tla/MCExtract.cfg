CONSTANTS
  Name <- MCName
  Entry <- MCEntry
  UA_MAX_PATH_COMPONENTS = 2
  LongestBelow = 2
  TargetsAreRead = TRUE
  allow_symlinks = TRUE
  MaxEntries = 3
  Overwrites = {TRUE, FALSE}
  max_entries = 3
  progress_percent_step = 30
  archive_size = 1
  max_expansion_ratio = 4
  expansion_floor_bytes = 4
  margin = 1
  Free = {3, 9}
  UINT64_MAX = 5
SPECIFICATION ExtractSpec
INVARIANTS ExtractTypeOK AllOrNothing OkIsVerified OkMeansExtracted MarginKept RateLimited NothingLost NothingThroughLinks LinksLeadInside
CHECK_DEADLOCK FALSE
