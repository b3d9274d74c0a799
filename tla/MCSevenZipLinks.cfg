CONSTANTS
  Name <- MCName
  Entry <- MCLinkEntry
  UA_MAX_PATH_COMPONENTS = 2
  LongestBelow = 2
  TargetsAreRead = FALSE
  allow_symlinks = FALSE
  MaxEntries = 2
  Overwrites = {TRUE, FALSE}
  max_entries = 3
  progress_percent_step = 30
  archive_size = 1
  max_expansion_ratio = 4
  expansion_floor_bytes = 4
  margin = 1
  Free = {9}
  UINT64_MAX = 5
SPECIFICATION ExtractSpec
INVARIANT RefusedForCause
CHECK_DEADLOCK FALSE
