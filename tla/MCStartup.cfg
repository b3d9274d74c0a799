CONSTANTS
  l1 = l1
  l2 = l2
  Launch <- MCLaunch
  UA_LOG_CAP = 2
  MaxLines = 5
  MaxFaults = 1
  MaxCrashes = 1
  UA_MAX_WATCHPATHS = 2
  UA_DEFAULT_WATCHPATH = 0
  CutAt = {2, 6, 9}
  CutNames = {1}
  UserFiles <- MCUserFiles
SPECIFICATION StartupSpec
INVARIANTS StartupTypeOK  DiskBounded ConfigIsAsWritten DangerIsOptIn
SYMMETRY MCSymmetry
CHECK_DEADLOCK FALSE
