CONSTANTS
  plain = plain
  cut = cut
  odd = odd
  s1 = s1
  s2 = s2
  ok = ok
  failed = failed
  Path <- MCPath
  Stamp = {s1, s2}
  Result = {ok, failed}
  UA_STATUS_MAX = 2
  ReadBack <- MCReadBack
SPECIFICATION StatusSpec
INVARIANTS StatusTypeOK SavedIsDurable
PROPERTY ImplementsLedger
