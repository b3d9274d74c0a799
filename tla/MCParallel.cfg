CONSTANTS
  Size = 3
  Surplus = 2
  MaxThreads = 3
SPECIFICATION FairDecodeSpec
INVARIANTS DecodeTypeOK OkMeansComplete WorkersGoneFirst ProgressIsWritten
PROPERTIES ImplementsEntry OtherFailuresCostSpeed
CHECK_DEADLOCK FALSE
