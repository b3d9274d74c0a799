CONSTANTS
  File <- MCFile
  BufSize = 3
  MaxWalks = 1
  MaxOpens = 2
SPECIFICATION FairBackendsSpec
INVARIANTS BackendsTypeOK SevenZipOwnBytes BegunOnce
PROPERTIES ExtractionEnds ImplementsSource
CHECK_DEADLOCK FALSE
