CONSTANTS
  Size = 3
  Surplus = 2
  MaxThreads = 3
SPECIFICATION FairDecodeSpec
PROPERTY CostsSpeedNotExtraction
CHECK_DEADLOCK FALSE
