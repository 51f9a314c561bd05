\* A configured initial hz of 3 Hz, above GC_MAX_HZ = 2 Hz: one term, one
\* tag value, one numeric field, two documents, no split and no reload.
CONSTANTS
  t1 = t1
  red = red
  blue = blue
  None = None
  Terms <- OneTerm
  TagValues <- OneTag
  NumNumeric = 1
  MaxDocs = 2
  MaxUid = 1
  MaxRangeId = 2
  BlockCap = 1
  GcScanSize = 1
  GC_MIN_HZ = 10
  GC_MAX_HZ = 20
  InitialHz = 30
SPECIFICATION Spec
PROPERTY HzBoundedAfterPass
\* The GC stops for good once its spec is gone and the host's bounded
\* operations run out: both are terminal.
CHECK_DEADLOCK FALSE
