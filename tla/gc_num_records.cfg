\* stats.numRecords against multi-valued tag fields: two tag values, one
\* numeric field, two documents, no terms, no splits, no recreation.
CONSTANTS
  t1 = t1
  red = red
  blue = blue
  None = None
  Terms <- NoTerms
  TagValues <- TwoTags
  NumNumeric = 1
  MaxDocs = 2
  MaxUid = 1
  MaxRangeId = 1
  BlockCap = 1
  GcScanSize = 1
  GC_MIN_HZ = 10
  GC_MAX_HZ = 20
  InitialHz = 10
SPECIFICATION Spec
INVARIANT NumRecordsNeverNegative
\* Dropping the index stops the GC for good.
CHECK_DEADLOCK FALSE
