\* The numeric collector alone: no terms or tags, one numeric field, three
\* documents in one-posting blocks, two splits, so that a NumericFieldGC
\* iterator kept across passes can hold a range a later split frees.
CONSTANTS
  t1 = t1
  red = red
  blue = blue
  None = None
  Terms <- NoTerms
  TagValues <- NoTags
  NumNumeric = 1
  MaxDocs = 3
  MaxUid = 1
  MaxRangeId = 5
  BlockCap = 1
  GcScanSize = 1
  GC_MIN_HZ = 10
  GC_MAX_HZ = 20
  InitialHz = 10
SPECIFICATION Spec
INVARIANT NumericRangePointerValid
\* The GC stops for good once its spec is gone and the host's bounded
\* operations run out: both are terminal.
CHECK_DEADLOCK FALSE
