\* The GC against drop and recreate of its index: one term, one tag value,
\* one numeric field, two documents per incarnation, one recreation.  The
\* never-assigned member specUniqueId ranges over 0..MaxUid.
CONSTANTS
  t1 = t1
  red = red
  blue = blue
  None = None
  Terms <- OneTerm
  TagValues <- OneTag
  NumNumeric = 1
  MaxDocs = 2
  MaxUid = 2
  MaxRangeId = 4
  BlockCap = 1
  GcScanSize = 1
  GC_MIN_HZ = 10
  GC_MAX_HZ = 20
  InitialHz = 10
SPECIFICATION Spec
PROPERTY GCLeavesOtherSpecsAlone
\* The GC stops for good once its spec is gone and the host's bounded
\* operations run out: both are terminal.
CHECK_DEADLOCK FALSE
