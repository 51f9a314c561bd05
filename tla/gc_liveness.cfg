\* Eventual collection of dead postings under the GC's timer and random
\* choices: one term, one tag value, one numeric field, two documents, one
\* split, no recreation; the member specUniqueId is 0 or 1.
CONSTANTS
  t1 = t1
  red = red
  blue = blue
  None = None
  Terms <- OneTerm
  TagValues <- OneTag
  NumNumeric = 1
  MaxDocs = 2
  MaxUid = 1
  MaxRangeId = 3
  BlockCap = 1
  GcScanSize = 1
  GC_MIN_HZ = 10
  GC_MAX_HZ = 20
  InitialHz = 10
SPECIFICATION FairSpec
PROPERTY DeadPostingsEventuallyCollected
\* Dropping the index stops the GC for good and the host's operations are
\* bounded: that end state is real, not a deadlock.
CHECK_DEADLOCK FALSE
