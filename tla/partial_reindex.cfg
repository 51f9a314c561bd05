\* A full add and a PARTIAL update of an indexable field (ReplaceMerge), in either order.
SPECIFICATION FairSpec
CONSTANTS
  Reqs <- MCReqs
  Fields <- MCFields
  Types <- MCTypes
  Sortable <- MCSortable
  NoIndex <- MCNoIndex
  SortIdx <- MCSortIdx
  SchemaOrder <- MCSchema
  Texts <- MCTexts
  NumericTexts <- MCNumeric
  GeoTexts <- MCGeo
  TextSize <- MCSize
  TagsOf <- MCTagsOf
  Inputs <- ReindexInputs
  Preloaded <- NoPreload
  Garbage = Garbage
  NoField = NoField
  None = None
  title = title
  price = price
  loc = loc
  tags = tags
  rank = rank
  junk = junk
  w1 = w1
  wlong = wlong
  wmid = wmid
  n1 = n1
  n2 = n2
  tg = tg
  r1 = r1
  r2 = r2
INVARIANT IndexMatchesDocument
CHECK_DEADLOCK FALSE
