\* A stored key and one PARTIAL update of the NOINDEX sortable rank (UpdateNoIndex).
SPECIFICATION FairSpec
CONSTANTS
  Reqs <- OneReq
  Fields <- MCFields
  Types <- MCTypes
  Sortable <- MCSortable
  NoIndex <- MCNoIndex
  SortIdx <- MCSortIdx
  SchemaOrder <- MCSchema
  Texts <- MCTexts
  NumericTexts <- MCNumeric
  GeoTexts <- MCGeo
  TextSize <- MCSize
  TagsOf <- MCTagsOf
  Inputs <- RankUpdate
  Preloaded <- StoredDoc
  Garbage = Garbage
  NoField = NoField
  None = None
  title = title
  price = price
  loc = loc
  tags = tags
  rank = rank
  junk = junk
  w1 = w1
  wlong = wlong
  wmid = wmid
  n1 = n1
  n2 = n2
  tg = tg
  r1 = r1
  r2 = r2
PROPERTY EveryRequestAnswered
CHECK_DEADLOCK FALSE
