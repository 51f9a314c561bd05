\* Two valid full adds of one key, one large and one small: is the stored document the indexed one?
SPECIFICATION Spec
CONSTANTS
  Reqs <- MCReqs
  Fields <- MCFields
  Types <- MCTypes
  Sortable <- MCSortable
  NoIndex <- MCNoIndex
  SortIdx <- MCSortIdx
  SchemaOrder <- MCSchema
  Texts <- MCTexts
  NumericTexts <- MCNumeric
  GeoTexts <- MCGeo
  TextSize <- MCSize
  TagsOf <- MCTagsOf
  Inputs <- ReorderInputs
  Preloaded <- NoPreload
  Garbage = Garbage
  NoField = NoField
  None = None
  title = title
  price = price
  loc = loc
  tags = tags
  rank = rank
  junk = junk
  w1 = w1
  wlong = wlong
  wmid = wmid
  n1 = n1
  n2 = n2
  tg = tg
  r1 = r1
  r2 = r2
INVARIANT StoredDocumentIndexed
\* Every request ends answered; the system then stops.
CHECK_DEADLOCK FALSE
