---------------------------- MODULE AddDocument ----------------------------
(***************************************************************************)
(* The document ingest pipeline of src/document.c: the lifecycle of an     *)
(* AddDocumentCtx from the command that creates it to the reply that frees *)
(* it.                                                                     *)
(*                                                                         *)
(* Threads: the main thread runs the command (the constructor with its     *)
(* SetDocument, then Submit, and AddToIndexes inline for small documents)  *)
(* and later replyCallback for unblocked clients; the index worker pool    *)
(* runs AddToIndexes for large blockable documents; the indexer thread     *)
(* merges prepared contexts one at a time, assigns docIds and calls        *)
(* Finish.  A NOBLOCK context is merged and finished synchronously.        *)
(*                                                                         *)
(* A field's text is a model value; which texts parse as numbers or geo    *)
(* points, which tags a text holds and how many bytes a text has are       *)
(* constants.  A posting is <<field, value>>: the field whose FieldSpec    *)
(* indexed it and the text or tag it holds.                                *)
(*                                                                         *)
(* Freed memory is modelled as keeping its contents (the outcome of a      *)
(* use-after-free where the allocator has not reused the block); every     *)
(* such use is recorded in uaf.                                            *)
(***************************************************************************)
EXTENDS Integers, Sequences, FiniteSets, TLC
LOCAL INSTANCE Functions

CONSTANTS
  Reqs,           \* concurrent FT.ADD requests on one document key
  Fields,         \* schema field names
  Types,          \* Fields -> SUBSET IndexTypes (FieldSpec.types)
  Sortable,       \* fields declared SORTABLE
  NoIndex,        \* fields declared NOINDEX (FieldSpec::IsIndexable false)
  SortIdx,        \* Sortable -> sort-vector slot
  SchemaOrder,    \* the schema's fields in order (LoadSchemaFields)
  Texts,          \* field texts
  NumericTexts,   \* texts RedisModule_StringToDouble accepts
  GeoTexts,       \* texts with a ' ' or ',' (GeoPreprocessor's strpbrk)
  TextSize,       \* Texts -> length in bytes
  TagsOf,         \* Texts -> SUBSET of tags (TagIndex::Tags)
  Inputs,         \* possible requests: [fields : Seq(field), opts, score]
  Preloaded,      \* Fields -> text: the document already indexed under the
                  \* key at start (docId 1), or None
  Garbage,        \* model value: an uninitialized double
  NoField,        \* model value: the empty FieldSpec emplaced for unknown fields
  None            \* model value: absent text / sort vector / docId

IndexTypes == {"FULLTEXT", "NUMERIC", "GEO", "TAG"}
Slots      == {SortIdx[f] : f \in Sortable}

ASSUME \A f \in Fields : Types[f] \subseteq IndexTypes /\ Types[f] # {}
ASSUME Sortable \subseteq Fields /\ NoIndex \subseteq Fields

VARIABLES
  req,            \* Reqs -> the request's input (fixed in a behaviour)
  pc,             \* Reqs -> where the request is
  actx,           \* Reqs -> the AddDocumentCtx: flags, fspecs, doc, sv, pending
  replies,        \* Reqs -> times donecb ran
  frees,          \* Reqs -> times the context was deleted
  uaf,            \* requests whose freed context was used again
  indexerQ,       \* contexts queued for the indexer thread
  docId,          \* the key's docId in the document table, 0 if none
  nextId,         \* last docId assigned
  index,          \* postings <<docId, field, value>>
  md,             \* docId -> [score, sv]: document metadata
  hash,           \* the stored document: Fields -> text, or None if no key
  content         \* docId -> Fields -> text: what each docId holds (history)

lifeVars  == <<pc, actx, replies, frees, uaf>>
storeVars == <<indexerQ, docId, nextId, index, md, content>>
vars      == <<req, hash, lifeVars, storeVars>>

-----------------------------------------------------------------------------
(* AddDocumentCtx::SetDocument                                             *)

EmptySV == [s \in Slots |-> None]

\* Mutant: a field given without indexAs is not defaulted to its types.
RECURSIVE ScanFieldsNoDefault(_, _, _)
ScanFieldsNoDefault(flds, i, a) ==
  IF i > Len(flds) \/ a.code # "OK" THEN a
  ELSE
    LET f == flds[i] IN
    IF f.name \notin Fields \/ f.text = None
    THEN ScanFieldsNoDefault(flds, i + 1, [a EXCEPT !.fspecs = Append(@, NoField)])
    ELSE
      LET ias == f.indexAs
          b   == [a EXCEPT !.fspecs = Append(@, f.name)]
          c   == [b EXCEPT !.dedupe = @ \cup {f.name},
                           !.sortables = @ \/ f.name \in Sortable,
                           !.doc[i].indexAs = ias]
          d   == IF f.name \in NoIndex THEN c
                 ELSE [c EXCEPT !.text = @ \/ "FULLTEXT" \in ias,
                                !.other = @ \/ ias # {"FULLTEXT"}]
      IN CASE f.name \in a.dedupe -> [b EXCEPT !.code = "DUPFIELD"]
           [] ~(ias \subseteq Types[f.name]) -> [c EXCEPT !.code = "UNSUPPTYPE"]
           [] OTHER -> ScanFieldsNoDefault(flds, i + 1, d)

\* The field loop: resolve each field's FieldSpec, emplace it (the empty spec
\* for unknown fields or fields without text), reject duplicates and indexAs
\* outside the schema's types, default indexAs to the types, and note what
\* kind of indexing the document needs.
RECURSIVE ScanFields(_, _, _)
ScanFields(flds, i, a) ==
  IF i > Len(flds) \/ a.code # "OK" THEN a
  ELSE
    LET f == flds[i] IN
    IF f.name \notin Fields \/ f.text = None
    THEN ScanFields(flds, i + 1, [a EXCEPT !.fspecs = Append(@, NoField)])
    ELSE
      LET ias == IF f.indexAs = {} THEN Types[f.name] ELSE f.indexAs
          b   == [a EXCEPT !.fspecs = Append(@, f.name)]
          c   == [b EXCEPT !.dedupe = @ \cup {f.name},
                           !.sortables = @ \/ f.name \in Sortable,
                           !.doc[i].indexAs = ias]
          d   == IF f.name \in NoIndex THEN c
                 ELSE [c EXCEPT !.text = @ \/ "FULLTEXT" \in ias,
                                !.other = @ \/ ias # {"FULLTEXT"}]
      IN CASE f.name \in a.dedupe -> [b EXCEPT !.code = "DUPFIELD"]
           [] ~(ias \subseteq Types[f.name]) -> [c EXCEPT !.code = "UNSUPPTYPE"]
           [] OTHER -> ScanFields(flds, i + 1, d)

\* The context after SetDocument(sp, flds, oldFieldCount) on context c: the
\* new field specs are appended to c.fspecs; SORTABLES and EMPTY are only
\* ever set.
SetDocument(c, flds) ==
  LET a     == ScanFields(flds, 1, [code |-> "OK", fspecs |-> c.fspecs, doc |-> flds,
                                    dedupe |-> {}, sortables |-> FALSE,
                                    text |-> FALSE, other |-> FALSE])
      sort  == IF a.sortables THEN {"SORTABLES"} ELSE {}
      sv    == IF ("SORTABLES" \in c.flags \/ a.sortables) /\ c.sv = None
               THEN EmptySV ELSE c.sv
      flags == (c.flags \ {"INDEXABLES", "TEXTINDEXED", "OTHERINDEXED"})
               \cup sort
               \cup (IF a.text \/ a.other THEN {"INDEXABLES"} ELSE {})
               \cup (IF ~a.text THEN {"TEXTINDEXED"} ELSE {})
               \cup (IF ~a.other THEN {"OTHERINDEXED"} ELSE {})
               \cup (IF sv = None /\ ~a.text /\ ~a.other THEN {"EMPTY"} ELSE {})
  IN [c EXCEPT !.code = a.code, !.fspecs = a.fspecs, !.flags = flags,
               !.sv = sv, !.doc = a.doc]

-----------------------------------------------------------------------------
(* Field preprocessors and Document::AddToIndexes                          *)

PutSV(sv, fs, v) == IF fs \in Sortable THEN [sv EXCEPT ![SortIdx[fs]] = v] ELSE sv

\* Each preprocessor takes the accumulator [code, sv, pending] and runs with
\* the FieldSpec fs that fspecs holds at the field's position.
FulltextPreprocessor(fs, ff, a) ==
  [a EXCEPT !.sv = PutSV(@, fs, <<"STR", ff.text>>),
            !.pending = IF fs \in NoIndex THEN @ ELSE @ \cup {<<fs, ff.text>>}]

NumericPreprocessor(fs, ff, a) ==
  IF ff.text \notin NumericTexts THEN [a EXCEPT !.code = "NOTNUMERIC"]
  ELSE [a EXCEPT !.sv = PutSV(@, fs, <<"NUM", ff.text>>)]

GeoPreprocessor(fs, ff, a) ==
  IF ff.text \notin GeoTexts THEN [a EXCEPT !.code = "GEOFORMAT"] ELSE a

TagPreprocessor(fs, ff, a) ==
  IF TagsOf[ff.text] = {} THEN a
  ELSE [a EXCEPT !.sv = PutSV(@, fs, <<"STR", ff.text>>)]

\* The four handlers in the fixed order FULLTEXT, NUMERIC, GEO, TAG; the
\* first failure stops the document.
PreprocessField(fs, ff, a) ==
  LET Run(t, P(_, _, _), b) == IF t \in ff.indexAs /\ b.code = "OK"
                              THEN P(fs, ff, b) ELSE b
  IN Run("TAG", TagPreprocessor,
       Run("GEO", GeoPreprocessor,
         Run("NUMERIC", NumericPreprocessor,
           Run("FULLTEXT", FulltextPreprocessor, a))))

\* The field loop of AddToIndexes: skip fields with the empty spec or no
\* indexAs; on failure jump to cleanup.
RECURSIVE PreprocessFields(_, _, _)
PreprocessFields(c, i, a) ==
  IF i > Len(c.doc) \/ a.code # "OK" THEN a
  ELSE IF c.fspecs[i] = NoField \/ c.doc[i].indexAs = {}
       THEN PreprocessFields(c, i + 1, a)
       ELSE PreprocessFields(c, i + 1, PreprocessField(c.fspecs[i], c.doc[i], a))

Preprocess(c) == PreprocessFields(c, 1, [code |-> "OK", sv |-> c.sv, pending |-> {}])

\* IndexBulkData::Add for every prepared field: numeric, geo and tag values
\* go into the index keyed by the FieldSpec fs held at the field's position.
BulkAdd(c) ==
  UNION {LET fs == c.fspecs[i]
             ff == c.doc[i]
         IN (IF "NUMERIC" \in ff.indexAs THEN {<<fs, ff.text>>} ELSE {})
            \cup (IF "GEO" \in ff.indexAs THEN {<<fs, ff.text>>} ELSE {})
            \cup (IF "TAG" \in ff.indexAs THEN {<<fs, t>> : t \in TagsOf[ff.text]}
                  ELSE {})
         : i \in {j \in 1..Len(c.doc) : c.fspecs[j] \notin {NoField} \cup NoIndex
                                        /\ c.doc[j].indexAs # {}}}

\* The text a known field of the context's document holds.
FieldMap(c) == [f \in Fields |->
                  IF \E i \in 1..Len(c.doc) : c.doc[i].name = f
                  THEN c.doc[CHOOSE i \in 1..Len(c.doc) : c.doc[i].name = f].text
                  ELSE None]

-----------------------------------------------------------------------------
(* Completion: Finish, doReplyFinish, replyCallback                        *)

Up == \A r \in Reqs : pc[r] # "crashed"

\* doReplyFinish: donecb then delete.
DoReplyFinish(r, c) ==
  /\ pc' = [pc EXCEPT ![r] = "freed"]
  /\ actx' = [actx EXCEPT ![r] = c]
  /\ replies' = [replies EXCEPT ![r] = @ + 1]
  /\ frees' = [frees EXCEPT ![r] = @ + 1]

\* AddDocumentCtx::Finish: reply now for NOBLOCK, else unblock the client so
\* the main thread runs replyCallback.
Finish(r, c) ==
  IF "NOBLOCK" \in c.flags
  THEN DoReplyFinish(r, c)
  ELSE /\ pc' = [pc EXCEPT ![r] = "unblocked"]
       /\ actx' = [actx EXCEPT ![r] = c]
       /\ UNCHANGED <<replies, frees>>

\* Mutant of IndexerMerge: the new docId is the last one assigned (an
\* off-by-one in docId allocation).
IndexerMergeReuseId(c) ==
  LET d == nextId IN
  /\ nextId' = d
  /\ docId' = d
  /\ index' = index \cup {<<d, p[1], p[2]>> : p \in c.pending \cup BulkAdd(c)}
  /\ md' = md @@ (d :> [score |-> c.score, sv |-> c.sv])
  /\ content' = content @@ (d :> FieldMap(c))

\* Mutant of IndexerMerge: the key keeps its first docId; a later document
\* is indexed under a fresh id that the key never points to.
IndexerMergeKeepId(c) ==
  LET d == nextId + 1 IN
  /\ nextId' = d
  /\ docId' = IF docId = 0 THEN d ELSE docId
  /\ index' = index \cup {<<d, p[1], p[2]>> : p \in c.pending \cup BulkAdd(c)}
  /\ md' = md @@ (d :> [score |-> c.score, sv |-> c.sv])
  /\ content' = content @@ (d :> FieldMap(c))

\* The indexer's merge of one prepared context: assign the next docId
\* (replacing the key's old one), fold the forward index and the bulk data
\* into the index, and publish the metadata with the sorting vector.
IndexerMerge(c) ==
  LET d == nextId + 1 IN
  /\ nextId' = d
  /\ docId' = d
  /\ index' = index \cup {<<d, p[1], p[2]>> : p \in c.pending \cup BulkAdd(c)}
  /\ md' = md @@ (d :> [score |-> c.score, sv |-> c.sv])
  /\ content' = content @@ (d :> FieldMap(c))

\* Mutant: the cleanup path of a NOBLOCK context falls through to
\* indexer->Add after Finish, so the context is merged and finished twice.
AddToIndexesNoGoto(r, c) ==
  LET p  == Preprocess(c)
      c2 == [c EXCEPT !.sv = p.sv, !.pending = p.pending, !.code = p.code]
  IN
  IF p.code # "OK" /\ "NOBLOCK" \in c.flags
  THEN /\ pc' = [pc EXCEPT ![r] = "freed"]
       /\ actx' = [actx EXCEPT ![r] = c2]
       /\ replies' = [replies EXCEPT ![r] = @ + 2]
       /\ frees' = [frees EXCEPT ![r] = @ + 2]
       /\ uaf' = uaf \cup {r}
       /\ IndexerMerge(c2)
       /\ UNCHANGED indexerQ
  ELSE IF p.code # "OK"
  THEN Finish(r, c2) /\ UNCHANGED <<uaf, storeVars>>
  ELSE IF "NOBLOCK" \in c.flags
  THEN Finish(r, c2) /\ IndexerMerge(c2) /\ UNCHANGED <<uaf, indexerQ>>
  ELSE /\ pc' = [pc EXCEPT ![r] = "indexer"]
       /\ actx' = [actx EXCEPT ![r] = c2]
       /\ indexerQ' = Append(indexerQ, r)
       /\ UNCHANGED <<replies, frees, uaf, docId, nextId, index, md, content>>

\* Mutant: the cleanup path returns the error without calling Finish.
AddToIndexesNoFinish(r, c) ==
  LET p  == Preprocess(c)
      c2 == [c EXCEPT !.sv = p.sv, !.pending = p.pending, !.code = p.code]
  IN
  IF p.code # "OK"
  THEN /\ pc' = [pc EXCEPT ![r] = "leaked"]
       /\ actx' = [actx EXCEPT ![r] = c2]
       /\ UNCHANGED <<replies, frees, uaf, storeVars>>
  ELSE IF "NOBLOCK" \in c.flags
  THEN Finish(r, c2) /\ IndexerMerge(c2) /\ UNCHANGED <<uaf, indexerQ>>
  ELSE /\ pc' = [pc EXCEPT ![r] = "indexer"]
       /\ actx' = [actx EXCEPT ![r] = c2]
       /\ indexerQ' = Append(indexerQ, r)
       /\ UNCHANGED <<replies, frees, uaf, docId, nextId, index, md, content>>

\* Document::AddToIndexes on context c, then indexer->Add (synchronous for
\* NOBLOCK, a queue append otherwise), or cleanup: Finish with the error.
AddToIndexes(r, c) ==
  LET p  == Preprocess(c)
      c2 == [c EXCEPT !.sv = p.sv, !.pending = p.pending, !.code = p.code]
  IN
  IF p.code # "OK"
  THEN Finish(r, c2) /\ UNCHANGED <<uaf, storeVars>>
  ELSE IF "NOBLOCK" \in c.flags
  THEN Finish(r, c2) /\ IndexerMerge(c2) /\ UNCHANGED <<uaf, indexerQ>>
  ELSE /\ pc' = [pc EXCEPT ![r] = "indexer"]
       /\ actx' = [actx EXCEPT ![r] = c2]
       /\ indexerQ' = Append(indexerQ, r)
       /\ UNCHANGED <<replies, frees, uaf, docId, nextId, index, md, content>>

-----------------------------------------------------------------------------
(* AddDocumentCtx::Submit                                                  *)

SELF_EXEC_THRESHOLD == 1024

\* totalSize: the bytes of the fields with a real spec that are indexed as
\* FULLTEXT or TAG, summed over the document.
OverThreshold(c) ==
  LET counted == {i \in 1..Len(c.doc) : /\ c.fspecs[i] # NoField
                                        /\ c.doc[i].indexAs \cap {"FULLTEXT", "TAG"} # {}}
  IN SumFunctionOnSet([i \in 1..Len(c.doc) |-> TextSize[c.doc[i].text]], counted)
       >= SELF_EXEC_THRESHOLD

IsBlockable(c) == "NOBLOCK" \notin c.flags

\* Submit after the partial-update check: offload large blockable documents
\* to the index worker pool, index the rest inline.
SubmitIndex(r, c) ==
  IF OverThreshold(c) /\ IsBlockable(c)
  THEN /\ pc' = [pc EXCEPT ![r] = "worker"]
       /\ actx' = [actx EXCEPT ![r] = c]
       /\ UNCHANGED <<replies, frees, uaf, storeVars>>
  ELSE AddToIndexes(r, c)

-----------------------------------------------------------------------------
(* Partial update: handlePartialUpdate, ReplaceMerge, UpdateNoIndex        *)

\* Document::LoadSchemaFields: the schema fields the stored hash holds, in
\* schema order, with indexAs unset.
LoadSchemaFields(h) ==
  LET present == SelectSeq(SchemaOrder, LAMBDA f : h[f] # None)
  IN [i \in 1..Len(present) |-> [name |-> present[i], text |-> h[present[i]],
                                 indexAs |-> {}]]

\* ReplaceMerge: reload the whole document from the store and run
\* SetDocument on the same context again (its result is ignored), then fall
\* through to the rest of Submit; a missing document completes with NODOC.
ReplaceMerge(r, c, h) ==
  IF h = None
  THEN DoReplyFinish(r, [c EXCEPT !.code = "NODOC", !.doc = <<>>])
       /\ UNCHANGED <<uaf, storeVars>>
  ELSE SubmitIndex(r, SetDocument(c, LoadSchemaFields(h)))

\* BAIL(s): set the error, donecb, delete this -- and carry on, since the
\* macro does not return.  Any later touch of the context is a use after free.
Bail(a) == [a EXCEPT !.bails = @ + 1, !.touched = @ \/ a.bails > 0]

\* The SORTABLES loop of UpdateNoIndex over the context's fields; a.sv is
\* the metadata's sorting vector.
RECURSIVE UpdateSortables(_, _, _)
UpdateSortables(c, i, a) ==
  IF i > Len(c.doc) THEN a
  ELSE
    LET f  == c.doc[i]
        a0 == IF a.bails > 0 THEN [a EXCEPT !.touched = TRUE] ELSE a
    IN
    IF f.name \notin Sortable THEN UpdateSortables(c, i + 1, a0)
    ELSE
      LET a1  == IF f.name \in a0.dedupe THEN Bail(a0) ELSE a0
          a2  == [a1 EXCEPT !.dedupe = @ \cup {f.name},
                            !.sv = IF @ = None THEN EmptySV ELSE @]
          idx == SortIdx[f.name]
          Put(b, v) == [b EXCEPT !.sv[idx] = v]
      IN UpdateSortables(c, i + 1,
           CASE Types[f.name] \in {{"FULLTEXT"}, {"TAG"}} -> Put(a2, <<"STR", f.text>>)
             [] Types[f.name] = {"NUMERIC"} /\ f.text \in NumericTexts
                  -> Put(a2, <<"NUM", f.text>>)
             [] Types[f.name] = {"NUMERIC"} -> Put(Bail(a2), <<"NUM", Garbage>>)
             [] OTHER -> Bail(a2))

\* UpdateNoIndex: a docId of 0 bails, then bails again on the NULL metadata
\* of docId 0, then dereferences it (the process dies).  Otherwise update
\* score and sortables; on success nothing calls donecb or deletes the
\* context.
UpdateNoIndex(r, c) ==
  IF docId = 0
  THEN /\ pc' = [pc EXCEPT ![r] = "crashed"]
       /\ actx' = [actx EXCEPT ![r] = [c EXCEPT !.code = "GENERIC"]]
       /\ replies' = [replies EXCEPT ![r] = @ + 2]
       /\ frees' = [frees EXCEPT ![r] = @ + 2]
       /\ uaf' = uaf \cup {r}
       /\ UNCHANGED storeVars
  ELSE
    LET a0 == [sv |-> md[docId].sv, bails |-> 0, touched |-> FALSE, dedupe |-> {}]
        a  == IF "SORTABLES" \in c.flags THEN UpdateSortables(c, 1, a0) ELSE a0
        m  == FieldMap(c)
    IN
    /\ md' = [md EXCEPT ![docId] = [score |-> c.score, sv |-> a.sv]]
    /\ content' = [content EXCEPT ![docId] =
                     [f \in Fields |-> IF m[f] # None THEN m[f] ELSE @[f]]]
    /\ pc' = [pc EXCEPT ![r] = IF a.bails = 0 THEN "leaked" ELSE "freed"]
    /\ actx' = [actx EXCEPT ![r] = IF a.bails = 0 THEN c
                                   ELSE [c EXCEPT !.code = "GENERIC"]]
    /\ replies' = [replies EXCEPT ![r] = @ + a.bails]
    /\ frees' = [frees EXCEPT ![r] = @ + a.bails]
    /\ uaf' = IF a.touched THEN uaf \cup {r} ELSE uaf
    /\ UNCHANGED <<indexerQ, docId, nextId, index>>

\* Submit with the stored hash h: PARTIAL goes through handlePartialUpdate,
\* which either finishes the request or (ReplaceMerge) falls through.
Submit(r, c, opts, h) ==
  IF "PARTIAL" \in opts
  THEN IF "INDEXABLES" \in c.flags THEN ReplaceMerge(r, c, h) ELSE UpdateNoIndex(r, c)
  ELSE SubmitIndex(r, c)

-----------------------------------------------------------------------------
(* Actions                                                                 *)

NewCtx(score) == [flags |-> {}, fspecs |-> <<>>, doc |-> <<>>, sv |-> None,
                  code |-> "OK", pending |-> {}, score |-> score]

\* The stored hash after saving the request's fields: PARTIAL merges them
\* into the stored document, a full add replaces it; NOSAVE skips the save.
Saved(in) ==
  LET m == FieldMap([doc |-> in.fields]) IN
  CASE "NOSAVE" \in in.opts -> hash
    [] "PARTIAL" \in in.opts /\ hash # None ->
         [f \in Fields |-> IF m[f] # None THEN m[f] ELSE hash[f]]
    [] OTHER -> m

\* The FT.ADD command on the main thread: construct the context (a failing
\* SetDocument throws and the command replies with the error), mark
\* NOBLOCK, save the document, Submit.
Command(r) ==
  /\ Up
  /\ pc[r] = "new"
  /\ LET in == req[r]
         c  == SetDocument(NewCtx(in.score), in.fields)
         c2 == [c EXCEPT !.flags = @ \cup ({"NOBLOCK"} \cap in.opts)]
     IN IF c.code # "OK"
        THEN /\ pc' = [pc EXCEPT ![r] = "rejected"]
             /\ actx' = [actx EXCEPT ![r] = c]
             /\ UNCHANGED <<hash, replies, frees, uaf, storeVars>>
        ELSE /\ hash' = Saved(in)
             /\ Submit(r, c2, in.opts, Saved(in))
  /\ UNCHANGED req

\* threadCallback on the index worker pool.
Worker(r) ==
  /\ Up
  /\ pc[r] = "worker"
  /\ AddToIndexes(r, actx[r])
  /\ UNCHANGED <<req, hash>>

\* The indexer thread takes the oldest queued context, merges it, Finish.
IndexerStep ==
  /\ Up
  /\ indexerQ # <<>>
  /\ LET r == Head(indexerQ) IN IndexerMerge(actx[r]) /\ Finish(r, actx[r])
  /\ indexerQ' = Tail(indexerQ)
  /\ UNCHANGED <<req, hash, uaf>>

\* replyCallback: the main thread serves the unblocked client.
Reply(r) ==
  /\ Up
  /\ pc[r] = "unblocked"
  /\ DoReplyFinish(r, actx[r])
  /\ UNCHANGED <<req, hash, uaf, storeVars>>

AllTags == UNION {TagsOf[t] : t \in Texts}

\* What a document holding the field texts m must be indexed as: every
\* indexable field's text (FULLTEXT, NUMERIC, GEO) and tags (TAG) under that
\* field, and each sortable field's value in its own sort slot.
SortType(f) == IF Types[f] = {"NUMERIC"} THEN "NUM" ELSE "STR"

ExpectedPostings(m) ==
  {p \in (Fields \ NoIndex) \X (Texts \cup AllTags) :
     LET f == p[1] IN
     /\ m[f] # None
     /\ \/ Types[f] \cap {"FULLTEXT", "NUMERIC", "GEO"} # {} /\ p[2] = m[f]
        \/ "TAG" \in Types[f] /\ p[2] \in TagsOf[m[f]]}

\* The metadata an earlier successful add of the stored document m left.
SortVectorOf(m) ==
  IF \E f \in Sortable : m[f] # None
  THEN [s \in Slots |-> LET f == CHOOSE g \in Sortable : SortIdx[g] = s
                       IN IF m[f] = None THEN None ELSE <<SortType(f), m[f]>>]
  ELSE None

Init ==
  /\ req \in [Reqs -> Inputs]
  /\ pc = [r \in Reqs |-> "new"]
  /\ actx = [r \in Reqs |-> NewCtx(0)]
  /\ replies = [r \in Reqs |-> 0]
  /\ frees = [r \in Reqs |-> 0]
  /\ uaf = {}
  /\ indexerQ = <<>>
  /\ IF Preloaded = None
     THEN /\ docId = 0 /\ nextId = 0 /\ index = {}
          /\ md = <<>> /\ hash = None /\ content = <<>>
     ELSE /\ docId = 1 /\ nextId = 1
          /\ index = {<<1, p[1], p[2]>> : p \in ExpectedPostings(Preloaded)}
          /\ md = <<[score |-> 1, sv |-> SortVectorOf(Preloaded)]>>
          /\ hash = Preloaded
          /\ content = <<Preloaded>>

Next ==
  \/ \E r \in Reqs : Command(r) \/ Worker(r) \/ Reply(r)
  \/ IndexerStep

Spec == Init /\ [][Next]_vars

\* The worker pool runs every queued job, the indexer thread drains its
\* queue and Redis serves unblocked clients.  Nothing obliges a client to
\* send its command.
Fairness ==
  /\ \A r \in Reqs : WF_vars(Worker(r)) /\ WF_vars(Reply(r))
  /\ WF_vars(IndexerStep)

FairSpec == Spec /\ Fairness

-----------------------------------------------------------------------------
(* Properties                                                              *)

PcValues == {"new", "rejected", "worker", "indexer", "unblocked", "freed",
             "leaked", "crashed"}

TypeOK ==
  /\ req \in [Reqs -> Inputs]
  /\ pc \in [Reqs -> PcValues]
  /\ replies \in [Reqs -> Nat] /\ frees \in [Reqs -> Nat]
  /\ uaf \subseteq Reqs
  /\ indexerQ \in Seq(Reqs)
  /\ nextId \in Nat /\ docId \in 0..nextId
  /\ index \subseteq (1..nextId) \X Fields \X (Texts \cup AllTags)
  /\ DOMAIN md = 1..nextId /\ DOMAIN content = 1..nextId
  /\ hash \in [Fields -> Texts \cup {None}] \cup {None}

\* Each AddDocumentCtx is handed back exactly once at most: donecb runs and
\* the context is deleted no more than once, and nothing touches it after
\* the delete.  Finish/doReplyFinish, ReplaceMerge's NODOC path and the
\* BAILs of UpdateNoIndex must share this out between them.
ContextReleasedOnce ==
  \A r \in Reqs : replies[r] <= 1 /\ frees[r] <= 1 /\ r \notin uaf

PostingsOf(d) == {<<e[2], e[3]>> : e \in {x \in index : x[1] = d}}

\* Every docId the indexer published is indexed exactly as the document it
\* holds: each value under the field it came from, nothing missing, and
\* every filled sort slot holding its own field's value.  This rests on
\* fspecs[i] being the FieldSpec of doc.fields[i] in SetDocument,
\* AddToIndexes and IndexBulkData::Add, and on UpdateNoIndex's slots.
IndexMatchesDocument ==
  \A d \in DOMAIN content :
    /\ PostingsOf(d) = ExpectedPostings(content[d])
    /\ md[d].sv # None =>
         \A f \in Sortable : md[d].sv[SortIdx[f]] \in {None, <<SortType(f), content[d][f]>>}

\* Every request, once its command has run, is eventually answered: donecb
\* runs through Finish, replyCallback or an error path of Submit.
EveryRequestAnswered ==
  \A r \in Reqs : pc[r] # "new" ~> (replies[r] > 0 \/ pc[r] = "rejected")

\* Once every request has been answered with success, the document the key
\* is indexed under is the one stored last.  The command stores documents in
\* the order it runs them, while Submit sends a large blockable document to
\* the worker pool and indexes a small one inline, so the indexer can merge
\* two adds of one key in the other order.
StoredDocumentIndexed ==
  (\A r \in Reqs : pc[r] = "freed" /\ actx[r].code = "OK")
    => hash = content[docId]

-----------------------------------------------------------------------------
(* Refinement: the pipeline implements IngestAbstract for full adds        *)

\* A request's stage as the abstract specification sees it; a context
\* answered or freed twice, or used after its delete, has no abstract stage.
AbsStatus(r) ==
  IF replies[r] > 1 \/ frees[r] > 1 \/ r \in uaf THEN "corrupt"
  ELSE CASE pc[r] = "new"                       -> "idle"
         [] pc[r] \in {"worker", "indexer"}     -> "queued"
         [] pc[r] \in {"unblocked", "leaked"}   -> "decided"
         [] pc[r] \in {"rejected", "freed"}     -> "answered"
         [] OTHER                               -> "corrupt"

AbsResult(r) ==
  CASE pc[r] \in {"new", "worker", "indexer"} -> "none"
    [] actx[r].code = "OK"                    -> "ok"
    [] OTHER                                  -> "err"

Ingest == INSTANCE IngestAbstract WITH
  want   <- [r \in Reqs |-> FieldMap([doc |-> req[r].fields])],
  status <- [r \in Reqs |-> AbsStatus(r)],
  result <- [r \in Reqs |-> AbsResult(r)],
  cur    <- IF docId = 0 THEN None ELSE content[docId]

\* The pipeline, seen through the mapping above, is an IngestAbstract
\* behaviour: each request is rejected by the command or decided once, a
\* success makes its document the key's at the step the indexer merges it,
\* a failure leaves the key alone, and every accepted request is answered
\* exactly once.  Covers Submit's dispatch, AddToIndexes' cleanup path,
\* Finish and replyCallback together.
ImplementsIngest == Ingest!ASpec

=============================================================================
