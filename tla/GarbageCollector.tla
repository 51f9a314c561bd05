-------------------------- MODULE GarbageCollector --------------------------
(***************************************************************************)
(* The legacy garbage collector of src/legacy_gc.c running against the     *)
(* host's main thread.                                                     *)
(*                                                                         *)
(* The GC thread wakes (PeriodicCallback), takes the host's global lock    *)
(* (the GIL) and runs three collectors in turn: CollectRandomTerm,         *)
(* CollectNumericIndex and CollectTagIndex.  Each repairs GcScanSize       *)
(* blocks of one inverted index at a time and, between batches, yields:    *)
(* it releases the GIL inside sctx->Refresh, reacquires it and re-checks   *)
(* the index spec's uniqueId against its member specUniqueId -- a member   *)
(* the constructor never sets (legacy_gc.c:47).  While                     *)
(* the GIL is free the main thread may index or delete documents, split a  *)
(* numeric range (new revisionId) or drop and recreate the index.          *)
(*                                                                         *)
(* Data is abstracted to what the properties distinguish: a posting is a   *)
(* docId, a block is the set of docIds it holds, an inverted index is a    *)
(* sequence of blocks, a numeric range tree is its revisionId and the      *)
(* sequence of its nodes that carry a range.  Byte counts (invertedSize,   *)
(* bytesCollected) and the GC's reporting counters are left out.           *)
(***************************************************************************)
EXTENDS Integers, Sequences, FiniteSets, SequencesExt

CONSTANTS
  Terms,          \* text terms a document may contain
  TagValues,      \* values of the index's TAG field
  NumNumeric,     \* number of NUMERIC fields in the schema
  MaxDocs,        \* bound: docIds assigned per index incarnation
  MaxUid,         \* bound: uniqueIds handed out (index recreations)
  MaxRangeId,     \* bound: numeric range ids, hence numeric splits
  BlockCap,       \* postings per inverted-index block
  GcScanSize,     \* RSGlobalConfig.gcScanSize: blocks per Repair call
  GC_MIN_HZ,      \* frequencies are in tenths of a Hz
  GC_MAX_HZ,
  InitialHz,
  None            \* model value: no term, tag, field or range chosen

ASSUME NumNumeric \in Nat \ {0}
ASSUME {MaxDocs, MaxUid, MaxRangeId, BlockCap, GcScanSize} \subseteq Nat \ {0}
\* The initial hz is the configured value, not necessarily within the bounds.
ASSUME {GC_MIN_HZ, InitialHz} \subseteq Nat \ {0} /\ GC_MIN_HZ <= GC_MAX_HZ

VARIABLES
  (* host / main thread *)
  gil,            \* holder of the host's global lock: "free" or "gc"
  loading,        \* the host is loading an RDB snapshot
  specId,         \* uniqueId of the live index spec; 0 when dropped
  nextUid,        \* next uniqueId to hand out
  live,           \* docIds present in the spec's document table
  nextDocId,      \* next docId of the current spec
  termIdx,        \* term -> blocks; DOMAIN is the term trie
  tagIdx,         \* tag value -> blocks; DOMAIN is the tag field's values
  numTree,        \* numeric field -> [rev, ranges, numEntries]
  nextRangeId,    \* fresh identity for numeric ranges (memory addresses)
  numRecords,     \* spec->stats.numRecords
  (* GC thread *)
  gcPc,           \* where the GC thread is
  status,         \* SPEC_STATUS_OK / SPEC_STATUS_INVALID of the pass
  rdbPossiblyLoading,
  specUniqueId,   \* the member: never assigned, so whatever the allocation held
  hz,
  totalRemoved,   \* records removed so far in this pass
  blockNum,       \* next block to repair
  gcTerm,         \* term chosen by CollectRandomTerm
  gcTag,          \* tag value chosen by CollectTagIndex
  gcField,        \* numeric field chosen by CollectNumericIndex
  gcRange,        \* range id of nextNode chosen by NextGcNode
  numericGC       \* array of NumericFieldGC: [rev, iter]

hostVars == <<loading, specId, nextUid, live, nextDocId, termIdx, tagIdx,
              numTree, nextRangeId, numRecords>>
gcVars   == <<gcPc, status, rdbPossiblyLoading, specUniqueId, hz, totalRemoved, blockNum,
              gcTerm, gcTag, gcField, gcRange, numericGC>>
vars     == <<gil, hostVars, gcVars>>

DocIds   == 1..MaxDocs
NumFields == 1..NumNumeric
\* The uniqueId the spec had when its GC was created: the constructor's
\* specUniqueId argument.  The constructor assigns the parameter to itself
\* (specUniqueId = specUniqueId), so the member keeps whatever the
\* allocation held: the variable specUniqueId, chosen in Init.
CreatedUid == 1

-----------------------------------------------------------------------------
(* Inverted indexes                                                        *)

\* Append a posting: into the last block while it has room, else a new one.
AddPosting(blocks, d) ==
  IF blocks # <<>> /\ Cardinality(Last(blocks)) < BlockCap
  THEN [blocks EXCEPT ![Len(blocks)] = @ \cup {d}]
  ELSE Append(blocks, {d})

\* Blocks holding the docIds of S, appended in increasing order.
BlocksOf(S) == FoldLeft(AddPosting, <<>>, SetToSortSeq(S, <))

Postings(blocks) == UNION {blocks[i] : i \in 1..Len(blocks)}

\* InvertedIndex::Repair(docs, from, {limit: GcScanSize}): repairs blocks
\* from+1 .. from+GcScanSize (1-based) dropping docIds that are not live,
\* and returns the next block to repair, or 0 when it reached the end.
RepairEnd(blocks, from) ==
  IF from + GcScanSize < Len(blocks) THEN from + GcScanSize ELSE Len(blocks)
Repaired(blocks, from) ==
  [i \in 1..Len(blocks) |->
     IF from < i /\ i <= RepairEnd(blocks, from) THEN blocks[i] \cap live
     ELSE blocks[i]]
RepairNext(blocks, from) ==
  IF from + GcScanSize < Len(blocks) THEN from + GcScanSize ELSE 0
DocsCollected(blocks, from) ==
  Cardinality(UNION {blocks[i] \ live : i \in (from + 1)..RepairEnd(blocks, from)})

-----------------------------------------------------------------------------
(* Numeric range trees                                                     *)

EmptyTree(firstId) == [rev |-> 0, ranges |-> <<[id |-> firstId, blocks |-> <<>>]>>,
                       numEntries |-> 0]
FreshTrees(firstId) == [f \in NumFields |-> EmptyTree(firstId + f - 1)]

RangeIds(f) == {numTree[f].ranges[i].id : i \in 1..Len(numTree[f].ranges)}
RangePos(f, id) ==
  IF id \in RangeIds(f)
  THEN CHOOSE i \in 1..Len(numTree[f].ranges) : numTree[f].ranges[i].id = id
  ELSE 0

RangeIdSeq(f) == [i \in 1..Len(numTree[f].ranges) |-> numTree[f].ranges[i].id]

\* NumericFieldGC(rt): captures the tree's revisionId and a fresh iterator;
\* the iterator holds the range nodes of the tree as it was when created.
NewNumericFieldGC(f) == [rev |-> numTree[f].rev, iter |-> RangeIdSeq(f)]

\* NextGcNode: the iterator hands out its nodes in order; when exhausted it
\* is recreated from the tree's root once.  A tree always has a range, so
\* the second iteration never comes back empty.
GcIterator(e, f) == IF e.iter # <<>> THEN e.iter ELSE RangeIdSeq(f)
NextGcNode(e, f) == Head(GcIterator(e, f))
AdvanceGcNode(e, f) == [e EXCEPT !.iter = Tail(GcIterator(e, f))]

-----------------------------------------------------------------------------
(* Frequency adaptation (hz in tenths of a Hz, products rounded down)      *)

MinHz(a, b) == IF a < b THEN a ELSE b
MaxHz(a, b) == IF a > b THEN a ELSE b

\* Mutant of OnDelete: the MIN with GC_MAX_HZ is dropped.
OnDeleteNoCap(h) == (h * 15) \div 10

\* GarbageCollector::OnDelete
OnDelete(h) == MinHz((h * 15) \div 10, GC_MAX_HZ)

\* end of PeriodicCallback
AdaptedHz(h, removed) ==
  IF removed > 0 THEN MinHz((h * 12) \div 10, GC_MAX_HZ)
  ELSE MaxHz((h * 99) \div 100, GC_MIN_HZ)

-----------------------------------------------------------------------------
(* Main thread.  Every host step runs under the GIL, so it can only happen *)
(* while the GC thread sleeps or has yielded.                              *)

HostStep(A) == gil = "free" /\ A /\ UNCHANGED gil

\* The RDB load that was in progress when the module started completes.
FinishLoading ==
  HostStep(/\ loading
           /\ loading' = FALSE
           /\ UNCHANGED <<specId, nextUid, live, nextDocId, termIdx, tagIdx,
                          numTree, nextRangeId, numRecords>>
           /\ UNCHANGED gcVars)

\* A numeric leaf range that grew too large is split into two new ranges and
\* freed; the tree's revisionId is bumped (NumericRangeTree::Add).
SplitRange(tree, pos, left, id) ==
  LET all == Postings(tree.ranges[pos].blocks)
  IN [tree EXCEPT
        !.rev = @ + 1,
        !.ranges = SubSeq(@, 1, pos - 1)
                   \o << [id |-> id, blocks |-> BlocksOf(left)],
                        [id |-> id + 1, blocks |-> BlocksOf(all \ left)] >>
                   \o SubSeq(@, pos + 1, Len(@))]

\* IndexBulkData::numericIndexer: rt->Add posts d into the range that covers
\* the value; a range that grew too large is split (SplitRange).
NumericIndexer(nf, d) ==
  \E pos \in 1..Len(numTree[nf].ranges) :
    LET added == [numTree[nf] EXCEPT !.ranges[pos].blocks = AddPosting(@, d),
                                     !.numEntries = @ + 1]
    IN \/ /\ numTree' = [numTree EXCEPT ![nf] = added]
          /\ UNCHANGED nextRangeId
       \/ /\ nextRangeId + 1 <= MaxRangeId
          /\ \E left \in SUBSET Postings(added.ranges[pos].blocks) :
               /\ left # {}
               /\ left # Postings(added.ranges[pos].blocks)
               /\ numTree' = [numTree EXCEPT ![nf] = SplitRange(added, pos, left, nextRangeId)]
          /\ nextRangeId' = nextRangeId + 2

\* IndexBulkData::tagIndexer: tidx->Index posts d in one inverted index per
\* tag value of the field, created on first use.
TagIndexer(tags, d) ==
  [v \in DOMAIN tagIdx \cup tags |->
     IF v \in tags THEN AddPosting(IF v \in DOMAIN tagIdx THEN tagIdx[v] ELSE <<>>, d)
     ELSE tagIdx[v]]

\* The indexer commits one document under the GIL: a new docId, one posting
\* per term, then IndexBulkData::Add runs the numeric and the tag indexer of
\* its fields, each adding one to numRecords for the whole field.
\* nf, tags = None: the document has no numeric, no tag field.
IndexDocument(terms, nf, tags) ==
  HostStep(
    LET d == nextDocId IN
    /\ specId # 0
    /\ nextDocId <= MaxDocs
    /\ nextDocId' = nextDocId + 1
    /\ live' = live \cup {d}
    /\ termIdx' = [t \in DOMAIN termIdx \cup terms |->
                     AddPosting(IF t \in DOMAIN termIdx THEN termIdx[t] ELSE <<>>, d)]
    /\ tagIdx' = IF tags = None THEN tagIdx ELSE TagIndexer(tags, d)
    /\ IF nf = None THEN UNCHANGED <<numTree, nextRangeId>> ELSE NumericIndexer(nf, d)
    /\ numRecords' = numRecords + Cardinality(terms)
                     + (IF nf = None THEN 0 ELSE 1)
                     + (IF tags = None THEN 0 ELSE 1)
    /\ UNCHANGED <<loading, specId, nextUid>>
    /\ UNCHANGED gcVars)

\* A document is deleted from the document table; its postings stay until
\* the GC repairs their blocks.  The spec's GC gets the OnDelete hint.
DeleteDocument(d) ==
  HostStep(
    /\ d \in live
    /\ live' = live \ {d}
    /\ hz' = IF specId = CreatedUid THEN OnDelete(hz) ELSE hz
    /\ UNCHANGED <<loading, specId, nextUid, nextDocId, termIdx, tagIdx,
                   numTree, nextRangeId, numRecords>>
    /\ UNCHANGED <<gcPc, status, rdbPossiblyLoading, specUniqueId, totalRemoved, blockNum,
                   gcTerm, gcTag, gcField, gcRange, numericGC>>)

\* The index is dropped: the spec, its document table and all its index keys
\* are freed.
DropIndex ==
  HostStep(
    /\ specId # 0
    /\ specId' = 0
    /\ live' = {}
    /\ termIdx' = <<>>
    /\ tagIdx' = <<>>
    /\ numTree' = [f \in NumFields |-> [rev |-> 0, ranges |-> <<>>, numEntries |-> 0]]
    /\ numRecords' = 0
    /\ UNCHANGED <<loading, nextUid, nextDocId, nextRangeId>>
    /\ UNCHANGED gcVars)

\* An index of the same name is created again, with a new uniqueId.
CreateIndex ==
  HostStep(
    /\ specId = 0
    /\ nextUid <= MaxUid
    /\ nextRangeId + NumNumeric <= MaxRangeId + 1
    /\ specId' = nextUid
    /\ nextUid' = nextUid + 1
    /\ nextDocId' = 1
    /\ numTree' = FreshTrees(nextRangeId)
    /\ nextRangeId' = nextRangeId + NumNumeric
    /\ UNCHANGED <<loading, live, termIdx, tagIdx, numRecords>>
    /\ UNCHANGED gcVars)

HostNext ==
  \/ FinishLoading
  \/ \E terms \in SUBSET Terms, nf \in NumFields \cup {None},
        tags \in (SUBSET TagValues) \cup {None} : IndexDocument(terms, nf, tags)
  \/ \E d \in DocIds : DeleteDocument(d)
  \/ DropIndex
  \/ CreateIndex

-----------------------------------------------------------------------------
(* GC thread.  gil = "gc" from PeriodicCallback until the pass ends,       *)
(* except while it waits in sctx->Refresh (the *Yield program counters).   *)

\* The re-check of the collectors: a spec is found under keyName and its
\* uniqueId equals the member specUniqueId.
SpecValid == specId # 0 /\ specId = specUniqueId

\* Leave the current collector for the next one; its locals go out of scope.
EndCollector(next) ==
  /\ gcPc' = next
  /\ blockNum' = 0
  /\ gcTerm' = None /\ gcTag' = None /\ gcField' = None /\ gcRange' = None

\* A collector finds no spec with its uniqueId (at entry or after a yield).
Invalidate(next) ==
  /\ ~SpecValid
  /\ gil' = "gc"
  /\ status' = "INVALID"
  /\ EndCollector(next)
  /\ UNCHANGED <<hostVars, rdbPossiblyLoading, specUniqueId, hz, totalRemoved, numericGC>>

\* updateStats plus the collector's own total.
Collect(n) ==
  /\ numRecords' = numRecords - n
  /\ totalRemoved' = totalRemoved + n

\* PeriodicCallback: lock; skip the pass while an RDB may be loading.
PeriodicCallback ==
  /\ gcPc = "sleep"
  /\ gil = "free"
  /\ IF rdbPossiblyLoading /\ loading
     THEN UNCHANGED <<gil, gcVars>>
     ELSE /\ gil' = "gc"
          /\ rdbPossiblyLoading' = FALSE
          /\ gcPc' = "term"
          /\ status' = "OK"
          /\ totalRemoved' = 0
          /\ UNCHANGED <<specUniqueId, hz, blockNum, gcTerm, gcTag, gcField, gcRange,
                         numericGC>>
  /\ UNCHANGED hostVars

\* CollectRandomTerm, entry: the spec's trie is empty, or a weighted random
\* term is chosen and its inverted index opened.
CollectRandomTermEmpty ==
  /\ gcPc = "term" /\ SpecValid
  /\ DOMAIN termIdx = {}
  /\ EndCollector("numeric")
  /\ UNCHANGED <<gil, hostVars, status, rdbPossiblyLoading, specUniqueId, hz, totalRemoved, numericGC>>

CollectRandomTermBegin(t) ==
  /\ gcPc = "term" /\ SpecValid
  /\ t \in DOMAIN termIdx
  /\ gcTerm' = t
  /\ blockNum' = 0
  /\ gcPc' = "termRepair"
  /\ UNCHANGED <<gil, hostVars, status, rdbPossiblyLoading, specUniqueId, hz, totalRemoved,
                 gcTag, gcField, gcRange, numericGC>>

\* One idx->Repair batch; blockNum 0 ends the loop, otherwise close the key
\* and yield in sctx->Refresh.
CollectRandomTermRepair ==
  LET b == termIdx[gcTerm] IN
  /\ gcPc = "termRepair"
  /\ termIdx' = [termIdx EXCEPT ![gcTerm] = Repaired(b, blockNum)]
  /\ Collect(DocsCollected(b, blockNum))
  /\ IF RepairNext(b, blockNum) = 0
     THEN /\ EndCollector("numeric") /\ UNCHANGED gil
     ELSE /\ blockNum' = RepairNext(b, blockNum)
          /\ gcPc' = "termYield" /\ gil' = "free"
          /\ UNCHANGED <<gcTerm, gcTag, gcField, gcRange>>
  /\ UNCHANGED <<loading, specId, nextUid, live, nextDocId, tagIdx, numTree,
                 nextRangeId, status, rdbPossiblyLoading, specUniqueId, hz, numericGC>>

\* Back from sctx->Refresh: stop if the spec is gone or recreated, else
\* reopen the term's index (Redis_OpenInvertedIndexEx with create = 1).
CollectRandomTermResume ==
  /\ gcPc = "termYield" /\ gil = "free"
  /\ \/ Invalidate("numeric")
     \/ /\ SpecValid
        /\ gil' = "gc"
        /\ termIdx' = IF gcTerm \in DOMAIN termIdx THEN termIdx
                      ELSE termIdx @@ (gcTerm :> <<>>)
        /\ gcPc' = "termRepair"
        /\ UNCHANGED <<loading, specId, nextUid, live, nextDocId, tagIdx, numTree,
                       nextRangeId, numRecords>>
        /\ UNCHANGED <<status, rdbPossiblyLoading, specUniqueId, hz, totalRemoved, blockNum,
                       gcTerm, gcTag, gcField, gcRange, numericGC>>

\* Mutant of CollectNumericIndexBegin: the cached NumericFieldGC is kept
\* when the tree's revisionId moved.
CollectNumericIndexBeginNoRebuild(f) ==
  LET arr   == IF Len(numericGC) # NumNumeric
               THEN [i \in NumFields |-> NewNumericFieldGC(i)]
               ELSE numericGC
  IN
  /\ gcPc = "numeric" /\ SpecValid
  /\ numericGC' = [arr EXCEPT ![f] = AdvanceGcNode(arr[f], f)]
  /\ gcField' = f
  /\ gcRange' = NextGcNode(arr[f], f)
  /\ blockNum' = 0
  /\ gcPc' = "numRepair"
  /\ UNCHANGED <<gil, hostVars, status, rdbPossiblyLoading, specUniqueId, hz, totalRemoved,
                 gcTerm, gcTag>>

\* CollectNumericIndex, entry: (re)build the NumericFieldGC array when the
\* number of numeric fields changed, pick a random field, rebuild its entry
\* if the tree's revisionId moved, and take the next node from NextGcNode.
CollectNumericIndexBegin(f) ==
  LET arr   == IF Len(numericGC) # NumNumeric
               THEN [i \in NumFields |-> NewNumericFieldGC(i)]
               ELSE numericGC
      entry == IF arr[f].rev # numTree[f].rev THEN NewNumericFieldGC(f) ELSE arr[f]
  IN
  /\ gcPc = "numeric" /\ SpecValid
  /\ numericGC' = [arr EXCEPT ![f] = AdvanceGcNode(entry, f)]
  /\ gcField' = f
  /\ gcRange' = NextGcNode(entry, f)
  /\ blockNum' = 0
  /\ gcPc' = "numRepair"
  /\ UNCHANGED <<gil, hostVars, status, rdbPossiblyLoading, specUniqueId, hz, totalRemoved,
                 gcTerm, gcTag>>

\* One nextNode->range->entries.Repair batch; the tree's numEntries drops
\* too.  Not the end: yield in sctx->Refresh (no key is held open).
CollectNumericIndexRepair ==
  LET f   == gcField
      pos == RangePos(f, gcRange)
      b   == IF pos = 0 THEN <<>> ELSE numTree[f].ranges[pos].blocks
      n   == DocsCollected(b, blockNum)
  IN
  /\ gcPc = "numRepair"
  /\ numTree' = IF pos = 0 THEN numTree
                ELSE [numTree EXCEPT ![f].ranges[pos].blocks = Repaired(b, blockNum),
                                     ![f].numEntries = @ - n]
  /\ Collect(n)
  /\ IF RepairNext(b, blockNum) = 0
     THEN /\ EndCollector("tag") /\ UNCHANGED gil
     ELSE /\ blockNum' = RepairNext(b, blockNum)
          /\ gcPc' = "numYield" /\ gil' = "free"
          /\ UNCHANGED <<gcTerm, gcTag, gcField, gcRange>>
  /\ UNCHANGED <<loading, specId, nextUid, live, nextDocId, termIdx, tagIdx,
                 nextRangeId, status, rdbPossiblyLoading, specUniqueId, hz, numericGC>>

\* Back from sctx->Refresh: stop if the spec changed or if the cached
\* tree's revisionId moved (nextNode may have been freed by a split).
CollectNumericIndexResume ==
  /\ gcPc = "numYield" /\ gil = "free"
  /\ \/ Invalidate("tag")
     \/ /\ SpecValid
        /\ gil' = "gc"
        /\ IF numericGC[gcField].rev # numTree[gcField].rev
           THEN EndCollector("tag")
           ELSE /\ gcPc' = "numRepair"
                /\ UNCHANGED <<blockNum, gcTerm, gcTag, gcField, gcRange>>
        /\ UNCHANGED <<hostVars, status, rdbPossiblyLoading, specUniqueId, hz, totalRemoved, numericGC>>

\* CollectTagIndex, entry: the tag index key is absent or has no value
\* (TagIndex::Open / RandomKey fail), or a random value is chosen.
CollectTagIndexEmpty ==
  /\ gcPc = "tag" /\ SpecValid
  /\ DOMAIN tagIdx = {}
  /\ EndCollector("end")
  /\ UNCHANGED <<gil, hostVars, status, rdbPossiblyLoading, specUniqueId, hz, totalRemoved, numericGC>>

CollectTagIndexBegin(v) ==
  /\ gcPc = "tag" /\ SpecValid
  /\ v \in DOMAIN tagIdx
  /\ gcTag' = v
  /\ blockNum' = 0
  /\ gcPc' = "tagRepair"
  /\ UNCHANGED <<gil, hostVars, status, rdbPossiblyLoading, specUniqueId, hz, totalRemoved,
                 gcTerm, gcField, gcRange, numericGC>>

CollectTagIndexRepair ==
  LET b == tagIdx[gcTag] IN
  /\ gcPc = "tagRepair"
  /\ tagIdx' = [tagIdx EXCEPT ![gcTag] = Repaired(b, blockNum)]
  /\ Collect(DocsCollected(b, blockNum))
  /\ IF RepairNext(b, blockNum) = 0
     THEN /\ EndCollector("end") /\ UNCHANGED gil
     ELSE /\ blockNum' = RepairNext(b, blockNum)
          /\ gcPc' = "tagYield" /\ gil' = "free"
          /\ UNCHANGED <<gcTerm, gcTag, gcField, gcRange>>
  /\ UNCHANGED <<loading, specId, nextUid, live, nextDocId, termIdx, numTree,
                 nextRangeId, status, rdbPossiblyLoading, specUniqueId, hz, numericGC>>

\* Mutant of CollectTagIndexResume: the uniqueId re-check is dropped.
CollectTagIndexResumeUnchecked ==
  /\ gcPc = "tagYield" /\ gil = "free"
  /\ gil' = "gc"
  /\ IF gcTag \notin DOMAIN tagIdx
     THEN EndCollector("end")
     ELSE /\ gcPc' = "tagRepair"
          /\ UNCHANGED <<blockNum, gcTerm, gcTag, gcField, gcRange>>
  /\ UNCHANGED <<hostVars, status, rdbPossiblyLoading, specUniqueId, hz, totalRemoved, numericGC>>

\* Back from sctx->Refresh: stop if the spec changed, if the tag index can
\* no longer be opened or the value is no longer found; else continue.
CollectTagIndexResume ==
  /\ gcPc = "tagYield" /\ gil = "free"
  /\ \/ Invalidate("end")
     \/ /\ SpecValid
        /\ gil' = "gc"
        /\ IF gcTag \notin DOMAIN tagIdx
           THEN EndCollector("end")
           ELSE /\ gcPc' = "tagRepair"
                /\ UNCHANGED <<blockNum, gcTerm, gcTag, gcField, gcRange>>
        /\ UNCHANGED <<hostVars, status, rdbPossiblyLoading, specUniqueId, hz, totalRemoved, numericGC>>

\* End of PeriodicCallback: adapt hz, unlock, and return whether the spec
\* was still valid; a false return stops the GC for good.
PeriodicCallbackEnd ==
  /\ gcPc = "end"
  /\ hz' = AdaptedHz(hz, totalRemoved)
  /\ gil' = "free"
  /\ gcPc' = IF status = "OK" THEN "sleep" ELSE "stopped"
  /\ UNCHANGED <<hostVars, status, rdbPossiblyLoading, specUniqueId, totalRemoved, blockNum,
                 gcTerm, gcTag, gcField, gcRange, numericGC>>

\* OnTerm: once the timer has stopped, lock, free the NumericFieldGC array
\* and unlock.
OnTerm ==
  /\ gcPc = "stopped"
  /\ gil = "free"
  /\ gcPc' = "terminated"
  /\ numericGC' = <<>>
  /\ UNCHANGED <<gil, hostVars, status, rdbPossiblyLoading, specUniqueId, hz, totalRemoved,
                 blockNum, gcTerm, gcTag, gcField, gcRange>>

CollectInvalid ==
  /\ gcPc \in {"term", "numeric", "tag"}
  /\ Invalidate(CASE gcPc = "term" -> "numeric"
                  [] gcPc = "numeric" -> "tag"
                  [] gcPc = "tag" -> "end")

GCNext ==
  \/ PeriodicCallback
  \/ CollectInvalid
  \/ CollectRandomTermEmpty
  \/ \E t \in Terms : CollectRandomTermBegin(t)
  \/ CollectRandomTermRepair
  \/ CollectRandomTermResume
  \/ \E f \in NumFields : CollectNumericIndexBegin(f)
  \/ CollectNumericIndexRepair
  \/ CollectNumericIndexResume
  \/ CollectTagIndexEmpty
  \/ \E v \in TagValues : CollectTagIndexBegin(v)
  \/ CollectTagIndexRepair
  \/ CollectTagIndexResume
  \/ PeriodicCallbackEnd
  \/ OnTerm

-----------------------------------------------------------------------------
Init ==
  /\ gil = "free"
  /\ loading \in BOOLEAN
  /\ specId = CreatedUid
  /\ nextUid = CreatedUid + 1
  /\ live = {}
  /\ nextDocId = 1
  /\ termIdx = <<>>
  /\ tagIdx = <<>>
  /\ numTree = FreshTrees(1)
  /\ nextRangeId = NumNumeric + 1
  /\ numRecords = 0
  /\ gcPc = "sleep"
  /\ status = "OK"
  /\ rdbPossiblyLoading = TRUE
  /\ specUniqueId \in 0..MaxUid
  /\ hz = InitialHz
  /\ totalRemoved = 0
  /\ blockNum = 0
  /\ gcTerm = None
  /\ gcTag = None
  /\ gcField = None
  /\ gcRange = None
  /\ numericGC = <<>>

Next == HostNext \/ GCNext

Spec == Init /\ [][Next]_vars

\* The GC thread keeps being scheduled by its timer and the RDB load ends.
\* The term, numeric field and tag value a pass works on are drawn at
\* random (GetRandomTerm, rand() % size, RandomKey): every candidate has a
\* positive chance on every pass, hence strong fairness on each choice.
Fairness ==
  /\ WF_vars(FinishLoading)
  /\ WF_vars(GCNext)
  /\ \A t \in Terms : SF_vars(CollectRandomTermBegin(t))
  /\ \A f \in NumFields : SF_vars(CollectNumericIndexBegin(f))
  /\ \A v \in TagValues : SF_vars(CollectTagIndexBegin(v))

FairSpec == Spec /\ Fairness

-----------------------------------------------------------------------------
TypeOK ==
  /\ gil \in {"free", "gc"}
  /\ loading \in BOOLEAN
  /\ specId \in 0..MaxUid
  /\ specUniqueId \in 0..MaxUid
  /\ live \subseteq DocIds
  /\ nextDocId \in 1..(MaxDocs + 1)
  /\ DOMAIN termIdx \subseteq Terms
  /\ DOMAIN tagIdx \subseteq TagValues
  /\ \A t \in DOMAIN termIdx : termIdx[t] \in Seq(SUBSET DocIds)
  /\ \A v \in DOMAIN tagIdx : tagIdx[v] \in Seq(SUBSET DocIds)
  /\ numRecords \in Int
  /\ gcPc \in {"sleep", "term", "termRepair", "termYield", "numeric", "numRepair",
               "numYield", "tag", "tagRepair", "tagYield", "end", "stopped",
               "terminated"}
  /\ status \in {"OK", "INVALID"}
  /\ hz \in GC_MIN_HZ..GC_MAX_HZ
  /\ blockNum \in Nat
  /\ numericGC \in Seq([rev : Nat, iter : Seq(Nat)])

-----------------------------------------------------------------------------
(* Properties                                                              *)

IndexedDocs ==
  UNION {Postings(termIdx[t]) : t \in DOMAIN termIdx}
  \cup UNION {Postings(tagIdx[v]) : v \in DOMAIN tagIdx}
  \cup UNION {UNION {Postings(numTree[f].ranges[i].blocks) :
                      i \in 1..Len(numTree[f].ranges)} : f \in NumFields}

\* Scenario 6 of the spec: once the spec the GC was created for has been
\* dropped or recreated, no GC step changes an inverted index, a numeric
\* tree or the stats -- the uniqueId re-checks at the entry of
\* CollectRandomTerm, CollectNumericIndex and CollectTagIndex and after
\* each sctx->Refresh are meant to stop it.  They compare with the member
\* specUniqueId, which the constructor never sets.
GCLeavesOtherSpecsAlone ==
  [][GCNext /\ specId # CreatedUid
       => UNCHANGED <<termIdx, tagIdx, numTree, numRecords>>]_vars

\* CollectNumericIndex keeps the raw nextNode pointer across the yield in
\* sctx->Refresh and NumericFieldGC keeps an iterator across passes: the
\* range it repairs is always one the current tree still has (not one freed
\* by a split, which bumps revisionId).
NumericRangePointerValid ==
  gcPc = "numRepair" => gcRange \in RangeIds(gcField)

\* Each collector closes its keys before sctx->Refresh and, back under
\* the GIL, reopens them by name (Redis_OpenInvertedIndexEx, TagIndex::Open
\* and values->Find) -- names a dropped and recreated index has again.
\* Whenever a collector repairs, the spec under keyName is still the one
\* whose uniqueId the GC holds in specUniqueId.
RepairsOnlyItsOwnSpec ==
  gcPc \in {"termRepair", "numRepair", "tagRepair"} => SpecValid

\* Every posting of a deleted document is eventually removed by the GC, as
\* long as the spec it was created for is still there: PeriodicCallback
\* keeps the GC running while the collectors find that spec, the repair
\* loops resume at blockNum after each yield and the numeric iterator
\* visits every range.  Whether the collectors find it depends on the
\* never-assigned member specUniqueId.
DeadPostingsEventuallyCollected ==
  <>[](specId = CreatedUid => IndexedDocs \subseteq live)

\* spec->stats.numRecords counts the records in the spec's indexes; being a
\* size_t, it never goes below zero (it would wrap).
NumRecordsNeverNegative == numRecords >= 0

\* The spec's GC state: hz "starts at a user-configured initial value and is
\* bounded by [GC_MIN_HZ, GC_MAX_HZ]".  The constructor stores initialHZ
\* as given and PeriodicCallback only clamps in the direction it moves hz:
\* every completed pass leaves hz within the bounds.
HzBoundedAfterPass ==
  [][PeriodicCallbackEnd => hz' \in GC_MIN_HZ..GC_MAX_HZ]_vars

=============================================================================
