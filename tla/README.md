# TLA+ models of RediSearch document ingest and the legacy GC

This directory holds TLA+ models of the two stateful cores under `src/src/`:

* the **document ingest pipeline** in `document.c`: the `AddDocumentCtx` from its
  construction to the reply that frees it;
* the **legacy garbage collector** in `legacy_gc.c`: the periodic pass that repairs
  inverted-index blocks against the live-document set.

It also has the TLC configurations that check them, and `PROJECT.json`, which
maps every definition to the source lines it models, lists the runs, mutants,
findings and hazards.

## The system

### Parts and how they interact

| Part | Source | Threads | State it changes |
|---|---|---|---|
| `AddDocumentCtx` (constructor, `SetDocument`, `Submit`, `Finish`, `replyCallback`) | document.c 23–334 | main thread; `Finish` also runs on the indexer thread | the context's flags, field specs, sort vector, document; the blocked client |
| Field preprocessors, `Document::AddToIndexes` | document.c 338–578 | main thread (small or NOBLOCK documents) or the index worker pool (documents of 1024 bytes or more) | sort vector, forward index, per-field indexer data |
| `IndexBulkData` (numeric, geo, tag) | document.c 392–517 | indexer thread | numeric trees, geo index, tag index, `stats.numRecords` |
| Partial update (`handlePartialUpdate`, `ReplaceMerge`, `UpdateNoIndex`) | document.c 235–272, 637–704 | main thread | document metadata (score, sort vector), or a full reindex |
| Indexer queue (not under `src/`) | spec §4.5 | indexer thread | docIds, inverted index, metadata |
| `Document::EvalExpression` | document.c 591–633 | main thread | none (read-only) |
| `GarbageCollector` | legacy_gc.c | GC timer thread, holding the GIL (`ThreadSafeContextLock`) except while it yields in `sctx->Refresh` | inverted-index blocks, numeric range entries, tag inverted indexes, `stats.numRecords`, `hz` |
| `spell_check.h`, `trie/trie_type.h` | headers | — | declarations only |

The command handler builds a context. `SetDocument` classifies the fields:
INDEXABLES, SORTABLES, EMPTY, and one `FieldSpec` per field, stored in `fspecs`
at the field's position. `Submit` either handles a PARTIAL update, offloads a
large blockable document to the worker pool, or runs `AddToIndexes` inline. The
preprocessors fill the sort vector and per-field data. `indexer->Add` queues the
context, or runs the merge synchronously for NOBLOCK. The indexer assigns a
docId, merges, runs the bulk indexers and calls `Finish`. `Finish` either replies
at once (NOBLOCK) or unblocks the client, so that `replyCallback` replies and
deletes the context on the main thread.

Independently, the GC wakes on a timer, takes the GIL, and runs three
collectors in turn. Each collector picks a random term, numeric field or tag
value and repairs `gcScanSize` blocks. It then yields the GIL in
`sctx->Refresh`. When it gets the GIL back, it re-checks that the index is the
same one (its `uniqueId`) and, for numeric ranges, that the tree was not split
(`revisionId`). The two cores meet in the index: ingest adds postings and
`numRecords`; deletes remove documents from the live set; the GC removes their
postings and subtracts from `numRecords`.

### Hard behaviours

* **GC yields racing the main thread.** Between batches the main thread can
  index, delete, split numeric ranges, or drop the index and create it again.
* **The ingest threads.** The main thread, the worker pool and the indexer
  thread hand each context from one to the next. Completion must happen
  exactly once, on every path: inline, offloaded, NOBLOCK, preprocessor
  failure, partial update.
* **Positional pairing.** `fspecs[i]` must be the spec of `doc.fields[i]` in
  `SetDocument`, `Submit`, `AddToIndexes` and the bulk indexer.

## Modules

### `GarbageCollector.tla` (+ `MC_GarbageCollector.tla`)

State is split into the host (main thread) and the GC.

The host state:
* `gil`: who holds the lock.
* `loading`: the RDB load in progress when the module starts.
* `specId`: the live index's uniqueId, 0 when dropped.
* `live`: the document table's live ids.
* `termIdx` and `tagIdx`: block lists per term or tag value.
* `numTree`: per numeric field, a `rev` (revisionId), a sequence of ranges
  `[id, blocks]`, and `numEntries`.
* `numRecords`.

The GC state is the callback's locals and members:
* `gcPc`: where in `PeriodicCallback` the thread is.
* `status`, `rdbPossiblyLoading`, `hz`, `totalRemoved`, `blockNum`.
* `specUniqueId`: the member every uniqueId re-check compares with. The
  constructor assigns its parameter of the same name to itself
  (`legacy_gc.c:47`), so the member is never set and holds whatever the
  allocation held. Reading it is undefined behaviour; the model chooses its
  value in `Init` from `0..MaxUid` (0 stands for any value no index has) and
  no action changes it, as in a value fixed but unknown for the whole run.
  `CreatedUid` is the uniqueId the constructor was given: the index that
  exists at start-up has it.
* `gcTerm`, `gcTag`, `gcField`, `gcRange`: the chosen term, tag value, field
  and range.
* `numericGC`: one `[rev, iter]` per numeric field. `iter` is the iterator's
  snapshot of range ids, so a range freed by a split stays in it, as a stale
  node pointer would.

Actions:
* Host actions run only while `gil = "free"`: `FinishLoading` (the start-up
  load ends), `IndexDocument(terms, nf, tags)`, `DeleteDocument(d)`,
  `DropIndex` and `CreateIndex`. `IndexDocument` is `IndexBulkData::Add`
  running `NumericIndexer` (`numericIndexer`, with the optional range split)
  and `TagIndexer` (`tagIndexer`), each adding one to `numRecords` per field.
* Each collector is split at its yields. `*Begin` is the entry and the random
  choice. `*Repair` is one `Repair` batch plus `updateStats`; it ends the
  collector or yields. `*Resume` is the return from `Refresh` with its checks.
* `PeriodicCallback` and `PeriodicCallbackEnd` are the callback's head and tail
  (hz adaptation; a false return stops the timer). `OnTerm` then frees the
  `NumericFieldGC` array under the lock.
* `CollectInvalid` is a collector's entry check failing.
* `InvertedIndex::Repair` and the numeric tree are not under `src/`. They are
  modelled from the spec: a repair walks `GcScanSize` blocks and returns the
  next block, or 0. The actions use closed forms (`Repaired`, `RepairNext`,
  `DocsCollected`).
* `hz` is kept in integer units (tenths of a Hz in the cfgs), with the products
  rounded down. `InitialHz` is the configured value and may lie outside
  `[GC_MIN_HZ, GC_MAX_HZ]`, as the constructor does not clamp it.

### `AddDocument.tla` (+ `MC_AddDocument.tla`)

Per request `r`:
* `pc[r]`: `new`, `rejected`, `worker`, `indexer`, `unblocked`, `freed`,
  `leaked` or `crashed`.
* `actx[r]`: the context's `flags`, `fspecs`, `doc`, `sv`, `code`, the text
  postings it prepared, and `score`.
* `replies[r]` and `frees[r]`: how often `donecb` ran and how often the context
  was deleted.
* `uaf`: the requests whose freed context was touched again.

The store:
* `indexerQ`.
* `docId`: the key's current id.
* `nextId`.
* `index`: postings `<<docId, field, value>>`, where `field` is the FieldSpec
  that indexed the value.
* `md`: per docId, the score and sort vector.
* `hash`: the stored document.
* `content`: per docId, the field texts it was built from.

Operators and actions:
* Pure operators: `SetDocument` (its loop is `ScanFields`), the four
  preprocessors, `PreprocessFields` (the AddToIndexes loop), `BulkAdd`
  (`IndexBulkData::Add`), `UpdateSortables` (the SORTABLES loop of
  `UpdateNoIndex`) and `Bail` (the BAIL macro, which counts completions and
  marks later touches as use after free).
* `Command(r)` is the whole FT.ADD handler on the main thread: constructor,
  save, `Submit` with the partial-update branch, and `AddToIndexes` when inline.
* `Worker(r)` is `threadCallback`.
* `IndexerStep` is the indexer thread: merge, then `Finish`.
* `Reply(r)` is `replyCallback`.
* Text is abstracted. A field's text is a model value. Constants say which
  texts parse as numbers or geo points, which tags a text holds, and how many
  bytes it has (`TextSize`); `OverThreshold` sums the FULLTEXT and TAG fields'
  sizes against `SELF_EXEC_THRESHOLD` as `Submit` does. Tokenization yields
  the text itself.
* Freed memory keeps its contents (the allocator has not reused it). Every use
  of it is recorded in `uaf`.

The command handler and the indexer are not under `src/`. They are modelled
from the spec, and marked `spec_modelled` in the map:
* The command saves the document before `Submit`: a PARTIAL update merges it
  into the stored hash, a full add replaces it, and NOSAVE skips the save.
* NOINDEX fields are not bulk-indexed.
* NOBLOCK contexts are merged synchronously.

### `IngestAbstract.tla`

What ingest promises for full adds to one key, with no threads or queues.
Each request carries its document `want[r]`. It is rejected by the command,
or accepted and later decided in one step: `Commit` makes its document the
key's (`cur`), `Fail` leaves the key alone. A decided request is answered
once, in the same step (the NOBLOCK path) or later (`Answer`). Which requests
fail and the order of decisions are left open. `AFairness` says an accepted
request is eventually decided and a decided one answered.

`AddDocument` instantiates it as `Ingest` with this mapping:
* `want[r]`: the request's fields as a field-to-text function (`FieldMap`).
* `status[r]`: `new` is idle; `worker` and `indexer` are queued;
  `unblocked` (and `leaked`) are decided; `rejected` and `freed` are answered.
  A context answered or freed twice, or used after its delete, maps to no
  abstract state, so it breaks the refinement.
* `result[r]`: none until decided, then the context's code.
* `cur`: the content of the key's docId, or `None`.

The worker step (`worker` to `indexer`) is a stutter of the abstract
specification. `ImplementsIngest == Ingest!ASpec` is checked as a PROPERTY.

## Runs

| Run | Module / cfg | Expect | Checks | What it shows |
|---|---|---|---|---|
| gc_collect | MC_GarbageCollector / gc_collect.cfg | pass | TypeOK, RepairsOnlyItsOwnSpec | All three collectors against indexing, deletion, a drop and a re-create (MaxUid = 2), for every value of the member `specUniqueId`: whenever a collector repairs, the spec under the index name is the one whose uniqueId the member holds, whatever the host did during the yields. |
| gc_numeric | MC_GarbageCollector / gc_numeric.cfg | pass | NumericRangePointerValid | The numeric collector only repairs ranges still in the tree, with two splits (MaxRangeId = 5): neither the `nextNode` it keeps across a yield nor a `NumericFieldGC` iterator kept from an earlier pass is ever a freed range. |
| gc_recreate | MC_GarbageCollector / gc_recreate.cfg | violation | GCLeavesOtherSpecsAlone | Finding 7: when the never-set member holds the re-created index's uniqueId, the GC of the dropped index repairs the new one. |
| gc_liveness | MC_GarbageCollector / gc_liveness.cfg | violation | DeadPostingsEventuallyCollected | Finding 8: when the member holds any other value, the first pass stops the GC for good and dead postings stay. |
| gc_num_records | MC_GarbageCollector / gc_num_records.cfg | violation | NumRecordsNeverNegative | Finding 1: tag records are counted per field but collected per value. |
| gc_hz | MC_GarbageCollector / gc_hz.cfg | violation | HzBoundedAfterPass | Finding 6: a configured initial hz above `GC_MAX_HZ` stays above it after a pass. |
| ingest | MC_AddDocument / ingest.cfg | pass | TypeOK, ContextReleasedOnce, IndexMatchesDocument, EveryRequestAnswered, ImplementsIngest | Two concurrent full adds, over every path, are answered and freed once and indexed exactly as their fields say. The same behaviours implement `IngestAbstract`, liveness included. |
| partial_reindex | MC_AddDocument / partial_reindex.cfg | violation | IndexMatchesDocument | Finding 2: ReplaceMerge leaves the first SetDocument's field specs in place. |
| partial_missing_doc | MC_AddDocument / partial_missing_doc.cfg | violation | ContextReleasedOnce | Finding 3: BAIL does not return. |
| partial_no_reply | MC_AddDocument / partial_no_reply.cfg | violation | EveryRequestAnswered | Finding 4: UpdateNoIndex's success path never replies. |
| partial_bad_number | MC_AddDocument / partial_bad_number.cfg | violation | IndexMatchesDocument | Finding 9: a sortable numeric value that does not parse leaves an uninitialized double in the sort vector. |
| reorder | MC_AddDocument / reorder.cfg | violation | StoredDocumentIndexed | Finding 5: a large add and a later small add of one key are merged in the other order. |

The ingest run's properties only pass because its inputs are full adds: the
hazards of the partial-update paths (the stale `fspecs`, BAIL, the
uninitialized `numval`) are reached by the violation runs, not by ingest.

Every property of a passing run has a mutant in `PROJECT.json`. The mutant
replaces a mapped definition with a plausible bug, and TLC finds the property
violated:
* `OnDelete` without the cap at `GC_MAX_HZ`: `TypeOK` includes
  hz within its bounds;
* the indexer reusing the last docId: `TypeOK` says metadata exists for
  exactly the ids 1..nextId;
* `CollectTagIndexResume` without the uniqueId re-check: after a drop, a
  re-create and an add of the same tag value during the yield, the tag
  collector repairs the new index (`RepairsOnlyItsOwnSpec`);
* `CollectNumericIndexBegin` keeping the cached `NumericFieldGC` when the
  tree's revisionId moved (the rebuild at `legacy_gc.c:316`): its iterator
  hands out a range freed by the second split (`NumericRangePointerValid`);
* `AddToIndexes` falling through to `indexer->Add` after `Finish`;
* `SetDocument` not defaulting `indexAs`;
* `AddToIndexes` returning without `Finish`;
* the indexer merge leaving the key on its first docId: `ImplementsIngest`
  (no invariant about the index notices, since the new id is indexed
  correctly).

### Bounds and why they are enough

* **GC runs.** Block capacity 1 and `gcScanSize` 1 make every document its own
  block, so every repair of more than one document yields at least once. Two
  or three documents, one numeric field, and one or two tag values are enough
  to make these happen:
  * a delete between batches;
  * a split between batches (`MaxRangeId` gives one split);
  * a drop followed by a re-create (`MaxUid` = 2 in gc_collect and
    gc_recreate);
  * in gc_numeric, a range that survives one split and is freed by a second
    (`MaxRangeId` = 5, three documents): an iterator built between the two
    splits still holds it.

  `specUniqueId` ranges over `0..MaxUid`, so every run has behaviours where
  the member names the start-up index, the re-created one, or none.
  `GC_MIN_HZ` = 10, `GC_MAX_HZ` = 20 and `InitialHz` = 10 (tenths) let hz move
  both ways. The run with all three collectors, three documents and two
  splits has 59 million states (8 minutes), so the two questions are asked
  in two runs.
* **gc_hz.** `InitialHz` = 30 with `GC_MAX_HZ` = 20: one idle pass is enough.
* **Ingest.** Two requests on one key, each chosen from ten inputs. Together
  the inputs cover:
  * a full document, blocking and NOBLOCK;
  * a large document (worker pool) and a large NOBLOCK one (inline);
  * two 600-byte fields that only together cross the 1024-byte threshold;
  * a failure in the numeric preprocessor (on a worker) and in the geo
    preprocessor (NOBLOCK);
  * a duplicate field and an unsupported indexAs;
  * an unknown field before known ones;
  * a NOINDEX-only document.

  Both requests interleave through the worker pool and the indexer queue in
  every order.
* **reorder.** Two valid full adds, one of 1100 bytes and one small.
* **Partial runs.** They use a full add plus one PARTIAL update, or a key that
  is already indexed; partial_bad_number updates the sortable numeric `rank`
  to a text that does not parse.

### Fairness

**GC runs:**
* `GCNext` is weakly fair: the timer fires again while the GC is alive.
* `FinishLoading` is weakly fair: the start-up RDB load ends.
* The random choices are strongly fair: `CollectRandomTermBegin(t)`,
  `CollectNumericIndexBegin(f)` and `CollectTagIndexBegin(v)`. `GetRandomTerm`,
  `rand()` and `RandomKey` draw afresh every pass, so a choice that is enabled
  again and again is eventually made. A weakly fair choice would let the GC
  pick the same term forever.

**Ingest runs:**
* `Worker(r)` is weakly fair: the pool runs queued jobs.
* `IndexerStep` is weakly fair: the indexer thread drains its queue.
* `Reply(r)` is weakly fair: Redis serves unblocked clients.
* Nothing obliges a client to send its command, so `EveryRequestAnswered` is
  stated as: once the command has run, the request is eventually answered.
  `IngestAbstract`'s fairness asks the same of accepted requests only.

`CHECK_DEADLOCK FALSE` is set in every cfg, because each model really stops:
* In the GC model, dropping the index stops the GC for good
  (`PeriodicCallback` returns false), and host operations are bounded.
* In the ingest model, every request ends answered, rejected, leaked or
  crashed.

## Findings

1. **`numRecords` underflow** (`document.c:475` with `legacy_gc.c:54`).
   `tagIndexer` adds 1 to `numRecords` per tag field, but the GC subtracts 1 per
   tag-value posting it removes. A deleted document with tags `red,blue` takes
   the counter from 1 to −1, so the `size_t` wraps.
2. **ReplaceMerge misaligns field specs** (`document.c:255`, `:49`, `:53`).
   `SetDocument` appends to `fspecs` without clearing it. After a PARTIAL update
   of `price` on `{title, price}`, the title text is indexed and sorted as
   `price`, and the price as `title`.
3. **BAIL falls through** (`document.c:638–651`). For a key with no document,
   `UpdateNoIndex` calls `donecb` and deletes the context twice, writes the
   status into freed memory, and then dereferences NULL metadata.
4. **UpdateNoIndex never completes on success** (`document.c:704`). The client is
   never answered and the context leaks.

5. **Two adds of one key are indexed out of order** (`document.c:306`).
   `Submit` sends a document of 1024 bytes or more to the worker pool and
   indexes a small one inline. A later small add of the same key reaches the
   indexer queue first, so the earlier, large document is merged last: the
   key's docId holds it, while the command stored the later one. The spec
   says merges are serialized, but not which add of a key wins.
6. **hz outside its bounds** (`legacy_gc.c:42`, `:393`). The constructor
   stores the configured initial hz as given, and a pass that removes nothing
   sets `hz = MAX(hz * 0.99, GC_MIN_HZ)`, which only clamps from below. An
   initial 3 Hz with `GC_MAX_HZ` = 2 Hz is still 2.9 Hz after the first pass,
   where the spec says hz is bounded by `[GC_MIN_HZ, GC_MAX_HZ]`. Symmetrically,
   an initial hz below the minimum stays below it while passes remove records.
7. **The GC's uniqueId is never set; it can adopt a re-created index**
   (`legacy_gc.c:47`). The constructor's `specUniqueId = specUniqueId;`
   assigns the parameter to itself, so every re-check (lines 70, 107, 201,
   238, 279, 341) compares with an uninitialized member. When it holds the
   uniqueId a re-created index of the same name gets, the GC of the dropped
   index repairs the new index and subtracts from its `numRecords`, where
   scenario 6 of the spec says the re-check stops it.
8. **The same member can stop the GC at once** (`legacy_gc.c:47`, `:70`).
   When it holds anything but the index's uniqueId, the first pass reports
   `SPEC_STATUS_INVALID`, `PeriodicCallback` returns false and the GC never
   runs again: postings of deleted documents stay for good.
9. **Uninitialized sort value** (`document.c:691-695`). When a sortable
   numeric value does not parse, `UpdateNoIndex` runs BAIL, which does not
   leave the function, and then stores the uninitialized `numval` in the sort
   vector.

## Not modelled

* `EvalExpression`: it reads the document and changes nothing; what it
  computes is the expression evaluator's (outside `src/`), and its caller,
  the conditional FT.ADD, is neither under `src/` nor described in the spec.
* `Dump`: debug printing.
* `spell_check.h` and `trie_type.h`: declarations only.
* The GC's `RenderStats` and `GetInterval` (read-only), and its reporting
  counters, which grow without bound and feed only `RenderStats`.
* RDB loads after start-up. Whether Redis reloads a module's keyspace
  while its GC keeps running is the host's business, not `src/`'s; only the
  load in progress at start-up, which `rdbPossiblyLoading` exists for, is
  modelled.
* The `num_gc->rt != rt` half of the check at `legacy_gc.c:316`: a
  re-created index has a new tree, but the member is fixed for the run, so
  the GC never works on two incarnations and the revisionId half decides.
* Byte offsets, synonym maps and tokenizer options.
* Payloads.
* Geo and tag storage layout beyond which field key a value goes to.
* `IndexBulkData::Cleanup`, and the bulk's cache of open indexes. The cache
  is keyed by index type, not by field; whether one bulk ever serves two
  fields of a type is the indexer's choice, and the indexer is not under
  `src/`. The model keys bulk postings by the field (one bulk per field).
* The numeric range tree's inner nodes. The spec gives ranges to leaves
  only, so a posting is in exactly one range and `numEntries` is checked
  against the leaves.
* A composition of ingest with the GC. The two meet only in the document
  table and the inverted indexes, and both change them under the GIL.
  The GC only intersects blocks with the document table. The ingest properties are about the postings of the
  key's current, live docId. The GC model's `IndexDocument` already carries
  the bulk indexer's `numRecords` accounting (`document.c` 392-477). A product
  of the two state spaces would repeat these results at far larger bounds.
* A refinement for PARTIAL updates. Its abstract `Commit` would merge the
  updated fields into the key's document. Findings 2-4 already break that on
  every PARTIAL path, so it would only restate them.
* Dynamic fields: the schema in the cfgs has none, so `UpdateNoIndex`'s throw
  is unreachable.

The hazards list in `PROJECT.json` says for each uncovered hazard why.

## Plan

Done:
1. `GarbageCollector`: the collectors and their yields, the never-set
   `specUniqueId` and its two consequences, the stale numeric pointers across
   two splits, the numRecords and hz violations, and `OnTerm`.
2. `AddDocument`: the context lifecycle over all paths, with release-once,
   index/field agreement and eventual-reply properties, and four partial-update
   violations; byte sizes for the offload threshold.
3. `IngestAbstract` and the refinement `ImplementsIngest` for full adds.
4. Ordering of concurrent adds of one key (the reorder violation).

Not pursued (see "Not modelled"): a composition of ingest with the GC, and
a refinement for PARTIAL updates.
