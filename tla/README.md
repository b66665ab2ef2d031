# HakoDB: TLA+ models, model checking and proofs

HakoDB is an embedded document database. This directory models it in TLA+, checks
the models with TLC on small instances and proves the central invariants with
TLAPS for every instance. Paths below are relative to the repository's crate,
`src/src/`.

Contents: [inventory](#1-inventory) of the system, [plan](#2-plan),
[modules](#3-modules-and-the-code-they-model), [runs](#4-runs),
[proofs](#5-proofs), [findings](#6-findings), [limits](#7-what-is-not-modelled).

## 1. Inventory

A database is a directory with one subdirectory per collection. Each collection is
a *shard*: an `Arc<RwLock<StorageEngine>>`, opened at start or on first touch.
Everything else is built on the shards.

### 1.1 Components, their state and operations

| Component | State | Operations |
|---|---|---|
| Shard (`storage/engine.rs`) | `index` (key to pointer: inlined, segment, blob, tombstone), `sorted_keys`, counts, `segments`, active segment, `next_segment_id` | put, delete, batches, spill of inlined values, rotation, full compaction, tier merge, tombstone purge, hard delete, backup, open and recover |
| Write-ahead log (`storage/wal.rs`) | `write_buffer`, file with zero padding, `data_len`, sync bookkeeping, durability mode | append, flush, maybe_sync, reset, replay, tail |
| Segments (`storage/segment.rs`, `storage/compaction.rs`) | append-only files, mmap, cached pages | append_batch, read_at, compact_segment |
| Blob pipeline (`storage/blob.rs`, worker in `engine/engine.rs`) | blob file, reserved size, flush queue, pending pointers | reserve, write_at, worker pass, drain, vacuum |
| Page cache (`memory/page_cache.rs`) | blocks, order, positions, byte count | get, put with eviction |
| Write path (`engine/engine.rs`) | clock watermark, shard map, version map, caches | write_batch, commit_serializable, relocate, drop, rename |
| Versions and transactions | `doc_versions`, `tx_lock` | get_versioned, bump, clear, validate and commit |
| Unique ledger (`index/composite/ledger.rs`) | claims per index and key | claim, release, rollback guard, backfill |
| Indexes (`index/`) | secondary, inverted, composite, vector trees; queue; pending counters | enqueue, apply, query gate, snapshot, recover |
| Soft delete (`engine/softdel.rs`) | records with deadline and size | delete, restore, sweep |
| System thread | maintenance period, shedding counter | tier merges, tick, snapshots, sweep |
| Replication core (`sync_core.rs`) | echo cache, watermark | apply_replicated_batch (last writer wins), echo_take, resolve_send_bytes |
| Mesh, socket and cloud sync | peers, offsets, seen ids, catch-up cache, ingest buffer | handshake, bootstrap, delta, tail, relay, discovery |
| Query planner and executor (`query/`) | plan cache, cursors | plan, execute, paginate |
| Encodings, C interface, encryption, configuration | none that changes | pure functions and handles |

### 1.2 Interactions

- A write stamps its documents, claims unique keys, then per shard, under its
  write lock: log, index, blob queue, versions. After the lock: caches, index
  queue, watchers.
- The system thread takes the same lock for the tick, and releases it between the
  phases of a tier merge.
- The blob worker takes queued writes under the lock, writes them without it and
  takes it again to swap the pointers.
- A tailer per sync plane reads the log from a byte offset; a receiver decides
  under the read lock and applies under the write lock.
- The recovery thread imports index snapshots while writers are already active.

### 1.3 What is hard, and what has to hold

- *Shard.* Values move between RAM, log and segments while writers run: a read
  returns the last write, no pointer dangles, the log rebuilds the index.
- *Crash.* Every file has a synced and an unsynced part, and handlers touch several
  files: what was synced survives, batches are all or nothing and in order.
- *Log.* Torn records, zero padding, failed writes, truncation under a reader: replay
  returns exactly the committed records; everything buffered is eventually synced.
- *Blobs.* Reserved offsets, late writes and vacuum: a pointer never reads bytes of
  another document.
- *Page cache.* Bytes accounted are bytes held, and stay below the limit.
- *Versions.* A serializable commit succeeds only if nothing it read has changed.
- *Unique ledger.* At most one live document per unique key; no claim outlives it.
- *Indexes.* A query that trusts an index finds what a scan finds.
- *Soft delete.* A record is kept for its retention unless older ones went first.
- *Replication.* Replicas that exchanged everything agree; a document never goes back
  to an older version; every accepted write reaches every connected peer.
- *Shard map.* At most one engine works on a directory.

`PROJECT.json` lists the hazards line by line, with the properties that cover them.
Lesser ones, to be taken up with their components: blob offsets after an append-mode
reopening (`storage/blob.rs:26`), versions that start empty after a restart
(`engine/engine.rs:4442`), index snapshots against a log that is rewritten afterwards
(`engine/engine.rs:7384`) or imported while writers run (`engine/engine.rs:1451`),
message ids that collide within a microsecond (`net_sync.rs:1604`), the client limit
of the cloud server (`cloud_sync.rs:998`).

## 2. Plan

In order of importance:

1. **Shard, ShardCrash, ShardProofs**: the storage core with maintenance, crash and
   recovery. *Done; described below.*
2. **Wal**: records, padding and cursor, torn and failed writes, replay as a fold
   against the filter definition, tail; the log of units of `Shard` as its abstract
   specification; liveness of the group-commit tick.
3. **Replication**: last writer wins, watermark, echo cache, tailers over a log that
   is rewritten; two and three replicas in a hub; convergence.
4. **Transactions**: versions, `tx_lock`, plain and replicated writers, document
   cache; refinement of an abstract serializable store.
5. **Blob**: queue, worker, vacuum, crash between rename and log.
6. **IndexWorker**: queue, pending counters, query gate, snapshot and recovery.
7. **UniqueLedger**, **ShardMap**, **SoftDelete**, **PageCache**: small modules of
   their own, the first two composed with the write path.
8. **Mesh, Socket, Cloud**: connection life cycles on top of Replication; discovery.
9. **SortedKeys, KeyEncoder, Planner**: algorithms against reference definitions.

Theorems to add: `LogRebuildsIndex` and `ViewCoversLive` for every instance, the
crash property from a stronger invariant, the refinement of `Wal`, and the safety of
transactions and of the ledger.

## 3. Modules and the code they model

### Shard

One shard while its process lives. The lock makes each handler atomic, so the
variable `sh` is the whole `StorageEngine` and a handler is an operator from the old
record to the new one; a handler that calls another is their composition. Only the
tier merge releases the lock half way: each of its phases is an action, and its local variables
are `merge`. `kv` is auxiliary and holds what each key was last written to. A batch
writes what it does to RAM, puts before deletes; that its log says otherwise is the
subject of `BatchOrderSurvives`.

| Field of `sh` | Code |
|---|---|
| `index` | `index`, with `Absent` for no entry |
| `view`, `count`, `inl` | `sorted_keys` as a set, the entry of `collection_counts`, `inlined_bytes` counted in documents |
| `files`, `segs`, `active`, `next` | segment files in the directory, `segments`, `active_segment_id`, `next_segment_id` |
| `dirty` | segment values that no fdatasync has covered |
| `mode`, `buf`, `file`, `nsync`, `stale` | durability mode, `write_buffer`, the log file, its synced prefix, earlier contents an unsynced `set_len(0)` may bring back |

A value is opaque. An offset is the rank of the value among those of the same key
in the segment. A log *unit* is what replay applies as a whole: a bracketed
transaction, or the unbracketed snapshot of a rewrite; `skip` marks the keys on
which RAM did something else than the log says.

| Action | Handler |
|---|---|
| `WriteBatch`, `ReplicatedBatch` | `write_batch_internal` and phase 2 of `apply_replicated_batch` on one shard |
| `PutSmall`, `PutMedium`, `PutLarge`, `Delete` | `apply_batch` on its three size paths and `delete` |
| `HardDeleteKeys`, `PurgeTombstones` | sweeper, `vacuum_collection` |
| `Flush`, `Backup`, `RewriteAndFlush`, `SetDurabilityMode` | `flush_all`, `backup` up to the copy, unload and drop, mode switch |
| `CompactAll`, `CompactCancelled` | `compact_with_cancel` |
| `Maintain` | the tick: flush if due, rotate, and unless shedding, spill and purge old tombstones |
| `TierPrep`, `TierMerge`, `TierMergeFails`, `TierCommit`, `TierAbort`, `TierTeardown` | the phases of `try_compact_tiers` |

Elapsed time, byte thresholds and the bloat heuristic are nondeterministic Booleans.
`UpdateIndex` also resolves the list of pending changes to the sorted view: a handler
fills and empties that list under one hold of the lock. A file removal succeeds.

### ShardCrash

Adds a crash between any two handlers and the reopening of the shard. `Images` are
the directory contents a crash may leave: a process crash loses the buffer; a power
loss also cuts the unsynced tail of the log at any record, spoils unsynced segment
values and may undo an unsynced truncation. `Recovered` is the first part of
`StorageEngine::open`: replay, all segment files registered, the highest id active.
`Reopen` adds the optional rewrite of the log, and `OpenFlush` the flush that ends the
open; `opening` holds between the two, and a second crash may fall there. `hist` is
the sequence of committed contents, `durable` the last one known to be synced.

`Exposed` collects the situations in which the code loses data (section 6):

- `Truncated`: a truncation of the log that its handler did not sync (`staged`), or
  that open has not synced yet (`opening`). Spill and full compaction never flush their
  rewrite. The other rewrites do, but the flush returns early when the index, and so
  the snapshot, is empty (`storage/wal.rs:290`).
- `UnsyncedSegment`, `UnloggedPut`, `ReorderedBatch`: values only in unsynced segment
  bytes, in no log record, or logged in another order than applied.

The passing runs check the crash property outside these, and the violation runs
show the losses one by one, so that one known loss does not hide the rest.

### ShardProofs

The theorems about `Shard` (section 5).

## 4. Runs

No run assumes fairness: every property so far is one of safety. Deadlock is checked
everywhere.

| Run | Checks | Instance | Distinct states |
|---|---|---|---|
| `MCShard` | `TypeOK`, `PointersResolve`, `ReadsLatest`, `MergeConsistent`, `LogRebuildsIndex`, `ViewCoversLive` | Manual mode, 2 keys, 1 value, segment ids 0..3 | 120 thousand |
| `MCShardTier` | `PointersResolve`, `ReadsLatest`, `MergeConsistent`, `FilesAccounted` | 4 modes, 1 key, 2 values, ids 0..4 | 160 thousand |
| `MCShardCrash` | `SyncedCommitsSurvive` | Manual mode, 2 keys, batches, ids 0..3, crash | 149 thousand |
| `MCBatchCrash` | `SyncedCommitsSurvive` | Interval mode, 2 keys, batches, small and medium puts, ids 0..1, crash, reopening and second crash | 125 thousand |

The eight violation runs are those of section 6.

- *Keys and values.* Two keys let a merge move one document while the other changes,
  and let a crash split a batch. Two values tell a stale copy from the current one.
- *Segment ids.* A tier merge needs two immutable sources, an active segment and a
  target: four ids. The fifth, in `MCShardTier`, lets a rotation, spill or full
  compaction happen between its phases, so that a merge also aborts. `MCShardCrash`
  has the four, so that it commits tier merges whose documents are in different
  segments or in the log; `MCBatchCrash` spills and rotates once.
- *`Modes`.* `MCShardTier` has all four and switches between them. `MCShardCrash` is
  in Manual mode, where `Flush` may come after any handler or not: a commit that syncs
  in OnCommit or Interval mode is such a commit followed by `Flush`, so that their
  crash states are reached too. `MCBatchCrash` is in Interval mode, where a commit and
  the tick may also sync by themselves.
- *Log length.* Two units before a write: a synced and an unsynced one, or a snapshot
  and a transaction.
- *`MaxEpochs = 1`.* One truncation whose sync is pending.
- *`MaxCrash`.* The outcomes of a crash are evaluated in every state. With 1, in
  `MCBatchCrash`, the shard also goes on after a crash, so that the steps of open and
  what the reopened shard writes are exposed to a second one. `MCShardCrash` sets 0.
- *`MaxDrift`.* Bounds the live count that hard deletes inflate. With 0, in the crash
  runs, a hard delete meets no live document: for the disk, such a delete is a delete
  followed by the purge of its tombstone.
- *`VIEW` and `SYMMETRY`.* Keys and values are interchangeable. `Ram` leaves out the
  mode, how the log is split into buffered, written and synced parts and all but the
  last record of each key, which neither the properties of these runs nor any guard read. `Disk`
  keeps the unsynced records of each log, of the synced ones their number and what they
  replay to, of the segments the values that the index or a log points to, and of the
  history what follows the last synced commit. It leaves out the sorted view and what
  follows from the index.
- *`Sizes` and `Reputs`.* `MCShardCrash` writes through batches and deletes only,
  `MCBatchCrash` also puts small and medium documents, and their batches do not put a
  document again after deleting it: a large put is missing from the log and such a
  batch is logged in another order, so that every later state is exposed; `MCLargePut`
  and `MCBatchOrder` are about them. `MCShardTier` has all sizes and re-puts, `MCShard`
  all sizes.

What they show: within these bounds no interleaving of client operations with the
phases of a tier merge loses, resurrects or mixes up a document, or leaves a segment
file that nobody owns; the log always rebuilds the live index; and outside the exposed situations a crash keeps a prefix of
the commits that contains every synced one.

`PROJECT.json` pairs each property with a mutant: a plausible mistake in a handler
that makes the property fail in the same run.

## 5. Proofs

`ShardProofs` proves, for any finite set of keys, any values and any bounds
(`ShardAssumption`):

- `TypeCorrect`: `Spec => []TypeOK`
- `ReadsCorrect`: `Spec => []ReadsLatest`
- `PointersCorrect`: `Spec => []PointersResolve`
- `MergeCorrect`: `Spec => []MergeConsistent`
- `FilesCorrect`: `Spec => []FilesAccounted`

They follow from `Invariance`, `Spec => []IndInv` with

    IndInv == TypeOK /\ ReadsLatest /\ PointersResolve /\ MergeConsistent /\ FilesAccounted

None of the last four is inductive alone. The commit of a tier merge replaces
pointers by the copies it collected without the lock, so that reads are unchanged
only if each copy still is the value of every document that points into a source;
that is `MergeConsistent`. It survives concurrent writes because a write never points a
document into a source: the sources are immutable, that is, not active, and a target
id is never handed out twice, which is the part of `TypeOK` about `next`. And moving
a value needs that the pointer being moved resolves. `FilesAccounted` needs
`MergeConsistent` for the files of the merge to be distinct from the registered ones,
and the check of the sources for the commit to hand every source to the teardown.

The argument is layered like the code. Lemmas state what each handler on the shard
record keeps: log operations touch only the log fields; index updates, rotation,
spill, purge and compaction keep types, resolution and the contents of unregistered
files, and create none (`Evolves`). One step per action of `Next` then cites the lemmas of the
handlers that the action composes.

Only model-checked: `LogRebuildsIndex`, `ViewCoversLive` and the crash properties. They
concern log contents, cardinalities and sets of images; they are candidates for later
proofs. Liveness and what a recursive definition computes are outside what the
installed provers establish.

## 6. Findings

Each is a run in which TLC refutes what a comment of the code says of it.

| Run | Property | What happens | Statement it contradicts |
|---|---|---|---|
| `MCStagedRewrite` | `StagedRewriteSurvives` | spill and full compaction truncate the log and leave the snapshot in RAM; a crash loses synced commits. Open itself has the window between its rewrite and its flush | `storage/engine.rs:264` on the same sequence in open |
| `MCTierCommit` | `TierCommitSurvives` | a crash between truncation and sync in a tier commit loses synced commits | `storage/engine.rs:984` "sync now" |
| `MCEmptyCommit` | `SourcesDispensable` | a tier commit with an empty index has nothing to flush, so its truncation is not synced, and the teardown removes files that the old log points into; a power loss brings that log back | `storage/engine.rs:984` "sync now (one fdatasync per compaction ...)" |
| `MCMediumPut` | `MediumPutSurvives` | the log record is synced, the segment bytes it points to are not | `storage/wal.rs:325` "Write and Sync every single time" |
| `MCLargePut` | `LargePutSurvives` | a put above the blob threshold through `StorageEngine::put` is in no file | `storage/wal.rs:325`, `storage/engine.rs:696` |
| `MCBatchOrder` | `BatchOrderSurvives` | delete then put of one key in a batch: deleted in RAM, present after replay | `engine/engine.rs:466` "Keys whose final op in this batch is a delete" |
| `MCFlush` | `FlushSyncs` | a flush with an empty buffer does not sync what replication wrote | `config.rs:25` |
| `MCSortedView` | `ViewIsExact` | a hard delete leaves the key in the sorted view and in the count | `storage/engine.rs:115` |

## 7. What is not modelled

- Components of the plan from item 2 on; `PROJECT.json` gives the status of each.
- In `Shard`: blob pointers and the blob queue (item 5), I/O errors of the log
  (item 2), directory entries that are not synced, poisoned locks.
- Byte encodings, compression, encryption, mmap: a value is read as it was written,
  or as garbage if it was never synced.
- The C interface and configuration: no state of their own.
