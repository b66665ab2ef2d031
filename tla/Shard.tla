------------------------------- MODULE Shard -------------------------------
(***************************************************************************)
(* One collection shard of HakoDB while its process lives: the RAM index,  *)
(* the segment files it points into, the write-ahead log behind it, and    *)
(* the maintenance that moves values between the three (spill of inlined   *)
(* values, segment rotation, full compaction, two-segment tier merges).    *)
(*                                                                         *)
(* The code keeps a shard behind one RwLock<StorageEngine>.  What the lock *)
(* protects is the record variable sh; every handler that runs under the   *)
(* write lock is an operator from the old record to the new one, so that a *)
(* handler that calls another one is the composition of the two.  The tier *)
(* merge releases the lock between its phases: it is split into actions,   *)
(* and its local variables are the record variable merge.                  *)
(*                                                                         *)
(* A log unit is what replay applies as a whole: the net effect of one     *)
(* bracketed transaction (atomic), or of the unbracketed records of one    *)
(* snapshot (not atomic: a crash may keep any part of them).               *)
(***************************************************************************)
EXTENDS Integers, Sequences, FiniteSets

CONSTANTS
    Keys,        \* document ids of the collection
    Values,      \* encoded documents
    NoVal,       \* what a read of a missing document returns
    Modes,       \* durability modes the shard is switched between
    Sizes,       \* size classes of the documents put one by one
    Reputs,      \* documents a batch may put again after it deleted them
    MaxInlined,  \* max_inlined_memory_bytes, in documents
    SegCap,      \* rotation threshold of the active segment, in documents
    MaxSegId,    \* bound: segment ids the model may allocate
    MaxLog,      \* bound: units the log may hold before a write
    MaxDrift     \* bound: live count at which the sweeper stops

ASSUME ShardAssumption ==
    /\ IsFiniteSet(Keys)
    /\ NoVal \notin Values
    /\ Modes \subseteq {"Always", "Interval", "Manual", "OnCommit"}
    /\ Sizes \subseteq {"small", "medium", "large"}
    /\ Reputs \subseteq Keys
    /\ MaxInlined \in Nat
    /\ SegCap \in Nat \ {0}
    /\ MaxSegId \in Nat
    /\ MaxLog \in Nat
    /\ MaxDrift \in Nat

VARIABLES
    sh,     \* the StorageEngine behind the shard's RwLock
    merge,  \* locals of the system thread's try_compact_tiers
    kv      \* auxiliary: what each key was last written to, NoVal if deleted

vars == <<sh, merge, kv>>

-----------------------------------------------------------------------------
(* Pointers: Pointer::Inlined, ::Segment, ::Deleted; Absent is no entry.   *)
(* A segment offset is the rank of the value among the segment's values of *)
(* the same key.  Untouched marks the keys a log unit says nothing about.  *)

Inlined(v) == [kind |-> "Inlined", val |-> v]
InSegment(id, n) == [kind |-> "Segment", seg |-> id, off |-> n]
Deleted == [kind |-> "Deleted"]
Absent == [kind |-> "Absent"]
Untouched == [kind |-> "Untouched"]

IsLive(p) == p.kind \in {"Inlined", "Segment"}

Pointer ==
    [kind : {"Inlined"}, val : Values]
      \cup [kind : {"Segment"}, seg : Nat, off : Nat]
      \cup {Deleted}

Effect == [Keys -> Pointer \cup {Untouched}]
Nothing == [k \in Keys |-> Untouched]

(* eff is what replay does, skip the keys on which the RAM index did       *)
(* something else (see LogEffect and PutLarge).                            *)
Unit == [atomic : BOOLEAN, eff : Effect, skip : SUBSET Keys]

(* read_pointer_internal: a pointer into an unregistered segment reads as  *)
(* a missing document.                                                     *)
Deref(s, k, p) ==
    IF p.kind = "Inlined" THEN p.val
    ELSE IF p.kind = "Segment" /\ p.seg \in s.segs
      THEN s.files[p.seg].data[k][p.off]
      ELSE NoVal

Get(s, k) == Deref(s, k, s.index[k])

View(s) == [k \in Keys |-> Get(s, k)]

-----------------------------------------------------------------------------
(* The write-ahead log: buf is write_buffer, file what the OS holds, the   *)
(* first nsync units of it are on the platter.  set_len(0) is not synced:  *)
(* until the next fdatasync a power loss may bring back an earlier content *)
(* of the file, and stale is the set of these.                             *)

WalFlush(s) ==
    IF s.buf = << >> THEN s
    ELSE [s EXCEPT !.file = s.file \o s.buf,
                   !.buf = << >>,
                   !.nsync = Len(s.file) + Len(s.buf),
                   !.stale = {}]

(* maybe_sync; due stands for the Interval triggers (elapsed time, pending *)
(* operations, buffered bytes).                                            *)
MaybeSync(s, isCommit, remote, due) ==
    IF remote /\ s.mode # "Always"
      THEN [s EXCEPT !.file = s.file \o s.buf, !.buf = << >>]
    ELSE IF \/ s.mode = "Always"
            \/ s.mode = "OnCommit" /\ isCommit
            \/ s.mode = "Interval" /\ isCommit /\ due
      THEN WalFlush(s)
    ELSE s

WalAppend(s, unit, isCommit, remote, due) ==
    MaybeSync([s EXCEPT !.buf = Append(s.buf, unit)], isCommit, remote, due)

WalReset(s) ==
    [s EXCEPT !.buf = << >>,
              !.file = << >>,
              !.nsync = 0,
              !.stale = @ \cup {[file |-> s.file, nsync |-> s.nsync]}]

-----------------------------------------------------------------------------
(* Index maintenance: update_index_entry and its deferred twin with        *)
(* flush_pending_sorted.  view is sorted_keys as a set, count the shard's  *)
(* entry of collection_counts, inl is inlined_bytes in documents.          *)

Touched(eff) == {k \in Keys : eff[k] # Untouched}

Monus(a, b) == IF a >= b THEN a - b ELSE 0

(* Mutant: a document put over its own tombstone is not counted again.     *)
UpdateIndexNoRevival(s, eff) ==
    LET T == Touched(eff)
        born == {k \in T : s.index[k] = Absent /\ IsLive(eff[k])}
        died == {k \in T : IsLive(s.index[k]) /\ ~IsLive(eff[k])}
        came == {k \in T : eff[k].kind = "Inlined"}
        went == {k \in T : s.index[k].kind = "Inlined"}
    IN [s EXCEPT !.index = [k \in Keys |-> IF k \in T THEN eff[k] ELSE s.index[k]],
                 !.view = (s.view \ T) \cup {k \in T : IsLive(eff[k])},
                 !.count = Monus(s.count + Cardinality(born), Cardinality(died)),
                 !.inl = Monus(s.inl + Cardinality(came), Cardinality(went))]

UpdateIndex(s, eff) ==
    LET T == Touched(eff)
        born == {k \in T : ~IsLive(s.index[k]) /\ IsLive(eff[k])}
        died == {k \in T : IsLive(s.index[k]) /\ ~IsLive(eff[k])}
        came == {k \in T : eff[k].kind = "Inlined"}
        went == {k \in T : s.index[k].kind = "Inlined"}
    IN [s EXCEPT !.index = [k \in Keys |-> IF k \in T THEN eff[k] ELSE s.index[k]],
                 !.view = (s.view \ T) \cup {k \in T : IsLive(eff[k])},
                 !.count = Monus(s.count + Cardinality(born), Cardinality(died)),
                 !.inl = Monus(s.inl + Cardinality(came), Cardinality(went))]

-----------------------------------------------------------------------------
(* rewrite_wal_snapshot: the log becomes one unbracketed record per index  *)
(* entry.  append_batch sees no CommitTx, so only Always mode flushes it.  *)

Snapshot(s) ==
    [atomic |-> FALSE, skip |-> {},
     eff |-> [k \in Keys |-> IF s.index[k] = Absent THEN Untouched ELSE s.index[k]]]

RewriteSnapshot(s) ==
    IF Touched(Snapshot(s).eff) = {} THEN WalReset(s)
    ELSE WalAppend(WalReset(s), Snapshot(s), FALSE, FALSE, FALSE)

(* Segment files: files are those in the directory, segs the ids of the    *)
(* ones the shard has registered.  dirty are the offsets no fdatasync has  *)
(* covered (compact_segment syncs its target, append_batch does not).      *)

Segment(level, data) == [level |-> level, data |-> data]
EmptySegment == Segment(0, [k \in Keys |-> << >>])

Extend(f, id, x) == [i \in DOMAIN f \cup {id} |-> IF i = id THEN x ELSE f[i]]
Without(f, ids) == [i \in DOMAIN f \ ids |-> f[i]]

SegSize(s, id) == Cardinality(UNION {{k} \X DOMAIN s.files[id].data[k] : k \in Keys})

(* Mutant: rotation forgets to advance next_segment_id.                    *)
NewActiveSameId(s) ==
    [s EXCEPT !.files = Extend(s.files, s.next, EmptySegment),
              !.segs = @ \cup {s.next},
              !.active = s.next]

NewActive(s) ==
    [s EXCEPT !.files = Extend(s.files, s.next, EmptySegment),
              !.segs = @ \cup {s.next},
              !.active = s.next,
              !.next = s.next + 1]

MaybeRotate(s) == IF SegSize(s, s.active) < SegCap THEN s ELSE NewActive(s)

(* Segment::append_batch: no sync.                                         *)
NextOffset(s, k) == Len(s.files[s.active].data[k]) + 1

AppendToActive(s, k, v) ==
    LET seg == s.files[s.active]
    IN [s EXCEPT !.files[s.active] =
                    Segment(seg.level, [seg.data EXCEPT ![k] = Append(@, v)]),
                 !.dirty = @ \cup {<<s.active, k, NextOffset(s, k)>>}]

(* The documents of s whose pointer satisfies the selection, as the data   *)
(* compact_segment writes into a fresh target.                             *)
Collected(s, K) == [k \in Keys |-> IF k \in K THEN <<Get(s, k)>> ELSE << >>]

PointingInto(s, ids) ==
    {k \in Keys : s.index[k].kind = "Segment" /\ s.index[k].seg \in ids}

Relocated(K, id) == [k \in Keys |-> IF k \in K THEN InSegment(id, 1) ELSE Untouched]

CheckpointInlined(s) ==
    LET K == {k \in Keys : s.index[k].kind = "Inlined"}
        t == s.next
        spilled == UpdateIndex([s EXCEPT !.next = t + 1], Relocated(K, t))
    IN IF s.inl < MaxInlined \/ K = {} THEN s
       ELSE RewriteSnapshot(
              [spilled EXCEPT !.files = Extend(@, t, Segment(0, Collected(s, K))),
                              !.segs = @ \cup {t}])

(* purge_tombstones, and purge_old_tombstones with old the keys past the   *)
(* age limit: the index alone, nothing is logged.                          *)
Tombstones(s) == {k \in Keys : s.index[k] = Deleted}

Purged(s, old) ==
    [s EXCEPT !.index = [k \in Keys |-> IF k \in old \cap Tombstones(s) THEN Absent
                                        ELSE s.index[k]]]

FlushAll(s) ==
    WalFlush([s EXCEPT !.dirty = {d \in s.dirty : d[1] # s.active}])

(* compact_with_cancel up to the merge: the forced rotation.               *)
ForceRotate(s) == IF SegSize(s, s.active) > 0 THEN NewActive(s) ELSE s

(* Mutant: the merged segments are deleted and the log keeps pointing into *)
(* them.                                                                   *)
MergeAllUnlogged(s) ==
    LET ids == s.segs \ {s.active}
        K == PointingInto(s, ids)
        t == s.next
    IN [s EXCEPT !.next = t + 1,
                 !.files = Extend(Without(@, ids), t, Segment(1, Collected(s, K))),
                 !.dirty = {d \in @ : d[1] \notin ids},
                 !.segs = (@ \ ids) \cup {t},
                 !.index = [k \in Keys |-> IF k \in K THEN InSegment(t, 1)
                                           ELSE s.index[k]]]

(* The merge of all immutable segments.  Index entries are overwritten     *)
(* directly: a Segment pointer replaces a Segment pointer.                 *)
MergeAll(s) ==
    LET ids == s.segs \ {s.active}
        K == PointingInto(s, ids)
        t == s.next
    IN RewriteSnapshot(
         [s EXCEPT !.next = t + 1,
                   !.files = Extend(Without(@, ids), t, Segment(1, Collected(s, K))),
                   !.dirty = {d \in @ : d[1] \notin ids},
                   !.segs = (@ \ ids) \cup {t},
                   !.index = [k \in Keys |-> IF k \in K THEN InSegment(t, 1)
                                             ELSE s.index[k]]])

(* bloated stands for wal_snapshot_worthwhile, a heuristic on byte counts. *)
Compact(s, bloated) ==
    LET r == ForceRotate(s)
    IN IF r.segs # {r.active} THEN MergeAll(r)
       ELSE IF bloated THEN RewriteSnapshot(r) ELSE r

-----------------------------------------------------------------------------
(* Batches: for each key the value of its last put (or NoVal), whether the *)
(* batch deletes it, and whether that put comes after that delete.         *)

Batch ==
    {b \in [put : [Keys -> Values \cup {NoVal}], del : SUBSET Keys, reput : SUBSET Keys] :
       /\ b.reput \subseteq {k \in b.del \cap Reputs : b.put[k] # NoVal}
       /\ \E k \in Keys : b.put[k] # NoVal \/ k \in b.del}

(* Replay applies the records in batch order, ...                          *)
LogEffect(b) ==
    [k \in Keys |->
       IF b.put[k] # NoVal /\ (k \in b.del => k \in b.reput) THEN Inlined(b.put[k])
       ELSE IF k \in b.del THEN Deleted ELSE Untouched]

(* ... write_batch_internal all puts of a shard first, then all deletes.   *)
RamEffect(b) ==
    [k \in Keys |->
       IF k \in b.del THEN Deleted
       ELSE IF b.put[k] # NoVal THEN Inlined(b.put[k]) ELSE Untouched]

(* Mutant: the records of a batch carry no BeginTx and CommitTx.           *)
TxUnitUnbracketed(eff, skip) == [atomic |-> FALSE, eff |-> eff, skip |-> skip]

TxUnit(eff, skip) == [atomic |-> TRUE, eff |-> eff, skip |-> skip]

-----------------------------------------------------------------------------
Init ==
    /\ \E m \in Modes :
         sh = [index |-> [k \in Keys |-> Absent], view |-> {}, count |-> 0, inl |-> 0,
               files |-> [i \in {0} |-> EmptySegment], segs |-> {0},
               dirty |-> {}, active |-> 0, next |-> 1,
               mode |-> m, buf |-> << >>, file |-> << >>, nsync |-> 0, stale |-> {}]
    /\ merge = [phase |-> "idle"]
    /\ kv = [k \in Keys |-> NoVal]

LogRoom == Len(sh.file) + Len(sh.buf) < MaxLog
SegRoom == sh'.next <= MaxSegId + 1

(* The Interval triggers exist in Interval mode only.                      *)
Due == {d \in BOOLEAN : d => sh.mode = "Interval"}

Written(eff) ==
    [k \in Keys |-> CASE eff[k].kind = "Inlined" -> eff[k].val
                     [] eff[k].kind = "Deleted" -> NoVal
                     [] OTHER -> kv[k]]

(* Hako::write_batch_internal on one shard: WAL first, then the index.     *)
WriteBatch(b, due) ==
    /\ LogRoom
    /\ sh' = UpdateIndex(WalAppend(sh, TxUnit(LogEffect(b), b.reput), TRUE, FALSE, due),
                         RamEffect(b))
    /\ kv' = Written(RamEffect(b))
    /\ UNCHANGED merge

(* Phase 2 of apply_replicated_batch, on the operations LWW accepted.      *)
ReplicatedBatch(b) ==
    /\ LogRoom
    /\ sh' = UpdateIndex(WalAppend(sh, TxUnit(LogEffect(b), {}), TRUE, TRUE, FALSE),
                         LogEffect(b))
    /\ kv' = Written(LogEffect(b))
    /\ UNCHANGED merge

(* StorageEngine::put, apply_batch of one put.  Below 4096 bytes the value *)
(* goes into the log, ...                                                  *)
PutSmall(k, v, due) ==
    LET s == MaybeRotate(sh)
        eff == [Nothing EXCEPT ![k] = Inlined(v)]
    IN /\ "small" \in Sizes /\ LogRoom
       /\ sh' = UpdateIndex(WalAppend(s, TxUnit(eff, {}), TRUE, FALSE, due), eff)
       /\ kv' = [kv EXCEPT ![k] = v]
       /\ SegRoom
       /\ UNCHANGED merge

(* ... up to the blob threshold into the active segment, ...               *)
StoreMedium(s, k, v, due) ==
    LET eff == [Nothing EXCEPT ![k] = InSegment(s.active, NextOffset(s, k))]
    IN UpdateIndex(WalAppend(AppendToActive(s, k, v), TxUnit(eff, {}), TRUE, FALSE, due),
                   eff)

PutMedium(k, v, due) ==
    /\ "medium" \in Sizes /\ LogRoom
    /\ sh' = StoreMedium(MaybeRotate(sh), k, v, due)
    /\ kv' = [kv EXCEPT ![k] = v]
    /\ SegRoom
    /\ UNCHANGED merge

(* ... and above it into the RAM index only: the transaction logged for it *)
(* is empty, and the BlobWork::Put handed to the blob worker writes none.  *)
PutLarge(k, v, due) ==
    LET s == MaybeRotate(sh)
    IN /\ "large" \in Sizes /\ LogRoom
       /\ sh' = UpdateIndex(WalAppend(s, TxUnit(Nothing, {k}), TRUE, FALSE, due),
                            [Nothing EXCEPT ![k] = Inlined(v)])
       /\ kv' = [kv EXCEPT ![k] = v]
       /\ SegRoom
       /\ UNCHANGED merge

(* StorageEngine::delete.                                                  *)
Delete(k, due) ==
    LET s == MaybeRotate(sh)
        eff == [Nothing EXCEPT ![k] = Deleted]
    IN /\ LogRoom
       /\ sh' = UpdateIndex(WalAppend(s, TxUnit(eff, {}), TRUE, FALSE, due), eff)
       /\ kv' = [kv EXCEPT ![k] = NoVal]
       /\ SegRoom
       /\ UNCHANGED merge

(* The sweeper's hard_delete_keys: logged like a delete, but the entry is  *)
(* dropped from the index alone; view, count and inl keep counting it.     *)
HardDeleteKeys(K, due) ==
    LET eff == [k \in Keys |-> IF k \in K THEN Deleted ELSE Untouched]
        s == WalAppend(sh, TxUnit(eff, {}), TRUE, FALSE, due)
    IN /\ LogRoom /\ K # {} /\ sh.count <= MaxDrift
       /\ sh' = [s EXCEPT !.index = [k \in Keys |-> IF k \in K THEN Absent ELSE @[k]]]
       /\ kv' = Written(eff)
       /\ UNCHANGED merge

(* vacuum_collection: all tombstones go, with no log record.               *)
PurgeTombstones ==
    /\ sh' = Purged(sh, Keys)
    /\ UNCHANGED <<merge, kv>>

Flush ==
    /\ sh' = FlushAll(sh)
    /\ UNCHANGED <<merge, kv>>

(* backup up to the copying of the files.                                  *)
Backup ==
    /\ sh' = FlushAll(CheckpointInlined(sh))
    /\ SegRoom
    /\ UNCHANGED <<merge, kv>>

(* unload_collection and Drop for Hako: the last rewrite is synced.        *)
RewriteAndFlush ==
    /\ sh' = FlushAll(RewriteSnapshot(sh))
    /\ UNCHANGED <<merge, kv>>

SetDurabilityMode(m) ==
    /\ sh' = [sh EXCEPT !.mode = m]
    /\ UNCHANGED <<merge, kv>>

(* The maintenance tick of the system thread: run_background_maintenance   *)
(* and, unless it is shedding load, the purge of the old tombstones.  due: *)
(* the group-commit window has elapsed.                                    *)
Maintain(due, deferHeavy, old) ==
    LET flushed == IF due THEN WalFlush(sh) ELSE sh
        rotated == MaybeRotate(flushed)
    IN /\ merge.phase = "idle"  \* one thread runs the merges and the ticks
       /\ sh' = IF deferHeavy THEN rotated ELSE Purged(CheckpointInlined(rotated), old)
       /\ SegRoom
       /\ UNCHANGED <<merge, kv>>

CompactAll(bloated) ==
    /\ sh' = Compact(sh, bloated)
    /\ SegRoom
    /\ UNCHANGED <<merge, kv>>

(* The CancelToken may stop compact_with_cancel after the rotation, or     *)
(* after the target is written, which is then removed again.               *)
CompactCancelled ==
    /\ LET r == ForceRotate(sh)
       IN \/ sh' = r
          \/ /\ r.segs # {r.active}
             /\ sh' = [r EXCEPT !.next = @ + 1]
    /\ SegRoom
    /\ UNCHANGED <<merge, kv>>

-----------------------------------------------------------------------------
(* Mutant: the active segment is not excluded from the candidates.         *)
TierPrepAnySegment(s1, s2) ==
    /\ merge.phase = "idle"
    /\ s1 # s2 /\ {s1, s2} \subseteq sh.segs
    /\ sh.files[s1].level = sh.files[s2].level
    /\ merge' = [phase |-> "reserved", level |-> sh.files[s1].level, src |-> {s1, s2},
                 target |-> sh.next]
    /\ sh' = [sh EXCEPT !.next = @ + 1]
    /\ SegRoom
    /\ UNCHANGED kv

(* try_compact_tiers, on the system thread.  Phase 1, brief write lock:    *)
(* two immutable segments of one level, and a target id.                   *)
TierPrep(s1, s2) ==
    /\ merge.phase = "idle"
    /\ s1 # s2 /\ {s1, s2} \subseteq sh.segs \ {sh.active}
    /\ sh.files[s1].level = sh.files[s2].level
    /\ merge' = [phase |-> "reserved", level |-> sh.files[s1].level, src |-> {s1, s2},
                 target |-> sh.next]
    /\ sh' = [sh EXCEPT !.next = @ + 1]
    /\ SegRoom
    /\ UNCHANGED kv

(* Phase 2: collect under a read lock, then write and sync the target file *)
(* with no lock held.                                                      *)
TierMerge ==
    LET K == PointingInto(sh, merge.src \cap sh.segs)
        data == Collected(sh, K)
    IN /\ merge.phase = "reserved"
       /\ sh' = [sh EXCEPT !.files = Extend(@, merge.target, Segment(merge.level + 1, data))]
       /\ merge' = [phase |-> "merged", level |-> merge.level, src |-> merge.src,
                    target |-> merge.target, data |-> data]
       /\ UNCHANGED kv

(* compact_segment fails: the target is removed, nothing else changed.     *)
TierMergeFails ==
    /\ merge.phase = "reserved"
    /\ merge' = [phase |-> "idle"]
    /\ UNCHANGED <<sh, kv>>

SourcesOk ==
    \A i \in merge.src : i \in sh.segs /\ sh.files[i].level = merge.level

(* Mutant: phase 3 does not re-verify the pointer before it swaps.         *)
StillMergedUnverified == {k \in Keys : merge.data[k] # << >>}

(* Mutant: phase 3 compares with the first source only.                    *)
StillMergedFirst ==
    {k \in PointingInto(sh, {CHOOSE i \in merge.src : TRUE}) : merge.data[k] # << >>}

(* The keys phase 3 swaps: collected, and still pointing into a source.    *)
StillMerged == {k \in PointingInto(sh, merge.src) : merge.data[k] # << >>}

(* Mutant: phase 3 stages the rewritten log without the sync.              *)
TierCommitUnflushed ==
    /\ merge.phase = "merged" /\ SourcesOk
    /\ LET swapped == [k \in Keys |-> IF k \in StillMerged THEN InSegment(merge.target, 1)
                                      ELSE sh.index[k]]
       IN sh' = RewriteSnapshot(
                  [sh EXCEPT !.index = swapped,
                             !.segs = (@ \ merge.src) \cup {merge.target}])
    /\ merge' = [phase |-> "teardown", src |-> merge.src]
    /\ UNCHANGED kv

(* Mutant: phase 3 does not ask whether its sources are still registered.  *)
TierCommitUnchecked ==
    /\ merge.phase = "merged"
    /\ LET swapped == [k \in Keys |-> IF k \in StillMerged THEN InSegment(merge.target, 1)
                                      ELSE sh.index[k]]
       IN sh' = WalFlush(RewriteSnapshot(
                  [sh EXCEPT !.index = swapped,
                             !.segs = (@ \ merge.src) \cup {merge.target}]))
    /\ merge' = [phase |-> "teardown", src |-> merge.src]
    /\ UNCHANGED kv

(* Phase 3, write lock: swap, register the target, rewrite and sync the    *)
(* log.                                                                    *)
TierCommit ==
    /\ merge.phase = "merged" /\ SourcesOk
    /\ LET swapped == [k \in Keys |-> IF k \in StillMerged THEN InSegment(merge.target, 1)
                                      ELSE sh.index[k]]
       IN sh' = WalFlush(RewriteSnapshot(
                  [sh EXCEPT !.index = swapped,
                             !.segs = (@ \ merge.src) \cup {merge.target}]))
    /\ merge' = [phase |-> "teardown", src |-> merge.src]
    /\ UNCHANGED kv

(* A concurrent full compaction ate a source: drop the orphan target.      *)
TierAbort ==
    /\ merge.phase = "merged" /\ ~SourcesOk
    /\ sh' = [sh EXCEPT !.files = Without(@, {merge.target})]
    /\ merge' = [phase |-> "idle"]
    /\ UNCHANGED kv

(* After the guard is dropped the source files are deleted.                *)
TierTeardown ==
    /\ merge.phase = "teardown"
    /\ sh' = [sh EXCEPT !.files = Without(@, merge.src),
                        !.dirty = {d \in @ : d[1] \notin merge.src}]
    /\ merge' = [phase |-> "idle"]
    /\ UNCHANGED kv

-----------------------------------------------------------------------------
Client ==
    \/ \E b \in Batch, due \in Due : WriteBatch(b, due)
    \/ \E b \in Batch : ReplicatedBatch(b)
    \/ \E k \in Keys, v \in Values, due \in Due :
         PutSmall(k, v, due) \/ PutMedium(k, v, due) \/ PutLarge(k, v, due)
    \/ \E k \in Keys, due \in Due : Delete(k, due)
    \/ \E K \in SUBSET Keys, due \in Due : HardDeleteKeys(K, due)
    \/ PurgeTombstones
    \/ Flush
    \/ Backup
    \/ RewriteAndFlush
    \/ \E m \in Modes : SetDurabilityMode(m)
    \/ \E bloated \in BOOLEAN : CompactAll(bloated)
    \/ CompactCancelled

SystemThread ==
    \/ \E due \in Due, deferHeavy \in BOOLEAN, old \in SUBSET Tombstones(sh) :
         Maintain(due, deferHeavy, old)
    \/ \E s1, s2 \in sh.segs : TierPrep(s1, s2)
    \/ TierMerge
    \/ TierMergeFails
    \/ TierCommit
    \/ TierAbort
    \/ TierTeardown

Next == Client \/ SystemThread

Spec == Init /\ [][Next]_vars

-----------------------------------------------------------------------------
IndexOK(s) ==
    /\ s.index \in [Keys -> Pointer \cup {Absent}]
    /\ s.view \subseteq Keys /\ s.count \in Nat /\ s.inl \in Nat

SegmentsOK(s) ==
    /\ s.next \in Nat
    /\ DOMAIN s.files \subseteq 0 .. s.next - 1
    /\ \A i \in DOMAIN s.files :
         s.files[i] \in [level : Nat, data : [Keys -> Seq(Values)]]
    /\ s.segs \subseteq DOMAIN s.files
    /\ s.active \in s.segs

WalOK(s) ==
    /\ s.mode \in Modes
    /\ s.buf \in Seq(Unit) /\ s.file \in Seq(Unit)
    /\ s.nsync \in 0 .. Len(s.file)

ShardOK(s) ==
    /\ DOMAIN s = {"index", "view", "count", "inl", "files", "segs", "dirty", "active",
                   "next", "mode", "buf", "file", "nsync", "stale"}
    /\ IndexOK(s) /\ SegmentsOK(s) /\ WalOK(s)

MergeOK ==
    \/ merge = [phase |-> "idle"]
    \/ merge \in [phase : {"reserved"}, level : Nat, src : SUBSET Nat, target : Nat]
    \/ merge \in [phase : {"merged"}, level : Nat, src : SUBSET Nat, target : Nat,
                  data : [Keys -> Seq(Values)]]
    \/ merge \in [phase : {"teardown"}, src : SUBSET Nat]

(* Fields of the shard and locals of the merge have the types of their     *)
(* Rust counterparts; registered segments have a file, the active segment  *)
(* is registered, next_segment_id is above every id in use.                *)
TypeOK == ShardOK(sh) /\ MergeOK /\ kv \in [Keys -> Values \cup {NoVal}]

Resolves(s) ==
    \A k \in Keys : s.index[k].kind = "Segment" =>
       /\ s.index[k].seg \in s.segs
       /\ s.index[k].off \in DOMAIN s.files[s.index[k].seg].data[k]

(* A read returns what was last written: no spill, rotation, compaction or *)
(* tier merge, in whatever order their phases meet the writes, changes or  *)
(* loses a document (try_compact_tiers' verify-then-swap).  What a batch   *)
(* writes is what it does to RAM, puts before deletes; that replay may     *)
(* disagree is the subject of BatchOrderSurvives.                          *)
ReadsLatest == View(sh) = kv

(* No live pointer addresses a segment that was merged away, nor an offset *)
(* its file does not have.                                                 *)
PointersResolve == Resolves(sh)

(* Between the phases of a tier merge, with the lock released: its target  *)
(* stays its own, no source becomes the active segment again, what it has  *)
(* collected stays the contents of the documents that still point into a   *)
(* source, and once the sources are deleted none of them is registered.    *)
MergeConsistent ==
    /\ merge.phase # "idle" =>
         merge.src \subseteq 0 .. sh.next - 1 /\ sh.active \notin merge.src
    /\ merge.phase \in {"reserved", "merged"} =>
         merge.target < sh.next /\ merge.target \notin sh.segs \cup merge.src
    /\ merge.phase = "merged" =>
         /\ merge.target \in DOMAIN sh.files
         /\ sh.files[merge.target].data = merge.data
         /\ \A k \in PointingInto(sh, merge.src) : merge.data[k] = <<Get(sh, k)>>
    /\ merge.phase = "teardown" => merge.src \cap sh.segs = {}

MergeFiles ==
    IF merge.phase = "merged" THEN {merge.target}
    ELSE IF merge.phase = "teardown" THEN merge.src ELSE {}

(* Every segment file of the directory has an owner, and the owner finds   *)
(* it: it is registered, or the target of a merge before its commit, or a  *)
(* source that a committed merge is about to delete.  try_compact_tiers    *)
(* says of the full compaction that ate its sources: "abort the merge and  *)
(* delete the orphan target file".                                         *)
FilesAccounted == DOMAIN sh.files = sh.segs \cup MergeFiles

Log(s) == s.file \o s.buf

Touches(u, k) == u.eff[k] # Untouched \/ k \in u.skip

SameLive(p, q) == p = q \/ (~IsLive(p) /\ ~IsLive(q))

(* Replaying the log, flushed or not, rebuilds the live part of the index: *)
(* every operation that moves a pointer also logs it or rewrites the log.  *)
(* Excepted is a key whose last write is one of the two known to be logged *)
(* differently from what RAM did.                                          *)
LogRebuildsIndex ==
    \A k \in Keys :
      LET log == Log(sh)
          T == {i \in DOMAIN log : Touches(log[i], k)}
      IN IF T = {} THEN ~IsLive(sh.index[k])
         ELSE \E i \in T : /\ \A j \in T : j <= i
                           /\ k \notin log[i].skip =>
                                SameLive(log[i].eff[k], sh.index[k])

(* The sorted view never misses a live document, and neither count_prefix  *)
(* nor the spill heuristic under-reports (hard_delete_keys over-reports).  *)
ViewCoversLive ==
    /\ {k \in Keys : IsLive(sh.index[k])} \subseteq sh.view
    /\ Cardinality({k \in Keys : IsLive(sh.index[k])}) <= sh.count
    /\ Cardinality({k \in Keys : sh.index[k].kind = "Inlined"}) <= sh.inl

(* The same stated of every index write, as the comment on sorted_keys     *)
(* does: "Maintained on every index write under the same exclusive lock".  *)
ViewIsExact == sh.view = {k \in Keys : IsLive(sh.index[k])}

(* "use Manual + explicit flush if you really mean it": after a flush      *)
(* everything written is on the platter.                                   *)
FlushSyncs == [][Flush => sh'.nsync = Len(sh'.file) /\ sh'.buf = << >>]_vars

=============================================================================
