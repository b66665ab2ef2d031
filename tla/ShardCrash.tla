----------------------------- MODULE ShardCrash -----------------------------
(***************************************************************************)
(* The shard of module Shard with process crashes, power losses and the    *)
(* recovery of StorageEngine::open.  A crash may fall between any two      *)
(* handlers; what the directory then holds is a set of images.             *)
(***************************************************************************)
EXTENDS Shard, SequencesExt

CONSTANTS
    Garbage,    \* what a read of bytes that never reached the platter returns
    MaxCommits, \* bound: commits the history may hold
    MaxEpochs,  \* bound: log contents an unsynced set_len(0) may bring back
    MaxCrash    \* bound: crashes after which the run goes on

ASSUME CrashAssumption ==
    /\ Garbage \notin Values \cup {NoVal}
    /\ MaxCommits \in Nat \ {0}
    /\ MaxEpochs \in Nat
    /\ MaxCrash \in Nat

VARIABLES
    hist,    \* auxiliary: the contents after each commit, oldest first
    durable, \* auxiliary: position in hist of the last commit known to be synced
    staged,  \* auxiliary: a log rewrite that its handler did not sync is pending
    opening, \* open has rewritten the log and not yet flushed it
    crashes  \* auxiliary: crashes so far

crashVars == <<sh, merge, kv, hist, durable, staged, opening, crashes>>

-----------------------------------------------------------------------------
(* What a crash leaves: log and segment files, and how much of them is     *)
(* synced.  A process crash loses write_buffer.  A power loss also cuts    *)
(* the unsynced tail of the log anywhere (replay drops a torn record and   *)
(* what follows it), a snapshot in its middle, and leaves unsynced segment *)
(* bytes as garbage; an unsynced set_len(0) may be undone.                 *)

Parts(u) ==
    IF u.atomic THEN {}
    ELSE {[u EXCEPT !.eff = [k \in Keys |-> IF k \in K THEN @[k] ELSE Untouched]] :
            K \in SUBSET Keys}

Cuts(e) ==
    {SubSeq(e.file, 1, n) : n \in e.nsync .. Len(e.file)}
      \cup UNION {{SubSeq(e.file, 1, n) \o <<p>> : p \in Parts(e.file[n + 1])} :
                    n \in e.nsync .. Len(e.file) - 1}

Spoil(s, id) ==
    [k \in Keys |-> [n \in DOMAIN s.files[id].data[k] |->
       IF <<id, k, n>> \in s.dirty THEN Garbage ELSE s.files[id].data[k][n]]]

ProcessImage(s) ==
    [file |-> s.file, nsync |-> s.nsync, stale |-> s.stale,
     files |-> s.files, dirty |-> s.dirty]

PowerImages(s) ==
    {[file |-> l, nsync |-> Len(l), stale |-> {},
      files |-> [i \in DOMAIN s.files |-> Segment(s.files[i].level, Spoil(s, i))],
      dirty |-> {}] :
       l \in UNION {Cuts(e) : e \in {[file |-> s.file, nsync |-> s.nsync]} \cup s.stale}}

Images(s) == {ProcessImage(s)} \cup PowerImages(s)

(* recover: the last record of a key wins.                                 *)
Replayed(log, k) ==
    LET i == SelectLastInSeq(log, LAMBDA u : u.eff[k] # Untouched)
    IN IF i = 0 THEN Absent ELSE log[i].eff[k]

(* StorageEngine::open up to the rewrite: every segment file is            *)
(* registered, the one with the highest id becomes active.                 *)
Recovered(img, mode) ==
    LET index == [k \in Keys |-> Replayed(img.file, k)]
        live == {k \in Keys : IsLive(index[k])}
        top == CHOOSE i \in DOMAIN img.files : \A j \in DOMAIN img.files : j <= i
    IN [index |-> index, view |-> live, count |-> Cardinality(live),
        inl |-> Cardinality({k \in Keys : index[k].kind = "Inlined"}),
        files |-> img.files, segs |-> DOMAIN img.files, dirty |-> img.dirty,
        active |-> top, next |-> top + 1, mode |-> mode,
        buf |-> << >>, file |-> img.file, nsync |-> img.nsync, stale |-> img.stale]

-----------------------------------------------------------------------------
Synced(s) == s.buf = << >> /\ s.nsync = Len(s.file) /\ s.stale = {}

(* The handlers that leave the truncation of the log unsynced: spill and   *)
(* full compaction do not flush their rewrite, and the flush after any     *)
(* other rewrite returns early when the index, and so the snapshot, is     *)
(* empty.                                                                  *)
Stages ==
    \/ \E due \in Due, deferHeavy \in BOOLEAN, old \in SUBSET Tombstones(sh) :
         Maintain(due, deferHeavy, old)
    \/ \E bloated \in BOOLEAN : CompactAll(bloated)
    \/ Log(sh') = << >>

CrashInit ==
    /\ Init
    /\ hist = <<kv>> /\ durable = 1
    /\ staged = FALSE /\ opening = FALSE /\ crashes = 0

Work ==
    /\ ~opening /\ Next
    /\ hist' = IF kv' = kv THEN hist ELSE Append(hist, kv')
    /\ Len(hist') <= MaxCommits /\ Cardinality(sh'.stale) <= MaxEpochs
    /\ durable' = IF Synced(sh') THEN Len(hist') ELSE durable
    /\ staged' = (sh'.stale # {} /\ (staged \/ Stages))
    /\ UNCHANGED <<opening, crashes>>

(* States a crash may hurt: a truncation of the log that is not synced,    *)
(* values only in unsynced segment bytes, writes missing from the log,     *)
(* writes logged in another order than RAM applied them.                   *)
Units == UNION {Range(log) : log \in {Log(sh)} \cup {e.file : e \in sh.stale}}

Truncated == staged \/ opening
UnsyncedSegment == sh.dirty # {}
UnloggedPut == \E u \in Units : \E k \in u.skip : u.eff[k] = Untouched
ReorderedBatch == \E u \in Units : \E k \in u.skip : u.eff[k] # Untouched

Exposed == Truncated \/ UnsyncedSegment \/ UnloggedPut \/ ReorderedBatch

(* StorageEngine::open on what a crash left: replay, and if the log is     *)
(* bloated (wal_snapshot_worthwhile) its rewrite.  A kill before the       *)
(* rewrite finds what it finds after an open that does not rewrite.        *)
Reopen(img, bloated) ==
    LET s == Recovered(img, sh.mode)
        N == {n \in durable .. Len(hist) : hist[n] = View(s)}
        n == CHOOSE n \in N : \A m \in N : m <= n
    IN /\ N # {}
       /\ sh' = IF bloated THEN RewriteSnapshot(s) ELSE s
       /\ Cardinality(sh'.stale) <= MaxEpochs
       /\ merge' = [phase |-> "idle"]
       /\ kv' = hist[n]
       /\ hist' = SubSeq(hist, 1, n)
       /\ durable' = IF Synced(sh') THEN n ELSE durable
       /\ opening' = bloated
       /\ UNCHANGED staged

(* A crash, of a shard at work or of one that open has just replayed.      *)
Crash ==
    /\ crashes < MaxCrash /\ ~Exposed
    /\ crashes' = crashes + 1
    /\ \E img \in Images(sh), bloated \in BOOLEAN : Reopen(img, bloated)

(* The flush at the end of open, a no-op after the rewrite of an empty     *)
(* index.                                                                  *)
OpenFlush ==
    /\ opening
    /\ sh' = WalFlush(sh)
    /\ durable' = IF Synced(sh') THEN Len(hist) ELSE durable
    /\ staged' = (sh'.stale # {})
    /\ opening' = FALSE
    /\ UNCHANGED <<merge, kv, hist, crashes>>

CrashNext == Work \/ Crash \/ OpenFlush

CrashSpec == CrashInit /\ [][CrashNext]_crashVars

-----------------------------------------------------------------------------
Outcomes(s) == {View(Recovered(img, s.mode)) : img \in Images(s)}

Kept(s) == Outcomes(s) \subseteq {hist[n] : n \in durable .. Len(hist)}

(* Whatever a crash leaves, the reopened shard holds the contents after    *)
(* some prefix of the commits that includes every synced one: batches are  *)
(* all or nothing, none is applied out of order, a rewrite whose sync is   *)
(* done (tier merge, backup, unload, open) loses nothing although the      *)
(* files it replaced are gone, half-merged segment files left behind are   *)
(* harmless, and so is a second crash once open has returned.              *)
SyncedCommitsSurvive == ~Exposed => Kept(sh)

(* "WITHOUT this flush a SIGTERM before the next threshold-triggered       *)
(* append wipes the collection", says open of its own rewrite; spill and   *)
(* full compaction stage theirs in the same way, and open itself can be    *)
(* killed before it gets to that flush.                                    *)
StagedRewriteSurvives == ~(UnsyncedSegment \/ UnloggedPut \/ ReorderedBatch) => Kept(sh)

(* Always mode is to "Write and Sync every single time": also the segment  *)
(* bytes that the synced log record of a medium put points to.             *)
MediumPutSurvives == ~(Truncated \/ UnloggedPut \/ ReorderedBatch) => Kept(sh)

(* ... and a put above the blob threshold.                                 *)
LargePutSurvives == ~(Truncated \/ UnsyncedSegment \/ ReorderedBatch) => Kept(sh)

(* A batch deletes the "keys whose final op in this batch is a delete":    *)
(* what it did to RAM is what its replay does.                             *)
BatchOrderSurvives == ~(Truncated \/ UnsyncedSegment \/ UnloggedPut) => Kept(sh)

(* The commit phase of a tier merge truncates the log before it syncs the  *)
(* snapshot: "sync now" is to close the staged-without-flush window.       *)
TierCommitSurvives ==
    ~Exposed /\ merge.phase = "merged" /\ SourcesOk => Kept(WalReset(sh))

(* "One fdatasync per compaction": when the commit phase of a tier merge   *)
(* ends, no log that a power loss may bring back needs the source files    *)
(* that are about to be deleted.                                           *)
SourcesDispensable ==
    [][~Exposed /\ TierCommit =>
         Kept([sh' EXCEPT !.files = Without(@, merge.src)])]_crashVars

=============================================================================
