---------------------------- MODULE ShardProofs ----------------------------
(***************************************************************************)
(* Proofs about module Shard, for every set of keys and values and every   *)
(* setting of the limits: type correctness, and that maintenance and tier  *)
(* merges never change what a read returns.                                *)
(*                                                                         *)
(* A handler is an operator on the shard record.  Each lemma says of one   *)
(* operator that it keeps the shard well-typed and its pointers resolving, *)
(* which documents it changes, and that it is fair to a tier merge running *)
(* beside it (Evolves).  The invariant proof then has one step per action. *)
(***************************************************************************)
EXTENDS Shard, TLAPS, FiniteSetTheorems

(* r has the same RAM state and segment files as s.                        *)
SameRam(r, s) ==
    /\ r.index = s.index /\ r.view = s.view /\ r.count = s.count /\ r.inl = s.inl
    /\ r.files = s.files /\ r.segs = s.segs /\ r.dirty = s.dirty
    /\ r.active = s.active /\ r.next = s.next /\ r.mode = s.mode

-----------------------------------------------------------------------------
(* The write-ahead log.                                                    *)

(* Wal::flush moves the buffer to the file and touches nothing else.       *)
LEMMA WalFlushRam ==
    ASSUME NEW s, ShardOK(s)
    PROVE  ShardOK(WalFlush(s)) /\ SameRam(WalFlush(s), s)
<1> DEFINE r == [s EXCEPT !.file = s.file \o s.buf,
                          !.buf = << >>,
                          !.nsync = Len(s.file) + Len(s.buf),
                          !.stale = {}]
<1>1. SameRam(s, s)
  BY DEF SameRam
<1>2. /\ DOMAIN r = DOMAIN s
      /\ r.file = s.file \o s.buf /\ r.buf = << >>
      /\ r.nsync = Len(s.file) + Len(s.buf)
      /\ SameRam(r, s)
  BY DEF ShardOK, SameRam
<1>3. WalOK(r)
  BY <1>2 DEF ShardOK, WalOK, SameRam
<1>4. ShardOK(r)
  BY <1>2, <1>3 DEF ShardOK, IndexOK, SegmentsOK, SameRam
<1> QED
  BY <1>1, <1>2, <1>4 DEF WalFlush

(* Wal::maybe_sync, in every mode, for local and remote appends.           *)
LEMMA MaybeSyncRam ==
    ASSUME NEW s, ShardOK(s), NEW isCommit, NEW remote, NEW due
    PROVE  /\ ShardOK(MaybeSync(s, isCommit, remote, due))
           /\ SameRam(MaybeSync(s, isCommit, remote, due), s)
<1> DEFINE r == [s EXCEPT !.file = s.file \o s.buf, !.buf = << >>]
<1>1. SameRam(s, s)
  BY DEF SameRam
<1>2. /\ DOMAIN r = DOMAIN s
      /\ r.file = s.file \o s.buf /\ r.buf = << >> /\ r.nsync = s.nsync
      /\ SameRam(r, s)
  BY DEF ShardOK, SameRam
<1>3. WalOK(r)
  BY <1>2 DEF ShardOK, WalOK, SameRam
<1>4. ShardOK(r)
  BY <1>2, <1>3 DEF ShardOK, IndexOK, SegmentsOK, SameRam
<1> QED
  BY <1>1, <1>2, <1>4, WalFlushRam DEF MaybeSync

(* SameRam composes.                                                       *)
LEMMA SameRamTransitive ==
    ASSUME NEW q, NEW r, NEW s, SameRam(q, r), SameRam(r, s)
    PROVE  SameRam(q, s)
BY DEF SameRam

(* An append of one unit.                                                  *)
LEMMA WalAppendRam ==
    ASSUME NEW s, ShardOK(s), NEW unit \in Unit, NEW isCommit, NEW remote, NEW due
    PROVE  /\ ShardOK(WalAppend(s, unit, isCommit, remote, due))
           /\ SameRam(WalAppend(s, unit, isCommit, remote, due), s)
<1> DEFINE r == [s EXCEPT !.buf = Append(s.buf, unit)]
<1>1. /\ DOMAIN r = DOMAIN s
      /\ r.file = s.file /\ r.buf = Append(s.buf, unit) /\ r.nsync = s.nsync
      /\ SameRam(r, s)
  BY DEF ShardOK, SameRam
<1>2. WalOK(r)
  BY <1>1 DEF ShardOK, WalOK, SameRam
<1>3. ShardOK(r)
  BY <1>1, <1>2 DEF ShardOK, IndexOK, SegmentsOK, SameRam
<1> QED
  BY <1>1, <1>3, MaybeSyncRam, SameRamTransitive DEF WalAppend

(* Wal::reset.                                                             *)
LEMMA WalResetRam ==
    ASSUME NEW s, ShardOK(s)
    PROVE  ShardOK(WalReset(s)) /\ SameRam(WalReset(s), s)
<1> DEFINE r == WalReset(s)
<1>1. /\ DOMAIN r = DOMAIN s
      /\ r.file = << >> /\ r.buf = << >> /\ r.nsync = 0
      /\ SameRam(r, s)
  BY DEF ShardOK, SameRam, WalReset
<1>2. WalOK(r)
  BY <1>1 DEF ShardOK, WalOK, SameRam
<1> QED
  BY <1>1, <1>2 DEF ShardOK, IndexOK, SegmentsOK, SameRam

(* The snapshot of an index is a log unit.                                 *)
LEMMA SnapshotUnit ==
    ASSUME NEW s, ShardOK(s)
    PROVE  Snapshot(s) \in Unit
BY DEF ShardOK, IndexOK, Snapshot, Unit, Effect

(* rewrite_wal_snapshot.                                                   *)
LEMMA RewriteSnapshotRam ==
    ASSUME NEW s, ShardOK(s)
    PROVE  ShardOK(RewriteSnapshot(s)) /\ SameRam(RewriteSnapshot(s), s)
<1>1. ShardOK(WalReset(s)) /\ SameRam(WalReset(s), s)
  BY WalResetRam
<1>2. Snapshot(s) \in Unit
  BY SnapshotUnit
<1> QED
  BY <1>1, <1>2, WalAppendRam, SameRamTransitive, ZenonT(30) DEF RewriteSnapshot

-----------------------------------------------------------------------------
(* What a handler may do to the parts a tier merge relies on: ids only     *)
(* grow, the active segment stays or is a fresh one, only fresh segments   *)
(* are registered, unregistered files are left alone and none is added,    *)
(* and a document that points into a segment neither active nor fresh is   *)
(* as it was.                                                              *)
Evolves(s, r) ==
    /\ s.next <= r.next
    /\ r.active = s.active \/ s.next <= r.active
    /\ \A i \in r.segs : i \in s.segs \/ s.next <= i
    /\ \A i \in DOMAIN s.files \ s.segs : i \in DOMAIN r.files /\ r.files[i] = s.files[i]
    /\ \A i \in DOMAIN r.files : i \in r.segs \/ i \in DOMAIN s.files \ s.segs
    /\ \A k \in Keys : r.index[k].kind = "Segment" =>
         \/ r.index[k] = s.index[k] /\ Get(r, k) = Get(s, k)
         \/ r.index[k].seg = s.active
         \/ s.next <= r.index[k].seg

(* A well-typed shard whose pointers resolve.                              *)
Sound(s) == ShardOK(s) /\ Resolves(s)

(* A handler that changes no document.                                     *)
Keeps(s, r) == Sound(r) /\ View(r) = View(s) /\ Evolves(s, r)

(* Pointers that a handler keeps still resolve in the files it keeps.      *)
LEMMA ResolvesSame ==
    ASSUME NEW s, NEW r, Resolves(s),
           \A k \in Keys : r.index[k].kind = "Segment" => r.index[k] = s.index[k],
           \A i \in s.segs : i \in r.segs /\ r.files[i] = s.files[i]
    PROVE  Resolves(r)
<1> SUFFICES ASSUME NEW k \in Keys, r.index[k].kind = "Segment"
             PROVE  /\ r.index[k].seg \in r.segs
                    /\ r.index[k].off \in DOMAIN r.files[r.index[k].seg].data[k]
  BY Zenon DEF Resolves
<1>1. r.index[k] = s.index[k]
  BY Zenon
<1>2. /\ s.index[k].seg \in s.segs
      /\ s.index[k].off \in DOMAIN s.files[s.index[k].seg].data[k]
  BY <1>1, Zenon DEF Resolves
<1>3. s.index[k].seg \in r.segs /\ r.files[s.index[k].seg] = s.files[s.index[k].seg]
  BY <1>2, Zenon
<1> QED
  BY <1>1, <1>2, <1>3, Zenon

(* The fields of a Segment pointer.                                        *)
LEMMA SegmentPointer ==
    ASSUME NEW s, IndexOK(s), NEW k \in Keys, s.index[k].kind = "Segment"
    PROVE  /\ s.index[k].seg \in Nat /\ s.index[k].off \in Nat
           /\ s.index[k] = InSegment(s.index[k].seg, s.index[k].off)
BY DEF IndexOK, Pointer, InSegment, Deleted, Absent

(* A shard evolves to itself ...                                           *)
LEMMA EvolvesReflexive ==
    ASSUME NEW s, ShardOK(s)
    PROVE  Evolves(s, s)
BY DEF Evolves, ShardOK, SegmentsOK

(* ... and so does one that keeps its segments, up to pointers into the    *)
(* active one, ...                                                         *)
LEMMA SameSegmentsEvolve ==
    ASSUME NEW s, NEW r, ShardOK(s),
           r.segs = s.segs, r.active = s.active, r.next = s.next,
           DOMAIN r.files = DOMAIN s.files,
           \A i \in DOMAIN s.files \ s.segs : i \in DOMAIN r.files /\ r.files[i] = s.files[i],
           \A k \in Keys : r.index[k].kind = "Segment" =>
             \/ r.index[k] = s.index[k] /\ Get(r, k) = Get(s, k)
             \/ r.index[k].seg = s.active
    PROVE  Evolves(s, r)
<1>1. s.next <= r.next
  BY DEF ShardOK, SegmentsOK
<1> QED
  BY <1>1, Zenon DEF Evolves

(* ... and handlers compose.                                               *)
LEMMA EvolvesTransitive ==
    ASSUME NEW q, NEW r, NEW s, ShardOK(q), ShardOK(r), ShardOK(s),
           Evolves(q, r), Evolves(r, s)
    PROVE  Evolves(q, s)
<1>1. q.next <= s.next
  BY DEF Evolves, ShardOK, SegmentsOK
<1>2. s.active = q.active \/ q.next <= s.active
  BY SMTT(30) DEF Evolves, ShardOK, SegmentsOK
<1>3. \A i \in s.segs : i \in q.segs \/ q.next <= i
  BY SMTT(30) DEF Evolves, ShardOK, SegmentsOK
<1>4. \A i \in DOMAIN q.files \ q.segs : i \in DOMAIN s.files /\ s.files[i] = q.files[i]
  <2> TAKE i \in DOMAIN q.files \ q.segs
  <2>1. i \in DOMAIN r.files /\ r.files[i] = q.files[i] /\ i < q.next
    BY DEF Evolves, ShardOK, SegmentsOK
  <2>2. i \notin r.segs
    BY <2>1 DEF Evolves, ShardOK, SegmentsOK
  <2> QED
    BY <2>1, <2>2 DEF Evolves
<1>6. \A i \in DOMAIN s.files : i \in s.segs \/ i \in DOMAIN q.files \ q.segs
  BY Zenon DEF Evolves
<1>5. \A k \in Keys : s.index[k].kind = "Segment" =>
         \/ s.index[k] = q.index[k] /\ Get(s, k) = Get(q, k)
         \/ s.index[k].seg = q.active
         \/ q.next <= s.index[k].seg
  <2> SUFFICES ASSUME NEW k \in Keys, s.index[k].kind = "Segment"
               PROVE  \/ s.index[k] = q.index[k] /\ Get(s, k) = Get(q, k)
                      \/ s.index[k].seg = q.active
                      \/ q.next <= s.index[k].seg
    OBVIOUS
  <2>1. s.index[k].seg \in Nat /\ q.next \in Nat /\ r.next \in Nat /\ q.next <= r.next
    BY SegmentPointer, ZenonT(30) DEF Evolves, ShardOK, SegmentsOK
  <2>2. CASE s.index[k] = r.index[k] /\ Get(s, k) = Get(r, k)
    BY <2>2 DEF Evolves
  <2>3. CASE s.index[k].seg = r.active
    BY <2>3 DEF Evolves
  <2>4. CASE r.next <= s.index[k].seg
    BY <2>1, <2>4
  <2> QED
    BY <2>2, <2>3, <2>4 DEF Evolves
<1> QED
  BY <1>1, <1>2, <1>3, <1>4, <1>5, <1>6 DEF Evolves

(* So do handlers that change no document.                                 *)
LEMMA KeepsTransitive ==
    ASSUME NEW q, NEW r, NEW s, Sound(q), Keeps(q, r), Keeps(r, s)
    PROVE  Keeps(q, s)
BY EvolvesTransitive DEF Keeps, Sound

(* The log is not part of what a read sees.                                *)
LEMMA SameRamKeeps ==
    ASSUME NEW r, NEW s, Sound(s), ShardOK(r), SameRam(r, s)
    PROVE  Keeps(s, r)
<1>1. \A k \in Keys : Get(r, k) = Get(s, k)
  BY DEF SameRam, Get, Deref
<1>2. View(r) = View(s)
  BY <1>1 DEF View
<1>3. Resolves(r)
  BY ResolvesSame, Zenon DEF SameRam, Sound
<1>4. Evolves(s, r)
  BY <1>1 DEF SameRam, Evolves, Sound, ShardOK, SegmentsOK
<1> QED
  BY <1>2, <1>3, <1>4 DEF Keeps, Sound

(* Flushing and rewriting the log change no document.                      *)
LEMMA WalKeeps ==
    ASSUME NEW s, Sound(s)
    PROVE  Keeps(s, WalFlush(s)) /\ Keeps(s, RewriteSnapshot(s))
BY WalFlushRam, RewriteSnapshotRam, SameRamKeeps DEF Sound

(* flush_all only forgets which segment bytes are unsynced.                *)
LEMMA FlushAllKeeps ==
    ASSUME NEW s, Sound(s)
    PROVE  Keeps(s, FlushAll(s))
<1> DEFINE r == [s EXCEPT !.dirty = {d \in s.dirty : d[1] # s.active}]
<1>1. /\ DOMAIN r = DOMAIN s /\ r.index = s.index /\ r.view = s.view
      /\ r.count = s.count /\ r.inl = s.inl /\ r.files = s.files /\ r.segs = s.segs
      /\ r.active = s.active /\ r.next = s.next /\ r.mode = s.mode
      /\ r.buf = s.buf /\ r.file = s.file /\ r.nsync = s.nsync
  BY DEF Sound, ShardOK
<1>2. ShardOK(r)
  BY <1>1 DEF Sound, ShardOK, IndexOK, SegmentsOK, WalOK
<1>3. \A k \in Keys : Get(r, k) = Get(s, k)
  BY <1>1 DEF Get, Deref
<1>4. Resolves(r) /\ View(r) = View(s)
  BY <1>1, <1>3, ResolvesSame, Zenon DEF Sound, View
<1>5. Evolves(s, r)
  BY <1>1, <1>3 DEF Sound, Evolves, ShardOK, SegmentsOK
<1>6. Keeps(s, r)
  BY <1>2, <1>4, <1>5 DEF Keeps, Sound
<1> QED
  BY <1>6, WalKeeps, KeepsTransitive DEF FlushAll, Keeps

-----------------------------------------------------------------------------
(* The index.                                                              *)

(* update_index_entry on the touched keys; the counters stay naturals.     *)
LEMMA UpdateIndexOK ==
    ASSUME NEW s, ShardOK(s), NEW eff \in Effect
    PROVE  LET r == UpdateIndex(s, eff)
           IN /\ ShardOK(r)
              /\ r.index = [k \in Keys |-> IF k \in Touched(eff) THEN eff[k] ELSE s.index[k]]
              /\ r.files = s.files /\ r.segs = s.segs
              /\ r.active = s.active /\ r.next = s.next
<1> DEFINE T == Touched(eff)
           born == {k \in T : ~IsLive(s.index[k]) /\ IsLive(eff[k])}
           died == {k \in T : IsLive(s.index[k]) /\ ~IsLive(eff[k])}
           came == {k \in T : eff[k].kind = "Inlined"}
           went == {k \in T : s.index[k].kind = "Inlined"}
           index == [k \in Keys |-> IF k \in T THEN eff[k] ELSE s.index[k]]
           view == (s.view \ T) \cup {k \in T : IsLive(eff[k])}
           count == Monus(s.count + Cardinality(born), Cardinality(died))
           inl == Monus(s.inl + Cardinality(came), Cardinality(went))
           r == [s EXCEPT !.index = index, !.view = view, !.count = count, !.inl = inl]
<1>1. T \subseteq Keys
  BY DEF Touched
<1>2. \A S \in SUBSET Keys : Cardinality(S) \in Nat
  BY FS_Subset, FS_CardinalityType, ShardAssumption
<1>3. born \in SUBSET Keys /\ died \in SUBSET Keys /\ came \in SUBSET Keys /\ went \in SUBSET Keys
  BY <1>1
<1>4. count \in Nat /\ inl \in Nat
  <2> HIDE DEF born, died, came, went
  <2> QED
    BY <1>2, <1>3 DEF Monus, ShardOK, IndexOK
<1>5. index \in [Keys -> Pointer \cup {Absent}]
  BY DEF Effect, Touched, ShardOK, IndexOK
<1>6. view \subseteq Keys
  BY <1>1 DEF ShardOK, IndexOK
<1>7. UpdateIndex(s, eff) = r
  BY DEF UpdateIndex
<1> HIDE DEF index, view, count, inl
<1>8. /\ DOMAIN r = DOMAIN s
      /\ r.index = index /\ r.view = view /\ r.count = count /\ r.inl = inl
      /\ r.files = s.files /\ r.segs = s.segs /\ r.active = s.active /\ r.next = s.next
      /\ r.mode = s.mode /\ r.buf = s.buf /\ r.file = s.file /\ r.nsync = s.nsync
  BY DEF ShardOK
<1>9. ShardOK(r)
  BY <1>4, <1>5, <1>6, <1>8, SMTT(30) DEF ShardOK, IndexOK, SegmentsOK, WalOK
<1> QED
  BY <1>7, <1>8, <1>9 DEF index

(* An offset a segment holds reads as a value.                             *)
LEMMA ElementOfData ==
    ASSUME NEW seq \in Seq(Values), NEW n \in DOMAIN seq
    PROVE  seq[n] \in Values
OBVIOUS

(* A read of a live document returns an encoded document.                  *)
LEMMA GetValue ==
    ASSUME NEW s, Sound(s), NEW k \in Keys, IsLive(s.index[k])
    PROVE  Get(s, k) \in Values
<1>1. CASE s.index[k].kind = "Inlined"
  BY <1>1 DEF Get, Deref, Sound, ShardOK, IndexOK, Pointer, Deleted, Absent
<1>2. CASE s.index[k].kind = "Segment"
  <2>1. /\ s.index[k].seg \in s.segs
        /\ s.index[k].off \in DOMAIN s.files[s.index[k].seg].data[k]
    BY <1>2, SMTT(30) DEF Sound, Resolves
  <2>2. s.files[s.index[k].seg].data[k] \in Seq(Values)
    BY <2>1 DEF Sound, ShardOK, SegmentsOK
  <2>3. s.files[s.index[k].seg].data[k][s.index[k].off] \in Values
    BY <2>1, <2>2, ElementOfData, ZenonT(30)
  <2> QED
    BY <1>2, <2>1, <2>3, ZenonT(30) DEF Get, Deref
<1> QED
  BY <1>1, <1>2 DEF IsLive

(* What a compaction writes into its target is segment data.               *)
LEMMA CollectedData ==
    ASSUME NEW s, Sound(s), NEW K, \A k \in K : k \in Keys /\ IsLive(s.index[k])
    PROVE  Collected(s, K) \in [Keys -> Seq(Values)]
<1>1. \A k \in K : <<Get(s, k)>> \in Seq(Values)
  BY GetValue
<1> QED
  BY <1>1 DEF Collected

(* A document is read alike through equal pointers into equal data.        *)
LEMMA GetSame ==
    ASSUME NEW s, NEW r, NEW k, r.index[k] = s.index[k],
           s.index[k].kind = "Segment" =>
             /\ s.index[k].seg \in s.segs /\ s.index[k].seg \in r.segs
             /\ r.files[s.index[k].seg].data[k] = s.files[s.index[k].seg].data[k]
    PROVE  Get(r, k) = Get(s, k)
<1>1. CASE s.index[k].kind = "Inlined"
  BY <1>1 DEF Get, Deref
<1>2. CASE s.index[k].kind = "Segment"
  <2>1. Get(s, k) = s.files[s.index[k].seg].data[k][s.index[k].off]
    BY <1>2, Zenon DEF Get, Deref
  <2>2. Get(r, k) = r.files[s.index[k].seg].data[k][s.index[k].off]
    BY <1>2, Zenon DEF Get, Deref
  <2> QED
    BY <1>2, <2>1, <2>2, ZenonT(30)
<1>3. CASE s.index[k].kind \notin {"Inlined", "Segment"}
  BY <1>3, ZenonT(30) DEF Get, Deref
<1> QED
  BY <1>1, <1>2, <1>3, SMTT(30)

(* r is s after the documents K have been copied to the segment t.         *)
MovedTo(s, r, K, t) ==
    /\ t \in r.segs
    /\ \A k \in K : r.index[k] = InSegment(t, 1) /\ r.files[t].data[k] = <<Get(s, k)>>
    /\ \A k \in Keys \ K : r.index[k] = s.index[k]
    /\ \A k \in Keys \ K : s.index[k].kind = "Segment" =>
         /\ s.index[k].seg \in r.segs
         /\ r.files[s.index[k].seg].data[k] = s.files[s.index[k].seg].data[k]

(* Moving documents changes none.                                          *)
LEMMA MovedKeepsView ==
    ASSUME NEW s, NEW r, NEW K, NEW t,
           Sound(s), K \subseteq Keys, MovedTo(s, r, K, t)
    PROVE  /\ Resolves(r)
           /\ \A k \in Keys : Get(r, k) = Get(s, k)
           /\ View(r) = View(s)
<1>1. ASSUME NEW k \in K
      PROVE  /\ r.index[k] = InSegment(t, 1)
             /\ 1 \in DOMAIN r.files[t].data[k]
             /\ Get(r, k) = Get(s, k)
  <2>1. r.index[k] = InSegment(t, 1) /\ t \in r.segs
    BY SMTT(30) DEF MovedTo
  <2>2. r.files[t].data[k] = <<Get(s, k)>>
    BY SMTT(30) DEF MovedTo
  <2>3. r.index[k].kind = "Segment" /\ r.index[k].seg = t /\ r.index[k].off = 1
    BY <2>1 DEF InSegment
  <2>4. Get(r, k) = r.files[t].data[k][1]
    BY <2>1, <2>3, Zenon DEF Get, Deref
  <2> QED
    BY <2>1, <2>2, <2>4
<1>2. ASSUME NEW k \in Keys \ K
      PROVE  /\ r.index[k].kind = "Segment" =>
                /\ r.index[k].seg \in r.segs
                /\ r.index[k].off \in DOMAIN r.files[r.index[k].seg].data[k]
             /\ Get(r, k) = Get(s, k)
  BY GetSame, ZenonT(30) DEF MovedTo, Sound, Resolves
<1>3. Resolves(r)
  <2> SUFFICES ASSUME NEW k \in Keys, r.index[k].kind = "Segment"
               PROVE  /\ r.index[k].seg \in r.segs
                      /\ r.index[k].off \in DOMAIN r.files[r.index[k].seg].data[k]
    BY Zenon DEF Resolves
  <2>1. CASE k \in K
    <3>1. r.index[k] = InSegment(t, 1) /\ 1 \in DOMAIN r.files[t].data[k]
      BY <1>1, <2>1, Zenon
    <3>2. r.index[k].seg = t /\ r.index[k].off = 1
      BY <3>1 DEF InSegment
    <3>3. t \in r.segs
      BY Zenon DEF MovedTo
    <3> QED
      BY <3>1, <3>2, <3>3, Zenon
  <2>2. CASE k \notin K
    BY <1>2, <2>2, Zenon
  <2> QED
    BY <2>1, <2>2
<1> QED
  BY <1>1, <1>2, <1>3, SMTT(30) DEF View

-----------------------------------------------------------------------------
(* Segments.                                                               *)

(* A segment built from typed data is typed.                               *)
LEMMA SegmentType ==
    ASSUME NEW level \in Nat, NEW data \in [Keys -> Seq(Values)]
    PROVE  /\ Segment(level, data) \in [level : Nat, data : [Keys -> Seq(Values)]]
           /\ Segment(level, data).data = data
BY DEF Segment

(* Registering a typed segment under the next id.                          *)
LEMMA AddSegmentOK ==
    ASSUME NEW s, SegmentsOK(s), NEW r,
           NEW seg \in [level : Nat, data : [Keys -> Seq(Values)]],
           r.files = Extend(s.files, s.next, seg), r.segs = s.segs \cup {s.next},
           r.active \in r.segs, r.next = s.next + 1
    PROVE  SegmentsOK(r)
<1>1. s.next \in Nat /\ DOMAIN s.files \subseteq 0 .. s.next - 1
  BY DEF SegmentsOK
<1>2. /\ DOMAIN r.files = DOMAIN s.files \cup {s.next}
      /\ r.files[s.next] = seg
      /\ \A i \in DOMAIN s.files : r.files[i] = s.files[i]
  BY <1>1 DEF Extend
<1>3. DOMAIN r.files \subseteq 0 .. r.next - 1
  BY <1>1, <1>2
<1>4. \A i \in DOMAIN r.files : r.files[i] \in [level : Nat, data : [Keys -> Seq(Values)]]
  BY <1>2 DEF SegmentsOK
<1> QED
  BY <1>1, <1>2, <1>3, <1>4, SMTT(30) DEF SegmentsOK

(* The fresh active segment is typed.                                      *)
LEMMA EmptySegmentType == EmptySegment \in [level : Nat, data : [Keys -> Seq(Values)]]
BY DEF EmptySegment, Segment

(* Opening a fresh active segment.                                         *)
LEMMA NewActiveKeeps ==
    ASSUME NEW s, Sound(s)
    PROVE  Keeps(s, NewActive(s))
<1> DEFINE r == NewActive(s)
<1>1. /\ DOMAIN r = DOMAIN s
      /\ r.files = Extend(s.files, s.next, EmptySegment)
      /\ r.segs = s.segs \cup {s.next} /\ r.active = s.next /\ r.next = s.next + 1
      /\ r.index = s.index /\ r.view = s.view /\ r.count = s.count /\ r.inl = s.inl
      /\ r.mode = s.mode /\ r.buf = s.buf /\ r.file = s.file /\ r.nsync = s.nsync
  BY DEF NewActive, Sound, ShardOK
<1>2. /\ DOMAIN r.files = DOMAIN s.files \cup {s.next}
      /\ r.files[s.next] = EmptySegment
      /\ \A i \in DOMAIN s.files : i # s.next /\ r.files[i] = s.files[i]
  BY <1>1 DEF Extend, Sound, ShardOK, SegmentsOK
<1>3. SegmentsOK(r)
  BY <1>1, <1>2, EmptySegmentType, SMTT(30) DEF Sound, ShardOK, SegmentsOK
<1>4. ShardOK(r)
  BY <1>1, <1>3 DEF Sound, ShardOK, IndexOK, WalOK
<1>5. \A k \in Keys : s.index[k].kind = "Segment" =>
         /\ s.index[k].seg \in DOMAIN s.files /\ s.index[k].seg \in s.segs
         /\ s.index[k].off \in DOMAIN s.files[s.index[k].seg].data[k]
  BY DEF Sound, Resolves, ShardOK, SegmentsOK
<1> HIDE DEF r
<1>6. \A k \in Keys : Get(r, k) = Get(s, k)
  <2> SUFFICES ASSUME NEW k \in Keys
               PROVE  Get(r, k) = Get(s, k)
    OBVIOUS
  <2>1. s.index[k].kind = "Segment" =>
          /\ s.index[k].seg \in s.segs /\ s.index[k].seg \in r.segs
          /\ r.files[s.index[k].seg].data[k] = s.files[s.index[k].seg].data[k]
    BY <1>1, <1>2, <1>5, Zenon
  <2> QED
    BY <1>1, <2>1, GetSame, Zenon
<1>7. Resolves(r)
  <2>1. \A i \in s.segs : i \in r.segs /\ r.files[i] = s.files[i]
    BY <1>1, <1>2 DEF Sound, ShardOK, SegmentsOK
  <2> QED
    BY <1>1, <2>1, ResolvesSame, Zenon DEF Sound
<1>8. Evolves(s, r)
  BY <1>1, <1>2, <1>6 DEF Evolves, Sound, ShardOK, SegmentsOK
<1>9. View(r) = View(s)
  BY <1>6, Zenon DEF View
<1> QED
  BY <1>4, <1>7, <1>8, <1>9 DEF Keeps, Sound, r

(* Consuming a segment id.                                                 *)
LEMMA SkipIdKeeps ==
    ASSUME NEW s, Sound(s)
    PROVE  Keeps(s, [s EXCEPT !.next = @ + 1])
<1> DEFINE r == [s EXCEPT !.next = @ + 1]
<1>1. /\ DOMAIN r = DOMAIN s /\ r.next = s.next + 1
      /\ r.index = s.index /\ r.view = s.view /\ r.count = s.count /\ r.inl = s.inl
      /\ r.files = s.files /\ r.segs = s.segs /\ r.active = s.active
      /\ r.mode = s.mode /\ r.buf = s.buf /\ r.file = s.file /\ r.nsync = s.nsync
  BY DEF Sound, ShardOK
<1> HIDE DEF r
<1>2. ShardOK(r)
  BY <1>1, SMTT(30) DEF Sound, ShardOK, IndexOK, SegmentsOK, WalOK
<1>3. \A k \in Keys : Get(r, k) = Get(s, k)
  BY <1>1 DEF Get, Deref
<1>4. Resolves(r) /\ View(r) = View(s)
  BY <1>1, <1>3, ResolvesSame, Zenon DEF Sound, View
<1>5. Evolves(s, r)
  BY <1>1, <1>3 DEF Sound, Evolves, ShardOK, SegmentsOK
<1> QED
  BY <1>2, <1>4, <1>5 DEF Keeps, Sound, r

(* Rotation, by size or forced, changes no document.                       *)
LEMMA RotationKeeps ==
    ASSUME NEW s, Sound(s)
    PROVE  Keeps(s, MaybeRotate(s)) /\ Keeps(s, ForceRotate(s))
BY NewActiveKeeps, EvolvesReflexive DEF MaybeRotate, ForceRotate, Keeps, Sound

(* checkpoint_inlined_data: the spill of all inlined documents.            *)
LEMMA CheckpointInlinedKeeps ==
    ASSUME NEW s, Sound(s)
    PROVE  Keeps(s, CheckpointInlined(s))
<1> DEFINE K == {k \in Keys : s.index[k].kind = "Inlined"}
           t == s.next
           q == [s EXCEPT !.next = t + 1]
           u == UpdateIndex(q, Relocated(K, t))
           r == [u EXCEPT !.files = Extend(@, t, Segment(0, Collected(s, K))),
                          !.segs = @ \cup {t}]
<1>1. t \in Nat /\ K \in SUBSET Keys
  BY DEF Sound, ShardOK, SegmentsOK
<1>2. /\ DOMAIN q = DOMAIN s
      /\ q.next = t + 1 /\ q.files = s.files /\ q.segs = s.segs /\ q.active = s.active
      /\ q.index = s.index /\ q.view = s.view /\ q.count = s.count /\ q.inl = s.inl
      /\ q.mode = s.mode /\ q.buf = s.buf /\ q.file = s.file /\ q.nsync = s.nsync
  BY DEF Sound, ShardOK
<1>3. ShardOK(q)
  BY <1>1, <1>2, SMTT(30) DEF Sound, ShardOK, IndexOK, SegmentsOK, WalOK
<1>4. Relocated(K, t) \in Effect /\ Touched(Relocated(K, t)) = K
  BY <1>1 DEF Relocated, Touched, Effect, Pointer, InSegment, Untouched
<1>5. /\ ShardOK(u)
      /\ u.index = [k \in Keys |-> IF k \in K THEN InSegment(t, 1) ELSE s.index[k]]
      /\ u.files = s.files /\ u.segs = s.segs /\ u.active = s.active /\ u.next = t + 1
  <2>1. \A k \in K : Relocated(K, t)[k] = InSegment(t, 1)
    BY <1>1 DEF Relocated
  <2> DEFINE eff == Relocated(K, t)
  <2> HIDE DEF q, K, eff
  <2>2. /\ ShardOK(u)
        /\ u.index = [k \in Keys |-> IF k \in Touched(eff) THEN eff[k] ELSE q.index[k]]
        /\ u.files = q.files /\ u.segs = q.segs /\ u.active = q.active /\ u.next = q.next
    BY <1>3, <1>4, UpdateIndexOK DEF eff
  <2> QED
    BY <1>2, <1>4, <2>1, <2>2 DEF eff
<1>a. \A k \in Keys : s.index[k].kind = "Segment" => k \notin K
  OBVIOUS
<1>7. Collected(s, K) \in [Keys -> Seq(Values)]
  BY CollectedData DEF IsLive
<1> HIDE DEF u, q, K
<1>6. /\ DOMAIN r = DOMAIN u
      /\ r.files = Extend(s.files, t, Segment(0, Collected(s, K)))
      /\ r.segs = s.segs \cup {t}
      /\ r.index = u.index /\ r.view = u.view /\ r.count = u.count /\ r.inl = u.inl
      /\ r.active = s.active /\ r.next = t + 1
      /\ r.mode = u.mode /\ r.buf = u.buf /\ r.file = u.file /\ r.nsync = u.nsync
  BY <1>5 DEF ShardOK
<1> HIDE DEF r
<1>8. /\ DOMAIN r.files = DOMAIN s.files \cup {t}
      /\ r.files[t] = Segment(0, Collected(s, K))
      /\ \A i \in DOMAIN s.files : i # t /\ r.files[i] = s.files[i]
  BY <1>6 DEF Extend, Sound, ShardOK, SegmentsOK
<1>9. SegmentsOK(r)
  <2>1. Segment(0, Collected(s, K)) \in [level : Nat, data : [Keys -> Seq(Values)]]
    BY <1>7, SegmentType
  <2> QED
    BY <1>6, <2>1, AddSegmentOK, ZenonT(30) DEF Sound, ShardOK, SegmentsOK
<1>10. ShardOK(r)
  BY <1>5, <1>6, <1>9 DEF ShardOK, IndexOK, WalOK
<1>11. \A k \in K : r.files[t].data[k] = <<Get(s, k)>>
  BY <1>1, <1>8 DEF Segment, Collected
<1>12. \A k \in Keys : s.index[k].kind = "Segment" =>
         /\ s.index[k].seg \in r.segs
         /\ r.files[s.index[k].seg].data[k] = s.files[s.index[k].seg].data[k]
  BY <1>6, <1>8, SMTT(30) DEF Sound, Resolves, ShardOK, SegmentsOK
<1>13. /\ Resolves(r) /\ View(r) = View(s)
       /\ \A k \in Keys : Get(r, k) = Get(s, k)
  <2>1. \A k \in K : r.index[k] = InSegment(t, 1)
    BY <1>1, <1>5, <1>6
  <2>2. \A k \in Keys \ K : r.index[k] = s.index[k]
    BY <1>5, <1>6
  <2>3. t \in r.segs
    BY <1>6
  <2> HIDE DEF t
  <2>4. MovedTo(s, r, K, t)
    BY <1>11, <1>12, <2>1, <2>2, <2>3, SMTT(30) DEF MovedTo
  <2> QED
    BY <1>1, <2>4, MovedKeepsView
<1>14. Evolves(s, r)
  <2>1. \A k \in Keys : r.index[k].kind = "Segment" =>
          \/ r.index[k] = s.index[k] /\ Get(r, k) = Get(s, k)
          \/ s.next <= r.index[k].seg
    BY <1>1, <1>5, <1>6, <1>13 DEF InSegment
  <2> QED
    BY <1>1, <1>6, <1>8, <2>1, SMTT(30) DEF Evolves, Sound, ShardOK, SegmentsOK
<1>15. Keeps(s, r)
  BY <1>10, <1>13, <1>14 DEF Keeps, Sound
<1>16. Keeps(s, RewriteSnapshot(r))
  BY <1>15, WalKeeps, KeepsTransitive DEF Keeps
<1> QED
  BY <1>16, EvolvesReflexive, ZenonT(30) DEF CheckpointInlined, Keeps, Sound, r, u, q, K

(* The merge of all immutable segments into one.                           *)
LEMMA MergeAllKeeps ==
    ASSUME NEW s, Sound(s)
    PROVE  Keeps(s, MergeAll(s))
<1> DEFINE ids == s.segs \ {s.active}
           K == PointingInto(s, ids)
           t == s.next
           seg == Segment(1, Collected(s, K))
           r == [s EXCEPT !.next = t + 1,
                          !.files = Extend(Without(@, ids), t, seg),
                          !.dirty = {d \in @ : d[1] \notin ids},
                          !.segs = (@ \ ids) \cup {t},
                          !.index = [k \in Keys |-> IF k \in K THEN InSegment(t, 1)
                                                    ELSE s.index[k]]]
<1>1. /\ t \in Nat /\ K \subseteq Keys
      /\ DOMAIN s.files \subseteq 0 .. t - 1 /\ t \notin DOMAIN s.files
  BY DEF Sound, ShardOK, SegmentsOK, PointingInto
<1>2. seg \in [level : Nat, data : [Keys -> Seq(Values)]] /\ seg.data = Collected(s, K)
  <2>1. \A k \in K : k \in Keys /\ IsLive(s.index[k])
    BY DEF PointingInto, IsLive
  <2> HIDE DEF K
  <2>2. Collected(s, K) \in [Keys -> Seq(Values)]
    BY <2>1, CollectedData
  <2> QED
    BY <2>2, SegmentType
<1>3. \A k \in Keys \ K : s.index[k].kind = "Segment" => s.index[k].seg = s.active
  BY DEF PointingInto, Sound, Resolves
<1>4. /\ s.active \in DOMAIN s.files /\ s.active \notin ids /\ ids \subseteq s.segs
      /\ s.active \in s.segs /\ s.segs \ ids = {s.active}
  BY DEF Sound, ShardOK, SegmentsOK
<1> HIDE DEF K, seg, ids
<1>5. /\ DOMAIN r = DOMAIN s
      /\ r.files = Extend(Without(s.files, ids), t, seg)
      /\ r.segs = (s.segs \ ids) \cup {t} /\ r.active = s.active /\ r.next = t + 1
      /\ r.index = [k \in Keys |-> IF k \in K THEN InSegment(t, 1) ELSE s.index[k]]
      /\ r.view = s.view /\ r.count = s.count /\ r.inl = s.inl
      /\ r.mode = s.mode /\ r.buf = s.buf /\ r.file = s.file /\ r.nsync = s.nsync
  BY DEF Sound, ShardOK
<1> HIDE DEF r
<1>6. /\ DOMAIN r.files = (DOMAIN s.files \ ids) \cup {t}
      /\ r.files[t] = seg
      /\ \A i \in DOMAIN s.files \ ids : r.files[i] = s.files[i]
  BY <1>1, <1>5 DEF Extend, Without
<1>7. SegmentsOK(r)
  <2>1. DOMAIN r.files \subseteq 0 .. r.next - 1
    BY <1>1, <1>5, <1>6
  <2>2. \A i \in DOMAIN r.files : r.files[i] \in [level : Nat, data : [Keys -> Seq(Values)]]
    BY <1>2, <1>6 DEF Sound, ShardOK, SegmentsOK
  <2> QED
    BY <1>1, <1>4, <1>5, <1>6, <2>1, <2>2, SMTT(30) DEF SegmentsOK
<1>8. IndexOK(r)
  <2>1. InSegment(t, 1) \in Pointer
    BY <1>1 DEF InSegment, Pointer
  <2> QED
    BY <1>5, <2>1 DEF Sound, ShardOK, IndexOK
<1>9. ShardOK(r)
  BY <1>5, <1>7, <1>8 DEF Sound, ShardOK, WalOK
<1>10. MovedTo(s, r, K, t)
  <2>1. \A k \in K : r.index[k] = InSegment(t, 1) /\ r.files[t].data[k] = <<Get(s, k)>>
    BY <1>1, <1>2, <1>5, <1>6, SMTT(30) DEF Collected
  <2>2. \A k \in Keys \ K : r.index[k] = s.index[k]
    BY <1>5
  <2>3. s.active \in r.segs /\ t \in r.segs /\ r.files[s.active] = s.files[s.active]
    BY <1>4, <1>5, <1>6
  <2> QED
    BY <1>3, <2>1, <2>2, <2>3, SMTT(30) DEF MovedTo
<1>11. /\ Resolves(r) /\ View(r) = View(s)
       /\ \A k \in Keys : Get(r, k) = Get(s, k)
  BY <1>1, <1>10, MovedKeepsView
<1>12. Evolves(s, r)
  <2>1. \A k \in Keys : r.index[k].kind = "Segment" =>
          \/ r.index[k] = s.index[k] /\ Get(r, k) = Get(s, k)
          \/ s.next <= r.index[k].seg
    BY <1>1, <1>5, <1>11 DEF InSegment
  <2>2. \A i \in DOMAIN s.files \ s.segs : i \in DOMAIN r.files /\ r.files[i] = s.files[i]
    BY <1>4, <1>6
  <2>3. \A i \in DOMAIN r.files : i \in r.segs \/ i \in DOMAIN s.files \ s.segs
    BY <1>5, <1>6
  <2> QED
    BY <1>1, <1>5, <2>1, <2>2, <2>3 DEF Evolves
<1>13. Keeps(s, r)
  BY <1>9, <1>11, <1>12 DEF Keeps, Sound
<1>14. Keeps(s, RewriteSnapshot(r))
  BY <1>13, WalKeeps, KeepsTransitive DEF Keeps
<1> QED
  BY <1>14 DEF MergeAll, r, K, seg, ids

(* compact_with_cancel that runs to its end.                               *)
LEMMA CompactKeeps ==
    ASSUME NEW s, Sound(s), NEW bloated
    PROVE  Keeps(s, Compact(s, bloated))
<1>1. Keeps(s, ForceRotate(s)) /\ Sound(ForceRotate(s))
  BY RotationKeeps DEF Keeps
<1>2. Keeps(s, MergeAll(ForceRotate(s))) /\ Keeps(s, RewriteSnapshot(ForceRotate(s)))
  BY <1>1, MergeAllKeeps, WalKeeps, KeepsTransitive
<1> QED
  BY <1>1, <1>2 DEF Compact

-----------------------------------------------------------------------------
(* Writes.                                                                 *)

(* An index update that inlines or deletes documents changes these, and no *)
(* others.                                                                 *)
LEMMA WriteView ==
    ASSUME NEW s, Sound(s), View(s) = kv, NEW eff \in Effect,
           \A k \in Keys : eff[k].kind \in {"Inlined", "Deleted", "Untouched"}
    PROVE  LET r == UpdateIndex(s, eff)
           IN Sound(r) /\ Evolves(s, r) /\ View(r) = Written(eff)
<1> DEFINE r == UpdateIndex(s, eff)
<1>1. /\ ShardOK(r)
      /\ r.index = [k \in Keys |-> IF k \in Touched(eff) THEN eff[k] ELSE s.index[k]]
      /\ r.files = s.files /\ r.segs = s.segs
      /\ r.active = s.active /\ r.next = s.next
  BY UpdateIndexOK DEF Sound
<1> HIDE DEF r
<1>2. \A k \in Keys : r.index[k].kind = "Segment" => r.index[k] = s.index[k]
  BY <1>1
<1>3. Resolves(r)
  BY <1>1, <1>2, ResolvesSame, Zenon DEF Sound
<1>4. \A k \in Keys : r.index[k] = s.index[k] => Get(r, k) = Get(s, k)
  BY <1>1, ZenonT(30) DEF Get, Deref
<1>5. Evolves(s, r)
  <2>1. \A k \in Keys : r.index[k].kind = "Segment" =>
          r.index[k] = s.index[k] /\ Get(r, k) = Get(s, k)
    BY <1>2, <1>4, Zenon
  <2>2. \A i \in DOMAIN s.files \ s.segs : i \in DOMAIN r.files /\ r.files[i] = s.files[i]
    BY <1>1, Zenon
  <2> QED
    BY <1>1, <2>1, <2>2, SameSegmentsEvolve DEF Sound
<1>6. \A k \in Keys : Get(r, k) = Written(eff)[k]
  <2> SUFFICES ASSUME NEW k \in Keys
               PROVE  Get(r, k) = Written(eff)[k]
    OBVIOUS
  <2>1. Get(s, k) = kv[k]
    BY DEF View
  <2>2. eff[k] \in Pointer \cup {Untouched}
    BY DEF Effect
  <2>3. CASE eff[k].kind = "Untouched"
    <3>1. eff[k] = Untouched /\ k \notin Touched(eff)
      BY <2>2, <2>3 DEF Pointer, Deleted, Untouched, Touched
    <3>2. r.index[k] = s.index[k]
      BY <1>1, <3>1
    <3> QED
      BY <1>4, <2>1, <2>3, <3>2 DEF Written
  <2>4. CASE eff[k].kind = "Inlined"
    <3>1. r.index[k] = eff[k]
      BY <1>1, <2>4 DEF Untouched, Touched
    <3> QED
      BY <2>4, <3>1 DEF Written, Get, Deref
  <2>5. CASE eff[k].kind = "Deleted"
    <3>1. r.index[k] = eff[k]
      BY <1>1, <2>5 DEF Untouched, Touched
    <3> QED
      BY <2>5, <3>1, SMTT(30) DEF Written, Get, Deref
  <2> QED
    BY <2>3, <2>4, <2>5
<1>7. View(r) = Written(eff)
  BY <1>6 DEF View, Written
<1> QED
  BY <1>1, <1>3, <1>5, <1>7 DEF Sound, r

(* The effects of a batch and of a single put or delete.                   *)
Plain(eff) ==
    eff \in Effect /\ \A k \in Keys : eff[k].kind \in {"Inlined", "Deleted", "Untouched"}

(* The effects of a batch, in the log and in RAM.                          *)
LEMMA BatchEffects ==
    ASSUME NEW b \in Batch
    PROVE  Plain(LogEffect(b)) /\ Plain(RamEffect(b)) /\ b.reput \subseteq Keys
<1>1. b.put \in [Keys -> Values \cup {NoVal}] /\ b.reput \subseteq Keys
  BY DEF Batch
<1>2. \A v \in Values : Inlined(v) \in Pointer /\ Inlined(v).kind = "Inlined"
  BY DEF Inlined, Pointer
<1>3. /\ Deleted \in Pointer /\ Deleted.kind = "Deleted" /\ Untouched.kind = "Untouched"
  BY DEF Deleted, Pointer, Untouched
<1>4. Plain(LogEffect(b))
  BY <1>1, <1>2, <1>3 DEF Plain, LogEffect, Effect
<1>5. Plain(RamEffect(b))
  BY <1>1, <1>2, <1>3 DEF Plain, RamEffect, Effect
<1> QED
  BY <1>1, <1>4, <1>5

(* The effects of StorageEngine::put ...                                   *)
LEMMA SingleEffects ==
    ASSUME NEW k \in Keys, NEW v \in Values
    PROVE  /\ Plain(Nothing)
           /\ Plain([Nothing EXCEPT ![k] = Inlined(v)])
BY DEF Plain, Nothing, Effect, Inlined, Pointer, Untouched

(* ... and of delete and hard_delete_keys.                                 *)
LEMMA DeleteEffects ==
    ASSUME NEW k \in Keys
    PROVE  Plain([Nothing EXCEPT ![k] = Deleted])
BY DEF Plain, Nothing, Effect, Deleted, Pointer, Untouched

(* A committed transaction is a log unit.                                  *)
LEMMA TxUnitType ==
    ASSUME NEW eff \in Effect, NEW skip \in SUBSET Keys
    PROVE  TxUnit(eff, skip) \in Unit
BY DEF TxUnit, Unit

(* A logged write on a shard that holds kv.                                *)
LEMMA LoggedWrite ==
    ASSUME NEW s, Sound(s), View(s) = kv, NEW unit \in Unit, NEW remote, NEW due,
           NEW eff, Plain(eff)
    PROVE  LET r == UpdateIndex(WalAppend(s, unit, TRUE, remote, due), eff)
           IN Sound(r) /\ Evolves(s, r) /\ View(r) = Written(eff)
<1> DEFINE a == WalAppend(s, unit, TRUE, remote, due)
           r == UpdateIndex(a, eff)
<1>1. Keeps(s, a)
  BY WalAppendRam, SameRamKeeps, ZenonT(30) DEF Sound
<1> HIDE DEF a
<1>2. Sound(a) /\ View(a) = kv /\ Evolves(s, a)
  BY <1>1 DEF Keeps
<1>3. Sound(r) /\ Evolves(a, r) /\ View(r) = Written(eff)
  BY <1>2, WriteView DEF Plain
<1>4. Evolves(s, r)
  BY <1>2, <1>3, EvolvesTransitive DEF Sound
<1> QED
  BY <1>3, <1>4, ZenonT(30) DEF a

(* What an append does to the data of a segment.                           *)
LEMMA AppendData ==
    ASSUME NEW seq \in Seq(Values), NEW v \in Values
    PROVE  /\ Append(seq, v) \in Seq(Values)
           /\ Len(seq) + 1 \in Nat
           /\ Len(seq) + 1 \in DOMAIN Append(seq, v)
           /\ Append(seq, v)[Len(seq) + 1] = v
           /\ \A i \in DOMAIN seq : i \in DOMAIN Append(seq, v) /\ Append(seq, v)[i] = seq[i]
OBVIOUS

(* Appending a value to the active segment disturbs no document.           *)
LEMMA AppendKeeps ==
    ASSUME NEW s, Sound(s), NEW k \in Keys, NEW v \in Values
    PROVE  LET w == AppendToActive(s, k, v)
               n == NextOffset(s, k)
           IN /\ Keeps(s, w)
              /\ w.index = s.index /\ w.active = s.active /\ n \in Nat
              /\ n \in DOMAIN w.files[s.active].data[k]
              /\ w.files[s.active].data[k][n] = v
<1> DEFINE a == s.active
           seg == s.files[a]
           old == seg.data[k]
           n == NextOffset(s, k)
           w == AppendToActive(s, k, v)
<1>1. /\ a \in DOMAIN s.files /\ a \in s.segs
      /\ s.files[a] \in [level : Nat, data : [Keys -> Seq(Values)]]
      /\ old \in Seq(Values)
  BY DEF Sound, ShardOK, SegmentsOK
<1>2. /\ DOMAIN w = DOMAIN s
      /\ w.files = [s.files EXCEPT
                      ![a] = Segment(seg.level, [seg.data EXCEPT ![k] = Append(@, v)])]
      /\ w.index = s.index /\ w.view = s.view /\ w.count = s.count /\ w.inl = s.inl
      /\ w.segs = s.segs /\ w.active = a /\ w.next = s.next
      /\ w.mode = s.mode /\ w.buf = s.buf /\ w.file = s.file /\ w.nsync = s.nsync
  BY DEF AppendToActive, Sound, ShardOK
<1> HIDE DEF w
<1> DEFINE new == Append(old, v)
<1>a. /\ new \in Seq(Values) /\ n \in Nat /\ n \in DOMAIN new /\ new[n] = v
      /\ \A i \in DOMAIN old : i \in DOMAIN new /\ new[i] = old[i]
  <2>1. n = Len(old) + 1
    BY DEF NextOffset
  <2> HIDE DEF old, n
  <2> QED
    BY <1>1, <2>1, AppendData
<1>b. w.files = [s.files EXCEPT ![a] = Segment(seg.level, [seg.data EXCEPT ![k] = new])]
  BY <1>1, <1>2, SMTT(30)
<1> HIDE DEF new, n
<1>3. /\ DOMAIN w.files = DOMAIN s.files
      /\ \A i \in DOMAIN s.files : i # a => w.files[i] = s.files[i]
      /\ w.files[a] = Segment(seg.level, [seg.data EXCEPT ![k] = new])
  BY <1>1, <1>b
<1>4. /\ w.files[a] \in [level : Nat, data : [Keys -> Seq(Values)]]
      /\ w.files[a].data[k] = new
      /\ \A j \in Keys : j # k => w.files[a].data[j] = s.files[a].data[j]
  <2>1. /\ seg.level \in Nat /\ seg.data \in [Keys -> Seq(Values)]
        /\ [seg.data EXCEPT ![k] = new] \in [Keys -> Seq(Values)]
    BY <1>1, <1>a, SMTT(30)
  <2> DEFINE d == [seg.data EXCEPT ![k] = new]
             l == seg.level
  <2>2. d[k] = new /\ \A j \in Keys : j # k => d[j] = s.files[a].data[j]
    BY <2>1
  <2>3. w.files[a] = Segment(l, d) /\ l \in Nat /\ d \in [Keys -> Seq(Values)]
    BY <1>3, <2>1, SMTT(30)
  <2> HIDE DEF d, l
  <2>4. /\ w.files[a] \in [level : Nat, data : [Keys -> Seq(Values)]]
        /\ w.files[a].data = d
    BY <2>3, SegmentType
  <2> QED
    BY <2>2, <2>4
<1>5. SegmentsOK(w)
  BY <1>2, <1>3, <1>4, ZenonT(30) DEF Sound, ShardOK, SegmentsOK
<1>6. ShardOK(w)
  BY <1>2, <1>5 DEF Sound, ShardOK, IndexOK, WalOK
<1>7. \A j \in Keys : s.index[j].kind = "Segment" =>
        /\ s.index[j].seg \in s.segs /\ s.index[j].seg \in DOMAIN s.files
        /\ s.index[j].off \in DOMAIN s.files[s.index[j].seg].data[j]
        /\ s.index[j].off \in DOMAIN w.files[s.index[j].seg].data[j]
        /\ w.files[s.index[j].seg].data[j][s.index[j].off]
             = s.files[s.index[j].seg].data[j][s.index[j].off]
  <2> SUFFICES ASSUME NEW j \in Keys, s.index[j].kind = "Segment"
               PROVE  /\ s.index[j].seg \in s.segs /\ s.index[j].seg \in DOMAIN s.files
                      /\ s.index[j].off \in DOMAIN s.files[s.index[j].seg].data[j]
                      /\ s.index[j].off \in DOMAIN w.files[s.index[j].seg].data[j]
                      /\ w.files[s.index[j].seg].data[j][s.index[j].off]
                           = s.files[s.index[j].seg].data[j][s.index[j].off]
    BY ZenonT(30)
  <2>1. /\ s.index[j].seg \in s.segs /\ s.index[j].seg \in DOMAIN s.files
        /\ s.index[j].off \in DOMAIN s.files[s.index[j].seg].data[j]
    BY DEF Sound, Resolves, ShardOK, SegmentsOK
  <2>2. CASE s.index[j].seg = a /\ j = k
    BY <1>4, <1>a, <2>1, <2>2, ZenonT(30)
  <2>3. CASE s.index[j].seg = a /\ j # k
    BY <1>4, <2>1, <2>3, ZenonT(30)
  <2>4. CASE s.index[j].seg # a
    BY <1>3, <2>1, <2>4, ZenonT(30)
  <2> QED
    BY <2>2, <2>3, <2>4, ZenonT(30)
<1>8. Resolves(w)
  BY <1>2, <1>7, ZenonT(30) DEF Resolves
<1>9. \A j \in Keys : Get(w, j) = Get(s, j)
  <2> SUFFICES ASSUME NEW j \in Keys
               PROVE  Get(w, j) = Get(s, j)
    OBVIOUS
  <2>1. CASE s.index[j].kind = "Segment"
    <3>1. Get(w, j) = w.files[s.index[j].seg].data[j][s.index[j].off]
      BY <1>2, <1>7, <2>1, Zenon DEF Get, Deref
    <3>2. Get(s, j) = s.files[s.index[j].seg].data[j][s.index[j].off]
      BY <1>7, <2>1, Zenon DEF Get, Deref
    <3> QED
      BY <1>7, <2>1, <3>1, <3>2, ZenonT(30)
  <2>2. CASE s.index[j].kind # "Segment"
    BY <1>2, <2>2, SMTT(30) DEF Get, Deref
  <2> QED
    BY <2>1, <2>2
<1>10. Evolves(s, w)
  <2>1. \A j \in Keys : w.index[j] = s.index[j] /\ Get(w, j) = Get(s, j)
    BY <1>2, <1>9, Zenon
  <2>2. \A i \in DOMAIN s.files \ s.segs : i \in DOMAIN w.files /\ w.files[i] = s.files[i]
    BY <1>1, <1>3, Zenon
  <2> QED
    BY <1>2, <2>1, <2>2, SameSegmentsEvolve DEF Sound
<1>11. Keeps(s, w)
  BY <1>6, <1>8, <1>9, <1>10 DEF Keeps, Sound, View
<1>12. /\ n \in Nat /\ n \in DOMAIN w.files[a].data[k]
       /\ w.files[a].data[k][n] = v
  BY <1>4, <1>a, SMTT(30)
<1> QED
  BY <1>2, <1>11, <1>12, ZenonT(30) DEF w, n

(* apply_batch of one medium value: segment first, then log, then index.   *)
LEMMA MediumWrite ==
    ASSUME NEW s, Sound(s), View(s) = kv, NEW k \in Keys, NEW v \in Values, NEW due
    PROVE  LET r == StoreMedium(s, k, v, due)
           IN Sound(r) /\ Evolves(s, r) /\ View(r) = [kv EXCEPT ![k] = v]
<1> DEFINE w == AppendToActive(s, k, v)
           n == NextOffset(s, k)
           p == InSegment(s.active, n)
           eff == [Nothing EXCEPT ![k] = p]
           a == WalAppend(w, TxUnit(eff, {}), TRUE, FALSE, due)
           r == UpdateIndex(a, eff)
<1>1. /\ Keeps(s, w)
      /\ w.index = s.index /\ w.active = s.active /\ n \in Nat
      /\ n \in DOMAIN w.files[s.active].data[k]
      /\ w.files[s.active].data[k][n] = v
  BY AppendKeeps, SMTT(30)
<1> HIDE DEF w, n
<1>2. s.active \in Nat /\ w.active \in w.segs
  BY <1>1 DEF Keeps, Sound, ShardOK, SegmentsOK
<1>3. p \in Pointer /\ p # Untouched /\ p.kind = "Segment" /\ p.seg = s.active /\ p.off = n
  BY <1>1, <1>2 DEF InSegment, Pointer, Untouched
<1> HIDE DEF p
<1>4. /\ eff \in Effect /\ Touched(eff) = {k} /\ eff[k] = p
  BY <1>3 DEF Nothing, Effect, Touched
<1> HIDE DEF eff
<1>5. TxUnit(eff, {}) \in Unit
  BY <1>4, TxUnitType, SMTT(30)
<1>6. ShardOK(a) /\ SameRam(a, w)
  BY <1>1, <1>5, WalAppendRam, ZenonT(30) DEF Keeps, Sound
<1>7. Keeps(w, a)
  BY <1>1, <1>6, SameRamKeeps, ZenonT(30) DEF Keeps
<1>8. Keeps(s, a)
  BY <1>1, <1>7, KeepsTransitive, ZenonT(30)
<1> HIDE DEF a
<1>9. /\ ShardOK(r)
      /\ r.index = [j \in Keys |-> IF j \in Touched(eff) THEN eff[j] ELSE a.index[j]]
      /\ r.files = a.files /\ r.segs = a.segs
      /\ r.active = a.active /\ r.next = a.next
  BY <1>4, <1>6, UpdateIndexOK, SMTT(30)
<1> HIDE DEF r
<1>10. r.index[k] = p /\ \A j \in Keys : j # k => r.index[j] = a.index[j]
  BY <1>4, <1>9
<1>11. r.files = w.files /\ r.segs = w.segs /\ a.files = w.files /\ a.segs = w.segs
  BY <1>6, <1>9 DEF SameRam
<1>12. Get(r, k) = v
  <2>1. Get(r, k) = r.files[s.active].data[k][n]
    BY <1>1, <1>2, <1>3, <1>10, <1>11, Zenon DEF Get, Deref
  <2> QED
    BY <1>1, <1>11, <2>1, SMTT(30)
<1>13. \A j \in Keys : j # k => Get(r, j) = Get(a, j)
  BY <1>9, <1>10, ZenonT(30) DEF Get, Deref
<1>14. Resolves(r)
  BY <1>1, <1>2, <1>3, <1>8, <1>10, <1>11, ZenonT(30) DEF Resolves, Keeps, Sound
<1>15. View(r) = [kv EXCEPT ![k] = v]
  <2>1. View(a) = kv
    BY <1>8 DEF Keeps
  <2> QED
    BY <1>12, <1>13, <2>1, ZenonT(30) DEF View
<1>16. Evolves(a, r)
  <2>1. a.active = s.active
    BY <1>1, <1>6 DEF SameRam
  <2> QED
    <3>1. \A j \in Keys : r.index[j].kind = "Segment" =>
            \/ r.index[j] = a.index[j] /\ Get(r, j) = Get(a, j)
            \/ r.index[j].seg = a.active
      BY <1>3, <1>10, <1>13, <2>1, Zenon
    <3>2. \A i \in DOMAIN a.files \ a.segs : i \in DOMAIN r.files /\ r.files[i] = a.files[i]
      BY <1>9, Zenon
    <3> QED
      BY <1>6, <1>9, <3>1, <3>2, SameSegmentsEvolve
<1>17. Evolves(s, r)
  BY <1>8, <1>9, <1>16, EvolvesTransitive, SMTT(30) DEF Keeps, Sound
<1> QED
  BY <1>9, <1>14, <1>15, <1>17, ZenonT(30) DEF Sound, StoreMedium, r, a, eff, p, n, w

-----------------------------------------------------------------------------
(* The inductive invariant.                                                *)

IndInv ==
    TypeOK /\ ReadsLatest /\ PointersResolve /\ MergeConsistent /\ FilesAccounted

(* Reads return values or NoVal.                                           *)
LEMMA ViewType ==
    ASSUME NEW s, Sound(s)
    PROVE  View(s) \in [Keys -> Values \cup {NoVal}]
<1>1. \A k \in Keys : Get(s, k) \in Values \cup {NoVal}
  <2> TAKE k \in Keys
  <2>1. CASE IsLive(s.index[k])
    BY <2>1, GetValue
  <2>2. CASE ~IsLive(s.index[k])
    BY <2>2, ZenonT(30) DEF IsLive, Get, Deref
  <2> QED
    BY <2>1, <2>2
<1> QED
  BY <1>1 DEF View

(* A handler beside a tier merge: what the merge relies on still holds.    *)
LEMMA MergeUndisturbed ==
    ASSUME TypeOK, MergeConsistent, ShardOK(sh'), Evolves(sh, sh'), UNCHANGED merge
    PROVE  MergeConsistent'
<1>1. /\ sh.next \in Nat /\ sh'.next \in Nat /\ sh.next <= sh'.next
      /\ sh.segs \subseteq Nat /\ sh'.segs \subseteq Nat /\ sh.active \in Nat /\ sh'.active \in Nat
  BY SMTT(30) DEF TypeOK, ShardOK, SegmentsOK, Evolves
<1>2. ASSUME merge.phase # "idle"
      PROVE  merge.src \subseteq 0 .. sh'.next - 1 /\ sh'.active \notin merge.src
  BY <1>1, <1>2 DEF MergeConsistent, Evolves
<1>3. ASSUME merge.phase \in {"reserved", "merged"}
      PROVE  merge.target < sh'.next /\ merge.target \notin sh'.segs \cup merge.src
  <2>1. merge.target \in Nat
    BY <1>3 DEF TypeOK, MergeOK
  <2> QED
    BY <1>1, <1>3, <2>1, SMTT(30) DEF MergeConsistent, Evolves
<1>4. ASSUME merge.phase = "merged"
      PROVE  /\ merge.target \in DOMAIN sh'.files
             /\ sh'.files[merge.target].data = merge.data
             /\ \A k \in PointingInto(sh', merge.src) : merge.data[k] = <<Get(sh', k)>>
  <2>1. merge.target \in DOMAIN sh.files \ sh.segs /\ sh.files[merge.target].data = merge.data
    BY <1>4 DEF MergeConsistent
  <2>2. \A k \in PointingInto(sh', merge.src) : merge.data[k] = <<Get(sh', k)>>
    <3> SUFFICES ASSUME NEW k \in Keys, sh'.index[k].kind = "Segment",
                        sh'.index[k].seg \in merge.src
                 PROVE  merge.data[k] = <<Get(sh', k)>>
      BY DEF PointingInto
    <3>1. merge.src \subseteq 0 .. sh.next - 1 /\ sh.active \notin merge.src
      BY <1>4 DEF MergeConsistent
    <3>2. sh'.index[k] = sh.index[k] /\ Get(sh', k) = Get(sh, k)
      BY <1>1, <3>1 DEF Evolves
    <3>3. k \in PointingInto(sh, merge.src)
      BY <3>2 DEF PointingInto
    <3> QED
      BY <1>4, <3>2, <3>3, SMTT(30) DEF MergeConsistent
  <2> QED
    BY <2>1, <2>2 DEF Evolves
<1>5. ASSUME merge.phase = "teardown"
      PROVE  merge.src \cap sh'.segs = {}
  BY <1>1, <1>5 DEF MergeConsistent, Evolves
<1> QED
  BY <1>2, <1>3, <1>4, <1>5, SMTT(30) DEF MergeConsistent

(* ... and the segment files still have their owners.                      *)
LEMMA FilesUndisturbed ==
    ASSUME TypeOK, MergeConsistent, FilesAccounted, ShardOK(sh'), Evolves(sh, sh'),
           UNCHANGED merge
    PROVE  FilesAccounted'
<1>1. MergeFiles \cap sh.segs = {}
  BY DEF MergeFiles, MergeConsistent
<1>2. MergeFiles = DOMAIN sh.files \ sh.segs
  BY <1>1 DEF FilesAccounted
<1>3. MergeFiles' = MergeFiles
  BY DEF MergeFiles
<1>4. sh'.segs \subseteq DOMAIN sh'.files
  BY DEF ShardOK, SegmentsOK
<1>5. /\ \A i \in MergeFiles : i \in DOMAIN sh'.files
      /\ \A i \in DOMAIN sh'.files : i \in sh'.segs \/ i \in MergeFiles
  BY <1>2, Zenon DEF Evolves
<1> QED
  BY <1>3, <1>4, <1>5 DEF FilesAccounted

(* The invariant after a handler that leaves the merge alone.              *)
LEMMA HandlerStep ==
    ASSUME IndInv, Sound(sh'), Evolves(sh, sh'), View(sh') = kv', UNCHANGED merge
    PROVE  IndInv'
<1>1. kv' \in [Keys -> Values \cup {NoVal}]
  BY ViewType
<1>2. MergeConsistent'
  BY MergeUndisturbed DEF IndInv, Sound
<1>4. FilesAccounted'
  BY FilesUndisturbed DEF IndInv, Sound
<1>3. TypeOK'
  BY <1>1 DEF IndInv, TypeOK, MergeOK, Sound
<1> QED
  BY <1>2, <1>3, <1>4 DEF IndInv, ReadsLatest, PointersResolve, Sound

(* A handler that changes no document and leaves the merge alone.          *)
LEMMA KeepsStep ==
    ASSUME IndInv, Keeps(sh, sh'), UNCHANGED <<merge, kv>>
    PROVE  IndInv'
BY HandlerStep DEF Keeps, IndInv, ReadsLatest

(* The invariant, seen from the shard.                                     *)
LEMMA IndInvSound ==
    ASSUME IndInv
    PROVE  Sound(sh) /\ View(sh) = kv /\ kv \in [Keys -> Values \cup {NoVal}]
BY DEF IndInv, TypeOK, ReadsLatest, PointersResolve, Sound

(* Dropping index entries, as hard_delete_keys and the purges do.          *)
LEMMA DropEntries ==
    ASSUME NEW s, Sound(s), NEW K \in SUBSET Keys
    PROVE  LET r == [s EXCEPT !.index = [k \in Keys |-> IF k \in K THEN Absent ELSE @[k]]]
           IN /\ Sound(r) /\ Evolves(s, r)
              /\ View(r) = [k \in Keys |-> IF k \in K THEN NoVal ELSE Get(s, k)]
<1> DEFINE index == [k \in Keys |-> IF k \in K THEN Absent ELSE s.index[k]]
           r == [s EXCEPT !.index = index]
<1>1. index \in [Keys -> Pointer \cup {Absent}]
  BY DEF Sound, ShardOK, IndexOK
<1>2. /\ \A k \in K : index[k].kind = "Absent"
      /\ \A k \in Keys \ K : index[k] = s.index[k]
  BY DEF Absent
<1> HIDE DEF index
<1>3. /\ DOMAIN r = DOMAIN s
      /\ r.index = index /\ r.view = s.view /\ r.count = s.count /\ r.inl = s.inl
      /\ r.files = s.files /\ r.segs = s.segs /\ r.active = s.active /\ r.next = s.next
      /\ r.mode = s.mode /\ r.buf = s.buf /\ r.file = s.file /\ r.nsync = s.nsync
  BY DEF Sound, ShardOK
<1> HIDE DEF r
<1>4. ShardOK(r)
  BY <1>1, <1>3, SMTT(30) DEF Sound, ShardOK, IndexOK, SegmentsOK, WalOK
<1>5. \A k \in Keys : Get(r, k) = IF k \in K THEN NoVal ELSE Get(s, k)
  BY <1>2, <1>3, ZenonT(30) DEF Get, Deref
<1>6. \A k \in Keys : r.index[k].kind = "Segment" => k \notin K /\ r.index[k] = s.index[k]
  BY <1>2, <1>3
<1>7. Resolves(r)
  BY <1>3, <1>6, ResolvesSame, Zenon DEF Sound
<1>8. Evolves(s, r)
  BY <1>3, <1>5, <1>6, SameSegmentsEvolve, Zenon DEF Sound
<1>9. View(r) = [k \in Keys |-> IF k \in K THEN NoVal ELSE Get(s, k)]
  BY <1>5 DEF View
<1> QED
  BY <1>4, <1>7, <1>8, <1>9 DEF Sound, r, index

(* What single puts and deletes write.                                     *)
LEMMA SingleWritten ==
    ASSUME kv \in [Keys -> Values \cup {NoVal}], NEW k \in Keys, NEW v \in Values
    PROVE  Written([Nothing EXCEPT ![k] = Inlined(v)]) = [kv EXCEPT ![k] = v]
BY ZenonT(30) DEF Written, Nothing, Inlined, Untouched

(* What a delete leaves readable.                                          *)
LEMMA DeleteWritten ==
    ASSUME kv \in [Keys -> Values \cup {NoVal}], NEW k \in Keys
    PROVE  Written([Nothing EXCEPT ![k] = Deleted]) = [kv EXCEPT ![k] = NoVal]
BY ZenonT(30) DEF Written, Nothing, Deleted, Untouched

(* A logged write, straight or after a rotation.                           *)
LEMMA WriteStep ==
    ASSUME IndInv, NEW s, Keeps(sh, s), NEW unit \in Unit, NEW remote, NEW due,
           NEW eff, Plain(eff),
           sh' = UpdateIndex(WalAppend(s, unit, TRUE, remote, due), eff),
           kv' = Written(eff), UNCHANGED merge
    PROVE  IndInv'
<1>1. Sound(sh) /\ Sound(s) /\ View(s) = kv /\ Evolves(sh, s)
  BY IndInvSound DEF Keeps
<1>2. Sound(sh') /\ Evolves(s, sh') /\ View(sh') = kv'
  BY <1>1, LoggedWrite, ZenonT(30)
<1>3. Evolves(sh, sh')
  BY <1>1, <1>2, EvolvesTransitive, ZenonT(30) DEF Sound
<1> QED
  BY <1>2, <1>3, HandlerStep

(* Doing nothing changes no document.                                      *)
LEMMA KeepsReflexive ==
    ASSUME NEW s, Sound(s)
    PROVE  Keeps(s, s)
BY EvolvesReflexive DEF Keeps, Sound

(* Purging tombstones changes no document.                                 *)
LEMMA PurgedKeeps ==
    ASSUME NEW s, NEW old, Sound(s)
    PROVE  Keeps(s, Purged(s, old))
<1> DEFINE K == old \cap Tombstones(s)
           r == Purged(s, old)
<1>1. K \in SUBSET Keys /\ \A k \in K : s.index[k] = Deleted
  BY DEF Tombstones
<1>2. r = [s EXCEPT !.index = [k \in Keys |-> IF k \in K THEN Absent ELSE @[k]]]
  BY DEF Purged
<1>3. Deleted.kind = "Deleted"
  BY DEF Deleted
<1>4. \A k \in K : Get(s, k) = NoVal
  BY <1>1, <1>3, ZenonT(30) DEF Get, Deref
<1> HIDE DEF K, r
<1>5. /\ Sound(r) /\ Evolves(s, r)
      /\ View(r) = [k \in Keys |-> IF k \in K THEN NoVal ELSE Get(s, k)]
  BY <1>1, <1>2, DropEntries
<1>6. View(r) = View(s)
  BY <1>4, <1>5 DEF View
<1> QED
  BY <1>5, <1>6 DEF Keeps, r

(* The documents of a shard through any client operation.                  *)
LEMMA ClientStep ==
    ASSUME IndInv, Client
    PROVE  IndInv'
<1>0. /\ Sound(sh) /\ View(sh) = kv /\ kv \in [Keys -> Values \cup {NoVal}]
      /\ Keeps(sh, sh) /\ Keeps(sh, MaybeRotate(sh)) /\ Keeps(sh, ForceRotate(sh))
  BY IndInvSound, KeepsReflexive, RotationKeeps
<1>1. ASSUME NEW b \in Batch, NEW due \in Due, WriteBatch(b, due)
      PROVE  IndInv'
  <2>1. TxUnit(LogEffect(b), b.reput) \in Unit /\ Plain(RamEffect(b))
    BY BatchEffects, TxUnitType DEF Plain
  <2> QED
    BY <1>0, <1>1, <2>1, WriteStep, ZenonT(30) DEF WriteBatch
<1>2. ASSUME NEW b \in Batch, ReplicatedBatch(b)
      PROVE  IndInv'
  <2>1. TxUnit(LogEffect(b), {}) \in Unit /\ Plain(LogEffect(b))
    BY BatchEffects, TxUnitType DEF Plain
  <2> QED
    BY <1>0, <1>2, <2>1, WriteStep, ZenonT(30) DEF ReplicatedBatch
<1>3. ASSUME NEW k \in Keys, NEW v \in Values, NEW due \in Due, PutSmall(k, v, due)
      PROVE  IndInv'
  <2> DEFINE eff == [Nothing EXCEPT ![k] = Inlined(v)]
  <2>1. TxUnit(eff, {}) \in Unit /\ Plain(eff)
    BY SingleEffects, TxUnitType DEF Plain
  <2>2. Written(eff) = [kv EXCEPT ![k] = v]
    BY <1>0, SingleWritten, ZenonT(30)
  <2>3. /\ sh' = UpdateIndex(WalAppend(MaybeRotate(sh), TxUnit(eff, {}), TRUE, FALSE, due), eff)
        /\ kv' = [kv EXCEPT ![k] = v] /\ UNCHANGED merge
    BY <1>3 DEF PutSmall
  <2> HIDE DEF eff
  <2> QED
    BY <1>0, <2>1, <2>2, <2>3, WriteStep, ZenonT(30)
<1>4. ASSUME NEW k \in Keys, NEW v \in Values, NEW due \in Due, PutMedium(k, v, due)
      PROVE  IndInv'
  <2> DEFINE s == MaybeRotate(sh)
  <2>1. sh' = StoreMedium(s, k, v, due) /\ kv' = [kv EXCEPT ![k] = v] /\ UNCHANGED merge
    BY <1>4 DEF PutMedium
  <2>2. Sound(s) /\ View(s) = kv /\ Evolves(sh, s)
    BY <1>0 DEF Keeps
  <2> HIDE DEF s
  <2>3. Sound(sh') /\ Evolves(s, sh') /\ View(sh') = kv'
    BY <2>1, <2>2, MediumWrite
  <2>4. Evolves(sh, sh')
    BY <1>0, <2>2, <2>3, EvolvesTransitive DEF Sound
  <2> QED
    BY <2>1, <2>3, <2>4, HandlerStep
<1>5. ASSUME NEW k \in Keys, NEW v \in Values, NEW due \in Due, PutLarge(k, v, due)
      PROVE  IndInv'
  <2> DEFINE eff == [Nothing EXCEPT ![k] = Inlined(v)]
  <2>1. TxUnit(Nothing, {k}) \in Unit /\ Plain(eff)
    BY SingleEffects, TxUnitType DEF Plain
  <2>2. Written(eff) = [kv EXCEPT ![k] = v]
    BY <1>0, SingleWritten, ZenonT(30)
  <2>3. /\ sh' = UpdateIndex(WalAppend(MaybeRotate(sh), TxUnit(Nothing, {k}), TRUE, FALSE, due),
                            eff)
        /\ kv' = [kv EXCEPT ![k] = v] /\ UNCHANGED merge
    BY <1>5 DEF PutLarge
  <2> HIDE DEF eff
  <2> QED
    BY <1>0, <2>1, <2>2, <2>3, WriteStep, ZenonT(30)
<1>6. ASSUME NEW k \in Keys, NEW due \in Due, Delete(k, due)
      PROVE  IndInv'
  <2> DEFINE eff == [Nothing EXCEPT ![k] = Deleted]
  <2>1. TxUnit(eff, {}) \in Unit /\ Plain(eff)
    BY DeleteEffects, TxUnitType DEF Plain
  <2>2. Written(eff) = [kv EXCEPT ![k] = NoVal]
    BY <1>0, DeleteWritten, ZenonT(30)
  <2>3. /\ sh' = UpdateIndex(WalAppend(MaybeRotate(sh), TxUnit(eff, {}), TRUE, FALSE, due), eff)
        /\ kv' = [kv EXCEPT ![k] = NoVal] /\ UNCHANGED merge
    BY <1>6 DEF Delete
  <2> HIDE DEF eff
  <2> QED
    BY <1>0, <2>1, <2>2, <2>3, WriteStep, ZenonT(30)
<1>7. ASSUME NEW K \in SUBSET Keys, NEW due \in Due, HardDeleteKeys(K, due)
      PROVE  IndInv'
  <2> DEFINE eff == [k \in Keys |-> IF k \in K THEN Deleted ELSE Untouched]
             s == WalAppend(sh, TxUnit(eff, {}), TRUE, FALSE, due)
  <2>1. eff \in Effect
    BY DEF Effect, Pointer
  <2>2. Written(eff) = [k \in Keys |-> IF k \in K THEN NoVal ELSE kv[k]]
    BY DEF Written, Deleted, Untouched
  <2>3. /\ sh' = [s EXCEPT !.index = [k \in Keys |-> IF k \in K THEN Absent ELSE @[k]]]
        /\ kv' = Written(eff) /\ UNCHANGED merge
    BY <1>7 DEF HardDeleteKeys
  <2> HIDE DEF eff
  <2>4. Keeps(sh, s)
    BY <1>0, <2>1, TxUnitType, WalAppendRam, SameRamKeeps, ZenonT(30) DEF Sound
  <2> HIDE DEF s
  <2>5. Sound(s) /\ View(s) = kv /\ Evolves(sh, s) /\ \A k \in Keys : Get(s, k) = kv[k]
    BY <1>0, <2>4 DEF Keeps, View
  <2>6. /\ Sound(sh') /\ Evolves(s, sh')
        /\ View(sh') = [k \in Keys |-> IF k \in K THEN NoVal ELSE Get(s, k)]
    BY <2>3, <2>5, DropEntries
  <2>7. View(sh') = kv'
    BY <2>2, <2>3, <2>5, <2>6
  <2>8. Evolves(sh, sh')
    BY <1>0, <2>5, <2>6, EvolvesTransitive, SMTT(30) DEF Sound
  <2> QED
    BY <2>3, <2>6, <2>7, <2>8, HandlerStep
<1>8. ASSUME PurgeTombstones
      PROVE  IndInv'
  BY <1>0, <1>8, PurgedKeeps, KeepsStep DEF PurgeTombstones
<1>9. ASSUME Flush
      PROVE  IndInv'
  BY <1>0, <1>9, FlushAllKeeps, KeepsStep DEF Flush
<1>10. ASSUME Backup
       PROVE  IndInv'
  <2>1. Keeps(sh, FlushAll(CheckpointInlined(sh)))
    BY <1>0, CheckpointInlinedKeeps, FlushAllKeeps, KeepsTransitive DEF Keeps
  <2> QED
    BY <1>10, <2>1, KeepsStep DEF Backup
<1>11. ASSUME RewriteAndFlush
       PROVE  IndInv'
  <2>1. Keeps(sh, FlushAll(RewriteSnapshot(sh)))
    BY <1>0, WalKeeps, FlushAllKeeps, KeepsTransitive DEF Keeps
  <2> QED
    BY <1>11, <2>1, KeepsStep DEF RewriteAndFlush
<1>12. ASSUME NEW m \in Modes, SetDurabilityMode(m)
       PROVE  IndInv'
  <2> DEFINE r == [sh EXCEPT !.mode = m]
  <2>1. /\ DOMAIN r = DOMAIN sh /\ r.mode = m
        /\ r.index = sh.index /\ r.view = sh.view /\ r.count = sh.count /\ r.inl = sh.inl
        /\ r.files = sh.files /\ r.segs = sh.segs /\ r.active = sh.active /\ r.next = sh.next
        /\ r.buf = sh.buf /\ r.file = sh.file /\ r.nsync = sh.nsync
    BY <1>0 DEF Sound, ShardOK
  <2> HIDE DEF r
  <2>2. \A k \in Keys : Get(r, k) = Get(sh, k)
    BY <2>1 DEF Get, Deref
  <2>3. ShardOK(r)
    BY <1>0, <2>1 DEF Sound, ShardOK, IndexOK, SegmentsOK, WalOK
  <2>4. Resolves(r) /\ View(r) = View(sh)
    BY <1>0, <2>1, <2>2, ResolvesSame, Zenon DEF Sound, View
  <2>5. Evolves(sh, r)
    BY <1>0, <2>1, <2>2, SameSegmentsEvolve, Zenon DEF Sound
  <2> QED
    BY <1>12, <2>3, <2>4, <2>5, KeepsStep, SMTT(30) DEF SetDurabilityMode, Keeps, Sound, r
<1>13. ASSUME NEW bloated \in BOOLEAN, CompactAll(bloated)
       PROVE  IndInv'
  BY <1>0, <1>13, CompactKeeps, KeepsStep DEF CompactAll
<1>14. ASSUME CompactCancelled
       PROVE  IndInv'
  <2> DEFINE r == ForceRotate(sh)
  <2>1. Keeps(r, [r EXCEPT !.next = @ + 1])
    BY <1>0, SkipIdKeeps DEF Keeps
  <2>2. Keeps(sh, [r EXCEPT !.next = @ + 1])
    BY <1>0, <2>1, KeepsTransitive
  <2> QED
    BY <1>0, <1>14, <2>2, KeepsStep DEF CompactCancelled
<1> QED
  BY <1>1, <1>2, <1>3, <1>4, <1>5, <1>6, <1>7, <1>8, <1>9, <1>10, <1>11, <1>12, <1>13, <1>14, SMTT(30)
     DEF Client

(* The commit phase of a tier merge.                                       *)
LEMMA TierCommitStep ==
    ASSUME IndInv, TierCommit
    PROVE  IndInv'
<1> DEFINE K == StillMerged
           t == merge.target
           swapped == [k \in Keys |-> IF k \in K THEN InSegment(t, 1) ELSE sh.index[k]]
           q == [sh EXCEPT !.index = swapped, !.segs = (@ \ merge.src) \cup {t}]
<1>1. Sound(sh) /\ View(sh) = kv
  BY IndInvSound
<1>2. /\ merge.phase = "merged" /\ merge' = [phase |-> "teardown", src |-> merge.src]
      /\ sh' = WalFlush(RewriteSnapshot(q)) /\ UNCHANGED kv
  BY DEF TierCommit
<1>3. /\ t \in Nat /\ merge.src \subseteq Nat
      /\ merge.src \subseteq 0 .. sh.next - 1 /\ sh.active \notin merge.src
      /\ t < sh.next /\ t \notin sh.segs \cup merge.src
      /\ t \in DOMAIN sh.files /\ sh.files[t].data = merge.data
      /\ \A k \in PointingInto(sh, merge.src) : merge.data[k] = <<Get(sh, k)>>
  BY <1>2 DEF IndInv, TypeOK, MergeOK, MergeConsistent
<1>4. K \subseteq Keys /\ \A k \in K : merge.data[k] = <<Get(sh, k)>>
  BY <1>3 DEF StillMerged, PointingInto
<1>5. \A k \in Keys \ K : sh.index[k].kind = "Segment" => sh.index[k].seg \in sh.segs \ merge.src
  <2> SUFFICES ASSUME NEW k \in Keys \ K, sh.index[k].kind = "Segment",
                      sh.index[k].seg \in merge.src
               PROVE  FALSE
    BY <1>1, SMTT(30) DEF Sound, Resolves
  <2>1. k \in PointingInto(sh, merge.src) /\ merge.data[k] = << >>
    BY DEF PointingInto, StillMerged
  <2>2. <<Get(sh, k)>> # << >>
    OBVIOUS
  <2> QED
    BY <1>3, <2>1, <2>2, ZenonT(30)
<1> HIDE DEF K
<1>6. InSegment(t, 1) \in Pointer
  BY <1>3 DEF InSegment, Pointer
<1>7. swapped \in [Keys -> Pointer \cup {Absent}]
  BY <1>1, <1>6, SMTT(30) DEF Sound, ShardOK, IndexOK
<1>8. (\A k \in K : swapped[k] = InSegment(t, 1)) /\ \A k \in Keys \ K : swapped[k] = sh.index[k]
  BY <1>4
<1> HIDE DEF swapped
<1>9. /\ DOMAIN q = DOMAIN sh
      /\ q.index = swapped /\ q.segs = (sh.segs \ merge.src) \cup {t}
      /\ q.view = sh.view /\ q.count = sh.count /\ q.inl = sh.inl
      /\ q.files = sh.files /\ q.active = sh.active /\ q.next = sh.next
      /\ q.mode = sh.mode /\ q.buf = sh.buf /\ q.file = sh.file /\ q.nsync = sh.nsync
  BY <1>1 DEF Sound, ShardOK
<1>10. ShardOK(q)
  <2>1. SegmentsOK(q)
    BY <1>1, <1>3, <1>9 DEF Sound, ShardOK, SegmentsOK
  <2> QED
    BY <1>1, <1>7, <1>9, <2>1, SMTT(30) DEF Sound, ShardOK, IndexOK, WalOK
<1>11. MovedTo(sh, q, K, t)
  BY <1>3, <1>4, <1>5, <1>8, <1>9, SMTT(30) DEF MovedTo
<1>12. Resolves(q) /\ View(q) = View(sh)
  BY <1>1, <1>4, <1>11, MovedKeepsView
<1>13. q.segs \cap merge.src = {} /\ q.active \notin merge.src
  BY <1>3, <1>9
<1> HIDE DEF q
<1>14. Sound(sh') /\ View(sh') = kv' /\ SameRam(sh', q)
  <2>1. ShardOK(RewriteSnapshot(q)) /\ SameRam(RewriteSnapshot(q), q)
    BY <1>10, RewriteSnapshotRam
  <2>2. ShardOK(sh') /\ SameRam(sh', q)
    BY <1>2, <2>1, WalFlushRam, SameRamTransitive
  <2> QED
    BY <1>1, <1>2, <1>10, <1>12, <2>2, SameRamKeeps, SMTT(30) DEF Sound, Keeps
<1>15. MergeConsistent'
  <2>1. merge'.phase = "teardown" /\ merge'.src = merge.src
    BY <1>2
  <2>2. merge'.src \subseteq 0 .. sh'.next - 1 /\ sh'.active \notin merge'.src
    BY <1>3, <1>9, <1>14, <2>1, SMTT(30) DEF SameRam
  <2>3. merge'.src \cap sh'.segs = {}
    BY <1>13, <1>14, <2>1 DEF SameRam
  <2> QED
    BY <2>1, <2>2, <2>3 DEF MergeConsistent
<1>16. MergeOK' /\ kv' \in [Keys -> Values \cup {NoVal}]
  BY <1>2, <1>3, <1>14, ViewType, SMTT(30) DEF MergeOK
<1>17. FilesAccounted'
  <2>1. MergeFiles = {t} /\ MergeFiles' = merge.src
    BY <1>2 DEF MergeFiles
  <2>2. merge.src \subseteq sh.segs
    BY DEF TierCommit, SourcesOk
  <2>3. DOMAIN sh'.files = DOMAIN sh.files /\ sh'.segs = (sh.segs \ merge.src) \cup {t}
    BY <1>9, <1>14 DEF SameRam
  <2>4. DOMAIN sh.files = sh.segs \cup {t}
    BY <2>1 DEF IndInv, FilesAccounted
  <2> QED
    BY <2>1, <2>2, <2>3, <2>4 DEF FilesAccounted
<1> QED
  BY <1>14, <1>15, <1>16, <1>17 DEF IndInv, TypeOK, ReadsLatest, PointersResolve, Sound

(* Two shards that differ in their files only, and in no registered one.   *)
OnlyFiles(s, r) ==
    /\ DOMAIN r = DOMAIN s /\ r.index = s.index /\ r.view = s.view
    /\ r.count = s.count /\ r.inl = s.inl /\ r.segs = s.segs
    /\ r.active = s.active /\ r.next = s.next /\ r.mode = s.mode
    /\ r.buf = s.buf /\ r.file = s.file /\ r.nsync = s.nsync
    /\ DOMAIN r.files \subseteq 0 .. s.next - 1
    /\ \A i \in DOMAIN r.files : r.files[i] \in [level : Nat, data : [Keys -> Seq(Values)]]
    /\ \A i \in s.segs : i \in DOMAIN r.files /\ r.files[i] = s.files[i]

(* Files that are not registered are invisible to reads.                   *)
LEMMA OnlyFilesKeeps ==
    ASSUME NEW s, NEW r, Sound(s), OnlyFiles(s, r)
    PROVE  /\ Sound(r) /\ View(r) = View(s)
           /\ \A k \in Keys : Get(r, k) = Get(s, k)
<1>1. ShardOK(r)
  BY DEF OnlyFiles, Sound, ShardOK, IndexOK, SegmentsOK, WalOK
<1>2. \A k \in Keys : Get(r, k) = Get(s, k)
  BY GetSame, ZenonT(30) DEF OnlyFiles, Sound, Resolves, ShardOK, SegmentsOK
<1>3. Resolves(r)
  BY ResolvesSame, Zenon DEF OnlyFiles, Sound
<1> QED
  BY <1>1, <1>2, <1>3 DEF Sound, View

(* Phase 2: the target is written beside the registered segments.          *)
LEMMA TierMergeStep ==
    ASSUME IndInv, TierMerge
    PROVE  IndInv'
<1> DEFINE K == PointingInto(sh, merge.src \cap sh.segs)
           data == Collected(sh, K)
           t == merge.target
<1>1. Sound(sh) /\ View(sh) = kv /\ kv \in [Keys -> Values \cup {NoVal}]
  BY IndInvSound
<1>2. /\ merge.phase = "reserved"
      /\ sh' = [sh EXCEPT !.files = Extend(@, t, Segment(merge.level + 1, data))]
      /\ merge' = [phase |-> "merged", level |-> merge.level, src |-> merge.src,
                    target |-> merge.target, data |-> data]
      /\ kv' = kv
  BY DEF TierMerge
<1>3. /\ t \in Nat /\ merge.src \subseteq Nat /\ merge.level \in Nat
      /\ merge.src \subseteq 0 .. sh.next - 1 /\ sh.active \notin merge.src
      /\ t < sh.next /\ t \notin sh.segs \cup merge.src
  BY <1>2 DEF IndInv, TypeOK, MergeOK, MergeConsistent
<1>4. K = PointingInto(sh, merge.src)
  BY <1>1 DEF PointingInto, Sound, Resolves
<1>5. data \in [Keys -> Seq(Values)]
  BY <1>1, CollectedData DEF PointingInto, IsLive
<1>6. \A k \in PointingInto(sh, merge.src) : data[k] = <<Get(sh, k)>>
  BY <1>4 DEF Collected, PointingInto
<1> HIDE DEF data, K
<1> DEFINE seg == Segment(merge.level + 1, data)
<1>7. seg \in [level : Nat, data : [Keys -> Seq(Values)]] /\ seg.data = data
  BY <1>3, <1>5, SegmentType
<1> HIDE DEF seg
<1>8. /\ sh'.files = Extend(sh.files, t, seg)
      /\ DOMAIN sh' = DOMAIN sh /\ sh'.index = sh.index /\ sh'.view = sh.view
      /\ sh'.count = sh.count /\ sh'.inl = sh.inl /\ sh'.segs = sh.segs
      /\ sh'.active = sh.active /\ sh'.next = sh.next /\ sh'.mode = sh.mode
      /\ sh'.buf = sh.buf /\ sh'.file = sh.file /\ sh'.nsync = sh.nsync
  BY <1>1, <1>2 DEF Sound, ShardOK, seg
<1>9. /\ DOMAIN sh'.files = DOMAIN sh.files \cup {t} /\ sh'.files[t] = seg
      /\ \A i \in DOMAIN sh.files \ {t} : sh'.files[i] = sh.files[i]
  BY <1>8 DEF Extend
<1>10. OnlyFiles(sh, sh')
  <2>1. /\ sh.next \in Nat /\ DOMAIN sh.files \subseteq 0 .. sh.next - 1
        /\ sh.segs \subseteq DOMAIN sh.files
        /\ \A i \in DOMAIN sh.files :
             sh.files[i] \in [level : Nat, data : [Keys -> Seq(Values)]]
    BY <1>1 DEF Sound, ShardOK, SegmentsOK
  <2>2. DOMAIN sh'.files \subseteq 0 .. sh.next - 1
    BY <1>3, <1>9, <2>1
  <2>3. \A i \in DOMAIN sh'.files :
          sh'.files[i] \in [level : Nat, data : [Keys -> Seq(Values)]]
    BY <1>7, <1>9, <2>1, Zenon
  <2>4. \A i \in sh.segs : i \in DOMAIN sh'.files /\ sh'.files[i] = sh.files[i]
    BY <1>3, <1>9, <2>1, Zenon
  <2> QED
    BY <1>8, <2>2, <2>3, <2>4, Zenon DEF OnlyFiles
<1>11. Sound(sh') /\ View(sh') = kv' /\ \A k \in Keys : Get(sh', k) = Get(sh, k)
  BY <1>1, <1>2, <1>10, OnlyFilesKeeps
<1>12. /\ merge'.phase = "merged" /\ merge'.src = merge.src /\ merge'.target = t
       /\ merge'.data = data
  BY <1>2
<1>13. PointingInto(sh', merge.src) = PointingInto(sh, merge.src)
  BY <1>8 DEF PointingInto
<1>14. \A k \in PointingInto(sh', merge'.src) : merge'.data[k] = <<Get(sh', k)>>
  BY <1>6, <1>11, <1>12, <1>13 DEF PointingInto
<1>15. MergeConsistent'
  BY <1>3, <1>7, <1>8, <1>9, <1>12, <1>14, SMTT(30) DEF MergeConsistent
<1>16. MergeOK'
  BY <1>2, <1>3, <1>5 DEF MergeOK
<1>17. FilesAccounted'
  <2>1. MergeFiles = {} /\ MergeFiles' = {t}
    BY <1>2, <1>12 DEF MergeFiles
  <2>2. DOMAIN sh.files = sh.segs
    BY <2>1 DEF IndInv, FilesAccounted
  <2> QED
    BY <1>8, <1>9, <2>1, <2>2 DEF FilesAccounted
<1> QED
  BY <1>1, <1>2, <1>11, <1>15, <1>16, <1>17 DEF IndInv, TypeOK, ReadsLatest, PointersResolve, Sound

(* Removing files of unregistered segments.                                *)
LEMMA RemoveFiles ==
    ASSUME NEW s, NEW r, NEW ids, Sound(s), ids \cap s.segs = {},
           DOMAIN r = DOMAIN s, r.files = Without(s.files, ids), r.index = s.index,
           r.view = s.view, r.count = s.count, r.inl = s.inl, r.segs = s.segs,
           r.active = s.active, r.next = s.next, r.mode = s.mode,
           r.buf = s.buf, r.file = s.file, r.nsync = s.nsync
    PROVE  Sound(r) /\ View(r) = View(s)
<1>1. /\ DOMAIN r.files = DOMAIN s.files \ ids
      /\ \A i \in DOMAIN r.files : r.files[i] = s.files[i]
  BY DEF Without
<1>2. OnlyFiles(s, r)
  BY <1>1 DEF OnlyFiles, Sound, ShardOK, SegmentsOK
<1> QED
  BY <1>2, OnlyFilesKeeps

(* An invariant shard with no merge under way.                             *)
LEMMA IdleInv ==
    ASSUME Sound(sh'), View(sh') = kv', merge' = [phase |-> "idle"],
           DOMAIN sh'.files = sh'.segs
    PROVE  IndInv'
<1>1. kv' \in [Keys -> Values \cup {NoVal}]
  BY ViewType
<1>2. MergeOK' /\ MergeConsistent' /\ FilesAccounted'
  BY DEF MergeOK, MergeConsistent, FilesAccounted, MergeFiles
<1> QED
  BY <1>1, <1>2 DEF IndInv, TypeOK, ReadsLatest, PointersResolve, Sound

(* The periodic tick: flush, rotate, spill, purge.                         *)
LEMMA MaintainStep ==
    ASSUME IndInv, NEW due, NEW deferHeavy, NEW old, Maintain(due, deferHeavy, old)
    PROVE  IndInv'
<1> DEFINE f == IF due THEN WalFlush(sh) ELSE sh
           r == MaybeRotate(f)
           c == CheckpointInlined(r)
<1>1. Sound(sh)
  BY IndInvSound
<1>2. Sound(f) /\ Keeps(sh, f)
  BY <1>1, WalKeeps, KeepsReflexive DEF Keeps
<1>3. sh' = (IF deferHeavy THEN r ELSE Purged(c, old)) /\ UNCHANGED <<merge, kv>>
  BY DEF Maintain
<1> HIDE DEF f
<1>4. Sound(r) /\ Keeps(sh, r)
  BY <1>1, <1>2, RotationKeeps, KeepsTransitive DEF Keeps
<1> HIDE DEF r
<1>5. Sound(c) /\ Keeps(sh, c)
  BY <1>1, <1>4, CheckpointInlinedKeeps, KeepsTransitive DEF Keeps
<1> HIDE DEF c
<1>6. Keeps(sh, Purged(c, old))
  BY <1>1, <1>5, PurgedKeeps, KeepsTransitive
<1> QED
  BY <1>3, <1>4, <1>6, KeepsStep

(* Phase 1: the sources are immutable, the target id is fresh.             *)
LEMMA TierPrepStep ==
    ASSUME IndInv, NEW s1, NEW s2, TierPrep(s1, s2)
    PROVE  IndInv'
<1>1. Sound(sh) /\ View(sh) = kv /\ kv \in [Keys -> Values \cup {NoVal}]
  BY IndInvSound
<1>2. /\ {s1, s2} \subseteq sh.segs \ {sh.active} /\ kv' = kv
      /\ merge' = [phase |-> "reserved", level |-> sh.files[s1].level, src |-> {s1, s2},
                    target |-> sh.next]
      /\ sh' = [sh EXCEPT !.next = @ + 1]
  BY DEF TierPrep
<1>3. Sound(sh') /\ View(sh') = kv'
  BY <1>1, <1>2, SkipIdKeeps DEF Keeps
<1>4. /\ sh'.next = sh.next + 1 /\ sh'.segs = sh.segs /\ sh'.active = sh.active
      /\ sh'.files = sh.files
  BY <1>1, <1>2 DEF Sound, ShardOK
<1>5. /\ sh.next \in Nat /\ sh.segs \subseteq 0 .. sh.next - 1
      /\ sh.files[s1].level \in Nat
  BY <1>1, <1>2 DEF Sound, ShardOK, SegmentsOK
<1>6. MergeOK'
  BY <1>2, <1>5 DEF MergeOK
<1>7. merge'.phase = "reserved" /\ merge'.src = {s1, s2} /\ merge'.target = sh.next
  BY <1>2
<1>8. MergeConsistent'
  BY <1>2, <1>4, <1>5, <1>7 DEF MergeConsistent
<1>9. FilesAccounted'
  <2>1. MergeFiles = {} /\ MergeFiles' = {}
    BY <1>7 DEF MergeFiles, TierPrep
  <2> QED
    BY <1>4, <2>1 DEF IndInv, FilesAccounted
<1> QED
  BY <1>1, <1>2, <1>3, <1>6, <1>8, <1>9 DEF IndInv, TypeOK, ReadsLatest, PointersResolve, Sound

(* Every step of the system thread.                                        *)
LEMMA SystemThreadStep ==
    ASSUME IndInv, SystemThread
    PROVE  IndInv'
<1>0. Sound(sh) /\ View(sh) = kv
  BY IndInvSound
<1>1. CASE \E due \in Due, deferHeavy \in BOOLEAN, old \in SUBSET Tombstones(sh) :
              Maintain(due, deferHeavy, old)
  BY <1>1, MaintainStep
<1>2. CASE \E s1, s2 \in sh.segs : TierPrep(s1, s2)
  BY <1>2, TierPrepStep
<1>3. CASE TierMerge
  BY <1>3, TierMergeStep
<1>4. CASE TierMergeFails
  <2>1. merge.phase = "reserved" /\ merge' = [phase |-> "idle"] /\ sh' = sh /\ kv' = kv
    BY <1>4 DEF TierMergeFails
  <2>2. DOMAIN sh.files = sh.segs
    BY <2>1 DEF IndInv, FilesAccounted, MergeFiles
  <2> QED
    BY <1>0, <2>1, <2>2, IdleInv
<1>5. CASE TierCommit
  BY <1>5, TierCommitStep
<1>6. CASE TierAbort
  <2>1. merge.phase = "merged" /\ sh' = [sh EXCEPT !.files = Without(@, {merge.target})]
        /\ merge' = [phase |-> "idle"] /\ kv' = kv
    BY <1>6 DEF TierAbort
  <2>2. {merge.target} \cap sh.segs = {}
    BY <2>1 DEF IndInv, MergeConsistent
  <2>3. /\ sh'.files = Without(sh.files, {merge.target})
        /\ DOMAIN sh' = DOMAIN sh /\ sh'.index = sh.index /\ sh'.view = sh.view
        /\ sh'.count = sh.count /\ sh'.inl = sh.inl /\ sh'.segs = sh.segs
        /\ sh'.active = sh.active /\ sh'.next = sh.next /\ sh'.mode = sh.mode
        /\ sh'.buf = sh.buf /\ sh'.file = sh.file /\ sh'.nsync = sh.nsync
    BY <1>0, <2>1 DEF Sound, ShardOK
  <2>4. Sound(sh') /\ View(sh') = View(sh)
    BY <1>0, <2>2, <2>3, RemoveFiles
  <2>5. DOMAIN sh'.files = sh'.segs
    BY <2>1, <2>2, <2>3 DEF IndInv, FilesAccounted, MergeFiles, Without
  <2> QED
    BY <1>0, <2>1, <2>4, <2>5, IdleInv
<1>7. CASE TierTeardown
  <2>1. /\ merge.phase = "teardown" /\ merge' = [phase |-> "idle"] /\ kv' = kv
        /\ sh' = [sh EXCEPT !.files = Without(@, merge.src),
                            !.dirty = {d \in @ : d[1] \notin merge.src}]
    BY <1>7 DEF TierTeardown
  <2>2. merge.src \cap sh.segs = {}
    BY <2>1 DEF IndInv, MergeConsistent
  <2>3. /\ sh'.files = Without(sh.files, merge.src)
        /\ DOMAIN sh' = DOMAIN sh /\ sh'.index = sh.index /\ sh'.view = sh.view
        /\ sh'.count = sh.count /\ sh'.inl = sh.inl /\ sh'.segs = sh.segs
        /\ sh'.active = sh.active /\ sh'.next = sh.next /\ sh'.mode = sh.mode
        /\ sh'.buf = sh.buf /\ sh'.file = sh.file /\ sh'.nsync = sh.nsync
    BY <1>0, <2>1 DEF Sound, ShardOK
  <2>4. Sound(sh') /\ View(sh') = View(sh)
    BY <1>0, <2>2, <2>3, RemoveFiles
  <2>5. DOMAIN sh'.files = sh'.segs
    BY <2>1, <2>2, <2>3 DEF IndInv, FilesAccounted, MergeFiles, Without
  <2> QED
    BY <1>0, <2>1, <2>4, <2>5, IdleInv
<1> QED
  BY <1>1, <1>2, <1>3, <1>4, <1>5, <1>6, <1>7, SMTT(30) DEF SystemThread

(* A freshly created shard.                                                *)
LEMMA InitInv ==
    ASSUME Init
    PROVE  IndInv
<1>1. /\ DOMAIN sh = {"index", "view", "count", "inl", "files", "segs", "dirty", "active",
                      "next", "mode", "buf", "file", "nsync", "stale"}
      /\ sh.index = [k \in Keys |-> Absent] /\ sh.view = {} /\ sh.count = 0 /\ sh.inl = 0
      /\ sh.files = [i \in {0} |-> EmptySegment] /\ sh.segs = {0} /\ sh.active = 0
      /\ sh.next = 1 /\ sh.mode \in Modes /\ sh.buf = << >> /\ sh.file = << >>
      /\ sh.nsync = 0
  BY DEF Init
<1>2. IndexOK(sh)
  BY <1>1 DEF IndexOK
<1>3. SegmentsOK(sh)
  BY <1>1, EmptySegmentType DEF SegmentsOK
<1>4. WalOK(sh)
  BY <1>1 DEF WalOK
<1>5. \A k \in Keys : sh.index[k].kind = "Absent" /\ Get(sh, k) = NoVal
  BY <1>1 DEF Absent, Get, Deref
<1>6. Resolves(sh) /\ View(sh) = kv /\ kv \in [Keys -> Values \cup {NoVal}]
  BY <1>5, ZenonT(30) DEF Resolves, View, Init
<1>7. MergeOK /\ MergeConsistent /\ FilesAccounted
  BY <1>1 DEF Init, MergeOK, MergeConsistent, FilesAccounted, MergeFiles
<1> QED
  BY <1>1, <1>2, <1>3, <1>4, <1>6, <1>7, SMTT(30)
     DEF IndInv, TypeOK, ShardOK, ReadsLatest, PointersResolve

-----------------------------------------------------------------------------
(* IndInv is an invariant of the shard.                                    *)
THEOREM Invariance == Spec => []IndInv
<1>1. Init => IndInv
  BY InitInv
<1>2. IndInv /\ [Next]_vars => IndInv'
  <2> SUFFICES ASSUME IndInv, [Next]_vars
               PROVE  IndInv'
    OBVIOUS
  <2>1. CASE Client
    BY <2>1, ClientStep
  <2>2. CASE SystemThread
    BY <2>2, SystemThreadStep
  <2>3. CASE UNCHANGED vars
    BY <2>3, IndInvSound, KeepsReflexive, KeepsStep DEF vars
  <2> QED
    BY <2>1, <2>2, <2>3 DEF Next
<1> QED
  BY <1>1, <1>2, PTL DEF Spec

(* The shard and the locals of its tier merge keep their types, the active *)
(* segment stays registered, and next_segment_id stays above every id.     *)
THEOREM TypeCorrect == Spec => []TypeOK
BY Invariance, PTL DEF IndInv

(* Whatever the spills, rotations, compactions, tier merges and writes of  *)
(* any number of documents interleave to, a read returns the last write.   *)
THEOREM ReadsCorrect == Spec => []ReadsLatest
BY Invariance, PTL DEF IndInv

(* No pointer of the index dangles: its segment is registered and holds    *)
(* the offset.                                                             *)
THEOREM PointersCorrect == Spec => []PointersResolve
BY Invariance, PTL DEF IndInv

(* What a tier merge relies on between its phases holds beside every       *)
(* handler that can run while the lock is released.                        *)
THEOREM MergeCorrect == Spec => []MergeConsistent
BY Invariance, PTL DEF IndInv

(* Every segment file has an owner that finds it: a merge whose sources a  *)
(* full compaction ate leaves no target behind, a committed one deletes    *)
(* exactly the files it took over.                                         *)
THEOREM FilesCorrect == Spec => []FilesAccounted
BY Invariance, PTL DEF IndInv

=============================================================================
