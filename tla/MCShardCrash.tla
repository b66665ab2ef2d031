---------------------------- MODULE MCShardCrash ----------------------------
(* Instances of ShardCrash for model checking.                             *)
EXTENDS ShardCrash

Sym == Permutations(Keys) \cup Permutations(Values)

(* States that no later step and no crash tells apart are explored once.   *)
(* The synced prefix of a log counts by what it replays to, ...            *)
LogView(e) ==
    <<Len(e.file), [k \in Keys |-> Replayed(SubSeq(e.file, 1, e.nsync), k)],
      SubSeq(e.file, e.nsync + 1, Len(e.file))>>

(* ... a segment value only while the index or a log points to it, apart   *)
(* from whether the segment is empty (with SegCap = 1 that is whether the  *)
(* next put rotates), ...                                                  *)
SegmentView(f) == [i \in DOMAIN f |-> <<f[i].level, \E k \in Keys : f[i].data[k] # << >>>>]

Referenced(f) ==
    LET units == Units
    IN [k \in Keys |->
          {<<p, f[p.seg].data[k][p.off]>> :
             p \in {p \in {sh.index[k]} \cup {u.eff[k] : u \in units} :
                      /\ p.kind = "Segment" /\ p.seg \in DOMAIN f
                      /\ p.off \in DOMAIN f[p.seg].data[k]}}]

(* ... and the commits before the last synced one only by their number.   *)
(* The sorted view feeds back into nothing, nor does inl: with             *)
(* MaxInlined = 1 the spill asks only whether a document is inlined.  With *)
(* MaxDrift = 0 the count is the number of live documents of the index.    *)
(* The first component makes TLC evaluate sh.files before it stores a      *)
(* state.                                                                  *)
Disk == <<sh.files = [i \in DOMAIN sh.files |-> sh.files[i]],
          SegmentView(sh.files), Referenced(sh.files),
          sh.index, sh.segs, sh.dirty, sh.active, sh.next, sh.mode,
          sh.buf, LogView(sh), {LogView(e) : e \in sh.stale},
          merge, kv, Len(hist), SubSeq(hist, durable, Len(hist)),
          staged, opening, crashes>>

=============================================================================
