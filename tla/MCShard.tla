------------------------------ MODULE MCShard ------------------------------
(* Instances of Shard for model checking.                                  *)
EXTENDS Shard, TLC

Sym == Permutations(Keys) \cup Permutations(Values)

(* What the properties and the guards of Shard read.  How much of the log  *)
(* is buffered, written or synced, and so the mode, feeds back into none   *)
(* of it, and of a key's records only the last one counts: states that     *)
(* differ elsewhere are explored once.                                     *)
LastRecord(k) ==
    LET log == Log(sh)
        T == {i \in DOMAIN log : Touches(log[i], k)}
    IN {<<log[i].eff[k], k \in log[i].skip>> : i \in {i \in T : \A j \in T : j <= i}}

Ram == <<sh.index, sh.view, sh.count, sh.inl, sh.files, sh.segs, sh.active, sh.next,
         Len(Log(sh)), [k \in Keys |-> LastRecord(k)], merge, kv>>

=============================================================================
