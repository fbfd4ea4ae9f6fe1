------------------------------- MODULE Filters -------------------------------
(***************************************************************************)
(* The item filters of plasma's MVCC layer (src/plasma/mvcc.go): the       *)
(* rollbackFilter, the snFilter of snapshot iterators and the gcFilter of   *)
(* the compactor.  Each is an object whose Process method is called once    *)
(* per item of the sorted stream that page collection produces, keeps a     *)
(* little state between calls (the skip latch, the pending delete) and     *)
(* returns zero, one or two items.  Here Process is a step function from    *)
(* the filter's state and an item to the next state, and a filter run is    *)
(* a FoldLeft of it over the stream.                                       *)
(*                                                                         *)
(* An item is [k |-> key, sn |-> seqno, ins |-> insert?]; keys are         *)
(* positive integers.  A rollback interval is [start |-> a, end |-> b].    *)
(***************************************************************************)
EXTENDS Integers, Sequences, SequencesExt, TLC

\* The nil *item of gcFilter.skipItm (keys are positive).
NoItm == [k |-> 0, sn |-> 0, ins |-> TRUE]

(***************************************************************************)
(* The item order of the stream: key ascending, then sn descending.  The    *)
(* page's sorter is sort.Stable, so items that compare equal keep their     *)
(* order in the chain, newest first.                                       *)
(***************************************************************************)
ItemBefore(a, b) == a.k < b.k \/ (a.k = b.k /\ a.sn > b.sn)

\* The items of a chain (newest first) in the order collection yields them.
Stream(chain) ==
    LET ix == SortSeq([i \in DOMAIN chain |-> i],
                      LAMBDA i, j : \/ ItemBefore(chain[i], chain[j])
                                    \/ ~ItemBefore(chain[j], chain[i]) /\ i < j)
    IN [n \in DOMAIN ix |-> chain[ix[n]]]

\* rollbackFilter.Process: the item is dropped when its sn is in an interval.
RbDrop(rbs, it) == \E f \in rbs : it.sn >= f.start /\ it.sn <= f.end

(***************************************************************************)
(* snFilter.Process for snapshot sn.  An item the rollbackFilter drops      *)
(* leaves the latch alone.  A set latch, or an item newer than the         *)
(* snapshot, clears it and drops the item; a delete sets it; an insert is  *)
(* returned.                                                               *)
(***************************************************************************)
SnProcess(sn, rbs, acc, it) ==
    CASE RbDrop(rbs, it) -> acc
      [] acc.skip \/ it.sn > sn -> [acc EXCEPT !.skip = FALSE]
      [] ~it.ins -> [acc EXCEPT !.skip = TRUE]
      [] OTHER -> [acc EXCEPT !.out = Append(@, it)]

\* What a snapshot iterator with a fresh snFilter{sn: sn} returns of a stream.
SnFilter(sn, rbs, st) ==
    FoldLeft(LAMBDA acc, it : SnProcess(sn, rbs, acc, it), [skip |-> FALSE, out |-> << >>], st).out

(***************************************************************************)
(* gcFilter.findInterval and inInterval over the boundaries iv (1-based):  *)
(* the interval i with iv[i] < sn <= iv[i + 1], and whether another sn is  *)
(* strictly inside it.  The loop of findInterval takes the first such i.   *)
(***************************************************************************)
FindInterval(iv, sn) ==
    LET I == {i \in 1 .. Len(iv) - 1 : sn > iv[i] /\ sn <= iv[i + 1]}
    IN IF I = {} THEN {} ELSE {CHOOSE i \in I : \A j \in I : i <= j}

InInterval(iv, i, sn) == sn > iv[i] /\ sn < iv[i + 1]

(***************************************************************************)
(* gcFilter.Process.  An item the rollbackFilter drops is gone and leaves   *)
(* the pending delete alone.  Otherwise the pending delete is taken out;   *)
(* a delete becomes the new pending one and is held back.  An insert after *)
(* a pending delete of the same sn, or of an sn inside the delete's        *)
(* interval, is dropped with it; otherwise both are returned.              *)
(***************************************************************************)
GcProcess(iv, rbs, acc, it) ==
    CASE RbDrop(rbs, it) -> acc
      [] ~it.ins -> [skipItm |-> it, out |-> acc.out]
      [] acc.skipItm = NoItm -> [skipItm |-> NoItm, out |-> Append(acc.out, it)]
      [] acc.skipItm.sn = it.sn -> [skipItm |-> NoItm, out |-> acc.out]
      [] \E i \in FindInterval(iv, acc.skipItm.sn) : InInterval(iv, i, it.sn) ->
            [skipItm |-> NoItm, out |-> acc.out]
      [] OTHER -> [skipItm |-> NoItm, out |-> acc.out \o << acc.skipItm, it >>]

\* What a compaction through a fresh gcFilter{snIntervals: iv} keeps of a stream.
GcFilter(iv, rbs, st) ==
    FoldLeft(LAMBDA acc, it : GcProcess(iv, rbs, acc, it), [skipItm |-> NoItm, out |-> << >>], st).out

(***************************************************************************)
(* The reference (spec 4.G, snFilter): of each key's versions that survive *)
(* the rollback intervals and are not newer than the snapshot, the newest  *)
(* is returned if it is an insert; the key is absent if it is a delete.    *)
(* Positions are used, not items, since two versions can be equal records. *)
(***************************************************************************)
Qualifies(rbs, sn, it) == it.sn <= sn /\ ~RbDrop(rbs, it)

RefView(sn, rbs, st) ==
    LET ix == SelectSeq([i \in DOMAIN st |-> i],
                        LAMBDA i : /\ st[i].ins
                                   /\ Qualifies(rbs, sn, st[i])
                                   /\ \A j \in 1 .. i - 1 :
                                         st[j].k = st[i].k => ~Qualifies(rbs, sn, st[j]))
    IN [n \in DOMAIN ix |-> st[ix[n]]]

=============================================================================
