------------------------------ MODULE MVCCItems ------------------------------
(***************************************************************************)
(* The items of plasma's MVCC layer, composed with its control surface     *)
(* (module MVCC): what InsertKV and DeleteKV write into a page, the       *)
(* rollback intervals Rollback lays on it, what a snapshot iterator reads  *)
(* through its snFilter, and what a compaction keeps through its gcFilter. *)
(*                                                                         *)
(* InsertKV/DeleteKV (mvcc.go:247-269) load the sn, build the item, bump   *)
(* w.count (load, then store: module MVCC) and only then w.Insert the item *)
(* into its page.  A delete is an item of its own with the delete flag.    *)
(* The items of one key range are one page; chain is its items newest     *)
(* first, and collection yields Stream(chain).  Rollback prepends a        *)
(* rollbackDelta{[rollRP.sn + 1, currSn]} to every page: rbs is the set of *)
(* those intervals.  The sn a writer loads is currSn (spec 4.G: the        *)
(* writer's last-observed currSn, here the freshest).                      *)
(*                                                                         *)
(* InsertKV and DeleteKV check nothing: a writer may insert a key that is  *)
(* present and delete one that is absent.  The compactor and the           *)
(* boundaries it passes to gcFilter are not under src/ and follow the spec *)
(* (4.G: the boundaries of the live snapshots), the sns the GC keeps       *)
(* (rpSns) included.                                                       *)
(***************************************************************************)
EXTENDS MVCC, Filters

CONSTANTS
    ItemKeys   \* the keys writers use: a small set of positive integers

ASSUME ItemKeysAssumption == ItemKeys \subseteq Nat \ {0} /\ ItemKeys # {}

VARIABLES
    chain,   \* the page's items, newest first (its deltas, then its base page)
    rbs,     \* the rollback intervals of the page's rollbackDeltas
    pend     \* pend[w]: the item writer w has built and not yet inserted

itemVars == <<chain, rbs, pend>>
allVars == <<vars, itemVars>>

Item == [k : ItemKeys, sn : SN, ins : BOOLEAN]

ItemsTypeOK ==
    /\ MVCCTypeOK
    /\ chain \in Seq(Item)
    /\ rbs \subseteq [start : Nat, end : SN]
    /\ pend \in [Writers -> Item \cup {NoItm}]

ItemsInit ==
    /\ MVCCInit
    /\ chain = << >>
    /\ rbs = {}
    /\ pend = [w \in Writers |-> NoItm]

\* The snapshots that callers, iterators and the list still reference.
LiveSns == {s \in SN : refCount[s] > 0}

\* gcFilter.snIntervals (spec 4.G): 0, the live snapshots and rpSns, sorted.
GcBounds == SetToSortSeq({0} \cup LiveSns \cup Range(rpSns), LAMBDA a, b : a < b)

\* What a snapshot iterator on snapshot s reads of the page.
View(s) == SnFilter(s, rbs, Stream(chain))

(***************************************************************************)
(* InsertKV (d = 1) or DeleteKV (d = -1) of key k by writer w: the sn is   *)
(* loaded and the item built together with the load of w.count (module    *)
(* MVCC's WriterLoad); w.Insert follows the store of w.count.              *)
(***************************************************************************)
ItemLoad(w, d, k) ==
    /\ pend[w] = NoItm
    /\ WriterLoad(w, d)
    /\ pend' = [pend EXCEPT ![w] = [k |-> k, sn |-> currSn, ins |-> d = 1]]
    /\ UNCHANGED <<chain, rbs>>

\* w.Insert(itm): the recordDelta is prepended to the page.
ItemInsert(w) ==
    /\ pend[w] # NoItm
    /\ wpc[w] = "idle"
    /\ chain' = << pend[w] >> \o chain
    /\ pend' = [pend EXCEPT ![w] = NoItm]
    /\ UNCHANGED <<vars, rbs>>

(***************************************************************************)
(* Rollback(rollRP): MVCC's Rollback, and the page walk's pg.Rollback(start,*)
(* end) with start = rollRP.sn + 1 and end = currSn read under the lock    *)
(* before newSnapshot.                                                     *)
(***************************************************************************)
ItemsRollback(i) ==
    LET rp == recoveryPoints[i] IN
    /\ Rollback(rp)
    /\ rbs' = rbs \cup {[start |-> rp.sn + 1, end |-> currSn]}
    /\ UNCHANGED <<chain, pend>>

\* A compaction of the page through gcFilter (spec 4.G); the result is its base page.
GcCompact ==
    /\ chain' = GcFilter(GcBounds, rbs, Stream(chain))
    /\ UNCHANGED <<vars, rbs, pend>>

\* RemoveRecoveryPoint, which may run while a CreateRecoveryPoint is between its phases.
ItemsRemoveRP(r) ==
    /\ RemoveRecoveryPoint(r)
    /\ UNCHANGED itemVars

ItemsNext ==
    \/ MVCCNewSnapshot /\ UNCHANGED itemVars
    \/ \E s \in SN : (CallerOpen(s) \/ CallerClose(s) \/ CloserGcAdvance(s) \/ ChildClose(s)) /\ UNCHANGED itemVars
    \/ \E w \in Writers :
          \/ \E k \in ItemKeys : ItemLoad(w, 1, k) \/ ItemLoad(w, -1, k)
          \/ WriterStore(w) /\ UNCHANGED itemVars
          \/ ItemInsert(w)
    \/ \E p \in Procs :
          \/ (\E s \in SN : CRPPrepare(p, s)) /\ UNCHANGED itemVars
          \/ (CRPClose(p) \/ CRPCommit(p)) /\ UNCHANGED itemVars
    \/ \E r \in RPSnSet(recoveryPoints) : ItemsRemoveRP(r)
    \/ \E i \in DOMAIN recoveryPoints : ItemsRollback(i)
    \/ GcCompact

ItemsSpec == ItemsInit /\ [][ItemsNext]_allVars

-----------------------------------------------------------------------------
(***************************************************************************)
(* Properties.                                                             *)
(***************************************************************************)

(***************************************************************************)
(* What a snapshot iterator returns, with the skip latch of snFilter and   *)
(* the rollbackFilter before it, is the spec's reading (4.G) of every      *)
(* snapshot: each key's newest surviving version at or below the snapshot *)
(* if it is an insert, nothing if it is a delete, on every page the        *)
(* writers, Rollbacks and GC compactions can produce.                      *)
(***************************************************************************)
SnIterExact ==
    \A s \in SN : View(s) = RefView(s, rbs, Stream(chain))

(***************************************************************************)
(* The snapshot Rollback(rp) returns (the current one, sn = the end of the *)
(* interval) reads exactly what rp's snapshot read, whatever compactions   *)
(* ran since rp was created.                                               *)
(***************************************************************************)
RollbackRestoresRP ==
    [][\A i \in DOMAIN recoveryPoints :
          ItemsRollback(i) =>
              \A e \in {currSn} : View(e)' = View(recoveryPoints[i].sn)]_allVars

=============================================================================
