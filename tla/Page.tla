-------------------------------- MODULE Page --------------------------------
(***************************************************************************)
(* The page delta chain of plasma (src/unnamed/part_001): the pages of the *)
(* tree as chains of immutable deltas, newest first, ending in a basePage. *)
(* Insert and Delete prepend a recordDelta; Compact rebuilds a basePage    *)
(* from collectItems; Split moves the upper half of a page to a new page  *)
(* behind a splitPageDelta; Close marks a page removed and Merge links its *)
(* chain into its left neighbour behind a mergePageDelta; Marshal and      *)
(* Unmarshal write a page to the log and read it back.                     *)
(*                                                                         *)
(* Items are keys compared with <; MaxItem is the sentinel above every     *)
(* key and the nil low bound of Compact is below every key.  A delta is a  *)
(* record with the header fields of pageDelta (op, chainLen as cl, hiItm   *)
(* as hi, rightSibling as rs) and the fields of its variant (itm; items of *)
(* a basePage; the sibling chain of a mergePageDelta).  numItems, which    *)
(* only feeds the callers' NeedSplit/NeedMerge thresholds, is left out.    *)
(*                                                                         *)
(* The page table and its index of low keys, which route a key to its      *)
(* page, are not under src/ and are modelled from the spec: lo[p] is the   *)
(* low key of page p, index the pages the index holds.  A Split is         *)
(* published in the page table at once and in the index by a later step,  *)
(* so a key can be routed to the left page after its split: that is what   *)
(* Lookup's rightSibling hop is for.                                       *)
(***************************************************************************)
EXTENDS Integers, Sequences, SequencesExt, FiniteSets

CONSTANTS
    Keys,          \* the keys, a finite set of positive integers
    Pids,          \* page ids
    Root,          \* the page that covers the lowest keys; never merged away
    NoPid,         \* the nil rightSibling of the last page
    MaxSMOs,       \* bound on the Splits and Merges of a behaviour
    DistinctKeys,        \* TRUE: every key is written at most once (spec 8.1)
    CompactBeforeSMO     \* TRUE: Split and Merge only act on compacted pages

ASSUME KeysAssumption == Keys \subseteq Nat \ {0} /\ Keys # {}
ASSUME PidsAssumption == Root \in Pids /\ NoPid \notin Pids
ASSUME MaxSMOsAssumption == MaxSMOs \in Nat
ASSUME DistinctKeysAssumption == DistinctKeys \in BOOLEAN
ASSUME CompactBeforeSMOAssumption == CompactBeforeSMO \in BOOLEAN

VARIABLES
    pages,     \* pages[p]: the chain of page p, head first; << >> is a nil head
    lo,        \* lo[p]: the low key of page p (page table, spec-modelled)
    index,     \* the pages the low-key index holds (spec-modelled)
    ref,       \* ghost: the keys whose last write was an Insert
    written,   \* ghost: the keys written so far
    smos       \* ghost: Splits and Merges done

vars == <<pages, lo, index, ref, written, smos>>

MaxItem == Max(Keys) + 1
MinItem == 0

Ops == {"insert", "delete", "split", "merge", "remove", "base"}

\* A delta with its header fields and the fields of its variant.
Delta(op, itm, hi, rs, cl, items, sibl) ==
    [op |-> op, itm |-> itm, hi |-> hi, rs |-> rs, cl |-> cl,
     items |-> items, sibl |-> sibl]

\* The deltas of a chain are well formed, one level down into merge siblings.
WellFormed(c) ==
    \A i \in DOMAIN c :
        /\ c[i].op \in Ops
        /\ c[i].itm \in MinItem .. MaxItem
        /\ c[i].hi \in 1 .. MaxItem
        /\ c[i].rs \in Pids \cup {NoPid}
        /\ c[i].cl \in Nat
        /\ c[i].items \in Seq(Keys)
        /\ c[i].op # "merge" => c[i].sibl = << >>


IsNil(c) == c = << >>

HiOf(c) == IF IsNil(c) THEN MaxItem ELSE c[1].hi

RsOf(c) == IF IsNil(c) THEN NoPid ELSE c[1].rs

\* page.InRange: an item at or above the head's hiItm belongs to a right sibling.
InRange(c, itm) == IF IsNil(c) THEN TRUE ELSE itm < c[1].hi

\* newRecordDelta: the head's header copied (MaxItem on a nil head), chainLen + 1.
NewRecordDelta(c, op, itm) ==
    Delta(op, itm, HiOf(c), RsOf(c), IF IsNil(c) THEN 1 ELSE c[1].cl + 1, << >>, << >>)

\* newSplitPageDelta: the head's header copied, rightSibling = pid, chainLen + 1.
NewSplitPageDelta(c, itm, pid) == Delta("split", itm, c[1].hi, pid, c[1].cl + 1, << >>, << >>)

\* Mutant: the mergeDelta itself is not counted in chainLen.
NewMergePageDeltaNoInc(c, itm, sibl) ==
    Delta("merge", itm, MinItem, sibl[1].rs, c[1].cl + sibl[1].cl, << >>, sibl)

\* newMergePageDelta: chainLen adds the sibling's plus one, rightSibling is the
\* sibling's; hiItm is left nil (0) for Merge to set.
NewMergePageDelta(c, itm, sibl) ==
    Delta("merge", itm, MinItem, sibl[1].rs, c[1].cl + sibl[1].cl + 1, << >>, sibl)

\* newRemovePageDelta: the head's header copied, chainLen unchanged.
NewRemovePageDelta(c) == Delta("remove", MinItem, c[1].hi, c[1].rs, c[1].cl, << >>, << >>)

\* newBasePage: chainLen 0, hiItm and rightSibling as its caller sets them.
NewBasePage(itms, hi, rs) == Delta("base", MinItem, hi, rs, 0, itms, << >>)

(***************************************************************************)
(* page.Lookup.  A key at or above the head's hiItm is looked up in the    *)
(* chain of the right sibling (once).  Walking down: a recordDelta of the *)
(* key decides; a basePage is searched (sort.Search on its sorted items); *)
(* a mergeDelta sends keys at or above its pivot into the sibling chain;   *)
(* a splitDelta is skipped; any other delta panics ("should not happen").  *)
(***************************************************************************)
\* Mutant: a mergeDelta is walked past, its sibling chain never entered.
RECURSIVE LookupInNoCross(_, _)
LookupInNoCross(c, k) ==
    IF IsNil(c) THEN "absent"
    ELSE CASE c[1].op = "insert" /\ c[1].itm = k -> "found"
           [] c[1].op = "delete" /\ c[1].itm = k -> "absent"
           [] c[1].op = "base" -> IF k \in Range(c[1].items) THEN "found" ELSE "absent"
           [] c[1].op = "remove" -> "panic"
           [] OTHER -> LookupInNoCross(Tail(c), k)

RECURSIVE LookupIn(_, _)
LookupIn(c, k) ==
    IF IsNil(c) THEN "absent"
    ELSE CASE c[1].op = "insert" /\ c[1].itm = k -> "found"
           [] c[1].op = "delete" /\ c[1].itm = k -> "absent"
           [] c[1].op = "base" -> IF k \in Range(c[1].items) THEN "found" ELSE "absent"
           [] c[1].op = "merge" /\ k >= c[1].itm -> LookupIn(c[1].sibl, k)
           [] c[1].op = "remove" -> "panic"
           [] OTHER -> LookupIn(Tail(c), k)

Lookup(p, k) ==
    IF IsNil(pages[p]) THEN "absent"
    ELSE IF k >= pages[p][1].hi THEN LookupIn(pages[pages[p][1].rs], k)
    ELSE LookupIn(pages[p], k)

\* page.inRange(lo, hi, itm)
InRng(l, h, itm) == itm < h /\ itm >= l

\* pageItemSorter.Run: sort.Stable by key.
SortStable(s) ==
    LET f[i \in 0 .. MaxItem] ==
            IF i = 0 THEN << >> ELSE f[i - 1] \o SelectSeq(s, LAMBDA x : x.k = i)
    IN f[MaxItem]

\* The merger of collectPageItems: the basePage's items merged with the
\* sorted deltas, a delta winning over a base item with its key.
MergeBase(base, ds) ==
    SortStable(ds \o SelectSeq(base, LAMBDA x : \A i \in DOMAIN ds : ds[i].k # x.k))

(***************************************************************************)
(* collectPageItems(head, lo, hi): the in-range recordDeltas are added to  *)
(* the sorter as they are met, a mergeDelta adds what the sibling chain   *)
(* collects, and the first basePage ends the walk: its in-range items are *)
(* merged with the sorted deltas.  An item is [k, ins].                   *)
(***************************************************************************)
RECURSIVE Collect(_, _, _, _)
Collect(c, l, h, acc) ==
    IF IsNil(c) THEN SortStable(acc)
    ELSE CASE c[1].op \in {"insert", "delete"} ->
                Collect(Tail(c), l, h,
                        IF InRng(l, h, c[1].itm)
                        THEN Append(acc, [k |-> c[1].itm, ins |-> c[1].op = "insert"])
                        ELSE acc)
           [] c[1].op = "merge" ->
                Collect(Tail(c), l, h, acc \o Collect(c[1].sibl, l, h, << >>))
           [] c[1].op = "base" ->
                LET b == SelectSeq(c[1].items, LAMBDA x : InRng(l, h, x))
                IN MergeBase([i \in DOMAIN b |-> [k |-> b[i], ins |-> TRUE]], SortStable(acc))
           [] OTHER -> Collect(Tail(c), l, h, acc)

\* collectItems: the keys of the collected items that are inserts.
CollectItems(c, l, h) ==
    LET s == SelectSeq(Collect(c, l, h, << >>), LAMBDA x : x.ins)
    IN [i \in DOMAIN s |-> s[i].k]

HasBase(c) == \E i \in DOMAIN c : c[i].op = "base"

\* Split's walk down the chain to its basePage.
FirstBase(c) == CHOOSE i \in DOMAIN c : c[i].op = "base" /\ \A j \in 1 .. i - 1 : c[j].op # "base"

\* Split's pivot index: len/2, moved down while items[mid] >= hiItm (0: declined).
SplitMid(items, hi) ==
    LET C == {m \in 1 .. Len(items) \div 2 : items[m + 1] < hi}
    IN IF C = {} THEN 0 ELSE Max(C)

(***************************************************************************)
(* Routing, from the spec: the index finds the page with the greatest low  *)
(* key at or below the key.                                                *)
(***************************************************************************)
Route(k) == CHOOSE p \in index : lo[p] <= k /\ \A q \in index : lo[q] <= k => lo[q] <= lo[p]

Closed(p) == ~IsNil(pages[p]) /\ pages[p][1].op = "remove"

Alloc == {Root} \cup {p \in Pids : ~IsNil(pages[p])}

Free(q) == q # Root /\ q \notin index /\ IsNil(pages[q])

PageTypeOK ==
    /\ DOMAIN pages = Pids
    /\ \A p \in Pids :
          /\ pages[p] \in Seq([op : Ops, itm : Nat, hi : Nat, rs : Pids \cup {NoPid},
                              cl : Nat, items : Seq(Keys), sibl : Seq(Any)])
          /\ WellFormed(pages[p])
    /\ lo \in [Pids -> MinItem .. MaxItem]
    /\ index \subseteq Pids
    /\ ref \subseteq Keys
    /\ written \subseteq Keys
    /\ smos \in 0 .. MaxSMOs

PageInit ==
    /\ pages = [p \in Pids |-> << >>]
    /\ lo = [p \in Pids |-> MinItem]
    /\ index = {Root}
    /\ ref = {}
    /\ written = {}
    /\ smos = 0

(***************************************************************************)
(* A writer's Insert or Delete of key k on the page the index routes it to *)
(* (page.Insert / page.Delete prepend a recordDelta).  A writer does not   *)
(* write to a closed page, nor to a key above the page's hiItm: it retries *)
(* once the index has caught up (that code is not under src/).             *)
(***************************************************************************)
Write(k, op) ==
    LET p == Route(k) IN
    /\ DistinctKeys => k \notin written
    /\ ~Closed(p)
    /\ InRange(pages[p], k)
    /\ pages' = [pages EXCEPT ![p] = << NewRecordDelta(@, op, k) >> \o @]
    /\ ref' = IF op = "insert" THEN ref \cup {k} ELSE ref \ {k}
    /\ written' = written \cup {k}
    /\ UNCHANGED <<lo, index, smos>>

Insert(k) == Write(k, "insert")

Delete(k) == Write(k, "delete")

\* page.Compact: a new basePage of collectItems(head, nil, hiItm).
Compact(p) ==
    /\ p \in index
    /\ ~IsNil(pages[p])
    /\ ~Closed(p)
    /\ pages' = [pages EXCEPT ![p] =
                    << NewBasePage(CollectItems(@, MinItem, @[1].hi), @[1].hi, @[1].rs) >>]
    /\ UNCHANGED <<lo, index, ref, written, smos>>

(***************************************************************************)
(* page.Split(q): the pivot is the basePage's items[mid]; the new page q  *)
(* gets a basePage of the items collected in [pivot, hiItm), and the old   *)
(* page a splitPageDelta with hiItm = pivot and rightSibling = q.  With    *)
(* mid = 0 Split declines and returns nil, which changes nothing.  With    *)
(* no item left in [pivot, hiItm) the read of items[0] for newPage.low     *)
(* panics: that call has no step.  The index learns of q by a later step  *)
(* of the splitter, before it or anyone starts another Split or Merge: a   *)
(* second Split of p before that would leave Lookup's one rightSibling hop *)
(* short of the key.                                                       *)
(***************************************************************************)
\* Mutant: the splitPageDelta keeps the head's hiItm instead of the pivot.
SplitKeepHi(p, q) ==
    LET c == pages[p]
        bp == c[FirstBase(c)]
        mid == SplitMid(bp.items, c[1].hi)
        pivot == bp.items[mid + 1]
        itms == CollectItems(c, pivot, c[1].hi)
    IN
    /\ p \in index
    /\ ~Closed(p)
    /\ HasBase(c)
    /\ Free(q)
    /\ smos < MaxSMOs
    /\ Alloc \subseteq index
    /\ CompactBeforeSMO => Len(c) = 1
    /\ mid > 0
    /\ itms # << >>
    /\ pages' = [pages EXCEPT
                    ![q] = << NewBasePage(itms, c[1].hi, c[1].rs) >>,
                    ![p] = << NewSplitPageDelta(c, pivot, q) >> \o c]
    /\ lo' = [lo EXCEPT ![q] = pivot]
    /\ smos' = smos + 1
    /\ UNCHANGED <<index, ref, written>>

Split(p, q) ==
    LET c == pages[p]
        bp == c[FirstBase(c)]
        mid == SplitMid(bp.items, c[1].hi)
        pivot == bp.items[mid + 1]
        itms == CollectItems(c, pivot, c[1].hi)
    IN
    /\ p \in index
    /\ ~Closed(p)
    /\ HasBase(c)
    /\ Free(q)
    /\ smos < MaxSMOs
    /\ Alloc \subseteq index
    /\ CompactBeforeSMO => Len(c) = 1
    /\ mid > 0
    /\ itms # << >>
    /\ pages' = [pages EXCEPT
                    ![q] = << NewBasePage(itms, c[1].hi, c[1].rs) >>,
                    ![p] = << [NewSplitPageDelta(c, pivot, q) EXCEPT !.hi = pivot] >> \o c]
    /\ lo' = [lo EXCEPT ![q] = pivot]
    /\ smos' = smos + 1
    /\ UNCHANGED <<index, ref, written>>

\* The index entry of a split-off page is added (spec-modelled).
IndexAdd(q) ==
    /\ q \notin index
    /\ ~IsNil(pages[q])
    /\ index' = index \cup {q}
    /\ UNCHANGED <<pages, lo, ref, written, smos>>

\* page.Close on a page its left neighbour is to absorb: a removePageDelta.
Close(q) ==
    /\ q \in index \ {Root}
    /\ ~IsNil(pages[q])
    /\ ~Closed(q)
    /\ \E p \in index : ~Closed(p) /\ RsOf(pages[p]) = q
    /\ pages' = [pages EXCEPT ![q] = << NewRemovePageDelta(@) >> \o @]
    /\ UNCHANGED <<lo, index, ref, written, smos>>

\* Mutant: Merge does not set the mergeDelta's hiItm to the sibling's.
MergeNoHi(p, q) ==
    LET sibl == Tail(pages[q]) IN
    /\ p \in index
    /\ ~IsNil(pages[p])
    /\ ~Closed(p)
    /\ RsOf(pages[p]) = q
    /\ Closed(q)
    /\ smos < MaxSMOs
    /\ Alloc \subseteq index
    /\ CompactBeforeSMO => Len(pages[p]) = 1 /\ Len(pages[q]) = 2
    /\ pages' = [pages EXCEPT ![p] = << NewMergePageDelta(@, @[1].hi, sibl) >> \o @,
                              ![q] = << >>]
    /\ index' = index \ {q}
    /\ smos' = smos + 1
    /\ UNCHANGED <<lo, ref, written>>

(***************************************************************************)
(* page.Merge(q) on q's left neighbour p, after q's Close: the sibling     *)
(* chain below q's removePageDelta is linked behind a mergePageDelta with *)
(* pivot p's hiItm; hiItm and rightSibling become the sibling's, chainLen *)
(* adds the sibling's plus one.  q then leaves the page table and index.   *)
(***************************************************************************)
Merge(p, q) ==
    LET sibl == Tail(pages[q]) IN
    /\ p \in index
    /\ ~IsNil(pages[p])
    /\ ~Closed(p)
    /\ RsOf(pages[p]) = q
    /\ Closed(q)
    /\ smos < MaxSMOs
    /\ Alloc \subseteq index
    /\ CompactBeforeSMO => Len(pages[p]) = 1 /\ Len(pages[q]) = 2
    /\ pages' = [pages EXCEPT
                    ![p] = << [NewMergePageDelta(@, @[1].hi, sibl) EXCEPT !.hi = sibl[1].hi] >> \o @,
                    ![q] = << >>]
    /\ index' = index \ {q}
    /\ smos' = smos + 1
    /\ UNCHANGED <<lo, ref, written>>

(***************************************************************************)
(* page.Marshal: the header (chainLen, hiItm, rightSibling) and the deltas *)
(* from the head down to the first basePage: a recordDelta whose item is  *)
(* InRange, a basePage with its InRange items.  Other deltas write        *)
(* nothing.  The rightSibling is written as its low key and read back     *)
(* through the page table; here it is carried as the page id.             *)
(***************************************************************************)
MarshalEntry(d, hi) ==
    IF d.op = "base"
    THEN [op |-> "base", itm |-> MinItem, items |-> SelectSeq(d.items, LAMBDA x : x < hi)]
    ELSE [op |-> d.op, itm |-> d.itm, items |-> << >>]

Marshal(c) ==
    LET upto == IF HasBase(c) THEN SubSeq(c, 1, FirstBase(c)) ELSE c
        ds == SelectSeq(upto, LAMBDA d : d.op = "base" \/
                                         (d.op \in {"insert", "delete"} /\ d.itm < c[1].hi))
    IN [cl |-> c[1].cl, hi |-> c[1].hi, rs |-> c[1].rs,
        ents |-> [i \in DOMAIN ds |-> MarshalEntry(ds[i], c[1].hi)]]

\* page.Unmarshal: recordDeltas with chainLen counting down from the header's,
\* a basePage from newBasePage; each with the header's hiItm and rightSibling.
Unmarshal(m) ==
    [i \in DOMAIN m.ents |->
        IF m.ents[i].op = "base"
        THEN NewBasePage(m.ents[i].items, m.hi, m.rs)
        ELSE Delta(m.ents[i].op, m.ents[i].itm, m.hi, m.rs, m.cl - (i - 1), << >>, << >>)]

\* Persist writes the page to the log; eviction and a later read bring it back.
Reload(p) ==
    /\ p \in index
    /\ ~IsNil(pages[p])
    /\ ~Closed(p)
    /\ pages' = [pages EXCEPT ![p] = Unmarshal(Marshal(@))]
    /\ UNCHANGED <<lo, index, ref, written, smos>>

PageNext ==
    \/ \E k \in Keys : Insert(k) \/ Delete(k)
    \/ \E p \in Pids :
          \/ Compact(p)
          \/ IndexAdd(p)
          \/ Close(p)
          \/ \E q \in Pids : Split(p, q) \/ Merge(p, q)

PageSpec == PageInit /\ [][PageNext]_vars

\* The same, with pages written to the log and read back.
PageNextReload == PageNext \/ \E p \in Pids : Reload(p)

PageSpecReload == PageInit /\ [][PageNextReload]_vars

-----------------------------------------------------------------------------
(***************************************************************************)
(* Properties.                                                             *)
(***************************************************************************)

(***************************************************************************)
(* Lookup answers what the writes did (spec 8.1, 8.3, 8.4): for every key  *)
(* routed to a page that is not closed, Lookup finds it exactly when its  *)
(* last write was an Insert, whatever Compacts, Splits, Merges and index  *)
(* updates came in between.                                               *)
(***************************************************************************)
LookupAgrees ==
    \A k \in Keys :
        ~Closed(Route(k)) => Lookup(Route(k), k) = IF k \in ref THEN "found" ELSE "absent"

(***************************************************************************)
(* The pages tile the key space (spec section 3): the root starts at the   *)
(* lowest key, every page's range [lo, hiItm) is not empty, and its        *)
(* rightSibling is the page that starts at its hiItm, the last page ending *)
(* at MaxItem, across Splits, Merges and Closes in any order.             *)
(***************************************************************************)
PagesTile ==
    /\ lo[Root] = MinItem
    /\ \A p \in Alloc :
          LET c == pages[p] IN
          /\ lo[p] < HiOf(c)
          /\ (RsOf(c) = NoPid) = (HiOf(c) = MaxItem)
          /\ RsOf(c) # NoPid => RsOf(c) \in Alloc /\ lo[RsOf(c)] = HiOf(c)

(***************************************************************************)
(* collectItems over a page's range is strictly ascending (spec 8.2):      *)
(* Compact, Split and the page iterator never produce a key twice, also   *)
(* after a Merge has brought a split-off range back under the page.       *)
(***************************************************************************)
CollectSorted ==
    \A p \in Alloc :
        ~IsNil(pages[p]) /\ ~Closed(p) =>
            LET s == CollectItems(pages[p], lo[p], HiOf(pages[p]))
            IN \A i \in 1 .. Len(s) - 1 : s[i] < s[i + 1]

\* The deltas above the basePage, those of merged sibling chains included.
RECURSIVE DeltaCount(_)
DeltaCount(c) ==
    IF IsNil(c) \/ c[1].op = "base" THEN 0
    ELSE 1 + DeltaCount(Tail(c)) + (IF c[1].op = "merge" THEN DeltaCount(c[1].sibl) ELSE 0)

(***************************************************************************)
(* chainLen, which NeedCompaction compares with the threshold, is the      *)
(* number of deltas above the basePage (spec section 3) on every page that *)
(* is not closed, through Merges that add a sibling's count.              *)
(***************************************************************************)
ChainLenExact ==
    \A p \in Pids : ~IsNil(pages[p]) /\ ~Closed(p) => pages[p][1].cl = DeltaCount(pages[p])

=============================================================================
