# TLA+ models of plasma (nitro)

This directory holds TLA+ models of the plasma storage engine in `src/`. It
also holds TLC configurations that model-check the models on small instances,
and TLAPS proofs of the main snapshot and Persist invariants for every value
of the constants. `PROJECT.json` lists the components, runs, mutants, source map,
findings, hazards and theorems in machine-readable form.

## 1. The system and its parts

plasma is a latch-free B-tree-like store. Pages are chains of immutable deltas
published by CAS on a page table, and they are persisted to a log-structured
store (LSS). An MVCC layer of snapshots and recovery points sits on top.

| Part | Source | State | Operations | Interacts with |
|---|---|---|---|---|
| Snapshot list | `src/plasma/mvcc.go` (Snapshot, Close, Open, NewIterator, NewSnapshot, newSnapshot, updateMaxSn) | `currSn`, `currSnapshot` and its chain of `child` pointers, `refCount` per snapshot, `gcSn`, `numSnCreated`, `lastMaxSn` | NewSnapshot, Open/NewIterator, Close (recursive into the child), MVCCIterator.Close | Writers (count roll-up), recovery points, Rollback, the GC (`gcSn`) |
| MVCC control surface | `src/plasma/mvcc.go` (InsertKV, DeleteKV, CreateRecoveryPoint, RemoveRecoveryPoint, GetRecoveryPoints, Rollback, updateRecoveryPoints, updateRPSns) | `itemsCount`, `Writer.count`, `recoveryPoints`, `rpSns`, `Snapshot.count` | per-writer counter updates with no lock; CreateRecoveryPoint in two locked phases with Close and PersistAll in between; RemoveRecoveryPoint; Rollback under the MVCC lock | Snapshot list; Persist and the page walk; LSS |
| MVCC filters | `src/plasma/mvcc.go` (snFilter, rollbackFilter, gcFilter) | a skip latch, interval lists | one `Process` per item | Page collection, compaction |
| RP / maxSn encoding | `src/plasma/mvcc.go` (marshalRPs, unmarshalRPs, decodeMaxSn) | none (pure) | encode, decode | LSS blocks |
| Persist / Evict | `src/unnamed/part_000` | the page-table entry, LSS reservations | Persist (reserve, write, CAS, discard and retry), PersistAll, EvictAll | Page table, page, LSS |
| Page delta chain | `src/unnamed/part_001` | a chain of record, split, merge, flush and remove deltas over a base page | Insert, Delete, Lookup, Split, Merge, Compact, collectItems, Marshal, Unmarshal | Page table, allocator, Persist |
| Page allocator | `src/plasma/page_alloc.go` | memory accounting | alloc* for each delta kind | Page |
| Utilities | `src/plasma/util.go` | none | memcopy, the page-item sorter, minLSSOffset | Page |
| Skiplist tests | `src/unnamed/part_002` | none | tests | none |

These behaviours make the code hard to test:

- `Snapshot.Close` is three atomic steps (`mvcc.go:146`, `:147`, `:148`): the decrement, the `gcSn` increment and the recursive `s.child.Close()`. Other closes interleave between them.
- The current snapshot's `child` is nil, so its count must never reach zero.
- `w.count++` is a plain read-modify-write (`mvcc.go:255`) that races with newSnapshot's roll-up (`mvcc.go:237-238`).
- CreateRecoveryPoint drops the MVCC lock between Prepare and Commit (`mvcc.go:333-350`), and Commit writes the list it captured earlier.
- Rollback rewrites `itemsCount`, the RP list and `gcSn` around a newSnapshot call (`mvcc.go:403-413`).
- Persist and Rollback both run a CAS loop on the page table with LSS blocks reserved around it (`part_000:56-64`, `mvcc.go:377-387`).

## 2. Modules

### `Snapshots` (snapshot list)

A snapshot is named by its sn, so the child of snapshot `s` is `s + 1` and the
current snapshot is `currSn`.

| Variable | Code |
|---|---|
| `currSn` | `Plasma.currSn` |
| `refCount[s]` | `Snapshot.refCount` |
| `held[s]` | references held by callers: the one NewSnapshot returns, plus one per Open |
| `gcDue` | snapshots whose count reached zero and whose closer has not yet run its `gcSn` increment (`:147`) |
| `closing` | snapshots whose parent's closer has passed `:147` and whose recursive `Close` has not run yet |
| `gcSn`, `numSnCreated`, `lastMaxSn` | the Plasma fields of the same names |

| Action | Code |
|---|---|
| `NewSnap` | `newSnapshot` (`mvcc.go:209-225`): the new snapshot gets refCount 2, the old current one is returned to the caller, and `updateMaxSn` runs |
| `NewSnapshot` | `Plasma.NewSnapshot` |
| `RollbackSnapshot` | the snapshot part of Rollback: newSnapshot, then `gcSn = newSnap.sn` (`mvcc.go:404`, `:413`) |
| `Close(s)` | `Snapshot.Close` by a holder (directly or via `MVCCIterator.Close`): its decrement |
| `CloseChild(s)` | the decrement of the recursive `s.child.Close()` |
| `Release(s)` | the shared atomic decrement (`:146`); when the count reaches zero, `s` joins `gcDue` |
| `GcAdvance(s)` | the closer of `s` runs `atomic.AddUint64(&gcSn, 1)` (`:147`) and then calls its child's Close, which is queued in `closing` unless `s` is current |
| `Open(s)` | `Snapshot.Open` via `NewIterator` |
| `UpdateMaxSn` | `updateMaxSn` with `shouldPersist`: `lastMaxSn` is the maxSn written and synced |

Callers only close references they hold: the spec makes use after Close
undefined behaviour. This is the `held[s] > 0` guard.

### `MVCC` (control surface)

This module extends `Snapshots` with the following state:

- `itemsCount`;
- `count[w]`, each writer's counter;
- `wpc` and `wtmp`, the writer between the load and the store of `w.count++`;
- `snapCount[s]`, which is `Snapshot.count`;
- `recoveryPoints` and `rpSns`;
- `crp[p]`, the CreateRecoveryPoint call of goroutine `p`: its phase, its snapshot and the `rps` it captured;
- the ghosts `netCount`, `wops` and `committed`, used only by the properties.

| Action | Code |
|---|---|
| `WriterLoad`, `WriterStore` | InsertKV and DeleteKV's `w.count++` / `w.count--`, split into a load and a store |
| `MVCCNewSnapshot` | NewSnapshot with the roll-up (`RollUp`, `mvcc.go:227-242`) |
| `CRPPrepare` | Prepare: append, updateRecoveryPoints, updateRPSns |
| `CRPClose` | `sn.Close()` then PersistAll (its page work changes no MVCC state) |
| `CRPCommit` | Commit: `updateRecoveryPoints(rps)` with the stale `rps` |
| `RemoveRecoveryPoint` | RemoveRecoveryPoint |
| `CallerClose`, `CloserGcAdvance`, `ChildClose` | the three steps of `Snapshot.Close`, with the MVCC state unchanged |
| `Rollback` | the MVCC part of Rollback: `itemsCount = rollRP.count`, newSnapshot, truncate the list to `sn <= rollRP.sn`, `gcSn = newSnap.sn`; `rpSns` is untouched, as in the code |

`Reserved(s)` counts the references that CreateRecoveryPoint calls still owe.
A caller cannot close those.

### `Filters` and `MVCCItems` (the items of a page, and the MVCC filters)

`Filters` holds the three per-item filters of `mvcc.go`, each written as a
step function from the filter's state and an item to its next state. A filter
run is a `FoldLeft` of that step over the sorted stream.

| Operator | Code |
|---|---|
| `ItemBefore`, `Stream` | `pageItemSorter` (`util.go:25-45`): key ascending, then sn descending, stable |
| `RbDrop` | `rollbackFilter.Process` (`mvcc.go:37-51`): drop an item whose sn is in a rollback interval |
| `SnProcess`, `SnFilter` | `snFilter.Process` (`mvcc.go:69-86`) and the fresh filter of `NewIterator` (`:184-197`). A set latch, or an item newer than the snapshot, clears the latch and is dropped. A delete sets the latch. An item the rollbackFilter drops leaves the latch as it is |
| `FindInterval`, `InInterval`, `GcProcess`, `GcFilter` | `gcFilter` (`mvcc.go:89-143`): a delete is held as `skipItm`. The next insert is dropped with it if it has the same sn, or an sn strictly inside the delete's interval. Otherwise both are returned |
| `RefView` | not code: the spec's reading of a snapshot (4.G). For each key, take the newest version that is at or below the snapshot and not rolled back, and return it only if it is an insert |

`MVCCItems` extends `MVCC` and `Filters`. It adds three variables:

- `chain`, the items of one page, newest first;
- `rbs`, the rollback intervals that Rollback laid on the page;
- `pend[w]`, the item a writer has built and not yet inserted.

| Action | Code |
|---|---|
| `ItemLoad(w, d, k)` | InsertKV/DeleteKV (`mvcc.go:247-269`): load the sn (`currSn`) and build the item, together with the load of `w.count` |
| `ItemInsert(w)` | `w.Insert(itm)` after the store of `w.count` |
| `ItemsRollback(i)` | Rollback, plus the interval `[rollRP.sn + 1, currSn]` from `pg.Rollback(start, end)` (`mvcc.go:368-376`) |
| `GcCompact` | a compaction through gcFilter, with bounds 0, the live snapshots and `rpSns` (spec 4.G; the compactor is not under `src/`) |
| `ItemsRemoveRP(r)` | RemoveRecoveryPoint, which may run while a CreateRecoveryPoint is between Prepare and Commit |

InsertKV and DeleteKV check nothing about the key (`mvcc.go:247-269`), and
neither does the model: a writer may insert a key twice, or delete a key that
is absent or already deleted. Two runs show what snFilter then returns
(findings 4 and 8). No passing run checks that a GC compaction keeps every
live view, because a double delete already breaks that once the GC drops the
held-back delete.

### `Persist` (Persist, PersistAll, EvictAll, Rollback's page callback)

The model covers one Persist call, or one run of Rollback's callback, on one
page per goroutine. These run against each other and against concurrent
Inserts on the same pages.

A page head is abstracted to four numbers:

- `ver`, the content version: each Insert prepends a delta and makes a new one;
- `fver`, the version the flush record covers;
- `foff`, the LSS block the flush record names;
- `dver`, the version up to which the in-memory data was evicted.

Every successful CAS installs a head that never existed before. So comparing
records is the pointer comparison of `UpdateMapping`, with no ABA.

An LSS block is `[pid, ver, typ, fin]`, where `typ` is `data` or `discard` and
`fin` records that FinalizeWrite ran. `published` is the set of blocks whose
head some CAS installed.

| Variable | Code |
|---|---|
| `pageTbl[pid]` | the page table entry of `pid` (spec 4.D) |
| `lss` | the LSS reservations in offset order |
| `proc[p]` | the goroutine's call: `pc`, `kind` (persist or rollback), `pid`, `evict`, the head it read (`seen`), the head it will CAS (`new`), its block `off`, and the `ver` at the start of the call (`start`) |
| `published` | ghost: blocks a CAS made current |
| `jobs` | ghost: calls started, bounded by `MaxJobs` |

| Action | Code |
|---|---|
| `StartPersist(p, pid, e)` | the PageVisitor callbacks of PersistAll (`e = FALSE`) and EvictAll (`e = TRUE`) (`part_000:75-92`) |
| `PersistRead(p)` | `retry:` through the flush record (`part_000:37-55`): ReadPage, then one of three paths: NeedsFlush (reserve and write an unfinalized block, then Evict or AddFlushRecord); the evict-only path (`:64-66`); or return |
| `PersistCas(p)` | UpdateMapping (`:56-63`): on success FinalizeWrite; on failure discardLSSBlock, FinalizeWrite and `goto retry` |
| `EvictCas(p)` | UpdateMapping on the evict-only path (`:67-69`) |
| `StartRollback(p, pid)` / `RollbackRead(p)` / `RollbackCas(p)` | Rollback's callback (`mvcc.go:371-394`): ReadPage, `pg.Rollback` (a new version), reserve, write, AddFlushRecord and FinalizeWrite, then UpdateMapping with `goto retry` on failure |
| `Insert(pid)` | a writer's page Insert (`part_001:245-247`), which makes a new content version |

The page methods `NeedsFlush`, `IsEvictable`, `AddFlushRecord` and `Evict`,
ReadPage and UpdateMapping are not under `src/`. They are modelled from spec
4.C, 4.D and 4.F.

### `Page` (the page delta chain)

`Page` models `part_001` over three pages. A page is a sequence of delta
records, head first, and the empty sequence is a nil head. A record has the
`pageDelta` header (`op`, `chainLen` as `cl`, `hiItm` as `hi`,
`rightSibling` as `rs`) and the fields of its variant. Keys are integers.
`MaxItem` is the sentinel above every key, and `MinItem = 0` is the nil low
bound.

| Definition | Code |
|---|---|
| `NewRecordDelta`, `NewSplitPageDelta`, `NewMergePageDelta`, `NewRemovePageDelta`, `NewBasePage` | the constructors (`part_001:147-229`) |
| `InRange` | `page.InRange` (`:231-237`); a nil head accepts every key |
| `LookupIn`, `Lookup` | `page.Lookup` (`:253-301`): one `rightSibling` hop, then a walk down in which a record delta of the key decides, a base page is searched, a merge delta sends keys at or above its pivot into the sibling chain, and a remove delta panics |
| `Collect`, `CollectItems`, `InRng`, `SortStable` | `collectPageItems`, `collectItems`, `inRange` (`:379-423`) and the stable `pageItemSorter` (`util.go:25-45`) |
| `Insert(k)`, `Delete(k)` (through `Write`) | `page.Insert` and `page.Delete`, prepending a record delta on the page the index routes `k` to |
| `Compact(p)` | `page.Compact` (`:354-357`): a lone base page of `collectItems(head, nil, hiItm)` |
| `Split(p, q)` | `page.Split` (`:323-352`): the pivot `items[mid]`, `mid` moved down while `items[mid] >= hiItm`; the new page gets the items collected in `[pivot, hiItm)`; the old page gets a split delta |
| `Close(q)`, `Merge(p, q)` | `page.Close` and `page.Merge` (`:319-321`, `:359-365`) |
| `Marshal`, `Unmarshal` | `page.Marshal` and `page.Unmarshal` (`:459-622`) |

`lo`, `index`, `Route`, `IndexAdd`, `Reload` and the merger `MergeBase` model
code that is not under `src/` (the page table, the low-key index and
`pageItemSorter.Merge`), following the spec. The ghost variables `ref` and
`written` record the writes, and `smos` counts Splits and Merges.

The model imposes three disciplines on its callers. Each is a precondition of
the code, not a property of it:

- **`DistinctKeys`**: every key is written at most once (spec 8.1).
- **`CompactBeforeSMO`**: Split and Merge only act on compacted pages. Without it, collectItems breaks (finding 7).
- **The index catches up**: no Split or Merge starts while a split-off page is missing from the index. Lookup makes one `rightSibling` hop only, so a second Split before the index update would hide a key.

### `SnapshotsProofs`, `PersistProofs`

These modules hold the TLAPS proofs; see section 5. `MVCC` extends
`Snapshots` and each of its snapshot steps is a `Snapshots` action conjoined
with `UNCHANGED` of the MVCC variables, so the snapshot-list invariants are
checked again on the composed module by the `mvcc` run.

### MC modules

`MC_Snapshots`, `MC_MVCC`, `MC_MVCCItems`, `MC_SnapshotsProofs`, `MC_Persist` and `MC_Page` give the
constants their values. `MC_SnapshotsProofs` and `MC_Persist` extend the proof
modules, so their runs can also check the inductive invariants. Writers, Procs and Pids
are model values. So are `Pids` and `NoPid` of `MC_Page`.

## 3. Runs

| Run | Config | Expect | Shows |
|---|---|---|---|
| snapshots | `Snapshots.cfg` (on `MC_SnapshotsProofs`) | pass | TypeOK, ReleasedInOrder, NoCloseOfNilChild, MaxSnAhead and the proofs' inductive invariant IInv hold under every interleaving of NewSnapshot, Rollback, Open and the three steps of Close. FreedStaysFreed (action property): no step touches a snapshot whose count has reached zero. GcProgress: under weak fairness of the closers, a snapshot that nobody holds, whose parent is freed, is eventually freed |
| snapshots_gcsn_rollback | `Snapshots_gcsn.cfg` | violation | GcSnNotAhead: after Rollback, closes of older snapshots push `gcSn` past `currSn` |
| mvcc | `MVCCItems.cfg` (on `MC_MVCCItems`) | pass | Writers, CreateRecoveryPoint, RemoveRecoveryPoint, Rollback, GC compactions and the split Close are interleaved. ItemsTypeOK, NoCloseOfNilChild and MaxSnAhead hold on the composed module |
| mvcc_rp_lost | `MVCC_rplost.cfg` | violation | NoLostRecoveryPoint: two concurrent CreateRecoveryPoint calls lose one point |
| mvcc_count_race | `MVCC_countrace.cfg` | violation | CountExact: the unsynchronised `w.count++` is double-counted by a concurrent roll-up |
| mvcc_snview | `MVCCItems_snview.cfg` | violation | SnIterExact: a key inserted twice at one sn reaches the snapshot iterator twice |
| mvcc_rollback_latch | `MVCCItems_rollback.cfg` | violation | RollbackRestoresRP: snFilter's skip latch, set by a delete of one key, survives a rollback-masked item and hides the next key's surviving version |
| persist | `Persist.cfg` | pass | Two goroutines run Persist, EvictAll and Rollback's callback on two pages against Inserts. The checked properties are: NoDataLoss (an evicted head names an undiscarded block of at least its version); ReservationsFinalized (no open reservation except one about to CAS); PersistNoOrphanBlock (a finalized data block that Persist wrote is published or still pending); FlushCoversStart (PersistAll's flush covers the start version); CallsReturn (every call returns); the proofs' inductive invariant IInv; and two action properties. HeadsAdvance: a head change never lowers a page's version, flushed version, flush offset or evicted version, so the head CAS is ABA-free. LogAppendOnly: the log only grows, and a finalized block is never rewritten |
| persist_orphan | `Persist_orphan.cfg` | violation | NoOrphanBlock: a Rollback callback whose UpdateMapping loses to an Insert leaves its finalized block valid and unpublished |
| page | `Page.cfg` | pass | Writes, Compact, Split, the index update, Close and Merge, in any order, keep four properties. LookupAgrees: Lookup on the routed page answers what the last write did. PagesTile: the pages tile the key space through their `hiItm` and `rightSibling`. ChainLenExact: `chainLen` counts the deltas above the base page. |
| page_roundtrip | `Page_roundtrip.cfg` | violation | LookupAgrees with pages written and read back: after a Merge, Marshal and Unmarshal lose the absorbed sibling's keys |
| page_merge_stale | `Page_merge_stale.cfg` | violation | CollectSorted with `CompactBeforeSMO = FALSE`: a Split, then a Merge, makes collectItems return a key twice |

Every property of a passing run has a mutant in `PROJECT.json`: a plausible bug
written as an operator next to the definition it replaces, under which TLC
finds the property violated. The mutants are:

- refCount 1 instead of 2 in newSnapshot;
- an off-by-one in maxSn;
- the count treated as freed one decrement early;
- the cascading child Close run twice (breaks TypeOK, ItemsTypeOK and FreedStaysFreed);
- the closer's `gcSn` increment that does not go on to the child's Close (breaks GcProgress);
- in Persist:
  - the evict-only test taken before NeedsFlush;
  - a failed CAS that does not finalize;
  - a failed CAS that does not discard;
  - a failed CAS that returns instead of retrying;
  - a failed CAS that retries with the stale head;
  - an UpdateMapping that stores the new head without comparing it with the one read;
  - a failed CAS in Rollback's callback that marks its already finalized block lssDiscard;
- in Page:
  - Lookup that never enters a merged sibling chain;
  - a split delta that keeps the old `hiItm`;
  - a Merge that does not take the sibling's `hiItm`;
  - a merge delta not counted in `chainLen`;


### Bounds

| Config | MaxSn | MaxSnSyncFrequency | MaxRefs | Other |
|---|---|---|---|---|
| snapshot runs | 5 | 2 | 2 | — |
| MVCC violation runs | 3 | 2 | 2 | one writer; one CreateRecoveryPoint goroutine, or two for the lost-RP run; at most 2 recovery points; 1 or 2 writer operations |
| mvcc (`MVCCItems.cfg` and its two violation configs) | 2 | 2 | 1 | one writer with 3 operations, two keys, one CreateRecoveryPoint goroutine, one recovery point |

With `MaxSn = 5` and `MaxSnSyncFrequency = 2`, the following all occur in the
snapshot runs:

- maxSn is rewritten twice, and both the write and no-write branches of `updateMaxSn` happen;
- a chain of three freed parents cascades;
- a snapshot is opened twice;
- rollback happens with older snapshots still open.

Every failure the MVCC violation runs find needs at most six steps. The mvcc
run reaches 1,793,416 distinct states in about 45 seconds. With two keys and
three writer operations, the following all occur:

- an insert and the delete that kills it, a re-insert and a double delete;
- a delete of one key next to a version of the other;
- a snapshot between them, or none;
- a recovery point on either side;
- a Rollback that masks the delete, the insert or both;
- compactions before and after each of these.

With two recovery points the run takes over fifteen minutes.

The Persist runs use two pages and two goroutines. They allow at most two
Inserts per page (`MaxVer = 3`, with versions starting at 1) and two started
calls (`MaxJobs = 2`). With these bounds the following all occur:

- a flush CAS loses to an Insert, and loses again after the retry;
- an EvictAll CAS loses to a PersistAll flush;
- two flushes of one page overlap;
- a Rollback callback overlaps a Persist.

The passing run reaches 220,869 distinct states. With three calls it grows
to 9.6 million states and takes 14 minutes; one page with three calls gives
263,801 states and no failure either.

The Page runs use four keys, three pages (so a page can split twice, and a
split-off page can be merged back into its left neighbour) and at most four
Splits and Merges. With these bounds the following all occur:

- a key is looked up across a split before the index update, and inside a merged sibling chain;
- a page splits, and its upper part is closed and merged back: the merge mutants are caught;
- a split page is split again once the index has caught up, so a chain of three pages forms.

The passing run reaches 12,622 distinct states.

### Deadlock

Deadlock checking is off in every run. The snapshot list itself never stops:
NewSnapshot is always enabled in the code. The model stops only at the
`MaxSn` bound, or when every caller has closed everything and `currSn = MaxSn`.
The Page model checks deadlock and finds none, because Compact is always
enabled on a live page. The Persist model stops only once the `MaxVer` and `MaxJobs` bounds are
reached and every call has returned; nothing in the code blocks.

### Fairness

GcProgress assumes weak fairness of `GcAdvance(s)` and `CloseChild(s)`, and
the code justifies this: the `gcSn` increment and `s.child.Close()` are plain
statements that the goroutine whose decrement reached zero runs right after
it, with no lock and nothing to wait on. Callers are not assumed to ever close
their snapshots.

CallsReturn assumes weak fairness of each goroutine's Persist and callback
steps (`ProcStep(p)`). The loop takes no lock and waits on nothing, so a
running goroutine keeps running. Inserts and the start of calls are not
fair. CallsReturn holds because Inserts are bounded (`MaxVer`), so the
UpdateMapping retries eventually stop losing; in the code the loop can spin
for as long as writers keep winning.

## 4. Findings

These are in `PROJECT.json` under `findings`.

1. **gcSn passes currSn after Rollback** (`mvcc.go:413` with `:147`). Rollback sets `gcSn = newSnap.sn` while older snapshots are still open, and each of their later Closes adds one more.
2. **CreateRecoveryPoint loses a concurrent recovery point** (`mvcc.go:348`). Commit writes the `rps` captured at Prepare.
   The same stale write can re-list a point that RemoveRecoveryPoint removed in between, without adding it back to `rpSns`.
3. **Writer count race** (`mvcc.go:255`, `:267` vs `:237-238`). A roll-up between the load and the store of `w.count++` double-counts the item.
4. **A re-inserted key is read twice** (`mvcc.go:80` with InsertKV at `:247-257`). InsertKV writes an insert item without looking for the key, and snFilter returns every insert at or below the snapshot that no delete precedes. Two inserts of a key under one sn both reach the iterator; spec scenario 2 and section 8.6 say it returns the newest version only.
5. **Rollback leaves an undiscarded block on a failed CAS** (`mvcc.go:386`). The callback finalizes its block before UpdateMapping and does `goto retry` without `discardLSSBlock`. Persist discards in the same case (spec 4.F step 4, section 7), so recovery could replay a page image that was never current.
6. **Marshal drops a merged sibling** (`part_001:497-533`). The switch over delta kinds has no case for the merge delta, so Marshal skips it and keeps walking the page's own chain. The header it writes carries the merged `hiItm`. After Unmarshal the absorbed keys are gone, although the page claims their range.
7. **collectItems after Split and Merge** (`part_001:395`). collectPageItems filters by the head's `hiItm`, then recurses into the merge sibling with the outer bounds. A page that still holds pre-split deltas or base items above its old pivot gets them back into range when it absorbs its sibling. The result has a duplicate key, and Compact keeps it.
8. **snFilter's latch crosses keys past a rollback-masked item** (`mvcc.go:70-75`). An item the rollbackFilter drops returns before the latch is looked at, and the latch a delete set is cleared by the next item whatever its key. After `delete k1`, an insert of `k2` that Rollback masked, and an older insert of `k2` that it did not, the snapshot Rollback returns does not see `k2`, although the recovery point did (spec 8.7).

## 5. Proofs

`SnapshotsProofs` proves five theorems (FreedStaysFreedThm included) for every value of the constants. The
only assumptions are `MaxSn ∈ Nat`, `MaxSnSyncFrequency ∈ Nat \ {0}` and
`MaxRefs ∈ Nat \ {0}`.

- `TypeCorrect`: `Spec => []TypeOK`
- `NilChildSafe`: `Spec => []NoCloseOfNilChild`
- `InOrder`: `Spec => []ReleasedInOrder`
- `MaxSnSafe`: `Spec => []MaxSnAhead`

None of these invariants is inductive on its own. They all follow from the
inductive invariant `IInv`:

- **RefAccounting**: `refCount[s] = held[s] + CurrentRef(s) + ChainRef(s)`. Each reference is held by a caller, is the one the next NewSnapshot hands out (if `s` is current), or is the one the parent owes its child until the parent's cascade pays it (`s - 1` alive, `s - 1` in `gcDue`, or `s` in `closing`).
- **Unborn**: snapshots above `currSn` have no references, and nobody holds the current one.
- **ClosingOk**: a queued child close has a freed parent whose closer has passed `:147`.
- **GcDueOk**: a snapshot in `gcDue` is born and freed.
- **MaxSnInv**: `currSn = numSnCreated` and `lastMaxSn ≥ currSn + 1 + Dist(freq, numSnCreated)`. `Dist` is the number of snapshots until the next maxSn write.

The proof has one lemma per action (`NewSnapIInv`, `CloseIInv`,
`CloseChildIInv`, `GcAdvanceIInv`, `OpenIInv`). `ReleaseFacts` and
`ReleaseChain` say once what the shared decrement does: when it frees `s`, the
debt to `s`'s child moves from `s`'s count to `s` in `gcDue`, so no other
snapshot's ChainRef changes; `GcAdvance` moves it on from `gcDue` to `closing`. In each, one step per conjunct, and
RefAccounting is split on whether `t` is the touched snapshot, its child, or
another snapshot. The modular arithmetic rests on small lemmas:

- `ModRange`, `ModByDiv`, `ModUnique` and `ModZero`, checked by Z3;
- `ModSucc` and `ToNextWriteStep`, derived from them.

The TLC run `snapshots` also checks `IInv` on a small instance.

`PersistProofs` proves six theorems (HeadsAdvanceThm and LogAppendOnlyThm included) for every number of pages, goroutines and
versions. The only assumptions are `MaxVer ∈ Nat \ {0}`, `MaxJobs ∈ Nat` and
`Pids # {}`.

- `TypeCorrect`: `Spec => []PersistTypeOK`
- `NoDataLossThm`: `Spec => []NoDataLoss`
- `ReservationsFinalizedThm`: `Spec => []ReservationsFinalized`
- `FlushCoversStartThm`: `Spec => []FlushCoversStart`

The inductive invariant `IInv` is needed because NoDataLoss talks only about
the page table. A CAS installs a head the goroutine built earlier, so the
invariant must also say what every pending head promises. Its conjuncts are:

- **PageOK**: `dver ≤ fver ≤ ver`, and a flush record names an undiscarded block of its page at version `fver`.
- **PendingOK**: a goroutine about to CAS has the following facts. Its block exists with the version its new head's flush record claims. No current head names that block. A Persist's block is not yet finalized. Its new head is ordered as PageOK requires and is no older than the head it read.
- **EvictOK**: an evict-only CAS installs `Evict(seen, seen.foff)` of a head whose flush covered its content.
- **CoverOK**: PersistAll's goroutine never sees the page go below its start version, and its new head covers that version.
- **Distinct**: two pending goroutines own different blocks.
- **ReservationsFinalized** itself.

There is one lemma per action. `LocalStep` covers every step that changes only
the goroutine's own record, and `CoverMono` covers steps that only raise
versions. The TLC run `persist` also checks `IInv`.

`SnapshotsProofs` also states `SpecIInvThm` (`Spec => []IInv`) and proves
`GcSnOldestLiveThm`: `SpecNoRollback => []GcSnIsOldestLive`, on the three
steps of Close. GcSnIsOldestLive says that `gcDue` holds at most `gcSn`, and
that the freed snapshots are exactly those below `gcSn` plus the one in
`gcDue`: gcSn trails the frees by at most the one closer between `:146` and
`:147`. It is inductive once IInv is assumed alongside it. The step that needs
IInv is a decrement that frees `s`: RefAccounting counts the reference the
parent owes `s` while `s - 1` is alive or in `gcDue`, so `s` reaches zero only
after `s - 1` was freed and its closer passed `:147`. Then `gcDue` is empty
and `s = gcSn` (`ReleaseGcSn`, cited by `CloseGcSn` and `CloseChildGcSn`).
`GcAdvanceGcSn` is the increment of that closer. Rollback is excluded because
the property is false with it (finding 1), and no run checks it: the run that
checked it on a small instance was dropped for the violation run of finding 1.

`PersistProofs` also states `SpecIInv` (`Spec => []IInv`) and proves
`PersistNoOrphanBlockThm`: `Spec => []PersistNoOrphanBlock`. The inductive
invariant is `PersistBlocksPublished`: every finalized data block written by
Persist is published. A block is finalized only by a successful Persist CAS,
which publishes it at that step; IInv's PendingOK says a pending Persist block is
not finalized yet, so nothing else can finalize one. `PersistCasPBP` splits on
CAS success or failure and on whether the block is the goroutine's own.

Action properties are proved as `Spec => [][A]_vars`. The argument is that
the inductive invariant and one step of `Next` imply `A`; the last step is PTL.

- `FreedStaysFreedThm` (`SnapshotsProofs`): `Spec => FreedStaysFreed`. Lemma
  `FreedIsUnreachable` says what RefAccounting gives for a snapshot whose count
  is zero: no caller holds it, it is not current, and it is not in `closing`.
  Every action that changes a count is guarded by one of those three, so
  `NextFreed` follows with one step per action.
- `HeadsAdvanceThm` (`PersistProofs`): `Spec => HeadsAdvance`. The strengthening
  is `AdvInv`, which TLC checked on the persist configuration first:
  - `FoffInLog`: every flush offset a head names is `<= Len(lss)`.
  - `Advances`: a goroutine's pending new head is ahead of the head it read in
    all four fields. A flush names the block just reserved, past every head's
    offset; Evict and a rollback delta only raise versions.

  A successful CAS finds the head equal to the one read (`CasAdvances`).
  IInv is needed for PageOK (`dver <= fver <= ver`) and for PendingOK.
- `LogAppendOnlyThm` (`PersistProofs`): `Spec => LogAppendOnly`. Reads append a
  block. The only step that writes an existing block is Persist's CAS, on its
  own reservation, which PendingOK says is not finalized.

The following are only model-checked, not proved:

- ItemsTypeOK, and the snapshot-list invariants on the composed module. Their
  statements involve what the FoldLeft/FoldFunction filters (snFilter,
  gcFilter, SumCounts) compute for every item list, which needs induction over
  data. The library's induction theorems take an operator parameter that none
  of the installed provers can instantiate.
- GcProgress and CallsReturn. These are liveness under fairness, and ENABLED,
  which are out of TLAPS' reach here.
- GcSnIsOldestLive with Rollback. It does not hold there: Rollback moves gcSn
  to the returned snapshot while older ones are open (run `snapshots_gcsn_rollback`).
- The Page properties. `Page` declares RECURSIVE operators (Lookup,
  collectItems), and a module that reaches one loses its SMT backend.

## 6. What is not modelled, and why

- **Composition of `Persist` with `MVCC`.** In `MVCC`, PersistAll and the page walk change no MVCC state. `Persist` models them on their own, without the MVCC lock that serialises Rollback against CreateRecoveryPoint.
- **Page contents, segments and sizes in `Persist`.** Marshal, `numSegments`, the block-type choice (`pgFlushLSSType`) and the FlushDataSz accounting are left out. The properties are about which block a head names, not what it holds.
- **Flush and swapout deltas in `Page`.** `Persist` models them. `Page` is about the contents of the chain, not about where it is stored.
- **Concurrency on the page table.** Page operations are atomic steps in `Page`. The CAS of the page table is not under `src/`, and `Persist` models its races.
- **Items across pages in `MVCCItems`.** There is one page, so gcFilter's pending delete is never cut off at a page boundary. Writers' item inserts are atomic page operations (module `Page` models the chain).
- **marshalRPs / unmarshalRPs.** A byte-level round trip, planned as a pure-conversion check.
- **Page allocator, memcopy, minLSSOffset and skiplist tests.** These are memory accounting, byte copying and test code.
- **LSS writes, Sync and the `shouldPersist = false` path.** The maxSn and RP blocks are assumed to be written and synced, and the list the model stores is the one written.
- **The store's open/recovery code.** It is not under `src/`, so the initial state (a root snapshot, `lastMaxSn = 1`) is taken from the spec.

## 7. Plan for the remaining work

1. (Done: `Persist`, `PersistProofs`, `Page`.)
2. Add an abstract key/value map per key range, with `Page` shown to refine it. The `ref` ghost is the map, and LookupAgrees is the step towards it.
3. (Done: `Filters`, `MVCCItems`.) Next: state the snapshot stability that clients need against in-flight writers, once the callers' protocol is known.
4. Add `RPCodec`: the round trip of marshalRPs and unmarshalRPs.
5. (Done: GcSnIsOldestLive without Rollback, PersistNoOrphanBlock, and the action properties FreedStaysFreed, HeadsAdvance and LogAppendOnly.) Next: lemmas on the filters that do not need induction (one FoldLeft step at a time).
