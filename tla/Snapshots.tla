------------------------------ MODULE Snapshots ------------------------------
(***************************************************************************)
(* The snapshot list of plasma's MVCC layer (src/plasma/mvcc.go).          *)
(*                                                                         *)
(* A Snapshot is named by its sequence number: newSnapshot takes the next  *)
(* value of currSn under the MVCC lock, so snapshot sn's child is sn + 1   *)
(* and the current snapshot is the one whose sn is currSn.  Each snapshot  *)
(* carries an atomic refCount.  A snapshot made by newSnapshot starts with *)
(* 2: one reference that the NEXT NewSnapshot hands to its caller (the     *)
(* function returns the previous current snapshot), and one that the      *)
(* parent releases when its own count reaches zero (Close recurses into    *)
(* s.child).  Every release of a snapshot advances gcSn by one.            *)
(*                                                                         *)
(* held[s] counts the references that callers hold on s: the one handed    *)
(* out by NewSnapshot, and one per Open (Snapshot.NewIterator).  A caller  *)
(* only closes a reference it holds (using a closed Snapshot is undefined  *)
(* behaviour by the spec), so held[s] > 0 guards Close.                    *)
(*                                                                         *)
(* Close is three atomic steps of one goroutine, and other goroutines may  *)
(* interleave between them: the decrement (mvcc.go:146), the increment of  *)
(* gcSn (:147) and the recursion s.child.Close() (:148).  gcDue holds the  *)
(* snapshots whose count has reached zero and whose closer has not yet     *)
(* advanced gcSn; closing holds the snapshots whose parent has done both   *)
(* and whose own decrement is still to come.                               *)
(***************************************************************************)
EXTENDS Naturals

CONSTANTS
    MaxSn,               \* bound on currSn: the number of NewSnapshot calls
    MaxSnSyncFrequency,  \* Config.MaxSnSyncFrequency
    MaxRefs              \* bound on the references callers hold on one snapshot

ASSUME MaxSnAssumption == MaxSn \in Nat
ASSUME FreqAssumption == MaxSnSyncFrequency \in Nat \ {0}
ASSUME MaxRefsAssumption == MaxRefs \in Nat \ {0}

VARIABLES
    currSn,        \* Plasma.currSn, also the sn of Plasma.currSnapshot
    refCount,      \* refCount[s]: Snapshot.refCount of snapshot s
    held,          \* held[s]: references on s held by callers
    gcDue,         \* snapshots freed at mvcc.go:146 whose closer is yet to run :147
    closing,       \* snapshots whose parent's Close is about to close them
    gcSn,          \* Plasma.gcSn
    numSnCreated,  \* Plasma.numSnCreated
    lastMaxSn      \* Plasma.lastMaxSn: the maxSn last written and synced

snapVars == <<currSn, refCount, held, gcDue, closing, gcSn, numSnCreated, lastMaxSn>>

SN == 0 .. MaxSn

TypeOK ==
    /\ currSn \in SN
    /\ refCount \in [SN -> Nat]
    /\ held \in [SN -> 0 .. MaxRefs]
    /\ gcDue \subseteq SN
    /\ closing \subseteq SN
    /\ gcSn \in Nat
    /\ numSnCreated \in Nat
    /\ lastMaxSn \in Nat

(***************************************************************************)
(* The store is opened with a single root snapshot 0 which is current and  *)
(* has no parent, so its only reference is the one the first NewSnapshot   *)
(* hands out.  lastMaxSn > currSn at open: recovery restarts currSn from   *)
(* the stored maxSn (that code is not under src/).                         *)
(***************************************************************************)
Init ==
    /\ currSn = 0
    /\ refCount = [s \in SN |-> IF s = 0 THEN 1 ELSE 0]
    /\ held = [s \in SN |-> 0]
    /\ gcDue = {}
    /\ closing = {}
    /\ gcSn = 0
    /\ numSnCreated = 0
    /\ lastMaxSn = 1

(***************************************************************************)
(* updateMaxSn(sn, false) with shouldPersist: every MaxSnSyncFrequency-th  *)
(* snapshot (the first included) writes an lssMaxSn block holding          *)
(* sn + freq + 1, syncs it, and records it in lastMaxSn.                   *)
(***************************************************************************)
\* Mutant: the block holds sn + freq - 1 (an off-by-one in maxSn).
UpdateMaxSnShort(sn) ==
    /\ lastMaxSn' = IF numSnCreated % MaxSnSyncFrequency = 0
                       THEN sn + MaxSnSyncFrequency - 1
                       ELSE lastMaxSn
    /\ numSnCreated' = numSnCreated + 1

UpdateMaxSn(sn) ==
    /\ lastMaxSn' = IF numSnCreated % MaxSnSyncFrequency = 0
                       THEN sn + MaxSnSyncFrequency + 1
                       ELSE lastMaxSn
    /\ numSnCreated' = numSnCreated + 1

(***************************************************************************)
(* newSnapshot: the next snapshot gets sn = currSn + 1 and refCount 2, it  *)
(* becomes the child of the current one and the new current one; the old  *)
(* current snapshot is returned, so its caller now holds a reference.      *)
(***************************************************************************)
\* Mutant: the new snapshot starts with refCount 1 (the parent's reference forgotten).
NewSnapRefOne ==
    /\ currSn < MaxSn
    /\ currSn' = currSn + 1
    /\ refCount' = [refCount EXCEPT ![currSn + 1] = 1]
    /\ held' = [held EXCEPT ![currSn] = @ + 1]
    /\ UpdateMaxSn(currSn + 1)

NewSnap ==
    /\ currSn < MaxSn
    /\ currSn' = currSn + 1
    /\ refCount' = [refCount EXCEPT ![currSn + 1] = 2]
    /\ held' = [held EXCEPT ![currSn] = @ + 1]
    /\ UpdateMaxSn(currSn + 1)

\* Plasma.NewSnapshot.
NewSnapshot ==
    /\ NewSnap
    /\ UNCHANGED <<gcDue, closing, gcSn>>

\* The snapshot part of Plasma.Rollback: newSnapshot, then gcSn = newSnap.sn.
RollbackSnapshot ==
    /\ NewSnap
    /\ gcSn' = currSn
    /\ UNCHANGED <<gcDue, closing>>

(***************************************************************************)
(* atomic.AddInt32(&s.refCount, -1) (mvcc.go:146): when the count reaches  *)
(* zero, the closer goes on to :147 and :148.                              *)
(***************************************************************************)
\* Mutant: the closer goes on one decrement early (count tested before it).
ReleaseEarly(s) ==
    /\ refCount' = [refCount EXCEPT ![s] = @ - 1]
    /\ gcDue' = IF refCount[s] = 2 THEN gcDue \cup {s} ELSE gcDue

Release(s) ==
    /\ refCount' = [refCount EXCEPT ![s] = @ - 1]
    /\ gcDue' = IF refCount[s] = 1 THEN gcDue \cup {s} ELSE gcDue

\* Snapshot.Close by a caller (also MVCCIterator.Close).
Close(s) ==
    /\ held[s] > 0
    /\ held' = [held EXCEPT ![s] = @ - 1]
    /\ Release(s)
    /\ UNCHANGED <<currSn, closing, gcSn, numSnCreated, lastMaxSn>>

\* The recursive s.child.Close() of a parent whose count reached zero.
\* Mutant: the cascading close of the child may run a second time.
CloseChildTwice(s) ==
    /\ s \in closing
    /\ Release(s)
    /\ UNCHANGED <<currSn, held, closing, gcSn, numSnCreated, lastMaxSn>>

CloseChild(s) ==
    /\ s \in closing
    /\ Release(s)
    /\ closing' = closing \ {s}
    /\ UNCHANGED <<currSn, held, gcSn, numSnCreated, lastMaxSn>>

(***************************************************************************)
(* atomic.AddUint64(&s.db.gcSn, 1) (mvcc.go:147) by the goroutine whose    *)
(* decrement freed s, which then calls s.child.Close() (:148).  The        *)
(* current snapshot has no child: that call would dereference nil, so no   *)
(* close is queued, and NoCloseOfNilChild below says it never happens.     *)
(***************************************************************************)
\* Mutant: the freed snapshot's closer never calls s.child.Close().
GcAdvanceNoCascade(s) ==
    /\ s \in gcDue
    /\ gcSn' = gcSn + 1
    /\ gcDue' = gcDue \ {s}
    /\ UNCHANGED <<currSn, refCount, held, closing, numSnCreated, lastMaxSn>>

GcAdvance(s) ==
    /\ s \in gcDue
    /\ gcSn' = gcSn + 1
    /\ gcDue' = gcDue \ {s}
    /\ closing' = closing \cup (IF s < currSn THEN {s + 1} ELSE {})
    /\ UNCHANGED <<currSn, refCount, held, numSnCreated, lastMaxSn>>

\* Snapshot.Open, called by Snapshot.NewIterator on a snapshot the caller holds.
Open(s) ==
    /\ held[s] > 0
    /\ held[s] < MaxRefs
    /\ held' = [held EXCEPT ![s] = @ + 1]
    /\ refCount' = [refCount EXCEPT ![s] = @ + 1]
    /\ UNCHANGED <<currSn, gcDue, closing, gcSn, numSnCreated, lastMaxSn>>

Next ==
    \/ NewSnapshot
    \/ RollbackSnapshot
    \/ \E s \in SN : Close(s) \/ GcAdvance(s) \/ CloseChild(s) \/ Open(s)

Spec == Init /\ [][Next]_snapVars

\* The snapshot lifecycle without Rollback.
NextNoRollback ==
    \/ NewSnapshot
    \/ \E s \in SN : Close(s) \/ GcAdvance(s) \/ CloseChild(s) \/ Open(s)

SpecNoRollback == Init /\ [][NextNoRollback]_snapVars

(***************************************************************************)
(* The increment of gcSn and s.child.Close() are plain statements of the   *)
(* goroutine whose decrement reached zero, right after it: once due they   *)
(* are taken, so both are weakly fair.  Callers are under no obligation to *)
(* close.                                                                  *)
(***************************************************************************)
SpecFair ==
    /\ Spec
    /\ \A s \in SN : WF_snapVars(GcAdvance(s)) /\ WF_snapVars(CloseChild(s))

-----------------------------------------------------------------------------
(***************************************************************************)
(* Properties.                                                             *)
(***************************************************************************)

(***************************************************************************)
(* Snapshot.Close recurses into s.child when s's count reaches zero; the   *)
(* current snapshot has a nil child.  So the current snapshot's count must *)
(* never reach zero, whatever the order in which callers, iterators and    *)
(* cascading parent closes release their references.                      *)
(***************************************************************************)
NoCloseOfNilChild == refCount[currSn] > 0

(***************************************************************************)
(* Snapshots are released in SN order: a snapshot is never freed while an  *)
(* older one is still alive (the parent's reference pins the child).       *)
(***************************************************************************)
ReleasedInOrder ==
    \A s \in 1 .. currSn : refCount[s] = 0 => refCount[s - 1] = 0

(***************************************************************************)
(* Without Rollback, gcSn, advanced once per freed snapshot, trails the    *)
(* frees by at most the one closer between mvcc.go:146 and :147: the       *)
(* snapshots below gcSn are exactly the freed ones whose closer has        *)
(* advanced gcSn, and a freed snapshot still in gcDue is snapshot gcSn.    *)
(* So the compactor never takes a live snapshot for a dead one.            *)
(***************************************************************************)
GcSnIsOldestLive ==
    /\ gcDue \subseteq {gcSn}
    /\ \A s \in 0 .. currSn : (refCount[s] = 0) <=> (s < gcSn \/ s \in gcDue)

(***************************************************************************)
(* The maxSn synced by updateMaxSn stays ahead of every sn handed out, so  *)
(* a store recovered from the log restarts above every sn in use.          *)
(***************************************************************************)
MaxSnAhead == currSn < lastMaxSn

(***************************************************************************)
(* Snapshot memory is reclaimed: once no caller holds a snapshot, a newer  *)
(* one exists and its parent is freed, the cascade of Closes frees it.     *)
(***************************************************************************)
GcProgress ==
    \A s \in SN :
        (s < currSn /\ held[s] = 0 /\ (s = 0 \/ refCount[s - 1] = 0)) ~> (refCount[s] = 0)

(***************************************************************************)
(* A freed snapshot stays freed: once a snapshot's count has reached zero  *)
(* (its memory is reclaimed), no Open of an iterator, no caller's Close    *)
(* and no cascading s.child.Close() touches its refCount again.  A second *)
(* cascade into the same child, or a Close through a stale reference,      *)
(* would decrement freed memory.                                           *)
(***************************************************************************)
FreedStaysFreed ==
    [][\A s \in 0 .. currSn : refCount[s] = 0 => refCount'[s] = 0]_snapVars

(***************************************************************************)
(* The GC watermark never passes the current snapshot.                     *)
(***************************************************************************)
GcSnNotAhead == gcSn <= currSn

=============================================================================
