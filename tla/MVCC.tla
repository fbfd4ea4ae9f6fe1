-------------------------------- MODULE MVCC --------------------------------
(***************************************************************************)
(* plasma's MVCC control surface (src/plasma/mvcc.go) on top of the        *)
(* snapshot list of module Snapshots:                                      *)
(*   - the per-writer item counters that InsertKV/DeleteKV bump without    *)
(*     any lock and that newSnapshot rolls up into itemsCount;             *)
(*   - the recovery-point list: CreateRecoveryPoint in its two locked      *)
(*     phases with Close and PersistAll in between, RemoveRecoveryPoint,   *)
(*     and Rollback, which serialises on the MVCC lock.                    *)
(* The page work of PersistAll and of Rollback's page walk is the subject  *)
(* of module Persist; here it changes no MVCC state.  The LSS blocks that  *)
(* updateRecoveryPoints writes are not modelled: the list written is       *)
(* always the one stored in recoveryPoints.  Meta bytes are left out.      *)
(***************************************************************************)
EXTENDS Snapshots, Integers, Sequences, FiniteSets, Functions

CONSTANTS
    Writers,       \* the Writer contexts (model values)
    Procs,         \* goroutines that call CreateRecoveryPoint
    MaxRPs,        \* bound on the length of the recovery-point list
    MaxWriterOps   \* bound on the InsertKV/DeleteKV calls of one writer

ASSUME MaxRPsAssumption == MaxRPs \in Nat
ASSUME MaxWriterOpsAssumption == MaxWriterOps \in Nat

VARIABLES
    itemsCount,      \* Plasma.itemsCount
    count,           \* count[w]: Writer.count
    wpc,             \* wpc[w]: "idle", or "store" between load and store of w.count
    wtmp,            \* wtmp[w]: the value w.count++ / w.count-- is about to store
    snapCount,       \* snapCount[s]: Snapshot.count of snapshot s
    recoveryPoints,  \* Plasma.recoveryPoints: a sequence of [sn, count]
    rpSns,           \* *Plasma.rpSns: the sns the compactor's GC keeps
    crp,             \* crp[p]: the CreateRecoveryPoint call of goroutine p
    netCount,        \* ghost: the net number of items the writers added
    wops,            \* ghost: InsertKV/DeleteKV calls made by each writer
    committed        \* ghost: sns of recovery points created and not removed

mvccVars == <<itemsCount, count, wpc, wtmp, snapCount, recoveryPoints, rpSns,
              crp, netCount, wops, committed>>
vars == <<snapVars, mvccVars>>

RP == [sn : SN, count : Int]
CrpPc == {"idle", "close", "commit"}

MVCCTypeOK ==
    /\ TypeOK
    /\ itemsCount \in Int
    /\ count \in [Writers -> Int]
    /\ wpc \in [Writers -> {"idle", "store"}]
    /\ wtmp \in [Writers -> Int]
    /\ snapCount \in [SN -> Int]
    /\ recoveryPoints \in Seq(RP)
    /\ rpSns \in Seq(SN)
    /\ crp \in [Procs -> [pc : CrpPc, snap : SN, rps : Seq(RP)]]
    /\ netCount \in Int
    /\ wops \in [Writers -> 0 .. MaxWriterOps]
    /\ committed \subseteq SN

MVCCInit ==
    /\ Init
    /\ itemsCount = 0
    /\ count = [w \in Writers |-> 0]
    /\ wpc = [w \in Writers |-> "idle"]
    /\ wtmp = [w \in Writers |-> 0]
    /\ snapCount = [s \in SN |-> 0]
    /\ recoveryPoints = << >>
    /\ rpSns = << >>
    /\ crp = [p \in Procs |-> [pc |-> "idle", snap |-> 0, rps |-> << >>]]
    /\ netCount = 0
    /\ wops = [w \in Writers |-> 0]
    /\ committed = {}

SumCounts(f) == FoldFunction(+, 0, f)

SnsOf(rps) == [i \in DOMAIN rps |-> rps[i].sn]

RPSnSet(rps) == {rps[i].sn : i \in DOMAIN rps}

(***************************************************************************)
(* The loop of newSnapshot over s.wlist: each writer's count is added to   *)
(* itemsCount (starting from base) and reset, and the returned snapshot,   *)
(* the old current one, records the total.  The loop reads and resets     *)
(* w.count while w's goroutine may be between the load and the store of   *)
(* its own w.count++.                                                      *)
(***************************************************************************)
RollUp(base) ==
    LET total == base + SumCounts(count) IN
    /\ itemsCount' = total
    /\ count' = [w \in Writers |-> 0]
    /\ snapCount' = [snapCount EXCEPT ![currSn] = total]

\* References that CreateRecoveryPoint calls hold on s and are yet to close.
Reserved(s) == Cardinality({p \in Procs : crp[p].pc = "close" /\ crp[p].snap = s})

\* Plasma.NewSnapshot, with the roll-up of the writers' counters.
MVCCNewSnapshot ==
    /\ NewSnapshot
    /\ RollUp(itemsCount)
    /\ UNCHANGED <<wpc, wtmp, recoveryPoints, rpSns, crp, netCount, wops, committed>>

\* Snapshot.Open and Snapshot.Close by a caller, on a reference it holds.
CallerOpen(s) ==
    /\ Open(s)
    /\ UNCHANGED mvccVars

CallerClose(s) ==
    /\ held[s] > Reserved(s)
    /\ Close(s)
    /\ UNCHANGED mvccVars

\* The rest of a Close that freed s: gcSn's increment, then s.child.Close().
CloserGcAdvance(s) ==
    /\ GcAdvance(s)
    /\ UNCHANGED mvccVars

ChildClose(s) ==
    /\ CloseChild(s)
    /\ UNCHANGED mvccVars

(***************************************************************************)
(* InsertKV (d = 1) and DeleteKV (d = -1): w.count++ / w.count-- is a     *)
(* plain load, add and store on a field newSnapshot also reads and resets. *)
(* The w.Insert into the page that follows is modelled in module Persist.  *)
(***************************************************************************)
WriterLoad(w, d) ==
    /\ wpc[w] = "idle"
    /\ wops[w] < MaxWriterOps
    /\ wpc' = [wpc EXCEPT ![w] = "store"]
    /\ wtmp' = [wtmp EXCEPT ![w] = count[w] + d]
    /\ wops' = [wops EXCEPT ![w] = @ + 1]
    /\ netCount' = netCount + d
    /\ UNCHANGED <<snapVars, itemsCount, count, snapCount, recoveryPoints,
                   rpSns, crp, committed>>

WriterStore(w) ==
    /\ wpc[w] = "store"
    /\ count' = [count EXCEPT ![w] = wtmp[w]]
    /\ wpc' = [wpc EXCEPT ![w] = "idle"]
    /\ UNCHANGED <<snapVars, itemsCount, wtmp, snapCount, recoveryPoints,
                   rpSns, crp, netCount, wops, committed>>

(***************************************************************************)
(* CreateRecoveryPoint(sn, meta), "Prepare" under the lock: the RP list    *)
(* with the new point appended is written (updateRecoveryPoints) and       *)
(* published to the GC (updateRPSns).  The goroutine keeps rps.            *)
(***************************************************************************)
CRPPrepare(p, s) ==
    LET rps == Append(recoveryPoints, [sn |-> s, count |-> snapCount[s]]) IN
    /\ crp[p].pc = "idle"
    /\ held[s] > Reserved(s)
    /\ Len(recoveryPoints) < MaxRPs
    /\ recoveryPoints' = rps
    /\ rpSns' = SnsOf(rps)
    /\ crp' = [crp EXCEPT ![p] = [pc |-> "close", snap |-> s, rps |-> rps]]
    /\ UNCHANGED <<snapVars, itemsCount, count, wpc, wtmp, snapCount,
                   netCount, wops, committed>>

\* sn.Close() and s.PersistAll() outside the lock.
CRPClose(p) ==
    /\ crp[p].pc = "close"
    /\ Close(crp[p].snap)
    /\ crp' = [crp EXCEPT ![p].pc = "commit"]
    /\ UNCHANGED <<itemsCount, count, wpc, wtmp, snapCount, recoveryPoints,
                   rpSns, netCount, wops, committed>>

\* "Commit" under the lock: updateRecoveryPoints(rps) with the rps of Prepare.
CRPCommit(p) ==
    /\ crp[p].pc = "commit"
    /\ recoveryPoints' = crp[p].rps
    /\ crp' = [crp EXCEPT ![p].pc = "idle"]
    /\ committed' = committed \cup {crp[p].snap}
    /\ UNCHANGED <<snapVars, itemsCount, count, wpc, wtmp, snapCount, rpSns,
                   netCount, wops>>

\* RemoveRecoveryPoint(rmRP): drop every point with rmRP's sn, write, publish.
RemoveRecoveryPoint(r) ==
    LET newRpts == SelectSeq(recoveryPoints, LAMBDA rp : rp.sn # r) IN
    /\ recoveryPoints' = newRpts
    /\ rpSns' = SnsOf(newRpts)
    /\ committed' = committed \ {r}
    /\ UNCHANGED <<snapVars, itemsCount, count, wpc, wtmp, snapCount, crp,
                   netCount, wops>>

(***************************************************************************)
(* Rollback(rollRP) under the lock: after the page walk (module Persist),  *)
(* itemsCount = rollRP.count, newSnapshot (whose roll-up adds the writers' *)
(* counters), the list truncated to sn <= rollRP.sn and written, and      *)
(* gcSn = newSnap.sn.  rpSns is left as it was.  The items written after   *)
(* the recovery point are masked, so netCount goes back to rollRP.count.   *)
(***************************************************************************)
Rollback(rollRP) ==
    /\ RollbackSnapshot
    /\ RollUp(rollRP.count)
    /\ recoveryPoints' = SelectSeq(recoveryPoints, LAMBDA rp : rp.sn <= rollRP.sn)
    /\ committed' = {c \in committed : c <= rollRP.sn}
    /\ netCount' = rollRP.count
    /\ UNCHANGED <<wpc, wtmp, rpSns, crp, wops>>

MVCCNextNoRollback ==
    \/ MVCCNewSnapshot
    \/ \E s \in SN : CallerOpen(s) \/ CallerClose(s) \/ CloserGcAdvance(s) \/ ChildClose(s)
    \/ \E w \in Writers : WriterLoad(w, 1) \/ WriterLoad(w, -1) \/ WriterStore(w)
    \/ \E p \in Procs :
          \/ \E s \in SN : CRPPrepare(p, s)
          \/ CRPClose(p)
          \/ CRPCommit(p)
    \/ \E r \in RPSnSet(recoveryPoints) : RemoveRecoveryPoint(r)

MVCCNext ==
    \/ MVCCNextNoRollback
    \/ \E i \in DOMAIN recoveryPoints : Rollback(recoveryPoints[i])

MVCCSpec == MVCCInit /\ [][MVCCNext]_vars

MVCCSpecNoRollback == MVCCInit /\ [][MVCCNextNoRollback]_vars

-----------------------------------------------------------------------------
(***************************************************************************)
(* Properties.                                                             *)
(***************************************************************************)

(***************************************************************************)
(* Count(): once no writer is in the middle of w.count++, itemsCount plus  *)
(* the writers' counters is the net number of items the writers added.     *)
(* newSnapshot resets w.count without synchronising with the writer.       *)
(***************************************************************************)
CountExact ==
    (\A w \in Writers : wpc[w] = "idle") => itemsCount + SumCounts(count) = netCount

(***************************************************************************)
(* A recovery point whose CreateRecoveryPoint returned stays in the list   *)
(* GetRecoveryPoints returns until it is removed or rolled back past, even *)
(* when several goroutines create recovery points at once.                 *)
(***************************************************************************)
NoLostRecoveryPoint ==
    \A c \in committed : c \in RPSnSet(recoveryPoints)

=============================================================================
