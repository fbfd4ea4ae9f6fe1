--------------------------- MODULE SnapshotsProofs ---------------------------
(***************************************************************************)
(* Proofs about the snapshot list of plasma's MVCC layer (module           *)
(* Snapshots): type correctness, that Snapshot.Close never recurses into   *)
(* the nil child of the current snapshot, that snapshots are released in   *)
(* SN order, and that the synced maxSn stays ahead of currSn, for every    *)
(* value of the constants.                                                 *)
(***************************************************************************)
EXTENDS Snapshots, Integers, TLAPS

\* The reference that snapshot s's parent, or the parent's closer, still owes it.
ChainRef(s) ==
    IF s > 0 /\ (refCount[s - 1] > 0 \/ s - 1 \in gcDue \/ s \in closing) THEN 1 ELSE 0

\* The reference the next NewSnapshot will hand to its caller.
CurrentRef(s) == IF s = currSn THEN 1 ELSE 0

(***************************************************************************)
(* Every reference is accounted for: a snapshot's count is what callers    *)
(* hold, plus the one the next NewSnapshot hands out if it is current,     *)
(* plus the one its parent owes it until the parent's Close cascades.      *)
(***************************************************************************)
RefAccounting ==
    \A s \in 0 .. currSn : refCount[s] = held[s] + CurrentRef(s) + ChainRef(s)

\* Snapshots not made yet have no references, and no caller holds the current one.
Unborn ==
    /\ \A s \in SN : s > currSn => refCount[s] = 0 /\ held[s] = 0
    /\ held[currSn] = 0

\* A queued child Close comes from a freed parent whose closer has passed :147.
ClosingOk == \A s \in closing : s \in 1 .. currSn /\ refCount[s - 1] = 0 /\ s - 1 \notin gcDue

\* A closer between mvcc.go:146 and :147 has freed a snapshot that exists.
GcDueOk == \A s \in gcDue : s \in 0 .. currSn /\ refCount[s] = 0

(***************************************************************************)
(* currSn advances with numSnCreated, and the synced maxSn is ahead of     *)
(* currSn by at least the snapshots still to come before the next write.   *)
(***************************************************************************)
Dist(F, n) == IF n % F = 0 THEN 0 ELSE F - (n % F)

ToNextWrite == Dist(MaxSnSyncFrequency, numSnCreated)

MaxSnInv ==
    /\ currSn = numSnCreated
    /\ lastMaxSn >= currSn + 1 + ToNextWrite

IInv ==
    /\ TypeOK
    /\ Unborn
    /\ ClosingOk
    /\ GcDueOk
    /\ RefAccounting
    /\ MaxSnInv

-----------------------------------------------------------------------------
USE MaxSnAssumption, FreqAssumption, MaxRefsAssumption

(***************************************************************************)
(* Facts about n % F for a divisor F > 0 that is not a literal, which the  *)
(* SMT backend only finds one at a time.                                   *)
(***************************************************************************)
LEMMA ModRange ==
    ASSUME NEW F \in Nat \ {0}, NEW n \in Nat
    PROVE  n % F \in 0 .. F - 1
BY Z3T(30)

LEMMA ModByDiv ==
    ASSUME NEW F \in Nat \ {0}, NEW n \in Nat
    PROVE  /\ n \div F \in Int
           /\ n % F = n - F * (n \div F)
BY Z3T(30)

LEMMA ModUnique ==
    ASSUME NEW F \in Nat \ {0}, NEW n \in Nat, NEW q \in Int, NEW r \in 0 .. F - 1,
           n = F * q + r
    PROVE  n % F = r
BY Z3T(30)

LEMMA ModZero ==
    ASSUME NEW F \in Nat \ {0}, NEW m \in Nat, NEW k \in Int, m = F * k
    PROVE  m % F = 0
BY Z3T(30)
\* Adding one to n moves n % F up by one, wrapping from F - 1 to 0.
LEMMA ModSucc ==
    ASSUME NEW F \in Nat \ {0}, NEW n \in Nat
    PROVE  (n + 1) % F = IF n % F = F - 1 THEN 0 ELSE (n % F) + 1
<1>1. PICK q \in Int : q = n \div F
  BY ModByDiv
<1>2. PICK r \in 0 .. F - 1 : r = n % F
  BY ModRange
<1>3. PICK y \in Int : y = F * q
  OBVIOUS
<1>4. n = y + r
  <2>1. r = n - y
    BY <1>1, <1>2, <1>3, ModByDiv
  <2>2. QED
    BY <2>1
<1>5. CASE r = F - 1
  <2>1. PICK k \in Int : k = q + 1
    OBVIOUS
  <2>2. n + 1 = F * k
    BY <1>3, <1>4, <1>5, <2>1
  <2>3. PICK m \in Nat : m = n + 1
    OBVIOUS
  <2>5. m % F = 0
    BY <2>2, <2>3, ModZero, Zenon
  <2>6. (n + 1) % F = 0
    BY <2>3, <2>5
  <2>4. QED
    BY <1>2, <1>5, <2>6
<1>6. CASE r # F - 1
  <2>1. n + 1 = F * q + (r + 1) /\ r + 1 \in 0 .. F - 1
    BY <1>2, <1>3, <1>4, <1>6
  <2>2. PICK m \in Nat : m = n + 1
    OBVIOUS
  <2>3. m % F = r + 1
    BY <2>1, <2>2, ModUnique, Zenon
  <2>4. QED
    BY <1>2, <1>6, <2>2, <2>3
<1>7. QED
  BY <1>5, <1>6

\* One NewSnapshot moves the distance to the next maxSn write.
LEMMA ToNextWriteStep ==
    ASSUME NEW F \in Nat \ {0}, NEW n \in Nat
    PROVE  /\ Dist(F, n + 1) \in 0 .. F - 1
           /\ n % F # 0 => Dist(F, n) = Dist(F, n + 1) + 1
<1>1. (n + 1) % F \in 0 .. F - 1 /\ n % F \in 0 .. F - 1
  BY ModRange
<1>2. (n + 1) % F = IF n % F = F - 1 THEN 0 ELSE (n % F) + 1
  BY ModSucc
<1>3. QED
  BY <1>1, <1>2 DEF Dist

LEMMA InitIInv == Init => IInv
BY DEF Init, IInv, TypeOK, Unborn, ClosingOk, GcDueOk, RefAccounting, MaxSnInv,
       ToNextWrite, Dist, CurrentRef, ChainRef, SN

(***************************************************************************)
(* NewSnapshot and the snapshot part of Rollback: the new snapshot starts  *)
(* with its two references, and the reference the old current snapshot    *)
(* kept for the next NewSnapshot passes to that call's caller.            *)
(***************************************************************************)
LEMMA NewSnapIInv ==
    ASSUME IInv, NewSnap, closing' = closing, gcDue' = gcDue, gcSn' \in Nat
    PROVE  IInv'
<1> USE DEF IInv, TypeOK, SN
<1>1. /\ currSn < MaxSn /\ currSn' = currSn + 1
      /\ refCount' = [refCount EXCEPT ![currSn + 1] = 2]
      /\ held' = [held EXCEPT ![currSn] = @ + 1]
      /\ numSnCreated' = numSnCreated + 1
      /\ lastMaxSn' = IF numSnCreated % MaxSnSyncFrequency = 0
                        THEN currSn + 1 + MaxSnSyncFrequency + 1
                        ELSE lastMaxSn
  BY DEF NewSnap, UpdateMaxSn
<1>2. held[currSn] = 0 /\ refCount[currSn] >= 1
  BY DEF Unborn, RefAccounting, CurrentRef, ChainRef
<1>3. TypeOK'
  <2>1. currSn' \in SN /\ refCount' \in [SN -> Nat]
    BY <1>1
  <2>2. held' \in [SN -> 0 .. MaxRefs]
    BY <1>1, <1>2
  <2>3. numSnCreated' \in Nat /\ lastMaxSn' \in Nat
    BY <1>1
  <2>4. QED
    BY <2>1, <2>2, <2>3
<1>4. Unborn'
  BY <1>1, <1>2 DEF Unborn
<1>5. ClosingOk' /\ GcDueOk'
  <2>1. \A g \in gcDue : g \in 0 .. currSn
    BY DEF GcDueOk
  <2>2. QED
    BY <1>1, <2>1 DEF ClosingOk, GcDueOk
<1>6. RefAccounting'
  <2> SUFFICES ASSUME NEW t \in 0 .. currSn'
               PROVE  refCount'[t] = held'[t] + CurrentRef(t)' + ChainRef(t)'
    BY DEF RefAccounting
  <2>1. CASE t = currSn + 1
    <3>1. refCount'[t] = 2 /\ held'[t] = 0 /\ CurrentRef(t)' = 1
      BY <1>1, <2>1 DEF Unborn, CurrentRef
    <3>2. ChainRef(t)' = 1
      BY <1>1, <1>2, <2>1 DEF ChainRef
    <3>3. QED
      BY <3>1, <3>2
  <2>2. CASE t = currSn
    <3>1. refCount'[t] = refCount[t] /\ held'[t] = held[t] + 1
          /\ CurrentRef(t)' = 0 /\ CurrentRef(t) = 1
      BY <1>1, <2>2 DEF CurrentRef
    <3>2. ChainRef(t)' = ChainRef(t)
      BY <1>1, <2>2 DEF ChainRef
    <3>3. QED
      BY <3>1, <3>2, <2>2 DEF RefAccounting
  <2>3. CASE t < currSn
    <3>1. refCount'[t] = refCount[t] /\ held'[t] = held[t]
          /\ CurrentRef(t)' = CurrentRef(t)
      BY <1>1, <2>3 DEF CurrentRef
    <3>2. ChainRef(t)' = ChainRef(t)
      <4>1. t > 0 => refCount'[t - 1] = refCount[t - 1]
        BY <1>1, <2>3
      <4>2. QED
        BY <4>1, <1>1 DEF ChainRef
    <3>3. QED
      BY <3>1, <3>2, <2>3 DEF RefAccounting
  <2>4. QED
    BY <1>1, <2>1, <2>2, <2>3
<1>7. MaxSnInv'
  <2>1. numSnCreated \in Nat /\ currSn = numSnCreated
        /\ lastMaxSn >= numSnCreated + 1 + Dist(MaxSnSyncFrequency, numSnCreated)
    BY DEF MaxSnInv, ToNextWrite
  <2>2. /\ Dist(MaxSnSyncFrequency, numSnCreated + 1) \in 0 .. MaxSnSyncFrequency - 1
        /\ numSnCreated % MaxSnSyncFrequency # 0 =>
             Dist(MaxSnSyncFrequency, numSnCreated)
             = Dist(MaxSnSyncFrequency, numSnCreated + 1) + 1
    BY <2>1, ToNextWriteStep
  <2>3. ToNextWrite' = Dist(MaxSnSyncFrequency, numSnCreated + 1)
    BY <1>1 DEF ToNextWrite
  <2>4. CASE numSnCreated % MaxSnSyncFrequency = 0
    BY <1>1, <2>1, <2>2, <2>3, <2>4 DEF MaxSnInv
  <2>5. CASE numSnCreated % MaxSnSyncFrequency # 0
    BY <1>1, <2>1, <2>2, <2>3, <2>5 DEF MaxSnInv
  <2>6. QED
    BY <2>4, <2>5
<1>8. QED
  BY <1>3, <1>4, <1>5, <1>6, <1>7

(***************************************************************************)
(* The decrement of Snapshot.Close (mvcc.go:146), by a caller or by the    *)
(* parent's cascade: when it frees s, the debt to s's child passes from    *)
(* s's count to s's closer in gcDue, so no other snapshot's ChainRef moves.*)
(***************************************************************************)
LEMMA ReleaseFacts ==
    ASSUME IInv, NEW s \in 0 .. currSn, refCount[s] >= 1, Release(s),
           currSn' = currSn
    PROVE  /\ refCount' \in [SN -> Nat]
           /\ gcDue' \subseteq SN
           /\ \A g \in gcDue' : g \in 0 .. currSn' /\ refCount'[g] = 0
           /\ \A c \in closing : c - 1 # s
           /\ \A t \in 0 .. currSn : t # s => refCount'[t] = refCount[t]
           /\ \A t \in 0 .. currSn : t - 1 # s /\ t - 1 \in gcDue' <=> t - 1 # s /\ t - 1 \in gcDue
           /\ (refCount'[s] > 0 \/ s \in gcDue')
<1> USE DEF IInv, TypeOK, SN
<1>1. /\ refCount' = [refCount EXCEPT ![s] = @ - 1]
      /\ gcDue' = IF refCount[s] = 1 THEN gcDue \cup {s} ELSE gcDue
  BY DEF Release
<1>2. \A c \in closing : c - 1 # s
  <2> SUFFICES ASSUME NEW c \in closing PROVE c - 1 # s
    OBVIOUS
  <2>1. refCount[c - 1] = 0
    BY DEF ClosingOk
  <2>2. refCount[s] # 0
    OBVIOUS
  <2> QED
    BY <2>1, <2>2, Zenon
<1>3. s \notin gcDue
  BY DEF GcDueOk
<1>4. \A g \in gcDue' : g \in 0 .. currSn' /\ refCount'[g] = 0
  BY <1>1, <1>3 DEF GcDueOk
<1>5. QED
  BY <1>1, <1>2, <1>4

\* A release of s moves the parent debt of no snapshot but s itself.
LEMMA ReleaseChain ==
    ASSUME IInv, NEW s \in 0 .. currSn, refCount[s] >= 1, Release(s),
           currSn' = currSn, NEW t \in 0 .. currSn, t # s,
           t \in closing' <=> t \in closing
    PROVE  ChainRef(t)' = ChainRef(t)
<1> USE DEF IInv, TypeOK, SN
<1>1. /\ \A u \in 0 .. currSn : u # s => refCount'[u] = refCount[u]
      /\ \A u \in 0 .. currSn : u - 1 # s /\ u - 1 \in gcDue' <=> u - 1 # s /\ u - 1 \in gcDue
      /\ (refCount'[s] > 0 \/ s \in gcDue')
  BY ReleaseFacts
<1>2. CASE t = s + 1
  BY <1>1, <1>2 DEF ChainRef
<1>3. CASE t # s + 1 /\ t > 0
  <2>1. refCount'[t - 1] = refCount[t - 1] /\ (t - 1 \in gcDue' <=> t - 1 \in gcDue)
    BY <1>1, <1>3
  <2>2. QED
    BY <2>1, <1>3 DEF ChainRef
<1>4. CASE t = 0
  BY <1>4 DEF ChainRef
<1>5. QED
  BY <1>2, <1>3, <1>4

(***************************************************************************)
(* Snapshot.Close by a caller: one of its references goes.                 *)
(***************************************************************************)
LEMMA CloseIInv ==
    ASSUME IInv, NEW s \in SN, Close(s)
    PROVE  IInv'
<1> USE DEF IInv, TypeOK, SN
<1>1. /\ held[s] > 0
      /\ held' = [held EXCEPT ![s] = @ - 1]
      /\ refCount' = [refCount EXCEPT ![s] = @ - 1]
      /\ Release(s)
      /\ UNCHANGED <<currSn, closing, gcSn, numSnCreated, lastMaxSn>>
  BY DEF Close, Release
<1>2. s \in 0 .. currSn /\ s # currSn
  BY <1>1 DEF Unborn
<1>3. refCount[s] = held[s] + ChainRef(s) /\ refCount[s] >= 1
  BY <1>1, <1>2 DEF RefAccounting, CurrentRef, ChainRef
<1>4. /\ refCount' \in [SN -> Nat]
      /\ gcDue' \subseteq SN
      /\ \A g \in gcDue' : g \in 0 .. currSn' /\ refCount'[g] = 0
      /\ \A c \in closing : c - 1 # s
      /\ \A t \in 0 .. currSn : t - 1 # s /\ t - 1 \in gcDue' <=> t - 1 # s /\ t - 1 \in gcDue
  BY <1>1, <1>2, <1>3, ReleaseFacts
<1>6. TypeOK'
  <2>1. held' \in [SN -> 0 .. MaxRefs]
    BY <1>1
  <2>2. UNCHANGED <<currSn, closing, gcSn, numSnCreated, lastMaxSn>>
    BY <1>1
  <2> QED
    BY <1>4, <2>1, <2>2
<1>7. Unborn'
  BY <1>1, <1>2 DEF Unborn
<1>8. ClosingOk'
  <2> SUFFICES ASSUME NEW c \in closing
               PROVE  c \in 1 .. currSn /\ refCount'[c - 1] = 0 /\ c - 1 \notin gcDue'
    BY <1>1 DEF ClosingOk
  <2>1. c \in 1 .. currSn /\ refCount[c - 1] = 0 /\ c - 1 \notin gcDue /\ c - 1 # s
    BY <1>4 DEF ClosingOk
  <2>2. refCount'[c - 1] = refCount[c - 1] /\ c - 1 \notin gcDue'
    BY <1>1, <1>4, <2>1
  <2> QED
    BY <2>1, <2>2
<1>9. GcDueOk'
  BY <1>4 DEF GcDueOk
<1>10. RefAccounting'
  <2> SUFFICES ASSUME NEW t \in 0 .. currSn
               PROVE  refCount'[t] = held'[t] + CurrentRef(t)' + ChainRef(t)'
    BY <1>1 DEF RefAccounting
  <2>1. refCount[t] = held[t] + CurrentRef(t) + ChainRef(t) /\ CurrentRef(t)' = CurrentRef(t)
    BY <1>1 DEF RefAccounting, CurrentRef
  <2>0. /\ CurrentRef(t) \in {0, 1} /\ ChainRef(t) \in {0, 1}
    BY DEF CurrentRef, ChainRef
  <2>2. CASE t = s
    <3>1. ChainRef(t)' = ChainRef(t)
      <4>1. t > 0 => refCount'[t - 1] = refCount[t - 1] /\ (t - 1 \in gcDue' <=> t - 1 \in gcDue)
        BY <1>1, <1>2, <1>4, <2>2
      <4>2. QED
        BY <4>1, <1>1 DEF ChainRef
    <3>2. refCount'[t] = refCount[t] - 1 /\ held'[t] = held[t] - 1
      BY <1>1, <1>2, <2>2
    <3>3. refCount[t] \in Nat /\ held[t] \in Nat
      OBVIOUS
    <3> HIDE DEF IInv
    <3>4. QED
      BY <2>0, <2>1, <3>1, <3>2, <3>3
  <2>3. CASE t # s
    <3>1. ChainRef(t)' = ChainRef(t)
      BY <1>1, <1>2, <1>3, <2>3, ReleaseChain
    <3>2. refCount'[t] = refCount[t] /\ held'[t] = held[t]
      BY <1>1, <2>3
    <3>3. QED
      BY <2>1, <3>1, <3>2
  <2>5. QED
    BY <2>2, <2>3
<1>11. MaxSnInv'
  BY <1>1 DEF MaxSnInv, ToNextWrite
<1>12. QED
  BY <1>6, <1>7, <1>8, <1>9, <1>10, <1>11

(***************************************************************************)
(* The cascading s.child.Close() of a parent whose closer has passed       *)
(* :147: it pays the parent's debt, and if it frees s its own closer now   *)
(* owes s's child.                                                         *)
(***************************************************************************)
LEMMA CloseChildIInv ==
    ASSUME IInv, NEW s \in SN, CloseChild(s)
    PROVE  IInv'
<1> USE DEF IInv, TypeOK, SN
<1>1. /\ s \in closing
      /\ refCount' = [refCount EXCEPT ![s] = @ - 1]
      /\ Release(s)
      /\ closing' = closing \ {s}
      /\ UNCHANGED <<currSn, held, gcSn, numSnCreated, lastMaxSn>>
  BY DEF CloseChild, Release
<1>2. s \in 1 .. currSn /\ refCount[s - 1] = 0 /\ s - 1 \notin gcDue /\ ChainRef(s) = 1
  BY <1>1 DEF ClosingOk, ChainRef
<1>3. refCount[s] = held[s] + CurrentRef(s) + 1 /\ refCount[s] >= 1
  <2>1. refCount[s] = held[s] + CurrentRef(s) + ChainRef(s)
    BY <1>2 DEF RefAccounting
  <2>2. CurrentRef(s) \in {0, 1}
    BY DEF CurrentRef
  <2>3. QED
    BY <1>2, <2>1, <2>2
<1>0. Release(s) /\ s \in 0 .. currSn /\ currSn' = currSn
  BY <1>2 DEF CloseChild
<1>4. /\ refCount' \in [SN -> Nat]
      /\ gcDue' \subseteq SN
      /\ \A g \in gcDue' : g \in 0 .. currSn' /\ refCount'[g] = 0
      /\ \A c \in closing : c - 1 # s
      /\ \A t \in 0 .. currSn : t - 1 # s /\ t - 1 \in gcDue' <=> t - 1 # s /\ t - 1 \in gcDue
  BY <1>0, <1>3, ReleaseFacts
<1>7. TypeOK'
  BY <1>1, <1>4
<1>8. Unborn'
  BY <1>1, <1>2 DEF Unborn
<1>9. ClosingOk'
  <2> SUFFICES ASSUME NEW c \in closing, c # s
               PROVE  c \in 1 .. currSn /\ refCount'[c - 1] = 0 /\ c - 1 \notin gcDue'
    BY <1>1 DEF ClosingOk
  <2>1. c \in 1 .. currSn /\ refCount[c - 1] = 0 /\ c - 1 \notin gcDue /\ c - 1 # s
    BY <1>4 DEF ClosingOk
  <2>2. refCount'[c - 1] = refCount[c - 1] /\ c - 1 \notin gcDue'
    BY <1>1, <1>4, <2>1
  <2> QED
    BY <2>1, <2>2
<1>10. GcDueOk'
  BY <1>1, <1>4 DEF GcDueOk
<1>11. RefAccounting'
  <2> SUFFICES ASSUME NEW t \in 0 .. currSn
               PROVE  refCount'[t] = held'[t] + CurrentRef(t)' + ChainRef(t)'
    BY <1>1 DEF RefAccounting
  <2>1. refCount[t] = held[t] + CurrentRef(t) + ChainRef(t) /\ CurrentRef(t)' = CurrentRef(t)
    BY <1>1 DEF RefAccounting, CurrentRef
  <2>0. /\ CurrentRef(t) \in {0, 1} /\ ChainRef(t) \in {0, 1}
    BY DEF CurrentRef, ChainRef
  <2>2. CASE t = s
    <3>1. refCount'[s - 1] = 0 /\ s - 1 \notin gcDue' /\ s \notin closing'
      BY <1>1, <1>2, <1>4
    <3>2. ChainRef(t)' = 0
      BY <3>1, <2>2 DEF ChainRef
    <3>3. refCount'[t] = refCount[t] - 1 /\ held'[t] = held[t]
      BY <1>1, <1>2, <2>2
    <3>4. QED
      BY <1>2, <2>0, <2>1, <2>2, <3>2, <3>3
  <2>3. CASE t # s
    <3>1. t \in closing' <=> t \in closing
      BY <1>1, <2>3
    <3>2. ChainRef(t)' = ChainRef(t)
      BY <1>0, <1>3, <2>3, <3>1, ReleaseChain
    <3>3. refCount'[t] = refCount[t] /\ held'[t] = held[t]
      BY <1>1, <2>3
    <3>4. QED
      BY <2>1, <3>2, <3>3
  <2>5. QED
    BY <2>2, <2>3
<1>12. MaxSnInv'
  BY <1>1 DEF MaxSnInv, ToNextWrite
<1>13. QED
  BY <1>7, <1>8, <1>9, <1>10, <1>11, <1>12

(***************************************************************************)
(* The closer's atomic increment of gcSn (mvcc.go:147), which queues the   *)
(* child's Close: the debt to the child moves from gcDue to closing.       *)
(***************************************************************************)
LEMMA GcAdvanceIInv ==
    ASSUME IInv, NEW s \in SN, GcAdvance(s)
    PROVE  IInv'
<1> USE DEF IInv, TypeOK, SN
<1>1. /\ s \in gcDue
      /\ gcSn' = gcSn + 1
      /\ gcDue' = gcDue \ {s}
      /\ closing' = closing \cup (IF s < currSn THEN {s + 1} ELSE {})
      /\ UNCHANGED <<currSn, refCount, held, numSnCreated, lastMaxSn>>
  BY DEF GcAdvance
<1>2. s \in 0 .. currSn /\ refCount[s] = 0
  BY <1>1 DEF GcDueOk
<1>3. refCount[currSn] >= 1
  BY DEF RefAccounting, CurrentRef, ChainRef
<1>4. s < currSn /\ closing' = closing \cup {s + 1}
  BY <1>1, <1>2, <1>3
<1>5. TypeOK'
  BY <1>1, <1>4
<1>6. Unborn'
  BY <1>1 DEF Unborn
<1>7. ClosingOk'
  <2> SUFFICES ASSUME NEW c \in closing'
               PROVE  c \in 1 .. currSn /\ refCount[c - 1] = 0 /\ c - 1 \notin gcDue'
    BY <1>1 DEF ClosingOk
  <2>1. CASE c = s + 1
    BY <1>1, <1>2, <1>4, <2>1
  <2>2. CASE c # s + 1
    BY <1>1, <1>4, <2>2 DEF ClosingOk
  <2> QED
    BY <2>1, <2>2
<1>8. GcDueOk'
  BY <1>1 DEF GcDueOk
<1>9. RefAccounting'
  <2> SUFFICES ASSUME NEW t \in 0 .. currSn
               PROVE  refCount[t] = held[t] + CurrentRef(t) + ChainRef(t)'
    BY <1>1 DEF RefAccounting, CurrentRef
  <2>1. CASE t = s + 1
    <3>1. ChainRef(t)' = 1 /\ ChainRef(t) = 1
      BY <1>1, <1>4, <2>1 DEF ChainRef
    <3>2. QED
      BY <3>1 DEF RefAccounting
  <2>2. CASE t # s + 1
    <3>1. ChainRef(t)' = ChainRef(t)
      BY <1>1, <1>4, <2>2 DEF ChainRef
    <3>2. QED
      BY <3>1 DEF RefAccounting
  <2> QED
    BY <2>1, <2>2
<1>10. MaxSnInv'
  BY <1>1 DEF MaxSnInv, ToNextWrite
<1>11. QED
  BY <1>5, <1>6, <1>7, <1>8, <1>9, <1>10

\* Open takes one more reference on a snapshot the caller holds.
LEMMA OpenIInv ==
    ASSUME IInv, NEW s \in SN, Open(s)
    PROVE  IInv'
<1> USE DEF IInv, TypeOK, SN
<1>1. /\ held[s] > 0 /\ held[s] < MaxRefs
      /\ held' = [held EXCEPT ![s] = @ + 1]
      /\ refCount' = [refCount EXCEPT ![s] = @ + 1]
      /\ UNCHANGED <<currSn, gcDue, closing, gcSn, numSnCreated, lastMaxSn>>
  BY DEF Open
<1>2. s \in 0 .. currSn /\ s # currSn /\ refCount[s] >= 1
  <2>1. s \in 0 .. currSn /\ s # currSn
    BY <1>1 DEF Unborn
  <2>2. refCount[s] = held[s] + CurrentRef(s) + ChainRef(s)
    BY <2>1 DEF RefAccounting
  <2>3. QED
    BY <1>1, <2>1, <2>2 DEF CurrentRef, ChainRef
<1>3. TypeOK'
  <2>1. held' \in [SN -> 0 .. MaxRefs]
    BY <1>1
  <2>2. refCount' \in [SN -> Nat]
    BY <1>1
  <2>3. QED
    BY <1>1, <2>1, <2>2
<1>4. Unborn'
  BY <1>1, <1>2 DEF Unborn
<1>5. ClosingOk'
  <2>1. \A c \in closing : c - 1 # s
    <3> SUFFICES ASSUME NEW c \in closing PROVE c - 1 # s
      OBVIOUS
    <3>1. refCount[c - 1] = 0
      BY DEF ClosingOk
    <3>2. QED
      BY <1>2, <3>1
  <2>2. QED
    <3> SUFFICES ASSUME NEW c \in closing
                 PROVE  c \in 1 .. currSn /\ refCount'[c - 1] = 0 /\ c - 1 \notin gcDue'
      BY <1>1 DEF ClosingOk
    <3>1. c \in 1 .. currSn /\ refCount[c - 1] = 0 /\ c - 1 \notin gcDue
      BY DEF ClosingOk
    <3>2. c - 1 \in SN /\ c - 1 # s
      BY <2>1, <3>1
    <3>3. refCount'[c - 1] = refCount[c - 1]
      BY <1>1, <3>2
    <3>4. QED
      BY <1>1, <3>1, <3>3
<1>6. MaxSnInv' /\ GcDueOk'
  <2>1. \A g \in gcDue : g # s
    BY <1>2 DEF GcDueOk
  <2>2. QED
    BY <1>1, <2>1 DEF MaxSnInv, ToNextWrite, GcDueOk
<1>7. RefAccounting'
  <2> SUFFICES ASSUME NEW t \in 0 .. currSn
               PROVE  refCount'[t] = held'[t] + CurrentRef(t)' + ChainRef(t)'
    BY <1>1 DEF RefAccounting
  <2>1. CurrentRef(t)' = CurrentRef(t) /\ ChainRef(t)' = ChainRef(t)
    BY <1>1, <1>2 DEF CurrentRef, ChainRef
  <2>2. refCount[t] = held[t] + CurrentRef(t) + ChainRef(t)
    BY DEF RefAccounting
  <2>3. CurrentRef(t) \in {0, 1} /\ ChainRef(t) \in {0, 1}
    BY DEF CurrentRef, ChainRef
  <2>4. QED
    BY <1>1, <1>2, <2>1, <2>2, <2>3
<1>8. QED
  BY <1>3, <1>4, <1>5, <1>6, <1>7

LEMMA NextIInv == IInv /\ [Next]_snapVars => IInv'
<1> SUFFICES ASSUME IInv, [Next]_snapVars PROVE IInv'
  OBVIOUS
<1>1. CASE NewSnapshot
  BY <1>1, NewSnapIInv DEF NewSnapshot, IInv, TypeOK
<1>2. CASE RollbackSnapshot
  <2>1. currSn \in Nat
    BY DEF IInv, TypeOK, SN
  <2>2. QED
    BY <1>2, <2>1, NewSnapIInv DEF RollbackSnapshot
<1>3. ASSUME NEW s \in SN, Close(s) PROVE IInv'
  BY <1>3, CloseIInv
<1>7. ASSUME NEW s \in SN, CloseChild(s) PROVE IInv'
  BY <1>7, CloseChildIInv
<1>4. ASSUME NEW s \in SN, Open(s) PROVE IInv'
  BY <1>4, OpenIInv
<1>8. ASSUME NEW s \in SN, GcAdvance(s) PROVE IInv'
  BY <1>8, GcAdvanceIInv
<1>5. CASE UNCHANGED snapVars
  BY <1>5 DEF snapVars, IInv, TypeOK, Unborn, ClosingOk, GcDueOk, RefAccounting, MaxSnInv,
              ToNextWrite, Dist, CurrentRef, ChainRef, SN
<1>6. QED
  BY <1>1, <1>2, <1>3, <1>4, <1>5, <1>7, <1>8 DEF Next

LEMMA IInvImplies == IInv => TypeOK /\ NoCloseOfNilChild /\ ReleasedInOrder /\ MaxSnAhead
<1> SUFFICES ASSUME IInv PROVE TypeOK /\ NoCloseOfNilChild /\ ReleasedInOrder /\ MaxSnAhead
  OBVIOUS
<1> USE DEF IInv, TypeOK, SN
<1>1. NoCloseOfNilChild
  <2>1. refCount[currSn] = held[currSn] + CurrentRef(currSn) + ChainRef(currSn)
    BY DEF RefAccounting
  <2>2. CurrentRef(currSn) = 1 /\ ChainRef(currSn) \in {0, 1}
    BY DEF CurrentRef, ChainRef
  <2>3. QED
    BY <2>1, <2>2 DEF NoCloseOfNilChild
<1>2. ReleasedInOrder
  <2> SUFFICES ASSUME NEW s \in 1 .. currSn, refCount[s] = 0 PROVE refCount[s - 1] = 0
    BY DEF ReleasedInOrder
  <2>1. refCount[s] = held[s] + CurrentRef(s) + ChainRef(s)
    BY DEF RefAccounting
  <2>2. CurrentRef(s) \in {0, 1} /\ ChainRef(s) \in {0, 1}
    BY DEF CurrentRef, ChainRef
  <2>3. ChainRef(s) = 0
    BY <2>1, <2>2
  <2>4. QED
    BY <2>3 DEF ChainRef
<1>3. MaxSnAhead
  <2>1. numSnCreated % MaxSnSyncFrequency \in 0 .. MaxSnSyncFrequency - 1
    BY ModRange
  <2>2. ToNextWrite \in Nat
    BY <2>1 DEF ToNextWrite, Dist
  <2>3. QED
    BY <2>2 DEF MaxSnInv, MaxSnAhead
<1>4. QED
  BY <1>1, <1>2, <1>3

(***************************************************************************)
(* The inductive invariant holds in every state of the snapshot list:      *)
(* every reference on a snapshot is accounted for (callers, the next       *)
(* NewSnapshot, the parent's pending cascade), unborn snapshots are        *)
(* untouched, and the synced maxSn is ahead by the snapshots still to come *)
(* before the next write, whatever Close, Open, NewSnapshot and Rollback   *)
(* do.                                                                     *)
(***************************************************************************)
THEOREM SpecIInvThm == Spec => []IInv
BY InitIInv, NextIInv, PTL DEF Spec

(***************************************************************************)
(* Every state the snapshot list reaches is well typed: reference counts  *)
(* are naturals, so no Snapshot.Close drives a refCount negative.          *)
(***************************************************************************)
THEOREM TypeCorrect == Spec => []TypeOK
<1>1. Init => IInv
  BY InitIInv
<1>2. IInv /\ [Next]_snapVars => IInv'
  BY NextIInv
<1>3. IInv => TypeOK
  BY IInvImplies
<1>4. QED
  BY <1>1, <1>2, <1>3, PTL DEF Spec

(***************************************************************************)
(* Snapshot.Close never recurses into the nil child of the current         *)
(* snapshot: whatever the order of NewSnapshot, Open, Close and the        *)
(* cascading child closes, the current snapshot keeps a reference.        *)
(***************************************************************************)
THEOREM NilChildSafe == Spec => []NoCloseOfNilChild
<1>1. IInv => NoCloseOfNilChild
  BY IInvImplies
<1>2. QED
  BY <1>1, InitIInv, NextIInv, PTL DEF Spec

(***************************************************************************)
(* Snapshots are freed in SN order: the reference a parent holds on its    *)
(* child (refCount starts at 2 in newSnapshot) pins the child until the    *)
(* parent's Close cascades into it.                                        *)
(***************************************************************************)
THEOREM InOrder == Spec => []ReleasedInOrder
<1>1. IInv => ReleasedInOrder
  BY IInvImplies
<1>2. QED
  BY <1>1, InitIInv, NextIInv, PTL DEF Spec

(***************************************************************************)
(* updateMaxSn keeps the synced maxSn above currSn for every              *)
(* MaxSnSyncFrequency: the block written every freq-th snapshot covers     *)
(* the freq snapshots that follow it.                                      *)
(***************************************************************************)
THEOREM MaxSnSafe == Spec => []MaxSnAhead
<1>1. IInv => MaxSnAhead
  BY IInvImplies
<1>2. QED
  BY <1>1, InitIInv, NextIInv, PTL DEF Spec


-----------------------------------------------------------------------------
(***************************************************************************)
(* gcSn without Rollback.  GcSnIsOldestLive is inductive together with     *)
(* IInv.  When a decrement takes a snapshot's count to zero, RefAccounting *)
(* (and ClosingOk for a cascading close) says that its parent is freed and *)
(* its parent's closer has passed :147, so no closer is between :146 and   *)
(* :147 and the freed snapshot is the oldest live one, which is gcSn.      *)
(* That closer's increment then moves gcSn past it.  The current snapshot  *)
(* is never freed (NoCloseOfNilChild), so the one NewSnapshot makes is     *)
(* above gcSn.                                                             *)
(***************************************************************************)

\* A decrement of s, whose count drops to zero only when its parent's closer is done.
LEMMA ReleaseGcSn ==
    ASSUME IInv, GcSnIsOldestLive, NEW s \in 0 .. currSn,
           refCount[s] >= 1,
           refCount[s] = 1 => s = 0 \/ (refCount[s - 1] = 0 /\ s - 1 \notin gcDue),
           Release(s), currSn' = currSn, gcSn' = gcSn
    PROVE  GcSnIsOldestLive'
<1> USE DEF IInv, TypeOK, SN
<1>0. ~(s < gcSn) /\ s \notin gcDue /\ gcSn \in Nat
  BY DEF GcSnIsOldestLive
<1>1. CASE refCount[s] = 1
  <2>1. refCount' = [refCount EXCEPT ![s] = 0] /\ gcDue' = gcDue \cup {s}
    BY <1>1 DEF Release
  <2>2. s > 0 => s - 1 < gcSn
    BY <1>1 DEF GcSnIsOldestLive
  <2>3. s = gcSn
    BY <1>0, <2>2
  <2>4. gcDue = {}
    BY <1>0, <2>3 DEF GcSnIsOldestLive
  <2>5. gcDue' = {gcSn'}
    BY <2>1, <2>3, <2>4
  <2>6. \A t \in 0 .. currSn : t # s => (refCount'[t] = 0 <=> t < gcSn)
    BY <2>1, <2>4 DEF GcSnIsOldestLive
  <2> QED
    BY <2>1, <2>3, <2>5, <2>6 DEF GcSnIsOldestLive
<1>2. CASE refCount[s] # 1
  <2>1. refCount' = [refCount EXCEPT ![s] = @ - 1] /\ gcDue' = gcDue
    BY <1>2 DEF Release
  <2>2. refCount'[s] # 0
    BY <1>2, <2>1
  <2> QED
    BY <1>0, <2>1, <2>2 DEF GcSnIsOldestLive
<1> QED
  BY <1>1, <1>2

LEMMA NewSnapGcSn ==
    ASSUME IInv, GcSnIsOldestLive, NewSnapshot
    PROVE  GcSnIsOldestLive'
<1> USE DEF IInv, TypeOK, SN
<1>1. currSn' = currSn + 1 /\ refCount' = [refCount EXCEPT ![currSn + 1] = 2]
      /\ gcSn' = gcSn /\ gcDue' = gcDue /\ currSn < MaxSn
  BY DEF NewSnapshot, NewSnap
<1>2. refCount[currSn] > 0
  BY IInvImplies DEF NoCloseOfNilChild
<1>3. gcSn <= currSn /\ currSn + 1 \notin gcDue
  BY <1>2 DEF GcSnIsOldestLive
<1> QED
  BY <1>1, <1>3 DEF GcSnIsOldestLive

LEMMA CloseGcSn ==
    ASSUME IInv, GcSnIsOldestLive, NEW s \in SN, Close(s)
    PROVE  GcSnIsOldestLive'
<1> USE DEF IInv, TypeOK, SN
<1>1. held[s] > 0 /\ Release(s) /\ currSn' = currSn /\ gcSn' = gcSn
  BY DEF Close
<1>2. s \in 0 .. currSn /\ s # currSn
  BY <1>1 DEF Unborn
<1>3. refCount[s] = held[s] + CurrentRef(s) + ChainRef(s)
  BY <1>2 DEF RefAccounting
<1>4. CurrentRef(s) = 0 /\ ChainRef(s) \in {0, 1}
  BY <1>2 DEF CurrentRef, ChainRef
<1>5. refCount[s] >= 1
  BY <1>1, <1>3, <1>4
<1>6. refCount[s] = 1 => ChainRef(s) = 0
  BY <1>1, <1>3, <1>4
<1>7. refCount[s] = 1 => s = 0 \/ (refCount[s - 1] = 0 /\ s - 1 \notin gcDue)
  BY <1>6 DEF ChainRef
<1> QED
  BY <1>1, <1>2, <1>5, <1>7, ReleaseGcSn

LEMMA CloseChildGcSn ==
    ASSUME IInv, GcSnIsOldestLive, NEW s \in SN, CloseChild(s)
    PROVE  GcSnIsOldestLive'
<1> USE DEF IInv, TypeOK, SN
<1>1. s \in closing /\ Release(s) /\ currSn' = currSn /\ gcSn' = gcSn
  BY DEF CloseChild
<1>2. s \in 1 .. currSn /\ refCount[s - 1] = 0 /\ s - 1 \notin gcDue
  BY <1>1 DEF ClosingOk
<1>3. refCount[s] = held[s] + CurrentRef(s) + ChainRef(s)
  BY <1>2 DEF RefAccounting
<1>4. ChainRef(s) = 1 /\ CurrentRef(s) \in {0, 1}
  BY <1>1, <1>2 DEF ChainRef, CurrentRef
<1>5. refCount[s] >= 1
  BY <1>3, <1>4
<1>6. s \in 0 .. currSn
      /\ (refCount[s] = 1 => s = 0 \/ (refCount[s - 1] = 0 /\ s - 1 \notin gcDue))
  BY <1>2
<1> QED
  BY <1>1, <1>5, <1>6, ReleaseGcSn

\* The closer's increment: gcSn passes the snapshot it freed.
LEMMA GcAdvanceGcSn ==
    ASSUME IInv, GcSnIsOldestLive, NEW s \in SN, GcAdvance(s)
    PROVE  GcSnIsOldestLive'
<1> USE DEF IInv, TypeOK, SN
<1>1. /\ s \in gcDue /\ gcSn' = gcSn + 1 /\ gcDue' = gcDue \ {s}
      /\ UNCHANGED <<currSn, refCount>>
  BY DEF GcAdvance
<1>2. s = gcSn /\ gcDue = {gcSn}
  BY <1>1 DEF GcSnIsOldestLive
<1>3. gcDue' = {}
  BY <1>1, <1>2
<1> QED
  BY <1>1, <1>2, <1>3 DEF GcSnIsOldestLive

LEMMA OpenGcSn ==
    ASSUME IInv, GcSnIsOldestLive, NEW s \in SN, Open(s)
    PROVE  GcSnIsOldestLive'
<1> USE DEF IInv, TypeOK, SN
<1>1. held[s] > 0 /\ refCount' = [refCount EXCEPT ![s] = @ + 1]
      /\ currSn' = currSn /\ gcSn' = gcSn /\ gcDue' = gcDue
  BY DEF Open
<1>2. s \in 0 .. currSn => refCount[s] >= 1
  <2> SUFFICES ASSUME s \in 0 .. currSn PROVE refCount[s] >= 1
    OBVIOUS
  <2>1. refCount[s] = held[s] + CurrentRef(s) + ChainRef(s)
    BY DEF RefAccounting
  <2>2. CurrentRef(s) \in {0, 1} /\ ChainRef(s) \in {0, 1}
    BY DEF CurrentRef, ChainRef
  <2> QED
    BY <1>1, <2>1, <2>2
<1>3. s \in 0 .. currSn
  BY <1>1 DEF Unborn
<1> QED
  BY <1>1, <1>2, <1>3 DEF GcSnIsOldestLive

LEMMA NextNoRollbackGcSn ==
    IInv /\ GcSnIsOldestLive /\ [NextNoRollback]_snapVars => GcSnIsOldestLive'
<1> SUFFICES ASSUME IInv, GcSnIsOldestLive, [NextNoRollback]_snapVars
             PROVE  GcSnIsOldestLive'
  OBVIOUS
<1>1. CASE NewSnapshot
  BY <1>1, NewSnapGcSn
<1>2. ASSUME NEW s \in SN, Close(s) PROVE GcSnIsOldestLive'
  BY <1>2, CloseGcSn
<1>6. ASSUME NEW s \in SN, GcAdvance(s) PROVE GcSnIsOldestLive'
  BY <1>6, GcAdvanceGcSn
<1>3. ASSUME NEW s \in SN, CloseChild(s) PROVE GcSnIsOldestLive'
  BY <1>3, CloseChildGcSn
<1>4. ASSUME NEW s \in SN, Open(s) PROVE GcSnIsOldestLive'
  BY <1>4, OpenGcSn
<1>5. CASE UNCHANGED snapVars
  BY <1>5 DEF snapVars, GcSnIsOldestLive
<1> QED
  BY <1>1, <1>2, <1>3, <1>4, <1>5, <1>6 DEF NextNoRollback

(***************************************************************************)
(* Without Rollback, gcSn trails the freed snapshots by at most the one    *)
(* closer between mvcc.go:146 and :147: the snapshots below gcSn, and the  *)
(* one in gcDue, are exactly the freed ones, for every MaxSn,              *)
(* MaxSnSyncFrequency and number of references callers take, however the   *)
(* three steps of concurrent Closes interleave.                            *)
(***************************************************************************)
THEOREM GcSnOldestLiveThm == SpecNoRollback => []GcSnIsOldestLive
<1>1. Init => IInv /\ GcSnIsOldestLive
  <2>1. Init => GcSnIsOldestLive
    <3> SUFFICES ASSUME Init PROVE GcSnIsOldestLive
      OBVIOUS
    <3>1. currSn = 0 /\ gcSn = 0 /\ gcDue = {} /\ refCount[0] = 1
      BY DEF Init, SN
    <3> QED
      BY <3>1 DEF GcSnIsOldestLive
  <2> QED
    BY <2>1, InitIInv
<1>2. IInv /\ [NextNoRollback]_snapVars => IInv'
  <2>1. [NextNoRollback]_snapVars => [Next]_snapVars
    BY DEF NextNoRollback, Next
  <2> QED
    BY <2>1, NextIInv
<1>3. IInv /\ GcSnIsOldestLive /\ [NextNoRollback]_snapVars => GcSnIsOldestLive'
  BY NextNoRollbackGcSn
<1> QED
  BY <1>1, <1>2, <1>3, PTL DEF SpecNoRollback

-----------------------------------------------------------------------------
(***************************************************************************)
(* Freed snapshots.  By RefAccounting a snapshot whose count is zero has   *)
(* no caller holding it, is not current and is not queued for a cascading *)
(* close, and those are the only ways a step reaches a refCount.          *)
(***************************************************************************)
FreedStep == \A s \in 0 .. currSn : refCount[s] = 0 => refCount'[s] = 0

LEMMA FreedIsUnreachable ==
    ASSUME IInv, NEW s \in 0 .. currSn, refCount[s] = 0
    PROVE  held[s] = 0 /\ s # currSn /\ s \notin closing
<1>1. refCount[s] = held[s] + CurrentRef(s) + ChainRef(s)
    BY DEF IInv, RefAccounting
<1>2. held[s] \in Nat /\ CurrentRef(s) \in {0, 1} /\ ChainRef(s) \in {0, 1}
    BY DEF IInv, TypeOK, SN, CurrentRef, ChainRef
<1>3. held[s] = 0 /\ CurrentRef(s) = 0 /\ ChainRef(s) = 0
    BY <1>1, <1>2
<1>4. s # currSn
    BY <1>3 DEF CurrentRef
<1>5. s \notin closing
    <2>1. CASE s = 0
        BY <2>1 DEF IInv, ClosingOk
    <2>2. CASE s > 0
        BY <1>3, <2>2 DEF ChainRef
    <2> QED
        BY <2>1, <2>2
<1> QED
    BY <1>3, <1>4, <1>5

\* A release of t leaves every other snapshot's count as it was.
LEMMA ReleaseOthers ==
    ASSUME IInv, NEW t \in SN, Release(t), NEW s \in 0 .. currSn, s # t
    PROVE  refCount'[s] = refCount[s]
BY DEF Release, IInv, TypeOK, SN

LEMMA NextFreed == IInv /\ [Next]_snapVars => FreedStep
<1> SUFFICES ASSUME IInv, [Next]_snapVars, NEW s \in 0 .. currSn, refCount[s] = 0
             PROVE  refCount'[s] = 0
    BY DEF FreedStep
<1>1. held[s] = 0 /\ s # currSn /\ s \notin closing
    BY FreedIsUnreachable
<1>2. currSn \in SN /\ refCount \in [SN -> Nat]
    BY DEF IInv, TypeOK
<1>3. CASE NewSnap
    <2>1. refCount' = [refCount EXCEPT ![currSn + 1] = 2]
        BY <1>3 DEF NewSnap
    <2> QED
        BY <1>2, <2>1 DEF SN
<1>4. ASSUME NEW t \in SN, Close(t) PROVE refCount'[s] = 0
    <2>1. s # t /\ Release(t)
        BY <1>1, <1>4 DEF Close
    <2> QED
        BY <2>1, ReleaseOthers
<1>5. ASSUME NEW t \in SN, CloseChild(t) PROVE refCount'[s] = 0
    <2>1. s # t /\ Release(t)
        BY <1>1, <1>5 DEF CloseChild
    <2> QED
        BY <2>1, ReleaseOthers
<1>6. ASSUME NEW t \in SN, Open(t) PROVE refCount'[s] = 0
    <2>1. s # t /\ refCount' = [refCount EXCEPT ![t] = @ + 1]
        BY <1>1, <1>6 DEF Open
    <2> QED
        BY <1>2, <2>1 DEF SN
<1>8. ASSUME NEW t \in SN, GcAdvance(t) PROVE refCount'[s] = 0
    BY <1>8 DEF GcAdvance
<1>7. CASE UNCHANGED snapVars
    BY <1>7 DEF snapVars
<1> QED
    BY <1>3, <1>4, <1>5, <1>6, <1>7, <1>8 DEF Next, NewSnapshot, RollbackSnapshot

(***************************************************************************)
(* A freed snapshot stays freed, for every MaxSn, MaxSnSyncFrequency and   *)
(* number of references: no Open, Close or cascading s.child.Close()       *)
(* ever reaches a snapshot whose count has gone to zero, Rollback         *)
(* included.                                                               *)
(***************************************************************************)
THEOREM FreedStaysFreedThm == Spec => FreedStaysFreed
<1>1. IInv /\ [Next]_snapVars => [FreedStep]_snapVars
    BY NextFreed
<1> QED
    BY <1>1, InitIInv, NextIInv, PTL DEF Spec, FreedStaysFreed, FreedStep

=============================================================================
