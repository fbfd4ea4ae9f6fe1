---------------------------- MODULE PersistProofs ----------------------------
(***************************************************************************)
(* Proofs about module Persist: the page table never points at a lost or   *)
(* discarded block, every open reservation belongs to a goroutine about to *)
(* CAS, and PersistAll's flush covers the page it started from.            *)
(***************************************************************************)
EXTENDS Persist, TLAPS

(***************************************************************************)
(* The inductive invariant.                                                *)
(*                                                                         *)
(* BlockOf(pid, i, v): block i of the log holds version v of page pid and  *)
(* has not been discarded.                                                 *)
(***************************************************************************)
BlockOf(pid, i, v) ==
    /\ i \in DOMAIN lss
    /\ lss[i].pid = pid
    /\ lss[i].typ = "data"
    /\ lss[i].ver = v

\* A head in the page table: versions ordered, the flush record backed.
PageOK(pid) ==
    /\ 1 <= pageTbl[pid].ver
    /\ pageTbl[pid].dver <= pageTbl[pid].fver
    /\ pageTbl[pid].fver <= pageTbl[pid].ver
    /\ pageTbl[pid].fver > 0 => BlockOf(pid, pageTbl[pid].foff, pageTbl[pid].fver)

\* A head a goroutine is about to install, relative to the one it read.
NewOK(c) ==
    /\ c.new.dver <= c.new.fver
    /\ c.new.fver <= c.new.ver
    /\ c.seen.ver <= c.new.ver
    /\ c.seen.fver <= c.new.fver

\* A goroutine between its reservation and its CAS.
PendingOK(p) ==
    /\ NewOK(proc[p])
    /\ proc[p].new.foff = proc[p].off
    /\ 1 <= proc[p].new.fver
    /\ BlockOf(proc[p].pid, proc[p].off, proc[p].new.fver)
    /\ \A pid \in Pids : pageTbl[pid].fver > 0 => pageTbl[pid].foff # proc[p].off
    /\ proc[p].pc = "cas" => ~lss[proc[p].off].fin /\ proc[p].kind = "persist"

\* A goroutine on the evict-only path.
EvictOK(p) ==
    /\ NewOK(proc[p])
    /\ proc[p].evict
    /\ proc[p].seen.fver = proc[p].seen.ver
    /\ proc[p].new = Evict(proc[p].seen, proc[p].seen.foff)

\* What PersistAll's goroutine knows of the page it was called for.
CoverOK(p) ==
    proc[p].kind = "persist" /\ ~proc[p].evict =>
        /\ proc[p].pc \in {"idle", "read", "cas"}
        /\ proc[p].pc = "idle" => pageTbl[proc[p].pid].fver >= proc[p].start
        /\ proc[p].pc \in {"read", "cas"} => pageTbl[proc[p].pid].ver >= proc[p].start
        /\ proc[p].pc = "cas" => proc[p].new.fver >= proc[p].start

Pending(p) == proc[p].pc \in {"cas", "rcas"}

PagesOK == \A g \in Pids : PageOK(g)
PendingsOK == \A q \in Procs : Pending(q) => PendingOK(q)
EvictsOK == \A q \in Procs : proc[q].pc = "ecas" => EvictOK(q)
CoversOK == \A q \in Procs : CoverOK(q)
Distinct == \A q, r \in Procs : Pending(q) /\ Pending(r) /\ q # r => proc[q].off # proc[r].off

IInv ==
    /\ PersistTypeOK
    /\ PagesOK
    /\ PendingsOK
    /\ EvictsOK
    /\ CoversOK
    /\ Distinct
    /\ ReservationsFinalized

-----------------------------------------------------------------------------
(***************************************************************************)
(* Record and function facts the provers need spelled out.                 *)
(***************************************************************************)
LEMMA PageSet ==
    ASSUME NEW r \in Page, NEW v \in Nat
    PROVE  /\ [r EXCEPT !.ver = v] \in Page
           /\ [r EXCEPT !.fver = v] \in Page
    BY DEF Page

LEMMA FunSet ==
    ASSUME NEW S, NEW T, NEW f \in [S -> T], NEW x \in S, NEW y \in T
    PROVE  [f EXCEPT ![x] = y] \in [S -> T]
    OBVIOUS

LEMMA EvictRec ==
    ASSUME NEW r \in Page, NEW o \in Nat
    PROVE  /\ Evict(r, o).ver = r.ver /\ Evict(r, o).fver = r.ver
           /\ Evict(r, o).foff = o /\ Evict(r, o).dver = r.ver
           /\ Evict(r, o) \in Page
    BY DEF Evict, Page

LEMMA AddFlushRec ==
    ASSUME NEW r \in Page, NEW o \in Nat
    PROVE  /\ AddFlushRecord(r, o).ver = r.ver /\ AddFlushRecord(r, o).fver = r.ver
           /\ AddFlushRecord(r, o).foff = o /\ AddFlushRecord(r, o).dver = r.dver
           /\ AddFlushRecord(r, o) \in Page
    BY DEF AddFlushRecord, Page

LEMMA LssAppend ==
    ASSUME NEW L \in Seq(Block), NEW v \in Block
    PROVE  /\ Append(L, v) \in Seq(Block)
           /\ DOMAIN Append(L, v) = DOMAIN L \cup {Len(L) + 1}
           /\ Len(L) + 1 \notin DOMAIN L
           /\ \A j \in DOMAIN L : Append(L, v)[j] = L[j]
           /\ Append(L, v)[Len(L) + 1] = v
    OBVIOUS

LEMMA LssSet ==
    ASSUME NEW L \in Seq(Block), NEW i \in DOMAIN L, NEW v \in Block
    PROVE  /\ [L EXCEPT ![i] = v] \in Seq(Block)
           /\ DOMAIN [L EXCEPT ![i] = v] = DOMAIN L
           /\ \A j \in DOMAIN L : j # i => [L EXCEPT ![i] = v][j] = L[j]
           /\ [L EXCEPT ![i] = v][i] = v
    OBVIOUS

LEMMA BlockFin ==
    ASSUME NEW b \in Block
    PROVE  /\ [b EXCEPT !.fin = TRUE] \in Block
           /\ [b EXCEPT !.fin = TRUE].pid = b.pid
           /\ [b EXCEPT !.fin = TRUE].ver = b.ver
           /\ [b EXCEPT !.fin = TRUE].typ = b.typ
           /\ [b EXCEPT !.fin = TRUE].fin
           /\ [b EXCEPT !.typ = "discard", !.fin = TRUE] \in Block
           /\ [b EXCEPT !.typ = "discard", !.fin = TRUE].fin
    BY DEF Block

LEMMA PageFields ==
    ASSUME NEW r \in Page
    PROVE  r.ver \in Nat /\ r.fver \in Nat /\ r.foff \in Nat /\ r.dver \in Nat
    BY DEF Page

LEMMA CallFields ==
    ASSUME NEW c \in Call
    PROVE  /\ c.pc \in Pc
           /\ c.kind \in {"persist", "rollback"}
           /\ c.pid \in Pids
           /\ c.evict \in BOOLEAN
           /\ c.seen \in Page
           /\ c.new \in Page
           /\ c.off \in Nat
           /\ c.start \in Nat
    BY DEF Call

-----------------------------------------------------------------------------
(***************************************************************************)
(* Initiation.                                                             *)
(***************************************************************************)
LEMMA InitIInv == Init => IInv
<1> SUFFICES ASSUME Init PROVE IInv
    OBVIOUS
<1>1. AnyPid \in Pids
    BY PidsAssumption DEF AnyPid
<1>2. PersistTypeOK
    BY <1>1, MaxJobsAssumption DEF Init, PersistTypeOK, Page, Block, Call, Pc, NoPage
<1>3. PagesOK
    <2> SUFFICES ASSUME NEW g \in Pids PROVE PageOK(g)
        BY DEF PagesOK
    <2>1. pageTbl[g] = NoPage
        BY DEF Init
    <2> QED
        BY <2>1 DEF PageOK, NoPage
<1>4. CoversOK
    <2> SUFFICES ASSUME NEW q \in Procs PROVE CoverOK(q)
        BY DEF CoversOK
    <2>1. proc[q].pc = "idle" /\ proc[q].start = 0 /\ proc[q].pid = AnyPid
        BY DEF Init
    <2>2. pageTbl[AnyPid].fver = 0
        BY <1>1 DEF Init, NoPage
    <2> QED
        BY <2>1, <2>2 DEF CoverOK
<1>5. \A q \in Procs : ~Pending(q) /\ proc[q].pc # "ecas"
    BY DEF Init, Pending
<1>6. ReservationsFinalized
    BY DEF Init, ReservationsFinalized
<1> QED
    BY <1>2, <1>3, <1>4, <1>5, <1>6 DEF IInv, PendingsOK, EvictsOK, Distinct

-----------------------------------------------------------------------------
(***************************************************************************)
(* A step of goroutine t that changes nothing but its own record, leaves   *)
(* no reservation of its own open and keeps what it knows of its page,     *)
(* keeps IInv: the other goroutines' records, the page table and the log   *)
(* are unchanged.                                                          *)
(***************************************************************************)
LEMMA LocalStep ==
    ASSUME IInv, NEW u \in Procs, NEW rec \in Call,
           proc[u].pc # "cas",
           rec.pc \in {"idle", "read", "ecas"},
           pageTbl' = pageTbl, lss' = lss,
           published' \subseteq Nat, jobs' \in 0 .. MaxJobs,
           proc' = [proc EXCEPT ![u] = rec],
           rec.pc = "ecas" => EvictOK(u)',
           CoverOK(u)'
    PROVE  IInv'
<1>0. proc \in [Procs -> Call]
    BY DEF IInv, PersistTypeOK
<1>1. \A q \in Procs : q # u => proc'[q] = proc[q]
    BY <1>0
<1>2. proc'[u] = rec
    BY <1>0
<1>3. PersistTypeOK'
    BY <1>0, FunSet DEF IInv, PersistTypeOK
<1>4. PagesOK'
    BY DEF IInv, PagesOK, PageOK, BlockOf
<1>5. PendingsOK'
    <2> SUFFICES ASSUME NEW q \in Procs, Pending(q)' PROVE PendingOK(q)'
        BY DEF PendingsOK
    <2>1. q # u /\ proc'[q] = proc[q]
        BY <1>1, <1>2 DEF Pending
    <2>2. PendingOK(q)
        BY <2>1 DEF IInv, PendingsOK, Pending
    <2> QED
        BY <2>1, <2>2 DEF PendingOK, NewOK, BlockOf
<1>6. EvictsOK'
    <2> SUFFICES ASSUME NEW q \in Procs, q # u, proc'[q].pc = "ecas" PROVE EvictOK(q)'
        BY <1>2 DEF EvictsOK
    <2>1. proc'[q] = proc[q]
        BY <1>1
    <2>2. EvictOK(q)
        BY <2>1 DEF IInv, EvictsOK
    <2> QED
        BY <2>1, <2>2 DEF EvictOK, NewOK
<1>7. CoversOK'
    <2> SUFFICES ASSUME NEW q \in Procs, q # u PROVE CoverOK(q)'
        BY DEF CoversOK
    <2>1. proc'[q] = proc[q]
        BY <1>1
    <2>2. CoverOK(q)
        BY DEF IInv, CoversOK
    <2> QED
        BY <2>1, <2>2 DEF CoverOK
<1>8. Distinct'
    BY <1>1, <1>2 DEF IInv, Distinct, Pending
<1>9. ReservationsFinalized'
    <2> SUFFICES ASSUME NEW i \in DOMAIN lss, ~lss[i].fin
                 PROVE  \E q \in Procs : proc'[q].pc = "cas" /\ proc'[q].off = i
        BY DEF ReservationsFinalized
    <2>1. PICK q \in Procs : proc[q].pc = "cas" /\ proc[q].off = i
        BY DEF IInv, ReservationsFinalized
    <2> QED
        BY <1>1, <2>1
<1> QED
    BY <1>3, <1>4, <1>5, <1>6, <1>7, <1>8, <1>9 DEF IInv

LEMMA StartPersistIInv ==
    ASSUME IInv, NEW t \in Procs, NEW k \in Pids, NEW b \in BOOLEAN,
           StartPersist(t, k, b)
    PROVE  IInv'
<1> DEFINE r == [proc[t] EXCEPT !.pc = "read", !.kind = "persist", !.pid = k,
                                !.evict = b, !.start = pageTbl[k].ver]
<1>1. proc[t] \in Call /\ pageTbl[k].ver \in Nat
    BY DEF IInv, PersistTypeOK, Page
<1>2. r \in Call
    BY <1>1 DEF Call, Pc
<1>3. proc' = [proc EXCEPT ![t] = r]
    BY DEF StartPersist
<1>4. proc'[t] = r
    BY <1>3 DEF IInv, PersistTypeOK
<1>5. r.pc = "read" /\ r.pid = k /\ r.start = pageTbl[k].ver
    BY <1>1 DEF Call
<1>6. /\ pageTbl' = pageTbl
      /\ lss' = lss
      /\ published' \subseteq Nat
      /\ jobs' \in 0 .. MaxJobs
      /\ proc[t].pc # "cas"
    BY MaxJobsAssumption DEF IInv, PersistTypeOK, StartPersist
<1>7. CoverOK(t)'
    BY <1>1, <1>4, <1>5, <1>6 DEF CoverOK
<1> QED
    BY <1>2, <1>3, <1>5, <1>6, <1>7, LocalStep

LEMMA StartRollbackIInv ==
    ASSUME IInv, NEW t \in Procs, NEW k \in Pids, StartRollback(t, k)
    PROVE  IInv'
<1> DEFINE r == [proc[t] EXCEPT !.pc = "read", !.kind = "rollback", !.pid = k,
                                !.evict = FALSE, !.start = pageTbl[k].ver]
<1>1. proc[t] \in Call /\ pageTbl[k].ver \in Nat
    BY DEF IInv, PersistTypeOK, Page
<1>2. r \in Call
    BY <1>1 DEF Call, Pc
<1>3. proc' = [proc EXCEPT ![t] = r]
    BY DEF StartRollback
<1>4. proc'[t] = r
    BY <1>3 DEF IInv, PersistTypeOK
<1>5. r.pc = "read" /\ r.pid = k /\ r.start = pageTbl[k].ver
    BY <1>1 DEF Call
<1>6. /\ pageTbl' = pageTbl
      /\ lss' = lss
      /\ published' \subseteq Nat
      /\ jobs' \in 0 .. MaxJobs
      /\ proc[t].pc # "cas"
    BY MaxJobsAssumption DEF IInv, PersistTypeOK, StartRollback
<1>7. CoverOK(t)'
    BY <1>1, <1>4, <1>5, <1>6 DEF CoverOK
<1> QED
    BY <1>2, <1>3, <1>5, <1>6, <1>7, LocalStep

(***************************************************************************)
(* A writer's Insert only raises a page's version: every flush record and  *)
(* every goroutine's knowledge stays valid.                                *)
(***************************************************************************)
LEMMA InsertIInv ==
    ASSUME IInv, NEW k \in Pids, Insert(k)
    PROVE  IInv'
<1>1. pageTbl' = [pageTbl EXCEPT ![k] = [pageTbl[k] EXCEPT !.ver = pageTbl[k].ver + 1]]
    BY DEF Insert
<1>2. pageTbl[k] \in Page /\ pageTbl[k].ver + 1 \in Nat
    BY DEF IInv, PersistTypeOK, Page
<1>3. [pageTbl[k] EXCEPT !.ver = pageTbl[k].ver + 1] \in Page
    BY <1>2, PageSet, Zenon
<1>4. PersistTypeOK'
    BY <1>1, <1>3, FunSet DEF IInv, PersistTypeOK, Insert
<1>5. \A g \in Pids : /\ pageTbl'[g].fver = pageTbl[g].fver
                      /\ pageTbl'[g].foff = pageTbl[g].foff
                      /\ pageTbl'[g].dver = pageTbl[g].dver
                      /\ pageTbl'[g].ver >= pageTbl[g].ver
                      /\ pageTbl'[g].ver \in Nat
    BY <1>1, <1>2 DEF IInv, PersistTypeOK, Page
<1>6. lss' = lss /\ proc' = proc
    BY DEF Insert
<1> HIDE DEF Insert
<1>7. PagesOK'
    <2> SUFFICES ASSUME NEW g \in Pids PROVE PageOK(g)'
        BY DEF PagesOK
    <2>1. pageTbl[g].ver \in Nat /\ pageTbl[g].fver \in Nat /\ pageTbl[g].dver \in Nat
        BY DEF IInv, PersistTypeOK, Page
    <2>2. PageOK(g)
        BY DEF IInv, PagesOK
    <2>3. /\ pageTbl'[g].fver = pageTbl[g].fver
          /\ pageTbl'[g].foff = pageTbl[g].foff
          /\ pageTbl'[g].dver = pageTbl[g].dver
          /\ pageTbl'[g].ver >= pageTbl[g].ver
          /\ pageTbl'[g].ver \in Nat
        BY <1>5
    <2> QED
        BY <1>6, <2>1, <2>2, <2>3 DEF PageOK, BlockOf
<1>8. PendingsOK'
    <2> SUFFICES ASSUME NEW q \in Procs, Pending(q)' PROVE PendingOK(q)'
        BY DEF PendingsOK
    <2>1. PendingOK(q)
        BY <1>6 DEF IInv, PendingsOK, Pending
    <2>2. \A g \in Pids : pageTbl'[g].fver = pageTbl[g].fver /\ pageTbl'[g].foff = pageTbl[g].foff
        BY <1>5
    <2> QED
        BY <1>6, <2>1, <2>2 DEF PendingOK, NewOK, BlockOf
<1>9. EvictsOK'
    BY <1>6 DEF IInv, EvictsOK, EvictOK, NewOK
<1>10. CoversOK'
    <2> SUFFICES ASSUME NEW q \in Procs PROVE CoverOK(q)'
        BY DEF CoversOK
    <2>1. /\ proc[q].pid \in Pids
          /\ pageTbl[proc[q].pid].ver \in Nat
          /\ proc[q].start \in Nat
        BY DEF IInv, PersistTypeOK, Page, Call
    <2>2. /\ pageTbl'[proc[q].pid].fver = pageTbl[proc[q].pid].fver
          /\ pageTbl'[proc[q].pid].ver >= pageTbl[proc[q].pid].ver
          /\ pageTbl'[proc[q].pid].ver \in Nat
        BY <1>5, <2>1
    <2>3. pageTbl[proc[q].pid].ver >= proc[q].start =>
              pageTbl'[proc[q].pid].ver >= proc[q].start
        BY <2>1, <2>2
    <2>4. CoverOK(q)
        BY DEF IInv, CoversOK
    <2> QED
        BY <1>6, <2>2, <2>3, <2>4, Zenon DEF CoverOK
<1>11. Distinct' /\ ReservationsFinalized'
    BY <1>6 DEF IInv, Distinct, Pending, ReservationsFinalized
<1> QED
    BY <1>4, <1>7, <1>8, <1>9, <1>10, <1>11 DEF IInv

(***************************************************************************)
(* PersistRead when the page needs no flush: the evict-only path, or the   *)
(* return.  Nothing but the goroutine's own record changes.                *)
(***************************************************************************)
LEMMA PersistReadNoFlushIInv ==
    ASSUME IInv, NEW t \in Procs, PersistRead(t), ~NeedsFlush(pageTbl[proc[t].pid])
    PROVE  IInv'
<1> DEFINE c == proc[t]
           pg == pageTbl[c.pid]
<1>1. c \in Call /\ pg \in Page /\ c.pid \in Pids
    BY DEF IInv, PersistTypeOK, Call
<1>2. pg.fver = pg.ver /\ pg.ver \in Nat
    BY <1>1 DEF IInv, PagesOK, PageOK, NeedsFlush, Page
<1>3. c.pc = "read" /\ c.kind = "persist"
    BY DEF PersistRead
<1>4. CASE c.evict /\ IsEvictable(pg)
    <2> DEFINE r == [c EXCEPT !.pc = "ecas", !.seen = pg, !.new = Evict(pg, pg.foff)]
    <2>1. pg.foff \in Nat
        BY <1>1 DEF Page
    <2>2. /\ Evict(pg, pg.foff).ver = pg.ver /\ Evict(pg, pg.foff).fver = pg.ver
          /\ Evict(pg, pg.foff).dver = pg.ver /\ Evict(pg, pg.foff) \in Page
        BY <1>1, <2>1, EvictRec
    <2>3. r \in Call
        BY <1>1, <2>2 DEF Call, Pc
    <2>4. r.pc = "ecas" /\ r.seen = pg /\ r.new = Evict(pg, pg.foff) /\ r.evict = c.evict
        BY <1>1
    <2>5. proc' = [proc EXCEPT ![t] = r] /\ lss' = lss
        BY <1>4, <1>2 DEF PersistRead, NeedsFlush
    <2>6. proc'[t] = r
        BY <2>5 DEF IInv, PersistTypeOK
    <2>7. EvictOK(t)'
        BY <1>2, <1>4, <2>2, <2>4, <2>6 DEF EvictOK, NewOK
    <2>8. CoverOK(t)'
        BY <1>4, <2>4, <2>6 DEF CoverOK
    <2>9. pageTbl' = pageTbl /\ published' \subseteq Nat /\ jobs' \in 0 .. MaxJobs
        BY DEF PersistRead, IInv, PersistTypeOK
    <2>10. proc[t].pc # "cas" /\ r.pc \in {"idle", "read", "ecas"}
        BY <1>3, <2>4
    <2> HIDE DEF c, pg, r
    <2> QED
        BY <2>3, <2>5, <2>7, <2>8, <2>9, <2>10, LocalStep
<1>5. CASE ~(c.evict /\ IsEvictable(pg))
    <2> DEFINE r == [c EXCEPT !.pc = "idle"]
    <2>1. r \in Call
        BY <1>1 DEF Call, Pc
    <2>2. r.pc = "idle" /\ r.pid = c.pid /\ r.start = c.start /\ r.kind = c.kind /\ r.evict = c.evict
        BY <1>1
    <2>3. proc' = [proc EXCEPT ![t] = r] /\ lss' = lss
        BY <1>5, <1>2 DEF PersistRead, NeedsFlush
    <2>4. proc'[t] = r
        BY <2>3 DEF IInv, PersistTypeOK
    <2>5. pageTbl' = pageTbl /\ published' \subseteq Nat /\ jobs' \in 0 .. MaxJobs
        BY DEF PersistRead, IInv, PersistTypeOK
    <2>6. c.start \in Nat
        BY <1>1 DEF Call
    <2>7. CoverOK(t)
        BY DEF IInv, CoversOK
    <2>8. CoverOK(t)'
        BY <1>2, <1>3, <2>2, <2>4, <2>5, <2>6, <2>7 DEF CoverOK
    <2>9. proc[t].pc # "cas" /\ r.pc \in {"idle", "read", "ecas"} /\ r.pc # "ecas"
        BY <1>3, <2>2
    <2> HIDE DEF c, pg, r
    <2> QED
        BY <2>1, <2>3, <2>5, <2>8, <2>9, LocalStep
<1> QED
    BY <1>4, <1>5

(***************************************************************************)
(* PersistRead when the page needs a flush: a new block at the end of the  *)
(* log, not finalized, and the goroutine about to CAS a head whose flush   *)
(* record names it.                                                        *)
(***************************************************************************)
LEMMA PersistReadFlushIInv ==
    ASSUME IInv, NEW t \in Procs, PersistRead(t), NeedsFlush(pageTbl[proc[t].pid])
    PROVE  IInv'
<1> DEFINE c == proc[t]
           pg == pageTbl[c.pid]
           off == Len(lss) + 1
           blk == [pid |-> c.pid, ver |-> pg.ver, typ |-> "data", fin |-> FALSE, by |-> "persist"]
           nw == IF c.evict THEN Evict(pg, off) ELSE AddFlushRecord(pg, off)
           r == [c EXCEPT !.pc = "cas", !.seen = pg, !.off = off, !.new = nw]
<1>1. c \in Call /\ pg \in Page /\ c.pid \in Pids /\ lss \in Seq(Block)
    BY DEF IInv, PersistTypeOK, Call
<1>2. pg.ver \in Nat /\ pg.fver \in Nat /\ pg.dver \in Nat /\ off \in Nat
    BY <1>1 DEF Page
<1>3. PageOK(c.pid)
    BY <1>1 DEF IInv, PagesOK
<1>4. c.pc = "read" /\ c.kind = "persist"
    BY DEF PersistRead
<1>5. /\ lss' = Append(lss, blk)
      /\ proc' = [proc EXCEPT ![t] = r]
      /\ UNCHANGED <<pageTbl, published, jobs>>
    <2>1. NeedsFlush(pg)
        OBVIOUS
    <2>2. /\ lss' = Reserve(c.pid, pg.ver, FALSE, "persist")
          /\ proc' = [proc EXCEPT ![t] = [c EXCEPT !.pc = "cas", !.seen = pg, !.off = off,
                        !.new = IF c.evict THEN Evict(pg, off) ELSE AddFlushRecord(pg, off)]]
          /\ UNCHANGED <<pageTbl, published, jobs>>
        BY <2>1, Zenon DEF PersistRead
    <2> QED
        BY <2>2, Zenon DEF Reserve
<1>6. blk \in Block
    BY <1>1, <1>2 DEF Block
<1>7. /\ lss' \in Seq(Block)
      /\ DOMAIN lss' = DOMAIN lss \cup {off}
      /\ off \notin DOMAIN lss
      /\ \A j \in DOMAIN lss : lss'[j] = lss[j]
      /\ lss'[off] = blk
    BY <1>1, <1>5, <1>6, LssAppend
<1>8. /\ nw \in Page
      /\ nw.ver = pg.ver /\ nw.fver = pg.ver /\ nw.foff = off
      /\ nw.dver <= pg.ver
    <2>1. CASE c.evict
        <3>1. nw = Evict(pg, off)
            BY <2>1
        <3>2. /\ Evict(pg, off).ver = pg.ver /\ Evict(pg, off).fver = pg.ver
              /\ Evict(pg, off).foff = off /\ Evict(pg, off).dver = pg.ver
              /\ Evict(pg, off) \in Page
            BY <1>1, <1>2, EvictRec
        <3> QED
            BY <1>2, <3>1, <3>2
    <2>2. CASE ~c.evict
        <3>1. nw = AddFlushRecord(pg, off)
            BY <2>2
        <3>2. /\ AddFlushRecord(pg, off).ver = pg.ver /\ AddFlushRecord(pg, off).fver = pg.ver
              /\ AddFlushRecord(pg, off).foff = off /\ AddFlushRecord(pg, off).dver = pg.dver
              /\ AddFlushRecord(pg, off) \in Page
            BY <1>1, <1>2, AddFlushRec
        <3>3. pg.dver <= pg.ver
            BY <1>2, <1>3 DEF PageOK
        <3> QED
            BY <3>1, <3>2, <3>3
    <2> QED
        BY <2>1, <2>2
<1>9. r \in Call /\ r.pc = "cas" /\ r.seen = pg /\ r.off = off /\ r.new = nw
      /\ r.pid = c.pid /\ r.kind = c.kind /\ r.evict = c.evict /\ r.start = c.start
    BY <1>1, <1>2, <1>8 DEF Call, Pc
<1>10. proc'[t] = r /\ \A q \in Procs : q # t => proc'[q] = proc[q]
    BY <1>5 DEF IInv, PersistTypeOK
<1> HIDE DEF r
<1>11. PersistTypeOK'
    BY <1>5, <1>7, <1>9, FunSet DEF IInv, PersistTypeOK
\* Every block named before the step is named the same way after it.
<1>12. \A g \in Pids, i \in Nat, v \in Nat : BlockOf(g, i, v) => BlockOf(g, i, v)'
    BY <1>7 DEF BlockOf
<1>13. PagesOK'
    <2> SUFFICES ASSUME NEW g \in Pids PROVE PageOK(g)'
        BY DEF PagesOK
    <2>1. PageOK(g) /\ pageTbl[g] \in Page
        BY DEF IInv, PagesOK, PersistTypeOK
    <2>2. pageTbl[g].foff \in Nat /\ pageTbl[g].fver \in Nat
        BY <2>1 DEF Page
    <2> QED
        BY <1>5, <1>12, <2>1, <2>2 DEF PageOK
<1>14. PendingOK(t)'
    <2>1. NewOK(r)
        BY <1>2, <1>3, <1>8, <1>9 DEF NewOK, PageOK
    <2>2. off \in DOMAIN lss' /\ lss'[off].pid = c.pid /\ lss'[off].typ = "data"
          /\ lss'[off].ver = pg.ver
        BY <1>7
    <2>3. \A g \in Pids : pageTbl[g].fver > 0 => pageTbl[g].foff # off
        BY <1>7 DEF IInv, PagesOK, PageOK, BlockOf
    <2>4. ~lss'[off].fin
        BY <1>7
    <2> QED
        BY <1>3, <1>4, <1>5, <1>8, <1>9, <1>10, <2>1, <2>2, <2>3, <2>4
        DEF PendingOK, PageOK, BlockOf
<1>15. ASSUME NEW q \in Procs, q # t, Pending(q) PROVE PendingOK(q)'
    <2>1. PendingOK(q) /\ proc[q] \in Call
        BY <1>15 DEF IInv, PendingsOK, PersistTypeOK
    <2>2. proc[q].new.fver \in Nat /\ proc[q].off \in Nat
        BY <2>1 DEF Call, Page
    <2>3. proc[q].off \in DOMAIN lss
        BY <2>1 DEF PendingOK, BlockOf
    <2>4. proc[q].pid \in Pids
        BY <2>1 DEF Call
    <2>5. proc[q].off \in DOMAIN lss' /\ lss'[proc[q].off] = lss[proc[q].off]
        BY <1>7, <2>3
    <2>6. proc[q].pc = "cas" => ~lss'[proc[q].off].fin /\ proc[q].kind = "persist"
        BY <1>7, <2>1, <2>3 DEF PendingOK
    <2> QED
        BY <1>5, <1>10, <1>15, <2>1, <2>5, <2>6 DEF PendingOK, BlockOf
<1>16. PendingsOK'
    BY <1>9, <1>10, <1>14, <1>15 DEF PendingsOK, Pending
<1>17. EvictsOK'
    <2> SUFFICES ASSUME NEW q \in Procs, proc'[q].pc = "ecas" PROVE EvictOK(q)'
        BY DEF EvictsOK
    <2>1. q # t /\ proc'[q] = proc[q]
        BY <1>9, <1>10
    <2> QED
        BY <2>1 DEF IInv, EvictsOK, EvictOK, NewOK
<1>18. CoversOK'
    <2> SUFFICES ASSUME NEW q \in Procs PROVE CoverOK(q)'
        BY DEF CoversOK
    <2>1. CoverOK(q)
        BY DEF IInv, CoversOK
    <2>2. CASE q = t
        <3>1. c.start \in Nat
            BY <1>1 DEF Call
        <3> QED
            BY <1>2, <1>4, <1>5, <1>8, <1>9, <1>10, <2>1, <2>2, <3>1 DEF CoverOK
    <2>3. CASE q # t
        BY <1>5, <1>10, <2>1, <2>3 DEF CoverOK
    <2> QED
        BY <2>2, <2>3
<1>19. Distinct'
    <2> SUFFICES ASSUME NEW q \in Procs, NEW q2 \in Procs, Pending(q)', Pending(q2)', q # q2
                 PROVE  proc'[q].off # proc'[q2].off
        BY DEF Distinct
    <2>1. \A x \in Procs : x # t /\ Pending(x)' => proc'[x].off \in DOMAIN lss
        BY <1>10 DEF IInv, PendingsOK, PendingOK, BlockOf, Pending
    <2> QED
        BY <1>7, <1>9, <1>10, <2>1 DEF IInv, Distinct, Pending
<1>20. ReservationsFinalized'
    <2> SUFFICES ASSUME NEW i \in DOMAIN lss', ~lss'[i].fin
                 PROVE  \E q \in Procs : proc'[q].pc = "cas" /\ proc'[q].off = i
        BY DEF ReservationsFinalized
    <2>1. CASE i = off
        BY <1>9, <1>10, <2>1
    <2>2. CASE i # off
        <3>1. i \in DOMAIN lss /\ ~lss[i].fin
            BY <1>7, <2>2
        <3>2. PICK q \in Procs : proc[q].pc = "cas" /\ proc[q].off = i
            BY <3>1 DEF IInv, ReservationsFinalized
        <3> QED
            BY <1>4, <1>10, <3>2
    <2> QED
        BY <2>1, <2>2
<1> QED
    BY <1>11, <1>13, <1>16, <1>17, <1>18, <1>19, <1>20 DEF IInv

(***************************************************************************)
(* What PersistAll's goroutine knows survives any step that leaves its     *)
(* record alone and only raises the versions in the page table.            *)
(***************************************************************************)
LEMMA CoverMono ==
    ASSUME NEW q \in Procs, CoverOK(q), proc[q] \in Call, proc'[q] = proc[q],
           pageTbl \in [Pids -> Page], pageTbl' \in [Pids -> Page],
           \A g \in Pids : /\ pageTbl'[g].fver >= pageTbl[g].fver
                           /\ pageTbl'[g].ver >= pageTbl[g].ver
    PROVE  CoverOK(q)'
<1>1. /\ proc[q].pid \in Pids
      /\ proc[q].start \in Nat
      /\ pageTbl[proc[q].pid].ver \in Nat /\ pageTbl[proc[q].pid].fver \in Nat
      /\ pageTbl'[proc[q].pid].ver \in Nat /\ pageTbl'[proc[q].pid].fver \in Nat
    BY DEF Call, Page
<1>2. /\ pageTbl[proc[q].pid].ver >= proc[q].start =>
            pageTbl'[proc[q].pid].ver >= proc[q].start
      /\ pageTbl[proc[q].pid].fver >= proc[q].start =>
            pageTbl'[proc[q].pid].fver >= proc[q].start
    BY <1>1
<1> QED
    BY <1>2, Zenon DEF CoverOK

(***************************************************************************)
(* UpdateMapping after a flush.  On success the page's new head names the  *)
(* goroutine's own block, which is finalized; on failure that block, which *)
(* no head names, is discarded and finalized.                              *)
(***************************************************************************)
LEMMA PersistCasIInv ==
    ASSUME IInv, NEW t \in Procs, PersistCas(t)
    PROVE  IInv'
<1> DEFINE c == proc[t]
<1>1. c \in Call /\ c.pid \in Pids /\ c.new \in Page /\ c.seen \in Page /\ c.off \in Nat
      /\ lss \in Seq(Block) /\ pageTbl \in [Pids -> Page] /\ proc \in [Procs -> Call]
    BY DEF IInv, PersistTypeOK, Call
<1>2. c.pc = "cas"
    BY DEF PersistCas
<1>3. PendingOK(t)
    BY <1>2 DEF IInv, PendingsOK, Pending
<1>4. /\ c.off \in DOMAIN lss /\ lss[c.off].pid = c.pid /\ lss[c.off].typ = "data"
      /\ lss[c.off].ver = c.new.fver /\ ~lss[c.off].fin /\ c.kind = "persist"
      /\ c.new.foff = c.off /\ 1 <= c.new.fver /\ NewOK(c)
      /\ \A g \in Pids : pageTbl[g].fver > 0 => pageTbl[g].foff # c.off
    BY <1>2, <1>3 DEF PendingOK, BlockOf
<1>5. lss[c.off] \in Block
    BY <1>1, <1>4
<1>6. \A q \in Procs : q # t /\ Pending(q) => proc[q].off # c.off
    BY <1>2 DEF IInv, Distinct, Pending
<1>7. \A q \in Procs : Pending(q) => PendingOK(q)
    BY DEF IInv, PendingsOK
<1>8. CASE pageTbl[c.pid] = c.seen
    <2> DEFINE nb == [lss[c.off] EXCEPT !.fin = TRUE]
               r == [c EXCEPT !.pc = "idle"]
    <2>1. /\ pageTbl' = [pageTbl EXCEPT ![c.pid] = c.new]
          /\ lss' = [lss EXCEPT ![c.off] = nb]
          /\ published' = published \cup {c.off}
          /\ proc' = [proc EXCEPT ![t] = r]
          /\ jobs' = jobs
        BY <1>8 DEF PersistCas
    <2>2. /\ nb \in Block /\ nb.pid = lss[c.off].pid /\ nb.ver = lss[c.off].ver
          /\ nb.typ = lss[c.off].typ /\ nb.fin
        BY <1>5, BlockFin
    <2>3. /\ lss' \in Seq(Block)
          /\ DOMAIN lss' = DOMAIN lss
          /\ \A j \in DOMAIN lss : j # c.off => lss'[j] = lss[j]
          /\ lss'[c.off] = nb
        BY <1>1, <1>4, <2>1, <2>2, LssSet
    <2>4. r \in Call /\ r.pc = "idle" /\ r.kind = c.kind /\ r.evict = c.evict
          /\ r.pid = c.pid /\ r.start = c.start
        BY <1>1 DEF Call, Pc
    <2>5. proc'[t] = r /\ \A q \in Procs : q # t => proc'[q] = proc[q]
        BY <1>1, <2>1
    <2>6. pageTbl' \in [Pids -> Page] /\ pageTbl'[c.pid] = c.new
          /\ \A g \in Pids : g # c.pid => pageTbl'[g] = pageTbl[g]
        BY <1>1, <2>1, FunSet
    <2> HIDE DEF nb, r
    <2>7. PersistTypeOK'
        BY <1>1, <2>1, <2>3, <2>4, <2>6, FunSet DEF IInv, PersistTypeOK
    \* Blocks keep their page, version and type.
    <2>8. \A j \in DOMAIN lss : /\ lss'[j].pid = lss[j].pid /\ lss'[j].ver = lss[j].ver
                                /\ lss'[j].typ = lss[j].typ
        BY <2>2, <2>3
    <2>9. \A g \in Pids : /\ pageTbl'[g].fver >= pageTbl[g].fver
                          /\ pageTbl'[g].ver >= pageTbl[g].ver
        <3>1. c.new.fver >= c.seen.fver /\ c.new.ver >= c.seen.ver
            BY <1>4 DEF NewOK
        <3>2. c.new.fver \in Nat /\ c.new.ver \in Nat
            BY <1>1, PageFields
        <3> SUFFICES ASSUME NEW g \in Pids
                     PROVE  /\ pageTbl'[g].fver >= pageTbl[g].fver
                            /\ pageTbl'[g].ver >= pageTbl[g].ver
            OBVIOUS
        <3>3. pageTbl[g].fver \in Nat /\ pageTbl[g].ver \in Nat
            BY <1>1, PageFields
        <3>4. CASE g = c.pid
            BY <3>1, <3>2, <3>4, <1>8, <2>6
        <3>5. CASE g # c.pid
            BY <3>3, <3>5, <2>6
        <3> QED  BY <3>4, <3>5
    <2>10. PagesOK'
        <3> SUFFICES ASSUME NEW g \in Pids PROVE PageOK(g)'
            BY DEF PagesOK
        <3>1. CASE g = c.pid
            <4>1. c.new.ver \in Nat /\ c.new.fver \in Nat /\ c.new.dver \in Nat
                BY <1>1 DEF Page
            <4> QED
                BY <1>4, <2>3, <2>6, <2>8, <3>1, <4>1 DEF PageOK, NewOK, BlockOf
        <3>2. CASE g # c.pid
            BY <2>3, <2>6, <2>8, <3>1, <3>2 DEF IInv, PagesOK, PageOK, BlockOf
        <3> QED
            BY <3>1, <3>2
    <2>11. PendingsOK'
        <3> SUFFICES ASSUME NEW q \in Procs, Pending(q)' PROVE PendingOK(q)'
            BY DEF PendingsOK
        <3>1. q # t /\ proc'[q] = proc[q] /\ Pending(q)
            BY <2>4, <2>5 DEF Pending
        <3>2. PendingOK(q) /\ proc[q].off # c.off
            BY <1>6, <1>7, <3>1
        <3>3. proc[q].off \in DOMAIN lss /\ lss'[proc[q].off] = lss[proc[q].off]
            BY <2>3, <3>2 DEF PendingOK, BlockOf
        <3>4. \A g \in Pids : pageTbl'[g].fver > 0 => pageTbl'[g].foff # proc[q].off
            BY <1>4, <2>6, <3>2 DEF PendingOK
        <3> QED
            BY <2>1, <3>1, <3>2, <3>3, <3>4 DEF PendingOK, BlockOf
    <2>12. EvictsOK'
        BY <2>4, <2>5 DEF IInv, EvictsOK, EvictOK, NewOK
    <2>13. CoversOK'
        <3> SUFFICES ASSUME NEW q \in Procs PROVE CoverOK(q)'
            BY DEF CoversOK
        <3>1. CASE q = t
            <4>1. CoverOK(t) /\ c.start \in Nat /\ c.new.fver \in Nat
                BY <1>1 DEF IInv, CoversOK, Call, Page
            <4> QED
                BY <1>2, <2>4, <2>5, <2>6, <3>1, <4>1 DEF CoverOK
        <3>2. CASE q # t
            BY <1>1, <2>5, <2>6, <2>9, <3>2, CoverMono DEF IInv, CoversOK
        <3> QED
            BY <3>1, <3>2
    <2>14. Distinct'
        BY <2>4, <2>5 DEF IInv, Distinct, Pending
    <2>15. ReservationsFinalized'
        <3> SUFFICES ASSUME NEW i \in DOMAIN lss', ~lss'[i].fin
                     PROVE  \E q \in Procs : proc'[q].pc = "cas" /\ proc'[q].off = i
            BY DEF ReservationsFinalized
        <3>1. i # c.off /\ i \in DOMAIN lss /\ ~lss[i].fin
            BY <2>2, <2>3
        <3>2. PICK q \in Procs : proc[q].pc = "cas" /\ proc[q].off = i
            BY <3>1 DEF IInv, ReservationsFinalized
        <3> QED
            BY <2>5, <3>1, <3>2
    <2> QED
        BY <2>7, <2>10, <2>11, <2>12, <2>13, <2>14, <2>15 DEF IInv
<1>9. CASE pageTbl[c.pid] # c.seen
    <2> DEFINE nb == [lss[c.off] EXCEPT !.typ = "discard", !.fin = TRUE]
               r == [c EXCEPT !.pc = "read"]
    <2>1. /\ lss' = [lss EXCEPT ![c.off] = nb]
          /\ proc' = [proc EXCEPT ![t] = r]
          /\ UNCHANGED <<pageTbl, published, jobs>>
        BY <1>9 DEF PersistCas
    <2>2. nb \in Block /\ nb.fin
        BY <1>5, BlockFin
    <2>3. /\ lss' \in Seq(Block)
          /\ DOMAIN lss' = DOMAIN lss
          /\ \A j \in DOMAIN lss : j # c.off => lss'[j] = lss[j]
          /\ lss'[c.off] = nb
        BY <1>1, <1>4, <2>1, <2>2, LssSet
    <2>4. r \in Call /\ r.pc = "read" /\ r.kind = c.kind /\ r.evict = c.evict
          /\ r.pid = c.pid /\ r.start = c.start
        BY <1>1 DEF Call, Pc
    <2>5. proc'[t] = r /\ \A q \in Procs : q # t => proc'[q] = proc[q]
        BY <1>1, <2>1
    <2> HIDE DEF nb, r
    <2>6. PersistTypeOK'
        BY <1>1, <2>1, <2>3, <2>4, FunSet DEF IInv, PersistTypeOK
    <2>7. PagesOK'
        <3> SUFFICES ASSUME NEW g \in Pids PROVE PageOK(g)'
            BY DEF PagesOK
        <3>1. PageOK(g)
            BY DEF IInv, PagesOK
        <3>2. pageTbl[g].fver > 0 => lss'[pageTbl[g].foff] = lss[pageTbl[g].foff]
            BY <1>4, <2>3, <3>1 DEF PageOK, BlockOf
        <3> QED
            BY <2>1, <2>3, <3>1, <3>2 DEF PageOK, BlockOf
    <2>8. PendingsOK'
        <3> SUFFICES ASSUME NEW q \in Procs, Pending(q)' PROVE PendingOK(q)'
            BY DEF PendingsOK
        <3>1. q # t /\ proc'[q] = proc[q] /\ Pending(q)
            BY <2>4, <2>5 DEF Pending
        <3>2. PendingOK(q) /\ proc[q].off # c.off
            BY <1>6, <1>7, <3>1
        <3>3. proc[q].off \in DOMAIN lss /\ lss'[proc[q].off] = lss[proc[q].off]
            BY <2>3, <3>2 DEF PendingOK, BlockOf
        <3> QED
            BY <2>1, <3>1, <3>2, <3>3 DEF PendingOK, BlockOf
    <2>9. EvictsOK'
        BY <2>4, <2>5 DEF IInv, EvictsOK, EvictOK, NewOK
    <2>10. CoversOK'
        <3> SUFFICES ASSUME NEW q \in Procs PROVE CoverOK(q)'
            BY DEF CoversOK
        <3>1. CoverOK(q)
            BY DEF IInv, CoversOK
        <3>2. CASE q = t
            BY <1>2, <2>1, <2>4, <2>5, <3>1, <3>2 DEF CoverOK
        <3>3. CASE q # t
            BY <2>1, <2>5, <3>1, <3>3 DEF CoverOK
        <3> QED
            BY <3>2, <3>3
    <2>11. Distinct'
        BY <2>4, <2>5 DEF IInv, Distinct, Pending
    <2>12. ReservationsFinalized'
        <3> SUFFICES ASSUME NEW i \in DOMAIN lss', ~lss'[i].fin
                     PROVE  \E q \in Procs : proc'[q].pc = "cas" /\ proc'[q].off = i
            BY DEF ReservationsFinalized
        <3>1. i # c.off /\ i \in DOMAIN lss /\ ~lss[i].fin
            BY <2>2, <2>3
        <3>2. PICK q \in Procs : proc[q].pc = "cas" /\ proc[q].off = i
            BY <3>1 DEF IInv, ReservationsFinalized
        <3> QED
            BY <2>5, <3>1, <3>2
    <2> QED
        BY <2>6, <2>7, <2>8, <2>9, <2>10, <2>11, <2>12 DEF IInv
<1> QED
    BY <1>8, <1>9


(***************************************************************************)
(* UpdateMapping on the evict-only path.  On success the head installed    *)
(* keeps the flush record of the head read, whose block PageOK vouches     *)
(* for; on failure the goroutine goes back to ReadPage.                    *)
(***************************************************************************)
LEMMA EvictCasIInv ==
    ASSUME IInv, NEW t \in Procs, EvictCas(t)
    PROVE  IInv'
<1> DEFINE c == proc[t]
<1>1. c \in Call /\ c.pid \in Pids /\ c.new \in Page /\ c.seen \in Page
      /\ pageTbl \in [Pids -> Page] /\ proc \in [Procs -> Call]
    BY DEF IInv, PersistTypeOK, Call
<1>2. c.pc = "ecas"
    BY DEF EvictCas
<1>3. EvictOK(t)
    BY <1>2 DEF IInv, EvictsOK
<1>4. c.evict /\ c.seen.fver = c.seen.ver /\ NewOK(c)
      /\ c.new.ver = c.seen.ver /\ c.new.fver = c.seen.ver
      /\ c.new.foff = c.seen.foff /\ c.new.dver = c.seen.ver
    <2>1. c.seen.foff \in Nat
        BY <1>1, PageFields
    <2>2. c.evict /\ c.seen.fver = c.seen.ver /\ NewOK(c)
          /\ c.new = Evict(c.seen, c.seen.foff)
        BY <1>3 DEF EvictOK
    <2>3. /\ Evict(c.seen, c.seen.foff).ver = c.seen.ver
          /\ Evict(c.seen, c.seen.foff).fver = c.seen.ver
          /\ Evict(c.seen, c.seen.foff).foff = c.seen.foff
          /\ Evict(c.seen, c.seen.foff).dver = c.seen.ver
        BY <1>1, <2>1, EvictRec
    <2> QED
        BY <2>2, <2>3
<1>5. CASE pageTbl[c.pid] = c.seen
    <2> DEFINE r == [c EXCEPT !.pc = "idle"]
    <2>1. /\ pageTbl' = [pageTbl EXCEPT ![c.pid] = c.new]
          /\ proc' = [proc EXCEPT ![t] = r]
          /\ UNCHANGED <<lss, published, jobs>>
        BY <1>5 DEF EvictCas
    <2>2. r \in Call /\ r.pc = "idle" /\ r.evict
        BY <1>1, <1>4 DEF Call, Pc
    <2>3. proc'[t] = r /\ \A q \in Procs : q # t => proc'[q] = proc[q]
        BY <1>1, <2>1
    <2>4. pageTbl' \in [Pids -> Page] /\ pageTbl'[c.pid] = c.new
          /\ \A g \in Pids : g # c.pid => pageTbl'[g] = pageTbl[g]
        BY <1>1, <2>1, FunSet
    <2> HIDE DEF r
    <2>5. PersistTypeOK'
        BY <1>1, <2>1, <2>2, <2>4, FunSet DEF IInv, PersistTypeOK
    \* The page's new head is the head read, evicted: same flush record.
    <2>6. /\ pageTbl'[c.pid].fver = pageTbl[c.pid].fver
          /\ pageTbl'[c.pid].foff = pageTbl[c.pid].foff
          /\ pageTbl'[c.pid].ver = pageTbl[c.pid].ver
          /\ pageTbl'[c.pid].dver = pageTbl[c.pid].ver
        BY <1>4, <1>5, <2>4
    <2>7. \A g \in Pids : /\ pageTbl'[g].fver = pageTbl[g].fver
                          /\ pageTbl'[g].foff = pageTbl[g].foff
                          /\ pageTbl'[g].ver = pageTbl[g].ver
        BY <2>4, <2>6
    <2>8. PagesOK'
        <3> SUFFICES ASSUME NEW g \in Pids PROVE PageOK(g)'
            BY DEF PagesOK
        <3>1. PageOK(g)
            BY DEF IInv, PagesOK
        <3>2. pageTbl'[g].dver <= pageTbl'[g].fver
            <4>1. CASE g = c.pid
                <5>1. pageTbl[c.pid].ver \in Nat
                    BY <1>1, PageFields
                <5> QED
                    BY <1>4, <1>5, <2>6, <4>1, <5>1
            <4>2. CASE g # c.pid
                BY <2>4, <3>1, <4>2 DEF PageOK
            <4> QED
                BY <4>1, <4>2
        <3> QED
            BY <2>1, <2>7, <3>1, <3>2 DEF PageOK, BlockOf
    <2>9. PendingsOK'
        <3> SUFFICES ASSUME NEW q \in Procs, Pending(q)' PROVE PendingOK(q)'
            BY DEF PendingsOK
        <3>1. q # t /\ proc'[q] = proc[q] /\ Pending(q)
            BY <2>2, <2>3 DEF Pending
        <3>2. PendingOK(q)
            BY <3>1 DEF IInv, PendingsOK
        <3> QED
            BY <2>1, <2>7, <3>1, <3>2 DEF PendingOK, NewOK, BlockOf
    <2>10. EvictsOK'
        BY <2>2, <2>3 DEF IInv, EvictsOK, EvictOK, NewOK
    <2>11. CoversOK'
        <3> SUFFICES ASSUME NEW q \in Procs PROVE CoverOK(q)'
            BY DEF CoversOK
        <3>1. CASE q = t
            BY <2>2, <2>3, <3>1 DEF CoverOK
        <3>2. CASE q # t
            <4>1. \A g \in Pids : /\ pageTbl'[g].fver >= pageTbl[g].fver
                                  /\ pageTbl'[g].ver >= pageTbl[g].ver
                <5> SUFFICES ASSUME NEW g \in Pids
                             PROVE  /\ pageTbl'[g].fver >= pageTbl[g].fver
                                    /\ pageTbl'[g].ver >= pageTbl[g].ver
                    OBVIOUS
                <5>1. pageTbl[g].fver \in Nat /\ pageTbl[g].ver \in Nat
                    BY <1>1, PageFields
                <5> QED
                    BY <2>7, <5>1
            <4> QED
                BY <1>1, <2>3, <2>4, <3>2, <4>1, CoverMono DEF IInv, CoversOK
        <3> QED
            BY <3>1, <3>2
    <2>12. Distinct'
        BY <2>2, <2>3 DEF IInv, Distinct, Pending
    <2>13. ReservationsFinalized'
        <3> SUFFICES ASSUME NEW i \in DOMAIN lss, ~lss[i].fin
                     PROVE  \E q \in Procs : proc'[q].pc = "cas" /\ proc'[q].off = i
            BY <2>1 DEF ReservationsFinalized
        <3>1. PICK q \in Procs : proc[q].pc = "cas" /\ proc[q].off = i
            BY DEF IInv, ReservationsFinalized
        <3> QED
            BY <1>2, <2>3, <3>1
    <2> QED
        BY <2>5, <2>8, <2>9, <2>10, <2>11, <2>12, <2>13 DEF IInv
<1>6. CASE pageTbl[c.pid] # c.seen
    <2> DEFINE r == [c EXCEPT !.pc = "read"]
    <2>1. r \in Call /\ r.pc = "read" /\ r.evict
        BY <1>1, <1>4 DEF Call, Pc
    <2>2. proc' = [proc EXCEPT ![t] = r] /\ pageTbl' = pageTbl /\ lss' = lss
        BY <1>6 DEF EvictCas
    <2>3. published' \subseteq Nat /\ jobs' \in 0 .. MaxJobs
        BY DEF EvictCas, IInv, PersistTypeOK
    <2>4. proc'[t] = r
        BY <1>1, <2>2
    <2>5. CoverOK(t)'
        BY <2>1, <2>4 DEF CoverOK
    <2>6. proc[t].pc # "cas" /\ r.pc \in {"idle", "read", "ecas"} /\ r.pc # "ecas"
        BY <1>2, <2>1
    <2> HIDE DEF c, r
    <2> QED
        BY <2>1, <2>2, <2>3, <2>5, <2>6, LocalStep
<1> QED
    BY <1>5, <1>6


(***************************************************************************)
(* Rollback's callback up to UpdateMapping: a finalized block holding the  *)
(* rolled-back version at the end of the log, and a head to install whose *)
(* flush record names it.                                                  *)
(***************************************************************************)
LEMMA RollbackReadIInv ==
    ASSUME IInv, NEW t \in Procs, RollbackRead(t)
    PROVE  IInv'
<1> DEFINE c == proc[t]
           pg == pageTbl[c.pid]
           rb == [pg EXCEPT !.ver = pg.ver + 1]
           off == Len(lss) + 1
           blk == [pid |-> c.pid, ver |-> pg.ver + 1, typ |-> "data", fin |-> TRUE,
                   by |-> "rollback"]
           nw == AddFlushRecord(rb, off)
           r == [c EXCEPT !.pc = "rcas", !.seen = pg, !.off = off, !.new = nw]
<1>1. c \in Call /\ pg \in Page /\ c.pid \in Pids /\ lss \in Seq(Block)
      /\ proc \in [Procs -> Call]
    BY DEF IInv, PersistTypeOK, Call
<1>2. pg.ver \in Nat /\ pg.fver \in Nat /\ pg.dver \in Nat /\ off \in Nat
    BY <1>1 DEF Page
<1>3. PageOK(c.pid)
    BY <1>1 DEF IInv, PagesOK
<1>4. c.pc = "read" /\ c.kind = "rollback"
    BY DEF RollbackRead
<1>5. /\ lss' = Append(lss, blk)
      /\ proc' = [proc EXCEPT ![t] = r]
      /\ UNCHANGED <<pageTbl, published, jobs>>
    <2>1. rb.ver = pg.ver + 1
        BY <1>1 DEF Page
    <2>2. /\ lss' = Reserve(c.pid, rb.ver, TRUE, "rollback")
          /\ proc' = [proc EXCEPT ![t] = r]
          /\ UNCHANGED <<pageTbl, published, jobs>>
        BY Zenon DEF RollbackRead
    <2> QED
        BY <2>1, <2>2, Zenon DEF Reserve
<1>6. blk \in Block
    BY <1>1, <1>2 DEF Block
<1>7. /\ lss' \in Seq(Block)
      /\ DOMAIN lss' = DOMAIN lss \cup {off}
      /\ off \notin DOMAIN lss
      /\ \A j \in DOMAIN lss : lss'[j] = lss[j]
      /\ lss'[off] = blk
    BY <1>1, <1>5, <1>6, LssAppend
<1>8. /\ rb \in Page /\ rb.ver = pg.ver + 1 /\ rb.dver = pg.dver
    BY <1>1, <1>2 DEF Page
<1>9. /\ nw \in Page
      /\ nw.ver = pg.ver + 1 /\ nw.fver = pg.ver + 1 /\ nw.foff = off
      /\ nw.dver = pg.dver
    BY <1>2, <1>8, AddFlushRec
<1>10. r \in Call /\ r.pc = "rcas" /\ r.seen = pg /\ r.off = off /\ r.new = nw
       /\ r.pid = c.pid /\ r.kind = c.kind
    BY <1>1, <1>2, <1>9 DEF Call, Pc
<1>11. proc'[t] = r /\ \A q \in Procs : q # t => proc'[q] = proc[q]
    BY <1>1, <1>5
<1> HIDE DEF r, nw, rb
<1>12. PersistTypeOK'
    BY <1>5, <1>7, <1>10, FunSet DEF IInv, PersistTypeOK
\* Every block named before the step is named the same way after it.
<1>13. \A g \in Pids, i \in Nat, v \in Nat : BlockOf(g, i, v) => BlockOf(g, i, v)'
    BY <1>7 DEF BlockOf
<1>14. PagesOK'
    <2> SUFFICES ASSUME NEW g \in Pids PROVE PageOK(g)'
        BY DEF PagesOK
    <2>1. PageOK(g) /\ pageTbl[g] \in Page
        BY DEF IInv, PagesOK, PersistTypeOK
    <2>2. pageTbl[g].foff \in Nat /\ pageTbl[g].fver \in Nat
        BY <2>1 DEF Page
    <2> QED
        BY <1>5, <1>13, <2>1, <2>2 DEF PageOK
<1>15. PendingOK(t)'
    <2>1. NewOK(r)
        BY <1>2, <1>3, <1>9, <1>10 DEF NewOK, PageOK
    <2>2. off \in DOMAIN lss' /\ lss'[off].pid = c.pid /\ lss'[off].typ = "data"
          /\ lss'[off].ver = pg.ver + 1
        BY <1>7
    <2>3. \A g \in Pids : pageTbl[g].fver > 0 => pageTbl[g].foff # off
        BY <1>7 DEF IInv, PagesOK, PageOK, BlockOf
    <2> QED
        BY <1>2, <1>5, <1>9, <1>10, <1>11, <2>1, <2>2, <2>3 DEF PendingOK, BlockOf
<1>16. ASSUME NEW q \in Procs, q # t, Pending(q) PROVE PendingOK(q)'
    <2>1. PendingOK(q)
        BY <1>16 DEF IInv, PendingsOK
    <2>2. proc[q].off \in DOMAIN lss
        BY <2>1 DEF PendingOK, BlockOf
    <2>3. proc[q].off \in DOMAIN lss' /\ lss'[proc[q].off] = lss[proc[q].off]
        BY <1>7, <2>2
    <2> QED
        BY <1>5, <1>11, <1>16, <2>1, <2>3 DEF PendingOK, BlockOf
<1>17. PendingsOK'
    BY <1>10, <1>11, <1>15, <1>16 DEF PendingsOK, Pending
<1>18. EvictsOK'
    <2> SUFFICES ASSUME NEW q \in Procs, proc'[q].pc = "ecas" PROVE EvictOK(q)'
        BY DEF EvictsOK
    <2>1. q # t /\ proc'[q] = proc[q]
        BY <1>10, <1>11
    <2> QED
        BY <2>1 DEF IInv, EvictsOK, EvictOK, NewOK
<1>19. CoversOK'
    <2> SUFFICES ASSUME NEW q \in Procs PROVE CoverOK(q)'
        BY DEF CoversOK
    <2>1. CASE q = t
        BY <1>4, <1>10, <1>11, <2>1 DEF CoverOK
    <2>2. CASE q # t
        BY <1>5, <1>11, <2>2 DEF IInv, CoversOK, CoverOK
    <2> QED
        BY <2>1, <2>2
<1>20. Distinct'
    <2> SUFFICES ASSUME NEW q \in Procs, NEW q2 \in Procs, Pending(q)', Pending(q2)', q # q2
                 PROVE  proc'[q].off # proc'[q2].off
        BY DEF Distinct
    <2>1. \A x \in Procs : x # t /\ Pending(x)' => proc'[x].off \in DOMAIN lss
        BY <1>11 DEF IInv, PendingsOK, PendingOK, BlockOf, Pending
    <2> QED
        BY <1>7, <1>10, <1>11, <2>1 DEF IInv, Distinct, Pending
<1>21. ReservationsFinalized'
    <2> SUFFICES ASSUME NEW i \in DOMAIN lss', ~lss'[i].fin
                 PROVE  \E q \in Procs : proc'[q].pc = "cas" /\ proc'[q].off = i
        BY DEF ReservationsFinalized
    <2>1. i # off
        BY <1>7
    <2>2. i \in DOMAIN lss /\ ~lss[i].fin
        BY <1>7, <2>1
    <2>3. PICK q \in Procs : proc[q].pc = "cas" /\ proc[q].off = i
        BY <2>2 DEF IInv, ReservationsFinalized
    <2> QED
        BY <1>4, <1>11, <2>3
<1> QED
    BY <1>12, <1>14, <1>17, <1>18, <1>19, <1>20, <1>21 DEF IInv


(***************************************************************************)
(* UpdateMapping in Rollback's callback.  On success the page's new head   *)
(* names the finalized rollback block; on failure the goroutine goes back  *)
(* to retry and the block stays as it is.                                  *)
(***************************************************************************)
LEMMA RollbackCasIInv ==
    ASSUME IInv, NEW t \in Procs, RollbackCas(t)
    PROVE  IInv'
<1> DEFINE c == proc[t]
<1>1. c \in Call /\ c.pid \in Pids /\ c.new \in Page /\ c.seen \in Page /\ c.off \in Nat
      /\ pageTbl \in [Pids -> Page] /\ proc \in [Procs -> Call]
    BY DEF IInv, PersistTypeOK, Call
<1>2. c.pc = "rcas"
    BY DEF RollbackCas
<1>3. PendingOK(t)
    BY <1>2 DEF IInv, PendingsOK, Pending
<1>4. /\ BlockOf(c.pid, c.off, c.new.fver)
      /\ c.new.foff = c.off /\ 1 <= c.new.fver /\ NewOK(c)
    BY <1>3 DEF PendingOK
\* The call is not PersistAll's, whose goroutine never reaches "rcas".
<1>5. ~(c.kind = "persist" /\ ~c.evict)
    BY <1>2 DEF IInv, CoversOK, CoverOK
<1>6. \A q \in Procs : q # t /\ Pending(q) => proc[q].off # c.off
    BY <1>2 DEF IInv, Distinct, Pending
<1>7. CASE pageTbl[c.pid] = c.seen
    <2> DEFINE r == [c EXCEPT !.pc = "idle"]
    <2>1. /\ pageTbl' = [pageTbl EXCEPT ![c.pid] = c.new]
          /\ published' = published \cup {c.off}
          /\ proc' = [proc EXCEPT ![t] = r]
          /\ UNCHANGED <<lss, jobs>>
        BY <1>7 DEF RollbackCas
    <2>2. r \in Call /\ r.pc = "idle" /\ r.kind = c.kind /\ r.evict = c.evict
        BY <1>1 DEF Call, Pc
    <2>3. proc'[t] = r /\ \A q \in Procs : q # t => proc'[q] = proc[q]
        BY <1>1, <2>1
    <2>4. pageTbl' \in [Pids -> Page] /\ pageTbl'[c.pid] = c.new
          /\ \A g \in Pids : g # c.pid => pageTbl'[g] = pageTbl[g]
        BY <1>1, <2>1, FunSet
    <2> HIDE DEF r
    <2>5. PersistTypeOK'
        BY <1>1, <2>1, <2>2, <2>4, FunSet DEF IInv, PersistTypeOK
    <2>6. \A g \in Pids : /\ pageTbl'[g].fver >= pageTbl[g].fver
                          /\ pageTbl'[g].ver >= pageTbl[g].ver
        <3>1. c.new.fver >= c.seen.fver /\ c.new.ver >= c.seen.ver
            BY <1>4 DEF NewOK
        <3>2. c.new.fver \in Nat /\ c.new.ver \in Nat
            BY <1>1, PageFields
        <3> SUFFICES ASSUME NEW g \in Pids
                     PROVE  /\ pageTbl'[g].fver >= pageTbl[g].fver
                            /\ pageTbl'[g].ver >= pageTbl[g].ver
            OBVIOUS
        <3>3. pageTbl[g].fver \in Nat /\ pageTbl[g].ver \in Nat
            BY <1>1, PageFields
        <3>4. CASE g = c.pid
            BY <3>1, <3>2, <3>4, <1>7, <2>4
        <3>5. CASE g # c.pid
            BY <3>3, <3>5, <2>4
        <3> QED  BY <3>4, <3>5
    <2>7. PagesOK'
        <3> SUFFICES ASSUME NEW g \in Pids PROVE PageOK(g)'
            BY DEF PagesOK
        <3>1. CASE g = c.pid
            <4>1. c.new.ver \in Nat /\ c.new.fver \in Nat /\ c.new.dver \in Nat
                  /\ c.seen.ver \in Nat
                BY <1>1, PageFields
            <4>2. 1 <= c.seen.ver
                BY <1>1, <1>7 DEF IInv, PagesOK, PageOK
            <4> QED
                BY <1>4, <2>1, <2>4, <3>1, <4>1, <4>2 DEF PageOK, NewOK, BlockOf
        <3>2. CASE g # c.pid
            BY <2>1, <2>4, <3>2 DEF IInv, PagesOK, PageOK, BlockOf
        <3> QED
            BY <3>1, <3>2
    <2>8. PendingsOK'
        <3> SUFFICES ASSUME NEW q \in Procs, Pending(q)' PROVE PendingOK(q)'
            BY DEF PendingsOK
        <3>1. q # t /\ proc'[q] = proc[q] /\ Pending(q)
            BY <2>2, <2>3 DEF Pending
        <3>2. PendingOK(q) /\ proc[q].off # c.off
            BY <1>6, <3>1 DEF IInv, PendingsOK
        <3>3. \A g \in Pids : pageTbl'[g].fver > 0 => pageTbl'[g].foff # proc[q].off
            BY <1>4, <2>4, <3>2 DEF PendingOK
        <3> QED
            BY <2>1, <3>1, <3>2, <3>3 DEF PendingOK, BlockOf
    <2>9. EvictsOK'
        BY <2>2, <2>3 DEF IInv, EvictsOK, EvictOK, NewOK
    <2>10. CoversOK'
        <3> SUFFICES ASSUME NEW q \in Procs PROVE CoverOK(q)'
            BY DEF CoversOK
        <3>1. CASE q = t
            BY <1>5, <2>2, <2>3, <3>1 DEF CoverOK
        <3>2. CASE q # t
            BY <1>1, <2>3, <2>4, <2>6, <3>2, CoverMono DEF IInv, CoversOK
        <3> QED
            BY <3>1, <3>2
    <2>11. Distinct'
        BY <2>2, <2>3 DEF IInv, Distinct, Pending
    <2>12. ReservationsFinalized'
        <3> SUFFICES ASSUME NEW i \in DOMAIN lss, ~lss[i].fin
                     PROVE  \E q \in Procs : proc'[q].pc = "cas" /\ proc'[q].off = i
            BY <2>1 DEF ReservationsFinalized
        <3>1. PICK q \in Procs : proc[q].pc = "cas" /\ proc[q].off = i
            BY DEF IInv, ReservationsFinalized
        <3> QED
            BY <1>2, <2>3, <3>1
    <2> QED
        BY <2>5, <2>7, <2>8, <2>9, <2>10, <2>11, <2>12 DEF IInv
<1>8. CASE pageTbl[c.pid] # c.seen
    <2> DEFINE r == [c EXCEPT !.pc = "read"]
    <2>1. r \in Call /\ r.pc = "read" /\ r.kind = c.kind /\ r.evict = c.evict
        BY <1>1 DEF Call, Pc
    <2>2. proc' = [proc EXCEPT ![t] = r] /\ pageTbl' = pageTbl /\ lss' = lss
        BY <1>8 DEF RollbackCas
    <2>3. published' \subseteq Nat /\ jobs' \in 0 .. MaxJobs
        BY <1>8 DEF RollbackCas, IInv, PersistTypeOK
    <2>4. proc'[t] = r
        BY <1>1, <2>2
    <2>5. CoverOK(t)'
        BY <1>5, <2>1, <2>4 DEF CoverOK
    <2>6. proc[t].pc # "cas" /\ r.pc \in {"idle", "read", "ecas"} /\ r.pc # "ecas"
        BY <1>2, <2>1
    <2> HIDE DEF c, r
    <2> QED
        BY <2>1, <2>2, <2>3, <2>5, <2>6, LocalStep
<1> QED
    BY <1>7, <1>8


-----------------------------------------------------------------------------
(***************************************************************************)
(* Consecution, and the invariants IInv implies.                           *)
(***************************************************************************)
LEMMA NextIInv == IInv /\ [Next]_vars => IInv'
<1> SUFFICES ASSUME IInv, [Next]_vars PROVE IInv'
    OBVIOUS
<1>1. ASSUME NEW t \in Procs, ProcStep(t) PROVE IInv'
    <2>1. CASE PersistRead(t) /\ NeedsFlush(pageTbl[proc[t].pid])
        BY <2>1, PersistReadFlushIInv
    <2>2. CASE PersistRead(t) /\ ~NeedsFlush(pageTbl[proc[t].pid])
        BY <2>2, PersistReadNoFlushIInv
    <2>3. CASE PersistCas(t)
        BY <2>3, PersistCasIInv
    <2>4. CASE EvictCas(t)
        BY <2>4, EvictCasIInv
    <2>5. CASE RollbackRead(t)
        BY <2>5, RollbackReadIInv
    <2>6. CASE RollbackCas(t)
        BY <2>6, RollbackCasIInv
    <2> QED
        BY <1>1, <2>1, <2>2, <2>3, <2>4, <2>5, <2>6 DEF ProcStep
<1>2. CASE UNCHANGED vars
    BY <1>2 DEF vars, IInv, PersistTypeOK, PagesOK, PageOK, BlockOf, PendingsOK,
               PendingOK, NewOK, Pending, EvictsOK, EvictOK, CoversOK, CoverOK,
               Distinct, ReservationsFinalized
<1> QED
    BY <1>1, <1>2, StartPersistIInv, StartRollbackIInv, InsertIInv
    DEF Next, NextPersist

(***************************************************************************)
(* The inductive invariant holds in every state of every Persist,          *)
(* PersistAll, EvictAll and Rollback run: page heads, pending CASes,       *)
(* evict-only paths and reservations stay consistent with the log.         *)
(***************************************************************************)
THEOREM SpecIInv == Spec => []IInv
BY InitIInv, NextIInv, PTL DEF Spec

(***************************************************************************)
(* NoDataLoss follows from PageOK: a head with dver > 0 has fver >= dver   *)
(* > 0, so its flush record names an undiscarded block of version fver.    *)
(***************************************************************************)
LEMMA IInvNoDataLoss == IInv => NoDataLoss
<1> SUFFICES ASSUME IInv, NEW k \in Pids, pageTbl[k].dver > 0
             PROVE  /\ pageTbl[k].foff \in DOMAIN lss
                    /\ lss[pageTbl[k].foff].pid = k
                    /\ lss[pageTbl[k].foff].typ = "data"
                    /\ lss[pageTbl[k].foff].ver >= pageTbl[k].dver
    BY DEF NoDataLoss
<1>1. PageOK(k) /\ pageTbl[k] \in Page
    BY DEF IInv, PagesOK, PersistTypeOK
<1>2. pageTbl[k].dver \in Nat /\ pageTbl[k].fver \in Nat
    BY <1>1, PageFields
<1>3. pageTbl[k].fver > 0 /\ pageTbl[k].fver >= pageTbl[k].dver
    BY <1>1, <1>2 DEF PageOK
<1> QED
    BY <1>1, <1>3 DEF PageOK, BlockOf

\* FlushCoversStart is the "idle" clause of CoverOK.
LEMMA IInvFlushCoversStart == IInv => FlushCoversStart
BY DEF IInv, CoversOK, CoverOK, FlushCoversStart

(***************************************************************************)
(* Every Persist, PersistAll, EvictAll and Rollback run keeps the page     *)
(* table, the log and the goroutines' records well typed.                  *)
(***************************************************************************)
THEOREM TypeCorrect == Spec => []PersistTypeOK
BY SpecIInv, PTL DEF IInv

(***************************************************************************)
(* Whatever the interleaving of flushes, evictions, rollbacks and Inserts  *)
(* on a page, and however often UpdateMapping fails, a head whose          *)
(* in-memory data was evicted points at an undiscarded log block of its    *)
(* page holding at least the evicted version.                              *)
(***************************************************************************)
THEOREM NoDataLossThm == Spec => []NoDataLoss
BY SpecIInv, IInvNoDataLoss, PTL

(***************************************************************************)
(* Every block left unfinalized in the log belongs to a goroutine that is  *)
(* about to CAS the head naming it (Persist's failed UpdateMapping         *)
(* finalizes before it retries), so the LSS flusher is never blocked.     *)
(***************************************************************************)
THEOREM ReservationsFinalizedThm == Spec => []ReservationsFinalized
BY SpecIInv, PTL DEF IInv

(***************************************************************************)
(* When Persist(pid, false) returns, the page's flush record covers the    *)
(* version the page had when the call began, for every number of pages,   *)
(* goroutines and versions.                                                *)
(***************************************************************************)
THEOREM FlushCoversStartThm == Spec => []FlushCoversStart
BY SpecIInv, IInvFlushCoversStart, PTL


-----------------------------------------------------------------------------
(***************************************************************************)
(* The blocks Persist writes.  A finalized data block written by Persist   *)
(* is one whose flush record a successful UpdateMapping installed: Persist *)
(* finalizes its block only in the CAS step, and on a failed CAS it marks  *)
(* the block lssDiscard in the same step.  This is stronger than           *)
(* PersistNoOrphanBlock, which also allows a block whose CAS is still to   *)
(* come, and it is inductive given IInv.                                   *)
(***************************************************************************)
PersistBlocksPublished ==
    \A i \in DOMAIN lss :
        lss[i].fin /\ lss[i].typ = "data" /\ lss[i].by = "persist" => i \in published

\* A step that leaves the log alone and keeps every published offset.
LEMMA PBPFrame ==
    ASSUME PersistBlocksPublished, lss' = lss, published \subseteq published'
    PROVE  PersistBlocksPublished'
BY DEF PersistBlocksPublished

\* A step that appends one block that is not a finalized Persist data block.
LEMMA PBPAppend ==
    ASSUME PersistBlocksPublished, lss \in Seq(Block), NEW b \in Block,
           ~(b.fin /\ b.typ = "data" /\ b.by = "persist"),
           lss' = Append(lss, b), published' = published
    PROVE  PersistBlocksPublished'
<1>1. /\ DOMAIN lss' = DOMAIN lss \cup {Len(lss) + 1}
      /\ \A j \in DOMAIN lss : lss'[j] = lss[j]
      /\ lss'[Len(lss) + 1] = b
    BY LssAppend
<1> QED
    BY <1>1 DEF PersistBlocksPublished

LEMMA InitPBP == Init => PersistBlocksPublished
BY DEF Init, PersistBlocksPublished

\* Persist's UpdateMapping: the block is published, or discarded.
LEMMA PersistCasPBP ==
    ASSUME IInv, PersistBlocksPublished, NEW t \in Procs, PersistCas(t)
    PROVE  PersistBlocksPublished'
<1> DEFINE c == proc[t]
<1>1. lss \in Seq(Block)
    BY DEF IInv, PersistTypeOK
<1> SUFFICES ASSUME NEW i \in DOMAIN lss',
                    lss'[i].fin, lss'[i].typ = "data", lss'[i].by = "persist"
             PROVE  i \in published'
    BY DEF PersistBlocksPublished
<1>2. CASE pageTbl[c.pid] = c.seen
    <2>1. lss' = [lss EXCEPT ![c.off].fin = TRUE] /\ published' = published \cup {c.off}
        BY <1>2 DEF PersistCas
    <2>2. i \in DOMAIN lss
        BY <2>1
    <2>3. CASE i = c.off
        BY <2>1, <2>3
    <2>4. CASE i # c.off
        <3>1. lss'[i] = lss[i]
            BY <2>1, <2>2, <2>4
        <3> QED
            BY <2>1, <2>2, <3>1 DEF PersistBlocksPublished
    <2> QED
        BY <2>3, <2>4
<1>3. CASE pageTbl[c.pid] # c.seen
    <2>1. lss' = [lss EXCEPT ![c.off].typ = "discard", ![c.off].fin = TRUE]
          /\ published' = published
        BY <1>3 DEF PersistCas
    <2>2. i \in DOMAIN lss
        BY <2>1
    <2>3. i # c.off
        BY <2>1, <2>2
    <2>4. lss'[i] = lss[i]
        BY <2>1, <2>2, <2>3
    <2> QED
        BY <2>1, <2>2, <2>4 DEF PersistBlocksPublished
<1> QED
    BY <1>2, <1>3

LEMMA NextPBP ==
    IInv /\ PersistBlocksPublished /\ [Next]_vars => PersistBlocksPublished'
<1> SUFFICES ASSUME IInv, PersistBlocksPublished, [Next]_vars
             PROVE  PersistBlocksPublished'
    OBVIOUS
<1>1. lss \in Seq(Block) /\ proc \in [Procs -> Call] /\ pageTbl \in [Pids -> Page]
    BY DEF IInv, PersistTypeOK
<1>2. ASSUME NEW t \in Procs, PersistRead(t) PROVE PersistBlocksPublished'
    <2> DEFINE c == proc[t]
               pg == pageTbl[c.pid]
    <2>1. c \in Call /\ pg \in Page
        BY <1>1 DEF Call
    <2>2. CASE NeedsFlush(pg)
        <3>1. lss' = Append(lss, [pid |-> c.pid, ver |-> pg.ver, typ |-> "data",
                                  fin |-> FALSE, by |-> "persist"])
              /\ published' = published
            BY <1>2, <2>2 DEF PersistRead, NeedsFlush, Reserve
        <3>2. [pid |-> c.pid, ver |-> pg.ver, typ |-> "data",
               fin |-> FALSE, by |-> "persist"] \in Block
            BY <2>1, PageFields DEF Block, Call
        <3> QED
            BY <1>1, <3>1, <3>2, PBPAppend
    <2>3. CASE ~NeedsFlush(pg)
        BY <1>2, <2>3, PBPFrame DEF PersistRead
    <2> QED
        BY <2>2, <2>3
<1>3. ASSUME NEW t \in Procs, RollbackRead(t) PROVE PersistBlocksPublished'
    <2> DEFINE c == proc[t]
               pg == pageTbl[c.pid]
    <2>1. c \in Call /\ pg \in Page
        BY <1>1 DEF Call
    <2>2. lss' = Append(lss, [pid |-> c.pid, ver |-> pg.ver + 1, typ |-> "data",
                              fin |-> TRUE, by |-> "rollback"])
          /\ published' = published
        BY <1>3 DEF RollbackRead, Reserve
    <2>3. [pid |-> c.pid, ver |-> pg.ver + 1, typ |-> "data",
           fin |-> TRUE, by |-> "rollback"] \in Block
        BY <2>1, PageFields DEF Block, Call
    <2> QED
        BY <1>1, <2>2, <2>3, PBPAppend
<1>4. ASSUME NEW t \in Procs, PersistCas(t) PROVE PersistBlocksPublished'
    BY <1>4, PersistCasPBP
<1>5. ASSUME NEW t \in Procs, EvictCas(t) \/ RollbackCas(t) PROVE PersistBlocksPublished'
    BY <1>5, PBPFrame DEF EvictCas, RollbackCas
<1>6. ASSUME NEW t \in Procs, NEW g \in Pids,
             \/ \E e \in BOOLEAN : StartPersist(t, g, e)
             \/ StartRollback(t, g)
      PROVE  PersistBlocksPublished'
    BY <1>6, PBPFrame DEF StartPersist, StartRollback
<1>7. ASSUME NEW g \in Pids, Insert(g) PROVE PersistBlocksPublished'
    BY <1>7, PBPFrame DEF Insert
<1>8. UNCHANGED vars => PersistBlocksPublished'
    BY PBPFrame DEF vars
<1> QED
    BY <1>2, <1>3, <1>4, <1>5, <1>6, <1>7, <1>8 DEF Next, NextPersist, ProcStep

(***************************************************************************)
(* A finalized data block that Persist wrote is never an orphan that       *)
(* recovery would replay: its flush record was installed by the CAS that   *)
(* finalized it, for every number of pages, goroutines and versions, and   *)
(* whatever Rollback's callback does alongside.                            *)
(***************************************************************************)
THEOREM PersistNoOrphanBlockThm == Spec => []PersistNoOrphanBlock
<1>1. Spec => []PersistBlocksPublished
    BY SpecIInv, InitPBP, NextPBP, PTL DEF Spec
<1>2. PersistBlocksPublished => PersistNoOrphanBlock
    BY DEF PersistBlocksPublished, PersistNoOrphanBlock, Accounted
<1> QED
    BY <1>1, <1>2, PTL

-----------------------------------------------------------------------------
(***************************************************************************)
(* Heads only advance.  A goroutine's new head is built from the head it   *)
(* read and is ahead of it in every field: a flush names the block just    *)
(* reserved at the end of the log, past every offset a head names, and an *)
(* Evict or a rollback delta only raises versions.  Its CAS succeeds only  *)
(* when the head is still the one read, so the head moves forward.        *)
(***************************************************************************)
Advances(c) ==
    /\ c.seen.ver <= c.new.ver
    /\ c.seen.fver <= c.new.fver
    /\ c.seen.foff <= c.new.foff
    /\ c.seen.dver <= c.new.dver

\* Every flush offset a head names is a block already reserved.
FoffInLog == \A g \in Pids : pageTbl[g].foff <= Len(lss)

AdvInv ==
    /\ FoffInLog
    /\ \A q \in Procs : proc[q].pc \in {"cas", "rcas", "ecas"} => Advances(proc[q])

\* The step relation of HeadsAdvance.
HeadStep ==
    \A pid \in Pids :
        /\ pageTbl[pid].ver <= pageTbl'[pid].ver
        /\ pageTbl[pid].fver <= pageTbl'[pid].fver
        /\ pageTbl[pid].foff <= pageTbl'[pid].foff
        /\ pageTbl[pid].dver <= pageTbl'[pid].dver

LEMMA InitAdv == Init => AdvInv
BY DEF Init, AdvInv, FoffInLog, NoPage

\* A step that replaces goroutine t's record, keeping AdvInv for the others.
LEMMA AdvLocal ==
    ASSUME AdvInv, proc \in [Procs -> Call], NEW t \in Procs, NEW rec,
           proc' = [proc EXCEPT ![t] = rec],
           rec.pc \in {"cas", "rcas", "ecas"} => Advances(rec),
           FoffInLog'
    PROVE  AdvInv'
<1> SUFFICES ASSUME NEW q \in Procs, proc'[q].pc \in {"cas", "rcas", "ecas"}
             PROVE  Advances(proc'[q])
    BY DEF AdvInv
<1>1. CASE q = t
    BY <1>1
<1>2. CASE q # t
    BY <1>2 DEF AdvInv
<1> QED
    BY <1>1, <1>2

\* A step that keeps the page table and does not shorten the log.
LEMMA FoffKeep ==
    ASSUME FoffInLog, \A g \in Pids : pageTbl[g].foff \in Nat, lss \in Seq(Block),
           pageTbl' = pageTbl, Len(lss') = Len(lss) + 1
    PROVE  FoffInLog'
BY DEF FoffInLog

\* The record a goroutine has after setting only its pc.
LEMMA PcOnly ==
    ASSUME NEW c \in Call, NEW v
    PROVE  [c EXCEPT !.pc = v].pc = v
BY DEF Call

\* The record a goroutine has after a read step.
LEMMA ReadRec ==
    ASSUME NEW c \in Call, NEW v, NEW a, NEW o, NEW b
    PROVE  /\ [c EXCEPT !.pc = v, !.seen = a, !.off = o, !.new = b].pc = v
           /\ [c EXCEPT !.pc = v, !.seen = a, !.off = o, !.new = b].seen = a
           /\ [c EXCEPT !.pc = v, !.seen = a, !.off = o, !.new = b].new = b
           /\ [c EXCEPT !.pc = v, !.seen = a, !.new = b].pc = v
           /\ [c EXCEPT !.pc = v, !.seen = a, !.new = b].seen = a
           /\ [c EXCEPT !.pc = v, !.seen = a, !.new = b].new = b
BY DEF Call

LEMMA NextAdv == IInv /\ AdvInv /\ [Next]_vars => AdvInv'
<1> SUFFICES ASSUME IInv, AdvInv, [Next]_vars PROVE AdvInv'
    OBVIOUS
<1>0. IInv'
    BY NextIInv
<1>1. lss \in Seq(Block) /\ proc \in [Procs -> Call] /\ pageTbl \in [Pids -> Page]
    BY DEF IInv, PersistTypeOK
<1>10. \A g \in Pids : pageTbl[g].foff \in Nat
    BY <1>1, PageFields
<1>2. ASSUME NEW t \in Procs, PersistRead(t) PROVE AdvInv'
    <2> DEFINE c == proc[t]
               pg == pageTbl[c.pid]
               off == Len(lss) + 1
    <2>1. c \in Call /\ pg \in Page /\ c.pid \in Pids
        BY <1>1, CallFields
    <2>2. pg.dver <= pg.fver /\ pg.fver <= pg.ver /\ pg.foff <= Len(lss)
        BY <2>1 DEF IInv, PagesOK, PageOK, AdvInv, FoffInLog
    <2>3. pg.ver \in Nat /\ pg.fver \in Nat /\ pg.foff \in Nat /\ pg.dver \in Nat
        BY <2>1, PageFields
    <2>4. CASE NeedsFlush(pg)
        <3> DEFINE nw == IF c.evict THEN Evict(pg, off) ELSE AddFlushRecord(pg, off)
                   rec == [c EXCEPT !.pc = "cas", !.seen = pg, !.off = off, !.new = nw]
        <3>1. lss' = Reserve(c.pid, pg.ver, FALSE, "persist") /\ proc' = [proc EXCEPT ![t] = rec]
              /\ pageTbl' = pageTbl
            BY <1>2, <2>4 DEF PersistRead
        <3>2. Len(lss') = Len(lss) + 1
            BY <1>1, <3>1 DEF Reserve
        <3>3. FoffInLog'
            <4>1. pageTbl' = pageTbl /\ FoffInLog
                BY <3>1 DEF AdvInv
            <4> QED
                BY <1>1, <1>10, <3>2, <4>1, FoffKeep
        <3>4. nw.ver = pg.ver /\ nw.fver = pg.ver /\ nw.foff = off /\ nw.dver \in {pg.dver, pg.ver}
            <4>1. off \in Nat
                BY <1>1
            <4>2. CASE c.evict
                BY <2>1, <4>1, <4>2, EvictRec
            <4>3. CASE ~c.evict
                BY <2>1, <4>1, <4>3, AddFlushRec
            <4> QED
                BY <4>2, <4>3
        <3>5. rec.pc = "cas" /\ rec.seen = pg /\ rec.new = nw
            BY <2>1, ReadRec
        <3>6. Advances(rec)
            BY <2>2, <2>3, <3>4, <3>5 DEF Advances
        <3> QED
            BY <1>1, <3>1, <3>3, <3>6, AdvLocal
    <2>5. CASE ~NeedsFlush(pg) /\ c.evict /\ IsEvictable(pg)
        <3> DEFINE rec == [c EXCEPT !.pc = "ecas", !.seen = pg, !.new = Evict(pg, pg.foff)]
        <3>1. proc' = [proc EXCEPT ![t] = rec] /\ lss' = lss /\ pageTbl' = pageTbl
            BY <1>2, <2>5 DEF PersistRead
        <3>2. FoffInLog'
            BY <3>1 DEF AdvInv, FoffInLog
        <3>3. Evict(pg, pg.foff).ver = pg.ver /\ Evict(pg, pg.foff).fver = pg.ver
              /\ Evict(pg, pg.foff).foff = pg.foff /\ Evict(pg, pg.foff).dver = pg.ver
            BY <2>1, <2>3, EvictRec
        <3>4. rec.pc = "ecas" /\ rec.seen = pg /\ rec.new = Evict(pg, pg.foff)
            BY <2>1, ReadRec
        <3>5. Advances(rec)
            BY <2>2, <2>3, <3>3, <3>4 DEF Advances
        <3> QED
            BY <1>1, <3>1, <3>2, <3>5, AdvLocal
    <2>6. CASE ~NeedsFlush(pg) /\ ~(c.evict /\ IsEvictable(pg))
        <3>1. proc' = [proc EXCEPT ![t] = [c EXCEPT !.pc = "idle"]] /\ lss' = lss
              /\ pageTbl' = pageTbl
            BY <1>2, <2>6 DEF PersistRead
        <3>2. [c EXCEPT !.pc = "idle"].pc = "idle"
            BY <2>1, PcOnly
        <3>3. FoffInLog'
            BY <3>1 DEF AdvInv, FoffInLog
        <3> QED
            BY <1>1, <3>1, <3>2, <3>3, AdvLocal
    <2> QED
        BY <2>4, <2>5, <2>6
<1>3. ASSUME NEW t \in Procs, RollbackRead(t) PROVE AdvInv'
    <2> DEFINE c == proc[t]
               pg == pageTbl[c.pid]
               rb == [pg EXCEPT !.ver = pg.ver + 1]
               off == Len(lss) + 1
               rec == [c EXCEPT !.pc = "rcas", !.seen = pg, !.off = off,
                                !.new = AddFlushRecord(rb, off)]
    <2>1. c \in Call /\ pg \in Page /\ c.pid \in Pids
        BY <1>1, CallFields
    <2>2. pg.dver <= pg.fver /\ pg.fver <= pg.ver /\ pg.foff <= Len(lss)
        BY <2>1 DEF IInv, PagesOK, PageOK, AdvInv, FoffInLog
    <2>3. pg.ver \in Nat /\ pg.fver \in Nat /\ pg.foff \in Nat /\ pg.dver \in Nat
        BY <2>1, PageFields
    <2>4. lss' = Reserve(c.pid, pg.ver + 1, TRUE, "rollback") /\ proc' = [proc EXCEPT ![t] = rec]
          /\ pageTbl' = pageTbl
        BY <1>3 DEF RollbackRead
    <2>5. Len(lss') = Len(lss) + 1
        BY <1>1, <2>4 DEF Reserve
    <2>6. FoffInLog'
        <3>1. pageTbl' = pageTbl /\ FoffInLog
            BY <2>4 DEF AdvInv
        <3> QED
            BY <1>1, <1>10, <2>5, <3>1, FoffKeep
    <2>7. rb \in Page /\ rb.ver = pg.ver + 1 /\ rb.dver = pg.dver
        <3>0. pg.ver + 1 \in Nat
            BY <2>3
        <3>1. rb \in Page
            BY <2>1, <3>0, PageSet
        <3>2. rb.ver = pg.ver + 1 /\ rb.dver = pg.dver
            BY <2>1 DEF Page
        <3> QED
            BY <3>1, <3>2
    <2>8. AddFlushRecord(rb, off).ver = pg.ver + 1 /\ AddFlushRecord(rb, off).fver = pg.ver + 1
          /\ AddFlushRecord(rb, off).foff = off /\ AddFlushRecord(rb, off).dver = pg.dver
        <3>1. off \in Nat
            BY <1>1
        <3> QED
            BY <2>7, <3>1, AddFlushRec
    <2>9. rec.pc = "rcas" /\ rec.seen = pg /\ rec.new = AddFlushRecord(rb, off)
        BY <2>1, ReadRec
    <2>10. Advances(rec)
        BY <2>2, <2>3, <2>8, <2>9 DEF Advances
    <2> QED
        BY <1>1, <2>4, <2>6, <2>10, AdvLocal
<1>4. ASSUME NEW t \in Procs, PersistCas(t) PROVE AdvInv'
    <2> DEFINE c == proc[t]
    <2>1. c \in Call /\ c.pid \in Pids /\ c.pc = "cas"
        BY <1>1, <1>4, CallFields DEF PersistCas
    <2>2. c.new.foff = c.off /\ c.off \in DOMAIN lss
        BY <2>1 DEF IInv, PendingsOK, PendingOK, Pending, BlockOf
    <2>3. DOMAIN lss' = DOMAIN lss /\ lss' \in Seq(Block)
        <3>1. DOMAIN lss' = DOMAIN lss
            BY <1>4 DEF PersistCas
        <3>2. lss' \in Seq(Block)
            BY <1>0 DEF IInv, PersistTypeOK
        <3> QED
            BY <3>1, <3>2
    <2>4. Len(lss') = Len(lss)
        BY <1>1, <2>3
    <2>5. [c EXCEPT !.pc = "idle"].pc = "idle" /\ [c EXCEPT !.pc = "read"].pc = "read"
        BY <2>1, PcOnly
    <2>6. CASE pageTbl[c.pid] = c.seen
        <3>1. pageTbl' = [pageTbl EXCEPT ![c.pid] = c.new]
              /\ proc' = [proc EXCEPT ![t] = [c EXCEPT !.pc = "idle"]]
            BY <1>4, <2>6 DEF PersistCas
        <3>2. FoffInLog'
            BY <1>1, <2>1, <2>2, <2>4, <3>1 DEF AdvInv, FoffInLog
        <3> QED
            BY <1>1, <2>5, <3>1, <3>2, AdvLocal
    <2>7. CASE pageTbl[c.pid] # c.seen
        <3>1. pageTbl' = pageTbl /\ proc' = [proc EXCEPT ![t] = [c EXCEPT !.pc = "read"]]
            BY <1>4, <2>7 DEF PersistCas
        <3>2. FoffInLog'
            BY <2>4, <3>1 DEF AdvInv, FoffInLog
        <3> QED
            BY <1>1, <2>5, <3>1, <3>2, AdvLocal
    <2> QED
        BY <2>6, <2>7
<1>5. ASSUME NEW t \in Procs, EvictCas(t) PROVE AdvInv'
    <2> DEFINE c == proc[t]
    <2>1. c \in Call /\ c.pid \in Pids /\ c.pc = "ecas" /\ lss' = lss
        BY <1>1, <1>5, CallFields DEF EvictCas
    <2>2. c.new = Evict(c.seen, c.seen.foff) /\ c.seen \in Page
        BY <2>1, CallFields DEF IInv, EvictsOK, EvictOK
    <2>3. c.new.foff = c.seen.foff
        BY <2>2, PageFields, EvictRec
    <2>4. [c EXCEPT !.pc = "idle"].pc = "idle" /\ [c EXCEPT !.pc = "read"].pc = "read"
        BY <2>1, PcOnly
    <2>5. CASE pageTbl[c.pid] = c.seen
        <3>1. pageTbl' = [pageTbl EXCEPT ![c.pid] = c.new]
              /\ proc' = [proc EXCEPT ![t] = [c EXCEPT !.pc = "idle"]]
            BY <1>5, <2>5 DEF EvictCas
        <3>2. FoffInLog'
            BY <1>1, <2>1, <2>3, <2>5, <3>1 DEF AdvInv, FoffInLog
        <3> QED
            BY <1>1, <2>4, <3>1, <3>2, AdvLocal
    <2>6. CASE pageTbl[c.pid] # c.seen
        <3>1. pageTbl' = pageTbl /\ proc' = [proc EXCEPT ![t] = [c EXCEPT !.pc = "read"]]
            BY <1>5, <2>6 DEF EvictCas
        <3>2. FoffInLog'
            BY <2>1, <3>1 DEF AdvInv, FoffInLog
        <3> QED
            BY <1>1, <2>4, <3>1, <3>2, AdvLocal
    <2> QED
        BY <2>5, <2>6
<1>6. ASSUME NEW t \in Procs, RollbackCas(t) PROVE AdvInv'
    <2> DEFINE c == proc[t]
    <2>1. c \in Call /\ c.pid \in Pids /\ c.pc = "rcas" /\ lss' = lss
        BY <1>1, <1>6, CallFields DEF RollbackCas
    <2>2. c.new.foff = c.off /\ c.off \in DOMAIN lss
        BY <2>1 DEF IInv, PendingsOK, PendingOK, Pending, BlockOf
    <2>3. [c EXCEPT !.pc = "idle"].pc = "idle" /\ [c EXCEPT !.pc = "read"].pc = "read"
        BY <2>1, PcOnly
    <2>4. CASE pageTbl[c.pid] = c.seen
        <3>1. pageTbl' = [pageTbl EXCEPT ![c.pid] = c.new]
              /\ proc' = [proc EXCEPT ![t] = [c EXCEPT !.pc = "idle"]]
            BY <1>6, <2>4 DEF RollbackCas
        <3>2. FoffInLog'
            BY <1>1, <2>1, <2>2, <3>1 DEF AdvInv, FoffInLog
        <3> QED
            BY <1>1, <2>3, <3>1, <3>2, AdvLocal
    <2>5. CASE pageTbl[c.pid] # c.seen
        <3>1. pageTbl' = pageTbl /\ proc' = [proc EXCEPT ![t] = [c EXCEPT !.pc = "read"]]
            BY <1>6, <2>5 DEF RollbackCas
        <3>2. FoffInLog'
            BY <2>1, <3>1 DEF AdvInv, FoffInLog
        <3> QED
            BY <1>1, <2>3, <3>1, <3>2, AdvLocal
    <2> QED
        BY <2>4, <2>5
<1>7. ASSUME NEW t \in Procs, NEW g \in Pids,
             \/ \E e \in BOOLEAN : StartPersist(t, g, e)
             \/ StartRollback(t, g)
      PROVE  AdvInv'
    <2>1. proc[t] \in Call
        BY <1>1
    <2>2. FoffInLog'
        BY <1>7 DEF StartPersist, StartRollback, AdvInv, FoffInLog
    <2>3. CASE \E e \in BOOLEAN : StartPersist(t, g, e)
        <3>1. PICK e \in BOOLEAN : StartPersist(t, g, e)
            BY <2>3
        <3> DEFINE rec == [proc[t] EXCEPT !.pc = "read", !.kind = "persist", !.pid = g,
                                          !.evict = e, !.start = pageTbl[g].ver]
        <3>2. proc' = [proc EXCEPT ![t] = rec]
            BY <3>1 DEF StartPersist
        <3>3. rec.pc = "read"
            BY <2>1 DEF Call
        <3> QED
            BY <1>1, <2>2, <3>2, <3>3, AdvLocal
    <2>4. CASE StartRollback(t, g)
        <3> DEFINE rec == [proc[t] EXCEPT !.pc = "read", !.kind = "rollback", !.pid = g,
                                          !.evict = FALSE, !.start = pageTbl[g].ver]
        <3>2. proc' = [proc EXCEPT ![t] = rec]
            BY <2>4 DEF StartRollback
        <3>3. rec.pc = "read"
            BY <2>1 DEF Call
        <3> QED
            BY <1>1, <2>2, <3>2, <3>3, AdvLocal
    <2> QED
        BY <1>7, <2>3, <2>4
<1>8. ASSUME NEW g \in Pids, Insert(g) PROVE AdvInv'
    <2>1. pageTbl' = [pageTbl EXCEPT ![g].ver = @ + 1] /\ lss' = lss /\ proc' = proc
        BY <1>8 DEF Insert
    <2>2. \A h \in Pids : pageTbl'[h].foff = pageTbl[h].foff
        BY <1>1, <2>1 DEF Page
    <2> QED
        BY <2>1, <2>2 DEF AdvInv, FoffInLog
<1>9. CASE UNCHANGED vars
    BY <1>9 DEF vars, AdvInv, FoffInLog, Advances
<1> QED
    BY <1>2, <1>3, <1>4, <1>5, <1>6, <1>7, <1>8, <1>9 DEF Next, NextPersist, ProcStep

\* A successful UpdateMapping installs a head that advances the one it read.
LEMMA CasAdvances ==
    ASSUME pageTbl \in [Pids -> Page], NEW g \in Pids, NEW c,
           pageTbl[g] = c.seen, Advances(c), pageTbl' = [pageTbl EXCEPT ![g] = c.new]
    PROVE  HeadStep
<1> SUFFICES ASSUME NEW pid \in Pids
             PROVE  /\ pageTbl[pid].ver <= pageTbl'[pid].ver
                    /\ pageTbl[pid].fver <= pageTbl'[pid].fver
                    /\ pageTbl[pid].foff <= pageTbl'[pid].foff
                    /\ pageTbl[pid].dver <= pageTbl'[pid].dver
    BY DEF HeadStep
<1>1. pageTbl[pid].ver \in Nat /\ pageTbl[pid].fver \in Nat
      /\ pageTbl[pid].foff \in Nat /\ pageTbl[pid].dver \in Nat
    BY PageFields
<1>2. CASE pid = g
    BY <1>2 DEF Advances
<1>3. CASE pid # g
    BY <1>1, <1>3
<1> QED
    BY <1>2, <1>3

\* A step that leaves the page table alone.
LEMMA HeadKeep ==
    ASSUME pageTbl \in [Pids -> Page], pageTbl' = pageTbl
    PROVE  HeadStep
BY PageFields DEF HeadStep

LEMMA NextHeadStep == IInv /\ AdvInv /\ [Next]_vars => HeadStep
<1> SUFFICES ASSUME IInv, AdvInv, [Next]_vars PROVE HeadStep
    OBVIOUS
<1>1. proc \in [Procs -> Call] /\ pageTbl \in [Pids -> Page]
    BY DEF IInv, PersistTypeOK
<1>2. ASSUME NEW t \in Procs, PersistCas(t) \/ EvictCas(t) \/ RollbackCas(t)
      PROVE  HeadStep
    <2> DEFINE c == proc[t]
    <2>1. c.pid \in Pids
        BY <1>1, CallFields
    <2>2. CASE pageTbl[c.pid] = c.seen
        <3>1. c.pc \in {"cas", "rcas", "ecas"} /\ pageTbl' = [pageTbl EXCEPT ![c.pid] = c.new]
            BY <1>2, <2>2 DEF PersistCas, EvictCas, RollbackCas
        <3>2. Advances(c)
            BY <3>1 DEF AdvInv
        <3> QED
            BY <1>1, <2>1, <2>2, <3>1, <3>2, CasAdvances
    <2>3. CASE pageTbl[c.pid] # c.seen
        <3>1. pageTbl' = pageTbl
            BY <1>2, <2>3 DEF PersistCas, EvictCas, RollbackCas
        <3> QED
            BY <1>1, <3>1, HeadKeep
    <2> QED
        BY <2>2, <2>3
<1>3. ASSUME NEW g \in Pids, Insert(g) PROVE HeadStep
    <2> SUFFICES ASSUME NEW pid \in Pids
                 PROVE  /\ pageTbl[pid].ver <= pageTbl'[pid].ver
                        /\ pageTbl[pid].fver <= pageTbl'[pid].fver
                        /\ pageTbl[pid].foff <= pageTbl'[pid].foff
                        /\ pageTbl[pid].dver <= pageTbl'[pid].dver
        BY DEF HeadStep
    <2>1. pageTbl' = [pageTbl EXCEPT ![g].ver = @ + 1]
        BY <1>3 DEF Insert
    <2>2. pageTbl[pid].ver \in Nat /\ pageTbl[pid].fver \in Nat
          /\ pageTbl[pid].foff \in Nat /\ pageTbl[pid].dver \in Nat
        BY <1>1, PageFields
    <2> QED
        BY <1>1, <2>1, <2>2 DEF Page
<1>4. ASSUME NEW t \in Procs, PersistRead(t) \/ RollbackRead(t) PROVE HeadStep
    BY <1>1, <1>4, HeadKeep DEF PersistRead, RollbackRead
<1>5. ASSUME NEW t \in Procs, NEW g \in Pids,
             \/ \E e \in BOOLEAN : StartPersist(t, g, e)
             \/ StartRollback(t, g)
      PROVE  HeadStep
    BY <1>1, <1>5, HeadKeep DEF StartPersist, StartRollback
<1>6. CASE UNCHANGED vars
    BY <1>1, <1>6, HeadKeep DEF vars
<1> QED
    BY <1>2, <1>3, <1>4, <1>5, <1>6 DEF Next, NextPersist, ProcStep

(***************************************************************************)
(* The page table's heads only move forward, for every number of pages,   *)
(* goroutines and versions: no UpdateMapping of Persist, of its evict-only *)
(* path or of Rollback's callback installs a head with a smaller content  *)
(* version, flushed version, flush offset or evicted version than the one *)
(* it replaces, so a replaced head never reappears and the CAS on heads is *)
(* free of ABA.                                                            *)
(***************************************************************************)
THEOREM HeadsAdvanceThm == Spec => HeadsAdvance
<1>1. Spec => [](IInv /\ AdvInv)
    BY SpecIInv, InitAdv, NextAdv, PTL DEF Spec
<1>2. IInv /\ AdvInv /\ [Next]_vars => [HeadStep]_vars
    BY NextHeadStep
<1> QED
    BY <1>1, <1>2, PTL DEF Spec, HeadsAdvance, HeadStep

-----------------------------------------------------------------------------
(***************************************************************************)
(* The log is append-only for finalized blocks.  Reads append, and the    *)
(* only step that writes an existing block is Persist's UpdateMapping,     *)
(* which writes its own reservation: PendingOK says that block is not     *)
(* finalized yet.  Rollback's callback finalizes before its CAS and never  *)
(* writes the block again.                                                 *)
(***************************************************************************)
LogStep ==
    /\ Len(lss) <= Len(lss')
    /\ \A i \in DOMAIN lss : lss[i].fin => lss'[i] = lss[i]

\* Appending one block.
LEMMA LogAppendStep ==
    ASSUME lss \in Seq(Block), NEW b \in Block, lss' = Append(lss, b)
    PROVE  LogStep
BY LssAppend DEF LogStep

\* A step that leaves the log alone.
LEMMA LogKeep ==
    ASSUME lss \in Seq(Block), lss' = lss
    PROVE  LogStep
BY DEF LogStep

LEMMA NextLogStep == IInv /\ [Next]_vars => LogStep
<1> SUFFICES ASSUME IInv, [Next]_vars PROVE LogStep
    OBVIOUS
<1>0. lss' \in Seq(Block)
    BY NextIInv DEF IInv, PersistTypeOK
<1>1. lss \in Seq(Block) /\ proc \in [Procs -> Call] /\ pageTbl \in [Pids -> Page]
    BY DEF IInv, PersistTypeOK
<1>2. ASSUME NEW t \in Procs, PersistRead(t) PROVE LogStep
    <2> DEFINE c == proc[t]
               pg == pageTbl[c.pid]
    <2>1. c \in Call /\ pg \in Page
        BY <1>1, CallFields
    <2>2. CASE NeedsFlush(pg)
        <3>1. lss' = Append(lss, [pid |-> c.pid, ver |-> pg.ver, typ |-> "data",
                                  fin |-> FALSE, by |-> "persist"])
            BY <1>2, <2>2 DEF PersistRead, Reserve
        <3>2. [pid |-> c.pid, ver |-> pg.ver, typ |-> "data",
               fin |-> FALSE, by |-> "persist"] \in Block
            BY <2>1, PageFields DEF Block, Call
        <3> QED
            BY <1>1, <3>1, <3>2, LogAppendStep
    <2>3. CASE ~NeedsFlush(pg)
        <3>1. lss' = lss
            BY <1>2, <2>3 DEF PersistRead
        <3> QED
            BY <1>1, <3>1, LogKeep
    <2> QED
        BY <2>2, <2>3
<1>3. ASSUME NEW t \in Procs, RollbackRead(t) PROVE LogStep
    <2> DEFINE c == proc[t]
               pg == pageTbl[c.pid]
    <2>1. c \in Call /\ pg \in Page
        BY <1>1, CallFields
    <2>2. lss' = Append(lss, [pid |-> c.pid, ver |-> pg.ver + 1, typ |-> "data",
                              fin |-> TRUE, by |-> "rollback"])
        BY <1>3 DEF RollbackRead, Reserve
    <2>3. [pid |-> c.pid, ver |-> pg.ver + 1, typ |-> "data",
           fin |-> TRUE, by |-> "rollback"] \in Block
        BY <2>1, PageFields DEF Block, Call
    <2> QED
        BY <1>1, <2>2, <2>3, LogAppendStep
<1>4. ASSUME NEW t \in Procs, PersistCas(t) PROVE LogStep
    <2> DEFINE c == proc[t]
    <2>1. c.pc = "cas"
        BY <1>4 DEF PersistCas
    <2>2. c.off \in DOMAIN lss /\ ~lss[c.off].fin
        BY <2>1 DEF IInv, PendingsOK, PendingOK, Pending, BlockOf
    <2>3. \E v : lss' = [lss EXCEPT ![c.off] = v]
        BY <1>4 DEF PersistCas
    <2>4. DOMAIN lss' = DOMAIN lss /\ \A i \in DOMAIN lss : i # c.off => lss'[i] = lss[i]
        BY <1>1, <2>3
    <2>5. Len(lss') = Len(lss)
        BY <1>0, <1>1, <2>4
    <2> QED
        BY <2>2, <2>4, <2>5 DEF LogStep
<1>5. ASSUME NEW t \in Procs, EvictCas(t) \/ RollbackCas(t) PROVE LogStep
    <2>1. lss' = lss
        BY <1>5 DEF EvictCas, RollbackCas
    <2> QED
        BY <1>1, <2>1, LogKeep
<1>6. ASSUME NEW t \in Procs, NEW g \in Pids,
             \/ \E e \in BOOLEAN : StartPersist(t, g, e)
             \/ StartRollback(t, g)
      PROVE  LogStep
    <2>1. lss' = lss
        BY <1>6 DEF StartPersist, StartRollback
    <2> QED
        BY <1>1, <2>1, LogKeep
<1>7. ASSUME NEW g \in Pids, Insert(g) PROVE LogStep
    <2>1. lss' = lss
        BY <1>7 DEF Insert
    <2> QED
        BY <1>1, <2>1, LogKeep
<1>8. CASE UNCHANGED vars
    BY <1>1, <1>8 DEF vars, LogStep
<1> QED
    BY <1>2, <1>3, <1>4, <1>5, <1>6, <1>7, <1>8 DEF Next, NextPersist, ProcStep

(***************************************************************************)
(* The log only grows and a finalized block is never written again, for   *)
(* every number of pages, goroutines and versions: no failed              *)
(* UpdateMapping, retry or Rollback callback rewrites a block the LSS      *)
(* flusher may already have written out.                                   *)
(***************************************************************************)
THEOREM LogAppendOnlyThm == Spec => LogAppendOnly
<1>1. IInv /\ [Next]_vars => [LogStep]_vars
    BY NextLogStep
<1> QED
    BY <1>1, SpecIInv, PTL DEF Spec, LogAppendOnly, LogStep

=============================================================================
