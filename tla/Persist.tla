------------------------------- MODULE Persist -------------------------------
(***************************************************************************)
(* Flushing pages to the log-structured store (src/unnamed/part_000:37-100 *)
(* and the page callback of Plasma.Rollback, src/plasma/mvcc.go:371-394).  *)
(*                                                                         *)
(* A page is abstracted to the head of its delta chain in the page table:  *)
(*   ver   the version of its content (every Insert or Rollback delta      *)
(*         makes a new one),                                               *)
(*   fver  the content version its newest flush record covers (0: none),   *)
(*   foff  the LSS offset that flush record names (0: none),               *)
(*   dver  the content version up to which an Evict dropped the in-memory  *)
(*         chain (0: nothing dropped).                                     *)
(* Every successful UpdateMapping installs a head that differs from all    *)
(* earlier ones (ver, foff and dver only grow, and each flush has a fresh  *)
(* offset), so comparing records is the pointer comparison of the CAS.     *)
(*                                                                         *)
(* The LSS is the sequence of reserved blocks, offset = index; a block     *)
(* records its page, the version it holds, its type tag and whether its    *)
(* reservation was finalized.  Block contents are left out.                *)
(*                                                                         *)
(* Goroutines of the persistor pools run Persist for the pages PageVisitor *)
(* hands them (PersistAll, EvictAll, and the page walk of Rollback); the   *)
(* writers' Inserts change pages concurrently.                             *)
(***************************************************************************)
EXTENDS Naturals, Sequences

CONSTANTS
    Pids,     \* page ids (model values)
    Procs,    \* persistor goroutines (model values)
    MaxVer,   \* bound on the content versions the writers' Inserts create
    MaxJobs   \* bound on the Persist / Rollback calls, over all goroutines

ASSUME MaxVerAssumption == MaxVer \in Nat \ {0}
ASSUME MaxJobsAssumption == MaxJobs \in Nat
ASSUME PidsAssumption == Pids # {}

VARIABLES
    pageTbl,    \* pageTbl[pid]: the head installed in the page table
    lss,        \* the blocks reserved in the log
    proc,       \* proc[p]: the call goroutine p is running
    published,  \* ghost: offsets named by a flush record that a CAS installed
    jobs        \* ghost: calls started so far

vars == <<pageTbl, lss, proc, published, jobs>>

Page == [ver : Nat, fver : Nat, foff : Nat, dver : Nat]
Block == [pid : Pids, ver : Nat, typ : {"data", "discard"}, fin : BOOLEAN,
          by : {"persist", "rollback"}]
Pc == {"idle", "read", "cas", "ecas", "rcas"}
Call == [pc : Pc, kind : {"persist", "rollback"}, pid : Pids, evict : BOOLEAN,
         seen : Page, new : Page, off : Nat, start : Nat]

PersistTypeOK ==
    /\ pageTbl \in [Pids -> Page]
    /\ lss \in Seq(Block)
    /\ proc \in [Procs -> Call]
    /\ published \subseteq Nat
    /\ jobs \in 0 .. MaxJobs

\* The page an idle goroutine last worked on, before it worked on any.
AnyPid == CHOOSE pid \in Pids : TRUE

NoPage == [ver |-> 1, fver |-> 0, foff |-> 0, dver |-> 0]

\* A page starts as an unflushed in-memory chain.
Init ==
    /\ pageTbl = [pid \in Pids |-> NoPage]
    /\ lss = << >>
    /\ proc = [p \in Procs |-> [pc |-> "idle", kind |-> "persist",
                                pid |-> AnyPid, evict |-> FALSE,
                                seen |-> NoPage, new |-> NoPage, off |-> 0, start |-> 0]]
    /\ published = {}
    /\ jobs = 0

(***************************************************************************)
(* The Page operations Persist calls (their code is not under src/).       *)
(***************************************************************************)
NeedsFlush(pg) == pg.fver < pg.ver

IsEvictable(pg) == pg.dver < pg.ver /\ pg.foff # 0

\* pg.AddFlushRecord(offset, ...): an additive flush delta.
AddFlushRecord(pg, off) == [pg EXCEPT !.fver = pg.ver, !.foff = off]

\* pg.Evict(offset, ...): the chain above the base page becomes one flush delta.
Evict(pg, off) == [pg EXCEPT !.fver = pg.ver, !.foff = off, !.dver = pg.ver]

\* ReserveSpace followed by writeLSSBlock: a new block at the end of the log.
\* by is a ghost: the kind of call that wrote the block.
Reserve(pid, v, fin, by) ==
    Append(lss, [pid |-> pid, ver |-> v, typ |-> "data", fin |-> fin, by |-> by])

(***************************************************************************)
(* A PageVisitor worker of PersistAll (evict = FALSE), of EvictAll         *)
(* (evict = TRUE) or of Rollback's walk calls back for page pid.           *)
(***************************************************************************)
StartPersist(p, pid, evict) ==
    /\ proc[p].pc = "idle"
    /\ jobs < MaxJobs
    /\ proc' = [proc EXCEPT ![p] = [@ EXCEPT !.pc = "read", !.kind = "persist",
                                     !.pid = pid, !.evict = evict,
                                     !.start = pageTbl[pid].ver]]
    /\ jobs' = jobs + 1
    /\ UNCHANGED <<pageTbl, lss, published>>

StartRollback(p, pid) ==
    /\ proc[p].pc = "idle"
    /\ jobs < MaxJobs
    /\ proc' = [proc EXCEPT ![p] = [@ EXCEPT !.pc = "read", !.kind = "rollback",
                                     !.pid = pid, !.evict = FALSE,
                                     !.start = pageTbl[pid].ver]]
    /\ jobs' = jobs + 1
    /\ UNCHANGED <<pageTbl, lss, published>>

\* Mutant: the evict-only test comes first, so an unflushed chain is evicted.
PersistReadEvictFirst(p) ==
    LET c  == proc[p]
        pg == pageTbl[c.pid]
        off == Len(lss) + 1
    IN
    /\ c.pc = "read"
    /\ c.kind = "persist"
    /\ \/ /\ c.evict /\ IsEvictable(pg)
          /\ proc' = [proc EXCEPT ![p] = [c EXCEPT !.pc = "ecas", !.seen = pg,
                                                   !.new = Evict(pg, pg.foff)]]
          /\ UNCHANGED lss
       \/ /\ ~(c.evict /\ IsEvictable(pg))
          /\ NeedsFlush(pg)
          /\ lss' = Reserve(c.pid, pg.ver, FALSE, "persist")
          /\ proc' = [proc EXCEPT ![p] = [c EXCEPT !.pc = "cas", !.seen = pg, !.off = off,
                        !.new = IF c.evict THEN Evict(pg, off) ELSE AddFlushRecord(pg, off)]]
       \/ /\ ~NeedsFlush(pg)
          /\ ~(c.evict /\ IsEvictable(pg))
          /\ proc' = [proc EXCEPT ![p].pc = "idle"]
          /\ UNCHANGED lss
    /\ UNCHANGED <<pageTbl, published, jobs>>

(***************************************************************************)
(* Persist, from the label retry: ReadPage, then either marshal, reserve,  *)
(* write and prepare the flush (or evict) delta, or take the evict-only    *)
(* path, or return the page unchanged.                                     *)
(***************************************************************************)
PersistRead(p) ==
    LET c  == proc[p]
        pg == pageTbl[c.pid]
        off == Len(lss) + 1
    IN
    /\ c.pc = "read"
    /\ c.kind = "persist"
    /\ \/ /\ NeedsFlush(pg)
          /\ lss' = Reserve(c.pid, pg.ver, FALSE, "persist")
          /\ proc' = [proc EXCEPT ![p] = [c EXCEPT !.pc = "cas", !.seen = pg, !.off = off,
                        !.new = IF c.evict THEN Evict(pg, off) ELSE AddFlushRecord(pg, off)]]
       \/ /\ ~NeedsFlush(pg)
          /\ c.evict /\ IsEvictable(pg)
          /\ proc' = [proc EXCEPT ![p] = [c EXCEPT !.pc = "ecas", !.seen = pg,
                                                   !.new = Evict(pg, pg.foff)]]
          /\ UNCHANGED lss
       \/ /\ ~NeedsFlush(pg)
          /\ ~(c.evict /\ IsEvictable(pg))
          /\ proc' = [proc EXCEPT ![p].pc = "idle"]
          /\ UNCHANGED lss
    /\ UNCHANGED <<pageTbl, published, jobs>>

\* Mutant: the failed CAS discards the block but never finalizes it.
PersistCasNoFinalize(p) ==
    LET c == proc[p] IN
    /\ c.pc = "cas"
    /\ IF pageTbl[c.pid] = c.seen
          THEN /\ pageTbl' = [pageTbl EXCEPT ![c.pid] = c.new]
               /\ lss' = [lss EXCEPT ![c.off].fin = TRUE]
               /\ published' = published \cup {c.off}
               /\ proc' = [proc EXCEPT ![p].pc = "idle"]
          ELSE /\ lss' = [lss EXCEPT ![c.off].typ = "discard"]
               /\ proc' = [proc EXCEPT ![p].pc = "read"]
               /\ UNCHANGED <<pageTbl, published>>
    /\ UNCHANGED jobs

\* Mutant: a failed CAS returns instead of retrying.
PersistCasNoRetry(p) ==
    LET c == proc[p] IN
    /\ c.pc = "cas"
    /\ IF pageTbl[c.pid] = c.seen
          THEN /\ pageTbl' = [pageTbl EXCEPT ![c.pid] = c.new]
               /\ lss' = [lss EXCEPT ![c.off].fin = TRUE]
               /\ published' = published \cup {c.off}
          ELSE /\ lss' = [lss EXCEPT ![c.off].typ = "discard", ![c.off].fin = TRUE]
               /\ UNCHANGED <<pageTbl, published>>
    /\ proc' = [proc EXCEPT ![p].pc = "idle"]
    /\ UNCHANGED jobs

\* Mutant: a failed CAS finalizes the block without overwriting its type.
PersistCasNoDiscard(p) ==
    LET c == proc[p] IN
    /\ c.pc = "cas"
    /\ IF pageTbl[c.pid] = c.seen
          THEN /\ pageTbl' = [pageTbl EXCEPT ![c.pid] = c.new]
               /\ published' = published \cup {c.off}
               /\ proc' = [proc EXCEPT ![p].pc = "idle"]
          ELSE /\ proc' = [proc EXCEPT ![p].pc = "read"]
               /\ UNCHANGED <<pageTbl, published>>
    /\ lss' = [lss EXCEPT ![c.off].fin = TRUE]
    /\ UNCHANGED jobs

\* Mutant: a failed CAS retries the stale page without reading it again.
PersistCasStale(p) ==
    LET c == proc[p] IN
    /\ c.pc = "cas"
    /\ IF pageTbl[c.pid] = c.seen
          THEN /\ pageTbl' = [pageTbl EXCEPT ![c.pid] = c.new]
               /\ lss' = [lss EXCEPT ![c.off].fin = TRUE]
               /\ published' = published \cup {c.off}
               /\ proc' = [proc EXCEPT ![p].pc = "idle"]
          ELSE /\ lss' = [lss EXCEPT ![c.off].typ = "discard", ![c.off].fin = TRUE]
               /\ UNCHANGED <<pageTbl, published, proc>>
    /\ UNCHANGED jobs

\* Mutant: UpdateMapping stores the new head without comparing it with the one read.
PersistCasBlind(p) ==
    LET c == proc[p] IN
    /\ c.pc = "cas"
    /\ pageTbl' = [pageTbl EXCEPT ![c.pid] = c.new]
    /\ lss' = [lss EXCEPT ![c.off].fin = TRUE]
    /\ published' = published \cup {c.off}
    /\ proc' = [proc EXCEPT ![p].pc = "idle"]
    /\ UNCHANGED jobs

(***************************************************************************)
(* UpdateMapping after a flush: on success FinalizeWrite (the FlushDataSz  *)
(* accounting is left out); on failure discardLSSBlock, FinalizeWrite and  *)
(* goto retry.                                                             *)
(***************************************************************************)
PersistCas(p) ==
    LET c == proc[p] IN
    /\ c.pc = "cas"
    /\ IF pageTbl[c.pid] = c.seen
          THEN /\ pageTbl' = [pageTbl EXCEPT ![c.pid] = c.new]
               /\ lss' = [lss EXCEPT ![c.off].fin = TRUE]
               /\ published' = published \cup {c.off}
               /\ proc' = [proc EXCEPT ![p].pc = "idle"]
          ELSE /\ lss' = [lss EXCEPT ![c.off].typ = "discard", ![c.off].fin = TRUE]
               /\ proc' = [proc EXCEPT ![p].pc = "read"]
               /\ UNCHANGED <<pageTbl, published>>
    /\ UNCHANGED jobs

\* UpdateMapping on the evict-only path; goto retry on failure.
EvictCas(p) ==
    LET c == proc[p] IN
    /\ c.pc = "ecas"
    /\ IF pageTbl[c.pid] = c.seen
          THEN /\ pageTbl' = [pageTbl EXCEPT ![c.pid] = c.new]
               /\ proc' = [proc EXCEPT ![p].pc = "idle"]
          ELSE /\ proc' = [proc EXCEPT ![p].pc = "read"]
               /\ UNCHANGED pageTbl
    /\ UNCHANGED <<lss, published, jobs>>

(***************************************************************************)
(* Rollback's callback, from its label retry: ReadPage (with the LSS       *)
(* reader), pg.Rollback adds a rollback delta (a new content version),     *)
(* then marshal, reserve, write, AddFlushRecord and FinalizeWrite, all     *)
(* before UpdateMapping.                                                   *)
(***************************************************************************)
RollbackRead(p) ==
    LET c   == proc[p]
        pg  == pageTbl[c.pid]
        rb  == [pg EXCEPT !.ver = pg.ver + 1]
        off == Len(lss) + 1
    IN
    /\ c.pc = "read"
    /\ c.kind = "rollback"
    /\ lss' = Reserve(c.pid, rb.ver, TRUE, "rollback")
    /\ proc' = [proc EXCEPT ![p] = [c EXCEPT !.pc = "rcas", !.seen = pg, !.off = off,
                                             !.new = AddFlushRecord(rb, off)]]
    /\ UNCHANGED <<pageTbl, published, jobs>>

\* Mutant: the callback's failed UpdateMapping marks its block lssDiscard, as Persist does.
RollbackCasDiscard(p) ==
    LET c == proc[p] IN
    /\ c.pc = "rcas"
    /\ IF pageTbl[c.pid] = c.seen
          THEN /\ pageTbl' = [pageTbl EXCEPT ![c.pid] = c.new]
               /\ published' = published \cup {c.off}
               /\ proc' = [proc EXCEPT ![p].pc = "idle"]
               /\ UNCHANGED lss
          ELSE /\ lss' = [lss EXCEPT ![c.off].typ = "discard"]
               /\ proc' = [proc EXCEPT ![p].pc = "read"]
               /\ UNCHANGED <<pageTbl, published>>
    /\ UNCHANGED jobs

\* UpdateMapping in Rollback's callback: on failure goto retry, block left as is.
RollbackCas(p) ==
    LET c == proc[p] IN
    /\ c.pc = "rcas"
    /\ IF pageTbl[c.pid] = c.seen
          THEN /\ pageTbl' = [pageTbl EXCEPT ![c.pid] = c.new]
               /\ published' = published \cup {c.off}
               /\ proc' = [proc EXCEPT ![p].pc = "idle"]
          ELSE /\ proc' = [proc EXCEPT ![p].pc = "read"]
               /\ UNCHANGED <<pageTbl, published>>
    /\ UNCHANGED <<lss, jobs>>

(***************************************************************************)
(* A writer's Insert into page pid: a record delta CASed onto the head     *)
(* (its own retry loop is one step here).                                  *)
(***************************************************************************)
Insert(pid) ==
    /\ pageTbl[pid].ver < MaxVer
    /\ pageTbl' = [pageTbl EXCEPT ![pid].ver = @ + 1]
    /\ UNCHANGED <<lss, proc, published, jobs>>

\* The goroutine steps of one Persist or Rollback callback.
ProcStep(p) ==
    \/ PersistRead(p) \/ PersistCas(p) \/ EvictCas(p)
    \/ RollbackRead(p) \/ RollbackCas(p)

\* PersistAll and EvictAll only.
NextPersist ==
    \/ \E p \in Procs :
          \/ \E pid \in Pids, e \in BOOLEAN : StartPersist(p, pid, e)
          \/ ProcStep(p)
    \/ \E pid \in Pids : Insert(pid)

Next ==
    \/ NextPersist
    \/ \E p \in Procs, pid \in Pids : StartRollback(p, pid)

(***************************************************************************)
(* A goroutine inside Persist or the callback runs until it returns: the   *)
(* loop takes no lock and waits on nothing modelled, so its steps are      *)
(* weakly fair.  Starting calls and Inserts are up to the callers.         *)
(***************************************************************************)
Spec == Init /\ [][Next]_vars /\ \A p \in Procs : WF_vars(ProcStep(p))

-----------------------------------------------------------------------------
(***************************************************************************)
(* Properties.                                                             *)
(***************************************************************************)

(***************************************************************************)
(* An evicted chain is only in the log: the flush record the page table    *)
(* holds names a block of this page, not discarded, holding every version  *)
(* Evict dropped from memory.  Concurrent Inserts, failed CASes and the    *)
(* evict-only path must never leave a page whose content is lost.          *)
(***************************************************************************)
NoDataLoss ==
    \A pid \in Pids :
        LET pg == pageTbl[pid] IN
        pg.dver > 0 =>
            /\ pg.foff \in DOMAIN lss
            /\ lss[pg.foff].pid = pid
            /\ lss[pg.foff].typ = "data"
            /\ lss[pg.foff].ver >= pg.dver

(***************************************************************************)
(* The LSS committer flushes once all preceding reservations are           *)
(* finalized: a reservation is left open only by a goroutine that is about *)
(* to CAS, whatever happened to earlier attempts.                          *)
(***************************************************************************)
ReservationsFinalized ==
    \A i \in DOMAIN lss :
        ~lss[i].fin => \E p \in Procs : proc[p].pc = "cas" /\ proc[p].off = i

(***************************************************************************)
(* Recovery replays every page block that is not discarded: a finalized    *)
(* page block is one whose flush record some CAS installed, or one whose  *)
(* CAS is still to come.  A block written for a head that lost the CAS     *)
(* must be marked lssDiscard.                                              *)
(***************************************************************************)
Accounted(i) ==
    \/ i \in published
    \/ \E p \in Procs : proc[p].pc \in {"cas", "rcas"} /\ proc[p].off = i

NoOrphanBlock ==
    \A i \in DOMAIN lss : lss[i].fin /\ lss[i].typ = "data" => Accounted(i)

(***************************************************************************)
(* The same for the blocks Persist writes, whatever Rollback's callback    *)
(* does alongside: Persist's failed UpdateMapping marks its block          *)
(* lssDiscard before it finalizes and retries.                             *)
(***************************************************************************)
PersistNoOrphanBlock ==
    \A i \in DOMAIN lss :
        lss[i].fin /\ lss[i].typ = "data" /\ lss[i].by = "persist" => Accounted(i)

(***************************************************************************)
(* When Persist(pid, false) returns (PersistAll, and so the recovery point *)
(* CreateRecoveryPoint makes), the page's flush record covers at least the *)
(* content the page had when the call began.                               *)
(***************************************************************************)
FlushCoversStart ==
    \A p \in Procs :
        proc[p].pc = "idle" /\ proc[p].kind = "persist" /\ ~proc[p].evict =>
            pageTbl[proc[p].pid].fver >= proc[p].start

(***************************************************************************)
(* The page table's heads only move forward: no UpdateMapping, whether of  *)
(* a flush, an evict-only path or Rollback's callback, installs a head     *)
(* with an older content version, an older flush, an earlier flush offset *)
(* or less evicted than the one it replaces, however the goroutines'      *)
(* reads, reservations and retries interleave with the Inserts.  So a     *)
(* head that changed never comes back, and the CAS comparing heads cannot *)
(* be fooled by an old head reappearing (ABA).                            *)
(***************************************************************************)
HeadsAdvance ==
    [][\A pid \in Pids :
         /\ pageTbl[pid].ver <= pageTbl'[pid].ver
         /\ pageTbl[pid].fver <= pageTbl'[pid].fver
         /\ pageTbl[pid].foff <= pageTbl'[pid].foff
         /\ pageTbl[pid].dver <= pageTbl'[pid].dver]_vars

(***************************************************************************)
(* The log only grows, and a finalized block is never written again: once *)
(* FinalizeWrite has handed a block to the LSS flusher, no failed          *)
(* UpdateMapping of Persist or of Rollback's callback, and no retry,       *)
(* rewrites its type or its contents.                                      *)
(***************************************************************************)
LogAppendOnly ==
    [][/\ Len(lss) <= Len(lss')
       /\ \A i \in DOMAIN lss : lss[i].fin => lss'[i] = lss[i]]_vars

(***************************************************************************)
(* Every Persist call and every callback of Rollback returns: the retry    *)
(* loop cannot spin forever once the writers stop.                         *)
(***************************************************************************)
CallsReturn ==
    \A p \in Procs : proc[p].pc # "idle" ~> proc[p].pc = "idle"

=============================================================================
