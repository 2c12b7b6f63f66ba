------------------------------ MODULE Detector ------------------------------
(***************************************************************************)
(* The offline race detector, tools/detect.cc: offline_detection,          *)
(* core_detection and delete_map_entries over the three maps keyed by      *)
(* memory address (global_record_set_map, rw_map, lockset_map) and the     *)
(* heap_map of allocation sizes.                                           *)
(*                                                                         *)
(* Addresses and instruction addresses are naturals (the code orders them);*)
(* 0 is the null address.  A memory record keeps the fields the detector   *)
(* reads; its lock array becomes the std::set the code builds from it.     *)
(***************************************************************************)
EXTENDS Naturals, Functions

CONSTANTS Thread, Lock,
          Address,             \* memory addresses of the traced program
          Pip,                 \* instruction addresses
          Size,                \* sizes logged for allocations and frees
          RecordNo,            \* record numbers a log may carry
          enable_memory_reuse  \* the -m option

ASSUME NaturalsAssumption ==
  /\ Address \subseteq Nat
  /\ Pip \subseteq Nat
  /\ Size \subseteq Nat
  /\ RecordNo \subseteq Nat \ {0}
ASSUME OptionAssumption == enable_memory_reuse \in BOOLEAN

VARIABLES global_record_set_map, rw_map, lockset_map, heap_map,
          log,       \* the place reached in the log: last record number, its
                     \* thread and the instructions seen under that number
          accesses   \* history: every access to an address since it was freed

maps == <<global_record_set_map, rw_map, lockset_map>>
vars == <<global_record_set_map, rw_map, lockset_map, heap_map, log, accesses>>

Record == [no : RecordNo, tid : Thread, pip : Pip, addr : Address,
           write : {0, 1}, locks : SUBSET Lock]

Abstract == INSTANCE RaceReport
              WITH warned <- {a \in DOMAIN rw_map : rw_map[a] = 4}

-----------------------------------------------------------------------------
(* std::set<Record>, std::map *)

\* Record::operator<
Less(r, s) == r.no < s.no \/ (r.no = s.no /\ r.pip < s.pip)

\* std::set::insert: an element equal under operator< stays in place.
Insert(S, r) ==
  IF \E s \in S : ~Less(r, s) /\ ~Less(s, r) THEN S ELSE S \cup {r}

Put(map, a, v) == [x \in DOMAIN map \cup {a} |-> IF x = a THEN v ELSE map[x]]

-----------------------------------------------------------------------------
(* core_detection: r is cur_record, rs *record_set, st *status, ls *lockset *)

OfThread(rs, tid) == {s \in rs : s.tid = tid}

\* set_includes_thread_id: the first record of the thread in the set's order.
set_includes_thread_id(rs, tid) ==
  CHOOSE s \in OfThread(rs, tid) : \A u \in OfThread(rs, tid) : ~Less(u, s)

NewThread(r, rs) == OfThread(rs, r.tid) = {}

\* What is left of the set once the thread's record, if any, is erased.
EraseThread(rs, tid) ==
  IF OfThread(rs, tid) = {} THEN rs ELSE rs \ {set_includes_thread_id(rs, tid)}

\* Mutants: the old record stays; a read replaces a write.
NextRecordSetKeepsOld(r, rs, st) == IF st = 4 THEN rs ELSE Insert(rs, r)
NextRecordSetReadKills(r, rs, st) ==
  IF st = 4 THEN rs ELSE Insert(EraseThread(rs, r.tid), r)

\* The record joins the set in place of its thread's earlier one, but in the two
\* written states a read of a known thread does not.
NextRecordSet(r, rs, st) ==
  IF st = 4 \/ (st \in {1, 3} /\ r.write = 0 /\ ~NewThread(r, rs))
    THEN rs ELSE Insert(EraseThread(rs, r.tid), r)

\* Mutant: a read of a second thread leaves the exclusive write state alone.
NextStatusReadStaysExclusive(r, rs, st) ==
  CASE st = 0 /\ NewThread(r, rs)  -> IF r.write = 1 THEN 3 ELSE 2
    [] st = 0 /\ ~NewThread(r, rs) -> r.write
    [] st = 1 -> IF NewThread(r, rs) /\ r.write = 1 THEN 3 ELSE 1
    [] st = 2 -> IF r.write = 1 THEN 3 ELSE 2
    [] st \in {3, 4} -> st

\* *status after the switch, before the lockset is looked at.
NextStatus(r, rs, st) ==
  CASE st = 0 /\ NewThread(r, rs)  -> IF r.write = 1 THEN 3 ELSE 2
    [] st = 0 /\ ~NewThread(r, rs) -> r.write
    [] st = 1 -> IF NewThread(r, rs) THEN 3 ELSE 1
    [] st = 2 -> IF r.write = 1 THEN 3 ELSE 2
    [] st \in {3, 4} -> st

\* Mutant: a new thread may report in state 3 as well.
MayReportAlways(r, rs, st) == TRUE

\* may_report: on entering state 3, and in it for a known thread only.
MayReport(r, rs, st) ==
  \/ st < 3 /\ NextStatus(r, rs, st) = 3
  \/ st = 3 /\ ~NewThread(r, rs)

\* Mutant: the lockset starts over in the exclusive read state.
NextLocksetRestarts(r, st, ls) == IF st = 0 THEN r.locks ELSE ls \cap r.locks

NextLockset(r, st, ls) == ls \cap r.locks

WillReport(r, rs, st, ls) ==
  /\ MayReport(r, rs, st)
  /\ NextStatus(r, rs, st) = 3
  /\ NextLockset(r, st, ls) = {}

core_detection(r, rs, st, ls) ==
  [records |-> NextRecordSet(r, rs, st),
   status  |-> IF WillReport(r, rs, st, ls) THEN 4 ELSE NextStatus(r, rs, st),
   lockset |-> NextLockset(r, st, ls)]

-----------------------------------------------------------------------------
(* offline_detection *)

Init ==
  /\ global_record_set_map = <<>>
  /\ rw_map = <<>>
  /\ lockset_map = <<>>
  /\ heap_map = [a \in Address |-> 0]
  /\ \E t \in Thread : log = [no |-> 0, tid |-> t, pips |-> Pip]
  /\ accesses = [a \in Address |-> {}]

\* The merged log runs through growing record numbers; records that share a
\* number come from one sample, so from one thread, at distinct instructions.
InLogOrder(r) ==
  \/ r.no > log.no
  \/ r.no = log.no /\ r.tid = log.tid /\ r.pip \notin log.pips

Advance(r) ==
  log' = [no |-> r.no, tid |-> r.tid,
          pips |-> IF r.no = log.no THEN log.pips \cup {r.pip} ELSE {r.pip}]

FirstAccess(r) ==
  /\ global_record_set_map' = Put(global_record_set_map, r.addr, {r})
  /\ lockset_map' = Put(lockset_map, r.addr, r.locks)
  /\ rw_map' = Put(rw_map, r.addr, r.write)

LaterAccess(r) ==
  LET d == core_detection(r, global_record_set_map[r.addr], rw_map[r.addr],
                          lockset_map[r.addr])
  IN  /\ global_record_set_map' = [global_record_set_map EXCEPT ![r.addr] = d.records]
      /\ rw_map' = [rw_map EXCEPT ![r.addr] = d.status]
      /\ lockset_map' = [lockset_map EXCEPT ![r.addr] = d.lockset]

\* A MEMORY_OP record whose memory address is known.
DetectAccess(r) ==
  /\ IF r.addr \in DOMAIN rw_map THEN LaterAccess(r) ELSE FirstAccess(r)
  /\ accesses' = [accesses EXCEPT ![r.addr] = @ \cup
                    {[tid |-> r.tid, write |-> r.write, locks |-> r.locks]}]
  /\ UNCHANGED heap_map

\* Mutant: the address 0 of a record without one is tracked like any other.
DetectOpNull(r) == Advance(r) /\ DetectAccess(r)

DetectOp(r) ==
  /\ Advance(r)
  /\ IF r.addr = 0 THEN UNCHANGED <<maps, heap_map, accesses>>
                   ELSE DetectAccess(r)

\* A MEMORY_ALLOC record takes a record number of its own.
AdvancePast(no) == log' = [log EXCEPT !.no = no, !.pips = Pip]

\* Mutant: map::insert, which leaves a known address's size alone.
DetectAllocInserts(no, start, size) ==
  /\ AdvancePast(no)
  /\ heap_map' = IF enable_memory_reuse /\ heap_map[start] = 0
                   THEN [heap_map EXCEPT ![start] = size] ELSE heap_map
  /\ UNCHANGED <<maps, accesses>>

DetectAlloc(no, start, size) ==
  /\ AdvancePast(no)
  /\ heap_map' = IF enable_memory_reuse
                   THEN [heap_map EXCEPT ![start] = size] ELSE heap_map
  /\ UNCHANGED <<maps, accesses>>

\* The addresses delete_map_entries erases: those not below the start and
\* below the end of the block (both ends by lower_bound).  A free logged with
\* size 0 takes the size of the last allocation logged at the address.
FreedRange(start, size) ==
  LET length == IF size = 0 THEN heap_map[start] ELSE size
  IN  {a \in Address : start <= a /\ a < start + length}

\* Mutant: rw_map keeps the entries of a freed block.
RwMapKeepsEntries(map, gone) == map
ErasedRw(map, gone) == Restrict(map, DOMAIN map \ gone)
Erased(map, gone) == Restrict(map, DOMAIN map \ gone)

delete_map_entries(gone) ==
  /\ lockset_map' = Erased(lockset_map, gone)
  /\ global_record_set_map' = Erased(global_record_set_map, gone)
  /\ rw_map' = ErasedRw(rw_map, gone)
  /\ accesses' = [a \in Address |-> IF a \in gone THEN {} ELSE accesses[a]]

\* Mutant: free(NULL) is treated as the free of a block at address 0.
DetectFreeNull(no, start, size) ==
  /\ AdvancePast(no)
  /\ IF enable_memory_reuse
       THEN delete_map_entries(FreedRange(start, size))
       ELSE UNCHANGED <<maps, accesses>>
  /\ UNCHANGED heap_map

DetectFree(no, start, size) ==
  /\ AdvancePast(no)
  /\ IF enable_memory_reuse /\ start # 0
       THEN delete_map_entries(FreedRange(start, size))
       ELSE UNCHANGED <<maps, accesses>>
  /\ UNCHANGED heap_map

Next ==
  \/ \E r \in Record : InLogOrder(r) /\ DetectOp(r)
  \/ \E no \in RecordNo, start \in Address, size \in Size :
       /\ no > log.no
       /\ DetectAlloc(no, start, size) \/ DetectFree(no, start, size)

Spec == Init /\ [][Next]_vars

-----------------------------------------------------------------------------
(* Properties *)

Known == DOMAIN rw_map

\* The three maps hold statuses, record sets and locksets; the log position
\* and the allocation sizes have their types.
TypeOK ==
  /\ Known \subseteq Address \ {0}
  /\ rw_map \in [Known -> 0..4]
  /\ global_record_set_map \in [DOMAIN global_record_set_map -> SUBSET Record]
  /\ lockset_map \in [DOMAIN lockset_map -> SUBSET Lock]
  /\ heap_map \in [Address -> Nat]
  /\ log \in [no : Nat, tid : Thread, pips : SUBSET Pip]
  /\ accesses \in [Address -> SUBSET Abstract!Access]

Single(S) == \E s \in S : S = {s}
Several(S) == \E s, u \in S : s # u

\* No assert of offline_detection or core_detection can fire: the three maps
\* know the same addresses (detect.cc:394-395), an exclusive status has one
\* record and a shared one several (detect.cc:199, 227, 251, 271, 288).
AssertsHold ==
  /\ DOMAIN global_record_set_map = Known
  /\ DOMAIN lockset_map = Known
  /\ \A a \in Known : IF rw_map[a] \in {0, 1}
                       THEN Single(global_record_set_map[a])
                       ELSE Several(global_record_set_map[a])

\* "For one thread, we only record" one access (detect.cc:35): an address never
\* holds two records of one thread, and until a warning freezes the set it
\* holds one of every thread that accessed the address since it was freed.
OneRecordPerThread ==
  \A a \in Known :
    /\ \A s, u \in global_record_set_map[a] : s.tid = u.tid => s = u
    /\ rw_map[a] # 4 => {s.tid : s \in global_record_set_map[a]}
                           = Abstract!TidsOf(accesses[a])

\* The status means what the comment of core_detection says of it
\* (detect.cc:187-191), over all accesses since the address was freed: states 0
\* and 1 are those of one thread, states 0 and 2 those without a write.
StatusMeaning ==
  \A a \in Known :
    /\ rw_map[a] \in {0, 1} <=> Single(Abstract!TidsOf(accesses[a]))
    /\ rw_map[a] \in {0, 2} <=> \A x \in accesses[a] : x.write = 0

\* The candidate lockset is exactly the set of locks held at every access since
\* the address was freed, although most of the records are gone.
CandidateLockset ==
  \A a \in Known : lockset_map[a] = Abstract!CommonLocks(accesses[a])

\* The records a warning prints (the set is frozen in state 4) show a conflict:
\* two threads, a write among them, and no lock protects the address.
WarningShowsConflict ==
  \A a \in Known : rw_map[a] = 4 =>
    /\ Abstract!SharedModified(global_record_set_map[a])
    /\ lockset_map[a] = {}

\* The detector implements the history-based promise of module RaceReport: the
\* status and the records kept per thread are enough to warn for exactly the
\* accesses RaceReport reports, once per address and allocation.
ImplementsRaceReport == Abstract!Spec
=============================================================================
