--------------------------- MODULE DetectorProofs ---------------------------
(***************************************************************************)
(* Proofs about module Detector, for every set of threads, locks, addresses,*)
(* instructions and record numbers.  The inductive invariant IInv relates,  *)
(* address by address, what the code keeps (the records, the status, the    *)
(* lockset) to all accesses since the address was freed.                    *)
(***************************************************************************)
EXTENDS Detector, TLAPS

AccessOf(r) == [tid |-> r.tid, write |-> r.write, locks |-> r.locks]

\* What one address keeps, against the accesses it stands for.
Summary(acc, rs, st, ls) ==
  /\ \A s, u \in rs : s.tid = u.tid => s = u
  /\ \A s \in rs : AccessOf(s) \in acc
  /\ st # 4 => \A x \in acc : \E s \in rs : s.tid = x.tid
  /\ ls = Abstract!CommonLocks(acc)
  /\ st \in {0, 2} <=> \A x \in acc : x.write = 0
  /\ st \in {0, 1} <=> \A x, y \in acc : x.tid = y.tid
  /\ st \in {1, 3, 4} => \E s \in rs : s.write = 1
  /\ st = 4 => ls = {} /\ \E s, u \in rs : s.tid # u.tid
  /\ rs # {}

\* The log has moved past every record kept.
Passed(s) ==
  s.no < log.no \/ (s.no = log.no /\ s.tid = log.tid /\ s.pip \in log.pips)

IInv ==
  /\ TypeOK
  /\ DOMAIN global_record_set_map = Known
  /\ DOMAIN lockset_map = Known
  /\ \A a \in Address : a \in Known <=> accesses[a] # {}
  /\ \A a \in Known :
       /\ Summary(accesses[a], global_record_set_map[a], rw_map[a], lockset_map[a])
       /\ \A s \in global_record_set_map[a] : Passed(s)

\* A record's key is apart from the keys of the records kept.
Fresh(r, rs) == \A s \in rs : Less(r, s) \/ Less(s, r)

\* std::set::insert of a record with a key of its own really adds it.
LEMMA InsertFresh ==
  ASSUME NEW rs, NEW r, Fresh(r, rs)
  PROVE  Insert(rs, r) = rs \cup {r}
BY DEF Insert, Fresh

\* With one record per thread, set_includes_thread_id finds the thread's record.
LEMMA FindThread ==
  ASSUME NEW rs \in SUBSET Record, NEW k \in rs,
         \A s, u \in rs : s.tid = u.tid => s = u
  PROVE  set_includes_thread_id(rs, k.tid) = k
<1>1. OfThread(rs, k.tid) = {k}
  BY DEF OfThread
<1>2. k.no \in Nat /\ k.pip \in Nat
  BY NaturalsAssumption DEF NaturalsAssumption, Record
<1>3. ~Less(k, k)
  BY <1>2 DEF Less
<1> QED
  BY <1>1, <1>3, Zenon DEF set_includes_thread_id

\* Erasing the thread's record and inserting the new one, without the details of
\* std::set: the new record instead of the thread's old one, if any.
LEMMA ReplaceRecord ==
  ASSUME NEW rs \in SUBSET Record, NEW r \in Record, Fresh(r, rs),
         \A s, u \in rs : s.tid = u.tid => s = u
  PROVE  Insert(EraseThread(rs, r.tid), r) = {s \in rs : s.tid # r.tid} \cup {r}
<1>1. EraseThread(rs, r.tid) = {s \in rs : s.tid # r.tid}
  <2>1. CASE OfThread(rs, r.tid) = {}
    BY <2>1 DEF EraseThread, OfThread
  <2>2. CASE OfThread(rs, r.tid) # {}
    <3>1. PICK k \in rs : k.tid = r.tid
      BY <2>2 DEF OfThread
    <3>2. set_includes_thread_id(rs, r.tid) = k
      BY <3>1, FindThread
    <3>3. EraseThread(rs, r.tid) = rs \ {k}
      BY <2>2, <3>2 DEF EraseThread
    <3> QED BY <3>1, <3>3
  <2> QED BY <2>1, <2>2
<1>2. Fresh(r, {s \in rs : s.tid # r.tid})
  BY DEF Fresh
<1> QED BY <1>1, <1>2, InsertFresh

\* What core_detection makes of a record for an address with a summary.
CoreKeeps(acc, rs, st, ls, r) ==
  LET d == core_detection(r, rs, st, ls)
  IN  /\ d.records \subseteq rs \cup {r}
      /\ d.status \in 0..4
      /\ d.lockset \in SUBSET Lock
      /\ Summary(acc \cup {AccessOf(r)}, d.records, d.status, d.lockset)
      /\ d.status = 4 <=> st = 4 \/ Abstract!Reported(acc, AccessOf(r))

\* core_detection keeps the summary of an address: what it computes from the
\* records kept is what it would compute from all accesses.
LEMMA CoreKeepsSummary ==
  ASSUME NEW acc \in SUBSET Abstract!Access, NEW rs \in SUBSET Record,
         NEW st \in 0..4, NEW ls \in SUBSET Lock, NEW r \in Record,
         acc # {}, Summary(acc, rs, st, ls), Fresh(r, rs)
  PROVE  CoreKeeps(acc, rs, st, ls, r)
<1> DEFINE x   == AccessOf(r)
           acc2 == acc \cup {x}
           rs2 == NextRecordSet(r, rs, st)
           st1 == NextStatus(r, rs, st)
           st2 == IF WillReport(r, rs, st, ls) THEN 4 ELSE st1
           ls2 == NextLockset(r, st, ls)
<1>1. /\ x.tid = r.tid /\ x.write = r.write /\ x.locks = r.locks
      /\ r.write \in {0, 1} /\ r.locks \subseteq Lock
  BY DEF AccessOf, Record
<1>2. ls2 = Abstract!CommonLocks(acc2) /\ ls2 \subseteq Lock
  BY <1>1 DEF NextLockset, Summary, Abstract!CommonLocks
<1>3. rs2 = rs \/ rs2 = {s \in rs : s.tid # r.tid} \cup {r}
  BY ReplaceRecord DEF NextRecordSet, Summary
<1>4. st # 4 => (NewThread(r, rs) <=> \A y \in acc : y.tid # r.tid)
  <2>1. \A s \in rs : AccessOf(s) \in acc /\ AccessOf(s).tid = s.tid
    BY DEF Summary, AccessOf
  <2>2. st # 4 => \A y \in acc : \E s \in rs : s.tid = y.tid
    BY DEF Summary
  <2>3. NewThread(r, rs) <=> \A s \in rs : s.tid # r.tid
    BY DEF NewThread, OfThread
  <2> QED BY <2>1, <2>2, <2>3
<1>5. st1 \in 0..4 /\ (st1 = 4 <=> st = 4)
  BY <1>1 DEF NextStatus
<1>6. st1 \in {0, 2} <=> \A y \in acc2 : y.write = 0
  BY <1>1, <1>4 DEF NextStatus, Summary
<1>7. st1 \in {0, 1} <=> \A y, z \in acc2 : y.tid = z.tid
  BY <1>1, <1>4 DEF NextStatus, Summary
<1>8. /\ st # 4 => (Abstract!SharedModified(acc2) <=> st1 = 3)
      /\ st # 4 => (Abstract!SharedModified(acc) <=> st = 3)
  <2>1. \A y \in acc2 : y.write \in {0, 1}
    BY <1>1 DEF Abstract!Access
  <2> QED BY <1>5, <1>6, <1>7, <2>1 DEF Abstract!SharedModified, Summary
<1>9. WillReport(r, rs, st, ls) <=> st # 4 /\ Abstract!Reported(acc, x)
  <2>1. CASE st = 4
    BY <2>1 DEF WillReport, NextStatus
  <2>2. CASE st # 4
    <3>1. Abstract!Reported(acc, x) <=>
            st1 = 3 /\ ls2 = {} /\ (st = 3 => ~NewThread(r, rs))
      BY <2>2, <1>1, <1>2, <1>4, <1>8
         DEF Abstract!Reported, Abstract!Racy, Abstract!TidsOf
    <3>2. MayReport(r, rs, st) /\ st1 = 3 <=> st1 = 3 /\ (st = 3 => ~NewThread(r, rs))
      BY <2>2, <1>5 DEF MayReport
    <3> QED BY <2>2, <3>1, <3>2 DEF WillReport
  <2> QED BY <2>1, <2>2
<1>10. /\ \A s, u \in rs2 : s.tid = u.tid => s = u
       /\ \A s \in rs2 : AccessOf(s) \in acc2
       /\ rs2 # {}
       /\ rs2 \subseteq rs \cup {r}
  BY <1>3 DEF Summary
<1>11. st # 4 => \A y \in acc2 : \E s \in rs2 : s.tid = y.tid
  <2>1. SUFFICES ASSUME st # 4, NEW y \in acc2
                 PROVE  \E s \in rs2 : s.tid = y.tid
    OBVIOUS
  <2>2. CASE y = x /\ rs2 = rs
    <3>1. rs2 # {s \in rs : s.tid # r.tid} \cup {r} => ~NewThread(r, rs)
      BY ReplaceRecord, <2>1 DEF NextRecordSet, Summary
    <3> QED BY <3>1, <2>2, <1>1 DEF NewThread, OfThread
  <2>3. CASE y # x /\ rs2 = rs
    BY <2>1, <2>3 DEF Summary
  <2>4. CASE rs2 = {s \in rs : s.tid # r.tid} \cup {r}
    BY <2>1, <2>4, <1>1 DEF Summary
  <2> QED BY <1>3, <2>2, <2>3, <2>4
<1>12. st1 \in {1, 3, 4} => \E s \in rs2 : s.write = 1
  <2>1. CASE st = 4
    BY <2>1 DEF Summary, NextRecordSet
  <2>2. CASE st # 4 /\ r.write = 1
    BY <2>2, ReplaceRecord DEF Summary, NextRecordSet
  <2>3. CASE st # 4 /\ r.write = 0
    <3>1. st1 \in {1, 3, 4} => st \in {1, 3}
      BY <2>3 DEF NextStatus
    <3>2. st \in {1, 3} => \E s \in rs : s.write = 1
      BY DEF Summary
    <3>3. NewThread(r, rs) => {s \in rs : s.tid # r.tid} = rs
      BY DEF NewThread, OfThread
    <3>4. st \in {1, 3} => rs \subseteq rs2
      BY <2>3, <3>3, ReplaceRecord DEF NextRecordSet, Summary
    <3> QED BY <3>1, <3>2, <3>4
  <2> QED BY <2>1, <2>2, <2>3, <1>1
<1>13. st2 = 4 => ls2 = {} /\ \E s, u \in rs2 : s.tid # u.tid
  <2>1. CASE st = 4
    BY <2>1 DEF Summary, NextRecordSet, NextLockset
  <2>2. CASE st # 4
    <3>1. SUFFICES ASSUME WillReport(r, rs, st, ls)
                   PROVE  ls2 = {} /\ \E s, u \in rs2 : s.tid # u.tid
      BY <1>5, <2>2
    <3>2. ls2 = {} /\ st1 = 3
      BY <3>1 DEF WillReport
    <3>3. PICK y \in acc2, z \in acc2 : y.tid # z.tid
      BY <2>2, <3>2, <1>8 DEF Abstract!SharedModified
    <3> QED BY <2>2, <3>2, <3>3, <1>11
  <2> QED BY <2>1, <2>2
<1>14. Summary(acc2, rs2, st2, ls2)
  <2>1. st2 \in {0, 2} <=> st1 \in {0, 2}
    BY <1>5 DEF WillReport
  <2>2. st2 \in {0, 1} <=> st1 \in {0, 1}
    BY <1>5 DEF WillReport
  <2>3. st2 \in {1, 3, 4} => st1 \in {1, 3, 4}
    BY <1>5 DEF WillReport
  <2>4. st2 # 4 => st # 4
    BY <1>5
  <2> QED
    BY <1>2, <1>6, <1>7, <1>10, <1>11, <1>12, <1>13, <2>1, <2>2, <2>3, <2>4
       DEF Summary
<1>15. st2 = 4 <=> st = 4 \/ Abstract!Reported(acc, x)
  BY <1>5, <1>9
<1>16. st2 \in 0..4
  BY <1>5
<1> QED
  BY <1>2, <1>10, <1>14, <1>15, <1>16 DEF core_detection, CoreKeeps

\* The invariant holds before the first record.
LEMMA InitIInv == Init => IInv
<1> SUFFICES ASSUME Init PROVE IInv
  OBVIOUS
<1>1. Known = {} /\ DOMAIN global_record_set_map = {} /\ DOMAIN lockset_map = {}
  BY DEF Init, Known
<1>2. TypeOK
  BY <1>1 DEF Init, TypeOK
<1> QED BY <1>1, <1>2 DEF Init, IInv

\* The log moves on: records passed stay passed, and the record taken is passed.
LEMMA AdvancePasses ==
  ASSUME TypeOK, NEW r \in Record, InLogOrder(r), Advance(r)
  PROVE  /\ log' \in [no : Nat, tid : Thread, pips : SUBSET Pip]
         /\ Passed(r)'
         /\ \A s \in Record : Passed(s) => Passed(s)' /\ (Less(r, s) \/ Less(s, r))
<1>1. /\ log.no \in Nat /\ log.tid \in Thread /\ log.pips \in SUBSET Pip
      /\ \A s \in Record : s.no \in Nat /\ s.tid \in Thread /\ s.pip \in Pip /\ s.pip \in Nat
  BY NaturalsAssumption DEF NaturalsAssumption, TypeOK, Record
<1>2. /\ log'.no = r.no /\ log'.tid = r.tid
      /\ log'.pips = IF r.no = log.no THEN log.pips \cup {r.pip} ELSE {r.pip}
      /\ log' \in [no : Nat, tid : Thread, pips : SUBSET Pip]
  BY <1>1 DEF Advance
<1>3. Passed(r)'
  BY <1>1, <1>2 DEF Passed
<1>4. ASSUME NEW s \in Record, Passed(s)
      PROVE  Passed(s)' /\ (Less(r, s) \/ Less(s, r))
  <2>1. CASE r.no > log.no
    BY <1>1, <1>2, <1>4, <2>1 DEF Passed, Less
  <2>2. CASE r.no = log.no /\ r.tid = log.tid /\ r.pip \notin log.pips
    BY <1>1, <1>2, <1>4, <2>2 DEF Passed, Less
  <2> QED BY <2>1, <2>2 DEF InLogOrder
<1> QED BY <1>2, <1>3, <1>4

\* A MEMORY_ALLOC record moves the log past every record kept.
LEMMA AdvancePastPasses ==
  ASSUME TypeOK, NEW no \in RecordNo, no > log.no, AdvancePast(no)
  PROVE  /\ log' \in [no : Nat, tid : Thread, pips : SUBSET Pip]
         /\ \A s \in Record : Passed(s) => Passed(s)'
<1>1. /\ log.no \in Nat /\ no \in Nat /\ \A s \in Record : s.no \in Nat
      /\ log \in [no : Nat, tid : Thread, pips : SUBSET Pip]
  BY NaturalsAssumption DEF NaturalsAssumption, TypeOK, Record
<1>2. log'.no = no /\ log' \in [no : Nat, tid : Thread, pips : SUBSET Pip]
  BY <1>1 DEF AdvancePast
<1> QED BY <1>1, <1>2 DEF Passed

\* The first access to an address creates its summary.
LEMMA FirstAccessStep ==
  ASSUME IInv, NEW r \in Record, InLogOrder(r), Advance(r), r.addr # 0,
         r.addr \notin Known, DetectAccess(r)
  PROVE  IInv' /\ Abstract!Touch(r.addr, AccessOf(r))
<1> DEFINE a == r.addr
           x == AccessOf(r)
<1>1. /\ TypeOK /\ a \in Address /\ x \in Abstract!Access
      /\ r.write \in {0, 1} /\ r.locks \in SUBSET Lock
  BY DEF IInv, AccessOf, Record, Abstract!Access
<1>2. /\ Known' = Known \cup {a}
      /\ DOMAIN global_record_set_map' = Known' /\ DOMAIN lockset_map' = Known'
      /\ rw_map'[a] = r.write /\ global_record_set_map'[a] = {r}
      /\ lockset_map'[a] = r.locks
      /\ \A b \in Known : /\ rw_map'[b] = rw_map[b]
                          /\ global_record_set_map'[b] = global_record_set_map[b]
                          /\ lockset_map'[b] = lockset_map[b]
  BY DEF IInv, DetectAccess, FirstAccess, Put, Known
<1>3. /\ accesses'[a] = {x} /\ \A b \in Address \ {a} : accesses'[b] = accesses[b]
      /\ accesses' \in [Address -> SUBSET Abstract!Access]
  BY <1>1 DEF IInv, TypeOK, DetectAccess, AccessOf
<1>4. TypeOK'
  <2>1. rw_map' \in [Known' -> 0..4]
    BY <1>1, <1>2 DEF TypeOK, DetectAccess, FirstAccess, Put, Known
  <2>2. global_record_set_map' \in [DOMAIN global_record_set_map' -> SUBSET Record]
    <3>1. \A b \in Known' : global_record_set_map'[b] \in SUBSET Record
      BY <1>1, <1>2 DEF TypeOK, IInv
    <3>2. global_record_set_map' = [b \in Known' |-> global_record_set_map'[b]]
      BY <1>2 DEF DetectAccess, FirstAccess, Put, Known
    <3> QED BY <3>1, <3>2
  <2>3. lockset_map' \in [DOMAIN lockset_map' -> SUBSET Lock]
    BY <1>1, <1>2 DEF TypeOK, DetectAccess, FirstAccess, Put, Known
  <2> QED
    BY <1>1, <1>2, <1>3, <2>1, <2>2, <2>3, AdvancePasses DEF TypeOK, DetectAccess
<1>5. Summary({x}, {r}, r.write, r.locks)
  BY <1>1 DEF Summary, AccessOf, Abstract!CommonLocks
<1>6. ASSUME NEW b \in Known'
      PROVE  /\ Summary(accesses'[b], global_record_set_map'[b], rw_map'[b], lockset_map'[b])
             /\ \A s \in global_record_set_map'[b] : Passed(s)'
  <2>1. CASE b = a
    BY <2>1, <1>1, <1>2, <1>3, <1>5, AdvancePasses
  <2>2. CASE b # a
    <3>1. b \in Known /\ b \in Address /\ global_record_set_map[b] \subseteq Record
      BY <2>2, <1>1, <1>2 DEF TypeOK, IInv
    <3> QED BY <3>1, <2>2, <1>1, <1>2, <1>3, AdvancePasses DEF IInv
  <2> QED BY <2>1, <2>2
<1>7. \A b \in Address : b \in Known' <=> accesses'[b] # {}
  BY <1>2, <1>3 DEF IInv
<1>8. Abstract!Touch(a, x)
  <2>1. {b \in DOMAIN rw_map : rw_map[b] = 4}' = {b \in DOMAIN rw_map : rw_map[b] = 4}
    BY <1>1, <1>2 DEF Known
  <2>2. accesses[a] = {}
    BY <1>1 DEF IInv
  <2>3. ~Abstract!Reported(accesses[a], x)
    BY <2>2 DEF Abstract!Reported, Abstract!Racy, Abstract!SharedModified
  <2> QED BY <2>1, <2>3, <1>1 DEF Abstract!Touch, DetectAccess, AccessOf
<1> QED BY <1>2, <1>4, <1>6, <1>7, <1>8 DEF IInv

\* A later access updates the summary of its address by core_detection.
LEMMA LaterAccessStep ==
  ASSUME IInv, NEW r \in Record, InLogOrder(r), Advance(r),
         r.addr \in Known, DetectAccess(r)
  PROVE  IInv' /\ Abstract!Touch(r.addr, AccessOf(r))
<1> DEFINE a == r.addr
           x == AccessOf(r)
           d == core_detection(r, global_record_set_map[a], rw_map[a], lockset_map[a])
<1>1. /\ TypeOK /\ a \in Address /\ x \in Abstract!Access
      /\ DOMAIN global_record_set_map = Known /\ DOMAIN lockset_map = Known
      /\ rw_map[a] \in 0..4 /\ global_record_set_map[a] \in SUBSET Record
      /\ lockset_map[a] \in SUBSET Lock /\ accesses[a] \in SUBSET Abstract!Access
      /\ accesses[a] # {}
  BY DEF IInv, TypeOK, AccessOf, Record, Abstract!Access
<1>2. Fresh(r, global_record_set_map[a])
  BY <1>1, AdvancePasses DEF IInv, Fresh
<1>3. /\ d.records \subseteq global_record_set_map[a] \cup {r}
      /\ d.status \in 0..4 /\ d.lockset \in SUBSET Lock
      /\ Summary(accesses[a] \cup {x}, d.records, d.status, d.lockset)
      /\ d.status = 4 <=> rw_map[a] = 4 \/ Abstract!Reported(accesses[a], x)
  <2>1. Summary(accesses[a], global_record_set_map[a], rw_map[a], lockset_map[a])
    BY DEF IInv
  <2>2. CoreKeeps(accesses[a], global_record_set_map[a], rw_map[a], lockset_map[a], r)
    BY <1>1, <1>2, <2>1, CoreKeepsSummary
  <2> QED BY <2>2 DEF CoreKeeps
<1> HIDE DEF d
<1>4. /\ global_record_set_map' = [global_record_set_map EXCEPT ![a] = d.records]
      /\ rw_map' = [rw_map EXCEPT ![a] = d.status]
      /\ lockset_map' = [lockset_map EXCEPT ![a] = d.lockset]
      /\ accesses' = [accesses EXCEPT ![a] = @ \cup {x}]
      /\ heap_map' = heap_map
  BY DEF d, DetectAccess, LaterAccess, AccessOf, Known
<1>5. TypeOK'
  <2>1. Known' = Known /\ rw_map' \in [Known -> 0..4]
    BY <1>1, <1>3, <1>4 DEF TypeOK, Known
  <2>2. global_record_set_map' \in [Known -> SUBSET Record]
    BY <1>1, <1>3, <1>4 DEF TypeOK
  <2>3. lockset_map' \in [Known -> SUBSET Lock]
    BY <1>1, <1>3, <1>4 DEF TypeOK
  <2>4. accesses' \in [Address -> SUBSET Abstract!Access]
    BY <1>1, <1>4 DEF TypeOK
  <2> QED BY <1>1, <1>4, <2>1, <2>2, <2>3, <2>4, AdvancePasses DEF TypeOK
<1>6. /\ Known' = Known
      /\ DOMAIN global_record_set_map' = Known' /\ DOMAIN lockset_map' = Known'
  BY <1>1, <1>4 DEF Known
<1>7. ASSUME NEW b \in Known'
      PROVE  /\ Summary(accesses'[b], global_record_set_map'[b], rw_map'[b], lockset_map'[b])
             /\ \A s \in global_record_set_map'[b] : Passed(s)'
  <2>1. b \in Known /\ b \in Address /\ global_record_set_map[b] \subseteq Record
    BY <1>1, <1>6 DEF TypeOK
  <2>2. CASE b = a
    <3>1. /\ accesses'[b] = accesses[a] \cup {x} /\ rw_map'[b] = d.status
          /\ global_record_set_map'[b] = d.records /\ lockset_map'[b] = d.lockset
      BY <2>1, <2>2, <1>1, <1>4 DEF TypeOK, Known
    <3> QED BY <2>1, <2>2, <3>1, <1>3, <1>1, AdvancePasses DEF IInv
  <2>3. CASE b # a
    <3>1. /\ accesses'[b] = accesses[b] /\ rw_map'[b] = rw_map[b]
          /\ global_record_set_map'[b] = global_record_set_map[b]
          /\ lockset_map'[b] = lockset_map[b]
      BY <2>1, <2>3, <1>1, <1>4 DEF TypeOK, Known
    <3> QED BY <2>1, <3>1, <1>1, AdvancePasses DEF IInv
  <2> QED BY <2>2, <2>3
<1>8. \A b \in Address : b \in Known' <=> accesses'[b] # {}
  BY <1>1, <1>4, <1>6 DEF IInv, TypeOK
<1>9. Abstract!Touch(a, x)
  <2> DEFINE W == {b \in DOMAIN rw_map : rw_map[b] = 4}
  <2>1. W' = IF d.status = 4 THEN W \cup {a} ELSE W \ {a}
    BY <1>1, <1>4 DEF Known
  <2>2. a \in W <=> rw_map[a] = 4
    BY DEF Known
  <2>3. W' = IF a \notin W /\ Abstract!Reported(accesses[a], x) THEN W \cup {a} ELSE W
    BY <2>1, <2>2, <1>3
  <2> QED BY <2>3, <1>4 DEF Abstract!Touch
<1> QED BY <1>5, <1>6, <1>7, <1>8, <1>9 DEF IInv

\* A MEMORY_OP record, whatever its address.
LEMMA DetectOpStep ==
  ASSUME IInv, NEW r \in Record, InLogOrder(r), DetectOp(r)
  PROVE  IInv' /\ (Abstract!Next \/ UNCHANGED Abstract!vars)
<1>1. Advance(r) /\ TypeOK /\ r.addr \in Address /\ AccessOf(r) \in Abstract!Access
  BY DEF DetectOp, IInv, Record, AccessOf, Abstract!Access
<1>2. CASE r.addr = 0
  <2>1. UNCHANGED <<maps, heap_map, accesses>>
    BY <1>2 DEF DetectOp
  <2>2. TypeOK'
    BY <1>1, <2>1, AdvancePasses DEF TypeOK, Known, maps
  <2>3. \A a \in Known : \A s \in global_record_set_map[a] : Passed(s)'
    BY <1>1, AdvancePasses DEF IInv, TypeOK
  <2>4. IInv'
    BY <2>1, <2>2, <2>3 DEF IInv, Known, maps
  <2> QED BY <2>1, <2>4 DEF maps, Abstract!vars
<1>3. CASE r.addr # 0
  <2>1. DetectAccess(r)
    BY <1>3 DEF DetectOp
  <2>2. IInv' /\ Abstract!Touch(r.addr, AccessOf(r))
    BY <1>1, <1>3, <2>1, FirstAccessStep, LaterAccessStep
  <2> QED BY <1>1, <2>2 DEF Abstract!Next
<1> QED BY <1>2, <1>3

\* An allocation record changes the allocation sizes only.
LEMMA DetectAllocStep ==
  ASSUME IInv, NEW no \in RecordNo, NEW start \in Address, NEW size \in Size,
         no > log.no, DetectAlloc(no, start, size)
  PROVE  IInv' /\ UNCHANGED Abstract!vars
<1>1. TypeOK /\ AdvancePast(no) /\ UNCHANGED <<maps, accesses>>
  BY DEF IInv, DetectAlloc
<1>2. heap_map' \in [Address -> Nat]
  BY <1>1, NaturalsAssumption DEF NaturalsAssumption, TypeOK, DetectAlloc
<1>3. TypeOK'
  BY <1>1, <1>2, AdvancePastPasses DEF TypeOK, Known, maps
<1>4. \A a \in Known : \A s \in global_record_set_map[a] : Passed(s)'
  BY <1>1, AdvancePastPasses DEF IInv, TypeOK
<1>5. IInv'
  BY <1>1, <1>3, <1>4 DEF IInv, Known, maps
<1> QED BY <1>1, <1>5 DEF maps, Abstract!vars

\* A free record forgets a set of addresses in all maps, or nothing.
LEMMA DetectFreeStep ==
  ASSUME IInv, NEW no \in RecordNo, NEW start \in Address, NEW size \in Size,
         no > log.no, DetectFree(no, start, size)
  PROVE  IInv' /\ (Abstract!Next \/ UNCHANGED Abstract!vars)
<1> DEFINE gone == FreedRange(start, size)
<1>1. TypeOK /\ AdvancePast(no) /\ UNCHANGED heap_map /\ gone \subseteq Address
  BY DEF IInv, DetectFree, FreedRange
<1>2. CASE UNCHANGED <<maps, accesses>>
  <2>1. TypeOK'
    BY <1>1, <1>2, AdvancePastPasses DEF TypeOK, Known, maps
  <2>2. \A a \in Known : \A s \in global_record_set_map[a] : Passed(s)'
    BY <1>1, AdvancePastPasses DEF IInv, TypeOK
  <2>3. IInv'
    BY <1>2, <2>1, <2>2 DEF IInv, Known, maps
  <2> QED BY <1>2, <2>3 DEF maps, Abstract!vars
<1>3. CASE delete_map_entries(gone)
  <2> HIDE DEF gone
  <2>1. /\ rw_map' = [a \in Known \ gone |-> rw_map[a]]
        /\ global_record_set_map' = [a \in Known \ gone |-> global_record_set_map[a]]
        /\ lockset_map' = [a \in Known \ gone |-> lockset_map[a]]
        /\ accesses' = [a \in Address |-> IF a \in gone THEN {} ELSE accesses[a]]
    BY <1>3 DEF IInv, delete_map_entries, Erased, ErasedRw, Restrict, Known
  <2>2. /\ Known' = Known \ gone
        /\ DOMAIN global_record_set_map' = Known' /\ DOMAIN lockset_map' = Known'
    BY <2>1 DEF Known
  <2>3. TypeOK'
    <3>1. rw_map' \in [Known' -> 0..4]
      BY <1>1, <2>1, <2>2 DEF TypeOK
    <3>2. global_record_set_map' \in [Known' -> SUBSET Record]
      BY <1>1, <2>1, <2>2 DEF TypeOK, IInv
    <3>3. lockset_map' \in [Known' -> SUBSET Lock]
      BY <1>1, <2>1, <2>2 DEF TypeOK, IInv
    <3>4. accesses' \in [Address -> SUBSET Abstract!Access]
      BY <1>1, <2>1 DEF TypeOK
    <3> QED
      BY <1>1, <2>2, <3>1, <3>2, <3>3, <3>4, AdvancePastPasses DEF TypeOK
  <2>4. ASSUME NEW a \in Known'
        PROVE  /\ Summary(accesses'[a], global_record_set_map'[a], rw_map'[a], lockset_map'[a])
               /\ \A s \in global_record_set_map'[a] : Passed(s)'
    <3>1. a \in Known /\ a \notin gone /\ a \in Address
      BY <1>1, <2>2 DEF TypeOK
    <3>2. /\ accesses'[a] = accesses[a] /\ rw_map'[a] = rw_map[a]
          /\ global_record_set_map'[a] = global_record_set_map[a]
          /\ lockset_map'[a] = lockset_map[a]
      BY <2>1, <3>1
    <3>3. global_record_set_map[a] \subseteq Record
      BY <1>1, <3>1 DEF TypeOK, IInv
    <3> QED BY <1>1, <3>1, <3>2, <3>3, AdvancePastPasses DEF IInv
  <2>5. \A a \in Address : a \in Known' <=> accesses'[a] # {}
    BY <2>1, <2>2 DEF IInv
  <2>6. Abstract!Forget(gone)
    <3>1. {a \in DOMAIN rw_map : rw_map[a] = 4}'
            = {a \in DOMAIN rw_map : rw_map[a] = 4} \ gone
      BY <2>1 DEF Known
    <3> QED BY <2>1, <3>1 DEF Abstract!Forget
  <2>7. IInv'
    BY <2>2, <2>3, <2>4, <2>5 DEF IInv
  <2>8. Abstract!Next
    <3>1. gone \in SUBSET Address
      BY <1>1 DEF gone
    <3>2. \E S \in SUBSET Address : Abstract!Forget(S)
      BY <3>1, <2>6 DEF Abstract!Forget
    <3> QED BY <3>2 DEF Abstract!Next
  <2> QED BY <2>7, <2>8
<1> QED BY <1>2, <1>3 DEF DetectFree

\* Every step of the detector keeps the invariant and is a step of RaceReport.
LEMMA StepIInv ==
  IInv /\ [Next]_vars => IInv' /\ [Abstract!Next]_(Abstract!vars)
<1> SUFFICES ASSUME IInv, [Next]_vars
             PROVE  IInv' /\ (Abstract!Next \/ UNCHANGED Abstract!vars)
  BY DEF Abstract!vars
<1>1. CASE \E r \in Record : InLogOrder(r) /\ DetectOp(r)
  BY <1>1, DetectOpStep
<1>2. CASE \E no \in RecordNo, start \in Address, size \in Size :
              no > log.no /\ DetectAlloc(no, start, size)
  BY <1>2, DetectAllocStep
<1>3. CASE \E no \in RecordNo, start \in Address, size \in Size :
              no > log.no /\ DetectFree(no, start, size)
  BY <1>3, DetectFreeStep
<1>4. CASE UNCHANGED vars
  BY <1>4 DEF vars, IInv, TypeOK, Known, Passed, Abstract!vars
<1> QED BY <1>1, <1>2, <1>3, <1>4 DEF Next

-----------------------------------------------------------------------------
(* Theorems *)

\* IInv holds in every state of every run of the detector.
THEOREM IInvInvariant == Spec => []IInv
<1>1. IInv /\ [Next]_vars => IInv'
  BY StepIInv
<1> QED BY InitIInv, <1>1, PTL DEF Spec

\* Type correctness of the detector's maps (detect.cc:375-456).
THEOREM TypeCorrect == Spec => []TypeOK
<1>1. IInv => TypeOK
  BY DEF IInv
<1> QED BY IInvInvariant, <1>1, PTL

\* No assert of offline_detection or core_detection can fire, on any log.
THEOREM NoAssertFires == Spec => []AssertsHold
<1>1. IInv => AssertsHold
  <2> SUFFICES ASSUME IInv, NEW a \in Known
               PROVE  IF rw_map[a] \in {0, 1}
                        THEN Single(global_record_set_map[a])
                        ELSE Several(global_record_set_map[a])
    BY DEF IInv, AssertsHold
  <2> DEFINE rs == global_record_set_map[a]
             acc == accesses[a]
  <2>1. Summary(acc, rs, rw_map[a], lockset_map[a]) /\ rw_map[a] \in 0..4
    BY DEF IInv, TypeOK
  <2> HIDE DEF rs, acc
  <2>2. CASE rw_map[a] \in {0, 1}
    <3>1. SUFFICES \A s, u \in rs : s = u
      BY <2>1, <2>2 DEF Single, Summary, rs
    <3> TAKE s \in rs, u \in rs
    <3>2. AccessOf(s) \in acc /\ AccessOf(u) \in acc
      BY <2>1 DEF Summary
    <3>3. AccessOf(s).tid = s.tid /\ AccessOf(u).tid = u.tid
      BY DEF AccessOf
    <3> QED BY <2>1, <2>2, <3>2, <3>3 DEF Summary
  <2>3. CASE rw_map[a] \in {2, 3}
    <3>1. PICK x \in acc, y \in acc : x.tid # y.tid
      BY <2>1, <2>3 DEF Summary
    <3>2. PICK s \in rs, u \in rs : s.tid = x.tid /\ u.tid = y.tid
      BY <2>1, <2>3, <3>1 DEF Summary
    <3> QED BY <2>3, <3>1, <3>2 DEF Several, rs
  <2>4. CASE rw_map[a] = 4
    BY <2>1, <2>4 DEF Summary, Several, rs
  <2> QED BY <2>1, <2>2, <2>3, <2>4
<1> QED BY IInvInvariant, <1>1, PTL

\* An address keeps one record per thread, of each thread until it is reported.
THEOREM RecordsPerThread == Spec => []OneRecordPerThread
<1>1. IInv => OneRecordPerThread
  <2> SUFFICES ASSUME IInv, NEW a \in Known
               PROVE  /\ \A s, u \in global_record_set_map[a] : s.tid = u.tid => s = u
                      /\ rw_map[a] # 4 => {s.tid : s \in global_record_set_map[a]}
                                             = Abstract!TidsOf(accesses[a])
    BY DEF OneRecordPerThread
  <2> DEFINE rs == global_record_set_map[a]
             acc == accesses[a]
  <2>1. Summary(acc, rs, rw_map[a], lockset_map[a])
    BY DEF IInv
  <2>2. \A s \in rs : \E x \in acc : s.tid = x.tid
    BY <2>1 DEF Summary, AccessOf
  <2>3. rw_map[a] # 4 => \A x \in acc : \E s \in rs : s.tid = x.tid
    BY <2>1 DEF Summary
  <2> QED BY <2>1, <2>2, <2>3 DEF Summary, Abstract!TidsOf
<1> QED BY IInvInvariant, <1>1, PTL

\* The status is the one detect.cc:187-191 describes, over the whole history.
THEOREM StatusIsHistory == Spec => []StatusMeaning
<1>1. IInv => StatusMeaning
  <2> SUFFICES ASSUME IInv, NEW a \in Known
               PROVE  /\ rw_map[a] \in {0, 1} <=> Single(Abstract!TidsOf(accesses[a]))
                      /\ rw_map[a] \in {0, 2} <=> \A x \in accesses[a] : x.write = 0
    BY DEF StatusMeaning
  <2>1. /\ Summary(accesses[a], global_record_set_map[a], rw_map[a], lockset_map[a])
        /\ accesses[a] # {}
    BY DEF IInv, TypeOK
  <2>2. Single(Abstract!TidsOf(accesses[a]))
          <=> \A x, y \in accesses[a] : x.tid = y.tid
    BY <2>1 DEF Single, Abstract!TidsOf
  <2> QED BY <2>1, <2>2 DEF Summary
<1> QED BY IInvInvariant, <1>1, PTL

\* The candidate lockset is the intersection over the whole history.
THEOREM LocksetIsIntersection == Spec => []CandidateLockset
<1>1. IInv => CandidateLockset
  BY DEF IInv, CandidateLockset, Summary
<1> QED BY IInvInvariant, <1>1, PTL

\* A printed warning shows two threads and a write, and no lock protects the
\* address.
THEOREM WarningsAreConflicts == Spec => []WarningShowsConflict
<1>1. IInv => WarningShowsConflict
  BY DEF IInv, WarningShowsConflict, Summary, Abstract!SharedModified
<1> QED BY IInvInvariant, <1>1, PTL

\* The detector implements RaceReport: it warns exactly for the accesses the
\* history-based definition reports.
THEOREM Refinement == Spec => ImplementsRaceReport
<1>1. Init => Abstract!Init
  BY DEF Init, Abstract!Init
<1>2. IInv /\ [Next]_vars => [Abstract!Next]_(Abstract!vars)
  BY StepIInv
<1> QED BY IInvInvariant, <1>1, <1>2, PTL DEF Spec, ImplementsRaceReport, Abstract!Spec
=============================================================================
