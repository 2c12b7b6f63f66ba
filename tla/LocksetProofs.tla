--------------------------- MODULE LocksetProofs ---------------------------
(***************************************************************************)
(* Proofs about module Lockset, for every set of threads and mutexes and   *)
(* every length of the array.  Shape says how far the wrappers have got    *)
(* with a LOCKSET, whatever the handler does meanwhile; Attachment how a   *)
(* thread comes to be sampled; Exact what the array holds when no handler  *)
(* interferes.                                                             *)
(***************************************************************************)
EXTENDS Lockset, LeastElement

\* All that a thread holds, the mutex of the attachment included.
HeldAll(t) == {m \in Lockable : owner[m] = t}

\* A thread that is going to be sampled.
Attaching(t) == attach[t] \in {"lock", "insert", "start", "attached"}

\* A LOCKSET in the hands of the wrappers, with the handler coming anywhere.
Shape(t) ==
  LET ls == lockset[t]
      at == pc[t]
  IN  /\ ~ls.created => ls = Fresh(FALSE)
      /\ at \in {"add_n", "add_store", "add_full", "acquire", "remove_n", "remove_move",
                 "remove_full"} => ls.created
      /\ IF at = "user" THEN arg[t] = NoMutex ELSE arg[t] \in Lockable
      /\ at \notin {"add_store", "add_full", "remove_move", "remove_full"} =>
           (ls.overflow <=> ls.n = MaxLocks)
      /\ at = "add_create" => ~ls.created
      /\ at = "add_n" => ls.n < MaxLocks
      /\ at \in {"add_store", "add_full"} => ~ls.overflow /\ ls.n > 0
      /\ at = "add_full" => ls.lockset_[ls.n - 1] = arg[t]
      /\ at = "remove_n" => \E i \in 0..(ls.n - 1) : ls.lockset_[i] = arg[t]
      /\ at \in {"remove_n", "remove_move"} => place[t].lock_count > 0
      /\ at \in {"remove_move", "remove_full"} => ls.n < MaxLocks

\* Before its attachment is through a thread runs nothing of the program, and the
\* mutex of the attachment has created its LOCKSET when the sampling starts.
Attachment(t) ==
  /\ attach[t] \in {"unborn", "lock"} =>
       /\ pc[t] = "user" /\ lockset[t] = Fresh(FALSE)
       /\ missed[t] = {} /\ HeldAll(t) = {}
  /\ attach[t] = "insert" =>
       /\ pc[t] \in {"user", "add", "add_create", "add_n", "add_store", "add_full", "acquire"}
       /\ lockset[t].created \/ pc[t] \in {"add", "add_create"}
  /\ attach[t] = "start" =>
       pc[t] \in {"user", "released", "remove", "remove_n", "remove_move", "remove_full"}
  /\ attach[t] \in {"start", "attached"} => lockset[t].created
  /\ owner[tid_fd_map_mutex] = t => attach[t] = "insert"
  /\ arg[t] = tid_fd_map_mutex => attach[t] \in {"insert", "start"}
  /\ phase = "idle" => ~Attaching(t)

\* The first k cells are the members of S, each once.
Lists(ls, k, S) ==
  /\ S = {ls.lockset_[i] : i \in 0..(k - 1)}
  /\ \A i, j \in 0..(k - 1) : ls.lockset_[i] = ls.lockset_[j] => i = j

\* What the array lists at each point of the wrappers.
Exact(t) ==
  LET ls == lockset[t]
      at == pc[t]
      kept == HeldAll(t) \ missed[t]
      with == kept \cup {arg[t]}
  IN  /\ at \in {"user", "add", "add_create", "add_n", "remove_full"} => Lists(ls, ls.n, kept)
      /\ at = "add_store" => Lists(ls, ls.n - 1, kept)
      /\ at = "add_full" => Lists(ls, ls.n, with)
      /\ at \in {"acquire", "waiting"} => Lists(ls, ls.n, IF arg[t] \in missed[t] THEN kept ELSE with)
      /\ at \in {"released", "remove"} => Lists(ls, ls.n, kept) \/ Lists(ls, ls.n, with)
      /\ at = "remove_n" => place[t].lock_count = ls.n
      /\ at = "remove_move" => place[t].lock_count = ls.n + 1
      /\ at \in {"remove_n", "remove_move"} =>
           /\ Lists(ls, place[t].lock_count, with)
           /\ place[t].i < place[t].lock_count
           /\ ls.lockset_[place[t].i] = arg[t]
      /\ at # "user" => arg[t] \notin HeldAll(t)
      /\ arg[t] \in missed[t] => at \in {"acquire", "waiting"}
      /\ missed[t] \ {arg[t]} \subseteq HeldAll(t)

\* With the handler anywhere.
HandlerInv == TypeOK /\ \A t \in Thread : Shape(t) /\ Attachment(t)

\* Without the stack trace the handler leaves the LOCKSET alone.
ExactInv ==
  /\ ArrayInBounds
  /\ racez_enable => \A t \in Thread : Attaching(t) => Exact(t)

-----------------------------------------------------------------------------
(* The steps on a LOCKSET *)

\* The scan of remove_one_mutex (racez_mutex.cc): Find is -1 when the mutex is not in
\* the used part of the array, and a place of it otherwise.
LEMMA FindFinds ==
  ASSUME NEW ls, ls.n \in Nat, NEW m
  PROVE  /\ Find(ls, m) = -1 => \A i \in 0..(ls.n - 1) : ls.lockset_[i] # m
         /\ Find(ls, m) # -1 => /\ Find(ls, m) \in 0..(ls.n - 1)
                                /\ ls.lockset_[Find(ls, m)] = m
<1> DEFINE places == {i \in 0..(ls.n - 1) : ls.lockset_[i] = m}
<1>1. CASE places = {}
  BY <1>1 DEF Find
<1>2. CASE places # {}
  <2> places \in SUBSET Nat
    OBVIOUS
  <2>1. \E i \in places : \A j \in places : i <= j
    <3> HIDE DEF places
    <3> QED
      BY <1>2, LeastNatural
  <2>2. Find(ls, m) \in places
    BY <1>2, <2>1, Zenon DEF Find
  <2> QED
    BY <2>2
<1> QED
  BY <1>1, <1>2

\* A LOCKSET on its way: the lock of a handler that meets n = MaxLocks with the flag
\* still to be set counts one further.
WideLockset == [created : BOOLEAN, n : 0..(MaxLocks + 1), overflow : BOOLEAN,
                lockset_ : [0..MaxLocks -> Value]]

\* A lockset of the wide type whose count is in range is a LOCKSET.
LEMMA Narrow ==
  ASSUME NEW ls
  PROVE  ls \in LOCKSET <=> ls \in WideLockset /\ ls.n \in 0..MaxLocks
BY MaxLocksAssumption DEF LOCKSET, WideLockset

\* A count or an index of a lockset is a natural number.
LEMMA IndexIsNatural ==
  ASSUME NEW n \in 0..MaxLocks
  PROVE  n \in Nat /\ n \in Int
BY MaxLocksAssumption

\* The cell lockset_[n-1] that add_one_mutex writes after lockset->n++.
LEMMA LastCell ==
  ASSUME NEW n \in 0..MaxLocks, n > 0
  PROVE  n - 1 \in 0..MaxLocks /\ n - 1 + 1 = n
BY MaxLocksAssumption

\* A lockset with an index in use is not empty.
LEMMA CellInUse ==
  ASSUME NEW n \in Nat, NEW i \in 0..(n - 1)
  PROVE  n > 0
OBVIOUS

\* The locals i and lock_count of remove_one_mutex once the mutex is found.
LEMMA PlaceFields ==
  ASSUME NEW p \in Place, p.lock_count > 0
  PROVE  p.i \in 0..MaxLocks /\ p.lock_count \in 1..MaxLocks /\ p.lock_count \in 1..(MaxLocks + 1)
BY MaxLocksAssumption DEF Place

\* lock_count is the number of locks before lockset->n--.
LEMMA CountBefore ==
  ASSUME NEW n \in Nat, NEW i \in 0..MaxLocks, NEW c, c = n + 1, i < c
  PROVE  i \in 0..(c - 1) /\ c - 1 = n
BY MaxLocksAssumption

\* A count that was one more before.
LEMMA CountAfter ==
  ASSUME NEW n \in Nat, NEW c, c = n, NEW k, k = n - 1
  PROVE  c = k + 1
OBVIOUS

\* Taking the last of n cells away leaves the others.
LEMMA NotTheLast ==
  ASSUME NEW n \in Nat, NEW i \in 0..(n - 1), i # n - 1, NEW k, k = n - 1
  PROVE  i \in 0..(k - 1)
OBVIOUS

\* lockset->n++ of add_one_mutex.
LEMMA IncrementFields ==
  ASSUME NEW ls \in LOCKSET
  PROVE  /\ Increment(ls) \in WideLockset
         /\ Increment(ls).n = ls.n + 1
         /\ Increment(ls).created = ls.created
         /\ Increment(ls).overflow = ls.overflow
         /\ Increment(ls).lockset_ = ls.lockset_
BY MaxLocksAssumption DEF LOCKSET, WideLockset, Increment

\* The store of add_one_mutex.
LEMMA StoreFields ==
  ASSUME NEW ls \in WideLockset, ls.n > 0, NEW m \in Value
  PROVE  /\ Store(ls, m) \in WideLockset
         /\ Store(ls, m).n = ls.n
         /\ Store(ls, m).created = ls.created
         /\ Store(ls, m).overflow = ls.overflow
         /\ Store(ls, m).lockset_ = [ls.lockset_ EXCEPT ![ls.n - 1] = m]
BY MaxLocksAssumption, Zenon DEF WideLockset, Store

\* The test for a full array that ends add_one_mutex.
LEMMA MarkFullFields ==
  ASSUME NEW ls \in WideLockset
  PROVE  /\ MarkFull(ls) \in WideLockset
         /\ MarkFull(ls).n = ls.n
         /\ MarkFull(ls).created = ls.created
         /\ MarkFull(ls).overflow <=> ls.overflow \/ ls.n = MaxLocks
         /\ MarkFull(ls).lockset_ = ls.lockset_
BY MaxLocksAssumption, Zenon DEF WideLockset, MarkFull

\* lockset->n-- of remove_one_mutex.
LEMMA DecrementFields ==
  ASSUME NEW ls \in WideLockset, ls.n > 0
  PROVE  /\ Decrement(ls) \in LOCKSET
         /\ Decrement(ls).n = ls.n - 1
         /\ Decrement(ls).created = ls.created
         /\ Decrement(ls).overflow = ls.overflow
         /\ Decrement(ls).lockset_ = ls.lockset_
BY MaxLocksAssumption DEF LOCKSET, WideLockset, Decrement

\* The move of the last element in remove_one_mutex.
LEMMA MoveLastFields ==
  ASSUME NEW ls \in LOCKSET, NEW p, p.i \in 0..MaxLocks, p.lock_count \in 1..(MaxLocks + 1)
  PROVE  /\ MoveLast(ls, p) \in LOCKSET
         /\ MoveLast(ls, p).n = ls.n
         /\ MoveLast(ls, p).created = ls.created
         /\ MoveLast(ls, p).overflow = ls.overflow
         /\ MoveLast(ls, p).lockset_ = [ls.lockset_ EXCEPT ![p.i] = ls.lockset_[p.lock_count - 1]]
<1>1. PICK v \in Value, k \in 0..MaxLocks : v = ls.lockset_[p.lock_count - 1] /\ k = p.i
  BY MaxLocksAssumption DEF LOCKSET
<1>2. PICK cells \in [0..MaxLocks -> Value] : cells = [ls.lockset_ EXCEPT ![k] = v]
  BY Zenon DEF LOCKSET
<1>3. MoveLast(ls, p) = [ls EXCEPT !.lockset_ = cells]
  BY <1>1, <1>2 DEF MoveLast
<1> QED
  BY <1>1, <1>2, <1>3, Zenon DEF LOCKSET

\* The reset of the flag that ends remove_one_mutex.
LEMMA ClearFullFields ==
  ASSUME NEW ls \in LOCKSET
  PROVE  /\ ClearFull(ls) \in LOCKSET
         /\ ClearFull(ls).n = ls.n
         /\ ClearFull(ls).created = ls.created
         /\ ClearFull(ls).overflow = FALSE
         /\ ClearFull(ls).lockset_ = ls.lockset_
BY Zenon DEF LOCKSET, ClearFull

\* The LOCKSET that SetPerThreadLockset creates.
LEMMA FreshLockset ==
  ASSUME NEW b \in BOOLEAN
  PROVE  Fresh(b) \in LOCKSET
BY MaxLocksAssumption DEF Fresh, LOCKSET, Value

\* A LOCKSET that is created looks like one that is not, and lists nothing.
LEMMA FreshFields ==
  /\ Fresh(FALSE).n = 0 /\ Fresh(TRUE).n = 0
  /\ Fresh(TRUE).lockset_ = Fresh(FALSE).lockset_
BY DEF Fresh

\* The locals of remove_one_mutex before it runs.
LEMMA NoPlaceType == NoPlace \in Place
BY MaxLocksAssumption DEF NoPlace, Place

\* What the lock and the unlock of a handler leave of a LOCKSET: below the overflow
\* the handler's mutex in the first unused cell, whatever the used part holds; above
\* it nothing, unless the used part holds the handler's mutex.
LEMMA HandlerEffect ==
  ASSUME NEW ls \in LOCKSET, ls.created, NEW ls2, ls2 = LockUnlock(ls)
  PROVE  /\ ls2 \in LOCKSET
         /\ ls2.created
         /\ ~ls.overflow => /\ ls2.n = ls.n
                            /\ ~ls2.overflow
                            /\ ls2.lockset_ = [ls.lockset_ EXCEPT ![ls.n] = SignalMutex]
         /\ ls.overflow =>
              \/ /\ \A i \in 0..(ls.n - 1) : ls.lockset_[i] # SignalMutex
                 /\ ls2 = ls
              \/ \E k \in 0..(ls.n - 1) :
                   /\ ls.lockset_[k] = SignalMutex
                   /\ ls2.n = ls.n - 1
                   /\ ~ls2.overflow
                   /\ ls2.lockset_ = [ls.lockset_ EXCEPT ![k] = ls.lockset_[ls.n - 1]]
<1> DEFINE m == SignalMutex
           added == add_one_mutex(ls, m)
<1> USE MaxLocksAssumption
<1> m \in Value
  BY DEF Value
<1>1. ls2 = remove_one_mutex(added, m)
  BY DEF LockUnlock
<1> HIDE DEF m
<1>2. added \in WideLockset /\ added.created
  <2>1. CASE ls.overflow
    BY <2>1, Narrow DEF add_one_mutex
  <2>2. CASE ~ls.overflow
    <3>1. Increment(ls) \in WideLockset /\ Increment(ls).created /\ Increment(ls).n > 0
      BY IncrementFields DEF LOCKSET
    <3>2. Store(Increment(ls), m) \in WideLockset /\ Store(Increment(ls), m).created
      BY <3>1, StoreFields, Zenon
    <3> QED
      BY <2>2, <3>2, MarkFullFields DEF add_one_mutex
  <2> QED
    BY <2>1, <2>2
<1>3. ~ls.overflow => /\ added.n = ls.n + 1
                      /\ added.lockset_ = [ls.lockset_ EXCEPT ![ls.n] = m]
  BY IncrementFields, StoreFields, MarkFullFields DEF add_one_mutex, LOCKSET
<1>4. ls.overflow => added = ls
  BY DEF add_one_mutex
<1> HIDE DEF added
<1> DEFINE k == Find(added, m)
<1>5. added.n \in Nat
  BY <1>2 DEF WideLockset
<1>6. CASE k = -1
  <2>1. ls2 = added
    BY <1>1, <1>6 DEF remove_one_mutex
  <2>2. \A i \in 0..(added.n - 1) : added.lockset_[i] # m
    BY <1>5, <1>6, FindFinds
  <2>3. ls.overflow
    <3> SUFFICES ASSUME ~ls.overflow PROVE FALSE
      BY DEF LOCKSET
    <3> QED
      BY <1>3, <2>2 DEF LOCKSET
  <2> QED
    BY <1>4, <2>1, <2>2, <2>3 DEF m
<1>7. CASE k # -1
  <2> DEFINE p == [i |-> k, lock_count |-> added.n]
  <2>1. k \in 0..(added.n - 1) /\ added.lockset_[k] = m
    BY <1>5, <1>7, FindFinds
  <2>2. ls2 = ClearFull(MoveLast(Decrement(added), p))
    BY <1>1, <1>7 DEF remove_one_mutex
  <2> HIDE DEF k
  <2>3. /\ Decrement(added) \in LOCKSET
        /\ Decrement(added).n = added.n - 1
        /\ Decrement(added).created
        /\ Decrement(added).lockset_ = added.lockset_
    BY <1>2, <2>1, DecrementFields DEF WideLockset
  <2>4. p.i = k /\ p.lock_count = added.n /\ p.i \in 0..MaxLocks /\ p.lock_count \in 1..(MaxLocks + 1)
    BY <1>2, <2>1 DEF WideLockset
  <2> HIDE DEF p
  <2>5. /\ ls2 \in LOCKSET
        /\ ls2.n = added.n - 1
        /\ ls2.created
        /\ ~ls2.overflow
        /\ ls2.lockset_ = [added.lockset_ EXCEPT ![k] = added.lockset_[added.n - 1]]
    <3> DEFINE moved == MoveLast(Decrement(added), p)
    <3> DEFINE less == Decrement(added)
    <3> HIDE DEF less
    <3>1. /\ moved \in LOCKSET
          /\ moved.n = less.n
          /\ moved.created = less.created
          /\ moved.lockset_ = [less.lockset_ EXCEPT ![p.i] = less.lockset_[p.lock_count - 1]]
      BY <2>3, <2>4, MoveLastFields, ZenonT(30) DEF less
    <3>2. /\ moved.n = added.n - 1
          /\ moved.created
          /\ moved.lockset_ = [added.lockset_ EXCEPT ![k] = added.lockset_[added.n - 1]]
      BY <2>3, <2>4, <3>1 DEF less
    <3> HIDE DEF moved
    <3> QED
      BY <2>2, <3>1, <3>2, ClearFullFields, ZenonT(30) DEF moved
  <2>6. CASE ls.overflow
    BY <1>4, <2>1, <2>5, <2>6 DEF m
  <2>7. CASE ~ls.overflow
    <3>1. [added.lockset_ EXCEPT ![k] = added.lockset_[added.n - 1]] = added.lockset_
      BY <1>3, <2>1, <2>7 DEF LOCKSET
    <3> QED
      BY <1>3, <2>5, <2>7, <3>1 DEF LOCKSET, m
  <2> QED
    BY <2>6, <2>7
<1> QED
  BY <1>6, <1>7

-----------------------------------------------------------------------------
(* The handler anywhere *)

\* All about thread u that the invariants speak of, other than the phase, stays.
Keeps(u) ==
  /\ lockset'[u] = lockset[u] /\ pc'[u] = pc[u] /\ arg'[u] = arg[u]
  /\ place'[u] = place[u] /\ attach'[u] = attach[u] /\ missed'[u] = missed[u]
  /\ \A m \in Lockable : owner'[m] = u <=> owner[m] = u

\* A thread's LOCKSET is its own: a step of one thread, its wrappers and its handler
\* included, changes nothing of another.
LEMMA OtherThreads ==
  ASSUME TypeOK, NEW t \in Thread, NEW u \in Thread, u # t, ThreadStep(t)
  PROVE  Keeps(u) /\ phase' = phase
<1> USE ThreadAssumption DEF TypeOK, Keeps, Goto, Return, SetLockset
<1>1. ASSUME NEW m \in Mutex, LockCall(t, m) \/ TryLock(t, m) \/ Release(t, m) \/ CondWait(t, m)
      PROVE  Keeps(u) /\ phase' = phase
  BY <1>1 DEF LockCall, TryLock, Release, CondWait, BeginLock, BeginRelease, Lockable
<1>2. CASE AddBegin(t) \/ AddCreate(t) \/ AddIncrement(t) \/ AddStore(t) \/ AddMarkFull(t)
  BY <1>2, Zenon DEF AddBegin, AddCreate, AddIncrement, AddStore, AddMarkFull
<1>3. CASE Acquire(t) \/ CondReturn(t)
  BY <1>3 DEF Acquire, CondReturn
<1>4. CASE CheckEnable(t) \/ RemoveCreate(t) \/ RemoveDecrement(t) \/ RemoveMove(t)
           \/ RemoveClearFull(t)
  BY <1>4, Zenon DEF CheckEnable, RemoveCreate, RemoveDecrement, RemoveMove, RemoveClearFull
<1>5. CASE RemoveFind(t)
  BY <1>5 DEF RemoveFind
<1>6. CASE SignalHandler(t) \/ StartFunc(t) \/ SelfStart(t)
  BY <1>6 DEF SignalHandler, StartFunc, SelfStart
<1>7. CASE AttachLock(t) \/ AttachUnlock(t)
  BY <1>7 DEF AttachLock, AttachUnlock, BeginLock, BeginRelease, Lockable
<1> QED
  BY <1>1, <1>2, <1>3, <1>4, <1>5, <1>6, <1>7, Zenon DEF ThreadStep

\* Init of Lockset: every thread is outside the wrappers with an empty LOCKSET.
LEMMA InitHandlerInv == Init => HandlerInv
<1> SUFFICES ASSUME Init PROVE HandlerInv
  OBVIOUS
<1> USE MaxLocksAssumption, MutexAssumption, ThreadAssumption DEF Init
<1>1. TypeOK
  <2>1. Fresh(FALSE) \in LOCKSET
    BY FreshLockset, Zenon
  <2> QED
    BY <2>1, NoPlaceType, Zenon DEF TypeOK
<1>2. ASSUME NEW t \in Thread PROVE Shape(t) /\ Attachment(t)
  BY DEF Shape, Attachment, Attaching, HeldAll, Fresh, Lockable
<1> QED
  BY <1>1, <1>2 DEF HandlerInv

\* Every step keeps n within the array, the places of remove_one_mutex within the
\* used part and the rest of the state in its types, the handler coming anywhere.
LEMMA TypeStep ==
  ASSUME HandlerInv, [Next]_vars
  PROVE  TypeOK'
<1>1. CASE UNCHANGED vars
  BY <1>1 DEF HandlerInv, TypeOK, vars
<1>2. CASE ChangePhase
  BY <1>2 DEF HandlerInv, TypeOK, ChangePhase
<1>3. ASSUME NEW t \in Thread, ThreadStep(t)
      PROVE  TypeOK'
  <2> TypeOK /\ Shape(t) /\ Attachment(t)
    BY DEF HandlerInv
  <2> USE NoPlaceType DEF TypeOK, Goto, Return, SetLockset
  <2> lockset[t] \in LOCKSET /\ lockset[t].n \in 0..MaxLocks
    BY DEF LOCKSET
  <2>1. ASSUME NEW m \in Mutex, LockCall(t, m) \/ TryLock(t, m) \/ Release(t, m) \/ CondWait(t, m)
        PROVE  TypeOK'
    <3> m \in Lockable
      BY DEF Lockable
    <3>1. CASE LockCall(t, m)
      BY <3>1 DEF LockCall, BeginLock
    <3>2. CASE TryLock(t, m)
      BY <3>2 DEF TryLock
    <3>3. CASE Release(t, m)
      BY <3>3 DEF Release, BeginRelease
    <3>4. CASE CondWait(t, m)
      BY <3>4 DEF CondWait
    <3> QED
      BY <2>1, <3>1, <3>2, <3>3, <3>4
  <2>2. CASE AddBegin(t)
    BY <2>2, MutexAssumption DEF AddBegin, Shape
  <2>3. CASE AddCreate(t) \/ RemoveCreate(t)
    <3>1. Fresh(TRUE) \in LOCKSET
      BY FreshLockset, Zenon
    <3> QED
      BY <2>3, <3>1, Zenon DEF AddCreate, RemoveCreate
  <2>4. CASE AddIncrement(t)
    <3>1. Increment(lockset[t]) \in LOCKSET
      BY <2>4, MaxLocksAssumption, IncrementFields, Narrow DEF AddIncrement, Shape
    <3> QED
      BY <2>4, <3>1, Zenon DEF AddIncrement
  <2>5. CASE AddStore(t)
    <3>1. Store(lockset[t], arg[t]) \in LOCKSET
      BY <2>5, StoreFields, Narrow, ZenonT(30) DEF AddStore, Shape, Value
    <3> QED
      BY <2>5, <3>1 DEF AddStore
  <2>6. CASE AddMarkFull(t)
    <3>1. MarkFull(lockset[t]) \in LOCKSET
      BY MarkFullFields, Narrow
    <3> QED
      BY <2>6, <3>1 DEF AddMarkFull
  <2>7. CASE Acquire(t) \/ CondReturn(t)
    BY <2>7 DEF Acquire, CondReturn, Shape
  <2>8. CASE CheckEnable(t)
    BY <2>8 DEF CheckEnable
  <2>9. CASE RemoveFind(t)
    <3> DEFINE k == Find(lockset[t], arg[t])
    <3>1. k # -1 => k \in 0..(lockset[t].n - 1)
      BY FindFinds
    <3> HIDE DEF k
    <3>2. k # -1 => [i |-> k, lock_count |-> lockset[t].n] \in Place
      BY <3>1, MaxLocksAssumption DEF Place
    <3> QED
      BY <2>9, <3>2 DEF RemoveFind, k
  <2>10. CASE RemoveDecrement(t)
    <3>1. Decrement(lockset[t]) \in LOCKSET
      BY <2>10, DecrementFields, Narrow DEF RemoveDecrement, Shape
    <3> QED
      BY <2>10, <3>1, Zenon DEF RemoveDecrement
  <2>11. CASE RemoveMove(t)
    <3>1. MoveLast(lockset[t], place[t]) \in LOCKSET
      <4>1. place[t].i \in 0..MaxLocks /\ place[t].lock_count \in 1..(MaxLocks + 1)
        BY <2>11, MaxLocksAssumption DEF RemoveMove, Shape, Place
      <4> QED
        BY <4>1, MoveLastFields, Zenon
    <3> QED
      BY <2>11, <3>1 DEF RemoveMove
  <2>12. CASE RemoveClearFull(t)
    <3>1. ClearFull(lockset[t]) \in LOCKSET
      BY ClearFullFields, Zenon
    <3> QED
      BY <2>12, <3>1 DEF RemoveClearFull
  <2>13. CASE SignalHandler(t)
    <3>1. LockUnlock(lockset[t]) \in LOCKSET
      BY <2>13, HandlerEffect, Zenon DEF SignalHandler, Attachment
    <3> QED
      BY <2>13, <3>1 DEF SignalHandler
  <2>14. CASE StartFunc(t) \/ SelfStart(t)
    BY <2>14 DEF StartFunc, SelfStart
  <2>15. CASE AttachLock(t) \/ AttachUnlock(t)
    <3> tid_fd_map_mutex \in Lockable
      BY DEF Lockable
    <3> QED
      BY <2>15 DEF AttachLock, AttachUnlock, BeginLock, BeginRelease
  <2> HIDE DEF TypeOK
  <2> QED
    BY <1>3, <2>1, <2>2, <2>3, <2>4, <2>5, <2>6, <2>7, <2>8, <2>9, <2>10, <2>11, <2>12,
       <2>13, <2>14, <2>15, Zenon DEF ThreadStep
<1> QED
  BY <1>1, <1>2, <1>3 DEF Next

\* The wrappers of a thread keep Shape, and so does its handler between any two of
\* their steps.
LEMMA ShapeStep ==
  ASSUME HandlerInv, NEW t \in Thread, ThreadStep(t)
  PROVE  Shape(t)'
<1> DEFINE ls == lockset[t]
           ls2 == lockset'[t]
<1> TypeOK /\ Attachment(t)
  BY DEF HandlerInv
<1> Shape(t)
  BY DEF HandlerInv
<1>t. ls \in LOCKSET
  BY DEF TypeOK
<1>0. ls.n \in Nat /\ ls.n <= MaxLocks /\ MaxLocks \in Nat /\ MaxLocks > 0
  BY <1>t, MaxLocksAssumption DEF LOCKSET
<1>b. ls.overflow \in BOOLEAN /\ ls.created \in BOOLEAN
  BY <1>t DEF LOCKSET
<1>1. ASSUME NEW m \in Mutex, LockCall(t, m) \/ TryLock(t, m) \/ Release(t, m) \/ CondWait(t, m)
      PROVE  Shape(t)'
  <2>1. /\ pc[t] = "user" /\ pc'[t] \in {"user", "add", "released", "waiting"}
        /\ ls2 = ls
        /\ arg'[t] = IF pc'[t] = "user" THEN arg[t] ELSE m
    BY <1>1 DEF LockCall, TryLock, Release, CondWait, BeginLock, BeginRelease, UserCode, TypeOK, Goto
  <2> QED
    BY <2>1, <1>0, <1>b, Zenon DEF Shape, Lockable
<1>2. CASE AddBegin(t)
  <2>1. /\ pc[t] = "add" /\ ls2 = ls /\ arg'[t] = arg[t]
        /\ pc'[t] \in {"add_create", "acquire", "add_n"}
        /\ pc'[t] = "acquire" => ls.created
        /\ pc'[t] = "add_create" => ~ls.created
        /\ pc'[t] = "add_n" => ls.created /\ ~ls.overflow
    BY <1>2 DEF AddBegin, TypeOK, Goto
  <2>2. pc'[t] = "add_n" => ls.n # MaxLocks
    BY <2>1 DEF Shape
  <2>3. pc'[t] = "add_n" => ls.n < MaxLocks
    BY <2>2, <1>0
  <2> QED
    BY <2>1, <2>3, <1>b, Zenon DEF Shape
<1>3. CASE AddCreate(t) \/ RemoveCreate(t)
  <2>1. Fresh(TRUE).created /\ ~Fresh(TRUE).overflow /\ Fresh(TRUE).n = 0
    BY DEF Fresh
  <2>2. /\ pc[t] \in {"add_create", "remove"} /\ pc'[t] \in {"add", "remove"}
        /\ ls2 = Fresh(TRUE) /\ arg'[t] = arg[t]
    BY <1>3, Zenon DEF AddCreate, RemoveCreate, TypeOK, Goto, SetLockset
  <2>3. 0 # MaxLocks
    BY <1>0
  <2> QED
    BY <2>1, <2>2, <2>3, Zenon DEF Shape
<1>4. CASE AddIncrement(t)
  <2>1. pc[t] = "add_n" /\ pc'[t] = "add_store" /\ arg'[t] = arg[t] /\ ls2 = Increment(ls)
    BY <1>4 DEF AddIncrement, TypeOK, Goto, SetLockset
  <2>2. ls2.created = ls.created /\ ls2.n = ls.n + 1 /\ ls2.overflow = ls.overflow
    BY <2>1, IncrementFields, <1>t, <1>0, Zenon
  <2>3. ls.n # MaxLocks /\ ls2.n > 0
    BY <2>1, <2>2, <1>0 DEF Shape
  <2> QED
    BY <2>1, <2>2, <2>3, <1>b, Zenon DEF Shape
<1>5. CASE AddStore(t)
  <2>1. pc[t] = "add_store" /\ pc'[t] = "add_full" /\ arg'[t] = arg[t] /\ ls2 = Store(ls, arg[t])
    BY <1>5, Zenon DEF AddStore, TypeOK, Goto, SetLockset
  <2>2. ls.n > 0 /\ arg[t] \in Value
    BY <2>1 DEF Shape, Value
  <2>3. /\ ls2.created = ls.created /\ ls2.n = ls.n /\ ls2.overflow = ls.overflow
        /\ ls2.lockset_[ls.n - 1] = arg[t]
    <3>1. ls \in WideLockset
      BY <1>t, Narrow
    <3>2. ls2.lockset_ = [ls.lockset_ EXCEPT ![ls.n - 1] = arg[t]] /\ ls.n - 1 \in 0..MaxLocks
      BY <2>1, <2>2, <3>1, <1>0, StoreFields
    <3>3. ls2.lockset_[ls.n - 1] = arg[t]
      BY <3>1, <3>2, Zenon DEF WideLockset
    <3> QED
      BY <2>1, <2>2, <3>1, <3>3, StoreFields, ZenonT(30)
  <2> QED
    BY <2>1, <2>2, <2>3, ZenonT(40) DEF Shape
<1>6. CASE AddMarkFull(t)
  <2>1. pc[t] = "add_full" /\ pc'[t] = "acquire" /\ arg'[t] = arg[t] /\ ls2 = MarkFull(ls)
    BY <1>6 DEF AddMarkFull, TypeOK, Goto, SetLockset
  <2>2. ls2.created = ls.created /\ ls2.n = ls.n /\ (ls2.overflow <=> ls.overflow \/ ls.n = MaxLocks)
    BY <2>1, MarkFullFields, Narrow, <1>t
  <2> QED
    BY <2>1, <2>2, Zenon DEF Shape
<1>7. CASE Acquire(t) \/ CondReturn(t) \/ CheckEnable(t)
  <2>1. /\ pc[t] \in {"acquire", "waiting", "released"} /\ pc'[t] \in {"user", "remove"}
        /\ ls2 = ls
        /\ arg'[t] = IF pc'[t] = "user" THEN NoMutex ELSE arg[t]
    BY <1>7 DEF Acquire, CondReturn, CheckEnable, Return, TypeOK, Goto
  <2> QED
    BY <2>1, <1>0, <1>b, Zenon DEF Shape
<1>8. CASE RemoveFind(t)
  <2> DEFINE k == Find(ls, arg[t])
  <2>1. k # -1 => k \in 0..(ls.n - 1) /\ ls.lockset_[k] = arg[t]
    BY FindFinds, <1>t, <1>0
  <2>2. k # -1 => place'[t].lock_count = ls.n /\ pc'[t] = "remove_n" /\ arg'[t] = arg[t]
    BY <1>8 DEF RemoveFind, TypeOK, Goto
  <2>3. k = -1 => pc'[t] = "user" /\ arg'[t] = NoMutex
    BY <1>8 DEF RemoveFind, TypeOK, Return, Goto
  <2>4. ls2 = ls /\ pc[t] = "remove" /\ ls.created
    BY <1>8 DEF RemoveFind, Return, Goto
  <2> HIDE DEF k
  <2>5. CASE k = -1
    BY <2>3, <2>4, <2>5, <1>0, <1>b, Zenon DEF Shape
  <2>6. CASE k # -1
    <3>1. place'[t].lock_count > 0
      BY <2>1, <2>2, <2>6, <1>0
    <3> QED
      BY <2>1, <2>2, <2>4, <2>6, <3>1, Zenon DEF Shape
  <2> QED
    BY <2>5, <2>6
<1>9. CASE RemoveDecrement(t)
  <2>1. /\ pc[t] = "remove_n" /\ pc'[t] = "remove_move" /\ arg'[t] = arg[t]
        /\ place'[t] = place[t] /\ ls2 = Decrement(ls)
    BY <1>9, Zenon DEF RemoveDecrement, TypeOK, Goto, SetLockset
  <2>2. \E i \in 0..(ls.n - 1) : ls.lockset_[i] = arg[t]
    BY <2>1 DEF Shape
  <2>3. ls.n > 0
    BY <2>2, <1>0
  <2>4. ls2.created = ls.created /\ ls2.n = ls.n - 1
    BY <2>1, <2>3, DecrementFields, Narrow, <1>t, Zenon
  <2>5. ls2.n < MaxLocks
    BY <2>4, <1>0
  <2> QED
    BY <2>1, <2>4, <2>5, Zenon DEF Shape
<1>10. CASE RemoveMove(t)
  <2>1. /\ pc[t] = "remove_move" /\ pc'[t] = "remove_full" /\ arg'[t] = arg[t]
        /\ ls2 = MoveLast(ls, place[t])
    BY <1>10, Zenon DEF RemoveMove, TypeOK, Goto, SetLockset
  <2>2. place[t].i \in 0..MaxLocks /\ place[t].lock_count \in 1..(MaxLocks + 1)
    BY <2>1, <1>0, <1>b DEF Shape, TypeOK, Place
  <2>3. ls2.created = ls.created /\ ls2.n = ls.n
    <3>1. /\ MoveLast(ls, place[t]).n = ls.n
          /\ MoveLast(ls, place[t]).created = ls.created
      BY <2>2, MoveLastFields, <1>t, Zenon
    <3> QED
      BY <2>1, <3>1
  <2> QED
    BY <2>1, <2>3, Zenon DEF Shape
<1>11. CASE RemoveClearFull(t)
  <2>1. pc[t] = "remove_full" /\ pc'[t] = "user" /\ arg'[t] = NoMutex /\ ls2 = ClearFull(ls)
    BY <1>11 DEF RemoveClearFull, Return, TypeOK, Goto, SetLockset
  <2>2. ls2.created = ls.created /\ ls2.n = ls.n /\ ~ls2.overflow
    BY <2>1, ClearFullFields, <1>t, Zenon
  <2>3. ls.n # MaxLocks
    BY <2>1, <1>0 DEF Shape
  <2> QED
    BY <2>1, <2>2, <2>3, Zenon DEF Shape
<1>13. CASE StartFunc(t) \/ SelfStart(t)
  BY <1>13, ZenonT(30) DEF StartFunc, SelfStart, Shape
<1>14. CASE AttachLock(t) \/ AttachUnlock(t)
  <2>1. /\ pc[t] = "user" /\ pc'[t] \in {"add", "released"}
        /\ ls2 = ls /\ arg'[t] = tid_fd_map_mutex
    BY <1>14 DEF AttachLock, AttachUnlock, BeginLock, BeginRelease, TypeOK, Goto
  <2> QED
    BY <2>1, <1>0, <1>b, Zenon DEF Shape, Lockable
<1>12. CASE SignalHandler(t)
  <2>1. /\ pc' = pc /\ arg' = arg /\ place' = place
        /\ ls2 = LockUnlock(ls) /\ ls.created
    BY <1>12 DEF SignalHandler, Attachment, SetLockset, TypeOK
  <2>2. ls2 \in LOCKSET /\ ls2.created
    BY <2>1, HandlerEffect, <1>t, <1>0, ZenonT(40)
  <2>3. CASE ~ls.overflow
    <3>1. /\ ls2.n = ls.n /\ ~ls2.overflow
          /\ ls2.lockset_ = [ls.lockset_ EXCEPT ![ls.n] = SignalMutex]
      BY <2>1, <2>3, HandlerEffect, <1>t, <1>0, Zenon
    <3>2. \A i \in 0..(ls.n - 1) : ls2.lockset_[i] = ls.lockset_[i]
      BY <3>1
    <3> QED
      BY <2>1, <2>2, <2>3, <3>1, <3>2, <1>0, <1>b DEF Shape
  <2>4. CASE ls2 = ls
    BY <2>1, <2>4, ZenonT(40) DEF Shape
  <2>5. CASE ls.overflow /\ ls2 # ls
    <3>1. PICK k \in 0..(ls.n - 1) :
            /\ ls.lockset_[k] = SignalMutex
            /\ ls2.n = ls.n - 1
            /\ ~ls2.overflow
            /\ ls2.lockset_ = [ls.lockset_ EXCEPT ![k] = ls.lockset_[ls.n - 1]]
      BY <2>1, <2>5, HandlerEffect, <1>t, <1>0, Zenon
    <3>2. ASSUME pc[t] = "remove_n"
          PROVE  \E i \in 0..(ls2.n - 1) : ls2.lockset_[i] = arg[t]
      <4>1. PICK i \in 0..(ls.n - 1) : ls.lockset_[i] = arg[t]
        BY <3>2, Zenon DEF Shape
      <4>2. k # i
        BY <3>1, <3>2, <4>1, MutexAssumption, Zenon DEF Shape, Lockable
      <4>3. CASE i = ls.n - 1
        BY <3>1, <4>1, <4>2, <4>3, <1>0, <1>t DEF LOCKSET
      <4>4. CASE i # ls.n - 1
        <5>1. i \in 0..(ls2.n - 1)
          BY <3>1, <4>1, <4>4, <1>0, NotTheLast, Zenon
        <5>2. ls.lockset_ \in [0..MaxLocks -> Value] /\ i \in 0..MaxLocks
          BY <4>1, <1>0, <1>t DEF LOCKSET
        <5> QED
          BY <3>1, <4>1, <4>2, <5>1, <5>2, Zenon
      <4> QED
        BY <4>3, <4>4
    <3> QED
      BY <2>1, <2>2, <2>5, <3>1, <3>2, <1>0, <1>b DEF Shape
  <2> QED
    BY <2>3, <2>4, <2>5
<1> QED
  BY <1>1, <1>2, <1>3, <1>4, <1>5, <1>6, <1>7, <1>8, <1>9, <1>10, <1>11, <1>12, <1>13, <1>14, Zenon
     DEF ThreadStep

\* The attachment of a thread (pmu_profiler_perthread_attach) goes through its stages
\* in order: nothing of the program runs before it, and the lock of tid_fd_map_mutex
\* creates the LOCKSET before pfm_self_start.
LEMMA AttachmentStep ==
  ASSUME HandlerInv, NEW t \in Thread, ThreadStep(t)
  PROVE  Attachment(t)'
<1> TypeOK /\ Shape(t)
  BY DEF HandlerInv
<1> Attachment(t)
  BY DEF HandlerInv
<1> USE ThreadAssumption, MutexAssumption DEF TypeOK, Goto, Return, SetLockset, Attaching, HeldAll
<1> tid_fd_map_mutex \in Lockable
  BY DEF Lockable
<1>1. ASSUME NEW m \in Mutex, LockCall(t, m) \/ TryLock(t, m) \/ Release(t, m) \/ CondWait(t, m)
      PROVE  Attachment(t)'
  <2> m \in Lockable /\ m # tid_fd_map_mutex
    BY DEF Lockable
  <2> QED
    BY <1>1, Zenon DEF LockCall, TryLock, Release, CondWait, BeginLock, BeginRelease, UserCode, Attachment
<1>2. CASE AddBegin(t)
  BY <1>2, Zenon DEF AddBegin, Attachment
<1>3. CASE AddCreate(t) \/ RemoveCreate(t)
  <2>1. Fresh(TRUE).created
    BY DEF Fresh
  <2> QED
    BY <1>3, <2>1, Zenon DEF AddCreate, RemoveCreate, Attachment
<1>4. CASE AddIncrement(t) \/ AddStore(t) \/ AddMarkFull(t)
  <2>1. lockset'[t].created
    BY <1>4, ShapeStep, Zenon DEF AddIncrement, AddStore, AddMarkFull, Shape
  <2> QED
    BY <1>4, <2>1, Zenon DEF AddIncrement, AddStore, AddMarkFull, Attachment
<1>5. CASE Acquire(t) \/ CondReturn(t)
  BY <1>5, ZenonT(30) DEF Acquire, CondReturn, Shape, Attachment
<1>6. CASE CheckEnable(t) \/ RemoveFind(t)
  BY <1>6, ZenonT(30) DEF CheckEnable, RemoveFind, Attachment
<1>7. CASE RemoveDecrement(t) \/ RemoveMove(t)
  <2>1. lockset'[t].created
    BY <1>7, ShapeStep, ZenonT(40) DEF RemoveDecrement, RemoveMove, Shape
  <2> QED
    BY <1>7, <2>1, Zenon DEF RemoveDecrement, RemoveMove, Attachment
<1>8. CASE RemoveClearFull(t)
  <2>1. ClearFull(lockset[t]).created = lockset[t].created
    BY ClearFullFields, Zenon
  <2> QED
    BY <1>8, <2>1, Zenon DEF RemoveClearFull, Attachment
<1>9. CASE SignalHandler(t)
  <2>1. LockUnlock(lockset[t]).created
    BY <1>9, HandlerEffect, Zenon DEF SignalHandler, Attachment
  <2> QED
    BY <1>9, <2>1 DEF SignalHandler, Attachment
<1>10. CASE StartFunc(t) \/ SelfStart(t)
  <2>1. CASE StartFunc(t)
    BY <2>1, Zenon DEF StartFunc, racez_enable, Attachment
  <2>2. CASE SelfStart(t)
    <3>1. arg[t] # tid_fd_map_mutex
      BY <2>2, Zenon DEF SelfStart, Shape
    <3> QED
      BY <2>2, <3>1, Zenon DEF SelfStart, MayStart, Attachment
  <2> QED
    BY <1>10, <2>1, <2>2, Zenon
<1>11. CASE AttachLock(t) \/ AttachUnlock(t)
  <2>1. CASE AttachLock(t)
    BY <2>1, Zenon DEF AttachLock, BeginLock, Attachment
  <2>2. CASE AttachUnlock(t)
    BY <2>2 DEF AttachUnlock, BeginRelease, Attachment
  <2> QED
    BY <1>11, <2>1, <2>2
<1> HIDE DEF TypeOK
<1> QED
  BY <1>1, <1>2, <1>3, <1>4, <1>5, <1>6, <1>7, <1>8, <1>9, <1>10, <1>11 DEF ThreadStep

\* Every step keeps the invariant, wherever the handler comes.
LEMMA StepHandlerInv == HandlerInv /\ [Next]_vars => HandlerInv'
<1> SUFFICES ASSUME HandlerInv, [Next]_vars PROVE HandlerInv'
  OBVIOUS
<1>1. TypeOK'
  BY TypeStep
<1>2. ASSUME NEW u \in Thread PROVE Shape(u)' /\ Attachment(u)'
  <2> TypeOK /\ Shape(u) /\ Attachment(u)
    BY DEF HandlerInv
  <2>1. CASE UNCHANGED vars
    BY <2>1, ZenonT(30) DEF vars, Shape, Attachment, Attaching, HeldAll
  <2>2. CASE ChangePhase
    BY <2>2, ZenonT(30) DEF ChangePhase, Shape, Attachment, Attaching, HeldAll
  <2>3. CASE ThreadStep(u)
    BY <2>3, ShapeStep, AttachmentStep
  <2>4. ASSUME NEW t \in Thread, t # u, ThreadStep(t) PROVE Shape(u)' /\ Attachment(u)'
    <3>1. Keeps(u) /\ phase' = phase
      BY <2>4, OtherThreads
    <3>2. Shape(u)'
      BY <3>1, ZenonT(30) DEF Keeps, Shape
    <3>3. HeldAll(u)' = HeldAll(u)
      BY <3>1, Zenon DEF Keeps, HeldAll
    <3>4. owner'[tid_fd_map_mutex] = u <=> owner[tid_fd_map_mutex] = u
      BY <3>1 DEF Keeps, Lockable
    <3>5. Attachment(u)'
      BY <3>1, <3>3, <3>4, Zenon DEF Keeps, Attachment, Attaching
    <3> QED
      BY <3>2, <3>5
  <2> QED
    BY <2>1, <2>2, <2>3, <2>4 DEF Next
<1> QED
  BY <1>1, <1>2 DEF HandlerInv

\* HandlerInv holds in every state of Lockset, with the stack trace on or off.
THEOREM HandlerInvariant == Spec => []HandlerInv
BY InitHandlerInv, StepHandlerInv, PTL DEF Spec

\* The LOCKSETs, the owners and the wrappers' locals keep their types: n stays between
\* 0 and the length of the array with add_one_mutex, remove_one_mutex and the handler
\* interleaved in any way.
THEOREM TypeCorrect == Spec => []TypeOK
<1>1. HandlerInv => TypeOK
  BY DEF HandlerInv
<1> QED
  BY <1>1, HandlerInvariant, PTL

\* overflow goes with a full array whenever no wrapper is in the middle of its update
\* (racez_mutex.cc:41-43, 68-69), the handler coming anywhere.
THEOREM OverflowIsFull == Spec => []OverflowMeansFull
<1>1. HandlerInv => OverflowMeansFull
  BY Zenon DEF HandlerInv, Shape, OverflowMeansFull
<1> QED
  BY <1>1, HandlerInvariant, PTL

\* Incrementing n before the store makes add_one_mutex land (racez_mutex.cc:37),
\* whatever handlers interrupt it.
THEOREM AddAlwaysLands == Spec => []AddLands
<1>1. HandlerInv => AddLands
  BY Zenon DEF HandlerInv, Shape, AddLands
<1> QED
  BY <1>1, HandlerInvariant, PTL

\* A thread that the handler can interrupt has its LOCKSET: SetPerThreadLockset is not
\* called in a handler (racez_lockset.cc:26).
THEOREM LocksetBeforeHandler == Spec => []HandlerFindsLockset
<1>1. HandlerInv => HandlerFindsLockset
  BY Zenon DEF HandlerInv, Attachment, HandlerFindsLockset
<1> QED
  BY <1>1, HandlerInvariant, PTL

\* A handler leaves the length, the flag and the used part alone (racez_mutex.cc:38),
\* unless its own mutex is in the used part other than by the store to come.
THEOREM HandlerIsTransparent == Spec => HandlerTransparent
<1>1. ASSUME HandlerInv, NEW t \in Thread
      PROVE  LeavesUsedPart(t)
  <2> DEFINE ls == lockset[t]
             ls2 == lockset'[t]
  <2> SUFFICES ASSUME SignalHandler(t), SignalMutex \in Recorded(t) => pc[t] = "add_store"
               PROVE  /\ ls2.n = ls.n
                      /\ ls2.overflow = ls.overflow
                      /\ \A i \in 0..(ls.n - 1) : ls2.lockset_[i] = ls.lockset_[i]
    BY DEF LeavesUsedPart
  <2>1. ls \in LOCKSET /\ ls.created /\ ls2 = LockUnlock(ls)
    BY <1>1, Zenon DEF HandlerInv, TypeOK, Attachment, SignalHandler, SetLockset
  <2>2. CASE ~ls.overflow
    <3>1. ls2.n = ls.n /\ ~ls2.overflow /\ ls2.lockset_ = [ls.lockset_ EXCEPT ![ls.n] = SignalMutex]
      BY <2>1, <2>2, HandlerEffect
    <3>2. ls2 \in LOCKSET
      BY <2>1, HandlerEffect, Zenon
    <3>3. ls2.overflow = ls.overflow
      BY <2>1, <2>2, <3>1, <3>2, Zenon DEF LOCKSET
    <3>4. \A i \in 0..(ls.n - 1) : ls2.lockset_[i] = ls.lockset_[i]
      BY <2>1, <3>1, MaxLocksAssumption DEF LOCKSET
    <3> QED
      BY <3>1, <3>3, <3>4, Zenon
  <2>3. CASE ls.overflow
    <3>1. pc[t] # "add_store"
      BY <1>1, <2>3, Zenon DEF HandlerInv, Shape
    <3>2. \A i \in 0..(ls.n - 1) : ls.lockset_[i] # SignalMutex
      BY <3>1 DEF Recorded
    <3>3. \/ ls2 = ls
          \/ \E k \in 0..(ls.n - 1) :
               /\ ls.lockset_[k] = SignalMutex
               /\ ls2.n = ls.n - 1
               /\ ~ls2.overflow
               /\ ls2.lockset_ = [ls.lockset_ EXCEPT ![k] = ls.lockset_[ls.n - 1]]
      BY <2>1, <2>3, HandlerEffect, ZenonT(30)
    <3>4. ls2 = ls
      BY <3>2, <3>3, Zenon
    <3> QED
      BY <3>4
  <2> QED
    BY <2>2, <2>3
<1>2. HandlerInv => [\A t \in Thread : LeavesUsedPart(t)]_vars
  BY <1>1
<1> QED
  BY <1>2, HandlerInvariant, PTL DEF HandlerTransparent

\* A handler writes behind the array (racez_mutex.cc:39) only when it meets
\* add_one_mutex of the last element with the flag still to be set.
THEOREM HandlerWritesInside == Spec => HandlerStaysInside
<1>1. ASSUME HandlerInv, NEW t \in Thread
      PROVE  WritesBehindAtLastAdd(t)
  <2> DEFINE ls == lockset[t]
             ls2 == lockset'[t]
  <2> SUFFICES ASSUME SignalHandler(t), ls2.lockset_[MaxLocks] # ls.lockset_[MaxLocks]
               PROVE  pc[t] \in {"add_store", "add_full"} /\ ls.n = MaxLocks
    BY DEF WritesBehindAtLastAdd
  <2>1. ls \in LOCKSET /\ ls.created /\ ls2 = LockUnlock(ls)
    BY <1>1, ZenonT(40) DEF HandlerInv, TypeOK, Attachment, SignalHandler, SetLockset
  <2>2. ls.n \in 0..MaxLocks /\ ls.lockset_ \in [0..MaxLocks -> Value]
    BY <2>1 DEF LOCKSET
  <2>3. CASE ~ls.overflow
    <3>1. ls2.lockset_ = [ls.lockset_ EXCEPT ![ls.n] = SignalMutex]
      BY <2>1, <2>3, HandlerEffect
    <3>2. ls.n = MaxLocks
      BY <2>2, <3>1, MaxLocksAssumption
    <3>3. Shape(t)
      BY <1>1 DEF HandlerInv
    <3>4. ~(ls.n < MaxLocks)
      BY <3>2, MaxLocksAssumption
    <3>5. pc[t] \in {"add_store", "add_full"}
      BY <2>3, <3>2, <3>3, <3>4, Zenon DEF Shape
    <3> QED
      BY <3>2, <3>5
  <2>4. CASE ls.overflow
    <3>0. ls2 # ls
      OBVIOUS
    <3>1. PICK k \in 0..(ls.n - 1) :
            /\ ls.lockset_[k] = SignalMutex
            /\ ls2.n = ls.n - 1
            /\ ~ls2.overflow
            /\ ls2.lockset_ = [ls.lockset_ EXCEPT ![k] = ls.lockset_[ls.n - 1]]
      BY <2>1, <2>4, <3>0, HandlerEffect, ZenonT(30)
    <3> QED
      BY <2>2, <3>1, MaxLocksAssumption
  <2> QED
    BY <2>3, <2>4, Zenon
<1>2. HandlerInv => [\A t \in Thread : WritesBehindAtLastAdd(t)]_vars
  BY <1>1
<1> QED
  BY <1>2, HandlerInvariant, PTL DEF HandlerStaysInside

-----------------------------------------------------------------------------
(* No handler interferes *)

\* add_one_mutex enters a mutex behind the others.
LEMMA ListsAppend ==
  ASSUME NEW ls, NEW ls2, NEW k \in 0..MaxLocks, NEW S, NEW m,
         ls.lockset_ \in [0..MaxLocks -> Value], Lists(ls, k, S), m \notin S,
         ls2.lockset_ = [ls.lockset_ EXCEPT ![k] = m]
  PROVE  Lists(ls2, k + 1, S \cup {m})
<1> USE MaxLocksAssumption
<1>1. ls2.lockset_[k] = m /\ \A i \in 0..(k - 1) : ls2.lockset_[i] = ls.lockset_[i] /\ i # k
  OBVIOUS
<1>2. \A i \in 0..(k - 1) : ls.lockset_[i] \in S
  BY DEF Lists
<1>3. S \cup {m} = {ls2.lockset_[i] : i \in 0..k}
  <2>1. \A x \in S : \E i \in 0..k : x = ls2.lockset_[i]
    BY <1>1 DEF Lists
  <2>2. \A i \in 0..k : ls2.lockset_[i] \in S \cup {m}
    BY <1>1, <1>2
  <2>3. m = ls2.lockset_[k] /\ k \in 0..k
    BY <1>1
  <2> QED
    BY <2>1, <2>2, <2>3
<1>4. \A i, j \in 0..k : ls2.lockset_[i] = ls2.lockset_[j] => i = j
  BY <1>1, <1>2 DEF Lists
<1>5. k + 1 - 1 = k
  OBVIOUS
<1>6. S \cup {m} = {ls2.lockset_[i] : i \in 0..(k + 1 - 1)}
  BY <1>3, <1>5
<1>7. \A i, j \in 0..(k + 1 - 1) : ls2.lockset_[i] = ls2.lockset_[j] => i = j
  BY <1>4, <1>5, Zenon
<1> QED
  BY <1>6, <1>7 DEF Lists

\* remove_one_mutex moves the last one into the gap.
LEMMA ListsMove ==
  ASSUME NEW ls, NEW ls2, NEW k \in 1..MaxLocks, NEW S, NEW m, NEW p \in 0..(k - 1),
         ls.lockset_ \in [0..MaxLocks -> Value], Lists(ls, k, S \cup {m}), m \notin S,
         ls.lockset_[p] = m,
         ls2.lockset_ = [ls.lockset_ EXCEPT ![p] = ls.lockset_[k - 1]]
  PROVE  Lists(ls2, k - 1, S)
<1> USE MaxLocksAssumption
<1>1. /\ ls2.lockset_[p] = ls.lockset_[k - 1]
      /\ \A i \in 0..(k - 1) : i # p => ls2.lockset_[i] = ls.lockset_[i]
  OBVIOUS
<1>2. \A i \in 0..(k - 1) : /\ ls.lockset_[i] \in S \cup {m}
                            /\ ls.lockset_[i] = m => i = p
  BY DEF Lists
<1>3. \A i \in 0..(k - 1) : i # p => ls.lockset_[i] \in S
  BY <1>2
<1>4. \A i \in 0..(k - 2) : ls2.lockset_[i] \in S
  BY <1>1, <1>3
<1>5. ASSUME NEW x \in S PROVE \E i \in 0..(k - 2) : x = ls2.lockset_[i]
  <2>1. PICK i \in 0..(k - 1) : x = ls.lockset_[i]
    BY DEF Lists
  <2>2. i # p
    BY <2>1, Zenon
  <2>3. CASE i = k - 1
    BY <1>1, <2>1, <2>2, <2>3
  <2>4. CASE i # k - 1
    BY <1>1, <2>1, <2>2, <2>4
  <2> QED
    BY <2>3, <2>4
<1>6. S = {ls2.lockset_[i] : i \in 0..(k - 2)}
  BY <1>4, <1>5
<1>7. ASSUME NEW i \in 0..(k - 2), NEW j \in 0..(k - 2), ls2.lockset_[i] = ls2.lockset_[j]
      PROVE  i = j
  BY <1>1, <1>7 DEF Lists
<1>8. 0..(k - 1 - 1) = 0..(k - 2)
  OBVIOUS
<1> QED
  BY <1>6, <1>7, <1>8, Zenon DEF Lists

\* Only the array counts.
LEMMA ListsSame ==
  ASSUME NEW ls, NEW ls2, NEW k, NEW S, ls2.lockset_ = ls.lockset_, Lists(ls, k, S)
  PROVE  Lists(ls2, k, S)
BY DEF Lists

\* Without the handler's lock, nothing is written behind the array.
LEMMA BoundsStep ==
  ASSUME HandlerInv, ~racez_stacktrace, [Next]_vars, ArrayInBounds
  PROVE  ArrayInBounds'
<1> TypeOK
  BY DEF HandlerInv
<1> SUFFICES ASSUME NEW u \in Thread
             PROVE  lockset'[u].lockset_[MaxLocks] = NoMutex
  BY DEF ArrayInBounds
<1> lockset[u].lockset_[MaxLocks] = NoMutex
  BY DEF ArrayInBounds
<1>1. CASE lockset'[u] = lockset[u]
  BY <1>1, Zenon
<1>2. ASSUME NEW t \in Thread, ThreadStep(t), lockset'[u] # lockset[u]
      PROVE  lockset'[u].lockset_[MaxLocks] = NoMutex
  <2>1. t = u
    BY <1>2, OtherThreads DEF Keeps
  <2> DEFINE ls == lockset[u]
             ls2 == lockset'[u]
  <2>2. Shape(u) /\ ls \in LOCKSET
    BY Zenon DEF HandlerInv, TypeOK
  <2>3. CASE AddCreate(u) \/ RemoveCreate(u)
    <3>1. ls2 = Fresh(TRUE)
      BY <2>3, Zenon DEF AddCreate, RemoveCreate, SetLockset, TypeOK
    <3> QED
      BY <3>1, MaxLocksAssumption DEF Fresh
  <2>4. CASE AddIncrement(u)
    <3>1. ls2 = Increment(ls)
      BY <2>4, Zenon DEF AddIncrement, SetLockset, TypeOK
    <3> QED
      BY <2>2, <3>1, IncrementFields, Zenon
  <2>5. CASE AddStore(u)
    <3>1. ls2 = Store(ls, arg[u]) /\ pc[u] = "add_store"
      BY <2>5, Zenon DEF AddStore, SetLockset, Goto, TypeOK
    <3>2. ls \in WideLockset /\ ls.n > 0 /\ arg[u] \in Value
      BY <2>2, <3>1, Narrow, Zenon DEF Shape, Value
    <3>3. ls2.lockset_ = [ls.lockset_ EXCEPT ![ls.n - 1] = arg[u]]
      BY <3>1, <3>2, StoreFields
    <3> QED
      BY <2>2, <3>2, <3>3, MaxLocksAssumption DEF LOCKSET
  <2>6. CASE AddMarkFull(u)
    <3>1. ls2 = MarkFull(ls) /\ ls \in WideLockset
      BY <2>2, <2>6, Narrow, Zenon DEF AddMarkFull, SetLockset, TypeOK
    <3> QED
      BY <3>1, MarkFullFields, Zenon
  <2>7. CASE RemoveDecrement(u)
    <3>1. ls2 = Decrement(ls) /\ pc[u] = "remove_n"
      BY <2>7, Zenon DEF RemoveDecrement, SetLockset, Goto, TypeOK
    <3>2. \E i \in 0..(ls.n - 1) : ls.lockset_[i] = arg[u]
      BY <2>2, <3>1 DEF Shape
    <3>3. ls \in WideLockset /\ ls.n > 0
      BY <2>2, <3>2, Narrow DEF LOCKSET
    <3> QED
      BY <3>1, <3>3, DecrementFields, Zenon
  <2>8. CASE RemoveMove(u)
    <3>1. ls2 = MoveLast(ls, place[u]) /\ pc[u] = "remove_move"
      BY <2>8, Zenon DEF RemoveMove, SetLockset, Goto, TypeOK
    <3>2. /\ place[u].i \in 0..MaxLocks /\ place[u].i # MaxLocks
          /\ place[u].lock_count \in 1..(MaxLocks + 1)
      BY <2>2, <3>1, MaxLocksAssumption DEF Shape, TypeOK, Place
    <3>3. ls2.lockset_ = [ls.lockset_ EXCEPT ![place[u].i] = ls.lockset_[place[u].lock_count - 1]]
      <4>1. MoveLast(ls, place[u]).lockset_ =
              [ls.lockset_ EXCEPT ![place[u].i] = ls.lockset_[place[u].lock_count - 1]]
        BY <2>2, <3>2, MoveLastFields, Zenon
      <4> QED
        BY <3>1, <4>1
    <3> QED
      BY <2>2, <3>2, <3>3, MaxLocksAssumption DEF LOCKSET
  <2>9. CASE RemoveClearFull(u)
    <3>1. ls2 = ClearFull(ls)
      BY <2>9 DEF RemoveClearFull, SetLockset, TypeOK
    <3> QED
      BY <2>2, <3>1, ClearFullFields, Zenon
  <2>10. CASE lockset' = lockset \/ SignalHandler(u)
    BY <1>2, <2>10 DEF SignalHandler
  <2> QED
    <3>1. \/ AddCreate(u) \/ RemoveCreate(u) \/ AddIncrement(u) \/ AddStore(u) \/ AddMarkFull(u)
          \/ RemoveDecrement(u) \/ RemoveMove(u) \/ RemoveClearFull(u) \/ SignalHandler(u)
          \/ lockset' = lockset
      BY <1>2, <2>1, Zenon DEF ThreadStep, LockCall, TryLock, Release, CondWait, BeginLock, BeginRelease,
         AddBegin, Acquire, CheckEnable, RemoveFind, CondReturn, StartFunc, AttachLock,
         AttachUnlock, SelfStart
    <3> QED
      BY <3>1, <2>3, <2>4, <2>5, <2>6, <2>7, <2>8, <2>9, <2>10
<1> QED
  BY <1>1, <1>2 DEF Next, vars, ChangePhase

\* A mutex leaves what a thread holds, and the history of what was missed with it:
\* the array is what it was before the unlock, one mutex too many or exact already.
LEMMA ExactRelease ==
  ASSUME HandlerInv, NEW t \in Thread, Exact(t), NEW m \in Lockable, BeginRelease(t, m)
  PROVE  Exact(t)'
<1> TypeOK /\ Shape(t)
  BY DEF HandlerInv
<1> DEFINE ls == lockset[t]
           kept == HeldAll(t) \ missed[t]
           kept2 == HeldAll(t)' \ missed'[t]
<1>1. /\ pc[t] = "user" /\ pc'[t] = "released" /\ arg'[t] = m /\ lockset'[t] = ls
      /\ missed'[t] = missed[t] \ {m} /\ m \in HeldAll(t) /\ m \notin HeldAll(t)'
      /\ HeldAll(t)' = HeldAll(t) \ {m}
  BY ThreadAssumption DEF BeginRelease, Goto, TypeOK, HeldAll
<1>2. Lists(ls, ls.n, kept)
  BY <1>1, Zenon DEF Exact
<1>3. kept = kept2 \/ kept = kept2 \cup {m}
  BY <1>1, Zenon
<1>4. Lists(ls, ls.n, kept2) \/ Lists(ls, ls.n, kept2 \cup {m})
  BY <1>2, <1>3, Zenon
<1>5. missed'[t] \ {arg'[t]} \subseteq HeldAll(t)' /\ arg'[t] \notin missed'[t]
  <2>1. arg[t] \notin missed[t]
    BY <1>1, Zenon DEF Exact
  <2>2. missed[t] \subseteq HeldAll(t)
    BY <2>1, Zenon DEF Exact
  <2> QED
    BY <1>1, <2>2
<1> QED
  BY <1>1, <1>4, <1>5, Zenon DEF Exact

\* A mutex is entered into what a thread holds when real_pthread_mutex_lock or
\* pthread_cond_wait returns; the array has it already.
LEMMA ExactAcquire ==
  ASSUME HandlerInv, NEW t \in Thread, Exact(t), Acquire(t) \/ CondReturn(t)
  PROVE  Exact(t)'
<1> TypeOK /\ Shape(t)
  BY DEF HandlerInv
<1> DEFINE ls == lockset[t]
           kept == HeldAll(t) \ missed[t]
           kept2 == HeldAll(t)' \ missed'[t]
<1>1. /\ pc[t] \in {"acquire", "waiting"} /\ pc'[t] = "user" /\ arg'[t] = NoMutex
      /\ lockset'[t] = ls /\ missed'[t] = missed[t] /\ arg[t] \in Lockable
    BY Zenon DEF Acquire, CondReturn, Return, Goto, TypeOK, Shape
<1>2. HeldAll(t)' = HeldAll(t) \cup {arg[t]}
  BY <1>1, ThreadAssumption, Zenon DEF Acquire, CondReturn, TypeOK, HeldAll
<1>3. Lists(ls, ls.n, IF arg[t] \in missed[t] THEN kept ELSE kept \cup {arg[t]})
  BY <1>1, Zenon DEF Exact
<1>4. kept2 = IF arg[t] \in missed[t] THEN kept ELSE kept \cup {arg[t]}
  <2>1. arg[t] \notin HeldAll(t)
    BY <1>1, ZenonT(40) DEF Exact
  <2> QED
    BY <1>1, <1>2, <2>1, Zenon
<1>5. missed'[t] \subseteq HeldAll(t)' /\ NoMutex \notin missed'[t]
  <2>1. missed[t] \ {arg[t]} \subseteq HeldAll(t)
    BY Zenon DEF Exact
  <2> QED
    BY <1>1, <1>2, <2>1, MutexAssumption DEF TypeOK, Lockable
<1> QED
  BY <1>1, <1>3, <1>4, <1>5, Zenon DEF Exact

\* The calls a thread makes from outside the wrappers.
LEMMA ExactCall ==
  ASSUME HandlerInv, NEW t \in Thread, Exact(t), NEW m \in Lockable,
         (BeginLock(t, m) /\ owner[m] # t) \/ TryLock(t, m) \/ CondWait(t, m)
  PROVE  Exact(t)'
<1> TypeOK /\ Shape(t)
  BY DEF HandlerInv
<1> DEFINE ls == lockset[t]
           kept == HeldAll(t) \ missed[t]
           kept2 == HeldAll(t)' \ missed'[t]
<1>1. pc[t] = "user" /\ arg[t] = NoMutex /\ lockset'[t] = ls
  BY Zenon DEF BeginLock, TryLock, CondWait, UserCode, Goto, TypeOK, Shape
<1>2. Lists(ls, ls.n, kept)
  BY <1>1, Zenon DEF Exact
<1>3. missed[t] \subseteq HeldAll(t)
  BY <1>1, Zenon DEF Exact
<1>4. CASE BeginLock(t, m) /\ owner[m] # t
  <2>1. /\ pc'[t] = "add" /\ arg'[t] = m /\ missed'[t] = missed[t]
        /\ HeldAll(t)' = HeldAll(t) /\ m \notin HeldAll(t)
    BY <1>4 DEF BeginLock, Goto, TypeOK, HeldAll
  <2> QED
    BY <1>1, <1>2, <1>3, <2>1, Zenon DEF Exact
<1>5. CASE TryLock(t, m)
  <2>1. /\ pc'[t] = "user" /\ arg'[t] = NoMutex /\ missed'[t] = missed[t] \cup {m}
        /\ HeldAll(t)' = HeldAll(t) \cup {m} /\ m \notin HeldAll(t)
    BY <1>1, <1>5, ThreadAssumption DEF TryLock, TypeOK, HeldAll
  <2>2. kept2 = kept
    BY <2>1, Zenon
  <2>3. NoMutex \notin missed'[t]
    <3>1. missed[t] \subseteq Lockable /\ NoMutex \notin Lockable
      BY MutexAssumption, Zenon DEF TypeOK, Lockable
    <3> QED
      BY <2>1, <3>1, Zenon
  <2> QED
    BY <1>1, <1>2, <1>3, <2>1, <2>2, <2>3, Zenon DEF Exact
<1>6. CASE CondWait(t, m)
  <2>1. /\ pc'[t] = "waiting" /\ arg'[t] = m /\ missed'[t] = missed[t] /\ m \in HeldAll(t)
        /\ HeldAll(t)' = HeldAll(t) \ {m} /\ m \notin HeldAll(t)'
    BY <1>6, ThreadAssumption DEF CondWait, Goto, TypeOK, HeldAll
  <2>2. kept = IF m \in missed'[t] THEN kept2 ELSE kept2 \cup {m}
    BY <2>1, Zenon
  <2> QED
    BY <1>1, <1>2, <1>3, <2>1, <2>2, Zenon DEF Exact
<1> QED
  BY <1>4, <1>5, <1>6

\* add_one_mutex.
LEMMA ExactAdd ==
  ASSUME HandlerInv, NEW t \in Thread, Exact(t),
         AddBegin(t) \/ AddCreate(t) \/ AddIncrement(t) \/ AddStore(t) \/ AddMarkFull(t)
  PROVE  Exact(t)'
<1> TypeOK /\ Shape(t)
  BY DEF HandlerInv
<1> DEFINE ls == lockset[t]
           ls2 == lockset'[t]
           kept == HeldAll(t) \ missed[t]
<1>1. /\ ls \in LOCKSET /\ ls.n \in 0..MaxLocks /\ ls.lockset_ \in [0..MaxLocks -> Value]
      /\ arg'[t] = arg[t] /\ place'[t] = place[t] /\ HeldAll(t)' = HeldAll(t)
  BY Zenon DEF AddBegin, AddCreate, AddIncrement, AddStore, AddMarkFull, TypeOK, LOCKSET, HeldAll
<1>0. ls.n \in Int /\ ls.n \in Nat /\ ls \in WideLockset
  BY <1>1, MaxLocksAssumption, Narrow
<1>2. pc[t] \in {"add", "add_create", "add_n", "add_store", "add_full"} /\ arg[t] \in Lockable
  BY Zenon DEF AddBegin, AddCreate, AddIncrement, AddStore, AddMarkFull, TypeOK, Goto, Shape
<1>3. /\ arg[t] \notin HeldAll(t) /\ arg[t] \notin missed[t]
      /\ missed[t] \ {arg[t]} \subseteq HeldAll(t)
  BY <1>2, Zenon DEF Exact
<1>4. CASE AddBegin(t)
  <2>1. /\ pc[t] = "add" /\ pc'[t] \in {"add_create", "add_n", "acquire"} /\ ls2 = ls
        /\ missed'[t] = IF pc'[t] = "acquire" THEN missed[t] \cup {arg[t]} ELSE missed[t]
    BY <1>4 DEF AddBegin, TypeOK, Goto
  <2>2. Lists(ls, ls.n, kept)
    BY <2>1, Zenon DEF Exact
  <2>3. kept = HeldAll(t) \ missed'[t]
    BY <1>3, <2>1, Zenon
  <2> QED
    BY <1>1, <1>3, <2>1, <2>2, <2>3, ZenonT(30) DEF Exact
<1>5. CASE AddCreate(t)
  <2>1. /\ pc[t] = "add_create" /\ pc'[t] = "add" /\ ls2 = Fresh(TRUE) /\ missed'[t] = missed[t]
    BY <1>5 DEF AddCreate, TypeOK, Goto, SetLockset
  <2>2. Lists(ls, ls.n, kept) /\ ls = Fresh(FALSE)
    BY <2>1, Zenon DEF Exact, Shape
  <2>3. ls.n = 0 /\ ls2.n = 0 /\ ls2.lockset_ = ls.lockset_
    BY <2>1, <2>2, FreshFields, Zenon
  <2>4. Lists(ls2, ls2.n, kept)
    BY <2>2, <2>3, ListsSame, Zenon
  <2> QED
    BY <1>1, <1>3, <2>1, <2>4, Zenon DEF Exact
<1>6. CASE AddIncrement(t)
  <2>1. /\ pc[t] = "add_n" /\ pc'[t] = "add_store" /\ ls2 = Increment(ls) /\ missed'[t] = missed[t]
    BY <1>6 DEF AddIncrement, TypeOK, Goto, SetLockset
  <2>2. Lists(ls, ls.n, kept)
    BY <2>1, Zenon DEF Exact
  <2>3. ls2.n = ls.n + 1 /\ ls2.lockset_ = ls.lockset_
    BY <1>1, <2>1, IncrementFields, Zenon
  <2>4. ls2.n - 1 = ls.n
    BY <1>0, <2>3
  <2>5. Lists(ls2, ls2.n - 1, kept)
    BY <2>2, <2>3, <2>4, ListsSame
  <2> QED
    BY <1>1, <1>3, <2>1, <2>5, Zenon DEF Exact
<1>7. CASE AddStore(t)
  <2>1. /\ pc[t] = "add_store" /\ pc'[t] = "add_full" /\ ls2 = Store(ls, arg[t])
        /\ missed'[t] = missed[t]
    BY <1>7 DEF AddStore, TypeOK, Goto, SetLockset
  <2>2. Lists(ls, ls.n - 1, kept)
    BY <2>1, Zenon DEF Exact
  <2>3. ls \in WideLockset /\ ls.n > 0 /\ arg[t] \in Value
    BY <1>0, <1>2, <2>1, Zenon DEF Shape, Value
  <2>4. ls2.n = ls.n /\ ls2.lockset_ = [ls.lockset_ EXCEPT ![ls.n - 1] = arg[t]]
    BY <2>1, <2>3, StoreFields, ZenonT(30)
  <2>5. ls.n - 1 \in 0..MaxLocks /\ ls.n - 1 + 1 = ls.n
    BY <1>1, <2>3, LastCell, ZenonT(40)
  <2>6. Lists(ls2, ls.n - 1 + 1, kept \cup {arg[t]})
    BY <1>1, <1>3, <2>2, <2>4, <2>5, ListsAppend, Zenon
  <2> QED
    BY <1>1, <1>3, <2>1, <2>4, <2>5, <2>6, ZenonT(30) DEF Exact
<1>8. CASE AddMarkFull(t)
  <2>1. /\ pc[t] = "add_full" /\ pc'[t] = "acquire" /\ ls2 = MarkFull(ls) /\ missed'[t] = missed[t]
    BY <1>8 DEF AddMarkFull, TypeOK, Goto, SetLockset
  <2>2. Lists(ls, ls.n, kept \cup {arg[t]})
    BY <2>1, Zenon DEF Exact
  <2>3. ls2.n = ls.n /\ ls2.lockset_ = ls.lockset_
    BY <1>1, <2>1, MarkFullFields, Narrow
  <2>4. Lists(ls2, ls2.n, kept \cup {arg[t]})
    BY <2>2, <2>3, ListsSame, Zenon
  <2> QED
    BY <1>1, <1>3, <2>1, <2>4, Zenon DEF Exact
<1> QED
  BY <1>4, <1>5, <1>6, <1>7, <1>8

\* The unlock with racez_enable set, and remove_one_mutex.
LEMMA ExactRemove ==
  ASSUME HandlerInv, NEW t \in Thread, Exact(t), racez_enable,
         \/ CheckEnable(t) \/ RemoveCreate(t) \/ RemoveFind(t)
         \/ RemoveDecrement(t) \/ RemoveMove(t) \/ RemoveClearFull(t)
  PROVE  Exact(t)'
<1> TypeOK /\ Shape(t)
  BY DEF HandlerInv
<1> DEFINE ls == lockset[t]
           ls2 == lockset'[t]
           kept == HeldAll(t) \ missed[t]
<1>1. /\ ls \in LOCKSET /\ ls.n \in 0..MaxLocks /\ ls.lockset_ \in [0..MaxLocks -> Value]
      /\ HeldAll(t)' = HeldAll(t) /\ missed'[t] = missed[t]
  BY Zenon DEF CheckEnable, RemoveCreate, RemoveFind, RemoveDecrement, RemoveMove, RemoveClearFull,
         TypeOK, LOCKSET, HeldAll
<1>0. ls.n \in Int /\ ls.n \in Nat /\ ls \in WideLockset
  BY <1>1, IndexIsNatural, Narrow, Zenon
<1>2. pc[t] \in {"released", "remove", "remove_n", "remove_move", "remove_full"}
  BY Zenon DEF CheckEnable, RemoveCreate, RemoveFind, RemoveDecrement, RemoveMove, RemoveClearFull,
         TypeOK, Goto, Return
<1>3. /\ arg[t] \notin HeldAll(t) /\ arg[t] \notin missed[t]
      /\ missed[t] \ {arg[t]} \subseteq HeldAll(t)
  BY <1>2, Zenon DEF Exact
<1>4. NoMutex \notin missed[t]
  BY MutexAssumption DEF TypeOK, Lockable
<1>5. CASE CheckEnable(t)
  <2>1. /\ pc[t] = "released" /\ pc'[t] = "remove" /\ arg'[t] = arg[t] /\ ls2 = ls
    BY <1>5 DEF CheckEnable, SkipsRemove, TypeOK, Goto
  <2> QED
    BY <1>1, <1>3, <2>1, Zenon DEF Exact
<1>6. CASE RemoveCreate(t)
  <2>1. /\ pc[t] = "remove" /\ pc'[t] = "remove" /\ arg'[t] = arg[t]
        /\ ls2 = Fresh(TRUE) /\ ls = Fresh(FALSE)
    BY <1>6, Zenon DEF RemoveCreate, SetLockset, TypeOK, Shape
  <2>2. ls.n = 0 /\ ls2.n = 0 /\ ls2.lockset_ = ls.lockset_
    BY <2>1, FreshFields, Zenon
  <2>3. Lists(ls, ls.n, kept) \/ Lists(ls, ls.n, kept \cup {arg[t]})
    BY <2>1, Zenon DEF Exact
  <2>4. Lists(ls2, ls2.n, kept) \/ Lists(ls2, ls2.n, kept \cup {arg[t]})
    BY <2>2, <2>3, ListsSame, Zenon
  <2> QED
    BY <1>1, <1>3, <2>1, <2>4, Zenon DEF Exact
<1>7. CASE RemoveFind(t)
  <2> DEFINE k == Find(ls, arg[t])
  <2>1. pc[t] = "remove" /\ ls2 = ls
    BY <1>7 DEF RemoveFind, TypeOK, Goto, Return
  <2>2. Lists(ls, ls.n, kept) \/ Lists(ls, ls.n, kept \cup {arg[t]})
    BY <2>1, Zenon DEF Exact
  <2>3. CASE k = -1
    <3>1. pc'[t] = "user" /\ arg'[t] = NoMutex
      BY <1>7, <2>3 DEF RemoveFind, TypeOK, Goto, Return
    <3>2. \A i \in 0..(ls.n - 1) : ls.lockset_[i] # arg[t]
      BY <1>0, <2>3, FindFinds, Zenon
    <3>3. Lists(ls, ls.n, kept)
      BY <2>2, <3>2, Zenon DEF Lists
    <3> QED
      BY <1>1, <1>3, <1>4, <2>1, <3>1, <3>3, Zenon DEF Exact
  <2>4. CASE k # -1
    <3>1. /\ pc'[t] = "remove_n" /\ arg'[t] = arg[t]
          /\ place'[t].i = k /\ place'[t].lock_count = ls.n
      BY <1>7, <2>4 DEF RemoveFind, TypeOK, Goto
    <3>2. k \in 0..(ls.n - 1) /\ ls.lockset_[k] = arg[t]
      BY <1>0, <2>4, FindFinds, Zenon
    <3>3. ~Lists(ls, ls.n, kept)
      BY <1>3, <3>2, Zenon DEF Lists
    <3>4. k < ls.n
      BY <1>0, <3>2
    <3> HIDE DEF k
    <3> QED
      BY <1>1, <1>3, <2>1, <2>2, <3>1, <3>2, <3>3, <3>4, Zenon DEF Exact
  <2> QED
    BY <2>3, <2>4, Zenon
<1>8. CASE RemoveDecrement(t)
  <2>1. /\ pc[t] = "remove_n" /\ pc'[t] = "remove_move" /\ arg'[t] = arg[t]
        /\ place'[t] = place[t] /\ ls2 = Decrement(ls)
    BY <1>8 DEF RemoveDecrement, TypeOK, Goto, SetLockset
  <2>2. \E i \in 0..(ls.n - 1) : ls.lockset_[i] = arg[t]
    BY <2>1, Zenon DEF Shape
  <2>3. ls2.n = ls.n - 1 /\ ls2.lockset_ = ls.lockset_
    <3>1. ls.n > 0
      BY <1>0, <2>2, CellInUse, Zenon
    <3> QED
      BY <1>0, <2>1, <3>1, DecrementFields, Zenon
  <2>4. /\ place[t].lock_count = ls.n /\ Lists(ls, ls.n, kept \cup {arg[t]})
        /\ place[t].i < place[t].lock_count /\ ls.lockset_[place[t].i] = arg[t]
    BY <2>1, Zenon DEF Exact
  <2>5. Lists(ls2, place[t].lock_count, kept \cup {arg[t]})
    BY <2>3, <2>4, ListsSame, Zenon
  <2>6. place[t].lock_count = ls2.n + 1
    BY <1>0, <2>3, <2>4, CountAfter, Zenon
  <2> QED
    BY <1>1, <1>3, <2>1, <2>3, <2>4, <2>5, <2>6, Zenon DEF Exact
<1>9. CASE RemoveMove(t)
  <2> DEFINE p == place[t]
  <2>1. /\ pc[t] = "remove_move" /\ pc'[t] = "remove_full" /\ arg'[t] = arg[t]
        /\ ls2 = MoveLast(ls, p)
    BY <1>9 DEF RemoveMove, TypeOK, Goto, SetLockset
  <2>2. /\ p.lock_count = ls.n + 1 /\ Lists(ls, p.lock_count, kept \cup {arg[t]})
        /\ p.i < p.lock_count /\ ls.lockset_[p.i] = arg[t]
    BY <2>1, Zenon DEF Exact
  <2>3. p.i \in 0..MaxLocks /\ p.lock_count \in 1..MaxLocks /\ p.lock_count \in 1..(MaxLocks + 1)
    <3>1. p \in Place /\ p.lock_count > 0
      BY <2>1, Zenon DEF Shape, TypeOK
    <3> HIDE DEF p
    <3> QED
      BY <3>1, PlaceFields, Zenon
  <2>4. /\ MoveLast(ls, p).n = ls.n
        /\ MoveLast(ls, p).lockset_ = [ls.lockset_ EXCEPT ![p.i] = ls.lockset_[p.lock_count - 1]]
    BY <1>1, <2>3, MoveLastFields, Zenon
  <2>5. p.i \in 0..(p.lock_count - 1) /\ p.lock_count - 1 = ls.n
    BY <1>0, <2>2, <2>3, CountBefore, Zenon
  <2>6. Lists(ls2, p.lock_count - 1, kept)
    BY <1>1, <1>3, <2>1, <2>2, <2>3, <2>4, <2>5, ListsMove, ZenonT(30)
  <2> QED
    BY <1>1, <1>3, <2>1, <2>4, <2>5, <2>6, ZenonT(30) DEF Exact
<1>10. CASE RemoveClearFull(t)
  <2>1. pc[t] = "remove_full" /\ pc'[t] = "user" /\ arg'[t] = NoMutex /\ ls2 = ClearFull(ls)
    BY <1>10 DEF RemoveClearFull, TypeOK, Goto, Return, SetLockset
  <2>2. Lists(ls, ls.n, kept)
    BY <2>1, Zenon DEF Exact
  <2>3. ls2.n = ls.n /\ ls2.lockset_ = ls.lockset_
    BY <1>1, <2>1, ClearFullFields, Zenon
  <2>4. Lists(ls2, ls2.n, kept)
    BY <2>2, <2>3, ListsSame, Zenon
  <2> QED
    BY <1>1, <1>3, <1>4, <2>1, <2>4, Zenon DEF Exact
<1> QED
  BY <1>5, <1>6, <1>7, <1>8, <1>9, <1>10

\* While racez is on and no handler interferes, each step of a thread that is
\* attaching or attached keeps its array exact.
LEMMA ExactStep ==
  ASSUME HandlerInv, ~racez_stacktrace, NEW t \in Thread, ThreadStep(t), racez_enable,
         Attaching(t) => Exact(t), Attaching(t)'
  PROVE  Exact(t)'
<1> TypeOK /\ Shape(t) /\ Attachment(t)
  BY DEF HandlerInv
<1>1. CASE ~Attaching(t)
  <2>1. StartFunc(t)
    BY <1>1, Zenon DEF ThreadStep, Attaching, LockCall, TryLock, Release, CondWait, AddBegin, AddCreate,
       AddIncrement, AddStore, AddMarkFull, Acquire, CheckEnable, RemoveCreate, RemoveFind,
       RemoveDecrement, RemoveMove, RemoveClearFull, CondReturn, SignalHandler, AttachLock,
       AttachUnlock, SelfStart, MayStart
  <2>2. /\ lockset[t] = Fresh(FALSE) /\ pc[t] = "user" /\ missed[t] = {} /\ HeldAll(t) = {}
        /\ lockset' = lockset /\ pc' = pc /\ missed' = missed /\ HeldAll(t)' = HeldAll(t)
    BY <2>1, Zenon DEF StartFunc, Attachment, HeldAll
  <2>3. Lists(Fresh(FALSE), 0, {}) /\ Fresh(FALSE).n = 0
    BY DEF Lists, Fresh
  <2> QED
    BY <2>2, <2>3, Zenon DEF Exact
<1>2. CASE Exact(t)
  <2>1. ASSUME NEW m \in Mutex, LockCall(t, m) \/ TryLock(t, m) \/ Release(t, m) \/ CondWait(t, m)
        PROVE  Exact(t)'
    <3>1. m \in Lockable
      BY DEF Lockable
    <3>2. CASE Release(t, m)
      BY <1>2, <3>1, <3>2, ExactRelease DEF Release
    <3> QED
      BY <1>2, <2>1, <3>1, <3>2, ExactCall DEF LockCall
  <2>2. CASE AddBegin(t) \/ AddCreate(t) \/ AddIncrement(t) \/ AddStore(t) \/ AddMarkFull(t)
    BY <1>2, <2>2, ExactAdd
  <2>3. CASE Acquire(t) \/ CondReturn(t)
    BY <1>2, <2>3, ExactAcquire
  <2>4. CASE \/ CheckEnable(t) \/ RemoveCreate(t) \/ RemoveFind(t)
             \/ RemoveDecrement(t) \/ RemoveMove(t) \/ RemoveClearFull(t)
    BY <1>2, <2>4, ExactRemove
  <2>5. CASE AttachLock(t)
    <3>1. tid_fd_map_mutex \in Lockable /\ owner[tid_fd_map_mutex] # t
      BY <2>5 DEF Lockable, Attachment, AttachLock
    <3> QED
      BY <1>2, <2>5, <3>1, ExactCall, Zenon DEF AttachLock
  <2>6. CASE AttachUnlock(t)
    <3>1. tid_fd_map_mutex \in Lockable
      BY DEF Lockable
    <3> QED
      BY <1>2, <2>6, <3>1, ExactRelease DEF AttachUnlock
  <2>7. CASE StartFunc(t) \/ SelfStart(t)
    <3>1. /\ pc' = pc /\ lockset' = lockset /\ arg' = arg /\ place' = place /\ missed' = missed
          /\ HeldAll(t)' = HeldAll(t)
      BY <2>7, Zenon DEF StartFunc, SelfStart, HeldAll
    <3> QED
      BY <1>2, <3>1, Zenon DEF Exact
  <2>8. ~SignalHandler(t)
    BY Zenon DEF SignalHandler
  <2> QED
    BY <2>1, <2>2, <2>3, <2>4, <2>5, <2>6, <2>7, <2>8, Zenon DEF ThreadStep
<1> QED
  BY <1>1, <1>2

\* Only racez_start and racez_stop change the phase.
LEMMA PhaseStays ==
  ASSUME NEW t \in Thread, ThreadStep(t)
  PROVE  phase' = phase
BY Zenon DEF ThreadStep, LockCall, TryLock, Release, CondWait, BeginLock, BeginRelease, AddBegin,
   AddCreate, AddIncrement, AddStore, AddMarkFull, Acquire, CheckEnable, RemoveCreate, RemoveFind,
   RemoveDecrement, RemoveMove, RemoveClearFull, CondReturn, SignalHandler, StartFunc,
   AttachLock, AttachUnlock, SelfStart

\* The two together are inductive when the stack trace is off.
LEMMA StepExactInv ==
  ~racez_stacktrace /\ HandlerInv /\ ExactInv /\ [Next]_vars => ExactInv'
<1> SUFFICES ASSUME ~racez_stacktrace, HandlerInv, ExactInv, [Next]_vars
             PROVE  ExactInv'
  OBVIOUS
<1>1. ArrayInBounds'
  BY BoundsStep DEF ExactInv
<1>2. ASSUME racez_enable', NEW u \in Thread, Attaching(u)'
      PROVE  Exact(u)'
  <2>0. TypeOK /\ Attachment(u)
    BY DEF HandlerInv
  <2>a. ASSUME Keeps(u), phase' = phase PROVE Exact(u)'
    <3>1. Exact(u)
      BY <1>2, <2>a DEF Keeps, ExactInv, racez_enable, Attaching
    <3>2. HeldAll(u)' = HeldAll(u)
      BY <2>a DEF Keeps, HeldAll
    <3> QED
      BY <2>a, <3>1, <3>2, Zenon DEF Keeps, Exact
  <2>1. CASE UNCHANGED vars
    BY <2>1, <2>a, Zenon DEF vars, Keeps
  <2>2. CASE ChangePhase
    <3>1. phase = "idle" /\ attach' = attach
      BY <1>2, <2>2 DEF ChangePhase, racez_enable
    <3> QED
      BY <1>2, <2>0, <3>1 DEF Attachment, Attaching
  <2>3. ASSUME NEW t \in Thread, t # u, ThreadStep(t) PROVE Exact(u)'
    BY <2>0, <2>3, <2>a, OtherThreads
  <2>4. CASE ThreadStep(u)
    <3>1. racez_enable
      BY <1>2, <2>4, PhaseStays DEF racez_enable
    <3>2. Attaching(u) => Exact(u)
      BY <3>1 DEF ExactInv
    <3> QED
      BY <1>2, <2>4, <3>1, <3>2, ExactStep
  <2> QED
    BY <2>1, <2>2, <2>3, <2>4 DEF Next
<1> QED
  BY <1>1, <1>2 DEF ExactInv

\* No mutex is held and no LOCKSET created yet.
LEMMA InitExactInv == Init => ExactInv
BY MaxLocksAssumption DEF Init, ExactInv, ArrayInBounds, Fresh, racez_enable

\* ExactInv holds in every state when the handler takes no lock of its own.
THEOREM ExactInvariant == ~racez_stacktrace => (Spec => []ExactInv)
<1> SUFFICES ASSUME ~racez_stacktrace PROVE Spec => []ExactInv
  OBVIOUS
<1>1. HandlerInv /\ ExactInv /\ [Next]_vars => ExactInv'
  BY StepExactInv
<1> QED
  BY <1>1, InitExactInv, HandlerInvariant, PTL DEF Spec

\* Nothing is written behind the array (racez_mutex.cc:39), when the handler takes no
\* lock of its own.
THEOREM NothingBehindArray == ~racez_stacktrace => (Spec => []ArrayInBounds)
<1> SUFFICES ASSUME ~racez_stacktrace PROVE Spec => []ArrayInBounds
  OBVIOUS
<1>1. ExactInv => ArrayInBounds
  BY Zenon DEF ExactInv
<1> QED
  BY <1>1, ExactInvariant, PTL

\* What a sample records, as a set of the program's mutexes.
LEMMA SampledExact ==
  ASSUME HandlerInv, ExactInv, NEW t \in Thread, Sampled(t)
  PROVE  /\ Lists(lockset[t], lockset[t].n, Held(t) \ missed[t])
         /\ lockset[t].n \in Nat
<1>1. Exact(t) /\ pc[t] = "user" /\ attach[t] = "attached"
  BY DEF Sampled, ExactInv, Attaching
<1>2. owner[tid_fd_map_mutex] # t /\ TypeOK
  BY <1>1, Zenon DEF HandlerInv, Attachment
<1>3. HeldAll(t) = Held(t)
  BY <1>2 DEF HeldAll, Held, Lockable
<1> QED
  BY <1>1, <1>2, <1>3 DEF Exact, TypeOK, LOCKSET

\* A sample of user code records exactly the mutexes its thread holds, less those the
\* runtime missed, each once, for every number of threads and mutexes and every length
\* of the array: add_one_mutex, remove_one_mutex, the late racez_start, the attachment
\* and pthread_cond_wait included.
THEOREM SamplesAreExact == ~racez_stacktrace => (Spec => []SampleExact)
<1> SUFFICES ASSUME ~racez_stacktrace PROVE Spec => []SampleExact
  OBVIOUS
<1>1. HandlerInv /\ ExactInv => SampleExact
  <2> SUFFICES ASSUME HandlerInv, ExactInv PROVE SampleExact
    OBVIOUS
  <2>1. ASSUME NEW t \in Thread, Sampled(t)
        PROVE  /\ Recorded(t) = Held(t) \ missed[t]
               /\ \A i, j \in 0..(lockset[t].n - 1) :
                    lockset[t].lockset_[i] = lockset[t].lockset_[j] => i = j
    <3>1. Lists(lockset[t], lockset[t].n, Held(t) \ missed[t])
      BY <2>1, SampledExact, Zenon
    <3> QED
      BY <3>1, Zenon DEF Lists, Recorded
  <2> QED
    BY <2>1, Zenon DEF SampleExact
<1> QED
  BY <1>1, HandlerInvariant, ExactInvariant, PTL

\* Two threads whose samples share a lock are not both in user code: the premise of
\* the offline detector, since a mutex has one owner.
THEOREM SharedLocksExclude == ~racez_stacktrace => (Spec => []SharedLockExcludes)
<1> SUFFICES ASSUME ~racez_stacktrace PROVE Spec => []SharedLockExcludes
  OBVIOUS
<1>1. HandlerInv /\ ExactInv => SharedLockExcludes
  <2> SUFFICES ASSUME HandlerInv, ExactInv, NEW t \in Thread, NEW u \in Thread,
                      t # u, Sampled(t), Sampled(u)
               PROVE  Recorded(t) \cap Recorded(u) = {}
    BY DEF SharedLockExcludes
  <2>1. Recorded(t) \subseteq Held(t) /\ Recorded(u) \subseteq Held(u)
    BY SampledExact, Zenon DEF Lists, Recorded
  <2> QED
    BY <2>1 DEF Held
<1> QED
  BY <1>1, HandlerInvariant, ExactInvariant, PTL
=============================================================================
