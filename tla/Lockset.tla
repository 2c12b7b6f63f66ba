------------------------------ MODULE Lockset ------------------------------
(***************************************************************************)
(* The per-thread lockset of the runtime: add_one_mutex and                *)
(* remove_one_mutex (racez_mutex.cc), the thread-specific LOCKSET          *)
(* (racez_lockset.cc) and the pthread_mutex_lock, pthread_mutex_unlock and *)
(* pthread_cond_wait wrappers that call them (racez_preload.c), and the    *)
(* attachment of a thread to the PMU, whose lock and unlock of             *)
(* tid_fd_map_mutex go through the wrappers too.                           *)
(*                                                                         *)
(* A LOCKSET is touched by its own thread only, but the SIGIO handler runs *)
(* in that thread, once it is attached, between any two steps of the       *)
(* wrappers.  The handler does not nest and its thread does nothing else   *)
(* meanwhile, so it is one step.                                           *)
(* A mutex is a model value, its address; mutexes are not recursive.        *)
(***************************************************************************)
EXTENDS Integers, FiniteSets

CONSTANTS Thread, Mutex,
          SignalMutex,       \* the mutex libunwind takes in the signal handler
          tid_fd_map_mutex,  \* the mutex of pmu_profiler_perthread_attach
          NoMutex,           \* what an array cell holds before it is written
          MaxLocks,          \* the length of lockset_[], 10 in the code
          racez_stacktrace,  \* the handler unwinds the stack, so it locks
          MaxUnattached      \* bound: threads that are never attached

ASSUME MaxLocksAssumption == MaxLocks \in Nat \ {0}
ASSUME BoundAssumption == MaxUnattached \in Nat
ASSUME FlagAssumption == racez_stacktrace \in BOOLEAN
ASSUME MutexAssumption ==
  /\ tid_fd_map_mutex \notin Mutex
  /\ SignalMutex \notin Mutex \cup {tid_fd_map_mutex}
  /\ NoMutex \notin Mutex \cup {tid_fd_map_mutex, SignalMutex}

NoThread == "none"
ASSUME ThreadAssumption == NoThread \notin Thread

Lockable == Mutex \cup {tid_fd_map_mutex}
Value == Lockable \cup {SignalMutex, NoMutex}

VARIABLES phase,    \* "idle", "on" from racez_start to racez_stop, "stopped"
          owner,    \* the thread holding a mutex
          lockset,  \* the LOCKSET of a thread
          pc,       \* where a thread is in the wrappers; "user" is outside
          arg,      \* the mutex the wrapper was called with
          place,    \* i and lock_count of remove_one_mutex
          attach,   \* how far a thread is with its attachment to the PMU
          missed    \* history: mutexes held but not entered into the lockset

vars == <<phase, owner, lockset, pc, arg, place, attach, missed>>

racez_enable == phase = "on"

\* The array has one cell more than the code's: the memory behind it.
LOCKSET == [created : BOOLEAN, n : 0..MaxLocks, overflow : BOOLEAN,
            lockset_ : [0..MaxLocks -> Value]]

Place == [i : 0..(MaxLocks - 1), lock_count : 0..MaxLocks]

Fresh(created) == [created |-> created, n |-> 0, overflow |-> FALSE,
                   lockset_ |-> [i \in 0..MaxLocks |-> NoMutex]]

-----------------------------------------------------------------------------
(* The steps of add_one_mutex and remove_one_mutex on a LOCKSET *)

Increment(ls) == [ls EXCEPT !.n = @ + 1]

\* Mutant: the mutex goes to lockset_[n], as if n had not been incremented yet.
StoreBehind(ls, m) == [ls EXCEPT !.lockset_[ls.n] = m]
Store(ls, m) == [ls EXCEPT !.lockset_[ls.n - 1] = m]

\* Mutant: the array is taken to be full one element late.
MarkFullLate(ls) == [ls EXCEPT !.overflow = @ \/ ls.n = MaxLocks + 1]
MarkFull(ls) == [ls EXCEPT !.overflow = @ \/ ls.n = MaxLocks]

\* Mutant: the scan stops before the last element.
FindShort(ls, m) ==
  LET places == {i \in 0..(ls.n - 2) : ls.lockset_[i] = m}
  IN  IF places = {} THEN -1 ELSE CHOOSE i \in places : \A j \in places : i <= j

\* The first place of m in the used part of the array, or -1.
Find(ls, m) ==
  LET places == {i \in 0..(ls.n - 1) : ls.lockset_[i] = m}
  IN  IF places = {} THEN -1 ELSE CHOOSE i \in places : \A j \in places : i <= j

Decrement(ls) == [ls EXCEPT !.n = @ - 1]

\* Mutants: the element behind the last one is moved; overflow is not reset.
MoveBehind(ls, p) == [ls EXCEPT !.lockset_[p.i] = ls.lockset_[p.lock_count]]
ClearNothing(ls) == ls

MoveLast(ls, p) == [ls EXCEPT !.lockset_[p.i] = ls.lockset_[p.lock_count - 1]]
ClearFull(ls) == [ls EXCEPT !.overflow = FALSE]

add_one_mutex(ls, m) ==
  IF ls.overflow THEN ls ELSE MarkFull(Store(Increment(ls), m))

remove_one_mutex(ls, m) ==
  LET p == [i |-> Find(ls, m), lock_count |-> ls.n]
  IN  IF p.i = -1 THEN ls ELSE ClearFull(MoveLast(Decrement(ls), p))

\* Unwinding the stack in the handler locks and unlocks a mutex of its own.
LockUnlock(ls) ==
  remove_one_mutex(add_one_mutex(IF ls.created THEN ls ELSE Fresh(TRUE), SignalMutex),
                   SignalMutex)

-----------------------------------------------------------------------------
(* The wrappers *)

NoPlace == [i |-> 0, lock_count |-> 0]

Init ==
  /\ phase = "idle"
  /\ owner = [m \in Lockable |-> NoThread]
  /\ lockset = [t \in Thread |-> Fresh(FALSE)]
  /\ pc = [t \in Thread |-> "user"]
  /\ arg = [t \in Thread |-> NoMutex]
  /\ place = [t \in Thread |-> NoPlace]
  /\ attach = [t \in Thread |-> "unborn"]
  /\ missed = [t \in Thread |-> {}]

Goto(t, from, to) == pc[t] = from /\ pc' = [pc EXCEPT ![t] = to]

\* Back in user code, the wrapper's locals are gone.
Return(t, from) ==
  /\ Goto(t, from, "user")
  /\ arg' = [arg EXCEPT ![t] = NoMutex]
  /\ place' = [place EXCEPT ![t] = NoPlace]

SetLockset(t, ls) == lockset' = [lockset EXCEPT ![t] = ls]

\* The program's own code runs, before or without the attachment or after it.  Calls
\* begun after racez_stop are left out: no sample sees them, and a second racez_start
\* ends in an assert (module Runtime).
UserCode(t) ==
  phase # "stopped" /\ pc[t] = "user" /\ attach[t] \in {"none", "attached"}

BeginLock(t, m) ==
  /\ Goto(t, "user", "add")
  /\ arg' = [arg EXCEPT ![t] = m]
  /\ UNCHANGED <<phase, owner, lockset, place, missed>>

\* pthread_mutex_lock(m) is called.
LockCall(t, m) == UserCode(t) /\ owner[m] # t /\ BeginLock(t, m) /\ UNCHANGED attach

\* add_one_mutex reads the thread's LOCKSET pointer, then overflow.
AddBegin(t) ==
  /\ IF ~lockset[t].created THEN Goto(t, "add", "add_create")
     ELSE IF lockset[t].overflow THEN Goto(t, "add", "acquire")
     ELSE Goto(t, "add", "add_n")
  /\ missed' = IF lockset[t].created /\ lockset[t].overflow
                 THEN [missed EXCEPT ![t] = @ \cup {arg[t]}] ELSE missed
  /\ UNCHANGED <<phase, owner, lockset, arg, place, attach>>

\* Create_Tls_Key and SetPerThreadLockset; the lockset is read again.
AddCreate(t) ==
  /\ Goto(t, "add_create", "add")
  /\ SetLockset(t, Fresh(TRUE))
  /\ UNCHANGED <<phase, owner, arg, place, attach, missed>>

AddIncrement(t) ==
  /\ Goto(t, "add_n", "add_store")
  /\ SetLockset(t, Increment(lockset[t]))
  /\ UNCHANGED <<phase, owner, arg, place, attach, missed>>

AddStore(t) ==
  /\ Goto(t, "add_store", "add_full")
  /\ SetLockset(t, Store(lockset[t], arg[t]))
  /\ UNCHANGED <<phase, owner, arg, place, attach, missed>>

AddMarkFull(t) ==
  /\ Goto(t, "add_full", "acquire")
  /\ SetLockset(t, MarkFull(lockset[t]))
  /\ UNCHANGED <<phase, owner, arg, place, attach, missed>>

\* real_pthread_mutex_lock returns: the mutex was free.
Acquire(t) ==
  /\ Return(t, "acquire")
  /\ owner[arg[t]] = NoThread
  /\ owner' = [owner EXCEPT ![arg[t]] = t]
  /\ UNCHANGED <<phase, lockset, attach, missed>>

\* pthread_mutex_trylock is looked up in preload_init but has no wrapper.
TryLock(t, m) ==
  /\ UserCode(t) /\ owner[m] = NoThread
  /\ owner' = [owner EXCEPT ![m] = t]
  /\ missed' = [missed EXCEPT ![t] = @ \cup {m}]
  /\ UNCHANGED <<phase, lockset, pc, arg, place, attach>>

BeginRelease(t, m) ==
  /\ owner[m] = t
  /\ Goto(t, "user", "released")
  /\ owner' = [owner EXCEPT ![m] = NoThread]
  /\ arg' = [arg EXCEPT ![t] = m]
  /\ missed' = [missed EXCEPT ![t] = @ \ {m}]
  /\ UNCHANGED <<phase, lockset, place>>

\* pthread_mutex_unlock(m): the mutex is released first.
Release(t, m) == UserCode(t) /\ BeginRelease(t, m) /\ UNCHANGED attach

\* Mutant: the lockset is left alone although racez is enabled.
SkipsAlways(t) == TRUE

\* if (racez_lockset && racez_enable), with racez_lockset on.
SkipsRemove(t) == ~racez_enable

CheckEnable(t) ==
  /\ IF SkipsRemove(t) THEN Return(t, "released")
     ELSE Goto(t, "released", "remove") /\ UNCHANGED <<arg, place>>
  /\ UNCHANGED <<phase, owner, lockset, attach, missed>>

\* remove_one_mutex creates the LOCKSET if need be, and finds the mutex.
RemoveCreate(t) ==
  /\ pc[t] = "remove" /\ ~lockset[t].created
  /\ SetLockset(t, Fresh(TRUE))
  /\ UNCHANGED <<phase, owner, pc, arg, place, attach, missed>>

RemoveFind(t) ==
  LET p == [i |-> Find(lockset[t], arg[t]), lock_count |-> lockset[t].n]
  IN  /\ lockset[t].created
      /\ IF p.i = -1 THEN Return(t, "remove")
         ELSE /\ Goto(t, "remove", "remove_n")
              /\ place' = [place EXCEPT ![t] = p]
              /\ UNCHANGED arg
      /\ UNCHANGED <<phase, owner, lockset, attach, missed>>

RemoveDecrement(t) ==
  /\ Goto(t, "remove_n", "remove_move")
  /\ SetLockset(t, Decrement(lockset[t]))
  /\ UNCHANGED <<phase, owner, arg, place, attach, missed>>

RemoveMove(t) ==
  /\ Goto(t, "remove_move", "remove_full")
  /\ SetLockset(t, MoveLast(lockset[t], place[t]))
  /\ UNCHANGED <<phase, owner, arg, place, attach, missed>>

RemoveClearFull(t) ==
  /\ Return(t, "remove_full")
  /\ SetLockset(t, ClearFull(lockset[t]))
  /\ UNCHANGED <<phase, owner, attach, missed>>

\* pthread_cond_wait gives the mutex up and takes it back; the lockset stays.
CondWait(t, m) ==
  /\ UserCode(t) /\ owner[m] = t
  /\ Goto(t, "user", "waiting")
  /\ arg' = [arg EXCEPT ![t] = m]
  /\ owner' = [owner EXCEPT ![m] = NoThread]
  /\ UNCHANGED <<phase, lockset, place, attach, missed>>

CondReturn(t) ==
  /\ Return(t, "waiting")
  /\ owner[arg[t]] = NoThread
  /\ owner' = [owner EXCEPT ![arg[t]] = t]
  /\ UNCHANGED <<phase, lockset, attach, missed>>

\* racez_thread_start_func: a thread created under racez_enable attaches itself.
StartFunc(t) ==
  /\ attach[t] = "unborn"
  /\ racez_enable \/ Cardinality({u \in Thread : attach[u] = "none"}) < MaxUnattached
  /\ attach' = [attach EXCEPT ![t] = IF racez_enable THEN "lock" ELSE "none"]
  /\ UNCHANGED <<phase, owner, lockset, pc, arg, place, missed>>

\* The context's descriptor is entered into the map under tid_fd_map_mutex ...
AttachLock(t) ==
  /\ attach[t] = "lock"
  /\ BeginLock(t, tid_fd_map_mutex)
  /\ attach' = [attach EXCEPT ![t] = "insert"]

AttachUnlock(t) ==
  /\ attach[t] = "insert"
  /\ BeginRelease(t, tid_fd_map_mutex)
  /\ attach' = [attach EXCEPT ![t] = "start"]

\* Mutant: the counting starts before the descriptor is in the map.
StartsAtOnce(t) == attach[t] \in {"lock", "start"}

\* ... and pfm_self_start comes behind.
MayStart(t) == attach[t] = "start"

SelfStart(t) ==
  /\ MayStart(t) /\ pc[t] = "user"
  /\ attach' = [attach EXCEPT ![t] = "attached"]
  /\ UNCHANGED <<phase, owner, lockset, pc, arg, place, missed>>

\* The SIGIO handler with the stack trace on: get_backtrace locks and unlocks.
\* Handlers that still run once racez_stop has cleared racez_enable (the unlock
\* then removes nothing) are not followed: module Runtime has them.
SignalHandler(t) ==
  /\ racez_enable /\ racez_stacktrace /\ attach[t] = "attached"
  /\ SetLockset(t, LockUnlock(lockset[t]))
  /\ UNCHANGED <<phase, owner, pc, arg, place, attach, missed>>

\* racez_start sets racez_enable last, racez_stop clears it first.
ChangePhase ==
  /\ \/ phase = "idle" /\ phase' = "on"
     \/ phase = "on" /\ phase' = "stopped"
  /\ UNCHANGED <<owner, lockset, pc, arg, place, attach, missed>>

ThreadStep(t) ==
  \/ \E m \in Mutex : LockCall(t, m) \/ TryLock(t, m) \/ Release(t, m) \/ CondWait(t, m)
  \/ AddBegin(t) \/ AddCreate(t) \/ AddIncrement(t) \/ AddStore(t) \/ AddMarkFull(t)
  \/ Acquire(t) \/ CheckEnable(t) \/ RemoveCreate(t) \/ RemoveFind(t)
  \/ RemoveDecrement(t) \/ RemoveMove(t) \/ RemoveClearFull(t)
  \/ CondReturn(t) \/ SignalHandler(t)
  \/ StartFunc(t) \/ AttachLock(t) \/ AttachUnlock(t) \/ SelfStart(t)

Next == ChangePhase \/ \E t \in Thread : ThreadStep(t)

Spec == Init /\ [][Next]_vars

-----------------------------------------------------------------------------
(* Properties *)

Held(t) == {m \in Mutex : owner[m] = t}
Recorded(t) == {lockset[t].lockset_[i] : i \in 0..(lockset[t].n - 1)}

\* The LOCKSETs, the owners and the wrappers' locals have their types.
TypeOK ==
  /\ phase \in {"idle", "on", "stopped"}
  /\ owner \in [Lockable -> Thread \cup {NoThread}]
  /\ lockset \in [Thread -> LOCKSET]
  /\ pc \in [Thread -> {"user", "add", "add_create", "add_n", "add_store", "add_full",
                        "acquire", "released", "remove", "remove_n", "remove_move",
                        "remove_full", "waiting"}]
  /\ arg \in [Thread -> Lockable \cup {NoMutex}]
  /\ place \in [Thread -> Place]
  /\ attach \in [Thread -> {"unborn", "none", "lock", "insert", "start", "attached"}]
  /\ missed \in [Thread -> SUBSET Lockable]

\* A sample of user code: only attached threads are sampled.
Sampled(t) == racez_enable /\ pc[t] = "user" /\ attach[t] = "attached"

\* What a sample of user code records as its lockset is what the thread holds,
\* less the mutexes the runtime missed (overflow, trylock): no lock too many,
\* which would hide a race, no lock too few, which would report one, and no
\* lock twice.  Mutexes taken before racez_start cannot get into a sample, nor can
\* the lock and unlock of the attachment.
SampleExact ==
  \A t \in Thread : Sampled(t) =>
    /\ Recorded(t) = Held(t) \ missed[t]
    /\ \A i, j \in 0..(lockset[t].n - 1) :
         lockset[t].lockset_[i] = lockset[t].lockset_[j] => i = j

\* The premise of the detector: two threads whose samples share a lock are not
\* both in user code at once.
SharedLockExcludes ==
  \A t, u \in Thread :
    t # u /\ Sampled(t) /\ Sampled(u) => Recorded(t) \cap Recorded(u) = {}

\* A thread drops a mutex only while its lockset is full: overflow goes with
\* n = 10 whenever no wrapper is running (racez_mutex.cc:41-43, 68-69).
OverflowMeansFull ==
  \A t \in Thread : pc[t] \in {"user", "acquire", "waiting", "released", "remove"} =>
    (lockset[t].overflow <=> lockset[t].n = MaxLocks)

\* "0 is the first element and 9 is last element" (racez_mutex.cc:40): nothing is
\* written behind the array.
ArrayInBounds == \A t \in Thread : lockset[t].lockset_[MaxLocks] = NoMutex

\* "the signal-handler is atomic, which means it will execute the lock/unlock
\* together" (racez_mutex.cc:38): a handler that falls anywhere into the wrappers
\* leaves the length, the overflow flag and the used part of the array alone.  In
\* the used part its own mutex is at most the stale cell of the store to come; it
\* gets there in no other way than by the overwritten move of MCLocksetClobber.
LeavesUsedPart(t) ==
  SignalHandler(t) /\ (SignalMutex \in Recorded(t) => pc[t] = "add_store") =>
    /\ lockset'[t].n = lockset[t].n
    /\ lockset'[t].overflow = lockset[t].overflow
    /\ \A i \in 0..(lockset[t].n - 1) : lockset'[t].lockset_[i] = lockset[t].lockset_[i]
HandlerTransparent == [][\A t \in Thread : LeavesUsedPart(t)]_vars

\* "If we update the lockset->n++, we can workaround this problem"
\* (racez_mutex.cc:37): whatever handlers interrupt add_one_mutex, when it is
\* done the last element is the caller's mutex.
AddLands ==
  \A t \in Thread : pc[t] = "add_full" =>
    lockset[t].n > 0 /\ lockset[t].lockset_[lockset[t].n - 1] = arg[t]

\* "0 is the first element and 9 is last element" (racez_mutex.cc:40): a handler
\* writes behind the array only if it meets add_one_mutex of the last element,
\* with n = 10 and overflow still to be set.
WritesBehindAtLastAdd(t) ==
  SignalHandler(t) /\ lockset'[t].lockset_[MaxLocks] # lockset[t].lockset_[MaxLocks] =>
    pc[t] \in {"add_store", "add_full"} /\ lockset[t].n = MaxLocks
HandlerStaysInside == [][\A t \in Thread : WritesBehindAtLastAdd(t)]_vars

\* SetPerThreadLockset is "not signal-safe, it only can be called in non-signal
\* handler code" (racez_lockset.cc:26): a thread that can be interrupted by the
\* handler has its LOCKSET, so that the mutex libunwind takes does not create it.
HandlerFindsLockset ==
  \A t \in Thread : attach[t] = "attached" /\ racez_enable => lockset[t].created
=============================================================================
