------------------------------ MODULE Runtime ------------------------------
(***************************************************************************)
(* The runtime of libracez.so: racez_start and racez_stop, thread creation *)
(* and the logging wrappers (racez_preload.c), the attachment of the PMU,  *)
(* the SIGIO handler, pmu_profiler_start and pmu_profiler_stop             *)
(* (racez_pmuprofiler.cc), and the shared buffer of records                *)
(* (racez_bufferdata.cc).  Locksets are the subject of module Lockset.     *)
(*                                                                         *)
(* A thread runs user code and the wrappers (pc), the handler interrupts   *)
(* it anywhere (handler), and both may be inside WriteRecord (frame).  The *)
(* kernel and the PMU are external: a counter overflow masks the context   *)
(* and queues SIGIO for the thread; pfm_restart unmasks it.                *)
(***************************************************************************)
EXTENDS Naturals, Sequences

CONSTANTS Worker, Main,
          BUFFERSIZE,              \* records the buffer has room for
          racez_memory_allocator,  \* heap calls are logged
          racez_signal_wait,       \* condition variable calls are logged
          racez_signal_sample,     \* two records per sample (Core 2)
          JoinsFirst,   \* the program joins its threads before racez_stop
          RacyLookup,   \* an unlocked map lookup may miss during an insert
          MaxStarts,    \* bound: calls of racez_start
          MaxSamples,   \* bound: counter overflows of a thread
          MaxLogged     \* bound: logged calls of a thread

ASSUME SizeAssumption == BUFFERSIZE \in Nat \ {0}
ASSUME BoundAssumption == MaxStarts \in Nat /\ MaxSamples \in Nat /\ MaxLogged \in Nat
ASSUME ThreadAssumption == Main \notin Worker
ASSUME RestartAssumption == MaxStarts > 1 => JoinsFirst

Thread == Worker \cup {Main}
Frame == Thread \X {"user", "handler"}
Empty == [no |-> 0, tid |-> "none"]
Slot == {Empty} \cup [no : 1..BUFFERSIZE, tid : Thread]
Node == [tid : Worker, fd : {0, 1}]

VARIABLES racez_enable, sig_enable,
          disposition,    \* what SIGIO does: "default" or "handler"
          global_buffer,  \* "null", "live", or "freed" once start_ is freed
          global_,        \* global_buffer->global_ as an index
          slots,          \* the records; the last cell lies behind the array
          file,           \* the records written to fd_
          tid_fd_map,     \* the nodes of the map
          map_mutex,      \* the threads holding tid_fd_map_mutex
          pmu,            \* a thread's context: "off", "on" or "masked"
          pending,        \* SIGIO is queued for a thread
          pc, handler, frame, entry,
          outcome,        \* "running", or how the process died
          used,           \* starts, samples and logged calls so far
          late            \* history: contexts started behind pmu_profiler_stop

signals == <<sig_enable, disposition>>
buffer == <<global_buffer, global_, slots>>
contexts == <<tid_fd_map, map_mutex, late>>
writers == <<frame, entry>>
vars == <<racez_enable, signals, buffer, file, contexts, pmu, pending,
          pc, handler, writers, outcome, used>>

Init ==
  /\ racez_enable = 0
  /\ sig_enable = FALSE
  /\ disposition = "default"
  /\ global_buffer = "null"
  /\ global_ = 0
  /\ slots = [i \in 0..BUFFERSIZE |-> Empty]
  /\ file = <<>>
  /\ tid_fd_map = {}
  /\ map_mutex = {}
  /\ pmu = [t \in Thread |-> "off"]
  /\ pending = [t \in Thread |-> FALSE]
  /\ pc = [t \in Thread |-> IF t = Main THEN "user" ELSE "new"]
  /\ handler = [t \in Thread |-> "none"]
  /\ frame = [f \in Frame |-> "none"]
  /\ entry = [f \in Frame |-> 0]
  /\ outcome = "running"
  /\ used = [starts |-> 0, samples |-> [t \in Thread |-> 0],
             logged |-> [t \in Thread |-> 0]]
  /\ late = {}

\* User code runs while no handler and no WriteRecord of its own does.
Runs(t, at) ==
  /\ outcome = "running"
  /\ pc[t] = at /\ handler[t] = "none" /\ frame[<<t, "user">>] = "none"

Goto(t, to) == pc' = [pc EXCEPT ![t] = to]

-----------------------------------------------------------------------------
(* WriteRecord, with racez_write_record set, in user code or in the handler *)

Active(f) == f[2] = "handler" \/ handler[f[1]] = "none"

BeginWrite(f) == frame' = [frame EXCEPT ![f] = "xadd"]

Dies(how) == outcome' = how /\ UNCHANGED <<buffer, writers>>

\* Mutant: the old value is returned.
ReturnedOld(value) == value
Returned(value) == value + 1

\* atomic_increment_no_barrier: one locked instruction that returns the new value.
AtomicIncrement(f) ==
  /\ global_' = global_ + 1
  /\ entry' = [entry EXCEPT ![f] = Returned(global_)]
  /\ frame' = [frame EXCEPT ![f] = "no"]
  /\ UNCHANGED <<global_buffer, slots, outcome>>

TakeEntry(f) ==
  /\ outcome = "running" /\ Active(f) /\ frame[f] = "xadd"
  /\ IF global_buffer = "null" THEN Dies("bad_access") ELSE AtomicIncrement(f)
  /\ UNCHANGED <<racez_enable, signals, file, contexts, pmu, pending, pc, handler, used>>

\* Mutant: there is no check that the buffer is full.
TooFarNever(no) == FALSE
TooFar(no) == no > BUFFERSIZE

\* record_no is computed from start_, which is read again.
CheckEntry(f) ==
  /\ outcome = "running" /\ Active(f) /\ frame[f] = "no"
  /\ IF global_buffer = "null" THEN Dies("bad_access")
     ELSE /\ frame' = [frame EXCEPT ![f] = IF TooFar(entry[f]) THEN "none" ELSE "fill"]
          /\ entry' = [entry EXCEPT ![f] = IF TooFar(entry[f]) THEN 0 ELSE @]
          /\ UNCHANGED <<buffer, outcome>>
  /\ UNCHANGED <<racez_enable, signals, file, contexts, pmu, pending, pc, handler, used>>

FillEntry(f) ==
  /\ outcome = "running" /\ Active(f) /\ frame[f] = "fill"
  /\ IF global_buffer # "live" THEN Dies("bad_access")
     ELSE /\ slots' = [slots EXCEPT ![entry[f]] = [no |-> entry[f], tid |-> f[1]]]
          /\ frame' = [frame EXCEPT ![f] = "none"]
          /\ entry' = [entry EXCEPT ![f] = 0]
          /\ UNCHANGED <<global_buffer, global_, outcome>>
  /\ UNCHANGED <<racez_enable, signals, file, contexts, pmu, pending, pc, handler, used>>

WriteRecord(f) == TakeEntry(f) \/ CheckEntry(f) \/ FillEntry(f)

-----------------------------------------------------------------------------
(* The wrappers of racez_preload.c, and racez_start *)

\* malloc and free, racez_log_memory_allocation, pthread_cond_wait and
\* pthread_cond_signal: racez_enable is read, then WriteRecord is called.
LogCall(t) ==
  /\ Runs(t, "user")
  /\ racez_memory_allocator \/ racez_signal_wait
  /\ racez_enable = 1
  /\ used.logged[t] < MaxLogged
  /\ used' = [used EXCEPT !.logged[t] = @ + 1]
  /\ BeginWrite(<<t, "user">>)
  /\ UNCHANGED <<racez_enable, signals, buffer, file, contexts, pmu, pending, pc,
                 handler, entry, outcome>>

\* A heap call the library makes itself: it goes through the wrapper too.
HeapCall(t) ==
  IF racez_memory_allocator /\ racez_enable = 1
    THEN BeginWrite(<<t, "user">>) ELSE UNCHANGED frame

\* pthread_create allocates the START_FUNC, then creates the thread.
CreateCall ==
  /\ Runs(Main, "user")
  /\ \E t \in Worker : pc[t] = "new"
  /\ HeapCall(Main)
  /\ Goto(Main, "create")
  /\ UNCHANGED <<racez_enable, signals, buffer, file, contexts, pmu, pending,
                 handler, entry, outcome, used>>

CreateThread(t) ==
  /\ Runs(Main, "create")
  /\ pc[t] = "new"
  /\ pc' = [pc EXCEPT ![Main] = "user", ![t] = "born"]
  /\ UNCHANGED <<racez_enable, signals, buffer, file, contexts, pmu, pending,
                 handler, writers, outcome, used>>

\* InitBuffer, called by pmu_profiler_start.  The block is large enough for malloc
\* to map fresh pages, so unfilled entries read as zero.  When the file cannot be opened fd_
\* stays 0 and pmu_profiler_start goes on: file is what is written to fd_.
InitBuffer ==
  /\ Runs(Main, "user")
  /\ racez_enable = 0 /\ used.starts < MaxStarts
  /\ used' = [used EXCEPT !.starts = @ + 1]
  /\ IF global_buffer # "null"
       THEN outcome' = "assert" /\ UNCHANGED <<buffer, file, pc>>
       ELSE /\ global_buffer' = "live"
            /\ global_' = 0
            /\ slots' = [i \in 0..BUFFERSIZE |-> Empty]
            /\ file' = <<>>
            /\ Goto(Main, "setup")
            /\ UNCHANGED outcome
  /\ UNCHANGED <<racez_enable, signals, contexts, pmu, pending, handler, writers>>

\* Mutant: the handler is not installed.
InstallNothing == UNCHANGED disposition
InstallHandler == disposition' = "handler"

\* assert(sig_enable == false), then setup_signal_handler.
SetupSignalHandler ==
  /\ Runs(Main, "setup")
  /\ IF sig_enable
       THEN outcome' = "assert" /\ UNCHANGED <<signals, pc>>
       ELSE /\ InstallHandler
            /\ sig_enable' = TRUE
            /\ Goto(Main, "enable")
            /\ UNCHANGED outcome
  /\ UNCHANGED <<racez_enable, buffer, file, contexts, pmu, pending, handler, writers,
                 used>>

\* pmu_profiler_start has no return statement; in the build (-O0) it returns
\* what setup_signal_handler left in the register, true.
StartEnable ==
  /\ Runs(Main, "enable")
  /\ racez_enable' = 1
  /\ Goto(Main, "user")
  /\ UNCHANGED <<signals, buffer, file, contexts, pmu, pending, handler, writers,
                 outcome, used>>

-----------------------------------------------------------------------------
(* A thread attaches itself to the PMU, works and exits *)

\* racez_thread_start_func and pmu_profiler_perthread_attach read racez_enable
\* one after the other; then the context is created and set up.
StartFunc(t) ==
  /\ \/ Runs(t, "born") /\ Goto(t, IF racez_enable = 1 THEN "attach" ELSE "user")
     \/ Runs(t, "attach") /\ Goto(t, IF racez_enable = 1 THEN "map" ELSE "user")
  /\ UNCHANGED <<racez_enable, signals, buffer, file, contexts, pmu, pending, handler,
                 writers, outcome, used>>

LockMap(t) ==
  /\ Runs(t, "map") /\ map_mutex = {}
  /\ map_mutex' = {t}
  /\ Goto(t, "insert")
  /\ UNCHANGED <<racez_enable, signals, buffer, file, tid_fd_map, late, pmu, pending,
                 handler, writers, outcome, used>>

\* Mutant: the mutex is not released.
KeepMutex == UNCHANGED map_mutex
UnlockMap == map_mutex' = {}

\* Mutant: the context is not entered into the map.
MapsNothing(t) == tid_fd_map
MapWith(t) == {n \in tid_fd_map : n.tid # t} \cup {[tid |-> t, fd |-> 1]}

\* The context's descriptor (never 0) is entered and the mutex released.
InsertFd(t) ==
  /\ Runs(t, "insert")
  /\ tid_fd_map' = MapWith(t)
  /\ UnlockMap
  /\ Goto(t, "self_start")
  /\ UNCHANGED <<racez_enable, signals, buffer, file, late, pmu, pending, handler, writers,
                 outcome, used>>

\* pmu_profiler_stop is past its loop over the map.
ContextsStopped == racez_enable = 0 /\ pc[Main] # "stop"

SelfStart(t) ==
  /\ Runs(t, "self_start")
  /\ pmu' = [pmu EXCEPT ![t] = "on"]
  /\ late' = IF ContextsStopped THEN late \cup {t} ELSE late
  /\ Goto(t, "user")
  /\ UNCHANGED <<racez_enable, signals, buffer, file, tid_fd_map, map_mutex, pending,
                 handler, writers, outcome, used>>

\* With the thread go its context and the signals queued for it.
Exit(t) ==
  /\ t # Main /\ Runs(t, "user")
  /\ Goto(t, "exited")
  /\ pmu' = [pmu EXCEPT ![t] = "off"]
  /\ pending' = [pending EXCEPT ![t] = FALSE]
  /\ UNCHANGED <<racez_enable, signals, buffer, file, contexts, handler, writers,
                 outcome, used>>

-----------------------------------------------------------------------------
(* Samples: the PMU, the kernel and signal_handler *)

Overflow(t) ==
  /\ outcome = "running" /\ pmu[t] = "on" /\ used.samples[t] < MaxSamples
  /\ used' = [used EXCEPT !.samples[t] = @ + 1]
  /\ pmu' = [pmu EXCEPT ![t] = "masked"]
  /\ pending' = [pending EXCEPT ![t] = TRUE]
  /\ UNCHANGED <<racez_enable, signals, buffer, file, contexts, pc, handler, writers,
                 outcome>>

\* The default action of SIGIO ends the process.
Deliver(t) ==
  /\ outcome = "running" /\ pending[t] /\ handler[t] = "none"
  /\ pending' = [pending EXCEPT ![t] = FALSE]
  /\ IF disposition = "default"
       THEN outcome' = "sigio" /\ UNCHANGED handler
       ELSE handler' = [handler EXCEPT ![t] = "lookup"] /\ UNCHANGED outcome
  /\ UNCHANGED <<racez_enable, signals, buffer, file, contexts, pmu, pc, writers, used>>

Mapped(t) == \E n \in tid_fd_map : n.tid = t

\* tid_fd_map[tid] without the mutex: a key that is not found is inserted with
\* value 0.  The tree is in flux while another thread inserts.
HandlerLookup(t) ==
  /\ outcome = "running" /\ handler[t] = "lookup"
  /\ \/ Mapped(t) /\ UNCHANGED tid_fd_map
     \/ /\ ~Mapped(t) \/ (RacyLookup /\ \E u \in map_mutex : pc[u] = "insert")
        /\ tid_fd_map' = tid_fd_map \cup {[tid |-> t, fd |-> 0]}
  /\ handler' = [handler EXCEPT ![t] = "sample"]
  /\ UNCHANGED <<racez_enable, signals, buffer, file, map_mutex, late, pmu, pending, pc,
                 writers, outcome, used>>

\* write_pebs_info or write_ibs_info writes the record, unless the sample buffer
\* is empty or the operation is neither a load nor a store.  On Core 2 a second
\* record may follow the first.
HandlerWrite(t) ==
  /\ outcome = "running" /\ frame[<<t, "handler">>] = "none"
  /\ \/ handler[t] = "sample" /\ BeginWrite(<<t, "handler">>)
        /\ handler' = [handler EXCEPT
                         ![t] = IF racez_signal_sample THEN "second" ELSE "restart"]
     \/ handler[t] = "sample" /\ UNCHANGED frame
        /\ handler' = [handler EXCEPT ![t] = "restart"]
     \/ handler[t] = "second" /\ BeginWrite(<<t, "handler">>)
        /\ handler' = [handler EXCEPT ![t] = "restart"]
  /\ UNCHANGED <<racez_enable, signals, buffer, file, contexts, pmu, pending, pc, entry,
                 outcome, used>>

\* Mutant: the context is not restarted.
UnmaskNothing(state) == state
Unmask(state) == IF state = "masked" THEN "on" ELSE state

\* pfm_restart does nothing to a context that was stopped.
HandlerRestart(t) ==
  /\ outcome = "running" /\ frame[<<t, "handler">>] = "none"
  /\ handler[t] = "restart"
  /\ handler' = [handler EXCEPT ![t] = "none"]
  /\ pmu' = [pmu EXCEPT ![t] = Unmask(@)]
  /\ UNCHANGED <<racez_enable, signals, buffer, file, contexts, pending, pc, writers,
                 outcome, used>>

-----------------------------------------------------------------------------
(* racez_stop: pmu_profiler_stop and StopBuffer *)

\* Mutant: racez_enable is left set until the end.
ClearNothing == UNCHANGED racez_enable
ClearEnable == racez_enable' = 0

\* assert(racez_enable == 1) holds: the program calls racez_stop once per start.
StopCall ==
  /\ Runs(Main, "user")
  /\ racez_enable = 1
  /\ JoinsFirst => \A t \in Worker : pc[t] \in {"new", "exited"}
  /\ ClearEnable
  /\ Goto(Main, "stop")
  /\ UNCHANGED <<signals, buffer, file, contexts, pmu, pending, handler, writers,
                 outcome, used>>

\* Mutant: contexts masked by an overflow are not stopped.
StoppedRunning == {n.tid : n \in {n \in tid_fd_map : pmu[n.tid] = "on"}}
StoppedTids == {n.tid : n \in {n \in tid_fd_map : n.fd # 0}}

\* pfm_stop of every descriptor in the map, under the mutex; the context of a
\* thread that exited is gone and pfm_stop fails.
StopContexts ==
  /\ Runs(Main, "stop") /\ map_mutex = {}
  /\ IF \E n \in tid_fd_map : n.fd = 0
       THEN outcome' = "assert" /\ UNCHANGED <<pmu, pc>>
       ELSE /\ pmu' = [t \in Thread |-> IF t \in StoppedTids THEN "off" ELSE pmu[t]]
            /\ Goto(Main, "disable")
            /\ UNCHANGED outcome
  /\ UNCHANGED <<racez_enable, signals, buffer, file, contexts, pending, handler,
                 writers, used>>

\* disable_signal_handler: sa_handler and sa_sigaction share their storage, so
\* the NULL stored last is SIG_DFL and not SIG_IGN.  sig_enable stays set.
DisableSignalHandler ==
  /\ Runs(Main, "disable")
  /\ disposition' = "default"
  /\ Goto(Main, "flush")
  /\ UNCHANGED <<racez_enable, sig_enable, buffer, file, contexts, pmu, pending, handler,
                 writers, outcome, used>>

\* Mutant: the loop ends before the last entry.
MoreToFlushShort(i) == i < global_
MoreToFlush(i) == i <= global_

\* The loop of StopBuffer reads global_ on every iteration.  What lies behind
\* the array is written as well, or fails to be.
FlushEntry ==
  /\ Runs(Main, "flush") /\ MoreToFlush(Len(file))
  /\ file' = Append(file, IF Len(file) <= BUFFERSIZE THEN slots[Len(file)] ELSE Empty)
  /\ UNCHANGED <<racez_enable, signals, buffer, contexts, pmu, pending, pc, handler,
                 writers, outcome, used>>

\* free(start_), through the wrapper.
FreeStart ==
  /\ Runs(Main, "flush") /\ ~MoreToFlush(Len(file))
  /\ global_buffer' = "freed"
  /\ HeapCall(Main)
  /\ Goto(Main, "null")
  /\ UNCHANGED <<racez_enable, signals, global_, slots, file, contexts, pmu, pending,
                 handler, entry, outcome, used>>

\* free(global_buffer), and the pointer is cleared.
ClearBuffer ==
  /\ Runs(Main, "null")
  /\ global_buffer' = "null"
  /\ Goto(Main, "user")
  /\ UNCHANGED <<racez_enable, signals, global_, slots, file, contexts, pmu, pending,
                 handler, writers, outcome, used>>

-----------------------------------------------------------------------------
MainStep == InitBuffer \/ SetupSignalHandler \/ StartEnable \/ CreateCall
            \/ StopCall \/ StopContexts \/ DisableSignalHandler
            \/ FlushEntry \/ FreeStart \/ ClearBuffer
            \/ \E t \in Worker : CreateThread(t)

ThreadStep(t) == LogCall(t) \/ StartFunc(t) \/ LockMap(t) \/ InsertFd(t) \/ SelfStart(t)
                 \/ Exit(t) \/ WriteRecord(<<t, "user">>)

HandlerStep(t) == Deliver(t) \/ HandlerLookup(t) \/ HandlerWrite(t) \/ HandlerRestart(t)
                  \/ WriteRecord(<<t, "handler">>)

Next == MainStep \/ \E t \in Thread : ThreadStep(t) \/ HandlerStep(t) \/ Overflow(t)

\* The scheduler runs every thread that can run, and the kernel delivers queued
\* signals; what user code does next is left open.
InLibrary(t) == pc[t] # "user" \/ frame[<<t, "user">>] # "none"

Fairness ==
  /\ WF_vars(InLibrary(Main) /\ MainStep)
  /\ \A t \in Thread : WF_vars(InLibrary(t) /\ ThreadStep(t)) /\ WF_vars(HandlerStep(t))

Spec == Init /\ [][Next]_vars /\ Fairness

-----------------------------------------------------------------------------
(* Properties *)

\* The variables of the runtime have their types, and no record is written
\* further behind the array than into the one cell there.
TypeOK ==
  /\ racez_enable \in {0, 1}
  /\ sig_enable \in BOOLEAN
  /\ disposition \in {"default", "handler"}
  /\ global_buffer \in {"null", "live", "freed"}
  /\ global_ \in Nat
  /\ slots \in [0..BUFFERSIZE -> Slot]
  /\ tid_fd_map \subseteq Node
  /\ map_mutex \subseteq Worker
  /\ pmu \in [Thread -> {"off", "on", "masked"}]
  /\ pending \in [Thread -> BOOLEAN]
  /\ frame \in [Frame -> {"none", "xadd", "no", "fill"}]
  /\ entry \in [Frame -> Nat]
  /\ \A f \in Frame : frame[f] = "fill" => entry[f] <= BUFFERSIZE
  /\ outcome \in {"running", "assert", "sigio", "bad_access"}

Claims(i) == {f \in Frame : frame[f] \in {"no", "fill"} /\ entry[f] = i}

\* While the buffer lives each index up to global_ belongs to one call of
\* WriteRecord, whatever handlers and threads interleave: it is filled under its
\* own number, or one unfinished call is going to fill it (bufferdata.cc:33-77).
ClaimsExact ==
  global_buffer = "live" =>
    \A i \in 0..BUFFERSIZE :
      /\ slots[i] # Empty => slots[i].no = i /\ i <= global_ /\ Claims(i) = {}
      /\ slots[i] = Empty /\ 0 < i /\ i <= global_ => \E f \in Frame : Claims(i) = {f}

\* Where the program joins its threads first, as benchmarks/test/test-1.c does,
\* racez_stop writes every record there was room for, in the order of the numbers,
\* behind the unused slot 0 (bufferdata.cc:86-93).
FileComplete ==
  pc[Main] = "null" =>
    /\ Len(file) = global_ + 1
    /\ \A i \in 1..global_ : i <= BUFFERSIZE =>
          file[i + 1] # Empty /\ file[i + 1] = slots[i]

\* Such a program is not killed by a SIGIO, an assert or an invalid access as long as
\* every lookup of the handler finds its entry, until it calls racez_start again:
\* sig_enable is never reset, and assert(sig_enable == false) (pmuprofiler.cc:1004)
\* fires.  This needs racez_enable to be 0 when StopBuffer calls free ("We should set
\* the racez_enable = 0 first, then stop", racez_preload.c:284).
NoFault == outcome = "running" \/ (outcome = "assert" /\ used.starts > 1)

\* "Learn the order between enable signal handler and pfm_start"
\* (pmuprofiler.cc:965): a thread that finds racez_enable set finds a buffer and a
\* handler, and no context is running before.
EnabledMeansReady ==
  /\ racez_enable = 1 => global_buffer = "live" /\ disposition = "handler"
  /\ used.starts = 0 => \A t \in Thread : pmu[t] = "off" /\ ~pending[t]

\* A context that can signal is in the map, so that the handler finds it and
\* pmu_profiler_stop stops it (pmuprofiler.cc:702-706).
SampledIsMapped ==
  \A t \in Thread : pmu[t] # "off" => [tid |-> t, fd |-> 1] \in tid_fd_map

\* Once pmu_profiler_stop is past its loop, the only contexts that still count are
\* those started behind it: no handler re-arms a stopped context
\* ("we must disable all pfm fd", pmuprofiler.cc:1019).
StopSilences ==
  ContextsStopped => \A t \in Thread : pmu[t] # "off" => t \in late

\* racez_stop returns, also while threads attach, take samples and log.
StopReturns == pc[Main] = "stop" ~> (pc[Main] = "user" \/ outcome # "running")

\* An overflow never leaves a context masked: it is re-armed or stopped.
ContextRearmed ==
  \A t \in Worker : pmu[t] = "masked" ~> (pmu[t] # "masked" \/ outcome # "running")
=============================================================================
