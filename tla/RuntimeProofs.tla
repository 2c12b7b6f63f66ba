--------------------------- MODULE RuntimeProofs ---------------------------
(***************************************************************************)
(* Proofs about module Runtime, for every set of worker threads, every     *)
(* size of the buffer and every setting of the flags.                      *)
(***************************************************************************)
EXTENDS Runtime, TLAPS

MainLabel == {"user", "create", "setup", "enable", "stop", "disable", "flush", "null"}
WorkerLabel == {"new", "born", "attach", "map", "insert", "self_start", "user", "exited"}

\* The types that TypeOK leaves out.  The main thread is never attached.
Typed ==
  /\ TypeOK
  /\ pc \in [Thread -> MainLabel \cup WorkerLabel]
  /\ pc[Main] \in MainLabel /\ \A t \in Worker : pc[t] \in WorkerLabel
  /\ handler \in [Thread -> {"none", "lookup", "sample", "second", "restart"}]
  /\ used.starts \in Nat
  /\ \A f \in Frame : frame[f] \in {"no", "fill"} => entry[f] > 0
  /\ pmu[Main] = "off" /\ ~pending[Main] /\ handler[Main] = "none"

\* How far racez_start and racez_stop are says what there is.
Phases ==
  /\ global_buffer = CASE pc[Main] \in {"user", "create"} -> IF racez_enable = 1 THEN "live" ELSE "null"
                       [] pc[Main] = "null" -> "freed"
                       [] OTHER -> "live"
  /\ racez_enable = 1 => pc[Main] \in {"user", "create"}
  /\ racez_enable = 1 \/ pc[Main] \in {"enable", "stop", "disable"} => disposition = "handler"
  /\ used.starts = 0 => racez_enable = 0 /\ pc[Main] \in {"user", "create"} /\ ~sig_enable
  /\ pc[Main] = "setup" /\ sig_enable => used.starts > 1

\* Nothing of the runtime is under way in a thread.
Idle(t) ==
  /\ pmu[t] = "off" /\ ~pending[t] /\ handler[t] = "none"
  /\ frame[<<t, "user">>] = "none" /\ frame[<<t, "handler">>] = "none"

\* Before the first racez_start, and while racez is off in a program that joins its
\* threads before racez_stop.
Quiet == racez_enable = 0 /\ (JoinsFirst \/ used.starts = 0)

\* A worker is idle until its context is started, once it has exited, and when all is quiet.
IdleWorker(t) ==
  /\ pc[t] # "user" => Idle(t)
  /\ handler[t] = "none" => frame[<<t, "handler">>] = "none"
  /\ Quiet => Idle(t) /\ pc[t] \in {"new", "born", "user", "exited"}

Idleness ==
  /\ \A t \in Worker : IdleWorker(t)
  /\ frame[<<Main, "handler">>] = "none"
  /\ racez_enable = 0 => frame[<<Main, "user">>] = "none"

\* A thread that signals, or is about to, has its context in the map.
Enters(t) == pmu[t] # "off" \/ pending[t] \/ handler[t] # "none" \/ pc[t] = "self_start"

Context(t) == [tid |-> t, fd |-> 1]

Mapping ==
  /\ \A t \in Thread : Enters(t) => Context(t) \in tid_fd_map
  /\ ~RacyLookup => \A n \in tid_fd_map : n.fd = 1

Claiming(f) == frame[f] \in {"no", "fill"}

\* ClaimsExact without counting: what is claimed has a number, and no two calls claim the
\* same one; an entry is filled under its own number or claimed.
Claimed ==
  global_buffer = "live" =>
    /\ \A f \in Frame : Claiming(f) => entry[f] <= global_
    /\ \A f, g \in Frame : Claiming(f) /\ Claiming(g) /\ entry[f] = entry[g] => f = g
    /\ \A i \in 0..BUFFERSIZE :
         slots[i] # Empty => /\ slots[i].no = i /\ i <= global_
                             /\ \A f \in Frame : Claiming(f) => entry[f] # i
    /\ \A i \in 0..BUFFERSIZE :
         slots[i] = Empty /\ 0 < i /\ i <= global_ => \E f \in Frame : Claiming(f) /\ entry[f] = i

\* What StopBuffer has written so far.
Flushed ==
  /\ file \in Seq(Slot)
  /\ global_buffer = "live" /\ pc[Main] # "flush" => file = <<>>
  /\ pc[Main] = "flush" => Len(file) <= global_ + 1
  /\ pc[Main] = "null" => Len(file) = global_ + 1
  /\ pc[Main] \in {"flush", "null"} => \A i \in 0..BUFFERSIZE : i < Len(file) => file[i + 1] = slots[i]
  /\ pc[Main] = "null" => \A i \in 1..BUFFERSIZE : i <= global_ => slots[i] # Empty

RInv == Typed /\ Phases /\ Idleness /\ Mapping /\ Claimed

-----------------------------------------------------------------------------
\* The frames of a thread: WriteRecord in user code and in its handler.
LEMMA Frames ==
  /\ \A t \in Thread : <<t, "user">> \in Frame /\ <<t, "handler">> \in Frame
  /\ \A f \in Frame : f[1] \in Thread /\ (f = <<f[1], "user">> \/ f = <<f[1], "handler">>)
BY DEF Frame

\* The main thread goes on to the next point.
LEMMA MainGoes ==
  ASSUME Typed, NEW to, Goto(Main, to)
  PROVE  pc'[Main] = to
BY DEF Goto, Typed, Thread

\* WriteRecord fills its entry with a record of that number, inside the array.
LEMMA WriteTyped ==
  ASSUME Typed, NEW f \in Frame, WriteRecord(f)
  PROVE  Typed'
<1> USE DEF signals, buffer, contexts, writers
<1>1. f \in Frame /\ BUFFERSIZE \in Nat /\ 0 \in Nat /\ global_ \in Nat /\ entry[f] \in Nat
  BY SizeAssumption DEF Typed, TypeOK
<1>2. ASSUME UNCHANGED <<racez_enable, sig_enable, disposition, global_buffer, tid_fd_map, map_mutex,
                         pmu, pending, pc, handler, used>>,
             outcome' \in {"running", "assert", "sigio", "bad_access"},
             global_' \in Nat, slots' \in [0..BUFFERSIZE -> Slot],
             NEW x \in {"none", "no", "fill"}, NEW e \in Nat,
             UNCHANGED writers \/ (frame' = [frame EXCEPT ![f] = x] /\ entry' = [entry EXCEPT ![f] = e]),
             x = "fill" => e <= BUFFERSIZE, x # "none" => e > 0
      PROVE  Typed'
  <2>1. frame' \in [Frame -> {"none", "xadd", "no", "fill"}] /\ entry' \in [Frame -> Nat]
    BY <1>1, <1>2, Zenon DEF Typed, TypeOK
  <2>2. ASSUME NEW g \in Frame
        PROVE  /\ frame'[g] = "fill" => entry'[g] <= BUFFERSIZE
               /\ frame'[g] \in {"no", "fill"} => entry'[g] > 0
    <3>1. CASE UNCHANGED writers \/ g # f
      <4>1. frame'[g] = frame[g] /\ entry'[g] = entry[g]
        BY <1>2, <2>2, <3>1, Zenon DEF Typed, TypeOK
      <4> QED
        BY <2>2, <4>1, Zenon DEF Typed, TypeOK
    <3>2. CASE ~(UNCHANGED writers) /\ g = f
      <4>1. frame'[g] = x /\ entry'[g] = e
        BY <1>1, <1>2, <3>2, Zenon DEF Typed, TypeOK
      <4> QED
        BY <1>2, <4>1, Zenon
    <3> QED
      BY <3>1, <3>2, Zenon
  <2> QED
    BY <1>1, <1>2, <2>1, <2>2, Zenon DEF Typed, TypeOK
<1>3. CASE TakeEntry(f)
  <2>1. global_ + 1 \in Nat /\ global_ + 1 > 0
    BY <1>1
  <2> QED
    BY <1>2, <1>3, <2>1, Zenon DEF TakeEntry, AtomicIncrement, Returned, Dies, Typed, TypeOK
<1>4. CASE CheckEntry(f)
  <2>1. entry[f] > 0 /\ (~TooFar(entry[f]) => entry[f] <= BUFFERSIZE)
    BY <1>1, <1>4 DEF CheckEntry, TooFar, Typed
  <2>2. outcome' \in {"running", "assert", "sigio", "bad_access"} /\ global_' \in Nat
        /\ slots' \in [0..BUFFERSIZE -> Slot]
    BY <1>4 DEF CheckEntry, Dies, Typed, TypeOK
  <2>3. CASE TooFar(entry[f])
    BY <1>1, <1>2, <1>4, <2>2, <2>3 DEF CheckEntry, Dies
  <2>4. CASE ~TooFar(entry[f])
    BY <1>1, <1>2, <1>4, <2>1, <2>2, <2>4 DEF CheckEntry, Dies
  <2> QED
    BY <2>3, <2>4
<1>5. CASE FillEntry(f)
  <2>1. entry[f] \in 1..BUFFERSIZE /\ entry[f] \in 0..BUFFERSIZE
    BY <1>1, <1>5 DEF FillEntry, Typed, TypeOK
  <2>2. [no |-> entry[f], tid |-> f[1]] \in Slot
    BY <2>1, Frames DEF Slot
  <2>3. outcome' \in {"running", "assert", "sigio", "bad_access"} /\ global_' \in Nat
        /\ slots' \in [0..BUFFERSIZE -> Slot]
    BY <1>5, <2>1, <2>2, Zenon DEF FillEntry, Dies, Typed, TypeOK
  <2> QED
    BY <1>1, <1>2, <1>5, <2>3 DEF FillEntry, Dies
<1> QED
  BY <1>3, <1>4, <1>5 DEF WriteRecord

\* Every step of the runtime keeps the types.
LEMMA TypedStep ==
  ASSUME Typed, [Next]_vars
  PROVE  Typed'
<1> USE SizeAssumption, ThreadAssumption, Frames DEF Typed, TypeOK, Goto, Runs, signals, buffer,
        contexts, writers
<1> Main \in Thread /\ \A t \in Worker : t \in Thread /\ t # Main
  BY DEF Thread
<1>1. CASE UNCHANGED vars
  BY <1>1 DEF vars
<1>2. CASE MainStep
  <2>1. CASE InitBuffer
    <3>1. [i \in 0..BUFFERSIZE |-> Empty] \in [0..BUFFERSIZE -> Slot]
      BY DEF Slot
    <3>2. used'.starts \in Nat
      BY <2>1 DEF InitBuffer
    <3>3. slots' \in [0..BUFFERSIZE -> Slot] /\ global_' \in Nat
      BY <2>1, <3>1 DEF InitBuffer
    <3>4. pc'[Main] \in MainLabel /\ pc' \in [Thread -> MainLabel \cup WorkerLabel]
          /\ \A t \in Worker : pc'[t] \in WorkerLabel
      BY <2>1 DEF InitBuffer, MainLabel
    <3> QED
      BY <2>1, <3>2, <3>3, <3>4 DEF InitBuffer
  <2>2. CASE SetupSignalHandler
    BY <2>2, Zenon DEF SetupSignalHandler, InstallHandler, MainLabel
  <2>3. CASE StartEnable
    BY <2>3 DEF StartEnable, MainLabel
  <2>4. CASE CreateCall
    BY <2>4, Zenon DEF CreateCall, HeapCall, BeginWrite, MainLabel
  <2>5. CASE StopCall
    BY <2>5 DEF StopCall, ClearEnable, MainLabel
  <2>6. CASE StopContexts
    <3>1. pmu' \in [Thread -> {"off", "on", "masked"}] /\ pmu'[Main] = "off"
      BY <2>6 DEF StopContexts
    <3> QED
      BY <2>6, <3>1, Zenon DEF StopContexts, MainLabel
  <2>7. CASE DisableSignalHandler
    BY <2>7 DEF DisableSignalHandler, MainLabel
  <2>8. CASE FlushEntry
    BY <2>8 DEF FlushEntry
  <2>9. CASE FreeStart
    BY <2>9, Zenon DEF FreeStart, HeapCall, BeginWrite, MainLabel
  <2>10. CASE ClearBuffer
    BY <2>10 DEF ClearBuffer, MainLabel
  <2>11. ASSUME NEW t \in Worker, CreateThread(t) PROVE Typed'
    BY <2>11 DEF CreateThread, MainLabel, WorkerLabel
  <2> HIDE DEF Typed
  <2> QED
    BY <1>2, <2>1, <2>2, <2>3, <2>4, <2>5, <2>6, <2>7, <2>8, <2>9, <2>10, <2>11 DEF MainStep
<1>3. ASSUME NEW t \in Thread, ThreadStep(t) PROVE Typed'
  <2>1. CASE LogCall(t)
    <3>1. used'.starts = used.starts
      BY <2>1 DEF LogCall
    <3> QED
      BY <2>1, <3>1, Zenon DEF LogCall, BeginWrite
  <2>2. CASE StartFunc(t)
    <3>1. PICK to \in {"attach", "map", "user"} : pc' = [pc EXCEPT ![t] = to]
      BY <2>2, Zenon DEF StartFunc, Goto
    <3>2. t # Main
      BY <2>2, Zenon DEF StartFunc, Runs, MainLabel, Typed
    <3>3. /\ pc' \in [Thread -> MainLabel \cup WorkerLabel]
          /\ pc'[Main] \in MainLabel /\ \A u \in Worker : pc'[u] \in WorkerLabel
      BY <3>1, <3>2, Zenon DEF Typed, MainLabel, WorkerLabel, Thread
    <3> QED
      BY <2>2, <3>3, Zenon DEF StartFunc
  <2>3. CASE LockMap(t)
    BY <2>3 DEF LockMap, MainLabel, WorkerLabel, Thread
  <2>4. CASE InsertFd(t)
    <3>1. t \in Worker
      BY <2>4 DEF InsertFd, MainLabel, Thread
    <3>2. tid_fd_map' \subseteq Node
      BY <2>4, <3>1 DEF InsertFd, MapWith, Node
    <3> QED
      BY <2>4, <3>1, <3>2 DEF InsertFd, UnlockMap, MainLabel, WorkerLabel
  <2>5. CASE SelfStart(t)
    BY <2>5 DEF SelfStart, MainLabel, WorkerLabel
  <2>6. CASE Exit(t)
    BY <2>6 DEF Exit, MainLabel, WorkerLabel, Thread
  <2>7. CASE WriteRecord(<<t, "user">>)
    BY <2>7, WriteTyped, Zenon
  <2> HIDE DEF Typed
  <2> QED
    BY <1>3, <2>1, <2>2, <2>3, <2>4, <2>5, <2>6, <2>7 DEF ThreadStep
<1>4. ASSUME NEW t \in Thread, HandlerStep(t) PROVE Typed'
  <2>1. CASE Deliver(t)
    BY <2>1, Zenon DEF Deliver
  <2>2. CASE HandlerLookup(t)
    <3>1. t \in Worker
      BY <2>2 DEF HandlerLookup, Thread
    <3>2. tid_fd_map' \subseteq Node
      BY <2>2, <3>1 DEF HandlerLookup, Node
    <3> QED
      BY <2>2, <3>1, <3>2 DEF HandlerLookup
  <2>3. CASE HandlerWrite(t)
    BY <2>3, ZenonT(40) DEF HandlerWrite, BeginWrite
  <2>4. CASE HandlerRestart(t)
    BY <2>4 DEF HandlerRestart, Unmask
  <2>5. CASE WriteRecord(<<t, "handler">>)
    BY <2>5, WriteTyped, Zenon
  <2> HIDE DEF Typed
  <2> QED
    BY <1>4, <2>1, <2>2, <2>3, <2>4, <2>5 DEF HandlerStep
<1>5. ASSUME NEW t \in Thread, Overflow(t) PROVE Typed'
  <2>1. used'.starts = used.starts
    BY <1>5 DEF Overflow
  <2> QED
    BY <1>5, <2>1 DEF Overflow
<1> HIDE DEF Typed
<1> QED
  BY <1>1, <1>2, <1>3, <1>4, <1>5 DEF Next

-----------------------------------------------------------------------------
\* What a thread, its handler and its context do leaves racez_start and racez_stop where
\* they are.
LEMMA ControlStays ==
  ASSUME Typed, NEW t \in Thread, ThreadStep(t) \/ HandlerStep(t) \/ Overflow(t)
  PROVE  /\ UNCHANGED <<racez_enable, sig_enable, disposition, global_buffer, file>>
         /\ pc'[Main] = pc[Main] /\ used'.starts = used.starts
<1> USE DEF signals, buffer, contexts, writers
<1>1. pc[Main] \in MainLabel /\ pc \in [Thread -> MainLabel \cup WorkerLabel]
  BY DEF Typed
<1>2. CASE LogCall(t)
  BY <1>2 DEF LogCall
<1>3. CASE StartFunc(t) \/ LockMap(t) \/ InsertFd(t) \/ SelfStart(t) \/ Exit(t)
  <2>1. t # Main
    BY <1>1, <1>3 DEF StartFunc, LockMap, InsertFd, SelfStart, Exit, Runs, MainLabel
  <2>2. UNCHANGED <<racez_enable, sig_enable, disposition, global_buffer, file, used>>
    BY <1>3 DEF StartFunc, LockMap, InsertFd, SelfStart, Exit
  <2>3. \E to : Goto(t, to)
    BY <1>3 DEF StartFunc, LockMap, InsertFd, SelfStart, Exit
  <2> QED
    BY <1>1, <2>1, <2>2, <2>3 DEF Goto
<1>4. ASSUME NEW f \in Frame, WriteRecord(f)
      PROVE  /\ UNCHANGED <<racez_enable, sig_enable, disposition, global_buffer, file>>
             /\ pc' = pc /\ used' = used
  BY <1>4 DEF WriteRecord, TakeEntry, CheckEntry, FillEntry, AtomicIncrement, Dies
<1>5. CASE Deliver(t) \/ HandlerLookup(t) \/ HandlerWrite(t) \/ HandlerRestart(t)
  BY <1>5 DEF Deliver, HandlerLookup, HandlerWrite, HandlerRestart
<1>6. CASE Overflow(t)
  BY <1>6 DEF Overflow
<1> QED
  BY <1>2, <1>3, <1>4, <1>5, <1>6, Frames DEF ThreadStep, HandlerStep

\* racez_start and racez_stop take their steps in this order.
LEMMA PhasesStep ==
  ASSUME Typed, Phases, [Next]_vars
  PROVE  Phases'
<1> USE DEF signals, buffer, contexts, writers
<1>1. /\ pc[Main] \in MainLabel /\ Main \in Thread /\ pc \in [Thread -> MainLabel \cup WorkerLabel]
      /\ racez_enable \in {0, 1} /\ sig_enable \in BOOLEAN /\ used.starts \in Nat
  BY DEF Typed, TypeOK, Thread
<1>2. CASE UNCHANGED vars
  BY <1>2 DEF vars, Phases
<1>3. ASSUME NEW t \in Thread, ThreadStep(t) \/ HandlerStep(t) \/ Overflow(t) PROVE Phases'
  BY <1>3, ControlStays DEF Phases
<1>4. CASE MainStep
  <2> USE DEF Runs, Goto, Phases
  <2>1. CASE InitBuffer
    <3>1. global_buffer = "null" /\ pc'[Main] = "setup" /\ global_buffer' = "live"
      BY <1>1, <2>1 DEF InitBuffer
    <3>2. used'.starts = used.starts + 1
      BY <2>1 DEF InitBuffer
    <3>3. racez_enable' = 0 /\ sig_enable' = sig_enable
      BY <2>1 DEF InitBuffer
    <3>4. sig_enable => used.starts > 0
      BY <1>1
    <3> QED
      BY <1>1, <3>1, <3>2, <3>3, <3>4
  <2>2. CASE SetupSignalHandler
    <3>1. racez_enable' = racez_enable /\ global_buffer' = global_buffer /\ used' = used
          /\ pc[Main] = "setup"
      BY <2>2 DEF SetupSignalHandler
    <3>2. \/ pc' = pc /\ sig_enable /\ sig_enable' = sig_enable /\ disposition' = disposition
          \/ pc'[Main] = "enable" /\ disposition' = "handler"
      BY <1>1, <2>2 DEF SetupSignalHandler, InstallHandler
    <3> QED
      BY <1>1, <3>1, <3>2
  <2>3. CASE StartEnable
    BY <1>1, <2>3 DEF StartEnable
  <2>4. CASE CreateCall
    BY <1>1, <2>4 DEF CreateCall
  <2>5. CASE StopCall
    BY <1>1, <2>5 DEF StopCall, ClearEnable
  <2>6. CASE StopContexts
    BY <1>1, <2>6 DEF StopContexts
  <2>7. CASE DisableSignalHandler
    BY <1>1, <2>7 DEF DisableSignalHandler
  <2>8. CASE FlushEntry
    BY <1>1, <2>8 DEF FlushEntry
  <2>9. CASE FreeStart
    BY <1>1, <2>9 DEF FreeStart
  <2>10. CASE ClearBuffer
    BY <1>1, <2>10 DEF ClearBuffer
  <2>11. ASSUME NEW t \in Worker, CreateThread(t) PROVE Phases'
    <3>1. t # Main /\ t \in Thread
      BY ThreadAssumption DEF Thread
    <3> QED
      BY <1>1, <2>11, <3>1 DEF CreateThread
  <2> HIDE DEF Phases
  <2> QED
    BY <1>4, <2>1, <2>2, <2>3, <2>4, <2>5, <2>6, <2>7, <2>8, <2>9, <2>10, <2>11 DEF MainStep
<1> QED
  BY <1>2, <1>3, <1>4 DEF Next

-----------------------------------------------------------------------------
\* A step leaves a thread alone.
Rests(u) ==
  /\ pmu'[u] = pmu[u] /\ pending'[u] = pending[u] /\ handler'[u] = handler[u] /\ pc'[u] = pc[u]
  /\ frame'[<<u, "user">>] = frame[<<u, "user">>]
  /\ frame'[<<u, "handler">>] = frame[<<u, "handler">>]

\* WriteRecord goes on in one frame, that of the handler if there is one.
LEMMA WriteMoves ==
  ASSUME Typed, NEW f \in Frame, WriteRecord(f)
  PROVE  /\ UNCHANGED <<pmu, pending, handler, pc>>
         /\ outcome = "running" /\ Active(f) /\ frame[f] # "none"
         /\ \A g \in Frame : g # f => frame'[g] = frame[g]
<1>1. frame \in [Frame -> {"none", "xadd", "no", "fill"}]
  BY DEF Typed, TypeOK
<1>2. \/ frame' = frame \/ \E x : frame' = [frame EXCEPT ![f] = x]
  BY DEF WriteRecord, TakeEntry, CheckEntry, FillEntry, AtomicIncrement, Dies, writers
<1>3. /\ UNCHANGED <<pmu, pending, handler, pc>>
      /\ outcome = "running" /\ Active(f) /\ frame[f] # "none"
  BY DEF WriteRecord, TakeEntry, CheckEntry, FillEntry
<1> QED
  BY <1>1, <1>2, <1>3

\* A thread's steps, those of its handler and the overflow of its counter leave the
\* other threads alone.
LEMMA OthersRest ==
  ASSUME Typed, NEW t \in Thread, ThreadStep(t) \/ HandlerStep(t) \/ Overflow(t),
         NEW u \in Thread, u # t
  PROVE  Rests(u)
<1> USE DEF writers
<1>1. /\ pmu \in [Thread -> {"off", "on", "masked"}] /\ pending \in [Thread -> BOOLEAN]
      /\ handler \in [Thread -> {"none", "lookup", "sample", "second", "restart"}]
      /\ pc \in [Thread -> MainLabel \cup WorkerLabel]
      /\ frame \in [Frame -> {"none", "xadd", "no", "fill"}]
      /\ t \in Thread /\ u \in Thread /\ u # t
  BY DEF Typed, TypeOK
<1>2. ASSUME NEW f \in Frame, f[1] = t, WriteRecord(f) PROVE Rests(u)
  <2>1. <<u, "user">> # f /\ <<u, "handler">> # f
    BY <1>1, <1>2, Frames
  <2> QED
    BY <1>2, <2>1, WriteMoves, Frames DEF Rests
<1>3. CASE LogCall(t) \/ HandlerWrite(t)
  <2>1. UNCHANGED <<pmu, pending, pc>> /\ (handler' = handler \/ \E x : handler' = [handler EXCEPT ![t] = x])
    BY <1>3 DEF LogCall, HandlerWrite
  <2>2. frame' = frame \/ BeginWrite(<<t, "user">>) \/ BeginWrite(<<t, "handler">>)
    BY <1>3 DEF LogCall, HandlerWrite
  <2>3. frame'[<<u, "user">>] = frame[<<u, "user">>] /\ frame'[<<u, "handler">>] = frame[<<u, "handler">>]
    BY <1>1, <2>2, Frames DEF BeginWrite
  <2> QED
    BY <1>1, <2>1, <2>3 DEF Rests
<1>4. CASE StartFunc(t) \/ LockMap(t) \/ InsertFd(t) \/ SelfStart(t) \/ Exit(t)
  <2>1. (\E to : Goto(t, to)) /\ UNCHANGED <<handler, frame>>
        /\ (pending' = pending \/ pending' = [pending EXCEPT ![t] = FALSE])
    BY <1>4 DEF StartFunc, LockMap, InsertFd, SelfStart, Exit
  <2>2. pmu' = pmu \/ \E x : pmu' = [pmu EXCEPT ![t] = x]
    BY <1>4 DEF StartFunc, LockMap, InsertFd, SelfStart, Exit
  <2> QED
    BY <1>1, <2>1, <2>2 DEF Rests, Goto
<1>5. CASE Deliver(t) \/ HandlerLookup(t)
  BY <1>1, <1>5 DEF Deliver, HandlerLookup, Rests
<1>6. CASE HandlerRestart(t) \/ Overflow(t)
  BY <1>1, <1>6 DEF HandlerRestart, Overflow, Rests
<1> QED
  BY <1>2, <1>3, <1>4, <1>5, <1>6, Frames DEF ThreadStep, HandlerStep

\* What a thread does with its frames, its context and its signals, only a thread does
\* that is past its start, and with racez off only one that racez_stop did not wait for.
LEMMA OwnIdleness ==
  ASSUME Typed, NEW t \in Worker, IdleWorker(t), ThreadStep(t) \/ HandlerStep(t) \/ Overflow(t)
  PROVE  IdleWorker(t)'
<1> USE DEF writers
<1>1. t \in Thread
  BY DEF Thread
<1>2. /\ pmu \in [Thread -> {"off", "on", "masked"}] /\ pending \in [Thread -> BOOLEAN]
      /\ handler \in [Thread -> {"none", "lookup", "sample", "second", "restart"}]
      /\ pc \in [Thread -> MainLabel \cup WorkerLabel]
      /\ frame \in [Frame -> {"none", "xadd", "no", "fill"}]
      /\ <<t, "user">> \in Frame /\ <<t, "handler">> \in Frame
      /\ <<t, "user">> # <<t, "handler">>
  BY <1>1, Frames DEF Typed, TypeOK
<1>3. Quiet' <=> Quiet
  BY <1>1, ControlStays DEF Quiet
<1>4. racez_enable \in {0, 1} /\ racez_enable' = racez_enable
  BY <1>1, ControlStays DEF Typed, TypeOK
<1>5. CASE LogCall(t)
  <2>1. ~Quiet
    BY <1>5 DEF LogCall, Quiet
  <2>2. pc[t] = "user" /\ handler[t] = "none" /\ UNCHANGED <<pc, handler>>
    BY <1>5 DEF LogCall, Runs
  <2>3. frame'[<<t, "handler">>] = frame[<<t, "handler">>]
    BY <1>2, <1>5 DEF LogCall, BeginWrite
  <2> QED
    BY <1>3, <2>1, <2>2, <2>3 DEF IdleWorker
<1>6. CASE StartFunc(t)
  <2>1. pc[t] # "user" /\ UNCHANGED <<pmu, pending, handler, frame>>
    BY <1>6 DEF StartFunc, Runs
  <2>2. Quiet => pc'[t] = "user"
    BY <1>1, <1>2, <1>6 DEF StartFunc, Runs, Goto, IdleWorker, Quiet
  <2> QED
    BY <1>3, <2>1, <2>2 DEF IdleWorker, Idle
<1>7. CASE LockMap(t) \/ InsertFd(t)
  <2>1. pc[t] \in {"map", "insert"} /\ UNCHANGED <<pmu, pending, handler, frame>>
    BY <1>7 DEF LockMap, InsertFd, Runs
  <2> QED
    BY <1>3, <2>1, Zenon DEF IdleWorker, Idle
<1>8. CASE SelfStart(t)
  <2>1. pc[t] = "self_start" /\ pc'[t] = "user" /\ UNCHANGED <<handler, frame>>
    BY <1>1, <1>2, <1>8 DEF SelfStart, Runs, Goto
  <2> QED
    BY <1>3, <2>1 DEF IdleWorker
<1>9. CASE Exit(t)
  <2>1. /\ handler[t] = "none" /\ frame[<<t, "user">>] = "none" /\ UNCHANGED <<handler, frame>>
        /\ pmu'[t] = "off" /\ ~pending'[t] /\ pc'[t] = "exited"
    BY <1>1, <1>2, <1>9, Zenon DEF Exit, Runs, Goto
  <2> QED
    BY <2>1 DEF IdleWorker, Idle
<1>10. CASE Overflow(t)
  <2>1. pmu[t] # "off" /\ UNCHANGED <<pc, handler, frame>>
    BY <1>10 DEF Overflow
  <2> QED
    BY <1>3, <2>1 DEF IdleWorker, Idle
<1>11. CASE Deliver(t)
  <2>1. pending[t] /\ UNCHANGED <<pc, frame>> /\ handler[t] = "none"
    BY <1>11, Zenon DEF Deliver
  <2> QED
    BY <1>3, <2>1 DEF IdleWorker, Idle
<1>12. CASE HandlerLookup(t) \/ HandlerRestart(t)
  <2>1. handler[t] # "none" /\ UNCHANGED <<pc, frame>>
        /\ (HandlerRestart(t) => frame[<<t, "handler">>] = "none")
        /\ (HandlerLookup(t) => handler'[t] = "sample")
    BY <1>1, <1>2, <1>12, Zenon DEF HandlerLookup, HandlerRestart
  <2> QED
    BY <1>3, <1>12, <2>1 DEF IdleWorker, Idle
<1>13. CASE HandlerWrite(t)
  <2>1. handler[t] # "none" /\ handler'[t] # "none" /\ pc' = pc
    BY <1>1, <1>2, <1>13, Zenon DEF HandlerWrite
  <2> QED
    BY <1>3, <2>1 DEF IdleWorker, Idle
<1>14. CASE WriteRecord(<<t, "user">>)
  <2>1. /\ UNCHANGED <<handler, pc>> /\ frame[<<t, "user">>] # "none"
        /\ frame'[<<t, "handler">>] = frame[<<t, "handler">>]
    BY <1>2, <1>14, WriteMoves
  <2> QED
    BY <1>3, <2>1 DEF IdleWorker, Idle
<1>15. CASE WriteRecord(<<t, "handler">>)
  <2>1. UNCHANGED <<handler, pc>> /\ frame[<<t, "handler">>] # "none"
    BY <1>2, <1>15, WriteMoves
  <2> QED
    BY <1>3, <2>1, Zenon DEF IdleWorker, Idle
<1> QED
  BY <1>5, <1>6, <1>7, <1>8, <1>9, <1>10, <1>11, <1>12, <1>13, <1>14, <1>15 DEF ThreadStep, HandlerStep

\* racez_start, racez_stop and pthread_create stop contexts of the workers, create them,
\* and do nothing else to them.
LEMMA MainLeavesWorkers ==
  ASSUME Typed, MainStep, NEW u \in Worker
  PROVE  /\ pmu'[u] \in {pmu[u], "off"} /\ pending'[u] = pending[u] /\ handler'[u] = handler[u]
         /\ pc'[u] = pc[u] \/ (pc[u] = "new" /\ pc'[u] = "born")
         /\ frame'[<<u, "user">>] = frame[<<u, "user">>]
         /\ frame'[<<u, "handler">>] = frame[<<u, "handler">>]
<1> USE DEF writers
<1>1. u \in Thread /\ Main \in Thread /\ u # Main
  BY ThreadAssumption DEF Thread
<1>2. /\ pmu \in [Thread -> {"off", "on", "masked"}]
      /\ pc \in [Thread -> MainLabel \cup WorkerLabel]
      /\ frame \in [Frame -> {"none", "xadd", "no", "fill"}]
  BY Zenon DEF Typed, TypeOK
<1>3. UNCHANGED <<pending, handler>>
  BY Zenon DEF MainStep, InitBuffer, SetupSignalHandler, StartEnable, CreateCall, StopCall, StopContexts,
         DisableSignalHandler, FlushEntry, FreeStart, ClearBuffer, CreateThread
<1>4. pmu' = pmu \/ pmu' = [t \in Thread |-> IF t \in StoppedTids THEN "off" ELSE pmu[t]]
  BY Zenon DEF MainStep, InitBuffer, SetupSignalHandler, StartEnable, CreateCall, StopCall, StopContexts,
         DisableSignalHandler, FlushEntry, FreeStart, ClearBuffer, CreateThread
<1>5. frame' = frame \/ BeginWrite(<<Main, "user">>)
  BY DEF MainStep, InitBuffer, SetupSignalHandler, StartEnable, CreateCall, StopCall, StopContexts,
         DisableSignalHandler, FlushEntry, FreeStart, ClearBuffer, CreateThread, HeapCall
<1>6. frame'[<<u, "user">>] = frame[<<u, "user">>] /\ frame'[<<u, "handler">>] = frame[<<u, "handler">>]
  BY <1>1, <1>2, <1>5, Frames, Zenon DEF BeginWrite
<1>7. pc' = pc \/ (\E to : Goto(Main, to)) \/ \E t \in Worker : CreateThread(t)
  BY DEF MainStep, InitBuffer, SetupSignalHandler, StartEnable, CreateCall, StopCall, StopContexts,
         DisableSignalHandler, FlushEntry, FreeStart, ClearBuffer
<1>8. pc'[u] = pc[u] \/ (pc[u] = "new" /\ pc'[u] = "born")
  <2>1. ASSUME NEW t \in Worker, CreateThread(t) PROVE pc'[u] = pc[u] \/ (pc[u] = "new" /\ pc'[u] = "born")
    BY <1>1, <1>2, <2>1 DEF CreateThread
  <2> QED
    BY <1>1, <1>2, <1>7, <2>1 DEF Goto
<1> QED
  BY <1>1, <1>2, <1>3, <1>4, <1>6, <1>8

\* With racez off no record of the main thread is under way: racez_enable is cleared
\* before StopBuffer calls free.
LEMMA MainIdleness ==
  ASSUME Typed, Phases, Idleness, MainStep
  PROVE  /\ frame'[<<Main, "handler">>] = "none"
         /\ racez_enable' = 0 => frame'[<<Main, "user">>] = "none"
<1> USE DEF writers
<1>1. /\ Main \in Thread /\ racez_enable \in {0, 1}
      /\ frame \in [Frame -> {"none", "xadd", "no", "fill"}]
      /\ <<Main, "user">> \in Frame /\ <<Main, "handler">> \in Frame
      /\ <<Main, "user">> # <<Main, "handler">>
  BY Frames DEF Typed, TypeOK, Thread
<1>2. frame[<<Main, "handler">>] = "none" /\ (racez_enable = 0 => frame[<<Main, "user">>] = "none")
  BY DEF Idleness
<1>3. CASE CreateCall \/ FreeStart
  BY <1>1, <1>2, <1>3 DEF CreateCall, FreeStart, HeapCall, BeginWrite
<1>4. CASE StopCall
  BY <1>2, <1>4 DEF StopCall, Runs
<1>5. CASE ~(CreateCall \/ FreeStart \/ StopCall)
  <2>1. frame' = frame /\ (racez_enable' = racez_enable \/ racez_enable' = 1)
    BY <1>5 DEF MainStep, InitBuffer, SetupSignalHandler, StartEnable, StopContexts,
                DisableSignalHandler, FlushEntry, ClearBuffer, CreateThread
  <2> QED
    BY <1>1, <1>2, <2>1, Zenon
<1> QED
  BY <1>3, <1>4, <1>5

\* Every step of the runtime keeps idle threads idle.
LEMMA IdlenessStep ==
  ASSUME Typed, Phases, Idleness, [Next]_vars
  PROVE  Idleness'
<1>1. CASE UNCHANGED vars
  <2>1. UNCHANGED <<pmu, pending, handler, frame, pc, racez_enable, used>>
    BY <1>1, Zenon DEF vars, writers
  <2> QED
    BY <2>1 DEF Idleness, IdleWorker, Idle, Quiet
<1>2. ASSUME NEW t \in Thread, ThreadStep(t) \/ HandlerStep(t) \/ Overflow(t) PROVE Idleness'
  <2>1. racez_enable' = racez_enable /\ (Quiet' <=> Quiet)
    BY <1>2, ControlStays DEF Quiet
  <2>2. ASSUME NEW u \in Worker PROVE IdleWorker(u)'
    <3>1. CASE u = t
      BY <1>2, <2>2, <3>1, OwnIdleness, Zenon DEF Idleness
    <3>2. CASE u # t
      <4>1. u \in Thread
        BY <2>2 DEF Thread
      <4>2. Rests(u)
        BY <1>2, <3>2, <4>1, OthersRest
      <4> QED
        BY <2>1, <2>2, <4>2 DEF Idleness, IdleWorker, Idle, Rests
    <3> QED
      BY <3>1, <3>2
  <2>3. frame'[<<Main, "handler">>] = "none" /\ (racez_enable = 0 => frame'[<<Main, "user">>] = "none")
    <3>1. Main \in Thread /\ <<Main, "user">> \in Frame /\ <<Main, "handler">> \in Frame
          /\ <<Main, "user">> # <<Main, "handler">>
      BY Frames, Zenon DEF Thread
    <3>2. CASE t # Main
      BY <1>2, <3>1, <3>2, OthersRest, Zenon DEF Rests, Idleness
    <3>3. CASE t = Main
      <4>1. CASE LogCall(Main)
        BY <3>1, <4>1 DEF LogCall, BeginWrite, Typed, TypeOK, Idleness
      <4>2. CASE WriteRecord(<<Main, "user">>)
        BY <3>1, <4>2, WriteMoves DEF Idleness
      <4>3. CASE WriteRecord(<<Main, "handler">>)
        BY <3>1, <4>3, WriteMoves DEF Idleness
      <4>4. ~(HandlerStep(Main) /\ ~WriteRecord(<<Main, "handler">>)) /\ ~Overflow(Main)
        BY Zenon DEF HandlerStep, Deliver, HandlerLookup, HandlerWrite, HandlerRestart, Overflow, Typed
      <4>5. CASE StartFunc(Main) \/ LockMap(Main) \/ InsertFd(Main) \/ SelfStart(Main) \/ Exit(Main)
        BY <4>5 DEF StartFunc, LockMap, InsertFd, SelfStart, Exit, writers, Idleness
      <4> QED
        BY <1>2, <3>3, <4>1, <4>2, <4>3, <4>4, <4>5 DEF ThreadStep
    <3> QED
      BY <3>2, <3>3
  <2> QED
    BY <2>1, <2>2, <2>3 DEF Idleness
<1>3. CASE MainStep
  <2>1. ASSUME NEW u \in Worker PROVE IdleWorker(u)'
    <3>1. IdleWorker(u)
      BY <2>1, Zenon DEF Idleness
    <3>2. /\ pmu'[u] \in {pmu[u], "off"} /\ pending'[u] = pending[u] /\ handler'[u] = handler[u]
          /\ pc'[u] = pc[u] \/ (pc[u] = "new" /\ pc'[u] = "born")
          /\ frame'[<<u, "user">>] = frame[<<u, "user">>]
          /\ frame'[<<u, "handler">>] = frame[<<u, "handler">>]
      BY <1>3, <2>1, MainLeavesWorkers, Zenon
    <3>3. CASE StopCall
      <4>1. Quiet' => JoinsFirst
        <5>1. used.starts # 0 /\ used' = used
          BY <3>3 DEF StopCall, Phases
        <5> QED
          BY <5>1 DEF Quiet
      <4>2. Quiet' => pc'[u] \in {"new", "exited", "born"} /\ pc[u] # "user"
        BY <2>1, <3>2, <3>3, <4>1, Zenon DEF StopCall
      <4> QED
        BY <3>1, <3>2, <4>2 DEF IdleWorker, Idle
    <3>4. CASE ~StopCall
      <4>1. racez_enable' = racez_enable \/ racez_enable' = 1
        BY <1>3, <3>4 DEF MainStep, InitBuffer, SetupSignalHandler, StartEnable, CreateCall, StopContexts,
                DisableSignalHandler, FlushEntry, FreeStart, ClearBuffer, CreateThread
      <4>2. used'.starts = 0 => used.starts = 0
        <5>1. CASE InitBuffer
          BY <5>1 DEF InitBuffer, Typed
        <5>2. CASE ~InitBuffer
          BY <1>3, <3>4, <5>2 DEF MainStep, SetupSignalHandler, StartEnable, CreateCall, StopContexts,
                DisableSignalHandler, FlushEntry, FreeStart, ClearBuffer, CreateThread
        <5> QED
          BY <5>1, <5>2
      <4>3. Quiet' => Quiet
        BY <4>1, <4>2 DEF Quiet
      <4> QED
        BY <3>1, <3>2, <4>3, Zenon DEF IdleWorker, Idle
    <3> QED
      BY <3>3, <3>4
  <2> QED
    BY <1>3, <2>1, MainIdleness DEF Idleness
<1> QED
  BY <1>1, <1>2, <1>3 DEF Next

-----------------------------------------------------------------------------
\* A context that was entered into the map stays there: a handler that does not find its
\* thread adds a node, and a thread replaces no node but its own.
LEMMA MapKeeps ==
  ASSUME Typed, Mapping, Next, NEW u \in Thread, Context(u) \in tid_fd_map
  PROVE  Context(u) \in tid_fd_map'
<1> USE DEF contexts
<1>1. CASE MainStep
  BY <1>1 DEF MainStep, InitBuffer, SetupSignalHandler, StartEnable, CreateCall, StopCall, StopContexts,
         DisableSignalHandler, FlushEntry, FreeStart, ClearBuffer, CreateThread
<1>2. ASSUME NEW t \in Thread, InsertFd(t) PROVE Context(u) \in tid_fd_map'
  BY <1>2 DEF InsertFd, MapWith, Context
<1>3. ASSUME NEW t \in Thread, HandlerLookup(t) PROVE Context(u) \in tid_fd_map'
  BY <1>3, Zenon DEF HandlerLookup
<1>4. ASSUME NEW t \in Thread, ThreadStep(t) \/ HandlerStep(t) \/ Overflow(t),
             ~InsertFd(t), ~HandlerLookup(t)
      PROVE  tid_fd_map' = tid_fd_map
  <2>1. ASSUME NEW f \in Frame, WriteRecord(f) PROVE tid_fd_map' = tid_fd_map
    BY <2>1 DEF WriteRecord, TakeEntry, CheckEntry, FillEntry
  <2> QED
    BY <1>4, <2>1, Frames, Zenon DEF ThreadStep, HandlerStep, LogCall, StartFunc, LockMap, SelfStart, Exit,
                      Deliver, HandlerWrite, HandlerRestart, Overflow
<1> QED
  BY <1>1, <1>2, <1>3, <1>4, Zenon DEF Next

\* Every step of the runtime enters a context into the map before it can signal.
LEMMA MappingStep ==
  ASSUME Typed, Mapping, [Next]_vars
  PROVE  Mapping'
<1>1. CASE UNCHANGED vars
  BY <1>1 DEF vars, contexts, Mapping, Enters
<1>2. CASE Next
  <2>1. ASSUME NEW u \in Thread, Enters(u)' PROVE Enters(u) \/ Context(u) \in tid_fd_map'
    <3>1. CASE MainStep
      <4>1. CASE u = Main
        <5>1. pmu'[Main] = "off" /\ ~pending'[Main] /\ handler'[Main] = "none" /\ pc'[Main] \in MainLabel
          BY <1>2, TypedStep DEF Typed
        <5> QED
          BY <2>1, <4>1, <5>1, Zenon DEF Enters, MainLabel
      <4>2. CASE u # Main
        BY <2>1, <3>1, <4>2, MainLeavesWorkers, Zenon DEF Enters, Thread
      <4> QED
        BY <4>1, <4>2, Zenon
    <3>2. ASSUME NEW t \in Thread, ThreadStep(t) \/ HandlerStep(t) \/ Overflow(t)
          PROVE  Enters(u) \/ Context(u) \in tid_fd_map'
      <4>1. CASE u # t
        BY <2>1, <3>2, <4>1, OthersRest, Zenon DEF Rests, Enters
      <4>2. CASE InsertFd(u)
        BY <4>2 DEF InsertFd, MapWith, Context
      <4>3. CASE Overflow(u) \/ HandlerLookup(u) \/ HandlerWrite(u) \/ HandlerRestart(u) \/ Deliver(u)
                 \/ SelfStart(u)
        BY <4>3 DEF Overflow, HandlerLookup, HandlerWrite, HandlerRestart, Deliver, SelfStart, Runs, Enters
      <4>4. CASE LogCall(u) \/ StartFunc(u) \/ LockMap(u) \/ Exit(u)
        <5>1. pc \in [Thread -> MainLabel \cup WorkerLabel]
          BY DEF Typed
        <5>2. pc'[u] # "self_start" \/ pc' = pc
          BY <4>4, <5>1 DEF LogCall, StartFunc, LockMap, Exit, Goto
        <5>3. pmu'[u] # "off" => pmu[u] # "off"
          BY <4>4 DEF LogCall, StartFunc, LockMap, Exit, Typed, TypeOK
        <5>4. pending'[u] => pending[u]
          BY <4>4 DEF LogCall, StartFunc, LockMap, Exit, Typed, TypeOK
        <5>5. handler' = handler
          BY <4>4 DEF LogCall, StartFunc, LockMap, Exit
        <5> QED
          BY <2>1, <5>2, <5>3, <5>4, <5>5 DEF Enters
      <4>5. CASE WriteRecord(<<u, "user">>) \/ WriteRecord(<<u, "handler">>)
        BY <2>1, <4>5, WriteMoves, Frames DEF Enters
      <4> QED
        BY <3>2, <4>1, <4>2, <4>3, <4>4, <4>5 DEF ThreadStep, HandlerStep
    <3> QED
      BY <1>2, <3>1, <3>2 DEF Next
  <2>2. ASSUME NEW u \in Thread, Enters(u)' PROVE Context(u) \in tid_fd_map'
    BY <1>2, <2>1, <2>2, MapKeeps DEF Mapping
  <2>3. ASSUME ~RacyLookup, NEW n \in tid_fd_map' PROVE n.fd = 1
    <3>1. CASE n \in tid_fd_map
      BY <2>3, <3>1 DEF Mapping
    <3>2. ASSUME NEW t \in Thread, InsertFd(t) PROVE n.fd = 1
      BY <2>3, <3>2 DEF InsertFd, MapWith, Mapping
    <3>3. ASSUME NEW t \in Thread, HandlerLookup(t) PROVE n \in tid_fd_map
      <4>1. Context(t) \in tid_fd_map /\ Context(t).tid = t
        BY <3>3 DEF HandlerLookup, Mapping, Enters, Context
      <4> QED
        BY <2>3, <3>3, <4>1, Zenon DEF HandlerLookup, Mapped
    <3>4. tid_fd_map' = tid_fd_map \/ \E t \in Thread : InsertFd(t) \/ HandlerLookup(t)
      <4>1. ASSUME NEW f \in Frame, WriteRecord(f) PROVE tid_fd_map' = tid_fd_map
        BY <4>1, Zenon DEF WriteRecord, TakeEntry, CheckEntry, FillEntry, contexts
      <4>2. CASE MainStep
        BY <4>2, Zenon DEF contexts, MainStep, InitBuffer, SetupSignalHandler, StartEnable, CreateCall, StopCall,
             StopContexts, DisableSignalHandler, FlushEntry, FreeStart, ClearBuffer, CreateThread
      <4> QED
        BY <1>2, <4>1, <4>2, Frames, Zenon
           DEF contexts, Next, ThreadStep, HandlerStep, LogCall, StartFunc, LockMap, SelfStart, Exit,
               Deliver, HandlerWrite, HandlerRestart, Overflow
    <3> QED
      BY <2>3, <3>1, <3>2, <3>3, <3>4
  <2> QED
    BY <2>2, <2>3 DEF Mapping
<1> QED
  BY <1>1, <1>2, Zenon

-----------------------------------------------------------------------------
\* The claims change only in WriteRecord and when the buffer is created or destroyed.
LEMMA ClaimsStay ==
  ASSUME Typed, Claimed, global_buffer' = "live" => global_buffer = "live",
         UNCHANGED <<global_, slots, entry>>,
         \A f \in Frame : Claiming(f)' <=> Claiming(f)
  PROVE  Claimed'
BY DEF Claimed

\* A call of WriteRecord that begins claims nothing yet.
LEMMA BeginClaimsNothing ==
  ASSUME Typed, NEW f \in Frame, frame[f] = "none", BeginWrite(f)
  PROVE  \A g \in Frame : Claiming(g)' <=> Claiming(g)
BY Zenon DEF Typed, TypeOK, BeginWrite, Claiming

\* The locked increment gives each call of WriteRecord an entry of its own.
LEMMA TakeClaims ==
  ASSUME Typed, Claimed, NEW f \in Frame, TakeEntry(f)
  PROVE  Claimed'
<1>1. SUFFICES ASSUME global_buffer' = "live" PROVE Claimed'
  BY Zenon DEF Claimed
<1>2. /\ global_buffer = "live" /\ AtomicIncrement(f) /\ frame[f] = "xadd"
      /\ global_' = global_ + 1 /\ slots' = slots
  BY <1>1 DEF TakeEntry, AtomicIncrement, Dies, buffer
<1>3. global_ \in Nat /\ BUFFERSIZE \in Nat /\ \A g \in Frame : entry[g] \in Nat
  BY SizeAssumption DEF Typed, TypeOK
<1>4. /\ Claiming(f)' /\ entry'[f] = global_ + 1 /\ ~Claiming(f)
      /\ \A g \in Frame : g # f => (Claiming(g)' <=> Claiming(g)) /\ entry'[g] = entry[g]
  BY <1>2, ZenonT(40) DEF AtomicIncrement, Returned, Claiming, Typed, TypeOK
<1>5. \A g \in Frame : Claiming(g) => entry[g] <= global_
  BY <1>2, Zenon DEF Claimed
<1>6. ASSUME NEW g \in Frame, Claiming(g)' PROVE entry'[g] <= global_ + 1
  BY <1>3, <1>4, <1>5, <1>6
<1>7. ASSUME NEW g \in Frame, NEW h \in Frame, Claiming(g)', Claiming(h)', entry'[g] = entry'[h]
      PROVE  g = h
  <2>1. CASE g # f /\ h # f
    BY <1>2, <1>4, <1>7, <2>1, Zenon DEF Claimed
  <2>2. CASE g = f \/ h = f
    BY <1>3, <1>4, <1>5, <1>7, <2>2
  <2> QED
    BY <2>1, <2>2
<1>8. ASSUME NEW i \in 0..BUFFERSIZE, slots[i] # Empty
      PROVE  slots[i].no = i /\ i <= global_ + 1 /\ \A g \in Frame : Claiming(g)' => entry'[g] # i
  <2>1. slots[i].no = i /\ i <= global_ /\ \A g \in Frame : Claiming(g) => entry[g] # i
    BY <1>2, <1>8, Zenon DEF Claimed
  <2> QED
    BY <1>3, <1>4, <2>1
<1>9. ASSUME NEW i \in 0..BUFFERSIZE, slots[i] = Empty, 0 < i, i <= global_ + 1
      PROVE  \E g \in Frame : Claiming(g)' /\ entry'[g] = i
  <2>1. CASE i = global_ + 1
    BY <1>4, <2>1, Zenon
  <2>2. CASE i <= global_
    <3>1. PICK g \in Frame : Claiming(g) /\ entry[g] = i
      BY <1>2, <1>9, <2>2 DEF Claimed
    <3> QED
      BY <1>4, <3>1, Zenon
  <2> QED
    BY <1>3, <1>9, <2>1, <2>2
<1> QED
  BY <1>2, <1>6, <1>7, <1>8, <1>9 DEF Claimed

\* What is given up lies behind the array.
LEMMA CheckClaims ==
  ASSUME Typed, Claimed, NEW f \in Frame, CheckEntry(f)
  PROVE  Claimed'
<1>1. SUFFICES ASSUME global_buffer' = "live" PROVE Claimed'
  BY DEF Claimed
<1>2. /\ global_buffer = "live" /\ frame[f] = "no" /\ global_' = global_ /\ slots' = slots
      /\ frame' = [frame EXCEPT ![f] = IF TooFar(entry[f]) THEN "none" ELSE "fill"]
      /\ entry' = [entry EXCEPT ![f] = IF TooFar(entry[f]) THEN 0 ELSE @]
  BY <1>1, Zenon DEF CheckEntry, Dies, buffer
<1>3. Claiming(f) /\ \A g \in Frame : g # f => (Claiming(g)' <=> Claiming(g)) /\ entry'[g] = entry[g]
  BY <1>2 DEF Claiming, Typed, TypeOK
<1>4. BUFFERSIZE \in Nat /\ entry[f] \in Nat
  BY SizeAssumption, Zenon DEF Typed, TypeOK
<1>5. CASE TooFar(entry[f])
  <2>1. ~Claiming(f)'
    BY <1>2, <1>5 DEF Claiming, Typed, TypeOK
  <2>2. \A i \in 0..BUFFERSIZE : entry[f] # i
    BY <1>4, <1>5 DEF TooFar
  <2>3. ASSUME NEW g \in Frame, Claiming(g)' PROVE g # f /\ Claiming(g) /\ entry'[g] = entry[g]
    <3>1. CASE g = f
      BY <2>1, <2>3, <3>1, Zenon DEF Claiming
    <3> QED
      BY <1>3, <2>3, <3>1, Zenon
  <2>4. \A g \in Frame : Claiming(g)' => entry'[g] <= global_'
    BY <1>2, <2>3 DEF Claimed
  <2>5. \A g, h \in Frame : Claiming(g)' /\ Claiming(h)' /\ entry'[g] = entry'[h] => g = h
    BY <1>2, <2>3, Zenon DEF Claimed
  <2>6. \A i \in 0..BUFFERSIZE :
          slots'[i] # Empty => /\ slots'[i].no = i /\ i <= global_'
                               /\ \A g \in Frame : Claiming(g)' => entry'[g] # i
    BY <1>2, <2>3, Zenon DEF Claimed
  <2>7. ASSUME NEW i \in 0..BUFFERSIZE, slots'[i] = Empty, 0 < i, i <= global_'
        PROVE  \E g \in Frame : Claiming(g)' /\ entry'[g] = i
    <3>1. PICK g \in Frame : Claiming(g) /\ entry[g] = i
      BY <1>2, <2>7, Zenon DEF Claimed
    <3>2. g # f
      BY <2>2, <3>1, Zenon
    <3> QED
      BY <1>3, <3>1, <3>2, Zenon
  <2> QED
    BY <2>4, <2>5, <2>6, <2>7, Zenon DEF Claimed
<1>6. CASE ~TooFar(entry[f])
  <2>1. Claiming(f)' /\ entry' = entry
    BY <1>2, <1>6, Zenon DEF Claiming, Typed, TypeOK
  <2>2. \A g \in Frame : Claiming(g)' <=> Claiming(g)
    BY <1>3, <2>1 DEF Claiming
  <2> QED
    BY <1>2, <2>1, <2>2, ClaimsStay, Zenon
<1> QED
  BY <1>5, <1>6, Zenon

\* An entry is filled by the one call that claims it.
LEMMA FillClaims ==
  ASSUME Typed, Claimed, NEW f \in Frame, FillEntry(f)
  PROVE  Claimed'
<1>1. SUFFICES ASSUME global_buffer' = "live" PROVE Claimed'
  BY DEF Claimed
<1> DEFINE r == [no |-> entry[f], tid |-> f[1]]
<1>2. /\ global_buffer = "live" /\ frame[f] = "fill" /\ global_' = global_
      /\ slots' = [slots EXCEPT ![entry[f]] = r]
      /\ frame' = [frame EXCEPT ![f] = "none"] /\ entry' = [entry EXCEPT ![f] = 0]
  BY <1>1, Zenon DEF FillEntry, Dies, buffer
<1>3. /\ Claiming(f) /\ ~Claiming(f)'
      /\ \A g \in Frame : g # f => (Claiming(g)' <=> Claiming(g)) /\ entry'[g] = entry[g]
  BY <1>2, Zenon DEF Claiming, Typed, TypeOK
<1>4. entry[f] \in 0..BUFFERSIZE /\ entry[f] > 0 /\ entry[f] <= global_
  BY <1>2, <1>3, SizeAssumption DEF Typed, TypeOK, Claimed
<1>5. r # Empty /\ r.no = entry[f]
  BY <1>4 DEF Empty
<1>6. slots'[entry[f]] = r /\ \A i \in 0..BUFFERSIZE : i # entry[f] => slots'[i] = slots[i]
  BY <1>2, <1>4, Zenon DEF Typed, TypeOK
<1> HIDE DEF r
<1>7. \A g \in Frame : Claiming(g)' => g # f /\ Claiming(g) /\ entry'[g] = entry[g] /\ entry[g] # entry[f]
  BY <1>2, <1>3 DEF Claimed
<1>8. ASSUME NEW i \in 0..BUFFERSIZE, slots'[i] # Empty
      PROVE  slots'[i].no = i /\ i <= global_ /\ \A g \in Frame : Claiming(g)' => entry'[g] # i
  <2>1. CASE i = entry[f]
    BY <1>4, <1>5, <1>6, <1>7, <2>1, Zenon
  <2>2. CASE i # entry[f]
    BY <1>2, <1>6, <1>7, <1>8, <2>2 DEF Claimed
  <2> QED
    BY <2>1, <2>2, Zenon
<1>9. ASSUME NEW i \in 0..BUFFERSIZE, slots'[i] = Empty, 0 < i, i <= global_
      PROVE  \E g \in Frame : Claiming(g)' /\ entry'[g] = i
  <2>1. i # entry[f]
    BY <1>5, <1>6, <1>9, Zenon
  <2>2. PICK g \in Frame : Claiming(g) /\ entry[g] = i
    BY <1>2, <1>6, <1>9, <2>1 DEF Claimed
  <2> QED
    BY <1>3, <2>1, <2>2, Zenon
<1> QED
  BY <1>2, <1>7, <1>8, <1>9 DEF Claimed

\* When racez_start creates the buffer no record is under way: racez was never started, or
\* the program has joined its threads before racez_stop.
LEMMA StartsIdle ==
  ASSUME Typed, Idleness, InitBuffer
  PROVE  \A f \in Frame : frame[f] = "none"
<1>1. racez_enable = 0 /\ used.starts < MaxStarts
  BY DEF InitBuffer
<1>2. used.starts = 0 \/ MaxStarts > 1
  BY <1>1, BoundAssumption DEF Typed
<1>3. Quiet
  BY <1>1, <1>2, RestartAssumption DEF Quiet
<1>4. ASSUME NEW t \in Thread PROVE frame[<<t, "user">>] = "none" /\ frame[<<t, "handler">>] = "none"
  BY <1>1, <1>3, <1>4 DEF Idleness, IdleWorker, Idle, Thread
<1> QED
  BY <1>4, Frames, ZenonT(40)

\* Every step of the runtime keeps the claims exact.
LEMMA ClaimedStep ==
  ASSUME Typed, Idleness, Claimed, [Next]_vars
  PROVE  Claimed'
<1> USE DEF buffer, writers
<1>1. CASE UNCHANGED vars
  BY <1>1, ClaimsStay DEF vars, Claiming
<1>2. ASSUME NEW f \in Frame, WriteRecord(f) PROVE Claimed'
  BY <1>2, TakeClaims, CheckClaims, FillClaims DEF WriteRecord
<1>3. ASSUME NEW f \in Frame, frame[f] = "none", BeginWrite(f) \/ UNCHANGED frame,
             UNCHANGED <<global_, slots, entry>>, global_buffer' = "live" => global_buffer = "live"
      PROVE  Claimed'
  <2>1. \A g \in Frame : Claiming(g)' <=> Claiming(g)
    BY <1>3, BeginClaimsNothing DEF Claiming
  <2> QED
    BY <1>3, <2>1, ClaimsStay
<1>4. ASSUME NEW t \in Thread, ThreadStep(t) \/ HandlerStep(t) \/ Overflow(t) PROVE Claimed'
  <2>1. CASE LogCall(t)
    BY <1>3, <1>4, <2>1, Frames, Zenon DEF LogCall, Runs
  <2>2. CASE HandlerWrite(t)
    BY <1>3, <1>4, <2>2, Frames, Zenon DEF HandlerWrite
  <2>3. CASE WriteRecord(<<t, "user">>) \/ WriteRecord(<<t, "handler">>)
    BY <1>2, <1>4, <2>3, Frames
  <2>4. CASE ~(LogCall(t) \/ HandlerWrite(t) \/ WriteRecord(<<t, "user">>) \/ WriteRecord(<<t, "handler">>))
    <3>1. UNCHANGED <<buffer, writers>>
      BY <1>4, <2>4 DEF ThreadStep, HandlerStep, StartFunc, LockMap, InsertFd, SelfStart, Exit,
                    Deliver, HandlerLookup, HandlerRestart, Overflow
    <3> QED
      BY <3>1, ClaimsStay, Zenon DEF Claiming
  <2> QED
    BY <2>1, <2>2, <2>3, <2>4
<1>5. CASE MainStep
  <2>1. CASE InitBuffer
    <3>1. CASE global_buffer # "null"
      <4>1. UNCHANGED <<buffer, writers>>
        BY <2>1, <3>1, Zenon DEF InitBuffer
      <4> QED
        BY <4>1, ClaimsStay DEF Claiming
    <3>2. CASE global_buffer = "null"
      <4>1. \A f \in Frame : ~Claiming(f)'
        BY <2>1, StartsIdle DEF InitBuffer, Claiming
      <4>2. global_' = 0 /\ \A i \in 0..BUFFERSIZE : slots'[i] = Empty
        BY <2>1, <3>2 DEF InitBuffer
      <4>3. BUFFERSIZE \in Nat
        BY SizeAssumption
      <4> QED
        BY <4>1, <4>2, <4>3 DEF Claimed
    <3> QED
      BY <3>1, <3>2
  <2>2. CASE CreateCall \/ FreeStart
    <3>1. /\ frame[<<Main, "user">>] = "none" /\ (BeginWrite(<<Main, "user">>) \/ UNCHANGED frame)
          /\ UNCHANGED <<global_, slots, entry>>
          /\ global_buffer' = "live" => global_buffer = "live"
      BY <2>2 DEF CreateCall, FreeStart, HeapCall, Runs
    <3>2. <<Main, "user">> \in Frame
      BY Frames, Zenon DEF Thread
    <3> QED
      BY <1>3, <3>1, <3>2, Zenon
  <2>3. CASE ~(InitBuffer \/ CreateCall \/ FreeStart)
    <3>1. UNCHANGED <<global_, slots, entry, frame>> /\ (global_buffer' = "live" => global_buffer = "live")
      BY <1>5, <2>3 DEF MainStep, SetupSignalHandler, StartEnable, StopCall, StopContexts,
         DisableSignalHandler, FlushEntry, ClearBuffer, CreateThread
    <3> QED
      BY <3>1, ClaimsStay, Zenon DEF Claiming
  <2> QED
    BY <2>1, <2>2, <2>3
<1> QED
  BY <1>1, <1>4, <1>5 DEF Next

-----------------------------------------------------------------------------
\* A racez that is not started has no record, no context and no buffer.
LEMMA InitRInv == Init => RInv
<1> SUFFICES ASSUME Init PROVE RInv
  BY Zenon
<1> USE DEF Init
<1>1. Main \in Thread /\ \A t \in Worker : t \in Thread /\ t # Main
  BY ThreadAssumption DEF Thread
<1>2. Typed
  <2>1. slots \in [0..BUFFERSIZE -> Slot]
    BY Zenon DEF Slot
  <2>2. pc \in [Thread -> MainLabel \cup WorkerLabel] /\ pc[Main] \in MainLabel
        /\ \A t \in Worker : pc[t] \in WorkerLabel
    BY <1>1, Zenon DEF MainLabel, WorkerLabel
  <2>3. entry \in [Frame -> Nat] /\ frame \in [Frame -> {"none", "xadd", "no", "fill"}]
        /\ \A f \in Frame : frame[f] = "none"
    OBVIOUS
  <2> QED
    BY <1>1, <2>1, <2>2, <2>3, Zenon DEF Typed, TypeOK
<1>3. Phases
  BY <1>1 DEF Phases
<1>4. Idleness
  BY <1>1, Frames, Zenon DEF Idleness, IdleWorker, Idle
<1>5. Mapping
  <2>1. pc[Main] = "user" /\ \A t \in Worker : pc[t] = "new"
    BY <1>1
  <2>2. \A t \in Thread : pc[t] # "self_start"
    BY <2>1 DEF Thread
  <2> QED
    BY <1>1, <2>2 DEF Mapping, Enters
<1>6. Claimed
  BY DEF Claimed
<1> QED
  BY <1>2, <1>3, <1>4, <1>5, <1>6 DEF RInv

\* Every step keeps the invariant.
LEMMA StepRInv == RInv /\ [Next]_vars => RInv'
BY TypedStep, PhasesStep, IdlenessStep, MappingStep, ClaimedStep DEF RInv

\* The runtime's invariant: the types, the order of racez_start and racez_stop, which
\* threads are idle, which contexts are in the map, and which call of WriteRecord owns
\* which entry.
THEOREM RuntimeInvariant == Spec => []RInv
BY InitRInv, StepRInv, PTL DEF Spec

\* The variables of the runtime keep their types, and FillEntry stays inside the array.
THEOREM TypeCorrect == Spec => []TypeOK
<1>1. RInv => TypeOK
  BY DEF RInv, Typed
<1> QED
  BY <1>1, RuntimeInvariant, PTL

\* Each entry of a live buffer belongs to one call of WriteRecord, whatever handlers and
\* threads interleave (racez_bufferdata.cc:33-78).
THEOREM EntriesOwned == Spec => []ClaimsExact
<1>1. RInv => ClaimsExact
  <2>1. SUFFICES ASSUME RInv, global_buffer = "live", NEW i \in 0..BUFFERSIZE
                 PROVE  /\ slots[i] # Empty => slots[i].no = i /\ i <= global_ /\ Claims(i) = {}
                        /\ slots[i] = Empty /\ 0 < i /\ i <= global_ =>
                             \E f \in Frame : Claims(i) = {f}
    BY DEF ClaimsExact
  <2>2. Claimed
    BY <2>1 DEF RInv
  <2>3. slots[i] # Empty => slots[i].no = i /\ i <= global_ /\ Claims(i) = {}
    BY <2>1, <2>2 DEF Claimed, Claims, Claiming
  <2>4. ASSUME slots[i] = Empty, 0 < i, i <= global_
        PROVE  \E f \in Frame : Claims(i) = {f}
    <3>1. PICK f \in Frame : Claiming(f) /\ entry[f] = i
      BY <2>1, <2>2, <2>4, Zenon DEF Claimed
    <3>2. Claims(i) = {f}
      BY <2>1, <2>2, <3>1 DEF Claimed, Claims, Claiming
    <3> QED
      BY <3>1, <3>2, Zenon
  <2> QED
    BY <2>3, <2>4
<1> QED
  BY <1>1, RuntimeInvariant, PTL

\* A thread that finds racez_enable set finds a buffer and a handler, and no context runs
\* before racez_start (racez_preload.c:272-280, racez_pmuprofiler.cc:1003-1005).
THEOREM ReadyWhenEnabled == Spec => []EnabledMeansReady
<1>1. RInv => EnabledMeansReady
  <2>1. SUFFICES ASSUME RInv PROVE EnabledMeansReady
    OBVIOUS
  <2>2. Typed /\ Phases /\ Idleness
    BY <2>1 DEF RInv
  <2>3. racez_enable = 1 => global_buffer = "live" /\ disposition = "handler"
    BY <2>2 DEF Phases
  <2>4. used.starts = 0 => \A t \in Thread : pmu[t] = "off" /\ ~pending[t]
    BY <2>2, Zenon DEF Phases, Typed, Idleness, IdleWorker, Idle, Quiet, Thread
  <2> QED
    BY <2>3, <2>4 DEF EnabledMeansReady
<1> QED
  BY <1>1, RuntimeInvariant, PTL

\* A context that can signal is in the map: pmu_profiler_perthread_attach enters it
\* before pfm_self_start (racez_pmuprofiler.cc:702-706).
THEOREM ContextsAreMapped == Spec => []SampledIsMapped
<1>1. RInv => SampledIsMapped
  BY DEF RInv, Mapping, Enters, Context, SampledIsMapped
<1> QED
  BY <1>1, RuntimeInvariant, PTL

-----------------------------------------------------------------------------
\* Only SelfStart starts a context, and it records one that comes too late.
LEMMA StartsAreRecorded ==
  ASSUME Typed, Next, ContextsStopped, ContextsStopped', NEW u \in Thread, pmu'[u] # "off"
  PROVE  pmu[u] # "off" \/ u \in late'
<1>1. CASE MainStep
  <2>1. CASE u = Main
    BY <2>1, TypedStep DEF Typed
  <2>2. CASE u # Main
    BY <1>1, <2>2, MainLeavesWorkers, Zenon DEF Thread
  <2> QED
    BY <2>1, <2>2, Zenon
<1>2. ASSUME NEW t \in Thread, ThreadStep(t) \/ HandlerStep(t) \/ Overflow(t), t # u
      PROVE  pmu[u] # "off"
  BY <1>2, OthersRest, Zenon DEF Rests
<1>3. CASE SelfStart(u)
  BY <1>3 DEF SelfStart
<1>4. CASE Overflow(u) \/ HandlerRestart(u) \/ Exit(u)
  BY <1>4 DEF Overflow, HandlerRestart, Exit, Unmask, Typed, TypeOK
<1>5. CASE WriteRecord(<<u, "user">>) \/ WriteRecord(<<u, "handler">>)
  BY <1>5, WriteMoves, Frames
<1>6. CASE LogCall(u) \/ StartFunc(u) \/ LockMap(u) \/ InsertFd(u) \/ Deliver(u) \/ HandlerLookup(u)
           \/ HandlerWrite(u)
  BY <1>6 DEF LogCall, StartFunc, LockMap, InsertFd, Deliver, HandlerLookup, HandlerWrite
<1> QED
  BY <1>1, <1>2, <1>3, <1>4, <1>5, <1>6, Zenon DEF Next, ThreadStep, HandlerStep

\* The contexts started behind pmu_profiler_stop are never forgotten.
LEMMA LateGrows ==
  ASSUME [Next]_vars
  PROVE  late \subseteq late'
<1> USE DEF contexts
<1>1. ASSUME NEW f \in Frame, WriteRecord(f) PROVE late' = late
  BY <1>1 DEF WriteRecord, TakeEntry, CheckEntry, FillEntry
<1>2. CASE MainStep
  BY <1>2 DEF MainStep, InitBuffer, SetupSignalHandler, StartEnable, CreateCall, StopCall, StopContexts,
         DisableSignalHandler, FlushEntry, FreeStart, ClearBuffer, CreateThread
<1>3. ASSUME NEW t \in Thread, ThreadStep(t) PROVE late \subseteq late'
  BY <1>1, <1>3, Frames, Zenon DEF ThreadStep, LogCall, StartFunc, LockMap, InsertFd, SelfStart, Exit
<1>4. ASSUME NEW t \in Thread, HandlerStep(t) \/ Overflow(t) PROVE late \subseteq late'
  BY <1>1, <1>4, Frames, Zenon DEF HandlerStep, Deliver, HandlerLookup, HandlerWrite, HandlerRestart, Overflow
<1> QED
  BY <1>2, <1>3, <1>4, Zenon DEF Next, vars

\* The last step of racez_start sets racez_enable.
LEMMA StartEnables == StartEnable => racez_enable' # 0
BY DEF StartEnable

\* pmu_profiler_stop gets past its loop by stopping every context in the map.
LEMMA SilencesStep ==
  ASSUME Typed, Phases, Mapping, StopSilences, [Next]_vars
  PROVE  StopSilences'
<1>1. SUFFICES ASSUME ContextsStopped', NEW u \in Thread, pmu'[u] # "off" PROVE u \in late'
  BY DEF StopSilences
<1>2. CASE UNCHANGED vars
  BY <1>1, <1>2, Zenon DEF vars, contexts, StopSilences, ContextsStopped
<1>3. CASE Next /\ ContextsStopped
  BY <1>1, <1>3, StartsAreRecorded, LateGrows, Zenon DEF StopSilences
<1>4. CASE Next /\ ~ContextsStopped
  <2>1. racez_enable' = 0 /\ pc'[Main] # "stop" /\ (racez_enable # 0 \/ pc[Main] = "stop")
    BY <1>1, <1>4, Zenon DEF ContextsStopped
  <2>2. MainStep
    BY <1>4, <2>1, ControlStays, Zenon DEF Next
  <2>3. ~StopCall
    BY <2>1, Zenon DEF StopCall, Goto, Typed, Thread
  <2>4. StopContexts
    <3>1. ASSUME NEW t \in Worker, CreateThread(t) PROVE racez_enable' = racez_enable /\ pc[Main] = "create"
      BY <3>1, Zenon DEF CreateThread, Runs
    <3>2. ~StartEnable
      BY <2>1, StartEnables, Zenon
    <3> QED
      BY <2>1, <2>2, <2>3, <3>1, <3>2, Zenon
         DEF MainStep, InitBuffer, SetupSignalHandler, CreateCall, DisableSignalHandler,
             FlushEntry, FreeStart, ClearBuffer, Runs
  <2>5. pmu' = [t \in Thread |-> IF t \in StoppedTids THEN "off" ELSE pmu[t]]
    BY <2>1, <2>4, Zenon DEF StopContexts, Runs
  <2>6. pmu[u] # "off" /\ u \notin StoppedTids
    BY <1>1, <2>5
  <2>7. Context(u) \in tid_fd_map
    BY <2>6 DEF Mapping, Enters
  <2> QED
    BY <2>6, <2>7 DEF StoppedTids, Context
<1> QED
  BY <1>2, <1>3, <1>4

\* Past the loop of pmu_profiler_stop only contexts started behind it still count
\* (racez_pmuprofiler.cc:1012-1025).
THEOREM StopIsSilent == Spec => []StopSilences
<1>1. Init => StopSilences
  BY DEF Init, StopSilences
<1>2. RInv /\ StopSilences /\ [Next]_vars => StopSilences'
  BY SilencesStep DEF RInv
<1> QED
  BY <1>1, <1>2, RuntimeInvariant, PTL DEF Spec

-----------------------------------------------------------------------------
\* In a program that joins its threads, nothing is under way while racez is off.
LEMMA OffIsIdle ==
  ASSUME JoinsFirst, Typed, Idleness, racez_enable # 1
  PROVE  /\ \A t \in Thread : Idle(t)
         /\ \A f \in Frame : frame[f] = "none"
<1>1. racez_enable = 0 /\ Quiet
  BY DEF Typed, TypeOK, Quiet
<1>2. \A t \in Thread : Idle(t)
  BY <1>1, ZenonT(40) DEF Idleness, IdleWorker, Idle, Thread, Typed
<1>3. \A t \in Thread : frame[<<t, "user">>] = "none" /\ frame[<<t, "handler">>] = "none"
  BY <1>2, Zenon DEF Idle
<1> QED
  BY <1>2, <1>3, Frames, Zenon

\* In such a program only racez_stop itself touches what it flushes.
LEMMA FlushedStep ==
  ASSUME JoinsFirst, RInv, Flushed, [Next]_vars
  PROVE  Flushed'
<1>1. /\ Typed /\ Phases /\ Idleness /\ Claimed /\ Main \in Thread
      /\ pc \in [Thread -> MainLabel \cup WorkerLabel] /\ pc[Main] \in MainLabel
      /\ global_ \in Nat /\ BUFFERSIZE \in Nat /\ file \in Seq(Slot) /\ Len(file) \in Nat
  BY SizeAssumption DEF RInv, Typed, TypeOK, Flushed, Thread
<1>2. ASSUME UNCHANGED <<global_buffer, global_, slots, file>>, pc'[Main] = pc[Main]
      PROVE  Flushed'
  BY <1>2, Zenon DEF Flushed
<1>3. CASE UNCHANGED vars
  BY <1>2, <1>3 DEF vars, buffer
<1>4. ASSUME NEW t \in Thread, ThreadStep(t) \/ HandlerStep(t) \/ Overflow(t) PROVE Flushed'
  <2>1. UNCHANGED <<global_buffer, file>> /\ pc'[Main] = pc[Main]
    BY <1>1, <1>4, ControlStays
  <2>2. CASE UNCHANGED <<global_, slots>>
    BY <1>2, <2>1, <2>2, Zenon
  <2>3. CASE ~UNCHANGED <<global_, slots>>
    <3>1. \E f \in Frame : WriteRecord(f)
      BY <1>4, <2>3, Frames, Zenon
         DEF buffer, ThreadStep, HandlerStep, LogCall, StartFunc, LockMap, InsertFd, SelfStart, Exit,
             Deliver, HandlerLookup, HandlerWrite, HandlerRestart, Overflow
    <3>2. racez_enable = 1
      BY <1>1, <3>1, OffIsIdle, WriteMoves
    <3>3. pc[Main] \in {"user", "create"}
      BY <1>1, <3>2 DEF Phases
    <3> QED
      BY <2>1, <3>3, Zenon DEF Flushed
  <2> QED
    BY <2>2, <2>3, Zenon
<1>5. CASE MainStep
  <2>1. CASE InitBuffer
    <3>1. \/ UNCHANGED <<global_buffer, global_, slots, file, pc>>
          \/ pc'[Main] = "setup" /\ file' = <<>>
      BY <1>1, <2>1, MainGoes, Zenon DEF InitBuffer, buffer
    <3>2. <<>> \in Seq(Slot)
      OBVIOUS
    <3> QED
      BY <1>2, <3>1, <3>2, Zenon DEF Flushed
  <2>2. CASE DisableSignalHandler
    <3>1. /\ pc[Main] = "disable" /\ pc'[Main] = "flush"
          /\ UNCHANGED <<global_buffer, global_, slots, file>>
      BY <1>1, <2>2, MainGoes, Zenon DEF DisableSignalHandler, Runs, buffer
    <3>2. file = <<>> /\ Len(file) = 0
      BY <1>1, <3>1, Zenon DEF Flushed, Phases
    <3> QED
      BY <1>1, <3>1, <3>2 DEF Flushed
  <2>3. CASE FlushEntry
    <3> DEFINE x == IF Len(file) <= BUFFERSIZE THEN slots[Len(file)] ELSE Empty
    <3>1. /\ pc[Main] = "flush" /\ pc' = pc /\ Len(file) <= global_ /\ file' = Append(file, x)
          /\ UNCHANGED <<global_buffer, global_, slots>>
      BY <2>3, Zenon DEF FlushEntry, MoreToFlush, Runs, buffer
    <3>2. x \in Slot
      BY <1>1 DEF Typed, TypeOK, Slot
    <3>3. file' \in Seq(Slot) /\ Len(file') = Len(file) + 1 /\ file'[Len(file) + 1] = x
          /\ \A i \in 1..Len(file) : file'[i] = file[i]
      BY <1>1, <3>1, <3>2
    <3>4. ASSUME NEW i \in 0..BUFFERSIZE, i < Len(file') PROVE file'[i + 1] = slots[i]
      <4>1. CASE i < Len(file)
        <5>1. i + 1 \in 1..Len(file)
          BY <1>1, <4>1
        <5> QED
          BY <3>1, <3>3, <4>1, <5>1 DEF Flushed
      <4>2. CASE i = Len(file)
        BY <1>1, <3>3, <4>2
      <4> QED
        BY <1>1, <3>3, <3>4, <4>1, <4>2
    <3> HIDE DEF x
    <3> QED
      BY <1>1, <3>1, <3>3, <3>4 DEF Flushed
  <2>4. CASE FreeStart
    <3>1. /\ pc[Main] = "flush" /\ pc'[Main] = "null" /\ ~(Len(file) <= global_)
          /\ UNCHANGED <<global_, slots, file>> /\ global_buffer' = "freed"
      BY <1>1, <2>4, Zenon DEF FreeStart, MoreToFlush, Runs, Goto, buffer
    <3>2. Len(file) = global_ + 1
      BY <1>1, <3>1 DEF Flushed
    <3>3. racez_enable # 1 /\ global_buffer = "live"
      BY <1>1, <3>1 DEF Phases
    <3>4. \A f \in Frame : ~Claiming(f)
      BY <1>1, <3>3, OffIsIdle, Zenon DEF Claiming
    <3>5. \A i \in 1..BUFFERSIZE : i <= global_ => slots[i] # Empty
      BY <1>1, <3>3, <3>4 DEF Claimed
    <3> QED
      BY <3>1, <3>2, <3>5 DEF Flushed
  <2>5. CASE ~(InitBuffer \/ DisableSignalHandler \/ FlushEntry \/ FreeStart)
    <3>1. UNCHANGED <<global_, slots, file>> /\ (global_buffer' = global_buffer \/ ClearBuffer)
      BY <1>5, <2>5, Zenon DEF MainStep, SetupSignalHandler, StartEnable, CreateCall, StopCall, StopContexts,
             ClearBuffer, CreateThread, buffer
    <3>2. ASSUME NEW t \in Worker, CreateThread(t) PROVE pc[Main] = "create" /\ pc'[Main] = "user"
      BY <1>1, <3>2, ThreadAssumption, Zenon DEF CreateThread, Runs, Thread
    <3>3. pc[Main] # "flush" /\ pc'[Main] \notin {"flush", "null"}
      BY <1>1, <1>5, <2>5, <3>2, Zenon DEF MainStep, SetupSignalHandler, StartEnable, CreateCall, StopCall, StopContexts,
             ClearBuffer, Runs, Goto
    <3>4. ClearBuffer => global_buffer' = "null"
      BY DEF ClearBuffer
    <3> QED
      BY <3>1, <3>3, <3>4 DEF Flushed
  <2> QED
    BY <2>1, <2>2, <2>3, <2>4, <2>5
<1> QED
  BY <1>3, <1>4, <1>5 DEF Next

\* The file is complete when racez_stop frees the buffer, in a program that joins its
\* threads before it calls racez_stop (racez_bufferdata.cc:86-93).
THEOREM FlushIsComplete == JoinsFirst /\ Spec => []FileComplete
<1>1. Init => Flushed
  BY ThreadAssumption DEF Init, Flushed, Thread
<1>2. JoinsFirst /\ RInv /\ Flushed /\ [Next]_vars => Flushed'
  BY FlushedStep
<1>3. RInv /\ Flushed => FileComplete
  <2>1. SUFFICES ASSUME RInv, Flushed, pc[Main] = "null"
                 PROVE  /\ Len(file) = global_ + 1
                        /\ \A i \in 1..global_ : i <= BUFFERSIZE =>
                              file[i + 1] # Empty /\ file[i + 1] = slots[i]
    BY DEF FileComplete
  <2>2. global_ \in Nat /\ BUFFERSIZE \in Nat
    BY <2>1, SizeAssumption DEF RInv, Typed, TypeOK
  <2>3. Len(file) = global_ + 1
    BY <2>1 DEF Flushed
  <2>4. ASSUME NEW i \in 1..global_, i <= BUFFERSIZE PROVE file[i + 1] # Empty /\ file[i + 1] = slots[i]
    <3>1. i \in 0..BUFFERSIZE /\ i \in 1..BUFFERSIZE /\ i <= global_ /\ i < Len(file)
      BY <2>2, <2>3, <2>4
    <3> QED
      BY <2>1, <3>1 DEF Flushed
  <2> QED
    BY <2>3, <2>4
<1>4. CASE JoinsFirst
  BY <1>1, <1>2, <1>3, <1>4, RuntimeInvariant, PTL DEF Spec
<1> QED
  BY <1>4, Zenon

\* A program that joins its threads, and whose handlers find their entries, can only die
\* of the assert of a second racez_start.
LEMMA FaultStep ==
  ASSUME JoinsFirst, ~RacyLookup, RInv, NoFault, [Next]_vars
  PROVE  NoFault'
<1>1. Typed /\ Phases /\ Idleness /\ Mapping /\ racez_enable \in {0, 1} /\ used.starts \in Nat
  BY DEF RInv, Typed, TypeOK
<1>2. used'.starts = used.starts \/ used'.starts = used.starts + 1
  <2>1. CASE MainStep
    <3>1. CASE InitBuffer
      BY <3>1 DEF InitBuffer
    <3>2. CASE ~InitBuffer
      BY <2>1, <3>2, Zenon DEF MainStep, SetupSignalHandler, StartEnable, CreateCall, StopCall, StopContexts,
         DisableSignalHandler, FlushEntry, FreeStart, ClearBuffer, CreateThread
    <3> QED
      BY <3>1, <3>2
  <2> QED
    BY <1>1, <2>1, ControlStays DEF Next, vars
<1>3. CASE outcome' = outcome
  BY <1>1, <1>2, <1>3 DEF NoFault
<1>4. ASSUME NEW f \in Frame, WriteRecord(f) PROVE outcome' = outcome
  <2>1. racez_enable = 1
    BY <1>1, <1>4, OffIsIdle, WriteMoves, Zenon
  <2>2. global_buffer = "live"
    BY <1>1, <2>1 DEF Phases
  <2> QED
    BY <1>4, <2>2 DEF WriteRecord, TakeEntry, CheckEntry, FillEntry, AtomicIncrement
<1>5. ASSUME NEW t \in Thread, Deliver(t) PROVE outcome' = outcome
  <2>1. racez_enable = 1
    BY <1>1, <1>5, OffIsIdle, Zenon DEF Deliver, Idle
  <2>2. disposition = "handler"
    BY <1>1, <2>1 DEF Phases
  <2> QED
    BY <1>5, <2>2 DEF Deliver
<1>6. CASE InitBuffer
  <2>1. global_buffer = "null"
    BY <1>1, <1>6 DEF InitBuffer, Runs, Phases
  <2> QED
    BY <1>3, <1>6, <2>1 DEF InitBuffer
<1>7. CASE SetupSignalHandler
  <2>1. CASE sig_enable
    <3>1. used.starts > 1 /\ outcome' = "assert" /\ used' = used
      BY <1>1, <1>7, <2>1 DEF SetupSignalHandler, Runs, Phases
    <3> QED
      BY <3>1 DEF NoFault
  <2>2. CASE ~sig_enable
    BY <1>3, <1>7, <2>2 DEF SetupSignalHandler
  <2> QED
    BY <2>1, <2>2
<1>8. CASE StopContexts
  <2>1. ~\E n \in tid_fd_map : n.fd = 0
    BY <1>1 DEF Mapping
  <2> QED
    BY <1>3, <1>8, <2>1 DEF StopContexts
<1>9. CASE MainStep /\ ~(InitBuffer \/ SetupSignalHandler \/ StopContexts)
  BY <1>3, <1>9, Zenon DEF MainStep, StartEnable, CreateCall, StopCall,
         DisableSignalHandler, FlushEntry, FreeStart, ClearBuffer, CreateThread
<1>10. ASSUME NEW t \in Thread, ThreadStep(t) \/ HandlerStep(t) \/ Overflow(t) PROVE outcome' = outcome
  BY <1>4, <1>5, <1>10, Frames
     DEF ThreadStep, HandlerStep, LogCall, StartFunc, LockMap, InsertFd, SelfStart, Exit,
         HandlerLookup, HandlerWrite, HandlerRestart, Overflow
<1>11. CASE UNCHANGED vars
  BY <1>3, <1>11 DEF vars
<1> QED
  BY <1>3, <1>6, <1>7, <1>8, <1>9, <1>10, <1>11, Zenon DEF Next

\* Such a program is not killed by a SIGIO, an assert or an invalid access, up to a second
\* racez_start (racez_preload.c:282-289, racez_pmuprofiler.cc:1004).
THEOREM NoFaultWhenJoined == JoinsFirst /\ ~RacyLookup /\ Spec => []NoFault
<1>1. Init => NoFault
  BY DEF Init, NoFault
<1>2. JoinsFirst /\ ~RacyLookup /\ RInv /\ NoFault /\ [Next]_vars => NoFault'
  BY FaultStep
<1>3. CASE JoinsFirst /\ ~RacyLookup
  BY <1>1, <1>2, <1>3, RuntimeInvariant, PTL DEF Spec
<1> QED
  BY <1>3, Zenon
=============================================================================
