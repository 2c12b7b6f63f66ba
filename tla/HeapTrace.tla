----------------------------- MODULE HeapTrace -----------------------------
(***************************************************************************)
(* The detector with the -m option fed by a running program: the malloc    *)
(* and free wrappers of racez_preload.c around the C library's allocator,  *)
(* and the samples of the blocks.  A wrapper is two steps, the real call   *)
(* and the record; a record takes the next number and the detector meets   *)
(* the records in the order of their numbers, so writing one is the        *)
(* detector's step on it.                                                  *)
(*                                                                         *)
(* The program has no memory error of its own: it uses a block from the    *)
(* return of the allocation to the call of free.  calloc and realloc have  *)
(* no wrapper, and nothing is logged before racez_start.                   *)
(***************************************************************************)
EXTENDS Detector

\* The FREE record of racez_preload.c has size 0.
ASSUME ReuseAssumption == enable_memory_reuse = TRUE /\ 0 \in Address /\ 0 \in Size

VARIABLES racez_enable,
          live,     \* the allocator's blocks in use
          call,     \* the wrapper a thread is in, between real call and record
          own,      \* history: accesses sampled in the present block of an address
          blurred   \* history: addresses hit by a free that could not clean up

traceVars == <<vars, racez_enable, live, call, own, blurred>>

Extent(b) == b.start .. (b.start + b.size - 1)

\* A block; logged: its ALLOC record was written, ready: the program has it.
Block == {b \in [start : Address \ {0}, size : Size \ {0}, logged : BOOLEAN,
                 ready : BOOLEAN] : Extent(b) \subseteq Address}

NewBlocks(ready) ==
  {b \in Block : ~b.logged /\ b.ready = ready
                 /\ \A c \in live : Extent(b) \cap Extent(c) = {}}

NoBlock == [start |-> 0, size |-> 0, logged |-> FALSE, ready |-> FALSE]
NoCall == [fn |-> "user", block |-> NoBlock]

NextNo == log.no + 1

TraceInit ==
  /\ Init
  /\ racez_enable = FALSE
  /\ live = {}
  /\ call = [t \in Thread |-> NoCall]
  /\ own = [a \in Address |-> {}]
  /\ blurred = {}

-----------------------------------------------------------------------------
(* The wrappers *)

\* The blocks given back to the allocator whose FREE record is still to come.
Unlogged == {call[t].block : t \in {u \in Thread : call[u].fn = "free"}}

\* The allocator hands b out: over blocks whose FREE record is still to come
\* the history is no longer that of one block.
BlursOver(b) ==
  LET under == {c \in Unlogged : Extent(c) \cap Extent(b) # {}}
  IN  blurred' = blurred \cup UNION {Extent(c) \cup Extent(b) : c \in under}

Enter(t, fn, b) ==
  /\ call[t] = NoCall
  /\ call' = [call EXCEPT ![t] = [fn |-> fn, block |-> b]]

Return(t, fn) == call[t].fn = fn /\ call' = [call EXCEPT ![t] = NoCall]

\* racez_start returns.
racez_start ==
  /\ ~racez_enable
  /\ racez_enable' = TRUE
  /\ UNCHANGED <<vars, live, call, own, blurred>>

\* malloc: result = real_malloc(size).
Malloc(t) ==
  /\ \E b \in NewBlocks(FALSE) :
       Enter(t, "malloc", b) /\ live' = live \cup {b} /\ BlursOver(b)
  /\ UNCHANGED <<vars, racez_enable, own>>

\* Mutant: without a record to write the wrapper forgets the result.
MallocLogForgets(t) ==
  LET b == call[t].block
  IN  /\ Return(t, "malloc")
      /\ IF racez_enable /\ NextNo \in RecordNo
           THEN DetectAlloc(NextNo, b.start, b.size) ELSE ~racez_enable /\ UNCHANGED vars
      /\ UNCHANGED <<racez_enable, live, own, blurred>>

\* if(racez_memory_allocator && racez_enable) WriteRecord, and malloc returns.
MallocLog(t) ==
  LET b == call[t].block
  IN  /\ Return(t, "malloc")
      /\ live' = (live \ {b}) \cup {[b EXCEPT !.logged = racez_enable, !.ready = TRUE]}
      /\ IF racez_enable /\ NextNo \in RecordNo THEN DetectAlloc(NextNo, b.start, b.size)
         ELSE ~racez_enable /\ UNCHANGED vars
      /\ UNCHANGED <<racez_enable, own, blurred>>

\* calloc, realloc and memalign go to the C library directly.
Calloc(t) ==
  /\ call[t] = NoCall
  /\ \E b \in NewBlocks(TRUE) : live' = live \cup {b} /\ BlursOver(b)
  /\ UNCHANGED <<vars, racez_enable, call, own>>

\* free: real_free(p).
Free(t) ==
  /\ \E b \in live :
       /\ b.ready
       /\ Enter(t, "free", b)
       /\ live' = live \ {b}
       /\ own' = [a \in Address |-> IF a \in Extent(b) THEN {} ELSE own[a]]
  /\ UNCHANGED <<vars, racez_enable, blurred>>

\* The FREE record has size 0: the detector looks the size up.
FreeLog(t) ==
  LET b == call[t].block
  IN  /\ Return(t, "free")
      /\ IF racez_enable /\ NextNo \in RecordNo THEN DetectFree(NextNo, b.start, 0)
         ELSE ~racez_enable /\ UNCHANGED vars
      /\ blurred' = IF racez_enable /\ ~b.logged
                      THEN blurred \cup Extent(b) \cup FreedRange(b.start, 0) ELSE blurred
      /\ UNCHANGED <<racez_enable, live, own>>

\* A malloc that fails and free(NULL): the real call changes nothing, so the
\* wrapper is one step, and both log the address 0.
NullCall(t) ==
  /\ racez_enable /\ call[t] = NoCall /\ NextNo \in RecordNo
  /\ \/ \E size \in Size \ {0} : DetectAlloc(NextNo, 0, size)
     \/ DetectFree(NextNo, 0, 0)
  /\ UNCHANGED <<racez_enable, live, call, own, blurred>>

\* A sample of an access to a block, in user code.
Sample(t) ==
  /\ racez_enable /\ call[t] = NoCall /\ NextNo \in RecordNo
  /\ \E b \in live, pip \in Pip, write \in {0, 1}, locks \in SUBSET Lock :
       \E a \in Extent(b) :
         /\ b.ready
         /\ DetectOp([no |-> NextNo, tid |-> t, pip |-> pip, addr |-> a,
                      write |-> write, locks |-> locks])
         /\ own' = [own EXCEPT ![a] = @ \cup {[tid |-> t, write |-> write, locks |-> locks]}]
  /\ UNCHANGED <<racez_enable, live, call, blurred>>

TraceNext ==
  \/ racez_start
  \/ \E t \in Thread : \/ Malloc(t) \/ MallocLog(t) \/ Calloc(t)
                       \/ Free(t) \/ FreeLog(t)
                       \/ NullCall(t) \/ Sample(t)

TraceSpec == TraceInit /\ [][TraceNext]_traceVars

-----------------------------------------------------------------------------
(* Properties *)

\* The blocks and calls have their types, blocks in use are disjoint, and one the
\* program does not have yet is about to be returned by malloc.
HeapTypeOK ==
  /\ racez_enable \in BOOLEAN
  /\ live \subseteq Block
  /\ \A b, c \in live : b # c => Extent(b) \cap Extent(c) = {}
  /\ \A t \in Thread : /\ call[t].fn \in {"user", "malloc", "free"}
                       /\ call[t].block \in Block \cup {NoBlock}
  /\ \A b \in live : b.ready \/ \E t \in Thread : call[t] = [fn |-> "malloc", block |-> b]
  /\ own \in [Address -> SUBSET Abstract!Access]
  /\ blurred \subseteq Address

\* "query the map to get the size information which is registered at step a"
\* (detect.cc:418): while a block is in use and its allocation was logged,
\* heap_map has its size, whatever blocks began at the address before and
\* whichever threads freed them.
HeapMapCurrent == \A b \in live : b.logged => heap_map[b.start] = b.size

\* The memory reuse filter: what the detector knows of an address in use comes
\* from samples of the present block, all of them, and it knows nothing of an
\* address out of use once the FREE record is written.  Two things break it, and
\* nothing else: the allocator hands memory on before the FREE record is written
\* (racez_preload.c:210-219), and a block without an ALLOC record is freed
\* (detect.cc:443-445).
HistoryOfBlock ==
  \A a \in Address \ blurred :
    (\A c \in Unlogged : a \notin Extent(c)) => accesses[a] = own[a]
=============================================================================
