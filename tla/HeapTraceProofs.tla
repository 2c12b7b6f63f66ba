-------------------------- MODULE HeapTraceProofs --------------------------
(***************************************************************************)
(* Proofs about module HeapTrace, for every set of threads, addresses and  *)
(* sizes: the filter for reused memory under interleaved malloc and free.  *)
(***************************************************************************)
EXTENDS HeapTrace, DetectorProofs

Call == [fn : {"user", "malloc", "free"}, block : Block \cup {NoBlock}]

\* The types.
HTyped ==
  /\ racez_enable \in BOOLEAN
  /\ live \subseteq Block
  /\ call \in [Thread -> Call]
  /\ own \in [Address -> SUBSET Abstract!Access]
  /\ blurred \subseteq Address
  /\ accesses \in [Address -> SUBSET Abstract!Access]
  /\ heap_map \in [Address -> Nat]
  /\ log \in [no : Nat, tid : Thread, pips : SUBSET Pip]

\* The allocator: blocks in use are disjoint, and malloc has a block of its own until it
\* returns.
Allocated ==
  /\ \A b, c \in live : b # c => Extent(b) \cap Extent(c) = {}
  /\ \A b \in live : b.ready \/ \E t \in Thread : call[t] = [fn |-> "malloc", block |-> b]
  /\ \A t \in Thread : call[t].fn = "malloc" => call[t].block \in live /\ ~call[t].block.ready
  /\ \A t \in Thread : call[t].fn = "free" => call[t].block \in Block
  /\ \A t, u \in Thread : call[t].fn = "malloc" /\ call[u].fn = "malloc"
                            /\ call[t].block = call[u].block => t = u

\* A block given back whose FREE record is still to come, and a block handed out over it,
\* are blurred.
Overlapping ==
  \A b \in live, c \in Unlogged :
    Extent(b) \cap Extent(c) = {} \/ Extent(b) \cup Extent(c) \subseteq blurred

\* Of a block given back no access is counted any more.
Cleared == \A c \in Unlogged : \A a \in Extent(c) : a \in blurred \/ own[a] = {}

\* The FREE record of a logged block finds the block's size, or a size of another
\* block that began at the address since, and then both are blurred.
SizeFound ==
  \A c \in Unlogged : c.logged =>
    \/ heap_map[c.start] = c.size
    \/ Extent(c) \cup FreedRange(c.start, 0) \subseteq blurred

\* Nothing is sampled before racez_start.
NothingBefore == ~racez_enable => \A a \in Address : accesses[a] = {} /\ own[a] = {}

HInv ==
  /\ HTyped /\ Allocated /\ HeapMapCurrent
  /\ Overlapping /\ Cleared /\ SizeFound /\ NothingBefore
  /\ HistoryOfBlock

-----------------------------------------------------------------------------
(* Blocks *)

\* A block lies in memory, apart from the null address, and begins at its start.
LEMMA BlockLies ==
  ASSUME NEW b \in Block
  PROVE  /\ b.start \in Address /\ b.start # 0 /\ b.size \in Nat
         /\ b.start \in Extent(b) /\ 0 \notin Extent(b) /\ Extent(b) \subseteq Address
         /\ b.logged \in BOOLEAN /\ b.ready \in BOOLEAN
<1>1. /\ b.start \in Address /\ b.start # 0 /\ b.size \in Size /\ b.size # 0
      /\ Extent(b) \subseteq Address /\ b.logged \in BOOLEAN /\ b.ready \in BOOLEAN
  BY DEF Block
<1>2. b.start \in Nat /\ b.size \in Nat
  BY <1>1, NaturalsAssumption, Zenon
<1>3. b.start \in Extent(b) /\ 0 \notin Extent(b)
  BY <1>1, <1>2 DEF Extent
<1> QED
  BY <1>1, <1>2, <1>3, Zenon

\* delete_map_entries with the size of the block erases the block.
LEMMA FreedIsExtent ==
  ASSUME NEW b \in Block
  PROVE  {a \in Address : b.start <= a /\ a < b.start + b.size} = Extent(b)
<1>1. b.start \in Nat /\ b.size \in Nat /\ Extent(b) \subseteq Address /\ Address \subseteq Nat
  BY BlockLies, NaturalsAssumption, Zenon
<1>2. \A a \in Nat : a \in Extent(b) <=> b.start <= a /\ a < b.start + b.size
  BY <1>1 DEF Extent
<1> QED
  BY <1>1, <1>2, Zenon

\* The block malloc returns is the one the allocator gave it.
Returned(b) == [b EXCEPT !.logged = racez_enable, !.ready = TRUE]

\* It keeps its place and size.
LEMMA ReturnedIsBlock ==
  ASSUME NEW b \in Block, racez_enable \in BOOLEAN
  PROVE  /\ Returned(b) \in Block /\ Extent(Returned(b)) = Extent(b)
         /\ Returned(b).start = b.start /\ Returned(b).size = b.size
         /\ Returned(b).logged <=> racez_enable
         /\ Returned(b).ready
<1>1. /\ b \in [start : Address \ {0}, size : Size \ {0}, logged : BOOLEAN, ready : BOOLEAN]
      /\ Extent(b) \subseteq Address
  BY DEF Block
<1>2. /\ Returned(b) \in [start : Address \ {0}, size : Size \ {0}, logged : BOOLEAN, ready : BOOLEAN]
      /\ Returned(b).start = b.start /\ Returned(b).size = b.size
      /\ Returned(b).logged = racez_enable /\ Returned(b).ready = TRUE
  BY <1>1, Zenon DEF Returned
<1>3. Extent(Returned(b)) = Extent(b)
  BY <1>2, Zenon DEF Extent
<1>4. Returned(b) \in Block
  BY <1>1, <1>2, <1>3, Zenon DEF Block
<1> QED
  BY <1>2, <1>3, <1>4

\* Disjoint blocks begin at different addresses.
LEMMA StartsDiffer ==
  ASSUME NEW b \in Block, NEW c \in Block, Extent(b) \cap Extent(c) = {}
  PROVE  b.start # c.start
BY BlockLies, Zenon

-----------------------------------------------------------------------------
(* The real calls *)

\* The allocator hands out a block: over blocks whose FREE record is still to come both
\* become blurred.
LEMMA HandsOut ==
  ASSUME HInv, NEW b \in Block, ~b.logged, \A c \in live : Extent(b) \cap Extent(c) = {},
         live' = live \cup {b}, BlursOver(b), Unlogged' = Unlogged, Unlogged \subseteq Block,
         UNCHANGED <<vars, racez_enable, own>>
  PROVE  /\ live' \subseteq Block /\ blurred' \subseteq Address
         /\ HeapMapCurrent' /\ Overlapping' /\ Cleared' /\ SizeFound' /\ NothingBefore'
         /\ HistoryOfBlock'
<1> USE DEF HInv
<1>1. UNCHANGED <<heap_map, accesses, log, racez_enable, own>>
  BY DEF vars
<1>2. /\ blurred \subseteq blurred'
      /\ \A c \in Unlogged : Extent(c) \cap Extent(b) # {} => Extent(c) \cup Extent(b) \subseteq blurred'
  BY Zenon DEF BlursOver
<1>3. blurred' \subseteq Address
  <2>1. \A c \in Unlogged : Extent(c) \cup Extent(b) \subseteq Address
    BY BlockLies, Zenon
  <2> QED
    BY <2>1, Zenon DEF BlursOver, HTyped
<1>4. HeapMapCurrent'
  BY <1>1, Zenon DEF HeapMapCurrent
<1>5. Overlapping'
  BY <1>2, Zenon DEF Overlapping
<1>6. Cleared'
  BY <1>1, <1>2, Zenon DEF Cleared
<1>7. SizeFound'
  <2>1. \A c \in Unlogged : FreedRange(c.start, 0)' = FreedRange(c.start, 0)
    BY <1>1 DEF FreedRange
  <2> QED
    BY <1>1, <1>2, <2>1, Zenon DEF SizeFound
<1>8. NothingBefore'
  BY <1>1 DEF NothingBefore
<1>9. HistoryOfBlock'
  BY <1>1, <1>2, Zenon DEF HistoryOfBlock
<1> QED
  BY <1>3, <1>4, <1>5, <1>6, <1>7, <1>8, <1>9, Zenon DEF HTyped

\* The wrapper a thread is in.
LEMMA CallMoves ==
  ASSUME HTyped, NEW t \in Thread, NEW c \in Call, call' = [call EXCEPT ![t] = c]
  PROVE  /\ call' \in [Thread -> Call] /\ call'[t] = c
         /\ \A u \in Thread : u # t => call'[u] = call[u]
BY Zenon DEF HTyped

\* Only real_free adds to the blocks whose FREE record is still to come.
LEMMA UnloggedStays ==
  ASSUME HTyped, NEW t \in Thread, NEW c \in Call, call' = [call EXCEPT ![t] = c],
         call[t].fn # "free", c.fn # "free"
  PROVE  Unlogged' = Unlogged
<1>1. call'[t] = c /\ \A u \in Thread : u # t => call'[u] = call[u]
  BY CallMoves, Zenon
<1>2. \A u \in Thread : call'[u].fn = "free" <=> call[u].fn = "free"
  BY <1>1, Zenon
<1>3. \A u \in Thread : call[u].fn = "free" => call'[u] = call[u]
  BY <1>1, Zenon
<1> QED
  BY <1>2, <1>3 DEF Unlogged

\* Blocks without an allocation record are blocks.
LEMMA UnloggedBlocks ==
  ASSUME Allocated
  PROVE  Unlogged \subseteq Block
BY ZenonT(40) DEF Allocated, Unlogged

\* malloc: the real call.
LEMMA MallocStep ==
  ASSUME HInv, NEW t \in Thread, Malloc(t)
  PROVE  HInv'
<1>1. HTyped /\ Allocated /\ Unlogged \subseteq Block
  BY UnloggedBlocks, Zenon DEF HInv
<1>2. PICK b \in NewBlocks(FALSE) :
        Enter(t, "malloc", b) /\ live' = live \cup {b} /\ BlursOver(b)
  BY Zenon DEF Malloc
<1>3. /\ b \in Block /\ ~b.logged /\ ~b.ready /\ \A c \in live : Extent(b) \cap Extent(c) = {}
      /\ UNCHANGED <<vars, racez_enable, own>>
  BY DEF NewBlocks, Malloc
<1> DEFINE c0 == [fn |-> "malloc", block |-> b]
<1>4. c0 \in Call /\ c0.fn = "malloc" /\ c0.block = b /\ call' = [call EXCEPT ![t] = c0]
      /\ call[t] = NoCall
  BY <1>2, <1>3 DEF Call, Enter
<1>5. call[t].fn = "user"
  BY <1>4 DEF NoCall
<1> HIDE DEF c0
<1>6. Unlogged' = Unlogged
  BY <1>1, <1>4, <1>5, UnloggedStays, Zenon
<1>7. /\ live' \subseteq Block /\ blurred' \subseteq Address
      /\ HeapMapCurrent' /\ Overlapping' /\ Cleared' /\ SizeFound' /\ NothingBefore'
      /\ HistoryOfBlock'
  BY <1>1, <1>2, <1>3, <1>6, HandsOut, Zenon
<1>8. /\ call' \in [Thread -> Call] /\ call'[t] = c0
      /\ \A u \in Thread : u # t => call'[u] = call[u]
  BY <1>1, <1>4, CallMoves, Zenon
<1>9. HTyped'
  BY <1>1, <1>3, <1>7, <1>8 DEF HTyped, vars
<1>10. b \notin live
  BY <1>1, <1>3, BlockLies, Zenon DEF HTyped
<1>11. Allocated'
  <2>1. \A c, d \in live' : c # d => Extent(c) \cap Extent(d) = {}
    BY <1>1, <1>2, <1>3, Zenon DEF Allocated
  <2>2. \A c \in live' : c.ready \/ \E u \in Thread : call'[u] = [fn |-> "malloc", block |-> c]
    <3>1. \A c \in live : c.ready \/ \E u \in Thread : u # t /\ call[u] = [fn |-> "malloc", block |-> c]
      BY <1>1, <1>5 DEF Allocated
    <3> QED
      BY <1>2, <1>8, <3>1, Zenon DEF c0
  <2>3. \A u \in Thread : call'[u].fn = "malloc" => call'[u].block \in live' /\ ~call'[u].block.ready
    BY <1>1, <1>2, <1>3, <1>4, <1>8, Zenon DEF Allocated
  <2>4. \A u \in Thread : call'[u].fn = "free" => call'[u].block \in Block
    BY <1>1, <1>4, <1>8, Zenon DEF Allocated
  <2>5. \A u, w \in Thread : call'[u].fn = "malloc" /\ call'[w].fn = "malloc"
                              /\ call'[u].block = call'[w].block => u = w
    BY <1>1, <1>4, <1>8, <1>10, ZenonT(40) DEF Allocated
  <2> QED
    BY <2>1, <2>2, <2>3, <2>4, <2>5, Zenon DEF Allocated
<1> QED
  BY <1>7, <1>9, <1>11, Zenon DEF HInv

\* calloc and the others: the block is ready at once.
LEMMA CallocStep ==
  ASSUME HInv, NEW t \in Thread, Calloc(t)
  PROVE  HInv'
<1>1. HTyped /\ Allocated /\ Unlogged \subseteq Block
  BY UnloggedBlocks, Zenon DEF HInv
<1>2. PICK b \in NewBlocks(TRUE) : live' = live \cup {b} /\ BlursOver(b)
  BY Zenon DEF Calloc
<1>3. /\ b \in Block /\ ~b.logged /\ b.ready /\ \A c \in live : Extent(b) \cap Extent(c) = {}
      /\ UNCHANGED <<vars, racez_enable, call, own>>
  BY DEF NewBlocks, Calloc
<1>4. Unlogged' = Unlogged
  BY <1>3 DEF Unlogged
<1>5. /\ live' \subseteq Block /\ blurred' \subseteq Address
      /\ HeapMapCurrent' /\ Overlapping' /\ Cleared' /\ SizeFound' /\ NothingBefore'
      /\ HistoryOfBlock'
  BY <1>1, <1>2, <1>3, <1>4, HandsOut, Zenon
<1>6. HTyped'
  BY <1>1, <1>3, <1>5 DEF HTyped, vars
<1>7. Allocated'
  BY <1>1, <1>2, <1>3, Zenon DEF Allocated
<1> QED
  BY <1>5, <1>6, <1>7, Zenon DEF HInv

\* free: the real call.
LEMMA FreeStep ==
  ASSUME HInv, NEW t \in Thread, Free(t)
  PROVE  HInv'
<1>1. /\ HTyped /\ Allocated /\ Overlapping /\ Cleared /\ SizeFound /\ NothingBefore
      /\ HeapMapCurrent /\ HistoryOfBlock
  BY Zenon DEF HInv
<1>2. PICK b \in live : /\ b.ready /\ Enter(t, "free", b) /\ live' = live \ {b}
                        /\ own' = [a \in Address |-> IF a \in Extent(b) THEN {} ELSE own[a]]
  BY Zenon DEF Free
<1>3. b \in Block /\ UNCHANGED <<vars, racez_enable, blurred>>
  BY <1>1, Zenon DEF HTyped, Free
<1>4. UNCHANGED <<heap_map, accesses, log, racez_enable, blurred>>
  BY <1>3 DEF vars
<1> DEFINE c0 == [fn |-> "free", block |-> b]
<1>5. c0 \in Call /\ c0.fn = "free" /\ c0.block = b /\ call' = [call EXCEPT ![t] = c0]
      /\ call[t] = NoCall
  BY <1>2, <1>3, Zenon DEF Call, Enter
<1>6. call[t].fn = "user"
  BY <1>5 DEF NoCall
<1> HIDE DEF c0
<1>7. /\ call' \in [Thread -> Call] /\ call'[t] = c0
      /\ \A u \in Thread : u # t => call'[u] = call[u]
  BY <1>1, <1>5, CallMoves, Zenon
<1>8. Unlogged' = Unlogged \cup {b}
  <2>1. \A u \in Thread : call'[u].fn = "free" <=> u = t \/ call[u].fn = "free"
    BY <1>5, <1>6, <1>7, Zenon
  <2>2. \A u \in Thread : call[u].fn = "free" => call'[u] = call[u]
    BY <1>6, <1>7, Zenon
  <2> QED
    BY <1>5, <1>7, <2>1, <2>2 DEF Unlogged
<1>9. /\ \A a \in Address : own'[a] = IF a \in Extent(b) THEN {} ELSE own[a]
      /\ own' \in [Address -> SUBSET Abstract!Access]
  BY <1>1, <1>2 DEF HTyped
<1>10. Extent(b) \subseteq Address
  BY <1>3, BlockLies, Zenon
<1>11. HTyped'
  BY <1>1, <1>2, <1>4, <1>7, <1>9 DEF HTyped
<1>12. Allocated'
  <2>1. \A c, d \in live' : c # d => Extent(c) \cap Extent(d) = {}
    BY <1>1, <1>2, Zenon DEF Allocated
  <2>2. \A c \in live' : c.ready \/ \E u \in Thread : call'[u] = [fn |-> "malloc", block |-> c]
    <3>1. \A c \in live : c.ready \/ \E u \in Thread : u # t /\ call[u] = [fn |-> "malloc", block |-> c]
      BY <1>1, <1>6 DEF Allocated
    <3> QED
      BY <1>2, <1>7, <3>1, Zenon
  <2>3. \A u \in Thread : call'[u].fn = "malloc" => call'[u].block \in live' /\ ~call'[u].block.ready
    BY <1>1, <1>2, <1>5, <1>7, Zenon DEF Allocated
  <2>4. \A u \in Thread : call'[u].fn = "free" => call'[u].block \in Block
    BY <1>1, <1>3, <1>5, <1>7, Zenon DEF Allocated
  <2>5. \A u, w \in Thread : call'[u].fn = "malloc" /\ call'[w].fn = "malloc"
                              /\ call'[u].block = call'[w].block => u = w
    BY <1>1, <1>5, <1>7, Zenon DEF Allocated
  <2> QED
    BY <2>1, <2>2, <2>3, <2>4, <2>5, Zenon DEF Allocated
<1>13. HeapMapCurrent'
  BY <1>1, <1>2, <1>4, Zenon DEF HeapMapCurrent
<1>14. Overlapping'
  BY <1>1, <1>2, <1>4, <1>8, Zenon DEF Overlapping, Allocated
<1>15. Cleared'
  <2>1. Unlogged \subseteq Block
    BY <1>1, UnloggedBlocks, Zenon
  <2>2. ASSUME NEW c \in Unlogged', NEW a \in Extent(c) PROVE a \in blurred' \/ own'[a] = {}
    <3>1. CASE c = b
      BY <1>9, <1>10, <2>2, <3>1, Zenon
    <3>2. CASE c \in Unlogged
      <4>1. a \in Address
        BY <2>1, <2>2, <3>2, BlockLies, Zenon
      <4> QED
        BY <1>1, <1>4, <1>9, <2>2, <3>2, <4>1, Zenon DEF Cleared
    <3> QED
      BY <1>8, <2>2, <3>1, <3>2, Zenon
  <2> QED
    BY <2>2, Zenon DEF Cleared
<1>16. SizeFound'
  <2>1. ASSUME NEW c PROVE FreedRange(c.start, 0)' = FreedRange(c.start, 0)
    BY <1>4, Zenon DEF FreedRange
  <2> QED
    BY <1>1, <1>2, <1>4, <1>8, <2>1, Zenon DEF SizeFound, HeapMapCurrent
<1>17. NothingBefore'
  BY <1>1, <1>4, <1>9 DEF NothingBefore
<1>18. HistoryOfBlock'
  BY <1>1, <1>4, <1>8, <1>9, Zenon DEF HistoryOfBlock
<1> QED
  BY <1>11, <1>12, <1>13, <1>14, <1>15, <1>16, <1>17, <1>18, Zenon DEF HInv

-----------------------------------------------------------------------------
(* The records *)

\* The types of the log after a record of an allocation or a free.
LEMMA LogGoesOn ==
  ASSUME HTyped, NEW no \in RecordNo, AdvancePast(no)
  PROVE  log' \in [no : Nat, tid : Thread, pips : SUBSET Pip]
<1>1. no \in Nat
  BY NaturalsAssumption, Zenon
<1> QED
  BY <1>1, Zenon DEF HTyped, AdvancePast

\* The ALLOC record puts the size into heap_map and changes nothing else.
LEMMA AllocLogged ==
  ASSUME HTyped, NEW start \in Address, NEW size \in Size, NextNo \in RecordNo,
         DetectAlloc(NextNo, start, size)
  PROVE  /\ heap_map' \in [Address -> Nat] /\ accesses' = accesses
         /\ log' \in [no : Nat, tid : Thread, pips : SUBSET Pip]
         /\ heap_map'[start] = size
         /\ \A a \in Address : a # start => heap_map'[a] = heap_map[a]
<1>1. log' \in [no : Nat, tid : Thread, pips : SUBSET Pip]
  BY LogGoesOn, Zenon DEF DetectAlloc
<1>2. heap_map' = [heap_map EXCEPT ![start] = size] /\ accesses' = accesses
  BY ReuseAssumption, Zenon DEF DetectAlloc
<1>3. size \in Nat
  BY NaturalsAssumption, Zenon
<1> QED
  BY <1>1, <1>2, <1>3, Zenon DEF HTyped

\* malloc: the record, and the return.
LEMMA MallocLogStep ==
  ASSUME HInv, NEW t \in Thread, MallocLog(t)
  PROVE  HInv'
<1>1. /\ HTyped /\ Allocated /\ Overlapping /\ Cleared /\ SizeFound /\ NothingBefore
      /\ HeapMapCurrent /\ HistoryOfBlock /\ Unlogged \subseteq Block
  BY UnloggedBlocks, Zenon DEF HInv
<1> DEFINE b == call[t].block
           b2 == Returned(b)
<1>2. /\ call[t].fn = "malloc" /\ call' = [call EXCEPT ![t] = NoCall]
      /\ live' = (live \ {b}) \cup {b2} /\ UNCHANGED <<racez_enable, own, blurred>>
  BY Zenon DEF MallocLog, Return, Returned
<1>3. b \in live /\ b \in Block /\ b.start \in Address /\ b.size \in Size
  BY <1>1, <1>2 DEF Allocated, HTyped, Block
<1>4. /\ b2 \in Block /\ Extent(b2) = Extent(b) /\ b2.start = b.start /\ b2.size = b.size
      /\ (b2.logged <=> racez_enable) /\ b2.ready
  <2>1. racez_enable \in BOOLEAN
    BY <1>1, Zenon DEF HTyped
  <2> HIDE DEF b
  <2> QED
    BY <1>3, <2>1, ReturnedIsBlock, Zenon
<1>5. /\ heap_map' \in [Address -> Nat] /\ accesses' = accesses
      /\ log' \in [no : Nat, tid : Thread, pips : SUBSET Pip]
      /\ racez_enable => heap_map'[b.start] = b.size
      /\ \A a \in Address : heap_map'[a] = heap_map[a] \/ (racez_enable /\ a = b.start)
  <2>1. CASE racez_enable
    <3>1. NextNo \in RecordNo /\ DetectAlloc(NextNo, b.start, b.size)
      BY <2>1, Zenon DEF MallocLog
    <3> QED
      BY <1>1, <1>3, <2>1, <3>1, AllocLogged, Zenon
  <2>2. CASE ~racez_enable
    <3>1. UNCHANGED vars
      BY <2>2, Zenon DEF MallocLog
    <3> QED
      BY <1>1, <2>2, <3>1, Zenon DEF HTyped, vars
  <2> QED
    BY <2>1, <2>2, Zenon
<1> HIDE DEF b, b2
<1>6. NoCall \in Call /\ NoCall.fn = "user"
  BY DEF NoCall, Call
<1>7. Unlogged' = Unlogged
  BY <1>1, <1>2, <1>6, UnloggedStays, Zenon
<1>8. /\ call' \in [Thread -> Call] /\ call'[t] = NoCall
      /\ \A u \in Thread : u # t => call'[u] = call[u]
  BY <1>1, <1>2, <1>6, CallMoves, Zenon
<1>9. \A c \in live : c # b => Extent(c) \cap Extent(b) = {}
  BY <1>1, <1>3, Zenon DEF Allocated
<1>10. HTyped'
  BY <1>1, <1>2, <1>4, <1>5, <1>8 DEF HTyped
<1>11. Allocated'
  <2>0. \A u \in Thread : call'[u].fn # "user" => u # t /\ call'[u] = call[u]
    BY <1>6, <1>8, Zenon
  <2>1. \A c, d \in live' : c # d => Extent(c) \cap Extent(d) = {}
    BY <1>1, <1>2, <1>4, <1>9, Zenon DEF Allocated
  <2>2. \A c \in live' : c.ready \/ \E u \in Thread : call'[u] = [fn |-> "malloc", block |-> c]
    <3>1. ASSUME NEW c \in live, c # b, ~c.ready
          PROVE  \E u \in Thread : call'[u] = [fn |-> "malloc", block |-> c]
      <4>1. PICK u \in Thread : call[u] = [fn |-> "malloc", block |-> c]
        BY <1>1, <3>1, Zenon DEF Allocated
      <4>2. call[u].block = c
        BY <4>1
      <4> QED
        BY <1>8, <3>1, <4>1, <4>2, Zenon DEF b
    <3> QED
      BY <1>2, <1>4, <3>1, Zenon
  <2>3. \A u \in Thread : call'[u].fn = "malloc" => call'[u].block \in live' /\ ~call'[u].block.ready
    <3>1. ASSUME NEW u \in Thread, call'[u].fn = "malloc"
          PROVE  call'[u].block \in live' /\ ~call'[u].block.ready
      <4>1. u # t /\ call'[u] = call[u]
        BY <2>0, <3>1, Zenon
      <4>2. call[u].block # b
        BY <1>1, <1>2, <3>1, <4>1, Zenon DEF Allocated, b
      <4>3. call[u].block \in live /\ ~call[u].block.ready
        BY <1>1, <3>1, <4>1, Zenon DEF Allocated
      <4> QED
        BY <1>2, <4>1, <4>2, <4>3
    <3> QED
      BY <3>1, Zenon
  <2>4. \A u \in Thread : call'[u].fn = "free" => call'[u].block \in Block
    BY <1>1, <2>0, Zenon DEF Allocated
  <2>5. \A u, w \in Thread : call'[u].fn = "malloc" /\ call'[w].fn = "malloc"
                              /\ call'[u].block = call'[w].block => u = w
    BY <1>1, <2>0, Zenon DEF Allocated
  <2> QED
    BY <2>1, <2>2, <2>3, <2>4, <2>5, Zenon DEF Allocated
<1>12. HeapMapCurrent'
  <2>1. ASSUME NEW c \in live, c # b, c.logged PROVE heap_map'[c.start] = c.size
    <3>1. c \in Block /\ c.start \in Address
      BY <1>1, <2>1, BlockLies, Zenon DEF HTyped
    <3>2. c.start # b.start
      BY <1>3, <1>9, <2>1, <3>1, StartsDiffer, Zenon
    <3> QED
      BY <1>1, <1>5, <2>1, <3>1, <3>2, Zenon DEF HeapMapCurrent
  <2> QED
    BY <1>2, <1>4, <1>5, <2>1, Zenon DEF HeapMapCurrent
<1>13. Overlapping'
  BY <1>1, <1>2, <1>3, <1>4, <1>7, Zenon DEF Overlapping
<1>14. Cleared'
  BY <1>1, <1>2, <1>7, Zenon DEF Cleared
<1>15. SizeFound'
  <2>1. ASSUME NEW c \in Unlogged, c.logged
        PROVE  \/ heap_map'[c.start] = c.size
               \/ Extent(c) \cup FreedRange(c.start, 0)' \subseteq blurred
    <3>1. c \in Block /\ c.start \in Address
      BY <1>1, <2>1, BlockLies, Zenon
    <3>2. CASE heap_map'[c.start] = heap_map[c.start]
      <4>1. FreedRange(c.start, 0)' = FreedRange(c.start, 0)
        BY <3>2 DEF FreedRange
      <4> QED
        BY <1>1, <2>1, <3>2, <4>1, Zenon DEF SizeFound
    <3>3. CASE racez_enable /\ c.start = b.start
      <4>1. FreedRange(c.start, 0)' = {a \in Address : b.start <= a /\ a < b.start + b.size}
        BY <1>5, <3>3 DEF FreedRange
      <4>2. FreedRange(c.start, 0)' = Extent(b)
        BY <1>3, <4>1, FreedIsExtent, Zenon
      <4>3. ~(Extent(b) \cap Extent(c) = {})
        BY <1>3, <3>1, <3>3, StartsDiffer, Zenon
      <4> QED
        BY <1>1, <1>3, <2>1, <4>2, <4>3, Zenon DEF Overlapping
    <3> QED
      BY <1>5, <3>1, <3>2, <3>3, Zenon
  <2> QED
    BY <1>2, <1>7, <2>1, Zenon DEF SizeFound
<1>16. NothingBefore'
  BY <1>1, <1>2, <1>5 DEF NothingBefore
<1>17. HistoryOfBlock'
  BY <1>1, <1>2, <1>5, <1>7, Zenon DEF HistoryOfBlock
<1> QED
  BY <1>10, <1>11, <1>12, <1>13, <1>14, <1>15, <1>16, <1>17, Zenon DEF HInv

\* The FREE record of a block forgets what FreedRange says, and changes nothing else.
LEMMA FreeLogged ==
  ASSUME HTyped, NEW start \in Address, start # 0, NextNo \in RecordNo,
         DetectFree(NextNo, start, 0)
  PROVE  /\ heap_map' = heap_map
         /\ log' \in [no : Nat, tid : Thread, pips : SUBSET Pip]
         /\ accesses' \in [Address -> SUBSET Abstract!Access]
         /\ \A a \in Address : accesses'[a] = IF a \in FreedRange(start, 0) THEN {} ELSE accesses[a]
<1>1. log' \in [no : Nat, tid : Thread, pips : SUBSET Pip]
  BY LogGoesOn, Zenon DEF DetectFree
<1>2. /\ heap_map' = heap_map
      /\ accesses' = [a \in Address |-> IF a \in FreedRange(start, 0) THEN {} ELSE accesses[a]]
  BY ReuseAssumption, Zenon DEF DetectFree, delete_map_entries
<1> QED
  BY <1>1, <1>2, Zenon DEF HTyped

\* free: the record, and the return.
LEMMA FreeLogStep ==
  ASSUME HInv, NEW t \in Thread, FreeLog(t)
  PROVE  HInv'
<1>1. /\ HTyped /\ Allocated /\ Overlapping /\ Cleared /\ SizeFound /\ NothingBefore
      /\ HeapMapCurrent /\ HistoryOfBlock /\ Unlogged \subseteq Block
  BY UnloggedBlocks, Zenon DEF HInv
<1> DEFINE b == call[t].block
           gone == FreedRange(b.start, 0)
<1>2. /\ call[t].fn = "free" /\ call' = [call EXCEPT ![t] = NoCall]
      /\ UNCHANGED <<racez_enable, live, own>>
      /\ blurred' = IF racez_enable /\ ~b.logged THEN blurred \cup Extent(b) \cup gone ELSE blurred
  BY Zenon DEF FreeLog, Return
<1>3. b \in Unlogged /\ b \in Block
  BY <1>1, <1>2, Zenon DEF Unlogged
<1>4. b.start \in Address /\ b.start # 0 /\ Extent(b) \subseteq Address /\ gone \subseteq Address
  BY <1>3, BlockLies, Zenon DEF FreedRange
<1>5. /\ heap_map' = heap_map
      /\ log' \in [no : Nat, tid : Thread, pips : SUBSET Pip]
      /\ accesses' \in [Address -> SUBSET Abstract!Access]
      /\ \A a \in Address : accesses'[a] = IF racez_enable /\ a \in gone THEN {} ELSE accesses[a]
  <2>1. CASE racez_enable
    <3>1. NextNo \in RecordNo /\ DetectFree(NextNo, b.start, 0)
      BY <2>1, Zenon DEF FreeLog
    <3> QED
      BY <1>1, <1>4, <2>1, <3>1, FreeLogged, Zenon
  <2>2. CASE ~racez_enable
    <3>1. UNCHANGED vars
      BY <2>2, Zenon DEF FreeLog
    <3> QED
      BY <1>1, <2>2, <3>1, Zenon DEF HTyped, vars
  <2> QED
    BY <2>1, <2>2, Zenon
<1>6. NoCall \in Call /\ NoCall.fn = "user"
  BY DEF NoCall, Call
<1> HIDE DEF b, gone
<1>7. /\ call' \in [Thread -> Call] /\ call'[t] = NoCall
      /\ \A u \in Thread : u # t => call'[u] = call[u]
  BY <1>1, <1>2, <1>6, CallMoves, Zenon
<1>8. \A u \in Thread : call'[u].fn # "user" => u # t /\ call'[u] = call[u]
  BY <1>6, <1>7, Zenon
<1>9. Unlogged' \subseteq Unlogged /\ Unlogged \subseteq Unlogged' \cup {b}
  <2>1. ASSUME NEW u \in Thread, call'[u].fn = "free" PROVE call'[u].block \in Unlogged
    <3>1. call'[u] = call[u]
      BY <1>8, <2>1, Zenon
    <3> QED
      BY <2>1, <3>1, Zenon DEF Unlogged
  <2>2. ASSUME NEW u \in Thread, call[u].fn = "free" PROVE call[u].block \in Unlogged' \cup {b}
    <3>1. CASE u = t
      BY <3>1, Zenon DEF b
    <3>2. CASE u # t
      BY <1>7, <2>2, <3>2, Zenon DEF Unlogged
    <3> QED
      BY <3>1, <3>2, Zenon
  <2> QED
    BY <2>1, <2>2, Zenon DEF Unlogged
<1>10. blurred \subseteq blurred' /\ blurred' \subseteq Address
  BY <1>1, <1>2, <1>4, Zenon DEF HTyped
<1>11. HTyped'
  BY <1>1, <1>2, <1>5, <1>7, <1>10 DEF HTyped
<1>12. Allocated'
  <2>1. \A c \in live' : c.ready \/ \E u \in Thread : call'[u] = [fn |-> "malloc", block |-> c]
    <3>1. ASSUME NEW c \in live, ~c.ready
          PROVE  \E u \in Thread : call'[u] = [fn |-> "malloc", block |-> c]
      <4>1. PICK u \in Thread : call[u] = [fn |-> "malloc", block |-> c]
        BY <1>1, <3>1, Zenon DEF Allocated
      <4>2. call[u].fn = "malloc"
        BY <4>1
      <4>3. u # t
        BY <1>2, <4>2, Zenon
      <4> QED
        BY <1>7, <4>1, <4>3, Zenon
    <3> QED
      BY <1>2, <3>1
  <2>2. \A u \in Thread : call'[u].fn = "malloc" => call'[u].block \in live' /\ ~call'[u].block.ready
    <3>1. ASSUME NEW u \in Thread, call'[u].fn = "malloc"
          PROVE  call'[u] = call[u] /\ call[u].block \in live /\ ~call[u].block.ready
      BY <1>1, <1>8, <3>1 DEF Allocated
    <3> QED
      BY <1>2, <3>1
  <2>3. \A u \in Thread : call'[u].fn = "free" => call'[u].block \in Block
    BY <1>1, <1>8, Zenon DEF Allocated
  <2>4. \A u, w \in Thread : call'[u].fn = "malloc" /\ call'[w].fn = "malloc"
                              /\ call'[u].block = call'[w].block => u = w
    BY <1>1, <1>8, Zenon DEF Allocated
  <2>5. \A c, d \in live' : c # d => Extent(c) \cap Extent(d) = {}
    BY <1>1, <1>2, Zenon DEF Allocated
  <2> QED
    BY <2>1, <2>2, <2>3, <2>4, <2>5, Zenon DEF Allocated
<1>13. HeapMapCurrent'
  BY <1>1, <1>2, <1>5, Zenon DEF HeapMapCurrent
<1>14. Overlapping'
  BY <1>1, <1>2, <1>9, <1>10, Zenon DEF Overlapping
<1>15. Cleared'
  BY <1>1, <1>2, <1>9, <1>10, Zenon DEF Cleared
<1>16. SizeFound'
  <2>1. ASSUME NEW c PROVE FreedRange(c.start, 0)' = FreedRange(c.start, 0)
    BY <1>5, Zenon DEF FreedRange
  <2> QED
    BY <1>1, <1>5, <1>9, <1>10, <2>1, Zenon DEF SizeFound
<1>17. NothingBefore'
  BY <1>1, <1>2, <1>5 DEF NothingBefore
<1>18. HistoryOfBlock'
  <2>1. SUFFICES ASSUME NEW a \in Address, a \notin blurred', \A c \in Unlogged' : a \notin Extent(c)
                 PROVE  accesses'[a] = own[a]
    BY <1>2, Zenon DEF HistoryOfBlock
  <2>2. a \notin blurred
    BY <1>10, <2>1, Zenon
  <2>3. CASE ~racez_enable
    BY <1>1, <1>5, <2>3, Zenon DEF NothingBefore
  <2>4. CASE racez_enable
    <3>1. b.logged \/ a \notin Extent(b) \cup gone
      BY <1>2, <2>1, <2>4, Zenon
    <3>2. a \in gone <=> a \in Extent(b)
      <4>1. CASE b.logged /\ heap_map[b.start] = b.size
        <5>1. gone = {x \in Address : b.start <= x /\ x < b.start + b.size}
          BY <4>1 DEF gone, FreedRange
        <5> QED
          BY <1>3, <5>1, FreedIsExtent, Zenon
      <4>2. CASE b.logged /\ heap_map[b.start] # b.size
        BY <1>1, <1>3, <2>2, <4>2, Zenon DEF SizeFound, gone
      <4> QED
        BY <3>1, <4>1, <4>2, Zenon
    <3>3. CASE a \in Extent(b)
      BY <1>1, <1>3, <1>5, <2>2, <2>4, <3>2, <3>3, Zenon DEF Cleared
    <3>4. CASE a \notin Extent(b)
      <4>1. \A c \in Unlogged : a \notin Extent(c)
        BY <1>9, <2>1, <3>4, Zenon
      <4> QED
        BY <1>1, <1>5, <2>2, <3>2, <3>4, <4>1, Zenon DEF HistoryOfBlock
    <3> QED
      BY <3>3, <3>4, Zenon
  <2> QED
    BY <2>3, <2>4, Zenon
<1> QED
  BY <1>11, <1>12, <1>13, <1>14, <1>15, <1>16, <1>17, <1>18, Zenon DEF HInv

\* Records of the address 0 concern no block.
LEMMA NullCallStep ==
  ASSUME HInv, NEW t \in Thread, NullCall(t)
  PROVE  HInv'
<1>1. /\ HTyped /\ Allocated /\ Overlapping /\ Cleared /\ SizeFound /\ NothingBefore
      /\ HeapMapCurrent /\ HistoryOfBlock /\ Unlogged \subseteq Block
  BY UnloggedBlocks, Zenon DEF HInv
<1>2. /\ UNCHANGED <<racez_enable, live, call, own, blurred>> /\ NextNo \in RecordNo /\ 0 \in Address
      /\ (\E size \in Size \ {0} : DetectAlloc(NextNo, 0, size)) \/ DetectFree(NextNo, 0, 0)
  BY ReuseAssumption, Zenon DEF NullCall
<1>3. /\ heap_map' \in [Address -> Nat] /\ accesses' = accesses
      /\ log' \in [no : Nat, tid : Thread, pips : SUBSET Pip]
      /\ \A a \in Address : a # 0 => heap_map'[a] = heap_map[a]
  <2>1. CASE \E size \in Size \ {0} : DetectAlloc(NextNo, 0, size)
    BY <1>1, <1>2, <2>1, AllocLogged, Zenon
  <2>2. CASE DetectFree(NextNo, 0, 0)
    <3>1. AdvancePast(NextNo) /\ accesses' = accesses /\ heap_map' = heap_map
      BY <2>2, Zenon DEF DetectFree
    <3> QED
      BY <1>1, <1>2, <3>1, LogGoesOn, Zenon DEF HTyped
  <2> QED
    BY <1>2, <2>1, <2>2, Zenon
<1>4. Unlogged' = Unlogged
  BY <1>2, Zenon DEF Unlogged
<1>5. \A c \in Block : heap_map'[c.start] = heap_map[c.start]
  BY <1>3, BlockLies, Zenon
<1>6. HTyped'
  BY <1>1, <1>2, <1>3 DEF HTyped
<1>7. Allocated'
  BY <1>1, <1>2, Zenon DEF Allocated
<1>8. HeapMapCurrent'
  BY <1>1, <1>2, <1>5, Zenon DEF HeapMapCurrent, HTyped
<1>9. Overlapping' /\ Cleared'
  BY <1>1, <1>2, <1>4, Zenon DEF Overlapping, Cleared
<1>10. SizeFound'
  <2>1. \A c \in Unlogged : FreedRange(c.start, 0)' = FreedRange(c.start, 0)
    BY <1>1, <1>5, Zenon DEF FreedRange
  <2> QED
    BY <1>1, <1>2, <1>4, <1>5, <2>1, Zenon DEF SizeFound
<1>11. NothingBefore'
  BY <1>1, <1>2, <1>3 DEF NothingBefore
<1>12. HistoryOfBlock'
  BY <1>1, <1>2, <1>3, <1>4, Zenon DEF HistoryOfBlock
<1> QED
  BY <1>6, <1>7, <1>8, <1>9, <1>10, <1>11, <1>12, Zenon DEF HInv

\* A sample adds one access of the present block to both sides.
LEMMA SampleStep ==
  ASSUME HInv, NEW t \in Thread, Sample(t)
  PROVE  HInv'
<1>1. /\ HTyped /\ Allocated /\ Overlapping /\ Cleared /\ SizeFound /\ NothingBefore
      /\ HeapMapCurrent /\ HistoryOfBlock
  BY Zenon DEF HInv
<1>2. UNCHANGED <<racez_enable, live, call, blurred>> /\ NextNo \in RecordNo /\ racez_enable
  BY Zenon DEF Sample
<1>0. PICK b \in live, pip \in Pip, write \in {0, 1}, locks \in SUBSET Lock :
      \E a \in Extent(b) :
        /\ DetectOp([no |-> NextNo, tid |-> t, pip |-> pip, addr |-> a, write |-> write, locks |-> locks])
        /\ own' = [own EXCEPT ![a] = @ \cup {[tid |-> t, write |-> write, locks |-> locks]}]
  BY Zenon DEF Sample
<1>3. PICK a \in Extent(b) :
        /\ DetectOp([no |-> NextNo, tid |-> t, pip |-> pip, addr |-> a, write |-> write, locks |-> locks])
        /\ own' = [own EXCEPT ![a] = @ \cup {[tid |-> t, write |-> write, locks |-> locks]}]
  BY <1>0, Zenon
<1> DEFINE r == [no |-> NextNo, tid |-> t, pip |-> pip, addr |-> a, write |-> write, locks |-> locks]
           x == [tid |-> t, write |-> write, locks |-> locks]
<1>4. b \in Block /\ a \in Address /\ a # 0
  BY <1>1, <1>3, BlockLies, Zenon DEF HTyped
<1>5. /\ r.no = NextNo /\ r.tid = t /\ r.pip = pip /\ r.addr = a /\ r.write = write /\ r.locks = locks
      /\ x \in Abstract!Access /\ DetectOp(r)
  BY <1>3, <1>4 DEF Abstract!Access
<1>6. own' = [own EXCEPT ![a] = @ \cup {x}]
  BY <1>3, Zenon
<1> HIDE DEF r, x
<1>7. Advance(r) /\ DetectAccess(r)
  BY <1>4, <1>5, Zenon DEF DetectOp
<1>8. heap_map' = heap_map /\ accesses' = [accesses EXCEPT ![a] = @ \cup {x}]
  BY <1>5, <1>7, Zenon DEF DetectAccess, x
<1>9. /\ own' \in [Address -> SUBSET Abstract!Access] /\ accesses' \in [Address -> SUBSET Abstract!Access]
      /\ own'[a] = own[a] \cup {x} /\ accesses'[a] = accesses[a] \cup {x}
      /\ \A d \in Address : d # a => own'[d] = own[d] /\ accesses'[d] = accesses[d]
  BY <1>1, <1>4, <1>5, <1>6, <1>8 DEF HTyped
<1>10. log' \in [no : Nat, tid : Thread, pips : SUBSET Pip]
  <2>1. NextNo \in Nat
    BY <1>2, NaturalsAssumption, Zenon
  <2> QED
    BY <1>1, <1>3, <1>5, <1>7, <2>1 DEF Advance, HTyped
<1>11. Unlogged' = Unlogged
  BY <1>2, Zenon DEF Unlogged
<1>12. HTyped'
  BY <1>1, <1>2, <1>8, <1>9, <1>10 DEF HTyped
<1>13. Allocated'
  BY <1>1, <1>2, Zenon DEF Allocated
<1>14. HeapMapCurrent' /\ Overlapping'
  BY <1>1, <1>2, <1>8, <1>11, Zenon DEF HeapMapCurrent, Overlapping
<1>15. Cleared'
  <2>1. ASSUME NEW c \in Unlogged, NEW d \in Extent(c) PROVE d \in blurred \/ own'[d] = {}
    <3>1. CASE d = a
      BY <1>1, <1>3, <2>1, <3>1, Zenon DEF Overlapping
    <3>2. CASE d # a
      <4>1. d \in Address
        BY <1>1, <2>1, UnloggedBlocks, BlockLies, Zenon
      <4> QED
        BY <1>1, <1>9, <2>1, <3>2, <4>1, Zenon DEF Cleared
    <3> QED
      BY <3>1, <3>2, Zenon
  <2> QED
    BY <1>2, <1>11, <2>1, Zenon DEF Cleared
<1>16. SizeFound'
  <2>1. ASSUME NEW c PROVE FreedRange(c.start, 0)' = FreedRange(c.start, 0)
    BY <1>8, Zenon DEF FreedRange
  <2> QED
    BY <1>1, <1>2, <1>8, <1>11, <2>1, Zenon DEF SizeFound
<1>17. NothingBefore'
  BY <1>2 DEF NothingBefore
<1>18. HistoryOfBlock'
  BY <1>1, <1>2, <1>9, <1>11, Zenon DEF HistoryOfBlock
<1> QED
  BY <1>12, <1>13, <1>14, <1>15, <1>16, <1>17, <1>18, Zenon DEF HInv

\* racez_start returns: from now on records are written.
LEMMA StartStep ==
  ASSUME HInv, racez_start
  PROVE  HInv'
<1>1. racez_enable' /\ UNCHANGED <<heap_map, accesses, log, live, call, own, blurred>>
  BY DEF racez_start, vars
<1>2. HTyped'
  BY <1>1 DEF HInv, HTyped, racez_start
<1>3. Unlogged' = Unlogged /\ \A c : FreedRange(c.start, 0)' = FreedRange(c.start, 0)
  BY <1>1, Zenon DEF Unlogged, FreedRange
<1>4. Allocated' /\ HeapMapCurrent' /\ Overlapping' /\ Cleared' /\ HistoryOfBlock'
  BY <1>1, <1>3, Zenon DEF HInv, Allocated, HeapMapCurrent, Overlapping, Cleared, HistoryOfBlock
<1>5. SizeFound' /\ NothingBefore'
  BY <1>1, <1>3, Zenon DEF HInv, SizeFound, NothingBefore
<1> QED
  BY <1>2, <1>4, <1>5, Zenon DEF HInv

\* A program that has not begun.
LEMMA InitHInv == TraceInit => HInv
<1> SUFFICES ASSUME TraceInit PROVE HInv
  OBVIOUS
<1>1. /\ racez_enable = FALSE /\ live = {} /\ blurred = {} /\ call = [t \in Thread |-> NoCall]
      /\ own = [a \in Address |-> {}] /\ accesses = [a \in Address |-> {}]
      /\ heap_map = [a \in Address |-> 0]
      /\ \E t \in Thread : log = [no |-> 0, tid |-> t, pips |-> Pip]
  BY Zenon DEF TraceInit, Init
<1>2. \A t \in Thread : call[t] = NoCall
  BY <1>1, Zenon
<1>3. NoCall \in Call /\ NoCall.fn = "user"
  BY DEF NoCall, Call
<1>4. Unlogged = {}
  BY <1>2, <1>3, Zenon DEF Unlogged
<1>5. HTyped
  <2>1. log \in [no : Nat, tid : Thread, pips : SUBSET Pip]
    BY <1>1
  <2>2. /\ call \in [Thread -> Call] /\ heap_map \in [Address -> Nat]
        /\ own \in [Address -> SUBSET Abstract!Access] /\ accesses \in [Address -> SUBSET Abstract!Access]
    BY <1>1, <1>3
  <2>3. racez_enable \in BOOLEAN /\ live \subseteq Block /\ blurred \subseteq Address
    BY <1>1, Zenon
  <2> QED
    BY <2>1, <2>2, <2>3, Zenon DEF HTyped
<1>6. Allocated /\ HeapMapCurrent /\ Overlapping /\ Cleared /\ SizeFound
  BY <1>1, <1>2, <1>3, <1>4, Zenon DEF Allocated, HeapMapCurrent, Overlapping, Cleared, SizeFound
<1>7. NothingBefore /\ HistoryOfBlock
  BY <1>1, Zenon DEF NothingBefore, HistoryOfBlock
<1> QED
  BY <1>5, <1>6, <1>7, Zenon DEF HInv

\* Every step keeps the invariant.
LEMMA StepHInv == HInv /\ [TraceNext]_traceVars => HInv'
<1> SUFFICES ASSUME HInv, [TraceNext]_traceVars PROVE HInv'
  OBVIOUS
<1>1. CASE UNCHANGED traceVars
  <2>1. UNCHANGED <<heap_map, accesses, log, racez_enable, live, call, own, blurred>>
    BY <1>1 DEF traceVars, vars
  <2>2. HTyped'
    BY <2>1 DEF HInv, HTyped
  <2>3. Unlogged' = Unlogged /\ \A c : FreedRange(c.start, 0)' = FreedRange(c.start, 0)
    BY <2>1, Zenon DEF Unlogged, FreedRange
  <2>4. Allocated' /\ HeapMapCurrent' /\ Overlapping' /\ Cleared' /\ HistoryOfBlock'
    BY <2>1, <2>3, Zenon DEF HInv, Allocated, HeapMapCurrent, Overlapping, Cleared, HistoryOfBlock
  <2>5. SizeFound' /\ NothingBefore'
    BY <2>1, <2>3 DEF HInv, SizeFound, NothingBefore
  <2> QED
    BY <2>2, <2>4, <2>5, Zenon DEF HInv
<1>2. CASE racez_start
  BY <1>2, StartStep, Zenon
<1>3. ASSUME NEW t \in Thread,
             \/ Malloc(t) \/ MallocLog(t) \/ Calloc(t) \/ Free(t) \/ FreeLog(t)
             \/ NullCall(t) \/ Sample(t)
      PROVE  HInv'
  BY <1>3, MallocStep, MallocLogStep, CallocStep, FreeStep, FreeLogStep, NullCallStep, SampleStep, Zenon
<1> QED
  BY <1>1, <1>2, <1>3, Zenon DEF TraceNext

-----------------------------------------------------------------------------
(* Theorems *)

\* The wrappers' invariant: blocks in use are disjoint, and what is overlaid by a block
\* before its FREE record is written is blurred.
THEOREM HeapInvariant == TraceSpec => []HInv
BY InitHInv, StepHInv, PTL DEF TraceSpec

\* The blocks and the calls of malloc and free keep their types, and blocks in use are
\* disjoint (racez_preload.c:178-221).
THEOREM HeapTypeCorrect == TraceSpec => []HeapTypeOK
<1>1. HInv => HeapTypeOK
  <2> SUFFICES ASSUME HInv PROVE HeapTypeOK
    OBVIOUS
  <2>1. HTyped /\ Allocated
    BY Zenon DEF HInv
  <2>2. \A t \in Thread : /\ call[t].fn \in {"user", "malloc", "free"}
                           /\ call[t].block \in Block \cup {NoBlock}
    BY <2>1 DEF HTyped, Call
  <2> QED
    BY <2>1, <2>2, Zenon DEF HTyped, Allocated, HeapTypeOK
<1> QED
  BY <1>1, HeapInvariant, PTL

\* heap_map has the size of every block in use whose allocation was logged, whatever
\* blocks began at the address before (detect.cc:418-427).
THEOREM SizesAreCurrent == TraceSpec => []HeapMapCurrent
<1>1. HInv => HeapMapCurrent
  BY Zenon DEF HInv
<1> QED
  BY <1>1, HeapInvariant, PTL

\* The memory reuse filter: the history of an address is that of its present block, but
\* for the two cases HistoryOfBlock names, for any number of threads and blocks
\* (detect.cc:429-456).
THEOREM HistoryIsOfBlock == TraceSpec => []HistoryOfBlock
<1>1. HInv => HistoryOfBlock
  BY Zenon DEF HInv
<1> QED
  BY <1>1, HeapInvariant, PTL

\* The records the wrappers and the samples write are a log as the detector expects it.
LEMMA WritesLog ==
  ASSUME HInv, [TraceNext]_traceVars
  PROVE  [Next]_vars
<1>1. HTyped /\ Allocated
  BY Zenon DEF HInv
<1>2. ASSUME NextNo \in RecordNo PROVE NextNo > log.no
  BY <1>1 DEF HTyped, NextNo
<1>3. ASSUME NEW start \in Address, NEW size \in Size, NextNo \in RecordNo,
             DetectAlloc(NextNo, start, size) \/ DetectFree(NextNo, start, size)
      PROVE  Next
  BY <1>2, <1>3, Zenon DEF Next
<1>4. ASSUME NEW t \in Thread, call[t].fn \in {"malloc", "free"}
      PROVE  call[t].block.start \in Address /\ call[t].block.size \in Size
  <2>1. call[t].block \in Block
    BY <1>1, <1>4, Zenon DEF Allocated, HTyped
  <2> QED
    BY <2>1, Zenon DEF Block
<1>5. 0 \in Address /\ 0 \in Size
  BY ReuseAssumption, Zenon
<1>6. CASE racez_start \/ UNCHANGED traceVars
  BY <1>6, Zenon DEF racez_start, traceVars
<1>7. ASSUME NEW t \in Thread, Malloc(t) \/ Calloc(t) \/ Free(t) PROVE UNCHANGED vars
  BY <1>7, Zenon DEF Malloc, Calloc, Free
<1>8. ASSUME NEW t \in Thread, MallocLog(t) PROVE Next \/ UNCHANGED vars
  BY <1>3, <1>4, <1>8, Zenon DEF MallocLog, Return
<1>9. ASSUME NEW t \in Thread, FreeLog(t) PROVE Next \/ UNCHANGED vars
  BY <1>3, <1>4, <1>5, <1>9, Zenon DEF FreeLog, Return
<1>10. ASSUME NEW t \in Thread, NullCall(t) PROVE Next
  BY <1>3, <1>5, <1>10, Zenon DEF NullCall
<1>11. ASSUME NEW t \in Thread, Sample(t) PROVE Next
  <2>1. PICK b \in live, pip \in Pip, write \in {0, 1}, locks \in SUBSET Lock : \E a \in Extent(b) :
          DetectOp([no |-> NextNo, tid |-> t, pip |-> pip, addr |-> a, write |-> write, locks |-> locks])
    BY <1>11, Zenon DEF Sample
  <2>2. PICK a \in Extent(b) :
          DetectOp([no |-> NextNo, tid |-> t, pip |-> pip, addr |-> a, write |-> write, locks |-> locks])
    BY <2>1, Zenon
  <2>3. NextNo \in RecordNo
    BY <1>11, Zenon DEF Sample
  <2>4. a \in Address
    BY <1>1, <2>2, BlockLies, Zenon DEF HTyped
  <2> DEFINE r == [no |-> NextNo, tid |-> t, pip |-> pip, addr |-> a, write |-> write, locks |-> locks]
  <2>5. r \in Record /\ r.no = NextNo
    BY <2>3, <2>4 DEF Record
  <2>6. DetectOp(r)
    BY <2>2, Zenon
  <2> HIDE DEF r
  <2>7. InLogOrder(r)
    BY <1>2, <2>3, <2>5, Zenon DEF InLogOrder
  <2> QED
    BY <2>5, <2>6, <2>7, Zenon DEF Next
<1> QED
  BY <1>6, <1>7, <1>8, <1>9, <1>10, <1>11, Zenon DEF TraceNext

\* A program that uses its heap while it is sampled writes a log of the form module
\* Detector assumes, whatever the order in which the wrappers of its threads end
\* (racez_preload.c:178-221): every theorem about the detector holds of it.
THEOREM WritesADetectorLog == TraceSpec => Spec
<1>1. TraceInit => Init
  BY Zenon DEF TraceInit
<1>2. HInv /\ [TraceNext]_traceVars => [Next]_vars
  BY WritesLog, Zenon
<1> QED
  BY <1>1, <1>2, HeapInvariant, PTL DEF TraceSpec, Spec

\* With the -m option and a heap in use the detector warns for exactly the accesses
\* RaceReport reports, over the history the FREE records leave (detect.cc:375-456).
THEOREM WarnsOnReusedMemory == TraceSpec => ImplementsRaceReport
BY WritesADetectorLog, Refinement, PTL
=============================================================================
