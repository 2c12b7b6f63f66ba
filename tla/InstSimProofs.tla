--------------------------- MODULE InstSimProofs ---------------------------
(***************************************************************************)
(* Proofs about module InstSim, for every function, every set of samples   *)
(* and all instructions.  Walk says what Go knows of the offsets, Derived  *)
(* what the two walks of ExecuteSimWhole have found so far.                *)
(***************************************************************************)
EXTENDS InstSim, LeastElement

\* The registers a write of reg pollutes.
Aliases(reg) == InvalidateRegister({}, reg)

\* Results are written under names InvalidateRegister knows for the family: whoever
\* reads the family reads one of the names it pollutes.
PairedNames ==
  \A i, j \in Insn : HasResult(i) /\ HasAddress(j) =>
    \A r \in {j.base} \cup j.index : r.family = i.dst.family => r \in Aliases(i.dst)

\* The registers polluted by the instructions in S.
Pollution(S) ==
  {r \in Register : \E j \in S : HasResult(code[j]) /\ r \in Aliases(code[j].dst)}

\* The records that a sample at instruction k should give, and their like.
Derivable(i, k) ==
  /\ i # k
  /\ HasAddress(code[i]) /\ code[i].simple /\ ~IsFrame(code[i].base)
  /\ Determined(i, k)

RecordOf(s, i) == [sample |-> s, insn |-> i, write |-> IsWrite(code[i])]

-----------------------------------------------------------------------------
(* The invariants *)

\* The inputs Go reads.
Inputs ==
  /\ code \in [Position -> Insn]
  /\ leader \in 2..(N + 1) /\ foreign \in 2..(N + 1)
  /\ samples \in Seq(Nat)

\* Its iterators.
Iterators ==
  /\ pc \in {"seek", "backward", "forward", "done", "undefined"}
  /\ sample \in 1..(Len(samples) + 1)
  /\ entry \in 1..(N + 2) /\ offset \in Nat
  /\ same_offset \in Nat /\ same_offset < sample
  /\ cursor \in 0..(N + 1)
  /\ pc \in {"seek", "backward", "forward"} => entry \in 1..(N + 1)
  /\ pc \in {"backward", "forward"} => entry \in Position /\ sample \in DOMAIN samples

\* And what it writes.
Outputs ==
  /\ backward_reg_map \subseteq Register /\ forward_reg_map \subseteq Register
  /\ updated \in [DOMAIN samples -> [write : {0, 1}, insn : 0..N]]
  /\ new_records \subseteq [sample : DOMAIN samples, insn : Position, write : {0, 1}]
  /\ place \in [DOMAIN samples -> 0..N]

Typed == Inputs /\ Iterators /\ Outputs

\* The samples are sorted.
Sorted == \A i, j \in DOMAIN samples : i < j => samples[i] <= samples[j]

\* offset is that of the entry, and that of a sample which is being simulated.
AtOffset ==
  /\ entry \in 1..(N + 1) => offset = OffsetOf[entry]
  /\ pc \in {"backward", "forward"} => place[sample] = entry /\ samples[sample] = offset

\* Samples to come are attributed to nothing yet.
Unplaced ==
  \A s \in DOMAIN samples : s > sample \/ (s = sample /\ pc = "seek") => place[s] = 0

\* Go has not gone past the next sample, unless one was between two instructions.
Ahead ==
  sample \in DOMAIN samples /\ pc # "undefined" =>
    samples[sample] >= offset \/ \E u \in 1..sample : Misplaced(u)

Walk == Sorted /\ AtOffset /\ Unplaced /\ Ahead /\ AttributedInPlace

\* The instructions the walks have passed.
Passed ==
  IF pc = "backward" THEN (cursor + 1)..(entry - 1)
  ELSE IF pc = "forward" THEN 1..(cursor - 1) ELSE {}

Simulation ==
  /\ pc # "backward" => backward_reg_map = {}
  /\ pc = "backward" =>
       /\ cursor < entry
       /\ backward_reg_map = Pollution((cursor + 1)..(entry - 1))
       /\ forward_reg_map = {}
       /\ \A j \in (cursor + 1)..entry : InsnCanHandle(code[j]) /\ SameBlock(j, entry)
  /\ pc = "forward" =>
       /\ cursor > entry
       /\ forward_reg_map = Pollution(entry..(cursor - 1))
       /\ \A j \in entry..(cursor - 1) : InsnCanHandle(code[j]) /\ SameBlock(j, entry)

\* The record of instruction i is one that sample s has given so far.
Found(s, i) ==
  /\ place[s] # 0 /\ Derivable(i, place[s])
  /\ s < sample \/ (s = sample /\ i \in Passed)

Derived ==
  /\ \A r \in new_records : r = RecordOf(r.sample, r.insn)
  /\ \A s \in DOMAIN samples, i \in Position :
       RecordOf(s, i) \in new_records <=> Found(s, i)

DInv == Typed /\ Walk /\ Simulation /\ Derived

-----------------------------------------------------------------------------
(* The offsets of the instructions *)

\* A table of the offsets of the first n instructions.
Table(g, n) ==
  /\ g \in [1..n -> Nat]
  /\ \A i \in 1..n : g[i] = IF i = 1 THEN 0 ELSE g[i - 1] + Sizes[i - 1]

\* A table goes on as long as there are instructions.
LEMMA TableExtends ==
  ASSUME NEW n \in Nat \ {0}, n <= N, NEW g, Table(g, n)
  PROVE  \E h : Table(h, n + 1)
<1> DEFINE h == [i \in 1..(n + 1) |-> IF i = n + 1 THEN g[n] + Sizes[n] ELSE g[i]]
<1>1. Sizes[n] \in Nat /\ g[n] \in Nat
  BY SizesAssumption DEF N, Table
<1>2. h \in [1..(n + 1) -> Nat]
  BY <1>1 DEF Table
<1>3. ASSUME NEW i \in 1..(n + 1)
      PROVE  h[i] = IF i = 1 THEN 0 ELSE h[i - 1] + Sizes[i - 1]
  <2>1. CASE i = n + 1
    <3>1. i # 1 /\ i - 1 = n /\ i - 1 # n + 1 /\ i - 1 \in 1..(n + 1)
      BY <2>1
    <3> QED BY <2>1, <3>1
  <2>2. CASE i # n + 1 /\ i = 1
    BY <2>2 DEF Table
  <2>3. CASE i # n + 1 /\ i # 1
    <3>1. i \in 1..n /\ i - 1 \in 1..(n + 1) /\ i - 1 # n + 1
      BY <2>3
    <3>2. h[i] = g[i] /\ h[i - 1] = g[i - 1]
      BY <2>3, <3>1
    <3>3. g[i] = g[i - 1] + Sizes[i - 1]
      BY <2>3, <3>1 DEF Table
    <3> QED BY <2>3, <3>2, <3>3, Zenon
  <2> QED BY <2>1, <2>2, <2>3, Zenon
<1> QED BY <1>2, <1>3, Zenon DEF Table

\* There is one for the whole function.
LEMMA TableExists == \E g : Table(g, N + 1)
<1> DEFINE T == {n \in 1..(N + 1) : ~\E g : Table(g, n)}
<1>1. N \in Nat
  BY SizesAssumption DEF N
<1>2. SUFFICES ASSUME T # {} PROVE FALSE
  <2>1. N + 1 \in 1..(N + 1)
    BY <1>1
  <2> QED BY <2>1, Zenon
<1>3. T \in SUBSET Nat
  BY <1>1
<1>4. PICK x \in T : \A y \in T : x <= y
  BY <1>2, <1>3, LeastNatural, Zenon
<1>5. x \in 1..(N + 1) /\ ~\E g : Table(g, x)
  BY <1>4, Zenon
<1>6. CASE x = 1
  <2> DEFINE g == [i \in 1..1 |-> 0]
  <2>1. Table(g, 1)
    BY DEF Table
  <2> QED BY <1>5, <1>6, <2>1, Zenon
<1>7. CASE x # 1
  <2>1. x - 1 \in Nat \ {0} /\ x - 1 <= N /\ x - 1 \in 1..(N + 1) /\ (x - 1) + 1 = x
        /\ ~(x <= x - 1)
    BY <1>1, <1>5, <1>7
  <2>2. PICK g : Table(g, x - 1)
    BY <1>4, <2>1, Zenon
  <2>3. \E h : Table(h, (x - 1) + 1)
    BY <2>1, <2>2, TableExtends, Zenon
  <2> QED BY <1>5, <2>1, <2>3, Zenon
<1> QED BY <1>6, <1>7, Zenon

\* OffsetOf is what its definition says: the sum of the sizes before.
LEMMA Offsets == Table(OffsetOf, N + 1)
<1> DEFINE Body(f) == [i \in 1..(N + 1) |-> IF i = 1 THEN 0 ELSE f[i - 1] + Sizes[i - 1]]
<1>1. PICK g : Table(g, N + 1)
  BY TableExists, Zenon
<1>2. g = Body(g)
  BY <1>1 DEF Table
<1>3. OffsetOf = CHOOSE f : f = Body(f)
  BY DEF OffsetOf
<1> HIDE DEF Body
<1>4. OffsetOf = Body(OffsetOf)
  BY <1>2, <1>3, Zenon
<1>5. \A i \in 1..(N + 1) : OffsetOf[i] = IF i = 1 THEN 0 ELSE OffsetOf[i - 1] + Sizes[i - 1]
  BY <1>4, Zenon DEF Body
<1>6. DOMAIN OffsetOf = 1..(N + 1) /\ OffsetOf = [i \in 1..(N + 1) |-> OffsetOf[i]]
  BY <1>4 DEF Body
<1> DEFINE T == {i \in 1..(N + 1) : OffsetOf[i] \notin Nat}
<1>7. T = {}
  <2>1. SUFFICES ASSUME T # {} PROVE FALSE
    BY Zenon
  <2>2. N \in Nat /\ T \in SUBSET Nat
    BY SizesAssumption DEF N
  <2>3. PICK x \in T : \A y \in T : x <= y
    BY <2>1, <2>2, LeastNatural, Zenon
  <2>4. x \in 1..(N + 1) /\ OffsetOf[x] \notin Nat
    BY <2>3, Zenon
  <2>5. x # 1
    BY <1>5, <2>4
  <2>6. x - 1 \in 1..(N + 1) /\ ~(x <= x - 1) /\ x - 1 \in 1..N
    BY <2>2, <2>4, <2>5
  <2>7. OffsetOf[x - 1] \in Nat
    BY <2>3, <2>6, Zenon
  <2>8. Sizes[x - 1] \in Nat
    BY <2>6, SizesAssumption DEF N
  <2>9. OffsetOf[x] = OffsetOf[x - 1] + Sizes[x - 1]
    BY <1>5, <2>4, <2>5, Zenon
  <2> QED BY <2>4, <2>7, <2>8, <2>9
<1>8. OffsetOf \in [1..(N + 1) -> Nat]
  BY <1>6, <1>7, Zenon
<1> QED BY <1>5, <1>8, Zenon DEF Table

\* The first instruction is at 0, and GetSize of an instruction leads to the next.
LEMMA OffsetSteps ==
  /\ N \in Nat
  /\ \A i \in 1..(N + 1) : OffsetOf[i] \in Nat
  /\ OffsetOf[1] = 0
  /\ \A i \in Position : /\ OffsetOf[i + 1] = OffsetOf[i] + Sizes[i]
                         /\ Sizes[i] \in Nat \ {0}
<1>1. N \in Nat
  BY SizesAssumption DEF N
<1>2. \A i \in 1..(N + 1) : OffsetOf[i] \in Nat
  BY Offsets, Zenon DEF Table
<1>3. OffsetOf[1] = 0
  BY <1>1, Offsets DEF Table
<1>4. ASSUME NEW i \in Position
      PROVE  OffsetOf[i + 1] = OffsetOf[i] + Sizes[i] /\ Sizes[i] \in Nat \ {0}
  <2>1. i + 1 \in 1..(N + 1) /\ i + 1 # 1 /\ (i + 1) - 1 = i
    BY <1>1 DEF Position
  <2>2. OffsetOf[i + 1] = OffsetOf[(i + 1) - 1] + Sizes[(i + 1) - 1]
    BY <2>1, Offsets, Zenon DEF Table
  <2>3. Sizes[i] \in Nat \ {0}
    BY SizesAssumption DEF Position, N
  <2> QED BY <2>1, <2>2, <2>3, Zenon
<1> QED BY <1>1, <1>2, <1>3, <1>4, Zenon

\* Later instructions are at larger offsets.
LEMMA OffsetsGrow ==
  ASSUME NEW i \in 1..(N + 1), NEW j \in 1..(N + 1), i < j
  PROVE  OffsetOf[i] < OffsetOf[j]
<1> DEFINE T == {k \in 1..(N + 1) : i < k /\ ~(OffsetOf[i] < OffsetOf[k])}
<1>1. SUFFICES ASSUME T # {} PROVE FALSE
  BY Zenon
<1>2. N \in Nat /\ T \in SUBSET Nat
  BY OffsetSteps
<1>3. PICK x \in T : \A y \in T : x <= y
  BY <1>1, <1>2, LeastNatural, Zenon
<1>4. x \in 1..(N + 1) /\ i < x /\ ~(OffsetOf[i] < OffsetOf[x])
  BY <1>3, Zenon
<1>5. x - 1 \in Position /\ x - 1 \in 1..(N + 1) /\ ~(x <= x - 1) /\ (x - 1) + 1 = x
      /\ (i < x - 1 \/ i = x - 1)
  BY <1>2, <1>4 DEF Position
<1>6. OffsetOf[x] = OffsetOf[x - 1] + Sizes[x - 1] /\ Sizes[x - 1] \in Nat \ {0}
  BY <1>5, OffsetSteps, Zenon
<1>7. OffsetOf[x - 1] \in Nat /\ OffsetOf[i] \in Nat
  BY <1>5, OffsetSteps, Zenon
<1>8. OffsetOf[i] < OffsetOf[x - 1] \/ i = x - 1
  BY <1>3, <1>5, Zenon
<1> QED BY <1>4, <1>6, <1>7, <1>8

-----------------------------------------------------------------------------
(* Types *)

\* The type invariant, from the bounds Go keeps.
LEMMA TypedIsTypeOK == Typed => TypeOK
<1> SUFFICES ASSUME Typed PROVE TypeOK
  OBVIOUS
<1>1. same_offset \in 0..Len(samples)
  BY DEF Typed, Inputs, Iterators
<1> QED BY <1>1, Zenon DEF Typed, Iterators, Outputs, TypeOK

\* The operands of an instruction.
LEMMA InsnFields ==
  ASSUME NEW i \in Insn
  PROVE  /\ HasResult(i) => i.dst \in Register
         /\ HasAddress(i) => i.base \in Register /\ i.index \in SUBSET Register
<1>1. i \in Instruction
  BY InsnAssumption, Zenon
<1>2. CASE i \in [op : {"load", "lea"}, mov : BOOLEAN, base : Register,
                  index : SUBSET Register, simple : BOOLEAN, dst : Register]
  BY <1>2, Zenon
<1>3. CASE i \in [op : {"store"}, mov : BOOLEAN, base : Register, index : SUBSET Register,
                  simple : BOOLEAN]
  <2>1. i.op = "store" /\ i.base \in Register /\ i.index \in SUBSET Register
    BY <1>3, Zenon
  <2> QED BY <2>1, Zenon DEF HasResult
<1>4. CASE i \in [op : {"alu"}, dst : Register]
  <2>1. i.op = "alu" /\ i.dst \in Register
    BY <1>4, Zenon
  <2> QED BY <2>1, Zenon DEF HasAddress
<1>5. CASE i \in [op : {"test", "other"}]
  <2>1. i.op \in {"test", "other"}
    BY <1>5, Zenon
  <2> QED BY <2>1, Zenon DEF HasResult, HasAddress
<1> QED BY <1>1, <1>2, <1>3, <1>4, <1>5, Zenon DEF Instruction

\* InvalidateRegister pollutes registers only.
LEMMA AliasesTyped ==
  ASSUME NEW reg \in Register
  PROVE  Aliases(reg) \in SUBSET Register /\ reg \in Aliases(reg)
<1>1. reg.family \in Family /\ reg.form \in {"r", "e", "part"}
  BY Zenon DEF Register
<1>2. [family : {reg.family}, form : {"r", "e"}] \subseteq Register
  BY <1>1 DEF Register
<1>3. reg.form \in {"r", "e"} => reg \in [family : {reg.family}, form : {"r", "e"}]
  BY DEF Register
<1> QED BY <1>2, <1>3, Zenon DEF Aliases, InvalidateRegister

\* Polluted adds the names of the result register.
LEMMA PollutedIs ==
  ASSUME NEW map, NEW i
  PROVE  Polluted(map, i) = map \cup {r \in Aliases(i.dst) : HasResult(i)}
  BY DEF Polluted, Aliases, InvalidateRegister

\* So does the result of an instruction.
LEMMA PollutedTyped ==
  ASSUME NEW map \in SUBSET Register, NEW i \in Insn
  PROVE  Polluted(map, i) \in SUBSET Register
  BY InsnFields, AliasesTyped, PollutedIs, Zenon

\* ++entry_iter.
LEMMA NextEntryTyped ==
  ASSUME entry \in 1..(N + 1), offset \in Nat, NextEntry
  PROVE  /\ entry' = entry + 1 /\ entry' \in 1..(N + 2) /\ offset' \in Nat
         /\ pc' \in {"seek", "done", "undefined"}
         /\ pc' # "undefined" => entry' \in 1..(N + 1)
         /\ pc' = "undefined" => entry' = N + 2
<1>1. N \in Nat /\ SizeOf(entry) \in Nat
  BY OffsetSteps DEF SizeOf
<1>2. entry' = entry + 1 /\ offset' = offset + SizeOf(entry)
  BY Zenon DEF NextEntry
<1>3. pc' = IF entry' > N + 1 THEN "undefined"
           ELSE IF foreign \in Position /\ entry' >= foreign THEN "done" ELSE "seek"
  BY Zenon DEF NextEntry
<1>4. CASE entry' > N + 1
  BY <1>1, <1>2, <1>3, <1>4
<1>5. CASE ~(entry' > N + 1)
  BY <1>1, <1>2, <1>3, <1>5
<1> QED BY <1>4, <1>5, Zenon

\* The kind of record written, and its place.
LEMMA NewRecordIs ==
  ASSUME NEW i, NEW map
  PROVE  NewRecord(i, map) =
           {r \in {RecordOf(sample, i)} : HasAddress(code[i]) /\ ComputeMemory(code[i], map)}
  BY DEF NewRecord, RecordOf

\* ComputeNewSampleWhole writes records of the sample and the instruction.
LEMMA NewRecordTyped ==
  ASSUME sample \in DOMAIN samples, NEW i \in Position, NEW map
  PROVE  NewRecord(i, map) \subseteq [sample : DOMAIN samples, insn : Position, write : {0, 1}]
<1>1. RecordOf(sample, i) \in [sample : DOMAIN samples, insn : Position, write : {0, 1}]
  BY DEF RecordOf, IsWrite
<1> QED BY <1>1, NewRecordIs, Zenon

\* What the function and its samples are does not change.
LEMMA InputsKept ==
  ASSUME Inputs, UNCHANGED inputs
  PROVE  Inputs' /\ code' = code /\ leader' = leader /\ samples' = samples
<1>1. code' = code /\ leader' = leader /\ foreign' = foreign /\ samples' = samples
  BY Zenon DEF inputs
<1> QED BY <1>1, Zenon DEF Inputs

\* Go looks for the offset of the sample.
LEMMA SeekTyped ==
  ASSUME Typed, Seek
  PROVE  Typed'
<1>1. Inputs' /\ samples' = samples
  BY InputsKept, Zenon DEF Typed, Seek
<1>2. /\ sample' = sample /\ same_offset' = same_offset /\ cursor' = cursor
      /\ backward_reg_map' = backward_reg_map /\ forward_reg_map' = forward_reg_map
      /\ updated' = updated /\ new_records' = new_records /\ place' = place
  BY Zenon DEF Seek, reg_maps
<1>3. /\ entry' \in 1..(N + 2) /\ offset' \in Nat
      /\ pc' \in {"seek", "done", "undefined"}
      /\ pc' # "undefined" => entry' \in 1..(N + 1)
  BY NextEntryTyped, Zenon DEF Seek, Typed, Iterators
<1>4. Iterators'
  BY <1>1, <1>2, <1>3, Zenon DEF Typed, Iterators
<1>5. Outputs'
  BY <1>1, <1>2, Zenon DEF Typed, Outputs
<1> QED BY <1>1, <1>4, <1>5, Zenon DEF Typed

\* Go moves on behind the samples of an offset.
LEMMA LeaveOffsetTyped ==
  ASSUME Typed, LeaveOffset
  PROVE  Typed'
<1>1. Inputs' /\ samples' = samples
  BY InputsKept, Zenon DEF Typed, LeaveOffset
<1>2. /\ same_offset' = 0 /\ cursor' = cursor
      /\ backward_reg_map' = backward_reg_map /\ forward_reg_map' = forward_reg_map
      /\ updated' = updated /\ new_records' = new_records /\ place' = place
  BY Zenon DEF LeaveOffset, reg_maps
<1>3. /\ entry' \in 1..(N + 2) /\ offset' \in Nat
      /\ pc' \in {"seek", "done", "undefined"}
      /\ pc' # "undefined" => entry' \in 1..(N + 1)
  BY NextEntryTyped, Zenon DEF LeaveOffset, Typed, Iterators
<1>4. sample' \in 1..(Len(samples) + 1) /\ 0 < sample' /\ 0 \in Nat
  <2>1. sample \in 1..(Len(samples) + 1) /\ Len(samples) \in Nat /\ DOMAIN samples = 1..Len(samples)
    BY DEF Typed, Inputs, Iterators
  <2>2. CASE same_offset = 0
    <3>1. sample \in DOMAIN samples /\ sample' = sample + 1
      BY <2>2 DEF LeaveOffset, NextSample
    <3> QED BY <2>1, <3>1
  <2>3. CASE same_offset # 0
    <3>1. sample' = sample
      BY <2>3, Zenon DEF LeaveOffset, NextSample
    <3> QED BY <2>1, <3>1
  <2> QED BY <2>2, <2>3, Zenon
<1>5. Iterators'
  BY <1>1, <1>2, <1>3, <1>4, Zenon DEF Typed, Iterators
<1>6. Outputs'
  BY <1>1, <1>2, Zenon DEF Typed, Outputs
<1> QED BY <1>1, <1>5, <1>6, Zenon DEF Typed

\* UpdateMemory writes the record of the sample.
LEMMA UpdateMemoryTyped ==
  ASSUME UpdateMemory, sample \in DOMAIN samples, entry \in Position, N \in Nat,
         updated \in [DOMAIN samples -> [write : {0, 1}, insn : 0..N]]
  PROVE  updated' \in [DOMAIN samples -> [write : {0, 1}, insn : 0..N]]
<1>1. entry \in 0..N /\ IsWrite(code[entry]) \in {0, 1}
  BY DEF Position, IsWrite
<1>2. updated[sample] \in [write : {0, 1}, insn : 0..N]
  BY Zenon
<1>3. updated[sample].insn \in 0..N
  BY <1>2, Zenon
<1>4. CASE IsMov(code[entry])
  <2> DEFINE x == [write |-> IsWrite(code[entry]),
                   insn |-> IF ComputeMemory(code[entry], {}) THEN entry
                            ELSE updated[sample].insn]
  <2>1. x \in [write : {0, 1}, insn : 0..N]
    BY <1>1, <1>3
  <2>2. updated' = [updated EXCEPT ![sample] = x]
    BY <1>4, Zenon DEF UpdateMemory
  <2> HIDE DEF x
  <2> QED BY <2>1, <2>2
<1>5. CASE ~IsMov(code[entry])
  BY <1>5, Zenon DEF UpdateMemory
<1> QED BY <1>4, <1>5, Zenon

\* A sample meets its instruction.
LEMMA AttributeTyped ==
  ASSUME Typed, Attribute
  PROVE  Typed'
<1>1. Inputs' /\ samples' = samples
  BY InputsKept, Zenon DEF Typed, Attribute
<1>2. /\ sample \in DOMAIN samples /\ entry \in Position
      /\ place' = [place EXCEPT ![sample] = entry]
      /\ UpdateMemory /\ forward_reg_map' = {} /\ entry' = entry /\ offset' = offset
      /\ backward_reg_map' = backward_reg_map /\ new_records' = new_records
  BY Zenon DEF Attribute, iterators
<1>3. N \in Nat /\ Len(samples) \in Nat /\ DOMAIN samples = 1..Len(samples)
  BY OffsetSteps DEF Typed, Inputs
<1>4. Iterators'
  <2>1. CASE InsnCanHandle(code[entry])
    <3>1. pc' = "backward" /\ cursor' = entry - 1 /\ sample' = sample
          /\ same_offset' = same_offset
      BY <2>1, Zenon DEF Attribute
    <3>2. entry - 1 \in 0..(N + 1)
      BY <1>2, <1>3 DEF Position
    <3>3. entry \in 1..(N + 1)
      BY <1>2, <1>3 DEF Position
    <3> QED BY <1>1, <1>2, <3>1, <3>2, <3>3, Zenon DEF Typed, Iterators
  <2>2. CASE ~InsnCanHandle(code[entry])
    <3>1. pc' = pc /\ cursor' = cursor /\ sample' = sample + 1
          /\ same_offset' = same_offset + 1 /\ pc = "seek"
      BY <2>2, Zenon DEF Attribute
    <3>2. sample' \in 1..(Len(samples) + 1)
      BY <1>2, <1>3, <3>1
    <3>3. same_offset' \in Nat /\ same_offset' < sample'
      BY <1>2, <1>3, <3>1 DEF Typed, Iterators
    <3>4. pc' \notin {"backward", "forward"}
      BY <3>1, Zenon
    <3> QED BY <1>1, <1>2, <3>1, <3>2, <3>3, <3>4, Zenon DEF Typed, Iterators
  <2> QED BY <2>1, <2>2, Zenon
<1>5. Outputs'
  <2>1. updated' \in [DOMAIN samples -> [write : {0, 1}, insn : 0..N]]
    BY <1>2, <1>3, UpdateMemoryTyped, Zenon DEF Typed, Outputs
  <2>2. entry \in 0..N
    BY <1>2, <1>3 DEF Position
  <2>3. place' \in [DOMAIN samples -> 0..N]
    BY <1>2, <2>2, Zenon DEF Typed, Outputs
  <2> QED BY <1>1, <1>2, <2>1, <2>3, Zenon DEF Typed, Outputs
<1> QED BY <1>1, <1>4, <1>5, Zenon DEF Typed

\* ExecuteSimWhole walks back.
LEMMA BackwardTyped ==
  ASSUME Typed, SimulateBackward
  PROVE  Typed'
<1>1. Inputs' /\ samples' = samples
  BY InputsKept, Zenon DEF Typed, SimulateBackward
<1>2. /\ pc = "backward" /\ sample' = sample /\ entry' = entry /\ offset' = offset
      /\ same_offset' = same_offset /\ updated' = updated /\ place' = place
  BY Zenon DEF SimulateBackward, iterators
<1>3. /\ N \in Nat /\ entry \in Position /\ sample \in DOMAIN samples
      /\ code \in [Position -> Insn] /\ cursor \in 0..(N + 1)
  BY <1>2, OffsetSteps, Zenon DEF Typed, Inputs, Iterators
<1>4. CASE SameBlock(cursor, entry) /\ InsnCanHandle(code[cursor])
  <2>1. WalkBack /\ cursor' = cursor - 1 /\ pc' = pc /\ forward_reg_map' = forward_reg_map
    BY <1>4, Zenon DEF SimulateBackward
  <2>2. cursor \in Position /\ code[cursor] \in Insn
    BY <1>3, <1>4, Zenon DEF SameBlock
  <2>3. cursor' \in 0..(N + 1)
    BY <1>3, <2>1, <2>2 DEF Position
  <2>4. Iterators'
    BY <1>1, <1>2, <2>1, <2>3, Zenon DEF Typed, Iterators
  <2>5. backward_reg_map' \subseteq Register
    BY <2>1, <2>2, PollutedTyped, Zenon DEF WalkBack, Typed, Outputs
  <2>6. new_records' \subseteq [sample : DOMAIN samples, insn : Position, write : {0, 1}]
    BY <1>3, <2>1, <2>2, NewRecordTyped, Zenon DEF WalkBack, Typed, Outputs
  <2>7. Outputs'
    BY <1>1, <1>2, <2>1, <2>5, <2>6, Zenon DEF Typed, Outputs
  <2> QED BY <1>1, <2>4, <2>7, Zenon DEF Typed
<1>5. CASE ~(SameBlock(cursor, entry) /\ InsnCanHandle(code[cursor]))
  <2>1. /\ backward_reg_map' = {}
        /\ forward_reg_map' = Polluted(forward_reg_map, code[entry])
        /\ cursor' = entry + 1 /\ pc' = "forward" /\ new_records' = new_records
    BY <1>5, Zenon DEF SimulateBackward
  <2>2. entry + 1 \in 0..(N + 1)
    BY <1>3 DEF Position
  <2>3. Iterators'
    BY <1>1, <1>2, <2>1, <2>2, Zenon DEF Typed, Iterators
  <2>4. forward_reg_map' \subseteq Register
    BY <1>3, <2>1, PollutedTyped, Zenon DEF Typed, Outputs
  <2>5. Outputs'
    BY <1>1, <1>2, <2>1, <2>4, Zenon DEF Typed, Outputs
  <2> QED BY <1>1, <2>3, <2>5, Zenon DEF Typed
<1> QED BY <1>4, <1>5, Zenon

\* And forward.
LEMMA ForwardTyped ==
  ASSUME Typed, SimulateForward
  PROVE  Typed'
<1>1. Inputs' /\ samples' = samples
  BY InputsKept, Zenon DEF Typed, SimulateForward
<1>2. /\ pc = "forward" /\ entry' = entry /\ offset' = offset
      /\ backward_reg_map' = backward_reg_map /\ updated' = updated /\ place' = place
  BY Zenon DEF SimulateForward, iterators
<1>3. /\ N \in Nat /\ entry \in Position /\ sample \in DOMAIN samples
      /\ code \in [Position -> Insn] /\ cursor \in 0..(N + 1)
  BY <1>2, OffsetSteps, Zenon DEF Typed, Inputs, Iterators
<1>4. CASE SameBlock(cursor, entry) /\ InsnCanHandle(code[cursor])
  <2>1. /\ new_records' = new_records \cup NewRecord(cursor, forward_reg_map)
        /\ forward_reg_map' = Polluted(forward_reg_map, code[cursor])
        /\ cursor' = cursor + 1 /\ pc' = pc /\ sample' = sample /\ same_offset' = same_offset
    BY <1>4, Zenon DEF SimulateForward
  <2>2. cursor \in Position /\ code[cursor] \in Insn
    BY <1>3, <1>4, Zenon DEF SameBlock
  <2>3. cursor' \in 0..(N + 1)
    BY <1>3, <2>1, <2>2 DEF Position
  <2>4. Iterators'
    BY <1>1, <1>2, <2>1, <2>3, Zenon DEF Typed, Iterators
  <2>5. forward_reg_map' \subseteq Register
    BY <2>1, <2>2, PollutedTyped, Zenon DEF Typed, Outputs
  <2>6. new_records' \subseteq [sample : DOMAIN samples, insn : Position, write : {0, 1}]
    BY <1>3, <2>1, <2>2, NewRecordTyped, Zenon DEF Typed, Outputs
  <2>7. Outputs'
    BY <1>1, <1>2, <2>1, <2>5, <2>6, Zenon DEF Typed, Outputs
  <2> QED BY <1>1, <2>4, <2>7, Zenon DEF Typed
<1>5. CASE ~(SameBlock(cursor, entry) /\ InsnCanHandle(code[cursor]))
  <2>1. /\ forward_reg_map' = {} /\ pc' = "seek" /\ sample' = sample + 1
        /\ same_offset' = same_offset + 1 /\ cursor' = cursor /\ new_records' = new_records
    BY <1>5, Zenon DEF SimulateForward
  <2>2. sample' \in 1..(Len(samples) + 1)
    BY <1>3, <2>1 DEF Typed, Inputs
  <2>3. same_offset' \in Nat /\ same_offset' < sample'
    BY <2>1 DEF Typed, Inputs, Iterators
  <2>4. pc' \notin {"backward", "forward"}
    BY <2>1, Zenon
  <2>5. pc \in {"seek", "backward", "forward"}
    BY <1>2, Zenon
  <2>6. Iterators'
    BY <1>1, <1>2, <2>1, <2>2, <2>3, <2>4, <2>5, Zenon DEF Typed, Iterators
  <2>7. Outputs'
    BY <1>1, <1>2, <2>1, Zenon DEF Typed, Outputs
  <2> QED BY <1>1, <2>6, <2>7, Zenon DEF Typed
<1> QED BY <1>4, <1>5, Zenon

\* Go ends.
LEMMA EndTyped ==
  ASSUME Typed, RunOff \/ Finish \/ UNCHANGED vars
  PROVE  Typed'
<1>1. UNCHANGED inputs /\ (pc' = pc \/ pc' \in {"done", "undefined"})
      /\ sample' = sample /\ entry' = entry /\ offset' = offset
      /\ same_offset' = same_offset /\ cursor' = cursor
      /\ backward_reg_map' = backward_reg_map /\ forward_reg_map' = forward_reg_map
      /\ updated' = updated /\ new_records' = new_records /\ place' = place
  BY Zenon DEF RunOff, Finish, vars, iterators, reg_maps
<1>2. Inputs' /\ samples' = samples
  BY <1>1, InputsKept, Zenon DEF Typed
<1>3. Iterators' /\ Outputs'
  BY <1>1, <1>2, Zenon DEF Typed, Iterators, Outputs
<1> QED BY <1>2, <1>3, Zenon DEF Typed

\* All steps of the simulator keep the types.
LEMMA StepTyped ==
  ASSUME Typed, [Next]_vars
  PROVE  Typed'
  BY SeekTyped, LeaveOffsetTyped, AttributeTyped, BackwardTyped, ForwardTyped, EndTyped,
     Zenon DEF Next

-----------------------------------------------------------------------------
(* Samples and instructions *)

\* The facts about the samples that all steps use.
LEMMA SamplesTyped ==
  ASSUME Typed
  PROVE  /\ Len(samples) \in Nat /\ DOMAIN samples = 1..Len(samples)
         /\ \A s \in DOMAIN samples : samples[s] \in Nat
         /\ sample \in Nat \ {0} /\ offset \in Nat
  BY DEF Typed, Inputs, Iterators

\* The next entry is at the next offset.
LEMMA NextOffset ==
  ASSUME Typed, Walk, entry \in 1..(N + 1), NextEntry
  PROVE  entry' \in 1..(N + 1) => entry \in Position /\ offset' = OffsetOf[entry']
<1> SUFFICES ASSUME entry' \in 1..(N + 1)
             PROVE  entry \in Position /\ offset' = OffsetOf[entry']
  OBVIOUS
<1>1. entry' = entry + 1 /\ offset' = offset + SizeOf(entry)
  BY Zenon DEF NextEntry
<1>2. entry \in Position
  BY <1>1, OffsetSteps DEF Position
<1>3. OffsetOf[entry + 1] = OffsetOf[entry] + Sizes[entry]
  BY <1>2, OffsetSteps, Zenon
<1>4. offset = OffsetOf[entry] /\ SizeOf(entry) = Sizes[entry]
  BY <1>2, Zenon DEF Walk, AtOffset, SizeOf
<1> QED BY <1>1, <1>2, <1>3, <1>4, Zenon

\* It does not lead past a sample that is at an instruction.
LEMMA NotPast ==
  ASSUME Typed, Walk, entry \in 1..(N + 1), NextEntry, entry' \in 1..(N + 1),
         NEW s \in DOMAIN samples, samples[s] > offset, ~Misplaced(s)
  PROVE  samples[s] >= offset'
<1>1. PICK k \in Position : OffsetOf[k] = samples[s]
  BY Zenon DEF Misplaced
<1>2. entry \in Position /\ offset' = OffsetOf[entry'] /\ entry' = entry + 1
      /\ offset = OffsetOf[entry]
  BY NextOffset, Zenon DEF NextEntry, Walk, AtOffset
<1>3. N \in Nat /\ k \in 1..(N + 1)
  BY OffsetSteps DEF Position
<1>4. OffsetOf[k] \in Nat /\ OffsetOf[entry] \in Nat /\ OffsetOf[entry'] \in Nat
  BY <1>3, OffsetSteps, Zenon
<1>5. ~(k = entry) /\ ~(OffsetOf[k] < OffsetOf[entry])
  BY <1>1, <1>2, <1>4
<1>6. ~(k < entry)
  BY <1>3, <1>5, OffsetsGrow, Zenon
<1>7. k = entry' \/ entry' < k
  BY <1>2, <1>3, <1>5, <1>6
<1>8. OffsetOf[entry'] = OffsetOf[k] \/ OffsetOf[entry'] < OffsetOf[k]
  BY <1>3, <1>7, OffsetsGrow, Zenon
<1> QED BY <1>1, <1>2, <1>4, <1>8

\* Where the samples stay, so do the ones between two instructions.
LEMMA MisplacedKept ==
  ASSUME samples' = samples
  PROVE  (Sorted => Sorted') /\ \A u : Misplaced(u)' = Misplaced(u)
  BY DEF Misplaced, Sorted

\* Seeking does not go past a sample at an instruction (patch:1389-1404).
LEMMA SeekWalk ==
  ASSUME Typed, Walk, Seek
  PROVE  Walk'
<1>1. /\ samples' = samples /\ sample' = sample /\ place' = place
      /\ pc = "seek" /\ sample \in DOMAIN samples /\ offset < samples[sample] /\ NextEntry
  BY Zenon DEF Seek, inputs
<1>2. entry \in 1..(N + 1) /\ offset \in Nat
  BY <1>1, Zenon DEF Typed, Iterators
<1>3. pc' \in {"seek", "done", "undefined"} /\ (pc' # "undefined" => entry' \in 1..(N + 1))
  BY <1>1, <1>2, NextEntryTyped, Zenon
<1>4. Sorted'
  BY <1>1, MisplacedKept, Zenon DEF Walk
<1>5. AtOffset'
  BY <1>1, <1>2, <1>3, NextOffset, Zenon DEF AtOffset
<1>6. Unplaced'
  BY <1>1, Zenon DEF Walk, Unplaced
<1>7. Ahead'
  <2> SUFFICES ASSUME pc' # "undefined", \A u \in 1..sample : ~Misplaced(u)
               PROVE  samples[sample] >= offset'
    BY <1>1, MisplacedKept DEF Ahead
  <2>1. samples[sample] > offset /\ sample \in 1..sample
    BY <1>1, <1>2, SamplesTyped
  <2> QED BY <1>1, <1>2, <1>3, <2>1, NotPast, Zenon
<1>8. AttributedInPlace'
  BY <1>1, MisplacedKept DEF Walk, AttributedInPlace
<1> QED BY <1>4, <1>5, <1>6, <1>7, <1>8, Zenon DEF Walk

\* Nor does leaving an offset: a sample it drops lies inside an instruction, or behind
\* one that does (patch:1436-1451).
LEMMA LeaveOffsetWalk ==
  ASSUME Typed, Walk, LeaveOffset
  PROVE  Walk'
<1>1. /\ samples' = samples /\ place' = place /\ pc = "seek" /\ NextEntry
      /\ sample' = IF same_offset = 0 THEN sample + 1 ELSE sample
  BY Zenon DEF LeaveOffset, NextSample, inputs
<1>2. entry \in 1..(N + 1) /\ offset \in Nat /\ same_offset \in Nat
  BY <1>1, Zenon DEF Typed, Iterators
<1>3. pc' \in {"seek", "done", "undefined"} /\ (pc' # "undefined" => entry' \in 1..(N + 1))
  BY <1>1, <1>2, NextEntryTyped, Zenon
<1>4. Sorted'
  BY <1>1, MisplacedKept, Zenon DEF Walk
<1>5. AtOffset'
  BY <1>1, <1>2, <1>3, NextOffset, Zenon DEF AtOffset
<1>6. CASE same_offset = 0
  <2>1. sample' = sample + 1 /\ sample \in DOMAIN samples /\ samples[sample] < offset
    BY <1>1, <1>6 DEF LeaveOffset
  <2>2. ~(samples[sample] >= offset)
    BY <2>1, SamplesTyped
  <2>3. PICK u \in 1..sample : Misplaced(u)
    BY <1>1, <2>1, <2>2, Zenon DEF Walk, Ahead
  <2>4. u \in 1..sample'
    BY <2>1, SamplesTyped
  <2>5. Ahead'
    BY <1>1, <2>3, <2>4, MisplacedKept DEF Ahead
  <2>6. Unplaced'
    BY <1>1, <2>1, SamplesTyped DEF Walk, Unplaced
  <2>7. ASSUME NEW s \in DOMAIN samples, s < sample', place[s] = 0
        PROVE  \E v \in 1..s : Misplaced(v)
    <3>1. s < sample \/ s = sample
      BY <2>1, <2>7, SamplesTyped
    <3> QED BY <2>3, <2>7, <3>1, Zenon DEF Walk, AttributedInPlace
  <2>8. AttributedInPlace'
    BY <1>1, <2>7, MisplacedKept DEF Walk, AttributedInPlace
  <2> QED BY <1>4, <1>5, <2>5, <2>6, <2>8, Zenon DEF Walk
<1>7. CASE same_offset # 0
  <2>1. sample' = sample /\ (sample \in DOMAIN samples => samples[sample] # offset)
    BY <1>1, <1>7, SamplesTyped DEF LeaveOffset
  <2>2. Unplaced'
    BY <1>1, <2>1, Zenon DEF Walk, Unplaced
  <2>3. AttributedInPlace'
    BY <1>1, <2>1, MisplacedKept DEF Walk, AttributedInPlace
  <2>4. Ahead'
    <3> SUFFICES ASSUME sample \in DOMAIN samples, pc' # "undefined",
                        \A u \in 1..sample : ~Misplaced(u)
                 PROVE  samples[sample] >= offset'
      BY <1>1, <2>1, MisplacedKept DEF Ahead
    <3>1. samples[sample] >= offset
      BY <1>1, Zenon DEF Walk, Ahead
    <3>2. samples[sample] > offset /\ sample \in 1..sample
      BY <2>1, <3>1, SamplesTyped
    <3> QED BY <1>1, <1>2, <1>3, <3>2, NotPast, Zenon
  <2> QED BY <1>4, <1>5, <2>2, <2>3, <2>4, Zenon DEF Walk
<1> QED BY <1>6, <1>7, Zenon

\* The next sample is not before the one that is done.
LEMMA NextSampleAhead ==
  ASSUME Typed, Walk, sample \in DOMAIN samples, samples[sample] = offset,
         samples' = samples, sample' = sample + 1, offset' = offset
  PROVE  Ahead'
<1> SUFFICES ASSUME sample + 1 \in DOMAIN samples PROVE samples[sample + 1] >= offset
  BY MisplacedKept DEF Ahead
<1>1. sample < sample + 1
  BY SamplesTyped
<1>2. samples[sample] <= samples[sample + 1]
  BY <1>1, Zenon DEF Walk, Sorted
<1> QED BY <1>2, SamplesTyped

\* The sample is at the offset of the entry (patch:1411-1435).
LEMMA AttributeWalk ==
  ASSUME Typed, Walk, Attribute
  PROVE  Walk'
<1>1. /\ samples' = samples /\ sample \in DOMAIN samples /\ entry \in Position
      /\ offset = samples[sample] /\ place' = [place EXCEPT ![sample] = entry]
      /\ pc = "seek" /\ entry' = entry /\ offset' = offset
  BY Zenon DEF Attribute, inputs, iterators
<1>2. place \in [DOMAIN samples -> 0..N] /\ entry \in 1..(N + 1)
  BY <1>1, Zenon DEF Typed, Outputs, Iterators
<1>3. entry # 0 /\ offset = OffsetOf[entry]
  BY <1>1, <1>2, OffsetSteps DEF Walk, AtOffset, Position
<1>4. place'[sample] = entry /\ \A s \in DOMAIN samples : s # sample => place'[s] = place[s]
  BY <1>1, <1>2, Zenon
<1>5. Sorted'
  BY <1>1, MisplacedKept, Zenon DEF Walk
<1>6. \A s \in DOMAIN samples : place'[s] # 0 => OffsetOf[place'[s]] = samples[s]
  BY <1>1, <1>3, <1>4, Zenon DEF Walk, AttributedInPlace
<1>7. CASE InsnCanHandle(code[entry])
  <2>1. pc' = "backward" /\ sample' = sample
    BY <1>7, Zenon DEF Attribute
  <2>2. AtOffset'
    BY <1>1, <1>3, <1>4, <2>1, Zenon DEF AtOffset
  <2>3. Unplaced'
    BY <1>1, <1>4, <2>1, SamplesTyped DEF Walk, Unplaced
  <2>4. Ahead'
    <3>1. samples[sample] >= offset
      BY <1>1, SamplesTyped
    <3> QED BY <1>1, <2>1, <3>1, Zenon DEF Ahead
  <2>5. \A s \in DOMAIN samples : s < sample /\ place'[s] = 0 => place[s] = 0
    BY <1>1, <1>3, <1>4, Zenon
  <2>6. AttributedInPlace'
    BY <1>1, <1>6, <2>1, <2>5, MisplacedKept DEF Walk, AttributedInPlace
  <2> QED BY <1>5, <2>2, <2>3, <2>4, <2>6, Zenon DEF Walk
<1>8. CASE ~InsnCanHandle(code[entry])
  <2>1. pc' = "seek" /\ sample' = sample + 1
    BY <1>1, <1>8, Zenon DEF Attribute
  <2>2. AtOffset'
    BY <1>1, <1>3, <2>1, Zenon DEF AtOffset
  <2>3. Unplaced'
    BY <1>1, <1>4, <2>1, SamplesTyped DEF Walk, Unplaced
  <2>4. Ahead'
    BY <1>1, <2>1, NextSampleAhead, Zenon
  <2>5. \A s \in DOMAIN samples : s < sample' /\ place'[s] = 0 => s < sample /\ place[s] = 0
    BY <1>1, <1>3, <1>4, <2>1, SamplesTyped
  <2>6. AttributedInPlace'
    BY <1>1, <1>6, <2>5, MisplacedKept DEF Walk, AttributedInPlace
  <2> QED BY <1>5, <2>2, <2>3, <2>4, <2>6, Zenon DEF Walk
<1> QED BY <1>7, <1>8, Zenon

\* The simulation of a sample, its end, and the end of Go.
LEMMA OtherWalk ==
  ASSUME Typed, Walk, SimulateBackward \/ SimulateForward \/ RunOff \/ Finish \/ UNCHANGED vars
  PROVE  Walk'
<1>1. samples' = samples /\ place' = place /\ entry' = entry /\ offset' = offset
  BY Zenon DEF SimulateBackward, SimulateForward, RunOff, Finish, vars, inputs, iterators
<1>2. Sorted'
  BY <1>1, MisplacedKept, Zenon DEF Walk
<1>3. CASE sample' = sample
  <2>1. \/ pc' = pc
        \/ pc = "backward" /\ pc' = "forward"
        \/ pc = "seek" /\ pc' \in {"done", "undefined"}
    <3>1. CASE SimulateBackward
      BY <3>1, Zenon DEF SimulateBackward
    <3>2. CASE SimulateForward
      <4>1. sample # sample + 1
        BY SamplesTyped
      <4> QED BY <1>3, <3>2, <4>1, Zenon DEF SimulateForward
    <3>3. CASE RunOff \/ Finish
      BY <3>3, Zenon DEF RunOff, Finish
    <3>4. CASE UNCHANGED vars
      BY <3>4, Zenon DEF vars
    <3> QED BY <3>1, <3>2, <3>3, <3>4, Zenon
  <2>2. AtOffset'
    BY <1>1, <1>3, <2>1, Zenon DEF Walk, AtOffset
  <2>3. Unplaced'
    BY <1>1, <1>3, <2>1, Zenon DEF Walk, Unplaced
  <2>4. pc' # "undefined" => pc # "undefined"
    BY <2>1, Zenon
  <2>5. Ahead'
    BY <1>1, <1>3, <2>4, MisplacedKept DEF Walk, Ahead
  <2>6. AttributedInPlace'
    BY <1>1, <1>3, MisplacedKept DEF Walk, AttributedInPlace
  <2> QED BY <1>2, <2>2, <2>3, <2>5, <2>6, Zenon DEF Walk
<1>4. CASE sample' # sample
  <2>1. pc = "forward" /\ pc' = "seek" /\ sample' = sample + 1
    BY <1>4, Zenon DEF SimulateBackward, SimulateForward, RunOff, Finish, vars
  <2>2. sample \in DOMAIN samples /\ place[sample] = entry /\ samples[sample] = offset
        /\ entry \in Position
    BY <2>1, Zenon DEF Typed, Iterators, Walk, AtOffset
  <2>3. entry # 0
    BY <2>2, OffsetSteps DEF Position
  <2>4. AtOffset'
    BY <1>1, <2>1, Zenon DEF Walk, AtOffset
  <2>5. Unplaced'
    BY <1>1, <2>1, SamplesTyped DEF Walk, Unplaced
  <2>6. Ahead'
    BY <1>1, <2>1, <2>2, NextSampleAhead, Zenon
  <2>7. \A s \in DOMAIN samples : s < sample' /\ place[s] = 0 => s < sample
    BY <2>1, <2>2, <2>3, SamplesTyped
  <2>8. AttributedInPlace'
    BY <1>1, <2>7, MisplacedKept DEF Walk, AttributedInPlace
  <2> QED BY <1>2, <2>4, <2>5, <2>6, <2>8, Zenon DEF Walk
<1> QED BY <1>3, <1>4, Zenon

\* All steps keep the iterators together.
LEMMA StepWalk ==
  ASSUME Typed, Walk, [Next]_vars
  PROVE  Walk'
  BY SeekWalk, LeaveOffsetWalk, AttributeWalk, OtherWalk, Zenon DEF Next

-----------------------------------------------------------------------------
(* Polluted registers *)

\* A register is polluted with others of its family only.
LEMMA AliasFamily ==
  ASSUME NEW reg \in Register, NEW r \in Aliases(reg)
  PROVE  r.family = reg.family
  BY DEF Aliases, InvalidateRegister, Register

\* One instruction more is passed.
LEMMA PollutionGrows ==
  ASSUME NEW S, NEW j \in Position, code \in [Position -> Insn]
  PROVE  Polluted(Pollution(S), code[j]) = Pollution(S \cup {j})
<1>1. code[j] \in Insn
  BY Zenon
<1>2. HasResult(code[j]) => Aliases(code[j].dst) \in SUBSET Register
  BY <1>1, InsnFields, AliasesTyped, Zenon
<1>3. Polluted(Pollution(S), code[j]) =
        Pollution(S) \cup {r \in Aliases(code[j].dst) : HasResult(code[j])}
  BY PollutedIs, Zenon
<1> QED BY <1>2, <1>3, Zenon DEF Pollution

\* The map tells whether one of the instructions passed wrote a register of the
\* address, under whatever name it is read.
LEMMA CleanAddress ==
  ASSUME PairedNames, code \in [Position -> Insn], NEW S \in SUBSET Position,
         NEW i \in Position, HasAddress(code[i])
  PROVE  ({code[i].base} \cup code[i].index) \cap Pollution(S) = {}
           <=> \A j \in S : Written(j) \cap Used(i) = {}
<1> DEFINE Regs == {code[i].base} \cup code[i].index
<1>1. code[i] \in Insn /\ Regs \in SUBSET Register
  BY InsnFields, Zenon
<1>2. ASSUME NEW r \in Regs, r \in Pollution(S)
      PROVE  \E j \in S : Written(j) \cap Used(i) # {}
  <2>1. PICK j \in S : HasResult(code[j]) /\ r \in Aliases(code[j].dst)
    BY <1>2, Zenon DEF Pollution
  <2>2. code[j] \in Insn
    BY Zenon
  <2>3. r.family = code[j].dst.family
    BY <2>1, <2>2, InsnFields, AliasFamily, Zenon
  <2>4. r.family \in Written(j) /\ r.family \in Used(i)
    BY <2>1, <2>3, Zenon DEF Written, Used
  <2> QED BY <2>4, Zenon
<1>3. ASSUME NEW j \in S, NEW f \in Written(j), f \in Used(i)
      PROVE  \E r \in Regs : r \in Pollution(S)
  <2>1. PICK r \in Regs : r.family = f
    BY <1>3, Zenon DEF Used
  <2>2. HasResult(code[j]) /\ f = code[j].dst.family
    BY <1>3, Zenon DEF Written
  <2>3. code[j] \in Insn
    BY Zenon
  <2>4. r \in Aliases(code[j].dst)
    BY <1>1, <2>1, <2>2, <2>3, Zenon DEF PairedNames
  <2>5. r \in Register
    BY <1>1, Zenon
  <2> QED BY <2>2, <2>4, <2>5, Zenon DEF Pollution
<1> QED BY <1>2, <1>3, Zenon

-----------------------------------------------------------------------------
(* The two walks *)

\* Both ends and what is between.
LEMMA BetweenIs ==
  ASSUME NEW i \in Position, NEW k \in Position
  PROVE  /\ i < k => Between(i, k) = i..(k - 1)
         /\ i > k => Between(i, k) = k..(i - 1)
         /\ Between(i, k) \subseteq Position
  BY OffsetSteps DEF Between, Position

\* ComputeMemory finds the address of an instruction next to those passed exactly if
\* the registers are the sampled ones.
LEMMA ComputedIsDerivable ==
  ASSUME PairedNames, code \in [Position -> Insn],
         NEW c \in Position, NEW k \in Position, c # k, SameBlock(c, k),
         \A j \in Between(c, k) \cup {c, k} : InsnCanHandle(code[j])
  PROVE  HasAddress(code[c]) /\ ComputeMemory(code[c], Pollution(Between(c, k)))
           <=> Derivable(c, k)
<1>1. Between(c, k) \in SUBSET Position
  BY BetweenIs, Zenon
<1>2. CASE HasAddress(code[c])
  <2>1. ({code[c].base} \cup code[c].index) \cap Pollution(Between(c, k)) = {}
           <=> \A j \in Between(c, k) : Written(j) \cap Used(c) = {}
    BY <1>1, <1>2, CleanAddress, Zenon
  <2> QED BY <1>2, <2>1, Zenon DEF ComputeMemory, Derivable, Determined
<1>3. CASE ~HasAddress(code[c])
  BY <1>3, Zenon DEF Derivable
<1> QED BY <1>2, <1>3, Zenon

\* A walk that stops before an instruction would not have reached what is beyond it.
LEMMA StoppedBefore ==
  ASSUME Inputs, NEW k \in Position, NEW c \in 0..(N + 1), c # k,
         ~(SameBlock(c, k) /\ InsnCanHandle(code[c])),
         NEW i \in Position, (c < k /\ i <= c) \/ (c > k /\ i >= c)
  PROVE  ~Derivable(i, k)
<1>1. N \in Nat /\ i \in Nat /\ k \in Nat /\ c \in Nat /\ leader \in Nat
  BY OffsetSteps DEF Position, Inputs
<1>2. c \in Position /\ c \in Between(i, k) \cup {i, k}
  BY <1>1 DEF Position, Between
<1>3. CASE ~InsnCanHandle(code[c])
  BY <1>2, <1>3, Zenon DEF Derivable, Determined
<1>4. CASE ~SameBlock(c, k)
  <2>1. ~(c < leader <=> k < leader)
    BY <1>2, <1>4, Zenon DEF SameBlock
  <2>2. ~(i < leader <=> k < leader)
    BY <1>1, <2>1
  <2> QED BY <2>2, Zenon DEF Derivable, Determined, SameBlock
<1> QED BY <1>3, <1>4, Zenon

-----------------------------------------------------------------------------
(* Derived records *)

\* What can be derived depends on the function only.
LEMMA CodeKept ==
  ASSUME code' = code, leader' = leader
  PROVE  /\ \A i, k : Derivable(i, k)' <=> Derivable(i, k)
         /\ \A s, i : RecordOf(s, i)' = RecordOf(s, i)
         /\ \A S : Pollution(S)' = Pollution(S)
         /\ \A i, k : SameBlock(i, k)' <=> SameBlock(i, k)
<1>1. \A i, k : SameBlock(i, k)' <=> SameBlock(i, k)
  BY DEF SameBlock
<1>2. \A i : Written(i)' = Written(i) /\ Used(i)' = Used(i)
  BY DEF Written, Used, HasResult
<1>3. \A i, k : Determined(i, k)' <=> Determined(i, k)
  BY <1>1, <1>2 DEF Determined, InsnCanHandle
<1>4. \A i, k : Derivable(i, k)' <=> Derivable(i, k)
  BY <1>3 DEF Derivable, HasAddress, IsFrame
<1>5. \A s, i : RecordOf(s, i)' = RecordOf(s, i)
  BY DEF RecordOf, IsWrite
<1>6. \A S : Pollution(S)' = Pollution(S)
  BY DEF Pollution, HasResult, Aliases, InvalidateRegister
<1> QED BY <1>1, <1>4, <1>5, <1>6, Zenon

\* As long as a sample stays where it is.
LEMMA PlaceKept ==
  ASSUME code' = code, leader' = leader, NEW s, place'[s] = place[s], NEW i
  PROVE  (place[s] # 0 /\ Derivable(i, place[s]))' <=> place[s] # 0 /\ Derivable(i, place[s])
  BY DEF Derivable, Determined, SameBlock, Between, Written, Used, InsnCanHandle, HasResult,
         HasAddress, IsFrame

\* A record names its sample and its instruction.
LEMMA RecordNames ==
  ASSUME NEW s, NEW i
  PROVE  RecordOf(s, i).sample = s /\ RecordOf(s, i).insn = i
  BY DEF RecordOf

\* Steps that derive nothing.
LEMMA NothingDerived ==
  ASSUME Derived, code' = code, leader' = leader, samples' = samples,
         new_records' = new_records,
         \A s \in DOMAIN samples, i \in Position : Found(s, i)' <=> Found(s, i)
  PROVE  Derived'
<1>1. \A r \in new_records' : r = RecordOf(r.sample, r.insn)'
  BY DEF Derived, RecordOf, IsWrite
<1>2. ASSUME NEW s \in DOMAIN samples', NEW i \in Position
      PROVE  RecordOf(s, i)' \in new_records' <=> Found(s, i)'
  <2>1. RecordOf(s, i)' = RecordOf(s, i)
    BY DEF RecordOf, IsWrite
  <2>2. RecordOf(s, i) \in new_records <=> Found(s, i)
    BY Zenon DEF Derived
  <2> QED BY <2>1, <2>2, Zenon
<1> QED BY <1>1, <1>2, Zenon DEF Derived

\* A step that passes one instruction, and derives its record if it can.
LEMMA OneDerived ==
  ASSUME Derived, code' = code, leader' = leader, samples' = samples,
         sample' = sample, place' = place, sample \in DOMAIN samples,
         NEW c \in Position, place[sample] # 0, NEW Q,
         new_records' = new_records \cup {r \in {RecordOf(sample, c)} : Q},
         Q <=> Derivable(c, place[sample]),
         Passed' = Passed \cup {c}, ~(sample < sample)
  PROVE  Derived'
<1>1. \A s, i : RecordOf(s, i).sample = s /\ RecordOf(s, i).insn = i
  BY RecordNames, Zenon
<1>2. \A r \in new_records' : r = RecordOf(r.sample, r.insn)'
  <2>1. \A r \in new_records' : r = RecordOf(r.sample, r.insn)
    BY <1>1 DEF Derived
  <2> QED BY <2>1 DEF RecordOf, IsWrite
<1>3. ASSUME NEW s \in DOMAIN samples, NEW i \in Position
      PROVE  RecordOf(s, i)' \in new_records' <=> Found(s, i)'
  <2>0. RecordOf(s, i)' = RecordOf(s, i)
    BY DEF RecordOf, IsWrite
  <2>1. RecordOf(s, i)' \in new_records'
          <=> RecordOf(s, i) \in new_records \/ (s = sample /\ i = c /\ Q)
    BY <1>1, <2>0
  <2>2. RecordOf(s, i) \in new_records <=> Found(s, i)
    BY Zenon DEF Derived
  <2>3. (place[s] # 0 /\ Derivable(i, place[s]))' <=> place[s] # 0 /\ Derivable(i, place[s])
    BY PlaceKept, Zenon
  <2>4. Found(s, i)' <=>
          /\ place[s] # 0 /\ Derivable(i, place[s])
          /\ s < sample \/ (s = sample /\ i \in Passed \cup {c})
    BY <2>3 DEF Found
  <2> QED BY <2>1, <2>2, <2>4 DEF Found
<1> QED BY <1>2, <1>3, Zenon DEF Derived

\* Go itself derives nothing, and drops only samples that have no place.
LEMMA SeekDerives ==
  ASSUME DInv, Seek \/ LeaveOffset \/ RunOff \/ Finish
  PROVE  Simulation' /\ Derived'
<1>1. /\ code' = code /\ leader' = leader /\ samples' = samples /\ place' = place
      /\ pc = "seek" /\ backward_reg_map' = backward_reg_map /\ new_records' = new_records
  BY Zenon DEF Seek, LeaveOffset, RunOff, Finish, inputs, reg_maps
<1>2. entry \in 1..(N + 1) /\ offset \in Nat
  BY <1>1, Zenon DEF DInv, Typed, Iterators
<1>3. pc' \in {"seek", "done", "undefined"}
  BY <1>2, NextEntryTyped, Zenon DEF Seek, LeaveOffset, RunOff, Finish
<1>4. pc' # "backward" /\ pc' # "forward"
  BY <1>3, Zenon
<1>5. Simulation'
  BY <1>1, <1>4, Zenon DEF DInv, Simulation
<1>6. Passed = {} /\ Passed' = {}
  BY <1>1, <1>4, Zenon DEF Passed
<1>7. sample' = sample \/ (sample' = sample + 1 /\ sample \in Nat)
  BY SamplesTyped, Zenon DEF DInv, Seek, LeaveOffset, NextSample, RunOff, Finish
<1>8. ASSUME NEW s \in DOMAIN samples, NEW i \in Position
      PROVE  Found(s, i)' <=> Found(s, i)
  <2>1. s \in Nat
    BY SamplesTyped DEF DInv
  <2>2. place[s] # 0 => (s < sample' <=> s < sample)
    <3>1. s = sample => place[s] = 0
      BY <1>1, Zenon DEF DInv, Walk, Unplaced
    <3> QED BY <1>7, <2>1, <3>1, SamplesTyped DEF DInv
  <2>3. (place[s] # 0 /\ Derivable(i, place[s]))' <=> place[s] # 0 /\ Derivable(i, place[s])
    BY <1>1, PlaceKept, Zenon
  <2> QED BY <1>6, <2>2, <2>3 DEF Found
<1> QED BY <1>1, <1>5, <1>8, NothingDerived, Zenon DEF DInv

\* A sample is attributed: it has derived nothing yet, and never will if its instruction
\* cannot be handled.
LEMMA AttributeDerives ==
  ASSUME DInv, Attribute
  PROVE  Simulation' /\ Derived'
<1>1. /\ code' = code /\ leader' = leader /\ samples' = samples /\ pc = "seek"
      /\ sample \in DOMAIN samples /\ entry \in Position /\ entry' = entry
      /\ place' = [place EXCEPT ![sample] = entry] /\ forward_reg_map' = {}
      /\ backward_reg_map' = backward_reg_map /\ new_records' = new_records
  BY Zenon DEF Attribute, inputs, iterators
<1>2. place \in [DOMAIN samples -> 0..N] /\ N \in Nat
  BY OffsetSteps, Zenon DEF DInv, Typed, Outputs
<1>3. place'[sample] = entry /\ \A s \in DOMAIN samples : s # sample => place'[s] = place[s]
  BY <1>1, <1>2, Zenon
<1>4. place[sample] = 0 /\ backward_reg_map = {}
  BY <1>1, Zenon DEF DInv, Walk, Unplaced, Simulation
<1>5. Passed = {}
  BY <1>1, Zenon DEF Passed
<1>6. ~(sample < sample) /\ sample < sample + 1
  BY SamplesTyped DEF DInv
<1>7. CASE InsnCanHandle(code[entry])
  <2>1. pc' = "backward" /\ cursor' = entry - 1 /\ sample' = sample
    BY <1>7, Zenon DEF Attribute
  <2>2. (entry - 1) + 1 = entry /\ entry - 1 < entry /\ entry..(entry - 1) = {}
        /\ entry..entry = {entry}
    BY <1>1, <1>2 DEF Position
  <2>5. Simulation'
    <3>1. pc' # "forward"
      BY <2>1, Zenon
    <3>2. cursor' < entry' /\ (cursor' + 1)..(entry' - 1) = {} /\ (cursor' + 1)..entry' = {entry}
      BY <1>1, <2>1, <2>2, Zenon
    <3>3. backward_reg_map' = Pollution((cursor + 1)..(entry - 1))'
      BY <1>1, <1>4, <3>2 DEF Pollution
    <3>4. (\A j \in (cursor + 1)..entry : InsnCanHandle(code[j]) /\ SameBlock(j, entry))'
      BY <1>1, <1>7, <3>2 DEF InsnCanHandle, SameBlock
    <3> QED BY <1>1, <2>1, <3>1, <3>2, <3>3, <3>4, Zenon DEF Simulation
  <2>6. Passed' = {}
    BY <1>1, <2>1, <2>2, Zenon DEF Passed
  <2>7. ASSUME NEW s \in DOMAIN samples, NEW i \in Position
        PROVE  Found(s, i)' <=> Found(s, i)
    <3>1. CASE s = sample
      BY <1>5, <1>6, <2>1, <2>6, <3>1 DEF Found
    <3>2. CASE s # sample
      <4>1. (place[s] # 0 /\ Derivable(i, place[s]))' <=> place[s] # 0 /\ Derivable(i, place[s])
        BY <1>1, <1>3, <3>2, PlaceKept, Zenon
      <4> QED BY <1>5, <2>1, <2>6, <4>1 DEF Found
    <3> QED BY <3>1, <3>2, Zenon
  <2> QED BY <1>1, <2>5, <2>7, NothingDerived, Zenon DEF DInv
<1>8. CASE ~InsnCanHandle(code[entry])
  <2>1. pc' = "seek" /\ sample' = sample + 1
    BY <1>1, <1>8, Zenon DEF Attribute
  <2>2. pc' # "forward" /\ pc' # "backward"
    BY <2>1, Zenon
  <2>3. Simulation'
    BY <1>1, <1>4, <2>2, Zenon DEF Simulation
  <2>4. Passed' = {}
    BY <2>2, Zenon DEF Passed
  <2>5. ASSUME NEW s \in DOMAIN samples, NEW i \in Position
        PROVE  Found(s, i)' <=> Found(s, i)
    <3>1. CASE s = sample
      <4>1. ~Found(s, i)
        BY <1>4, <3>1, Zenon DEF Found
      <4>3. ~Found(s, i)'
        BY <1>1, <1>3, <1>8, <3>1 DEF Found, Derivable, Determined, InsnCanHandle
      <4> QED BY <4>1, <4>3, Zenon
    <3>2. CASE s # sample
      <4>1. (place[s] # 0 /\ Derivable(i, place[s]))' <=> place[s] # 0 /\ Derivable(i, place[s])
        BY <1>1, <1>3, <3>2, PlaceKept, Zenon
      <4>2. s < sample' <=> s < sample
        BY <2>1, <3>2, SamplesTyped DEF DInv
      <4> QED BY <1>5, <2>4, <4>1, <4>2 DEF Found
    <3> QED BY <3>1, <3>2, Zenon
  <2> QED BY <1>1, <2>3, <2>5, NothingDerived, Zenon DEF DInv
<1> QED BY <1>7, <1>8, Zenon

\* One instruction further back.
LEMMA StepBack ==
  ASSUME NEW c \in Position, NEW k \in Position, c < k
  PROVE  /\ (c - 1) + 1 = c /\ c - 1 < k
         /\ ((c + 1)..(k - 1)) \cup {c} = c..(k - 1)
         /\ c..k = ((c + 1)..k) \cup {c} /\ k \in (c + 1)..k /\ c # k
         /\ c..(k - 1) = Between(c, k)
  BY OffsetSteps, BetweenIs DEF Position

\* One step of the walk back, or the turn (patch:1053-1078).
LEMMA BackwardDerives ==
  ASSUME PairedNames, DInv, SimulateBackward
  PROVE  Simulation' /\ Derived'
<1>1. /\ code' = code /\ leader' = leader /\ samples' = samples /\ pc = "backward"
      /\ sample' = sample /\ entry' = entry /\ place' = place
  BY Zenon DEF SimulateBackward, inputs, iterators
<1>2. /\ code \in [Position -> Insn] /\ cursor \in 0..(N + 1) /\ Inputs
      /\ entry \in Position /\ sample \in DOMAIN samples /\ place[sample] = entry
  BY <1>1, Zenon DEF DInv, Typed, Inputs, Iterators, Walk, AtOffset
<1>3. /\ cursor < entry /\ forward_reg_map = {}
      /\ backward_reg_map = Pollution((cursor + 1)..(entry - 1))
      /\ \A j \in (cursor + 1)..entry : InsnCanHandle(code[j]) /\ SameBlock(j, entry)
  BY <1>1, Zenon DEF DInv, Simulation
<1>4. N \in Nat /\ entry # 0 /\ ~(sample < sample)
  BY <1>2, OffsetSteps, SamplesTyped DEF DInv, Position
<1>5. Passed = (cursor + 1)..(entry - 1)
  BY <1>1, Zenon DEF Passed
<1>6. CASE SameBlock(cursor, entry) /\ InsnCanHandle(code[cursor])
  <2>1. WalkBack /\ cursor' = cursor - 1 /\ pc' = pc /\ forward_reg_map' = forward_reg_map
    BY <1>6, Zenon DEF SimulateBackward
  <2>2. cursor \in Position
    BY <1>6, Zenon DEF SameBlock
  <2> DEFINE c == cursor
  <2>3. /\ (c - 1) + 1 = c /\ c - 1 < entry
        /\ ((c + 1)..(entry - 1)) \cup {c} = c..(entry - 1)
        /\ c..entry = ((c + 1)..entry) \cup {c} /\ entry \in (c + 1)..entry /\ c # entry
        /\ c..(entry - 1) = Between(c, entry)
    BY <1>2, <1>3, <2>2, StepBack, Zenon
  <2>4. backward_reg_map' = Pollution(c..(entry - 1))
    <3>1. backward_reg_map' = Polluted(Pollution((c + 1)..(entry - 1)), code[c])
      BY <1>3, <2>1, Zenon DEF WalkBack
    <3>2. Polluted(Pollution((c + 1)..(entry - 1)), code[c])
            = Pollution(((c + 1)..(entry - 1)) \cup {c})
      BY <1>2, <2>2, PollutionGrows, Zenon
    <3> QED BY <2>3, <3>1, <3>2, Zenon
  <2>5. \A j \in c..entry : InsnCanHandle(code[j]) /\ SameBlock(j, entry)
    BY <1>3, <1>6, <2>3, Zenon
  <2>6. Simulation'
    <3>1. pc' # "forward" /\ pc' = "backward"
      BY <1>1, <2>1, Zenon
    <3>2. cursor' < entry' /\ cursor' + 1 = c
      BY <1>1, <2>1, <2>3, Zenon
    <3>3. backward_reg_map' = Pollution((cursor + 1)..(entry - 1))'
      BY <1>1, <2>4, <3>2 DEF Pollution, HasResult, Aliases, InvalidateRegister
    <3>4. (\A j \in (cursor + 1)..entry : InsnCanHandle(code[j]) /\ SameBlock(j, entry))'
      BY <1>1, <2>5, <3>2 DEF InsnCanHandle, SameBlock
    <3> QED BY <1>1, <1>3, <2>1, <3>1, <3>2, <3>3, <3>4, Zenon DEF Simulation
  <2>7. Passed' = Passed \cup {c}
    <3>1. pc' = "backward" /\ cursor' + 1 = c
      BY <1>1, <2>1, <2>3, Zenon
    <3>2. Passed' = c..(entry - 1)
      BY <1>1, <3>1, Zenon DEF Passed
    <3> QED BY <1>5, <2>3, <3>2, Zenon
  <2> DEFINE Q == HasAddress(code[c]) /\ ComputeMemory(code[c], Pollution(Between(c, entry)))
  <2>8. Q <=> Derivable(c, place[sample])
    <3>1. Between(c, entry) \cup {c, entry} \subseteq c..entry
      BY <1>2, <1>4, <2>2, <2>3 DEF Position
    <3>2. Q <=> Derivable(c, entry)
      BY <1>2, <1>6, <2>2, <2>3, <2>5, <3>1, ComputedIsDerivable, Zenon
    <3> QED BY <1>2, <3>2, Zenon
  <2>9. new_records' = new_records \cup {r \in {RecordOf(sample, c)} : Q}
    <3>1. new_records' = new_records \cup NewRecord(c, Pollution(Between(c, entry)))
      BY <2>1, <2>3, <2>4, Zenon DEF WalkBack
    <3>2. NewRecord(c, Pollution(Between(c, entry))) = {r \in {RecordOf(sample, c)} : Q}
      BY NewRecordIs, Zenon
    <3> QED BY <3>1, <3>2, Zenon
  <2>10. Derived'
    <3> HIDE DEF Q
    <3> QED BY <1>1, <1>2, <1>4, <2>2, <2>7, <2>8, <2>9, OneDerived, Zenon DEF DInv
  <2> QED BY <2>6, <2>10, Zenon
<1>7. CASE ~(SameBlock(cursor, entry) /\ InsnCanHandle(code[cursor]))
  <2>1. /\ backward_reg_map' = {} /\ cursor' = entry + 1 /\ pc' = "forward"
        /\ forward_reg_map' = Polluted(forward_reg_map, code[entry])
        /\ new_records' = new_records
    BY <1>7, Zenon DEF SimulateBackward
  <2>2. (entry + 1) - 1 = entry /\ entry + 1 > entry /\ entry..entry = {entry}
        /\ entry \in (cursor + 1)..entry
    BY <1>2, <1>3, <1>4 DEF Position
  <2>3. forward_reg_map' = Pollution({entry})
    <3>1. Pollution({}) = {}
      BY DEF Pollution
    <3>2. Polluted(Pollution({}), code[entry]) = Pollution({} \cup {entry})
      BY <1>2, PollutionGrows, Zenon
    <3>3. {} \cup {entry} = {entry}
      BY Zenon
    <3> QED BY <1>3, <2>1, <3>1, <3>2, <3>3, Zenon
  <2>4. Simulation'
    <3>1. pc' # "backward" /\ pc' = "forward"
      BY <2>1, Zenon
    <3>2. cursor' > entry' /\ (entry'..(cursor' - 1)) = {entry}
      BY <1>1, <2>1, <2>2, Zenon
    <3>3. forward_reg_map' = Pollution(entry..(cursor - 1))'
      BY <1>1, <2>3, <3>2 DEF Pollution, HasResult, Aliases, InvalidateRegister
    <3>4. InsnCanHandle(code[entry]) /\ SameBlock(entry, entry)
      BY <1>3, <2>2, Zenon
    <3>5. (\A j \in entry..(cursor - 1) : InsnCanHandle(code[j]) /\ SameBlock(j, entry))'
      BY <1>1, <3>2, <3>4 DEF InsnCanHandle, SameBlock
    <3> QED BY <2>1, <3>1, <3>2, <3>3, <3>5, Zenon DEF Simulation
  <2>5. Passed' = 1..entry
    <3>1. pc' # "backward" /\ pc' = "forward" /\ cursor' - 1 = entry
      BY <2>1, <2>2, Zenon
    <3> QED BY <3>1, Zenon DEF Passed
  <2>6. ASSUME NEW i \in Position, Derivable(i, entry)
        PROVE  i \in Passed' <=> i \in Passed
    <3>1. i # entry
      BY <2>6, Zenon DEF Derivable
    <3>2. cursor # entry
      BY <1>2, <1>3, <1>4 DEF Position
    <3>3. ~(i <= cursor)
      BY <1>2, <1>3, <1>7, <2>6, <3>2, StoppedBefore, Zenon
    <3> QED BY <1>2, <1>3, <1>4, <1>5, <2>5, <3>1, <3>3 DEF Position
  <2>7. ASSUME NEW s \in DOMAIN samples, NEW i \in Position
        PROVE  Found(s, i)' <=> Found(s, i)
    <3>1. (place[s] # 0 /\ Derivable(i, place[s]))' <=> place[s] # 0 /\ Derivable(i, place[s])
      BY <1>1, PlaceKept, Zenon
    <3>2. s = sample /\ Derivable(i, place[s]) => (i \in Passed' <=> i \in Passed)
      BY <1>2, <2>6, Zenon
    <3> QED BY <1>1, <3>1, <3>2 DEF Found
  <2> QED BY <1>1, <2>1, <2>4, <2>7, NothingDerived, Zenon DEF DInv
<1> QED BY <1>6, <1>7, Zenon

\* One instruction further on.
LEMMA StepOn ==
  ASSUME NEW c \in Position, NEW k \in Position, c > k
  PROVE  /\ (c + 1) - 1 = c /\ c + 1 > k
         /\ (k..(c - 1)) \cup {c} = k..c /\ (1..(c - 1)) \cup {c} = 1..c
         /\ k \in k..(c - 1) /\ c # k
         /\ k..(c - 1) = Between(c, k)
  BY OffsetSteps, BetweenIs DEF Position

\* One step of the walk forward, or its end (patch:1079-1095).
LEMMA ForwardDerives ==
  ASSUME PairedNames, DInv, SimulateForward
  PROVE  Simulation' /\ Derived'
<1>1. /\ code' = code /\ leader' = leader /\ samples' = samples /\ pc = "forward"
      /\ entry' = entry /\ place' = place /\ backward_reg_map' = backward_reg_map
  BY Zenon DEF SimulateForward, inputs, iterators
<1>2. /\ code \in [Position -> Insn] /\ cursor \in 0..(N + 1) /\ Inputs
      /\ entry \in Position /\ sample \in DOMAIN samples /\ place[sample] = entry
  BY <1>1, Zenon DEF DInv, Typed, Inputs, Iterators, Walk, AtOffset
<1>3. /\ cursor > entry /\ backward_reg_map = {} /\ pc # "backward"
      /\ forward_reg_map = Pollution(entry..(cursor - 1))
      /\ \A j \in entry..(cursor - 1) : InsnCanHandle(code[j]) /\ SameBlock(j, entry)
  BY <1>1, Zenon DEF DInv, Simulation
<1>4. N \in Nat /\ entry # 0 /\ ~(sample < sample) /\ cursor # entry
  BY <1>2, <1>3, OffsetSteps, SamplesTyped DEF DInv, Position
<1>5. Passed = 1..(cursor - 1)
  BY <1>1, <1>3, Zenon DEF Passed
<1>6. CASE SameBlock(cursor, entry) /\ InsnCanHandle(code[cursor])
  <2>1. /\ new_records' = new_records \cup NewRecord(cursor, forward_reg_map)
        /\ forward_reg_map' = Polluted(forward_reg_map, code[cursor])
        /\ cursor' = cursor + 1 /\ pc' = pc /\ sample' = sample
    BY <1>6, Zenon DEF SimulateForward
  <2>2. cursor \in Position
    BY <1>6, Zenon DEF SameBlock
  <2> DEFINE c == cursor
  <2>3. /\ (c + 1) - 1 = c /\ c + 1 > entry
        /\ (entry..(c - 1)) \cup {c} = entry..c /\ (1..(c - 1)) \cup {c} = 1..c
        /\ entry \in entry..(c - 1) /\ c # entry
        /\ entry..(c - 1) = Between(c, entry)
    BY <1>2, <1>3, <2>2, StepOn, Zenon
  <2>4. forward_reg_map' = Pollution(entry..c)
    <3>1. Polluted(Pollution(entry..(c - 1)), code[c]) = Pollution((entry..(c - 1)) \cup {c})
      BY <1>2, <2>2, PollutionGrows, Zenon
    <3> QED BY <1>3, <2>1, <2>3, <3>1, Zenon
  <2>5. \A j \in entry..c : InsnCanHandle(code[j]) /\ SameBlock(j, entry)
    BY <1>3, <1>6, <2>3, Zenon
  <2>6. Simulation'
    <3>1. pc' # "backward" /\ pc' = "forward"
      BY <1>1, <2>1, Zenon
    <3>2. cursor' > entry' /\ cursor' - 1 = c
      BY <1>1, <2>1, <2>3, Zenon
    <3>3. forward_reg_map' = Pollution(entry..(cursor - 1))'
      BY <1>1, <2>4, <3>2 DEF Pollution, HasResult, Aliases, InvalidateRegister
    <3>4. (\A j \in entry..(cursor - 1) : InsnCanHandle(code[j]) /\ SameBlock(j, entry))'
      BY <1>1, <2>5, <3>2 DEF InsnCanHandle, SameBlock
    <3> QED BY <1>1, <1>3, <3>1, <3>2, <3>3, <3>4, Zenon DEF Simulation
  <2>7. Passed' = Passed \cup {c}
    <3>1. pc' # "backward" /\ pc' = "forward" /\ cursor' - 1 = c
      BY <1>1, <2>1, <2>3, Zenon
    <3>2. Passed' = 1..c
      BY <3>1, Zenon DEF Passed
    <3> QED BY <1>5, <2>3, <3>2, Zenon
  <2> DEFINE Q == HasAddress(code[c]) /\ ComputeMemory(code[c], Pollution(Between(c, entry)))
  <2>8. Q <=> Derivable(c, place[sample])
    <3>1. Between(c, entry) \cup {c, entry} \subseteq entry..c
      BY <1>2, <1>4, <2>2, <2>3 DEF Position
    <3>2. Q <=> Derivable(c, entry)
      BY <1>2, <1>6, <2>2, <2>3, <2>5, <3>1, ComputedIsDerivable, Zenon
    <3> QED BY <1>2, <3>2, Zenon
  <2>9. new_records' = new_records \cup {r \in {RecordOf(sample, c)} : Q}
    <3>1. new_records' = new_records \cup NewRecord(c, Pollution(Between(c, entry)))
      BY <1>3, <2>1, <2>3, Zenon
    <3>2. NewRecord(c, Pollution(Between(c, entry))) = {r \in {RecordOf(sample, c)} : Q}
      BY NewRecordIs, Zenon
    <3> QED BY <3>1, <3>2, Zenon
  <2>10. Derived'
    <3> HIDE DEF Q
    <3> QED BY <1>1, <1>2, <1>4, <2>1, <2>2, <2>7, <2>8, <2>9, OneDerived, Zenon DEF DInv
  <2> QED BY <2>6, <2>10, Zenon
<1>7. CASE ~(SameBlock(cursor, entry) /\ InsnCanHandle(code[cursor]))
  <2>1. pc' = "seek" /\ sample' = sample + 1 /\ new_records' = new_records
    BY <1>7, Zenon DEF SimulateForward
  <2>2. pc' # "backward" /\ pc' # "forward"
    BY <2>1, Zenon
  <2>3. Simulation'
    BY <1>1, <1>3, <2>2, Zenon DEF Simulation
  <2>4. Passed' = {}
    BY <2>2, Zenon DEF Passed
  <2>5. ASSUME NEW i \in Position, Derivable(i, entry)
        PROVE  i \in Passed
    <3>1. ~(i >= cursor)
      BY <1>2, <1>3, <1>4, <1>7, <2>5, StoppedBefore, Zenon
    <3> QED BY <1>2, <1>4, <1>5, <3>1 DEF Position
  <2>6. ASSUME NEW s \in DOMAIN samples, NEW i \in Position
        PROVE  Found(s, i)' <=> Found(s, i)
    <3>1. (place[s] # 0 /\ Derivable(i, place[s]))' <=> place[s] # 0 /\ Derivable(i, place[s])
      BY <1>1, PlaceKept, Zenon
    <3>2. s = sample /\ Derivable(i, place[s]) => i \in Passed
      BY <1>2, <2>5, Zenon
    <3>3. s < sample' <=> s < sample \/ s = sample
      BY <2>1, SamplesTyped DEF DInv
    <3> QED BY <2>4, <3>1, <3>2, <3>3 DEF Found
  <2> QED BY <1>1, <2>1, <2>3, <2>6, NothingDerived, Zenon DEF DInv
<1> QED BY <1>6, <1>7, Zenon

\* Nothing happens.
LEMMA StutterDerives ==
  ASSUME DInv, UNCHANGED vars
  PROVE  Simulation' /\ Derived'
<1>1. /\ code' = code /\ leader' = leader /\ samples' = samples /\ pc' = pc
      /\ sample' = sample /\ entry' = entry /\ place' = place /\ cursor' = cursor
      /\ backward_reg_map' = backward_reg_map /\ forward_reg_map' = forward_reg_map
      /\ new_records' = new_records
  BY Zenon DEF vars, inputs, iterators, reg_maps
<1>2. Passed' = Passed
  BY <1>1, Zenon DEF Passed
<1>3. Simulation'
  BY <1>1 DEF DInv, Simulation, Pollution, HasResult, Aliases, InvalidateRegister,
              InsnCanHandle, SameBlock
<1>4. ASSUME NEW s \in DOMAIN samples, NEW i \in Position
      PROVE  Found(s, i)' <=> Found(s, i)
  <2>1. (place[s] # 0 /\ Derivable(i, place[s]))' <=> place[s] # 0 /\ Derivable(i, place[s])
    BY <1>1, PlaceKept, Zenon
  <2> QED BY <1>1, <1>2, <2>1 DEF Found
<1> QED BY <1>1, <1>3, <1>4, NothingDerived, Zenon DEF DInv

\* All steps keep the invariant.
LEMMA StepDInv ==
  ASSUME PairedNames, DInv, [Next]_vars
  PROVE  DInv'
<1>1. Typed' /\ Walk'
  BY StepTyped, StepWalk, Zenon DEF DInv
<1>2. Simulation' /\ Derived'
  BY SeekDerives, AttributeDerives, BackwardDerives, ForwardDerives, StutterDerives,
     Zenon DEF Next
<1> QED BY <1>1, <1>2, Zenon DEF DInv

-----------------------------------------------------------------------------
(* Init *)

\* The samples Go reads are sorted offsets.
LEMMA SampleListsTyped ==
  ASSUME NEW s \in SampleLists
  PROVE  /\ s \in Seq(Nat)
         /\ \A i, j \in DOMAIN s : i < j => s[i] <= s[j]
<1>1. PICK m \in 1..MaxSamples : s \in [1..m -> 0..(OffsetOf[N + 1] + 1)]
  BY Zenon DEF SampleLists
<1>2. \A i, j \in DOMAIN s : i < j => s[i] <= s[j]
  BY Zenon DEF SampleLists
<1>3. m \in Nat /\ 0..(OffsetOf[N + 1] + 1) \subseteq Nat
  BY <1>1
<1>4. s \in [1..m -> Nat]
  BY <1>1, <1>3
<1> QED BY <1>2, <1>3, <1>4

\* Go begins at the first entry and the first sample.
LEMMA InitDInv == Init => DInv
<1> SUFFICES ASSUME Init PROVE DInv
  OBVIOUS
<1>1. N \in Nat /\ OffsetOf[1] = 0 /\ 0 \in 0..N
  BY OffsetSteps
<1>2. samples \in Seq(Nat) /\ Sorted
  BY SampleListsTyped, Zenon DEF Init, Sorted
<1>3. Len(samples) \in Nat /\ DOMAIN samples = 1..Len(samples)
      /\ \A s \in DOMAIN samples : samples[s] \in Nat
  BY <1>2
<1>4. /\ pc = "seek" /\ sample = 1 /\ entry = 1 /\ offset = 0 /\ same_offset = 0 /\ cursor = 0
      /\ backward_reg_map = {} /\ forward_reg_map = {} /\ new_records = {}
      /\ updated = [s \in DOMAIN samples |-> [write |-> 0, insn |-> 0]]
      /\ place = [s \in DOMAIN samples |-> 0]
  BY Zenon DEF Init
<1>5. pc \notin {"backward", "forward"} /\ pc # "backward" /\ pc # "forward"
  BY <1>4, Zenon
<1>6. Typed
  <2>1. Inputs
    BY <1>2, Zenon DEF Init, Inputs
  <2>2. Iterators
    BY <1>1, <1>3, <1>4, <1>5 DEF Iterators
  <2>3. [write |-> 0, insn |-> 0] \in [write : {0, 1}, insn : 0..N]
    BY <1>1
  <2>4. Outputs
    BY <1>1, <1>4, <2>3, Zenon DEF Outputs
  <2> QED BY <2>1, <2>2, <2>4, Zenon DEF Typed
<1>7. Walk
  <2>1. AtOffset /\ Unplaced
    BY <1>1, <1>4, <1>5, Zenon DEF AtOffset, Unplaced
  <2>2. Ahead
    BY <1>3, <1>4 DEF Ahead
  <2>3. \A s \in DOMAIN samples : place[s] = 0 /\ ~(s < sample)
    BY <1>3, <1>4
  <2>4. AttributedInPlace
    BY <2>3, Zenon DEF AttributedInPlace
  <2> QED BY <1>2, <2>1, <2>2, <2>4, Zenon DEF Walk
<1>8. Simulation
  BY <1>4, <1>5, Zenon DEF Simulation
<1>9. Derived
  <2>1. \A s \in DOMAIN samples, i \in Position : ~Found(s, i)
    BY <1>4, Zenon DEF Found
  <2> QED BY <1>4, <2>1, Zenon DEF Derived
<1> QED BY <1>6, <1>7, <1>8, <1>9, Zenon DEF DInv

\* The records in the file are the ones the simulated samples should give.
LEMMA DerivedIsExact == DInv => DerivedExactly
<1> SUFFICES ASSUME DInv, NEW s \in Simulated
             PROVE  {[insn |-> r.insn, write |-> r.write] :
                       r \in {r \in new_records : r.sample = s}} =
                    {[insn |-> i, write |-> IsWrite(code[i])] :
                       i \in {i \in Position \ {place[s]} :
                                /\ HasAddress(code[i]) /\ code[i].simple
                                /\ ~IsFrame(code[i].base)
                                /\ Determined(i, place[s])}}
  BY Zenon DEF DerivedExactly
<1> DEFINE Right == {i \in Position \ {place[s]} :
                       /\ HasAddress(code[i]) /\ code[i].simple
                       /\ ~IsFrame(code[i].base)
                       /\ Determined(i, place[s])}
<1>1. s \in DOMAIN samples /\ s < sample /\ place[s] # 0
  BY Zenon DEF Simulated
<1>2. \A i \in Position : RecordOf(s, i) \in new_records <=> i \in Right
  BY <1>1, Zenon DEF DInv, Derived, Found, Derivable
<1> HIDE DEF Right
<1>3. ASSUME NEW r \in new_records, r.sample = s
      PROVE  r.insn \in Right /\ r.write = IsWrite(code[r.insn])
  <2>1. r.insn \in Position /\ r = RecordOf(s, r.insn)
    BY <1>3, Zenon DEF DInv, Typed, Outputs, Derived
  <2>2. RecordOf(s, r.insn).write = IsWrite(code[r.insn])
    BY DEF RecordOf
  <2>3. RecordOf(s, r.insn) \in new_records
    BY <1>3, <2>1, Zenon
  <2> QED BY <1>2, <2>1, <2>2, <2>3, Zenon
<1>4. ASSUME NEW i \in Right
      PROVE  \E r \in new_records : r.sample = s /\ r.insn = i /\ r.write = IsWrite(code[i])
  <2>1. i \in Position
    BY DEF Right
  <2>2. RecordOf(s, i).sample = s /\ RecordOf(s, i).insn = i
        /\ RecordOf(s, i).write = IsWrite(code[i])
    BY DEF RecordOf
  <2> QED BY <1>2, <2>1, <2>2, Zenon
<1>5. {[insn |-> r.insn, write |-> r.write] : r \in {r \in new_records : r.sample = s}} =
      {[insn |-> i, write |-> IsWrite(code[i])] : i \in Right}
  BY <1>3, <1>4
<1> QED BY <1>5, Zenon DEF Right

-----------------------------------------------------------------------------
(* Theorems *)

\* Go's iterators over samples and instructions stay together, for every layout of the
\* function and every sorted list of samples (patch:1379-1456).
THEOREM WalkInvariant == Spec => [](Typed /\ Walk)
<1>1. Init => Typed /\ Walk
  BY InitDInv, Zenon DEF DInv
<1>2. Typed /\ Walk /\ [Next]_vars => (Typed /\ Walk)'
  BY StepTyped, StepWalk, Zenon
<1> QED BY <1>1, <1>2, PTL DEF Spec

\* The iterators stay inside the function or end Go, and the maps hold registers.
THEOREM TypeCorrect == Spec => []TypeOK
<1>1. Typed /\ Walk => TypeOK
  BY TypedIsTypeOK, Zenon
<1> QED BY WalkInvariant, <1>1, PTL

\* A sample is attributed to the instruction at its offset, and dropped only behind one
\* that lies inside an instruction, however many samples share an offset.
THEOREM SamplesInPlace == Spec => []AttributedInPlace
<1>1. Typed /\ Walk => AttributedInPlace
  BY Zenon DEF Walk
<1> QED BY WalkInvariant, <1>1, PTL

\* Where every register is written under a name InvalidateRegister pairs with the names it
\* is read under (patch:771-823), the maps of the two walks of ExecuteSimWhole hold the
\* registers written between the sample and the cursor.
THEOREM DerivationInvariant == PairedNames /\ Spec => []DInv
<1>1. SUFFICES ASSUME PairedNames PROVE Spec => []DInv
  OBVIOUS
<1>2. DInv /\ [Next]_vars => DInv'
  BY <1>1, StepDInv, Zenon
<1> QED BY InitDInv, <1>2, PTL DEF Spec

\* Under the same condition the two walks of ExecuteSimWhole (patch:1053-1095) derive all
\* records the sampled registers determine, and no other.
THEOREM DerivesExactly == PairedNames /\ Spec => []DerivedExactly
BY DerivationInvariant, DerivedIsExact, PTL

\* So the names of parts that InvalidateRegister does not pair are the only way to an
\* address computed from a register that was written since: what the comment at
\* patch:1207-1209 asks for holds of all functions without them.
THEOREM AddressesStayCurrent == PairedNames /\ Spec => []AddressesCurrent
<1>1. DInv => AddressesCurrent
  <2> SUFFICES ASSUME DInv, NEW r \in new_records
               PROVE  Determined(r.insn, place[r.sample])
    BY Zenon DEF AddressesCurrent
  <2>1. r.sample \in DOMAIN samples /\ r.insn \in Position /\ r = RecordOf(r.sample, r.insn)
    BY Zenon DEF DInv, Typed, Outputs, Derived
  <2>2. RecordOf(r.sample, r.insn) \in new_records
    BY <2>1, Zenon
  <2>3. Found(r.sample, r.insn)
    BY <2>1, <2>2, Zenon DEF DInv, Derived
  <2> QED BY <2>3, Zenon DEF Found, Derivable
<1> QED BY <1>1, DerivationInvariant, PTL
=============================================================================
