------------------------------ MODULE InstSim ------------------------------
(***************************************************************************)
(* The instruction simulator that mao-patch/patch adds to MAO as the pass  *)
(* INSTSIM.  Go attributes the samples of a function to its instructions   *)
(* and ExecuteSimWhole extends each of them over the basic block: backward *)
(* and forward it derives a record for every memory operand whose address  *)
(* the sampled registers still determine.                                  *)
(*                                                                         *)
(* A register has a family (rax, eax, ax and al are one) and the form it   *)
(* is named in.  An address is the set of registers it is made of; a new   *)
(* record is known by the instruction it stands for.  Entries of the       *)
(* function that are no instructions have size 0 and are left out, but for *)
(* the directives behind the last instruction.                             *)
(***************************************************************************)
EXTENDS Naturals, Sequences

CONSTANTS Paired,      \* families of eax/rax, ebx/rbx, ...
          Frame,       \* families of ebp/rbp and esp/rsp, paired as well
          Numbered,    \* families of r8 to r15
          Insn,        \* instructions a function may consist of
          Sizes,       \* the sizes of its instructions, in order
          MaxSamples   \* bound: samples of the function

Family == Paired \cup Frame \cup Numbered
\* "r" is the whole register (rax, r8), "e" its lower half (eax, r8d), "part" a
\* smaller part (al, ax, r8b).
Register == [family : Family, form : {"r", "e", "part"}]

\* A memory operand is made of base, index and displacement; simple is FALSE if the
\* displacement names a symbol.  "load" and "store" are mov, add or sub, dst is
\* the result register.
Instruction ==
  [op : {"load", "lea"}, mov : BOOLEAN, base : Register, index : SUBSET Register,
   simple : BOOLEAN, dst : Register]
  \cup [op : {"store"}, mov : BOOLEAN, base : Register, index : SUBSET Register,
        simple : BOOLEAN]
  \cup [op : {"alu"}, dst : Register]
  \cup [op : {"test", "other"}]

ASSUME InsnAssumption == \A i \in Insn : i \in Instruction
ASSUME SizesAssumption == Sizes \in Seq(Nat \ {0})

N == Len(Sizes)
Position == 1..N

VARIABLES code, leader, foreign,   \* inputs: the function, where its second block
                                   \* begins, where .loc names another file
          samples,                 \* offsets of the samples, sorted
          pc, sample, entry, offset, same_offset, cursor,
          backward_reg_map, forward_reg_map,   \* the polluted registers
          updated,       \* raw records: is_write, the instruction giving the address
          new_records,
          place          \* history: the instruction a sample was attributed to

inputs == <<code, leader, foreign, samples>>
iterators == <<entry, offset>>
reg_maps == <<backward_reg_map, forward_reg_map>>
vars == <<inputs, pc, sample, iterators, same_offset, cursor, reg_maps, updated,
          new_records, place>>

OffsetOf[i \in 1..(N + 1)] == IF i = 1 THEN 0 ELSE OffsetOf[i - 1] + Sizes[i - 1]

\* Read keeps the lines of the function and file; Go sorts them by offset.  The
\* converter does not look at the size of a function, an offset may lie behind it.
SampleLists ==
  {s \in UNION {[1..m -> 0..(OffsetOf[N + 1] + 1)] : m \in 1..MaxSamples} :
     \A i, j \in DOMAIN s : i < j => s[i] <= s[j]}

Init ==
  /\ code \in [Position -> Insn]
  /\ leader \in 2..(N + 1) /\ foreign \in 2..(N + 1)
  /\ samples \in SampleLists
  /\ pc = "seek" /\ sample = 1 /\ entry = 1 /\ offset = 0 /\ same_offset = 0
  /\ cursor = 0 /\ backward_reg_map = {} /\ forward_reg_map = {}
  /\ updated = [s \in DOMAIN samples |-> [write |-> 0, insn |-> 0]]
  /\ new_records = {}
  /\ place = [s \in DOMAIN samples |-> 0]

-----------------------------------------------------------------------------
(* Registers and addresses *)

\* mov, add, sub and lea, and cmp, test and jumps, which derive nothing.
InsnCanHandle(i) == i.op # "other"

InvalidateRegister(map, reg) ==
  map \cup IF reg.family \in Paired \cup Frame /\ reg.form \in {"r", "e"}
             THEN [family : {reg.family}, form : {"r", "e"}] ELSE {reg}

HasResult(i) == i.op \in {"load", "lea", "alu"}

\* The map once the result register of the instruction, if any, is polluted.
Polluted(map, i) == IF HasResult(i) THEN InvalidateRegister(map, i.dst) ELSE map

IsMov(i) == i.op \in {"load", "store"} /\ i.mov
IsWrite(i) == IF i.op = "store" THEN 1 ELSE 0
HasAddress(i) == i.op \in {"load", "lea", "store"}

\* rbp and rsp: "they are local variables".
IsFrame(reg) == reg.family \in Frame /\ reg.form = "r"

\* ComputeMemory returns an address, not -1; direction 2 of UpdateMemory is the
\* empty map.
ComputeMemory(i, map) ==
  /\ i.simple
  /\ ~IsFrame(i.base)
  /\ ({i.base} \cup i.index) \cap map = {}

\* The record ComputeNewSampleWhole writes: memory operand 0 is a read, 1 a write.
NewRecord(i, map) ==
  IF HasAddress(code[i]) /\ ComputeMemory(code[i], map)
    THEN {[sample |-> sample, insn |-> i, write |-> IsWrite(code[i])]} ELSE {}

-----------------------------------------------------------------------------
(* ExecuteSimWhole *)

SameBlock(i, j) == i \in Position /\ (i < leader <=> j < leader)

\* Mutant: the address is computed before the result register is polluted.
WalkBackComputesFirst ==
  /\ backward_reg_map' = Polluted(backward_reg_map, code[cursor])
  /\ new_records' = new_records \cup NewRecord(cursor, backward_reg_map)

\* A load pollutes its result first: the register still had its old value then.
WalkBack ==
  /\ backward_reg_map' = Polluted(backward_reg_map, code[cursor])
  /\ new_records' = new_records \cup NewRecord(cursor, backward_reg_map')

SimulateBackward ==
  /\ pc = "backward"
  /\ IF SameBlock(cursor, entry) /\ InsnCanHandle(code[cursor])
       THEN /\ WalkBack
            /\ cursor' = cursor - 1
            /\ UNCHANGED <<pc, forward_reg_map>>
       ELSE /\ backward_reg_map' = {}
            /\ forward_reg_map' = Polluted(forward_reg_map, code[entry])
            /\ cursor' = entry + 1
            /\ pc' = "forward"
            /\ UNCHANGED new_records
  /\ UNCHANGED <<inputs, sample, iterators, same_offset, updated, place>>

\* The walk ends at the block's end or an instruction that cannot be handled, and
\* Go turns to the next sample.
SimulateForward ==
  /\ pc = "forward"
  /\ IF SameBlock(cursor, entry) /\ InsnCanHandle(code[cursor])
       THEN /\ new_records' = new_records \cup NewRecord(cursor, forward_reg_map)
            /\ forward_reg_map' = Polluted(forward_reg_map, code[cursor])
            /\ cursor' = cursor + 1
            /\ UNCHANGED <<pc, sample, same_offset>>
       ELSE /\ forward_reg_map' = {}
            /\ pc' = "seek"
            /\ sample' = sample + 1
            /\ same_offset' = same_offset + 1
            /\ UNCHANGED <<cursor, new_records>>
  /\ UNCHANGED <<inputs, iterators, backward_reg_map, updated, place>>

-----------------------------------------------------------------------------
(* Go *)

\* Mutant: every instruction counts for one.
SizeOfOne(i) == IF i \in Position THEN 1 ELSE 0
SizeOf(i) == IF i \in Position THEN Sizes[i] ELSE 0

\* ++entry_iter: Go returns where another source file begins; behind the last
\* directive there is nothing to look at.
NextEntry ==
  /\ offset' = offset + SizeOf(entry)
  /\ entry' = entry + 1
  /\ pc' = IF entry' > N + 1 THEN "undefined"
           ELSE IF foreign \in Position /\ entry' >= foreign THEN "done" ELSE "seek"

Seek ==
  /\ pc = "seek" /\ sample \in DOMAIN samples /\ same_offset = 0
  /\ offset < samples[sample]
  /\ NextEntry
  /\ UNCHANGED <<inputs, sample, same_offset, cursor, reg_maps, updated, new_records, place>>

\* Of a mov the raw record takes is_write, and the address if it can be computed.
UpdateMemory ==
  updated' = IF ~IsMov(code[entry]) THEN updated
             ELSE [updated EXCEPT ![sample] =
                     [write |-> IsWrite(code[entry]),
                      insn |-> IF ComputeMemory(code[entry], {}) THEN entry ELSE @.insn]]

\* The sample is at the entry: UpdateMemory, and ExecuteSimWhole begins.
Attribute ==
  /\ pc = "seek" /\ sample \in DOMAIN samples
  /\ offset = samples[sample] /\ entry \in Position
  /\ place' = [place EXCEPT ![sample] = entry]
  /\ UpdateMemory
  /\ forward_reg_map' = {}
  /\ IF InsnCanHandle(code[entry])
       THEN pc' = "backward" /\ cursor' = entry - 1 /\ UNCHANGED <<sample, same_offset>>
       ELSE /\ sample' = sample + 1
            /\ same_offset' = same_offset + 1
            /\ UNCHANGED <<pc, cursor>>
  /\ UNCHANGED <<inputs, iterators, backward_reg_map, new_records>>

\* Mutant: the sample behind a group of samples is dropped as well.
NextSampleAlways == sample + 1
\* A sample between two instructions is dropped.
NextSample == IF same_offset = 0 THEN sample + 1 ELSE sample

\* Behind the samples of one offset Go moves on by one instruction, and also
\* when there were none.
LeaveOffset ==
  /\ pc = "seek" /\ entry \in Position
  /\ \/ sample \in DOMAIN samples /\ samples[sample] < offset
     \/ same_offset > 0 /\ (sample \in DOMAIN samples => offset # samples[sample])
  /\ NextEntry
  /\ sample' = NextSample
  /\ same_offset' = 0
  /\ UNCHANGED <<inputs, cursor, reg_maps, updated, new_records, place>>

\* No instruction is left where the sample should be.
RunOff ==
  /\ pc = "seek" /\ sample \in DOMAIN samples /\ same_offset = 0
  /\ entry \notin Position /\ samples[sample] <= offset
  /\ pc' = "undefined"
  /\ UNCHANGED <<inputs, sample, iterators, same_offset, cursor, reg_maps, updated,
                 new_records, place>>

Finish ==
  /\ pc = "seek" /\ sample \notin DOMAIN samples /\ same_offset = 0
  /\ pc' = "done"
  /\ UNCHANGED <<inputs, sample, iterators, same_offset, cursor, reg_maps, updated,
                 new_records, place>>

Next == \/ Seek \/ Attribute \/ SimulateBackward \/ SimulateForward
        \/ LeaveOffset \/ RunOff \/ Finish

Spec == Init /\ [][Next]_vars

-----------------------------------------------------------------------------
(* Properties *)

\* The iterators stay in the function and the maps hold registers.
TypeOK ==
  /\ pc \in {"seek", "backward", "forward", "done", "undefined"}
  /\ sample \in 1..(Len(samples) + 1)
  /\ entry \in 1..(N + 2) /\ offset \in Nat
  /\ same_offset \in 0..Len(samples)
  /\ cursor \in 0..(N + 1)
  /\ backward_reg_map \subseteq Register /\ forward_reg_map \subseteq Register
  /\ updated \in [DOMAIN samples -> [write : {0, 1}, insn : 0..N]]
  /\ new_records \subseteq [sample : DOMAIN samples, insn : Position, write : {0, 1}]
  /\ place \in [DOMAIN samples -> 0..N]

\* The samples ExecuteSimWhole is done with.
Simulated == {s \in DOMAIN samples : s < sample /\ place[s] # 0}

Misplaced(s) == \A i \in Position : OffsetOf[i] # samples[s]

\* "For each sample, attribute it to the corresponding instruction" (patch:1379): a
\* sample is attributed to no instruction but the one at its offset, and dropped only
\* behind (or as) one that lies inside an instruction, however many samples share
\* an offset.
AttributedInPlace ==
  /\ \A s \in DOMAIN samples : place[s] # 0 => OffsetOf[place[s]] = samples[s]
  /\ \A s \in DOMAIN samples : s < sample /\ place[s] = 0 =>
       \E u \in 1..s : Misplaced(u)

\* Families: what the processor changes when a register is written in any form.
Written(i) == IF HasResult(code[i]) THEN {code[i].dst.family} ELSE {}
Used(i) == {r.family : r \in {code[i].base} \cup code[i].index}

Between(i, j) == IF i <= j THEN i..(j - 1) ELSE j..(i - 1)

\* The instructions between are simulated, and none of them, nor the earlier one of
\* the two, writes a register of the address: it is the sampled value.
Determined(i, k) ==
  /\ SameBlock(i, k)
  /\ \A j \in Between(i, k) \cup {i, k} : InsnCanHandle(code[j])
  /\ \A j \in Between(i, k) : Written(j) \cap Used(i) = {}

\* Where registers are written under the names InvalidateRegister pairs, a sample
\* derives exactly the records its registers determine: those of the memory
\* operands, lea's included, that can be reached in the block and whose registers
\* are the sampled ones when the instruction runs ("can extend samples both in
\* forward and backforward direction within the basic block boundary",
\* mao-patch/README:5).  No sample sees what an earlier one left in the maps.
DerivedExactly ==
  \A s \in Simulated :
    {[insn |-> r.insn, write |-> r.write] : r \in {r \in new_records : r.sample = s}} =
    {[insn |-> i, write |-> IsWrite(code[i])] :
       i \in {i \in Position \ {place[s]} :
                /\ HasAddress(code[i]) /\ code[i].simple
                /\ ~IsFrame(code[i].base)
                /\ Determined(i, place[s])}}

\* "if reg = r_rax, it's not invalidate, but the r_eax is invalid, so we should get
\* that r_rax is also invalid" (patch:1207-1209): no address is computed from a
\* register that was written since, under whatever name.
AddressesCurrent ==
  \A r \in new_records : Determined(r.insn, place[r.sample])
=============================================================================
