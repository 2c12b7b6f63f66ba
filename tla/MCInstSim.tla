----------------------------- MODULE MCInstSim -----------------------------
(* Instances of InstSim for TLC. *)
EXTENDS InstSim

MCSizes == <<1, 2, 1>>

rax == [family |-> "a", form |-> "r"]
eax == [family |-> "a", form |-> "e"]
r8  == [family |-> "8", form |-> "r"]
r8d == [family |-> "8", form |-> "e"]
rbp == [family |-> "bp", form |-> "r"]

Load(mov, base, index, dst) ==
  [op |-> "load", mov |-> mov, base |-> base, index |-> index, simple |-> TRUE, dst |-> dst]
Store(base, index, simple) ==
  [op |-> "store", mov |-> TRUE, base |-> base, index |-> index, simple |-> simple]
Lea(base, dst) ==
  [op |-> "lea", mov |-> FALSE, base |-> base, index |-> {}, simple |-> TRUE, dst |-> dst]
Alu(dst) == [op |-> "alu", dst |-> dst]

\* Results go to rax, eax and r8.
MCInsn ==
  {Load(TRUE, rax, {}, rax), Load(TRUE, r8, {}, eax), Load(FALSE, rax, {r8}, r8),
   Load(TRUE, rbp, {}, r8), Store(rax, {}, TRUE), Store(r8, {rax}, TRUE),
   Store(rax, {}, FALSE), Lea(rax, r8), Alu(eax), Alu(r8),
   [op |-> "test"], [op |-> "other"]}

\* The lower half of r8 is a result, too.
MCInsnHalf == MCInsn \cup {Alu(r8d)}
=============================================================================
