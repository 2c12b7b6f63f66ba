---------------------------- MODULE MCDetectMain ----------------------------
(* An instance of DetectMain for TLC: every raw file of three entries over one *)
(* address (and the unknown address 0), the raw memory records being at        *)
(* instruction 2 and the new records at instructions 1 and 3.                  *)
EXTENDS DetectMain

Ops(no) == {[no |-> no, tid |-> t, pip |-> 2, addr |-> aw[1], write |-> aw[2],
             locks |-> {}] : t \in Thread, aw \in {<<0, 0>>, <<1, 0>>, <<1, 1>>}}

Derived(op) == SUBSET {[op EXCEPT !.pip = 1, !.addr = 1, !.write = 0],
                       [op EXCEPT !.pip = 3, !.addr = 1, !.write = 1]}

\* The entries of a number, each with the new records derived from it.
Parts(no) ==
  UNION {{[e |-> [type |-> "MEMORY_OP", no |-> no, op |-> op], new |-> d] :
            d \in Derived(op)} : op \in Ops(no)}
  \cup {[e |-> [type |-> "MEMORY_ALLOC", no |-> no, start |-> 1, size |-> 1,
                is_alloc |-> b], new |-> {}] : b \in BOOLEAN}
  \cup {[e |-> [type |-> "none", no |-> n], new |-> {}] : n \in {0, no}}

MCLogs == {[raw |-> <<x.e, y.e, z.e>>, new |-> x.new \cup y.new \cup z.new] :
             x \in Parts(1), y \in Parts(2), z \in Parts(3)}
=============================================================================
