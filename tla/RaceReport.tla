----------------------------- MODULE RaceReport -----------------------------
(***************************************************************************)
(* What tools/detect.cc promises, stated over the history of the accesses  *)
(* to an address and not over the detector's five-valued status: the       *)
(* abstract specification that module Detector implements.                 *)
(*                                                                         *)
(* The lockset discipline the tool refers to (detect.cc:27-32) calls an    *)
(* address racy when two threads touched it, one of them wrote, and no     *)
(* lock was held at every access.                                          *)
(***************************************************************************)
EXTENDS Naturals

CONSTANTS Thread, Lock, Address

VARIABLES accesses, \* accesses[a]: the accesses to a since it was last freed
          warned    \* the addresses a warning was printed for since then

vars == <<accesses, warned>>

Access == [tid : Thread, write : {0, 1}, locks : SUBSET Lock]

TidsOf(acc) == {x.tid : x \in acc}
CommonLocks(acc) == {l \in Lock : \A x \in acc : l \in x.locks}

\* Two threads and a write among the accesses: "shared modified".
SharedModified(acc) ==
  /\ \E x \in acc, y \in acc : x.tid # y.tid
  /\ \E x \in acc : x.write = 1

Racy(acc) == SharedModified(acc) /\ CommonLocks(acc) = {}

Init ==
  /\ accesses = [a \in Address |-> {}]
  /\ warned = {}

\* An access is reported when it leaves the address racy, except that an
\* access by a thread new to an already shared-modified address is not.
Reported(acc, x) ==
  /\ Racy(acc \cup {x})
  /\ SharedModified(acc) => x.tid \in TidsOf(acc)

Touch(a, x) ==
  /\ accesses' = [accesses EXCEPT ![a] = @ \cup {x}]
  /\ warned' = IF a \notin warned /\ Reported(accesses[a], x)
                 THEN warned \cup {a} ELSE warned

\* A block is freed: its addresses start afresh.
Forget(S) ==
  /\ accesses' = [a \in Address |-> IF a \in S THEN {} ELSE accesses[a]]
  /\ warned' = warned \ S

Next ==
  \/ \E a \in Address, x \in Access : Touch(a, x)
  \/ \E S \in SUBSET Address : Forget(S)

Spec == Init /\ [][Next]_vars
=============================================================================
