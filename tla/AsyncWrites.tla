----------------------------- MODULE AsyncWrites -----------------------------
(***************************************************************************)
(* What the server promises about writes, seen through the operation       *)
(* numbers it hands out (rtree_put and rtree_del return one, rtree_verify  *)
(* asks about one) and nothing else: no queue, no threads, no locks.       *)
(*                                                                         *)
(* Every number issued stands for one write.  A write is executed at most  *)
(* once, and it may overtake at most Width - 1 writes with a smaller       *)
(* number.  The certificate, the number rtree_verify compares with, only   *)
(* grows and is always the number of an executed write.                    *)
(***************************************************************************)
EXTENDS Integers, FiniteSets

CONSTANTS
  Width,                  \* how many writes may be under way at once
  MaxIssued               \* bound: the largest number that is handed out

ASSUME WidthAssumption == Width \in Nat \ {0} /\ MaxIssued \in Nat

VARIABLES
  issued,                 \* the numbers handed out are 1..issued
  executed,               \* the numbers of the writes the tree has seen
  certified               \* the largest number reported as executed

writeVars == <<issued, executed, certified>>

Overtaken(n) == {m \in 1 .. n - 1 : m \notin executed}

Init ==
  /\ issued = 0
  /\ executed = {}
  /\ certified = 0

Issue ==
  /\ issued < MaxIssued
  /\ issued' = issued + 1
  /\ UNCHANGED <<executed, certified>>

ExecuteAnyOrder(n) ==
  /\ n \in 1 .. issued
  /\ n \notin executed
  /\ executed' = executed \cup {n}
  /\ UNCHANGED <<issued, certified>>

Execute(n) ==
  /\ n \in 1 .. issued
  /\ n \notin executed
  /\ Cardinality(Overtaken(n)) < Width
  /\ executed' = executed \cup {n}
  /\ UNCHANGED <<issued, certified>>

CertifyEarly(n) ==
  /\ certified < n
  /\ certified' = n
  /\ UNCHANGED <<issued, executed>>

Certify(n) ==
  /\ n \in executed
  /\ certified < n
  /\ certified' = n
  /\ UNCHANGED <<issued, executed>>

Next ==
  \/ Issue
  \/ \E n \in 1 .. issued : Execute(n)
  \/ \E n \in 1 .. issued : Certify(n)

Spec == Init /\ [][Next]_writeVars

-----------------------------------------------------------------------------

\* Only numbers handed out are executed, and the certificate is one of them.
TypeOK ==
  /\ issued \in 0 .. MaxIssued
  /\ executed \subseteq 1 .. issued
  /\ certified \in {0} \cup executed

\* A certificate may vouch for writes that have not been executed, but for
\* fewer than Width of them: this is how wrong verify() in tree_skel.c can be.
OverclaimBounded ==
  Cardinality({m \in 1 .. certified : m \notin executed}) < Width

=============================================================================
