------------------------------ MODULE MCTreeSkel ------------------------------
(***************************************************************************)
(* The requests the runs of TreeSkel send.                                 *)
(***************************************************************************)
EXTENDS TreeSkel

CONSTANTS k1, k2, v1, v2

Put(k, v) == [opcode |-> "PUT", key |-> k, data |-> v, n |-> 0]
Del(k)    == [opcode |-> "DEL", key |-> k, data |-> None, n |-> 0]
Get(k)    == [opcode |-> "GET", key |-> k, data |-> None, n |-> 0]
Ask(o)    == [opcode |-> o, key |-> None, data |-> None, n |-> 0]
Verify(n) == [opcode |-> "VERIFY", key |-> None, data |-> None, n |-> n]

\* Writes, questions about them, and the two requests that fail.
WriteMessages ==
  {Put(k1, v1), Del(k1), Put(None, None), Ask("OTHER")}
    \cup {Verify(n) : n \in -1 .. MaxWrites}

\* Writes and a read that may meet one, for the liveness of several threads.
FewMessages == {Put(k1, v1), Del(k1), Get(k1)}

\* Requests of every kind: reads next to writes of two keys, one value being
\* too long for the response of GETVALUES.
ReadMessages ==
  {Put(k1, v1), Put(k2, v2), Del(k1), Get(k1)}
    \cup {Ask(o) : o \in ReadOps \ {"GET"}} \cup {Verify(n) : n \in 1 .. MaxWrites}
    \cup {Put(None, None), Ask("OTHER")}

=============================================================================
