-------------------------------- MODULE Blocks --------------------------------
(***************************************************************************)
(* The heap behind source/data.c and source/entry.c: an entry_t points to  *)
(* its key and to a data_t, which points to its bytes.  None of these is   *)
(* counted or locked; they are right only as long as every block has one   *)
(* owner.  The callers of the model keep to the comments of data.h and     *)
(* entry.h: a pointer they pass to be kept is no longer theirs, one they   *)
(* pass to be destroyed was theirs.                                        *)
(*                                                                         *)
(* malloc() takes the lowest free cell, so that memory is reused at once;  *)
(* no step compares addresses.                                             *)
(***************************************************************************)
EXTENDS Integers, FiniteSets

CONSTANTS
  MaxCells,     \* bound: how many blocks of memory there are
  MaxHeld       \* bound: how many of them the program holds at a time

ASSUME BlocksAssumption == MaxCells \in Nat /\ MaxHeld \in Nat

Cells == 1 .. MaxCells
NULL  == 0

VARIABLES
  block,    \* what each cell holds
  held      \* the blocks the program is responsible for

vars == <<block, held>>

\* parts are the pointers a block holds, in the order of its fields.
Block(kind, parts) == [kind |-> kind, parts |-> parts]
Unused == Block("unused", <<>>)
Bytes == Block("bytes", <<>>)                 \* a string, the bytes of a value
Data(bytes) == Block("data_t", <<bytes>>)
Entry(key, value) == Block("entry_t", <<key, value>>)

Init ==
  /\ block = [a \in Cells |-> Unused]
  /\ held = {}

-----------------------------------------------------------------------------

Used(a) == block[a].kind # "unused"
FreeCells == {a \in Cells : ~Used(a)}

\* The i-th of the blocks that are allocated in a step.
New(i) ==
  LET free == FreeCells
  IN CHOOSE a \in free : Cardinality({b \in free : b < a}) = i - 1
Enough(n) == Cardinality(FreeCells) >= n
MayHold == Cardinality(held) < MaxHeld

Is(a, kind) == a # NULL /\ block[a].kind = kind
Part(a, i) == block[a].parts[i]

\* What free() of the blocks in S leaves; free(NULL) does nothing.
Freed(S) == [a \in Cells |-> IF a \in S THEN Unused ELSE block[a]]

\* The values the program can name: its own and those in its entries.
Values ==
  {v \in Cells : Is(v, "data_t") /\
     (v \in held \/ \E e \in held : Is(e, "entry_t") /\ v = Part(e, 2))}

-----------------------------------------------------------------------------
(* The program's own memory. *)

AllocateBytes ==
  /\ MayHold /\ Enough(1)
  /\ block' = [block EXCEPT ![New(1)] = Bytes]
  /\ held' = held \cup {New(1)}

FreeBytes(b) ==
  /\ b \in held /\ Is(b, "bytes")
  /\ block' = Freed({b})
  /\ held' = held \ {b}

-----------------------------------------------------------------------------
(* data.c.  What returns NULL and changes nothing is no step. *)

data_create ==
  /\ MayHold /\ Enough(2)
  /\ block' = [block EXCEPT ![New(1)] = Data(New(2)), ![New(2)] = Bytes]
  /\ held' = held \cup {New(1)}

data_create2(b) ==
  /\ b \in held /\ Is(b, "bytes")
  /\ Enough(1)
  /\ block' = [block EXCEPT ![New(1)] = Data(b)]
  /\ held' = (held \ {b}) \cup {New(1)}

DestroyedBy(d) == IF d = NULL THEN {} ELSE {d, Part(d, 1)}

data_destroy(d) ==
  /\ d \in held /\ Is(d, "data_t")
  /\ block' = Freed(DestroyedBy(d))
  /\ held' = held \ {d}

\* What data_dup makes of the heap, with the copy in the cells d and b; there is
\* none of a value without bytes.
HasBytes(v) == v # NULL /\ Part(v, 1) # NULL
SharedCopy(heap, v, d, b) == [heap EXCEPT ![d] = Data(Part(v, 1))]
Copy(heap, v, d, b) == [heap EXCEPT ![d] = Data(b), ![b] = Bytes]

data_dup(v) ==
  /\ v \in Values /\ HasBytes(v)
  /\ MayHold /\ Enough(2)
  /\ block' = Copy(block, v, New(1), New(2))
  /\ held' = held \cup {New(1)}

\* The old bytes are not freed.
data_replace(v, b) ==
  /\ v \in Values
  /\ b = NULL \/ (b \in held /\ Is(b, "bytes"))
  /\ block' = [block EXCEPT ![v] = Data(b)]
  /\ held' = held \ {b}

-----------------------------------------------------------------------------
(* entry.c *)

entry_create(k, v) ==
  /\ k \in held /\ Is(k, "bytes")
  /\ v = NULL \/ (v \in held /\ Is(v, "data_t"))
  /\ Enough(1)
  /\ block' = [block EXCEPT ![New(1)] = Entry(k, v)]
  /\ held' = (held \ {k, v}) \cup {New(1)}

DestroysAs(e, S) ==
  /\ e \in held /\ Is(e, "entry_t")
  /\ block' = Freed({e, Part(e, 1)} \cup S)
  /\ held' = held \ {e}

entry_destroyFlat(e) == DestroysAs(e, {Part(e, 2)})

entry_destroy(e) == DestroysAs(e, DestroyedBy(Part(e, 2)))

entry_dup(e) ==
  /\ e \in held /\ Is(e, "entry_t")
  /\ MayHold /\ Enough(4)
  /\ LET v == Part(e, 2)
         copied(value) == [block EXCEPT ![New(1)] = Entry(New(2), value),
                                        ![New(2)] = Bytes]
     IN block' = IF HasBytes(v) THEN Copy(copied(New(3)), v, New(3), New(4))
                 ELSE copied(NULL)
  /\ held' = held \cup {New(1)}

ReplacesAs(e, k, v, S) ==
  /\ e \in held /\ Is(e, "entry_t")
  /\ k \in held /\ Is(k, "bytes")
  /\ v = NULL \/ (v \in held /\ Is(v, "data_t"))
  /\ block' = [Freed(S) EXCEPT ![e] = Entry(k, v)]
  /\ held' = held \ {k, v}

entry_replaceFreesNew(e, k, v)   == ReplacesAs(e, k, v, {k, v})
entry_replaceKeepsValue(e, k, v) == ReplacesAs(e, k, v, {Part(e, 1)})

\* The old key and the old data_t are freed, the bytes of the value are not.
entry_replace(e, k, v) == ReplacesAs(e, k, v, {Part(e, 1), Part(e, 2)})

-----------------------------------------------------------------------------

Next ==
  \/ AllocateBytes \/ data_create
  \/ \E v \in Values :
       data_dup(v) \/ \E b \in held \cup {NULL} : data_replace(v, b)
  \/ \E a \in held :
       \/ FreeBytes(a) \/ data_create2(a) \/ data_destroy(a)
       \/ entry_destroy(a) \/ entry_dup(a)
  \/ \E k \in held, v \in held \cup {NULL} :
       entry_create(k, v) \/ \E e \in held : entry_replace(e, k, v)

Spec == Init /\ [][Next]_vars

-----------------------------------------------------------------------------
(* What the callers rely on. *)

Parts(a) == {Part(a, i) : i \in DOMAIN block[a].parts} \ {NULL}
Owners(a) == {o \in Cells : a \in Parts(o)}

\* Nothing that is in use points to freed memory, nor to a block of another
\* kind that took its place: no later destroy frees anything twice.
NothingDangles ==
  /\ \A a \in held : Used(a)
  /\ \A a \in Cells :
       /\ Is(a, "data_t")  => Part(a, 1) = NULL \/ Is(Part(a, 1), "bytes")
       /\ Is(a, "entry_t") => /\ Is(Part(a, 1), "bytes")
                              /\ Part(a, 2) = NULL \/ Is(Part(a, 2), "data_t")

\* No two entries or values share memory (data.h:27, entry.h:25: a duplicate
\* has all its memory of its own), nor does the program keep what it gave.
OneOwner ==
  \A a \in Cells :
    Cardinality(Owners(a)) + (IF a \in held THEN 1 ELSE 0) <= 1

\* What is replaced is not destroyed whole, in spite of data.h:33 and
\* entry.h:30; but no more than the bytes of values is ever lost.
OnlyBytesLeak ==
  \A a \in Cells : Used(a) /\ a \notin held /\ Owners(a) = {} => Is(a, "bytes")

\* A block the program destroys takes everything that only it owned with it
\* (data.h:22, entry.h:21).
DestroyTakesAll ==
  [][\A a \in held : Used(a) /\ ~Used(a)' =>
       \A b \in Parts(a) : ~Used(b)' /\ \A c \in Parts(b) : ~Used(c)']_vars

=============================================================================
