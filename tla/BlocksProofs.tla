----------------------------- MODULE BlocksProofs -----------------------------
(***************************************************************************)
(* Proofs about Blocks, for any number of cells: what the program holds    *)
(* and what it points to stays a forest, whatever is created, duplicated,  *)
(* replaced and destroyed in whatever order.                               *)
(***************************************************************************)
EXTENDS Blocks, FiniteSetTheorems, WellFoundedInduction, TLAPS

Kind(a) == block[a].kind

\* Block o points to block a.
Owns(o, a) ==
  /\ a # NULL
  /\ \/ Kind(o) \in {"data_t", "entry_t"} /\ a = Part(o, 1)
     \/ Kind(o) = "entry_t" /\ a = Part(o, 2)

\* The blocks there can be.
Shapes ==
  {Unused, Bytes} \cup {Data(b) : b \in Cells \cup {NULL}}
    \cup {Entry(p[1], p[2]) : p \in Cells \X (Cells \cup {NULL})}

HeapTypeOK == block \in [Cells -> Shapes] /\ held \subseteq Cells

\* What a block points to is of the kind it should be, and what the program holds
\* is in use.
PointsInv ==
  /\ \A a \in held : Kind(a) # "unused"
  /\ \A o \in Cells :
       /\ Kind(o) = "data_t" =>
            Part(o, 1) = NULL \/ (Part(o, 1) \in Cells /\ Kind(Part(o, 1)) = "bytes")
       /\ Kind(o) = "entry_t" =>
            /\ Part(o, 1) \in Cells /\ Kind(Part(o, 1)) = "bytes"
            /\ Part(o, 2) = NULL \/ (Part(o, 2) \in Cells /\ Kind(Part(o, 2)) = "data_t")

\* A block has one owner, another block or the program, and only bytes may have
\* none.
OwnInv ==
  /\ \A a, o, p \in Cells : Owns(o, a) /\ Owns(p, a) => o = p
  /\ \A a \in held, o \in Cells : ~Owns(o, a)
  /\ \A a \in Cells : Kind(a) \in {"data_t", "entry_t"} /\ a \notin held =>
       \E o \in Cells : Owns(o, a)

IInv == HeapTypeOK /\ PointsInv /\ OwnInv

-----------------------------------------------------------------------------
(* malloc(): the cells allocated in one step are free and differ. *)

LEMMA CellsAreFinite ==
  /\ Cells \subseteq Nat /\ NULL \notin Cells
  /\ IsFiniteSet(FreeCells) /\ FreeCells \subseteq Cells
<1>1. IsFiniteSet(Cells)
  BY BlocksAssumption, FS_Interval DEF BlocksAssumption, Cells
<1>2. FreeCells \subseteq Cells
  BY DEF FreeCells
<1>3. IsFiniteSet(FreeCells)
  BY <1>1, <1>2, FS_Subset
<1>4. QED
  BY <1>2, <1>3, BlocksAssumption DEF BlocksAssumption, Cells, NULL

\* The free cells below a.
Below(a) == {b \in FreeCells : b < a}

\* If not every free cell is in S, an initial part of them, one is just above S.
LEMMA JustAbove ==
  ASSUME NEW S \in SUBSET FreeCells, S # FreeCells,
         \A x \in S, y \in FreeCells : y < x => y \in S
  PROVE  \E m \in FreeCells : Below(m) = S
<1> DEFINE T == FreeCells \ S
<1>1. T # {} /\ T \subseteq Nat
  BY CellsAreFinite
<1>2. PICK m \in T : \A y \in T : ~(<<y, m>> \in OpToRel(<, Nat))
  BY <1>1, WFMin, NatLessThanWellFounded, Zenon
<1>3. \A y \in T : ~(y < m)
  BY <1>1, <1>2 DEF OpToRel
<1>4. \A x \in S : x < m
  BY <1>1, CellsAreFinite
<1>5. QED
  BY <1>3, <1>4 DEF Below

\* From the k-th free cell to the next one.
LEMMA NextFree ==
  ASSUME NEW a \in FreeCells, NEW k \in Nat, Cardinality(Below(a)) = k, Enough(k + 2)
  PROVE  \E m \in FreeCells : Cardinality(Below(m)) = k + 1
<1> DEFINE S == Below(a) \cup {a}
<1>1. S \subseteq FreeCells /\ a \notin Below(a) /\ Below(a) \subseteq FreeCells
  BY CellsAreFinite DEF Below
<1>2. IsFiniteSet(Below(a))
  BY <1>1, CellsAreFinite, FS_Subset
<1>3. Cardinality(S) = k + 1
  BY <1>1, <1>2, FS_AddElement
<1>4. S # FreeCells
  BY <1>3 DEF Enough
<1>5. \A x \in S, y \in FreeCells : y < x => y \in S
  BY CellsAreFinite DEF Below
<1> HIDE DEF S
<1>6. QED
  BY <1>1, <1>3, <1>4, <1>5, JustAbove

LEMMA Chosen ==
  ASSUME NEW i \in Nat, \E m \in FreeCells : Cardinality(Below(m)) = i - 1
  PROVE  New(i) \in FreeCells /\ Cardinality(Below(New(i))) = i - 1
BY DEF New, Below

LEMMA NewCells ==
  ASSUME NEW n \in 1 .. 4, Enough(n)
  PROVE  /\ \A i \in 1 .. n : New(i) \in FreeCells
         /\ \A i, j \in 1 .. n : New(i) = New(j) => i = j
<1> DEFINE Exists(i) == \E m \in FreeCells : Cardinality(Below(m)) = i - 1
<1>0. Cardinality(FreeCells) \in Nat /\ \A i \in 1 .. n : Enough(i)
  BY CellsAreFinite, FS_CardinalityType DEF Enough
<1>1. Exists(1)
  <2>1. {} # FreeCells
    BY <1>0, FS_EmptySet DEF Enough
  <2>2. PICK m \in FreeCells : Below(m) = {}
    BY <2>1, JustAbove
  <2>3. QED
    BY <2>2, FS_EmptySet
<1>2. 2 <= n => Exists(2)
  BY <1>0, <1>1, NextFree
<1>3. 3 <= n => Exists(3)
  BY <1>0, <1>2, NextFree
<1>4. 4 <= n => Exists(4)
  BY <1>0, <1>3, NextFree
<1>5. \A i \in 1 .. n : Exists(i)
  BY <1>1, <1>2, <1>3, <1>4
<1> HIDE DEF Exists
<1>6. \A i \in 1 .. n : New(i) \in FreeCells /\ Cardinality(Below(New(i))) = i - 1
  BY <1>5, Chosen DEF Exists
<1>7. QED
  BY <1>6

-----------------------------------------------------------------------------
(* What a block looks like. *)

LEMMA ShapeFacts ==
  /\ Unused.kind = "unused" /\ Bytes.kind = "bytes"
  /\ \A b : Data(b).kind = "data_t" /\ Data(b).parts[1] = b
  /\ \A k, v : /\ Entry(k, v).kind = "entry_t"
               /\ Entry(k, v).parts[1] = k /\ Entry(k, v).parts[2] = v
  /\ Unused \in Shapes /\ Bytes \in Shapes
  /\ \A b \in Cells \cup {NULL} : Data(b) \in Shapes
  /\ \A k \in Cells, v \in Cells \cup {NULL} : Entry(k, v) \in Shapes
<1>1. \A k \in Cells, v \in Cells \cup {NULL} : Entry(k, v) \in Shapes
  <2>1. SUFFICES ASSUME NEW k \in Cells, NEW v \in Cells \cup {NULL}
                 PROVE  Entry(k, v) \in Shapes
    OBVIOUS
  <2> DEFINE p == <<k, v>>
  <2>2. p \in Cells \X (Cells \cup {NULL}) /\ p[1] = k /\ p[2] = v
    OBVIOUS
  <2> HIDE DEF p
  <2>3. QED
    BY <2>2 DEF Shapes
<1>2. QED
  BY <1>1 DEF Unused, Bytes, Data, Entry, Block, Shapes

LEMMA Typed ==
  ASSUME HeapTypeOK, NEW a \in Cells
  PROVE  \/ block[a] = Unused \/ block[a] = Bytes
         \/ block[a] = Data(Part(a, 1)) /\ Part(a, 1) \in Cells \cup {NULL}
         \/ /\ block[a] = Entry(Part(a, 1), Part(a, 2))
            /\ Part(a, 1) \in Cells /\ Part(a, 2) \in Cells \cup {NULL}
<1>1. block[a] \in Shapes
  BY DEF HeapTypeOK
<1>2. CASE block[a] \in {Unused, Bytes}
  BY <1>2
<1>3. ASSUME NEW b \in Cells \cup {NULL}, block[a] = Data(b)
      PROVE  Part(a, 1) = b
  BY <1>3, ShapeFacts DEF Part
<1>4. ASSUME NEW p \in Cells \X (Cells \cup {NULL}), block[a] = Entry(p[1], p[2])
      PROVE  Part(a, 1) = p[1] /\ Part(a, 2) = p[2]
  BY <1>4, ShapeFacts DEF Part
<1>5. QED
  BY <1>1, <1>2, <1>3, <1>4 DEF Shapes

LEMMA OwnsItsParts ==
  ASSUME HeapTypeOK, NEW o \in Cells
  PROVE  \A a : a \in Parts(o) <=> Owns(o, a)
<1>1. CASE block[o] \in {Unused, Bytes}
  <2>1. block[o].parts = <<>>
    BY <1>1 DEF Unused, Bytes, Block
  <2>2. DOMAIN block[o].parts = {}
    BY <2>1
  <2>3. QED
    BY <1>1, <2>2, ShapeFacts DEF Parts, Owns, Kind
<1>2. CASE block[o] = Data(Part(o, 1))
  <2>1. DOMAIN block[o].parts = {1}
    <3>1. Data(Part(o, 1)).parts = <<Part(o, 1)>>
      BY DEF Data, Block
    <3>2. QED
      BY <1>2, <3>1
  <2>2. QED
    BY <1>2, <2>1, ShapeFacts DEF Parts, Owns, Kind
<1>3. CASE block[o] = Entry(Part(o, 1), Part(o, 2))
  <2>1. DOMAIN block[o].parts = {1, 2}
    <3>1. Entry(Part(o, 1), Part(o, 2)).parts = <<Part(o, 1), Part(o, 2)>>
      BY DEF Entry, Block
    <3>2. QED
      BY <1>3, <3>1
  <2>2. QED
    BY <1>3, <2>1, ShapeFacts DEF Parts, Owns, Kind
<1>4. QED
  BY <1>1, <1>2, <1>3, Typed

\* A free cell is nobody's and owns nothing.
LEMMA Fresh ==
  ASSUME IInv, NEW a \in FreeCells
  PROVE  /\ a \in Cells /\ a # NULL /\ a \notin held /\ Kind(a) = "unused"
         /\ \A o \in Cells : ~Owns(o, a) /\ ~Owns(a, o)
<1>1. a \in Cells /\ a # NULL /\ Kind(a) = "unused"
  BY CellsAreFinite DEF FreeCells, Used, Kind
<1>2. a \notin held
  BY <1>1 DEF IInv, PointsInv
<1>3. ASSUME NEW o \in Cells
      PROVE  ~Owns(o, a) /\ ~Owns(a, o)
  BY <1>1 DEF IInv, PointsInv, Owns
<1>4. QED
  BY <1>1, <1>2, <1>3

\* The value of an entry is held by nobody else.
LEMMA ValuesAreData ==
  ASSUME IInv, NEW v \in Values
  PROVE  v \in Cells /\ v # NULL /\ Kind(v) = "data_t"
BY CellsAreFinite DEF Values, Is, Kind

-----------------------------------------------------------------------------
(* The steps. *)

LEMMA AllocateBytesInv ==
  ASSUME IInv, AllocateBytes
  PROVE  IInv'
<1>1. PICK n \in FreeCells : n = New(1)
  BY NewCells DEF AllocateBytes
<1>2. block' = [block EXCEPT ![n] = Bytes] /\ held' = held \cup {n}
  BY <1>1 DEF AllocateBytes
<1>3. /\ n \in Cells /\ n # NULL /\ n \notin held /\ Kind(n) = "unused"
      /\ \A o \in Cells : ~Owns(o, n) /\ ~Owns(n, o)
  BY Fresh
<1>4. \A a \in Cells : block'[a] = IF a = n THEN Bytes ELSE block[a]
  BY <1>2 DEF IInv, HeapTypeOK
<1>5. HeapTypeOK'
  BY <1>2, <1>3, ShapeFacts DEF IInv, HeapTypeOK
<1>6. \A a \in Cells : Kind(a)' = IF a = n THEN "bytes" ELSE Kind(a)
  BY <1>4, ShapeFacts DEF Kind
<1>7. \A o, a \in Cells : Owns(o, a)' <=> Owns(o, a)
  BY <1>3, <1>4, <1>6, ShapeFacts DEF Owns, Part
<1>8. PointsInv'
  BY <1>2, <1>3, <1>4, <1>6 DEF IInv, HeapTypeOK, PointsInv, Part
<1>9. OwnInv'
  BY <1>2, <1>3, <1>6, <1>7 DEF IInv, OwnInv, HeapTypeOK
<1>10. QED
  BY <1>5, <1>8, <1>9 DEF IInv

\* What the caller holds, and what comes of it.
LEMMA HeldBlock ==
  ASSUME IInv, NEW b \in held
  PROVE  /\ b \in Cells /\ b # NULL /\ \A o \in Cells : ~Owns(o, b)
         /\ Kind(b) = "bytes" => \A o \in Cells : ~Owns(b, o)
BY CellsAreFinite DEF IInv, HeapTypeOK, OwnInv, Owns

\* A block that is freed along with the one that owns it was not needed: what is
\* left when the program gives up d, and the blocks in S go with it.
LEMMA FreedInv ==
  ASSUME IInv, NEW d \in held, NEW S \in SUBSET Cells,
         d \in S, S \cap held = {d},
         block' = Freed(S), held' = held \ {d},
         \A o \in Cells \ S, a \in S : ~Owns(o, a),
         \A o \in S, a \in Cells \ S : Owns(o, a) => Kind(a) = "bytes"
  PROVE  IInv'
<1>1. \A a \in Cells : block'[a] = IF a \in S THEN Unused ELSE block[a]
  BY DEF Freed
<1>2. HeapTypeOK'
  BY ShapeFacts DEF IInv, HeapTypeOK, Freed
<1>3. \A a \in Cells : Kind(a)' = IF a \in S THEN "unused" ELSE Kind(a)
  BY <1>1, ShapeFacts DEF Kind
<1>4. \A o, a \in Cells : Owns(o, a)' <=> Owns(o, a) /\ o \notin S
  <2>1. SUFFICES ASSUME NEW o \in Cells
                 PROVE  \A a \in Cells : Owns(o, a)' <=> Owns(o, a) /\ o \notin S
    OBVIOUS
  <2>2. CASE o \in S
    BY <1>3, <2>2 DEF Owns
  <2>3. CASE o \notin S
    BY <1>1, <1>3, <2>3 DEF Owns, Part
  <2>4. QED
    BY <2>2, <2>3
<1>5. PointsInv'
  <2>1. \A a \in held' : Kind(a)' # "unused"
    BY <1>3 DEF IInv, HeapTypeOK, PointsInv
  <2>2. ASSUME NEW o \in Cells, Kind(o)' \in {"data_t", "entry_t"}
        PROVE  PointsInv!2!(o)'
    <3>1. /\ o \notin S /\ Kind(o)' = Kind(o)
          /\ Part(o, 1)' = Part(o, 1) /\ Part(o, 2)' = Part(o, 2)
      BY <1>1, <1>3, <2>2 DEF Part
    <3>2. \A a \in Cells : Owns(o, a) => Kind(a)' = Kind(a)
      BY <1>3, <3>1
    <3>3. CASE Kind(o) = "data_t"
      BY <3>1, <3>2, <3>3, CellsAreFinite DEF IInv, PointsInv, Owns
    <3>4. CASE Kind(o) = "entry_t"
      BY <3>1, <3>2, <3>4, CellsAreFinite DEF IInv, PointsInv, Owns
    <3>5. QED
      BY <2>2, <3>1, <3>3, <3>4
  <2>3. QED
    BY <2>1, <2>2 DEF PointsInv
<1>6. OwnInv'
  <2>1. ASSUME NEW a \in Cells, Kind(a)' \in {"data_t", "entry_t"}, a \notin held'
        PROVE  \E o \in Cells : Owns(o, a)'
    <3>1. a \notin S /\ Kind(a)' = Kind(a) /\ a \notin held
      BY <1>3, <2>1
    <3>2. PICK o \in Cells : Owns(o, a)
      BY <2>1, <3>1 DEF IInv, OwnInv
    <3>3. o \notin S
      BY <2>1, <3>1, <3>2
    <3>4. QED
      BY <1>4, <3>2, <3>3
  <2>2. QED
    BY <1>4, <2>1 DEF IInv, OwnInv, HeapTypeOK
<1>7. QED
  BY <1>2, <1>5, <1>6 DEF IInv

LEMMA FreeBytesInv ==
  ASSUME IInv, NEW b \in held, FreeBytes(b)
  PROVE  IInv'
<1>1. /\ Kind(b) = "bytes" /\ held' = held \ {b} /\ block' = Freed({b})
  BY DEF FreeBytes, Is, Kind
<1>2. QED
  BY <1>1, HeldBlock, FreedInv

LEMMA DestroyInv ==
  ASSUME IInv, NEW d \in held, data_destroy(d)
  PROVE  IInv'
<1> DEFINE b == Part(d, 1)
           S == {d, b} \ {NULL}
<1>1. /\ d \in Cells /\ d # NULL /\ \A o \in Cells : ~Owns(o, d)
      /\ Kind(d) = "data_t" /\ held' = held \ {d} /\ block' = Freed({d, b})
  BY HeldBlock DEF data_destroy, DestroyedBy, Is, Kind
<1>2. block' = Freed(S)
  BY <1>1, CellsAreFinite DEF Freed
<1>3. b = NULL \/ (b \in Cells /\ Kind(b) = "bytes" /\ Owns(d, b) /\ b # d
                     /\ b \notin held /\ \A o \in Cells : ~Owns(b, o))
  BY <1>1, CellsAreFinite DEF IInv, PointsInv, OwnInv, Owns
<1>4. S \in SUBSET Cells /\ d \in S /\ S \cap held = {d}
  BY <1>1, <1>3
<1>5. \A o \in S, a \in Cells : Owns(o, a) => a \in S
  BY <1>1, <1>3 DEF Owns
<1>6. \A o \in Cells \ S, a \in S : ~Owns(o, a)
  BY <1>1, <1>3 DEF IInv, OwnInv
<1> HIDE DEF S
<1>7. QED
  BY <1>1, <1>2, <1>4, <1>5, <1>6, FreedInv

\* A new value with bytes of its own, made by data_create() or data_dup().
LEMMA NewDataInv ==
  ASSUME IInv, NEW n \in FreeCells, NEW m \in FreeCells, n # m,
         NEW v, block' = Copy(block, v, n, m), held' = held \cup {n}
  PROVE  IInv'
<1>1. /\ n \in Cells /\ n # NULL /\ n \notin held /\ \A o \in Cells : ~Owns(o, n) /\ ~Owns(n, o)
      /\ m \in Cells /\ m # NULL /\ m \notin held /\ \A o \in Cells : ~Owns(o, m) /\ ~Owns(m, o)
      /\ Kind(n) = "unused" /\ Kind(m) = "unused"
  BY Fresh
<1>2. \A a \in Cells : block'[a] = IF a = n THEN Data(m) ELSE IF a = m THEN Bytes ELSE block[a]
  BY DEF IInv, HeapTypeOK, Copy
<1>3. HeapTypeOK'
  BY <1>1, ShapeFacts DEF IInv, HeapTypeOK, Copy
<1>4. /\ \A a \in Cells : Kind(a)' = IF a = n THEN "data_t" ELSE IF a = m THEN "bytes" ELSE Kind(a)
      /\ Part(n, 1)' = m
  <2>1. \A a \in Cells : Kind(a)' = IF a = n THEN "data_t" ELSE IF a = m THEN "bytes" ELSE Kind(a)
    BY <1>2, ShapeFacts DEF Kind
  <2>2. Part(n, 1)' = m
    BY <1>1, <1>2, ShapeFacts DEF Part
  <2>3. QED
    BY <2>1, <2>2
<1>5. \A o, a \in Cells : Owns(o, a)' <=> Owns(o, a) \/ (o = n /\ a = m)
  <2>1. SUFFICES ASSUME NEW o \in Cells
                 PROVE  \A a \in Cells : Owns(o, a)' <=> Owns(o, a) \/ (o = n /\ a = m)
    OBVIOUS
  <2>2. CASE o \in {n, m}
    BY <1>1, <1>4, <2>2 DEF Owns
  <2>3. CASE o \notin {n, m}
    BY <1>2, <1>4, <2>3 DEF Owns, Part
  <2>4. QED
    BY <2>2, <2>3
<1>6. PointsInv'
  BY <1>1, <1>2, <1>4 DEF IInv, HeapTypeOK, PointsInv, Part
<1>7. OwnInv'
  BY <1>1, <1>4, <1>5 DEF IInv, OwnInv, HeapTypeOK
<1>8. QED
  BY <1>3, <1>6, <1>7 DEF IInv

LEMMA CreateInv ==
  ASSUME IInv, data_create \/ \E v \in Values : data_dup(v)
  PROVE  IInv'
<1>1. PICK n \in FreeCells, m \in FreeCells : n = New(1) /\ m = New(2) /\ n # m
  BY NewCells DEF data_create, data_dup
<1>2. held' = held \cup {n} /\ \E v : block' = Copy(block, v, n, m)
  BY <1>1 DEF data_create, data_dup, Copy
<1>3. QED
  BY <1>1, <1>2, NewDataInv

LEMMA Create2Inv ==
  ASSUME IInv, NEW b \in held, data_create2(b)
  PROVE  IInv'
<1>1. PICK n \in FreeCells : n = New(1)
  BY NewCells DEF data_create2
<1>2. /\ block' = [block EXCEPT ![n] = Data(b)] /\ held' = (held \ {b}) \cup {n}
      /\ Kind(b) = "bytes"
  BY <1>1 DEF data_create2, Is, Kind
<1>3. /\ n \in Cells /\ n # NULL /\ n \notin held /\ Kind(n) = "unused"
      /\ \A o \in Cells : ~Owns(o, n) /\ ~Owns(n, o)
      /\ b \in Cells /\ b # NULL /\ b # n /\ \A o \in Cells : ~Owns(o, b)
  BY Fresh, HeldBlock
<1>4. \A a \in Cells : block'[a] = IF a = n THEN Data(b) ELSE block[a]
  BY <1>2 DEF IInv, HeapTypeOK
<1>5. HeapTypeOK'
  BY <1>2, <1>3, ShapeFacts DEF IInv, HeapTypeOK
<1>6. /\ \A a \in Cells : Kind(a)' = IF a = n THEN "data_t" ELSE Kind(a)
      /\ Part(n, 1)' = b
  BY <1>3, <1>4, ShapeFacts DEF Kind, Part
<1>7. \A o, a \in Cells : Owns(o, a)' <=> Owns(o, a) \/ (o = n /\ a = b)
  BY <1>3, <1>4, <1>6, ShapeFacts DEF Owns, Part
<1>8. PointsInv'
  BY <1>2, <1>3, <1>4, <1>6 DEF IInv, HeapTypeOK, PointsInv, Part
<1>9. OwnInv'
  BY <1>2, <1>3, <1>6, <1>7 DEF IInv, OwnInv, HeapTypeOK
<1>10. QED
  BY <1>5, <1>8, <1>9 DEF IInv

\* The old bytes of the value are nobody's afterwards.
LEMMA ReplaceInv ==
  ASSUME IInv, NEW v \in Values, NEW b \in held \cup {NULL}, data_replace(v, b)
  PROVE  IInv'
<1>1. /\ block' = [block EXCEPT ![v] = Data(b)] /\ held' = held \ {b}
      /\ v \in Cells /\ v # NULL /\ Kind(v) = "data_t"
      /\ b = NULL \/ (b \in Cells /\ b \in held /\ Kind(b) = "bytes" /\ b # v
                        /\ \A o \in Cells : ~Owns(o, b))
  BY ValuesAreData, HeldBlock DEF data_replace, Is, Kind
<1>2. \A a \in Cells : block'[a] = IF a = v THEN Data(b) ELSE block[a]
  BY <1>1 DEF IInv, HeapTypeOK
<1>3. HeapTypeOK'
  BY <1>1, ShapeFacts DEF IInv, HeapTypeOK
<1>4. /\ \A a \in Cells : Kind(a)' = Kind(a)
      /\ Part(v, 1)' = b
  BY <1>1, <1>2, ShapeFacts DEF Kind, Part
<1>5. \A o, a \in Cells : Owns(o, a)' <=> IF o = v THEN a = b /\ a # NULL ELSE Owns(o, a)
  BY <1>1, <1>2, <1>4, ShapeFacts DEF Owns, Part
<1>6. PointsInv'
  BY <1>1, <1>2, <1>4 DEF IInv, HeapTypeOK, PointsInv, Part
<1>7. OwnInv'
  <2>1. \A a \in Cells : Owns(v, a) => Kind(a) = "bytes"
    BY <1>1 DEF IInv, PointsInv, Owns
  <2>2. ASSUME NEW a \in Cells, Kind(a)' \in {"data_t", "entry_t"}, a \notin held'
        PROVE  \E o \in Cells : Owns(o, a)'
    <3>1. Kind(a) \in {"data_t", "entry_t"} /\ a \notin held
      BY <1>1, <1>4, <2>2, CellsAreFinite
    <3>2. PICK o \in Cells : Owns(o, a)
      BY <3>1 DEF IInv, OwnInv
    <3>3. QED
      BY <1>5, <2>1, <3>1, <3>2
  <2>3. QED
    BY <1>1, <1>5, <2>2 DEF IInv, OwnInv, HeapTypeOK
<1>8. QED
  BY <1>3, <1>6, <1>7 DEF IInv

LEMMA EntryCreateInv ==
  ASSUME IInv, NEW k \in held, NEW v \in held \cup {NULL}, entry_create(k, v)
  PROVE  IInv'
<1>1. PICK n \in FreeCells : n = New(1)
  BY NewCells DEF entry_create
<1>2. /\ block' = [block EXCEPT ![n] = Entry(k, v)] /\ held' = (held \ {k, v}) \cup {n}
      /\ Kind(k) = "bytes" /\ (v = NULL \/ (v \in held /\ Kind(v) = "data_t"))
  BY <1>1 DEF entry_create, Is, Kind
<1>3. /\ n \in Cells /\ n # NULL /\ n \notin held /\ Kind(n) = "unused"
      /\ \A o \in Cells : ~Owns(o, n) /\ ~Owns(n, o)
  BY Fresh
<1>4. /\ k \in Cells /\ k # NULL /\ k # n /\ k # v /\ \A o \in Cells : ~Owns(o, k)
      /\ v = NULL \/ (v \in Cells /\ v # n /\ \A o \in Cells : ~Owns(o, v))
  BY <1>2, <1>3, HeldBlock
<1>5. \A a \in Cells : block'[a] = IF a = n THEN Entry(k, v) ELSE block[a]
  BY <1>2 DEF IInv, HeapTypeOK
<1>6. HeapTypeOK'
  BY <1>2, <1>3, <1>4, ShapeFacts DEF IInv, HeapTypeOK
<1>7. \A a \in Cells : Kind(a)' = IF a = n THEN "entry_t" ELSE Kind(a)
  BY <1>5, ShapeFacts DEF Kind
<1>8. Part(n, 1)' = k /\ Part(n, 2)' = v
  BY <1>3, <1>5, ShapeFacts DEF Part
<1>9. \A o, a \in Cells : Owns(o, a)' <=> Owns(o, a) \/ (o = n /\ a \in {k, v})
  <2>1. SUFFICES ASSUME NEW o \in Cells
                 PROVE  \A a \in Cells : Owns(o, a)' <=> Owns(o, a) \/ (o = n /\ a \in {k, v})
    OBVIOUS
  <2>2. CASE o = n
    BY <1>3, <1>4, <1>7, <1>8, <2>2, CellsAreFinite DEF Owns
  <2>3. CASE o # n
    BY <1>5, <1>7, <2>3 DEF Owns, Part
  <2>4. QED
    BY <2>2, <2>3
<1>10. PointsInv'
  BY <1>2, <1>3, <1>4, <1>5, <1>7, <1>8 DEF IInv, HeapTypeOK, PointsInv, Part
<1>11. OwnInv'
  BY <1>2, <1>3, <1>4, <1>7, <1>9, CellsAreFinite DEF IInv, OwnInv, HeapTypeOK
<1>12. QED
  BY <1>6, <1>10, <1>11 DEF IInv

\* What an entry of the program owns, down to the bytes of its value.
LEMMA EntryBlocks ==
  ASSUME IInv, NEW e \in held, Kind(e) = "entry_t"
  PROVE  LET k == Part(e, 1)
             v == Part(e, 2)
             b == Part(v, 1)
         IN /\ e \in Cells /\ e # NULL /\ \A o \in Cells : ~Owns(o, e)
            /\ k \in Cells /\ k # NULL /\ k # e /\ k \notin held /\ Kind(k) = "bytes"
            /\ Owns(e, k) /\ \A o \in Cells : ~Owns(k, o)
            /\ v = NULL \/
                 /\ v \in Cells /\ v # e /\ v # k /\ v \notin held
                 /\ Kind(v) = "data_t" /\ Owns(e, v)
                 /\ b = NULL \/ (/\ b \in Cells /\ b \notin {e, k, v} /\ b \notin held
                                 /\ Kind(b) = "bytes" /\ Owns(v, b)
                                 /\ \A o \in Cells : ~Owns(b, o))
<1> DEFINE k == Part(e, 1)
           v == Part(e, 2)
           b == Part(v, 1)
<1>1. e \in Cells /\ e # NULL /\ \A o \in Cells : ~Owns(o, e)
  BY HeldBlock
<1>2. /\ k \in Cells /\ Kind(k) = "bytes"
      /\ v = NULL \/ (v \in Cells /\ Kind(v) = "data_t")
  BY <1>1 DEF IInv, PointsInv
<1>3. k # NULL /\ k # e /\ Owns(e, k) /\ k \notin held /\ \A o \in Cells : ~Owns(k, o)
  <2>1. k # NULL /\ k # e /\ Owns(e, k) /\ \A o \in Cells : ~Owns(k, o)
    BY <1>2, CellsAreFinite DEF Owns
  <2>2. QED
    BY <1>1, <1>2, <2>1 DEF IInv, OwnInv
<1>4. ASSUME v # NULL
      PROVE  /\ v \in Cells /\ v # e /\ v # k /\ v \notin held /\ Kind(v) = "data_t"
             /\ Owns(e, v)
  <2>1. v \in Cells /\ v # e /\ v # k /\ Kind(v) = "data_t" /\ Owns(e, v)
    BY <1>2, <1>4 DEF Owns
  <2>2. QED
    BY <1>1, <2>1 DEF IInv, OwnInv
<1>5. ASSUME v # NULL, b # NULL
      PROVE  /\ b \in Cells /\ b \notin {e, k, v} /\ b \notin held
             /\ Kind(b) = "bytes" /\ Owns(v, b) /\ \A o \in Cells : ~Owns(b, o)
  <2>1. b \in Cells /\ Kind(b) = "bytes"
    BY <1>4, <1>5 DEF IInv, PointsInv
  <2>2. Owns(v, b) /\ b # e /\ b # v /\ \A o \in Cells : ~Owns(b, o)
    BY <1>4, <1>5, <2>1 DEF Owns
  <2>3. b # k /\ b \notin held
    BY <1>1, <1>2, <1>3, <1>4, <1>5, <2>1, <2>2 DEF IInv, OwnInv
  <2>4. QED
    BY <2>1, <2>2, <2>3
<1>6. QED
  BY <1>1, <1>2, <1>3, <1>4, <1>5

LEMMA EntryDestroyInv ==
  ASSUME IInv, NEW e \in held, entry_destroy(e)
  PROVE  IInv'
<1> DEFINE k == Part(e, 1)
           v == Part(e, 2)
           b == Part(v, 1)
           S == ({e, k} \cup DestroyedBy(v)) \ {NULL}
<1>1. Kind(e) = "entry_t" /\ held' = held \ {e} /\ block' = Freed({e, k} \cup DestroyedBy(v))
  BY DEF entry_destroy, DestroysAs, Is, Kind
<1>2. block' = Freed(S)
  BY <1>1, CellsAreFinite DEF Freed
<1>3. /\ e \in Cells /\ e # NULL /\ \A o \in Cells : ~Owns(o, e)
      /\ k \in Cells /\ k # NULL /\ k # e /\ k \notin held /\ Kind(k) = "bytes"
      /\ Owns(e, k) /\ \A o \in Cells : ~Owns(k, o)
      /\ v = NULL \/
           /\ v \in Cells /\ v # e /\ v # k /\ v \notin held
           /\ Kind(v) = "data_t" /\ Owns(e, v)
           /\ b = NULL \/ (/\ b \in Cells /\ b \notin {e, k, v} /\ b \notin held
                           /\ Kind(b) = "bytes" /\ Owns(v, b)
                           /\ \A o \in Cells : ~Owns(b, o))
  BY <1>1, EntryBlocks
<1>4. S \in SUBSET Cells /\ e \in S /\ S \cap held = {e}
  BY <1>3 DEF DestroyedBy
<1>5. \A a \in S : a = e \/ \E o \in S : Owns(o, a)
  BY <1>3 DEF DestroyedBy
<1>6. \A o \in S, a \in Cells : Owns(o, a) => a \in S
  BY <1>1, <1>3 DEF DestroyedBy, Owns
<1> HIDE DEF S
<1>7. \A o \in Cells \ S, a \in S : ~Owns(o, a)
  BY <1>3, <1>4, <1>5 DEF IInv, OwnInv
<1>8. QED
  BY <1>1, <1>2, <1>4, <1>6, <1>7, FreedInv

\* The old key and data_t of the entry are freed, and nothing else pointed there.
LEMMA EntryReplaceInv ==
  ASSUME IInv, NEW e \in held, NEW k \in held, NEW v \in held \cup {NULL},
         entry_replace(e, k, v)
  PROVE  IInv'
<1> DEFINE p == Part(e, 1)
           q == Part(e, 2)
<1>1. /\ Kind(e) = "entry_t" /\ Kind(k) = "bytes"
      /\ v = NULL \/ (v \in held /\ Kind(v) = "data_t")
      /\ held' = held \ {k, v}
      /\ block' = [Freed({p, q}) EXCEPT ![e] = Entry(k, v)]
  BY DEF entry_replace, ReplacesAs, Is, Kind
<1>2. /\ e \in Cells /\ e # NULL /\ \A o \in Cells : ~Owns(o, e)
      /\ p \in Cells /\ p # NULL /\ p # e /\ p \notin held /\ Kind(p) = "bytes"
      /\ Owns(e, p) /\ \A o \in Cells : ~Owns(p, o)
      /\ q = NULL \/ (/\ q \in Cells /\ q # e /\ q # p /\ q \notin held
                      /\ Kind(q) = "data_t" /\ Owns(e, q))
  BY <1>1, EntryBlocks
<1> HIDE DEF p, q
<1>3. /\ k \in Cells /\ k # NULL /\ k # e /\ k # v /\ \A o \in Cells : ~Owns(o, k)
      /\ k \notin {p, q}
      /\ v = NULL \/ (/\ v \in Cells /\ v # e /\ \A o \in Cells : ~Owns(o, v)
                      /\ v \notin {p, q})
  BY <1>1, <1>2, HeldBlock
<1>4. \A a \in Cells : block'[a] = IF a = e THEN Entry(k, v)
                                   ELSE IF a \in {p, q} THEN Unused ELSE block[a]
  BY <1>1 DEF Freed
<1>5. HeapTypeOK'
  BY <1>1, <1>2, <1>3, ShapeFacts DEF IInv, HeapTypeOK, Freed
<1>6. \A a \in Cells : Kind(a)' = IF a = e THEN "entry_t"
                                  ELSE IF a \in {p, q} THEN "unused" ELSE Kind(a)
  BY <1>4, ShapeFacts DEF Kind
<1>7. Part(e, 1)' = k /\ Part(e, 2)' = v
  BY <1>2, <1>4, ShapeFacts DEF Part
<1>8. \A o, a \in Cells : Owns(o, a)' <=> IF o = e THEN a \in {k, v}
                                          ELSE o # q /\ Owns(o, a)
  <2>1. SUFFICES ASSUME NEW o \in Cells
                 PROVE  \A a \in Cells : Owns(o, a)' <=> IF o = e THEN a \in {k, v}
                                                         ELSE o # q /\ Owns(o, a)
    OBVIOUS
  <2>2. CASE o = e
    BY <1>3, <1>6, <1>7, <2>2, CellsAreFinite DEF Owns
  <2>3. CASE o # e /\ o \in {p, q}
    BY <1>2, <1>6, <2>3 DEF Owns
  <2>4. CASE o # e /\ o \notin {p, q}
    BY <1>4, <1>6, <2>4 DEF Owns, Part
  <2>5. QED
    BY <2>2, <2>3, <2>4
<1>9. PointsInv'
  <2>1. \A a \in held' : Kind(a)' # "unused"
    BY <1>1, <1>2, <1>6, CellsAreFinite DEF IInv, HeapTypeOK, PointsInv
  <2>2. ASSUME NEW o \in Cells, Kind(o)' \in {"data_t", "entry_t"}
        PROVE  PointsInv!2!(o)'
    <3>1. CASE o = e
      BY <1>1, <1>3, <1>6, <1>7, <3>1
    <3>2. CASE o # e
      <4>1. /\ o \notin {p, q} /\ Kind(o)' = Kind(o)
            /\ Part(o, 1)' = Part(o, 1) /\ Part(o, 2)' = Part(o, 2)
        BY <1>4, <1>6, <2>2, <3>2 DEF Part
      <4>2. \A a \in Cells : Owns(o, a) => Kind(a)' = Kind(a)
        BY <1>2, <1>6, <3>2, CellsAreFinite DEF IInv, OwnInv
      <4>3. CASE Kind(o) = "data_t"
        BY <4>1, <4>2, <4>3, CellsAreFinite DEF IInv, PointsInv, Owns
      <4>4. CASE Kind(o) = "entry_t"
        BY <4>1, <4>2, <4>4, CellsAreFinite DEF IInv, PointsInv, Owns
      <4>5. QED
        BY <2>2, <4>1, <4>3, <4>4
    <3>3. QED
      BY <3>1, <3>2
  <2>3. QED
    BY <2>1, <2>2 DEF PointsInv
<1>10. OwnInv'
  <2>1. ASSUME NEW a \in Cells, Kind(a)' \in {"data_t", "entry_t"}, a \notin held'
        PROVE  \E o \in Cells : Owns(o, a)'
    <3>1. CASE a \in {k, v}
      BY <1>2, <1>8, <3>1
    <3>2. CASE a \notin {k, v}
      <4>1. a \notin held /\ a # e /\ a \notin {p, q} /\ Kind(a)' = Kind(a)
        BY <1>1, <1>6, <2>1, <3>2
      <4>2. PICK o \in Cells : Owns(o, a)
        BY <2>1, <4>1 DEF IInv, OwnInv
      <4>3. o # e
        <5>1. Owns(e, a) => a = p \/ a = q
          BY DEF Owns, p, q
        <5>2. QED
          BY <4>1, <4>2, <5>1
      <4>4. o # q
        BY <1>2, <2>1, <4>1, <4>2, CellsAreFinite DEF IInv, PointsInv, Owns
      <4>5. QED
        BY <1>8, <4>2, <4>3, <4>4
    <3>3. QED
      BY <3>1, <3>2
  <2>2. \A a \in held', o \in Cells : ~Owns(o, a)'
    BY <1>1, <1>8 DEF IInv, OwnInv, HeapTypeOK
  <2>3. \A a, o, r \in Cells : Owns(o, a)' /\ Owns(r, a)' => o = r
    BY <1>3, <1>8, CellsAreFinite DEF IInv, OwnInv
  <2>4. QED
    BY <2>1, <2>2, <2>3 DEF OwnInv
<1>11. QED
  BY <1>5, <1>9, <1>10 DEF IInv

\* A duplicate gets all its memory from malloc().
LEMMA EntryDupInv ==
  ASSUME IInv, NEW e \in held, entry_dup(e)
  PROVE  IInv'
<1>1. PICK n \in FreeCells, m \in FreeCells, d \in FreeCells, b \in FreeCells :
        /\ n = New(1) /\ m = New(2) /\ d = New(3) /\ b = New(4)
        /\ n # m /\ n # d /\ n # b /\ m # d /\ m # b /\ d # b
  BY NewCells DEF entry_dup
<1>2. /\ n \in Cells /\ n # NULL /\ n \notin held /\ \A o \in Cells : ~Owns(o, n) /\ ~Owns(n, o)
      /\ m \in Cells /\ m # NULL /\ m \notin held /\ \A o \in Cells : ~Owns(o, m) /\ ~Owns(m, o)
      /\ d \in Cells /\ d # NULL /\ d \notin held /\ \A o \in Cells : ~Owns(o, d) /\ ~Owns(d, o)
      /\ b \in Cells /\ b # NULL /\ b \notin held /\ \A o \in Cells : ~Owns(o, b) /\ ~Owns(b, o)
      /\ Kind(n) = "unused" /\ Kind(m) = "unused" /\ Kind(d) = "unused" /\ Kind(b) = "unused"
  BY Fresh
<1>3. held' = held \cup {n}
  BY <1>1 DEF entry_dup
<1> DEFINE copied(v) == [block EXCEPT ![n] = Entry(m, v), ![m] = Bytes]
<1>4. PICK v \in {d, NULL} :
        block' = IF v = d THEN [copied(d) EXCEPT ![d] = Data(b), ![b] = Bytes]
                 ELSE copied(NULL)
  <2>1. block' = IF HasBytes(Part(e, 2))
                 THEN [copied(d) EXCEPT ![d] = Data(b), ![b] = Bytes]
                 ELSE copied(NULL)
    BY <1>1 DEF entry_dup, Copy
  <2>2. d # NULL
    BY <1>2
  <2> HIDE DEF copied
  <2>3. QED
    BY <2>1, <2>2
<1>5. \A a \in Cells :
        block'[a] = IF a = n THEN Entry(m, v)
                    ELSE IF a = m THEN Bytes
                    ELSE IF a = d /\ v = d THEN Data(b)
                    ELSE IF a = b /\ v = d THEN Bytes
                    ELSE block[a]
  <2>1. block \in [Cells -> Shapes]
    BY DEF IInv, HeapTypeOK
  <2>2. CASE v = d
    BY <1>1, <1>2, <1>4, <2>1, <2>2
  <2>3. CASE v = NULL
    BY <1>1, <1>2, <1>4, <2>1, <2>3
  <2>4. QED
    BY <2>2, <2>3
<1>6. HeapTypeOK'
  BY <1>2, <1>3, <1>4, ShapeFacts DEF IInv, HeapTypeOK
<1> HIDE DEF copied
<1>7. \A a \in Cells :
        Kind(a)' = IF a = n THEN "entry_t"
                   ELSE IF a = m THEN "bytes"
                   ELSE IF a = d /\ v = d THEN "data_t"
                   ELSE IF a = b /\ v = d THEN "bytes"
                   ELSE Kind(a)
  BY <1>5, ShapeFacts DEF Kind
<1>8. Part(n, 1)' = m /\ Part(n, 2)' = v /\ (v = d => Part(d, 1)' = b)
  BY <1>1, <1>2, <1>5, ShapeFacts DEF Part
<1>9. \A o, a \in Cells :
        Owns(o, a)' <=> \/ Owns(o, a)
                        \/ o = n /\ a \in {m, v}
                        \/ v = d /\ o = d /\ a = b
  <2>1. SUFFICES ASSUME NEW o \in Cells
                 PROVE  \A a \in Cells :
                          Owns(o, a)' <=> \/ Owns(o, a)
                                          \/ o = n /\ a \in {m, v}
                                          \/ v = d /\ o = d /\ a = b
    OBVIOUS
  <2>2. CASE o = n
    BY <1>1, <1>2, <1>7, <1>8, <2>2, CellsAreFinite DEF Owns
  <2>3. CASE o \in {m, d, b}
    BY <1>1, <1>2, <1>7, <1>8, <2>3, CellsAreFinite DEF Owns
  <2>4. CASE o \notin {n, m, d, b}
    BY <1>5, <1>7, <2>4 DEF Owns, Part
  <2>5. QED
    BY <2>2, <2>3, <2>4
<1>10. PointsInv'
  <2>1. \A a \in held' : Kind(a)' # "unused"
    BY <1>2, <1>3, <1>7 DEF IInv, HeapTypeOK, PointsInv
  <2>2. ASSUME NEW o \in Cells, Kind(o)' \in {"data_t", "entry_t"}
        PROVE  PointsInv!2!(o)'
    <3>1. CASE o = n \/ (o = d /\ v = d)
      BY <1>1, <1>2, <1>7, <1>8, <3>1
    <3>2. CASE ~(o = n \/ (o = d /\ v = d))
      <4>1. /\ Kind(o)' = Kind(o)
            /\ Part(o, 1)' = Part(o, 1) /\ Part(o, 2)' = Part(o, 2)
        BY <1>5, <1>7, <2>2, <3>2 DEF Part
      <4>2. \A a \in Cells : Owns(o, a) => Kind(a)' = Kind(a)
        BY <1>2, <1>7
      <4>3. CASE Kind(o) = "data_t"
        BY <4>1, <4>2, <4>3, CellsAreFinite DEF IInv, PointsInv, Owns
      <4>4. CASE Kind(o) = "entry_t"
        BY <4>1, <4>2, <4>4, CellsAreFinite DEF IInv, PointsInv, Owns
      <4>5. QED
        BY <2>2, <4>1, <4>3, <4>4
    <3>3. QED
      BY <3>1, <3>2
  <2>3. QED
    BY <2>1, <2>2 DEF PointsInv
<1>11. OwnInv'
  <2>1. ASSUME NEW a \in Cells, Kind(a)' \in {"data_t", "entry_t"}, a \notin held'
        PROVE  \E o \in Cells : Owns(o, a)'
    <3>1. CASE a = d /\ v = d
      BY <1>2, <1>9, <3>1
    <3>2. CASE ~(a = d /\ v = d)
      <4>1. Kind(a) = Kind(a)' /\ a \notin held
        BY <1>3, <1>7, <2>1, <3>2
      <4>2. PICK o \in Cells : Owns(o, a)
        BY <2>1, <4>1 DEF IInv, OwnInv
      <4>3. QED
        BY <1>9, <4>2
    <3>3. QED
      BY <3>1, <3>2
  <2>2. \A a \in held', o \in Cells : ~Owns(o, a)'
    BY <1>1, <1>2, <1>3, <1>4, <1>9, CellsAreFinite DEF IInv, OwnInv, HeapTypeOK
  <2>3. \A a, o, r \in Cells : Owns(o, a)' /\ Owns(r, a)' => o = r
    BY <1>1, <1>2, <1>4, <1>9, CellsAreFinite DEF IInv, OwnInv
  <2>4. QED
    BY <2>1, <2>2, <2>3 DEF OwnInv
<1>12. QED
  BY <1>6, <1>10, <1>11 DEF IInv

-----------------------------------------------------------------------------

LEMMA NextInv == IInv /\ [Next]_vars => IInv'
<1>1. IInv /\ UNCHANGED vars => IInv'
  BY DEF vars, IInv, HeapTypeOK, PointsInv, OwnInv, Owns, Kind, Part
<1>2. QED
  BY <1>1, AllocateBytesInv, FreeBytesInv, CreateInv, Create2Inv, DestroyInv,
     ReplaceInv, EntryCreateInv, EntryDestroyInv, EntryDupInv, EntryReplaceInv
     DEF Next

\* Whatever data.c and entry.c are asked for, the blocks in use form a forest
\* that the program holds by its roots.
THEOREM Invariance == Spec => []IInv
<1>1. Init => IInv
  <2>1. ASSUME Init
        PROVE  HeapTypeOK /\ \A a \in Cells : Kind(a) = "unused"
    BY <2>1, ShapeFacts DEF Init, HeapTypeOK, Kind
  <2>2. QED
    BY <2>1 DEF Init, IInv, PointsInv, OwnInv, Owns
<1>2. QED
  BY <1>1, NextInv, PTL DEF Spec

\* Nothing in use points to freed memory or to a block of the wrong kind, after
\* any sequence of the operations of data.c and entry.c.
THEOREM NothingEverDangles == Spec => []NothingDangles
<1>1. IInv => NothingDangles
  BY CellsAreFinite DEF IInv, HeapTypeOK, PointsInv, NothingDangles, Used, Is, Kind
<1>2. QED
  BY <1>1, Invariance, PTL

\* Every block has one owner at most, the program or another block (data.h:27,
\* entry.h:25).
THEOREM OwnersAreUnique == Spec => []OneOwner
<1>1. IInv => OneOwner
  <2>1. SUFFICES ASSUME IInv, NEW a \in Cells
                 PROVE  Cardinality(Owners(a)) + (IF a \in held THEN 1 ELSE 0) <= 1
    BY DEF OneOwner
  <2>2. Owners(a) = {o \in Cells : Owns(o, a)}
    BY <2>1, OwnsItsParts DEF Owners, IInv
  <2>3. CASE Owners(a) = {}
    BY <2>3, FS_EmptySet
  <2>4. ASSUME NEW o \in Cells, Owns(o, a)
        PROVE  a \notin held /\ Owners(a) = {o}
    BY <2>1, <2>2, <2>4 DEF IInv, OwnInv
  <2>5. ASSUME NEW o \in Cells, a \notin held, Owners(a) = {o}
        PROVE  Cardinality(Owners(a)) + (IF a \in held THEN 1 ELSE 0) <= 1
    BY <2>5, FS_Singleton
  <2>6. QED
    BY <2>2, <2>3, <2>4, <2>5
<1>2. QED
  BY <1>1, Invariance, PTL

\* What nobody owns any more is the bytes of a value that was replaced.
THEOREM LeaksAreBytes == Spec => []OnlyBytesLeak
<1>1. IInv => OnlyBytesLeak
  <2>1. SUFFICES ASSUME IInv, NEW a \in Cells, Used(a), a \notin held, Owners(a) = {}
                 PROVE  Is(a, "bytes")
    BY DEF OnlyBytesLeak
  <2>2. \A o \in Cells : ~Owns(o, a)
    BY <2>1, OwnsItsParts DEF Owners, IInv
  <2>3. Kind(a) \in {"unused", "bytes", "data_t", "entry_t"}
    BY <2>1, Typed, ShapeFacts DEF IInv, Kind
  <2>4. QED
    BY <2>1, <2>2, <2>3, CellsAreFinite DEF IInv, OwnInv, Used, Is, Kind
<1>2. QED
  BY <1>1, Invariance, PTL

\* Only the steps that free something make a used block unused.
LEMMA NothingFreed ==
  ASSUME HeapTypeOK, NEW a \in Cells, Used(a),
         \/ AllocateBytes \/ data_create
         \/ \E v \in Values :
              data_dup(v) \/ \E b \in held \cup {NULL} : data_replace(v, b)
         \/ \E b \in held : data_create2(b) \/ entry_dup(b)
         \/ \E k \in held, v \in held \cup {NULL} : entry_create(k, v)
  PROVE  Used(a)'
<1>1. block \in [Cells -> Shapes]
  BY DEF HeapTypeOK
<1>2. CASE AllocateBytes \/ data_create \/ \E b \in held : data_create2(b)
  BY <1>1, <1>2, ShapeFacts DEF AllocateBytes, data_create, data_create2, Used
<1>3. CASE \E v \in Values :
             data_dup(v) \/ \E b \in held \cup {NULL} : data_replace(v, b)
  BY <1>1, <1>3, ShapeFacts DEF data_dup, Copy, data_replace, Used
<1>4. CASE \E e \in held : entry_dup(e)
  BY <1>1, <1>4, ShapeFacts DEF entry_dup, Copy, Used
<1>5. CASE \E k \in held, v \in held \cup {NULL} : entry_create(k, v)
  BY <1>1, <1>5, ShapeFacts DEF entry_create, Used
<1>6. QED
  BY <1>2, <1>3, <1>4, <1>5

\* What is destroyed takes all it owns with it (data.h:22, entry.h:21).
THEOREM DestroysAll == Spec => DestroyTakesAll
<1> DEFINE Takes(a) == \A b \in Parts(a) : ~Used(b)' /\ \A c \in Parts(b) : ~Used(c)'
<1>1. ASSUME IInv, Next, NEW a \in held, Used(a), ~Used(a)'
      PROVE  Takes(a)
  <2>1. a \in Cells /\ a # NULL /\ HeapTypeOK
    BY <1>1, HeldBlock DEF IInv
  <2>2. \A o \in Cells : \A b : b \in Parts(o) <=> Owns(o, b)
    BY <2>1, OwnsItsParts
  <2>3. ASSUME NEW S \in SUBSET (Cells \cup {NULL}), block' = Freed(S)
        PROVE  a \in S /\ \A b \in S \ {NULL} : ~Used(b)'
    BY <1>1, <2>1, <2>3, ShapeFacts DEF Freed, Used
  <2>4. CASE FreeBytes(a)
    BY <2>1, <2>2, <2>4 DEF FreeBytes, Is, Owns, Kind
  <2>5. ASSUME NEW b \in held, FreeBytes(b)
        PROVE  Takes(a)
    <3>1. b \in Cells /\ block' = Freed({b})
      BY <2>5, <1>1, HeldBlock DEF FreeBytes
    <3>2. a = b
      BY <2>3, <3>1
    <3>3. QED
      BY <2>4, <2>5, <3>2
  <2>6. ASSUME NEW d \in held, data_destroy(d)
        PROVE  Takes(a)
    <3>1. /\ d \in Cells /\ d # NULL /\ Kind(d) = "data_t"
          /\ block' = Freed({d, Part(d, 1)})
      BY <1>1, <2>6, HeldBlock DEF data_destroy, DestroyedBy, Is, Kind
    <3>2. PICK b \in Cells \cup {NULL} :
            b = Part(d, 1) /\ (b # NULL => Kind(b) = "bytes" /\ Owns(d, b))
      BY <1>1, <3>1, CellsAreFinite DEF IInv, PointsInv, Owns
    <3>3. b \notin held
      BY <1>1, <3>1, <3>2, HeldBlock, CellsAreFinite DEF IInv, HeapTypeOK
    <3>4. a = d /\ (b # NULL => ~Used(b)')
      <4>1. {d, b} \in SUBSET (Cells \cup {NULL}) /\ block' = Freed({d, b})
        BY <3>1, <3>2
      <4>2. a \in {d, b} /\ \A x \in {d, b} \ {NULL} : ~Used(x)'
        BY <2>3, <4>1
      <4>3. QED
        BY <1>1, <3>3, <4>2
    <3>5. \A c : c \in Parts(a) => c = b /\ b # NULL
      BY <2>2, <3>1, <3>2, <3>4 DEF Owns
    <3>6. b # NULL => \A c : c \notin Parts(b)
      BY <2>2, <3>2 DEF Owns
    <3>7. QED
      BY <3>4, <3>5, <3>6
  <2>7. ASSUME NEW e \in held, entry_destroy(e)
        PROVE  Takes(a)
    <3>1. /\ Kind(e) = "entry_t"
          /\ block' = Freed({e, Part(e, 1)} \cup DestroyedBy(Part(e, 2)))
      BY <2>7 DEF entry_destroy, DestroysAs, Is, Kind
    <3>2. PICK k \in Cells, v \in Cells \cup {NULL} :
            /\ k = Part(e, 1) /\ v = Part(e, 2)
            /\ e \in Cells /\ k # NULL /\ k \notin held /\ Kind(k) = "bytes"
            /\ v # NULL =>
                 /\ v \notin held /\ Kind(v) = "data_t"
                 /\ Part(v, 1) = NULL \/ (Part(v, 1) \in Cells /\ Part(v, 1) \notin held
                                            /\ Kind(Part(v, 1)) = "bytes")
      BY <1>1, <3>1, EntryBlocks, CellsAreFinite
    <3> DEFINE S == {e, k} \cup DestroyedBy(v)
    <3>3. a = e /\ \A x \in S \ {NULL} : ~Used(x)'
      <4>1. S \in SUBSET (Cells \cup {NULL}) /\ block' = Freed(S)
        BY <3>1, <3>2 DEF DestroyedBy
      <4>2. S \cap held \subseteq {e}
        BY <1>1, <3>2, CellsAreFinite DEF DestroyedBy, IInv, HeapTypeOK
      <4> HIDE DEF S
      <4>3. a \in S /\ \A x \in S \ {NULL} : ~Used(x)'
        BY <2>3, <4>1
      <4>4. QED
        BY <1>1, <4>2, <4>3
    <3>4. \A c : c \in Parts(a) => c = k \/ (c = v /\ v # NULL)
      BY <2>2, <3>1, <3>2, <3>3 DEF Owns
    <3>5. \A c : c \notin Parts(k)
      BY <2>2, <3>2 DEF Owns
    <3>6. v # NULL => \A c : c \in Parts(v) => c = Part(v, 1) /\ c # NULL
      BY <2>2, <3>2 DEF Owns
    <3>7. k \in S /\ (v # NULL => v \in S /\ Part(v, 1) \in S)
      BY DEF DestroyedBy
    <3> HIDE DEF S
    <3>8. QED
      BY <3>2, <3>3, <3>4, <3>5, <3>6, <3>7, CellsAreFinite
  <2>8. ASSUME NEW e \in held, NEW k \in held, NEW v \in held \cup {NULL},
               entry_replace(e, k, v)
        PROVE  FALSE
    <3>1. /\ Kind(e) = "entry_t"
          /\ block' = [Freed({Part(e, 1), Part(e, 2)}) EXCEPT ![e] = Entry(k, v)]
      BY <2>8 DEF entry_replace, ReplacesAs, Is, Kind
    <3>2. a \notin {Part(e, 1), Part(e, 2)}
      BY <1>1, <2>1, <3>1, EntryBlocks
    <3>3. QED
      BY <1>1, <2>1, <3>1, <3>2, ShapeFacts DEF Freed, Used
  <2>9. QED
    BY <1>1, <2>1, <2>5, <2>6, <2>7, <2>8, NothingFreed DEF Next
<1>2. IInv /\ [Next]_vars => [\A a \in held : Used(a) /\ ~Used(a)' => Takes(a)]_vars
  BY <1>1
<1>3. QED
  BY <1>2, Invariance, PTL DEF Spec, DestroyTakesAll

=============================================================================
