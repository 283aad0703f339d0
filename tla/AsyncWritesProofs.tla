--------------------------- MODULE AsyncWritesProofs ---------------------------
(***************************************************************************)
(* How wrong the certificate of AsyncWrites can be, for every Width.       *)
(***************************************************************************)
EXTENDS AsyncWrites, FiniteSetTheorems, TLAPS

\* Every executed write has overtaken fewer than Width others.
OvertakingInv == \A n \in executed : Cardinality(Overtaken(n)) < Width

\* A write that is executed later only takes numbers away from Overtaken(n).
LEMMA OvertakenShrinks ==
  ASSUME NEW n \in Nat, executed \subseteq executed'
  PROVE  /\ IsFiniteSet(Overtaken(n))
         /\ Cardinality(Overtaken(n)') <= Cardinality(Overtaken(n))
         /\ Cardinality(Overtaken(n)) \in Nat /\ Cardinality(Overtaken(n)') \in Nat
<1>1. IsFiniteSet(1 .. n - 1)
  BY FS_Interval
<1>2. Overtaken(n) \subseteq 1 .. n - 1
  BY DEF Overtaken
<1>3. IsFiniteSet(Overtaken(n))
  BY <1>1, <1>2, FS_Subset
<1>4. Overtaken(n)' \subseteq Overtaken(n)
  BY DEF Overtaken
<1>5. QED
  BY <1>3, <1>4, FS_Subset, FS_CardinalityType

LEMMA InitInv ==
  ASSUME Init
  PROVE  TypeOK /\ OvertakingInv
  BY WidthAssumption DEF Init, TypeOK, OvertakingInv, WidthAssumption

LEMMA StepInv ==
  ASSUME TypeOK, OvertakingInv, [Next]_writeVars
  PROVE  TypeOK' /\ OvertakingInv'
<1>1. MaxIssued \in Nat /\ Width \in Nat
  BY WidthAssumption DEF WidthAssumption
<1>2. issued \in Nat /\ executed \subseteq 1 .. issued /\ executed \subseteq Nat
  BY <1>1 DEF TypeOK
<1>3. CASE UNCHANGED writeVars
  BY <1>3 DEF writeVars, TypeOK, OvertakingInv, Overtaken
<1>4. CASE Issue
  <2>1. TypeOK'
    BY <1>1, <1>2, <1>4 DEF TypeOK, Issue
  <2>2. OvertakingInv'
    BY <1>4 DEF OvertakingInv, Overtaken, Issue
  <2>3. QED
    BY <2>1, <2>2
<1>5. ASSUME NEW n \in 1 .. issued, Execute(n)
      PROVE  TypeOK' /\ OvertakingInv'
  <2>1. /\ executed' = executed \cup {n}
        /\ Cardinality(Overtaken(n)) < Width
        /\ UNCHANGED <<issued, certified>>
    BY <1>5 DEF Execute
  <2>2. TypeOK'
    BY <1>5, <2>1 DEF TypeOK
  <2>3. ASSUME NEW m \in executed'
        PROVE  Cardinality(Overtaken(m)') < Width
    <3>1. m \in Nat /\ executed \subseteq executed'
      BY <1>2, <1>5, <2>1
    <3>2. Cardinality(Overtaken(m)) < Width
      BY <2>1 DEF OvertakingInv
    <3>3. QED
      BY <1>1, <3>1, <3>2, OvertakenShrinks
  <2>4. QED
    BY <2>2, <2>3 DEF OvertakingInv
<1>6. ASSUME NEW n \in 1 .. issued, Certify(n)
      PROVE  TypeOK' /\ OvertakingInv'
  BY <1>6 DEF Certify, TypeOK, OvertakingInv, Overtaken
<1>7. QED
  BY <1>3, <1>4, <1>5, <1>6 DEF Next

\* Every write keeps its type, and a certified number is ahead of few that were
\* not executed.
THEOREM Invariance == Spec => [](TypeOK /\ OvertakingInv)
<1>1. Init => TypeOK /\ OvertakingInv
  BY InitInv
<1>2. TypeOK /\ OvertakingInv /\ [Next]_writeVars => TypeOK' /\ OvertakingInv'
  BY StepInv
<1>3. QED
  BY <1>1, <1>2, PTL DEF Spec

\* The certificate is an executed write or 0, and it vouches for itself and
\* for what it has overtaken.
LEMMA FewOverclaimed ==
  ASSUME TypeOK, OvertakingInv
  PROVE  OverclaimBounded
<1>1. Width \in Nat \ {0}
  BY WidthAssumption DEF WidthAssumption
<1>2. CASE certified = 0
  <2>1. {m \in 1 .. certified : m \notin executed} = {}
    BY <1>2
  <2>2. QED
    BY <1>1, <2>1, FS_EmptySet DEF OverclaimBounded
<1>3. CASE certified \in executed
  <2>1. certified \in Nat
    BY <1>3, WidthAssumption DEF TypeOK, WidthAssumption
  <2>2. {m \in 1 .. certified : m \notin executed} = Overtaken(certified)
    BY <1>3, <2>1 DEF Overtaken
  <2>3. Cardinality(Overtaken(certified)) < Width
    BY <1>3 DEF OvertakingInv
  <2>4. QED
    BY <2>2, <2>3 DEF OverclaimBounded
<1>4. QED
  BY <1>2, <1>3 DEF TypeOK

\* The certificate vouches for fewer than Width writes that were not executed.
THEOREM OverclaimIsBounded == Spec => []OverclaimBounded
<1>1. TypeOK /\ OvertakingInv => OverclaimBounded
  BY FewOverclaimed
<1>2. QED
  BY <1>1, Invariance, PTL

=============================================================================
