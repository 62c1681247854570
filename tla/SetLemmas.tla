------------------------------ MODULE SetLemmas ------------------------------
(***************************************************************************)
(* Facts about sets of naturals and about counting, for the proofs of      *)
(* several components.                                                     *)
(***************************************************************************)
EXTENDS Integers, FiniteSets, FiniteSetTheorems, WellFoundedInduction, TLAPS

\* Every nonempty set of naturals has a smallest element.
LEMMA SmallestOf ==
  ASSUME NEW S, S \subseteq Nat, S # {}
  PROVE  \E m \in S : \A n \in S : m <= n
<1>1. PICK m \in S : \A n \in S : ~ (<<n, m>> \in OpToRel(<, Nat))
  BY NatLessThanWellFounded, WFMin
<1>2. \A n \in S : ~ (n < m)
  BY <1>1 DEF OpToRel
<1> QED
  BY <1>2

\* The number of elements with a property, when one element changes.
LEMMA CountAfterChange ==
  ASSUME NEW S, IsFiniteSet(S), NEW F \in SUBSET S, NEW G \in SUBSET S, NEW x \in S,
         \A y \in S : y # x => (y \in G <=> y \in F)
  PROVE  /\ Cardinality(F) \in Nat /\ Cardinality(G) \in Nat
         /\ Cardinality(G) = Cardinality(F) + (IF x \in G THEN 1 ELSE 0)
                                            - (IF x \in F THEN 1 ELSE 0)
<1> DEFINE R == F \ {x}
<1>1. IsFiniteSet(F) /\ IsFiniteSet(G) /\ IsFiniteSet(R)
  BY FS_Subset
<1>2. Cardinality(F) \in Nat /\ Cardinality(G) \in Nat /\ Cardinality(R) \in Nat
  BY <1>1, FS_CardinalityType
<1>3. /\ F = IF x \in F THEN R \cup {x} ELSE R
      /\ G = IF x \in G THEN R \cup {x} ELSE R
      /\ x \notin R
  OBVIOUS
<1> HIDE DEF R
<1>4. Cardinality(R \cup {x}) = Cardinality(R) + 1
  BY <1>1, <1>3, FS_AddElement
<1> QED
  BY <1>2, <1>3, <1>4

\* The same, the conclusion under one name.
MemberMoves(F, G, x) ==
  /\ Cardinality(F) \in Nat /\ Cardinality(G) \in Nat
  /\ Cardinality(G) = Cardinality(F) + (IF x \in G THEN 1 ELSE 0)
                                     - (IF x \in F THEN 1 ELSE 0)

LEMMA CountOfMembers ==
  ASSUME NEW S, IsFiniteSet(S), NEW F \in SUBSET S, NEW G \in SUBSET S, NEW x \in S,
         \A y \in S : y # x => (y \in G <=> y \in F)
  PROVE  MemberMoves(F, G, x)
  BY CountAfterChange DEF MemberMoves

\* The places of a function that have the value k.
Places(S, f, k) == {y \in S : f[y] = k}

\* g has the value k at one place more, one less or as many as f, by what
\* both have at x.
CountMoves(S, f, g, x, k) ==
  /\ Cardinality(Places(S, f, k)) \in Nat
  /\ Cardinality(Places(S, g, k)) \in Nat
  /\ Cardinality(Places(S, g, k))
       = Cardinality(Places(S, f, k)) + (IF g[x] = k THEN 1 ELSE 0)
                                      - (IF f[x] = k THEN 1 ELSE 0)

LEMMA CountOfValue ==
  ASSUME NEW S, IsFiniteSet(S), NEW f, NEW g, NEW x \in S, NEW k,
         \A y \in S : y # x => g[y] = f[y]
  PROVE  CountMoves(S, f, g, x, k)
<1>1. PICK F : F = Places(S, f, k)
  OBVIOUS
<1>2. PICK G : G = Places(S, g, k)
  OBVIOUS
<1>3. /\ F \in SUBSET S /\ G \in SUBSET S
      /\ \A y \in S : y # x => (y \in G <=> y \in F)
      /\ x \in F <=> f[x] = k
      /\ x \in G <=> g[x] = k
  BY <1>1, <1>2 DEF Places
<1>4. /\ Cardinality(F) \in Nat /\ Cardinality(G) \in Nat
      /\ Cardinality(G) = Cardinality(F) + (IF x \in G THEN 1 ELSE 0)
                                         - (IF x \in F THEN 1 ELSE 0)
  BY <1>3, CountAfterChange
<1> QED
  BY <1>1, <1>2, <1>3, <1>4 DEF CountMoves
==============================================================================
