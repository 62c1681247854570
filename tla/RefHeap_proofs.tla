---------------------------- MODULE RefHeap_proofs ----------------------------
(***************************************************************************)
(* Proofs about reference counts and the cycle collector, for every number *)
(* of objects and slots: counts are exact, nothing in use is freed, and    *)
(* trial deletion finds the garbage.                                       *)
(***************************************************************************)
EXTENDS RefHeap, SetLemmas, SequenceTheorems

\* The slots of a heap: every object within its width.
HeapType(s) ==
  /\ s \in [Objects -> Seq(Objects \union {Nil})]
  /\ \A o \in Objects : Len(s[o]) <= Width[o]

Balanced ==
  /\ \A o \in alive : rc[o] = roots[o] + RefCount(slots, alive, o) /\ rc[o] > 0
  /\ \A o \in Objects \ alive : roots[o] = 0

\* Objects refer to live ones, and freed ones to nothing.
Linked ==
  /\ \A o \in alive : Children(slots, o) \subseteq alive
  /\ \A o \in Objects \ alive : slots[o] = <<>>

\* The other thread holds a reference of the object it updates.
OtherHolds == other # NoUpdate => other.obj \in alive /\ roots[other.obj] > 0

IInv ==
  /\ TypeOK /\ HeapType(slots)
  /\ lost \/ (Balanced /\ Linked /\ OtherHolds)
-----------------------------------------------------------------------------
(***************************************************************************)
(* Occurrences of a value in a sequence.                                   *)
(***************************************************************************)
Occurs(t, o) == Cardinality({i \in DOMAIN t : t[i] = o})

LEMMA SeqFacts ==
  ASSUME NEW S, NEW t \in Seq(S)
  PROVE  Len(t) \in Nat /\ DOMAIN t = 1..Len(t) /\ \A i \in 1..Len(t) : t[i] \in S
BY LenProperties, ElementOfSeq

LEMMA OccursType ==
  ASSUME NEW S, NEW t \in Seq(S), NEW o
  PROVE  /\ IsFiniteSet({i \in DOMAIN t : t[i] = o})
         /\ Occurs(t, o) \in Nat
         /\ Occurs(t, o) > 0 <=> \E i \in DOMAIN t : t[i] = o
<1>1. Len(t) \in Nat /\ DOMAIN t = 1..Len(t)
  BY SeqFacts
<1>2. IsFiniteSet(DOMAIN t)
  BY <1>1, FS_Interval
<1>3. PICK P : P = {i \in DOMAIN t : t[i] = o}
  OBVIOUS
<1>4. P \in SUBSET DOMAIN t
  BY <1>3
<1>5. IsFiniteSet(P) /\ Cardinality(P) \in Nat /\ (Cardinality(P) = 0 <=> P = {})
  BY <1>2, <1>4, FS_Subset, FS_CardinalityType, FS_EmptySet
<1>6. P # {} <=> \E i \in DOMAIN t : t[i] = o
  BY <1>3
<1>7. Occurs(t, o) = Cardinality(P)
  BY <1>3 DEF Occurs
<1> QED
  BY <1>3, <1>5, <1>6, <1>7

One(a, b) == IF a = b THEN 1 ELSE 0

\* A slot is overwritten.
StoreMoves(t, u, i, v, o) == Occurs(u, o) = Occurs(t, o) + One(v, o) - One(t[i], o)

LEMMA OccursStore ==
  ASSUME NEW S, NEW t \in Seq(S), NEW i \in DOMAIN t, NEW v \in S, NEW o
  PROVE  StoreMoves(t, [t EXCEPT ![i] = v], i, v, o)
<1>1. PICK u : u = [t EXCEPT ![i] = v]
  OBVIOUS
<1>2. IsFiniteSet(DOMAIN t) /\ DOMAIN u = DOMAIN t /\ u[i] = v
  BY <1>1, SeqFacts, FS_Interval
<1>3. \A k \in DOMAIN t : k # i => u[k] = t[k]
  BY <1>1
<1>4. CountMoves(DOMAIN t, t, u, i, o)
  BY <1>2, <1>3, CountOfValue
<1>5. Occurs(t, o) = Cardinality(Places(DOMAIN t, t, o))
      /\ Occurs(u, o) = Cardinality(Places(DOMAIN t, u, o))
  BY <1>2 DEF Occurs, Places
<1>6. Occurs(u, o) = Occurs(t, o) + One(v, o) - One(t[i], o)
  BY <1>2, <1>4, <1>5 DEF CountMoves, One
<1> QED
  BY <1>1, <1>6 DEF StoreMoves

\* t is u with one more element, at i.
Inserted(t, u, i) ==
  /\ Len(t) = Len(u) + 1 /\ i \in 1..Len(t)
  /\ \A k \in 1..Len(u) : u[k] = IF k < i THEN t[k] ELSE t[k + 1]

LEMMA OccursInserted ==
  ASSUME NEW S, NEW t \in Seq(S), NEW u \in Seq(S), NEW i, Inserted(t, u, i), NEW o
  PROVE  Occurs(t, o) = Occurs(u, o) + One(t[i], o)
<1>1. PICK n : n = Len(u)
  OBVIOUS
<1>2. n \in Nat /\ DOMAIN u = 1..n /\ DOMAIN t = 1..(n + 1) /\ i \in 1..(n + 1)
  BY <1>1, SeqFacts DEF Inserted
<1>3. \A k \in 1..n : u[k] = IF k < i THEN t[k] ELSE t[k + 1]
  BY <1>1 DEF Inserted
<1>4. PICK P : P = {k \in 1..n : u[k] = o}
  OBVIOUS
<1>5. PICK Q : Q = {k \in 1..(n + 1) : t[k] = o}
  OBVIOUS
<1>6. Occurs(u, o) = Cardinality(P) /\ Occurs(t, o) = Cardinality(Q)
  BY <1>2, <1>4, <1>5 DEF Occurs
<1>7. IsFiniteSet(P) /\ IsFiniteSet(Q) /\ Cardinality(P) \in Nat /\ Cardinality(Q) \in Nat
  <2>1. IsFiniteSet(1..n) /\ IsFiniteSet(1..(n + 1))
    BY <1>2, FS_Interval
  <2>2. IsFiniteSet(P) /\ IsFiniteSet(Q)
    BY <1>4, <1>5, <2>1, FS_Subset
  <2> QED
    BY <2>2, FS_CardinalityType
<1>8. PICK f : f = [k \in P |-> IF k < i THEN k ELSE k + 1]
  OBVIOUS
<1>9. f \in [P -> Q \ {i}]
  BY <1>2, <1>3, <1>4, <1>5, <1>8
<1>10. \A k, l \in P : f[k] = f[l] => k = l
  BY <1>2, <1>4, <1>8
<1>11. \A q \in Q \ {i} : \E k \in P : f[k] = q
  <2> SUFFICES ASSUME NEW q \in Q \ {i} PROVE \E k \in P : f[k] = q
    OBVIOUS
  <2>1. CASE q < i
    <3>1. q \in 1..n /\ u[q] = t[q]
      BY <1>2, <1>3, <1>5, <2>1
    <3>2. q \in P
      BY <1>4, <1>5, <3>1
    <3> QED
      BY <1>8, <2>1, <3>2
  <2>2. CASE ~(q < i)
    <3>1. q - 1 \in 1..n /\ ~(q - 1 < i) /\ (q - 1) + 1 = q
      BY <1>2, <1>5, <2>2
    <3>2. q - 1 \in P
      BY <1>3, <1>4, <1>5, <3>1
    <3> QED
      BY <1>8, <3>1, <3>2
  <2> QED
    BY <2>1, <2>2
<1>12. ExistsBijection(P, Q \ {i})
  BY <1>9, <1>10, <1>11 DEF ExistsBijection, Bijection, Injection, Surjection, IsInjective
<1>13. Cardinality(Q \ {i}) = Cardinality(P)
  BY <1>7, <1>12, FS_Bijection
<1>14. Cardinality(Q \ {i}) = IF i \in Q THEN Cardinality(Q) - 1 ELSE Cardinality(Q)
  BY <1>7, FS_RemoveElement
<1>15. i \in Q <=> t[i] = o
  BY <1>2, <1>5
<1> QED
  BY <1>6, <1>7, <1>13, <1>14, <1>15 DEF One

\* Two pieces of a sequence of n elements, which leave out the one at i.
Pieces(t, n, i, a, b) ==
  /\ Len(a) = i - 1 /\ \A k \in 1..(i - 1) : a[k] = t[k]
  /\ Len(b) = n - i /\ \A k \in 1..(n - i) : b[k] = t[i + k]

Concatenated(u, a, b) ==
  /\ Len(u) = Len(a) + Len(b)
  /\ \A k \in 1..(Len(a) + Len(b)) : u[k] = IF k <= Len(a) THEN a[k] ELSE b[k - Len(a)]

LEMMA ConcatMakes ==
  ASSUME NEW S, NEW a \in Seq(S), NEW b \in Seq(S)
  PROVE  a \o b \in Seq(S) /\ Concatenated(a \o b, a, b)
BY ConcatProperties DEF Concatenated

Lacks(u, t, n, i) ==
  /\ Len(u) = n - 1
  /\ \A k \in 1..(n - 1) : u[k] = IF k < i THEN t[k] ELSE t[k + 1]

LEMMA PiecesMake ==
  ASSUME NEW t, NEW u, NEW a, NEW b, NEW n \in Nat, NEW i \in Nat, 1 <= i, i <= n,
         Pieces(t, n, i, a, b), Concatenated(u, a, b)
  PROVE  Lacks(u, t, n, i)
<1>1. Len(u) = n - 1 /\ \A k \in 1..(n - 1) : u[k] = IF k <= i - 1 THEN a[k] ELSE b[k - (i - 1)]
  <2>1. (i - 1) + (n - i) = n - 1
    OBVIOUS
  <2> QED
    BY <2>1 DEF Pieces, Concatenated
<1>2. ASSUME NEW k \in 1..(n - 1) PROVE u[k] = IF k < i THEN t[k] ELSE t[k + 1]
  <2>1. CASE k < i
    <3>1. k <= i - 1 /\ k \in 1..(i - 1)
      BY <2>1
    <3> QED
      BY <1>1, <2>1, <3>1 DEF Pieces
  <2>2. CASE ~(k < i)
    <3>1. ~(k <= i - 1) /\ k - (i - 1) \in 1..(n - i) /\ i + (k - (i - 1)) = k + 1
      BY <2>2
    <3>2. b[k - (i - 1)] = t[k + 1]
      BY <3>1 DEF Pieces
    <3> QED
      BY <1>1, <2>2, <3>1, <3>2
  <2> QED
    BY <2>1, <2>2
<1> QED
  BY <1>1, <1>2 DEF Lacks

\* s is the piece of t from l to h.
Piece(S, s, t, l, h) ==
  /\ s \in Seq(S) /\ Len(s) = h - l + 1
  /\ \A k \in 1..(h - l + 1) : s[k] = t[l + k - 1]

LEMMA PieceOf ==
  ASSUME NEW S, NEW t, NEW l \in Nat \ {0}, NEW h \in Int, h >= l - 1,
         \A k \in l..h : t[k] \in S
  PROVE  Piece(S, SubSeq(t, l, h), t, l, h)
<1>1. PICK s : s = SubSeq(t, l, h)
  OBVIOUS
<1>2. /\ s \in Seq(S) /\ Len(s) = IF l <= h THEN h - l + 1 ELSE 0
      /\ \A k \in 1..(h - l + 1) : s[k] = t[l + k - 1]
  BY <1>1, SubSeqProperties
<1>3. Len(s) = h - l + 1
  BY <1>2
<1>4. Piece(S, s, t, l, h)
  BY <1>2, <1>3 DEF Piece
<1> QED
  BY <1>1, <1>4

\* remove_at
WithoutItem(S, t, u, i) == u \in Seq(S) /\ Inserted(t, u, i)

LEMMA RemoveMakes ==
  ASSUME NEW S, NEW t \in Seq(S), NEW i \in DOMAIN t
  PROVE  WithoutItem(S, t, SubSeq(t, 1, i - 1) \o SubSeq(t, i + 1, Len(t)), i)
<1>1. PICK n \in Nat : n = Len(t)
  BY SeqFacts
<1>2. i \in Nat /\ 1 <= i /\ i <= n /\ \A k \in 1..n : t[k] \in S
  BY <1>1, SeqFacts
<1>3. PICK a : a = SubSeq(t, 1, i - 1)
  OBVIOUS
<1>4. PICK b : b = SubSeq(t, i + 1, n)
  OBVIOUS
<1>5. a \in Seq(S) /\ Len(a) = i - 1 /\ \A k \in 1..(i - 1) : a[k] = t[k]
  <2>1. /\ i - 1 \in Int /\ i - 1 >= 1 - 1 /\ (i - 1) - 1 + 1 = i - 1
        /\ \A k \in 1..(i - 1) : k \in 1..n /\ 1 + k - 1 = k
    BY <1>2
  <2>2. Piece(S, a, t, 1, i - 1)
    BY <1>2, <1>3, <2>1, PieceOf
  <2> QED
    BY <2>1, <2>2 DEF Piece
<1>6. b \in Seq(S) /\ Len(b) = n - i /\ \A k \in 1..(n - i) : b[k] = t[i + k]
  <2>1. /\ i + 1 \in Nat \ {0} /\ n \in Int /\ n >= (i + 1) - 1 /\ n - (i + 1) + 1 = n - i
        /\ \A k \in (i + 1)..n : k \in 1..n
        /\ \A k \in 1..(n - i) : (i + 1) + k - 1 = i + k
    BY <1>2
  <2>2. Piece(S, b, t, i + 1, n)
    BY <1>2, <1>4, <2>1, PieceOf
  <2>3. /\ b \in Seq(S) /\ Len(b) = n - (i + 1) + 1
        /\ \A k \in 1..(n - (i + 1) + 1) : b[k] = t[(i + 1) + k - 1]
    BY <2>2 DEF Piece
  <2> QED
    BY <2>1, <2>3
<1>7. PICK u : u = a \o b
  OBVIOUS
<1>8. u \in Seq(S) /\ Concatenated(u, a, b)
  BY <1>5, <1>6, <1>7, ConcatMakes
<1>9. Pieces(t, n, i, a, b)
  BY <1>5, <1>6 DEF Pieces
<1>10. Len(u) = n - 1 /\ \A k \in 1..(n - 1) : u[k] = IF k < i THEN t[k] ELSE t[k + 1]
  <2>1. Lacks(u, t, n, i)
    BY <1>2, <1>8, <1>9, PiecesMake
  <2> QED
    BY <2>1 DEF Lacks
<1>11. Len(t) = Len(u) + 1 /\ i \in 1..Len(t)
  BY <1>1, <1>2, <1>10
<1>12. Inserted(t, u, i)
  BY <1>10, <1>11 DEF Inserted
<1>13. WithoutItem(S, t, u, i)
  BY <1>8, <1>12 DEF WithoutItem
<1> QED
  BY <1>1, <1>3, <1>4, <1>7, <1>13

\* insert_at
WithItem(S, t, u, i, v) == t \in Seq(S) /\ Inserted(t, u, i) /\ t[i] = v

LEMMA InsertMakes ==
  ASSUME NEW S, NEW u \in Seq(S), NEW v \in S, NEW i \in 1..(Len(u) + 1)
  PROVE  WithItem(S, SubSeq(u, 1, i - 1) \o <<v>> \o SubSeq(u, i, Len(u)), u, i, v)
<1>1. PICK n \in Nat : n = Len(u)
  BY SeqFacts
<1>2. i \in Nat /\ 1 <= i /\ i <= n + 1 /\ \A k \in 1..n : u[k] \in S
  BY <1>1, SeqFacts
<1>3. PICK a : a = SubSeq(u, 1, i - 1)
  OBVIOUS
<1>4. PICK b : b = SubSeq(u, i, n)
  OBVIOUS
<1>5. a \in Seq(S) /\ Len(a) = i - 1 /\ \A k \in 1..(i - 1) : a[k] = u[k]
  <2>1. /\ i - 1 \in Int /\ i - 1 >= 1 - 1 /\ (i - 1) - 1 + 1 = i - 1
        /\ \A k \in 1..(i - 1) : k \in 1..n /\ 1 + k - 1 = k
    BY <1>2
  <2>2. Piece(S, a, u, 1, i - 1)
    BY <1>2, <1>3, <2>1, PieceOf
  <2> QED
    BY <2>1, <2>2 DEF Piece
<1>6. b \in Seq(S) /\ Len(b) = n - i + 1 /\ \A k \in 1..(n - i + 1) : b[k] = u[i + k - 1]
  <2>1. /\ i \in Nat \ {0} /\ n \in Int /\ n >= i - 1
        /\ \A k \in i..n : k \in 1..n
    BY <1>2
  <2>2. Piece(S, b, u, i, n)
    BY <1>2, <1>4, <2>1, PieceOf
  <2> QED
    BY <2>2 DEF Piece
<1>7. PICK c : c = a \o <<v>>
  OBVIOUS
<1>8. <<v>> \in Seq(S) /\ Len(<<v>>) = 1 /\ <<v>>[1] = v
  OBVIOUS
<1>9. c \in Seq(S) /\ Concatenated(c, a, <<v>>)
  BY <1>5, <1>7, <1>8, ConcatMakes
<1>10. Len(c) = i /\ c[i] = v /\ \A k \in 1..(i - 1) : c[k] = u[k]
  <2>1. /\ (i - 1) + 1 = i /\ i \in 1..i /\ ~(i <= i - 1) /\ i - (i - 1) = 1
        /\ \A k \in 1..(i - 1) : k \in 1..i /\ k <= i - 1
    BY <1>2
  <2>2. Len(c) = i /\ \A k \in 1..i : c[k] = IF k <= i - 1 THEN a[k] ELSE <<v>>[k - (i - 1)]
    BY <1>5, <1>8, <1>9, <2>1 DEF Concatenated
  <2> QED
    BY <1>5, <1>8, <2>1, <2>2
<1>11. PICK t : t = c \o b
  OBVIOUS
<1>12. t \in Seq(S) /\ Concatenated(t, c, b)
  BY <1>6, <1>9, <1>11, ConcatMakes
<1>13. Len(t) = n + 1 /\ \A k \in 1..(n + 1) : t[k] = IF k <= i THEN c[k] ELSE b[k - i]
  <2>1. i + (n - i + 1) = n + 1
    BY <1>2
  <2> QED
    BY <1>6, <1>10, <1>12, <2>1 DEF Concatenated
<1>14. t[i] = v
  <2>1. i \in 1..(n + 1) /\ i <= i
    BY <1>2
  <2> QED
    BY <1>10, <1>13, <2>1
<1>15. ASSUME NEW k \in 1..n PROVE u[k] = IF k < i THEN t[k] ELSE t[k + 1]
  <2>1. CASE k < i
    <3>1. k \in 1..(n + 1) /\ k <= i /\ k \in 1..(i - 1)
      BY <1>2, <2>1
    <3> QED
      BY <1>10, <1>13, <2>1, <3>1
  <2>2. CASE ~(k < i)
    <3>1. k + 1 \in 1..(n + 1) /\ ~(k + 1 <= i) /\ (k + 1) - i \in 1..(n - i + 1)
          /\ i + ((k + 1) - i) - 1 = k
      BY <1>2, <2>2
    <3>2. b[(k + 1) - i] = u[k]
      BY <1>6, <3>1
    <3> QED
      BY <1>13, <2>2, <3>1, <3>2
  <2> QED
    BY <2>1, <2>2
<1>16. Len(t) = Len(u) + 1 /\ i \in 1..Len(t)
  BY <1>1, <1>2, <1>13
<1>17. Inserted(t, u, i)
  BY <1>1, <1>15, <1>16 DEF Inserted
<1>18. WithItem(S, t, u, i, v)
  BY <1>12, <1>14, <1>17 DEF WithItem
<1> QED
  BY <1>1, <1>3, <1>4, <1>7, <1>11, <1>18
-----------------------------------------------------------------------------
(***************************************************************************)
(* References between objects.                                             *)
(***************************************************************************)
LEMMA PositionsFinite == IsFiniteSet(Positions)
<1>1. PICK f : f = [o \in Objects |-> 1..Width[o]]
  OBVIOUS
<1>2. PICK T : T = {1..Width[o] : o \in Objects}
  OBVIOUS
<1>3. f \in Surjection(Objects, T)
  BY <1>1, <1>2 DEF Surjection
<1>4. IsFiniteSet(T)
  BY <1>3, FS_Surjection, RefHeapAssumption
<1>5. \A X \in T : IsFiniteSet(X)
  <2> SUFFICES ASSUME NEW o \in Objects PROVE IsFiniteSet(1..Width[o])
    BY <1>2
  <2>1. Width[o] \in Int /\ 1 \in Int
    BY RefHeapAssumption
  <2> QED
    BY <2>1, FS_Interval
<1> QED
  BY <1>2, <1>4, <1>5, FS_UNION DEF Positions

LEMMA RefsType ==
  ASSUME NEW s, NEW A \in SUBSET Objects, NEW o
  PROVE  /\ IsFiniteSet(Refs(s, A, o)) /\ RefCount(s, A, o) \in Nat
         /\ RefCount(s, A, o) = 0 <=> Refs(s, A, o) = {}
<1>1. IsFiniteSet(A)
  BY RefHeapAssumption, FS_Subset
<1>2. IsFiniteSet(A \X Positions)
  BY <1>1, PositionsFinite, FS_Product
<1>3. PICK P : P = Refs(s, A, o)
  OBVIOUS
<1>4. P \in SUBSET (A \X Positions)
  BY <1>3 DEF Refs
<1>5. IsFiniteSet(P)
  BY <1>2, <1>4, FS_Subset
<1> QED
  BY <1>3, <1>5, FS_CardinalityType, FS_EmptySet DEF RefCount

LEMMA RefsSplit ==
  ASSUME NEW s, NEW A \in SUBSET Objects, NEW B \in SUBSET Objects, A \intersect B = {}, NEW o
  PROVE  RefCount(s, A \union B, o) = RefCount(s, A, o) + RefCount(s, B, o)
<1>1. PICK P : P = Refs(s, A, o)
  OBVIOUS
<1>2. PICK Q : Q = Refs(s, B, o)
  OBVIOUS
<1>3. IsFiniteSet(P) /\ IsFiniteSet(Q) /\ Cardinality(P) \in Nat /\ Cardinality(Q) \in Nat
  BY <1>1, <1>2, RefsType DEF RefCount
<1>4. P \intersect Q = {}
  BY <1>1, <1>2 DEF Refs
<1>5. Refs(s, A \union B, o) = P \union Q
  BY <1>1, <1>2 DEF Refs
<1>6. Cardinality(P \union Q) = Cardinality(P) + Cardinality(Q)
  <2>1. Cardinality(P \union Q) = Cardinality(P) + Cardinality(Q) - Cardinality(P \intersect Q)
    BY <1>3, FS_Union
  <2>2. Cardinality(P \intersect Q) = 0
    BY <1>4, FS_EmptySet
  <2> QED
    BY <1>3, <2>1, <2>2
<1> QED
  BY <1>1, <1>2, <1>5, <1>6 DEF RefCount

\* A part of the objects, and the rest.
Parts(s, A, B, o) ==
  /\ RefCount(s, A, o) = RefCount(s, B, o) + RefCount(s, A \ B, o)
  /\ RefCount(s, A, o) \in Nat /\ RefCount(s, B, o) \in Nat
  /\ RefCount(s, A \ B, o) \in Nat

LEMMA RefsRest ==
  ASSUME NEW s, NEW A \in SUBSET Objects, NEW B \in SUBSET A, NEW o
  PROVE  Parts(s, A, B, o)
<1>1. A = B \union (A \ B) /\ B \intersect (A \ B) = {}
      /\ B \in SUBSET Objects /\ A \ B \in SUBSET Objects
  OBVIOUS
<1>2. RefCount(s, B \union (A \ B), o) = RefCount(s, B, o) + RefCount(s, A \ B, o)
  BY <1>1, RefsSplit
<1> QED
  BY <1>1, <1>2, RefsType DEF Parts

LEMMA RefsSame ==
  ASSUME NEW s, NEW t, NEW A, \A p \in A : t[p] = s[p], NEW o
  PROVE  RefCount(t, A, o) = RefCount(s, A, o)
<1>1. Refs(t, A, o) = Refs(s, A, o)
  BY DEF Refs
<1> QED
  BY <1>1 DEF RefCount

LEMMA HeapPositions ==
  ASSUME NEW s, HeapType(s), NEW p \in Objects
  PROVE  /\ s[p] \in Seq(Objects \union {Nil})
         /\ DOMAIN s[p] = 1..Len(s[p]) /\ DOMAIN s[p] \subseteq Positions
         /\ Len(s[p]) \in Nat /\ Len(s[p]) <= Width[p]
<1>1. s[p] \in Seq(Objects \union {Nil}) /\ Len(s[p]) <= Width[p] /\ Width[p] \in Nat
  BY RefHeapAssumption DEF HeapType
<1>2. DOMAIN s[p] = 1..Len(s[p]) /\ Len(s[p]) \in Nat
  BY <1>1, SeqFacts
<1>3. 1..Len(s[p]) \subseteq 1..Width[p]
  BY <1>1, <1>2
<1> QED
  BY <1>1, <1>2, <1>3 DEF Positions

LEMMA RefsOfOne ==
  ASSUME NEW s, HeapType(s), NEW p \in Objects, NEW o
  PROVE  RefCount(s, {p}, o) = Occurs(s[p], o)
<1>1. DOMAIN s[p] \subseteq Positions
  BY HeapPositions
<1>2. PICK I : I = {i \in DOMAIN s[p] : s[p][i] = o}
  OBVIOUS
<1>3. IsFiniteSet(I)
  <2>1. s[p] \in Seq(Objects \union {Nil})
    BY HeapPositions
  <2> QED
    BY <1>2, <2>1, OccursType
<1>4. PICK P : P = Refs(s, {p}, o)
  OBVIOUS
<1>5. PICK f : f = [i \in I |-> <<p, i>>]
  OBVIOUS
<1>6. f \in [I -> P]
  BY <1>1, <1>2, <1>4, <1>5 DEF Refs
<1>7. \A i, j \in I : f[i] = f[j] => i = j
  BY <1>5
<1>8. ASSUME NEW r \in P PROVE \E i \in I : f[i] = r
  <2>1. r \in {p} \X Positions /\ r[2] \in DOMAIN s[r[1]] /\ s[r[1]][r[2]] = o
    BY <1>4 DEF Refs
  <2>2. r = <<p, r[2]>> /\ r[1] = p
    BY <2>1
  <2>3. r[2] \in I
    BY <1>2, <2>1, <2>2
  <2> QED
    BY <1>5, <2>2, <2>3
<1>9. ExistsBijection(I, P)
  BY <1>6, <1>7, <1>8 DEF ExistsBijection, Bijection, Injection, Surjection, IsInjective
<1>10. Cardinality(P) = Cardinality(I)
  BY <1>3, <1>9, FS_Bijection
<1> QED
  BY <1>2, <1>4, <1>10 DEF RefCount, Occurs

\* A count is positive if somebody holds the object.
LEMMA RefsMean ==
  ASSUME NEW s, HeapType(s), NEW A \in SUBSET Objects, NEW o \in Objects
  PROVE  RefCount(s, A, o) > 0 <=> \E p \in A : o \in Children(s, p)
<1>1. RefCount(s, A, o) \in Nat /\ (RefCount(s, A, o) = 0 <=> Refs(s, A, o) = {})
  BY RefsType
<1>2. o # Nil
  BY RefHeapAssumption
<1>3. ASSUME NEW r \in Refs(s, A, o) PROVE \E p \in A : o \in Children(s, p)
  BY <1>2 DEF Refs, Children
<1>4. ASSUME NEW p \in A, o \in Children(s, p) PROVE Refs(s, A, o) # {}
  <2>1. PICK i \in DOMAIN s[p] : s[p][i] = o
    BY <1>4 DEF Children
  <2>2. <<p, i>> \in A \X Positions
    BY <2>1, HeapPositions
  <2>3. <<p, i>> \in Refs(s, A, o)
    BY <2>1, <2>2 DEF Refs
  <2> QED
    BY <2>3
<1> QED
  BY <1>1, <1>3, <1>4

\* The slots of one object change.
Updated(s, t, A, p, o) ==
  /\ RefCount(t, A, o) = RefCount(s, A, o) - Occurs(s[p], o) + Occurs(t[p], o)
  /\ RefCount(t, A, o) \in Nat /\ RefCount(s, A, o) \in Nat
  /\ Occurs(s[p], o) \in Nat /\ Occurs(t[p], o) \in Nat

LEMMA RefsUpdate ==
  ASSUME NEW s, HeapType(s), NEW t, HeapType(t), NEW A \in SUBSET Objects, NEW p \in A,
         \A q \in A : q # p => t[q] = s[q], NEW o
  PROVE  Updated(s, t, A, p, o)
<1>1. {p} \in SUBSET A /\ p \in Objects
  OBVIOUS
<1>2. RefCount(s, A, o) = Occurs(s[p], o) + RefCount(s, A \ {p}, o)
  <2>1. Parts(s, A, {p}, o)
    BY <1>1, RefsRest
  <2>2. RefCount(s, {p}, o) = Occurs(s[p], o)
    BY <1>1, RefsOfOne
  <2> QED
    BY <2>1, <2>2 DEF Parts
<1>3. RefCount(t, A, o) = Occurs(t[p], o) + RefCount(t, A \ {p}, o)
  <2>1. Parts(t, A, {p}, o)
    BY <1>1, RefsRest
  <2>2. RefCount(t, {p}, o) = Occurs(t[p], o)
    BY <1>1, RefsOfOne
  <2> QED
    BY <2>1, <2>2 DEF Parts
<1>4. RefCount(t, A \ {p}, o) = RefCount(s, A \ {p}, o)
  BY RefsSame
<1>5. /\ RefCount(s, A \ {p}, o) \in Nat /\ RefCount(s, A, o) \in Nat /\ RefCount(t, A, o) \in Nat
      /\ Occurs(s[p], o) \in Nat /\ Occurs(t[p], o) \in Nat
  BY <1>1, RefsType, HeapPositions, OccursType
<1> QED
  BY <1>2, <1>3, <1>4, <1>5 DEF Updated

\* If there is room for another root, every count of roots has room.
LEMMA RoomMeans ==
  ASSUME TypeOK, RoomForRoot, NEW o \in Objects
  PROVE  roots[o] < MaxRoots
<1>1. PICK f : f = [p \in Objects |-> {p} \X (1..roots[p])]
  OBVIOUS
<1>2. PICK T : T = {{p} \X (1..roots[p]) : p \in Objects}
  OBVIOUS
<1>3. f \in Surjection(Objects, T)
  BY <1>1, <1>2 DEF Surjection
<1>4. IsFiniteSet(T)
  BY <1>3, FS_Surjection, RefHeapAssumption
<1>5. \A p \in Objects : IsFiniteSet({p} \X (1..roots[p]))
                         /\ Cardinality({p} \X (1..roots[p])) = roots[p]
  <2> SUFFICES ASSUME NEW p \in Objects PROVE IsFiniteSet({p} \X (1..roots[p]))
                         /\ Cardinality({p} \X (1..roots[p])) = roots[p]
    OBVIOUS
  <2>1. PICK r \in Nat : r = roots[p]
    <3>1. roots[p] \in 0..MaxRoots /\ MaxRoots \in Nat
      BY RefHeapAssumption DEF TypeOK
    <3> QED
      BY <3>1
  <2>2. IsFiniteSet(1..roots[p]) /\ Cardinality(1..roots[p]) = roots[p]
    <3>1. IsFiniteSet(1..r) /\ Cardinality(1..r) = IF 1 <= r THEN r - 1 + 1 ELSE 0
      BY FS_Interval
    <3>2. (IF 1 <= r THEN r - 1 + 1 ELSE 0) = r
      OBVIOUS
    <3> QED
      BY <2>1, <3>1, <3>2
  <2>3. IsFiniteSet({p}) /\ Cardinality({p}) = 1
    BY FS_Singleton
  <2>4. IsFiniteSet({p} \X (1..roots[p]))
        /\ Cardinality({p} \X (1..roots[p])) = Cardinality({p}) * Cardinality(1..roots[p])
    BY <2>2, <2>3, FS_Product
  <2> QED
    BY <2>1, <2>2, <2>3, <2>4
<1>6. \A X \in T : IsFiniteSet(X)
  BY <1>2, <1>5
<1>7. IsFiniteSet(RootRefs)
  BY <1>2, <1>4, <1>6, FS_UNION DEF RootRefs
<1>8. {o} \X (1..roots[o]) \in SUBSET RootRefs
  BY DEF RootRefs
<1>9. Cardinality({o} \X (1..roots[o])) <= Cardinality(RootRefs) /\ Cardinality(RootRefs) \in Nat
  BY <1>7, <1>8, FS_Subset, FS_CardinalityType
<1>10. roots[o] \in Int /\ MaxRoots \in Int
  BY RefHeapAssumption DEF TypeOK
<1> QED
  BY <1>5, <1>9, <1>10 DEF RoomForRoot
-----------------------------------------------------------------------------
(***************************************************************************)
(* Reachability: the least closed set.                                     *)
(***************************************************************************)
LEMMA ReachHolds ==
  ASSUME NEW s, NEW from \in SUBSET Objects, NEW within
  PROVE  from \subseteq Reach(s, from, within) /\ Reach(s, from, within) \subseteq Objects
BY DEF Reach

LEMMA ReachLeast ==
  ASSUME NEW s, NEW from, NEW within, NEW X \in SUBSET Objects,
         from \subseteq X, Closed(s, X, within)
  PROVE  Reach(s, from, within) \subseteq X
<1> SUFFICES ASSUME NEW o \in Reach(s, from, within), o \notin X PROVE FALSE
  OBVIOUS
<1>1. X \in SUBSET (Objects \ {o})
  OBVIOUS
<1> QED
  BY <1>1 DEF Reach

\* What is reached and not one of the first is held by something reached.
LEMMA ReachStep ==
  ASSUME NEW s, NEW from \in SUBSET Objects, NEW within, NEW o \in Reach(s, from, within) \ from,
         Closed(s, Reach(s, from, within), within)
  PROVE  \E p \in Reach(s, from, within) : o \in Children(s, p) /\ p # o
<1>1. PICK R : R = Reach(s, from, within)
  OBVIOUS
<1>2. SUFFICES ASSUME \A p \in R : o \in Children(s, p) => p = o PROVE FALSE
  BY <1>1
<1>3. R \ {o} \in SUBSET Objects /\ from \subseteq R \ {o}
  BY <1>1, ReachHolds
<1>4. Closed(s, R \ {o}, within)
  BY <1>1, <1>2 DEF Closed
<1>5. R \subseteq R \ {o}
  BY <1>1, <1>3, <1>4, ReachLeast
<1> QED
  BY <1>1, <1>5

LEMMA ReachClosed ==
  ASSUME NEW s, NEW from, NEW within \in SUBSET Objects
  PROVE  Closed(s, Reach(s, from, within), within)
<1> SUFFICES ASSUME NEW p \in Reach(s, from, within), NEW o \in Children(s, p) \intersect within,
                    o \notin Reach(s, from, within)
             PROVE  FALSE
  BY DEF Closed
<1>1. PICK X \in SUBSET (Objects \ {o}) : from \subseteq X /\ Closed(s, X, within)
  BY DEF Reach
<1>2. Reach(s, from, within) \subseteq X
  BY <1>1, ReachLeast
<1>3. o \in X
  BY <1>1, <1>2 DEF Closed
<1> QED
  BY <1>3
-----------------------------------------------------------------------------
(***************************************************************************)
(* What a release destroys: the least set that empties no other object.    *)
(***************************************************************************)
LEMMA EmptiedGrows ==
  ASSUME NEW c \in [Objects -> Int], NEW s, NEW drops \in [Objects -> Nat],
         NEW Y \in SUBSET Objects, NEW X \in SUBSET Y, NEW p \in Objects,
         Emptied(c, s, drops, X, p)
  PROVE  Emptied(c, s, drops, Y, p)
<1>1. Parts(s, Y, X, p)
  BY RefsRest
<1>2. RefCount(s, X, p) <= RefCount(s, Y, p)
      /\ RefCount(s, X, p) \in Nat /\ RefCount(s, Y, p) \in Nat
  BY <1>1 DEF Parts
<1>3. c[p] \in Int /\ drops[p] \in Nat
  OBVIOUS
<1> QED
  BY <1>2, <1>3 DEF Emptied

LEMMA DestroyedLeast ==
  ASSUME NEW c, NEW s, NEW drops, NEW X \in SUBSET alive,
         \A p \in alive \ X : ~Emptied(c, s, drops, X, p)
  PROVE  Destroyed(c, s, drops) \subseteq X
<1> SUFFICES ASSUME NEW o \in Destroyed(c, s, drops), o \notin X PROVE FALSE
  OBVIOUS
<1>1. X \in SUBSET (alive \ {o})
  OBVIOUS
<1> QED
  BY <1>1 DEF Destroyed

LEMMA DestroyedStable ==
  ASSUME alive \subseteq Objects,
         NEW c \in [Objects -> Int], NEW s, NEW drops \in [Objects -> Nat],
         NEW p \in alive \ Destroyed(c, s, drops)
  PROVE  ~Emptied(c, s, drops, Destroyed(c, s, drops), p)
<1>1. PICK X \in SUBSET (alive \ {p}) : \A q \in alive \ X : ~Emptied(c, s, drops, X, q)
  BY DEF Destroyed
<1>2. Destroyed(c, s, drops) \subseteq X
  BY <1>1, DestroyedLeast
<1>3. ~Emptied(c, s, drops, X, p)
  BY <1>1
<1> QED
  BY <1>1, <1>2, <1>3, EmptiedGrows

LEMMA DestroyedEmptied ==
  ASSUME alive \subseteq Objects,
         NEW c \in [Objects -> Int], NEW s, NEW drops \in [Objects -> Nat],
         NEW o \in Destroyed(c, s, drops)
  PROVE  Emptied(c, s, drops, Destroyed(c, s, drops), o)
<1>1. PICK G : G = Destroyed(c, s, drops)
  OBVIOUS
<1>2. G \subseteq alive /\ G \in SUBSET Objects /\ G \ {o} \in SUBSET alive
  BY <1>1 DEF Destroyed
<1>3. SUFFICES ASSUME ~Emptied(c, s, drops, G, o) PROVE FALSE
  BY <1>1
<1>4. \A p \in alive \ (G \ {o}) : ~Emptied(c, s, drops, G, p)
  BY <1>1, <1>3, DestroyedStable
<1>5. \A p \in alive \ (G \ {o}) : ~Emptied(c, s, drops, G \ {o}, p)
  BY <1>2, <1>4, EmptiedGrows
<1>6. G \subseteq G \ {o}
  BY <1>1, <1>2, <1>5, DestroyedLeast
<1> QED
  BY <1>1, <1>6
-----------------------------------------------------------------------------
(***************************************************************************)
(* A release of references that are owed keeps the heap balanced.          *)
(***************************************************************************)
Typed(c, s, drops) ==
  /\ alive \subseteq Objects
  /\ c \in [Objects -> Int] /\ drops \in [Objects -> Nat] /\ HeapType(s)

TypesAfter ==
  /\ alive' \subseteq alive /\ rc' \in [Objects -> Int] /\ HeapType(slots)'

LEMMA ReleaseTypes ==
  ASSUME NEW c, NEW s, NEW drops, Typed(c, s, drops), Release(c, s, drops)
  PROVE  TypesAfter
<1>1. PICK G : G = Destroyed(c, s, drops)
  OBVIOUS
<1>2. G \in SUBSET Objects /\ alive' = alive \ G
  BY <1>1 DEF Release, Destroyed, Typed
<1>3. rc' \in [Objects -> Int]
  <2>1. \A o \in Objects : RefCount(s, G, o) \in Int /\ c[o] \in Int /\ drops[o] \in Int
    BY <1>2, RefsType DEF Typed
  <2>2. \A o \in Objects : c[o] - drops[o] - RefCount(s, G, o) \in Int
    BY <2>1
  <2>3. rc' = [o \in Objects |-> IF o \in G THEN 0 ELSE c[o] - drops[o] - RefCount(s, G, o)]
    BY <1>1 DEF Release
  <2> QED
    BY <2>2, <2>3
<1>4. slots' = [o \in Objects |-> IF o \in G THEN <<>> ELSE s[o]]
  BY <1>1 DEF Release
<1>5. <<>> \in Seq(Objects \union {Nil}) /\ Len(<<>>) = 0 /\ \A o \in Objects : 0 <= Width[o]
  BY RefHeapAssumption
<1>6. HeapType(slots')
  BY <1>4, <1>5 DEF HeapType, Typed
<1> QED
  BY <1>2, <1>3, <1>6 DEF TypesAfter, HeapType

\* Every count is what is held and what is given up, or all of it is given up.
Owes(c, s, drops, r) ==
  /\ r \in [Objects -> Nat] /\ \A o \in Objects \ alive : r[o] = 0
  /\ \A o \in alive : Children(s, o) \subseteq alive
  /\ \A o \in Objects \ alive : s[o] = <<>>
  /\ \A o \in alive :
       \/ c[o] = r[o] + drops[o] + RefCount(s, alive, o) /\ c[o] > 0
       \/ r[o] = 0 /\ RefCount(s, alive, o) = 0 /\ drops[o] > 0 /\ c[o] <= drops[o]

LEMMA ReleaseKeeps ==
  ASSUME NEW c, NEW s, NEW drops, Typed(c, s, drops), Owes(c, s, drops, roots'),
         Release(c, s, drops)
  PROVE  Balanced' /\ Linked' /\ \A o \in alive' : slots'[o] = s[o]
<1>1. PICK G : G = Destroyed(c, s, drops)
  OBVIOUS
<1>2. /\ G \in SUBSET alive /\ G \in SUBSET Objects /\ alive \in SUBSET Objects
      /\ alive' = alive \ G /\ alive' \in SUBSET Objects
  BY <1>1 DEF Release, Destroyed, Typed
<1>3. \A o \in Objects : slots'[o] = IF o \in G THEN <<>> ELSE s[o]
  BY <1>1 DEF Release
<1>4. \A o \in Objects : rc'[o] = IF o \in G THEN 0 ELSE c[o] - drops[o] - RefCount(s, G, o)
  BY <1>1 DEF Release
<1>5. \A o \in alive' : slots'[o] = s[o]
  BY <1>2, <1>3
<1>6. \A o \in Objects : RefCount(slots', alive', o) = RefCount(s, alive', o)
  BY <1>5, RefsSame
<1>7. \A o \in Objects : Parts(s, alive, G, o)
  BY <1>2, RefsRest
<1>8. \A o \in Objects : c[o] \in Int /\ drops[o] \in Nat /\ roots'[o] \in Nat
  BY DEF Typed, Owes
<1>9. ASSUME NEW o \in alive' 
      PROVE  rc'[o] = roots'[o] + RefCount(slots', alive', o) /\ rc'[o] > 0
  <2>1. ~Emptied(c, s, drops, G, o)
    BY <1>1, <1>2, DestroyedStable DEF Typed
  <2>2. /\ RefCount(s, alive, o) = RefCount(s, G, o) + RefCount(s, alive', o)
        /\ RefCount(s, G, o) \in Nat /\ RefCount(s, alive', o) \in Nat
    <3>1. Parts(s, alive, G, o)
      BY <1>2, <1>7
    <3> QED
      BY <1>2, <3>1 DEF Parts
  <2>3. ~(drops[o] + RefCount(s, G, o) > 0 /\ c[o] <= drops[o] + RefCount(s, G, o))
    BY <2>1 DEF Emptied
  <2>4. \/ c[o] = roots'[o] + drops[o] + RefCount(s, alive, o) /\ c[o] > 0
        \/ drops[o] > 0 /\ c[o] <= drops[o]
    BY <1>2 DEF Owes
  <2>5. c[o] \in Int /\ drops[o] \in Nat /\ roots'[o] \in Nat
    BY <1>2, <1>8
  <2>6. c[o] = roots'[o] + drops[o] + RefCount(s, alive, o) /\ c[o] > 0
    BY <2>2, <2>3, <2>4, <2>5
  <2>7. rc'[o] = c[o] - drops[o] - RefCount(s, G, o)
    BY <1>2, <1>4
  <2>8. RefCount(slots', alive', o) = RefCount(s, alive', o)
    BY <1>2, <1>6
  <2> QED
    BY <2>2, <2>3, <2>5, <2>6, <2>7, <2>8
<1>10. ASSUME NEW o \in G PROVE roots'[o] = 0 /\ RefCount(s, alive', o) = 0
  <2>1. Emptied(c, s, drops, G, o)
    BY <1>1, DestroyedEmptied DEF Typed
  <2>2. /\ RefCount(s, alive, o) = RefCount(s, G, o) + RefCount(s, alive', o)
        /\ RefCount(s, G, o) \in Nat /\ RefCount(s, alive', o) \in Nat
    <3>1. Parts(s, alive, G, o)
      BY <1>2, <1>7
    <3> QED
      BY <1>2, <3>1 DEF Parts
  <2>3. c[o] <= drops[o] + RefCount(s, G, o)
    BY <2>1 DEF Emptied
  <2>4. \/ c[o] = roots'[o] + drops[o] + RefCount(s, alive, o)
        \/ roots'[o] = 0 /\ RefCount(s, alive, o) = 0
    BY <1>2 DEF Owes
  <2>5. c[o] \in Int /\ drops[o] \in Nat /\ roots'[o] \in Nat
    BY <1>2, <1>8
  <2> QED
    BY <2>2, <2>3, <2>4, <2>5
<1>11. \A o \in Objects \ alive' : roots'[o] = 0
  BY <1>2, <1>10 DEF Owes
<1>12. \A o \in Objects \ alive' : slots'[o] = <<>>
  BY <1>2, <1>3 DEF Owes
<1>13. ASSUME NEW o \in alive' PROVE Children(slots', o) \subseteq alive'
  <2>1. Children(slots', o) = Children(s, o)
    BY <1>5 DEF Children
  <2>2. Children(s, o) \subseteq alive
    BY <1>2 DEF Owes
  <2>3. ASSUME NEW q \in Children(s, o), q \in G PROVE FALSE
    <3>1. RefCount(s, alive', q) > 0
      <4>1. HeapType(s) /\ q \in Objects
        BY <1>2, <2>3 DEF Typed
      <4> QED
        BY <1>2, <4>1, RefsMean
    <3> QED
      BY <1>10, <2>3, <3>1
  <2> QED
    BY <1>2, <2>1, <2>2, <2>3
<1>14. Balanced'
  BY <1>9, <1>11 DEF Balanced
<1>15. Linked'
  <2>1. \A o \in alive' : Children(slots', o) \subseteq alive'
    BY <1>13
  <2> QED
    BY <1>12, <2>1 DEF Linked, Children
<1> QED
  BY <1>5, <1>14, <1>15
-----------------------------------------------------------------------------
(***************************************************************************)
(* What the operations have in common.                                     *)
(***************************************************************************)
TypesNext ==
  /\ alive' \subseteq Objects /\ tracked' \subseteq Objects
  /\ rc' \in [Objects -> Int] /\ roots' \in [Objects -> 0..MaxRoots]
  /\ HeapType(slots)' /\ crash' \in BOOLEAN

OtherKept == other # NoUpdate => roots'[other.obj] > 0

LEMMA Preserved ==
  ASSUME IInv, UNCHANGED <<other, lost>>, TypesNext, OtherKept, Balanced', Linked'
  PROVE  IInv'
<1>1. TypeOK'
  BY DEF IInv, TypeOK, TypesNext, HeapType
<1>2. HeapType(slots)'
  BY DEF TypesNext
<1>3. OtherHolds'
  <2> SUFFICES ASSUME other # NoUpdate PROVE other.obj \in alive' /\ roots'[other.obj] > 0
    BY DEF OtherHolds
  <2>1. roots'[other.obj] > 0
    BY DEF OtherKept
  <2>2. other.obj \in Objects
    BY DEF IInv, TypeOK
  <2> QED
    BY <2>1, <2>2 DEF Balanced
<1> QED
  BY <1>1, <1>2, <1>3 DEF IInv

LEMMA ReleasePreserves ==
  ASSUME IInv, Running, Stays, OtherKept, roots' \in [Objects -> 0..MaxRoots],
         NEW c, NEW s, NEW drops,
         Typed(c, s, drops), Owes(c, s, drops, roots'), Release(c, s, drops)
  PROVE  IInv'
<1>1. TypesAfter
  BY ReleaseTypes
<1>2. Balanced' /\ Linked'
  BY ReleaseKeeps
<1>3. TypesNext
  BY <1>1 DEF TypesAfter, TypesNext, Stays, IInv, TypeOK
<1> QED
  BY <1>2, <1>3, Preserved DEF Stays

\* The slots of one live object become u.
Rewritten(s, o, u) ==
  /\ HeapType(s)
  /\ \A p \in alive : Children(s, p) \subseteq alive
  /\ \A p \in Objects \ alive : s[p] = <<>>
  /\ \A q \in Objects :
       /\ RefCount(s, alive, q) = RefCount(slots, alive, q) - Occurs(slots[o], q) + Occurs(u, q)
       /\ RefCount(s, alive, q) \in Nat /\ RefCount(slots, alive, q) \in Nat
       /\ Occurs(slots[o], q) \in Nat /\ Occurs(u, q) \in Nat

LivesIn(u) == \A i \in DOMAIN u : u[i] = Nil \/ u[i] \in alive

LEMMA RewriteMeans ==
  ASSUME IInv, ~lost, NEW o \in alive, NEW u \in Seq(Objects \union {Nil}),
         Len(u) <= Width[o], LivesIn(u)
  PROVE  Rewritten([slots EXCEPT ![o] = u], o, u)
<1>1. PICK s : s = [slots EXCEPT ![o] = u]
  OBVIOUS
<1>2. HeapType(slots) /\ alive \in SUBSET Objects /\ o \in Objects
  BY DEF IInv, TypeOK
<1>3. DOMAIN slots = Objects /\ s[o] = u /\ \A p \in Objects : p # o => s[p] = slots[p]
  BY <1>1, <1>2 DEF HeapType
<1>4. HeapType(s)
  BY <1>1, <1>2, <1>3 DEF HeapType
<1>5. ASSUME NEW p \in alive PROVE Children(s, p) \subseteq alive
  <2>1. CASE p = o
    BY <1>3, <2>1 DEF Children, LivesIn
  <2>2. CASE p # o
    BY <1>2, <1>3, <2>2 DEF Children, IInv, Linked
  <2> QED
    BY <2>1, <2>2
<1>6. \A p \in Objects \ alive : s[p] = <<>>
  BY <1>3 DEF IInv, Linked
<1>7. ASSUME NEW q \in Objects
      PROVE  /\ RefCount(s, alive, q)
                  = RefCount(slots, alive, q) - Occurs(slots[o], q) + Occurs(u, q)
             /\ RefCount(s, alive, q) \in Nat /\ RefCount(slots, alive, q) \in Nat
             /\ Occurs(slots[o], q) \in Nat /\ Occurs(u, q) \in Nat
  <2>1. \A p \in alive : p # o => s[p] = slots[p]
    BY <1>2, <1>3
  <2>2. Updated(slots, s, alive, o, q)
    BY <1>2, <1>4, <2>1, RefsUpdate
  <2> QED
    BY <1>3, <2>2 DEF Updated
<1> QED
  BY <1>1, <1>4, <1>5, <1>6, <1>7 DEF Rewritten

\* Copies of values are counted.
LEMMA RetainedCounts ==
  ASSUME NEW c \in [Objects -> Int], NEW S, NEW vs \in Seq(S)
  PROVE  /\ Retained(c, vs) \in [Objects -> Int]
         /\ \A q \in Objects : Retained(c, vs)[q] = c[q] + Occurs(vs, q)
<1>1. \A q \in Objects : Occurs(vs, q) \in Nat
  BY OccursType
<1>2. \A q \in Objects : c[q] + Occurs(vs, q) \in Int
  BY <1>1
<1> QED
  BY <1>2 DEF Retained, Occurs

LEMMA OccursOne ==
  ASSUME NEW v, NEW q
  PROVE  Occurs(<<v>>, q) = One(v, q)
<1>1. PICK P : P = {i \in DOMAIN <<v>> : <<v>>[i] = q}
  OBVIOUS
<1>2. DOMAIN <<v>> = {1} /\ <<v>>[1] = v
  OBVIOUS
<1>3. P = IF v = q THEN {1} ELSE {}
  BY <1>1, <1>2
<1>4. Cardinality(P) = IF v = q THEN 1 ELSE 0
  BY <1>3, FS_Singleton, FS_EmptySet
<1> QED
  BY <1>1, <1>4 DEF Occurs, One

LEMMA DropCounts ==
  ASSUME NEW v
  PROVE  Drop({v}) \in [Objects -> Nat] /\ \A q \in Objects : Drop({v})[q] = One(v, q)
BY DEF Drop, One
-----------------------------------------------------------------------------
(***************************************************************************)
(* Each operation.                                                         *)
(***************************************************************************)
LEMMA Numbers ==
  ASSUME IInv, NEW q \in Objects
  PROVE  /\ rc[q] \in Int /\ roots[q] \in Nat /\ roots[q] <= MaxRoots /\ MaxRoots \in Nat
         /\ RefCount(slots, alive, q) \in Nat
<1>1. alive \in SUBSET Objects /\ rc \in [Objects -> Int] /\ roots \in [Objects -> 0..MaxRoots]
  BY DEF IInv, TypeOK
<1>2. MaxRoots \in Nat
  BY RefHeapAssumption
<1> QED
  BY <1>1, <1>2, RefsType

\* A reference from outside is added: the copy of a value.
Taken(v) ==
  /\ rc' = [rc EXCEPT ![v] = @ + 1]
  /\ roots' = [roots EXCEPT ![v] = @ + 1]
  /\ UNCHANGED <<alive, slots, tracked, crash>>

LEMMA TakenKeeps ==
  ASSUME IInv, ~lost, RoomForRoot, NEW v \in alive, Taken(v)
  PROVE  TypesNext /\ OtherKept /\ Balanced' /\ Linked'
<1>1. alive \in SUBSET Objects /\ rc \in [Objects -> Int] /\ roots \in [Objects -> 0..MaxRoots]
  BY DEF IInv, TypeOK
<1>2. roots[v] < MaxRoots
  BY <1>1, RoomMeans DEF IInv
<1>3. rc[v] \in Int /\ roots[v] \in Nat /\ MaxRoots \in Nat
  BY <1>1, Numbers
<1>4. rc[v] + 1 \in Int /\ roots[v] + 1 \in 0..MaxRoots
  BY <1>2, <1>3
<1>5. TypesNext
  BY <1>1, <1>4 DEF IInv, TypeOK, Taken, TypesNext, HeapType
<1>6. \A q \in Objects : IF q = v THEN rc'[q] = rc[q] + 1 /\ roots'[q] = roots[q] + 1
                         ELSE rc'[q] = rc[q] /\ roots'[q] = roots[q]
  BY <1>1 DEF Taken
<1>7. OtherKept
  <2> SUFFICES ASSUME other # NoUpdate PROVE roots'[other.obj] > 0
    BY DEF OtherKept
  <2>1. other.obj \in Objects /\ roots[other.obj] > 0
    BY <1>1 DEF IInv, OtherHolds
  <2> QED
    BY <1>3, <1>6, <2>1
<1>8. ASSUME NEW q \in alive
      PROVE  rc'[q] = roots'[q] + RefCount(slots, alive, q) /\ rc'[q] > 0
  <2>1. rc[q] = roots[q] + RefCount(slots, alive, q) /\ rc[q] > 0
    BY DEF IInv, Balanced
  <2>2. rc[q] \in Int /\ roots[q] \in Nat /\ RefCount(slots, alive, q) \in Nat
    BY <1>1, Numbers
  <2> QED
    BY <1>1, <1>6, <2>1, <2>2
<1>9. \A q \in Objects \ alive : roots'[q] = 0
  BY <1>6 DEF IInv, Balanced
<1>10. Balanced'
  <2>1. alive' = alive /\ slots' = slots
    BY DEF Taken
  <2> QED
    BY <1>8, <1>9, <2>1 DEF Balanced
<1>11. Linked'
  BY DEF IInv, Linked, Taken, Children
<1> QED
  BY <1>5, <1>7, <1>10, <1>11

LEMMA CopyKeeps ==
  ASSUME IInv, NEW o \in Objects, Copy(o)
  PROVE  IInv'
<1>1. o \in alive /\ ~lost /\ RoomForRoot /\ Taken(o) /\ UNCHANGED <<other, lost>>
  BY DEF Copy, Held, Running, Stays, Taken
<1> QED
  BY <1>1, TakenKeeps, Preserved

LEMMA GetKeeps ==
  ASSUME IInv, NEW o \in Objects, NEW i \in 1..Width[o], Get(o, i)
  PROVE  IInv'
<1>1. PICK v : v = slots[o][i]
  OBVIOUS
<1>2. /\ o \in alive /\ ~lost /\ i \in DOMAIN slots[o] /\ v # Nil /\ RoomForRoot
      /\ Taken(v) /\ UNCHANGED <<other, lost>>
  BY <1>1 DEF Get, Held, Running, Stays, Taken
<1>3. v \in alive
  BY <1>1, <1>2 DEF IInv, Linked, Children
<1> QED
  BY <1>2, <1>3, TakenKeeps, Preserved

LEMMA LetOwes ==
  ASSUME IInv, ~lost, NEW o \in alive, roots[o] > 0, roots' = [roots EXCEPT ![o] = @ - 1]
  PROVE  Owes(rc, slots, Drop({o}), roots')
<1>1. alive \in SUBSET Objects /\ rc \in [Objects -> Int] /\ roots \in [Objects -> 0..MaxRoots]
  BY DEF IInv, TypeOK
<1>2. roots[o] \in Nat /\ roots[o] <= MaxRoots /\ MaxRoots \in Nat
  BY <1>1, Numbers
<1>3. roots' \in [Objects -> Nat]
  <2>1. roots[o] - 1 \in 0..MaxRoots
    BY <1>2
  <2>2. roots' \in [Objects -> 0..MaxRoots]
    BY <1>1, <2>1
  <2> QED
    BY <1>2, <2>2
<1>4. \A q \in Objects \ alive : roots'[q] = 0
  BY <1>1 DEF IInv, Balanced
<1>5. ASSUME NEW q \in alive
      PROVE  rc[q] = roots'[q] + Drop({o})[q] + RefCount(slots, alive, q) /\ rc[q] > 0
  <2>1. rc[q] = roots[q] + RefCount(slots, alive, q) /\ rc[q] > 0
    BY DEF IInv, Balanced
  <2>2. rc[q] \in Int /\ roots[q] \in Nat /\ RefCount(slots, alive, q) \in Nat /\ q \in Objects
    BY <1>1, Numbers
  <2>3. Drop({o})[q] = One(o, q)
    BY <2>2, DropCounts
  <2>4. roots'[q] = IF q = o THEN roots[q] - 1 ELSE roots[q]
    BY <1>1
  <2> QED
    BY <2>1, <2>2, <2>3, <2>4 DEF One
<1> QED
  BY <1>3, <1>4, <1>5 DEF Owes, IInv, Linked

LEMMA LetKeeps ==
  ASSUME IInv, NEW o \in Objects, Let(o)
  PROVE  IInv'
<1>1. /\ Running /\ Held(o) /\ Stays /\ Release(rc, slots, Drop({o}))
      /\ roots' = [roots EXCEPT ![o] = @ - 1]
  BY DEF Let
<1>2. o \in alive /\ ~lost
  BY <1>1 DEF Held, Running
<1>3. alive \in SUBSET Objects /\ rc \in [Objects -> Int] /\ roots \in [Objects -> 0..MaxRoots]
      /\ HeapType(slots)
  BY DEF IInv, TypeOK
<1>4. roots[o] \in Nat /\ roots[o] > 0 /\ roots[o] <= MaxRoots /\ MaxRoots \in Nat
  BY <1>1, Numbers DEF Held
<1>5. \A q \in Objects : roots'[q] = IF q = o THEN roots[q] - 1 ELSE roots[q]
  BY <1>1, <1>3
<1>6. roots' \in [Objects -> 0..MaxRoots]
  <2>1. roots[o] - 1 \in 0..MaxRoots
    BY <1>4
  <2> QED
    BY <1>1, <1>3, <2>1
<1>7. OtherKept
  <2> SUFFICES ASSUME other # NoUpdate PROVE roots'[other.obj] > 0
    BY DEF OtherKept
  <2>1. other.obj \in Objects /\ roots[other.obj] > 0 /\ roots[other.obj] \in Nat
    BY <1>2, <1>3, Numbers DEF IInv, OtherHolds
  <2>2. other.obj = o => roots[o] > 1
    BY <1>1 DEF Held
  <2> QED
    BY <1>4, <1>5, <2>1, <2>2
<1>8. Typed(rc, slots, Drop({o}))
  BY <1>3, DropCounts DEF Typed
<1>9. Owes(rc, slots, Drop({o}), roots')
  BY <1>1, <1>2, <1>4, LetOwes
<1> QED
  BY <1>1, <1>6, <1>7, <1>8, <1>9, ReleasePreserves

\* The slots of a live object can become u.
Fits(o, u) ==
  u \in Seq(Objects \union {Nil}) /\ Len(u) <= Width[o] /\ LivesIn(u)

\* With what is given up, the counts c are those for the slots u of o.
Settles(c, o, u, drops) ==
  /\ c \in [Objects -> Int] /\ drops \in [Objects -> Nat]
  /\ \A q \in alive : /\ c[q] = rc[q] - Occurs(slots[o], q) + Occurs(u, q) + drops[q]
                      /\ c[q] > 0

LEMMA RewriteReleases ==
  ASSUME IInv, Running, Stays, UNCHANGED roots,
         NEW o \in alive, NEW u, Fits(o, u), NEW c, NEW drops, Settles(c, o, u, drops),
         Release(c, [slots EXCEPT ![o] = u], drops)
  PROVE  IInv'
<1>1. PICK s : s = [slots EXCEPT ![o] = u]
  OBVIOUS
<1>2. ~lost /\ alive \in SUBSET Objects /\ roots \in [Objects -> 0..MaxRoots]
  BY DEF Running, IInv, TypeOK
<1>3. Rewritten(s, o, u)
  BY <1>1, <1>2, RewriteMeans DEF Fits
<1>4. Typed(c, s, drops)
  BY <1>2, <1>3 DEF Typed, Rewritten, Settles
<1>5. roots \in [Objects -> Nat]
  <2>1. MaxRoots \in Nat
    BY RefHeapAssumption
  <2> QED
    BY <1>2, <2>1
<1>6. ASSUME NEW q \in alive
      PROVE  c[q] = roots[q] + drops[q] + RefCount(s, alive, q) /\ c[q] > 0
  <2>0. c[q] = rc[q] - Occurs(slots[o], q) + Occurs(u, q) + drops[q] /\ c[q] > 0
    BY DEF Settles
  <2>1. rc[q] = roots[q] + RefCount(slots, alive, q)
    BY <1>2 DEF IInv, Balanced
  <2>2. rc[q] \in Int /\ roots[q] \in Nat /\ drops[q] \in Nat
    BY <1>2, Numbers DEF Settles
  <2>3. /\ RefCount(s, alive, q)
             = RefCount(slots, alive, q) - Occurs(slots[o], q) + Occurs(u, q)
        /\ RefCount(slots, alive, q) \in Nat /\ Occurs(slots[o], q) \in Nat /\ Occurs(u, q) \in Nat
    BY <1>2, <1>3 DEF Rewritten
  <2> QED
    BY <2>0, <2>1, <2>2, <2>3
<1>7. Owes(c, s, drops, roots')
  <2>1. roots' = roots /\ \A q \in Objects \ alive : roots[q] = 0
    BY <1>2 DEF IInv, Balanced
  <2>2. \A p \in alive : Children(s, p) \subseteq alive
    BY <1>3 DEF Rewritten
  <2>3. \A p \in Objects \ alive : s[p] = <<>>
    BY <1>3 DEF Rewritten
  <2> QED
    BY <1>5, <1>6, <2>1, <2>2, <2>3 DEF Owes
<1>8. OtherKept
  BY <1>2 DEF OtherKept, IInv, OtherHolds
<1> QED
  BY <1>1, <1>2, <1>4, <1>7, <1>8, ReleasePreserves

LEMMA RewriteKeeps ==
  ASSUME IInv, Running, Stays, UNCHANGED alive, OtherKept,
         NEW o \in alive, NEW u, Fits(o, u), slots' = [slots EXCEPT ![o] = u],
         rc' \in [Objects -> Int], roots' \in [Objects -> 0..MaxRoots],
         \A q \in Objects \ alive : roots'[q] = 0,
         \A q \in alive : /\ rc'[q] = rc[q] + (roots'[q] - roots[q])
                                      - Occurs(slots[o], q) + Occurs(u, q)
                          /\ rc'[q] > 0
  PROVE  IInv'
<1>1. PICK s : s = [slots EXCEPT ![o] = u]
  OBVIOUS
<1>2. ~lost /\ alive \in SUBSET Objects /\ slots' = s
  BY <1>1 DEF Running, IInv, TypeOK
<1>3. Rewritten(s, o, u)
  BY <1>1, <1>2, RewriteMeans DEF Fits
<1>4. TypesNext
  <2>1. HeapType(s)
    BY <1>3 DEF Rewritten
  <2> QED
    BY <1>2, <2>1 DEF TypesNext, Stays, IInv, TypeOK, HeapType
<1>5. ASSUME NEW q \in alive
      PROVE  rc'[q] = roots'[q] + RefCount(s, alive, q)
  <2>1. rc[q] = roots[q] + RefCount(slots, alive, q)
    BY <1>2 DEF IInv, Balanced
  <2>2. rc[q] \in Int /\ roots[q] \in Nat /\ MaxRoots \in Nat
    BY <1>2, Numbers
  <2>3. roots'[q] \in Int
    BY <1>2, <2>2
  <2>4. /\ RefCount(s, alive, q)
             = RefCount(slots, alive, q) - Occurs(slots[o], q) + Occurs(u, q)
        /\ RefCount(slots, alive, q) \in Nat /\ Occurs(slots[o], q) \in Nat /\ Occurs(u, q) \in Nat
    BY <1>2, <1>3 DEF Rewritten
  <2> QED
    BY <2>1, <2>2, <2>3, <2>4
<1>6. Balanced'
  BY <1>2, <1>5 DEF Balanced
<1>7. Linked'
  <2>1. (\A p \in alive : Children(s, p) \subseteq alive)
        /\ \A p \in Objects \ alive : s[p] = <<>>
    BY <1>3 DEF Rewritten
  <2>2. \A p \in alive : Children(slots', p) \subseteq alive
    BY <1>2, <2>1
  <2>3. alive' = alive /\ \A p \in Objects \ alive : slots'[p] = <<>>
    BY <1>2, <2>1
  <2> QED
    BY <2>2, <2>3 DEF Linked, Children
<1> QED
  BY <1>4, <1>6, <1>7, Preserved DEF Stays

LEMMA HeldMeans ==
  ASSUME IInv, NEW o, Held(o), Running
  PROVE  /\ o \in alive /\ o \in Objects /\ ~lost
         /\ slots[o] \in Seq(Objects \union {Nil})
         /\ DOMAIN slots[o] = 1..Len(slots[o]) /\ Len(slots[o]) \in Nat
         /\ Len(slots[o]) <= Width[o] /\ Width[o] \in Nat
         /\ LivesIn(slots[o])
<1>1. o \in alive /\ o \in Objects /\ ~lost /\ HeapType(slots)
  BY DEF Held, Running, IInv, TypeOK
<1>2. LivesIn(slots[o])
  BY <1>1 DEF LivesIn, IInv, Linked, Children
<1> QED
  BY <1>1, <1>2, HeapPositions, RefHeapAssumption

LEMMA ValuesMean ==
  ASSUME IInv, NEW v \in Values
  PROVE  v \in Objects \union {Nil} /\ (v = Nil \/ v \in alive)
BY DEF Values, IInv, TypeOK

LEMMA SetSlotKeeps ==
  ASSUME IInv, NEW o \in Objects, NEW i \in 1..Width[o], NEW v \in Values, SetSlot(o, i, v)
  PROVE  IInv'
<1>1. PICK t : t = slots[o]
  OBVIOUS
<1>2. PICK u : u = [t EXCEPT ![i] = v]
  OBVIOUS
<1>3. PICK c : c = Retained(rc, <<v>>)
  OBVIOUS
<1>4. /\ Running /\ Held(o) /\ i \in DOMAIN t /\ Stays /\ UNCHANGED roots
      /\ Release(c, [slots EXCEPT ![o] = u], Drop({t[i]}))
  BY <1>1, <1>2, <1>3 DEF SetSlot
<1>5. /\ o \in alive /\ ~lost /\ t \in Seq(Objects \union {Nil}) /\ DOMAIN t = 1..Len(t)
      /\ Len(t) <= Width[o] /\ LivesIn(t)
  BY <1>1, <1>4, HeldMeans
<1>6. v \in Objects \union {Nil} /\ (v = Nil \/ v \in alive)
  BY ValuesMean
<1>7. Fits(o, u)
  <2>1. u \in Seq(Objects \union {Nil}) /\ Len(u) = Len(t)
    BY <1>2, <1>4, <1>5, <1>6, ExceptSeq
  <2>2. LivesIn(u)
    BY <1>2, <1>5, <1>6 DEF LivesIn
  <2> QED
    BY <1>5, <2>1, <2>2 DEF Fits
<1>8. alive \in SUBSET Objects /\ rc \in [Objects -> Int]
  BY DEF IInv, TypeOK
<1>9. c \in [Objects -> Int] /\ \A q \in Objects : c[q] = rc[q] + One(v, q)
  <2>1. <<v>> \in Seq(Objects \union {Nil})
    BY <1>6
  <2> QED
    BY <1>3, <1>8, <2>1, RetainedCounts, OccursOne
<1>10. ASSUME NEW q \in alive
       PROVE  /\ c[q] = rc[q] - Occurs(slots[o], q) + Occurs(u, q) + Drop({t[i]})[q]
              /\ c[q] > 0
  <2>1. Occurs(u, q) = Occurs(t, q) + One(v, q) - One(t[i], q)
    <3>1. PICK V : V = Objects \union {Nil}
      OBVIOUS
    <3>2. t \in Seq(V) /\ v \in V /\ i \in DOMAIN t
      BY <1>4, <1>5, <1>6, <3>1
    <3>3. StoreMoves(t, u, i, v, q)
      BY <1>2, <3>2, OccursStore
    <3> QED
      BY <3>3 DEF StoreMoves
  <2>2. Occurs(t, q) \in Nat
    BY <1>5, OccursType
  <2>3. One(v, q) \in Nat /\ One(t[i], q) \in Nat
    BY DEF One
  <2>4. rc[q] > 0 /\ rc[q] \in Int
    BY <1>5, <1>8 DEF IInv, Balanced
  <2>5. Drop({t[i]})[q] = One(t[i], q)
    BY <1>8, DropCounts
  <2>6. c[q] = rc[q] + One(v, q)
    BY <1>8, <1>9
  <2> QED
    BY <1>1, <2>1, <2>2, <2>3, <2>4, <2>5, <2>6
<1>11. Settles(c, o, u, Drop({t[i]}))
  BY <1>9, <1>10, DropCounts DEF Settles
<1> QED
  BY <1>4, <1>5, <1>7, <1>11, RewriteReleases

\* The longer sequence holds its element at i and what the shorter one holds.
LEMMA InsertedLives ==
  ASSUME NEW S, NEW t \in Seq(S), NEW u \in Seq(S), NEW i, Inserted(t, u, i)
  PROVE  /\ LivesIn(t) => LivesIn(u)
         /\ LivesIn(u) /\ (t[i] = Nil \/ t[i] \in alive) => LivesIn(t)
         /\ i \in DOMAIN t
<1>1. PICK n : n = Len(u)
  OBVIOUS
<1>2. n \in Nat /\ DOMAIN u = 1..n /\ DOMAIN t = 1..(n + 1) /\ i \in 1..(n + 1)
  BY <1>1, SeqFacts DEF Inserted
<1>3. \A k \in 1..n : u[k] = IF k < i THEN t[k] ELSE t[k + 1]
  BY <1>1 DEF Inserted
<1>4. ASSUME LivesIn(t) PROVE LivesIn(u)
  <2> SUFFICES ASSUME NEW k \in 1..n PROVE u[k] = Nil \/ u[k] \in alive
    BY <1>2 DEF LivesIn
  <2>1. k \in 1..(n + 1) /\ k + 1 \in 1..(n + 1)
    BY <1>2
  <2> QED
    BY <1>2, <1>3, <1>4, <2>1 DEF LivesIn
<1>5. ASSUME LivesIn(u), t[i] = Nil \/ t[i] \in alive PROVE LivesIn(t)
  <2> SUFFICES ASSUME NEW k \in 1..(n + 1) PROVE t[k] = Nil \/ t[k] \in alive
    BY <1>2 DEF LivesIn
  <2>1. CASE k < i
    <3>1. k \in 1..n
      BY <1>2, <2>1
    <3> QED
      BY <1>2, <1>3, <1>5, <2>1, <3>1 DEF LivesIn
  <2>2. CASE k = i
    BY <1>5, <2>2
  <2>3. CASE k > i
    <3>1. k - 1 \in 1..n /\ ~(k - 1 < i) /\ (k - 1) + 1 = k
      BY <1>2, <2>3
    <3> QED
      BY <1>2, <1>3, <1>5, <3>1 DEF LivesIn
  <2> QED
    BY <1>2, <2>1, <2>2, <2>3
<1> QED
  BY <1>2, <1>4, <1>5

LEMMA InsertAtKeeps ==
  ASSUME IInv, NEW o \in Objects, NEW i \in 1..Width[o], NEW v \in Values, InsertAt(o, i, v)
  PROVE  IInv'
<1>1. PICK t : t = slots[o]
  OBVIOUS
<1>2. PICK u : u = SubSeq(t, 1, i - 1) \o <<v>> \o SubSeq(t, i, Len(t))
  OBVIOUS
<1>3. /\ Running /\ Held(o) /\ i \in 1..(Len(t) + 1) /\ Len(t) < Width[o]
      /\ slots' = [slots EXCEPT ![o] = u] /\ rc' = Retained(rc, <<v>>)
      /\ Stays /\ UNCHANGED <<alive, roots>>
  BY <1>1, <1>2 DEF InsertAt
<1>4. /\ o \in alive /\ ~lost /\ t \in Seq(Objects \union {Nil}) /\ Len(t) \in Nat
      /\ LivesIn(t) /\ Width[o] \in Nat
  BY <1>1, <1>3, HeldMeans
<1>5. v \in Objects \union {Nil} /\ (v = Nil \/ v \in alive)
  BY ValuesMean
<1>6. u \in Seq(Objects \union {Nil}) /\ Inserted(u, t, i) /\ u[i] = v
  <2>1. WithItem(Objects \union {Nil}, u, t, i, v)
    BY <1>2, <1>3, <1>4, <1>5, InsertMakes
  <2> QED
    BY <2>1 DEF WithItem
<1>7. Fits(o, u)
  <2>1. LivesIn(u)
    BY <1>4, <1>5, <1>6, InsertedLives
  <2>2. Len(u) = Len(t) + 1
    BY <1>6 DEF Inserted
  <2>3. Len(u) <= Width[o]
    BY <1>3, <1>4, <2>2
  <2> QED
    BY <1>6, <2>1, <2>3 DEF Fits
<1>8. alive \in SUBSET Objects /\ rc \in [Objects -> Int] /\ roots \in [Objects -> 0..MaxRoots]
  BY DEF IInv, TypeOK
<1>9. rc' \in [Objects -> Int] /\ \A q \in Objects : rc'[q] = rc[q] + One(v, q)
  <2>1. <<v>> \in Seq(Objects \union {Nil})
    BY <1>5
  <2> QED
    BY <1>3, <1>8, <2>1, RetainedCounts, OccursOne
<1>10. ASSUME NEW q \in alive
       PROVE  /\ rc'[q] = rc[q] + (roots'[q] - roots[q]) - Occurs(slots[o], q) + Occurs(u, q)
              /\ rc'[q] > 0
  <2>1. Occurs(u, q) = Occurs(t, q) + One(v, q)
    BY <1>4, <1>6, OccursInserted
  <2>2. Occurs(t, q) \in Nat
    BY <1>4, OccursType
  <2>3. One(v, q) \in Nat
    BY DEF One
  <2>4. rc[q] > 0 /\ rc[q] \in Int /\ roots[q] \in Int /\ roots'[q] = roots[q]
    <3>1. roots[q] \in Int
      BY <1>8, Numbers
    <3> QED
      BY <1>3, <1>4, <1>8, <3>1 DEF IInv, Balanced
  <2>5. rc'[q] = rc[q] + One(v, q)
    BY <1>8, <1>9
  <2> QED
    BY <1>1, <2>1, <2>2, <2>3, <2>4, <2>5
<1>11. OtherKept /\ \A q \in Objects \ alive : roots'[q] = 0
  BY <1>3, <1>4 DEF OtherKept, IInv, OtherHolds, Balanced
<1> QED
  BY <1>3, <1>4, <1>7, <1>8, <1>9, <1>10, <1>11, RewriteKeeps

\* The slots of o without the one at i.
Without(o, u, v) ==
  /\ Fits(o, u) /\ v \in Objects \union {Nil} /\ (v = Nil \/ v \in alive)
  /\ \A q \in alive : Occurs(slots[o], q) = Occurs(u, q) + One(v, q)
                      /\ Occurs(u, q) \in Nat /\ One(v, q) \in Nat

LEMMA ItemGone ==
  ASSUME IInv, NEW o, Held(o), Running, NEW i \in DOMAIN slots[o],
         NEW u, WithoutItem(Objects \union {Nil}, slots[o], u, i),
         NEW v, v = slots[o][i]
  PROVE  Without(o, u, v)
<1>1. PICK t : t = slots[o]
  OBVIOUS
<1>2. /\ o \in alive /\ ~lost /\ t \in Seq(Objects \union {Nil}) /\ Len(t) \in Nat
      /\ Len(t) <= Width[o] /\ Width[o] \in Nat /\ LivesIn(t)
  BY <1>1, HeldMeans
<1>3. WithoutItem(Objects \union {Nil}, t, u, i)
  BY <1>1
<1>4. u \in Seq(Objects \union {Nil}) /\ Inserted(t, u, i)
  BY <1>3 DEF WithoutItem
<1>5. Fits(o, u)
  <2>1. LivesIn(u)
    BY <1>2, <1>4, InsertedLives
  <2>2. Len(t) = Len(u) + 1 /\ Len(u) \in Nat
    BY <1>4, SeqFacts DEF Inserted
  <2>3. Len(u) <= Width[o]
    BY <1>2, <2>2
  <2> QED
    BY <1>4, <2>1, <2>3 DEF Fits
<1>6. v \in Objects \union {Nil} /\ (v = Nil \/ v \in alive)
  <2>1. v = Nil \/ v \in alive
    BY <1>1, <1>2 DEF LivesIn
  <2> QED
    BY <2>1 DEF IInv, TypeOK
<1>7. ASSUME NEW q \in alive
      PROVE  Occurs(t, q) = Occurs(u, q) + One(v, q) /\ Occurs(u, q) \in Nat /\ One(v, q) \in Nat
  <2>1. Occurs(t, q) = Occurs(u, q) + One(t[i], q)
    BY <1>2, <1>4, OccursInserted
  <2>2. Occurs(u, q) \in Nat
    BY <1>4, OccursType
  <2>3. One(v, q) \in Nat
    BY DEF One
  <2> QED
    BY <1>1, <2>1, <2>2, <2>3
<1> QED
  BY <1>1, <1>5, <1>6, <1>7 DEF Without

LEMMA RemoveAtKeeps ==
  ASSUME IInv, NEW o \in Objects, NEW i \in 1..Width[o], RemoveAt(o, i)
  PROVE  IInv'
<1>1. PICK u : u = SubSeq(slots[o], 1, i - 1) \o SubSeq(slots[o], i + 1, Len(slots[o]))
  OBVIOUS
<1>2. PICK v : v = slots[o][i]
  OBVIOUS
<1>3. /\ Running /\ Held(o) /\ i \in DOMAIN slots[o] /\ Stays /\ UNCHANGED roots
      /\ Release(rc, [slots EXCEPT ![o] = u], Drop({v}))
  BY <1>1, <1>2 DEF RemoveAt
<1>4. Fits(o, u) /\ \A q \in alive : Occurs(slots[o], q) = Occurs(u, q) + One(v, q)
                                     /\ Occurs(u, q) \in Nat /\ One(v, q) \in Nat
  <2>1. slots[o] \in Seq(Objects \union {Nil})
    BY <1>3, HeldMeans
  <2>2. WithoutItem(Objects \union {Nil}, slots[o], u, i)
    BY <1>1, <1>3, <2>1, RemoveMakes
  <2>3. Without(o, u, v)
    BY <1>2, <1>3, <2>2, ItemGone
  <2> QED
    BY <2>3 DEF Without
<1>5. o \in alive /\ ~lost /\ alive \in SUBSET Objects /\ rc \in [Objects -> Int]
  BY <1>3 DEF Held, Running, IInv, TypeOK
<1>6. ASSUME NEW q \in alive
      PROVE  rc[q] = rc[q] - Occurs(slots[o], q) + Occurs(u, q) + Drop({v})[q] /\ rc[q] > 0
  <2>1. rc[q] > 0 /\ rc[q] \in Int
    BY <1>5 DEF IInv, Balanced
  <2>2. Drop({v})[q] = One(v, q)
    BY <1>5, DropCounts
  <2>3. Occurs(slots[o], q) = Occurs(u, q) + One(v, q)
        /\ Occurs(u, q) \in Nat /\ One(v, q) \in Nat
    BY <1>4
  <2> QED
    BY <2>1, <2>2, <2>3
<1>7. Settles(rc, o, u, Drop({v}))
  BY <1>5, <1>6, DropCounts DEF Settles
<1> QED
  BY <1>3, <1>4, <1>5, <1>7, RewriteReleases

LEMMA TakeOutKeeps ==
  ASSUME IInv, NEW o \in Objects, NEW i \in 1..Width[o], TakeOut(o, i)
  PROVE  IInv'
<1>1. PICK u : u = SubSeq(slots[o], 1, i - 1) \o SubSeq(slots[o], i + 1, Len(slots[o]))
  OBVIOUS
<1>2. PICK v : v = slots[o][i]
  OBVIOUS
<1>3. /\ Running /\ Held(o) /\ i \in DOMAIN slots[o] /\ Stays /\ UNCHANGED <<alive, rc>>
      /\ slots' = [slots EXCEPT ![o] = u] /\ (v # Nil => RoomForRoot)
      /\ roots' = [r \in Objects |-> roots[r] + Drop({v})[r]]
  BY <1>1, <1>2 DEF TakeOut
<1>4. /\ Fits(o, u) /\ v \in Objects \union {Nil} /\ (v = Nil \/ v \in alive)
      /\ \A q \in alive : Occurs(slots[o], q) = Occurs(u, q) + One(v, q)
                          /\ Occurs(u, q) \in Nat /\ One(v, q) \in Nat
  <2>1. slots[o] \in Seq(Objects \union {Nil})
    BY <1>3, HeldMeans
  <2>2. WithoutItem(Objects \union {Nil}, slots[o], u, i)
    BY <1>1, <1>3, <2>1, RemoveMakes
  <2>3. Without(o, u, v)
    BY <1>2, <1>3, <2>2, ItemGone
  <2> QED
    BY <2>3 DEF Without
<1>5. o \in alive /\ ~lost /\ alive \in SUBSET Objects /\ rc \in [Objects -> Int]
  BY <1>3 DEF Held, Running, IInv, TypeOK
<1>6. \A q \in Objects : roots'[q] = roots[q] + One(v, q)
  BY <1>3, DropCounts
<1>7. roots' \in [Objects -> 0..MaxRoots]
  <2> SUFFICES ASSUME NEW q \in Objects PROVE roots[q] + One(v, q) \in 0..MaxRoots
    BY <1>3, DropCounts
  <2>1. roots[q] \in Nat /\ roots[q] <= MaxRoots /\ MaxRoots \in Nat
    BY Numbers
  <2>2. CASE v = q
    <3>1. v # Nil
      BY <2>2, RefHeapAssumption
    <3>2. roots[q] < MaxRoots
      BY <1>3, <3>1, RoomMeans DEF IInv
    <3> QED
      BY <2>1, <2>2, <3>2 DEF One
  <2>3. CASE v # q
    BY <2>1, <2>3 DEF One
  <2> QED
    BY <2>2, <2>3
<1>8. \A q \in Objects \ alive : roots'[q] = 0
  <2> SUFFICES ASSUME NEW q \in Objects \ alive PROVE roots[q] + One(v, q) = 0
    BY <1>6
  <2>1. roots[q] = 0
    BY <1>5 DEF IInv, Balanced
  <2>2. v # q
    BY <1>4, RefHeapAssumption
  <2> QED
    BY <2>1, <2>2 DEF One
<1>9. ASSUME NEW q \in alive
      PROVE  /\ rc'[q] = rc[q] + (roots'[q] - roots[q]) - Occurs(slots[o], q) + Occurs(u, q)
             /\ rc'[q] > 0
  <2>1. rc[q] > 0 /\ rc[q] \in Int /\ rc'[q] = rc[q]
    BY <1>3, <1>5 DEF IInv, Balanced
  <2>2. roots'[q] = roots[q] + One(v, q) /\ roots[q] \in Nat
    BY <1>5, <1>6, Numbers
  <2>3. Occurs(slots[o], q) = Occurs(u, q) + One(v, q)
        /\ Occurs(u, q) \in Nat /\ One(v, q) \in Nat
    BY <1>4
  <2> QED
    BY <2>1, <2>2, <2>3
<1>10. OtherKept
  <2> SUFFICES ASSUME other # NoUpdate PROVE roots'[other.obj] > 0
    BY DEF OtherKept
  <2>1. other.obj \in alive /\ roots[other.obj] > 0 /\ roots[other.obj] \in Nat
    BY <1>5, Numbers DEF IInv, OtherHolds
  <2>2. roots'[other.obj] = roots[other.obj] + One(v, other.obj) /\ One(v, other.obj) \in Nat
    BY <1>4, <1>5, <1>6, <2>1
  <2> QED
    BY <2>1, <2>2
<1> QED
  BY <1>3, <1>4, <1>5, <1>7, <1>8, <1>9, <1>10, RewriteKeeps

LEMMA ClearKeeps ==
  ASSUME IInv, NEW o \in Objects, Clear(o)
  PROVE  IInv'
<1>1. PICK d : d = [p \in Objects |-> RefCount(slots, {o}, p)]
  OBVIOUS
<1>2. /\ Running /\ Held(o) /\ Stays /\ UNCHANGED roots
      /\ Release(rc, [slots EXCEPT ![o] = <<>>], d)
  BY <1>1 DEF Clear
<1>3. /\ o \in alive /\ ~lost /\ slots[o] \in Seq(Objects \union {Nil}) /\ Width[o] \in Nat
  BY <1>2, HeldMeans
<1>4. alive \in SUBSET Objects /\ rc \in [Objects -> Int] /\ HeapType(slots)
  BY DEF IInv, TypeOK
<1>5. \A q \in Objects : d[q] = Occurs(slots[o], q) /\ d[q] \in Nat
  <2> SUFFICES ASSUME NEW q \in Objects PROVE d[q] = Occurs(slots[o], q) /\ d[q] \in Nat
    OBVIOUS
  <2>1. d[q] = RefCount(slots, {o}, q)
    BY <1>1
  <2>2. RefCount(slots, {o}, q) = Occurs(slots[o], q)
    BY <1>4, RefsOfOne
  <2>3. Occurs(slots[o], q) \in Nat
    BY <1>3, OccursType
  <2> QED
    BY <2>1, <2>2, <2>3
<1>6. d \in [Objects -> Nat]
  BY <1>1, <1>5
<1>7. Fits(o, <<>>)
  BY <1>3 DEF Fits, LivesIn
<1>8. \A q \in alive : Occurs(<<>>, q) = 0
  <2> SUFFICES ASSUME NEW q \in alive PROVE Cardinality({i \in DOMAIN <<>> : <<>>[i] = q}) = 0
    BY DEF Occurs
  <2>1. {i \in DOMAIN <<>> : <<>>[i] = q} = {}
    OBVIOUS
  <2> QED
    BY <2>1, FS_EmptySet
<1>9. ASSUME NEW q \in alive
      PROVE  rc[q] = rc[q] - Occurs(slots[o], q) + Occurs(<<>>, q) + d[q] /\ rc[q] > 0
  <2>1. rc[q] > 0 /\ rc[q] \in Int
    BY <1>3, <1>4 DEF IInv, Balanced
  <2>2. d[q] = Occurs(slots[o], q) /\ d[q] \in Nat /\ Occurs(<<>>, q) = 0
    BY <1>4, <1>5, <1>8
  <2> QED
    BY <2>1, <2>2
<1>10. Settles(rc, o, <<>>, d)
  BY <1>4, <1>6, <1>9 DEF Settles
<1> QED
  BY <1>2, <1>3, <1>7, <1>10, RewriteReleases

LEMMA NewKeeps ==
  ASSUME IInv, NEW o \in Objects, NEW init, Fits(o, init), New(o, init)
  PROVE  IInv'
<1>1. PICK c : c = Retained(rc, init)
  OBVIOUS
<1>2. /\ ~lost /\ o \notin alive /\ RoomForRoot /\ Stays
      /\ alive' = alive \union {o} /\ rc' = [c EXCEPT ![o] = 1]
      /\ roots' = [roots EXCEPT ![o] = 1] /\ slots' = [slots EXCEPT ![o] = init]
  BY <1>1 DEF New, Running
<1>3. /\ alive \in SUBSET Objects /\ rc \in [Objects -> Int]
      /\ roots \in [Objects -> 0..MaxRoots] /\ HeapType(slots)
      /\ init \in Seq(Objects \union {Nil})
  BY DEF IInv, TypeOK, Fits
<1>4. c \in [Objects -> Int] /\ \A q \in Objects : c[q] = rc[q] + Occurs(init, q)
  BY <1>1, <1>3, RetainedCounts
<1>5. DOMAIN slots = Objects /\ slots'[o] = init
      /\ \A p \in Objects : p # o => slots'[p] = slots[p]
  BY <1>2, <1>3 DEF HeapType
<1>6. HeapType(slots)'
  BY <1>2, <1>3, <1>5 DEF HeapType, Fits
<1>7. TypesNext
  <2>1. 1 \in Int /\ 1 \in 0..MaxRoots
    BY RefHeapAssumption
  <2>2. rc' \in [Objects -> Int] /\ roots' \in [Objects -> 0..MaxRoots]
    BY <1>2, <1>3, <1>4, <2>1
  <2> QED
    BY <1>2, <1>3, <1>6, <2>2 DEF TypesNext, Stays, IInv, TypeOK
<1>8. OtherKept
  BY <1>2, <1>3 DEF OtherKept, IInv, OtherHolds
<1>9. ASSUME NEW q \in Objects
      PROVE  RefCount(slots', alive', q) = RefCount(slots, alive, q) + Occurs(init, q)
  <2>1. {o} \in SUBSET Objects /\ alive \intersect {o} = {}
    BY <1>2
  <2>2. RefCount(slots', alive \union {o}, q)
          = RefCount(slots', alive, q) + RefCount(slots', {o}, q)
    BY <1>3, <2>1, RefsSplit
  <2>3. RefCount(slots', alive, q) = RefCount(slots, alive, q)
    <3>1. \A p \in alive : slots'[p] = slots[p]
      BY <1>2, <1>3, <1>5
    <3> QED
      BY <3>1, RefsSame
  <2>4. RefCount(slots', {o}, q) = Occurs(init, q)
    BY <1>5, <1>6, RefsOfOne DEF HeapType
  <2> QED
    BY <1>2, <2>2, <2>3, <2>4
<1>10. Occurs(init, o) = 0 /\ RefCount(slots, alive, o) = 0
  <2>1. ~\E i \in DOMAIN init : init[i] = o
    BY <1>2, RefHeapAssumption DEF Fits, LivesIn
  <2>2. ~\E p \in alive : o \in Children(slots, p)
    BY <1>2 DEF IInv, Linked
  <2>3. Occurs(init, o) \in Nat /\ ~(Occurs(init, o) > 0)
    BY <1>3, <2>1, OccursType
  <2>4. RefCount(slots, alive, o) \in Nat /\ ~(RefCount(slots, alive, o) > 0)
    BY <1>3, <2>2, RefsMean, RefsType
  <2> QED
    BY <2>3, <2>4
<1>11. ASSUME NEW q \in alive'
       PROVE  rc'[q] = roots'[q] + RefCount(slots', alive', q) /\ rc'[q] > 0
  <2>1. CASE q = o
    <3>1. rc'[o] = 1 /\ roots'[o] = 1
      BY <1>2, <1>3, <1>4
    <3> QED
      BY <1>9, <1>10, <2>1, <3>1
  <2>2. CASE q # o
    <3>1. q \in alive /\ q \in Objects
      BY <1>2, <1>3, <2>2
    <3>2. rc'[q] = rc[q] + Occurs(init, q) /\ roots'[q] = roots[q]
      BY <1>2, <1>3, <1>4, <2>2, <3>1
    <3>3. rc[q] = roots[q] + RefCount(slots, alive, q) /\ rc[q] > 0
      BY <1>2, <3>1 DEF IInv, Balanced
    <3>4. rc[q] \in Int /\ roots[q] \in Nat /\ RefCount(slots, alive, q) \in Nat
          /\ Occurs(init, q) \in Nat
      BY <1>3, <3>1, Numbers, OccursType
    <3>5. RefCount(slots', alive', q) = RefCount(slots, alive, q) + Occurs(init, q)
      BY <1>9, <3>1
    <3> QED
      BY <3>2, <3>3, <3>4, <3>5
  <2> QED
    BY <2>1, <2>2
<1>12. Balanced'
  <2>1. \A q \in Objects \ alive' : roots'[q] = 0
    BY <1>2, <1>3 DEF IInv, Balanced
  <2> QED
    BY <1>11, <2>1 DEF Balanced
<1>13. Linked'
  <2>1. ASSUME NEW p \in alive' PROVE Children(slots', p) \subseteq alive'
    <3>1. CASE p = o
      BY <1>2, <1>5, <3>1 DEF Children, Fits, LivesIn
    <3>2. CASE p # o
      <4>1. p \in alive /\ slots'[p] = slots[p]
        BY <1>2, <1>3, <1>5, <3>2
      <4> QED
        BY <1>2, <4>1 DEF IInv, Linked, Children
    <3> QED
      BY <3>1, <3>2
  <2>2. \A p \in Objects \ alive' : slots'[p] = <<>>
    BY <1>2, <1>5 DEF IInv, Linked
  <2> QED
    BY <2>1, <2>2 DEF Linked, Children
<1> QED
  BY <1>2, <1>7, <1>8, <1>12, <1>13, Preserved DEF Stays

LEMMA InitialFits ==
  ASSUME IInv, NEW o \in Objects, NEW n \in 0..Width[o], NEW init \in [1..n -> Values]
  PROVE  Fits(o, init)
<1>1. n \in Nat /\ n <= Width[o]
  BY RefHeapAssumption
<1>2. \A i \in 1..n : init[i] \in Objects \union {Nil} /\ (init[i] = Nil \/ init[i] \in alive)
  BY ValuesMean
<1>3. init \in [1..n -> Objects \union {Nil}]
  BY <1>2
<1>4. init \in Seq(Objects \union {Nil}) /\ Len(init) = n /\ DOMAIN init = 1..n
  BY <1>1, <1>3, SeqDef
<1> QED
  BY <1>1, <1>2, <1>4 DEF Fits, LivesIn

LEMMA SliceKeeps ==
  ASSUME IInv, NEW o \in Objects, NEW i \in 1..Width[o], NEW j \in 1..Width[o],
         NEW new \in Objects, Slice(o, i, j, new)
  PROVE  IInv'
<1>1. PICK t : t = slots[o]
  OBVIOUS
<1>2. PICK u : u = SubSeq(t, i, j)
  OBVIOUS
<1>3. /\ Held(o) /\ i \in DOMAIN t /\ j \in i..Len(t) /\ j - i + 1 <= Width[new]
      /\ New(new, u)
  BY <1>1, <1>2 DEF Slice
<1>4. Running
  BY <1>3 DEF New
<1>5. /\ t \in Seq(Objects \union {Nil}) /\ DOMAIN t = 1..Len(t) /\ Len(t) \in Nat
      /\ LivesIn(t)
  BY <1>1, <1>3, <1>4, HeldMeans
<1>6. /\ i \in Nat \ {0} /\ j \in Int /\ j >= i - 1 /\ \A k \in i..j : k \in 1..Len(t)
  BY <1>3, <1>5
<1>7. \A k \in i..j : t[k] \in Objects \union {Nil}
  BY <1>5, <1>6, SeqFacts
<1>8. /\ u \in Seq(Objects \union {Nil}) /\ Len(u) = j - i + 1
      /\ \A k \in 1..(j - i + 1) : u[k] = t[i + k - 1]
  <2>1. Piece(Objects \union {Nil}, u, t, i, j)
    BY <1>2, <1>6, <1>7, PieceOf
  <2> QED
    BY <2>1 DEF Piece
<1>9. LivesIn(u)
  <2>1. DOMAIN u = 1..(j - i + 1)
    BY <1>8, SeqFacts
  <2>2. \A k \in 1..(j - i + 1) : i + k - 1 \in i..j
    BY <1>6
  <2> QED
    BY <1>5, <1>6, <1>8, <2>1, <2>2 DEF LivesIn
<1>10. Fits(new, u)
  BY <1>3, <1>8, <1>9 DEF Fits
<1> QED
  BY <1>3, <1>10, NewKeeps

LEMMA OtherLoadKeeps ==
  ASSUME IInv, NEW o \in Objects, NEW op \in {"inc", "dec"}, OtherLoad(o, op)
  PROVE  IInv'
<1>1. /\ Held(o) /\ ~lost /\ other' = [op |-> op, obj |-> o, read |-> rc[o]]
      /\ UNCHANGED <<alive, rc, roots, slots, tracked, lost, crash>>
  BY DEF OtherLoad, Running
<1>2. rc[o] \in Int /\ roots[o] \in Nat
  BY Numbers
<1>3. other' \in [op : {"inc", "dec"}, obj : Objects, read : Int] /\ other'.obj = o
  BY <1>1, <1>2
<1>4. TypeOK'
  BY <1>1, <1>3 DEF IInv, TypeOK
<1>5. OtherHolds'
  BY <1>1, <1>2, <1>3 DEF OtherHolds, Held
<1>6. (HeapType(slots) /\ Balanced /\ Linked)'
  BY <1>1 DEF IInv, HeapType, Balanced, Linked, Children
<1> QED
  BY <1>4, <1>5, <1>6 DEF IInv

LEMMA TrackKeeps ==
  ASSUME IInv, NEW o \in Objects, Track(o) \/ Untrack(o)
  PROVE  IInv'
<1>1. /\ tracked' \subseteq Objects
      /\ UNCHANGED <<alive, rc, roots, slots, other, lost, crash>>
  BY DEF Track, Untrack, IInv, TypeOK
<1>2. TypeOK' /\ (HeapType(slots))' /\ (Balanced' <=> Balanced) /\ (Linked' <=> Linked)
      /\ (OtherHolds' <=> OtherHolds)
  BY <1>1 DEF IInv, TypeOK, HeapType, Balanced, Linked, Children, OtherHolds
<1> QED
  BY <1>1, <1>2 DEF IInv

\* The store of the other thread, when nothing came between.
LEMMA OtherStoreKeeps ==
  ASSUME IInv, OtherStore
  PROVE  IInv'
<1>1. PICK o : o = other.obj
  OBVIOUS
<1>2. PICK c : c = [rc EXCEPT ![o] = other.read]
  OBVIOUS
<1>3. /\ ~lost /\ other # NoUpdate /\ lost' = (rc[o] # other.read)
      /\ \/ /\ RoomForRoot /\ roots' = [roots EXCEPT ![o] = @ + 1]
            /\ rc' = [c EXCEPT ![o] = @ + 1] /\ UNCHANGED <<alive, slots>>
         \/ /\ roots' = [roots EXCEPT ![o] = @ - 1]
            /\ Release(c, slots, Drop({o}))
      /\ other' = NoUpdate /\ UNCHANGED <<tracked, crash>>
  BY <1>1, <1>2 DEF OtherStore, Running
<1>4. /\ alive \in SUBSET Objects /\ rc \in [Objects -> Int]
      /\ roots \in [Objects -> 0..MaxRoots] /\ HeapType(slots)
      /\ o \in Objects /\ other.read \in Int
  BY <1>1, <1>3 DEF IInv, TypeOK
<1>5. o \in alive /\ roots[o] > 0
  BY <1>1, <1>3 DEF IInv, OtherHolds
<1>6. roots[o] \in Nat /\ roots[o] <= MaxRoots /\ MaxRoots \in Nat /\ rc[o] \in Int
  BY <1>4, Numbers
<1>7. c \in [Objects -> Int]
  BY <1>2, <1>4
<1>8. ~lost' => c = rc
  BY <1>2, <1>3, <1>4
<1>9. ASSUME TypesNext, lost' \/ (Balanced' /\ Linked') PROVE IInv'
  <2>1. TypeOK'
    BY <1>3, <1>9 DEF TypesNext, TypeOK, HeapType
  <2>2. OtherHolds'
    BY <1>3 DEF OtherHolds
  <2> QED
    BY <1>9, <2>1, <2>2 DEF IInv, TypesNext
<1>10. CASE /\ RoomForRoot /\ roots' = [roots EXCEPT ![o] = @ + 1]
            /\ rc' = [c EXCEPT ![o] = @ + 1] /\ UNCHANGED <<alive, slots>>
  <2>1. roots[o] < MaxRoots
    BY <1>4, <1>10, RoomMeans DEF IInv
  <2>2. roots[o] + 1 \in 0..MaxRoots /\ c[o] + 1 \in Int
    BY <1>4, <1>6, <1>7, <2>1
  <2>3. roots' \in [Objects -> 0..MaxRoots] /\ rc' \in [Objects -> Int]
    BY <1>4, <1>7, <1>10, <2>2
  <2>4. TypesNext
    BY <1>3, <1>4, <1>10, <2>3 DEF TypesNext, IInv, TypeOK, HeapType
  <2>5. ASSUME ~lost' PROVE Balanced' /\ Linked'
    <3>1. Taken(o)
      BY <1>3, <1>8, <1>10, <2>5 DEF Taken
    <3> QED
      BY <1>3, <1>5, <1>10, <3>1, TakenKeeps
  <2> QED
    BY <1>9, <2>4, <2>5
<1>11. CASE roots' = [roots EXCEPT ![o] = @ - 1] /\ Release(c, slots, Drop({o}))
  <2>1. roots[o] - 1 \in 0..MaxRoots
    BY <1>5, <1>6
  <2>2. roots' \in [Objects -> 0..MaxRoots]
    BY <1>4, <1>11, <2>1
  <2>3. Typed(c, slots, Drop({o}))
    BY <1>4, <1>7, DropCounts DEF Typed
  <2>4. TypesAfter
    BY <1>11, <2>3, ReleaseTypes
  <2>5. TypesNext
    BY <1>3, <1>4, <2>2, <2>4 DEF TypesAfter, TypesNext, IInv, TypeOK
  <2>6. ASSUME ~lost' PROVE Balanced' /\ Linked'
    <3>1. Owes(rc, slots, Drop({o}), roots')
      BY <1>3, <1>5, <1>11, LetOwes
    <3> QED
      BY <1>8, <1>11, <2>3, <2>6, <3>1, ReleaseKeeps
  <2> QED
    BY <1>9, <2>5, <2>6
<1> QED
  BY <1>3, <1>10, <1>11
-----------------------------------------------------------------------------
(***************************************************************************)
(* The collector.                                                          *)
(***************************************************************************)
\* What is left of a count: the references from outside the tracked set.
LEMMA GcRefsMean ==
  ASSUME IInv, ~lost, tracked \subseteq alive, NEW o \in tracked
  PROVE  /\ GcRefs(o) \in Nat
         /\ GcRefs(o) > 0 <=> \/ o \in Rooted
                              \/ \E u \in alive \ tracked : o \in Children(slots, u)
<1>1. alive \in SUBSET Objects /\ tracked \in SUBSET alive /\ o \in Objects /\ o \in alive
      /\ alive \ tracked \in SUBSET Objects /\ HeapType(slots)
  BY DEF IInv, TypeOK
<1>2. rc[o] = roots[o] + RefCount(slots, alive, o)
  BY <1>1 DEF IInv, Balanced
<1>3. PICK n : n = RefCount(slots, alive \ tracked, o)
  OBVIOUS
<1>4. RefCount(slots, alive, o) = RefCount(slots, tracked, o) + n
      /\ RefCount(slots, tracked, o) \in Nat /\ n \in Nat
  <2>1. Parts(slots, alive, tracked, o)
    BY <1>1, RefsRest
  <2> QED
    BY <1>3, <2>1 DEF Parts
<1>5. roots[o] \in Nat
  BY <1>1, Numbers
<1>6. GcRefs(o) = roots[o] + n
  BY <1>2, <1>4, <1>5 DEF GcRefs
<1>7. n > 0 <=> \E u \in alive \ tracked : o \in Children(slots, u)
  BY <1>1, <1>3, RefsMean
<1>8. roots[o] > 0 <=> o \in Rooted
  BY <1>1 DEF Rooted
<1> QED
  BY <1>4, <1>5, <1>6, <1>7, <1>8

\* No one but garbage holds garbage.
LEMMA GarbageMeans ==
  ASSUME IInv, ~lost, tracked \subseteq alive
  PROVE  /\ Garbage \subseteq tracked
         /\ \A o \in Garbage : /\ roots[o] = 0
                               /\ \A p \in alive \ Garbage : o \notin Children(slots, p)
<1>1. alive \subseteq Objects /\ tracked \subseteq Objects
  BY DEF IInv, TypeOK
<1>2. PICK F : F = {o \in tracked : GcRefs(o) > 0}
  OBVIOUS
<1>3. PICK Z : Z = {o \in tracked : GcRefs(o) = 0}
  OBVIOUS
<1>4. Restored = Reach(slots, F, Z) /\ Garbage = Z \ Restored
  BY <1>2, <1>3 DEF Restored, Garbage
<1>5. F \in SUBSET Objects /\ Z \in SUBSET Objects
  BY <1>1, <1>2, <1>3
<1>6. F \subseteq Restored /\ Closed(slots, Restored, Z)
  BY <1>4, <1>5, ReachHolds, ReachClosed
<1>7. ASSUME NEW o \in Garbage
      PROVE  /\ roots[o] = 0
             /\ \A p \in alive \ Garbage : o \notin Children(slots, p)
  <2>1. o \in tracked /\ o \in Objects /\ GcRefs(o) = 0 /\ o \in Z /\ o \notin Restored
    BY <1>1, <1>3, <1>4
  <2>2. o \notin Rooted /\ \A u \in alive \ tracked : o \notin Children(slots, u)
    BY <2>1, GcRefsMean
  <2>3. roots[o] = 0
    BY <2>1, <2>2, Numbers DEF Rooted
  <2>4. ASSUME NEW p \in alive \ Garbage, o \in Children(slots, p) PROVE FALSE
    <3>1. p \in tracked
      BY <2>2, <2>4
    <3>2. p \in F \/ p \in Z
      BY <1>2, <1>3, <3>1, GcRefsMean
    <3>3. p \in Restored
      BY <1>4, <1>6, <2>4, <3>2
    <3> QED
      BY <1>6, <2>1, <2>4, <3>3 DEF Closed
  <2> QED
    BY <2>3, <2>4
<1> QED
  BY <1>3, <1>4, <1>7

\* To an object that is not garbage every reference stays.
LEMMA CutRefs ==
  ASSUME NEW g, NEW A \in SUBSET Objects, NEW q \in Objects, q \notin g
  PROVE  RefCount(Cut(g), A, q) = RefCount(slots, A, q)
<1>1. PICK s : s = Cut(g)
  OBVIOUS
<1>2. \A p \in A : /\ DOMAIN s[p] = DOMAIN slots[p]
                   /\ \A i \in DOMAIN slots[p] :
                        s[p][i] = IF p \in g /\ slots[p][i] \in g THEN Nil ELSE slots[p][i]
  <2>1. \A p \in A : s[p] = IF p \in g THEN [i \in DOMAIN slots[p] |->
                                               IF slots[p][i] \in g THEN Nil ELSE slots[p][i]]
                            ELSE slots[p]
    BY <1>1 DEF Cut
  <2> QED
    BY <2>1
<1>3. q # Nil
  BY RefHeapAssumption
<1>4. \A p \in A : \A i : i \in DOMAIN s[p] /\ s[p][i] = q
                          <=> i \in DOMAIN slots[p] /\ slots[p][i] = q
  BY <1>2, <1>3
<1>5. Refs(s, A, q) = Refs(slots, A, q)
  BY <1>4 DEF Refs
<1> QED
  BY <1>1, <1>5 DEF RefCount

LEMMA CutMeans ==
  ASSUME IInv, ~lost, NEW g \in SUBSET alive,
         \A o \in g : \A p \in alive \ g : o \notin Children(slots, p)
  PROVE  /\ HeapType(Cut(g))
         /\ \A p \in alive : Children(Cut(g), p) \subseteq alive
         /\ \A p \in Objects \ alive : Cut(g)[p] = <<>>
         /\ \A q \in alive : RefCount(Cut(g), alive, q)
                               = IF q \in g THEN 0 ELSE RefCount(slots, alive, q)
<1>1. alive \in SUBSET Objects /\ HeapType(slots)
  BY DEF IInv, TypeOK
<1>2. PICK s : s = Cut(g)
  OBVIOUS
<1>3. \A p \in Objects :
        s[p] = IF p \in g THEN [i \in DOMAIN slots[p] |-> IF slots[p][i] \in g THEN Nil ELSE slots[p][i]]
               ELSE slots[p]
  BY <1>2 DEF Cut
<1>4. ASSUME NEW p \in Objects PROVE s[p] \in Seq(Objects \union {Nil}) /\ Len(s[p]) <= Width[p]
  <2>1. /\ slots[p] \in Seq(Objects \union {Nil}) /\ DOMAIN slots[p] = 1..Len(slots[p])
        /\ Len(slots[p]) \in Nat /\ Len(slots[p]) <= Width[p]
    BY <1>1, HeapPositions
  <2>2. CASE p \in g
    <3>1. PICK n \in Nat : n = Len(slots[p])
      BY <2>1
    <3>2. \A i \in 1..n : slots[p][i] \in Objects \union {Nil}
      BY <2>1, <3>1, SeqFacts
    <3>3. s[p] = [i \in 1..n |-> IF slots[p][i] \in g THEN Nil ELSE slots[p][i]]
      BY <1>3, <2>1, <2>2, <3>1
    <3>4. s[p] \in [1..n -> Objects \union {Nil}]
      BY <3>2, <3>3
    <3>5. s[p] \in Seq(Objects \union {Nil}) /\ Len(s[p]) = n
      BY <3>1, <3>4, SeqDef
    <3> QED
      BY <2>1, <3>1, <3>5
  <2>3. CASE p \notin g
    BY <1>3, <2>1, <2>3
  <2> QED
    BY <2>2, <2>3
<1>5. HeapType(s)
  <2>1. DOMAIN s = Objects /\ s = [p \in Objects |-> s[p]]
    BY <1>2 DEF Cut
  <2> QED
    BY <1>4, <2>1 DEF HeapType
<1>6. \A p \in Objects : /\ DOMAIN s[p] = DOMAIN slots[p]
                         /\ \A i \in DOMAIN slots[p] :
                              s[p][i] = IF p \in g /\ slots[p][i] \in g THEN Nil ELSE slots[p][i]
  BY <1>3
<1>7. ASSUME NEW p \in alive PROVE Children(s, p) \subseteq alive
  <2>1. Children(s, p) \subseteq Children(slots, p)
    BY <1>1, <1>6 DEF Children
  <2> QED
    BY <2>1 DEF IInv, Linked
<1>8. \A p \in Objects \ alive : s[p] = <<>>
  BY <1>3 DEF IInv, Linked
<1>9. ASSUME NEW q \in alive, q \in g PROVE RefCount(s, alive, q) = 0
  <2>1. q # Nil /\ q \in Objects
    BY <1>1, RefHeapAssumption
  <2>2. ASSUME NEW p \in alive, q \in Children(s, p) PROVE FALSE
    <3>1. PICK i \in DOMAIN s[p] : s[p][i] = q
      BY <2>2 DEF Children
    <3>2. p \in Objects /\ i \in DOMAIN slots[p]
          /\ s[p][i] = IF p \in g /\ slots[p][i] \in g THEN Nil ELSE slots[p][i]
      BY <1>1, <1>6, <3>1
    <3>3. p \notin g /\ slots[p][i] = q
      BY <1>9, <2>1, <3>1, <3>2
    <3>4. q \in Children(slots, p)
      BY <2>1, <3>2, <3>3 DEF Children
    <3> QED
      BY <1>9, <3>3, <3>4
  <2>3. ~(RefCount(s, alive, q) > 0)
    BY <1>1, <1>5, <2>1, <2>2, RefsMean
  <2> QED
    BY <1>1, <2>3, RefsType
<1>10. ASSUME NEW q \in alive, q \notin g PROVE RefCount(s, alive, q) = RefCount(slots, alive, q)
  BY <1>1, <1>2, <1>10, CutRefs
<1> QED
  BY <1>2, <1>5, <1>7, <1>8, <1>9, <1>10

CutCounts(g) ==
  [o \in Objects |-> IF o \in g THEN rc[o] - RefCount(slots, g, o) ELSE rc[o]]

LEMMA CollectOwes ==
  ASSUME IInv, ~lost, tracked \subseteq alive
  PROVE  /\ Typed(CutCounts(Garbage), Cut(Garbage), Drop(Garbage))
         /\ Owes(CutCounts(Garbage), Cut(Garbage), Drop(Garbage), roots)
<1>1. PICK g : g = Garbage
  OBVIOUS
<1>2. PICK c : c = CutCounts(g)
  OBVIOUS
<1>3. /\ alive \in SUBSET Objects /\ rc \in [Objects -> Int] /\ HeapType(slots)
      /\ roots \in [Objects -> 0..MaxRoots] /\ MaxRoots \in Nat
  BY RefHeapAssumption DEF IInv, TypeOK
<1>4. /\ g \subseteq tracked
      /\ \A o \in g : roots[o] = 0 /\ \A p \in alive \ g : o \notin Children(slots, p)
  BY <1>1, GarbageMeans
<1>5. g \in SUBSET alive /\ g \in SUBSET Objects /\ alive \ g \in SUBSET Objects
  BY <1>3, <1>4
<1>6. /\ HeapType(Cut(g))
      /\ \A p \in alive : Children(Cut(g), p) \subseteq alive
      /\ \A p \in Objects \ alive : Cut(g)[p] = <<>>
      /\ \A q \in alive : RefCount(Cut(g), alive, q)
                            = IF q \in g THEN 0 ELSE RefCount(slots, alive, q)
  BY <1>4, <1>5, CutMeans
<1>7. c \in [Objects -> Int]
  <2>1. \A o \in Objects : rc[o] \in Int /\ RefCount(slots, g, o) \in Int
    BY <1>3, <1>5, RefsType
  <2> QED
    BY <1>2, <2>1 DEF CutCounts
<1>8. Drop(g) \in [Objects -> Nat] /\ \A o \in Objects : Drop(g)[o] = IF o \in g THEN 1 ELSE 0
  BY DEF Drop
<1>9. \A o \in Objects : c[o] = IF o \in g THEN rc[o] - RefCount(slots, g, o) ELSE rc[o]
  BY <1>2 DEF CutCounts
<1>10. ASSUME NEW o \in alive
       PROVE  rc[o] = roots[o] + RefCount(slots, alive, o) /\ rc[o] > 0 /\ rc[o] \in Int
              /\ roots[o] \in Nat /\ RefCount(slots, alive, o) \in Nat
  <2>1. rc[o] = roots[o] + RefCount(slots, alive, o) /\ rc[o] > 0
    BY DEF IInv, Balanced
  <2> QED
    BY <1>3, <2>1, Numbers
<1>11. ASSUME NEW o \in g PROVE c[o] = 0
  <2>1. Parts(slots, alive, g, o)
    BY <1>3, <1>5, RefsRest
  <2>2. ~(RefCount(slots, alive \ g, o) > 0)
    BY <1>3, <1>4, <1>5, RefsMean
  <2>3. RefCount(slots, alive, o) = RefCount(slots, g, o) /\ RefCount(slots, g, o) \in Nat
    BY <2>1, <2>2 DEF Parts
  <2>4. roots[o] = 0 /\ c[o] = rc[o] - RefCount(slots, g, o)
    BY <1>4, <1>5, <1>9
  <2>5. rc[o] = roots[o] + RefCount(slots, alive, o)
    BY <1>5, <1>10
  <2> QED
    BY <2>3, <2>4, <2>5
<1>12. ASSUME NEW o \in alive
       PROVE  \/ /\ c[o] = roots[o] + Drop(g)[o] + RefCount(Cut(g), alive, o)
                 /\ c[o] > 0
              \/ /\ roots[o] = 0 /\ RefCount(Cut(g), alive, o) = 0
                 /\ Drop(g)[o] > 0 /\ c[o] <= Drop(g)[o]
  <2>1. CASE o \in g
    <3>1. roots[o] = 0 /\ RefCount(Cut(g), alive, o) = 0
      BY <1>4, <1>6, <2>1
    <3>2. Drop(g)[o] = 1 /\ c[o] = 0
      BY <1>3, <1>8, <1>11, <2>1
    <3> QED
      BY <3>1, <3>2
  <2>2. CASE o \notin g
    <3>1. RefCount(Cut(g), alive, o) = RefCount(slots, alive, o)
      BY <1>6, <2>2
    <3>2. Drop(g)[o] = 0 /\ c[o] = rc[o]
      BY <1>3, <1>8, <1>9, <2>2
    <3> QED
      BY <1>10, <3>1, <3>2
  <2> QED
    BY <2>1, <2>2
<1>13. Typed(c, Cut(g), Drop(g))
  BY <1>3, <1>6, <1>7, <1>8 DEF Typed
<1>14. Owes(c, Cut(g), Drop(g), roots)
  <2>1. roots \in [Objects -> Nat]
    BY <1>3
  <2>2. \A o \in Objects \ alive : roots[o] = 0
    BY DEF IInv, Balanced
  <2> QED
    BY <1>6, <1>12, <2>1, <2>2 DEF Owes
<1> QED
  BY <1>1, <1>2, <1>13, <1>14

\* A collection of live nodes.
LEMMA CollectMeans ==
  ASSUME Collect, tracked \subseteq alive
  PROVE  /\ ~lost /\ UNCHANGED <<roots, other, lost, crash>>
         /\ tracked' = tracked \ Garbage
         /\ Release(CutCounts(Garbage), Cut(Garbage), Drop(Garbage))
BY DEF Collect, Running, CutCounts

LEMMA CollectKeeps ==
  ASSUME IInv, Collect
  PROVE  IInv'
<1>1. CASE ~(tracked \subseteq alive)
  <2>1. crash' = TRUE /\ UNCHANGED <<alive, rc, slots, tracked, roots, other, lost>>
    BY <1>1 DEF Collect
  <2>2. TypeOK' /\ (HeapType(slots))' /\ (Balanced' <=> Balanced) /\ (Linked' <=> Linked)
        /\ (OtherHolds' <=> OtherHolds)
    BY <2>1 DEF IInv, TypeOK, HeapType, Balanced, Linked, Children, OtherHolds
  <2> QED
    BY <2>1, <2>2 DEF IInv
<1>2. CASE tracked \subseteq alive
  <2>1. /\ ~lost /\ UNCHANGED <<roots, other, lost, crash>>
        /\ tracked' = tracked \ Garbage
        /\ Release(CutCounts(Garbage), Cut(Garbage), Drop(Garbage))
    BY <1>2, CollectMeans
  <2>2. /\ Typed(CutCounts(Garbage), Cut(Garbage), Drop(Garbage))
        /\ Owes(CutCounts(Garbage), Cut(Garbage), Drop(Garbage), roots')
    BY <1>2, <2>1, CollectOwes
  <2>3. TypesAfter
    BY <2>1, <2>2, ReleaseTypes
  <2>4. Balanced' /\ Linked'
    BY <2>1, <2>2, ReleaseKeeps
  <2>5. TypesNext
    BY <2>1, <2>3 DEF TypesAfter, TypesNext, IInv, TypeOK
  <2>6. OtherKept
    BY <2>1 DEF OtherKept, IInv, OtherHolds
  <2> QED
    BY <2>1, <2>4, <2>5, <2>6, Preserved
<1> QED
  BY <1>1, <1>2

LEMMA NextIInv == IInv /\ [Next]_vars => IInv'
<1> SUFFICES ASSUME IInv, [Next]_vars PROVE IInv'
  OBVIOUS
<1>1. CASE UNCHANGED vars
  BY <1>1 DEF vars, IInv, TypeOK, HeapType, Balanced, Linked, Children, OtherHolds, NoUpdate
<1>2. ASSUME NEW o \in Objects, NEW n \in 0..Width[o], NEW init \in [1..n -> Values],
             New(o, init)
      PROVE  IInv'
  BY <1>2, InitialFits, NewKeeps
<1>3. ASSUME NEW o \in Objects, NEW i \in 1..Width[o], NEW v \in Values,
             SetSlot(o, i, v) \/ InsertAt(o, i, v)
      PROVE  IInv'
  BY <1>3, SetSlotKeeps, InsertAtKeeps
<1>4. ASSUME NEW o \in Objects, NEW i \in 1..Width[o], Get(o, i) \/ TakeOut(o, i) \/ RemoveAt(o, i)
      PROVE  IInv'
  BY <1>4, GetKeeps, TakeOutKeeps, RemoveAtKeeps
<1>5. ASSUME NEW o \in Objects, NEW i \in 1..Width[o], NEW j \in 1..Width[o], NEW new \in Objects,
             Slice(o, i, j, new)
      PROVE  IInv'
  BY <1>5, SliceKeeps
<1>6. ASSUME NEW o \in Objects, Copy(o) \/ Let(o) \/ Clear(o) \/ Track(o) \/ Untrack(o)
      PROVE  IInv'
  BY <1>6, CopyKeeps, LetKeeps, ClearKeeps, TrackKeeps
<1>7. ASSUME NEW o \in Objects, NEW op \in {"inc", "dec"}, OtherLoad(o, op)
      PROVE  IInv'
  BY <1>7, OtherLoadKeeps
<1>8. CASE OtherStore
  BY <1>8, OtherStoreKeeps
<1>9. CASE Collect
  BY <1>9, CollectKeeps
<1> QED
  BY <1>1, <1>2, <1>3, <1>4, <1>5, <1>6, <1>7, <1>8, <1>9 DEF Next

LEMMA InitIInv == Init => IInv
<1> SUFFICES ASSUME Init PROVE IInv
  OBVIOUS
<1>1. MaxRoots \in Nat /\ Width \in [Objects -> Nat]
  BY RefHeapAssumption
<1>2. <<>> \in Seq(Objects \union {Nil}) /\ Len(<<>>) = 0 /\ \A o \in Objects : 0 <= Width[o]
  BY <1>1
<1>3. TypeOK
  <2>1. roots \in [Objects -> 0..MaxRoots] /\ rc \in [Objects -> Int]
    BY <1>1 DEF Init
  <2>2. DOMAIN slots = Objects
        /\ \A o \in Objects : slots[o] \in Seq(Objects \union {Nil}) /\ Len(slots[o]) <= Width[o]
    BY <1>2 DEF Init
  <2> QED
    BY <2>1, <2>2 DEF Init, TypeOK
<1>4. HeapType(slots)
  BY <1>2 DEF Init, HeapType
<1>5. Balanced /\ Linked /\ OtherHolds
  BY DEF Init, Balanced, Linked, OtherHolds
<1> QED
  BY <1>3, <1>4, <1>5 DEF IInv

\* The inductive invariant of the heap: types, exact counts, references only
\* to live objects, and a reference of the other thread under its update.
THEOREM RefHeapInvariance == Spec => []IInv
BY InitIInv, NextIInv, PTL DEF Spec

\* Every value has its type, the slots of each object within their width.
THEOREM RefHeapTypeCorrect == Spec => []TypeOK
<1>1. IInv => TypeOK
  BY DEF IInv
<1> QED
  BY <1>1, RefHeapInvariance, PTL

\* Until an update is lost every count is the number of references, and an
\* object lives as long as there is one (value.c:773, gc.c:211).
THEOREM CountsExactAlways == Spec => []CountsExact
<1>1. IInv => CountsExact
  BY DEF IInv, CountsExact, Balanced
<1> QED
  BY <1>1, RefHeapInvariance, PTL

\* Until an update is lost whatever can be reached is allocated
\* (value.c:390, gc.c:390).
THEOREM NothingReachableFreedAlways == Spec => []NothingReachableFreed
<1>1. IInv => NothingReachableFreed
  <2> SUFFICES ASSUME IInv, ~lost PROVE Reachable \subseteq alive
    BY DEF NothingReachableFreed
  <2>1. alive \in SUBSET Objects
    BY DEF IInv, TypeOK
  <2>2. Rooted \subseteq alive
    BY DEF IInv, Balanced, Rooted
  <2>3. Closed(slots, alive, Objects)
    BY DEF IInv, Linked, Closed
  <2> QED
    BY <2>1, <2>2, <2>3, ReachLeast DEF Reachable
<1> QED
  BY <1>1, RefHeapInvariance, PTL

\* Garbage is what is reached neither from outside nor from an untracked object.
LEMMA GarbageReach ==
  ASSUME IInv, ~lost, tracked \subseteq alive
  PROVE  Garbage = tracked \ Reach(slots, Rooted \union (alive \ tracked), Objects)
<1>1. PICK F : F = {o \in tracked : GcRefs(o) > 0}
  OBVIOUS
<1>2. PICK Z : Z = {o \in tracked : GcRefs(o) = 0}
  OBVIOUS
<1>3. PICK first : first = Rooted \union (alive \ tracked)
  OBVIOUS
<1>4. PICK B : B = Reach(slots, first, Objects)
  OBVIOUS
<1>5. PICK R : R = Restored
  OBVIOUS
<1>6. R = Reach(slots, F, Z) /\ Garbage = Z \ R
  BY <1>1, <1>2, <1>5 DEF Restored, Garbage
<1>7. /\ alive \in SUBSET Objects /\ tracked \in SUBSET Objects /\ first \in SUBSET Objects
      /\ F \in SUBSET Objects /\ Z \in SUBSET Objects /\ Objects \in SUBSET Objects
  BY <1>1, <1>2, <1>3 DEF IInv, TypeOK, Rooted
<1>8. \A o \in tracked : o \in F <=> \/ o \in Rooted
                                     \/ \E u \in alive \ tracked : o \in Children(slots, u)
  BY <1>1, GcRefsMean
<1>9. F \union Z = tracked
  BY <1>1, <1>2, GcRefsMean
<1>10. F \subseteq R /\ Closed(slots, R, Z)
  BY <1>6, <1>7, ReachHolds, ReachClosed
<1>11. first \subseteq B /\ Closed(slots, B, Objects) /\ B \in SUBSET Objects
  BY <1>4, <1>7, ReachHolds, ReachClosed
<1>12. R \subseteq B
  <2>1. F \subseteq B
    BY <1>3, <1>7, <1>8, <1>9, <1>11 DEF Closed
  <2>2. Closed(slots, B, Z)
    BY <1>7, <1>11 DEF Closed
  <2> QED
    BY <1>6, <1>11, <2>1, <2>2, ReachLeast
<1>13. B \subseteq R \union (Objects \ tracked)
  <2>1. PICK Y : Y = R \union (Objects \ tracked)
    OBVIOUS
  <2>2. Y \in SUBSET Objects
    BY <1>7, <1>11, <1>12, <2>1
  <2>3. first \subseteq Y
    BY <1>3, <1>7, <1>8, <1>10, <2>1
  <2>4. Closed(slots, Y, Objects)
    <3> SUFFICES ASSUME NEW p \in Y, NEW q \in Children(slots, p) \intersect Objects, q \in tracked
                 PROVE  q \in R
      BY <2>1 DEF Closed
    <3>1. CASE p \in R
      BY <1>9, <1>10, <3>1 DEF Closed
    <3>2. CASE p \in alive \ tracked
      BY <1>8, <1>10, <3>2
    <3>3. CASE p \in Objects \ alive
      BY <3>3 DEF IInv, Linked, Children
    <3> QED
      BY <1>7, <2>1, <3>1, <3>2, <3>3
  <2> QED
    BY <1>4, <2>1, <2>2, <2>3, <2>4, ReachLeast
<1>14. Garbage = tracked \ B
  BY <1>6, <1>9, <1>10, <1>12, <1>13
<1> QED
  BY <1>3, <1>4, <1>14

\* Until an update is lost trial deletion finds exactly what can be reached
\* neither from outside nor from an object that is not tracked (header of
\* gc.c, lines 7 to 15).
THEOREM GarbageExactAlways == Spec => []GarbageExact
<1>1. IInv => GarbageExact
  BY GarbageReach DEF GarbageExact
<1> QED
  BY <1>1, RefHeapInvariance, PTL
-----------------------------------------------------------------------------
(***************************************************************************)
(* What a collection may destroy besides garbage.                          *)
(***************************************************************************)
\* A garbage object holds a tracked one through one that is not tracked.
HiddenHold ==
  \E g \in tracked \ Reach(slots, Rooted, Objects), u \in alive \ tracked :
    /\ u \in Reach(slots, {g}, Objects)
    /\ Reach(slots, {u}, Objects) \intersect tracked # {}

\* What garbage reaches and is not tracked.
Attached == {u \in alive \ tracked : \E g \in Garbage : u \in Reach(slots, {g}, Objects)}

LEMMA NoneAttached ==
  ASSUME IInv, ~lost, tracked \subseteq alive, ~HiddenHold,
         NEW p \in tracked, NEW u \in Attached, p \in Children(slots, u)
  PROVE  FALSE
<1>1. PICK g \in Garbage : u \in Reach(slots, {g}, Objects)
  BY DEF Attached
<1>2. u \in alive \ tracked
  BY DEF Attached
<1>3. alive \in SUBSET Objects /\ {u} \in SUBSET Objects /\ Objects \in SUBSET Objects
  BY <1>2 DEF IInv, TypeOK
<1>4. g \in tracked /\ g \notin Reach(slots, Rooted, Objects)
  <2>1. Reach(slots, Rooted, Objects) \subseteq Reach(slots, Rooted \union (alive \ tracked), Objects)
    <3>1. Rooted \union (alive \ tracked) \in SUBSET Objects
      BY <1>3 DEF Rooted
    <3> QED
      BY <1>3, <3>1, ReachHolds, ReachClosed, ReachLeast
  <2> QED
    BY <2>1, GarbageReach
<1>5. p \in Reach(slots, {u}, Objects)
  <2>1. u \in Reach(slots, {u}, Objects) /\ Closed(slots, Reach(slots, {u}, Objects), Objects)
    BY <1>3, ReachHolds, ReachClosed
  <2>2. p \in Objects
    BY <1>3
  <2> QED
    BY <2>1, <2>2 DEF Closed
<1> QED
  BY <1>1, <1>2, <1>4, <1>5 DEF HiddenHold

\* Each tracked object that stays is held from outside the garbage.
LEMMA StaysHeld ==
  ASSUME IInv, ~lost, tracked \subseteq alive, ~HiddenHold,
         NEW p \in tracked \ Garbage
  PROVE  p \in Rooted \/ \E q \in alive \ (Garbage \union Attached) : p \in Children(slots, q)
<1>1. PICK F : F = {o \in tracked : GcRefs(o) > 0}
  OBVIOUS
<1>2. PICK Z : Z = {o \in tracked : GcRefs(o) = 0}
  OBVIOUS
<1>3. PICK R : R = Reach(slots, F, Z)
  OBVIOUS
<1>4. Garbage = Z \ R
  BY <1>1, <1>2, <1>3 DEF Restored, Garbage
<1>5. alive \in SUBSET Objects /\ F \in SUBSET Objects /\ Z \in SUBSET Objects
  BY <1>1, <1>2 DEF IInv, TypeOK
<1>6. F \union Z = tracked
  BY <1>1, <1>2, GcRefsMean
<1>7. Closed(slots, R, Z) /\ F \subseteq R
  BY <1>3, <1>5, ReachHolds, ReachClosed
<1>8. CASE p \in F
  <2>1. p \in Rooted \/ \E u \in alive \ tracked : p \in Children(slots, u)
    BY <1>1, <1>8, GcRefsMean
  <2>2. ASSUME NEW u \in alive \ tracked, p \in Children(slots, u) PROVE u \notin Attached
    BY <2>2, NoneAttached
  <2>3. Garbage \subseteq tracked
    BY <1>4, <1>6
  <2> QED
    BY <2>1, <2>2, <2>3
<1>9. CASE p \notin F
  <2>1. p \in R \ F
    BY <1>4, <1>6, <1>9
  <2>2. PICK q \in R : p \in Children(slots, q)
    BY <1>3, <1>5, <1>7, <2>1, ReachStep
  <2>3. R \subseteq tracked
    <3>1. Closed(slots, tracked, Z) /\ F \subseteq tracked /\ tracked \in SUBSET Objects
      BY <1>5, <1>6 DEF Closed
    <3> QED
      BY <1>3, <3>1, ReachLeast
  <2>4. q \in alive /\ q \notin Garbage /\ q \notin Attached
    BY <1>4, <2>2, <2>3 DEF Attached
  <2> QED
    BY <2>2, <2>4
<1> QED
  BY <1>8, <1>9

\* Nothing else is destroyed than garbage and what is attached to it.
LEMMA GoneBounded ==
  ASSUME IInv, ~lost, tracked \subseteq alive, ~HiddenHold
  PROVE  Destroyed(CutCounts(Garbage), Cut(Garbage), Drop(Garbage))
           \subseteq Garbage \union Attached
<1>1. PICK g : g = Garbage
  OBVIOUS
<1>2. PICK X : X = g \union Attached
  OBVIOUS
<1>3. g \subseteq tracked /\ \A o \in g : \A p \in alive \ g : o \notin Children(slots, p)
  BY <1>1, GarbageMeans
<1>4. /\ alive \in SUBSET Objects /\ tracked \in SUBSET Objects /\ HeapType(slots)
      /\ X \in SUBSET alive /\ X \in SUBSET Objects /\ alive \ X \in SUBSET Objects
  BY <1>2, <1>3 DEF IInv, TypeOK, Attached
<1>5. SUFFICES ASSUME NEW p \in alive \ X
               PROVE  ~Emptied(CutCounts(g), Cut(g), Drop(g), X, p)
  BY <1>1, <1>2, <1>4, DestroyedLeast
<1>6. p \in Objects /\ p \notin g /\ p \in alive
  BY <1>2, <1>4
<1>7. Drop(g)[p] = 0 /\ CutCounts(g)[p] = rc[p]
  BY <1>6 DEF Drop, CutCounts
<1>8. RefCount(Cut(g), X, p) = RefCount(slots, X, p)
  BY <1>4, <1>6, CutRefs
<1>9. rc[p] = roots[p] + RefCount(slots, alive, p) /\ roots[p] \in Nat
  BY <1>6, Numbers DEF IInv, Balanced
<1>10. /\ RefCount(slots, alive, p) = RefCount(slots, X, p) + RefCount(slots, alive \ X, p)
       /\ RefCount(slots, X, p) \in Nat /\ RefCount(slots, alive \ X, p) \in Nat
  <2>1. Parts(slots, alive, X, p)
    BY <1>4, RefsRest
  <2> QED
    BY <2>1 DEF Parts
<1>11. RefCount(slots, X, p) = 0 \/ rc[p] > RefCount(slots, X, p)
  <2>1. CASE p \in tracked
    <3>1. p \in Rooted \/ \E q \in alive \ X : p \in Children(slots, q)
      BY <1>1, <1>2, <1>6, <2>1, StaysHeld
    <3>2. roots[p] > 0 \/ RefCount(slots, alive \ X, p) > 0
      BY <1>4, <1>6, <3>1, RefsMean DEF Rooted
    <3> QED
      BY <1>9, <1>10, <3>2
  <2>2. CASE p \notin tracked
    <3>1. ASSUME NEW x \in X, p \in Children(slots, x) PROVE FALSE
      <4>1. PICK h \in g : x \in Reach(slots, {h}, Objects)
        <5>1. CASE x \in g
          <6>1. {x} \in SUBSET Objects
            BY <1>4
          <6> QED
            BY <5>1, <6>1, ReachHolds
        <5>2. CASE x \in Attached
          BY <1>1, <5>2 DEF Attached
        <5> QED
          BY <1>2, <5>1, <5>2
      <4>2. Closed(slots, Reach(slots, {h}, Objects), Objects)
        BY ReachClosed
      <4>3. p \in Reach(slots, {h}, Objects)
        BY <1>6, <3>1, <4>1, <4>2 DEF Closed
      <4>4. p \in Attached
        BY <1>1, <1>6, <2>2, <4>3 DEF Attached
      <4> QED
        BY <1>2, <4>4
    <3>2. ~(RefCount(slots, X, p) > 0)
      BY <1>4, <1>6, <3>1, RefsMean
    <3> QED
      BY <1>10, <3>2
  <2> QED
    BY <2>1, <2>2
<1>12. PICK n \in Nat : n = RefCount(slots, X, p)
  BY <1>10
<1>13. ~(0 + n > 0 /\ rc[p] <= 0 + n)
  <2>1. n = 0 \/ rc[p] > n
    BY <1>11, <1>12
  <2>2. rc[p] \in Int
    BY <1>6, Numbers
  <2> QED
    BY <2>1, <2>2
<1> QED
  BY <1>7, <1>8, <1>12, <1>13 DEF Emptied

LEMMA CollectLeaves ==
  ASSUME IInv, Collect, tracked \subseteq alive
  PROVE  tracked' \subseteq alive' \/ HiddenHold
<1>1. SUFFICES ASSUME ~HiddenHold PROVE tracked' \subseteq alive'
  OBVIOUS
<1>2. /\ ~lost /\ tracked' = tracked \ Garbage
      /\ Release(CutCounts(Garbage), Cut(Garbage), Drop(Garbage))
  BY CollectMeans
<1>3. alive' = alive \ Destroyed(CutCounts(Garbage), Cut(Garbage), Drop(Garbage))
  BY <1>2 DEF Release
<1>4. Destroyed(CutCounts(Garbage), Cut(Garbage), Drop(Garbage)) \subseteq Garbage \union Attached
  BY <1>1, <1>2, GoneBounded
<1>5. Attached \intersect tracked = {}
  BY DEF Attached
<1> QED
  BY <1>2, <1>3, <1>4, <1>5

\* A collection leaves a node for a freed object only if a garbage object
\* holds a tracked object through one that is not tracked (gc.c:390,
\* gc.c:441).
THEOREM CollectLeavesNodesLiveAlways == Spec => CollectLeavesNodesLive
<1>1. IInv /\ [Next]_vars
        => [UNCHANGED roots /\ tracked \subseteq alive /\ Collect =>
              \/ tracked' \subseteq alive'
              \/ \E g \in tracked \ Reach(slots, Rooted, Objects), u \in alive \ tracked :
                   /\ u \in Reach(slots, {g}, Objects)
                   /\ Reach(slots, {u}, Objects) \intersect tracked # {}]_vars
  BY CollectLeaves DEF HiddenHold
<1> QED
  BY <1>1, RefHeapInvariance, PTL DEF Spec, CollectLeavesNodesLive
=============================================================================
