----------------------------- MODULE PlacesProofs -----------------------------
(***************************************************************************)
(* What Ascending and Picked do, and induction over the places of a        *)
(* sequence.  The induction theorems of the library have an operator for a *)
(* parameter; here it is a set of numbers that has a least element.        *)
(***************************************************************************)
EXTENDS Places, TLAPS, FiniteSetTheorems, SequenceTheorems, WellFoundedInduction

(* A set of natural numbers has a least element.                           *)
LEMMA Smallest ==
  ASSUME NEW S, S \subseteq Nat, S # {}
  PROVE  \E x \in S : \A y \in S : x <= y
<1>1. IsWellFoundedOn(OpToRel(<, Nat), Nat)
  BY NatLessThanWellFounded, Zenon
<1>2. PICK x \in S : \A y \in S : ~ (<<y, x>> \in OpToRel(<, Nat))
  BY <1>1, WFMin, Zenon
<1>3. \A y \in S : ~ (y < x)
  BY <1>2 DEF OpToRel
<1>. QED
  BY <1>3

(* Two functions that begin alike and go on alike are alike: what a loop    *)
(* computes is what satisfies its equation.                                *)
GoOnAlike(f, g, N) ==
  f[0] = g[0] /\ \A n \in 1 .. N : f[n - 1] = g[n - 1] => f[n] = g[n]

LEMMA SameValues ==
  ASSUME NEW N \in Nat, NEW f, NEW g, GoOnAlike(f, g, N)
  PROVE  f[N] = g[N]
<1>. DEFINE S == {n \in 0 .. N : f[n] # g[n]}
<1>. SUFFICES ASSUME S # {} PROVE FALSE
  OBVIOUS
<1>. USE DEF GoOnAlike
<1>1. PICK n \in S : \A m \in S : n <= m
  <2>1. S \subseteq Nat
    OBVIOUS
  <2>. HIDE DEF S
  <2>. QED
    BY <2>1, Smallest
<1>2. n \in 1 .. N /\ n - 1 \in 0 .. N /\ ~ (n <= n - 1)
  OBVIOUS
<1>3. f[n - 1] = g[n - 1]
  BY <1>1, <1>2
<1>. QED
  BY <1>1, <1>2, <1>3
-----------------------------------------------------------------------------
(* The place of an element among a finite set of numbers.                  *)
Place(S, x) == Cardinality({y \in S : y <= x})

LEMMA PlaceOK ==
  ASSUME NEW S, IsFiniteSet(S), S \subseteq Nat
  PROVE  /\ Cardinality(S) \in Nat
         /\ \A x \in S : Place(S, x) \in 1 .. Cardinality(S)
         /\ \A x, y \in S : Place(S, x) = Place(S, y) => x = y
         /\ \A i \in 1 .. Cardinality(S) : \E x \in S : Place(S, x) = i
<1>. DEFINE UpTo(x) == {y \in S : y <= x}
            place == [x \in S |-> Cardinality(UpTo(x))]
            n == Cardinality(S)
<1>1. n \in Nat
  BY FS_CardinalityType
<1>2. ASSUME NEW x \in S PROVE IsFiniteSet(UpTo(x)) /\ Cardinality(UpTo(x)) \in 1 .. n
  <2>1. UpTo(x) \subseteq S /\ x \in UpTo(x)
    OBVIOUS
  <2>2. IsFiniteSet(UpTo(x)) /\ Cardinality(UpTo(x)) <= n
    BY <2>1, FS_Subset
  <2>3. Cardinality(UpTo(x)) \in Nat /\ Cardinality(UpTo(x)) # 0
    BY <2>1, <2>2, FS_CardinalityType, FS_EmptySet
  <2>. QED
    BY <1>1, <2>2, <2>3
<1>3. place \in [S -> 1 .. n]
  BY <1>2
<1>4. ASSUME NEW x \in S, NEW y \in S, x < y PROVE place[x] # place[y]
  <2>1. UpTo(x) \subseteq UpTo(y) /\ y \in UpTo(y) /\ y \notin UpTo(x)
    <3>1. x \in Nat /\ y \in Nat /\ \A z \in S : z \in Nat
      OBVIOUS
    <3>2. (\A z \in S : z <= x => z <= y) /\ y <= y /\ ~ (y <= x)
      BY <1>4, <3>1
    <3>. QED
      BY <3>2
  <2>2. UpTo(x) # UpTo(y)
    BY <2>1
  <2>. QED
    BY <1>2, <2>1, <2>2, FS_Subset
<1>5. \A x, y \in S : place[x] = place[y] => x = y
  <2>. SUFFICES ASSUME NEW x \in S, NEW y \in S, place[x] = place[y] PROVE x = y
    OBVIOUS
  <2>1. ~ (x < y) /\ ~ (y < x)
    BY <1>4
  <2>. QED
    BY <2>1
<1>6. place \in Injection(S, 1 .. n)
  <2>. HIDE DEF place
  <2>. QED
    BY <1>3, <1>5 DEF Injection, IsInjective
<1>7. \A i \in 1 .. n : \E x \in S : place[x] = i
  <2>1. IsFiniteSet(1 .. n) /\ Cardinality(1 .. n) = n
    BY <1>1, FS_Interval
  <2>2. place \in Surjection(S, 1 .. n)
    <3>. HIDE DEF place
    <3>. QED
      BY <1>6, <2>1, FS_Injection
  <2>. QED
    BY <2>2 DEF Surjection
<1>8. \A x \in S : Place(S, x) = place[x]
  BY DEF Place
<1>. HIDE DEF place
<1>. QED
  BY <1>1, <1>3, <1>5, <1>7, <1>8

(* A sequence with one more element.                                       *)
LEMMA Longer ==
  ASSUME NEW n \in Nat, NEW A, NEW B, NEW e,
         NEW a \in [1 .. n -> A], NEW b \in [1 .. n + 1 -> B],
         \A i \in 1 .. n : b[i] = a[i], b[n + 1] = e
  PROVE  b = Append(a, e)
<1>. DEFINE S == A \cup {e}
            c == Append(a, e)
<1>1. a \in [1 .. n -> S] /\ e \in S
  OBVIOUS
<1>. HIDE DEF S
<1>2. a \in Seq(S)
  BY <1>1, SeqDef
<1>3. Len(a) = n
  BY <1>1, <1>2
<1>4. c \in Seq(S) /\ Len(c) = n + 1 /\ c[n + 1] = e /\ \A i \in 1 .. n : c[i] = a[i]
  BY <1>1, <1>2, <1>3
<1>. HIDE DEF c
<1>5. c = [i \in 1 .. n + 1 |-> c[i]]
  BY <1>4
<1>6. \A i \in 1 .. n + 1 : b[i] = c[i]
  <2>1. \A i \in 1 .. n + 1 : i \in 1 .. n \/ i = n + 1
    OBVIOUS
  <2>. QED
    BY <1>4, <2>1
<1>. QED
  BY <1>5, <1>6 DEF c

(* Ascending lists every element of a finite set of numbers once, each at  *)
(* its place.                                                              *)
LEMMA AscendingOnce ==
  ASSUME NEW S, IsFiniteSet(S), S \subseteq Nat
  PROVE  /\ Cardinality(S) \in Nat
         /\ Ascending(S) \in [1 .. Cardinality(S) -> S]
         /\ \A i \in 1 .. Cardinality(S) : Place(S, Ascending(S)[i]) = i
         /\ \A i, j \in 1 .. Cardinality(S) : Ascending(S)[i] = Ascending(S)[j] => i = j
<1>. DEFINE n == Cardinality(S)
            place == [x \in S |-> Cardinality({y \in S : y <= x})]
<1>1. n \in Nat /\ \A i \in 1 .. n : \E x \in S : place[x] = i
  <2>1. \A x \in S : place[x] = Place(S, x)
    BY DEF Place
  <2>2. n \in Nat /\ \A i \in 1 .. n : \E x \in S : Place(S, x) = i
    BY PlaceOK
  <2>. HIDE DEF place, n
  <2>. QED
    BY <2>1, <2>2
<1>2. \A x \in S : place[x] = Place(S, x)
  BY DEF Place
<1>. HIDE DEF place
<1>3. Ascending(S) = [i \in 1 .. n |-> CHOOSE x \in S : place[x] = i]
  BY DEF Ascending, place
<1>4. \A i \in 1 .. n : Ascending(S)[i] \in S /\ place[Ascending(S)[i]] = i
  BY <1>1, <1>3
<1>5. \A i \in 1 .. n : Place(S, Ascending(S)[i]) = i
  BY <1>2, <1>4
<1>. QED
  BY <1>1, <1>3, <1>4, <1>5

LEMMA AscendingNone == Ascending({}) = <<>>
<1>1. Cardinality({}) = 0
  BY FS_EmptySet
<1>. QED
  BY <1>1 DEF Ascending

(* A number beyond all others comes last.                                  *)
LEMMA AscendingGrows ==
  ASSUME NEW S, IsFiniteSet(S), S \subseteq Nat, NEW m \in Nat, \A x \in S : x < m
  PROVE  /\ IsFiniteSet(S \cup {m})
         /\ Ascending(S \cup {m}) = Append(Ascending(S), m)
<1>. DEFINE T == S \cup {m}
            n == Cardinality(S)
            a == Ascending(S)
            b == Ascending(T)
<1>1. m \notin S /\ T \subseteq Nat
  OBVIOUS
<1>2. IsFiniteSet(T) /\ Cardinality(T) = n + 1 /\ n \in Nat
  BY <1>1, FS_AddElement, FS_CardinalityType
<1>3. \A x \in S : Place(T, x) = Place(S, x)
  <2>. SUFFICES ASSUME NEW x \in S PROVE Place(T, x) = Place(S, x)
    OBVIOUS
  <2>1. x < m /\ x \in Nat
    OBVIOUS
  <2>2. {y \in T : y <= x} = {y \in S : y <= x}
    BY <2>1
  <2>. QED
    BY <2>2 DEF Place
<1>4. Place(T, m) = n + 1
  <2>1. \A y \in T : y <= m
    OBVIOUS
  <2>2. {y \in T : y <= m} = T
    BY <2>1
  <2>. QED
    BY <1>2, <2>2 DEF Place
<1>5. /\ a \in [1 .. n -> S]
      /\ \A i \in 1 .. n : Place(S, a[i]) = i
  BY AscendingOnce
<1>. HIDE DEF a, b, n
<1>6. /\ b \in [1 .. n + 1 -> T]
      /\ \A i \in 1 .. n + 1 : Place(T, b[i]) = i
  <2>. HIDE DEF T
  <2>. QED
    BY <1>1, <1>2, AscendingOnce DEF b
<1>7. \A x, y \in T : Place(T, x) = Place(T, y) => x = y
  <2>. HIDE DEF T
  <2>. QED
    BY <1>1, <1>2, PlaceOK
<1>8. \A i \in 1 .. n : b[i] = a[i]
  <2>. SUFFICES ASSUME NEW i \in 1 .. n PROVE b[i] = a[i]
    OBVIOUS
  <2>1. i \in 1 .. n + 1 /\ a[i] \in S /\ a[i] \in T
    BY <1>2, <1>5
  <2>2. Place(T, a[i]) = i /\ Place(T, b[i]) = i /\ b[i] \in T
    BY <1>3, <1>5, <1>6, <2>1
  <2>. QED
    BY <1>7, <2>1, <2>2
<1>9. b[n + 1] = m
  <2>1. n + 1 \in 1 .. n + 1 /\ m \in T
    BY <1>2
  <2>. QED
    BY <1>4, <1>6, <1>7, <2>1
<1>10. b = Append(a, m)
  BY <1>2, <1>5, <1>6, <1>8, <1>9, Longer
<1>. QED
  BY <1>2, <1>10 DEF a, b
-----------------------------------------------------------------------------
(* What is picked from a sequence.                                         *)

LEMMA PickedNone == ASSUME NEW seq PROVE Picked(seq, {}) = <<>>
  BY AscendingNone DEF Picked

LEMMA PickedGrows ==
  ASSUME NEW seq, NEW S, IsFiniteSet(S), S \subseteq Nat, NEW m \in Nat, \A x \in S : x < m
  PROVE  Picked(seq, S \cup {m}) = Append(Picked(seq, S), seq[m])
<1>. DEFINE n == Cardinality(S)
            a == Ascending(S)
            b == Ascending(S \cup {m})
            p == Picked(seq, S)
            q == Picked(seq, S \cup {m})
<1>1. n \in Nat /\ a \in [1 .. n -> S]
  BY AscendingOnce
<1>2. b = Append(a, m)
  BY AscendingGrows
<1>. HIDE DEF a, b, n
<1>3. a \in Seq(S \cup {m}) /\ Len(a) = n
  <2>1. a \in [1 .. n -> S \cup {m}]
    BY <1>1
  <2>2. a \in Seq(S \cup {m})
    BY <1>1, <2>1, SeqDef
  <2>. QED
    BY <1>1, <2>1, <2>2
<1>4. DOMAIN b = 1 .. n + 1 /\ b[n + 1] = m /\ \A i \in 1 .. n : b[i] = a[i]
  BY <1>1, <1>2, <1>3
<1>5. p = [i \in 1 .. n |-> seq[a[i]]] /\ q = [i \in 1 .. n + 1 |-> seq[b[i]]]
  <2>1. DOMAIN a = 1 .. n /\ DOMAIN b = 1 .. n + 1
    BY <1>1, <1>4
  <2>. QED
    BY <2>1 DEF Picked, a, b
<1>. HIDE DEF p, q
<1>6. \E A, B : p \in [1 .. n -> A] /\ q \in [1 .. n + 1 -> B]
  <2>1. p \in [1 .. n -> {p[i] : i \in 1 .. n}] /\ q \in [1 .. n + 1 -> {q[i] : i \in 1 .. n + 1}]
    BY <1>5
  <2>. QED
    BY <2>1
<1>7. (\A i \in 1 .. n : q[i] = p[i]) /\ q[n + 1] = seq[m]
  <2>1. n + 1 \in 1 .. n + 1 /\ \A i \in 1 .. n : i \in 1 .. n + 1
    BY <1>1
  <2>. QED
    BY <1>4, <1>5, <2>1
<1>8. q = Append(p, seq[m])
  BY <1>1, <1>6, <1>7, Longer
<1>. QED
  BY <1>8 DEF p, q
=============================================================================
