-------------------------- MODULE CellGraphProofs ---------------------------
(***************************************************************************)
(* Facts about the loops of CellGraph, for any graph.  What a loop         *)
(* computes is defined by recursion over data, and the induction theorems  *)
(* of the library take an operator: the inductions here are over natural   *)
(* numbers, by the least number outside a set.                             *)
(***************************************************************************)
EXTENDS CellGraph, FiniteSetTheorems, SequenceTheorems, WellFoundedInduction, TLAPS

-----------------------------------------------------------------------------
(***************************************************************************)
(* Induction.                                                              *)
(***************************************************************************)

(***************************************************************************)
(* Induction, stated with sets so that it can be cited.                    *)
(***************************************************************************)

\* A set of naturals that is not empty has a least element.
LEMMA LeastNumber ==
  ASSUME NEW S \in SUBSET Nat, S # {}
  PROVE  \E m \in S : \A k \in S : m <= k
<1> DEFINE R == OpToRel(<, Nat)
<1>1. IsWellFoundedOn(R, Nat)
  BY NatLessThanWellFounded, Zenon
<1>2. \A x, y \in Nat : x < y => <<x, y>> \in R
  BY SMT DEF OpToRel
<1> HIDE DEF R
<1>3. PICK m \in S : \A y \in S : ~ (<<y, m>> \in R)
  BY <1>1, WFMin
<1>4. ASSUME NEW k \in S PROVE m <= k
  <2>1. m \in Nat /\ k \in Nat /\ ~ (k < m)
    BY <1>2, <1>3
  <2>. QED BY <2>1
<1>. QED BY <1>4

\* Induction over the naturals, for a set in place of a predicate.
LEMMA Induct ==
  ASSUME NEW S \in SUBSET Nat, 0 \in S, \A n \in S : n + 1 \in S
  PROVE  \A n \in Nat : n \in S
<1>. SUFFICES ASSUME Nat \ S # {} PROVE FALSE
  OBVIOUS
<1>1. PICK m \in Nat \ S : \A k \in Nat \ S : m <= k
  BY LeastNumber
<1>2. m # 0 /\ m - 1 \in Nat /\ (m - 1) + 1 = m /\ ~ (m <= m - 1)
  BY <1>1
<1>3. m - 1 \in S
  BY <1>1, <1>2
<1>. QED BY <1>1, <1>2, <1>3

\* Up to a bound.
LEMMA InductTo ==
  ASSUME NEW N \in Nat, NEW S, 0 \in S, \A n \in 0 .. N - 1 : n \in S => n + 1 \in S
  PROVE  \A n \in 0 .. N : n \in S
<1> DEFINE T == {n \in Nat : n <= N => n \in S}
<1>1. \A n \in T : n + 1 \in T
  OBVIOUS
<1>2. \A n \in Nat : n \in T
  <2>1. T \in SUBSET Nat /\ 0 \in T
    OBVIOUS
  <2> HIDE DEF T
  <2>. QED BY <1>1, <2>1, Induct
<1>. QED BY <1>2

(***************************************************************************)
(* The cells that settle when prerequisites settle first, starting from    *)
(* none.  S are the cells that can settle at all.                          *)
(***************************************************************************)

IdsOf(cells, X) == {cells[j].id : j \in X}

Settling(cells, S, X) == {i \in S : Prerequisites(cells[i]) \subseteq IdsOf(cells, X)}

\* g climbs by rounds, as many as there are cells.
Climbs(cells, S, g) ==
  g = [n \in 0 .. Len(cells) |-> IF n = 0 THEN {} ELSE Settling(cells, S, g[n - 1])]

\* The climb from nothing exists: Grounded and Acceptable choose what there is.
LEMMA ClimbExists ==
  ASSUME NEW cells, Len(cells) \in Nat, NEW S
  PROVE  \E g : Climbs(cells, S, g)
<1> DEFINE Turn(g, n) == IF n = 0 THEN {} ELSE Settling(cells, S, g[n - 1])
           Upto(N, g) == g = [n \in 0 .. N |-> g[n]] /\ \A n \in 0 .. N : g[n] = Turn(g, n)
           T == {N \in Nat : \E g : Upto(N, g)}
<1>1. 0 \in T
  <2> DEFINE g == [n \in 0 .. 0 |-> {}]
  <2>1. Upto(0, g)
    OBVIOUS
  <2>. QED BY <2>1
<1>2. ASSUME NEW N \in T PROVE N + 1 \in T
  <2>1. PICK g : Upto(N, g)
    OBVIOUS
  <2> DEFINE r == [n \in 0 .. N + 1 |-> IF n = N + 1 THEN Settling(cells, S, g[N]) ELSE g[n]]
  <2>2. r = [n \in 0 .. N + 1 |-> r[n]]
    OBVIOUS
  <2>3. r[N + 1] = Settling(cells, S, g[N]) /\ \A n \in 0 .. N : r[n] = g[n]
    OBVIOUS
  <2> HIDE DEF r
  <2>4. ASSUME NEW n \in 0 .. N + 1 PROVE r[n] = Turn(r, n)
    <3>1. CASE n = N + 1
      <4>1. (N + 1) - 1 = N /\ N + 1 # 0 /\ N \in 0 .. N
        OBVIOUS
      <4>2. r[(N + 1) - 1] = g[N]
        BY <2>3, <4>1
      <4>. QED BY <2>3, <3>1, <4>1, <4>2
    <3>2. CASE n = 0
      <4>1. 0 \in 0 .. N /\ g[0] = {}
        BY <2>1
      <4>. QED BY <2>3, <3>2, <4>1
    <3>3. CASE n \in 1 .. N
      <4>1. n \in 0 .. N /\ n - 1 \in 0 .. N /\ n # 0
        BY <3>3
      <4>2. r[n] = g[n] /\ r[n - 1] = g[n - 1]
        BY <2>3, <4>1
      <4>. QED BY <2>1, <4>1, <4>2
    <3>. QED BY <3>1, <3>2, <3>3
  <2>5. Upto(N + 1, r)
    BY <2>2, <2>4
  <2> HIDE DEF Upto
  <2>. QED BY <2>5
<1>3. T \in SUBSET Nat
  OBVIOUS
<1> HIDE DEF T
<1>4. Len(cells) \in T
  BY <1>1, <1>2, <1>3, Induct
<1>5. PICK g : Upto(Len(cells), g)
  BY <1>4 DEF T
<1> DEFINE h == [n \in 0 .. Len(cells) |-> Turn(g, n)]
<1>6. g = [n \in 0 .. Len(cells) |-> g[n]]
  BY <1>5
<1>7. Climbs(cells, S, g)
  <2>1. g = h
    BY <1>5, <1>6
  <2>. QED BY <2>1 DEF Climbs
<1>. QED BY <1>7

\* The climb ends in the least set that holds all it can settle.
LEMMA ClimbEnds ==
  ASSUME NEW cells, cells \in Seq(ToSet(cells)), NEW S \in SUBSET DOMAIN cells, NEW g,
         Climbs(cells, S, g)
  PROVE  LET G == g[Len(cells)]
         IN  /\ G \subseteq S
             /\ Settling(cells, S, G) = G
             /\ \A X : Settling(cells, S, X) \subseteq X => G \subseteq X
<1> DEFINE N == Len(cells)
           G == g[N]
<1>1. N \in Nat /\ DOMAIN cells = 1 .. N
  OBVIOUS
<1>2. g[0] = {} /\ \A n \in 0 .. N - 1 : g[n + 1] = Settling(cells, S, g[n])
  <2>1. \A n \in 0 .. N : g[n] = IF n = 0 THEN {} ELSE Settling(cells, S, g[n - 1])
    BY DEF Climbs
  <2>2. ASSUME NEW n \in 0 .. N - 1 PROVE g[n + 1] = Settling(cells, S, g[n])
    <3>1. n + 1 \in 0 .. N /\ n + 1 # 0 /\ (n + 1) - 1 = n
      BY <1>1
    <3>. QED BY <2>1, <3>1
  <2>. QED BY <1>1, <2>1, <2>2
<1>3. \A X, Y : X \subseteq Y => Settling(cells, S, X) \subseteq Settling(cells, S, Y)
  BY DEF Settling, IdsOf
<1>4. \A X : Settling(cells, S, X) \subseteq S
  BY DEF Settling
<1>5. \A n \in 0 .. N : g[n] \subseteq S
  <2> DEFINE T == {n \in 0 .. N : g[n] \subseteq S}
  <2>1. 0 \in T /\ \A n \in 0 .. N - 1 : n \in T => n + 1 \in T
    BY <1>1, <1>2, <1>4
  <2> HIDE DEF T
  <2>2. \A n \in 0 .. N : n \in T
    BY <1>1, <2>1, InductTo
  <2>. QED BY <2>2 DEF T
\* The rounds only add.
<1>6. \A n \in 0 .. N - 1 : g[n] \subseteq g[n + 1]
  <2> DEFINE T == {n \in 0 .. N : n <= N - 1 => g[n] \subseteq g[n + 1]}
  <2>1. 0 \in T
    BY <1>1, <1>2
  <2>2. ASSUME NEW n \in 0 .. N - 1, n \in T PROVE n + 1 \in T
    <3>1. CASE n + 1 <= N - 1
      <4>1. g[n + 1] = Settling(cells, S, g[n]) /\ g[(n + 1) + 1] = Settling(cells, S, g[n + 1])
        BY <1>1, <1>2, <3>1
      <4>2. g[n] \subseteq g[n + 1]
        BY <2>2
      <4>. QED BY <1>1, <1>3, <4>1, <4>2
    <3>2. CASE ~ (n + 1 <= N - 1)
      BY <1>1, <3>2
    <3>. QED BY <3>1, <3>2
  <2> HIDE DEF T
  <2>3. \A n \in 0 .. N : n \in T
    BY <1>1, <2>1, <2>2, InductTo
  <2>. QED BY <1>1, <2>3 DEF T
\* A round that adds nothing is followed by none that does.
<1>7. ASSUME NEW m \in 0 .. N - 1, g[m + 1] = g[m] PROVE Settling(cells, S, G) = G
  <2> DEFINE T == {n \in 0 .. N : n >= m => g[n] = g[m]}
  <2>1. 0 \in T
    OBVIOUS
  <2>2. ASSUME NEW n \in 0 .. N - 1, n \in T PROVE n + 1 \in T
    <3>1. CASE n >= m
      <4>1. g[n] = g[m]
        BY <2>2, <3>1
      <4>2. g[n + 1] = Settling(cells, S, g[n]) /\ g[m + 1] = Settling(cells, S, g[m])
        BY <1>2
      <4>. QED BY <1>1, <1>7, <4>1, <4>2
    <3>2. CASE n < m
      <4>1. n + 1 <= m
        BY <3>2
      <4>2. CASE n + 1 = m
        BY <1>1, <4>2
      <4>3. CASE n + 1 < m
        BY <1>1, <4>3
      <4>. QED BY <4>1, <4>2, <4>3
    <3>. QED BY <3>1, <3>2
  <2> HIDE DEF T
  <2>3. \A n \in 0 .. N : n \in T
    BY <1>1, <2>1, <2>2, InductTo
  <2>4. G = g[m]
    BY <1>1, <2>3 DEF T
  <2>. QED BY <1>2, <1>7, <2>4
\* If each round adds one, the last holds every cell.
<1>8. ASSUME \A m \in 0 .. N - 1 : g[m + 1] # g[m] PROVE Settling(cells, S, G) = G
  <2>1. IsFiniteSet(DOMAIN cells) /\ Cardinality(DOMAIN cells) = N
    <3>1. IsFiniteSet(1 .. N) /\ Cardinality(1 .. N) = N
      <4>1. 1 \in Int /\ N \in Int
        BY <1>1
      <4>2. IsFiniteSet(1 .. N) /\ Cardinality(1 .. N) = IF 1 > N THEN 0 ELSE N - 1 + 1
        BY <4>1, FS_Interval
      <4>. QED BY <1>1, <4>2
    <3>. QED BY <1>1, <3>1
  <2>2. \A n \in 0 .. N : IsFiniteSet(g[n]) /\ Cardinality(g[n]) \in Nat
    BY <1>5, <2>1, FS_Subset, FS_CardinalityType
  <2> DEFINE T == {n \in 0 .. N : Cardinality(g[n]) >= n}
  <2>3. 0 \in T
    <3>1. Cardinality(g[0]) \in Nat
      BY <1>1, <2>2
    <3>. QED BY <1>1, <3>1
  <2>4. ASSUME NEW n \in 0 .. N - 1, n \in T PROVE n + 1 \in T
    <3>1. g[n] \subseteq g[n + 1] /\ g[n + 1] # g[n] /\ n + 1 \in 0 .. N /\ n \in 0 .. N
      BY <1>1, <1>6, <1>8
    <3>2. Cardinality(g[n]) <= Cardinality(g[n + 1]) /\ Cardinality(g[n]) # Cardinality(g[n + 1])
      BY <2>2, <3>1, FS_Subset
    <3>3. Cardinality(g[n]) >= n
      BY <2>4
    <3>4. Cardinality(g[n]) \in Nat /\ Cardinality(g[n + 1]) \in Nat
      BY <2>2, <3>1
    <3>. QED BY <3>1, <3>2, <3>3, <3>4
  <2> HIDE DEF T
  <2>5. \A n \in 0 .. N : n \in T
    BY <1>1, <2>3, <2>4, InductTo
  <2>6. Cardinality(G) >= N /\ G \subseteq S /\ G \in SUBSET DOMAIN cells
    BY <1>1, <1>5, <2>5 DEF T
  <2>7. Cardinality(G) <= N /\ (Cardinality(DOMAIN cells) = Cardinality(G) => DOMAIN cells = G)
    BY <2>1, <2>6, FS_Subset
  <2>8. Cardinality(G) = N
    BY <1>1, <2>2, <2>6, <2>7
  <2>9. G = DOMAIN cells
    BY <2>1, <2>7, <2>8
  <2>10. Settling(cells, S, G) \subseteq G
    BY <1>4, <2>9
  <2>11. CASE N = 0
    BY <1>1, <2>9, <2>10, <2>11
  <2>12. CASE N # 0
    <3>1. N - 1 \in 0 .. N - 1 /\ (N - 1) + 1 = N /\ N - 1 \in 0 .. N
      BY <1>1, <2>12
    <3>2. g[N] = Settling(cells, S, g[N - 1]) /\ g[N - 1] \subseteq g[N]
      BY <1>2, <1>6, <3>1
    <3>3. G \subseteq Settling(cells, S, G)
      BY <1>3, <3>2
    <3>. QED BY <2>10, <3>3
  <2>. QED BY <2>11, <2>12
<1>9. ASSUME NEW X, Settling(cells, S, X) \subseteq X PROVE G \subseteq X
  <2> DEFINE T == {n \in 0 .. N : g[n] \subseteq X}
  <2>1. 0 \in T
    BY <1>1, <1>2
  <2>2. ASSUME NEW n \in 0 .. N - 1, n \in T PROVE n + 1 \in T
    <3>1. g[n] \subseteq X /\ g[n + 1] = Settling(cells, S, g[n])
      BY <1>2, <2>2
    <3>. QED BY <1>1, <1>3, <1>9, <3>1
  <2> HIDE DEF T
  <2>3. \A n \in 0 .. N : n \in T
    BY <1>1, <2>1, <2>2, InductTo
  <2>. QED BY <1>1, <2>3 DEF T
<1>. QED BY <1>1, <1>5, <1>7, <1>8, <1>9

-----------------------------------------------------------------------------
(***************************************************************************)
(* Ascending sequences.                                                    *)
(***************************************************************************)

\* An ascending sequence of the numbers of S.
Ascends(s, S) ==
  s \in [1 .. Cardinality(S) -> S] /\ ToSet(s) = S /\ \A i, j \in DOMAIN s : i < j => s[i] < s[j]

\* Every finite set of positions has an ascending sequence.
LEMMA AscendsExists ==
  ASSUME NEW N \in Nat, NEW S \in SUBSET (1 .. N)
  PROVE  \E s : Ascends(s, S)
<1> DEFINE Below(n) == {x \in S : x <= n}
           T == {n \in 0 .. N : \E s : Ascends(s, Below(n))}
<1>0. \A x \in S : x \in Nat /\ 1 <= x /\ x <= N
  OBVIOUS
<1>1. IsFiniteSet(1 .. N)
  BY FS_Interval
<1>2. \A n \in 0 .. N : IsFiniteSet(Below(n)) /\ Cardinality(Below(n)) \in Nat
  <2>. SUFFICES ASSUME NEW n \in 0 .. N PROVE IsFiniteSet(Below(n)) /\ Cardinality(Below(n)) \in Nat
    OBVIOUS
  <2>1. Below(n) \subseteq 1 .. N
    OBVIOUS
  <2>. QED BY <1>1, <2>1, FS_Subset, FS_CardinalityType
<1>3. 0 \in T
  <2>1. Below(0) = {}
    <3>1. \A x \in S : ~ (x <= 0)
      BY <1>0
    <3>. QED BY <3>1
  <2>2. Cardinality({}) = 0
    BY FS_EmptySet
  <2> DEFINE s == [k \in 1 .. 0 |-> 0]
  <2>3. s \in [1 .. 0 -> {}] /\ ToSet(s) = {} /\ \A i, j \in DOMAIN s : i < j => s[i] < s[j]
    BY DEF ToSet
  <2>4. Ascends(s, Below(0))
    BY <2>1, <2>2, <2>3 DEF Ascends
  <2> HIDE DEF Below
  <2>. QED BY <2>4
<1>4. ASSUME NEW n \in 0 .. N - 1, n \in T PROVE n + 1 \in T
  <2>1. PICK s : Ascends(s, Below(n))
    BY <1>4
  <2>2. n + 1 \in 0 .. N /\ n \in 0 .. N
    OBVIOUS
  <2>5. \A x \in S : x <= n + 1 <=> x <= n \/ x = n + 1
    BY <1>0
  <2>6. \A x \in S : x <= n => x < n + 1
    BY <1>0
  <2>3. CASE n + 1 \notin S
    <3>1. Below(n + 1) = Below(n)
      BY <2>3, <2>5
    <3>. QED BY <2>1, <2>2, <3>1
  <2>4. CASE n + 1 \in S
    <3> DEFINE B == Below(n)
               m == Cardinality(B)
               r == [k \in 1 .. m + 1 |-> IF k = m + 1 THEN n + 1 ELSE s[k]]
    <3>1. Below(n + 1) = B \cup {n + 1} /\ n + 1 \notin B /\ \A x \in B : x < n + 1
      <4>1. ~ (n + 1 <= n)
        OBVIOUS
      <4>. QED BY <2>4, <2>5, <2>6, <4>1
    <3>2. IsFiniteSet(B) /\ m \in Nat
      BY <1>2, <2>2
    <3>3. s \in [1 .. m -> B] /\ ToSet(s) = B /\ \A i, j \in DOMAIN s : i < j => s[i] < s[j]
      BY <2>1 DEF Ascends
    <3>4. \A x \in B : x \in Nat
      OBVIOUS
    <3> HIDE DEF B
    <3>5. Cardinality(B \cup {n + 1}) = m + 1
      BY <3>1, <3>2, FS_AddElement
    <3> HIDE DEF m
    <3>6. r \in [1 .. m + 1 -> B \cup {n + 1}] /\ DOMAIN r = 1 .. m + 1 /\ DOMAIN s = 1 .. m
      BY <3>2, <3>3
    <3>7. r[m + 1] = n + 1 /\ \A k \in 1 .. m : r[k] = s[k]
      BY <3>2
    <3> HIDE DEF r
    <3>8. ToSet(r) = B \cup {n + 1}
      <4>1. \A x \in ToSet(r) : x \in B \cup {n + 1}
        BY <3>6 DEF ToSet
      <4>2. m + 1 \in DOMAIN r /\ \A k \in DOMAIN s : k \in DOMAIN r
        BY <3>2, <3>6
      <4>3. n + 1 \in ToSet(r)
        BY <3>7, <4>2 DEF ToSet
      <4>4. ASSUME NEW x \in B PROVE x \in ToSet(r)
        <5>1. PICK k \in DOMAIN s : s[k] = x
          BY <3>3 DEF ToSet
        <5>. QED BY <3>6, <3>7, <4>2, <5>1 DEF ToSet
      <4>. QED BY <4>1, <4>3, <4>4
    <3>9. ASSUME NEW i \in DOMAIN r, NEW j \in DOMAIN r, i < j PROVE r[i] < r[j]
      <4>1. i \in 1 .. m /\ r[i] = s[i] /\ s[i] \in B
        BY <3>2, <3>3, <3>6, <3>7, <3>9
      <4>2. CASE j = m + 1
        BY <3>1, <3>7, <4>1, <4>2
      <4>3. CASE j # m + 1
        <5>1. j \in 1 .. m /\ r[j] = s[j]
          BY <3>2, <3>6, <3>7, <4>3
        <5>. QED BY <3>3, <3>6, <3>9, <4>1, <5>1
      <4>. QED BY <4>2, <4>3
    <3>10. Ascends(r, Below(n + 1))
      BY <3>1, <3>5, <3>6, <3>8, <3>9 DEF Ascends
    <3>. QED BY <2>2, <3>10
  <2>. QED BY <2>3, <2>4
<1> HIDE DEF T
<1>5. \A n \in 0 .. N : n \in T
  BY <1>3, <1>4, InductTo
<1>6. N \in T /\ Below(N) = S
  <2>1. \A x \in S : x <= N
    BY <1>0
  <2>2. Below(N) = S
    BY <2>1
  <2>3. N \in 0 .. N
    OBVIOUS
  <2>. QED BY <1>5, <2>2, <2>3
<1>. QED BY <1>6 DEF T

\* What Ascending returns: each element once, in order.
LEMMA AscendingIs ==
  ASSUME NEW N \in Nat, NEW S \in SUBSET (1 .. N)
  PROVE  /\ Ascending(S) \in Seq(S) /\ Len(Ascending(S)) = Cardinality(S) /\ ToSet(Ascending(S)) = S
         /\ DOMAIN Ascending(S) = 1 .. Cardinality(S)
         /\ \A i, j \in DOMAIN Ascending(S) : i < j => Ascending(S)[i] < Ascending(S)[j]
<1>1. \E s : Ascends(s, S)
  BY AscendsExists
<1>2. Ascends(Ascending(S), S)
  BY <1>1 DEF Ascends, Ascending
<1>3. IsFiniteSet(1 .. N)
  BY FS_Interval
<1>4. Cardinality(S) \in Nat
  BY <1>3, FS_Subset, FS_CardinalityType
<1>5. Ascending(S) \in [1 .. Cardinality(S) -> S]
  BY <1>2 DEF Ascends
<1>6. Ascending(S) \in Seq(S)
  BY <1>4, <1>5
<1>. QED BY <1>2, <1>4, <1>5, <1>6 DEF Ascends

\* Min of a set of naturals is its least element.
LEMMA MinIs ==
  ASSUME NEW S \in SUBSET Nat, S # {}
  PROVE  Min(S) \in S /\ \A k \in S : Min(S) <= k
BY LeastNumber DEF Min

-----------------------------------------------------------------------------
(***************************************************************************)
(* walk_cells.                                                             *)
(***************************************************************************)

Verdicts == {"accepted", "rejected", "skipped"}

Outcomes(cells) == [cell : IdsOf(cells, DOMAIN cells), verdict : Verdicts]

\* The ids that have passed once the cell of this id has got this verdict.
OkAfter(ok, id, verdict) == IF verdict = "accepted" THEN ok \cup {id} ELSE ok \ {id}

\* What holds of the walk of any graph: the known ids are those of the settled
\* cells, and each settled cell has one result.
WalkTyped(cells, w) ==
  /\ w.remaining \subseteq DOMAIN cells
  /\ w.ok \subseteq w.known
  /\ w.known = IdsOf(cells, DOMAIN cells \ w.remaining)
  /\ w.results \in Seq(Outcomes(cells))
  /\ Len(w.results) + Cardinality(w.remaining) = Len(cells)

\* The positions of a graph are finitely many numbers.
LEMMA CellsAre ==
  ASSUME NEW cells, cells \in Seq(ToSet(cells))
  PROVE  /\ Len(cells) \in Nat /\ DOMAIN cells = 1 .. Len(cells)
         /\ IsFiniteSet(DOMAIN cells) /\ Cardinality(DOMAIN cells) = Len(cells)
         /\ \A S \in SUBSET DOMAIN cells : IsFiniteSet(S) /\ Cardinality(S) \in Nat /\ S \in SUBSET Nat
<1>1. Len(cells) \in Nat /\ DOMAIN cells = 1 .. Len(cells)
  OBVIOUS
<1>2. IsFiniteSet(1 .. Len(cells)) /\ Cardinality(1 .. Len(cells)) = Len(cells)
  <2>1. 1 \in Int /\ Len(cells) \in Int
    BY <1>1
  <2>2. /\ IsFiniteSet(1 .. Len(cells))
        /\ Cardinality(1 .. Len(cells)) = IF 1 > Len(cells) THEN 0 ELSE Len(cells) - 1 + 1
    BY <2>1, FS_Interval
  <2>. QED BY <1>1, <2>2
<1>3. ASSUME NEW S \in SUBSET DOMAIN cells PROVE IsFiniteSet(S) /\ Cardinality(S) \in Nat /\ S \in SUBSET Nat
  <2>1. IsFiniteSet(S)
    BY <1>1, <1>2, FS_Subset
  <2>2. Cardinality(S) \in Nat
    BY <2>1, FS_CardinalityType
  <2>3. S \in SUBSET Nat
    BY <1>1
  <2>. QED BY <2>1, <2>2, <2>3
<1>. QED BY <1>1, <1>2, <1>3

\* The walk starts within its types.
LEMMA WalkStartTyped ==
  ASSUME NEW cells, cells \in Seq(ToSet(cells))
  PROVE  WalkTyped(cells, WalkStart(cells))
<1>1. Cardinality(DOMAIN cells) = Len(cells) /\ Len(cells) \in Nat
  BY CellsAre
<1>. QED BY <1>1 DEF WalkTyped, WalkStart, IdsOf, Outcomes

\* The cells left when no cell is ready.
LEMMA SkipRestIs ==
  ASSUME NEW cells, cells \in Seq(ToSet(cells)), NEW w, WalkTyped(cells, w),
         NEW v, v = SkipRest(cells, w)
  PROVE  /\ WalkTyped(cells, v)
         /\ v.remaining = {}
         /\ v.ok = w.ok \ IdsOf(cells, w.remaining)
         /\ DOMAIN w.results \subseteq DOMAIN v.results
         /\ \A k \in DOMAIN w.results : v.results[k] = w.results[k]
         /\ \A k \in DOMAIN v.results \ DOMAIN w.results :
              \E i \in w.remaining : v.results[k].cell = cells[i].id /\ v.results[k].verdict = "skipped"
         /\ \A i \in w.remaining : \E k \in DOMAIN v.results : v.results[k].cell = cells[i].id
<1> DEFINE R == w.remaining
           rest == Ascending(R)
           M == Cardinality(R)
           N == Len(w.results)
           skipped == [k \in DOMAIN rest |-> [cell |-> cells[rest[k]].id, verdict |-> "skipped"]]
<1>1. R \subseteq DOMAIN cells /\ Len(cells) \in Nat /\ DOMAIN cells = 1 .. Len(cells) /\ R \in SUBSET (1 .. Len(cells))
  BY CellsAre DEF WalkTyped
<1>2. M \in Nat
  BY <1>1, CellsAre
<1>3. ToSet(rest) = R /\ DOMAIN rest = 1 .. M
  BY <1>1, AscendingIs
<1>4. w.results \in Seq(Outcomes(cells)) /\ N \in Nat /\ DOMAIN w.results = 1 .. N
  BY DEF WalkTyped
<1>5. /\ v.remaining = {} /\ v.known = w.known \cup IdsOf(cells, R) /\ v.ok = w.ok \ IdsOf(cells, R)
      /\ v.results = w.results \o skipped
  BY DEF SkipRest, IdsOf
<1>6. \A k \in 1 .. M : rest[k] \in R
  BY <1>3 DEF ToSet
<1>7. \A i \in R : \E k \in 1 .. M : rest[k] = i
  BY <1>3 DEF ToSet
<1> HIDE DEF rest, M
<1>8. skipped \in Seq(Outcomes(cells)) /\ Len(skipped) = M /\ DOMAIN skipped = 1 .. M
  <2>1. \A k \in 1 .. M : [cell |-> cells[rest[k]].id, verdict |-> "skipped"] \in Outcomes(cells)
    BY <1>1, <1>6 DEF Outcomes, IdsOf, Verdicts
  <2>2. skipped \in [1 .. M -> Outcomes(cells)]
    BY <1>3, <2>1
  <2> HIDE DEF skipped
  <2>3. skipped \in Seq(Outcomes(cells)) /\ DOMAIN skipped = 1 .. M
    BY <1>2, <2>2
  <2>4. Len(skipped) = M
    BY <1>2, <2>3
  <2>. QED BY <2>3, <2>4
<1>9. \A k \in 1 .. M : skipped[k].cell = cells[rest[k]].id /\ skipped[k].verdict = "skipped"
  BY <1>3
<1> HIDE DEF R, N, skipped
<1>10. /\ v.results \in Seq(Outcomes(cells)) /\ Len(v.results) = N + M /\ DOMAIN v.results = 1 .. N + M
       /\ \A k \in 1 .. N : v.results[k] = w.results[k]
       /\ \A k \in 1 .. M : v.results[N + k] = skipped[k]
  <2>1. Len(w.results) = N
    BY DEF N
  <2>2. \A k \in 1 .. M : N + k > N /\ N + k <= N + M /\ (N + k) - N = k
    BY <1>2, <1>4
  <2>7. /\ w.results \o skipped \in Seq(Outcomes(cells))
        /\ Len(w.results \o skipped) = Len(w.results) + Len(skipped)
        /\ \A k \in 1 .. Len(w.results) + Len(skipped) :
             (w.results \o skipped)[k] = IF k <= Len(w.results) THEN w.results[k] ELSE skipped[k - Len(w.results)]
    BY <1>4, <1>8, ConcatProperties
  <2>3. v.results \in Seq(Outcomes(cells)) /\ Len(v.results) = N + M
    BY <1>5, <1>8, <2>1, <2>7
  <2>8. \A k \in 1 .. N + M : v.results[k] = IF k <= N THEN w.results[k] ELSE skipped[k - N]
    BY <1>5, <1>8, <2>1, <2>7
  <2>4. DOMAIN v.results = 1 .. N + M
    BY <2>3
  <2>5. \A k \in 1 .. N : v.results[k] = w.results[k]
    BY <1>2, <1>4, <2>8
  <2>6. \A k \in 1 .. M : v.results[N + k] = skipped[k]
    BY <1>2, <1>4, <2>2, <2>8
  <2>. QED BY <2>3, <2>4, <2>5, <2>6
<1>11. WalkTyped(cells, v)
  <2>1. w.ok \subseteq w.known /\ w.known = IdsOf(cells, DOMAIN cells \ R) /\ N + M = Len(cells)
    BY DEF WalkTyped, R, M, N
  <2>2. v.known = IdsOf(cells, DOMAIN cells \ {})
    BY <1>1, <1>5, <2>1 DEF IdsOf
  <2>3. Cardinality({}) = 0
    BY FS_EmptySet
  <2>4. v.ok \subseteq v.known
    BY <1>5, <2>1
  <2>5. Len(v.results) + Cardinality(v.remaining) = Len(cells)
    BY <1>1, <1>5, <1>10, <2>1, <2>3
  <2>. QED BY <1>5, <1>10, <2>2, <2>4, <2>5 DEF WalkTyped
<1>12. ASSUME NEW k \in DOMAIN v.results \ DOMAIN w.results
       PROVE  \E i \in R : v.results[k].cell = cells[i].id /\ v.results[k].verdict = "skipped"
  <2>1. k - N \in 1 .. M /\ k = N + (k - N)
    BY <1>2, <1>4, <1>10, <1>12
  <2>2. v.results[k] = skipped[k - N]
    BY <1>10, <2>1
  <2>. QED BY <1>6, <1>9, <2>1, <2>2
<1>13. ASSUME NEW i \in R PROVE \E k \in DOMAIN v.results : v.results[k].cell = cells[i].id
  <2>1. PICK k \in 1 .. M : rest[k] = i
    BY <1>7
  <2>2. N + k \in 1 .. N + M /\ v.results[N + k] = skipped[k]
    BY <1>2, <1>4, <1>10, <2>1
  <2>. QED BY <1>9, <1>10, <2>1, <2>2
<1>14. DOMAIN w.results \subseteq DOMAIN v.results
  BY <1>2, <1>4, <1>10
<1>. QED BY <1>4, <1>5, <1>10, <1>11, <1>12, <1>13, <1>14 DEF R

\* Settling a ready cell takes it out, and appends its one result.
LEMMA SettleIs ==
  ASSUME NEW cells, cells \in Seq(ToSet(cells)), NEW w, WalkTyped(cells, w), NEW i \in w.remaining,
         NEW verdict \in Verdicts,
         NEW v, v = Settle(cells, w, i, verdict)
  PROVE  /\ WalkTyped(cells, v)
         /\ v.remaining = w.remaining \ {i}
         /\ v.ok = OkAfter(w.ok, cells[i].id, verdict)
         /\ DOMAIN w.results \subseteq DOMAIN v.results
         /\ \A k \in DOMAIN w.results : v.results[k] = w.results[k]
         /\ \A k \in DOMAIN v.results \ DOMAIN w.results :
              v.results[k].cell = cells[i].id /\ v.results[k].verdict = verdict
         /\ \E k \in DOMAIN v.results : v.results[k].cell = cells[i].id
<1> DEFINE R == w.remaining
           N == Len(w.results)
           result == [cell |-> cells[i].id, verdict |-> verdict]
<1>1. R \subseteq DOMAIN cells /\ i \in R
  BY DEF WalkTyped
<1>2. w.results \in Seq(Outcomes(cells)) /\ N \in Nat /\ DOMAIN w.results = 1 .. N
  BY DEF WalkTyped
<1>3. /\ v.remaining = R \ {i} /\ v.known = w.known \cup {cells[i].id}
      /\ v.ok = OkAfter(w.ok, cells[i].id, verdict)
      /\ v.results = Append(w.results, result)
  BY DEF Settle, OkAfter
<1>4. result \in Outcomes(cells) /\ result.cell = cells[i].id /\ result.verdict = verdict
  BY <1>1 DEF Outcomes, IdsOf
<1> HIDE DEF R, N, result
<1>5. /\ v.results \in Seq(Outcomes(cells)) /\ Len(v.results) = N + 1 /\ DOMAIN v.results = 1 .. N + 1
      /\ \A k \in 1 .. N : v.results[k] = w.results[k]
      /\ v.results[N + 1] = result
  BY <1>2, <1>3, <1>4 DEF N
<1>6. WalkTyped(cells, v)
  <2>1. w.ok \subseteq w.known /\ w.known = IdsOf(cells, DOMAIN cells \ R) /\ N + Cardinality(R) = Len(cells)
    BY DEF WalkTyped, R, N
  <2>2. v.known = IdsOf(cells, DOMAIN cells \ (R \ {i}))
    BY <1>1, <1>3, <2>1 DEF IdsOf
  <2>3. v.ok \subseteq v.known
    BY <1>3, <2>1 DEF OkAfter
  <2>4. IsFiniteSet(R) /\ Cardinality(R) \in Nat /\ Len(cells) \in Nat
    BY <1>1, CellsAre
  <2>5. Cardinality(R \ {i}) = Cardinality(R) - 1
    BY <1>1, <2>4, FS_RemoveElement
  <2>6. Len(v.results) + Cardinality(R \ {i}) = Len(cells)
    BY <1>2, <1>5, <2>1, <2>4, <2>5
  <2>7. R \ {i} \subseteq DOMAIN cells
    BY <1>1
  <2>. QED BY <1>3, <1>5, <2>2, <2>3, <2>6, <2>7 DEF WalkTyped
<1>7. \A k \in DOMAIN v.results \ DOMAIN w.results : k = N + 1
  BY <1>2, <1>5
<1>8. N + 1 \in DOMAIN v.results /\ DOMAIN w.results \subseteq DOMAIN v.results
  BY <1>2, <1>5
<1>. QED BY <1>2, <1>3, <1>4, <1>5, <1>6, <1>7, <1>8 DEF R

\* A turn of the walk, a settled cell or the skipped rest, keeps its types.
LEMMA WalkStepTyped ==
  ASSUME NEW cells, cells \in Seq(ToSet(cells)), NEW pass, NEW w, WalkTyped(cells, w)
  PROVE  WalkTyped(cells, WalkStep(cells, pass, w))
<1> DEFINE ready == ReadyCells(cells, w)
           i == Min(ready)
           open == Prerequisites(cells[i]) \subseteq w.ok
           verdict == IF open /\ i \in pass THEN "accepted" ELSE IF open THEN "rejected" ELSE "skipped"
<1>1. CASE ready = {}
  <2>1. WalkStep(cells, pass, w) = SkipRest(cells, w)
    BY <1>1 DEF WalkStep
  <2>. QED BY <2>1, SkipRestIs
<1>2. CASE ready # {}
  <2>1. WalkStep(cells, pass, w) = Settle(cells, w, i, verdict)
    BY <1>2 DEF WalkStep
  <2>2. ready \in SUBSET Nat /\ ready \subseteq w.remaining
    BY CellsAre DEF WalkTyped, ReadyCells
  <2>3. i \in w.remaining
    BY <1>2, <2>2, MinIs
  <2>4. verdict \in Verdicts
    BY DEF Verdicts
  <2> HIDE DEF i, verdict
  <2>. QED BY <2>1, <2>3, <2>4, SettleIs
<1>. QED BY <1>1, <1>2

-----------------------------------------------------------------------------
\* The outcome of a cell when A are the cells that are accepted.
Outcome(cells, pass, A, i) ==
  IF ~ Prerequisites(cells[i]) \subseteq IdsOf(cells, A) THEN "skipped"
  ELSE IF i \in pass THEN "accepted" ELSE "rejected"

\* The least set of cells that holds each one that passes and whose
\* prerequisites it holds.
LeastSettled(cells, pass, A) ==
  /\ A \subseteq pass
  /\ Settling(cells, pass, A) = A
  /\ \A X : Settling(cells, pass, X) \subseteq X => A \subseteq X

Distinct(cells) == \A i, j \in DOMAIN cells : cells[i].id = cells[j].id => i = j

\* Every cell settled so far has its outcome.
WalkExact(cells, pass, A, w) ==
  LET settled == DOMAIN cells \ w.remaining
  IN  /\ \A i \in settled : cells[i].id \in w.ok <=> i \in A
      /\ \A k \in DOMAIN w.results : \E i \in settled :
           w.results[k].cell = cells[i].id /\ w.results[k].verdict = Outcome(cells, pass, A, i)
      /\ \A i \in settled : \E k \in DOMAIN w.results : w.results[k].cell = cells[i].id

\* The acceptable cells are a fixed point of the gate.
LEMMA AcceptableIs ==
  ASSUME NEW cells, NEW pass, NEW A, LeastSettled(cells, pass, A), NEW i
  PROVE  i \in A <=> i \in pass /\ Prerequisites(cells[i]) \subseteq IdsOf(cells, A)
BY DEF LeastSettled, Settling

\* The verdict of a settled cell is the one its prerequisites and the gate make.
LEMMA SettleExact ==
  ASSUME NEW cells, cells \in Seq(ToSet(cells)), NEW pass \in SUBSET DOMAIN cells, NEW A, LeastSettled(cells, pass, A),
         Distinct(cells), NEW w, WalkTyped(cells, w), WalkExact(cells, pass, A, w),
         NEW i \in ReadyCells(cells, w), NEW verdict,
         verdict = IF Prerequisites(cells[i]) \subseteq w.ok /\ i \in pass THEN "accepted"
                   ELSE IF Prerequisites(cells[i]) \subseteq w.ok THEN "rejected" ELSE "skipped",
         NEW v, v = Settle(cells, w, i, verdict)
  PROVE  WalkExact(cells, pass, A, v)
<1>1. i \in w.remaining /\ Prerequisites(cells[i]) \subseteq IdsOf(cells, DOMAIN cells \ w.remaining) /\ w.remaining \subseteq DOMAIN cells
  BY DEF ReadyCells, WalkTyped
<1>2. verdict \in Verdicts
  BY DEF Verdicts
<1>3. \A d \in Prerequisites(cells[i]) : d \in w.ok <=> d \in IdsOf(cells, A)
  <2>. SUFFICES ASSUME NEW d \in Prerequisites(cells[i]) PROVE d \in w.ok <=> d \in IdsOf(cells, A)
    OBVIOUS
  <2>1. PICK j \in DOMAIN cells \ w.remaining : d = cells[j].id
    BY <1>1 DEF IdsOf
  <2>2. d \in w.ok <=> j \in A
    BY <2>1 DEF WalkExact
  <2>3. A \subseteq DOMAIN cells
    BY DEF LeastSettled
  <2>4. d \in IdsOf(cells, A) <=> j \in A
    BY <2>1, <2>3 DEF IdsOf, Distinct
  <2>. QED BY <2>2, <2>4
<1>4. Prerequisites(cells[i]) \subseteq w.ok <=> Prerequisites(cells[i]) \subseteq IdsOf(cells, A)
  BY <1>3
<1>5. verdict = Outcome(cells, pass, A, i) /\ (verdict = "accepted" <=> i \in A)
  BY <1>4, AcceptableIs DEF Outcome
<1>6. /\ v.remaining = w.remaining \ {i}
      /\ v.ok = OkAfter(w.ok, cells[i].id, verdict)
      /\ DOMAIN w.results \subseteq DOMAIN v.results
      /\ \A k \in DOMAIN w.results : v.results[k] = w.results[k]
      /\ \A k \in DOMAIN v.results \ DOMAIN w.results :
           v.results[k].cell = cells[i].id /\ v.results[k].verdict = verdict
      /\ \E k \in DOMAIN v.results : v.results[k].cell = cells[i].id
  BY <1>1, <1>2, SettleIs
<1>7. DOMAIN cells \ v.remaining = (DOMAIN cells \ w.remaining) \cup {i} /\ i \notin DOMAIN cells \ w.remaining
  BY <1>1, <1>6
<1>8. ASSUME NEW j \in DOMAIN cells \ v.remaining PROVE cells[j].id \in v.ok <=> j \in A
  <2>1. CASE j = i
    BY <1>5, <1>6, <2>1 DEF OkAfter
  <2>2. CASE j # i
    <3>1. j \in DOMAIN cells \ w.remaining /\ cells[j].id # cells[i].id
      BY <1>1, <1>7, <2>2 DEF Distinct
    <3>. QED BY <1>6, <3>1 DEF WalkExact, OkAfter
  <2>. QED BY <2>1, <2>2
<1>9. ASSUME NEW k \in DOMAIN v.results
      PROVE  \E j \in DOMAIN cells \ v.remaining :
               v.results[k].cell = cells[j].id /\ v.results[k].verdict = Outcome(cells, pass, A, j)
  <2>1. CASE k \in DOMAIN w.results
    BY <1>6, <1>7, <2>1 DEF WalkExact
  <2>2. CASE k \notin DOMAIN w.results
    BY <1>5, <1>6, <1>7, <2>2
  <2>. QED BY <2>1, <2>2
<1>10. ASSUME NEW j \in DOMAIN cells \ v.remaining
       PROVE  \E k \in DOMAIN v.results : v.results[k].cell = cells[j].id
  <2>1. CASE j = i
    BY <1>6, <2>1
  <2>2. CASE j # i
    <3>1. j \in DOMAIN cells \ w.remaining
      BY <1>7, <2>2
    <3>2. PICK k \in DOMAIN w.results : w.results[k].cell = cells[j].id
      BY <3>1 DEF WalkExact
    <3>. QED BY <1>6, <3>2
  <2>. QED BY <2>1, <2>2
<1>. QED BY <1>8, <1>9, <1>10 DEF WalkExact

\* When no cell is ready, no cell that is left is acceptable.
LEMMA NoneReady ==
  ASSUME NEW cells, cells \in Seq(ToSet(cells)), NEW pass \in SUBSET DOMAIN cells, NEW A, LeastSettled(cells, pass, A),
         NEW w, WalkTyped(cells, w), ReadyCells(cells, w) = {}
  PROVE  A \cap w.remaining = {} /\ \A i \in w.remaining : Outcome(cells, pass, A, i) = "skipped"
<1> DEFINE X == A \ w.remaining
<1>1. A \subseteq DOMAIN cells /\ IdsOf(cells, X) \subseteq w.known
  BY DEF LeastSettled, WalkTyped, IdsOf
<1>2. \A i \in w.remaining : ~ Prerequisites(cells[i]) \subseteq w.known
  BY DEF ReadyCells
<1>3. ASSUME NEW i \in pass, Prerequisites(cells[i]) \subseteq IdsOf(cells, X) PROVE i \in X
  <2>1. i \notin w.remaining
    BY <1>1, <1>2, <1>3
  <2>2. Prerequisites(cells[i]) \subseteq IdsOf(cells, A)
    BY <1>3 DEF IdsOf
  <2>3. i \in A
    BY <2>2, AcceptableIs
  <2>. QED BY <2>1, <2>3
<1>4. Settling(cells, pass, X) \subseteq X
  BY <1>3 DEF Settling
<1> HIDE DEF X
<1>5. A \subseteq X
  BY <1>4 DEF LeastSettled
<1>6. ASSUME NEW i \in w.remaining PROVE ~ Prerequisites(cells[i]) \subseteq IdsOf(cells, A)
  <2>1. IdsOf(cells, A) \subseteq IdsOf(cells, X)
    BY <1>5 DEF IdsOf
  <2>. QED BY <1>1, <1>2, <2>1
<1>. QED BY <1>5, <1>6 DEF X, Outcome

\* Cells that are skipped when none is ready have a prerequisite never accepted.
LEMMA SkipExact ==
  ASSUME NEW cells, cells \in Seq(ToSet(cells)), NEW pass \in SUBSET DOMAIN cells, NEW A, LeastSettled(cells, pass, A),
         Distinct(cells), NEW w, WalkTyped(cells, w), WalkExact(cells, pass, A, w), ReadyCells(cells, w) = {},
         NEW v, v = SkipRest(cells, w)
  PROVE  WalkExact(cells, pass, A, v)
<1>1. A \cap w.remaining = {} /\ \A i \in w.remaining : Outcome(cells, pass, A, i) = "skipped"
  BY NoneReady
<1>2. w.remaining \subseteq DOMAIN cells
  BY DEF WalkTyped
<1>3. /\ v.remaining = {}
      /\ v.ok = w.ok \ IdsOf(cells, w.remaining)
      /\ DOMAIN w.results \subseteq DOMAIN v.results
      /\ \A k \in DOMAIN w.results : v.results[k] = w.results[k]
      /\ \A k \in DOMAIN v.results \ DOMAIN w.results :
           \E i \in w.remaining : v.results[k].cell = cells[i].id /\ v.results[k].verdict = "skipped"
      /\ \A i \in w.remaining : \E k \in DOMAIN v.results : v.results[k].cell = cells[i].id
  BY SkipRestIs
<1>4. ASSUME NEW j \in DOMAIN cells PROVE cells[j].id \in v.ok <=> j \in A
  <2>1. CASE j \in w.remaining
    BY <1>1, <1>3, <2>1 DEF IdsOf
  <2>2. CASE j \notin w.remaining
    <3>1. cells[j].id \notin IdsOf(cells, w.remaining)
      BY <1>2, <2>2 DEF IdsOf, Distinct
    <3>. QED BY <1>3, <2>2, <3>1 DEF WalkExact
  <2>. QED BY <2>1, <2>2
<1>5. ASSUME NEW k \in DOMAIN v.results
      PROVE  \E j \in DOMAIN cells : v.results[k].cell = cells[j].id /\ v.results[k].verdict = Outcome(cells, pass, A, j)
  <2>1. CASE k \in DOMAIN w.results
    BY <1>3, <2>1 DEF WalkExact
  <2>2. CASE k \notin DOMAIN w.results
    <3>1. PICK i \in w.remaining : v.results[k].cell = cells[i].id /\ v.results[k].verdict = "skipped"
      BY <1>3, <2>2
    <3>. QED BY <1>1, <1>2, <3>1
  <2>. QED BY <2>1, <2>2
<1>6. ASSUME NEW j \in DOMAIN cells PROVE \E k \in DOMAIN v.results : v.results[k].cell = cells[j].id
  <2>1. CASE j \in w.remaining
    BY <1>3, <2>1
  <2>2. CASE j \notin w.remaining
    <3>1. PICK k \in DOMAIN w.results : w.results[k].cell = cells[j].id
      BY <2>2 DEF WalkExact
    <3>. QED BY <1>3, <3>1
  <2>. QED BY <2>1, <2>2
<1>7. DOMAIN cells \ v.remaining = DOMAIN cells
  BY <1>3
<1>. QED BY <1>4, <1>5, <1>6, <1>7 DEF WalkExact

\* A turn of the walk keeps it exact.
LEMMA WalkStepExact ==
  ASSUME NEW cells, cells \in Seq(ToSet(cells)), NEW pass \in SUBSET DOMAIN cells, NEW A, LeastSettled(cells, pass, A),
         Distinct(cells), NEW w, WalkTyped(cells, w), WalkExact(cells, pass, A, w)
  PROVE  WalkExact(cells, pass, A, WalkStep(cells, pass, w))
<1> DEFINE ready == ReadyCells(cells, w)
           i == Min(ready)
           open == Prerequisites(cells[i]) \subseteq w.ok
           verdict == IF open /\ i \in pass THEN "accepted" ELSE IF open THEN "rejected" ELSE "skipped"
<1>1. CASE ready = {}
  <2>1. WalkStep(cells, pass, w) = SkipRest(cells, w)
    BY <1>1 DEF WalkStep
  <2>. QED BY <1>1, <2>1, SkipExact
<1>2. CASE ready # {}
  <2>1. WalkStep(cells, pass, w) = Settle(cells, w, i, verdict)
    BY <1>2 DEF WalkStep
  <2>2. ready \in SUBSET Nat
    BY CellsAre DEF WalkTyped, ReadyCells
  <2>3. i \in ready
    BY <1>2, <2>2, MinIs
  <2> HIDE DEF i
  <2>. QED BY <2>1, <2>3, SettleExact
<1>. QED BY <1>1, <1>2

\* The walk is exact before its first turn.
LEMMA WalkStartExact ==
  ASSUME NEW cells, NEW pass, NEW A
  PROVE  WalkExact(cells, pass, A, WalkStart(cells))
BY DEF WalkExact, WalkStart

\* At the end every cell has its outcome, and the accepted ones are the
\* acceptable ones.
LEMMA WalkEnds ==
  ASSUME NEW cells, cells \in Seq(ToSet(cells)), NEW pass \in SUBSET DOMAIN cells, NEW A, LeastSettled(cells, pass, A),
         Distinct(cells), NEW w, WalkTyped(cells, w), WalkExact(cells, pass, A, w), w.remaining = {}
  PROVE  /\ Len(w.results) = Len(cells)
         /\ {w.results[k].cell : k \in DOMAIN w.results} = IdsOf(cells, DOMAIN cells)
         /\ IdsOf(cells, A) = {w.results[k].cell : k \in {n \in DOMAIN w.results : w.results[n].verdict = "accepted"}}
         /\ \A i \in DOMAIN cells : \A k \in DOMAIN w.results : w.results[k].cell = cells[i].id =>
              (w.results[k].verdict = "skipped" <=> ~ Prerequisites(cells[i]) \subseteq IdsOf(cells, A))
<1>1. Len(w.results) = Len(cells)
  <2>1. Cardinality({}) = 0
    BY FS_EmptySet
  <2>. QED BY <2>1, CellsAre DEF WalkTyped
<1>2. \A k \in DOMAIN w.results : \E i \in DOMAIN cells :
        w.results[k].cell = cells[i].id /\ w.results[k].verdict = Outcome(cells, pass, A, i)
  BY DEF WalkExact
<1>3. \A i \in DOMAIN cells : \E k \in DOMAIN w.results : w.results[k].cell = cells[i].id
  BY DEF WalkExact
<1>4. ASSUME NEW i \in DOMAIN cells, NEW k \in DOMAIN w.results, w.results[k].cell = cells[i].id
      PROVE  w.results[k].verdict = Outcome(cells, pass, A, i)
  BY <1>2, <1>4 DEF Distinct
<1>5. \A i \in DOMAIN cells : i \in A <=> Outcome(cells, pass, A, i) = "accepted"
  BY AcceptableIs DEF Outcome
<1>6. A \subseteq DOMAIN cells
  BY DEF LeastSettled
<1>7. {w.results[k].cell : k \in DOMAIN w.results} = IdsOf(cells, DOMAIN cells)
  BY <1>2, <1>3 DEF IdsOf
<1>8. IdsOf(cells, A) = {w.results[k].cell : k \in {n \in DOMAIN w.results : w.results[n].verdict = "accepted"}}
  <2>1. ASSUME NEW i \in A
        PROVE  \E k \in {n \in DOMAIN w.results : w.results[n].verdict = "accepted"} : w.results[k].cell = cells[i].id
    BY <1>3, <1>4, <1>5, <1>6
  <2>2. ASSUME NEW k \in DOMAIN w.results, w.results[k].verdict = "accepted"
        PROVE  \E i \in A : w.results[k].cell = cells[i].id
    BY <1>2, <1>5, <2>2
  <2>. QED BY <2>1, <2>2 DEF IdsOf
<1>9. \A i \in DOMAIN cells : Outcome(cells, pass, A, i) = "skipped" <=> ~ Prerequisites(cells[i]) \subseteq IdsOf(cells, A)
  BY DEF Outcome
<1>. QED BY <1>1, <1>4, <1>7, <1>8, <1>9

-----------------------------------------------------------------------------
(***************************************************************************)
(* Sequences put together.                                                 *)
(***************************************************************************)

\* What concatenation returns, position by position.
LEMMA JoinIs ==
  ASSUME NEW S, NEW s \in Seq(S), NEW r \in Seq(S)
  PROVE  /\ s \o r \in Seq(S) /\ Len(s \o r) = Len(s) + Len(r)
         /\ \A k \in DOMAIN s : k \in DOMAIN (s \o r) /\ (s \o r)[k] = s[k]
         /\ \A k \in DOMAIN r : Len(s) + k \in DOMAIN (s \o r) /\ (s \o r)[Len(s) + k] = r[k]
         /\ \A k \in DOMAIN (s \o r) :
              k \in DOMAIN s \/ (k > Len(s) /\ k - Len(s) \in DOMAIN r /\ Len(s) + (k - Len(s)) = k)
         /\ ToSet(s \o r) = ToSet(s) \cup ToSet(r)
         /\ IsInjective(s) /\ IsInjective(r) /\ ToSet(s) \cap ToSet(r) = {} => IsInjective(s \o r)
<1> DEFINE q == s \o r
           N == Len(s)
           M == Len(r)
<1>1. N \in Nat /\ DOMAIN s = 1 .. N /\ M \in Nat /\ DOMAIN r = 1 .. M
  OBVIOUS
<1>2. /\ q \in Seq(S) /\ Len(q) = N + M
      /\ \A k \in 1 .. N + M : q[k] = IF k <= N THEN s[k] ELSE r[k - N]
  BY ConcatProperties
<1>3. DOMAIN q = 1 .. N + M
  BY <1>1, <1>2
<1> HIDE DEF q, N, M
<1>4. \A k \in 1 .. N : k \in 1 .. N + M /\ q[k] = s[k]
  BY <1>1, <1>2
<1>5. \A k \in 1 .. M : N + k \in 1 .. N + M /\ q[N + k] = r[k]
  <2>. SUFFICES ASSUME NEW k \in 1 .. M PROVE N + k \in 1 .. N + M /\ q[N + k] = r[k]
    OBVIOUS
  <2>1. N + k \in 1 .. N + M /\ ~ (N + k <= N) /\ (N + k) - N = k
    BY <1>1
  <2>. QED BY <1>2, <2>1
<1>6. \A k \in 1 .. N + M : k \in 1 .. N \/ (k > N /\ k - N \in 1 .. M /\ N + (k - N) = k)
  BY <1>1
<1>7. ToSet(q) = ToSet(s) \cup ToSet(r)
  <2>1. ASSUME NEW x \in ToSet(q) PROVE x \in ToSet(s) \cup ToSet(r)
    <3>1. PICK k \in 1 .. N + M : q[k] = x
      BY <1>3 DEF ToSet
    <3>2. CASE k \in 1 .. N
      BY <1>1, <1>4, <3>1, <3>2 DEF ToSet
    <3>3. CASE k - N \in 1 .. M /\ N + (k - N) = k
      BY <1>1, <1>5, <3>1, <3>3 DEF ToSet
    <3>. QED BY <1>6, <3>2, <3>3
  <2>2. ASSUME NEW x \in ToSet(s) PROVE x \in ToSet(q)
    BY <1>1, <1>3, <1>4 DEF ToSet
  <2>3. ASSUME NEW x \in ToSet(r) PROVE x \in ToSet(q)
    BY <1>1, <1>3, <1>5 DEF ToSet
  <2>. QED BY <2>1, <2>2, <2>3
<1>8. ASSUME IsInjective(s), IsInjective(r), ToSet(s) \cap ToSet(r) = {} PROVE IsInjective(q)
  <2>. SUFFICES ASSUME NEW k \in 1 .. N + M, NEW l \in 1 .. N + M, q[k] = q[l] PROVE k = l
    BY <1>3 DEF IsInjective
  <2>0. \A i \in 1 .. N : \A j \in 1 .. M : s[i] # r[j]
    BY <1>1, <1>8 DEF ToSet
  <2>1. CASE k \in 1 .. N /\ l \in 1 .. N
    BY <1>1, <1>4, <1>8, <2>1 DEF IsInjective
  <2>2. CASE k \in 1 .. N /\ l - N \in 1 .. M /\ N + (l - N) = l
    BY <1>4, <1>5, <2>0, <2>2
  <2>3. CASE l \in 1 .. N /\ k - N \in 1 .. M /\ N + (k - N) = k
    BY <1>4, <1>5, <2>0, <2>3
  <2>4. CASE k - N \in 1 .. M /\ N + (k - N) = k /\ l - N \in 1 .. M /\ N + (l - N) = l
    <3>1. r[k - N] = r[l - N]
      BY <1>5, <2>4
    <3>2. k - N = l - N
      BY <1>1, <1>8, <2>4, <3>1 DEF IsInjective
    <3>. QED BY <1>1, <2>4, <3>2
  <2>. QED BY <1>6, <2>1, <2>2, <2>3, <2>4
<1>. QED BY <1>1, <1>2, <1>3, <1>4, <1>5, <1>6, <1>7, <1>8 DEF q, N, M

\* A sequence of distinct elements is as long as their set is large.
LEMMA InjectiveLength ==
  ASSUME NEW S, NEW s \in Seq(S), IsInjective(s)
  PROVE  IsFiniteSet(ToSet(s)) /\ Cardinality(ToSet(s)) = Len(s)
<1>1. Len(s) \in Nat /\ DOMAIN s = 1 .. Len(s)
  OBVIOUS
<1>2. IsFiniteSet(1 .. Len(s)) /\ Cardinality(1 .. Len(s)) = Len(s)
  <2>1. 1 \in Int /\ Len(s) \in Int
    BY <1>1
  <2>2. /\ IsFiniteSet(1 .. Len(s))
        /\ Cardinality(1 .. Len(s)) = IF 1 > Len(s) THEN 0 ELSE Len(s) - 1 + 1
    BY <2>1, FS_Interval
  <2>. QED BY <1>1, <2>2
<1>3. s \in Bijection(1 .. Len(s), ToSet(s))
  <2>1. s \in [1 .. Len(s) -> ToSet(s)]
    BY <1>1 DEF ToSet
  <2>. QED BY <1>1, <2>1 DEF Bijection, Injection, Surjection, ToSet, IsInjective
<1>. QED BY <1>2, <1>3, FS_Bijection DEF ExistsBijection

-----------------------------------------------------------------------------
(***************************************************************************)
(* topo_order.                                                             *)
(***************************************************************************)

\* A graph whose cells require cells of the graph.
IsGraph(cells) ==
  /\ cells \in Seq(ToSet(cells))
  /\ \A i \in DOMAIN cells : cells[i].requires \in Seq(IdsOf(cells, DOMAIN cells))

\* The positions whose popping decrements the counter of position j.
Feeds(cells, j) == {p \in DOMAIN cells : j \in Dependents(cells, p)}

Popped(t) == {t.queue[k] : k \in 1 .. t.qi}

\* The in-degree of a cell counts its edges, repeated ones too.
LEMMA InDegreeIs ==
  ASSUME NEW cells, IsGraph(cells), NEW j \in DOMAIN cells
  PROVE  InDegree(cells, j) = Len(cells[j].requires) /\ Len(cells[j].requires) \in Nat
<1> DEFINE r == cells[j].requires
           ids == IdsOf(cells, DOMAIN cells)
<1>1. r \in Seq(ids)
  BY DEF IsGraph
<1>2. Len(r) \in Nat /\ DOMAIN r = 1 .. Len(r)
  BY <1>1
<1>3. {k \in DOMAIN r : r[k] \in ids} = 1 .. Len(r)
  BY <1>1
<1>4. Cardinality(1 .. Len(r)) = Len(r)
  <2>1. 1 \in Int /\ Len(r) \in Int
    BY <1>2
  <2>2. Cardinality(1 .. Len(r)) = IF 1 > Len(r) THEN 0 ELSE Len(r) - 1 + 1
    BY <2>1, FS_Interval
  <2>. QED BY <1>2, <2>2
<1>. QED BY <1>2, <1>3, <1>4 DEF InDegree, IdsOf

\* There are no more of them than cell j names prerequisites.
LEMMA FeedsAreFew ==
  ASSUME NEW cells, IsGraph(cells), NEW j \in DOMAIN cells
  PROVE  /\ IsFiniteSet(Feeds(cells, j)) /\ Cardinality(Feeds(cells, j)) \in Nat
         /\ Cardinality(Feeds(cells, j)) <= Len(cells[j].requires)
<1> DEFINE r == cells[j].requires
           F == Feeds(cells, j)
<1>1. Len(r) \in Nat /\ DOMAIN r = 1 .. Len(r)
  BY DEF IsGraph
<1>2. IsFiniteSet(1 .. Len(r)) /\ Cardinality(1 .. Len(r)) = Len(r)
  <2>1. 1 \in Int /\ Len(r) \in Int
    BY <1>1
  <2>2. /\ IsFiniteSet(1 .. Len(r))
        /\ Cardinality(1 .. Len(r)) = IF 1 > Len(r) THEN 0 ELSE Len(r) - 1 + 1
    BY <2>1, FS_Interval
  <2>. QED BY <1>1, <2>2
<1>3. \A p \in F : \E k \in 1 .. Len(r) : PositionOf(cells, r[k]) = p
  BY <1>1 DEF Feeds, Dependents, Prerequisites, ToSet
<1> DEFINE f == [p \in F |-> CHOOSE k \in 1 .. Len(r) : PositionOf(cells, r[k]) = p]
<1>4. \A p \in F : f[p] \in 1 .. Len(r) /\ PositionOf(cells, r[f[p]]) = p
  BY <1>3
<1>5. f \in [F -> 1 .. Len(r)]
  BY <1>4
<1> HIDE DEF f, F
<1>6. f \in Injection(F, 1 .. Len(r))
  BY <1>4, <1>5 DEF Injection, IsInjective
<1>7. IsFiniteSet(F) /\ Cardinality(F) <= Cardinality(1 .. Len(r))
  BY <1>2, <1>6, FS_Injection
<1>. QED BY <1>2, <1>7, FS_CardinalityType DEF F

-----------------------------------------------------------------------------
\* The counter of a cell is what is left of its edges when one is taken off for
\* each popped cell that feeds it, and the queue holds exactly the cells whose
\* counter is zero, once each.
TopoTyped(cells, t) ==
  /\ t.queue \in Seq(DOMAIN cells) /\ IsInjective(t.queue)
  /\ t.qi \in 0 .. Len(t.queue)
  /\ t.indeg \in [DOMAIN cells -> Nat]
  /\ \A j \in DOMAIN cells :
       /\ t.indeg[j] + Cardinality(Popped(t) \cap Feeds(cells, j)) = Len(cells[j].requires)
       /\ t.indeg[j] = 0 <=> j \in ToSet(t.queue)

\* Positions in ascending order are a sequence of the graph without repetition.
LEMMA AscendingInjective ==
  ASSUME NEW cells, cells \in Seq(ToSet(cells)), NEW S \in SUBSET DOMAIN cells
  PROVE  Ascending(S) \in Seq(DOMAIN cells) /\ IsInjective(Ascending(S)) /\ ToSet(Ascending(S)) = S
<1> DEFINE s == Ascending(S)
<1>1. Len(cells) \in Nat /\ S \in SUBSET (1 .. Len(cells)) /\ DOMAIN cells = 1 .. Len(cells)
  BY CellsAre
<1>2. /\ s \in Seq(S) /\ ToSet(s) = S
      /\ \A i, j \in DOMAIN s : i < j => s[i] < s[j]
  BY <1>1, AscendingIs
<1>3. Len(s) \in Nat /\ DOMAIN s = 1 .. Len(s) /\ \A i \in DOMAIN s : s[i] \in S /\ s[i] \in Nat
  BY <1>1, <1>2
<1> HIDE DEF s
<1>4. s \in Seq(DOMAIN cells)
  <2>1. s \in [1 .. Len(s) -> DOMAIN cells]
    BY <1>1, <1>2, <1>3
  <2>. QED BY <1>3, <2>1
<1>5. IsInjective(s)
  <2>. SUFFICES ASSUME NEW i \in DOMAIN s, NEW j \in DOMAIN s, s[i] = s[j] PROVE i = j
    BY DEF IsInjective
  <2>1. i \in Nat /\ j \in Nat /\ s[i] \in Nat
    BY <1>3
  <2>2. ~ (i < j) /\ ~ (j < i)
    BY <1>2, <1>3, <2>1
  <2>. QED BY <2>1, <2>2
<1>. QED BY <1>2, <1>4, <1>5 DEF s

\* The sort starts within its types, with the counters at the in-degrees.
LEMMA TopoStartTyped ==
  ASSUME NEW cells, IsGraph(cells), NEW t, t = TopoStart(cells)
  PROVE  TopoTyped(cells, t)
<1> DEFINE ready == {i \in DOMAIN cells : t.indeg[i] = 0}
<1>1. cells \in Seq(ToSet(cells))
  BY DEF IsGraph
<1>2. t.indeg = [i \in DOMAIN cells |-> InDegree(cells, i)] /\ t.qi = 0
  BY DEF TopoStart
<1>3. t.queue = Ascending(ready)
  BY DEF TopoStart
<1>4. t.indeg \in [DOMAIN cells -> Nat] /\ \A j \in DOMAIN cells : t.indeg[j] = Len(cells[j].requires)
  BY <1>2, InDegreeIs
<1>5. t.queue \in Seq(DOMAIN cells) /\ IsInjective(t.queue) /\ ToSet(t.queue) = ready
  BY <1>1, <1>3, AscendingInjective
<1>6. t.qi \in 0 .. Len(t.queue)
  BY <1>2, <1>5
<1>7. Popped(t) = {}
  BY <1>2 DEF Popped
<1>8. ASSUME NEW j \in DOMAIN cells
      PROVE  t.indeg[j] + Cardinality(Popped(t) \cap Feeds(cells, j)) = Len(cells[j].requires)
  <2>1. Popped(t) \cap Feeds(cells, j) = {} /\ Cardinality({}) = 0
    BY <1>7, FS_EmptySet
  <2>2. t.indeg[j] = Len(cells[j].requires) /\ t.indeg[j] \in Nat
    BY <1>4
  <2>3. Cardinality(Popped(t) \cap Feeds(cells, j)) = 0
    BY <2>1, Zenon
  <2>. QED BY <2>2, <2>3
<1>. QED BY <1>4, <1>5, <1>6, <1>8 DEF TopoTyped

\* The cells freed when position p is popped.
FreedBy(cells, t, p) == {j \in DOMAIN cells : p \in Feeds(cells, j) /\ t.indeg[j] = 1}

Queued(t, F) == t.queue \o Ascending(F)

\* Popping a cell.
LEMMA PopIs ==
  ASSUME NEW cells, IsGraph(cells), NEW t, TopoTyped(cells, t), t.qi < Len(t.queue),
         NEW v, v = TopoStep(cells, t), NEW p, p = t.queue[t.qi + 1]
  PROVE  /\ p \in DOMAIN cells /\ p \notin Popped(t) /\ t.qi + 1 \in DOMAIN t.queue
         /\ v.qi = t.qi + 1
         /\ v.indeg \in [DOMAIN cells -> Nat]
         /\ \A j \in DOMAIN cells : v.indeg[j] = IF p \in Feeds(cells, j) THEN t.indeg[j] - 1 ELSE t.indeg[j]
         /\ v.queue = Queued(t, FreedBy(cells, t, p))
         /\ Popped(t) \subseteq DOMAIN cells
         /\ \A j \in DOMAIN cells :
              p \in Feeds(cells, j) => t.indeg[j] >= 1
<1>1. /\ t.queue \in Seq(DOMAIN cells) /\ IsInjective(t.queue)
      /\ t.qi \in 0 .. Len(t.queue)
      /\ t.indeg \in [DOMAIN cells -> Nat]
      /\ \A j \in DOMAIN cells :
           t.indeg[j] + Cardinality(Popped(t) \cap Feeds(cells, j)) = Len(cells[j].requires)
  BY DEF TopoTyped
<1>2. t.qi \in Nat /\ Len(t.queue) \in Nat /\ DOMAIN t.queue = 1 .. Len(t.queue) /\ t.qi + 1 \in DOMAIN t.queue
  BY <1>1
<1>3. p \in DOMAIN cells /\ Popped(t) \subseteq DOMAIN cells
  BY <1>1, <1>2 DEF Popped
<1>4. p \notin Popped(t)
  <2>. SUFFICES ASSUME NEW k \in 1 .. t.qi, t.queue[k] = p PROVE FALSE
    BY DEF Popped
  <2>1. k \in DOMAIN t.queue /\ k # t.qi + 1
    BY <1>2
  <2>. QED BY <1>1, <1>2, <2>1 DEF IsInjective
<1>5. \A j \in DOMAIN cells : j \in Dependents(cells, p) <=> p \in Feeds(cells, j)
  BY <1>3 DEF Feeds
<1>6. Dependents(cells, p) \subseteq DOMAIN cells
  BY DEF Dependents
<1>7. v.qi = t.qi + 1
  BY DEF TopoStep
<1>8. v.indeg = [j \in DOMAIN cells |-> IF j \in Dependents(cells, p) THEN t.indeg[j] - 1 ELSE t.indeg[j]]
  BY DEF TopoStep
<1>9. v.queue = t.queue \o Ascending({j \in Dependents(cells, p) : t.indeg[j] = 1})
  BY DEF TopoStep
<1>10. {j \in Dependents(cells, p) : t.indeg[j] = 1} = FreedBy(cells, t, p)
  BY <1>5, <1>6 DEF FreedBy
<1>11. \A j \in DOMAIN cells : v.indeg[j] = IF p \in Feeds(cells, j) THEN t.indeg[j] - 1 ELSE t.indeg[j]
  BY <1>5, <1>8
<1>12. ASSUME NEW j \in DOMAIN cells, p \in Feeds(cells, j) PROVE t.indeg[j] >= 1
  <2> DEFINE F == Feeds(cells, j)
             P == Popped(t) \cap F
  <2>1. IsFiniteSet(F) /\ Cardinality(F) \in Nat /\ Cardinality(F) <= Len(cells[j].requires)
    BY FeedsAreFew
  <2>2. P \in SUBSET F /\ P \cup {p} \in SUBSET F /\ p \notin P
    BY <1>4, <1>12
  <2> HIDE DEF P, F
  <2>3. IsFiniteSet(P) /\ Cardinality(P) \in Nat
    BY <2>1, <2>2, FS_Subset, FS_CardinalityType
  <2>4. Cardinality(P \cup {p}) = Cardinality(P) + 1
    BY <2>2, <2>3, FS_AddElement
  <2>5. Cardinality(P \cup {p}) <= Cardinality(F)
    BY <2>1, <2>2, FS_Subset
  <2>6. t.indeg[j] + Cardinality(P) = Len(cells[j].requires) /\ t.indeg[j] \in Nat
    BY <1>1 DEF P, F
  <2>7. Len(cells[j].requires) \in Nat
    BY InDegreeIs
  <2>. QED BY <2>1, <2>3, <2>4, <2>5, <2>6, <2>7
<1>13. v.indeg \in [DOMAIN cells -> Nat]
  <2>1. \A j \in DOMAIN cells : (IF j \in Dependents(cells, p) THEN t.indeg[j] - 1 ELSE t.indeg[j]) \in Nat
    BY <1>1, <1>5, <1>12
  <2>. QED BY <1>8, <2>1
<1>14. v.queue = Queued(t, FreedBy(cells, t, p))
  BY <1>9, <1>10, Zenon DEF Queued
<1>. QED BY <1>2, <1>3, <1>4, <1>7, <1>11, <1>12, <1>13, <1>14, Zenon

\* A popped cell keeps the queue free of repetitions and the counters exact.
LEMMA TopoStepTyped ==
  ASSUME NEW cells, IsGraph(cells), NEW t, TopoTyped(cells, t), t.qi < Len(t.queue),
         NEW v, v = TopoStep(cells, t)
  PROVE  TopoTyped(cells, v)
<1>. SUFFICES ASSUME NEW p, p = t.queue[t.qi + 1] PROVE TopoTyped(cells, v)
  OBVIOUS
<1> DEFINE freed == FreedBy(cells, t, p)
           r == Ascending(freed)
<1>1. /\ p \in DOMAIN cells /\ p \notin Popped(t) /\ t.qi + 1 \in DOMAIN t.queue
      /\ v.qi = t.qi + 1
      /\ v.indeg \in [DOMAIN cells -> Nat]
      /\ \A j \in DOMAIN cells : v.indeg[j] = IF p \in Feeds(cells, j) THEN t.indeg[j] - 1 ELSE t.indeg[j]
      /\ v.queue = t.queue \o r
      /\ Popped(t) \subseteq DOMAIN cells
      /\ \A j \in DOMAIN cells : p \in Feeds(cells, j) => t.indeg[j] >= 1
  <2>1. p \in DOMAIN cells /\ p \notin Popped(t)
    BY PopIs
  <2>7. t.qi + 1 \in DOMAIN t.queue
    <3>1. t.queue \in Seq(DOMAIN cells) /\ t.qi \in 0 .. Len(t.queue)
      BY DEF TopoTyped
    <3>. QED BY <3>1
  <2>2. v.qi = t.qi + 1 /\ v.indeg \in [DOMAIN cells -> Nat]
    BY PopIs
  <2>3. \A j \in DOMAIN cells : v.indeg[j] = IF p \in Feeds(cells, j) THEN t.indeg[j] - 1 ELSE t.indeg[j]
    BY PopIs
  <2>4. v.queue = t.queue \o r
    <3>1. v.queue = Queued(t, freed)
      BY PopIs
    <3>. QED BY <3>1 DEF Queued
  <2>5. Popped(t) \subseteq DOMAIN cells
    BY PopIs
  <2>6. \A j \in DOMAIN cells : p \in Feeds(cells, j) => t.indeg[j] >= 1
    BY PopIs
  <2>. QED BY <2>1, <2>2, <2>3, <2>4, <2>5, <2>6, <2>7
<1>2. /\ t.queue \in Seq(DOMAIN cells) /\ IsInjective(t.queue)
      /\ t.qi \in Nat /\ Len(t.queue) \in Nat /\ t.qi <= Len(t.queue)
      /\ t.indeg \in [DOMAIN cells -> Nat]
      /\ \A j \in DOMAIN cells :
           /\ t.indeg[j] + Cardinality(Popped(t) \cap Feeds(cells, j)) = Len(cells[j].requires)
           /\ t.indeg[j] = 0 <=> j \in ToSet(t.queue)
  <2>1. t.qi \in 0 .. Len(t.queue) /\ t.queue \in Seq(DOMAIN cells)
    BY Zenon DEF TopoTyped
  <2>2. t.qi \in Nat /\ Len(t.queue) \in Nat /\ t.qi <= Len(t.queue)
    BY <2>1
  <2>. QED BY <2>1, <2>2, Zenon DEF TopoTyped
<1>3. r \in Seq(DOMAIN cells) /\ IsInjective(r) /\ ToSet(r) = freed
  BY AscendingInjective DEF IsGraph, FreedBy
<1>4. \A j \in DOMAIN cells : v.indeg[j] = IF p \in Feeds(cells, j) THEN t.indeg[j] - 1 ELSE t.indeg[j]
  BY <1>1
<1>6. \A j \in freed : j \in DOMAIN cells /\ t.indeg[j] = 1 /\ p \in Feeds(cells, j)
  BY DEF FreedBy
<1>7. \A j \in DOMAIN cells : p \in Feeds(cells, j) /\ t.indeg[j] = 1 => j \in freed
  BY DEF FreedBy
<1>8. ToSet(t.queue) \cap ToSet(r) = {}
  <2>. SUFFICES ASSUME NEW j \in freed, j \in ToSet(t.queue) PROVE FALSE
    BY <1>3
  <2>1. t.indeg[j] = 1 /\ t.indeg[j] = 0
    BY <1>2, <1>6
  <2>. QED BY <2>1
<1> HIDE DEF r, freed
<1>9. /\ v.queue \in Seq(DOMAIN cells) /\ Len(v.queue) = Len(t.queue) + Len(r)
      /\ \A k \in DOMAIN t.queue : v.queue[k] = t.queue[k]
      /\ ToSet(v.queue) = ToSet(t.queue) \cup freed
      /\ IsInjective(v.queue)
  BY <1>1, <1>2, <1>3, <1>8, JoinIs
<1>10. v.qi \in 0 .. Len(v.queue)
  <2>1. Len(r) \in Nat /\ t.qi + 1 <= Len(t.queue)
    BY <1>1, <1>2, <1>3
  <2>. QED BY <1>1, <1>2, <1>9, <2>1
<1>11. Popped(v) = Popped(t) \cup {p}
  <2>1. \A k \in 1 .. t.qi : k \in DOMAIN t.queue
    BY <1>2
  <2>2. \A k : k \in 1 .. v.qi <=> k \in 1 .. t.qi \/ k = t.qi + 1
    BY <1>1, <1>2
  <2>3. \A k \in 1 .. t.qi : v.queue[k] = t.queue[k]
    BY <1>9, <2>1
  <2>4. v.queue[t.qi + 1] = p
    BY <1>1, <1>9
  <2>. QED BY <2>2, <2>3, <2>4 DEF Popped
<1>12. ASSUME NEW j \in DOMAIN cells
       PROVE  /\ v.indeg[j] + Cardinality(Popped(v) \cap Feeds(cells, j)) = Len(cells[j].requires)
              /\ v.indeg[j] = 0 <=> j \in ToSet(v.queue)
  <2> DEFINE P == Popped(t) \cap Feeds(cells, j)
             Q == Popped(v) \cap Feeds(cells, j)
  <2>1. t.indeg[j] + Cardinality(P) = Len(cells[j].requires) /\ t.indeg[j] \in Nat
    BY <1>2
  <2>2. P \in SUBSET DOMAIN cells
    BY <1>1
  <2>3. CASE p \in Feeds(cells, j)
    <3>1. Q = P \cup {p} /\ p \notin P
      BY <1>1, <1>11, <2>3
    <3> HIDE DEF P, Q
    <3>2. IsFiniteSet(P) /\ Cardinality(P) \in Nat
      BY <2>2, CellsAre DEF IsGraph
    <3>3. Cardinality(Q) = Cardinality(P) + 1
      BY <3>1, <3>2, FS_AddElement
    <3>4. v.indeg[j] = t.indeg[j] - 1 /\ t.indeg[j] >= 1
      BY <1>1, <1>4, <2>3
    <3>5. v.indeg[j] = 0 <=> j \in ToSet(v.queue)
      <4>1. t.indeg[j] = 1 <=> j \in freed
        BY <1>6, <1>7, <2>3
      <4>2. j \notin ToSet(t.queue)
        <5>1. t.indeg[j] # 0
          BY <2>1, <3>4
        <5>. QED BY <1>2, <5>1, Zenon
      <4>3. v.indeg[j] = 0 <=> t.indeg[j] = 1
        BY <2>1, <3>4
      <4>. QED BY <1>9, <4>1, <4>2, <4>3, Zenon
    <3>6. v.indeg[j] + Cardinality(Q) = Len(cells[j].requires)
      BY <2>1, <3>2, <3>3, <3>4
    <3>. QED BY <3>5, <3>6 DEF Q
  <2>4. CASE p \notin Feeds(cells, j)
    <3>1. Q = P
      BY <1>11, <2>4
    <3>2. v.indeg[j] = t.indeg[j]
      BY <1>4, <2>4
    <3>3. j \notin freed
      BY <1>6, <2>4
    <3>. QED BY <1>2, <1>9, <2>1, <3>1, <3>2, <3>3, Zenon
  <2>. QED BY <2>3, <2>4
<1>. QED BY <1>1, <1>9, <1>10, <1>12 DEF TopoTyped

\* The order: the queue, then whatever was never freed.
LEMMA TopoEndIs ==
  ASSUME NEW cells, IsGraph(cells), NEW t, TopoTyped(cells, t), NEW order, order = TopoEnd(cells, t)
  PROVE  /\ order \in Seq(DOMAIN cells) /\ IsInjective(order)
         /\ ToSet(order) = DOMAIN cells /\ Len(order) = Len(cells)
         /\ \A k \in DOMAIN t.queue : k \in DOMAIN order /\ order[k] = t.queue[k]
<1> DEFINE rest == DOMAIN cells \ ToSet(t.queue)
           r == Ascending(rest)
<1>1. t.queue \in Seq(DOMAIN cells) /\ IsInjective(t.queue) /\ cells \in Seq(ToSet(cells))
  BY DEF TopoTyped, IsGraph
<1>2. r \in Seq(DOMAIN cells) /\ IsInjective(r) /\ ToSet(r) = rest
  BY <1>1, AscendingInjective
<1>3. order = t.queue \o r
  BY DEF TopoEnd
<1>4. ToSet(t.queue) \subseteq DOMAIN cells
  BY <1>1 DEF ToSet
<1>5. ToSet(t.queue) \cap ToSet(r) = {} /\ ToSet(t.queue) \cup ToSet(r) = DOMAIN cells
  BY <1>2, <1>4
<1> HIDE DEF r, rest
<1>6. /\ order \in Seq(DOMAIN cells) /\ IsInjective(order) /\ ToSet(order) = DOMAIN cells
      /\ \A k \in DOMAIN t.queue : k \in DOMAIN order /\ order[k] = t.queue[k]
  <2>1. order \in Seq(DOMAIN cells) /\ IsInjective(order)
    BY <1>1, <1>2, <1>3, <1>5, JoinIs
  <2>2. ToSet(order) = ToSet(t.queue) \cup ToSet(r)
    BY <1>1, <1>2, <1>3, JoinIs
  <2>3. \A k \in DOMAIN t.queue : k \in DOMAIN order /\ order[k] = t.queue[k]
    BY <1>1, <1>2, <1>3, JoinIs
  <2>. QED BY <1>5, <2>1, <2>2, <2>3
<1>7. Len(order) = Len(cells)
  <2>1. Cardinality(ToSet(order)) = Len(order)
    BY <1>6, InjectiveLength
  <2>2. Cardinality(DOMAIN cells) = Len(cells)
    BY <1>1, CellsAre
  <2>. QED BY <1>6, <2>1, <2>2
<1>. QED BY <1>6, <1>7

-----------------------------------------------------------------------------
\* When no cell lists a prerequisite twice and no id repeats, a cell is fed by
\* exactly the cells it requires.
Exact(cells) ==
  Distinct(cells) /\ \A i \in DOMAIN cells : Cardinality(Prerequisites(cells[i])) = Len(cells[i].requires)

\* Without repeated ids or edges a counter starts at the number of cells it waits for.
LEMMA FeedsAre ==
  ASSUME NEW cells, IsGraph(cells), Exact(cells), NEW j \in DOMAIN cells
  PROVE  /\ Feeds(cells, j) = {i \in DOMAIN cells : cells[i].id \in Prerequisites(cells[j])}
         /\ Cardinality(Feeds(cells, j)) = Len(cells[j].requires)
         /\ \A d \in Prerequisites(cells[j]) : \E i \in Feeds(cells, j) : cells[i].id = d
<1> DEFINE F == {i \in DOMAIN cells : cells[i].id \in Prerequisites(cells[j])}
           P == Prerequisites(cells[j])
<1>1. cells \in Seq(ToSet(cells)) /\ cells[j].requires \in Seq(IdsOf(cells, DOMAIN cells)) /\ Distinct(cells)
  BY DEF IsGraph, Exact
<1>2. ASSUME NEW p \in DOMAIN cells PROVE PositionOf(cells, cells[p].id) = p
  <2>1. {i \in DOMAIN cells : cells[i].id = cells[p].id} = {p}
    BY <1>1 DEF Distinct
  <2>2. p \in Nat
    BY <1>1, CellsAre
  <2>3. Max({p}) = p
    BY <2>2 DEF Max
  <2>. QED BY <2>1, <2>3, Zenon DEF PositionOf
<1>3. \A d \in P : \E i \in DOMAIN cells : cells[i].id = d
  BY <1>1 DEF Prerequisites, ToSet, IdsOf
<1>4. Feeds(cells, j) = F
  <2>1. ASSUME NEW p \in DOMAIN cells, j \in Dependents(cells, p) PROVE cells[p].id \in P
    <3>1. PICK d \in P : (\E k \in DOMAIN cells : cells[k].id = d) /\ PositionOf(cells, d) = p
      BY <2>1 DEF Dependents
    <3>2. PICK k \in DOMAIN cells : cells[k].id = d
      BY <3>1
    <3>3. k = p
      BY <1>2, <3>1, <3>2
    <3>. QED BY <3>2, <3>3
  <2>2. ASSUME NEW p \in DOMAIN cells, cells[p].id \in P PROVE j \in Dependents(cells, p)
    BY <1>2, <2>2 DEF Dependents
  <2>. QED BY <2>1, <2>2 DEF Feeds
<1>5. Cardinality(F) = Len(cells[j].requires)
  <2>1. Cardinality(P) = Len(cells[j].requires)
    BY DEF Exact
  <2>2. IsFiniteSet(F)
    <3>1. F \in SUBSET DOMAIN cells
      OBVIOUS
    <3>. QED BY <1>1, <3>1, CellsAre
  <2> DEFINE f == [i \in F |-> cells[i].id]
  <2>3. f \in [F -> P]
    OBVIOUS
  <2>4. \A a, b \in F : f[a] = f[b] => a = b
    BY <1>1 DEF Distinct
  <2>5. \A d \in P : \E i \in F : f[i] = d
    BY <1>3
  <2> HIDE DEF f, F, P
  <2>6. f \in Bijection(F, P)
    BY <2>3, <2>4, <2>5 DEF Bijection, Injection, Surjection, IsInjective
  <2>7. Cardinality(P) = Cardinality(F)
    BY <2>2, <2>6, FS_Bijection DEF ExistsBijection
  <2>. QED BY <2>1, <2>7
<1>6. \A d \in P : \E i \in F : cells[i].id = d
  BY <1>3
<1>. QED BY <1>4, <1>5, <1>6

\* A counter at zero: all that feeds the cell has been popped.
LEMMA ZeroIsFed ==
  ASSUME NEW cells, IsGraph(cells), Exact(cells), NEW t, TopoTyped(cells, t), NEW j \in DOMAIN cells
  PROVE  j \in ToSet(t.queue) <=> Feeds(cells, j) \subseteq Popped(t)
<1> DEFINE F == Feeds(cells, j)
           P == Popped(t) \cap F
<1>1. IsFiniteSet(F) /\ Cardinality(F) \in Nat /\ Cardinality(F) = Len(cells[j].requires)
  BY FeedsAreFew, FeedsAre
<1>2. t.indeg[j] + Cardinality(P) = Len(cells[j].requires) /\ t.indeg[j] \in Nat
  BY DEF TopoTyped
<1>3. t.indeg[j] = 0 <=> j \in ToSet(t.queue)
  BY Zenon DEF TopoTyped
<1>4. P \in SUBSET F /\ (F \subseteq Popped(t) <=> P = F)
  OBVIOUS
<1> HIDE DEF F, P
<1>5. Cardinality(P) \in Nat /\ (Cardinality(F) = Cardinality(P) => F = P)
  BY <1>1, <1>4, FS_Subset, FS_CardinalityType
<1>6. t.indeg[j] = 0 <=> Cardinality(P) = Cardinality(F)
  BY <1>1, <1>2, <1>5
<1>7. t.indeg[j] = 0 <=> P = F
  BY <1>5, <1>6
<1>. QED BY <1>3, <1>4, <1>7, Zenon DEF F

\* Every queued cell comes after all it requires.
Sorted(cells, order) ==
  \A k \in DOMAIN order : \A d \in Prerequisites(cells[order[k]]) :
    \E l \in 1 .. k - 1 : cells[order[l]].id = d

\* The queue starts with the cells that wait for nothing.
LEMMA TopoStartSorted ==
  ASSUME NEW cells, IsGraph(cells), Exact(cells), NEW t, t = TopoStart(cells)
  PROVE  Sorted(cells, t.queue)
<1>1. TopoTyped(cells, t)
  BY TopoStartTyped
<1>2. Popped(t) = {}
  BY DEF Popped, TopoStart
<1>. SUFFICES ASSUME NEW k \in DOMAIN t.queue, NEW d \in Prerequisites(cells[t.queue[k]]) PROVE FALSE
  BY DEF Sorted
<1>3. t.queue[k] \in DOMAIN cells /\ t.queue[k] \in ToSet(t.queue)
  BY <1>1 DEF TopoTyped, ToSet
<1>4. Feeds(cells, t.queue[k]) = {}
  BY <1>1, <1>2, <1>3, ZeroIsFed
<1>. QED BY <1>3, <1>4, FeedsAre

\* A popped cell frees those whose prerequisites have all come before.
LEMMA TopoStepSorted ==
  ASSUME NEW cells, IsGraph(cells), Exact(cells), NEW t, TopoTyped(cells, t), t.qi < Len(t.queue),
         Sorted(cells, t.queue), NEW v, v = TopoStep(cells, t)
  PROVE  Sorted(cells, v.queue)
<1>. SUFFICES ASSUME NEW p, p = t.queue[t.qi + 1] PROVE Sorted(cells, v.queue)
  OBVIOUS
<1> DEFINE r == Ascending(FreedBy(cells, t, p))
           N == Len(t.queue)
<1>1. TopoTyped(cells, v)
  BY TopoStepTyped
<1>2. v.queue = t.queue \o r /\ v.qi = t.qi + 1
  <2>1. v.queue = Queued(t, FreedBy(cells, t, p))
    BY PopIs
  <2>2. v.qi = t.qi + 1
    BY DEF TopoStep
  <2>. QED BY <2>1, <2>2 DEF Queued
<1>3. t.queue \in Seq(DOMAIN cells) /\ N \in Nat /\ DOMAIN t.queue = 1 .. N /\ t.qi \in Nat /\ t.qi + 1 <= N
  BY DEF TopoTyped
<1>4. r \in Seq(DOMAIN cells)
  BY AscendingInjective DEF IsGraph, FreedBy
<1> HIDE DEF r
<1>5. /\ \A k \in DOMAIN t.queue : k \in DOMAIN v.queue /\ v.queue[k] = t.queue[k]
      /\ \A k \in DOMAIN v.queue : k \in DOMAIN t.queue \/ k > N
  BY <1>2, <1>3, <1>4, JoinIs
<1>6. v.queue \in Seq(DOMAIN cells) /\ DOMAIN v.queue = 1 .. Len(v.queue) /\ Len(v.queue) \in Nat
  BY <1>1 DEF TopoTyped
<1>. SUFFICES ASSUME NEW k \in DOMAIN v.queue, NEW d \in Prerequisites(cells[v.queue[k]])
              PROVE  \E l \in 1 .. k - 1 : cells[v.queue[l]].id = d
  BY DEF Sorted
<1>7. CASE k \in DOMAIN t.queue
  <2>1. d \in Prerequisites(cells[t.queue[k]])
    BY <1>5, <1>7
  <2>2. PICK l \in 1 .. k - 1 : cells[t.queue[l]].id = d
    BY <1>7, <2>1 DEF Sorted
  <2>3. l \in DOMAIN t.queue
    BY <1>3, <1>7
  <2>. QED BY <1>5, <2>2, <2>3
<1>8. CASE k > N
  <2>1. v.queue[k] \in DOMAIN cells /\ v.queue[k] \in ToSet(v.queue)
    BY <1>6 DEF ToSet
  <2>2. Feeds(cells, v.queue[k]) \subseteq Popped(v)
    BY <1>1, <2>1, ZeroIsFed
  <2>3. PICK i \in Feeds(cells, v.queue[k]) : cells[i].id = d
    BY <2>1, FeedsAre
  <2>4. PICK l \in 1 .. v.qi : v.queue[l] = i
    BY <2>2 DEF Popped
  <2>5. l \in 1 .. k - 1
    BY <1>2, <1>3, <1>6, <1>8
  <2>. QED BY <2>3, <2>4, <2>5
<1>. QED BY <1>5, <1>7, <1>8

\* When all of the queue is popped, it holds the cells that no cycle blocks.
LEMMA TopoEnds ==
  ASSUME NEW cells, IsGraph(cells), Exact(cells), NEW t, TopoTyped(cells, t), Sorted(cells, t.queue),
         t.qi = Len(t.queue), NEW G, LeastSettled(cells, DOMAIN cells, G)
  PROVE  ToSet(t.queue) = G
<1> DEFINE Q == ToSet(t.queue)
<1>1. t.queue \in Seq(DOMAIN cells) /\ Len(t.queue) \in Nat /\ DOMAIN t.queue = 1 .. Len(t.queue)
  BY DEF TopoTyped
<1>2. Popped(t) = Q /\ Q \subseteq DOMAIN cells
  BY <1>1 DEF Popped, ToSet
<1>3. G \subseteq Q
  <2>1. ASSUME NEW j \in DOMAIN cells, Prerequisites(cells[j]) \subseteq IdsOf(cells, Q) PROVE j \in Q
    <3>1. Feeds(cells, j) \subseteq Q
      <4>. SUFFICES ASSUME NEW i \in Feeds(cells, j) PROVE i \in Q
        OBVIOUS
      <4>1. i \in DOMAIN cells /\ cells[i].id \in Prerequisites(cells[j])
        BY FeedsAre
      <4>2. PICK q \in Q : cells[q].id = cells[i].id
        BY <2>1, <4>1 DEF IdsOf
      <4>. QED BY <1>2, <4>1, <4>2 DEF Exact, Distinct
    <3>. QED BY <1>2, <3>1, ZeroIsFed
  <2>2. Settling(cells, DOMAIN cells, Q) \subseteq Q
    BY <2>1 DEF Settling
  <2>. QED BY <2>2 DEF LeastSettled
<1>4. Q \subseteq G
  <2> DEFINE B == {k \in Nat : k \in 1 .. Len(t.queue) /\ t.queue[k] \notin G}
  <2>. SUFFICES ASSUME B # {} PROVE FALSE
    BY <1>1 DEF ToSet
  <2>1. B \in SUBSET Nat
    OBVIOUS
  <2>2. PICK m \in B : \A k \in B : m <= k
    <3> HIDE DEF B
    <3>. QED BY <2>1, LeastNumber
  <2>3. m \in 1 .. Len(t.queue) /\ t.queue[m] \notin G /\ t.queue[m] \in DOMAIN cells
    BY <1>1
  <2>4. \A l \in 1 .. m - 1 : t.queue[l] \in G
    <3>. SUFFICES ASSUME NEW l \in 1 .. m - 1, l \notin B PROVE t.queue[l] \in G
      BY <2>2, <2>3
    <3>. QED BY <1>1, <2>3
  <2>5. Prerequisites(cells[t.queue[m]]) \subseteq IdsOf(cells, G)
    <3>. SUFFICES ASSUME NEW d \in Prerequisites(cells[t.queue[m]])
                  PROVE  \E i \in G : cells[i].id = d
      BY DEF IdsOf
    <3>1. \E l \in 1 .. m - 1 : cells[t.queue[l]].id = d
      BY <1>1, <2>3 DEF Sorted
    <3>. QED BY <2>4, <3>1
  <2>6. t.queue[m] \in Settling(cells, DOMAIN cells, G)
    BY <2>3, <2>5 DEF Settling
  <2>. QED BY <2>3, <2>6 DEF LeastSettled
<1>. QED BY <1>3, <1>4

\* One turn of topo_order, or none when the queue is empty.
TopoTurned(cells, t) == IF t.qi = Len(t.queue) THEN t ELSE TopoStep(cells, t)

\* s runs topo_order for as many turns as there are cells.
Orders(cells, s) ==
  s = [n \in 0 .. Len(cells) |->
        IF n = 0 THEN TopoStart(cells)
        ELSE IF s[n - 1].qi = Len(s[n - 1].queue) THEN s[n - 1]
        ELSE TopoStep(cells, s[n - 1])]

\* The run of the sort exists: TopoOrder chooses what there is.
LEMMA OrderExists ==
  ASSUME NEW cells, Len(cells) \in Nat
  PROVE  \E s : Orders(cells, s)
<1> DEFINE Turn(s, n) == IF n = 0 THEN TopoStart(cells) ELSE TopoTurned(cells, s[n - 1])
           Upto(N, s) == s = [n \in 0 .. N |-> s[n]] /\ \A n \in 0 .. N : s[n] = Turn(s, n)
           T == {N \in Nat : \E s : Upto(N, s)}
<1>1. 0 \in T
  <2> DEFINE s == [n \in 0 .. 0 |-> TopoStart(cells)]
  <2>1. Upto(0, s)
    OBVIOUS
  <2>. QED BY <2>1
<1>2. ASSUME NEW N \in T PROVE N + 1 \in T
  <2>1. PICK s : Upto(N, s)
    OBVIOUS
  <2> DEFINE r == [n \in 0 .. N + 1 |-> IF n = N + 1 THEN TopoTurned(cells, s[N]) ELSE s[n]]
  <2>2. r = [n \in 0 .. N + 1 |-> r[n]]
    OBVIOUS
  <2>3. r[N + 1] = TopoTurned(cells, s[N]) /\ \A n \in 0 .. N : r[n] = s[n]
    OBVIOUS
  <2> HIDE DEF r
  <2>4. ASSUME NEW n \in 0 .. N + 1 PROVE r[n] = Turn(r, n)
    <3>1. CASE n = N + 1
      <4>1. (N + 1) - 1 = N /\ N + 1 # 0 /\ N \in 0 .. N
        OBVIOUS
      <4>2. r[(N + 1) - 1] = s[N]
        BY <2>3, <4>1
      <4>. QED BY <2>3, <3>1, <4>1, <4>2
    <3>2. CASE n = 0
      <4>1. 0 \in 0 .. N
        OBVIOUS
      <4>2. s[0] = TopoStart(cells)
        <5> HIDE DEF Turn
        <5>1. s[0] = Turn(s, 0)
          BY <2>1, <4>1
        <5>. QED BY <5>1 DEF Turn
      <4>. QED BY <2>3, <3>2, <4>1, <4>2
    <3>3. CASE n \in 1 .. N
      <4>1. n \in 0 .. N /\ n - 1 \in 0 .. N /\ n # 0
        BY <3>3
      <4>2. r[n] = s[n] /\ r[n - 1] = s[n - 1]
        BY <2>3, <4>1
      <4>. QED BY <2>1, <4>1, <4>2
    <3>. QED BY <3>1, <3>2, <3>3
  <2>5. Upto(N + 1, r)
    BY <2>2, <2>4
  <2> HIDE DEF Upto
  <2>. QED BY <2>5
<1>3. T \in SUBSET Nat
  OBVIOUS
<1> HIDE DEF T
<1>4. Len(cells) \in T
  BY <1>1, <1>2, <1>3, Induct
<1>5. PICK s : Upto(Len(cells), s)
  BY <1>4 DEF T
<1> DEFINE h == [n \in 0 .. Len(cells) |-> Turn(s, n)]
<1>6. s = [n \in 0 .. Len(cells) |-> s[n]]
  BY <1>5
<1>7. s = h
  BY <1>5, <1>6
<1>8. Orders(cells, s)
  BY <1>7, Zenon DEF Orders, TopoTurned
<1>. QED BY <1>8

\* Every cell of G comes after all it requires.
SortedOn(cells, order, G) ==
  \A k \in DOMAIN order : order[k] \in G =>
    \A d \in Prerequisites(cells[order[k]]) : \E l \in 1 .. k - 1 : cells[order[l]].id = d

\* The order in which the worker is called: every cell once, and a cell that no
\* cycle blocks after all it requires.
LEMMA TopoOrderIs ==
  ASSUME NEW cells, IsGraph(cells), NEW order, order = TopoOrder(cells)
  PROVE  /\ order \in Seq(DOMAIN cells) /\ IsInjective(order)
         /\ ToSet(order) = DOMAIN cells /\ Len(order) = Len(cells)
         /\ \A G : Exact(cells) /\ LeastSettled(cells, DOMAIN cells, G) => SortedOn(cells, order, G)
<1> DEFINE s == CHOOSE x : Orders(cells, x)
           N == Len(cells)
           t == s[N]
<1>1. cells \in Seq(ToSet(cells)) /\ N \in Nat
  BY DEF IsGraph
<1>2. Orders(cells, s)
  <2>1. \E x : Orders(cells, x)
    BY <1>1, OrderExists
  <2>. QED BY <2>1, Zenon
<1>3. order = TopoEnd(cells, s[N])
  BY Zenon DEF TopoOrder, Orders
<1> HIDE DEF s
<1>4. s[0] = TopoStart(cells) /\ \A n \in 0 .. N - 1 : s[n + 1] = TopoTurned(cells, s[n])
  <2>1. \A n \in 0 .. N : s[n] = IF n = 0 THEN TopoStart(cells) ELSE TopoTurned(cells, s[n - 1])
    BY <1>2 DEF Orders, TopoTurned
  <2>2. ASSUME NEW n \in 0 .. N - 1 PROVE s[n + 1] = TopoTurned(cells, s[n])
    <3>1. n + 1 \in 0 .. N /\ n + 1 # 0 /\ (n + 1) - 1 = n
      BY <1>1
    <3>. QED BY <2>1, <3>1
  <2>. QED BY <1>1, <2>1, <2>2
<1> DEFINE Fine(x) == TopoTyped(cells, x) /\ (Exact(cells) => Sorted(cells, x.queue))
<1>5. ASSUME NEW x, Fine(x) PROVE Fine(TopoTurned(cells, x))
  <2>1. CASE x.qi = Len(x.queue)
    BY <1>5, <2>1 DEF TopoTurned
  <2>2. CASE x.qi # Len(x.queue)
    <3>1. x.qi < Len(x.queue)
      <4>1. x.qi \in 0 .. Len(x.queue) /\ x.queue \in Seq(DOMAIN cells)
        BY <1>5, Zenon DEF TopoTyped
      <4>. QED BY <2>2, <4>1
    <3>2. TopoTurned(cells, x) = TopoStep(cells, x)
      BY <2>2 DEF TopoTurned
    <3>. QED BY <1>5, <3>1, <3>2, TopoStepTyped, TopoStepSorted
  <2>. QED BY <2>1, <2>2
<1>6. \A n \in 0 .. N : Fine(s[n]) /\ (s[n].qi = n \/ s[n].qi = Len(s[n].queue))
  <2> DEFINE Far(n) == s[n].qi = n \/ s[n].qi = Len(s[n].queue)
             T == {n \in 0 .. N : Fine(s[n]) /\ Far(n)}
  <2>1. 0 \in T
    <3>1. Fine(s[0])
      BY <1>4, TopoStartTyped, TopoStartSorted
    <3>2. s[0].qi = 0
      BY <1>4 DEF TopoStart
    <3>. QED BY <1>1, <3>1, <3>2
  <2>2. ASSUME NEW n \in 0 .. N - 1, n \in T PROVE n + 1 \in T
    <3>0. s[n + 1] = TopoTurned(cells, s[n]) /\ n + 1 \in 0 .. N
      BY <1>1, <1>4
    <3>1. Fine(s[n + 1])
      BY <1>5, <2>2, <3>0
    <3>2. Far(n + 1)
      <4>1. CASE s[n].qi = Len(s[n].queue)
        BY <3>0, <4>1 DEF TopoTurned
      <4>2. CASE s[n].qi # Len(s[n].queue)
        <5>1. s[n].qi = n
          BY <2>2, <4>2
        <5>2. s[n + 1] = TopoStep(cells, s[n])
          BY <3>0, <4>2 DEF TopoTurned
        <5>. QED BY <5>1, <5>2 DEF TopoStep
      <4>. QED BY <4>1, <4>2
    <3>. QED BY <3>0, <3>1, <3>2
  <2> HIDE DEF T
  <2>3. \A n \in 0 .. N : n \in T
    BY <1>1, <2>1, <2>2, InductTo
  <2>. QED BY <2>3 DEF T
<1>7. Fine(t) /\ (t.qi = N \/ t.qi = Len(t.queue))
  BY <1>1, <1>6
<1> HIDE DEF t
<1>8. t.qi = Len(t.queue)
  <2>1. t.qi \in 0 .. Len(t.queue) /\ t.queue \in Seq(DOMAIN cells) /\ IsInjective(t.queue)
    BY <1>7, Zenon DEF TopoTyped
  <2>2. ToSet(t.queue) \in SUBSET DOMAIN cells /\ Cardinality(ToSet(t.queue)) = Len(t.queue)
    <3>1. Cardinality(ToSet(t.queue)) = Len(t.queue)
      BY <2>1, InjectiveLength
    <3>2. ToSet(t.queue) \subseteq DOMAIN cells
      BY <2>1 DEF ToSet
    <3>. QED BY <3>1, <3>2
  <2>3. IsFiniteSet(DOMAIN cells) /\ Cardinality(DOMAIN cells) = N
    BY <1>1, CellsAre
  <2>4. Cardinality(ToSet(t.queue)) <= N
    BY <2>2, <2>3, FS_Subset
  <2>. QED BY <1>1, <1>7, <2>1, <2>2, <2>4
<1>9. /\ order \in Seq(DOMAIN cells) /\ IsInjective(order)
      /\ ToSet(order) = DOMAIN cells /\ Len(order) = Len(cells)
      /\ \A k \in DOMAIN t.queue : k \in DOMAIN order /\ order[k] = t.queue[k]
  BY <1>3, <1>7, TopoEndIs DEF t
<1>10. ASSUME Exact(cells), NEW G, LeastSettled(cells, DOMAIN cells, G),
              NEW k \in DOMAIN order, order[k] \in G, NEW d \in Prerequisites(cells[order[k]])
       PROVE  \E l \in 1 .. k - 1 : cells[order[l]].id = d
  <2>0. Sorted(cells, t.queue) /\ TopoTyped(cells, t)
    BY <1>7, <1>10
  <2>1. ToSet(t.queue) = G
    BY <1>8, <1>10, <2>0, TopoEnds
  <2>2. PICK m \in DOMAIN t.queue : t.queue[m] = order[k]
    BY <1>10, <2>1 DEF ToSet
  <2>3. m = k
    BY <1>9, <2>2 DEF IsInjective
  <2>4. PICK l \in 1 .. k - 1 : cells[t.queue[l]].id = d
    BY <1>10, <2>0, <2>2, <2>3 DEF Sorted
  <2>5. l \in DOMAIN t.queue
    <3>1. t.queue \in Seq(DOMAIN cells)
      BY <2>0, Zenon DEF TopoTyped
    <3>. QED BY <2>2, <2>3, <3>1
  <2>. QED BY <1>9, <2>4, <2>5
<1>11. \A G : Exact(cells) /\ LeastSettled(cells, DOMAIN cells, G) => SortedOn(cells, order, G)
  BY <1>10 DEF SortedOn
<1>. QED BY <1>9, <1>11
=============================================================================
