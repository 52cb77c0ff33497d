------------------------------- MODULE Counting -------------------------------
(***************************************************************************)
(* Lemmas that several proofs need.                                        *)
(*                                                                         *)
(* Counting what callers leave who select what is too much, remove it and  *)
(* add one of their own, while others do the same: a transaction that      *)
(* prunes the revisions of a page and commits a new one (pageService.ts),  *)
(* a login that ends the oldest sessions and inserts its own               *)
(* (sessionService.ts).                                                    *)
(*                                                                         *)
(* What the operators of Lists do to a list: its elements, their number    *)
(* and their order.                                                        *)
(***************************************************************************)
EXTENDS Lists, FiniteSets, FiniteSetTheorems, SequenceTheorems, WellFoundedInduction, TLAPS

\* What is numbered has a first.
LEMMA LeastNat ==
  ASSUME NEW S, S \subseteq Nat, S # {}
  PROVE  \E d \in S : \A e \in S : d <= e
<1> DEFINE LessThan == {rr \in Nat \X Nat : rr[1] < rr[2]}
<1>1. IsWellFoundedOn(LessThan, Nat)
  BY NatLessThanWellFounded DEF OpToRel
<1> HIDE DEF LessThan
<1>2. PICK d \in S : \A e \in S : ~(<<e, d>> \in LessThan)
  BY <1>1, WFMin
<1>3. \A e \in S : ~(e < d)
  BY <1>2 DEF LessThan
<1> QED BY <1>3

\* ... and, if it is bounded, a last.
LEMMA GreatestNat ==
  ASSUME NEW S, S \subseteq Nat, S # {}, NEW b \in Nat, \A s \in S : s <= b
  PROVE  \E d \in S : \A e \in S : e <= d
<1> DEFINE U == {n \in Nat : \A s \in S : s <= n}
<1>1. PICK d \in U : \A e \in U : d <= e
  BY LeastNat
<1>2. d \in S
  <2> SUFFICES ASSUME d \notin S PROVE FALSE
    OBVIOUS
  <2>1. \A s \in S : s <= d - 1 /\ s < d
    BY <1>1
  <2>2. d - 1 \in Nat
    <3>1. PICK s \in S : TRUE
      OBVIOUS
    <3> QED BY <2>1, <3>1
  <2>3. d - 1 \in U
    BY <2>1, <2>2
  <2> QED BY <1>1, <2>3
<1> QED BY <1>1, <1>2

\* A set grown by one element at most, or by none.
LEMMA OneMore ==
  ASSUME NEW T, IsFiniteSet(T), NEW U, U = {} \/ \E r : U = {r}, NEW S, S \subseteq T \cup U
  PROVE  /\ IsFiniteSet(S) /\ Cardinality(S) \in Nat /\ Cardinality(T) \in Nat
         /\ Cardinality(S) <= Cardinality(T) + 1
<1>1. Cardinality(T) \in Nat
  BY FS_CardinalityType
<1>2. IsFiniteSet(T \cup U) /\ Cardinality(T \cup U) <= Cardinality(T) + 1
  <2>1. CASE U = {}
    <3>1. T \cup U = T
      BY <2>1
    <3>2. Cardinality(T) <= Cardinality(T) + 1
      BY <1>1
    <3> QED BY <3>1, <3>2
  <2>2. ASSUME NEW r, U = {r}
        PROVE  IsFiniteSet(T \cup U) /\ Cardinality(T \cup U) <= Cardinality(T) + 1
    <3>1. /\ IsFiniteSet(T \cup {r})
          /\ Cardinality(T \cup {r}) = IF r \in T THEN Cardinality(T) ELSE Cardinality(T) + 1
      BY FS_AddElement
    <3> QED BY <1>1, <2>2, <3>1
  <2> QED BY <2>1, <2>2
<1>3. IsFiniteSet(S) /\ Cardinality(S) <= Cardinality(T \cup U)
  BY <1>2, FS_Subset
<1>4. Cardinality(S) \in Nat /\ Cardinality(T \cup U) \in Nat
  BY <1>2, <1>3, FS_CardinalityType
<1> QED BY <1>1, <1>2, <1>3, <1>4

\* A ledger of commits.  Each q of Q has selected what it will delete, and would leave w[q]
\* rows if it committed now; G[q] names those that committed since its selection.  With
\* nobody in between it leaves B at most, and each commit in between adds one at most.
\* Of two, the one whose selection is older has seen the commits of the other.
Ledger(P, Q, w, B, G) ==
  /\ G \in [P -> SUBSET P]
  /\ \A q \in Q : q \notin G[q] /\ w[q] \in Nat /\ w[q] <= B + Cardinality(G[q])
  /\ \A q, s \in Q : s \in G[q] => G[s] \subseteq G[q]

LEMMA LedgerShrinks ==
  ASSUME NEW P, NEW Q, NEW R \in SUBSET Q, NEW w, NEW w2, NEW B \in Nat, NEW G,
         IsFiniteSet(P), Q \subseteq P, Ledger(P, Q, w, B, G),
         \A q \in R : w2[q] \in Nat /\ w2[q] <= w[q]
  PROVE  Ledger(P, R, w2, B, G)
<1>1. \A q \in R : G[q] \in SUBSET P
  BY DEF Ledger
<1>2. \A q \in R : Cardinality(G[q]) \in Nat
  BY <1>1, FS_Subset, FS_CardinalityType
<1>3. \A q \in R : w2[q] <= B + Cardinality(G[q])
  BY <1>2 DEF Ledger
<1> QED BY <1>3 DEF Ledger

\* k selects, and has seen all commits.
LEMMA LedgerEnters ==
  ASSUME NEW P, NEW Q, NEW k \in P, NEW R \in SUBSET (Q \cup {k}), NEW w, NEW w2,
         NEW B \in Nat, NEW G, IsFiniteSet(P), Q \subseteq P, Ledger(P, Q, w, B, G),
         w2[k] \in Nat, w2[k] <= B, \A q \in R \ {k} : w2[q] \in Nat /\ w2[q] <= w[q]
  PROVE  \E H \in [P -> SUBSET P] : Ledger(P, R, w2, B, H)
<1> DEFINE H == [q \in P |-> IF q = k THEN {} ELSE G[q]]
<1>1. H \in [P -> SUBSET P]
  BY DEF Ledger
<1>2. \A q \in P : Cardinality(H[q]) \in Nat
  BY <1>1, FS_Subset, FS_CardinalityType
<1>3. \A q \in R : q \notin H[q] /\ w2[q] \in Nat /\ w2[q] <= B + Cardinality(H[q])
  <2>1. ASSUME NEW q \in R \ {k} PROVE w2[q] <= B + Cardinality(H[q])
    <3>1. H[q] = G[q] /\ w[q] \in Nat /\ w[q] <= B + Cardinality(G[q])
      BY DEF Ledger
    <3> QED BY <1>2, <3>1
  <2>2. H[k] = {} /\ Cardinality(H[k]) = 0
    BY FS_EmptySet
  <2> QED BY <2>1, <2>2 DEF Ledger
<1>4. \A q, s \in R : s \in H[q] => H[s] \subseteq H[q]
  BY DEF Ledger
<1> QED BY <1>1, <1>3, <1>4 DEF Ledger

\* k commits: the others' rows are its rows, or theirs, and one more at most.
LEMMA LedgerCommits ==
  ASSUME NEW P, NEW Q, NEW k \in Q, NEW R \in SUBSET (Q \ {k}), NEW w, NEW w2,
         NEW B \in Nat, NEW G, IsFiniteSet(P), Q \subseteq P, Ledger(P, Q, w, B, G),
         \A q \in R : w2[q] \in Nat /\ w2[q] <= w[q] + 1 /\ w2[q] <= w[k] + 1
  PROVE  /\ \E H \in [P -> SUBSET P] : Ledger(P, R, w2, B, H)
         /\ w[k] <= B + Cardinality(P) - 1
<1> DEFINE H == [q \in P |-> G[q] \cup {k}]
<1>1. H \in [P -> SUBSET P] /\ \A q \in P : G[q] \in SUBSET P
  BY DEF Ledger
<1>2. \A q \in P : /\ IsFiniteSet(G[q]) /\ Cardinality(G[q]) \in Nat
                   /\ IsFiniteSet(H[q]) /\ Cardinality(H[q]) \in Nat
  BY <1>1, FS_Subset, FS_CardinalityType
<1>3. \A q \in P : k \notin G[q] => Cardinality(H[q]) = Cardinality(G[q]) + 1
  BY <1>2, FS_AddElement
<1>4. k \notin G[k] /\ w[k] \in Nat /\ w[k] <= B + Cardinality(G[k]) /\ k \in P
  BY DEF Ledger
<1>5. \A q \in R : q \notin H[q] /\ w2[q] \in Nat /\ w2[q] <= B + Cardinality(H[q])
  <2>1. ASSUME NEW q \in R, k \notin G[q] PROVE w2[q] <= B + Cardinality(H[q])
    <3>1. w[q] \in Nat /\ w[q] <= B + Cardinality(G[q])
      BY DEF Ledger
    <3>2. w2[q] \in Nat /\ w2[q] <= w[q] + 1
      OBVIOUS
    <3>3. Cardinality(G[q]) \in Nat /\ Cardinality(H[q]) = Cardinality(G[q]) + 1
      BY <1>2, <1>3, <2>1
    <3> HIDE DEF H
    <3> QED BY <3>1, <3>2, <3>3
  <2>2. ASSUME NEW q \in R, k \in G[q] PROVE w2[q] <= B + Cardinality(H[q])
    <3>1. H[k] \in SUBSET H[q]
      BY <2>2, <1>4 DEF Ledger
    <3>2. Cardinality(H[k]) <= Cardinality(H[q])
      BY <1>2, <3>1, FS_Subset
    <3>3. Cardinality(H[k]) = Cardinality(G[k]) + 1
      BY <1>3, <1>4
    <3>4. w2[q] \in Nat /\ w2[q] <= w[k] + 1
      OBVIOUS
    <3>5. /\ Cardinality(G[k]) \in Nat /\ Cardinality(H[k]) \in Nat
          /\ Cardinality(H[q]) \in Nat
      BY <1>2, <1>4
    <3> HIDE DEF H
    <3> QED BY <1>4, <3>2, <3>3, <3>4, <3>5
  <2> QED BY <2>1, <2>2 DEF Ledger
<1>6. \A q, s \in R : s \in H[q] => H[s] \subseteq H[q]
  BY DEF Ledger
<1>7. w[k] <= B + Cardinality(P) - 1
  <2>1. H[k] \in SUBSET P /\ Cardinality(H[k]) = Cardinality(G[k]) + 1
    BY <1>1, <1>3, <1>4
  <2>2. Cardinality(H[k]) <= Cardinality(P) /\ Cardinality(P) \in Nat
    BY <2>1, FS_Subset, FS_CardinalityType
  <2>3. Cardinality(G[k]) \in Nat
    BY <1>2, <1>4
  <2> HIDE DEF H
  <2> QED BY <1>4, <2>1, <2>2, <2>3
<1> QED BY <1>1, <1>5, <1>6, <1>7 DEF Ledger

-----------------------------------------------------------------------------
(* Lists *)

\* t consists of the first n elements of the list that are not in gone, in their order:
\* f says where each of them stood.
Keeps(list, gone, n, t) ==
  \E f \in [1..Len(t) -> 1..n] :
    /\ \A i \in 1..Len(t) : t[i] = list[f[i]] /\ t[i] \notin gone
    /\ \A i, j \in 1..Len(t) : i < j => f[i] < f[j]
    /\ \A m \in 1..n : list[m] \notin gone => \E i \in 1..Len(t) : f[i] = m

\* One element more of the list.
LEMMA KeepsNext ==
  ASSUME NEW T, NEW list \in Seq(T), NEW gone, NEW n \in 1..Len(list), NEW t \in Seq(T),
         Keeps(list, gone, n - 1, t)
  PROVE  LET u == IF list[n] \in gone THEN t ELSE Append(t, list[n])
         IN  u \in Seq(T) /\ Keeps(list, gone, n, u)
<1>1. PICK f \in [1..Len(t) -> 1..(n - 1)] :
        /\ \A i \in 1..Len(t) : t[i] = list[f[i]] /\ t[i] \notin gone
        /\ \A i, j \in 1..Len(t) : i < j => f[i] < f[j]
        /\ \A m \in 1..(n - 1) : list[m] \notin gone => \E i \in 1..Len(t) : f[i] = m
  BY DEF Keeps
<1>2. Len(t) \in Nat /\ n \in Nat
  BY LenProperties
<1>3. ASSUME list[n] \in gone PROVE t \in Seq(T) /\ Keeps(list, gone, n, t)
  <2>1. f \in [1..Len(t) -> 1..n]
    BY <1>2
  <2>2. \A m \in 1..n : list[m] \notin gone => \E i \in 1..Len(t) : f[i] = m
    BY <1>1, <1>2, <1>3
  <2> QED BY <1>1, <2>1, <2>2 DEF Keeps
<1>4. ASSUME list[n] \notin gone
      PROVE  Append(t, list[n]) \in Seq(T) /\ Keeps(list, gone, n, Append(t, list[n]))
  <2> DEFINE u == Append(t, list[n])
             g == [i \in 1..(Len(t) + 1) |-> IF i <= Len(t) THEN f[i] ELSE n]
  <2>1. list[n] \in T
    BY ElementOfSeq
  <2>2. u \in Seq(T) /\ Len(u) = Len(t) + 1
    BY <2>1, AppendProperties
  <2>3. \A i \in 1..Len(u) : u[i] = IF i <= Len(t) THEN t[i] ELSE list[n]
    BY <1>2, <2>1, <2>2, AppendProperties
  <2> HIDE DEF u
  <2>4. g \in [1..Len(u) -> 1..n]
    BY <1>2, <2>2
  <2>5. \A i \in 1..Len(u) : u[i] = list[g[i]] /\ u[i] \notin gone
    BY <1>1, <1>2, <1>4, <2>2, <2>3
  <2>6. ASSUME NEW i \in 1..Len(u), NEW j \in 1..Len(u), i < j PROVE g[i] < g[j]
    <3>1. i \in 1..Len(t) /\ g[i] = f[i] /\ f[i] < n
      BY <1>2, <2>2, <2>6
    <3>2. CASE j \in 1..Len(t)
      BY <1>1, <2>6, <3>1, <3>2
    <3>3. CASE j = Len(t) + 1
      BY <1>2, <3>1, <3>3
    <3> QED BY <1>2, <2>2, <3>2, <3>3
  <2>7. ASSUME NEW m \in 1..n, list[m] \notin gone PROVE \E i \in 1..Len(u) : g[i] = m
    <3>1. CASE m = n
      <4>1. Len(t) + 1 \in 1..Len(u) /\ g[Len(t) + 1] = m
        BY <1>2, <2>2, <3>1
      <4> QED BY <4>1
    <3>2. CASE m # n
      <4>1. PICK i \in 1..Len(t) : f[i] = m
        BY <1>1, <1>2, <2>7, <3>2
      <4>2. i \in 1..Len(u) /\ g[i] = m
        BY <1>2, <2>2, <4>1
      <4> QED BY <4>2
    <3> QED BY <3>1, <3>2
  <2> HIDE DEF g
  <2>8. Keeps(list, gone, n, u)
    BY <2>4, <2>5, <2>6, <2>7 DEF Keeps
  <2> QED BY <2>2, <2>8 DEF u
<1> QED BY <1>3, <1>4

\* The function that Without is defined with.
IsKept(list, gone, n, F) ==
  F = [m \in 0..n |-> IF m = 0 THEN << >>
                      ELSE IF list[m] \in gone THEN F[m - 1] ELSE Append(F[m - 1], list[m])]

\* There is such a function.
LEMMA KeptExists ==
  ASSUME NEW list, NEW gone, NEW n \in Nat
  PROVE  \E F : IsKept(list, gone, n, F)
<1> DEFINE Bad == {m \in Nat : ~\E F : IsKept(list, gone, m, F)}
<1> SUFFICES ASSUME Bad # {} PROVE FALSE
  OBVIOUS
<1>1. PICK d \in Bad : \A e \in Bad : d <= e
  <2>1. Bad \subseteq Nat
    OBVIOUS
  <2> HIDE DEF Bad
  <2> QED BY <2>1, LeastNat
<1>2. d # 0
  <2> SUFFICES ASSUME d = 0 PROVE FALSE
    OBVIOUS
  <2> DEFINE Z == [m \in 0..0 |-> << >>]
  <2>1. IsKept(list, gone, 0, Z)
    <3>1. \A m \in 0..0 : m = 0
      OBVIOUS
    <3>2. Z = [m \in 0..0 |-> IF m = 0 THEN << >>
                 ELSE IF list[m] \in gone THEN Z[m - 1] ELSE Append(Z[m - 1], list[m])]
      BY <3>1
    <3> QED BY <3>2 DEF IsKept
  <2> QED BY <2>1
<1>3. d - 1 \in Nat /\ d - 1 \notin Bad /\ d \in Nat
  BY <1>1, <1>2
<1>4. PICK F : IsKept(list, gone, d - 1, F)
  BY <1>3
<1> DEFINE G == [m \in 0..d |-> IF m < d THEN F[m]
                 ELSE IF list[d] \in gone THEN F[d - 1] ELSE Append(F[d - 1], list[d])]
<1>5. \A m \in 0..(d - 1) :
        F[m] = IF m = 0 THEN << >>
               ELSE IF list[m] \in gone THEN F[m - 1] ELSE Append(F[m - 1], list[m])
  BY <1>4 DEF IsKept
<1>6. \A m \in 0..d : G[m] = IF m = 0 THEN << >>
               ELSE IF list[m] \in gone THEN G[m - 1] ELSE Append(G[m - 1], list[m])
  <2> SUFFICES ASSUME NEW m \in 0..d
               PROVE  G[m] = IF m = 0 THEN << >>
               ELSE IF list[m] \in gone THEN G[m - 1] ELSE Append(G[m - 1], list[m])
    OBVIOUS
  <2>1. CASE m = d
    <3>1. m - 1 \in 0..d /\ m - 1 < d /\ m # 0
      BY <1>2, <1>3, <2>1
    <3>2. G[m - 1] = F[m - 1]
      BY <3>1
    <3> QED BY <1>2, <1>3, <2>1, <3>1, <3>2
  <2>2. CASE m # d /\ m # 0
    <3>1. m - 1 \in 0..d /\ m - 1 < d /\ m < d /\ m \in 0..(d - 1)
      BY <1>3, <2>2
    <3>2. G[m - 1] = F[m - 1] /\ G[m] = F[m]
      BY <3>1
    <3> QED BY <1>5, <2>2, <3>1, <3>2
  <2>3. CASE m = 0 /\ m # d
    <3>1. m < d /\ m \in 0..(d - 1)
      BY <1>3, <2>3
    <3> QED BY <1>5, <2>3, <3>1
  <2> QED BY <2>1, <2>2, <2>3
<1>7. DOMAIN G = 0..d /\ G = [m \in 0..d |-> G[m]]
  OBVIOUS
<1> HIDE DEF G
<1>8. IsKept(list, gone, d, G)
  BY <1>6, <1>7 DEF IsKept
<1>9. d \notin Bad
  BY <1>8
<1> QED BY <1>9

\* Without leaves the elements that are not in gone, in their order.
LEMMA WithoutKeeps ==
  ASSUME NEW T, NEW list \in Seq(T), NEW gone
  PROVE  /\ Without(list, gone) \in Seq(T)
         /\ Keeps(list, gone, Len(list), Without(list, gone))
<1> DEFINE K == CHOOSE F : IsKept(list, gone, Len(list), F)
<1>1. Without(list, gone) = K[Len(list)]
  BY DEF Without, IsKept
<1>2. Len(list) \in Nat
  BY LenProperties
<1>3. IsKept(list, gone, Len(list), K)
  BY <1>2, KeptExists
<1> HIDE DEF K
<1>4. \A m \in 0..Len(list) :
        K[m] = IF m = 0 THEN << >>
               ELSE IF list[m] \in gone THEN K[m - 1] ELSE Append(K[m - 1], list[m])
  BY <1>3 DEF IsKept
<1> DEFINE Bad == {m \in 0..Len(list) : ~(K[m] \in Seq(T) /\ Keeps(list, gone, m, K[m]))}
<1>5. Bad = {}
  <2> SUFFICES ASSUME Bad # {} PROVE FALSE
    OBVIOUS
  <2>1. PICK d \in Bad : \A e \in Bad : d <= e
    <3>1. Bad \subseteq Nat
      BY <1>2
    <3> HIDE DEF Bad
    <3> QED BY <3>1, LeastNat
  <2>2. d # 0
    <3> SUFFICES ASSUME d = 0 PROVE FALSE
      OBVIOUS
    <3>1. K[0] = << >>
      BY <1>2, <1>4
    <3>2. << >> \in Seq(T) /\ Len(<< >>) = 0
      BY EmptySeq
    <3>3. Keeps(list, gone, 0, << >>)
      <4> DEFINE f == [i \in 1..0 |-> i]
      <4>1. f \in [1..Len(<< >>) -> 1..0]
        BY <3>2
      <4>2. \A i \in 1..0 : FALSE
        OBVIOUS
      <4> HIDE DEF f
      <4> QED BY <3>2, <4>1, <4>2 DEF Keeps
    <3> QED BY <3>1, <3>2, <3>3
  <2>3. d \in 1..Len(list) /\ d - 1 \in 0..Len(list) /\ d - 1 \notin Bad
    BY <1>2, <2>1, <2>2
  <2>4. K[d - 1] \in Seq(T) /\ Keeps(list, gone, d - 1, K[d - 1])
    BY <2>3
  <2>5. K[d] = IF list[d] \in gone THEN K[d - 1] ELSE Append(K[d - 1], list[d])
    BY <1>4, <2>2, <2>3
  <2>6. K[d] \in Seq(T) /\ Keeps(list, gone, d, K[d])
    BY <2>3, <2>4, <2>5, KeepsNext
  <2> QED BY <2>6
<1> QED BY <1>1, <1>2, <1>5

\* The elements of a list, by their positions.
LEMMA InRange ==
  ASSUME NEW T, NEW list \in Seq(T)
  PROVE  /\ \A i \in 1..Len(list) : list[i] \in Range(list)
         /\ \A x \in Range(list) : x \in T /\ \E i \in 1..Len(list) : list[i] = x
BY LenProperties, ElementOfSeq DEF Range

\* The positions of a list.
LEMMA OneTo ==
  ASSUME NEW n \in Nat
  PROVE  IsFiniteSet(1..n) /\ Cardinality(1..n) = n
<1>1. IsFiniteSet(1..n) /\ Cardinality(1..n) = IF 1 > n THEN 0 ELSE n - 1 + 1
  BY FS_Interval
<1> QED BY <1>1

\* What remains, by what a list is used for: its elements, their number and their order.
LEMMA WithoutFacts ==
  ASSUME NEW T, NEW list \in Seq(T), NEW gone
  PROVE  LET w == Without(list, gone)
         IN  /\ w \in Seq(T)
             /\ Range(w) = Range(list) \ gone
             /\ IsInjective(list) => IsInjective(w)
             /\ Len(w) <= Len(list)
             /\ Range(list) \cap gone # {} => Len(w) < Len(list)
             /\ \A x, y : x \notin gone /\ y \notin gone => (Before(w, x, y) <=> Before(list, x, y))
<1> DEFINE w == Without(list, gone)
<1>1. w \in Seq(T) /\ Keeps(list, gone, Len(list), w)
  BY WithoutKeeps
<1> HIDE DEF w
<1>2. PICK f \in [1..Len(w) -> 1..Len(list)] :
        /\ \A i \in 1..Len(w) : w[i] = list[f[i]] /\ w[i] \notin gone
        /\ \A i, j \in 1..Len(w) : i < j => f[i] < f[j]
        /\ \A m \in 1..Len(list) : list[m] \notin gone => \E i \in 1..Len(w) : f[i] = m
  BY <1>1 DEF Keeps
<1>3. Len(w) \in Nat /\ Len(list) \in Nat /\ DOMAIN w = 1..Len(w) /\ DOMAIN list = 1..Len(list)
  BY <1>1, LenProperties
<1>4. \A i, j \in 1..Len(w) : f[i] = f[j] => i = j
  BY <1>2, <1>3
<1>5. Range(w) = Range(list) \ gone
  <2>1. \A x \in Range(w) : x \in Range(list) \ gone
    BY <1>2, <1>3 DEF Range
  <2>2. ASSUME NEW x \in Range(list) \ gone PROVE x \in Range(w)
    <3>1. PICK m \in 1..Len(list) : list[m] = x
      BY <1>3 DEF Range
    <3>2. PICK i \in 1..Len(w) : f[i] = m
      BY <1>2, <2>2, <3>1
    <3> QED BY <1>2, <1>3, <3>1, <3>2 DEF Range
  <2> QED BY <2>1, <2>2
<1>6. IsInjective(list) => IsInjective(w)
  BY <1>2, <1>3, <1>4 DEF IsInjective
<1>7. Len(w) <= Len(list) /\ (Range(list) \cap gone # {} => Len(w) < Len(list))
  <2>1. IsFiniteSet(1..Len(list)) /\ Cardinality(1..Len(list)) = Len(list)
    BY <1>3, OneTo
  <2>2. IsFiniteSet(1..Len(w)) /\ Cardinality(1..Len(w)) = Len(w)
    BY <1>3, OneTo
  <2>3. f \in Injection(1..Len(w), 1..Len(list))
    BY <1>4 DEF Injection, IsInjective
  <2>4. Len(w) <= Len(list)
    BY <2>1, <2>2, <2>3, FS_Injection
  <2>5. ASSUME Range(list) \cap gone # {} PROVE Len(w) < Len(list)
    <3>1. PICK m \in 1..Len(list) : list[m] \in gone
      BY <1>3, <2>5 DEF Range
    <3> DEFINE S == (1..Len(list)) \ {m}
    <3>2. f \in Injection(1..Len(w), S)
      <4>1. \A i \in 1..Len(w) : f[i] # m
        BY <1>2, <3>1
      <4>2. f \in [1..Len(w) -> S]
        BY <4>1
      <4> QED BY <1>4, <4>2 DEF Injection, IsInjective
    <3>3. IsFiniteSet(S) /\ Cardinality(S) = Len(list) - 1
      BY <2>1, FS_RemoveElement
    <3> HIDE DEF S
    <3>4. Len(w) <= Len(list) - 1
      BY <2>2, <3>2, <3>3, FS_Injection
    <3> QED BY <1>3, <3>4
  <2> QED BY <2>4, <2>5
<1>8. ASSUME NEW x, NEW y, x \notin gone, y \notin gone
      PROVE  (Before(w, x, y) => Before(list, x, y)) /\ (Before(list, x, y) => Before(w, x, y))
  <2>1. ASSUME Before(w, x, y) PROVE Before(list, x, y)
    <3>1. PICK i, j \in 1..Len(w) : i < j /\ w[i] = x /\ w[j] = y
      BY <1>3, <2>1 DEF Before
    <3>2. f[i] \in 1..Len(list) /\ f[j] \in 1..Len(list) /\ f[i] < f[j]
      BY <1>2, <3>1
    <3>3. list[f[i]] = x /\ list[f[j]] = y
      BY <1>2, <3>1
    <3> QED BY <1>3, <3>2, <3>3 DEF Before
  <2>2. ASSUME Before(list, x, y) PROVE Before(w, x, y)
    <3>1. PICK m, n \in 1..Len(list) : m < n /\ list[m] = x /\ list[n] = y
      BY <1>3, <2>2 DEF Before
    <3>2. PICK i \in 1..Len(w) : f[i] = m
      BY <1>2, <1>8, <3>1
    <3>3. PICK j \in 1..Len(w) : f[j] = n
      BY <1>2, <1>8, <3>1
    <3>4. i < j
      <4>1. i # j
        BY <3>1, <3>2, <3>3
      <4>2. ~(j < i)
        BY <1>2, <3>1, <3>2, <3>3
      <4> QED BY <1>3, <4>1, <4>2
    <3>5. w[i] = x /\ w[j] = y
      BY <1>2, <3>1, <3>2, <3>3
    <3> QED BY <1>3, <3>4, <3>5 DEF Before
  <2> QED BY <2>1, <2>2
<1> QED BY <1>1, <1>5, <1>6, <1>7, <1>8 DEF w

\* An element added at the end.
LEMMA AppendFacts ==
  ASSUME NEW T, NEW list \in Seq(T), NEW e \in T
  PROVE  LET w == Append(list, e)
         IN  /\ w \in Seq(T)
             /\ Range(w) = Range(list) \cup {e}
             /\ IsInjective(list) /\ e \notin Range(list) => IsInjective(w)
             /\ Len(w) = Len(list) + 1
             /\ \A x, y : Before(list, x, y) => Before(w, x, y)
             /\ \A x \in Range(list) : Before(w, x, e)
             /\ \A x, y : Before(w, x, y) => Before(list, x, y) \/ (x \in Range(list) /\ y = e)
             /\ w[Len(w)] = e
<1> DEFINE w == Append(list, e)
<1>1. w \in Seq(T) /\ Len(w) = Len(list) + 1 /\ Len(list) \in Nat
  BY AppendProperties, LenProperties
<1>2. DOMAIN w = 1..(Len(list) + 1) /\ DOMAIN list = 1..Len(list)
  BY <1>1, LenProperties
<1>3. \A i \in 1..(Len(list) + 1) : w[i] = IF i <= Len(list) THEN list[i] ELSE e
  BY <1>1, AppendProperties
<1> HIDE DEF w
<1>4. w[Len(list) + 1] = e /\ Len(list) + 1 \in DOMAIN w
  BY <1>1, <1>2, <1>3
<1>5. \A i \in 1..Len(list) : w[i] = list[i] /\ i \in DOMAIN w /\ i < Len(list) + 1
  BY <1>1, <1>2, <1>3
<1>6. \A i \in DOMAIN w : i \in 1..Len(list) \/ i = Len(list) + 1
  BY <1>1, <1>2
<1>7. Range(w) = Range(list) \cup {e}
  BY <1>2, <1>4, <1>5, <1>6 DEF Range
<1>8. IsInjective(list) /\ e \notin Range(list) => IsInjective(w)
  <2>1. \A i \in 1..Len(list) : list[i] \in Range(list)
    BY <1>2 DEF Range
  <2> QED BY <1>2, <1>4, <1>5, <1>6, <2>1 DEF IsInjective
<1>9. \A x, y : Before(list, x, y) => Before(w, x, y)
  BY <1>2, <1>5 DEF Before
<1>10. \A x \in Range(list) : Before(w, x, e)
  BY <1>2, <1>4, <1>5 DEF Before, Range
<1>11. ASSUME NEW x, NEW y, Before(w, x, y)
       PROVE  Before(list, x, y) \/ (x \in Range(list) /\ y = e)
  <2>1. PICK i, j \in DOMAIN w : i < j /\ w[i] = x /\ w[j] = y
    BY <1>11 DEF Before
  <2>2. i \in 1..Len(list)
    BY <1>1, <1>2, <2>1
  <2>3. x \in Range(list)
    BY <1>2, <1>5, <2>1, <2>2 DEF Range
  <2>4. CASE j \in 1..Len(list)
    BY <1>2, <1>5, <2>1, <2>2, <2>4 DEF Before
  <2>5. CASE j = Len(list) + 1
    BY <1>4, <2>1, <2>3, <2>5
  <2> QED BY <1>6, <2>4, <2>5
<1> QED BY <1>1, <1>4, <1>7, <1>8, <1>9, <1>10, <1>11 DEF w

\* The first element removed.
LEMMA TailFacts ==
  ASSUME NEW T, NEW list \in Seq(T), list # << >>, IsInjective(list)
  PROVE  /\ Head(list) \in Range(list)
         /\ Tail(list) \in Seq(T)
         /\ Range(Tail(list)) = Range(list) \ {Head(list)}
         /\ IsInjective(Tail(list))
         /\ Len(Tail(list)) = Len(list) - 1
         /\ \A x, y : Before(Tail(list), x, y) => Before(list, x, y)
         /\ \A y \in Range(Tail(list)) : Before(list, Head(list), y)
<1> DEFINE t == Tail(list)
           h == Head(list)
<1>1. /\ t \in Seq(T) /\ Len(t) = Len(list) - 1
      /\ \A i \in 1..Len(t) : t[i] = list[i + 1]
  BY HeadTailProperties
<1>2. Len(list) \in Nat \ {0} /\ DOMAIN list = 1..Len(list)
  BY EmptySeq, LenProperties
<1>3. DOMAIN t = 1..Len(t)
  BY <1>1, LenProperties
<1>4. h = list[1] /\ 1 \in DOMAIN list
  BY <1>2
<1> HIDE DEF t, h
<1>5. \A i \in DOMAIN t : t[i] = list[i + 1] /\ i + 1 \in DOMAIN list /\ i + 1 # 1 /\ 1 < i + 1
  BY <1>1, <1>2, <1>3
<1>6. \A i \in DOMAIN list : i # 1 => i - 1 \in DOMAIN t /\ t[i - 1] = list[i]
  <2> SUFFICES ASSUME NEW i \in DOMAIN list, i # 1
               PROVE  i - 1 \in DOMAIN t /\ t[i - 1] = list[i]
    OBVIOUS
  <2>1. i - 1 \in 1..Len(t) /\ (i - 1) + 1 = i
    BY <1>1, <1>2
  <2> QED BY <1>1, <1>3, <2>1
<1>7. Range(t) = Range(list) \ {h}
  <2>1. \A x \in Range(t) : x \in Range(list) /\ x # h
    BY <1>4, <1>5 DEF Range, IsInjective
  <2>2. \A x \in Range(list) : x # h => x \in Range(t)
    BY <1>4, <1>6 DEF Range
  <2> QED BY <2>1, <2>2
<1>8. IsInjective(t)
  <2> SUFFICES ASSUME NEW i \in DOMAIN t, NEW j \in DOMAIN t, t[i] = t[j] PROVE i = j
    BY DEF IsInjective
  <2>1. i + 1 = j + 1
    BY <1>5 DEF IsInjective
  <2> QED BY <1>1, <1>2, <1>3, <2>1
<1>9. ASSUME NEW x, NEW y, Before(t, x, y) PROVE Before(list, x, y)
  <2>1. PICK i, j \in DOMAIN t : i < j /\ t[i] = x /\ t[j] = y
    BY <1>9 DEF Before
  <2>2. i + 1 < j + 1
    BY <1>1, <1>2, <1>3, <2>1
  <2> QED BY <1>5, <2>1, <2>2 DEF Before
<1>10. ASSUME NEW y \in Range(t) PROVE Before(list, h, y)
  <2>1. PICK i \in DOMAIN t : t[i] = y
    BY DEF Range
  <2> QED BY <1>4, <1>5, <2>1 DEF Before
<1>11. h \in Range(list)
  BY <1>4 DEF Range
<1> QED BY <1>1, <1>7, <1>8, <1>9, <1>10, <1>11 DEF t, h

\* A list without duplicates is as long as its set of elements is large.
LEMMA DistinctLength ==
  ASSUME NEW T, NEW list \in Seq(T), IsInjective(list)
  PROVE  IsFiniteSet(Range(list)) /\ Cardinality(Range(list)) = Len(list)
<1>1. Len(list) \in Nat /\ DOMAIN list = 1..Len(list) /\ list \in [1..Len(list) -> T]
  BY LenProperties
<1>2. IsFiniteSet(1..Len(list)) /\ Cardinality(1..Len(list)) = Len(list)
  BY <1>1, OneTo
<1>3. list \in Bijection(1..Len(list), Range(list))
  BY <1>1 DEF Bijection, Injection, Surjection, IsInjective, Range
<1>4. ExistsBijection(1..Len(list), Range(list))
  BY <1>3 DEF ExistsBijection
<1> QED BY <1>2, <1>4, FS_Bijection
=============================================================================
