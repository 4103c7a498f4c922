------------------------- MODULE ModelCatalogProofs -------------------------
(***************************************************************************)
(* What selections, sorts and folds of sequences hold, and what follows    *)
(* for the model lists: for any listing, facts, ranks and scores,          *)
(* everything that is recommended or found is an id that was listed, or    *)
(* one of the static catalog; what is curated of a listing is in the list  *)
(* once, as much of it as there are places for; and a ranked list starts   *)
(* with what nothing speaks against, few of each group, whatever the order *)
(* of the profile (LeadsHold).  CatalogHolds sums this up for every        *)
(* provider.                                                               *)
(***************************************************************************)
EXTENDS ModelCatalog, FiniteSetTheorems, NaturalsInduction, WellFoundedInduction, TLAPS

(* Numbers. The smallest and the largest, and induction over a set. *)
LEMMA Smallest ==
    ASSUME NEW T \in SUBSET Nat, T # {}
    PROVE  \E n \in T : \A m \in T : n <= m
<1> DEFINE R == {ss \in Nat \X Nat : ss[1] < ss[2]}
<1>1. OpToRel(<, Nat) = R
  BY Zenon DEF OpToRel
<1>2. \E n \in T : \A m \in T : ~(<<m, n>> \in R)
  BY <1>1, NatLessThanWellFounded, WFMin
<1>3. \A m, n \in Nat : <<m, n>> \in R <=> m < n
  OBVIOUS
<1> HIDE DEF R
<1>4. PICK n \in T : \A m \in T : ~(<<m, n>> \in R)
  BY <1>2
<1>5. \A m \in T : ~(m < n)
  BY <1>3, <1>4
<1> QED
  BY <1>4, <1>5

LEMMA MaxIs ==
    ASSUME NEW T \in SUBSET Nat, NEW b \in Nat, T # {}, \A m \in T : m <= b
    PROVE  Max(T) \in T /\ \A m \in T : m <= Max(T)
<1> DEFINE S == {b - m : m \in T}
<1>1. S \in SUBSET Nat /\ S # {}
  <2>1. \A m \in T : b - m \in Nat
    OBVIOUS
  <2> QED
    BY <2>1
<1>2. PICK d \in S : \A e \in S : d <= e
  <2> HIDE DEF S
  <2> QED
    BY <1>1, Smallest
<1>3. PICK n \in T : d = b - n
  OBVIOUS
<1>4. \A m \in T : n >= m
  <2> SUFFICES ASSUME NEW m \in T PROVE n >= m
    OBVIOUS
  <2>1. d <= b - m
    BY <1>2
  <2> QED
    BY <1>3, <2>1
<1> QED
  BY <1>3, <1>4 DEF Max

LEMMA Induct ==
    ASSUME NEW n \in Nat, NEW S, 0 \in S, \A k \in 1..n : k - 1 \in S => k \in S
    PROVE  0..n \subseteq S
<1> DEFINE bad == (0..n) \ S
<1>1. SUFFICES ASSUME bad # {} PROVE FALSE
  OBVIOUS
<1>2. PICK k \in bad : \A m \in bad : k <= m
  <2>1. bad \in SUBSET Nat
    OBVIOUS
  <2> QED
    BY <1>1, <2>1, Smallest
<1>3. k \in 1..n /\ k - 1 \in 0..n
  BY <1>2
<1> QED
  BY <1>2, <1>3

(* A set that is counted through is as large as the count. *)
LEMMA Numbered ==
    ASSUME NEW n \in Nat, NEW T, NEW f \in [1..n -> T],
           \A k, l \in 1..n : f[k] = f[l] => k = l,
           \A t \in T : \E k \in 1..n : f[k] = t
    PROVE  IsFiniteSet(T) /\ Cardinality(T) = n
<1>1. f \in Bijection(1..n, T)
  BY DEF Bijection, Injection, Surjection, IsInjective
<1>2. ExistsBijection(1..n, T)
  BY <1>1 DEF ExistsBijection
<1>3. IsFiniteSet(T)
  BY <1>2, FS_NatBijection
<1> QED
  BY <1>2, <1>3, FS_CountingElements

-----------------------------------------------------------------------------
(* Folds. A fold over a sequence passes through a value for each prefix.    *)
Folds(step, base, n, f) ==
    f = [s \in SUBSET (1..n) |->
            IF s = {} THEN base ELSE step[<<f[s \ {Max(s)}], Max(s)>>]]

LEMMA FoldExists ==
    ASSUME NEW n \in Nat, NEW X, NEW base \in X, NEW step \in [X \X (1..n) -> X]
    PROVE  \E f \in [SUBSET (1..n) -> X] : Folds(step, base, n, f)
<1> DEFINE Good(k, f) ==
               \A s \in SUBSET (1..k) :
                   f[s] = IF s = {} THEN base ELSE step[<<f[s \ {Max(s)}], Max(s)>>]
           S == {k \in 0..n : \E f \in [SUBSET (1..k) -> X] : Good(k, f)}
<1>1. 0 \in S
  <2> DEFINE e == [s \in SUBSET (1..0) |-> base]
  <2>1. e \in [SUBSET (1..0) -> X]
    OBVIOUS
  <2>2. \A s \in SUBSET (1..0) : s = {}
    OBVIOUS
  <2>3. Good(0, e)
    BY <2>2
  <2> HIDE DEF e, Good
  <2>4. \E f \in [SUBSET (1..0) -> X] : Good(0, f)
    BY <2>1, <2>3
  <2>5. 0 \in 0..n
    OBVIOUS
  <2> QED
    BY <2>4, <2>5
<1>2. ASSUME NEW k \in 1..n, k - 1 \in S
      PROVE  k \in S
  <2>1. PICK g \in [SUBSET (1..(k - 1)) -> X] : Good(k - 1, g)
    BY <1>2
  <2> DEFINE h == [s \in SUBSET (1..k) |-> IF k \in s THEN step[<<g[s \ {k}], k>>] ELSE g[s]]
  <2>2. \A s \in SUBSET (1..k) : s \ {k} \in SUBSET (1..(k - 1))
                              /\ (k \notin s => s \in SUBSET (1..(k - 1)))
    OBVIOUS
  <2>3. h \in [SUBSET (1..k) -> X]
    <3>1. ASSUME NEW s \in SUBSET (1..k)
          PROVE  (IF k \in s THEN step[<<g[s \ {k}], k>>] ELSE g[s]) \in X
      BY <2>1, <2>2
    <3> QED
      BY <3>1
  <2>4. ASSUME NEW s \in SUBSET (1..k)
        PROVE  h[s] = IF s = {} THEN base ELSE step[<<h[s \ {Max(s)}], Max(s)>>]
    <3>1. s # {} => Max(s) \in s /\ \A m \in s : m <= Max(s)
      <4>1. s \in SUBSET Nat /\ k \in Nat /\ \A m \in s : m <= k
        OBVIOUS
      <4> QED
        BY <4>1, MaxIs
    <3>2. CASE k \in s
      <4>1. Max(s) = k
        <5>1. Max(s) \in 1..k /\ k <= Max(s)
          BY <3>1, <3>2
        <5> QED
          BY <5>1
      <4>2. h[s] = step[<<g[s \ {k}], k>>] /\ h[s \ {k}] = g[s \ {k}]
        BY <3>2
      <4> HIDE DEF h
      <4> QED
        BY <3>2, <4>1, <4>2
    <3>3. CASE k \notin s
      <4>1. s \in SUBSET (1..(k - 1)) /\ s \ {Max(s)} \in SUBSET (1..k) /\ k \notin s \ {Max(s)}
        BY <2>2, <3>3
      <4>2. h[s] = g[s] /\ h[s \ {Max(s)}] = g[s \ {Max(s)}]
        BY <3>3, <4>1
      <4>3. g[s] = IF s = {} THEN base ELSE step[<<g[s \ {Max(s)}], Max(s)>>]
        BY <2>1, <4>1
      <4> HIDE DEF h
      <4> QED
        BY <4>2, <4>3
    <3> QED
      BY <3>2, <3>3
  <2> HIDE DEF h
  <2>5. Good(k, h)
    BY <2>4
  <2> HIDE DEF Good
  <2> QED
    BY <2>3, <2>5
<1>3. n \in S
  <2> HIDE DEF S
  <2> QED
    BY <1>1, <1>2, Induct
<1>4. PICK f \in [SUBSET (1..n) -> X] : Good(n, f)
  BY <1>3
<1> QED
  BY <1>4 DEF Folds

LEMMA MaxIn ==
    ASSUME NEW n \in Nat, NEW s \in SUBSET (1..n), s # {}
    PROVE  Max(s) \in 1..n /\ Max(s) \in s /\ s \ {Max(s)} \in SUBSET (1..n)
<1>1. s \in SUBSET Nat /\ \A m \in s : m <= n
  OBVIOUS
<1>2. Max(s) \in s
  BY <1>1, MaxIs
<1> QED
  BY <1>2

(* What a fold is before and after each element. *)
LEMMA Prefix ==
    ASSUME NEW n \in Nat, NEW k \in 1..n
    PROVE  Max(1..k) = k /\ (1..k) \ {k} = 1..(k - 1) /\ 1..k # {} /\ 1..k \in SUBSET (1..n)
<1>1. Max(1..k) \in 1..k /\ k <= Max(1..k)
  <2>1. 1..k \in SUBSET Nat /\ k \in Nat /\ 1..k # {} /\ \A m \in 1..k : m <= k
    OBVIOUS
  <2>2. Max(1..k) \in 1..k /\ \A m \in 1..k : m <= Max(1..k)
    BY <2>1, MaxIs
  <2> QED
    BY <2>2
<1> QED
  BY <1>1

-----------------------------------------------------------------------------
(* Selections. R orders the positions P. *)
Orders(P, R) ==
    /\ \A i \in P : <<i, i>> \notin R
    /\ \A i, j \in P : i # j => <<i, j>> \in R \/ <<j, i>> \in R
    /\ \A i, j, k \in P : <<i, j>> \in R /\ <<j, k>> \in R => <<i, k>> \in R

(* A set that is ordered can be counted through. *)
LEMMA InOrderFits ==
    ASSUME NEW P, IsFiniteSet(P), NEW R, Orders(P, R)
    PROVE  /\ Cardinality(P) \in Nat
           /\ InOrder(P, R) \in [1..Cardinality(P) -> P]
           /\ \A i \in P : \E k \in 1..Cardinality(P) : InOrder(P, R)[k] = i
           /\ \A k, l \in 1..Cardinality(P) :
                 <<InOrder(P, R)[k], InOrder(P, R)[l]>> \in R <=> k < l
<1> DEFINE n == Cardinality(P)
           Ahead(i) == {j \in P : <<j, i>> \in R}
           place == [i \in P |-> Cardinality(Ahead(i)) + 1]
<1>1. n \in Nat
  BY FS_CardinalityType
<1>2. ASSUME NEW i \in P
      PROVE  /\ IsFiniteSet(Ahead(i)) /\ Cardinality(Ahead(i)) \in Nat
             /\ Cardinality(Ahead(i)) < n
  <2>1. Ahead(i) \in SUBSET P /\ i \notin Ahead(i)
    BY DEF Orders
  <2> HIDE DEF Ahead
  <2>2. IsFiniteSet(Ahead(i)) /\ Cardinality(Ahead(i)) <= n /\ Cardinality(Ahead(i)) # n
    BY <2>1, FS_Subset
  <2>3. Cardinality(Ahead(i)) \in Nat
    BY <2>2, FS_CardinalityType
  <2> HIDE DEF n
  <2> QED
    BY <1>1, <2>2, <2>3
<1>3. ASSUME NEW i \in P, NEW j \in P, <<i, j>> \in R
      PROVE  Cardinality(Ahead(i)) < Cardinality(Ahead(j))
  <2>1. Ahead(i) \cup {i} \in SUBSET Ahead(j) /\ i \notin Ahead(i)
    BY <1>3 DEF Orders
  <2> HIDE DEF Ahead
  <2>2. Cardinality(Ahead(i) \cup {i}) = Cardinality(Ahead(i)) + 1
    BY <1>2, <2>1, FS_AddElement
  <2>3. Cardinality(Ahead(i) \cup {i}) <= Cardinality(Ahead(j))
    BY <1>2, <2>1, FS_Subset
  <2> QED
    BY <1>2, <2>2, <2>3
<1>4. place \in [P -> 1..n]
  <2> HIDE DEF Ahead, n
  <2>1. ASSUME NEW i \in P PROVE Cardinality(Ahead(i)) + 1 \in 1..n
    BY <1>1, <1>2
  <2> QED
    BY <2>1
<1>5. \A i, j \in P : <<i, j>> \in R => place[i] < place[j]
  <2> HIDE DEF Ahead
  <2> QED
    BY <1>2, <1>3
<1>6. \A i, j \in P : place[i] = place[j] => i = j
  <2> SUFFICES ASSUME NEW i \in P, NEW j \in P, i # j PROVE place[i] # place[j]
    OBVIOUS
  <2>1. place[i] \in 1..n /\ place[j] \in 1..n
    BY <1>4
  <2>2. <<i, j>> \in R \/ <<j, i>> \in R
    BY DEF Orders
  <2> HIDE DEF place, n
  <2> QED
    BY <1>1, <1>5, <2>1, <2>2
<1>7. \A k \in 1..n : \E i \in P : place[i] = k
  <2>1. IsFiniteSet(1..n) /\ Cardinality(1..n) = n
    BY <1>1, FS_Interval
  <2>2. place \in Injection(P, 1..n)
    BY <1>4, <1>6 DEF Injection, IsInjective
  <2> HIDE DEF place
  <2>3. place \in Surjection(P, 1..n)
    BY <2>1, <2>2, FS_Injection
  <2> QED
    BY <2>3 DEF Surjection
<1> DEFINE order == InOrder(P, R)
<1>8. \A k \in 1..n : order[k] \in P /\ place[order[k]] = k
  <2> SUFFICES ASSUME NEW k \in 1..n PROVE order[k] \in P /\ place[order[k]] = k
    OBVIOUS
  <2>1. order[k] = CHOOSE i \in P : Cardinality(Ahead(i)) = k - 1
    BY DEF InOrder
  <2>2. PICK i \in P : place[i] = k
    BY <1>7
  <2>3. Cardinality(Ahead(i)) = k - 1
    <3> HIDE DEF Ahead
    <3> QED
      BY <1>2, <2>2
  <2>4. order[k] \in P /\ Cardinality(Ahead(order[k])) = k - 1
    <3> HIDE DEF Ahead, order
    <3> QED
      BY <2>1, <2>3
  <2> HIDE DEF Ahead, order
  <2> QED
    BY <1>1, <2>4
<1>9. order \in [1..n -> P]
  BY <1>8 DEF InOrder
<1> HIDE DEF order, place, n
<1>10. ASSUME NEW i \in P PROVE \E k \in 1..n : order[k] = i
  BY <1>4, <1>6, <1>8
<1>11. ASSUME NEW k \in 1..n, NEW l \in 1..n PROVE <<order[k], order[l]>> \in R <=> k < l
  <2>1. <<order[k], order[l]>> \in R => k < l
    BY <1>5, <1>8
  <2>2. k < l => order[k] # order[l] /\ ~(<<order[l], order[k]>> \in R)
    BY <1>1, <1>5, <1>8
  <2>3. order[k] # order[l] => <<order[k], order[l]>> \in R \/ <<order[l], order[k]>> \in R
    BY <1>8 DEF Orders
  <2> QED
    BY <2>1, <2>2, <2>3
<1> QED
  BY <1>1, <1>9, <1>10, <1>11 DEF n, order

(* Positions are ordered as numbers. *)
LEMMA SmallerOrders ==
    ASSUME NEW n \in Nat, NEW P \in SUBSET (1..n)
    PROVE  IsFiniteSet(P) /\ Orders(P, Smaller(P))
<1>1. IsFiniteSet(P)
  <2>1. IsFiniteSet(1..n)
    BY FS_Interval
  <2> QED
    BY <2>1, FS_Subset
<1>2. \A i, j \in P : <<i, j>> \in Smaller(P) <=> i < j
  BY DEF Smaller
<1> QED
  BY <1>1, <1>2 DEF Orders

(* What is picked: everything at the positions, once each, in order. *)
LEMMA PickHolds ==
    ASSUME NEW X, NEW s \in Seq(X), NEW P \in SUBSET DOMAIN s
    PROVE  /\ IsFiniteSet(P) /\ Pick(s, P) \in Seq(X) /\ Len(Pick(s, P)) = Cardinality(P)
           /\ \E at \in [DOMAIN Pick(s, P) -> P] :
                 /\ \A k \in DOMAIN Pick(s, P) : Pick(s, P)[k] = s[at[k]]
                 /\ \A i \in P : \E k \in DOMAIN Pick(s, P) : at[k] = i
                 /\ \A k, l \in DOMAIN Pick(s, P) : at[k] < at[l] <=> k < l
<1> DEFINE R == Smaller(P)
           n == Cardinality(P)
           order == InOrder(P, R)
<1>1. DOMAIN s = 1..Len(s) /\ Len(s) \in Nat /\ \A i \in DOMAIN s : s[i] \in X
  OBVIOUS
<1>2. IsFiniteSet(P) /\ Orders(P, R)
  BY <1>1, SmallerOrders
<1>3. /\ n \in Nat /\ order \in [1..n -> P] /\ \A i \in P : \E k \in 1..n : order[k] = i
      /\ \A k, l \in 1..n : <<order[k], order[l]>> \in R <=> k < l
  <2> HIDE DEF R
  <2> QED
    BY <1>2, InOrderFits
<1>4. Pick(s, P) = [k \in 1..n |-> s[order[k]]]
  BY DEF Pick, Arranged
<1>5. \A i, j \in P : <<i, j>> \in R <=> i < j
  BY DEF Smaller
<1> HIDE DEF R, n, order
<1>6. Pick(s, P) \in Seq(X) /\ Len(Pick(s, P)) = n /\ DOMAIN Pick(s, P) = 1..n
  BY <1>1, <1>3, <1>4
<1>7. \A k, l \in 1..n : order[k] < order[l] <=> k < l
  BY <1>3, <1>5
<1> QED
  BY <1>2, <1>3, <1>4, <1>6, <1>7 DEF n

(* The first elements. *)
LEMMA TakeHolds ==
    ASSUME NEW X, NEW s \in Seq(X), NEW n \in Nat
    PROVE  /\ Take(s, n) \in Seq(X) /\ Len(Take(s, n)) = IF n < Len(s) THEN n ELSE Len(s)
           /\ \A k \in 1..Len(Take(s, n)) : k \in 1..Len(s) /\ Take(s, n)[k] = s[k]
BY DEF Take

(* A sequence in another order. *)
LEMMA ArrangedHolds ==
    ASSUME NEW X, NEW s \in Seq(X), NEW R, Orders(DOMAIN s, R)
    PROVE  /\ Arranged(s, DOMAIN s, R) \in Seq(X) /\ Len(Arranged(s, DOMAIN s, R)) = Len(s)
           /\ \E at \in [DOMAIN s -> DOMAIN s] :
                 /\ \A k \in DOMAIN s : Arranged(s, DOMAIN s, R)[k] = s[at[k]]
                 /\ \A i \in DOMAIN s : \E k \in DOMAIN s : at[k] = i
                 /\ \A k, l \in DOMAIN s : <<at[k], at[l]>> \in R <=> k < l
<1> DEFINE P == DOMAIN s
           order == InOrder(P, R)
           n == Cardinality(P)
<1>1. P = 1..Len(s) /\ Len(s) \in Nat /\ \A i \in P : s[i] \in X
  OBVIOUS
<1>2. IsFiniteSet(P) /\ n = Len(s)
  BY <1>1, FS_Interval
<1>3. /\ order \in [1..n -> P] /\ \A i \in P : \E k \in 1..n : order[k] = i
      /\ \A k, l \in 1..n : <<order[k], order[l]>> \in R <=> k < l
  <2> HIDE DEF P
  <2> QED
    BY <1>2, InOrderFits DEF P
<1>4. Arranged(s, P, R) = [k \in 1..n |-> s[order[k]]]
  BY DEF Arranged
<1> HIDE DEF n, order
<1>5. Arranged(s, P, R) = [k \in 1..Len(s) |-> s[order[k]]] /\ order \in [P -> P]
  BY <1>1, <1>2, <1>3, <1>4
<1>6. Arranged(s, P, R) \in Seq(X) /\ Len(Arranged(s, P, R)) = Len(s)
  BY <1>1, <1>5
<1> QED
  BY <1>1, <1>2, <1>3, <1>5, <1>6

(* A strict weak order made total by the positions. *)
LEMMA StableOrders ==
    ASSUME NEW n \in Nat, NEW B, NEW R,
           \A i, j \in 1..n : ~(<<i, j>> \in B /\ <<j, i>> \in B),
           \A i, j, k \in 1..n : <<i, j>> \in B => <<i, k>> \in B \/ <<k, j>> \in B,
           \A i, j \in 1..n :
               <<i, j>> \in R <=> <<i, j>> \in B \/ (<<j, i>> \notin B /\ i < j)
    PROVE  Orders(1..n, R)
<1>1. \A i \in 1..n : <<i, i>> \notin R
  OBVIOUS
<1>2. ASSUME NEW i \in 1..n, NEW j \in 1..n, i # j
      PROVE  <<i, j>> \in R \/ <<j, i>> \in R
  <2>1. i < j \/ j < i
    BY <1>2
  <2> QED
    BY <2>1
<1>3. ASSUME NEW i \in 1..n, NEW j \in 1..n, NEW k \in 1..n, <<i, j>> \in R, <<j, k>> \in R
      PROVE  <<i, k>> \in R
  <2>1. <<j, i>> \notin B /\ <<k, j>> \notin B
    BY <1>3
  <2>2. <<k, i>> \notin B
    BY <2>1
  <2>3. CASE <<i, j>> \in B \/ <<j, k>> \in B
    <3>1. <<i, k>> \in B
      BY <2>1, <2>3
    <3> QED
      BY <3>1
  <2>4. CASE i < j /\ j < k
    BY <2>2, <2>4
  <2> QED
    BY <1>3, <2>3, <2>4
<1> QED
  BY <1>1, <1>2, <1>3 DEF Orders

-----------------------------------------------------------------------------
(* The lists. Ids that are picked, filtered or cut are some of those given. *)
LEMMA PickIn ==
    ASSUME NEW X, NEW s \in Seq(X), NEW P \in SUBSET DOMAIN s
    PROVE  Pick(s, P) \in Seq(X)
BY PickHolds

LEMMA UniqueIn ==
    ASSUME NEW X, NEW s \in Seq(X)
    PROVE  UniqueIDs(s) \in Seq(X) /\ UniqueKeys(s) \in Seq(X)
BY PickIn DEF UniqueIDs, UniqueKeys, Unique

(* The first of each key. *)
Firsts(s, key) == {i \in DOMAIN s : \A j \in 1..(i - 1) : key[j] # key[i]}

(* Where they are: as they come, none twice, each at the first of its key. *)
FirstAt(s, key, u, at) ==
    /\ at \in [DOMAIN u -> DOMAIN s]
    /\ \A k \in DOMAIN u : u[k] = s[at[k]]
    /\ \A k, l \in DOMAIN u : at[k] < at[l] <=> k < l
    /\ \A k, l \in DOMAIN u : key[at[k]] = key[at[l]] => k = l
    /\ \A i \in DOMAIN s : \E k \in DOMAIN u : at[k] <= i /\ key[at[k]] = key[i]

LEMMA FirstsHold ==
    ASSUME NEW X, NEW s \in Seq(X), NEW key, NEW u, u = Pick(s, Firsts(s, key))
    PROVE  /\ u \in Seq(X)
           /\ \E at : FirstAt(s, key, u, at)
<1> DEFINE P == Firsts(s, key)
<1>1. P \in SUBSET DOMAIN s /\ DOMAIN s = 1..Len(s) /\ Len(s) \in Nat
  BY DEF Firsts
<1> HIDE DEF P
<1>2. PICK at \in [DOMAIN u -> P] :
         /\ \A k \in DOMAIN u : u[k] = s[at[k]]
         /\ \A i \in P : \E k \in DOMAIN u : at[k] = i
         /\ \A k, l \in DOMAIN u : at[k] < at[l] <=> k < l
  <2>1. u = Pick(s, P)
    BY DEF P
  <2>2. \E at \in [DOMAIN Pick(s, P) -> P] :
           /\ \A k \in DOMAIN Pick(s, P) : Pick(s, P)[k] = s[at[k]]
           /\ \A i \in P : \E k \in DOMAIN Pick(s, P) : at[k] = i
           /\ \A k, l \in DOMAIN Pick(s, P) : at[k] < at[l] <=> k < l
    BY <1>1, PickHolds
  <2> QED
    BY <2>1, <2>2
<1>3. u \in Seq(X) /\ \A k \in DOMAIN u : k \in Nat
  <2>1. u \in Seq(X)
    BY <1>1, PickIn DEF P
  <2> QED
    BY <2>1
<1>4. at \in [DOMAIN u -> DOMAIN s] /\ \A k \in DOMAIN u : at[k] \in P /\ at[k] \in 1..Len(s)
  BY <1>1, <1>2
<1>5. ASSUME NEW k \in DOMAIN u, NEW l \in DOMAIN u, key[at[k]] = key[at[l]]
      PROVE  k = l
  <2>1. ~(at[k] < at[l]) /\ ~(at[l] < at[k])
    BY <1>1, <1>4, <1>5 DEF Firsts, P
  <2> QED
    BY <1>2, <1>3, <2>1
<1>6. ASSUME NEW i \in DOMAIN s
      PROVE  \E k \in DOMAIN u : at[k] <= i /\ key[at[k]] = key[i]
  <2> DEFINE T == {j \in 1..i : key[j] = key[i]}
  <2>1. T \in SUBSET Nat /\ i \in T
    BY <1>1
  <2>2. PICK j \in T : \A m \in T : j <= m
    <3> HIDE DEF T
    <3> QED
      BY <2>1, Smallest
  <2>3. j \in DOMAIN s /\ j <= i /\ key[j] = key[i] /\ \A m \in 1..(j - 1) : key[m] # key[j]
    BY <1>1, <2>2
  <2>4. j \in P
    BY <2>3 DEF Firsts, P
  <2> QED
    BY <1>2, <2>3, <2>4
<1> QED
  BY <1>2, <1>3, <1>4, <1>5, <1>6 DEF FirstAt

LEMMA UniqueHolds ==
    ASSUME NEW X, NEW s \in Seq(X), NEW u, u = Unique(s)
    PROVE  /\ u \in Seq(X) /\ ToSet(u) = ToSet(s)
           /\ IsFiniteSet(ToSet(s)) /\ Cardinality(ToSet(s)) = Len(u)
           /\ \A k, l \in DOMAIN u : u[k] = u[l] => k = l
           /\ \E at : FirstAt(s, s, u, at)
<1>1. u = Pick(s, Firsts(s, s))
  BY DEF Unique, Firsts
<1>2. u \in Seq(X)
  BY <1>1, FirstsHold
<1>3. PICK at : FirstAt(s, s, u, at)
  BY <1>1, FirstsHold
<1>4. /\ at \in [DOMAIN u -> DOMAIN s]
      /\ \A k \in DOMAIN u : u[k] = s[at[k]]
      /\ \A k, l \in DOMAIN u : at[k] < at[l] <=> k < l
      /\ \A k, l \in DOMAIN u : u[k] = u[l] => k = l
      /\ \A i \in DOMAIN s : \E k \in DOMAIN u : at[k] <= i /\ u[k] = s[i]
  BY <1>3 DEF FirstAt
<1>5. ToSet(u) = ToSet(s)
  BY <1>4 DEF ToSet
<1>6. IsFiniteSet(ToSet(u)) /\ Cardinality(ToSet(u)) = Len(u)
  <2>1. Len(u) \in Nat /\ DOMAIN u = 1..Len(u) /\ u \in [1..Len(u) -> ToSet(u)]
    BY <1>2 DEF ToSet
  <2>2. \A t \in ToSet(u) : \E k \in 1..Len(u) : u[k] = t
    BY <2>1 DEF ToSet
  <2>3. \A k, l \in 1..Len(u) : u[k] = u[l] => k = l
    BY <1>4, <2>1
  <2> QED
    BY <2>1, <2>2, <2>3, Numbered
<1> QED
  BY <1>2, <1>3, <1>4, <1>5, <1>6

(* The first of each spelling. *)
LEMMA UniqueKeysCount ==
    ASSUME NEW X, NEW s \in Seq(X), NEW u, u = UniqueKeys(s)
    PROVE  /\ u \in Seq(X)
           /\ \A i \in DOMAIN u : u[i] \in ToSet(s)
           /\ \A k, l \in DOMAIN u : Lower[u[k]] = Lower[u[l]] => k = l
           /\ IsFiniteSet({Lower[m] : m \in ToSet(s)})
           /\ Cardinality({Lower[m] : m \in ToSet(s)}) = Len(u)
<1> DEFINE key == [i \in DOMAIN s |-> Lower[s[i]]]
           T == {Lower[m] : m \in ToSet(s)}
<1>1. u = Pick(s, Firsts(s, key))
  <2>1. DOMAIN s = 1..Len(s) /\ Len(s) \in Nat
    OBVIOUS
  <2>2. \A i \in DOMAIN s : \A j \in 1..(i - 1) :
            key[j] = Lower[s[j]] /\ key[i] = Lower[s[i]]
    BY <2>1
  <2> HIDE DEF key
  <2>3. Firsts(s, key) = {i \in DOMAIN s : \A j \in 1..(i - 1) : Lower[s[j]] # Lower[s[i]]}
    BY <2>2 DEF Firsts
  <2> QED
    BY <2>3 DEF UniqueKeys
<1>2. \A i \in DOMAIN s : key[i] = Lower[s[i]]
  OBVIOUS
<1> HIDE DEF key
<1>3. u \in Seq(X)
  BY <1>1, FirstsHold
<1>4. PICK at : FirstAt(s, key, u, at)
  BY <1>1, FirstsHold
<1>5. /\ \A k, l \in DOMAIN u : Lower[u[k]] = Lower[u[l]] => k = l
      /\ \A i \in DOMAIN s : \E k \in DOMAIN u : Lower[u[k]] = Lower[s[i]]
      /\ \A k \in DOMAIN u : u[k] \in ToSet(s)
  BY <1>2, <1>4 DEF FirstAt, ToSet
<1> DEFINE f == [k \in 1..Len(u) |-> Lower[u[k]]]
<1>6. Len(u) \in Nat /\ DOMAIN u = 1..Len(u)
  BY <1>3
<1>7. f \in [1..Len(u) -> T] /\ \A k, l \in 1..Len(u) : f[k] = f[l] => k = l
  BY <1>5, <1>6
<1>8. \A t \in T : \E k \in 1..Len(u) : f[k] = t
  <2> SUFFICES ASSUME NEW t \in T PROVE \E k \in 1..Len(u) : f[k] = t
    OBVIOUS
  <2>1. PICK i \in DOMAIN s : t = Lower[s[i]]
    BY DEF ToSet
  <2> QED
    BY <1>5, <1>6, <2>1
<1> HIDE DEF f, T
<1>9. IsFiniteSet(T) /\ Cardinality(T) = Len(u)
  BY <1>6, <1>7, <1>8, Numbered
<1> QED
  BY <1>3, <1>5, <1>9 DEF T

(* Ids that are once each. *)
LEMMA UniqueKeysHold ==
    ASSUME NEW X, NEW s \in Seq(X)
    PROVE  /\ \A i \in DOMAIN UniqueKeys(s) : UniqueKeys(s)[i] \in ToSet(s)
           /\ \A i, j \in DOMAIN UniqueKeys(s) :
                 i # j => Lower[UniqueKeys(s)[i]] # Lower[UniqueKeys(s)[j]]
<1> DEFINE u == UniqueKeys(s)
<1>1. u = UniqueKeys(s)
  OBVIOUS
<1> HIDE DEF u
<1>2. /\ \A i \in DOMAIN u : u[i] \in ToSet(s)
      /\ \A k, l \in DOMAIN u : Lower[u[k]] = Lower[u[l]] => k = l
  BY <1>1, UniqueKeysCount
<1> QED
  BY <1>2 DEF u

(* A sequence has finitely many elements. *)
LEMMA FinitelyMany ==
    ASSUME NEW X, NEW s \in Seq(X)
    PROVE  IsFiniteSet(ToSet(s))
<1> DEFINE u == Unique(s)
<1>1. u = Unique(s)
  OBVIOUS
<1> HIDE DEF u
<1> QED
  BY <1>1, UniqueHolds

(* What is picked is what was at the positions. *)
LEMMA PickSet ==
    ASSUME NEW X, NEW s \in Seq(X), NEW P \in SUBSET DOMAIN s
    PROVE  /\ ToSet(Pick(s, P)) = {s[i] : i \in P}
           /\ Pick(s, P) \in Seq({s[i] : i \in P})
<1> DEFINE u == Pick(s, P)
           Y == {s[i] : i \in P}
<1>1. u \in Seq(X) /\ \E at \in [DOMAIN u -> P] :
                 /\ \A k \in DOMAIN u : u[k] = s[at[k]]
                 /\ \A i \in P : \E k \in DOMAIN u : at[k] = i
  BY PickHolds
<1> HIDE DEF u
<1>2. PICK at \in [DOMAIN u -> P] : /\ \A k \in DOMAIN u : u[k] = s[at[k]]
                                    /\ \A i \in P : \E k \in DOMAIN u : at[k] = i
  BY <1>1
<1>3. ToSet(u) = Y
  BY <1>2 DEF ToSet
<1>4. DOMAIN u = 1..Len(u) /\ Len(u) \in Nat /\ \A k \in DOMAIN u : u[k] \in Y
  BY <1>1, <1>2
<1> HIDE DEF Y
<1>5. u \in Seq(Y)
  <2>1. u = [k \in 1..Len(u) |-> u[k]]
    BY <1>1, <1>4
  <2> QED
    BY <1>4, <2>1
<1> QED
  BY <1>3, <1>5 DEF u, Y

(* A filter keeps what it admits. *)
LEMMA FilterHolds ==
    ASSUME NEW X, NEW s \in Seq(X), NEW provider
    PROVE  /\ FilterIDs(provider, s) \in Seq(X \cap Usable[provider])
           /\ ToSet(FilterIDs(provider, s)) = ToSet(s) \cap Usable[provider]
<1> DEFINE P == {i \in DOMAIN s : s[i] \in Usable[provider]}
           Y == {s[i] : i \in P}
<1>1. FilterIDs(provider, s) = Pick(s, P) /\ P \in SUBSET DOMAIN s
  BY DEF FilterIDs, Where
<1>2. Y = ToSet(s) \cap Usable[provider] /\ Y \subseteq X \cap Usable[provider]
  BY DEF ToSet
<1> HIDE DEF P, Y
<1>3. ToSet(Pick(s, P)) = Y /\ Pick(s, P) \in Seq(Y)
  BY <1>1, PickSet DEF Y
<1> QED
  BY <1>1, <1>2, <1>3

(* The elements of two sequences. *)
LEMMA JoinedSet ==
    ASSUME NEW X, NEW s \in Seq(X), NEW t \in Seq(X)
    PROVE  ToSet(s \o t) = ToSet(s) \cup ToSet(t)
<1>1. /\ DOMAIN s = 1..Len(s) /\ Len(s) \in Nat /\ DOMAIN t = 1..Len(t) /\ Len(t) \in Nat
      /\ DOMAIN (s \o t) = 1..(Len(s) + Len(t))
      /\ \A i \in 1..Len(s) : (s \o t)[i] = s[i]
      /\ \A i \in 1..Len(t) : (s \o t)[i + Len(s)] = t[i]
  OBVIOUS
<1>2. ASSUME NEW i \in DOMAIN (s \o t) PROVE (s \o t)[i] \in ToSet(s) \cup ToSet(t)
  <2>1. CASE i \in 1..Len(s)
    BY <1>1, <2>1 DEF ToSet
  <2>2. CASE i \notin 1..Len(s)
    <3>1. i - Len(s) \in 1..Len(t) /\ (i - Len(s)) + Len(s) = i
      BY <1>1, <2>2
    <3>2. (s \o t)[i] = t[i - Len(s)]
      BY <1>1, <3>1
    <3> QED
      BY <1>1, <3>1, <3>2 DEF ToSet
  <2> QED
    BY <2>1, <2>2
<1>3. ASSUME NEW i \in 1..Len(s) PROVE s[i] \in ToSet(s \o t)
  <2>1. i \in DOMAIN (s \o t) /\ (s \o t)[i] = s[i]
    BY <1>1
  <2> QED
    BY <2>1 DEF ToSet
<1>4. ASSUME NEW i \in 1..Len(t) PROVE t[i] \in ToSet(s \o t)
  <2>1. i + Len(s) \in DOMAIN (s \o t) /\ (s \o t)[i + Len(s)] = t[i]
    BY <1>1
  <2> QED
    BY <2>1 DEF ToSet
<1>5. ToSet(s) \subseteq ToSet(s \o t) /\ ToSet(t) \subseteq ToSet(s \o t)
  BY <1>1, <1>3, <1>4 DEF ToSet
<1>6. ToSet(s \o t) \subseteq ToSet(s) \cup ToSet(t)
  BY <1>2 DEF ToSet
<1> QED
  BY <1>5, <1>6

(* A sequence sorted by an order that is a strict weak one has the same     *)
(* elements. B is that order on the positions.                              *)
LEMMA StableIn ==
    ASSUME NEW X, NEW s \in Seq(X), NEW B, NEW R,
           \A i, j \in DOMAIN s : ~(<<i, j>> \in B /\ <<j, i>> \in B),
           \A i, j, k \in DOMAIN s : <<i, j>> \in B => <<i, k>> \in B \/ <<k, j>> \in B,
           \A i, j \in DOMAIN s :
               <<i, j>> \in R <=> <<i, j>> \in B \/ (<<j, i>> \notin B /\ i < j)
    PROVE  /\ Arranged(s, DOMAIN s, R) \in Seq(X) /\ Len(Arranged(s, DOMAIN s, R)) = Len(s)
           /\ \E at \in [DOMAIN s -> DOMAIN s] :
                 /\ \A k \in DOMAIN s : Arranged(s, DOMAIN s, R)[k] = s[at[k]]
                 /\ \A i \in DOMAIN s : \E k \in DOMAIN s : at[k] = i
                 /\ \A k, l \in DOMAIN s : <<at[k], at[l]>> \in R <=> k < l
<1> DEFINE D == DOMAIN s
           n == Len(s)
<1>1. D = 1..n /\ n \in Nat
  OBVIOUS
<1>2. Orders(D, R)
  <2>1. /\ \A i, j \in D : ~(<<i, j>> \in B /\ <<j, i>> \in B)
        /\ \A i, j, k \in D : <<i, j>> \in B => <<i, k>> \in B \/ <<k, j>> \in B
        /\ \A i, j \in D :
               <<i, j>> \in R <=> <<i, j>> \in B \/ (<<j, i>> \notin B /\ i < j)
    OBVIOUS
  <2> HIDE DEF D, n
  <2>2. D = 1..n
    BY <1>1
  <2>3. Orders(1..n, R)
    BY <1>1, <2>1, <2>2, StableOrders
  <2> QED
    BY <2>2, <2>3
<1> QED
  BY <1>2, ArrangedHolds

(* Keys compared in turn. *)
LEMMA PrecedesOrders ==
    ASSUME NEW w \in Nat, NEW s \in [1..w -> Int], NEW t \in [1..w -> Int], NEW u \in [1..w -> Int],
           Precedes(s, t)
    PROVE  ~Precedes(t, s) /\ (Precedes(s, u) \/ Precedes(u, t))
<1>1. DOMAIN s = 1..w /\ DOMAIN t = 1..w /\ DOMAIN u = 1..w
  OBVIOUS
<1>2. PICK i \in 1..w : s[i] < t[i] /\ \A j \in 1..(i - 1) : s[j] = t[j]
  BY <1>1 DEF Precedes
<1>3. ~Precedes(t, s)
  <2> SUFFICES ASSUME NEW k \in 1..w, t[k] < s[k], \A j \in 1..(k - 1) : t[j] = s[j] PROVE FALSE
    BY <1>1 DEF Precedes
  <2>1. s[i] \in Int /\ t[i] \in Int /\ s[k] \in Int /\ t[k] \in Int
    OBVIOUS
  <2>2. i < k => s[i] = t[i]
    OBVIOUS
  <2>3. k < i => s[k] = t[k]
    BY <1>2
  <2> QED
    BY <1>2, <2>1, <2>2, <2>3
<1>4. CASE \A k \in 1..i : u[k] = s[k]
  <2>1. u[i] < t[i] /\ \A j \in 1..(i - 1) : u[j] = t[j]
    BY <1>2, <1>4
  <2> QED
    BY <1>1, <1>3, <2>1 DEF Precedes
<1>5. CASE ~\A k \in 1..i : u[k] = s[k]
  <2> DEFINE T == {k \in 1..i : u[k] # s[k]}
  <2>1. T \in SUBSET Nat /\ T # {}
    <3>1. PICK k \in 1..i : u[k] # s[k]
      BY <1>5
    <3>2. k \in T
      BY <3>1
    <3>3. \A m \in T : m \in Nat
      OBVIOUS
    <3> HIDE DEF T
    <3> QED
      BY <3>2, <3>3
  <2>2. PICK k \in T : \A m \in T : k <= m
    <3> HIDE DEF T
    <3> QED
      BY <2>1, Smallest
  <2>3. k \in 1..w /\ k <= i /\ u[k] # s[k] /\ \A j \in 1..(k - 1) : u[j] = s[j]
    BY <2>2
  <2>4. u[k] \in Int /\ s[k] \in Int /\ t[k] \in Int
    BY <2>3
  <2>5. CASE s[k] < u[k]
    <3>1. \A j \in 1..(k - 1) : s[j] = u[j]
      BY <2>3
    <3> QED
      BY <1>1, <1>3, <2>3, <2>5, <3>1 DEF Precedes
  <2>6. CASE u[k] < s[k]
    <3>1. k < i => s[k] = t[k]
      BY <1>2, <2>3
    <3>2. k = i => s[k] < t[k]
      BY <1>2
    <3>3. u[k] < t[k]
      BY <2>3, <2>4, <2>6, <3>1, <3>2
    <3>4. \A j \in 1..(k - 1) : u[j] = t[j]
      BY <1>2, <2>3
    <3> QED
      BY <1>1, <1>3, <2>3, <3>3, <3>4 DEF Precedes
  <2> QED
    BY <2>3, <2>4, <2>5, <2>6
<1> QED
  BY <1>4, <1>5

(* R orders positions by their keys, those of equal keys as they come. *)
Keyed(D, w, key, R) ==
    /\ w \in Nat /\ \A i \in D : key[i] \in [1..w -> Int]
    /\ \A i, j \in D : <<i, j>> \in R <=> \/ Precedes(key[i], key[j])
                                          \/ ~Precedes(key[j], key[i]) /\ i < j

LEMMA KeyedIn ==
    ASSUME NEW X, NEW s \in Seq(X), NEW w, NEW key, NEW R, Keyed(DOMAIN s, w, key, R)
    PROVE  /\ Arranged(s, DOMAIN s, R) \in Seq(X)
           /\ ToSet(Arranged(s, DOMAIN s, R)) = ToSet(s)
<1> DEFINE D == DOMAIN s
           B == {pair \in D \X D : Precedes(key[pair[1]], key[pair[2]])}
<1>1. \A i, j \in D : <<i, j>> \in B <=> Precedes(key[i], key[j])
  OBVIOUS
<1>2. w \in Nat /\ \A i \in D : key[i] \in [1..w -> Int]
  BY DEF Keyed
<1> HIDE DEF B
<1>3. \A i, j \in D : ~(<<i, j>> \in B /\ <<j, i>> \in B)
  BY <1>1, <1>2, PrecedesOrders
<1>4. \A i, j, k \in D : <<i, j>> \in B => <<i, k>> \in B \/ <<k, j>> \in B
  BY <1>1, <1>2, PrecedesOrders
<1>5. \A i, j \in D : <<i, j>> \in R <=> <<i, j>> \in B \/ (<<j, i>> \notin B /\ i < j)
  BY <1>1 DEF Keyed
<1>6. /\ Arranged(s, D, R) \in Seq(X) /\ Len(Arranged(s, D, R)) = Len(s)
      /\ \E at \in [D -> D] :
            /\ \A k \in D : Arranged(s, D, R)[k] = s[at[k]]
            /\ \A i \in D : \E k \in D : at[k] = i
            /\ \A k, l \in D : <<at[k], at[l]>> \in R <=> k < l
  BY <1>3, <1>4, <1>5, StableIn
<1> DEFINE u == Arranged(s, D, R)
<1>7. PICK at \in [D -> D] : /\ \A k \in D : u[k] = s[at[k]]
                             /\ \A i \in D : \E k \in D : at[k] = i
  BY <1>6
<1>8. u \in Seq(X) /\ Len(u) = Len(s)
  BY <1>6
<1> HIDE DEF u
<1>9. DOMAIN u = D
  BY <1>8
<1>10. ToSet(u) = ToSet(s)
  BY <1>7, <1>9 DEF ToSet
<1> QED
  BY <1>8, <1>10 DEF u

(* Two numbers compared in turn. *)
LEMMA PairsIn ==
    ASSUME NEW X, NEW s \in Seq(X), NEW f \in [DOMAIN s -> Int], NEW g \in [DOMAIN s -> Int], NEW R,
           \A i, j \in DOMAIN s :
               <<i, j>> \in R <=> \/ f[i] < f[j] \/ (f[i] = f[j] /\ g[i] < g[j])
                                  \/ ~(f[j] < f[i] \/ (f[j] = f[i] /\ g[j] < g[i])) /\ i < j
    PROVE  Arranged(s, DOMAIN s, R) \in Seq(X) /\ Len(Arranged(s, DOMAIN s, R)) = Len(s)
<1> DEFINE D == DOMAIN s
           B == {pair \in D \X D : \/ f[pair[1]] < f[pair[2]]
                                   \/ f[pair[1]] = f[pair[2]] /\ g[pair[1]] < g[pair[2]]}
<1>1. \A i, j \in D : <<i, j>> \in B <=> f[i] < f[j] \/ (f[i] = f[j] /\ g[i] < g[j])
  OBVIOUS
<1> HIDE DEF B
<1>2. ASSUME NEW i \in D, NEW j \in D PROVE ~(<<i, j>> \in B /\ <<j, i>> \in B)
  <2>1. f[i] \in Int /\ f[j] \in Int /\ g[i] \in Int /\ g[j] \in Int
    OBVIOUS
  <2>2. ~(/\ f[i] < f[j] \/ (f[i] = f[j] /\ g[i] < g[j])
          /\ f[j] < f[i] \/ (f[j] = f[i] /\ g[j] < g[i]))
    BY <2>1
  <2> QED
    BY <1>1, <2>2
<1>3. ASSUME NEW i \in D, NEW j \in D, NEW k \in D, <<i, j>> \in B
      PROVE  <<i, k>> \in B \/ <<k, j>> \in B
  <2>1. /\ f[i] \in Int /\ f[j] \in Int /\ f[k] \in Int
        /\ g[i] \in Int /\ g[j] \in Int /\ g[k] \in Int
    OBVIOUS
  <2>2. f[i] < f[j] \/ (f[i] = f[j] /\ g[i] < g[j])
    BY <1>1, <1>3
  <2>3. \/ f[i] < f[k] \/ (f[i] = f[k] /\ g[i] < g[k])
        \/ f[k] < f[j] \/ (f[k] = f[j] /\ g[k] < g[j])
    BY <2>1, <2>2
  <2> QED
    BY <1>1, <2>3
<1>4. \A i, j \in D : <<i, j>> \in R <=> <<i, j>> \in B \/ (<<j, i>> \notin B /\ i < j)
  BY <1>1
<1> QED
  BY <1>2, <1>3, <1>4, StableIn

LEMMA HuggingFaceIn ==
    ASSUME NEW X \in SUBSET Ids, NEW answer, answer.ids \in Seq(X)
    PROVE  FetchHuggingFace(answer).ids \in Seq(X \cap Usable["huggingface"])
<1> DEFINE Y == X \cap Usable["huggingface"]
           usable == Where(answer.ids, LAMBDA m :
                         Facts[m].text /\ Facts[m].live /\ m \in Usable["huggingface"])
           Faster(a, b) == \/ Facts[a].speed > Facts[b].speed
                           \/ Facts[a].speed = Facts[b].speed /\ Facts[a].latency < Facts[b].latency
           R == Leading(usable, Faster)
           f == [i \in DOMAIN usable |-> -Facts[usable[i]].speed]
           g == [i \in DOMAIN usable |-> Facts[usable[i]].latency]
<1>1. usable \in Seq(Y)
  <2> DEFINE P == {i \in DOMAIN answer.ids : /\ Facts[answer.ids[i]].text /\ Facts[answer.ids[i]].live
                                             /\ answer.ids[i] \in Usable["huggingface"]}
             S == {answer.ids[i] : i \in P}
  <2>1. usable = Pick(answer.ids, P) /\ P \in SUBSET DOMAIN answer.ids /\ S \subseteq Y
    BY DEF Where
  <2> HIDE DEF P, usable, Y
  <2>2. usable \in Seq(S)
    BY <2>1, PickSet
  <2> QED
    BY <2>1, <2>2
<1>2. \A i \in DOMAIN usable :
          Facts[usable[i]].speed \in Nat /\ Facts[usable[i]].latency \in Nat
  <2> HIDE DEF usable
  <2>1. \A i \in DOMAIN usable : usable[i] \in Ids
    BY <1>1
  <2>2. \A m \in Ids : Facts[m].speed \in Nat /\ Facts[m].latency \in Nat
    BY CatalogAssumption DEF Fact
  <2> QED
    BY <2>1, <2>2
<1> HIDE DEF usable
<1>3. f \in [DOMAIN usable -> Int] /\ g \in [DOMAIN usable -> Int]
  BY <1>2
<1>4. \A i, j \in DOMAIN usable :
          <<i, j>> \in R <=> \/ f[i] < f[j] \/ (f[i] = f[j] /\ g[i] < g[j])
                             \/ ~(f[j] < f[i] \/ (f[j] = f[i] /\ g[j] < g[i])) /\ i < j
  BY <1>2 DEF Leading
<1> DEFINE sorted == Sorted(usable, Faster)
<1>5. sorted = Arranged(usable, DOMAIN usable, R)
  BY DEF Sorted
<1> HIDE DEF sorted, R, f, g
<1>6. sorted \in Seq(Y)
  BY <1>1, <1>3, <1>4, <1>5, PairsIn
<1>7. FetchHuggingFace(answer) = IF answer.ok THEN Yield(sorted) ELSE NoListing
  BY DEF FetchHuggingFace, usable, sorted
<1> QED
  BY <1>6, <1>7 DEF Yield, NoListing

LEMMA KiloIn ==
    ASSUME NEW X \in SUBSET Ids, NEW answer, answer.ids \in Seq(X)
    PROVE  FetchKilo(answer).ids \in Seq(X)
<1> DEFINE usable == Where(answer.ids, LAMBDA m :
                         /\ Facts[m].text /\ ~Facts[m].trains /\ Facts[m].tools
                         /\ m \in Usable["kilo"])
           R == Leading(usable, CheaperKilo)
           f == [i \in DOMAIN usable |-> IF Facts[usable[i]].price < 0 THEN 1 ELSE 0]
           g == [i \in DOMAIN usable |-> IF Facts[usable[i]].price < 0 THEN 0
                                         ELSE Facts[usable[i]].price]
<1>1. usable \in Seq(X)
  BY PickIn DEF Where
<1>2. \A i \in DOMAIN usable : Facts[usable[i]].price \in Int
  <2> HIDE DEF usable
  <2>1. \A i \in DOMAIN usable : usable[i] \in Ids
    BY <1>1
  <2>2. \A m \in Ids : Facts[m].price \in Int
    BY CatalogAssumption DEF Fact
  <2> QED
    BY <2>1, <2>2
<1> HIDE DEF usable
<1>3. f \in [DOMAIN usable -> Int] /\ g \in [DOMAIN usable -> Int]
  BY <1>2
<1>4. \A i, j \in DOMAIN usable :
          <<i, j>> \in R <=> \/ f[i] < f[j] \/ (f[i] = f[j] /\ g[i] < g[j])
                             \/ ~(f[j] < f[i] \/ (f[j] = f[i] /\ g[j] < g[i])) /\ i < j
  BY <1>2 DEF Leading, CheaperKilo
<1> DEFINE sorted == Sorted(usable, CheaperKilo)
<1>5. sorted = Arranged(usable, DOMAIN usable, R)
  BY DEF Sorted
<1> HIDE DEF sorted, R, f, g
<1>6. sorted \in Seq(X)
  BY <1>1, <1>3, <1>4, <1>5, PairsIn
<1>7. FetchKilo(answer) = IF answer.ok THEN Yield(sorted) ELSE NoListing
  BY DEF FetchKilo, usable, sorted
<1> QED
  BY <1>6, <1>7 DEF Yield, NoListing

LEMMA ChatGPTIn ==
    ASSUME NEW X \in SUBSET Ids, NEW answer, answer.ids \in Seq(X)
    PROVE  ListChatGPT(answer) # NoCatalog =>
              /\ ListChatGPT(answer).recommended \in Seq(X)
              /\ ListChatGPT(answer).recommended # <<>>
              /\ ListChatGPT(answer).usable = ListChatGPT(answer).recommended
              /\ ListChatGPT(answer).live = TRUE
              /\ LET rec == ListChatGPT(answer).recommended
                 IN  \A k, l \in DOMAIN rec : rec[k] = rec[l] => k = l
<1> DEFINE listed == Where(answer.ids, LAMBDA m : Facts[m].listed)
           Sooner(a, b) == Facts[a].priority < Facts[b].priority
           R == Leading(listed, Sooner)
           f == [i \in DOMAIN listed |-> Facts[listed[i]].priority]
           g == [i \in DOMAIN listed |-> 0]
<1>1. listed \in Seq(X)
  BY PickIn DEF Where
<1>2. \A i \in DOMAIN listed : Facts[listed[i]].priority \in Nat
  <2> HIDE DEF listed
  <2>1. \A i \in DOMAIN listed : listed[i] \in Ids
    BY <1>1
  <2>2. \A m \in Ids : Facts[m].priority \in Nat
    BY CatalogAssumption DEF Fact
  <2> QED
    BY <2>1, <2>2
<1> HIDE DEF listed
<1>3. f \in [DOMAIN listed -> Int] /\ g \in [DOMAIN listed -> Int]
  BY <1>2
<1>4. \A i, j \in DOMAIN listed :
          <<i, j>> \in R <=> \/ f[i] < f[j] \/ (f[i] = f[j] /\ g[i] < g[j])
                             \/ ~(f[j] < f[i] \/ (f[j] = f[i] /\ g[j] < g[i])) /\ i < j
  BY <1>2 DEF Leading
<1> DEFINE sorted == Sorted(listed, Sooner)
           models == UniqueIDs(sorted)
<1>5. sorted = Arranged(listed, DOMAIN listed, R)
  BY DEF Sorted
<1> HIDE DEF sorted, R, f, g
<1>6. sorted \in Seq(X)
  BY <1>1, <1>3, <1>4, <1>5, PairsIn
<1>7. models \in Seq(X) /\ \A k, l \in DOMAIN models : models[k] = models[l] => k = l
  <2>1. models = Unique(sorted)
    BY DEF UniqueIDs
  <2> HIDE DEF models
  <2> QED
    BY <1>6, <2>1, UniqueHolds
<1>8. ListChatGPT(answer) = IF ~answer.ok \/ models = <<>> THEN NoCatalog
                            ELSE Catalog(models, models, TRUE, FALSE)
  BY DEF ListChatGPT, listed, sorted
<1> HIDE DEF models
<1> QED
  BY <1>7, <1>8 DEF Catalog

(* The pages that are read, in order. *)
LEMMA PagesIn ==
    ASSUME NEW X, NEW provider, NEW n \in Nat, NEW read, DOMAIN read = 1..n,
           \A k \in 1..n : read[k].ids \in Seq(X)
    PROVE  Joined(provider, read) \in Seq(X \cap Usable[provider])
<1> DEFINE Y == X \cap Usable[provider]
           Fits(f) == f = [s \in SUBSET DOMAIN read |->
                              IF s = {} THEN <<>>
                              ELSE f[s \ {Max(s)}] \o FilterIDs(provider, read[Max(s)].ids)]
           iter == CHOOSE f : Fits(f)
           whole == Joined(provider, read)
<1>1. whole = iter[DOMAIN read]
  BY Zenon DEF Joined, FoldLeft, MapThenFoldSet
<1> DEFINE more == [k \in 1..n |-> FilterIDs(provider, read[k].ids)]
           step == [pair \in Seq(Y) \X (1..n) |-> pair[1] \o more[pair[2]]]
<1>2. \A k \in 1..n : more[k] \in Seq(Y) /\ more[k] = FilterIDs(provider, read[k].ids)
  BY FilterHolds
<1> HIDE DEF Y
<1>3. <<>> \in Seq(Y) /\ step \in [Seq(Y) \X (1..n) -> Seq(Y)]
  <2> HIDE DEF more
  <2> QED
    BY <1>2
<1>4. \A x \in Seq(Y), k \in 1..n : step[<<x, k>>] = x \o more[k]
  OBVIOUS
<1> HIDE DEF whole, more, step
<1>5. PICK g \in [SUBSET (1..n) -> Seq(Y)] : Folds(step, <<>>, n, g)
  BY <1>3, FoldExists
<1>6. Fits(g)
  <2>1. ASSUME NEW s \in SUBSET (1..n), s # {}
        PROVE  step[<<g[s \ {Max(s)}], Max(s)>>]
                  = g[s \ {Max(s)}] \o FilterIDs(provider, read[Max(s)].ids)
    <3>1. Max(s) \in 1..n /\ s \ {Max(s)} \in SUBSET (1..n)
      BY <2>1, MaxIn
    <3> QED
      BY <1>2, <1>4, <3>1
  <2> QED
    BY <1>5, <2>1 DEF Folds
<1>7. Fits(iter)
  <2> HIDE DEF Fits
  <2> QED
    BY <1>6
<1>8. /\ iter[1..0] = <<>>
      /\ \A k \in 1..n : iter[1..k] = iter[1..(k - 1)] \o more[k]
  <2> HIDE DEF iter
  <2>1. iter[{}] = <<>> /\ 1..0 = {}
    BY <1>7
  <2>2. ASSUME NEW k \in 1..n PROVE iter[1..k] = iter[1..(k - 1)] \o more[k]
    <3>1. Max(1..k) = k /\ (1..k) \ {k} = 1..(k - 1) /\ 1..k # {} /\ 1..k \in SUBSET (1..n)
      BY Prefix
    <3>2. iter[1..k] = iter[(1..k) \ {Max(1..k)}] \o FilterIDs(provider, read[Max(1..k)].ids)
      BY <1>7, <3>1
    <3> QED
      BY <1>2, <3>1, <3>2
  <2> QED
    BY <2>1, <2>2
<1> HIDE DEF iter
<1> DEFINE good == {k \in 0..n : iter[1..k] \in Seq(Y)}
<1>9. 0 \in good
  <2>1. iter[1..0] \in Seq(Y)
    BY <1>3, <1>8
  <2> QED
    BY <2>1
<1>10. ASSUME NEW k \in 1..n, k - 1 \in good PROVE k \in good
  <2>1. iter[1..(k - 1)] \in Seq(Y)
    BY <1>10
  <2>2. iter[1..k] = iter[1..(k - 1)] \o more[k] /\ more[k] \in Seq(Y)
    BY <1>2, <1>8
  <2>3. iter[1..k] \in Seq(Y)
    BY <2>1, <2>2
  <2> QED
    BY <2>3
<1>11. 0..n \subseteq good
  <2> HIDE DEF good
  <2> QED
    BY <1>9, <1>10, Induct
<1>12. whole \in Seq(Y)
  BY <1>1, <1>11
<1> QED
  BY <1>12 DEF whole, Y

LEMMA FetchPagesIn ==
    ASSUME NEW X, NEW P, NEW provider, NEW pages \in Seq(P), MaxPages \in Nat,
           \A k \in DOMAIN pages : pages[k].ids \in Seq(X)
    PROVE  FetchPages(provider, pages).ids \in Seq(X \cap Usable[provider])
<1> DEFINE last == {n \in 1..MaxPages : n <= Len(pages) /\ ~pages[n].more}
           n == CHOOSE k \in last : \A j \in last : k <= j
           read == SubSeq(pages, 1, n)
           whole == Joined(provider, read)
           bad == last = {} \/ \E k \in 1..n : ~pages[k].ok \/ (pages[k].more /\ ~pages[k].cursor)
<1>1. FetchPages(provider, pages) = IF bad THEN NoListing ELSE Yield(whole)
  BY DEF FetchPages
<1>2. ASSUME last # {} PROVE whole \in Seq(X \cap Usable[provider])
  <2>1. last \in SUBSET Nat /\ \A m \in last : m <= Len(pages)
    OBVIOUS
  <2> HIDE DEF last
  <2>2. \E k \in last : \A j \in last : k <= j
    BY <1>2, <2>1, Smallest
  <2>3. n \in Nat /\ n <= Len(pages)
    BY <2>1, <2>2
  <2> HIDE DEF n
  <2>4. DOMAIN read = 1..n /\ \A k \in 1..n : k \in DOMAIN pages /\ read[k] = pages[k]
    BY <2>3
  <2>5. \A k \in 1..n : read[k].ids \in Seq(X)
    BY <2>4
  <2> HIDE DEF read
  <2> QED
    BY <2>3, <2>4, <2>5, PagesIn
<1> HIDE DEF last, whole
<1> QED
  BY <1>1, <1>2 DEF NoListing, Yield

(* Exchanging two elements of a sequence. *)
Exchanged(s, a, b) == [s EXCEPT ![a] = s[b], ![b] = s[a]]

LEMMA Exchange ==
    ASSUME NEW X, NEW s \in Seq(X), NEW a \in DOMAIN s, NEW b \in DOMAIN s
    PROVE  /\ Exchanged(s, a, b) \in Seq(X) /\ Len(Exchanged(s, a, b)) = Len(s)
           /\ ToSet(Exchanged(s, a, b)) = ToSet(s)
<1> DEFINE t == Exchanged(s, a, b)
<1>1. DOMAIN s = 1..Len(s) /\ Len(s) \in Nat /\ \A i \in DOMAIN s : s[i] \in X
  OBVIOUS
<1>2. DOMAIN t = DOMAIN s /\ t[b] = s[a] /\ t[a] = s[b]
  BY DEF Exchanged
<1>3. \A i \in DOMAIN s : i # a /\ i # b => t[i] = s[i]
  BY DEF Exchanged
<1>4. \A i \in DOMAIN s : t[i] \in X
  BY <1>1, <1>2, <1>3
<1>5. t = [i \in 1..Len(s) |-> t[i]]
  BY <1>1, <1>2 DEF Exchanged
<1> HIDE DEF t
<1>6. t \in Seq(X) /\ Len(t) = Len(s)
  BY <1>1, <1>4, <1>5
<1>7. ToSet(t) = ToSet(s)
  BY <1>2, <1>3 DEF ToSet
<1> QED
  BY <1>6, <1>7 DEF t

(* An exchange sort keeps what it sorts. *)
LEMMA SortByRankDescIn ==
    ASSUME NEW X, NEW ids \in Seq(X)
    PROVE  /\ SortByRankDesc(ids) \in Seq(X)
           /\ Len(SortByRankDesc(ids)) = Len(ids) /\ ToSet(SortByRankDesc(ids)) = ToSet(ids)
<1> DEFINE n == Len(ids)
           N == n * n
           pairs == [k \in 1..(n * n) |-> <<((k - 1) \div n) + 1, ((k - 1) % n) + 1>>]
           W == {s \in Seq(X) : Len(s) = n /\ ToSet(s) = ToSet(ids)}
           Swapped(s, p) == IF p[1] < p[2] /\ Rank[s[p[2]]] > Rank[s[p[1]]]
                            THEN [s EXCEPT ![p[1]] = s[p[2]], ![p[2]] = s[p[1]]]
                            ELSE s
           Fits(f) == f = [s \in SUBSET DOMAIN pairs |->
                              IF s = {} THEN ids
                              ELSE LET t == f[s \ {Max(s)}]
                                       p == pairs[Max(s)]
                                   IN  IF p[1] < p[2] /\ Rank[t[p[2]]] > Rank[t[p[1]]]
                                       THEN [t EXCEPT ![p[1]] = t[p[2]], ![p[2]] = t[p[1]]]
                                       ELSE t]
           iter == CHOOSE f : Fits(f)
           whole == SortByRankDesc(ids)
<1>1. whole = iter[DOMAIN pairs]
  BY Zenon DEF SortByRankDesc, FoldLeft, MapThenFoldSet
<1>2. /\ n \in Nat /\ N \in Nat /\ DOMAIN pairs = 1..N
      /\ \A k \in 1..N : /\ pairs[k][1] \in Nat /\ pairs[k][1] >= 1
                         /\ pairs[k][2] \in 1..n
  <2>1. n \in Nat /\ N \in Nat /\ DOMAIN pairs = 1..N
    OBVIOUS
  <2> SUFFICES ASSUME NEW k \in 1..N
               PROVE  /\ pairs[k][1] \in Nat /\ pairs[k][1] >= 1
                      /\ pairs[k][2] \in 1..n
    BY <2>1
  <2> DEFINE q == k - 1
  <2>2. n # 0 /\ q \in Nat
    BY <2>1
  <2>3. pairs[k] = <<(q \div n) + 1, (q % n) + 1>>
    OBVIOUS
  <2> HIDE DEF n, q, pairs
  <2>4. q \div n \in Nat /\ q % n \in 0..(n - 1)
    BY <2>1, <2>2
  <2> QED
    BY <2>1, <2>3, <2>4
<1> HIDE DEF n, N, pairs
<1>3. ASSUME NEW t \in W, NEW k \in 1..N
      PROVE  Swapped(t, pairs[k]) \in W
  <2>1. t \in Seq(X) /\ Len(t) = n /\ ToSet(t) = ToSet(ids) /\ DOMAIN t = 1..n
    OBVIOUS
  <2> DEFINE a == pairs[k][1]
             b == pairs[k][2]
  <2>2. CASE a < b
    <3>1. a \in 1..n /\ b \in 1..n
      BY <1>2, <2>2
    <3>2. Exchanged(t, a, b) \in W
      <4>1. a \in DOMAIN t /\ b \in DOMAIN t
        BY <2>1, <3>1
      <4> HIDE DEF a, b
      <4>2. /\ Exchanged(t, a, b) \in Seq(X) /\ Len(Exchanged(t, a, b)) = Len(t)
            /\ ToSet(Exchanged(t, a, b)) = ToSet(t)
        BY <2>1, <4>1, Exchange
      <4> QED
        BY <2>1, <4>2
    <3> QED
      BY <3>2 DEF Exchanged
  <2>3. CASE ~(a < b)
    BY <2>3
  <2> QED
    BY <2>2, <2>3
<1> DEFINE step == [pair \in W \X (1..N) |-> Swapped(pair[1], pairs[pair[2]])]
<1>4. ids \in W /\ step \in [W \X (1..N) -> W]
  <2>1. ids \in W
    BY DEF n
  <2> HIDE DEF W, Swapped
  <2>2. \A pair \in W \X (1..N) : Swapped(pair[1], pairs[pair[2]]) \in W
    BY <1>3
  <2> QED
    BY <2>1, <2>2
<1>5. \A t \in W, k \in 1..N : step[<<t, k>>] = Swapped(t, pairs[k])
  <2> HIDE DEF W, Swapped
  <2> QED
    OBVIOUS
<1> HIDE DEF whole, step
<1>6. PICK g \in [SUBSET (1..N) -> W] : Folds(step, ids, N, g)
  <2> HIDE DEF W
  <2> QED
    BY <1>2, <1>4, FoldExists
<1>7. Fits(g)
  <2>1. ASSUME NEW s \in SUBSET (1..N), s # {}
        PROVE  step[<<g[s \ {Max(s)}], Max(s)>>] = Swapped(g[s \ {Max(s)}], pairs[Max(s)])
    <3>1. Max(s) \in 1..N /\ s \ {Max(s)} \in SUBSET (1..N)
      BY <1>2, <2>1, MaxIn
    <3> HIDE DEF W, Swapped
    <3> QED
      BY <1>5, <3>1
  <2> HIDE DEF W
  <2> QED
    BY <1>2, <1>6, <2>1 DEF Folds
<1>8. Fits(iter)
  <2> HIDE DEF Fits
  <2> QED
    BY <1>7
<1>9. /\ iter[1..0] = ids
      /\ \A k \in 1..N : iter[1..k] = Swapped(iter[1..(k - 1)], pairs[k])
  <2> HIDE DEF iter
  <2>1. iter[{}] = ids /\ 1..0 = {}
    BY <1>8
  <2>2. ASSUME NEW k \in 1..N PROVE iter[1..k] = Swapped(iter[1..(k - 1)], pairs[k])
    <3>1. Max(1..k) = k /\ (1..k) \ {k} = 1..(k - 1) /\ 1..k # {} /\ 1..k \in SUBSET (1..N)
      BY <1>2, Prefix
    <3>2. iter[1..k] = Swapped(iter[(1..k) \ {Max(1..k)}], pairs[Max(1..k)])
      BY <1>2, <1>8, <3>1
    <3> QED
      BY <3>1, <3>2
  <2> QED
    BY <2>1, <2>2
<1> HIDE DEF iter
<1> DEFINE good == {k \in 0..N : iter[1..k] \in W}
<1>10. 0 \in good
  <2> HIDE DEF W
  <2>1. iter[1..0] \in W
    BY <1>4, <1>9
  <2> QED
    BY <1>2, <2>1
<1>11. ASSUME NEW k \in 1..N, k - 1 \in good PROVE k \in good
  <2> HIDE DEF W, Swapped
  <2>1. iter[1..(k - 1)] \in W
    BY <1>11
  <2>2. iter[1..k] \in W
    BY <1>3, <1>9, <2>1
  <2> QED
    BY <1>2, <2>2
<1>12. 0..N \subseteq good
  <2> HIDE DEF good
  <2> QED
    BY <1>2, <1>10, <1>11, Induct
<1>13. whole \in W
  <2> HIDE DEF W
  <2> QED
    BY <1>1, <1>2, <1>12
<1> QED
  BY <1>13 DEF whole, n

LEMMA SearchIn ==
    ASSUME NEW X \in SUBSET Ids, NEW ids \in Seq(X), NEW query \in DOMAIN Score
    PROVE  SearchModels(ids, query) \in Seq(X)
<1> DEFINE found == Where(UniqueKeys(ids), LAMBDA m : Score[query][m] > 0)
           Fitter(a, b) == Score[query][a] > Score[query][b]
           R == Leading(found, Fitter)
           f == [i \in DOMAIN found |-> -Score[query][found[i]]]
           g == [i \in DOMAIN found |-> 0]
<1>1. found \in Seq(X)
  BY UniqueIn, PickIn DEF Where
<1>2. \A i \in DOMAIN found : Score[query][found[i]] \in Nat
  <2> HIDE DEF found
  <2>1. \A i \in DOMAIN found : found[i] \in Ids
    BY <1>1
  <2>2. \A m \in Ids : Score[query][m] \in Nat
    BY CatalogAssumption
  <2> QED
    BY <2>1, <2>2
<1> HIDE DEF found
<1>3. f \in [DOMAIN found -> Int] /\ g \in [DOMAIN found -> Int]
  BY <1>2
<1>4. \A i, j \in DOMAIN found :
          <<i, j>> \in R <=> \/ f[i] < f[j] \/ (f[i] = f[j] /\ g[i] < g[j])
                             \/ ~(f[j] < f[i] \/ (f[j] = f[i] /\ g[j] < g[i])) /\ i < j
  BY <1>2 DEF Leading
<1> DEFINE sorted == Sorted(found, Fitter)
<1>5. sorted = Arranged(found, DOMAIN found, R)
  BY DEF Sorted
<1> HIDE DEF sorted, R, f, g
<1>6. sorted \in Seq(X)
  BY <1>1, <1>3, <1>4, <1>5, PairsIn
<1>7. SearchModels(ids, query) = sorted
  BY DEF SearchModels, found, sorted
<1> QED
  BY <1>6, <1>7

Spellings(ids) == {Lower[m] : m \in ids}

OfEachSpelling(ids, r) ==
    LET n == Cardinality(Spellings(ids))
    IN  /\ n \in Nat /\ Len(r) = IF MaxListed < n THEN MaxListed ELSE n
        /\ \A k, l \in DOMAIN r : Lower[r[k]] = Lower[r[l]] => k = l

(* The static ids that are listed, as the listing spells them, and the rest *)
(* of the listing: every spelling once, as many as there are places.        *)
LEMMA CurateHolds ==
    ASSUME NEW X, NEW provider \in DOMAIN Static, NEW available \in Seq(X), NEW ranked, NEW r,
           r = Curate(provider, available, ranked)
    PROVE  r \in Seq(X) /\ OfEachSpelling(ToSet(available) \cap Usable[provider], r)
<1> DEFINE ok == FilterIDs(provider, available)
           Y == ToSet(available) \cap Usable[provider]
           keys == {Lower[m] : m \in ToSet(ok)}
           canon == [key \in keys |-> ok[CHOOSE i \in DOMAIN ok :
                        Lower[ok[i]] = key /\ \A j \in DOMAIN ok : Lower[ok[j]] = key => j <= i]]
           there == {i \in DOMAIN Static[provider] : Lower[Static[provider][i]] \in keys}
           listed == Pick(Static[provider], there)
           spelled == [i \in DOMAIN listed |-> canon[Lower[listed[i]]]]
           hits == UniqueKeys(spelled)
           left == {i \in DOMAIN ok : \A j \in DOMAIN hits : Lower[hits[j]] # Lower[ok[i]]}
           rest == Pick(ok, left)
           others == IF ranked THEN SortByRankDesc(rest) ELSE rest
           whole == hits \o others
<1>1. ok \in Seq(Y) /\ ToSet(ok) = Y /\ Y \subseteq X
  <2>1. available \in Seq(ToSet(available)) /\ ToSet(available) \subseteq X
    BY DEF ToSet
  <2> HIDE DEF ok
  <2>2. ok \in Seq(Y) /\ ToSet(ok) = Y
    BY <2>1, FilterHolds DEF ok
  <2> QED
    BY <2>1, <2>2
<1>2. ASSUME NEW key \in keys PROVE canon[key] \in Y
  <2> DEFINE T == {i \in DOMAIN ok : Lower[ok[i]] = key}
  <2> HIDE DEF ok, Y
  <2>1. DOMAIN ok = 1..Len(ok) /\ Len(ok) \in Nat /\ \A i \in DOMAIN ok : ok[i] \in Y
    BY <1>1
  <2>2. T \in SUBSET Nat /\ T # {} /\ \A m \in T : m <= Len(ok)
    <3>1. T # {}
      BY DEF ToSet
    <3> QED
      BY <2>1, <3>1
  <2>3. Max(T) \in T /\ \A m \in T : m <= Max(T)
    <3> HIDE DEF T
    <3> QED
      BY <2>1, <2>2, MaxIs
  <2>4. \E i \in DOMAIN ok :
           Lower[ok[i]] = key /\ \A j \in DOMAIN ok : Lower[ok[j]] = key => j <= i
    BY <2>3
  <2> QED
    BY <2>1, <2>4
<1>3. listed \in Seq(Ids) /\ \A i \in DOMAIN listed : Lower[listed[i]] \in keys
  <2> HIDE DEF keys
  <2>1. Static[provider] \in Seq(Ids)
    BY CatalogAssumption
  <2>2. there \in SUBSET DOMAIN Static[provider]
    OBVIOUS
  <2> HIDE DEF there, listed
  <2>3. PICK at \in [DOMAIN listed -> there] :
           \A k \in DOMAIN listed : listed[k] = Static[provider][at[k]]
    BY <2>1, <2>2, PickHolds DEF listed
  <2>4. \A k \in DOMAIN listed : Lower[listed[k]] \in keys
    BY <2>3 DEF there
  <2> QED
    BY <2>1, <2>2, <2>4, PickIn DEF listed
<1> HIDE DEF canon, listed, ok, Y
<1>4. spelled \in Seq(Y)
  BY <1>2, <1>3
<1> HIDE DEF spelled
<1>5. hits \in Seq(Y)
  BY <1>4, UniqueIn
<1> HIDE DEF hits
<1>6. rest \in Seq(Y) /\ ToSet(rest) = {ok[i] : i \in left}
  <2>1. left \in SUBSET DOMAIN ok
    OBVIOUS
  <2> HIDE DEF left
  <2> QED
    BY <1>1, <2>1, PickIn, PickSet
<1> HIDE DEF rest
<1>7. others \in Seq(Y) /\ ToSet(others) = ToSet(rest)
  BY <1>6, SortByRankDescIn
<1> HIDE DEF others
<1>8. whole \in Seq(Y) /\ ToSet(whole) = ToSet(hits) \cup ToSet(others)
  BY <1>5, <1>7, JoinedSet
<1> HIDE DEF whole
<1>9. {Lower[m] : m \in ToSet(whole)} = {Lower[m] : m \in Y}
  <2>1. ToSet(whole) \subseteq Y
    BY <1>8 DEF ToSet
  <2>2. ASSUME NEW m \in Y PROVE \E o \in ToSet(whole) : Lower[o] = Lower[m]
    <3>1. PICK i \in DOMAIN ok : m = ok[i]
      BY <1>1 DEF ToSet
    <3>2. CASE i \in left
      BY <1>6, <1>7, <1>8, <3>1, <3>2
    <3>3. CASE i \notin left
      <4>1. PICK j \in DOMAIN hits : Lower[hits[j]] = Lower[m]
        BY <3>1, <3>3
      <4> QED
        BY <1>8, <4>1 DEF ToSet
    <3> QED
      BY <3>2, <3>3
  <2> QED
    BY <2>1, <2>2
<1> DEFINE u == UniqueKeys(whole)
           n == Cardinality({Lower[m] : m \in Y})
<1>10. /\ u \in Seq(Y) /\ n = Len(u)
       /\ \A k, l \in DOMAIN u : Lower[u[k]] = Lower[u[l]] => k = l
  <2> HIDE DEF u
  <2>1. /\ u \in Seq(Y) /\ Cardinality({Lower[m] : m \in ToSet(whole)}) = Len(u)
        /\ \A k, l \in DOMAIN u : Lower[u[k]] = Lower[u[l]] => k = l
    BY <1>8, UniqueKeysCount DEF u
  <2> QED
    BY <1>9, <2>1
<1>11. r = Take(u, MaxListed)
  BY DEF Curate, Where, whole, others, rest, hits, spelled, listed, canon, ok
<1> HIDE DEF u, n
<1>12. r \in Seq(Y) /\ n \in Nat /\ Len(r) = (IF MaxListed < n THEN MaxListed ELSE n)
       /\ \A k \in DOMAIN r : k \in DOMAIN u /\ r[k] = u[k]
  <2>1. MaxListed \in Nat
    BY CatalogAssumption
  <2>2. /\ r \in Seq(Y) /\ Len(r) = IF MaxListed < Len(u) THEN MaxListed ELSE Len(u)
        /\ \A k \in 1..Len(r) : k \in 1..Len(u) /\ r[k] = u[k]
    BY <1>10, <1>11, <2>1, TakeHolds
  <2> QED
    BY <1>10, <2>2
<1>13. \A k, l \in DOMAIN r : Lower[r[k]] = Lower[r[l]] => k = l
  BY <1>10, <1>12
<1> QED
  BY <1>1, <1>12, <1>13 DEF n, Y, OfEachSpelling, Spellings

-----------------------------------------------------------------------------
(* The ranking. What is known of a candidate are numbers, if it is known. *)
LEMMA CandidateIs ==
    ASSUME NEW provider, NEW m \in Ids
    PROVE  LET c == Candidate(provider, m)
           IN  /\ c.id = m
               /\ c.cost \in Nat \cup {None} /\ c.age \in Nat \cup {None}
               /\ c.bench \in Nat \cup {None} /\ c.preferred \in Nat \cup {None}
<1>1. Facts[m] \in Fact
  BY CatalogAssumption
<1>2. /\ Facts[m].cost \in Nat \cup {None} /\ Facts[m].age \in Nat \cup {None}
      /\ Facts[m].bench \in Nat \cup {None} /\ Facts[m].preferred \in Nat \cup {None}
  BY <1>1 DEF Fact
<1> QED
  BY <1>2 DEF Candidate

LEMMA Bounded ==
    ASSUME NEW n \in Nat, NEW f \in [1..n -> Nat]
    PROVE  \E b \in Nat : \A i \in 1..n : f[i] <= b
<1> DEFINE S == {k \in 0..n : \E b \in Nat : \A i \in 1..k : f[i] <= b}
<1>1. 0 \in S
  <2>1. 0 \in Nat /\ \A i \in 1..0 : f[i] <= 0
    OBVIOUS
  <2> QED
    BY <2>1
<1>2. ASSUME NEW k \in 1..n, k - 1 \in S PROVE k \in S
  <2>1. PICK b \in Nat : \A i \in 1..(k - 1) : f[i] <= b
    BY <1>2
  <2> DEFINE c == IF f[k] <= b THEN b ELSE f[k]
  <2>2. c \in Nat /\ \A i \in 1..k : f[i] <= c
    <3>1. f[k] \in Nat /\ c \in Nat /\ b <= c /\ f[k] <= c
      OBVIOUS
    <3>2. ASSUME NEW i \in 1..k PROVE f[i] <= c
      <4>1. f[i] \in Nat /\ (i = k \/ i \in 1..(k - 1))
        OBVIOUS
      <4> HIDE DEF c
      <4> QED
        BY <2>1, <3>1, <4>1
    <3> QED
      BY <3>1, <3>2
  <2> HIDE DEF c
  <2> QED
    BY <2>2
<1>3. 0..n \subseteq S
  <2> HIDE DEF S
  <2> QED
    BY <1>1, <1>2, Induct
<1>4. n \in S
  <2> HIDE DEF S
  <2> QED
    BY <1>3
<1> QED
  BY <1>4

LEMMA LargestIs ==
    ASSUME NEW C, NEW cands \in Seq(C), NEW field,
           \A c \in C : c[field] \in Nat \cup {None}
    PROVE  Largest(cands, field) \in Nat
<1> DEFINE n == Len(cands)
           f == [i \in 1..n |-> IF cands[i][field] = None THEN 0 ELSE cands[i][field]]
           T == {1} \cup ({c[field] : c \in ToSet(cands)} \ {None})
<1>1. n \in Nat /\ DOMAIN cands = 1..n /\ \A i \in 1..n : cands[i] \in C
  OBVIOUS
<1> HIDE DEF n
<1>2. f \in [1..n -> Nat]
  BY <1>1
<1>3. PICK b \in Nat : \A i \in 1..n : f[i] <= b
  <2> HIDE DEF f
  <2> QED
    BY <1>1, <1>2, Bounded
<1>4. ASSUME NEW t \in T PROVE t \in Nat /\ t <= b + 1
  <2>1. CASE t = 1
    BY <2>1
  <2>2. CASE t # 1
    <3>1. PICK i \in 1..n : t = cands[i][field] /\ t # None
      BY <1>1, <2>2 DEF ToSet
    <3>2. t \in Nat /\ f[i] = t
      BY <1>1, <3>1
    <3>3. f[i] <= b
      BY <1>3
    <3> QED
      BY <3>2, <3>3
  <2> QED
    BY <2>1, <2>2
<1>5. Max(T) \in T
  <2>1. T # {} /\ b + 1 \in Nat
    OBVIOUS
  <2> HIDE DEF T
  <2>2. T \in SUBSET Nat /\ \A m \in T : m <= b + 1
    BY <1>4
  <2> QED
    BY <2>1, <2>2, MaxIs
<1> QED
  BY <1>4, <1>5 DEF Largest

(* The keys of either order are as many numbers for every candidate. *)
LEMMA OrderIs ==
    ASSUME NEW provider, NEW X \in SUBSET Ids,
           NEW cands \in Seq({Candidate(provider, m) : m \in X}), NEW i \in DOMAIN cands
    PROVE  /\ UtilityOrder(cands, cands[i]) \in [1..4 -> Int]
           /\ CapableOrder(cands, cands[i]) \in [1..7 -> Int]
<1> DEFINE C == {Candidate(provider, m) : m \in X}
<1>1. \A c \in C : /\ c.id \in Ids
                   /\ c["cost"] \in Nat \cup {None} /\ c["age"] \in Nat \cup {None}
                   /\ c.bench \in Nat \cup {None} /\ c.preferred \in Nat \cup {None}
  BY CandidateIs
<1> DEFINE c == cands[i]
           cost == Largest(cands, "cost")
           age == Largest(cands, "age")
<1>2. c \in C
  OBVIOUS
<1> HIDE DEF C
<1>3. cost \in Nat /\ age \in Nat
  BY <1>1, LargestIs DEF C
<1> HIDE DEF c, cost, age
<1>4. /\ Or(c.cost, cost) \in Nat /\ Or(c.age, age) \in Nat /\ Or(c.cost, 0) \in Nat
      /\ Or(c.bench, 0) \in Nat /\ Or(c.preferred, Far) \in Nat
  BY <1>1, <1>2, <1>3 DEF Or, Far
<1>5. /\ Num(~Signal(c)) \in Int /\ Num(~c.small) \in Int /\ Num(c.small) \in Int
      /\ Order[c.id] \in Int /\ -Or(c.bench, 0) \in Int /\ -Or(c.cost, 0) \in Int
  <2>1. Order \in [Ids -> Int] /\ c.id \in Ids
    BY <1>1, <1>2, CatalogAssumption
  <2>2. Order[c.id] \in Int
    BY <2>1
  <2> QED
    BY <1>4, <2>2 DEF Num
<1>6. 8 * Or(c.cost, cost) * age + 2 * Or(c.age, age) * cost \in Int
  BY <1>3, <1>4
<1>7. UtilityOrder(cands, c) \in [1..4 -> Int]
  BY <1>5, <1>6 DEF UtilityOrder, cost, age
<1>8. CapableOrder(cands, c) \in [1..7 -> Int]
  <2> DEFINE k1 == Num(~Signal(c))
             k2 == -Or(c.bench, 0)
             k3 == Or(c.preferred, Far)
             k4 == Num(c.small)
             k5 == Or(c.age, age)
             k6 == -Or(c.cost, 0)
             k7 == Order[c.id]
  <2>1. CapableOrder(cands, c) = <<k1, k2, k3, k4, k5, k6, k7>>
    BY DEF CapableOrder, age
  <2>2. /\ k1 \in Int /\ k2 \in Int /\ k3 \in Int /\ k4 \in Int /\ k5 \in Int
        /\ k6 \in Int /\ k7 \in Int
    BY <1>4, <1>5
  <2> HIDE DEF k1, k2, k3, k4, k5, k6, k7
  <2> QED
    BY <2>1, <2>2
<1> QED
  BY <1>7, <1>8 DEF c

(* The candidates of a group g before a place. *)
GroupBefore(s, i, g) == {s[j] : j \in {j \in 1..(i - 1) : s[j].group = g}}

Few(s) == {i \in DOMAIN s : /\ s[i] \notin GroupBefore(s, i, s[i].group)
                            /\ Cardinality(GroupBefore(s, i, s[i].group)) < MaxPerGroup}

(* A few of each group, the first ones. *)
Spreads(ranked, spread) ==
    /\ \A k, l \in DOMAIN spread : spread[k] = spread[l] => k = l
    /\ \A k \in DOMAIN spread :
          Cardinality(GroupBefore(spread, k, spread[k].group)) < MaxPerGroup
    /\ \A c \in ToSet(ranked) :
          \/ c \in ToSet(spread)
          \/ Cardinality(GroupBefore(spread, Len(spread) + 1, c.group)) >= MaxPerGroup

LEMMA SpreadHolds ==
    ASSUME NEW C, NEW ranked \in Seq(C), NEW spread, spread = Pick(ranked, Few(ranked))
    PROVE  spread \in Seq(ToSet(ranked)) /\ Spreads(ranked, spread)
<1> DEFINE firsts == Few(ranked)
           D == DOMAIN spread
           Within(i, g) == GroupBefore(ranked, i, g)
           Chosen(k, g) == GroupBefore(spread, k, g)
<1>1. /\ DOMAIN ranked = 1..Len(ranked) /\ Len(ranked) \in Nat /\ firsts \in SUBSET DOMAIN ranked
      /\ ranked \in Seq(ToSet(ranked)) /\ IsFiniteSet(ToSet(ranked))
  <2>1. ranked \in Seq(ToSet(ranked))
    BY DEF ToSet
  <2>2. IsFiniteSet(ToSet(ranked))
    BY FinitelyMany
  <2> QED
    BY <2>1, <2>2 DEF Few
<1>0. spread = Pick(ranked, firsts)
  OBVIOUS
<1>5. \A i \in firsts : /\ ranked[i] \notin Within(i, ranked[i].group)
                        /\ Cardinality(Within(i, ranked[i].group)) < MaxPerGroup
  BY DEF Few
<1>12. \A i \in DOMAIN ranked : \/ i \in firsts
                               \/ ranked[i] \in Within(i, ranked[i].group)
                               \/ ~(Cardinality(Within(i, ranked[i].group)) < MaxPerGroup)
  BY DEF Few
<1> HIDE DEF firsts
<1>2. spread \in Seq(ToSet(ranked)) /\ D = 1..Len(spread) /\ Len(spread) \in Nat
  <2>1. spread \in Seq(ToSet(ranked))
    BY <1>0, <1>1, PickIn
  <2> QED
    BY <2>1
<1>3. PICK at \in [D -> firsts] :
         /\ \A k \in D : spread[k] = ranked[at[k]]
         /\ \A i \in firsts : \E k \in D : at[k] = i
         /\ \A k, l \in D : at[k] < at[l] <=> k < l
  <2>1. \E at \in [DOMAIN Pick(ranked, firsts) -> firsts] :
           /\ \A k \in DOMAIN Pick(ranked, firsts) : Pick(ranked, firsts)[k] = ranked[at[k]]
           /\ \A i \in firsts : \E k \in DOMAIN Pick(ranked, firsts) : at[k] = i
           /\ \A k, l \in DOMAIN Pick(ranked, firsts) : at[k] < at[l] <=> k < l
    BY <1>1, PickHolds
  <2> QED
    BY <1>0, <2>1
<1>4. \A k \in D : at[k] \in firsts /\ at[k] \in 1..Len(ranked)
  BY <1>1, <1>3
<1>6. ASSUME NEW i \in 1..(Len(ranked) + 1), NEW g
      PROVE  IsFiniteSet(Within(i, g)) /\ Within(i, g) \subseteq ToSet(ranked)
                                       /\ Cardinality(Within(i, g)) \in Nat
  <2>1. Within(i, g) \subseteq ToSet(ranked)
    BY <1>1 DEF GroupBefore, ToSet
  <2> HIDE DEF Within
  <2>2. IsFiniteSet(Within(i, g))
    BY <1>1, <2>1, FS_Subset
  <2> QED
    BY <2>1, <2>2, FS_CardinalityType
<1>7. ASSUME NEW k \in D, NEW g
      PROVE  Chosen(k, g) \subseteq Within(at[k], g)
  <2> SUFFICES ASSUME NEW j \in 1..(k - 1), spread[j].group = g PROVE spread[j] \in Within(at[k], g)
    BY DEF GroupBefore
  <2>1. j \in D /\ j < k
    BY <1>2
  <2>2. at[j] \in 1..(at[k] - 1) /\ spread[j] = ranked[at[j]]
    BY <1>3, <1>4, <2>1
  <2> QED
    BY <2>2 DEF GroupBefore
<1>8. ASSUME NEW k \in D, NEW l \in D, k < l PROVE spread[k] # spread[l]
  <2>1. at[k] \in 1..(at[l] - 1)
    BY <1>3, <1>4, <1>8
  <2>2. SUFFICES ASSUME ranked[at[k]] = ranked[at[l]] PROVE FALSE
    BY <1>3
  <2>3. ranked[at[l]] \in Within(at[l], ranked[at[l]].group)
    BY <2>1, <2>2 DEF GroupBefore
  <2> QED
    BY <1>4, <1>5, <2>3
<1>9. \A k, l \in D : spread[k] = spread[l] => k = l
  <2> SUFFICES ASSUME NEW k \in D, NEW l \in D, spread[k] = spread[l] PROVE k = l
    OBVIOUS
  <2>1. ~(k < l) /\ ~(l < k)
    BY <1>8
  <2> QED
    BY <1>2, <2>1
<1>10. ASSUME NEW k \in D PROVE Cardinality(Chosen(k, spread[k].group)) < MaxPerGroup
  <2> DEFINE g == spread[k].group
  <2>1. Cardinality(Within(at[k], g)) < MaxPerGroup /\ at[k] \in 1..Len(ranked)
    BY <1>3, <1>4, <1>5
  <2>2. Chosen(k, g) \subseteq Within(at[k], g) /\ IsFiniteSet(Within(at[k], g))
        /\ Cardinality(Within(at[k], g)) \in Nat
    BY <1>1, <1>6, <1>7, <2>1
  <2> HIDE DEF Chosen, Within, g
  <2>3. IsFiniteSet(Chosen(k, g)) /\ Cardinality(Chosen(k, g)) <= Cardinality(Within(at[k], g))
    BY <2>2, FS_Subset
  <2>4. Cardinality(Chosen(k, g)) \in Nat /\ MaxPerGroup \in Nat
    BY <2>3, FS_CardinalityType, CatalogAssumption
  <2>5. Cardinality(Chosen(k, g)) < MaxPerGroup
    BY <2>1, <2>2, <2>3, <2>4
  <2> QED
    BY <2>5 DEF g
<1>11. ASSUME NEW c \in ToSet(ranked), c \notin ToSet(spread)
       PROVE  Cardinality(Chosen(Len(spread) + 1, c.group)) >= MaxPerGroup
  <2> DEFINE g == c.group
             full == {i \in 1..Len(ranked) : Cardinality(Within(i, g)) >= MaxPerGroup}
             Places(d) == {i \in 1..Len(ranked) : ranked[i] = d}
  <2>1. \A i \in firsts : ranked[i] \in ToSet(spread)
    BY <1>3 DEF ToSet
  <2>2. ASSUME NEW d \in ToSet(ranked)
        PROVE  \E i \in Places(d) : \A m \in Places(d) : i <= m
    <3>1. Places(d) \in SUBSET Nat /\ Places(d) # {}
      BY <1>1 DEF ToSet
    <3> HIDE DEF Places
    <3> QED
      BY <3>1, Smallest
  <2>3. ASSUME NEW d \in ToSet(ranked), NEW i \in Places(d), \A m \in Places(d) : i <= m,
               d.group = g, d \notin ToSet(spread)
        PROVE  i \in full
    <3>1. i \in 1..Len(ranked) /\ ranked[i] = d /\ i \in DOMAIN ranked
      BY <1>1
    <3>2. d \notin Within(i, g)
      <4> SUFFICES ASSUME NEW j \in 1..(i - 1), ranked[j] = d PROVE FALSE
        BY DEF GroupBefore
      <4>1. j \in Places(d) /\ j < i
        BY <1>1, <3>1
      <4> QED
        BY <2>3, <3>1, <4>1
    <3>3. ~(Cardinality(Within(i, g)) < MaxPerGroup)
      BY <1>12, <2>1, <2>3, <3>1, <3>2
    <3>4. Cardinality(Within(i, g)) \in Nat /\ MaxPerGroup \in Nat
      BY <1>1, <1>6, <3>1, CatalogAssumption
    <3> QED
      BY <3>1, <3>3, <3>4
  <2>4. full \in SUBSET Nat /\ full # {}
    <3>1. PICK i \in Places(c) : \A m \in Places(c) : i <= m
      BY <2>2
    <3>2. i \in full
      BY <1>11, <2>3, <3>1
    <3>3. full \in SUBSET Nat
      OBVIOUS
    <3> QED
      BY <3>2, <3>3
  <2>5. PICK i \in full : \A m \in full : i <= m
    <3> HIDE DEF full
    <3> QED
      BY <2>4, Smallest
  <2>6. Within(i, g) \subseteq Chosen(Len(spread) + 1, g)
    <3> SUFFICES ASSUME NEW d \in Within(i, g) PROVE d \in Chosen(Len(spread) + 1, g)
      OBVIOUS
    <3>1. PICK j \in 1..(i - 1) : d = ranked[j] /\ d.group = g
      BY DEF GroupBefore
    <3>2. j \in Places(d) /\ j < i /\ i \in 1..Len(ranked) /\ d \in ToSet(ranked)
      BY <1>1, <2>5, <3>1 DEF ToSet
    <3>3. PICK o \in Places(d) : \A m \in Places(d) : o <= m
      BY <2>2, <3>2
    <3>4. o <= j /\ o \in 1..Len(ranked) /\ o \notin full
      <4>1. o <= j /\ o \in 1..Len(ranked)
        BY <3>2, <3>3
      <4>2. ~(i <= o)
        BY <1>1, <3>2, <4>1
      <4> HIDE DEF full
      <4> QED
        BY <2>5, <4>1, <4>2
    <3>5. d \in ToSet(spread)
      <4> HIDE DEF full, Places
      <4> QED
        BY <2>3, <3>1, <3>2, <3>3, <3>4
    <3>6. PICK k \in D : spread[k] = d
      BY <3>5 DEF ToSet
    <3>7. k \in 1..((Len(spread) + 1) - 1)
      BY <1>2
    <3> QED
      BY <3>1, <3>6, <3>7 DEF GroupBefore
  <2>7. IsFiniteSet(Chosen(Len(spread) + 1, g))
    <3>1. Chosen(Len(spread) + 1, g) \subseteq ToSet(spread)
      BY <1>2 DEF GroupBefore, ToSet
    <3>2. IsFiniteSet(ToSet(spread))
      BY <1>2, FinitelyMany
    <3> HIDE DEF Chosen
    <3> QED
      BY <3>1, <3>2, FS_Subset
  <2>8. Cardinality(Within(i, g)) >= MaxPerGroup /\ i \in 1..Len(ranked)
    BY <2>5
  <2> HIDE DEF Chosen, Within, full, g
  <2>9. Cardinality(Within(i, g)) <= Cardinality(Chosen(Len(spread) + 1, g))
    BY <2>6, <2>7, FS_Subset
  <2>10. Cardinality(Within(i, g)) \in Nat /\ Cardinality(Chosen(Len(spread) + 1, g)) \in Nat
         /\ MaxPerGroup \in Nat
    BY <1>1, <1>6, <2>7, <2>8, FS_CardinalityType, CatalogAssumption DEF Within
  <2>11. Cardinality(Chosen(Len(spread) + 1, g)) >= MaxPerGroup
    BY <2>8, <2>9, <2>10
  <2> QED
    BY <2>11 DEF g
<1> QED
  BY <1>2, <1>9, <1>10, <1>11 DEF Spreads

CandidatesOf(provider, ids) == {Candidate(provider, m) : m \in ids}

(* There is one candidate for each id. *)
LEMMA CandidatesCount ==
    ASSUME NEW provider, NEW M \in SUBSET Ids, NEW S, S = CandidatesOf(provider, M),
           IsFiniteSet(S)
    PROVE  IsFiniteSet(M) /\ Cardinality(M) = Cardinality(S)
<1> DEFINE f == [m \in M |-> Candidate(provider, m)]
<1>1. \A m \in M : Candidate(provider, m).id = m
  BY CandidateIs
<1>2. \A m \in M : f[m] = Candidate(provider, m)
  OBVIOUS
<1>3. f \in [M -> S] /\ \A s \in S : \E m \in M : f[m] = s
  BY DEF CandidatesOf
<1> HIDE DEF f
<1>4. \A m, n \in M : f[m] = f[n] => m = n
  BY <1>1, <1>2
<1>5. f \in Injection(M, S) /\ f \in Surjection(M, S)
  BY <1>3, <1>4 DEF Injection, IsInjective, Surjection
<1> QED
  BY <1>5, FS_Injection

(* What comes first stays first, and in its order, when the rest is added,  *)
(* each element once and as many as there are places.                       *)
Fronts(chosen, rec) ==
    \A i \in DOMAIN rec :
        LET before == {rec[j] : j \in 1..(i - 1)}
        IN  \/ \E k \in DOMAIN chosen :
                  rec[i] = chosen[k] /\ before \subseteq {chosen[j] : j \in 1..(k - 1)}
            \/ ToSet(chosen) \subseteq before

LEMMA FrontsHold ==
    ASSUME NEW X, NEW chosen \in Seq(X), NEW rest \in Seq(X), NEW places \in Nat,
           NEW u, u = Unique(chosen \o rest), NEW rec, rec = Take(u, places)
    PROVE  LET all == ToSet(chosen) \cup ToSet(rest)
           IN  /\ rec \in Seq(all) /\ \A i, j \in DOMAIN rec : rec[i] = rec[j] => i = j
               /\ Cardinality(all) \in Nat /\ IsFiniteSet(all)
               /\ Len(rec) = IF places < Cardinality(all) THEN places ELSE Cardinality(all)
               /\ Fronts(chosen, rec)
<1> DEFINE whole == chosen \o rest
           all == ToSet(chosen) \cup ToSet(rest)
<1>1. whole \in Seq(X) /\ ToSet(whole) = all
  BY JoinedSet
<1>2. /\ DOMAIN chosen = 1..Len(chosen) /\ Len(chosen) \in Nat
      /\ \A k \in DOMAIN chosen : k \in DOMAIN whole /\ whole[k] = chosen[k]
      /\ \A k \in DOMAIN whole : k \in Nat /\ k >= 1 /\ (k <= Len(chosen) => k \in DOMAIN chosen)
  OBVIOUS
<1>3. u = Unique(whole)
  OBVIOUS
<1> HIDE DEF whole
<1>4. /\ u \in Seq(X) /\ ToSet(u) = all /\ IsFiniteSet(all) /\ Cardinality(all) = Len(u)
      /\ \A k, l \in DOMAIN u : u[k] = u[l] => k = l
  <2> HIDE DEF all
  <2> QED
    BY <1>1, <1>3, UniqueHolds
<1>5. PICK at : FirstAt(whole, whole, u, at)
  BY <1>1, <1>3, UniqueHolds
<1>6. /\ at \in [DOMAIN u -> DOMAIN whole]
      /\ \A k \in DOMAIN u : u[k] = whole[at[k]]
      /\ \A k, l \in DOMAIN u : at[k] < at[l] <=> k < l
      /\ \A i \in DOMAIN whole : \E k \in DOMAIN u : at[k] <= i /\ u[k] = whole[i]
  BY <1>5 DEF FirstAt
<1> HIDE DEF all
<1>7. /\ rec \in Seq(all) /\ Len(rec) = IF places < Len(u) THEN places ELSE Len(u)
      /\ \A k \in 1..Len(rec) : k \in 1..Len(u) /\ rec[k] = u[k]
  <2>1. u \in Seq(all)
    BY <1>4 DEF ToSet
  <2> QED
    BY <2>1, TakeHolds
<1>8. /\ DOMAIN rec = 1..Len(rec) /\ Len(rec) \in Nat /\ DOMAIN u = 1..Len(u) /\ Len(u) \in Nat
      /\ \A k \in DOMAIN rec : k \in DOMAIN u /\ k \in Nat /\ rec[k] = u[k]
  BY <1>4, <1>7
<1>9. \A i, j \in DOMAIN rec : rec[i] = rec[j] => i = j
  BY <1>4, <1>8
<1>10. ASSUME NEW i \in DOMAIN rec, at[i] <= Len(chosen)
       PROVE  \E k \in DOMAIN chosen :
                  rec[i] = chosen[k] /\ {rec[j] : j \in 1..(i - 1)} \subseteq {chosen[j] : j \in 1..(k - 1)}
  <2>1. at[i] \in DOMAIN chosen /\ rec[i] = chosen[at[i]]
    BY <1>2, <1>6, <1>8, <1>10
  <2>2. ASSUME NEW j \in 1..(i - 1) PROVE rec[j] \in {chosen[l] : l \in 1..(at[i] - 1)}
    <3>1. j \in DOMAIN rec /\ j < i
      BY <1>8
    <3>2. at[j] < at[i] /\ at[j] \in DOMAIN whole /\ rec[j] = whole[at[j]]
      BY <1>6, <1>8, <3>1
    <3>3. at[j] \in DOMAIN chosen /\ at[j] \in 1..(at[i] - 1)
      BY <1>2, <1>10, <2>1, <3>2
    <3> QED
      BY <1>2, <3>2, <3>3
  <2> QED
    BY <2>1, <2>2
<1>11. ASSUME NEW i \in DOMAIN rec, ~(at[i] <= Len(chosen))
       PROVE  ToSet(chosen) \subseteq {rec[j] : j \in 1..(i - 1)}
  <2>1. ASSUME NEW j \in DOMAIN chosen PROVE chosen[j] \in {rec[l] : l \in 1..(i - 1)}
    <3>1. j \in DOMAIN whole /\ whole[j] = chosen[j] /\ j \in 1..Len(chosen)
      BY <1>2
    <3>2. PICK k \in DOMAIN u : at[k] <= j /\ u[k] = whole[j]
      BY <1>6, <3>1
    <3>3. i \in DOMAIN u /\ at[i] \in Nat /\ at[k] \in Nat
      BY <1>2, <1>6, <1>8
    <3>4. at[k] < at[i]
      BY <1>2, <1>11, <3>1, <3>2, <3>3
    <3>5. k < i
      BY <1>6, <3>3, <3>4
    <3>6. k \in 1..(i - 1) /\ k \in DOMAIN rec
      BY <1>8, <3>2, <3>5
    <3> QED
      BY <1>8, <3>1, <3>2, <3>6
  <2> QED
    BY <2>1 DEF ToSet
<1>12. Fronts(chosen, rec)
  BY <1>10, <1>11 DEF Fronts
<1> QED
  BY <1>4, <1>7, <1>8, <1>9, <1>12 DEF all

(* The ids of candidates. *)
IdsOf(provider, chosen, spread) ==
    /\ DOMAIN chosen = DOMAIN spread
    /\ \A k \in DOMAIN spread : spread[k] = Candidate(provider, chosen[k])

LEMMA LeadsHold ==
    ASSUME NEW profile, NEW provider, NEW usable \in SUBSET Ids, IsFiniteSet(usable), NEW ranked,
           ToSet(ranked) = CandidatesOf(provider, Favoured(profile, provider, usable)),
           NEW X, NEW spread \in Seq(X), Spreads(ranked, spread),
           NEW chosen \in Seq(Favoured(profile, provider, usable)), IdsOf(provider, chosen, spread),
           NEW rec, Fronts(chosen, rec)
    PROVE  Leads(profile, provider, rec, usable)
<1> DEFINE good == Favoured(profile, provider, usable)
           Group(m) == {o \in good : Candidate(provider, o).group = Candidate(provider, m).group}
           Before(i) == {rec[j] : j \in 1..(i - 1)}
           Full(m, before) == Cardinality(Group(m) \cap before) >= MaxPerGroup
<1>1. good \subseteq usable /\ IsFiniteSet(good)
  <2>1. good \subseteq usable
    BY DEF Favoured, Admitted
  <2> HIDE DEF good
  <2> QED
    BY <2>1, FS_Subset
<1>2. /\ DOMAIN chosen = 1..Len(spread) /\ DOMAIN spread = 1..Len(spread) /\ Len(spread) \in Nat
      /\ \A k \in 1..Len(spread) :
            chosen[k] \in good /\ spread[k] = Candidate(provider, chosen[k])
  BY DEF IdsOf
<1> HIDE DEF good
<1>3. \A o \in good : Candidate(provider, o).id = o
  BY <1>1, CandidateIs
<1>4. IsFiniteSet(ToSet(spread))
  BY FinitelyMany
<1>5. ASSUME NEW k \in 1..(Len(spread) + 1), NEW g
      PROVE  /\ IsFiniteSet(GroupBefore(spread, k, g))
             /\ Cardinality(GroupBefore(spread, k, g)) \in Nat
  <2>1. GroupBefore(spread, k, g) \subseteq ToSet(spread)
    BY <1>2 DEF GroupBefore, ToSet
  <2>2. IsFiniteSet(GroupBefore(spread, k, g))
    BY <1>4, <2>1, FS_Subset
  <2> QED
    BY <2>2, FS_CardinalityType
<1>6. MaxPerGroup \in Nat
  BY CatalogAssumption
<1>7. ASSUME NEW i \in DOMAIN rec, NEW k \in DOMAIN chosen, rec[i] = chosen[k],
             Before(i) \subseteq {chosen[j] : j \in 1..(k - 1)}
      PROVE  rec[i] \in good /\ ~Full(rec[i], Before(i))
  <2> DEFINE m == rec[i]
             g == spread[k].group
             T == Group(m) \cap Before(i)
             S == {Candidate(provider, o) : o \in T}
             B == GroupBefore(spread, k, g)
  <2>1. m \in good /\ k \in 1..Len(spread) /\ spread[k] = Candidate(provider, m)
    BY <1>2, <1>7
  <2>2. ASSUME NEW o \in T PROVE Candidate(provider, o) \in B
    <3>1. PICK j \in 1..(k - 1) : o = chosen[j]
      BY <1>7
    <3>2. j \in 1..Len(spread)
      BY <1>2, <2>1
    <3>3. Candidate(provider, o).group = g
      BY <2>1
    <3> QED
      BY <1>2, <3>1, <3>2, <3>3 DEF GroupBefore
  <2>3. S \subseteq B /\ T \subseteq Ids
    BY <1>1, <2>2
  <2>4. IsFiniteSet(B) /\ Cardinality(B) \in Nat
    BY <1>2, <1>5, <2>1
  <2>5. Cardinality(B) < MaxPerGroup
    BY <1>2, <2>1 DEF Spreads
  <2>6. S = CandidatesOf(provider, T)
    BY DEF CandidatesOf
  <2> HIDE DEF B, S, T, g, m
  <2>7. IsFiniteSet(S) /\ Cardinality(S) <= Cardinality(B)
    BY <2>3, <2>4, FS_Subset
  <2>8. IsFiniteSet(T) /\ Cardinality(T) = Cardinality(S)
    BY <2>3, <2>6, <2>7, CandidatesCount
  <2>9. Cardinality(S) \in Nat
    BY <2>7, FS_CardinalityType
  <2>10. ~(Cardinality(T) >= MaxPerGroup)
    BY <1>6, <2>4, <2>5, <2>7, <2>8, <2>9
  <2> QED
    BY <2>1, <2>10 DEF T, m
<1>8. ASSUME NEW i \in DOMAIN rec, ToSet(chosen) \subseteq Before(i), NEW m \in good
      PROVE  m \in Before(i) \/ Full(m, Before(i))
  <2> DEFINE g == Candidate(provider, m).group
             B == GroupBefore(spread, Len(spread) + 1, g)
             T == {o \in good : Candidate(provider, o) \in B}
             U == Group(m) \cap Before(i)
  <2>1. \A k \in 1..Len(spread) : chosen[k] \in Before(i)
    BY <1>2, <1>8 DEF ToSet
  <2>2. Candidate(provider, m) \in ToSet(ranked)
    BY DEF good, CandidatesOf
  <2>3. CASE Candidate(provider, m) \in ToSet(spread)
    <3>1. PICK k \in 1..Len(spread) : spread[k] = Candidate(provider, m)
      BY <1>2, <2>3 DEF ToSet
    <3>2. chosen[k] = m
      BY <1>2, <1>3, <3>1
    <3> QED
      BY <2>1, <3>2
  <2>4. CASE Cardinality(B) >= MaxPerGroup
    <3>1. ASSUME NEW c \in B
          PROVE  \E o \in good : c = Candidate(provider, o) /\ o \in Before(i) /\ c.group = g
      <4>1. PICK k \in 1..Len(spread) : c = spread[k] /\ c.group = g
        BY <1>2 DEF GroupBefore
      <4> QED
        BY <1>2, <2>1, <4>1
    <3>2. ASSUME NEW o \in T PROVE o \in U
      <4>1. PICK p \in good : Candidate(provider, o) = Candidate(provider, p) /\ p \in Before(i)
                              /\ Candidate(provider, o).group = g
        BY <3>1
      <4>2. o = p
        BY <1>3, <4>1
      <4> QED
        BY <4>1, <4>2
    <3>3. B = CandidatesOf(provider, T) /\ T \subseteq Ids
      BY <1>1, <3>1 DEF CandidatesOf
    <3>4. IsFiniteSet(B)
      BY <1>2, <1>5
    <3>5. T \subseteq U /\ U \subseteq good
      BY <3>2
    <3> HIDE DEF B, T, U
    <3>6. Cardinality(T) = Cardinality(B)
      BY <3>3, <3>4, CandidatesCount
    <3>7. IsFiniteSet(U)
      BY <1>1, <3>5, FS_Subset
    <3>8. IsFiniteSet(T) /\ Cardinality(T) <= Cardinality(U)
      BY <3>5, <3>7, FS_Subset
    <3>9. Cardinality(T) \in Nat /\ Cardinality(U) \in Nat
      BY <3>7, <3>8, FS_CardinalityType
    <3>10. Cardinality(U) >= MaxPerGroup
      BY <1>6, <2>4, <3>6, <3>8, <3>9
    <3> QED
      BY <3>10 DEF U
  <2> QED
    BY <2>2, <2>3, <2>4 DEF Spreads
<1>9. ASSUME NEW i \in DOMAIN rec
      PROVE  \/ rec[i] \in good /\ ~Full(rec[i], Before(i))
             \/ \A m \in good : m \in Before(i) \/ Full(m, Before(i))
  <2> HIDE DEF Full
  <2>1. \/ \E k \in DOMAIN chosen :
              rec[i] = chosen[k] /\ Before(i) \subseteq {chosen[j] : j \in 1..(k - 1)}
        \/ ToSet(chosen) \subseteq Before(i)
    BY DEF Fronts
  <2> HIDE DEF Before
  <2>2. ASSUME NEW k \in DOMAIN chosen, rec[i] = chosen[k],
               Before(i) \subseteq {chosen[j] : j \in 1..(k - 1)}
        PROVE  rec[i] \in good /\ ~Full(rec[i], Before(i))
    BY <1>7, <2>2
  <2>3. ASSUME ToSet(chosen) \subseteq Before(i)
        PROVE  \A m \in good : m \in Before(i) \/ Full(m, Before(i))
    BY <1>8, <2>3
  <2> QED
    BY <2>1, <2>2, <2>3
<1> QED
  BY <1>9 DEF Leads, good

(* The eligible of a profile, best first. *)
Eligibles(profile, provider, cands) ==
    Where(cands, LAMBDA c : Eligible(provider, c) /\ ~UtilityExcluded(profile, provider, c.id))

LEMMA EligibleHold ==
    ASSUME NEW profile, NEW provider, NEW X \in SUBSET Ids, NEW usable \in Seq(X),
           NEW eligible, eligible = Eligibles(profile, provider, Candidates(provider, usable))
    PROVE  /\ eligible \in Seq(CandidatesOf(provider, X))
           /\ ToSet(eligible) = CandidatesOf(provider, Favoured(profile, provider, ToSet(usable)))
<1> DEFINE C == {Candidate(provider, m) : m \in X}
           cands == Candidates(provider, usable)
           P == {i \in DOMAIN cands : /\ Eligible(provider, cands[i])
                                      /\ ~UtilityExcluded(profile, provider, cands[i].id)}
           good == Favoured(profile, provider, ToSet(usable))
           G == CandidatesOf(provider, good)
<1>1. /\ cands \in Seq(C) /\ DOMAIN cands = DOMAIN usable
      /\ \A i \in DOMAIN usable : cands[i] = Candidate(provider, usable[i])
  BY DEF Candidates
<1>2. \A i \in DOMAIN usable : Candidate(provider, usable[i]).id = usable[i]
  BY CandidateIs
<1>3. eligible = Pick(cands, P) /\ P \in SUBSET DOMAIN cands
  BY DEF Eligibles, Where
<1>4. {cands[i] : i \in P} = G
  <2>1. ASSUME NEW i \in P PROVE cands[i] \in G
    <3>1. usable[i] \in good
      BY <1>1, <1>2 DEF Favoured, Admitted, ToSet
    <3> HIDE DEF good
    <3> QED
      BY <1>1, <3>1 DEF CandidatesOf
  <2>2. ASSUME NEW m \in good PROVE \E i \in P : cands[i] = Candidate(provider, m)
    <3>1. PICK i \in DOMAIN usable : m = usable[i]
      BY DEF Favoured, Admitted, ToSet
    <3>2. i \in P
      BY <1>1, <1>2, <3>1 DEF Favoured, Admitted
    <3> QED
      BY <1>1, <3>1, <3>2
  <2> HIDE DEF P, good
  <2> QED
    BY <2>1, <2>2 DEF CandidatesOf
<1> HIDE DEF C, cands, P, G
<1>5. eligible \in Seq(C)
  BY <1>1, <1>3, PickIn
<1>6. ToSet(Pick(cands, P)) = {cands[i] : i \in P}
  BY <1>1, <1>3, PickSet
<1> QED
  BY <1>3, <1>4, <1>5, <1>6 DEF C, G, CandidatesOf

RankKey(profile, eligible, c) ==
    IF profile = "capable" THEN CapableOrder(eligible, c) ELSE UtilityOrder(eligible, c)

Ranked(profile, eligible) ==
    Sorted(eligible,
           LAMBDA a, b : Precedes(RankKey(profile, eligible, a), RankKey(profile, eligible, b)))

LEMMA RankedHold ==
    ASSUME NEW profile, NEW provider, NEW X \in SUBSET Ids,
           NEW eligible \in Seq(CandidatesOf(provider, X)),
           NEW ranked, ranked = Ranked(profile, eligible)
    PROVE  /\ ranked \in Seq(CandidatesOf(provider, X))
           /\ ToSet(ranked) = ToSet(eligible)
<1> DEFINE C == {Candidate(provider, m) : m \in X}
           Order1(c) == RankKey(profile, eligible, c)
           Before(a, b) == Precedes(RankKey(profile, eligible, a), RankKey(profile, eligible, b))
           R == Leading(eligible, Before)
           w == IF profile = "capable" THEN 7 ELSE 4
           key == [i \in DOMAIN eligible |-> Order1(eligible[i])]
           sorted == Arranged(eligible, DOMAIN eligible, R)
           D == DOMAIN eligible
<1>1. (\A i \in D : key[i] \in [1..w -> Int]) /\ w \in Nat
  BY OrderIs DEF RankKey, CandidatesOf
<1>2. \A i, j \in D :
          <<i, j>> \in R <=> \/ Precedes(key[i], key[j])
                             \/ ~Precedes(key[j], key[i]) /\ i < j
  BY DEF Leading
<1>3. ranked = sorted
  BY DEF Ranked, Sorted
<1> HIDE DEF R, key, w, C
<1>4. Keyed(D, w, key, R)
  BY <1>1, <1>2 DEF Keyed
<1>5. eligible \in Seq(C)
  BY DEF C, CandidatesOf
<1>6. ranked \in Seq(C) /\ ToSet(ranked) = ToSet(eligible)
  <2> HIDE DEF Before
  <2> QED
    BY <1>3, <1>4, <1>5, KeyedIn
<1> QED
  BY <1>6 DEF C, CandidatesOf

(* What a ranked list holds. *)
LEMMA RankHolds ==
    ASSUME NEW profile, NEW provider, NEW X \in SUBSET Ids, NEW usable \in Seq(X),
           NEW fill \in Seq(X), ToSet(fill) = ToSet(usable),
           NEW r, r = RankRecommended(profile, provider, Candidates(provider, usable), fill)
    PROVE  LET offered == Admitted(profile, provider, ToSet(usable))
               n == Cardinality(offered)
           IN  /\ r \in Seq(offered) /\ \A i, j \in DOMAIN r : r[i] = r[j] => i = j
               /\ n \in Nat /\ Len(r) = IF MaxListed < n THEN MaxListed ELSE n
               /\ Leads(profile, provider, r, ToSet(usable))
<1> DEFINE ids == ToSet(usable)
           good == Favoured(profile, provider, ids)
           offered == Admitted(profile, provider, ids)
           eligible == Eligibles(profile, provider, Candidates(provider, usable))
           ranked == Ranked(profile, eligible)
           spread == Pick(ranked, Few(ranked))
           chosen == [i \in DOMAIN spread |-> spread[i].id]
           left == {i \in DOMAIN fill : ~UtilityExcluded(profile, provider, fill[i])}
           rest == Pick(fill, left)
           u == Unique(chosen \o rest)
<1>0. ids = ToSet(usable)
  OBVIOUS
<1>1. r = Take(u, MaxListed)
  BY DEF RankRecommended, Eligibles, Ranked, RankKey, Few, GroupBefore, Where, UniqueIDs
<1>2. ids \in SUBSET Ids /\ usable \in Seq(ids) /\ IsFiniteSet(ids)
  <2>1. IsFiniteSet(ids)
    BY FinitelyMany
  <2> QED
    BY <2>1 DEF ToSet
<1>3. /\ eligible \in Seq(CandidatesOf(provider, ids))
      /\ ToSet(eligible) = CandidatesOf(provider, good)
  <2> HIDE DEF ids, eligible
  <2>1. eligible = Eligibles(profile, provider, Candidates(provider, usable))
    BY DEF eligible
  <2> QED
    BY <1>0, <1>2, <2>1, EligibleHold
<1> HIDE DEF eligible
<1>4. /\ ranked \in Seq(CandidatesOf(provider, ids))
      /\ ToSet(ranked) = CandidatesOf(provider, good)
  <2> HIDE DEF ids, ranked
  <2>1. ranked = Ranked(profile, eligible)
    BY DEF ranked
  <2> QED
    BY <1>2, <1>3, <2>1, RankedHold
<1> HIDE DEF ranked
<1>5. spread \in Seq(ToSet(ranked)) /\ Spreads(ranked, spread)
  <2> HIDE DEF ids, good, spread
  <2>1. spread = Pick(ranked, Few(ranked))
    BY DEF spread
  <2> QED
    BY <1>4, <2>1, SpreadHolds
<1> HIDE DEF spread
<1>6. good \subseteq offered /\ offered \subseteq ids
  BY DEF Favoured, Admitted
<1>7. \A k \in DOMAIN spread : chosen[k] \in good /\ spread[k] = Candidate(provider, chosen[k])
  <2> SUFFICES ASSUME NEW k \in DOMAIN spread
               PROVE  chosen[k] \in good /\ spread[k] = Candidate(provider, chosen[k])
    OBVIOUS
  <2> HIDE DEF good, offered, ids
  <2>1. PICK m \in good : spread[k] = Candidate(provider, m)
    <3>1. spread[k] \in ToSet(ranked)
      BY <1>5
    <3> QED
      BY <1>4, <3>1 DEF CandidatesOf
  <2>2. Candidate(provider, m).id = m
    BY <1>2, <1>6, <2>1, CandidateIs
  <2> QED
    BY <2>1, <2>2
<1> HIDE DEF good, offered, ids
<1>8. chosen \in Seq(good) /\ DOMAIN chosen = DOMAIN spread
  <2>1. DOMAIN spread = 1..Len(spread) /\ Len(spread) \in Nat
    BY <1>5
  <2>2. DOMAIN chosen = DOMAIN spread /\ chosen = [i \in 1..Len(spread) |-> chosen[i]]
    BY <2>1
  <2> HIDE DEF chosen
  <2> QED
    BY <1>7, <2>1, <2>2
<1> HIDE DEF chosen
<1>9. IdsOf(provider, chosen, spread)
  BY <1>7, <1>8 DEF IdsOf
<1>10. rest \in Seq(offered) /\ ToSet(rest) = offered
  <2>1. ToSet(rest) = {fill[i] : i \in left} /\ rest \in Seq({fill[i] : i \in left})
    BY PickSet
  <2>2. {fill[i] : i \in left} = offered
    BY DEF Admitted, ToSet, offered, ids
  <2> QED
    BY <2>1, <2>2
<1> HIDE DEF rest
<1>11. chosen \in Seq(offered) /\ ToSet(chosen) \cup ToSet(rest) = offered
  <2>1. chosen \in Seq(offered)
    BY <1>6, <1>8
  <2>2. ToSet(chosen) \subseteq offered
    BY <2>1 DEF ToSet
  <2> QED
    BY <1>10, <2>1, <2>2
<1>12. u = Unique(chosen \o rest) /\ MaxListed \in Nat
  BY CatalogAssumption
<1> HIDE DEF u
<1>13. LET all == ToSet(chosen) \cup ToSet(rest)
       IN  /\ r \in Seq(all) /\ \A i, j \in DOMAIN r : r[i] = r[j] => i = j
           /\ Cardinality(all) \in Nat /\ IsFiniteSet(all)
           /\ Len(r) = IF MaxListed < Cardinality(all) THEN MaxListed ELSE Cardinality(all)
           /\ Fronts(chosen, r)
  BY <1>1, <1>10, <1>11, <1>12, FrontsHold
<1>14. /\ r \in Seq(offered) /\ \A i, j \in DOMAIN r : r[i] = r[j] => i = j
       /\ Cardinality(offered) \in Nat /\ Fronts(chosen, r)
       /\ Len(r) = IF MaxListed < Cardinality(offered) THEN MaxListed ELSE Cardinality(offered)
  BY <1>11, <1>13
<1>15. Leads(profile, provider, r, ids)
  BY <1>2, <1>4, <1>5, <1>8, <1>9, <1>14, LeadsHold DEF good
<1> QED
  BY <1>14, <1>15 DEF offered, ids

-----------------------------------------------------------------------------
(* Elements that are once each are as many as the sequence is long. *)
LEMMA DistinctCount ==
    ASSUME NEW X, NEW s \in Seq(X), \A k, l \in DOMAIN s : s[k] = s[l] => k = l
    PROVE  Cardinality(ToSet(s)) = Len(s)
<1>1. DOMAIN s = 1..Len(s) /\ Len(s) \in Nat /\ s \in [1..Len(s) -> ToSet(s)]
  BY DEF ToSet
<1>2. \A t \in ToSet(s) : \E k \in 1..Len(s) : s[k] = t
  BY <1>1 DEF ToSet
<1> QED
  BY <1>1, <1>2, Numbered

(* What is recommended of the ids of a listing are some of them, each once, *)
(* as many as there are places: of every spelling one, or in order of rank. *)
Open == {"opencode", "opencode-go", "huggingface"}
Ranks(provider, section) == provider = "kilo" \/ (section /\ provider \in Open)

Recommends(profile, provider, ranks, usable, rec) ==
    LET offered == IF ranks THEN Admitted(profile, provider, usable) ELSE Spellings(usable)
        n == Cardinality(offered)
    IN  /\ rec \in Seq(usable) /\ \A k, l \in DOMAIN rec : rec[k] = rec[l] => k = l
        /\ Len(rec) = IF MaxListed < n THEN MaxListed ELSE n
        /\ ranks => Leads(profile, provider, rec, usable) /\ ToSet(rec) \subseteq offered

LEMMA RanksHold ==
    ASSUME NEW profile, NEW provider \in DOMAIN Static, NEW X \in SUBSET Ids, NEW ids \in Seq(X),
           NEW ranked, NEW rec,
           rec = RankRecommended(profile, provider, Candidates(provider, ids),
                                 Curate(provider, ids, ranked) \o ids)
    PROVE  Recommends(profile, provider, TRUE, ToSet(ids), rec)
<1> DEFINE usable == ToSet(ids)
           curated == Curate(provider, ids, ranked)
           fill == curated \o ids
           offered == Admitted(profile, provider, usable)
<1>1. ids \in Seq(usable) /\ usable \in SUBSET Ids
  BY DEF ToSet
<1>2. curated = Curate(provider, ids, ranked)
  OBVIOUS
<1>3. rec = RankRecommended(profile, provider, Candidates(provider, ids), fill)
  OBVIOUS
<1> HIDE DEF curated
<1>4. curated \in Seq(usable)
  <2> HIDE DEF usable
  <2> QED
    BY <1>1, <1>2, CurateHolds
<1>5. fill \in Seq(usable) /\ ToSet(fill) = usable
  <2>1. ToSet(curated) \subseteq usable /\ ToSet(ids) = usable
    BY <1>4 DEF ToSet
  <2> HIDE DEF usable
  <2>2. ToSet(fill) = ToSet(curated) \cup ToSet(ids) /\ fill \in Seq(usable)
    BY <1>1, <1>4, JoinedSet
  <2> QED
    BY <2>1, <2>2
<1> HIDE DEF fill
<1>6. LET n == Cardinality(Admitted(profile, provider, ToSet(ids)))
      IN  /\ rec \in Seq(Admitted(profile, provider, ToSet(ids)))
          /\ \A i, j \in DOMAIN rec : rec[i] = rec[j] => i = j
          /\ n \in Nat /\ Len(rec) = IF MaxListed < n THEN MaxListed ELSE n
          /\ Leads(profile, provider, rec, ToSet(ids))
  BY <1>1, <1>3, <1>5, RankHolds
<1>7. offered \subseteq usable
  BY DEF Admitted
<1> HIDE DEF usable, offered
<1>8. rec \in Seq(offered)
  BY <1>6 DEF offered, usable
<1>9. rec \in Seq(usable) /\ ToSet(rec) \subseteq offered
  BY <1>7, <1>8 DEF ToSet
<1> QED
  BY <1>6, <1>9 DEF Recommends, offered, usable

LEMMA CuratesHold ==
    ASSUME NEW profile, NEW provider \in DOMAIN Static, NEW X, NEW ids \in Seq(X),
           ToSet(ids) \subseteq Usable[provider],
           NEW ranked, NEW rec, rec = Curate(provider, ids, ranked)
    PROVE  Recommends(profile, provider, FALSE, ToSet(ids), rec)
<1> DEFINE usable == ToSet(ids)
           n == Cardinality(Spellings(usable))
<1>1. ids \in Seq(usable) /\ usable \cap Usable[provider] = usable
  BY DEF ToSet
<1>2. ToSet(ids) = usable
  OBVIOUS
<1> HIDE DEF usable
<1>3. rec \in Seq(usable) /\ OfEachSpelling(ToSet(ids) \cap Usable[provider], rec)
  BY <1>1, CurateHolds
<1>4. ToSet(ids) \cap Usable[provider] = usable
  BY <1>1, <1>2
<1>5. /\ rec \in Seq(usable) /\ n \in Nat /\ Len(rec) = IF MaxListed < n THEN MaxListed ELSE n
      /\ \A i, j \in DOMAIN rec : Lower[rec[i]] = Lower[rec[j]] => i = j
  BY <1>3, <1>4 DEF OfEachSpelling
<1> QED
  BY <1>2, <1>5 DEF Recommends

LEMMA RecommendedHolds ==
    ASSUME NEW profile, NEW provider \in DOMAIN Static, NEW section \in BOOLEAN,
           NEW X \in SUBSET Ids, NEW ids \in Seq(X),
           provider # "kilo" => ToSet(ids) \subseteq Usable[provider],
           NEW rec, rec = Recommended(profile, provider, section, ids)
    PROVE  Recommends(profile, provider, Ranks(provider, section), ToSet(ids), rec)
<1> DEFINE Ranked1(ranked) == RankRecommended(profile, provider, Candidates(provider, ids),
                                              Curate(provider, ids, ranked) \o ids)
           Curated(ranked) == Curate(provider, ids, ranked)
<1>1. ASSUME provider = "kilo" \/ (section /\ provider \in Open)
      PROVE  Ranks(provider, section) = TRUE /\ \E ranked \in BOOLEAN : rec = Ranked1(ranked)
  <2>1. provider = "kilo" => rec = Ranked1(FALSE)
    BY DEF Recommended
  <2>2. section /\ provider \in {"opencode", "opencode-go"} => rec = Ranked1(TRUE)
    BY DEF Recommended, MetadataCurate
  <2>3. section /\ provider = "huggingface" => rec = Ranked1(FALSE)
    BY DEF Recommended, MetadataCurate
  <2>4. Ranks(provider, section) = TRUE
    BY <1>1 DEF Ranks
  <2> HIDE DEF Ranked1
  <2> QED
    BY <1>1, <2>1, <2>2, <2>3, <2>4 DEF Open
<1>2. ASSUME ~(provider = "kilo" \/ (section /\ provider \in Open))
      PROVE  Ranks(provider, section) = FALSE /\ \E ranked \in BOOLEAN : rec = Curated(ranked)
  <2>1. provider \in {"opencode", "opencode-go"} => rec = Curated(TRUE)
    BY <1>2 DEF Recommended, MetadataCurate, Open
  <2>2. provider = "huggingface" => rec = Curated(FALSE)
    BY <1>2 DEF Recommended, MetadataCurate, Open
  <2>3. provider \notin Open => rec = Curated(TRUE)
    BY <1>2 DEF Recommended, Open
  <2>4. Ranks(provider, section) = FALSE
    BY <1>2 DEF Ranks
  <2> HIDE DEF Curated
  <2> QED
    BY <2>1, <2>2, <2>3, <2>4 DEF Open
<1>3. CASE provider = "kilo" \/ (section /\ provider \in Open)
  <2>1. PICK ranked \in BOOLEAN : rec = Ranked1(ranked)
    BY <1>1, <1>3
  <2>2. Recommends(profile, provider, TRUE, ToSet(ids), rec)
    BY <2>1, RanksHold
  <2> QED
    BY <1>1, <1>3, <2>2
<1>4. CASE ~(provider = "kilo" \/ (section /\ provider \in Open))
  <2>1. PICK ranked \in BOOLEAN : rec = Curated(ranked)
    BY <1>2, <1>4
  <2>2. Recommends(profile, provider, FALSE, ToSet(ids), rec)
    BY <1>4, <2>1, CuratesHold
  <2> QED
    BY <1>2, <1>4, <2>2
<1> QED
  BY <1>3, <1>4

LEMMA FetchIn ==
    ASSUME NEW provider, NEW answer \in Answer(provider)
    PROVE  LET ids == FetchUsable(provider, answer).ids
           IN  /\ ids \in Seq(Ids)
               /\ provider # "kilo" => ids \in Seq(Ids \cap Usable[provider])
<1>1. CASE provider \in {"gemini", "claude"}
  <2>1. answer \in Seq(Page)
    BY <1>1 DEF Answer
  <2>2. \A k \in DOMAIN answer : answer[k].ids \in Seq(Ids)
    <3>1. \A k \in DOMAIN answer : answer[k] \in Page
      BY <2>1
    <3>2. \A page \in Page : page.ids \in Seq(Ids)
      BY DEF Page
    <3> QED
      BY <3>1, <3>2
  <2>3. FetchPages(provider, answer).ids \in Seq(Ids \cap Usable[provider])
    BY <2>1, <2>2, FetchPagesIn, CatalogAssumption
  <2> QED
    BY <1>1, <2>3 DEF FetchUsable
<1>2. CASE provider \notin {"gemini", "claude"}
  <2>1. answer.ids \in Seq(Ids)
    BY <1>2 DEF Answer, Listing
  <2>2. FetchData(provider, answer).ids \in Seq(Ids \cap Usable[provider])
    BY <2>1, FilterHolds DEF FetchData, Yield, NoListing
  <2>3. /\ FetchHuggingFace(answer).ids \in Seq(Ids \cap Usable["huggingface"])
        /\ FetchKilo(answer).ids \in Seq(Ids)
    BY <2>1, HuggingFaceIn, KiloIn
  <2> QED
    BY <1>2, <2>2, <2>3 DEF FetchUsable
<1> QED
  BY <1>1, <1>2

(* A catalog, if there is one, is the static one, or what a ChatGPT session *)
(* may use, or what Ollama lists, or recommends ids of a listing.           *)
Fits(profile, provider, chatGPT, section, catalog) ==
    LET rec == catalog.recommended
    IN  /\ rec \in Seq(Ids) /\ catalog.usable \in Seq(Ids) /\ catalog.live \in BOOLEAN
        /\ chatGPT => /\ catalog.live /\ catalog.usable = rec
                      /\ \A k, l \in DOMAIN rec : rec[k] = rec[l] => k = l
        /\ ~catalog.live => rec = Static[provider] /\ catalog.usable = Static[provider]
        /\ catalog.live /\ provider = "ollama" => rec = Take(catalog.usable, MaxListed)
        /\ catalog.live /\ ~chatGPT /\ provider # "ollama" =>
              Recommends(profile, provider, Ranks(provider, section), ToSet(catalog.usable), rec)

LEMMA ListingFits ==
    ASSUME NEW profile, NEW provider \in DOMAIN Static, NEW section \in BOOLEAN,
           NEW answer \in Answer(provider), provider # "ollama",
           NEW catalog, catalog = ModelCatalogFor(profile, provider, answer, section)
    PROVE  Fits(profile, provider, FALSE, section, catalog)
<1> DEFINE fetched == FetchUsable(provider, answer)
           ids == UniqueIDs(fetched.ids)
           rec == Recommended(profile, provider, section, ids)
<1>1. catalog = CatalogFrom(provider, fetched, rec)
  BY DEF ModelCatalogFor
<1>2. fetched.ids \in Seq(Ids) /\ (provider # "kilo" => fetched.ids \in Seq(Ids \cap Usable[provider]))
  BY FetchIn
<1> HIDE DEF fetched
<1>3. ids = Unique(fetched.ids)
  BY DEF UniqueIDs
<1>4. rec = Recommended(profile, provider, section, ids)
  OBVIOUS
<1> HIDE DEF ids, rec
<1>5. ids \in Seq(Ids) /\ ToSet(ids) \subseteq Ids
  <2>1. ids \in Seq(Ids)
    BY <1>2, <1>3, UniqueHolds
  <2> QED
    BY <2>1 DEF ToSet
<1>6. provider # "kilo" => ToSet(ids) \subseteq Usable[provider]
  <2>1. provider # "kilo" => ids \in Seq(Ids \cap Usable[provider])
    BY <1>2, <1>3, UniqueHolds
  <2> QED
    BY <2>1 DEF ToSet
<1>7. Recommends(profile, provider, Ranks(provider, section), ToSet(ids), rec)
  BY <1>4, <1>5, <1>6, RecommendedHolds
<1>8. rec \in Seq(Ids)
  <2>1. rec \in Seq(ToSet(ids))
    BY <1>7 DEF Recommends
  <2> QED
    BY <1>5, <2>1
<1>9. Static[provider] \in Seq(Ids)
  BY CatalogAssumption
<1>10. \/ catalog = Catalog(rec, ids, TRUE, FALSE)
       \/ \E err \in {TRUE, FALSE, fetched.failed} : catalog = StaticCatalog(provider, err)
  BY <1>1, <1>3 DEF CatalogFrom, UniqueIDs
<1>11. CASE catalog = Catalog(rec, ids, TRUE, FALSE)
  BY <1>5, <1>7, <1>8, <1>11 DEF Fits, Catalog
<1>12. CASE \E err \in {TRUE, FALSE, fetched.failed} : catalog = StaticCatalog(provider, err)
  BY <1>9, <1>12 DEF Fits, Catalog, StaticCatalog
<1> QED
  BY <1>10, <1>11, <1>12

(* Whatever a provider lists, and whether or not it can be read: there is   *)
(* no catalog, or one that fits the listing (ListModelCatalogWithSource     *)
(* over modelCatalogFor, catalogFrom and listChatGPTModels).                *)
THEOREM CatalogHolds ==
    ASSUME NEW profile, NEW provider \in DOMAIN Static, NEW chatGPT \in BOOLEAN,
           NEW token \in BOOLEAN, NEW answer, token => answer \in Answer(provider), NEW section \in BOOLEAN,
           chatGPT => provider = "openai", NEW catalog,
           catalog = ListModelCatalog(profile, provider, chatGPT, token, answer, section),
           catalog # NoCatalog
    PROVE  Fits(profile, provider, chatGPT, section, catalog)
<1>1. token /\ answer \in Answer(provider)
  BY DEF ListModelCatalog
<1>2. CASE chatGPT
  <2>1. catalog = ListChatGPT(answer) /\ provider = "openai" /\ chatGPT = TRUE
    BY <1>1, <1>2 DEF ListModelCatalog
  <2>2. answer.ids \in Seq(Ids)
    BY <1>1, <2>1 DEF Answer, Listing
  <2>3. /\ catalog.recommended \in Seq(Ids) /\ catalog.usable = catalog.recommended
        /\ catalog.live = TRUE
        /\ LET rec == catalog.recommended
           IN  \A k, l \in DOMAIN rec : rec[k] = rec[l] => k = l
    BY <2>1, <2>2, ChatGPTIn
  <2> QED
    BY <2>1, <2>3 DEF Fits
<1>3. CASE ~chatGPT /\ provider = "ollama"
  <2>1. catalog = OllamaCatalog(answer) /\ chatGPT = FALSE
    BY <1>1, <1>3 DEF ListModelCatalog, ModelCatalogFor
  <2>2. answer.ids \in Seq(Ids)
    BY <1>1, <1>3 DEF Answer, Listing
  <2>3. Take(answer.ids, MaxListed) \in Seq(Ids)
    BY <2>2, TakeHolds, CatalogAssumption
  <2>4. /\ catalog.recommended = Take(answer.ids, MaxListed) /\ catalog.usable = answer.ids
        /\ catalog.live = TRUE
    BY <2>1 DEF OllamaCatalog, Catalog
  <2> QED
    BY <1>3, <2>1, <2>2, <2>3, <2>4 DEF Fits
<1>4. CASE ~chatGPT /\ provider # "ollama"
  <2>1. catalog = ModelCatalogFor(profile, provider, answer, section) /\ chatGPT = FALSE
    BY <1>1, <1>4 DEF ListModelCatalog
  <2>2. Fits(profile, provider, FALSE, section, catalog)
    BY <1>1, <1>4, <2>1, ListingFits
  <2> QED
    BY <2>1, <2>2
<1> QED
  BY <1>2, <1>3, <1>4

-----------------------------------------------------------------------------
(* Probes. What is picked depends on what is picked from only where it is.  *)
LEMMA PositionsIn ==
    ASSUME NEW n \in Nat, NEW P \in SUBSET (1..n)
    PROVE  InOrder(P, Smaller(P)) \in [1..Cardinality(P) -> P]
<1> DEFINE R == Smaller(P)
<1>1. IsFiniteSet(P) /\ Orders(P, R)
  BY SmallerOrders
<1> HIDE DEF R
<1>2. InOrder(P, R) \in [1..Cardinality(P) -> P]
  BY <1>1, InOrderFits
<1> QED
  BY <1>2 DEF R

LEMMA PickSame ==
    ASSUME NEW X, NEW s \in Seq(X), NEW t \in Seq(X),
           NEW P \in SUBSET DOMAIN s, P \subseteq DOMAIN t, \A i \in P : s[i] = t[i]
    PROVE  Pick(s, P) = Pick(t, P)
<1> DEFINE order == InOrder(P, Smaller(P))
           n == Cardinality(P)
<1>1. DOMAIN s = 1..Len(s) /\ Len(s) \in Nat
  OBVIOUS
<1>2. order \in [1..n -> P]
  BY <1>1, PositionsIn
<1>3. Pick(s, P) = [k \in 1..n |-> s[order[k]]] /\ Pick(t, P) = [k \in 1..n |-> t[order[k]]]
  BY DEF Pick, Arranged
<1> HIDE DEF order, n
<1> QED
  BY <1>2, <1>3

LEMMA PickAll ==
    ASSUME NEW X, NEW s \in Seq(X)
    PROVE  Pick(s, DOMAIN s) = s
<1> DEFINE P == DOMAIN s
           R == Smaller(P)
           order == InOrder(P, R)
           n == Len(s)
<1>1. P = 1..n /\ n \in Nat /\ s = [k \in 1..n |-> s[k]]
  OBVIOUS
<1>2. Cardinality(P) = n
  <2>1. n \in Nat /\ P = 1..n
    BY <1>1
  <2>2. ASSUME NEW k \in Nat PROVE Cardinality(1..k) = k
    BY FS_Interval
  <2> HIDE DEF P, n
  <2> QED
    BY <2>1, <2>2
<1>3. ASSUME NEW i \in P PROVE Cardinality({j \in P : <<j, i>> \in R}) = i - 1
  <2>1. {j \in P : <<j, i>> \in R} = 1..(i - 1)
    <3> HIDE DEF P, n
    <3> QED
      BY <1>1 DEF Smaller
  <2>2. i - 1 \in Nat
    BY <1>1
  <2>3. Cardinality(1..(i - 1)) = i - 1
    BY <2>2, FS_Interval
  <2> QED
    BY <2>1, <2>3
<1>4. \A k \in 1..n : order[k] = k
  <2> SUFFICES ASSUME NEW k \in 1..n PROVE order[k] = k
    OBVIOUS
  <2>1. order[k] = CHOOSE i \in P : Cardinality({j \in P : <<j, i>> \in R}) = k - 1
    BY <1>2 DEF InOrder
  <2>2. k \in P /\ Cardinality({j \in P : <<j, k>> \in R}) = k - 1
    BY <1>1, <1>3
  <2>3. \A i \in P : Cardinality({j \in P : <<j, i>> \in R}) = k - 1 => i = k
    <3> SUFFICES ASSUME NEW i \in P, Cardinality({j \in P : <<j, i>> \in R}) = k - 1 PROVE i = k
      OBVIOUS
    <3>1. i - 1 = k - 1 /\ i \in Nat
      BY <1>1, <1>3
    <3> QED
      BY <3>1
  <2> HIDE DEF P, R, order, n
  <2> QED
    BY <2>1, <2>2, <2>3
<1>5. Pick(s, P) = [k \in 1..n |-> s[order[k]]]
  BY <1>2 DEF Pick, Arranged
<1> HIDE DEF order, n
<1> QED
  BY <1>1, <1>4, <1>5

Took(s, P, u) ==
    /\ \A i \in P : s[i] \in ToSet(u)
    /\ \A x \in ToSet(u) : \E i \in P : x = s[i]

LEMMA PickedAre ==
    ASSUME NEW X, NEW s \in Seq(X), NEW P \in SUBSET DOMAIN s
    PROVE  Took(s, P, Pick(s, P))
<1>1. ToSet(Pick(s, P)) = {s[i] : i \in P}
  BY PickSet
<1> QED
  BY <1>1 DEF Took

(* What is picked from the start of a sequence is what the sequence has of  *)
(* it, when nothing is in it twice or the start is all of it.               *)
Had(s, u) == Pick(s, {i \in DOMAIN s : s[i] \in ToSet(u)})

LEMMA PickedKept ==
    ASSUME NEW X, NEW s \in Seq(X), NEW t \in Seq(X), NEW m \in Nat, NEW n \in Nat,
           DOMAIN t = 1..m, DOMAIN s = 1..n, m <= n, \A k \in 1..m : t[k] = s[k],
           \/ \A k, l \in 1..n : s[k] = s[l] => k = l
           \/ n = m,
           NEW P \in SUBSET (1..m), \A i \in P, j \in 1..m : t[i] = t[j] => j \in P,
           NEW u, u = Pick(t, P)
    PROVE  u = Had(s, u)
<1> DEFINE Q == {i \in DOMAIN s : s[i] \in ToSet(u)}
<1>1. /\ \A i \in P : t[i] \in ToSet(u)
      /\ \A x \in ToSet(u) : \E i \in P : x = t[i]
  <2>1. P \in SUBSET DOMAIN t
    OBVIOUS
  <2>2. Took(t, P, Pick(t, P))
    BY ONLY <2>1, t \in Seq(X), PickedAre
  <2>3. Took(t, P, u)
    BY <2>2
  <2> QED
    BY <2>3 DEF Took
<1>2. \A i \in 1..m : i \in 1..n
  OBVIOUS
<1>3. \A i \in P : i \in 1..m /\ i \in 1..n /\ t[i] = s[i]
  BY <1>2
<1>4. \A i \in Q : i \in P
  <2> SUFFICES ASSUME NEW i \in 1..n, s[i] \in ToSet(u) PROVE i \in P
    OBVIOUS
  <2>1. PICK j \in P : s[i] = t[j]
    BY <1>1
  <2>2. j \in 1..m /\ j \in 1..n /\ t[j] = s[j]
    BY <1>3
  <2>3. CASE n = m
    <3>1. i \in 1..m /\ t[i] = s[i]
      BY <2>3
    <3> QED
      BY <2>1, <3>1
  <2>4. CASE \A k, l \in 1..n : s[k] = s[l] => k = l
    <3>1. i = j
      BY <2>1, <2>2, <2>4
    <3> QED
      BY <3>1
  <2> QED
    BY <2>3, <2>4
<1>5. \A i \in P : i \in Q
  BY <1>1, <1>3
<1>6. Q = P
  <2> HIDE DEF Q
  <2>1. Q \subseteq P
    BY <1>4
  <2> QED
    BY <1>5, <2>1
<1> HIDE DEF Q
<1>7. Pick(t, P) = Pick(s, P)
  <2>1. P \in SUBSET DOMAIN t /\ P \subseteq DOMAIN s
    BY <1>3
  <2> QED
    BY <1>3, <2>1, PickSame
<1>8. u = Pick(s, Q)
  BY <1>6, <1>7
<1> QED
  BY <1>8 DEF Had, Q

Passed(s, keys) == Pick(s, {i \in DOMAIN s : Lower[s[i]] \in keys})

LEMMA ProbedHolds ==
    ASSUME NEW X, NEW listed \in Seq(X),
           \/ \A k, l \in DOMAIN listed : listed[k] = listed[l] => k = l
           \/ Len(listed) <= MaxListed,
           NEW H, NEW ok, ok = Passed(Take(listed, MaxListed), H)
    PROVE  ok = Had(listed, ok)
<1> DEFINE tried == Take(listed, MaxListed)
           P == {i \in DOMAIN tried : Lower[tried[i]] \in H}
           m == Len(tried)
           n == Len(listed)
<1>1. /\ tried \in Seq(X) /\ Len(tried) = IF MaxListed < Len(listed) THEN MaxListed ELSE Len(listed)
      /\ \A k \in 1..Len(tried) : k \in 1..Len(listed) /\ tried[k] = listed[k]
  BY TakeHolds, CatalogAssumption
<1>2. PICK u : u = ok /\ u = Pick(tried, P)
  BY DEF Passed
<1>3. Len(listed) \in Nat /\ DOMAIN listed = 1..Len(listed)
  OBVIOUS
<1> HIDE DEF tried
<1>4. Len(tried) \in Nat /\ DOMAIN tried = 1..Len(tried)
  BY <1>1
<1>5. /\ P \in SUBSET (1..m)
      /\ \A i \in P, j \in 1..m : tried[i] = tried[j] => j \in P
  BY <1>4
<1> HIDE DEF P
<1>6. /\ m <= n
      /\ n <= MaxListed => n = m
  <2>1. MaxListed \in Nat
    BY CatalogAssumption
  <2>2. m = IF MaxListed < n THEN MaxListed ELSE n
    BY <1>1
  <2>3. n \in Nat
    BY <1>3
  <2> HIDE DEF m, n
  <2> QED
    BY ONLY <2>1, <2>2, <2>3
<1>7. (\A k, l \in 1..n : listed[k] = listed[l] => k = l) \/ n = m
  BY <1>3, <1>6
<1>8. \A k \in 1..m : tried[k] = listed[k]
  BY <1>1
<1>9. m \in Nat /\ n \in Nat /\ DOMAIN tried = 1..m /\ DOMAIN listed = 1..n
  BY <1>3, <1>4
<1> HIDE DEF m, n
<1>10. tried \in Seq(X)
  BY <1>1
<1>11. u = Had(listed, u)
  BY <1>2, <1>5, <1>6, <1>7, <1>8, <1>9, <1>10, PickedKept
<1> QED
  BY <1>2, <1>11
=============================================================================
