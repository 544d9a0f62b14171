------------------------ MODULE CapacityHistoryProofs ------------------------
(***************************************************************************)
(* What capacity_engine promises of a forecast, for any samples, policies  *)
(* and thresholds.  Each step makes the forecast again from all samples,   *)
(* so the invariant only says that the result is theirs (HistoryInv); the  *)
(* work is in what the engine makes of a list.  The parts are              *)
(*   - finite sets, the order a count of predecessors gives, and sums;     *)
(*   - the samples of a forecast and their days, as functions of the set   *)
(*     of the accepted samples (SegmentIs, PointsAre);                     *)
(*   - what is predicted, the epochs, the thresholds, which rest on the    *)
(*     inequality of Cauchy and Schwarz for the fit (SumOfSquares), and    *)
(*     the order of the file, where a change of places renames samples     *)
(*     without changing their order in time (Rearranged, Renames).         *)
(***************************************************************************)
EXTENDS CapacityHistory, FiniteSetTheorems, TLAPS

-----------------------------------------------------------------------------
(* Finite sets and their order.  Induction is by a smallest counterexample. *)

(* A set of numbers has a least one. *)
LEMMA LeastNat ==
    ASSUME NEW T \in SUBSET Nat, T # {}
    PROVE  \E n \in T : \A m \in T : n <= m
<1> DEFINE R == {ss \in Nat \X Nat : ss[1] < ss[2]}
<1>1. IsWellFoundedOn(R, Nat)
  BY NatLessThanWellFounded DEF OpToRel
<1>2. \A m, n \in Nat : m < n => <<m, n>> \in R
  OBVIOUS
<1> HIDE DEF R
<1>3. PICK n \in T : \A m \in T : ~(<<m, n>> \in R)
  BY <1>1, WFMin
<1>4. ASSUME NEW m \in T PROVE n <= m
  <2>1. ~(m < n)
    BY <1>2, <1>3
  <2>2. QED
    BY <2>1
<1>5. QED
  BY <1>4

(* A set of finite sets has one none of whose proper subsets is in it. *)
LEMMA SmallestSet ==
    ASSUME NEW F, F # {}, \A s \in F : IsFiniteSet(s)
    PROVE  \E s \in F : \A x \in s : \A r \in SUBSET s : x \notin r => r \notin F
<1> DEFINE C == {Cardinality(s) : s \in F}
<1>1. C \in SUBSET Nat /\ C # {}
  BY FS_CardinalityType
<1>2. PICK c \in C : \A d \in C : c <= d
  <2> HIDE DEF C
  <2>1. QED
    BY <1>1, LeastNat
<1>3. PICK s \in F : Cardinality(s) = c
  OBVIOUS
<1>4. ASSUME NEW x \in s, NEW r \in SUBSET s, x \notin r, r \in F
      PROVE  FALSE
  <2>1. Cardinality(r) <= Cardinality(s) /\ (Cardinality(r) = Cardinality(s) => r = s)
    BY <1>3, FS_Subset
  <2>2. Cardinality(r) \in Nat /\ Cardinality(s) \in Nat
    BY <1>4, FS_CardinalityType
  <2>3. Cardinality(s) <= Cardinality(r)
    BY <1>2, <1>3, <1>4
  <2>4. QED
    BY <1>4, <2>1, <2>2, <2>3
<1>5. QED
  BY <1>3, <1>4

LEMMA ImageFinite ==
    ASSUME NEW S, IsFiniteSet(S), NEW g, DOMAIN g = S
    PROVE  LET T == {g[x] : x \in S} IN IsFiniteSet(T) /\ Cardinality(T) <= Cardinality(S)
  <1> DEFINE T == {g[x] : x \in S}
             h == [x \in S |-> g[x]]
  <1>1. h \in Surjection(S, T)
    BY DEF Surjection
  <1> HIDE DEF T, h
  <1> QED
    BY <1>1, FS_Surjection DEF T

\* The least of some numbers.
LEMMA MinIs ==
    ASSUME NEW S \in SUBSET Int, NEW x \in S, \A y \in S : x <= y
    PROVE  Min(S) = x
  <1>1. \A y \in S : (\A z \in S : y <= z) => y = x
    OBVIOUS
  <1> QED
    BY <1>1 DEF Min

LEMMA MaxIs ==
    ASSUME NEW S \in SUBSET Int, NEW x \in S, \A y \in S : y <= x
    PROVE  Max(S) = x
  <1>1. \A y \in S : (\A z \in S : y >= z) => y = x
    OBVIOUS
  <1> QED
    BY <1>1 DEF Max

\* What comes before x in the order R.
BeforeIn(S, R, x) == {y \in S : <<y, x>> \in R}

\* In a finite set the numbers of members before each are 0, 1, ... without gaps.
LEMMA RankingIs ==
    ASSUME NEW S, IsFiniteSet(S), NEW R,
           \A x \in S : <<x, x>> \notin R,
           \A x, y, z \in S : <<x, y>> \in R /\ <<y, z>> \in R => <<x, z>> \in R,
           \A x, y \in S : x = y \/ <<x, y>> \in R \/ <<y, x>> \in R
    PROVE  /\ Cardinality(S) \in Nat
           /\ \A x, y \in S : <<x, y>> \in R
                    <=> Cardinality(BeforeIn(S, R, x)) < Cardinality(BeforeIn(S, R, y))
           /\ \A x, y \in S :
                    Cardinality(BeforeIn(S, R, x)) = Cardinality(BeforeIn(S, R, y)) => x = y
           /\ \A x \in S : Cardinality(BeforeIn(S, R, x)) \in 0..(Cardinality(S) - 1)
           /\ \A k \in 0..(Cardinality(S) - 1) :
                    \E x \in S : Cardinality(BeforeIn(S, R, x)) = k
  <1> DEFINE B(x) == BeforeIn(S, R, x)
             P(x) == Cardinality(B(x))
             c == Cardinality(S)
             g == [x \in S |-> P(x)]
  <1>1. IsFiniteSet(S) /\ c \in Nat
    BY FS_CardinalityType
  <1>2. ASSUME NEW x \in S
        PROVE  IsFiniteSet(B(x)) /\ P(x) \in Int /\ P(x) \in 0..(c - 1)
    <2>1. B(x) \in SUBSET S /\ x \notin B(x)
      BY DEF BeforeIn
    <2> HIDE DEF B
    <2>2. IsFiniteSet(B(x)) /\ P(x) <= c /\ P(x) # c
      BY <1>1, <2>1, FS_Subset
    <2>3. P(x) \in Nat
      BY <2>2, FS_CardinalityType
    <2> HIDE DEF P
    <2> QED
      BY <1>1, <2>2, <2>3
  <1>3. ASSUME NEW x \in S, NEW y \in S, <<x, y>> \in R
        PROVE  P(x) < P(y)
    <2>1. B(x) \in SUBSET B(y) /\ x \in B(y) /\ x \notin B(x)
      BY <1>3 DEF BeforeIn
    <2> HIDE DEF B
    <2>2. P(x) <= P(y) /\ P(x) # P(y)
      BY <1>2, <2>1, FS_Subset
    <2>3. P(x) \in Int /\ P(y) \in Int
      BY <1>2
    <2> QED
      BY <2>2, <2>3
  <1>4. \A x \in S : P(x) \in Int
    BY <1>2
  <1> HIDE DEF P
  <1>5. ASSUME NEW x \in S, NEW y \in S, P(x) = P(y)
        PROVE  x = y
    <2>1. ~(P(x) < P(y)) /\ ~(P(y) < P(x))
      BY <1>4, <1>5
    <2> QED
      BY <1>3, <2>1
  <1>6. ASSUME NEW x \in S, NEW y \in S
        PROVE  <<x, y>> \in R <=> P(x) < P(y)
    <2>1. CASE <<x, y>> \in R
      BY <1>3, <2>1
    <2>2. CASE x = y
      <3>1. ~(P(x) < P(y))
        BY <1>4, <2>2
      <3> QED
        BY <2>2, <3>1
    <2>3. CASE <<y, x>> \in R
      <3>1. P(y) < P(x) /\ ~(P(x) < P(y))
        BY <1>3, <1>4, <2>3
      <3> QED
        BY <1>3, <3>1
    <2> QED
      BY <2>1, <2>2, <2>3
  <1>7. g \in Injection(S, 0..(c - 1))
    <2>1. \A x \in S : P(x) \in 0..(c - 1)
      BY <1>2
    <2> HIDE DEF c
    <2>2. g \in [S -> 0..(c - 1)]
      BY <2>1
    <2>3. \A x, y \in S : g[x] = g[y] => x = y
      BY <1>5
    <2> HIDE DEF g
    <2> QED
      BY <2>2, <2>3 DEF Injection, IsInjective
  <1>8. g \in Surjection(S, 0..(c - 1))
    <2>1. c \in Nat /\ 0 \in Int /\ c - 1 \in Int
      BY <1>1
    <2> HIDE DEF c, g
    <2>2. IsFiniteSet(0..(c - 1)) /\ Cardinality(0..(c - 1)) = c
      BY <2>1, FS_Interval
    <2> QED
      BY <1>1, <1>7, <2>2, FS_Injection DEF c
  <1>9. \A k \in 0..(c - 1) : \E x \in S : P(x) = k
    BY <1>8 DEF Surjection
  <1>10. \A x \in S : P(x) \in 0..(c - 1)
    BY <1>2
  <1> QED
    BY <1>1, <1>5, <1>6, <1>9, <1>10 DEF P

-----------------------------------------------------------------------------
(* A set as a list *)

\* Samples that have a time and a place of their own in the file.
Listable(S) ==
    /\ IsFiniteSet(S)
    /\ \A s \in S : s.at \in Int /\ s.index \in Int
    /\ \A s, t \in S : s.index = t.index => s = t

Place(S, s) == Cardinality({t \in S : Sooner(t, s)})

\* The places in the order of time are 0, 1, ... without gaps.
LEMMA Places ==
    ASSUME NEW S, Listable(S)
    PROVE  /\ Cardinality(S) \in Nat
           /\ \A s, t \in S : Sooner(s, t) <=> Place(S, s) < Place(S, t)
           /\ \A s, t \in S : Place(S, s) = Place(S, t) => s = t
           /\ \A s \in S : Place(S, s) \in 0..(Cardinality(S) - 1)
           /\ \A k \in 0..(Cardinality(S) - 1) : \E s \in S : Place(S, s) = k
  <1> DEFINE R == {p \in S \X S : Sooner(p[1], p[2])}
  <1>1. \A x, y \in S : <<x, y>> \in R <=> Sooner(x, y)
    OBVIOUS
  <1> HIDE DEF R
  <1>2. /\ IsFiniteSet(S)
        /\ \A x \in S : <<x, x>> \notin R
        /\ \A x, y, z \in S : <<x, y>> \in R /\ <<y, z>> \in R => <<x, z>> \in R
        /\ \A x, y \in S : x = y \/ <<x, y>> \in R \/ <<y, x>> \in R
    BY <1>1 DEF Listable, Sooner
  <1>3. \A x \in S : Place(S, x) = Cardinality(BeforeIn(S, R, x))
    <2>1. \A x \in S : {t \in S : Sooner(t, x)} = BeforeIn(S, R, x)
      BY <1>1 DEF BeforeIn
    <2> QED
      BY <2>1 DEF Place
  <1> DEFINE Q(x) == Cardinality(BeforeIn(S, R, x))
  <1>4. /\ Cardinality(S) \in Nat
        /\ \A x, y \in S : <<x, y>> \in R <=> Q(x) < Q(y)
        /\ \A x, y \in S : Q(x) = Q(y) => x = y
        /\ \A x \in S : Q(x) \in 0..(Cardinality(S) - 1)
        /\ \A k \in 0..(Cardinality(S) - 1) : \E x \in S : Q(x) = k
    BY <1>2, RankingIs
  <1>5. \A x \in S : Place(S, x) = Q(x)
    BY <1>3
  <1> HIDE DEF Q
  <1> QED
    BY <1>1, <1>4, <1>5

\* The list has every sample of the set once, in the order of time.
LEMMA InOrderIs ==
    ASSUME NEW S, Listable(S)
    PROVE  LET c == Cardinality(S)
               L == InOrder(S)
           IN  /\ c \in Nat /\ L \in [1..c -> S] /\ Len(L) = c
               /\ ToSet(L) = S
               /\ \A m, n \in 1..c : m < n <=> Sooner(L[m], L[n])
               /\ \A n \in 1..c : Place(S, L[n]) = n - 1
               /\ \A s \in S : Place(S, s) + 1 \in 1..c /\ L[Place(S, s) + 1] = s
  <1> DEFINE c == Cardinality(S)
             At_(n) == CHOOSE s \in S : Place(S, s) = n - 1
             L == InOrder(S)
  <1>1. c \in Nat
    BY Places
  <1>2. L = [n \in 1..c |-> At_(n)]
    BY DEF InOrder, Place
  <1>3. ASSUME NEW n \in 1..c
        PROVE  At_(n) \in S /\ Place(S, At_(n)) = n - 1
    <2>1. \E s \in S : Place(S, s) = n - 1
      BY <1>1, Places
    <2> QED
      BY <2>1
  <1> HIDE DEF At_, L, c
  <1>4. L \in [1..c -> S] /\ \A n \in 1..c : Place(S, L[n]) = n - 1
    BY <1>2, <1>3
  <1>5. Len(L) = c
    BY <1>1, <1>4
  <1>6. ASSUME NEW s \in S
        PROVE  Place(S, s) + 1 \in 1..c /\ L[Place(S, s) + 1] = s
    <2> DEFINE n == Place(S, s) + 1
    <2>1. n \in 1..c /\ n - 1 = Place(S, s)
      BY <1>1, Places DEF c
    <2> HIDE DEF n
    <2>2. L[n] = s
      BY <1>4, <2>1, Places
    <2> QED
      BY <2>1, <2>2 DEF n
  <1>7. ToSet(L) = S
    BY <1>4, <1>6 DEF ToSet
  <1>8. \A m, n \in 1..c : m < n <=> Sooner(L[m], L[n])
    BY <1>1, <1>4, Places
  <1> QED
    BY <1>1, <1>4, <1>5, <1>6, <1>7, <1>8 DEF L, c

LEMMA SubsetListable ==
    ASSUME NEW S, Listable(S), NEW T \in SUBSET S
    PROVE  Listable(T)
  BY FS_Subset DEF Listable

\* Renaming the samples of a set so that their order stays renames those of the list.
LEMMA InOrderRenamed ==
    ASSUME NEW S, NEW T, Listable(S), Listable(T), NEW g \in Bijection(S, T),
           \A s, t \in S : Sooner(s, t) <=> Sooner(g[s], g[t])
    PROVE  /\ Cardinality(T) = Cardinality(S)
           /\ InOrder(T) = [n \in 1..Cardinality(S) |-> g[InOrder(S)[n]]]
  <1> DEFINE c == Cardinality(S)
  <1>1. /\ g \in [S -> T]
        /\ \A s, t \in S : g[s] = g[t] => s = t
        /\ \A t \in T : \E s \in S : g[s] = t
    BY DEF Bijection, Injection, Surjection, IsInjective
  <1>2. Cardinality(T) = c
    BY FS_Bijection DEF ExistsBijection, Listable
  <1>3. ASSUME NEW s \in S
        PROVE  Place(T, g[s]) = Place(S, s)
    <2> DEFINE A == {t \in S : Sooner(t, s)}
               B == {t \in T : Sooner(t, g[s])}
               h == [t \in A |-> g[t]]
    <2>1. \A t \in S : t \in A <=> g[t] \in B
      BY <1>1
    <2>2. A \subseteq S /\ B \subseteq T
      OBVIOUS
    <2> HIDE DEF A, B
    <2>3. h \in Bijection(A, B)
      <3>1. h \in [A -> B]
        BY <2>1, <2>2
      <3>2. \A x, y \in A : h[x] = h[y] => x = y
        BY <1>1, <2>2
      <3>3. \A y \in B : \E x \in A : h[x] = y
        BY <1>1, <2>1, <2>2
      <3> HIDE DEF h
      <3> QED
        BY <3>1, <3>2, <3>3 DEF Bijection, Injection, Surjection, IsInjective
    <2>4. IsFiniteSet(A)
      BY <2>2, FS_Subset DEF Listable
    <2>5. Cardinality(A) = Cardinality(B)
      BY <2>3, <2>4, FS_Bijection DEF ExistsBijection
    <2> QED
      BY <2>5 DEF Place, A, B
  <1> DEFINE L == InOrder(S)
             M == InOrder(T)
  <1>4. /\ c \in Nat /\ L \in [1..c -> S] /\ M \in [1..c -> T]
        /\ \A n \in 1..c : Place(S, L[n]) = n - 1
        /\ \A t \in T : M[Place(T, t) + 1] = t
    BY <1>2, InOrderIs
  <1> HIDE DEF c, L, M
  <1>5. ASSUME NEW n \in 1..c
        PROVE  M[n] = g[L[n]]
    <2>1. L[n] \in S /\ g[L[n]] \in T
      BY <1>1, <1>4
    <2>2. Place(T, g[L[n]]) = n - 1
      BY <1>3, <1>4, <2>1
    <2>3. (n - 1) + 1 = n
      BY <1>4
    <2> QED
      BY <1>4, <2>1, <2>2, <2>3
  <1>6. M = [n \in 1..c |-> g[L[n]]]
    BY <1>4, <1>5
  <1> QED
    BY <1>2, <1>6 DEF c, L, M

\* Points of different days.
Dated(P) ==
    /\ IsFiniteSet(P)
    /\ \A p \in P : p.day \in Int
    /\ \A p, q \in P : p.day = q.day => p = q

\* The list has every point of the set once, in the order of the days.
LEMMA ByDayIs ==
    ASSUME NEW P, Dated(P)
    PROVE  LET c == Cardinality(P)
               L == ByDay(P)
           IN  /\ c \in Nat /\ L \in [1..c -> P] /\ Len(L) = c
               /\ ToSet(L) = P
               /\ \A m, n \in 1..c : m < n <=> L[m].day < L[n].day
  <1> DEFINE R == {z \in P \X P : z[1].day < z[2].day}
             Q(x) == Cardinality({q \in P : q.day < x.day})
             c == Cardinality(P)
             At_(n) == CHOOSE p \in P : Q(p) = n - 1
             L == ByDay(P)
  <1>1. \A x, y \in P : <<x, y>> \in R <=> x.day < y.day
    OBVIOUS
  <1> HIDE DEF R
  <1>2. /\ IsFiniteSet(P)
        /\ \A x \in P : <<x, x>> \notin R
        /\ \A x, y, z \in P : <<x, y>> \in R /\ <<y, z>> \in R => <<x, z>> \in R
        /\ \A x, y \in P : x = y \/ <<x, y>> \in R \/ <<y, x>> \in R
    BY <1>1 DEF Dated
  <1>3. \A x \in P : Q(x) = Cardinality(BeforeIn(P, R, x))
    <2>1. \A x \in P : {q \in P : q.day < x.day} = BeforeIn(P, R, x)
      BY <1>1 DEF BeforeIn
    <2> QED
      BY <2>1
  <1>4. L = [n \in 1..c |-> At_(n)]
    BY DEF ByDay
  <1> HIDE DEF Q
  <1>5. /\ c \in Nat
        /\ \A x, y \in P : <<x, y>> \in R <=> Q(x) < Q(y)
        /\ \A x, y \in P : Q(x) = Q(y) => x = y
        /\ \A x \in P : Q(x) \in 0..(c - 1)
        /\ \A k \in 0..(c - 1) : \E x \in P : Q(x) = k
    <2> DEFINE B(x) == Cardinality(BeforeIn(P, R, x))
    <2>1. /\ c \in Nat
          /\ \A x, y \in P : <<x, y>> \in R <=> B(x) < B(y)
          /\ \A x, y \in P : B(x) = B(y) => x = y
          /\ \A x \in P : B(x) \in 0..(c - 1)
          /\ \A k \in 0..(c - 1) : \E x \in P : B(x) = k
      BY <1>2, RankingIs
    <2>2. \A x \in P : Q(x) = B(x)
      BY <1>3
    <2> HIDE DEF B, c
    <2> QED
      BY <2>1, <2>2
  <1>6. ASSUME NEW n \in 1..c
        PROVE  At_(n) \in P /\ Q(At_(n)) = n - 1
    <2>1. \E p \in P : Q(p) = n - 1
      BY <1>5
    <2> QED
      BY <2>1
  <1> HIDE DEF At_, L, c
  <1>7. L \in [1..c -> P] /\ \A n \in 1..c : Q(L[n]) = n - 1
    BY <1>4, <1>6
  <1>8. Len(L) = c
    BY <1>5, <1>7
  <1>9. ASSUME NEW p \in P
        PROVE  \E n \in 1..c : L[n] = p
    <2> DEFINE n == Q(p) + 1
    <2>1. n \in 1..c /\ n - 1 = Q(p)
      BY <1>5
    <2> HIDE DEF n
    <2> QED
      BY <1>5, <1>7, <2>1
  <1>10. ToSet(L) = P
    BY <1>7, <1>9 DEF ToSet
  <1>11. \A m, n \in 1..c : m < n <=> L[m].day < L[n].day
    <2> TAKE m, n \in 1..c
    <2>1. m < n <=> Q(L[m]) < Q(L[n])
      BY <1>5, <1>7
    <2> QED
      BY <1>1, <1>5, <1>7, <2>1
  <1> QED
    BY <1>5, <1>7, <1>8, <1>10, <1>11 DEF L, c

-----------------------------------------------------------------------------
(* Sums *)

Some(s) == CHOOSE x \in s : TRUE

Less1(s) == s \ {Some(s)}

\* g sums the values of f on each subset of T.
Sums(g, f, T) == g = [s \in SUBSET T |-> IF s = {} THEN 0 ELSE f[Some(s)] + g[Less1(s)]]

Summation(f, T) == CHOOSE g : Sums(g, f, T)

LEMMA SumOfIs ==
    ASSUME NEW f PROVE SumOf(f) = Summation(f, DOMAIN f)[DOMAIN f]
  BY DEF SumOf, FoldFunction, FoldFunctionOnSet, MapThenFoldSet, Summation, Sums, Less1, Some

LEMMA AnyIn ==
    ASSUME NEW s, s # {}
    PROVE  Some(s) \in s /\ Less1(s) \in SUBSET s /\ Some(s) \notin Less1(s)
  BY DEF Some, Less1

LEMMA SumsValue ==
    ASSUME NEW f, NEW T, NEW g, Sums(g, f, T), NEW s \in SUBSET T
    PROVE  g[s] = IF s = {} THEN 0 ELSE f[Some(s)] + g[Less1(s)]
  BY DEF Sums

(* Two summations agree. *)
LEMMA SumsAgree ==
    ASSUME NEW f, NEW T, IsFiniteSet(T), NEW g, Sums(g, f, T), NEW U, NEW h, Sums(h, f, U),
           NEW s \in SUBSET T, s \in SUBSET U
    PROVE  g[s] = h[s]
<1> DEFINE F == {r \in SUBSET T : r \in SUBSET U /\ g[r] # h[r]}
<1> SUFFICES ASSUME s \in F PROVE FALSE
  OBVIOUS
<1>1. \A r \in F : IsFiniteSet(r)
  BY FS_Subset
<1>2. PICK m \in F : \A x \in m : \A r \in SUBSET m : x \notin r => r \notin F
  <2> HIDE DEF F
  <2>1. QED
    BY <1>1, SmallestSet
<1>3. /\ g[m] = IF m = {} THEN 0 ELSE f[Some(m)] + g[Less1(m)]
      /\ h[m] = IF m = {} THEN 0 ELSE f[Some(m)] + h[Less1(m)]
  BY SumsValue
<1>4. CASE m = {}
  BY <1>3, <1>4
<1>5. CASE m # {}
  <2>1. Some(m) \in m /\ Less1(m) \in SUBSET m /\ Some(m) \notin Less1(m)
    BY <1>5, AnyIn
  <2>2. Less1(m) \notin F
    BY <1>2, <2>1
  <2>3. g[Less1(m)] = h[Less1(m)]
    BY <2>1, <2>2
  <2>4. QED
    BY <1>3, <1>5, <2>3
<1>6. QED
  BY <1>4, <1>5

(* A finite set has a summation. *)
LEMMA SumsExist ==
    ASSUME NEW f, NEW T, IsFiniteSet(T)
    PROVE  Sums(Summation(f, T), f, T)
<1> DEFINE F == {s \in SUBSET T : ~\E g : Sums(g, f, s)}
<1>1. SUFFICES ASSUME T \in F PROVE FALSE
  BY DEF Summation
<1>2. \A r \in F : IsFiniteSet(r)
  BY FS_Subset
<1>3. PICK m \in F : \A x \in m : \A r \in SUBSET m : x \notin r => r \notin F
  <2> HIDE DEF F
  <2>1. QED
    BY <1>1, <1>2, SmallestSet
<1>4. ASSUME NEW x \in m, NEW r \in SUBSET m, x \notin r
      PROVE  Sums(Summation(f, r), f, r) /\ IsFiniteSet(r)
  <2>1. \E g : Sums(g, f, r)
    BY <1>3, <1>4
  <2>2. QED
    BY <2>1, FS_Subset DEF Summation
<1> DEFINE v(s) == IF s = {} THEN 0 ELSE f[Some(s)] + Summation(f, Less1(s))[Less1(s)]
           g == [s \in SUBSET m |-> v(s)]
<1>5. ASSUME NEW s \in SUBSET m, s # {}
      PROVE  v(Less1(s)) = Summation(f, Less1(s))[Less1(s)]
  <2> DEFINE r == Less1(s)
  <2>1. Some(s) \in m /\ r \in SUBSET m /\ Some(s) \notin r
    BY <1>5, AnyIn
  <2>2. Sums(Summation(f, r), f, r) /\ IsFiniteSet(r)
    BY <1>4, <2>1
  <2> HIDE DEF r
  <2>3. Summation(f, r)[r] = IF r = {} THEN 0 ELSE f[Some(r)] + Summation(f, r)[Less1(r)]
    BY <2>2, SumsValue
  <2>4. CASE r = {}
    BY <2>3, <2>4 DEF r
  <2>5. CASE r # {}
    <3>1. Less1(r) \in SUBSET r
      BY <2>5, AnyIn
    <3>2. Less1(r) \in SUBSET m /\ Some(s) \notin Less1(r)
      BY <2>1, <3>1
    <3>3. Sums(Summation(f, Less1(r)), f, Less1(r))
      BY <1>4, <2>1, <3>2
    <3>4. Summation(f, r)[Less1(r)] = Summation(f, Less1(r))[Less1(r)]
      BY <2>2, <3>1, <3>3, SumsAgree
    <3>5. QED
      BY <2>3, <2>5, <3>4 DEF r
  <2>6. QED
    BY <2>4, <2>5 DEF r
<1>6. ASSUME NEW s \in SUBSET m
      PROVE  v(s) = IF s = {} THEN 0 ELSE f[Some(s)] + g[Less1(s)]
  <2>1. CASE s = {}
    BY <2>1
  <2>2. CASE s # {}
    <3>1. Less1(s) \in SUBSET m
      BY <2>2, AnyIn
    <3>2. g[Less1(s)] = v(Less1(s))
      BY <3>1
    <3>3. QED
      BY <1>5, <2>2, <3>2
  <2>3. QED
    BY <2>1, <2>2
<1>7. Sums(g, f, m)
  BY <1>6 DEF Sums
<1>8. QED
  BY <1>3, <1>7

(* The sum of a function is the last of its partial sums. *)
LEMMA PartialSums ==
    ASSUME NEW f, IsFiniteSet(DOMAIN f)
    PROVE  LET g == Summation(f, DOMAIN f)
           IN  /\ SumOf(f) = g[DOMAIN f]
               /\ g[{}] = 0
               /\ \A s \in SUBSET DOMAIN f : s # {} => g[s] = f[Some(s)] + g[Less1(s)]
<1> DEFINE g == Summation(f, DOMAIN f)
<1>1. Sums(g, f, DOMAIN f) /\ SumOf(f) = g[DOMAIN f]
  BY SumsExist, SumOfIs
<1> HIDE DEF g
<1>2. \A s \in SUBSET DOMAIN f : g[s] = IF s = {} THEN 0 ELSE f[Some(s)] + g[Less1(s)]
  BY <1>1, SumsValue
<1> QED
  BY <1>1, <1>2 DEF g

(* A sum of numbers is a number. *)
LEMMA SumType ==
    ASSUME NEW f, IsFiniteSet(DOMAIN f), \A i \in DOMAIN f : f[i] \in Int
    PROVE  /\ \A s \in SUBSET DOMAIN f : Summation(f, DOMAIN f)[s] \in Int
           /\ SumOf(f) \in Int
<1> DEFINE g == Summation(f, DOMAIN f)
           F == {s \in SUBSET DOMAIN f : g[s] \notin Int}
<1>1. /\ SumOf(f) = g[DOMAIN f]
      /\ g[{}] = 0
      /\ \A s \in SUBSET DOMAIN f : s # {} => g[s] = f[Some(s)] + g[Less1(s)]
  BY PartialSums
<1> HIDE DEF g
<1>2. F = {}
  <2> SUFFICES ASSUME F # {} PROVE FALSE
    OBVIOUS
  <2>1. \A r \in F : IsFiniteSet(r)
    BY FS_Subset
  <2>2. PICK m \in F : \A x \in m : \A r \in SUBSET m : x \notin r => r \notin F
    <3> HIDE DEF F
    <3> QED
      BY <2>1, SmallestSet
  <2>3. m # {}
    <3> SUFFICES ASSUME m = {} PROVE FALSE
      OBVIOUS
    <3>1. g[m] \in Int
      BY <1>1
    <3> QED
      BY <2>2, <3>1
  <2>4. Some(m) \in m /\ Less1(m) \in SUBSET m /\ Some(m) \notin Less1(m)
    BY <2>3, AnyIn
  <2>5. g[Less1(m)] \in Int /\ f[Some(m)] \in Int
    BY <2>2, <2>4
  <2>6. g[m] \in Int
    BY <1>1, <2>3, <2>5
  <2> QED
    BY <2>6
<1> QED
  BY <1>1, <1>2 DEF g

(* The step of the inequality below. *)
LEMMA SquareStep ==
    ASSUME NEW c \in Nat, NEW a \in Int, NEW b \in Int, NEW x \in Int,
           c * b >= a * a, c = 0 => a = 0 /\ b = 0
    PROVE  (c + 1) * (x * x + b) >= (x + a) * (x + a)
<1>1. CASE c = 0
  BY <1>1
<1>2. CASE c > 0
  <2> DEFINE d == b + c * (x * x) - 2 * (a * x)
  <2>1. d \in Int
    OBVIOUS
  <2>2. c * d = (c * b - a * a) + (a - c * x) * (a - c * x)
    OBVIOUS
  <2>3. (a - c * x) * (a - c * x) >= 0
    OBVIOUS
  <2>4. (a - c * x) * (a - c * x) \in Int /\ c * b - a * a \in Int /\ c * b - a * a >= 0
    OBVIOUS
  <2>5. (c + 1) * (x * x + b) - (x + a) * (x + a) = (c * b - a * a) + d
    OBVIOUS
  <2>6. (c + 1) * (x * x + b) \in Int /\ (x + a) * (x + a) \in Int
    OBVIOUS
  <2> HIDE DEF d
  <2>7. c * d >= 0
    BY <2>2, <2>3, <2>4
  <2>8. d >= 0
    BY <1>2, <2>1, <2>7
  <2> QED
    BY <2>1, <2>4, <2>5, <2>6, <2>8
<1> QED
  BY <1>1, <1>2

(* The square of a sum is at most the number of its terms times the sum of *)
(* their squares.                                                          *)
LEMMA SumOfSquares ==
    ASSUME NEW n \in Nat, NEW xs \in [1..n -> Int]
    PROVE  n * SumOf([i \in 1..n |-> xs[i] * xs[i]]) >= SumOf(xs) * SumOf(xs)
<1> DEFINE sq == [i \in 1..n |-> xs[i] * xs[i]]
           D == 1..n
           g == Summation(xs, D)
           h == Summation(sq, D)
           F == {s \in SUBSET D : ~(Cardinality(s) * h[s] >= g[s] * g[s])}
<1>1. IsFiniteSet(D) /\ Cardinality(D) = n
  BY FS_Interval
<1>2. DOMAIN xs = D /\ DOMAIN sq = D
  OBVIOUS
<1>3. \A i \in D : xs[i] \in Int /\ sq[i] \in Int /\ sq[i] = xs[i] * xs[i]
  OBVIOUS
<1> HIDE DEF sq, D
<1>4. /\ SumOf(xs) = g[D] /\ g[{}] = 0
      /\ \A s \in SUBSET D : s # {} => g[s] = xs[Some(s)] + g[Less1(s)]
  BY <1>1, <1>2, PartialSums
<1>5. /\ SumOf(sq) = h[D] /\ h[{}] = 0
      /\ \A s \in SUBSET D : s # {} => h[s] = sq[Some(s)] + h[Less1(s)]
  BY <1>1, <1>2, PartialSums
<1>6. \A s \in SUBSET D : g[s] \in Int /\ h[s] \in Int
  BY <1>1, <1>2, <1>3, SumType
<1> HIDE DEF g, h
<1>7. F = {}
  <2> SUFFICES ASSUME F # {} PROVE FALSE
    OBVIOUS
  <2>1. \A r \in SUBSET D : IsFiniteSet(r) /\ Cardinality(r) \in Nat
    BY <1>1, FS_Subset, FS_CardinalityType
  <2>2. PICK m \in F : \A x \in m : \A r \in SUBSET m : x \notin r => r \notin F
    <3>1. \A r \in F : IsFiniteSet(r)
      BY <2>1
    <3> HIDE DEF F
    <3> QED
      BY <3>1, SmallestSet
  <2>3. m # {}
    <3> SUFFICES ASSUME m = {} PROVE FALSE
      OBVIOUS
    <3>1. Cardinality(m) * h[m] = 0 /\ g[m] * g[m] = 0
      BY <1>4, <1>5, FS_EmptySet
    <3> QED
      BY <2>2, <3>1
  <2> DEFINE k == Some(m)
             r == Less1(m)
             c == Cardinality(r)
  <2>4. k \in m /\ r \in SUBSET m /\ k \notin r /\ r = m \ {k}
    BY <2>3, AnyIn DEF Less1
  <2>5. k \in D /\ r \in SUBSET D
    BY <2>4
  <2>6. Cardinality(m) = c + 1 /\ c \in Nat
    BY <2>1, <2>4, <2>5, FS_RemoveElement
  <2>7. g[m] = xs[k] + g[r] /\ h[m] = xs[k] * xs[k] + h[r]
    BY <1>3, <1>4, <1>5, <2>3, <2>5
  <2>8. c * h[r] >= g[r] * g[r]
    BY <2>2, <2>4, <2>5
  <2>9. c = 0 => g[r] = 0 /\ h[r] = 0
    BY <1>4, <1>5, <2>1, <2>5, FS_EmptySet
  <2>10. xs[k] \in Int /\ g[r] \in Int /\ h[r] \in Int
    BY <1>3, <1>6, <2>5
  <2>11. Cardinality(m) * h[m] >= g[m] * g[m]
    <3> HIDE DEF k, r, c
    <3>1. (c + 1) * (xs[k] * xs[k] + h[r]) >= (xs[k] + g[r]) * (xs[k] + g[r])
      BY <2>6, <2>8, <2>9, <2>10, SquareStep
    <3> QED
      BY <2>6, <2>7, <3>1
  <2> QED
    BY <2>11
<1>8. n * h[D] >= g[D] * g[D]
  BY <1>1, <1>7
<1> QED
  BY <1>4, <1>5, <1>8 DEF sq, D

-----------------------------------------------------------------------------
(* The samples of a forecast and their days *)

\* Some numbers, finitely many, have a least and a greatest one.
LEMMA Extremes ==
    ASSUME NEW S \in SUBSET Int, IsFiniteSet(S), S # {}
    PROVE  /\ Min(S) \in S /\ \A x \in S : Min(S) <= x
           /\ Max(S) \in S /\ \A x \in S : x <= Max(S)
  <1> DEFINE R == {z \in S \X S : z[1] < z[2]}
             c == Cardinality(S)
             Q(x) == Cardinality(BeforeIn(S, R, x))
  <1>1. \A x, y \in S : <<x, y>> \in R <=> x < y
    OBVIOUS
  <1> HIDE DEF R
  <1>2. /\ \A x \in S : <<x, x>> \notin R
        /\ \A x, y, z \in S : <<x, y>> \in R /\ <<y, z>> \in R => <<x, z>> \in R
        /\ \A x, y \in S : x = y \/ <<x, y>> \in R \/ <<y, x>> \in R
    BY <1>1
  <1>3. /\ c \in Nat
        /\ \A x, y \in S : <<x, y>> \in R <=> Q(x) < Q(y)
        /\ \A x, y \in S : Q(x) = Q(y) => x = y
        /\ \A x \in S : Q(x) \in 0..(c - 1)
        /\ \A k \in 0..(c - 1) : \E x \in S : Q(x) = k
    BY <1>2, RankingIs
  <1>4. c # 0
    BY FS_EmptySet
  <1> HIDE DEF c, Q
  <1>5. PICK a \in S : Q(a) = 0
    BY <1>3, <1>4
  <1>6. PICK b \in S : Q(b) = c - 1
    BY <1>3, <1>4
  <1>7. \A x \in S : a <= x /\ x <= b
    <2> TAKE x \in S
    <2>1. ~(Q(x) < Q(a)) /\ ~(Q(b) < Q(x))
      BY <1>3, <1>5, <1>6
    <2>2. ~(x < a) /\ ~(b < x)
      BY <1>1, <1>3, <2>1
    <2> QED
      BY <2>2
  <1> QED
    BY <1>7, MinIs, MaxIs

\* What normalize_samples keeps, as a set.
Good(raw) == {Normalized(raw[i], i) : i \in Accepted(raw)}

Numeric(s) ==
    /\ s.at \in Int /\ s.total \in Int /\ s.used \in Int /\ s.util \in Int
    /\ s.index \in Int

LEMMA AcceptedIs ==
    ASSUME NEW raw \in Seq(Samples), NEW i \in Accepted(raw)
    PROVE  /\ i \in DOMAIN raw /\ i \in Nat
           /\ Timed(raw[i]) /\ ~Duplicate(raw, i) /\ ValueError(raw[i]) = None
           /\ Numeric(Normalized(raw[i], i))
           /\ Normalized(raw[i], i).at = raw[i].at
           /\ Normalized(raw[i], i).index = i
  <1> DEFINE s == raw[i]
  <1>1. i \in DOMAIN raw /\ Issue(raw, i) = None
    BY DEF Accepted
  <1>2. s \in Samples /\ i \in Nat
    BY <1>1
  <1>3. /\ "MISSING_REQUIRED_FIELD" # None /\ "INVALID_TIMESTAMP" # None
        /\ "DUPLICATE_TIMESTAMP" # None /\ "UNIT_MISMATCH" # None
        /\ "INVALID_CAPACITY_INPUT" # None /\ "NON_FINITE_VALUE" # None
        /\ "NEGATIVE_USED" # None /\ "USED_EXCEEDS_TOTAL" # None
    BY CapacityAssumption DEF ValidationErrorType
  <1>4. /\ s.complete /\ s.at # None /\ ~Duplicate(raw, i) /\ ValueError(s) = None
    BY <1>1, <1>3 DEF Issue
  <1>5. /\ s.at \in Int \cup {None}
        /\ s.total \in Int \cup {None, NaN} /\ s.used \in Int \cup {None, NaN}
        /\ s.percent \in Int \cup {None, NaN}
    BY <1>2, HistoryAssumption
  <1> HIDE DEF s
  <1>6. /\ s.total \notin {None, NaN} /\ ~(s.total <= 0)
        /\ ~(s.used = NaN \/ (s.used = None /\ s.percent = NaN))
        /\ ~(s.used = None /\ s.percent = None)
        /\ ~(~IsCpu(s) /\ s.unit \notin DOMAIN Factors)
    BY <1>3, <1>4 DEF ValueError
  <1>7. s.at \in Int /\ s.total \in Int /\ s.total > 0 /\ Used(s) \in Int
    BY <1>4, <1>5, <1>6 DEF Used
  <1>8. ~IsCpu(s) => Factors[s.unit] \in Nat
    BY <1>6, CapacityAssumption
  <1>9. (100 * Used(s)) \div s.total \in Int
    BY <1>7
  <1>10. /\ IsCpu(s) \/ (/\ convert_to_bytes(s.total, s.unit) \in Int
                         /\ convert_to_bytes(Used(s), s.unit) \in Int)
    BY <1>6, <1>7, <1>8 DEF convert_to_bytes
  <1>11. /\ Numeric(Normalized(s, i))
         /\ Normalized(s, i).at = s.at /\ Normalized(s, i).index = i
    BY <1>2, <1>7, <1>9, <1>10 DEF Numeric, Normalized
  <1> QED
    BY <1>1, <1>2, <1>4, <1>11 DEF s, Timed

LEMMA GoodIs ==
    ASSUME NEW raw \in Seq(Samples)
    PROVE  /\ Listable(Good(raw))
           /\ \A s \in Good(raw) : /\ Numeric(s) /\ s.index \in Accepted(raw)
                                   /\ s = Normalized(raw[s.index], s.index)
           /\ \A i \in Accepted(raw) : /\ Normalized(raw[i], i) \in Good(raw)
                                       /\ Normalized(raw[i], i).index = i
           /\ normalize_samples(raw) = InOrder(Good(raw))
  <1>1. \A i \in Accepted(raw) : /\ Normalized(raw[i], i) \in Good(raw)
                                 /\ Normalized(raw[i], i).index = i
    BY AcceptedIs DEF Good
  <1>2. ASSUME NEW s \in Good(raw)
        PROVE  /\ Numeric(s) /\ s.index \in Accepted(raw)
               /\ s = Normalized(raw[s.index], s.index)
    <2>1. PICK i \in Accepted(raw) : s = Normalized(raw[i], i)
      BY DEF Good
    <2> QED
      BY <2>1, AcceptedIs
  <1>3. IsFiniteSet(Good(raw))
    <2> DEFINE g == [i \in Accepted(raw) |-> Normalized(raw[i], i)]
               n == Len(raw)
    <2>1. Accepted(raw) \in SUBSET (1..n) /\ n \in Nat
      BY DEF Accepted
    <2>2. IsFiniteSet(1..n)
      BY <2>1, FS_Interval
    <2>3. IsFiniteSet(Accepted(raw))
      BY <2>1, <2>2, FS_Subset
    <2>4. IsFiniteSet({g[i] : i \in Accepted(raw)})
      <3> HIDE DEF g
      <3>1. DOMAIN g = Accepted(raw)
        BY DEF g
      <3> QED
        BY <2>3, <3>1, ImageFinite
    <2>5. {g[i] : i \in Accepted(raw)} = Good(raw)
      BY DEF Good
    <2> QED
      BY <2>4, <2>5
  <1>4. Listable(Good(raw))
    BY <1>2, <1>3 DEF Listable, Numeric
  <1> QED
    BY <1>1, <1>2, <1>4 DEF normalize_samples, Good

Events(raw) == detect_capacity_events(normalize_samples(raw))

\* The samples the forecast uses.
Since(raw) ==
    {s \in Good(raw) :
        Events(raw) # {} => s.at >= normalize_samples(raw)[Max(Events(raw))].at}

LEMMA SegmentIs ==
    ASSUME NEW raw \in Seq(Samples)
    PROVE  LET N == normalize_samples(raw)
               E == Events(raw)
               c == Cardinality(Good(raw))
           IN  /\ segment_after_last_event(N, E) = InOrder(Since(raw))
               /\ Since(raw) \subseteq Good(raw) /\ Listable(Since(raw))
               /\ Good(raw) # {} => Since(raw) # {}
               /\ E \subseteq 2..c
               /\ E # {} => Max(E) \in E /\ \A k \in E : k <= Max(E)
  <1> DEFINE N == normalize_samples(raw)
             E == Events(raw)
             G == Good(raw)
             c == Cardinality(G)
  <1>1. /\ c \in Nat /\ N \in [1..c -> G] /\ Len(N) = c /\ ToSet(N) = G
        /\ N = InOrder(G)
    BY GoodIs, InOrderIs
  <1>2. E \subseteq 2..c
    BY <1>1 DEF Events, detect_capacity_events
  <1>3. E # {} => Max(E) \in E /\ \A k \in E : k <= Max(E)
    <2>1. IsFiniteSet(2..c) /\ 2..c \subseteq Int
      BY <1>1, FS_Interval
    <2>2. IsFiniteSet(E) /\ E \in SUBSET Int
      BY <1>2, <2>1, FS_Subset
    <2> HIDE DEF E
    <2> QED
      BY <2>2, Extremes
  <1>4. Since(raw) \subseteq G /\ Listable(Since(raw))
    <2>1. Since(raw) \in SUBSET G
      BY DEF Since
    <2> QED
      BY <2>1, GoodIs, SubsetListable
  <1>5. CASE E = {}
    <2>1. Since(raw) = G
      BY <1>5 DEF Since
    <2>2. segment_after_last_event(N, E) = N
      BY <1>5 DEF segment_after_last_event
    <2> QED
      BY <1>1, <1>2, <1>4, <1>5, <2>1, <2>2
  <1>6. CASE E # {}
    <2> DEFINE m == Max(E)
    <2>1. m \in 1..c /\ N[m] \in G /\ N[m].at \in Int
      BY <1>1, <1>2, <1>3, <1>6, GoodIs DEF Numeric
    <2>2. Since(raw) = {s \in ToSet(N) : s.at >= N[m].at}
      BY <1>1, <1>6 DEF Since
    <2>3. segment_after_last_event(N, E) = InOrder(Since(raw))
      BY <1>6, <2>2 DEF segment_after_last_event
    <2>4. N[m] \in Since(raw)
      BY <1>1, <2>1, <2>2
    <2> QED
      BY <1>2, <1>3, <1>4, <2>3, <2>4
  <1> QED
    BY <1>5, <1>6

LEMMA NoneInOrder == InOrder({}) = <<>>
  <1>1. Cardinality({}) = 0
    BY FS_EmptySet
  <1> QED
    BY <1>1 DEF InOrder

\* The forecast is made of the samples since the last resize.
LEMMA ForecastIs ==
    ASSUME NEW raw \in Seq(Samples), NEW q, NEW T
    PROVE  run_capacity_forecast(raw, q, T) =
              IF Good(raw) = {} THEN NoForecast("INVALID", <<>>, "INSUFFICIENT_EVIDENCE", <<>>)
              ELSE Segmented(InOrder(Since(raw)), q, T, duplicate_count(raw))
  <1> DEFINE N == normalize_samples(raw)
  <1>1. N = InOrder(Good(raw))
    BY GoodIs
  <1>2. Good(raw) = {} => N = <<>>
    BY <1>1, NoneInOrder
  <1>3. Good(raw) # {} => N # <<>>
    <2>1. Len(N) = Cardinality(Good(raw)) /\ IsFiniteSet(Good(raw))
      BY <1>1, GoodIs, InOrderIs DEF Listable
    <2>2. Len(<<>>) = 0
      OBVIOUS
    <2> HIDE DEF N
    <2> QED
      BY <2>1, <2>2, FS_EmptySet
  <1>4. segment_after_last_event(N, detect_capacity_events(N)) = InOrder(Since(raw))
    BY SegmentIs DEF Events
  <1> HIDE DEF N
  <1> QED
    BY <1>2, <1>3, <1>4 DEF run_capacity_forecast, N

Days(S, tz) == {LocalDay(s.at, tz) : s \in S}

OwnOf(S, tz, d) == {s \in S : LocalDay(s.at, tz) = d}

PointOf(S, tz, d) == Point(d, Min(Days(S, tz)), InOrder(OwnOf(S, tz, d)))

PointsOf(S, tz) == {PointOf(S, tz, d) : d \in Days(S, tz)}

\* The points of a set of samples.
LEMMA AggregateIs ==
    ASSUME NEW S, Listable(S), NEW tz
    PROVE  aggregate_daily(InOrder(S), tz) = ByDay(PointsOf(S, tz))
  <1>1. ToSet(InOrder(S)) = S
    BY InOrderIs
  <1> QED
    BY <1>1 DEF aggregate_daily, PointsOf, PointOf, OwnOf, Days

\* The mean of some numbers.
LEMMA MeanType ==
    ASSUME NEW c \in Nat \ {0}, NEW v \in [1..c -> Int]
    PROVE  Mean(v) \in Int
  <1>1. IsFiniteSet(DOMAIN v) /\ Len(v) = c
    BY FS_Interval
  <1>2. SumOf(v) \in Int
    BY <1>1, SumType
  <1> QED
    BY <1>1, <1>2 DEF Mean

LEMMA PointIs ==
    ASSUME NEW S, Listable(S), \A s \in S : Numeric(s), NEW tz \in Int,
           NEW d \in Days(S, tz)
    PROVE  LET p == PointOf(S, tz, d)
           IN  /\ p.day = d /\ p.x = d - Min(Days(S, tz))
               /\ p.util \in Int
  <1> DEFINE O == OwnOf(S, tz, d)
             own == InOrder(O)
             c == Cardinality(O)
             v == [k \in DOMAIN own |-> own[k].util]
  <1>1. O \in SUBSET S /\ O # {}
    BY DEF Days, OwnOf
  <1>2. Listable(O)
    BY <1>1, SubsetListable
  <1>3. c \in Nat /\ own \in [1..c -> O] /\ c # 0
    BY <1>1, <1>2, InOrderIs, FS_EmptySet DEF Listable
  <1> HIDE DEF O, own, c
  <1>4. v \in [1..c -> Int]
    BY <1>1, <1>3 DEF Numeric
  <1>5. Mean(v) \in Int
    BY <1>3, <1>4, MeanType
  <1> QED
    BY <1>5 DEF PointOf, Point, own, O

LEMMA PointsAre ==
    ASSUME NEW S, Listable(S), S # {}, \A s \in S : Numeric(s), NEW tz \in Int
    PROVE  LET D == Days(S, tz)
               pts == aggregate_daily(InOrder(S), tz)
               c == Cardinality(D)
           IN  /\ D \subseteq Int /\ IsFiniteSet(D) /\ D # {}
               /\ c \in Nat \ {0} /\ Len(pts) = c /\ pts \in [1..c -> PointsOf(S, tz)]
               /\ Dated(ToSet(pts))
               /\ pts[1].day = Min(D) /\ pts[c].day = Max(D)
               /\ \A p \in ToSet(pts) : /\ p.day \in Int /\ p.x \in Int /\ p.util \in Int
                                        /\ p.x = p.day - Min(D)
  <1> DEFINE D == Days(S, tz)
             P == PointsOf(S, tz)
             pts == aggregate_daily(InOrder(S), tz)
             c == Cardinality(D)
             g == [d \in D |-> PointOf(S, tz, d)]
             h == [s \in S |-> LocalDay(s.at, tz)]
  <1>1. D \subseteq Int
    <2>1. \A s \in S : LocalDay(s.at, tz) \in Int
      BY CapacityAssumption DEF Numeric, LocalDay
    <2> QED
      BY <2>1 DEF Days
  <1>2. IsFiniteSet(D) /\ D # {}
    <2>1. D = {h[s] : s \in S}
      BY DEF Days
    <2>2. DOMAIN h = S
      OBVIOUS
    <2> HIDE DEF h, D
    <2> QED
      BY <2>1, <2>2, ImageFinite DEF Listable
  <1>3. Min(D) \in D /\ Max(D) \in D /\ \A d \in D : Min(D) <= d /\ d <= Max(D)
    <2> HIDE DEF D
    <2> QED
      BY <1>1, <1>2, Extremes
  <1>4. \A d \in D : g[d].day = d /\ g[d].x = d - Min(D) /\ g[d].util \in Int
    BY PointIs
  <1>5. P = {g[d] : d \in D}
    BY DEF PointsOf
  <1> HIDE DEF g, D, P
  <1>6. g \in Bijection(D, P)
    <2>1. g \in [D -> P]
      BY <1>5 DEF g
    <2>2. \A d, e \in D : g[d] = g[e] => d = e
      BY <1>4
    <2> QED
      BY <1>5, <2>1, <2>2 DEF Bijection, Injection, Surjection, IsInjective
  <1>7. IsFiniteSet(P) /\ Cardinality(P) = c
    BY <1>2, <1>6, FS_Bijection DEF ExistsBijection
  <1>8. \A p \in P : /\ p.day \in D /\ p = g[p.day]
                     /\ p.day \in Int /\ p.x \in Int /\ p.util \in Int
                     /\ p.x = p.day - Min(D)
    BY <1>1, <1>3, <1>4, <1>5
  <1>9. Dated(P)
    BY <1>7, <1>8 DEF Dated
  <1>10. c \in Nat \ {0}
    BY <1>2, FS_CardinalityType, FS_EmptySet
  <1>11. pts = ByDay(P)
    BY AggregateIs DEF P
  <1>12. /\ pts \in [1..c -> P] /\ Len(pts) = c /\ ToSet(pts) = P
         /\ \A m, n \in 1..c : m < n <=> pts[m].day < pts[n].day
    BY <1>7, <1>9, <1>11, ByDayIs
  <1> HIDE DEF pts, c
  <1>13. ASSUME NEW d \in D
         PROVE  \E n \in 1..c : pts[n].day = d
    <2>1. g[d] \in P
      BY <1>5
    <2>2. PICK n \in 1..c : pts[n] = g[d]
      BY <1>12, <2>1 DEF ToSet
    <2> QED
      BY <1>4, <2>2
  <1>14. pts[1].day = Min(D)
    <2>1. PICK n \in 1..c : pts[n].day = Min(D)
      BY <1>3, <1>13
    <2>2. pts[1].day \in D
      BY <1>8, <1>10, <1>12
    <2>3. CASE n = 1
      BY <2>1, <2>3
    <2>4. CASE n # 1
      <3>1. 1 \in 1..c /\ 1 < n
        BY <1>10, <2>4
      <3>2. pts[1].day < pts[n].day
        BY <1>12, <3>1
      <3>3. pts[1].day \in Int /\ Min(D) \in Int /\ Min(D) <= pts[1].day
        BY <1>1, <1>3, <2>2
      <3> QED
        BY <2>1, <3>2, <3>3
    <2> QED
      BY <2>3, <2>4
  <1>15. pts[c].day = Max(D)
    <2>1. PICK n \in 1..c : pts[n].day = Max(D)
      BY <1>3, <1>13
    <2>2. pts[c].day \in D
      BY <1>8, <1>10, <1>12
    <2>3. CASE n = c
      BY <2>1, <2>3
    <2>4. CASE n # c
      <3>1. c \in 1..c /\ n < c
        BY <1>10, <2>4
      <3>2. pts[n].day < pts[c].day
        BY <1>12, <3>1
      <3>3. pts[c].day \in Int /\ Max(D) \in Int /\ pts[c].day <= Max(D)
        BY <1>1, <1>3, <2>2
      <3> QED
        BY <2>1, <3>2, <3>3
    <2> QED
      BY <2>3, <2>4
  <1> QED
    BY <1>1, <1>2, <1>8, <1>9, <1>10, <1>12, <1>14, <1>15 DEF pts, c, D, P

-----------------------------------------------------------------------------
(* The invariant *)

\* The result is that of the samples that have come in.
HistoryInv ==
    /\ samples \in Seq(Samples)
    /\ policy \in Policies
    /\ out = Forecast(samples)

(***************************************************************************)
(* At every moment the result on disk is the forecast of the samples in    *)
(* the fixture (cli.main).                                                 *)
(***************************************************************************)
THEOREM HistoryInvariant == Spec => []HistoryInv
  <1>1. Init => HistoryInv
    BY DEF Init, HistoryInv
  <1>2. HistoryInv /\ [Next]_vars => HistoryInv'
    <2> SUFFICES ASSUME HistoryInv, [Next]_vars PROVE HistoryInv'
      OBVIOUS
    <2>1. ASSUME NEW s \in Samples, AddSample(s) PROVE HistoryInv'
      <3>1. samples' \in Seq(Samples) /\ policy' \in Policies
        BY <2>1 DEF AddSample, HistoryInv
      <3>2. out' = run_capacity_forecast(samples', policy, Thresholds) /\ policy' = policy
        BY <2>1 DEF AddSample, Forecast
      <3> QED
        BY <3>1, <3>2 DEF HistoryInv, Forecast
    <2>2. CASE UNCHANGED vars
      BY <2>2 DEF vars, HistoryInv, Forecast
    <2> QED
      BY <2>1, <2>2 DEF Next
  <1> QED
    BY <1>1, <1>2, PTL DEF Spec

\* The samples used, by their places in the file.
LEMMA UsedIs ==
    ASSUME NEW raw \in Seq(Samples), NEW q, NEW T
    PROVE  run_capacity_forecast(raw, q, T).used = {s.index : s \in Since(raw)}
  <1> DEFINE r == run_capacity_forecast(raw, q, T)
             U == {s.index : s \in Since(raw)}
             seg == InOrder(Since(raw))
  <1>1. ToSet(seg) = Since(raw)
    BY SegmentIs, InOrderIs
  <1>2. CASE Good(raw) = {}
    <2>1. r = NoForecast("INVALID", <<>>, "INSUFFICIENT_EVIDENCE", <<>>)
      BY <1>2, ForecastIs
    <2>2. r.used = {s.index : s \in ToSet(<<>>)}
      BY <2>1 DEF NoForecast
    <2>3. Since(raw) = {}
      BY <1>2 DEF Since
    <2> QED
      BY <2>2, <2>3 DEF ToSet
  <1>3. CASE Good(raw) # {}
    <2>1. r = Segmented(seg, q, T, duplicate_count(raw))
      BY <1>3, ForecastIs
    <2>2. \A pts, quality : Assessed(seg, pts, quality, q, T).used = {s.index : s \in ToSet(seg)}
      BY DEF Assessed, Forecasting, NoForecast
    <2> HIDE DEF seg
    <2>3. r.used = {s.index : s \in ToSet(seg)}
      BY <2>1, <2>2 DEF Segmented
    <2> QED
      BY <1>1, <2>3
  <1> QED
    BY <1>2, <1>3

\* The samples used, read back from the result.
LEMMA ReadBack ==
    ASSUME HistoryInv
    PROVE  /\ out.used = {s.index : s \in Since(samples)}
           /\ out.used \subseteq Accepted(samples)
           /\ {Normalized(samples[i], i) : i \in out.used} = Since(samples)
           /\ \A s \in Since(samples) : s.index \in out.used
           /\ \A i \in out.used : Normalized(samples[i], i) \in Since(samples)
           /\ \A i \in Accepted(samples) : Normalized(samples[i], i) \in Since(samples)
                                              => i \in out.used
           /\ \A i \in Accepted(samples) : At(i) = Normalized(samples[i], i).at
  <1>1. out.used = {s.index : s \in Since(samples)}
    BY UsedIs DEF HistoryInv, Forecast
  <1>2. Since(samples) \subseteq Good(samples)
    BY DEF Since
  <1>3. samples \in Seq(Samples)
    BY DEF HistoryInv
  <1>4. \A s \in Good(samples) : /\ s.index \in Accepted(samples)
                                 /\ s = Normalized(samples[s.index], s.index)
    BY <1>3, GoodIs
  <1>5. \A i \in Accepted(samples) : Normalized(samples[i], i).index = i
    BY <1>3, GoodIs
  <1>6. \A i \in Accepted(samples) : At(i) = Normalized(samples[i], i).at
    BY <1>3, AcceptedIs DEF At
  <1>7. ASSUME NEW i \in out.used
        PROVE  i \in Accepted(samples) /\ Normalized(samples[i], i) \in Since(samples)
    <2>1. PICK s \in Since(samples) : i = s.index
      BY <1>1
    <2> QED
      BY <1>2, <1>4, <2>1
  <1>8. ASSUME NEW s \in Since(samples)
        PROVE  s.index \in out.used /\ s = Normalized(samples[s.index], s.index)
    BY <1>1, <1>2, <1>4
  <1>9. {Normalized(samples[i], i) : i \in out.used} = Since(samples)
    BY <1>7, <1>8
  <1> QED
    BY <1>1, <1>5, <1>6, <1>7, <1>8, <1>9

-----------------------------------------------------------------------------
(* Nothing is predicted from too little *)

\* A segment of which something is predicted is good enough.
LEMMA PredictedIsUsable ==
    ASSUME NEW seg, NEW q, NEW T, NEW dup,
           LET r == Segmented(seg, q, T, dup)
           IN  \/ r.confidence # "INSUFFICIENT"
               \/ \E k \in DOMAIN r.horizons : r.horizons[k] \in {"OK", "OK_NO_INTERVAL"}
               \/ \E p \in DOMAIN r.thresholds : r.thresholds[p].status = "DATE_ESTIMATED"
    PROVE  LET pts == aggregate_daily(seg, q.tz_offset)
           IN  /\ ~(Len(pts) < q.minimum_samples)
               /\ ~(span_days(pts) < q.minimum_history_days)
  <1> DEFINE pts == aggregate_daily(seg, q.tz_offset)
             quality == assess_quality(seg, pts, q, dup)
             r == Segmented(seg, q, T, dup)
  <1>1. r = Assessed(seg, pts, quality, q, T)
    BY DEF Segmented
  <1> HIDE DEF pts
  <1>2. quality \notin Unusable
    <2> SUFFICES ASSUME quality \in Unusable PROVE FALSE
      OBVIOUS
    <2> DEFINE crossings == [p \in T |-> evaluate_threshold(p, None, None, None, quality)]
    <2>1. r = NoForecast(quality, seg, "INSUFFICIENT_EVIDENCE", crossings)
      BY <1>1 DEF Assessed
    <2>2. \A p \in T : crossings[p].status # "DATE_ESTIMATED"
      BY DEF evaluate_threshold, Status
    <2> HIDE DEF crossings, quality
    <2>3. /\ r.confidence = "INSUFFICIENT" /\ r.thresholds = crossings
          /\ r.horizons = [k \in DOMAIN HorizonDays |-> "INSUFFICIENT_EVIDENCE"]
      BY <2>1 DEF NoForecast
    <2>4. DOMAIN crossings = T
      BY DEF crossings
    <2> HIDE DEF r
    <2> QED
      BY <2>2, <2>3, <2>4 DEF r
  <1>3. ~(Len(pts) < q.minimum_samples) /\ ~(span_days(pts) < q.minimum_history_days)
    BY <1>2 DEF assess_quality, Unusable
  <1> QED
    BY <1>3 DEF pts

(***************************************************************************)
(* With any horizon, date or confidence there are as many days of the      *)
(* present capacity, over as many days, as the policy asks for             *)
(* (quality.assess_quality, engine.run_capacity_forecast).                 *)
(***************************************************************************)
THEOREM CapacityThinHistory == Spec => []NoForecastFromThinHistory
  <1>1. HistoryInv => NoForecastFromThinHistory
    <2> DEFINE days == {DayOf(i) : i \in out.used}
    <2> SUFFICES ASSUME HistoryInv,
                        \/ out.confidence # "INSUFFICIENT"
                        \/ \E k \in DOMAIN out.horizons :
                                out.horizons[k] \in {"OK", "OK_NO_INTERVAL"}
                        \/ \E p \in DOMAIN out.thresholds :
                                out.thresholds[p].status = "DATE_ESTIMATED"
                 PROVE  /\ Cardinality(days) >= policy.minimum_samples
                        /\ Max(days) - Min(days) + 1 >= policy.minimum_history_days
      BY DEF NoForecastFromThinHistory
    <2> DEFINE S == Since(samples)
               seg == InOrder(S)
               tz == policy.tz_offset
               pts == aggregate_daily(seg, tz)
    <2>1. /\ samples \in Seq(Samples) /\ policy \in Policies
          /\ out = run_capacity_forecast(samples, policy, Thresholds)
      BY DEF HistoryInv, Forecast
    <2>2. /\ tz \in Int /\ policy.minimum_samples \in Int
          /\ policy.minimum_history_days \in Int
      BY <2>1, HistoryAssumption
    <2>3. Good(samples) # {}
      <3> SUFFICES ASSUME Good(samples) = {} PROVE FALSE
        OBVIOUS
      <3>1. out = NoForecast("INVALID", <<>>, "INSUFFICIENT_EVIDENCE", <<>>)
        BY <2>1, ForecastIs
      <3>2. /\ out.confidence = "INSUFFICIENT" /\ out.thresholds = <<>>
            /\ out.horizons = [k \in DOMAIN HorizonDays |-> "INSUFFICIENT_EVIDENCE"]
        BY <3>1 DEF NoForecast
      <3>3. DOMAIN out.thresholds = {}
        BY <3>2
      <3> QED
        BY <3>2, <3>3
    <2>4. out = Segmented(seg, policy, Thresholds, duplicate_count(samples))
      BY <2>1, <2>3, ForecastIs
    <2>5. ~(Len(pts) < policy.minimum_samples) /\ ~(span_days(pts) < policy.minimum_history_days)
      <3> HIDE DEF seg
      <3> QED
        BY <2>4, PredictedIsUsable
    <2>6. Listable(S) /\ S # {} /\ \A s \in S : Numeric(s)
      BY <2>1, <2>3, SegmentIs, GoodIs
    <2>7. days = Days(S, tz)
      <3>1. \A i \in out.used : DayOf(i) = LocalDay(Normalized(samples[i], i).at, tz)
        BY ReadBack DEF DayOf
      <3>2. S = {Normalized(samples[i], i) : i \in out.used}
        BY ReadBack
      <3> HIDE DEF S
      <3> QED
        BY <3>1, <3>2 DEF Days
    <2> HIDE DEF S, tz, days
    <2>8. /\ days \subseteq Int /\ IsFiniteSet(days) /\ days # {}
          /\ Len(pts) = Cardinality(days) /\ Cardinality(days) \in Nat \ {0}
          /\ pts[1].day = Min(days) /\ pts[Len(pts)].day = Max(days)
      BY <2>2, <2>6, <2>7, PointsAre
    <2>9. Min(days) \in Int /\ Max(days) \in Int
      BY <2>8, Extremes
    <2>10. Head(pts) = pts[1] /\ Last(pts) = pts[Len(pts)]
      BY DEF Last
    <2>11. span_days(pts) = Max(days) - Min(days) + 1
      BY <2>8, <2>10 DEF span_days
    <2> HIDE DEF pts
    <2> QED
      BY <2>2, <2>5, <2>8, <2>9, <2>11
  <1> QED
    BY <1>1, HistoryInvariant, PTL

-----------------------------------------------------------------------------
(* Epochs *)

\* The sample of the i-th line of the file.
Nth(i) == Normalized(samples[i], i)

\* One sample follows another where their places are next to each other.
LEMMA FollowsIs ==
    ASSUME HistoryInv, NEW i \in Accepted(samples), NEW j \in Accepted(samples)
    PROVE  LET G == Good(samples)
           IN  Follows(i, j) <=> Place(G, Nth(j)) = Place(G, Nth(i)) + 1
  <1> DEFINE G == Good(samples)
             Before(k, l) == At(k) < At(l) \/ (At(k) = At(l) /\ k < l)
             Q(k) == Place(G, Nth(k))
  <1>1. samples \in Seq(Samples)
    BY DEF HistoryInv
  <1>2. Listable(G) /\ \A k \in Accepted(samples) : Nth(k) \in G
    BY <1>1, GoodIs DEF Nth
  <1>3. \A k \in Accepted(samples) : Nth(k).at = At(k) /\ Nth(k).index = k
    BY <1>1, AcceptedIs DEF Nth, At
  <1>4. \A k, l \in Accepted(samples) : Before(k, l) <=> Q(k) < Q(l)
    <2> TAKE k, l \in Accepted(samples)
    <2>1. Before(k, l) <=> Sooner(Nth(k), Nth(l))
      BY <1>3 DEF Sooner
    <2> HIDE DEF G, Before
    <2> QED
      BY <1>2, <2>1, Places
  <1>5. \A k \in Accepted(samples) : Q(k) \in Int /\ Q(k) >= 0 /\ Q(k) < Cardinality(G)
    <2> TAKE k \in Accepted(samples)
    <2>1. Q(k) \in 0..(Cardinality(G) - 1) /\ Cardinality(G) \in Nat
      BY <1>2, Places
    <2> HIDE DEF Q, G
    <2> QED
      BY <2>1
  <1>6. ASSUME NEW n \in Int, n >= 0, n < Cardinality(G)
        PROVE  \E k \in Accepted(samples) : Q(k) = n
    <2>1. PICK s \in G : Place(G, s) = n
      <3>1. Cardinality(G) \in Nat
        BY <1>2, Places
      <3>2. n \in 0..(Cardinality(G) - 1)
        BY <1>6, <3>1
      <3> HIDE DEF G
      <3> QED
        BY <1>2, <3>2, Places
    <2>2. s.index \in Accepted(samples) /\ s = Nth(s.index)
      BY <1>1, GoodIs DEF Nth
    <2> QED
      BY <2>1, <2>2
  <1>7. Follows(i, j) <=> /\ Before(i, j)
                          /\ ~\E k \in Accepted(samples) : Before(i, k) /\ Before(k, j)
    BY DEF Follows
  <1>8. Cardinality(G) \in Nat
    BY <1>2, Places
  <1> HIDE DEF Before, Q, G
  <1>9. CASE Follows(i, j)
    <2>1. Q(i) < Q(j) /\ \A k \in Accepted(samples) : ~(Q(i) < Q(k) /\ Q(k) < Q(j))
      BY <1>4, <1>7, <1>9
    <2>2. Q(i) \in Int /\ Q(j) \in Int /\ Q(i) >= 0 /\ Q(j) < Cardinality(G)
      BY <1>5
    <2>3. CASE Q(j) = Q(i) + 1
      BY <1>9, <2>3 DEF Q, G
    <2>4. CASE Q(j) # Q(i) + 1
      <3>1. PICK k \in Accepted(samples) : Q(k) = Q(i) + 1
        BY <1>6, <1>8, <2>1, <2>2
      <3>2. Q(i) < Q(k) /\ Q(k) < Q(j)
        BY <2>1, <2>2, <2>4, <3>1
      <3> QED
        BY <2>1, <3>2
    <2> QED
      BY <2>3, <2>4
  <1>10. CASE ~Follows(i, j)
    <2>1. ~(Q(i) < Q(j)) \/ \E k \in Accepted(samples) : Q(i) < Q(k) /\ Q(k) < Q(j)
      BY <1>4, <1>7, <1>10
    <2>2. Q(j) # Q(i) + 1
      BY <1>5, <2>1
    <2> QED
      BY <1>10, <2>2 DEF Q, G
  <1> QED
    BY <1>9, <1>10

(***************************************************************************)
(* A forecast uses the samples since the last resize, all of them and no   *)
(* other (segmentation.detect_capacity_events, segment_after_last_event).  *)
(***************************************************************************)
THEOREM CapacityEpochs == Spec => []EpochsNeverMixed
  <1>1. HistoryInv => EpochsNeverMixed
    <2> SUFFICES ASSUME HistoryInv PROVE EpochsNeverMixed
      OBVIOUS
    <2> DEFINE G == Good(samples)
               N == normalize_samples(samples)
               E == Events(samples)
               c == Cardinality(G)
               m == Max(E)
               A == Accepted(samples)
               left == A \ out.used
    <2>1. samples \in Seq(Samples)
      BY DEF HistoryInv
    <2>2. /\ Listable(G) /\ N = InOrder(G)
          /\ \A s \in G : Numeric(s) /\ s.index \in A /\ s = Nth(s.index)
          /\ \A i \in A : Nth(i) \in G /\ Nth(i).index = i
      BY <2>1, GoodIs DEF Nth
    <2>3. /\ c \in Nat /\ N \in [1..c -> G] /\ Len(N) = c
          /\ \A k, n \in 1..c : k < n <=> Sooner(N[k], N[n])
          /\ \A n \in 1..c : Place(G, N[n]) = n - 1
          /\ \A s \in G : Place(G, s) + 1 \in 1..c /\ N[Place(G, s) + 1] = s
      BY <2>2, InOrderIs
    <2>4. E \subseteq 2..c /\ (E # {} => m \in E /\ \A k \in E : k <= m)
      BY <2>1, SegmentIs
    <2>5. \A k \in 2..c : k \in E <=> 200 * Abs(N[k].total - N[k - 1].total) > N[k - 1].total
      BY <2>3 DEF Events, detect_capacity_events
    <2>6. /\ out.used \subseteq A
          /\ \A i \in A : At(i) = Nth(i).at
          /\ \A i \in A : i \in out.used <=> Nth(i) \in Since(samples)
      BY ReadBack DEF Nth
    <2>7. \A i \in A : i \in out.used <=> (E # {} => At(i) >= N[m].at)
      BY <2>2, <2>6 DEF Since
    <2>8. \A i \in A : Capacity(i) = Nth(i).total /\ At(i) \in Int /\ Capacity(i) \in Int
      BY <2>2, <2>6 DEF Capacity, Nth, Numeric
    <2>9. E # {} => m \in 2..c /\ m \in 1..c /\ m - 1 \in 1..c /\ N[m].at \in Int
      BY <2>2, <2>3, <2>4 DEF Numeric
    <2>10. \A i, j \in A : Follows(i, j) <=> Place(G, Nth(j)) = Place(G, Nth(i)) + 1
      BY FollowsIs
    <2> HIDE DEF G, N, E, c, A, m
    <2>11. ASSUME NEW i \in out.used, NEW j \in out.used, Follows(i, j), At(i) < At(j)
           PROVE  Steady(i, j)
      <3> DEFINE k == Place(G, Nth(j)) + 1
      <3>1. i \in A /\ j \in A
        BY <2>6
      <3>2. Place(G, Nth(j)) = Place(G, Nth(i)) + 1
        BY <2>10, <2>11, <3>1
      <3>3. /\ k \in 1..c /\ N[k] = Nth(j)
            /\ Place(G, Nth(i)) + 1 \in 1..c /\ N[Place(G, Nth(i)) + 1] = Nth(i)
        BY <2>2, <2>3, <3>1
      <3> HIDE DEF k
      <3>4. k - 1 = Place(G, Nth(i)) + 1 /\ k \in 2..c
        BY <2>3, <3>2, <3>3 DEF k
      <3>5. N[k - 1] = Nth(i)
        BY <3>3, <3>4
      <3>6. k \notin E
        <4> SUFFICES ASSUME k \in E PROVE FALSE
          OBVIOUS
        <4>1. k <= m /\ m \in 1..c /\ E # {}
          BY <2>4, <2>9
        <4>2. At(i) >= N[m].at /\ N[m].at \in Int /\ At(i) \in Int
          BY <2>7, <2>8, <2>9, <3>1, <4>1
        <4>3. N[k].at > N[m].at
          BY <2>6, <2>8, <2>11, <3>1, <3>3, <4>2
        <4>4. k # m
          BY <2>8, <3>1, <4>2, <4>3
        <4>5. k < m
          BY <2>3, <3>3, <4>1, <4>4
        <4>6. Sooner(N[k], N[m])
          BY <2>3, <3>3, <4>1, <4>5
        <4>7. N[k].at \in Int
          BY <2>6, <2>8, <3>1, <3>3
        <4> QED
          BY <4>2, <4>3, <4>6, <4>7 DEF Sooner
      <3>7. ~(200 * Abs(N[k].total - N[k - 1].total) > N[k - 1].total)
        BY <2>5, <3>4, <3>6
      <3> QED
        BY <2>8, <3>1, <3>3, <3>5, <3>7 DEF Steady, Abs
    <2>12. ASSUME NEW i \in left, NEW u \in out.used
           PROVE  At(i) < At(u)
      <3>1. i \in A /\ u \in A /\ i \notin out.used
        BY <2>6
      <3>2. E # {} /\ ~(At(i) >= N[m].at) /\ At(u) >= N[m].at
        BY <2>7, <3>1
      <3> QED
        BY <2>8, <2>9, <3>1, <3>2
    <2>13. ASSUME left # {}
           PROVE  \E i \in A, u \in out.used :
                    /\ Follows(i, u) /\ ~Steady(i, u)
                    /\ \A v \in out.used : At(u) <= At(v)
      <3>1. E # {}
        BY <2>7, <2>13
      <3> DEFINE i == N[m - 1].index
                 u == N[m].index
      <3>2. m \in 1..c /\ m - 1 \in 1..c /\ m \in E /\ m \in 2..c
        BY <2>4, <2>9, <3>1
      <3>3. i \in A /\ Nth(i) = N[m - 1] /\ u \in A /\ Nth(u) = N[m]
        BY <2>2, <2>3, <3>2
      <3> HIDE DEF i, u
      <3>4. u \in out.used
        BY <2>6, <2>7, <2>8, <3>3
      <3>5. Follows(i, u)
        <4>1. Place(G, Nth(u)) = m - 1 /\ Place(G, Nth(i)) = (m - 1) - 1
          BY <2>3, <3>2, <3>3
        <4>2. m - 1 = ((m - 1) - 1) + 1
          BY <2>3, <3>2
        <4> QED
          BY <2>10, <3>3, <4>1, <4>2
      <3>6. ~Steady(i, u)
        <4>1. 200 * Abs(N[m].total - N[m - 1].total) > N[m - 1].total
          BY <2>5, <3>2
        <4> QED
          BY <2>8, <3>3, <4>1 DEF Steady, Abs
      <3>7. \A v \in out.used : At(u) <= At(v)
        <4> TAKE v \in out.used
        <4>1. v \in A /\ At(v) >= N[m].at
          BY <2>6, <2>7, <3>1
        <4> QED
          BY <2>6, <2>8, <3>3, <4>1
      <3> QED
        BY <3>3, <3>4, <3>5, <3>6, <3>7
    <2> QED
      BY <2>6, <2>11, <2>12, <2>13 DEF EpochsNeverMixed, A
  <1> QED
    BY <1>1, HistoryInvariant, PTL

-----------------------------------------------------------------------------
(* Thresholds *)

\* Rounding is to the nearest number, and keeps the order.
LEMMA RoundIs ==
    ASSUME NEW a \in Int, NEW d \in Nat \ {0}
    PROVE  /\ Round(a, d) \in Int
           /\ 2 * (d * Round(a, d) - a) <= d /\ 2 * (a - d * Round(a, d)) <= d
           /\ a >= 0 => Round(a, d) >= 0
  <1> DEFINE q == a \div d
             m == a % d
  <1>1. q \in Int /\ m \in Int /\ 0 <= m /\ m < d /\ a = d * q + m
    OBVIOUS
  <1>2. a >= 0 => q >= 0
    OBVIOUS
  <1>3. Round(a, d) \in {q, q + 1} /\ (Round(a, d) = q + 1 => 2 * m >= d)
                                   /\ (Round(a, d) = q => 2 * m <= d)
    <2>1. Round(a, d) = IF 2 * m > d \/ (2 * m = d /\ q % 2 = 1) THEN q + 1 ELSE q
      BY DEF Round
    <2> HIDE DEF q, m
    <2> QED
      BY <1>1, <2>1
  <1> HIDE DEF q, m
  <1>4. CASE Round(a, d) = q
    <2>1. d * Round(a, d) - a = - m
      BY <1>1, <1>4
    <2> QED
      BY <1>1, <1>2, <1>3, <1>4
  <1>5. CASE Round(a, d) = q + 1
    <2>1. d * (q + 1) = d * q + d
      BY <1>1
    <2>2. d * q \in Int /\ d * (q + 1) \in Int
      BY <1>1
    <2> QED
      BY <1>1, <1>2, <1>3, <1>5, <2>1, <2>2
  <1> QED
    BY <1>3, <1>4, <1>5

LEMMA RoundKeepsOrder ==
    ASSUME NEW a \in Int, NEW b \in Int, NEW d \in Nat \ {0}, a <= b
    PROVE  Round(a, d) <= Round(b, d)
  <1> DEFINE q == a \div d
             m == a % d
             r == b \div d
             n == b % d
  <1>1. /\ q \in Int /\ m \in Int /\ 0 <= m /\ m < d /\ a = d * q + m
        /\ r \in Int /\ n \in Int /\ 0 <= n /\ n < d /\ b = d * r + n
    OBVIOUS
  <1>2. /\ Round(a, d) = IF 2 * m > d \/ (2 * m = d /\ q % 2 = 1) THEN q + 1 ELSE q
        /\ Round(b, d) = IF 2 * n > d \/ (2 * n = d /\ r % 2 = 1) THEN r + 1 ELSE r
    BY DEF Round
  <1> HIDE DEF q, m, r, n
  <1>3. q <= r
    <2> SUFFICES ASSUME q >= r + 1 PROVE FALSE
      BY <1>1
    <2>1. d * (q - r) >= d
      BY <1>1
    <2>2. d * (q - r) = d * q - d * r /\ d * q \in Int /\ d * r \in Int
      BY <1>1
    <2> QED
      BY <1>1, <2>1, <2>2
  <1>4. CASE q < r
    BY <1>1, <1>2, <1>4
  <1>5. CASE q = r
    <2>1. m <= n
      BY <1>1, <1>5
    <2> QED
      BY <1>1, <1>2, <1>5, <2>1
  <1> QED
    BY <1>1, <1>3, <1>4, <1>5

\* What is used of a fitted line.
Line(fit) ==
    /\ fit.n \in Nat
    /\ fit.sx \in Int /\ fit.sy \in Int /\ fit.sxx \in Int /\ fit.sxy \in Int
    /\ fit.sxx >= 0
    /\ fit.n = 0 => fit.sxy = 0

LEMMA OlsIs ==
    ASSUME NEW n \in Nat, NEW xs \in [1..n -> Int], NEW ys \in [1..n -> Int]
    PROVE  Line(ols_fit(xs, ys))
  <1> DEFINE xx == [i \in 1..n |-> xs[i] * xs[i]]
             xy == [i \in 1..n |-> xs[i] * ys[i]]
             fit == ols_fit(xs, ys)
  <1>1. Len(xs) = n
    OBVIOUS
  <1>2. /\ fit.n = n /\ fit.sx = SumOf(xs) /\ fit.sy = SumOf(ys)
        /\ fit.sxx = n * SumOf(xx) - SumOf(xs) * SumOf(xs)
        /\ fit.sxy = n * SumOf(xy) - SumOf(xs) * SumOf(ys)
    BY <1>1 DEF ols_fit
  <1>3. IsFiniteSet(1..n)
    BY FS_Interval
  <1>4. DOMAIN xx = 1..n /\ DOMAIN xy = 1..n /\ DOMAIN xs = 1..n /\ DOMAIN ys = 1..n
    OBVIOUS
  <1>5. \A i \in 1..n : xx[i] \in Int /\ xy[i] \in Int /\ xs[i] \in Int /\ ys[i] \in Int
    OBVIOUS
  <1>6. n * SumOf(xx) >= SumOf(xs) * SumOf(xs)
    BY SumOfSquares
  <1> HIDE DEF xx, xy, fit
  <1>7. SumOf(xx) \in Int /\ SumOf(xy) \in Int /\ SumOf(xs) \in Int /\ SumOf(ys) \in Int
    BY <1>3, <1>4, <1>5, SumType
  <1>8. n = 0 => SumOf(xs) = 0
    <2> SUFFICES ASSUME n = 0 PROVE SumOf(xs) = 0
      OBVIOUS
    <2>1. DOMAIN xs = {}
      BY <1>4
    <2> QED
      BY <1>3, <1>4, <2>1, PartialSums
  <1>9. fit.sxx \in Int /\ fit.sxx >= 0
    BY <1>2, <1>6, <1>7
  <1>10. fit.sxy \in Int
    BY <1>2, <1>7
  <1>11. n = 0 => fit.sxy = 0
    BY <1>2, <1>7, <1>8
  <1> QED
    BY <1>2, <1>7, <1>9, <1>10, <1>11 DEF Line, fit

\* A list of points with their numbers.
Plotted(pts) ==
    /\ Len(pts) \in Nat /\ DOMAIN pts = 1..Len(pts)
    /\ \A i \in DOMAIN pts : pts[i].x \in Int /\ pts[i].util \in Int

LEMMA FittedIs ==
    ASSUME NEW pts, Plotted(pts), NEW excluded
    PROVE  Line(Fitted(pts, Values(pts, "util"), excluded).fit)
  <1> DEFINE n == Len(pts)
             xs == [i \in DOMAIN pts |-> pts[i].x]
             ys == Values(pts, "util")
  <1>1. n \in Nat /\ xs \in [1..n -> Int]
    BY DEF Plotted
  <1>2. ys \in [1..n -> Int]
    BY DEF Plotted, Values
  <1>3. Fitted(pts, ys, excluded).fit = ols_fit(xs, ys)
    BY DEF Fitted
  <1> HIDE DEF n, xs, ys
  <1>4. Line(ols_fit(xs, ys))
    BY <1>1, <1>2, OlsIs
  <1> QED
    BY <1>3, <1>4 DEF ys

LEMMA TrendIs ==
    ASSUME NEW pts, Plotted(pts), Dated(ToSet(pts))
    PROVE  LET trend == fit_trend(pts, "util")
           IN  trend.class = "UNKNOWN" \/ Line(trend.fit)
  <1> DEFINE gone == {pts[i].day : i \in robust_outliers(Values(pts, "util"))}
             kept == ByDay({p \in ToSet(pts) : p.day \notin gone})
             trend == fit_trend(pts, "util")
  <1>1. CASE Len(pts) < 2
    BY <1>1 DEF fit_trend
  <1>2. CASE ~(Len(pts) < 2)
    <2>1. trend = WithoutOutliers(pts, "util", gone)
      BY <1>2 DEF fit_trend
    <2>2. trend \in {Fitted(pts, Values(pts, "util"), {}), Fitted(kept, Values(kept, "util"), gone)}
      BY <2>1 DEF WithoutOutliers
    <2>3. Plotted(kept)
      <3> DEFINE K == {p \in ToSet(pts) : p.day \notin gone}
                 c == Cardinality(K)
      <3>1. K \in SUBSET ToSet(pts)
        OBVIOUS
      <3> HIDE DEF K
      <3>2. Dated(K)
        BY <3>1, FS_Subset DEF Dated
      <3>3. c \in Nat /\ ByDay(K) \in [1..c -> K] /\ Len(ByDay(K)) = c
        BY <3>2, ByDayIs
      <3>4. \A p \in K : p.x \in Int /\ p.util \in Int
        BY <3>1 DEF Plotted, ToSet
      <3>5. Plotted(ByDay(K))
        BY <3>3, <3>4 DEF Plotted
      <3> QED
        BY <3>5 DEF K
    <2> HIDE DEF kept, gone, trend
    <2>4. /\ Line(Fitted(pts, Values(pts, "util"), {}).fit)
          /\ Line(Fitted(kept, Values(kept, "util"), gone).fit)
      BY <2>3, FittedIs
    <2> QED
      BY <2>2, <2>4 DEF trend
  <1> QED
    BY <1>1, <1>2

\* A trend of which a crossing can be told.
Growing(trend) == trend.class \notin {"UNKNOWN", "VOLATILE"} /\ trend.fit.sxy > 0

Until(trend, p, last) == days_until(trend.fit, p, last.x)

Per(trend) == trend.fit.n * trend.fit.sxy

\* The verdict on a threshold.
LEMMA CrossingIs ==
    ASSUME NEW p \in Int, NEW trend, trend.class = "UNKNOWN" \/ Line(trend.fit),
           NEW last, last.x \in Int, NEW current \in Int, NEW quality
    PROVE  LET t == evaluate_threshold(p, trend, current, last, quality)
               valid == p > 0 /\ p <= 100 /\ quality \notin Unusable
               until == Until(trend, p, last)
               per == Per(trend)
           IN  /\ t.status = "ALREADY_EXCEEDED" <=>
                    valid /\ (current >= p \/ (Growing(trend) /\ until <= 0))
               /\ t.status = "DATE_ESTIMATED" <=>
                    /\ valid /\ current < p /\ Growing(trend)
                    /\ until > 0 /\ until <= MAX_HORIZON_DAYS * per
               /\ t.status = "DATE_ESTIMATED" => t.day = last.day + Round(until, per)
  <1> DEFINE t == evaluate_threshold(p, trend, current, last, quality)
             until == Until(trend, p, last)
             per == Per(trend)
             fit == trend.fit
  <1>1. CASE p <= 0 \/ p > 100 \/ quality \in Unusable \/ current >= p
    BY <1>1 DEF evaluate_threshold, Status
  <1>2. CASE ~(p <= 0 \/ p > 100 \/ quality \in Unusable \/ current >= p)
    <2>1. CASE trend.class \in {"UNKNOWN", "VOLATILE"}
      BY <1>2, <2>1 DEF evaluate_threshold, Status, Growing
    <2>2. CASE trend.class \notin {"UNKNOWN", "VOLATILE"}
      <3>1. /\ fit.n \in Int /\ fit.sx \in Int /\ fit.sy \in Int /\ fit.sxx \in Int
            /\ fit.sxy \in Int
        BY <2>2 DEF Line
      <3>2. until \in Int /\ per \in Int /\ MAX_HORIZON_DAYS * per \in Int
        BY <3>1, CapacityAssumption DEF Until, Per, days_until
      <3>3. t = IF fit.sxy <= 0 THEN Status("NOT_EXPECTED_WITHIN_HORIZON")
                ELSE IF until <= 0 THEN Status("ALREADY_EXCEEDED")
                ELSE IF until > MAX_HORIZON_DAYS * per
                     THEN Status("NOT_EXPECTED_WITHIN_HORIZON")
                ELSE [status |-> "DATE_ESTIMATED", day |-> last.day + Round(until, per)]
        BY <1>2, <2>2 DEF evaluate_threshold, Until, Per
      <3> HIDE DEF t, until, per
      <3>4. CASE fit.sxy <= 0
        BY <1>2, <2>2, <3>1, <3>3, <3>4 DEF Status, Growing, t, until, per
      <3>5. CASE ~(fit.sxy <= 0)
        BY <1>2, <2>2, <3>1, <3>2, <3>3, <3>5 DEF Status, Growing, t, until, per
      <3> QED
        BY <3>4, <3>5
    <2> QED
      BY <2>1, <2>2
  <1> QED
    BY <1>1, <1>2

\* The line reaches a lower threshold sooner.
LEMMA UntilKeepsOrder ==
    ASSUME NEW p \in Int, NEW q \in Int, p < q, NEW trend, Line(trend.fit),
           NEW last, last.x \in Int
    PROVE  /\ Until(trend, p, last) \in Int /\ Until(trend, q, last) \in Int
           /\ Until(trend, p, last) <= Until(trend, q, last)
  <1> DEFINE n == trend.fit.n
             sxx == trend.fit.sxx
             sy == trend.fit.sy
             rest == (trend.fit.sx - n * last.x) * trend.fit.sxy
  <1>1. n \in Nat /\ sxx \in Nat /\ sy \in Int /\ rest \in Int
    BY DEF Line
  <1>2. /\ Until(trend, p, last) = (n * p - sy) * sxx + rest
        /\ Until(trend, q, last) = (n * q - sy) * sxx + rest
    BY DEF Until, days_until
  <1> HIDE DEF n, sxx, sy, rest
  <1>3. n * p <= n * q /\ n * p \in Int /\ n * q \in Int
    BY <1>1
  <1> DEFINE a == n * p - sy
             b == n * q - sy
  <1>4. a \in Int /\ b \in Int /\ a <= b
    BY <1>1, <1>3
  <1> HIDE DEF a, b
  <1>5. a * sxx <= b * sxx /\ a * sxx \in Int /\ b * sxx \in Int
    BY <1>1, <1>4
  <1> QED
    BY <1>1, <1>2, <1>5 DEF a, b

\* How far the line is from a threshold r days after the last point.
LEMMA MissIs ==
    ASSUME NEW trend, Line(trend.fit), NEW last, last.x \in Int, NEW p \in Int, NEW r \in Int
    PROVE  predict(trend.fit, last.x + r) - p * trend.fit.n * trend.fit.sxx
              = Per(trend) * r - Until(trend, p, last)
  <1> DEFINE n == trend.fit.n
             sx == trend.fit.sx
             sy == trend.fit.sy
             sxx == trend.fit.sxx
             sxy == trend.fit.sxy
             x == last.x
  <1>1. n \in Int /\ sx \in Int /\ sy \in Int /\ sxx \in Int /\ sxy \in Int /\ x \in Int
    BY DEF Line
  <1>2. /\ predict(trend.fit, x + r) = sy * sxx + (n * (x + r) - sx) * sxy
        /\ Per(trend) = n * sxy
        /\ Until(trend, p, last) = (n * p - sy) * sxx + (sx - n * x) * sxy
    BY DEF predict, Per, Until, days_until
  <1> HIDE DEF n, sx, sy, sxx, sxy, x
  <1>3. (sy * sxx + (n * (x + r) - sx) * sxy) - p * n * sxx
            = (n * sxy) * r - ((n * p - sy) * sxx + (sx - n * x) * sxy)
    BY <1>1
  <1>4. predict(trend.fit, x + r) - p * n * sxx = Per(trend) * r - Until(trend, p, last)
    BY <1>2, <1>3
  <1> QED
    BY <1>4 DEF n, sxx, x


\* Days of a line that grows.
LEMMA GrowingIs ==
    ASSUME NEW trend, trend.class = "UNKNOWN" \/ Line(trend.fit), Growing(trend)
    PROVE  Line(trend.fit) /\ Per(trend) \in Nat \ {0}
  <1> DEFINE n == trend.fit.n
             sxy == trend.fit.sxy
  <1>1. Line(trend.fit) /\ sxy \in Int /\ sxy > 0 /\ n \in Nat /\ n # 0
    BY DEF Growing, Line
  <1>2. Per(trend) = n * sxy
    BY DEF Per
  <1> HIDE DEF n, sxy
  <1>3. n * sxy \in Nat \ {0}
    BY <1>1
  <1> QED
    BY <1>1, <1>2, <1>3

\* A date is not before the last day, and the line is near the threshold on it.
LEMMA DateIs ==
    ASSUME NEW p \in Int, NEW trend, trend.class = "UNKNOWN" \/ Line(trend.fit),
           NEW last, last.x \in Int, last.day \in Int, NEW current \in Int, NEW quality,
           NEW t, t = evaluate_threshold(p, trend, current, last, quality),
           t.status = "DATE_ESTIMATED"
    PROVE  LET fit == trend.fit
               miss == predict(fit, t.day - (last.day - last.x)) - p * fit.n * fit.sxx
           IN  /\ t.day \in Int /\ t.day >= last.day
               /\ 2 * Abs(miss) <= fit.n * fit.sxy
  <1> DEFINE until == Until(trend, p, last)
             per == Per(trend)
             r == Round(until, per)
             miss == predict(trend.fit, t.day - (last.day - last.x))
                        - p * trend.fit.n * trend.fit.sxx
  <1>1. Growing(trend) /\ until > 0 /\ t.day = last.day + r
    BY CrossingIs
  <1>2. Line(trend.fit) /\ per \in Nat \ {0} /\ per = trend.fit.n * trend.fit.sxy
    BY <1>1, GrowingIs DEF Per
  <1>3. until \in Int
    BY <1>2 DEF Line, Until, days_until
  <1> HIDE DEF until, per
  <1>4. /\ r \in Int /\ 2 * (per * r - until) <= per /\ 2 * (until - per * r) <= per
        /\ r >= 0
    <2>1. per \in Nat \ {0} /\ until \in Int /\ until >= 0
      BY <1>1, <1>2, <1>3
    <2> HIDE DEF r
    <2>2. /\ Round(until, per) \in Int
          /\ 2 * (per * Round(until, per) - until) <= per
          /\ 2 * (until - per * Round(until, per)) <= per
          /\ Round(until, per) >= 0
      BY <2>1, RoundIs
    <2> QED
      BY <2>2 DEF r
  <1> HIDE DEF r
  <1>5. t.day - (last.day - last.x) = last.x + r
    BY <1>1, <1>4
  <1>6. miss = per * r - until
    <2>1. predict(trend.fit, last.x + r) - p * trend.fit.n * trend.fit.sxx = per * r - until
      BY <1>2, <1>4, MissIs DEF per, until
    <2> QED
      BY <1>5, <2>1
  <1>7. per * r \in Int
    BY <1>2, <1>4
  <1> HIDE DEF miss
  <1>8. 2 * Abs(miss) <= per
    BY <1>2, <1>3, <1>4, <1>6, <1>7 DEF Abs
  <1>9. t.day \in Int /\ t.day >= last.day
    BY <1>1, <1>4
  <1> QED
    BY <1>2, <1>8, <1>9 DEF miss

\* The verdicts on two thresholds.
LEMMA VerdictsAgree ==
    ASSUME NEW p \in Int, NEW q \in Int, p > 0, p < q,
           NEW trend, trend.class = "UNKNOWN" \/ Line(trend.fit),
           NEW last, last.x \in Int, last.day \in Int, NEW current \in Int, NEW quality,
           NEW t, t = evaluate_threshold(p, trend, current, last, quality),
           NEW u, u = evaluate_threshold(q, trend, current, last, quality)
    PROVE  /\ u.status = "ALREADY_EXCEEDED" => t.status = "ALREADY_EXCEEDED"
           /\ u.status = "DATE_ESTIMATED" =>
                \/ t.status = "ALREADY_EXCEEDED"
                \/ t.status = "DATE_ESTIMATED" /\ t.day <= u.day
  <1> DEFINE a == Until(trend, p, last)
             b == Until(trend, q, last)
             per == Per(trend)
             far == MAX_HORIZON_DAYS * per
             Valid(v) == v > 0 /\ v <= 100 /\ quality \notin Unusable
  <1>1. /\ t.status = "ALREADY_EXCEEDED" <=>
             Valid(p) /\ (current >= p \/ (Growing(trend) /\ a <= 0))
        /\ t.status = "DATE_ESTIMATED" <=>
             Valid(p) /\ current < p /\ Growing(trend) /\ a > 0 /\ a <= far
        /\ t.status = "DATE_ESTIMATED" => t.day = last.day + Round(a, per)
    BY CrossingIs
  <1>2. /\ u.status = "ALREADY_EXCEEDED" <=>
             Valid(q) /\ (current >= q \/ (Growing(trend) /\ b <= 0))
        /\ u.status = "DATE_ESTIMATED" <=>
             Valid(q) /\ current < q /\ Growing(trend) /\ b > 0 /\ b <= far
        /\ u.status = "DATE_ESTIMATED" => u.day = last.day + Round(b, per)
    BY CrossingIs
  <1>3. Valid(q) => Valid(p)
    OBVIOUS
  <1>4. Growing(trend) => /\ a \in Int /\ b \in Int /\ a <= b /\ per \in Nat \ {0}
                          /\ far \in Int
    BY GrowingIs, UntilKeepsOrder, CapacityAssumption
  <1> HIDE DEF a, b, per, far, Valid
  <1>5. ASSUME u.status = "ALREADY_EXCEEDED"
        PROVE  t.status = "ALREADY_EXCEEDED"
    BY <1>1, <1>2, <1>3, <1>4, <1>5
  <1>6. ASSUME u.status = "DATE_ESTIMATED", ~(t.status = "ALREADY_EXCEEDED")
        PROVE  t.status = "DATE_ESTIMATED" /\ t.day <= u.day
    <2>1. Growing(trend) /\ Valid(p) /\ b <= far /\ u.day = last.day + Round(b, per)
      BY <1>2, <1>3, <1>6
    <2>2. current < p /\ a > 0 /\ a <= far
      BY <1>1, <1>4, <1>6, <2>1
    <2>3. t.status = "DATE_ESTIMATED" /\ t.day = last.day + Round(a, per)
      BY <1>1, <2>1, <2>2
    <2>4. Round(a, per) <= Round(b, per) /\ Round(a, per) \in Int /\ Round(b, per) \in Int
      BY <1>4, <2>1, RoundKeepsOrder, RoundIs
    <2> QED
      BY <2>1, <2>3, <2>4
  <1> QED
    BY <1>5, <1>6

\* The verdicts of a forecast of the segment.
LEMMA CrossingsAre ==
    ASSUME NEW seg, NEW q, NEW T, NEW dup
    PROVE  LET pts == aggregate_daily(seg, q.tz_offset)
               quality == assess_quality(seg, pts, q, dup)
               end == Last(pts)
               r == Segmented(seg, q, T, dup)
           IN  /\ DOMAIN r.thresholds = T
               /\ \/ \A p \in T : r.thresholds[p].status \notin {"DATE_ESTIMATED", "ALREADY_EXCEEDED"}
                  \/ \A p \in T : r.thresholds[p] =
                        evaluate_threshold(p, fit_trend(pts, "util"), end.util, end, quality)
  <1> DEFINE pts == aggregate_daily(seg, q.tz_offset)
             quality == assess_quality(seg, pts, q, dup)
             end == Last(pts)
             util == fit_trend(pts, "util")
             mean == fit_trend(pts, "mean")
             r == Segmented(seg, q, T, dup)
             none == [p \in T |-> evaluate_threshold(p, None, None, None, quality)]
             some == [p \in T |-> evaluate_threshold(p, util, end.util, end, quality)]
  <1>1. r = Assessed(seg, pts, quality, q, T)
    BY DEF Segmented
  <1> HIDE DEF pts, quality, util, mean
  <1>2. CASE quality \in Unusable
    <2>1. r = NoForecast(quality, seg, "INSUFFICIENT_EVIDENCE", none)
      BY <1>1, <1>2 DEF Assessed
    <2>2. \A p \in T : none[p].status \notin {"DATE_ESTIMATED", "ALREADY_EXCEEDED"}
      BY <1>2 DEF evaluate_threshold, Status
    <2>3. DOMAIN none = T
      OBVIOUS
    <2> HIDE DEF none
    <2>4. r.thresholds = none
      BY <2>1 DEF NoForecast
    <2> QED
      BY <2>2, <2>3, <2>4
  <1>3. CASE quality \notin Unusable
    <2>1. r = Forecasting(seg, pts, quality, q, T, mean, util)
      BY <1>1, <1>3 DEF Assessed, util, mean
    <2>2. DOMAIN some = T /\ \A p \in T : some[p] =
                               evaluate_threshold(p, util, end.util, end, quality)
      OBVIOUS
    <2>3. r.thresholds = some
      BY <2>1 DEF Forecasting, NoForecast
    <2> HIDE DEF some, r
    <2> QED
      BY <2>2, <2>3 DEF pts, quality, util, r
  <1> QED
    BY <1>2, <1>3

(***************************************************************************)
(* The dates of the thresholds are where the fitted line crosses them, and *)
(* the verdicts on two thresholds never contradict each other, for any     *)
(* thresholds (threshold.evaluate_threshold, trends.fit_trend).            *)
(***************************************************************************)
THEOREM CapacityThresholds == Spec => []ThresholdsFitTogether
  <1>1. HistoryInv => ThresholdsFitTogether
    <2> SUFFICES ASSUME HistoryInv PROVE ThresholdsFitTogether
      OBVIOUS
    <2> DEFINE S == Since(samples)
               seg == InOrder(S)
               tz == policy.tz_offset
               D == Days(S, tz)
               pts == aggregate_daily(seg, tz)
               c == Len(pts)
               trend == fit_trend(pts, "util")
               fit == trend.fit
               T == out.thresholds
               Dt(p) == T[p].status = "DATE_ESTIMATED"
               Ex(p) == T[p].status = "ALREADY_EXCEEDED"
    <2>1. /\ samples \in Seq(Samples) /\ policy \in Policies
          /\ out = run_capacity_forecast(samples, policy, Thresholds)
      BY DEF HistoryInv, Forecast
    <2>2. tz \in Int /\ Thresholds \subseteq Int
      BY <2>1, HistoryAssumption
    <2>3. Points = pts
      <3>1. S = {Normalized(samples[i], i) : i \in out.used}
        BY ReadBack
      <3> HIDE DEF S
      <3> QED
        BY <3>1 DEF Points
    <2>4. SUFFICES /\ \A p \in DOMAIN T : Dt(p) =>
                        /\ T[p].day >= Last(pts).day
                        /\ 2 * Abs(predict(fit, T[p].day - Head(pts).day) - p * fit.n * fit.sxx)
                                <= fit.n * fit.sxy
                   /\ \A p, q \in DOMAIN T : (p > 0 /\ p < q) =>
                        /\ Ex(q) => Ex(p)
                        /\ Dt(q) => Ex(p) \/ (Dt(p) /\ T[p].day <= T[q].day)
      BY <2>3 DEF ThresholdsFitTogether
    <2>5. CASE Good(samples) = {}
      <3>1. out = NoForecast("INVALID", <<>>, "INSUFFICIENT_EVIDENCE", <<>>)
        BY <2>1, <2>5, ForecastIs
      <3>2. T = <<>>
        BY <3>1 DEF NoForecast
      <3>3. DOMAIN T = {}
        BY <3>2
      <3> HIDE DEF T
      <3> QED
        BY <3>3
    <2>6. CASE Good(samples) # {}
      <3> DEFINE dup == duplicate_count(samples)
                 quality == assess_quality(seg, pts, policy, dup)
                 end == Last(pts)
      <3>1. out = Segmented(seg, policy, Thresholds, dup)
        BY <2>1, <2>6, ForecastIs
      <3>2. Listable(S) /\ S # {} /\ \A s \in S : Numeric(s)
        BY <2>1, <2>6, SegmentIs, GoodIs
      <3> HIDE DEF S, D
      <3>3. /\ c \in Nat \ {0} /\ pts \in [1..c -> PointsOf(S, tz)]
            /\ Dated(ToSet(pts)) /\ pts[1].day = Min(D) /\ D \subseteq Int /\ Min(D) \in Int
            /\ \A p \in ToSet(pts) : /\ p.day \in Int /\ p.x \in Int /\ p.util \in Int
                                     /\ p.x = p.day - Min(D)
        <4>1. LET k == Cardinality(D)
              IN  /\ D \subseteq Int /\ IsFiniteSet(D) /\ D # {}
                  /\ k \in Nat \ {0} /\ Len(pts) = k /\ pts \in [1..k -> PointsOf(S, tz)]
                  /\ Dated(ToSet(pts))
                  /\ pts[1].day = Min(D)
                  /\ \A p \in ToSet(pts) : /\ p.day \in Int /\ p.x \in Int /\ p.util \in Int
                                           /\ p.x = p.day - Min(D)
          BY <2>2, <3>2, PointsAre DEF D
        <4>2. Min(D) \in Int
          BY <4>1, Extremes
        <4> HIDE DEF pts
        <4> QED
          BY <4>1, <4>2 DEF c
      <3>4. /\ DOMAIN T = Thresholds
            /\ \/ \A p \in Thresholds : ~Dt(p) /\ ~Ex(p)
               \/ \A p \in Thresholds :
                     T[p] = evaluate_threshold(p, trend, end.util, end, quality)
        <4> HIDE DEF seg, dup
        <4>1. /\ DOMAIN Segmented(seg, policy, Thresholds, dup).thresholds = Thresholds
              /\ \/ \A p \in Thresholds : Segmented(seg, policy, Thresholds, dup).thresholds[p].status
                            \notin {"DATE_ESTIMATED", "ALREADY_EXCEEDED"}
                 \/ \A p \in Thresholds : Segmented(seg, policy, Thresholds, dup).thresholds[p] =
                     evaluate_threshold(p, trend, end.util, end, quality)
          BY CrossingsAre
        <4> HIDE DEF quality, trend, end
        <4> QED
          BY <3>1, <4>1
      <3> HIDE DEF pts
      <3>5. end = pts[c] /\ Head(pts) = pts[1]
        BY DEF Last
      <3>6. pts[c] \in ToSet(pts) /\ DOMAIN pts = 1..c
        BY <3>3 DEF ToSet
      <3> HIDE DEF c
      <3>7. /\ end.day \in Int /\ end.x \in Int /\ end.util \in Int
            /\ Head(pts).day = end.day - end.x
        BY <3>3, <3>5, <3>6
      <3>8. trend.class = "UNKNOWN" \/ Line(fit)
        <4>1. Plotted(pts)
          <5>1. \A i \in DOMAIN pts : pts[i] \in ToSet(pts)
            BY DEF ToSet
          <5> QED
            BY <3>3, <3>6, <5>1 DEF Plotted, c
        <4> QED
          BY <3>3, <4>1, TrendIs
      <3> HIDE DEF T, trend, end, quality
      <3>9. CASE \A p \in Thresholds : ~Dt(p) /\ ~Ex(p)
        BY <3>4, <3>9
      <3>10. CASE \A p \in Thresholds :
                     T[p] = evaluate_threshold(p, trend, end.util, end, quality)
        <4>1. ASSUME NEW p \in DOMAIN T, Dt(p)
              PROVE  /\ T[p].day >= end.day
                     /\ 2 * Abs(predict(fit, T[p].day - Head(pts).day) - p * fit.n * fit.sxx)
                            <= fit.n * fit.sxy
          <5>1. /\ p \in Int /\ T[p] = evaluate_threshold(p, trend, end.util, end, quality)
                /\ T[p].status = "DATE_ESTIMATED"
            BY <2>2, <3>4, <3>10, <4>1
          <5> QED
            BY <3>7, <3>8, <5>1, DateIs
        <4>2. ASSUME NEW p \in DOMAIN T, NEW q \in DOMAIN T, p > 0, p < q
              PROVE  /\ Ex(q) => Ex(p)
                     /\ Dt(q) => Ex(p) \/ (Dt(p) /\ T[p].day <= T[q].day)
          <5>1. /\ p \in Int /\ T[p] = evaluate_threshold(p, trend, end.util, end, quality)
                /\ q \in Int /\ T[q] = evaluate_threshold(q, trend, end.util, end, quality)
            BY <2>2, <3>4, <3>10
          <5> QED
            BY <3>7, <3>8, <4>2, <5>1, VerdictsAgree
        <4> QED
          BY <4>1, <4>2 DEF end
      <3> QED
        BY <3>4, <3>9, <3>10
    <2> QED
      BY <2>5, <2>6
  <1> QED
    BY <1>1, HistoryInvariant, PTL

-----------------------------------------------------------------------------
(* The order of the file *)

\* alt has the samples of raw, the k-th one at g[k]: two of one time stay in their
\* order, and two that do not are of one kind of unit.
Rearranged(raw, alt, g) ==
    /\ raw \in Seq(Samples) /\ alt \in Seq(Samples) /\ DOMAIN alt = DOMAIN raw
    /\ g \in Bijection(DOMAIN raw, DOMAIN raw)
    /\ \A k \in DOMAIN raw : alt[g[k]] = raw[k]
    /\ \A k, l \in DOMAIN raw : raw[k].at = raw[l].at => (k < l <=> g[k] < g[l])
    /\ \A k, l \in DOMAIN raw : k < l => g[k] < g[l] \/ Kind(raw[k]) = Kind(raw[l])

LEMMA RearrangedIs ==
    ASSUME NEW raw, NEW alt, NEW g, Rearranged(raw, alt, g)
    PROVE  /\ DOMAIN raw = 1..Len(raw) /\ Len(raw) \in Nat
           /\ \A k \in DOMAIN raw : g[k] \in DOMAIN raw
           /\ \A k, l \in DOMAIN raw : g[k] = g[l] => k = l
           /\ \A m \in DOMAIN raw : \E k \in DOMAIN raw : g[k] = m
           /\ raw \in Seq(Samples) /\ alt \in Seq(Samples) /\ DOMAIN alt = DOMAIN raw
           /\ \A k \in DOMAIN raw : alt[g[k]] = raw[k]
           /\ \A k, l \in DOMAIN raw : raw[k].at = raw[l].at => (k < l <=> g[k] < g[l])
           /\ \A k, l \in DOMAIN raw : k < l => g[k] < g[l] \/ Kind(raw[k]) = Kind(raw[l])
  <1>1. g \in [DOMAIN raw -> DOMAIN raw]
    BY DEF Rearranged, Bijection, Injection
  <1>2. \A k, l \in DOMAIN raw : g[k] = g[l] => k = l
    BY DEF Rearranged, Bijection, Injection, IsInjective
  <1>3. \A m \in DOMAIN raw : \E k \in DOMAIN raw : g[k] = m
    BY DEF Rearranged, Bijection, Surjection
  <1>4. DOMAIN raw = 1..Len(raw) /\ Len(raw) \in Nat
    BY DEF Rearranged
  <1>5. /\ raw \in Seq(Samples) /\ alt \in Seq(Samples) /\ DOMAIN alt = DOMAIN raw
        /\ \A k \in DOMAIN raw : alt[g[k]] = raw[k]
        /\ \A k, l \in DOMAIN raw : raw[k].at = raw[l].at => (k < l <=> g[k] < g[l])
        /\ \A k, l \in DOMAIN raw : k < l => g[k] < g[l] \/ Kind(raw[k]) = Kind(raw[l])
    BY DEF Rearranged
  <1>6. \A k \in DOMAIN raw : g[k] \in DOMAIN raw
    BY <1>1
  <1> QED
    BY <1>2, <1>3, <1>4, <1>5, <1>6

LEMMA SameDuplicate ==
    ASSUME NEW raw, NEW alt, NEW g, Rearranged(raw, alt, g), NEW k \in DOMAIN raw
    PROVE  Duplicate(alt, g[k]) <=> Duplicate(raw, k)
  <1> DEFINE D == DOMAIN raw
  <1>1. /\ \A l \in D : alt[g[l]] = raw[l] /\ g[l] \in D
        /\ \A m \in D : \E l \in D : g[l] = m
    <2>1. \A l \in D : alt[g[l]] = raw[l]
      BY RearrangedIs
    <2>2. \A l \in D : g[l] \in D
      BY RearrangedIs
    <2>3. \A m \in D : \E l \in D : g[l] = m
      BY RearrangedIs
    <2> QED
      BY <2>1, <2>2, <2>3
  <1>2. D = 1..Len(raw) /\ Len(raw) \in Nat
    BY RearrangedIs
  <1>3. \A l, m \in D : raw[l].at = raw[m].at => (l < m <=> g[l] < g[m])
    BY RearrangedIs
  <1>4. k \in D
    OBVIOUS
  <1> HIDE DEF D
  <1>5. \A l \in D : /\ g[l] \in Int /\ g[l] >= 1 /\ g[l] <= Len(raw)
                    /\ l \in Int /\ l >= 1 /\ l <= Len(raw)
    BY <1>1, <1>2
  <1>6. ASSUME Duplicate(alt, g[k]) PROVE Duplicate(raw, k)
    <2>1. PICK j \in 1..(g[k] - 1) : Timed(alt[j]) /\ Key(alt[j]) = Key(alt[g[k]])
      BY <1>6 DEF Duplicate
    <2>2. j \in Int /\ j >= 1 /\ j < g[k] /\ j <= Len(raw)
      BY <1>2, <1>4, <1>5
    <2>3. j \in D /\ j < g[k]
      BY <1>2, <2>2
    <2>4. PICK l \in D : g[l] = j
      BY <1>1, <2>3
    <2>5. Timed(raw[l]) /\ Key(raw[l]) = Key(raw[k])
      BY <1>1, <1>4, <2>1, <2>4
    <2>6. raw[l].at = raw[k].at
      BY <2>5 DEF Key
    <2>7. l < k
      BY <1>3, <1>4, <2>3, <2>4, <2>6
    <2>8. l \in 1..(k - 1)
      BY <1>4, <1>5, <2>7
    <2> QED
      BY <2>5, <2>8 DEF Duplicate
  <1>7. ASSUME Duplicate(raw, k) PROVE Duplicate(alt, g[k])
    <2>1. PICK l \in 1..(k - 1) : Timed(raw[l]) /\ Key(raw[l]) = Key(raw[k])
      BY <1>7 DEF Duplicate
    <2>2. l \in D /\ l < k
      BY <1>2, <1>4, <1>5
    <2>3. raw[l].at = raw[k].at
      BY <2>1 DEF Key
    <2>4. g[l] < g[k] /\ g[l] \in Int /\ g[l] >= 1 /\ g[k] \in Int
      BY <1>3, <1>4, <1>5, <2>2, <2>3
    <2>5. g[l] \in 1..(g[k] - 1)
      BY <2>4
    <2>6. Timed(alt[g[l]]) /\ Key(alt[g[l]]) = Key(alt[g[k]])
      BY <1>1, <1>4, <2>1, <2>2
    <2> QED
      BY <2>5, <2>6 DEF Duplicate
  <1> QED
    BY <1>6, <1>7

LEMMA SameKind ==
    ASSUME NEW raw, NEW alt, NEW g, Rearranged(raw, alt, g)
    PROVE  /\ \A k \in DOMAIN raw : g[k] \in Sound(alt) <=> k \in Sound(raw)
           /\ Sound(raw) # {} => canonical_kind(alt) = canonical_kind(raw)
  <1> DEFINE D == DOMAIN raw
             S == Sound(raw)
             T == Sound(alt)
             m == Min(S)
             n == Min(T)
  <1>1. /\ \A l \in D : alt[g[l]] = raw[l] /\ g[l] \in D
        /\ \A x \in D : \E l \in D : g[l] = x
        /\ D = 1..Len(raw) /\ Len(raw) \in Nat /\ DOMAIN alt = D
        /\ \A k, l \in D : k < l => g[k] < g[l] \/ Kind(raw[k]) = Kind(raw[l])
    BY RearrangedIs
  <1>2. \A k \in D : g[k] \in T <=> k \in S
    BY <1>1, SameDuplicate DEF Sound
  <1>3. S \in SUBSET D /\ T \in SUBSET D
    BY <1>1 DEF Sound
  <1> HIDE DEF D, S, T, m, n
  <1>4. ASSUME S # {} PROVE Kind(alt[n]) = Kind(raw[m])
    <2>1. IsFiniteSet(D) /\ D \subseteq Int
      BY <1>1, FS_Interval
    <2>2. S \in SUBSET Int /\ IsFiniteSet(S) /\ T \in SUBSET Int /\ IsFiniteSet(T)
      BY <1>3, <2>1, FS_Subset
    <2>3. T # {}
      BY <1>2, <1>3, <1>4
    <2>4. m \in S /\ n \in T /\ (\A x \in S : m <= x) /\ (\A x \in T : n <= x)
      BY <1>4, <2>2, <2>3, Extremes DEF m, n
    <2>5. PICK l \in D : g[l] = n
      BY <1>1, <1>3, <2>4
    <2>6. l \in S /\ m \in D /\ g[m] \in T
      BY <1>2, <1>3, <2>4, <2>5
    <2>7. m <= l /\ n <= g[m] /\ l \in Int /\ m \in Int /\ n \in Int /\ g[m] \in Int
      BY <1>1, <2>2, <2>4, <2>6
    <2>8. CASE m = l
      BY <1>1, <2>5, <2>8
    <2>9. CASE m # l
      <3>1. m < l /\ ~(g[m] < g[l])
        BY <2>5, <2>7, <2>9
      <3>2. Kind(raw[m]) = Kind(raw[l])
        BY <1>1, <2>6, <3>1
      <3> QED
        BY <1>1, <2>5, <3>2
    <2> QED
      BY <2>8, <2>9
  <1> QED
    BY <1>2, <1>4 DEF canonical_kind, D, S, T, m, n

LEMMA SameIssue ==
    ASSUME NEW raw, NEW alt, NEW g, Rearranged(raw, alt, g), NEW k \in DOMAIN raw
    PROVE  Issue(alt, g[k]) = Issue(raw, k)
  <1>1. alt[g[k]] = raw[k]
    BY DEF Rearranged
  <1>2. Duplicate(alt, g[k]) <=> Duplicate(raw, k)
    BY SameDuplicate
  <1>3. CASE k \in Sound(raw)
    <2>1. canonical_kind(alt) = canonical_kind(raw)
      BY <1>3, SameKind
    <2> QED
      BY <1>1, <1>2, <2>1 DEF Issue
  <1>4. CASE k \notin Sound(raw)
    <2>1. ~Timed(raw[k]) \/ Duplicate(raw, k) \/ ValueError(raw[k]) # None
      BY <1>4 DEF Sound
    <2> QED
      BY <1>1, <1>2, <2>1 DEF Issue, Timed
  <1> QED
    BY <1>3, <1>4

\* As many are excluded for a reason.
LEMMA SameDuplicates ==
    ASSUME NEW raw, NEW alt, NEW g, Rearranged(raw, alt, g)
    PROVE  duplicate_count(alt) = duplicate_count(raw)
  <1> DEFINE D == DOMAIN raw
             A == {k \in D : Issue(raw, k) = "DUPLICATE_TIMESTAMP"}
             B == {k \in D : Issue(alt, k) = "DUPLICATE_TIMESTAMP"}
             h == [k \in A |-> g[k]]
  <1>1. /\ \A l \in D : g[l] \in D /\ Issue(alt, g[l]) = Issue(raw, l)
        /\ \A x \in D : \E l \in D : g[l] = x
        /\ \A k, l \in D : g[k] = g[l] => k = l
        /\ D = 1..Len(raw) /\ Len(raw) \in Nat /\ DOMAIN alt = D
    BY RearrangedIs, SameIssue
  <1> HIDE DEF D
  <1>2. h \in Bijection(A, B)
    <2>1. h \in [A -> B]
      BY <1>1
    <2>2. \A k, l \in A : h[k] = h[l] => k = l
      BY <1>1
    <2>3. \A x \in B : \E k \in A : h[k] = x
      BY <1>1
    <2> HIDE DEF A, B, h
    <2> QED
      BY <2>1, <2>2, <2>3 DEF Bijection, Injection, Surjection, IsInjective
  <1>3. IsFiniteSet(A)
    <2>1. A \in SUBSET D /\ IsFiniteSet(D)
      BY <1>1, FS_Interval
    <2> HIDE DEF A
    <2> QED
      BY <2>1, FS_Subset
  <1>4. duplicate_count(raw) = Cardinality(A) /\ duplicate_count(alt) = Cardinality(B)
    BY <1>1 DEF duplicate_count, D
  <1> HIDE DEF A, B, h
  <1>5. Cardinality(A) = Cardinality(B)
    BY <1>2, <1>3, FS_Bijection DEF ExistsBijection
  <1> QED
    BY <1>4, <1>5

\* T has the samples of S under other indices, in the same order.
Renames(S, T, h) ==
    /\ Listable(S) /\ Listable(T) /\ h \in Bijection(S, T)
    /\ \A s \in S : /\ h[s].at = s.at /\ h[s].total = s.total /\ h[s].used = s.used
                    /\ h[s].util = s.util /\ h[s].kind = s.kind
    /\ \A s, t \in S : Sooner(s, t) <=> Sooner(h[s], h[t])

LEMMA RenamesIs ==
    ASSUME NEW S, NEW T, NEW h, Renames(S, T, h)
    PROVE  LET c == Cardinality(S)
               L == InOrder(S)
               M == InOrder(T)
           IN  /\ \A s \in S : h[s] \in T
               /\ \A s, t \in S : h[s] = h[t] => s = t
               /\ \A t \in T : \E s \in S : h[s] = t
               /\ \A s \in S : /\ h[s].at = s.at /\ h[s].total = s.total /\ h[s].used = s.used
                               /\ h[s].util = s.util /\ h[s].kind = s.kind
               /\ c \in Nat /\ Cardinality(T) = c /\ Len(L) = c /\ Len(M) = c
               /\ L \in [1..c -> S] /\ M \in [1..c -> T]
               /\ \A n \in 1..c : M[n] = h[L[n]]
  <1> DEFINE c == Cardinality(S)
             L == InOrder(S)
             M == InOrder(T)
  <1>1. h \in [S -> T]
    BY DEF Renames, Bijection, Injection
  <1>2. \A s, t \in S : h[s] = h[t] => s = t
    BY DEF Renames, Bijection, Injection, IsInjective
  <1>3. \A t \in T : \E s \in S : h[s] = t
    BY DEF Renames, Bijection, Surjection
  <1>4. \A s \in S : /\ h[s].at = s.at /\ h[s].total = s.total /\ h[s].used = s.used
                     /\ h[s].util = s.util /\ h[s].kind = s.kind
    BY DEF Renames
  <1>5. Cardinality(T) = c /\ M = [n \in 1..c |-> h[L[n]]]
    BY InOrderRenamed DEF Renames
  <1>6. c \in Nat /\ L \in [1..c -> S] /\ Len(L) = c
    BY InOrderIs DEF Renames
  <1> HIDE DEF c, L, M
  <1>7. M \in [1..c -> T] /\ \A n \in 1..c : M[n] = h[L[n]]
    BY <1>1, <1>5, <1>6
  <1>8. Len(M) = c
    BY <1>6, <1>7
  <1> QED
    BY <1>1, <1>2, <1>3, <1>4, <1>5, <1>6, <1>7, <1>8 DEF c, L, M

LEMMA RenamesPart ==
    ASSUME NEW S, NEW T, NEW h, Renames(S, T, h), NEW U \in SUBSET S, NEW V \in SUBSET T,
           \A s \in S : s \in U <=> h[s] \in V
    PROVE  Renames(U, V, [s \in U |-> h[s]])
  <1> DEFINE f == [s \in U |-> h[s]]
  <1>1. /\ \A s \in S : h[s] \in T
        /\ \A s, t \in S : h[s] = h[t] => s = t
        /\ \A t \in T : \E s \in S : h[s] = t
        /\ \A s \in S : /\ h[s].at = s.at /\ h[s].total = s.total /\ h[s].used = s.used
                        /\ h[s].util = s.util /\ h[s].kind = s.kind
    BY RenamesIs
  <1>2. Listable(U) /\ Listable(V) /\ \A s, t \in S : Sooner(s, t) <=> Sooner(h[s], h[t])
    BY SubsetListable DEF Renames
  <1>3. /\ f \in [U -> V] /\ (\A s, t \in U : f[s] = f[t] => s = t)
        /\ \A t \in V : \E s \in U : f[s] = t
    BY <1>1
  <1>4. \A s \in U : s \in S /\ f[s] = h[s]
    OBVIOUS
  <1> HIDE DEF f
  <1>5. f \in Bijection(U, V)
    BY <1>3 DEF Bijection, Injection, Surjection, IsInjective
  <1>6. \A s \in U : /\ f[s].at = s.at /\ f[s].total = s.total /\ f[s].used = s.used
                     /\ f[s].util = s.util /\ f[s].kind = s.kind
    BY <1>1, <1>4
  <1>7. \A s, t \in U : Sooner(s, t) <=> Sooner(f[s], f[t])
    BY <1>2, <1>4
  <1>8. Renames(U, V, f)
    BY <1>2, <1>5, <1>6, <1>7 DEF Renames
  <1> QED
    BY <1>8 DEF f

\* The points do not depend on the indices.
LEMMA SamePoint ==
    ASSUME NEW S, NEW T, NEW h, Renames(S, T, h), NEW tz, NEW d
    PROVE  PointOf(S, tz, d).mean = PointOf(T, tz, d).mean
           /\ PointOf(S, tz, d).util = PointOf(T, tz, d).util
  <1> DEFINE U == OwnOf(S, tz, d)
             V == OwnOf(T, tz, d)
             f == [s \in U |-> h[s]]
             L == InOrder(U)
             M == InOrder(V)
             c == Cardinality(U)
  <1>1. U \in SUBSET S /\ V \in SUBSET T
    BY DEF OwnOf
  <1>2. \A s \in S : s \in U <=> h[s] \in V
    BY RenamesIs DEF OwnOf
  <1>3. Renames(U, V, f)
    BY <1>1, <1>2, RenamesPart
  <1> HIDE DEF U, V, f
  <1>4. /\ c \in Nat /\ L \in [1..c -> U] /\ M \in [1..c -> V]
        /\ \A n \in 1..c : M[n] = f[L[n]]
        /\ \A s \in U : f[s].used = s.used /\ f[s].util = s.util
    BY <1>3, RenamesIs
  <1> HIDE DEF L, M, c
  <1>5. \A n \in 1..c : M[n].used = L[n].used /\ M[n].util = L[n].util
    BY <1>4
  <1>6. DOMAIN L = 1..c /\ DOMAIN M = 1..c
    BY <1>4
  <1>7. /\ [n \in DOMAIN L |-> L[n].used] = [n \in DOMAIN M |-> M[n].used]
        /\ [n \in DOMAIN L |-> L[n].util] = [n \in DOMAIN M |-> M[n].util]
    BY <1>5, <1>6
  <1>8. /\ PointOf(S, tz, d).mean = Mean([n \in DOMAIN L |-> L[n].used])
        /\ PointOf(S, tz, d).util = Mean([n \in DOMAIN L |-> L[n].util])
        /\ PointOf(T, tz, d).mean = Mean([n \in DOMAIN M |-> M[n].used])
        /\ PointOf(T, tz, d).util = Mean([n \in DOMAIN M |-> M[n].util])
    BY DEF PointOf, Point, L, M, U, V
  <1> QED
    BY <1>7, <1>8

LEMMA SamePoints ==
    ASSUME NEW S, NEW T, NEW h, Renames(S, T, h), NEW tz
    PROVE  aggregate_daily(InOrder(T), tz) = aggregate_daily(InOrder(S), tz)
  <1> DEFINE D == Days(S, tz)
             E == Days(T, tz)
  <1>1. D = E
    <2>1. /\ \A s \in S : h[s] \in T /\ h[s].at = s.at
          /\ \A t \in T : \E s \in S : h[s] = t
      BY RenamesIs
    <2> QED
      BY <2>1 DEF Days
  <1>2. ASSUME NEW d PROVE PointOf(S, tz, d) = PointOf(T, tz, d)
    <2>1. PointOf(S, tz, d).mean = PointOf(T, tz, d).mean
           /\ PointOf(S, tz, d).util = PointOf(T, tz, d).util
      BY SamePoint
    <2>2. PointOf(S, tz, d) =
             [day |-> d, x |-> d - Min(D), mean |-> PointOf(S, tz, d).mean,
              util |-> PointOf(S, tz, d).util]
      BY DEF PointOf, Point
    <2>3. PointOf(T, tz, d) =
             [day |-> d, x |-> d - Min(E), mean |-> PointOf(T, tz, d).mean,
              util |-> PointOf(T, tz, d).util]
      BY DEF PointOf, Point
    <2> HIDE DEF D, E
    <2> QED
      BY <1>1, <2>1, <2>2, <2>3
  <1>3. PointsOf(S, tz) = PointsOf(T, tz)
    BY <1>1, <1>2 DEF PointsOf
  <1>4. Listable(S) /\ Listable(T)
    BY DEF Renames
  <1> QED
    BY <1>3, <1>4, AggregateIs

LEMMA GoodRenamed ==
    ASSUME NEW raw, NEW alt, NEW g, Rearranged(raw, alt, g)
    PROVE  LET h == [s \in Good(raw) |-> Normalized(raw[s.index], g[s.index])]
           IN  Renames(Good(raw), Good(alt), h) /\ \A s \in Good(raw) : h[s].index = g[s.index]
  <1> DEFINE D == DOMAIN raw
             G == Good(raw)
             H == Good(alt)
             A == Accepted(raw)
             B == Accepted(alt)
             h == [s \in G |-> Normalized(raw[s.index], g[s.index])]
  <1>1. /\ raw \in Seq(Samples) /\ alt \in Seq(Samples)
        /\ \A k \in D : alt[g[k]] = raw[k]
        /\ \A k, l \in D : g[k] = g[l] => k = l
    BY RearrangedIs
  <1>2. /\ \A k, l \in D : raw[k].at = raw[l].at => (k < l <=> g[k] < g[l])
        /\ \A m \in D : \E k \in D : g[k] = m
    BY RearrangedIs
  <1>3. A \subseteq D /\ B \subseteq D
    BY RearrangedIs DEF Accepted
  <1>4. \A k \in D : g[k] \in B <=> k \in A
    <2> TAKE k \in D
    <2>1. g[k] \in D /\ DOMAIN alt = D
      BY RearrangedIs
    <2>2. Issue(alt, g[k]) = Issue(raw, k)
      BY SameIssue
    <2> QED
      BY <2>1, <2>2 DEF Accepted
  <1>5. Listable(G) /\ Listable(H)
    BY <1>1, GoodIs
  <1>6. /\ \A s \in G : s.index \in A /\ s = Normalized(raw[s.index], s.index)
        /\ \A k \in A : Normalized(raw[k], k) \in G /\ Normalized(raw[k], k).index = k
    BY <1>1, GoodIs
  <1>7. /\ \A t \in H : t.index \in B /\ t = Normalized(alt[t.index], t.index)
        /\ \A k \in B : Normalized(alt[k], k) \in H /\ Normalized(alt[k], k).index = k
    BY <1>1, GoodIs
  <1>8. \A s \in G : h[s] = Normalized(raw[s.index], g[s.index])
    OBVIOUS
  <1> HIDE DEF D, G, H, A, B
  <1>9. ASSUME NEW s \in G
        PROVE  h[s] \in H /\ h[s].index = g[s.index]
    <2>1. s.index \in A /\ s.index \in D /\ g[s.index] \in B
      BY <1>3, <1>4, <1>6
    <2>2. h[s] = Normalized(alt[g[s.index]], g[s.index])
      BY <1>1, <1>8, <2>1
    <2> QED
      BY <1>7, <2>1, <2>2
  <1>10. ASSUME NEW s \in G
         PROVE  /\ h[s].at = s.at /\ h[s].total = s.total /\ h[s].used = s.used
                /\ h[s].util = s.util /\ h[s].kind = s.kind
    <2> DEFINE r == raw[s.index]
               k == s.index
    <2>1. s = Normalized(r, k) /\ h[s] = Normalized(r, g[k])
      BY <1>6
    <2> HIDE DEF r, k, h
    <2>2. /\ Normalized(r, g[k]).at = Normalized(r, k).at
          /\ Normalized(r, g[k]).total = Normalized(r, k).total
          /\ Normalized(r, g[k]).used = Normalized(r, k).used
          /\ Normalized(r, g[k]).util = Normalized(r, k).util
          /\ Normalized(r, g[k]).kind = Normalized(r, k).kind
      BY DEF Normalized
    <2> QED
      BY <2>1, <2>2
  <1>11. h \in [G -> H]
    BY <1>9
  <1>12. DOMAIN h = G
    OBVIOUS
  <1> HIDE DEF h
  <1>13. \A s, t \in G : h[s] = h[t] => s = t
    <2> SUFFICES ASSUME NEW s \in G, NEW t \in G, h[s] = h[t] PROVE s = t
      OBVIOUS
    <2>1. g[s.index] = g[t.index] /\ s.index \in D /\ t.index \in D
      BY <1>3, <1>6, <1>9
    <2>2. s.index = t.index
      BY <1>1, <2>1
    <2> QED
      BY <1>6, <2>2
  <1>14. \A t \in H : \E s \in G : h[s] = t
    <2> TAKE t \in H
    <2>1. t.index \in B /\ t.index \in D /\ t = Normalized(alt[t.index], t.index)
      BY <1>3, <1>7
    <2>2. PICK k \in D : g[k] = t.index
      BY <1>2, <2>1
    <2> DEFINE s == Normalized(raw[k], k)
    <2>3. k \in A /\ s \in G /\ s.index = k
      BY <1>4, <1>6, <2>1, <2>2
    <2> HIDE DEF s
    <2>4. h[s] = Normalized(raw[k], g[k])
      BY <1>8, <2>3
    <2>5. h[s] = t
      BY <1>1, <2>1, <2>2, <2>4
    <2> QED
      BY <2>3, <2>5
  <1>15. ASSUME NEW s \in G, NEW t \in G
         PROVE  Sooner(s, t) <=> Sooner(h[s], h[t])
    <2> DEFINE k == s.index
               l == t.index
    <2>1. k \in D /\ l \in D /\ k \in A /\ l \in A
      BY <1>3, <1>6
    <2>2. s.at = raw[k].at /\ t.at = raw[l].at
      BY <1>6 DEF Normalized
    <2>3. /\ h[s].at = s.at /\ h[t].at = t.at
          /\ h[s].index = g[k] /\ h[t].index = g[l]
      BY <1>9, <1>10
    <2>4. s.at = t.at => (k < l <=> g[k] < g[l])
      BY <1>2, <2>1, <2>2
    <2> QED
      BY <2>3, <2>4 DEF Sooner
  <1>16. h \in Bijection(G, H)
    BY <1>11, <1>13, <1>14 DEF Bijection, Injection, Surjection, IsInjective
  <1>17. Renames(G, H, h)
    BY <1>5, <1>10, <1>15, <1>16 DEF Renames
  <1> QED
    BY <1>9, <1>17 DEF h, G, H

\* The same resize is the last one.
LEMMA SinceRenamed ==
    ASSUME NEW raw, NEW alt, NEW g, Rearranged(raw, alt, g)
    PROVE  LET f == [s \in Since(raw) |-> Normalized(raw[s.index], g[s.index])]
           IN  Renames(Since(raw), Since(alt), f) /\ \A s \in Since(raw) : f[s].index = g[s.index]
  <1> DEFINE G == Good(raw)
             H == Good(alt)
             U == Since(raw)
             V == Since(alt)
             h == [s \in G |-> Normalized(raw[s.index], g[s.index])]
             f == [s \in U |-> Normalized(raw[s.index], g[s.index])]
             L == normalize_samples(raw)
             M == normalize_samples(alt)
             c == Cardinality(G)
             E == Events(raw)
             m == Max(E)
  <1>1. Renames(G, H, h) /\ \A s \in G : h[s].index = g[s.index]
    BY GoodRenamed
  <1>2. raw \in Seq(Samples) /\ alt \in Seq(Samples)
    BY RearrangedIs
  <1>3. L = InOrder(G) /\ M = InOrder(H)
    BY <1>2, GoodIs
  <1>4. U \in SUBSET G /\ V \in SUBSET H
    BY DEF Since
  <1>5. E \subseteq 2..c /\ (E # {} => m \in E)
    BY <1>2, SegmentIs
  <1>6. f = [s \in U |-> h[s]]
    BY <1>4
  <1>7. /\ E = {k \in 2..Len(L) : 200 * Abs(L[k].total - L[k - 1].total) > L[k - 1].total}
        /\ Events(alt) =
              {k \in 2..Len(M) : 200 * Abs(M[k].total - M[k - 1].total) > M[k - 1].total}
    BY DEF Events, detect_capacity_events
  <1>8. /\ U = {s \in G : E # {} => s.at >= L[m].at}
        /\ V = {t \in H : Events(alt) # {} => t.at >= M[Max(Events(alt))].at}
    BY DEF Since
  <1> HIDE DEF G, H, U, V, h, f, L, M, c, E
  <1>9. /\ c \in Nat /\ Len(L) = c /\ Len(M) = c /\ L \in [1..c -> G]
        /\ \A n \in 1..c : M[n] = h[L[n]]
        /\ \A s \in G : h[s] \in H /\ h[s].at = s.at /\ h[s].total = s.total
    BY <1>1, <1>3, RenamesIs DEF c
  <1>10. \A n \in 1..c : M[n].total = L[n].total /\ M[n].at = L[n].at
    BY <1>9
  <1>11. \A k \in 2..c : M[k].total = L[k].total /\ M[k - 1].total = L[k - 1].total
    <2>1. \A k \in 2..c : k \in 1..c /\ k - 1 \in 1..c
      BY <1>9
    <2> QED
      BY <1>10, <2>1
  <1>12. Events(alt) = E
    BY <1>7, <1>9, <1>11
  <1>13. E # {} => M[m].at = L[m].at
    BY <1>5, <1>9, <1>10
  <1>14. \A s \in G : s \in U <=> h[s] \in V
    BY <1>8, <1>9, <1>12, <1>13
  <1>15. Renames(U, V, f)
    BY <1>1, <1>4, <1>6, <1>14, RenamesPart
  <1>16. \A s \in U : f[s].index = g[s.index]
    BY <1>1, <1>4, <1>6
  <1> QED
    BY <1>15, <1>16 DEF f, U, V

\* The forecast of a segment, but for the indices.
LEMMA SameForecast ==
    ASSUME NEW seg, NEW seg2, NEW q, NEW T, NEW dup,
           aggregate_daily(seg2, q.tz_offset) = aggregate_daily(seg, q.tz_offset),
           Last(seg2).total = Last(seg).total, Last(seg2).kind = Last(seg).kind
    PROVE  Segmented(seg2, q, T, dup) =
              [Segmented(seg, q, T, dup) EXCEPT !.used = {s.index : s \in ToSet(seg2)}]
  <1> DEFINE pts == aggregate_daily(seg, q.tz_offset)
             quality == assess_quality(seg, pts, q, dup)
             mean == fit_trend(pts, "mean")
             util == fit_trend(pts, "util")
             U == {s.index : s \in ToSet(seg)}
             V == {s.index : s \in ToSet(seg2)}
  <1>1. assess_quality(seg2, pts, q, dup) = quality
    BY DEF assess_quality
  <1>2. /\ Segmented(seg, q, T, dup) = Assessed(seg, pts, quality, q, T)
        /\ Segmented(seg2, q, T, dup) = Assessed(seg2, pts, quality, q, T)
    BY <1>1 DEF Segmented
  <1>3. ASSUME NEW x, NEW y, NEW z
        PROVE  NoForecast(x, seg2, y, z) = [NoForecast(x, seg, y, z) EXCEPT !.used = V]
    <2> DEFINE none == [k \in DOMAIN HorizonDays |-> y]
    <2>1. /\ NoForecast(x, seg, y, z) =
              [data_quality |-> x, used |-> U, trend |-> "UNKNOWN", horizons |-> none,
               thresholds |-> z, confidence |-> "INSUFFICIENT"]
          /\ NoForecast(x, seg2, y, z) =
              [data_quality |-> x, used |-> V, trend |-> "UNKNOWN", horizons |-> none,
               thresholds |-> z, confidence |-> "INSUFFICIENT"]
      BY DEF NoForecast
    <2> HIDE DEF none, U, V
    <2> QED
      BY <2>1
  <1> HIDE DEF pts, quality, mean, util
  <1>4. Forecasting(seg2, pts, quality, q, T, mean, util)
           = [Forecasting(seg, pts, quality, q, T, mean, util) EXCEPT !.used = V]
    <2>1. CASE mean.fit = None
      BY <1>3, <2>1 DEF Forecasting
    <2>2. CASE mean.fit # None
      <3> DEFINE end == Last(pts)
                 crossings == [p \in T |-> evaluate_threshold(p, util, end.util, end, quality)]
                 horizons == [k \in DOMAIN HorizonDays |->
                                  _horizon_result(mean.fit, end.x + HorizonDays[k],
                                                  Last(seg).total,
                                                  Last(seg).kind = "percentage")]
                 conf == _compute_confidence(quality, mean, q, span_days(pts))
      <3>1. Forecasting(seg, pts, quality, q, T, mean, util) =
              [data_quality |-> quality, used |-> U, trend |-> mean.class,
               horizons |-> horizons, thresholds |-> crossings, confidence |-> conf]
        BY <2>2 DEF Forecasting
      <3>2. Forecasting(seg2, pts, quality, q, T, mean, util) =
              [data_quality |-> quality, used |-> V, trend |-> mean.class,
               horizons |-> horizons, thresholds |-> crossings, confidence |-> conf]
        BY <2>2 DEF Forecasting
      <3> HIDE DEF horizons, crossings, conf, U, V
      <3> QED
        BY <3>1, <3>2
    <2> QED
      BY <2>1, <2>2
  <1>5. CASE quality \in Unusable
    BY <1>2, <1>3, <1>5 DEF Assessed
  <1>6. CASE quality \notin Unusable
    BY <1>2, <1>4, <1>6 DEF Assessed, mean, util
  <1> QED
    BY <1>5, <1>6

LEMMA RearrangedForecast ==
    ASSUME NEW raw, NEW alt, NEW g, Rearranged(raw, alt, g), NEW q, NEW T
    PROVE  run_capacity_forecast(alt, q, T) =
              [run_capacity_forecast(raw, q, T) EXCEPT !.used = {g[k] : k \in @}]
  <1> DEFINE U == Since(raw)
             V == Since(alt)
             f == [s \in U |-> Normalized(raw[s.index], g[s.index])]
             L == InOrder(U)
             M == InOrder(V)
             dup == duplicate_count(raw)
             r == run_capacity_forecast(raw, q, T)
             r2 == run_capacity_forecast(alt, q, T)
             I == {g[k] : k \in {s.index : s \in U}}
  <1>1. raw \in Seq(Samples) /\ alt \in Seq(Samples)
    BY RearrangedIs
  <1>2. Renames(U, V, f) /\ \A s \in U : f[s].index = g[s.index]
    BY SinceRenamed
  <1>3. duplicate_count(alt) = dup
    BY SameDuplicates
  <1>4. r.used = {s.index : s \in U}
    BY <1>1, UsedIs
  <1>5. Good(raw) = {} <=> Good(alt) = {}
    <2> DEFINE h == [s \in Good(raw) |-> Normalized(raw[s.index], g[s.index])]
    <2>1. Renames(Good(raw), Good(alt), h)
      BY GoodRenamed
    <2> HIDE DEF h
    <2> QED
      BY <2>1, RenamesIs
  <1>6. U \subseteq Good(raw) /\ (Good(raw) # {} => U # {}) /\ Listable(U) /\ Listable(V)
    BY <1>1, SegmentIs
  <1>7. /\ r = IF Good(raw) = {} THEN NoForecast("INVALID", <<>>, "INSUFFICIENT_EVIDENCE", <<>>)
               ELSE Segmented(L, q, T, dup)
        /\ r2 = IF Good(alt) = {} THEN NoForecast("INVALID", <<>>, "INSUFFICIENT_EVIDENCE", <<>>)
                ELSE Segmented(M, q, T, dup)
    BY <1>1, <1>3, ForecastIs
  <1> HIDE DEF f, U, V, r, r2, dup
  <1>8. r2 = [r EXCEPT !.used = I]
    <2>1. CASE Good(raw) = {}
      <3>1. r2 = r /\ r = NoForecast("INVALID", <<>>, "INSUFFICIENT_EVIDENCE", <<>>)
        BY <1>5, <1>7, <2>1
      <3>2. U = {}
        BY <1>6, <2>1
      <3>3. I = {} /\ r.used = {}
        BY <1>4, <3>2
      <3> HIDE DEF I
      <3>4. [r EXCEPT !.used = r.used] = r
        BY <3>1 DEF NoForecast
      <3> QED
        BY <3>1, <3>3, <3>4
    <2>2. CASE Good(raw) # {}
      <3> DEFINE c == Cardinality(U)
      <3>1. r = Segmented(L, q, T, dup) /\ r2 = Segmented(M, q, T, dup)
        BY <1>5, <1>7, <2>2
      <3>2. aggregate_daily(M, q.tz_offset) = aggregate_daily(L, q.tz_offset)
        BY <1>2, SamePoints
      <3>3. /\ c \in Nat /\ Len(L) = c /\ Len(M) = c /\ L \in [1..c -> U]
            /\ \A n \in 1..c : M[n] = f[L[n]]
            /\ \A s \in U : f[s] \in V /\ f[s].total = s.total /\ f[s].kind = s.kind
            /\ \A t \in V : \E s \in U : f[s] = t
        BY <1>2, RenamesIs
      <3>4. ToSet(M) = V
        BY <1>6, InOrderIs
      <3>5. c # 0
        BY <1>6, <2>2, FS_EmptySet DEF Listable
      <3> HIDE DEF L, M, c
      <3>6. c \in 1..c /\ M[c] = f[L[c]] /\ L[c] \in U
        BY <3>3, <3>5
      <3>7. Last(L) = L[c] /\ Last(M) = M[c]
        BY <3>3 DEF Last
      <3>8. Last(M).total = Last(L).total /\ Last(M).kind = Last(L).kind
        BY <3>3, <3>6, <3>7
      <3>9. {t.index : t \in ToSet(M)} = I
        <4>1. {t.index : t \in V} = {g[s.index] : s \in U}
          BY <1>2, <3>3
        <4> QED
          BY <3>4, <4>1
      <3>10. Segmented(M, q, T, dup) =
                [Segmented(L, q, T, dup) EXCEPT !.used = {t.index : t \in ToSet(M)}]
        BY <3>2, <3>8, SameForecast
      <3> HIDE DEF I
      <3> QED
        BY <3>1, <3>9, <3>10
    <2> QED
      BY <2>1, <2>2
  <1>9. {g[k] : k \in r.used} = I
    BY <1>4
  <1>10. r2 = [r EXCEPT !.used = {g[k] : k \in @}]
    BY <1>8, <1>9
  <1> QED
    BY <1>10 DEF r, r2

\* Two neighbours of different times and of one kind change places.
LEMMA NeighboursRearranged ==
    ASSUME HistoryInv, NEW i \in 1..(Len(samples) - 1),
           At(i) # At(i + 1), Kind(samples[i]) = Kind(samples[i + 1])
    PROVE  Rearranged(samples, Neighbours(i), [k \in DOMAIN samples |-> Rank(i, k)])
  <1> DEFINE raw == samples
             alt == Neighbours(i)
             D == DOMAIN raw
             g == [k \in D |-> Rank(i, k)]
             n == Len(raw)
  <1>1. raw \in Seq(Samples)
    BY DEF HistoryInv
  <1>2. D = 1..n /\ n \in Nat
    BY <1>1
  <1>3. i \in D /\ i + 1 \in D /\ i \in Int
    BY <1>2
  <1>4. alt = [raw EXCEPT ![i] = raw[i + 1], ![i + 1] = raw[i]]
    BY DEF Neighbours
  <1>5. alt \in Seq(Samples) /\ DOMAIN alt = D
    BY <1>1, <1>3, <1>4
  <1>6. \A k \in D : g[k] = IF k = i THEN i + 1 ELSE IF k = i + 1 THEN i ELSE k
    BY DEF Rank
  <1>7. raw[i].at # raw[i + 1].at /\ Kind(raw[i]) = Kind(raw[i + 1])
    BY DEF At
  <1>8. DOMAIN g = D
    OBVIOUS
  <1>9. /\ alt[i] = raw[i + 1] /\ alt[i + 1] = raw[i]
        /\ \A k \in D : k # i /\ k # i + 1 => alt[k] = raw[k]
    BY <1>1, <1>3, <1>4
  <1>10. g \in [D -> D]
    BY <1>3, <1>6
  <1> HIDE DEF D, g, alt, n
  <1>11. \A k \in D : k \in Int
    BY <1>2
  <1>12. \A k, l \in D : g[k] = g[l] => k = l
    BY <1>3, <1>6, <1>11
  <1>13. \A m \in D : g[g[m]] = m
    BY <1>3, <1>6, <1>10
  <1>14. \A m \in D : \E k \in D : g[k] = m
    BY <1>10, <1>13
  <1>15. g \in Bijection(D, D)
    BY <1>10, <1>12, <1>14 DEF Bijection, Injection, Surjection, IsInjective
  <1>16. \A k \in D : alt[g[k]] = raw[k]
    BY <1>3, <1>6, <1>9
  <1>17. ASSUME NEW k \in D, NEW l \in D
         PROVE  \/ k < l <=> g[k] < g[l]
                \/ k = i /\ l = i + 1
                \/ k = i + 1 /\ l = i
    BY <1>3, <1>6, <1>11
  <1>18. \A k, l \in D : raw[k].at = raw[l].at => (k < l <=> g[k] < g[l])
    BY <1>7, <1>17
  <1>19. \A k, l \in D : k < l => g[k] < g[l] \/ Kind(raw[k]) = Kind(raw[l])
    BY <1>7, <1>17
  <1> QED
    BY <1>1, <1>5, <1>15, <1>16, <1>18, <1>19 DEF Rearranged, D, g, alt

(***************************************************************************)
(* The forecast does not depend on the order of the file, but for samples  *)
(* of one time and for the kind of unit that comes first                   *)
(* (normalization.normalize_samples).                                      *)
(***************************************************************************)
THEOREM CapacityFileOrder == Spec => []FileOrderIrrelevant
  <1>1. HistoryInv => FileOrderIrrelevant
    <2> SUFFICES ASSUME HistoryInv, NEW i \in 1..(Len(samples) - 1),
                        At(i) # At(i + 1), Kind(samples[i]) = Kind(samples[i + 1])
                 PROVE  Forecast(Neighbours(i)) = [out EXCEPT !.used = {Rank(i, k) : k \in @}]
      BY DEF FileOrderIrrelevant
    <2> DEFINE g == [k \in DOMAIN samples |-> Rank(i, k)]
               r == run_capacity_forecast(samples, policy, Thresholds)
    <2>1. Rearranged(samples, Neighbours(i), g)
      BY NeighboursRearranged
    <2>2. out = r
      BY DEF HistoryInv, Forecast
    <2>3. r.used \subseteq DOMAIN samples
      <3>1. out.used \subseteq Accepted(samples)
        BY ReadBack
      <3> QED
        BY <2>2, <3>1 DEF Accepted
    <2>4. {g[k] : k \in r.used} = {Rank(i, k) : k \in r.used}
      BY <2>3
    <2> HIDE DEF g
    <2>5. Forecast(Neighbours(i)) = [r EXCEPT !.used = {g[k] : k \in @}]
      BY <2>1, RearrangedForecast DEF Forecast
    <2> HIDE DEF r
    <2>6. [r EXCEPT !.used = {g[k] : k \in @}] = [r EXCEPT !.used = {Rank(i, k) : k \in @}]
      BY <2>4
    <2> QED
      BY <2>2, <2>5, <2>6
  <1> QED
    BY <1>1, HistoryInvariant, PTL
=============================================================================
