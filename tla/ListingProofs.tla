---------------------------- MODULE ListingProofs ----------------------------
(***************************************************************************)
(* What the operators of Listing return: a listing holds each member once  *)
(* and in its order, and a sum is that of its parts.                       *)
(***************************************************************************)
EXTENDS Integers, Listing, FiniteSetTheorems, FunctionTheorems, SequenceTheorems, WellFoundedInduction, TLAPS

\* ---- numbers and finite sets -------------------------------------------------

\* A set of numbers has a least one.
LEMMA LeastNumber ==
  ASSUME NEW D, D \subseteq Nat, D # {}
  PROVE  \E m \in D : \A n \in D : m <= n
<1> DEFINE R == OpToRel(<, Nat)
<1>1. \E m \in D : \A n \in D : <<n, m>> \notin R
  <2>1. IsWellFoundedOn(R, Nat)
    BY NatLessThanWellFounded
  <2>. HIDE DEF R
  <2>. QED  BY <2>1, WFMin
<1>2. PICK m \in D : \A n \in D : <<n, m>> \notin R
  BY <1>1
<1>3. ASSUME NEW n \in D PROVE m <= n
  <2>1. m \in Nat /\ n \in Nat
    OBVIOUS
  <2>2. ~(n < m)
    BY <1>2, <2>1 DEF OpToRel
  <2>. QED  BY <2>1, <2>2
<1>. QED  BY <1>3

LEMMA SmallerSet ==
  ASSUME NEW S, IsFiniteSet(S), NEW T, T \subseteq S, T # S
  PROVE  Cardinality(T) < Cardinality(S)
<1>1. IsFiniteSet(T) /\ Cardinality(T) <= Cardinality(S) /\ Cardinality(T) # Cardinality(S)
  BY FS_Subset
<1>2. Cardinality(T) \in Nat /\ Cardinality(S) \in Nat
  BY <1>1, FS_CardinalityType
<1>. QED  BY <1>1, <1>2

\* A finite set of numbers has a largest one.
LEMMA LargestNumber ==
  ASSUME NEW D, D \subseteq Nat, IsFiniteSet(D), D # {}
  PROVE  \E m \in D : \A n \in D : n <= m
<1> DEFINE Beyond(m) == {n \in D : m < n}
           C(m) == Cardinality(Beyond(m))
<1>1. ASSUME NEW m \in D PROVE IsFiniteSet(Beyond(m)) /\ C(m) \in Nat
  BY FS_Subset, FS_CardinalityType
<1>2. PICK m \in D : \A n \in D : C(m) <= C(n)
  <2> DEFINE E == {C(n) : n \in D}
  <2>1. E \subseteq Nat /\ E # {}
    BY <1>1
  <2>2. \E m \in E : \A n \in E : m <= n
    BY <2>1, LeastNumber
  <2>. QED  BY <2>2
<1>3. ASSUME NEW n \in D, m < n PROVE FALSE
  <2>0. \A o \in D : o \in Nat
    OBVIOUS
  <2>1. Beyond(n) \subseteq Beyond(m) /\ n \in Beyond(m) /\ n \notin Beyond(n)
    <3>1. n \in Beyond(m) /\ n \notin Beyond(n)
      BY <1>3, <2>0
    <3>2. ASSUME NEW o \in Beyond(n) PROVE o \in Beyond(m)
      <4>1. o \in D /\ o \in Nat /\ n \in Nat /\ m \in Nat /\ n < o
        BY <2>0
      <4>. QED  BY <1>3, <4>1
    <3>. QED  BY <3>1, <3>2
  <2>2. C(n) < C(m)
    <3>1. Beyond(n) # Beyond(m)
      BY <2>1
    <3> HIDE DEF Beyond
    <3>2. Cardinality(Beyond(n)) < Cardinality(Beyond(m))
      BY <1>1, <2>1, <3>1, SmallerSet
    <3>. QED  BY <3>2
  <2>3. C(m) <= C(n) /\ C(m) \in Nat /\ C(n) \in Nat
    BY <1>1, <1>2
  <2> HIDE DEF C
  <2>. QED  BY <2>2, <2>3
<1>4. \A n \in D : n <= m
  <2>1. \A n \in D : n \in Nat /\ m \in Nat
    OBVIOUS
  <2>. QED  BY <1>3, <2>1
<1>. QED  BY <1>4

\* ---- members in order --------------------------------------------------------

\* If what comes up to a member of a finite set, itself included, comes up to another one
\* or the other way round, and of two only to one, the number of those that come up to a
\* member is its place: every number up to that of the members is the place of one only.
LEMMA Ranks ==
  ASSUME NEW S, IsFiniteSet(S), NEW up \in [S -> SUBSET S],
         \A x \in S : x \in up[x],
         \A x, y \in S : up[x] \subseteq up[y] \/ up[y] \subseteq up[x],
         \A x, y \in S : x \in up[y] /\ y \in up[x] => x = y,
         NEW n \in 1..Cardinality(S)
  PROVE  \E x \in S : Cardinality(up[x]) = n /\ \A z \in S : Cardinality(up[z]) = n => z = x
<1> DEFINE rank == [x \in S |-> Cardinality(up[x])]
           N == Cardinality(S)
<1>1. N \in Nat /\ IsFiniteSet(1..N) /\ Cardinality(1..N) = N
  BY FS_CardinalityType, FS_Interval
<1>2. ASSUME NEW x \in S PROVE IsFiniteSet(up[x]) /\ Cardinality(up[x]) \in 1..N
  <2>1. up[x] \subseteq S /\ x \in up[x]
    OBVIOUS
  <2>2. IsFiniteSet(up[x]) /\ Cardinality(up[x]) <= N /\ Cardinality(up[x]) \in Nat
    BY <2>1, FS_Subset, FS_CardinalityType
  <2>3. Cardinality(up[x]) # 0
    BY <2>1, <2>2, FS_EmptySet
  <2> HIDE DEF N
  <2>. QED  BY <1>1, <2>2, <2>3
<1>3. ASSUME NEW x \in S, NEW y \in S, Cardinality(up[x]) = Cardinality(up[y])
      PROVE  x = y
  <2>1. up[x] = up[y]
    <3>1. ASSUME NEW u \in S, NEW v \in S, up[u] \subseteq up[v], Cardinality(up[u]) = Cardinality(up[v])
          PROVE  up[u] = up[v]
      BY <1>2, <3>1, FS_Subset
    <3>. QED  BY <1>3, <3>1
  <2>. QED  BY <2>1
<1> HIDE DEF N
<1>4. rank \in [S -> 1..N]
  BY <1>2
<1>5. rank \in Injection(S, 1..N)
  BY <1>3, <1>4, Fun_IsInj
<1>6. rank \in Surjection(S, 1..N)
  BY <1>1, <1>5, FS_Injection DEF N
<1>7. PICK x \in S : rank[x] = n
  <2>1. n \in 1..N
    BY DEF N
  <2> HIDE DEF rank
  <2>. QED  BY <1>6, <2>1 DEF Surjection
<1>. QED  BY <1>3, <1>7

\* The entries at some places are as many as the places, in the order of the places.
LEMMA PlacesInOrder ==
  ASSUME NEW T, NEW s \in Seq(T), NEW K \in SUBSET DOMAIN s
  PROVE  /\ Cardinality(K) \in 0..Len(s) /\ Len(AtPlaces(s, K)) = Cardinality(K)
         /\ AtPlaces(s, K) \in Seq(T)
         /\ \E place \in [1..Cardinality(K) -> K] :
               /\ \A n \in 1..Cardinality(K) : AtPlaces(s, K)[n] = s[place[n]]
               /\ \A i \in K : \E n \in 1..Cardinality(K) : place[n] = i
               /\ \A m, n \in 1..Cardinality(K) : m < n => place[m] < place[n]
<1> DEFINE N == Cardinality(K)
           C(i) == Cardinality({j \in K : j <= i})
           place == [n \in 1..N |-> CHOOSE i \in K : C(i) = n]
<1>1. DOMAIN s = 1..Len(s) /\ Len(s) \in Nat
  OBVIOUS
<1>2. IsFiniteSet(K) /\ K \subseteq Nat /\ N \in 0..Len(s)
  <2>1. IsFiniteSet(1..Len(s)) /\ Cardinality(1..Len(s)) = Len(s)
    <3> DEFINE L == Len(s)
    <3>1. L \in Int /\ L >= 0
      BY <1>1
    <3> HIDE DEF L
    <3>2. IsFiniteSet(1..L) /\ Cardinality(1..L) = L
      BY <3>1, FS_Interval
    <3>. QED  BY <3>2 DEF L
  <2>2. IsFiniteSet(K) /\ N <= Len(s) /\ N \in Nat
    BY <1>1, <2>1, FS_Subset, FS_CardinalityType
  <2>. QED  BY <1>1, <2>2
<1>3. ASSUME NEW n \in 1..N PROVE \E i \in K : C(i) = n /\ \A j \in K : C(j) = n => j = i
  <2> DEFINE up == [i \in K |-> {j \in K : j <= i}]
  <2>1. /\ up \in [K -> SUBSET K]
        /\ \A i \in K : i \in up[i] /\ C(i) = Cardinality(up[i])
        /\ \A i, j \in K : up[i] \subseteq up[j] \/ up[j] \subseteq up[i]
        /\ \A i, j \in K : i \in up[j] /\ j \in up[i] => i = j
    BY <1>2
  <2> HIDE DEF up
  <2>2. \E i \in K : Cardinality(up[i]) = n /\ \A j \in K : Cardinality(up[j]) = n => j = i
    BY <1>2, <2>1, Ranks
  <2> HIDE DEF C
  <2>. QED  BY <2>1, <2>2
<1>4. ASSUME NEW n \in 1..N PROVE place[n] \in K /\ C(place[n]) = n
  BY <1>3
<1>5. ASSUME NEW i \in K PROVE C(i) \in 1..N /\ place[C(i)] = i
  <2> DEFINE U == {j \in K : j <= i}
  <2>1. U \subseteq K /\ i \in U
    BY <1>2
  <2>2. IsFiniteSet(U) /\ C(i) <= N /\ C(i) \in Nat /\ C(i) # 0
    BY <1>2, <2>1, FS_Subset, FS_CardinalityType, FS_EmptySet
  <2>3. C(i) \in 1..N
    <3> HIDE DEF C, N
    <3>. QED  BY <1>2, <2>2
  <2>. QED  BY <1>3, <1>4, <2>3
<1>6. ASSUME NEW m \in 1..N, NEW n \in 1..N, m < n PROVE place[m] < place[n]
  <2>1. place[m] \in K /\ place[n] \in K /\ place[m] \in Nat /\ place[n] \in Nat
    BY <1>2, <1>4
  <2> SUFFICES ASSUME place[n] <= place[m] PROVE FALSE
    BY <2>1
  <2> DEFINE U(k) == {j \in K : j <= place[k]}
  <2>2. U(n) \subseteq U(m) /\ U(m) \subseteq K
    <3>1. \A j \in K : j \in Nat
      BY <1>2
    <3> HIDE DEF place
    <3>. QED  BY <2>1, <3>1
  <2>3. Cardinality(U(n)) <= Cardinality(U(m))
    BY <1>2, <2>2, FS_Subset
  <2>4. Cardinality(U(n)) = n /\ Cardinality(U(m)) = m
    BY <1>4
  <2> HIDE DEF U
  <2>. QED  BY <1>2, <1>6, <2>3, <2>4
<1>7. AtPlaces(s, K) = [n \in 1..N |-> s[place[n]]]
  BY DEF AtPlaces
<1> HIDE DEF place, C
<1>8. place \in [1..N -> K]
  <2>1. place = [n \in 1..N |-> place[n]]
    BY DEF place
  <2>. QED  BY <1>4, <2>1
<1> HIDE DEF N
<1>9. AtPlaces(s, K) \in [1..N -> T]
  BY <1>7, <1>8
<1>10. AtPlaces(s, K) \in Seq(T) /\ Len(AtPlaces(s, K)) = N
  <2> DEFINE e == AtPlaces(s, K)
  <2>1. e \in [1..N -> T] /\ N \in Nat
    BY <1>2, <1>9
  <2> HIDE DEF e
  <2>2. e \in Seq(T) /\ Len(e) = N
    BY <2>1
  <2>. QED  BY <2>2 DEF e
<1>11. \A n \in 1..N : AtPlaces(s, K)[n] = s[place[n]]
  BY <1>7
<1>12. \A i \in K : \E n \in 1..N : place[n] = i
  BY <1>5
<1>. QED  BY <1>2, <1>6, <1>8, <1>10, <1>11, <1>12 DEF N

\* Entries at some of the places are entries.
LEMMA PlacesHold ==
  ASSUME NEW S, NEW s \in Seq(S), NEW K \in SUBSET DOMAIN s, NEW T, \A i \in K : s[i] \in T
  PROVE  AtPlaces(s, K) \in Seq(T)
<1> DEFINE e == AtPlaces(s, K)
           N == Cardinality(K)
<1>1. /\ N \in Nat /\ e \in Seq(S) /\ Len(e) = N
      /\ \E place \in [1..N -> K] : \A n \in 1..N : e[n] = s[place[n]]
  BY PlacesInOrder
<1> HIDE DEF e, N
<1>2. e \in [1..N -> T]
  BY <1>1
<1>3. e \in Seq(T)
  BY <1>1, <1>2
<1>. QED  BY <1>3 DEF e

\* ---- sequences that list a set -----------------------------------------------

\* A sequence of the members of a set, each once.
Enumerates(s, S) ==
    /\ s \in Seq(S) /\ Range(s) = S
    /\ \A i, j \in DOMAIN s : s[i] = s[j] => i = j

LEMMA ListsNothing == Enumerates(<<>>, {})
<1>1. <<>> \in Seq({}) /\ DOMAIN <<>> = {}
  OBVIOUS
<1>2. Range(<<>>) = {}
  BY <1>1 DEF Range
<1>. QED  BY <1>1, <1>2 DEF Enumerates

LEMMA ListsItself == ASSUME NEW s, NEW S, Enumerates(s, S) PROVE Enumerates(s, Range(s)) /\ Range(s) = S
  BY DEF Enumerates

\* One list after another.
LEMMA ListsBoth ==
  ASSUME NEW s, NEW S, Enumerates(s, S), NEW t, NEW T, Enumerates(t, T), S \cap T = {}
  PROVE  Enumerates(s \o t, S \cup T)
<1> DEFINE U == S \cup T
           m == Len(s)
           n == Len(t)
           u == s \o t
<1>1. s \in Seq(U) /\ t \in Seq(U) /\ m \in Nat /\ n \in Nat /\ DOMAIN s = 1..m /\ DOMAIN t = 1..n
  <2>1. s \in Seq(S) /\ t \in Seq(T)
    BY DEF Enumerates
  <2>2. m \in Nat /\ n \in Nat /\ DOMAIN s = 1..m /\ DOMAIN t = 1..n
    BY <2>1
  <2>3. s \in [1..m -> S] /\ t \in [1..n -> T]
    BY <2>1
  <2> HIDE DEF m, n
  <2>4. s \in [1..m -> U] /\ t \in [1..n -> U]
    BY <2>3
  <2>5. s \in Seq(U) /\ t \in Seq(U)
    <3> HIDE DEF U
    <3>. QED  BY <2>2, <2>4
  <2>. QED  BY <2>2, <2>5 DEF m, n
<1>2. /\ u \in Seq(U) /\ Len(u) = m + n
      /\ \A i \in 1..(m + n) : u[i] = IF i <= m THEN s[i] ELSE t[i - m]
  BY <1>1, ConcatProperties
<1>3. DOMAIN u = 1..(m + n)
  <2> HIDE DEF u
  <2>. QED  BY <1>2
<1> HIDE DEF u, m, n
<1>4. \A i \in 1..(m + n) : (i <= m /\ i \in 1..m) \/ (~(i <= m) /\ i - m \in 1..n)
  BY <1>1
<1>5. ASSUME NEW i \in 1..(m + n), NEW j \in 1..(m + n), u[i] = u[j] PROVE i = j
  <2>1. CASE i <= m /\ j <= m
    <3>1. i \in 1..m /\ j \in 1..m /\ s[i] = s[j]
      BY <1>2, <1>4, <1>5, <2>1
    <3>. QED  BY <1>1, <3>1 DEF Enumerates
  <2>2. CASE ~(i <= m) /\ ~(j <= m)
    <3>1. i - m \in 1..n /\ j - m \in 1..n /\ t[i - m] = t[j - m]
      BY <1>2, <1>4, <1>5, <2>2
    <3>2. i - m = j - m
      BY <1>1, <3>1 DEF Enumerates
    <3>. QED  BY <1>1, <3>2
  <2>3. \A k \in 1..m : s[k] \in S
    BY <1>1 DEF Enumerates, Range
  <2>4. \A k \in 1..n : t[k] \in T
    BY <1>1 DEF Enumerates, Range
  <2>5. CASE (i <= m) # (j <= m)
    BY <1>2, <1>4, <1>5, <2>3, <2>4, <2>5
  <2>. QED  BY <2>1, <2>2, <2>5
<1>6. Range(u) = U
  <2>1. Range(u) \subseteq U
    BY <1>2 DEF Range
  <2>2. ASSUME NEW x \in S PROVE x \in Range(u)
    <3>1. PICK i \in 1..m : s[i] = x
      BY <1>1 DEF Enumerates, Range
    <3>2. i \in 1..(m + n) /\ i <= m
      BY <1>1
    <3>. QED  BY <1>2, <1>3, <3>1, <3>2 DEF Range
  <2>3. ASSUME NEW x \in T PROVE x \in Range(u)
    <3>1. PICK i \in 1..n : t[i] = x
      BY <1>1 DEF Enumerates, Range
    <3>2. i + m \in 1..(m + n) /\ ~(i + m <= m) /\ (i + m) - m = i
      BY <1>1
    <3>3. u[i + m] = x
      BY <1>2, <3>1, <3>2
    <3>. QED  BY <1>3, <3>2, <3>3 DEF Range
  <2>. QED  BY <2>1, <2>2, <2>3
<1>. QED  BY <1>2, <1>3, <1>5, <1>6 DEF Enumerates, u

LEMMA ListsOne == ASSUME NEW x PROVE Enumerates(<<x>>, {x})
<1> DEFINE s == <<x>>
<1>1. s \in Seq({x}) /\ DOMAIN s = {1} /\ s[1] = x
  OBVIOUS
<1> HIDE DEF s
<1>2. Range(s) = {x}
  BY <1>1 DEF Range
<1>. QED  BY <1>1, <1>2 DEF Enumerates, s

\* One more at the end.
LEMMA ListsMore ==
  ASSUME NEW s, NEW S, Enumerates(s, S), NEW x, x \notin S
  PROVE  Enumerates(Append(s, x), S \cup {x}) /\ Len(Append(s, x)) = Len(s) + 1
<1>1. s \in Seq(S)
  BY DEF Enumerates
<1>2. s \o <<x>> = Append(s, x) /\ Len(Append(s, x)) = Len(s) + 1
  BY <1>1
<1>3. Enumerates(s \o <<x>>, S \cup {x})
  BY ListsOne, ListsBoth
<1>. QED  BY <1>2, <1>3

\* The first, and those after it.
LEMMA ListsRest ==
  ASSUME NEW s, NEW S, Enumerates(s, S), s # <<>>
  PROVE  /\ Head(s) \in S /\ Enumerates(Tail(s), S \ {Head(s)})
         /\ Len(Tail(s)) = Len(s) - 1 /\ Len(s) \in Nat
<1> DEFINE n == Len(s)
           t == Tail(s)
           h == Head(s)
<1>1. s \in Seq(S)
  BY DEF Enumerates
<1>2. /\ h \in S /\ t \in Seq(S) /\ Len(t) = n - 1 /\ h = s[1]
      /\ \A i \in 1..Len(t) : t[i] = s[i + 1]
  BY <1>1, HeadTailProperties
<1>3. n \in Nat /\ n # 0 /\ DOMAIN s = 1..n
  BY <1>1
<1> HIDE DEF n, t, h
<1>4. DOMAIN t = 1..(n - 1)
  BY <1>2
<1>5. \A i \in 1..(n - 1) : i + 1 \in 1..n /\ i + 1 # 1 /\ t[i] = s[i + 1]
  BY <1>2, <1>3
<1>6. Range(t) = S \ {h}
  <2>1. ASSUME NEW i \in 1..(n - 1) PROVE t[i] \in S /\ t[i] # h
    <3>1. s[i + 1] # s[1]
      BY <1>3, <1>5 DEF Enumerates
    <3>. QED  BY <1>2, <1>3, <1>5, <3>1 DEF Enumerates, Range
  <2>2. ASSUME NEW x \in S \ {h} PROVE x \in Range(t)
    <3>1. PICK i \in 1..n : s[i] = x
      BY <1>3 DEF Enumerates, Range
    <3>2. i # 1
      BY <1>2, <3>1
    <3>3. i - 1 \in 1..(n - 1) /\ (i - 1) + 1 = i
      BY <1>3, <3>2
    <3>4. t[i - 1] = x
      BY <1>5, <3>1, <3>3
    <3>. QED  BY <1>4, <3>3, <3>4 DEF Range
  <2>. QED  BY <1>4, <2>1, <2>2 DEF Range
<1>7. ASSUME NEW i \in 1..(n - 1), NEW j \in 1..(n - 1), t[i] = t[j] PROVE i = j
  <2>1. s[i + 1] = s[j + 1] /\ i + 1 \in 1..n /\ j + 1 \in 1..n
    BY <1>5, <1>7
  <2>2. i + 1 = j + 1
    BY <1>3, <2>1 DEF Enumerates
  <2>. QED  BY <2>2
<1>8. t \in Seq(S \ {h})
  <2>1. \A i \in 1..(n - 1) : t[i] \in S \ {h}
    BY <1>4, <1>6 DEF Range
  <2>2. t \in [1..(n - 1) -> S \ {h}] /\ n - 1 \in Nat
    <3>1. t = [i \in 1..(n - 1) |-> t[i]]
      BY <1>2, <1>4
    <3>. QED  BY <1>3, <2>1, <3>1
  <2>. QED  BY <2>2
<1>9. Enumerates(t, S \ {h})
  BY <1>4, <1>6, <1>7, <1>8 DEF Enumerates
<1>. QED  BY <1>2, <1>3, <1>9 DEF n, t, h

\* Items of places of their own are listed by them.
LEMMA ByPlaceLists ==
  ASSUME NEW items, IsFiniteSet(items),
         \A x \in items : x[2] \in Nat /\ x[3] \in Nat,
         \A x, y \in items : x[2] = y[2] /\ x[3] = y[3] => x = y
  PROVE  Enumerates(ByPlace(items), items)
<1> DEFINE N == Cardinality(items)
           up == [x \in items |-> UpTo(x, items)]
           Is(x, n) == Cardinality(up[x]) = n
           s == ByPlace(items)
<1>1. /\ up \in [items -> SUBSET items]
      /\ \A x \in items : x \in up[x]
      /\ \A x, y \in items : up[x] \subseteq up[y] \/ up[y] \subseteq up[x]
      /\ \A x, y \in items : x \in up[y] /\ y \in up[x] => x = y
  <2>1. \A x, y \in items : y \in up[x] <=> y[2] < x[2] \/ (y[2] = x[2] /\ y[3] <= x[3])
    BY DEF UpTo
  <2>2. up \in [items -> SUBSET items]
    BY DEF UpTo
  <2> HIDE DEF up
  <2>3. ASSUME NEW x \in items, NEW y \in items, x \in up[y] PROVE up[x] \subseteq up[y]
    <3> SUFFICES ASSUME NEW z \in items, z \in up[x] PROVE z \in up[y]
      BY <2>2
    <3>1. /\ z[2] < x[2] \/ (z[2] = x[2] /\ z[3] <= x[3])
          /\ x[2] < y[2] \/ (x[2] = y[2] /\ x[3] <= y[3])
      BY <2>1, <2>3
    <3>2. z[2] < y[2] \/ (z[2] = y[2] /\ z[3] <= y[3])
      BY <3>1
    <3>. QED  BY <2>1, <3>2
  <2>4. ASSUME NEW x \in items, NEW y \in items PROVE x \in up[y] \/ y \in up[x]
    BY <2>1
  <2>5. ASSUME NEW x \in items, NEW y \in items, x \in up[y], y \in up[x] PROVE x = y
    <3>1. /\ y[2] < x[2] \/ (y[2] = x[2] /\ y[3] <= x[3])
          /\ x[2] < y[2] \/ (x[2] = y[2] /\ x[3] <= y[3])
      BY <2>1, <2>5
    <3>2. x[2] = y[2] /\ x[3] = y[3]
      BY <3>1
    <3>. QED  BY <3>2
  <2>6. \A x \in items : x \in up[x]
    BY <2>4
  <2>. QED  BY <2>2, <2>3, <2>4, <2>5, <2>6
<1>2. s = [n \in 1..N |-> CHOOSE x \in items : Is(x, n)]
  <2>1. \A x \in items, n \in 1..N : Is(x, n) <=> Cardinality(UpTo(x, items)) = n
    OBVIOUS
  <2> HIDE DEF Is
  <2>2. \A n \in 1..N : (CHOOSE x \in items : Is(x, n)) = (CHOOSE x \in items : Cardinality(UpTo(x, items)) = n)
    BY <2>1
  <2>. QED  BY <2>2 DEF ByPlace
<1>3. ASSUME NEW n \in 1..N PROVE \E x \in items : Is(x, n) /\ \A z \in items : Is(z, n) => z = x
  <2> HIDE DEF up
  <2>. QED  BY <1>1, Ranks
<1>4. N \in Nat
  BY FS_CardinalityType
<1>5. ASSUME NEW x \in items PROVE Cardinality(up[x]) \in 1..N
  <2> HIDE DEF up
  <2>1. up[x] \subseteq items /\ x \in up[x]
    BY <1>1
  <2>2. IsFiniteSet(up[x]) /\ Cardinality(up[x]) <= N /\ Cardinality(up[x]) \in Nat
    BY <2>1, FS_Subset, FS_CardinalityType
  <2>3. Cardinality(up[x]) # 0
    BY <2>1, <2>2, FS_EmptySet
  <2> HIDE DEF N
  <2>. QED  BY <1>4, <2>2, <2>3
<1> HIDE DEF up, N, s
<1>6. ASSUME NEW n \in 1..N PROVE s[n] \in items /\ Is(s[n], n)
  <2> HIDE DEF Is
  <2>. QED  BY <1>2, <1>3
<1>7. s \in [1..N -> items]
  <2> HIDE DEF Is
  <2>. QED  BY <1>2, <1>6
<1>8. s \in Seq(items) /\ DOMAIN s = 1..N
  BY <1>4, <1>7
<1>9. \A m, n \in 1..N : s[m] = s[n] => m = n
  BY <1>6
<1>10. Range(s) = items
  <2>1. ASSUME NEW x \in items PROVE \E n \in 1..N : s[n] = x
    <3>1. Is(x, Cardinality(up[x])) /\ Cardinality(up[x]) \in 1..N
      BY <1>5
    <3> HIDE DEF Is
    <3>. QED  BY <1>3, <1>6, <3>1
  <2>. QED  BY <1>7, <1>8, <2>1 DEF Range
<1>. QED  BY <1>8, <1>9, <1>10 DEF Enumerates, s

\* ---- sums ----------------------------------------------------------------------

LEMMA TotalType ==
  ASSUME NEW cost, IsFiniteSet(DOMAIN cost), \A x \in DOMAIN cost : cost[x] \in Nat
  PROVE  IsFiniteSet(Units(cost)) /\ Total(cost) \in Nat
<1> DEFINE D == DOMAIN cost
           parts == {{x} \X (1..cost[x]) : x \in D}
           f == [x \in D |-> {x} \X (1..cost[x])]
<1>1. f \in Surjection(D, parts)
  BY DEF Surjection
<1>2. IsFiniteSet(parts)
  <2> HIDE DEF f, parts
  <2>. QED  BY <1>1, FS_Surjection
<1>3. ASSUME NEW x \in D PROVE IsFiniteSet({x} \X (1..cost[x]))
  <2>1. IsFiniteSet({x}) /\ IsFiniteSet(1..cost[x])
    <3>1. cost[x] \in Nat
      OBVIOUS
    <3> DEFINE n == cost[x]
    <3> HIDE DEF n
    <3>2. n \in Int /\ 1 \in Int
      BY <3>1 DEF n
    <3>3. IsFiniteSet(1..n)
      BY ONLY <3>2, FS_Interval
    <3>. QED  BY <3>3, FS_Singleton DEF n
  <2>. QED  BY <2>1, FS_Product
<1>4. IsFiniteSet(UNION parts)
  <2>1. \A T \in parts : IsFiniteSet(T)
    BY <1>3
  <2> HIDE DEF parts
  <2>. QED  BY <1>2, <2>1, FS_UNION
<1>. QED  BY <1>4, FS_CardinalityType DEF Units, Total

\* More things, each at least as dear.
LEMMA TotalGrows ==
  ASSUME NEW dear, IsFiniteSet(DOMAIN dear), \A x \in DOMAIN dear : dear[x] \in Nat,
         NEW cost, DOMAIN cost \subseteq DOMAIN dear,
         \A x \in DOMAIN cost : cost[x] \in Nat /\ cost[x] <= dear[x]
  PROVE  Total(cost) \in Nat /\ Total(cost) <= Total(dear)
<1>1. IsFiniteSet(Units(dear))
  BY TotalType
<1>2. Units(cost) \subseteq Units(dear)
  <2>1. \A x \in DOMAIN cost : 1..cost[x] \subseteq 1..dear[x]
    OBVIOUS
  <2>. QED  BY <2>1 DEF Units
<1>. QED  BY <1>1, <1>2, FS_Subset, FS_CardinalityType DEF Total

\* One thing less.
LEMMA TotalWithout ==
  ASSUME NEW cost, IsFiniteSet(DOMAIN cost), \A x \in DOMAIN cost : cost[x] \in Nat,
         NEW y \in DOMAIN cost
  PROVE  /\ Total([x \in DOMAIN cost \ {y} |-> cost[x]]) \in Nat
         /\ Total(cost) = Total([x \in DOMAIN cost \ {y} |-> cost[x]]) + cost[y]
<1> DEFINE rest == [x \in DOMAIN cost \ {y} |-> cost[x]]
           own == {y} \X (1..cost[y])
<1>1. Units(cost) = Units(rest) \cup own /\ Units(rest) \cap own = {}
  BY DEF Units
<1>2. IsFiniteSet(own) /\ Cardinality(own) = cost[y]
  <2>1. IsFiniteSet({y}) /\ Cardinality({y}) = 1
    BY FS_Singleton
  <2>2. IsFiniteSet(1..cost[y]) /\ Cardinality(1..cost[y]) = cost[y]
    BY FS_Interval
  <2>3. IsFiniteSet(own) /\ Cardinality(own) = 1 * Cardinality(1..cost[y])
    BY <2>1, <2>2, FS_Product
  <2>. QED  BY <2>2, <2>3
<1>3. IsFiniteSet(Units(rest)) /\ Total(rest) \in Nat
  <2>1. DOMAIN rest \subseteq DOMAIN cost /\ \A x \in DOMAIN rest : rest[x] \in Nat
    OBVIOUS
  <2>2. IsFiniteSet(DOMAIN rest)
    BY <2>1, FS_Subset
  <2> HIDE DEF rest
  <2>. QED  BY <2>1, <2>2, TotalType
<1> HIDE DEF rest, own
<1>4. Total(cost) = Total(rest) + cost[y] - Cardinality({})
  BY <1>1, <1>2, <1>3, FS_Union DEF Total
<1>5. Cardinality({}) = 0
  BY FS_EmptySet
<1>6. Total(cost) = Total(rest) + cost[y]
  BY <1>3, <1>4, <1>5
<1>. QED  BY <1>3, <1>6 DEF rest

\* ---- powers of two -----------------------------------------------------------

\* A power of two counts the subsets of a set.
LEMMA PowerType == \A n \in Nat : 2 ^ n \in Nat
<1> SUFFICES ASSUME NEW n \in Nat PROVE 2 ^ n \in Nat
  OBVIOUS
<1>1. IsFiniteSet(1..n) /\ Cardinality(1..n) = n
  BY FS_Interval
<1>2. IsFiniteSet(SUBSET (1..n)) /\ Cardinality(SUBSET (1..n)) = 2 ^ n
  BY <1>1, FS_SUBSET
<1>. QED  BY <1>2, FS_CardinalityType

\* One more member doubles the subsets of a set.
LEMMA PowerDoubles == \A k \in Nat : 2^(k + 1) = 2 * 2^k
<1> SUFFICES ASSUME NEW k \in Nat PROVE 2^(k + 1) = 2 * 2^k
  OBVIOUS
<1> DEFINE A == SUBSET (1..k)
           B == {x \cup {k + 1} : x \in A}
<1>1. IsFiniteSet(1..k) /\ Cardinality(1..k) = k
  BY FS_Interval
<1>2. IsFiniteSet(1..k + 1) /\ Cardinality(1..k + 1) = k + 1
  BY FS_Interval
<1>3. IsFiniteSet(A) /\ Cardinality(A) = 2^k
  BY <1>1, FS_SUBSET
<1>4. Cardinality(SUBSET (1..k + 1)) = 2^(k + 1)
  BY <1>2, FS_SUBSET
<1>5. IsFiniteSet(B) /\ Cardinality(B) = Cardinality(A)
  <2> DEFINE f == [x \in A |-> x \cup {k + 1}]
  <2>1. f \in [A -> B]
    OBVIOUS
  <2>2. \A x \in A : k + 1 \notin x
    OBVIOUS
  <2>3. ASSUME NEW x \in A, NEW y \in A, f[x] = f[y] PROVE x = y
    <3>1. x \cup {k + 1} = y \cup {k + 1}
      BY <2>3
    <3>. QED  BY <2>2, <3>1
  <2>4. \A y \in B : \E x \in A : f[x] = y
    OBVIOUS
  <2>. HIDE DEF A, B, f
  <2>5. f \in Bijection(A, B)
    BY <2>1, <2>3, <2>4 DEF Bijection, Injection, Surjection, IsInjective
  <2>6. ExistsBijection(A, B)
    BY <2>5 DEF ExistsBijection
  <2>. QED  BY <1>3, <2>6, FS_Bijection
<1>6. SUBSET (1..k + 1) = A \cup B /\ A \cap B = {}
  <2>1. ASSUME NEW x \in SUBSET (1..k + 1) PROVE x \in A \cup B
    <3>1. CASE k + 1 \in x
      <4>1. x \ {k + 1} \in A /\ x = (x \ {k + 1}) \cup {k + 1}
        BY <3>1
      <4>. QED  BY <4>1
    <3>2. CASE k + 1 \notin x
      BY <3>2
    <3>. QED  BY <3>1, <3>2
  <2>2. A \subseteq SUBSET (1..k + 1) /\ B \subseteq SUBSET (1..k + 1)
    <3>1. 1..k \subseteq 1..k + 1 /\ k + 1 \in 1..k + 1
      OBVIOUS
    <3>. QED  BY <3>1
  <2>3. \A x \in A : k + 1 \notin x
    OBVIOUS
  <2>4. \A x \in B : k + 1 \in x
    OBVIOUS
  <2>5. A \cap B = {}
    BY <2>3, <2>4
  <2>. HIDE DEF A, B
  <2>. QED  BY <2>1, <2>2, <2>5
<1>7. 2^k \in Nat
  BY PowerType
<1>. HIDE DEF A, B
<1>8. Cardinality(A \cup B) = Cardinality(A) + Cardinality(B) - Cardinality({})
  BY <1>3, <1>5, <1>6, FS_Union
<1>9. Cardinality({}) = 0
  BY FS_EmptySet
<1>10. Cardinality(A \cup B) = 2^(k + 1)
  <2>1. SUBSET (1..k + 1) = A \cup B
    BY <1>6
  <2>. QED  BY <1>4, <2>1, Zenon
<1> DEFINE x == 2^k
           y == 2^(k + 1)
<1>11. x \in Nat /\ y = x + x - 0
  <2>1. Cardinality(A) = x /\ Cardinality(B) = x /\ x \in Nat /\ Cardinality(A \cup B) = y
    BY <1>3, <1>5, <1>7, <1>10
  <2>. HIDE DEF x, y
  <2>. QED  BY <1>8, <1>9, <2>1
<1>12. y = 2 * x
  <2>. HIDE DEF x, y
  <2>. QED  BY <1>11
<1>. QED  BY <1>12

LEMMA PowerOfNone == 2^0 = 1
<1> DEFINE S == SUBSET {}
<1>1. IsFiniteSet({}) /\ Cardinality({}) = 0
  BY FS_EmptySet
<1>2. Cardinality(S) = 2^0
  BY <1>1, FS_SUBSET
<1>3. S = {{}}
  OBVIOUS
<1>4. Cardinality({{}}) = 1
  BY FS_Singleton
<1>. HIDE DEF S
<1>. QED  BY <1>2, <1>3, <1>4

\* ---- sequences joined --------------------------------------------------------

\* What is left from a place on is what stands there, and what is left behind it.
LEMMA RestsAre ==
  ASSUME NEW parts, Len(parts) \in Nat
  PROVE  \A k \in 1..(Len(parts) + 1) :
            Rests(parts)[k] = IF k > Len(parts) THEN <<>> ELSE parts[k] \o Rests(parts)[k + 1]
<1> DEFINE N == Len(parts)
           From(g, n) == \A k \in (N + 1 - n)..(N + 1) :
                             g[k] = IF k > N THEN <<>> ELSE parts[k] \o g[k + 1]
           Lacking == {n \in 0..N : ~\E g : From(g, n)}
<1>1. N \in Nat
  OBVIOUS
<1>2. CASE Lacking # {}
  <2>1. PICK m \in Lacking : \A n \in Lacking : m <= n
    <3>1. Lacking \subseteq Nat
      OBVIOUS
    <3>. HIDE DEF Lacking
    <3>. QED  BY <1>2, <3>1, LeastNumber
  <2>2. m # 0
    <3> DEFINE g == [k \in {N + 1} |-> <<>>]
    <3>1. ASSUME NEW k \in (N + 1 - 0)..(N + 1)
          PROVE  g[k] = IF k > N THEN <<>> ELSE parts[k] \o g[k + 1]
      <4>1. k = N + 1 /\ k > N
        BY <1>1
      <4>. QED  BY <4>1
    <3>2. From(g, 0)
      BY <3>1
    <3>. HIDE DEF From, g
    <3>. QED  BY <2>1, <3>2
  <2>3. m - 1 \in 0..N /\ m - 1 \notin Lacking /\ m \in 1..N
    <3>1. m \in 0..N
      OBVIOUS
    <3>. HIDE DEF Lacking
    <3>. QED  BY <1>1, <2>1, <2>2, <3>1
  <2>4. PICK g : From(g, m - 1)
    BY <2>3
  <2> DEFINE c == N + 1 - m
             h == [k \in c..(N + 1) |-> IF k = c THEN parts[c] \o g[c + 1] ELSE g[k]]
  <2>5. c \in 1..N /\ N + 1 - (m - 1) = c + 1
    BY <1>1, <2>3
  <2>6. ASSUME NEW k \in c..(N + 1)
        PROVE  h[k] = IF k > N THEN <<>> ELSE parts[k] \o h[k + 1]
    <3>1. CASE k = c
      <4>1. c + 1 \in c..(N + 1) /\ c \in c..(N + 1) /\ c + 1 # c /\ ~(c > N)
        BY <1>1, <2>5
      <4>2. h[c + 1] = g[c + 1] /\ h[c] = parts[c] \o g[c + 1]
        BY <4>1
      <4>. QED  BY <3>1, <4>1, <4>2
    <3>2. CASE k # c
      <4>1. k \in (c + 1)..(N + 1) /\ h[k] = g[k]
        BY <1>1, <2>5, <2>6, <3>2
      <4>2. g[k] = IF k > N THEN <<>> ELSE parts[k] \o g[k + 1]
        BY <2>4, <2>5, <4>1
      <4>3. ~(k > N) => k + 1 \in c..(N + 1) /\ k + 1 # c
        BY <1>1, <2>5, <4>1
      <4>. HIDE DEF c
      <4>4. ~(k > N) => h[k + 1] = g[k + 1]
        BY <4>3
      <4>. QED  BY <4>1, <4>2, <4>4
    <3>. QED  BY <3>1, <3>2
  <2>7. From(h, m)
    <3>. HIDE DEF h
    <3>. QED  BY <2>6
  <2>. HIDE DEF From, h
  <2>. QED  BY <2>1, <2>7
<1>3. CASE Lacking = {}
  <2>1. N \in 0..N /\ N + 1 - N = 1
    BY <1>1
  <2>2. PICK g : From(g, N)
    BY <1>3, <2>1
  <2> DEFINE Is(r) == r = [k \in 1..(N + 1) |-> IF k > N THEN <<>> ELSE parts[k] \o r[k + 1]]
             f == [k \in 1..(N + 1) |-> g[k]]
  <2>3. Is(f)
    <3>1. ASSUME NEW k \in 1..(N + 1)
          PROVE  f[k] = IF k > N THEN <<>> ELSE parts[k] \o f[k + 1]
      <4>1. g[k] = IF k > N THEN <<>> ELSE parts[k] \o g[k + 1]
        BY <2>1, <2>2
      <4>2. ~(k > N) => k + 1 \in 1..(N + 1)
        BY <1>1
      <4>. QED  BY <4>1, <4>2
    <3>2. f = [k \in 1..(N + 1) |-> f[k]]
      OBVIOUS
    <3>. HIDE DEF f
    <3>. QED  BY <3>1, <3>2
  <2>4. Rests(parts) = CHOOSE r : Is(r)
    BY DEF Rests
  <2>5. Is(Rests(parts))
    <3>. HIDE DEF Is, f
    <3>. QED  BY <2>3, <2>4
  <2> DEFINE r == Rests(parts)
  <2>6. r = [k \in 1..(N + 1) |-> IF k > N THEN <<>> ELSE parts[k] \o r[k + 1]]
    BY <2>5
  <2>. HIDE DEF r
  <2>7. \A k \in 1..(N + 1) : r[k] = IF k > N THEN <<>> ELSE parts[k] \o r[k + 1]
    BY <2>6
  <2>. QED  BY <2>7 DEF r
<1>. QED  BY <1>2, <1>3

\* What is left is a sequence over the same members.
LEMMA RestsType ==
  ASSUME NEW X, NEW parts, Len(parts) \in Nat, \A k \in 1..Len(parts) : parts[k] \in Seq(X)
  PROVE  \A k \in 1..(Len(parts) + 1) : Rests(parts)[k] \in Seq(X)
<1> DEFINE N == Len(parts)
           Wrong == {n \in 0..N : Rests(parts)[N + 1 - n] \notin Seq(X)}
<1>1. CASE Wrong # {}
  <2>1. PICK m \in Wrong : \A n \in Wrong : m <= n
    <3>1. Wrong \subseteq Nat
      OBVIOUS
    <3>. HIDE DEF Wrong
    <3>. QED  BY <1>1, <3>1, LeastNumber
  <2> DEFINE k == N + 1 - m
  <2>2. k \in 1..(N + 1) /\ (m # 0 => k \in 1..N /\ ~(k > N) /\ m - 1 \in 0..N /\ m - 1 \notin Wrong)
        /\ (m = 0 => k > N) /\ N + 1 - (m - 1) = k + 1
    BY <2>1
  <2>3. Rests(parts)[k] = IF k > N THEN <<>> ELSE parts[k] \o Rests(parts)[k + 1]
    BY <2>2, RestsAre
  <2>4. Rests(parts)[k] \notin Seq(X)
    BY <2>1
  <2>5. m # 0 => Rests(parts)[k + 1] \in Seq(X)
    BY <2>2
  <2>. HIDE DEF k, Wrong
  <2>6. CASE m = 0
    BY <2>2, <2>3, <2>4, <2>6
  <2>7. CASE m # 0
    <3>1. parts[k] \in Seq(X) /\ Rests(parts)[k + 1] \in Seq(X)
      BY <2>2, <2>5, <2>7
    <3>2. parts[k] \o Rests(parts)[k + 1] \in Seq(X)
      BY <3>1
    <3>. QED  BY <2>2, <2>3, <2>4, <2>7, <3>2
  <2>. QED  BY <2>6, <2>7
<1>2. CASE Wrong = {}
  <2>1. ASSUME NEW k \in 1..(N + 1) PROVE Rests(parts)[k] \in Seq(X)
    <3>1. N + 1 - k \in 0..N /\ N + 1 - (N + 1 - k) = k
      OBVIOUS
    <3>. QED  BY <1>2, <3>1
  <2>. QED  BY <2>1
<1>. QED  BY <1>1, <1>2
=============================================================================
