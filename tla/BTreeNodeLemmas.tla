------------------------- MODULE BTreeNodeLemmas --------------------------
(***************************************************************************)
(* What the operators of BTreeNode do to the entries of a node, for nodes  *)
(* and keys of every size; before that the induction these proofs and      *)
(* those of index and engine need, stated about sets and functions, and    *)
(* what it gives of the folds: that the recursive function a fold is       *)
(* defined by exists, and so has the steps of the loop it stands for.      *)
(***************************************************************************)
EXTENDS BTreeNode, SequenceTheorems, FiniteSetTheorems, TLAPS

-----------------------------------------------------------------------------
(* Induction *)

\* A set of places has a least one.
LEMMA Least ==
  ASSUME NEW n \in Nat, NEW T \in SUBSET (1 .. n), T # {}
  PROVE  Min(T) \in T /\ \A y \in T : Min(T) =< y
<1> DEFINE R == StrictSubsetOrdering(1 .. n)
           U == { 1 .. k : k \in T }
<1>1. IsFiniteSet(1 .. n)
  BY FS_Interval
<1>2. IsWellFoundedOn(R, SUBSET (1 .. n))
  BY <1>1, FS_StrictSubsetOrderingWellFounded, FS_FiniteSubsetsOfFinite
<1>3. U \subseteq SUBSET (1 .. n) /\ U # {}
  <2>1. \A k \in T : 1 .. k \subseteq 1 .. n
    OBVIOUS
  <2>2. QED
    BY <2>1
<1>4. PICK u \in U : \A v \in U : <<v, u>> \notin R
  <2> HIDE DEF R, U
  <2>1. QED
    BY <1>2, <1>3, WFMin
<1>5. PICK x \in T : u = 1 .. x
  OBVIOUS
<1>6. ASSUME NEW y \in T, y < x
      PROVE  FALSE
  <2>1. 1 .. y \in U /\ 1 .. y \subseteq 1 .. x /\ x \in 1 .. x /\ x \notin 1 .. y
    BY <1>6
  <2>2. <<1 .. y, u>> \in R
    BY <1>3, <1>5, <2>1 DEF StrictSubsetOrdering
  <2>3. QED
    BY <1>4, <2>1, <2>2
<1>7. x \in T /\ \A y \in T : x =< y
  BY <1>6
<1>8. QED
  BY <1>7 DEF Min

\* And a greatest one.
LEMMA Greatest ==
  ASSUME NEW n \in Nat, NEW T \in SUBSET (1 .. n), T # {}
  PROVE  Max(T) \in T /\ \A y \in T : y =< Max(T)
<1> DEFINE U == { n + 1 - k : k \in T }
<1>1. U \in SUBSET (1 .. n) /\ U # {}
  <2>1. \A k \in T : n + 1 - k \in 1 .. n
    OBVIOUS
  <2>2. QED
    BY <2>1
<1>2. Min(U) \in U /\ \A y \in U : Min(U) =< y
  <2> HIDE DEF U
  <2>1. QED
    BY <1>1, Least
<1>3. PICK x \in T : Min(U) = n + 1 - x
  BY <1>2
<1>4. ASSUME NEW y \in T PROVE y =< x
  <2>1. n + 1 - y \in U
    OBVIOUS
  <2>2. n + 1 - x =< n + 1 - y
    BY <1>2, <1>3, <2>1
  <2>3. x \in 1 .. n /\ y \in 1 .. n
    OBVIOUS
  <2>4. QED
    BY <2>2, <2>3
<1>5. \A y \in T : x >= y
  BY <1>4
<1>6. QED
  BY <1>5 DEF Max

\* Induction up to n: a set that has 0 and with each number the next one
LEMMA UpTo ==
  ASSUME NEW n \in Nat, NEW T, 0 \in T,
         \A k \in 0 .. n - 1 : k \in T => k + 1 \in T
  PROVE  0 .. n \subseteq T
<1> DEFINE U == { k \in 1 .. n : k \notin T }
<1>1. SUFFICES ASSUME U # {} PROVE FALSE
  OBVIOUS
<1>2. Min(U) \in U /\ \A y \in U : Min(U) =< y
  <2>1. U \in SUBSET (1 .. n)
    OBVIOUS
  <2> HIDE DEF U
  <2>2. QED
    BY <1>1, <2>1, Least
<1>3. PICK x \in 1 .. n : x \notin T /\ x - 1 \notin U
  <2>1. PICK x \in U : \A y \in U : x =< y
    BY <1>2
  <2>2. x - 1 \notin U
    BY <2>1
  <2>3. QED
    BY <2>2
<1>4. x - 1 \in 0 .. n - 1 /\ (x - 1) + 1 = x
  OBVIOUS
<1>5. x - 1 \in T
  BY <1>3, <1>4
<1>6. QED
  BY <1>3, <1>4, <1>5

\* The greatest number of an interval
LEMMA LastOf ==
  ASSUME NEW n \in Nat, NEW i \in 1 .. n
  PROVE  /\ 1 .. i \in SUBSET (1 .. n) /\ 1 .. i # {}
         /\ Max(1 .. i) = i /\ (1 .. i) \ {i} = 1 .. i - 1
<1>1. 1 .. i \in SUBSET (1 .. n) /\ i \in 1 .. i
  OBVIOUS
<1>2. Max(1 .. i) \in 1 .. i /\ \A y \in 1 .. i : y =< Max(1 .. i)
  BY <1>1, Greatest, Zenon
<1>3. QED
  BY <1>1, <1>2

\* The runs of a loop of n steps, each of which has its own function: the state
\* it begins with and the one after each step
Runs(S, n, b, F) ==
  { g \in [0 .. n -> S] : g[0] = b /\ \A i \in 1 .. n : g[i] = F[i][g[i - 1]] }

\* Such a loop runs to its end.
LEMMA LoopRuns ==
  ASSUME NEW S, NEW n \in Nat, NEW b \in S, NEW F \in [1 .. n -> [S -> S]]
  PROVE  Runs(S, n, b, F) # {}
<1> DEFINE Run(k, g) == g[0] = b /\ \A i \in 1 .. k : g[i] = F[i][g[i - 1]]
           T == { k \in 0 .. n : \E g \in [0 .. k -> S] : Run(k, g) }
<1>1. 0 \in T
  <2>1. [i \in 0 .. 0 |-> b] \in [0 .. 0 -> S] /\ Run(0, [i \in 0 .. 0 |-> b])
    OBVIOUS
  <2>2. 0 \in 0 .. n
    OBVIOUS
  <2> HIDE DEF Run
  <2>3. QED
    BY <2>1, <2>2
<1>2. ASSUME NEW k \in 0 .. n - 1, k \in T
      PROVE  k + 1 \in T
  <2>1. PICK g \in [0 .. k -> S] : Run(k, g)
    BY <1>2
  <2> DEFINE h == [i \in 0 .. k + 1 |-> IF i =< k THEN g[i] ELSE F[k + 1][g[k]]]
  <2>2. g[k] \in S /\ k + 1 \in 1 .. n
    OBVIOUS
  <2>3. F[k + 1][g[k]] \in S
    BY <2>2
  <2>4. h \in [0 .. k + 1 -> S]
    BY <2>3
  <2>5. h[0] = b
    BY <2>1
  <2>6. ASSUME NEW i \in 1 .. k + 1 PROVE h[i] = F[i][h[i - 1]]
    <3>1. CASE i = k + 1
      BY <3>1
    <3>2. CASE i # k + 1
      <4>1. i \in 1 .. k /\ i =< k /\ i - 1 =< k /\ i - 1 \in 0 .. k + 1 /\ i \in 0 .. k + 1
        BY <3>2
      <4>2. h[i] = g[i] /\ h[i - 1] = g[i - 1]
        BY <4>1
      <4>3. QED
        BY <2>1, <4>1, <4>2
    <3>3. QED
      BY <3>1, <3>2
  <2> HIDE DEF h
  <2>7. QED
    BY <2>2, <2>4, <2>5, <2>6
<1>3. 0 .. n \subseteq T
  <2> HIDE DEF T
  <2>1. QED
    BY <1>1, <1>2, UpTo
<1>4. n \in T
  BY <1>3
<1>5. QED
  BY <1>4 DEF Runs

\* The functions a fold over the places 1 .. n can be defined by: those of
\* MapThenFoldSet (Folds.tla) with Max as the choice, as FoldLeft uses it
Folds(S, n, b, F) ==
  { it \in [SUBSET (1 .. n) -> S] :
      it = [s \in SUBSET (1 .. n) |->
              IF s = {} THEN b ELSE F[Max(s)][it[s \ {Max(s)}]]] }

\* There is one.
LEMMA FoldExists ==
  ASSUME NEW S, NEW n \in Nat, NEW b \in S, NEW F \in [1 .. n -> [S -> S]]
  PROVE  Folds(S, n, b, F) # {}
<1> DEFINE D == SUBSET (1 .. n)
           Id == [t \in S |-> t]
           G(s) == [i \in 1 .. n |-> IF i \in s THEN F[i] ELSE Id]
           H == [s \in D |-> CHOOSE g \in Runs(S, n, b, G(s)) : TRUE]
           it == [s \in D |-> H[s][n]]
<1>1. ASSUME NEW s \in D
      PROVE  Runs(S, n, b, G(s)) # {}
  <2>1. G(s) \in [1 .. n -> [S -> S]]
    OBVIOUS
  <2> HIDE DEF G
  <2>2. QED
    BY <2>1, LoopRuns
<1>2. ASSUME NEW s \in D
      PROVE  H[s] \in Runs(S, n, b, G(s))
  <2> HIDE DEF G
  <2>1. QED
    BY <1>1
<1>3. ASSUME NEW s \in D
      PROVE  /\ H[s] \in [0 .. n -> S] /\ H[s][0] = b
             /\ \A i \in 1 .. n : i \in s => H[s][i] = F[i][H[s][i - 1]]
             /\ \A i \in 1 .. n : i \notin s => H[s][i] = H[s][i - 1]
  <2>1. /\ H[s] \in [0 .. n -> S] /\ H[s][0] = b
        /\ \A i \in 1 .. n : H[s][i] = G(s)[i][H[s][i - 1]]
    <3> HIDE DEF G, H
    <3>1. QED
      BY <1>2 DEF Runs
  <2> HIDE DEF H
  <2>2. \A i \in 1 .. n : H[s][i - 1] \in S
    BY <2>1
  <2>3. QED
    BY <2>1, <2>2
<1> HIDE DEF H
\* Behind the last place of s nothing changes.
<1>4. ASSUME NEW s \in D, NEW m \in 0 .. n, \A i \in m + 1 .. n : i \notin s
      PROVE  H[s][n] = H[s][m]
  <2> DEFINE T == { k \in 0 .. n - m : H[s][m + k] = H[s][m] }
  <2>1. 0 \in T
    OBVIOUS
  <2>2. ASSUME NEW k \in 0 .. (n - m) - 1, k \in T
        PROVE  k + 1 \in T
    <3>1. m + (k + 1) \in 1 .. n /\ m + (k + 1) \in m + 1 .. n /\ (m + (k + 1)) - 1 = m + k
      OBVIOUS
    <3>2. H[s][m + (k + 1)] = H[s][m + k]
      BY <1>3, <1>4, <3>1
    <3>3. QED
      BY <2>2, <3>2
  <2>3. 0 .. n - m \subseteq T
    <3>1. n - m \in Nat
      OBVIOUS
    <3> HIDE DEF T
    <3>2. QED
      BY <2>1, <2>2, <3>1, UpTo
  <2>4. n - m \in T /\ m + (n - m) = n
    BY <2>3
  <2>5. QED
    BY <2>4
\* Two sets with the same places up to m have the same steps up to m.
<1>5. ASSUME NEW s \in D, NEW r \in D, NEW m \in 0 .. n,
             \A i \in 1 .. m : i \in s <=> i \in r
      PROVE  H[s][m] = H[r][m]
  <2> DEFINE T == { k \in 0 .. m : H[s][k] = H[r][k] }
  <2>1. 0 \in T
    BY <1>3
  <2>2. ASSUME NEW k \in 0 .. m - 1, k \in T
        PROVE  k + 1 \in T
    <3>1. k + 1 \in 1 .. n /\ k + 1 \in 1 .. m /\ (k + 1) - 1 = k
      OBVIOUS
    <3>2. CASE k + 1 \in s
      <4>1. H[s][k + 1] = F[k + 1][H[s][k]] /\ H[r][k + 1] = F[k + 1][H[r][k]]
        BY <1>3, <1>5, <3>1, <3>2
      <4>2. QED
        BY <2>2, <4>1
    <3>3. CASE k + 1 \notin s
      <4>1. H[s][k + 1] = H[s][k] /\ H[r][k + 1] = H[r][k]
        BY <1>3, <1>5, <3>1, <3>3
      <4>2. QED
        BY <2>2, <4>1
    <3>4. QED
      BY <3>2, <3>3
  <2>3. 0 .. m \subseteq T
    <3>1. m \in Nat
      OBVIOUS
    <3> HIDE DEF T
    <3>2. QED
      BY <2>1, <2>2, <3>1, UpTo
  <2>4. QED
    BY <2>3
<1>6. ASSUME NEW s \in D
      PROVE  it[s] = IF s = {} THEN b ELSE F[Max(s)][it[s \ {Max(s)}]]
  <2>1. CASE s = {}
    <3>1. H[s][n] = H[s][0]
      BY <1>4, <2>1
    <3>2. QED
      BY <1>3, <2>1, <3>1
  <2>2. CASE s # {}
    <3> DEFINE m == Max(s)
               r == s \ {m}
    <3>1. m \in s /\ \A y \in s : y =< m
      BY <2>2, Greatest
    <3> HIDE DEF m
    <3>2. m \in 1 .. n /\ r \in D
      BY <3>1
    <3>3. \A i \in m + 1 .. n : i \notin s
      BY <3>1, <3>2
    <3>4. H[s][n] = H[s][m]
      BY <1>4, <3>2, <3>3
    <3>5. H[s][m] = F[m][H[s][m - 1]]
      BY <1>3, <3>1, <3>2
    <3>6. \A i \in m .. n : i \notin r
      BY <3>2, <3>3
    <3>7. H[r][n] = H[r][m - 1]
      <4>1. m - 1 \in 0 .. n /\ (m - 1) + 1 = m
        BY <3>2
      <4> HIDE DEF r
      <4>2. QED
        BY <1>4, <3>2, <3>6, <4>1
    <3>8. H[s][m - 1] = H[r][m - 1]
      <4>1. m - 1 \in 0 .. n /\ \A i \in 1 .. m - 1 : i \in s <=> i \in r
        BY <3>2
      <4> HIDE DEF r
      <4>2. QED
        BY <1>5, <3>2, <4>1
    <3>9. it[s] = F[m][it[r]]
      BY <3>2, <3>4, <3>5, <3>7, <3>8
    <3>10. QED
      BY <2>2, <3>9 DEF m
  <2>3. QED
    BY <2>1, <2>2
<1>7. it \in [D -> S]
  BY <1>3
<1>8. it = [s \in D |-> IF s = {} THEN b ELSE F[Max(s)][it[s \ {Max(s)}]]]
  BY <1>6
<1>9. QED
  <2> HIDE DEF it
  <2>1. QED
    BY <1>7, <1>8 DEF Folds

\* Such a function, over the first places, is the run of the loop.
LEMMA FoldRuns ==
  ASSUME NEW S, NEW n \in Nat, NEW b \in S, NEW F \in [1 .. n -> [S -> S]], NEW f,
         f[{}] = b,
         \A i \in 1 .. n : f[1 .. i - 1] \in S => f[1 .. i] = F[i][f[1 .. i - 1]]
  PROVE  [i \in 0 .. n |-> f[1 .. i]] \in Runs(S, n, b, F)
<1> DEFINE T == { i \in 0 .. n : f[1 .. i] \in S }
<1>1. 1 .. 0 = {}
  OBVIOUS
<1>2. 0 \in T
  BY <1>1
<1>3. ASSUME NEW k \in 0 .. n - 1, k \in T
      PROVE  k + 1 \in T
  <2>1. k + 1 \in 1 .. n /\ k + 1 \in 0 .. n /\ (k + 1) - 1 = k
    OBVIOUS
  <2>2. f[1 .. k + 1] = F[k + 1][f[1 .. k]]
    BY <1>3, <2>1
  <2>3. QED
    BY <1>3, <2>1, <2>2
<1>4. 0 .. n \subseteq T
  <2> HIDE DEF T
  <2>1. QED
    BY <1>2, <1>3, UpTo
<1>5. \A i \in 0 .. n : f[1 .. i] \in S
  BY <1>4
<1>6. ASSUME NEW i \in 1 .. n
      PROVE  i \in 0 .. n /\ i - 1 \in 0 .. n /\ f[1 .. i] = F[i][f[1 .. i - 1]]
  BY <1>5
<1> DEFINE g == [i \in 0 .. n |-> f[1 .. i]]
<1>7. g \in [0 .. n -> S] /\ g[0] = b
  BY <1>1, <1>5
<1>8. \A i \in 1 .. n : g[i] = F[i][g[i - 1]]
  BY <1>6
<1>9. g \in Runs(S, n, b, F)
  <2> HIDE DEF g
  <2>1. QED
    BY <1>7, <1>8 DEF Runs
<1>10. QED
  BY <1>9

-----------------------------------------------------------------------------
(* The operators of BTreeNode *)

\* locate returns a place of the node, or 0.
LEMMA LocateIn ==
  ASSUME NEW S, NEW m \in Seq(S), NEW k
  PROVE  Locate(m, k) \in 0 .. Len(m)
<1> DEFINE I == { i \in 1 .. Len(m) : m[i].key >= k }
<1>1. Locate(m, k) = IF I # {} THEN Min(I) ELSE 0
  BY DEF Locate, SelectInSeq
<1>2. I \in SUBSET (1 .. Len(m)) /\ Len(m) \in Nat
  BY LenProperties
<1>3. I # {} => Min(I) \in I
  BY <1>2, Least
<1>4. QED
  BY <1>1, <1>2, <1>3

\* locate: the entries in front of its place have a smaller key, those from it
\* on do not.
LEMMA LocateSplits ==
  ASSUME NEW S, NEW m \in Seq(S), \A i \in 1 .. Len(m) : m[i].key \in Int,
         NEW k \in Int
  PROVE  /\ Locate(m, k) \in 0 .. Len(m)
         /\ Locate(m, k) = 0 => \A i \in 1 .. Len(m) : m[i].key < k
         /\ Locate(m, k) # 0 => /\ m[Locate(m, k)].key >= k
                                /\ \A i \in 1 .. Locate(m, k) - 1 : m[i].key < k
<1> DEFINE I == { i \in 1 .. Len(m) : m[i].key >= k }
           at == Locate(m, k)
<1>1. at = IF I # {} THEN Min(I) ELSE 0
  BY DEF Locate, SelectInSeq
<1>2. I \in SUBSET (1 .. Len(m)) /\ Len(m) \in Nat
  BY LenProperties
<1>3. I # {} => at \in I /\ \A i \in I : at =< i
  <2> HIDE DEF I, at
  <2>1. QED
    BY <1>1, <1>2, Least
<1>4. I = {} => at = 0 /\ \A i \in 1 .. Len(m) : m[i].key < k
  BY <1>1
<1> HIDE DEF at
<1>5. I # {} => \A i \in 1 .. at - 1 : m[i].key < k
  BY <1>2, <1>3
<1>6. QED
  BY <1>2, <1>3, <1>4, <1>5 DEF at

\* The entries behind the new one move up by one place.
LEMMA InsertedAt ==
  ASSUME NEW S, NEW m \in Seq(S), NEW e \in S, NEW at \in 1 .. Len(m)
  PROVE  /\ InsertAt(m, at, e) \in Seq(S)
         /\ Len(InsertAt(m, at, e)) = Len(m) + 1
         /\ \A i \in 1 .. at - 1 : InsertAt(m, at, e)[i] = m[i]
         /\ InsertAt(m, at, e)[at] = e
         /\ \A i \in at + 1 .. Len(m) + 1 : InsertAt(m, at, e)[i] = m[i - 1]
<1> DEFINE a == SubSeq(m, 1, at - 1)
           b == <<e>>
           c == SubSeq(m, at, Len(m))
           ab == a \o b
           p == InsertAt(m, at, e)
<1>1. Len(m) \in Nat /\ at \in Nat
  BY LenProperties
<1>2. \A i \in 1 .. Len(m) : m[i] \in S
  BY ElementOfSeq
<1>3. a \in Seq(S) /\ Len(a) = at - 1 /\ \A i \in 1 .. at - 1 : a[i] = m[i]
  <2>1. \A i \in 1 .. at - 1 : m[i] \in S
    BY <1>1, <1>2
  <2>2. QED
    BY <1>1, <2>1, SubSeqProperties
<1>4. /\ c \in Seq(S) /\ Len(c) = Len(m) - at + 1
      /\ \A i \in 1 .. Len(m) - at + 1 : c[i] = m[at + i - 1]
  <2>1. \A i \in at .. Len(m) : m[i] \in S
    BY <1>1, <1>2
  <2>2. QED
    BY <1>1, <2>1, SubSeqProperties
<1>5. b \in Seq(S) /\ Len(b) = 1 /\ b[1] = e
  OBVIOUS
<1>6. p = ab \o c
  BY DEF InsertAt
<1> HIDE DEF a, b, c, p
<1>7. /\ ab \in Seq(S) /\ Len(ab) = at
      /\ \A i \in 1 .. at : ab[i] = IF i <= at - 1 THEN a[i] ELSE b[i - (at - 1)]
  <2>1. /\ ab \in Seq(S) /\ Len(ab) = Len(a) + Len(b)
        /\ \A i \in 1 .. Len(a) + Len(b) : ab[i] = IF i <= Len(a) THEN a[i] ELSE b[i - Len(a)]
    BY <1>3, <1>5, ConcatProperties
  <2> HIDE DEF ab
  <2>2. QED
    BY <2>1, <1>1, <1>3, <1>5
<1> HIDE DEF ab
<1>8. /\ p \in Seq(S) /\ Len(p) = Len(m) + 1
      /\ \A i \in 1 .. Len(m) + 1 : p[i] = IF i <= at THEN ab[i] ELSE c[i - at]
  <2>1. /\ p \in Seq(S) /\ Len(p) = Len(ab) + Len(c)
        /\ \A i \in 1 .. Len(ab) + Len(c) : p[i] = IF i <= Len(ab) THEN ab[i] ELSE c[i - Len(ab)]
    BY <1>4, <1>6, <1>7, ConcatProperties
  <2>2. QED
    BY <2>1, <1>1, <1>4, <1>7
<1>9. \A i \in 1 .. at - 1 : p[i] = m[i]
  BY <1>1, <1>3, <1>7, <1>8
<1>10. p[at] = e
  BY <1>1, <1>5, <1>7, <1>8
<1>11. \A i \in at + 1 .. Len(m) + 1 : p[i] = m[i - 1]
  BY SMTT(60), <1>1, <1>4, <1>8
<1>12. QED
  BY <1>8, <1>9, <1>10, <1>11 DEF p

\* Where the new entry stands, and where the others are.
PlaceOf(m, at) == IF at = 0 THEN Len(m) + 1 ELSE at

LEMMA PlacedAt ==
  ASSUME NEW S, NEW m \in Seq(S), NEW e \in S, NEW at \in 0 .. Len(m)
  PROVE  /\ Placed(m, at, e) \in Seq(S)
         /\ Len(Placed(m, at, e)) = Len(m) + 1
         /\ \A i \in 1 .. PlaceOf(m, at) - 1 : Placed(m, at, e)[i] = m[i]
         /\ Placed(m, at, e)[PlaceOf(m, at)] = e
         /\ \A i \in PlaceOf(m, at) + 1 .. Len(m) + 1 : Placed(m, at, e)[i] = m[i - 1]
<1>1. Len(m) \in Nat
  BY LenProperties
<1>2. CASE at = 0
  BY <1>1, <1>2, AppendProperties DEF Placed, PlaceOf
<1>3. CASE at # 0
  BY <1>1, <1>3, InsertedAt DEF Placed, PlaceOf
<1>4. QED
  BY <1>2, <1>3

\* insert puts the new entry among the others and changes none of them.
LEMMA PlacedElements ==
  ASSUME NEW S, NEW m \in Seq(S), NEW e \in S, NEW at \in 0 .. Len(m)
  PROVE  /\ Placed(m, at, e) \in Seq(S)
         /\ Len(Placed(m, at, e)) = Len(m) + 1
         /\ ToSet(Placed(m, at, e)) = ToSet(m) \cup {e}
<1> DEFINE p == Placed(m, at, e)
           q == PlaceOf(m, at)
<1>1. Len(m) \in Nat /\ DOMAIN m = 1 .. Len(m) /\ q \in 1 .. Len(m) + 1
  BY LenProperties DEF PlaceOf
<1>2. /\ p \in Seq(S) /\ Len(p) = Len(m) + 1
      /\ \A i \in 1 .. q - 1 : p[i] = m[i]
      /\ p[q] = e
      /\ \A i \in q + 1 .. Len(m) + 1 : p[i] = m[i - 1]
  <2>1. /\ Placed(m, at, e) \in Seq(S)
        /\ Len(Placed(m, at, e)) = Len(m) + 1
        /\ \A i \in 1 .. PlaceOf(m, at) - 1 : Placed(m, at, e)[i] = m[i]
        /\ Placed(m, at, e)[PlaceOf(m, at)] = e
        /\ \A i \in PlaceOf(m, at) + 1 .. Len(m) + 1 : Placed(m, at, e)[i] = m[i - 1]
    BY ONLY PlacedAt, m \in Seq(S), e \in S, at \in 0 .. Len(m)
  <2>2. QED
    BY <2>1
<1> HIDE DEF p, q
<1>3. DOMAIN p = 1 .. Len(m) + 1
  BY <1>2, LenProperties
<1>4. \A i \in DOMAIN p : p[i] = e \/ \E j \in DOMAIN m : p[i] = m[j]
  <2> SUFFICES ASSUME NEW i \in DOMAIN p, p[i] # e
               PROVE  \E j \in DOMAIN m : p[i] = m[j]
    OBVIOUS
  <2>1. CASE i < q
    BY <2>1, <1>1, <1>2, <1>3
  <2>2. CASE i > q
    <3>1. i \in q + 1 .. Len(m) + 1 /\ i - 1 \in DOMAIN m
      BY <2>2, <1>1, <1>3
    <3>2. p[i] = m[i - 1]
      BY <3>1, <1>2
    <3>3. QED
      BY <3>1, <3>2
  <2>3. QED
    BY <2>1, <2>2, <1>1, <1>2, <1>3
<1>5. \A j \in DOMAIN m : p[IF j < q THEN j ELSE j + 1] = m[j]
  BY <1>1, <1>2, <1>3
<1>6. \A j \in DOMAIN m : (IF j < q THEN j ELSE j + 1) \in DOMAIN p
  BY <1>1, <1>3
<1>7. e \in ToSet(p)
  BY <1>1, <1>2, <1>3 DEF ToSet
<1>8. ToSet(p) = ToSet(m) \cup {e}
  BY <1>4, <1>5, <1>6, <1>7 DEF ToSet
<1>9. QED
  BY <1>2, <1>8 DEF p

\* What is read of a page is the beginning of what was written, all of it when
\* no entry has key 0.
LEMMA LoadedPart ==
  ASSUME NEW S, NEW m \in Seq(S), NEW last
  PROVE  /\ Loaded(Page(m, last)) \in Seq(S)
         /\ Len(Loaded(Page(m, last))) \in 0 .. Len(m)
         /\ \A i \in 1 .. Len(Loaded(Page(m, last))) : Loaded(Page(m, last))[i] = m[i]
         /\ (\A i \in 1 .. Len(m) : m[i].key # 0) => Loaded(Page(m, last)) = m
<1> DEFINE I == { i \in 1 .. Len(m) : m[i].key = 0 }
           zero == IF I # {} THEN Min(I) ELSE 0
           l == Loaded(Page(m, last))
<1>1. l = IF zero = 0 THEN m ELSE SubSeq(m, 1, zero - 1)
  BY DEF Loaded, Page, SelectInSeq
<1>2. Len(m) \in Nat /\ \A i \in 1 .. Len(m) : m[i] \in S
  BY LenProperties, ElementOfSeq
<1>3. I # {} => Min(I) \in I
  BY <1>2, Least
<1>4. zero \in 0 .. Len(m)
  BY <1>2, <1>3
<1>5. (\A i \in 1 .. Len(m) : m[i].key # 0) => zero = 0
  OBVIOUS
<1> HIDE DEF zero, l
<1>6. CASE zero = 0
  BY <1>1, <1>2, <1>6 DEF l
<1>7. CASE zero # 0
  <2>1. \A i \in 1 .. zero - 1 : m[i] \in S
    BY <1>2, <1>4
  <2>2. /\ l \in Seq(S) /\ Len(l) = zero - 1
        /\ \A i \in 1 .. zero - 1 : l[i] = m[i]
    BY <1>1, <1>4, <1>7, <2>1, SubSeqProperties
  <2>3. QED
    BY <1>2, <1>4, <1>5, <1>7, <2>2 DEF l
<1>8. QED
  BY <1>6, <1>7

-----------------------------------------------------------------------------
(* Sorted nodes *)

LEMMA Keys ==
  ASSUME NEW S, \A x \in S : x.key \in Int, NEW m \in Seq(S)
  PROVE  /\ Len(m) \in Nat /\ DOMAIN m = 1 .. Len(m)
         /\ \A i \in 1 .. Len(m) : m[i].key \in Int
<1>1. \A i \in 1 .. Len(m) : m[i] \in S
  BY ElementOfSeq
<1>2. QED
  BY <1>1, LenProperties

\* The beginning of a sorted node is sorted.
LEMMA SortedFront ==
  ASSUME NEW S, \A x \in S : x.key \in Int,
         NEW m \in Seq(S), InOrder(m),
         NEW l \in Seq(S), Len(l) <= Len(m),
         \A i \in 1 .. Len(l) : l[i] = m[i]
  PROVE  InOrder(l)
<1>1. Len(m) \in Nat /\ DOMAIN m = 1 .. Len(m) /\ Len(l) \in Nat /\ DOMAIN l = 1 .. Len(l)
  BY Keys
<1>2. ASSUME NEW i \in DOMAIN l, NEW j \in DOMAIN l, i < j
      PROVE  l[i].key <= l[j].key
  <2>1. i \in DOMAIN m /\ j \in DOMAIN m /\ l[i] = m[i] /\ l[j] = m[j]
    BY <1>1
  <2>2. m[i].key <= m[j].key
    BY <1>2, <2>1 DEF InOrder
  <2>3. QED
    BY <2>1, <2>2
<1>3. QED
  BY <1>2 DEF InOrder

\* A new entry between smaller and larger keys keeps the order.
LEMMA SortedPlaced ==
  ASSUME NEW S, \A x \in S : x.key \in Int,
         NEW m \in Seq(S), InOrder(m), NEW e \in S, NEW at \in 0 .. Len(m),
         at = 0 => \A i \in 1 .. Len(m) : m[i].key <= e.key,
         at # 0 => m[at].key >= e.key /\ \A i \in 1 .. at - 1 : m[i].key <= e.key
  PROVE  Placed(m, at, e) \in Seq(S) /\ InOrder(Placed(m, at, e))
<1> DEFINE p == Placed(m, at, e)
           q == PlaceOf(m, at)
<1>1. /\ Len(m) \in Nat /\ DOMAIN m = 1 .. Len(m)
      /\ \A i \in 1 .. Len(m) : m[i].key \in Int
      /\ e.key \in Int
  BY LenProperties, ElementOfSeq
<1>2. /\ p \in Seq(S)
      /\ Len(p) = Len(m) + 1
      /\ \A i \in 1 .. q - 1 : p[i] = m[i]
      /\ p[q] = e
      /\ \A i \in q + 1 .. Len(m) + 1 : p[i] = m[i - 1]
  BY ONLY PlacedAt, m \in Seq(S), e \in S, at \in 0 .. Len(m)
<1>3. q \in 1 .. Len(m) + 1
  BY <1>1 DEF PlaceOf
<1>4. /\ \A i \in 1 .. q - 1 : m[i].key <= e.key
      /\ \A i \in q .. Len(m) : m[i].key >= e.key
  <2>1. CASE at = 0
    BY <2>1, <1>1 DEF PlaceOf
  <2>2. CASE at # 0
    <3>1. \A i \in at .. Len(m) : m[at].key <= m[i].key
      BY <1>1, <2>2 DEF InOrder
    <3>2. QED
      BY <1>1, <2>2, <3>1 DEF PlaceOf
  <2>3. QED
    BY <2>1, <2>2
<1>5. DOMAIN p = 1 .. Len(m) + 1
  BY <1>2, LenProperties
<1> HIDE DEF p, q
<1>6. ASSUME NEW i \in DOMAIN p, NEW j \in DOMAIN p, i < j
      PROVE  p[i].key <= p[j].key
  <2>1. CASE j < q
    <3>1. i \in 1 .. q - 1 /\ j \in 1 .. q - 1 /\ i \in DOMAIN m /\ j \in DOMAIN m
      BY <1>1, <1>3, <1>5, <1>6, <2>1
    <3>2. m[i].key <= m[j].key
      BY <1>6, <3>1 DEF InOrder
    <3>3. QED
      BY <1>2, <3>1, <3>2
  <2>2. CASE j = q
    <3>1. i \in 1 .. q - 1
      BY <1>3, <1>5, <1>6, <2>2
    <3>2. QED
      BY <1>2, <1>4, <2>2, <3>1
  <2>3. CASE j > q
    <3>1. j \in q + 1 .. Len(m) + 1 /\ j - 1 \in q .. Len(m) /\ j - 1 \in DOMAIN m
      BY <1>1, <1>3, <1>5, <2>3
    <3>2. p[j] = m[j - 1]
      BY <1>2, <3>1
    <3>3. CASE i < q
      <4>1. i \in 1 .. q - 1 /\ i \in DOMAIN m
        BY <1>1, <1>3, <1>5, <3>3
      <4>2. p[i] = m[i] /\ m[i].key <= e.key /\ e.key <= m[j - 1].key
        BY <1>2, <1>4, <3>1, <4>1
      <4>3. QED
        BY <1>1, <3>1, <3>2, <4>1, <4>2
    <3>4. CASE i = q
      BY <1>2, <1>4, <3>1, <3>2, <3>4
    <3>5. CASE i > q
      <4>1. /\ i \in q + 1 .. Len(m) + 1 /\ i - 1 \in DOMAIN m /\ i - 1 < j - 1
        BY <1>1, <1>3, <1>5, <1>6, <3>5
      <4>2. p[i] = m[i - 1]
        BY <1>2, <4>1
      <4>3. m[i - 1].key <= m[j - 1].key
        BY <3>1, <4>1 DEF InOrder
      <4>4. QED
        BY <3>2, <4>2, <4>3
    <3>6. QED
      BY <1>3, <1>5, <3>3, <3>4, <3>5
  <2>4. QED
    BY <1>3, <1>5, <2>1, <2>2, <2>3
<1>7. QED
  BY <1>2, <1>6 DEF p, InOrder

LEMMA LeafPlacedSorted ==
  ASSUME NEW S, \A x \in S : x.key \in Int,
         NEW m \in Seq(S), InOrder(m),
         NEW e \in S
  PROVE  /\ LeafPlaced(m, e) \in Seq(S) /\ InOrder(LeafPlaced(m, e))
         /\ Len(LeafPlaced(m, e)) = Len(m) + 1
<1> DEFINE at == Locate(m, e.key)
<1>1. /\ Len(m) \in Nat /\ e.key \in Int
      /\ \A i \in 1 .. Len(m) : m[i].key \in Int
  BY Keys
<1>2. /\ at \in 0 .. Len(m)
      /\ at = 0 => \A i \in 1 .. Len(m) : m[i].key < e.key
      /\ at # 0 => m[at].key >= e.key /\ \A i \in 1 .. at - 1 : m[i].key < e.key
  BY <1>1, LocateSplits
<1> HIDE DEF at
<1>3. /\ at = 0 => \A i \in 1 .. Len(m) : m[i].key <= e.key
      /\ at # 0 => \A i \in 1 .. at - 1 : m[i].key <= e.key
  BY <1>1, <1>2
<1>4. Placed(m, at, e) \in Seq(S) /\ InOrder(Placed(m, at, e))
  BY <1>2, <1>3, SortedPlaced
<1>5. Len(Placed(m, at, e)) = Len(m) + 1
  BY <1>2, PlacedElements
<1>6. QED
  BY <1>4, <1>5 DEF LeafPlaced, at

\* The first larger key of a nonleaf node
LEMMA AboveSplits ==
  ASSUME NEW S, \A x \in S : x.key \in Int,
         NEW m \in Seq(S), NEW k \in Int
  PROVE  /\ Above(m, k) \in 0 .. Len(m)
         /\ Above(m, k) = 0 => \A i \in 1 .. Len(m) : m[i].key <= k
         /\ Above(m, k) # 0 => /\ m[Above(m, k)].key > k
                               /\ \A i \in 1 .. Above(m, k) - 1 : m[i].key <= k
<1> DEFINE I  == { i \in 1 .. Len(m) : m[i].key > k }
           at == Above(m, k)
<1>1. at = IF I # {} THEN Min(I) ELSE 0
  BY DEF Above, SelectInSeq
<1>2. /\ I \in SUBSET (1 .. Len(m)) /\ Len(m) \in Nat
      /\ \A i \in 1 .. Len(m) : m[i].key \in Int
  BY Keys
<1>3. I # {} => at \in I /\ \A i \in I : at =< i
  <2> HIDE DEF I, at
  <2>1. QED
    BY <1>1, <1>2, Least
<1>4. I = {} => at = 0 /\ \A i \in 1 .. Len(m) : m[i].key <= k
  BY <1>1, <1>2
<1> HIDE DEF at
<1>5. I # {} => \A i \in 1 .. at - 1 : m[i].key <= k
  BY <1>2, <1>3
<1>6. QED
  BY <1>2, <1>3, <1>4, <1>5 DEF at

LEMMA NonLeafPlacedSorted ==
  ASSUME NEW S, \A x \in S : x.key \in Int,
         NEW m \in Seq(S), InOrder(m),
         NEW e \in S
  PROVE  /\ NonLeafPlaced(m, e) \in Seq(S) /\ InOrder(NonLeafPlaced(m, e))
         /\ Len(NonLeafPlaced(m, e)) = Len(m) + 1
<1> DEFINE at == Above(m, e.key)
<1>1. /\ Len(m) \in Nat /\ e.key \in Int
      /\ \A i \in 1 .. Len(m) : m[i].key \in Int
  BY Keys
<1>2. /\ at \in 0 .. Len(m)
      /\ at = 0 => \A i \in 1 .. Len(m) : m[i].key <= e.key
      /\ at # 0 => m[at].key > e.key /\ \A i \in 1 .. at - 1 : m[i].key <= e.key
  BY <1>1, AboveSplits
<1>3. NonLeafPlaced(m, e) = Placed(m, at, e)
  BY DEF NonLeafPlaced
<1> HIDE DEF at
<1>4. at # 0 => m[at].key >= e.key
  BY <1>1, <1>2
<1>5. Placed(m, at, e) \in Seq(S) /\ InOrder(Placed(m, at, e))
  BY <1>2, <1>4, SortedPlaced
<1>6. Len(Placed(m, at, e)) = Len(m) + 1
  BY <1>2, PlacedElements
<1>7. QED
  BY <1>3, <1>5, <1>6

-----------------------------------------------------------------------------
(* How often an entry is in a node *)

At(m, x)    == { i \in DOMAIN m : m[i] = x }
Count(m, x) == Cardinality(At(m, x))

LEMMA Places ==
  ASSUME NEW S, NEW m \in Seq(S), NEW x
  PROVE  /\ At(m, x) \in SUBSET (1 .. Len(m)) /\ IsFiniteSet(At(m, x)) /\ Count(m, x) \in Nat
         /\ Count(m, x) = 0 <=> x \notin ToSet(m)
<1>1. Len(m) \in Nat /\ DOMAIN m = 1 .. Len(m)
  BY LenProperties
<1>2. At(m, x) \in SUBSET (1 .. Len(m)) /\ IsFiniteSet(1 .. Len(m))
  BY <1>1, FS_Interval DEF At
<1>3. IsFiniteSet(At(m, x))
  BY <1>2, FS_Subset
<1>4. At(m, x) = {} <=> x \notin ToSet(m)
  BY DEF At, ToSet
<1>5. QED
  BY <1>2, <1>3, <1>4, FS_CardinalityType, FS_EmptySet DEF Count

\* A set of places and the same places elsewhere
LEMMA Moved ==
  ASSUME NEW A, NEW B, IsFiniteSet(A), NEW f \in [A -> B],
         \A i, j \in A : f[i] = f[j] => i = j,
         \A k \in B : \E i \in A : f[i] = k
  PROVE  IsFiniteSet(B) /\ Cardinality(B) = Cardinality(A)
<1>1. f \in Bijection(A, B)
  BY DEF Bijection, Injection, Surjection, IsInjective
<1>2. ExistsBijection(A, B)
  BY <1>1 DEF ExistsBijection
<1>3. QED
  BY <1>2, FS_Bijection

LEMMA CountPlaced ==
  ASSUME NEW S, NEW m \in Seq(S), NEW e \in S, NEW at \in 0 .. Len(m), NEW x
  PROVE  Count(Placed(m, at, e), x) = Count(m, x) + (IF x = e THEN 1 ELSE 0)
<1> DEFINE p == Placed(m, at, e)
           q == PlaceOf(m, at)
           f == [i \in At(m, x) |-> IF i < q THEN i ELSE i + 1]
           B == At(p, x) \ {q}
<1>1. Len(m) \in Nat /\ DOMAIN m = 1 .. Len(m) /\ q \in 1 .. Len(m) + 1
  BY LenProperties DEF PlaceOf
<1>2. /\ p \in Seq(S) /\ Len(p) = Len(m) + 1
      /\ \A i \in 1 .. q - 1 : p[i] = m[i]
      /\ p[q] = e
      /\ \A i \in q + 1 .. Len(m) + 1 : p[i] = m[i - 1]
  BY PlacedAt
<1> HIDE DEF p, q
<1>3. DOMAIN p = 1 .. Len(m) + 1
  BY <1>2, LenProperties
<1>4. IsFiniteSet(At(m, x)) /\ IsFiniteSet(At(p, x)) /\ Count(m, x) \in Nat
  BY <1>2, Places
<1>5. f \in [At(m, x) -> B]
  <2>1. ASSUME NEW i \in At(m, x)
        PROVE  (IF i < q THEN i ELSE i + 1) \in B
    <3>1. i \in 1 .. Len(m) /\ m[i] = x
      BY <1>1 DEF At
    <3>2. CASE i < q
      BY <1>1, <1>2, <1>3, <3>1, <3>2 DEF At
    <3>3. CASE ~(i < q)
      <4>1. i + 1 \in q + 1 .. Len(m) + 1 /\ (i + 1) - 1 = i
        BY <1>1, <3>1, <3>3
      <4>2. p[i + 1] = x
        BY <1>2, <3>1, <4>1
      <4>3. QED
        BY <1>1, <1>3, <3>3, <4>1, <4>2 DEF At
    <3>4. QED
      BY <3>2, <3>3
  <2>2. QED
    BY <2>1
<1>6. \A i, j \in At(m, x) : f[i] = f[j] => i = j
  <2>1. At(m, x) \subseteq Int
    BY <1>1 DEF At
  <2>2. QED
    BY <1>1, <2>1
<1>7. ASSUME NEW k \in B
      PROVE  \E i \in At(m, x) : f[i] = k
  <2>1. k \in 1 .. Len(m) + 1 /\ k # q /\ p[k] = x
    BY <1>3 DEF At
  <2>2. CASE k < q
    <3>1. k \in 1 .. q - 1 /\ k \in 1 .. Len(m)
      BY <1>1, <2>1, <2>2
    <3>2. k \in At(m, x)
      BY <1>1, <1>2, <2>1, <3>1 DEF At
    <3>3. QED
      BY <2>2, <3>2
  <2>3. CASE ~(k < q)
    <3>1. k \in q + 1 .. Len(m) + 1 /\ k - 1 \in 1 .. Len(m) /\ ~(k - 1 < q) /\ (k - 1) + 1 = k
      BY <1>1, <2>1, <2>3
    <3>2. k - 1 \in At(m, x)
      BY <1>1, <1>2, <2>1, <3>1 DEF At
    <3>3. f[k - 1] = k
      BY <3>1, <3>2
    <3>4. QED
      BY <3>2, <3>3
  <2>4. QED
    BY <2>2, <2>3
<1>8. Cardinality(B) = Count(m, x)
  <2> HIDE DEF f, B
  <2>1. QED
    BY <1>4, <1>5, <1>6, <1>7, Moved DEF Count
<1>9. q \in At(p, x) <=> x = e
  BY <1>1, <1>2, <1>3 DEF At
<1>10. Cardinality(B) = IF q \in At(p, x) THEN Count(p, x) - 1 ELSE Count(p, x)
  BY <1>4, FS_RemoveElement DEF Count
<1>11. Count(p, x) \in Nat
  BY <1>2, Places
<1> HIDE DEF B
<1>12. QED
  BY <1>4, <1>8, <1>9, <1>10, <1>11 DEF p

LEMMA CountCat ==
  ASSUME NEW S, NEW m \in Seq(S), NEW n \in Seq(S), NEW x
  PROVE  Count(m \o n, x) = Count(m, x) + Count(n, x)
<1> DEFINE a == Len(m)
           p == m \o n
           f == [i \in At(n, x) |-> a + i]
           B == { k \in At(p, x) : k > a }
<1>1. /\ a \in Nat /\ DOMAIN m = 1 .. a /\ Len(n) \in Nat /\ DOMAIN n = 1 .. Len(n)
      /\ p \in Seq(S) /\ Len(p) = a + Len(n) /\ DOMAIN p = 1 .. a + Len(n)
      /\ \A i \in 1 .. a + Len(n) : p[i] = IF i <= a THEN m[i] ELSE n[i - a]
  BY LenProperties, ConcatProperties
<1> HIDE DEF p, a
<1>2. IsFiniteSet(At(m, x)) /\ IsFiniteSet(At(n, x)) /\ Count(m, x) \in Nat /\ Count(n, x) \in Nat
  BY Places
<1>3. f \in [At(n, x) -> B]
  <2>1. ASSUME NEW i \in At(n, x)
        PROVE  a + i \in B
    <3>1. i \in 1 .. Len(n) /\ n[i] = x
      BY <1>1 DEF At
    <3>2. a + i \in 1 .. a + Len(n) /\ ~(a + i <= a) /\ (a + i) - a = i
      BY <1>1, <3>1
    <3>3. QED
      BY <1>1, <3>1, <3>2 DEF At
  <2>2. QED
    BY <2>1
<1>4. \A i, j \in At(n, x) : f[i] = f[j] => i = j
  <2>1. At(n, x) \subseteq Int
    BY <1>1 DEF At
  <2>2. QED
    BY <1>1, <2>1
<1>5. ASSUME NEW k \in B
      PROVE  \E i \in At(n, x) : f[i] = k
  <2>1. k \in 1 .. a + Len(n) /\ k > a /\ p[k] = x
    BY <1>1 DEF At
  <2>2. k - a \in 1 .. Len(n) /\ n[k - a] = x /\ a + (k - a) = k
    BY <1>1, <2>1
  <2>3. k - a \in At(n, x)
    BY <1>1, <2>2 DEF At
  <2>4. QED
    BY <2>2, <2>3
<1>6. IsFiniteSet(B) /\ Cardinality(B) = Count(n, x)
  <2> HIDE DEF f, B
  <2>1. QED
    BY <1>2, <1>3, <1>4, <1>5, Moved DEF Count
<1>7. At(p, x) = At(m, x) \cup B /\ At(m, x) \cap B = {}
  <2>1. \A k \in 1 .. a : k \in 1 .. a + Len(n) /\ k <= a /\ ~(k > a)
    BY <1>1
  <2>2. \A k \in 1 .. a + Len(n) : k \in 1 .. a \/ k > a
    BY <1>1
  <2>3. QED
    BY <1>1, <2>1, <2>2 DEF At
<1> HIDE DEF B
<1>8. Count(p, x) = Count(m, x) + Count(n, x) - 0
  BY <1>2, <1>6, <1>7, FS_Union, FS_EmptySet DEF Count
<1>9. QED
  BY <1>2, <1>8 DEF p

LEMMA CountOne ==
  ASSUME NEW S, NEW e \in S, NEW x
  PROVE  <<e>> \in Seq(S) /\ Count(<<e>>, x) = IF x = e THEN 1 ELSE 0
<1>1. << >> \in Seq(S) /\ Len(<< >>) = 0 /\ DOMAIN << >> = {}
  BY EmptySeq
<1>2. Count(<< >>, x) = 0
  BY <1>1, FS_EmptySet DEF Count, At
<1>3. Placed(<< >>, 0, e) = <<e>>
  BY <1>1 DEF Placed
<1>4. 0 \in 0 .. Len(<< >>)
  BY <1>1
<1> DEFINE m == << >>
<1>5. m \in Seq(S) /\ 0 \in 0 .. Len(m)
  BY <1>1, <1>4
<1> HIDE DEF m
<1>6. Count(Placed(m, 0, e), x) = Count(m, x) + (IF x = e THEN 1 ELSE 0)
  BY <1>5, CountPlaced
<1>7. QED
  BY <1>2, <1>3, <1>6 DEF m

LEMMA CountAppended ==
  ASSUME NEW S, NEW m \in Seq(S), NEW e \in S, NEW x
  PROVE  Count(Append(m, e), x) = Count(m, x) + (IF x = e THEN 1 ELSE 0)
<1>1. ASSUME NEW at \in 0 .. Len(m)
      PROVE  Count(Placed(m, at, e), x) = Count(m, x) + (IF x = e THEN 1 ELSE 0)
  BY CountPlaced
<1>2. Placed(m, 0, e) = Append(m, e) /\ 0 \in 0 .. Len(m)
  BY LenProperties DEF Placed
<1>3. QED
  BY <1>1, <1>2

LEMMA CountReverse ==
  ASSUME NEW S, NEW m \in Seq(S), NEW x
  PROVE  /\ Reverse(m) \in Seq(S) /\ Len(Reverse(m)) = Len(m)
         /\ Count(Reverse(m), x) = Count(m, x)
<1> DEFINE n == Len(m)
           r == Reverse(m)
           f == [i \in At(m, x) |-> n - i + 1]
<1>1. n \in Nat /\ DOMAIN m = 1 .. n /\ \A i \in 1 .. n : m[i] \in S
  BY LenProperties, ElementOfSeq
<1>2. r = [i \in 1 .. n |-> m[(n - i) + 1]]
  BY DEF Reverse
<1>3. \A i \in 1 .. n : (n - i) + 1 \in 1 .. n /\ (n - ((n - i) + 1)) + 1 = i
  BY <1>1
<1>4. r \in Seq(S) /\ Len(r) = n /\ DOMAIN r = 1 .. n
  <2>1. \A i \in 1 .. n : m[(n - i) + 1] \in S
    BY <1>1, <1>3
  <2>2. r \in [1 .. n -> S]
    BY <1>2, <2>1
  <2>3. r \in Seq(S)
    BY <1>1, <2>2, SeqDef
  <2>4. DOMAIN r = 1 .. n /\ Len(r) \in Nat /\ DOMAIN r = 1 .. Len(r)
    BY <1>2, <2>3, LenProperties
  <2>5. QED
    BY <1>1, <2>3, <2>4
<1> HIDE DEF n, r
<1>5. f \in [At(m, x) -> At(r, x)]
  <2>1. ASSUME NEW i \in At(m, x)
        PROVE  n - i + 1 \in At(r, x)
    <3>1. i \in 1 .. n /\ m[i] = x
      BY <1>1 DEF At
    <3>2. QED
      BY <1>2, <1>3, <1>4, <3>1 DEF At
  <2>2. QED
    BY <2>1
<1>6. \A i, j \in At(m, x) : f[i] = f[j] => i = j
  <2>1. At(m, x) \subseteq Int
    BY <1>1 DEF At
  <2>2. QED
    BY <1>1, <2>1
<1>7. ASSUME NEW k \in At(r, x)
      PROVE  \E i \in At(m, x) : f[i] = k
  <2>1. k \in 1 .. n /\ r[k] = x
    BY <1>4 DEF At
  <2>2. (n - k) + 1 \in At(m, x)
    BY <1>1, <1>2, <1>3, <2>1 DEF At
  <2>3. QED
    BY <1>3, <2>1, <2>2
<1>8. IsFiniteSet(At(m, x))
  BY Places
<1>9. Count(r, x) = Count(m, x)
  <2> HIDE DEF f
  <2>1. QED
    BY <1>5, <1>6, <1>7, <1>8, Moved DEF Count
<1>10. QED
  BY <1>4, <1>9 DEF n, r

-----------------------------------------------------------------------------
(* The sibling of a split *)

\* The fold that fills the sibling of a leaf is a run of inserts.
LEMMA LeafFillRuns ==
  ASSUME NEW S, \A x \in S : x.key \in Int, NEW r \in Seq(S)
  PROVE  \E g \in [0 .. Len(r) -> Seq(S)] :
           /\ g[0] = << >> /\ \A i \in 1 .. Len(r) : g[i] = LeafInsert(g[i - 1], r[i])
           /\ FoldLeft(LeafInsert, << >>, r) = g[Len(r)]
<1> DEFINE n == Len(r)
           Q == Seq(S)
           b == << >>
           D == SUBSET (1 .. n)
           F == [i \in 1 .. n |-> [m \in Q |-> LeafInsert(m, r[i])]]
           Eq(f) == f = [s \in D |-> IF s = {} THEN b ELSE LeafInsert(f[s \ {Max(s)}], r[Max(s)])]
           f == CHOOSE f : Eq(f)
           g == [i \in 0 .. n |-> f[1 .. i]]
<1>1. n \in Nat /\ DOMAIN r = 1 .. n /\ \A i \in 1 .. n : r[i] \in S
  BY LenProperties, ElementOfSeq
<1>2. b \in Q
  BY EmptySeq
<1>3. FoldLeft(LeafInsert, << >>, r) = f[1 .. n]
  BY <1>1 DEF FoldLeft, MapThenFoldSet
<1>4. \A m \in Q, e \in S : LeafInsert(m, e) \in Q
  <2>1. ASSUME NEW m \in Q, NEW e \in S
        PROVE  LeafInsert(m, e) \in Q
    <3>1. Locate(m, e.key) \in 0 .. Len(m)
      BY LocateIn
    <3>2. QED
      BY <3>1, PlacedElements DEF LeafInsert, LeafPlaced
  <2>2. QED
    BY <2>1
<1>5. F \in [1 .. n -> [Q -> Q]]
  BY <1>1, <1>4
<1>6. \E it : Eq(it)
  <2>1. PICK it \in [D -> Q] :
          it = [s \in D |-> IF s = {} THEN b ELSE F[Max(s)][it[s \ {Max(s)}]]]
    <3> HIDE DEF F, b, Q
    <3>1. Folds(Q, n, b, F) # {}
      BY <1>1, <1>2, <1>5, FoldExists
    <3>2. QED
      BY <3>1 DEF Folds
  <2>2. ASSUME NEW s \in D, s # {}
        PROVE  F[Max(s)][it[s \ {Max(s)}]] = LeafInsert(it[s \ {Max(s)}], r[Max(s)])
    <3>1. Max(s) \in 1 .. n
      BY <1>1, <2>2, Greatest
    <3>2. it[s \ {Max(s)}] \in Q
      OBVIOUS
    <3>3. QED
      BY <3>1, <3>2
  <2>3. Eq(it)
    <3> HIDE DEF F, b, Q
    <3>1. QED
      BY <2>1, <2>2
  <2>4. QED
    BY <2>3
<1>7. Eq(f)
  <2> HIDE DEF Eq
  <2>1. QED
    BY <1>6
<1> HIDE DEF f
<1>8. f[{}] = b
  <2>1. {} \in D
    OBVIOUS
  <2>2. QED
    BY <1>7, <2>1
<1>9. ASSUME NEW i \in 1 .. n
      PROVE  f[1 .. i] = LeafInsert(f[1 .. i - 1], r[i])
  <2>1. /\ 1 .. i \in D /\ 1 .. i # {} /\ Max(1 .. i) = i /\ (1 .. i) \ {i} = 1 .. i - 1
    BY <1>1, LastOf
  <2> HIDE DEF b
  <2>2. QED
    BY <1>7, <2>1
<1>10. \A i \in 1 .. n : f[1 .. i - 1] \in Q => f[1 .. i] = F[i][f[1 .. i - 1]]
  <2> HIDE DEF b, Q
  <2>1. QED
    BY <1>9
<1>11. g \in Runs(Q, n, b, F)
  <2> HIDE DEF b, F, Q
  <2>1. QED
    BY <1>1, <1>2, <1>5, <1>8, <1>10, FoldRuns
<1>12. g[n] = FoldLeft(LeafInsert, << >>, r)
  BY <1>1, <1>3
<1>13. QED
  <2> HIDE DEF g
  <2>1. g \in [0 .. n -> Q] /\ g[0] = b /\ \A i \in 1 .. n : g[i] = F[i][g[i - 1]]
    BY <1>11 DEF Runs
  <2>2. \A i \in 1 .. n : g[i - 1] \in Q
    BY <1>1, <2>1
  <2>3. \A i \in 1 .. n : g[i] = LeafInsert(g[i - 1], r[i])
    <3> HIDE DEF Q
    <3>1. QED
      BY <2>1, <2>2
  <2>4. QED
    BY <1>12, <2>1, <2>3

\* The fold that fills the sibling of a nonleaf node is a run of inserts.
LEMMA NonLeafFillRuns ==
  ASSUME NEW S, \A x \in S : x.key \in Int, NEW r \in Seq(S)
  PROVE  \E g \in [0 .. Len(r) -> Seq(S)] :
           /\ g[0] = << >> /\ \A i \in 1 .. Len(r) : g[i] = NonLeafInsert(g[i - 1], r[i])
           /\ FoldLeft(NonLeafInsert, << >>, r) = g[Len(r)]
<1> DEFINE n == Len(r)
           Q == Seq(S)
           b == << >>
           D == SUBSET (1 .. n)
           F == [i \in 1 .. n |-> [m \in Q |-> NonLeafInsert(m, r[i])]]
           Eq(f) == f = [s \in D |-> IF s = {} THEN b ELSE NonLeafInsert(f[s \ {Max(s)}], r[Max(s)])]
           f == CHOOSE f : Eq(f)
           g == [i \in 0 .. n |-> f[1 .. i]]
<1>1. n \in Nat /\ DOMAIN r = 1 .. n /\ \A i \in 1 .. n : r[i] \in S
  BY LenProperties, ElementOfSeq
<1>2. b \in Q
  BY EmptySeq
<1>3. FoldLeft(NonLeafInsert, << >>, r) = f[1 .. n]
  BY <1>1 DEF FoldLeft, MapThenFoldSet
<1>4. \A m \in Q, e \in S : NonLeafInsert(m, e) \in Q
  <2>1. ASSUME NEW m \in Q, NEW e \in S
        PROVE  NonLeafInsert(m, e) \in Q
    <3>1. Above(m, e.key) \in 0 .. Len(m)
      BY AboveSplits
    <3>2. QED
      BY <3>1, PlacedElements DEF NonLeafInsert, NonLeafPlaced
  <2>2. QED
    BY <2>1
<1>5. F \in [1 .. n -> [Q -> Q]]
  BY <1>1, <1>4
<1>6. \E it : Eq(it)
  <2>1. PICK it \in [D -> Q] :
          it = [s \in D |-> IF s = {} THEN b ELSE F[Max(s)][it[s \ {Max(s)}]]]
    <3> HIDE DEF F, b, Q
    <3>1. Folds(Q, n, b, F) # {}
      BY <1>1, <1>2, <1>5, FoldExists
    <3>2. QED
      BY <3>1 DEF Folds
  <2>2. ASSUME NEW s \in D, s # {}
        PROVE  F[Max(s)][it[s \ {Max(s)}]] = NonLeafInsert(it[s \ {Max(s)}], r[Max(s)])
    <3>1. Max(s) \in 1 .. n
      BY <1>1, <2>2, Greatest
    <3>2. it[s \ {Max(s)}] \in Q
      OBVIOUS
    <3>3. QED
      BY <3>1, <3>2
  <2>3. Eq(it)
    <3> HIDE DEF F, b, Q
    <3>1. QED
      BY <2>1, <2>2
  <2>4. QED
    BY <2>3
<1>7. Eq(f)
  <2> HIDE DEF Eq
  <2>1. QED
    BY <1>6
<1> HIDE DEF f
<1>8. f[{}] = b
  <2>1. {} \in D
    OBVIOUS
  <2>2. QED
    BY <1>7, <2>1
<1>9. ASSUME NEW i \in 1 .. n
      PROVE  f[1 .. i] = NonLeafInsert(f[1 .. i - 1], r[i])
  <2>1. /\ 1 .. i \in D /\ 1 .. i # {} /\ Max(1 .. i) = i /\ (1 .. i) \ {i} = 1 .. i - 1
    BY <1>1, LastOf
  <2> HIDE DEF b
  <2>2. QED
    BY <1>7, <2>1
<1>10. \A i \in 1 .. n : f[1 .. i - 1] \in Q => f[1 .. i] = F[i][f[1 .. i - 1]]
  <2> HIDE DEF b, Q
  <2>1. QED
    BY <1>9
<1>11. g \in Runs(Q, n, b, F)
  <2> HIDE DEF b, F, Q
  <2>1. QED
    BY <1>1, <1>2, <1>5, <1>8, <1>10, FoldRuns
<1>12. g[n] = FoldLeft(NonLeafInsert, << >>, r)
  BY <1>1, <1>3
<1>13. QED
  <2> HIDE DEF g
  <2>1. g \in [0 .. n -> Q] /\ g[0] = b /\ \A i \in 1 .. n : g[i] = F[i][g[i - 1]]
    BY <1>11 DEF Runs
  <2>2. \A i \in 1 .. n : g[i - 1] \in Q
    BY <1>1, <2>1
  <2>3. \A i \in 1 .. n : g[i] = NonLeafInsert(g[i - 1], r[i])
    <3> HIDE DEF Q
    <3>1. QED
      BY <2>1, <2>2
  <2>4. QED
    BY <1>12, <2>1, <2>3

\* A node that is filled with the entries of r, and has room for them, has
\* them all, in order.
LEMMA Filled ==
  ASSUME NEW S, NEW r \in Seq(S), NEW max \in Nat, Len(r) <= max,
         NEW g \in [0 .. Len(r) -> Seq(S)], g[0] = << >>,
         \A i \in 1 .. Len(r) : Len(g[i - 1]) # max =>
           /\ \E at \in 0 .. Len(g[i - 1]) : g[i] = Placed(g[i - 1], at, r[i])
           /\ InOrder(g[i - 1]) => InOrder(g[i])
  PROVE  /\ g[Len(r)] \in Seq(S) /\ Len(g[Len(r)]) = Len(r) /\ InOrder(g[Len(r)])
         /\ \A x : Count(g[Len(r)], x) = Count(r, x)
<1> DEFINE n == Len(r)
           Upto(i, x) == { k \in 1 .. i : r[k] = x }
           T == { i \in 0 .. n : /\ Len(g[i]) = i /\ InOrder(g[i])
                                 /\ \A x : Count(g[i], x) = Cardinality(Upto(i, x)) }
<1>1. n \in Nat /\ DOMAIN r = 1 .. n /\ \A i \in 1 .. n : r[i] \in S
  BY LenProperties, ElementOfSeq
<1>2. 0 \in T
  <2>1. Len(<< >>) = 0 /\ DOMAIN << >> = {} /\ InOrder(<< >>)
    BY EmptySeq DEF InOrder
  <2>2. ASSUME NEW x
        PROVE  Count(<< >>, x) = Cardinality(Upto(0, x))
    <3>1. At(<< >>, x) = {} /\ Upto(0, x) = {}
      BY <2>1 DEF At
    <3>2. QED
      BY <3>1 DEF Count
  <2> HIDE DEF Upto
  <2>3. QED
    BY <1>1, <2>1, <2>2
<1>3. ASSUME NEW i \in 0 .. n - 1, i \in T
      PROVE  i + 1 \in T
  <2>1. i + 1 \in 1 .. n /\ i + 1 \in 0 .. n /\ (i + 1) - 1 = i /\ i \in Nat /\ i # max
    BY <1>1
  <2>2. Len(g[i]) = i /\ InOrder(g[i]) /\ g[i] \in Seq(S) /\ r[i + 1] \in S
    BY <1>1, <1>3, <2>1
  <2>3. PICK at \in 0 .. Len(g[i]) : g[i + 1] = Placed(g[i], at, r[i + 1])
    BY <2>1, <2>2
  <2>4. InOrder(g[i + 1]) /\ Len(g[i + 1]) = i + 1
    <3>1. InOrder(g[i]) => InOrder(g[i + 1])
      BY <2>1, <2>2
    <3>2. Len(Placed(g[i], at, r[i + 1])) = Len(g[i]) + 1
      BY ONLY <2>2, at \in 0 .. Len(g[i]), PlacedElements
    <3>3. QED
      BY <2>2, <2>3, <3>1, <3>2
  <2>5. ASSUME NEW x
        PROVE  Count(g[i + 1], x) = Cardinality(Upto(i + 1, x))
    <3>1. Count(g[i + 1], x) = Count(g[i], x) + (IF x = r[i + 1] THEN 1 ELSE 0)
      BY <2>2, <2>3, CountPlaced
    <3>2. Count(g[i], x) = Cardinality(Upto(i, x))
      BY <1>3
    <3>3. IsFiniteSet(Upto(i, x)) /\ Cardinality(Upto(i, x)) \in Nat /\ i + 1 \notin Upto(i, x)
      <4>1. IsFiniteSet(1 .. i) /\ Upto(i, x) \in SUBSET (1 .. i) /\ i + 1 \notin 1 .. i
        <5>1. IsFiniteSet(1 .. i)
          BY <2>1, FS_Interval
        <5>2. QED
          BY <2>1, <5>1
      <4>2. i + 1 \notin Upto(i, x)
        BY <4>1
      <4> HIDE DEF Upto
      <4>3. QED
        BY <4>1, <4>2, FS_Subset, FS_CardinalityType
    <3>4. Upto(i + 1, x) = IF x = r[i + 1] THEN Upto(i, x) \cup {i + 1} ELSE Upto(i, x)
      <4>1. 1 .. i + 1 = (1 .. i) \cup {i + 1}
        BY <2>1
      <4>2. QED
        BY <4>1
    <3> HIDE DEF Upto
    <3>5. CASE x = r[i + 1]
      <4>1. Upto(i + 1, x) = Upto(i, x) \cup {i + 1} /\ Count(g[i + 1], x) = Cardinality(Upto(i, x)) + 1
        BY <3>1, <3>2, <3>4, <3>5
      <4>2. Cardinality(Upto(i, x) \cup {i + 1}) = Cardinality(Upto(i, x)) + 1
        BY <3>3, FS_AddElement
      <4>3. QED
        BY <4>1, <4>2
    <3>6. CASE x # r[i + 1]
      BY <3>1, <3>2, <3>3, <3>4, <3>6
    <3>7. QED
      BY <3>5, <3>6
  <2> HIDE DEF Upto
  <2>6. QED
    BY <2>1, <2>4, <2>5
<1>4. n \in T
  <2> HIDE DEF T
  <2>1. 0 .. n \subseteq T
    BY <1>1, <1>2, <1>3, UpTo
  <2>2. QED
    BY <1>1, <2>1
<1>5. \A x : Upto(n, x) = At(r, x)
  BY <1>1 DEF At
<1>6. QED
  BY <1>4, <1>5 DEF Count

LEMMA LeafSibling ==
  ASSUME NEW S, \A x \in S : x.key \in Int, NEW tail \in Seq(S), Len(tail) <= LEAF_MAX
  PROVE  LET sib == FoldLeft(LeafInsert, << >>, Reverse(tail))
         IN /\ sib \in Seq(S) /\ Len(sib) = Len(tail) /\ InOrder(sib)
            /\ \A x : Count(sib, x) = Count(tail, x)
<1> DEFINE r == Reverse(tail)
           sib == FoldLeft(LeafInsert, << >>, r)
<1>1. r \in Seq(S) /\ Len(r) = Len(tail) /\ \A x : Count(r, x) = Count(tail, x)
  BY CountReverse
<1>2. Len(r) \in Nat /\ LEAF_MAX \in Nat /\ \A i \in 1 .. Len(r) : r[i] \in S
  BY <1>1, LenProperties, ElementOfSeq, FanoutAssumption
<1> HIDE DEF r
<1>3. PICK g \in [0 .. Len(r) -> Seq(S)] :
        /\ g[0] = << >> /\ \A i \in 1 .. Len(r) : g[i] = LeafInsert(g[i - 1], r[i])
        /\ sib = g[Len(r)]
  BY <1>1, LeafFillRuns
<1>4. ASSUME NEW i \in 1 .. Len(r), Len(g[i - 1]) # LEAF_MAX
      PROVE  /\ \E at \in 0 .. Len(g[i - 1]) : g[i] = Placed(g[i - 1], at, r[i])
             /\ InOrder(g[i - 1]) => InOrder(g[i])
  <2>1. g[i - 1] \in Seq(S) /\ r[i] \in S
    BY <1>2
  <2>2. g[i] = LeafPlaced(g[i - 1], r[i])
    BY <1>3, <1>4 DEF LeafInsert, LeafFull
  <2>3. g[i] = Placed(g[i - 1], Locate(g[i - 1], r[i].key), r[i])
    BY <2>2 DEF LeafPlaced
  <2>4. Locate(g[i - 1], r[i].key) \in 0 .. Len(g[i - 1])
    BY <2>1, LocateIn
  <2>5. InOrder(g[i - 1]) => InOrder(LeafPlaced(g[i - 1], r[i]))
    BY <2>1, LeafPlacedSorted
  <2>6. QED
    BY <2>2, <2>3, <2>4, <2>5
<1> HIDE DEF sib
<1>5. /\ g[Len(r)] \in Seq(S) /\ Len(g[Len(r)]) = Len(r) /\ InOrder(g[Len(r)])
      /\ \A x : Count(g[Len(r)], x) = Count(r, x)
  BY <1>1, <1>2, <1>3, <1>4, Filled
<1>6. sib \in Seq(S) /\ Len(sib) = Len(tail) /\ InOrder(sib) /\ \A x : Count(sib, x) = Count(tail, x)
  BY <1>1, <1>3, <1>5
<1>7. QED
  BY <1>6 DEF sib, r

LEMMA NonLeafSibling ==
  ASSUME NEW S, \A x \in S : x.key \in Int, NEW tail \in Seq(S), Len(tail) <= NONLEAF_MAX
  PROVE  LET sib == FoldLeft(NonLeafInsert, << >>, Reverse(tail))
         IN /\ sib \in Seq(S) /\ Len(sib) = Len(tail) /\ InOrder(sib)
            /\ \A x : Count(sib, x) = Count(tail, x)
<1> DEFINE r == Reverse(tail)
           sib == FoldLeft(NonLeafInsert, << >>, r)
<1>1. r \in Seq(S) /\ Len(r) = Len(tail) /\ \A x : Count(r, x) = Count(tail, x)
  BY CountReverse
<1>2. Len(r) \in Nat /\ NONLEAF_MAX \in Nat /\ \A i \in 1 .. Len(r) : r[i] \in S
  BY <1>1, LenProperties, ElementOfSeq, FanoutAssumption
<1> HIDE DEF r
<1>3. PICK g \in [0 .. Len(r) -> Seq(S)] :
        /\ g[0] = << >> /\ \A i \in 1 .. Len(r) : g[i] = NonLeafInsert(g[i - 1], r[i])
        /\ sib = g[Len(r)]
  BY <1>1, NonLeafFillRuns
<1>4. ASSUME NEW i \in 1 .. Len(r), Len(g[i - 1]) # NONLEAF_MAX
      PROVE  /\ \E at \in 0 .. Len(g[i - 1]) : g[i] = Placed(g[i - 1], at, r[i])
             /\ InOrder(g[i - 1]) => InOrder(g[i])
  <2>1. g[i - 1] \in Seq(S) /\ r[i] \in S
    BY <1>2
  <2>2. g[i] = NonLeafPlaced(g[i - 1], r[i])
    BY <1>3, <1>4 DEF NonLeafInsert, NonLeafFull
  <2>3. g[i] = Placed(g[i - 1], Above(g[i - 1], r[i].key), r[i])
    BY <2>2 DEF NonLeafPlaced
  <2>4. Above(g[i - 1], r[i].key) \in 0 .. Len(g[i - 1])
    BY <2>1, AboveSplits
  <2>5. InOrder(g[i - 1]) => InOrder(NonLeafPlaced(g[i - 1], r[i]))
    BY <2>1, NonLeafPlacedSorted
  <2>6. QED
    BY <2>2, <2>3, <2>4, <2>5
<1> HIDE DEF sib
<1>5. /\ g[Len(r)] \in Seq(S) /\ Len(g[Len(r)]) = Len(r) /\ InOrder(g[Len(r)])
      /\ \A x : Count(g[Len(r)], x) = Count(r, x)
  BY <1>1, <1>2, <1>3, <1>4, Filled
<1>6. sib \in Seq(S) /\ Len(sib) = Len(tail) /\ InOrder(sib) /\ \A x : Count(sib, x) = Count(tail, x)
  BY <1>1, <1>3, <1>5
<1>7. QED
  BY <1>6 DEF sib, r

-----------------------------------------------------------------------------
(* The two halves *)

LEMMA SortedCat ==
  ASSUME NEW S, \A x \in S : x.key \in Int,
         NEW m \in Seq(S), NEW n \in Seq(S), InOrder(m), InOrder(n),
         \A i \in 1 .. Len(m), j \in 1 .. Len(n) : m[i].key <= n[j].key
  PROVE  m \o n \in Seq(S) /\ InOrder(m \o n)
<1> DEFINE a == Len(m)
           b == Len(n)
           p == m \o n
<1>1. /\ a \in Nat /\ DOMAIN m = 1 .. a /\ b \in Nat /\ DOMAIN n = 1 .. b
      /\ p \in Seq(S) /\ DOMAIN p = 1 .. a + b
      /\ \A i \in 1 .. a + b : p[i] = IF i <= a THEN m[i] ELSE n[i - a]
  BY LenProperties, ConcatProperties
<1> HIDE DEF p
<1>2. ASSUME NEW i \in 1 .. a + b, NEW j \in 1 .. a + b, i < j
      PROVE  p[i].key <= p[j].key
  <2>1. CASE j <= a
    <3>1. i \in DOMAIN m /\ j \in DOMAIN m /\ p[i] = m[i] /\ p[j] = m[j]
      BY <1>1, <1>2, <2>1
    <3>2. QED
      BY <1>2, <3>1 DEF InOrder
  <2>2. CASE i <= a /\ ~(j <= a)
    <3>1. i \in 1 .. a /\ j - a \in 1 .. b /\ p[i] = m[i] /\ p[j] = n[j - a]
      BY <1>1, <2>2
    <3>2. QED
      BY <3>1
  <2>3. CASE ~(i <= a)
    <3>1. /\ i - a \in DOMAIN n /\ j - a \in DOMAIN n /\ i - a < j - a
          /\ p[i] = n[i - a] /\ p[j] = n[j - a]
      BY <1>1, <1>2, <2>3
    <3>2. QED
      BY <3>1 DEF InOrder
  <2>4. QED
    BY <1>1, <1>2, <2>1, <2>2, <2>3
<1>3. QED
  BY <1>1, <1>2 DEF p, InOrder

LEMMA FrontPart ==
  ASSUME NEW S, NEW all \in Seq(S), NEW k \in 0 .. Len(all)
  PROVE  /\ SubSeq(all, 1, k) \in Seq(S) /\ Len(SubSeq(all, 1, k)) = k
         /\ \A i \in 1 .. k : SubSeq(all, 1, k)[i] = all[i]
<1>1. Len(all) \in Nat /\ \A i \in 1 .. Len(all) : all[i] \in S
  BY LenProperties, ElementOfSeq
<1>2. k \in Nat /\ \A i \in 1 .. k : all[i] \in S
  BY <1>1
<1>3. QED
  BY <1>2, SubSeqProperties

LEMMA TailPart ==
  ASSUME NEW S, NEW all \in Seq(S), NEW h \in 0 .. Len(all)
  PROVE  /\ SubSeq(all, h + 1, Len(all)) \in Seq(S)
         /\ Len(SubSeq(all, h + 1, Len(all))) = Len(all) - h
         /\ \A i \in 1 .. Len(all) - h : SubSeq(all, h + 1, Len(all))[i] = all[h + i]
<1> DEFINE n == Len(all)
<1>1. n \in Nat /\ \A i \in 1 .. n : all[i] \in S
  BY LenProperties, ElementOfSeq
<1>2. h \in 0 .. n
  OBVIOUS
<1> HIDE DEF n
<1>3. \A i \in h + 1 .. n : all[i] \in S
  BY <1>1, <1>2
<1>4. QED
  BY <1>1, <1>2, <1>3, SubSeqProperties DEF n

\* The entries of a sibling come from behind the middle.
LEMMA Behind ==
  ASSUME NEW S, NEW all \in Seq(S), NEW h \in 0 .. Len(all), NEW sib \in Seq(S),
         \A x : Count(sib, x) = Count(SubSeq(all, h + 1, Len(all)), x)
  PROVE  \A j \in 1 .. Len(sib) : \E i \in h + 1 .. Len(all) : sib[j] = all[i]
<1> DEFINE n    == Len(all)
           tail == SubSeq(all, h + 1, n)
<1>1. n \in Nat /\ h \in 0 .. n
  BY LenProperties
<1>2. /\ tail \in Seq(S) /\ Len(tail) = n - h
      /\ \A i \in 1 .. n - h : tail[i] = all[h + i]
  BY <1>1, TailPart
<1> HIDE DEF tail, n
<1>3. ASSUME NEW j \in 1 .. Len(sib)
      PROVE  \E i \in h + 1 .. n : sib[j] = all[i]
  <2>1. sib[j] \in ToSet(sib)
    BY LenProperties DEF ToSet
  <2>2. Count(sib, sib[j]) # 0
    BY <2>1, Places
  <2>3. Count(tail, sib[j]) # 0
    BY <2>2 DEF tail, n
  <2>4. sib[j] \in ToSet(tail)
    BY <1>2, <2>3, Places
  <2>5. PICK i \in 1 .. n - h : sib[j] = tail[i]
    BY <1>2, <2>4, LenProperties DEF ToSet
  <2>6. h + i \in h + 1 .. n /\ sib[j] = all[h + i]
    BY <1>1, <1>2, <2>5
  <2>7. QED
    BY <2>6
<1>4. QED
  BY <1>3 DEF n

\* What stays and what goes are all there is, but for the entries between them.
LEMMA CountHalves ==
  ASSUME NEW S, NEW all \in Seq(S), NEW k \in 0 .. Len(all), NEW x
  PROVE  /\ Count(all, x) = Count(SubSeq(all, 1, k), x) + Count(SubSeq(all, k + 1, Len(all)), x)
         /\ k < Len(all) =>
              Count(SubSeq(all, k + 1, Len(all)), x)
                = (IF x = all[k + 1] THEN 1 ELSE 0) + Count(SubSeq(all, k + 2, Len(all)), x)
<1> DEFINE n     == Len(all)
           Tl(h) == SubSeq(all, h + 1, n)
<1>1. n \in Nat /\ DOMAIN all = 1 .. n /\ \A i \in 1 .. n : all[i] \in S
  BY LenProperties, ElementOfSeq
<1>2. /\ SubSeq(all, 1, k) \in Seq(S) /\ Len(SubSeq(all, 1, k)) = k
      /\ \A i \in 1 .. k : SubSeq(all, 1, k)[i] = all[i]
  BY FrontPart
<1>3. ASSUME NEW h \in 0 .. n
      PROVE  /\ Tl(h) \in Seq(S) /\ Len(Tl(h)) = n - h
             /\ \A i \in 1 .. n - h : Tl(h)[i] = all[h + i]
  BY TailPart
<1> HIDE DEF n, Tl
<1>4. all = SubSeq(all, 1, k) \o Tl(k)
  <2> DEFINE l == SubSeq(all, 1, k)
             t == Tl(k)
             p == l \o t
  <2>1. /\ l \in Seq(S) /\ Len(l) = k /\ t \in Seq(S) /\ Len(t) = n - k /\ k \in 0 .. n
        /\ \A i \in 1 .. k : l[i] = all[i]
        /\ \A i \in 1 .. n - k : t[i] = all[k + i]
    BY <1>1, <1>2, <1>3 DEF n
  <2> HIDE DEF l, t
  <2>2. /\ p \in Seq(S) /\ Len(p) = k + (n - k)
        /\ \A i \in 1 .. k + (n - k) : p[i] = IF i <= k THEN l[i] ELSE t[i - k]
    <3>1. /\ p \in Seq(S) /\ Len(p) = Len(l) + Len(t)
          /\ \A i \in 1 .. Len(l) + Len(t) : p[i] = IF i <= Len(l) THEN l[i] ELSE t[i - Len(l)]
      BY <2>1, ConcatProperties
    <3>2. QED
      BY <2>1, <3>1
  <2> HIDE DEF p
  <2>3. Len(p) = n /\ \A i \in 1 .. n : p[i] = all[i]
    <3>1. k + (n - k) = n /\ \A i \in 1 .. n : ~(i <= k) => i - k \in 1 .. n - k /\ k + (i - k) = i
      BY <1>1, <2>1
    <3>2. \A i \in 1 .. n : i <= k => i \in 1 .. k
      BY <1>1, <2>1
    <3>3. QED
      BY <2>1, <2>2, <3>1, <3>2
  <2>4. p = all
    BY <2>2, <2>3, SeqEqual DEF n
  <2>5. QED
    BY <2>4 DEF p, l, t
<1>5. k < n => Tl(k) = <<all[k + 1]>> \o Tl(k + 1)
  <2> SUFFICES ASSUME k < n PROVE Tl(k) = <<all[k + 1]>> \o Tl(k + 1)
    OBVIOUS
  <2> DEFINE l == <<all[k + 1]>>
             s == Tl(k)
             t == Tl(k + 1)
             p == l \o t
  <2>1. k + 1 \in 0 .. n /\ k \in 0 .. n /\ k + 1 \in 1 .. n
    BY <1>1 DEF n
  <2>2. /\ s \in Seq(S) /\ Len(s) = n - k /\ t \in Seq(S) /\ Len(t) = n - (k + 1)
        /\ \A i \in 1 .. n - k : s[i] = all[k + i]
        /\ \A i \in 1 .. n - (k + 1) : t[i] = all[(k + 1) + i]
    BY <1>3, <2>1
  <2>3. l \in Seq(S) /\ Len(l) = 1 /\ l[1] = all[k + 1]
    BY <1>1, <2>1
  <2> HIDE DEF l, t, s
  <2>4. /\ p \in Seq(S) /\ Len(p) = 1 + (n - (k + 1))
        /\ \A i \in 1 .. 1 + (n - (k + 1)) : p[i] = IF i <= 1 THEN l[i] ELSE t[i - 1]
    <3>1. /\ p \in Seq(S) /\ Len(p) = Len(l) + Len(t)
          /\ \A i \in 1 .. Len(l) + Len(t) : p[i] = IF i <= Len(l) THEN l[i] ELSE t[i - Len(l)]
      BY <2>2, <2>3, ConcatProperties
    <3>2. QED
      BY <2>2, <2>3, <3>1
  <2> HIDE DEF p
  <2>5. Len(p) = Len(s) /\ \A i \in 1 .. Len(s) : p[i] = s[i]
    <3>1. 1 + (n - (k + 1)) = n - k
      BY <1>1, <2>1
    <3>2. ASSUME NEW i \in 1 .. n - k
          PROVE  p[i] = s[i]
      <4>1. CASE i = 1
        BY <2>2, <2>3, <2>4, <3>1, <4>1
      <4>2. CASE i # 1
        <5>1. i - 1 \in 1 .. n - (k + 1) /\ (k + 1) + (i - 1) = k + i /\ ~(i <= 1)
          BY <1>1, <2>1, <4>2
        <5>2. QED
          BY <2>2, <2>4, <3>1, <5>1
      <4>3. QED
        BY <4>1, <4>2
    <3>3. QED
      BY <2>2, <2>4, <3>1, <3>2
  <2>6. p = s
    BY <2>2, <2>4, <2>5, SeqEqual
  <2>7. QED
    BY <2>6 DEF p, l, s, t
<1>6. Count(all, x) = Count(SubSeq(all, 1, k), x) + Count(Tl(k), x)
  <2>1. k \in 0 .. n
    BY DEF n
  <2>2. SubSeq(all, 1, k) \in Seq(S) /\ Tl(k) \in Seq(S)
    BY <1>2, <1>3, <2>1
  <2>3. QED
    BY ZenonT(60), <1>4, <2>2, CountCat
<1>7. k < n => Count(Tl(k), x) = (IF x = all[k + 1] THEN 1 ELSE 0) + Count(Tl(k + 1), x)
  <2> SUFFICES ASSUME k < n
               PROVE  Count(Tl(k), x) = (IF x = all[k + 1] THEN 1 ELSE 0) + Count(Tl(k + 1), x)
    OBVIOUS
  <2>1. k + 1 \in 0 .. n /\ k + 1 \in 1 .. n
    BY <1>1 DEF n
  <2>2. <<all[k + 1]>> \in Seq(S) /\ all[k + 1] \in S
    BY <1>1, <2>1
  <2>3. Count(Tl(k), x) = Count(<<all[k + 1]>>, x) + Count(Tl(k + 1), x)
    <3>1. Tl(k + 1) \in Seq(S)
      BY <1>3, <2>1
    <3> DEFINE l == <<all[k + 1]>>
               t == Tl(k + 1)
    <3>2. l \in Seq(S) /\ t \in Seq(S) /\ Tl(k) = l \o t
      BY <1>5, <2>2, <3>1
    <3> HIDE DEF l, t
    <3>3. Count(Tl(k), x) = Count(l, x) + Count(t, x)
      BY <3>2, CountCat
    <3>4. QED
      BY <3>3 DEF l, t
  <2>4. Count(<<all[k + 1]>>, x) = IF x = all[k + 1] THEN 1 ELSE 0
    BY <2>2, CountOne
  <2>5. QED
    BY <2>3, <2>4
<1>8. k \in Int /\ (k + 1) + 1 = k + 2
  OBVIOUS
<1>9. QED
  BY <1>6, <1>7, <1>8 DEF n, Tl

=============================================================================
