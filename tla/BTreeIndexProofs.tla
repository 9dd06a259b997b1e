-------------------------- MODULE BTreeIndexProofs --------------------------
(***************************************************************************)
(* What holds of the index for any keys in any order and nodes of any      *)
(* size, wherever a load ends, as long as no key comes twice, no page      *)
(* fails and no inner node is split: the tree is a chain of leaves, with   *)
(* at most one inner node above them, which misses at most the one leaf    *)
(* that a split has just added.                                            *)
(***************************************************************************)
EXTENDS BTreeIndex, BTreeNodeLemmas

\* Every page of the open file is read and written, no key is the one that
\* marks the end of a node, and none comes twice.
Plain ==
  /\ Fault = {}
  /\ \A e \in Input : e.key # 0
  /\ \A e, f \in Input : e.key = f.key => e = f

-----------------------------------------------------------------------------
(* The pages *)

Biggest   == Max({LEAF_MAX, NONLEAF_MAX})
RecordIds == [pid : Int, sid : Int]
Entries   == [key : (Key \cup {1}) \ {0}, val : Int \cup RecordIds]
Nodes     == { m \in Seq(Entries) : Len(m) <= Biggest }
Pages     == [entries : Nodes, last : PidSet]

\* What the pages d hold: the node in page p and where page p leads
Cell(d, p) == d[p + 1].entries
Link(d, p) == d[p + 1].last

\* Page 0: zeros, or what close wrote
Info(h, r, u) == Page(<<Entry(1, [pid |-> h, sid |-> r])>>, u)
FirstPage(d) ==
  Len(d) > 0 =>
    d[1] = ZeroPage \/ \E h \in Nat, r \in PidSet, u \in UninitPid : d[1] = Info(h, r, u)

-----------------------------------------------------------------------------
(* The leaves: page c[i] is the i-th of n, S[i] its entries *)

Linked(d, n, c) ==
  /\ n \in Nat /\ c \in [1 .. n -> 1 .. Len(d) - 1]
  /\ \A i, j \in 1 .. n : c[i] = c[j] => i = j
  /\ \A i \in 1 .. n - 1 : Link(d, c[i]) = c[i + 1]
  /\ n # 0 => Link(d, c[n]) \in UninitPid

Contents(d, n, c) == [i \in 1 .. n |-> Cell(d, c[i])]

Leaf == { m \in Seq(Input) : Len(m) <= LEAF_MAX }

\* From left to right and in a leaf the keys go up, and only a first leaf that
\* is the only one is ever empty.
Ordered(n, S) ==
  /\ S \in [1 .. n -> Leaf]
  /\ \A i, j \in 1 .. n : \A a \in 1 .. Len(S[i]), b \in 1 .. Len(S[j]) :
       i < j \/ (i = j /\ a < b) => S[i][a].key < S[j][b].key
  /\ n > 1 => \A i \in 1 .. n : S[i] # << >>

Holds(n, S, e) == \E i \in 1 .. n : \E a \in 1 .. Len(S[i]) : S[i][a] = e

\* Key k stands between the leaves in front of place i and those from it on.
Divides(n, S, i, k) ==
  \A h \in 1 .. n : \A a \in 1 .. Len(S[h]) :
    IF h < i THEN S[h][a].key < k ELSE k <= S[h][a].key

-----------------------------------------------------------------------------
(* The tree: x is the place of the leaf that the inner node misses, 0 when  *)
(* it misses none                                                           *)

\* The place of the leaf that entry j of the inner node leads to
PlaceUnder(x, j) == IF x # 0 /\ j + 1 >= x THEN j + 2 ELSE j + 1

Inner(d, root, n, c, x) ==
  LET m == Cell(d, root)
  IN /\ root \in 1 .. Len(d) - 1 /\ \A i \in 1 .. n : c[i] # root
     /\ Link(d, root) = c[1]
     /\ Len(m) \in 1 .. NONLEAF_MAX
     /\ n = Len(m) + 1 + (IF x = 0 THEN 0 ELSE 1)
     /\ \A j \in 1 .. Len(m) :
          /\ m[j].val = c[PlaceUnder(x, j)]
          /\ Divides(n, Contents(d, n, c), PlaceUnder(x, j), m[j].key)

Rooted(d, root, height, n, c, x) ==
  /\ n > 0
  /\ \/ height = 0 /\ root = c[1]
     \/ height = 1 /\ Inner(d, root, n, c, x)

\* The tree of a load, which is not behind the leaves
Grows(d, root, height, n, c, x) ==
  /\ Rooted(d, root, height, n, c, x)
  /\ height = 0 => n = IF x = 0 THEN 1 ELSE 2

\* The place i is the one for the key k.
Fits(d, root, height, n, c, i, k) ==
  LET S == Contents(d, n, c)
      m == Cell(d, root)
  IN /\ i \in 1 .. n
     /\ \A h \in 1 .. n : \A a \in 1 .. Len(S[h]) :
          (h < i => S[h][a].key < k) /\ (h > i => k < S[h][a].key)
     /\ height = 1 =>
          \A j \in 1 .. Len(m) : IF j < i THEN m[j].key <= k ELSE k < m[j].key

-----------------------------------------------------------------------------
(* The state *)

Step(p) == [pid |-> p, m |-> Cell(disk, p), last |-> Link(disk, p)]
Above0  == IF treeHeight = 0 THEN << >> ELSE <<Step(rootPid)>>

Writing(n, c, x) ==
  IF rootPid = -1 THEN n = 0 /\ pc = "idle" /\ ~TreeSaved
  ELSE
    /\ Grows(disk, rootPid, treeHeight, n, c, x)
    /\ TreeSaved /\ SavedId.pid = 1 => treeHeight = 1 /\ rootPid = SavedId.sid
    /\ pc \in {"idle", "descend", "leaf", "left", "up"}
    /\ pc # "up" => x = 0
    /\ pc # "idle" => ins \in Input /\ ins \notin entries
    /\ pc = "leaf" =>
         \E i \in 1 .. n :
           /\ Fits(disk, rootPid, treeHeight, n, c, i, ins.key)
           /\ stack = Append(Above0, Step(c[i]))
    /\ pc = "left" =>
         \E i \in 1 .. n :
           LET s == LeafSplit(Cell(disk, c[i]), ins)
               q == endPid - 1
           IN /\ Fits(disk, rootPid, treeHeight, n, c, i, ins.key)
              /\ LeafFull(Cell(disk, c[i]))
              /\ q # rootPid /\ q # 0 /\ \A j \in 1 .. n : c[j] # q
              /\ Cell(disk, q) = s.right /\ Link(disk, q) = Link(disk, c[i])
              /\ stack = Append(Above0, [pid |-> c[i], m |-> s.left, last |-> q])
              /\ up = [key |-> s.key, pid |-> q, rc |-> 0]
    /\ pc = "up" =>
         /\ x \in 2 .. n /\ up.pid = c[x] /\ up.rc = 0
         /\ up.key = Cell(disk, c[x])[1].key
         /\ stack = Above0

Reading ==
  IF Saved THEN rootPid = SavedId.sid /\ treeHeight = SavedId.pid
  ELSE rootPid \in {-1} \cup UninitPid

Shape(n, c, x) ==
  /\ Linked(disk, n, c) /\ Ordered(n, Contents(disk, n, c)) /\ x \in {0} \cup 2 .. n
  /\ \A e \in Input : e \in Visible <=> Holds(n, Contents(disk, n, c), e)
  /\ TreeSaved => Rooted(disk, SavedId.sid, SavedId.pid, n, c, x)
  /\ mode = "w" => ~crashed /\ Writing(n, c, x)
  /\ mode # "w" =>
       /\ pc = "idle"
       /\ ~TreeSaved => n = 0
       /\ TreeSaved /\ ~crashed => Grows(disk, SavedId.sid, SavedId.pid, n, c, 0) /\ x = 0
  /\ mode = "r" => Reading

Types ==
  /\ disk \in Seq(Pages) /\ FirstPage(disk)
  /\ mode \in {"closed", "r", "w"} /\ rootPid \in PidSet /\ treeHeight \in Nat
  /\ entries \subseteq Input

\* What every step keeps
Inv == Types /\ \E n \in Nat : \E c \in [1 .. n -> 1 .. Len(disk) - 1], x \in {0} \cup 2 .. n : Shape(n, c, x)

-----------------------------------------------------------------------------
(* Pages are read as they were written. *)

LEMMA IsSeqOf ==
  ASSUME NEW T, NEW m \in Nat, NEW s \in [1 .. m -> T]
  PROVE  s \in Seq(T) /\ Len(s) = m
OBVIOUS

LEMMA Pids ==
  /\ PidSet \subseteq Int /\ \A p \in PidSet : p >= 0 \/ p = -1 \/ p = Wild
  /\ Wild \in Int /\ Wild < -1
  /\ \A u \in UninitPid : u \in PidSet /\ (u = 0 \/ u = Wild)
BY WildAssumption DEF PidSet

LEMMA BiggestNode ==
  Biggest \in Nat /\ LEAF_MAX <= Biggest /\ NONLEAF_MAX <= Biggest /\ Biggest >= 1
<1>1. LEAF_MAX \in Nat \ {0} /\ NONLEAF_MAX \in Nat \ {0}
  BY FanoutAssumption
<1>2. \E x \in {LEAF_MAX, NONLEAF_MAX} : \A y \in {LEAF_MAX, NONLEAF_MAX} : x >= y
  <2>1. CASE LEAF_MAX >= NONLEAF_MAX
    BY <1>1, <2>1
  <2>2. CASE NONLEAF_MAX >= LEAF_MAX
    BY <1>1, <2>2
  <2>3. QED
    BY <1>1, <2>1, <2>2
<1>3. Biggest \in {LEAF_MAX, NONLEAF_MAX} /\ \A y \in {LEAF_MAX, NONLEAF_MAX} : Biggest >= y
  BY <1>2 DEF Biggest, Max
<1>4. QED
  BY <1>1, <1>3

\* A node that can be on a page
LEMMA NodeKeys ==
  ASSUME NEW m \in Nodes
  PROVE  /\ m \in Seq(Entries) /\ Len(m) \in Nat /\ DOMAIN m = 1 .. Len(m)
         /\ \A a \in 1 .. Len(m) : m[a] \in Entries /\ m[a].key \in Int /\ m[a].key # 0
<1>1. m \in Seq(Entries)
  BY DEF Nodes
<1>2. \A a \in 1 .. Len(m) : m[a] \in Entries
  BY <1>1, ElementOfSeq
<1>3. ASSUME NEW e \in Entries
      PROVE  e.key \in Int /\ e.key # 0
  <2>1. (e.key \in Key \/ e.key = 1) /\ e.key # 0
    BY DEF Entries
  <2>2. \A k \in Key : k \in Int
    BY KeyAssumption
  <2>3. QED
    BY <2>1, <2>2
<1>4. QED
  BY <1>1, <1>2, <1>3, LenProperties

\* The entries of the input are entries of a page.
LEMMA InputEntries ==
  ASSUME Plain
  PROVE  /\ Input \subseteq Entries
         /\ \A e \in Input : e.key \in Key /\ e.key \in Int /\ e.key # 0
BY KeyAssumption DEF Plain, Entries, RecordIds

LEMMA LeafNodes ==
  ASSUME Plain, NEW m \in Leaf
  PROVE  /\ m \in Nodes /\ m \in Seq(Input) /\ Len(m) \in 0 .. LEAF_MAX
         /\ \A a \in 1 .. Len(m) : m[a] \in Input /\ m[a].key \in Int
<1>1. m \in Seq(Input) /\ Len(m) <= LEAF_MAX
  BY DEF Leaf
<1>2. Len(m) \in Nat /\ \A a \in 1 .. Len(m) : m[a] \in Input
  BY <1>1, LenProperties, ElementOfSeq
<1>3. m \in Seq(Entries)
  BY <1>1, InputEntries, SeqMonotonic
<1>4. LEAF_MAX \in Nat /\ Biggest \in Nat /\ LEAF_MAX <= Biggest
  BY BiggestNode, FanoutAssumption
<1>5. Len(m) <= Biggest
  BY <1>1, <1>2, <1>4
<1>6. QED
  BY <1>1, <1>2, <1>3, <1>4, <1>5, InputEntries DEF Nodes

\* What a read of page p leaves behind
LEMMA ReadPage ==
  ASSUME disk \in Seq(Pages)
  PROVE  /\ endPid \in Nat /\ endPid = Len(disk) /\ DOMAIN disk = 1 .. Len(disk)
         /\ \A p \in 0 .. Len(disk) - 1 :
              /\ InFile(p) /\ disk[p + 1] \in Pages
              /\ Cell(disk, p) \in Nodes /\ NodeAt(p) = Cell(disk, p)
              /\ Link(disk, p) \in PidSet /\ LastAt(p) = Link(disk, p)
         /\ \A p \in Int : p \notin 0 .. Len(disk) - 1 =>
              ~InFile(p) /\ NodeAt(p) = << >> /\ LastAt(p) = -1
<1>1. Len(disk) \in Nat /\ DOMAIN disk = 1 .. Len(disk)
  BY LenProperties
<1>2. ASSUME NEW p \in 0 .. Len(disk) - 1
      PROVE  /\ InFile(p) /\ disk[p + 1] \in Pages
             /\ Cell(disk, p) \in Nodes /\ NodeAt(p) = Cell(disk, p)
             /\ Link(disk, p) \in PidSet /\ LastAt(p) = Link(disk, p)
  <2>1. p + 1 \in 1 .. Len(disk)
    BY <1>1
  <2>2. disk[p + 1] \in Pages
    BY <2>1, ElementOfSeq
  <2>3. InFile(p)
    BY <1>1 DEF InFile, endPid
  <2>4. PICK m \in Nodes, last \in PidSet : disk[p + 1] = Page(m, last)
    BY <2>2 DEF Pages, Page
  <2>5. disk[p + 1].entries = m /\ disk[p + 1].last = last
    BY <2>4 DEF Page
  <2>6. Loaded(Page(m, last)) = m
    BY NodeKeys, LoadedPart
  <2>7. QED
    BY <2>2, <2>3, <2>4, <2>5, <2>6 DEF NodeAt, LastAt, Cell, Link
<1>3. ASSUME NEW p \in Int, p \notin 0 .. Len(disk) - 1
      PROVE  ~InFile(p) /\ NodeAt(p) = << >> /\ LastAt(p) = -1
  <2>1. ~InFile(p)
    BY <1>1, <1>3 DEF InFile, endPid
  <2>2. QED
    BY <2>1 DEF NodeAt, LastAt
<1>4. QED
  BY <1>1, <1>2, <1>3 DEF endPid

\* A write changes one page; one that it skips is zero.
LEMMA WritePage ==
  ASSUME disk \in Seq(Pages), NEW p \in Nat, NEW page \in Pages, p <= Len(disk) + 1
  PROVE  LET d == Put(p, page)
         IN /\ d \in Seq(Pages)
            /\ Len(d) = IF p + 1 > Len(disk) THEN p + 1 ELSE Len(disk)
            /\ d[p + 1] = page
            /\ \A i \in 1 .. Len(disk) : i # p + 1 => d[i] = disk[i]
            /\ \A i \in Len(disk) + 1 .. Len(d) : i # p + 1 => d[i] = ZeroPage
<1> DEFINE l == Len(disk)
           N == IF p + 1 > l THEN p + 1 ELSE l
           d == Put(p, page)
<1>1. l \in Nat /\ \A i \in 1 .. l : disk[i] \in Pages
  BY LenProperties, ElementOfSeq
<1>2. ZeroPage \in Pages
  <2>1. << >> \in Seq(Entries) /\ Len(<< >>) = 0
    BY EmptySeq
  <2>2. QED
    BY <2>1, BiggestNode DEF ZeroPage, Page, Pages, Nodes, PidSet
<1>3. d = [i \in 1 .. N |-> IF i = p + 1 THEN page ELSE IF i <= l THEN disk[i] ELSE ZeroPage]
  BY DEF Put, endPid
<1> HIDE DEF d
<1>4. N \in Nat
  BY <1>1
<1> HIDE DEF N
<1>5. \A i \in 1 .. N : (IF i = p + 1 THEN page ELSE IF i <= l THEN disk[i] ELSE ZeroPage) \in Pages
  BY <1>1, <1>2, <1>4
<1>6. d \in [1 .. N -> Pages]
  BY <1>3, <1>5
<1>7. d \in Seq(Pages) /\ Len(d) = N
  BY <1>4, <1>6
<1>8. p + 1 \in 1 .. N /\ \A i \in 1 .. l : i \in 1 .. N
  BY <1>1 DEF N
<1>9. QED
  BY <1>1, <1>3, <1>7, <1>8 DEF N, d

-----------------------------------------------------------------------------
(* Along the links *)

\* A set of places from 0 on has a least one.
LEMMA LeastPlace ==
  ASSUME NEW N \in Nat, NEW T \in SUBSET (0 .. N), T # {}
  PROVE  Min(T) \in T /\ \A y \in T : Min(T) =< y
<1> DEFINE U == { t + 1 : t \in T }
<1>1. U \in SUBSET (1 .. N + 1) /\ U # {}
  <2>1. \A t \in T : t + 1 \in 1 .. N + 1
    OBVIOUS
  <2>2. QED
    BY <2>1
<1>2. Min(U) \in U /\ \A y \in U : Min(U) =< y
  <2> HIDE DEF U
  <2>1. N + 1 \in Nat
    OBVIOUS
  <2>2. QED
    BY <1>1, <2>1, Least
<1>3. PICK x \in T : Min(U) = x + 1
  BY <1>2
<1>4. \A y \in T : x =< y
  <2>1. TAKE y \in T
  <2>2. y + 1 \in U
    OBVIOUS
  <2>3. x + 1 =< y + 1
    BY <1>2, <1>3, <2>2
  <2>4. x \in 0 .. N /\ y \in 0 .. N
    OBVIOUS
  <2>5. QED
    BY <2>3, <2>4
<1>5. QED
  BY <1>4 DEF Min

\* A walk is what it says it is.
LEMMA WalkIs ==
  ASSUME endPid \in Nat, NEW p, NEW f,
         f = [j \in 0 .. endPid |-> IF j = 0 THEN p ELSE Onward[f[j - 1]]]
  PROVE  WalkFrom(p) = f
<1> DEFINE Eq(g) == g = [j \in 0 .. endPid |-> IF j = 0 THEN p ELSE Onward[g[j - 1]]]
           w == CHOOSE g : Eq(g)
<1>1. WalkFrom(p) = w
  BY DEF WalkFrom
<1>2. Eq(f)
  OBVIOUS
<1>3. Eq(w)
  <2> HIDE DEF Eq
  <2>1. QED
    BY <1>2
<1> HIDE DEF w
<1> DEFINE T == { j \in 0 .. endPid : w[j] = f[j] }
<1>4. 0 \in T
  BY <1>3
<1>5. ASSUME NEW k \in 0 .. endPid - 1, k \in T
      PROVE  k + 1 \in T
  <2>1. k + 1 \in 0 .. endPid /\ k + 1 # 0 /\ (k + 1) - 1 = k
    OBVIOUS
  <2>2. w[k + 1] = Onward[w[k]] /\ f[k + 1] = Onward[f[k]]
    BY <1>2, <1>3, <2>1
  <2>3. QED
    BY <1>5, <2>1, <2>2
<1>6. 0 .. endPid \subseteq T
  <2> HIDE DEF T
  <2>1. QED
    BY <1>4, <1>5, UpTo
<1>7. \A j \in 0 .. endPid : w[j] = f[j]
  BY <1>6
<1>8. DOMAIN w = 0 .. endPid /\ DOMAIN f = 0 .. endPid
  BY <1>2, <1>3
<1>9. w = f
  BY <1>2, <1>3, <1>7, <1>8
<1>10. QED
  BY <1>1, <1>9

\* Where a page leads to
LEMMA OnwardIs ==
  ASSUME disk \in Seq(Pages)
  PROVE  /\ \A p \in 1 .. Len(disk) - 1 :
              Onward[p] = IF Link(disk, p) # 0 THEN Link(disk, p) ELSE -1
         /\ \A p \in UninitPid \cup {-1} :
              p \notin 0 .. Len(disk) - 1 => Onward[p] = -1
         /\ 0 \in UninitPid /\ Len(disk) > 0 /\ Link(disk, 0) = 0 => Onward[0] = -1
<1>1. endPid \in Nat /\ endPid = Len(disk)
  BY ReadPage
<1>2. \A p \in UninitPid \cup (-1 .. endPid - 1) :
        Onward[p] = IF InFile(p) /\ LastAt(p) # 0 THEN LastAt(p) ELSE -1
  BY DEF Onward
<1>3. ASSUME NEW p \in 1 .. Len(disk) - 1
      PROVE  Onward[p] = IF Link(disk, p) # 0 THEN Link(disk, p) ELSE -1
  <2>1. p \in 0 .. Len(disk) - 1 /\ p \in -1 .. endPid - 1
    BY <1>1
  <2>2. InFile(p) /\ LastAt(p) = Link(disk, p)
    BY <2>1, ReadPage
  <2>3. QED
    BY <1>2, <2>1, <2>2
<1>4. ASSUME NEW p \in UninitPid \cup {-1}, p \notin 0 .. Len(disk) - 1
      PROVE  Onward[p] = -1
  <2>1. p \in Int /\ p \in UninitPid \cup (-1 .. endPid - 1)
    BY <1>1, Pids
  <2>2. ~InFile(p)
    BY <1>4, <2>1, ReadPage
  <2>3. QED
    BY <1>2, <2>1, <2>2
<1>5. ASSUME 0 \in UninitPid, Len(disk) > 0, Link(disk, 0) = 0
      PROVE  Onward[0] = -1
  <2>1. 0 \in 0 .. Len(disk) - 1
    BY <1>1, <1>5
  <2>2. LastAt(0) = 0
    BY <1>5, <2>1, ReadPage
  <2>3. QED
    BY <1>2, <1>5, <2>2
<1>6. QED
  BY <1>3, <1>4, <1>5

\* There are not more leaves than pages behind page 0.
LEMMA LeavesFit ==
  ASSUME NEW d, Len(d) \in Nat, NEW n, NEW c, Linked(d, n, c), n > 0
  PROVE  n \in Nat /\ n <= Len(d) - 1
<1> DEFINE A == 1 .. n
           B == 1 .. Len(d) - 1
<1>1. /\ n \in Nat /\ c \in [A -> B]
      /\ \A i, j \in A : c[i] = c[j] => i = j
  BY DEF Linked
<1>2. Len(d) - 1 \in Nat
  <2>1. c[1] \in B
    BY <1>1
  <2>2. QED
    BY <2>1
<1>3. IsFiniteSet(A) /\ IsFiniteSet(B) /\ Cardinality(A) = n /\ Cardinality(B) = Len(d) - 1
  BY <1>1, <1>2, FS_Interval
<1>4. c \in Injection(A, B)
  BY <1>1 DEF Injection, IsInjective
<1>5. Cardinality(A) <= Cardinality(B)
  <2> HIDE DEF A, B
  <2>1. QED
    BY <1>3, <1>4, FS_Injection
<1>6. QED
  BY <1>1, <1>3, <1>5

\* The walk from a leaf tries the leaves behind it, and then what is no page.
LEMMA WalkLeaves ==
  ASSUME disk \in Seq(Pages), NEW n, NEW c, Linked(disk, n, c), NEW i \in 1 .. n
  PROVE  /\ n - i \in 0 .. endPid
         /\ DOMAIN WalkFrom(c[i]) = 0 .. endPid
         /\ \A j \in 0 .. endPid :
              IF i + j <= n THEN WalkFrom(c[i])[j] = c[i + j]
              ELSE NodeAt(WalkFrom(c[i])[j]) = << >>
<1>1. /\ endPid \in Nat /\ endPid = Len(disk) /\ n \in Nat
      /\ \A h \in 1 .. n : c[h] \in 1 .. Len(disk) - 1
      /\ \A h \in 1 .. n - 1 : Link(disk, c[h]) = c[h + 1]
      /\ Link(disk, c[n]) \in UninitPid
  BY ReadPage DEF Linked
<1>2. n <= endPid - 1
  BY <1>1, LeavesFit
<1> DEFINE z == Onward[c[n]]
           f == [j \in 0 .. endPid |->
                   IF i + j <= n THEN c[i + j] ELSE IF i + j = n + 1 THEN z ELSE -1]
<1>3. \A h \in 1 .. n - 1 : Onward[c[h]] = c[h + 1]
  <2>1. TAKE h \in 1 .. n - 1
  <2>2. h \in 1 .. n /\ h + 1 \in 1 .. n
    BY <1>1
  <2>3. c[h] \in 1 .. Len(disk) - 1 /\ Link(disk, c[h]) = c[h + 1] /\ c[h + 1] # 0
    BY <1>1, <2>2
  <2>4. QED
    BY <2>3, OnwardIs
<1>4. z \in UninitPid \cup {-1} /\ z \notin 0 .. Len(disk) - 1
  <2>1. n \in 1 .. n
    BY <1>1
  <2>2. z = IF Link(disk, c[n]) # 0 THEN Link(disk, c[n]) ELSE -1
    BY <1>1, <2>1, OnwardIs
  <2>3. QED
    BY <1>1, <2>2, Pids
<1>5. Onward[z] = -1 /\ Onward[-1] = -1
  <2>1. -1 \notin 0 .. Len(disk) - 1
    OBVIOUS
  <2> HIDE DEF z
  <2>2. QED
    BY <1>4, <2>1, OnwardIs
<1>6. ASSUME NEW j \in 0 .. endPid
      PROVE  f[j] = IF j = 0 THEN c[i] ELSE Onward[f[j - 1]]
  <2>1. CASE j = 0
    BY <1>1, <2>1
  <2>2. CASE j # 0
    <3>1. j - 1 \in 0 .. endPid /\ i + (j - 1) = i + j - 1
      BY <1>1, <2>2
    <3>2. CASE i + j <= n
      <4>1. i + j - 1 \in 1 .. n - 1 /\ (i + j - 1) + 1 = i + j
        BY <1>1, <2>2, <3>2
      <4>2. f[j - 1] = c[i + j - 1] /\ f[j] = c[i + j]
        BY <1>1, <3>1, <3>2, <4>1
      <4>3. QED
        BY <1>3, <2>2, <4>1, <4>2
    <3>3. CASE i + j = n + 1
      <4>1. i + (j - 1) = n /\ n <= n /\ ~(i + j <= n)
        BY <1>1, <3>3
      <4> HIDE DEF z
      <4>2. f[j - 1] = c[n] /\ f[j] = z
        BY <3>1, <3>3, <4>1
      <4>3. QED
        BY <2>2, <4>2 DEF z
    <3>4. CASE i + j > n + 1
      <4>1. f[j] = -1 /\ f[j - 1] \in {z, -1}
        BY <1>1, <3>1, <3>4
      <4> HIDE DEF z, f
      <4>2. QED
        BY <1>5, <2>2, <4>1
    <3>5. QED
      BY <1>1, <3>2, <3>3, <3>4
  <2>3. QED
    BY <2>1, <2>2
<1>7. f = [j \in 0 .. endPid |-> IF j = 0 THEN c[i] ELSE Onward[f[j - 1]]]
  <2>1. f = [j \in 0 .. endPid |-> f[j]]
    OBVIOUS
  <2> HIDE DEF f
  <2>2. QED
    BY <1>6, <2>1
<1>8. WalkFrom(c[i]) = f
  <2>1. endPid \in Nat
    BY <1>1
  <2> HIDE DEF f
  <2>2. QED
    BY <1>7, <2>1, WalkIs
<1>9. NodeAt(z) = << >> /\ NodeAt(-1) = << >>
  <2>1. z \in Int /\ -1 \in Int /\ -1 \notin 0 .. Len(disk) - 1
    BY <1>4, Pids
  <2> HIDE DEF z
  <2>2. QED
    BY <1>4, <2>1, ReadPage
<1>10. QED
  BY <1>1, <1>2, <1>8, <1>9

\* A page that is none, or page 0 when it is one of zeros, leads to no leaf.
Dead(p) ==
  \/ p \in UninitPid \cup {-1} /\ p \notin 0 .. Len(disk) - 1
  \/ p \in UninitPid /\ p = 0 /\ Len(disk) > 0 /\ disk[1] = ZeroPage

LEMMA DeadPage ==
  ASSUME disk \in Seq(Pages), NEW p, Dead(p)
  PROVE  NodeAt(p) = << >> /\ Onward[p] = -1 /\ p \in Int
<1>1. CASE p \in UninitPid \cup {-1} /\ p \notin 0 .. Len(disk) - 1
  <2>1. p \in Int
    BY <1>1, Pids
  <2>2. QED
    BY <1>1, <2>1, ReadPage, OnwardIs
<1>2. CASE p \in UninitPid /\ p = 0 /\ Len(disk) > 0 /\ disk[1] = ZeroPage
  <2>1. Len(disk) \in Nat /\ 0 \in 0 .. Len(disk) - 1
    BY <1>2, ReadPage
  <2>2. Cell(disk, 0) = << >> /\ Link(disk, 0) = 0
    BY <1>2 DEF Cell, Link, ZeroPage, Page
  <2>3. NodeAt(0) = << >>
    BY <2>1, <2>2, ReadPage
  <2>4. Onward[0] = -1
    BY <1>2, <2>2, OnwardIs
  <2>5. QED
    BY <1>2, <2>3, <2>4
<1>3. QED
  BY <1>1, <1>2 DEF Dead

LEMMA DeadNone ==
  ASSUME disk \in Seq(Pages)
  PROVE  Dead(-1)
BY DEF Dead

LEMMA WalkDead ==
  ASSUME disk \in Seq(Pages), NEW p, Dead(p)
  PROVE  /\ DOMAIN WalkFrom(p) = 0 .. endPid
         /\ \A j \in 0 .. endPid : NodeAt(WalkFrom(p)[j]) = << >>
<1> DEFINE f == [j \in 0 .. endPid |-> IF j = 0 THEN p ELSE -1]
<1>1. endPid \in Nat
  BY ReadPage
<1>2. Onward[p] = -1 /\ Onward[-1] = -1 /\ NodeAt(p) = << >> /\ NodeAt(-1) = << >>
  BY DeadPage, DeadNone
<1>3. ASSUME NEW j \in 0 .. endPid
      PROVE  f[j] = IF j = 0 THEN p ELSE Onward[f[j - 1]]
  <2>1. j # 0 => j - 1 \in 0 .. endPid /\ f[j - 1] \in {p, -1} /\ f[j] = -1
    BY <1>1
  <2>2. f[0] = p
    BY <1>1
  <2> HIDE DEF f
  <2>3. QED
    BY <1>2, <2>1, <2>2
<1>4. f = [j \in 0 .. endPid |-> IF j = 0 THEN p ELSE Onward[f[j - 1]]]
  <2>1. f = [j \in 0 .. endPid |-> f[j]]
    OBVIOUS
  <2> HIDE DEF f
  <2>2. QED
    BY <1>3, <2>1
<1>5. WalkFrom(p) = f
  <2> HIDE DEF f
  <2>1. QED
    BY <1>1, <1>4, WalkIs
<1>6. QED
  BY <1>1, <1>2, <1>5

-----------------------------------------------------------------------------
(* From the root down *)

Down(p, k) == IF NodeAt(p) = << >> THEN -1 ELSE ChildOf(NodeAt(p), LastAt(p), k)

\* A route is what it says it is.
IsRoute(f, root, height, k) ==
  /\ f = [h \in 0 .. height |-> f[h]]
  /\ f[0] = root /\ \A h \in 1 .. height : f[h] = Down(f[h - 1], k)

LEMMA RouteIs ==
  ASSUME NEW height \in Nat, NEW root, NEW k, NEW f, IsRoute(f, root, height, k)
  PROVE  RouteFrom(root, height, k) = f
<1> DEFINE Eq(g) == g = [h \in 0 .. height |-> IF h = 0 THEN root ELSE Down(g[h - 1], k)]
           w == CHOOSE g : Eq(g)
<1>1. RouteFrom(root, height, k) = w
  BY DEF RouteFrom, Down
<1>2. \A h \in 0 .. height : f[h] = IF h = 0 THEN root ELSE Down(f[h - 1], k)
  <2>1. TAKE h \in 0 .. height
  <2>2. CASE h = 0
    BY <2>2 DEF IsRoute
  <2>3. CASE h # 0
    <3>1. h \in 1 .. height
      BY <2>3
    <3>2. QED
      BY <2>3, <3>1 DEF IsRoute
  <2>4. QED
    BY <2>2, <2>3
<1>3. Eq(f)
  <2>1. f = [h \in 0 .. height |-> f[h]]
    BY DEF IsRoute
  <2>2. QED
    BY <1>2, <2>1
<1>4. Eq(w)
  <2> HIDE DEF Eq
  <2>1. QED
    BY <1>3
<1> HIDE DEF w
<1> DEFINE T == { h \in 0 .. height : w[h] = f[h] }
<1>5. 0 \in T
  BY <1>4 DEF IsRoute
<1>6. ASSUME NEW h \in 0 .. height - 1, h \in T
      PROVE  h + 1 \in T
  <2>1. h + 1 \in 1 .. height /\ h + 1 \in 0 .. height /\ h + 1 # 0 /\ (h + 1) - 1 = h
    OBVIOUS
  <2>2. w[h + 1] = Down(w[h], k) /\ f[h + 1] = Down(f[h], k)
    BY <1>4, <2>1 DEF IsRoute
  <2>3. QED
    BY <1>6, <2>1, <2>2
<1>7. 0 .. height \subseteq T
  <2> HIDE DEF T
  <2>1. QED
    BY <1>5, <1>6, UpTo
<1>8. \A h \in 0 .. height : w[h] = f[h]
  BY <1>7
<1>9. w = [h \in 0 .. height |-> w[h]] /\ f = [h \in 0 .. height |-> f[h]]
  BY <1>4 DEF IsRoute
<1>10. w = f
  BY <1>8, <1>9
<1>11. QED
  BY <1>1, <1>10

\* From a page that leads nowhere no route leads to a leaf.
LEMMA RouteDead ==
  ASSUME disk \in Seq(Pages), NEW height \in Nat, NEW root, Dead(root), NEW k
  PROVE  Dead(RouteFrom(root, height, k)[height])
<1> DEFINE f == [h \in 0 .. height |-> IF h = 0 THEN root ELSE -1]
<1>1. Down(root, k) = -1 /\ Down(-1, k) = -1
  BY DeadPage, DeadNone DEF Down
<1>2. f = [h \in 0 .. height |-> f[h]] /\ f[0] = root
  OBVIOUS
<1>3. \A h \in 1 .. height : f[h] = -1 /\ f[h - 1] \in {root, -1}
  OBVIOUS
<1> HIDE DEF f
<1>4. \A h \in 1 .. height : f[h] = Down(f[h - 1], k)
  BY <1>1, <1>3
<1>5. RouteFrom(root, height, k) = f
  <2>1. IsRoute(f, root, height, k)
    BY <1>2, <1>4 DEF IsRoute
  <2>2. QED
    BY <2>1, RouteIs
<1>6. f[height] \in {root, -1}
  <2>1. CASE height = 0
    BY <1>2, <2>1
  <2>2. CASE height # 0
    BY <1>3, <2>2
  <2>3. QED
    BY <2>1, <2>2
<1>7. QED
  BY <1>5, <1>6, DeadNone

\* A root without a node above it is the leaf.
LEMMA RouteZero ==
  ASSUME NEW root, NEW k, NEW height \in Nat, height = 0
  PROVE  RouteFrom(root, height, k)[0] = root
<1> DEFINE f == [h \in 0 .. height |-> root]
<1>1. f = [h \in 0 .. height |-> f[h]] /\ f[0] = root
  OBVIOUS
<1>2. \A h \in 1 .. height : f[h] = Down(f[h - 1], k)
  OBVIOUS
<1> HIDE DEF f
<1>3. RouteFrom(root, height, k) = f
  <2>1. IsRoute(f, root, height, k)
    BY <1>1, <1>2 DEF IsRoute
  <2>2. QED
    BY <2>1, RouteIs
<1>4. QED
  BY <1>1, <1>3

\* Under one node there is one step.
LEMMA RouteOne ==
  ASSUME NEW root, NEW k, NEW height \in Nat, height = 1
  PROVE  RouteFrom(root, height, k)[0] = root /\ RouteFrom(root, height, k)[1] = Down(root, k)
<1> DEFINE f == [h \in 0 .. height |-> IF h = 0 THEN root ELSE Down(root, k)]
<1>1. f = [h \in 0 .. height |-> f[h]] /\ f[0] = root /\ f[1] = Down(root, k)
  OBVIOUS
<1> HIDE DEF f
<1>2. \A h \in 1 .. height : f[h] = Down(f[h - 1], k)
  <2>1. TAKE h \in 1 .. height
  <2>2. h = 1 /\ h - 1 = 0
    OBVIOUS
  <2>3. QED
    BY <1>1, <2>2
<1>3. RouteFrom(root, height, k) = f
  <2>1. IsRoute(f, root, height, k)
    BY <1>1, <1>2 DEF IsRoute
  <2>2. QED
    BY <2>1, RouteIs
<1>4. QED
  BY <1>1, <1>3

\* What the inner node says of key k: entry j is the last one that is not above
\* k, and its leaf the one for k.
InnerSays(root, c, x, k) ==
  LET m == Cell(disk, root)
  IN \E j \in 0 .. Len(m) :
       /\ \A l \in 1 .. j : m[l].key <= k
       /\ j < Len(m) => k < m[j + 1].key
       /\ j = 0 => Down(root, k) = c[1]
       /\ j # 0 => Down(root, k) = c[PlaceUnder(x, j)]

LEMMA InnerLeads ==
  ASSUME disk \in Seq(Pages), NEW n \in Nat, NEW c, NEW x \in {0} \cup 2 .. n, NEW root,
         Inner(disk, root, n, c, x), NEW k \in Int
  PROVE  InnerSays(root, c, x, k)
<1> DEFINE m == Cell(disk, root)
           at == Above(m, k)
           l == Len(m)
<1>1. /\ root \in 1 .. Len(disk) - 1 /\ Link(disk, root) = c[1]
      /\ l \in 1 .. NONLEAF_MAX
      /\ \A j \in 1 .. l : m[j].val = c[PlaceUnder(x, j)]
  BY DEF Inner
<1>2. /\ NodeAt(root) = m /\ LastAt(root) = c[1] /\ m \in Nodes
  <2>1. root \in 0 .. Len(disk) - 1
    BY <1>1
  <2>2. QED
    BY <1>1, <2>1, ReadPage
<1>3. /\ m \in Seq(Entries) /\ l \in Nat
      /\ \A a \in 1 .. l : m[a].key \in Int
  BY <1>2, NodeKeys
<1> HIDE DEF m
<1>4. /\ at \in 0 .. l
      /\ at = 0 => \A i \in 1 .. l : m[i].key <= k
      /\ at # 0 => m[at].key > k /\ \A i \in 1 .. at - 1 : m[i].key <= k
  <2>1. \A e \in Entries : e.key \in Int
    <3>1. \A q \in Key : q \in Int
      BY KeyAssumption
    <3>2. \A e \in Entries : e.key \in Key \/ e.key = 1
      BY DEF Entries
    <3>3. QED
      BY <3>1, <3>2
  <2>2. QED
    BY <1>3, <2>1, AboveSplits
<1>5. m # << >>
  BY <1>1, EmptySeq
<1>6. Down(root, k) = IF at = 0 THEN m[l].val ELSE IF at = 1 THEN c[1] ELSE m[at - 1].val
  BY <1>2, <1>5 DEF Down, ChildOf
<1> HIDE DEF at, l
<1>7. CASE at = 0
  <2>1. l \in 0 .. l /\ l \in 1 .. l /\ l # 0
    BY <1>1, <1>3
  <2>2. Down(root, k) = c[PlaceUnder(x, l)]
    BY <1>1, <1>6, <1>7, <2>1
  <2>3. QED
    BY <1>3, <1>4, <1>7, <2>1, <2>2 DEF m, l, InnerSays
<1>8. CASE at # 0
  <2>1. at - 1 \in 0 .. l /\ (at - 1) + 1 = at /\ at \in 1 .. l
    BY <1>3, <1>4, <1>8
  <2>2. m[at].key > k /\ m[at].key \in Int /\ \A i \in 1 .. at - 1 : m[i].key <= k
    BY <1>3, <1>4, <1>8, <2>1
  <2>3. /\ at - 1 = 0 => Down(root, k) = c[1]
        /\ at - 1 # 0 => Down(root, k) = c[PlaceUnder(x, at - 1)]
    <3>1. at - 1 # 0 => at # 1 /\ at - 1 \in 1 .. l
      BY <2>1
    <3>2. at - 1 = 0 => at = 1
      BY <2>1
    <3>3. QED
      BY <1>1, <1>6, <1>8, <3>1, <3>2
  <2>4. QED
    BY <2>1, <2>2, <2>3 DEF m, l, InnerSays
<1>9. QED
  BY <1>7, <1>8

\* A route leads to leaf i, and every leaf in front of it has smaller keys only.
LeadsTo(n, c, root, height, k) ==
  LET S == Contents(disk, n, c)
  IN \E i \in 1 .. n :
       /\ RouteFrom(root, height, k)[height] = c[i]
       /\ \A h \in 1 .. n : \A a \in 1 .. Len(S[h]) : h < i => S[h][a].key < k

LEMMA RouteLeads ==
  ASSUME disk \in Seq(Pages), NEW n \in Nat, NEW c, NEW x \in {0} \cup 2 .. n,
         NEW root, NEW height, Rooted(disk, root, height, n, c, x),
         Ordered(n, Contents(disk, n, c)), Plain, NEW k \in Int
  PROVE  LeadsTo(n, c, root, height, k)
<1> DEFINE S == Contents(disk, n, c)
<1>1. CASE height = 0 /\ root = c[1]
  <2>1. height \in Nat
    BY <1>1
  <2>2. RouteFrom(root, height, k)[0] = root
    BY <1>1, <2>1, RouteZero
  <2>3. 1 \in 1 .. n /\ \A h \in 1 .. n : ~(h < 1)
    BY DEF Rooted
  <2>4. QED
    BY <1>1, <2>2, <2>3 DEF LeadsTo
<1>2. CASE height = 1 /\ Inner(disk, root, n, c, x)
  <2> DEFINE m == Cell(disk, root)
  <2>1. Inner(disk, root, n, c, x)
    BY <1>2
  <2>2. InnerSays(root, c, x, k)
    BY <2>1, InnerLeads
  <2>3. PICK j \in 0 .. Len(m) :
          /\ \A l \in 1 .. j : m[l].key <= k
          /\ j < Len(m) => k < m[j + 1].key
          /\ j = 0 => Down(root, k) = c[1]
          /\ j # 0 => Down(root, k) = c[PlaceUnder(x, j)]
    BY <2>2 DEF InnerSays
  <2>4. /\ n > 0 /\ Len(m) \in 1 .. NONLEAF_MAX
        /\ n = Len(m) + 1 + (IF x = 0 THEN 0 ELSE 1)
        /\ \A l \in 1 .. Len(m) : Divides(n, S, PlaceUnder(x, l), m[l].key)
        /\ root \in 0 .. Len(disk) - 1
    BY <1>2, FanoutAssumption DEF Inner, Rooted
  <2>5. m \in Nodes
    BY <2>4, ReadPage
  <2>6. \A l \in 1 .. Len(m) : m[l].key \in Int
    BY <2>5, NodeKeys
  <2>7. RouteFrom(root, height, k)[height] = Down(root, k)
    <3>1. height \in Nat
      BY <1>2
    <3>2. RouteFrom(root, height, k)[1] = Down(root, k)
      BY <1>2, <3>1, RouteOne
    <3>3. QED
      BY <1>2, <3>2
  <2> HIDE DEF m
  <2>8. CASE j = 0
    <3>1. 1 \in 1 .. n /\ \A h \in 1 .. n : ~(h < 1)
      BY <2>4
    <3>2. QED
      BY <2>3, <2>7, <2>8, <3>1 DEF LeadsTo
  <2>9. CASE j # 0
    <3>1. j \in 1 .. Len(m) /\ j \in 1 .. j
      BY <2>4, <2>9
    <3>2. PlaceUnder(x, j) \in 1 .. n
      BY <2>4, <3>1, FanoutAssumption DEF PlaceUnder
    <3> DEFINE i == PlaceUnder(x, j)
    <3>3. Divides(n, S, i, m[j].key) /\ m[j].key <= k /\ m[j].key \in Int
      BY <2>3, <2>4, <2>6, <3>1
    <3> HIDE DEF i
    <3>4. ASSUME NEW h \in 1 .. n, NEW a \in 1 .. Len(S[h]), h < i
          PROVE  S[h][a].key < k
      <4>1. S[h][a].key < m[j].key
        BY <3>3, <3>4 DEF Divides
      <4>2. S[h] \in Leaf
        BY DEF Ordered
      <4>3. S[h][a].key \in Int
        BY <4>2, LeafNodes
      <4>4. QED
        BY <3>3, <4>1, <4>3
    <3>5. RouteFrom(root, height, k)[height] = c[i]
      BY <2>3, <2>7, <2>9 DEF i
    <3>6. i \in 1 .. n
      BY <3>2 DEF i
    <3>7. QED
      BY <3>4, <3>5, <3>6 DEF LeadsTo
  <2>10. QED
    BY <2>8, <2>9
<1>3. QED
  BY <1>1, <1>2 DEF Rooted

-----------------------------------------------------------------------------
(* Lookups *)

\* The page of leaf i
LEMMA LeafPage ==
  ASSUME disk \in Seq(Pages), NEW n, NEW c, Linked(disk, n, c), NEW i \in 1 .. n
  PROVE  /\ c[i] \in 1 .. Len(disk) - 1 /\ c[i] \in 0 .. Len(disk) - 1
         /\ Contents(disk, n, c)[i] = Cell(disk, c[i]) /\ NodeAt(c[i]) = Cell(disk, c[i])
         /\ LastAt(c[i]) = Link(disk, c[i])
<1>1. c[i] \in 1 .. Len(disk) - 1
  BY DEF Linked
<1>2. c[i] \in 0 .. Len(disk) - 1
  BY <1>1, ReadPage
<1>3. QED
  BY <1>1, <1>2, ReadPage DEF Contents

\* An empty node has no entry to find.
LEMMA LocateEmpty ==
  ASSUME NEW k
  PROVE  Locate(<< >>, k) = 0
<1>1. << >> \in Seq(Int) /\ Len(<< >>) = 0
  BY EmptySeq
<1>2. Locate(<< >>, k) \in 0 .. Len(<< >>)
  BY <1>1, LocateIn
<1>3. QED
  BY <1>1, <1>2

\* What a lookup of k comes to: entry a of leaf i, the first one that is not
\* smaller, or nothing when all are.
Finds(n, c, root, height, k) ==
  LET S   == Contents(disk, n, c)
      cur == LocateFrom(root, height, k)
  IN \/ /\ cur = NoCursor
        /\ \A h \in 1 .. n : \A b \in 1 .. Len(S[h]) : S[h][b].key < k
     \/ \E i \in 1 .. n : \E a \in 1 .. Len(S[i]) :
          /\ cur = [pid |-> c[i], eid |-> a - 1] /\ S[i][a].key >= k
          /\ \A h \in 1 .. n : \A b \in 1 .. Len(S[h]) :
               h < i \/ (h = i /\ b < a) => S[h][b].key < k

LEMMA LookupFinds ==
  ASSUME disk \in Seq(Pages), NEW n \in Nat, NEW c, NEW root, NEW height,
         Linked(disk, n, c), Ordered(n, Contents(disk, n, c)), Plain, NEW k \in Int,
         LeadsTo(n, c, root, height, k)
  PROVE  Finds(n, c, root, height, k)
<1> DEFINE S == Contents(disk, n, c)
           cur == LocateFrom(root, height, k)
<1>1. PICK i \in 1 .. n :
        /\ RouteFrom(root, height, k)[height] = c[i]
        /\ \A h \in 1 .. n : \A a \in 1 .. Len(S[h]) : h < i => S[h][a].key < k
  BY DEF LeadsTo
<1> DEFINE w == WalkFrom(c[i])
           hits == { j \in 0 .. endPid : Locate(NodeAt(w[j]), k) # 0 }
<1>2. /\ n - i \in 0 .. endPid /\ DOMAIN w = 0 .. endPid /\ endPid \in Nat
      /\ \A j \in 0 .. endPid : IF i + j <= n THEN w[j] = c[i + j] ELSE NodeAt(w[j]) = << >>
  BY WalkLeaves, ReadPage
<1> HIDE DEF w
<1>3. cur = IF hits = {} THEN NoCursor
            ELSE [pid |-> w[Min(hits)], eid |-> Locate(NodeAt(w[Min(hits)]), k) - 1]
  BY <1>1, <1>2 DEF LocateFrom, w
<1>4. \A h \in 1 .. n : NodeAt(c[h]) = S[h] /\ S[h] \in Leaf
  BY LeafPage DEF Ordered
<1> HIDE DEF S
<1>5. ASSUME NEW h \in 1 .. n
      PROVE  /\ Locate(S[h], k) \in 0 .. Len(S[h]) /\ Len(S[h]) \in Nat
             /\ Locate(S[h], k) = 0 => \A b \in 1 .. Len(S[h]) : S[h][b].key < k
             /\ Locate(S[h], k) # 0 =>
                  /\ S[h][Locate(S[h], k)].key >= k
                  /\ \A b \in 1 .. Locate(S[h], k) - 1 : S[h][b].key < k
  <2>1. S[h] \in Leaf
    BY <1>4
  <2>2. S[h] \in Seq(Input) /\ \A b \in 1 .. Len(S[h]) : S[h][b].key \in Int
    BY <2>1, LeafNodes
  <2>3. Len(S[h]) \in Nat
    BY <2>2, LenProperties
  <2>4. QED
    BY <2>2, <2>3, LocateSplits
<1>6. CASE hits = {}
  <2>1. ASSUME NEW h \in 1 .. n, NEW b \in 1 .. Len(S[h])
        PROVE  S[h][b].key < k
    <3>1. CASE h < i
      BY <1>1, <3>1 DEF S
    <3>2. CASE i <= h
      <4>1. h - i \in 0 .. endPid /\ i + (h - i) = h
        BY <1>2, <3>2
      <4>2. w[h - i] = c[h]
        BY <1>2, <4>1
      <4>3. Locate(S[h], k) = 0
        BY <1>4, <1>6, <4>1, <4>2
      <4>4. QED
        BY <1>5, <4>3
    <3>3. QED
      BY <3>1, <3>2
  <2>2. cur = NoCursor
    BY <1>3, <1>6
  <2>3. QED
    BY <2>1, <2>2 DEF Finds, S
<1>7. CASE hits # {}
  <2> DEFINE M == Min(hits)
  <2>1. M \in hits /\ \A y \in hits : M <= y
    <3>1. hits \in SUBSET (0 .. endPid)
      OBVIOUS
    <3> HIDE DEF hits
    <3>2. QED
      BY <1>2, <1>7, <3>1, LeastPlace
  <2>2. cur = [pid |-> w[M], eid |-> Locate(NodeAt(w[M]), k) - 1]
    BY <1>3, <1>7
  <2> HIDE DEF M, cur
  <2>3. M \in 0 .. endPid /\ Locate(NodeAt(w[M]), k) # 0
    BY <2>1
  <2>4. i + M \in 1 .. n
    <3>1. i + M <= n
      BY <1>2, <2>3, LocateEmpty
    <3>2. QED
      BY <2>3, <3>1
  <2> DEFINE g == i + M
             a == Locate(S[g], k)
  <2>5. w[M] = c[g] /\ NodeAt(c[g]) = S[g]
    BY <1>2, <1>4, <2>3, <2>4
  <2> HIDE DEF g
  <2>6. g \in 1 .. n
    BY <2>4 DEF g
  <2>7. a \in 1 .. Len(S[g]) /\ cur = [pid |-> c[g], eid |-> a - 1]
    <3>1. a \in 0 .. Len(S[g]) /\ a # 0
      BY <1>5, <2>3, <2>5, <2>6
    <3>2. QED
      BY <2>2, <2>5, <3>1
  <2>8. S[g][a].key >= k /\ \A b \in 1 .. a - 1 : S[g][b].key < k
    BY <1>5, <2>6, <2>7
  <2>9. ASSUME NEW h \in 1 .. n, NEW b \in 1 .. Len(S[h]), h < g
        PROVE  S[h][b].key < k
    <3>1. CASE h < i
      BY <1>1, <3>1 DEF S
    <3>2. CASE i <= h
      <4>1. h - i \in 0 .. endPid /\ i + (h - i) = h /\ h - i < M /\ h <= n
        BY <1>2, <2>3, <2>9, <3>2 DEF g
      <4>2. w[h - i] = c[h]
        BY <1>2, <4>1
      <4>3. h - i \notin hits
        <5>1. ~(M <= h - i)
          BY <2>3, <4>1
        <5> HIDE DEF hits
        <5>2. QED
          BY <2>1, <5>1
      <4>4. Locate(S[h], k) = 0
        BY <1>4, <4>1, <4>2, <4>3
      <4>5. QED
        BY <1>5, <4>4
    <3>3. QED
      BY <3>1, <3>2
  <2>10. ASSUME NEW b \in 1 .. Len(S[g]), b < a
         PROVE  S[g][b].key < k
    <3>1. b \in 1 .. a - 1
      BY <2>7, <2>10, <1>5, <2>6
    <3>2. QED
      BY <2>8, <3>1
  <2> HIDE DEF a
  <2>11. QED
    BY <2>6, <2>7, <2>8, <2>9, <2>10 DEF Finds, S, cur
<1>8. QED
  BY <1>6, <1>7

\* From a root that leads nowhere a lookup finds nothing.
LEMMA LookupDead ==
  ASSUME disk \in Seq(Pages), NEW root, NEW height \in Nat, Dead(root), NEW k
  PROVE  LocateFrom(root, height, k) = NoCursor
<1> DEFINE p == RouteFrom(root, height, k)[height]
           hits == { j \in 0 .. endPid : Locate(NodeAt(WalkFrom(p)[j]), k) # 0 }
<1>1. Dead(p)
  BY RouteDead
<1>2. DOMAIN WalkFrom(p) = 0 .. endPid /\ \A j \in 0 .. endPid : NodeAt(WalkFrom(p)[j]) = << >>
  <2> HIDE DEF p
  <2>1. QED
    BY <1>1, WalkDead
<1>3. hits = {}
  BY <1>2, LocateEmpty
<1>4. QED
  BY <1>2, <1>3 DEF LocateFrom

\* Two entries of the leaves are in the order of their places.
LEMMA PlacesOrdered ==
  ASSUME NEW n \in Nat, NEW S, Ordered(n, S), Plain,
         NEW i \in 1 .. n, NEW a \in 1 .. Len(S[i]), NEW h \in 1 .. n, NEW b \in 1 .. Len(S[h])
  PROVE  /\ S[i][a] \in Input /\ S[i][a].key \in Int /\ S[i] \in Leaf
         /\ ~(h < i \/ (h = i /\ b < a)) => S[i][a].key <= S[h][b].key
<1>1. S[i] \in Leaf /\ S[h] \in Leaf
  BY DEF Ordered
<1>2. /\ S[i][a] \in Input /\ S[i][a].key \in Int /\ Len(S[i]) \in Nat
      /\ S[h][b] \in Input /\ S[h][b].key \in Int /\ Len(S[h]) \in Nat
  BY <1>1, LeafNodes
<1>3. ASSUME ~(h < i \/ (h = i /\ b < a))
      PROVE  S[i][a].key <= S[h][b].key
  <2>1. CASE i < h
    <3>1. S[i][a].key < S[h][b].key
      BY <2>1 DEF Ordered
    <3>2. QED
      BY <1>2, <3>1
  <2>2. CASE i = h /\ a < b
    <3>1. S[i][a].key < S[h][b].key
      BY <2>2 DEF Ordered
    <3>2. QED
      BY <1>2, <3>1
  <2>3. CASE i = h /\ a = b
    BY <1>2, <2>3
  <2>4. QED
    BY <1>2, <1>3, <2>1, <2>2, <2>3
<1>4. QED
  BY <1>1, <1>2, <1>3

\* The leaves of the tree hold the entries a lookup must find.
Complete(n, c) ==
  /\ Visible \subseteq Input
  /\ \A e \in Input : e \in Visible <=> Holds(n, Contents(disk, n, c), e)

\* A cursor at entry a of leaf i
LEMMA EntryOf ==
  ASSUME disk \in Seq(Pages), NEW n \in Nat, NEW c, Linked(disk, n, c),
         Ordered(n, Contents(disk, n, c)), Plain,
         NEW i \in 1 .. n, NEW a \in 1 .. Len(Contents(disk, n, c)[i]),
         NEW cur, cur = [pid |-> c[i], eid |-> a - 1]
  PROVE  cur # NoCursor /\ cur.pid # 0 /\ EntryAt(cur) = Contents(disk, n, c)[i][a]
<1> DEFINE S == Contents(disk, n, c)
<1>1. c[i] \in 1 .. Len(disk) - 1 /\ NodeAt(c[i]) = S[i]
  BY LeafPage
<1>2. S[i] \in Leaf
  BY DEF Ordered
<1> HIDE DEF S
<1>3. Len(S[i]) \in Nat
  BY <1>2, LeafNodes
<1>4. a - 1 < Len(S[i]) /\ (a - 1) + 1 = a
  BY <1>3 DEF S
<1>5. EntryAt(cur) = S[i][a]
  BY <1>1, <1>4 DEF EntryAt
<1>6. QED
  BY <1>1, <1>5 DEF NoCursor, S

\* The entry of the leaves that is the first one from key k on is the least.
LEMMA LeastIs ==
  ASSUME NEW n \in Nat, NEW c, Ordered(n, Contents(disk, n, c)), Complete(n, c), Plain,
         NEW k \in Int, NEW i \in 1 .. n, NEW a \in 1 .. Len(Contents(disk, n, c)[i]),
         LET S == Contents(disk, n, c)
         IN /\ S[i][a].key >= k
            /\ \A h \in 1 .. n : \A b \in 1 .. Len(S[h]) :
                 h < i \/ (h = i /\ b < a) => S[h][b].key < k
  PROVE  LeastFrom(k) = Contents(disk, n, c)[i][a] /\ LeastFrom(k) # NoEntry
<1> DEFINE S == Contents(disk, n, c)
           from == { e \in Visible : e.key >= k }
           best(e) == e \in from /\ \A f \in from : e.key <= f.key
           least == S[i][a]
<1>1. /\ Ordered(n, S) /\ Visible \subseteq Input /\ \A e \in Input : e \in Visible <=> Holds(n, S, e)
      /\ i \in 1 .. n /\ a \in 1 .. Len(S[i])
  BY DEF Complete
<1>2. LeastFrom(k) = IF from = {} THEN NoEntry ELSE CHOOSE e : best(e)
  BY DEF LeastFrom
<1>3. \A f \in from : f \in Input /\ f.key >= k /\ Holds(n, S, f)
  BY <1>1
<1>4. least \in Input /\ least.key \in Int
  <2> HIDE DEF S
  <2>1. QED
    BY <1>1, PlacesOrdered
<1>5. least \in from
  <2>1. Holds(n, S, least)
    BY DEF Holds
  <2>2. QED
    BY <1>1, <1>4, <2>1
<1>6. ASSUME NEW f \in from
      PROVE  least.key <= f.key /\ f.key \in Int
  <2>1. PICK h \in 1 .. n : \E b \in 1 .. Len(S[h]) : S[h][b] = f
    BY <1>3, <1>6 DEF Holds
  <2>2. PICK b \in 1 .. Len(S[h]) : S[h][b] = f
    BY <2>1
  <2>3. f.key >= k /\ f.key \in Int
    BY <1>3, <1>6, InputEntries
  <2>4. ~(h < i \/ (h = i /\ b < a))
    BY <2>2, <2>3
  <2>5. QED
    <3> HIDE DEF S
    <3>1. QED
      BY <1>1, <2>2, <2>3, <2>4, PlacesOrdered
<1>7. best(least)
  BY <1>5, <1>6
<1>8. ASSUME NEW e, best(e)
      PROVE  e = least
  <2>1. e.key <= least.key /\ least.key <= e.key /\ e.key \in Int /\ e \in Input
    BY <1>3, <1>5, <1>6, <1>8
  <2>2. e.key = least.key
    BY <1>4, <2>1
  <2>3. QED
    BY <1>4, <2>1, <2>2 DEF Plain
<1> HIDE DEF best
<1>9. best(CHOOSE e : best(e))
  BY <1>7
<1>10. LeastFrom(k) = least
  BY <1>2, <1>5, <1>8, <1>9
<1>11. least # NoEntry
  <2>1. NoEntry.key = 0
    BY DEF NoEntry, Entry
  <2>2. QED
    BY <1>4, <2>1, InputEntries
<1>12. QED
  BY <1>10, <1>11

\* There is none when all keys are smaller.
LEMMA LeastNone ==
  ASSUME NEW n \in Nat, NEW c, Ordered(n, Contents(disk, n, c)), Complete(n, c), Plain,
         NEW k \in Int,
         LET S == Contents(disk, n, c)
         IN \A h \in 1 .. n : \A b \in 1 .. Len(S[h]) : S[h][b].key < k
  PROVE  LeastFrom(k) = NoEntry
<1> DEFINE S == Contents(disk, n, c)
<1>1. ASSUME NEW f \in Visible, f.key >= k
      PROVE  FALSE
  <2>1. f \in Input /\ f.key \in Int /\ Holds(n, S, f)
    BY InputEntries DEF Complete
  <2>2. PICK h \in 1 .. n : \E b \in 1 .. Len(S[h]) : S[h][b] = f
    BY <2>1 DEF Holds
  <2>3. f.key < k
    BY <2>2
  <2>4. QED
    BY <1>1, <2>1, <2>3
<1>2. QED
  BY <1>1 DEF LeastFrom

LEMMA LeastFound ==
  ASSUME disk \in Seq(Pages), NEW n \in Nat, NEW c, NEW root, NEW height,
         Linked(disk, n, c), Ordered(n, Contents(disk, n, c)), Complete(n, c), Plain,
         NEW k \in Int, Finds(n, c, root, height, k)
  PROVE  LET cur == LocateFrom(root, height, k)
         IN IF LeastFrom(k) = NoEntry THEN cur = NoCursor
            ELSE cur # NoCursor /\ EntryAt(cur) = LeastFrom(k)
<1> DEFINE S == Contents(disk, n, c)
           cur == LocateFrom(root, height, k)
<1>1. CASE cur = NoCursor /\ \A h \in 1 .. n : \A b \in 1 .. Len(S[h]) : S[h][b].key < k
  <2>1. LeastFrom(k) = NoEntry
    BY <1>1, LeastNone
  <2>2. QED
    BY <1>1, <2>1
<1>2. ASSUME NEW i \in 1 .. n, NEW a \in 1 .. Len(S[i]),
             cur = [pid |-> c[i], eid |-> a - 1], S[i][a].key >= k,
             \A h \in 1 .. n : \A b \in 1 .. Len(S[h]) :
               h < i \/ (h = i /\ b < a) => S[h][b].key < k
      PROVE  LeastFrom(k) # NoEntry /\ cur # NoCursor /\ EntryAt(cur) = LeastFrom(k)
  <2>1. LeastFrom(k) = S[i][a] /\ LeastFrom(k) # NoEntry
    BY <1>2, LeastIs
  <2>2. cur # NoCursor /\ EntryAt(cur) = S[i][a]
    BY <1>2, EntryOf
  <2>3. QED
    BY <2>1, <2>2
<1>3. QED
  BY <1>1, <1>2 DEF Finds

LEMMA RootedExact ==
  ASSUME disk \in Seq(Pages), NEW n \in Nat, NEW c, NEW x \in {0} \cup 2 .. n,
         NEW root, NEW height, Rooted(disk, root, height, n, c, x),
         Linked(disk, n, c), Ordered(n, Contents(disk, n, c)), Complete(n, c), Plain
  PROVE  ExactFrom(root, height)
<1>1. ASSUME NEW k \in Key
      PROVE  LET cur == LocateFrom(root, height, k)
             IN IF LeastFrom(k) = NoEntry THEN cur = NoCursor
                ELSE cur # NoCursor /\ EntryAt(cur) = LeastFrom(k)
  <2>1. k \in Int
    BY KeyAssumption
  <2>2. LeadsTo(n, c, root, height, k)
    BY <2>1, RouteLeads
  <2>3. Finds(n, c, root, height, k)
    BY <2>1, <2>2, LookupFinds
  <2>4. QED
    BY <2>1, <2>3, LeastFound
<1>2. QED
  BY <1>1 DEF ExactFrom

LEMMA DeadExact ==
  ASSUME disk \in Seq(Pages), NEW n, NEW c, n = 0, Complete(n, c),
         NEW root, NEW height \in Nat, Dead(root)
  PROVE  ExactFrom(root, height)
<1>1. Visible = {}
  <2>1. \A e \in Visible : Holds(n, Contents(disk, n, c), e)
    BY DEF Complete
  <2>2. QED
    BY <2>1 DEF Holds
<1>2. ASSUME NEW k \in Key
      PROVE  LocateFrom(root, height, k) = NoCursor /\ LeastFrom(k) = NoEntry
  <2>1. LocateFrom(root, height, k) = NoCursor
    BY LookupDead
  <2>2. LeastFrom(k) = NoEntry
    BY <1>1 DEF LeastFrom
  <2>3. QED
    BY <2>1, <2>2
<1>3. QED
  BY <1>2 DEF ExactFrom

-----------------------------------------------------------------------------
(* What the invariant says of lookups *)

\* Page 0 says nothing of a root when it is not there or zero.
LEMMA Unsaved ==
  ASSUME Types, ~Saved, NEW p \in {-1} \cup UninitPid
  PROVE  Dead(p)
<1>1. disk \in Seq(Pages) /\ Len(disk) \in Nat
  BY LenProperties DEF Types
<1>2. CASE p # 0
  <2>1. p \notin 0 .. Len(disk) - 1
    BY <1>2, Pids
  <2>2. QED
    BY <2>1 DEF Dead
<1>3. CASE p = 0 /\ Len(disk) = 0
  <2>1. p \notin 0 .. Len(disk) - 1
    BY <1>3
  <2>2. QED
    BY <2>1 DEF Dead
<1>4. CASE p = 0 /\ Len(disk) > 0
  <2>1. 0 \in 0 .. Len(disk) - 1
    BY <1>1, <1>4
  <2>2. Cell(disk, 0) = << >>
    BY <1>1, <2>1, ReadPage DEF Saved
  <2>3. ASSUME NEW h, NEW r, NEW u, disk[1] = Info(h, r, u)
        PROVE  FALSE
    <3>1. Cell(disk, 0) = <<Entry(1, [pid |-> h, sid |-> r])>>
      BY <2>3 DEF Cell, Info, Page
    <3>2. QED
      BY <2>2, <3>1
  <2>4. disk[1] = ZeroPage
    BY <1>4, <2>3 DEF Types, FirstPage
  <2>5. QED
    BY <1>4, <2>4 DEF Dead
<1>5. QED
  BY <1>1, <1>2, <1>3, <1>4

LEMMA ShapeComplete ==
  ASSUME Types, NEW n \in Nat, NEW c, NEW x, Shape(n, c, x)
  PROVE  Complete(n, c)
<1>1. pc \in {"up", "sibling"} => ins \in Input
  BY DEF Shape, Writing, Types
<1>2. Visible \subseteq Input
  BY <1>1 DEF Visible, Types
<1>3. QED
  BY <1>2 DEF Shape, Complete

LEMMA InvShows ==
  ASSUME Plain, Inv
  PROVE  LookupsExact /\ SavedRootFinds
<1>1. PICK n \in Nat : \E c \in [1 .. n -> 1 .. Len(disk) - 1], x \in {0} \cup 2 .. n : Shape(n, c, x)
  BY DEF Inv
<1>2. PICK c \in [1 .. n -> 1 .. Len(disk) - 1], x \in {0} \cup 2 .. n : Shape(n, c, x)
  BY <1>1
<1>3. Types /\ disk \in Seq(Pages) /\ treeHeight \in Nat /\ mode \in {"closed", "r", "w"}
  BY DEF Inv, Types
<1>4. Complete(n, c)
  BY <1>2, <1>3, ShapeComplete
<1>5. Linked(disk, n, c) /\ Ordered(n, Contents(disk, n, c))
  BY <1>2 DEF Shape
<1>6. SavedRootFinds
  <2>1. ASSUME TreeSaved
        PROVE  ExactFrom(SavedId.sid, SavedId.pid)
    <3>1. Rooted(disk, SavedId.sid, SavedId.pid, n, c, x)
      BY <1>2, <2>1 DEF Shape
    <3>2. QED
      BY <1>3, <1>4, <1>5, <3>1, RootedExact
  <2>2. QED
    BY <2>1 DEF SavedRootFinds
<1>7. ASSUME mode = "w"
      PROVE  ExactFrom(rootPid, treeHeight)
  <2>1. Writing(n, c, x)
    BY <1>2, <1>7 DEF Shape
  <2>2. CASE rootPid = -1
    <3>1. n = 0 /\ Dead(rootPid)
      BY <1>3, <2>1, <2>2, DeadNone DEF Writing
    <3>2. QED
      BY <1>3, <1>4, <3>1, DeadExact
  <2>3. CASE rootPid # -1
    <3>1. Rooted(disk, rootPid, treeHeight, n, c, x)
      BY <2>1, <2>3 DEF Writing, Grows
    <3>2. QED
      BY <1>3, <1>4, <1>5, <3>1, RootedExact
  <2>4. QED
    BY <2>2, <2>3
<1>8. ASSUME mode = "r"
      PROVE  ExactFrom(rootPid, treeHeight)
  <2>1. Reading /\ (~TreeSaved => n = 0)
    BY <1>2, <1>8 DEF Shape
  <2>2. CASE TreeSaved
    <3>1. Rooted(disk, rootPid, treeHeight, n, c, x)
      BY <1>2, <2>1, <2>2 DEF Shape, Reading, TreeSaved
    <3>2. QED
      BY <1>3, <1>4, <1>5, <3>1, RootedExact
  <2>3. CASE ~TreeSaved
    <3>1. Dead(rootPid)
      <4>1. CASE Saved
        BY <1>3, <2>1, <2>3, <4>1, DeadNone DEF Reading, TreeSaved
      <4>2. CASE ~Saved
        BY <1>3, <2>1, <4>2, Unsaved DEF Reading
      <4>3. QED
        BY <4>1, <4>2
    <3>2. QED
      BY <1>3, <1>4, <2>1, <2>3, <3>1, DeadExact
  <2>4. QED
    BY <2>2, <2>3
<1>9. QED
  BY <1>3, <1>6, <1>7, <1>8 DEF LookupsExact

-----------------------------------------------------------------------------
(* What the steps do to the pages *)

\* Page 0, when it is saved, is what close wrote.
LEMMA SavedIs ==
  ASSUME disk \in Seq(Pages), FirstPage(disk), Saved
  PROVE  /\ Len(disk) > 0 /\ NodeAt(0) = Cell(disk, 0)
         /\ SavedId.pid \in Nat /\ SavedId.sid \in PidSet
<1>1. Len(disk) \in Nat
  BY LenProperties
<1>2. 0 \in 0 .. Len(disk) - 1
  <2>1. ~(0 \notin 0 .. Len(disk) - 1)
    BY ReadPage DEF Saved
  <2>2. QED
    BY <2>1
<1>3. NodeAt(0) = Cell(disk, 0)
  BY <1>2, ReadPage
<1>4. disk[1] # ZeroPage
  <2>1. ASSUME disk[1] = ZeroPage
        PROVE  FALSE
    <3>1. Cell(disk, 0) = << >>
      BY <2>1 DEF Cell, ZeroPage, Page
    <3>2. QED
      BY <1>3, <3>1 DEF Saved
  <2>2. QED
    BY <2>1
<1>5. PICK h \in Nat, r \in PidSet, u \in UninitPid : disk[1] = Info(h, r, u)
  BY <1>1, <1>2, <1>4 DEF FirstPage
<1>6. Cell(disk, 0) = <<Entry(1, [pid |-> h, sid |-> r])>>
  BY <1>5 DEF Cell, Info, Page
<1>7. SavedId = [pid |-> h, sid |-> r]
  BY <1>3, <1>6 DEF SavedId, Entry
<1>8. QED
  BY <1>1, <1>2, <1>3, <1>7

\* The pages d2 are the pages d but for page p.
Same(d, d2, p) ==
  /\ d2 \in Seq(Pages) /\ FirstPage(d2) /\ Len(d2) >= Len(d)
  /\ \A q \in 1 .. Len(d) - 1 : q # p => Cell(d2, q) = Cell(d, q) /\ Link(d2, q) = Link(d, q)

\* No write of an insert disturbs what page 0 says.
LEMMA WriteKeeps ==
  ASSUME disk \in Seq(Pages), FirstPage(disk), NEW p \in Nat, p # 0, p <= Len(disk) + 1,
         NEW page \in Pages, Write(p, page, TRUE)
  PROVE  /\ Same(disk, disk', p)
         /\ Len(disk') = IF p + 1 > Len(disk) THEN p + 1 ELSE Len(disk)
         /\ Cell(disk', p) = page.entries /\ Link(disk', p) = page.last
         /\ Saved' = Saved /\ SavedId' = SavedId /\ TreeSaved' = TreeSaved
<1>1. disk' = Put(p, page)
  BY DEF Write
<1>2. /\ disk' \in Seq(Pages)
      /\ Len(disk') = IF p + 1 > Len(disk) THEN p + 1 ELSE Len(disk)
      /\ disk'[p + 1] = page
      /\ \A i \in 1 .. Len(disk) : i # p + 1 => disk'[i] = disk[i]
      /\ \A i \in Len(disk) + 1 .. Len(disk') : i # p + 1 => disk'[i] = ZeroPage
  BY <1>1, WritePage
<1>3. Len(disk) \in Nat /\ Len(disk') \in Nat /\ Len(disk') >= Len(disk)
  BY <1>2, LenProperties
<1>4. Cell(disk', p) = page.entries /\ Link(disk', p) = page.last
  BY <1>2 DEF Cell, Link
<1>5. ASSUME NEW q \in 1 .. Len(disk) - 1, q # p
      PROVE  Cell(disk', q) = Cell(disk, q) /\ Link(disk', q) = Link(disk, q)
  <2>1. q + 1 \in 1 .. Len(disk) /\ q + 1 # p + 1
    BY <1>3, <1>5
  <2>2. disk'[q + 1] = disk[q + 1]
    BY <1>2, <2>1
  <2>3. QED
    BY <2>2 DEF Cell, Link
<1>6. CASE Len(disk) > 0
  <2>1. 1 \in 1 .. Len(disk) /\ 1 # p + 1
    BY <1>3, <1>6
  <2>2. disk'[1] = disk[1]
    BY <1>2, <2>1
  <2>3. FirstPage(disk')
    BY <1>6, <2>2 DEF FirstPage
  <2>4. NodeAt(0)' = NodeAt(0)
    BY <1>3, <1>6, <2>2 DEF NodeAt, InFile, endPid
  <2>5. Saved' = Saved /\ SavedId' = SavedId
    BY <2>4 DEF Saved, SavedId
  <2>6. QED
    BY <1>2, <1>3, <1>4, <1>5, <2>3, <2>5 DEF Same, TreeSaved
<1>7. CASE Len(disk) = 0
  <2>1. 1 \in Len(disk) + 1 .. Len(disk') /\ 1 # p + 1
    BY <1>2, <1>3, <1>7
  <2>2. disk'[1] = ZeroPage
    BY <1>2, <2>1
  <2>3. FirstPage(disk')
    BY <2>2 DEF FirstPage
  <2>4. NodeAt(0) = << >>
    BY <1>7 DEF NodeAt, InFile, endPid
  <2>5. NodeAt(0)' = << >>
    <3>1. NodeAt(0)' = Loaded(disk'[1])
      BY <2>1, <1>3 DEF NodeAt, InFile, endPid
    <3>2. Loaded(ZeroPage) = << >>
      <4>1. << >> \in Seq(Entries) /\ Len(<< >>) = 0
        BY EmptySeq
      <4>2. Loaded(Page(<< >>, 0)) \in Seq(Entries) /\ Len(Loaded(Page(<< >>, 0))) \in 0 .. Len(<< >>)
        BY <4>1, LoadedPart
      <4>3. QED
        BY <4>1, <4>2, EmptySeq DEF ZeroPage
    <3>3. QED
      BY <2>2, <3>1, <3>2
  <2>6. Saved' = Saved /\ SavedId' = SavedId
    BY <2>4, <2>5 DEF Saved, SavedId
  <2>7. QED
    BY <1>2, <1>3, <1>4, <1>5, <2>3, <2>6 DEF Same, TreeSaved
<1>8. QED
  BY <1>3, <1>6, <1>7

\* What is said of the leaves is kept with their pages.
LEMMA LinkedKeeps ==
  ASSUME NEW d, NEW d2, Len(d) \in Nat, Len(d2) \in Nat, Len(d2) >= Len(d),
         NEW n, NEW c, Linked(d, n, c), \A i \in 1 .. n : Link(d2, c[i]) = Link(d, c[i])
  PROVE  Linked(d2, n, c) /\ c \in [1 .. n -> 1 .. Len(d2) - 1]
<1>1. n \in Nat /\ c \in [1 .. n -> 1 .. Len(d) - 1]
  BY DEF Linked
<1>2. c \in [1 .. n -> 1 .. Len(d2) - 1]
  <2>1. \A i \in 1 .. n : c[i] \in 1 .. Len(d2) - 1
    BY <1>1
  <2>2. QED
    BY <1>1, <2>1
<1>3. \A i \in 1 .. n - 1 : Link(d2, c[i]) = c[i + 1]
  <2>1. TAKE i \in 1 .. n - 1
  <2>2. i \in 1 .. n
    BY <1>1
  <2>3. QED
    BY <2>2 DEF Linked
<1>4. n # 0 => Link(d2, c[n]) \in UninitPid
  <2>1. n # 0 => n \in 1 .. n
    BY <1>1
  <2>2. QED
    BY <2>1 DEF Linked
<1>5. QED
  BY <1>1, <1>2, <1>3, <1>4 DEF Linked

LEMMA InnerKeeps ==
  ASSUME NEW d, NEW d2, Len(d) \in Nat, Len(d2) \in Nat, Len(d2) >= Len(d),
         NEW n, NEW c, NEW x, NEW root, Inner(d, root, n, c, x),
         Cell(d2, root) = Cell(d, root), Link(d2, root) = Link(d, root),
         Contents(d2, n, c) = Contents(d, n, c)
  PROVE  Inner(d2, root, n, c, x)
<1>1. root \in 1 .. Len(d2) - 1
  BY DEF Inner
<1>2. QED
  BY <1>1 DEF Inner

\* The pages of the tree are the same.
LEMMA TreeKeeps ==
  ASSUME NEW d, Len(d) \in Nat, NEW d2, NEW p, Same(d, d2, p),
         NEW n, NEW c, Linked(d, n, c), \A i \in 1 .. n : c[i] # p
  PROVE  /\ Linked(d2, n, c) /\ c \in [1 .. n -> 1 .. Len(d2) - 1]
         /\ Contents(d2, n, c) = Contents(d, n, c)
         /\ \A i \in 1 .. n : Cell(d2, c[i]) = Cell(d, c[i]) /\ Link(d2, c[i]) = Link(d, c[i])
         /\ \A root, height, x :
              root # p /\ Rooted(d, root, height, n, c, x) => Rooted(d2, root, height, n, c, x)
<1>1. Len(d2) \in Nat /\ Len(d2) >= Len(d)
  BY LenProperties DEF Same
<1>2. \A i \in 1 .. n : c[i] \in 1 .. Len(d) - 1
  BY DEF Linked
<1>3. \A i \in 1 .. n : Cell(d2, c[i]) = Cell(d, c[i]) /\ Link(d2, c[i]) = Link(d, c[i])
  BY <1>2 DEF Same
<1>4. Contents(d2, n, c) = Contents(d, n, c)
  BY <1>3 DEF Contents
<1>5. ASSUME NEW root, NEW height, NEW x, root # p, Rooted(d, root, height, n, c, x)
      PROVE  Rooted(d2, root, height, n, c, x)
  <2>1. CASE height = 0 /\ root = c[1]
    BY <1>5, <2>1 DEF Rooted
  <2>2. CASE height = 1 /\ Inner(d, root, n, c, x)
    <3>1. Inner(d, root, n, c, x)
      BY <2>2
    <3>2. root \in 1 .. Len(d) - 1
      BY <3>1 DEF Inner
    <3>3. Cell(d2, root) = Cell(d, root) /\ Link(d2, root) = Link(d, root)
      BY <1>5, <3>2 DEF Same
    <3>4. Inner(d2, root, n, c, x)
      BY <1>1, <1>4, <3>1, <3>3, InnerKeeps
    <3>5. QED
      BY <1>5, <2>2, <3>4 DEF Rooted
  <2>3. QED
    BY <1>5, <2>1, <2>2 DEF Rooted
<1>6. Linked(d2, n, c) /\ c \in [1 .. n -> 1 .. Len(d2) - 1]
  BY <1>1, <1>3, LinkedKeeps
<1>7. QED
  BY <1>3, <1>4, <1>5, <1>6

Avoids(n, c, p) == \A i \in 1 .. n : c[i] # p
Within(d, n, c) == Linked(d, n, c) /\ c \in [1 .. n -> 1 .. Len(d) - 1]

LEMMA LeavesKept ==
  ASSUME NEW d, Len(d) \in Nat, NEW d2, NEW p, Same(d, d2, p),
         NEW n, NEW c, Linked(d, n, c), Avoids(n, c, p)
  PROVE  Within(d2, n, c) /\ Contents(d2, n, c) = Contents(d, n, c)
BY TreeKeeps DEF Avoids, Within

-----------------------------------------------------------------------------
(* Every step keeps the invariant *)

\* No leaf
LEMMA NoLeaf ==
  ASSUME NEW d, NEW n, n = 0
  PROVE  \E c \in [1 .. n -> 1 .. Len(d) - 1] :
           Linked(d, n, c) /\ Ordered(n, Contents(d, n, c)) /\ \A e : ~Holds(n, Contents(d, n, c), e)
<1> DEFINE c == [i \in 1 .. n |-> 1]
<1>1. c \in [1 .. n -> 1 .. Len(d) - 1]
  OBVIOUS
<1>2. Linked(d, n, c)
  BY <1>1 DEF Linked
<1>3. Ordered(n, Contents(d, n, c)) /\ \A e : ~Holds(n, Contents(d, n, c), e)
  BY DEF Ordered, Contents, Holds
<1>4. QED
  BY <1>1, <1>2, <1>3

LEMMA InitInv ==
  ASSUME Init
  PROVE  Inv
<1>1. disk = << >> /\ Len(disk) = 0 /\ disk \in Seq(Pages)
  BY EmptySeq DEF Init
<1>2. Types
  BY <1>1 DEF Types, FirstPage, Init, PidSet
<1>3. ~TreeSaved
  BY <1>1 DEF TreeSaved, Saved, NodeAt, InFile, endPid
<1> DEFINE n == 0
<1>4. PICK c \in [1 .. n -> 1 .. Len(disk) - 1] :
        Linked(disk, n, c) /\ Ordered(n, Contents(disk, n, c))
          /\ \A e : ~Holds(n, Contents(disk, n, c), e)
  BY NoLeaf
<1>5. Shape(n, c, 0)
  BY <1>3, <1>4 DEF Shape, Init, Visible
<1>6. QED
  BY <1>2, <1>5 DEF Inv

\* A step that leaves the tree and the insert alone
LEMMA ShapeSame ==
  ASSUME UNCHANGED <<disk, mode, rootPid, treeHeight, pc, ins, stack, up, entries, crashed>>,
         NEW n, NEW c, NEW x
  PROVE  Shape(n, c, x)' = Shape(n, c, x)
<1>1. endPid' = endPid /\ NodeAt(0)' = NodeAt(0)
  BY DEF endPid, NodeAt, InFile
<1>2. Saved' = Saved /\ SavedId' = SavedId /\ TreeSaved' = TreeSaved /\ Visible' = Visible
  BY <1>1 DEF Saved, SavedId, TreeSaved, Visible
<1>3. Reading' = Reading
  BY <1>2 DEF Reading
<1>4. Above0' = Above0 /\ \A p : Step(p)' = Step(p)
  BY DEF Above0, Step
<1>5. Writing(n, c, x)' = Writing(n, c, x)
  BY <1>1, <1>2, <1>4 DEF Writing
<1>6. QED
  BY <1>2, <1>3, <1>5 DEF Shape

LEMMA Quiet ==
  ASSUME Inv,
         UNCHANGED <<disk, mode, rootPid, treeHeight, pc, ins, stack, up, entries, crashed>>
  PROVE  Inv'
<1>1. Types' = Types
  BY DEF Types
<1>2. \A n, c, x : Shape(n, c, x)' = Shape(n, c, x)
  BY ShapeSame
<1>3. QED
  BY <1>1, <1>2 DEF Inv

\* What page 0 says depends on the pages only.
LEMMA SavedSame ==
  ASSUME disk' = disk
  PROVE  Saved' = Saved /\ SavedId' = SavedId /\ TreeSaved' = TreeSaved /\ endPid' = endPid
BY DEF Saved, SavedId, TreeSaved, NodeAt, InFile, endPid

LEMMA OpenInv ==
  ASSUME Inv, Plain, NEW m \in {"r", "w"}, open(m)
  PROVE  Inv'
<1>1. PICK n \in Nat : \E c \in [1 .. n -> 1 .. Len(disk) - 1], x \in {0} \cup 2 .. n : Shape(n, c, x)
  BY DEF Inv
<1>2. PICK c \in [1 .. n -> 1 .. Len(disk) - 1], x \in {0} \cup 2 .. n : Shape(n, c, x)
  BY <1>1
<1>3. /\ mode = "closed" /\ (m = "w" => ~crashed)
      /\ IF Saved THEN rootPid' = SavedId.sid /\ treeHeight' = SavedId.pid
         ELSE /\ rootPid' \in {-1} \cup UninitPid /\ (m = "w" => rootPid' = -1)
              /\ treeHeight' \in UninitHeight
      /\ mode' = m /\ UNCHANGED <<disk, pc, callVars, histVars>>
  <2>1. CanFail("read") = {TRUE}
    BY DEF CanFail, Plain
  <2>2. QED
    BY <2>1 DEF open
<1>4. UNCHANGED <<disk, pc, ins, stack, up, entries, crashed>>
  BY <1>3 DEF callVars, histVars
<1>5. Saved' = Saved /\ SavedId' = SavedId /\ TreeSaved' = TreeSaved
  BY <1>4, SavedSame
<1>6. Types'
  <2>1. rootPid' \in PidSet /\ treeHeight' \in Nat
    <3>1. CASE Saved
      BY <1>3, <3>1, SavedIs DEF Inv, Types
    <3>2. CASE ~Saved
      BY <1>3, <3>2, HeightAssumption DEF PidSet
    <3>3. QED
      BY <3>1, <3>2
  <2>2. QED
    BY <1>3, <1>4, <2>1 DEF Inv, Types
<1>7. Visible' = Visible /\ pc = "idle"
  BY <1>2, <1>3, <1>4 DEF Visible, Shape
<1>8. CASE m = "r"
  <2>1. Reading'
    BY <1>3, <1>4, <1>5 DEF Reading
  <2>2. Shape(n, c, x)'
    BY <1>2, <1>3, <1>4, <1>5, <1>7, <1>8, <2>1 DEF Shape
  <2>3. QED
    BY <1>4, <1>6, <2>2 DEF Inv
<1>9. CASE m = "w"
  <2>1. ~crashed /\ (~TreeSaved => n = 0)
        /\ (TreeSaved => Grows(disk, SavedId.sid, SavedId.pid, n, c, 0) /\ x = 0)
    BY <1>2, <1>3, <1>9 DEF Shape
  <2>2. Writing(n, c, x)'
    <3>1. CASE rootPid' = -1
      <4>1. ~TreeSaved
        BY <1>3, <2>1, <3>1, <1>9, Pids DEF Grows, Rooted, Inner, TreeSaved, Shape
      <4>2. QED
        BY <1>4, <1>5, <1>7, <2>1, <3>1, <4>1 DEF Writing
    <3>2. CASE rootPid' # -1
      <4>1. Saved /\ TreeSaved
        BY <1>3, <1>9, <3>2 DEF TreeSaved
      <4>2. QED
        BY <1>3, <1>4, <1>5, <1>7, <2>1, <3>2, <4>1 DEF Writing
    <3>3. QED
      BY <3>1, <3>2
  <2>3. Shape(n, c, x)'
    BY <1>2, <1>3, <1>4, <1>5, <1>7, <1>9, <2>1, <2>2 DEF Shape
  <2>4. QED
    BY <1>4, <1>6, <2>3 DEF Inv
<1>10. QED
  BY <1>8, <1>9

LEMMA CrashInv ==
  ASSUME Inv, Plain, Crash
  PROVE  Inv'
<1>1. PICK n \in Nat : \E c \in [1 .. n -> 1 .. Len(disk) - 1], x \in {0} \cup 2 .. n : Shape(n, c, x)
  BY DEF Inv
<1>2. PICK c \in [1 .. n -> 1 .. Len(disk) - 1], x \in {0} \cup 2 .. n : Shape(n, c, x)
  BY <1>1
<1>3. /\ mode # "closed" /\ mode' = "closed" /\ rootPid' = -1 /\ treeHeight' = 0
      /\ pc' = "idle" /\ disk' = disk
      /\ crashed' = (crashed \/ mode = "w")
      /\ entries' = (IF TreeSaved THEN Visible ELSE {})
  BY DEF Crash
<1>4. Saved' = Saved /\ SavedId' = SavedId /\ TreeSaved' = TreeSaved
  BY <1>3, SavedSame
<1>5. Complete(n, c)
  BY <1>2, ShapeComplete DEF Inv
<1>6. Types'
  BY <1>3, <1>5 DEF Inv, Types, PidSet, Complete
<1>7. Visible' = entries'
  BY <1>3 DEF Visible
<1>8. CASE TreeSaved
  <2>1. \A e \in Input : e \in Visible' <=> Holds(n, Contents(disk', n, c), e)
    BY <1>3, <1>5, <1>7, <1>8 DEF Complete
  <2>2. TreeSaved' /\ ~crashed' => Grows(disk', SavedId'.sid, SavedId'.pid, n, c, 0) /\ x = 0
    BY <1>2, <1>3, <1>4 DEF Shape
  <2>3. Shape(n, c, x)'
    BY <1>2, <1>3, <1>4, <1>8, <2>1, <2>2 DEF Shape
  <2>4. QED
    BY <1>3, <1>6, <2>3 DEF Inv
<1>9. CASE ~TreeSaved
  <2> DEFINE z == 0
  <2>1. PICK b \in [1 .. z -> 1 .. Len(disk) - 1] :
          Linked(disk, z, b) /\ Ordered(z, Contents(disk, z, b))
            /\ \A e : ~Holds(z, Contents(disk, z, b), e)
    BY NoLeaf
  <2>2. Shape(z, b, 0)'
    BY <1>3, <1>4, <1>7, <1>9, <2>1 DEF Shape
  <2>3. QED
    BY <1>3, <1>6, <2>2 DEF Inv
<1>10. QED
  BY <1>8, <1>9

\* The page that close writes
LEMMA InfoIs ==
  ASSUME Types, NEW u \in UninitPid
  PROVE  InfoPage(u) = Info(treeHeight, rootPid, u) /\ InfoPage(u) \in Pages
<1>1. treeHeight \in Nat /\ rootPid \in PidSet
  BY DEF Types
<1>2. Entry(1, [pid |-> treeHeight, sid |-> rootPid]) \in Entries
  BY <1>1, Pids DEF Entry, Entries, RecordIds
<1> DEFINE m == <<Entry(1, [pid |-> treeHeight, sid |-> rootPid])>>
<1>3. m \in Seq(Entries) /\ Len(m) = 1
  BY <1>2
<1> HIDE DEF m
<1>4. m \in Nodes
  BY <1>3, BiggestNode DEF Nodes
<1>5. Page(m, u) \in Pages
  BY <1>4 DEF Page, Pages, PidSet
<1>6. QED
  BY <1>5 DEF m, InfoPage, Info

LEMMA CloseInv ==
  ASSUME Inv, Plain, close
  PROVE  Inv' /\ (TreeSaved => TreeSaved')
<1>1. PICK n \in Nat : \E c \in [1 .. n -> 1 .. Len(disk) - 1], x \in {0} \cup 2 .. n : Shape(n, c, x)
  BY DEF Inv
<1>2. PICK c \in [1 .. n -> 1 .. Len(disk) - 1], x \in {0} \cup 2 .. n : Shape(n, c, x)
  BY <1>1
<1>3. PICK u \in UninitPid :
      /\ mode = "w" /\ pc = "idle" /\ Write(0, InfoPage(u), TRUE)
      /\ mode' = "closed" /\ rootPid' = -1 /\ treeHeight' = 0
      /\ pc' = pc /\ entries' = entries /\ crashed' = crashed
  <2>1. CanFail("write") = {TRUE}
    BY DEF CanFail, Plain
  <2>2. QED
    BY <2>1 DEF close
<1>4. Types /\ disk \in Seq(Pages) /\ Len(disk) \in Nat /\ rootPid \in PidSet /\ treeHeight \in Nat
  BY LenProperties DEF Inv, Types
<1>5. /\ disk' \in Seq(Pages) /\ disk'[1] = Info(treeHeight, rootPid, u)
      /\ Len(disk') = IF 1 > Len(disk) THEN 1 ELSE Len(disk)
      /\ \A i \in 1 .. Len(disk) : i # 1 => disk'[i] = disk[i]
  <2> DEFINE p == 0
  <2>1. disk' = Put(p, InfoPage(u))
    BY <1>3 DEF Write
  <2>2. p \in Nat /\ p + 1 = 1 /\ p <= Len(disk) + 1
    BY <1>4
  <2> HIDE DEF p
  <2>3. InfoPage(u) = Info(treeHeight, rootPid, u) /\ InfoPage(u) \in Pages
    BY <1>4, InfoIs
  <2>4. /\ disk' \in Seq(Pages)
        /\ Len(disk') = IF p + 1 > Len(disk) THEN p + 1 ELSE Len(disk)
        /\ disk'[p + 1] = InfoPage(u)
        /\ \A i \in 1 .. Len(disk) : i # p + 1 => disk'[i] = disk[i]
    BY <1>4, <2>1, <2>2, <2>3, WritePage
  <2>5. QED
    BY <2>2, <2>3, <2>4
<1>6. FirstPage(disk')
  BY <1>4, <1>5 DEF FirstPage
<1>7. Same(disk, disk', 0)
  <2>1. ASSUME NEW q \in 1 .. Len(disk) - 1
        PROVE  Cell(disk', q) = Cell(disk, q) /\ Link(disk', q) = Link(disk, q)
    <3>1. q + 1 \in 1 .. Len(disk) /\ q + 1 # 1
      BY <1>4
    <3>2. disk'[q + 1] = disk[q + 1]
      BY <1>5, <3>1
    <3>3. QED
      BY <3>2 DEF Cell, Link
  <2>2. QED
    BY <1>4, <1>5, <1>6, <2>1 DEF Same
<1>8. /\ Linked(disk', n, c) /\ c \in [1 .. n -> 1 .. Len(disk') - 1]
      /\ Contents(disk', n, c) = Contents(disk, n, c)
      /\ \A root, height, y :
           root # 0 /\ Rooted(disk, root, height, n, c, y) => Rooted(disk', root, height, n, c, y)
  <2>1. \A i \in 1 .. n : c[i] # 0
    BY <1>4
  <2>2. Linked(disk, n, c)
    BY <1>2 DEF Shape
  <2>3. QED
    <3>1. Len(disk) \in Nat
      BY <1>4
    <3>2. QED
      BY <1>7, <2>1, <2>2, <3>1, TreeKeeps
<1>9. Saved' /\ SavedId'.sid = rootPid /\ SavedId'.pid = treeHeight
  <2>1. 0 < endPid' /\ 0 + 1 = 1
    BY <1>4, <1>5 DEF endPid
  <2>2. NodeAt(0)' = Loaded(disk'[1])
    BY <2>1 DEF NodeAt, InFile
  <2> DEFINE m == <<Entry(1, [pid |-> treeHeight, sid |-> rootPid])>>
             S == {Entry(1, [pid |-> treeHeight, sid |-> rootPid])}
  <2>3. Loaded(disk'[1]) = m
    <3>1. m \in Seq(S) /\ \A i \in 1 .. Len(m) : m[i].key # 0
      BY DEF Entry
    <3> HIDE DEF m, S
    <3>2. Loaded(Page(m, u)) = m
      BY <3>1, LoadedPart
    <3>3. QED
      BY <1>5, <3>2 DEF Info, m
  <2>4. QED
    BY <2>2, <2>3 DEF Saved, SavedId, Entry
<1>10. Types'
  BY <1>3, <1>5, <1>6 DEF Inv, Types, PidSet
<1>11. Visible' = Visible
  BY <1>3 DEF Visible
<1>12. Writing(n, c, x) /\ ~crashed
  BY <1>2, <1>3 DEF Shape
<1>13. CASE rootPid = -1
  <2>1. n = 0 /\ ~TreeSaved'
    BY <1>9, <1>12, <1>13 DEF Writing, TreeSaved
  <2>2. Shape(n, c, x)'
    BY <1>2, <1>3, <1>8, <1>11, <2>1 DEF Shape
  <2>3. ~TreeSaved
    BY <1>12, <1>13 DEF Writing
  <2>4. QED
    BY <1>8, <1>10, <2>2, <2>3 DEF Inv
<1>14. CASE rootPid # -1
  <2>1. x = 0 /\ Grows(disk, rootPid, treeHeight, n, c, x)
    BY <1>3, <1>12, <1>14 DEF Writing
  <2>2. rootPid # 0
    <3>1. n \in Nat /\ n > 0 => c[1] # 0
      BY <1>4
    <3>2. QED
      BY <2>1, <3>1 DEF Grows, Rooted, Inner
  <2>3. Grows(disk', rootPid, treeHeight, n, c, x)
    BY <1>8, <2>1, <2>2 DEF Grows
  <2>4. Rooted(disk', SavedId'.sid, SavedId'.pid, n, c, x)
    BY <1>9, <2>3 DEF Grows
  <2>5. Shape(n, c, x)'
    BY <1>2, <1>3, <1>8, <1>9, <1>11, <1>12, <1>14, <2>1, <2>3, <2>4 DEF Shape, TreeSaved
  <2>6. TreeSaved'
    BY <1>9, <1>14 DEF TreeSaved
  <2>7. QED
    BY <1>8, <1>10, <2>5, <2>6 DEF Inv
<1>15. QED
  BY <1>13, <1>14

\* Every write succeeds.
LEMMA WritesWork ==
  ASSUME Plain
  PROVE  CanFail("write") = {TRUE} /\ CanFail("read") = {TRUE} /\ \A p \in Nat : WriteOk(p) = {TRUE}
<1>1. \A fault : CanFail(fault) = {TRUE}
  BY DEF Plain, CanFail
<1>2. \A p \in Nat : ~(p < 0)
  OBVIOUS
<1>3. QED
  BY <1>1, <1>2 DEF WriteOk

LEMMA InsertFirstInv ==
  ASSUME Inv, Plain, NEW e \in Input, insert_first(e)
  PROVE  Inv' /\ TreeSaved' = TreeSaved
<1>1. PICK n \in Nat : \E c \in [1 .. n -> 1 .. Len(disk) - 1], x \in {0} \cup 2 .. n : Shape(n, c, x)
  BY DEF Inv
<1>2. PICK c \in [1 .. n -> 1 .. Len(disk) - 1], x \in {0} \cup 2 .. n : Shape(n, c, x)
  BY <1>1
<1>3. Types /\ disk \in Seq(Pages) /\ Len(disk) \in Nat /\ FirstPage(disk)
  BY LenProperties DEF Inv, Types
<1>4. PICK p \in Nat : p = Len(disk) + 1
  BY <1>3
<1> DEFINE z == 1
           b == [i \in 1 .. z |-> p]
<1>5. PICK u \in UninitPid :
        /\ mode = "w" /\ pc = "idle" /\ e \notin entries /\ rootPid = -1
        /\ Write(p, Page(<< >>, u), TRUE)
        /\ rootPid' = p /\ treeHeight' = 0 /\ pc' = "descend" /\ ins' = e
        /\ UNCHANGED <<mode, entries, crashed>>
  <2>1. FirstRoot = p /\ p \in Nat
    BY <1>4 DEF FirstRoot, endPid
  <2>2. WriteOk(FirstRoot) = {TRUE}
    BY <2>1, WritesWork
  <2>3. QED
    BY <2>1, <2>2 DEF insert_first, MayInsert, histVars
<1>6. Page(<< >>, u) \in Pages
  <2>1. << >> \in Seq(Entries) /\ Len(<< >>) = 0
    BY EmptySeq
  <2>2. QED
    BY <2>1, BiggestNode, Pids DEF Page, Pages, Nodes
<1>7. p \in Nat /\ p # 0 /\ p <= Len(disk) + 1 /\ p # -1
  BY <1>4, <1>3
<1>8. /\ Same(disk, disk', p) /\ Cell(disk', p) = << >> /\ Link(disk', p) = u
      /\ Len(disk') = IF p + 1 > Len(disk) THEN p + 1 ELSE Len(disk)
      /\ TreeSaved' = TreeSaved
  <2>1. Page(<< >>, u).entries = << >> /\ Page(<< >>, u).last = u
    BY DEF Page
  <2>2. QED
    BY <1>3, <1>5, <1>6, <1>7, <2>1, WriteKeeps
<1>9. n = 0 /\ ~TreeSaved /\ ~crashed
  BY <1>2, <1>5 DEF Shape, Writing
<1>10. Types'
  BY <1>5, <1>7, <1>8 DEF Inv, Types, Same, PidSet
<1>11. p \in 1 .. Len(disk') - 1
  BY <1>4, <1>3, <1>7, <1>8
<1>12. b \in [1 .. z -> 1 .. Len(disk') - 1] /\ b[1] = p
  BY <1>11
<1>13. Linked(disk', z, b)
  BY <1>8, <1>12 DEF Linked
<1>14. /\ Contents(disk', z, b) \in [1 .. z -> Leaf]
       /\ \A i \in 1 .. z : Contents(disk', z, b)[i] = << >>
  <2>1. Contents(disk', z, b) = [i \in 1 .. z |-> << >>]
    BY <1>8 DEF Contents
  <2>2. << >> \in Leaf
    <3>1. << >> \in Seq(Input) /\ Len(<< >>) = 0
      BY EmptySeq
    <3>2. QED
      BY <3>1, FanoutAssumption DEF Leaf
  <2>3. QED
    BY <2>1, <2>2
<1> HIDE DEF z, b
<1>15. Ordered(z, Contents(disk', z, b)) /\ \A f : ~Holds(z, Contents(disk', z, b), f)
  <2>1. Len(<< >>) = 0 /\ 1 .. 0 = {}
    OBVIOUS
  <2>2. QED
    BY <1>14, <2>1 DEF Ordered, Holds, z
<1>16. Visible' = {}
  <2>1. \A f \in Visible : Holds(n, Contents(disk, n, c), f)
    BY <1>2, <1>3, ShapeComplete DEF Complete
  <2>2. Visible = {}
    BY <1>9, <2>1 DEF Holds
  <2>3. QED
    BY <1>5, <2>2 DEF Visible
<1>17. Grows(disk', rootPid', treeHeight', z, b, 0)
  BY <1>5, <1>12 DEF Grows, Rooted, z
<1>18. Writing(z, b, 0)'
  BY <1>5, <1>7, <1>8, <1>9, <1>17 DEF Writing
<1>19. Shape(z, b, 0)'
  BY <1>5, <1>8, <1>9, <1>13, <1>15, <1>16, <1>18 DEF Shape
<1>20. z \in Nat
  BY DEF z
<1>21. QED
  BY <1>8, <1>10, <1>12, <1>19, <1>20 DEF Inv

LEMMA InsertInv ==
  ASSUME Inv, Plain, NEW e \in Input, insert(e)
  PROVE  Inv'
<1>1. PICK n \in Nat : \E c \in [1 .. n -> 1 .. Len(disk) - 1], x \in {0} \cup 2 .. n : Shape(n, c, x)
  BY DEF Inv
<1>2. PICK c \in [1 .. n -> 1 .. Len(disk) - 1], x \in {0} \cup 2 .. n : Shape(n, c, x)
  BY <1>1
<1>3. /\ mode = "w" /\ pc = "idle" /\ e \notin entries /\ rootPid # -1
      /\ pc' = "descend" /\ ins' = e
      /\ UNCHANGED <<disk, mode, rootPid, treeHeight, entries, crashed>>
  BY DEF insert, MayInsert, objVars, histVars
<1>4. Saved' = Saved /\ SavedId' = SavedId /\ TreeSaved' = TreeSaved
  BY <1>3, SavedSame
<1>5. Visible' = Visible
  BY <1>3 DEF Visible
<1>6. Types'
  BY <1>3 DEF Inv, Types
<1>7. Writing(n, c, x) /\ ~crashed
  BY <1>2, <1>3 DEF Shape
<1>8. Writing(n, c, x)'
  BY <1>3, <1>4, <1>7 DEF Writing
<1>9. Shape(n, c, x)'
  BY <1>2, <1>3, <1>4, <1>5, <1>7, <1>8 DEF Shape
<1>10. QED
  BY <1>3, <1>6, <1>9 DEF Inv

\* With no leaf missing the keys of the inner node go up.
LEMMA InnerSorted ==
  ASSUME disk \in Seq(Pages), NEW n \in Nat, NEW c, NEW root,
         Inner(disk, root, n, c, 0), Ordered(n, Contents(disk, n, c)), Plain,
         NEW j \in 1 .. Len(Cell(disk, root)), NEW l \in 1 .. Len(Cell(disk, root)), j < l
  PROVE  Cell(disk, root)[j].key < Cell(disk, root)[l].key
<1> DEFINE S == Contents(disk, n, c)
           m == Cell(disk, root)
<1>1. /\ n = Len(m) + 1 /\ Len(m) \in Nat /\ root \in 0 .. Len(disk) - 1
      /\ Divides(n, S, j + 1, m[j].key) /\ Divides(n, S, l + 1, m[l].key)
  BY FanoutAssumption DEF Inner, PlaceUnder
<1>2. m[j].key \in Int /\ m[l].key \in Int
  <2>1. m \in Nodes
    BY <1>1, ReadPage
  <2> HIDE DEF m
  <2>2. QED
    BY <2>1, NodeKeys DEF m
<1>3. j + 1 \in 1 .. n /\ S[j + 1] \in Leaf /\ S[j + 1] # << >>
  <2>1. j + 1 \in 1 .. n /\ n > 1
    BY <1>1
  <2>2. QED
    BY <2>1 DEF Ordered
<1> HIDE DEF S
<1>4. 1 \in 1 .. Len(S[j + 1]) /\ S[j + 1][1].key \in Int
  <2>1. S[j + 1] \in Seq(Input) /\ Len(S[j + 1]) \in Nat
    BY <1>3, LeafNodes
  <2>2. Len(S[j + 1]) # 0
    BY <1>3, <2>1, EmptySeq
  <2>3. 1 \in 1 .. Len(S[j + 1])
    BY <2>1, <2>2
  <2>4. QED
    BY <1>3, <2>3, LeafNodes
<1>5. m[j].key <= S[j + 1][1].key
  <2>1. ~(j + 1 < j + 1)
    BY <1>1
  <2>2. QED
    BY <1>1, <1>3, <1>4, <2>1 DEF Divides
<1>6. S[j + 1][1].key < m[l].key
  <2>1. j + 1 < l + 1
    BY <1>1
  <2>2. QED
    BY <1>1, <1>3, <1>4, <2>1 DEF Divides
<1>7. QED
  BY <1>2, <1>4, <1>5, <1>6

\* The way down to the place for key k, in a tree that misses no leaf
WayTo(n, c, root, height, k) ==
  LET pid == RouteFrom(root, height, k)
  IN /\ pid[0] = root
     /\ \E i \in 1 .. n : pid[height] = c[i] /\ Fits(disk, root, height, n, c, i, k)

LEMMA RouteFits ==
  ASSUME disk \in Seq(Pages), NEW n \in Nat, NEW c, NEW root, NEW height \in Nat,
         Grows(disk, root, height, n, c, 0), Ordered(n, Contents(disk, n, c)), Plain,
         NEW k \in Int
  PROVE  WayTo(n, c, root, height, k)
<1> DEFINE S == Contents(disk, n, c)
           pid == RouteFrom(root, height, k)
<1>1. CASE height = 0
  <2>1. pid[0] = root /\ n = 1 /\ root = c[1]
    BY <1>1, RouteZero DEF Grows, Rooted
  <2>2. 1 \in 1 .. n /\ \A h \in 1 .. n : ~(h < 1) /\ ~(h > 1)
    BY <2>1
  <2>3. Fits(disk, root, height, n, c, 1, k)
    BY <1>1, <2>2 DEF Fits
  <2>4. QED
    BY <1>1, <2>1, <2>2, <2>3 DEF WayTo
<1>2. CASE height = 1
  <2> DEFINE m == Cell(disk, root)
  <2>1. Inner(disk, root, n, c, 0)
    BY <1>2 DEF Grows, Rooted
  <2>2. InnerSays(root, c, 0, k)
    BY <2>1, InnerLeads
  <2>3. PICK j \in 0 .. Len(m) :
          /\ \A l \in 1 .. j : m[l].key <= k
          /\ j < Len(m) => k < m[j + 1].key
          /\ j = 0 => Down(root, k) = c[1]
          /\ j # 0 => Down(root, k) = c[PlaceUnder(0, j)]
    BY <2>2 DEF InnerSays
  <2>4. /\ n = Len(m) + 1 /\ Len(m) \in Nat /\ root \in 0 .. Len(disk) - 1
        /\ \A l \in 1 .. Len(m) : Divides(n, S, l + 1, m[l].key)
    BY <2>1, FanoutAssumption DEF Inner, PlaceUnder
  <2>5. \A l \in 1 .. Len(m) : m[l].key \in Int
    <3>1. m \in Nodes
      BY <2>4, ReadPage
    <3> HIDE DEF m
    <3>2. QED
      BY <3>1, NodeKeys
  <2>6. ASSUME NEW l \in 1 .. Len(m), j + 1 <= l
        PROVE  k < m[l].key
    <3>1. j + 1 \in 1 .. Len(m) /\ k < m[j + 1].key
      BY <2>3, <2>4, <2>6
    <3>2. CASE l = j + 1
      BY <3>1, <3>2
    <3>3. CASE j + 1 < l
      <4>1. m[j + 1].key < m[l].key
        BY <2>1, <3>1, <3>3, InnerSorted
      <4>2. m[j + 1].key \in Int /\ m[l].key \in Int
        BY <2>5, <3>1
      <4>3. QED
        BY <3>1, <4>1, <4>2
    <3>4. QED
      BY <2>4, <2>6, <3>2, <3>3
  <2>7. pid[0] = root /\ pid[height] = Down(root, k)
    <3>1. RouteFrom(root, height, k)[0] = root /\ RouteFrom(root, height, k)[1] = Down(root, k)
      BY <1>2, RouteOne
    <3>2. QED
      BY <1>2, <3>1
  <2>8. pid[height] = c[j + 1] /\ j + 1 \in 1 .. n
    <3>1. PlaceUnder(0, j) = j + 1
      BY DEF PlaceUnder
    <3>2. QED
      BY <2>3, <2>4, <2>7, <3>1
  <2> HIDE DEF m, pid
  <2>9. ASSUME NEW h \in 1 .. n, NEW a \in 1 .. Len(S[h])
        PROVE  (h < j + 1 => S[h][a].key < k) /\ (h > j + 1 => k < S[h][a].key)
    <3>1. S[h][a].key \in Int
      <4> HIDE DEF S
      <4>1. Ordered(n, S)
        BY DEF S
      <4>2. QED
        BY <4>1, PlacesOrdered
    <3>2. ASSUME h < j + 1
          PROVE  S[h][a].key < k
      <4>1. j \in 1 .. Len(m) /\ j \in 1 .. j
        BY <3>2
      <4>2. m[j].key <= k /\ m[j].key \in Int /\ S[h][a].key < m[j].key
        BY <2>3, <2>4, <2>5, <3>2, <4>1 DEF Divides
      <4>3. QED
        BY <3>1, <4>2
    <3>3. ASSUME h > j + 1
          PROVE  k < S[h][a].key
      <4>1. j + 1 \in 1 .. Len(m) /\ ~(h < (j + 1) + 1)
        BY <2>4, <3>3
      <4>2. k < m[j + 1].key /\ m[j + 1].key \in Int /\ m[j + 1].key <= S[h][a].key
        BY <2>3, <2>4, <2>5, <4>1 DEF Divides
      <4>3. QED
        BY <3>1, <4>2
    <3>4. QED
      BY <3>2, <3>3
  <2>10. ASSUME NEW l \in 1 .. Len(m)
         PROVE  IF l < j + 1 THEN m[l].key <= k ELSE k < m[l].key
    BY <2>3, <2>4, <2>6
  <2>11. Fits(disk, root, height, n, c, j + 1, k)
    BY <2>8, <2>9, <2>10 DEF Fits, m
  <2>12. QED
    BY <2>7, <2>8, <2>11 DEF WayTo, pid
<1>3. QED
  BY <1>1, <1>2 DEF Grows, Rooted

\* One element behind a sequence
LEMMA LastAppended ==
  ASSUME NEW s, NEW T, s \in Seq(T), NEW e
  PROVE  /\ Len(Append(s, e)) = Len(s) + 1 /\ Append(s, e)[Len(s) + 1] = e
         /\ \A i \in 1 .. Len(s) : Append(s, e)[i] = s[i]
         /\ Front(Append(s, e)) = s
<1> DEFINE U == T \cup {e}
           a == Append(s, e)
<1>1. s \in Seq(U) /\ e \in U
  BY SeqMonotonic
<1>2. a \in Seq(U) /\ Len(a) = Len(s) + 1 /\ a[Len(s) + 1] = e /\ \A i \in 1 .. Len(s) : a[i] = s[i]
  <2> HIDE DEF U
  <2>1. QED
    BY <1>1, AppendProperties
<1>3. Front(a) = s
  <2>1. Len(s) \in Nat /\ Len(a) - 1 = Len(s)
    BY <1>1, <1>2, LenProperties
  <2>2. Front(a) = SubSeq(a, 1, Len(s))
    BY <2>1 DEF Front
  <2>3. \A i \in 1 .. Len(s) : a[i] \in U
    BY <1>1, <1>2, ElementOfSeq
  <2> HIDE DEF a, U
  <2>4. 1 \in Nat /\ 1 \in 1 .. Len(s) + 1 /\ Len(s) + 1 - 1 = Len(s)
    BY <2>1
  <2>5. SubSeq(a, 1, Len(s)) \in Seq(U) /\ Len(SubSeq(a, 1, Len(s))) = Len(s)
        /\ \A i \in 1 .. Len(s) : SubSeq(a, 1, Len(s))[i] = s[i]
    BY <1>2, <2>1, <2>3, <2>4, SubSeqProperties
  <2>6. QED
    BY <1>1, <2>2, <2>5, SeqEqual DEF a
<1>4. QED
  BY <1>2, <1>3

LEMMA AboveIs ==
  ASSUME treeHeight \in {0, 1}, NEW T, treeHeight = 1 => Step(rootPid) \in T
  PROVE  /\ Above0 \in Seq(T) /\ Len(Above0) = treeHeight
         /\ treeHeight = 1 => Above0[1] = Step(rootPid)
<1>1. CASE treeHeight = 0
  <2>1. Above0 = << >>
    BY <1>1 DEF Above0
  <2>2. QED
    BY <1>1, <2>1, EmptySeq
<1>2. CASE treeHeight = 1
  <2>1. Above0 = <<Step(rootPid)>>
    BY <1>2 DEF Above0
  <2> DEFINE e == Step(rootPid)
  <2>2. e \in T
    BY <1>2
  <2> HIDE DEF e
  <2>3. <<e>> \in Seq(T) /\ Len(<<e>>) = 1 /\ <<e>>[1] = e
    BY <2>2
  <2>4. QED
    BY <1>2, <2>1, <2>3 DEF e
<1>3. QED
  BY <1>1, <1>2

\* A stack is the root when it is an inner node, and then the leaf.
LEMMA StackIs ==
  ASSUME treeHeight \in {0, 1}, NEW e, NEW s, s = Append(Above0, e)
  PROVE  Len(s) = treeHeight + 1 /\ s[Len(s)] = e /\ Front(s) = Above0
<1>1. Above0 \in Seq({Step(rootPid)}) /\ Len(Above0) = treeHeight
  BY AboveIs
<1>2. QED
  BY <1>1, LastAppended

LEMMA DescendInv ==
  ASSUME Inv, Plain, descend
  PROVE  Inv'
<1>1. PICK n \in Nat : \E c \in [1 .. n -> 1 .. Len(disk) - 1], x \in {0} \cup 2 .. n : Shape(n, c, x)
  BY DEF Inv
<1>2. PICK c \in [1 .. n -> 1 .. Len(disk) - 1], x \in {0} \cup 2 .. n : Shape(n, c, x)
  BY <1>1
<1>3. Types /\ disk \in Seq(Pages) /\ Len(disk) \in Nat /\ treeHeight \in Nat
  BY LenProperties DEF Inv, Types
<1> DEFINE pid == RouteFrom(rootPid, treeHeight, ins.key)
           T == [pid : Int, m : Nodes, last : PidSet]
<1>4. /\ pc = "descend" /\ pc' = "leaf" /\ ins' = ins
      /\ stack' = [i \in 1 .. treeHeight + 1 |->
                     [pid |-> pid[i - 1], m |-> NodeAt(pid[i - 1]), last |-> LastAt(pid[i - 1])]]
      /\ UNCHANGED <<disk, mode, rootPid, treeHeight, entries, crashed>>
  BY DEF descend, Route, objVars, histVars
<1>5. mode = "w" /\ Writing(n, c, x) /\ ~crashed
  BY <1>2, <1>3, <1>4 DEF Shape, Types
<1>6. /\ rootPid # -1 /\ x = 0 /\ Grows(disk, rootPid, treeHeight, n, c, 0)
      /\ ins \in Input /\ ins \notin entries
  BY <1>4, <1>5 DEF Writing
<1>7. WayTo(n, c, rootPid, treeHeight, ins.key)
  <2>1. ins.key \in Int
    BY <1>6, InputEntries
  <2>2. Ordered(n, Contents(disk, n, c))
    BY <1>2 DEF Shape
  <2>3. QED
    BY <1>3, <1>6, <2>1, <2>2, RouteFits
<1>8. PICK i \in 1 .. n : pid[treeHeight] = c[i] /\ Fits(disk, rootPid, treeHeight, n, c, i, ins.key)
  BY <1>7 DEF WayTo
<1>9. pid[0] = rootPid
  BY <1>7 DEF WayTo
<1> HIDE DEF pid
<1>10. c[i] \in 0 .. Len(disk) - 1
  BY <1>2, <1>3, LeafPage DEF Shape
<1>11. treeHeight \in {0, 1} /\ (treeHeight = 1 => rootPid \in 0 .. Len(disk) - 1)
  BY <1>3, <1>6 DEF Grows, Rooted, Inner
<1>12. ASSUME NEW p \in 0 .. Len(disk) - 1
       PROVE  Step(p) = [pid |-> p, m |-> NodeAt(p), last |-> LastAt(p)] /\ Step(p) \in T
  <2>1. /\ NodeAt(p) = Cell(disk, p) /\ LastAt(p) = Link(disk, p)
        /\ Cell(disk, p) \in Nodes /\ Link(disk, p) \in PidSet
    BY <1>3, ReadPage
  <2>2. p \in Int
    BY <1>3
  <2>3. QED
    BY <2>1, <2>2 DEF Step
<1>13. stack' = Append(Above0, Step(c[i]))
  <2>1. /\ Append(Above0, Step(c[i])) \in Seq(T)
        /\ Len(Append(Above0, Step(c[i]))) = treeHeight + 1
        /\ Append(Above0, Step(c[i]))[treeHeight + 1] = Step(c[i])
        /\ treeHeight = 1 => Append(Above0, Step(c[i]))[1] = Step(rootPid)
    <3>1. Above0 \in Seq(T) /\ Len(Above0) = treeHeight /\ (treeHeight = 1 => Above0[1] = Step(rootPid))
      <4>1. treeHeight = 1 => Step(rootPid) \in T
        BY <1>11, <1>12
      <4> HIDE DEF T
      <4>2. QED
        BY <1>11, <4>1, AboveIs
    <3>2. Step(c[i]) \in T
      BY <1>10, <1>12
    <3> HIDE DEF T
    <3>3. QED
      BY <1>3, <3>1, <3>2, AppendProperties
  <2>2. /\ DOMAIN stack' = 1 .. treeHeight + 1 /\ treeHeight + 1 \in Nat
        /\ stack'[treeHeight + 1] = Step(c[i])
        /\ treeHeight = 1 => stack'[1] = Step(rootPid)
    <3>1. treeHeight + 1 \in 1 .. treeHeight + 1 /\ 1 \in 1 .. treeHeight + 1 /\ 1 - 1 = 0
          /\ (treeHeight + 1) - 1 = treeHeight
      BY <1>3
    <3>2. QED
      BY <1>3, <1>4, <1>8, <1>9, <1>10, <1>11, <1>12, <3>1
  <2>3. stack' \in Seq(T) /\ Len(stack') = treeHeight + 1
    <3>1. \A l \in 1 .. treeHeight + 1 : stack'[l] \in T
      <4>1. \A l \in 1 .. treeHeight + 1 : l = treeHeight + 1 \/ (treeHeight = 1 /\ l = 1)
        <5>1. TAKE l \in 1 .. treeHeight + 1
        <5>2. treeHeight = 0 \/ treeHeight = 1
          BY <1>11
        <5>3. QED
          BY <5>2
      <4>2. Step(c[i]) \in T /\ (treeHeight = 1 => Step(rootPid) \in T)
        BY <1>10, <1>11, <1>12
      <4> HIDE DEF T
      <4>3. QED
        BY <2>2, <4>1, <4>2
    <3> HIDE DEF T
    <3>2. stack' \in [1 .. treeHeight + 1 -> T]
      BY <1>4, <3>1
    <3>3. QED
      BY <2>2, <3>2, IsSeqOf
  <2>4. \A l \in 1 .. treeHeight + 1 : stack'[l] = Append(Above0, Step(c[i]))[l]
    <3>1. TAKE l \in 1 .. treeHeight + 1
    <3>2. l = treeHeight + 1 \/ (treeHeight = 1 /\ l = 1)
      <4>1. treeHeight = 0 \/ treeHeight = 1
        BY <1>11
      <4>2. QED
        BY <4>1
    <3>3. QED
      BY <2>1, <2>2, <3>2
  <2> HIDE DEF T
  <2>5. QED
    BY <2>1, <2>3, <2>4, SeqEqual
<1>14. Step(c[i])' = Step(c[i]) /\ Above0' = Above0
  BY <1>4 DEF Step, Above0
<1>15. Saved' = Saved /\ SavedId' = SavedId /\ TreeSaved' = TreeSaved
  BY <1>4, SavedSame
<1>16. Visible' = Visible
  BY <1>4 DEF Visible
<1>17. Types'
  BY <1>4 DEF Inv, Types
<1>18. Writing(n, c, x)'
  BY <1>4, <1>5, <1>6, <1>8, <1>13, <1>14, <1>15 DEF Writing
<1>19. Shape(n, c, x)'
  BY <1>2, <1>4, <1>5, <1>15, <1>16, <1>18 DEF Shape
<1>20. QED
  BY <1>4, <1>17, <1>19 DEF Inv

\* The nodes on the way are read, and have an entry.
LEMMA WayRead ==
  ASSUME Inv, Plain, pc = "descend"
  PROVE  ~descend_fails /\ ~leaf_unread
<1>1. PICK n \in Nat : \E c \in [1 .. n -> 1 .. Len(disk) - 1], x \in {0} \cup 2 .. n : Shape(n, c, x)
  BY DEF Inv
<1>2. PICK c \in [1 .. n -> 1 .. Len(disk) - 1], x \in {0} \cup 2 .. n : Shape(n, c, x)
  BY <1>1
<1>3. Types /\ disk \in Seq(Pages) /\ Len(disk) \in Nat /\ treeHeight \in Nat
  BY LenProperties DEF Inv, Types
<1> DEFINE pid == RouteFrom(rootPid, treeHeight, ins.key)
<1>4. mode = "w" /\ Writing(n, c, x)
  BY <1>2, <1>3 DEF Shape, Types
<1>5. x = 0 /\ Grows(disk, rootPid, treeHeight, n, c, 0) /\ ins \in Input
  BY <1>4 DEF Writing
<1>6. WayTo(n, c, rootPid, treeHeight, ins.key)
  <2>1. ins.key \in Int
    BY <1>5, InputEntries
  <2>2. Ordered(n, Contents(disk, n, c))
    BY <1>2 DEF Shape
  <2>3. QED
    BY <1>3, <1>5, <2>1, <2>2, RouteFits
<1>7. pid[0] = rootPid /\ \E i \in 1 .. n : pid[treeHeight] = c[i]
  BY <1>6 DEF WayTo
<1> HIDE DEF pid
<1>8. ~descend_fails
  <2>1. ASSUME NEW h \in 0 .. treeHeight - 1, NEW rc \in DescentCodes(pid[h])
        PROVE  FALSE
    <3>1. h = 0 /\ treeHeight = 1
      BY <1>3, <1>5, <2>1 DEF Grows, Rooted
    <3>2. /\ rootPid \in 0 .. Len(disk) - 1 /\ Len(Cell(disk, rootPid)) # 0
      BY <1>3, <1>5, <3>1, FanoutAssumption DEF Grows, Rooted, Inner
    <3>3. InFile(rootPid) /\ NodeAt(rootPid) # << >>
      BY <1>3, <3>2, ReadPage, EmptySeq
    <3>4. DescentCodes(pid[h]) = {}
      BY <1>7, <3>1, <3>3 DEF DescentCodes, Plain
    <3>5. QED
      BY <2>1, <3>4
  <2>2. QED
    BY <2>1 DEF descend_fails, Route, pid
<1>9. ~leaf_unread
  <2>1. PICK i \in 1 .. n : pid[treeHeight] = c[i]
    BY <1>7
  <2>2. c[i] \in 0 .. Len(disk) - 1
    BY <1>2, <1>3, LeafPage DEF Shape
  <2>3. InFile(pid[treeHeight])
    BY <1>3, <2>1, <2>2, ReadPage
  <2>4. QED
    BY <2>3 DEF leaf_unread, Route, pid, Plain
<1>10. QED
  BY <1>8, <1>9

-----------------------------------------------------------------------------
(* A leaf whose keys go up, and one entry more *)

Rising(m)    == \A a, b \in 1 .. Len(m) : a < b => m[a].key < m[b].key
InLeaf(m, f) == \E a \in 1 .. Len(m) : m[a] = f

LEMMA InputKeys ==
  Input \subseteq [key : Key, val : RecordIds] /\ \A f \in Input : f.key \in Int
BY KeyAssumption DEF RecordIds

\* An entry is there once when it has one place.
LEMMA Once ==
  ASSUME NEW T, NEW m \in Seq(T), NEW x
  PROVE  /\ (\A a, b \in 1 .. Len(m) : m[a] = x /\ m[b] = x => a = b) <=> Count(m, x) <= 1
         /\ InLeaf(m, x) <=> Count(m, x) # 0
<1>1. Len(m) \in Nat /\ DOMAIN m = 1 .. Len(m)
  BY LenProperties
<1>2. At(m, x) = { a \in 1 .. Len(m) : m[a] = x }
  BY <1>1 DEF At
<1>3. IsFiniteSet(At(m, x)) /\ Count(m, x) \in Nat /\ Count(m, x) = Cardinality(At(m, x))
  BY Places DEF Count
<1>4. Count(m, x) = 0 <=> At(m, x) = {}
  BY <1>3, FS_EmptySet
<1>5. Count(m, x) = 1 <=> \E a : At(m, x) = {a}
  BY <1>3, FS_Singleton
<1>6. ASSUME \A a, b \in 1 .. Len(m) : m[a] = x /\ m[b] = x => a = b
      PROVE  Count(m, x) <= 1
  <2>1. CASE At(m, x) = {}
    BY <1>4, <2>1
  <2>2. CASE At(m, x) # {}
    <3>1. PICK a \in 1 .. Len(m) : m[a] = x
      BY <1>2, <2>2
    <3>2. At(m, x) = {a}
      BY <1>2, <1>6, <3>1
    <3>3. Count(m, x) = 1
      BY <1>5, <3>2
    <3>4. QED
      BY <3>3
  <2>3. QED
    BY <2>1, <2>2
<1>7. ASSUME Count(m, x) <= 1, NEW a \in 1 .. Len(m), NEW b \in 1 .. Len(m), m[a] = x, m[b] = x
      PROVE  a = b
  <2>1. a \in At(m, x) /\ b \in At(m, x)
    BY <1>2, <1>7
  <2>2. Count(m, x) = 1
    BY <1>3, <1>4, <1>7, <2>1
  <2>3. QED
    BY <1>5, <2>1, <2>2
<1>8. InLeaf(m, x) <=> Count(m, x) # 0
  BY <1>2, <1>4 DEF InLeaf
<1>9. QED
  BY <1>6, <1>7, <1>8

\* When no key comes twice, a leaf in order with no entry twice has keys that
\* go up, and the other way round.
LEMMA RisingIs ==
  ASSUME Plain, NEW m \in Seq(Input), InOrder(m), \A x : Count(m, x) <= 1
  PROVE  Rising(m)
<1>1. Len(m) \in Nat /\ DOMAIN m = 1 .. Len(m) /\ \A a \in 1 .. Len(m) : m[a] \in Input
  BY LenProperties, ElementOfSeq
<1>2. ASSUME NEW a \in 1 .. Len(m), NEW b \in 1 .. Len(m), a < b
      PROVE  m[a].key < m[b].key
  <2>1. m[a].key <= m[b].key
    BY <1>1, <1>2 DEF InOrder
  <2>2. m[a].key \in Int /\ m[b].key \in Int /\ m[a] \in Input /\ m[b] \in Input
    BY <1>1, InputKeys
  <2>3. m[a].key # m[b].key
    <3>1. ASSUME m[a].key = m[b].key
          PROVE  FALSE
      <4>1. m[a] = m[b]
        BY <2>2, <3>1 DEF Plain
      <4>2. Count(m, m[a]) <= 1
        OBVIOUS
      <4>3. a = b
        BY <4>1, <4>2, Once
      <4>4. QED
        BY <1>2, <4>3
    <3>2. QED
      BY <3>1
  <2>4. QED
    BY <2>1, <2>2, <2>3
<1>3. QED
  BY <1>2 DEF Rising

LEMMA RisingOnce ==
  ASSUME NEW m \in Seq(Input), Rising(m)
  PROVE  InOrder(m) /\ \A x : Count(m, x) <= 1
<1>1. Len(m) \in Nat /\ DOMAIN m = 1 .. Len(m) /\ \A a \in 1 .. Len(m) : m[a] \in Input
  BY LenProperties, ElementOfSeq
<1>2. \A a \in 1 .. Len(m) : m[a].key \in Int
  BY <1>1, InputKeys
<1>3. InOrder(m)
  <2>1. ASSUME NEW a \in 1 .. Len(m), NEW b \in 1 .. Len(m), a < b
        PROVE  m[a].key <= m[b].key
    <3>1. m[a].key < m[b].key
      BY <2>1 DEF Rising
    <3>2. QED
      BY <1>2, <3>1
  <2>2. QED
    BY <1>1, <2>1 DEF InOrder
<1>4. ASSUME NEW x
      PROVE  Count(m, x) <= 1
  <2>1. ASSUME NEW a \in 1 .. Len(m), NEW b \in 1 .. Len(m), m[a] = x, m[b] = x
        PROVE  a = b
    <3>1. ~(a < b) /\ ~(b < a)
      <4>1. ~(x.key < x.key)
        BY <1>2, <2>1
      <4>2. QED
        BY <2>1, <4>1 DEF Rising
    <3>2. QED
      BY <1>1, <3>1
  <2>2. QED
    BY <2>1, Once
<1>5. QED
  BY <1>3, <1>4

\* A new entry is put in its place.
LEMMA LeafPlacedRises ==
  ASSUME Plain, NEW m \in Seq(Input), Rising(m), NEW e \in Input, ~InLeaf(m, e)
  PROVE  LET p == LeafPlaced(m, e)
         IN /\ p \in Seq(Input) /\ Len(p) = Len(m) + 1 /\ Rising(p)
            /\ \A f : InLeaf(p, f) <=> InLeaf(m, f) \/ f = e
<1> DEFINE p  == LeafPlaced(m, e)
           at == Locate(m, e.key)
<1>1. \A x \in Input : x.key \in Int
  BY InputKeys
<1>2. InOrder(m) /\ \A x : Count(m, x) <= 1
  BY RisingOnce
<1>3. p \in Seq(Input) /\ InOrder(p) /\ Len(p) = Len(m) + 1
  BY <1>1, <1>2, LeafPlacedSorted
<1>4. at \in 0 .. Len(m) /\ p = Placed(m, at, e)
  BY LocateIn DEF LeafPlaced
<1> HIDE DEF p, at
<1>5. \A x : Count(p, x) = Count(m, x) + (IF x = e THEN 1 ELSE 0)
  BY <1>4, CountPlaced
<1>6. Count(m, e) = 0 /\ \A x : Count(m, x) \in Nat
  BY Once, Places
<1>7. \A x : Count(p, x) <= 1
  <2>1. TAKE x
  <2>2. CASE x = e
    BY <1>5, <1>6, <2>2
  <2>3. CASE x # e
    BY <1>2, <1>5, <1>6, <2>3
  <2>4. QED
    BY <2>2, <2>3
<1>8. Rising(p)
  BY <1>3, <1>7, RisingIs
<1>9. \A f : InLeaf(p, f) <=> InLeaf(m, f) \/ f = e
  <2>1. TAKE f
  <2>2. /\ InLeaf(p, f) <=> Count(p, f) # 0
        /\ InLeaf(m, f) <=> Count(m, f) # 0
    BY <1>3, Once
  <2>3. Count(p, f) # 0 <=> Count(m, f) # 0 \/ f = e
    BY <1>5, <1>6
  <2>4. QED
    BY <2>2, <2>3
<1>10. QED
  BY <1>3, <1>8, <1>9 DEF p

\* A full leaf is divided: the right half is the left half's successor, and
\* together they have the old entries and the new one.
Halves(m, e, left, right) ==
  /\ left \in Leaf /\ right \in Leaf /\ left # << >> /\ right # << >>
  /\ Rising(left) /\ Rising(right)
  /\ \A a \in 1 .. Len(left), b \in 1 .. Len(right) : left[a].key < right[b].key
  /\ \A f : InLeaf(left, f) \/ InLeaf(right, f) <=> InLeaf(m, f) \/ f = e

LEMMA LeafSplitHalves ==
  ASSUME Plain, NEW m \in Seq(Input), LeafFull(m), Rising(m), NEW e \in Input, ~InLeaf(m, e)
  PROVE  LET s == LeafSplit(m, e)
         IN Halves(m, e, s.left, s.right) /\ s.key = s.right[1].key
<1> DEFINE all   == LeafPlaced(m, e)
           mid   == LeafMid(Len(all))
           left  == SubSeq(all, 1, mid)
           tail  == SubSeq(all, mid + 1, Len(all))
           right == FoldLeft(LeafInsert, << >>, Reverse(tail))
           s     == LeafSplit(m, e)
<1>1. s.left = left /\ s.right = right /\ s.key = right[1].key
  BY DEF LeafSplit
<1>2. /\ all \in Seq(Input) /\ Len(all) = LEAF_MAX + 1 /\ Rising(all)
      /\ \A f : InLeaf(all, f) <=> InLeaf(m, f) \/ f = e
  BY LeafPlacedRises DEF LeafFull
<1>3. /\ mid \in 0 .. Len(all) /\ mid \in 1 .. LEAF_MAX
      /\ Len(all) - mid \in 1 .. LEAF_MAX /\ Len(all) \in Nat /\ LEAF_MAX \in Nat
  BY <1>2, FanoutAssumption DEF LeafMid
<1> HIDE DEF all, mid, s
<1>4. left \in Seq(Input) /\ Len(left) = mid /\ \A i \in 1 .. mid : left[i] = all[i]
  BY <1>2, <1>3, FrontPart
<1>5. /\ tail \in Seq(Input) /\ Len(tail) = Len(all) - mid
      /\ \A i \in 1 .. Len(all) - mid : tail[i] = all[mid + i]
  BY <1>2, <1>3, TailPart
<1>6. \A x \in Input : x.key \in Int
  BY InputKeys
<1> HIDE DEF left
<1>7. /\ right \in Seq(Input) /\ Len(right) = Len(tail) /\ InOrder(right)
      /\ \A x : Count(right, x) = Count(tail, x)
  <2>1. Len(tail) <= LEAF_MAX
    BY <1>3, <1>5
  <2> HIDE DEF tail
  <2>2. QED
    BY <1>5, <1>6, <2>1, LeafSibling
<1>8. \A b \in 1 .. Len(right) : \E i \in mid + 1 .. Len(all) : right[b] = all[i]
  <2>1. \A x : Count(right, x) = Count(SubSeq(all, mid + 1, Len(all)), x)
    BY <1>7
  <2> HIDE DEF right, tail
  <2>2. mid \in 0 .. Len(all) /\ all \in Seq(Input) /\ right \in Seq(Input)
    BY <1>2, <1>3, <1>7
  <2>3. QED
    BY <2>1, <2>2, Behind
<1> HIDE DEF right, tail
<1>9. Rising(left)
  <2>1. \A a \in 1 .. mid : a \in 1 .. Len(all)
    BY <1>3
  <2>2. QED
    BY <1>2, <1>4, <2>1 DEF Rising
<1>10. Rising(right)
  <2>1. Rising(tail)
    <3>1. \A a \in 1 .. Len(all) - mid : mid + a \in 1 .. Len(all)
      BY <1>3
    <3>2. \A a, b \in 1 .. Len(all) - mid : a < b => mid + a < mid + b
      BY <1>3
    <3>3. QED
      BY <1>2, <1>5, <3>1, <3>2 DEF Rising
  <2>2. \A x : Count(right, x) <= 1
    BY <1>5, <1>7, <2>1, RisingOnce
  <2>3. QED
    BY <1>7, <2>2, RisingIs
<1>11. ASSUME NEW a \in 1 .. Len(left), NEW b \in 1 .. Len(right)
       PROVE  left[a].key < right[b].key
  <2>1. PICK i \in mid + 1 .. Len(all) : right[b] = all[i]
    BY <1>8
  <2>2. left[a] = all[a] /\ a \in 1 .. Len(all) /\ i \in 1 .. Len(all) /\ a < i
    BY <1>3, <1>4
  <2>3. QED
    BY <1>2, <2>1, <2>2 DEF Rising
<1>12. ASSUME NEW f
       PROVE  InLeaf(left, f) \/ InLeaf(right, f) <=> InLeaf(all, f)
  <2>1. InLeaf(right, f) <=> InLeaf(tail, f)
    BY <1>5, <1>7, Once
  <2>2. ASSUME InLeaf(left, f)
        PROVE  InLeaf(all, f)
    <3>1. PICK a \in 1 .. Len(left) : left[a] = f
      BY <2>2 DEF InLeaf
    <3>2. a \in 1 .. Len(all) /\ all[a] = f
      BY <1>3, <1>4, <3>1
    <3>3. QED
      BY <3>2 DEF InLeaf
  <2>3. ASSUME InLeaf(tail, f)
        PROVE  InLeaf(all, f)
    <3>1. PICK a \in 1 .. Len(tail) : tail[a] = f
      BY <2>3 DEF InLeaf
    <3>2. mid + a \in 1 .. Len(all) /\ all[mid + a] = f
      BY <1>3, <1>5, <3>1
    <3>3. QED
      BY <3>2 DEF InLeaf
  <2>4. ASSUME InLeaf(all, f)
        PROVE  InLeaf(left, f) \/ InLeaf(tail, f)
    <3>1. PICK a \in 1 .. Len(all) : all[a] = f
      BY <2>4 DEF InLeaf
    <3>2. CASE a <= mid
      <4>1. a \in 1 .. Len(left) /\ left[a] = f
        BY <1>3, <1>4, <3>1, <3>2
      <4>2. QED
        BY <4>1 DEF InLeaf
    <3>3. CASE mid < a
      <4>1. a - mid \in 1 .. Len(all) - mid /\ mid + (a - mid) = a
        BY <1>3, <3>3
      <4>2. a - mid \in 1 .. Len(tail) /\ tail[a - mid] = f
        BY <1>5, <3>1, <4>1
      <4>3. QED
        BY <4>2 DEF InLeaf
    <3>4. QED
      BY <1>3, <3>2, <3>3
  <2>5. QED
    BY <2>1, <2>2, <2>3, <2>4
<1>13. left \in Leaf /\ right \in Leaf /\ left # << >> /\ right # << >>
  <2>1. Len(left) \in 1 .. LEAF_MAX /\ Len(right) \in 1 .. LEAF_MAX /\ Len(<< >>) = 0
    BY <1>3, <1>4, <1>5, <1>7, EmptySeq
  <2>2. QED
    BY <1>4, <1>7, <2>1 DEF Leaf
<1>14. Halves(m, e, left, right)
  BY <1>2, <1>9, <1>10, <1>11, <1>12, <1>13 DEF Halves
<1>15. QED
  BY <1>1, <1>14 DEF s

-----------------------------------------------------------------------------
(* The leaves with one entry more *)

\* Key k belongs into leaf i, or between it and its neighbours.
Around(n, S, i, k) ==
  \A h \in 1 .. n : \A a \in 1 .. Len(S[h]) :
    (h < i => S[h][a].key < k) /\ (h > i => k < S[h][a].key)

\* The leaves T hold what the leaves S do, and in the place of leaf i the entry
\* e; leaf h comes from leaf old[h].
Spreads(n, S, i, e, n2, T, old) ==
  /\ T \in [1 .. n2 -> Leaf] /\ old \in [1 .. n2 -> 1 .. n]
  /\ \A h \in 1 .. n2 : \A b \in 1 .. Len(T[h]) :
       InLeaf(S[old[h]], T[h][b]) \/ (old[h] = i /\ T[h][b] = e)
  /\ \A h, l \in 1 .. n2 : h < l => old[h] <= old[l]
  /\ \A h, l \in 1 .. n2 : \A a \in 1 .. Len(T[h]), b \in 1 .. Len(T[l]) :
       old[h] = old[l] /\ (h < l \/ (h = l /\ a < b)) => T[h][a].key < T[l][b].key

LEMMA SpreadOrdered ==
  ASSUME Plain, NEW n \in Nat, NEW S, Ordered(n, S), NEW i \in 1 .. n, NEW e \in Input,
         Around(n, S, i, e.key), NEW n2 \in Nat, NEW T, NEW old, Spreads(n, S, i, e, n2, T, old),
         n2 > 1 => \A h \in 1 .. n2 : T[h] # << >>
  PROVE  Ordered(n2, T)
<1>1. ASSUME NEW h \in 1 .. n2, NEW a \in 1 .. Len(T[h]), NEW l \in 1 .. n2, NEW b \in 1 .. Len(T[l]),
             old[h] < old[l]
      PROVE  T[h][a].key < T[l][b].key
  <2>1. /\ old[h] \in 1 .. n /\ old[l] \in 1 .. n
        /\ InLeaf(S[old[h]], T[h][a]) \/ (old[h] = i /\ T[h][a] = e)
        /\ InLeaf(S[old[l]], T[l][b]) \/ (old[l] = i /\ T[l][b] = e)
    BY DEF Spreads
  <2>2. CASE InLeaf(S[old[h]], T[h][a]) /\ InLeaf(S[old[l]], T[l][b])
    <3>1. PICK p \in 1 .. Len(S[old[h]]) : S[old[h]][p] = T[h][a]
      BY <2>2 DEF InLeaf
    <3>2. PICK q \in 1 .. Len(S[old[l]]) : S[old[l]][q] = T[l][b]
      BY <2>2 DEF InLeaf
    <3>3. S[old[h]][p].key < S[old[l]][q].key
      BY <1>1, <2>1 DEF Ordered
    <3>4. QED
      BY <3>1, <3>2, <3>3
  <2>3. CASE old[h] = i /\ T[h][a] = e /\ InLeaf(S[old[l]], T[l][b])
    <3>1. PICK q \in 1 .. Len(S[old[l]]) : S[old[l]][q] = T[l][b]
      BY <2>3 DEF InLeaf
    <3>2. old[l] > i
      BY <1>1, <2>1, <2>3
    <3>3. e.key < S[old[l]][q].key
      BY <2>1, <3>2 DEF Around
    <3>4. QED
      BY <2>3, <3>1, <3>3
  <2>4. CASE old[l] = i /\ T[l][b] = e /\ InLeaf(S[old[h]], T[h][a])
    <3>1. PICK p \in 1 .. Len(S[old[h]]) : S[old[h]][p] = T[h][a]
      BY <2>4 DEF InLeaf
    <3>2. S[old[h]][p].key < e.key
      BY <1>1, <2>1, <2>4 DEF Around
    <3>3. QED
      BY <2>4, <3>1, <3>2
  <2>5. CASE old[h] = i /\ old[l] = i
    BY <1>1, <2>1, <2>5
  <2>6. QED
    BY <2>1, <2>2, <2>3, <2>4, <2>5
<1>2. ASSUME NEW h \in 1 .. n2, NEW l \in 1 .. n2, NEW a \in 1 .. Len(T[h]), NEW b \in 1 .. Len(T[l]),
             h < l \/ (h = l /\ a < b)
      PROVE  T[h][a].key < T[l][b].key
  <2>1. CASE old[h] = old[l]
    BY <1>2, <2>1 DEF Spreads
  <2>2. CASE old[h] # old[l]
    <3>1. old[h] <= old[l] /\ old[h] \in 1 .. n /\ old[l] \in 1 .. n
      BY <1>2, <2>2 DEF Spreads
    <3>2. old[h] < old[l]
      BY <2>2, <3>1
    <3>3. QED
      BY <1>1, <3>2
  <2>3. QED
    BY <2>1, <2>2
<1>3. T \in [1 .. n2 -> Leaf]
  BY DEF Spreads
<1>4. QED
  BY <1>2, <1>3 DEF Ordered

LEMMA SpreadDivides ==
  ASSUME NEW n \in Nat, NEW S, NEW i \in 1 .. n, NEW e,
         NEW n2 \in Nat, NEW T, NEW old, Spreads(n, S, i, e, n2, T, old),
         NEW g \in Int, NEW g2 \in Int, NEW k, Divides(n, S, g, k),
         \A h \in 1 .. n2 : h < g2 <=> old[h] < g,
         i < g => e.key < k, ~(i < g) => k <= e.key
  PROVE  Divides(n2, T, g2, k)
<1>1. ASSUME NEW h \in 1 .. n2, NEW b \in 1 .. Len(T[h])
      PROVE  IF h < g2 THEN T[h][b].key < k ELSE k <= T[h][b].key
  <2>1. /\ old[h] \in 1 .. n /\ (h < g2 <=> old[h] < g)
        /\ InLeaf(S[old[h]], T[h][b]) \/ (old[h] = i /\ T[h][b] = e)
    BY DEF Spreads
  <2>2. CASE InLeaf(S[old[h]], T[h][b])
    <3>1. PICK p \in 1 .. Len(S[old[h]]) : S[old[h]][p] = T[h][b]
      BY <2>2 DEF InLeaf
    <3>2. IF old[h] < g THEN S[old[h]][p].key < k ELSE k <= S[old[h]][p].key
      BY <2>1 DEF Divides
    <3>3. QED
      BY <2>1, <3>1, <3>2
  <2>3. CASE old[h] = i /\ T[h][b] = e
    BY <2>1, <2>3
  <2>4. QED
    BY <2>1, <2>2, <2>3
<1>2. QED
  BY <1>1 DEF Divides

\* A leaf keeps its place and takes the entry.
LEMMA PutSpreads ==
  ASSUME Plain, NEW n \in Nat, NEW S, Ordered(n, S), NEW i \in 1 .. n, NEW e \in Input,
         NEW m \in Leaf, Rising(m), \A f : InLeaf(m, f) <=> InLeaf(S[i], f) \/ f = e,
         NEW T, T = [S EXCEPT ![i] = m]
  PROVE  /\ Spreads(n, S, i, e, n, T, [h \in 1 .. n |-> h])
         /\ \A f : Holds(n, T, f) <=> Holds(n, S, f) \/ f = e
<1> DEFINE old == [h \in 1 .. n |-> h]
<1>1. S \in [1 .. n -> Leaf]
  BY DEF Ordered
<1>2. T \in [1 .. n -> Leaf] /\ T[i] = m /\ \A h \in 1 .. n : h # i => T[h] = S[h]
  BY <1>1
<1>3. old \in [1 .. n -> 1 .. n] /\ \A h \in 1 .. n : old[h] = h
  OBVIOUS
<1> HIDE DEF old
<1>4. ASSUME NEW h \in 1 .. n, NEW b \in 1 .. Len(T[h])
      PROVE  InLeaf(S[old[h]], T[h][b]) \/ (old[h] = i /\ T[h][b] = e)
  <2>1. InLeaf(T[h], T[h][b])
    BY DEF InLeaf
  <2>2. QED
    BY <1>2, <1>3, <2>1
<1>5. ASSUME NEW h \in 1 .. n, NEW l \in 1 .. n, NEW a \in 1 .. Len(T[h]), NEW b \in 1 .. Len(T[l]),
             old[h] = old[l], h < l \/ (h = l /\ a < b)
      PROVE  T[h][a].key < T[l][b].key
  <2>1. h = l /\ a < b
    BY <1>3, <1>5
  <2>2. CASE h = i
    BY <1>2, <2>1, <2>2 DEF Rising
  <2>3. CASE h # i
    BY <1>2, <2>1, <2>3 DEF Ordered
  <2>4. QED
    BY <2>2, <2>3
<1>6. Spreads(n, S, i, e, n, T, old)
  <2>1. \A h, l \in 1 .. n : h < l => old[h] <= old[l]
    BY <1>3
  <2>2. QED
    BY <1>2, <1>3, <1>4, <1>5, <2>1 DEF Spreads
<1>7. ASSUME NEW f
      PROVE  Holds(n, T, f) <=> Holds(n, S, f) \/ f = e
  <2>1. Holds(n, T, f) <=> \E h \in 1 .. n : InLeaf(T[h], f)
    BY DEF Holds, InLeaf
  <2>2. Holds(n, S, f) <=> \E h \in 1 .. n : InLeaf(S[h], f)
    BY DEF Holds, InLeaf
  <2>3. QED
    BY <1>2, <2>1, <2>2
<1>8. QED
  BY <1>6, <1>7 DEF old

\* Leaf i of S in two, and the entries of T those of S and e
Parted(n, S, i, left, right, T) ==
  /\ T \in [1 .. n + 1 -> Leaf]
  /\ \A h \in 1 .. n + 1 :
       /\ h < i => T[h] = S[h]
       /\ h = i => T[h] = left
       /\ h = i + 1 => T[h] = right
       /\ h > i + 1 => T[h] = S[h - 1]
Gains(n, S, n2, T, e) == \A f : Holds(n2, T, f) <=> Holds(n, S, f) \/ f = e
OldPlaces(n, i) == [h \in 1 .. n + 1 |-> IF h <= i THEN h ELSE h - 1]

\* A leaf is replaced by its two halves.
LEMMA HalvesSpread ==
  ASSUME Plain, NEW n \in Nat, NEW S, Ordered(n, S), NEW i \in 1 .. n, NEW e \in Input,
         NEW left, NEW right, Halves(S[i], e, left, right),
         NEW T, Parted(n, S, i, left, right, T)
  PROVE  Spreads(n, S, i, e, n + 1, T, OldPlaces(n, i)) /\ Gains(n, S, n + 1, T, e)
<1> DEFINE old == OldPlaces(n, i)
<1> USE DEF Parted
<1>1. S \in [1 .. n -> Leaf]
  BY DEF Ordered
<1>2. /\ old \in [1 .. n + 1 -> 1 .. n]
      /\ \A h \in 1 .. n + 1 :
           (h <= i => old[h] = h) /\ (h > i => old[h] = h - 1) /\ old[h] \in 1 .. n
  BY DEF OldPlaces
<1> HIDE DEF old
<1>3. ASSUME NEW h \in 1 .. n + 1
      PROVE  \/ h = i /\ old[h] = i /\ T[h] = left
             \/ h = i + 1 /\ old[h] = i /\ T[h] = right
             \/ h # i /\ h # i + 1 /\ old[h] # i /\ T[h] = S[old[h]]
  <2>1. CASE h < i
    BY <1>2, <2>1
  <2>2. CASE h = i
    BY <1>2, <2>2
  <2>3. CASE h = i + 1
    BY <1>2, <2>3
  <2>4. CASE h > i + 1
    BY <1>2, <2>4
  <2>5. QED
    BY <2>1, <2>2, <2>3, <2>4
<1>4. ASSUME NEW h \in 1 .. n + 1, NEW b \in 1 .. Len(T[h])
      PROVE  InLeaf(S[old[h]], T[h][b]) \/ (old[h] = i /\ T[h][b] = e)
  <2>1. InLeaf(T[h], T[h][b])
    BY DEF InLeaf
  <2>2. QED
    BY <1>3, <2>1 DEF Halves
<1>5. ASSUME NEW h \in 1 .. n + 1, NEW l \in 1 .. n + 1, NEW a \in 1 .. Len(T[h]), NEW b \in 1 .. Len(T[l]),
             old[h] = old[l], h < l \/ (h = l /\ a < b)
      PROVE  T[h][a].key < T[l][b].key
  <2>1. CASE h = l /\ T[h] = S[old[h]]
    <3>1. a \in 1 .. Len(S[old[h]]) /\ b \in 1 .. Len(S[old[h]]) /\ a < b
      BY <1>5, <2>1
    <3>2. S[old[h]][a].key < S[old[h]][b].key
      BY <1>2, <3>1 DEF Ordered
    <3>3. QED
      BY <2>1, <3>2
  <2>2. CASE h = l /\ T[h] \in {left, right}
    BY <1>5, <2>2 DEF Halves, Rising
  <2>3. CASE h < l
    <3>1. h = i /\ l = i + 1
      <4>1. (h <= i => old[h] = h) /\ (h > i => old[h] = h - 1)
        BY <1>2
      <4>2. (l <= i => old[l] = l) /\ (l > i => old[l] = l - 1)
        BY <1>2
      <4>3. h <= i /\ l > i
        BY <1>5, <2>3, <4>1, <4>2
      <4>4. QED
        BY <1>5, <2>3, <4>1, <4>2, <4>3
    <3>2. T[h] = left /\ T[l] = right
      BY <3>1
    <3>3. QED
      BY <3>2 DEF Halves
  <2>4. QED
    BY <1>3, <1>5, <2>1, <2>2, <2>3
<1>6. Spreads(n, S, i, e, n + 1, T, old)
  <2>1. ASSUME NEW h \in 1 .. n + 1, NEW l \in 1 .. n + 1, h < l
        PROVE  old[h] <= old[l]
    <3>1. (h <= i => old[h] = h) /\ (h > i => old[h] = h - 1)
      BY <1>2
    <3>2. (l <= i => old[l] = l) /\ (l > i => old[l] = l - 1)
      BY <1>2
    <3>3. CASE l <= i
      BY <2>1, <3>1, <3>2, <3>3
    <3>4. CASE h <= i /\ l > i
      BY <2>1, <3>1, <3>2, <3>4
    <3>5. CASE h > i
      BY <2>1, <3>1, <3>2, <3>5
    <3>6. QED
      BY <3>3, <3>4, <3>5
  <2>2. QED
    BY <1>2, <1>4, <1>5, <2>1 DEF Spreads
<1>7. ASSUME NEW f
      PROVE  Holds(n + 1, T, f) <=> Holds(n, S, f) \/ f = e
  <2>1. Holds(n + 1, T, f) <=> \E h \in 1 .. n + 1 : InLeaf(T[h], f)
    BY DEF Holds, InLeaf
  <2>2. Holds(n, S, f) <=> \E h \in 1 .. n : InLeaf(S[h], f)
    BY DEF Holds, InLeaf
  <2>3. ASSUME NEW h \in 1 .. n + 1, InLeaf(T[h], f)
        PROVE  (\E l \in 1 .. n : InLeaf(S[l], f)) \/ f = e
    BY <1>2, <1>3, <2>3 DEF Halves
  <2>4. ASSUME NEW l \in 1 .. n, InLeaf(S[l], f)
        PROVE  \E h \in 1 .. n + 1 : InLeaf(T[h], f)
    <3>1. CASE l < i
      <4>1. l \in 1 .. n + 1 /\ T[l] = S[l]
        BY <3>1
      <4>2. QED
        BY <2>4, <4>1
    <3>2. CASE l = i
      <4>1. i \in 1 .. n + 1 /\ i + 1 \in 1 .. n + 1 /\ T[i] = left /\ T[i + 1] = right
        OBVIOUS
      <4>2. QED
        BY <2>4, <3>2, <4>1 DEF Halves
    <3>3. CASE l > i
      <4>1. l + 1 \in 1 .. n + 1 /\ l + 1 > i + 1 /\ (l + 1) - 1 = l
        BY <3>3
      <4>2. T[l + 1] = S[l]
        BY <4>1
      <4>3. QED
        BY <2>4, <4>1, <4>2
    <3>4. QED
      BY <3>1, <3>2, <3>3
  <2>5. f = e => \E h \in 1 .. n + 1 : InLeaf(T[h], f)
    <3>1. i \in 1 .. n + 1 /\ i + 1 \in 1 .. n + 1 /\ T[i] = left /\ T[i + 1] = right
      OBVIOUS
    <3>2. QED
      BY <3>1 DEF Halves
  <2>6. QED
    BY <2>1, <2>2, <2>3, <2>4, <2>5
<1>8. QED
  BY <1>6, <1>7 DEF old, Gains

\* The tree above leaves that have one entry more, and perhaps one leaf more:
\* x2 is the place of that one.
LEMMA SpreadRooted ==
  ASSUME NEW d, NEW d2, Len(d) \in Nat, Len(d2) \in Nat, Len(d2) >= Len(d),
         NEW n \in Nat, NEW c, NEW root, NEW height, Rooted(d, root, height, n, c, 0),
         NEW i \in 1 .. n, NEW e,
         height = 1 => /\ Fits(d, root, height, n, c, i, e.key)
                       /\ Cell(d2, root) = Cell(d, root) /\ Link(d2, root) = Link(d, root),
         NEW n2 \in Nat, NEW c2, NEW x2 \in Nat, NEW old,
         Spreads(n, Contents(d, n, c), i, e, n2, Contents(d2, n2, c2), old),
         n2 = n + (IF x2 = 0 THEN 0 ELSE 1), c2[1] = c[1],
         height = 1 => \A h \in 1 .. n2 : c2[h] # root,
         \A j \in 1 .. n - 1 :
           /\ c2[PlaceUnder(x2, j)] = c[j + 1]
           /\ \A h \in 1 .. n2 : h < PlaceUnder(x2, j) <=> old[h] < j + 1
  PROVE  Rooted(d2, root, height, n2, c2, x2)
<1> DEFINE S == Contents(d, n, c)
           T == Contents(d2, n2, c2)
           m == Cell(d, root)
<1>1. CASE height = 0 /\ root = c[1]
  BY <1>1 DEF Rooted
<1>2. CASE height = 1 /\ Inner(d, root, n, c, 0)
  <2>1. /\ root \in 1 .. Len(d) - 1 /\ Link(d, root) = c[1]
        /\ Len(m) \in 1 .. NONLEAF_MAX /\ n = Len(m) + 1
    BY <1>2 DEF Inner
  <2>2. \A j \in 1 .. Len(m) : m[j].val = c[j + 1] /\ Divides(n, S, j + 1, m[j].key)
    BY <1>2 DEF Inner, PlaceUnder
  <2>3. \A j \in 1 .. Len(m) : IF j < i THEN m[j].key <= e.key ELSE e.key < m[j].key
    BY <1>2 DEF Fits
  <2>4. Len(m) \in Nat /\ n - 1 = Len(m)
    BY <2>1, FanoutAssumption
  <2> HIDE DEF m
  <2>5. ASSUME NEW j \in 1 .. Len(m)
        PROVE  /\ m[j].val = c2[PlaceUnder(x2, j)]
               /\ Divides(n2, T, PlaceUnder(x2, j), m[j].key)
    <3>1. j \in 1 .. n - 1
      BY <2>4
    <3>2. m[j].val = c2[PlaceUnder(x2, j)]
      BY <2>2, <3>1
    <3> DEFINE g  == j + 1
               g2 == PlaceUnder(x2, j)
    <3>3. g \in Int /\ g2 \in Int
      BY <2>4 DEF PlaceUnder
    <3>4. /\ i < g => e.key < m[j].key
          /\ ~(i < g) => m[j].key <= e.key
      <4>1. i < g <=> ~(j < i)
        BY <2>4
      <4>2. IF j < i THEN m[j].key <= e.key ELSE e.key < m[j].key
        BY <2>3
      <4> HIDE DEF g
      <4>3. QED
        BY <4>1, <4>2
    <3>5. Divides(n, S, g, m[j].key) /\ \A h \in 1 .. n2 : h < g2 <=> old[h] < g
      BY <2>2, <3>1
    <3>6. Spreads(n, S, i, e, n2, T, old)
      OBVIOUS
    <3> HIDE DEF g, g2, S, T
    <3>7. Divides(n2, T, g2, m[j].key)
      BY <3>3, <3>4, <3>5, <3>6, SpreadDivides
    <3>8. QED
      BY <3>2, <3>7 DEF g2
  <2>6. Inner(d2, root, n2, c2, x2)
    <3>1. Cell(d2, root) = m /\ Link(d2, root) = c2[1] /\ \A h \in 1 .. n2 : c2[h] # root
      BY <1>2, <2>1 DEF m
    <3>2. root \in 1 .. Len(d2) - 1
      BY <2>1
    <3>3. n2 = Len(m) + 1 + (IF x2 = 0 THEN 0 ELSE 1)
      BY <2>1 DEF m
    <3>4. QED
      BY <2>1, <2>5, <3>1, <3>2, <3>3 DEF Inner, m
  <2>7. n2 > 0
    BY <2>1, <2>4
  <2>8. QED
    BY <1>2, <2>6, <2>7 DEF Rooted
<1>3. QED
  BY <1>1, <1>2 DEF Rooted

\* An insert that has come to leaf i
Placing(n, c, i) ==
  LET S == Contents(disk, n, c)
  IN /\ n \in Nat /\ c \in [1 .. n -> 1 .. Len(disk) - 1] /\ i \in 1 .. n
     /\ Shape(n, c, 0) /\ mode = "w" /\ ~crashed /\ rootPid # -1
     /\ Linked(disk, n, c) /\ Ordered(n, S)
     /\ Grows(disk, rootPid, treeHeight, n, c, 0) /\ treeHeight \in {0, 1}
     /\ Fits(disk, rootPid, treeHeight, n, c, i, ins.key) /\ Around(n, S, i, ins.key)
     /\ ins \in Input /\ ins \notin entries
     /\ S[i] \in Leaf /\ S[i] = Cell(disk, c[i]) /\ Rising(S[i]) /\ ~InLeaf(S[i], ins)
     /\ TreeSaved => /\ Rooted(disk, SavedId.sid, SavedId.pid, n, c, 0)
                     /\ SavedId.pid = 1 => treeHeight = 1 /\ SavedId.sid = rootPid

LEMMA PlacingOf ==
  ASSUME Types, Plain, NEW n \in Nat, NEW c \in [1 .. n -> 1 .. Len(disk) - 1],
         NEW x \in {0} \cup 2 .. n, Shape(n, c, x), pc \in {"leaf", "left"},
         NEW i \in 1 .. n, Fits(disk, rootPid, treeHeight, n, c, i, ins.key)
  PROVE  Placing(n, c, i) /\ x = 0
<1> DEFINE S == Contents(disk, n, c)
<1>1. mode = "w" /\ ~crashed /\ Writing(n, c, x)
  BY DEF Types, Shape
<1>2. /\ rootPid # -1 /\ x = 0 /\ Grows(disk, rootPid, treeHeight, n, c, 0)
      /\ ins \in Input /\ ins \notin entries
      /\ TreeSaved /\ SavedId.pid = 1 => treeHeight = 1 /\ rootPid = SavedId.sid
  BY <1>1 DEF Writing
<1>3. treeHeight \in {0, 1}
  BY <1>2 DEF Grows, Rooted
<1>4. Linked(disk, n, c) /\ Ordered(n, S)
  BY DEF Shape
<1>5. Around(n, S, i, ins.key)
  BY DEF Fits, Around
<1>6. S[i] \in Leaf /\ S[i] = Cell(disk, c[i])
  BY <1>4 DEF Ordered, Contents
<1>7. Rising(S[i])
  BY <1>4 DEF Ordered, Rising
<1>8. ~InLeaf(S[i], ins)
  <2>1. ins \notin Visible
    BY <1>2 DEF Visible
  <2>2. ~Holds(n, S, ins)
    BY <1>2, <2>1 DEF Shape
  <2>3. QED
    BY <2>2 DEF Holds, InLeaf
<1>9. TreeSaved => /\ Rooted(disk, SavedId.sid, SavedId.pid, n, c, 0)
                   /\ SavedId.pid = 1 => treeHeight = 1 /\ SavedId.sid = rootPid
  BY <1>2 DEF Shape
<1>10. QED
  BY <1>1, <1>2, <1>3, <1>4, <1>5, <1>6, <1>7, <1>8, <1>9 DEF Placing

\* The leaf is on top of the stack.
LEMMA TopIs ==
  ASSUME treeHeight \in {0, 1}, NEW e, stack = Append(Above0, e)
  PROVE  Top = e /\ Front(stack) = Above0
BY StackIs DEF Top

\* A page of a leaf
LEMMA LeafPages ==
  ASSUME Plain, NEW m \in Leaf, NEW last \in PidSet
  PROVE  /\ Page(m, last) \in Pages
         /\ Page(m, last).entries = m /\ Page(m, last).last = last
<1>1. m \in Nodes
  BY LeafNodes
<1>2. QED
  BY <1>1 DEF Page, Pages

LEMMA LeafInsertInv ==
  ASSUME Inv, Plain, leaf_insert
  PROVE  Inv' /\ TreeSaved' = TreeSaved
<1>1. PICK n \in Nat : \E c \in [1 .. n -> 1 .. Len(disk) - 1], x \in {0} \cup 2 .. n : Shape(n, c, x)
  BY DEF Inv
<1>2. PICK c \in [1 .. n -> 1 .. Len(disk) - 1], x \in {0} \cup 2 .. n : Shape(n, c, x)
  BY <1>1
<1>3. Types /\ disk \in Seq(Pages) /\ FirstPage(disk) /\ Len(disk) \in Nat
  BY LenProperties DEF Inv, Types
<1>4. pc = "leaf"
  BY DEF leaf_insert
<1>5. Writing(n, c, x) /\ rootPid # -1
  BY <1>2, <1>3, <1>4 DEF Shape, Types, Writing
<1>6. PICK i \in 1 .. n : /\ Fits(disk, rootPid, treeHeight, n, c, i, ins.key)
                          /\ stack = Append(Above0, Step(c[i]))
  BY <1>4, <1>5 DEF Writing
<1>7. Placing(n, c, i) /\ x = 0
  BY <1>2, <1>3, <1>4, <1>6, PlacingOf
<1> DEFINE S == Contents(disk, n, c)
           p == c[i]
           m == LeafPlaced(S[i], ins)
           T == [S EXCEPT ![i] = m]
           old == [h \in 1 .. n |-> h]
<1>8. /\ S[i] \in Leaf /\ S[i] = Cell(disk, p) /\ Rising(S[i]) /\ ~InLeaf(S[i], ins)
      /\ ins \in Input /\ Linked(disk, n, c) /\ Ordered(n, S) /\ treeHeight \in {0, 1}
      /\ p \in 1 .. Len(disk) - 1
      /\ Grows(disk, rootPid, treeHeight, n, c, 0) /\ Around(n, S, i, ins.key)
      /\ mode = "w" /\ ~crashed
  BY <1>7 DEF Placing
<1>9. Top = Step(p) /\ Top.pid = p /\ Top.m = S[i] /\ Top.last = Link(disk, p)
  BY <1>6, <1>8, TopIs DEF Step
<1>10. m \in Leaf /\ Rising(m) /\ m # << >> /\ \A f : InLeaf(m, f) <=> InLeaf(S[i], f) \/ f = ins
  <2>1. S[i] \in Seq(Input) /\ Len(S[i]) \in 0 .. LEAF_MAX
    BY <1>8, LeafNodes
  <2>2. /\ m \in Seq(Input) /\ Len(m) = Len(S[i]) + 1 /\ Rising(m)
        /\ \A f : InLeaf(m, f) <=> InLeaf(S[i], f) \/ f = ins
    BY <1>8, <2>1, LeafPlacedRises
  <2>3. Len(S[i]) # LEAF_MAX
    BY <1>9 DEF leaf_insert, LeafFull
  <2> HIDE DEF m, S
  <2>4. Len(m) \in 1 .. LEAF_MAX /\ Len(<< >>) = 0
    BY <2>1, <2>2, <2>3, FanoutAssumption, EmptySeq
  <2>5. QED
    BY <2>2, <2>4 DEF Leaf
<1>11. Link(disk, p) \in PidSet /\ p \in Nat /\ p # 0 /\ p <= Len(disk) + 1
  <2>1. p \in 0 .. Len(disk) - 1
    BY <1>3, <1>8
  <2>2. QED
    BY <1>3, <1>8, <2>1, ReadPage
<1>12. Write(p, Page(m, Link(disk, p)), TRUE) /\ Return(0)
       /\ UNCHANGED <<mode, rootPid, treeHeight>>
  <2>1. WriteOk(p) = {TRUE} /\ WriteRC(p, TRUE) = 0
    BY <1>11, WritesWork DEF WriteRC
  <2>2. QED
    BY <1>9, <2>1 DEF leaf_insert, objVars
<1> HIDE DEF m, p
<1>13. /\ Same(disk, disk', p) /\ Len(disk') = Len(disk)
       /\ Cell(disk', p) = m /\ Link(disk', p) = Link(disk, p)
       /\ SavedId' = SavedId /\ TreeSaved' = TreeSaved
  <2>1. /\ Page(m, Link(disk, p)) \in Pages
        /\ Page(m, Link(disk, p)).entries = m /\ Page(m, Link(disk, p)).last = Link(disk, p)
    BY <1>10, <1>11, LeafPages
  <2>2. p + 1 <= Len(disk)
    BY <1>3, <1>8
  <2>3. Len(disk') = IF p + 1 > Len(disk) THEN p + 1 ELSE Len(disk)
    BY <1>3, <1>11, <1>12, <2>1, WriteKeeps
  <2>4. Len(disk') = Len(disk)
    BY <1>3, <1>11, <2>2, <2>3
  <2>5. /\ Same(disk, disk', p) /\ Cell(disk', p) = m /\ Link(disk', p) = Link(disk, p)
        /\ SavedId' = SavedId /\ TreeSaved' = TreeSaved
    BY <1>3, <1>11, <1>12, <2>1, WriteKeeps
  <2>6. QED
    BY <2>4, <2>5
<1>14. \A h \in 1 .. n : c[h] \in 1 .. Len(disk) - 1 /\ (h # i => c[h] # p)
  BY <1>8 DEF Linked, p
<1>15. \A h \in 1 .. n : Link(disk', c[h]) = Link(disk, c[h])
  BY <1>13, <1>14 DEF Same, p
<1>16. Linked(disk', n, c) /\ c \in [1 .. n -> 1 .. Len(disk') - 1]
  <2>1. Len(disk') \in Nat /\ Len(disk') >= Len(disk)
    BY <1>3, <1>13
  <2>2. QED
    BY <1>3, <1>8, <1>15, <2>1, LinkedKeeps
<1>17. Contents(disk', n, c) = T
  <2>1. S = [h \in 1 .. n |-> Cell(disk, c[h])]
    BY DEF Contents
  <2>2. T = [h \in 1 .. n |-> IF h = i THEN m ELSE Cell(disk, c[h])]
    BY <2>1
  <2>3. Contents(disk', n, c) = [h \in 1 .. n |-> Cell(disk', c[h])]
    BY DEF Contents
  <2>4. \A h \in 1 .. n : Cell(disk', c[h]) = IF h = i THEN m ELSE Cell(disk, c[h])
    BY <1>13, <1>14 DEF Same, p
  <2> HIDE DEF S, T
  <2>5. QED
    BY <2>2, <2>3, <2>4
<1>18. /\ Spreads(n, S, i, ins, n, T, old)
       /\ \A f : Holds(n, T, f) <=> Holds(n, S, f) \/ f = ins
  <2> HIDE DEF S
  <2>1. QED
    BY <1>8, <1>10, PutSpreads
<1>19. Ordered(n, T)
  <2>1. n > 1 => \A h \in 1 .. n : T[h] # << >>
    <3>1. n > 1 => \A h \in 1 .. n : S[h] # << >>
      BY <1>8 DEF Ordered
    <3>2. S \in [1 .. n -> Leaf]
      BY <1>8 DEF Ordered
    <3> HIDE DEF S
    <3>3. QED
      BY <1>10, <3>1, <3>2
  <2> HIDE DEF S, T, old
  <2>2. QED
    BY <1>8, <1>18, <2>1, SpreadOrdered
<1>20. ASSUME NEW root, NEW height, Rooted(disk, root, height, n, c, 0),
              height = 1 => treeHeight = 1 /\ root = rootPid
       PROVE  Rooted(disk', root, height, n, c, 0)
  <2>1. height = 1 => Inner(disk, root, n, c, 0)
    BY <1>20 DEF Rooted
  <2>2. height = 1 => \A h \in 1 .. n : c[h] # root
    BY <2>1 DEF Inner
  <2>3. height = 1 => Cell(disk', root) = Cell(disk, root) /\ Link(disk', root) = Link(disk, root)
    <3>1. height = 1 => root \in 1 .. Len(disk) - 1 /\ root # p
      BY <2>1 DEF Inner, p
    <3>2. QED
      BY <1>13, <3>1 DEF Same
  <2>4. height = 1 => Fits(disk, root, height, n, c, i, ins.key)
    BY <1>6, <1>20
  <2>5. \A j \in 1 .. n - 1 :
          /\ c[PlaceUnder(0, j)] = c[j + 1]
          /\ \A h \in 1 .. n : h < PlaceUnder(0, j) <=> old[h] < j + 1
    BY DEF PlaceUnder
  <2>6. Spreads(n, Contents(disk, n, c), i, ins, n, Contents(disk', n, c), old)
    BY <1>17, <1>18
  <2>7. n = n + (IF 0 = 0 THEN 0 ELSE 1) /\ 0 \in Nat
    OBVIOUS
  <2>8. Len(disk') \in Nat /\ Len(disk') >= Len(disk)
    BY <1>3, <1>13
  <2> HIDE DEF old
  <2>9. QED
    BY <1>3, <1>20, <2>2, <2>3, <2>4, <2>5, <2>6, <2>7, <2>8, SpreadRooted
<1>21. Grows(disk', rootPid', treeHeight', n, c, 0)
  <2>1. Rooted(disk', rootPid, treeHeight, n, c, 0)
    BY <1>8, <1>20 DEF Grows
  <2>2. QED
    BY <1>8, <1>12, <2>1 DEF Grows
<1>22. TreeSaved' => Rooted(disk', SavedId'.sid, SavedId'.pid, n, c, 0)
  <2>1. TreeSaved => Rooted(disk', SavedId.sid, SavedId.pid, n, c, 0)
    BY <1>7, <1>20 DEF Placing
  <2>2. QED
    BY <1>13, <2>1
<1>23. /\ pc' = "idle" /\ entries' = entries \cup {ins} /\ crashed' = crashed
  BY <1>12 DEF Return
<1>24. \A e \in Input : e \in Visible' <=> Holds(n, T, e)
  <2>1. Visible = entries /\ Visible' = entries \cup {ins}
    BY <1>4, <1>23 DEF Visible
  <2>2. \A e \in Input : e \in Visible <=> Holds(n, S, e)
    BY <1>2 DEF Shape
  <2>3. QED
    BY <1>18, <2>1, <2>2
<1>25. Types'
  BY <1>8, <1>12, <1>13, <1>23 DEF Inv, Types, Same
<1>26. Writing(n, c, 0)'
  <2>1. TreeSaved /\ SavedId.pid = 1 => treeHeight = 1 /\ rootPid = SavedId.sid
    BY <1>7 DEF Placing
  <2>2. QED
    BY <1>5, <1>12, <1>13, <1>21, <1>23, <2>1 DEF Writing
<1>27. Shape(n, c, 0)'
  BY <1>8, <1>12, <1>16, <1>17, <1>19, <1>22, <1>23, <1>24, <1>26 DEF Shape
<1>28. QED
  BY <1>13, <1>16, <1>25, <1>27 DEF Inv

\* The element on top is another one.
LEMMA LastReplaced ==
  ASSUME NEW s, NEW T, s \in Seq(T), NEW e, NEW f, NEW t,
         DOMAIN t = DOMAIN Append(s, e),
         t = [j \in DOMAIN t |-> t[j]],
         t[Len(Append(s, e))] = f,
         \A j \in DOMAIN t : j # Len(Append(s, e)) => t[j] = Append(s, e)[j]
  PROVE  t = Append(s, f)
<1> DEFINE U == T \cup {e, f}
<1>1. s \in Seq(U) /\ e \in U /\ f \in U /\ Len(s) \in Nat /\ \A j \in 1 .. Len(s) : s[j] \in U
  <2>1. s \in Seq(U)
    BY SeqMonotonic
  <2>2. QED
    BY <2>1, LenProperties, ElementOfSeq
<1> HIDE DEF U
<1> DEFINE a == Append(s, e)
           b == Append(s, f)
<1>2. a \in Seq(U) /\ Len(a) = Len(s) + 1 /\ \A j \in 1 .. Len(s) : a[j] = s[j]
  BY <1>1, AppendProperties
<1>3. b \in Seq(U) /\ Len(b) = Len(s) + 1 /\ b[Len(s) + 1] = f /\ \A j \in 1 .. Len(s) : b[j] = s[j]
  BY <1>1, AppendProperties
<1>4. DOMAIN t = 1 .. Len(s) + 1 /\ t[Len(s) + 1] = f /\ Len(s) + 1 \in Nat
  <2>1. DOMAIN a = 1 .. Len(a)
    BY <1>2, LenProperties
  <2>2. QED
    BY <1>1, <1>2, <2>1
<1>5. \A j \in 1 .. Len(s) : t[j] = s[j]
  <2>1. TAKE j \in 1 .. Len(s)
  <2>2. j \in 1 .. Len(s) + 1 /\ j # Len(s) + 1
    BY <1>1
  <2>3. QED
    BY <1>2, <1>4, <2>2
<1> HIDE DEF a, b
<1>6. \A j \in 1 .. Len(s) + 1 : t[j] = b[j] /\ t[j] \in U
  <2>1. TAKE j \in 1 .. Len(s) + 1
  <2>2. j \in 1 .. Len(s) \/ j = Len(s) + 1
    BY <1>1
  <2>3. QED
    BY <1>1, <1>3, <1>4, <1>5, <2>2
<1>7. t \in Seq(U) /\ Len(t) = Len(s) + 1
  <2>1. t \in [1 .. Len(s) + 1 -> U]
    BY <1>4, <1>6
  <2>2. QED
    BY <1>4, <2>1
<1>8. t = b
  BY <1>3, <1>6, <1>7, SeqEqual
<1>9. QED
  BY <1>8 DEF b

LEMMA LeafSplitInv ==
  ASSUME Inv, Plain, leaf_split
  PROVE  Inv' /\ TreeSaved' = TreeSaved
<1>1. PICK n \in Nat : \E c \in [1 .. n -> 1 .. Len(disk) - 1], x \in {0} \cup 2 .. n : Shape(n, c, x)
  BY DEF Inv
<1>2. PICK c \in [1 .. n -> 1 .. Len(disk) - 1], x \in {0} \cup 2 .. n : Shape(n, c, x)
  BY <1>1
<1>3. Types /\ disk \in Seq(Pages) /\ FirstPage(disk) /\ Len(disk) \in Nat
  BY LenProperties DEF Inv, Types
<1>4. pc = "leaf"
  BY DEF leaf_split
<1>5. Writing(n, c, x) /\ rootPid # -1
  BY <1>2, <1>3, <1>4 DEF Shape, Types, Writing
<1>6. PICK i \in 1 .. n : /\ Fits(disk, rootPid, treeHeight, n, c, i, ins.key)
                          /\ stack = Append(Above0, Step(c[i]))
  BY <1>4, <1>5 DEF Writing
<1>7. Placing(n, c, i) /\ x = 0
  BY <1>2, <1>3, <1>4, <1>6, PlacingOf
<1> DEFINE S == Contents(disk, n, c)
           s == LeafSplit(S[i], ins)
           last == Link(disk, c[i])
<1>8. /\ S[i] \in Leaf /\ S[i] = Cell(disk, c[i]) /\ Rising(S[i]) /\ ~InLeaf(S[i], ins)
      /\ ins \in Input /\ Linked(disk, n, c) /\ Ordered(n, S) /\ treeHeight \in {0, 1}
      /\ c[i] \in 1 .. Len(disk) - 1
      /\ Grows(disk, rootPid, treeHeight, n, c, 0) /\ Around(n, S, i, ins.key)
      /\ mode = "w" /\ ~crashed
  BY <1>7 DEF Placing
<1>9. Top = Step(c[i]) /\ Top.pid = c[i] /\ Top.m = S[i] /\ Top.last = last
  BY <1>6, <1>8, TopIs DEF Step
<1>10. LeafFull(S[i]) /\ Halves(S[i], ins, s.left, s.right)
  <2>1. S[i] \in Seq(Input) /\ LeafFull(S[i])
    BY <1>8, <1>9, LeafNodes DEF leaf_split
  <2> HIDE DEF S
  <2>2. QED
    BY <1>8, <2>1, LeafSplitHalves
<1>11. PICK q \in Nat : q = Len(disk)
  BY <1>3
<1>12. last \in PidSet /\ q # 0 /\ q <= Len(disk) + 1 /\ endPid = q
  <2>1. c[i] \in 0 .. Len(disk) - 1
    BY <1>3, <1>8
  <2>2. q # 0 /\ q <= Len(disk) + 1
    BY <1>3, <1>8, <1>11
  <2>3. QED
    BY <1>3, <1>11, <2>1, <2>2, ReadPage
<1> DEFINE L == Len(stack)
<1>13. /\ Write(q, Page(s.right, last), TRUE) /\ pc' = "left"
       /\ stack' = [stack EXCEPT ![L].m = s.left, ![L].last = q]
       /\ up' = [key |-> s.key, pid |-> q, rc |-> 0]
       /\ UNCHANGED <<mode, rootPid, treeHeight, ins, entries, crashed>>
  <2>1. WriteOk(endPid) = {TRUE}
    BY <1>12, WritesWork
  <2>2. QED
    BY <1>9, <1>12, <2>1 DEF leaf_split, SiblingLink, LeafLink, objVars, histVars
<1> HIDE DEF s, last
<1>14. /\ Same(disk, disk', q) /\ Len(disk') = q + 1
       /\ Cell(disk', q) = s.right /\ Link(disk', q) = last
       /\ SavedId' = SavedId /\ TreeSaved' = TreeSaved
  <2>1. s.right \in Leaf
    BY <1>10 DEF Halves
  <2>2. /\ Page(s.right, last) \in Pages
        /\ Page(s.right, last).entries = s.right /\ Page(s.right, last).last = last
    BY <1>12, <2>1, LeafPages
  <2>3. Len(disk') = IF q + 1 > Len(disk) THEN q + 1 ELSE Len(disk)
    BY <1>3, <1>12, <1>13, <2>2, WriteKeeps
  <2>4. Len(disk') = q + 1
    BY <1>3, <1>11, <2>3
  <2>5. /\ Same(disk, disk', q) /\ Cell(disk', q) = s.right /\ Link(disk', q) = last
        /\ SavedId' = SavedId /\ TreeSaved' = TreeSaved
    BY <1>3, <1>12, <1>13, <2>2, WriteKeeps
  <2>6. QED
    BY <2>4, <2>5
<1>15. \A h \in 1 .. n : c[h] # q
  BY <1>3, <1>8, <1>11 DEF Linked
<1>16. ASSUME NEW root, NEW height, NEW y, Rooted(disk, root, height, n, c, y)
       PROVE  root # q /\ (height = 1 => root \in 1 .. Len(disk) - 1)
  <2>1. n > 0 => c[1] # q
    BY <1>15
  <2>2. QED
    BY <1>3, <1>11, <1>16, <2>1 DEF Rooted, Inner
<1>17. /\ Linked(disk', n, c) /\ c \in [1 .. n -> 1 .. Len(disk') - 1]
       /\ Contents(disk', n, c) = S
       /\ \A h \in 1 .. n : Cell(disk', c[h]) = Cell(disk, c[h]) /\ Link(disk', c[h]) = Link(disk, c[h])
       /\ \A root, height, y : Rooted(disk, root, height, n, c, y) => Rooted(disk', root, height, n, c, y)
  <2>1. Linked(disk', n, c) /\ c \in [1 .. n -> 1 .. Len(disk') - 1]
    BY <1>3, <1>8, <1>14, <1>15, TreeKeeps
  <2>2. Contents(disk', n, c) = S
    BY <1>3, <1>8, <1>14, <1>15, TreeKeeps
  <2>3. ASSUME NEW h \in 1 .. n
        PROVE  Cell(disk', c[h]) = Cell(disk, c[h]) /\ Link(disk', c[h]) = Link(disk, c[h])
    <3>1. c[h] \in 1 .. Len(disk) - 1 /\ c[h] # q
      BY <1>8, <1>15 DEF Linked
    <3>2. QED
      BY <1>14, <3>1 DEF Same
  <2>4. ASSUME NEW root, NEW height, NEW y, Rooted(disk, root, height, n, c, y)
        PROVE  Rooted(disk', root, height, n, c, y)
    BY <1>3, <1>8, <1>14, <1>15, <1>16, <2>4, TreeKeeps
  <2>5. QED
    BY <2>1, <2>4, <2>2, <2>3
<1>18. /\ Grows(disk', rootPid, treeHeight, n, c, 0) /\ rootPid # q
       /\ Fits(disk', rootPid, treeHeight, n, c, i, ins.key)
       /\ treeHeight = 1 => Step(rootPid)' = Step(rootPid)
  <2>1. Rooted(disk, rootPid, treeHeight, n, c, 0)
    BY <1>8 DEF Grows
  <2>2. Grows(disk', rootPid, treeHeight, n, c, 0)
    BY <1>8, <1>17 DEF Grows
  <2>3. treeHeight = 1 => Cell(disk', rootPid) = Cell(disk, rootPid) /\ Link(disk', rootPid) = Link(disk, rootPid)
    BY <1>14, <1>16, <2>1 DEF Same
  <2>4. Fits(disk', rootPid, treeHeight, n, c, i, ins.key)
    BY <1>6, <1>17, <2>3 DEF Fits
  <2>5. QED
    BY <1>13, <1>16, <2>1, <2>2, <2>3, <2>4 DEF Step
<1>19. stack' = Append(Above0', [pid |-> c[i], m |-> s.left, last |-> q])
  <2> DEFINE e == Step(c[i])
             f == [pid |-> c[i], m |-> s.left, last |-> q]
             T == {Step(rootPid)}
  <2>1. Above0 \in Seq(T) /\ Above0' = Above0
    <3>1. Above0 \in Seq(T)
      BY <1>8, AboveIs
    <3>2. Above0' = Above0
      BY <1>8, <1>13, <1>18 DEF Above0
    <3>3. QED
      BY <3>1, <3>2
  <2>2. stack = Append(Above0, e) /\ stack[L] = e /\ L \in DOMAIN stack
        /\ stack = [j \in DOMAIN stack |-> stack[j]]
    <3>1. stack \in Seq(T \cup {e}) /\ stack = Append(Above0, e)
      <4>1. Above0 \in Seq(T \cup {e})
        BY <2>1, SeqMonotonic
      <4> HIDE DEF T, e
      <4>2. Append(Above0, e) \in Seq(T \cup {e})
        BY <4>1, AppendProperties
      <4>3. QED
        BY <1>6, <4>2 DEF e
    <3>2. L = Len(Above0) + 1 /\ stack[L] = e
      BY <1>6, <1>8, StackIs, AboveIs, LastAppended
    <3>3. QED
      BY <3>1, <3>2, LenProperties
  <2>3. stack' = [j \in DOMAIN stack |-> IF j = L THEN f ELSE stack[j]]
    <3>1. [stack EXCEPT ![L].m = s.left, ![L].last = q]
            = [stack EXCEPT ![L] = [[stack[L] EXCEPT !.m = s.left] EXCEPT !.last = q]]
      BY <2>2
    <3>2. [[e EXCEPT !.m = s.left] EXCEPT !.last = q] = f
      <4>1. e = [pid |-> c[i], m |-> Cell(disk, c[i]), last |-> Link(disk, c[i])]
        BY DEF Step
      <4> HIDE DEF e
      <4>2. [e EXCEPT !.m = s.left] = [pid |-> c[i], m |-> s.left, last |-> Link(disk, c[i])]
        BY <4>1
      <4> DEFINE g == [e EXCEPT !.m = s.left]
      <4>3. g = [pid |-> c[i], m |-> s.left, last |-> Link(disk, c[i])]
        BY <4>2
      <4> HIDE DEF g
      <4>4. [g EXCEPT !.last = q] = [pid |-> c[i], m |-> s.left, last |-> q]
        BY <4>3
      <4>5. QED
        BY <4>4 DEF g
    <3> HIDE DEF e, f
    <3>3. QED
      BY <1>13, <2>2, <3>1, <3>2
  <2> HIDE DEF e, f, T
  <2>4. stack' = Append(Above0, f)
    <3>1. DOMAIN stack' = DOMAIN stack /\ stack'[L] = f
      BY <2>2, <2>3
    <3>2. stack' = [j \in DOMAIN stack' |-> stack'[j]]
      BY <2>3
    <3>3. \A j \in DOMAIN stack' : j # L => stack'[j] = stack[j]
      BY <2>3
    <3>4. L = Len(Append(Above0, e)) /\ stack = Append(Above0, e)
      BY <2>2
    <3> HIDE DEF L
    <3>5. QED
      BY <2>1, <3>1, <3>2, <3>3, <3>4, LastReplaced
  <2>5. QED
    BY <2>1, <2>4 DEF f
<1>20. Visible' = Visible
  BY <1>4, <1>13 DEF Visible
<1>21. Types'
  BY <1>8, <1>13, <1>14 DEF Inv, Types, Same
<1>22. endPid' - 1 = q
  BY <1>14 DEF endPid
<1>23. /\ LeafFull(Cell(disk', c[i])) /\ s = LeafSplit(Cell(disk', c[i]), ins)
       /\ Link(disk', c[i]) = last
  BY <1>8, <1>10, <1>17 DEF s, last
<1>24. Writing(n, c, 0)'
  <2>1. TreeSaved /\ SavedId.pid = 1 => treeHeight = 1 /\ rootPid = SavedId.sid
    BY <1>7 DEF Placing
  <2>2. /\ rootPid' # -1 /\ Grows(disk', rootPid', treeHeight', n, c, 0)
        /\ TreeSaved' /\ SavedId'.pid = 1 => treeHeight' = 1 /\ rootPid' = SavedId'.sid
        /\ pc' = "left" /\ ins' \in Input /\ ins' \notin entries'
    BY <1>5, <1>7, <1>13, <1>14, <1>18, <2>1 DEF Placing
  <2>3. LET r == LeafSplit(Cell(disk', c[i]), ins')
            g == endPid' - 1
        IN /\ Fits(disk', rootPid', treeHeight', n, c, i, ins'.key)
           /\ LeafFull(Cell(disk', c[i]))
           /\ g # rootPid' /\ g # 0 /\ \A j \in 1 .. n : c[j] # g
           /\ Cell(disk', g) = r.right /\ Link(disk', g) = Link(disk', c[i])
           /\ stack' = Append(Above0', [pid |-> c[i], m |-> r.left, last |-> g])
           /\ up' = [key |-> r.key, pid |-> g, rc |-> 0]
    BY <1>12, <1>13, <1>14, <1>15, <1>18, <1>19, <1>22, <1>23
  <2>4. QED
    BY <2>2, <2>3 DEF Writing
<1>25. Shape(n, c, 0)'
  <2>1. TreeSaved' => Rooted(disk', SavedId'.sid, SavedId'.pid, n, c, 0)
    BY <1>7, <1>14, <1>17 DEF Placing
  <2>2. \A e \in Input : e \in Visible' <=> Holds(n, Contents(disk', n, c), e)
    BY <1>2, <1>17, <1>20 DEF Shape
  <2>3. QED
    BY <1>8, <1>13, <1>17, <1>24, <2>1, <2>2 DEF Shape
<1>26. QED
  BY <1>14, <1>17, <1>21, <1>25 DEF Inv

\* Page q comes into the chain behind leaf i.
WithLeaf(n, c, i, q) ==
  [h \in 1 .. n + 1 |-> IF h <= i THEN c[h] ELSE IF h = i + 1 THEN q ELSE c[h - 1]]
MayLink(d, d2, n, c, i, q) ==
  /\ Len(d) \in Nat /\ Len(d2) = Len(d) /\ Linked(d, n, c)
  /\ q \in 1 .. Len(d) - 1 /\ \A h \in 1 .. n : c[h] # q
  /\ \A p \in 1 .. Len(d) - 1 : p # c[i] => Link(d2, p) = Link(d, p)
  /\ Link(d2, c[i]) = q /\ Link(d, q) = Link(d, c[i])
LinkedIn(d2, n, c, i, q, c2) ==
  /\ c2 \in [1 .. n + 1 -> 1 .. Len(d2) - 1] /\ Linked(d2, n + 1, c2)
  /\ c2[1] = c[1] /\ c2[i + 1] = q
  /\ \A h \in 1 .. n + 1 :
       /\ h <= i => c2[h] = c[h]
       /\ h > i + 1 => c2[h] = c[h - 1]

LEMMA LinkIn ==
  ASSUME NEW d, NEW d2, NEW n \in Nat, NEW c, NEW i \in 1 .. n, NEW q, MayLink(d, d2, n, c, i, q)
  PROVE  LinkedIn(d2, n, c, i, q, WithLeaf(n, c, i, q))
<1> USE DEF MayLink
<1> DEFINE c2 == WithLeaf(n, c, i, q)
<1>1. /\ \A h \in 1 .. n : c[h] \in 1 .. Len(d) - 1
      /\ \A h, l \in 1 .. n : c[h] = c[l] => h = l
      /\ \A h \in 1 .. n - 1 : Link(d, c[h]) = c[h + 1]
      /\ Link(d, c[n]) \in UninitPid
  BY DEF Linked
<1>2. /\ DOMAIN c2 = 1 .. n + 1 /\ c2 = [h \in 1 .. n + 1 |-> c2[h]]
      /\ c2[1] = c[1] /\ c2[i] = c[i] /\ c2[i + 1] = q
  BY DEF WithLeaf
<1>3. ASSUME NEW h \in 1 .. n + 1
      PROVE  /\ h <= i => c2[h] = c[h] /\ h \in 1 .. n
             /\ h > i + 1 => c2[h] = c[h - 1] /\ h - 1 \in 1 .. n
             /\ h = i + 1 => c2[h] = q
  BY DEF WithLeaf
<1> HIDE DEF c2
<1>4. \A h \in 1 .. n + 1 : c2[h] \in 1 .. Len(d) - 1
  <2>1. TAKE h \in 1 .. n + 1
  <2>2. h <= i \/ h = i + 1 \/ h > i + 1
    OBVIOUS
  <2>3. QED
    BY <1>1, <1>3, <2>2
<1>5. ASSUME NEW h \in 1 .. n + 1, NEW l \in 1 .. n + 1, c2[h] = c2[l]
      PROVE  h = l
  <2>1. /\ h <= i \/ h = i + 1 \/ h > i + 1
        /\ l <= i \/ l = i + 1 \/ l > i + 1
    OBVIOUS
  <2>2. CASE h = i + 1 \/ l = i + 1
    <3>1. \A g \in 1 .. n + 1 : g # i + 1 => c2[g] # q
      BY <1>3
    <3>2. QED
      BY <1>2, <1>5, <2>2, <3>1
  <2>3. CASE h <= i /\ l <= i
    BY <1>1, <1>3, <1>5, <2>3
  <2>4. CASE h > i + 1 /\ l > i + 1
    BY <1>1, <1>3, <1>5, <2>4
  <2>5. CASE h <= i /\ l > i + 1
    BY <1>1, <1>3, <1>5, <2>5
  <2>6. CASE h > i + 1 /\ l <= i
    BY <1>1, <1>3, <1>5, <2>6
  <2>7. QED
    BY <2>1, <2>2, <2>3, <2>4, <2>5, <2>6
<1>6. ASSUME NEW h \in 1 .. n, h # i
      PROVE  Link(d2, c[h]) = Link(d, c[h])
  BY <1>1, <1>6
<1>7. Link(d2, q) = Link(d, c[i])
  BY <1>1
<1>8. ASSUME NEW h \in 1 .. n
      PROVE  Link(d2, c2[h]) = c2[h + 1]
  <2>1. CASE h < i
    <3>1. h \in 1 .. n - 1 /\ h <= i /\ h + 1 <= i /\ h + 1 \in 1 .. n + 1
      BY <2>1
    <3>2. c2[h] = c[h] /\ c2[h + 1] = c[h + 1]
      BY <1>3, <3>1
    <3>3. QED
      BY <1>1, <1>6, <2>1, <3>1, <3>2
  <2>2. CASE h = i
    BY <1>2, <2>2
  <2>3. CASE h = i + 1
    <3>1. i \in 1 .. n - 1 /\ h + 1 \in 1 .. n + 1 /\ h + 1 > i + 1 /\ (h + 1) - 1 = i + 1
      BY <2>3
    <3>2. c2[h + 1] = c[i + 1] /\ c2[h] = q
      BY <1>2, <1>3, <2>3, <3>1
    <3>3. QED
      BY <1>1, <1>7, <3>1, <3>2
  <2>4. CASE h > i + 1
    <3>1. h - 1 \in 1 .. n - 1 /\ (h - 1) + 1 = h /\ h - 1 # i
          /\ h + 1 \in 1 .. n + 1 /\ h + 1 > i + 1 /\ (h + 1) - 1 = h
      BY <2>4
    <3>2. c2[h] = c[h - 1] /\ c2[h + 1] = c[h]
      BY <1>3, <2>4, <3>1
    <3>3. Link(d2, c[h - 1]) = Link(d, c[h - 1])
      BY <1>6, <3>1
    <3>4. QED
      BY <1>1, <3>1, <3>2, <3>3
  <2>5. QED
    BY <2>1, <2>2, <2>3, <2>4
<1>9. Link(d2, c2[n + 1]) \in UninitPid
  <2>1. CASE i = n
    BY <1>1, <1>2, <1>7, <2>1
  <2>2. CASE i # n
    <3>1. n + 1 > i + 1 /\ n + 1 \in 1 .. n + 1 /\ (n + 1) - 1 = n /\ n \in 1 .. n
      BY <2>2
    <3>2. c2[n + 1] = c[n]
      BY <1>3, <3>1
    <3>3. QED
      BY <1>1, <1>6, <2>2, <3>1, <3>2
  <2>3. QED
    BY <2>1, <2>2
<1>10. c2 \in [1 .. n + 1 -> 1 .. Len(d2) - 1]
  BY <1>2, <1>4
<1>11. Linked(d2, n + 1, c2)
  <2>1. (n + 1) - 1 = n /\ n + 1 \in Nat
    OBVIOUS
  <2>2. QED
    BY <1>5, <1>8, <1>9, <1>10, <2>1 DEF Linked
<1>12. QED
  BY <1>2, <1>3, <1>10, <1>11 DEF c2, LinkedIn

LEMMA LeafLinkInv ==
  ASSUME Inv, Plain, leaf_link
  PROVE  Inv' /\ TreeSaved' = TreeSaved
<1>1. PICK n \in Nat : \E c \in [1 .. n -> 1 .. Len(disk) - 1], x \in {0} \cup 2 .. n : Shape(n, c, x)
  BY DEF Inv
<1>2. PICK c \in [1 .. n -> 1 .. Len(disk) - 1], x \in {0} \cup 2 .. n : Shape(n, c, x)
  BY <1>1
<1>3. Types /\ disk \in Seq(Pages) /\ FirstPage(disk) /\ Len(disk) \in Nat
  BY LenProperties DEF Inv, Types
<1>4. pc = "left"
  BY DEF leaf_link
<1>5. Writing(n, c, x) /\ rootPid # -1
  BY <1>2, <1>3, <1>4 DEF Shape, Types, Writing
<1> DEFINE S == Contents(disk, n, c)
<1>6. PICK i \in 1 .. n :
        LET s == LeafSplit(Cell(disk, c[i]), ins)
            q == endPid - 1
        IN /\ Fits(disk, rootPid, treeHeight, n, c, i, ins.key)
           /\ LeafFull(Cell(disk, c[i]))
           /\ q # rootPid /\ q # 0 /\ \A j \in 1 .. n : c[j] # q
           /\ Cell(disk, q) = s.right /\ Link(disk, q) = Link(disk, c[i])
           /\ stack = Append(Above0, [pid |-> c[i], m |-> s.left, last |-> q])
           /\ up = [key |-> s.key, pid |-> q, rc |-> 0]
  BY <1>4, <1>5 DEF Writing
<1>7. Fits(disk, rootPid, treeHeight, n, c, i, ins.key)
  BY <1>6
<1>8. Placing(n, c, i) /\ x = 0
  BY <1>2, <1>3, <1>4, <1>7, PlacingOf
<1>9. /\ S[i] \in Leaf /\ S[i] = Cell(disk, c[i]) /\ Rising(S[i]) /\ ~InLeaf(S[i], ins)
      /\ ins \in Input /\ ins \notin entries /\ Linked(disk, n, c) /\ Ordered(n, S)
      /\ treeHeight \in {0, 1} /\ c[i] \in 1 .. Len(disk) - 1
      /\ Grows(disk, rootPid, treeHeight, n, c, 0) /\ Around(n, S, i, ins.key)
      /\ mode = "w" /\ ~crashed
  BY <1>8 DEF Placing
<1>10. PICK q \in Nat : q = Len(disk) - 1
  BY <1>3, <1>9
<1>11. PICK left : left = LeafSplit(S[i], ins).left
  OBVIOUS
<1>12. PICK right : right = LeafSplit(S[i], ins).right
  OBVIOUS
<1>13. /\ q # rootPid /\ q # 0 /\ \A j \in 1 .. n : c[j] # q
       /\ Cell(disk, q) = right /\ Link(disk, q) = Link(disk, c[i])
       /\ stack = Append(Above0, [pid |-> c[i], m |-> left, last |-> q])
       /\ up.key = LeafSplit(S[i], ins).key /\ up.pid = q /\ up.rc = 0
       /\ up = [key |-> up.key, pid |-> up.pid, rc |-> 0]
  <2>1. endPid - 1 = q
    BY <1>10 DEF endPid
  <2>2. QED
    BY <1>6, <1>9, <1>11, <1>12, <2>1
<1>14. Halves(S[i], ins, left, right) /\ up.key = right[1].key /\ up.key # 0
  <2>1. S[i] \in Seq(Input) /\ LeafFull(S[i])
    BY <1>6, <1>9, LeafNodes
  <2> HIDE DEF S
  <2>2. Halves(S[i], ins, left, right) /\ up.key = right[1].key
    BY <1>9, <1>11, <1>12, <1>13, <2>1, LeafSplitHalves
  <2>3. right \in Leaf /\ right # << >>
    BY <2>2 DEF Halves
  <2>4. right \in Seq(Input) /\ 1 \in 1 .. Len(right)
    <3>1. right \in Seq(Input)
      BY <2>3, LeafNodes
    <3>2. QED
      BY <2>3, <3>1, EmptySeq
  <2>5. right[1] \in Input
    BY <2>3, <2>4, LeafNodes
  <2>6. QED
    BY <2>2, <2>5, InputEntries
<1>15. Top = [pid |-> c[i], m |-> left, last |-> q] /\ Front(stack) = Above0
  BY <1>9, <1>13, TopIs
<1>16. /\ Write(c[i], Page(left, q), TRUE) /\ pc' = "up" /\ stack' = Above0
       /\ up' = [up EXCEPT !.rc = 0]
       /\ UNCHANGED <<mode, rootPid, treeHeight, ins, entries, crashed>>
  <2>1. c[i] \in Nat /\ ~(c[i] < 0)
    BY <1>9
  <2>2. WriteOk(c[i]) = {TRUE} /\ WriteRC(c[i], TRUE) = 0
    BY <2>1, WritesWork DEF WriteRC
  <2>3. QED
    BY <1>14, <1>15, <2>2 DEF leaf_link, objVars, histVars
<1>17. up'.key = up.key /\ up'.pid = q /\ up'.rc = 0
  BY <1>13, <1>16
<1>18. PICK p : p = c[i]
  OBVIOUS
<1>19. p \in 1 .. Len(disk) - 1 /\ p \in Nat /\ p # 0 /\ p <= Len(disk) + 1 /\ p # q
  BY <1>3, <1>9, <1>13, <1>18
<1>20. /\ Same(disk, disk', p) /\ Len(disk') = Len(disk)
       /\ Cell(disk', p) = left /\ Link(disk', p) = q
       /\ SavedId' = SavedId /\ TreeSaved' = TreeSaved
  <2>1. left \in Leaf /\ q \in PidSet
    BY <1>14 DEF Halves, PidSet
  <2>2. Page(left, q) \in Pages /\ Page(left, q).entries = left /\ Page(left, q).last = q
    BY <2>1, LeafPages
  <2>3. Write(p, Page(left, q), TRUE)
    BY <1>16, <1>18
  <2>4. Len(disk') = IF p + 1 > Len(disk) THEN p + 1 ELSE Len(disk)
    BY <1>3, <1>19, <2>2, <2>3, WriteKeeps
  <2>5. Len(disk') = Len(disk)
    BY <1>3, <1>19, <2>4
  <2>6. /\ Same(disk, disk', p) /\ Cell(disk', p) = left /\ Link(disk', p) = q
        /\ SavedId' = SavedId /\ TreeSaved' = TreeSaved
    BY <1>3, <1>19, <2>2, <2>3, WriteKeeps
  <2>7. QED
    BY <2>5, <2>6
<1>21. \A g \in 1 .. Len(disk) - 1 : g # p => Cell(disk', g) = Cell(disk, g) /\ Link(disk', g) = Link(disk, g)
  BY <1>20 DEF Same
<1>22. q \in 1 .. Len(disk) - 1
  BY <1>3, <1>10, <1>13
<1> DEFINE n2 == n + 1
           x2 == i + 1
           c2 == WithLeaf(n, c, i, q)
           T  == Contents(disk', n2, c2)
           old == [h \in 1 .. n + 1 |-> IF h <= i THEN h ELSE h - 1]
<1>23. /\ c2 \in [1 .. n + 1 -> 1 .. Len(disk') - 1] /\ Linked(disk', n + 1, c2)
       /\ c2[1] = c[1] /\ c2[i + 1] = q
       /\ \A h \in 1 .. n + 1 : (h <= i => c2[h] = c[h]) /\ (h > i + 1 => c2[h] = c[h - 1])
  <2>1. \A g \in 1 .. Len(disk) - 1 : g # c[i] => Link(disk', g) = Link(disk, g)
    BY <1>18, <1>21
  <2>2. Link(disk', c[i]) = q /\ Link(disk, q) = Link(disk, c[i]) /\ \A h \in 1 .. n : c[h] # q
    BY <1>13, <1>18, <1>20
  <2>3. MayLink(disk, disk', n, c, i, q)
    BY <1>3, <1>9, <1>20, <1>22, <2>1, <2>2 DEF MayLink
  <2>4. LinkedIn(disk', n, c, i, q, WithLeaf(n, c, i, q))
    BY <2>3, LinkIn
  <2>5. QED
    BY <2>4 DEF LinkedIn
<1> HIDE DEF c2
<1>24. \A h \in 1 .. n : S[h] = Cell(disk, c[h]) /\ c[h] \in 1 .. Len(disk) - 1 /\ (h # i => c[h] # p)
  BY <1>9, <1>18 DEF Contents, Linked
<1>25. \A h \in 1 .. n + 1 : T[h] = Cell(disk', c2[h])
  BY DEF Contents
<1>26. ASSUME NEW h \in 1 .. n + 1
       PROVE  /\ h < i => T[h] = S[h]
              /\ h = i => T[h] = left
              /\ h = i + 1 => T[h] = right
              /\ h > i + 1 => T[h] = S[h - 1]
  <2> HIDE DEF S, T
  <2>1. T[h] = Cell(disk', c2[h])
    BY <1>25
  <2>2. CASE h < i
    <3>1. h \in 1 .. n /\ h <= i /\ h # i
      BY <2>2
    <3>2. QED
      BY <1>21, <1>23, <1>24, <2>1, <2>2, <3>1
  <2>3. CASE h = i
    <3>1. c2[i] = c[i]
      BY <1>23, <2>3
    <3>2. QED
      BY <1>18, <1>20, <2>1, <2>3, <3>1
  <2>4. CASE h = i + 1
    BY <1>13, <1>19, <1>21, <1>22, <1>23, <2>1, <2>4
  <2>5. CASE h > i + 1
    <3>1. h - 1 \in 1 .. n /\ h - 1 # i
      BY <2>5
    <3>2. QED
      BY <1>21, <1>23, <1>24, <2>1, <2>5, <3>1
  <2>6. QED
    BY <2>2, <2>3, <2>4, <2>5
<1>27. T \in [1 .. n + 1 -> Leaf]
  <2>1. \A h \in 1 .. n : S[h] \in Leaf
    BY <1>9 DEF Ordered
  <2>2. left \in Leaf /\ right \in Leaf
    BY <1>14 DEF Halves
  <2>3. \A h \in 1 .. n + 1 : T[h] \in Leaf
    <3>1. TAKE h \in 1 .. n + 1
    <3>2. h < i \/ h = i \/ h = i + 1 \/ h > i + 1
      OBVIOUS
    <3>3. (h < i => h \in 1 .. n) /\ (h > i + 1 => h - 1 \in 1 .. n)
      OBVIOUS
    <3> HIDE DEF S, T
    <3>4. QED
      BY <1>26, <2>1, <2>2, <3>2, <3>3
  <2>4. T = [h \in 1 .. n + 1 |-> T[h]]
    BY DEF Contents
  <2> HIDE DEF T
  <2>5. QED
    BY <2>3, <2>4
<1>28. /\ Spreads(n, S, i, ins, n2, T, old)
       /\ \A f : Holds(n2, T, f) <=> Holds(n, S, f) \/ f = ins
  <2> HIDE DEF S, T
  <2>1. Parted(n, S, i, left, right, T)
    BY <1>26, <1>27 DEF Parted
  <2>2. Ordered(n, S) /\ Halves(S[i], ins, left, right) /\ ins \in Input
    BY <1>9, <1>14
  <2>3. Spreads(n, S, i, ins, n + 1, T, OldPlaces(n, i)) /\ Gains(n, S, n + 1, T, ins)
    BY <2>1, <2>2, HalvesSpread
  <2>4. QED
    BY <2>3 DEF OldPlaces, Gains
<1>29. Ordered(n2, T)
  <2>1. \A h \in 1 .. n + 1 : T[h] # << >>
    <3>1. left # << >> /\ right # << >>
      BY <1>14 DEF Halves
    <3>2. \A h \in 1 .. n : n > 1 => S[h] # << >>
      BY <1>9 DEF Ordered
    <3>3. TAKE h \in 1 .. n + 1
    <3>4. h < i \/ h = i \/ h = i + 1 \/ h > i + 1
      OBVIOUS
    <3>5. (h < i => h \in 1 .. n /\ n > 1) /\ (h > i + 1 => h - 1 \in 1 .. n /\ n > 1)
      OBVIOUS
    <3> HIDE DEF S, T
    <3>6. QED
      BY <1>26, <3>1, <3>2, <3>4, <3>5
  <2>2. n2 \in Nat
    OBVIOUS
  <2> HIDE DEF S, T, old, n2
  <2>3. Spreads(n, S, i, ins, n2, T, old) /\ \A h \in 1 .. n2 : T[h] # << >>
    BY <1>28, <2>1 DEF n2
  <2>4. QED
    BY <1>9, <2>2, <2>3, SpreadOrdered
<1>30. ASSUME NEW root, NEW height, Rooted(disk, root, height, n, c, 0),
              height = 1 => treeHeight = 1 /\ root = rootPid
       PROVE  Rooted(disk', root, height, n2, c2, x2)
  <2>1. height = 1 => Inner(disk, root, n, c, 0)
    BY <1>30 DEF Rooted
  <2>2. height = 1 => (\A h \in 1 .. n : c[h] # root) /\ root \in 1 .. Len(disk) - 1
    BY <2>1 DEF Inner
  <2>3. height = 1 => Cell(disk', root) = Cell(disk, root) /\ Link(disk', root) = Link(disk, root)
    <3>1. height = 1 => root # p
      BY <1>18, <2>2
    <3>2. QED
      BY <1>21, <2>2, <3>1
  <2>4. height = 1 => Fits(disk, root, height, n, c, i, ins.key)
    BY <1>7, <1>30
  <2>5. height = 1 => \A h \in 1 .. n2 : c2[h] # root
    <3>1. SUFFICES ASSUME height = 1, NEW h \in 1 .. n + 1 PROVE c2[h] # root
      OBVIOUS
    <3>2. root # q
      BY <1>13, <1>30, <3>1
    <3>3. h <= i \/ h = i + 1 \/ h > i + 1
      OBVIOUS
    <3>4. (h <= i => h \in 1 .. n) /\ (h > i + 1 => h - 1 \in 1 .. n)
      OBVIOUS
    <3>5. QED
      BY <1>23, <2>2, <3>1, <3>2, <3>3, <3>4
  <2>6. ASSUME NEW j \in 1 .. n - 1
        PROVE  /\ c2[PlaceUnder(x2, j)] = c[j + 1]
               /\ \A h \in 1 .. n2 : h < PlaceUnder(x2, j) <=> old[h] < j + 1
    <3>1. CASE j < i
      <4>1. PlaceUnder(x2, j) = j + 1 /\ j + 1 \in 1 .. n + 1 /\ j + 1 <= i
        BY <3>1 DEF PlaceUnder
      <4>2. ASSUME NEW h \in 1 .. n + 1
            PROVE  h < j + 1 <=> old[h] < j + 1
        <5>1. CASE h <= i
          BY <5>1
        <5>2. CASE h > i
          BY <3>1, <5>2
        <5>3. QED
          BY <5>1, <5>2
      <4> HIDE DEF x2
      <4>3. QED
        BY <1>23, <4>1, <4>2
    <3>2. CASE ~(j < i)
      <4>1. PlaceUnder(x2, j) = j + 2 /\ j + 2 \in 1 .. n + 1 /\ j + 2 > i + 1 /\ (j + 2) - 1 = j + 1
        BY <3>2 DEF PlaceUnder
      <4>2. ASSUME NEW h \in 1 .. n + 1
            PROVE  h < j + 2 <=> old[h] < j + 1
        <5>1. CASE h <= i
          BY <3>2, <5>1
        <5>2. CASE h > i
          BY <5>2
        <5>3. QED
          BY <5>1, <5>2
      <4> HIDE DEF x2
      <4>3. QED
        BY <1>23, <4>1, <4>2
    <3>3. QED
      BY <3>1, <3>2
  <2>7. Spreads(n, Contents(disk, n, c), i, ins, n2, Contents(disk', n2, c2), old)
    BY <1>28
  <2>8. n2 = n + (IF x2 = 0 THEN 0 ELSE 1) /\ x2 \in Nat /\ n2 \in Nat
    OBVIOUS
  <2>9. Len(disk') \in Nat /\ Len(disk') >= Len(disk) /\ c2[1] = c[1]
    BY <1>3, <1>20, <1>23
  <2> HIDE DEF old, n2, x2
  <2>10. QED
    BY <1>3, <1>30, <2>3, <2>4, <2>5, <2>6, <2>7, <2>8, <2>9, SpreadRooted
<1>31. Grows(disk', rootPid', treeHeight', n2, c2, x2)
  <2>1. Rooted(disk, rootPid, treeHeight, n, c, 0) /\ (treeHeight = 0 => n = 1)
    BY <1>9 DEF Grows
  <2>2. Rooted(disk', rootPid, treeHeight, n2, c2, x2)
    BY <1>30, <2>1
  <2>3. treeHeight = 0 => n2 = IF x2 = 0 THEN 1 ELSE 2
    BY <2>1
  <2> HIDE DEF n2, x2
  <2>4. QED
    BY <1>16, <2>2, <2>3 DEF Grows
<1>32. TreeSaved' => Rooted(disk', SavedId'.sid, SavedId'.pid, n2, c2, x2)
  <2>1. TreeSaved => Rooted(disk', SavedId.sid, SavedId.pid, n2, c2, x2)
    BY <1>8, <1>30 DEF Placing
  <2>2. QED
    BY <1>20, <2>1
<1>33. \A e \in Input : e \in Visible' <=> Holds(n2, T, e)
  <2>1. Visible = entries /\ Visible' = entries \cup {ins}
    BY <1>4, <1>16 DEF Visible
  <2>2. \A e \in Input : e \in Visible <=> Holds(n, S, e)
    BY <1>2 DEF Shape
  <2>3. QED
    BY <1>28, <2>1, <2>2
<1>34. Types'
  BY <1>9, <1>16, <1>20 DEF Inv, Types, Same
<1>35. x2 \in 2 .. n2 /\ c2[x2] = q
  BY <1>23
<1>36. Above0' = Above0
  <2>1. treeHeight = 1 => rootPid \in 1 .. Len(disk) - 1 /\ rootPid # p
    BY <1>9, <1>18 DEF Grows, Rooted, Inner
  <2>2. treeHeight = 1 => Step(rootPid)' = Step(rootPid)
    BY <1>16, <1>21, <2>1 DEF Step
  <2>3. QED
    BY <1>9, <1>16, <2>2 DEF Above0
<1>37. up'.key = Cell(disk', c2[x2])[1].key
  BY <1>13, <1>14, <1>17, <1>19, <1>21, <1>22, <1>35
<1> HIDE DEF n2, x2, T
<1>38. Writing(n2, c2, x2)'
  <2>1. TreeSaved /\ SavedId.pid = 1 => treeHeight = 1 /\ rootPid = SavedId.sid
    BY <1>8 DEF Placing
  <2>2. QED
    BY <1>5, <1>9, <1>16, <1>17, <1>20, <1>31, <1>35, <1>36, <1>37, <2>1 DEF Writing
<1>39. Shape(n2, c2, x2)'
  <2>1. Linked(disk', n2, c2) /\ Ordered(n2, Contents(disk', n2, c2))
        /\ \A e \in Input : e \in Visible' <=> Holds(n2, Contents(disk', n2, c2), e)
    BY <1>23, <1>29, <1>33 DEF n2, T
  <2>2. QED
    BY <1>9, <1>16, <1>32, <1>35, <1>38, <2>1 DEF Shape
<1>40. n2 \in Nat /\ c2 \in [1 .. n2 -> 1 .. Len(disk') - 1] /\ x2 \in {0} \cup 2 .. n2
  BY <1>23, <1>35 DEF n2
<1>41. QED
  BY <1>20, <1>34, <1>39, <1>40 DEF Inv

-----------------------------------------------------------------------------
(* The separator comes into the tree: no leaf is missed any more. *)

\* Inner node m leads to the n leaves S, which are the pages c.
NodeOver(m, n, c, S) ==
  /\ Len(m) \in 1 .. NONLEAF_MAX /\ n = Len(m) + 1
  /\ \A j \in 1 .. Len(m) : m[j].val = c[j + 1] /\ Divides(n, S, j + 1, m[j].key)

LEMMA InnerOver ==
  ASSUME NEW d, NEW root, NEW n, NEW c
  PROVE  Inner(d, root, n, c, 0) <=>
           /\ root \in 1 .. Len(d) - 1 /\ \A i \in 1 .. n : c[i] # root
           /\ Link(d, root) = c[1] /\ NodeOver(Cell(d, root), n, c, Contents(d, n, c))
<1>1. \A j : PlaceUnder(0, j) = j + 1
  BY DEF PlaceUnder
<1>2. n = Len(Cell(d, root)) + 1 + (IF 0 = 0 THEN 0 ELSE 1) <=> n = Len(Cell(d, root)) + 1 + 0
  OBVIOUS
<1>3. ASSUME Len(Cell(d, root)) \in 1 .. NONLEAF_MAX
      PROVE  Len(Cell(d, root)) + 1 + 0 = Len(Cell(d, root)) + 1
  BY <1>3, FanoutAssumption
<1>4. QED
  BY <1>1, <1>2, <1>3 DEF Inner, NodeOver

LEMMA EntryKeys ==
  \A e \in Entries : e.key \in Int
<1>1. \A k \in (Key \cup {1}) \ {0} : k \in Int
  BY KeyAssumption
<1>2. QED
  BY <1>1 DEF Entries

\* The first key of a leaf divides the leaves.
LEMMA FirstDivides ==
  ASSUME Plain, NEW n \in Nat, NEW S, Ordered(n, S), NEW i \in 2 .. n
  PROVE  /\ 1 \in 1 .. Len(S[i]) /\ S[i][1] \in Input /\ S[i][1].key \in Int
         /\ Divides(n, S, i, S[i][1].key)
<1>1. i \in 1 .. n /\ S[i] \in Leaf /\ S[i] # << >>
  BY DEF Ordered
<1>2. S[i] \in Seq(Input) /\ Len(S[i]) \in Nat
  BY <1>1, LeafNodes
<1>3. 1 \in 1 .. Len(S[i])
  BY <1>1, <1>2, EmptySeq
<1>4. S[i][1] \in Input /\ S[i][1].key \in Int
  BY <1>1, <1>3, LeafNodes
<1>5. ASSUME NEW h \in 1 .. n, NEW a \in 1 .. Len(S[h])
      PROVE  IF h < i THEN S[h][a].key < S[i][1].key ELSE S[i][1].key <= S[h][a].key
  <2>1. S[h] \in Leaf
    BY DEF Ordered
  <2>2. S[h][a].key \in Int /\ Len(S[h]) \in Nat
    BY <2>1, LeafNodes
  <2>3. CASE h < i
    BY <1>1, <1>3, <2>3 DEF Ordered
  <2>4. CASE h = i /\ a = 1
    BY <1>4, <2>4
  <2>5. CASE ~(h < i) /\ ~(h = i /\ a = 1)
    <3>1. i < h \/ (i = h /\ 1 < a)
      BY <2>2, <2>5
    <3>2. S[i][1].key < S[h][a].key
      BY <1>1, <1>3, <3>1 DEF Ordered
    <3>3. QED
      BY <1>4, <2>2, <2>5, <3>2
  <2>6. QED
    BY <2>3, <2>4, <2>5
<1>6. QED
  BY <1>3, <1>4, <1>5 DEF Divides

\* The separator belongs in front of the leaf that the inner node misses.
LEMMA SeparatorPlace ==
  ASSUME Plain, disk \in Seq(Pages), NEW n \in Nat, NEW c, NEW x \in 2 .. n, NEW root,
         Inner(disk, root, n, c, x), Ordered(n, Contents(disk, n, c)),
         NEW k, k = Contents(disk, n, c)[x][1].key
  PROVE  PlaceOf(Cell(disk, root), Above(Cell(disk, root), k)) = x - 1
<1> DEFINE S == Contents(disk, n, c)
           m == Cell(disk, root)
           at == Above(m, k)
<1>1. /\ root \in 0 .. Len(disk) - 1 /\ Len(m) \in 1 .. NONLEAF_MAX /\ n = Len(m) + 2
      /\ \A j \in 1 .. Len(m) : Divides(n, S, PlaceUnder(x, j), m[j].key)
  BY FanoutAssumption DEF Inner
<1>2. m \in Seq(Entries) /\ Len(m) \in Nat /\ \A j \in 1 .. Len(m) : m[j].key \in Int
  <2>1. m \in Nodes
    BY <1>1, ReadPage
  <2> HIDE DEF m
  <2>2. QED
    BY <2>1, NodeKeys
<1>3. x \in 1 .. n /\ 1 \in 1 .. Len(S[x]) /\ k = S[x][1].key /\ k \in Int
  BY FirstDivides
<1> HIDE DEF S, m
<1>4. ASSUME NEW j \in 1 .. Len(m)
      PROVE  /\ j + 1 < x => m[j].key <= k
             /\ ~(j + 1 < x) => k < m[j].key
  <2>1. Divides(n, S, PlaceUnder(x, j), m[j].key)
    BY <1>1
  <2>2. IF x < PlaceUnder(x, j) THEN k < m[j].key ELSE m[j].key <= k
    BY <1>3, <2>1 DEF Divides
  <2>3. /\ j + 1 < x => ~(x < PlaceUnder(x, j))
        /\ ~(j + 1 < x) => x < PlaceUnder(x, j)
    BY <1>2 DEF PlaceUnder
  <2>4. QED
    BY <2>2, <2>3
<1>5. /\ at \in 0 .. Len(m)
      /\ at = 0 => \A i \in 1 .. Len(m) : m[i].key <= k
      /\ at # 0 => m[at].key > k /\ \A i \in 1 .. at - 1 : m[i].key <= k
  BY <1>2, <1>3, EntryKeys, AboveSplits
<1> HIDE DEF at
<1>6. ASSUME at = 0
      PROVE  PlaceOf(m, at) = x - 1
  <2>1. Len(m) \in 1 .. Len(m)
    BY <1>1
  <2>2. m[Len(m)].key <= k /\ m[Len(m)].key \in Int
    BY <1>2, <1>5, <1>6, <2>1
  <2>3. Len(m) + 1 < x
    BY <1>3, <1>4, <2>1, <2>2
  <2>4. x - 1 = Len(m) + 1
    BY <1>1, <1>2, <2>3
  <2>5. QED
    BY <1>6, <2>4 DEF PlaceOf
<1>7. ASSUME at # 0
      PROVE  PlaceOf(m, at) = x - 1
  <2>1. at \in 1 .. Len(m) /\ m[at].key > k /\ m[at].key \in Int
    BY <1>2, <1>5, <1>7
  <2>2. ~(at + 1 < x)
    BY <1>3, <1>4, <2>1
  <2>3. CASE at = 1
    BY <1>7, <2>2, <2>3 DEF PlaceOf
  <2>4. CASE at > 1
    <3>1. at - 1 \in 1 .. Len(m) /\ at - 1 \in 1 .. at - 1
      BY <1>2, <2>1, <2>4
    <3>2. m[at - 1].key <= k /\ m[at - 1].key \in Int
      BY <1>2, <1>5, <1>7, <3>1
    <3>3. (at - 1) + 1 < x
      BY <1>3, <1>4, <3>1, <3>2
    <3>4. at = x - 1
      BY <1>2, <2>1, <2>2, <3>3
    <3>5. QED
      BY <1>7, <3>4 DEF PlaceOf
  <2>5. QED
    BY <1>2, <2>1, <2>3, <2>4
<1>8. QED
  BY <1>6, <1>7 DEF at, m

LEMMA SeparatorPlaced ==
  ASSUME Plain, disk \in Seq(Pages), NEW n \in Nat, NEW c, Linked(disk, n, c),
         NEW x \in 2 .. n, NEW root,
         Inner(disk, root, n, c, x), Ordered(n, Contents(disk, n, c)),
         NEW k, k = Contents(disk, n, c)[x][1].key,
         ~NonLeafFull(Cell(disk, root))
  PROVE  /\ NonLeafPlaced(Cell(disk, root), Entry(k, c[x])) \in Nodes
         /\ NodeOver(NonLeafPlaced(Cell(disk, root), Entry(k, c[x])), n, c, Contents(disk, n, c))
<1> DEFINE S == Contents(disk, n, c)
           m == Cell(disk, root)
           e == Entry(k, c[x])
           m2 == NonLeafPlaced(m, e)
<1>1. /\ root \in 0 .. Len(disk) - 1 /\ Len(m) \in 1 .. NONLEAF_MAX /\ n = Len(m) + 2
      /\ \A j \in 1 .. Len(m) : m[j].val = c[PlaceUnder(x, j)] /\ Divides(n, S, PlaceUnder(x, j), m[j].key)
  BY FanoutAssumption DEF Inner
<1>2. m \in Seq(Entries) /\ Len(m) \in Nat
  <2>1. m \in Nodes
    BY <1>1, ReadPage
  <2> HIDE DEF m
  <2>2. QED
    BY <2>1, NodeKeys
<1>3. S[x][1] \in Input /\ k = S[x][1].key /\ k \in Int /\ Divides(n, S, x, k)
  BY FirstDivides
<1>4. PlaceOf(m, Above(m, k)) = x - 1
  BY SeparatorPlace
<1>5. e \in Entries /\ e.key = k /\ e.val = c[x]
  <2>1. c[x] \in Int
    <3>1. x \in 1 .. n
      OBVIOUS
    <3>2. QED
      BY <3>1 DEF Linked
  <2>2. k \in Key /\ k # 0
    BY <1>3, InputEntries
  <2>3. QED
    BY <2>1, <2>2 DEF Entries, Entry
<1>6. Above(m, k) \in 0 .. Len(m)
  <2> HIDE DEF m
  <2>1. QED
    BY <1>2, <1>3, EntryKeys, AboveSplits
<1> HIDE DEF S, m, e
<1>7. m2 = Placed(m, Above(m, k), e)
  BY <1>5 DEF NonLeafPlaced
<1> HIDE DEF m2
<1>8. /\ m2 \in Seq(Entries) /\ Len(m2) = Len(m) + 1
      /\ \A i \in 1 .. x - 1 - 1 : m2[i] = m[i]
      /\ m2[x - 1] = e
      /\ \A i \in x - 1 + 1 .. Len(m) + 1 : m2[i] = m[i - 1]
  <2>1. PICK at : at = Above(m, k)
    OBVIOUS
  <2>2. at \in 0 .. Len(m) /\ m2 = Placed(m, at, e) /\ PlaceOf(m, at) = x - 1
    BY <1>4, <1>6, <1>7, <2>1
  <2>3. m \in Seq(Entries) /\ e \in Entries /\ at \in 0 .. Len(m)
    BY <1>2, <1>5, <2>2
  <2>4. /\ Placed(m, at, e) \in Seq(Entries)
        /\ Len(Placed(m, at, e)) = Len(m) + 1
        /\ \A i \in 1 .. PlaceOf(m, at) - 1 : Placed(m, at, e)[i] = m[i]
        /\ Placed(m, at, e)[PlaceOf(m, at)] = e
        /\ \A i \in PlaceOf(m, at) + 1 .. Len(m) + 1 : Placed(m, at, e)[i] = m[i - 1]
    BY ONLY PlacedAt, <2>3
  <2>5. QED
    BY <2>2, <2>4
<1>9. Len(m) # NONLEAF_MAX /\ Len(m2) \in 1 .. NONLEAF_MAX /\ n = Len(m2) + 1
  <2>1. Len(m) # NONLEAF_MAX
    BY DEF NonLeafFull, m
  <2>2. QED
    BY <1>1, <1>2, <1>8, <2>1, FanoutAssumption
<1>10. m2 \in Nodes
  BY <1>8, <1>9, BiggestNode, FanoutAssumption DEF Nodes
<1>11. ASSUME NEW j \in 1 .. Len(m2)
       PROVE  m2[j].val = c[j + 1] /\ Divides(n, S, j + 1, m2[j].key)
  <2>1. CASE j < x - 1
    <3>1. j \in 1 .. Len(m) /\ j \in 1 .. x - 1 - 1 /\ PlaceUnder(x, j) = j + 1
      BY <1>1, <1>2, <1>8, <2>1 DEF PlaceUnder
    <3>2. QED
      BY <1>1, <1>8, <3>1
  <2>2. CASE j = x - 1
    <3>1. j + 1 = x /\ m2[j] = e
      BY <1>8, <2>2
    <3>2. QED
      BY <1>3, <1>5, <3>1
  <2>3. CASE j > x - 1
    <3>1. j - 1 \in 1 .. Len(m) /\ j \in x - 1 + 1 .. Len(m) + 1 /\ PlaceUnder(x, j - 1) = j + 1
      BY <1>1, <1>2, <1>8, <2>3 DEF PlaceUnder
    <3>2. m2[j] = m[j - 1]
      BY <1>8, <3>1
    <3>3. QED
      BY <1>1, <3>1, <3>2
  <2>4. QED
    BY <1>2, <1>8, <2>1, <2>2, <2>3
<1>12. QED
  BY <1>9, <1>10, <1>11 DEF NodeOver, m2, m, e, S

\* The separator's entry is handed up with the new leaf on disk.
LEMMA UpIs ==
  ASSUME Types, NEW n \in Nat, NEW c, NEW x, Shape(n, c, x), pc = "up"
  PROVE  /\ mode = "w" /\ ~crashed /\ rootPid # -1
         /\ Linked(disk, n, c) /\ Ordered(n, Contents(disk, n, c))
         /\ Grows(disk, rootPid, treeHeight, n, c, x) /\ treeHeight \in {0, 1}
         /\ x \in 2 .. n /\ up.pid = c[x] /\ up.rc = 0
         /\ up.key = Contents(disk, n, c)[x][1].key
         /\ stack = Above0 /\ ins \in Input
         /\ TreeSaved => /\ Rooted(disk, SavedId.sid, SavedId.pid, n, c, x)
                         /\ SavedId.pid = 1 => treeHeight = 1 /\ SavedId.sid = rootPid
<1>1. mode = "w" /\ ~crashed /\ Writing(n, c, x)
  BY DEF Types, Shape
<1>2. /\ rootPid # -1 /\ Grows(disk, rootPid, treeHeight, n, c, x) /\ ins \in Input
      /\ x \in 2 .. n /\ up.pid = c[x] /\ up.rc = 0
      /\ up.key = Cell(disk, c[x])[1].key
      /\ stack = Above0
      /\ TreeSaved /\ SavedId.pid = 1 => treeHeight = 1 /\ rootPid = SavedId.sid
  BY <1>1 DEF Writing
<1>3. treeHeight \in {0, 1}
  BY <1>2 DEF Grows, Rooted
<1>4. Contents(disk, n, c)[x] = Cell(disk, c[x])
  <2>1. x \in 1 .. n
    BY <1>2
  <2>2. QED
    BY <2>1 DEF Contents
<1>5. /\ Linked(disk, n, c) /\ Ordered(n, Contents(disk, n, c))
      /\ TreeSaved => Rooted(disk, SavedId.sid, SavedId.pid, n, c, x)
  BY DEF Shape
<1>6. QED
  BY <1>1, <1>2, <1>3, <1>4, <1>5

LEMMA NonLeafInsertInv ==
  ASSUME Inv, Plain, nonleaf_insert
  PROVE  Inv' /\ TreeSaved' = TreeSaved
<1>1. PICK n \in Nat : \E c \in [1 .. n -> 1 .. Len(disk) - 1], x \in {0} \cup 2 .. n : Shape(n, c, x)
  BY DEF Inv
<1>2. PICK c \in [1 .. n -> 1 .. Len(disk) - 1], x \in {0} \cup 2 .. n : Shape(n, c, x)
  BY <1>1
<1>3. Types /\ disk \in Seq(Pages) /\ FirstPage(disk) /\ Len(disk) \in Nat
  BY LenProperties DEF Inv, Types
<1>4. pc = "up"
  BY DEF nonleaf_insert
<1> DEFINE S == Contents(disk, n, c)
<1>5. /\ mode = "w" /\ ~crashed /\ rootPid # -1
      /\ Linked(disk, n, c) /\ Ordered(n, S)
      /\ Grows(disk, rootPid, treeHeight, n, c, x) /\ treeHeight \in {0, 1}
      /\ x \in 2 .. n /\ up.pid = c[x] /\ up.rc = 0
      /\ up.key = S[x][1].key
      /\ stack = Above0 /\ ins \in Input
      /\ TreeSaved => /\ Rooted(disk, SavedId.sid, SavedId.pid, n, c, x)
                      /\ SavedId.pid = 1 => treeHeight = 1 /\ SavedId.sid = rootPid
  BY <1>2, <1>3, <1>4, UpIs
<1>6. treeHeight = 1 /\ stack = <<Step(rootPid)>> /\ Top = Step(rootPid)
  <2>1. treeHeight = 1 /\ stack = <<Step(rootPid)>>
    BY <1>5 DEF nonleaf_insert, Above0
  <2>2. QED
    BY <2>1 DEF Top
<1>7. Inner(disk, rootPid, n, c, x)
  BY <1>5, <1>6 DEF Grows, Rooted
<1>8. PICK p : p = rootPid
  OBVIOUS
<1>9. p \in 1 .. Len(disk) - 1 /\ (\A i \in 1 .. n : c[i] # p) /\ Link(disk, p) = c[1]
      /\ p \in Nat /\ p # 0 /\ p <= Len(disk) + 1 /\ n \in Nat /\ n > 0
  BY <1>3, <1>5, <1>7, <1>8 DEF Inner
<1>10. PICK k : k = up.key
  OBVIOUS
<1>11. PICK m2 : m2 = NonLeafPlaced(Cell(disk, p), Entry(k, c[x]))
  OBVIOUS
<1>12. /\ Top.pid = p /\ Top.m = Cell(disk, p) /\ Top.last = c[1]
       /\ Separator = Entry(k, c[x])
  BY <1>5, <1>6, <1>8, <1>9, <1>10 DEF Step, Separator
<1>13. m2 \in Nodes /\ NodeOver(m2, n, c, S)
  <2>1. ~NonLeafFull(Cell(disk, p))
    BY <1>12 DEF nonleaf_insert
  <2>2. Inner(disk, p, n, c, x) /\ k = S[x][1].key
    BY <1>5, <1>7, <1>8, <1>10
  <2>3. QED
    BY <1>3, <1>5, <1>11, <2>1, <2>2, SeparatorPlaced
<1>14. c[1] \in PidSet
  BY <1>9 DEF PidSet, Linked
<1>15. Page(m2, c[1]) \in Pages /\ Page(m2, c[1]).entries = m2 /\ Page(m2, c[1]).last = c[1]
  BY <1>13, <1>14 DEF Page, Pages
<1>16. Write(p, Page(m2, c[1]), TRUE) /\ Return(0) /\ UNCHANGED objVars
  <2>1. WriteOk(p) = {TRUE}
    BY <1>9, WritesWork
  <2>2. QED
    BY <1>11, <1>12, <2>1 DEF nonleaf_insert
<1>17. /\ pc' = "idle" /\ entries' = entries \cup {ins} /\ crashed' = crashed
       /\ mode' = mode /\ rootPid' = rootPid /\ treeHeight' = treeHeight
  BY <1>16 DEF Return, objVars
<1>18. /\ Same(disk, disk', p) /\ Cell(disk', p) = m2 /\ Link(disk', p) = c[1]
       /\ SavedId' = SavedId /\ TreeSaved' = TreeSaved
  BY <1>3, <1>9, <1>15, <1>16, WriteKeeps
<1>19. /\ Linked(disk', n, c) /\ c \in [1 .. n -> 1 .. Len(disk') - 1]
       /\ Contents(disk', n, c) = S
  BY <1>3, <1>5, <1>9, <1>18, TreeKeeps
<1>20. Inner(disk', rootPid, n, c, 0)
  <2>1. p \in 1 .. Len(disk') - 1
    <3>1. Len(disk') \in Nat /\ Len(disk') >= Len(disk)
      BY <1>18, LenProperties DEF Same
    <3>2. QED
      BY <1>3, <1>9, <3>1
  <2> HIDE DEF S
  <2>2. Inner(disk', p, n, c, 0)
    BY <1>9, <1>13, <1>18, <1>19, <2>1, InnerOver
  <2>3. QED
    BY <1>8, <2>2
<1>21. Grows(disk', rootPid', treeHeight', n, c, 0)
  BY <1>6, <1>9, <1>17, <1>20 DEF Grows, Rooted
<1>22. TreeSaved' => Rooted(disk', SavedId'.sid, SavedId'.pid, n, c, 0)
  <2>1. TreeSaved => Rooted(disk', SavedId.sid, SavedId.pid, n, c, 0)
    BY <1>5, <1>20 DEF Rooted
  <2>2. QED
    BY <1>18, <2>1
<1>23. \A e \in Input : e \in Visible' <=> Holds(n, S, e)
  <2>1. Visible = entries \cup {ins} /\ Visible' = entries \cup {ins}
    BY <1>4, <1>17 DEF Visible
  <2>2. \A e \in Input : e \in Visible <=> Holds(n, S, e)
    BY <1>2 DEF Shape
  <2>3. QED
    BY <2>1, <2>2
<1>24. Types'
  BY <1>5, <1>17, <1>18 DEF Inv, Types, Same
<1>25. Writing(n, c, 0)'
  BY <1>5, <1>17, <1>18, <1>21 DEF Writing
<1>26. Shape(n, c, 0)'
  BY <1>5, <1>17, <1>19, <1>22, <1>23, <1>25 DEF Shape
<1>27. QED
  BY <1>18, <1>19, <1>24, <1>26 DEF Inv

LEMMA NewRootInv ==
  ASSUME Inv, Plain, new_root
  PROVE  Inv' /\ TreeSaved' = TreeSaved
<1>1. PICK n \in Nat : \E c \in [1 .. n -> 1 .. Len(disk) - 1], x \in {0} \cup 2 .. n : Shape(n, c, x)
  BY DEF Inv
<1>2. PICK c \in [1 .. n -> 1 .. Len(disk) - 1], x \in {0} \cup 2 .. n : Shape(n, c, x)
  BY <1>1
<1>3. Types /\ disk \in Seq(Pages) /\ FirstPage(disk) /\ Len(disk) \in Nat
  BY LenProperties DEF Inv, Types
<1>4. pc = "up"
  BY DEF new_root
<1> DEFINE S == Contents(disk, n, c)
<1>5. /\ mode = "w" /\ ~crashed /\ rootPid # -1
      /\ Linked(disk, n, c) /\ Ordered(n, S)
      /\ Grows(disk, rootPid, treeHeight, n, c, x) /\ treeHeight \in {0, 1}
      /\ x \in 2 .. n /\ up.pid = c[x] /\ up.rc = 0
      /\ up.key = S[x][1].key
      /\ stack = Above0 /\ ins \in Input
      /\ TreeSaved => /\ Rooted(disk, SavedId.sid, SavedId.pid, n, c, x)
                      /\ SavedId.pid = 1 => treeHeight = 1 /\ SavedId.sid = rootPid
  BY <1>2, <1>3, <1>4, UpIs
<1>6. treeHeight = 0
  <2>1. ASSUME treeHeight = 1
        PROVE  FALSE
    <3>1. stack = <<Step(rootPid)>>
      BY <1>5, <2>1 DEF Above0
    <3>2. QED
      BY <3>1 DEF new_root
  <2>2. QED
    BY <1>5, <2>1
<1>7. n = 2 /\ x = 2 /\ rootPid = c[1]
  BY <1>5, <1>6 DEF Grows, Rooted
<1>8. PICK p : p = endPid
  OBVIOUS
<1>9. c[1] \in 1 .. Len(disk) - 1 /\ c[2] \in 1 .. Len(disk) - 1
  BY <1>5, <1>7 DEF Linked
<1>10. /\ p = Len(disk) /\ p \in Nat /\ p # 0 /\ p # -1 /\ p <= Len(disk) + 1
       /\ \A i \in 1 .. n : c[i] # p
  BY <1>3, <1>8, <1>9 DEF endPid
<1>11. PICK k : k = up.key
  OBVIOUS
<1>12. k = S[2][1].key /\ S[2][1] \in Input /\ k \in Int /\ Divides(n, S, 2, k)
  <2>1. 2 \in 2 .. n
    BY <1>7
  <2> HIDE DEF S
  <2>2. QED
    BY <1>5, <1>7, <1>11, <2>1, FirstDivides
<1>13. PICK m2 : m2 = <<Entry(k, c[2])>>
  OBVIOUS
<1>14. m2 \in Nodes /\ NodeOver(m2, n, c, S)
  <2>1. Entry(k, c[2]) \in Entries
    <3>1. k \in Key /\ k # 0 /\ c[2] \in Int
      BY <1>9, <1>12, InputEntries
    <3>2. QED
      BY <3>1 DEF Entries, Entry
  <2>2. m2 \in Seq(Entries) /\ Len(m2) = 1 /\ m2[1] = Entry(k, c[2])
    BY <1>13, <2>1
  <2>3. m2 \in Nodes
    BY <2>2, BiggestNode DEF Nodes
  <2> HIDE DEF S
  <2>4. \A j \in 1 .. Len(m2) : m2[j].val = c[j + 1] /\ Divides(n, S, j + 1, m2[j].key)
    <3>1. m2[1].val = c[2] /\ m2[1].key = k
      BY <2>2 DEF Entry
    <3>2. \A j \in 1 .. Len(m2) : j = 1 /\ j + 1 = 2
      BY <2>2
    <3>3. QED
      BY <1>12, <3>1, <3>2
  <2>5. QED
    BY <1>7, <2>2, <2>3, <2>4, FanoutAssumption DEF NodeOver
<1>15. Page(m2, c[1]) \in Pages /\ Page(m2, c[1]).entries = m2 /\ Page(m2, c[1]).last = c[1]
  BY <1>9, <1>14 DEF Page, Pages, PidSet
<1>16. Write(p, Page(m2, c[1]), TRUE) /\ Return(0) /\ rootPid' = p /\ treeHeight' = 1 /\ mode' = mode
  <2>1. WriteOk(p) = {TRUE}
    BY <1>10, WritesWork
  <2>2. NewRoot = Page(m2, c[1])
    BY <1>5, <1>7, <1>11, <1>13 DEF NewRoot, RootOf
  <2>3. WriteOk(endPid) = {TRUE}
    BY <1>8, <2>1
  <2>4. /\ Write(endPid, NewRoot, TRUE) /\ rootPid' = endPid
        /\ treeHeight' = treeHeight + 1 /\ Return(up.rc) /\ mode' = mode
    BY <2>3 DEF new_root
  <2>5. Return(0)
    BY <1>5, <2>4
  <2>6. Write(p, Page(m2, c[1]), TRUE)
    BY <1>8, <2>2, <2>4
  <2>7. treeHeight' = 1
    BY <1>6, <2>4
  <2>8. rootPid' = p
    BY <1>8, <2>4
  <2>9. QED
    BY <2>4, <2>5, <2>6, <2>7, <2>8
<1>17. /\ pc' = "idle" /\ entries' = entries \cup {ins} /\ crashed' = crashed
  BY <1>16 DEF Return
<1>18. /\ Same(disk, disk', p) /\ Cell(disk', p) = m2 /\ Link(disk', p) = c[1]
       /\ Len(disk') = Len(disk) + 1
       /\ SavedId' = SavedId /\ TreeSaved' = TreeSaved
  <2>1. /\ Same(disk, disk', p) /\ Cell(disk', p) = m2 /\ Link(disk', p) = c[1]
        /\ SavedId' = SavedId /\ TreeSaved' = TreeSaved
    BY <1>3, <1>10, <1>15, <1>16, WriteKeeps
  <2>2. Len(disk') = IF p + 1 > Len(disk) THEN p + 1 ELSE Len(disk)
    BY <1>3, <1>10, <1>15, <1>16, WriteKeeps
  <2>3. QED
    BY <1>3, <1>10, <2>1, <2>2
<1>19. /\ Linked(disk', n, c) /\ c \in [1 .. n -> 1 .. Len(disk') - 1]
       /\ Contents(disk', n, c) = S
  <2>1. Same(disk, disk', p) /\ Len(disk) \in Nat
    BY <1>3, <1>18
  <2>2. Linked(disk, n, c) /\ Avoids(n, c, p)
    BY <1>5, <1>10 DEF Avoids
  <2>3. Within(disk', n, c) /\ Contents(disk', n, c) = Contents(disk, n, c)
    <3> HIDE DEF S
    <3>1. QED
      BY <2>1, <2>2, LeavesKept
  <2>4. QED
    BY <2>3 DEF Within
<1>20. Inner(disk', rootPid', n, c, 0)
  <2>1. p \in 1 .. Len(disk') - 1
    BY <1>3, <1>9, <1>10, <1>18
  <2> HIDE DEF S
  <2>2. Inner(disk', p, n, c, 0)
    BY <1>10, <1>14, <1>18, <1>19, <2>1, InnerOver
  <2>3. QED
    BY <1>16, <2>2
<1>21. Grows(disk', rootPid', treeHeight', n, c, 0)
  BY <1>7, <1>16, <1>20 DEF Grows, Rooted
<1>22. TreeSaved' => Rooted(disk', SavedId'.sid, SavedId'.pid, n, c, 0) /\ SavedId'.pid # 1
  <2>1. TreeSaved => Rooted(disk', SavedId.sid, SavedId.pid, n, c, 0) /\ SavedId.pid # 1
    BY <1>5, <1>6 DEF Rooted
  <2>2. QED
    BY <1>18, <2>1
<1>23. \A e \in Input : e \in Visible' <=> Holds(n, S, e)
  <2>1. Visible = entries \cup {ins} /\ Visible' = entries \cup {ins}
    BY <1>4, <1>17 DEF Visible
  <2>2. \A e \in Input : e \in Visible <=> Holds(n, S, e)
    BY <1>2 DEF Shape
  <2>3. QED
    BY <2>1, <2>2
<1>24. rootPid' \in PidSet /\ rootPid' # -1 /\ treeHeight' \in Nat
  BY <1>10, <1>16 DEF PidSet
<1>25. Types'
  BY <1>5, <1>16, <1>17, <1>18, <1>24 DEF Inv, Types, Same
<1>26. Writing(n, c, 0)'
  BY <1>17, <1>21, <1>22, <1>24 DEF Writing
<1>27. Shape(n, c, 0)'
  BY <1>5, <1>16, <1>17, <1>19, <1>22, <1>23, <1>26 DEF Shape
<1>28. QED
  BY <1>18, <1>19, <1>25, <1>27 DEF Inv

-----------------------------------------------------------------------------
(* Every behaviour in which no inner node is split *)

LEMMA NextInv ==
  ASSUME Inv, Plain, [Next]_vars, ~nonleaf_split
  PROVE  Inv'
<1>1. CASE UNCHANGED vars
  BY <1>1, Quiet DEF vars, objVars, callVars, histVars
<1>2. ASSUME NEW m \in {"r", "w"}, open(m)
      PROVE  Inv'
  BY <1>2, OpenInv
<1>3. CASE open_fails
  BY <1>3, Quiet DEF open_fails, objVars, callVars, histVars
<1>4. CASE close
  BY <1>4, CloseInv
<1>5. CASE Crash
  BY <1>5, CrashInv
<1>6. ASSUME NEW e \in Input, insert_first(e)
      PROVE  Inv'
  BY <1>6, InsertFirstInv
<1>7. ASSUME NEW e \in Input, insert(e)
      PROVE  Inv'
  BY <1>7, InsertInv
<1>8. CASE descend
  BY <1>8, DescendInv
<1>9. CASE descend_fails \/ leaf_unread
  <2>1. pc = "descend"
    BY <1>9 DEF descend_fails, leaf_unread
  <2>2. QED
    BY <1>9, <2>1, WayRead
<1>10. CASE leaf_insert
  BY <1>10, LeafInsertInv
<1>11. CASE leaf_split
  BY <1>11, LeafSplitInv
<1>12. CASE leaf_link
  BY <1>12, LeafLinkInv
<1>13. CASE nonleaf_insert
  BY <1>13, NonLeafInsertInv
<1>14. CASE nonleaf_sibling
  <2>1. pc # "sibling"
    BY DEF Inv, Types, Shape, Writing
  <2>2. QED
    BY <1>14, <2>1 DEF nonleaf_sibling
<1>15. CASE new_root
  BY <1>15, NewRootInv
<1>16. ASSUME NEW k \in Key, locate(k) \/ locate_nothing(k)
       PROVE  Inv'
  BY <1>16, Quiet DEF locate, locate_nothing, callVars, histVars
<1>17. CASE readForward \/ readForward_end
  BY <1>17, Quiet DEF readForward, readForward_end, objVars, callVars, histVars
<1>18. QED
  BY <1>1, <1>2, <1>3, <1>4, <1>5, <1>6, <1>7, <1>8, <1>9, <1>10, <1>11, <1>12, <1>13,
     <1>14, <1>15, <1>16, <1>17 DEF Next, InsertStep

\* As long as no key comes twice, no page fails and no inner node is split,
\* every load keeps a chain of leaves in key order under at most one inner
\* node, whatever order the keys come in and between any two of its writes.
THEOREM Invariant ==
  ASSUME Plain
  PROVE  Spec /\ [][~nonleaf_split]_vars => []Inv
<1>1. Init => Inv
  BY InitInv
<1>2. Inv /\ [Next]_vars /\ [~nonleaf_split]_vars => Inv'
  <2>1. SUFFICES ASSUME Inv, [Next]_vars, [~nonleaf_split]_vars
                 PROVE  Inv'
    OBVIOUS
  <2>2. CASE UNCHANGED vars
    BY <2>1, <2>2, Quiet DEF vars, objVars, callVars, histVars
  <2>3. CASE ~nonleaf_split
    BY <2>1, <2>3, NextInv
  <2>4. QED
    BY <2>1, <2>2, <2>3
<1>3. QED
  BY <1>1, <1>2, PTL DEF Spec

\* The lookups of an open index are exact (locate, locateHelper and the page
\* ids that insert and insertHelper leave behind): a key leads to the entry
\* with the least key from there on, or to nothing when there is none, at
\* every step of every insert.
THEOREM Lookups ==
  ASSUME Plain
  PROVE  Spec /\ [][~nonleaf_split]_vars => []LookupsExact
<1>1. Inv => LookupsExact
  BY InvShows
<1>2. QED
  BY <1>1, Invariant, PTL

\* The root that the last close wrote to page 0 finds every entry too, though
\* an insert has changed the pages since: a load that ends between any two
\* writes loses nothing that was in the index before.
THEOREM SavedRoot ==
  ASSUME Plain
  PROVE  Spec /\ [][~nonleaf_split]_vars => []SavedRootFinds
<1>1. Inv => SavedRootFinds
  BY InvShows
<1>2. QED
  BY <1>1, Invariant, PTL

-----------------------------------------------------------------------------
(* The chain of leaves *)

\* The way down along the first page ids is what it says it is.
LEMMA SpineIs ==
  ASSUME NEW height \in Nat, NEW root, NEW f, f = [h \in 0 .. height |-> f[h]],
         f[0] = root, \A h \in 1 .. height : f[h] = LastAt(f[h - 1])
  PROVE  FirstLeafFrom(root, height) = f[height]
<1> DEFINE Eq(g) == g = [h \in 0 .. height |-> IF h = 0 THEN root ELSE LastAt(g[h - 1])]
           w == CHOOSE g : Eq(g)
<1>1. FirstLeafFrom(root, height) = w[height]
  BY DEF FirstLeafFrom
<1>2. \A h \in 0 .. height : f[h] = IF h = 0 THEN root ELSE LastAt(f[h - 1])
  <2>1. TAKE h \in 0 .. height
  <2>2. CASE h = 0
    BY <2>2
  <2>3. CASE h # 0
    <3>1. h \in 1 .. height
      BY <2>3
    <3>2. QED
      BY <2>3, <3>1
  <2>4. QED
    BY <2>2, <2>3
<1>3. Eq(f)
  BY <1>2
<1>4. Eq(w)
  <2> HIDE DEF Eq
  <2>1. QED
    BY <1>3
<1> HIDE DEF w
<1> DEFINE T == { h \in 0 .. height : w[h] = f[h] }
<1>5. 0 \in T
  BY <1>4
<1>6. ASSUME NEW h \in 0 .. height - 1, h \in T
      PROVE  h + 1 \in T
  <2>1. h + 1 \in 1 .. height /\ h + 1 \in 0 .. height /\ h + 1 # 0 /\ (h + 1) - 1 = h
    OBVIOUS
  <2>2. w[h + 1] = LastAt(w[h]) /\ f[h + 1] = LastAt(f[h])
    BY <1>4, <2>1
  <2>3. QED
    BY <1>6, <2>1, <2>2
<1>7. 0 .. height \subseteq T
  <2> HIDE DEF T
  <2>1. QED
    BY <1>5, <1>6, UpTo
<1>8. height \in 0 .. height
  OBVIOUS
<1>9. w[height] = f[height]
  BY <1>7, <1>8
<1>10. QED
  BY <1>1, <1>9

\* The walk w tries the n leaves from the first one on, and then what is no
\* page.
Visits(w, n, c) ==
  /\ DOMAIN w = 0 .. endPid
  /\ n \in 0 .. endPid
  /\ \A j \in 0 .. endPid : IF 1 + j <= n THEN w[j] = c[1 + j] ELSE NodeAt(w[j]) = << >>

LEMMA RootedVisits ==
  ASSUME disk \in Seq(Pages), NEW n \in Nat, NEW c, NEW x, NEW root, NEW height,
         Linked(disk, n, c), Rooted(disk, root, height, n, c, x)
  PROVE  Visits(LeavesFrom(root, height), n, c)
<1>1. 1 \in 1 .. n /\ height \in {0, 1}
  BY DEF Rooted
<1>2. FirstLeafFrom(root, height) = c[1]
  <2>1. CASE height = 0
    <3> DEFINE f == [h \in 0 .. height |-> root]
    <3>1. f = [h \in 0 .. height |-> f[h]] /\ f[0] = root /\ f[height] = root
          /\ \A h \in 1 .. height : f[h] = LastAt(f[h - 1])
      BY <2>1
    <3>2. height \in Nat
      BY <2>1
    <3> HIDE DEF f
    <3>3. FirstLeafFrom(root, height) = f[height]
      BY <3>1, <3>2, SpineIs
    <3>4. QED
      BY <2>1, <3>1, <3>3 DEF Rooted
  <2>2. CASE height = 1
    <3>1. root \in 0 .. Len(disk) - 1 /\ Link(disk, root) = c[1]
      BY <2>2 DEF Rooted, Inner
    <3>2. LastAt(root) = c[1]
      BY <3>1, ReadPage
    <3> DEFINE f == [h \in 0 .. height |-> IF h = 0 THEN root ELSE c[1]]
    <3>3. f = [h \in 0 .. height |-> f[h]] /\ f[0] = root /\ f[height] = c[1]
      BY <2>2
    <3>4. \A h \in 1 .. height : f[h] = LastAt(f[h - 1])
      BY <2>2, <3>2
    <3>5. height \in Nat
      BY <2>2
    <3> HIDE DEF f
    <3>6. FirstLeafFrom(root, height) = f[height]
      BY <3>3, <3>4, <3>5, SpineIs
    <3>7. QED
      BY <3>3, <3>6
  <2>3. QED
    BY <1>1, <2>1, <2>2
<1>3. /\ n - 1 \in 0 .. endPid /\ DOMAIN WalkFrom(c[1]) = 0 .. endPid
      /\ \A j \in 0 .. endPid :
           IF 1 + j <= n THEN WalkFrom(c[1])[j] = c[1 + j] ELSE NodeAt(WalkFrom(c[1])[j]) = << >>
  BY <1>1, WalkLeaves
<1>4. endPid \in Nat /\ n <= endPid
  <2>1. endPid \in Nat /\ endPid = Len(disk)
    BY ReadPage
  <2>2. n <= Len(disk) - 1
    BY <1>1, <2>1, LeavesFit
  <2>3. QED
    BY <2>1, <2>2
<1>5. QED
  BY <1>2, <1>3, <1>4 DEF Visits, LeavesFrom

LEMMA DeadVisits ==
  ASSUME disk \in Seq(Pages), NEW n, n = 0, NEW c, NEW p, Dead(p)
  PROVE  /\ Visits(WalkFrom(p), n, c)
         /\ \A height \in Nat : Visits(LeavesFrom(p, height), n, c)
<1>1. ASSUME NEW q, Dead(q)
      PROVE  Visits(WalkFrom(q), n, c)
  <2>1. endPid \in Nat
    BY ReadPage
  <2>2. DOMAIN WalkFrom(q) = 0 .. endPid /\ \A j \in 0 .. endPid : NodeAt(WalkFrom(q)[j]) = << >>
    BY <1>1, WalkDead
  <2>3. \A j \in 0 .. endPid : ~(1 + j <= n)
    OBVIOUS
  <2>4. QED
    BY <2>1, <2>2, <2>3 DEF Visits
<1>2. Dead(LastAt(p)) /\ LastAt(LastAt(p)) = LastAt(p)
  <2>1. CASE p \in UninitPid \cup {-1} /\ p \notin 0 .. Len(disk) - 1
    <3>1. p \in Int /\ -1 \in Int /\ -1 \notin 0 .. Len(disk) - 1
      BY <2>1, Pids
    <3>2. LastAt(p) = -1 /\ LastAt(-1) = -1
      BY <2>1, <3>1, ReadPage
    <3>3. QED
      BY <3>2, DeadNone
  <2>2. CASE p \in UninitPid /\ p = 0 /\ Len(disk) > 0 /\ disk[1] = ZeroPage
    <3>1. 0 \in 0 .. Len(disk) - 1
      BY <2>2, ReadPage
    <3>2. LastAt(0) = Link(disk, 0)
      BY <3>1, ReadPage
    <3>3. Link(disk, 0) = 0
      BY <2>2 DEF Link, ZeroPage, Page
    <3>4. QED
      BY <2>2, <3>2, <3>3
  <2>3. QED
    BY <2>1, <2>2 DEF Dead
<1>3. ASSUME NEW height \in Nat
      PROVE  Visits(LeavesFrom(p, height), n, c)
  <2> DEFINE f == [h \in 0 .. height |-> IF h = 0 THEN p ELSE LastAt(p)]
  <2>1. f = [h \in 0 .. height |-> f[h]] /\ f[0] = p /\ f[height] \in {p, LastAt(p)}
    OBVIOUS
  <2>2. \A h \in 1 .. height : f[h] = LastAt(p) /\ f[h - 1] \in {p, LastAt(p)}
    OBVIOUS
  <2> HIDE DEF f
  <2>3. \A h \in 1 .. height : f[h] = LastAt(f[h - 1])
    BY <1>2, <2>2
  <2>4. FirstLeafFrom(p, height) = f[height]
    BY <2>1, <2>3, SpineIs
  <2>5. Dead(FirstLeafFrom(p, height))
    BY <1>2, <2>1, <2>4
  <2>6. QED
    BY <1>1, <2>5 DEF LeavesFrom
<1>4. QED
  BY <1>1, <1>3

\* The chain of leaves is the chain of the invariant.
LEMMA LeavesVisit ==
  ASSUME Types, NEW n \in Nat, NEW c, NEW x, Shape(n, c, x)
  PROVE  Visits(Leaves, n, c)
<1>1. disk \in Seq(Pages) /\ treeHeight \in Nat /\ mode \in {"closed", "r", "w"}
  BY DEF Types
<1>2. Linked(disk, n, c)
  BY DEF Shape
<1>3. CASE mode = "w" /\ rootPid = -1
  <2>1. n = 0 /\ Dead(rootPid)
    BY <1>1, <1>3, DeadNone DEF Shape, Writing
  <2>2. Visits(LeavesFrom(rootPid, treeHeight), n, c)
    BY <1>1, <2>1, DeadVisits
  <2>3. QED
    BY <1>3, <2>2 DEF Leaves
<1>4. CASE mode = "w" /\ rootPid # -1
  <2>1. Rooted(disk, rootPid, treeHeight, n, c, x)
    BY <1>4 DEF Shape, Writing, Grows
  <2>2. Visits(LeavesFrom(rootPid, treeHeight), n, c)
    BY <1>1, <1>2, <2>1, RootedVisits
  <2>3. QED
    BY <1>4, <2>2 DEF Leaves
<1>5. CASE mode # "w" /\ TreeSaved
  <2>1. Rooted(disk, SavedId.sid, SavedId.pid, n, c, x)
    BY <1>5 DEF Shape
  <2>2. Visits(LeavesFrom(SavedId.sid, SavedId.pid), n, c)
    BY <1>1, <1>2, <2>1, RootedVisits
  <2>3. Saved
    BY <1>5 DEF TreeSaved
  <2>4. mode # "closed" => rootPid = SavedId.sid /\ treeHeight = SavedId.pid
    BY <1>1, <1>5, <2>3 DEF Shape, Reading
  <2>5. QED
    BY <2>2, <2>3, <2>4 DEF Leaves
<1>6. CASE mode = "r" /\ ~TreeSaved
  <2>1. n = 0
    BY <1>6 DEF Shape
  <2>2. Dead(rootPid)
    <3>1. Reading
      BY <1>6 DEF Shape
    <3>2. CASE Saved
      BY <1>1, <1>6, <3>1, <3>2, DeadNone DEF Reading, TreeSaved
    <3>3. CASE ~Saved
      BY <3>1, <3>3, Unsaved DEF Reading
    <3>4. QED
      BY <3>2, <3>3
  <2>3. Visits(LeavesFrom(rootPid, treeHeight), n, c)
    BY <1>1, <2>1, <2>2, DeadVisits
  <2>4. QED
    BY <1>6, <2>3 DEF Leaves
<1>7. CASE mode = "closed" /\ ~TreeSaved
  <2>1. n = 0
    BY <1>7 DEF Shape
  <2>2. Dead(-1)
    BY <1>1, DeadNone
  <2>3. Visits(WalkFrom(-1), n, c) /\ \A height \in Nat : Visits(LeavesFrom(-1, height), n, c)
    BY <1>1, <2>1, <2>2, DeadVisits
  <2>4. CASE Saved
    <3>1. SavedId.sid = -1
      BY <1>7, <2>4 DEF TreeSaved
    <3>2. SavedId.pid \in Nat
      BY <2>4, SavedIs DEF Types
    <3>3. Leaves = LeavesFrom(-1, SavedId.pid)
      BY <1>7, <2>4, <3>1 DEF Leaves
    <3>4. QED
      BY <2>3, <3>2, <3>3
  <2>5. CASE ~Saved
    BY <1>7, <2>3, <2>5 DEF Leaves
  <2>6. QED
    BY <2>4, <2>5
<1>8. QED
  BY <1>1, <1>3, <1>4, <1>5, <1>6, <1>7

\* The leaves hold the entries that a lookup must find, and no others.
LEMMA ContentIs ==
  ASSUME Plain, Inv
  PROVE  Content = Visible
<1>1. PICK n \in Nat : \E c \in [1 .. n -> 1 .. Len(disk) - 1], x \in {0} \cup 2 .. n : Shape(n, c, x)
  BY DEF Inv
<1>2. PICK c \in [1 .. n -> 1 .. Len(disk) - 1], x \in {0} \cup 2 .. n : Shape(n, c, x)
  BY <1>1
<1>3. Types /\ disk \in Seq(Pages) /\ endPid \in Nat
  BY ReadPage DEF Inv, Types
<1>4. PICK w : w = Leaves
  OBVIOUS
<1>5. Visits(w, n, c)
  BY <1>2, <1>3, <1>4, LeavesVisit
<1>6. Complete(n, c) /\ Linked(disk, n, c) /\ Ordered(n, Contents(disk, n, c))
  BY <1>2, <1>3, ShapeComplete DEF Shape
<1>7. \A i \in 1 .. n : Contents(disk, n, c)[i] = Cell(disk, c[i]) /\ NodeAt(c[i]) = Cell(disk, c[i])
  BY <1>3, <1>6, LeafPage
<1> DEFINE S == Contents(disk, n, c)
<1>8. \A i \in 1 .. n : S[i] \in Leaf /\ S[i] = NodeAt(c[i])
  BY <1>6, <1>7 DEF Ordered
<1> HIDE DEF S
<1>9. \A i \in 1 .. n : DOMAIN S[i] = 1 .. Len(S[i]) /\ \A a \in 1 .. Len(S[i]) : S[i][a] \in Input
  <2>1. TAKE i \in 1 .. n
  <2>2. S[i] \in Leaf
    BY <1>8
  <2>3. S[i] \in Seq(Input) /\ \A a \in 1 .. Len(S[i]) : S[i][a] \in Input
    BY <2>2, LeafNodes
  <2>4. QED
    BY <2>3, LenProperties
<1>10. Content = UNION { ToSet(NodeAt(w[j])) : j \in 0 .. endPid }
  BY <1>4, <1>5 DEF Content, Visits
<1>11. ASSUME NEW e \in Content
       PROVE  e \in Visible
  <2>1. PICK j \in 0 .. endPid : e \in ToSet(NodeAt(w[j]))
    BY <1>10
  <2>2. PICK a \in DOMAIN NodeAt(w[j]) : e = NodeAt(w[j])[a]
    BY <2>1 DEF ToSet
  <2>3. NodeAt(w[j]) # << >>
    BY <2>2
  <2>4. 1 + j <= n /\ w[j] = c[1 + j]
    BY <1>5, <2>3 DEF Visits
  <2>5. 1 + j \in 1 .. n
    BY <2>4
  <2>6. NodeAt(w[j]) = S[1 + j]
    BY <1>8, <2>4, <2>5
  <2>7. a \in 1 .. Len(S[1 + j]) /\ S[1 + j][a] = e /\ e \in Input
    BY <1>9, <2>2, <2>5, <2>6
  <2>8. Holds(n, S, e)
    BY <2>5, <2>7 DEF Holds
  <2>9. QED
    BY <1>6, <2>7, <2>8 DEF Complete, S
<1>12. ASSUME NEW e \in Visible
       PROVE  e \in Content
  <2>1. Holds(n, S, e)
    BY <1>6 DEF Complete, S
  <2>2. PICK i \in 1 .. n : \E a \in 1 .. Len(S[i]) : S[i][a] = e
    BY <2>1 DEF Holds
  <2>3. e \in ToSet(S[i])
    BY <1>9, <2>2 DEF ToSet
  <2>4. i - 1 \in 0 .. endPid /\ 1 + (i - 1) = i
    BY <1>3, <1>5 DEF Visits
  <2>5. w[i - 1] = c[i]
    BY <1>5, <2>4 DEF Visits
  <2>6. e \in ToSet(NodeAt(w[i - 1]))
    BY <1>8, <2>3, <2>5
  <2>7. QED
    BY <1>10, <2>4, <2>6
<1>13. QED
  BY <1>11, <1>12

\* No step takes an entry away, but the end of the object.
LEMMA VisibleGrows ==
  ASSUME Inv, Plain, [Next]_vars, mode # "closed", mode' # "closed", pc # "descend"
  PROVE  Visible \subseteq Visible'
<1>1. CASE UNCHANGED <<pc, ins, entries>>
  BY <1>1 DEF Visible
<1>2. ASSUME NEW m, open(m)
      PROVE  FALSE
  BY <1>2 DEF open
<1>3. CASE open_fails \/ close \/ Crash
  BY <1>3 DEF open_fails, close, Crash
<1>4. ASSUME NEW e, insert_first(e) \/ insert(e)
      PROVE  Visible \subseteq Visible'
  BY <1>4 DEF insert_first, insert, MayInsert, Visible, histVars
<1>5. CASE descend \/ descend_fails \/ leaf_unread
  BY <1>5 DEF descend, descend_fails, leaf_unread
<1>6. \A rc : Return(rc) => entries \subseteq entries' /\ (rc = 0 => ins \in entries')
  BY DEF Return
<1>7. CASE leaf_insert \/ leaf_split \/ leaf_link
  <2>1. pc \in {"leaf", "left"} /\ entries \subseteq entries'
    BY <1>6, <1>7 DEF leaf_insert, leaf_split, leaf_link, histVars
  <2>2. QED
    BY <2>1 DEF Visible
<1>8. CASE nonleaf_insert
  BY <1>6, <1>8 DEF nonleaf_insert, Visible
<1>9. CASE nonleaf_split \/ nonleaf_sibling
  BY <1>9 DEF nonleaf_split, nonleaf_sibling, Visible, histVars
<1>10. CASE new_root
  <2>1. pc = "up" /\ Return(up.rc)
    BY <1>10 DEF new_root
  <2>2. up.rc = 0
    BY <2>1, UpIs DEF Inv
  <2>3. QED
    BY <1>6, <2>1, <2>2 DEF Visible
<1>11. ASSUME NEW k, locate(k) \/ locate_nothing(k)
       PROVE  UNCHANGED <<pc, ins, entries>>
  BY <1>11 DEF locate, locate_nothing, callVars, histVars
<1>12. CASE readForward \/ readForward_end
  BY <1>1, <1>12 DEF readForward, readForward_end, callVars, histVars
<1>13. CASE UNCHANGED vars
  BY <1>1, <1>13 DEF vars, callVars, histVars
<1>14. QED
  BY <1>1, <1>2, <1>3, <1>4, <1>5, <1>7, <1>8, <1>9, <1>10, <1>11, <1>12, <1>13 DEF Next, InsertStep

\* An entry on the chain of leaves stays on it: no step of an insert takes it
\* off, even between two writes of a split.
THEOREM ChainIsKept ==
  ASSUME Plain
  PROVE  Spec /\ [][~nonleaf_split]_vars => ChainKeeps
<1>1. Inv => Content = Visible
  BY ContentIs
<1>2. Inv /\ Content = Visible /\ (Content = Visible)' /\ [Next]_vars =>
        [mode # "closed" /\ mode' # "closed" /\ pc # "descend" => Content \subseteq Content']_vars
  <2>1. SUFFICES ASSUME Inv, Content = Visible, (Content = Visible)', [Next]_vars,
                        mode # "closed", mode' # "closed", pc # "descend"
                 PROVE  Content \subseteq Content'
    OBVIOUS
  <2>2. Visible \subseteq Visible'
    BY <2>1, VisibleGrows
  <2>3. Content' = Visible'
    BY <2>1
  <2>4. QED
    BY <2>1, <2>2, <2>3
<1>3. QED
  BY <1>1, <1>2, Invariant, PTL DEF Spec, ChainKeeps

\* An insert that returned 0 has put its entry where a lookup finds it, and
\* has taken no other away ("@return error code. 0 if no error"), until an
\* inner node is split.
THEOREM InsertsAreFound ==
  ASSUME Plain
  PROVE  Spec /\ [][~nonleaf_split]_vars => []InsertedFound
<1>1. Inv => InsertedFound
  <2>1. SUFFICES ASSUME Inv, mode = "w", pc = "idle", NEW e \in entries
                 PROVE  EntryAt(LocateFrom(rootPid, treeHeight, e.key)).key = e.key
    BY DEF InsertedFound
  <2>2. e \in Input /\ entries \subseteq Input /\ Visible = entries
    BY <2>1 DEF Inv, Types, Visible
  <2>3. e.key \in Key /\ e.key \in Int /\ e.key # 0
    BY <2>2, InputEntries
  <2> DEFINE from == { f \in Visible : f.key >= e.key }
             best(f) == f \in from /\ \A g \in from : f.key <= g.key
  <2>4. LeastFrom(e.key) = IF from = {} THEN NoEntry ELSE CHOOSE f : best(f)
    BY DEF LeastFrom
  <2>5. e \in from
    BY <2>2, <2>3
  <2>6. best(e)
    BY <2>5
  <2> DEFINE l == CHOOSE f : best(f)
  <2>7. best(l)
    <3> HIDE DEF best
    <3>1. QED
      BY <2>6
  <2>8. LeastFrom(e.key) = l
    BY <2>4, <2>5
  <2> HIDE DEF l
  <2>9. l \in Input /\ l.key \in Int
    BY <2>2, <2>7, InputEntries
  <2>10. l.key = e.key
    BY <2>3, <2>5, <2>7, <2>9
  <2>11. LeastFrom(e.key) # NoEntry
    BY <2>3, <2>8, <2>10 DEF NoEntry, Entry
  <2>12. ExactFrom(rootPid, treeHeight)
    BY <2>1, InvShows DEF LookupsExact
  <2>13. EntryAt(LocateFrom(rootPid, treeHeight, e.key)) = LeastFrom(e.key)
    BY <2>3, <2>11, <2>12 DEF ExactFrom
  <2>14. QED
    BY <2>8, <2>10, <2>13
<1>2. QED
  BY <1>1, Invariant, PTL

-----------------------------------------------------------------------------
(* The reader's cursor *)

\* The cursor is at an entry of a leaf, or off the leaves.
CursorOn(n, c) ==
  LET S == Contents(disk, n, c)
  IN \/ cursor.pid \in UninitPid
     \/ /\ located
        /\ \E i \in 1 .. n : \E a \in 1 .. Len(S[i]) : cursor = [pid |-> c[i], eid |-> a - 1]

Reads ==
  mode = "r" => \E n \in Nat : \E c \in [1 .. n -> 1 .. Len(disk) - 1], x \in {0} \cup 2 .. n :
                  Shape(n, c, x) /\ CursorOn(n, c)

Calls ==
  /\ cursor \in [pid : PidSet, eid : 0 .. LEAF_MAX + 1] /\ located \in BOOLEAN
  /\ mode # "r" => ~located /\ ret.entry = NoEntry
  /\ pc \in {"idle", "descend"} => stack = << >>
  /\ pc \in {"idle", "descend", "leaf"} => up = NotSplit
  /\ ret.rc \in RC /\ opens \in 0 .. MaxOpens

\* What locate comes to in the reader's tree
LEMMA ReaderFinds ==
  ASSUME Types, Plain, mode = "r", NEW n \in Nat, NEW c, NEW x \in {0} \cup 2 .. n,
         Shape(n, c, x), NEW k \in Int
  PROVE  Finds(n, c, rootPid, treeHeight, k)
<1>1. disk \in Seq(Pages) /\ treeHeight \in Nat
  BY DEF Types
<1>2. Linked(disk, n, c) /\ Ordered(n, Contents(disk, n, c)) /\ Reading /\ (~TreeSaved => n = 0)
  BY DEF Shape
<1>3. CASE TreeSaved
  <2>1. Rooted(disk, rootPid, treeHeight, n, c, x)
    BY <1>2, <1>3 DEF Shape, Reading, TreeSaved
  <2>2. LeadsTo(n, c, rootPid, treeHeight, k)
    BY <1>1, <1>2, <2>1, RouteLeads
  <2>3. QED
    BY <1>1, <1>2, <2>2, LookupFinds
<1>4. CASE ~TreeSaved
  <2>1. Dead(rootPid)
    <3>1. CASE Saved
      BY <1>1, <1>2, <1>4, <3>1, DeadNone DEF Reading, TreeSaved
    <3>2. CASE ~Saved
      BY <1>2, <3>2, Unsaved DEF Reading
    <3>3. QED
      BY <3>1, <3>2
  <2>2. LocateFrom(rootPid, treeHeight, k) = NoCursor
    BY <1>1, <2>1, LookupDead
  <2>3. n = 0
    BY <1>2, <1>4
  <2>4. \A h \in 1 .. n : FALSE
    BY <2>3
  <2>5. QED
    BY <2>2, <2>4 DEF Finds
<1>5. QED
  BY <1>3, <1>4

\* A cursor off the leaves is at no entry.
LEMMA OffLeaves ==
  ASSUME disk \in Seq(Pages), NEW cur, cur.pid \in UninitPid, cur.eid \in Nat
  PROVE  cur.pid # 0 => EntryAt(cur) = NoEntry /\ NodeAt(cur.pid) = << >> /\ ~InFile(cur.pid)
<1>1. SUFFICES ASSUME cur.pid # 0
               PROVE  EntryAt(cur) = NoEntry /\ NodeAt(cur.pid) = << >> /\ ~InFile(cur.pid)
  OBVIOUS
<1>2. cur.pid \in Int /\ cur.pid \notin 0 .. Len(disk) - 1
  BY <1>1, Pids
<1>3. NodeAt(cur.pid) = << >> /\ ~InFile(cur.pid)
  BY <1>2, ReadPage
<1>4. ~(cur.eid < Len(<< >>))
  OBVIOUS
<1>5. QED
  BY <1>3, <1>4 DEF EntryAt

\* readForward returns the entry at the cursor and goes on to the next one.
LEMMA ReadNext ==
  ASSUME Types, Plain, NEW n \in Nat, NEW c, Linked(disk, n, c), Ordered(n, Contents(disk, n, c)),
         NEW i \in 1 .. n, NEW a \in 1 .. Len(Contents(disk, n, c)[i]),
         cursor = [pid |-> c[i], eid |-> a - 1], readForward
  PROVE  LET S == Contents(disk, n, c)
         IN /\ ret'.entry = S[i][a]
            /\ \/ a < Len(S[i]) /\ cursor' = [pid |-> c[i], eid |-> a]
               \/ a = Len(S[i]) /\ i < n /\ cursor' = [pid |-> c[i + 1], eid |-> 0]
               \/ a = Len(S[i]) /\ i = n /\ cursor' = [pid |-> Link(disk, c[n]), eid |-> 0]
<1> DEFINE S == Contents(disk, n, c)
<1>1. disk \in Seq(Pages)
  BY DEF Types
<1>2. /\ c[i] \in 0 .. Len(disk) - 1 /\ NodeAt(c[i]) = S[i]
      /\ LastAt(c[i]) = Link(disk, c[i])
  BY <1>1, LeafPage
<1>3. InFile(c[i])
  BY <1>1, <1>2, ReadPage
<1>4. S[i] \in Leaf /\ a \in 1 .. Len(S[i])
  BY DEF Ordered
<1> HIDE DEF S
<1>5. Len(S[i]) \in Nat /\ a - 1 < Len(S[i]) /\ (a - 1) + 1 = a
  BY <1>4, LeafNodes
<1>6. cursor.pid = c[i] /\ cursor.eid = a - 1
  OBVIOUS
<1>7. CanFail("read") = {TRUE}
  BY WritesWork
<1>8. /\ ret' = Returned("readForward", 0,
                  IF cursor.eid < Len(S[i]) THEN S[i][cursor.eid + 1] ELSE NoEntry)
      /\ cursor' = IF AtLast(S[i]) THEN [pid |-> Link(disk, c[i]), eid |-> 0]
                                   ELSE [cursor EXCEPT !.eid = @ + 1]
  BY <1>2, <1>3, <1>6, <1>7 DEF readForward
<1>9. ret'.entry = S[i][a]
  BY <1>5, <1>6, <1>8 DEF Returned
<1>10. AtLast(S[i]) <=> a = Len(S[i])
  BY <1>4, <1>5, <1>6 DEF AtLast
<1>11. CASE a = Len(S[i])
  <2>1. cursor' = [pid |-> Link(disk, c[i]), eid |-> 0]
    BY <1>8, <1>10, <1>11
  <2>2. i < n => Link(disk, c[i]) = c[i + 1]
    <3>1. i < n => i \in 1 .. n - 1
      OBVIOUS
    <3>2. QED
      BY <3>1 DEF Linked
  <2>3. QED
    BY <1>9, <1>11, <2>1, <2>2 DEF S
<1>12. CASE a # Len(S[i])
  <2>1. cursor' = [cursor EXCEPT !.eid = @ + 1]
    BY <1>8, <1>10, <1>12
  <2>2. cursor' = [pid |-> c[i], eid |-> a]
    BY <1>5, <2>1
  <2>3. a < Len(S[i])
    BY <1>4, <1>5, <1>12
  <2>4. QED
    BY <1>9, <2>2, <2>3 DEF S
<1>13. QED
  BY <1>11, <1>12

\* The same where there is no entry
LEMMA ReadNothing ==
  ASSUME Types, Plain, cursor \in [pid : PidSet, eid : Nat], cursor.pid \in UninitPid, readForward
  PROVE  ret'.entry = NoEntry /\ cursor' = [pid |-> cursor.pid, eid |-> cursor.eid + 1]
<1>1. disk \in Seq(Pages) /\ cursor.pid # 0 /\ cursor.eid \in Nat
      /\ cursor = [pid |-> cursor.pid, eid |-> cursor.eid]
  BY DEF Types, readForward
<1>2. ~InFile(cursor.pid)
  BY <1>1, OffLeaves
<1>3. PICK u \in UninitPid :
        /\ ret' = Returned("readForward", 0,
                    IF cursor.eid < Len(<< >>) THEN << >>[cursor.eid + 1] ELSE NoEntry)
        /\ cursor' = IF AtLast(<< >>) THEN [pid |-> u, eid |-> 0]
                                      ELSE [cursor EXCEPT !.eid = @ + 1]
  BY <1>2 DEF readForward
<1>4. ~(cursor.eid < Len(<< >>)) /\ ~AtLast(<< >>)
  <2>1. Len(<< >>) = 0
    OBVIOUS
  <2>2. QED
    BY <1>1, <2>1 DEF AtLast
<1>5. ret'.entry = NoEntry
  BY <1>3, <1>4 DEF Returned
<1>6. cursor' = [cursor EXCEPT !.eid = @ + 1]
  BY <1>3, <1>4
<1>7. QED
  BY <1>1, <1>5, <1>6

-----------------------------------------------------------------------------
(* What the calls leave behind *)

\* A running insert
LEMMA InsertIs ==
  ASSUME Inv, pc # "idle"
  PROVE  /\ mode = "w" /\ ins \in Input /\ ins \notin entries
         /\ pc \in {"descend", "leaf", "left", "up"}
         /\ pc \in {"leaf", "left"} => Top.pid \in 1 .. Len(disk) - 1
         /\ pc = "up" => up.rc = 0
<1>1. PICK n \in Nat : \E c \in [1 .. n -> 1 .. Len(disk) - 1], x \in {0} \cup 2 .. n : Shape(n, c, x)
  BY DEF Inv
<1>2. PICK c \in [1 .. n -> 1 .. Len(disk) - 1], x \in {0} \cup 2 .. n : Shape(n, c, x)
  BY <1>1
<1>3. Types
  BY DEF Inv
<1>4. mode = "w" /\ Writing(n, c, x)
  BY <1>2, <1>3 DEF Shape, Types
<1>5. /\ Grows(disk, rootPid, treeHeight, n, c, x)
      /\ pc \in {"descend", "leaf", "left", "up"}
      /\ ins \in Input /\ ins \notin entries
      /\ pc = "up" => up.rc = 0
  BY <1>4 DEF Writing
<1>6. treeHeight \in {0, 1}
  BY <1>5 DEF Grows, Rooted
<1>7. ASSUME pc \in {"leaf", "left"}
      PROVE  Top.pid \in 1 .. Len(disk) - 1
  <2>1. PICK i \in 1 .. n : \E e : stack = Append(Above0, e) /\ e.pid = c[i]
    <3>1. CASE pc = "leaf"
      <4>1. PICK i \in 1 .. n : stack = Append(Above0, Step(c[i]))
        BY <1>4, <3>1 DEF Writing
      <4>2. Step(c[i]).pid = c[i]
        BY DEF Step
      <4>3. QED
        BY <4>1, <4>2
    <3>2. CASE pc = "left"
      <4>1. PICK i \in 1 .. n :
              stack = Append(Above0, [pid |-> c[i], m |-> LeafSplit(Cell(disk, c[i]), ins).left,
                                      last |-> endPid - 1])
        BY <1>4, <3>2 DEF Writing
      <4>2. QED
        BY <4>1
    <3>3. QED
      BY <1>7, <3>1, <3>2
  <2>2. PICK e : stack = Append(Above0, e) /\ e.pid = c[i]
    BY <2>1
  <2>3. Top = e
    BY <1>6, <2>2, TopIs
  <2>4. QED
    BY <2>2, <2>3
<1>8. QED
  BY <1>4, <1>5, <1>7

\* The call that ends a running insert
LEMMA ReturnIs ==
  ASSUME Inv, Plain, leaf_insert \/ leaf_link \/ nonleaf_insert \/ new_root
  PROVE  \/ Return(0)
         \/ leaf_link /\ pc' = "up" /\ UNCHANGED <<ins, ret, entries, crashed>>
<1>1. pc \in {"leaf", "left", "up"}
  BY DEF leaf_insert, leaf_link, nonleaf_insert, new_root
<1>2. WriteRC(Top.pid, TRUE) = 0 /\ (pc \in {"leaf", "left"} => WriteOk(Top.pid) = {TRUE})
  <2>1. pc \in {"leaf", "left"} => Top.pid \in 1 .. Len(disk) - 1
    BY <1>1, InsertIs
  <2>2. \A p \in 1 .. Len(disk) - 1 : p \in Nat
    OBVIOUS
  <2>3. pc \in {"leaf", "left"} => Top.pid \in Nat
    BY <2>1, <2>2
  <2>4. QED
    BY <2>3, WritesWork DEF WriteRC
<1>3. CASE leaf_insert
  <2>1. pc = "leaf"
    BY <1>3 DEF leaf_insert
  <2>2. Return(IF treeHeight = 0 THEN WriteRC(Top.pid, TRUE) ELSE 0)
    BY <1>2, <1>3, <2>1 DEF leaf_insert
  <2>3. QED
    BY <1>2, <2>2
<1>4. CASE leaf_link
  <2>1. pc = "left"
    BY <1>4 DEF leaf_link
  <2>2. \/ Return(IF treeHeight = 0 THEN WriteRC(Top.pid, TRUE) ELSE 0)
        \/ pc' = "up" /\ UNCHANGED <<ins, ret, histVars>>
    BY <1>2, <1>4, <2>1 DEF leaf_link
  <2>3. QED
    BY <1>2, <1>4, <2>2 DEF histVars
<1>5. CASE nonleaf_insert
  BY <1>5 DEF nonleaf_insert
<1>6. CASE new_root
  <2>1. pc = "up" /\ Return(up.rc)
    BY <1>6 DEF new_root
  <2>2. up.rc = 0
    BY <2>1, InsertIs
  <2>3. QED
    BY <2>1, <2>2
<1>7. QED
  BY <1>3, <1>4, <1>5, <1>6

\* The next state's locate is the one of Finds: its entry is on a page.
LEMMA FoundPlace ==
  ASSUME Inv, Plain, NEW k \in Key, locate(k)
  PROVE  cursor' \in [pid : PidSet, eid : 0 .. LEAF_MAX]
<1>1. PICK n \in Nat : \E c \in [1 .. n -> 1 .. Len(disk) - 1], x \in {0} \cup 2 .. n : Shape(n, c, x)
  BY DEF Inv
<1>2. PICK c \in [1 .. n -> 1 .. Len(disk) - 1], x \in {0} \cup 2 .. n : Shape(n, c, x)
  BY <1>1
<1>3. /\ mode = "r" /\ LocateFrom(rootPid, treeHeight, k) # NoCursor
      /\ cursor' = LocateFrom(rootPid, treeHeight, k)
  BY DEF locate, MayLocate
<1>4. Types /\ disk \in Seq(Pages) /\ k \in Int
  BY KeyAssumption DEF Inv, Types
<1>5. Finds(n, c, rootPid, treeHeight, k)
  BY <1>2, <1>3, <1>4, ReaderFinds
<1>6. PICK i \in 1 .. n : \E a \in 1 .. Len(Contents(disk, n, c)[i]) : cursor' = [pid |-> c[i], eid |-> a - 1]
  BY <1>3, <1>5 DEF Finds
<1>7. PICK a \in 1 .. Len(Contents(disk, n, c)[i]) : cursor' = [pid |-> c[i], eid |-> a - 1]
  BY <1>6
<1>8. Contents(disk, n, c)[i] \in Leaf
  BY <1>2 DEF Shape, Ordered
<1>9. Len(Contents(disk, n, c)[i]) \in 0 .. LEAF_MAX
  BY <1>8, LeafNodes
<1>10. a - 1 \in 0 .. LEAF_MAX
  <2>1. \A l \in 0 .. LEAF_MAX : \A b \in 1 .. l : b - 1 \in 0 .. LEAF_MAX
    BY FanoutAssumption
  <2>2. QED
    BY <1>9, <2>1
<1>11. c[i] \in 1 .. Len(disk) - 1
  BY <1>2 DEF Shape, Linked
<1>12. c[i] \in PidSet
  BY <1>11 DEF PidSet
<1>13. QED
  BY <1>7, <1>10, <1>12

LEMMA CallsInit ==
  ASSUME Init
  PROVE  Calls
<1>1. 0 \in PidSet /\ 0 \in 0 .. LEAF_MAX + 1 /\ 0 \in 0 .. MaxOpens /\ 0 \in RC
  BY FanoutAssumption, OpensAssumption DEF PidSet, RC
<1>2. cursor \in [pid : PidSet, eid : 0 .. LEAF_MAX + 1] /\ opens \in 0 .. MaxOpens
  BY <1>1 DEF Init
<1>3. ret.entry = NoEntry /\ ret.rc \in RC
  BY <1>1 DEF Init, Returned
<1>4. QED
  BY <1>2, <1>3 DEF Init, Calls

LEMMA CallsInv ==
  ASSUME Inv, Plain, Calls, [Next]_vars, ~nonleaf_split
  PROVE  Calls'
<1> DEFINE Eids == 0 .. LEAF_MAX + 1
<1>1. /\ cursor \in [pid : PidSet, eid : Eids] /\ located \in BOOLEAN
      /\ ret.rc \in RC /\ opens \in 0 .. MaxOpens /\ mode \in {"closed", "r", "w"}
      /\ LEAF_MAX \in Nat /\ MaxOpens \in Nat /\ 0 \in Eids /\ 0 \in RC /\ 0 \in PidSet
      /\ UninitPid \subseteq PidSet
  BY FanoutAssumption, OpensAssumption DEF Calls, Inv, Types, RC, PidSet
<1>2. CASE UNCHANGED vars
  BY <1>2 DEF Calls, vars, objVars, callVars
<1>3. ASSUME NEW m \in {"r", "w"}, open(m)
      PROVE  Calls'
  <2>1. PICK u \in UninitPid : cursor' = [pid |-> u, eid |-> 0]
    BY <1>3 DEF open
  <2>2. /\ located' = FALSE /\ ret' = Returned("open", 0, NoEntry)
        /\ opens' = opens + 1 /\ opens < MaxOpens /\ UNCHANGED <<pc, callVars>>
    BY <1>3 DEF open
  <2>3. opens' \in 0 .. MaxOpens
    BY <1>1, <2>2
  <2>4. cursor' \in [pid : PidSet, eid : Eids]
    BY <1>1, <2>1
  <2>5. QED
    BY <1>1, <2>2, <2>3, <2>4 DEF Calls, callVars, Returned
<1>4. CASE open_fails
  <2>1. RC_FILE_OPEN_FAILED \in RC
    BY DEF RC
  <2>2. QED
    BY <1>4, <2>1 DEF open_fails, Calls, objVars, callVars, Returned
<1>5. CASE close
  <2>1. /\ mode = "w" /\ ret' = Returned("close", 0, NoEntry)
        /\ UNCHANGED <<pc, callVars, located, cursor, opens>>
    BY <1>5 DEF close
  <2>2. ~located
    BY <2>1 DEF Calls
  <2>3. QED
    BY <1>1, <2>1, <2>2 DEF Calls, callVars, Returned
<1>6. CASE Crash
  <2>1. cursor' \in [pid : PidSet, eid : Eids]
    BY <1>1, <1>6 DEF Crash
  <2>2. QED
    BY <1>1, <1>6, <2>1 DEF Crash, Calls, Returned
<1>7. ASSUME NEW e, insert_first(e) \/ insert(e)
      PROVE  Calls'
  BY <1>7 DEF insert_first, insert, MayInsert, Calls, objVars
<1>8. CASE descend
  BY <1>8 DEF descend, Calls, objVars
<1>9. CASE descend_fails \/ leaf_unread
  BY <1>9, WayRead DEF descend_fails, leaf_unread
<1>10. CASE leaf_split
  BY <1>10 DEF leaf_split, Calls, objVars
<1>11. CASE leaf_insert \/ leaf_link \/ nonleaf_insert \/ new_root
  <2>1. UNCHANGED <<mode, located, cursor, opens>>
    BY <1>11 DEF leaf_insert, leaf_link, nonleaf_insert, new_root, objVars
  <2>2. CASE Return(0)
    BY <1>1, <2>1, <2>2 DEF Return, Calls, Returned
  <2>3. CASE leaf_link /\ pc' = "up" /\ UNCHANGED <<ins, ret, entries, crashed>>
    BY <1>1, <2>1, <2>3 DEF Calls
  <2>4. QED
    BY <1>11, <2>2, <2>3, ReturnIs
<1>12. CASE nonleaf_sibling
  BY <1>12, InsertIs DEF nonleaf_sibling
<1>13. ASSUME NEW k \in Key, locate(k)
       PROVE  Calls'
  <2>1. cursor' \in [pid : PidSet, eid : 0 .. LEAF_MAX]
    BY <1>13, FoundPlace
  <2>2. \A a \in 0 .. LEAF_MAX : a \in Eids
    BY <1>1
  <2>3. cursor' \in [pid : PidSet, eid : Eids]
    BY <2>1, <2>2
  <2>4. QED
    BY <1>1, <1>13, <2>3 DEF locate, MayLocate, Calls, callVars, Returned
<1>14. ASSUME NEW k \in Key, locate_nothing(k)
       PROVE  Calls'
  BY <1>1, <1>14 DEF locate_nothing, MayLocate, Calls, callVars, Returned
<1>15. CASE readForward
  <2>1. /\ mode = "r" /\ cursor.eid <= LEAF_MAX /\ ret'.rc = 0
        /\ UNCHANGED <<mode, located, opens, pc, callVars>>
    BY <1>15 DEF readForward, MayRead, Returned
  <2>2. cursor' \in [pid : PidSet, eid : Eids]
    <3>1. PICK ok \in (IF InFile(cursor.pid) THEN CanFail("read") ELSE {FALSE}), u \in UninitPid :
            LET m    == IF ok THEN NodeAt(cursor.pid) ELSE << >>
                next == IF ok THEN LastAt(cursor.pid) ELSE u
            IN cursor' = IF AtLast(m) THEN [pid |-> next, eid |-> 0]
                                      ELSE [cursor EXCEPT !.eid = @ + 1]
      BY <1>15 DEF readForward
    <3>2. LastAt(cursor.pid) \in PidSet
      <4>1. disk \in Seq(Pages) /\ cursor.pid \in Int
        BY <1>1, Pids DEF Inv, Types
      <4>2. CASE cursor.pid \in 0 .. Len(disk) - 1
        BY <4>1, <4>2, ReadPage
      <4>3. CASE cursor.pid \notin 0 .. Len(disk) - 1
        BY <4>1, <4>3, ReadPage DEF PidSet
      <4>4. QED
        BY <4>2, <4>3
    <3>3. cursor.eid + 1 \in Eids
      BY <1>1, <2>1
    <3>4. [cursor EXCEPT !.eid = @ + 1] \in [pid : PidSet, eid : Eids]
      BY <1>1, <3>3
    <3>5. \A p \in PidSet : [pid |-> p, eid |-> 0] \in [pid : PidSet, eid : Eids]
      BY <1>1
    <3>6. QED
      BY <1>1, <3>1, <3>2, <3>4, <3>5
  <2>3. QED
    BY <1>1, <2>1, <2>2 DEF Calls, callVars
<1>16. CASE readForward_end
  <2>1. RC_NO_SUCH_RECORD \in RC /\ mode = "r"
    BY <1>16 DEF RC, readForward_end, MayRead
  <2>2. QED
    BY <1>16, <2>1 DEF readForward_end, Calls, objVars, callVars, Returned
<1>17. QED
  BY <1>2, <1>3, <1>4, <1>5, <1>6, <1>7, <1>8, <1>9, <1>10, <1>11, <1>12, <1>13, <1>14, <1>15,
     <1>16 DEF Next, InsertStep

-----------------------------------------------------------------------------
(* The reader's cursor through the steps *)

\* A reader is opened, looks an entry up or reads on.
LEMMA ReaderSteps ==
  ASSUME Inv, [Next]_vars, mode' = "r"
  PROVE  \/ mode = "closed" /\ \E m : open(m)
         \/ /\ mode = "r"
            /\ UNCHANGED <<disk, mode, rootPid, treeHeight, pc, ins, stack, up, entries, crashed>>
            /\ \/ UNCHANGED <<cursor, located>> \/ \E k \in Key : locate_nothing(k)
               \/ \E k \in Key : locate(k)
               \/ readForward
<1>1. mode # "w" => pc = "idle"
  BY DEF Inv, Shape
<1>2. CASE InsertStep
  <2>1. pc # "idle" /\ mode' = mode
    BY <1>2 DEF InsertStep, descend, descend_fails, leaf_unread, leaf_insert, leaf_split,
       leaf_link, nonleaf_insert, nonleaf_split, nonleaf_sibling, new_root, objVars
  <2>2. QED
    BY <1>1, <2>1
<1>3. ASSUME NEW m, open(m)
      PROVE  mode = "closed"
  BY <1>3 DEF open
<1>4. CASE open_fails \/ close \/ Crash
  BY <1>4 DEF open_fails, close, Crash, objVars
<1>5. ASSUME NEW e, insert_first(e) \/ insert(e)
      PROVE  FALSE
  BY <1>5 DEF insert_first, insert, MayInsert, objVars
<1>6. ASSUME NEW k \in Key, locate(k) \/ locate_nothing(k)
      PROVE  mode = "r" /\ UNCHANGED <<disk, mode, rootPid, treeHeight, pc, ins, stack, up, entries, crashed>>
  BY <1>6 DEF locate, locate_nothing, MayLocate, callVars, histVars
<1>7. CASE readForward
  BY <1>7 DEF readForward, MayRead, callVars, histVars
<1>8. CASE readForward_end
  BY <1>8 DEF readForward_end, MayRead, objVars, callVars, histVars
<1>9. CASE UNCHANGED vars
  BY <1>9 DEF vars, objVars, callVars, histVars
<1>10. QED
  BY <1>2, <1>3, <1>4, <1>5, <1>6, <1>7, <1>8, <1>9 DEF Next

LEMMA ReadsInv ==
  ASSUME Inv, Inv', Plain, Calls, Reads, [Next]_vars
  PROVE  Reads'
<1>1. SUFFICES ASSUME mode' = "r"
               PROVE  Reads'
  BY DEF Reads
<1>2. CASE mode = "closed" /\ \E m : open(m)
  <2>1. PICK u \in UninitPid : cursor' = [pid |-> u, eid |-> 0]
    BY <1>2 DEF open
  <2>2. \A n, c : CursorOn(n, c)'
    BY <2>1 DEF CursorOn
  <2>3. QED
    BY <2>2 DEF Inv, Reads
<1>3. CASE /\ mode = "r"
           /\ UNCHANGED <<disk, mode, rootPid, treeHeight, pc, ins, stack, up, entries, crashed>>
           /\ \/ UNCHANGED <<cursor, located>> \/ \E k \in Key : locate_nothing(k)
              \/ \E k \in Key : locate(k)
              \/ readForward
  <2>1. PICK n \in Nat : \E c \in [1 .. n -> 1 .. Len(disk) - 1], x \in {0} \cup 2 .. n :
                           Shape(n, c, x) /\ CursorOn(n, c)
    BY <1>3 DEF Reads
  <2>2. PICK c \in [1 .. n -> 1 .. Len(disk) - 1], x \in {0} \cup 2 .. n :
               Shape(n, c, x) /\ CursorOn(n, c)
    BY <2>1
  <2>3. Types /\ disk \in Seq(Pages) /\ Linked(disk, n, c) /\ Ordered(n, Contents(disk, n, c))
    BY <2>2 DEF Inv, Types, Shape
  <2>4. Shape(n, c, x)'
    BY <1>3, <2>2, ShapeSame
  <2> DEFINE S == Contents(disk, n, c)
             AtLeaf(cur) == \E i \in 1 .. n : \E a \in 1 .. Len(S[i]) : cur = [pid |-> c[i], eid |-> a - 1]
  <2>5. SUFFICES cursor'.pid \in UninitPid \/ (located' /\ AtLeaf(cursor'))
    <3>1. S' = S
      BY <1>3 DEF Contents, Cell
    <3>2. CursorOn(n, c)'
      BY <3>1 DEF CursorOn
    <3>3. QED
      BY <1>3, <2>2, <2>4, <3>2 DEF Reads
  <2>6. cursor.pid \in UninitPid \/ (located /\ AtLeaf(cursor))
    BY <2>2 DEF CursorOn
  <2>7. CASE UNCHANGED <<cursor, located>>
    BY <2>6, <2>7
  <2>8. CASE \E k \in Key : locate_nothing(k)
    BY <2>6, <2>8 DEF locate_nothing, MayLocate
  <2>9. ASSUME NEW k \in Key, locate(k)
        PROVE  located' /\ AtLeaf(cursor')
    <3>1. k \in Int /\ located' /\ cursor' = LocateFrom(rootPid, treeHeight, k) /\ cursor' # NoCursor
      BY <2>9, KeyAssumption DEF locate
    <3>2. Finds(n, c, rootPid, treeHeight, k)
      BY <1>3, <2>2, <2>3, <3>1, ReaderFinds
    <3>3. QED
      BY <3>1, <3>2 DEF Finds
  <2>10. CASE readForward
    <3>1. located /\ located' = located
      BY <2>10 DEF readForward, MayRead
    <3>2. CASE cursor.pid \in UninitPid
      <4>1. cursor \in [pid : PidSet, eid : Nat]
        <5>1. \A e \in 0 .. LEAF_MAX + 1 : e \in Nat
          OBVIOUS
        <5>2. QED
          BY <5>1 DEF Calls
      <4>2. QED
        BY <2>3, <2>10, <3>2, <4>1, ReadNothing
    <3>3. ASSUME NEW i \in 1 .. n, NEW a \in 1 .. Len(S[i]), cursor = [pid |-> c[i], eid |-> a - 1]
          PROVE  cursor'.pid \in UninitPid \/ AtLeaf(cursor')
      <4>1. \/ a < Len(S[i]) /\ cursor' = [pid |-> c[i], eid |-> a]
            \/ a = Len(S[i]) /\ i < n /\ cursor' = [pid |-> c[i + 1], eid |-> 0]
            \/ a = Len(S[i]) /\ i = n /\ cursor' = [pid |-> Link(disk, c[n]), eid |-> 0]
        BY <2>3, <2>10, <3>3, ReadNext
      <4>2. \A h \in 1 .. n : S[h] \in Leaf
        BY <2>3 DEF Ordered
      <4> HIDE DEF S
      <4>3. \A h \in 1 .. n : Len(S[h]) \in Nat /\ (S[h] # << >> => 1 \in 1 .. Len(S[h]))
        <5>1. TAKE h \in 1 .. n
        <5>2. Len(S[h]) \in Nat /\ S[h] \in Seq(Input)
          BY <4>2, LeafNodes
        <5>3. QED
          BY <5>2, EmptySeq
      <4>4. CASE a < Len(S[i]) /\ cursor' = [pid |-> c[i], eid |-> a]
        <5>1. a + 1 \in 1 .. Len(S[i]) /\ a = (a + 1) - 1
          BY <3>3, <4>3, <4>4 DEF S
        <5>2. QED
          BY <4>4, <5>1
      <4>5. CASE i < n /\ cursor' = [pid |-> c[i + 1], eid |-> 0]
        <5>1. i + 1 \in 1 .. n /\ n > 1
          BY <4>5
        <5>2. S[i + 1] # << >>
          BY <2>3, <5>1 DEF Ordered, S
        <5>3. 1 \in 1 .. Len(S[i + 1]) /\ 0 = 1 - 1
          BY <4>3, <5>1, <5>2
        <5>4. QED
          BY <4>5, <5>1, <5>3
      <4>6. CASE cursor' = [pid |-> Link(disk, c[n]), eid |-> 0]
        <5>1. n # 0
          OBVIOUS
        <5>2. QED
          BY <2>3, <4>6, <5>1 DEF Linked
      <4>7. QED
        BY <4>1, <4>4, <4>5, <4>6
    <3>4. QED
      BY <2>6, <3>1, <3>2, <3>3
  <2>11. QED
    BY <1>3, <2>7, <2>8, <2>9, <2>10
<1>4. QED
  BY <1>1, <1>2, <1>3, ReaderSteps

-----------------------------------------------------------------------------
(* The index is a sorted index. *)

\* What SortedIndex calls cur
Cur == IF located /\ cursor.pid # 0 THEN EntryAt(cursor) ELSE NoEntry

LEMMA OtherStep ==
  ASSUME Content' = Content, ret'.entry = NoEntry, Cur' \in {Cur, NoEntry}, TreeSaved => TreeSaved'
  PROVE  Sorted!IndexOther
BY DEF Sorted!IndexOther, Cur

\* The entries and the keys of the input are those that SortedIndex inserts.
LEMMA AddedStep ==
  ASSUME Plain, Calls, Content \subseteq Input, NEW e \in Input, e \notin Content,
         Content' = Content \cup {e}, TreeSaved' = TreeSaved, Cur' = Cur,
         ret'.entry = ret.entry
  PROVE  \E k \in Key, r \in { f.val : f \in Input } : Sorted!IndexInsert(k, r)
<1>1. e.key \in Key /\ e.val \in { f.val : f \in Input } /\ e = [key |-> e.key, val |-> e.val]
  BY KeyAssumption
<1>2. \A f \in Content : f.key # e.key
  BY DEF Plain
<1>3. Sorted!IndexInsert(e.key, e.val)
  BY <1>1, <1>2 DEF Sorted!IndexInsert, Cur
<1>4. QED
  BY <1>1, <1>3

LEMMA SortedLeast ==
  ASSUME Content = Visible, NEW k
  PROVE  Sorted!LeastFrom(k) = LeastFrom(k)
BY DEF Sorted!LeastFrom, LeastFrom

\* Where the cursor of a reader is after a call that leaves the pages alone
LEMMA CurNext ==
  ASSUME disk' = disk
  PROVE  /\ Cur' = IF located' /\ cursor'.pid # 0 THEN EntryAt(cursor') ELSE NoEntry
         /\ Cur' = Cur \/ cursor' # cursor \/ located' # located
BY DEF Cur, EntryAt, NodeAt, InFile, endPid

\* The cursor before and after a call that does not read
LEMMA CurOff ==
  ASSUME Calls
  PROVE  mode # "r" => Cur = NoEntry /\ ret.entry = NoEntry
BY DEF Calls, Cur

\* What a writer's call does to the entries a lookup must find
LEMMA WriterVisible ==
  ASSUME Inv, Plain, InsertStep, ~nonleaf_split
  PROVE  /\ Visible' = Visible \/ (Visible' = Visible \cup {ins} /\ ins \in Input /\ ins \notin Visible)
         /\ mode = "w" /\ mode' = "w" /\ TreeSaved' = TreeSaved
<1>1. pc # "idle" /\ mode' = mode
  BY DEF InsertStep, descend, descend_fails, leaf_unread, leaf_insert, leaf_split,
     leaf_link, nonleaf_insert, nonleaf_split, nonleaf_sibling, new_root, objVars
<1>2. mode = "w" /\ mode' = "w" /\ ins \in Input /\ ins \notin entries
      /\ pc \in {"descend", "leaf", "left", "up"}
  BY <1>1, InsertIs
<1>3. Return(0) => entries' = entries \cup {ins} /\ pc' = "idle"
  BY DEF Return
<1>4. CASE descend
  <2>1. disk' = disk /\ UNCHANGED entries /\ pc = "descend" /\ pc' = "leaf"
    BY <1>4 DEF descend, histVars
  <2>2. QED
    BY <1>2, <2>1, SavedSame DEF Visible
<1>5. CASE descend_fails \/ leaf_unread
  BY <1>5, WayRead DEF descend_fails, leaf_unread
<1>6. CASE leaf_split
  <2>1. UNCHANGED entries /\ pc = "leaf" /\ pc' = "left"
    BY <1>6 DEF leaf_split, histVars
  <2>2. QED
    BY <1>2, <1>6, <2>1, LeafSplitInv DEF Visible
<1>7. CASE leaf_insert
  <2>1. pc = "leaf" /\ Return(0)
    BY <1>7, ReturnIs DEF leaf_insert, leaf_link
  <2>2. QED
    BY <1>2, <1>3, <1>7, <2>1, LeafInsertInv DEF Visible
<1>8. CASE leaf_link
  <2>1. pc = "left" /\ (Return(0) \/ (pc' = "up" /\ UNCHANGED <<ins, entries>>))
    BY <1>8, ReturnIs DEF leaf_link
  <2>2. TreeSaved' = TreeSaved
    BY <1>8, LeafLinkInv
  <2>3. Visible = entries /\ Visible' = entries \cup {ins}
    BY <1>3, <2>1 DEF Visible
  <2>4. QED
    BY <1>2, <2>2, <2>3
<1>9. CASE nonleaf_insert \/ new_root
  <2>1. pc = "up" /\ Return(0)
    BY <1>9, ReturnIs DEF nonleaf_insert, new_root, leaf_link
  <2>2. TreeSaved' = TreeSaved
    BY <1>9, NonLeafInsertInv, NewRootInv
  <2>3. Visible' = Visible
    BY <1>3, <2>1 DEF Visible
  <2>4. QED
    BY <1>2, <2>2, <2>3
<1>10. CASE nonleaf_sibling
  BY <1>2, <1>10 DEF nonleaf_sibling
<1>11. QED
  BY <1>4, <1>5, <1>6, <1>7, <1>8, <1>9, <1>10 DEF InsertStep

\* locate goes to the least entry from the key on, or says nothing.
LEMMA LocateStep ==
  ASSUME Inv, Plain, Calls, Reads, Content = Visible, Content' = Content,
         NEW k \in Key, locate(k) \/ locate_nothing(k)
  PROVE  Sorted!IndexLocate(k)
<1>1. /\ mode = "r" /\ ~located /\ located' = TRUE /\ ret'.entry = NoEntry /\ disk' = disk
      /\ \/ cursor' = LocateFrom(rootPid, treeHeight, k) /\ cursor' # NoCursor
         \/ cursor' = cursor /\ LocateFrom(rootPid, treeHeight, k) = NoCursor
  BY DEF locate, locate_nothing, MayLocate, Returned, Plain
<1>2. PICK n \in Nat : \E c \in [1 .. n -> 1 .. Len(disk) - 1], x \in {0} \cup 2 .. n :
                         Shape(n, c, x) /\ CursorOn(n, c)
  BY <1>1 DEF Reads
<1>3. PICK c \in [1 .. n -> 1 .. Len(disk) - 1], x \in {0} \cup 2 .. n : Shape(n, c, x) /\ CursorOn(n, c)
  BY <1>2
<1>4. /\ Types /\ disk \in Seq(Pages) /\ k \in Int
      /\ Linked(disk, n, c) /\ Ordered(n, Contents(disk, n, c))
  BY <1>3, KeyAssumption DEF Inv, Types, Shape
<1>5. Finds(n, c, rootPid, treeHeight, k)
  BY <1>1, <1>3, <1>4, ReaderFinds
<1>6. Complete(n, c)
  BY <1>3, <1>4, ShapeComplete
<1>7. LET cur == LocateFrom(rootPid, treeHeight, k)
      IN IF LeastFrom(k) = NoEntry THEN cur = NoCursor
         ELSE cur # NoCursor /\ EntryAt(cur) = LeastFrom(k)
  BY <1>4, <1>5, <1>6, LeastFound
<1>8. Cur' = IF located' /\ cursor'.pid # 0 THEN EntryAt(cursor') ELSE NoEntry
  BY <1>1, CurNext
<1>9. Cur' = LeastFrom(k)
  <2>1. CASE cursor' = LocateFrom(rootPid, treeHeight, k) /\ cursor' # NoCursor
    <3>1. PICK i \in 1 .. n : \E a \in 1 .. Len(Contents(disk, n, c)[i]) : cursor' = [pid |-> c[i], eid |-> a - 1]
      BY <1>5, <2>1 DEF Finds
    <3>2. cursor'.pid = c[i]
      BY <3>1
    <3>3. c[i] \in 1 .. Len(disk) - 1
      BY <1>4, LeafPage
    <3>4. cursor'.pid # 0
      BY <3>2, <3>3
    <3>5. EntryAt(cursor') = LeastFrom(k)
      BY <1>7, <2>1
    <3>6. QED
      BY <1>1, <1>8, <3>4, <3>5
  <2>2. CASE cursor' = cursor /\ LocateFrom(rootPid, treeHeight, k) = NoCursor
    <3>1. LeastFrom(k) = NoEntry
      BY <1>7, <2>2
    <3>2. cursor.pid \in UninitPid /\ cursor.eid \in Nat
      <4>1. \A e \in 0 .. LEAF_MAX + 1 : e \in Nat
        OBVIOUS
      <4>2. QED
        BY <1>1, <1>3, <4>1 DEF CursorOn, Calls
    <3>3. cursor.pid # 0 => EntryAt(cursor) = NoEntry
      BY <1>4, <3>2, OffLeaves
    <3>4. QED
      BY <1>8, <2>2, <3>1, <3>3
  <2>3. QED
    BY <1>1, <2>1, <2>2
<1>10. TreeSaved' = TreeSaved
  BY <1>1, SavedSame
<1>11. Sorted!LeastFrom(k) = LeastFrom(k)
  BY SortedLeast
<1>12. QED
  BY <1>1, <1>9, <1>10, <1>11 DEF Sorted!IndexLocate, Cur

\* readForward returns the entry the reader is at and goes on to the next one.
LEMMA ReadStep ==
  ASSUME Inv, Plain, Calls, Reads, Content = Visible, Content' = Content, readForward
  PROVE  Sorted!IndexReadForward
<1>1. mode = "r" /\ located /\ located' = located /\ cursor.pid # 0 /\ disk' = disk
  BY DEF readForward, MayRead
<1>2. PICK n \in Nat : \E c \in [1 .. n -> 1 .. Len(disk) - 1], x \in {0} \cup 2 .. n :
                         Shape(n, c, x) /\ CursorOn(n, c)
  BY <1>1 DEF Reads
<1>3. PICK c \in [1 .. n -> 1 .. Len(disk) - 1], x \in {0} \cup 2 .. n : Shape(n, c, x) /\ CursorOn(n, c)
  BY <1>2
<1> DEFINE S == Contents(disk, n, c)
<1>4. Types /\ disk \in Seq(Pages) /\ Linked(disk, n, c) /\ Ordered(n, S)
  BY <1>3 DEF Inv, Types, Shape
<1>5. Complete(n, c)
  BY <1>3, <1>4, ShapeComplete
<1>6. /\ Cur = EntryAt(cursor)
      /\ Cur' = IF cursor'.pid # 0 THEN EntryAt(cursor') ELSE NoEntry
  BY <1>1, CurNext DEF Cur
<1>7. TreeSaved' = TreeSaved
  BY <1>1, SavedSame
<1>8. SUFFICES ret'.entry = Cur /\ Cur' = IF Cur = NoEntry THEN NoEntry ELSE LeastFrom(Cur.key + 1)
  <2>1. Sorted!LeastFrom(Cur.key + 1) = LeastFrom(Cur.key + 1)
    BY SortedLeast
  <2>2. QED
    BY <1>7, <1>8, <2>1 DEF Sorted!IndexReadForward, Cur
<1>9. CASE cursor.pid \in UninitPid
  <2>1. cursor \in [pid : PidSet, eid : Nat]
    <3>1. \A e \in 0 .. LEAF_MAX + 1 : e \in Nat
      OBVIOUS
    <3>2. QED
      BY <3>1 DEF Calls
  <2>2. Cur = NoEntry
    BY <1>1, <1>4, <1>6, <1>9, <2>1, OffLeaves
  <2>3. ret'.entry = NoEntry /\ cursor'.pid = cursor.pid /\ cursor'.eid \in Nat
    BY <1>4, <1>9, <2>1, ReadNothing
  <2>4. cursor'.pid # 0 => EntryAt(cursor') = NoEntry
    BY <1>4, <1>9, <2>3, OffLeaves
  <2>5. QED
    BY <1>6, <2>2, <2>3, <2>4
<1>10. ASSUME NEW i \in 1 .. n, NEW a \in 1 .. Len(S[i]), cursor = [pid |-> c[i], eid |-> a - 1]
       PROVE  ret'.entry = Cur /\ Cur' = IF Cur = NoEntry THEN NoEntry ELSE LeastFrom(Cur.key + 1)
  <2>1. Cur = S[i][a]
    BY <1>4, <1>6, <1>10, EntryOf
  <2>2. /\ ret'.entry = S[i][a]
        /\ \/ a < Len(S[i]) /\ cursor' = [pid |-> c[i], eid |-> a]
           \/ a = Len(S[i]) /\ i < n /\ cursor' = [pid |-> c[i + 1], eid |-> 0]
           \/ a = Len(S[i]) /\ i = n /\ cursor' = [pid |-> Link(disk, c[n]), eid |-> 0]
    BY <1>4, <1>10, ReadNext
  <2>3. \A h \in 1 .. n : Len(S[h]) \in Nat /\ (S[h] # << >> => 1 \in 1 .. Len(S[h]))
    <3>1. TAKE h \in 1 .. n
    <3>2. S[h] \in Leaf
      BY <1>4 DEF Ordered
    <3> HIDE DEF S
    <3>3. Len(S[h]) \in Nat /\ S[h] \in Seq(Input)
      BY <3>2, LeafNodes
    <3>4. QED
      BY <3>3, EmptySeq
  <2>4. \A h \in 1 .. n : \A b \in 1 .. Len(S[h]) : S[h][b].key \in Int /\ S[h][b] \in Input
    <3> HIDE DEF S
    <3>1. QED
      BY <1>4, PlacesOrdered
  <2> DEFINE k == S[i][a].key + 1
  <2>5. k \in Int /\ S[i][a] # NoEntry
    <3>1. NoEntry.key = 0 /\ S[i][a].key \in Int /\ S[i][a].key # 0
      BY <1>10, <2>4, InputEntries DEF NoEntry, Entry
    <3>2. QED
      BY <3>1
  <2>6. \A h \in 1 .. n : \A b \in 1 .. Len(S[h]) :
          ~(i < h \/ (h = i /\ a < b)) => S[h][b].key < k
    <3>1. TAKE h \in 1 .. n
    <3>2. TAKE b \in 1 .. Len(S[h])
    <3>3. HAVE ~(i < h \/ (h = i /\ a < b))
    <3>4. S[h][b].key \in Int /\ S[i][a].key \in Int
      BY <2>4
    <3>5. CASE h = i /\ b = a
      BY <3>4, <3>5
    <3>6. CASE h < i \/ (h = i /\ b < a)
      <4>1. S[h][b].key < S[i][a].key
        BY <1>4, <3>6 DEF Ordered
      <4>2. QED
        <5>1. \A y, z \in Int : y < z => y < z + 1
          OBVIOUS
        <5> HIDE DEF S
        <5>2. QED
          BY <3>4, <4>1, <5>1
    <3>7. (h = i /\ b = a) \/ h < i \/ (h = i /\ b < a)
      BY <2>3, <3>3
    <3>8. QED
      BY <3>5, <3>6, <3>7
  <2>7. ASSUME NEW j \in 1 .. n, NEW d \in 1 .. Len(S[j]), cursor' = [pid |-> c[j], eid |-> d - 1],
               i < j \/ (j = i /\ a < d),
               \A h \in 1 .. n : \A b \in 1 .. Len(S[h]) :
                 h < j \/ (h = j /\ b < d) => ~(i < h \/ (h = i /\ a < b))
        PROVE  Cur' = LeastFrom(k)
    <3>1. cursor'.pid # 0 /\ EntryAt(cursor') = S[j][d]
      BY <1>4, <2>7, EntryOf
    <3>2. S[j][d].key >= k
      <4>1. S[i][a].key < S[j][d].key
        BY <1>4, <2>7 DEF Ordered
      <4>2. QED
        BY <2>4, <4>1
    <3>3. \A h \in 1 .. n : \A b \in 1 .. Len(S[h]) :
            h < j \/ (h = j /\ b < d) => S[h][b].key < k
      BY <2>6, <2>7
    <3>4. LeastFrom(k) = S[j][d]
      <4> HIDE DEF k
      <4>1. QED
        BY <1>4, <1>5, <2>5, <3>2, <3>3, LeastIs
    <3>5. QED
      BY <1>6, <3>1, <3>4
  <2>8. CASE a < Len(S[i]) /\ cursor' = [pid |-> c[i], eid |-> a]
    <3>1. a + 1 \in 1 .. Len(S[i]) /\ a < a + 1 /\ a = (a + 1) - 1
      BY <2>3, <2>8
    <3>2. \A h \in 1 .. n : \A b \in 1 .. Len(S[h]) :
            h < i \/ (h = i /\ b < a + 1) => ~(i < h \/ (h = i /\ a < b))
      OBVIOUS
    <3>3. Cur' = LeastFrom(k)
      BY <2>7, <2>8, <3>1, <3>2
    <3>4. QED
      BY <2>1, <2>2, <2>5, <3>3
  <2>9. CASE a = Len(S[i]) /\ i < n /\ cursor' = [pid |-> c[i + 1], eid |-> 0]
    <3>1. i + 1 \in 1 .. n /\ n > 1 /\ i < i + 1
      BY <2>9
    <3>2. S[i + 1] # << >>
      BY <1>4, <3>1 DEF Ordered
    <3>3. 1 \in 1 .. Len(S[i + 1]) /\ 0 = 1 - 1
      BY <2>3, <3>1, <3>2
    <3>4. \A h \in 1 .. n : \A b \in 1 .. Len(S[h]) :
            h < i + 1 \/ (h = i + 1 /\ b < 1) => ~(i < h \/ (h = i /\ a < b))
      BY <2>9
    <3>5. Cur' = LeastFrom(k)
      BY <2>7, <2>9, <3>1, <3>3, <3>4
    <3>6. QED
      BY <2>1, <2>2, <2>5, <3>5
  <2>10. CASE a = Len(S[i]) /\ i = n /\ cursor' = [pid |-> Link(disk, c[n]), eid |-> 0]
    <3>1. Link(disk, c[n]) \in UninitPid
      <4>1. n # 0
        OBVIOUS
      <4>2. QED
        BY <1>4, <4>1 DEF Linked
    <3>2. cursor'.pid # 0 => EntryAt(cursor') = NoEntry
      BY <1>4, <2>10, <3>1, OffLeaves
    <3>3. \A h \in 1 .. n : \A b \in 1 .. Len(S[h]) : S[h][b].key < k
      <4>1. \A h \in 1 .. n : \A b \in 1 .. Len(S[h]) : ~(i < h \/ (h = i /\ a < b))
        BY <2>10
      <4>2. QED
        BY <2>6, <4>1
    <3>4. LeastFrom(k) = NoEntry
      <4> HIDE DEF k
      <4>1. QED
        BY <1>4, <1>5, <2>5, <3>3, LeastNone
    <3>5. QED
      BY <1>6, <2>1, <2>2, <2>5, <3>2, <3>4
  <2>11. QED
    BY <2>2, <2>8, <2>9, <2>10
<1>11. QED
  BY <1>1, <1>3, <1>9, <1>10 DEF CursorOn

\* Every step is one that SortedIndex allows.
LEMMA IndexStep ==
  ASSUME Inv, Plain, Calls, Calls', Reads, [Next]_vars, ~nonleaf_split,
         Content = Visible, (Content = Visible)'
  PROVE  [Sorted!IndexNext]_<<Content, TreeSaved, Cur, ret.entry>>
<1> DEFINE Goal == [Sorted!IndexNext]_<<Content, TreeSaved, Cur, ret.entry>>
<1>1. Content' = Visible'
  OBVIOUS
<1>2. ASSUME Visible' = Visible, ret'.entry = NoEntry, Cur' \in {Cur, NoEntry}, TreeSaved => TreeSaved'
      PROVE  Goal
  <2>1. Content' = Content
    BY <1>1, <1>2
  <2>2. Sorted!IndexOther
    BY <1>2, <2>1, OtherStep
  <2>3. QED
    BY <2>2 DEF Sorted!IndexNext
<1>3. ~located' => Cur' = NoEntry
  BY DEF Cur
<1>4. mode' # "r" => Cur' = NoEntry /\ ret'.entry = NoEntry
  BY DEF Calls, Cur
<1>5. mode # "r" => Cur = NoEntry /\ ret.entry = NoEntry
  BY CurOff
<1>6. CASE UNCHANGED vars
  <2>1. UNCHANGED <<disk, mode, pc, ins, entries, cursor, located, ret>>
    BY <1>6 DEF vars, objVars, callVars, histVars
  <2>2. Visible' = Visible
    BY <2>1 DEF Visible
  <2>3. Cur' = Cur /\ TreeSaved' = TreeSaved
    BY <2>1, CurNext, SavedSame
  <2>4. Content' = Content
    BY <1>1, <2>2
  <2>5. QED
    BY <2>1, <2>3, <2>4
<1>7. ASSUME NEW m \in {"r", "w"}, open(m)
      PROVE  Goal
  <2>1. /\ located' = FALSE /\ ret'.entry = NoEntry
        /\ UNCHANGED <<disk, pc, ins, entries>>
    BY <1>7 DEF open, Returned, callVars, histVars
  <2>2. Visible' = Visible
    BY <2>1 DEF Visible
  <2>3. TreeSaved' = TreeSaved
    BY <2>1, SavedSame
  <2>4. QED
    BY <1>2, <1>3, <2>1, <2>2, <2>3
<1>8. CASE open_fails
  <2>1. mode' = "closed" /\ UNCHANGED <<disk, pc, ins, entries>>
    BY <1>8 DEF open_fails, objVars, callVars, histVars
  <2>2. Visible' = Visible
    BY <2>1 DEF Visible
  <2>3. TreeSaved' = TreeSaved
    BY <2>1, SavedSame
  <2>4. QED
    BY <1>2, <1>4, <2>1, <2>2, <2>3
<1>9. CASE close
  <2>1. mode' = "closed" /\ UNCHANGED <<pc, ins, entries>>
    BY <1>9 DEF close, callVars
  <2>2. Visible' = Visible
    BY <2>1 DEF Visible
  <2>3. TreeSaved => TreeSaved'
    BY <1>9, CloseInv
  <2>4. QED
    BY <1>2, <1>4, <2>1, <2>2, <2>3
<1>10. CASE Crash
  <2>1. /\ mode' = "closed" /\ pc' = "idle" /\ disk' = disk
        /\ entries' = (IF TreeSaved THEN Visible ELSE {})
    BY <1>10 DEF Crash
  <2>2. Visible' = entries'
    BY <2>1 DEF Visible
  <2>3. TreeSaved' = TreeSaved
    BY <2>1, SavedSame
  <2>4. CASE TreeSaved
    BY <1>2, <1>4, <2>1, <2>2, <2>3, <2>4
  <2>5. CASE ~TreeSaved
    <3>1. Content' = {}
      BY <1>1, <2>1, <2>2, <2>5
    <3>2. Sorted!IndexLost
      BY <1>4, <2>1, <2>3, <2>5, <3>1 DEF Sorted!IndexLost, Cur
    <3>3. QED
      BY <3>2 DEF Sorted!IndexNext
  <2>6. QED
    BY <2>4, <2>5
<1>11. ASSUME NEW e \in Input, insert_first(e) \/ insert(e)
       PROVE  Goal
  <2>1. /\ mode = "w" /\ mode' = "w" /\ pc = "idle" /\ pc' = "descend"
        /\ UNCHANGED entries
    BY <1>11 DEF insert_first, insert, MayInsert, objVars, histVars
  <2>2. Visible' = Visible
    BY <2>1 DEF Visible
  <2>3. TreeSaved' = TreeSaved
    <3>1. CASE insert_first(e)
      BY <3>1, InsertFirstInv
    <3>2. CASE insert(e)
      BY <3>2, SavedSame DEF insert
    <3>3. QED
      BY <1>11, <3>1, <3>2
  <2>4. QED
    BY <1>2, <1>4, <2>1, <2>2, <2>3
<1>12. CASE InsertStep
  <2>1. /\ Visible' = Visible \/ (Visible' = Visible \cup {ins} /\ ins \in Input /\ ins \notin Visible)
        /\ mode = "w" /\ mode' = "w" /\ TreeSaved' = TreeSaved
    BY <1>12, WriterVisible
  <2>2. CASE Visible' = Visible
    BY <1>2, <1>4, <2>1, <2>2
  <2>3. CASE Visible' = Visible \cup {ins} /\ ins \in Input /\ ins \notin Visible
    <3>1. Content \subseteq Input
      BY ShapeComplete DEF Inv, Complete
    <3>2. Content' = Content \cup {ins} /\ ins \notin Content
      BY <1>1, <2>3
    <3>3. Cur' = Cur /\ ret'.entry = ret.entry
      BY <1>4, <1>5, <2>1
    <3>4. \E k \in Key, r \in { f.val : f \in Input } : Sorted!IndexInsert(k, r)
      BY <2>1, <2>3, <3>1, <3>2, <3>3, AddedStep
    <3>5. QED
      BY <3>4 DEF Sorted!IndexNext
  <2>4. QED
    BY <2>1, <2>2, <2>3
<1>13. ASSUME NEW k \in Key, locate(k) \/ locate_nothing(k)
       PROVE  Goal
  <2>1. UNCHANGED <<pc, ins, entries>>
    BY <1>13 DEF locate, locate_nothing, callVars, histVars
  <2>2. Content' = Content
    BY <1>1, <2>1 DEF Visible
  <2>3. Sorted!IndexLocate(k)
    BY <1>13, <2>2, LocateStep
  <2>4. QED
    BY <2>3 DEF Sorted!IndexNext
<1>14. CASE readForward
  <2>1. UNCHANGED <<pc, ins, entries>>
    BY <1>14 DEF readForward, callVars, histVars
  <2>2. Content' = Content
    BY <1>1, <2>1 DEF Visible
  <2>3. Sorted!IndexReadForward
    BY <1>14, <2>2, ReadStep
  <2>4. QED
    BY <2>3 DEF Sorted!IndexNext
<1>15. CASE readForward_end
  <2>1. /\ UNCHANGED <<disk, pc, ins, entries, located, cursor>> /\ cursor.pid = 0
        /\ ret'.entry = NoEntry
    BY <1>15 DEF readForward_end, objVars, callVars, histVars, Returned
  <2>2. Visible' = Visible
    BY <2>1 DEF Visible
  <2>3. Cur' = NoEntry /\ TreeSaved' = TreeSaved
    BY <2>1, SavedSame DEF Cur
  <2>4. QED
    BY <1>2, <2>1, <2>2, <2>3
<1>16. QED
  BY <1>6, <1>7, <1>8, <1>9, <1>10, <1>11, <1>12, <1>13, <1>14, <1>15 DEF Next

\* The pages, whatever they have been split into, are a sorted index: an
\* insert adds its entry at one step and takes none away, locate goes to the
\* least entry from its key on, readForward returns the entries in the order
\* of the keys, and the end of a program loses what was never closed and
\* nothing else.
THEOREM ImplementsSorted ==
  ASSUME Plain
  PROVE  Spec /\ [][~nonleaf_split]_vars => IndexSpec
<1>1. Init => Calls /\ Reads
  BY CallsInit DEF Init, Reads
<1>2. Inv => Content = Visible
  BY ContentIs
<1>3. Init /\ Content = Visible => Sorted!IndexInit
  <2>1. SUFFICES ASSUME Init, Content = Visible
                 PROVE  Sorted!IndexInit
    OBVIOUS
  <2>2. Visible = {} /\ ret.entry = NoEntry /\ ~located
    BY <2>1 DEF Init, Visible, Returned
  <2>3. ~TreeSaved
    BY <2>1 DEF Init, TreeSaved, Saved, NodeAt, InFile, endPid
  <2>4. QED
    BY <2>1, <2>2, <2>3 DEF Sorted!IndexInit
<1>4. Inv /\ Inv' /\ Calls /\ Reads /\ [Next]_vars /\ [~nonleaf_split]_vars => Calls' /\ Reads'
  <2>1. SUFFICES ASSUME Inv, Inv', Calls, Reads, [Next]_vars, [~nonleaf_split]_vars
                 PROVE  Calls' /\ Reads'
    OBVIOUS
  <2>2. Reads'
    BY <2>1, ReadsInv
  <2>3. nonleaf_split => ~UNCHANGED vars
    <3>1. nonleaf_split => pc' # pc
      BY DEF nonleaf_split
    <3>2. QED
      BY <3>1 DEF vars
  <2>4. Calls'
    BY <2>1, <2>3, CallsInv
  <2>5. QED
    BY <2>2, <2>4
<1>5. Inv /\ Calls /\ Calls' /\ Reads /\ [Next]_vars /\ [~nonleaf_split]_vars
        /\ Content = Visible /\ (Content = Visible)'
        => [Sorted!IndexNext]_<<Content, TreeSaved, Cur, ret.entry>>
  <2>1. SUFFICES ASSUME Inv, Calls, Calls', Reads, [Next]_vars, [~nonleaf_split]_vars,
                        Content = Visible, (Content = Visible)'
                 PROVE  [Sorted!IndexNext]_<<Content, TreeSaved, Cur, ret.entry>>
    OBVIOUS
  <2>2. ~nonleaf_split
    <3>1. nonleaf_split => pc' # pc
      BY DEF nonleaf_split
    <3>2. QED
      BY <2>1, <3>1 DEF vars
  <2>3. QED
    BY <2>1, <2>2, IndexStep
<1>6. QED
  BY <1>1, <1>2, <1>3, <1>4, <1>5, Invariant, PTL
     DEF Spec, IndexSpec, Sorted!IndexSpec, Sorted!indexVars, Cur

-----------------------------------------------------------------------------
(* Every variable has its type. *)

LEMMA PagesTyped ==
  ASSUME Inv, Plain
  PROVE  /\ \A i \in DOMAIN disk :
              /\ disk[i].last \in PidSet
              /\ \A j \in DOMAIN disk[i].entries : disk[i].entries[j].key \in Key \cup {1}
              /\ Len(disk[i].entries) <= Max({LEAF_MAX, NONLEAF_MAX})
         /\ \A j \in DOMAIN Leaves : Len(NodeAt(Leaves[j])) <= LEAF_MAX
<1>1. PICK n \in Nat : \E c \in [1 .. n -> 1 .. Len(disk) - 1], x \in {0} \cup 2 .. n : Shape(n, c, x)
  BY DEF Inv
<1>2. PICK c \in [1 .. n -> 1 .. Len(disk) - 1], x \in {0} \cup 2 .. n : Shape(n, c, x)
  BY <1>1
<1>3. Types /\ disk \in Seq(Pages) /\ LEAF_MAX \in Nat /\ endPid \in Nat
  BY ReadPage, FanoutAssumption DEF Inv, Types
<1>4. ASSUME NEW i \in DOMAIN disk
      PROVE  /\ disk[i].last \in PidSet
             /\ \A j \in DOMAIN disk[i].entries : disk[i].entries[j].key \in Key \cup {1}
             /\ Len(disk[i].entries) <= Max({LEAF_MAX, NONLEAF_MAX})
  <2>1. disk[i] \in Pages
    BY <1>3, <1>4, ElementOfSeq, LenProperties
  <2>2. disk[i].entries \in Nodes /\ disk[i].last \in PidSet
    BY <2>1 DEF Pages
  <2>3. Len(disk[i].entries) <= Biggest
    BY <2>2 DEF Nodes
  <2>4. DOMAIN disk[i].entries = 1 .. Len(disk[i].entries)
        /\ \A j \in 1 .. Len(disk[i].entries) : disk[i].entries[j] \in Entries
    BY <2>2, NodeKeys
  <2>5. \A e \in Entries : e.key \in Key \cup {1}
    BY DEF Entries
  <2>6. QED
    BY <2>2, <2>3, <2>4, <2>5 DEF Biggest
<1>5. Visits(Leaves, n, c) /\ Linked(disk, n, c) /\ Ordered(n, Contents(disk, n, c))
  BY <1>2, <1>3, LeavesVisit DEF Shape
<1>6. ASSUME NEW j \in DOMAIN Leaves
      PROVE  Len(NodeAt(Leaves[j])) <= LEAF_MAX
  <2>1. j \in 0 .. endPid
    BY <1>5 DEF Visits
  <2>2. CASE 1 + j <= n
    <3>1. Leaves[j] = c[1 + j] /\ 1 + j \in 1 .. n
      BY <1>5, <2>1, <2>2 DEF Visits
    <3>2. NodeAt(c[1 + j]) = Contents(disk, n, c)[1 + j]
      BY <1>3, <1>5, <3>1, LeafPage
    <3>3. Contents(disk, n, c)[1 + j] \in Leaf
      BY <1>5, <3>1 DEF Ordered
    <3>4. QED
      BY <3>1, <3>2, <3>3 DEF Leaf
  <2>3. CASE ~(1 + j <= n)
    <3>1. NodeAt(Leaves[j]) = << >>
      BY <1>5, <2>1, <2>3 DEF Visits
    <3>2. Len(<< >>) <= LEAF_MAX
      BY <1>3, EmptySeq
    <3>3. QED
      BY <3>1, <3>2
  <2>4. QED
    BY <2>2, <2>3
<1>7. QED
  BY <1>4, <1>6

\* A running insert's stack has pages of the file, and what it hands up is a
\* leaf's first key and that leaf's page.
LEMMA CallTyped ==
  ASSUME Inv, Plain, Calls
  PROVE  /\ pc \in {"idle", "descend", "leaf", "left", "up"}
         /\ pc # "idle" => mode = "w" /\ ins.key \in Key
         /\ \A i \in DOMAIN stack : stack[i].pid \in PidSet
         /\ up.key \in Key \cup {0} /\ up.pid \in PidSet /\ up.rc \in RC
<1>1. PICK n \in Nat : \E c \in [1 .. n -> 1 .. Len(disk) - 1], x \in {0} \cup 2 .. n : Shape(n, c, x)
  BY DEF Inv
<1>2. PICK c \in [1 .. n -> 1 .. Len(disk) - 1], x \in {0} \cup 2 .. n : Shape(n, c, x)
  BY <1>1
<1>3. Types /\ disk \in Seq(Pages) /\ rootPid \in PidSet /\ Len(disk) \in Nat
  BY LenProperties DEF Inv, Types
<1>4. /\ pc # "idle" => mode = "w" /\ ins \in Input /\ ins.key \in Key
      /\ pc \in {"idle", "descend", "leaf", "left", "up"}
  BY InsertIs, InputEntries
<1>5. pc # "idle" => Writing(n, c, x) /\ rootPid # -1 /\ treeHeight \in {0, 1}
  BY <1>2, <1>4 DEF Shape, Writing, Grows, Rooted
<1>6. 0 \in RC /\ -1 \in PidSet /\ \A p \in 0 .. Len(disk) - 1 : p \in PidSet
  BY DEF RC, PidSet
<1>7. \A i \in DOMAIN stack : stack[i].pid \in PidSet
  <2> DEFINE T == { e \in {Step(rootPid), Top} : e.pid \in PidSet }
  <2>1. pc \in {"leaf", "left", "up"} => Above0 \in Seq(T)
    <3>1. Step(rootPid) \in T
      BY <1>3 DEF Step
    <3> HIDE DEF T
    <3>2. QED
      BY <1>5, <3>1, AboveIs
  <2>2. CASE pc \in {"idle", "descend"}
    BY <2>2 DEF Calls
  <2>3. CASE pc \in {"leaf", "left"}
    <3>1. PICK e : stack = Append(Above0, e)
      BY <1>5, <2>3 DEF Writing
    <3>2. Top = e
      BY <1>5, <2>3, <3>1, TopIs
    <3>3. Top.pid \in 1 .. Len(disk) - 1
      BY <2>3, InsertIs
    <3>4. Top.pid \in PidSet
      BY <3>3 DEF PidSet
    <3>5. e \in T
      BY <3>2, <3>4
    <3>6. \A f \in T : f.pid \in PidSet
      OBVIOUS
    <3> HIDE DEF T
    <3>7. stack \in Seq(T)
      BY <2>1, <2>3, <3>1, <3>5, AppendProperties
    <3>8. QED
      BY <3>6, <3>7, ElementOfSeq, LenProperties
  <2>4. CASE pc = "up"
    <3>1. stack = Above0
      BY <1>5, <2>4 DEF Writing
    <3>2. \A f \in T : f.pid \in PidSet
      OBVIOUS
    <3> HIDE DEF T
    <3>3. stack \in Seq(T)
      BY <2>1, <2>4, <3>1
    <3>4. QED
      BY <3>2, <3>3, ElementOfSeq, LenProperties
  <2>5. QED
    BY <1>4, <2>2, <2>3, <2>4
<1>8. ASSUME NEW m \in Leaf, m # << >>
      PROVE  m[1].key \in Key
  <2>1. m \in Seq(Input) /\ \A a \in 1 .. Len(m) : m[a] \in Input
    BY <1>8, LeafNodes
  <2>2. 1 \in 1 .. Len(m)
    BY <1>8, <2>1, EmptySeq
  <2>3. QED
    BY <2>1, <2>2, InputEntries
<1>9. up.key \in Key \cup {0} /\ up.pid \in PidSet /\ up.rc \in RC
  <2>1. CASE pc \in {"idle", "descend", "leaf"}
    BY <1>6, <2>1 DEF Calls, NotSplit
  <2>2. CASE pc = "left"
    <3>1. PICK i \in 1 .. n :
            /\ Fits(disk, rootPid, treeHeight, n, c, i, ins.key) /\ LeafFull(Cell(disk, c[i]))
            /\ up = [key |-> LeafSplit(Cell(disk, c[i]), ins).key, pid |-> endPid - 1, rc |-> 0]
      BY <1>5, <2>2 DEF Writing
    <3>2. Placing(n, c, i)
      BY <1>2, <1>3, <2>2, <3>1, PlacingOf
    <3>3. PICK m : m = Cell(disk, c[i])
      OBVIOUS
    <3>4. /\ m \in Leaf /\ Rising(m) /\ ~InLeaf(m, ins) /\ ins \in Input
          /\ c[i] \in 1 .. Len(disk) - 1
      BY <3>2, <3>3 DEF Placing, Linked
    <3>5. m \in Seq(Input) /\ LeafFull(m)
      BY <3>1, <3>3, <3>4, LeafNodes
    <3>6. PICK right : right = LeafSplit(m, ins).right
      OBVIOUS
    <3>7. right \in Leaf /\ right # << >> /\ LeafSplit(m, ins).key = right[1].key
      BY <3>4, <3>5, <3>6, LeafSplitHalves DEF Halves
    <3>8. up.key \in Key
      BY <1>8, <3>1, <3>3, <3>7
    <3>9. endPid - 1 \in PidSet
      <4>1. endPid = Len(disk) /\ Len(disk) - 1 \in Nat
        BY <1>3, <3>4 DEF endPid
      <4>2. QED
        BY <4>1 DEF PidSet
    <3>10. QED
      BY <1>6, <3>1, <3>8, <3>9
  <2>3. CASE pc = "up"
    <3>1. /\ x \in 2 .. n /\ up.pid = c[x] /\ up.rc = 0 /\ up.key = Contents(disk, n, c)[x][1].key
          /\ Linked(disk, n, c) /\ Ordered(n, Contents(disk, n, c))
      BY <1>2, <1>3, <2>3, UpIs
    <3>2. x \in 1 .. n /\ n > 1
      BY <3>1
    <3>3. Contents(disk, n, c)[x] \in Leaf /\ Contents(disk, n, c)[x] # << >>
      BY <3>1, <3>2 DEF Ordered
    <3>4. c[x] \in 0 .. Len(disk) - 1
      BY <1>3, <3>1, <3>2, LeafPage
    <3>5. QED
      BY <1>6, <1>8, <3>1, <3>3, <3>4
  <2>4. QED
    BY <1>4, <2>1, <2>2, <2>3
<1>10. QED
  BY <1>4, <1>7, <1>9

\* Every variable has its type, no node is larger than a page, and no leaf
\* larger than a leaf's.
THEOREM TypeCorrect ==
  ASSUME Plain
  PROVE  Spec /\ [][~nonleaf_split]_vars => []TypeOK
<1>1. Init => Calls
  BY CallsInit
<1>2. Inv /\ Calls /\ [Next]_vars /\ [~nonleaf_split]_vars => Calls'
  <2>1. SUFFICES ASSUME Inv, Calls, [Next]_vars, [~nonleaf_split]_vars
                 PROVE  Calls'
    OBVIOUS
  <2>2. ~nonleaf_split
    <3>1. nonleaf_split => pc' # pc
      BY DEF nonleaf_split
    <3>2. QED
      BY <2>1, <3>1 DEF vars
  <2>3. QED
    BY <2>1, <2>2, CallsInv
<1>3. Inv /\ Calls => TypeOK
  <2>1. SUFFICES ASSUME Inv, Calls
                 PROVE  TypeOK
    OBVIOUS
  <2>2. mode \in {"closed", "r", "w"} /\ rootPid \in PidSet /\ treeHeight \in Nat
    BY <2>1 DEF Inv, Types
  <2>3. QED
    BY <2>1, <2>2, PagesTyped, CallTyped DEF Calls, TypeOK
<1>4. QED
  BY <1>1, <1>2, <1>3, Invariant, PTL DEF Spec

-----------------------------------------------------------------------------
(* The chain of leaves is in the order of the keys. *)

\* The fold that strings the leaves together is a run of concatenations.
LEMMA ChainRuns ==
  ASSUME NEW T, endPid \in Nat, \A j \in 0 .. endPid : NodeAt(Leaves[j]) \in Seq(T)
  PROVE  \E g \in [0 .. endPid + 1 -> Seq(T)] :
           /\ g[0] = << >> /\ \A i \in 1 .. endPid + 1 : g[i] = g[i - 1] \o NodeAt(Leaves[i - 1])
           /\ LeafChain = g[endPid + 1]
<1>1. PICK walk : walk = Leaves
  OBVIOUS
<1> DEFINE n == endPid + 1
           Q == Seq(T)
           b == << >>
           D == SUBSET (1 .. n)
           r == [i \in 1 .. n |-> i - 1]
           F == [i \in 1 .. n |-> [m \in Q |-> m \o NodeAt(walk[i - 1])]]
           Eq(f) == f = [s \in D |-> IF s = {} THEN b ELSE f[s \ {Max(s)}] \o NodeAt(walk[r[Max(s)]])]
           f == CHOOSE f : Eq(f)
           g == [i \in 0 .. n |-> f[1 .. i]]
<1>2. n \in Nat /\ DOMAIN r = 1 .. n
  OBVIOUS
<1>3. b \in Q
  BY EmptySeq
<1>4. LeafChain = f[1 .. n]
  BY <1>1, <1>2 DEF LeafChain, FoldLeft, MapThenFoldSet
<1>5. F \in [1 .. n -> [Q -> Q]]
  <2>1. \A i \in 1 .. n : i - 1 \in 0 .. endPid
    OBVIOUS
  <2>2. \A i \in 1 .. n : NodeAt(walk[i - 1]) \in Q
    BY <1>1, <2>1
  <2>3. ASSUME NEW i \in 1 .. n, NEW m \in Q
        PROVE  m \o NodeAt(walk[i - 1]) \in Q
    BY <2>2, ConcatProperties
  <2> HIDE DEF n, Q
  <2>4. QED
    BY <2>3
<1>6. \E it : Eq(it)
  <2>1. PICK it \in [D -> Q] :
          it = [s \in D |-> IF s = {} THEN b ELSE F[Max(s)][it[s \ {Max(s)}]]]
    <3> HIDE DEF F, b, Q, n
    <3>1. Folds(Q, n, b, F) # {}
      BY <1>2, <1>3, <1>5, FoldExists
    <3>2. QED
      BY <3>1 DEF Folds
  <2>2. ASSUME NEW s \in D, s # {}
        PROVE  F[Max(s)][it[s \ {Max(s)}]] = it[s \ {Max(s)}] \o NodeAt(walk[r[Max(s)]])
    <3> HIDE DEF Q, n
    <3>1. Max(s) \in 1 .. n
      BY <1>2, <2>2, Greatest
    <3>2. it[s \ {Max(s)}] \in Q
      OBVIOUS
    <3>3. QED
      BY <3>1, <3>2
  <2>3. Eq(it)
    <3> HIDE DEF F, b, Q, n, r
    <3>1. QED
      BY <2>1, <2>2
  <2>4. QED
    BY <2>3
<1>7. Eq(f)
  <2> HIDE DEF Eq
  <2>1. QED
    BY <1>6
<1> HIDE DEF f
<1>8. f[{}] = b
  <2>1. {} \in D
    OBVIOUS
  <2>2. QED
    BY <1>7, <2>1
<1>9. ASSUME NEW i \in 1 .. n
      PROVE  f[1 .. i] = f[1 .. i - 1] \o NodeAt(walk[i - 1])
  <2>1. /\ 1 .. i \in D /\ 1 .. i # {} /\ Max(1 .. i) = i /\ (1 .. i) \ {i} = 1 .. i - 1
    <3> HIDE DEF n
    <3>1. QED
      BY <1>2, LastOf
  <2> HIDE DEF b, n
  <2>2. QED
    BY <1>7, <2>1
<1>10. \A i \in 1 .. n : f[1 .. i - 1] \in Q => f[1 .. i] = F[i][f[1 .. i - 1]]
  <2> HIDE DEF b, Q, n
  <2>1. QED
    BY <1>9
<1>11. g \in Runs(Q, n, b, F)
  <2> HIDE DEF b, F, Q, n
  <2>1. QED
    BY <1>2, <1>3, <1>5, <1>8, <1>10, FoldRuns
<1>12. g[n] = LeafChain
  <2> HIDE DEF n
  <2>1. QED
    BY <1>2, <1>4
<1>13. QED
  <2> HIDE DEF g
  <2>1. g \in [0 .. n -> Q] /\ g[0] = b /\ \A i \in 1 .. n : g[i] = F[i][g[i - 1]]
    BY <1>11 DEF Runs
  <2>2. \A i \in 1 .. n : g[i - 1] \in Q
    <3> HIDE DEF n
    <3>1. QED
      BY <1>2, <2>1
  <2>3. \A i \in 1 .. n : g[i] = g[i - 1] \o NodeAt(walk[i - 1])
    <3> HIDE DEF Q, n
    <3>1. QED
      BY <2>1, <2>2
  <2>4. QED
    BY <1>1, <1>12, <2>1, <2>3

\* Two sequences whose keys go up, the second behind the first
LEMMA RisingCat ==
  ASSUME NEW m \in Seq(Input), NEW e \in Seq(Input), Rising(m), Rising(e),
         \A a \in 1 .. Len(m), b \in 1 .. Len(e) : m[a].key < e[b].key
  PROVE  m \o e \in Seq(Input) /\ Rising(m \o e)
         /\ \A a \in 1 .. Len(m \o e) : InLeaf(m, (m \o e)[a]) \/ InLeaf(e, (m \o e)[a])
<1> DEFINE k == Len(m)
           l == Len(e)
           p == m \o e
<1>1. /\ k \in Nat /\ l \in Nat /\ p \in Seq(Input) /\ Len(p) = k + l
      /\ \A i \in 1 .. k + l : p[i] = IF i <= k THEN m[i] ELSE e[i - k]
  BY LenProperties, ConcatProperties
<1> HIDE DEF p
<1>2. ASSUME NEW i \in 1 .. k + l
      PROVE  \/ i <= k /\ i \in 1 .. k /\ p[i] = m[i]
             \/ ~(i <= k) /\ i - k \in 1 .. l /\ p[i] = e[i - k]
  BY <1>1
<1>3. ASSUME NEW i \in 1 .. k + l, NEW j \in 1 .. k + l, i < j
      PROVE  p[i].key < p[j].key
  <2>1. CASE j <= k
    <3>1. i \in 1 .. k /\ j \in 1 .. k /\ p[i] = m[i] /\ p[j] = m[j]
      BY <1>1, <1>3, <2>1
    <3>2. QED
      BY <1>3, <3>1 DEF Rising
  <2>2. CASE i <= k /\ ~(j <= k)
    <3>1. i \in 1 .. k /\ j - k \in 1 .. l /\ p[i] = m[i] /\ p[j] = e[j - k]
      BY <1>1, <2>2
    <3>2. QED
      BY <3>1
  <2>3. CASE ~(i <= k)
    <3>1. /\ i - k \in 1 .. l /\ j - k \in 1 .. l /\ i - k < j - k
          /\ p[i] = e[i - k] /\ p[j] = e[j - k]
      BY <1>1, <1>3, <2>3
    <3>2. QED
      BY <3>1 DEF Rising
  <2>4. QED
    BY <1>1, <1>3, <2>1, <2>2, <2>3
<1>4. \A a \in 1 .. k + l : InLeaf(m, p[a]) \/ InLeaf(e, p[a])
  BY <1>2 DEF InLeaf
<1>5. QED
  BY <1>1, <1>3, <1>4 DEF p, Rising

LEMMA ChainIs ==
  ASSUME Inv, Plain
  PROVE  Rising(LeafChain) /\ LeafChain \in Seq(Input)
<1>1. PICK n \in Nat : \E c \in [1 .. n -> 1 .. Len(disk) - 1], x \in {0} \cup 2 .. n : Shape(n, c, x)
  BY DEF Inv
<1>2. PICK c \in [1 .. n -> 1 .. Len(disk) - 1], x \in {0} \cup 2 .. n : Shape(n, c, x)
  BY <1>1
<1>3. Types /\ disk \in Seq(Pages) /\ endPid \in Nat
  BY ReadPage DEF Inv, Types
<1> DEFINE S == Contents(disk, n, c)
           node(j) == NodeAt(Leaves[j])
<1>4. Visits(Leaves, n, c) /\ Linked(disk, n, c) /\ Ordered(n, S)
  BY <1>2, <1>3, LeavesVisit DEF Shape
<1>5. ASSUME NEW j \in 0 .. endPid
      PROVE  IF 1 + j <= n THEN 1 + j \in 1 .. n /\ node(j) = S[1 + j] ELSE node(j) = << >>
  <2>1. CASE 1 + j <= n
    <3>1. 1 + j \in 1 .. n /\ Leaves[j] = c[1 + j]
      BY <1>4, <2>1 DEF Visits
    <3>2. QED
      BY <1>3, <1>4, <2>1, <3>1, LeafPage
  <2>2. CASE ~(1 + j <= n)
    BY <1>4, <2>2 DEF Visits
  <2>3. QED
    BY <2>1, <2>2
<1>6. \A h \in 1 .. n : S[h] \in Leaf /\ S[h] \in Seq(Input) /\ Rising(S[h])
  <2>1. TAKE h \in 1 .. n
  <2>2. S[h] \in Leaf /\ Rising(S[h])
    BY <1>4 DEF Ordered, Rising
  <2> HIDE DEF S
  <2>3. QED
    BY <2>2, LeafNodes
<1>7. << >> \in Seq(Input) /\ Len(<< >>) = 0 /\ Rising(<< >>)
  BY EmptySeq DEF Rising
<1> HIDE DEF S
<1>8. \A j \in 0 .. endPid : node(j) \in Seq(Input) /\ Rising(node(j))
  BY <1>5, <1>6, <1>7
<1>9. PICK g \in [0 .. endPid + 1 -> Seq(Input)] :
        /\ g[0] = << >> /\ \A i \in 1 .. endPid + 1 : g[i] = g[i - 1] \o node(i - 1)
        /\ LeafChain = g[endPid + 1]
  BY <1>3, <1>8, ChainRuns
<1> HIDE DEF node
\* What the first i leaves come to
<1> DEFINE From(i) == \A a \in 1 .. Len(g[i]) : \E h \in 1 .. n : h <= i /\ InLeaf(S[h], g[i][a])
           T == { i \in 0 .. endPid + 1 : Rising(g[i]) /\ From(i) }
<1>10. 0 \in T
  BY <1>3, <1>7, <1>9
<1>11. ASSUME NEW i \in 0 .. (endPid + 1) - 1, i \in T
       PROVE  i + 1 \in T
  <2>1. i \in 0 .. endPid /\ i + 1 \in 1 .. endPid + 1 /\ i + 1 \in 0 .. endPid + 1 /\ (i + 1) - 1 = i
        /\ i \in 0 .. endPid + 1
    BY <1>3
  <2>2. g[i] \in Seq(Input) /\ Rising(g[i]) /\ From(i) /\ node(i) \in Seq(Input) /\ Rising(node(i))
        /\ g[i + 1] = g[i] \o node(i)
    BY <1>8, <1>9, <1>11, <2>1
  <2>3. \A a \in 1 .. Len(g[i]), b \in 1 .. Len(node(i)) : g[i][a].key < node(i)[b].key
    <3>1. TAKE a \in 1 .. Len(g[i]), b \in 1 .. Len(node(i))
    <3>2. node(i) # << >>
      BY <1>7
    <3>3. 1 + i \in 1 .. n /\ node(i) = S[1 + i]
      BY <1>5, <2>1, <3>2
    <3>4. PICK h \in 1 .. n : h <= i /\ InLeaf(S[h], g[i][a])
      BY <2>2
    <3>5. PICK d \in 1 .. Len(S[h]) : S[h][d] = g[i][a]
      BY <3>4 DEF InLeaf
    <3>6. h < 1 + i
      BY <3>4
    <3>7. S[h][d].key < S[1 + i][b].key
      BY <1>4, <3>3, <3>5, <3>6 DEF Ordered
    <3>8. QED
      BY <3>3, <3>5, <3>7
  <2>4. /\ Rising(g[i + 1])
        /\ \A a \in 1 .. Len(g[i + 1]) : InLeaf(g[i], g[i + 1][a]) \/ InLeaf(node(i), g[i + 1][a])
    BY <2>2, <2>3, RisingCat
  <2>5. From(i + 1)
    <3>1. SUFFICES ASSUME NEW a \in 1 .. Len(g[i + 1])
                   PROVE  \E h \in 1 .. n : h <= i + 1 /\ InLeaf(S[h], g[i + 1][a])
      OBVIOUS
    <3>2. CASE InLeaf(g[i], g[i + 1][a])
      <4>1. PICK d \in 1 .. Len(g[i]) : g[i][d] = g[i + 1][a]
        BY <3>2 DEF InLeaf
      <4>2. PICK h \in 1 .. n : h <= i /\ InLeaf(S[h], g[i][d])
        BY <2>2
      <4>3. h <= i + 1
        BY <4>2
      <4>4. QED
        BY <4>1, <4>2, <4>3
    <3>3. CASE InLeaf(node(i), g[i + 1][a])
      <4>1. node(i) # << >>
        BY <1>7, <3>3 DEF InLeaf
      <4>2. 1 + i \in 1 .. n /\ node(i) = S[1 + i]
        BY <1>5, <2>1, <4>1
      <4>3. 1 + i <= i + 1
        OBVIOUS
      <4>4. QED
        BY <3>3, <4>2, <4>3
    <3>4. QED
      BY <2>4, <3>2, <3>3
  <2>6. QED
    BY <2>1, <2>4, <2>5
<1>12. endPid + 1 \in Nat
  BY <1>3
<1>13. endPid + 1 \in T
  <2>1. 0 .. endPid + 1 \subseteq T
    <3> HIDE DEF T
    <3>1. QED
      BY <1>10, <1>11, <1>12, UpTo
  <2>2. endPid + 1 \in 0 .. endPid + 1
    BY <1>12
  <2>3. QED
    BY <2>1, <2>2
<1>14. QED
  BY <1>9, <1>12, <1>13

\* The chain of leaves is in the order of the keys, at every moment of every
\* split of a leaf and wherever a load has ended, even one that never closed.
THEOREM ChainInOrder ==
  ASSUME Plain
  PROVE  Spec /\ [][~nonleaf_split]_vars => []ChainSorted
<1>1. Inv => ChainSorted
  <2>1. SUFFICES ASSUME Inv
                 PROVE  \A i, j \in DOMAIN LeafChain : i < j => LeafChain[i].key < LeafChain[j].key
    BY DEF ChainSorted
  <2>2. Rising(LeafChain) /\ LeafChain \in Seq(Input)
    BY <2>1, ChainIs
  <2>3. DOMAIN LeafChain = 1 .. Len(LeafChain)
    BY <2>2, LenProperties
  <2>4. QED
    BY <2>2, <2>3 DEF Rising
<1>2. QED
  BY <1>1, Invariant, PTL
=============================================================================
