-------------------------- MODULE BTreeNodeProofs --------------------------
(***************************************************************************)
(* One node, for every fan-out, set of keys and set of ids: its entries    *)
(* stay sorted and within a page through inserts, splits, writes and       *)
(* reads, the two searches find what they should, and a split loses no     *)
(* entry but the middle one of a nonleaf node.                             *)
(***************************************************************************)
EXTENDS BTreeNodeObject, BTreeNodeLemmas

MaxOf(k) == IF k = "leaf" THEN LEAF_MAX ELSE NONLEAF_MAX

EntryRec == [key : Key, val : Val]

Node(m) == m \in Seq(EntryRec) /\ Len(m) <= MaxOf(kind) /\ InOrder(m)

IInv == kind \in {"leaf", "nonleaf"} /\ Node(mymap) /\ Node(page.entries)

-----------------------------------------------------------------------------
(* The entries of a node *)

LEMMA EntryKeys == \A e \in EntryRec : e.key \in Int
BY KeyAssumption DEF EntryRec

-----------------------------------------------------------------------------
(* The invariant *)

LEMMA InvInit == Init => IInv
<1> SUFFICES ASSUME Init PROVE IInv
  OBVIOUS
<1>1. << >> \in Seq(EntryRec) /\ Len(<< >>) = 0 /\ InOrder(<< >>)
  BY EmptySeq DEF InOrder
<1>2. mymap = << >> /\ page.entries = << >> /\ kind \in {"leaf", "nonleaf"}
  BY DEF Init, ZeroPage, Page
<1>3. QED
  BY <1>1, <1>2, FanoutAssumption DEF IInv, Node, MaxOf

LEMMA InvInsert ==
  ASSUME IInv, NEW e \in EntryRec, insert(e)
  PROVE  IInv'
<1>1. /\ kind' = kind /\ page' = page
      /\ mymap \in Seq(EntryRec) /\ InOrder(mymap)
      /\ Len(mymap) \in Nat /\ Len(mymap) <= MaxOf(kind) /\ MaxOf(kind) \in Nat
  BY Keys, EntryKeys, FanoutAssumption DEF insert, IInv, Node, MaxOf
<1>2. CASE kind = "leaf"
  <2>1. mymap' = LeafPlaced(mymap, e) /\ Len(mymap) # MaxOf(kind)
    BY <1>2 DEF insert, Full, LeafInsert, LeafFull, MaxOf
  <2>2. /\ LeafPlaced(mymap, e) \in Seq(EntryRec) /\ InOrder(LeafPlaced(mymap, e))
        /\ Len(LeafPlaced(mymap, e)) = Len(mymap) + 1
    BY <1>1, LeafPlacedSorted, EntryKeys
  <2>3. Node(mymap')
    BY <1>1, <2>1, <2>2 DEF Node
  <2>4. QED
    BY <1>1, <2>3 DEF IInv, Node, InOrder
<1>3. CASE kind = "nonleaf"
  <2>1. mymap' = NonLeafPlaced(mymap, e) /\ Len(mymap) # MaxOf(kind)
    BY <1>3 DEF insert, Full, NonLeafInsert, NonLeafFull, MaxOf
  <2>2. /\ NonLeafPlaced(mymap, e) \in Seq(EntryRec) /\ InOrder(NonLeafPlaced(mymap, e))
        /\ Len(NonLeafPlaced(mymap, e)) = Len(mymap) + 1
    BY <1>1, NonLeafPlacedSorted, EntryKeys
  <2>3. Node(mymap')
    BY <1>1, <2>1, <2>2 DEF Node
  <2>4. QED
    BY <1>1, <2>3 DEF IInv, Node, InOrder
<1>4. QED
  BY <1>2, <1>3 DEF IInv

\* The left part of a node that one entry too many went through
LEMMA LeftPart ==
  ASSUME NEW all \in Seq(EntryRec), InOrder(all),
         NEW n \in Nat, n <= Len(all)
  PROVE  /\ SubSeq(all, 1, n) \in Seq(EntryRec)
         /\ InOrder(SubSeq(all, 1, n)) /\ Len(SubSeq(all, 1, n)) = n
<1>1. Len(all) \in Nat /\ \A i \in 1 .. n : all[i] \in EntryRec
  <2>1. Len(all) \in Nat /\ \A i \in 1 .. Len(all) : all[i] \in EntryRec
    BY Keys, EntryKeys, ElementOfSeq
  <2>2. QED
    BY <2>1
<1>2. /\ SubSeq(all, 1, n) \in Seq(EntryRec)
      /\ Len(SubSeq(all, 1, n)) = n
      /\ \A i \in 1 .. n : SubSeq(all, 1, n)[i] = all[i]
  BY <1>1, SubSeqProperties
<1>3. QED
  BY <1>2, SortedFront, EntryKeys

LEMMA InvSplit ==
  ASSUME IInv, NEW e \in EntryRec, insertAndSplit(e)
  PROVE  IInv'
<1>1. /\ kind' = kind /\ page' = page
      /\ mymap \in Seq(EntryRec) /\ InOrder(mymap)
      /\ Len(mymap) = MaxOf(kind) /\ MaxOf(kind) \in Nat \ {0}
  BY FanoutAssumption DEF insertAndSplit, IInv, Node, MaxOf, Full, LeafFull, NonLeafFull
<1>2. CASE kind = "leaf"
  <2> DEFINE all == LeafPlaced(mymap, e)
             n   == LeafMid(Len(all))
  <2>1. mymap' = SubSeq(all, 1, n)
    BY <1>2 DEF insertAndSplit, LeafSplit
  <2>2. all \in Seq(EntryRec) /\ InOrder(all) /\ Len(all) = MaxOf(kind) + 1
    BY <1>1, LeafPlacedSorted, EntryKeys
  <2>3. n \in Nat /\ n <= MaxOf(kind) /\ n <= Len(all)
    BY <1>1, <2>2 DEF LeafMid
  <2> HIDE DEF all, n
  <2>4. Node(mymap')
    BY <2>1, <2>2, <2>3, LeftPart DEF Node
  <2>5. QED
    BY <1>1, <2>4 DEF IInv, Node, InOrder
<1>3. CASE kind = "nonleaf"
  <2> DEFINE all == NonLeafPlaced(mymap, e)
             n   == NonLeafKept(Len(all))
  <2>1. mymap' = SubSeq(all, 1, n)
    BY <1>3 DEF insertAndSplit, NonLeafSplit
  <2>2. all \in Seq(EntryRec) /\ InOrder(all) /\ Len(all) = MaxOf(kind) + 1
    BY <1>1, NonLeafPlacedSorted, EntryKeys
  <2>3. n \in Nat /\ n <= MaxOf(kind) /\ n <= Len(all)
    BY <1>1, <2>2 DEF NonLeafKept
  <2> HIDE DEF all, n
  <2>4. Node(mymap')
    BY <2>1, <2>2, <2>3, LeftPart DEF Node
  <2>5. QED
    BY <1>1, <2>4 DEF IInv, Node, InOrder
<1>4. QED
  BY <1>2, <1>3 DEF IInv

LEMMA InvRead ==
  ASSUME IInv, read
  PROVE  IInv'
<1>1. kind' = kind /\ page' = page /\ mymap' = Loaded(page)
  BY DEF read
<1>2. Loaded(page) = Loaded(Page(page.entries, 0))
  BY DEF Loaded, Page
<1> DEFINE m == page.entries
           l == Loaded(Page(m, 0))
<1>3. m \in Seq(EntryRec) /\ InOrder(m) /\ Len(m) \in Nat /\ Len(m) <= MaxOf(kind)
  BY Keys, EntryKeys DEF IInv, Node
<1>4. /\ l \in Seq(EntryRec) /\ Len(l) \in 0 .. Len(m)
      /\ \A i \in 1 .. Len(l) : l[i] = m[i]
  BY <1>3, LoadedPart
<1> HIDE DEF m, l
<1>5. InOrder(l) /\ Len(l) <= MaxOf(kind)
  <2>1. InOrder(l)
    <3>1. Len(l) <= Len(m) /\ \A i \in 1 .. Len(l) : l[i] = m[i]
      BY <1>3, <1>4
    <3>2. QED
      BY <1>3, <1>4, <3>1, SortedFront, EntryKeys
  <2>2. MaxOf(kind) \in Nat
    BY FanoutAssumption DEF MaxOf
  <2>3. QED
    BY <1>3, <1>4, <2>1, <2>2
<1>6. Node(mymap')
  BY <1>1, <1>2, <1>4, <1>5 DEF Node, m, l
<1>7. QED
  BY <1>1, <1>6 DEF IInv, Node, InOrder

LEMMA InvNext == IInv /\ [Next]_vars => IInv'
<1> SUFFICES ASSUME IInv, [Next]_vars PROVE IInv'
  OBVIOUS
<1>1. ASSUME NEW k \in Key, NEW v \in Val, insert(Entry(k, v)) \/ insertAndSplit(Entry(k, v))
      PROVE  IInv'
  <2>1. Entry(k, v) \in EntryRec
    BY DEF Entry, EntryRec
  <2>2. QED
    BY <1>1, <2>1, InvInsert, InvSplit
<1>2. CASE write
  BY <1>2 DEF write, IInv, Node, InOrder, Page, MaxOf
<1>3. CASE read
  BY <1>3, InvRead
<1>4. CASE UNCHANGED vars
  BY <1>4 DEF vars, IInv, Node, InOrder, MaxOf
<1>5. QED
  BY <1>1, <1>2, <1>3, <1>4 DEF Next

\* A node and its page are sorted and no larger than a page, whatever is
\* inserted, split off, written and read back: mymap of BTLeafNode and
\* BTNonLeafNode.
THEOREM NodesSorted == Spec => []IInv
<1>1. QED
  BY InvInit, InvNext, PTL DEF Spec

\* locate (BTLeafNode::locate) counts the entries with a smaller key.
THEOREM LocateIsExact == Spec => []LocateCounts
<1>1. IInv => LocateCounts
  <2> SUFFICES ASSUME IInv, NEW k \in Key
               PROVE  LET smaller == Cardinality({ i \in DOMAIN mymap : mymap[i].key < k })
                      IN Locate(mymap, k) = IF smaller = Len(mymap) THEN 0 ELSE smaller + 1
    BY DEF LocateCounts
  <2> DEFINE at == Locate(mymap, k)
             n  == IF at = 0 THEN Len(mymap) ELSE at - 1
             I  == { i \in DOMAIN mymap : mymap[i].key < k }
  <2>1. /\ Len(mymap) \in Nat /\ DOMAIN mymap = 1 .. Len(mymap) /\ k \in Int
        /\ \A i \in 1 .. Len(mymap) : mymap[i].key \in Int
        /\ mymap \in Seq(EntryRec) /\ InOrder(mymap)
    BY Keys, EntryKeys, KeyAssumption DEF IInv, Node
  <2>2. /\ at \in 0 .. Len(mymap)
        /\ at = 0 => \A i \in 1 .. Len(mymap) : mymap[i].key < k
        /\ at # 0 => mymap[at].key >= k /\ \A i \in 1 .. at - 1 : mymap[i].key < k
    BY <2>1, LocateSplits
  <2> HIDE DEF at
  <2>3. at # 0 => \A i \in at .. Len(mymap) : mymap[i].key >= k
    <3> SUFFICES ASSUME at # 0, NEW i \in at .. Len(mymap)
                 PROVE  mymap[i].key >= k
      OBVIOUS
    <3>1. mymap[at].key <= mymap[i].key
      BY <2>1, <2>2 DEF InOrder
    <3>2. QED
      BY <2>1, <2>2, <3>1
  <2>4. n \in 0 .. Len(mymap) /\ I = 1 .. n
    BY <2>1, <2>2, <2>3
  <2>5. Cardinality(1 .. n) = n
    BY SMTT(60), <2>1, <2>4, FS_Interval
  <2>6. at = IF n = Len(mymap) THEN 0 ELSE n + 1
    BY <2>1, <2>2
  <2> HIDE DEF n, I
  <2>7. QED
    BY <2>4, <2>5, <2>6 DEF at, I
<1>2. QED
  BY <1>1, NodesSorted, PTL

\* locateChildPtr (BTNonLeafNode::locateChildPtr) follows the page id of the
\* last separator that is not above the key.
THEOREM ChildIsExact == Spec => []ChildCovers
<1>1. IInv => ChildCovers
  <2> SUFFICES ASSUME IInv, mymap # << >>, NEW k \in Key
               PROVE  LET below == { i \in DOMAIN mymap : mymap[i].key <= k }
                      IN ChildOf(mymap, 0, k) = IF below = {} THEN 0 ELSE mymap[Max(below)].val
    BY DEF ChildCovers
  <2> DEFINE at    == Above(mymap, k)
             n     == IF at = 0 THEN Len(mymap) ELSE at - 1
             below == { i \in DOMAIN mymap : mymap[i].key <= k }
  <2>1. /\ Len(mymap) \in Nat \ {0} /\ DOMAIN mymap = 1 .. Len(mymap) /\ k \in Int
        /\ \A i \in 1 .. Len(mymap) : mymap[i].key \in Int
        /\ mymap \in Seq(EntryRec) /\ InOrder(mymap)
    BY Keys, EntryKeys, KeyAssumption, EmptySeq DEF IInv, Node
  <2>2. /\ at \in 0 .. Len(mymap)
        /\ at = 0 => \A i \in 1 .. Len(mymap) : mymap[i].key <= k
        /\ at # 0 => mymap[at].key > k /\ \A i \in 1 .. at - 1 : mymap[i].key <= k
    BY <2>1, AboveSplits, EntryKeys
  <2>3. ChildOf(mymap, 0, k) = IF at = 0 THEN mymap[Len(mymap)].val
                               ELSE IF at = 1 THEN 0 ELSE mymap[at - 1].val
    BY DEF ChildOf
  <2> HIDE DEF at
  <2>4. at # 0 => \A i \in at .. Len(mymap) : mymap[i].key > k
    <3> SUFFICES ASSUME at # 0, NEW i \in at .. Len(mymap)
                 PROVE  mymap[i].key > k
      OBVIOUS
    <3>1. i = at \/ mymap[at].key <= mymap[i].key
      BY <2>1, <2>2 DEF InOrder
    <3>2. QED
      BY <2>1, <2>2, <3>1
  <2>5. n \in 0 .. Len(mymap) /\ below = 1 .. n
    BY <2>1, <2>2, <2>4
  <2>6. CASE n = 0
    <3>1. at = 1 /\ below = {}
      BY <2>1, <2>2, <2>5, <2>6
    <3>2. QED
      BY <2>3, <3>1
  <2>7. CASE n # 0
    <3>1. n \in below /\ \A i \in below : n >= i
      <4> HIDE DEF below, n
      <4>1. QED
        BY <2>1, <2>5, <2>7
    <3>2. \A x \in below : (\A y \in below : x >= y) => x = n
      BY <2>1, <2>5, <3>1
    <3>3. below # {} /\ Max(below) = n
      <4> HIDE DEF below, n
      <4>1. QED
        BY <3>1, <3>2 DEF Max
    <3>4. ChildOf(mymap, 0, k) = mymap[n].val
      BY <2>1, <2>2, <2>3, <2>7
    <3>5. QED
      BY <3>3, <3>4
  <2>8. QED
    BY <2>6, <2>7
<1>2. QED
  BY <1>1, NodesSorted, PTL

-----------------------------------------------------------------------------
(* No entry is lost *)

LEMMA SameEntries ==
  ASSUME NEW m \in Seq(EntryRec), NEW n \in Seq(EntryRec)
  PROVE  EntriesOf(m) = EntriesOf(n) <=> \A x : Count(m, x) = Count(n, x)
<1> DEFINE M == EntriesOf(m)
           N == EntriesOf(n)
<1>1. /\ DOMAIN M = ToSet(m) /\ DOMAIN N = ToSet(n)
      /\ M = [x \in ToSet(m) |-> Count(m, x)] /\ N = [x \in ToSet(n) |-> Count(n, x)]
  BY DEF EntriesOf, Count, At
<1> HIDE DEF M, N
<1>2. \A x : (Count(m, x) = 0 <=> x \notin ToSet(m)) /\ (Count(n, x) = 0 <=> x \notin ToSet(n))
  BY Places
<1>3. ASSUME M = N, NEW x
      PROVE  Count(m, x) = Count(n, x)
  <2>1. ToSet(m) = ToSet(n)
    BY <1>1, <1>3
  <2>2. CASE x \in ToSet(m)
    <3>1. M[x] = Count(m, x) /\ N[x] = Count(n, x)
      BY <1>1, <2>1, <2>2
    <3>2. QED
      BY <1>3, <3>1
  <2>3. CASE x \notin ToSet(m)
    BY <1>2, <2>1, <2>3
  <2>4. QED
    BY <2>2, <2>3
<1>4. ASSUME \A x : Count(m, x) = Count(n, x)
      PROVE  M = N
  <2>1. ToSet(m) = ToSet(n)
    BY <1>2, <1>4
  <2>2. QED
    BY <1>1, <1>4, <2>1
<1>5. QED
  BY <1>3, <1>4 DEF M, N

\* What insertAndSplit leaves of a leaf
LEMMA LeafHalves ==
  ASSUME NEW m \in Seq(EntryRec), InOrder(m), Len(m) = LEAF_MAX, NEW e \in EntryRec
  PROVE  LET s == LeafSplit(m, e)
         IN /\ s.left \in Seq(EntryRec) /\ s.right \in Seq(EntryRec)
            /\ InOrder(s.left) /\ InOrder(s.right)
            /\ \A i \in 1 .. Len(s.left), j \in 1 .. Len(s.right) : s.left[i].key <= s.right[j].key
            /\ Len(s.left) > 0 /\ Len(s.right) > 0
            /\ Len(s.left) - Len(s.right) \in {0, 1}
            /\ s.key = s.right[1].key
            /\ \A x : Count(s.left, x) + Count(s.right, x) = Count(Append(m, e), x)
<1> DEFINE all  == LeafPlaced(m, e)
           n    == Len(all)
           k    == LeafMid(n)
           left == SubSeq(all, 1, k)
           tail == SubSeq(all, k + 1, n)
           sib  == FoldLeft(LeafInsert, << >>, Reverse(tail))
<1>1. all \in Seq(EntryRec) /\ InOrder(all) /\ n = LEAF_MAX + 1
  BY LeafPlacedSorted, EntryKeys
<1>2. /\ n \in Nat /\ LEAF_MAX \in Nat \ {0} /\ k \in 1 .. n - 1
      /\ n - k <= LEAF_MAX /\ n - k > 0 /\ k - (n - k) \in {0, 1} /\ k \in k .. n
  BY <1>1, FanoutAssumption DEF LeafMid
<1> HIDE DEF all, n, k, left, tail, sib
<1>3. tail \in Seq(EntryRec) /\ Len(tail) = n - k
  <2>1. k \in 0 .. Len(all)
    BY <1>2 DEF n
  <2>2. QED
    BY <1>1, <2>1, TailPart DEF tail, n
<1>4. /\ sib \in Seq(EntryRec) /\ Len(sib) = Len(tail) /\ InOrder(sib)
      /\ \A x : Count(sib, x) = Count(tail, x)
  BY <1>2, <1>3, EntryKeys, LeafSibling DEF sib
<1>5. /\ left \in Seq(EntryRec) /\ Len(left) = k
      /\ \A i \in 1 .. k : left[i] = all[i]
      /\ Len(sib) = n - k
      /\ \A j \in 1 .. Len(sib) : \E i \in k + 1 .. n : sib[j] = all[i]
  <2>1. k \in 0 .. Len(all)
    BY <1>2 DEF n
  <2>2. \A x : Count(sib, x) = Count(SubSeq(all, k + 1, Len(all)), x)
    BY <1>4 DEF tail, n
  <2>3. \A j \in 1 .. Len(sib) : \E i \in k + 1 .. Len(all) : sib[j] = all[i]
    BY <1>1, <1>4, <2>1, <2>2, Behind
  <2>4. left \in Seq(EntryRec) /\ Len(left) = k /\ \A i \in 1 .. k : left[i] = all[i]
    BY <1>1, <2>1, FrontPart DEF left
  <2>5. QED
    BY <1>3, <1>4, <2>3, <2>4 DEF n
<1>6. InOrder(left)
  <2>1. k <= Len(all)
    BY <1>2 DEF n
  <2>2. QED
    BY <1>1, <1>5, <2>1, SortedFront, EntryKeys
<1>7. ASSUME NEW i \in 1 .. k, NEW j \in 1 .. Len(sib)
      PROVE  left[i].key <= sib[j].key
  <2>1. PICK h \in k + 1 .. n : sib[j] = all[h]
    BY <1>5
  <2>2. i \in 1 .. n /\ h \in 1 .. n /\ i < h /\ DOMAIN all = 1 .. n
    BY <1>1, <1>2, LenProperties DEF n
  <2>3. all[i].key <= all[h].key
    BY <1>1, <2>2 DEF InOrder
  <2>4. QED
    BY <1>5, <2>1, <2>3
<1>8. ASSUME NEW x
      PROVE  Count(left, x) + Count(sib, x) = Count(Append(m, e), x)
  <2>1. Count(all, x) = Count(left, x) + Count(tail, x)
    <3>1. k \in 0 .. Len(all)
      BY <1>2 DEF n
    <3>2. QED
      BY <1>1, <3>1, CountHalves DEF left, tail, n
  <2>2. Count(all, x) = Count(m, x) + (IF x = e THEN 1 ELSE 0)
    <3>1. Locate(m, e.key) \in 0 .. Len(m)
      BY LocateIn
    <3>2. QED
      BY <3>1, CountPlaced DEF all, LeafPlaced
  <2>3. Count(Append(m, e), x) = Count(m, x) + (IF x = e THEN 1 ELSE 0)
    BY CountAppended
  <2>4. Count(sib, x) = Count(tail, x)
    BY <1>4
  <2>5. QED
    BY <2>1, <2>2, <2>3, <2>4
<1>9. LeafSplit(m, e) = [left |-> left, right |-> sib, key |-> sib[1].key]
  BY DEF LeafSplit, left, sib, tail, all, n, k
<1>10. QED
  BY <1>2, <1>4, <1>5, <1>6, <1>7, <1>8, <1>9

\* What insertAndSplit leaves of a nonleaf node, and the entry that goes up
LEMMA NonLeafHalves ==
  ASSUME NEW m \in Seq(EntryRec), InOrder(m), Len(m) = NONLEAF_MAX, NEW e \in EntryRec
  PROVE  LET s == NonLeafSplit(m, e)
         IN /\ s.left \in Seq(EntryRec) /\ s.right \in Seq(EntryRec)
            /\ InOrder(s.left) /\ InOrder(s.right)
            /\ Len(s.left) > 0 /\ (NONLEAF_MAX >= 2 => Len(s.right) > 0)
            /\ Len(s.left) - Len(s.right) \in {0, 1}
            /\ \E up \in EntryRec :
                 /\ s.key = up.key
                 /\ \A i \in 1 .. Len(s.left) : s.left[i].key <= up.key
                 /\ \A j \in 1 .. Len(s.right) : up.key <= s.right[j].key
                 /\ \A x : Count(s.left, x) + ((IF x = up THEN 1 ELSE 0) + Count(s.right, x))
                             = Count(Append(m, e), x)
<1> DEFINE all  == NonLeafPlaced(m, e)
           n    == Len(all)
           k    == NonLeafKept(n)
           left == SubSeq(all, 1, k)
           tail == SubSeq(all, k + 2, n)
           sib  == FoldLeft(NonLeafInsert, << >>, Reverse(tail))
           up   == all[k + 1]
<1>1. all \in Seq(EntryRec) /\ InOrder(all) /\ n = NONLEAF_MAX + 1
  BY NonLeafPlacedSorted, EntryKeys
<1>2. /\ n \in Nat /\ NONLEAF_MAX \in Nat \ {0} /\ k \in 1 .. n - 1 /\ k + 1 \in 1 .. n
      /\ n - (k + 1) <= NONLEAF_MAX /\ (NONLEAF_MAX >= 2 => n - (k + 1) > 0)
      /\ k - (n - (k + 1)) \in {0, 1} /\ k + 1 \in k .. n /\ (k + 1) + 1 = k + 2
  BY <1>1, FanoutAssumption DEF NonLeafKept
<1> HIDE DEF all, n, k, left, tail, sib, up
<1>3. tail \in Seq(EntryRec) /\ Len(tail) = n - (k + 1)
  <2>1. k + 1 \in 0 .. Len(all)
    BY <1>2 DEF n
  <2>2. /\ SubSeq(all, (k + 1) + 1, Len(all)) \in Seq(EntryRec)
        /\ Len(SubSeq(all, (k + 1) + 1, Len(all))) = Len(all) - (k + 1)
    BY <1>1, <2>1, TailPart
  <2>3. QED
    BY <1>2, <2>2 DEF tail, n
<1>4. /\ sib \in Seq(EntryRec) /\ Len(sib) = Len(tail) /\ InOrder(sib)
      /\ \A x : Count(sib, x) = Count(tail, x)
  BY <1>2, <1>3, EntryKeys, NonLeafSibling DEF sib
<1>5. /\ left \in Seq(EntryRec) /\ Len(left) = k
      /\ \A i \in 1 .. k : left[i] = all[i]
      /\ Len(sib) = n - (k + 1)
      /\ \A j \in 1 .. Len(sib) : \E i \in (k + 1) + 1 .. n : sib[j] = all[i]
  <2> DEFINE h == k + 1
  <2>1. k \in 0 .. Len(all) /\ h \in 0 .. Len(all)
    BY <1>2 DEF n
  <2>2. \A x : Count(sib, x) = Count(SubSeq(all, h + 1, Len(all)), x)
    BY <1>2, <1>4 DEF tail, n
  <2> HIDE DEF h
  <2>3. \A j \in 1 .. Len(sib) : \E i \in h + 1 .. Len(all) : sib[j] = all[i]
    BY <1>1, <1>4, <2>1, <2>2, Behind
  <2>4. left \in Seq(EntryRec) /\ Len(left) = k /\ \A i \in 1 .. k : left[i] = all[i]
    BY <1>1, <2>1, FrontPart DEF left
  <2>5. QED
    BY <1>3, <1>4, <2>3, <2>4 DEF n, h
<1>6. InOrder(left)
  <2>1. k <= Len(all)
    BY <1>2 DEF n
  <2>2. QED
    BY <1>1, <1>5, <2>1, SortedFront, EntryKeys
<1>7. up \in EntryRec /\ DOMAIN all = 1 .. n
  BY <1>1, <1>2, ElementOfSeq, LenProperties DEF up, n
<1>8. ASSUME NEW i \in 1 .. k
      PROVE  left[i].key <= up.key
  <2>1. i \in 1 .. n /\ k + 1 \in 1 .. n /\ i < k + 1
    BY <1>2
  <2>2. all[i].key <= all[k + 1].key
    BY <1>1, <1>7, <2>1 DEF InOrder
  <2>3. QED
    BY <1>5, <2>2 DEF up
<1>9. ASSUME NEW j \in 1 .. Len(sib)
      PROVE  up.key <= sib[j].key
  <2>1. PICK h \in (k + 1) + 1 .. n : sib[j] = all[h]
    BY <1>5
  <2>2. k + 1 \in 1 .. n /\ h \in 1 .. n /\ k + 1 < h
    BY <1>2
  <2>3. all[k + 1].key <= all[h].key
    BY <1>1, <1>7, <2>2 DEF InOrder
  <2>4. QED
    BY <2>1, <2>3 DEF up
<1>10. ASSUME NEW x
       PROVE  Count(left, x) + ((IF x = up THEN 1 ELSE 0) + Count(sib, x)) = Count(Append(m, e), x)
  <2>1. Count(all, x) = Count(left, x) + ((IF x = up THEN 1 ELSE 0) + Count(tail, x))
    <3>1. k \in 0 .. Len(all) /\ k < Len(all)
      BY <1>2 DEF n
    <3>2. /\ Count(all, x) = Count(SubSeq(all, 1, k), x) + Count(SubSeq(all, k + 1, Len(all)), x)
          /\ Count(SubSeq(all, k + 1, Len(all)), x)
                = (IF x = all[k + 1] THEN 1 ELSE 0) + Count(SubSeq(all, k + 2, Len(all)), x)
      BY <1>1, <3>1, CountHalves
    <3>3. QED
      BY <3>2 DEF left, tail, n, up
  <2>2. Count(all, x) = Count(m, x) + (IF x = e THEN 1 ELSE 0)
    <3>1. Above(m, e.key) \in 0 .. Len(m)
      BY AboveSplits, EntryKeys
    <3>2. QED
      BY <3>1, CountPlaced DEF all, NonLeafPlaced
  <2>3. Count(Append(m, e), x) = Count(m, x) + (IF x = e THEN 1 ELSE 0)
    BY CountAppended
  <2>4. Count(sib, x) = Count(tail, x)
    BY <1>4
  <2>5. QED
    BY <2>1, <2>2, <2>3, <2>4
<1>11. NonLeafSplit(m, e) = [left |-> left, right |-> sib, key |-> up.key]
  BY DEF NonLeafSplit, left, sib, tail, all, n, k, up
<1>12. /\ Len(left) > 0 /\ (NONLEAF_MAX >= 2 => Len(sib) > 0)
       /\ Len(left) - Len(sib) \in {0, 1}
  BY <1>2, <1>5
<1>13. \E u \in EntryRec :
         /\ up.key = u.key
         /\ \A i \in 1 .. Len(left) : left[i].key <= u.key
         /\ \A j \in 1 .. Len(sib) : u.key <= sib[j].key
         /\ \A x : Count(left, x) + ((IF x = u THEN 1 ELSE 0) + Count(sib, x)) = Count(Append(m, e), x)
  BY <1>5, <1>7, <1>8, <1>9, <1>10
<1> HIDE DEF up
<1> DEFINE s == NonLeafSplit(m, e)
<1>14. s.left = left /\ s.right = sib /\ s.key = up.key
  BY <1>11
<1> HIDE DEF s
<1>15. /\ s.left \in Seq(EntryRec) /\ s.right \in Seq(EntryRec)
       /\ InOrder(s.left) /\ InOrder(s.right)
       /\ Len(s.left) > 0 /\ (NONLEAF_MAX >= 2 => Len(s.right) > 0)
       /\ Len(s.left) - Len(s.right) \in {0, 1}
  BY <1>4, <1>5, <1>6, <1>12, <1>14
<1>16. \E u \in EntryRec :
         /\ s.key = u.key
         /\ \A i \in 1 .. Len(s.left) : s.left[i].key <= u.key
         /\ \A j \in 1 .. Len(s.right) : u.key <= s.right[j].key
         /\ \A x : Count(s.left, x) + ((IF x = u THEN 1 ELSE 0) + Count(s.right, x))
                     = Count(Append(m, e), x)
  BY <1>13, <1>14
<1>17. QED
  BY <1>15, <1>16 DEF s

KeepInv == IInv /\ entered \in Seq(EntryRec) /\ LeafKeepsEntries /\ NonLeafHandsUpMiddle

LEMMA Whole ==
  ASSUME NEW m \in Seq(EntryRec), NEW n \in Seq(EntryRec)
  PROVE  /\ EntriesOf(m \o << >>) = EntriesOf(n) <=> \A x : Count(m, x) = Count(n, x)
         /\ EntriesOf(m) = EntriesOf(n) <=> \A x : Count(m, x) = Count(n, x)
<1>1. m \o << >> = m
  BY ConcatEmptySeq
<1>2. QED
  BY <1>1, SameEntries

\* A node that has not been split holds the entries that went in.
LEMMA Kept ==
  ASSUME KeepInv, split = NoSplit
  PROVE  \A x : Count(mymap, x) = Count(entered, x)
<1>1. mymap \in Seq(EntryRec) /\ entered \in Seq(EntryRec) /\ kind \in {"leaf", "nonleaf"}
  BY DEF KeepInv, IInv, Node
<1>2. CASE kind = "leaf"
  <2>1. EntriesOf(mymap \o << >>) = EntriesOf(entered)
    BY <1>2 DEF KeepInv, LeafKeepsEntries, NoSplit
  <2>2. QED
    BY <1>1, <2>1, Whole
<1>3. CASE kind = "nonleaf"
  <2>1. EntriesOf(mymap) = EntriesOf(entered)
    BY <1>3 DEF KeepInv, NonLeafHandsUpMiddle
  <2>2. QED
    BY <1>1, <2>1, Whole
<1>4. QED
  BY <1>1, <1>2, <1>3

LEMMA KeepInit == Init => KeepInv
<1> SUFFICES ASSUME Init PROVE KeepInv
  OBVIOUS
<1>1. << >> \in Seq(EntryRec)
  BY EmptySeq
<1>2. mymap = << >> /\ entered = << >> /\ split = NoSplit /\ NoSplit.right = << >>
  BY DEF Init, NoSplit
<1>3. EntriesOf(<< >> \o << >>) = EntriesOf(<< >>)
  BY <1>1, Whole
<1>4. LeafKeepsEntries /\ NonLeafHandsUpMiddle
  BY <1>2, <1>3 DEF LeafKeepsEntries, NonLeafHandsUpMiddle
<1>5. QED
  BY <1>1, <1>2, <1>4, InvInit DEF KeepInv

\* What a call adds the entry to
Base == IF split = NoSplit THEN entered ELSE mymap

LEMMA OnBase ==
  ASSUME KeepInv, NEW e \in EntryRec
  PROVE  /\ Append(Base, e) \in Seq(EntryRec)
         /\ \A x : Count(Append(Base, e), x) = Count(Append(mymap, e), x)
<1>1. mymap \in Seq(EntryRec) /\ Base \in Seq(EntryRec)
  BY DEF KeepInv, IInv, Node, Base
<1>2. \A x : Count(Base, x) = Count(mymap, x)
  BY Kept DEF Base
<1> HIDE DEF Base
<1>3. \A x : /\ Count(Append(Base, e), x) = Count(Base, x) + (IF x = e THEN 1 ELSE 0)
             /\ Count(Append(mymap, e), x) = Count(mymap, x) + (IF x = e THEN 1 ELSE 0)
  BY <1>1, CountAppended
<1>4. Append(Base, e) \in Seq(EntryRec)
  BY <1>1, AppendProperties
<1>5. QED
  BY <1>2, <1>3, <1>4

LEMMA KeepInsert ==
  ASSUME KeepInv, NEW e \in EntryRec, insert(e)
  PROVE  KeepInv'
<1>1. IInv'
  BY InvInsert DEF KeepInv
<1>2. /\ kind \in {"leaf", "nonleaf"} /\ mymap \in Seq(EntryRec)
      /\ entered' = Append(Base, e) /\ split' = NoSplit /\ kind' = kind
      /\ mymap' \in Seq(EntryRec)
  BY <1>1 DEF KeepInv, IInv, Node, insert, Base
<1>3. PICK at \in 0 .. Len(mymap) : mymap' = Placed(mymap, at, e)
  <2>1. CASE kind = "leaf"
    <3>1. mymap' = Placed(mymap, Locate(mymap, e.key), e)
      BY <2>1 DEF insert, Full, LeafInsert, LeafPlaced
    <3>2. Locate(mymap, e.key) \in 0 .. Len(mymap)
      BY <1>2, LocateIn
    <3>3. QED
      BY <3>1, <3>2
  <2>2. CASE kind = "nonleaf"
    <3>1. mymap' = Placed(mymap, Above(mymap, e.key), e)
      BY <2>2 DEF insert, Full, NonLeafInsert, NonLeafPlaced
    <3>2. Above(mymap, e.key) \in 0 .. Len(mymap)
      BY <1>2, AboveSplits, EntryKeys
    <3>3. QED
      BY <3>1, <3>2
  <2>3. QED
    BY <1>2, <2>1, <2>2
<1>4. \A x : Count(Placed(mymap, at, e), x) = Count(Append(mymap, e), x)
  <2>1. \A x : Count(Placed(mymap, at, e), x) = Count(mymap, x) + (IF x = e THEN 1 ELSE 0)
    BY <1>2, CountPlaced
  <2>2. \A x : Count(Append(mymap, e), x) = Count(mymap, x) + (IF x = e THEN 1 ELSE 0)
    BY <1>2, CountAppended
  <2>3. QED
    BY <2>1, <2>2
<1>5. Append(Base, e) \in Seq(EntryRec) /\ \A x : Count(Append(Base, e), x) = Count(Append(mymap, e), x)
  BY OnBase
<1> DEFINE m == Placed(mymap, at, e)
           n == Append(Base, e)
<1>6. m \in Seq(EntryRec) /\ n \in Seq(EntryRec) /\ \A x : Count(m, x) = Count(n, x)
  BY <1>2, <1>3, <1>4, <1>5
<1>7. mymap' = m /\ entered' = n
  BY <1>2, <1>3
<1> HIDE DEF m, n
<1>8. EntriesOf(m \o << >>) = EntriesOf(n) /\ EntriesOf(m) = EntriesOf(n)
  BY <1>6, Whole
<1>9. split' = NoSplit /\ split'.right = << >>
  BY <1>2 DEF NoSplit
<1>10. LeafKeepsEntries'
  BY <1>7, <1>8, <1>9 DEF LeafKeepsEntries, EntriesOf
<1>11. NonLeafHandsUpMiddle'
  BY <1>7, <1>8, <1>9 DEF NonLeafHandsUpMiddle, EntriesOf
<1>12. QED
  BY <1>1, <1>6, <1>7, <1>10, <1>11 DEF KeepInv, EntryRec

LEMMA KeepSplit ==
  ASSUME KeepInv, NEW e \in EntryRec, insertAndSplit(e)
  PROVE  KeepInv'
<1>1. IInv'
  BY InvSplit DEF KeepInv
<1>2. /\ kind \in {"leaf", "nonleaf"} /\ mymap \in Seq(EntryRec) /\ InOrder(mymap)
      /\ entered' = Append(Base, e) /\ kind' = kind /\ mymap' = split'.left
  BY DEF KeepInv, IInv, Node, insertAndSplit, Base
<1>3. Append(Base, e) \in Seq(EntryRec) /\ \A x : Count(Append(Base, e), x) = Count(Append(mymap, e), x)
  BY OnBase
<1> DEFINE s == split'
           n == Append(Base, e)
<1>4. CASE kind = "leaf"
  <2>1. s = LeafSplit(mymap, e) /\ Len(mymap) = LEAF_MAX
    BY <1>4 DEF insertAndSplit, Full, LeafFull
  <2>2. /\ s.left \in Seq(EntryRec) /\ s.right \in Seq(EntryRec)
        /\ Len(s.left) - Len(s.right) \in {0, 1} /\ s.key = s.right[1].key
        /\ \A x : Count(s.left, x) + Count(s.right, x) = Count(n, x)
    BY <1>2, <1>3, <2>1, LeafHalves
  <2> HIDE DEF s, n
  <2>3. \A x : Count(s.left \o s.right, x) = Count(n, x)
    BY <2>2, CountCat
  <2>4. s.left \o s.right \in Seq(EntryRec) /\ n \in Seq(EntryRec)
    BY <1>3, <2>2, ConcatProperties DEF n
  <2>5. EntriesOf(s.left \o s.right) = EntriesOf(n)
    BY <2>3, <2>4, SameEntries
  <2>6. LeafKeepsEntries'
    BY <1>2, <2>2, <2>5 DEF LeafKeepsEntries, EntriesOf, s, n
  <2>7. NonLeafHandsUpMiddle'
    BY <1>2, <1>4 DEF NonLeafHandsUpMiddle
  <2>8. QED
    BY <1>1, <1>2, <1>3, <2>6, <2>7 DEF KeepInv, EntryRec
<1>5. CASE kind = "nonleaf"
  <2>1. s = NonLeafSplit(mymap, e) /\ Len(mymap) = NONLEAF_MAX
    BY <1>5 DEF insertAndSplit, Full, NonLeafFull
  <2>2. /\ s.left \in Seq(EntryRec) /\ s.right \in Seq(EntryRec)
        /\ Len(s.left) > 0 /\ Len(s.left) - Len(s.right) \in {0, 1}
    BY <1>2, <2>1, NonLeafHalves
  <2>3. PICK up \in EntryRec :
          /\ s.key = up.key
          /\ \A x : Count(s.left, x) + ((IF x = up THEN 1 ELSE 0) + Count(s.right, x)) = Count(n, x)
    <3> DEFINE r == NonLeafSplit(mymap, e)
    <3>1. \E up \in EntryRec :
             /\ r.key = up.key
             /\ \A i \in 1 .. Len(r.left) : r.left[i].key <= up.key
             /\ \A j \in 1 .. Len(r.right) : up.key <= r.right[j].key
             /\ \A x : Count(r.left, x) + ((IF x = up THEN 1 ELSE 0) + Count(r.right, x))
                         = Count(Append(mymap, e), x)
      BY <1>2, <2>1, NonLeafHalves, Zenon
    <3> HIDE DEF r
    <3>2. s = r
      BY <2>1 DEF r
    <3>3. QED
      BY <1>3, <3>1, <3>2
  <2> HIDE DEF s, n
  <2>4. s # NoSplit
    BY <2>2, EmptySeq DEF NoSplit
  <2>5. up.val \in Val /\ Entry(s.key, up.val) = up
    BY <2>3 DEF EntryRec, Entry
  <2>6. <<up>> \in Seq(EntryRec) /\ \A x : Count(<<up>>, x) = IF x = up THEN 1 ELSE 0
    BY CountOne
  <2> DEFINE l == <<up>>
  <2> HIDE DEF l
  <2>7. l \in Seq(EntryRec) /\ \A x : Count(l, x) = IF x = up THEN 1 ELSE 0
    BY <2>6 DEF l
  <2>8. s.left \o l \in Seq(EntryRec) /\ \A x : Count(s.left \o l, x) = Count(s.left, x) + Count(l, x)
    BY <2>2, <2>7, CountCat, ConcatProperties
  <2>9. /\ s.left \o l \o s.right \in Seq(EntryRec)
        /\ \A x : Count(s.left \o l \o s.right, x) = Count(s.left \o l, x) + Count(s.right, x)
    <3> DEFINE f == s.left \o l
    <3>1. f \in Seq(EntryRec)
      BY <2>8
    <3> HIDE DEF f
    <3>2. f \o s.right \in Seq(EntryRec) /\ \A x : Count(f \o s.right, x) = Count(f, x) + Count(s.right, x)
      BY <2>2, <3>1, CountCat, ConcatProperties
    <3>3. QED
      BY <3>2 DEF f
  <2>10. \A x : Count(s.left \o l \o s.right, x) = Count(n, x)
    <3>1. \A x : Count(s.left, x) \in Nat /\ Count(s.right, x) \in Nat
      BY <2>2, Places
    <3>2. QED
      BY <2>3, <2>7, <2>8, <2>9, <3>1
  <2>11. EntriesOf(s.left \o l \o s.right) = EntriesOf(n)
    BY <1>3, <2>9, <2>10, SameEntries DEF n
  <2>12. \E v \in Val : EntriesOf(s.left \o <<Entry(s.key, v)>> \o s.right) = EntriesOf(n)
    BY <2>5, <2>11 DEF l
  <2>13. NonLeafHandsUpMiddle'
    BY <1>2, <2>2, <2>4, <2>12 DEF NonLeafHandsUpMiddle, EntriesOf, Entry, s, n
  <2>14. LeafKeepsEntries'
    BY <1>2, <1>5 DEF LeafKeepsEntries
  <2>15. QED
    BY <1>1, <1>2, <1>3, <2>13, <2>14 DEF KeepInv, EntryRec
<1>6. QED
  BY <1>2, <1>4, <1>5

LEMMA KeepNext == KeepInv /\ [Next]_vars => KeepInv'
<1> SUFFICES ASSUME KeepInv, [Next]_vars PROVE KeepInv'
  OBVIOUS
<1>1. IInv'
  BY InvNext DEF KeepInv
<1>2. ASSUME NEW k \in Key, NEW v \in Val, insert(Entry(k, v)) \/ insertAndSplit(Entry(k, v))
      PROVE  KeepInv'
  <2>1. Entry(k, v) \in EntryRec
    BY DEF Entry, EntryRec
  <2>2. QED
    BY <1>2, <2>1, KeepInsert, KeepSplit
<1>3. ASSUME UNCHANGED <<kind, mymap, split, entered>>
      PROVE  KeepInv'
  <2>1. LeafKeepsEntries'
    BY <1>3 DEF KeepInv, LeafKeepsEntries, EntriesOf
  <2>2. NonLeafHandsUpMiddle'
    <3> DEFINE H(k, m, s, n) ==
                 k = "nonleaf" =>
                   IF s = NoSplit THEN EntriesOf(m) = EntriesOf(n)
                   ELSE /\ Len(m) - Len(s.right) \in {0, 1}
                        /\ \E v \in Val : EntriesOf(m \o <<Entry(s.key, v)>> \o s.right)
                                            = EntriesOf(n)
    <3>1. H(kind, mymap, split, entered)
      BY DEF KeepInv, NonLeafHandsUpMiddle
    <3>2. H(kind', mymap', split', entered')
      <4> HIDE DEF H
      <4>1. QED
        BY <1>3, <3>1
    <3>3. QED
      BY <3>2, Zenon DEF NonLeafHandsUpMiddle, EntriesOf, Entry
  <2>3. QED
    BY <1>1, <1>3, <2>1, <2>2 DEF KeepInv, EntryRec
<1>4. CASE read
  <2>1. /\ mymap' \in Seq(EntryRec) /\ entered' = mymap'
        /\ split' = NoSplit /\ split'.right = << >>
    BY <1>1, <1>4 DEF read, IInv, Node, EntryRec, NoSplit
  <2> DEFINE m == mymap'
  <2>2. EntriesOf(m \o << >>) = EntriesOf(m)
    BY <2>1, Whole
  <2>3. LeafKeepsEntries' /\ NonLeafHandsUpMiddle'
    BY <2>1, <2>2 DEF LeafKeepsEntries, NonLeafHandsUpMiddle, EntriesOf
  <2>4. QED
    BY <1>1, <2>1, <2>3 DEF KeepInv, EntryRec
<1>5. CASE UNCHANGED vars
  BY <1>3, <1>5 DEF vars
<1>6. QED
  BY <1>2, <1>3, <1>4, <1>5 DEF Next, write

\* insertAndSplit of a leaf (BTLeafNode) neither loses nor invents an entry.
THEOREM LeafLosesNothing == Spec => []LeafKeepsEntries
<1>1. KeepInv => LeafKeepsEntries
  BY DEF KeepInv
<1>2. QED
  BY <1>1, KeepInit, KeepNext, PTL DEF Spec

\* insertAndSplit of a nonleaf node (BTNonLeafNode) loses the middle entry alone.
THEOREM NonLeafLosesMiddle == Spec => []NonLeafHandsUpMiddle
<1>1. KeepInv => NonLeafHandsUpMiddle
  BY DEF KeepInv
<1>2. QED
  BY <1>1, KeepInit, KeepNext, PTL DEF Spec

-----------------------------------------------------------------------------
(* The halves are sorted, one after the other *)

LEMMA Between ==
  ASSUME NEW l \in Seq(EntryRec), NEW r \in Seq(EntryRec), InOrder(l), InOrder(r), NEW k \in Int,
         \A i \in 1 .. Len(l) : l[i].key <= k, \A j \in 1 .. Len(r) : k <= r[j].key
  PROVE  InOrder(l \o r) /\ InOrder(l \o <<Entry(k, 0)>> \o r)
<1> DEFINE mid == Entry(k, 0)
           T   == EntryRec \cup {mid}
           c   == <<mid>>
           f   == l \o c
<1>1. mid.key = k /\ mid \in T /\ (\A x \in T : x.key \in Int)
  BY EntryKeys DEF Entry
<1>2. /\ l \in Seq(T) /\ r \in Seq(T) /\ c \in Seq(T) /\ Len(c) = 1 /\ c[1] = mid
      /\ Len(l) \in Nat /\ DOMAIN l = 1 .. Len(l) /\ Len(r) \in Nat /\ DOMAIN r = 1 .. Len(r)
  <2>1. EntryRec \subseteq T
    OBVIOUS
  <2> HIDE DEF T
  <2>2. l \in [1 .. Len(l) -> T] /\ r \in [1 .. Len(r) -> T] /\ Len(l) \in Nat /\ Len(r) \in Nat
    BY <2>1, SeqDef, LenProperties, ElementOfSeq
  <2>3. QED
    BY SMTT(60), <1>1, <2>2, SeqDef, LenProperties
<1>3. \A i \in 1 .. Len(l), j \in 1 .. Len(r) : l[i].key <= r[j].key
  <2>1. \A i \in 1 .. Len(l) : l[i].key \in Int
    BY EntryKeys, ElementOfSeq
  <2>2. \A j \in 1 .. Len(r) : r[j].key \in Int
    BY EntryKeys, ElementOfSeq
  <2>3. QED
    BY <2>1, <2>2
<1>4. InOrder(l \o r)
  BY <1>3, SortedCat, EntryKeys
<1>5. InOrder(c)
  BY <1>2, LenProperties DEF InOrder
<1> HIDE DEF T, c, mid
<1>6. \A i \in 1 .. Len(l), j \in 1 .. Len(c) : l[i].key <= c[j].key
  <2>1. ASSUME NEW i \in 1 .. Len(l), NEW j \in 1 .. Len(c)
        PROVE  l[i].key <= c[j].key
    <3>1. j = 1
      BY <1>2
    <3>2. QED
      BY <1>1, <1>2, <3>1
  <2>2. QED
    BY <2>1
<1>7. f \in Seq(T) /\ InOrder(f)
  BY <1>1, <1>2, <1>5, <1>6, SortedCat
<1>8. /\ Len(f) = Len(l) + Len(c)
      /\ \A i \in 1 .. Len(l) + Len(c) : f[i] = IF i <= Len(l) THEN l[i] ELSE c[i - Len(l)]
  BY <1>2, ConcatProperties
<1> HIDE DEF f
<1>9. \A i \in 1 .. Len(f), j \in 1 .. Len(r) : f[i].key <= r[j].key
  <2>1. ASSUME NEW i \in 1 .. Len(f), NEW j \in 1 .. Len(r)
        PROVE  f[i].key <= r[j].key
    <3>1. CASE i <= Len(l)
      <4>1. i \in 1 .. Len(l) /\ f[i] = l[i]
        BY <1>2, <1>8, <3>1
      <4>2. QED
        BY <1>3, <4>1
    <3>2. CASE ~(i <= Len(l))
      <4>1. i - Len(l) = 1 /\ i \in 1 .. Len(l) + Len(c)
        BY <1>2, <1>8, <3>2
      <4>2. f[i] = mid
        BY <1>2, <1>8, <3>2, <4>1
      <4>3. QED
        BY <1>1, <4>2
    <3>3. QED
      BY <3>1, <3>2
  <2>2. QED
    BY <2>1
<1>10. InOrder(f \o r)
  BY <1>1, <1>2, <1>7, <1>9, SortedCat
<1>11. QED
  BY <1>4, <1>10 DEF f, c, mid

SplitInv == IInv /\ SplitSorted

LEMMA SplitSplit ==
  ASSUME NONLEAF_MAX >= 2, IInv, NEW e \in EntryRec, insertAndSplit(e)
  PROVE  SplitSorted'
<1>1. /\ kind \in {"leaf", "nonleaf"} /\ mymap \in Seq(EntryRec) /\ InOrder(mymap)
      /\ mymap' = split'.left
  BY DEF IInv, Node, insertAndSplit
<1> DEFINE s == split'
<1>2. \E k \in Int :
        /\ s.left \in Seq(EntryRec) /\ s.right \in Seq(EntryRec)
        /\ InOrder(s.left) /\ InOrder(s.right)
        /\ Len(s.left) > 0 /\ Len(s.right) > 0 /\ s.key = k
        /\ \A i \in 1 .. Len(s.left) : s.left[i].key <= k
        /\ \A j \in 1 .. Len(s.right) : k <= s.right[j].key
  <2>1. CASE kind = "leaf"
    <3>1. s = LeafSplit(mymap, e) /\ Len(mymap) = LEAF_MAX
      BY <2>1 DEF insertAndSplit, Full, LeafFull
    <3>2. /\ s.left \in Seq(EntryRec) /\ s.right \in Seq(EntryRec)
          /\ InOrder(s.left) /\ InOrder(s.right)
          /\ \A i \in 1 .. Len(s.left), j \in 1 .. Len(s.right) : s.left[i].key <= s.right[j].key
          /\ Len(s.left) > 0 /\ Len(s.right) > 0
          /\ s.key = s.right[1].key
      BY <1>1, <3>1, LeafHalves
    <3> HIDE DEF s
    <3>3. /\ Len(s.right) \in Nat /\ DOMAIN s.right = 1 .. Len(s.right)
          /\ \A j \in 1 .. Len(s.right) : s.right[j].key \in Int
      BY <3>2, Keys, EntryKeys
    <3>4. 1 \in 1 .. Len(s.right)
      BY <3>2, <3>3
    <3>5. \A j \in 1 .. Len(s.right) : s.right[1].key <= s.right[j].key
      <4>1. ASSUME NEW j \in 1 .. Len(s.right)
            PROVE  s.right[1].key <= s.right[j].key
        <5>1. CASE j = 1
          BY <3>3, <3>4, <5>1
        <5>2. CASE j # 1
          <6>1. 1 < j
            BY <3>3, <5>2
          <6>2. QED
            BY <3>2, <3>3, <3>4, <6>1 DEF InOrder
        <5>3. QED
          BY <5>1, <5>2
      <4>2. QED
        BY <4>1
    <3>6. QED
      BY <3>2, <3>3, <3>4, <3>5
  <2>2. CASE kind = "nonleaf"
    <3>1. s = NonLeafSplit(mymap, e) /\ Len(mymap) = NONLEAF_MAX
      BY <2>2 DEF insertAndSplit, Full, NonLeafFull
    <3> DEFINE r == NonLeafSplit(mymap, e)
    <3>2. /\ r.left \in Seq(EntryRec) /\ r.right \in Seq(EntryRec)
          /\ InOrder(r.left) /\ InOrder(r.right)
          /\ Len(r.left) > 0 /\ (NONLEAF_MAX >= 2 => Len(r.right) > 0)
      BY <1>1, <3>1, NonLeafHalves
    <3>3. \E up \in EntryRec :
             /\ r.key = up.key
             /\ \A i \in 1 .. Len(r.left) : r.left[i].key <= up.key
             /\ \A j \in 1 .. Len(r.right) : up.key <= r.right[j].key
             /\ \A x : Count(r.left, x) + ((IF x = up THEN 1 ELSE 0) + Count(r.right, x))
                         = Count(Append(mymap, e), x)
      BY <1>1, <3>1, NonLeafHalves, Zenon
    <3> HIDE DEF s, r
    <3>4. s = r
      BY <3>1 DEF r
    <3>5. QED
      BY <3>2, <3>3, <3>4, EntryKeys
  <2>3. QED
    BY <1>1, <2>1, <2>2
<1> HIDE DEF s
<1>3. InOrder(s.left \o s.right) /\ InOrder(s.left \o <<Entry(s.key, 0)>> \o s.right)
  BY <1>2, Between
<1>4. s.left # << >> /\ s.right # << >> /\ InOrder(s.left)
  BY <1>2, EmptySeq
<1>5. QED
  BY <1>1, <1>3, <1>4 DEF SplitSorted, InOrder, Entry, s

\* The halves of a split and what is handed to the parent are in the order of
\* the keys (insertAndSplit of both node classes).  A nonleaf node of the code
\* has room for 127 entries; with room for one its right half would be empty.
THEOREM SplitsSorted ==
  ASSUME NONLEAF_MAX >= 2
  PROVE  Spec => []SplitSorted
<1>1. IInv /\ split = NoSplit => SplitSorted
  BY DEF IInv, Node, SplitSorted
<1>2. Init => SplitInv
  BY <1>1, InvInit DEF Init, SplitInv
<1>3. SplitInv /\ [Next]_vars => SplitInv'
  <2> SUFFICES ASSUME SplitInv, [Next]_vars PROVE SplitInv'
    OBVIOUS
  <2>1. IInv /\ IInv'
    BY InvNext DEF SplitInv
  <2>2. InOrder(mymap')
    BY <2>1 DEF IInv, Node, InOrder
  <2>3. CASE split' = NoSplit
    BY <2>1, <2>2, <2>3 DEF SplitInv, SplitSorted, InOrder, NoSplit
  <2>4. ASSUME UNCHANGED <<mymap, split>>
        PROVE  SplitSorted'
    BY <2>4 DEF SplitInv, SplitSorted, InOrder, Entry, NoSplit
  <2>5. ASSUME NEW k \in Key, NEW v \in Val, insertAndSplit(Entry(k, v))
        PROVE  SplitSorted'
    <3>1. Entry(k, v) \in EntryRec
      BY DEF Entry, EntryRec
    <3>2. QED
      BY <2>1, <2>5, <3>1, SplitSplit
  <2>6. QED
    BY <2>1, <2>3, <2>4, <2>5 DEF SplitInv, Next, insert, write, read, vars
<1>4. QED
  BY <1>2, <1>3, PTL DEF Spec, SplitInv

=============================================================================
