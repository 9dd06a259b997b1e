----------------------------- MODULE BTreeNode -----------------------------
(***************************************************************************)
(* BTreeNode.{h,cc}: what a leaf and a nonleaf node compute, as operators  *)
(* on the content of a node: mymap, a sequence of entries, and the page id *)
(* that the page ends with (a leaf's nextpage, a nonleaf's firstpage).     *)
(* An entry of a leaf has a record id, one of a nonleaf node a page id.    *)
(***************************************************************************)
EXTENDS Bruinbase, SequencesExt

CONSTANTS LEAF_MAX, NONLEAF_MAX   \* how many entries fit a page

ASSUME FanoutAssumption == LEAF_MAX \in Nat \ {0} /\ NONLEAF_MAX \in Nat \ {0}

Entry(k, v) == [key |-> k, val |-> v]

\* "all keys inside a B+tree node should be kept sorted" (BTreeNode.h)
InOrder(m) == \A i, j \in DOMAIN m : i < j => m[i].key <= m[j].key

-----------------------------------------------------------------------------
(* On disk *)

\* A page is the entries in front of its zero bytes and its last four bytes.
Page(m, last) == [entries |-> m, last |-> last]
ZeroPage == Page(<< >>, 0)

\* What read makes of a page: an entry with key 0 is taken for its end.
Loaded(page) ==
  LET zero == SelectInSeq(page.entries, LAMBDA e : e.key = 0)
  IN IF zero = 0 THEN page.entries ELSE SubSeq(page.entries, 1, zero - 1)

-----------------------------------------------------------------------------
(* BTLeafNode *)

\* Mutant: locate wants a larger key.
LocateGt(m, k) == SelectInSeq(m, LAMBDA e : e.key > k)

\* locate: the place of the first entry with a key >= k, 0 when there is none.
Locate(m, k) == SelectInSeq(m, LAMBDA e : e.key >= k)

Placed(m, at, e) == IF at = 0 THEN Append(m, e) ELSE InsertAt(m, at, e)

\* Mutant: a full leaf takes one more.
LeafFullLate(m) == Len(m) = LEAF_MAX + 1

LeafFull(m) == Len(m) = LEAF_MAX

\* Mutant: an entry with the same key is overwritten.
LeafPlacedOver(m, e) ==
  LET at == SelectInSeq(m, LAMBDA x : x.key = e.key)
  IN IF at = 0 THEN Placed(m, Locate(m, e.key), e) ELSE [m EXCEPT ![at] = e]

LeafPlaced(m, e) == Placed(m, Locate(m, e.key), e)
LeafInsert(m, e) == IF LeafFull(m) THEN m ELSE LeafPlaced(m, e)

\* Mutant: the left half of an even number gets one more.
LeafMidHigh(n) == n \div 2 + 1

\* How many entries stay: ceil(n / 2.0).
LeafMid(n) == (n + 1) \div 2

\* insertAndSplit: the entries behind the middle go to the sibling, last first,
\* through the sibling's own insert.
LeafSplit(m, e) ==
  LET all  == LeafPlaced(m, e)
      mid  == LeafMid(Len(all))
      sib  == FoldLeft(LeafInsert, << >>, Reverse(SubSeq(all, mid + 1, Len(all))))
  IN [left |-> SubSeq(all, 1, mid), right |-> sib, key |-> sib[1].key]

-----------------------------------------------------------------------------
(* BTNonLeafNode *)

NonLeafFull(m) == Len(m) = NONLEAF_MAX

\* The place of the first entry with a key > k, 0 when there is none.
Above(m, k) == SelectInSeq(m, LAMBDA e : e.key > k)

\* Mutant: the comparison of the keys is turned around.
NonLeafPlacedBelow(m, e) == Placed(m, SelectInSeq(m, LAMBDA x : x.key < e.key), e)

NonLeafPlaced(m, e) == Placed(m, Above(m, e.key), e)
NonLeafInsert(m, e) == IF NonLeafFull(m) THEN m ELSE NonLeafPlaced(m, e)

\* Mutant: the middle entry stays, and the one behind it goes up.
NonLeafKeptMid(n) == n \div 2 + 1

\* How many entries stay in front of the middle one.
NonLeafKept(n) == n \div 2

\* insertAndSplit: the middle entry is taken out, its key is handed to the
\* parent and its page id is dropped.  The sibling's firstpage is never set.
NonLeafSplit(m, e) ==
  LET all  == NonLeafPlaced(m, e)
      kept == NonLeafKept(Len(all))
      sib  == FoldLeft(NonLeafInsert, << >>, Reverse(SubSeq(all, kept + 2, Len(all))))
  IN [left |-> SubSeq(all, 1, kept), right |-> sib, key |-> all[kept + 1].key]

\* Mutant: a key equal to a separator goes to its left.
ChildOfGe(m, firstpage, k) ==
  LET above == SelectInSeq(m, LAMBDA e : e.key >= k)
  IN IF above = 0 THEN m[Len(m)].val
     ELSE IF above = 1 THEN firstpage ELSE m[above - 1].val

\* locateChildPtr, of a node that is not empty: the page id in front of the
\* first larger key.
ChildOf(m, firstpage, k) ==
  LET above == Above(m, k)
  IN IF above = 0 THEN m[Len(m)].val
     ELSE IF above = 1 THEN firstpage ELSE m[above - 1].val

\* initializeRoot, of a new node
RootOf(pid1, k, pid2) == Page(<<Entry(k, pid2)>>, pid1)

=============================================================================
