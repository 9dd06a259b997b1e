-------------------------- MODULE BTreeNodeObject --------------------------
(***************************************************************************)
(* One node in the hands of BTreeIndex: filled by insert, split in two     *)
(* when it is full, written to its page and read back by another object.   *)
(***************************************************************************)
EXTENDS BTreeNode

CONSTANTS Key, Val   \* the keys inserted, and the ids that go with them

ASSUME KeyAssumption == Key \subseteq Int

VARIABLES
  kind,       \* "leaf" or "nonleaf"
  mymap,      \* the entries of the object
  page,       \* its page on disk
  split,      \* the result of the last call if it split the node, else NoSplit
  entered     \* history: the entries that went in, oldest first, and are in
              \* the node or were when it split

vars == <<kind, mymap, page, split, entered>>

NoSplit == [left |-> << >>, right |-> << >>, key |-> 0]
Full    == IF kind = "leaf" THEN LeafFull(mymap) ELSE NonLeafFull(mymap)

Init == /\ kind \in {"leaf", "nonleaf"}
        /\ mymap = << >> /\ page = ZeroPage
        /\ split = NoSplit /\ entered = << >>

insert(e) ==
  /\ ~Full
  /\ mymap' = IF kind = "leaf" THEN LeafInsert(mymap, e) ELSE NonLeafInsert(mymap, e)
  /\ entered' = Append(IF split = NoSplit THEN entered ELSE mymap, e)
  /\ split' = NoSplit
  /\ UNCHANGED <<kind, page>>

insertAndSplit(e) ==
  /\ Full
  /\ split' = IF kind = "leaf" THEN LeafSplit(mymap, e) ELSE NonLeafSplit(mymap, e)
  /\ mymap' = split'.left
  /\ entered' = Append(IF split = NoSplit THEN entered ELSE mymap, e)
  /\ UNCHANGED <<kind, page>>

write ==
  /\ page' = Page(mymap, 0)
  /\ UNCHANGED <<kind, mymap, split, entered>>

\* The object is gone and another one reads the page.
read ==
  /\ mymap' = Loaded(page)
  /\ entered' = mymap'
  /\ split' = NoSplit
  /\ UNCHANGED <<kind, page>>

Next == \/ \E k \in Key, v \in Val : insert(Entry(k, v)) \/ insertAndSplit(Entry(k, v))
        \/ write \/ read

Spec == Init /\ [][Next]_vars

-----------------------------------------------------------------------------
(* Properties *)

EntriesOf(m) == [e \in ToSet(m) |-> Cardinality({i \in DOMAIN m : m[i] = e})]

\* A node and its sibling are sorted, one after the other ("all keys inside a
\* B+tree node should be kept sorted"), although the sibling is filled from
\* its last entry to its first.
SplitSorted == /\ InOrder(mymap)
               /\ split # NoSplit =>
                    /\ InOrder(mymap \o split.right)
                    /\ mymap # << >> /\ split.right # << >>
                    /\ InOrder(mymap \o <<Entry(split.key, 0)>> \o split.right)

\* A leaf loses no entry and invents none, whatever order they came in and
\* wherever it splits; its halves differ by at most one entry ("split the node
\* half and half") and the sibling's first key is handed up.
LeafKeepsEntries ==
  kind = "leaf" =>
    /\ EntriesOf(mymap \o split.right) = EntriesOf(entered)
    /\ split # NoSplit => /\ Len(mymap) - Len(split.right) \in {0, 1}
                          /\ split.key = split.right[1].key

\* A nonleaf node loses exactly one entry in a split, the one whose key goes
\* up to the parent; what is left in front of it and behind it differs by at
\* most one entry ("The middle key after the split").
NonLeafHandsUpMiddle ==
  kind = "nonleaf" =>
    IF split = NoSplit THEN EntriesOf(mymap) = EntriesOf(entered)
    ELSE /\ Len(mymap) - Len(split.right) \in {0, 1}
         /\ \E v \in Val : EntriesOf(mymap \o <<Entry(split.key, v)>> \o split.right)
                             = EntriesOf(entered)

\* locateChildPtr follows the page id of the last separator that is not above
\* the key: the subtree that covers it.
ChildCovers ==
  kind = "nonleaf" /\ mymap # << >> =>
    \A k \in Key :
      LET below == { i \in DOMAIN mymap : mymap[i].key <= k }
      IN ChildOf(mymap, 0, k) = IF below = {} THEN 0 ELSE mymap[Max(below)].val

\* locate counts the entries with a smaller key.
LocateCounts ==
  kind = "leaf" =>
    \A k \in Key :
      LET smaller == Cardinality({ i \in DOMAIN mymap : mymap[i].key < k })
      IN Locate(mymap, k) = IF smaller = Len(mymap) THEN 0 ELSE smaller + 1

=============================================================================
