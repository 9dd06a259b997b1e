---------------------------- MODULE BTreeIndex -----------------------------
(***************************************************************************)
(* BTreeIndex.{h,cc}: a B+tree whose nodes are the pages of a file.  Page  *)
(* 0 keeps the root and the height, and only close writes it; an insert    *)
(* writes one page after the other, and the program can end between any    *)
(* two of them.  SqlEngine inserts through an object opened 'w' and looks  *)
(* up through one opened 'r' that it drops without closing it; one object  *)
(* is open at a time.                                                      *)
(***************************************************************************)
EXTENDS BTreeNode

CONSTANTS
  Key,          \* the keys that are looked up
  Input,        \* the entries that load inserts; load gives each a record id of its own
  Wild,         \* a page id outside every file
  UninitPid,    \* what the memory of a page id nobody set may hold
  UninitHeight, \* what the memory of a treeHeight nobody set may hold
  Fault,        \* "read", "write": a page of the open file is not read, written
  MaxOpens      \* bound: how often the index is opened

ASSUME WildAssumption   == Wild \in Int /\ Wild < -1 /\ UninitPid \subseteq {0, Wild}
ASSUME HeightAssumption == UninitHeight \subseteq Nat
ASSUME FaultAssumption  == Fault \subseteq {"read", "write"}
ASSUME OpensAssumption == MaxOpens \in Nat
ASSUME KeyAssumption    == /\ Key \subseteq Int
                           /\ Input \subseteq [key : Key, val : [pid : Int, sid : Int]]

VARIABLES
  disk,        \* the pages of the index file: page p is disk[p + 1]
  mode,        \* the object: "closed", "r" or "w"
  rootPid, treeHeight,
  cursor,      \* the IndexCursor of the object's user
  located,     \* locate was called for it
  pc,          \* where an insert is: "idle" when there is none
  ins,         \* the entry it inserts
  stack,       \* the nodes it has read, from the root down
  up,          \* what insertHelper hands to its caller: ifsplit, splitPid, rc
  ret,         \* what the last call returned
  entries,     \* history: the entries whose insert returned 0
  crashed,     \* history: a writer ended without a close
  opens

objVars   == <<mode, rootPid, treeHeight, located, cursor, opens>>
callVars  == <<ins, stack, up>>
histVars  == <<entries, crashed>>
vars      == <<disk, objVars, pc, callVars, ret, histVars>>

NoEntry == Entry(0, [pid |-> -1, sid |-> -1])
NotSplit == [key |-> 0, pid |-> -1, rc |-> 0]
Returned(call, rc, e) == [call |-> call, rc |-> rc, entry |-> e]

-----------------------------------------------------------------------------
(* The pages *)

endPid    == Len(disk)
InFile(p) == p >= 0 /\ p < endPid

\* The node that a read of page p leaves behind: an empty one when it fails.
NodeAt(p) == IF InFile(p) THEN Loaded(disk[p + 1]) ELSE << >>
LastAt(p) == IF InFile(p) THEN disk[p + 1].last ELSE -1

Put(p, page) ==
  [i \in 1 .. (IF p + 1 > endPid THEN p + 1 ELSE endPid) |->
     IF i = p + 1 THEN page ELSE IF i <= endPid THEN disk[i] ELSE ZeroPage]

\* pf_write: ok says whether the page got written.
CanFail(fault) == IF fault \in Fault THEN {TRUE, FALSE} ELSE {TRUE}
WriteOk(p)     == IF p < 0 THEN {FALSE} ELSE CanFail("write")
Write(p, page, ok) == disk' = IF ok THEN Put(p, page) ELSE disk
WriteRC(p, ok) == IF ok THEN 0 ELSE IF p < 0 THEN RC_INVALID_PID ELSE RC_FILE_WRITE_FAILED

\* The page with the root and the height, as a leaf with one entry; nobody sets
\* its link, which nobody follows.
InfoPage(last) == Page(<<Entry(1, [pid |-> treeHeight, sid |-> rootPid])>>, last)
Saved    == NodeAt(0) # << >>
SavedId  == NodeAt(0)[1].val

\* A load that inserts nothing saves the root -1.
TreeSaved == Saved /\ SavedId.sid # -1

Init ==
  /\ disk = << >>
  /\ mode = "closed" /\ rootPid = -1 /\ treeHeight = 0
  /\ cursor = [pid |-> 0, eid |-> 0] /\ located = FALSE
  /\ pc = "idle" /\ ins = NoEntry /\ stack = << >> /\ up = NotSplit
  /\ ret = Returned("none", 0, NoEntry)
  /\ entries = {} /\ crashed = FALSE /\ opens = 0

\* The entries a lookup must find: the entry of a running insert is among them
\* as soon as its leaf is on disk.
Visible == entries \cup (IF pc \in {"up", "sibling"} THEN {ins} ELSE {})

-----------------------------------------------------------------------------
(* open, close and the end of an object *)

\* The constructor sets the root to -1 and leaves the height alone.  Page 0 is
\* there and has no entry when a load ended before its close: then open decides
\* on a key nobody set, whether to take a root nobody set.  (Bound: no load
\* starts from what a load that did not end has left; it would insert through
\* a root that is older than the pages, or use pages of one kind as the other.)
open(m) ==
  /\ mode = "closed" /\ opens < MaxOpens
  /\ m = "w" => ~crashed
  /\ \E ok \in CanFail("read") :
       IF ok /\ Saved
       THEN rootPid' = SavedId.sid /\ treeHeight' = SavedId.pid
       ELSE /\ rootPid' \in {-1} \cup (IF ok /\ InFile(0) /\ m = "r" THEN UninitPid ELSE {})
            /\ treeHeight' \in UninitHeight
  /\ \E u \in UninitPid : cursor' = [pid |-> u, eid |-> 0]
  /\ mode' = m /\ located' = FALSE /\ opens' = opens + 1
  /\ ret' = Returned("open", 0, NoEntry)
  /\ UNCHANGED <<disk, pc, callVars, histVars>>

open_fails ==
  /\ mode = "closed"
  /\ ret' = Returned("open", RC_FILE_OPEN_FAILED, NoEntry)
  /\ UNCHANGED <<disk, objVars, pc, callVars, histVars>>

\* The code of the write is not looked at.
close ==
  /\ mode = "w" /\ pc = "idle"
  /\ \E ok \in CanFail("write"), last \in UninitPid : Write(0, InfoPage(last), ok)
  /\ mode' = "closed" /\ rootPid' = -1 /\ treeHeight' = 0
  /\ ret' = Returned("close", 0, NoEntry)
  /\ UNCHANGED <<pc, callVars, located, cursor, opens, entries, crashed>>

\* The program ends, or select drops its reader.  What a load inserted into an
\* index that has never been closed with a tree is lost: page 0 says nothing
\* of it.
Crash ==
  /\ mode # "closed"
  /\ mode' = "closed" /\ rootPid' = -1 /\ treeHeight' = 0
  /\ cursor' = [pid |-> 0, eid |-> 0] /\ located' = FALSE
  /\ pc' = "idle" /\ ins' = NoEntry /\ stack' = << >> /\ up' = NotSplit
  /\ ret' = Returned("none", 0, NoEntry)
  /\ crashed' = (crashed \/ mode = "w")
  /\ entries' = (IF TreeSaved THEN Visible ELSE {})
  /\ UNCHANGED <<disk, opens>>

-----------------------------------------------------------------------------
(* insert *)

\* From the root to the leaf for key k
RouteFrom(root, height, k) ==
  LET pid[h \in 0 .. height] ==
        IF h = 0 THEN root
        ELSE LET p == pid[h - 1]
             IN IF NodeAt(p) = << >> THEN -1 ELSE ChildOf(NodeAt(p), LastAt(p), k)
  IN pid
Route(k) == RouteFrom(rootPid, treeHeight, k)

MayInsert(e) == mode = "w" /\ pc = "idle" /\ e \notin entries

\* The first page of a new tree lies one behind the end; the page it leaves
\* out is page 0.  Nobody sets the new leaf's nextpage.
FirstRoot == endPid + 1

insert_first(e) ==
  /\ MayInsert(e) /\ rootPid = -1
  /\ \E ok \in WriteOk(FirstRoot), u \in UninitPid :
       Write(FirstRoot, Page(<< >>, u), ok)
  /\ rootPid' = FirstRoot /\ treeHeight' = 0
  /\ pc' = "descend" /\ ins' = e
  /\ UNCHANGED <<mode, located, cursor, opens, stack, up, ret, histVars>>

insert(e) ==
  /\ MayInsert(e) /\ rootPid # -1
  /\ pc' = "descend" /\ ins' = e
  /\ UNCHANGED <<disk, objVars, stack, up, ret, histVars>>

\* The call to insert returns rc.
Return(rc) ==
  /\ pc' = "idle" /\ stack' = << >> /\ up' = NotSplit /\ ins' = NoEntry
  /\ ret' = Returned("insert", rc, NoEntry)
  /\ entries' = IF rc = 0 THEN entries \cup {ins} ELSE entries
  /\ UNCHANGED crashed

descend ==
  /\ pc = "descend"
  /\ LET pid == Route(ins.key)
     IN /\ \A h \in 0 .. treeHeight - 1 : NodeAt(pid[h]) # << >>
        /\ InFile(pid[treeHeight])
        /\ stack' = [i \in 1 .. treeHeight + 1 |->
                       [pid |-> pid[i - 1], m |-> NodeAt(pid[i - 1]), last |-> LastAt(pid[i - 1])]]
  /\ pc' = "leaf"
  /\ UNCHANGED <<disk, objVars, ins, up, ret, histVars>>

\* Why a node above the leaf is not read or followed
DescentCodes(p) ==
  IF ~InFile(p) THEN {RC_INVALID_PID}
  ELSE (IF "read" \in Fault THEN {RC_FILE_READ_FAILED} ELSE {})
         \cup (IF NodeAt(p) = << >> THEN {RC_NO_SUCH_RECORD} ELSE {})

\* A node above the leaf cannot be read or followed.  Only the root's code is
\* returned: insertHelper ignores what its own call to itself returns.
descend_fails ==
  /\ pc = "descend"
  /\ LET pid == Route(ins.key)
     IN \E h \in 0 .. treeHeight - 1 :
          /\ \A g \in 0 .. h - 1 : NodeAt(pid[g]) # << >>
          /\ \E rc \in DescentCodes(pid[h]) : Return(IF h > 0 THEN 0 ELSE rc)
  /\ UNCHANGED <<disk, objVars>>

\* The leaf cannot be read: it is taken for an empty one and written back.
leaf_unread ==
  /\ pc = "descend"
  /\ LET pid  == Route(ins.key)
         leaf == pid[treeHeight]
     IN /\ \A h \in 0 .. treeHeight - 1 : NodeAt(pid[h]) # << >>
        /\ "read" \in Fault \/ ~InFile(leaf)
        /\ \E ok \in WriteOk(leaf), u \in UninitPid : Write(leaf, Page(<<ins>>, u), ok)
  /\ Return(0)
  /\ UNCHANGED objVars

Top == stack[Len(stack)]

leaf_insert ==
  /\ pc = "leaf" /\ ~LeafFull(Top.m)
  /\ \E ok \in WriteOk(Top.pid) :
       /\ Write(Top.pid, Page(LeafPlaced(Top.m, ins), Top.last), ok)
       /\ Return(IF treeHeight = 0 THEN WriteRC(Top.pid, ok) ELSE 0)
  /\ UNCHANGED objVars

\* Mutant: the leaf is linked to its sibling before the sibling takes over the
\* leaf's old link.
SiblingLinkLate(n) == endPid

\* Where the new sibling's nextpage leads
SiblingLink(n) == n.last

\* Mutant: the leaf keeps its old link.
LeafLinkOld(n, sib) == n.last

\* Where the leaf's own nextpage leads after the split
LeafLink(n, sib) == sib

\* The sibling is written first, with the leaf's old link ...
leaf_split ==
  /\ pc = "leaf" /\ LeafFull(Top.m)
  /\ LET s == LeafSplit(Top.m, ins)
     IN \E ok \in WriteOk(endPid) :
          LET new == IF ok THEN endPid ELSE endPid - 1   \* pf.endPid() - 1
          IN /\ Write(endPid, Page(s.right, SiblingLink(Top)), ok)
             /\ stack' = [stack EXCEPT ![Len(stack)].m = s.left,
                                       ![Len(stack)].last = LeafLink(Top, new)]
             /\ up' = [key |-> s.key, pid |-> new, rc |-> 0]
  /\ pc' = "left"
  /\ UNCHANGED <<objVars, ins, ret, histVars>>

\* ... then the leaf, which leads to it.  "midKey != 0" tells a split.
leaf_link ==
  /\ pc = "left"
  /\ \E ok \in WriteOk(Top.pid) :
       LET rc == IF treeHeight = 0 THEN WriteRC(Top.pid, ok) ELSE 0
       IN /\ Write(Top.pid, Page(Top.m, Top.last), ok)
          /\ IF up.key = 0 THEN Return(rc)
             ELSE /\ up' = [up EXCEPT !.rc = rc] /\ stack' = Front(stack)
                  /\ pc' = "up" /\ UNCHANGED <<ins, ret, histVars>>
  /\ UNCHANGED objVars

Separator == Entry(up.key, up.pid)

nonleaf_insert ==
  /\ pc = "up" /\ stack # << >> /\ ~NonLeafFull(Top.m)
  /\ \E ok \in WriteOk(Top.pid) :
       Write(Top.pid, Page(NonLeafPlaced(Top.m, Separator), Top.last), ok)
  /\ Return(0)
  /\ UNCHANGED objVars

\* A nonleaf node is written before its sibling ...
nonleaf_split ==
  /\ pc = "up" /\ stack # << >> /\ NonLeafFull(Top.m)
  /\ LET s == NonLeafSplit(Top.m, Separator)
     IN /\ \E ok \in WriteOk(Top.pid) : Write(Top.pid, Page(s.left, Top.last), ok)
        /\ stack' = [stack EXCEPT ![Len(stack)].m = s.right]
        /\ up' = [up EXCEPT !.key = s.key]
  /\ pc' = "sibling"
  /\ UNCHANGED <<objVars, ins, ret, histVars>>

\* ... whose firstpage nobody sets.
nonleaf_sibling ==
  /\ pc = "sibling"
  /\ \E ok \in WriteOk(endPid), u \in UninitPid :
       /\ Write(endPid, Page(Top.m, u), ok)
       /\ up' = [up EXCEPT !.pid = IF ok THEN endPid ELSE endPid - 1]
  /\ stack' = Front(stack) /\ pc' = "up"
  /\ UNCHANGED <<objVars, ins, ret, histVars>>

\* Mutant: the new root leads to the new page on both sides.
NewRootTwice == RootOf(up.pid, up.key, up.pid)

\* The root above the two halves of the old one
NewRoot == RootOf(rootPid, up.key, up.pid)

new_root ==
  /\ pc = "up" /\ stack = << >>
  /\ \E ok \in WriteOk(endPid) :
       /\ Write(endPid, NewRoot, ok)
       /\ rootPid' = IF ok THEN endPid ELSE endPid - 1
  /\ treeHeight' = treeHeight + 1
  /\ Return(up.rc)
  /\ UNCHANGED <<mode, located, cursor, opens>>

InsertStep ==
  \/ descend \/ descend_fails \/ leaf_unread
  \/ leaf_insert \/ leaf_split \/ leaf_link
  \/ nonleaf_insert \/ nonleaf_split \/ nonleaf_sibling \/ new_root

-----------------------------------------------------------------------------
(* locate and readForward *)

\* The page a leaf leads to, -1 behind the rightmost one and off the file
Onward == [p \in UninitPid \cup (-1 .. endPid - 1) |->
             IF InFile(p) /\ LastAt(p) # 0 THEN LastAt(p) ELSE -1]

\* The pages that locate tries, from leaf p along the nextpage links
WalkFrom(p) ==
  LET pid[n \in 0 .. endPid] == IF n = 0 THEN p ELSE Onward[pid[n - 1]] IN pid

\* The cursor on the first entry with a key >= k that the walk comes to, or
\* NoCursor
NoCursor == [pid |-> -1, eid |-> 0]
LocateFrom(root, height, k) ==
  LET walk == WalkFrom(RouteFrom(root, height, k)[height])
      hits == { n \in DOMAIN walk : Locate(NodeAt(walk[n]), k) # 0 }
  IN IF hits = {} THEN NoCursor
     ELSE LET p == walk[Min(hits)] IN [pid |-> p, eid |-> Locate(NodeAt(p), k) - 1]

MayLocate == mode = "r" /\ ~located

locate(k) ==
  /\ MayLocate
  /\ LocateFrom(rootPid, treeHeight, k) # NoCursor
  /\ cursor' = LocateFrom(rootPid, treeHeight, k)
  /\ located' = TRUE
  /\ ret' = Returned("locate", 0, NoEntry)
  /\ UNCHANGED <<disk, mode, rootPid, treeHeight, opens, pc, callVars, histVars>>

\* There is no such entry, or a page on the way cannot be read, and the page id
\* that nobody set then leads to none either: locateHelper says so to nobody,
\* the cursor stays as it is and locate returns 0.
locate_nothing(k) ==
  /\ MayLocate
  /\ "read" \in Fault \/ LocateFrom(rootPid, treeHeight, k) = NoCursor
  /\ located' = TRUE
  /\ ret' = Returned("locate", 0, NoEntry)
  /\ UNCHANGED <<disk, mode, rootPid, treeHeight, cursor, opens, pc, callVars, histVars>>

\* Bound: a cursor that leads nowhere is not counted up beyond a full leaf.
MayRead == mode = "r" /\ located /\ cursor.eid <= LEAF_MAX

\* Mutant: the cursor moves on one entry early.
AtLastEarly(m) == cursor.eid + 2 >= Len(m)

\* The cursor is at the last entry of its leaf.
AtLast(m) == cursor.eid = Len(m) - 1

\* A page that cannot be read is an empty leaf with a link nobody set; an
\* entry that is not there leaves the caller's key and rid as they were.
readForward ==
  /\ MayRead /\ cursor.pid # 0
  /\ \E ok \in (IF InFile(cursor.pid) THEN CanFail("read") ELSE {FALSE}), u \in UninitPid :
       LET m    == IF ok THEN NodeAt(cursor.pid) ELSE << >>
           next == IF ok THEN LastAt(cursor.pid) ELSE u
       IN /\ ret' = Returned("readForward", 0,
                       IF cursor.eid < Len(m) THEN m[cursor.eid + 1] ELSE NoEntry)
          /\ cursor' = IF AtLast(m) THEN [pid |-> next, eid |-> 0]
                                    ELSE [cursor EXCEPT !.eid = @ + 1]
  /\ UNCHANGED <<disk, mode, rootPid, treeHeight, located, opens, pc, callVars, histVars>>

readForward_end ==
  /\ MayRead /\ cursor.pid = 0
  /\ ret' = Returned("readForward", RC_NO_SUCH_RECORD, NoEntry)
  /\ UNCHANGED <<disk, objVars, pc, callVars, histVars>>

-----------------------------------------------------------------------------
Next ==
  \/ \E m \in {"r", "w"} : open(m)
  \/ open_fails \/ close \/ Crash
  \/ \E e \in Input : insert_first(e) \/ insert(e)
  \/ InsertStep
  \/ \E k \in Key : locate(k) \/ locate_nothing(k)
  \/ readForward \/ readForward_end

Spec == Init /\ [][Next]_vars

\* select is one thread, and calls readForward as long as it returns 0 and the
\* reader is there.
FairSpec == Spec /\ WF_vars(readForward)

-----------------------------------------------------------------------------
(* Properties *)

LeastFrom(k) ==
  LET from == { e \in Visible : e.key >= k }
  IN IF from = {} THEN NoEntry ELSE CHOOSE e \in from : \A f \in from : e.key <= f.key

EntryAt(c) ==
  LET m == NodeAt(c.pid) IN IF c.eid < Len(m) THEN m[c.eid + 1] ELSE NoEntry

\* For every key, the tree under this root leads to the entry with the
\* smallest key from there on, and to nothing when there is none.
ExactFrom(root, height) ==
  \A k \in Key :
    LET c == LocateFrom(root, height, k)
    IN IF LeastFrom(k) = NoEntry THEN c = NoCursor
       ELSE c # NoCursor /\ EntryAt(c) = LeastFrom(k)

\* Whatever order the keys came in and however far a split has got, the tree
\* of the open object finds every entry, and the entry it finds for a key is
\* the least one from that key on.
LookupsExact == mode # "closed" => ExactFrom(rootPid, treeHeight)

\* The root and the height on disk are those of the last close, the pages are
\* not: they are newer by the inserts since then, the last of them perhaps
\* half done.  Still every entry is found from there, so a load that ends
\* between any two writes loses nothing that was in the index before.
SavedRootFinds == TreeSaved => ExactFrom(SavedId.sid, SavedId.pid)

\* The leftmost leaf under a root, and the entries of the leaves from there on
FirstLeafFrom(root, height) ==
  LET pid[h \in 0 .. height] == IF h = 0 THEN root ELSE LastAt(pid[h - 1])
  IN pid[height]
LeavesFrom(root, height) == WalkFrom(FirstLeafFrom(root, height))

\* The leaves of the open object's tree, or of the one that page 0 tells of:
\* their entries from left to right, and as a set
Leaves ==
  IF mode # "closed" THEN LeavesFrom(rootPid, treeHeight)
  ELSE IF Saved THEN LeavesFrom(SavedId.sid, SavedId.pid) ELSE WalkFrom(-1)
LeafChain ==
  LET walk == Leaves
      step(all, n) == all \o NodeAt(walk[n])
  IN FoldLeft(step, << >>, [i \in 1 .. endPid + 1 |-> i - 1])
Content == LET walk == Leaves IN UNION { ToSet(NodeAt(walk[n])) : n \in DOMAIN walk }

PidSet == Nat \cup UninitPid \cup {-1}

\* Every variable has its type, and no node is larger than a page.
TypeOK ==
  /\ \A i \in DOMAIN disk :
       /\ disk[i].last \in PidSet
       /\ \A j \in DOMAIN disk[i].entries : disk[i].entries[j].key \in Key \cup {1}
       /\ Len(disk[i].entries) <= Max({LEAF_MAX, NONLEAF_MAX})
  /\ ~crashed => \A n \in DOMAIN Leaves : Len(NodeAt(Leaves[n])) <= LEAF_MAX
  /\ mode \in {"closed", "r", "w"}
  /\ rootPid \in PidSet /\ treeHeight \in Nat
  /\ cursor \in [pid : PidSet, eid : 0 .. LEAF_MAX + 1] /\ located \in BOOLEAN
  /\ pc \in {"idle", "descend", "leaf", "left", "up", "sibling"}
  /\ pc # "idle" => mode = "w" /\ ins.key \in Key
  /\ \A i \in DOMAIN stack : stack[i].pid \in PidSet
  /\ up.key \in Key \cup {0} /\ up.pid \in PidSet /\ up.rc \in RC
  /\ ret.rc \in RC /\ opens \in 0 .. MaxOpens

DistinctKeys == \A e, f \in entries \cup {ins} : e.key = f.key => e = f

\* As long as no key comes twice, the chain of leaves is in the order of the
\* keys, at every moment of every split, even where splits of inner nodes and
\* pages that could not be read have lost part of the tree above it.  A key
\* that comes twice ends this: its two separators can stand the wrong way
\* round.  So does a load that ends without its close, when an inner node has
\* been split before: an insert that follows the firstpage nobody set can have
\* made a leaf of page 0, and the next open takes its record id for the root.
ChainSorted ==
  LET chain == LeafChain
  IN DistinctKeys /\ ~crashed => \A i, j \in DOMAIN chain : i < j => chain[i].key < chain[j].key

\* An entry on the chain of leaves stays on it: no step of a split takes it
\* off, even for a moment.  Only leaf_unread does, which sees no leaf.
ChainKeeps ==
  [][mode # "closed" /\ mode' # "closed" /\ pc # "descend" => Content \subseteq Content']_vars

\* An insert that returned 0 has put its entry where a lookup finds it, and
\* has taken no other away ("@return error code. 0 if no error").
InsertedFound ==
  mode = "w" /\ pc = "idle" =>
    \A e \in entries : EntryAt(LocateFrom(rootPid, treeHeight, e.key)).key = e.key

\* A scan along the leaves gets past the last one: whatever order the entries
\* came in and wherever a load ended, the links form no circle.  There the
\* cursor has the last leaf's link, which is 0 or the one nobody set.
ScanLeavesTheLeaves == located ~> (cursor.pid <= 0 \/ ~located)

\* The tree under the root of the open object, or under the root on disk, is
\* a sorted index.
Sorted == INSTANCE SortedIndex WITH
            Rid <- { e.val : e \in Input }, entries <- Content, saved <- TreeSaved,
            cur <- IF located /\ cursor.pid # 0 THEN EntryAt(cursor) ELSE NoEntry,
            answer <- ret.entry
IndexSpec == Sorted!IndexSpec

=============================================================================
