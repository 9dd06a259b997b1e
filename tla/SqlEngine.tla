----------------------------- MODULE SqlEngine -----------------------------
(***************************************************************************)
(* SqlEngine.{h,cc}: load stores the lines of a file in a table and, WITH  *)
(* INDEX, in an index; select answers a query through the index or by a    *)
(* scan of the table.  One table with its two files, one command at a      *)
(* time, a step for each line that is loaded and each tuple that is read.  *)
(* The table file is the log that RecordFile is shown to be: record n has  *)
(* the n-th record id.  The index is the chain of leaves of BTreeIndex, as *)
(* long as it is one leaf.  Both are read through the cache of PageFile,   *)
(* where a read that fails leaves a slot claimed (PageFile.cc:179-186).    *)
(***************************************************************************)
EXTENDS BTreeNode

CONSTANTS
  Row,        \* what a line holds: records [key, value]
  File,       \* the load files: sequences of lines
  Query,      \* what is selected: records [attr, conds]
  INT_MAX,    \* the largest int
  Uninit,     \* where a cursor that nobody set is
  UninitRid,  \* what a record id that nobody set names, 0 for no record
  OldRow, OldLeaf,   \* what an old buffer of the cache reads as: a record, a leaf
  RECORDS_PER_PAGE,
  Fault,      \* what can go wrong, see FaultAssumption
  MaxRows, MaxLoads,  \* bounds: the rows of the table, the loads of a behaviour,
  MaxAstray           \* the answer of a search that has gone astray

CONSTANTS NoComma, TooLong   \* a line without a comma, one of more than 255 characters

NoWhere == -1   \* a cursor off the leaves, 0 being the one behind the last entry

\* SelCond (SqlEngine.h): attr is 1 for the key and 2 for the value; the value
\* compared with is an int for the key, and stands for a string for the value.
Cond == [attr : Int, comp : {"EQ", "NE", "GT", "LT", "GE", "LE"}, value : Int]

ASSUME RowAssumption   == Row \subseteq [key : -INT_MAX - 1 .. INT_MAX, value : Int]
ASSUME FileAssumption  == File \subseteq Seq(Row \cup {NoComma, TooLong})
                            /\ NoComma \notin Row /\ TooLong \notin Row
ASSUME CacheAssumption == /\ OldRow \subseteq Row
                          /\ OldLeaf \subseteq Seq([key : Int, val : Nat])
                          /\ RECORDS_PER_PAGE \in Nat \ {0}
\* An open, the read of a page, the write of a page of the table or of the
\* index fails; the program ends in the middle of a load.
ASSUME FaultAssumption == Fault \subseteq {"open", "read", "append", "insert", "crash"}
ASSUME QueryAssumption == Query \subseteq [attr : Int, conds : Seq(Cond)]
ASSUME BoundAssumption == /\ INT_MAX \in Nat /\ MaxRows \in Nat /\ MaxLoads \in Nat
                          /\ MaxAstray \in Nat
ASSUME UninitAssumption == /\ NoWhere \in Uninit /\ Uninit \subseteq Nat \cup {NoWhere}
                           /\ UninitRid \subseteq Nat /\ UninitRid # {}

VARIABLES
  tbl,      \* the records of the table
  tblThere, idxThere,   \* its files exist
  chain,    \* the leaf that page 0 of the index leads to, << >> when to none
  saved,    \* page 0 of the index leads to a leaf
  pc,       \* "idle", "load", "append", "index", "scan" or "close"
  job,      \* the load: file, line, index and what became of its two opens
  tree,     \* the leaf that the load's index object works on
  root,     \* rootPid of that object: "none", the one "saved" in page 0, a "new" one
  erid,     \* the end record id of the load's table object
  claimed,  \* pages whose cache slot a failed read of this command has claimed
  query,    \* the select: attr, conds and the way it takes
  cur,      \* its place in the leaf, or in the table
  rid,      \* the record id it holds
  done, diff,           \* its local variables
  out,      \* the records it has counted and printed
  rc,       \* what it returns
  orphans,  \* history: entries whose record was not stored, or of an old buffer
  spoilt,   \* history: records that an append has written an old buffer over
  past,     \* history: what has happened to the index and the load, see Mishap
  base,     \* history: how many records there were before the load
  loads

storeVars == <<tbl, tblThere, idxThere, chain, saved>>
loadVars  == <<job, tree, root, erid, base, loads>>
selVars   == <<query, cur, rid, done, diff, out, rc>>
histVars  == <<orphans, spoilt, past>>
vars      == <<storeVars, pc, loadVars, claimed, selVars, histVars>>

\* "gap": the index may lack records, for a load without INDEX, one that did
\* not get to its end, a page of the index that was not written, or not read by
\* a load that went on to replace it, or a line with key 0; "unstored": a record
\* of this load was not appended
Mishap == {"gap", "unstored"}

\* The mishap, when it has happened
If(happened, mishap) == IF happened THEN {mishap} ELSE {}

Ok(fault) == IF fault \in Fault THEN BOOLEAN ELSE {TRUE}

NoJob   == [file |-> << >>, line |-> 1, index |-> FALSE, tblOpen |-> FALSE, idxOpen |-> FALSE]
NoQuery == [attr |-> 3, conds |-> << >>, way |-> "none"]

Init ==
  /\ tbl = << >> /\ tblThere = FALSE /\ idxThere = FALSE
  /\ chain = << >> /\ saved = FALSE
  /\ pc = "idle"
  /\ job = NoJob /\ tree = << >> /\ root = "none" /\ erid = 1 /\ base = 0 /\ loads = 0
  /\ claimed = {}
  /\ query = NoQuery /\ cur = 0 /\ rid = 0 /\ done = FALSE /\ diff = 0
  /\ out = << >> /\ rc = 0
  /\ orphans = {} /\ spoilt = {} /\ past = {}

-----------------------------------------------------------------------------
(* load *)

\* The codes of the three opens are not looked at; a load file that cannot be
\* opened is one without lines, a table whose last page cannot be read is
\* closed again.  Without its page 0, be it never written or not read, the
\* index starts anew.
load(f, index) ==
  /\ pc = "idle" /\ loads < MaxLoads /\ Len(tbl) + Len(f) <= MaxRows
  /\ Len(chain) + Len(f) <= LEAF_MAX
  /\ \E fileOk, idxOk \in Ok("open"),
        tblOk \in Ok("open") \cup (IF tbl = << >> THEN {} ELSE Ok("read")),
        infoOk \in (IF saved THEN Ok("read") ELSE {TRUE}) :
       /\ job' = [file |-> IF fileOk THEN f ELSE << >>, line |-> 1, index |-> index,
                  tblOpen |-> tblOk, idxOpen |-> index /\ idxOk]
       /\ tblThere' = (tblThere \/ tblOk)
       /\ idxThere' = (idxThere \/ job'.idxOpen)
       /\ root' = IF saved /\ job'.idxOpen /\ infoOk THEN "saved" ELSE "none"
       /\ past' = (past \ {"unstored"}) \cup If(~index \/ ~idxOk \/ ~infoOk, "gap")
  /\ tree' = IF root' = "saved" THEN chain ELSE << >>
  /\ erid' = IF job'.tblOpen THEN Len(tbl) + 1 ELSE 1
  /\ base' = Len(tbl) /\ loads' = loads + 1
  /\ pc' = "load" /\ rc' = 0
  /\ UNCHANGED <<tbl, chain, saved, claimed, query, cur, rid, done, diff, out, orphans, spoilt>>

Line == job.file[job.line]

\* Mutant: a line without a comma ends the load.
MoreGood == job.line <= Len(job.file) /\ Line \notin {TooLong, NoComma}

\* getline fails at the end of the file and at a line that does not fit its
\* 256 bytes.
More == job.line <= Len(job.file) /\ Line # TooLong

NextLine == job' = [job EXCEPT !.line = @ + 1]

\* Mutant: the line that is no record is looked at again.
SkipNothing == job' = job

SkipLine == NextLine

\* Mutant: the record id is the one of the last record.
EndRidLast == erid - 1

EndRid == erid

\* The leaf that the index object at hand leads to, and what a read finds in it
Index       == IF pc \in {"load", "append"} THEN tree ELSE chain
IndexOnDisk == Loaded(Page(Index, 0))

\* parseLoadLine: only a missing comma is an error.
load_bad_line ==
  /\ pc = "load" /\ More /\ Line = NoComma
  /\ SkipLine
  /\ UNCHANGED <<storeVars, pc, tree, root, erid, base, loads, claimed, selVars, histVars>>

\* The entry of the line
Inserted == Entry(Line.key, EndRid)

\* What insertHelper goes on with: the leaf, an old buffer, or an empty node
\* when the read fails.  (Bound: an old buffer leaves room for the lines.)
LeafRead ==
  {IndexOnDisk}
  \cup (IF "read" \in Fault THEN {<< >>} ELSE {})
  \cup (IF "leaf" \in claimed
        THEN { m \in OldLeaf : Len(m) + Len(job.file) - job.line < LEAF_MAX } ELSE {})

insert_written ==
  /\ job.idxOpen
  /\ \E m \in LeafRead :
       /\ tree' = LeafPlaced(m, Inserted)
       /\ orphans' = IF m \in {IndexOnDisk, << >>} THEN orphans ELSE orphans \cup ToSet(m)
       /\ past' = past \cup If(m # IndexOnDisk \/ Line.key = 0, "gap")
  /\ chain' = IF root = "saved" THEN tree' ELSE chain
  /\ claimed' = claimed \ {"leaf"}

insert_unwritten ==
  /\ ~job.idxOpen \/ "insert" \in Fault
  /\ claimed' \in {claimed} \cup (IF job.idxOpen /\ "read" \in Fault
                                  THEN {claimed \cup {"leaf"}} ELSE {})
  /\ past' = past \cup {"gap"}
  /\ UNCHANGED <<chain, tree, orphans>>

load_insert ==
  /\ pc = "load" /\ More /\ Line # NoComma /\ job.index
  /\ insert_written \/ insert_unwritten
  /\ root' = IF root = "saved" THEN "saved" ELSE "new"
  /\ pc' = "append"
  /\ UNCHANGED <<tbl, tblThere, idxThere, saved, job, erid, base, loads, selVars, spoilt>>

\* The next record is not the first one of its page, and shares it with these.
NeedsRead == (erid - 1) % RECORDS_PER_PAGE # 0
Shared    == { n \in DOMAIN tbl : (n - 1) \div RECORDS_PER_PAGE = (erid - 1) \div RECORDS_PER_PAGE }

\* The table as append sees it: a claimed slot may have an old buffer for the
\* page of the next record.
TableRead ==
  {tbl} \cup (IF "table" \in claimed
              THEN { [n \in DOMAIN tbl |-> IF n \in Shared THEN old[n] ELSE tbl[n]] :
                       old \in [Shared -> OldRow] }
              ELSE {})

append_stored ==
  /\ job.tblOpen
  /\ \E rows \in TableRead :
       /\ tbl' = Append(rows, Line)
       /\ spoilt' = spoilt \cup { n \in DOMAIN tbl : rows[n] # tbl[n] }
  /\ erid' = erid + 1
  /\ claimed' = claimed \ {"table"}
  /\ UNCHANGED <<orphans, past>>

\* A page is not read or not written.  Of a table that is not open the first
\* page counts as written (RecordFile.cc:209), a second record does not.
append_unstored ==
  /\ \/ /\ ~job.tblOpen
        /\ erid' = IF NeedsRead THEN erid ELSE erid + 1
        /\ UNCHANGED claimed
     \/ /\ job.tblOpen /\ "append" \in Fault
        /\ UNCHANGED <<erid, claimed>>
     \/ /\ job.tblOpen /\ "read" \in Fault /\ NeedsRead
        /\ claimed' = claimed \cup {"table"}
        /\ UNCHANGED erid
  /\ orphans' = IF job.index THEN orphans \cup {Inserted} ELSE orphans
  /\ past' = past \cup {"unstored"}
  /\ UNCHANGED <<tbl, spoilt>>

load_append ==
  /\ \/ pc = "append"
     \/ pc = "load" /\ More /\ Line # NoComma /\ ~job.index
  /\ append_stored \/ append_unstored
  /\ NextLine /\ pc' = "load"
  /\ UNCHANGED <<tblThere, idxThere, chain, saved, tree, root, base, loads, selVars>>

\* The objects of the load are gone.
LoadOver ==
  /\ pc' = "idle" /\ job' = NoJob /\ tree' = << >> /\ root' = "none" /\ erid' = 1
  /\ claimed' = {}

\* load returns 0; the index is closed, the table is not.  close lets page 0
\* lead to the tree.
load_end ==
  /\ pc = "load" /\ ~More
  /\ \E ok \in Ok("insert") :
       LET closed == job.idxOpen /\ ok
       IN /\ saved' = IF closed THEN root # "none" ELSE saved
          /\ chain' = IF closed THEN tree ELSE chain
          /\ past' = past \cup If(job.index /\ ~closed, "gap")
  /\ LoadOver
  /\ UNCHANGED <<tbl, tblThere, idxThere, base, loads, selVars, orphans, spoilt>>

\* The program ends in the middle of a load.
crash ==
  /\ "crash" \in Fault /\ pc \in {"load", "append"}
  /\ orphans' = IF pc = "append" THEN orphans \cup {Inserted} ELSE orphans
  /\ past' = past \cup If(job.index, "gap")
  /\ LoadOver
  /\ UNCHANGED <<storeVars, base, loads, selVars, spoilt>>

-----------------------------------------------------------------------------
(* select *)

OnKey(c) == c.attr = 1

\* minValue and absValue: -1 stands for "no = condition".
MinValue(conds) ==
  Max({0} \cup { conds[i].value : i \in { j \in DOMAIN conds :
                                 OnKey(conds[j]) /\ conds[j].comp \in {"GT", "GE"} } })
AbsValue(conds) ==
  LET eq == { i \in DOMAIN conds : OnKey(conds[i]) /\ conds[i].comp = "EQ" }
  IN IF eq = {} THEN -1 ELSE conds[Max(eq)].value
Start(conds) == IF AbsValue(conds) # -1 THEN AbsValue(conds) ELSE MinValue(conds)

UsesIndex(q) ==
  q.attr = 4 \/ \E i \in DOMAIN q.conds : OnKey(q.conds[i]) /\ q.conds[i].comp # "NE"

\* The page on the way to the leaf that cannot be read, if any
Unread == IF saved /\ "read" \in Fault THEN {{}, {"info"}, {"leaf"}} ELSE {{}}

\* rf.open and btree.open: the index counts as there when its file is.  A
\* locate that finds nothing, or that could not read its way to the leaf,
\* leaves the cursor where it happens to be; rid is set by readForward alone.
select(q) ==
  /\ pc = "idle" /\ tblThere
  /\ \E idxOk \in Ok("open"), unread \in Unread :
       LET way == IF idxThere /\ idxOk /\ UsesIndex(q) THEN "index" ELSE "scan"
           at  == IF unread = {} THEN Locate(IndexOnDisk, Start(q.conds)) ELSE 0
       IN /\ query' = [attr |-> q.attr, conds |-> q.conds, way |-> way]
          /\ pc' = way
          /\ cur' \in (IF way = "scan" THEN {1} ELSE IF at = 0 THEN Uninit ELSE {at})
          /\ claimed' = IF way = "scan" THEN {} ELSE unread
  /\ rid' \in (IF pc' = "scan" THEN {0} ELSE UninitRid)
  /\ done' = FALSE /\ out' = << >> /\ rc' = 0
  /\ diff' \in (IF \E i \in DOMAIN q.conds : q.conds[i].attr \notin {1, 2} THEN {-1, 0, 1} ELSE {0})
  /\ UNCHANGED <<storeVars, loadVars, histVars>>

\* rf.open fails, or cannot read the last page of the table.
select_no_table ==
  /\ pc = "idle"
  /\ \/ (~tblThere \/ "open" \in Fault) /\ rc' = RC_FILE_OPEN_FAILED
     \/ tbl # << >> /\ "read" \in Fault /\ rc' = RC_FILE_READ_FAILED
  /\ query' = NoQuery /\ out' = << >>
  /\ UNCHANGED <<storeVars, pc, loadVars, claimed, cur, rid, done, diff, histVars>>

\* key - atoi(value), exact or with the bits that an int keeps of it
Wrapped(d) == ((d + INT_MAX + 1) % (2 * INT_MAX + 2)) - (INT_MAX + 1)
Minus(a, b, wraps) == IF wraps THEN Wrapped(a - b) ELSE a - b

\* Does the sign of the difference meet the condition?
Meets(comp, d) ==
  \/ comp = "EQ" /\ d = 0
  \/ comp = "NE" /\ d # 0
  \/ comp = "GT" /\ d > 0
  \/ comp = "LT" /\ d < 0
  \/ comp = "GE" /\ d >= 0
  \/ comp = "LE" /\ d <= 0

\* Mutant: a key below the last one ends the search as well.
EndsSearchEarly(c, d) == OnKey(c) /\ (c.comp = "EQ" \/ c.comp \in {"LT", "LE"})

\* The index holds no more tuples for this condition.
EndsSearch(c, d) ==
  /\ OnKey(c)
  /\ \/ c.comp = "EQ"
     \/ c.comp = "LT" /\ d >= 0
     \/ c.comp = "GE" /\ d < 0
     \/ c.comp = "LE" /\ d > 0

\* The conditions one after the other, up to the first that is not met; diff
\* keeps its value when the attribute is neither the key nor the value.
Tested(row, wraps) ==
  LET test(t, c) ==
        IF ~t.met THEN t
        ELSE LET d == IF OnKey(c) THEN Minus(row.key, c.value, wraps)
                      ELSE IF c.attr = 2 THEN row.value - c.value ELSE t.diff
             IN [met |-> Meets(c.comp, d), done |-> t.done \/ EndsSearch(c, d), diff |-> d]
  IN FoldLeft(test, [met |-> TRUE, done |-> done, diff |-> diff], query.conds)

\* The search has lost its way: a page of the index could not be read, or the
\* cursor is not at an entry of the leaf, nor behind the last one.
Astray == query.way = "index" /\ (claimed # {} \/ cur \notin 0 .. Len(IndexOnDisk))

\* What select does with record n: done is used by the index's loop alone.
\* (Bound: astray the search may read the same record again and again, until
\* eid has run through all ints; out has MaxAstray records then at most.)
take(n) ==
  \E wraps \in BOOLEAN :
    LET t == Tested(tbl[n], wraps)
    IN /\ out' = IF t.met /\ (~Astray \/ Len(out) < MaxAstray) THEN Append(out, n) ELSE out
       /\ diff' = t.diff
       /\ done' = IF pc = "index" THEN t.done ELSE done

\* readForward has nothing more to return.
NoEntryLeft == cur = 0
CanRead(n)  == n \in 1 .. Len(tbl)

\* Mutant: behind the last entry the cursor is at the first one again.
ForwardRound(m, next) == IF cur = Len(m) THEN 1 ELSE cur + 1

\* Where readForward leaves the cursor when it has read the leaf m, whose link
\* leads to next.  A cursor that no leaf is long enough for stays off them all.
Forward(m, next) ==
  IF cur = Len(m) THEN next ELSE IF cur \in 1 .. LEAF_MAX - 1 THEN cur + 1 ELSE NoWhere

\* The codes of read and readEntry are not looked at: without an entry rid
\* stays what it was.
readForward(m, next) ==
  /\ rid' = IF cur \in DOMAIN m THEN m[cur].val ELSE rid
  /\ cur' = Forward(m, next)

\* The leaf is read, the buffer of a claimed slot is taken for it, or it is not
\* read.  The only leaf has no link, an old buffer any: to page 0, to the leaf
\* itself, or to a page that is none.
read_leaf ==
  /\ ~NoEntryLeft
  /\ \/ readForward(IndexOnDisk, 0) /\ UNCHANGED claimed
     \/ /\ cur # NoWhere /\ "leaf" \in claimed
        /\ \E m \in OldLeaf, next \in {0, 1, NoWhere} : readForward(m, next)
        /\ UNCHANGED claimed
     \/ /\ cur # NoWhere /\ "read" \in Fault
        /\ readForward(<< >>, 0)
        /\ claimed' = claimed \cup {"leaf"}

exit_select(code) ==
  /\ rc' = code /\ pc' = "close"
  /\ UNCHANGED <<done, diff, out>>

\* readForward, then read, then the conditions
select_index ==
  /\ pc = "index" /\ ~done
  /\ read_leaf
  /\ CanRead(rid')
  /\ take(rid')
  /\ UNCHANGED <<storeVars, pc, loadVars, query, rc, histVars>>

select_scan ==
  /\ pc = "scan" /\ cur <= Len(tbl)
  /\ rid' = cur
  /\ take(cur)
  /\ cur' = cur + 1
  /\ UNCHANGED <<storeVars, pc, loadVars, claimed, query, rc, histVars>>

\* A tuple that cannot be read ends the select without a count.
select_fails ==
  /\ \/ /\ pc = "index" /\ ~done /\ read_leaf
        /\ \/ ~CanRead(rid') /\ exit_select(RC_INVALID_RID)
           \/ CanRead(rid') /\ "read" \in Fault /\ exit_select(RC_FILE_READ_FAILED)
     \/ /\ pc = "scan" /\ cur <= Len(tbl) /\ "read" \in Fault
        /\ exit_select(RC_FILE_READ_FAILED)
        /\ UNCHANGED <<cur, rid, claimed>>
  /\ UNCHANGED <<storeVars, loadVars, query, histVars>>

select_end ==
  /\ \/ pc = "index" /\ (NoEntryLeft \/ done)
     \/ pc = "scan" /\ cur > Len(tbl)
  /\ exit_select(0)
  /\ UNCHANGED <<storeVars, loadVars, claimed, query, cur, rid, histVars>>

\* rf.close and return; the index object is dropped.
select_close ==
  /\ pc = "close"
  /\ pc' = "idle" /\ query' = NoQuery /\ cur' = 0 /\ rid' = 0 /\ claimed' = {}
  /\ done' = FALSE /\ diff' = 0 /\ out' = << >> /\ rc' = 0
  /\ UNCHANGED <<storeVars, loadVars, histVars>>

-----------------------------------------------------------------------------
LoadStep   == load_bad_line \/ load_insert \/ load_append \/ load_end
SelectStep == select_index \/ select_scan \/ select_fails \/ select_end \/ select_close

Next ==
  \/ \E f \in File, index \in BOOLEAN : load(f, index)
  \/ LoadStep \/ crash
  \/ \E q \in Query : select(q)
  \/ select_no_table \/ SelectStep

Spec == Init /\ [][Next]_vars

\* A command that runs is the only thread, and goes on.
FairSpec == Spec /\ WF_vars(LoadStep) /\ WF_vars(SelectStep)

-----------------------------------------------------------------------------
(* Properties *)

Names(e)  == e.val \in DOMAIN tbl /\ tbl[e.val].key = e.key
Unstored  == orphans \cup (IF pc = "append" THEN {Inserted} ELSE {})

\* load inserts an entry before it stores the record that the entry is to
\* name.  Every entry, of the leaf that page 0 leads to and of the one a load
\* works on, names a record with its key, whatever was loaded afterwards, but
\* for these: its record was never stored, as the program ended in between or
\* the append failed; it came with an old buffer written over the leaf; its
\* record is one that an append wrote an old buffer over.
IndexNamesRecords ==
  \A e \in ToSet(chain) \cup ToSet(tree) : e \in Unstored \/ e.val \in spoilt \/ Names(e)

\* As long as every load is WITH INDEX, comes to its end, writes its pages of
\* the index and reads those it goes on from, and brings no key 0, every record
\* of the table is in the index, for all loads together, but for those that an
\* append wrote an old buffer over.
IndexComplete ==
  "gap" \notin past =>
    \A n \in DOMAIN tbl \ spoilt : Entry(tbl[n].key, n) \in ToSet(IndexOnDisk)

\* The records up to the first line that is too long, which nobody is told of
Accepted(f) ==
  LET long == SelectInSeq(f, LAMBDA l : l = TooLong)
      keep(kept, l) == IF l = NoComma THEN kept ELSE Append(kept, l)
  IN FoldLeft(keep, << >>, IF long = 0 THEN f ELSE SubSeq(f, 1, long - 1))

\* A load that returns has stored the lines of its file in their order, those
\* without a comma left out, up to the first one that is too long, unless an
\* append of its own failed.
LoadStores ==
  [][load_end /\ "unstored" \notin past =>
       SubSeq(tbl, base + 1, Len(tbl)) = Accepted(job.file)]_vars

\* Record n meets the conditions, as a reader of the query understands them.
Met(n) ==
  \A i \in DOMAIN query.conds :
    LET c == query.conds[i]
    IN Meets(c.comp, (IF OnKey(c) THEN tbl[n].key ELSE tbl[n].value) - c.value)

\* The conditions are on key and value, and no difference is too large.
Regular ==
  \A i \in DOMAIN query.conds :
    LET c == query.conds[i]
    IN /\ c.attr \in {1, 2}
       /\ OnKey(c) => \A n \in DOMAIN tbl : tbl[n].key - c.value \in -INT_MAX - 1 .. INT_MAX

\* No select prints or counts a record that does not meet the conditions ("all
\* conditions in conds must be ANDed together"), on either way, nor one twice;
\* through the index one can come twice for an entry without its record, and
\* when the search has gone astray.
AnswerOnce ==
  pc \in {"index", "scan", "close"} /\ Regular =>
    /\ \A i \in DOMAIN out : Met(out[i])
    /\ (orphans = {} /\ ~Astray) \/ query.way = "scan" => IsInjective(out)

\* What a select leaves out although it meets the conditions is one of these,
\* all of them on the way through the index: a negative key, as the search
\* starts at 0; a record that is not in the index; a record with the key of
\* another one, as an = condition ends the search; or the table and the index
\* have fallen apart, or the search has gone astray.
MissesExplained ==
  pc = "close" /\ rc = 0 /\ Regular =>
    \A n \in DOMAIN tbl :
      Met(n) /\ n \notin ToSet(out) =>
        /\ query.way = "index"
        /\ \/ orphans # {} \/ spoilt # {} \/ Astray
           \/ tbl[n].key < 0
           \/ Entry(tbl[n].key, n) \notin ToSet(IndexOnDisk)
           \/ /\ \E i \in DOMAIN query.conds :
                   OnKey(query.conds[i]) /\ query.conds[i].comp = "EQ"
              /\ \E m \in DOMAIN tbl \ {n} : tbl[m].key = tbl[n].key

\* A select that ends with an invalid record id has met an entry without its
\* record, or has gone astray.
ErrorsExplained ==
  pc = "close" /\ rc = RC_INVALID_RID => orphans # {} \/ Astray

\* Every command comes to its end, but for a select off the leaves of the
\* index, where readForward returns 0 for ever, or with a leaf that could not
\* be read, whose old buffer may lead back to itself.
CommandsEnd ==
  pc # "idle" ~> \/ pc = "idle"
                 \/ pc = "index" /\ (cur = NoWhere \/ "leaf" \in claimed)

=============================================================================
