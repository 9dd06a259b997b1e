-------------------------- MODULE SqlEngineProofs --------------------------
(***************************************************************************)
(* load and select, for every table, load file and query, a leaf of every  *)
(* size, all that Fault has and every old buffer: what the index says of   *)
(* the table, what a load stores, what a select answers, leaves out, and   *)
(* when it ends with an error.                                             *)
(***************************************************************************)
EXTENDS SqlEngine, BTreeNodeLemmas

LeafEntry == [key : Int, val : Nat]
LineSet   == Row \cup {NoComma, TooLong}
Job == [file : Seq(LineSet), line : Nat \ {0}, index : BOOLEAN, tblOpen : BOOLEAN,
        idxOpen : BOOLEAN]

InLoad == pc \in {"load", "append"}

\* The types that matter; the line whose entry is in the index while its
\* record is not in the table yet; the end record id of an open table; and
\* what an index without a root holds
Types ==
  /\ tbl \in Seq(Row) /\ chain \in Seq(LeafEntry) /\ tree \in Seq(LeafEntry) /\ job \in Job
  /\ saved \in BOOLEAN /\ root \in {"none", "saved", "new"} /\ erid \in Nat \ {0}
  /\ claimed \subseteq {"table", "info", "leaf"} /\ spoilt \subseteq DOMAIN tbl
  /\ pc \in {"idle", "load", "append", "index", "scan", "close"}
  /\ pc = "append" => More /\ Line # NoComma /\ job.index
  /\ pc = "idle" => claimed = {}
  /\ InLoad /\ job.tblOpen => erid = Len(tbl) + 1
  /\ saved \/ chain = << >>
  /\ root = "none" => tree = << >>
  /\ root = "saved" => saved

NamesInv == Types /\ IndexNamesRecords

Clean == "gap" \notin past

\* The index at hand has all records; a load that has not lost one works on
\* an open index, and has put in the record that comes next.
Complete ==
  /\ \A e \in ToSet(Index) : e.key # 0
  /\ \A n \in DOMAIN tbl \ spoilt : Entry(tbl[n].key, n) \in ToSet(Index)
  /\ InLoad => job.index /\ job.idxOpen
  /\ pc = "append" => Inserted \in ToSet(Index)

CompleteInv == NamesInv /\ (Clean => Complete)

\* Where the cursor of a select can be
CursorInv ==
  /\ NamesInv
  /\ pc = "index" => query.way = "index" /\ cur \in Nat \cup {NoWhere}
  /\ ErrorsExplained

-----------------------------------------------------------------------------
(* What a line makes *)

LEMMA OneLine ==
  ASSUME Types, More
  PROVE  Line \in LineSet /\ Line # TooLong
<1>1. job.file \in Seq(LineSet) /\ job.line \in Nat \ {0}
  BY DEF Types, Job
<1>2. job.line \in 1 .. Len(job.file)
  BY <1>1, LenProperties DEF More
<1>3. QED
  BY <1>1, <1>2, ElementOfSeq DEF More, Line

LEMMA OneEntry ==
  ASSUME Types, More, Line # NoComma
  PROVE  Line \in Row /\ Inserted \in LeafEntry /\ Inserted.key = Line.key /\ Inserted.val = erid
<1>1. Line \in Row
  BY OneLine DEF LineSet
<1>2. Line.key \in Int
  BY <1>1, RowAssumption, BoundAssumption
<1>3. erid \in Nat
  BY DEF Types
<1>4. QED
  BY <1>1, <1>2, <1>3 DEF Inserted, EndRid, Entry, LeafEntry

LEMMA IndexType == Types => Index \in Seq(LeafEntry)
BY DEF Types, Index

\* What a read of the leaf sees of it
LEMMA OnDisk ==
  ASSUME Index \in Seq(LeafEntry)
  PROVE  /\ IndexOnDisk \in Seq(LeafEntry)
         /\ Len(IndexOnDisk) \in 0 .. Len(Index) /\ Len(Index) \in Nat
         /\ \A i \in 1 .. Len(IndexOnDisk) : IndexOnDisk[i] = Index[i]
         /\ ToSet(IndexOnDisk) \subseteq ToSet(Index)
         /\ (\A e \in ToSet(Index) : e.key # 0) => IndexOnDisk = Index
<1>1. DOMAIN Index = 1 .. Len(Index) /\ Len(Index) \in Nat
  BY LenProperties
<1>2. /\ IndexOnDisk \in Seq(LeafEntry)
      /\ Len(IndexOnDisk) \in 0 .. Len(Index)
      /\ \A i \in 1 .. Len(IndexOnDisk) : IndexOnDisk[i] = Index[i]
      /\ (\A i \in 1 .. Len(Index) : Index[i].key # 0) => IndexOnDisk = Index
  BY LoadedPart DEF IndexOnDisk
<1>3. DOMAIN IndexOnDisk = 1 .. Len(IndexOnDisk)
  BY <1>2, LenProperties
<1>4. ToSet(IndexOnDisk) \subseteq ToSet(Index)
  BY <1>1, <1>2, <1>3 DEF ToSet
<1>5. \A i \in 1 .. Len(Index) : Index[i] \in ToSet(Index)
  BY <1>1 DEF ToSet
<1>6. QED
  BY <1>1, <1>2, <1>4, <1>5

\* An insert into a leaf
LEMMA Grows ==
  ASSUME NEW m \in Seq(LeafEntry), NEW e \in LeafEntry
  PROVE  /\ LeafPlaced(m, e) \in Seq(LeafEntry)
         /\ ToSet(LeafPlaced(m, e)) = ToSet(m) \cup {e}
<1>1. Locate(m, e.key) \in 0 .. Len(m)
  BY LocateIn
<1>2. QED
  BY SMTT(60), <1>1, PlacedElements DEF LeafPlaced

LEMMA NoEntries == << >> \in Seq(LeafEntry) /\ ToSet(<< >>) = {}
BY EmptySeq DEF ToSet

\* The leaf that an insert goes on with, and what it makes of the index
LEMMA Inserts ==
  ASSUME Types, load_insert
  PROVE  /\ pc = "load" /\ pc' = "append" /\ More /\ Line # NoComma /\ job.index
         /\ UNCHANGED <<tbl, job, saved, erid, base, spoilt>>
         /\ root' = IF root = "saved" THEN "saved" ELSE "new"
         /\ claimed' \subseteq claimed \cup {"leaf"}
         /\ chain' \in {chain, tree'} /\ (root # "saved" => chain' = chain)
         /\ past \subseteq past' /\ past' \subseteq past \cup {"gap"}
         /\ \/ tree' = tree /\ orphans' = orphans /\ "gap" \in past'
            \/ \E m \in Seq(LeafEntry) :
                 /\ tree' = LeafPlaced(m, Inserted)
                 /\ "gap" \in past' \/ (job.idxOpen /\ m = IndexOnDisk /\ Line.key # 0)
                 /\ \/ m \in {IndexOnDisk, << >>} /\ orphans' = orphans
                    \/ orphans' = orphans \cup ToSet(m)
<1>1. /\ pc = "load" /\ pc' = "append" /\ More /\ Line # NoComma /\ job.index
      /\ UNCHANGED <<tbl, job, saved, erid, base, spoilt>>
      /\ root' = IF root = "saved" THEN "saved" ELSE "new"
  BY DEF load_insert
<1>2. CASE insert_unwritten
  <2>1. /\ claimed' \subseteq claimed \cup {"leaf"} /\ past' = past \cup {"gap"}
        /\ UNCHANGED <<chain, tree, orphans>>
    BY <1>2 DEF insert_unwritten
  <2>2. QED
    BY <1>1, <2>1
<1>3. CASE insert_written
  <2>1. PICK m \in LeafRead :
          /\ tree' = LeafPlaced(m, Inserted)
          /\ orphans' = IF m \in {IndexOnDisk, << >>} THEN orphans ELSE orphans \cup ToSet(m)
          /\ past' = past \cup If(m # IndexOnDisk \/ Line.key = 0, "gap")
    BY <1>3 DEF insert_written
  <2>2. /\ job.idxOpen /\ claimed' \subseteq claimed /\ chain' = IF root = "saved" THEN tree' ELSE chain
    BY <1>3 DEF insert_written
  <2>3. m \in Seq(LeafEntry)
    <3>1. IndexOnDisk \in Seq(LeafEntry)
      BY IndexType, OnDisk
    <3>2. OldLeaf \subseteq Seq(LeafEntry)
      BY CacheAssumption DEF LeafEntry
    <3>3. QED
      BY <3>1, <3>2, NoEntries DEF LeafRead
  <2>4. /\ past \subseteq past' /\ past' \subseteq past \cup {"gap"}
        /\ "gap" \in past' \/ (m = IndexOnDisk /\ Line.key # 0)
    BY <2>1 DEF If
  <2>5. \/ m \in {IndexOnDisk, << >>} /\ orphans' = orphans
        \/ orphans' = orphans \cup ToSet(m)
    BY <2>1
  <2>6. QED
    BY <1>1, <2>1, <2>2, <2>3, <2>4, <2>5
<1>4. QED
  BY <1>2, <1>3 DEF load_insert

LEMMA NextLineJob ==
  ASSUME job \in Job, NextLine
  PROVE  /\ job' \in Job
         /\ job'.index = job.index /\ job'.tblOpen = job.tblOpen /\ job'.idxOpen = job.idxOpen
BY DEF NextLine, Job

\* The table as append sees it has the records' number, if not all of them.
LEMMA Tables ==
  ASSUME Types, NEW rows \in TableRead
  PROVE  /\ rows \in Seq(Row) /\ Len(rows) = Len(tbl)
         /\ "table" \notin claimed => rows = tbl
<1>1. /\ tbl \in Seq(Row) /\ Len(tbl) \in Nat /\ DOMAIN tbl = 1 .. Len(tbl)
      /\ \A n \in 1 .. Len(tbl) : tbl[n] \in Row
  BY LenProperties, ElementOfSeq DEF Types
<1>2. CASE rows = tbl
  BY <1>1, <1>2
<1>3. CASE rows # tbl
  <2>1. "table" \in claimed
    BY <1>3 DEF TableRead
  <2>2. PICK old \in [Shared -> OldRow] :
          rows = [n \in DOMAIN tbl |-> IF n \in Shared THEN old[n] ELSE tbl[n]]
    BY <1>3 DEF TableRead
  <2>3. \A n \in Shared : old[n] \in Row
    BY <2>2, CacheAssumption
  <2>4. rows \in [1 .. Len(tbl) -> Row]
    BY <1>1, <2>2, <2>3
  <2>5. rows \in Seq(Row) /\ DOMAIN rows = 1 .. Len(tbl)
    BY <1>1, <2>4
  <2>6. QED
    BY <1>1, <2>1, <2>5, LenProperties
<1>4. QED
  BY <1>2, <1>3

\* An append: a record is behind the others, or nothing is stored.
Stored ==
  /\ job.tblOpen /\ erid' = erid + 1
  /\ tbl' \in Seq(Row) /\ Len(tbl') = Len(tbl) + 1
  /\ tbl'[Len(tbl) + 1] = Line
  /\ \A n \in 1 .. Len(tbl) : tbl'[n] = tbl[n] \/ n \in spoilt'
  /\ spoilt \subseteq spoilt' /\ spoilt' \subseteq 1 .. Len(tbl)
  /\ "table" \notin claimed => tbl' = Append(tbl, Line)
  /\ UNCHANGED <<orphans, past>>

NotStored ==
  /\ UNCHANGED <<tbl, spoilt>> /\ erid' \in Nat \ {0} /\ (job.tblOpen => erid' = erid)
  /\ orphans' = IF job.index THEN orphans \cup {Inserted} ELSE orphans
  /\ past' = past \cup {"unstored"}

LEMMA Appends ==
  ASSUME Types, load_append
  PROVE  /\ pc' = "load" /\ More /\ Line # NoComma /\ Line \in Row /\ NextLine
         /\ UNCHANGED <<chain, saved, tree, root, base>>
         /\ pc = "append" \/ (pc = "load" /\ ~job.index)
         /\ claimed' \subseteq claimed \cup {"table"}
         /\ Stored \/ NotStored
<1>1. /\ pc' = "load" /\ More /\ Line # NoComma /\ NextLine
      /\ UNCHANGED <<chain, saved, tree, root, base>>
      /\ pc = "append" \/ (pc = "load" /\ ~job.index)
  BY DEF load_append, Types
<1>2. Line \in Row
  BY <1>1, OneEntry
<1>3. CASE append_unstored
  <2>1. NotStored
    <3>1. erid \in Nat \ {0} /\ job.tblOpen \in BOOLEAN
      BY DEF Types, Job
    <3>2. erid' \in Nat \ {0} /\ (job.tblOpen => erid' = erid)
      BY <1>3, <3>1 DEF append_unstored
    <3>3. QED
      BY <1>3, <3>2 DEF append_unstored, NotStored
  <2>2. claimed' \subseteq claimed \cup {"table"}
    BY <1>3 DEF append_unstored
  <2>3. QED
    BY <1>1, <1>2, <2>1, <2>2
<1>4. CASE append_stored
  <2>1. PICK rows \in TableRead :
          /\ tbl' = Append(rows, Line)
          /\ spoilt' = spoilt \cup { n \in DOMAIN tbl : rows[n] # tbl[n] }
    BY <1>4 DEF append_stored
  <2>2. rows \in Seq(Row) /\ Len(rows) = Len(tbl) /\ ("table" \notin claimed => rows = tbl)
    BY Tables
  <2>3. DOMAIN tbl = 1 .. Len(tbl) /\ Len(tbl) \in Nat /\ spoilt \subseteq DOMAIN tbl
    BY LenProperties DEF Types
  <2>4. /\ tbl' \in Seq(Row) /\ Len(tbl') = Len(tbl) + 1 /\ tbl'[Len(tbl) + 1] = Line
        /\ \A n \in 1 .. Len(tbl) : tbl'[n] = rows[n]
    BY <1>2, <2>1, <2>2, <2>3, AppendProperties
  <2>5. /\ spoilt \subseteq spoilt' /\ spoilt' \subseteq 1 .. Len(tbl)
        /\ \A n \in 1 .. Len(tbl) : rows[n] = tbl[n] \/ n \in spoilt'
    BY <2>1, <2>3
  <2>6. /\ job.tblOpen /\ erid' = erid + 1 /\ claimed' \subseteq claimed
        /\ UNCHANGED <<orphans, past>>
    BY <1>4 DEF append_stored
  <2>7. Stored
    BY <2>1, <2>2, <2>4, <2>5, <2>6 DEF Stored
  <2>8. QED
    BY <1>1, <1>2, <2>6, <2>7
<1>5. QED
  BY <1>3, <1>4 DEF load_append

-----------------------------------------------------------------------------
(* IndexNamesRecords *)

LEMMA NoJobType == NoJob \in Job
BY EmptySeq DEF NoJob, Job

LEMMA NamesInit == Init => NamesInv
<1> SUFFICES ASSUME Init PROVE NamesInv
  OBVIOUS
<1>1. << >> \in Seq(Row) /\ << >> \in Seq(LeafEntry) /\ tbl = << >> /\ chain = << >> /\ tree = << >>
  BY EmptySeq DEF Init
<1>2. /\ job = NoJob /\ saved = FALSE /\ root = "none" /\ erid = 1 /\ pc = "idle"
      /\ claimed = {} /\ spoilt = {}
  BY DEF Init
<1>3. job \in Job
  BY <1>2, NoJobType
<1>4. Types
  <2>1. saved \in BOOLEAN /\ root \in {"none", "saved", "new"} /\ (root = "saved" => saved)
    BY <1>2
  <2>2. pc \notin {"load", "append"} /\ pc \in {"idle", "load", "append", "index", "scan", "close"}
    BY <1>2
  <2>3. tbl \in Seq(Row) /\ chain \in Seq(LeafEntry) /\ tree \in Seq(LeafEntry)
    BY <1>1
  <2>4. QED
    BY <1>1, <1>2, <1>3, <2>1, <2>2, <2>3 DEF Types, InLoad
<1>5. QED
  BY <1>1, <1>4, NoEntries DEF NamesInv, IndexNamesRecords

\* The steps that add nothing to the index or the table, outside of an append
LEMMA NamesKept ==
  ASSUME NamesInv, UNCHANGED <<tbl, orphans, spoilt>>, pc # "append", pc' # "append",
         chain' \in {chain, tree, << >>}, tree' \in {chain, tree, << >>}
  PROVE  IndexNamesRecords'
<1>1. ToSet(chain') \cup ToSet(tree') \subseteq ToSet(chain) \cup ToSet(tree)
  BY NoEntries
<1>2. \A e \in ToSet(chain) \cup ToSet(tree) : e \in orphans \/ e.val \in spoilt \/ Names(e)
  BY DEF NamesInv, IndexNamesRecords, Unstored
<1>3. QED
  BY <1>1, <1>2 DEF IndexNamesRecords, Unstored, Names

\* How a load begins
LEMMA Loads ==
  ASSUME Types, NEW f \in File, NEW index \in BOOLEAN, load(f, index)
  PROVE  /\ UNCHANGED <<tbl, chain, saved, orphans, spoilt, claimed>> /\ claimed = {}
         /\ pc = "idle" /\ pc' = "load" /\ base' = Len(tbl)
         /\ job' \in Job /\ job'.line = 1 /\ job'.index = index
         /\ \/ root' = "saved" /\ saved /\ tree' = chain
            \/ root' = "none" /\ tree' = << >>
         /\ erid' = IF job'.tblOpen THEN Len(tbl) + 1 ELSE 1
         /\ "unstored" \notin past'
         /\ past \ {"unstored"} \subseteq past'
         /\ "gap" \in past' \/ (index /\ job'.idxOpen /\ (saved => root' = "saved"))
<1>1. /\ UNCHANGED <<tbl, chain, saved, orphans, spoilt, claimed>> /\ claimed = {}
      /\ pc = "idle" /\ pc' = "load" /\ base' = Len(tbl)
      /\ tree' = IF root' = "saved" THEN chain ELSE << >>
      /\ erid' = IF job'.tblOpen THEN Len(tbl) + 1 ELSE 1
  BY DEF load, Types
<1>2. PICK fileOk \in Ok("open"), idxOk \in Ok("open"),
           tblOk \in Ok("open") \cup (IF tbl = << >> THEN {} ELSE Ok("read")),
           infoOk \in (IF saved THEN Ok("read") ELSE {TRUE}) :
        /\ job' = [file |-> IF fileOk THEN f ELSE << >>, line |-> 1, index |-> index,
                   tblOpen |-> tblOk, idxOpen |-> index /\ idxOk]
        /\ root' = IF saved /\ job'.idxOpen /\ infoOk THEN "saved" ELSE "none"
        /\ past' = (past \ {"unstored"}) \cup If(~index \/ ~idxOk \/ ~infoOk, "gap")
  BY DEF load
<1>3. f \in Seq(LineSet) /\ << >> \in Seq(LineSet)
  <2>1. f \in Seq(Row \cup {NoComma, TooLong})
    BY FileAssumption
  <2>2. QED
    BY <2>1, EmptySeq DEF LineSet
<1>4. tblOk \in BOOLEAN /\ idxOk \in BOOLEAN /\ infoOk \in BOOLEAN
  BY DEF Ok
<1>5. /\ job' \in Job /\ job'.line = 1 /\ job'.index = index /\ job'.idxOpen = (index /\ idxOk)
  BY <1>2, <1>3, <1>4 DEF Job
<1>6. /\ \/ root' = "saved" /\ saved /\ tree' = chain
         \/ root' = "none" /\ tree' = << >>
  BY <1>1, <1>2
<1>7. /\ "unstored" \notin past' /\ past \ {"unstored"} \subseteq past'
      /\ "gap" \in past' \/ (index /\ idxOk /\ infoOk)
  BY <1>2 DEF If
<1>8. "gap" \in past' \/ (index /\ job'.idxOpen /\ (saved => root' = "saved"))
  BY <1>2, <1>5, <1>7
<1>9. QED
  BY <1>1, <1>5, <1>6, <1>7, <1>8

LEMMA NamesLoad ==
  ASSUME NamesInv, NEW f \in File, NEW index \in BOOLEAN, load(f, index)
  PROVE  NamesInv'
<1>1. /\ UNCHANGED <<tbl, chain, saved, orphans, spoilt, claimed>> /\ claimed = {}
      /\ pc = "idle" /\ pc' = "load" /\ job' \in Job
      /\ \/ root' = "saved" /\ saved /\ tree' = chain
         \/ root' = "none" /\ tree' = << >>
      /\ erid' = IF job'.tblOpen THEN Len(tbl) + 1 ELSE 1
  BY Loads DEF NamesInv
<1>2. erid' \in Nat \ {0}
  BY <1>1, LenProperties DEF NamesInv, Types
<1>3. Types'
  BY <1>1, <1>2, NoEntries DEF NamesInv, Types, InLoad
<1>4. IndexNamesRecords'
  BY <1>1, NamesKept
<1>5. QED
  BY <1>3, <1>4 DEF NamesInv

LEMMA NamesBadLine ==
  ASSUME NamesInv, load_bad_line
  PROVE  NamesInv'
<1>1. /\ UNCHANGED <<tbl, chain, saved, tree, root, erid, claimed, orphans, spoilt, pc>>
      /\ pc = "load" /\ NextLine
  BY DEF load_bad_line, storeVars, histVars, SkipLine
<1>2. job' \in Job /\ job'.tblOpen = job.tblOpen
  BY <1>1, NextLineJob DEF NamesInv, Types
<1>3. Types'
  BY <1>1, <1>2 DEF NamesInv, Types, InLoad
<1>4. IndexNamesRecords'
  BY <1>1, NamesKept
<1>5. QED
  BY <1>3, <1>4 DEF NamesInv

LEMMA NamesInsert ==
  ASSUME NamesInv, load_insert
  PROVE  NamesInv'
<1> DEFINE Old(e) == e \in ToSet(chain) \cup ToSet(tree)
<1>1. /\ pc = "load" /\ pc' = "append" /\ More /\ Line # NoComma /\ job.index
      /\ UNCHANGED <<tbl, job, saved, erid, spoilt>>
      /\ root' = IF root = "saved" THEN "saved" ELSE "new"
      /\ claimed' \subseteq claimed \cup {"leaf"}
      /\ chain' \in {chain, tree'} /\ (root # "saved" => chain' = chain)
  BY Inserts DEF NamesInv
<1>2. Inserted \in LeafEntry /\ Inserted' = Inserted /\ More' /\ (Line # NoComma)'
  BY <1>1, OneEntry DEF NamesInv, More, Line, Inserted, EndRid
<1>3. /\ tree' \in Seq(LeafEntry) /\ orphans \subseteq orphans'
      /\ ToSet(tree') \subseteq ToSet(tree) \cup {Inserted} \cup orphans'
  <2>1. CASE tree' = tree /\ orphans' = orphans
    BY <2>1 DEF NamesInv, Types
  <2>2. CASE \E m \in Seq(LeafEntry) :
               /\ tree' = LeafPlaced(m, Inserted)
               /\ \/ m \in {IndexOnDisk, << >>} /\ orphans' = orphans
                  \/ orphans' = orphans \cup ToSet(m)
    <3>1. PICK m \in Seq(LeafEntry) :
               /\ tree' = LeafPlaced(m, Inserted)
               /\ \/ m \in {IndexOnDisk, << >>} /\ orphans' = orphans
                  \/ orphans' = orphans \cup ToSet(m)
      BY <2>2
    <3>2. tree' \in Seq(LeafEntry) /\ ToSet(tree') = ToSet(m) \cup {Inserted}
      BY <1>2, <3>1, Grows
    <3>3. ToSet(IndexOnDisk) \subseteq ToSet(tree)
      BY <1>1, IndexType, OnDisk DEF NamesInv, Index
    <3>4. QED
      BY <3>1, <3>2, <3>3, NoEntries
  <2>3. QED
    BY <2>1, <2>2, Inserts DEF NamesInv
<1>4. Types'
  <2>1. chain' \in Seq(LeafEntry) /\ (saved' \/ chain' = << >>)
    BY <1>1, <1>3 DEF NamesInv, Types
  <2>2. QED
    BY <1>1, <1>2, <1>3, <2>1 DEF NamesInv, Types, InLoad
<1>5. ASSUME NEW e \in ToSet(chain') \cup ToSet(tree')
      PROVE  e \in Unstored' \/ e.val \in spoilt' \/ Names(e)'
  <2>1. CASE e = Inserted \/ e \in orphans'
    BY <1>1, <1>2, <2>1 DEF Unstored
  <2>2. CASE e \in ToSet(chain) \cup ToSet(tree)
    <3>1. e \in orphans \/ e.val \in spoilt \/ Names(e)
      BY <1>1, <2>2 DEF NamesInv, IndexNamesRecords, Unstored
    <3>2. QED
      BY <1>1, <1>3, <3>1 DEF Unstored, Names
  <2>3. QED
    BY <1>1, <1>3, <1>5, <2>1, <2>2
<1>6. QED
  BY <1>4, <1>5 DEF NamesInv, IndexNamesRecords

LEMMA NamesAppend ==
  ASSUME NamesInv, load_append
  PROVE  NamesInv'
<1>1. /\ pc' = "load" /\ More /\ Line # NoComma /\ NextLine
      /\ UNCHANGED <<chain, saved, tree, root>>
      /\ pc = "append" \/ (pc = "load" /\ ~job.index)
      /\ claimed' \subseteq claimed \cup {"table"}
      /\ Stored \/ NotStored
  BY Appends DEF NamesInv
<1>2. /\ job' \in Job /\ job'.tblOpen = job.tblOpen
      /\ tbl \in Seq(Row) /\ Len(tbl) \in Nat /\ DOMAIN tbl = 1 .. Len(tbl)
  BY <1>1, NextLineJob, LenProperties DEF NamesInv, Types
<1>3. pc = "append" => job.index
  BY DEF NamesInv, Types
<1>4. CASE NotStored
  <2>1. Types'
    BY <1>1, <1>2, <1>4 DEF NamesInv, Types, NotStored, InLoad
  <2>2. \A e \in ToSet(chain) \cup ToSet(tree) : e \in orphans' \/ e.val \in spoilt \/ Names(e)
    BY <1>3, <1>4 DEF NamesInv, IndexNamesRecords, Unstored, NotStored
  <2>3. QED
    BY <1>1, <1>4, <2>1, <2>2 DEF NamesInv, IndexNamesRecords, Unstored, Names, NotStored
<1>5. CASE Stored
  <2>1. /\ DOMAIN tbl' = 1 .. Len(tbl) + 1 /\ tbl' \in Seq(Row) /\ Len(tbl') = Len(tbl) + 1
        /\ tbl'[Len(tbl) + 1] = Line
    BY <1>5, LenProperties DEF Stored
  <2>2. erid = Len(tbl) + 1 /\ erid' = Len(tbl) + 2
    BY <1>1, <1>2, <1>5 DEF NamesInv, Types, Stored, InLoad
  <2>3. Types'
    BY <1>1, <1>2, <1>5, <2>1, <2>2 DEF NamesInv, Types, Stored, InLoad
  <2>4. ASSUME NEW e \in ToSet(chain) \cup ToSet(tree)
        PROVE  e \in orphans' \/ e.val \in spoilt' \/ Names(e)'
    <3>1. e \in orphans \/ (pc = "append" /\ e = Inserted) \/ e.val \in spoilt \/ Names(e)
      BY <2>4 DEF NamesInv, IndexNamesRecords, Unstored
    <3>2. CASE e \in orphans \/ e.val \in spoilt
      BY <1>5, <3>2 DEF Stored
    <3>3. CASE Names(e)
      BY <1>2, <1>5, <2>1, <3>3 DEF Names, Stored
    <3>4. CASE e = Inserted
      <4>1. e.val = Len(tbl) + 1 /\ e.key = Line.key
        BY <1>1, <2>2, <3>4, OneEntry DEF NamesInv
      <4>2. QED
        BY <2>1, <4>1, <1>2 DEF Names
    <3>5. QED
      BY <3>1, <3>2, <3>3, <3>4
  <2>5. QED
    BY <1>1, <2>3, <2>4 DEF NamesInv, IndexNamesRecords, Unstored
<1>6. QED
  BY <1>1, <1>4, <1>5

LEMMA NamesEnd ==
  ASSUME NamesInv, load_end
  PROVE  NamesInv'
<1>1. /\ UNCHANGED <<tbl, orphans, spoilt>> /\ pc = "load" /\ pc' = "idle"
      /\ job' = NoJob /\ tree' = << >> /\ root' = "none" /\ erid' = 1 /\ claimed' = {}
      /\ \/ chain' = chain /\ saved' = saved
         \/ chain' = tree /\ saved' = (root # "none")
  BY DEF load_end, LoadOver
<1>2. Types'
  <2>1. saved' \in BOOLEAN /\ chain' \in Seq(LeafEntry) /\ (saved' \/ chain' = << >>)
    BY <1>1 DEF NamesInv, Types
  <2>2. QED
    BY <1>1, <2>1, NoJobType, NoEntries DEF NamesInv, Types, InLoad
<1>3. IndexNamesRecords'
  BY <1>1, NamesKept
<1>4. QED
  BY <1>2, <1>3 DEF NamesInv

LEMMA NamesCrash ==
  ASSUME NamesInv, crash
  PROVE  NamesInv'
<1>1. /\ UNCHANGED <<tbl, chain, saved, spoilt>> /\ pc' = "idle" /\ orphans' = Unstored
      /\ job' = NoJob /\ tree' = << >> /\ root' = "none" /\ erid' = 1 /\ claimed' = {}
  BY DEF crash, LoadOver, Unstored, storeVars
<1>2. Types'
  BY <1>1, NoJobType, NoEntries DEF NamesInv, Types, InLoad
<1>3. IndexNamesRecords'
  BY <1>1, NoEntries DEF NamesInv, IndexNamesRecords, Unstored, Names
<1>4. QED
  BY <1>2, <1>3 DEF NamesInv

\* A select changes neither the table nor the index.
Selects == (\E q \in Query : select(q)) \/ select_no_table \/ SelectStep

LEMMA SelectReads ==
  ASSUME Types, Selects
  PROVE  /\ UNCHANGED <<storeVars, loadVars, histVars>>
         /\ pc # "append" /\ pc' \in {"idle", "index", "scan", "close"}
         /\ pc \notin {"load", "append"} /\ pc' \notin {"load", "append"}
         /\ claimed' \subseteq claimed \cup {"info", "leaf"}
         /\ pc' = "idle" => claimed' = {}
<1>1. CASE \E q \in Query : select(q)
  <2>1. PICK q \in Query : select(q)
    BY <1>1
  <2>2. PICK unread \in Unread : claimed' = {} \/ claimed' = unread
    BY <2>1 DEF select
  <2>3. claimed' \subseteq {"info", "leaf"}
    BY <2>2 DEF Unread
  <2>4. /\ UNCHANGED <<storeVars, loadVars, histVars>> /\ pc = "idle" /\ pc' \in {"index", "scan"}
    BY <2>1 DEF select
  <2>5. QED
    BY <2>3, <2>4
<1>2. CASE select_no_table
  BY <1>2 DEF select_no_table, Types
<1>3. CASE SelectStep
  BY <1>3 DEF SelectStep, select_index, select_scan, select_fails, select_end, select_close,
              exit_select, read_leaf
<1>4. QED
  BY <1>1, <1>2, <1>3 DEF Selects

LEMMA NamesSelect ==
  ASSUME NamesInv, Selects
  PROVE  NamesInv'
<1>1. /\ UNCHANGED <<tbl, chain, saved, job, tree, root, erid, orphans, spoilt>>
      /\ pc # "append" /\ pc' \in {"idle", "index", "scan", "close"}
      /\ claimed' \subseteq claimed \cup {"info", "leaf"} /\ (pc' = "idle" => claimed' = {})
  BY SelectReads DEF NamesInv, storeVars, loadVars, histVars
<1>2. Types'
  BY <1>1 DEF NamesInv, Types, InLoad
<1>3. IndexNamesRecords'
  BY <1>1, NamesKept
<1>4. QED
  BY <1>2, <1>3 DEF NamesInv

\* The steps of the program, sorted
LEMMA Steps ==
  ASSUME [Next]_vars
  PROVE  \/ \E f \in File, index \in BOOLEAN : load(f, index)
         \/ load_bad_line \/ load_insert \/ load_append \/ load_end \/ crash
         \/ Selects \/ UNCHANGED vars
BY DEF Next, LoadStep, Selects

LEMMA NamesNext == NamesInv /\ [Next]_vars => NamesInv'
<1> SUFFICES ASSUME NamesInv, [Next]_vars PROVE NamesInv'
  OBVIOUS
<1>1. CASE \E f \in File, index \in BOOLEAN : load(f, index)
  BY <1>1, NamesLoad
<1>2. CASE load_bad_line \/ load_insert \/ load_append \/ load_end \/ crash
  BY <1>2, NamesBadLine, NamesInsert, NamesAppend, NamesEnd, NamesCrash
<1>3. CASE Selects
  BY <1>3, NamesSelect
<1>4. CASE UNCHANGED vars
  BY <1>4 DEF vars, storeVars, loadVars, histVars, NamesInv, Types, IndexNamesRecords, Unstored,
              Names, Inserted, EndRid, More, Line, InLoad
<1>5. QED
  BY <1>1, <1>2, <1>3, <1>4, Steps

\* The table, the leaves and the local variables of load keep their types;
\* load appends only behind an insert (SqlEngine.cc:303), and endRid of an open
\* table is the one behind its records.
THEOREM TypeCorrect == Spec => []Types
<1>1. NamesInv => Types
  BY DEF NamesInv
<1>2. QED
  BY <1>1, NamesInit, NamesNext, PTL DEF Spec

\* load (SqlEngine.cc:301) inserts an entry before it stores its record: every
\* entry, of the index and of the leaf that a load works on, names a record
\* with its key, but for those whose record was never stored, that came with an
\* old buffer, or whose record an old buffer was written over.
THEOREM EntriesNameRecords == Spec => []IndexNamesRecords
<1>1. NamesInv => IndexNamesRecords
  BY DEF NamesInv
<1>2. QED
  BY <1>1, NamesInit, NamesNext, PTL DEF Spec

-----------------------------------------------------------------------------
(* IndexComplete *)

LEMMA CompleteInit == Init => CompleteInv
<1> SUFFICES ASSUME Init PROVE CompleteInv
  OBVIOUS
<1>1. Index = << >> /\ tbl = << >> /\ pc = "idle"
  BY DEF Init, Index
<1>2. ToSet(Index) = {} /\ DOMAIN tbl = {}
  BY <1>1, EmptySeq, NoEntries
<1>3. Complete
  BY <1>1, <1>2 DEF Complete, InLoad
<1>4. QED
  BY <1>3, NamesInit DEF CompleteInv

\* A gap stays.
LEMMA CleanBefore ==
  ASSUME past \ {"unstored"} \subseteq past', Clean'
  PROVE  Clean
BY DEF Clean

LEMMA CompleteLoad ==
  ASSUME Types, Clean => Complete, NEW f \in File, NEW index \in BOOLEAN, load(f, index), Clean'
  PROVE  Complete'
<1>1. /\ UNCHANGED <<tbl, chain, spoilt>> /\ pc = "idle" /\ pc' = "load" /\ job'.index = index
      /\ \/ root' = "saved" /\ saved /\ tree' = chain
         \/ root' = "none" /\ tree' = << >>
      /\ past \ {"unstored"} \subseteq past'
      /\ "gap" \in past' \/ (index /\ job'.idxOpen /\ (saved => root' = "saved"))
  BY Loads
<1>2. Complete /\ index /\ job'.idxOpen /\ (saved => root' = "saved")
  BY <1>1, CleanBefore DEF Clean
<1>3. tree' = chain
  BY <1>1, <1>2 DEF Types
<1>4. Index' = tree' /\ Index = chain
  BY <1>1 DEF Index
<1>5. QED
  BY <1>1, <1>2, <1>3, <1>4 DEF Complete, InLoad

LEMMA CompleteBadLine ==
  ASSUME Types, Complete, load_bad_line
  PROVE  Complete'
<1>1. UNCHANGED <<tbl, chain, tree, spoilt, pc>> /\ pc = "load" /\ NextLine
  BY DEF load_bad_line, storeVars, histVars, SkipLine
<1>2. job'.index = job.index /\ job'.idxOpen = job.idxOpen /\ Index' = Index
  BY <1>1, NextLineJob DEF Types, Index
<1>3. QED
  BY <1>1, <1>2 DEF Complete, InLoad

LEMMA CompleteInsert ==
  ASSUME Types, Clean => Complete, load_insert, Clean'
  PROVE  Complete'
<1>1. /\ pc = "load" /\ pc' = "append" /\ More /\ Line # NoComma /\ UNCHANGED <<tbl, job, erid, spoilt>>
      /\ past \subseteq past' /\ job.index
  BY Inserts
<1>2. PICK m \in Seq(LeafEntry) :
        /\ tree' = LeafPlaced(m, Inserted)
        /\ job.idxOpen /\ m = IndexOnDisk /\ Line.key # 0
  BY Inserts DEF Clean
<1>3. Complete
  BY <1>1, CleanBefore
<1>4. Inserted \in LeafEntry /\ Inserted.key # 0 /\ Inserted' = Inserted
  BY <1>1, <1>2, OneEntry DEF Inserted, Line, EndRid
<1>5. IndexOnDisk = Index /\ Index' = tree'
  BY <1>1, <1>3, IndexType, OnDisk DEF Complete, Index
<1>6. ToSet(Index') = ToSet(Index) \cup {Inserted}
  BY <1>2, <1>4, <1>5, Grows
<1>7. QED
  BY <1>1, <1>2, <1>3, <1>4, <1>6 DEF Complete, InLoad

LEMMA CompleteAppend ==
  ASSUME Types, Complete, load_append
  PROVE  Complete'
<1>1. /\ pc = "append" /\ pc' = "load" /\ More /\ Line # NoComma /\ NextLine
      /\ tree' = tree /\ (Stored \/ NotStored)
  BY Appends DEF Complete, InLoad
<1>2. /\ job'.index = job.index /\ job'.idxOpen = job.idxOpen /\ Index' = Index
      /\ Len(tbl) \in Nat /\ DOMAIN tbl = 1 .. Len(tbl)
  <2>1. job'.index = job.index /\ job'.idxOpen = job.idxOpen
    BY <1>1, NextLineJob DEF Types
  <2>2. Index' = Index
    BY <1>1 DEF Index
  <2>3. Len(tbl) \in Nat /\ DOMAIN tbl = 1 .. Len(tbl)
    BY LenProperties DEF Types
  <2>4. QED
    BY <2>1, <2>2, <2>3
<1>3. Inserted \in ToSet(Index)
  BY <1>1 DEF Complete
<1>4. CASE NotStored
  BY <1>1, <1>2, <1>4 DEF Complete, NotStored, InLoad
<1>5. CASE Stored
  <2>1. DOMAIN tbl' = 1 .. Len(tbl) + 1 /\ tbl'[Len(tbl) + 1] = Line /\ erid = Len(tbl) + 1
    BY <1>1, <1>5, LenProperties DEF Stored, Types, InLoad
  <2>2. Inserted = Entry(tbl'[Len(tbl) + 1].key, Len(tbl) + 1)
    BY <2>1 DEF Inserted, EndRid
  <2>3. ASSUME NEW n \in DOMAIN tbl' \ spoilt'
        PROVE  Entry(tbl'[n].key, n) \in ToSet(Index)
    <3>1. CASE n = Len(tbl) + 1
      BY <1>3, <2>2, <3>1
    <3>2. CASE n # Len(tbl) + 1
      <4>1. n \in DOMAIN tbl \ spoilt /\ tbl'[n] = tbl[n]
        BY <1>2, <1>5, <2>1, <3>2 DEF Stored
      <4>2. QED
        BY <4>1 DEF Complete
    <3>3. QED
      BY <3>1, <3>2
  <2>4. QED
    BY <1>1, <1>2, <2>3 DEF Complete, InLoad
<1>6. QED
  BY <1>1, <1>4, <1>5

LEMMA CompleteEnd ==
  ASSUME Clean => Complete, load_end, Clean'
  PROVE  Complete'
<1>1. PICK ok \in Ok("insert") :
        /\ chain' = IF job.idxOpen /\ ok THEN tree ELSE chain
        /\ past' = past \cup If(job.index /\ ~(job.idxOpen /\ ok), "gap")
  BY DEF load_end
<1>2. pc = "load" /\ pc' = "idle" /\ UNCHANGED <<tbl, spoilt>>
  BY DEF load_end, LoadOver
<1>3. Complete
  BY <1>1, CleanBefore
<1>4. job.index /\ ok /\ job.idxOpen
  BY <1>1, <1>2, <1>3 DEF Complete, Clean, If, InLoad
<1>5. Index' = Index
  BY <1>1, <1>2, <1>4 DEF Index
<1>6. QED
  BY <1>2, <1>3, <1>5 DEF Complete, InLoad

LEMMA CompleteCrash ==
  ASSUME Clean => Complete, crash
  PROVE  ~Clean'
<1>1. past' = past \cup If(job.index, "gap") /\ pc \in {"load", "append"}
  BY DEF crash
<1>2. Clean => job.index
  BY <1>1 DEF Complete, InLoad
<1>3. QED
  BY <1>1, <1>2 DEF Clean, If

LEMMA CompleteNext == CompleteInv /\ [Next]_vars => CompleteInv'
<1> SUFFICES ASSUME CompleteInv, [Next]_vars PROVE CompleteInv'
  OBVIOUS
<1>1. NamesInv' /\ Types /\ (Clean => Complete)
  BY NamesNext DEF CompleteInv, NamesInv
<1> SUFFICES ASSUME Clean' PROVE Complete'
  BY <1>1 DEF CompleteInv
<1>2. CASE \E f \in File, index \in BOOLEAN : load(f, index)
  BY <1>1, <1>2, CompleteLoad
<1>3. CASE load_bad_line
  <2>1. Clean
    BY <1>3 DEF load_bad_line, histVars, Clean
  <2>2. QED
    BY <1>1, <1>3, <2>1, CompleteBadLine
<1>4. CASE load_insert
  BY <1>1, <1>4, CompleteInsert
<1>5. CASE load_append
  <2>1. past \subseteq past'
    BY <1>1, <1>5, Appends DEF Stored, NotStored
  <2>2. QED
    BY <1>1, <1>5, <2>1, CleanBefore, CompleteAppend
<1>6. CASE load_end
  BY <1>1, <1>6, CompleteEnd
<1>7. CASE crash
  BY <1>1, <1>7, CompleteCrash
<1>8. CASE Selects
  <2>1. /\ UNCHANGED <<tbl, chain, tree, spoilt, past>>
        /\ pc \notin {"load", "append"} /\ pc' \notin {"load", "append"}
    BY <1>1, <1>8, SelectReads DEF storeVars, loadVars, histVars
  <2>2. Clean /\ Index' = Index
    BY <2>1 DEF Clean, Index
  <2>3. QED
    BY <1>1, <2>1, <2>2 DEF Complete, InLoad
<1>9. CASE UNCHANGED vars
  BY <1>1, <1>9 DEF vars, storeVars, loadVars, histVars, Clean, Complete, InLoad, Inserted, Line,
                    EndRid, Index
<1>10. QED
  BY <1>2, <1>3, <1>4, <1>5, <1>6, <1>7, <1>8, <1>9, Steps

\* load (SqlEngine.cc:280): as long as every load is WITH INDEX, ends, writes
\* its pages of the index, reads page 0 and the leaf that it goes on from, and
\* brings no key 0, the index has every record of the table, but for those that
\* an append wrote an old buffer over.
THEOREM IndexIsComplete == Spec => []IndexComplete
<1>1. CompleteInv => IndexComplete
  <2> SUFFICES ASSUME CompleteInv, Clean
               PROVE  \A n \in DOMAIN tbl \ spoilt :
                        Entry(tbl[n].key, n) \in ToSet(IndexOnDisk)
    BY DEF IndexComplete, Clean
  <2>1. Complete /\ Index \in Seq(LeafEntry)
    BY IndexType DEF CompleteInv, NamesInv
  <2>2. IndexOnDisk = Index
    BY <2>1, OnDisk DEF Complete
  <2>3. QED
    BY <2>1, <2>2 DEF Complete
<1>2. QED
  BY <1>1, CompleteInit, CompleteNext, PTL DEF Spec

-----------------------------------------------------------------------------
(* ErrorsExplained *)

LEMMA CursorInit == Init => CursorInv
<1> SUFFICES ASSUME Init PROVE CursorInv
  OBVIOUS
<1>1. pc = "idle"
  BY DEF Init
<1>2. QED
  BY <1>1, NamesInit DEF CursorInv, ErrorsExplained

\* In a select the index at hand is the one of page 0.
LEMMA SelectsIndex ==
  ASSUME Types, Selects
  PROVE  /\ Index = chain /\ Index' = chain /\ IndexOnDisk' = IndexOnDisk
         /\ UNCHANGED <<tbl, chain, tree, orphans, spoilt>>
         /\ pc # "append"
<1>1. /\ pc \notin {"load", "append"} /\ pc' \notin {"load", "append"}
      /\ UNCHANGED <<tbl, chain, tree, orphans, spoilt>>
  BY SelectReads DEF storeVars, loadVars, histVars
<1>2. Index = chain /\ Index' = chain
  BY <1>1 DEF Index
<1>3. QED
  BY <1>1, <1>2 DEF IndexOnDisk

\* Where a select begins and where readForward leads
LEMMA CursorSelect ==
  ASSUME NamesInv, NEW q \in Query, select(q), pc' = "index"
  PROVE  cur' \in Nat \cup {NoWhere}
<1>1. IndexOnDisk \in Seq(LeafEntry) /\ Len(IndexOnDisk) \in Nat
  BY IndexType, OnDisk, LenProperties DEF NamesInv
<1>2. Locate(IndexOnDisk, Start(q.conds)) \in 0 .. Len(IndexOnDisk)
  BY <1>1, LocateIn
<1>3. cur' \in Uninit \/ cur' \in {0, Locate(IndexOnDisk, Start(q.conds))}
  BY DEF select
<1>4. Locate(IndexOnDisk, Start(q.conds)) \in Nat
  BY <1>1, <1>2
<1>5. Uninit \subseteq Nat \cup {NoWhere}
  BY UninitAssumption
<1>6. CASE cur' \in Uninit
  BY <1>5, <1>6
<1>7. CASE cur' \in {0, Locate(IndexOnDisk, Start(q.conds))}
  <2>1. cur' = 0 \/ cur' = Locate(IndexOnDisk, Start(q.conds))
    BY <1>7
  <2>2. cur' \in Nat
    BY <1>4, <2>1
  <2>3. QED
    BY <2>2
<1>8. QED
  BY <1>3, <1>6, <1>7

LEMMA CursorForward ==
  ASSUME read_leaf
  PROVE  cur' \in Nat \cup {NoWhere}
<1>1. \E m, next : next \in {0, 1, NoWhere} /\ readForward(m, next)
  BY DEF read_leaf
<1>2. \A m : \A next \in {0, 1, NoWhere} : Forward(m, next) \in Nat \cup {NoWhere}
  BY FanoutAssumption DEF Forward, NoWhere
<1>3. QED
  BY <1>1, <1>2 DEF readForward

\* A search that is still on its way has read the entry that its cursor was at.
LEMMA OnTrack ==
  ASSUME CursorInv, pc = "index", cur # 0, read_leaf, ~Astray', query' = query,
         IndexOnDisk' = IndexOnDisk
  PROVE  /\ ~Astray
         /\ cur \in 1 .. Len(IndexOnDisk) /\ rid' = IndexOnDisk[cur].val
         /\ cur' = IF cur = Len(IndexOnDisk) THEN 0 ELSE cur + 1
<1>1. /\ query.way = "index" /\ cur \in Nat \cup {NoWhere}
      /\ Len(IndexOnDisk) \in Nat /\ DOMAIN IndexOnDisk = 1 .. Len(IndexOnDisk)
      /\ LEAF_MAX \in Nat \ {0}
  BY IndexType, OnDisk, LenProperties, FanoutAssumption DEF CursorInv, NamesInv
<1>2. claimed' = {} /\ cur' \in 0 .. Len(IndexOnDisk)
  BY <1>1 DEF Astray
<1>3. readForward(IndexOnDisk, 0) /\ claimed = {}
  BY <1>2 DEF read_leaf
<1>4. cur' = Forward(IndexOnDisk, 0)
  BY <1>3 DEF readForward
<1>5. /\ cur = Len(IndexOnDisk) => cur' = 0
      /\ cur # Len(IndexOnDisk) => cur \in 1 .. LEAF_MAX - 1 /\ cur' = cur + 1
  <2>1. cur # Len(IndexOnDisk) => \/ cur \in 1 .. LEAF_MAX - 1 /\ cur' = cur + 1
                                  \/ cur' = NoWhere
    BY <1>4 DEF Forward
  <2>2. cur' # NoWhere
    BY <1>1, <1>2 DEF NoWhere
  <2>3. cur = Len(IndexOnDisk) => cur' = 0
    BY <1>4 DEF Forward
  <2>4. QED
    BY <2>1, <2>2, <2>3
<1>6. cur \in 1 .. Len(IndexOnDisk)
  <2>1. CASE cur = Len(IndexOnDisk)
    BY <1>1, <2>1
  <2>2. CASE cur # Len(IndexOnDisk)
    <3>1. cur \in 1 .. LEAF_MAX - 1 /\ cur' = cur + 1
      BY <1>5, <2>2
    <3>2. cur \in Nat /\ cur >= 1
      BY <1>1, <3>1
    <3>3. cur + 1 \in 0 .. Len(IndexOnDisk) /\ Len(IndexOnDisk) \in Nat
      BY <1>1, <1>2, <3>1, Zenon
    <3>4. QED
      BY <3>2, <3>3
  <2>3. QED
    BY <2>1, <2>2
<1>7. rid' = IndexOnDisk[cur].val
  BY <1>1, <1>3, <1>6 DEF readForward
<1>8. ~Astray
  <2>1. cur \in 0 .. Len(IndexOnDisk)
    BY <1>1, <1>6
  <2>2. QED
    BY <1>3, <2>1 DEF Astray
<1>9. QED
  BY <1>5, <1>6, <1>7, <1>8

\* While all entries have got their records, they lead to records.
LEMMA EntriesLead ==
  ASSUME NamesInv, orphans = {}, pc # "append"
  PROVE  /\ \A e \in ToSet(chain) \cup ToSet(tree) : e.val \in 1 .. Len(tbl)
         /\ \A i \in 1 .. Len(IndexOnDisk) :
              /\ IndexOnDisk[i] = Index[i] /\ i \in DOMAIN Index
              /\ IndexOnDisk[i].val \in 1 .. Len(tbl)
              /\ \/ IndexOnDisk[i].val \in spoilt
                 \/ IndexOnDisk[i] = Entry(tbl[IndexOnDisk[i].val].key, IndexOnDisk[i].val)
<1>1. /\ IndexOnDisk \in Seq(LeafEntry)
      /\ Len(IndexOnDisk) \in 0 .. Len(Index) /\ Len(Index) \in Nat
      /\ \A i \in 1 .. Len(IndexOnDisk) : IndexOnDisk[i] = Index[i]
      /\ DOMAIN Index = 1 .. Len(Index) /\ DOMAIN tbl = 1 .. Len(tbl)
      /\ spoilt \subseteq DOMAIN tbl
  BY IndexType, OnDisk, LenProperties DEF NamesInv, Types
<1>2. \A e \in ToSet(chain) \cup ToSet(tree) : e.val \in spoilt \/ Names(e)
  BY DEF NamesInv, IndexNamesRecords, Unstored
<1>3. \A e \in ToSet(chain) \cup ToSet(tree) : e.val \in 1 .. Len(tbl)
  BY <1>1, <1>2 DEF Names
<1>4. ASSUME NEW i \in 1 .. Len(IndexOnDisk)
      PROVE  /\ i \in DOMAIN Index /\ IndexOnDisk[i] = Index[i]
             /\ IndexOnDisk[i] \in ToSet(chain) \cup ToSet(tree) /\ IndexOnDisk[i] \in LeafEntry
  <2>1. i \in DOMAIN Index /\ IndexOnDisk[i] = Index[i]
    BY <1>1
  <2>2. Index[i] \in ToSet(Index) /\ ToSet(Index) \subseteq ToSet(chain) \cup ToSet(tree)
    BY <2>1 DEF ToSet, Index
  <2>3. IndexOnDisk[i] \in LeafEntry
    BY <1>1, ElementOfSeq
  <2>4. QED
    BY <2>1, <2>2, <2>3
<1>5. \A e \in LeafEntry : e = Entry(e.key, e.val)
  BY DEF LeafEntry, Entry
<1>6. QED
  BY <1>2, <1>3, <1>4, <1>5 DEF Names

LEMMA OtherCodes == RC_FILE_READ_FAILED # RC_INVALID_RID /\ 0 # RC_INVALID_RID
BY DEF RC_FILE_READ_FAILED, RC_INVALID_RID

LEMMA CursorSelects ==
  ASSUME CursorInv, Selects
  PROVE  /\ pc' = "index" => query'.way = "index" /\ cur' \in Nat \cup {NoWhere}
         /\ ErrorsExplained'
<1>1. NamesInv /\ IndexOnDisk' = IndexOnDisk /\ orphans' = orphans /\ pc # "append"
  BY SelectsIndex DEF CursorInv, NamesInv
<1>2. CASE \E q \in Query : select(q)
  <2>1. PICK q \in Query : select(q)
    BY <1>2
  <2>2. pc' # "close" /\ query'.way = pc'
    BY <2>1 DEF select
  <2>3. QED
    BY <1>1, <2>1, <2>2, CursorSelect DEF ErrorsExplained
<1>3. CASE select_no_table
  BY <1>3 DEF select_no_table, ErrorsExplained
<1>4. CASE select_index
  <2>1. pc = "index" /\ pc' = "index" /\ query' = query /\ read_leaf
    BY <1>4 DEF select_index
  <2>2. QED
    BY <2>1, CursorForward DEF ErrorsExplained, CursorInv
<1>5. CASE select_scan
  BY <1>5 DEF select_scan, ErrorsExplained
<1>6. CASE select_fails
  <2>1. pc' = "close" /\ query' = query
    BY <1>6 DEF select_fails, exit_select
  <2>2. CASE rc' = RC_FILE_READ_FAILED
    BY <2>1, <2>2, OtherCodes DEF ErrorsExplained
  <2>3. CASE pc = "index" /\ read_leaf /\ ~CanRead(rid')
    <3>1. ASSUME orphans = {}, ~Astray'
          PROVE  FALSE
      <4>1. cur \in 1 .. Len(IndexOnDisk) /\ rid' = IndexOnDisk[cur].val
        BY <1>1, <2>1, <2>3, <3>1, OnTrack DEF read_leaf, NoEntryLeft
      <4>2. rid' \in 1 .. Len(tbl)
        BY <1>1, <3>1, <4>1, EntriesLead
      <4>3. QED
        BY <2>3, <4>2 DEF CanRead
    <3>2. QED
      BY <1>1, <2>1, <3>1 DEF ErrorsExplained
  <2>4. QED
    BY <1>6, <2>2, <2>3 DEF select_fails, exit_select
<1>7. CASE select_end
  <2>1. pc' = "close" /\ rc' = 0
    BY <1>7 DEF select_end, exit_select
  <2>2. QED
    BY <2>1, OtherCodes DEF ErrorsExplained
<1>8. CASE select_close
  BY <1>8 DEF select_close, ErrorsExplained
<1>9. QED
  BY <1>2, <1>3, <1>4, <1>5, <1>6, <1>7, <1>8 DEF Selects, SelectStep

LEMMA CursorNext == CursorInv /\ [Next]_vars => CursorInv'
<1> SUFFICES ASSUME CursorInv, [Next]_vars PROVE CursorInv'
  OBVIOUS
<1>1. NamesInv'
  BY NamesNext DEF CursorInv
<1>2. CASE Selects
  BY <1>1, <1>2, CursorSelects DEF CursorInv
<1>3. CASE \/ \E f \in File, index \in BOOLEAN : load(f, index)
           \/ load_bad_line \/ load_insert \/ load_append \/ load_end \/ crash
  <2>1. pc' \in {"idle", "load", "append"}
    BY <1>3 DEF load, load_bad_line, load_insert, load_append, load_end, crash, LoadOver
  <2>2. QED
    BY <1>1, <2>1 DEF CursorInv, ErrorsExplained
<1>4. CASE UNCHANGED vars
  BY <1>1, <1>4 DEF vars, storeVars, loadVars, selVars, histVars, CursorInv, ErrorsExplained,
                    IndexOnDisk, Index, Astray
<1>5. QED
  BY <1>2, <1>3, <1>4, Steps

\* select (SqlEngine.cc:116): a record id that cannot be read comes from an
\* entry without its record, from a cursor that locate did not set, or from a
\* page of the index that was not read (BTreeIndex.cc:255-265).
THEOREM ErrorsAreExplained == Spec => []ErrorsExplained
<1>1. CursorInv => ErrorsExplained
  BY DEF CursorInv
<1>2. QED
  BY <1>1, CursorInit, CursorNext, PTL DEF Spec


-----------------------------------------------------------------------------
(* LoadStores *)

\* One step of Accepted
Keep(kept, l) == IF l = NoComma THEN kept ELSE Append(kept, l)

\* What load has stored after each of the first k lines of f
Storing(f, k) ==
  { g \in [0 .. k -> Seq(LineSet)] :
      g[0] = << >> /\ \A i \in 1 .. k : g[i] = Keep(g[i - 1], f[i]) }

\* One more line
LEMMA StoringNext ==
  ASSUME NEW f, NEW k \in Nat, NEW g \in Storing(f, k), f[k + 1] \in LineSet
  PROVE  \E h \in Storing(f, k + 1) : h[k + 1] = Keep(g[k], f[k + 1])
<1> DEFINE h == [i \in 0 .. k + 1 |-> IF i =< k THEN g[i] ELSE Keep(g[k], f[k + 1])]
<1>1. /\ g \in [0 .. k -> Seq(LineSet)] /\ g[0] = << >>
      /\ \A i \in 1 .. k : g[i] = Keep(g[i - 1], f[i])
  BY DEF Storing
<1>2. g[k] \in Seq(LineSet)
  BY <1>1
<1>3. Keep(g[k], f[k + 1]) \in Seq(LineSet)
  BY <1>2, AppendProperties DEF Keep
<1>4. h \in [0 .. k + 1 -> Seq(LineSet)]
  BY <1>1, <1>3
<1>5. h[0] = << >> /\ h[k + 1] = Keep(g[k], f[k + 1])
  BY <1>1
<1>6. ASSUME NEW i \in 1 .. k + 1
      PROVE  h[i] = Keep(h[i - 1], f[i])
  <2>1. CASE i = k + 1
    BY <2>1
  <2>2. CASE i # k + 1
    <3>1. i \in 1 .. k /\ i =< k /\ i - 1 =< k /\ i - 1 \in 0 .. k + 1 /\ i \in 0 .. k + 1
      BY <2>2
    <3>2. h[i] = g[i] /\ h[i - 1] = g[i - 1]
      BY <3>1
    <3>3. QED
      BY <1>1, <3>1, <3>2
  <2>3. QED
    BY <2>1, <2>2
<1> HIDE DEF h
<1>7. QED
  BY <1>4, <1>5, <1>6 DEF Storing

\* It depends on those lines alone.
LEMMA StoringSame ==
  ASSUME NEW k \in Nat, NEW f, NEW p, \A i \in 1 .. k : p[i] = f[i],
         NEW g \in Storing(f, k), NEW h \in Storing(p, k)
  PROVE  h[k] = g[k]
<1> DEFINE T == { i \in 0 .. k : h[i] = g[i] }
<1>1. /\ g[0] = << >> /\ \A i \in 1 .. k : g[i] = Keep(g[i - 1], f[i])
      /\ h[0] = << >> /\ \A i \in 1 .. k : h[i] = Keep(h[i - 1], p[i])
  BY DEF Storing
<1>2. 0 \in T
  BY <1>1
<1>3. ASSUME NEW i \in 0 .. k - 1, i \in T
      PROVE  i + 1 \in T
  <2>1. i + 1 \in 1 .. k /\ i + 1 \in 0 .. k /\ (i + 1) - 1 = i
    OBVIOUS
  <2>2. QED
    BY <1>1, <1>3, <2>1
<1>4. k \in T
  <2> HIDE DEF T
  <2>1. 0 .. k \subseteq T
    BY <1>2, <1>3, UpTo
  <2>2. QED
    BY <2>1
<1>5. QED
  BY <1>4

\* What is kept of the lines p
KeptOf(p) ==
  LET keep(kept, l) == IF l = NoComma THEN kept ELSE Append(kept, l)
  IN FoldLeft(keep, << >>, p)

\* The fold over the lines is the loop of load.
LEMMA KeptSteps ==
  ASSUME NEW p \in Seq(LineSet)
  PROVE  \E g \in Storing(p, Len(p)) : KeptOf(p) = g[Len(p)]
<1> DEFINE n == Len(p)
           S == Seq(LineSet)
           b == << >>
           D == SUBSET (1 .. n)
           F == [i \in 1 .. n |-> [kept \in S |-> Keep(kept, p[i])]]
           Eq(f) == f = [s \in D |-> IF s = {} THEN b
                                     ELSE Keep(f[s \ {Max(s)}], p[Max(s)])]
           f == CHOOSE f : Eq(f)
           g == [i \in 0 .. n |-> f[1 .. i]]
<1>1. n \in Nat /\ DOMAIN p = 1 .. n /\ \A i \in 1 .. n : p[i] \in LineSet
  BY LenProperties, ElementOfSeq
<1>2. b \in S
  BY EmptySeq
<1>3. KeptOf(p) = f[1 .. n]
  BY <1>1 DEF KeptOf, FoldLeft, MapThenFoldSet, Keep
<1>4. \A kept \in S, l \in LineSet : Keep(kept, l) \in S
  BY AppendProperties DEF Keep
<1>5. F \in [1 .. n -> [S -> S]]
  BY <1>1, <1>4
<1>6. \E it : Eq(it)
  <2>1. PICK it \in [D -> S] :
          it = [s \in D |-> IF s = {} THEN b ELSE F[Max(s)][it[s \ {Max(s)}]]]
    <3> HIDE DEF F, b, S
    <3>1. Folds(S, n, b, F) # {}
      BY <1>1, <1>2, <1>5, FoldExists
    <3>2. QED
      BY <3>1 DEF Folds
  <2>2. ASSUME NEW s \in D, s # {}
        PROVE  F[Max(s)][it[s \ {Max(s)}]] = Keep(it[s \ {Max(s)}], p[Max(s)])
    <3>1. Max(s) \in 1 .. n
      BY <1>1, <2>2, Greatest
    <3>2. it[s \ {Max(s)}] \in S
      OBVIOUS
    <3>3. QED
      BY <3>1, <3>2
  <2>3. Eq(it)
    <3> HIDE DEF F, b, S
    <3>1. QED
      BY <2>1, <2>2
  <2>4. QED
    BY <2>3
<1>7. Eq(f)
  <2> HIDE DEF Eq
  <2>1. QED
    BY <1>6
<1> HIDE DEF f
<1>8. f[{}] = b
  <2>1. {} \in D
    OBVIOUS
  <2>2. QED
    BY <1>7, <2>1
<1>9. ASSUME NEW i \in 1 .. n
      PROVE  f[1 .. i] = Keep(f[1 .. i - 1], p[i])
  <2>1. /\ 1 .. i \in D /\ 1 .. i # {} /\ Max(1 .. i) = i /\ (1 .. i) \ {i} = 1 .. i - 1
    BY <1>1, LastOf
  <2> HIDE DEF b
  <2>2. QED
    BY <1>7, <2>1
<1>10. \A i \in 1 .. n : f[1 .. i - 1] \in S => f[1 .. i] = F[i][f[1 .. i - 1]]
  <2> HIDE DEF b, S
  <2>1. QED
    BY <1>9
<1>11. g \in Runs(S, n, b, F)
  <2> HIDE DEF b, F, S
  <2>1. QED
    BY <1>1, <1>2, <1>5, <1>8, <1>10, FoldRuns
<1>12. g[n] = KeptOf(p)
  BY <1>1, <1>3
<1>13. g \in Storing(p, n)
  <2> HIDE DEF g
  <2>1. g \in [0 .. n -> S] /\ g[0] = b /\ \A i \in 1 .. n : g[i] = F[i][g[i - 1]]
    BY <1>11 DEF Runs
  <2>2. \A i \in 1 .. n : g[i - 1] \in S
    BY <1>1, <2>1
  <2>3. \A i \in 1 .. n : g[i] = Keep(g[i - 1], p[i])
    <3> HIDE DEF S
    <3>1. QED
      BY <2>1, <2>2
  <2>4. QED
    BY <2>1, <2>3 DEF Storing
<1>14. QED
  <2> HIDE DEF g
  <2>1. QED
    BY <1>12, <1>13

\* The end of a sequence grows as the sequence does.
LEMMA SubSeqGrows ==
  ASSUME NEW S, NEW s \in Seq(S), NEW e \in S, NEW m \in 0 .. Len(s)
  PROVE  SubSeq(Append(s, e), m + 1, Len(s) + 1) = Append(SubSeq(s, m + 1, Len(s)), e)
<1> DEFINE n == Len(s)
           a == SubSeq(Append(s, e), m + 1, n + 1)
           b == Append(SubSeq(s, m + 1, n), e)
<1>1. /\ n \in Nat /\ Append(s, e) \in Seq(S) /\ Len(Append(s, e)) = n + 1
      /\ \A i \in 1 .. n : Append(s, e)[i] = s[i]
      /\ Append(s, e)[n + 1] = e
  BY AppendProperties, LenProperties
<1>2. /\ SubSeq(s, m + 1, n) \in Seq(S) /\ Len(SubSeq(s, m + 1, n)) = n - m
      /\ \A i \in 1 .. n - m : SubSeq(s, m + 1, n)[i] = s[m + i]
  BY <1>1, SubSeqProperties
<1>3. /\ a \in Seq(S) /\ Len(a) = n + 1 - m
      /\ \A i \in 1 .. n + 1 - m : a[i] = Append(s, e)[m + i]
  BY <1>1, SubSeqProperties
<1>4. /\ b \in Seq(S) /\ Len(b) = n + 1 - m
      /\ \A i \in 1 .. n - m : b[i] = SubSeq(s, m + 1, n)[i]
      /\ b[n + 1 - m] = e
  BY <1>1, <1>2, AppendProperties
<1> HIDE DEF a, b
<1>5. ASSUME NEW i \in 1 .. Len(a) PROVE a[i] = b[i]
  BY <1>1, <1>2, <1>3, <1>4
<1>6. a = b
  BY <1>1, <1>3, <1>4, <1>5, SeqEqual
<1>7. QED
  BY <1>6 DEF a, b

\* While no append has failed, the records that this load has stored are what
\* it keeps of its lines up to now, none of which is too long, and no slot of
\* the table is claimed.
Stores ==
  InLoad /\ "unstored" \notin past =>
    /\ "table" \notin claimed
    /\ base \in 0 .. Len(tbl) /\ job.line - 1 \in 0 .. Len(job.file)
    /\ \A i \in 1 .. job.line - 1 : job.file[i] # TooLong
    /\ \E g \in Storing(job.file, job.line - 1) :
         SubSeq(tbl, base + 1, Len(tbl)) = g[job.line - 1]

StoresInv == NamesInv /\ Stores

LEMMA StoresLoad ==
  ASSUME NamesInv, NEW f \in File, NEW index \in BOOLEAN, load(f, index)
  PROVE  Stores'
<1>1. base' = Len(tbl) /\ tbl' = tbl /\ job'.line = 1 /\ job' \in Job /\ claimed' = {}
  BY Loads DEF NamesInv
<1>2. Len(tbl) \in Nat /\ tbl \in Seq(Row)
  BY LenProperties DEF NamesInv, Types
<1>3. job'.file \in Seq(LineSet) /\ Len(job'.file) \in Nat
  BY <1>1, LenProperties DEF Job
<1>4. SubSeq(tbl', base' + 1, Len(tbl')) = << >>
  BY <1>1, <1>2
<1> DEFINE g == [i \in 0 .. 0 |-> << >>]
<1>5. << >> \in Seq(LineSet)
  BY EmptySeq
<1>6. g \in [0 .. 0 -> Seq(LineSet)] /\ g[0] = << >>
  BY <1>5
<1> HIDE DEF g
<1>7. g \in Storing(job'.file, 0)
  BY <1>6 DEF Storing
<1>8. QED
  BY <1>1, <1>2, <1>3, <1>4, <1>6, <1>7 DEF Stores

\* A line is done with.
LEMMA StoresLine ==
  ASSUME NamesInv, Stores, InLoad, More, NextLine, "unstored" \notin past, base' = base,
         tbl' = Keep(tbl, Line), Line # NoComma => Line \in Row, claimed' = claimed
  PROVE  Stores'
<1> DEFINE k == job.line - 1
           f == job.file
<1>1. /\ job \in Job /\ tbl \in Seq(Row) /\ Len(tbl) \in Nat /\ f \in Seq(LineSet) /\ Len(f) \in Nat
      /\ job.line \in Nat \ {0}
  BY LenProperties DEF NamesInv, Types, Job
<1>2. job'.file = f /\ job'.line = job.line + 1
  BY <1>1 DEF NextLine, Job
<1>3. /\ base \in 0 .. Len(tbl) /\ k \in 0 .. Len(f)
        /\ \A i \in 1 .. k : f[i] # TooLong
      /\ "table" \notin claimed'
  BY DEF Stores
<1>4. Line = f[k + 1] /\ Line \in LineSet /\ Line # TooLong /\ k + 1 \in 1 .. Len(f) /\ k \in Nat
  BY <1>1, <1>3, OneLine DEF NamesInv, Line, More
<1>5. PICK g \in Storing(f, k) : SubSeq(tbl, base + 1, Len(tbl)) = g[k]
  BY DEF Stores
<1> HIDE DEF f
<1>6. PICK h \in Storing(f, k + 1) : h[k + 1] = Keep(g[k], f[k + 1])
  BY <1>4, StoringNext
<1>7. base' \in 0 .. Len(tbl') /\ SubSeq(tbl', base' + 1, Len(tbl')) = h[k + 1]
  <2>1. CASE Line = NoComma
    BY <1>3, <1>4, <1>5, <1>6, <2>1 DEF Keep
  <2>2. CASE Line # NoComma
    <3>1. tbl' = Append(tbl, Line) /\ Line \in Row /\ h[k + 1] = Append(g[k], Line)
      BY <1>4, <1>6, <2>2 DEF Keep
    <3>2. Len(tbl') = Len(tbl) + 1
      BY <1>1, <3>1, AppendProperties
    <3>3. SubSeq(Append(tbl, Line), base + 1, Len(tbl) + 1) = Append(SubSeq(tbl, base + 1, Len(tbl)), Line)
      BY <1>1, <1>3, <3>1, SubSeqGrows
    <3>4. SubSeq(tbl', base' + 1, Len(tbl')) = SubSeq(Append(tbl, Line), base + 1, Len(tbl) + 1)
      BY <3>1, <3>2
    <3>5. SubSeq(tbl', base' + 1, Len(tbl')) = h[k + 1]
      BY <1>5, <3>1, <3>3, <3>4, Zenon
    <3>6. base' \in 0 .. Len(tbl')
      BY <1>1, <1>3, <3>2
    <3>7. QED
      BY <3>5, <3>6
  <2>3. QED
    BY <2>1, <2>2
<1>8. QED
  <2>1. job'.line - 1 = k + 1 /\ \A i \in 1 .. k + 1 : f[i] # TooLong
    BY <1>1, <1>2, <1>3, <1>4
  <2> HIDE DEF k
  <2>2. job'.line - 1 \in 0 .. Len(job'.file) /\ \A i \in 1 .. job'.line - 1 : job'.file[i] # TooLong
    BY <1>2, <1>4, <2>1
  <2>3. /\ h \in Storing(job'.file, job'.line - 1)
        /\ SubSeq(tbl', base' + 1, Len(tbl')) = h[job'.line - 1]
    BY <1>2, <1>6, <1>7, <2>1
  <2>4. QED
    BY <1>3, <1>7, <2>2, <2>3, Zenon DEF Stores

\* An append that stores its record claims no slot.
LEMMA UnclaimedAppend ==
  ASSUME load_append, "unstored" \notin past', "table" \notin claimed
  PROVE  claimed' = claimed
<1>1. append_stored
  BY DEF load_append, append_unstored
<1>2. QED
  BY <1>1 DEF append_stored

LEMMA StoresInit == Init => StoresInv
<1> SUFFICES ASSUME Init PROVE StoresInv
  OBVIOUS
<1>1. pc = "idle"
  BY DEF Init
<1>2. QED
  BY <1>1, NamesInit DEF StoresInv, Stores, InLoad

LEMMA StoresNext == StoresInv /\ [Next]_vars => StoresInv'
<1> SUFFICES ASSUME StoresInv, [Next]_vars PROVE StoresInv'
  OBVIOUS
<1>1. NamesInv /\ Stores /\ NamesInv'
  BY NamesNext DEF StoresInv
<1> SUFFICES Stores'
  BY <1>1 DEF StoresInv
<1>2. CASE \E f \in File, index \in BOOLEAN : load(f, index)
  BY <1>1, <1>2, StoresLoad
<1>3. CASE load_bad_line
  <2>1. /\ InLoad /\ More /\ NextLine /\ base' = base /\ past' = past /\ claimed' = claimed
        /\ Line = NoComma /\ tbl' = Keep(tbl, Line)
    BY <1>3 DEF load_bad_line, storeVars, histVars, SkipLine, InLoad, Keep
  <2>2. CASE "unstored" \notin past
    BY <1>1, <2>1, <2>2, StoresLine
  <2>3. CASE "unstored" \in past
    BY <2>1, <2>3 DEF Stores
  <2>4. QED
    BY <2>2, <2>3
<1>4. CASE load_insert
  <2>1. /\ InLoad /\ UNCHANGED <<tbl, job, base>> /\ ("unstored" \in past' <=> "unstored" \in past)
        /\ claimed' \subseteq claimed \cup {"leaf"}
    BY <1>1, <1>4, Inserts DEF InLoad, NamesInv
  <2>2. QED
    BY <1>1, <2>1 DEF Stores
<1>5. CASE load_append
  <2>1. /\ InLoad /\ More /\ NextLine /\ base' = base /\ Line # NoComma /\ Line \in Row
        /\ Stored \/ NotStored
    BY <1>1, <1>5, Appends DEF InLoad, NamesInv
  <2>2. CASE "unstored" \notin past'
    <3>1. Stored /\ "unstored" \notin past
      BY <2>1, <2>2 DEF Stored, NotStored
    <3>2. "table" \notin claimed
      BY <1>1, <2>1, <3>1 DEF Stores
    <3>3. tbl' = Keep(tbl, Line)
      BY <2>1, <3>1, <3>2 DEF Stored, Keep
    <3>4. claimed' = claimed
      BY <1>1, <1>5, <2>2, <3>2, UnclaimedAppend
    <3>5. QED
      BY <1>1, <2>1, <3>1, <3>3, <3>4, StoresLine
  <2>3. CASE "unstored" \in past'
    BY <2>3 DEF Stores
  <2>4. QED
    BY <2>2, <2>3
<1>6. CASE load_end \/ crash
  BY <1>6 DEF load_end, crash, LoadOver, Stores, InLoad
<1>7. CASE Selects
  <2>1. pc' \notin {"load", "append"}
    BY <1>1, <1>7, SelectReads DEF NamesInv
  <2>2. QED
    BY <2>1 DEF Stores, InLoad
<1>8. CASE UNCHANGED vars
  BY <1>1, <1>8 DEF vars, storeVars, loadVars, histVars, Stores, InLoad
<1>9. QED
  BY <1>2, <1>3, <1>4, <1>5, <1>6, <1>7, <1>8, Steps

\* What a load has stored when it ends
LEMMA AllStored ==
  ASSUME StoresInv, pc = "load", ~More, "unstored" \notin past
  PROVE  SubSeq(tbl, base + 1, Len(tbl)) = Accepted(job.file)
<1> DEFINE f == job.file
           k == job.line - 1
           I == { i \in 1 .. Len(f) : f[i] = TooLong }
           long == IF I # {} THEN Min(I) ELSE 0
           p == IF long = 0 THEN f ELSE SubSeq(f, 1, long - 1)
<1>1. /\ f \in Seq(LineSet) /\ Len(f) \in Nat /\ job.line \in Nat \ {0}
      /\ k \in 0 .. Len(f) /\ \A i \in 1 .. k : f[i] # TooLong
  BY LenProperties DEF StoresInv, Stores, NamesInv, Types, Job, InLoad
<1>2. PICK g \in Storing(f, k) : SubSeq(tbl, base + 1, Len(tbl)) = g[k]
  BY DEF StoresInv, Stores, InLoad
<1>3. Accepted(f) = KeptOf(p)
  BY DEF Accepted, KeptOf, SelectInSeq
<1>4. k = Len(f) \/ (k + 1 \in 1 .. Len(f) /\ f[k + 1] = TooLong)
  BY <1>1 DEF More, Line
<1> HIDE DEF f, k
<1>5. p \in Seq(LineSet) /\ Len(p) = k /\ \A i \in 1 .. k : p[i] = f[i]
  <2>1. CASE k = Len(f)
    <3>1. I = {}
      BY <1>1, <2>1
    <3>2. QED
      BY <1>1, <2>1, <3>1
  <2>2. CASE k + 1 \in 1 .. Len(f) /\ f[k + 1] = TooLong
    <3>1. I \in SUBSET (1 .. Len(f)) /\ k + 1 \in I /\ \A i \in I : i >= k + 1
      BY <1>1, <2>2
    <3>2. Min(I) = k + 1
      <4>1. Min(I) \in I /\ \A y \in I : Min(I) =< y
        <5> HIDE DEF I
        <5>1. QED
          BY <1>1, <3>1, Least
      <4>2. QED
        BY <1>1, <3>1, <4>1
    <3>3. long = k + 1 /\ long # 0
      BY <1>1, <3>1, <3>2
    <3>4. p = SubSeq(f, 1, k)
      <4>1. long - 1 = k
        BY <1>1, <3>3
      <4> HIDE DEF long
      <4>2. QED
        BY <3>3, <4>1
    <3>5. k \in Nat /\ 1 \in 1 .. Len(f) + 1 /\ 1 .. k = 1 .. (k - 1) + 1
      BY <1>1
    <3> HIDE DEF p
    <3>6. /\ SubSeq(f, 1, k) \in Seq(LineSet) /\ Len(SubSeq(f, 1, k)) = k
          /\ \A i \in 1 .. k : SubSeq(f, 1, k)[i] = f[i]
      BY <1>1, <3>5, SubSeqProperties
    <3>7. QED
      BY <3>4, <3>6
  <2>3. QED
    BY <1>4, <2>1, <2>2
<1> HIDE DEF p
<1>6. PICK h \in Storing(p, k) : KeptOf(p) = h[k]
  BY <1>5, KeptSteps
<1>7. h[k] = g[k]
  <2>1. k \in Nat
    BY <1>1
  <2>2. QED
    BY SMTT(60), <1>2, <1>5, <1>6, <2>1, StoringSame
<1>8. QED
  BY <1>2, <1>3, <1>6, <1>7 DEF f

\* load (SqlEngine.cc:290-310): a load that ends has stored the lines of its
\* file in their order, up to the first one that is too long and but for those
\* without a comma, unless an append failed.
THEOREM LoadsStore == Spec => LoadStores
<1>1. StoresInv /\ [Next]_vars =>
        [load_end /\ "unstored" \notin past =>
           SubSeq(tbl, base + 1, Len(tbl)) = Accepted(job.file)]_vars
  BY AllStored DEF load_end
<1>2. QED
  BY <1>1, StoresInit, StoresNext, PTL DEF Spec, LoadStores

-----------------------------------------------------------------------------
(* The conditions of a select *)

TestState == [met : BOOLEAN, done : BOOLEAN, diff : Int]

\* One step of Tested
Step(row, wraps, t, c) ==
  IF ~t.met THEN t
  ELSE LET d == IF OnKey(c) THEN Minus(row.key, c.value, wraps)
                ELSE IF c.attr = 2 THEN row.value - c.value ELSE t.diff
       IN [met |-> Meets(c.comp, d), done |-> t.done \/ EndsSearch(c, d), diff |-> d]

LEMMA StepType ==
  ASSUME NEW row \in Row, NEW wraps \in BOOLEAN, NEW t \in TestState, NEW c \in Cond
  PROVE  Step(row, wraps, t, c) \in TestState
<1> DEFINE d == IF OnKey(c) THEN Minus(row.key, c.value, wraps)
                ELSE IF c.attr = 2 THEN row.value - c.value ELSE t.diff
<1>1. row.key \in Int /\ row.value \in Int /\ c.value \in Int /\ INT_MAX \in Nat
  BY RowAssumption, BoundAssumption DEF Cond
<1>2. \A x \in Int : Wrapped(x) \in Int
  BY <1>1 DEF Wrapped
<1>3. d \in Int
  BY <1>1, <1>2 DEF Minus, TestState
<1>4. Meets(c.comp, d) \in BOOLEAN /\ EndsSearch(c, d) \in BOOLEAN
  BY DEF Meets, EndsSearch
<1> HIDE DEF d
<1>5. t.met \in BOOLEAN /\ t.done \in BOOLEAN
  BY DEF TestState
<1>6. [met |-> Meets(c.comp, d), done |-> t.done \/ EndsSearch(c, d), diff |-> d] \in TestState
  BY <1>3, <1>4, <1>5 DEF TestState
<1>7. QED
  BY <1>6 DEF Step, d

\* The fold over the conditions is the loop of select.
LEMMA TestedSteps ==
  ASSUME query.conds \in Seq(Cond), done \in BOOLEAN, diff \in Int,
         NEW row \in Row, NEW wraps \in BOOLEAN
  PROVE  \E g \in [0 .. Len(query.conds) -> TestState] :
           /\ g[0] = [met |-> TRUE, done |-> done, diff |-> diff]
           /\ \A i \in 1 .. Len(query.conds) : g[i] = Step(row, wraps, g[i - 1], query.conds[i])
           /\ Tested(row, wraps) = g[Len(query.conds)]
<1> DEFINE q == query.conds
           n == Len(q)
           b == [met |-> TRUE, done |-> done, diff |-> diff]
           D == SUBSET (1 .. n)
           F == [i \in 1 .. n |-> [t \in TestState |-> Step(row, wraps, t, q[i])]]
           Eq(f) == f = [s \in D |-> IF s = {} THEN b
                                     ELSE Step(row, wraps, f[s \ {Max(s)}], q[Max(s)])]
           f == CHOOSE f : Eq(f)
           g == [i \in 0 .. n |-> f[1 .. i]]
<1>1. n \in Nat /\ DOMAIN q = 1 .. n /\ \A i \in 1 .. n : q[i] \in Cond
  BY LenProperties, ElementOfSeq
<1>2. b \in TestState
  BY DEF TestState
<1>3. Tested(row, wraps) = f[1 .. n]
  BY <1>1 DEF Tested, FoldLeft, MapThenFoldSet, Step
<1>4. F \in [1 .. n -> [TestState -> TestState]]
  BY <1>1, StepType
<1>5. \E it : Eq(it)
  <2>1. PICK it \in [D -> TestState] :
          it = [s \in D |-> IF s = {} THEN b ELSE F[Max(s)][it[s \ {Max(s)}]]]
    <3> HIDE DEF F, b
    <3>1. Folds(TestState, n, b, F) # {}
      BY <1>1, <1>2, <1>4, FoldExists
    <3>2. QED
      BY <3>1 DEF Folds
  <2>2. ASSUME NEW s \in D, s # {}
        PROVE  F[Max(s)][it[s \ {Max(s)}]] = Step(row, wraps, it[s \ {Max(s)}], q[Max(s)])
    <3>1. Max(s) \in 1 .. n
      BY <1>1, <2>2, Greatest
    <3>2. it[s \ {Max(s)}] \in TestState
      OBVIOUS
    <3>3. QED
      BY <3>1, <3>2
  <2>3. Eq(it)
    <3> HIDE DEF F, b
    <3>1. QED
      BY <2>1, <2>2
  <2>4. QED
    BY <2>3
<1>6. Eq(f)
  <2> HIDE DEF Eq
  <2>1. QED
    BY <1>5
<1> HIDE DEF f
<1>7. f[{}] = b
  <2>1. {} \in D
    OBVIOUS
  <2>2. QED
    BY <1>6, <2>1
<1>8. ASSUME NEW i \in 1 .. n
      PROVE  f[1 .. i] = Step(row, wraps, f[1 .. i - 1], q[i])
  <2>1. /\ 1 .. i \in D /\ 1 .. i # {} /\ Max(1 .. i) = i /\ (1 .. i) \ {i} = 1 .. i - 1
    BY <1>1, LastOf
  <2> HIDE DEF b
  <2>2. QED
    BY <1>6, <2>1
<1>9. \A i \in 1 .. n : f[1 .. i - 1] \in TestState => f[1 .. i] = F[i][f[1 .. i - 1]]
  <2> HIDE DEF b
  <2>1. QED
    BY <1>8
<1>10. g \in Runs(TestState, n, b, F)
  <2> HIDE DEF b, F
  <2>1. QED
    BY <1>1, <1>2, <1>4, <1>7, <1>9, FoldRuns
<1>11. g[n] = Tested(row, wraps)
  BY <1>1, <1>3
<1>12. QED
  <2> HIDE DEF g, b
  <2>1. g \in [0 .. n -> TestState] /\ g[0] = b /\ \A i \in 1 .. n : g[i] = F[i][g[i - 1]]
    BY <1>10 DEF Runs
  <2>2. \A i \in 1 .. n : g[i - 1] \in TestState
    BY <1>1, <2>1
  <2>3. \A i \in 1 .. n : g[i] = Step(row, wraps, g[i - 1], q[i])
    BY <2>1, <2>2
  <2>4. QED
    BY <1>11, <2>1, <2>3 DEF b

\* What a condition compares
Diff(row, c) == (IF OnKey(c) THEN row.key ELSE row.value) - c.value

\* A difference that fits in an int is the one that the program computes.
LEMMA Exact ==
  ASSUME NEW d \in -INT_MAX - 1 .. INT_MAX
  PROVE  Wrapped(d) = d
<1>1. INT_MAX \in Nat
  BY BoundAssumption
<1>2. (d + INT_MAX + 1) % (2 * INT_MAX + 2) = d + INT_MAX + 1
  BY <1>1
<1>3. QED
  BY <1>1, <1>2 DEF Wrapped

LEMMA StepMeans ==
  ASSUME NEW row \in Row, NEW wraps \in BOOLEAN, NEW t \in TestState, NEW c \in Cond, t.met,
         c.attr \in {1, 2}, OnKey(c) => row.key - c.value \in -INT_MAX - 1 .. INT_MAX
  PROVE  Step(row, wraps, t, c) =
           [met |-> Meets(c.comp, Diff(row, c)),
            done |-> t.done \/ EndsSearch(c, Diff(row, c)), diff |-> Diff(row, c)]
<1>1. CASE OnKey(c)
  <2>1. Minus(row.key, c.value, wraps) = row.key - c.value
    BY <1>1, Exact DEF Minus
  <2>2. QED
    BY <1>1, <2>1 DEF Step, Diff
<1>2. CASE ~OnKey(c)
  BY <1>2 DEF Step, Diff, OnKey
<1>3. QED
  BY <1>1, <1>2

\* What the conditions say of a record: as Met and Regular, of one row
RowMet(row) == \A i \in DOMAIN query.conds : Meets(query.conds[i].comp, Diff(row, query.conds[i]))
Ends(row)   == \E i \in DOMAIN query.conds : EndsSearch(query.conds[i], Diff(row, query.conds[i]))
RowRegular(row) ==
  \A i \in DOMAIN query.conds :
    LET c == query.conds[i]
    IN c.attr \in {1, 2} /\ (OnKey(c) => row.key - c.value \in -INT_MAX - 1 .. INT_MAX)

\* The conditions are tested one after the other, but decide together; the
\* search ends for one of them only.
LEMMA TestedMeans ==
  ASSUME query.conds \in Seq(Cond), done \in BOOLEAN, diff \in Int,
         NEW row \in Row, NEW wraps \in BOOLEAN
  PROVE  /\ Tested(row, wraps) \in TestState
         /\ RowRegular(row) => /\ Tested(row, wraps).met <=> RowMet(row)
                               /\ Tested(row, wraps).done => done \/ Ends(row)
<1> DEFINE q == query.conds
           n == Len(q)
<1>1. PICK g \in [0 .. n -> TestState] :
        /\ g[0] = [met |-> TRUE, done |-> done, diff |-> diff]
        /\ \A i \in 1 .. n : g[i] = Step(row, wraps, g[i - 1], q[i])
        /\ Tested(row, wraps) = g[n]
  BY TestedSteps
<1>2. n \in Nat /\ DOMAIN q = 1 .. n /\ \A i \in 1 .. n : q[i] \in Cond
  BY LenProperties, ElementOfSeq
<1>3. Tested(row, wraps) \in TestState
  BY <1>1, <1>2
<1>4. SUFFICES ASSUME RowRegular(row)
               PROVE  /\ Tested(row, wraps).met <=> RowMet(row)
                      /\ Tested(row, wraps).done => done \/ Ends(row)
  BY <1>3
<1> DEFINE M(i) == Meets(q[i].comp, Diff(row, q[i]))
           E(i) == EndsSearch(q[i], Diff(row, q[i]))
           T == { i \in 0 .. n : /\ g[i].met <=> \A k \in 1 .. i : M(k)
                                 /\ g[i].done => done \/ \E k \in 1 .. i : E(k) }
<1>5. 0 \in T
  BY <1>1, <1>2
<1>6. ASSUME NEW i \in 0 .. n - 1, i \in T
      PROVE  i + 1 \in T
  <2>1. /\ i + 1 \in 1 .. n /\ i + 1 \in 0 .. n /\ (i + 1) - 1 = i
        /\ 1 .. i + 1 = (1 .. i) \cup {i + 1}
    BY <1>2
  <2>2. g[i] \in TestState /\ q[i + 1] \in Cond /\ g[i + 1] = Step(row, wraps, g[i], q[i + 1])
    BY SMTT(60), <1>1, <1>2, <2>1
  <2>3. /\ g[i].met <=> \A k \in 1 .. i : M(k)
        /\ g[i].done => done \/ \E k \in 1 .. i : E(k)
    BY <1>6
  <2>4. CASE ~g[i].met
    <3>1. g[i + 1] = g[i]
      BY <2>2, <2>4 DEF Step
    <3> HIDE DEF M, E
    <3>2. QED
      BY <2>1, <2>3, <2>4, <3>1
  <2>5. CASE g[i].met
    <3>1. g[i + 1] = [met |-> M(i + 1), done |-> g[i].done \/ E(i + 1), diff |-> Diff(row, q[i + 1])]
      BY <1>2, <1>4, <2>1, <2>2, <2>5, StepMeans DEF RowRegular
    <3> HIDE DEF M, E
    <3>2. g[i + 1].met <=> M(i + 1)
      BY <3>1
    <3>3. g[i + 1].done = (g[i].done \/ E(i + 1))
      BY <3>1
    <3>4. QED
      BY <2>1, <2>3, <2>5, <3>2, <3>3
  <2>6. QED
    BY <2>4, <2>5
<1>7. n \in T
  <2> HIDE DEF T
  <2>1. 0 .. n \subseteq T
    BY <1>2, <1>5, <1>6, UpTo
  <2>2. QED
    BY <1>2, <2>1
<1>8. QED
  BY <1>1, <1>2, <1>7 DEF RowMet, Ends

\* Regular and Met are about single records.
LEMMA OfRecord ==
  ASSUME NEW n \in DOMAIN tbl
  PROVE  Met(n) <=> RowMet(tbl[n])
BY DEF Met, RowMet, Diff

LEMMA OfRecords ==
  ASSUME Regular, NEW n \in DOMAIN tbl
  PROVE  RowRegular(tbl[n])
BY DEF Regular, RowRegular

-----------------------------------------------------------------------------
(* AnswerOnce *)

InSelect == pc \in {"index", "scan", "close"}

\* The types of the local variables of select
SelTypes ==
  /\ query.conds \in Seq(Cond) /\ done \in BOOLEAN /\ diff \in Int /\ out \in Seq(Nat)
  /\ pc \in {"index", "scan"} => query.way = pc
  /\ pc = "close" => query.way \in {"index", "scan"}
  /\ pc = "scan" => cur \in Nat \ {0}

\* No two entries name the same record, as long as every entry has got its
\* record: endRid() is the same again after an append that failed.
NoneTwice(m) == \A i, j \in DOMAIN m : m[i].val = m[j].val => i = j

Unique == orphans = {} /\ (pc = "append" => job.tblOpen) => NoneTwice(chain) /\ NoneTwice(tree)

\* An entry of record n is behind the cursor.
Passed(n) ==
  \E j \in 1 .. Len(IndexOnDisk) : (cur = 0 \/ j < cur) /\ IndexOnDisk[j].val = n

\* Every record that is out has met the conditions, and its place, in the
\* table or in the index, is behind the cursor.
Once ==
  /\ InSelect /\ Regular => \A i \in DOMAIN out : Met(out[i])
  /\ InSelect /\ query.way = "scan" => IsInjective(out)
  /\ pc = "scan" => \A i \in DOMAIN out : out[i] < cur
  /\ InSelect /\ query.way = "index" /\ orphans = {} /\ ~Astray =>
       IsInjective(out) /\ \A i \in DOMAIN out : Passed(out[i])

AnswerInv == CursorInv /\ SelTypes /\ Unique /\ Once

LEMMA PlacedUnique ==
  ASSUME NEW m \in Seq(LeafEntry), NEW e \in LeafEntry,
         \A i, j \in 1 .. Len(m) : m[i].val = m[j].val => i = j,
         \A i \in 1 .. Len(m) : m[i].val # e.val
  PROVE  \A i, j \in DOMAIN LeafPlaced(m, e) :
           LeafPlaced(m, e)[i].val = LeafPlaced(m, e)[j].val => i = j
<1> DEFINE at == Locate(m, e.key)
           p  == LeafPlaced(m, e)
           q  == PlaceOf(m, at)
<1>1. at \in 0 .. Len(m) /\ Len(m) \in Nat
  BY LocateIn, LenProperties
<1>2. q \in 1 .. Len(m) + 1
  BY <1>1 DEF PlaceOf
<1>3. p = Placed(m, at, e)
  BY DEF LeafPlaced
<1> HIDE DEF at, p, q
<1>4. /\ p \in Seq(LeafEntry) /\ Len(p) = Len(m) + 1
      /\ \A i \in 1 .. q - 1 : p[i] = m[i]
      /\ p[q] = e
      /\ \A i \in q + 1 .. Len(m) + 1 : p[i] = m[i - 1]
  <2>1. /\ Placed(m, at, e) \in Seq(LeafEntry) /\ Len(Placed(m, at, e)) = Len(m) + 1
        /\ \A i \in 1 .. PlaceOf(m, at) - 1 : Placed(m, at, e)[i] = m[i]
        /\ Placed(m, at, e)[PlaceOf(m, at)] = e
        /\ \A i \in PlaceOf(m, at) + 1 .. Len(m) + 1 : Placed(m, at, e)[i] = m[i - 1]
    BY SMTT(60), <1>1, PlacedAt
  <2>2. QED
    BY <1>3, <2>1 DEF q
<1>5. DOMAIN p = 1 .. Len(m) + 1
  BY <1>4, LenProperties
\* Where an entry of p comes from
<1> DEFINE From(i) == IF i < q THEN i ELSE i - 1
<1>6. ASSUME NEW i \in 1 .. Len(m) + 1, i # q
      PROVE  From(i) \in 1 .. Len(m) /\ p[i] = m[From(i)]
  BY <1>1, <1>2, <1>4, <1>6
<1>7. ASSUME NEW i \in 1 .. Len(m) + 1, NEW j \in 1 .. Len(m) + 1, p[i].val = p[j].val
      PROVE  i = j
  <2>1. CASE i = q /\ j # q
    BY <1>4, <1>6, <1>7, <2>1
  <2>2. CASE i # q /\ j = q
    BY <1>4, <1>6, <1>7, <2>2
  <2>3. CASE i # q /\ j # q
    <3>1. From(i) = From(j)
      <4> HIDE DEF From
      <4>1. QED
        BY <1>6, <1>7, <2>3
    <3>2. QED
      BY <1>2, <2>3, <3>1
  <2>4. QED
    BY <2>1, <2>2, <2>3
<1>8. QED
  BY <1>5, <1>7 DEF p

LEMMA UniqueInsert ==
  ASSUME NamesInv, Unique, load_insert, orphans' = {}, job'.tblOpen
  PROVE  NoneTwice(chain') /\ NoneTwice(tree')
<1>1. /\ pc = "load" /\ More /\ Line # NoComma
      /\ job' = job /\ chain' \in {chain, tree'}
  BY Inserts DEF NamesInv
<1>2. /\ orphans = {}
      /\ \/ tree' = tree
         \/ \E m \in Seq(LeafEntry) :
              tree' = LeafPlaced(m, Inserted) /\ (m = IndexOnDisk \/ ToSet(m) = {})
  BY Inserts, NoEntries DEF NamesInv
<1>3. NoneTwice(chain) /\ NoneTwice(tree)
  BY <1>1, <1>2 DEF Unique
<1>4. CASE tree' = tree
  BY <1>1, <1>3, <1>4
<1>5. ASSUME NEW m \in Seq(LeafEntry), tree' = LeafPlaced(m, Inserted),
             m = IndexOnDisk \/ ToSet(m) = {}
      PROVE  NoneTwice(tree')
  <2>1. Inserted \in LeafEntry /\ Inserted.val = Len(tbl) + 1
    <3>1. erid = Len(tbl) + 1
      BY <1>1 DEF NamesInv, Types, InLoad
    <3>2. QED
      BY <1>1, <3>1, OneEntry DEF NamesInv
  <2>2. Len(tbl) \in Nat /\ DOMAIN m = 1 .. Len(m) /\ DOMAIN tree = 1 .. Len(tree) /\ Index = tree
    BY <1>1, LenProperties DEF NamesInv, Types, Index
  <2>3. CASE m = IndexOnDisk
    <3>1. \A i \in 1 .. Len(m) : m[i].val \in 1 .. Len(tbl) /\ m[i] = tree[i] /\ i \in DOMAIN tree
      BY <1>1, <1>2, <2>2, <2>3, EntriesLead
    <3>2. \A i, j \in 1 .. Len(m) : m[i].val = m[j].val => i = j
      BY <1>3, <3>1 DEF NoneTwice
    <3>3. \A i \in 1 .. Len(m) : m[i].val # Inserted.val
      BY <2>1, <2>2, <3>1
    <3>4. QED
      BY <1>5, <2>1, <3>2, <3>3, PlacedUnique DEF NoneTwice
  <2>4. CASE ToSet(m) = {}
    <3>1. \A i \in 1 .. Len(m) : FALSE
      BY <2>2, <2>4 DEF ToSet
    <3>2. QED
      BY <1>5, <2>1, <3>1, PlacedUnique DEF NoneTwice
  <2>5. QED
    BY <1>5, <2>3, <2>4
<1>6. NoneTwice(tree')
  BY <1>2, <1>3, <1>5
<1>7. QED
  BY <1>1, <1>3, <1>6

LEMMA UniqueNext ==
  ASSUME NamesInv, Unique, [Next]_vars
  PROVE  Unique'
<1> SUFFICES ASSUME orphans' = {}, pc' = "append" => job'.tblOpen
             PROVE  NoneTwice(chain') /\ NoneTwice(tree')
  BY DEF Unique, NoneTwice
<1>1. NoneTwice(<< >>)
  BY EmptySeq DEF NoneTwice
<1>2. ASSUME chain' \in {chain, tree}, tree' \in {chain, tree, << >>}, orphans = {},
             pc = "append" => job.tblOpen
      PROVE  NoneTwice(chain') /\ NoneTwice(tree')
  <2>1. NoneTwice(chain) /\ NoneTwice(tree)
    BY <1>2 DEF Unique
  <2>2. QED
    BY <1>1, <1>2, <2>1
<1>3. CASE load_insert
  <2>1. pc' = "append"
    BY <1>3, Inserts DEF NamesInv
  <2>2. QED
    BY <1>3, <2>1, UniqueInsert
<1>4. CASE load_append
  <2>1. chain' = chain /\ tree' = tree /\ (pc = "append" \/ (pc = "load" /\ ~job.index))
        /\ (Stored \/ NotStored)
    BY <1>4, Appends DEF NamesInv
  <2>2. pc = "append" => job.index
    BY DEF NamesInv, Types
  <2>3. orphans = {} /\ (pc = "append" => job.tblOpen)
    BY <2>1, <2>2 DEF Stored, NotStored
  <2>4. QED
    BY <1>2, <2>1, <2>3
<1>5. CASE \E f \in File, index \in BOOLEAN : load(f, index)
  <2>1. chain' = chain /\ tree' \in {chain, << >>} /\ orphans' = orphans /\ pc = "idle"
    BY <1>5, Loads DEF NamesInv
  <2>2. QED
    BY <1>2, <2>1
<1>6. CASE load_bad_line
  <2>1. chain' = chain /\ tree' = tree /\ orphans' = orphans /\ pc = "load"
    BY <1>6 DEF load_bad_line, storeVars, histVars
  <2>2. QED
    BY <1>2, <2>1
<1>7. CASE load_end
  <2>1. chain' \in {chain, tree} /\ tree' = << >> /\ orphans' = orphans /\ pc = "load"
    BY <1>7 DEF load_end, LoadOver
  <2>2. QED
    BY <1>2, <2>1
<1>8. CASE crash
  <2>1. chain' = chain /\ tree' = << >> /\ orphans \subseteq orphans' /\ pc # "append"
    BY <1>8 DEF crash, LoadOver, storeVars
  <2>2. QED
    BY <1>2, <2>1
<1>9. CASE Selects
  <2>1. UNCHANGED <<chain, tree, orphans>> /\ pc # "append"
    BY <1>9, SelectsIndex DEF NamesInv
  <2>2. QED
    BY <1>2, <2>1
<1>10. CASE UNCHANGED vars
  <2>1. chain' = chain /\ tree' = tree /\ orphans' = orphans /\ pc' = pc /\ job' = job
    BY <1>10 DEF vars, storeVars, loadVars, histVars
  <2>2. QED
    BY <1>2, <2>1
<1>11. QED
  BY <1>3, <1>4, <1>5, <1>6, <1>7, <1>8, <1>9, <1>10, Steps

\* What a tuple that is read does to the local variables
LEMMA Takes ==
  ASSUME SelTypes, tbl \in Seq(Row), NEW n \in 1 .. Len(tbl), take(n)
  PROVE  /\ done' \in BOOLEAN /\ diff' \in Int
         /\ out' \in {out, Append(out, n)}
         /\ Regular => /\ out' = out \/ Met(n)
                       /\ Met(n) /\ ~Astray => out' = Append(out, n)
                       /\ pc = "index" /\ done' => done \/ Ends(tbl[n])
<1>1. PICK wraps \in BOOLEAN :
        LET t == Tested(tbl[n], wraps)
        IN /\ out' = IF t.met /\ (~Astray \/ Len(out) < MaxAstray) THEN Append(out, n) ELSE out
           /\ diff' = t.diff
           /\ done' = IF pc = "index" THEN t.done ELSE done
  BY DEF take
<1> DEFINE t == Tested(tbl[n], wraps)
<1>2. n \in DOMAIN tbl /\ tbl[n] \in Row
  BY ElementOfSeq, LenProperties
<1>3. /\ t \in TestState
      /\ RowRegular(tbl[n]) => (t.met <=> RowMet(tbl[n])) /\ (t.done => done \/ Ends(tbl[n]))
  BY <1>2, TestedMeans DEF SelTypes
<1>4. /\ out' = IF t.met /\ (~Astray \/ Len(out) < MaxAstray) THEN Append(out, n) ELSE out
      /\ diff' = t.diff
      /\ done' = IF pc = "index" THEN t.done ELSE done
  BY <1>1
<1> HIDE DEF t
<1>5. done' \in BOOLEAN /\ diff' \in Int /\ out' \in {out, Append(out, n)}
  BY <1>3, <1>4 DEF TestState, SelTypes
<1>6. ASSUME Regular
      PROVE  (t.met <=> Met(n)) /\ (t.done => done \/ Ends(tbl[n]))
  <2>1. RowRegular(tbl[n])
    BY <1>2, <1>6, OfRecords
  <2>2. QED
    BY <1>2, <1>3, <2>1, OfRecord
<1>7. QED
  <2>1. ASSUME Regular, ~(out' = out \/ Met(n)) PROVE FALSE
    BY <1>4, <1>6, <2>1
  <2>2. ASSUME Regular, Met(n), ~Astray PROVE out' = Append(out, n)
    BY <1>4, <1>6, <2>2
  <2>3. ASSUME Regular, pc = "index", done' PROVE done \/ Ends(tbl[n])
    BY <1>4, <1>6, <2>3
  <2>4. QED
    BY <1>5, <2>1, <2>2, <2>3

\* The records that are out, with one more
LEMMA OneMore ==
  ASSUME out \in Seq(Nat), NEW n \in Nat, out' = Append(out, n)
  PROVE  /\ out' \in Seq(Nat) /\ Len(out) \in Nat
         /\ DOMAIN out = 1 .. Len(out) /\ DOMAIN out' = 1 .. Len(out) + 1
         /\ \A i \in 1 .. Len(out) : out'[i] = out[i]
         /\ out'[Len(out) + 1] = n
         /\ ToSet(out') = ToSet(out) \cup {n}
         /\ IsInjective(out) /\ (\A i \in DOMAIN out : out[i] # n) => IsInjective(out')
<1>1. /\ out' \in Seq(Nat) /\ Len(out) \in Nat
      /\ DOMAIN out = 1 .. Len(out) /\ DOMAIN out' = 1 .. Len(out) + 1
      /\ \A i \in 1 .. Len(out) : out'[i] = out[i]
      /\ out'[Len(out) + 1] = n
  BY AppendProperties, LenProperties
<1>2. ToSet(out') = ToSet(out) \cup {n}
  <2>1. ASSUME NEW x \in ToSet(out') PROVE x \in ToSet(out) \cup {n}
    BY <1>1, <2>1 DEF ToSet
  <2>2. \A i \in 1 .. Len(out) : i \in 1 .. Len(out) + 1
    BY <1>1
  <2>3. Len(out) + 1 \in 1 .. Len(out) + 1
    BY <1>1
  <2>4. ASSUME NEW x \in ToSet(out) \cup {n} PROVE x \in ToSet(out')
    BY <1>1, <2>2, <2>3, <2>4 DEF ToSet
  <2>5. QED
    BY <2>1, <2>4
<1>3. ASSUME IsInjective(out), \A i \in DOMAIN out : out[i] # n,
             NEW i \in DOMAIN out', NEW j \in DOMAIN out', out'[i] = out'[j]
      PROVE  i = j
  <2>1. i \in 1 .. Len(out) \/ i = Len(out) + 1
    BY <1>1
  <2>2. j \in 1 .. Len(out) \/ j = Len(out) + 1
    BY <1>1
  <2>3. QED
    BY <1>1, <1>3, <2>1, <2>2 DEF IsInjective
<1>4. IsInjective(out) /\ (\A i \in DOMAIN out : out[i] # n) => IsInjective(out')
  BY <1>3 DEF IsInjective
<1>5. QED
  BY <1>1, <1>2, <1>4

LEMMA EmptyAnswer ==
  /\ DOMAIN << >> = {} /\ << >> \in Seq(Nat) /\ << >> \in Seq(Cond)
  /\ IsInjective(<< >>)
<1>1. DOMAIN << >> = {} /\ << >> \in Seq(Nat) /\ << >> \in Seq(Cond)
  BY EmptySeq
<1>2. QED
  BY <1>1 DEF IsInjective

LEMMA AnswerInit == Init => AnswerInv
<1> SUFFICES ASSUME Init PROVE AnswerInv
  OBVIOUS
<1>1. pc = "idle" /\ DOMAIN chain = {} /\ DOMAIN tree = {}
  BY EmptySeq DEF Init
<1>2. SelTypes
  <2>1. query.conds = << >> /\ out = << >> /\ done = FALSE /\ diff = 0
    BY DEF Init, NoQuery
  <2>2. out \in Seq(Nat)
    BY <2>1, EmptySeq
  <2>3. query.conds \in Seq(Cond)
    BY <2>1, EmptySeq
  <2>4. done \in BOOLEAN
    BY <2>1
  <2>5. diff \in Int
    BY <2>1
  <2>6. QED
    BY <1>1, <2>2, <2>3, <2>4, <2>5 DEF SelTypes
<1>3. QED
  BY <1>1, <1>2, CursorInit DEF AnswerInv, Unique, NoneTwice, Once, InSelect

LEMMA SelTypesNext ==
  ASSUME NamesInv, SelTypes, [Next]_vars
  PROVE  SelTypes'
<1>1. CASE \E q \in Query : select(q)
  <2>1. PICK q \in Query : select(q)
    BY <1>1
  <2>2. q.conds \in Seq(Cond)
    BY QueryAssumption
  <2>3. /\ pc' \in {"index", "scan"} /\ query'.conds = q.conds /\ query'.way = pc'
        /\ done' = FALSE /\ diff' \in {-1, 0, 1} /\ out' = << >>
        /\ pc' = "scan" => cur' = 1
    BY <2>1 DEF select
  <2>4. done' \in BOOLEAN
    BY <2>3
  <2>5. out' \in Seq(Nat)
    BY <2>3, EmptySeq
  <2>6. diff' \in Int /\ query'.conds \in Seq(Cond)
    BY <2>2, <2>3
  <2>7. pc' \in {"index", "scan"} /\ query'.way = pc' /\ (pc' = "scan" => cur' = 1)
    BY <2>3
  <2>8. QED
    BY <2>4, <2>5, <2>6, <2>7 DEF SelTypes
<1>2. CASE select_no_table
  <2>1. /\ pc = "idle" /\ pc' = "idle" /\ query' = NoQuery /\ out' = << >>
        /\ done' = done /\ diff' = diff
    BY <1>2 DEF select_no_table
  <2>2. QED
    BY <2>1, EmptySeq DEF SelTypes, NoQuery
<1>3. CASE select_index \/ select_scan
  <2>1. PICK n \in 1 .. Len(tbl) : take(n)
    <3>1. CASE select_index
      BY <3>1 DEF select_index, CanRead
    <3>2. CASE select_scan
      <4>1. cur \in 1 .. Len(tbl)
        BY <3>2, LenProperties DEF select_scan, SelTypes, NamesInv, Types
      <4>2. QED
        BY <3>2, <4>1 DEF select_scan
    <3>3. QED
      BY <1>3, <3>1, <3>2
  <2>2. done' \in BOOLEAN /\ diff' \in Int /\ out' \in {out, Append(out, n)}
    BY <2>1, Takes DEF NamesInv, Types
  <2>3. n \in Nat
    BY LenProperties DEF NamesInv, Types
  <2>4. out' \in Seq(Nat)
    BY <2>2, <2>3, OneMore DEF SelTypes
  <2>5. query' = query /\ pc' = pc /\ (pc = "scan" => cur' = cur + 1)
    BY <1>3 DEF select_index, select_scan
  <2>6. QED
    BY <2>2, <2>4, <2>5 DEF SelTypes
<1>4. CASE select_fails \/ select_end
  BY <1>4 DEF select_fails, select_end, exit_select, SelTypes
<1>5. CASE select_close
  <2>1. /\ query'.conds = << >> /\ out' = << >> /\ done' = FALSE /\ diff' = 0 /\ pc' = "idle"
    BY <1>5 DEF select_close, NoQuery
  <2>2. out' \in Seq(Nat)
    BY <2>1, EmptySeq
  <2>3. query'.conds \in Seq(Cond)
    BY <2>1, EmptySeq
  <2>4. done' \in BOOLEAN
    BY <2>1
  <2>5. diff' \in Int /\ pc' = "idle"
    BY <2>1
  <2>6. QED
    BY <2>2, <2>3, <2>4, <2>5 DEF SelTypes
<1>6. CASE \/ \E f \in File, index \in BOOLEAN : load(f, index)
           \/ load_bad_line \/ load_insert \/ load_append \/ load_end \/ crash
  <2>1. CASE \E f \in File, index \in BOOLEAN : load(f, index)
    BY <2>1 DEF load, SelTypes
  <2>2. CASE load_bad_line
    BY <2>2 DEF load_bad_line, selVars, SelTypes
  <2>3. CASE load_insert \/ load_append
    <3>1. pc' \in {"load", "append"}
      BY <2>3 DEF load_insert, load_append
    <3>2. UNCHANGED <<query, done, diff, out>>
      BY <2>3 DEF load_insert, load_append, selVars
    <3>3. QED
      BY <3>1, <3>2 DEF SelTypes
  <2>4. CASE load_end \/ crash
    BY <2>4 DEF load_end, crash, LoadOver, selVars, SelTypes
  <2>5. QED
    BY <1>6, <2>1, <2>2, <2>3, <2>4
<1>7. CASE UNCHANGED vars
  BY <1>7 DEF vars, selVars, SelTypes
<1>8. QED
  BY <1>1, <1>2, <1>3, <1>4, <1>5, <1>6, <1>7, Steps DEF Selects, SelectStep

\* A step of select leaves what the query means as it was.
LEMMA SameQuery ==
  ASSUME UNCHANGED <<tbl, query>>
  PROVE  /\ Regular' = Regular
         /\ \A n : Met(n)' = Met(n)
BY DEF Regular, Met

LEMMA OnceIndex ==
  ASSUME AnswerInv, select_index
  PROVE  Once'
<1>1. /\ pc = "index" /\ pc' = "index" /\ cur # 0 /\ read_leaf /\ query' = query
      /\ CanRead(rid') /\ take(rid')
  BY DEF select_index, read_leaf, NoEntryLeft
<1> DEFINE n == rid'
<1>2. /\ NamesInv /\ SelTypes /\ Unique /\ Once /\ tbl \in Seq(Row) /\ Types
      /\ query.way = "index"
  BY <1>1 DEF AnswerInv, CursorInv, NamesInv, Types, SelTypes
<1>3. n \in 1 .. Len(tbl) /\ n \in Nat /\ Len(tbl) \in Nat
  BY <1>1, <1>2, LenProperties DEF CanRead
<1>4. /\ UNCHANGED <<tbl, orphans>> /\ Index = chain /\ IndexOnDisk' = IndexOnDisk
      /\ Regular' = Regular /\ \A k : Met(k)' = Met(k)
  BY <1>1, <1>2, SelectsIndex, SameQuery DEF Selects, SelectStep
<1>5. /\ out' \in {out, Append(out, n)}
      /\ Regular => out' = out \/ Met(n)
  BY <1>1, <1>2, <1>3, Takes
<1> HIDE DEF n
<1> DEFINE After(k) ==
             \E j \in 1 .. Len(IndexOnDisk) : (cur' = 0 \/ j < cur') /\ IndexOnDisk[j].val = k
<1>6. CASE out' = Append(out, n)
  <2>1. /\ Len(out) \in Nat /\ DOMAIN out = 1 .. Len(out) /\ DOMAIN out' = 1 .. Len(out) + 1
        /\ \A i \in 1 .. Len(out) : out'[i] = out[i]
        /\ out'[Len(out) + 1] = n
        /\ IsInjective(out) /\ (\A i \in DOMAIN out : out[i] # n) => IsInjective(out')
    BY <1>2, <1>3, <1>6, OneMore DEF SelTypes
  <2>2. ASSUME Regular, NEW i \in DOMAIN out'
        PROVE  Met(out'[i])
    <3>1. \A k \in 1 .. Len(out) : Met(out[k])
      BY <1>1, <1>2, <1>4, <2>1, <2>2 DEF Once, InSelect
    <3>2. Met(n)
      <4>1. out' # out
        BY <2>1
      <4>2. QED
        BY <1>4, <1>5, <2>2, <4>1
    <3>3. CASE i = Len(out) + 1
      BY <2>1, <3>2, <3>3
    <3>4. CASE i # Len(out) + 1
      <4>1. i \in 1 .. Len(out)
        BY <2>1, <2>2, <3>4
      <4>2. QED
        BY <2>1, <3>1, <4>1
    <3>5. QED
      BY <3>3, <3>4
  <2>3. ASSUME orphans' = {}, ~Astray'
        PROVE  IsInjective(out') /\ \A i \in DOMAIN out' : After(out'[i])
    <3>1. /\ orphans = {} /\ ~Astray /\ cur \in 1 .. Len(IndexOnDisk)
          /\ Len(IndexOnDisk) \in Nat
          /\ cur' \in {0, cur + 1} /\ n = IndexOnDisk[cur].val
      <4>1. ~Astray /\ cur \in 1 .. Len(IndexOnDisk) /\ n = IndexOnDisk[cur].val
            /\ cur' = IF cur = Len(IndexOnDisk) THEN 0 ELSE cur + 1
        BY <1>1, <1>4, <2>3, OnTrack DEF n, AnswerInv
      <4>2. Len(IndexOnDisk) \in Nat
        BY <1>2, IndexType, OnDisk, LenProperties
      <4>3. QED
        BY <1>4, <2>3, <4>1, <4>2
    <3>2. IsInjective(out) /\ \A i \in DOMAIN out : Passed(out[i])
      BY <1>1, <1>2, <3>1 DEF Once, InSelect
    <3>3. ASSUME NEW k, Passed(k)
          PROVE  k # n /\ After(k)
      <4>1. PICK j \in 1 .. Len(IndexOnDisk) : j < cur /\ IndexOnDisk[j].val = k
        BY <3>1, <3>3 DEF Passed
      <4>2. IndexOnDisk[j].val # IndexOnDisk[cur].val
        <5>1. NoneTwice(chain)
          BY <1>1, <1>2, <3>1 DEF Unique
        <5>2. /\ IndexOnDisk[j] = chain[j] /\ j \in DOMAIN chain
              /\ IndexOnDisk[cur] = chain[cur] /\ cur \in DOMAIN chain
          BY <1>1, <1>2, <1>4, <3>1, EntriesLead
        <5>3. j # cur
          BY <3>1, <4>1
        <5>4. QED
          BY <5>1, <5>2, <5>3 DEF NoneTwice
      <4>3. QED
        BY <1>4, <3>1, <4>1, <4>2 DEF Passed
    <3>4. After(n)
      BY <1>4, <3>1 DEF Passed
    <3>5. IsInjective(out')
      BY <2>1, <3>2, <3>3
    <3>6. ASSUME NEW i \in DOMAIN out'
          PROVE  After(out'[i])
      <4>1. CASE i = Len(out) + 1
        BY <2>1, <3>4, <4>1
      <4>2. CASE i # Len(out) + 1
        <5>1. i \in 1 .. Len(out)
          BY <2>1, <4>2
        <5>2. QED
          BY <2>1, <3>2, <3>3, <5>1
      <4>3. QED
        BY <4>1, <4>2
    <3>7. QED
      BY <3>5, <3>6
  <2>4. QED
    BY <1>1, <1>2, <1>4, <2>2, <2>3 DEF Once, Passed
<1>7. CASE out' = out
  <2>1. ASSUME orphans' = {}, ~Astray'
        PROVE  IsInjective(out') /\ \A i \in DOMAIN out' : After(out'[i])
    <3>1. /\ orphans = {} /\ ~Astray /\ cur \in 1 .. Len(IndexOnDisk)
          /\ cur' \in {0, cur + 1}
      BY <1>1, <1>4, <2>1, OnTrack DEF AnswerInv
    <3>2. IsInjective(out) /\ \A i \in DOMAIN out : Passed(out[i])
      BY <1>1, <1>2, <3>1 DEF Once, InSelect
    <3>3. \A k : Passed(k) => After(k)
      BY <1>4, <3>1 DEF Passed
    <3>4. QED
      BY <1>7, <3>2, <3>3
  <2>2. Regular => \A i \in DOMAIN out' : Met(out'[i])
    BY <1>1, <1>2, <1>7 DEF Once, InSelect
  <2>3. QED
    BY <1>1, <1>2, <1>4, <2>1, <2>2 DEF Once, Passed
<1>8. QED
  BY <1>5, <1>6, <1>7

LEMMA OnceScan ==
  ASSUME AnswerInv, select_scan
  PROVE  Once'
<1>1. /\ pc = "scan" /\ pc' = "scan" /\ cur <= Len(tbl) /\ cur' = cur + 1 /\ take(cur)
      /\ UNCHANGED <<tbl, query>>
  BY DEF select_scan, storeVars
<1>2. /\ NamesInv /\ SelTypes /\ Once /\ tbl \in Seq(Row) /\ out \in Seq(Nat)
      /\ cur \in Nat \ {0} /\ query.way = "scan" /\ Len(tbl) \in Nat
  BY <1>1, LenProperties DEF AnswerInv, CursorInv, NamesInv, Types, SelTypes
<1>3. cur \in 1 .. Len(tbl) /\ cur \in Nat
  BY <1>1, <1>2
<1>4. Regular' = Regular /\ \A k : Met(k)' = Met(k)
  BY <1>1, SameQuery
<1>5. /\ out' \in {out, Append(out, cur)}
      /\ Regular => out' = out \/ Met(cur)
  BY <1>1, <1>2, <1>3, Takes
<1>6. /\ Regular => \A i \in DOMAIN out : Met(out[i])
      /\ IsInjective(out) /\ \A i \in DOMAIN out : out[i] < cur
  BY <1>1, <1>2 DEF Once, InSelect
<1>7. Len(out) \in Nat /\ DOMAIN out = 1 .. Len(out) /\ \A i \in 1 .. Len(out) : out[i] \in Nat
  BY <1>2, LenProperties, ElementOfSeq
<1>8. /\ Regular => \A i \in DOMAIN out' : Met(out'[i])
      /\ IsInjective(out') /\ \A i \in DOMAIN out' : out'[i] < cur + 1
  <2>1. CASE out' = out
    BY <1>2, <1>6, <1>7, <2>1
  <2>2. CASE out' = Append(out, cur)
    <3>1. /\ DOMAIN out' = 1 .. Len(out) + 1
          /\ \A i \in 1 .. Len(out) : out'[i] = out[i]
          /\ out'[Len(out) + 1] = cur
          /\ IsInjective(out) /\ (\A i \in DOMAIN out : out[i] # cur) => IsInjective(out')
      BY <1>2, <1>3, <2>2, OneMore
    <3>2. IsInjective(out')
      BY <1>3, <1>6, <1>7, <3>1
    <3>3. ASSUME NEW i \in DOMAIN out'
          PROVE  out'[i] < cur + 1 /\ (Regular => Met(out'[i]))
      <4>1. CASE i = Len(out) + 1
        <5>1. out' # out
          BY <1>7, <3>1
        <5>2. QED
          BY <1>3, <1>5, <3>1, <4>1, <5>1
      <4>2. CASE i # Len(out) + 1
        <5>1. i \in 1 .. Len(out)
          BY <1>7, <3>1, <4>2
        <5>2. QED
          BY <1>3, <1>6, <1>7, <3>1, <5>1
      <4>3. QED
        BY <4>1, <4>2
    <3>4. QED
      BY <3>2, <3>3
  <2>3. QED
    BY <1>5, <2>1, <2>2
<1>9. QED
  BY <1>1, <1>2, <1>4, <1>8 DEF Once, InSelect

LEMMA AnswerNext == AnswerInv /\ [Next]_vars => AnswerInv'
<1> SUFFICES ASSUME AnswerInv, [Next]_vars PROVE AnswerInv'
  OBVIOUS
<1>1. CursorInv' /\ SelTypes' /\ Unique'
  BY CursorNext, SelTypesNext, UniqueNext DEF AnswerInv, CursorInv
<1> SUFFICES Once'
  BY <1>1 DEF AnswerInv
<1>2. CASE \E q \in Query : select(q)
  <2>1. out' = << >>
    BY <1>2 DEF select
  <2>2. DOMAIN out' = {} /\ IsInjective(out')
    BY <2>1, EmptyAnswer
  <2>3. QED
    BY <2>2 DEF Once
<1>3. CASE select_index \/ select_scan
  BY <1>3, OnceIndex, OnceScan
<1>4. CASE select_fails \/ select_end
  <2>1. /\ query' = query /\ out' = out /\ pc \in {"index", "scan"} /\ pc' = "close"
        /\ \/ cur' = cur /\ claimed' = claimed
           \/ pc = "index" /\ cur # 0 /\ read_leaf
    BY <1>4 DEF select_fails, select_end, exit_select, read_leaf, NoEntryLeft
  <2>2. /\ UNCHANGED <<tbl, orphans>> /\ IndexOnDisk' = IndexOnDisk
        /\ Regular' = Regular /\ \A n : Met(n)' = Met(n)
    BY <1>4, <2>1, SelectsIndex, SameQuery DEF Selects, SelectStep, AnswerInv, CursorInv, NamesInv
  <2>3. ASSUME ~Astray'
        PROVE  ~Astray /\ \A n : Passed(n) => Passed(n)'
    <3>1. CASE cur' = cur /\ claimed' = claimed
      BY <2>1, <2>2, <2>3, <3>1 DEF Astray, Passed
    <3>2. CASE pc = "index" /\ cur # 0 /\ read_leaf
      <4>1. ~Astray /\ cur \in 1 .. Len(IndexOnDisk) /\ cur' \in {0, cur + 1}
        BY <2>1, <2>2, <2>3, <3>2, OnTrack DEF AnswerInv
      <4>2. QED
        BY <2>2, <4>1 DEF Passed
    <3>3. QED
      BY <2>1, <3>1, <3>2
  <2>4. Once
    BY DEF AnswerInv
  <2>5. (InSelect /\ Regular => \A i \in DOMAIN out : Met(out[i]))'
    BY <2>1, <2>2, <2>4 DEF Once, InSelect
  <2>6. (InSelect /\ query.way = "scan")' => IsInjective(out')
    BY <2>1, <2>4 DEF Once, InSelect
  <2>7. ASSUME query'.way = "index", orphans' = {}, ~Astray'
        PROVE  IsInjective(out') /\ (\A i \in DOMAIN out : Passed(out[i]))'
    <3>1. IsInjective(out) /\ \A i \in DOMAIN out : Passed(out[i])
      BY <2>1, <2>2, <2>3, <2>4, <2>7 DEF Once, InSelect
    <3>2. QED
      BY <2>1, <2>3, <2>7, <3>1
  <2>8. QED
    BY <2>1, <2>5, <2>6, <2>7 DEF Once
<1>5. CASE \/ \E f \in File, index \in BOOLEAN : load(f, index)
           \/ load_bad_line \/ load_insert \/ load_append \/ load_end \/ crash
           \/ select_no_table \/ select_close
  <2>1. pc' \in {"idle", "load", "append"}
    BY <1>5 DEF load, load_bad_line, load_insert, load_append, load_end, crash, LoadOver,
                select_no_table, select_close
  <2>2. QED
    BY <2>1 DEF Once, InSelect
<1>6. CASE UNCHANGED vars
  <2>1. /\ UNCHANGED <<tbl, chain, tree, query, orphans, out, cur, claimed, pc>>
    BY <1>6 DEF vars, storeVars, loadVars, selVars, histVars
  <2>2. /\ Regular' = Regular /\ IndexOnDisk' = IndexOnDisk
        /\ \A n : Met(n)' = Met(n)
    BY <2>1, SameQuery DEF IndexOnDisk, Index
  <2>3. Astray' = Astray /\ \A n : Passed(n)' = Passed(n)
    BY <2>1, <2>2 DEF Passed, Astray
  <2>4. QED
    BY <2>1, <2>2, <2>3 DEF AnswerInv, Once, InSelect
<1>7. QED
  BY <1>2, <1>3, <1>4, <1>5, <1>6, Steps DEF Selects, SelectStep

\* select (SqlEngine.cc:137-258): no record is counted or printed that does not
\* meet the conditions, on either way; and none twice, but through the index
\* for an entry without its record or by a search that has gone astray.
THEOREM AnswersAreExact == Spec => []AnswerOnce
<1>1. AnswerInv => AnswerOnce
  BY DEF AnswerInv, AnswerOnce, Once, InSelect, SelTypes
<1>2. QED
  BY <1>1, AnswerInit, AnswerNext, PTL DEF Spec

-----------------------------------------------------------------------------
(* MissesExplained *)

KeyIs(q, comps, i) == OnKey(q[i]) /\ q[i].comp \in comps

\* minValue is the greatest of its values and 0.
LEMMA MinIsGreatest ==
  ASSUME NEW q \in Seq(Cond)
  PROVE  LET S == {0} \cup { q[i].value : i \in { j \in DOMAIN q :
                                                          KeyIs(q, {"GT", "GE"}, j) } }
         IN MinValue(q) \in S /\ \A y \in S : y <= MinValue(q)
<1> DEFINE n == Len(q)
           I(k) == { j \in 1 .. k : KeyIs(q, {"GT", "GE"}, j) }
           V(k) == {0} \cup { q[i].value : i \in I(k) }
           T == { k \in 0 .. n : \E x \in V(k) : \A y \in V(k) : x >= y }
<1>1. n \in Nat /\ DOMAIN q = 1 .. n /\ \A i \in 1 .. n : q[i].value \in Int
  <2>1. n \in Nat /\ DOMAIN q = 1 .. n /\ \A i \in 1 .. n : q[i] \in Cond
    BY LenProperties, ElementOfSeq
  <2>2. QED
    BY <2>1 DEF Cond
<1>2. ASSUME NEW k \in 0 .. n
      PROVE  V(k) \subseteq Int
  BY <1>1
<1>3. 0 \in T
  BY <1>1
<1>4. ASSUME NEW k \in 0 .. n - 1, k \in T
      PROVE  k + 1 \in T
  <2>1. /\ k + 1 \in 1 .. n /\ k + 1 \in 0 .. n /\ k \in 0 .. n
        /\ 1 .. k + 1 = (1 .. k) \cup {k + 1}
    BY <1>1
  <2>2. PICK x \in V(k) : \A y \in V(k) : x >= y
    BY <1>4
  <2> HIDE DEF I
  <2>3. I(k + 1) \in {I(k), I(k) \cup {k + 1}}
    BY <2>1 DEF I
  <2>4. V(k + 1) \in {V(k), V(k) \cup {q[k + 1].value}}
    BY <2>3
  <2>5. V(k) \subseteq Int /\ q[k + 1].value \in Int
    BY <1>1, <1>2, <2>1
  <2> HIDE DEF V
  <2>6. \E z \in V(k + 1) : \A y \in V(k + 1) : z >= y
    <3>1. CASE V(k + 1) = V(k)
      BY <2>2, <3>1
    <3>2. CASE V(k + 1) = V(k) \cup {q[k + 1].value} /\ q[k + 1].value > x
      BY <2>2, <2>5, <3>2
    <3>3. CASE V(k + 1) = V(k) \cup {q[k + 1].value} /\ ~(q[k + 1].value > x)
      BY <2>2, <2>5, <3>3
    <3>4. QED
      BY <2>4, <3>1, <3>2, <3>3
  <2>7. QED
    BY <2>1, <2>6
<1>5. n \in T
  <2> HIDE DEF T
  <2>1. 0 .. n \subseteq T
    BY <1>1, <1>3, <1>4, UpTo
  <2>2. QED
    BY <1>1, <2>1
<1>6. \E x \in V(n) : \A y \in V(n) : x >= y
  BY <1>5
<1>7. MinValue(q) = Max(V(n))
  BY <1>1 DEF MinValue, KeyIs
<1>8. V(n) \subseteq Int
  BY <1>1, <1>2
<1> HIDE DEF V
<1>9. Max(V(n)) \in V(n) /\ \A y \in V(n) : Max(V(n)) >= y
  BY <1>6 DEF Max
<1>10. MinValue(q) \in V(n) /\ \A y \in V(n) : y <= MinValue(q)
  BY <1>7, <1>8, <1>9
<1>11. QED
  BY <1>1, <1>10 DEF V

\* absValue is the value of an = condition.
LEMMA AbsIsEq ==
  ASSUME NEW q \in Seq(Cond)
  PROVE  \/ AbsValue(q) = -1 /\ \A i \in DOMAIN q : ~KeyIs(q, {"EQ"}, i)
         \/ \E i \in DOMAIN q :
              KeyIs(q, {"EQ"}, i) /\ AbsValue(q) = q[i].value
<1> DEFINE eq == { i \in DOMAIN q : OnKey(q[i]) /\ q[i].comp = "EQ" }
<1>1. Len(q) \in Nat /\ DOMAIN q = 1 .. Len(q)
  BY LenProperties
<1>2. AbsValue(q) = IF eq = {} THEN -1 ELSE q[Max(eq)].value
  BY DEF AbsValue
<1>3. eq \in SUBSET (1 .. Len(q))
  BY <1>1
<1>4. eq # {} => Max(eq) \in eq
  <2> HIDE DEF eq
  <2>1. QED
    BY <1>1, <1>3, Greatest
<1>5. CASE eq = {}
  BY <1>2, <1>5 DEF KeyIs
<1>6. CASE eq # {}
  BY <1>2, <1>4, <1>6 DEF KeyIs
<1>7. QED
  BY <1>5, <1>6

\* The search starts in front of the records that meet the conditions: at
\* their key, when there is an = condition.
LEMMA Starts ==
  ASSUME NEW q \in Seq(Cond), NEW k \in Nat,
         \A i \in DOMAIN q : OnKey(q[i]) => Meets(q[i].comp, k - q[i].value)
  PROVE  /\ Start(q) \in Int /\ Start(q) <= k
         /\ \A i \in DOMAIN q :
              /\ KeyIs(q, {"EQ"}, i) => Start(q) = k
              /\ KeyIs(q, {"GE"}, i) => q[i].value <= Start(q)
<1>1. k \in Int /\ \A i \in DOMAIN q : q[i].value \in Int
  <2>1. \A i \in DOMAIN q : q[i] \in Cond
    BY LenProperties, ElementOfSeq
  <2>2. QED
    BY <2>1 DEF Cond
<1>2. ASSUME NEW i \in DOMAIN q
      PROVE  /\ KeyIs(q, {"EQ"}, i) => q[i].value = k
             /\ KeyIs(q, {"GE"}, i) => q[i].value <= k
             /\ KeyIs(q, {"GT"}, i) => q[i].value < k
  <2>1. OnKey(q[i]) => Meets(q[i].comp, k - q[i].value)
    OBVIOUS
  <2>2. QED
    BY <1>1, <2>1 DEF KeyIs, Meets
<1>3. CASE AbsValue(q) # -1
  <2>1. AbsValue(q) = k
    BY <1>2, <1>3, AbsIsEq
  <2>2. Start(q) = k
    BY <1>3, <2>1 DEF Start
  <2>3. QED
    BY <1>1, <1>2, <2>2
<1>4. CASE AbsValue(q) = -1
  <2>1. \A i \in DOMAIN q : ~KeyIs(q, {"EQ"}, i)
    BY <1>1, <1>2, <1>4, AbsIsEq
  <2>2. Start(q) = MinValue(q)
    BY <1>4 DEF Start
  <2> DEFINE S == {0} \cup { q[i].value : i \in { j \in DOMAIN q : KeyIs(q, {"GT", "GE"}, j) } }
  <2>3. MinValue(q) \in S /\ \A y \in S : y <= MinValue(q)
    BY MinIsGreatest
  <2>4. \A i \in DOMAIN q : KeyIs(q, {"GE"}, i) => q[i].value \in S
    BY DEF KeyIs
  <2>5. S \subseteq Int
    BY <1>1
  <2>6. \A y \in S : y <= k
    <3>1. ASSUME NEW j \in DOMAIN q, KeyIs(q, {"GT", "GE"}, j)
          PROVE  q[j].value <= k
      BY <1>1, <1>2, <3>1 DEF KeyIs
    <3>2. QED
      BY <1>1, <3>1
  <2> HIDE DEF S
  <2>7. QED
    BY <2>1, <2>2, <2>3, <2>4, <2>5, <2>6
<1>5. QED
  BY <1>3, <1>4

\* What the way through the index must find: a record whose key is not
\* negative, that is in the index, and that has its key for itself when there
\* is an = condition
Wanted(n) ==
  /\ Met(n) /\ tbl[n].key >= 0
  /\ Entry(tbl[n].key, n) \in ToSet(IndexOnDisk)
  /\ ~(/\ \E i \in DOMAIN query.conds :
            OnKey(query.conds[i]) /\ query.conds[i].comp = "EQ"
       /\ \E m \in DOMAIN tbl \ {n} : tbl[m].key = tbl[n].key)

\* The search goes on, and the record is not behind the cursor.
Ahead(n) ==
  /\ pc = "index" /\ ~done /\ cur \in 1 .. Len(IndexOnDisk)
  /\ IndexOnDisk[cur].key >= Start(query.conds)
  /\ \E j \in cur .. Len(IndexOnDisk) : IndexOnDisk[j] = Entry(tbl[n].key, n)

\* While no old buffer was written over them, the leaves are sorted.
Ordered == orphans = {} => InOrder(chain) /\ InOrder(tree)

Found ==
  /\ Ordered
  /\ pc = "scan" /\ Regular => \A n \in DOMAIN tbl : n < cur /\ Met(n) => n \in ToSet(out)
  /\ pc = "close" /\ rc = 0 /\ query.way = "scan" /\ Regular =>
       \A n \in DOMAIN tbl : Met(n) => n \in ToSet(out)
  /\ InSelect /\ query.way = "index" /\ (pc = "close" => rc = 0) /\ Regular /\ orphans = {} /\ spoilt = {}
       /\ ~Astray =>
       \A n \in DOMAIN tbl : Wanted(n) => n \in ToSet(out) \/ Ahead(n)

FoundInv == AnswerInv /\ Found

LEMMA OrderInsert ==
  ASSUME NamesInv, InOrder(tree), InOrder(chain), load_insert, orphans' = {}
  PROVE  InOrder(chain') /\ InOrder(tree')
<1>1. /\ pc = "load" /\ More /\ Line # NoComma /\ chain' \in {chain, tree'}
      /\ \/ tree' = tree
         \/ \E m \in Seq(LeafEntry) :
              tree' = LeafPlaced(m, Inserted) /\ (m = IndexOnDisk \/ ToSet(m) = {})
  BY Inserts, NoEntries DEF NamesInv
<1>2. /\ Inserted \in LeafEntry /\ tree \in Seq(LeafEntry) /\ Index = tree
      /\ \A x \in LeafEntry : x.key \in Int
  BY <1>1, OneEntry DEF NamesInv, Types, LeafEntry, Index
<1>3. ASSUME NEW m \in Seq(LeafEntry), tree' = LeafPlaced(m, Inserted),
             m = IndexOnDisk \/ ToSet(m) = {}
      PROVE  InOrder(tree')
  <2>1. InOrder(m)
    <3>1. CASE m = IndexOnDisk
      <4>1. /\ Len(m) \in 0 .. Len(tree) /\ DOMAIN m = 1 .. Len(m) /\ DOMAIN tree = 1 .. Len(tree)
            /\ \A i \in 1 .. Len(m) : m[i] = tree[i]
            /\ Len(tree) \in Nat
        BY <1>2, <3>1, OnDisk, LenProperties
      <4>2. QED
        BY <4>1 DEF InOrder
    <3>2. CASE ToSet(m) = {}
      <4>1. DOMAIN m = {}
        BY <3>2 DEF ToSet
      <4>2. QED
        BY <4>1 DEF InOrder
    <3>3. QED
      BY <1>3, <3>1, <3>2
  <2>2. QED
    BY <1>2, <1>3, <2>1, LeafPlacedSorted
<1>4. InOrder(tree')
  BY <1>1, <1>3
<1>5. QED
  BY <1>1, <1>4

LEMMA OrderNext ==
  ASSUME NamesInv, Ordered, [Next]_vars
  PROVE  Ordered'
<1> SUFFICES ASSUME orphans' = {} PROVE InOrder(chain') /\ InOrder(tree')
  BY DEF Ordered
<1>1. InOrder(<< >>)
  BY EmptySeq DEF InOrder
<1>2. ASSUME chain' \in {chain, tree}, tree' \in {chain, tree, << >>}, orphans = {}
      PROVE  InOrder(chain') /\ InOrder(tree')
  <2>1. InOrder(chain) /\ InOrder(tree)
    BY <1>2 DEF Ordered
  <2>2. QED
    BY <1>1, <1>2, <2>1
<1>3. CASE load_insert
  <2>1. orphans = {}
    BY <1>3, Inserts DEF NamesInv
  <2>2. QED
    BY <1>3, <2>1, OrderInsert DEF Ordered
<1>4. CASE load_append
  <2>1. chain' = chain /\ tree' = tree /\ (Stored \/ NotStored)
    BY <1>4, Appends DEF NamesInv
  <2>2. orphans = {}
    BY <2>1 DEF Stored, NotStored
  <2>3. QED
    BY <1>2, <2>1, <2>2
<1>5. CASE \E f \in File, index \in BOOLEAN : load(f, index)
  <2>1. chain' = chain /\ tree' \in {chain, << >>} /\ orphans' = orphans
    BY <1>5, Loads DEF NamesInv
  <2>2. QED
    BY <1>2, <2>1
<1>6. CASE load_bad_line
  <2>1. chain' = chain /\ tree' = tree /\ orphans' = orphans
    BY <1>6 DEF load_bad_line, storeVars, histVars
  <2>2. QED
    BY <1>2, <2>1
<1>7. CASE load_end
  <2>1. chain' \in {chain, tree} /\ tree' = << >> /\ orphans' = orphans
    BY <1>7 DEF load_end, LoadOver
  <2>2. QED
    BY <1>2, <2>1
<1>8. CASE crash
  <2>1. chain' = chain /\ tree' = << >> /\ orphans \subseteq orphans'
    BY <1>8 DEF crash, LoadOver, storeVars
  <2>2. QED
    BY <1>2, <2>1
<1>9. CASE Selects
  <2>1. UNCHANGED <<chain, tree, orphans>>
    BY <1>9, SelectsIndex DEF NamesInv
  <2>2. QED
    BY <1>2, <2>1
<1>10. CASE UNCHANGED vars
  <2>1. chain' = chain /\ tree' = tree /\ orphans' = orphans
    BY <1>10 DEF vars, storeVars, loadVars, histVars
  <2>2. QED
    BY <1>2, <2>1
<1>11. QED
  BY <1>3, <1>4, <1>5, <1>6, <1>7, <1>8, <1>9, <1>10, Steps

\* Where the search begins
LEMMA FoundSelect ==
  ASSUME AnswerInv, Ordered', NEW q \in Query, select(q)
  PROVE  Found'
<1>1. /\ pc' \in {"index", "scan"} /\ query'.conds = q.conds /\ query'.way = pc' /\ ~done'
      /\ pc' = "scan" => cur' = 1
  BY DEF select
<1> DEFINE at == Locate(IndexOnDisk, Start(q.conds))
<1>2. ASSUME ~Astray', pc' = "index", at # 0
      PROVE  cur' = at
  <2>1. PICK unread \in Unread :
          /\ claimed' = IF query'.way = "scan" THEN {} ELSE unread
          /\ cur' \in (IF query'.way = "scan" THEN {1}
                       ELSE IF (IF unread = {} THEN at ELSE 0) = 0 THEN Uninit
                       ELSE {IF unread = {} THEN at ELSE 0})
    BY DEF select
  <2>2. query'.way = "index"
    BY <1>1, <1>2
  <2>3. unread = {}
    BY <1>2, <2>1, <2>2 DEF Astray
  <2> HIDE DEF at
  <2>4. QED
    BY <1>2, <2>1, <2>2, <2>3
<1>3. /\ tbl' = tbl /\ tbl' \in Seq(Row) /\ query'.conds \in Seq(Cond)
      /\ IndexOnDisk' = IndexOnDisk /\ IndexOnDisk \in Seq(LeafEntry)
  <2>1. /\ tbl' = tbl /\ tbl \in Seq(Row) /\ IndexOnDisk' = IndexOnDisk
        /\ IndexOnDisk \in Seq(LeafEntry)
    BY SelectsIndex, IndexType, OnDisk DEF Selects, AnswerInv, CursorInv, NamesInv, Types
  <2>2. query'.conds \in Seq(Cond)
    BY <1>1, QueryAssumption
  <2>3. QED
    BY <2>1, <2>2
<1>4. ASSUME pc' = "index", ~Astray', NEW n \in DOMAIN tbl', Wanted(n)'
      PROVE  Ahead(n)'
  <2>1. /\ tbl'[n].key >= 0 /\ Met(n)'
        /\ Entry(tbl'[n].key, n) \in ToSet(IndexOnDisk)
    BY <1>3, <1>4 DEF Wanted
  <2>2. tbl'[n].key \in Nat
    BY <1>3, <1>4, <2>1, LenProperties, ElementOfSeq, RowAssumption, BoundAssumption
  <2>3. \A i \in DOMAIN q.conds :
          OnKey(q.conds[i]) => Meets(q.conds[i].comp, tbl'[n].key - q.conds[i].value)
    BY <1>1, <2>1 DEF Met
  <2>4. Start(q.conds) \in Int /\ Start(q.conds) <= tbl'[n].key
    BY <1>1, <1>3, <2>2, <2>3, Starts
  <2>5. PICK j \in 1 .. Len(IndexOnDisk) : IndexOnDisk[j] = Entry(tbl'[n].key, n)
    BY <1>3, <2>1, LenProperties DEF ToSet
  <2>6. /\ Len(IndexOnDisk) \in Nat /\ \A i \in 1 .. Len(IndexOnDisk) : IndexOnDisk[i].key \in Int
    BY <1>3, Keys DEF LeafEntry
  <2>7. /\ at \in 0 .. Len(IndexOnDisk)
        /\ at = 0 => \A i \in 1 .. Len(IndexOnDisk) : IndexOnDisk[i].key < Start(q.conds)
        /\ at # 0 => /\ IndexOnDisk[at].key >= Start(q.conds)
                     /\ \A i \in 1 .. at - 1 : IndexOnDisk[i].key < Start(q.conds)
    BY <1>3, <2>4, <2>6, LocateSplits
  <2> HIDE DEF at
  <2>8. IndexOnDisk[j].key = tbl'[n].key
    BY <2>5 DEF Entry
  <2>9. at # 0 /\ j \in at .. Len(IndexOnDisk)
    BY <2>2, <2>4, <2>6, <2>7, <2>8
  <2>10. QED
    BY <1>1, <1>2, <1>3, <1>4, <2>5, <2>6, <2>7, <2>9 DEF Ahead
<1>5. ASSUME pc' = "scan", NEW n \in DOMAIN tbl'
      PROVE  ~(n < cur')
  BY <1>1, <1>3, <1>5, LenProperties
<1>6. QED
  BY <1>1, <1>4, <1>5 DEF Found, Ordered, InSelect

\* The search does not end in front of a record that it must find.
LEMMA NotEnded ==
  ASSUME query.conds \in Seq(Cond), tbl \in Seq(Row), NEW n \in DOMAIN tbl, NEW r \in DOMAIN tbl,
         Wanted(n), r # n, Start(query.conds) <= tbl[r].key, tbl[r].key <= tbl[n].key
  PROVE  ~Ends(tbl[r])
<1> DEFINE q == query.conds
<1>1. /\ tbl[n].key \in Nat /\ tbl[r].key \in Int
      /\ \A i \in DOMAIN q : q[i] \in Cond
  <2>1. tbl[n] \in Row /\ tbl[r] \in Row /\ \A i \in DOMAIN q : q[i] \in Cond
    BY LenProperties, ElementOfSeq
  <2>2. tbl[n].key >= 0
    BY DEF Wanted
  <2>3. QED
    BY <2>1, <2>2, RowAssumption, BoundAssumption
<1>2. \A i \in DOMAIN q : OnKey(q[i]) => Meets(q[i].comp, tbl[n].key - q[i].value)
  BY DEF Wanted, Met
<1>3. /\ Start(q) \in Int /\ Start(q) <= tbl[n].key
      /\ \A i \in DOMAIN q :
           /\ KeyIs(q, {"EQ"}, i) => Start(q) = tbl[n].key
           /\ KeyIs(q, {"GE"}, i) => q[i].value <= Start(q)
  BY <1>1, <1>2, Starts
<1>4. ASSUME NEW i \in DOMAIN q, EndsSearch(q[i], Diff(tbl[r], q[i]))
      PROVE  FALSE
  <2>1. /\ OnKey(q[i]) /\ Diff(tbl[r], q[i]) = tbl[r].key - q[i].value /\ q[i].value \in Int
        /\ Meets(q[i].comp, tbl[n].key - q[i].value)
    BY <1>1, <1>2, <1>4 DEF EndsSearch, Diff, Cond
  <2>2. CASE q[i].comp = "EQ"
    <3>1. tbl[r].key = tbl[n].key
      BY <1>1, <1>3, <2>1, <2>2 DEF KeyIs
    <3>2. QED
      BY <2>1, <2>2, <3>1 DEF Wanted
  <2>3. CASE q[i].comp = "LT" /\ Diff(tbl[r], q[i]) >= 0
    BY <1>1, <2>1, <2>3 DEF Meets
  <2>4. CASE q[i].comp = "GE" /\ Diff(tbl[r], q[i]) < 0
    BY <1>1, <1>3, <2>1, <2>4 DEF KeyIs
  <2>5. CASE q[i].comp = "LE" /\ Diff(tbl[r], q[i]) > 0
    BY <1>1, <2>1, <2>5 DEF Meets
  <2>6. QED
    BY <1>4, <2>2, <2>3, <2>4, <2>5 DEF EndsSearch
<1>5. QED
  BY <1>4 DEF Ends

LEMMA SameWanted ==
  ASSUME UNCHANGED <<tbl, query>>, IndexOnDisk' = IndexOnDisk
  PROVE  \A n : Wanted(n)' = Wanted(n)
BY DEF Wanted, Met

LEMMA FoundIndex ==
  ASSUME FoundInv, Ordered', select_index
  PROVE  Found'
<1>1. /\ pc = "index" /\ pc' = "index" /\ cur # 0 /\ read_leaf /\ ~done /\ query' = query
      /\ CanRead(rid') /\ take(rid')
  BY DEF select_index, read_leaf, NoEntryLeft
<1> DEFINE r == rid'
<1>2. /\ NamesInv /\ CursorInv /\ SelTypes /\ Found /\ tbl \in Seq(Row) /\ out \in Seq(Nat)
      /\ query.way = "index" /\ query.conds \in Seq(Cond) /\ Types /\ Ordered
  BY <1>1 DEF FoundInv, AnswerInv, CursorInv, NamesInv, Types, SelTypes, Found
<1>3. r \in 1 .. Len(tbl) /\ r \in Nat /\ Len(tbl) \in Nat /\ DOMAIN tbl = 1 .. Len(tbl)
  BY <1>1, <1>2, LenProperties DEF CanRead
<1>4. /\ UNCHANGED <<tbl, orphans, spoilt>> /\ Index = chain /\ IndexOnDisk' = IndexOnDisk
      /\ Regular' = Regular /\ \A k : Wanted(k)' = Wanted(k)
  BY <1>1, <1>2, SelectsIndex, SameQuery, SameWanted DEF Selects, SelectStep
<1>5. /\ out' \in {out, Append(out, r)}
      /\ Regular => /\ Met(r) /\ ~Astray => out' = Append(out, r)
                    /\ done' => Ends(tbl[r])
  BY <1>1, <1>2, <1>3, Takes
<1>6. ToSet(out) \subseteq ToSet(out') /\ (out' = Append(out, r) => r \in ToSet(out'))
  <2> HIDE DEF r
  <2>1. CASE out' = Append(out, r)
    BY <1>2, <1>3, <2>1, OneMore
  <2>2. CASE out' = out /\ out' # Append(out, r)
    BY <2>2
  <2>3. QED
    BY <1>5, <2>1, <2>2
<1>7. ASSUME Regular, orphans = {}, spoilt = {}, ~Astray', NEW n \in DOMAIN tbl, Wanted(n), n \notin ToSet(out')
      PROVE  Ahead(n)'
  <2> HIDE DEF r
  <2>0. /\ ~Astray /\ cur \in 1 .. Len(IndexOnDisk) /\ r = IndexOnDisk[cur].val
        /\ cur' = IF cur = Len(IndexOnDisk) THEN 0 ELSE cur + 1
    BY <1>1, <1>2, <1>4, <1>7, OnTrack DEF r
  <2>1. Ahead(n)
    BY <1>1, <1>2, <1>6, <1>7, <2>0 DEF Found, InSelect
  <2>2. PICK j \in cur .. Len(IndexOnDisk) : IndexOnDisk[j] = Entry(tbl[n].key, n)
    BY <2>1 DEF Ahead
  <2>3. /\ cur \in 1 .. Len(IndexOnDisk) /\ Len(IndexOnDisk) \in Nat
        /\ IndexOnDisk[cur].key >= Start(query.conds)
    BY <1>2, <2>0, <2>1, IndexType, OnDisk, LenProperties DEF Ahead
  <2>4. IndexOnDisk[cur] = Entry(tbl[r].key, r)
    BY <1>1, <1>2, <1>7, <2>0, EntriesLead
  <2>5. r # n
    BY <1>5, <1>6, <1>7, <2>0 DEF Wanted
  <2>6. j # cur /\ j \in cur + 1 .. Len(IndexOnDisk) /\ cur + 1 \in 1 .. Len(IndexOnDisk)
    BY <2>2, <2>3, <2>4, <2>5 DEF Entry
  <2>7. cur' = cur + 1
    BY <2>0, <2>3, <2>6
  <2>8. /\ IndexOnDisk[cur].key <= IndexOnDisk[j].key
        /\ IndexOnDisk[cur].key <= IndexOnDisk[cur + 1].key
        /\ IndexOnDisk[cur].key \in Int /\ IndexOnDisk[cur + 1].key \in Int
    <3>1. /\ Len(IndexOnDisk) \in 0 .. Len(chain) /\ Len(chain) \in Nat
          /\ \A i \in 1 .. Len(IndexOnDisk) : IndexOnDisk[i] = chain[i]
          /\ DOMAIN chain = 1 .. Len(chain) /\ \A i \in 1 .. Len(chain) : chain[i].key \in Int
      <4>1. /\ Len(IndexOnDisk) \in 0 .. Len(Index) /\ Len(Index) \in Nat
            /\ \A i \in 1 .. Len(IndexOnDisk) : IndexOnDisk[i] = Index[i]
            /\ chain \in Seq(LeafEntry)
        BY <1>2, IndexType, OnDisk DEF Types
      <4>2. DOMAIN chain = 1 .. Len(chain) /\ \A i \in 1 .. Len(chain) : chain[i].key \in Int
        BY <4>1, Keys DEF LeafEntry
      <4>3. QED
        BY <1>4, <4>1, <4>2
    <3>2. cur \in DOMAIN chain /\ j \in DOMAIN chain /\ cur + 1 \in DOMAIN chain /\ cur < j
      BY <2>3, <2>6, <3>1
    <3>3. chain[cur].key <= chain[j].key /\ chain[cur].key <= chain[cur + 1].key
      <4>1. \A i, l \in DOMAIN chain : i < l => chain[i].key <= chain[l].key
        BY <1>2, <1>7 DEF Ordered, InOrder
      <4>2. cur < cur + 1
        BY <2>3
      <4>3. QED
        BY <3>2, <4>1, <4>2
    <3>4. /\ IndexOnDisk[cur] = chain[cur] /\ IndexOnDisk[j] = chain[j]
          /\ IndexOnDisk[cur + 1] = chain[cur + 1]
      BY <2>2, <2>3, <2>6, <3>1
    <3>5. QED
      BY <3>1, <3>2, <3>3, <3>4
  <2>9. /\ Start(query.conds) <= tbl[r].key /\ tbl[r].key <= tbl[n].key
        /\ Start(query.conds) <= IndexOnDisk[cur + 1].key
    <3>1. Start(query.conds) \in Int
      <4>1. /\ tbl[n].key >= 0 /\ tbl[n] \in Row
            /\ \A i \in DOMAIN query.conds : OnKey(query.conds[i]) =>
                  Meets(query.conds[i].comp, tbl[n].key - query.conds[i].value)
        BY <1>2, <1>7, LenProperties, ElementOfSeq DEF Wanted, Met
      <4>2. tbl[n].key \in Nat
        BY <4>1, RowAssumption, BoundAssumption
      <4>3. QED
        BY <1>2, <4>1, <4>2, Starts
    <3>2. IndexOnDisk[cur].key = tbl[r].key /\ IndexOnDisk[j].key = tbl[n].key
      BY <2>2, <2>4 DEF Entry
    <3>3. QED
      BY <2>3, <2>8, <3>1, <3>2
  <2>10. ~done'
    BY <1>2, <1>3, <1>5, <1>7, <2>5, <2>9, NotEnded
  <2>11. QED
    BY <1>1, <1>4, <2>2, <2>6, <2>7, <2>9, <2>10 DEF Ahead
<1>8. QED
  BY <1>1, <1>2, <1>4, <1>7 DEF Found, InSelect

LEMMA FoundScan ==
  ASSUME FoundInv, Ordered', select_scan
  PROVE  Found'
<1>1. /\ pc = "scan" /\ pc' = "scan" /\ cur <= Len(tbl) /\ cur' = cur + 1 /\ take(cur)
      /\ UNCHANGED <<tbl, query>>
  BY DEF select_scan, storeVars
<1>2. /\ NamesInv /\ SelTypes /\ Found /\ tbl \in Seq(Row) /\ out \in Seq(Nat)
      /\ cur \in Nat \ {0} /\ query.way = "scan" /\ Len(tbl) \in Nat /\ DOMAIN tbl = 1 .. Len(tbl)
  BY <1>1, LenProperties DEF FoundInv, AnswerInv, CursorInv, NamesInv, Types, SelTypes
<1>3. cur \in 1 .. Len(tbl) /\ cur \in Nat /\ ~Astray
  BY <1>1, <1>2 DEF Astray
<1>4. Regular' = Regular /\ \A k : Met(k)' = Met(k)
  BY <1>1, SameQuery
<1>5. /\ out' \in {out, Append(out, cur)}
      /\ Regular => (Met(cur) => out' = Append(out, cur))
  BY <1>1, <1>2, <1>3, Takes
<1>6. ToSet(out) \subseteq ToSet(out') /\ (out' = Append(out, cur) => cur \in ToSet(out'))
  <2>1. CASE out' = Append(out, cur)
    BY <1>2, <1>3, <2>1, OneMore
  <2>2. CASE out' = out /\ out' # Append(out, cur)
    BY <2>2
  <2>3. QED
    BY <1>5, <2>1, <2>2
<1>7. ASSUME Regular, NEW n \in DOMAIN tbl, n < cur + 1, Met(n)
      PROVE  n \in ToSet(out')
  <2>1. CASE n = cur
    BY <1>5, <1>6, <1>7, <2>1
  <2>2. CASE n < cur
    BY <1>1, <1>2, <1>6, <1>7, <2>2 DEF Found
  <2>3. QED
    BY <1>2, <1>3, <1>7, <2>1, <2>2
<1>8. QED
  BY <1>1, <1>2, <1>4, <1>7 DEF Found, InSelect

LEMMA FoundEnd ==
  ASSUME FoundInv, Ordered', select_end
  PROVE  Found'
<1>1. /\ query' = query /\ out' = out /\ cur' = cur /\ claimed' = claimed
      /\ pc' = "close" /\ rc' = 0
      /\ \/ pc = "index" /\ (cur = 0 \/ done)
         \/ pc = "scan" /\ cur > Len(tbl)
  BY DEF select_end, exit_select, NoEntryLeft
<1>2. /\ UNCHANGED <<tbl, orphans, spoilt>>
      /\ Regular' = Regular /\ (\A n : Met(n)' = Met(n)) /\ (\A n : Wanted(n)' = Wanted(n))
      /\ Astray' = Astray
  <2>1. UNCHANGED <<tbl, orphans, spoilt>> /\ IndexOnDisk' = IndexOnDisk
    BY SelectsIndex DEF Selects, SelectStep, FoundInv, AnswerInv, CursorInv, NamesInv
  <2>2. Astray' = Astray
    BY <1>1, <2>1 DEF Astray
  <2>3. QED
    BY <1>1, <2>1, <2>2, SameQuery, SameWanted
<1>3. /\ SelTypes /\ Found /\ Len(tbl) \in Nat /\ DOMAIN tbl = 1 .. Len(tbl)
  BY LenProperties DEF FoundInv, AnswerInv, CursorInv, NamesInv, Types
<1>4. CASE pc = "scan" /\ cur > Len(tbl)
  <2>1. query.way = "scan" /\ cur \in Nat
    BY <1>3, <1>4 DEF SelTypes
  <2>2. \A n \in DOMAIN tbl : n < cur
    BY <1>3, <1>4, <2>1
  <2>3. QED
    BY <1>1, <1>2, <1>3, <1>4, <2>1, <2>2 DEF Found
<1>5. CASE pc = "index" /\ (cur = 0 \/ done)
  <2>1. query.way = "index"
    BY <1>3, <1>5 DEF SelTypes
  <2>2. \A n : ~Ahead(n)
    BY <1>5 DEF Ahead
  <2>3. QED
    BY <1>1, <1>2, <1>3, <1>5, <2>1, <2>2 DEF Found, InSelect
<1>6. QED
  BY <1>1, <1>4, <1>5

LEMMA FoundInit == Init => FoundInv
<1> SUFFICES ASSUME Init PROVE FoundInv
  OBVIOUS
<1>1. pc = "idle" /\ DOMAIN chain = {} /\ DOMAIN tree = {}
  BY EmptySeq DEF Init
<1>2. QED
  BY <1>1, AnswerInit DEF FoundInv, Found, Ordered, InSelect, InOrder

LEMMA FoundNext == FoundInv /\ [Next]_vars => FoundInv'
<1> SUFFICES ASSUME FoundInv, [Next]_vars PROVE FoundInv'
  OBVIOUS
<1>1. AnswerInv' /\ Ordered'
  BY AnswerNext, OrderNext DEF FoundInv, AnswerInv, CursorInv, Found
<1> SUFFICES Found'
  BY <1>1 DEF FoundInv
<1>2. CASE \E q \in Query : select(q)
  BY <1>1, <1>2, FoundSelect DEF FoundInv
<1>3. CASE select_index \/ select_scan \/ select_end
  BY <1>1, <1>3, FoundIndex, FoundScan, FoundEnd
<1>4. CASE select_fails
  <2>1. pc' = "close" /\ rc' # 0
    BY <1>4 DEF select_fails, exit_select, RC_INVALID_RID, RC_FILE_READ_FAILED
  <2>2. QED
    BY <1>1, <2>1 DEF Found, InSelect
<1>5. CASE \/ \E f \in File, index \in BOOLEAN : load(f, index)
           \/ load_bad_line \/ load_insert \/ load_append \/ load_end \/ crash
           \/ select_no_table \/ select_close
  <2>1. pc' \in {"idle", "load", "append"}
    BY <1>5 DEF load, load_bad_line, load_insert, load_append, load_end, crash, LoadOver,
                select_no_table, select_close
  <2>2. QED
    BY <1>1, <2>1 DEF Found, InSelect
<1>6. CASE UNCHANGED vars
  <2>1. /\ UNCHANGED <<tbl, chain, tree, query, orphans, spoilt, out, cur, claimed, pc, done, rc>>
    BY <1>6 DEF vars, storeVars, loadVars, selVars, histVars
  <2>2. /\ Regular' = Regular /\ IndexOnDisk' = IndexOnDisk
        /\ (\A n : Met(n)' = Met(n)) /\ (\A n : Wanted(n)' = Wanted(n))
    BY <2>1, SameQuery, SameWanted DEF IndexOnDisk, Index
  <2>3. Astray' = Astray /\ \A n : Ahead(n)' = Ahead(n)
    BY <2>1, <2>2 DEF Ahead, Astray
  <2>4. QED
    BY <1>1, <2>1, <2>2, <2>3 DEF FoundInv, Found, InSelect
<1>7. QED
  BY <1>2, <1>3, <1>4, <1>5, <1>6, Steps DEF Selects, SelectStep

\* select (SqlEngine.cc:67-258): what it leaves out of its answer although it
\* meets the conditions has a negative key, is not in the index, or shares its
\* key with another record while an = condition ends the search; or an old
\* buffer was written over table or index, or the search has gone astray.
THEOREM MissesAreExplained == Spec => []MissesExplained
<1>1. FoundInv => MissesExplained
  <2> SUFFICES ASSUME FoundInv PROVE MissesExplained
    OBVIOUS
  <2>1. ASSUME NEW n \in DOMAIN tbl PROVE tbl[n].key \in Int
    <3>1. tbl[n] \in Row
      BY LenProperties, ElementOfSeq DEF FoundInv, AnswerInv, CursorInv, NamesInv, Types
    <3>2. QED
      BY <3>1, RowAssumption, BoundAssumption
  <2> SUFFICES ASSUME pc = "close", rc = 0, Regular,
                      NEW n \in DOMAIN tbl, Met(n), n \notin ToSet(out)
               PROVE  /\ query.way = "index"
                      /\ orphans = {} /\ spoilt = {} /\ ~Astray => ~Wanted(n)
    BY <2>1 DEF MissesExplained, Wanted
  <2>2. query.way \in {"index", "scan"}
    BY DEF FoundInv, AnswerInv, SelTypes
  <2>3. ~Ahead(n)
    BY DEF Ahead
  <2>4. QED
    BY <2>2, <2>3 DEF FoundInv, Found, InSelect
<1>2. QED
  BY <1>1, FoundInit, FoundNext, PTL DEF Spec

=============================================================================
