---------------------------- MODULE RecordFile -----------------------------
(***************************************************************************)
(* RecordFile.{h,cc}: a file of fixed-size record slots over PageFile.     *)
(* The only state that survives an object is the file; where the next      *)
(* record goes (erid) is recomputed from its last page by open.  PageFile  *)
(* is the page store of PageStore.tla, reduced to one file.                *)
(***************************************************************************)
EXTENDS Bruinbase, Sequences

CONSTANTS
  RECORDS_PER_PAGE,
  Key, Value,
  Stored(_),    \* what is left of a value: its first MAX_VALUE_LENGTH - 1 bytes
  ZeroRec,      \* what a slot of zeros reads as
  NoRec,
  Rid,          \* the record ids callers pass to read
  SeekLimit,    \* the first page whose byte offset overflows an int
  MaxPages,     \* bound: records are appended up to this many pages
  Fault         \* "open": an open fails and the caller appends all the same,
                \* "last": open fails to read the last page,
                \* "read", "write": a page of an open file is not read, written

Rec == (Key \X Value) \cup {ZeroRec}

ASSUME SlotAssumption  == RECORDS_PER_PAGE \in Nat \ {0}
ASSUME RecAssumption   == /\ \A v \in Value : Stored(v) \in Value
                          /\ NoRec \notin Rec
ASSUME RidAssumption   == Rid \subseteq [pid : Int, sid : Int]
ASSUME LimitAssumption == SeekLimit \in Nat /\ MaxPages \in Nat
ASSUME FaultAssumption == Fault \subseteq {"open", "last", "read", "write"}

VARIABLES
  file,    \* the pages on disk
  mode,    \* the PageFile below: "closed", "r" or "w"
  poisoned, \* the pages whose slot in the read cache was claimed by a read
           \* that failed (pf_read_miss of PageFile)
  erid,    \* the end record id
  ret      \* what the last call returned

vars == <<file, mode, poisoned, erid, ret>>

Sid      == 0 .. RECORDS_PER_PAGE - 1
PageRec  == [count : 0 .. RECORDS_PER_PAGE, slot : [Sid -> Rec]]
ZeroPage == [count |-> 0, slot |-> [s \in Sid |-> ZeroRec]]
Start    == [pid |-> 0, sid |-> 0]
NoRid    == [pid |-> -1, sid |-> -1]

Answer(rc, rid, rec) == [rc |-> rc, rid |-> rid, rec |-> rec]
Code(rc)             == Answer(rc, NoRid, NoRec)

Opened    == mode # "closed"
EndPid    == IF Opened THEN Len(file) ELSE 0
InFile(p) == p >= 0 /\ p < EndPid

\* Mutant: the end moves to the next page one slot too early.
NextTooEarly(rid) ==
  IF rid.sid + 2 >= RECORDS_PER_PAGE THEN [pid |-> rid.pid + 1, sid |-> 0]
                                     ELSE [rid EXCEPT !.sid = @ + 1]

\* ++rid
Next_(rid) ==
  IF rid.sid + 1 >= RECORDS_PER_PAGE THEN [pid |-> rid.pid + 1, sid |-> 0]
                                     ELSE [rid EXCEPT !.sid = @ + 1]

Before(r1, r2) == \/ r1.pid < r2.pid
                  \/ r1.pid = r2.pid /\ r1.sid < r2.sid

\* What reading page p returns: of a poisoned one whatever the cache's buffer
\* held before, a page of any file, unless its slot has been reused meanwhile.
PagesRead(p) == IF p \in poisoned THEN PageRec ELSE {file[p + 1]}

Init == /\ file = << >> /\ mode = "closed" /\ poisoned = {}
        /\ erid = Start /\ ret = Code(0)

-----------------------------------------------------------------------------
\* Where the next record goes when p is the last page.
EndOf(p, page) ==
  IF page.count >= RECORDS_PER_PAGE THEN [pid |-> p + 1, sid |-> 0]
                                    ELSE [pid |-> p, sid |-> page.count]

open(m) ==
  /\ mode = "closed"
  /\ mode' = m /\ poisoned' = {}
  /\ erid' = IF file = << >> THEN Start
             ELSE EndOf(Len(file) - 1, file[Len(file)])
  /\ ret' = Code(0)
  /\ UNCHANGED file

\* pf_open fails: the object is open already, or the file cannot be opened.
open_fails ==
  /\ ret' = Code(RC_FILE_OPEN_FAILED)
  /\ UNCHANGED <<file, mode, poisoned, erid>>

\* The last page cannot be read: the file is closed again.
open_read_fails ==
  /\ mode = "closed" /\ file # << >> /\ "last" \in Fault
  /\ erid' = Start
  /\ ret' = Code(RC_FILE_READ_FAILED)
  /\ UNCHANGED <<file, mode, poisoned>>

\* Callers drop the object whatever close returns.
close ==
  /\ erid' = Start /\ mode' = "closed" /\ poisoned' = {}
  /\ ret' = Code(IF mode = "closed" THEN RC_FILE_CLOSE_FAILED ELSE 0)
  /\ UNCHANGED file

\* The object goes out of scope, or the program ends, without a close.
Abandon ==
  /\ erid' = Start /\ mode' = "closed" /\ poisoned' = {}
  /\ ret' = Code(0)
  /\ UNCHANGED file

-----------------------------------------------------------------------------
NeedsRead == erid.sid > 0

\* Mutant: append forgets that the page has other records.
BasePagesZero == {ZeroPage}

\* The page append starts from: a slot other than the first shares its page.
BasePages == IF NeedsRead THEN PagesRead(erid.pid) ELSE {ZeroPage}

\* Mutant: the count of the page is the slot number.
WithRecordCount0(page, s, r) ==
  [count |-> s, slot |-> [page.slot EXCEPT ![s] = r]]

WithRecord(page, s, r) ==
  [count |-> s + 1, slot |-> [page.slot EXCEPT ![s] = r]]

\* load() appends without having looked at what open returned, and goes on
\* after an append that failed.
MayAppend == /\ Opened \/ "open" \in Fault
             /\ erid.pid < MaxPages

append(k, v) ==
  /\ MayAppend /\ mode = "w" /\ erid.pid < SeekLimit
  /\ NeedsRead => InFile(erid.pid)
  /\ \E base \in BasePages :
       LET page == WithRecord(base, erid.sid, <<k, Stored(v)>>)
       IN file' = IF erid.pid < Len(file) THEN [file EXCEPT ![erid.pid + 1] = page]
                                          ELSE Append(file, page)
  /\ poisoned' = poisoned \ {erid.pid}
  /\ ret' = Answer(0, erid, NoRec)
  /\ erid' = Next_(erid)
  /\ UNCHANGED mode

\* The seek of pf_write fails, its code 1 is not "< 0", and append goes on as
\* if the page had been written.
append_unwritten ==
  /\ MayAppend
  /\ ~Opened \/ erid.pid >= SeekLimit
  /\ ~NeedsRead
  /\ ret' = Answer(0, erid, NoRec)
  /\ erid' = Next_(erid)
  /\ UNCHANGED <<file, mode, poisoned>>

append_fails ==
  /\ MayAppend
  /\ \/ /\ NeedsRead /\ ~InFile(erid.pid)
        /\ ret' = Code(RC_INVALID_PID) /\ UNCHANGED poisoned
     \/ /\ NeedsRead /\ InFile(erid.pid) /\ "read" \in Fault
        /\ ret' = Code(RC_FILE_READ_FAILED)
        /\ poisoned' = poisoned \cup {erid.pid}
     \/ /\ Opened /\ erid.pid < SeekLimit /\ (NeedsRead => InFile(erid.pid))
        /\ mode = "r" \/ "write" \in Fault
        /\ ret' = Code(RC_FILE_WRITE_FAILED) /\ UNCHANGED poisoned
  /\ UNCHANGED <<file, mode, erid>>

\* Mutant: read admits the end record id.
ValidRidLeq(rid) == rid.pid >= 0 /\ rid.sid \in Sid /\ ~Before(erid, rid)

ValidRid(rid) == rid.pid >= 0 /\ rid.sid \in Sid /\ Before(rid, erid)

read(rid) ==
  /\ ValidRid(rid) /\ InFile(rid.pid)
  /\ \E page \in PagesRead(rid.pid) : ret' = Answer(0, rid, page.slot[rid.sid])
  /\ UNCHANGED <<file, mode, poisoned, erid>>

read_fails(rid) ==
  /\ \/ /\ ~ValidRid(rid)
        /\ ret' = Code(RC_INVALID_RID) /\ UNCHANGED poisoned
     \/ /\ ValidRid(rid) /\ ~InFile(rid.pid)
        /\ ret' = Code(RC_INVALID_PID) /\ UNCHANGED poisoned
     \/ /\ ValidRid(rid) /\ InFile(rid.pid) /\ "read" \in Fault
        /\ ret' = Code(RC_FILE_READ_FAILED)
        /\ poisoned' = poisoned \cup {rid.pid}
  /\ UNCHANGED <<file, mode, erid>>

Next ==
  \/ \E m \in {"r", "w"} : open(m)
  \/ open_fails \/ open_read_fails
  \/ close \/ Abandon
  \/ \E k \in Key, v \in Value : append(k, v)
  \/ append_unwritten \/ append_fails
  \/ \E rid \in Rid : read(rid) \/ read_fails(rid)

Spec == Init /\ [][Next]_vars

-----------------------------------------------------------------------------
(* Properties *)

\* Every variable has its type.
TypeOK ==
  /\ file \in Seq(PageRec)
  /\ mode \in {"closed", "r", "w"} /\ poisoned \subseteq Nat
  /\ erid \in [pid : Nat, sid : Sid]
  /\ ret \in [rc : RC, rid : [pid : Int, sid : Int], rec : Rec \cup {NoRec}]

\* The records of the file are contiguous: a page is full before the next one
\* starts, and no page is empty.
Packed ==
  \A i \in DOMAIN file : /\ file[i].count > 0
                         /\ i < Len(file) => file[i].count = RECORDS_PER_PAGE

HasRecord(rid) == /\ rid.pid + 1 \in DOMAIN file
                  /\ rid.sid < file[rid.pid + 1].count

\* The ids below the end record id of an open object are exactly those with a
\* record, however the object before it ended: closed, abandoned or crashed.
\* append neither leaves a gap nor writes over a record.  Only the ids it gives
\* out from the overflowing page on have none.
EridExact ==
  Opened =>
    \A rid \in [pid : 0 .. MaxPages, sid : Sid] :
      HasRecord(rid) <=> Before(rid, erid) /\ rid.pid < SeekLimit

\* The records of the file, in the order of their ids.
RecordCount ==
  IF file = << >> THEN 0
  ELSE (Len(file) - 1) * RECORDS_PER_PAGE + file[Len(file)].count
Records ==
  [n \in 1 .. RecordCount |-> file[(n - 1) \div RECORDS_PER_PAGE + 1]
                                .slot[(n - 1) % RECORDS_PER_PAGE]]

Position(rid) == rid.pid * RECORDS_PER_PAGE + rid.sid + 1

\* A stored record is never touched again, whatever fails: its slot keeps its
\* content and stays within its page's count, so the ids an index holds stay
\* good.  The exception is a page whose read failed since the object was opened:
\* the next append may write back what the cache held instead of it.
RecordsStay ==
  \A i \in DOMAIN file :
    /\ i \in DOMAIN file' /\ file'[i].count >= file[i].count
    /\ i - 1 \notin poisoned =>
         \A s \in 0 .. file[i].count - 1 : file'[i].slot[s] = file[i].slot[s]
RidsAreStable == [][RecordsStay]_vars

\* The file and its end record id are an append-only log.
Log == INSTANCE AppendLog WITH
         log <- Records,
         out <- [rc |-> ret.rc, rec |-> ret.rec,
                 at |-> IF ret.rid = NoRid THEN 0 ELSE Position(ret.rid)]
LogSpec == Log!LogSpec

=============================================================================
