------------------------- MODULE RecordFileProofs --------------------------
(***************************************************************************)
(* RecordFile for every number of slots per page and every number of       *)
(* pages: stored records stay, and an object always appends right behind   *)
(* the last one.                                                           *)
(***************************************************************************)
EXTENDS RecordFile, SequenceTheorems, TLAPS

\* Where the end record id belongs.  From the overflowing page on nothing is
\* written, and the id moves on without the file.
AtEnd == erid = IF file = << >> THEN Start ELSE EndOf(Len(file) - 1, file[Len(file)])

PastSeek == /\ erid.pid >= SeekLimit /\ Len(file) = SeekLimit
            /\ file # << >> => file[Len(file)].count = RECORDS_PER_PAGE

IInv == /\ TypeOK
        /\ Packed
        /\ Len(file) <= SeekLimit
        /\ Opened => PastSeek \/ AtEnd
        /\ "read" \notin Fault => poisoned = {}

-----------------------------------------------------------------------------
(* The values the actions build *)

LEMMA Results ==
  /\ 0 \in RC
  /\ \A rc \in RC : Code(rc) \in [rc : RC, rid : [pid : Int, sid : Int],
                                  rec : Rec \cup {NoRec}]
<1>1. NoRid \in [pid : Int, sid : Int]
  BY DEF NoRid
<1>2. QED
  BY <1>1 DEF RC, Code, Answer

LEMMA Codes ==
  /\ RC_FILE_OPEN_FAILED \in RC /\ RC_FILE_CLOSE_FAILED \in RC
  /\ RC_FILE_READ_FAILED \in RC /\ RC_FILE_WRITE_FAILED \in RC
  /\ RC_INVALID_PID \in RC /\ RC_INVALID_RID \in RC
BY DEF RC

LEMMA Ids ==
  /\ Start \in [pid : Nat, sid : Sid]
  /\ \A rid \in [pid : Nat, sid : Sid] : Next_(rid) \in [pid : Nat, sid : Sid]
  /\ \A p \in Nat, page \in PageRec : EndOf(p, page) \in [pid : Nat, sid : Sid]
BY SlotAssumption DEF Start, Next_, EndOf, Sid, PageRec

LEMMA LastPage ==
  ASSUME TypeOK, file # << >>
  PROVE  /\ Len(file) \in Nat /\ Len(file) > 0
         /\ file[Len(file)] \in PageRec
         /\ file[Len(file)].count \in 0 .. RECORDS_PER_PAGE
<1>1. Len(file) \in Nat /\ Len(file) > 0 /\ file[Len(file)] \in PageRec
  BY EmptySeq, LenProperties, ElementOfSeq DEF TypeOK
<1>2. QED
  BY <1>1 DEF PageRec

LEMMA NewPage ==
  ASSUME NEW page \in PageRec, NEW s \in Sid, NEW r \in Rec
  PROVE  /\ WithRecord(page, s, r) \in PageRec
         /\ WithRecord(page, s, r).count = s + 1
         /\ WithRecord(page, s, r).slot[s] = r
         /\ \A t \in Sid : t # s => WithRecord(page, s, r).slot[t] = page.slot[t]
BY SlotAssumption DEF WithRecord, PageRec, Sid

LEMMA ZeroPageType == ZeroPage \in PageRec
BY SlotAssumption DEF ZeroPage, PageRec, Sid, Rec

\* What a read of a page of the file returns.
LEMMA ReadType ==
  ASSUME IInv, NEW p, p + 1 \in 1 .. Len(file)
  PROVE  /\ PagesRead(p) \subseteq PageRec
         /\ p \notin poisoned => PagesRead(p) = {file[p + 1]}
<1>1. \A i \in 1 .. Len(file) : file[i] \in PageRec
  BY ElementOfSeq DEF IInv, TypeOK
<1>2. DOMAIN file = 1 .. Len(file)
  BY LenProperties DEF IInv, TypeOK
<1>3. QED
  BY <1>1, <1>2 DEF PagesRead, IInv

\* append either fills the next slot of the last page or starts a new page.
LEMMA AppendShape ==
  ASSUME IInv, NEW k \in Key, NEW v \in Value, append(k, v)
  PROVE  \E page \in PageRec :
           /\ page.count = erid.sid + 1
           /\ page.slot[erid.sid] = <<k, Stored(v)>>
           /\ erid' = Next_(erid)
           /\ \/ /\ file # << >> /\ erid.pid = Len(file) - 1
                 /\ erid.sid = file[Len(file)].count
                 /\ file' = [file EXCEPT ![Len(file)] = page]
                 /\ erid.pid \notin poisoned =>
                      \A t \in 0 .. erid.sid - 1 : page.slot[t] = file[Len(file)].slot[t]
              \/ /\ erid.sid = 0 /\ erid.pid = Len(file)
                 /\ file # << >> => file[Len(file)].count = RECORDS_PER_PAGE
                 /\ file' = Append(file, page)
<1>1. /\ AtEnd /\ erid.pid \in Nat /\ erid.sid \in Sid
      /\ <<k, Stored(v)>> \in Rec
  <2>1. erid.pid \in Nat /\ erid.sid \in Sid /\ <<k, Stored(v)>> \in Rec
    BY RecAssumption DEF IInv, TypeOK, Rec
  <2>2. AtEnd
    BY <2>1, LimitAssumption DEF append, Opened, IInv, PastSeek
  <2>3. QED
    BY <2>1, <2>2
<1>2. PICK base \in BasePages :
        file' = IF erid.pid < Len(file)
                THEN [file EXCEPT ![erid.pid + 1]
                        = WithRecord(base, erid.sid, <<k, Stored(v)>>)]
                ELSE Append(file, WithRecord(base, erid.sid, <<k, Stored(v)>>))
  BY DEF append
<1> DEFINE page == WithRecord(base, erid.sid, <<k, Stored(v)>>)
<1>3. erid' = Next_(erid)
  BY DEF append
<1>4. base \in PageRec => page.slot[erid.sid] = <<k, Stored(v)>>
  BY <1>1, NewPage
<1>5. erid.sid = 0 => base = ZeroPage
  BY <1>2 DEF BasePages, NeedsRead
<1>6. CASE file = << >>
  <2>1. erid.pid = 0 /\ erid.sid = 0 /\ Len(file) = 0
    BY <1>1, <1>6, EmptySeq DEF AtEnd, Start
  <2>2. page \in PageRec /\ page.count = erid.sid + 1
    BY <1>1, <1>5, <2>1, NewPage, ZeroPageType
  <2>3. QED
    BY <1>2, <1>3, <1>4, <1>5, <1>6, <2>1, <2>2, ZeroPageType
<1>7. CASE file # << >>
  <2> DEFINE n == Len(file)
             c == file[Len(file)].count
  <2>1. /\ n \in Nat /\ n > 0 /\ file[n] \in PageRec
        /\ c \in 0 .. RECORDS_PER_PAGE /\ c > 0
    BY <1>7, LastPage, LenProperties DEF IInv, TypeOK, Packed
  <2>2. CASE c >= RECORDS_PER_PAGE
    <3>1. erid.pid = n /\ erid.sid = 0 /\ c = RECORDS_PER_PAGE
      BY <1>1, <1>7, <2>1, <2>2, SlotAssumption DEF AtEnd, EndOf
    <3>2. page \in PageRec /\ page.count = erid.sid + 1
      BY <1>1, <1>5, <3>1, NewPage, ZeroPageType
    <3>3. page.slot[erid.sid] = <<k, Stored(v)>>
      BY <1>4, <1>5, <3>1, ZeroPageType
    <3>4. file' = Append(file, page)
      BY <1>2, <2>1, <3>1
    <3>5. file # << >> => file[Len(file)].count = RECORDS_PER_PAGE
      BY <3>1
    <3> HIDE DEF page
    <3>6. QED
      BY <1>3, <3>1, <3>2, <3>3, <3>4, <3>5
  <2>3. CASE c < RECORDS_PER_PAGE
    <3>1. erid.pid = n - 1 /\ erid.sid = c
      BY <1>1, <1>7, <2>1, <2>3, SlotAssumption DEF AtEnd, EndOf
    <3>2. base \in PagesRead(n - 1)
      BY <1>2, <2>1, <3>1 DEF BasePages, NeedsRead
    <3>3. base \in PageRec /\ (erid.pid \notin poisoned => base = file[n])
      BY <2>1, <3>1, <3>2, ReadType
    <3>4. /\ page \in PageRec /\ page.count = erid.sid + 1
          /\ \A t \in Sid : t # erid.sid => page.slot[t] = base.slot[t]
      BY <1>1, <3>3, NewPage
    <3>5. \A t \in 0 .. erid.sid - 1 : page.slot[t] = base.slot[t]
      BY <1>1, <3>4, SlotAssumption DEF Sid
    <3>6. file' = [file EXCEPT ![n] = page]
      BY <1>2, <2>1, <3>1
    <3>7. QED
      BY <1>3, <1>4, <1>7, <3>1, <3>3, <3>4, <3>5, <3>6
  <2>4. QED
    BY <2>1, <2>2, <2>3, SlotAssumption
<1>8. QED
  BY <1>6, <1>7

-----------------------------------------------------------------------------
(* The invariant *)

LEMMA InvInit == Init => IInv
<1> SUFFICES ASSUME Init PROVE IInv
  OBVIOUS
<1>1. file = << >> /\ mode = "closed" /\ poisoned = {} /\ TypeOK
  BY Results, Ids, EmptySeq DEF Init, TypeOK
<1>2. Packed
  BY <1>1, EmptySeq DEF Packed
<1>3. Len(file) <= SeekLimit
  BY <1>1, EmptySeq, LimitAssumption
<1>4. QED
  BY <1>1, <1>2, <1>3 DEF IInv, Opened

AnswerType == [rc : RC, rid : [pid : Int, sid : Int], rec : Rec \cup {NoRec}]

\* Calls that leave the file alone.
LEMMA InvSameFile ==
  ASSUME IInv, UNCHANGED file,
         mode' \in {"closed", "r", "w"},
         poisoned' \subseteq Nat, "read" \notin Fault => poisoned' = {},
         erid' \in [pid : Nat, sid : Sid],
         ret' \in AnswerType,
         Opened' => PastSeek' \/ AtEnd'
  PROVE  IInv'
BY DEF IInv, TypeOK, Packed, AnswerType

LEMMA InvOpen ==
  ASSUME IInv, NEW m \in {"r", "w"}, open(m)
  PROVE  IInv'
<1>1. AtEnd' /\ UNCHANGED file /\ poisoned' = {}
  BY DEF open, AtEnd
<1>2. erid' \in [pid : Nat, sid : Sid]
  <2>1. CASE file = << >>
    BY <2>1, Ids DEF open
  <2>2. CASE file # << >>
    <3>1. Len(file) - 1 \in Nat /\ file[Len(file)] \in PageRec
      BY <2>2, LastPage DEF IInv
    <3>2. EndOf(Len(file) - 1, file[Len(file)]) \in [pid : Nat, sid : Sid]
      BY <3>1, Ids
    <3>3. QED
      BY <2>2, <3>2 DEF open
  <2>3. QED
    BY <2>1, <2>2
<1>3. mode' = m /\ ret' \in AnswerType
  BY Results DEF open, AnswerType
<1>4. QED
  BY <1>1, <1>2, <1>3, InvSameFile

LEMMA InvClose ==
  ASSUME IInv, open_read_fails \/ close \/ Abandon
  PROVE  IInv'
<1>1. UNCHANGED file /\ mode' = "closed" /\ erid' = Start /\ poisoned' \in {poisoned, {}}
  BY DEF open_read_fails, close, Abandon
<1>2. ret' \in AnswerType
  BY Results, Codes DEF open_read_fails, close, Abandon, AnswerType
<1>3. poisoned' \subseteq Nat /\ ("read" \notin Fault => poisoned' = {})
  BY <1>1 DEF IInv, TypeOK
<1>4. QED
  BY <1>1, <1>2, <1>3, Ids, InvSameFile DEF Opened

LEMMA InvSameEnd ==
  ASSUME IInv, UNCHANGED <<file, mode, erid>>,
         poisoned' \subseteq Nat, "read" \notin Fault => poisoned' = {},
         ret' \in AnswerType
  PROVE  IInv'
<1>1. Opened' => PastSeek' \/ AtEnd'
  BY DEF IInv, AtEnd, PastSeek, Opened
<1>2. QED
  BY <1>1, InvSameFile DEF IInv, TypeOK

LEMMA InvFails ==
  ASSUME IInv, open_fails \/ append_fails
  PROVE  IInv'
<1>1. UNCHANGED <<file, mode, erid>>
  BY DEF open_fails, append_fails
<1>2. ret' \in AnswerType
  BY Results, Codes DEF open_fails, append_fails, AnswerType
<1>3. /\ poisoned' \in {poisoned, poisoned \cup {erid.pid}}
      /\ "read" \notin Fault => poisoned' = poisoned
  BY DEF open_fails, append_fails
<1>4. QED
  BY <1>1, <1>2, <1>3, InvSameEnd DEF IInv, TypeOK

LEMMA InvRead ==
  ASSUME IInv, NEW rid \in Rid, read(rid)
  PROVE  IInv'
<1>1. rid.pid + 1 \in 1 .. Len(file) /\ rid.sid \in Sid
  BY RidAssumption, LenProperties
     DEF read, ValidRid, InFile, EndPid, IInv, TypeOK
<1>2. PICK page \in PagesRead(rid.pid) : ret' = Answer(0, rid, page.slot[rid.sid])
  BY DEF read
<1>3. page.slot[rid.sid] \in Rec
  BY <1>1, <1>2, ReadType DEF PageRec
<1>4. ret' \in AnswerType
  BY <1>2, <1>3, RidAssumption, Results DEF Answer, AnswerType
<1>5. QED
  BY <1>4, InvSameEnd DEF read, IInv, TypeOK

LEMMA InvReadFails ==
  ASSUME IInv, NEW rid \in Rid, read_fails(rid)
  PROVE  IInv'
<1>1. UNCHANGED <<file, mode, erid>>
  BY DEF read_fails
<1>2. ret' \in AnswerType
  BY Results, Codes DEF read_fails, AnswerType
<1>3. /\ poisoned' = poisoned \/ (poisoned' = poisoned \cup {rid.pid} /\ rid.pid \in Nat)
      /\ "read" \notin Fault => poisoned' = poisoned
  BY RidAssumption DEF read_fails, InFile
<1>4. QED
  BY <1>1, <1>2, <1>3, InvSameEnd DEF IInv, TypeOK

LEMMA EridAnswer ==
  ASSUME IInv
  PROVE  Answer(0, erid, NoRec) \in AnswerType
BY Results, SlotAssumption DEF Answer, IInv, TypeOK, Sid, AnswerType

LEMMA InvUnwritten ==
  ASSUME IInv, append_unwritten
  PROVE  IInv'
<1>1. UNCHANGED <<file, mode, poisoned>> /\ erid' = Next_(erid) /\ ret' = Answer(0, erid, NoRec)
  BY DEF append_unwritten
<1>2. erid' \in [pid : Nat, sid : Sid] /\ erid'.pid >= erid.pid
  BY <1>1, Ids DEF IInv, TypeOK, Next_
<1>3. ASSUME Opened'
      PROVE  PastSeek'
  <2>1. Opened /\ erid.pid >= SeekLimit /\ erid.pid \in Nat /\ erid'.pid \in Nat
    BY <1>1, <1>2, <1>3 DEF append_unwritten, Opened, IInv, TypeOK
  <2>2. Len(file) \in Nat /\ Len(file) <= SeekLimit
    BY LenProperties DEF IInv, TypeOK
  <2>3. PastSeek
    <3>1. CASE PastSeek
      BY <3>1
    <3>2. CASE AtEnd /\ file = << >>
      BY <2>1, <2>2, <3>2, EmptySeq, LimitAssumption DEF AtEnd, Start, PastSeek
    <3>3. CASE AtEnd /\ file # << >>
      <4>1. Len(file) > 0 /\ file[Len(file)].count \in 0 .. RECORDS_PER_PAGE
        BY <3>3, LastPage DEF IInv
      <4>2. erid = EndOf(Len(file) - 1, file[Len(file)])
        BY <3>3 DEF AtEnd
      <4>3. QED
        BY <2>1, <2>2, <4>1, <4>2, LimitAssumption, SlotAssumption DEF EndOf, PastSeek
    <3>4. QED
      BY <2>1, <3>1, <3>2, <3>3 DEF IInv
  <2>4. QED
    BY <1>1, <1>2, <2>1, <2>3, LimitAssumption DEF PastSeek
<1>4. QED
  BY <1>1, <1>2, <1>3, EridAnswer, InvSameFile DEF IInv, TypeOK

LEMMA InvAppend ==
  ASSUME IInv, NEW k \in Key, NEW v \in Value, append(k, v)
  PROVE  IInv'
<1>1. /\ erid \in [pid : Nat, sid : Sid] /\ erid' \in [pid : Nat, sid : Sid]
      /\ mode' = mode /\ ret' = Answer(0, erid, NoRec)
      /\ poisoned' \subseteq Nat /\ ("read" \notin Fault => poisoned' = {})
  BY Ids DEF append, IInv, TypeOK
<1>2. PICK page \in PageRec :
        /\ page.count = erid.sid + 1
        /\ erid' = Next_(erid)
        /\ \/ /\ file # << >> /\ erid.pid = Len(file) - 1
              /\ erid.sid = file[Len(file)].count
              /\ file' = [file EXCEPT ![Len(file)] = page]
           \/ /\ erid.sid = 0 /\ erid.pid = Len(file)
              /\ file # << >> => file[Len(file)].count = RECORDS_PER_PAGE
              /\ file' = Append(file, page)
  BY AppendShape
<1>3. page.count \in 1 .. RECORDS_PER_PAGE
  BY <1>1, <1>2, SlotAssumption DEF Sid
<1> DEFINE n == Len(file)
<1>4. file \in Seq(PageRec) /\ n \in Nat /\ n <= SeekLimit /\ erid.pid < SeekLimit
  BY LenProperties DEF IInv, TypeOK, append
<1>5. \A i \in 1 .. n : file[i].count > 0 /\ (i < n => file[i].count = RECORDS_PER_PAGE)
  BY <1>4, LenProperties DEF IInv, Packed
<1>6. CASE file # << >> /\ erid.pid = n - 1 /\ file' = [file EXCEPT ![n] = page]
  <2>1. n > 0
    BY <1>4, <1>6, EmptySeq
  <2>2. /\ file' \in Seq(PageRec) /\ Len(file') = n /\ file'[n] = page
        /\ \A i \in 1 .. n : i # n => file'[i] = file[i]
    BY <1>4, <1>6, <2>1, ExceptSeq
  <2>3. Packed'
    BY <1>3, <1>4, <1>5, <2>2, SlotAssumption, LenProperties DEF Packed
  <2>4. AtEnd'
    <3>1. file' # << >>
      BY <2>1, <2>2, EmptySeq
    <3>2. erid' = EndOf(n - 1, page)
      BY <1>1, <1>2, <1>6 DEF Next_, EndOf
    <3>3. QED
      BY <2>2, <3>1, <3>2 DEF AtEnd
  <2>5. QED
    BY <1>1, <1>4, <2>2, <2>3, <2>4, EridAnswer DEF IInv, TypeOK, AnswerType
<1>7. CASE /\ erid.sid = 0 /\ erid.pid = n /\ file' = Append(file, page)
           /\ file # << >> => file[n].count = RECORDS_PER_PAGE
  <2>1. /\ file' \in Seq(PageRec) /\ Len(file') = n + 1 /\ file'[n + 1] = page
        /\ \A i \in 1 .. n : file'[i] = file[i]
    BY <1>4, <1>7, AppendProperties
  <2>2. n > 0 => file[n].count = RECORDS_PER_PAGE
    BY <1>7, EmptySeq
  <2>3. Packed'
    BY <1>3, <1>4, <1>5, <2>1, <2>2, SlotAssumption, LenProperties DEF Packed
  <2>4. AtEnd'
    <3>1. file' # << >>
      BY <1>4, <2>1, EmptySeq
    <3>2. erid' = EndOf(n, page)
      BY <1>1, <1>2, <1>7 DEF Next_, EndOf
    <3>3. QED
      BY <1>4, <2>1, <3>1, <3>2 DEF AtEnd
  <2>5. QED
    BY <1>1, <1>4, <1>7, <2>1, <2>3, <2>4, EridAnswer, LimitAssumption
       DEF IInv, TypeOK, AnswerType
<1>8. QED
  BY <1>2, <1>6, <1>7

LEMMA InvNext == IInv /\ [Next]_vars => IInv'
<1> SUFFICES ASSUME IInv, [Next]_vars PROVE IInv'
  OBVIOUS
<1>1. CASE UNCHANGED vars
  BY <1>1, InvSameEnd DEF vars, IInv, TypeOK, AnswerType
<1>2. CASE Next
  BY <1>2, InvOpen, InvClose, InvFails, InvAppend, InvUnwritten,
     InvRead, InvReadFails DEF Next
<1>3. QED
  BY <1>1, <1>2

-----------------------------------------------------------------------------
(* The theorems *)

THEOREM Invariance == Spec => []IInv
BY InvInit, InvNext, PTL DEF Spec

\* Every call leaves every variable in its type, erid included.
THEOREM TypeCorrect == Spec => []TypeOK
<1>1. IInv => TypeOK
  BY DEF IInv
<1>2. QED
  BY <1>1, Invariance, PTL

\* A page is full before the next one starts, whatever calls fail and wherever
\* an object is dropped: open's recovery from the last page alone relies on it.
THEOREM PagesArePacked == Spec => []Packed
<1>1. IInv => Packed
  BY DEF IInv
<1>2. QED
  BY <1>1, Invariance, PTL

\* The ids with a record are those before the end record id, up to the
\* overflowing page.
LEMMA EridAtEnd ==
  ASSUME IInv, AtEnd,
         NEW rid, rid.pid \in Nat, rid.sid \in 0 .. RECORDS_PER_PAGE - 1
  PROVE  HasRecord(rid) <=> Before(rid, erid)
<1>1. AtEnd
  OBVIOUS
<1>2. rid.pid \in Nat /\ rid.sid \in 0 .. RECORDS_PER_PAGE - 1
  OBVIOUS
<1>3. CASE file = << >>
  <2>1. ~HasRecord(rid)
    BY <1>2, <1>3, EmptySeq DEF HasRecord
  <2>2. ~Before(rid, erid)
    BY <1>1, <1>2, <1>3, SlotAssumption DEF Before, AtEnd, Start
  <2>3. QED
    BY <2>1, <2>2
<1>4. CASE file # << >>
  <2> DEFINE n == Len(file)
             c == file[n].count
  <2>1. n \in Nat /\ n > 0 /\ c \in 0 .. RECORDS_PER_PAGE
    BY <1>4, LastPage DEF IInv
  <2>2. HasRecord(rid) <=> rid.pid + 1 \in 1 .. n /\ rid.sid < file[rid.pid + 1].count
    BY LenProperties DEF HasRecord, IInv, TypeOK
  <2>3. \A i \in 1 .. n : i < n => file[i].count = RECORDS_PER_PAGE
    BY LenProperties DEF IInv, TypeOK, Packed
  <2>4. erid = EndOf(n - 1, file[n])
    BY <1>1, <1>4 DEF AtEnd
  <2>5. HasRecord(rid) <=> \/ rid.pid < n - 1
                           \/ rid.pid = n - 1 /\ rid.sid < c
    BY <1>2, <2>1, <2>2, <2>3, SlotAssumption
  <2>6. CASE c >= RECORDS_PER_PAGE
    <3>1. erid.pid = n /\ erid.sid = 0
      BY <2>4, <2>6 DEF EndOf
    <3>2. QED
      BY <1>2, <2>1, <2>5, <2>6, <3>1, SlotAssumption DEF Before
  <2>7. CASE c < RECORDS_PER_PAGE
    <3>1. erid.pid = n - 1 /\ erid.sid = c
      BY <2>1, <2>4, <2>7, SlotAssumption DEF EndOf
    <3>2. QED
      BY <1>2, <2>1, <2>5, <3>1 DEF Before
  <2>8. QED
    BY <2>1, <2>6, <2>7, SlotAssumption
<1>5. QED
  BY <1>3, <1>4

LEMMA EridPlace ==
  ASSUME IInv, Opened,
         NEW rid, rid.pid \in Nat, rid.sid \in 0 .. RECORDS_PER_PAGE - 1
  PROVE  HasRecord(rid) <=> Before(rid, erid) /\ rid.pid < SeekLimit
<1>1. /\ DOMAIN file = 1 .. Len(file) /\ Len(file) \in Nat /\ Len(file) <= SeekLimit
      /\ SeekLimit \in Nat
  BY LenProperties, LimitAssumption DEF IInv, TypeOK
<1>2. HasRecord(rid) => rid.pid < SeekLimit
  BY <1>1 DEF HasRecord
<1>3. CASE AtEnd
  BY <1>2, <1>3, EridAtEnd
<1>4. CASE PastSeek
  <2>1. erid.pid \in Nat /\ erid.pid >= SeekLimit /\ Len(file) = SeekLimit
    BY <1>4 DEF PastSeek, IInv, TypeOK
  <2>2. rid.pid < SeekLimit => Before(rid, erid)
    BY <1>1, <2>1 DEF Before
  <2>3. ASSUME rid.pid < SeekLimit
        PROVE  HasRecord(rid)
    <3>1. file # << >> /\ rid.pid + 1 \in 1 .. Len(file)
      BY <1>1, <2>1, <2>3, EmptySeq
    <3>2. file[rid.pid + 1].count = RECORDS_PER_PAGE
      BY <1>1, <1>4, <3>1 DEF IInv, Packed, PastSeek
    <3>3. QED
      BY <1>1, <3>1, <3>2, SlotAssumption DEF HasRecord
  <2>4. QED
    BY <1>2, <2>2, <2>3
<1>5. QED
  BY <1>3, <1>4 DEF IInv

\* open recovers the end of the records and append keeps it, through failures,
\* abandoned objects and up to the page at which seek() overflows; from that
\* page on append gives out ids that have no record.
THEOREM EridIsExact == Spec => []EridExact
<1>1. IInv => EridExact
  <2> SUFFICES ASSUME IInv, Opened,
                      NEW rid \in [pid : 0 .. MaxPages, sid : Sid]
               PROVE  HasRecord(rid) <=> Before(rid, erid) /\ rid.pid < SeekLimit
    BY DEF EridExact
  <2>1. rid.pid \in Nat /\ rid.sid \in 0 .. RECORDS_PER_PAGE - 1
    BY LimitAssumption DEF Sid
  <2>2. QED
    BY <2>1, EridPlace
<1>2. QED
  BY <1>1, Invariance, PTL

LEMMA Counts ==
  ASSUME TypeOK
  PROVE  /\ DOMAIN file = 1 .. Len(file) /\ Len(file) \in Nat
         /\ \A i \in 1 .. Len(file) : file[i].count \in 0 .. RECORDS_PER_PAGE
<1>1. \A i \in 1 .. Len(file) : file[i] \in PageRec
  BY ElementOfSeq DEF TypeOK
<1>2. QED
  BY <1>1, LenProperties DEF TypeOK, PageRec

LEMMA RecordsStayNext ==
  ASSUME IInv, [Next]_vars
  PROVE  [RecordsStay]_vars
<1> SUFFICES ASSUME Next PROVE RecordsStay
  BY DEF vars
<1>1. CASE UNCHANGED file
  BY <1>1, Counts, SlotAssumption DEF RecordsStay, IInv
<1>2. ASSUME NEW k \in Key, NEW v \in Value, append(k, v)
      PROVE  RecordsStay
  <2>1. PICK page \in PageRec :
          /\ page.count = erid.sid + 1
          /\ \/ /\ file # << >> /\ erid.pid = Len(file) - 1
                /\ erid.sid = file[Len(file)].count
                /\ file' = [file EXCEPT ![Len(file)] = page]
                /\ erid.pid \notin poisoned =>
                     \A t \in 0 .. erid.sid - 1 : page.slot[t] = file[Len(file)].slot[t]
             \/ file' = Append(file, page)
    BY <1>2, AppendShape
  <2>2. /\ file \in Seq(PageRec) /\ DOMAIN file = 1 .. Len(file) /\ Len(file) \in Nat
        /\ \A i \in 1 .. Len(file) : file[i].count \in Nat
    BY Counts, SlotAssumption DEF IInv, TypeOK
  <2>3. CASE file' = Append(file, page)
    <3>1. /\ Len(file') = Len(file) + 1 /\ DOMAIN file' = 1 .. Len(file')
          /\ \A i \in 1 .. Len(file) : file'[i] = file[i]
      BY <2>2, <2>3, AppendProperties, LenProperties
    <3>2. QED
      BY <2>2, <3>1 DEF RecordsStay
  <2>4. CASE /\ file # << >> /\ erid.pid = Len(file) - 1
             /\ erid.sid = file[Len(file)].count
             /\ file' = [file EXCEPT ![Len(file)] = page]
             /\ erid.pid \notin poisoned => \A t \in 0 .. erid.sid - 1 : page.slot[t] = file[Len(file)].slot[t]
    <3>1. Len(file) \in 1 .. Len(file)
      BY <2>2, <2>4, EmptySeq, LenProperties
    <3>2. /\ file' \in Seq(PageRec) /\ Len(file') = Len(file)
          /\ file'[Len(file)] = page
          /\ \A i \in 1 .. Len(file) : i # Len(file) => file'[i] = file[i]
      BY <2>2, <2>4, <3>1, ExceptSeq, Zenon
    <3>3. DOMAIN file' = DOMAIN file
      BY <2>2, <3>2, LenProperties, Zenon
    <3>4. page.count >= file[Len(file)].count
      <4>1. page.count = erid.sid + 1
        BY <2>1
      <4>2. file[Len(file)].count \in Nat
        BY <2>2, <3>1
      <4>3. QED
        BY <2>4, <4>1, <4>2
    <3>5. SUFFICES ASSUME NEW i \in 1 .. Len(file)
                   PROVE  /\ file'[i].count >= file[i].count
                          /\ i - 1 \notin poisoned =>
                               \A s \in 0 .. file[i].count - 1 :
                                 file'[i].slot[s] = file[i].slot[s]
      BY <2>2, <3>3 DEF RecordsStay
    <3>6. CASE i = Len(file)
      BY <2>4, <3>2, <3>4, <3>6, ZenonT(60)
    <3>7. CASE i # Len(file)
      <4>1. file'[i] = file[i] /\ file[i].count \in Nat
        BY <2>2, <3>2, <3>7, Zenon
      <4>2. QED
        BY <4>1
    <3>8. QED
      BY <3>6, <3>7
  <2>5. QED
    BY <2>1, <2>3, <2>4
<1>3. QED
  BY <1>1, <1>2 DEF Next, open, open_fails, open_read_fails, close, Abandon,
                    append_unwritten, append_fails, read, read_fails

\* A record that was stored keeps its place and its content for ever, whatever
\* fails: append is the only way to write, and it writes behind the last record.
\* Only a page whose read failed may lose what it had.
THEOREM RidStability == Spec => RidsAreStable
<1>1. IInv /\ [Next]_vars => [RecordsStay]_vars
  BY RecordsStayNext
<1>2. QED
  BY <1>1, Invariance, PTL DEF Spec, RidsAreStable

-----------------------------------------------------------------------------
(* RecordFile implements AppendLog *)

\* A function on 1 .. n is a sequence of length n.
LEMMA AsSeq ==
  ASSUME NEW S, NEW n \in Nat, NEW f \in [1 .. n -> S]
  PROVE  f \in Seq(S) /\ Len(f) = n /\ DOMAIN f = 1 .. n
<1>1. f \in Seq(S)
  BY SeqDef
<1>2. Len(f) \in Nat /\ 1 .. Len(f) = 1 .. n
  BY <1>1, LenProperties
<1>3. Len(f) = n
  BY <1>2
<1>4. QED
  BY <1>1, <1>3

\* The record file seen as a log: the record n of it is in slot (n - 1) modulo
\* the slots per page.
RecordShape ==
  /\ RecordCount \in Nat /\ Records \in Seq(Rec) /\ Len(Records) = RecordCount
  /\ DOMAIN Records = 1 .. RecordCount
  /\ file = << >> => RecordCount = 0
  /\ file # << >> => RecordCount = (Len(file) - 1) * RECORDS_PER_PAGE
                                   + file[Len(file)].count
  /\ \A p \in Nat, s \in Sid :
       p * RECORDS_PER_PAGE + s < RecordCount =>
         /\ p + 1 \in 1 .. Len(file)
         /\ Records[p * RECORDS_PER_PAGE + s + 1] = file[p + 1].slot[s]
  /\ \A n \in 1 .. RecordCount : \E p \in Nat, s \in Sid :
       n = p * RECORDS_PER_PAGE + s + 1

LEMMA RecordsAre == ASSUME IInv PROVE RecordShape
<1> DEFINE R == RECORDS_PER_PAGE
<1>1. R \in Nat \ {0} /\ Len(file) \in Nat /\ Sid = 0 .. R - 1
  BY SlotAssumption, LenProperties DEF IInv, TypeOK, Sid
<1>2. \A i \in 1 .. Len(file) : file[i] \in PageRec
  BY ElementOfSeq DEF IInv, TypeOK
<1>3. /\ file = << >> => RecordCount = 0
      /\ file # << >> => /\ RecordCount = (Len(file) - 1) * R + file[Len(file)].count
                         /\ file[Len(file)].count \in 0 .. R /\ Len(file) > 0
  BY LastPage DEF RecordCount, IInv
<1>4. RecordCount \in Nat
  BY <1>1, <1>3
<1>5. ASSUME NEW p \in Nat, NEW s \in Sid, p * R + s < RecordCount
      PROVE  /\ p + 1 \in 1 .. Len(file)
             /\ p + 1 < Len(file) \/ s < file[Len(file)].count
  <2>1. file # << >>
    BY <1>1, <1>3, <1>5
  <2>2. p * R + s < (Len(file) - 1) * R + file[Len(file)].count
    BY <1>3, <1>5, <2>1
  <2> HIDE DEF R
  <2>3. ASSUME p >= Len(file) PROVE FALSE
    <3>1. p * R >= (Len(file) - 1) * R + R
      BY <1>1, <2>3
    <3>2. QED
      BY <1>1, <1>3, <2>1, <2>2, <3>1
  <2>4. p + 1 = Len(file) => s < file[Len(file)].count
    BY <1>1, <1>3, <2>1, <2>2
  <2>5. QED
    BY <1>1, <2>3, <2>4
<1>6. ASSUME NEW n \in 1 .. RecordCount
      PROVE  /\ (n - 1) \div R \in Nat /\ (n - 1) % R \in Sid
             /\ n = ((n - 1) \div R) * R + ((n - 1) % R) + 1
  <2> DEFINE m == n - 1
  <2>1. m \in Nat
    BY <1>4
  <2>2. m \div R \in Nat /\ m % R \in 0 .. R - 1 /\ m = (m \div R) * R + (m % R)
    <3> HIDE DEF R, m
    <3>1. QED
      BY <1>1, <2>1
  <2>3. QED
    BY <1>1, <1>4, <2>2
<1>7. ASSUME NEW n \in 1 .. RecordCount
      PROVE  \E p \in Nat, s \in Sid :
               /\ p = (n - 1) \div R /\ s = (n - 1) % R
               /\ n = p * R + s + 1 /\ p + 1 \in 1 .. Len(file)
               /\ p + 1 < Len(file) \/ s < file[Len(file)].count
               /\ file[p + 1].slot[s] \in Rec
  <2> DEFINE p == (n - 1) \div R
             s == (n - 1) % R
  <2>1. p \in Nat /\ s \in Sid /\ n = p * R + s + 1
    BY <1>6
  <2> HIDE DEF p, s, R
  <2>2. p * R + s < RecordCount
    BY <1>1, <1>4, <2>1
  <2>3. /\ p + 1 \in 1 .. Len(file)
        /\ p + 1 < Len(file) \/ s < file[Len(file)].count
    BY <1>5, <2>1, <2>2
  <2>4. file[p + 1].slot[s] \in Rec
    BY <1>2, <2>1, <2>3 DEF PageRec
  <2>5. QED
    BY <2>1, <2>3, <2>4 DEF p, s
<1>8. Records = [n \in 1 .. RecordCount |-> file[(n - 1) \div R + 1].slot[(n - 1) % R]]
  BY DEF Records
<1>9. Records \in [1 .. RecordCount -> Rec]
  BY <1>7, <1>8
<1>10. Records \in Seq(Rec) /\ Len(Records) = RecordCount /\ DOMAIN Records = 1 .. RecordCount
  BY <1>4, <1>9, AsSeq
<1>11. ASSUME NEW p \in Nat, NEW s \in Sid, p * R + s < RecordCount
       PROVE  Records[p * R + s + 1] = file[p + 1].slot[s]
  <2> DEFINE n == p * R + s
  <2>1. n \in Nat /\ n + 1 \in 1 .. RecordCount
    BY <1>1, <1>4, <1>11
  <2>2. n \div R = p /\ n % R = s
    <3> HIDE DEF R
    <3>1. QED
      BY <1>1
  <2>3. (n + 1) - 1 = n
    BY <2>1
  <2> HIDE DEF n, R
  <2>4. Records[n + 1] = file[n \div R + 1].slot[n % R]
    BY <1>8, <2>1, <2>3
  <2>5. QED
    BY <2>2, <2>4 DEF n
<1>12. \A n \in 1 .. RecordCount : \E p \in Nat, s \in Sid : n = p * R + s + 1
  BY <1>7
<1>13. \A p \in Nat, s \in Sid : p * R + s < RecordCount =>
         p + 1 \in 1 .. Len(file) /\ Records[p * R + s + 1] = file[p + 1].slot[s]
  BY <1>5, <1>11
<1>14. QED
  BY <1>3, <1>4, <1>10, <1>12, <1>13, Zenon DEF RecordShape

LEMMA RecordsAreNext == IInv' => RecordShape'
<1>1. IInv => RecordShape
  BY RecordsAre
<1>2. QED
  BY <1>1, PTL

\* append adds the record at the end of the log and says where.
LEMMA AppendGrowsLog ==
  ASSUME "read" \notin Fault, IInv, IInv',
         NEW k \in Key, NEW v \in Value, append(k, v)
  PROVE  /\ Records' = Append(Records, <<k, Stored(v)>>)
         /\ Position(erid) = RecordCount + 1
<1> DEFINE R == RECORDS_PER_PAGE
           r == <<k, Stored(v)>>
           N == Len(file)
<1>1. R \in Nat \ {0} /\ N \in Nat /\ Sid = 0 .. R - 1 /\ file \in Seq(PageRec)
  BY SlotAssumption, LenProperties DEF IInv, TypeOK, Sid
<1>2. PICK page \in PageRec :
        /\ page.count = erid.sid + 1
        /\ page.slot[erid.sid] = r
        /\ \/ /\ file # << >> /\ erid.pid = N - 1
              /\ erid.sid = file[N].count
              /\ file' = [file EXCEPT ![N] = page]
              /\ \A t \in 0 .. erid.sid - 1 : page.slot[t] = file[N].slot[t]
           \/ /\ erid.sid = 0 /\ erid.pid = N
              /\ file # << >> => file[N].count = R
              /\ file' = Append(file, page)
  <2>1. poisoned = {}
    BY DEF IInv
  <2>2. QED
    BY <2>1, AppendShape
<1>3. erid.pid \in Nat /\ erid.sid \in Sid
  BY DEF IInv, TypeOK
<1>4. file # << >> => N > 0
  BY LastPage DEF IInv
<1>5. /\ file' # << >> /\ Len(file') = erid.pid + 1 /\ file'[erid.pid + 1] = page
      /\ RecordCount = erid.pid * R + erid.sid
      /\ \A i \in 1 .. erid.pid : file'[i] = file[i]
      /\ \A t \in 0 .. erid.sid - 1 : page.slot[t] = file[erid.pid + 1].slot[t]
  <2>1. CASE /\ file # << >> /\ erid.pid = N - 1
             /\ erid.sid = file[N].count
             /\ file' = [file EXCEPT ![N] = page]
             /\ \A t \in 0 .. erid.sid - 1 : page.slot[t] = file[N].slot[t]
    <3>1. /\ file' \in Seq(PageRec) /\ Len(file') = N /\ file'[N] = page
          /\ \A i \in 1 .. N : i # N => file'[i] = file[i]
      BY <1>1, <1>4, <2>1, ExceptSeq
    <3>2. file' # << >>
      BY <1>1, <1>4, <2>1, <3>1, EmptySeq
    <3>3. RecordCount = erid.pid * R + erid.sid
      BY <2>1, RecordsAre DEF RecordShape
    <3>4. /\ Len(file') = erid.pid + 1 /\ N = erid.pid + 1
          /\ \A i \in 1 .. erid.pid : i \in 1 .. N /\ i # N
      <4>1. N = erid.pid + 1
        BY <1>1, <2>1
      <4>2. QED
        BY <1>3, <3>1, <4>1
    <3>5. /\ file'[erid.pid + 1] = page
          /\ \A i \in 1 .. erid.pid : file'[i] = file[i]
      BY <3>1, <3>4, Zenon
    <3>6. \A t \in 0 .. erid.sid - 1 : page.slot[t] = file[erid.pid + 1].slot[t]
      BY <2>1, <3>4, Zenon
    <3>7. QED
      BY <3>2, <3>3, <3>4, <3>5, <3>6, Zenon
  <2>2. CASE /\ erid.sid = 0 /\ erid.pid = N
             /\ file # << >> => file[N].count = R
             /\ file' = Append(file, page)
    <3>1. /\ file' \in Seq(PageRec) /\ Len(file') = N + 1 /\ file'[N + 1] = page
          /\ \A i \in 1 .. N : file'[i] = file[i]
      BY <1>1, <2>2, AppendProperties
    <3>2. file' # << >>
      BY <1>1, <3>1, EmptySeq
    <3>3. RecordCount = N * R
      <4>1. CASE file = << >>
        BY <1>1, <4>1, EmptySeq, RecordsAre DEF RecordShape
      <4>2. CASE file # << >>
        <5>1. RecordCount = (N - 1) * R + R
          BY <2>2, <4>2, RecordsAre DEF RecordShape
        <5> HIDE DEF R, N
        <5>2. QED
          BY <1>1, <5>1
      <4>3. QED
        BY <4>1, <4>2
    <3>4. QED
      BY <1>1, <1>3, <2>2, <3>1, <3>2, <3>3
  <2>3. QED
    BY <1>2, <2>1, <2>2
<1> HIDE DEF R, N, r
<1>6. RecordCount' = RecordCount + 1
  <2>1. RecordCount' = (Len(file') - 1) * R + file'[Len(file')].count
    BY <1>5 DEF RecordCount, R
  <2>2. QED
    <3>1. Len(file') - 1 = erid.pid /\ file'[Len(file')].count = erid.sid + 1
      BY <1>2, <1>3, <1>5
    <3>2. RecordCount' = erid.pid * R + (erid.sid + 1)
      BY <2>1, <3>1
    <3>3. erid.pid * R \in Nat
      BY <1>1, <1>3
    <3>4. QED
      BY <1>1, <1>3, <1>5, <3>2, <3>3
<1>7. /\ RecordCount \in Nat /\ Records \in Seq(Rec) /\ Len(Records) = RecordCount
      /\ DOMAIN Records = 1 .. RecordCount
  BY RecordsAre DEF RecordShape
<1>8. /\ Records' \in Seq(Rec) /\ DOMAIN Records' = 1 .. RecordCount + 1
  <2>1. /\ Records' \in Seq(Rec) /\ DOMAIN Records' = 1 .. RecordCount'
    BY RecordsAreNext DEF RecordShape
  <2>2. QED
    BY <1>6, <2>1
<1>9. \A p \in Nat, s \in Sid :
        p * R + s < RecordCount => Records[p * R + s + 1] = file[p + 1].slot[s]
  BY RecordsAre DEF RecordShape, R
<1>10. \A p \in Nat, s \in Sid :
        p * R + s < RecordCount' => Records'[p * R + s + 1] = file'[p + 1].slot[s]
  BY RecordsAreNext DEF RecordShape, R
<1>11. Records'[RecordCount + 1] = r
  <2>1. erid.pid * R + erid.sid < RecordCount'
    BY <1>5, <1>6, <1>7
  <2>2. Records'[erid.pid * R + erid.sid + 1] = file'[erid.pid + 1].slot[erid.sid]
    BY <1>3, <1>10, <2>1
  <2>3. QED
    BY <1>2, <1>5, <2>2
<1>12. ASSUME NEW n \in 1 .. RecordCount
       PROVE  Records'[n] = Records[n]
  <2>1. PICK p \in Nat, s \in Sid : n = p * R + s + 1
    BY RecordsAre DEF RecordShape, R
  <2>2. Records[n] = file[p + 1].slot[s] /\ Records'[n] = file'[p + 1].slot[s]
    <3>1. p * R + s < RecordCount /\ p * R + s < RecordCount'
      BY <1>1, <1>6, <1>7, <2>1
    <3>2. QED
      BY <1>9, <1>10, <2>1, <3>1
  <2>3. p * R + s < erid.pid * R + erid.sid
    BY <1>1, <1>5, <1>7, <2>1
  <2>4. p < erid.pid \/ (p = erid.pid /\ s < erid.sid)
    <3>1. ASSUME p > erid.pid PROVE FALSE
      <4>1. p * R >= erid.pid * R + R
        BY <1>1, <1>3, <3>1
      <4>2. QED
        BY <1>1, <1>3, <2>3, <4>1
    <3>2. QED
      BY <1>1, <1>3, <2>3, <3>1
  <2>5. file'[p + 1].slot[s] = file[p + 1].slot[s]
    <3>1. CASE p < erid.pid
      <4>1. p + 1 \in 1 .. erid.pid
        BY <1>3, <3>1
      <4>2. QED
        BY <1>5, <4>1
    <3>2. CASE p = erid.pid /\ s < erid.sid
      <4>1. s \in 0 .. erid.sid - 1
        BY <1>1, <1>3, <3>2
      <4>2. QED
        BY <1>5, <3>2, <4>1
    <3>3. QED
      BY <2>4, <3>1, <3>2
  <2>6. QED
    BY <2>2, <2>5
<1>13. r \in Rec
  BY RecAssumption DEF r, Rec
<1>14. Records' = Append(Records, r)
  <2>1. /\ Append(Records, r) \in Seq(Rec) /\ Len(Append(Records, r)) = RecordCount + 1
        /\ \A i \in 1 .. RecordCount : Append(Records, r)[i] = Records[i]
        /\ Append(Records, r)[RecordCount + 1] = r
    BY <1>7, <1>13, AppendProperties
  <2>2. Len(Records') = RecordCount + 1
    BY <1>7, <1>8, LenProperties
  <2>3. \A i \in 1 .. Len(Records') : Records'[i] = Append(Records, r)[i]
    BY <1>7, <1>11, <1>12, <2>1, <2>2
  <2>4. QED
    BY <1>8, <2>1, <2>2, <2>3, SeqEqual
<1>15. QED
  BY <1>5, <1>14 DEF Position, R, r

\* What a call says about the log, seen from the log.
Out == [rc |-> ret.rc, rec |-> ret.rec,
        at |-> IF ret.rid = NoRid THEN 0 ELSE Position(ret.rid)]

LEMMA LogOtherStep ==
  ASSUME NEW rc \in RC, UNCHANGED file, ret' = Code(rc)
  PROVE  Log!LogOther
<1>1. UNCHANGED Records
  BY DEF Records, RecordCount
<1>2. Out' = [rc |-> rc, at |-> 0, rec |-> NoRec]
  BY DEF Out, Code, Answer
<1>3. \E c \in RC : Out' = [rc |-> c, at |-> 0, rec |-> NoRec]
  BY <1>2
<1>4. Log!RC = RC
  BY DEF Log!RC, RC, Log!RC_FILE_OPEN_FAILED, Log!RC_FILE_CLOSE_FAILED,
         Log!RC_FILE_READ_FAILED, Log!RC_FILE_WRITE_FAILED,
         Log!RC_INVALID_PID, Log!RC_INVALID_RID, Log!RC_NODE_FULL,
         Log!RC_INVALID_CURSOR, Log!RC_NO_SUCH_RECORD, Log!SEEK_FAILED_RC,
         RC_FILE_OPEN_FAILED, RC_FILE_CLOSE_FAILED, RC_FILE_READ_FAILED,
         RC_FILE_WRITE_FAILED, RC_INVALID_PID, RC_INVALID_RID, RC_NODE_FULL,
         RC_INVALID_CURSOR, RC_NO_SUCH_RECORD, SEEK_FAILED_RC
<1>5. QED
  BY <1>1, <1>3, <1>4, Zenon DEF Log!LogOther, Log!Said, Out

\* A read of a record below the end returns that record of the log.
LEMMA ReadStep ==
  ASSUME "read" \notin Fault, IInv,
         NEW rid \in Rid, read(rid)
  PROVE  \E n \in DOMAIN Records : Log!LogRead(n)
<1> DEFINE R == RECORDS_PER_PAGE
<1>1. R \in Nat \ {0} /\ Sid = 0 .. R - 1 /\ DOMAIN file = 1 .. Len(file) /\ Len(file) \in Nat
  BY SlotAssumption, LenProperties DEF Sid, IInv, TypeOK
<1>2. /\ rid.pid \in Nat /\ rid.sid \in Sid /\ rid.pid < Len(file) /\ Opened
      /\ Before(rid, erid)
  BY RidAssumption, <1>1 DEF read, ValidRid, InFile, EndPid
<1>3. PagesRead(rid.pid) = {file[rid.pid + 1]}
  <2>1. rid.pid + 1 \in 1 .. Len(file)
    BY <1>1, <1>2
  <2>2. rid.pid \notin poisoned
    BY DEF IInv
  <2>3. QED
    BY <2>1, <2>2, ReadType
<1>4. ret' = Answer(0, rid, file[rid.pid + 1].slot[rid.sid])
  BY <1>3 DEF read
<1>5. HasRecord(rid)
  <2>1. rid.pid \in Nat /\ rid.sid \in 0 .. RECORDS_PER_PAGE - 1
    BY <1>1, <1>2
  <2>2. HasRecord(rid) <=> Before(rid, erid) /\ rid.pid < SeekLimit
    BY <1>2, <2>1, EridPlace
  <2>3. rid.pid < SeekLimit
    BY <1>1, <1>2, LimitAssumption DEF IInv
  <2>4. QED
    BY <1>2, <2>2, <2>3
<1>6. rid.sid < file[rid.pid + 1].count
  BY <1>5 DEF HasRecord
<1>7. /\ RecordCount \in Nat /\ DOMAIN Records = 1 .. RecordCount
      /\ RecordCount = (Len(file) - 1) * R + file[Len(file)].count
      /\ file[Len(file)].count \in 0 .. R
      /\ \A p \in Nat, s \in Sid :
           p * R + s < RecordCount => Records[p * R + s + 1] = file[p + 1].slot[s]
  <2>1. file # << >>
    BY <1>2, EmptySeq
  <2>2. QED
    BY <2>1, RecordsAre, LastPage DEF RecordShape, R, IInv
<1>8. rid.pid * R + rid.sid < RecordCount
  <2> HIDE DEF R
  <2>1. CASE rid.pid + 1 = Len(file)
    <3>1. rid.pid = Len(file) - 1 /\ rid.sid < file[Len(file)].count
      BY <1>1, <1>2, <1>6, <2>1
    <3>2. RecordCount = rid.pid * R + file[Len(file)].count
      BY <1>7, <3>1
    <3>3. QED
      BY <1>1, <1>2, <1>7, <3>1, <3>2
  <2>2. CASE rid.pid + 1 < Len(file)
    <3>1. rid.pid * R + R <= (Len(file) - 1) * R
      BY <1>1, <1>2, <2>2
    <3>2. QED
      BY <1>1, <1>2, <1>7, <3>1
  <2>3. QED
    BY <1>1, <1>2, <2>1, <2>2
<1> DEFINE n == Position(rid)
<1>9. n \in DOMAIN Records /\ Records[n] = file[rid.pid + 1].slot[rid.sid]
  <2>1. n = rid.pid * R + rid.sid + 1 /\ rid.pid * R + rid.sid \in Nat
    BY <1>1, <1>2 DEF Position
  <2>2. QED
    BY <1>2, <1>7, <1>8, <2>1
<1>10. rid # NoRid
  BY <1>2 DEF NoRid
<1>11. UNCHANGED Records
  BY DEF read, Records, RecordCount
<1>12. Out' = [rc |-> 0, at |-> n, rec |-> Records[n]]
  BY <1>4, <1>9, <1>10 DEF Out, Answer, Position
<1>13. Log!LogRead(n)
  BY <1>11, <1>12 DEF Log!LogRead, Log!Said, Out
<1>14. QED
  BY <1>9, <1>13

LEMMA AppendStep ==
  ASSUME "read" \notin Fault, IInv, IInv',
         NEW k \in Key, NEW v \in Value, append(k, v)
  PROVE  Log!LogAppend(<<k, Stored(v)>>) /\ <<k, Stored(v)>> \in Rec
<1>1. /\ Records' = Append(Records, <<k, Stored(v)>>)
      /\ Position(erid) = Len(Records) + 1
  BY AppendGrowsLog, RecordsAre DEF RecordShape
<1>2. ret' = Answer(0, erid, NoRec) /\ erid # NoRid
  BY DEF append, NoRid, IInv, TypeOK
<1>3. Out' = [rc |-> 0, at |-> Len(Records) + 1, rec |-> NoRec]
  BY <1>1, <1>2 DEF Out, Answer, Position
<1>4. <<k, Stored(v)>> \in Rec
  BY RecAssumption DEF Rec
<1>5. QED
  BY <1>1, <1>3, <1>4 DEF Log!LogAppend, Log!Said, Out

LEMMA LogNextStep ==
  ASSUME "read" \notin Fault, "open" \notin Fault, MaxPages <= SeekLimit,
         IInv, IInv', Next
  PROVE  Log!LogNext
<1>1. ASSUME NEW m \in {"r", "w"}, open(m)
      PROVE  Log!LogOther
  BY <1>1, Results, LogOtherStep DEF open
<1>2. ASSUME open_fails \/ open_read_fails \/ close \/ Abandon
      PROVE  Log!LogOther
  BY <1>2, Results, Codes, LogOtherStep DEF open_fails, open_read_fails, close, Abandon
<1>3. ASSUME NEW k \in Key, NEW v \in Value, append(k, v)
      PROVE  \E r \in Rec : Log!LogAppend(r)
  BY <1>3, AppendStep
<1>4. ~append_unwritten
  BY LimitAssumption DEF append_unwritten, MayAppend, IInv, TypeOK
<1>5. ASSUME append_fails
      PROVE  Log!LogOther
  BY <1>5, Codes, LogOtherStep DEF append_fails
<1>6. ASSUME NEW rid \in Rid, read(rid)
      PROVE  \E n \in DOMAIN Records : Log!LogRead(n)
  BY <1>6, ReadStep
<1>7. ASSUME NEW rid \in Rid, read_fails(rid)
      PROVE  Log!LogOther
  BY <1>7, Codes, LogOtherStep DEF read_fails
<1>8. QED
  BY <1>1, <1>2, <1>3, <1>4, <1>5, <1>6, <1>7 DEF Next, Log!LogNext

\* A record file is an append-only log, whatever the sizes and whichever calls
\* fail: a successful append adds its record at the end and returns its place,
\* a successful read returns the record stored at that place, and nothing else
\* changes the log.  Reads of pages must not fail, callers must not append to an
\* object that open refused, and the file ends before seek() overflows.
THEOREM ImplementsLog ==
  ASSUME "read" \notin Fault, "open" \notin Fault, MaxPages <= SeekLimit
  PROVE  Spec => LogSpec
<1>1. Init => Log!LogInit
  <2> SUFFICES ASSUME Init PROVE Log!LogInit
    OBVIOUS
  <2>1. RecordCount = 0 /\ 1 .. 0 = {}
    BY DEF Init, RecordCount
  <2>2. Records = << >>
    BY <2>1 DEF Records
  <2>3. QED
    BY <2>2 DEF Init, Log!LogInit, Log!Said, Code, Answer
<1>2. IInv /\ IInv' /\ [Next]_vars => [Log!LogNext]_<<Records, Out>>
  <2> SUFFICES ASSUME IInv, IInv', [Next]_vars
               PROVE  [Log!LogNext]_<<Records, Out>>
    OBVIOUS
  <2>1. CASE UNCHANGED vars
    BY <2>1 DEF vars, Records, RecordCount, Out
  <2>2. QED
    BY <2>1, LogNextStep
<1>3. QED
  BY <1>1, <1>2, Invariance, PTL DEF Spec, LogSpec, Log!LogSpec, Out

=============================================================================
