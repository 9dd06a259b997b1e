--------------------------- MODULE PageFileProofs --------------------------
(***************************************************************************)
(* PageFile's cache is coherent: for every number of files, objects,       *)
(* descriptors and slots, and whatever the clock does when it runs over.   *)
(***************************************************************************)
EXTENDS PageFile, SequenceTheorems, TLAPS

-----------------------------------------------------------------------------
(* The values the actions build *)

LEMMA PutProperties ==
  ASSUME NEW s \in Seq(Page), NEW p \in Nat, NEW d \in Page
  PROVE  /\ Put(s, p, d) \in Seq(Page)
         /\ Len(Put(s, p, d)) = IF p + 1 > Len(s) THEN p + 1 ELSE Len(s)
         /\ \A i \in 1 .. Len(s) : i # p + 1 => Put(s, p, d)[i] = s[i]
         /\ Put(s, p, d)[p + 1] = d
<1> DEFINE n == IF p + 1 > Len(s) THEN p + 1 ELSE Len(s)
<1>1. n \in Nat /\ Len(s) \in Nat /\ p + 1 \in 1 .. n
  OBVIOUS
<1>2. \A i \in 1 .. n : (IF i = p + 1 THEN d ELSE
                         IF i <= Len(s) THEN s[i] ELSE ZeroPage) \in Page
  BY PageAssumption
<1>3. Put(s, p, d) \in [1 .. n -> Page]
  BY <1>2 DEF Put
<1>4. Put(s, p, d) \in Seq(Page)
  BY <1>1, <1>3, SeqDef
<1>5. Len(Put(s, p, d)) = n
  BY <1>1, <1>3, <1>4, LenProperties
<1>6. QED
  BY <1>1, <1>3, <1>4, <1>5 DEF Put

LEMMA Results ==
  /\ 0 \in RC
  /\ \A rc \in RC : Code(rc) \in Result
  /\ \A h \in PF, p \in Pid, d \in Page : Data(h, p, d) \in Result
  /\ \A rc, h, p : Code(rc).of # <<h, p>>
  /\ \A h, p, d : Data(h, p, d).of = <<h, p>> /\ Data(h, p, d).data = d
<1>1. 0 \in RC
  BY DEF RC
<1>2. \A rc \in RC : Code(rc) \in Result
  BY DEF Code, Result
<1>3. \A h \in PF, p \in Pid, d \in Page : Data(h, p, d) \in Result
  BY <1>1 DEF Data, Result
<1>4. \A rc, h, p : Code(rc).of # <<h, p>>
  BY DEF Code
<1>5. QED
  BY <1>1, <1>2, <1>3, <1>4 DEF Data

LEMMA Codes ==
  /\ RC_FILE_OPEN_FAILED \in RC /\ RC_FILE_CLOSE_FAILED \in RC
  /\ RC_FILE_READ_FAILED \in RC
BY DEF RC

\* An emptied slot speaks for no page.
LEMMA EvictProperties ==
  ASSUME readCache \in [Slot -> CacheSlot], NEW S, Evict(S)
  PROVE  /\ readCache' \in [Slot -> CacheSlot]
         /\ \A i \in Slot : i \in S => readCache'[i].lastAccessed = 0
         /\ \A i \in Slot : i \notin S => readCache'[i] = readCache[i]
<1>1. \A i \in Slot : Emptied(readCache[i]) \in CacheSlot
  BY DEF Emptied, CacheSlot
<1>2. QED
  BY <1>1 DEF Evict, Emptied

LEMMA TickInt == cacheClock \in Int => Tick \in Int
BY CacheAssumption DEF Tick

\* What an open object is bound to.
LEMMA OpenObject ==
  ASSUME TypeOK, NEW h \in PF, fd[h] # -1
  PROVE  /\ fd[h] \in Fd /\ FileOf(h) = fdTable[fd[h]].file
         /\ FileOf(h) \in File \cup {NoFile}
BY DEF TypeOK, FileOf, FdEntry

LEMMA ClosedFdEntry == ClosedFd \in FdEntry /\ ClosedFd.file = NoFile
BY DEF ClosedFd, FdEntry

-----------------------------------------------------------------------------
(* Types, ownership and the end of a file hold together: that a page read  *)
(* from the disk is a page needs p < epid = length of the file, and that   *)
(* needs the file to be open through one object.                           *)

Base == TypeOK /\ Ownership /\ EpidExact

LEMMA BaseInit == Init => Base
<1> SUFFICES ASSUME Init PROVE Base
  OBVIOUS
<1>1. TypeOK
  BY FdAssumption, CacheAssumption, PageAssumption, ClosedFdEntry, Results
     DEF Init, TypeOK, EmptySlot, CacheSlot
<1>2. QED
  BY <1>1 DEF Init, Base, Ownership, EpidExact

\* Calls that touch neither the kernel nor an object.
LEMMA BaseUnchanged ==
  ASSUME Base, UNCHANGED <<kernelVars, objVars>>,
         readCache' \in [Slot -> CacheSlot], cacheClock' \in Int, ret' \in Result
  PROVE  Base'
BY DEF Base, TypeOK, Ownership, EpidExact, FileOf, kernelVars, objVars

LEMMA BaseOpen ==
  ASSUME Base, NEW h \in PF, NEW f \in File, NEW w \in BOOLEAN, pf_open(h, f, w)
  PROVE  Base'
<1> USE FdAssumption
<1>1. PICK d \in Fd : /\ LowestFree(d)
                      /\ fdTable' = [fdTable EXCEPT ![d] = [file |-> f, writable |-> w]]
                      /\ fd' = [fd EXCEPT ![h] = d]
  BY DEF pf_open
<1>2. /\ [file |-> f, writable |-> w] \in FdEntry
      /\ Len(disk[f]) \in Nat /\ epid' = [epid EXCEPT ![h] = Len(disk[f])]
      /\ UNCHANGED <<disk, readCache, cacheClock>> /\ ret' \in Result
  BY LenProperties, Results DEF Base, TypeOK, pf_open, FdEntry, cacheVars
<1>3. TypeOK'
  BY <1>1, <1>2 DEF Base, TypeOK
<1>4. fdTable[d].file = NoFile /\ d # -1
  BY <1>1, ClosedFdEntry DEF LowestFree
<1>5. FileOf(h)' = f /\ fd'[h] = d
  BY <1>1, <1>4 DEF FileOf, Base, TypeOK
<1>6. ASSUME NEW g \in PF, g # h
      PROVE  FileOf(g)' = FileOf(g) /\ fd'[g] = fd[g] /\ (fd[g] # -1 => fd[g] # d)
  <2>1. fd[g] # -1 => fd[g] # d
    BY <1>4, <1>6, OpenObject DEF Base, Ownership
  <2>2. QED
    BY <1>1, <1>6, <2>1, OpenObject DEF FileOf, Base, TypeOK
<1>7. \A g \in PF : FileOf(g) # f
  BY DEF pf_open, Exclusive
<1>8. Ownership'
  BY <1>5, <1>6, <1>7 DEF Base, Ownership
<1>9. EpidExact'
  BY <1>2, <1>5, <1>6 DEF Base, EpidExact, TypeOK
<1>10. QED
  BY <1>3, <1>8, <1>9 DEF Base

LEMMA BaseClose ==
  ASSUME Base, NEW h \in PF, pf_close(h)
  PROVE  Base'
<1>1. fd[h] \in Fd
  BY FdAssumption DEF Base, TypeOK, pf_close
<1>2. TypeOK'
  BY <1>1, EvictProperties, Results, ClosedFdEntry DEF Base, TypeOK, pf_close
<1>3. \A g \in PF : g # h => FileOf(g)' = FileOf(g) /\ fd'[g] = fd[g]
  BY <1>1, OpenObject, FdAssumption DEF Base, TypeOK, Ownership, FileOf, pf_close
<1>4. fd'[h] = -1 /\ FileOf(h)' = NoFile
  BY DEF Base, TypeOK, FileOf, pf_close
<1>5. Ownership'
  BY <1>3, <1>4, FdAssumption DEF Base, Ownership
<1>6. EpidExact'
  BY <1>3, <1>4 DEF Base, TypeOK, EpidExact, pf_close
<1>7. QED
  BY <1>2, <1>5, <1>6 DEF Base

LEMMA BaseAbandon ==
  ASSUME Base, NEW h \in PF, Abandon(h)
  PROVE  Base'
<1>1. TypeOK'
  BY Results DEF Base, TypeOK, Abandon, kernelVars, cacheVars
<1>2. /\ \A g \in PF : g # h => FileOf(g)' = FileOf(g) /\ fd'[g] = fd[g]
      /\ fd'[h] = -1 /\ FileOf(h)' = NoFile
  BY DEF Base, TypeOK, FileOf, Abandon, kernelVars
<1>3. Ownership'
  BY <1>2, FdAssumption DEF Base, Ownership
<1>4. EpidExact'
  BY <1>2 DEF Base, TypeOK, EpidExact, Abandon, kernelVars
<1>5. QED
  BY <1>1, <1>3, <1>4 DEF Base

LEMMA BaseWrite ==
  ASSUME Base, NEW h \in PF, NEW p \in Pid, NEW d \in Page, pf_write(h, p, d)
  PROVE  Base'
<1>1. p \in Nat /\ fd[h] # -1
  BY PidAssumption DEF pf_write, SeekFails
<1>2. FileOf(h) \in File
  BY <1>1 DEF Base, Ownership
<1>3. /\ disk[FileOf(h)] \in Seq(Page) /\ epid[h] \in Nat
      /\ epid[h] = Len(disk[FileOf(h)])
  BY <1>1, <1>2 DEF Base, TypeOK, EpidExact
<1>4. /\ Put(disk[FileOf(h)], p, d) \in Seq(Page)
      /\ Len(Put(disk[FileOf(h)], p, d))
           = IF p + 1 > Len(disk[FileOf(h)]) THEN p + 1 ELSE Len(disk[FileOf(h)])
  BY <1>1, <1>3, PutProperties
<1>5. /\ Len(Put(disk[FileOf(h)], p, d)) = EndAfter(h, p)
      /\ EndAfter(h, p) \in Nat
  BY <1>1, <1>3, <1>4 DEF EndAfter
<1>6. TypeOK'
  BY <1>2, <1>4, <1>5, EvictProperties, Results DEF Base, TypeOK, pf_write
<1>7. \A g \in PF : FileOf(g)' = FileOf(g) /\ fd'[g] = fd[g]
  BY DEF FileOf, pf_write
<1>8. Ownership'
  BY <1>7 DEF Base, Ownership
<1>9. EpidExact'
  BY <1>1, <1>2, <1>5, <1>7 DEF Base, TypeOK, EpidExact, Ownership, pf_write
<1>10. QED
  BY <1>6, <1>8, <1>9 DEF Base

\* What a miss reads from the disk is a page of the file.
LEMMA MissReadsPage ==
  ASSUME Base, NEW h \in PF, NEW p \in Pid, pf_read_miss(h, p)
  PROVE  /\ p \in Nat /\ fd[h] \in Fd
         /\ p + 1 \in DOMAIN disk[FileOf(h)] /\ disk[FileOf(h)][p + 1] \in Page
<1>1. p \in Nat /\ fd[h] # -1 /\ p < epid[h]
  BY PidAssumption DEF pf_read_miss, InFile, SeekFails
<1>2. FileOf(h) \in File /\ epid[h] = Len(disk[FileOf(h)]) /\ fd[h] \in Fd
  BY <1>1 DEF Base, Ownership, EpidExact, TypeOK
<1>3. disk[FileOf(h)] \in Seq(Page)
  BY <1>2 DEF Base, TypeOK
<1>4. QED
  BY <1>1, <1>2, <1>3, ElementOfSeq, LenProperties

\* What a miss does to the cache: slot i is claimed, with the page in it if the
\* read succeeds and with its old buffer if not.
LEMMA MissShape ==
  ASSUME Base, NEW h \in PF, NEW p \in Pid, pf_read_miss(h, p)
  PROVE  \E i \in Slot, ok \in BOOLEAN, buf \in Page :
           /\ readCache' = [readCache EXCEPT ![i] =
                [fd |-> fd[h], pid |-> p, lastAccessed |-> Tick, buffer |-> buf]]
           /\ ret' = IF ok THEN Data(h, p, buf) ELSE Code(RC_FILE_READ_FAILED)
           /\ ok => buf = disk[FileOf(h)][p + 1]
           /\ ~ok => "read" \in Fault
<1> DEFINE Buf(i, ok) == IF ok THEN disk[FileOf(h)][p + 1] ELSE readCache[i].buffer
<1>1. PICK i \in Slot, ok \in BOOLEAN :
        /\ ~ok => "read" \in Fault
        /\ readCache' = [readCache EXCEPT ![i] =
             [fd |-> fd[h], pid |-> p, lastAccessed |-> Tick, buffer |-> Buf(i, ok)]]
        /\ ret' = IF ok THEN Data(h, p, Buf(i, ok)) ELSE Code(RC_FILE_READ_FAILED)
  BY DEF pf_read_miss
<1>2. Buf(i, ok) \in Page
  BY MissReadsPage DEF Base, TypeOK, CacheSlot
<1>3. ok => Buf(i, ok) = disk[FileOf(h)][p + 1]
  OBVIOUS
<1> HIDE DEF Buf
<1>4. QED
  BY <1>1, <1>2, <1>3

LEMMA BaseReadMiss ==
  ASSUME Base, NEW h \in PF, NEW p \in Pid, pf_read_miss(h, p)
  PROVE  Base'
<1>1. PICK i \in Slot, ok \in BOOLEAN, buf \in Page :
        /\ readCache' = [readCache EXCEPT ![i] =
             [fd |-> fd[h], pid |-> p, lastAccessed |-> Tick, buffer |-> buf]]
        /\ ret' = IF ok THEN Data(h, p, buf) ELSE Code(RC_FILE_READ_FAILED)
  BY MissShape
<1>2. [fd |-> fd[h], pid |-> p, lastAccessed |-> Tick, buffer |-> buf] \in CacheSlot
  BY MissReadsPage, TickInt DEF Base, TypeOK, CacheSlot
<1>3. readCache' \in [Slot -> CacheSlot]
  BY <1>1, <1>2 DEF Base, TypeOK
<1>4. ret' \in Result
  BY <1>1, Results, Codes
<1>5. QED
  BY <1>3, <1>4, BaseUnchanged, TickInt DEF Base, TypeOK, pf_read_miss

LEMMA BaseReadHit ==
  ASSUME Base, NEW h \in PF, NEW p \in Pid, pf_read_hit(h, p)
  PROVE  Base'
<1>1. PICK i \in Slot :
        /\ readCache' = [readCache EXCEPT ![i].lastAccessed = Tick]
        /\ ret' = Data(h, p, readCache[i].buffer)
  BY DEF pf_read_hit
<1>2. readCache' \in [Slot -> CacheSlot] /\ readCache[i].buffer \in Page
  BY <1>1, TickInt DEF Base, TypeOK, CacheSlot
<1>3. QED
  BY <1>1, <1>2, BaseUnchanged, TickInt, Results DEF Base, TypeOK, pf_read_hit

LEMMA BaseCallFails ==
  ASSUME Base, NEW h \in PF, pf_open_fails(h) \/ pf_close_fails(h)
  PROVE  Base'
<1>1. UNCHANGED <<kernelVars, objVars, cacheVars>> /\ ret' \in Result
  BY Results, Codes DEF pf_open_fails, pf_close_fails
<1>2. QED
  BY <1>1, BaseUnchanged DEF Base, TypeOK, cacheVars

LEMMA BasePageFails ==
  ASSUME Base, NEW h \in PF, NEW p \in Pid,
         pf_write_fails(h, p) \/ pf_read_fails(h, p)
  PROVE  Base'
<1>1. UNCHANGED <<kernelVars, objVars, cacheVars>> /\ ret' \in Result
  BY Results, Codes DEF pf_write_fails, pf_read_fails
<1>2. QED
  BY <1>1, BaseUnchanged DEF Base, TypeOK, cacheVars

-----------------------------------------------------------------------------
(* The cache.  Coherence is not inductive by itself: pf_write stops at the *)
(* first slot it invalidates, which is enough because a page has one slot, *)
(* and pf_open trusts that no slot speaks for the descriptor it is given.  *)
(* A failed read(2) breaks coherence and nothing else.                     *)

Coherent == "read" \notin Fault => CacheCoherent
CacheInv == OneSlotPerPage /\ NoCachedFreeFd /\ Coherent
IInv == Base /\ CacheInv

LEMMA CacheInit == Init => CacheInv
BY DEF Init, CacheInv, OneSlotPerPage, NoCachedFreeFd, Coherent, CacheCoherent, EmptySlot

\* Steps that leave the cache, the files and the bindings alone.
LEMMA CacheUnchanged ==
  ASSUME CacheInv, UNCHANGED <<kernelVars, objVars, cacheVars>>
  PROVE  CacheInv'
BY DEF CacheInv, OneSlotPerPage, NoCachedFreeFd, Coherent, CacheCoherent, FileOf,
       kernelVars, objVars, cacheVars

LEMMA CacheOpen ==
  ASSUME IInv, NEW h \in PF, NEW f \in File, NEW w \in BOOLEAN, pf_open(h, f, w)
  PROVE  CacheInv'
<1> USE FdAssumption
<1>1. PICK d \in Fd : /\ LowestFree(d)
                      /\ fdTable' = [fdTable EXCEPT ![d] = [file |-> f, writable |-> w]]
                      /\ fd' = [fd EXCEPT ![h] = d]
  BY DEF pf_open
<1>2. fdTable[d].file = NoFile /\ UNCHANGED <<disk, readCache>>
  BY <1>1, ClosedFdEntry DEF LowestFree, pf_open, cacheVars
<1>3. \A i \in Slot : readCache[i].lastAccessed # 0 => readCache[i].fd # d
  BY <1>2 DEF IInv, CacheInv, NoCachedFreeFd
<1>4. OneSlotPerPage'
  BY <1>2 DEF IInv, CacheInv, OneSlotPerPage
<1>5. NoCachedFreeFd'
  BY <1>1, <1>2 DEF IInv, CacheInv, NoCachedFreeFd, Base, TypeOK
<1>6. \A g \in PF : g # h => FileOf(g)' = FileOf(g) /\ fd'[g] = fd[g]
  BY <1>1, <1>2, OpenObject DEF FileOf, IInv, Base, TypeOK, Ownership
<1>7. fd'[h] = d
  BY <1>1 DEF IInv, Base, TypeOK
<1>8. Coherent'
  BY <1>2, <1>3, <1>6, <1>7 DEF IInv, CacheInv, Coherent, CacheCoherent
<1>9. QED
  BY <1>4, <1>5, <1>8 DEF CacheInv

LEMMA CacheClose ==
  ASSUME IInv, NEW h \in PF, pf_close(h)
  PROVE  CacheInv'
<1>1. fd[h] \in Fd /\ Evict(CachedFor(h)) /\ UNCHANGED disk
  BY FdAssumption DEF IInv, Base, TypeOK, pf_close
<1>2. \A i \in Slot : readCache'[i].lastAccessed # 0 =>
        readCache'[i] = readCache[i] /\ readCache[i].fd # fd[h]
  BY <1>1, EvictProperties DEF IInv, Base, TypeOK, CachedFor
<1>3. OneSlotPerPage'
  BY <1>2 DEF IInv, CacheInv, OneSlotPerPage
<1>4. \A e \in Fd : e # fd[h] => fdTable'[e] = fdTable[e]
  BY DEF IInv, Base, TypeOK, pf_close
<1>5. NoCachedFreeFd'
  BY <1>2, <1>4 DEF IInv, CacheInv, NoCachedFreeFd
<1>6. \A g \in PF : g # h => FileOf(g)' = FileOf(g) /\ fd'[g] = fd[g]
  BY <1>1, OpenObject, FdAssumption
     DEF IInv, Base, TypeOK, Ownership, FileOf, pf_close
<1>7. fd'[h] = -1
  BY DEF IInv, Base, TypeOK, pf_close
<1>8. Coherent'
  BY <1>1, <1>2, <1>6, <1>7 DEF IInv, CacheInv, Coherent, CacheCoherent
<1>9. QED
  BY <1>3, <1>5, <1>8 DEF CacheInv

LEMMA CacheAbandon ==
  ASSUME IInv, NEW h \in PF, Abandon(h)
  PROVE  CacheInv'
<1>1. UNCHANGED <<disk, fdTable, readCache>>
  BY DEF Abandon, kernelVars, cacheVars
<1>2. /\ \A g \in PF : g # h => FileOf(g)' = FileOf(g) /\ fd'[g] = fd[g]
      /\ fd'[h] = -1
  BY <1>1 DEF IInv, Base, TypeOK, FileOf, Abandon
<1>3. QED
  BY <1>1, <1>2 DEF IInv, CacheInv, OneSlotPerPage, NoCachedFreeFd, Coherent, CacheCoherent

LEMMA CacheWrite ==
  ASSUME IInv, NEW h \in PF, NEW p \in Pid, NEW d \in Page, pf_write(h, p, d)
  PROVE  CacheInv'
<1>1. p \in Nat /\ fd[h] # -1 /\ FileOf(h) \in File
  BY PidAssumption DEF pf_write, SeekFails, IInv, Base, Ownership
<1>2. /\ Evict(Stale(h, p)) /\ UNCHANGED <<fdTable, fd>>
      /\ disk' = [disk EXCEPT ![FileOf(h)] = Put(@, p, d)]
      /\ \A g \in PF : FileOf(g)' = FileOf(g)
  BY DEF pf_write, FileOf
<1>3. \A i \in Slot : readCache'[i].lastAccessed # 0 =>
        readCache'[i] = readCache[i] /\ i \notin Stale(h, p)
  BY <1>2, EvictProperties DEF IInv, Base, TypeOK
<1>4. \A i \in Slot : Holds(i, h, p) => i \in Stale(h, p)
  BY CacheAssumption DEF IInv, CacheInv, OneSlotPerPage, Holds, Stale, Slot
<1>5. OneSlotPerPage'
  BY <1>3 DEF IInv, CacheInv, OneSlotPerPage
<1>6. NoCachedFreeFd'
  BY <1>2, <1>3 DEF IInv, CacheInv, NoCachedFreeFd
<1>7. SUFFICES ASSUME "read" \notin Fault, NEW g \in PF, NEW i \in Slot, fd[g] # -1,
                      readCache'[i].fd = fd[g], readCache'[i].lastAccessed # 0
               PROVE  /\ readCache'[i].pid + 1 \in DOMAIN disk'[FileOf(g)]
                      /\ readCache'[i].buffer = disk'[FileOf(g)][readCache'[i].pid + 1]
  BY <1>2, <1>5, <1>6 DEF CacheInv, Coherent, CacheCoherent
<1> DEFINE c == readCache[i]
           s == disk[FileOf(g)]
<1>8. /\ readCache'[i] = c /\ c.fd = fd[g] /\ c.lastAccessed # 0
      /\ c.pid + 1 \in DOMAIN s /\ c.buffer = s[c.pid + 1]
      /\ FileOf(g) \in File /\ s \in Seq(Page) /\ c.pid \in Int
  BY <1>3, <1>7 DEF IInv, CacheInv, Coherent, CacheCoherent, Base, Ownership, TypeOK, CacheSlot
<1>9. CASE g # h
  <2>1. disk'[FileOf(g)] = s
    BY <1>1, <1>2, <1>7, <1>8, <1>9 DEF IInv, Base, Ownership, TypeOK
  <2>2. QED
    BY <2>1, <1>8
<1>10. CASE g = h
  <2>1. c.pid # p
    BY <1>3, <1>4, <1>7, <1>8, <1>10 DEF Holds
  <2>2. disk'[FileOf(g)] = Put(s, p, d)
    BY <1>1, <1>2, <1>10 DEF IInv, Base, TypeOK
  <2>3. c.pid + 1 \in 1 .. Len(s) /\ c.pid + 1 # p + 1 /\ Len(s) \in Nat
    BY <1>1, <1>8, <2>1, LenProperties
  <2>4. /\ Put(s, p, d) \in Seq(Page)
        /\ Len(Put(s, p, d)) = IF p + 1 > Len(s) THEN p + 1 ELSE Len(s)
        /\ Put(s, p, d)[c.pid + 1] = s[c.pid + 1]
    BY <1>1, <1>8, <2>3, PutProperties
  <2>5. c.pid + 1 \in DOMAIN Put(s, p, d)
    BY <1>1, <2>3, <2>4, LenProperties
  <2>6. QED
    BY <1>8, <2>2, <2>4, <2>5
<1>11. QED
  BY <1>9, <1>10

LEMMA CacheReadHit ==
  ASSUME IInv, NEW h \in PF, NEW p \in Pid, pf_read_hit(h, p)
  PROVE  CacheInv'
<1>1. PICK i \in Slot : /\ Holds(i, h, p)
                        /\ readCache' = [readCache EXCEPT ![i].lastAccessed = Tick]
  BY DEF pf_read_hit
<1>2. \A j \in Slot : /\ readCache'[j].fd = readCache[j].fd
                      /\ readCache'[j].pid = readCache[j].pid
                      /\ readCache'[j].buffer = readCache[j].buffer
                      /\ readCache'[j].lastAccessed # 0 => readCache[j].lastAccessed # 0
  BY <1>1 DEF Holds, IInv, Base, TypeOK, CacheSlot
<1>3. UNCHANGED <<disk, fdTable, fd>> /\ \A g \in PF : FileOf(g)' = FileOf(g)
  BY DEF pf_read_hit, kernelVars, objVars, FileOf
<1>4. QED
  BY <1>2, <1>3 DEF IInv, CacheInv, OneSlotPerPage, NoCachedFreeFd, Coherent, CacheCoherent

LEMMA CacheReadMiss ==
  ASSUME IInv, NEW h \in PF, NEW p \in Pid, pf_read_miss(h, p)
  PROVE  CacheInv'
<1>1. PICK i \in Slot, ok \in BOOLEAN, buf \in Page :
        /\ readCache' = [readCache EXCEPT ![i] =
             [fd |-> fd[h], pid |-> p, lastAccessed |-> Tick, buffer |-> buf]]
        /\ ok => buf = disk[FileOf(h)][p + 1]
        /\ ~ok => "read" \in Fault
  BY MissShape DEF IInv
<1>2. UNCHANGED <<disk, fdTable, fd>> /\ \A g \in PF : FileOf(g)' = FileOf(g)
  BY DEF pf_read_miss, kernelVars, objVars, FileOf
<1>3. /\ \A j \in Slot : j # i => readCache'[j] = readCache[j]
      /\ readCache'[i].fd = fd[h] /\ readCache'[i].pid = p
      /\ readCache'[i].buffer = buf
  BY <1>1 DEF IInv, Base, TypeOK
<1>4. \A j \in Slot : ~Holds(j, h, p)
  BY DEF pf_read_miss, Cached
<1>5. OneSlotPerPage'
  BY <1>3, <1>4 DEF IInv, CacheInv, OneSlotPerPage, Holds
<1>6. fd[h] \in Fd /\ fd[h] # -1 /\ fdTable[fd[h]].file # NoFile
  BY MissReadsPage, OpenObject, FdAssumption DEF IInv, Base, Ownership, TypeOK
<1>7. NoCachedFreeFd'
  BY <1>2, <1>3, <1>6 DEF IInv, CacheInv, NoCachedFreeFd
<1>8. Coherent'
  BY <1>1, <1>2, <1>3, MissReadsPage
     DEF IInv, CacheInv, Coherent, CacheCoherent, Base, Ownership
<1>9. QED
  BY <1>5, <1>7, <1>8 DEF CacheInv

-----------------------------------------------------------------------------
(* The theorems *)

LEMMA IInvNext == IInv /\ [Next]_vars => IInv'
<1> SUFFICES ASSUME IInv, [Next]_vars PROVE IInv'
  OBVIOUS
<1>1. Base
  BY DEF IInv
<1>2. CASE UNCHANGED vars
  <2>1. UNCHANGED <<kernelVars, objVars, cacheVars>> /\ UNCHANGED ret
    BY <1>2 DEF vars, kernelVars, objVars, cacheVars
  <2>2. QED
    BY <1>1, <2>1, BaseUnchanged, CacheUnchanged DEF IInv, Base, TypeOK, cacheVars
<1>3. ASSUME NEW h \in PF, NEW f \in File, NEW w \in BOOLEAN, pf_open(h, f, w)
      PROVE  IInv'
  BY <1>1, <1>3, BaseOpen, CacheOpen DEF IInv
<1>4. ASSUME NEW h \in PF, pf_close(h) PROVE IInv'
  BY <1>1, <1>4, BaseClose, CacheClose DEF IInv
<1>5. ASSUME NEW h \in PF, Abandon(h) PROVE IInv'
  BY <1>1, <1>5, BaseAbandon, CacheAbandon DEF IInv
<1>6. ASSUME NEW h \in PF, pf_open_fails(h) \/ pf_close_fails(h)
      PROVE  IInv'
  BY <1>1, <1>6, BaseCallFails, CacheUnchanged
     DEF IInv, pf_open_fails, pf_close_fails
<1>7. ASSUME NEW h \in PF, NEW p \in Pid, NEW d \in Page, pf_write(h, p, d)
      PROVE  IInv'
  BY <1>1, <1>7, BaseWrite, CacheWrite DEF IInv
<1>8. ASSUME NEW h \in PF, NEW p \in Pid, pf_write_fails(h, p) \/ pf_read_fails(h, p)
      PROVE  IInv'
  BY <1>1, <1>8, BasePageFails, CacheUnchanged
     DEF IInv, pf_write_fails, pf_read_fails
<1>9. ASSUME NEW h \in PF, NEW p \in Pid, pf_read_hit(h, p) PROVE IInv'
  BY <1>1, <1>9, BaseReadHit, CacheReadHit DEF IInv
<1>10. ASSUME NEW h \in PF, NEW p \in Pid, pf_read_miss(h, p) PROVE IInv'
  BY <1>1, <1>10, BaseReadMiss, CacheReadMiss DEF IInv
<1>11. QED
  BY <1>2, <1>3, <1>4, <1>5, <1>6, <1>7, <1>8, <1>9, <1>10 DEF Next, PageCall

\* IInv is an inductive invariant of PageFile, whatever may fail.
THEOREM Invariance == Spec => []IInv
<1>1. Init => IInv
  BY BaseInit, CacheInit DEF IInv
<1>2. QED
  BY <1>1, IInvNext, PTL DEF Spec

\* Every call leaves every variable in its type (PageFile.cc, all operations).
THEOREM TypeCorrect == Spec => []TypeOK
<1>1. IInv => TypeOK
  BY DEF IInv, Base
<1>2. QED
  BY <1>1, Invariance, PTL

\* endPid() of an open object is the length of its file (pf_open's fstat and
\* pf_write's "if (pid >= epid)").
THEOREM EpidIsExact == Spec => []EpidExact
<1>1. IInv => EpidExact
  BY DEF IInv, Base
<1>2. QED
  BY <1>1, Invariance, PTL

\* No page is cached twice (the search of pf_read before it claims a slot),
\* also when reads fail and when the clock runs over.
THEOREM PageHasOneSlot == Spec => []OneSlotPerPage
<1>1. IInv => OneSlotPerPage
  BY DEF IInv, CacheInv
<1>2. QED
  BY <1>1, Invariance, PTL

\* The cache holds nothing for a descriptor the kernel may reuse (the eviction
\* of pf_close; an abandoned object keeps its descriptor busy).
THEOREM FreeFdIsNotCached == Spec => []NoCachedFreeFd
<1>1. IInv => NoCachedFreeFd
  BY DEF IInv, CacheInv
<1>2. QED
  BY <1>1, Invariance, PTL

\* As long as read(2) does not fail, what is cached for an open object is what
\* its file holds.
THEOREM CacheIsCoherent ==
  ASSUME "read" \notin Fault
  PROVE  Spec => []CacheCoherent
<1>1. IInv => CacheCoherent
  BY DEF IInv, CacheInv, Coherent
<1>2. QED
  BY <1>1, Invariance, PTL

-----------------------------------------------------------------------------
(* Refinement of the abstract page store *)

\* The two modules build the same values.
LEMMA SameValues ==
  /\ \A rc : Store!Code(rc) = Code(rc)
  /\ \A h, p, d : Store!Data(h, p, d) = Data(h, p, d)
  /\ \A s, p, d : Store!Put(s, p, d) = Put(s, p, d)
  /\ Store!RC = RC
<1>1. Store!RC = RC
  BY DEF RC, RC_FILE_OPEN_FAILED, RC_FILE_CLOSE_FAILED, RC_FILE_READ_FAILED,
         RC_FILE_WRITE_FAILED, RC_INVALID_PID, RC_INVALID_RID, RC_NODE_FULL,
         RC_INVALID_CURSOR, RC_NO_SUCH_RECORD, SEEK_FAILED_RC,
         Store!RC, Store!RC_FILE_OPEN_FAILED, Store!RC_FILE_CLOSE_FAILED,
         Store!RC_FILE_READ_FAILED, Store!RC_FILE_WRITE_FAILED,
         Store!RC_INVALID_PID, Store!RC_INVALID_RID, Store!RC_NODE_FULL,
         Store!RC_INVALID_CURSOR, Store!RC_NO_SUCH_RECORD, Store!SEEK_FAILED_RC
<1>2. QED
  BY <1>1 DEF Store!Code, Code, Store!Data, Data, Store!Put, Put

\* What a hit returns.
LEMMA HitReturnsPage ==
  ASSUME IInv, "read" \notin Fault, NEW h \in PF, NEW p \in Pid, pf_read_hit(h, p)
  PROVE  /\ p \in Nat /\ fd[h] # -1
         /\ p + 1 \in DOMAIN disk[FileOf(h)]
         /\ ret' = Data(h, p, disk[FileOf(h)][p + 1])
<1>1. PICK i \in Slot : Holds(i, h, p) /\ ret' = Data(h, p, readCache[i].buffer)
  BY DEF pf_read_hit
<1>2. p \in Nat
  BY PidAssumption DEF pf_read_hit, InFile
<1>3. readCache[i].fd \in Fd /\ fd[h] # -1
  BY <1>1, FdAssumption DEF Holds, IInv, CacheInv, NoCachedFreeFd
<1>4. /\ readCache[i].pid + 1 \in DOMAIN disk[FileOf(h)]
      /\ readCache[i].buffer = disk[FileOf(h)][readCache[i].pid + 1]
  BY <1>1, <1>3 DEF Holds, IInv, CacheInv, Coherent, CacheCoherent
<1>5. QED
  BY <1>1, <1>2, <1>3, <1>4 DEF Holds

Bindings == [h \in PF |-> FileOf(h)]

\* Opening, closing and abandoning bind an object.
LEMMA BindStep ==
  ASSUME IInv, NEW h \in PF,
         \/ \E f \in File, w \in BOOLEAN : pf_open(h, f, w)
         \/ pf_close(h) \/ Abandon(h)
  PROVE  \E f \in File \cup {NoFile} : Store!StoreBind(h, f)
<1>1. ASSUME NEW f \in File, NEW w \in BOOLEAN, pf_open(h, f, w)
      PROVE  Store!StoreBind(h, f)
  <2>1. PICK d \in Fd : /\ LowestFree(d)
                        /\ fdTable' = [fdTable EXCEPT ![d] = [file |-> f, writable |-> w]]
                        /\ fd' = [fd EXCEPT ![h] = d]
    BY <1>1 DEF pf_open
  <2>2. fdTable[d].file = NoFile /\ d # -1 /\ UNCHANGED disk
    BY <1>1, <2>1, ClosedFdEntry, FdAssumption DEF LowestFree, pf_open
  <2>3. /\ FileOf(h)' = f
        /\ \A g \in PF : g # h => FileOf(g)' = FileOf(g)
    BY <2>1, <2>2, OpenObject, FdAssumption
       DEF FileOf, IInv, Base, TypeOK, Ownership
  <2>4. Bindings' = [Bindings EXCEPT ![h] = f]
    BY <2>3 DEF Bindings
  <2>5. QED
    BY <1>1, <2>2, <2>4, SameValues DEF Bindings, Store!StoreBind, pf_open
<1>2. ASSUME pf_close(h) \/ Abandon(h)
      PROVE  Store!StoreBind(h, NoFile)
  <2>1. /\ FileOf(h)' = NoFile
        /\ \A g \in PF : g # h => FileOf(g)' = FileOf(g)
    <3>1. CASE pf_close(h)
      BY <3>1, OpenObject, FdAssumption
         DEF pf_close, FileOf, IInv, Base, TypeOK, Ownership
    <3>2. CASE Abandon(h)
      BY <3>2 DEF Abandon, FileOf, IInv, Base, TypeOK, kernelVars
    <3>3. QED
      BY <1>2, <3>1, <3>2
  <2>2. Bindings' = [Bindings EXCEPT ![h] = NoFile]
    BY <2>1 DEF Bindings
  <2>3. UNCHANGED disk /\ ret' = Code(0)
    BY <1>2 DEF pf_close, Abandon, kernelVars
  <2>4. QED
    BY <2>2, <2>3, SameValues DEF Bindings, Store!StoreBind
<1>3. QED
  BY <1>1, <1>2

LEMMA WriteStep ==
  ASSUME IInv, NEW h \in PF, NEW p \in Pid, NEW d \in Page, pf_write(h, p, d)
  PROVE  p \in Nat /\ Store!StoreWrite(h, p, d)
<1>1. p \in Nat /\ fd[h] # -1 /\ FileOf(h) \in File
  BY PidAssumption DEF pf_write, SeekFails, IInv, Base, Ownership
<1>2. Bindings' = Bindings
  BY DEF Bindings, FileOf, pf_write
<1>3. Bindings[h] = FileOf(h) /\ FileOf(h) # NoFile
  BY <1>1, FdAssumption DEF Bindings
<1>4. QED
  BY <1>1, <1>2, <1>3, SameValues DEF Bindings, Store!StoreWrite, pf_write

LEMMA ReadStep ==
  ASSUME IInv, "read" \notin Fault, NEW h \in PF, NEW p \in Pid,
         pf_read_hit(h, p) \/ pf_read_miss(h, p)
  PROVE  p \in Nat /\ Store!StoreRead(h, p)
<1>1. /\ p \in Nat /\ fd[h] # -1 /\ p + 1 \in DOMAIN disk[FileOf(h)]
      /\ ret' = Data(h, p, disk[FileOf(h)][p + 1])
  <2>1. CASE pf_read_hit(h, p)
    BY <2>1, HitReturnsPage
  <2>2. CASE pf_read_miss(h, p)
    <3>1. ret' = Data(h, p, disk[FileOf(h)][p + 1])
      BY <2>2 DEF pf_read_miss
    <3>2. QED
      BY <2>2, <3>1, MissReadsPage, FdAssumption DEF IInv
  <2>3. QED
    BY <2>1, <2>2
<1>2. UNCHANGED <<disk, fdTable, fd>>
  BY DEF pf_read_hit, pf_read_miss, kernelVars, objVars
<1>3. Bindings' = Bindings
  BY <1>2 DEF Bindings, FileOf
<1>4. Bindings[h] = FileOf(h) /\ FileOf(h) # NoFile
  BY <1>1, FdAssumption DEF Bindings, IInv, Base, Ownership
<1>5. QED
  BY <1>1, <1>2, <1>3, <1>4, SameValues DEF Bindings, Store!StoreRead

\* A failure code is never 0, and the failed call changes nothing.
LEMMA FailStep ==
  ASSUME UNCHANGED <<kernelVars, objVars>>,
         NEW rc \in RC \ {0}, ret' = Code(rc)
  PROVE  Store!StoreFail
<1>1. UNCHANGED <<disk, fdTable, fd>>
  BY DEF kernelVars, objVars
<1>2. Bindings' = Bindings
  BY <1>1 DEF Bindings, FileOf
<1>3. QED
  BY <1>1, <1>2, SameValues DEF Bindings, Store!StoreFail

LEMMA CallFailStep ==
  ASSUME NEW h \in PF, pf_open_fails(h) \/ pf_close_fails(h)
  PROVE  Store!StoreFail
<1>1. /\ RC_FILE_OPEN_FAILED \in RC \ {0}
      /\ RC_FILE_CLOSE_FAILED \in RC \ {0}
  BY DEF RC, RC_FILE_OPEN_FAILED, RC_FILE_CLOSE_FAILED
<1>2. QED
  BY <1>1, FailStep DEF pf_open_fails, pf_close_fails

LEMMA PageFailStep ==
  ASSUME NEW h \in PF, NEW p \in Pid, pf_write_fails(h, p) \/ pf_read_fails(h, p)
  PROVE  Store!StoreFail
<1>1. \A rc \in {RC_INVALID_PID, SEEK_FAILED_RC, RC_FILE_WRITE_FAILED} : rc # 0
  BY DEF RC_INVALID_PID, SEEK_FAILED_RC, RC_FILE_WRITE_FAILED
<1>2. PICK rc \in RC : rc # 0 /\ ret' = Code(rc)
  BY <1>1 DEF pf_write_fails, pf_read_fails
<1>3. QED
  BY <1>2, FailStep DEF pf_write_fails, pf_read_fails

LEMMA StoreStep ==
  ASSUME "read" \notin Fault, IInv, [Next]_vars
  PROVE  [Store!StoreNext]_(Store!storeVars)
<1>1. CASE UNCHANGED vars
  BY <1>1 DEF vars, Store!storeVars, FileOf
<1>2. ASSUME NEW h \in PF,
             \/ \E f \in File, w \in BOOLEAN : pf_open(h, f, w)
             \/ pf_close(h) \/ Abandon(h)
      PROVE  Store!StoreNext
  BY <1>2, BindStep DEF Store!StoreNext
<1>3. ASSUME NEW h \in PF, pf_open_fails(h) \/ pf_close_fails(h)
      PROVE  Store!StoreNext
  BY <1>3, CallFailStep DEF Store!StoreNext
<1>4. ASSUME NEW h \in PF, NEW p \in Pid, PageCall(h, p)
      PROVE  Store!StoreNext
  <2>1. ASSUME NEW d \in Page, pf_write(h, p, d) PROVE Store!StoreNext
    BY <2>1, WriteStep DEF Store!StoreNext
  <2>2. CASE pf_read_hit(h, p) \/ pf_read_miss(h, p)
    BY <2>2, ReadStep DEF Store!StoreNext
  <2>3. CASE pf_write_fails(h, p) \/ pf_read_fails(h, p)
    BY <2>3, PageFailStep DEF Store!StoreNext
  <2>4. QED
    BY <1>4, <2>1, <2>2, <2>3 DEF PageCall
<1>5. QED
  BY <1>1, <1>2, <1>3, <1>4 DEF Next

\* PageFile implements the page store of PageFile.h as long as read(2) does
\* not fail: descriptors, cache and clock cannot be told from outside.
THEOREM Refinement ==
  ASSUME "read" \notin Fault
  PROVE  Spec => StoreSpec
<1>1. Init => Store!StoreInit
  BY SameValues DEF Init, Store!StoreInit, FileOf
<1>2. IInv /\ [Next]_vars => [Store!StoreNext]_(Store!storeVars)
  BY StoreStep
<1>3. QED
  BY <1>1, <1>2, Invariance, PTL DEF Spec, StoreSpec, Store!StoreSpec

=============================================================================
