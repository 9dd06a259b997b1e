----------------------------- MODULE PageFile ------------------------------
(***************************************************************************)
(* PageFile.{h,cc}: files read and written in pages, behind one read cache *)
(* that all PageFile objects of the process share.  The cache is keyed by  *)
(* file descriptor, so it also depends on which descriptors the kernel     *)
(* hands out again after a close.                                          *)
(***************************************************************************)
EXTENDS Bruinbase, Sequences

CONSTANTS
  File,         \* file names
  NoFile,
  PF,           \* the PageFile objects the engine creates
  Fd,           \* the descriptors the kernel can hand out to them
  Page,         \* page contents
  ZeroPage,     \* the content of a page that was never written
  NoPage,       \* "no data"
  Pid,          \* the page ids callers pass, negative ones included
  SeekLimit,    \* pid * PAGE_SIZE overflows an int from this page on
  CACHE_COUNT,
  ClockMax,     \* the largest int
  Fault         \* the system calls that may fail: "read", "write", "close"

ASSUME FdAssumption    == Fd \subseteq Nat \ {0} /\ NoFile \notin File
ASSUME CacheAssumption == CACHE_COUNT \in Nat \ {0} /\ ClockMax \in Nat \ {0}
ASSUME PageAssumption  == ZeroPage \in Page /\ NoPage \notin Page
ASSUME PidAssumption   == Pid \subseteq Int /\ SeekLimit \in Nat
ASSUME FaultAssumption == Fault \subseteq {"read", "write", "close"}

VARIABLES
  disk,         \* disk[f]: the pages of file f
  fdTable,      \* the kernel's descriptor table: file and access mode
  fd, epid,     \* the two members of each PageFile object
  readCache,    \* the static cache
  cacheClock,   \* its static clock
  ret           \* what the last call returned

kernelVars == <<disk, fdTable>>
objVars    == <<fd, epid>>
cacheVars  == <<readCache, cacheClock>>
vars       == <<disk, fdTable, fd, epid, readCache, cacheClock, ret>>

Slot      == 0 .. CACHE_COUNT - 1
ClosedFd  == [file |-> NoFile, writable |-> FALSE]
EmptySlot == [fd |-> 0, pid |-> 0, lastAccessed |-> 0, buffer |-> ZeroPage]

\* What a call returns: a code, and the page if it is a read that succeeds.
Code(rc)       == [rc |-> rc, of |-> << >>, data |-> NoPage]
Data(h, p, d)  == [rc |-> 0, of |-> <<h, p>>, data |-> d]

\* The file with page p written: past the end it grows, holes read as zeros.
Put(s, p, d) ==
  [i \in 1 .. (IF p + 1 > Len(s) THEN p + 1 ELSE Len(s)) |->
     IF i = p + 1 THEN d ELSE IF i <= Len(s) THEN s[i] ELSE ZeroPage]

FileOf(h) == IF fd[h] = -1 THEN NoFile ELSE fdTable[fd[h]].file

\* ++cacheClock on a two's complement int.
Tick == IF cacheClock = ClockMax THEN -ClockMax - 1 ELSE cacheClock + 1

Init ==
  /\ disk = [f \in File |-> << >>]
  /\ fdTable = [d \in Fd |-> ClosedFd]
  /\ fd = [h \in PF |-> -1]
  /\ epid = [h \in PF |-> 0]
  /\ readCache = [i \in Slot |-> EmptySlot]
  /\ cacheClock = 1
  /\ ret = Code(0)

-----------------------------------------------------------------------------
(* Opening and closing *)

\* SqlEngine opens a file through one object at a time: select() and load()
\* each use one object for T.tbl and one for T.idx.
Exclusive(f) == \A h \in PF : FileOf(h) # f

\* open(2) returns the lowest descriptor that is free.
LowestFree(d) ==
  /\ fdTable[d] = ClosedFd
  /\ \A e \in Fd : e < d => fdTable[e] # ClosedFd

pf_open(h, f, w) ==
  /\ fd[h] = -1 /\ Exclusive(f)
  /\ \E d \in Fd :
       /\ LowestFree(d)
       /\ fdTable' = [fdTable EXCEPT ![d] = [file |-> f, writable |-> w]]
       /\ fd' = [fd EXCEPT ![h] = d]
  /\ epid' = [epid EXCEPT ![h] = Len(disk[f])]
  /\ ret' = Code(0)
  /\ UNCHANGED <<disk, cacheVars>>

\* The object is already open, the kernel has no descriptor left, or it
\* refuses the file.  A file nobody created is an empty one here: whether 'r'
\* finds it is the kernel's choice between this action and pf_open.
pf_open_fails(h) ==
  /\ ret' = Code(RC_FILE_OPEN_FAILED)
  /\ UNCHANGED <<kernelVars, objVars, cacheVars>>

\* An emptied slot keeps its buffer.
Emptied(s) == [fd |-> 0, pid |-> 0, lastAccessed |-> 0, buffer |-> s.buffer]

Evict(slots) ==
  readCache' = [i \in Slot |-> IF i \in slots THEN Emptied(readCache[i])
                                              ELSE readCache[i]]

\* Mutants: pf_close evicts nothing, or stops at the first slot it evicts.
EvictNothing(h) == {}
EvictFirst(h) == { i \in Slot :
  /\ readCache[i].fd = fd[h] /\ readCache[i].lastAccessed # 0
  /\ \A j \in Slot : j < i => readCache[j].fd # fd[h] }

CachedFor(h) == { i \in Slot : /\ readCache[i].fd = fd[h]
                               /\ readCache[i].lastAccessed # 0 }

pf_close(h) ==
  /\ fd[h] > 0
  /\ fdTable' = [fdTable EXCEPT ![fd[h]] = ClosedFd]
  /\ Evict(CachedFor(h))
  /\ fd' = [fd EXCEPT ![h] = -1]
  /\ epid' = [epid EXCEPT ![h] = 0]
  /\ ret' = Code(0)
  /\ UNCHANGED <<disk, cacheClock>>

\* Not open, or close(2) fails (and then keeps the descriptor).
pf_close_fails(h) ==
  /\ fd[h] <= 0 \/ "close" \in Fault
  /\ ret' = Code(RC_FILE_CLOSE_FAILED)
  /\ UNCHANGED <<kernelVars, objVars, cacheVars>>

\* PageFile has no destructor: an object that goes out of scope while open
\* leaves its descriptor and its cached pages behind, and a new object takes
\* its place.
Abandon(h) ==
  /\ fd' = [fd EXCEPT ![h] = -1]
  /\ epid' = [epid EXCEPT ![h] = 0]
  /\ ret' = Code(0)
  /\ UNCHANGED <<kernelVars, cacheVars>>

-----------------------------------------------------------------------------
(* Writing *)

\* seek() fails on a descriptor that is not open and on a negative offset.
SeekFails(h, p) == fd[h] = -1 \/ p >= SeekLimit

Holds(i, h, p) == /\ readCache[i].fd = fd[h] /\ readCache[i].pid = p
                  /\ readCache[i].lastAccessed # 0

\* Mutant: pf_write invalidates nothing.
KeepStale(h, p) == {}

\* The slots pf_write invalidates: it stops at the first that matches.
Stale(h, p) == { i \in Slot : /\ Holds(i, h, p)
                              /\ \A j \in Slot : j < i => ~Holds(j, h, p) }

\* Mutant: ">" for ">=" when the end is moved.
EndAfterGt(h, p) == IF p > epid[h] THEN p + 1 ELSE epid[h]

EndAfter(h, p) == IF p >= epid[h] THEN p + 1 ELSE epid[h]

pf_write(h, p, d) ==
  /\ p >= 0 /\ ~SeekFails(h, p)
  /\ fdTable[fd[h]].writable
  /\ disk' = [disk EXCEPT ![FileOf(h)] = Put(@, p, d)]
  /\ Evict(Stale(h, p))
  /\ epid' = [epid EXCEPT ![h] = EndAfter(h, p)]
  /\ ret' = Code(0)
  /\ UNCHANGED <<fdTable, fd, cacheClock>>

pf_write_fails(h, p) ==
  /\ \E rc \in RC :
       /\ \/ p < 0 /\ rc = RC_INVALID_PID
          \/ p >= 0 /\ SeekFails(h, p) /\ rc = SEEK_FAILED_RC
          \/ /\ p >= 0 /\ ~SeekFails(h, p) /\ rc = RC_FILE_WRITE_FAILED
             /\ ~fdTable[fd[h]].writable \/ "write" \in Fault
       /\ ret' = Code(rc)
  /\ UNCHANGED <<kernelVars, objVars, cacheVars>>

-----------------------------------------------------------------------------
(* Reading *)

InFile(h, p) == p >= 0 /\ p < epid[h]
\* Mutant: the search of the cache starts at slot 1.
CachedFrom1(h, p) == \E i \in Slot \ {0} : Holds(i, h, p)

Cached(h, p) == \E i \in Slot : Holds(i, h, p)

pf_read_hit(h, p) ==
  /\ InFile(h, p)
  /\ \E i \in Slot :
       /\ Holds(i, h, p) /\ \A j \in Slot : j < i => ~Holds(j, h, p)
       /\ readCache' = [readCache EXCEPT ![i].lastAccessed = Tick]
       /\ ret' = Data(h, p, readCache[i].buffer)
  /\ cacheClock' = Tick
  /\ UNCHANGED <<kernelVars, objVars>>

\* Mutant: the comparison of the ages is turned around.
IsNewest(i) ==
  LET la(j) == readCache[j].lastAccessed IN
  \/ la(i) = 0 /\ \A j \in Slot : j < i => la(j) # 0
  \/ /\ \A j \in Slot : la(j) # 0 /\ la(i) >= la(j)
     /\ \A j \in Slot : j < i => la(i) > la(j)

\* The slot a miss takes: the first empty one, else the first of those with
\* the smallest lastAccessed.
IsVictim(i) ==
  LET la(j) == readCache[j].lastAccessed IN
  \/ la(i) = 0 /\ \A j \in Slot : j < i => la(j) # 0
  \/ /\ \A j \in Slot : la(j) # 0 /\ la(i) <= la(j)
     /\ \A j \in Slot : j < i => la(i) < la(j)

\* The slot is claimed before the page is read into it, and stays claimed
\* when the read fails.
pf_read_miss(h, p) ==
  /\ InFile(h, p) /\ ~Cached(h, p) /\ ~SeekFails(h, p)
  /\ \E i \in Slot :
       /\ IsVictim(i)
       /\ \E ok \in {TRUE} \cup (IF "read" \in Fault THEN {FALSE} ELSE {}) :
            LET buf == IF ok THEN disk[FileOf(h)][p + 1]
                             ELSE readCache[i].buffer
            IN /\ readCache' = [readCache EXCEPT ![i] =
                    [fd |-> fd[h], pid |-> p, lastAccessed |-> Tick,
                     buffer |-> buf]]
               /\ ret' = IF ok THEN Data(h, p, buf)
                         ELSE Code(RC_FILE_READ_FAILED)
  /\ cacheClock' = Tick
  /\ UNCHANGED <<kernelVars, objVars>>

pf_read_fails(h, p) ==
  /\ \E rc \in RC :
       /\ \/ ~InFile(h, p) /\ rc = RC_INVALID_PID
          \/ /\ InFile(h, p) /\ ~Cached(h, p) /\ SeekFails(h, p)
             /\ rc = SEEK_FAILED_RC
       /\ ret' = Code(rc)
  /\ UNCHANGED <<kernelVars, objVars, cacheVars>>

-----------------------------------------------------------------------------
PageCall(h, p) ==
  \/ \E d \in Page : pf_write(h, p, d)
  \/ pf_write_fails(h, p)
  \/ pf_read_hit(h, p) \/ pf_read_miss(h, p) \/ pf_read_fails(h, p)

Next ==
  \E h \in PF :
    \/ \E f \in File, w \in BOOLEAN : pf_open(h, f, w)
    \/ pf_open_fails(h)
    \/ pf_close(h) \/ pf_close_fails(h)
    \/ Abandon(h)
    \/ \E p \in Pid : PageCall(h, p)

Spec == Init /\ [][Next]_vars

-----------------------------------------------------------------------------
(* Properties *)

FdEntry   == [file : File \cup {NoFile}, writable : BOOLEAN]
CacheSlot == [fd : Fd \cup {0}, pid : Int, lastAccessed : Int, buffer : Page]
Result    == [rc : RC, of : {<< >>} \cup (PF \X Pid), data : Page \cup {NoPage}]

\* Every variable has its type; pages only come from what was written.
TypeOK ==
  /\ disk \in [File -> Seq(Page)]
  /\ fdTable \in [Fd -> FdEntry]
  /\ fd \in [PF -> Fd \cup {-1}]
  /\ epid \in [PF -> Nat]
  /\ readCache \in [Slot -> CacheSlot]
  /\ cacheClock \in Int
  /\ ret \in Result

\* A descriptor belongs to one object and a file is open through one object;
\* a closed descriptor is bound to no file.
Ownership ==
  \A h \in PF : fd[h] # -1 =>
    /\ FileOf(h) \in File
    /\ \A g \in PF : g # h => fd[g] # fd[h] /\ FileOf(g) # FileOf(h)

\* endPid() of an open object is the length of its file: nobody else grew it
\* behind the object's back, and its own writes are all counted.
EpidExact == \A h \in PF : fd[h] # -1 => epid[h] = Len(disk[FileOf(h)])

\* A page occupies one slot.  pf_write relies on it: it stops looking for
\* slots to invalidate at the first match.
OneSlotPerPage ==
  \A i, j \in Slot :
    /\ readCache[i].lastAccessed # 0 /\ readCache[j].lastAccessed # 0
    /\ readCache[i].fd = readCache[j].fd /\ readCache[i].pid = readCache[j].pid
    => i = j

\* The cache never speaks for a descriptor the kernel can hand out again: a
\* file opened on a recycled descriptor must not find its predecessor's pages.
NoCachedFreeFd ==
  \A i \in Slot : readCache[i].lastAccessed # 0 =>
    /\ readCache[i].fd \in Fd
    /\ fdTable[readCache[i].fd].file # NoFile

\* What the cache holds for an open object is what its file holds.  Pages of
\* abandoned descriptors may be stale: no object can ask for them.
CacheCoherent ==
  \A h \in PF, i \in Slot :
    fd[h] # -1 /\ readCache[i].fd = fd[h] /\ readCache[i].lastAccessed # 0 =>
      /\ readCache[i].pid + 1 \in DOMAIN disk[FileOf(h)]
      /\ readCache[i].buffer = disk[FileOf(h)][readCache[i].pid + 1]

\* A read that reports success returns the page the file holds, cached or
\* not, whatever was opened, written, closed and abandoned before it.
ReadsAreCurrent ==
  \A h \in PF, p \in Pid : ret.of = <<h, p>> =>
    /\ p + 1 \in DOMAIN disk[FileOf(h)]
    /\ ret.data = disk[FileOf(h)][p + 1]

\* The pages behind the descriptors, the cache and the clock are the abstract
\* page store.
Store == INSTANCE PageStore WITH files <- disk,
                                 bound <- [h \in PF |-> FileOf(h)]
StoreSpec == Store!StoreSpec

=============================================================================
