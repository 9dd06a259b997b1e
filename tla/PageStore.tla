----------------------------- MODULE PageStore -----------------------------
(***************************************************************************)
(* What PageFile promises its callers (the contract of PageFile.h, without *)
(* descriptors, caches or clocks): a file is a sequence of pages, a write  *)
(* replaces one page and grows the file when it lies past the end, and a   *)
(* read that reports success returns the page as it was last written.      *)
(***************************************************************************)
EXTENDS Bruinbase, Sequences

CONSTANTS
  File,      \* the names of the files
  NoFile,    \* what an unopened object is bound to
  PF,        \* the PageFile objects
  Pid,       \* the page ids callers name
  Page,      \* the contents a page can have
  ZeroPage,  \* the content of a page nobody wrote (a hole in the file)
  NoPage     \* the data of a call that returns none

VARIABLES
  files,     \* files[f]: the pages of file f, or the empty sequence
  bound,     \* bound[h]: the file object h is open on
  ret        \* the result of the last call

storeVars == <<files, bound, ret>>

Code(rc)      == [rc |-> rc, of |-> << >>, data |-> NoPage]
Data(h, p, d) == [rc |-> 0, of |-> <<h, p>>, data |-> d]

\* The file with page p replaced, holes filled with zeros.
Put(s, p, d) ==
  [i \in 1 .. (IF p + 1 > Len(s) THEN p + 1 ELSE Len(s)) |->
     IF i = p + 1 THEN d ELSE IF i <= Len(s) THEN s[i] ELSE ZeroPage]

StoreInit ==
  /\ files = [f \in File |-> << >>]
  /\ bound = [h \in PF |-> NoFile]
  /\ ret = Code(0)

StoreBind(h, f) ==
  /\ bound' = [bound EXCEPT ![h] = f]
  /\ ret' = Code(0)
  /\ UNCHANGED files

StoreRead(h, p) ==
  /\ bound[h] # NoFile
  /\ p + 1 \in DOMAIN files[bound[h]]
  /\ ret' = Data(h, p, files[bound[h]][p + 1])
  /\ UNCHANGED <<files, bound>>

StoreWrite(h, p, d) ==
  /\ bound[h] # NoFile
  /\ files' = [files EXCEPT ![bound[h]] = Put(@, p, d)]
  /\ ret' = Code(0)
  /\ UNCHANGED bound

\* Any call may fail, and then it changes nothing.
StoreFail ==
  /\ \E rc \in RC \ {0} : ret' = Code(rc)
  /\ UNCHANGED <<files, bound>>

StoreNext ==
  \/ StoreFail
  \/ \E h \in PF :
       \/ \E f \in File \cup {NoFile} : StoreBind(h, f)
       \/ \E p \in Pid \cap Nat :
            StoreRead(h, p) \/ \E d \in Page : StoreWrite(h, p, d)

StoreSpec == StoreInit /\ [][StoreNext]_storeVars

=============================================================================
