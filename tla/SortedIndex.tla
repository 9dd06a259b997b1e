---------------------------- MODULE SortedIndex ----------------------------
(***************************************************************************)
(* What BTreeIndex promises (the contract of BTreeIndex.h, without pages): *)
(* a set of entries with distinct keys, looked up by key and read forward  *)
(* in the order of the keys.                                               *)
(***************************************************************************)
EXTENDS Bruinbase, Integers

CONSTANTS Key, Rid,
          NoEntry   \* no entry

VARIABLES
  entries,  \* the entries of the index
  saved,    \* an index that was closed once survives the program
  cur,      \* the entry a reader is at, NoEntry behind the last one
  answer    \* the entry the last call returned, NoEntry if none

indexVars == <<entries, saved, cur, answer>>

\* The entry with the smallest key >= k, or NoEntry
LeastFrom(k) ==
  LET from == { e \in entries : e.key >= k }
  IN IF from = {} THEN NoEntry ELSE CHOOSE e \in from : \A f \in from : e.key <= f.key

IndexInit == entries = {} /\ saved = FALSE /\ cur = NoEntry /\ answer = NoEntry

\* An insert, not answered before its entry is in the index
IndexInsert(k, r) ==
  /\ \A e \in entries : e.key # k
  /\ entries' = entries \cup {[key |-> k, val |-> r]}
  /\ UNCHANGED <<saved, cur, answer>>

IndexLocate(k) == cur' = LeastFrom(k) /\ answer' = NoEntry /\ UNCHANGED <<entries, saved>>

IndexReadForward ==
  /\ answer' = cur
  /\ cur' = IF cur = NoEntry THEN NoEntry ELSE LeastFrom(cur.key + 1)
  /\ UNCHANGED <<entries, saved>>

\* Any other call, and the end of a reader or a writer
IndexOther ==
  /\ answer' = NoEntry /\ cur' \in {cur, NoEntry}
  /\ saved => saved'
  /\ UNCHANGED entries

\* The program ends while it writes an index that was never closed.
IndexLost == ~saved /\ entries' = {} /\ cur' = NoEntry /\ answer' = NoEntry /\ UNCHANGED saved

IndexNext ==
  \/ \E k \in Key, r \in Rid : IndexInsert(k, r)
  \/ \E k \in Key : IndexLocate(k)
  \/ IndexReadForward \/ IndexOther \/ IndexLost

IndexSpec == IndexInit /\ [][IndexNext]_indexVars
=============================================================================
