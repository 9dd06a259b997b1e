---------------------------- MODULE MCBTreeIndex ----------------------------
(***************************************************************************)
(* Instances of BTreeIndex: what is inserted, and what the memory of a     *)
(* page id that nobody set may hold.                                       *)
(***************************************************************************)
EXTENDS BTreeIndex

MCWild   == -2
MCUninit == {0, MCWild}

\* One entry for each key
MCDistinct == { Entry(k, [pid |-> 0, sid |-> k]) : k \in Key }

\* One key comes twice.
MCTwice == MCDistinct \cup { Entry(Min(Key) + 1, [pid |-> 1, sid |-> 0]) }
=============================================================================
