------------------------------ MODULE LRUList ------------------------------
(***************************************************************************)
(* The replacement policy PageFile.h announces ("the following set of      *)
(* members implement LRU caching"): the cached pages in order of their     *)
(* last use, of which the oldest makes room.                               *)
(***************************************************************************)
EXTENDS Integers, SequencesExt

CONSTANTS Key, Capacity

VARIABLE order   \* the cached keys, the most recently used first

LRUInit == order = << >>

Touch(k) ==
  LET moved == <<k>> \o SelectSeq(order, LAMBDA x : x # k)
  IN order' = SubSeq(moved, 1, Min({Capacity, Len(moved)}))

\* An invalidation removes keys and keeps the order of the others.
Drop(S) == order' = SelectSeq(order, LAMBDA x : x \notin S)

LRUNext == \/ \E k \in Key : Touch(k)
           \/ \E S \in SUBSET ToSet(order) : Drop(S)

LRUSpec == LRUInit /\ [][LRUNext]_order

=============================================================================
