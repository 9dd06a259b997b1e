---------------------------- MODULE MCPageFile -----------------------------
(* Small instances of PageFile, and its cache as an LRU list. *)
EXTENDS PageFile, FiniteSets

SE == INSTANCE SequencesExt

\* The cached pages, the most recently used first.
CacheOrder ==
  LET used == { i \in Slot : readCache[i].lastAccessed # 0 }
      newer(i, j) == readCache[i].lastAccessed > readCache[j].lastAccessed
      slots == SE!SetToSortSeq(used, newer)
  IN [n \in DOMAIN slots |-> <<readCache[slots[n]].fd, readCache[slots[n]].pid>>]

LRU == INSTANCE LRUList WITH Key <- Fd \X Pid, Capacity <- CACHE_COUNT,
                             order <- CacheOrder

\* As long as the clock has not run over, the cache replaces the page that
\* was used the longest ago: pf_read_miss's scan, pf_read_hit's stamp and the
\* invalidations of pf_write and pf_close together are an LRU list.
CacheIsLRU == LRU!LRUSpec

\* The behaviours in which the clock does not run over.
NoWrapSpec == Init /\ [][Next /\ cacheClock' >= cacheClock]_vars

MCFd2   == {3, 4}
MCPid   == {-1, 0, 1, 2, 3}
=============================================================================
