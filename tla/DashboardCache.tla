--------------------------- MODULE DashboardCache ---------------------------
(***************************************************************************)
(* The in-memory cache of the dashboard (utils/cache.js): a Map of bounded *)
(* size, kept here as the sequence of its entries in insertion order.  An  *)
(* entry is old once its time to live has passed; passing is a step of the *)
(* modules that use the cache.                                             *)
(***************************************************************************)
EXTENDS Naturals, Sequences, FiniteSets, SequencesExt

CONSTANT MaxEntries  \* DASHBOARD_CACHE_MAX_ENTRIES

Entry(key, data) == [key |-> key, data |-> data, old |-> FALSE]

HasKey(cache, key) == \E i \in DOMAIN cache : cache[i].key = key

EntryOf(cache, key) == cache[CHOOSE i \in DOMAIN cache : cache[i].key = key]

\* What stands at the places P of a sequence, in their order: SelectSeq by
\* places, for the proofs, which cannot expand a recursion.
Picked(s, P) ==
  LET rank(i) == Cardinality({j \in P : j <= i})
  IN [n \in 1..Cardinality(P) |-> s[CHOOSE i \in P : rank(i) = n]]

Delete(cache, key) == Picked(cache, {i \in DOMAIN cache : cache[i].key # key})

PruneExpired(cache) == Picked(cache, {i \in DOMAIN cache : ~ cache[i].old})

\* What overflow leaves: the entries inserted, or read, last.
EvictOverflow(cache) ==
  IF Len(cache) > MaxEntries
  THEN SubSeq(cache, Len(cache) - MaxEntries + 1, Len(cache))
  ELSE cache

IsHit(cache, key) == HasKey(cache, key) /\ ~ EntryOf(cache, key).old

\* Mutant: a hit stays where it is.
AfterGetInPlace(cache, key) ==
  IF IsHit(cache, key) THEN cache ELSE Delete(cache, key)

\* The cache after get(key): a hit moves to the end, an old entry goes.
AfterGet(cache, key) ==
  IF IsHit(cache, key)
  THEN Append(Delete(cache, key), EntryOf(cache, key))
  ELSE Delete(cache, key)

\* The cache after set(key, data).
AfterSet(cache, key, data) ==
  EvictOverflow(Append(Delete(PruneExpired(cache), key), Entry(key, data)))

\* Time passes for the entry at i.
Aged(cache, i) == [cache EXCEPT ![i].old = TRUE]
=============================================================================
