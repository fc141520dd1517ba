------------------------------ MODULE CacheUse ------------------------------
(***************************************************************************)
(* The dashboard cache under every sequence of its calls, against what an  *)
(* LRU cache promises (utils/cache.js).                                    *)
(***************************************************************************)
EXTENDS DashboardCache

CONSTANT Keys

VARIABLES
  kept,    \* the Map of the cache
  recent   \* history: the keys set and not yet too old, by their last use

Init == kept = <<>> /\ recent = <<>>

Forgotten(key) == Picked(recent, {i \in DOMAIN recent : recent[i] # key})

Used(key) == Append(Forgotten(key), key)

Get(key) ==
  /\ kept' = AfterGet(kept, key)
  /\ recent' = IF IsHit(kept, key) THEN Used(key) ELSE recent

Set(key) ==
  /\ kept' = AfterSet(kept, key, "data")
  /\ recent' = Used(key)

Age(key) ==
  /\ \E i \in DOMAIN kept :
       kept[i].key = key /\ ~ kept[i].old /\ kept' = Aged(kept, i)
  /\ recent' = Forgotten(key)

Sweep == kept' = PruneExpired(kept) /\ UNCHANGED recent

Clear == kept' = <<>> /\ recent' = <<>>

Next == (\E key \in Keys : Get(key) \/ Set(key) \/ Age(key)) \/ Sweep \/ Clear

\* The cache never outgrows its bound, and what it gives up at its bound is
\* what was used longest ago: the keys it still answers are the ones used
\* last, of all that were set and are not past their time to live.
LruKeepsRecent ==
  LET fresh == {kept[i].key : i \in {j \in DOMAIN kept : ~ kept[j].old}}
      last  == SubSeq(recent, Len(recent) - Cardinality(fresh) + 1, Len(recent))
  IN  Len(kept) <= MaxEntries /\ fresh = ToSet(last)
=============================================================================
