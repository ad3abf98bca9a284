---------------------------- MODULE MemoryCache ----------------------------
(***************************************************************************)
(* The store of one process (app/infrastructure/cache/memory.py): a        *)
(* dictionary in the order of insertion, here a sequence of entries, with a *)
(* time to live and a limit.  The operators are atomic, as the code holds  *)
(* a lock.                                                                 *)
(***************************************************************************)
EXTENDS Listing

EntryOf(entries, key) == AtPlaces(entries, {i \in DOMAIN entries : entries[i].key = key})
Without(entries, key) == AtPlaces(entries, {i \in DOMAIN entries : entries[i].key # key})

\* MUTANT of Live: an entry is one as long as it is there.
LiveForever(entries, key, now) == EntryOf(entries, key)
\* What get finds; an entry whose time has come is no entry.
Live(entries, key, now) ==
    AtPlaces(entries, {i \in DOMAIN entries : entries[i].key = key /\ now < entries[i].expires})
AfterGet(entries, key, now) ==
    IF Live(entries, key, now) = << >> THEN Without(entries, key) ELSE entries

\* Expired entries go first, then the oldest.
Evict(entries, now, limit) ==
    LET fresh == AtPlaces(entries, {i \in DOMAIN entries : now < entries[i].expires})
    IN IF Len(fresh) <= limit THEN fresh ELSE SubSeq(fresh, Len(fresh) - limit + 1, Len(fresh))

AfterSet(entries, key, value, expires, now, limit) ==
    LET put == Append(Without(entries, key), [key |-> key, value |-> value, expires |-> expires])
    IN IF Len(put) > limit THEN Evict(put, now, limit) ELSE put
=============================================================================
