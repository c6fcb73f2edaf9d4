------------------------------ MODULE LruCache ------------------------------
(***************************************************************************)
(* packages/auth/src/cache.ts.  The Map of entries is the sequence of its  *)
(* entries in insertion order: the least recently used one is the first.   *)
(***************************************************************************)
EXTENDS Integers, SequencesExt

CONSTANTS
  Ttl,     \* the cache's ttl
  MaxSize  \* the cache's maxSize

ASSUME TtlAssumption == Ttl \in Nat \ {0}
ASSUME MaxSizeAssumption == MaxSize \in Nat \ {0}

Entry(key, value, now) == [key |-> key, value |-> value, expiresAt |-> now + Ttl]
Keys(entries) == [i \in DOMAIN entries |-> entries[i].key]
Has(entries, key) == \E i \in DOMAIN entries : entries[i].key = key
Lookup(entries, key) == CHOOSE e \in {entries[i] : i \in DOMAIN entries} : e.key = key

\* The sequence without the element at one of the indices "at", which are one or none.
Splice(s, at) == IF at = {} THEN s ELSE RemoveAt(s, CHOOSE i \in at : TRUE)

Delete(entries, key) == Splice(entries, {i \in DOMAIN entries : entries[i].key = key})
Expired(entries, key, now) == Has(entries, key) /\ now >= Lookup(entries, key).expiresAt

\* get(): does it find the key?
Hit(entries, key, now) == Has(entries, key) /\ ~ Expired(entries, key, now)

\* Variation: a hit renews the entry.
AfterGetRenewed(entries, key, now) ==
  IF Hit(entries, key, now)
  THEN Append(Delete(entries, key), Entry(key, Lookup(entries, key).value, now))
  ELSE Delete(entries, key)

\* Variation: a hit does not move the entry.
AfterGetInPlace(entries, key, now) ==
  IF Expired(entries, key, now) THEN Delete(entries, key) ELSE entries

\* The entries it leaves: an entry found moves to the end, an expired one goes.
AfterGet(entries, key, now) ==
  IF Hit(entries, key, now)
  THEN Append(Delete(entries, key), Lookup(entries, key))
  ELSE Delete(entries, key)

\* set(): the first entry makes room when the cache is full.
AfterSet(entries, key, value, now) ==
  LET others == Delete(entries, key)
      kept == IF Len(others) >= MaxSize THEN Tail(others) ELSE others
  IN Append(kept, Entry(key, value, now))
=============================================================================
