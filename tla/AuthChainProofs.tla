-------------------------- MODULE AuthChainProofs ---------------------------
(***************************************************************************)
(* Proofs about AuthChain, for every set of requests, credentials,         *)
(* methods, options, rules, parties, networks and deployments, and for     *)
(* every size and ttl of the cache.                                        *)
(***************************************************************************)
EXTENDS AuthChain, SequenceTheorems, WellFoundedInduction, TLAPS

-----------------------------------------------------------------------------
(* The cache *)

\* Splice takes out one of the indices it is given.
LEMMA SpliceRemoves ==
  ASSUME NEW S, NEW s \in Seq(S), NEW at \in SUBSET (1..Len(s)), at # {}
  PROVE  \E i \in at : /\ Splice(s, at) \in Seq(S)
                       /\ Len(Splice(s, at)) = Len(s) - 1
                       /\ \A k \in 1..(Len(s) - 1) : Splice(s, at)[k] = s[IF k < i THEN k ELSE k + 1]
  <1>1. PICK i \in at : Splice(s, at) = RemoveAt(s, i)
    BY DEF Splice
  <1>2. i \in 1..Len(s) /\ Len(s) \in Nat
    OBVIOUS
  <1> DEFINE front == SubSeq(s, 1, i - 1)
             back == SubSeq(s, i + 1, Len(s))
  <1>3. front \in Seq(S) /\ Len(front) = i - 1 /\ \A k \in 1..(i - 1) : front[k] = s[k]
    BY <1>2
  <1>4. back \in Seq(S) /\ Len(back) = Len(s) - i /\ \A k \in 1..(Len(s) - i) : back[k] = s[i + k]
    BY <1>2
  <1>5. Splice(s, at) = front \o back
    BY <1>1 DEF RemoveAt
  <1> HIDE DEF front, back
  <1>6. /\ front \o back \in Seq(S)
        /\ Len(front \o back) = Len(front) + Len(back)
        /\ \A k \in 1..(Len(front) + Len(back)) :
              (front \o back)[k] = IF k <= Len(front) THEN front[k] ELSE back[k - Len(front)]
    BY <1>3, <1>4, ConcatProperties
  <1>7. ASSUME NEW k \in 1..(Len(s) - 1)
        PROVE  (front \o back)[k] = s[IF k < i THEN k ELSE k + 1]
    <2>1. CASE k < i
      BY <1>2, <1>3, <1>4, <1>6, <2>1
    <2>2. CASE ~ (k < i)
      <3>1. (front \o back)[k] = back[k - (i - 1)]
        BY <1>2, <1>3, <1>4, <1>6, <2>2
      <3>2. k - (i - 1) \in 1..(Len(s) - i) /\ i + (k - (i - 1)) = k + 1
        BY <1>2, <2>2
      <3> QED BY <1>4, <2>2, <3>1, <3>2
    <2> QED BY <2>1, <2>2
  <1>8. Len(front \o back) = Len(s) - 1
    BY <1>2, <1>3, <1>4, <1>6
  <1> QED BY <1>5, <1>6, <1>7, <1>8

CacheEntry == [key : Token, value : {Identity[t] : t \in Token}, expiresAt : Int]

\* No credential is twice among those used, and the cached ones are their end.
AreEnd(es, us) ==
  /\ es \in Seq(CacheEntry) /\ us \in Seq(Token)
  /\ \A i, j \in 1..Len(us) : us[i] = us[j] => i = j
  /\ Len(es) <= Len(us)
  /\ \A i \in 1..Len(es) : es[i].key = us[Len(us) - Len(es) + i]

\* A credential is taken out of both.
LEMMA AreEndDelete ==
  ASSUME NEW es, NEW us, AreEnd(es, us), NEW t \in Token
  PROVE  LET ds == Delete(es, t)
             vs == Splice(us, {i \in DOMAIN us : us[i] = t})
         IN /\ AreEnd(ds, vs)
            /\ Len(ds) <= Len(es) /\ (Has(es, t) => Len(ds) < Len(es))
            /\ \A i \in 1..Len(vs) : vs[i] # t
            /\ \A i \in 1..Len(ds) : \E j \in 1..Len(es) : ds[i] = es[j]
  <1> DEFINE ds == Delete(es, t)
             inEs == {i \in DOMAIN es : es[i].key = t}
             inUs == {i \in DOMAIN us : us[i] = t}
             vs == Splice(us, inUs)
             d == Len(us) - Len(es)
             Goal == /\ AreEnd(ds, vs)
                     /\ Len(ds) <= Len(es) /\ (Has(es, t) => Len(ds) < Len(es))
                     /\ \A i \in 1..Len(vs) : vs[i] # t
                     /\ \A i \in 1..Len(ds) : \E j \in 1..Len(es) : ds[i] = es[j]
  <1> SUFFICES Goal
    OBVIOUS
  <1>0. /\ es \in Seq(CacheEntry) /\ us \in Seq(Token)
        /\ Len(es) \in Nat /\ Len(us) \in Nat /\ d \in Nat
        /\ DOMAIN es = 1..Len(es) /\ DOMAIN us = 1..Len(us)
    BY DEF AreEnd
  <1>1. ds = Splice(es, inEs)
    BY DEF Delete
  <1> HIDE DEF ds
  <1>2. \A i \in 1..Len(es) : d + i \in 1..Len(us) /\ es[i].key = us[d + i]
    BY <1>0 DEF AreEnd
  <1>3. \A i, j \in 1..Len(us) : us[i] = us[j] => i = j
    BY DEF AreEnd
  <1>4. CASE inUs = {}
    <2>1. \A i \in 1..Len(us) : us[i] # t
      BY <1>0, <1>4
    <2>2. inEs = {}
      BY <1>0, <1>2, <2>1
    <2>3. ds = es /\ vs = us
      BY <1>1, <1>4, <2>2 DEF Splice
    <2> HIDE DEF vs
    <2>4. AreEnd(ds, vs)
      BY <2>3
    <2>5. ~ Has(es, t)
      BY <2>2 DEF Has
    <2> QED BY <1>0, <2>1, <2>3, <2>4, <2>5
  <1>5. CASE inUs # {}
    <2> HIDE DEF inUs, inEs
    <2>1. PICK p \in inUs : /\ vs \in Seq(Token)
                            /\ Len(vs) = Len(us) - 1
                            /\ \A k \in 1..(Len(us) - 1) : vs[k] = us[IF k < p THEN k ELSE k + 1]
      <3>1. inUs \in SUBSET (1..Len(us))
        BY <1>0 DEF inUs
      <3> QED BY <1>0, <1>5, <3>1, SpliceRemoves
    <2> HIDE DEF vs
    <2>2. p \in 1..Len(us) /\ us[p] = t
      BY <1>0 DEF inUs
    <2>3. ASSUME NEW k \in 1..Len(vs) PROVE vs[k] # t
      <3>1. (IF k < p THEN k ELSE k + 1) \in 1..Len(us) /\ (IF k < p THEN k ELSE k + 1) # p
        BY <1>0, <2>1, <2>2
      <3>2. vs[k] = us[IF k < p THEN k ELSE k + 1]
        BY <1>0, <2>1
      <3> QED BY <1>3, <2>2, <3>1, <3>2
    <2>4. ASSUME NEW i \in 1..Len(vs), NEW j \in 1..Len(vs), vs[i] = vs[j] PROVE i = j
      <3>1. /\ (IF i < p THEN i ELSE i + 1) \in 1..Len(us) /\ (IF j < p THEN j ELSE j + 1) \in 1..Len(us)
        BY <1>0, <2>1, <2>2
      <3>2. (IF i < p THEN i ELSE i + 1) = (IF j < p THEN j ELSE j + 1)
        BY <1>3, <1>0, <2>1, <2>4, <3>1
      <3> QED BY <1>0, <2>1, <2>2, <3>2
    <2>5. CASE p <= d
      <3>1. inEs = {}
        <4>1. ASSUME NEW i \in 1..Len(es) PROVE es[i].key # t
          <5>1. d + i # p
            BY <1>0, <2>2, <2>5
          <5> QED BY <1>2, <1>3, <2>2, <5>1
        <4> QED BY <1>0, <4>1 DEF inEs
      <3>2. ds = es
        BY <1>1, <3>1 DEF Splice
      <3>3. Len(es) <= Len(vs)
        BY <1>0, <2>1, <2>2, <2>5
      <3>4. ASSUME NEW i \in 1..Len(es) PROVE es[i].key = vs[Len(vs) - Len(es) + i]
        <4>1. Len(vs) - Len(es) + i = d + i - 1 /\ d + i - 1 \in 1..(Len(us) - 1) /\ ~ (d + i - 1 < p)
              /\ (d + i - 1) + 1 = d + i
          BY <1>0, <2>1, <2>2, <2>5
        <4> QED BY <1>2, <2>1, <4>1
      <3>5. ~ Has(es, t)
        BY <3>1 DEF Has, inEs
      <3>6. AreEnd(es, vs)
        BY <1>0, <2>1, <2>4, <3>3, <3>4 DEF AreEnd
      <3>7. Len(es) <= Len(es) /\ \A i \in 1..Len(es) : \E j \in 1..Len(es) : es[i] = es[j]
        BY <1>0
      <3> QED BY <2>3, <3>2, <3>5, <3>6, <3>7
    <2>6. CASE ~ (p <= d)
      <3> DEFINE q == p - d
      <3>1. q \in 1..Len(es) /\ d + q = p
        BY <1>0, <2>2, <2>6
      <3>2. inEs = {q}
        <4>1. \A i \in 1..Len(es) : d + i = p => i = q
          BY <1>0, <2>2
        <4> QED BY <1>0, <1>2, <1>3, <2>2, <3>1, <4>1 DEF inEs
      <3> HIDE DEF q
      <3>3. /\ ds \in Seq(CacheEntry)
            /\ Len(ds) = Len(es) - 1
            /\ \A k \in 1..(Len(es) - 1) : ds[k] = es[IF k < q THEN k ELSE k + 1]
        <4>1. inEs \in SUBSET (1..Len(es)) /\ inEs # {}
          BY <3>1, <3>2
        <4>2. PICK i \in inEs :
                /\ Splice(es, inEs) \in Seq(CacheEntry)
                /\ Len(Splice(es, inEs)) = Len(es) - 1
                /\ \A k \in 1..(Len(es) - 1) : Splice(es, inEs)[k] = es[IF k < i THEN k ELSE k + 1]
          BY <1>0, <4>1, SpliceRemoves
        <4> QED BY <1>1, <3>2, <4>2
      <3>4. \A k \in 1..Len(ds) : (IF k < q THEN k ELSE k + 1) \in 1..Len(es)
        BY <1>0, <3>1, <3>3
      <3>5. Len(vs) - Len(ds) = d /\ Len(ds) <= Len(vs)
        BY <1>0, <2>1, <3>3
      <3>6. ASSUME NEW k \in 1..Len(ds) PROVE ds[k].key = vs[d + k]
        <4>1. d + k \in 1..(Len(us) - 1)
          BY <1>0, <3>1, <3>3
        <4>2. (IF d + k < p THEN d + k ELSE d + k + 1) = d + (IF k < q THEN k ELSE k + 1)
          BY <1>0, <2>2, <3>1, <3>3
        <4>3. ds[k] = es[IF k < q THEN k ELSE k + 1]
          BY <1>0, <3>3
        <4>4. vs[d + k] = us[d + (IF k < q THEN k ELSE k + 1)]
          BY <2>1, <4>1, <4>2
        <4> QED BY <1>2, <3>4, <4>3, <4>4
      <3>7. AreEnd(ds, vs)
        BY <1>0, <2>1, <2>4, <3>3, <3>5, <3>6 DEF AreEnd
      <3>8. \A i \in 1..Len(ds) : \E j \in 1..Len(es) : ds[i] = es[j]
        BY <1>0, <3>3, <3>4
      <3> QED BY <1>0, <2>3, <3>3, <3>7, <3>8
    <2> QED BY <2>5, <2>6
  <1> QED BY <1>4, <1>5

\* A credential that is in neither is added to both.
LEMMA AreEndAppend ==
  ASSUME NEW es, NEW us, AreEnd(es, us), NEW e \in CacheEntry, \A i \in 1..Len(us) : us[i] # e.key
  PROVE  AreEnd(Append(es, e), Append(us, e.key))
  <1> DEFINE ds == Append(es, e)
             vs == Append(us, e.key)
  <1>0. /\ es \in Seq(CacheEntry) /\ us \in Seq(Token) /\ e.key \in Token
        /\ Len(es) \in Nat /\ Len(us) \in Nat
    BY DEF AreEnd, CacheEntry
  <1>1. /\ ds \in Seq(CacheEntry) /\ Len(ds) = Len(es) + 1
        /\ \A i \in 1..Len(es) : ds[i] = es[i]
        /\ ds[Len(es) + 1] = e
    BY <1>0
  <1>2. /\ vs \in Seq(Token) /\ Len(vs) = Len(us) + 1
        /\ \A i \in 1..Len(us) : vs[i] = us[i]
        /\ vs[Len(us) + 1] = e.key
    BY <1>0
  <1> HIDE DEF ds, vs
  <1>3. ASSUME NEW i \in 1..Len(vs), NEW j \in 1..Len(vs), vs[i] = vs[j] PROVE i = j
    <2>1. CASE i \in 1..Len(us) /\ j \in 1..Len(us)
      BY <1>2, <1>3, <2>1 DEF AreEnd
    <2>2. CASE i = Len(us) + 1 \/ j = Len(us) + 1
      BY <1>0, <1>2, <1>3, <2>2
    <2> QED BY <1>0, <1>2, <2>1, <2>2
  <1>4. ASSUME NEW i \in 1..Len(ds) PROVE ds[i].key = vs[Len(vs) - Len(ds) + i]
    <2>1. CASE i = Len(es) + 1
      <3>1. Len(vs) - Len(ds) + i = Len(us) + 1
        BY <1>0, <1>1, <1>2, <2>1
      <3> QED BY <1>1, <1>2, <2>1, <3>1
    <2>2. CASE i # Len(es) + 1
      <3>1. i \in 1..Len(es) /\ Len(vs) - Len(ds) + i = Len(us) - Len(es) + i
        BY <1>0, <1>1, <1>2, <2>2
      <3>2. Len(us) - Len(es) + i \in 1..Len(us)
        BY <1>0, <3>1 DEF AreEnd
      <3>3. es[i].key = us[Len(us) - Len(es) + i]
        BY <3>1 DEF AreEnd
      <3>4. ds[i] = es[i] /\ vs[Len(us) - Len(es) + i] = us[Len(us) - Len(es) + i]
        BY <1>1, <1>2, <3>1, <3>2
      <3> QED BY <3>1, <3>3, <3>4
    <2> QED BY <2>1, <2>2
  <1>5. Len(ds) <= Len(vs)
    BY <1>0, <1>1, <1>2 DEF AreEnd
  <1>6. AreEnd(ds, vs)
    BY <1>1, <1>2, <1>3, <1>4, <1>5 DEF AreEnd
  <1> QED BY <1>6 DEF ds, vs

\* The cache makes room.
LEMMA AreEndTail ==
  ASSUME NEW es, NEW us, AreEnd(es, us), Len(es) > 0
  PROVE  /\ AreEnd(Tail(es), us)
         /\ Len(Tail(es)) = Len(es) - 1
         /\ \A i \in 1..Len(Tail(es)) : \E j \in 1..Len(es) : Tail(es)[i] = es[j]
  <1> DEFINE ds == Tail(es)
  <1>0. es \in Seq(CacheEntry) /\ us \in Seq(Token) /\ Len(es) \in Nat /\ Len(us) \in Nat
    BY DEF AreEnd
  <1>1. /\ ds \in Seq(CacheEntry) /\ Len(ds) = Len(es) - 1
        /\ \A i \in 1..(Len(es) - 1) : ds[i] = es[i + 1]
    BY <1>0
  <1> HIDE DEF ds
  <1>2. ASSUME NEW i \in 1..Len(ds) PROVE i + 1 \in 1..Len(es) /\ ds[i].key = us[Len(us) - Len(ds) + i]
    <2>1. i + 1 \in 1..Len(es) /\ Len(us) - Len(ds) + i = Len(us) - Len(es) + (i + 1)
      BY <1>0, <1>1
    <2>2. es[i + 1].key = us[Len(us) - Len(es) + (i + 1)]
      BY <2>1 DEF AreEnd
    <2> QED BY <1>1, <2>1, <2>2
  <1>3. AreEnd(ds, us)
    BY <1>0, <1>1, <1>2 DEF AreEnd
  <1>4. \A i \in 1..Len(ds) : \E j \in 1..Len(es) : ds[i] = es[j]
    BY <1>1, <1>2
  <1> QED BY <1>1, <1>3, <1>4 DEF ds

\* What AreEnd means for the property.
LEMMA AreEndIsSuffix ==
  ASSUME NEW es, NEW us, AreEnd(es, us)
  PROVE  IsSuffix(Keys(es), us)
  <1> DEFINE ks == Keys(es)
             rs == Reverse(ks)
             ru == Reverse(us)
  <1>0. es \in Seq(CacheEntry) /\ us \in Seq(Token) /\ Len(es) \in Nat /\ Len(us) \in Nat
    BY DEF AreEnd
  <1>1. ks \in Seq(Token) /\ Len(ks) = Len(es) /\ \A i \in 1..Len(es) : ks[i] = es[i].key
    <2>1. ks = [i \in 1..Len(es) |-> es[i].key]
      BY <1>0 DEF Keys
    <2>2. ASSUME NEW i \in 1..Len(es) PROVE es[i].key \in Token
      <3>1. es[i] \in CacheEntry
        BY <1>0
      <3> QED BY <3>1 DEF CacheEntry
    <2> QED BY <1>0, <2>1, <2>2
  <1> HIDE DEF ks
  <1>2. rs \in Seq(Token) /\ Len(rs) = Len(es) /\ \A i \in 1..Len(es) : rs[i] = ks[Len(es) - i + 1]
    BY <1>0, <1>1 DEF Reverse
  <1>3. ru \in Seq(Token) /\ Len(ru) = Len(us) /\ \A i \in 1..Len(us) : ru[i] = us[Len(us) - i + 1]
    BY <1>0 DEF Reverse
  <1> HIDE DEF rs, ru
  <1>4. Len(es) <= Len(us)
    BY DEF AreEnd
  <1>5. ASSUME NEW i \in 1..Len(es) PROVE rs[i] = ru[i]
    <2>1. /\ Len(es) - i + 1 \in 1..Len(es)
          /\ i \in 1..Len(us)
          /\ Len(us) - Len(es) + (Len(es) - i + 1) = Len(us) - i + 1
      BY <1>0, <1>4
    <2>2. es[Len(es) - i + 1].key = us[Len(us) - i + 1]
      BY <2>1 DEF AreEnd
    <2> QED BY <1>1, <1>2, <1>3, <2>1, <2>2
  <1>6. SubSeq(rs, 1, Len(rs)) = SubSeq(ru, 1, Len(rs))
    BY <1>0, <1>2, <1>3, <1>4, <1>5
  <1> QED BY <1>2, <1>3, <1>4, <1>6 DEF IsSuffix, IsPrefix, ks, rs, ru

-----------------------------------------------------------------------------
(* The cache over time *)

\* An entry holds the context of its own credential, and no longer than one ttl
\* after the store has confirmed it.
EntryMeaning(e) ==
  e.value = Identity[e.key] /\ e.value # Undefined /\ e.expiresAt <= confirmed[e.key] + Ttl

CacheMeaning ==
  /\ clock \in Nat
  /\ confirmed \in [Token -> Int] /\ \A t \in Token : confirmed[t] <= clock
  /\ AreEnd(entries, used)
  /\ Len(entries) <= MaxSize
  /\ \A i \in 1..Len(entries) : EntryMeaning(entries[i])

LEMMA LookupFinds ==
  ASSUME NEW es \in Seq(CacheEntry), NEW t \in Token, Has(es, t)
  PROVE  \E i \in 1..Len(es) : Lookup(es, t) = es[i] /\ es[i].key = t
  <1>1. PICK i \in 1..Len(es) : es[i].key = t
    BY DEF Has
  <1>2. es[i] \in {es[j] : j \in DOMAIN es}
    OBVIOUS
  <1>3. Lookup(es, t) \in {es[j] : j \in DOMAIN es} /\ Lookup(es, t).key = t
    BY <1>1, <1>2 DEF Lookup
  <1> QED BY <1>3

\* Looking up or setting a credential takes it out of its place first.
LEMMA CredentialLeaves ==
  ASSUME CacheMeaning, NEW t \in Token
  PROVE  /\ AreEnd(Delete(entries, t), UsedBut(t))
         /\ Len(Delete(entries, t)) <= Len(entries)
         /\ Has(entries, t) => Len(Delete(entries, t)) < Len(entries)
         /\ \A i \in 1..Len(UsedBut(t)) : UsedBut(t)[i] # t
         /\ \A i \in 1..Len(Delete(entries, t)) :
              \E j \in 1..Len(entries) : Delete(entries, t)[i] = entries[j]
  BY AreEndDelete DEF CacheMeaning, UsedBut

\* get() leaves the cache as it should be.
LEMMA AfterGetKeeps ==
  ASSUME CacheMeaning, NEW t \in Token
  PROVE  LET es == AfterGet(entries, t, clock)
             us == IF Hit(entries, t, clock) THEN Append(UsedBut(t), t) ELSE UsedBut(t)
         IN AreEnd(es, us) /\ Len(es) <= MaxSize /\ \A i \in 1..Len(es) : EntryMeaning(es[i])
  <1> DEFINE ds == Delete(entries, t)
             vs == UsedBut(t)
             e == Lookup(entries, t)
  <1>0. entries \in Seq(CacheEntry) /\ Len(entries) \in Nat /\ Len(entries) <= MaxSize
    BY DEF CacheMeaning, AreEnd
  <1>1. /\ AreEnd(ds, vs)
        /\ Len(ds) <= Len(entries) /\ (Has(entries, t) => Len(ds) < Len(entries))
        /\ \A i \in 1..Len(vs) : vs[i] # t
        /\ \A i \in 1..Len(ds) : \E j \in 1..Len(entries) : ds[i] = entries[j]
    BY CredentialLeaves
  <1>2. \A i \in 1..Len(ds) : EntryMeaning(ds[i])
    BY <1>1 DEF CacheMeaning
  <1>3. ds \in Seq(CacheEntry) /\ Len(ds) \in Nat
    BY <1>1 DEF AreEnd
  <1>4. CASE ~ Hit(entries, t, clock)
    BY <1>0, <1>1, <1>2, <1>3, <1>4, MaxSizeAssumption DEF AfterGet
  <1>5. CASE Hit(entries, t, clock)
    <2>1. e \in CacheEntry /\ e.key = t /\ EntryMeaning(e)
      BY <1>0, <1>5, LookupFinds DEF Hit, CacheMeaning
    <2>2. AfterGet(entries, t, clock) = Append(ds, e)
      BY <1>5 DEF AfterGet
    <2>3. Len(ds) < Len(entries)
      BY <1>1, <1>5 DEF Hit
    <2> HIDE DEF ds, vs, e
    <2>4. AreEnd(Append(ds, e), Append(vs, t))
      BY <1>1, <2>1, AreEndAppend
    <2>5. Len(Append(ds, e)) <= MaxSize
      BY <1>0, <1>3, <2>1, <2>3, MaxSizeAssumption
    <2>6. \A i \in 1..Len(Append(ds, e)) : EntryMeaning(Append(ds, e)[i])
      BY <1>2, <1>3, <2>1
    <2> QED BY <1>5, <2>2, <2>4, <2>5, <2>6 DEF vs
  <1> QED BY <1>4, <1>5

\* And so does set() with the answer of the store.
LEMMA AfterSetKeeps ==
  ASSUME CacheMeaning, NEW t \in Token, Identity[t] # Undefined,
         confirmed' = [confirmed EXCEPT ![t] = clock]
  PROVE  LET es == AfterSet(entries, t, Identity[t], clock)
         IN AreEnd(es, Append(UsedBut(t), t)) /\ Len(es) <= MaxSize
            /\ \A i \in 1..Len(es) : es[i].value = Identity[es[i].key] /\ es[i].value # Undefined
                                     /\ es[i].expiresAt <= confirmed'[es[i].key] + Ttl
  <1> DEFINE ds == Delete(entries, t)
             vs == UsedBut(t)
             kept == IF Len(ds) >= MaxSize THEN Tail(ds) ELSE ds
             e == Entry(t, Identity[t], clock)
             Fresh(x) == x.value = Identity[x.key] /\ x.value # Undefined
                         /\ x.expiresAt <= confirmed'[x.key] + Ttl
  <1>0. /\ entries \in Seq(CacheEntry) /\ Len(entries) \in Nat /\ Len(entries) <= MaxSize
        /\ clock \in Nat
    BY DEF CacheMeaning, AreEnd
  <1>1. /\ AreEnd(ds, vs)
        /\ Len(ds) <= Len(entries) /\ (Has(entries, t) => Len(ds) < Len(entries))
        /\ \A i \in 1..Len(vs) : vs[i] # t
        /\ \A i \in 1..Len(ds) : \E j \in 1..Len(entries) : ds[i] = entries[j]
    BY CredentialLeaves
  <1>2. ds \in Seq(CacheEntry) /\ Len(ds) \in Nat
    BY <1>1 DEF AreEnd
  <1>3. AfterSet(entries, t, Identity[t], clock) = Append(kept, e)
    BY DEF AfterSet
  <1>4. /\ AreEnd(kept, vs)
        /\ Len(kept) \in Nat /\ Len(kept) < MaxSize
        /\ \A i \in 1..Len(kept) : \E j \in 1..Len(ds) : kept[i] = ds[j]
    <2> HIDE DEF ds, vs
    <2>1. CASE Len(ds) >= MaxSize
      <3>1. kept = Tail(ds) /\ Len(ds) > 0 /\ Len(ds) <= MaxSize
        BY <1>0, <1>1, <1>2, <2>1, MaxSizeAssumption
      <3>2. /\ AreEnd(Tail(ds), vs) /\ Len(Tail(ds)) = Len(ds) - 1
            /\ \A i \in 1..Len(Tail(ds)) : \E j \in 1..Len(ds) : Tail(ds)[i] = ds[j]
        BY <1>1, <3>1, AreEndTail
      <3> HIDE DEF kept
      <3>3. Len(kept) \in Nat /\ Len(kept) < MaxSize
        BY <1>2, <3>1, <3>2, MaxSizeAssumption
      <3> QED BY <3>1, <3>2, <3>3
    <2>2. CASE ~ (Len(ds) >= MaxSize)
      BY <1>1, <1>2, <2>2, MaxSizeAssumption
    <2> QED BY <2>1, <2>2
  <1>5. e \in CacheEntry /\ e.key = t /\ e.value = Identity[t] /\ e.expiresAt = clock + Ttl
    BY <1>0, TtlAssumption DEF Entry, CacheEntry
  <1> HIDE DEF ds, vs, kept, e
  <1>6. AreEnd(Append(kept, e), Append(vs, t))
    BY <1>1, <1>4, <1>5, AreEndAppend
  <1>7. kept \in Seq(CacheEntry)
    BY <1>4 DEF AreEnd
  <1>8. Len(Append(kept, e)) <= MaxSize
    BY <1>4, <1>5, <1>7, MaxSizeAssumption
  <1>9. \A k \in Token : confirmed[k] \in Int /\ confirmed'[k] \in Int /\ confirmed'[k] >= confirmed[k]
    BY <1>0 DEF CacheMeaning
  <1>10. ASSUME NEW i \in 1..Len(kept) PROVE Fresh(kept[i])
    <2>1. PICK j \in 1..Len(entries) : kept[i] = entries[j]
      BY <1>1, <1>4
    <2>2. EntryMeaning(entries[j])
      BY DEF CacheMeaning
    <2>3. kept[i].key \in Token /\ kept[i].expiresAt \in Int
      <3>1. kept[i] \in CacheEntry
        BY <1>7
      <3> QED BY <3>1 DEF CacheEntry
    <2> QED BY <1>9, <2>1, <2>2, <2>3, TtlAssumption DEF EntryMeaning
  <1>11. Fresh(e)
    BY <1>0, <1>5, TtlAssumption DEF CacheMeaning
  <1> HIDE DEF Fresh
  <1>12. \A i \in 1..Len(Append(kept, e)) : Fresh(Append(kept, e)[i])
    BY <1>4, <1>5, <1>7, <1>10, <1>11
  <1> QED BY <1>3, <1>6, <1>8, <1>12 DEF vs, Fresh

-----------------------------------------------------------------------------
(* Requests *)

Rejections == {"unauthenticated", "permission_denied", "failed"}
Live == {"authn", "verifying", "verified", "trusting", "asking", "handler"}

Internal(m) == MatchesMethodPattern(m, GetInternalMethods)

\* Whom a request runs as, wherever it is: credentials, markers and gateways belong to
\* different methods and deployments, and a context comes from the one there is.
IdentityMeaning(q) ==
  /\ q = [pc |-> q.pc, method |-> q.method, token |-> q.token, marker |-> q.marker, gateway |-> q.gateway,
          context |-> q.context, age |-> q.age, expired |-> q.expired]
  /\ q.age \in Int /\ q.age < Ttl /\ q.expired = FALSE
  /\ q.token # Undefined =>
       /\ q.token \in Token /\ deploy.authn # "gateway" /\ ~ Internal(q.method)
       /\ q.context # Undefined => q.context = Identity[q.token]
  /\ q.marker # Undefined =>
       /\ Internal(q.method)
       /\ q.context # Undefined => Vouched(q.marker, q.context)
  /\ q.gateway # Undefined =>
       /\ q.gateway \in GatewayHeaders /\ deploy.authn = "gateway"
       /\ q.context # Undefined => Trusted(q.gateway)

\* What its place in the chain says of it.
PlaceMeaning(q) ==
  /\ q.pc \in {"idle"} \cup Rejections \cup Live
  /\ q.pc \in Live => q.method \in Method /\ (q.gateway # Undefined => ~ Internal(q.method))
  /\ q.pc \notin Live => q.token = Undefined /\ q.marker = Undefined /\ q.context = Undefined
  /\ q.pc \in {"authn", "verifying"} => q.context = Undefined
  /\ q.pc \in {"verifying", "verified"} => q.token # Undefined
  /\ q.pc = "verified" => q.context = Identity[q.token] /\ q.context # Undefined
  /\ q.pc = "trusting" => Internal(q.method) /\ deploy.trust # "none"
  /\ q.pc = "asking" => q.context # Undefined
  /\ q.pc = "handler" /\ q.context = Undefined => Open(q.method)
  /\ q.pc = "unauthenticated" /\ q.gateway # Undefined => ~ Trusted(q.gateway)

RequestMeaning(q) == IdentityMeaning(q) /\ PlaceMeaning(q)

AuthIInv ==
  /\ deploy \in Deployment
  /\ CacheMeaning
  /\ request = [r \in Request |-> request[r]]
  /\ \A r \in Request : RequestMeaning(request[r])

-----------------------------------------------------------------------------
(* Decisions *)

\* Names of methods match as patterns only themselves.
LEMMA NamesMatchThemselves ==
  ASSUME NEW m \in Method, NEW S \in SUBSET Method
  PROVE  MatchesMethodPattern(m, S) <=> m \in S
  <1>1. \A p \in S : p # <<"*">> /\ p # <<m[1], "*">>
    <2> SUFFICES ASSUME NEW p \in S PROVE p # <<"*">> /\ p # <<m[1], "*">>
      OBVIOUS
    <2>1. p = <<p[1], p[2]>> /\ p[2] # "*"
      BY MethodAssumption
    <2>2. Len(<<p[1], p[2]>>) = 2 /\ Len(<<"*">>) = 1
      OBVIOUS
    <2>3. p # <<"*">>
      BY <2>1, <2>2
    <2>4. <<m[1], "*">>[2] = "*"
      OBVIOUS
    <2> QED BY <2>1, <2>3, <2>4
  <1> QED BY <1>1 DEF MatchesMethodPattern

LEMMA PublicAndInternal ==
  ASSUME NEW m \in Method
  PROVE  /\ MatchesMethodPattern(m, GetPublicMethods) <=> ResolveMethodAuth(m).public
         /\ Internal(m) <=> ResolveMethodAuth(m).internal
         /\ MatchesMethodPattern(m, SkipMethods) <=>
              ResolveMethodAuth(m).public \/ ResolveMethodAuth(m).internal
  <1>1. GetPublicMethods \in SUBSET Method /\ GetInternalMethods \in SUBSET Method
        /\ SkipMethods \in SUBSET Method
    BY DEF GetPublicMethods, GetInternalMethods, SkipMethods
  <1>2. MatchesMethodPattern(m, GetPublicMethods) <=> m \in GetPublicMethods
    BY <1>1, NamesMatchThemselves
  <1>3. Internal(m) <=> m \in GetInternalMethods
    BY <1>1, NamesMatchThemselves DEF Internal
  <1>4. MatchesMethodPattern(m, SkipMethods) <=> m \in SkipMethods
    BY <1>1, NamesMatchThemselves
  <1>5. /\ m \in GetPublicMethods <=> ResolveMethodAuth(m).public
        /\ m \in GetInternalMethods <=> ResolveMethodAuth(m).internal
    BY DEF GetPublicMethods, GetInternalMethods
  <1>6. m \in SkipMethods <=> m \in GetPublicMethods \/ m \in GetInternalMethods
    BY DEF SkipMethods
  <1> QED BY <1>2, <1>3, <1>4, <1>5, <1>6

LEMMA SmallestIndex ==
  ASSUME NEW T \in SUBSET Nat, T # {}
  PROVE  \E i \in T : \A j \in T : i <= j
  <1>1. PICK i \in T : \A j \in T : ~ (<<j, i>> \in OpToRel(<, Nat))
    BY NatLessThanWellFounded, WFMin
  <1>2. \A j \in T : ~ (j < i)
    BY <1>1 DEF OpToRel
  <1> QED BY <1>2

\* The effect of the rules is that of a rule that applies.
LEMMA SomeRuleApplies ==
  ASSUME NEW m, NEW context, EvaluateRules(context, m) # Undefined
  PROVE  \E i \in DOMAIN Rules :
           /\ Applies(Rules[i], context, m)
           /\ EvaluateRules(context, m) = Rules[i].effect
           /\ Rules[i].effect \in {"allow", "deny"}
  <1> DEFINE applying == {i \in DOMAIN Rules : Applies(Rules[i], context, m)}
  <1>1. applying # {}
    BY DEF EvaluateRules
  <1>2. applying \in SUBSET Nat
    BY RulesAssumption
  <1>3. \E i \in applying : \A j \in applying : i <= j
    BY <1>1, <1>2, SmallestIndex
  <1> DEFINE first == CHOOSE i \in applying : \A j \in applying : i <= j
  <1>4. first \in applying
    BY <1>3
  <1>5. EvaluateRules(context, m) = Rules[first].effect
    BY <1>1 DEF EvaluateRules
  <1> HIDE DEF first
  <1>6. first \in DOMAIN Rules /\ Applies(Rules[first], context, m)
    BY <1>4
  <1>7. Rules[first] \in AuthzRule
    BY <1>6, RulesAssumption
  <1> QED BY <1>5, <1>6, <1>7 DEF AuthzRule

\* Who has no identity is let through only where the configuration says so.
LEMMA AnonymousIsOpen ==
  ASSUME NEW m \in Method, Decision(m, Undefined) = "next"
  PROVE  Open(m)
  <1> DEFINE resolved == ResolveMethodAuth(m)
  <1>1. CASE deploy.authz # "proto"
    <2>1. MatchesMethodPattern(m, GetPublicMethods)
      BY <1>1 DEF Decision, AuthzDecision
    <2> QED BY <2>1, PublicAndInternal DEF Open
  <1>2. CASE deploy.authz = "proto" /\ ~ resolved.public
    <2>0. ProtoDecision(m, Undefined, deploy.callback) = "next"
      BY <1>2 DEF Decision
    <2>1. ~ resolved.internal /\ ProtoPolicy(m, Undefined, deploy.callback) = "next"
      BY <1>2, <2>0 DEF ProtoDecision
    <2>2. resolved.requires = Undefined
      BY <2>1 DEF ProtoPolicy, Refused
    <2>3. resolved.policy \in {"allow", "deny", Undefined}
      BY DEF ResolveMethodAuth, NormalizePolicy
    <2>4. CASE resolved.policy = "allow"
      BY <1>2, <2>1, <2>2, <2>4 DEF Open
    <2>5. CASE resolved.policy # "allow"
      <3>1. resolved.policy = Undefined /\ ProtoFallback(m, Undefined, deploy.callback) = "next"
        BY <2>1, <2>2, <2>3, <2>5 DEF ProtoPolicy
      <3>2. CASE EvaluateRules(Undefined, m) # Undefined
        <4>1. PICK i \in DOMAIN Rules :
                /\ Applies(Rules[i], Undefined, m)
                /\ EvaluateRules(Undefined, m) = Rules[i].effect
                /\ Rules[i].effect \in {"allow", "deny"}
          BY <3>2, SomeRuleApplies
        <4>2. Rules[i].effect = "allow"
          BY <3>1, <3>2, <4>1 DEF ProtoFallback
        <4>3. MatchesMethodPattern(m, Rules[i].methods) /\ Rules[i].requires = Undefined
          BY <4>1 DEF Applies
        <4> QED BY <1>2, <2>1, <2>2, <3>1, <4>2, <4>3 DEF Open
      <3>3. CASE EvaluateRules(Undefined, m) = Undefined
        <4>1. DefaultPolicy = "allow"
          BY <3>1, <3>3, DefaultPolicyAssumption DEF ProtoFallback, Refused
        <4> QED BY <1>2, <2>1, <2>2, <3>1, <4>1 DEF Open
      <3> QED BY <3>2, <3>3
    <2> QED BY <2>4, <2>5
  <1>3. CASE resolved.public
    BY <1>3 DEF Open
  <1> QED BY <1>1, <1>2, <1>3

\* The callback is asked only about an identity; an identity is never
\* "unauthenticated", and a public method never refused.
LEMMA DecisionMeaning ==
  ASSUME NEW m \in Method, NEW context
  PROVE  /\ Decision(m, context) \in {"next", "ask"} \cup Rejections
         /\ Decision(m, context) = "ask" => context # Undefined
         /\ context # Undefined => Decision(m, context) # "unauthenticated"
         /\ ResolveMethodAuth(m).public => Decision(m, context) = "next"
  <1>1. CASE deploy.authz = "proto"
    <2>1. Decision(m, context) = ProtoDecision(m, context, deploy.callback)
      BY <1>1 DEF Decision
    <2>2. /\ ProtoFallback(m, context, deploy.callback) \in {"next", "ask"} \cup Rejections
          /\ ProtoFallback(m, context, deploy.callback) = "ask" => context # Undefined
          /\ context # Undefined => ProtoFallback(m, context, deploy.callback) # "unauthenticated"
      BY DEF ProtoFallback, Refused, Rejections
    <2>3. /\ ProtoPolicy(m, context, deploy.callback) \in {"next", "ask"} \cup Rejections
          /\ ProtoPolicy(m, context, deploy.callback) = "ask" => context # Undefined
          /\ context # Undefined => ProtoPolicy(m, context, deploy.callback) # "unauthenticated"
      BY <2>2 DEF ProtoPolicy, Refused, Rejections
    <2> QED BY <2>1, <2>3 DEF ProtoDecision, Rejections
  <1>2. CASE deploy.authz # "proto"
    <2>1. Decision(m, context) = AuthzDecision(m, context, GetPublicMethods, deploy.callback)
      BY <1>2 DEF Decision
    <2> QED BY <2>1, PublicAndInternal DEF AuthzDecision, Rejections
  <1> QED BY <1>1, <1>2

-----------------------------------------------------------------------------
(* Networks *)

LEMMA SameQuotient ==
  ASSUME NEW a \in Nat, NEW b \in Nat, NEW n \in Nat \ {0}
  PROVE  (a - (a % n) = b - (b % n)) <=> (a \div n = b \div n)
  <1> DEFINE qa == a \div n
             qb == b \div n
  <1>1. a = n * qa + (a % n) /\ a % n \in 0..(n - 1) /\ qa \in Int
    OBVIOUS
  <1>2. b = n * qb + (b % n) /\ b % n \in 0..(n - 1) /\ qb \in Int
    OBVIOUS
  <1> HIDE DEF qa, qb
  <1>3. n * qa = n * qb => qa = qb
    BY <1>1, <1>2
  <1> QED BY <1>1, <1>2, <1>3 DEF qa, qb

\* Masking, with JavaScript's shift and its special case of a prefix of 0, decides
\* whether the leading bits agree.
LEMMA MaskingIsRange ==
  ASSUME NEW address \in Address, NEW range,
         range.network \in Address, range.prefix \in 0..Width
  PROVE  MatchesIp(address, range) <=> InRange(address, range)
  <1> DEFINE rest == 2^(Width - range.prefix)
  <1>0. Width \in Nat \ {0} /\ range.prefix \in Nat
    BY WidthAssumption
  <1>1. rest \in Nat \ {0} /\ 2^Width \in Nat \ {0}
    BY <1>0, PowersAssumption
  <1>2. address \in Nat /\ range.network \in Nat
    BY <1>1 DEF Address
  <1>3. CASE range.prefix = 0
    <2>1. MatchesIp(address, range)
      BY <1>3 DEF MatchesIp, Masked
    <2>2. rest = 2^Width
      BY <1>0, <1>3
    <2>3. address \div 2^Width = 0 /\ range.network \div 2^Width = 0
      BY <1>1 DEF Address
    <2> QED BY <2>1, <2>2, <2>3 DEF InRange
  <1>4. CASE range.prefix # 0
    <2>1. (Width - range.prefix) % Width = Width - range.prefix
      BY <1>0, <1>4
    <2>2. /\ Masked(address, range.prefix) = address - (address % rest)
          /\ Masked(range.network, range.prefix) = range.network - (range.network % rest)
      BY <1>4, <2>1 DEF Masked, Shifted
    <2> HIDE DEF rest
    <2>3. (address - (address % rest) = range.network - (range.network % rest))
            <=> (address \div rest = range.network \div rest)
      BY <1>1, <1>2, SameQuotient
    <2> QED BY <2>2, <2>3 DEF MatchesIp, InRange, rest
  <1> QED BY <1>3, <1>4

LEMMA TrustedIsInRange ==
  ASSUME deploy \in Deployment, NEW gateway
  PROVE  IsTrusted(gateway.value) /\ gateway.subject <=> Trusted(gateway)
  <1>1. \A range \in deploy.expectedValues : range.network \in Address /\ range.prefix \in 0..Width
    BY DeploymentAssumption
  <1>2. gateway.value \in Address =>
          \A range \in deploy.expectedValues :
            MatchesIp(gateway.value, range) <=> InRange(gateway.value, range)
    BY <1>1, MaskingIsRange
  <1> QED BY <1>2 DEF IsTrusted, Trusted

-----------------------------------------------------------------------------
(* The steps of a request *)

\* A request moves without changing whom it runs as.
LEMMA MovesOnly ==
  ASSUME NEW q, IdentityMeaning(q), NEW place
  PROVE  LET n == [q EXCEPT !.pc = place]
         IN /\ IdentityMeaning(n)
            /\ n.pc = place /\ n.method = q.method /\ n.token = q.token /\ n.marker = q.marker
            /\ n.gateway = q.gateway /\ n.context = q.context
  <1> DEFINE n == [q EXCEPT !.pc = place]
  <1>1. n = [pc |-> place, method |-> q.method, token |-> q.token, marker |-> q.marker, gateway |-> q.gateway,
             context |-> q.context, age |-> q.age, expired |-> q.expired]
    BY DEF IdentityMeaning
  <1> HIDE DEF n
  <1>2. /\ n.pc = place /\ n.method = q.method /\ n.token = q.token /\ n.marker = q.marker
        /\ n.gateway = q.gateway /\ n.context = q.context /\ n.age = q.age /\ n.expired = q.expired
    BY <1>1
  <1>3. IdentityMeaning(n)
    BY <1>1, <1>2 DEF IdentityMeaning
  <1> QED BY <1>2, <1>3 DEF n

\* A request is given a context: that of its credential, one its marker's maker may
\* vouch for, or that of the user its trusted headers name.
LEMMA GetsContext ==
  ASSUME NEW q, IdentityMeaning(q), NEW context,
         q.token # Undefined /\ context # Undefined => context = Identity[q.token],
         q.marker # Undefined /\ context # Undefined =>
           Vouched(q.marker, context),
         q.gateway # Undefined /\ context # Undefined => Trusted(q.gateway)
  PROVE  LET n == [q EXCEPT !.context = context]
         IN /\ IdentityMeaning(n)
            /\ n.pc = q.pc /\ n.method = q.method /\ n.token = q.token /\ n.marker = q.marker
            /\ n.gateway = q.gateway /\ n.context = context
  <1> DEFINE n == [q EXCEPT !.context = context]
  <1>1. n = [pc |-> q.pc, method |-> q.method, token |-> q.token, marker |-> q.marker, gateway |-> q.gateway,
             context |-> context, age |-> q.age, expired |-> q.expired]
    BY DEF IdentityMeaning
  <1> HIDE DEF n
  <1>2. /\ n.pc = q.pc /\ n.method = q.method /\ n.token = q.token /\ n.marker = q.marker
        /\ n.gateway = q.gateway /\ n.context = context /\ n.age = q.age /\ n.expired = q.expired
    BY <1>1
  <1>3. IdentityMeaning(n)
    BY <1>1, <1>2 DEF IdentityMeaning
  <1> QED BY <1>2, <1>3 DEF n

\* The history of its acceptance is noted.
LEMMA GetsAge ==
  ASSUME NEW q, IdentityMeaning(q),
         NEW n, n = [[q EXCEPT !.age = n.age] EXCEPT !.expired = n.expired],
         n.age \in Int, n.age < Ttl, n.expired = FALSE
  PROVE  /\ IdentityMeaning(n)
         /\ n.pc = q.pc /\ n.method = q.method /\ n.token = q.token /\ n.marker = q.marker
         /\ n.gateway = q.gateway /\ n.context = q.context
  <1> DEFINE o == [q EXCEPT !.age = n.age]
  <1>1. o = [pc |-> q.pc, method |-> q.method, token |-> q.token, marker |-> q.marker, gateway |-> q.gateway,
             context |-> q.context, age |-> n.age, expired |-> q.expired]
    BY DEF IdentityMeaning
  <1> HIDE DEF o
  <1>2. /\ o.pc = q.pc /\ o.method = q.method /\ o.token = q.token /\ o.marker = q.marker
        /\ o.gateway = q.gateway /\ o.context = q.context /\ o.age = n.age
    BY <1>1
  <1>3. o = [pc |-> o.pc, method |-> o.method, token |-> o.token, marker |-> o.marker, gateway |-> o.gateway,
             context |-> o.context, age |-> o.age, expired |-> o.expired]
    BY <1>1
  <1>4. n = [pc |-> o.pc, method |-> o.method, token |-> o.token, marker |-> o.marker, gateway |-> o.gateway,
             context |-> o.context, age |-> o.age, expired |-> n.expired]
    BY <1>3 DEF o
  <1>5. /\ n.pc = q.pc /\ n.method = q.method /\ n.token = q.token /\ n.marker = q.marker
        /\ n.gateway = q.gateway /\ n.context = q.context /\ n.expired = FALSE
    BY <1>2, <1>4
  <1>6. IdentityMeaning(n)
    BY <1>4, <1>5 DEF IdentityMeaning
  <1> QED BY <1>5, <1>6

\* A request that is refused keeps its gateway headers; it is unauthenticated
\* only if those are not trusted.
LEMMA RejectionMeaning ==
  ASSUME NEW q, IdentityMeaning(q), NEW code \in Rejections,
         code = "unauthenticated" /\ q.gateway # Undefined => ~ Trusted(q.gateway)
  PROVE  RequestMeaning(NewRequest(code, Undefined, Undefined, Undefined, q.gateway))
  <1> DEFINE n == NewRequest(code, Undefined, Undefined, Undefined, q.gateway)
  <1>1. n = [pc |-> code, method |-> Undefined, token |-> Undefined, marker |-> Undefined,
             gateway |-> q.gateway, context |-> Undefined, age |-> 0, expired |-> FALSE]
    BY DEF NewRequest
  <1> HIDE DEF n
  <1>2. /\ n.pc = code /\ n.method = Undefined /\ n.token = Undefined /\ n.marker = Undefined
        /\ n.gateway = q.gateway /\ n.context = Undefined /\ n.age = 0 /\ n.expired = FALSE
    BY <1>1
  <1>3. IdentityMeaning(n)
    BY <1>1, <1>2, TtlAssumption DEF IdentityMeaning
  <1>4. PlaceMeaning(n)
    BY <1>2 DEF PlaceMeaning, Rejections, Live
  <1> QED BY <1>3, <1>4 DEF RequestMeaning, n

\* A request with the identity of q is decided: what it becomes is as it should be.
LEMMA AuthorizeMeaning ==
  ASSUME NEW r \in Request, NEW q, IdentityMeaning(q), q.method \in Method,
         q.gateway # Undefined =>
           ~ Internal(q.method) /\ (q.context # Undefined \/ ResolveMethodAuth(q.method).public),
         q.gateway = request[r].gateway, IdentityMeaning(request[r]),
         Authorize(r, q)
  PROVE  \E n : RequestMeaning(n) /\ Becomes(r, n)
  <1> DEFINE decision == Decision(q.method, q.context)
  <1>1. /\ decision \in {"next", "ask"} \cup Rejections
        /\ decision = "ask" => q.context # Undefined
        /\ q.context # Undefined => decision # "unauthenticated"
        /\ ResolveMethodAuth(q.method).public => decision = "next"
    BY DecisionMeaning
  <1>2. decision = "next" /\ q.context = Undefined => Open(q.method)
    BY AnonymousIsOpen
  <1>3. CASE decision \in {"next", "ask"}
    <2> DEFINE place == IF decision = "next" THEN "handler" ELSE "asking"
               n == [q EXCEPT !.pc = place]
    <2>1. Becomes(r, n)
      BY <1>3 DEF Authorize
    <2>2. /\ IdentityMeaning(n)
          /\ n.pc = place /\ n.method = q.method /\ n.token = q.token /\ n.marker = q.marker
          /\ n.gateway = q.gateway /\ n.context = q.context
      BY MovesOnly
    <2> HIDE DEF n, decision
    <2>3. PlaceMeaning(n)
      BY <1>1, <1>2, <1>3, <2>2 DEF PlaceMeaning, Rejections, Live
    <2> QED BY <2>1, <2>2, <2>3 DEF RequestMeaning
  <1>4. CASE decision \in Rejections
    <2>0. decision \notin {"next", "ask"}
      BY <1>4 DEF Rejections
    <2>1. Rejected(r, decision)
      BY <2>0 DEF Authorize
    <2> HIDE DEF decision
    <2>2. decision = "unauthenticated" /\ request[r].gateway # Undefined => ~ Trusted(request[r].gateway)
      BY <1>1, <1>4, <2>0
    <2>3. RequestMeaning(NewRequest(decision, Undefined, Undefined, Undefined, request[r].gateway))
      BY <1>4, <2>2, RejectionMeaning
    <2> QED BY <2>1, <2>3 DEF Rejected, Becomes
  <1> QED BY <1>1, <1>3, <1>4

LEMMA OnwardMeaning ==
  ASSUME NEW r \in Request, NEW q, IdentityMeaning(q), q.method \in Method,
         q.gateway # Undefined =>
           ~ Internal(q.method) /\ (q.context # Undefined \/ ResolveMethodAuth(q.method).public),
         q.gateway = request[r].gateway, IdentityMeaning(request[r]),
         Onward(r, q)
  PROVE  \E n : RequestMeaning(n) /\ Becomes(r, n)
  <1>1. CASE deploy.trust # "none" /\ Internal(q.method)
    <2> DEFINE n == [q EXCEPT !.pc = "trusting"]
    <2>1. Becomes(r, n)
      BY <1>1 DEF Onward, Internal
    <2>2. /\ IdentityMeaning(n)
          /\ n.pc = "trusting" /\ n.method = q.method /\ n.token = q.token /\ n.marker = q.marker
          /\ n.gateway = q.gateway /\ n.context = q.context
      BY MovesOnly
    <2> HIDE DEF n
    <2>3. PlaceMeaning(n)
      BY <1>1, <2>2 DEF PlaceMeaning, Rejections, Live
    <2> QED BY <2>1, <2>2, <2>3 DEF RequestMeaning
  <1>2. CASE ~ (deploy.trust # "none" /\ Internal(q.method))
    <2>1. Authorize(r, q)
      BY <1>2 DEF Onward, Internal
    <2> QED BY <2>1, AuthorizeMeaning
  <1> QED BY <1>1, <1>2

\* One request becomes something as it should be, the others stay.
LEMMA OneRequestMoves ==
  ASSUME AuthIInv, UNCHANGED deploy, NEW r \in Request,
         \E n : RequestMeaning(n) /\ Becomes(r, n)
  PROVE  /\ request' = [s \in Request |-> request'[s]]
         /\ \A s \in Request : RequestMeaning(request[s])'
  <1>1. PICK n : RequestMeaning(n) /\ Becomes(r, n)
    OBVIOUS
  <1>2. /\ request' = [s \in Request |-> request'[s]]
        /\ \A s \in Request : request'[s] = IF s = r THEN n ELSE request[s]
    BY <1>1 DEF Becomes, AuthIInv
  <1>3. \A s \in Request : RequestMeaning(request'[s])
    BY <1>1, <1>2 DEF AuthIInv
  <1>4. ASSUME NEW s \in Request PROVE RequestMeaning(request[s])'
    <2>1. RequestMeaning(request'[s])
      BY <1>3
    <2> QED BY <2>1 DEF RequestMeaning, IdentityMeaning, PlaceMeaning, Trusted, Vouched, Open
  <1> QED BY <1>2, <1>4

LEMMA AuthInitIInv == Init => AuthIInv
  <1> SUFFICES ASSUME Init PROVE AuthIInv
    OBVIOUS
  <1>1. CacheMeaning
    BY TtlAssumption, MaxSizeAssumption DEF Init, CacheMeaning, AreEnd, Never
  <1>2. RequestMeaning(NoRequest)
    <2> DEFINE n == NoRequest
    <2>1. n = [pc |-> "idle", method |-> Undefined, token |-> Undefined, marker |-> Undefined,
               gateway |-> Undefined, context |-> Undefined, age |-> 0, expired |-> FALSE]
      BY DEF NoRequest, NewRequest
    <2> HIDE DEF n
    <2>2. /\ n.pc = "idle" /\ n.method = Undefined /\ n.token = Undefined /\ n.marker = Undefined
          /\ n.gateway = Undefined /\ n.context = Undefined /\ n.age = 0 /\ n.expired = FALSE
      BY <2>1
    <2>3. IdentityMeaning(n)
      BY <2>1, <2>2, TtlAssumption DEF IdentityMeaning
    <2>4. PlaceMeaning(n)
      BY <2>2 DEF PlaceMeaning, Rejections, Live
    <2> QED BY <2>3, <2>4 DEF RequestMeaning, n
  <1> QED BY <1>1, <1>2 DEF Init, AuthIInv

\* A request arrives with at most one of credential, marker and gateway.
LEMMA ArriveMeaning ==
  ASSUME AuthIInv, NEW r \in Request, Arrive(r)
  PROVE  \E n : RequestMeaning(n) /\ Becomes(r, n)
  <1>0. PICK m \in deploy.methods :
          \E t \in {Undefined} \cup (IF Internal(m) \/ deploy.authn = "gateway" THEN {} ELSE deploy.tokens),
             k \in {Undefined} \cup (IF Internal(m) THEN Markers ELSE {}),
             a \in IF Internal(m) \/ deploy.authn # "gateway" THEN {Undefined} ELSE GatewayHeaders :
               Becomes(r, NewRequest("authn", m, t, k, a))
    BY DEF Arrive, Internal
  <1>1. PICK t \in {Undefined} \cup (IF Internal(m) \/ deploy.authn = "gateway" THEN {} ELSE deploy.tokens),
             k \in {Undefined} \cup (IF Internal(m) THEN Markers ELSE {}),
             a \in IF Internal(m) \/ deploy.authn # "gateway" THEN {Undefined} ELSE GatewayHeaders :
               Becomes(r, NewRequest("authn", m, t, k, a))
    BY <1>0
  <1> DEFINE n == NewRequest("authn", m, t, k, a)
  <1>2. n = [pc |-> "authn", method |-> m, token |-> t, marker |-> k, gateway |-> a,
             context |-> Undefined, age |-> 0, expired |-> FALSE]
    BY DEF NewRequest
  <1> HIDE DEF n
  <1>3. /\ n.pc = "authn" /\ n.method = m /\ n.token = t /\ n.marker = k
        /\ n.gateway = a /\ n.context = Undefined /\ n.age = 0 /\ n.expired = FALSE
    BY <1>2
  <1>4. m \in Method /\ deploy.tokens \subseteq Token
    BY DeploymentAssumption DEF AuthIInv
  <1>5. t # Undefined => t \in Token /\ deploy.authn # "gateway" /\ ~ Internal(m)
    BY <1>4
  <1>6. k # Undefined => Internal(m)
    OBVIOUS
  <1>7. a # Undefined => a \in GatewayHeaders /\ deploy.authn = "gateway" /\ ~ Internal(m)
    OBVIOUS
  <1>8. IdentityMeaning(n)
    BY <1>2, <1>3, <1>5, <1>6, <1>7, TtlAssumption DEF IdentityMeaning
  <1>9. PlaceMeaning(n)
    BY <1>3, <1>4, <1>7 DEF PlaceMeaning, Rejections, Live
  <1> QED BY <1>1, <1>8, <1>9 DEF RequestMeaning, n

\* A request is refused.
LEMMA RejectedMeaning ==
  ASSUME AuthIInv, NEW r \in Request, NEW code \in Rejections, Rejected(r, code),
         code = "unauthenticated" /\ request[r].gateway # Undefined => ~ Trusted(request[r].gateway)
  PROVE  \E n : RequestMeaning(n) /\ Becomes(r, n)
  <1>1. IdentityMeaning(request[r])
    BY DEF AuthIInv, RequestMeaning
  <1>2. RequestMeaning(NewRequest(code, Undefined, Undefined, Undefined, request[r].gateway))
    BY <1>1, RejectionMeaning
  <1> QED BY <1>2 DEF Rejected

\* A credential is accepted from the cache: it was confirmed within the ttl.
LEMMA FromCacheMeaning ==
  ASSUME AuthIInv, NEW r \in Request, FromCache(r)
  PROVE  /\ \E n : RequestMeaning(n) /\ Becomes(r, n)
         /\ CacheMeaning'
  <1> DEFINE q == request[r]
             t == q.token
             e == Lookup(entries, t)
             context == e.value
             late == context.expiresAt # Undefined /\ context.expiresAt <= clock
             age == clock - confirmed[t]
  <1>0. /\ IdentityMeaning(q) /\ PlaceMeaning(q) /\ CacheMeaning /\ q.pc = "authn"
        /\ t # Undefined /\ deploy.authn \in {"generic", "session", "jwt"}
        /\ ~ MatchesMethodPattern(q.method, SkipMethods)
    BY DEF AuthIInv, RequestMeaning, FromCache, Authenticates
  <1>1. t \in Token /\ q.method \in Method /\ ~ Internal(q.method) /\ q.marker = Undefined /\ q.gateway = Undefined
    BY <1>0 DEF IdentityMeaning, PlaceMeaning, Live
  <1>2. Hit(entries, t, clock) /\ Served(context)
    BY DEF FromCache, Cached
  <1>3. /\ entries \in Seq(CacheEntry) /\ clock \in Nat /\ confirmed[t] \in Int /\ confirmed[t] <= clock
    BY <1>0, <1>1 DEF CacheMeaning, AreEnd
  <1>4. e \in CacheEntry /\ e.key = t /\ EntryMeaning(e)
    BY <1>0, <1>1, <1>2, <1>3, LookupFinds DEF Hit, CacheMeaning
  <1>5. context = Identity[t] /\ context # Undefined
    BY <1>4 DEF EntryMeaning
  <1>6. late = FALSE
    <2>1. context.expiresAt \in Int \cup {Undefined}
      BY <1>1, <1>5, IdentityAssumption
    <2>2. context.expiresAt # Undefined => context.expiresAt > clock
      BY <1>2 DEF Served
    <2> QED BY <1>3, <2>1, <2>2
  <1>7. age \in Int /\ age < Ttl
    <2>1. clock < e.expiresAt /\ e.expiresAt \in Int
      BY <1>2, <1>3, <1>4 DEF Hit, Expired, CacheEntry
    <2>2. e.expiresAt <= confirmed[t] + Ttl
      BY <1>4 DEF EntryMeaning
    <2> QED BY <1>3, <2>1, <2>2, TtlAssumption
  <1>8. Onward(r, [[[q EXCEPT !.context = context] EXCEPT !.age = age] EXCEPT !.expired = late])
    BY DEF FromCache
  <1>9. entries' = AfterGet(entries, t, clock) /\ used' = Append(UsedBut(t), t)
        /\ UNCHANGED <<clock, confirmed>>
    BY DEF FromCache
  <1> HIDE DEF late, age, context, e
  <1>10. \E n : RequestMeaning(n) /\ Becomes(r, n)
    <2> DEFINE o == [q EXCEPT !.context = context]
               n == [[o EXCEPT !.age = age] EXCEPT !.expired = late]
    <2>1. /\ IdentityMeaning(o)
          /\ o.pc = q.pc /\ o.method = q.method /\ o.token = q.token /\ o.marker = q.marker
          /\ o.gateway = q.gateway /\ o.context = context
      BY <1>0, <1>1, <1>5, GetsContext
    <2>2. Onward(r, n)
      BY <1>8
    <2> HIDE DEF o
    <2>3. /\ n = [[o EXCEPT !.age = n.age] EXCEPT !.expired = n.expired]
          /\ n.age = age /\ n.expired = late
      <3>1. DOMAIN o = {"pc", "method", "token", "marker", "gateway", "context", "age", "expired"}
        BY <2>1 DEF IdentityMeaning
      <3>2. n.expired = late /\ n.age = age
        BY <3>1
      <3> QED BY <3>2
    <2> HIDE DEF n
    <2>4. n.age \in Int /\ n.age < Ttl
      BY <1>7, <2>3
    <2>5. n.expired = FALSE
      BY <1>6, <2>3
    <2>6. /\ IdentityMeaning(n)
          /\ n.pc = o.pc /\ n.method = o.method /\ n.token = o.token /\ n.marker = o.marker
          /\ n.gateway = o.gateway /\ n.context = o.context
      BY <2>1, <2>3, <2>4, <2>5, GetsAge
    <2> QED BY <1>0, <1>1, <2>1, <2>6, <2>2, OnwardMeaning
  <1>11. CacheMeaning'
    <2>1. AreEnd(entries', used') /\ Len(entries') <= MaxSize
          /\ \A i \in 1..Len(entries') : EntryMeaning(entries'[i])
      BY <1>0, <1>1, <1>2, <1>9, AfterGetKeeps
    <2> QED BY <1>0, <1>9, <2>1 DEF CacheMeaning, EntryMeaning
  <1> QED BY <1>10, <1>11

\* The answer of the store is cached, and the request goes on with it.
LEMMA VerifiedMeaning ==
  ASSUME AuthIInv, NEW r \in Request, Verified(r)
  PROVE  /\ \E n : RequestMeaning(n) /\ Becomes(r, n)
         /\ CacheMeaning'
  <1> DEFINE q == request[r]
             t == q.token
  <1>0. /\ IdentityMeaning(q) /\ PlaceMeaning(q) /\ CacheMeaning /\ q.pc = "verified"
        /\ Onward(r, q)
    BY DEF AuthIInv, RequestMeaning, Verified
  <1>1. /\ t # Undefined /\ q.context = Identity[t] /\ q.context # Undefined /\ q.method \in Method
    BY <1>0 DEF PlaceMeaning, Live
  <1>2. t \in Token /\ q.gateway = Undefined
    BY <1>0, <1>1 DEF IdentityMeaning
  <1>3. \E n : RequestMeaning(n) /\ Becomes(r, n)
    BY <1>0, <1>1, <1>2, OnwardMeaning
  <1>4. confirmed' = [confirmed EXCEPT ![t] = clock] /\ clock' = clock
    BY DEF Verified
  <1>5. clock' \in Nat /\ confirmed' \in [Token -> Int] /\ \A k \in Token : confirmed'[k] <= clock'
    <2>1. clock \in Nat /\ confirmed \in [Token -> Int] /\ \A k \in Token : confirmed[k] <= clock
      BY <1>0 DEF CacheMeaning
    <2>2. clock <= clock
      BY <2>1
    <2> HIDE DEF t
    <2> QED BY <1>2, <1>4, <2>1, <2>2
  <1>6. CASE deploy.cached
    <2>1. entries' = AfterSet(entries, t, Identity[t], clock) /\ used' = Append(UsedBut(t), t)
      BY <1>1, <1>6 DEF Verified
    <2>2. /\ AreEnd(entries', used') /\ Len(entries') <= MaxSize
          /\ \A i \in 1..Len(entries') :
                entries'[i].value = Identity[entries'[i].key] /\ entries'[i].value # Undefined
                /\ entries'[i].expiresAt <= confirmed'[entries'[i].key] + Ttl
      BY <1>0, <1>1, <1>2, <1>4, <2>1, AfterSetKeeps
    <2>3. CacheMeaning'
      BY <1>5, <2>2 DEF CacheMeaning, EntryMeaning
    <2> QED BY <1>3, <2>3
  <1>7. CASE ~ deploy.cached
    <2>1. UNCHANGED <<entries, used>>
      BY <1>7 DEF Verified
    <2>2. ASSUME NEW i \in 1..Len(entries) PROVE EntryMeaning(entries[i])'
      <3>1. entries[i] \in CacheEntry /\ EntryMeaning(entries[i])
        BY <1>0 DEF CacheMeaning, AreEnd
      <3>2. entries[i].key \in Token /\ entries[i].expiresAt \in Int
        BY <3>1 DEF CacheEntry
      <3>3. confirmed[entries[i].key] \in Int /\ confirmed'[entries[i].key] \in Int
            /\ confirmed[entries[i].key] <= confirmed'[entries[i].key]
        BY <1>0, <1>4, <3>2 DEF CacheMeaning
      <3> QED BY <2>1, <3>1, <3>2, <3>3, TtlAssumption DEF EntryMeaning
    <2>3. CacheMeaning'
      BY <1>0, <1>5, <2>1, <2>2 DEF CacheMeaning
    <2> QED BY <1>3, <2>3
  <1> QED BY <1>6, <1>7

\* The context a trust source gives is one that the maker of the marker may vouch for.
LEMMA TrustSourceMeaning ==
  ASSUME NEW marker, deploy.trust \in {"mesh", "token", "secret"}
  PROVE  TrustSource(marker) # Undefined => marker # Undefined /\ Vouched(marker, TrustSource(marker))
  <1>1. CASE deploy.trust = "mesh"
    BY <1>1 DEF TrustSource, MeshIdentityTrust, Vouched
  <1>2. CASE deploy.trust = "token"
    <2>1. SUFFICES ASSUME TrustSource(marker) # Undefined
                   PROVE  marker # Undefined /\ Vouched(marker, TrustSource(marker))
      OBVIOUS
    <2> DEFINE subject == IF marker.subject # Undefined THEN marker.subject ELSE marker.names
    <2>2. /\ TrustSource(marker) = PartyContext(subject, MapTokenClaims(marker))
          /\ marker # Undefined /\ marker.names \in Known /\ marker.by = marker.names
      BY <1>2, <2>1 DEF TrustSource, SignedTokenTrust, SignatureVerified
    <2> QED BY <1>2, <2>2 DEF Vouched, PartyContext, AuthContext, MapTokenClaims
  <1>3. CASE deploy.trust = "secret"
    BY <1>3 DEF TrustSource, SharedSecretTrust, Vouched
  <1> QED BY <1>1, <1>2, <1>3

LEMMA AuthStepKeeps ==
  ASSUME AuthIInv, [Next]_vars
  PROVE  AuthIInv'
  <1> DEFINE Moved == /\ request' = [s \in Request |-> request'[s]]
                      /\ \A s \in Request : RequestMeaning(request[s])'
  <1>0. deploy \in Deployment /\ CacheMeaning
    BY DEF AuthIInv
  <1>1. ASSUME UNCHANGED <<clock, entries, confirmed, used>> PROVE CacheMeaning'
    BY <1>0, <1>1 DEF CacheMeaning, EntryMeaning
  <1>2. ASSUME UNCHANGED <<deploy, clock, entries, confirmed, used>>, NEW r \in Request,
               \E n : RequestMeaning(n) /\ Becomes(r, n)
        PROVE  AuthIInv'
    <2>1. Moved
      BY <1>2, OneRequestMoves
    <2> QED BY <1>0, <1>1, <1>2, <2>1 DEF AuthIInv
  <1>3. ASSUME UNCHANGED <<deploy, request>>, CacheMeaning' PROVE AuthIInv'
    BY <1>0, <1>3 DEF AuthIInv, RequestMeaning, IdentityMeaning, PlaceMeaning, Trusted, Vouched, Open
  <1>4. CASE Tick
    <2>1. CacheMeaning'
      BY <1>0, <1>4 DEF Tick, CacheMeaning, EntryMeaning
    <2> QED BY <1>3, <1>4, <2>1 DEF Tick
  <1>5. CASE UNCHANGED vars \/ \E t \in Token : Revoke(t)
    BY <1>1, <1>3, <1>5 DEF Revoke, vars
  <1>6. ASSUME NEW r \in Request, Arrive(r) PROVE AuthIInv'
    <2>1. UNCHANGED <<deploy, clock, entries, confirmed, used>>
      BY <1>6 DEF Arrive
    <2> QED BY <1>2, <1>6, <2>1, ArriveMeaning
  <1>7. ASSUME NEW r \in Request,
               Skip(r) \/ MissingCredentials(r) \/ StoreReads(r) \/ VerifyFails(r) \/ Gateway(r)
               \/ InternalAuth(r) \/ TrustSourceFails(r) \/ Answered(r)
        PROVE  AuthIInv'
    <2> DEFINE q == request[r]
    <2>0. UNCHANGED <<deploy, clock, entries, confirmed, used>>
      BY <1>7 DEF Skip, MissingCredentials, StoreReads, VerifyFails, Gateway, InternalAuth,
                  TrustSourceFails, Answered
    <2>1. IdentityMeaning(q) /\ PlaceMeaning(q)
      BY DEF AuthIInv, RequestMeaning
    <2> SUFFICES \E n : RequestMeaning(n) /\ Becomes(r, n)
      BY <1>2, <2>0
    <2>2. CASE Skip(r)
      <3>1. /\ q.pc = "authn" /\ MatchesMethodPattern(q.method, SkipMethods) /\ Onward(r, q)
        BY <2>2 DEF Skip
      <3>2. q.method \in Method /\ (q.gateway # Undefined => ~ Internal(q.method))
        BY <2>1, <3>1 DEF PlaceMeaning, Live
      <3>3. q.gateway # Undefined => ResolveMethodAuth(q.method).public
        BY <3>1, <3>2, PublicAndInternal
      <3> QED BY <2>1, <3>1, <3>2, <3>3, OnwardMeaning
    <2>3. CASE MissingCredentials(r)
      <3>1. Rejected(r, "unauthenticated") /\ deploy.authn # "gateway"
        BY <2>3 DEF MissingCredentials, Authenticates
      <3>2. q.gateway = Undefined
        BY <2>1, <3>1 DEF IdentityMeaning
      <3> QED BY <3>1, <3>2, RejectedMeaning DEF Rejections
    <2>4. CASE StoreReads(r)
      <3> DEFINE context == Identity[q.token]
      <3>1. q.pc = "verifying" /\ q.token # Undefined /\ q.method \in Method
        BY <2>1, <2>4 DEF StoreReads, PlaceMeaning, Live
      <3>2. q.gateway = Undefined /\ q.marker = Undefined /\ q.token \in Token
        BY <2>1, <3>1 DEF IdentityMeaning
      <3>3. CASE Rejected(r, "unauthenticated")
        BY <3>2, <3>3, RejectedMeaning DEF Rejections
      <3>4. CASE context # Undefined /\ Becomes(r, [[q EXCEPT !.pc = "verified"] EXCEPT !.context = context])
        <4> DEFINE o == [q EXCEPT !.pc = "verified"]
                   n == [o EXCEPT !.context = context]
        <4>1. /\ IdentityMeaning(o)
              /\ o.pc = "verified" /\ o.method = q.method /\ o.token = q.token /\ o.marker = q.marker
              /\ o.gateway = q.gateway /\ o.context = q.context
          BY <2>1, MovesOnly
        <4>2. Becomes(r, n)
          BY <3>4
        <4> HIDE DEF o
        <4>3. /\ IdentityMeaning(n)
              /\ n.pc = o.pc /\ n.method = o.method /\ n.token = o.token /\ n.marker = o.marker
              /\ n.gateway = o.gateway /\ n.context = context
          BY <3>2, <4>1, GetsContext
        <4> HIDE DEF n
        <4>4. PlaceMeaning(n)
          BY <3>1, <3>2, <3>4, <4>1, <4>3 DEF PlaceMeaning, Live, Rejections
        <4> QED BY <4>2, <4>3, <4>4 DEF RequestMeaning
      <3> QED BY <2>4, <3>3, <3>4 DEF StoreReads
    <2>5. CASE VerifyFails(r)
      <3>1. q.pc \in {"verifying", "verified"} /\ \E code \in {"failed", "unauthenticated"} : Rejected(r, code)
        BY <2>5 DEF VerifyFails
      <3>2. q.token # Undefined
        BY <2>1, <3>1 DEF PlaceMeaning
      <3>3. q.gateway = Undefined
        BY <2>1, <3>2 DEF IdentityMeaning
      <3> QED BY <3>1, <3>3, RejectedMeaning DEF Rejections
    <2>6. CASE Gateway(r)
      <3>1. q.pc = "authn" /\ deploy.authn = "gateway" /\ ~ MatchesMethodPattern(q.method, SkipMethods)
        BY <2>6 DEF Gateway, Authenticates
      <3>2. q.method \in Method
        BY <2>1, <3>1 DEF PlaceMeaning, Live
      <3>3. ~ Internal(q.method)
        BY <3>1, <3>2, PublicAndInternal
      <3>4. q.token = Undefined /\ q.marker = Undefined /\ (q.gateway # Undefined => q.gateway \in GatewayHeaders)
        BY <2>1, <3>1, <3>3 DEF IdentityMeaning
      <3>5. q.gateway # Undefined => (IsTrusted(q.gateway.value) /\ q.gateway.subject <=> Trusted(q.gateway))
        BY <1>0, <3>4, TrustedIsInRange
      <3>6. CASE IsTrusted(q.gateway.value) /\ q.gateway.subject
        <4>1. PICK roles \in SUBSET Roles :
                Onward(r, [q EXCEPT !.context = AuthContext("user", roles, {}, Undefined)])
          BY <2>6, <3>6 DEF Gateway
        <4> DEFINE context == AuthContext("user", roles, {}, Undefined)
                   n == [q EXCEPT !.context = context]
        <4>2. context # Undefined
          BY UndefinedAssumption
        <4>3. Onward(r, n)
          BY <4>1
        <4> HIDE DEF context
        <4>4. /\ IdentityMeaning(n)
              /\ n.pc = q.pc /\ n.method = q.method /\ n.token = q.token /\ n.marker = q.marker
              /\ n.gateway = q.gateway /\ n.context = context
          BY <2>1, <3>4, <3>5, <3>6, GetsContext
        <4> HIDE DEF n
        <4> QED BY <2>1, <3>2, <3>3, <4>2, <4>3, <4>4, OnwardMeaning
      <3>7. CASE ~ (IsTrusted(q.gateway.value) /\ q.gateway.subject)
        <4>1. Rejected(r, "unauthenticated")
          BY <2>6, <3>7 DEF Gateway
        <4> QED BY <3>5, <3>7, <4>1, RejectedMeaning DEF Rejections
      <3> QED BY <3>6, <3>7
    <2>7. CASE InternalAuth(r) \/ TrustSourceFails(r)
      <3>1. q.pc = "trusting"
        BY <2>7 DEF InternalAuth, TrustSourceFails
      <3>2. q.method \in Method /\ Internal(q.method) /\ q.gateway = Undefined /\ deploy.trust # "none"
        BY <2>1, <3>1 DEF PlaceMeaning, Live
      <3>3. q.token = Undefined
        BY <2>1, <3>2 DEF IdentityMeaning
      <3>4. deploy.trust \in {"mesh", "token", "secret"}
        BY <1>0, <3>2, DeploymentAssumption
      <3>5. CASE Rejected(r, "unauthenticated")
        BY <3>2, <3>5, RejectedMeaning DEF Rejections
      <3>6. CASE ~ Rejected(r, "unauthenticated")
        <4> DEFINE context == TrustSource(q.marker)
                   n == [q EXCEPT !.context = context]
        <4>1. Authorize(r, n)
          BY <2>7, <3>6 DEF InternalAuth, TrustSourceFails
        <4>2. context # Undefined => Vouched(q.marker, context)
          BY <3>4, TrustSourceMeaning
        <4> HIDE DEF context
        <4>3. /\ IdentityMeaning(n)
              /\ n.pc = q.pc /\ n.method = q.method /\ n.token = q.token /\ n.marker = q.marker
              /\ n.gateway = q.gateway /\ n.context = context
          BY <2>1, <3>2, <3>3, <4>2, GetsContext
        <4> HIDE DEF n
        <4> QED BY <2>1, <3>2, <4>1, <4>3, AuthorizeMeaning
      <3> QED BY <3>5, <3>6
    <2>8. CASE Answered(r)
      <3>1. q.pc = "asking"
        BY <2>8 DEF Answered
      <3>2. CASE Becomes(r, [q EXCEPT !.pc = "handler"])
        <4> DEFINE n == [q EXCEPT !.pc = "handler"]
        <4>1. /\ IdentityMeaning(n)
              /\ n.pc = "handler" /\ n.method = q.method /\ n.token = q.token /\ n.marker = q.marker
              /\ n.gateway = q.gateway /\ n.context = q.context
          BY <2>1, MovesOnly
        <4>2. Becomes(r, n)
          BY <3>2
        <4> HIDE DEF n
        <4>3. PlaceMeaning(n)
          BY <2>1, <3>1, <4>1 DEF PlaceMeaning, Live, Rejections
        <4> QED BY <4>1, <4>2, <4>3 DEF RequestMeaning
      <3>3. CASE Rejected(r, "permission_denied") \/ Rejected(r, "failed")
        BY <3>3, RejectedMeaning DEF Rejections
      <3> QED BY <2>8, <3>2, <3>3 DEF Answered
    <2> QED BY <1>7, <2>2, <2>3, <2>4, <2>5, <2>6, <2>7, <2>8
  <1>8. ASSUME NEW r \in Request, FromCache(r) \/ Verified(r) PROVE AuthIInv'
    <2>1. (\E n : RequestMeaning(n) /\ Becomes(r, n)) /\ CacheMeaning'
      BY <1>8, FromCacheMeaning, VerifiedMeaning
    <2>2. UNCHANGED deploy
      BY <1>8 DEF FromCache, Verified
    <2>3. Moved
      BY <2>1, <2>2, OneRequestMoves
    <2> QED BY <1>0, <2>1, <2>2, <2>3 DEF AuthIInv
  <1>9. ASSUME NEW r \in Request, Verify(r) PROVE AuthIInv'
    <2> DEFINE q == request[r]
               n == [q EXCEPT !.pc = "verifying"]
    <2>1. /\ IdentityMeaning(q) /\ PlaceMeaning(q) /\ q.pc = "authn" /\ q.token # Undefined
          /\ Becomes(r, n)
      BY <1>9 DEF AuthIInv, RequestMeaning, Verify, Authenticates
    <2>2. /\ IdentityMeaning(n)
          /\ n.pc = "verifying" /\ n.method = q.method /\ n.token = q.token /\ n.marker = q.marker
          /\ n.gateway = q.gateway /\ n.context = q.context
      BY <2>1, MovesOnly
    <2> HIDE DEF n
    <2>3. PlaceMeaning(n)
      BY <2>1, <2>2 DEF PlaceMeaning, Live, Rejections
    <2>4. UNCHANGED <<deploy, clock, confirmed>>
      BY <1>9 DEF Verify
    <2>5. Moved
      BY <2>1, <2>2, <2>3, <2>4, OneRequestMoves DEF RequestMeaning
    <2>6. CacheMeaning'
      <3>1. CASE deploy.cached
        <4>1. q.token \in Token
          BY <2>1 DEF IdentityMeaning
        <4>2. /\ entries' = AfterGet(entries, q.token, clock)
              /\ used' = IF Hit(entries, q.token, clock) THEN Append(UsedBut(q.token), q.token)
                         ELSE UsedBut(q.token)
          BY <1>9, <3>1 DEF Verify, Cached
        <4>3. AreEnd(entries', used') /\ Len(entries') <= MaxSize
              /\ \A i \in 1..Len(entries') : EntryMeaning(entries'[i])
          BY <1>0, <4>1, <4>2, AfterGetKeeps
        <4> QED BY <1>0, <2>4, <4>3 DEF CacheMeaning, EntryMeaning
      <3>2. CASE ~ deploy.cached
        BY <1>1, <1>9, <2>4, <3>2 DEF Verify
      <3> QED BY <3>1, <3>2
    <2> QED BY <1>0, <2>4, <2>5, <2>6 DEF AuthIInv
  <1> QED BY <1>4, <1>5, <1>6, <1>7, <1>8, <1>9 DEF Next

LEMMA AuthInvariance == Spec => []AuthIInv
  <1>1. AuthIInv /\ [Next]_vars => AuthIInv'
    BY AuthStepKeeps
  <1> QED BY <1>1, AuthInitIInv, PTL DEF Spec

-----------------------------------------------------------------------------
(* The theorems *)

\* A credential is accepted only within one ttl of its confirmation, and a cached
\* context never after it has expired, however requests, lookups, verifications
\* and revocations interleave.
THEOREM CredentialsAreFresh == Spec => []FreshIdentity
  <1>1. AuthIInv => FreshIdentity
    BY DEF AuthIInv, RequestMeaning, IdentityMeaning, FreshIdentity
  <1> QED BY <1>1, AuthInvariance, PTL

\* The LRU cache holds the credentials used last and never more than maxSize.
THEOREM CacheKeepsRecent == Spec => []CacheIsRecent
  <1>1. AuthIInv => CacheIsRecent
    BY AreEndIsSuffix DEF AuthIInv, CacheMeaning, CacheIsRecent
  <1> QED BY <1>1, AuthInvariance, PTL

\* A request runs with the context of its own credential, as whom the maker of its
\* marker may vouch for (a known party, and with roles only by its own configuration),
\* as the user its gateway headers name if and only if their trust header is expected.
THEOREM RequestsRunAsThemselves == Spec => []OwnIdentity
  <1>1. AuthIInv => OwnIdentity
    BY DEF AuthIInv, RequestMeaning, IdentityMeaning, PlaceMeaning, Trusted, OwnIdentity
  <1> QED BY <1>1, AuthInvariance, PTL

\* No handler runs without an identity unless the configuration opens its method.
THEOREM NoAnonymousHandler == Spec => []NoAnonymous
  <1>1. AuthIInv => NoAnonymous
    BY DEF AuthIInv, RequestMeaning, PlaceMeaning, NoAnonymous
  <1> QED BY <1>1, AuthInvariance, PTL
=============================================================================
