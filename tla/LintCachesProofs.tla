-------------------------- MODULE LintCachesProofs --------------------------
(***************************************************************************)
(* What the lint caches promise, for any number of processes, rulesets,    *)
(* files, scans and edits, and any limits of the caches.                   *)
(***************************************************************************)
EXTENDS LintCachesProperties, FiniteSetTheorems, SequenceTheorems, TLAPS

Rank(I, i) == Cardinality({k \in I : k <= i})

\* The ranks number a set of indices from 1.
LEMMA Ranks ==
  ASSUME NEW n \in Nat, NEW I \in SUBSET (1 .. n)
  PROVE  /\ Cardinality(I) \in Nat
         /\ \A m \in 1 .. Cardinality(I) : Nth(I, m) \in I /\ Rank(I, Nth(I, m)) = m
         /\ \A i \in I : \E m \in 1 .. Cardinality(I) : Nth(I, m) = i
<1>1. IsFiniteSet(I) /\ Cardinality(I) \in Nat
  <2>1. IsFiniteSet(1 .. n)
    BY FS_Interval
  <2>2. IsFiniteSet(I)
    BY <2>1, FS_Subset
  <2> QED
    BY <2>2, FS_CardinalityType
<1>2. ASSUME NEW i \in I
      PROVE  Rank(I, i) \in 1 .. Cardinality(I)
  <2> DEFINE T == {k \in I : k <= i}
  <2>1. T \in SUBSET I /\ i \in T
    OBVIOUS
  <2>2. IsFiniteSet(T) /\ Cardinality(T) \in Nat /\ Cardinality(T) <= Cardinality(I)
    BY <1>1, <2>1, FS_Subset, FS_CardinalityType
  <2>3. Cardinality(T) # 0
    BY <2>1, <2>2, FS_EmptySet
  <2> QED
    BY <1>1, <2>2, <2>3 DEF Rank
<1>3. ASSUME NEW i \in I, NEW j \in I, i < j
      PROVE  Rank(I, i) # Rank(I, j)
  <2> DEFINE T == {k \in I : k <= i}
             U == {k \in I : k <= j}
  <2>0. i \in Int /\ j \in Int /\ i < j /\ \A k \in I : k \in Int
    BY <1>3
  <2>1. T \in SUBSET U
    <3>1. \A k \in I : k <= i => k <= j
      BY <2>0
    <3> QED
      BY <3>1
  <2>2. U \in SUBSET I /\ j \in U /\ j \notin T
    BY <2>0
  <2>3. IsFiniteSet(U)
    BY <1>1, <2>2, FS_Subset
  <2>4. Cardinality(U) # Cardinality(T)
    BY <2>1, <2>2, <2>3, FS_Subset
  <2> QED
    BY <2>4 DEF Rank
<1>4. \A i, j \in I : Rank(I, i) = Rank(I, j) => i = j
  BY <1>3
<1> DEFINE f == [i \in I |-> Rank(I, i)]
           N == 1 .. Cardinality(I)
<1>5. f \in Injection(I, N)
  <2>1. f \in [I -> N]
    BY <1>2
  <2> QED
    BY <1>4, <2>1 DEF Injection, IsInjective
<1>6. IsFiniteSet(N) /\ Cardinality(N) = Cardinality(I)
  BY <1>1, FS_Interval
<1>7. f \in Surjection(I, N)
  BY <1>5, <1>6, FS_Injection
<1>8. \A m \in N : \E i \in I : Rank(I, i) = m
  BY <1>7 DEF Surjection
<1>9. \A m \in N : Nth(I, m) \in I /\ Rank(I, Nth(I, m)) = m
  BY <1>8 DEF Nth, Rank
<1>10. ASSUME NEW i \in I
       PROVE  \E m \in N : Nth(I, m) = i
  BY <1>2, <1>4, <1>9
<1> QED
  BY <1>1, <1>9, <1>10

Elements(s) == {s[i] : i \in DOMAIN s}
UniqueKeys(s) == \A i, j \in DOMAIN s : s[i].key = s[j].key => i = j

\* Select takes the elements at the indices, each once.
LEMMA SelectElements ==
  ASSUME NEW E, NEW s \in Seq(E), NEW I \in SUBSET DOMAIN s
  PROVE  /\ Select(s, I) \in Seq(E)
         /\ Elements(Select(s, I)) = {s[i] : i \in I}
         /\ \A a, b \in DOMAIN Select(s, I) :
              \E i, j \in I : /\ Select(s, I)[a] = s[i] /\ Select(s, I)[b] = s[j]
                              /\ i = j => a = b
<1> DEFINE t == Select(s, I)
<1>1. DOMAIN s = 1 .. Len(s) /\ Len(s) \in Nat /\ \A i \in 1 .. Len(s) : s[i] \in E
  OBVIOUS
<1>2. /\ Cardinality(I) \in Nat
      /\ \A m \in 1 .. Cardinality(I) : Nth(I, m) \in I /\ Rank(I, Nth(I, m)) = m
      /\ \A i \in I : \E m \in 1 .. Cardinality(I) : Nth(I, m) = i
  BY <1>1, Ranks
<1>3. DOMAIN t = 1 .. Cardinality(I) /\ \A m \in 1 .. Cardinality(I) : t[m] = s[Nth(I, m)]
  BY DEF Select
<1>4. t \in [1 .. Cardinality(I) -> E]
  BY <1>1, <1>2 DEF Select
<1>5. t \in Seq(E)
  BY <1>2, <1>4
<1>6. Elements(t) = {s[i] : i \in I}
  BY <1>2, <1>3 DEF Elements
<1>7. ASSUME NEW a \in DOMAIN t, NEW b \in DOMAIN t
      PROVE  \E i, j \in I : t[a] = s[i] /\ t[b] = s[j] /\ (i = j => a = b)
  <2>1. /\ Nth(I, a) \in I /\ Nth(I, b) \in I /\ t[a] = s[Nth(I, a)] /\ t[b] = s[Nth(I, b)]
        /\ Nth(I, a) = Nth(I, b) => a = b
    BY <1>2, <1>3
  <2> QED
    BY <2>1
<1> QED
  BY <1>5, <1>6, <1>7

-----------------------------------------------------------------------------
(* Ordered maps with entries in E *)

\* The caches in memory and in the buckets: sequences of entries in E, no two
\* of them under one key.
Cache(E) == {s \in Seq(E) : UniqueKeys(s)}

LEMMA KeysAndElements ==
  ASSUME NEW s
  PROVE  KeysOf(s) = {e.key : e \in Elements(s)}
BY DEF KeysOf, Elements

LEMMA EmptyCache ==
  ASSUME NEW E
  PROVE  <<>> \in Cache(E) /\ KeysOf(<<>>) = {} /\ Elements(<<>>) = {}
<1>1. DOMAIN <<>> = {} /\ <<>> \in Seq(E)
  OBVIOUS
<1> QED
  BY <1>1 DEF Cache, UniqueKeys, KeysOf, Elements

\* Without leaves the entries under other keys.
LEMMA WithoutEntries ==
  ASSUME NEW E, NEW s \in Cache(E), NEW keys
  PROVE  /\ Without(s, keys) \in Cache(E)
         /\ Elements(Without(s, keys)) = {e \in Elements(s) : e.key \notin keys}
         /\ KeysOf(Without(s, keys)) = KeysOf(s) \ keys
<1> DEFINE I == {i \in DOMAIN s : s[i].key \notin keys}
           t == Select(s, I)
<1>0. s \in Seq(E) /\ UniqueKeys(s) /\ I \in SUBSET DOMAIN s
  BY DEF Cache
<1>1. /\ t \in Seq(E) /\ Elements(t) = {s[i] : i \in I}
      /\ \A a, b \in DOMAIN t :
           \E i, j \in I : t[a] = s[i] /\ t[b] = s[j] /\ (i = j => a = b)
  <2> HIDE DEF I
  <2> QED
    BY <1>0, SelectElements
<1>2. Without(s, keys) = t
  BY DEF Without
<1>3. UniqueKeys(t)
  <2> SUFFICES ASSUME NEW a \in DOMAIN t, NEW b \in DOMAIN t, t[a].key = t[b].key
               PROVE  a = b
    BY DEF UniqueKeys
  <2>1. PICK i \in I, j \in I : t[a] = s[i] /\ t[b] = s[j] /\ (i = j => a = b)
    BY <1>1
  <2>2. i \in DOMAIN s /\ j \in DOMAIN s /\ s[i].key = s[j].key
    BY <2>1
  <2> QED
    BY <1>0, <2>1, <2>2 DEF UniqueKeys
<1>4. Elements(t) = {e \in Elements(s) : e.key \notin keys}
  BY <1>1 DEF Elements
<1>5. KeysOf(t) = KeysOf(s) \ keys
  BY <1>4, KeysAndElements
<1> QED
  BY <1>1, <1>2, <1>3, <1>4, <1>5 DEF Cache

\* Caches that share no key form one.
LEMMA ConcatEntries ==
  ASSUME NEW E, NEW s \in Cache(E), NEW t \in Cache(E), KeysOf(s) \cap KeysOf(t) = {}
  PROVE  /\ s \o t \in Cache(E)
         /\ Elements(s \o t) = Elements(s) \cup Elements(t)
         /\ KeysOf(s \o t) = KeysOf(s) \cup KeysOf(t)
<1> DEFINE u == s \o t
<1>0. s \in Seq(E) /\ t \in Seq(E) /\ UniqueKeys(s) /\ UniqueKeys(t)
  BY DEF Cache
<1>1. /\ u \in Seq(E) /\ Len(u) = Len(s) + Len(t) /\ Len(s) \in Nat /\ Len(t) \in Nat
      /\ DOMAIN u = 1 .. Len(u) /\ DOMAIN s = 1 .. Len(s) /\ DOMAIN t = 1 .. Len(t)
      /\ \A i \in 1 .. Len(u) : u[i] = IF i <= Len(s) THEN s[i] ELSE t[i - Len(s)]
  BY <1>0
<1>2. Elements(u) = Elements(s) \cup Elements(t)
  <2>1. ASSUME NEW i \in DOMAIN u
        PROVE  u[i] \in Elements(s) \cup Elements(t)
    <3>1. CASE i <= Len(s)
      BY <1>1, <3>1 DEF Elements
    <3>2. CASE i > Len(s)
      <4>1. i - Len(s) \in DOMAIN t /\ u[i] = t[i - Len(s)]
        BY <1>1, <3>2
      <4> QED
        BY <4>1 DEF Elements
    <3> QED
      BY <1>1, <3>1, <3>2
  <2>2. \A i \in DOMAIN s : i \in DOMAIN u /\ u[i] = s[i]
    BY <1>1
  <2>3. \A i \in DOMAIN t : i + Len(s) \in DOMAIN u /\ u[i + Len(s)] = t[i]
    BY <1>1
  <2> HIDE DEF u
  <2> QED
    BY <2>1, <2>2, <2>3 DEF Elements
<1>3. KeysOf(u) = KeysOf(s) \cup KeysOf(t)
  BY <1>2, KeysAndElements
<1>4. UniqueKeys(u)
  <2> SUFFICES ASSUME NEW i \in DOMAIN u, NEW j \in DOMAIN u, u[i].key = u[j].key
               PROVE  i = j
    BY DEF UniqueKeys
  <2>1. CASE i <= Len(s) /\ j <= Len(s)
    BY <1>0, <1>1, <2>1 DEF UniqueKeys
  <2>2. CASE i > Len(s) /\ j > Len(s)
    <3>1. /\ i - Len(s) \in DOMAIN t /\ j - Len(s) \in DOMAIN t
          /\ t[i - Len(s)].key = t[j - Len(s)].key
      BY <1>1, <2>2
    <3>2. i - Len(s) = j - Len(s)
      BY <1>0, <3>1 DEF UniqueKeys
    <3> QED
      BY <1>1, <3>2
  <2>3. \A a \in DOMAIN u : IF a <= Len(s) THEN u[a].key \in KeysOf(s) ELSE u[a].key \in KeysOf(t)
    <3> SUFFICES ASSUME NEW a \in DOMAIN u
                 PROVE  IF a <= Len(s) THEN u[a].key \in KeysOf(s) ELSE u[a].key \in KeysOf(t)
      OBVIOUS
    <3>1. CASE a <= Len(s)
      BY <1>1, <3>1 DEF KeysOf
    <3>2. CASE a > Len(s)
      <4>1. a - Len(s) \in DOMAIN t /\ u[a] = t[a - Len(s)]
        BY <1>1, <3>2
      <4> QED
        BY <1>1, <3>2, <4>1 DEF KeysOf
    <3> QED
      BY <1>1, <3>1, <3>2
  <2>4. i \in Int /\ j \in Int /\ Len(s) \in Int
    BY <1>1
  <2> HIDE DEF u
  <2> QED
    BY <2>1, <2>2, <2>3, <2>4
<1> QED
  BY <1>1, <1>2, <1>3, <1>4 DEF Cache

\* store and the sidecar's merge put their entries behind those of other keys.
LEMMA StoredEntries ==
  ASSUME NEW E, NEW s \in Cache(E), NEW t \in Cache(E)
  PROVE  /\ Without(s, KeysOf(t)) \o t \in Cache(E)
         /\ Elements(Without(s, KeysOf(t)) \o t)
              = {e \in Elements(s) : e.key \notin KeysOf(t)} \cup Elements(t)
         /\ KeysOf(Without(s, KeysOf(t)) \o t) = KeysOf(s) \cup KeysOf(t)
<1>1. /\ Without(s, KeysOf(t)) \in Cache(E)
      /\ Elements(Without(s, KeysOf(t))) = {e \in Elements(s) : e.key \notin KeysOf(t)}
      /\ KeysOf(Without(s, KeysOf(t))) = KeysOf(s) \ KeysOf(t)
  BY WithoutEntries
<1> QED
  BY <1>1, ConcatEntries

\* What is looked up is an entry of the cache, the only one under its key.
LEMMA LookupEntry ==
  ASSUME NEW E, NEW s \in Cache(E), NEW k \in KeysOf(s)
  PROVE  /\ Lookup(s, k) \in Elements(s) /\ Lookup(s, k) \in E /\ Lookup(s, k).key = k
         /\ \A e \in Elements(s) : e.key = k => e = Lookup(s, k)
<1>1. \E i \in DOMAIN s : s[i].key = k
  BY DEF KeysOf
<1>2. PICK i \in DOMAIN s : Lookup(s, k) = s[i] /\ s[i].key = k
  BY <1>1 DEF Lookup
<1>3. \A e \in Elements(s) : e.key = k => e = s[i]
  BY <1>2 DEF Elements, Cache, UniqueKeys
<1> QED
  BY <1>2, <1>3 DEF Elements, Cache

\* Merging the file cache keeps every entry of ours, and theirs under other keys.
LEMMA MergedEntries ==
  ASSUME NEW E, NEW s \in Cache(E), NEW t \in Cache(E)
  PROVE  MergeLint(s, t) \in Cache(E)
<1> DEFINE u == [i \in DOMAIN s |-> IF s[i].key \in KeysOf(t) THEN Lookup(t, s[i].key) ELSE s[i]]
<1>0. /\ s \in Seq(E) /\ t \in Seq(E) /\ UniqueKeys(s) /\ UniqueKeys(t)
      /\ DOMAIN s = 1 .. Len(s) /\ Len(s) \in Nat
  BY DEF Cache
<1>1. \A i \in DOMAIN s : u[i] \in E /\ u[i].key = s[i].key
  BY <1>0, LookupEntry
<1>2. DOMAIN u = DOMAIN s
  OBVIOUS
<1>3. u \in Seq(E)
  BY <1>0, <1>1
<1>4. UniqueKeys(u) /\ KeysOf(u) = KeysOf(s)
  <2> HIDE DEF u
  <2> QED
    BY <1>0, <1>1, <1>2 DEF UniqueKeys, KeysOf
<1>5. u \in Cache(E)
  BY <1>3, <1>4 DEF Cache
<1>6. Without(t, KeysOf(s)) \in Cache(E) /\ KeysOf(Without(t, KeysOf(s))) = KeysOf(t) \ KeysOf(s)
  BY WithoutEntries
<1>7. u \o Without(t, KeysOf(s)) \in Cache(E)
  <2> HIDE DEF u
  <2> QED
    BY <1>4, <1>5, <1>6, ConcatEntries
<1> QED
  BY <1>7 DEF MergeLint

\* Over the limit, the entries at the end stay.
LEMMA NewestEntries ==
  ASSUME NEW E, NEW s \in Cache(E)
  PROVE  /\ Newest(s) \in Cache(E)
         /\ Len(Newest(s)) <= MaxEntries
         /\ KeysOf(Newest(s)) \subseteq KeysOf(s)
<1>0. /\ s \in Seq(E) /\ UniqueKeys(s) /\ DOMAIN s = 1 .. Len(s) /\ Len(s) \in Nat
      /\ MaxEntries \in Nat \ {0}
  BY ProjectAssumption DEF Cache, ProjectAssumption
<1>1. CASE Len(s) <= MaxEntries
  BY <1>0, <1>1 DEF Newest
<1>2. CASE Len(s) > MaxEntries
  <2> DEFINE m == Len(s) - MaxEntries
             t == SubSeq(s, m + 1, Len(s))
  <2>1. m \in Nat /\ m + 1 \in Int /\ Len(s) - (m + 1) + 1 = MaxEntries /\ m + 1 <= Len(s)
    BY <1>0, <1>2
  <2>2. \A i \in m + 1 .. Len(s) : s[i] \in E
    BY <1>0, <2>1
  <2>3. /\ t \in Seq(E) /\ Len(t) = MaxEntries
        /\ \A i \in 1 .. MaxEntries : t[i] = s[m + i]
    <3> HIDE DEF m
    <3>1. /\ t \in Seq(E) /\ Len(t) = IF m + 1 <= Len(s) THEN Len(s) - (m + 1) + 1 ELSE 0
          /\ \A i \in 1 .. Len(s) - (m + 1) + 1 : t[i] = s[(m + 1) + i - 1]
      BY <1>0, <2>1, <2>2, SubSeqProperties
    <3>2. \A i \in 1 .. MaxEntries : (m + 1) + i - 1 = m + i
      BY <1>0, <2>1
    <3> QED
      BY <2>1, <3>1, <3>2
  <2>4. \A i \in DOMAIN t : m + i \in DOMAIN s /\ t[i] = s[m + i] /\ i \in Int
    BY <1>0, <2>1, <2>3
  <2>5. UniqueKeys(t)
    <3> SUFFICES ASSUME NEW i \in DOMAIN t, NEW j \in DOMAIN t, t[i].key = t[j].key
                 PROVE  i = j
      BY DEF UniqueKeys
    <3>1. m + i = m + j
      BY <1>0, <2>4 DEF UniqueKeys
    <3> QED
      BY <2>1, <2>4, <3>1
  <2>6. KeysOf(t) \subseteq KeysOf(s)
    BY <2>4 DEF KeysOf
  <2>7. Newest(s) = t
    BY <1>0, <1>2 DEF Newest
  <2> QED
    BY <1>0, <2>3, <2>5, <2>6, <2>7 DEF Cache
<1> QED
  BY <1>0, <1>1, <1>2

\* Newest takes the entries from a place on.
LEMMA NewestPlaces ==
  ASSUME NEW E, NEW s \in Seq(E)
  PROVE  KeysOf(Newest(s)) = {s[i].key : i \in {k \in DOMAIN s : k > Len(s) - MaxEntries}}
<1>0. DOMAIN s = 1 .. Len(s) /\ Len(s) \in Nat /\ MaxEntries \in Nat \ {0}
  BY ProjectAssumption DEF ProjectAssumption
<1>1. CASE Len(s) <= MaxEntries
  <2>1. Newest(s) = s /\ {k \in DOMAIN s : k > Len(s) - MaxEntries} = DOMAIN s
    BY <1>0, <1>1 DEF Newest
  <2> QED
    BY <2>1 DEF KeysOf
<1>2. CASE Len(s) > MaxEntries
  <2> DEFINE m == Len(s) - MaxEntries
             t == SubSeq(s, m + 1, Len(s))
  <2>1. /\ m \in Nat /\ m + MaxEntries = Len(s)
        /\ m + 1 <= Len(s) /\ Len(s) - (m + 1) + 1 = MaxEntries
    BY <1>0, <1>2
  <2>2. Newest(s) = t
    BY <1>0, <1>2 DEF Newest
  <2>3. DOMAIN t = 1 .. MaxEntries /\ \A i \in 1 .. MaxEntries : t[i] = s[m + i]
    <3>1. m + 1 \in Int /\ Len(s) \in Int /\ \A i \in m + 1 .. Len(s) : s[i] \in E
      BY <1>0, <2>1
    <3> HIDE DEF m
    <3>2. /\ Len(t) = IF m + 1 <= Len(s) THEN Len(s) - (m + 1) + 1 ELSE 0
          /\ \A i \in 1 .. Len(s) - (m + 1) + 1 : t[i] = s[(m + 1) + i - 1]
          /\ t \in Seq(E)
      BY <3>1, SubSeqProperties
    <3>3. \A i \in 1 .. MaxEntries : (m + 1) + i - 1 = m + i
      BY <1>0, <2>1
    <3> QED
      BY <2>1, <3>2, <3>3
  <2>4. \A i \in 1 .. MaxEntries : m + i \in {k \in DOMAIN s : k > m}
    BY <1>0, <2>1
  <2>5. \A k \in {k \in DOMAIN s : k > m} : k - m \in 1 .. MaxEntries /\ m + (k - m) = k
    BY <1>0, <2>1
  <2> HIDE DEF t
  <2>6. KeysOf(t) = {s[k].key : k \in {k \in DOMAIN s : k > m}}
    <3> HIDE DEF m
    <3>1. \A i \in DOMAIN t : t[i].key \in {s[k].key : k \in {k \in DOMAIN s : k > m}}
      BY <2>3, <2>4
    <3>2. \A k \in {k \in DOMAIN s : k > m} : s[k].key \in KeysOf(t)
      <4> SUFFICES ASSUME NEW k \in DOMAIN s, k > m
                   PROVE  s[k].key \in KeysOf(t)
        OBVIOUS
      <4>1. k - m \in DOMAIN t /\ t[k - m] = s[k]
        BY <2>3, <2>5
      <4> QED
        BY <4>1 DEF KeysOf
    <3> QED
      BY <3>1, <3>2 DEF KeysOf
  <2> QED
    BY <2>2, <2>6
<1> QED
  BY <1>0, <1>1, <1>2

\* What is added last is kept first.
LEMMA NewestOfConcat ==
  ASSUME NEW E, NEW s \in Seq(E), NEW t \in Seq(E)
  PROVE  KeysOf(Newest(t)) \subseteq KeysOf(Newest(s \o t))
<1> DEFINE u == s \o t
<1>0. /\ u \in Seq(E) /\ Len(u) = Len(s) + Len(t) /\ Len(s) \in Nat /\ Len(t) \in Nat
      /\ DOMAIN u = 1 .. Len(u) /\ DOMAIN t = 1 .. Len(t) /\ MaxEntries \in Nat
      /\ \A i \in 1 .. Len(t) : u[Len(s) + i] = t[i]
  BY ProjectAssumption DEF ProjectAssumption
<1>1. /\ KeysOf(Newest(t)) = {t[i].key : i \in {k \in DOMAIN t : k > Len(t) - MaxEntries}}
      /\ KeysOf(Newest(u)) = {u[i].key : i \in {k \in DOMAIN u : k > Len(u) - MaxEntries}}
  BY <1>0, NewestPlaces
<1>2. ASSUME NEW k \in DOMAIN t, k > Len(t) - MaxEntries
      PROVE  /\ Len(s) + k \in DOMAIN u /\ Len(s) + k > Len(u) - MaxEntries
             /\ u[Len(s) + k].key = t[k].key
  BY <1>0, <1>2
<1> HIDE DEF u
<1>3. KeysOf(Newest(t)) \subseteq KeysOf(Newest(u))
  BY <1>1, <1>2
<1> QED
  BY <1>3 DEF u

-----------------------------------------------------------------------------
(* Cache files with buckets in B *)

UniqueRules(s) == \A i, j \in DOMAIN s : s[i].rules = s[j].rules => i = j
CacheFile(B) == {s \in Seq(B) : UniqueRules(s) /\ Len(s) <= MaxRulesets}

LEMMA EmptyFile ==
  ASSUME NEW B
  PROVE  <<>> \in CacheFile(B)
<1>1. DOMAIN <<>> = {} /\ <<>> \in Seq(B) /\ Len(<<>>) = 0 /\ 0 <= MaxRulesets
  BY ProjectAssumption DEF ProjectAssumption
<1> QED
  BY <1>1 DEF CacheFile, UniqueRules

\* What is loaded is the bucket of the ruleset, if there is one.
LEMMA LoadedBucket ==
  ASSUME NEW B, NEW file \in CacheFile(B), NEW rules
  PROVE  \/ BucketOf(file, rules) = <<>>
         \/ \E b \in B : b.rules = rules /\ BucketOf(file, rules) = b.entries
<1> DEFINE mine == {i \in DOMAIN file : file[i].rules = rules}
<1>1. CASE mine = {}
  BY <1>1 DEF BucketOf
<1>2. CASE mine # {}
  <2>1. PICK i \in mine : i = CHOOSE k \in mine : TRUE
    BY <1>2
  <2>2. BucketOf(file, rules) = file[i].entries
    BY <1>2, <2>1 DEF BucketOf
  <2>3. file[i] \in B /\ file[i].rules = rules
    BY DEF CacheFile
  <2> QED
    BY <2>2, <2>3
<1> QED
  BY <1>1, <1>2

\* A persisted file holds one bucket for each ruleset, and ours is among them.
LEMMA WrittenFile ==
  ASSUME NEW B, NEW file \in CacheFile(B), NEW rules, NEW entries,
         [rules |-> rules, entries |-> entries] \in B
  PROVE  /\ WithBucket(file, rules, entries) \in CacheFile(B)
         /\ BucketOf(WithBucket(file, rules, entries), rules) = entries
<1> DEFINE b == [rules |-> rules, entries |-> entries]
           I == {i \in DOMAIN file : file[i].rules # rules}
           others == Select(file, I)
           all == <<b>> \o others
           n == IF Len(all) < MaxRulesets THEN Len(all) ELSE MaxRulesets
           new == SubSeq(all, 1, n)
<1>0. file \in Seq(B) /\ UniqueRules(file) /\ I \in SUBSET DOMAIN file /\ MaxRulesets \in Nat \ {0}
  BY ProjectAssumption DEF CacheFile, ProjectAssumption
<1>1. /\ others \in Seq(B) /\ Elements(others) = {file[i] : i \in I}
      /\ \A x, y \in DOMAIN others :
           \E i, j \in I : others[x] = file[i] /\ others[y] = file[j] /\ (i = j => x = y)
  <2> HIDE DEF I
  <2> QED
    BY <1>0, SelectElements
<1>2. \A x \in DOMAIN others : others[x].rules # rules
  BY <1>1 DEF Elements
<1>3. UniqueRules(others)
  <2> SUFFICES ASSUME NEW x \in DOMAIN others, NEW y \in DOMAIN others,
                      others[x].rules = others[y].rules
               PROVE  x = y
    BY DEF UniqueRules
  <2>1. PICK i \in I, j \in I : others[x] = file[i] /\ others[y] = file[j] /\ (i = j => x = y)
    BY <1>1
  <2>2. i \in DOMAIN file /\ j \in DOMAIN file /\ file[i].rules = file[j].rules
    BY <2>1
  <2> QED
    BY <1>0, <2>1, <2>2 DEF UniqueRules
<1> HIDE DEF others
<1>4. /\ all \in Seq(B) /\ Len(all) \in Nat \ {0} /\ DOMAIN all = 1 .. Len(all) /\ all[1] = b
      /\ \A x \in 2 .. Len(all) : x - 1 \in DOMAIN others /\ all[x] = others[x - 1]
  BY <1>1
<1>5. b.rules = rules /\ b.entries = entries
  OBVIOUS
<1> HIDE DEF b, all
<1>6. \A x, y \in DOMAIN all : all[x].rules = all[y].rules => x = y
  <2> SUFFICES ASSUME NEW x \in DOMAIN all, NEW y \in DOMAIN all, all[x].rules = all[y].rules
               PROVE  x = y
    OBVIOUS
  <2>1. \A z \in DOMAIN all : z # 1 => z \in 2 .. Len(all)
    BY <1>4
  <2>2. \A z \in DOMAIN all : z # 1 => all[z].rules # all[1].rules
    BY <1>2, <1>4, <1>5, <2>1
  <2>3. CASE x = 1 \/ y = 1
    BY <2>2, <2>3
  <2>4. CASE x # 1 /\ y # 1
    <3>1. /\ x - 1 \in DOMAIN others /\ all[x] = others[x - 1]
          /\ y - 1 \in DOMAIN others /\ all[y] = others[y - 1]
      BY <1>4, <2>1, <2>4
    <3>2. x - 1 = y - 1
      BY <1>3, <3>1 DEF UniqueRules
    <3> QED
      BY <1>4, <3>2
  <2> QED
    BY <2>3, <2>4
<1>7. n \in Nat \ {0} /\ n <= Len(all) /\ n <= MaxRulesets
  BY <1>0, <1>4
<1> HIDE DEF n
<1>8. /\ new \in Seq(B) /\ Len(new) = n /\ DOMAIN new = 1 .. n
      /\ \A x \in 1 .. n : new[x] = all[x] /\ x \in DOMAIN all
  <2>1. \A x \in 1 .. n : x \in DOMAIN all /\ all[x] \in B
    BY <1>4, <1>7
  <2>2. /\ new \in Seq(B) /\ Len(new) = IF 1 <= n THEN n - 1 + 1 ELSE 0
        /\ \A x \in 1 .. n - 1 + 1 : new[x] = all[1 + x - 1]
    BY <1>7, <2>1, SubSeqProperties
  <2>3. 1 <= n /\ n - 1 + 1 = n /\ \A x \in 1 .. n : 1 + x - 1 = x
    BY <1>7
  <2> QED
    BY <2>1, <2>2, <2>3
<1> HIDE DEF new
<1>9. WithBucket(file, rules, entries) = new
  BY DEF WithBucket, new, n, all, others, b
<1>10. new \in CacheFile(B)
  BY <1>6, <1>7, <1>8 DEF CacheFile, UniqueRules
<1>11. BucketOf(new, rules) = entries
  <2>1. 1 \in DOMAIN new /\ new[1].rules = rules /\ new[1].entries = entries
    BY <1>4, <1>5, <1>7, <1>8
  <2>2. \A x \in DOMAIN new : new[x].rules = rules => x = 1
    BY <1>6, <1>8, <2>1
  <2> QED
    BY <2>1, <2>2 DEF BucketOf
<1> QED
  BY <1>9, <1>10, <1>11

-----------------------------------------------------------------------------
(* Sound entries *)

Answers == Contents \cup {Missing, "file", "none"}
Probe == {"exists", "content"} \X Paths \X Answers
CrossVerdicts == {CrossVerdict(rules, f, t) : rules \in Rulesets, f \in SourceFiles, t \in Trees}

LintEntries(rules) == {[key |-> k, verdict |-> LocalVerdict(rules, k[2])] : k \in Keys}
SideEntryRecord == [key : Keys, probes : SUBSET Probe, verdict : CrossVerdicts]
SideSound(e, rules) ==
  \A t \in {u \in Trees : u[e.key[1]] = e.key[2]} :
    Replayable(e, t) => e.verdict = CrossVerdict(rules, e.key[1], t)
SidecarEntries(rules) == {e \in SideEntryRecord : SideSound(e, rules)}

\* An answer may be that of a lookup where a content was asked for.
Honest(answer, t) ==
  answer \in [Paths -> Answers] /\ \A p \in Paths : answer[p] \in {t[p], "file", "none"}

LEMMA PathTypes ==
  /\ SourceFiles \subseteq Paths /\ OtherPaths \subseteq Paths
  /\ \A p \in Paths : p \in OtherPaths \/ p \in SourceFiles
  /\ \A t \in Trees, p \in Paths : t[p] \in Contents \cup {Missing} /\ t[p] \notin {"file", "none"}
  /\ \A p \in Paths, c \in Contents \cup {Missing} : Imports[p][c] \subseteq Paths
<1>1. Imports \in [Paths -> [Contents \cup {Missing} -> SUBSET Paths]]
  BY ProjectAssumption DEF ProjectAssumption
<1>2. \A p \in Paths, c \in Contents \cup {Missing} : Imports[p][c] \subseteq Paths
  BY <1>1
<1>3. \A t \in Trees, p \in Paths : t[p] \in Contents \cup {Missing} /\ t[p] \notin {"file", "none"}
  BY ProjectAssumption DEF ProjectAssumption, Trees
<1> QED
  BY <1>2, <1>3 DEF Paths

LEMMA ConsultedPaths ==
  ASSUME NEW t \in Trees, NEW f \in SourceFiles
  PROVE  Consulted(f, t) \subseteq Paths
<1>1. f \in Paths /\ t[f] \in Contents \cup {Missing}
  BY PathTypes
<1>2. Imports[f][t[f]] \subseteq Paths
  BY <1>1, PathTypes
<1>3. \A g \in Imports[f][t[f]] : Imports[g][t[g]] \subseteq Paths
  BY <1>2, PathTypes
<1> QED
  BY <1>2, <1>3 DEF Consulted

\* The probes of a file are all that the cross-file rules read: a project in
\* which each has its answer is one in which they report the same.
LEMMA ProbesCover ==
  ASSUME NEW rules, NEW f \in SourceFiles, NEW u \in Trees, NEW answer, Honest(answer, u),
         NEW t \in Trees, t[f] = u[f],
         \A probe \in Probes(f, u, answer) : StillHolds(probe, t)
  PROVE  CrossVerdict(rules, f, t) = CrossVerdict(rules, f, u)
<1>1. Consulted(f, u) \subseteq Paths
  BY ConsultedPaths
<1>2. ASSUME NEW p \in Consulted(f, u)
      PROVE  t[p] = u[p]
  <2>0. p \in Paths /\ t[p] \notin {"file", "none"} /\ answer[p] \in {u[p], "file", "none"}
    BY <1>1, PathTypes DEF Honest
  <2>1. CASE p \in Read(f, u)
    <3> DEFINE probe == <<"content", p, answer[p]>>
    <3>1. probe \in Probes(f, u, answer)
      BY <2>1 DEF Probes
    <3>2. StillHolds(probe, t)
      BY <3>1
    <3>3. probe[3] = answer[p] /\ probe[1] = "content" /\ probe[2] = p
      OBVIOUS
    <3> HIDE DEF probe
    <3>4. answer[p] = t[p]
      BY <3>2, <3>3 DEF StillHolds
    <3> QED
      BY <2>0, <3>4
  <2>2. CASE p \notin Read(f, u)
    <3> DEFINE probe == <<"exists", p, ExistsAnswer(p, u)>>
    <3>1. p \in LookedUp(f, u) /\ u[p] = Missing
      BY <1>1, <2>2, PathTypes DEF Read, LookedUp
    <3>2. StillHolds(probe, t)
      BY <3>1 DEF Probes
    <3>3. probe[3] = "none" /\ probe[1] # "content" /\ probe[2] = p
      BY <3>1 DEF ExistsAnswer
    <3> HIDE DEF probe
    <3>4. ExistsAnswer(p, t) = "none"
      BY <3>2, <3>3 DEF StillHolds
    <3> QED
      BY <3>1, <3>4 DEF ExistsAnswer
  <2> QED
    BY <2>1, <2>2
<1>3. Imports[f][t[f]] = Imports[f][u[f]] /\ \A g \in Imports[f][u[f]] : g \in Consulted(f, u)
  BY DEF Consulted
<1>4. \A g \in Imports[f][u[f]] : Imports[g][t[g]] = Imports[g][u[g]]
  BY <1>2, <1>3
<1>5. Consulted(f, t) = Consulted(f, u)
  BY <1>3, <1>4 DEF Consulted
<1>6. [p \in Consulted(f, t) |-> t[p]] = [p \in Consulted(f, u) |-> u[p]]
  BY <1>2, <1>5
<1> QED
  BY <1>6 DEF CrossVerdict

\* An entry of the sidecar cache that says where it was computed is sound.
LEMMA RecordedEntry ==
  ASSUME NEW rules \in Rulesets, NEW f \in SourceFiles, NEW u \in Trees, u[f] # Missing,
         NEW answer, Honest(answer, u)
  PROVE  [key |-> Key(f, u[f]), probes |-> Probes(f, u, answer),
          verdict |-> CrossVerdict(rules, f, u)] \in SidecarEntries(rules)
<1> DEFINE e == [key |-> Key(f, u[f]), probes |-> Probes(f, u, answer),
                 verdict |-> CrossVerdict(rules, f, u)]
<1>1. Key(f, u[f]) \in Keys
  BY PathTypes DEF Key, Keys
<1>2. Probes(f, u, answer) \subseteq Probe
  <2>1. Consulted(f, u) \subseteq Paths
    BY ConsultedPaths
  <2>2. \A p \in LookedUp(f, u) : <<"exists", p, ExistsAnswer(p, u)>> \in Probe
    BY <2>1 DEF LookedUp, Probe, Answers, ExistsAnswer
  <2>3. \A p \in Read(f, u) : <<"content", p, answer[p]>> \in Probe
    BY <2>1 DEF Read, Probe, Honest
  <2> QED
    BY <2>2, <2>3 DEF Probes
<1>3. CrossVerdict(rules, f, u) \in CrossVerdicts
  BY DEF CrossVerdicts
<1>4. e \in SideEntryRecord
  BY <1>1, <1>2, <1>3 DEF SideEntryRecord
<1>5. e.key[1] = f /\ e.key[2] = u[f] /\ e.probes = Probes(f, u, answer)
      /\ e.verdict = CrossVerdict(rules, f, u)
  BY DEF Key
<1> HIDE DEF e
<1>6. SideSound(e, rules)
  <2> SUFFICES ASSUME NEW t \in Trees, t[f] = u[f], Replayable(e, t)
               PROVE  CrossVerdict(rules, f, u) = CrossVerdict(rules, f, t)
    BY <1>5 DEF SideSound
  <2>1. \A probe \in Probes(f, u, answer) : StillHolds(probe, t)
    BY <1>5 DEF Replayable
  <2> QED
    BY <2>1, ProbesCover
<1>7. e \in SidecarEntries(rules)
  BY <1>4, <1>6 DEF SidecarEntries
<1> QED
  BY <1>7 DEF e

\* Whoever collects the probes of a file, its answers are honest.
LEMMA CollectedAnswers ==
  ASSUME tree \in Trees, NEW f, NEW pass, NEW lanes
  PROVE  \E answer : Honest(answer, tree) /\ Collected(f, pass, lanes) = Probes(f, tree, answer)
<1>1. \A p \in Paths : tree[p] \in Contents \cup {Missing} /\ ExistsAnswer(p, tree) \in {"file", "none"}
  BY PathTypes DEF ExistsAnswer
<1>2. tree \in [Paths -> Contents \cup {Missing}]
  BY DEF Trees
<1>3. CASE lanes[f] = "parent"
  <2>1. Honest(tree, tree)
    BY <1>1, <1>2 DEF Honest, Answers
  <2>2. Collected(f, pass, lanes) = Probes(f, tree, tree)
    BY <1>3 DEF Collected, ProbesOf
  <2> QED
    BY <2>1, <2>2
<1>4. CASE lanes[f] # "parent"
  <2> DEFINE chunk == {g \in pass : lanes[g] = lanes[f]}
             looked == UNION {LookedUp(g, tree) : g \in chunk}
             answer == [p \in Paths |-> IF p \in looked THEN ExistsAnswer(p, tree) ELSE tree[p]]
  <2>1. Collected(f, pass, lanes) = Probes(f, tree, answer)
    BY <1>4 DEF Collected, WorkerProbesOf
  <2>2. Honest(answer, tree)
    <3> HIDE DEF looked
    <3> QED
      BY <1>1 DEF Honest, Answers
  <2> QED
    BY <2>1, <2>2
<1> QED
  BY <1>3, <1>4

\* The files of a pass in the order of the walk, each once.
LEMMA OrderedFiles ==
  ASSUME NEW files \in SUBSET SourceFiles
  PROVE  /\ InOrder(files) \in Seq(files)
         /\ Elements(InOrder(files)) = files
         /\ \A i, j \in DOMAIN InOrder(files) : InOrder(files)[i] = InOrder(files)[j] => i = j
<1> DEFINE I == {i \in DOMAIN Sources : Sources[i] \in files}
           q == Select(Sources, I)
<1>0. /\ Sources \in Seq(SourceFiles) /\ I \in SUBSET DOMAIN Sources
      /\ \A i, j \in DOMAIN Sources : Sources[i] = Sources[j] => i = j
  BY ProjectAssumption DEF ProjectAssumption
<1>1. /\ q \in Seq(SourceFiles) /\ Elements(q) = {Sources[i] : i \in I}
      /\ \A x, y \in DOMAIN q :
           \E i, j \in I : q[x] = Sources[i] /\ q[y] = Sources[j] /\ (i = j => x = y)
  <2> HIDE DEF I
  <2> QED
    BY <1>0, SelectElements
<1>2. \A f \in files : \E i \in DOMAIN Sources : Sources[i] = f
  BY DEF SourceFiles
<1>3. {Sources[i] : i \in I} = files
  BY <1>2
<1>4. ASSUME NEW x \in DOMAIN q, NEW y \in DOMAIN q, q[x] = q[y]
      PROVE  x = y
  <2>1. PICK i \in I, j \in I : q[x] = Sources[i] /\ q[y] = Sources[j] /\ (i = j => x = y)
    BY <1>1
  <2>2. i \in DOMAIN Sources /\ j \in DOMAIN Sources /\ Sources[i] = Sources[j]
    BY <1>4, <2>1
  <2> QED
    BY <1>0, <2>1, <2>2
<1> HIDE DEF q
<1>5. \A x \in DOMAIN q : q[x] \in files
  BY <1>1, <1>3 DEF Elements
<1>6. q \in Seq(files)
  BY <1>1, <1>5
<1>7. InOrder(files) = q
  BY DEF InOrder, q
<1> QED
  BY <1>1, <1>3, <1>4, <1>6, <1>7

\* Entries made for the files of a pass form a cache with their keys.
LEMMA EntriesOfPass ==
  ASSUME NEW E, NEW files \in SUBSET SourceFiles, NEW s,
         DOMAIN s = DOMAIN InOrder(files),
         \A i \in DOMAIN s : s[i] \in E /\ s[i].key[1] = InOrder(files)[i],
         s = [i \in DOMAIN s |-> s[i]]
  PROVE  s \in Cache(E) /\ \A k \in KeysOf(s) : k[1] \in files
<1>1. /\ InOrder(files) \in Seq(files)
      /\ \A i, j \in DOMAIN InOrder(files) : InOrder(files)[i] = InOrder(files)[j] => i = j
  BY OrderedFiles
<1>2. DOMAIN s = 1 .. Len(InOrder(files)) /\ Len(InOrder(files)) \in Nat
      /\ \A i \in DOMAIN s : InOrder(files)[i] \in files
  BY <1>1
<1>3. s \in Seq(E)
  BY <1>2
<1>4. UniqueKeys(s)
  BY <1>1 DEF UniqueKeys
<1>5. \A k \in KeysOf(s) : k[1] \in files
  BY <1>2 DEF KeysOf
<1> QED
  BY <1>3, <1>4, <1>5 DEF Cache

-----------------------------------------------------------------------------
(* The inductive invariant *)

LintCacheSets == {Cache(LintEntries(r)) : r \in Rulesets}
SideCacheSets == {Cache(SidecarEntries(r)) : r \in Rulesets}
LintBuckets ==
  {b \in [rules : Rulesets, entries : UNION LintCacheSets] :
     b.entries \in Cache(LintEntries(b.rules)) /\ Len(b.entries) <= MaxEntries}
SideBuckets ==
  {b \in [rules : Rulesets, entries : UNION SideCacheSets] :
     b.entries \in Cache(SidecarEntries(b.rules)) /\ Len(b.entries) <= MaxEntries}

RunRecord ==
  [pc : {"idle", "loadSidecar", "full", "sidecar", "unbounded", "storeLint", "writeLint",
         "storeSidecar", "writeSidecar", "done"},
   rules : Rulesets, files : SUBSET SourceFiles, miss : SUBSET SourceFiles,
   lint : UNION LintCacheSets, side : UNION SideCacheSets,
   onDisk : CacheFile(LintBuckets) \cup CacheFile(SideBuckets),
   dropped : SUBSET SourceFiles, replayed : SUBSET SourceFiles,
   sideDropped : SUBSET SourceFiles, looseDropped : SUBSET SourceFiles]

\* How the passes of a scan divide its files.
PassesInv(r) ==
  /\ r.miss \subseteq r.files /\ r.dropped \subseteq r.miss
  /\ r.replayed \subseteq Hits(r) /\ r.sideDropped \subseteq Relinted(r)
  /\ r.pc = "idle" => r.files = {}
  /\ r.pc = "loadSidecar" => r.replayed = {}

\* What a scan holds in memory is sound.
MemoryInv(r) ==
  /\ r.lint \in Cache(LintEntries(r.rules)) /\ r.side \in Cache(SidecarEntries(r.rules))
  /\ r.pc = "writeLint" => r.onDisk \in CacheFile(LintBuckets)
  /\ r.pc = "writeSidecar" => r.onDisk \in CacheFile(SideBuckets)

\* The files that are not linted again are in the cache as they are now, and a
\* replayed report is what linting would report now.
ReplayInv(r) ==
  /\ \A f \in Hits(r) : tree[f] # Missing /\ Key(f, tree[f]) \in KeysOf(r.lint)
  /\ \A f \in r.replayed :
       /\ Key(f, tree[f]) \in KeysOf(r.side)
       /\ Lookup(r.side, Key(f, tree[f])).verdict = CrossVerdict(r.rules, f, tree)

RunInv(r) == r \in RunRecord /\ PassesInv(r) /\ MemoryInv(r) /\ ReplayInv(r)

CachesInv ==
  /\ tree \in Trees
  /\ lintFile \in CacheFile(LintBuckets) /\ sideFile \in CacheFile(SideBuckets)
  /\ run \in [Runs -> RunRecord]
  /\ \A p \in Runs : RunInv(run[p])

LEMMA LoadedLint ==
  ASSUME NEW file \in CacheFile(LintBuckets), NEW rules \in Rulesets
  PROVE  BucketOf(file, rules) \in Cache(LintEntries(rules))
BY LoadedBucket, EmptyCache DEF LintBuckets

LEMMA LoadedSidecar ==
  ASSUME NEW file \in CacheFile(SideBuckets), NEW rules \in Rulesets
  PROVE  BucketOf(file, rules) \in Cache(SidecarEntries(rules))
BY LoadedBucket, EmptyCache DEF SideBuckets

LEMMA IdleRun ==
  /\ RunInv(Idle)
  /\ Idle.pc = "idle" /\ Idle.files = {} /\ Idle.miss = {} /\ Idle.lint = <<>>
  /\ Idle.side = <<>> /\ Idle.onDisk = <<>> /\ Idle.replayed = {} /\ Idle.rules \in Rulesets
<1>1. (CHOOSE r \in Rulesets : TRUE) \in Rulesets
  BY ProjectAssumption DEF ProjectAssumption
<1>2. /\ Idle.pc = "idle" /\ Idle.files = {} /\ Idle.miss = {} /\ Idle.lint = <<>>
      /\ Idle.side = <<>> /\ Idle.onDisk = <<>> /\ Idle.replayed = {} /\ Idle.rules \in Rulesets
      /\ Idle.dropped = {} /\ Idle.sideDropped = {} /\ Idle.looseDropped = {}
  BY <1>1 DEF Idle
<1>3. <<>> \in Cache(LintEntries(Idle.rules)) /\ <<>> \in Cache(SidecarEntries(Idle.rules))
      /\ <<>> \in CacheFile(LintBuckets)
  BY EmptyCache, EmptyFile
<1>4. <<>> \in UNION LintCacheSets /\ <<>> \in UNION SideCacheSets
  BY <1>2, <1>3 DEF LintCacheSets, SideCacheSets
<1>5. Idle \in RunRecord
  BY <1>1, <1>3, <1>4 DEF Idle, RunRecord
<1>6. PassesInv(Idle)
  BY <1>2 DEF PassesInv
<1>7. MemoryInv(Idle)
  BY <1>2, <1>3 DEF MemoryInv
<1>8. ReplayInv(Idle)
  BY <1>2 DEF ReplayInv, Hits
<1> QED
  BY <1>2, <1>5, <1>6, <1>7, <1>8 DEF RunInv

\* A step of one scan that leaves it in a record R with the invariant.
LEMMA OneRun ==
  ASSUME CachesInv, NEW p \in Runs, NEW R, RunInv(R), run' = [run EXCEPT ![p] = R],
         tree' = tree,
         lintFile' \in CacheFile(LintBuckets), sideFile' \in CacheFile(SideBuckets)
  PROVE  CachesInv'
<1>1. R \in RunRecord /\ run \in [Runs -> RunRecord]
  BY DEF RunInv, CachesInv
<1>2. run' \in [Runs -> RunRecord] /\ run'[p] = R /\ \A q \in Runs \ {p} : run'[q] = run[q]
  BY <1>1
<1>3. \A r : RunInv(r) => RunInv(r)'
  BY DEF RunInv, ReplayInv
<1>4. \A q \in Runs : RunInv(run'[q])
  BY <1>2 DEF CachesInv
<1>5. ASSUME NEW q \in Runs
      PROVE  RunInv(run[q])'
  BY <1>4 DEF RunInv, PassesInv, MemoryInv, ReplayInv
<1> QED
  BY <1>2, <1>5 DEF CachesInv

\* Starting a scan splits its files by what the file cache holds.
LEMMA StartRun ==
  ASSUME CachesInv, NEW rules \in Rulesets, NEW files \in SUBSET SourceFiles, NEW entries, NEW miss,
         entries = BucketOf(lintFile, rules),
         miss = {f \in files : tree[f] = Missing \/ Key(f, tree[f]) \notin KeysOf(entries)},
         NEW R, R = [Idle EXCEPT !.pc = "loadSidecar", !.rules = rules, !.files = files,
                                 !.miss = miss, !.lint = entries]
  PROVE  RunInv(R)
<1>1. PICK file \in CacheFile(LintBuckets) : file = lintFile
  BY DEF CachesInv
<1>2. entries \in Cache(LintEntries(rules))
  BY <1>1, LoadedLint
<1>3. Idle \in RunRecord /\ Idle.replayed = {} /\ Idle.side = <<>> /\ Idle.dropped = {}
      /\ Idle.sideDropped = {}
  BY IdleRun DEF RunInv, Idle
<1>4. entries \in UNION LintCacheSets /\ miss \in SUBSET SourceFiles
  BY <1>2 DEF LintCacheSets
<1>5. R \in RunRecord
  BY <1>3, <1>4 DEF RunRecord
<1>6. /\ R.pc = "loadSidecar" /\ R.rules = rules /\ R.files = files /\ R.miss = miss
      /\ R.lint = entries /\ R.replayed = {} /\ R.side = <<>> /\ R.dropped = {}
      /\ R.sideDropped = {}
  BY <1>3 DEF RunRecord
<1>7. PassesInv(R)
  BY <1>6 DEF PassesInv
<1>8. MemoryInv(R)
  BY <1>2, <1>6, EmptyCache DEF MemoryInv
<1>9. ReplayInv(R)
  BY <1>6 DEF ReplayInv, Hits
<1> QED
  BY <1>5, <1>7, <1>8, <1>9 DEF RunInv

\* The fields that loading and the passes leave alone.
SameCaches(r, R) ==
  R.rules = r.rules /\ R.files = r.files /\ R.miss = r.miss /\ R.lint = r.lint

LEMMA LoadRun ==
  ASSUME CachesInv, NEW r, RunInv(r), r.pc = "loadSidecar",
         NEW side, side = BucketOf(sideFile, r.rules),
         NEW R, R = [r EXCEPT !.pc = "full", !.side = side]
  PROVE  RunInv(R)
<1>0. r \in RunRecord /\ r.rules \in Rulesets
  BY DEF RunInv, RunRecord
<1>1. PICK file \in CacheFile(SideBuckets) : file = sideFile
  BY DEF CachesInv
<1>2. side \in Cache(SidecarEntries(r.rules))
  BY <1>0, <1>1, LoadedSidecar
<1>3. side \in UNION SideCacheSets
  BY <1>0, <1>2 DEF SideCacheSets
<1>4. R \in RunRecord
  BY <1>0, <1>3 DEF RunRecord
<1>5. /\ SameCaches(r, R) /\ R.pc = "full" /\ R.side = side /\ R.replayed = r.replayed
      /\ R.dropped = r.dropped /\ R.sideDropped = r.sideDropped
  BY <1>0 DEF RunRecord, SameCaches
<1>6. PassesInv(R) /\ R.replayed = {}
  BY <1>5 DEF RunInv, PassesInv, SameCaches, Hits, Relinted
<1>7. MemoryInv(R)
  BY <1>2, <1>5 DEF RunInv, MemoryInv, SameCaches
<1>8. ReplayInv(R)
  BY <1>5, <1>6 DEF RunInv, ReplayInv, SameCaches, Hits
<1> QED
  BY <1>4, <1>6, <1>7, <1>8 DEF RunInv

\* The full pass drops some of the misses.
LEMMA FullRun ==
  ASSUME NEW r, RunInv(r), r.pc = "full", NEW dropped \in SUBSET r.miss,
         NEW R, R = [r EXCEPT !.pc = "sidecar", !.dropped = dropped]
  PROVE  RunInv(R)
<1>0. r \in RunRecord /\ r.miss \subseteq SourceFiles
  BY DEF RunInv, RunRecord
<1>1. R \in RunRecord
  BY <1>0 DEF RunRecord
<1>2. /\ SameCaches(r, R) /\ R.pc = "sidecar" /\ R.side = r.side /\ R.replayed = r.replayed
      /\ R.dropped = dropped /\ R.sideDropped = r.sideDropped
  BY <1>0 DEF RunRecord, SameCaches
<1> QED
  BY <1>1, <1>2 DEF RunInv, PassesInv, MemoryInv, ReplayInv, SameCaches, Hits, Relinted

\* What is replayed is what a fresh lint would report.
LEMMA SidecarRun ==
  ASSUME tree \in Trees, NEW r, RunInv(r), r.pc = "sidecar",
         NEW replayed, replayed = Replays(r), NEW dropped \in SUBSET (Hits(r) \ replayed),
         NEW R, R = [r EXCEPT !.pc = "unbounded", !.replayed = replayed, !.sideDropped = dropped]
  PROVE  RunInv(R)
<1>0. /\ r \in RunRecord /\ Hits(r) \subseteq SourceFiles /\ replayed \subseteq Hits(r)
      /\ r.side \in Cache(SidecarEntries(r.rules))
  BY DEF RunInv, RunRecord, Hits, Replays, MemoryInv
<1>1. R \in RunRecord
  <2>1. replayed \in SUBSET SourceFiles /\ dropped \in SUBSET SourceFiles
    BY <1>0
  <2> QED
    BY <1>0, <2>1 DEF RunRecord
<1>2. /\ SameCaches(r, R) /\ R.pc = "unbounded" /\ R.side = r.side /\ R.replayed = replayed
      /\ R.dropped = r.dropped /\ R.sideDropped = dropped
  BY <1>0 DEF RunRecord, SameCaches
<1>3. ASSUME NEW f \in replayed
      PROVE  /\ Key(f, tree[f]) \in KeysOf(r.side)
             /\ Lookup(r.side, Key(f, tree[f])).verdict = CrossVerdict(r.rules, f, tree)
  <2>1. PICK k : k = Key(f, tree[f])
    OBVIOUS
  <2>2. k \in KeysOf(r.side) /\ Replayable(Lookup(r.side, k), tree)
    BY <2>1 DEF Replays
  <2>3. PICK e : e = Lookup(r.side, k)
    OBVIOUS
  <2>4. e \in SidecarEntries(r.rules) /\ e.key = k
    BY <1>0, <2>2, <2>3, LookupEntry
  <2>5. e.key[1] = f /\ e.key[2] = tree[f]
    BY <2>1, <2>4 DEF Key
  <2>6. SideSound(e, r.rules) /\ Replayable(e, tree)
    BY <2>2, <2>3, <2>4 DEF SidecarEntries
  <2>7. e.verdict = CrossVerdict(r.rules, f, tree)
    BY <2>5, <2>6 DEF SideSound
  <2> QED
    BY <2>1, <2>2, <2>3, <2>7
<1>4. ReplayInv(R)
  BY <1>2, <1>3 DEF RunInv, ReplayInv, SameCaches, Hits
<1>5. PassesInv(R)
  BY <1>0, <1>2 DEF RunInv, PassesInv, SameCaches, Hits, Relinted
<1>6. MemoryInv(R)
  BY <1>2 DEF RunInv, MemoryInv, SameCaches
<1> QED
  BY <1>1, <1>4, <1>5, <1>6 DEF RunInv

LEMMA UnboundedRun ==
  ASSUME NEW r, RunInv(r), r.pc = "unbounded", NEW dropped \in SUBSET Hits(r),
         NEW R, R = [r EXCEPT !.pc = "storeLint", !.looseDropped = dropped]
  PROVE  RunInv(R)
<1>0. r \in RunRecord /\ Hits(r) \subseteq SourceFiles
  BY DEF RunInv, RunRecord, Hits
<1>1. R \in RunRecord
  BY <1>0 DEF RunRecord
<1>2. /\ SameCaches(r, R) /\ R.pc = "storeLint" /\ R.side = r.side /\ R.replayed = r.replayed
      /\ R.dropped = r.dropped /\ R.sideDropped = r.sideDropped
  BY <1>0 DEF RunRecord, SameCaches
<1> QED
  BY <1>1, <1>2 DEF RunInv, PassesInv, MemoryInv, ReplayInv, SameCaches, Hits, Relinted

\* The misses of a pass that can be trusted, with what the pass reported.
LEMMA FreshLintEntries ==
  ASSUME tree \in Trees, NEW r, RunInv(r), Trusted(r)
  PROVE  FreshLint(r) \in Cache(LintEntries(r.rules))
<1>0. r.miss \subseteq SourceFiles /\ r.dropped = {}
  BY DEF RunInv, RunRecord, Trusted
<1>1. PICK files \in SUBSET SourceFiles : files = Hashed(r.miss)
  BY <1>0 DEF Hashed
<1>2. PICK s : s = FreshLint(r)
  OBVIOUS
<1>3. s = [i \in DOMAIN InOrder(files) |-> LintEntry(r, InOrder(files)[i])]
  BY <1>1, <1>2 DEF FreshLint
<1>4. DOMAIN s = DOMAIN InOrder(files) /\ s = [i \in DOMAIN s |-> s[i]]
  BY <1>3
<1>5. ASSUME NEW i \in DOMAIN s
      PROVE  s[i] \in LintEntries(r.rules) /\ s[i].key[1] = InOrder(files)[i]
  <2>1. PICK f : f = InOrder(files)[i]
    OBVIOUS
  <2>2. f \in files
    BY <1>4, <2>1, OrderedFiles
  <2>3. f \in r.miss /\ tree[f] # Missing /\ f \in SourceFiles
    BY <1>0, <1>1, <2>2 DEF Hashed
  <2>4. tree[f] \in Contents
    BY <2>3, PathTypes
  <2>5. LocalReport(r, f) = LocalVerdict(r.rules, tree[f])
    BY <1>0, <2>3 DEF LocalReport
  <2>6. s[i] = [key |-> Key(f, tree[f]), verdict |-> LocalVerdict(r.rules, tree[f])]
    BY <1>3, <1>4, <2>1, <2>5 DEF LintEntry
  <2>7. Key(f, tree[f]) \in Keys /\ Key(f, tree[f])[1] = f /\ Key(f, tree[f])[2] = tree[f]
    BY <2>3, <2>4 DEF Key, Keys
  <2> QED
    BY <2>1, <2>6, <2>7 DEF LintEntries
<1>6. s \in Cache(LintEntries(r.rules))
  BY <1>4, <1>5, EntriesOfPass
<1> QED
  BY <1>2, <1>6

\* Storing the misses loses no hit.
LEMMA StoreLintRun ==
  ASSUME CachesInv, NEW r, RunInv(r), r.pc = "storeLint", NEW R,
         \/ /\ Trusted(r)
            /\ R = [r EXCEPT !.pc = "writeLint", !.lint = StoreAll(r.lint, FreshLint(r)),
                             !.onDisk = lintFile]
         \/ R = [r EXCEPT !.pc = "storeSidecar"]
  PROVE  RunInv(R)
<1>0. r \in RunRecord /\ r.rules \in Rulesets /\ r.lint \in Cache(LintEntries(r.rules))
  BY DEF RunInv, RunRecord, MemoryInv
<1>1. CASE R = [r EXCEPT !.pc = "storeSidecar"]
  <2>1. R \in RunRecord
    BY <1>0, <1>1 DEF RunRecord
  <2>2. /\ SameCaches(r, R) /\ R.pc = "storeSidecar" /\ R.side = r.side /\ R.replayed = r.replayed
        /\ R.dropped = r.dropped /\ R.sideDropped = r.sideDropped
    BY <1>0, <1>1 DEF RunRecord, SameCaches
  <2> QED
    BY <2>1, <2>2 DEF RunInv, PassesInv, MemoryInv, ReplayInv, SameCaches, Hits, Relinted
<1>2. CASE /\ Trusted(r)
           /\ R = [r EXCEPT !.pc = "writeLint", !.lint = StoreAll(r.lint, FreshLint(r)),
                            !.onDisk = lintFile]
  <2>1. PICK fresh \in Cache(LintEntries(r.rules)) : fresh = FreshLint(r)
    BY <1>2, FreshLintEntries DEF CachesInv
  <2>2. PICK lint : lint = StoreAll(r.lint, fresh)
    OBVIOUS
  <2>3. lint \in Cache(LintEntries(r.rules)) /\ KeysOf(lint) = KeysOf(r.lint) \cup KeysOf(fresh)
    BY <1>0, <2>2, StoredEntries DEF StoreAll
  <2>4. PICK file \in CacheFile(LintBuckets) : file = lintFile
    BY DEF CachesInv
  <2>5. R = [r EXCEPT !.pc = "writeLint", !.lint = lint, !.onDisk = file]
    BY <1>2, <2>1, <2>2, <2>4
  <2>6. lint \in UNION LintCacheSets
    BY <1>0, <2>3 DEF LintCacheSets
  <2>7. R \in RunRecord
    BY <1>0, <2>4, <2>5, <2>6 DEF RunRecord
  <2>8. /\ R.rules = r.rules /\ R.files = r.files /\ R.miss = r.miss /\ R.lint = lint
        /\ R.pc = "writeLint" /\ R.side = r.side /\ R.replayed = r.replayed
        /\ R.dropped = r.dropped /\ R.sideDropped = r.sideDropped /\ R.onDisk = file
    BY <1>0, <2>5 DEF RunRecord
  <2>9. PassesInv(R)
    BY <2>8 DEF RunInv, PassesInv, Hits, Relinted
  <2>10. MemoryInv(R)
    BY <2>3, <2>4, <2>8 DEF RunInv, MemoryInv
  <2>11. ReplayInv(R)
    BY <2>3, <2>8 DEF RunInv, ReplayInv, Hits
  <2> QED
    BY <2>7, <2>9, <2>10, <2>11 DEF RunInv
<1> QED
  BY <1>1, <1>2

\* After the write, with or without the rename, the scan goes on to the sidecar.
LEMMA WrittenRun ==
  ASSUME NEW r, RunInv(r), NEW pc \in {"storeSidecar", "done"},
         NEW R, R = [r EXCEPT !.pc = pc, !.onDisk = <<>>]
  PROVE  RunInv(R)
<1>0. r \in RunRecord
  BY DEF RunInv
<1>1. R \in RunRecord
  BY <1>0, EmptyFile DEF RunRecord
<1>2. /\ SameCaches(r, R) /\ R.pc = pc /\ R.side = r.side /\ R.replayed = r.replayed
      /\ R.dropped = r.dropped /\ R.sideDropped = r.sideDropped
  BY <1>0 DEF RunRecord, SameCaches
<1> QED
  BY <1>1, <1>2 DEF RunInv, PassesInv, MemoryInv, ReplayInv, SameCaches, Hits, Relinted

\* The file cache that a scan leaves behind is sound.
LEMMA WrittenLint ==
  ASSUME NEW r, RunInv(r), r.pc = "writeLint"
  PROVE  WithBucket(r.onDisk, r.rules, Newest(MergeLint(BucketOf(r.onDisk, r.rules), r.lint)))
           \in CacheFile(LintBuckets)
<1>0. /\ r.rules \in Rulesets /\ r.onDisk \in CacheFile(LintBuckets)
      /\ r.lint \in Cache(LintEntries(r.rules))
  BY DEF RunInv, RunRecord, MemoryInv
<1>1. BucketOf(r.onDisk, r.rules) \in Cache(LintEntries(r.rules))
  BY <1>0, LoadedLint
<1>2. MergeLint(BucketOf(r.onDisk, r.rules), r.lint) \in Cache(LintEntries(r.rules))
  BY <1>0, <1>1, MergedEntries
<1>3. PICK entries : entries = Newest(MergeLint(BucketOf(r.onDisk, r.rules), r.lint))
  OBVIOUS
<1>4. entries \in Cache(LintEntries(r.rules)) /\ Len(entries) <= MaxEntries
  BY <1>2, <1>3, NewestEntries
<1>5. [rules |-> r.rules, entries |-> entries] \in LintBuckets
  BY <1>0, <1>4 DEF LintBuckets, LintCacheSets
<1> QED
  BY <1>0, <1>3, <1>5, WrittenFile

\* So is the sidecar cache, and it begins with what the scan stored last.
LEMMA WrittenSidecar ==
  ASSUME NEW r, RunInv(r), r.pc = "writeSidecar",
         NEW file, file = WithBucket(r.onDisk, r.rules,
                            Newest(MergeSidecar(BucketOf(r.onDisk, r.rules), r.side)))
  PROVE  /\ file \in CacheFile(SideBuckets)
         /\ KeysOf(Newest(r.side)) \subseteq KeysOf(BucketOf(file, r.rules))
<1>0. /\ r.rules \in Rulesets /\ r.onDisk \in CacheFile(SideBuckets)
      /\ r.side \in Cache(SidecarEntries(r.rules))
  BY DEF RunInv, RunRecord, MemoryInv
<1>1. PICK theirs : theirs = BucketOf(r.onDisk, r.rules)
  OBVIOUS
<1>2. theirs \in Cache(SidecarEntries(r.rules))
  BY <1>0, <1>1, LoadedSidecar
<1>3. PICK others : others = Without(theirs, KeysOf(r.side))
  OBVIOUS
<1>4. others \in Cache(SidecarEntries(r.rules)) /\ others \o r.side \in Cache(SidecarEntries(r.rules))
  BY <1>0, <1>2, <1>3, WithoutEntries, StoredEntries
<1>5. PICK entries : entries = Newest(others \o r.side)
  OBVIOUS
<1>6. entries \in Cache(SidecarEntries(r.rules)) /\ Len(entries) <= MaxEntries
  BY <1>4, <1>5, NewestEntries
<1>7. KeysOf(Newest(r.side)) \subseteq KeysOf(entries)
  BY <1>0, <1>4, <1>5, NewestOfConcat DEF Cache
<1>8. [rules |-> r.rules, entries |-> entries] \in SideBuckets
  BY <1>0, <1>6 DEF SideBuckets, SideCacheSets
<1>9. file = WithBucket(r.onDisk, r.rules, entries)
  BY <1>1, <1>3, <1>5 DEF MergeSidecar
<1> QED
  BY <1>0, <1>7, <1>8, <1>9, WrittenFile

\* The entries of a pass over files whose report is the one of a fresh lint.
LEMMA SideEntriesOfPass ==
  ASSUME tree \in Trees, NEW r, r.rules \in Rulesets, NEW pass \in SUBSET SourceFiles, NEW lanes,
         \A f \in pass : CrossReport(r, f) = CrossVerdict(r.rules, f, tree)
  PROVE  /\ SideEntries(r, pass, lanes) \in Cache(SidecarEntries(r.rules))
         /\ \A k \in KeysOf(SideEntries(r, pass, lanes)) : k[1] \in pass
<1>1. PICK files \in SUBSET SourceFiles : files = {f \in Hashed(pass) : lanes[f] # "nowhere"}
  BY DEF Hashed
<1>2. PICK s : s = SideEntries(r, pass, lanes)
  OBVIOUS
<1>3. s = [i \in DOMAIN InOrder(files) |-> SideEntry(r, InOrder(files)[i], pass, lanes)]
  BY <1>1, <1>2 DEF SideEntries
<1>4. DOMAIN s = DOMAIN InOrder(files) /\ s = [i \in DOMAIN s |-> s[i]]
  BY <1>3
<1>5. ASSUME NEW i \in DOMAIN s
      PROVE  s[i] \in SidecarEntries(r.rules) /\ s[i].key[1] = InOrder(files)[i]
  <2>1. PICK f : f = InOrder(files)[i]
    OBVIOUS
  <2>2. f \in files
    BY <1>4, <2>1, OrderedFiles
  <2>3. f \in pass /\ tree[f] # Missing /\ f \in SourceFiles
    BY <1>1, <2>2 DEF Hashed
  <2>4. PICK u \in Trees : u = tree
    OBVIOUS
  <2>5. PICK answer : Honest(answer, u) /\ Collected(f, pass, lanes) = Probes(f, u, answer)
    BY <2>4, CollectedAnswers
  <2>6. s[i] = [key |-> Key(f, u[f]), probes |-> Probes(f, u, answer),
                verdict |-> CrossVerdict(r.rules, f, u)]
    BY <1>3, <1>4, <2>1, <2>3, <2>4, <2>5 DEF SideEntry
  <2>7. s[i] \in SidecarEntries(r.rules)
    BY <2>3, <2>4, <2>5, <2>6, RecordedEntry
  <2> QED
    BY <2>1, <2>6, <2>7 DEF Key
<1>6. s \in Cache(SidecarEntries(r.rules)) /\ \A k \in KeysOf(s) : k[1] \in files
  BY <1>4, <1>5, EntriesOfPass
<1> QED
  BY <1>1, <1>2, <1>6 DEF Hashed

\* What a scan adds to the sidecar cache is sound and is about no replayed file.
LEMMA FreshSidecarEntries ==
  ASSUME tree \in Trees, NEW r, RunInv(r), NEW lanes
  PROVE  /\ FreshSidecar(r, lanes) \in Cache(SidecarEntries(r.rules))
         /\ \A k \in KeysOf(FreshSidecar(r, lanes)) : k[1] \notin r.replayed
<1>0. /\ r.rules \in Rulesets /\ Relinted(r) \subseteq SourceFiles /\ r.miss \subseteq SourceFiles
      /\ r.dropped \subseteq r.miss /\ r.replayed \subseteq Hits(r) /\ r.sideDropped \subseteq Relinted(r)
  BY DEF RunInv, RunRecord, PassesInv, Relinted, Hits
<1>1. Relinted(r) \cap r.miss = {} /\ Relinted(r) \cap r.replayed = {} /\ r.miss \cap r.replayed = {}
  BY <1>0 DEF Relinted, Hits
<1> DEFINE E == SidecarEntries(r.rules)
           s == IF r.sideDropped = {} THEN SideEntries(r, Relinted(r), lanes) ELSE <<>>
           t == IF Trusted(r) THEN SideEntries(r, r.miss, lanes) ELSE <<>>
<1>2. s \in Cache(E) /\ \A k \in KeysOf(s) : k[1] \in Relinted(r)
  <2>1. CASE r.sideDropped = {}
    <3>1. \A f \in Relinted(r) : CrossReport(r, f) = CrossVerdict(r.rules, f, tree)
      BY <1>0, <1>1, <2>1 DEF CrossReport
    <3> QED
      BY <1>0, <2>1, <3>1, SideEntriesOfPass
  <2>2. CASE r.sideDropped # {}
    BY <2>2, EmptyCache
  <2> QED
    BY <2>1, <2>2
<1>3. t \in Cache(E) /\ \A k \in KeysOf(t) : k[1] \in r.miss
  <2>1. CASE Trusted(r)
    <3>1. \A f \in r.miss : CrossReport(r, f) = CrossVerdict(r.rules, f, tree)
      BY <1>0, <1>1, <2>1 DEF CrossReport, Trusted
    <3> QED
      BY <1>0, <2>1, <3>1, SideEntriesOfPass
  <2>2. CASE ~Trusted(r)
    BY <2>2, EmptyCache
  <2> QED
    BY <2>1, <2>2
<1>4. FreshSidecar(r, lanes) = s \o t
  BY DEF FreshSidecar
<1> HIDE DEF s, t, E
<1>5. KeysOf(s) \cap KeysOf(t) = {}
  BY <1>1, <1>2, <1>3
<1>6. s \o t \in Cache(E) /\ KeysOf(s \o t) = KeysOf(s) \cup KeysOf(t)
  BY <1>2, <1>3, <1>5, ConcatEntries
<1>7. \A k \in KeysOf(s \o t) : k[1] \notin r.replayed
  BY <1>1, <1>2, <1>3, <1>6
<1> QED
  BY <1>4, <1>6, <1>7 DEF E

\* Storing them leaves the entries that were replayed in place.
LEMMA StoreSidecarRun ==
  ASSUME CachesInv, NEW r, RunInv(r), r.pc = "storeSidecar", NEW lanes,
         NEW fresh, fresh = FreshSidecar(r, lanes), NEW onDisk, NEW pc,
         pc = IF fresh = <<>> THEN "done" ELSE "writeSidecar",
         onDisk = IF fresh = <<>> THEN <<>> ELSE sideFile,
         NEW R, R = [r EXCEPT !.pc = pc, !.side = StoreAll(r.side, fresh), !.onDisk = onDisk]
  PROVE  RunInv(R)
<1>0. /\ r \in RunRecord /\ r.rules \in Rulesets /\ r.side \in Cache(SidecarEntries(r.rules))
      /\ tree \in Trees
  BY DEF RunInv, RunRecord, MemoryInv, CachesInv
<1>1. fresh \in Cache(SidecarEntries(r.rules)) /\ \A k \in KeysOf(fresh) : k[1] \notin r.replayed
  BY <1>0, FreshSidecarEntries
<1>2. PICK side : side = StoreAll(r.side, fresh)
  OBVIOUS
<1>3. /\ side \in Cache(SidecarEntries(r.rules))
      /\ KeysOf(side) = KeysOf(r.side) \cup KeysOf(fresh)
      /\ Elements(side) = {e \in Elements(r.side) : e.key \notin KeysOf(fresh)} \cup Elements(fresh)
  BY <1>0, <1>1, <1>2, StoredEntries DEF StoreAll
<1>4. onDisk \in CacheFile(SideBuckets)
  BY EmptyFile DEF CachesInv
<1>5. side \in UNION SideCacheSets /\ R = [r EXCEPT !.pc = pc, !.side = side, !.onDisk = onDisk]
  BY <1>0, <1>2, <1>3 DEF SideCacheSets
<1>6. R \in RunRecord
  BY <1>0, <1>4, <1>5 DEF RunRecord
<1>7. /\ SameCaches(r, R) /\ R.pc = pc /\ R.side = side /\ R.replayed = r.replayed
      /\ R.dropped = r.dropped /\ R.sideDropped = r.sideDropped /\ R.onDisk = onDisk
  BY <1>0, <1>5 DEF RunRecord, SameCaches
<1>8. PassesInv(R)
  BY <1>7 DEF RunInv, PassesInv, SameCaches, Hits, Relinted
<1>9. MemoryInv(R)
  BY <1>3, <1>4, <1>7 DEF RunInv, MemoryInv, SameCaches
<1>10. ASSUME NEW f \in r.replayed
       PROVE  /\ Key(f, tree[f]) \in KeysOf(side)
              /\ Lookup(side, Key(f, tree[f])).verdict = CrossVerdict(r.rules, f, tree)
  <2>1. PICK k : k = Key(f, tree[f])
    OBVIOUS
  <2>2. k \in KeysOf(r.side) /\ Lookup(r.side, k).verdict = CrossVerdict(r.rules, f, tree)
    BY <2>1 DEF RunInv, ReplayInv
  <2>3. k \notin KeysOf(fresh)
    BY <1>1, <2>1 DEF Key
  <2>4. Lookup(r.side, k) \in Elements(side) /\ Lookup(r.side, k).key = k
    BY <1>0, <1>3, <2>2, <2>3, LookupEntry
  <2>5. k \in KeysOf(side) /\ Lookup(side, k) = Lookup(r.side, k)
    BY <1>3, <2>2, <2>4, LookupEntry
  <2> QED
    BY <2>1, <2>2, <2>5
<1>11. ReplayInv(R)
  BY <1>7, <1>10 DEF RunInv, ReplayInv, SameCaches, Hits
<1> QED
  BY <1>6, <1>8, <1>9, <1>11 DEF RunInv

-----------------------------------------------------------------------------
(* The theorems *)

LEMMA CachesInit ==
  ASSUME Init
  PROVE  CachesInv
<1>1. tree \in Trees
  BY ProjectAssumption DEF Init, Trees, ProjectAssumption
<1>2. lintFile \in CacheFile(LintBuckets) /\ sideFile \in CacheFile(SideBuckets)
  BY EmptyFile DEF Init
<1>3. Idle \in RunRecord /\ RunInv(Idle)
  BY IdleRun DEF RunInv
<1>4. run = [p \in Runs |-> Idle]
  BY DEF Init
<1> QED
  BY <1>1, <1>2, <1>3, <1>4 DEF CachesInv

LEMMA CachesStep ==
  ASSUME CachesInv, [Next]_vars
  PROVE  CachesInv'
<1>0. /\ tree \in Trees /\ lintFile \in CacheFile(LintBuckets) /\ sideFile \in CacheFile(SideBuckets)
      /\ run \in [Runs -> RunRecord] /\ \A p \in Runs : RunInv(run[p])
  BY DEF CachesInv
<1>1. CASE UNCHANGED vars
  <2>1. UNCHANGED <<tree, lintFile, sideFile, run>>
    BY <1>1 DEF vars
  <2>2. \A r : RunInv(r) => RunInv(r)'
    BY <2>1 DEF RunInv, ReplayInv
  <2>3. ASSUME NEW p \in Runs
        PROVE  RunInv(run[p])'
    BY <1>0, <2>1 DEF RunInv, PassesInv, MemoryInv, ReplayInv
  <2> QED
    BY <1>0, <2>1, <2>3 DEF CachesInv
<1>2. CASE Edit
  <2>1. /\ UNCHANGED <<lintFile, sideFile, run>> /\ tree' \in Trees
        /\ \A p \in Runs : run[p].pc = "idle"
    BY <1>0, <1>2 DEF Edit, Frozen, Trees
  <2>2. ASSUME NEW p \in Runs
        PROVE  RunInv(run[p])'
    <3>1. run[p].files = {} /\ run[p].replayed = {}
      BY <1>0, <2>1 DEF RunInv, PassesInv, Hits
    <3>2. ReplayInv(run[p])'
      BY <2>1, <3>1 DEF ReplayInv, Hits
    <3> QED
      BY <1>0, <2>1, <3>2 DEF RunInv, PassesInv, MemoryInv
  <2> QED
    BY <1>0, <2>1, <2>2 DEF CachesInv
<1>3. ASSUME NEW p \in Runs, Start(p)
      PROVE  CachesInv'
  <2>1. PICK rules \in Rulesets, files \in SUBSET SourceFiles :
          run' = [run EXCEPT ![p] = [Idle EXCEPT !.pc = "loadSidecar", !.rules = rules,
                    !.files = files,
                    !.miss = {f \in files : tree[f] = Missing
                                \/ Key(f, tree[f]) \notin KeysOf(BucketOf(lintFile, rules))},
                    !.lint = BucketOf(lintFile, rules)]]
    BY <1>3 DEF Start
  <2>2. PICK entries : entries = BucketOf(lintFile, rules)
    OBVIOUS
  <2>3. PICK miss : miss = {f \in files : tree[f] = Missing \/ Key(f, tree[f]) \notin KeysOf(entries)}
    OBVIOUS
  <2>4. PICK R : R = [Idle EXCEPT !.pc = "loadSidecar", !.rules = rules, !.files = files,
                                  !.miss = miss, !.lint = entries]
    OBVIOUS
  <2>5. RunInv(R)
    BY <2>2, <2>3, <2>4, StartRun
  <2>6. run' = [run EXCEPT ![p] = R]
    BY <2>1, <2>2, <2>3, <2>4
  <2> QED
    BY <1>0, <1>3, <2>5, <2>6, OneRun DEF Start
<1>4. ASSUME NEW p \in Runs, LoadSidecar(p)
      PROVE  CachesInv'
  <2>1. PICK r : r = run[p]
    OBVIOUS
  <2>2. PICK side : side = BucketOf(sideFile, r.rules)
    OBVIOUS
  <2>3. PICK R : R = [r EXCEPT !.pc = "full", !.side = side]
    OBVIOUS
  <2>4. RunInv(R)
    BY <1>0, <1>4, <2>1, <2>2, <2>3, LoadRun DEF LoadSidecar
  <2>5. run' = [run EXCEPT ![p] = R]
    BY <1>0, <1>4, <2>1, <2>2, <2>3 DEF LoadSidecar
  <2> QED
    BY <1>0, <1>4, <2>4, <2>5, OneRun DEF LoadSidecar
<1>5. ASSUME NEW p \in Runs, FullPass(p)
      PROVE  CachesInv'
  <2>1. PICK r : r = run[p]
    OBVIOUS
  <2>2. PICK dropped \in SUBSET r.miss : run' = [run EXCEPT ![p].pc = "sidecar", ![p].dropped = dropped]
    BY <1>5, <2>1 DEF FullPass
  <2>3. PICK R : R = [r EXCEPT !.pc = "sidecar", !.dropped = dropped]
    OBVIOUS
  <2>4. RunInv(R)
    BY <1>0, <1>5, <2>1, <2>2, <2>3, FullRun DEF FullPass
  <2>5. run' = [run EXCEPT ![p] = R]
    BY <1>0, <2>1, <2>2, <2>3
  <2> QED
    BY <1>0, <1>5, <2>4, <2>5, OneRun DEF FullPass
<1>6. ASSUME NEW p \in Runs, SidecarPass(p)
      PROVE  CachesInv'
  <2>1. PICK r : r = run[p]
    OBVIOUS
  <2>2. PICK replayed : replayed = Replays(r)
    OBVIOUS
  <2>3. PICK dropped \in SUBSET (Hits(r) \ replayed) :
          run' = [run EXCEPT ![p].pc = "unbounded", ![p].replayed = replayed, ![p].sideDropped = dropped]
    BY <1>6, <2>1, <2>2 DEF SidecarPass
  <2>4. PICK R : R = [r EXCEPT !.pc = "unbounded", !.replayed = replayed, !.sideDropped = dropped]
    OBVIOUS
  <2>5. RunInv(R)
    BY <1>0, <1>6, <2>1, <2>2, <2>4, SidecarRun DEF SidecarPass
  <2>6. run' = [run EXCEPT ![p] = R]
    BY <1>0, <2>1, <2>3, <2>4
  <2> QED
    BY <1>0, <1>6, <2>5, <2>6, OneRun DEF SidecarPass
<1>7. ASSUME NEW p \in Runs, UnboundedPass(p)
      PROVE  CachesInv'
  <2>1. PICK r : r = run[p]
    OBVIOUS
  <2>2. PICK dropped \in SUBSET Hits(r) :
          run' = [run EXCEPT ![p].pc = "storeLint", ![p].looseDropped = dropped]
    BY <1>7, <2>1 DEF UnboundedPass
  <2>3. PICK R : R = [r EXCEPT !.pc = "storeLint", !.looseDropped = dropped]
    OBVIOUS
  <2>4. RunInv(R)
    BY <1>0, <1>7, <2>1, <2>2, <2>3, UnboundedRun DEF UnboundedPass
  <2>5. run' = [run EXCEPT ![p] = R]
    BY <1>0, <2>1, <2>2, <2>3
  <2> QED
    BY <1>0, <1>7, <2>4, <2>5, OneRun DEF UnboundedPass
<1>8. ASSUME NEW p \in Runs, Fails(p) \/ Report(p)
      PROVE  CachesInv'
  BY <1>0, <1>8, IdleRun, OneRun DEF Fails, Report
<1>9. ASSUME NEW p \in Runs, StoreLint(p)
      PROVE  CachesInv'
  <2>1. PICK r : r = run[p]
    OBVIOUS
  <2>2. PICK R : \/ /\ Trusted(r)
                    /\ R = [r EXCEPT !.pc = "writeLint", !.lint = StoreAll(r.lint, FreshLint(r)),
                                     !.onDisk = lintFile]
                    /\ run' = [run EXCEPT ![p] = R]
                 \/ R = [r EXCEPT !.pc = "storeSidecar"] /\ run' = [run EXCEPT ![p] = R]
    BY <1>0, <1>9, <2>1 DEF StoreLint
  <2>3. RunInv(R)
    BY <1>0, <1>9, <2>1, <2>2, StoreLintRun DEF StoreLint
  <2> QED
    BY <1>0, <1>9, <2>2, <2>3, OneRun DEF StoreLint
<1>10. ASSUME NEW p \in Runs, WriteLint(p)
       PROVE  CachesInv'
  <2>1. PICK r : r = run[p]
    OBVIOUS
  <2>2. PICK R : R = [r EXCEPT !.pc = "storeSidecar", !.onDisk = <<>>]
    OBVIOUS
  <2>3. RunInv(R)
    BY <1>0, <2>1, <2>2, WrittenRun
  <2>4. run' = [run EXCEPT ![p] = R]
    BY <1>0, <1>10, <2>1, <2>2 DEF WriteLint
  <2>5. lintFile' \in CacheFile(LintBuckets)
    BY <1>0, <1>10, <2>1, WrittenLint DEF WriteLint
  <2> QED
    BY <1>0, <1>10, <2>3, <2>4, <2>5, OneRun DEF WriteLint
<1>11. ASSUME NEW p \in Runs, StoreSidecar(p)
       PROVE  CachesInv'
  <2>1. PICK r : r = run[p]
    OBVIOUS
  <2>2. PICK lanes : LET fresh == FreshSidecar(r, lanes)
          IN  run' = [run EXCEPT ![p].pc = IF fresh = <<>> THEN "done" ELSE "writeSidecar",
                                 ![p].side = StoreAll(@, fresh),
                                 ![p].onDisk = IF fresh = <<>> THEN <<>> ELSE sideFile]
    BY <1>11, <2>1 DEF StoreSidecar
  <2>3. PICK fresh : fresh = FreshSidecar(r, lanes)
    OBVIOUS
  <2>4. PICK pc : pc = IF fresh = <<>> THEN "done" ELSE "writeSidecar"
    OBVIOUS
  <2>5. PICK onDisk : onDisk = IF fresh = <<>> THEN <<>> ELSE sideFile
    OBVIOUS
  <2>6. PICK R : R = [r EXCEPT !.pc = pc, !.side = StoreAll(r.side, fresh), !.onDisk = onDisk]
    OBVIOUS
  <2>7. RunInv(R)
    BY <1>0, <1>11, <2>1, <2>3, <2>4, <2>5, <2>6, StoreSidecarRun DEF StoreSidecar
  <2>8. run' = [run EXCEPT ![p] = R]
    BY <1>0, <2>1, <2>2, <2>3, <2>4, <2>5, <2>6
  <2> QED
    BY <1>0, <1>11, <2>7, <2>8, OneRun DEF StoreSidecar
<1>12. ASSUME NEW p \in Runs, WriteSidecar(p)
       PROVE  CachesInv'
  <2>1. PICK r : r = run[p]
    OBVIOUS
  <2>2. PICK R : R = [r EXCEPT !.pc = "done", !.onDisk = <<>>]
    OBVIOUS
  <2>3. RunInv(R)
    BY <1>0, <2>1, <2>2, WrittenRun
  <2>4. run' = [run EXCEPT ![p] = R]
    BY <1>0, <1>12, <2>1, <2>2 DEF WriteSidecar
  <2>5. sideFile' \in CacheFile(SideBuckets)
    BY <1>0, <1>12, <2>1, WrittenSidecar DEF WriteSidecar
  <2> QED
    BY <1>0, <1>12, <2>3, <2>4, <2>5, OneRun DEF WriteSidecar
<1> QED
  BY <1>1, <1>2, <1>3, <1>4, <1>5, <1>6, <1>7, <1>8, <1>9, <1>10, <1>11, <1>12 DEF Next

\* The inductive invariant: what is on disk and in memory is sound, and a file
\* that a scan does not lint again is in its caches as it is now.
THEOREM Invariance == Spec => []CachesInv
<1>1. Init => CachesInv
  BY CachesInit
<1>2. CachesInv /\ [Next]_vars => CachesInv'
  BY CachesStep
<1> QED
  BY <1>1, <1>2, PTL DEF Spec

\* A cache of unique keys has as many keys as entries.
LEMMA KeysAreCounted ==
  ASSUME NEW E, NEW s \in Cache(E)
  PROVE  Cardinality(KeysOf(s)) = Len(s)
<1> DEFINE S == 1 .. Len(s)
           f == [i \in S |-> s[i].key]
<1>1. s \in Seq(E) /\ UniqueKeys(s) /\ DOMAIN s = S /\ Len(s) \in Nat
  BY DEF Cache
<1>2. IsFiniteSet(S) /\ Cardinality(S) = Len(s)
  BY <1>1, FS_Interval
<1>3. f \in Surjection(S, KeysOf(s))
  BY <1>1 DEF Surjection, KeysOf
<1>4. f \in Injection(S, KeysOf(s))
  BY <1>1, <1>3 DEF Surjection, Injection, IsInjective, UniqueKeys
<1> QED
  BY <1>2, <1>3, <1>4, FS_Surjection

\* The caches on disk are ordered maps within their limits, and a scan sorts its
\* files into the passes that linted them.
THEOREM TypeCorrect == Spec => []TypeOK
<1>1. CachesInv => TypeOK
  <2> SUFFICES ASSUME CachesInv
               PROVE  TypeOK
    OBVIOUS
  <2>1. ASSUME NEW rules \in Rulesets, NEW s \in Cache(LintEntries(rules))
        PROVE  KeysOf(s) \subseteq Keys
    <3>1. \A i \in DOMAIN s : s[i] \in LintEntries(rules)
      BY DEF Cache
    <3> QED
      BY <3>1 DEF KeysOf, LintEntries
  <2>2. ASSUME NEW rules \in Rulesets, NEW s \in Cache(SidecarEntries(rules))
        PROVE  KeysOf(s) \subseteq Keys
    <3>1. \A i \in DOMAIN s : s[i] \in SideEntryRecord
      BY DEF Cache, SidecarEntries
    <3> QED
      BY <3>1 DEF KeysOf, SideEntryRecord
  <2>3. ASSUME NEW file \in CacheFile(LintBuckets)
        PROVE  WellFormed(file)
    <3>1. /\ file \in Seq(LintBuckets) /\ Len(file) <= MaxRulesets
          /\ \A i, j \in DOMAIN file : file[i].rules = file[j].rules => i = j
      BY DEF CacheFile, UniqueRules
    <3>2. \A i \in DOMAIN file : /\ file[i].rules \in Rulesets /\ Len(file[i].entries) <= MaxEntries
                                 /\ file[i].entries \in Cache(LintEntries(file[i].rules))
      BY <3>1 DEF LintBuckets
    <3> QED
      BY <2>1, <3>1, <3>2, KeysAreCounted DEF WellFormed
  <2>4. ASSUME NEW file \in CacheFile(SideBuckets)
        PROVE  WellFormed(file)
    <3>1. /\ file \in Seq(SideBuckets) /\ Len(file) <= MaxRulesets
          /\ \A i, j \in DOMAIN file : file[i].rules = file[j].rules => i = j
      BY DEF CacheFile, UniqueRules
    <3>2. \A i \in DOMAIN file : /\ file[i].rules \in Rulesets /\ Len(file[i].entries) <= MaxEntries
                                 /\ file[i].entries \in Cache(SidecarEntries(file[i].rules))
      BY <3>1 DEF SideBuckets
    <3> QED
      BY <2>2, <3>1, <3>2, KeysAreCounted DEF WellFormed
  <2>5. tree \in Trees /\ WellFormed(lintFile) /\ WellFormed(sideFile)
    BY <2>3, <2>4 DEF CachesInv
  <2>6. \A p \in Runs : run[p] \in RunRecord /\ PassesInv(run[p])
    BY DEF CachesInv, RunInv
  <2> QED
    BY <2>5, <2>6 DEF TypeOK, RunRecord, PassesInv
<1> QED
  BY <1>1, Invariance, PTL

\* Whatever fails, is merged or is killed, the file cache never degrades "to a
\* wrong result".
THEOREM FileCacheStaysSound == Spec => []FileCacheIsSound
<1>1. CachesInv => FileCacheIsSound
  <2> SUFFICES ASSUME CachesInv, NEW i \in DOMAIN lintFile, NEW j \in DOMAIN lintFile[i].entries
               PROVE  LET e == lintFile[i].entries[j]
                      IN  e.verdict = LocalVerdict(lintFile[i].rules, e.key[2])
    BY DEF FileCacheIsSound
  <2>1. lintFile[i] \in LintBuckets
    BY DEF CachesInv, CacheFile
  <2>2. lintFile[i].entries \in Cache(LintEntries(lintFile[i].rules))
    BY <2>1 DEF LintBuckets
  <2>3. lintFile[i].entries[j] \in LintEntries(lintFile[i].rules)
    BY <2>2 DEF Cache
  <2> QED
    BY <2>3 DEF LintEntries
<1> QED
  BY <1>1, Invariance, PTL

\* Nor does the sidecar cache replay a stale verdict, whoever collected its probes.
THEOREM SidecarStaysSound == Spec => []SidecarIsSound
<1>1. CachesInv => SidecarIsSound
  <2> SUFFICES ASSUME CachesInv, NEW i \in DOMAIN sideFile, NEW j \in DOMAIN sideFile[i].entries
               PROVE  SideSound(sideFile[i].entries[j], sideFile[i].rules)
    BY DEF SidecarIsSound, SideSound
  <2>1. sideFile[i] \in SideBuckets
    BY DEF CachesInv, CacheFile
  <2>2. sideFile[i].entries \in Cache(SidecarEntries(sideFile[i].rules))
    BY <2>1 DEF SideBuckets
  <2>3. sideFile[i].entries[j] \in SidecarEntries(sideFile[i].rules)
    BY <2>2 DEF Cache
  <2> QED
    BY <2>3 DEF SidecarEntries
<1> QED
  BY <1>1, Invariance, PTL

\* A scan with warm caches reports what one without them would.
THEOREM ReportsAreFresh == Spec => []ReportIsFresh
<1>1. CachesInv => ReportIsFresh
  <2> SUFFICES ASSUME CachesInv, NEW p \in Runs
               PROVE  LET r == run[p]
                      IN  /\ \A f \in Analyzed(r) :
                               /\ LocalReport(r, f) = LocalVerdict(r.rules, tree[f])
                               /\ CrossReport(r, f) = CrossVerdict(r.rules, f, tree)
                          /\ r.dropped \cup r.sideDropped \cup r.looseDropped = {} =>
                               Analyzed(r) = r.files
    BY DEF ReportIsFresh
  <2>1. PICK r : r = run[p]
    OBVIOUS
  <2>2. RunInv(r) /\ r.lint \in Cache(LintEntries(r.rules))
    BY <2>1 DEF CachesInv, RunInv, MemoryInv
  <2>3. ASSUME NEW f \in Analyzed(r)
        PROVE  LocalReport(r, f) = LocalVerdict(r.rules, tree[f])
    <3>1. f \in r.files /\ f \notin r.dropped
      BY DEF Analyzed
    <3>2. CASE f \in r.miss
      BY <3>1, <3>2 DEF LocalReport
    <3>3. CASE f \notin r.miss
      <4>1. PICK k : k = Key(f, tree[f])
        OBVIOUS
      <4>2. k \in KeysOf(r.lint)
        BY <2>2, <3>1, <3>3, <4>1 DEF RunInv, ReplayInv, Hits
      <4>3. PICK e : e = Lookup(r.lint, k)
        OBVIOUS
      <4>4. e \in LintEntries(r.rules) /\ e.key = k
        BY <2>2, <4>2, <4>3, LookupEntry
      <4>5. e.verdict = LocalVerdict(r.rules, k[2])
        BY <4>4 DEF LintEntries
      <4>6. k[2] = tree[f]
        BY <4>1 DEF Key
      <4> QED
        BY <3>1, <3>3, <4>1, <4>3, <4>5, <4>6 DEF LocalReport
    <3> QED
      BY <3>2, <3>3
  <2>4. ASSUME NEW f \in Analyzed(r)
        PROVE  CrossReport(r, f) = CrossVerdict(r.rules, f, tree)
    <3>1. f \notin r.dropped \cup r.sideDropped
      BY DEF Analyzed
    <3>2. f \in r.replayed => Lookup(r.side, Key(f, tree[f])).verdict = CrossVerdict(r.rules, f, tree)
      BY <2>2 DEF RunInv, ReplayInv
    <3> QED
      BY <3>1, <3>2 DEF CrossReport
  <2>5. r.dropped \cup r.sideDropped \cup r.looseDropped = {} => Analyzed(r) = r.files
    BY DEF Analyzed
  <2> QED
    BY <2>1, <2>3, <2>4, <2>5
<1> QED
  BY <1>1, Invariance, PTL

\* Over its limit, the sidecar cache drops older entries before those just stored.
THEOREM FreshEntriesAreKept == Spec => FreshSidecarEntriesAreKept
<1>1. CachesInv /\ [Next]_vars =>
        [\A p \in Runs : run[p].pc = "writeSidecar" /\ run'[p].pc = "done" /\ sideFile' # sideFile =>
           KeysOf(Newest(run[p].side)) \subseteq KeysOf(BucketOf(sideFile', run[p].rules))]_vars
  <2> SUFFICES ASSUME CachesInv, [Next]_vars, NEW p \in Runs, run[p].pc = "writeSidecar",
                      run'[p].pc = "done", sideFile' # sideFile
               PROVE  KeysOf(Newest(run[p].side)) \subseteq KeysOf(BucketOf(sideFile', run[p].rules))
    OBVIOUS
  <2>1. PICK q \in Runs : WriteSidecar(q)
    BY DEF Next, vars, Edit, Start, LoadSidecar, FullPass, SidecarPass, UnboundedPass, Fails,
           StoreLint, WriteLint, StoreSidecar, Report
  <2>2. run \in [Runs -> RunRecord] /\ RunInv(run[p])
    BY DEF CachesInv
  <2>3. q = p
    BY <2>1, <2>2 DEF WriteSidecar
  <2>4. PICK r : r = run[p]
    OBVIOUS
  <2>5. PICK file : file = sideFile'
    OBVIOUS
  <2>6. file = WithBucket(r.onDisk, r.rules,
                          Newest(MergeSidecar(BucketOf(r.onDisk, r.rules), r.side)))
    BY <2>1, <2>3, <2>4, <2>5 DEF WriteSidecar
  <2> QED
    BY <2>2, <2>4, <2>5, <2>6, WrittenSidecar
<1> QED
  BY <1>1, Invariance, PTL DEF Spec, FreshSidecarEntriesAreKept
=============================================================================
