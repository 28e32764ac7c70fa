--------------------------- MODULE SequenceLemmas ---------------------------
(***************************************************************************)
(* Facts about the operators on sequences the models take from the         *)
(* community modules, for the proofs.                                      *)
(***************************************************************************)
EXTENDS SequencesExt, SequenceTheorems, WellFoundedInduction, TLAPS

\* A set of natural numbers that is not empty has a least element.
LEMMA LeastElement ==
  ASSUME NEW I \in SUBSET Nat, I # {}
  PROVE  Min(I) \in I /\ \A k \in I : Min(I) <= k
<1> DEFINE Less == {p \in Nat \X Nat : p[1] < p[2]}
<1>1. OpToRel(<, Nat) = Less
  BY Zenon DEF OpToRel
<1>2. IsWellFoundedOn(Less, Nat)
  BY <1>1, NatLessThanWellFounded, Zenon
<1>3. \E x \in I : \A y \in I : ~ (<<y, x>> \in Less)
  <2> HIDE DEF Less
  <2> QED
    BY <1>2, WFMin
<1>4. \E x \in I : \A y \in I : x <= y
  <2>1. PICK x \in I : \A y \in I : ~ (<<y, x>> \in Less)
    BY <1>3
  <2>2. ASSUME NEW y \in I
        PROVE  x <= y
    <3>1. x \in Nat /\ y \in Nat /\ ~ (<<y, x>> \in Less)
      BY <2>1
    <3>2. <<y, x>> \in Nat \X Nat /\ <<y, x>>[1] = y /\ <<y, x>>[2] = x
      BY <3>1
    <3> QED
      BY <3>1, <3>2
  <2> QED
    BY <2>2
<1> QED
  BY <1>4 DEF Min

\* The elements of a sequence whose position i is cut out.
LEMMA RemoveAtElements ==
  ASSUME NEW S, NEW s \in Seq(S), NEW i \in DOMAIN s
  PROVE  /\ RemoveAt(s, i) \in Seq(S)
         /\ Len(RemoveAt(s, i)) = Len(s) - 1
         /\ \A a \in 1 .. Len(s) - 1 :
              RemoveAt(s, i)[a] = IF a < i THEN s[a] ELSE s[a + 1]
<1> DEFINE front == SubSeq(s, 1, i - 1)
           back  == SubSeq(s, i + 1, Len(s))
<1>1. i \in 1 .. Len(s) /\ Len(s) \in Nat /\ \A a \in 1 .. Len(s) : s[a] \in S
  OBVIOUS
<1>2. /\ front \in Seq(S) /\ Len(front) = i - 1
      /\ \A a \in 1 .. i - 1 : front[a] = s[a]
  BY <1>1, SubSeqProperties
<1>3. /\ back \in Seq(S) /\ Len(back) = Len(s) - i
      /\ \A a \in 1 .. Len(s) - i : back[a] = s[i + a]
  <2>1. \A a \in i + 1 .. Len(s) : s[a] \in S
    BY <1>1
  <2>2. /\ back \in Seq(S)
        /\ Len(back) = IF i + 1 <= Len(s) THEN Len(s) - (i + 1) + 1 ELSE 0
        /\ \A a \in 1 .. Len(s) - (i + 1) + 1 : back[a] = s[i + 1 + a - 1]
    BY <1>1, <2>1, SubSeqProperties
  <2>3. \A a \in 1 .. Len(s) - i : i + 1 + a - 1 = i + a
    BY <1>1
  <2> QED
    BY <1>1, <2>2, <2>3
<1> HIDE DEF front, back
<1>4. /\ front \o back \in Seq(S)
      /\ Len(front \o back) = Len(front) + Len(back)
      /\ \A a \in 1 .. Len(front) + Len(back) :
           (front \o back)[a] = IF a <= Len(front) THEN front[a] ELSE back[a - Len(front)]
  BY <1>2, <1>3, ConcatProperties
<1>5. ASSUME NEW a \in 1 .. Len(s) - 1
      PROVE  (front \o back)[a] = IF a < i THEN s[a] ELSE s[a + 1]
  <2>1. a \in 1 .. Len(front) + Len(back) /\ a \in Int /\ i \in Int
    BY <1>1, <1>2, <1>3
  <2>2. (front \o back)[a] = IF a <= i - 1 THEN front[a] ELSE back[a - (i - 1)]
    BY <2>1, <1>2, <1>4
  <2>3. CASE a < i
    BY <2>1, <2>2, <2>3, <1>2
  <2>4. CASE ~(a < i)
    <3>1. a - (i - 1) \in 1 .. Len(s) - i /\ i + (a - (i - 1)) = a + 1 /\ ~(a <= i - 1)
      BY <2>1, <2>4, <1>1
    <3>2. back[a - (i - 1)] = s[i + (a - (i - 1))]
      BY <3>1, <1>3
    <3> QED
      BY <2>2, <2>4, <3>1, <3>2
  <2> QED
    BY <2>3, <2>4
<1>6. Len(front \o back) = Len(s) - 1
  BY <1>1, <1>2, <1>3, <1>4
<1>7. RemoveAt(s, i) = front \o back
  BY DEF RemoveAt, front, back
<1> QED
  BY <1>4, <1>5, <1>6, <1>7

\* Cutting position i out of a sequence without repetitions takes away that
\* element only, and no repetition appears.
LEMMA RemoveAtOnce ==
  ASSUME NEW S, NEW s \in Seq(S), NEW i \in DOMAIN s,
         \A a, b \in DOMAIN s : s[a] = s[b] => a = b,
         NEW r, r = RemoveAt(s, i)
  PROVE  /\ \A a, b \in DOMAIN r : r[a] = r[b] => a = b
         /\ \A x : (\E a \in DOMAIN r : r[a] = x)
                     <=> (\E a \in DOMAIN s : s[a] = x) /\ x # s[i]
<1>1. /\ r \in Seq(S)
      /\ Len(r) = Len(s) - 1
      /\ \A a \in 1 .. Len(s) - 1 : r[a] = IF a < i THEN s[a] ELSE s[a + 1]
  BY RemoveAtElements
<1>2. DOMAIN r = 1 .. Len(s) - 1 /\ DOMAIN s = 1 .. Len(s) /\ Len(s) \in Nat
  BY <1>1
<1>3. ASSUME NEW a \in DOMAIN r, NEW b \in DOMAIN r, r[a] = r[b]
      PROVE  a = b
  <2>1. a \in 1 .. Len(s) - 1 /\ b \in 1 .. Len(s) - 1
    BY <1>2
  <2> DEFINE before(k) == IF k < i THEN k ELSE k + 1
  <2>2. before(a) \in DOMAIN s /\ before(b) \in DOMAIN s
    BY <1>2, <2>1
  <2>3. s[before(a)] = s[before(b)]
    BY <1>1, <1>3, <2>1
  <2>4. before(a) = before(b)
    <3> HIDE DEF before
    <3> QED
      BY <2>2, <2>3
  <2> QED
    BY <1>2, <2>1, <2>4
<1>4. ASSUME NEW x, NEW a \in DOMAIN r, r[a] = x
      PROVE  (\E b \in DOMAIN s : s[b] = x) /\ x # s[i]
  <2>1. CASE a < i
    BY <2>1, <1>1, <1>2, <1>4
  <2>2. CASE a >= i
    BY <2>2, <1>1, <1>2, <1>4
  <2> QED
    BY <2>1, <2>2, <1>2
<1>5. ASSUME NEW x, NEW a \in DOMAIN s, s[a] = x, x # s[i]
      PROVE  \E b \in DOMAIN r : r[b] = x
  <2>1. CASE a < i
    BY <2>1, <1>1, <1>2, <1>5
  <2>2. CASE a > i
    <3>1. a - 1 \in DOMAIN r /\ r[a - 1] = s[a]
      BY <2>2, <1>1, <1>2
    <3> QED
      BY <3>1, <1>5
  <2> QED
    BY <2>1, <2>2, <1>2, <1>5
<1> QED
  BY <1>1, <1>3, <1>4, <1>5

\* RemoveFirst cuts out one occurrence of e, or leaves the sequence alone.
LEMMA RemoveFirstCases ==
  ASSUME NEW S, NEW s \in Seq(S), NEW e
  PROVE  \/ /\ \A i \in DOMAIN s : s[i] # e
            /\ RemoveFirst(s, e) = s
         \/ \E i \in DOMAIN s : s[i] = e /\ RemoveFirst(s, e) = RemoveAt(s, i)
<1>1. DOMAIN s = 1 .. Len(s) /\ Len(s) \in Nat
  BY LenProperties
<1>2. CASE \A i \in 1 .. Len(s) : s[i] # e
  BY <1>1, <1>2 DEF RemoveFirst
<1>3. CASE \E i \in 1 .. Len(s) : s[i] = e
  <2> DEFINE I == {i \in 1 .. Len(s) : s[i] = e}
  <2>1. I \in SUBSET Nat /\ I # {}
    BY <1>1, <1>3
  <2>2. Min(I) \in I
    BY <2>1, LeastElement
  <2>3. RemoveFirst(s, e) = RemoveAt(s, Min(I))
    BY <1>3, <2>1 DEF RemoveFirst, SelectInSeq
  <2> QED
    BY <1>1, <2>2, <2>3
<1> QED
  BY <1>2, <1>3

\* The operations on sequences the models use keep the type of the elements.
LEMMA SequenceTypes ==
  ASSUME NEW S, NEW s \in Seq(S)
  PROVE  /\ \A e \in S : Append(s, e) \in Seq(S)
         /\ \A e : RemoveFirst(s, e) \in Seq(S)
         /\ s # <<>> => /\ Head(s) \in S /\ Tail(s) \in Seq(S)
                        /\ Last(s) \in S /\ Front(s) \in Seq(S)
<1>1. ASSUME NEW e
      PROVE  RemoveFirst(s, e) \in Seq(S)
  BY RemoveFirstCases, RemoveAtElements
<1>2. ASSUME s # <<>>
      PROVE  Last(s) \in S /\ Front(s) \in Seq(S)
  <2>1. Len(s) \in Nat \ {0} /\ \A i \in 1 .. Len(s) : s[i] \in S
    BY <1>2, EmptySeq, LenProperties, ElementOfSeq
  <2>2. \A i \in 1 .. Len(s) - 1 : s[i] \in S
    BY <2>1
  <2>3. Front(s) \in Seq(S)
    BY <2>1, <2>2, SubSeqProperties DEF Front
  <2> QED
    BY <2>1, <2>3 DEF Last
<1> QED
  BY <1>1, <1>2, AppendProperties, HeadTailProperties

\* What Append, Tail, Front and RemoveFirst do to the elements of a sequence
\* and to its having no repetitions.
LEMMA AppendSet ==
  ASSUME NEW S, NEW s \in Seq(S), NEW e \in S
  PROVE  /\ ToSet(Append(s, e)) = ToSet(s) \cup {e}
         /\ IsInjective(s) /\ e \notin ToSet(s) => IsInjective(Append(s, e))
<1> DEFINE t == Append(s, e)
<1>1. DOMAIN s = 1 .. Len(s) /\ Len(s) \in Nat
  BY LenProperties
<1>2. /\ DOMAIN t = 1 .. Len(s) + 1
      /\ \A i \in 1 .. Len(s) : t[i] = s[i]
      /\ t[Len(s) + 1] = e
  BY AppendProperties, LenProperties
<1> HIDE DEF t
<1>3. Len(s) + 1 \in DOMAIN t /\ \A i \in DOMAIN s : i \in DOMAIN t
  BY <1>1, <1>2
<1>4. \A i \in DOMAIN t : i \in DOMAIN s \/ i = Len(s) + 1
  BY <1>1, <1>2
<1>5. ToSet(t) = ToSet(s) \cup {e}
  BY <1>1, <1>2, <1>3, <1>4 DEF ToSet
<1>6. IsInjective(s) /\ e \notin ToSet(s) => IsInjective(t)
  BY <1>1, <1>2, <1>3, <1>4 DEF ToSet, IsInjective
<1> QED
  BY <1>5, <1>6 DEF t

\* Tail takes the first element away, and it alone.
LEMMA TailSet ==
  ASSUME NEW S, NEW s \in Seq(S), s # <<>>
  PROVE  /\ Head(s) \in ToSet(s)
         /\ ToSet(s) = ToSet(Tail(s)) \cup {Head(s)}
         /\ IsInjective(s) => IsInjective(Tail(s)) /\ Head(s) \notin ToSet(Tail(s))
<1> DEFINE t == Tail(s)
<1>1. DOMAIN s = 1 .. Len(s) /\ Len(s) \in Nat \ {0}
  BY LenProperties, EmptySeq
<1>2. /\ DOMAIN t = 1 .. Len(s) - 1 /\ Head(s) = s[1]
      /\ \A i \in 1 .. Len(s) - 1 : t[i] = s[i + 1]
  BY <1>1, HeadTailProperties, LenProperties
<1> HIDE DEF t
<1>3. 1 \in DOMAIN s /\ \A i \in DOMAIN t : i + 1 \in DOMAIN s /\ i + 1 # 1
  BY <1>1, <1>2
<1>4. \A i \in DOMAIN s : i = 1 \/ (i - 1 \in DOMAIN t /\ t[i - 1] = s[i])
  BY <1>1, <1>2
<1>5. ToSet(s) = ToSet(t) \cup {Head(s)}
  <2>1. \A i \in DOMAIN t : t[i] \in ToSet(s)
    BY <1>2, <1>3 DEF ToSet
  <2>2. \A i \in DOMAIN s : s[i] \in ToSet(t) \cup {Head(s)}
    BY <1>2, <1>4 DEF ToSet
  <2> QED
    BY <1>2, <1>3, <2>1, <2>2 DEF ToSet
<1>6. ASSUME IsInjective(s)
      PROVE  IsInjective(t) /\ Head(s) \notin ToSet(t)
  <2>1. \A i, k \in DOMAIN t : t[i] = t[k] => i + 1 = k + 1
    BY <1>2, <1>3, <1>6 DEF IsInjective
  <2>2. \A i, k \in DOMAIN t : i + 1 = k + 1 => i = k
    BY <1>2
  <2>3. \A i \in DOMAIN t : t[i] # s[1]
    BY <1>2, <1>3, <1>6 DEF IsInjective
  <2> QED
    BY <1>2, <2>1, <2>2, <2>3 DEF IsInjective, ToSet
<1> QED
  BY <1>5, <1>6 DEF t

\* Front takes the last element away, and it alone.
LEMMA FrontSet ==
  ASSUME NEW S, NEW s \in Seq(S), s # <<>>
  PROVE  /\ ToSet(s) = ToSet(Front(s)) \cup {Last(s)}
         /\ IsInjective(s) => IsInjective(Front(s)) /\ Last(s) \notin ToSet(Front(s))
<1> DEFINE t == Front(s)
<1>1. DOMAIN s = 1 .. Len(s) /\ Len(s) \in Nat \ {0} /\ \A i \in 1 .. Len(s) : s[i] \in S
  BY LenProperties, EmptySeq, ElementOfSeq
<1>2. /\ DOMAIN t = 1 .. Len(s) - 1 /\ Last(s) = s[Len(s)]
      /\ \A i \in 1 .. Len(s) - 1 : t[i] = s[i]
  <2>1. \A i \in 1 .. Len(s) - 1 : s[i] \in S
    BY <1>1
  <2>2. /\ t \in Seq(S)
        /\ Len(t) = IF 1 <= Len(s) - 1 THEN Len(s) - 1 - 1 + 1 ELSE 0
        /\ \A i \in 1 .. Len(s) - 1 - 1 + 1 : t[i] = s[1 + i - 1]
    BY <1>1, <2>1, SubSeqProperties DEF Front
  <2> HIDE DEF t
  <2>3. Len(t) = Len(s) - 1
    <3>1. \A n \in Nat \ {0} : n - 1 = IF 1 <= n - 1 THEN n - 1 - 1 + 1 ELSE 0
      OBVIOUS
    <3> QED
      BY <1>1, <2>2, <3>1
  <2>4. DOMAIN t = 1 .. Len(s) - 1
    BY <2>2, <2>3, LenProperties
  <2>5. ASSUME NEW i \in 1 .. Len(s) - 1
        PROVE  t[i] = s[i]
    <3>1. i \in 1 .. Len(s) - 1 - 1 + 1 /\ 1 + i - 1 = i
      BY <1>1
    <3> QED
      BY <2>2, <3>1
  <2> QED
    BY <2>4, <2>5 DEF Last
<1> HIDE DEF t
<1>3. Len(s) \in DOMAIN s /\ \A i \in DOMAIN t : i \in DOMAIN s /\ i # Len(s)
  BY <1>1, <1>2
<1>4. \A i \in DOMAIN s : i = Len(s) \/ i \in DOMAIN t
  BY <1>1, <1>2
<1>5. ToSet(s) = ToSet(t) \cup {Last(s)}
  BY <1>2, <1>3, <1>4 DEF ToSet
<1>6. ASSUME IsInjective(s)
      PROVE  IsInjective(t) /\ Last(s) \notin ToSet(t)
  BY <1>2, <1>3, <1>6 DEF IsInjective, ToSet
<1> QED
  BY <1>5, <1>6 DEF t

\* RemoveFirst on a sequence without repetitions takes the element out of it.
LEMMA RemoveFirstSet ==
  ASSUME NEW S, NEW s \in Seq(S), NEW e, IsInjective(s)
  PROVE  /\ IsInjective(RemoveFirst(s, e))
         /\ ToSet(RemoveFirst(s, e)) = ToSet(s) \ {e}
<1>1. CASE (\A i \in DOMAIN s : s[i] # e) /\ RemoveFirst(s, e) = s
  BY <1>1 DEF ToSet
<1>2. ASSUME NEW i \in DOMAIN s, s[i] = e, RemoveFirst(s, e) = RemoveAt(s, i)
      PROVE  /\ IsInjective(RemoveFirst(s, e))
             /\ ToSet(RemoveFirst(s, e)) = ToSet(s) \ {e}
  <2> DEFINE r == RemoveAt(s, i)
  <2>1. \A a, b \in DOMAIN s : s[a] = s[b] => a = b
    BY DEF IsInjective
  <2>2. /\ \A a, b \in DOMAIN r : r[a] = r[b] => a = b
        /\ \A x : (\E a \in DOMAIN r : r[a] = x)
                    <=> (\E a \in DOMAIN s : s[a] = x) /\ x # s[i]
    BY <2>1, RemoveAtOnce
  <2> HIDE DEF r
  <2>3. \A x : x \in ToSet(r) <=> x \in ToSet(s) /\ x # e
    BY <1>2, <2>2 DEF ToSet
  <2> QED
    BY <1>2, <2>2, <2>3 DEF IsInjective, r
<1> QED
  BY <1>1, <1>2, RemoveFirstCases

\* Putting one element in front of a sequence.
LEMMA ConsElements ==
  ASSUME NEW S, NEW s \in Seq(S), NEW e \in S
  PROVE  /\ <<e>> \o s \in Seq(S)
         /\ DOMAIN (<<e>> \o s) = 1 .. Len(s) + 1
         /\ (<<e>> \o s)[1] = e
         /\ \A i \in 1 .. Len(s) : (<<e>> \o s)[i + 1] = s[i]
<1>1. <<e>> \in Seq(S) /\ Len(<<e>>) = 1 /\ <<e>>[1] = e /\ Len(s) \in Nat
  BY LenProperties
<1> DEFINE t == <<e>> \o s
<1>2. /\ t \in Seq(S) /\ Len(t) = Len(<<e>>) + Len(s)
      /\ \A i \in 1 .. Len(<<e>>) + Len(s) :
           t[i] = IF i <= Len(<<e>>) THEN <<e>>[i] ELSE s[i - Len(<<e>>)]
  BY <1>1, ConcatProperties
<1> HIDE DEF t
<1>3. Len(t) = Len(s) + 1 /\ DOMAIN t = 1 .. Len(t)
  BY <1>1, <1>2, LenProperties
<1>4. 1 \in 1 .. Len(<<e>>) + Len(s) /\ 1 <= Len(<<e>>)
  BY <1>1
<1>5. t[1] = e
  BY <1>1, <1>2, <1>4
<1>6. \A i \in 1 .. Len(s) : t[i + 1] = s[i]
  <2>1. ASSUME NEW i \in 1 .. Len(s)
        PROVE  t[i + 1] = s[i]
    <3>1. i + 1 \in 1 .. Len(<<e>>) + Len(s) /\ ~(i + 1 <= Len(<<e>>)) /\ i + 1 - Len(<<e>>) = i
      BY <1>1
    <3> QED
      BY <1>2, <3>1
  <2> QED
    BY <2>1
<1> QED
  BY <1>2, <1>3, <1>5, <1>6 DEF t

=============================================================================
