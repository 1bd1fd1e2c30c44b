--------------------------- MODULE SequenceLemmas ---------------------------
(***************************************************************************)
(* What the sequence operators of the models return: the slices of the     *)
(* connection manager are only changed by append, by cutting off the first *)
(* element, and by removing the first occurrence of an element, which keep *)
(* the order of what stays; what a connection has received and handled are *)
(* prefixes of what was sent.                                              *)
(***************************************************************************)
EXTENDS Integers, SequencesExt, SequenceTheorems, FiniteSetTheorems,
        WellFoundedInduction, TLAPS

\* Min of a non-empty set of naturals is its least element.
LEMMA MinOfNats ==
  ASSUME NEW I \in SUBSET Nat, I # {}
  PROVE  Min(I) \in I /\ \A y \in I : Min(I) <= y
<1> DEFINE R == OpToRel(<, Nat)
<1>1. \E x \in I : \A y \in I : ~ (<<y, x>> \in R)
  <2>1. IsWellFoundedOn(R, Nat)
    BY NatLessThanWellFounded
  <2> HIDE DEF R
  <2> QED  BY <2>1, WFMin
<1>2. \E x \in I : \A y \in I : x <= y
  <2>1. PICK x \in I : \A y \in I : ~ (<<y, x>> \in R)
    BY <1>1
  <2>2. ASSUME NEW y \in I, y < x
        PROVE  FALSE
    <3>1. <<y, x>> \in Nat \X Nat
      OBVIOUS
    <3>2. <<y, x>>[1] < <<y, x>>[2]
      BY <2>2
    <3>3. <<y, x>> \in R
      BY <3>1, <3>2, Zenon DEF OpToRel
    <3> QED  BY <3>3, <2>1
  <2> QED  BY <2>2
<1> QED  BY <1>2 DEF Min

\* Removing a position shifts what follows it by one.
LEMMA RemoveAtSeq ==
  ASSUME NEW S, NEW s \in Seq(S), NEW i \in 1..Len(s)
  PROVE  /\ RemoveAt(s, i) \in Seq(S)
         /\ Len(RemoveAt(s, i)) = Len(s) - 1
         /\ \A j \in 1..(Len(s) - 1) :
              RemoveAt(s, i)[j] = IF j < i THEN s[j] ELSE s[j + 1]
<1> DEFINE a == SubSeq(s, 1, i - 1)
           b == SubSeq(s, i + 1, Len(s))
<1>0. Len(s) \in Nat /\ i \in Nat /\ \A k \in 1..Len(s) : s[k] \in S
  BY LenProperties, ElementOfSeq
<1>1. /\ a \in Seq(S) /\ Len(a) = i - 1
      /\ \A j \in 1..(i - 1) : a[j] = s[j]
  BY <1>0, SubSeqProperties, 1 \in Int, i - 1 \in Int, \A k \in 1..(i - 1) : s[k] \in S
<1>2. /\ b \in Seq(S) /\ Len(b) = Len(s) - i
      /\ \A j \in 1..(Len(s) - i) : b[j] = s[i + j]
  <2>1. \A k \in (i + 1)..Len(s) : s[k] \in S
    BY <1>0
  <2>2. i + 1 \in Int /\ Len(s) \in Int
    BY <1>0
  <2>3. /\ b \in Seq(S)
        /\ Len(b) = IF i + 1 <= Len(s) THEN Len(s) - (i + 1) + 1 ELSE 0
        /\ \A j \in 1..(Len(s) - (i + 1) + 1) : b[j] = s[(i + 1) + j - 1]
    BY <2>1, <2>2, SubSeqProperties
  <2> QED  BY <2>3, <1>0
<1> DEFINE r == a \o b
<1>3. /\ r \in Seq(S) /\ Len(r) = Len(a) + Len(b)
      /\ \A j \in 1..(Len(a) + Len(b)) :
           r[j] = IF j <= Len(a) THEN a[j] ELSE b[j - Len(a)]
  BY <1>1, <1>2, ConcatProperties
<1>4. RemoveAt(s, i) = r
  BY DEF RemoveAt
<1> HIDE DEF a, b, r
<1>5. /\ Len(r) = Len(s) - 1
      /\ \A j \in 1..(Len(s) - 1) :
           r[j] = IF j <= i - 1 THEN a[j] ELSE b[j - (i - 1)]
  BY <1>0, <1>1, <1>2, <1>3
<1>6. ASSUME NEW j \in 1..(Len(s) - 1)
      PROVE  r[j] = IF j < i THEN s[j] ELSE s[j + 1]
  <2>1. CASE j < i
    BY <2>1, <1>0, <1>1, <1>5
  <2>2. CASE ~(j < i)
    <3>1. j - (i - 1) \in 1..(Len(s) - i) /\ i + (j - (i - 1)) = j + 1
      BY <2>2, <1>0
    <3>2. b[j - (i - 1)] = s[j + 1]
      BY <3>1, <1>2
    <3> QED  BY <3>2, <2>2, <1>0, <1>5
  <2> QED  BY <2>1, <2>2
<1> QED  BY <1>3, <1>4, <1>5, <1>6

\* RemoveFirst removes nothing, or one position that held the element.
LEMMA RemoveFirstSeq ==
  ASSUME NEW S, NEW s \in Seq(S), NEW e
  PROVE  \/ RemoveFirst(s, e) = s /\ \A i \in 1..Len(s) : s[i] # e
         \/ \E i \in 1..Len(s) : s[i] = e /\ RemoveFirst(s, e) = RemoveAt(s, i)
<1>0. Len(s) \in Nat
  BY LenProperties
<1>1. CASE \A i \in 1..Len(s) : s[i] # e
  BY <1>1 DEF RemoveFirst
<1>2. CASE \E i \in 1..Len(s) : s[i] = e
  <2> DEFINE I == {i \in 1..Len(s) : s[i] = e}
  <2>1. I \in SUBSET Nat /\ I # {}
    BY <1>2, <1>0
  <2>2. SelectInSeq(s, LAMBDA v : v = e) = Min(I)
    BY <2>1 DEF SelectInSeq
  <2>3. Min(I) \in I
    BY <2>1, MinOfNats
  <2>4. RemoveFirst(s, e) = RemoveAt(s, Min(I))
    BY <1>2, <2>2 DEF RemoveFirst
  <2> QED  BY <2>3, <2>4
<1> QED  BY <1>1, <1>2

\* The result is a sequence over the same set, and holds nothing new.
LEMMA RemoveFirstType ==
  ASSUME NEW S, NEW s \in Seq(S), NEW e
  PROVE  /\ RemoveFirst(s, e) \in Seq(S)
         /\ ToSet(RemoveFirst(s, e)) \subseteq ToSet(s)
<1>0. Len(s) \in Nat /\ DOMAIN s = 1..Len(s)
  BY LenProperties
<1>1. CASE RemoveFirst(s, e) = s
  BY <1>1
<1>2. ASSUME NEW i \in 1..Len(s), RemoveFirst(s, e) = RemoveAt(s, i)
      PROVE  /\ RemoveFirst(s, e) \in Seq(S)
             /\ ToSet(RemoveFirst(s, e)) \subseteq ToSet(s)
  <2> DEFINE r == RemoveAt(s, i)
  <2>1. /\ r \in Seq(S) /\ Len(r) = Len(s) - 1
        /\ \A j \in 1..(Len(s) - 1) : r[j] = IF j < i THEN s[j] ELSE s[j + 1]
    BY RemoveAtSeq
  <2> HIDE DEF r
  <2>2. DOMAIN r = 1..(Len(s) - 1)
    BY <2>1, LenProperties
  <2>3. ASSUME NEW j \in DOMAIN r
        PROVE  r[j] \in ToSet(s)
    BY <2>1, <2>2, <2>3, <1>0 DEF ToSet
  <2>4. ToSet(r) \subseteq ToSet(s)
    BY <2>3 DEF ToSet
  <2> QED  BY <1>2, <2>1, <2>4 DEF r
<1> QED  BY <1>1, <1>2, RemoveFirstSeq

\* Append adds its argument and nothing else.
LEMMA AppendSet ==
  ASSUME NEW S, NEW s \in Seq(S), NEW e \in S
  PROVE  /\ Append(s, e) \in Seq(S)
         /\ ToSet(Append(s, e)) = ToSet(s) \cup {e}
<1> DEFINE r == Append(s, e)
<1>1. /\ r \in Seq(S) /\ Len(r) = Len(s) + 1
      /\ \A i \in 1..Len(s) : r[i] = s[i]
      /\ r[Len(s) + 1] = e
      /\ Len(s) \in Nat /\ DOMAIN s = 1..Len(s)
  BY AppendProperties, LenProperties
<1>2. DOMAIN r = 1..(Len(s) + 1)
  BY <1>1, LenProperties
<1> HIDE DEF r
<1>3. ToSet(r) = ToSet(s) \cup {e}
  BY <1>1, <1>2 DEF ToSet
<1> QED  BY <1>1, <1>3 DEF r

\* A sequence that lists nothing twice loses the removed element and no other.
LEMMA RemoveFirstKeeps ==
  ASSUME NEW S, NEW s \in Seq(S), NEW e
  PROVE  /\ \A d \in ToSet(s) : d # e => d \in ToSet(RemoveFirst(s, e))
         /\ Len(RemoveFirst(s, e)) <= Len(s)
         /\ IsInjective(s) =>
              IsInjective(RemoveFirst(s, e)) /\ e \notin ToSet(RemoveFirst(s, e))
<1>0. Len(s) \in Nat /\ DOMAIN s = 1..Len(s)
  BY LenProperties
<1>1. CASE RemoveFirst(s, e) = s /\ \A i \in 1..Len(s) : s[i] # e
  BY <1>0, <1>1 DEF ToSet
<1>2. ASSUME NEW i \in 1..Len(s), s[i] = e, RemoveFirst(s, e) = RemoveAt(s, i)
      PROVE  /\ \A d \in ToSet(s) : d # e => d \in ToSet(RemoveFirst(s, e))
             /\ Len(RemoveFirst(s, e)) <= Len(s)
             /\ IsInjective(s) => /\ IsInjective(RemoveFirst(s, e))
                                  /\ e \notin ToSet(RemoveFirst(s, e))
  <2> DEFINE r == RemoveAt(s, i)
  <2>1. /\ r \in Seq(S) /\ Len(r) = Len(s) - 1
        /\ \A j \in 1..(Len(s) - 1) : r[j] = IF j < i THEN s[j] ELSE s[j + 1]
    BY RemoveAtSeq
  <2> HIDE DEF r
  <2>2. PICK n \in Nat : n = Len(s) /\ DOMAIN s = 1..n
    BY <1>0
  <2>3. /\ Len(r) = n - 1 /\ DOMAIN r = 1..(n - 1) /\ i \in 1..n
        /\ \A j \in 1..(n - 1) : r[j] = IF j < i THEN s[j] ELSE s[j + 1]
    BY <2>1, <2>2, LenProperties
  <2>4. ASSUME NEW k \in 1..n, k # i
        PROVE  \E j \in 1..(n - 1) : r[j] = s[k]
    <3>1. CASE k < i
      <4>1. k \in 1..(n - 1)
        BY <2>3, <3>1
      <4> QED  BY <2>3, <3>1, <4>1
    <3>2. CASE ~(k < i)
      <4>1. k - 1 \in 1..(n - 1) /\ ~(k - 1 < i) /\ (k - 1) + 1 = k
        BY <2>3, <2>4, <3>2
      <4> QED  BY <2>3, <4>1
    <3> QED  BY <3>1, <3>2
  <2>5. ASSUME NEW d \in ToSet(s), d # e
        PROVE  d \in ToSet(r)
    <3>1. PICK k \in 1..n : d = s[k] /\ k # i
      BY <1>2, <2>2, <2>5 DEF ToSet
    <3>2. PICK j \in 1..(n - 1) : r[j] = s[k]
      BY <2>4, <3>1
    <3> QED  BY <2>3, <3>1, <3>2 DEF ToSet
  <2>6. ASSUME IsInjective(s)
        PROVE  IsInjective(r) /\ e \notin ToSet(r)
    <3>1. ASSUME NEW j \in 1..(n - 1)
          PROVE  \E k \in 1..n : /\ r[j] = s[k] /\ k # i
                                 /\ k = IF j < i THEN j ELSE j + 1
      <4>1. (IF j < i THEN j ELSE j + 1) \in 1..n
            /\ (IF j < i THEN j ELSE j + 1) # i
        BY <2>3
      <4> QED  BY <2>3, <4>1
    <3>2. \A a, b \in 1..n : s[a] = s[b] => a = b
      BY <2>2, <2>6 DEF IsInjective
    <3>3. ASSUME NEW a \in 1..(n - 1), NEW b \in 1..(n - 1), r[a] = r[b]
          PROVE  a = b
      <4>1. PICK x \in 1..n : r[a] = s[x] /\ x = IF a < i THEN a ELSE a + 1
        BY <3>1
      <4>2. PICK y \in 1..n : r[b] = s[y] /\ y = IF b < i THEN b ELSE b + 1
        BY <3>1
      <4>3. x = y
        BY <3>2, <3>3, <4>1, <4>2
      <4> QED  BY <2>3, <4>1, <4>2, <4>3
    <3>4. IsInjective(r)
      BY <2>3, <3>3 DEF IsInjective
    <3>5. ASSUME NEW j \in 1..(n - 1)
          PROVE  r[j] # e
      BY <1>2, <2>3, <3>1, <3>2
    <3> QED  BY <2>3, <3>4, <3>5 DEF ToSet
  <2>7. Len(r) <= Len(s)
    BY <2>2, <2>3
  <2> QED  BY <1>2, <2>5, <2>6, <2>7 DEF r
<1> QED  BY <1>1, <1>2, RemoveFirstSeq

\* Appending a new element lists nothing twice.
LEMMA AppendNew ==
  ASSUME NEW S, NEW s \in Seq(S), NEW e \in S, IsInjective(s), e \notin ToSet(s)
  PROVE  IsInjective(Append(s, e))
<1>0. PICK r : r = Append(s, e)
  OBVIOUS
<1>1. PICK n \in Nat : n = Len(s) /\ DOMAIN s = 1..n
  BY LenProperties
<1>2. /\ DOMAIN r = 1..(n + 1) /\ r[n + 1] = e
      /\ \A i \in 1..n : r[i] = s[i]
  BY <1>0, <1>1, AppendProperties, LenProperties
<1>3. \A i \in 1..n : s[i] # e
  BY <1>1 DEF ToSet
<1>4. \A a, b \in 1..n : s[a] = s[b] => a = b
  BY <1>1 DEF IsInjective
<1>5. ASSUME NEW a \in 1..(n + 1), NEW b \in 1..(n + 1), r[a] = r[b]
      PROVE  a = b
  <2>1. a \in 1..n \/ a = n + 1
    OBVIOUS
  <2>2. b \in 1..n \/ b = n + 1
    OBVIOUS
  <2> QED  BY <1>2, <1>3, <1>4, <1>5, <2>1, <2>2
<1>6. IsInjective(r)
  BY <1>2, <1>5 DEF IsInjective
<1> QED  BY <1>0, <1>6

\* Cutting off the head keeps every other element, and adds none.
LEMMA TailSet ==
  ASSUME NEW S, NEW s \in Seq(S), s # <<>>
  PROVE  /\ Tail(s) \in Seq(S) /\ Len(Tail(s)) = Len(s) - 1
         /\ ToSet(Tail(s)) \subseteq ToSet(s)
         /\ \A d \in ToSet(s) : d # Head(s) => d \in ToSet(Tail(s))
         /\ Head(s) \in ToSet(s)
<1> DEFINE t == Tail(s)
<1>1. PICK n \in Nat : n = Len(s) /\ DOMAIN s = 1..n
  BY LenProperties
<1>2. n # 0
  BY <1>1, EmptySeq
<1>3. /\ t \in Seq(S) /\ Len(t) = n - 1 /\ DOMAIN t = 1..(n - 1)
      /\ \A i \in 1..(n - 1) : t[i] = s[i + 1]
  BY <1>1, <1>2, HeadTailProperties, LenProperties
<1>4. Head(s) = s[1] /\ 1 \in 1..n
  BY <1>1, <1>2
<1> HIDE DEF t
<1>5. \A i \in 1..(n - 1) : i + 1 \in 1..n
  BY <1>2
<1>6. ToSet(t) \subseteq ToSet(s)
  BY <1>1, <1>3, <1>5 DEF ToSet
<1>7. ASSUME NEW k \in 1..n, s[k] # Head(s)
      PROVE  s[k] \in ToSet(t)
  <2>1. k # 1
    BY <1>4, <1>7
  <2>2. k - 1 \in 1..(n - 1) /\ (k - 1) + 1 = k
    BY <2>1
  <2> QED  BY <1>3, <2>2 DEF ToSet
<1>8. \A d \in ToSet(s) : d # Head(s) => d \in ToSet(t)
  BY <1>1, <1>7 DEF ToSet
<1>9. Head(s) \in ToSet(s)
  BY <1>1, <1>4 DEF ToSet
<1> QED  BY <1>1, <1>3, <1>6, <1>8, <1>9 DEF t

\* A sequence holds no more elements than it has positions.
LEMMA CardinalityOfSeq ==
  ASSUME NEW S, NEW s \in Seq(S), NEW T \in SUBSET ToSet(s)
  PROVE  /\ IsFiniteSet(T)
         /\ Cardinality(T) \in Nat
         /\ Cardinality(T) <= Len(s)
<1>1. PICK n \in Nat : n = Len(s) /\ DOMAIN s = 1..n
  BY LenProperties
<1>2. s \in Surjection(1..n, ToSet(s))
  <2>1. \A t \in ToSet(s) : \E k \in 1..n : s[k] = t
    BY <1>1 DEF ToSet
  <2>2. s \in [1..n -> ToSet(s)]
    <3>1. s = [k \in 1..n |-> s[k]]
      BY <1>1
    <3>2. \A k \in 1..n : s[k] \in ToSet(s)
      BY <1>1 DEF ToSet
    <3> QED  BY <3>1, <3>2
  <2> QED  BY <2>1, <2>2 DEF Surjection
<1>3. ExistsSurjection(1..n, ToSet(s))
  BY <1>2 DEF ExistsSurjection
<1>4. IsFiniteSet(ToSet(s)) /\ Cardinality(ToSet(s)) <= n
  BY <1>3, FS_NatSurjection, FS_SurjCardinalityBound
<1>5. IsFiniteSet(T) /\ Cardinality(T) <= Cardinality(ToSet(s))
  BY <1>4, FS_Subset
<1>6. Cardinality(T) \in Nat /\ Cardinality(ToSet(s)) \in Nat
  BY <1>4, <1>5, FS_CardinalityType
<1> QED  BY <1>1, <1>4, <1>5, <1>6

-----------------------------------------------------------------------------
(* Prefixes *)

LEMMA PrefixMeans ==
  ASSUME NEW S, NEW s \in Seq(S), NEW t \in Seq(S)
  PROVE  IsPrefix(s, t) <=> Len(s) <= Len(t) /\ \A i \in 1..Len(s) : s[i] = t[i]
<1>1. PICK n \in Nat, m \in Nat : n = Len(s) /\ m = Len(t)
  BY LenProperties
<1>2. SubSeq(s, 1, n) = s
  BY <1>1, SubSeqFull
<1>3. ASSUME n <= m
      PROVE  s = SubSeq(t, 1, n) <=> \A i \in 1..n : s[i] = t[i]
  <2>1. /\ SubSeq(t, 1, n) \in Seq(S) /\ Len(SubSeq(t, 1, n)) = n
        /\ \A i \in 1..n : SubSeq(t, 1, n)[i] = t[i]
    <3>1. \A i \in 1..n : t[i] \in S
      BY <1>1, <1>3, ElementOfSeq
    <3>2. /\ SubSeq(t, 1, n) \in Seq(S)
          /\ Len(SubSeq(t, 1, n)) = IF 1 <= n THEN n - 1 + 1 ELSE 0
          /\ \A i \in 1..(n - 1 + 1) : SubSeq(t, 1, n)[i] = t[1 + i - 1]
      BY <3>1, SubSeqProperties, 1 \in Int, n \in Int
    <3>3. n - 1 + 1 = n /\ (1 <= n \/ n = 0) /\ \A i \in 1..n : 1 + i - 1 = i
      OBVIOUS
    <3> QED  BY <3>2, <3>3
  <2> QED  BY <1>1, <2>1, SeqEqual
<1> QED  BY <1>1, <1>2, <1>3 DEF IsPrefix

LEMMA PrefixTransitive ==
  ASSUME NEW S, NEW s \in Seq(S), NEW t \in Seq(S), NEW u \in Seq(S),
         IsPrefix(s, t), IsPrefix(t, u)
  PROVE  IsPrefix(s, u)
<1>1. PICK n \in Nat, m \in Nat, k \in Nat : n = Len(s) /\ m = Len(t) /\ k = Len(u)
  BY LenProperties
<1>2. n <= m /\ \A i \in 1..n : s[i] = t[i]
  BY <1>1, PrefixMeans
<1>3. m <= k /\ \A i \in 1..m : t[i] = u[i]
  BY <1>1, PrefixMeans
<1>4. n <= k /\ \A i \in 1..n : s[i] = u[i]
  BY <1>2, <1>3
<1> QED  BY <1>1, <1>4, PrefixMeans

LEMMA PrefixOfAppend ==
  ASSUME NEW S, NEW s \in Seq(S), NEW e \in S
  PROVE  IsPrefix(s, s) /\ IsPrefix(s, Append(s, e))
<1>1. PICK n \in Nat : n = Len(s)
  BY LenProperties
<1>t. PICK t : t = Append(s, e)
  OBVIOUS
<1>2. t \in Seq(S) /\ Len(t) = n + 1 /\ \A i \in 1..n : t[i] = s[i]
  BY <1>1, <1>t, AppendProperties
<1>3. n <= n /\ n <= n + 1
  OBVIOUS
<1> QED  BY <1>1, <1>t, <1>2, <1>3, PrefixMeans

\* Behind the same beginning a prefix stays a prefix.
LEMMA PrefixBehind ==
  ASSUME NEW S, NEW s \in Seq(S), NEW t \in Seq(S), NEW u \in Seq(S), IsPrefix(t, u)
  PROVE  IsPrefix(s \o t, s \o u)
<1>1. PICK n \in Nat, m \in Nat, k \in Nat : n = Len(s) /\ m = Len(t) /\ k = Len(u)
  BY LenProperties
<1>a. PICK a, b : a = s \o t /\ b = s \o u
  OBVIOUS
<1>2. /\ a \in Seq(S) /\ Len(a) = n + m
      /\ \A i \in 1..(n + m) : a[i] = IF i <= n THEN s[i] ELSE t[i - n]
  BY <1>1, <1>a, ConcatProperties
<1>3. /\ b \in Seq(S) /\ Len(b) = n + k
      /\ \A i \in 1..(n + k) : b[i] = IF i <= n THEN s[i] ELSE u[i - n]
  BY <1>1, <1>a, ConcatProperties
<1>4. m <= k /\ \A i \in 1..m : t[i] = u[i]
  BY <1>1, PrefixMeans
<1>5. ASSUME NEW i \in 1..(n + m) PROVE a[i] = b[i]
  <2>1. i \in 1..(n + k) /\ (i <= n \/ i - n \in 1..m)
    BY <1>4
  <2> QED  BY <1>2, <1>3, <1>4, <2>1
<1>6. n + m <= n + k
  BY <1>4
<1> QED  BY <1>a, <1>2, <1>3, <1>5, <1>6, PrefixMeans

LEMMA PrefixOfConcat ==
  ASSUME NEW S, NEW s \in Seq(S), NEW t \in Seq(S)
  PROVE  IsPrefix(s, s \o t)
<1>1. PICK n \in Nat, m \in Nat : n = Len(s) /\ m = Len(t)
  BY LenProperties
<1>2. PICK a : a = s \o t
  OBVIOUS
<1>3. /\ a \in Seq(S) /\ Len(a) = n + m
      /\ \A i \in 1..(n + m) : a[i] = IF i <= n THEN s[i] ELSE t[i - n]
  BY <1>1, <1>2, ConcatProperties
<1>4. n <= n + m /\ \A i \in 1..n : a[i] = s[i]
  BY <1>3
<1> QED  BY <1>1, <1>2, <1>3, <1>4, PrefixMeans

LEMMA EmptyIsPrefix == ASSUME NEW S, NEW s \in Seq(S) PROVE IsPrefix(<<>>, s)
<1>1. <<>> \in Seq(S)
  OBVIOUS
<1>2. <<>> \o s = s
  BY ConcatEmptySeq
<1> QED  BY <1>1, <1>2, PrefixOfConcat

\* The first elements of a sequence.
LEMMA PrefixOfSubSeq ==
  ASSUME NEW S, NEW s \in Seq(S), NEW n \in 0..Len(s)
  PROVE  SubSeq(s, 1, n) \in Seq(S) /\ IsPrefix(SubSeq(s, 1, n), s)
<1>1. PICK m \in Nat : m = Len(s) /\ n <= m /\ n \in Nat
  BY LenProperties
<1>2. PICK a : a = SubSeq(s, 1, n)
  OBVIOUS
<1>3. \A i \in 1..n : s[i] \in S
  BY <1>1, ElementOfSeq
<1>4. /\ a \in Seq(S) /\ Len(a) = IF 1 <= n THEN n - 1 + 1 ELSE 0
      /\ \A i \in 1..(n - 1 + 1) : a[i] = s[1 + i - 1]
  BY <1>1, <1>2, <1>3, SubSeqProperties, 1 \in Int, n \in Int
<1>5. n - 1 + 1 = n /\ (1 <= n \/ n = 0) /\ \A i \in 1..n : 1 + i - 1 = i
  BY <1>1
<1>6. Len(a) = n /\ \A i \in 1..n : a[i] = s[i]
  BY <1>4, <1>5
<1> QED  BY <1>1, <1>2, <1>4, <1>6, PrefixMeans

LEMMA ConcatAppend ==
  ASSUME NEW S, NEW s \in Seq(S), NEW t \in Seq(S), NEW e \in S
  PROVE  s \o Append(t, e) = Append(s \o t, e)
<1>1. PICK u : u = <<e>> /\ u \in Seq(S)
  <2>1. <<e>> \in Seq(S)
    OBVIOUS
  <2> QED  BY <2>1
<1>2. Append(t, e) = t \o u /\ Append(s \o t, e) = (s \o t) \o u
  BY <1>1, AppendIsConcat, ConcatProperties
<1> QED  BY <1>1, <1>2, ConcatAssociative

-----------------------------------------------------------------------------
(* Order *)

\* s lists x somewhere before y.
Before(s, x, y) == \E i, j \in DOMAIN s : i < j /\ s[i] = x /\ s[j] = y

\* Append puts its argument behind everything else.
LEMMA BeforeAppend ==
  ASSUME NEW S, NEW s \in Seq(S), NEW e \in S, NEW x, NEW y
  PROVE  Before(Append(s, e), x, y) <=>
           Before(s, x, y) \/ (x \in ToSet(s) /\ y = e)
<1>1. PICK n \in Nat : n = Len(s) /\ DOMAIN s = 1..n
  BY LenProperties
<1>2. PICK r : r = Append(s, e)
  OBVIOUS
<1>3. DOMAIN r = 1..(n + 1) /\ r[n + 1] = e /\ \A i \in 1..n : r[i] = s[i]
  BY <1>1, <1>2, AppendProperties, LenProperties
<1>4. ASSUME Before(r, x, y)
      PROVE  Before(s, x, y) \/ (x \in ToSet(s) /\ y = e)
  <2>1. PICK i \in 1..(n + 1), j \in 1..(n + 1) : i < j /\ r[i] = x /\ r[j] = y
    BY <1>3, <1>4 DEF Before
  <2>2. i \in 1..n /\ s[i] = x
    BY <1>3, <2>1
  <2>3. CASE j = n + 1
    BY <1>1, <1>3, <2>1, <2>2, <2>3 DEF ToSet
  <2>4. CASE j # n + 1
    <3>1. j \in 1..n
      BY <2>4
    <3>2. s[j] = y
      BY <1>3, <2>1, <3>1
    <3> QED  BY <1>1, <2>1, <2>2, <3>1, <3>2 DEF Before
  <2> QED  BY <2>3, <2>4
<1>5. ASSUME Before(s, x, y)
      PROVE  Before(r, x, y)
  <2>1. PICK i \in 1..n, j \in 1..n : i < j /\ s[i] = x /\ s[j] = y
    BY <1>1, <1>5 DEF Before
  <2>2. i \in 1..(n + 1) /\ j \in 1..(n + 1) /\ r[i] = x /\ r[j] = y
    BY <1>3, <2>1
  <2> QED  BY <1>3, <2>1, <2>2 DEF Before
<1>6. ASSUME x \in ToSet(s), y = e
      PROVE  Before(r, x, y)
  <2>1. PICK i \in 1..n : s[i] = x
    BY <1>1, <1>6 DEF ToSet
  <2>2. i \in 1..(n + 1) /\ n + 1 \in 1..(n + 1) /\ i < n + 1 /\ r[i] = x /\ r[n + 1] = y
    BY <1>3, <1>6, <2>1
  <2> QED  BY <1>3, <2>2 DEF Before
<1> QED  BY <1>2, <1>4, <1>5, <1>6

\* Removing an element changes the order of no two others.
LEMMA BeforeRemoveFirst ==
  ASSUME NEW S, NEW s \in Seq(S), NEW e, NEW x, NEW y
  PROVE  /\ Before(RemoveFirst(s, e), x, y) => Before(s, x, y)
         /\ Before(s, x, y) /\ x # e /\ y # e => Before(RemoveFirst(s, e), x, y)
<1>1. CASE RemoveFirst(s, e) = s
  BY <1>1
<1>2. ASSUME NEW k \in 1..Len(s), s[k] = e, RemoveFirst(s, e) = RemoveAt(s, k)
      PROVE  /\ Before(RemoveFirst(s, e), x, y) => Before(s, x, y)
             /\ Before(s, x, y) /\ x # e /\ y # e => Before(RemoveFirst(s, e), x, y)
  <2>1. PICK n \in Nat : n = Len(s) /\ DOMAIN s = 1..n
    BY LenProperties
  <2>2. PICK r : r = RemoveAt(s, k)
    OBVIOUS
  <2>3. /\ DOMAIN r = 1..(n - 1) /\ k \in 1..n
        /\ \A j \in 1..(n - 1) : r[j] = IF j < k THEN s[j] ELSE s[j + 1]
    BY <1>2, <2>1, <2>2, RemoveAtSeq, LenProperties
  <2>4. ASSUME Before(r, x, y)
        PROVE  Before(s, x, y)
    <3>1. PICK i \in 1..(n - 1), j \in 1..(n - 1) : i < j /\ r[i] = x /\ r[j] = y
      BY <2>3, <2>4 DEF Before
    <3>2. PICK a \in 1..n : s[a] = x /\ a = IF i < k THEN i ELSE i + 1
      BY <2>3, <3>1
    <3>3. PICK b \in 1..n : s[b] = y /\ b = IF j < k THEN j ELSE j + 1
      BY <2>3, <3>1
    <3>4. a < b
      BY <2>3, <3>1, <3>2, <3>3
    <3> QED  BY <2>1, <3>2, <3>3, <3>4 DEF Before
  <2>5. ASSUME Before(s, x, y), x # e, y # e
        PROVE  Before(r, x, y)
    <3>1. PICK i \in 1..n, j \in 1..n : i < j /\ s[i] = x /\ s[j] = y
      BY <2>1, <2>5 DEF Before
    <3>2. i # k /\ j # k
      BY <1>2, <2>5, <3>1
    <3>3. PICK a \in 1..(n - 1) : r[a] = x /\ a = IF i < k THEN i ELSE i - 1
      <4>1. CASE i < k
        <5>1. i \in 1..(n - 1)
          BY <2>3, <4>1
        <5> QED  BY <2>3, <3>1, <4>1, <5>1
      <4>2. CASE ~(i < k)
        <5>1. i - 1 \in 1..(n - 1) /\ ~(i - 1 < k) /\ (i - 1) + 1 = i
          BY <2>3, <3>2, <4>2
        <5> QED  BY <2>3, <3>1, <4>2, <5>1
      <4> QED  BY <4>1, <4>2
    <3>4. PICK b \in 1..(n - 1) : r[b] = y /\ b = IF j < k THEN j ELSE j - 1
      <4>1. CASE j < k
        <5>1. j \in 1..(n - 1)
          BY <2>3, <4>1
        <5> QED  BY <2>3, <3>1, <4>1, <5>1
      <4>2. CASE ~(j < k)
        <5>1. j - 1 \in 1..(n - 1) /\ ~(j - 1 < k) /\ (j - 1) + 1 = j
          BY <2>3, <3>2, <4>2
        <5> QED  BY <2>3, <3>1, <4>2, <5>1
      <4> QED  BY <4>1, <4>2
    <3>5. a < b
      BY <2>3, <3>1, <3>2, <3>3, <3>4
    <3> QED  BY <2>3, <3>3, <3>4, <3>5 DEF Before
  <2> QED  BY <1>2, <2>2, <2>4, <2>5
<1> QED  BY <1>1, <1>2, RemoveFirstSeq

\* The head is before everything else, and nothing takes its place in the tail.
LEMMA HeadIsFirst ==
  ASSUME NEW S, NEW s \in Seq(S), s # <<>>
  PROVE  /\ \A y \in ToSet(s) : y # Head(s) => Before(s, Head(s), y)
         /\ \A x, y : Before(Tail(s), x, y) => Before(s, x, y)
         /\ IsInjective(s) => IsInjective(Tail(s)) /\ Head(s) \notin ToSet(Tail(s))
<1>1. PICK n \in Nat : n = Len(s) /\ DOMAIN s = 1..n
  BY LenProperties
<1>2. n # 0
  BY <1>1, EmptySeq
<1>3. PICK t : t = Tail(s)
  OBVIOUS
<1>4. /\ DOMAIN t = 1..(n - 1)
      /\ \A i \in 1..(n - 1) : t[i] = s[i + 1]
  BY <1>1, <1>2, <1>3, HeadTailProperties, LenProperties
<1>5. PICK h : h = Head(s) /\ h = s[1] /\ 1 \in 1..n
  BY <1>1, <1>2
<1>6. ASSUME NEW y \in ToSet(s), y # h
      PROVE  Before(s, h, y)
  <2>1. PICK j \in 1..n : s[j] = y
    BY <1>1, <1>6 DEF ToSet
  <2>2. 1 < j
    BY <1>5, <1>6, <2>1
  <2> QED  BY <1>1, <1>5, <2>1, <2>2 DEF Before
<1>7. ASSUME NEW x, NEW y, Before(t, x, y)
      PROVE  Before(s, x, y)
  <2>1. PICK i \in 1..(n - 1), j \in 1..(n - 1) : i < j /\ t[i] = x /\ t[j] = y
    BY <1>4, <1>7 DEF Before
  <2>2. i + 1 \in 1..n /\ j + 1 \in 1..n /\ i + 1 < j + 1
    BY <2>1
  <2> QED  BY <1>1, <1>4, <2>1, <2>2 DEF Before
<1>8. ASSUME IsInjective(s)
      PROVE  IsInjective(t) /\ h \notin ToSet(t)
  <2>1. \A a, b \in 1..n : s[a] = s[b] => a = b
    BY <1>1, <1>8 DEF IsInjective
  <2>2. \A i \in 1..(n - 1) : i + 1 \in 1..n /\ i + 1 # 1
    OBVIOUS
  <2>3. ASSUME NEW a \in 1..(n - 1), NEW b \in 1..(n - 1), t[a] = t[b]
        PROVE  a = b
    <3>1. a + 1 = b + 1
      BY <1>4, <2>1, <2>2, <2>3
    <3> QED  BY <3>1
  <2>4. \A i \in 1..(n - 1) : t[i] # h
    BY <1>4, <1>5, <2>1, <2>2
  <2>5. IsInjective(t)
    BY <1>4, <2>3 DEF IsInjective
  <2> QED  BY <1>4, <2>4, <2>5 DEF ToSet
<1> QED  BY <1>3, <1>5, <1>6, <1>7, <1>8

\* Where nothing is listed twice, the order is that of the positions.
LEMMA BeforePositions ==
  ASSUME NEW S, NEW s \in Seq(S), IsInjective(s), NEW i \in DOMAIN s, NEW j \in DOMAIN s,
         Before(s, s[i], s[j])
  PROVE  i < j
BY DEF Before, IsInjective

\* Where nothing is listed twice, there are as many positions as elements.
LEMMA CardinalityOfPositions ==
  ASSUME NEW S, NEW s \in Seq(S), IsInjective(s), NEW T \in SUBSET ToSet(s)
  PROVE  /\ IsFiniteSet(T)
         /\ IsFiniteSet({i \in DOMAIN s : s[i] \in T})
         /\ Cardinality({i \in DOMAIN s : s[i] \in T}) = Cardinality(T)
         /\ Cardinality(ToSet(s)) = Len(s)
<1>1. PICK n \in Nat : n = Len(s) /\ DOMAIN s = 1..n
  BY LenProperties
<1>2. \A a, b \in 1..n : s[a] = s[b] => a = b
  BY <1>1 DEF IsInjective
<1>3. IsFiniteSet(T)
  BY CardinalityOfSeq
<1>4. ASSUME NEW U \in SUBSET ToSet(s)
      PROVE  ExistsBijection({i \in 1..n : s[i] \in U}, U)
  <2> DEFINE I == {i \in 1..n : s[i] \in U}
             f == [i \in I |-> s[i]]
  <2>1. f \in [I -> U]
    OBVIOUS
  <2>2. \A a, b \in I : f[a] = f[b] => a = b
    BY <1>2
  <2>3. \A t \in U : \E i \in I : f[i] = t
    <3>1. ASSUME NEW t \in U PROVE \E i \in I : f[i] = t
      <4>1. PICK i \in 1..n : s[i] = t
        BY <1>1, <1>4, <3>1 DEF ToSet
      <4> QED  BY <4>1
    <3> QED  BY <3>1
  <2>4. f \in Bijection(I, U)
    <3> HIDE DEF f, I
    <3>1. IsInjective(f)
      BY <2>1, <2>2 DEF IsInjective
    <3> QED  BY <2>1, <2>3, <3>1 DEF Bijection, Injection, Surjection
  <2> QED  BY <2>4 DEF ExistsBijection
<1>5. /\ IsFiniteSet({i \in 1..n : s[i] \in T})
      /\ Cardinality({i \in 1..n : s[i] \in T}) = Cardinality(T)
  <2>1. IsFiniteSet(1..n)
    BY FS_Interval, 1 \in Int, n \in Int
  <2>2. IsFiniteSet({i \in 1..n : s[i] \in T})
    BY <2>1, FS_Subset
  <2> QED  BY <1>3, <1>4, <2>2, FS_Bijection
<1>6. Cardinality(ToSet(s)) = n
  <2>1. {i \in 1..n : s[i] \in ToSet(s)} = 1..n
    BY <1>1 DEF ToSet
  <2>2. ExistsBijection(1..n, ToSet(s))
    BY <1>4, <2>1
  <2>3. IsFiniteSet(1..n) /\ Cardinality(1..n) = n
    <3>1. /\ IsFiniteSet(1..n)
          /\ Cardinality(1..n) = IF 1 > n THEN 0 ELSE n - 1 + 1
      BY FS_Interval, 1 \in Int, n \in Int
    <3> QED  BY <3>1
  <2> QED  BY <2>2, <2>3, FS_Bijection
<1> QED  BY <1>1, <1>3, <1>5, <1>6

\* Removing an element that is listed once removes its position.
LEMMA RemoveFirstAt ==
  ASSUME NEW S, NEW s \in Seq(S), IsInjective(s), NEW i \in DOMAIN s
  PROVE  RemoveFirst(s, s[i]) = RemoveAt(s, i)
<1>1. PICK n \in Nat : n = Len(s) /\ DOMAIN s = 1..n
  BY LenProperties
<1>2. PICK e : e = s[i]
  OBVIOUS
<1>3. \E k \in 1..n : s[k] = e /\ RemoveFirst(s, e) = RemoveAt(s, k)
  BY <1>1, <1>2, RemoveFirstSeq
<1> QED  BY <1>1, <1>2, <1>3 DEF IsInjective

\* A position is removed before or after an element is appended behind it.
LEMMA RemoveAtAppend ==
  ASSUME NEW S, NEW s \in Seq(S), NEW e \in S, NEW i \in DOMAIN s
  PROVE  RemoveAt(Append(s, e), i) = Append(RemoveAt(s, i), e)
<1>1. PICK n \in Nat : n = Len(s) /\ DOMAIN s = 1..n
  BY LenProperties
<1>2. PICK a : a = Append(s, e)
  OBVIOUS
<1>3. /\ a \in Seq(S) /\ Len(a) = n + 1 /\ a[n + 1] = e
      /\ \A j \in 1..n : a[j] = s[j]
  BY <1>1, <1>2, AppendProperties
<1>4. PICK r : r = RemoveAt(s, i)
  OBVIOUS
<1>5. /\ i \in 1..n /\ r \in Seq(S) /\ Len(r) = n - 1
      /\ \A j \in 1..(n - 1) : r[j] = IF j < i THEN s[j] ELSE s[j + 1]
  BY <1>1, <1>4, RemoveAtSeq
<1>6. PICK x : x = RemoveAt(a, i)
  OBVIOUS
<1>7. i \in 1..Len(a) /\ Len(a) - 1 = n
  BY <1>3, <1>5
<1>8. /\ x \in Seq(S) /\ Len(x) = n
      /\ \A j \in 1..n : x[j] = IF j < i THEN a[j] ELSE a[j + 1]
  BY <1>3, <1>6, <1>7, RemoveAtSeq
<1>9. PICK y : y = Append(r, e)
  OBVIOUS
<1>10. /\ y \in Seq(S) /\ Len(y) = n - 1 + 1 /\ y[n - 1 + 1] = e
       /\ \A j \in 1..(n - 1) : y[j] = r[j]
  BY <1>5, <1>9, AppendProperties
<1>11. ASSUME NEW j \in 1..n
       PROVE  x[j] = y[j]
  <2>1. CASE j = n
    <3>1. ~(j < i) /\ n - 1 + 1 = n
      BY <1>5, <2>1
    <3> QED  BY <1>3, <1>8, <1>10, <2>1, <3>1
  <2>2. CASE j # n
    <3>1. j \in 1..(n - 1) /\ j + 1 \in 1..n
      BY <2>2
    <3> QED  BY <1>3, <1>5, <1>8, <1>10, <3>1
  <2> QED  BY <2>1, <2>2
<1>12. Len(x) = Len(y) /\ Len(x) = n
  BY <1>8, <1>10
<1> QED  BY <1>2, <1>4, <1>6, <1>8, <1>9, <1>10, <1>11, <1>12, SeqEqual

\* s lists some of l in their order, none twice.
InOrder(l, s) ==
  /\ IsInjective(s)
  /\ ToSet(s) \subseteq ToSet(l)
  /\ \A x, y \in ToSet(s) : Before(s, x, y) => Before(l, x, y)

LEMMA InOrderAppend ==
  ASSUME NEW S, NEW l \in Seq(S), NEW s \in Seq(S), NEW e \in S,
         InOrder(l, s), e \notin ToSet(s)
  PROVE  InOrder(Append(l, e), s) /\ InOrder(Append(l, e), Append(s, e))
<1>1. PICK m : m = Append(l, e)
  OBVIOUS
<1>2. PICK t : t = Append(s, e)
  OBVIOUS
<1>3. IsInjective(t) /\ ToSet(t) = ToSet(s) \cup {e} /\ ToSet(m) = ToSet(l) \cup {e}
  BY <1>1, <1>2, AppendSet, AppendNew DEF InOrder
<1>4. ASSUME NEW x \in ToSet(s), NEW y \in ToSet(s), Before(s, x, y)
      PROVE  Before(m, x, y)
  BY <1>1, <1>4, BeforeAppend DEF InOrder
<1>5. ASSUME NEW x \in ToSet(t), NEW y \in ToSet(t), Before(t, x, y)
      PROVE  Before(m, x, y)
  <2>1. Before(s, x, y) \/ (x \in ToSet(s) /\ y = e)
    BY <1>2, <1>5, BeforeAppend
  <2>2. CASE x \in ToSet(s) /\ y = e
    BY <1>1, <2>2, BeforeAppend DEF InOrder
  <2>3. CASE Before(s, x, y)
    <3>1. x \in ToSet(s) /\ y \in ToSet(s)
      BY <2>3 DEF Before, ToSet
    <3> QED  BY <1>4, <2>3, <3>1
  <2> QED  BY <2>1, <2>2, <2>3
<1> QED  BY <1>1, <1>2, <1>3, <1>4, <1>5 DEF InOrder

\* The same element leaves both.
LEMMA InOrderRemove ==
  ASSUME NEW S, NEW l \in Seq(S), NEW s \in Seq(S), NEW e, InOrder(l, s)
  PROVE  /\ InOrder(RemoveFirst(l, e), RemoveFirst(s, e))
         /\ e \notin ToSet(s) => RemoveFirst(s, e) = s
<1>1. PICK m : m = RemoveFirst(l, e)
  OBVIOUS
<1>2. PICK t : t = RemoveFirst(s, e)
  OBVIOUS
<1>3. /\ IsInjective(t) /\ ToSet(t) \subseteq ToSet(s) /\ e \notin ToSet(t)
      /\ \A d \in ToSet(l) : d # e => d \in ToSet(m)
  BY <1>1, <1>2, RemoveFirstType, RemoveFirstKeeps DEF InOrder
<1>4. ASSUME NEW x \in ToSet(t), NEW y \in ToSet(t), Before(t, x, y)
      PROVE  Before(m, x, y)
  <2>1. Before(s, x, y)
    BY <1>2, <1>4, BeforeRemoveFirst
  <2>2. Before(l, x, y)
    BY <1>3, <2>1 DEF InOrder
  <2> QED  BY <1>1, <1>3, <2>2, BeforeRemoveFirst
<1>5. ToSet(t) \subseteq ToSet(m)
  BY <1>3 DEF InOrder
<1>6. e \notin ToSet(s) => t = s
  <2>1. DOMAIN s = 1..Len(s)
    BY LenProperties
  <2> QED  BY <1>2, <2>1, RemoveFirstSeq DEF ToSet
<1> QED  BY <1>1, <1>2, <1>3, <1>4, <1>5, <1>6 DEF InOrder

\* What comes first in s leaves both.
LEMMA InOrderTail ==
  ASSUME NEW S, NEW l \in Seq(S), NEW s \in Seq(S), s # <<>>, InOrder(l, s)
  PROVE  InOrder(RemoveFirst(l, Head(s)), Tail(s))
<1>1. PICK e : e = Head(s)
  OBVIOUS
<1>2. PICK m : m = RemoveFirst(l, e)
  OBVIOUS
<1>3. PICK t : t = Tail(s)
  OBVIOUS
<1>4. /\ IsInjective(t) /\ ToSet(t) \subseteq ToSet(s) /\ e \notin ToSet(t)
      /\ \A d \in ToSet(l) : d # e => d \in ToSet(m)
  BY <1>1, <1>2, <1>3, TailSet, HeadIsFirst, RemoveFirstKeeps DEF InOrder
<1>5. ASSUME NEW x \in ToSet(t), NEW y \in ToSet(t), Before(t, x, y)
      PROVE  Before(m, x, y)
  <2>1. Before(s, x, y)
    BY <1>3, <1>5, HeadIsFirst
  <2>2. Before(l, x, y)
    BY <1>4, <2>1 DEF InOrder
  <2> QED  BY <1>2, <1>4, <2>2, BeforeRemoveFirst
<1>6. ToSet(t) \subseteq ToSet(m)
  BY <1>4 DEF InOrder
<1> QED  BY <1>1, <1>2, <1>3, <1>4, <1>5, <1>6 DEF InOrder
=============================================================================
