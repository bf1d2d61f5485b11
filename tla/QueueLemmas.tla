----------------------------- MODULE QueueLemmas ----------------------------
(***************************************************************************)
(* What the list operations of the engine do to the elements of a          *)
(* duplicate-free list: append, pop(0), pop(), insert(0, e), remove, and   *)
(* extend; what row-major indices into a list of blocks are; and how the   *)
(* entries of a contiguous cache follow each other.                        *)
(***************************************************************************)
EXTENDS Integers, SequencesExt, SequenceTheorems, TLAPS

\* list.append(e)
LEMMA AppendElements ==
  ASSUME NEW S, NEW s \in Seq(S), NEW e \in S
  PROVE  /\ Append(s, e) \in Seq(S)
         /\ ToSet(Append(s, e)) = ToSet(s) \cup {e}
         /\ IsInjective(s) /\ e \notin ToSet(s) => IsInjective(Append(s, e))
<1> DEFINE t == Append(s, e)
<1>1. /\ t \in Seq(S) /\ Len(t) = Len(s) + 1
      /\ \A k \in 1..Len(s) : t[k] = s[k]
      /\ t[Len(s) + 1] = e
  BY AppendProperties
<1>2. Len(s) \in Nat /\ DOMAIN s = 1..Len(s) /\ DOMAIN t = 1..(Len(s) + 1)
  BY <1>1, LenProperties
<1> HIDE DEF t
<1>3. ToSet(t) = ToSet(s) \cup {e}
  <2>1. \A k \in 1..(Len(s) + 1) : k \in 1..Len(s) \/ k = Len(s) + 1
    BY <1>2
  <2>2. Len(s) + 1 \in DOMAIN t /\ \A k \in 1..Len(s) : k \in DOMAIN t
    BY <1>2
  <2> QED BY <1>1, <1>2, <2>1, <2>2 DEF ToSet
<1>4. ASSUME IsInjective(s), e \notin ToSet(s) PROVE IsInjective(t)
  <2>1. \A k \in DOMAIN t : k \in DOMAIN s \/ k = Len(s) + 1
    BY <1>2
  <2>2. \A k \in DOMAIN s : t[k] = s[k] /\ t[k] # e
    BY <1>1, <1>2, <1>4 DEF ToSet
  <2> QED BY <1>1, <1>4, <2>1, <2>2 DEF IsInjective
<1> QED BY <1>1, <1>3, <1>4 DEF t

\* list.pop(0)
LEMMA TailElements ==
  ASSUME NEW S, NEW s \in Seq(S), s # <<>>, IsInjective(s)
  PROVE  /\ Head(s) \in S /\ Head(s) \in ToSet(s)
         /\ Tail(s) \in Seq(S)
         /\ ToSet(Tail(s)) = ToSet(s) \ {Head(s)}
         /\ IsInjective(Tail(s))
<1> DEFINE t == Tail(s)
<1>1. /\ Head(s) \in S /\ t \in Seq(S) /\ Len(t) = Len(s) - 1
      /\ \A k \in 1..Len(t) : t[k] = s[k + 1]
  BY HeadTailProperties
<1>2. /\ Len(s) \in Nat \ {0} /\ DOMAIN s = 1..Len(s)
      /\ DOMAIN t = 1..(Len(s) - 1) /\ Head(s) = s[1]
  BY <1>1, LenProperties, EmptySeq
<1> HIDE DEF t
<1>3. \A k \in DOMAIN t : k + 1 \in DOMAIN s /\ k + 1 # 1 /\ t[k] = s[k + 1]
  BY <1>1, <1>2
<1>4. \A k \in DOMAIN s : k = 1 \/ (k - 1 \in DOMAIN t /\ t[k - 1] = s[k])
  <2>1. \A k \in DOMAIN s : k # 1 => k - 1 \in DOMAIN t /\ (k - 1) + 1 = k
    BY <1>2
  <2> QED BY <2>1, <1>3
<1>5. 1 \in DOMAIN s
  BY <1>2
<1>6. ToSet(t) = ToSet(s) \ {s[1]}
  <2>1. ASSUME NEW x \in ToSet(t) PROVE x \in ToSet(s) /\ x # s[1]
    BY <1>3, <1>5, IsInjective(s) DEF ToSet, IsInjective
  <2>2. ASSUME NEW x \in ToSet(s), x # s[1] PROVE x \in ToSet(t)
    BY <1>4, <2>2 DEF ToSet
  <2> QED BY <2>1, <2>2
<1>7. IsInjective(t)
  <2>1. \A j, k \in DOMAIN t : j + 1 = k + 1 => j = k
    BY <1>2
  <2> QED BY <1>3, <2>1, IsInjective(s) DEF IsInjective
<1> QED BY <1>1, <1>2, <1>5, <1>6, <1>7 DEF t, ToSet

\* list.insert(0, e)
LEMMA ConsElements ==
  ASSUME NEW S, NEW s \in Seq(S), NEW e \in S
  PROVE  /\ <<e>> \o s \in Seq(S)
         /\ ToSet(<<e>> \o s) = ToSet(s) \cup {e}
         /\ IsInjective(s) /\ e \notin ToSet(s) => IsInjective(<<e>> \o s)
<1> DEFINE t == <<e>> \o s
<1>1. <<e>> \in Seq(S) /\ Len(<<e>>) = 1 /\ <<e>>[1] = e
  OBVIOUS
<1>2. /\ t \in Seq(S) /\ Len(t) = 1 + Len(s)
      /\ \A k \in 1..(1 + Len(s)) :
           t[k] = IF k <= 1 THEN <<e>>[k] ELSE s[k - 1]
  BY <1>1, ConcatProperties
<1>3. Len(s) \in Nat /\ DOMAIN s = 1..Len(s) /\ DOMAIN t = 1..(1 + Len(s))
  BY <1>2, LenProperties
<1> HIDE DEF t
<1>4. /\ 1 \in DOMAIN t /\ t[1] = e
      /\ \A k \in DOMAIN t : k # 1 => k - 1 \in DOMAIN s /\ t[k] = s[k - 1]
  BY <1>1, <1>2, <1>3
<1>5. \A k \in DOMAIN s : k + 1 \in DOMAIN t /\ t[k + 1] = s[k]
  <2>1. \A k \in DOMAIN s : k + 1 \in DOMAIN t /\ k + 1 # 1 /\ (k + 1) - 1 = k
    BY <1>3
  <2> QED BY <1>4, <2>1
<1>6. ToSet(t) = ToSet(s) \cup {e}
  BY <1>4, <1>5 DEF ToSet
<1>7. ASSUME IsInjective(s), e \notin ToSet(s) PROVE IsInjective(t)
  <2>1. \A k \in DOMAIN t : k # 1 => t[k] # e
    BY <1>4, <1>7 DEF ToSet
  <2>2. \A j, k \in DOMAIN t : j - 1 = k - 1 => j = k
    BY <1>3
  <2> QED BY <1>4, <1>7, <2>1, <2>2 DEF IsInjective
<1> QED BY <1>2, <1>6, <1>7 DEF t

\* list.remove of the element at index k
LEMMA RemoveAtElements ==
  ASSUME NEW S, NEW s \in Seq(S), NEW k \in 1..Len(s), IsInjective(s)
  PROVE  /\ RemoveAt(s, k) \in Seq(S)
         /\ Len(RemoveAt(s, k)) = Len(s) - 1
         /\ ToSet(RemoveAt(s, k)) = ToSet(s) \ {s[k]}
         /\ IsInjective(RemoveAt(s, k))
<1> DEFINE a == SubSeq(s, 1, k - 1)
           b == SubSeq(s, k + 1, Len(s))
           t == RemoveAt(s, k)
<1>1. /\ Len(s) \in Nat /\ DOMAIN s = 1..Len(s)
      /\ \A j \in 1..Len(s) : s[j] \in S
  BY LenProperties, ElementOfSeq
<1>2. /\ a \in Seq(S) /\ Len(a) = k - 1
      /\ \A j \in 1..(k - 1) : a[j] = s[j]
  BY <1>1
<1>3. /\ b \in Seq(S) /\ Len(b) = Len(s) - k
      /\ \A j \in 1..(Len(s) - k) : b[j] = s[k + j]
  <2>1. k + 1 \in Int /\ Len(s) \in Int /\ \A j \in (k + 1)..Len(s) : s[j] \in S
    BY <1>1
  <2>2. /\ b \in Seq(S)
        /\ Len(b) = IF k + 1 <= Len(s) THEN Len(s) - (k + 1) + 1 ELSE 0
        /\ \A j \in 1..(Len(s) - (k + 1) + 1) : b[j] = s[(k + 1) + j - 1]
    BY <2>1, SubSeqProperties
  <2> HIDE DEF a, b, t
  <2>3. /\ Len(s) - (k + 1) + 1 = Len(s) - k
        /\ k + 1 <= Len(s) \/ Len(s) - k = 0
        /\ \A j \in 1..(Len(s) - k) : (k + 1) + j - 1 = k + j
    <3>1. k \in Int /\ Len(s) \in Int /\ k <= Len(s)
      BY <1>1
    <3> QED BY <3>1
  <2> QED BY <2>2, <2>3
<1>4. t = a \o b
  BY DEF RemoveAt
<1> HIDE DEF a, b, t
<1>5. /\ t \in Seq(S) /\ Len(t) = Len(s) - 1
      /\ \A j \in 1..(Len(s) - 1) :
           t[j] = IF j <= k - 1 THEN a[j] ELSE b[j - (k - 1)]
  <2>1. /\ a \o b \in Seq(S)
        /\ Len(a \o b) = Len(a) + Len(b)
        /\ \A j \in 1..(Len(a) + Len(b)) :
             (a \o b)[j] = IF j <= Len(a) THEN a[j] ELSE b[j - Len(a)]
    BY <1>2, <1>3, ConcatProperties
  <2>2. Len(a) = k - 1 /\ Len(a) + Len(b) = Len(s) - 1
    BY <1>1, <1>2, <1>3
  <2> QED BY <1>4, <2>1, <2>2
<1>6. \A j \in 1..(Len(s) - 1) : t[j] = IF j < k THEN s[j] ELSE s[j + 1]
  <2> SUFFICES ASSUME NEW j \in 1..(Len(s) - 1)
               PROVE  t[j] = IF j < k THEN s[j] ELSE s[j + 1]
    OBVIOUS
  <2>1. CASE j < k
    BY <2>1, <1>1, <1>2, <1>5
  <2>2. CASE j >= k
    <3>1. j - (k - 1) \in 1..(Len(s) - k) /\ k + (j - (k - 1)) = j + 1
      BY <2>2, <1>1
    <3>2. t[j] = b[j - (k - 1)]
      BY <2>2, <1>1, <1>5
    <3> QED BY <2>2, <1>1, <1>3, <3>1, <3>2
  <2> QED BY <2>1, <2>2, <1>1
<1>7. DOMAIN t = 1..(Len(s) - 1)
  BY <1>5, LenProperties
<1> DEFINE up(j) == IF j < k THEN j ELSE j + 1
<1>8. /\ \A j \in DOMAIN t : up(j) \in DOMAIN s /\ up(j) # k /\ t[j] = s[up(j)]
      /\ \A j, l \in DOMAIN t : up(j) = up(l) => j = l
  BY <1>1, <1>6, <1>7
<1>9. \A j \in DOMAIN s : j # k => \E l \in DOMAIN t : t[l] = s[j]
  <2> SUFFICES ASSUME NEW j \in DOMAIN s, j # k
               PROVE  \E l \in DOMAIN t : t[l] = s[j]
    OBVIOUS
  <2>1. CASE j < k
    BY <2>1, <1>1, <1>6, <1>7
  <2>2. CASE j > k
    <3>1. j - 1 \in 1..(Len(s) - 1) /\ ~(j - 1 < k) /\ (j - 1) + 1 = j
      BY <2>2, <1>1
    <3>2. t[j - 1] = s[j]
      BY <1>6, <3>1
    <3> QED BY <1>7, <3>1, <3>2
  <2> QED BY <2>1, <2>2, <1>1
<1> HIDE DEF up
<1>10. ToSet(t) = ToSet(s) \ {s[k]}
  <2>1. ASSUME NEW x \in ToSet(t) PROVE x \in ToSet(s) /\ x # s[k]
    <3>1. k \in DOMAIN s
      BY <1>1
    <3> QED BY <1>8, <3>1, IsInjective(s) DEF ToSet, IsInjective
  <2>2. ASSUME NEW x \in ToSet(s), x # s[k] PROVE x \in ToSet(t)
    BY <1>9, <2>2 DEF ToSet
  <2> QED BY <2>1, <2>2
<1>11. IsInjective(t)
  BY <1>8, IsInjective(s) DEF IsInjective
<1> QED BY <1>5, <1>10, <1>11 DEF t

\* The empty list.
LEMMA EmptyElements == ToSet(<<>>) = {} /\ IsInjective(<<>>)
  BY DEF ToSet, IsInjective

\* Membership in terms of indices.
LEMMA ElementsByIndex ==
  ASSUME NEW S, NEW s \in Seq(S)
  PROVE  /\ Len(s) \in Nat
         /\ \A k \in 1..Len(s) : s[k] \in S /\ s[k] \in ToSet(s)
         /\ \A x \in ToSet(s) : x \in S /\ \E k \in 1..Len(s) : x = s[k]
         /\ IsInjective(s) =>
              \A j, k \in 1..Len(s) : s[j] = s[k] => j = k
  BY LenProperties, ElementOfSeq DEF ToSet, IsInjective

\* s followed by the elements of a from index m on
LEMMA ConcatSuffixElements ==
  ASSUME NEW S, NEW s \in Seq(S), NEW a \in Seq(S), NEW m \in Nat \ {0},
         IsInjective(s), IsInjective(a),
         \A k \in 1..Len(a) : k >= m => a[k] \notin ToSet(s)
  PROVE  LET t == s \o SubSeq(a, m, Len(a)) IN
         /\ ToSet(t) = ToSet(s) \cup {a[k] : k \in {j \in 1..Len(a) : j >= m}}
         /\ IsInjective(t)
<1> DEFINE b == SubSeq(a, m, Len(a))
           t == s \o b
<1>1. /\ Len(a) \in Nat /\ Len(s) \in Nat /\ DOMAIN s = 1..Len(s)
      /\ \A k \in m..Len(a) : a[k] \in S
  BY LenProperties, ElementOfSeq
<1>2. /\ b \in Seq(S)
      /\ Len(b) = IF m <= Len(a) THEN Len(a) - m + 1 ELSE 0
      /\ \A k \in 1..(Len(a) - m + 1) : b[k] = a[m + k - 1]
  BY <1>1, SubSeqProperties
<1> HIDE DEF b
<1>3. /\ t \in Seq(S) /\ Len(t) = Len(s) + Len(b)
      /\ \A k \in 1..(Len(s) + Len(b)) :
           t[k] = IF k <= Len(s) THEN s[k] ELSE b[k - Len(s)]
  BY <1>2, ConcatProperties
<1>4. Len(b) \in Nat /\ DOMAIN t = 1..(Len(s) + Len(b))
  BY <1>2, <1>3, LenProperties
<1> HIDE DEF t
\* An index of t is one of s, or one of a from m on.
<1> DEFINE at(k) == k - Len(s) + m - 1
<1>5. ASSUME NEW k \in DOMAIN t, k > Len(s)
      PROVE  at(k) \in 1..Len(a) /\ at(k) >= m /\ t[k] = a[at(k)]
  <2>1. k - Len(s) \in 1..Len(b) /\ Len(b) = Len(a) - m + 1
    BY <1>1, <1>2, <1>4, <1>5
  <2>2. t[k] = b[k - Len(s)]
    BY <1>1, <1>3, <1>4, <1>5
  <2>3. b[k - Len(s)] = a[m + (k - Len(s)) - 1]
    BY <1>2, <2>1
  <2>4. m + (k - Len(s)) - 1 = at(k) /\ at(k) \in 1..Len(a) /\ at(k) >= m
    BY <1>1, <2>1
  <2> QED BY <2>2, <2>3, <2>4
<1>6. ASSUME NEW k \in DOMAIN t, k <= Len(s)
      PROVE  k \in DOMAIN s /\ t[k] = s[k]
  BY <1>1, <1>3, <1>4, <1>6
<1>7. ASSUME NEW k \in DOMAIN s
      PROVE  k \in DOMAIN t /\ t[k] = s[k]
  BY <1>1, <1>3, <1>4
<1>8. ASSUME NEW j \in 1..Len(a), j >= m
      PROVE  \E k \in DOMAIN t : t[k] = a[j]
  <2> DEFINE k == j - m + 1 + Len(s)
  <2>1. k \in DOMAIN t /\ k > Len(s) /\ at(k) = j
    BY <1>1, <1>2, <1>4, <1>8
  <2> HIDE DEF k
  <2> QED BY <1>5, <2>1
<1>9. \A k \in DOMAIN t : k \in Nat /\ (k > Len(s) \/ k <= Len(s))
  BY <1>1, <1>4
<1>10. \A j, k \in DOMAIN t : at(j) = at(k) => j = k
  BY <1>1, <1>4
<1> HIDE DEF at
<1>11. ToSet(t) = ToSet(s) \cup {a[k] : k \in {j \in 1..Len(a) : j >= m}}
  BY <1>5, <1>6, <1>7, <1>8, <1>9 DEF ToSet
<1>12. IsInjective(t)
  <2> SUFFICES ASSUME NEW j \in DOMAIN t, NEW k \in DOMAIN t, t[j] = t[k]
               PROVE  j = k
    BY DEF IsInjective
  <2>1. CASE j > Len(s) /\ k > Len(s)
    <3>1. at(j) \in DOMAIN a /\ at(k) \in DOMAIN a /\ a[at(j)] = a[at(k)]
      BY <1>5, <2>1, LenProperties
    <3> QED BY <1>10, <3>1 DEF IsInjective
  <2>2. CASE j <= Len(s) /\ k <= Len(s)
    BY <1>6, <2>2 DEF IsInjective
  <2>3. CASE j > Len(s) /\ k <= Len(s)
    BY <1>5, <1>6, <2>3 DEF ToSet
  <2>4. CASE j <= Len(s) /\ k > Len(s)
    BY <1>5, <1>6, <2>4 DEF ToSet
  <2> QED BY <1>9, <2>1, <2>2, <2>3, <2>4
<1> QED BY <1>11, <1>12 DEF t, b

\* What list.pop() returns and leaves.
LEMMA FrontLastTypes ==
  ASSUME NEW S, NEW s \in Seq(S), s # <<>>
  PROVE  Last(s) \in S /\ Front(s) \in Seq(S)
<1>1. Len(s) \in Nat \ {0} /\ \A k \in 1..Len(s) : s[k] \in S
  BY LenProperties, EmptySeq, ElementOfSeq
<1>2. Len(s) \in 1..Len(s) /\ 1 \in Int /\ Len(s) - 1 \in Int
  BY <1>1
<1>3. \A k \in 1..(Len(s) - 1) : s[k] \in S
  BY <1>1
<1> QED BY <1>1, <1>2, <1>3, SubSeqProperties DEF Last, Front

\* list.pop()
LEMMA FrontElements ==
  ASSUME NEW S, NEW s \in Seq(S), s # <<>>, IsInjective(s)
  PROVE  /\ Last(s) \in S /\ Last(s) \in ToSet(s)
         /\ Front(s) \in Seq(S)
         /\ ToSet(Front(s)) = ToSet(s) \ {Last(s)}
         /\ IsInjective(Front(s))
<1> DEFINE n == Len(s)
           f == Front(s)
<1>1. /\ n \in Nat \ {0} /\ DOMAIN s = 1..n
      /\ \A k \in 1..n : s[k] \in S
  BY LenProperties, EmptySeq, ElementOfSeq
<1>2. /\ f \in Seq(S) /\ Len(f) = n - 1
      /\ \A k \in 1..(n - 1) : f[k] = s[k]
  <2>1. \A k \in 1..(n - 1) : s[k] \in S
    BY <1>1
  <2>2. 1 \in Int /\ n - 1 \in Int
    BY <1>1
  <2> DEFINE g == SubSeq(s, 1, n - 1)
  <2>3. /\ g \in Seq(S)
        /\ Len(g) = IF 1 <= n - 1 THEN (n - 1) - 1 + 1 ELSE 0
        /\ \A k \in 1..((n - 1) - 1 + 1) : g[k] = s[1 + k - 1]
    BY <2>1, <2>2, SubSeqProperties
  <2>4. f = g
    BY DEF Front
  <2> HIDE DEF f, g
  <2>5. (n - 1) - 1 + 1 = n - 1 /\ \A k \in 1..(n - 1) : 1 + k - 1 = k
    BY <1>1
  <2>6. \A m \in Nat \ {0} :
          (IF 1 <= m - 1 THEN (m - 1) - 1 + 1 ELSE 0) = m - 1
    OBVIOUS
  <2>7. Len(g) = n - 1
    BY <2>3, <2>6, <1>1, Zenon
  <2> QED BY <2>3, <2>4, <2>5, <2>7
<1>3. DOMAIN f = 1..(n - 1)
  BY <1>2, LenProperties
<1>4. Last(s) = s[n]
  BY DEF Last
<1> HIDE DEF n, f
<1>5. /\ n \in DOMAIN s
      /\ \A k \in DOMAIN f : k \in DOMAIN s /\ k # n /\ f[k] = s[k]
      /\ \A k \in DOMAIN s : k = n \/ (k \in DOMAIN f /\ f[k] = s[k])
  BY <1>1, <1>2, <1>3
<1>6. ToSet(f) = ToSet(s) \ {s[n]}
  BY <1>5, IsInjective(s) DEF ToSet, IsInjective
<1>7. IsInjective(f)
  BY <1>5, IsInjective(s) DEF IsInjective
<1>8. s[n] \in S /\ s[n] \in ToSet(s)
  BY <1>1, <1>5 DEF ToSet
<1> QED BY <1>2, <1>4, <1>6, <1>7, <1>8 DEF f

\* list.extend(a)
LEMMA ConcatElements ==
  ASSUME NEW S, NEW s \in Seq(S), NEW a \in Seq(S),
         IsInjective(s), IsInjective(a), ToSet(s) \cap ToSet(a) = {}
  PROVE  /\ s \o a \in Seq(S)
         /\ ToSet(s \o a) = ToSet(s) \cup ToSet(a)
         /\ IsInjective(s \o a)
<1>1. SubSeq(a, 1, Len(a)) = a
  BY SubSeqFull
<1>2. \A k \in 1..Len(a) : k >= 1 => a[k] \notin ToSet(s)
  BY ElementsByIndex
<1> DEFINE t == s \o SubSeq(a, 1, Len(a))
<1>3. /\ ToSet(t) = ToSet(s) \cup {a[k] : k \in {j \in 1..Len(a) : j >= 1}}
      /\ IsInjective(t)
  <2>1. 1 \in Nat \ {0}
    OBVIOUS
  <2> HIDE DEF t
  <2> QED BY <1>2, <2>1, ConcatSuffixElements, Zenon DEF t
<1>4. {a[k] : k \in {j \in 1..Len(a) : j >= 1}} = ToSet(a)
  <2>1. DOMAIN a = 1..Len(a) /\ {j \in 1..Len(a) : j >= 1} = 1..Len(a)
    BY LenProperties
  <2> QED BY <2>1 DEF ToSet
<1>5. t = s \o a
  BY <1>1, Zenon
<1> QED BY <1>3, <1>4, <1>5, ConcatProperties, Zenon

\* The block and the slot of the n-th entry, in blocks of b slots.
LEMMA DivMod ==
  ASSUME NEW b \in Nat \ {0}, NEW n \in Nat
  PROVE  /\ n \div b \in Nat /\ n % b \in 0..(b - 1)
         /\ n = b * (n \div b) + (n % b)
  OBVIOUS

\* An entry that m blocks have room for is in one of them.
LEMMA RowMajor ==
  ASSUME NEW b \in Nat \ {0}, NEW n \in Nat, NEW m \in Nat, n < m * b
  PROVE  n \div b < m
<1> DEFINE q == n \div b
<1>1. q \in Nat /\ b * q <= n
  BY DivMod
<1> HIDE DEF q
<1>2. \A x, y \in Nat : x >= y => b * x >= b * y
  OBVIOUS
<1> QED BY <1>1, <1>2 DEF q

\* Two entries are not at one place.
LEMMA RowMajorUnique ==
  ASSUME NEW b \in Nat \ {0}, NEW i \in Nat, NEW j \in Nat,
         i \div b = j \div b, i % b = j % b
  PROVE  i = j
  BY DivMod

\* s[:n]
LEMMA PrefixValue ==
  ASSUME NEW s, NEW n \in Nat
  PROVE  SubSeq(s, 1, n) = [k \in 1..n |-> s[k]]
<1> DEFINE S == {s[k] : k \in 1..n}
           p == SubSeq(s, 1, n)
<1>1. \A k \in 1..n : s[k] \in S
  OBVIOUS
<1>2. 1 \in Int /\ n \in Int
  OBVIOUS
<1> HIDE DEF S
<1>3. /\ p \in Seq(S)
      /\ Len(p) = IF 1 <= n THEN n - 1 + 1 ELSE 0
      /\ \A k \in 1..(n - 1 + 1) : p[k] = s[1 + k - 1]
  BY <1>1, <1>2, SubSeqProperties
<1>4. n - 1 + 1 = n /\ \A k \in 1..n : 1 + k - 1 = k
  OBVIOUS
<1>5. (IF 1 <= n THEN n - 1 + 1 ELSE 0) = n
  OBVIOUS
<1> HIDE DEF p
<1>6. Len(p) = n
  BY <1>3, <1>5
<1>7. \A k \in 1..n : p[k] = s[k]
  BY <1>3, <1>4
<1>8. p \in [1..n -> S]
  BY <1>3, <1>6, LenProperties
<1> QED BY <1>7, <1>8 DEF p

\* The n entries of a cache of request t from position m on, computed in
\* use u of it.
EntriesFrom(t, u, m, n) == [k \in 1..n |-> [owner |-> t, use |-> u, pos |-> m + k - 1]]

\* How many they are.
LEMMA EntriesLen ==
  ASSUME NEW t, NEW u, NEW m \in Nat, NEW n \in Nat
  PROVE  /\ EntriesFrom(t, u, m, n) \in Seq([owner : {t}, use : {u}, pos : Nat])
         /\ Len(EntriesFrom(t, u, m, n)) = n
<1>1. \A k \in 1..n : m + k - 1 \in Nat
  OBVIOUS
<1>2. EntriesFrom(t, u, m, n) \in Seq([owner : {t}, use : {u}, pos : Nat])
  BY <1>1 DEF EntriesFrom
<1>3. DOMAIN EntriesFrom(t, u, m, n) = 1..n
  BY DEF EntriesFrom
<1>4. Len(EntriesFrom(t, u, m, n)) = n
  BY <1>2, <1>3, LenProperties
<1> QED BY <1>2, <1>4

\* How they follow each other.
LEMMA EntriesFollow ==
  ASSUME NEW t, NEW u, NEW m \in Nat, NEW n \in Nat
  PROVE  EntriesFrom(t, u, 0, m) \o EntriesFrom(t, u, m, n) = EntriesFrom(t, u, 0, m + n)
<1> DEFINE S == [owner : {t}, use : {u}, pos : Nat]
           a == EntriesFrom(t, u, 0, m)
           b == EntriesFrom(t, u, m, n)
           c == EntriesFrom(t, u, 0, m + n)
<1>1. 0 \in Nat /\ m + n \in Nat
  OBVIOUS
<1>2. /\ a \in Seq(S) /\ Len(a) = m
      /\ b \in Seq(S) /\ Len(b) = n
      /\ c \in Seq(S) /\ Len(c) = m + n
  BY <1>1, EntriesLen
<1>3. /\ a \o b \in Seq(S) /\ Len(a \o b) = m + n
      /\ \A k \in 1..(m + n) :
           (a \o b)[k] = IF k <= m THEN a[k] ELSE b[k - m]
  <2> HIDE DEF a, b, c, S
  <2> QED BY <1>2, ConcatProperties
<1>4. ASSUME NEW k \in 1..(m + n) PROVE (a \o b)[k] = c[k]
  <2>1. CASE k <= m
    <3>1. k \in 1..m
      BY <2>1
    <3> QED BY <1>3, <2>1, <3>1 DEF EntriesFrom
  <2>2. CASE k > m
    <3>1. k - m \in 1..n /\ m + (k - m) - 1 = 0 + k - 1 /\ ~(k <= m)
      BY <2>2
    <3>2. b[k - m] = [owner |-> t, use |-> u, pos |-> m + (k - m) - 1]
      BY <3>1 DEF EntriesFrom
    <3>3. c[k] = [owner |-> t, use |-> u, pos |-> 0 + k - 1]
      BY DEF EntriesFrom
    <3>4. (a \o b)[k] = b[k - m]
      <4> HIDE DEF a, b
      <4> QED BY <1>3, <3>1
    <3> QED BY <3>1, <3>2, <3>3, <3>4
  <2>3. k <= m \/ k > m
    OBVIOUS
  <2> QED BY <2>1, <2>2, <2>3, Zenon
<1> HIDE DEF a, b, c, S
<1>5. a \o b = c
  BY <1>2, <1>3, <1>4, SeqEqual
<1> QED BY <1>5 DEF a, b, c
=============================================================================
