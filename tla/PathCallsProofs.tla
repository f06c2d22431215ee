-------------------------- MODULE PathCallsProofs ---------------------------
(***************************************************************************)
(* Facts about paths and the operations by path, for strings of any length *)
(* and archives of any size: what a string means when names follow it, and *)
(* what an operation may change, done or cut off.                          *)
(***************************************************************************)
EXTENDS PathCalls, FiniteSetTheorems, SequenceTheorems, WellFoundedInduction, TLAPS

(***************************************************************************)
(* Paths as they are kept in an archive are ordered by IsPrefix.           *)
(***************************************************************************)

\* The start of a path is a path.
LEMMA Starts ==
  ASSUME NEW S, NEW p \in Seq(S), NEW n \in Nat, n <= Len(p)
  PROVE  /\ SubSeq(p, 1, n) \in Seq(S) /\ Len(SubSeq(p, 1, n)) = n
         /\ \A i \in 1..n : SubSeq(p, 1, n)[i] = p[i]
<1>1. \A i \in 1..n : p[i] \in S
  <2>1. \A i \in 1..Len(p) : p[i] \in S
    BY ElementOfSeq
  <2> QED
    BY <2>1, LenProperties
<1>2. /\ SubSeq(p, 1, n) \in Seq(S)
      /\ Len(SubSeq(p, 1, n)) = IF 1 <= n THEN n - 1 + 1 ELSE 0
      /\ \A i \in 1..n - 1 + 1 : SubSeq(p, 1, n)[i] = p[1 + i - 1]
  BY <1>1, SubSeqProperties
<1> QED
  BY <1>2

\* Its starts grow by one segment at a time, from nothing.
LEMMA NextStart ==
  ASSUME NEW S, NEW p \in Seq(S), NEW n \in 1..Len(p)
  PROVE  /\ SubSeq(p, 1, n - 1) \in Seq(S) /\ p[n] \in S
         /\ SubSeq(p, 1, n) = Append(SubSeq(p, 1, n - 1), p[n])
<1>1. Len(p) \in Nat /\ 1 \in 1..Len(p) /\ n \in 1..Len(p) /\ n - 1 \in Nat /\ n - 1 <= Len(p)
  BY LenProperties
<1>2. SubSeq(p, 1, n - 1) \in Seq(S) /\ p[n] \in S
  BY <1>1, Starts, ElementOfSeq
<1>3. SubSeq(p, 1, n) = SubSeq(p, 1, n - 1) \o <<p[n]>>
  BY <1>1, SubSeqRecursiveSecond
<1>4. Append(SubSeq(p, 1, n - 1), p[n]) = SubSeq(p, 1, n - 1) \o <<p[n]>>
  BY <1>2, AppendIsConcat
<1> QED
  BY <1>2, <1>3, <1>4

\* A prefix has the same segments, as far as it goes.
LEMMA PrefixBySegments ==
  ASSUME NEW S, NEW s \in Seq(S), NEW t \in Seq(S)
  PROVE  IsPrefix(s, t) <=> Len(s) <= Len(t) /\ \A i \in 1..Len(s) : s[i] = t[i]
<1>1. Len(s) \in Nat /\ Len(t) \in Nat
  BY LenProperties
<1>2. ASSUME Len(s) <= Len(t)
      PROVE  SubSeq(s, 1, Len(s)) = SubSeq(t, 1, Len(s)) <=> \A i \in 1..Len(s) : s[i] = t[i]
  <2> DEFINE u == SubSeq(t, 1, Len(s))
  <2>1. u \in Seq(S) /\ Len(u) = Len(s) /\ \A i \in 1..Len(s) : u[i] = t[i]
    BY <1>1, <1>2, Starts
  <2>2. SubSeq(s, 1, Len(s)) = s
    BY SubSeqFull
  <2> HIDE DEF u
  <2>3. (\A i \in 1..Len(s) : s[i] = t[i]) => s = u
    BY <2>1, SeqEqual
  <2> QED
    BY <2>1, <2>2, <2>3 DEF u
<1> QED
  BY <1>2 DEF IsPrefix

\* It is an order.
LEMMA PrefixOrder ==
  ASSUME NEW S
  PROVE  /\ \A s \in Seq(S) : IsPrefix(s, s) /\ IsPrefix(<<>>, s)
         /\ \A s, t, u \in Seq(S) : IsPrefix(s, t) /\ IsPrefix(t, u) => IsPrefix(s, u)
         /\ \A s, t \in Seq(S) : IsPrefix(s, t) /\ IsPrefix(t, s) => s = t
<1>1. ASSUME NEW s \in Seq(S) PROVE IsPrefix(s, s) /\ IsPrefix(<<>>, s)
  <2> DEFINE root == <<>>
  <2>1. Len(s) \in Nat /\ root \in Seq(S) /\ Len(root) = 0
    BY LenProperties, EmptySeq
  <2> HIDE DEF root
  <2>2. IsPrefix(s, s)
    BY <2>1, PrefixBySegments
  <2>3. Len(root) <= Len(s) /\ \A i \in 1..Len(root) : root[i] = s[i]
    BY <2>1
  <2>4. IsPrefix(root, s)
    BY <2>1, <2>3, PrefixBySegments
  <2> QED
    BY <2>2, <2>4 DEF root
<1>2. ASSUME NEW s \in Seq(S), NEW t \in Seq(S), NEW u \in Seq(S), IsPrefix(s, t), IsPrefix(t, u)
      PROVE  IsPrefix(s, u)
  <2>1. Len(s) \in Nat /\ Len(t) \in Nat /\ Len(u) \in Nat
    BY LenProperties
  <2>2. Len(s) <= Len(t) /\ \A i \in 1..Len(s) : s[i] = t[i]
    BY <1>2, PrefixBySegments
  <2>3. Len(t) <= Len(u) /\ \A i \in 1..Len(t) : t[i] = u[i]
    BY <1>2, PrefixBySegments
  <2>4. Len(s) <= Len(u) /\ \A i \in 1..Len(s) : s[i] = u[i]
    BY <2>1, <2>2, <2>3
  <2> QED
    BY <2>4, PrefixBySegments
<1>3. ASSUME NEW s \in Seq(S), NEW t \in Seq(S), IsPrefix(s, t), IsPrefix(t, s)
      PROVE  s = t
  <2>1. Len(s) \in Nat /\ Len(t) \in Nat
    BY LenProperties
  <2>2. Len(s) <= Len(t) /\ \A i \in 1..Len(s) : s[i] = t[i]
    BY <1>3, PrefixBySegments
  <2>3. Len(t) <= Len(s)
    BY <1>3, PrefixBySegments
  <2>4. Len(s) = Len(t)
    BY <2>1, <2>2, <2>3
  <2> QED
    BY <2>2, <2>4, SeqEqual
<1> QED
  BY <1>1, <1>2, <1>3

\* What is above a path are its proper prefixes, but for the root.
LEMMA AboveArePrefixes ==
  ASSUME NEW S, NEW p \in Seq(S), NEW q
  PROVE  q \in Above(p) <=> q \in Seq(S) /\ q # <<>> /\ IsStrictPrefix(q, p)
<1>1. Len(p) \in Nat
  BY LenProperties
<1>2. ASSUME q \in Above(p) PROVE q \in Seq(S) /\ q # <<>> /\ IsStrictPrefix(q, p)
  <2>1. PICK n \in 1..Len(p) - 1 : q = SubSeq(p, 1, n)
    BY <1>2 DEF Above
  <2>2. n \in Nat /\ n >= 1 /\ n < Len(p)
    BY <1>1
  <2>3. q \in Seq(S) /\ Len(q) = n /\ \A i \in 1..n : q[i] = p[i]
    BY <2>1, <2>2, Starts
  <2>4. IsPrefix(q, p)
    BY <2>2, <2>3, PrefixBySegments
  <2>5. q # <<>> /\ q # p
    BY <2>2, <2>3, EmptySeq
  <2> QED
    BY <2>3, <2>4, <2>5 DEF IsStrictPrefix
<1>3. ASSUME q \in Seq(S), q # <<>>, IsStrictPrefix(q, p) PROVE q \in Above(p)
  <2> DEFINE n == Len(q)
  <2>1. n \in Nat /\ n # 0
    BY <1>3, EmptySeq
  <2>2. IsPrefix(q, p) /\ q # p
    BY <1>3 DEF IsStrictPrefix
  <2>3. n <= Len(p) /\ \A i \in 1..n : q[i] = p[i]
    BY <1>3, <2>2, PrefixBySegments
  <2>4. n # Len(p)
    BY <1>3, <2>2, <2>3, SeqEqual
  <2>5. /\ SubSeq(p, 1, n) \in Seq(S) /\ Len(SubSeq(p, 1, n)) = n
        /\ \A i \in 1..n : SubSeq(p, 1, n)[i] = p[i]
    BY <2>1, <2>3, Starts
  <2>6. q = SubSeq(p, 1, n)
    BY <1>3, <2>3, <2>5, SeqEqual
  <2>7. n \in 1..Len(p) - 1
    BY <1>1, <2>1, <2>3, <2>4
  <2> HIDE DEF n
  <2> QED
    BY <2>6, <2>7 DEF Above
<1> QED
  BY <1>2, <1>3

\* A path is its last name after what is above.
LEMMA LastAppended ==
  ASSUME NEW S, NEW p \in Seq(S), p # <<>>
  PROVE  /\ Front(p) \in Seq(S) /\ Last(p) \in S /\ p = Append(Front(p), Last(p))
         /\ Len(Front(p)) = Len(p) - 1
<1>1. PICK s \in Seq(S), e \in S : p = Append(s, e)
  BY SequenceEmptyOrAppend
<1>2. Len(p) = Len(s) + 1 /\ p[Len(s) + 1] = e /\ \A i \in 1..Len(s) : p[i] = s[i]
  BY <1>1, AppendProperties
<1>3. Len(s) \in Nat /\ Len(p) - 1 = Len(s)
  BY <1>2, LenProperties
<1>4. /\ SubSeq(p, 1, Len(s)) \in Seq(S) /\ Len(SubSeq(p, 1, Len(s))) = Len(s)
      /\ \A i \in 1..Len(s) : SubSeq(p, 1, Len(s))[i] = p[i]
  BY <1>2, <1>3, Starts
<1>5. SubSeq(p, 1, Len(s)) = s
  BY <1>2, <1>4, SeqEqual
<1>6. Front(p) = s /\ Last(p) = e
  BY <1>2, <1>3, <1>5 DEF Front, Last
<1> QED
  BY <1>1, <1>3, <1>6

LEMMA AppendedPath ==
  ASSUME NEW S, NEW s \in Seq(S), NEW e \in S
  PROVE  /\ Append(s, e) \in Seq(S) /\ Append(s, e) # <<>> /\ Len(Append(s, e)) = Len(s) + 1
         /\ Front(Append(s, e)) = s /\ Last(Append(s, e)) = e
         /\ \A q \in Seq(S) : IsPrefix(q, Append(s, e)) <=> q = Append(s, e) \/ IsPrefix(q, s)
         /\ \A q : q \in Above(Append(s, e)) <=> q \in Above(s) \/ (q = s /\ s # <<>>)
<1> DEFINE p == Append(s, e)
<1>1. /\ p \in Seq(S) /\ p # <<>> /\ Len(p) = Len(s) + 1 /\ Len(s) \in Nat
      /\ \A i \in 1..Len(s) : p[i] = s[i]
  BY AppendProperties, LenProperties
<1>2. Front(p) \in Seq(S) /\ Last(p) \in S /\ p = Append(Front(p), Last(p))
  BY <1>1, LastAppended
<1>3. Front(p) = s /\ Last(p) = e
  <2>1. Append(s, e) = Append(Front(p), Last(p))
    BY <1>2
  <2> HIDE DEF p
  <2> QED
    BY <1>2, <2>1, AppendInjective
<1> HIDE DEF p
<1>4. ASSUME NEW q \in Seq(S) PROVE IsPrefix(q, p) <=> q = p \/ IsPrefix(q, s)
  <2>1. Len(q) \in Nat
    BY LenProperties
  <2>2. ASSUME IsPrefix(q, p), q # p PROVE IsPrefix(q, s)
    <3>1. Len(q) <= Len(p) /\ \A i \in 1..Len(q) : q[i] = p[i]
      BY <1>1, <2>2, PrefixBySegments
    <3>2. Len(q) # Len(p)
      BY <1>1, <2>2, <3>1, SeqEqual
    <3>3. Len(q) <= Len(s) /\ \A i \in 1..Len(q) : q[i] = s[i]
      BY <1>1, <2>1, <3>1, <3>2
    <3> QED
      BY <3>3, PrefixBySegments
  <2>3. ASSUME IsPrefix(q, s) PROVE IsPrefix(q, p)
    <3>1. Len(q) <= Len(s) /\ \A i \in 1..Len(q) : q[i] = s[i]
      BY <2>3, PrefixBySegments
    <3>2. Len(q) <= Len(p) /\ \A i \in 1..Len(q) : q[i] = p[i]
      BY <1>1, <2>1, <3>1
    <3> QED
      BY <1>1, <3>2, PrefixBySegments
  <2>4. IsPrefix(p, p)
    BY <1>1, PrefixOrder
  <2> QED
    BY <2>2, <2>3, <2>4
<1>5. ~IsPrefix(p, s)
  <2>1. ~(Len(p) <= Len(s))
    BY <1>1
  <2> QED
    BY <1>1, <2>1, PrefixBySegments
<1>6. IsPrefix(s, s)
  BY PrefixOrder
<1>7. ASSUME NEW q PROVE q \in Above(p) <=> q \in Above(s) \/ (q = s /\ s # <<>>)
  <2>1. q \in Above(p) <=> q \in Seq(S) /\ q # <<>> /\ IsPrefix(q, p) /\ q # p
    BY <1>1, AboveArePrefixes DEF IsStrictPrefix
  <2>2. q \in Above(s) <=> q \in Seq(S) /\ q # <<>> /\ IsPrefix(q, s) /\ q # s
    BY AboveArePrefixes DEF IsStrictPrefix
  <2>3. q \in Seq(S) /\ q # p => (IsPrefix(q, p) <=> IsPrefix(q, s))
    BY <1>4
  <2>4. IsPrefix(q, s) => q # p
    BY <1>5
  <2> QED
    BY <1>6, <2>1, <2>2, <2>3, <2>4
<1> QED
  BY <1>1, <1>3, <1>4, <1>7 DEF p

\* And what is above that is above the path.
LEMMA AboveAbove ==
  ASSUME NEW S, NEW p \in Seq(S), NEW q \in Above(p)
  PROVE  q \in Seq(S) /\ q # p /\ p \notin Above(q) /\ Above(q) \subseteq Above(p)
<1>1. q \in Seq(S) /\ q # <<>> /\ IsPrefix(q, p) /\ q # p
  BY AboveArePrefixes DEF IsStrictPrefix
<1>2. ASSUME NEW r \in Above(q) PROVE r # p /\ r \in Above(p)
  <2>1. r \in Seq(S) /\ r # <<>> /\ IsPrefix(r, q) /\ r # q
    BY <1>1, AboveArePrefixes DEF IsStrictPrefix
  <2>2. IsPrefix(r, p)
    BY <1>1, <2>1, PrefixOrder
  <2>3. r # p
    BY <1>1, <2>1, PrefixOrder
  <2> QED
    BY <2>1, <2>2, <2>3, AboveArePrefixes DEF IsStrictPrefix
<1> QED
  BY <1>1, <1>2

(***************************************************************************)
(* What a string means.  The names it keeps are numbered by how many there *)
(* are up to each: every number is that of exactly one.                    *)
(***************************************************************************)

\* The names of a string that no ".." undoes.
Kept(raw) == {i \in 1..Len(raw) : raw[i] \in Names /\ ~Undone(raw, i)}

Rank(K, i) == Cardinality(K \cap 1..i)

\* A non-empty set of naturals has a least element.
LEMMA NatHasLeast ==
  ASSUME NEW T \in SUBSET Nat, T # {}
  PROVE  \E m \in T : \A n \in T : m <= n
<1>1. PICK m \in T : \A n \in T : ~(<<n, m>> \in OpToRel(<, Nat))
  BY NatLessThanWellFounded, WFMin
<1>2. \A n \in T : ~(n < m)
  BY <1>1 DEF OpToRel
<1> QED
  BY <1>2

\* A set of positions up to a limit is finite, and so are its parts.
LEMMA RankIsNat ==
  ASSUME NEW L \in Nat, NEW K \in SUBSET (1..L), NEW i \in Nat
  PROVE  IsFiniteSet(K) /\ IsFiniteSet(K \cap 1..i) /\ Rank(K, i) \in Nat
<1>1. IsFiniteSet(1..L)
  BY FS_Interval
<1>2. IsFiniteSet(K)
  BY <1>1, FS_Subset
<1>3. IsFiniteSet(K \cap 1..i)
  BY <1>2, FS_Intersection
<1> QED
  BY <1>2, <1>3, FS_CardinalityType DEF Rank

\* From one position to the next the rank grows by one at most.
LEMMA RankStep ==
  ASSUME NEW L \in Nat, NEW K \in SUBSET (1..L), NEW i \in Nat, i > 0
  PROVE  Rank(K, i) = IF i \in K THEN Rank(K, i - 1) + 1 ELSE Rank(K, i - 1)
<1> DEFINE h == i - 1
<1>1. h \in Nat /\ h + 1 = i
  OBVIOUS
<1>2. 1..i = (1..h) \cup {i} /\ i \notin 1..h
  BY <1>1
<1> HIDE DEF h
<1>3. IsFiniteSet(K \cap 1..h)
  BY <1>1, RankIsNat
<1>4. CASE i \in K
  <2>1. K \cap 1..i = (K \cap 1..h) \cup {i} /\ i \notin K \cap 1..h
    BY <1>2, <1>4
  <2>2. Cardinality((K \cap 1..h) \cup {i}) = Cardinality(K \cap 1..h) + 1
    BY <1>3, <2>1, FS_AddElement
  <2> QED
    BY <1>4, <2>1, <2>2 DEF Rank, h
<1>5. CASE i \notin K
  <2>1. K \cap 1..i = K \cap 1..h
    BY <1>2, <1>5
  <2> QED
    BY <1>5, <2>1 DEF Rank, h
<1> QED
  BY <1>4, <1>5

\* Every number is the rank of a position ...
LEMMA RankIsReached ==
  ASSUME NEW L \in Nat, NEW K \in SUBSET (1..L), NEW n \in 1..Cardinality(K)
  PROVE  \E i \in K : Rank(K, i) = n
<1> DEFINE T == {i \in 0..L : Rank(K, i) >= n}
<1>1. ASSUME NEW i \in 0..L PROVE Rank(K, i) \in Nat
  <2>1. i \in Nat
    OBVIOUS
  <2> QED
    BY <2>1, RankIsNat
<1>2. IsFiniteSet(K) /\ Cardinality(K) \in Nat
  BY RankIsNat, FS_CardinalityType
<1>3. K \cap 1..L = K
  OBVIOUS
<1>4. L \in T
  BY <1>2, <1>3 DEF Rank
<1>5. PICK i \in T : \A j \in T : i <= j
  <2>1. T \in SUBSET Nat /\ T # {}
    BY <1>4
  <2> HIDE DEF T
  <2> QED
    BY <2>1, NatHasLeast
<1>6. i # 0
  <2>1. K \cap 1..0 = {}
    OBVIOUS
  <2>2. Rank(K, 0) = 0
    BY <2>1, FS_EmptySet DEF Rank
  <2> QED
    BY <2>2
<1>7. i - 1 \in 0..L /\ i - 1 \notin T
  BY <1>5, <1>6
<1>8. Rank(K, i - 1) < n /\ Rank(K, i) >= n /\ Rank(K, i - 1) \in Nat /\ n \in Nat
  BY <1>1, <1>2, <1>7
<1>9. Rank(K, i) = IF i \in K THEN Rank(K, i - 1) + 1 ELSE Rank(K, i - 1)
  BY <1>6, RankStep
<1> QED
  BY <1>8, <1>9

\* ... and of only one.
LEMMA RanksDiffer ==
  ASSUME NEW L \in Nat, NEW K \in SUBSET (1..L), NEW i \in K, NEW j \in K, i < j
  PROVE  Rank(K, i) # Rank(K, j)
<1>1. i \in Nat /\ j \in Nat
  OBVIOUS
<1>2. K \cap 1..i \in SUBSET (K \cap 1..j) /\ j \in K \cap 1..j /\ j \notin K \cap 1..i
  BY <1>1
<1>3. IsFiniteSet(K \cap 1..j)
  BY <1>1, RankIsNat
<1>4. K \cap 1..i # K \cap 1..j
  BY <1>2
<1> QED
  BY <1>2, <1>3, <1>4, FS_Subset DEF Rank

\* So a position is told by its rank.
Nth(K, n) == CHOOSE i \in K : Rank(K, i) = n

LEMMA NthHasRank ==
  ASSUME NEW L \in Nat, NEW K \in SUBSET (1..L), NEW n \in 1..Cardinality(K)
  PROVE  Nth(K, n) \in K /\ Rank(K, Nth(K, n)) = n
BY RankIsReached DEF Nth

LEMMA NthIs ==
  ASSUME NEW L \in Nat, NEW K \in SUBSET (1..L), NEW i \in K
  PROVE  Nth(K, Rank(K, i)) = i
<1> DEFINE j == Nth(K, Rank(K, i))
<1>1. j \in K /\ Rank(K, j) = Rank(K, i)
  BY DEF Nth
<1> HIDE DEF j
<1>2. ~(i < j)
  BY <1>1, RanksDiffer
<1>3. ~(j < i)
  BY <1>1, RanksDiffer
<1>4. i = j
  BY <1>1, <1>2, <1>3
<1> QED
  BY <1>4 DEF j

\* What a string means are its kept names, in their order.
LEMMA MeantByRank ==
  ASSUME NEW S, NEW raw \in Seq(S)
  PROVE  Meant(raw) = [n \in 1..Cardinality(Kept(raw)) |-> raw[Nth(Kept(raw), n)]]
<1> DEFINE K == Kept(raw)
           left(i) == Cardinality({j \in 1..i : raw[j] \in Names /\ ~Undone(raw, j)})
<1>1. Len(raw) \in Nat
  BY LenProperties
<1>2. \A i \in K : left(i) = Rank(K, i)
  <2> TAKE i \in K
  <2>1. i \in 1..Len(raw)
    BY DEF Kept
  <2>2. {j \in 1..i : raw[j] \in Names /\ ~Undone(raw, j)} = K \cap 1..i
    BY <1>1, <2>1 DEF Kept
  <2> QED
    BY <2>2 DEF Rank
<1>3. \A n : (CHOOSE i \in K : left(i) = n) = Nth(K, n)
  BY <1>2 DEF Nth
<1>4. Meant(raw) = [n \in 1..Cardinality(K) |-> raw[CHOOSE i \in K : left(i) = n]]
  BY DEF Meant, Kept
<1> QED
  BY <1>3, <1>4

\* The parts of a string before and after some names are appended to it.
LEMMA Appended ==
  ASSUME NEW S, NEW raw \in Seq(S), NEW names \in Seq(Names)
  PROVE  /\ Len(raw) \in Nat /\ Len(names) \in Nat
         /\ Len(raw \o names) = Len(raw) + Len(names)
         /\ \A i \in 1..Len(raw) : (raw \o names)[i] = raw[i]
         /\ \A n \in 1..Len(names) : /\ (raw \o names)[Len(raw) + n] = names[n]
                                      /\ names[n] \in Names
         /\ raw \o names \in Seq(S \cup Names)
<1> DEFINE T == S \cup Names
<1>1. raw \in Seq(T) /\ names \in Seq(T)
  BY SeqMonotonic
<1>2. Len(raw) \in Nat /\ Len(names) \in Nat /\ \A n \in 1..Len(names) : names[n] \in Names
  BY LenProperties, ElementOfSeq
<1> HIDE DEF T
<1>3. /\ raw \o names \in Seq(T) /\ Len(raw \o names) = Len(raw) + Len(names)
      /\ \A i \in 1..Len(raw) + Len(names) :
           (raw \o names)[i] = IF i <= Len(raw) THEN raw[i] ELSE names[i - Len(raw)]
  BY <1>1, ConcatProperties
<1>4. \A i \in 1..Len(raw) : (raw \o names)[i] = raw[i]
  BY <1>2, <1>3
<1>5. ASSUME NEW n \in 1..Len(names) PROVE (raw \o names)[Len(raw) + n] = names[n]
  <2>1. Len(raw) + n \in 1..Len(raw) + Len(names) /\ ~(Len(raw) + n <= Len(raw))
        /\ Len(raw) + n - Len(raw) = n
    BY <1>2
  <2> QED
    BY <1>3, <2>1
<1> QED
  BY <1>2, <1>3, <1>4, <1>5 DEF T

\* Counts are numbers, and a longer part of the string has no fewer.
LEMMA CountIsNat ==
  ASSUME NEW t, NEW i \in Int, NEW j \in Int, NEW k \in Int, j <= k, NEW segments
  PROVE  Count(t, i, j, segments) \in Nat /\ Count(t, i, j, segments) <= Count(t, i, k, segments)
<1> DEFINE few  == {n \in i..j : t[n] \in segments}
           more == {n \in i..k : t[n] \in segments}
<1>1. IsFiniteSet(i..k)
  BY FS_Interval
<1>2. IsFiniteSet(more)
  BY <1>1, FS_Subset
<1>3. few \in SUBSET more
  OBVIOUS
<1> HIDE DEF few, more
<1>4. IsFiniteSet(few) /\ Cardinality(few) <= Cardinality(more)
  BY <1>2, <1>3, FS_Subset
<1>5. Cardinality(few) \in Nat
  BY <1>4, FS_CardinalityType
<1> QED
  BY <1>4, <1>5 DEF Count, few, more

\* Names that follow undo nothing and are not undone.
LEMMA UndoneStays ==
  ASSUME NEW S, NEW raw \in Seq(S), NEW names \in Seq(Names)
  PROVE  /\ \A i \in 1..Len(raw) : Undone(raw \o names, i) <=> Undone(raw, i)
         /\ \A i \in Len(raw) + 1..Len(raw) + Len(names) : ~Undone(raw \o names, i)
<1> DEFINE t == raw \o names
           L == Len(raw)
           k == Len(names)
           up(s, i, j) == Count(s, i + 1, j, {".."})
           down(s, i, j) == Count(s, i + 1, j, Names)
<1>1. /\ L \in Nat /\ k \in Nat /\ Len(t) = L + k
      /\ \A i \in 1..L : t[i] = raw[i]
      /\ \A n \in 1..k : t[L + n] \in Names
  BY Appended
<1>2. ".." \notin Names
  BY SegmentsAssumption DEF Dotted
<1> HIDE DEF t, L, k
<1>3. \A i \in L + 1..L + k : t[i] # ".."
  <2> TAKE i \in L + 1..L + k
  <2>1. i - L \in 1..k /\ L + (i - L) = i
    BY <1>1
  <2> QED
    BY <1>1, <1>2, <2>1
<1>4. ASSUME NEW i \in Nat, NEW j \in 0..L PROVE up(t, i, j) = up(raw, i, j) /\ down(t, i, j) = down(raw, i, j)
  <2>1. \A n \in i + 1..j : t[n] = raw[n]
    BY <1>1
  <2>2. \A segments : {n \in i + 1..j : t[n] \in segments} = {n \in i + 1..j : raw[n] \in segments}
    BY <2>1
  <2> QED
    BY <2>2 DEF Count
<1>5. ASSUME NEW i \in Nat, NEW j \in L + 1..L + k PROVE up(t, i, j) = up(t, i, L)
  <2>1. {n \in i + 1..j : t[n] \in {".."}} = {n \in i + 1..L : t[n] \in {".."}}
    BY <1>1, <1>3
  <2> QED
    BY <2>1 DEF Count
<1>6. ASSUME NEW i \in Nat, NEW j \in L + 1..L + k
      PROVE  down(t, i, L) \in Nat /\ down(t, i, L) <= down(t, i, j) /\ down(t, i, j) \in Nat
  <2>1. i + 1 \in Int /\ L \in Int /\ j \in Int /\ L <= j /\ j <= j
    BY <1>1
  <2> QED
    BY <2>1, CountIsNat
<1>7. ASSUME NEW i \in Nat, NEW j \in i + 1..L + k, up(t, i, j) > down(t, i, j), j > L
      PROVE  i < L /\ up(t, i, L) > down(t, i, L)
  <2>1. j \in L + 1..L + k
    BY <1>1, <1>7
  <2>2. up(t, i, j) = up(t, i, L)
    BY <1>5, <2>1
  <2>3. down(t, i, L) \in Nat /\ down(t, i, L) <= down(t, i, j) /\ down(t, i, j) \in Nat
    BY <1>6, <2>1
  <2>4. up(t, i, L) \in Nat
    <3>1. i + 1 \in Int /\ L \in Int /\ L <= L
      BY <1>1
    <3> QED
      BY <3>1, CountIsNat
  <2>5. i < L
    <3> SUFFICES ASSUME i >= L PROVE FALSE
      BY <1>1
    <3>1. {n \in i + 1..L : t[n] \in {".."}} = {}
      BY <1>1
    <3>2. up(t, i, L) = 0
      BY <3>1, FS_EmptySet DEF Count
    <3> HIDE DEF up, down
    <3> QED
      BY <1>7, <2>2, <2>3, <3>2
  <2> HIDE DEF up, down
  <2> QED
    BY <1>7, <2>2, <2>3, <2>4, <2>5
<1>8. ASSUME NEW i \in 1..L PROVE Undone(t, i) <=> Undone(raw, i)
  <2>1. ASSUME Undone(raw, i) PROVE Undone(t, i)
    <3>1. PICK j \in i + 1..L : up(raw, i, j) > down(raw, i, j)
      BY <2>1 DEF Undone, L
    <3>2. j \in i + 1..Len(t) /\ j \in 0..L /\ i \in Nat
      BY <1>1, <3>1
    <3> QED
      BY <1>4, <3>1, <3>2 DEF Undone
  <2>2. ASSUME Undone(t, i) PROVE Undone(raw, i)
    <3>1. PICK j \in i + 1..L + k : up(t, i, j) > down(t, i, j)
      BY <1>1, <2>2 DEF Undone
    <3>2. i \in Nat
      BY <1>1
    <3>3. CASE j <= L
      <4>1. j \in 0..L /\ j \in i + 1..L
        BY <1>1, <3>2, <3>3
      <4>2. up(raw, i, j) > down(raw, i, j)
        BY <1>4, <3>1, <3>2, <4>1
      <4> QED
        BY <4>1, <4>2 DEF Undone, L
    <3>4. CASE j > L
      <4>1. i < L /\ up(t, i, L) > down(t, i, L)
        BY <1>7, <3>1, <3>2, <3>4
      <4>2. L \in 0..L /\ L \in i + 1..L
        BY <1>1, <3>2, <4>1
      <4>3. up(raw, i, L) > down(raw, i, L)
        BY <1>4, <3>2, <4>1, <4>2
      <4> QED
        BY <4>2, <4>3 DEF Undone, L
    <3> QED
      BY <1>1, <3>1, <3>3, <3>4
  <2> QED
    BY <2>1, <2>2
<1>9. ASSUME NEW i \in L + 1..L + k, Undone(t, i) PROVE FALSE
  <2>1. PICK j \in i + 1..L + k : up(t, i, j) > down(t, i, j)
    BY <1>1, <1>9 DEF Undone
  <2>2. i \in Nat /\ j > L /\ ~(i < L)
    BY <1>1, <2>1
  <2> QED
    BY <1>7, <2>1, <2>2
<1> QED
  BY <1>8, <1>9 DEF t, L, k

\* All names that follow are kept.
LEMMA KeptOfAppended ==
  ASSUME NEW S, NEW raw \in Seq(S), NEW names \in Seq(Names)
  PROVE  Kept(raw \o names) = Kept(raw) \cup (Len(raw) + 1..Len(raw) + Len(names))
<1> DEFINE t == raw \o names
           L == Len(raw)
           k == Len(names)
<1>1. /\ L \in Nat /\ k \in Nat /\ Len(t) = L + k
      /\ \A i \in 1..L : t[i] = raw[i]
      /\ \A n \in 1..k : t[L + n] \in Names
  BY Appended
<1>2. /\ \A i \in 1..L : Undone(t, i) <=> Undone(raw, i)
      /\ \A i \in L + 1..L + k : ~Undone(t, i)
  BY UndoneStays
<1> HIDE DEF t, L, k
<1>3. \A i \in L + 1..L + k : t[i] \in Names
  <2> TAKE i \in L + 1..L + k
  <2>1. i - L \in 1..k /\ L + (i - L) = i
    BY <1>1
  <2> QED
    BY <1>1, <2>1
<1>4. Kept(t) = {i \in 1..L + k : t[i] \in Names /\ ~Undone(t, i)}
  BY <1>1 DEF Kept
<1>5. Kept(raw) = {i \in 1..L : raw[i] \in Names /\ ~Undone(raw, i)}
  BY DEF Kept, L
<1>6. 1..L + k = (1..L) \cup (L + 1..L + k)
  BY <1>1
<1>7. Kept(t) = Kept(raw) \cup (L + 1..L + k)
  BY <1>1, <1>2, <1>3, <1>4, <1>5, <1>6
<1> QED
  BY <1>7 DEF t, L, k

(***************************************************************************)
(* A string that names follow means the path it means, and these names     *)
(* below it: what the tool relies on when it puts an item under another    *)
(* directory.                                                              *)
(***************************************************************************)
THEOREM MeantOfAppended ==
  ASSUME NEW S, NEW raw \in Seq(S), NEW names \in Seq(Names)
  PROVE  Meant(raw \o names) = Meant(raw) \o names
<1> DEFINE t == raw \o names
           L == Len(raw)
           k == Len(names)
           K == Kept(raw)
           m == Cardinality(K)
           KT == Kept(t)
<1>1. L \in Nat /\ k \in Nat /\ Len(t) = L + k /\ t \in Seq(S \cup Names)
  BY Appended
<1>2. /\ \A i \in 1..L : t[i] = raw[i]
      /\ \A n \in 1..k : t[L + n] = names[n]
  BY Appended
<1>3. KT = K \cup (L + 1..L + k)
  BY KeptOfAppended
<1>4. K \in SUBSET (1..L)
  BY DEF Kept
<1>5. Meant(raw) = [n \in 1..m |-> raw[Nth(K, n)]]
  BY MeantByRank
<1>6. Meant(t) = [n \in 1..Cardinality(KT) |-> t[Nth(KT, n)]]
  BY <1>1, MeantByRank
<1> HIDE DEF t, K, KT
<1>7. L \in Nat /\ k \in Nat /\ L + k \in Nat
  BY <1>1
<1> HIDE DEF L, k
<1>8. IsFiniteSet(K) /\ Cardinality(K) \in Nat
  BY <1>4, <1>7, RankIsNat, FS_CardinalityType
<1>9. KT \in SUBSET (1..L + k)
  BY <1>3, <1>4, <1>7
\* The names added have the ranks after those of the kept ones.
<1>10. ASSUME NEW r \in 0..k PROVE Rank(KT, L + r) = m + r
  <2> DEFINE new == L + 1..L + r
  <2>1. KT \cap 1..L + r = K \cup new
    <3>1. \A i \in K : i \in KT /\ i \in 1..L + r
      BY <1>3, <1>4, <1>7
    <3>2. \A i \in new : i \in KT /\ i \in 1..L + r
      BY <1>3, <1>7
    <3>3. \A i \in L + 1..L + k : i \in 1..L + r => i \in new
      BY <1>7
    <3> HIDE DEF new
    <3> QED
      BY <1>3, <3>1, <3>2, <3>3
  <2>2. K \cap new = {}
    BY <1>4, <1>7
  <2>3. IsFiniteSet(new) /\ Cardinality(new) = r
    <3> DEFINE from == L + 1
               to   == L + r
    <3>1. from \in Int /\ to \in Int /\ (IF from > to THEN 0 ELSE to - from + 1) = r
      BY <1>7
    <3> HIDE DEF from, to
    <3>2. IsFiniteSet(from..to) /\ Cardinality(from..to) = IF from > to THEN 0 ELSE to - from + 1
      BY <3>1, FS_Interval
    <3>3. IsFiniteSet(from..to) /\ Cardinality(from..to) = r
      BY <3>1, <3>2
    <3> QED
      BY <3>3 DEF from, to
  <2> HIDE DEF new
  <2>4. Cardinality(K \cup new) = Cardinality(K) + Cardinality(new) - Cardinality(K \cap new)
    BY <1>8, <2>3, FS_Union
  <2>5. Cardinality(K \cap new) = 0
    BY <2>2, FS_EmptySet
  <2>6. Cardinality(K \cup new) = m + r
    BY <1>8, <2>3, <2>4, <2>5
  <2> HIDE DEF m
  <2> QED
    BY <2>1, <2>6 DEF Rank
<1>11. Cardinality(KT) = m + k
  <2>1. k \in 0..k
    BY <1>7
  <2>2. Rank(KT, L + k) = m + k
    BY <1>10, <2>1
  <2>3. KT \cap 1..L + k = KT
    BY <1>9
  <2> HIDE DEF m
  <2> QED
    BY <2>2, <2>3 DEF Rank
<1>12. ASSUME NEW n \in 1..m PROVE t[Nth(KT, n)] = raw[Nth(K, n)]
  <2> DEFINE i == Nth(K, n)
  <2>1. i \in K /\ Rank(K, i) = n
    BY <1>4, <1>7, NthHasRank
  <2> HIDE DEF i
  <2>2. i \in 1..L /\ i \in KT
    BY <1>3, <1>4, <2>1
  <2>3. KT \cap 1..i = K \cap 1..i
    BY <1>3, <1>4, <1>7, <2>2
  <2>4. Rank(KT, i) = n
    BY <2>1, <2>3 DEF Rank
  <2>5. Nth(KT, Rank(KT, i)) = i
    BY <1>7, <1>9, <2>2, NthIs
  <2>6. t[i] = raw[i]
    BY <1>2, <2>2
  <2> QED
    BY <2>4, <2>5, <2>6 DEF i
<1>13. ASSUME NEW r \in 1..k PROVE t[Nth(KT, m + r)] = names[r]
  <2> DEFINE i == L + r
  <2>1. i \in KT /\ r \in 0..k
    BY <1>3, <1>7
  <2>2. Rank(KT, i) = m + r
    BY <1>10, <2>1
  <2>3. t[i] = names[r]
    BY <1>2
  <2> HIDE DEF i, m
  <2>4. Nth(KT, Rank(KT, i)) = i
    BY <1>7, <1>9, <2>1, NthIs
  <2> QED
    BY <2>2, <2>3, <2>4
<1>14. ASSUME NEW n \in 1..m PROVE raw[Nth(K, n)] \in Names
  <2>1. Nth(K, n) \in K
    BY <1>4, <1>7, NthHasRank
  <2> QED
    BY <2>1 DEF K, Kept
<1>15. m \in Nat
  BY <1>8
<1> HIDE DEF m
<1> DEFINE mr == Meant(raw)
           mt == Meant(t)
           both == mr \o names
<1>16. mr \in Seq(Names) /\ Len(mr) = m /\ \A n \in 1..m : mr[n] = raw[Nth(K, n)]
  BY <1>5, <1>14, <1>15
<1>17. mt = [n \in 1..m + k |-> t[Nth(KT, n)]]
  BY <1>6, <1>11
<1> HIDE DEF mr, mt
<1>18. both \in Seq(Names) /\ Len(both) = m + k
       /\ \A n \in 1..m + k : both[n] = IF n <= m THEN mr[n] ELSE names[n - m]
  BY <1>16, ConcatProperties DEF k
<1> HIDE DEF both
<1>19. ASSUME NEW n \in 1..m + k PROVE t[Nth(KT, n)] = both[n] /\ both[n] \in Names
  <2>1. CASE n <= m
    <3>1. n \in 1..m
      BY <1>15, <2>1
    <3> QED
      BY <1>12, <1>14, <1>16, <1>18, <2>1, <3>1
  <2>2. CASE ~(n <= m)
    <3>1. n - m \in 1..k /\ m + (n - m) = n
      BY <1>7, <1>15, <2>2
    <3>2. t[Nth(KT, m + (n - m))] = names[n - m]
      BY <1>13, <3>1
    <3>3. names[n - m] \in Names
      BY <3>1, ElementOfSeq DEF k
    <3> QED
      BY <1>18, <2>2, <3>1, <3>2, <3>3
  <2> QED
    BY <2>1, <2>2
<1> DEFINE l == m + k
<1>20. l \in Nat /\ mt = [n \in 1..l |-> t[Nth(KT, n)]] /\ Len(both) = l
       /\ \A n \in 1..l : t[Nth(KT, n)] = both[n] /\ both[n] \in Names
  BY <1>7, <1>15, <1>17, <1>18, <1>19
<1> HIDE DEF l
<1>21. mt \in Seq(Names) /\ Len(mt) = l /\ \A n \in 1..l : mt[n] = both[n]
  BY <1>20
<1>22. mt = both
  BY <1>18, <1>20, <1>21, SeqEqual
<1> QED
  BY <1>22 DEF mt, both, mr, t

\* What a string means is a path, and the names it is made of are its own.
LEMMA MeantIsPath ==
  ASSUME NEW S, NEW raw \in Seq(S)
  PROVE  Meant(raw) \in Seq(Names)
<1> DEFINE K == Kept(raw)
           m == Cardinality(K)
<1>1. Len(raw) \in Nat /\ K \in SUBSET (1..Len(raw))
  BY LenProperties DEF Kept
<1>2. Meant(raw) = [n \in 1..m |-> raw[Nth(K, n)]]
  BY MeantByRank
<1> HIDE DEF K
<1>3. m \in Nat
  BY <1>1, RankIsNat, FS_CardinalityType
<1>4. ASSUME NEW n \in 1..m PROVE raw[Nth(K, n)] \in Names
  <2>1. Nth(K, n) \in K
    BY <1>1, NthHasRank
  <2> QED
    BY <2>1 DEF K, Kept
<1> HIDE DEF m
<1> QED
  BY <1>2, <1>3, <1>4

\* Names alone mean themselves.
LEMMA MeantOfNames ==
  ASSUME NEW names \in Seq(Names)
  PROVE  Meant(names) = names /\ IsPath(names)
<1> DEFINE root == <<>>
<1>1. root \in Seq(Names) /\ Len(root) = 0
  BY EmptySeq
<1>2. root \o names = names
  BY ConcatEmptySeq
<1>3. Meant(root) = root
  <2>1. Meant(root) \in Seq(Names)
    BY <1>1, MeantIsPath
  <2>2. Kept(root) = {}
    BY <1>1 DEF Kept
  <2>3. Meant(root) = [n \in 1..Cardinality(Kept(root)) |-> root[Nth(Kept(root), n)]]
    BY <1>1, MeantByRank
  <2>4. Cardinality(Kept(root)) = 0
    BY <2>2, FS_EmptySet
  <2> DEFINE mr == Meant(root)
  <2> HIDE DEF mr, root
  <2>5. Len(mr) = 0
    BY <2>1, <2>3, <2>4 DEF mr
  <2>6. mr = root
    BY <1>1, <2>1, <2>5, SeqEqual DEF mr
  <2> QED
    BY <2>6 DEF mr
<1> HIDE DEF root
<1>4. Meant(root \o names) = Meant(root) \o names
  BY <1>1, MeantOfAppended
<1>5. \A i \in 1..Len(names) : names[i] \in Names /\ names[i] # ".."
  <2>1. \A i \in 1..Len(names) : names[i] \in Names
    BY ElementOfSeq
  <2> QED
    BY <2>1, SegmentsAssumption DEF Dotted
<1>6. names # <<"">>
  <2> DEFINE nothing == ""
  <2>1. nothing \notin Names
    BY SegmentsAssumption DEF Dotted
  <2> HIDE DEF nothing
  <2>2. Len(names) = 1 => names[1] \in Names
    BY <1>5
  <2>3. names # <<nothing>>
    BY <2>1, <2>2
  <2> QED
    BY <2>3 DEF nothing
<1>7. ASSUME NEW j \in 1..Len(names) PROVE Count(names, 1, j, {".."}) <= Count(names, 1, j, Names)
  <2>1. Len(names) \in Nat
    BY LenProperties
  <2>2. {i \in 1..j : names[i] \in {".."}} = {}
    <3>1. ASSUME NEW i \in 1..j PROVE names[i] \notin {".."}
      <4>1. i \in 1..Len(names)
        BY <2>1
      <4> QED
        BY <1>5, <4>1
    <3> QED
      BY <3>1
  <2>3. Count(names, 1, j, {".."}) = 0
    BY <2>2, FS_EmptySet DEF Count
  <2>4. Count(names, 1, j, Names) \in Nat
    <3>1. 1 \in Int /\ j \in Int /\ j <= j
      BY <2>1
    <3> QED
      BY <3>1, CountIsNat
  <2> QED
    BY <2>3, <2>4
<1>8. IsPath(names)
  BY <1>5, <1>6, <1>7 DEF IsPath
<1> QED
  BY <1>2, <1>3, <1>4, <1>8

\* When a string is a path, so are the ends of it that have only names.
LEMMA PathOfNames ==
  ASSUME NEW S, NEW raw \in Seq(S), NEW ending \in Seq(Names \cup InvalidNames),
         IsPath(raw \o ending)
  PROVE  ending \in Seq(Names) /\ Meant(raw \o ending) = Meant(raw) \o ending
<1> DEFINE t == raw \o ending
           T == S \cup Names \cup InvalidNames
<1>1. raw \in Seq(T) /\ ending \in Seq(T)
  BY SeqMonotonic
<1>2. Len(raw) \in Nat /\ Len(ending) \in Nat
  BY LenProperties
<1>3. Len(t) = Len(raw) + Len(ending)
      /\ \A i \in 1..Len(raw) + Len(ending) : t[i] = IF i <= Len(raw) THEN raw[i] ELSE ending[i - Len(raw)]
  BY <1>1, ConcatProperties
<1>4. \A i \in 1..Len(t) : t[i] \in Names \cup Dotted
  BY DEF IsPath
<1> HIDE DEF t, T
<1>5. ASSUME NEW n \in 1..Len(ending) PROVE ending[n] \in Names
  <2> DEFINE i == Len(raw) + n
  <2>1. i \in 1..Len(raw) + Len(ending) /\ ~(i <= Len(raw)) /\ i - Len(raw) = n
    BY <1>2
  <2>2. ending[n] \in Names \cup InvalidNames
    BY ElementOfSeq
  <2> HIDE DEF i
  <2>3. ending[n] \in Names \cup Dotted
    BY <1>3, <1>4, <2>1
  <2> QED
    BY <2>2, <2>3, SegmentsAssumption
<1>6. ending \in Seq(Names)
  BY <1>2, <1>5, LenProperties
<1> QED
  BY <1>6, MeantOfAppended

(***************************************************************************)
(* What the operations leave.                                              *)
(***************************************************************************)

\* An archive seen by path: directories above everything.
StoreOK(s) ==
  /\ DOMAIN s \subseteq Seq(Names) \ {<<>>}
  /\ \A q \in DOMAIN s : \A r \in Above(q) : r \in DOMAIN s /\ s[r] = "directory"

\* From s to t, what was added is p, whole or in part, and directories above it.
Adds(s, t, p, what) ==
  /\ DOMAIN s \subseteq DOMAIN t
  /\ \A q \in DOMAIN t : \/ q \in DOMAIN s /\ t[q] = s[q]
                         \/ q = p /\ t[q] \in {what, Damaged}
                         \/ q \in Above(p) \ DOMAIN s /\ t[q] = "directory"

\* From s to t, what was removed is p or below it.
Removes(s, t, p) ==
  /\ DOMAIN t \subseteq DOMAIN s
  /\ \A q \in DOMAIN t : t[q] = s[q]
  /\ \A q \in DOMAIN s \ DOMAIN t : IsPrefix(p, q)

AddCalls == DirCalls \cup WriteCalls

AddedBy(op, content) == IF op \in DirCalls THEN "directory" ELSE content

\* A place something may be added to.
Free(s, p) ==
  /\ p \in Seq(Names) \ {<<>>}
  /\ \A q \in Above(p) \cap DOMAIN s : s[q] = "directory"

\* What is added has directories above it, and stays one if it was one.
AddedWell(s, t, p) ==
  /\ p \in DOMAIN s /\ s[p] = "directory" => t[p] = "directory"
  /\ \A q \in DOMAIN t \ DOMAIN s : Above(q) \subseteq DOMAIN t

\* A possible call has such a place, and replaces no directory.
LEMMA PossibleIsFree ==
  ASSUME NEW S, NEW raw \in Seq(S), NEW op \in AddCalls, NEW s, Possible(op, raw, s)
  PROVE  /\ Free(s, Meant(raw))
         /\ Meant(raw) \in DOMAIN s /\ s[Meant(raw)] = "directory" => op = "get_or_create_dir_at"
         /\ op = "create_dir_at" => Meant(raw) \notin DOMAIN s
         /\ IsPath(raw)
<1> DEFINE p == Meant(raw)
<1>1. p \in Seq(Names)
  BY MeantIsPath
<1> HIDE DEF p
<1>2. /\ IsPath(raw) /\ p # <<>>
      /\ \A q \in Above(p) \cap DOMAIN s : s[q] = "directory"
  BY DEF Possible, p
<1>3. /\ op \in {"create_dir_at", "create_file_at"} => p \notin DOMAIN s
      /\ op = "write_file_at" => ~(p \in DOMAIN s /\ s[p] = "directory")
      /\ op = "update_file_at" => ~(p \in DOMAIN s /\ s[p] = "directory")
  BY DEF Possible, p
<1>4. op \in {"create_dir_at", "get_or_create_dir_at", "write_file_at", "create_file_at", "update_file_at"}
  BY DEF AddCalls, DirCalls, WriteCalls
<1>5. p \in DOMAIN s /\ s[p] = "directory" => op = "get_or_create_dir_at"
  BY <1>3, <1>4
<1> QED
  BY <1>1, <1>2, <1>3, <1>5 DEF Free, p

\* Adding keeps directories above everything.
LEMMA AddingKeepsStore ==
  ASSUME NEW s, NEW t, NEW p, NEW what, StoreOK(s), Free(s, p), Adds(s, t, p, what), AddedWell(s, t, p)
  PROVE  StoreOK(t)
<1>1. p \in Seq(Names) \ {<<>>}
  BY DEF Free
<1>2. ASSUME NEW q \in DOMAIN t PROVE q \in Seq(Names) \ {<<>>}
  <2>1. q \in DOMAIN s \/ q = p \/ q \in Above(p)
    BY DEF Adds
  <2>2. q \in Above(p) => q \in Seq(Names) /\ q # <<>>
    BY <1>1, AboveArePrefixes
  <2> QED
    BY <1>1, <2>1, <2>2 DEF StoreOK
<1>3. ASSUME NEW q \in DOMAIN t, NEW r \in Above(q) PROVE r \in DOMAIN t /\ t[r] = "directory"
  <2>1. CASE q \in DOMAIN s
    <3>1. r \in DOMAIN s /\ s[r] = "directory"
      BY <2>1 DEF StoreOK
    <3>2. r \in DOMAIN t
      BY <3>1 DEF Adds
    <3>3. r = p => t[r] = "directory"
      BY <3>1 DEF AddedWell
    <3>4. r # p => t[r] = s[r] \/ t[r] = "directory"
      BY <3>2 DEF Adds
    <3> QED
      BY <3>1, <3>2, <3>3, <3>4
  <2>2. CASE q \notin DOMAIN s
    <3>1. r \in DOMAIN t
      BY <2>2 DEF AddedWell
    <3>2. q = p \/ q \in Above(p)
      BY <2>2 DEF Adds
    <3>3. r \in Above(p) /\ r # p
      <4>1. CASE q = p
        BY <1>1, <4>1, AboveAbove
      <4>2. CASE q \in Above(p)
        <5>1. p \notin Above(q) /\ Above(q) \subseteq Above(p)
          BY <1>1, <4>2, AboveAbove
        <5> QED
          BY <5>1
      <4> QED
        BY <3>2, <4>1, <4>2
    <3>4. (r \in DOMAIN s /\ t[r] = s[r]) \/ t[r] = "directory"
      BY <3>1, <3>3 DEF Adds
    <3>5. r \in DOMAIN s => s[r] = "directory"
      BY <3>3 DEF Free
    <3> QED
      BY <3>1, <3>4, <3>5
  <2> QED
    BY <2>1, <2>2
<1> QED
  BY <1>2, <1>3 DEF StoreOK

(***************************************************************************)
(* A call that adds adds its path, with what it is to hold, and the        *)
(* directories above it that were missing; nothing else changes.           *)
(***************************************************************************)
THEOREM AddCallsAdd ==
  ASSUME NEW S, NEW raw \in Seq(S), NEW op \in AddCalls, NEW content, NEW s, StoreOK(s),
         Possible(op, raw, s)
  PROVE  LET p == Meant(raw)
             t == After(op, p, content, s)
         IN /\ StoreOK(t) /\ Adds(s, t, p, AddedBy(op, content))
            /\ p \in DOMAIN t /\ t[p] = AddedBy(op, content)
<1> DEFINE p == Meant(raw)
           t == After(op, p, content, s)
           what == AddedBy(op, content)
<1>1. /\ Free(s, p)
      /\ p \in DOMAIN s /\ s[p] = "directory" => op = "get_or_create_dir_at"
  BY PossibleIsFree
<1>2. op \notin RemoveCalls
  BY DEF AddCalls, DirCalls, WriteCalls, RemoveCalls
<1> HIDE DEF p
<1>3. p \in Seq(Names)
  BY <1>1 DEF Free
<1>4. p \notin Above(p)
  BY <1>3, AboveAbove
<1>5. t = [q \in {p} \cup Above(p) \cup DOMAIN s |->
             CASE q = p           -> what
               [] q \in Above(p)  -> "directory"
               [] OTHER           -> s[q]]
  BY <1>2 DEF After, AddedBy
<1> HIDE DEF t
<1>6. /\ DOMAIN t = {p} \cup Above(p) \cup DOMAIN s
      /\ t[p] = what
      /\ \A q \in Above(p) : t[q] = "directory"
      /\ \A q \in DOMAIN s : q # p /\ q \notin Above(p) => t[q] = s[q]
  BY <1>4, <1>5
<1> HIDE DEF what
<1>7. \A q \in Above(p) \cap DOMAIN s : t[q] = s[q]
  BY <1>1, <1>6 DEF Free
<1>8. Adds(s, t, p, what)
  BY <1>6, <1>7 DEF Adds
<1>9. AddedWell(s, t, p)
  <2>1. op = "get_or_create_dir_at" => what = "directory"
    BY DEF what, AddedBy, DirCalls
  <2>2. ASSUME NEW q \in DOMAIN t \ DOMAIN s PROVE Above(q) \subseteq DOMAIN t
    <3>1. q = p \/ q \in Above(p)
      BY <1>6
    <3>2. q \in Above(p) => Above(q) \subseteq Above(p)
      BY <1>3, AboveAbove
    <3> QED
      BY <1>6, <3>1, <3>2
  <2> QED
    BY <1>1, <1>6, <2>1, <2>2 DEF AddedWell
<1>10. StoreOK(t)
  BY <1>1, <1>8, <1>9, AddingKeepsStore
<1> QED
  BY <1>6, <1>8, <1>10 DEF p, t, what

\* The way to a path, or up to it, and the directories made on it.
Way(op, p) == IF op = "get_or_create_dir_at" THEN p ELSE Front(p)

Made(walk, n) == {SubSeq(walk, 1, i) : i \in 1..n}

LEMMA MadeOnTheWay ==
  ASSUME NEW p \in Seq(Names) \ {<<>>}, NEW op,
         NEW n \in 0..Len(Way(op, p)), NEW q \in Made(Way(op, p), n)
  PROVE  /\ q \in Above(p) \/ (op = "get_or_create_dir_at" /\ q = p)
         /\ Above(q) \subseteq Made(Way(op, p), n)
<1> DEFINE walk  == Way(op, p)
           l     == Len(walk)
           whole == op = "get_or_create_dir_at"
<1>1. Len(p) \in Nat /\ Len(p) # 0
  BY EmptySeq
<1>2. walk \in Seq(Names) /\ IsPrefix(walk, p) /\ (walk = p => whole)
  <2>1. CASE whole
    <3>1. walk = p
      BY <2>1 DEF Way
    <3> HIDE DEF walk
    <3> QED
      BY <2>1, <3>1, PrefixOrder
  <2>2. CASE ~whole
    <3> DEFINE k == Len(p) - 1
    <3>1. k \in Nat /\ k <= Len(p) /\ k # Len(p)
      BY <1>1
    <3>2. walk = SubSeq(p, 1, k)
      BY <2>2 DEF Way, Front
    <3> HIDE DEF k, walk
    <3>3. walk \in Seq(Names) /\ Len(walk) = k /\ \A i \in 1..k : walk[i] = p[i]
      BY <3>1, <3>2, Starts
    <3>4. IsPrefix(walk, p)
      BY <3>1, <3>3, PrefixBySegments
    <3> QED
      BY <3>1, <3>3, <3>4
  <2> QED
    BY <2>1, <2>2
<1>0. n \in 0..l
  OBVIOUS
<1> HIDE DEF walk
<1>3. l \in Nat /\ n \in Nat /\ n <= l
  <2>1. l \in Nat
    BY <1>2, LenProperties
  <2> HIDE DEF l
  <2> QED
    BY <1>0, <2>1
<1>4. PICK i \in 1..n : q = SubSeq(walk, 1, i)
  BY DEF walk, Made
<1>5. i \in Nat /\ i >= 1 /\ i <= l
  BY <1>3
<1>6. q \in Seq(Names) /\ Len(q) = i /\ \A j \in 1..i : q[j] = walk[j]
  BY <1>2, <1>4, <1>5, Starts
<1>7. IsPrefix(q, walk)
  BY <1>2, <1>5, <1>6, PrefixBySegments
<1>8. q # <<>> /\ IsPrefix(q, p)
  BY <1>2, <1>5, <1>6, <1>7, PrefixOrder, EmptySeq
<1>9. q \in Above(p) \/ (whole /\ q = p)
  <2>1. q = p => walk = p
    BY <1>2, <1>7, PrefixOrder
  <2> QED
    BY <1>2, <1>6, <1>8, <2>1, AboveArePrefixes DEF IsStrictPrefix
<1>10. ASSUME NEW r \in Above(q) PROVE \E j \in 1..n : r = SubSeq(walk, 1, j)
  <2>1. PICK j \in 1..Len(q) - 1 : r = SubSeq(q, 1, j)
    BY DEF Above
  <2>2. j \in Nat /\ j <= Len(q) /\ j <= l /\ j \in 1..n
    BY <1>3, <1>5, <1>6
  <2>3. r \in Seq(Names) /\ Len(r) = j /\ \A m \in 1..j : r[m] = q[m]
    BY <1>6, <2>1, <2>2, Starts
  <2> DEFINE u == SubSeq(walk, 1, j)
  <2>4. u \in Seq(Names) /\ Len(u) = j /\ \A m \in 1..j : u[m] = walk[m]
    BY <1>2, <2>2, Starts
  <2> HIDE DEF u
  <2>5. \A m \in 1..j : r[m] = u[m]
    BY <1>6, <2>2, <2>3, <2>4
  <2>6. r = u
    BY <2>3, <2>4, <2>5, SeqEqual
  <2> QED
    BY <2>2, <2>6 DEF u
<1> QED
  BY <1>9, <1>10 DEF walk, Made

(***************************************************************************)
(* A call that adds and is cut off has added some directories above its    *)
(* path, or it was replacing a file, which is then damaged; nothing else   *)
(* has changed.                                                            *)
(***************************************************************************)
THEOREM CutOffAddCallsAdd ==
  ASSUME NEW S, NEW raw \in Seq(S), NEW op \in AddCalls, NEW content, NEW s, StoreOK(s),
         NEW t \in CutShort(op, raw, s)
  PROVE  /\ StoreOK(t)
         /\ t = s \/ (Possible(op, raw, s) /\ Adds(s, t, Meant(raw), AddedBy(op, content)))
<1> DEFINE p     == Meant(raw)
           whole == op = "get_or_create_dir_at"
           walk  == Way(op, p)
           made(n) == Made(walk, n)
           what  == AddedBy(op, content)
<1> SUFFICES ASSUME t # s
             PROVE  StoreOK(t) /\ Possible(op, raw, s) /\ Adds(s, t, p, what)
  OBVIOUS
<1>1. Possible(op, raw, s)
  <2>1. ~Possible(op, raw, s) => CutShort(op, raw, s) = {s}
    BY DEF CutShort
  <2> QED
    BY <2>1
<1>2. /\ Free(s, p)
      /\ p \in DOMAIN s /\ s[p] = "directory" => whole
  BY <1>1, PossibleIsFree
<1>3. op \notin RemoveCalls
  BY DEF AddCalls, DirCalls, WriteCalls, RemoveCalls
<1>4. whole => what = "directory" /\ op \notin WriteCalls
  BY DEF AddedBy, DirCalls, WriteCalls
<1>5. CASE op \in WriteCalls /\ p \in DOMAIN s
  <2>1. CutShort(op, raw, s) = {s, [s EXCEPT ![p] = Damaged]}
    BY <1>1, <1>3, <1>5 DEF CutShort
  <2>2. t = [s EXCEPT ![p] = Damaged]
    BY <2>1
  <2> HIDE DEF p
  <2>3. DOMAIN t = DOMAIN s /\ t[p] = Damaged /\ \A q \in DOMAIN s : q # p => t[q] = s[q]
    BY <1>5, <2>2
  <2>4. Adds(s, t, p, what)
    BY <2>3 DEF Adds
  <2>5. AddedWell(s, t, p)
    BY <1>2, <1>4, <1>5, <2>3 DEF AddedWell
  <2>6. StoreOK(t)
    BY <1>2, <2>4, <2>5, AddingKeepsStore
  <2> QED
    BY <1>1, <2>4, <2>6
<1>6. CASE ~(op \in WriteCalls /\ p \in DOMAIN s)
  <2>1. CutShort(op, raw, s) =
          {[q \in DOMAIN s \cup made(n) |-> IF q \in DOMAIN s THEN s[q] ELSE "directory"] : n \in 0..Len(walk)}
    BY <1>1, <1>3, <1>6 DEF CutShort, Way, Made
  <2>2. PICK n \in 0..Len(walk) :
          t = [q \in DOMAIN s \cup made(n) |-> IF q \in DOMAIN s THEN s[q] ELSE "directory"]
    BY <2>1
  <2>3. p \in Seq(Names) \ {<<>>}
    BY <1>2 DEF Free
  <2>4. ASSUME NEW q \in made(n)
        PROVE  (q \in Above(p) \/ (whole /\ q = p)) /\ Above(q) \subseteq made(n)
    BY <2>3, MadeOnTheWay
  <2> DEFINE new == made(n)
  <2>5. /\ DOMAIN t = DOMAIN s \cup new
        /\ \A q \in DOMAIN s : t[q] = s[q]
        /\ \A q \in new \ DOMAIN s : t[q] = "directory"
    BY <2>2
  <2> HIDE DEF new, p, whole, what
  <2>6. \A q \in new : (q \in Above(p) \/ (whole /\ q = p)) /\ Above(q) \subseteq new
    BY <2>4 DEF new
  <2>7. Adds(s, t, p, what)
    BY <1>4, <2>5, <2>6 DEF Adds
  <2>8. AddedWell(s, t, p)
    BY <2>5, <2>6 DEF AddedWell
  <2>9. StoreOK(t)
    BY <1>2, <2>7, <2>8, AddingKeepsStore
  <2> QED
    BY <1>1, <2>7, <2>9
<1> QED
  BY <1>5, <1>6

\* Removing keeps directories above everything, if what is below goes first.
LEMMA RemovingKeepsStore ==
  ASSUME NEW s, NEW t, NEW p, StoreOK(s), Removes(s, t, p),
         \A q \in DOMAIN t : Above(q) \subseteq DOMAIN t
  PROVE  StoreOK(t)
<1>1. \A q \in DOMAIN t : q \in DOMAIN s /\ t[q] = s[q]
  BY DEF Removes
<1>2. ASSUME NEW q \in DOMAIN t, NEW r \in Above(q) PROVE r \in DOMAIN t /\ t[r] = "directory"
  <2>1. r \in DOMAIN t /\ s[r] = "directory"
    BY <1>1 DEF StoreOK
  <2> QED
    BY <1>1, <2>1
<1> QED
  BY <1>1, <1>2 DEF StoreOK

(***************************************************************************)
(* A call that removes removes its path and all that is below it, nothing  *)
(* else.                                                                   *)
(***************************************************************************)
THEOREM RemoveCallsRemove ==
  ASSUME NEW op \in RemoveCalls, NEW content, NEW s, StoreOK(s), NEW p \in Seq(Names)
  PROVE  LET t == After(op, p, content, s)
         IN StoreOK(t) /\ Removes(s, t, p) /\ \A q \in DOMAIN t : ~IsPrefix(p, q)
<1> DEFINE t == After(op, p, content, s)
<1>1. t = [q \in {q \in DOMAIN s : ~IsPrefix(p, q)} |-> s[q]]
  BY DEF After
<1> HIDE DEF t
<1>2. DOMAIN t = {q \in DOMAIN s : ~IsPrefix(p, q)} /\ \A q \in DOMAIN t : t[q] = s[q]
  BY <1>1
<1>3. Removes(s, t, p)
  BY <1>2 DEF Removes
<1>4. ASSUME NEW q \in DOMAIN t, NEW r \in Above(q) PROVE r \in DOMAIN t
  <2>1. q \in DOMAIN s /\ ~IsPrefix(p, q)
    BY <1>2
  <2>2. r \in DOMAIN s /\ q \in Seq(Names)
    BY <2>1 DEF StoreOK
  <2>3. r \in Seq(Names) /\ IsPrefix(r, q)
    BY <2>2, AboveArePrefixes DEF IsStrictPrefix
  <2>4. ~IsPrefix(p, r)
    BY <2>1, <2>2, <2>3, PrefixOrder
  <2> QED
    BY <1>2, <2>2, <2>4
<1>5. StoreOK(t)
  BY <1>3, <1>4, RemovingKeepsStore
<1> QED
  BY <1>2, <1>3, <1>5 DEF t

(***************************************************************************)
(* Cut off, it has removed some of what was below.                         *)
(***************************************************************************)
THEOREM CutOffRemoveCallsRemove ==
  ASSUME NEW op \in RemoveCalls, NEW s, StoreOK(s), NEW S, NEW raw \in Seq(S), NEW t \in CutShort(op, raw, s)
  PROVE  StoreOK(t) /\ Removes(s, t, Meant(raw))
<1> DEFINE p     == Meant(raw)
           below == {q \in DOMAIN s : IsStrictPrefix(p, q)}
           parts == {gone \in SUBSET below : \A q \in gone, x \in below : IsPrefix(q, x) => x \in gone}
<1>1. CASE t = s
  BY <1>1 DEF Removes
<1>2. CASE t # s
  <2>1. ~Possible(op, raw, s) => CutShort(op, raw, s) = {s}
    BY DEF CutShort
  <2>2. CutShort(op, raw, s) = {[q \in DOMAIN s \ gone |-> s[q]] : gone \in parts}
    <3>1. op \notin WriteCalls
      BY DEF RemoveCalls, WriteCalls
    <3> QED
      BY <1>2, <2>1, <3>1 DEF CutShort
  <2>3. PICK gone \in parts : t = [q \in DOMAIN s \ gone |-> s[q]]
    BY <2>2
  <2>4. p \in Seq(Names)
    BY MeantIsPath
  <2> HIDE DEF p
  <2>5. /\ \A q \in gone : q \in DOMAIN s /\ IsStrictPrefix(p, q)
        /\ \A q \in gone, x \in DOMAIN s : IsStrictPrefix(p, x) /\ IsPrefix(q, x) => x \in gone
    BY DEF parts, below
  <2> HIDE DEF parts
  <2>6. DOMAIN t = DOMAIN s \ gone /\ \A q \in DOMAIN t : t[q] = s[q]
    BY <2>3
  <2>7. Removes(s, t, p)
    BY <2>5, <2>6 DEF Removes, IsStrictPrefix
  <2>8. ASSUME NEW q \in DOMAIN t, NEW r \in Above(q) PROVE r \in DOMAIN t
    <3>1. q \in DOMAIN s /\ q \notin gone /\ r \in DOMAIN s /\ q \in Seq(Names) /\ r \in Seq(Names)
      BY <2>6 DEF StoreOK
    <3>2. IsPrefix(r, q) /\ r # q
      BY <3>1, AboveArePrefixes DEF IsStrictPrefix
    <3>3. SUFFICES ASSUME r \in gone PROVE FALSE
      BY <2>6, <3>1
    <3>4. IsPrefix(p, r) /\ p # r
      BY <2>5, <3>3 DEF IsStrictPrefix
    <3>5. IsPrefix(p, q) /\ p # q
      BY <2>4, <3>1, <3>2, <3>4, PrefixOrder
    <3> QED
      BY <2>5, <3>1, <3>2, <3>3, <3>5 DEF IsStrictPrefix
  <2>9. StoreOK(t)
    BY <2>7, <2>8, RemovingKeepsStore
  <2> QED
    BY <2>7, <2>9 DEF p
<1> QED
  BY <1>1, <1>2

\* What is at a path can be removed.
LEMMA PresentCanBeRemoved ==
  ASSUME NEW s, StoreOK(s), NEW p \in DOMAIN s
  PROVE  p \in Seq(Names) /\ Meant(p) = p
BY MeantOfNames DEF StoreOK

(***************************************************************************)
(* Another name in a path: what is below moves with it.                    *)
(***************************************************************************)
Moved(p, name, q) ==
  IF IsPrefix(p, q) THEN Front(p) \o <<name>> \o SubSeq(q, Len(p) + 1, Len(q)) ELSE q

\* It is the same path but for that name.
LEMMA MovedPath ==
  ASSUME NEW S, NEW p \in Seq(S), p # <<>>, NEW name \in S, NEW q \in Seq(S), IsPrefix(p, q)
  PROVE  /\ Moved(p, name, q) \in Seq(S) /\ Len(Moved(p, name, q)) = Len(q)
         /\ \A i \in 1..Len(q) : Moved(p, name, q)[i] = IF i = Len(p) THEN name ELSE q[i]
<1> DEFINE front == Front(p)
           one   == <<name>>
           rest  == SubSeq(q, Len(p) + 1, Len(q))
           first == front \o one
           whole == first \o rest
           k == Len(p)
           l == Len(q)
<1>1. /\ front \in Seq(S) /\ Len(front) = k - 1 /\ p = Append(front, Last(p)) /\ Last(p) \in S
      /\ k \in Nat /\ l \in Nat /\ k # 0
  BY LastAppended, LenProperties, EmptySeq
<1>2. k <= l /\ \A i \in 1..k : p[i] = q[i]
  BY PrefixBySegments
<1>3. one \in Seq(S) /\ Len(one) = 1 /\ one[1] = name
  OBVIOUS
<1>4. \A i \in k + 1..l : q[i] \in S
  <2> TAKE i \in k + 1..l
  <2>1. i \in 1..l
    BY <1>1
  <2> QED
    BY <2>1, ElementOfSeq
<1>5. /\ rest \in Seq(S) /\ Len(rest) = l - k
      /\ \A i \in 1..l - k : rest[i] = q[k + i]
  <2>1. k + 1 \in Int /\ l \in Int
    BY <1>1
  <2>2. /\ rest \in Seq(S)
        /\ Len(rest) = IF k + 1 <= l THEN l - (k + 1) + 1 ELSE 0
        /\ \A i \in 1..l - (k + 1) + 1 : rest[i] = q[k + 1 + i - 1]
    BY <1>4, <2>1, SubSeqProperties
  <2> HIDE DEF rest, k, l
  <2>3. l - (k + 1) + 1 = l - k /\ \A i \in Int : k + 1 + i - 1 = k + i
    BY <1>1
  <2>4. Len(rest) = l - k
    BY <1>1, <1>2, <2>2
  <2>5. ASSUME NEW i \in 1..l - k PROVE rest[i] = q[k + i]
    <3>1. i \in 1..l - (k + 1) + 1 /\ k + 1 + i - 1 = k + i
      BY <2>3
    <3> QED
      BY <2>2, <3>1
  <2> QED
    BY <2>2, <2>4, <2>5
<1>6. \A i \in 1..k - 1 : front[i] = p[i]
  <2> TAKE i \in 1..k - 1
  <2>1. \A j \in 1..Len(front) : Append(front, Last(p))[j] = front[j]
    BY <1>1, AppendProperties
  <2> QED
    BY <1>1, <2>1
<1>7. /\ first \in Seq(S) /\ Len(first) = k
      /\ \A i \in 1..k : first[i] = IF i <= k - 1 THEN front[i] ELSE one[i - (k - 1)]
  <2>1. /\ first \in Seq(S) /\ Len(first) = Len(front) + Len(one)
        /\ \A i \in 1..Len(front) + Len(one) : first[i] = IF i <= Len(front) THEN front[i] ELSE one[i - Len(front)]
    BY <1>1, <1>3, ConcatProperties
  <2>2. Len(front) + Len(one) = k
    BY <1>1, <1>3
  <2> QED
    BY <1>1, <2>1, <2>2
<1>8. /\ whole \in Seq(S) /\ Len(whole) = l
      /\ \A i \in 1..l : whole[i] = IF i <= k THEN first[i] ELSE rest[i - k]
  <2>1. /\ whole \in Seq(S) /\ Len(whole) = Len(first) + Len(rest)
        /\ \A i \in 1..Len(first) + Len(rest) : whole[i] = IF i <= Len(first) THEN first[i] ELSE rest[i - Len(first)]
    BY <1>5, <1>7, ConcatProperties
  <2> HIDE DEF rest, first, whole, k, l
  <2>2. Len(first) + Len(rest) = l
    BY <1>1, <1>2, <1>5, <1>7
  <2> QED
    BY <1>7, <2>1, <2>2
<1>9. Moved(p, name, q) = whole
  BY DEF Moved
<1> HIDE DEF front, one, rest, first, whole, k, l
<1>10. \A i \in 1..l : whole[i] = IF i = k THEN name ELSE q[i]
  <2> TAKE i \in 1..l
  <2>1. CASE i = k
    <3>1. i <= k /\ i \in 1..k /\ ~(i <= k - 1) /\ i - (k - 1) = 1
      BY <1>1, <2>1
    <3> QED
      BY <1>3, <1>7, <1>8, <2>1, <3>1
  <2>2. CASE i < k
    <3>1. i <= k /\ i \in 1..k /\ i <= k - 1 /\ i \in 1..k - 1 /\ i # k
      BY <1>1, <2>2
    <3>2. whole[i] = first[i] /\ first[i] = front[i]
      BY <1>7, <1>8, <3>1
    <3>3. front[i] = p[i] /\ p[i] = q[i]
      BY <1>2, <1>6, <3>1
    <3> QED
      BY <3>1, <3>2, <3>3
  <2>3. CASE i > k
    <3>1. ~(i <= k) /\ i - k \in 1..l - k /\ k + (i - k) = i
      BY <1>1, <2>3
    <3> QED
      BY <1>5, <1>8, <2>3, <3>1
  <2> QED
    BY <1>1, <2>1, <2>2, <2>3
<1> QED
  BY <1>8, <1>9, <1>10 DEF k, l

\* It moves, and a path in it does so name by name.
LEMMA MovedSteps ==
  ASSUME NEW S, NEW p \in Seq(S), p # <<>>, NEW name \in S
  PROVE  /\ \A q \in Seq(S) : Moved(p, name, q) \in Seq(S)
         /\ Moved(p, name, p) = Append(Front(p), name)
<1>1. ASSUME NEW q \in Seq(S) PROVE Moved(p, name, q) \in Seq(S)
  <2>1. ~IsPrefix(p, q) => Moved(p, name, q) = q
    BY DEF Moved
  <2>2. IsPrefix(p, q) => Moved(p, name, q) \in Seq(S)
    BY MovedPath
  <2> QED
    BY <2>1, <2>2
<1>2. Moved(p, name, p) = Append(Front(p), name)
  <2> DEFINE m == Moved(p, name, p)
             a == Append(Front(p), name)
             f == Front(p)
  <2>0. IsPrefix(p, p) /\ Len(p) \in Nat
    BY PrefixOrder, LenProperties
  <2>1. m \in Seq(S) /\ Len(m) = Len(p) /\ \A i \in 1..Len(p) : m[i] = IF i = Len(p) THEN name ELSE p[i]
    BY <2>0, MovedPath
  <2>2. f \in Seq(S) /\ Len(f) = Len(p) - 1 /\ p = Append(f, Last(p)) /\ Last(p) \in S
    BY LastAppended
  <2>3. a \in Seq(S) /\ Len(a) = Len(f) + 1 /\ a[Len(f) + 1] = name /\ \A i \in 1..Len(f) : a[i] = f[i]
    BY <2>2, AppendProperties
  <2>4. \A i \in 1..Len(f) : p[i] = f[i]
    <3>1. \A i \in 1..Len(f) : Append(f, Last(p))[i] = f[i]
      BY <2>2, AppendProperties
    <3> QED
      BY <2>2, <3>1
  <2> HIDE DEF m, a, f
  <2>5. \A i \in 1..Len(p) : m[i] = a[i]
    BY <2>0, <2>1, <2>2, <2>3, <2>4
  <2>6. Len(m) = Len(a)
    BY <2>0, <2>1, <2>2, <2>3
  <2>7. m = a
    BY <2>1, <2>3, <2>5, <2>6, SeqEqual
  <2> QED
    BY <2>7 DEF m, a
<1> QED
  BY <1>1, <1>2

LEMMA MovedNext ==
  ASSUME NEW S, NEW p \in Seq(S), p # <<>>, NEW name \in S, NEW q \in Seq(S), NEW e \in S, Append(q, e) # p
  PROVE  Moved(p, name, Append(q, e)) = Append(Moved(p, name, q), e)
<1> DEFINE r == Append(q, e)
<1>1. /\ r \in Seq(S) /\ Len(r) = Len(q) + 1 /\ r[Len(q) + 1] = e /\ Len(q) \in Nat
      /\ \A i \in 1..Len(q) : r[i] = q[i]
  BY AppendProperties, LenProperties
<1>2. IsPrefix(p, r) <=> IsPrefix(p, q)
  BY AppendedPath
<1>3. CASE ~IsPrefix(p, q)
  BY <1>2, <1>3 DEF Moved
<1>4. CASE IsPrefix(p, q)
  <2> DEFINE mq == Moved(p, name, q)
             mr == Moved(p, name, r)
             a  == Append(mq, e)
  <2>1. /\ mq \in Seq(S) /\ Len(mq) = Len(q)
        /\ \A i \in 1..Len(q) : mq[i] = IF i = Len(p) THEN name ELSE q[i]
    BY <1>4, MovedPath
  <2> HIDE DEF r
  <2>0. r \in Seq(S) /\ IsPrefix(p, r)
    BY <1>1, <1>2, <1>4
  <2>2. /\ mr \in Seq(S) /\ Len(mr) = Len(r)
        /\ \A i \in 1..Len(r) : mr[i] = IF i = Len(p) THEN name ELSE r[i]
    BY <2>0, MovedPath
  <2>3. a \in Seq(S) /\ Len(a) = Len(mq) + 1 /\ a[Len(mq) + 1] = e /\ \A i \in 1..Len(mq) : a[i] = mq[i]
    BY <2>1, AppendProperties
  <2>4. Len(p) <= Len(q) /\ Len(p) \in Nat
    BY <1>4, PrefixBySegments, LenProperties
  <2> HIDE DEF mq, mr, a
  <2>5. ASSUME NEW i \in 1..Len(r) PROVE mr[i] = a[i]
    <3>1. CASE i = Len(q) + 1
      <4>1. i # Len(p) /\ i = Len(mq) + 1
        BY <1>1, <2>1, <2>4, <3>1
      <4> QED
        BY <1>1, <2>2, <2>3, <3>1, <4>1
    <3>2. CASE i # Len(q) + 1
      <4>1. i \in 1..Len(q) /\ i \in 1..Len(mq)
        BY <1>1, <2>1, <3>2
      <4>2. a[i] = mq[i] /\ mq[i] = IF i = Len(p) THEN name ELSE q[i]
        BY <2>1, <2>3, <4>1
      <4>3. mr[i] = IF i = Len(p) THEN name ELSE r[i]
        BY <2>2
      <4>4. r[i] = q[i]
        BY <1>1, <4>1
      <4> QED
        BY <4>2, <4>3, <4>4
    <3> QED
      BY <3>1, <3>2
  <2>6. mr = a
    BY <1>1, <2>1, <2>2, <2>3, <2>5, SeqEqual
  <2> QED
    BY <2>6 DEF mr, mq, a, r
<1> QED
  BY <1>3, <1>4

(***************************************************************************)
(* What a string means, one segment after the other.  A name is at a       *)
(* height, how many names there are up to it less how many "..", and is    *)
(* undone when a later segment is lower: so the names left after any       *)
(* number of segments are at the heights 1, 2 and so on, like the elements *)
(* of a stack, and ".." undoes the last of them.                           *)
(***************************************************************************)
Height(raw, n) == Count(raw, 1, n, Names) - Count(raw, 1, n, {".."})

\* The names left after n segments, and the path they make.
Left(raw, n) == {i \in 1..n : raw[i] \in Names /\ \A j \in i + 1..n : Height(raw, j) >= Height(raw, i)}

Means(raw, n) == [k \in 1..Cardinality(Left(raw, n)) |-> raw[Nth(Left(raw, n), k)]]

\* No segment so far is invalid, and none goes above the root.
Sound(raw, n) == \A i \in 1..n : raw[i] \in Names \cup Dotted /\ Height(raw, i) >= 0

LEMMA CountNext ==
  ASSUME NEW raw, NEW n \in Nat, n > 0, NEW segments
  PROVE  /\ Count(raw, 1, 0, segments) = 0
         /\ Count(raw, 1, n, segments) =
              IF raw[n] \in segments THEN Count(raw, 1, n - 1, segments) + 1 ELSE Count(raw, 1, n - 1, segments)
<1> DEFINE K == {i \in 1..n : raw[i] \in segments}
<1>1. K \in SUBSET (1..n) /\ (n \in K <=> raw[n] \in segments)
  OBVIOUS
<1>2. {i \in 1..n : raw[i] \in segments} = K \cap 1..n
  OBVIOUS
<1>3. {i \in 1..n - 1 : raw[i] \in segments} = K \cap 1..n - 1
  OBVIOUS
<1>4. {i \in 1..0 : raw[i] \in segments} = {}
  OBVIOUS
<1>5. Count(raw, 1, n, segments) = Rank(K, n) /\ Count(raw, 1, n - 1, segments) = Rank(K, n - 1)
  BY <1>2, <1>3 DEF Count, Rank
<1> HIDE DEF K
<1>6. Rank(K, n) = IF n \in K THEN Rank(K, n - 1) + 1 ELSE Rank(K, n - 1)
  BY <1>1, RankStep
<1> QED
  BY <1>1, <1>4, <1>5, <1>6, FS_EmptySet DEF Count

\* The count of a part is a difference.
LEMMA CountSplit ==
  ASSUME NEW raw, NEW i \in Nat, NEW j \in Nat, i <= j, NEW segments
  PROVE  /\ Count(raw, i + 1, j, segments) = Count(raw, 1, j, segments) - Count(raw, 1, i, segments)
         /\ Count(raw, 1, j, segments) \in Nat /\ Count(raw, 1, i, segments) \in Nat
<1> DEFINE below == {n \in 1..i : raw[n] \in segments}
           above == {n \in i + 1..j : raw[n] \in segments}
           all   == {n \in 1..j : raw[n] \in segments}
<1>1. all = below \cup above /\ below \cap above = {}
  OBVIOUS
<1>2. IsFiniteSet(1..i) /\ IsFiniteSet(i + 1..j)
  <2>1. i + 1 \in Int /\ 1 \in Int /\ i \in Int /\ j \in Int
    OBVIOUS
  <2> QED
    BY <2>1, FS_Interval
<1>3. below \subseteq 1..i /\ above \subseteq i + 1..j
  OBVIOUS
<1> HIDE DEF below, above, all
<1>4. IsFiniteSet(below) /\ IsFiniteSet(above)
  BY <1>2, <1>3, FS_Subset
<1>5. Cardinality(all) = Cardinality(below) + Cardinality(above) - Cardinality(below \cap above)
  BY <1>1, <1>4, FS_Union
<1>6. /\ Cardinality(below \cap above) = 0 /\ Cardinality(below) \in Nat /\ Cardinality(above) \in Nat
  BY <1>1, <1>4, FS_EmptySet, FS_CardinalityType
<1>7. Cardinality(above) = Cardinality(all) - Cardinality(below) /\ Cardinality(all) \in Nat
  BY <1>5, <1>6
<1> QED
  BY <1>6, <1>7 DEF Count, below, above, all

LEMMA Heights ==
  ASSUME NEW raw
  PROVE  /\ Height(raw, 0) = 0
         /\ \A n \in Nat : Height(raw, n) \in Int
         /\ \A n \in Nat \ {0} :
              Height(raw, n) = Height(raw, n - 1) + (IF raw[n] \in Names THEN 1 ELSE IF raw[n] = ".." THEN -1 ELSE 0)
<1>1. Height(raw, 0) = 0
  <2>1. \A segments : Count(raw, 1, 0, segments) = 0
    BY CountNext
  <2>2. Count(raw, 1, 0, Names) = 0 /\ Count(raw, 1, 0, {".."}) = 0
    BY <2>1
  <2> QED
    BY <2>2 DEF Height
<1>2. ASSUME NEW n \in Nat PROVE Height(raw, n) \in Int
  <2>1. Count(raw, 1, n, Names) \in Nat /\ Count(raw, 1, n, {".."}) \in Nat
    BY CountSplit
  <2> QED
    BY <2>1 DEF Height
<1>3. ASSUME NEW n \in Nat \ {0}
      PROVE  Height(raw, n) = Height(raw, n - 1) + (IF raw[n] \in Names THEN 1 ELSE IF raw[n] = ".." THEN -1 ELSE 0)
  <2> DEFINE d(m) == Count(raw, 1, m, Names)
             u(m) == Count(raw, 1, m, {".."})
  <2>1. n \in Nat /\ n > 0 /\ n - 1 \in Nat
    OBVIOUS
  <2>2. d(n) = IF raw[n] \in Names THEN d(n - 1) + 1 ELSE d(n - 1)
    BY <2>1, CountNext
  <2>3. u(n) = IF raw[n] \in {".."} THEN u(n - 1) + 1 ELSE u(n - 1)
    BY <2>1, CountNext
  <2>4. d(n - 1) \in Nat /\ u(n - 1) \in Nat
    BY <2>1, CountSplit
  <2>5. raw[n] \in Names => raw[n] # ".."
    BY SegmentsAssumption DEF Dotted
  <2>6. Height(raw, n) = d(n) - u(n) /\ Height(raw, n - 1) = d(n - 1) - u(n - 1)
    BY DEF Height
  <2> HIDE DEF d, u
  <2> QED
    BY <2>2, <2>3, <2>4, <2>5, <2>6
<1> QED
  BY <1>1, <1>2, <1>3

\* What a string keeps, and whether it is a path, by height.
LEMMA ByHeight ==
  ASSUME NEW S, NEW raw \in Seq(S)
  PROVE  /\ Kept(raw) = Left(raw, Len(raw))
         /\ Meant(raw) = Means(raw, Len(raw))
         /\ IsPath(raw) <=> raw # <<"">> /\ Sound(raw, Len(raw))
<1> DEFINE L == Len(raw)
<1>1. L \in Nat
  BY LenProperties
<1>2. ASSUME NEW i \in 0..L, NEW j \in i..L
      PROVE  /\ Height(raw, j) >= Height(raw, i) <=>
                 ~(Count(raw, i + 1, j, {".."}) > Count(raw, i + 1, j, Names))
  <2>1. i \in Nat /\ j \in Nat /\ i <= j
    BY <1>1
  <2> DEFINE d(m) == Count(raw, 1, m, Names)
             u(m) == Count(raw, 1, m, {".."})
  <2>2. /\ Count(raw, i + 1, j, Names) = d(j) - d(i) /\ d(j) \in Nat /\ d(i) \in Nat
        /\ Count(raw, i + 1, j, {".."}) = u(j) - u(i) /\ u(j) \in Nat /\ u(i) \in Nat
    BY <2>1, CountSplit
  <2>3. Height(raw, j) = d(j) - u(j) /\ Height(raw, i) = d(i) - u(i)
    BY DEF Height
  <2> HIDE DEF d, u
  <2> QED
    BY <2>2, <2>3
<1>3. \A i \in 1..L : Undone(raw, i) <=> ~(\A j \in i + 1..L : Height(raw, j) >= Height(raw, i))
  <2> TAKE i \in 1..L
  <2>1. i \in 0..L /\ \A j \in i + 1..L : j \in i..L
    BY <1>1
  <2>2. \A j \in i + 1..L :
          Height(raw, j) >= Height(raw, i) <=>
            ~(Count(raw, i + 1, j, {".."}) > Count(raw, i + 1, j, Names))
    BY <1>2, <2>1
  <2> QED
    BY <2>2 DEF Undone
<1>4. Kept(raw) = Left(raw, L)
  BY <1>3 DEF Kept, Left
<1>5. Meant(raw) = Means(raw, L)
  BY <1>4, MeantByRank DEF Means
<1>6. \A j \in 1..L : Count(raw, 1, j, {".."}) <= Count(raw, 1, j, Names) <=> Height(raw, j) >= 0
  <2> TAKE j \in 1..L
  <2>1. j \in Nat
    BY <1>1
  <2>2. Count(raw, 1, j, {".."}) \in Nat /\ Count(raw, 1, j, Names) \in Nat
    BY <2>1, CountSplit
  <2> QED
    BY <2>2 DEF Height
<1>7. IsPath(raw) <=> raw # <<"">> /\ Sound(raw, L)
  <2> DEFINE blank == raw # <<"">>
  <2>1. IsPath(raw) <=> /\ blank /\ \A i \in 1..L : raw[i] \in Names \cup Dotted
                        /\ \A j \in 1..L : Count(raw, 1, j, {".."}) <= Count(raw, 1, j, Names)
    BY DEF IsPath
  <2> HIDE DEF blank
  <2>2. IsPath(raw) <=> blank /\ Sound(raw, L)
    BY <1>6, <2>1 DEF Sound
  <2> QED
    BY <2>2 DEF blank
<1> QED
  BY <1>4, <1>5, <1>7

\* What one segment more leaves.
LEMMA LeftSteps ==
  ASSUME NEW raw, NEW n \in Nat \ {0}
  PROVE  /\ raw[n] \in Names => Left(raw, n) = Left(raw, n - 1) \cup {n}
         /\ raw[n] \notin Names /\ raw[n] # ".." => Left(raw, n) = Left(raw, n - 1)
         /\ raw[n] = ".." =>
              Left(raw, n) = {i \in Left(raw, n - 1) : Height(raw, i) < Height(raw, n - 1)}
<1> DEFINE h(i) == Height(raw, i)
           m == n - 1
<1>1. /\ n \in Nat /\ m \in Nat /\ n = m + 1 /\ \A i \in Nat : h(i) \in Int
      /\ h(n) = h(m) + (IF raw[n] \in Names THEN 1 ELSE IF raw[n] = ".." THEN -1 ELSE 0)
  BY Heights
<1>2. ".." \notin Names
  BY SegmentsAssumption DEF Dotted
<1>3. /\ Left(raw, n) = {i \in 1..n : raw[i] \in Names /\ \A j \in i + 1..n : h(j) >= h(i)}
      /\ Left(raw, m) = {i \in 1..m : raw[i] \in Names /\ \A j \in i + 1..m : h(j) >= h(i)}
  BY DEF Left
<1> HIDE DEF h, m
<1>4. ASSUME NEW i \in 1..m
      PROVE  i \in Left(raw, n) <=> i \in Left(raw, m) /\ h(n) >= h(i)
  <2>1. i + 1..n = (i + 1..m) \cup {n}
    BY <1>1
  <2>2. i \in 1..n
    BY <1>1
  <2> QED
    BY <1>3, <2>1, <2>2
<1>5. \A i \in Left(raw, m) : i \in 1..m /\ h(i) \in Int /\ h(i) <= h(m)
  <2> TAKE i \in Left(raw, m)
  <2>1. i \in 1..m /\ i \in Nat /\ \A j \in i + 1..m : h(j) >= h(i)
    BY <1>1, <1>3
  <2>2. CASE i = m
    BY <1>1, <2>1, <2>2
  <2>3. CASE i # m
    <3>1. m \in i + 1..m
      BY <1>1, <2>1, <2>3
    <3>2. h(m) >= h(i) /\ h(m) \in Int /\ h(i) \in Int
      BY <1>1, <2>1, <3>1
    <3> QED
      BY <2>1, <3>2
  <2> QED
    BY <2>2, <2>3
<1>6. n \in Left(raw, n) <=> raw[n] \in Names
  <2>1. n + 1..n = {} /\ n \in 1..n
    BY <1>1
  <2> QED
    BY <1>3, <2>1
<1>7. /\ \A i \in Left(raw, n) : i \in 1..m \/ i = n
      /\ n \notin 1..m
  BY <1>1, <1>3
<1>8. h(m) \in Int
  BY <1>1
<1>9. CASE raw[n] \in Names
  <2>1. h(n) = h(m) + 1
    BY <1>1, <1>9
  <2>2. \A i \in Left(raw, m) : h(n) >= h(i)
    BY <1>5, <1>8, <2>1
  <2>3. Left(raw, n) = Left(raw, m) \cup {n}
    BY <1>4, <1>5, <1>6, <1>7, <1>9, <2>2
  <2> QED
    BY <1>2, <1>9, <2>3 DEF m
<1>10. CASE raw[n] \notin Names /\ raw[n] # ".."
  <2>1. h(n) = h(m)
    BY <1>1, <1>8, <1>10
  <2>2. \A i \in Left(raw, m) : h(n) >= h(i)
    BY <1>5, <1>8, <2>1
  <2>3. Left(raw, n) = Left(raw, m)
    BY <1>4, <1>5, <1>6, <1>7, <1>10, <2>2
  <2> QED
    BY <1>10, <2>3 DEF m
<1>11. CASE raw[n] = ".."
  <2>1. h(n) = h(m) - 1 /\ n \notin Left(raw, n)
    BY <1>1, <1>2, <1>6, <1>8, <1>11
  <2>2. \A i \in Left(raw, m) : h(n) >= h(i) <=> h(i) < h(m)
    BY <1>5, <1>8, <2>1
  <2>3. Left(raw, n) = {i \in Left(raw, m) : h(i) < h(m)}
    BY <1>4, <1>5, <1>7, <2>1, <2>2
  <2> QED
    BY <1>2, <1>11, <2>3 DEF m, h
<1> QED
  BY <1>9, <1>10, <1>11

\* Ranks grow with positions.
LEMMA RanksGrow ==
  ASSUME NEW L \in Nat, NEW K \in SUBSET (1..L), NEW i \in K, NEW j \in K, Rank(K, i) < Rank(K, j)
  PROVE  i < j
<1> SUFFICES ASSUME ~(i < j) PROVE FALSE
  OBVIOUS
<1>1. i \in Nat /\ j \in Nat /\ j <= i
  OBVIOUS
<1>2. K \cap 1..j \in SUBSET (K \cap 1..i) /\ IsFiniteSet(K \cap 1..i)
  <2>1. IsFiniteSet(K \cap 1..i)
    BY <1>1, RankIsNat
  <2>2. K \cap 1..j \in SUBSET (K \cap 1..i)
    BY <1>1
  <2> QED
    BY <2>1, <2>2
<1>3. Rank(K, j) <= Rank(K, i) /\ Rank(K, j) \in Nat /\ Rank(K, i) \in Nat
  BY <1>1, <1>2, FS_Subset, RankIsNat DEF Rank
<1> QED
  BY <1>3

\* The names left are at the heights 1, 2 and so on.
Stacked(raw, n) ==
  /\ Cardinality(Left(raw, n)) = Height(raw, n)
  /\ \A i \in Left(raw, n) : Rank(Left(raw, n), i) = Height(raw, i)

LEMMA SoundIsStacked ==
  ASSUME NEW raw, NEW l \in Nat, Sound(raw, l)
  PROVE  Stacked(raw, l)
<1> DEFINE h(i) == Height(raw, i)
           T == {n \in 0..l : ~Stacked(raw, n)}
<1>1. /\ h(0) = 0 /\ \A n \in Nat : h(n) \in Int
      /\ \A n \in Nat \ {0} : h(n) = h(n - 1) + (IF raw[n] \in Names THEN 1 ELSE IF raw[n] = ".." THEN -1 ELSE 0)
  BY Heights
<1>2. ".." \notin Names
  BY SegmentsAssumption DEF Dotted
<1>3. \A i \in 1..l : h(i) >= 0
  BY DEF Sound
<1>4. ASSUME T # {} PROVE FALSE
  <2>1. T \in SUBSET Nat
    OBVIOUS
  <2> HIDE DEF T
  <2>2. PICK n \in T : \A k \in T : n <= k
    BY <1>4, <2>1, NatHasLeast
  <2>3. n \in 0..l /\ n \in Nat /\ ~Stacked(raw, n)
    BY <2>2 DEF T
  <2> SUFFICES Stacked(raw, n)
    BY <2>3
  <2>4. CASE n = 0
    <3>1. Left(raw, 0) = {}
      BY DEF Left
    <3> QED
      BY <1>1, <2>4, <3>1, FS_EmptySet DEF Stacked
  <2>5. CASE n # 0
    <3> DEFINE m == n - 1
               A == Left(raw, m)
               B == Left(raw, n)
    <3>1. /\ n \in Nat \ {0} /\ m \in Nat /\ m < n /\ n = m + 1 /\ m \in 0..l /\ n \in 1..l /\ m \notin T
      BY <2>2, <2>3, <2>5
    <3>2. Stacked(raw, m)
      BY <3>1 DEF T
    <3>3. Cardinality(A) = h(m) /\ \A i \in A : Rank(A, i) = h(i)
      BY <3>2 DEF Stacked
    <3>4. A \in SUBSET (1..m) /\ B \in SUBSET (1..n)
      BY DEF Left
    <3>5. /\ raw[n] \in Names => B = A \cup {n}
          /\ raw[n] \notin Names /\ raw[n] # ".." => B = A
          /\ raw[n] = ".." => B = {i \in A : h(i) < h(m)}
      BY <3>1, LeftSteps
    <3>6. h(n) = h(m) + (IF raw[n] \in Names THEN 1 ELSE IF raw[n] = ".." THEN -1 ELSE 0)
      BY <1>1, <3>1
    <3>7. h(m) \in Int /\ h(n) \in Int /\ h(n) >= 0
      BY <1>1, <1>3, <3>1
    <3> HIDE DEF h, m, A, B
    <3>8. IsFiniteSet(A)
      BY <3>1, <3>4, RankIsNat
    <3> SUFFICES Cardinality(B) = h(n) /\ \A i \in B : Rank(B, i) = h(i)
      BY DEF Stacked, B, h
    <3>9. CASE raw[n] \in Names
      <4>1. B = A \cup {n} /\ n \notin A /\ h(n) = h(m) + 1
        BY <3>1, <3>4, <3>5, <3>6, <3>9
      <4>2. Cardinality(B) = Cardinality(A) + 1
        BY <3>8, <4>1, FS_AddElement
      <4>3. Cardinality(B) = h(n)
        BY <3>3, <4>1, <4>2
      <4>4. Rank(B, n) = h(n)
        <5>1. B \cap 1..n = B
          BY <3>4
        <5> QED
          BY <4>3, <5>1 DEF Rank
      <4>5. ASSUME NEW i \in A PROVE Rank(B, i) = h(i)
        <5>1. i \in 1..m /\ B \cap 1..i = A \cap 1..i
          BY <3>1, <3>4, <4>1
        <5> QED
          BY <3>3, <5>1 DEF Rank
      <4> QED
        BY <4>1, <4>3, <4>4, <4>5
    <3>10. CASE raw[n] \notin Names /\ raw[n] # ".."
      BY <3>3, <3>5, <3>6, <3>7, <3>10
    <3>11. CASE raw[n] = ".."
      <4>1. B = {i \in A : h(i) < h(m)} /\ h(n) = h(m) - 1
        BY <1>2, <3>5, <3>6, <3>7, <3>11
      <4> DEFINE c == Cardinality(A)
                 top == Nth(A, c)
      <4>2. c = h(m) /\ c \in Nat /\ c \in 1..c
        BY <3>3, <3>7, <4>1
      <4>3. top \in A /\ Rank(A, top) = c
        BY <3>1, <3>4, <4>2, NthHasRank
      <4>4. ASSUME NEW i \in A PROVE h(i) < h(m) <=> i # top
        <5>1. i \in Nat /\ h(i) = Rank(A, i) /\ IsFiniteSet(A \cap 1..i) /\ Rank(A, i) \in Nat
          <6>1. i \in Nat
            BY <3>4
          <6> QED
            BY <3>1, <3>3, <3>4, <6>1, RankIsNat
        <5>2. A \cap 1..i \in SUBSET A
          OBVIOUS
        <5>3. Rank(A, i) <= c
          BY <3>8, <5>2, FS_Subset DEF Rank
        <5>4. Rank(A, i) = c => i = top
          BY <3>1, <3>4, NthIs
        <5> HIDE DEF c, top
        <5> QED
          BY <4>2, <4>3, <5>1, <5>3, <5>4
      <4> HIDE DEF top
      <4>5. B = A \ {top}
        BY <4>1, <4>4
      <4>6. Cardinality(B) = h(n)
        <5>1. Cardinality(A \ {top}) = Cardinality(A) - 1
          BY <3>8, <4>3, FS_RemoveElement
        <5> QED
          BY <4>1, <4>2, <4>5, <5>1
      <4>7. ASSUME NEW i \in B PROVE Rank(B, i) = h(i)
        <5>1. i \in A /\ h(i) < h(m) /\ h(i) = Rank(A, i)
          BY <3>3, <4>1
        <5>2. Rank(A, i) < Rank(A, top)
          BY <4>2, <4>3, <5>1
        <5>3. i < top
          BY <3>1, <3>4, <4>3, <5>1, <5>2, RanksGrow
        <5>4. i \in Nat /\ top \in Nat
          BY <3>4, <4>3, <5>1
        <5>5. B \cap 1..i = A \cap 1..i
          BY <4>5, <5>3, <5>4
        <5> QED
          BY <5>1, <5>5 DEF Rank
      <4> QED
        BY <4>6, <4>7
    <3> QED
      BY <3>9, <3>10, <3>11
  <2> QED
    BY <2>4, <2>5
<1>5. l \notin T
  BY <1>4
<1> QED
  BY <1>5

\* So a name is told by its height, however many segments follow.
LEMMA LeftByHeight ==
  ASSUME NEW raw, NEW n \in Nat, Sound(raw, n)
  PROVE  /\ Left(raw, n) \in SUBSET (1..n) /\ Cardinality(Left(raw, n)) = Height(raw, n) /\ Height(raw, n) \in Nat
         /\ \A i \in Left(raw, n) : /\ raw[i] \in Names /\ Height(raw, i) \in 1..Height(raw, n)
                                    /\ Nth(Left(raw, n), Height(raw, i)) = i
         /\ \A k \in 1..Height(raw, n) : /\ Nth(Left(raw, n), k) \in Left(raw, n)
                                         /\ Height(raw, Nth(Left(raw, n), k)) = k
<1> DEFINE A == Left(raw, n)
           h(i) == Height(raw, i)
<1>1. Cardinality(A) = h(n) /\ \A i \in A : Rank(A, i) = h(i)
  BY SoundIsStacked DEF Stacked
<1>2. A \in SUBSET (1..n) /\ \A i \in A : raw[i] \in Names
  BY DEF Left
<1> HIDE DEF A, h
<1>3. IsFiniteSet(A) /\ h(n) \in Nat
  <2>1. IsFiniteSet(A)
    BY <1>2, RankIsNat
  <2> QED
    BY <1>1, <2>1, FS_CardinalityType
<1>4. ASSUME NEW i \in A PROVE h(i) \in 1..h(n) /\ Nth(A, h(i)) = i
  <2>0. Nth(A, Rank(A, i)) = i
    BY <1>2, NthIs
  <2>1. i \in Nat /\ h(i) = Rank(A, i) /\ Nth(A, Rank(A, i)) = i
    BY <1>1, <1>2, <2>0
  <2>2. A \cap 1..i \in SUBSET A /\ i \in A \cap 1..i
    BY <1>2
  <2>3. Rank(A, i) <= h(n) /\ IsFiniteSet(A \cap 1..i)
    BY <1>1, <1>3, <2>2, FS_Subset DEF Rank
  <2>4. Rank(A, i) # 0 /\ Rank(A, i) \in Nat
    BY <2>2, <2>3, FS_EmptySet, FS_CardinalityType DEF Rank
  <2> QED
    BY <1>3, <2>1, <2>3, <2>4
<1>5. ASSUME NEW k \in 1..h(n) PROVE Nth(A, k) \in A /\ h(Nth(A, k)) = k
  BY <1>1, <1>2, NthHasRank
<1> QED
  BY <1>1, <1>2, <1>3, <1>4, <1>5 DEF A, h

LEMMA MeansIs ==
  ASSUME NEW raw, NEW n \in Nat, Sound(raw, n)
  PROVE  /\ Means(raw, n) \in Seq(Names) /\ Len(Means(raw, n)) = Height(raw, n) /\ Height(raw, n) \in Nat
         /\ \A i \in Left(raw, n) : Height(raw, i) \in 1..Height(raw, n) /\ Means(raw, n)[Height(raw, i)] = raw[i]
<1> DEFINE A == Left(raw, n)
           l == Height(raw, n)
           m == Means(raw, n)
<1>1. /\ Cardinality(A) = l /\ l \in Nat
      /\ \A i \in A : raw[i] \in Names /\ Height(raw, i) \in 1..l /\ Nth(A, Height(raw, i)) = i
      /\ \A k \in 1..l : Nth(A, k) \in A
  BY LeftByHeight
<1>2. m = [k \in 1..Cardinality(A) |-> raw[Nth(A, k)]]
  BY DEF Means
<1> HIDE DEF A, l, m
<1>3. m = [k \in 1..l |-> raw[Nth(A, k)]]
  BY <1>1, <1>2
<1>4. \A k \in 1..l : raw[Nth(A, k)] \in Names
  BY <1>1
<1>5. m \in Seq(Names) /\ Len(m) = l
  BY <1>1, <1>3, <1>4
<1>6. \A i \in A : m[Height(raw, i)] = raw[i]
  BY <1>1, <1>3
<1> QED
  BY <1>1, <1>5, <1>6 DEF A, l, m

\* A name is put on top, ".." takes the top off, and the rest does nothing.
LEMMA MeansSteps ==
  ASSUME NEW raw, NEW n \in Nat \ {0}, Sound(raw, n - 1), raw[n] \in Names \cup Dotted
  PROVE  /\ Sound(raw, n) <=> ~(raw[n] = ".." /\ Means(raw, n - 1) = <<>>)
         /\ raw[n] \in Names => Means(raw, n) = Append(Means(raw, n - 1), raw[n])
         /\ raw[n] \notin Names /\ raw[n] # ".." => Means(raw, n) = Means(raw, n - 1)
         /\ raw[n] = ".." /\ Sound(raw, n) => Means(raw, n) = Front(Means(raw, n - 1))
<1> DEFINE h(i) == Height(raw, i)
           m == n - 1
           A == Left(raw, m)
           B == Left(raw, n)
           s == Means(raw, m)
           t == Means(raw, n)
<1>1. m \in Nat /\ n \in Nat /\ n = m + 1 /\ Sound(raw, m)
  OBVIOUS
<1>2. h(n) = h(m) + (IF raw[n] \in Names THEN 1 ELSE IF raw[n] = ".." THEN -1 ELSE 0) /\ h(n) \in Int
  BY Heights
<1>3. /\ s \in Seq(Names) /\ Len(s) = h(m) /\ h(m) \in Nat
      /\ \A i \in A : h(i) \in 1..h(m) /\ s[h(i)] = raw[i]
  BY <1>1, MeansIs
<1>4. /\ \A i \in A : Nth(A, h(i)) = i
      /\ \A k \in 1..h(m) : Nth(A, k) \in A /\ h(Nth(A, k)) = k
  BY <1>1, LeftByHeight
<1>5. ".." \notin Names
  BY SegmentsAssumption DEF Dotted
<1>6. /\ raw[n] \in Names => B = A \cup {n}
      /\ raw[n] \notin Names /\ raw[n] # ".." => B = A
      /\ raw[n] = ".." => B = {i \in A : h(i) < h(m)}
  BY LeftSteps
<1>7. Sound(raw, n) => /\ t \in Seq(Names) /\ Len(t) = h(n) /\ h(n) \in Nat
                       /\ \A i \in B : h(i) \in 1..h(n) /\ t[h(i)] = raw[i]
  BY <1>1, MeansIs
<1>8. Sound(raw, n) <=> h(n) >= 0
  <2>1. 1..n = (1..m) \cup {n}
    BY <1>1
  <2> QED
    BY <1>1, <2>1 DEF Sound
<1>9. s = <<>> <=> h(m) = 0
  <2> DEFINE root == <<>>
  <2>1. root \in Seq(Names) /\ Len(root) = 0
    BY EmptySeq
  <2>2. Len(s) = 0 => s = root
    <3> HIDE DEF s, root
    <3> QED
      BY <1>3, <2>1, SeqEqual
  <2> QED
    BY <1>3, <2>1, <2>2
<1> HIDE DEF h, m, A, B, s, t
<1>10. Sound(raw, n) <=> ~(raw[n] = ".." /\ s = <<>>)
  BY <1>2, <1>3, <1>5, <1>8, <1>9
<1>11. ASSUME raw[n] \in Names PROVE t = Append(s, raw[n])
  <2>1. h(n) = h(m) + 1 /\ Sound(raw, n) /\ B = A \cup {n}
    BY <1>2, <1>3, <1>6, <1>8, <1>11
  <2> DEFINE a == Append(s, raw[n])
  <2>2. a \in Seq(Names) /\ Len(a) = Len(s) + 1 /\ a[Len(s) + 1] = raw[n] /\ \A k \in 1..Len(s) : a[k] = s[k]
    BY <1>3, <1>11, AppendProperties
  <2> HIDE DEF a
  <2>3. ASSUME NEW k \in 1..h(n) PROVE t[k] = a[k]
    <3>1. CASE k = h(n)
      BY <1>3, <1>7, <2>1, <2>2, <3>1
    <3>2. CASE k # h(n)
      <4>1. k \in 1..h(m)
        BY <1>3, <2>1, <3>2
      <4> DEFINE i == Nth(A, k)
      <4>2. i \in A /\ h(i) = k
        BY <1>4, <4>1
      <4> HIDE DEF i
      <4>3. t[h(i)] = raw[i] /\ s[h(i)] = raw[i]
        BY <1>3, <1>7, <2>1, <4>2
      <4> QED
        BY <1>3, <2>2, <4>1, <4>2, <4>3
    <3> QED
      BY <3>1, <3>2
  <2>4. Len(t) = Len(a) /\ Len(t) = h(n)
    BY <1>3, <1>7, <2>1, <2>2
  <2>5. t = a
    BY <1>7, <2>1, <2>2, <2>3, <2>4, SeqEqual
  <2> QED
    BY <2>5 DEF a
<1>12. ASSUME raw[n] \notin Names, raw[n] # ".." PROVE t = s
  <2>1. A = B
    BY <1>6, <1>12
  <2> QED
    BY <2>1 DEF t, s, A, B, Means
<1>13. ASSUME raw[n] = "..", Sound(raw, n) PROVE t = Front(s)
  <2>1. h(n) = h(m) - 1 /\ h(m) # 0
    BY <1>2, <1>3, <1>5, <1>7, <1>13
  <2>2. s # <<>>
    BY <1>9, <2>1
  <2> DEFINE f == Front(s)
  <2>3. f \in Seq(Names) /\ Len(f) = Len(s) - 1 /\ s = Append(f, Last(s)) /\ Last(s) \in Names
    BY <1>3, <2>2, LastAppended
  <2>4. \A k \in 1..Len(f) : s[k] = f[k]
    <3> HIDE DEF f
    <3>1. \A k \in 1..Len(f) : Append(f, Last(s))[k] = f[k]
      BY <2>3, AppendProperties
    <3> QED
      BY <2>3, <3>1
  <2> HIDE DEF f
  <2>5. ASSUME NEW k \in 1..h(n) PROVE t[k] = f[k]
    <3>1. k \in 1..h(m) /\ k < h(m) /\ k \in 1..Len(f)
      BY <1>3, <2>1, <2>3
    <3> DEFINE i == Nth(A, k)
    <3>2. i \in A /\ h(i) = k
      BY <1>4, <3>1
    <3> HIDE DEF i
    <3>3. i \in B
      BY <1>6, <1>13, <3>1, <3>2
    <3>4. t[h(i)] = raw[i] /\ s[h(i)] = raw[i]
      BY <1>3, <1>7, <1>13, <3>2, <3>3
    <3> QED
      BY <2>4, <3>1, <3>2, <3>4
  <2>6. Len(t) = Len(f) /\ Len(t) = h(n)
    BY <1>3, <1>7, <1>13, <2>1, <2>3
  <2>7. t = f
    BY <1>7, <1>13, <2>3, <2>5, <2>6, SeqEqual
  <2> QED
    BY <2>7 DEF f
<1> QED
  BY <1>10, <1>11, <1>12, <1>13 DEF s, t, m

(***************************************************************************)
(* The way to a path, one directory after the other.                       *)
(***************************************************************************)

\* The start of a start.
LEMMA StartOfStart ==
  ASSUME NEW S, NEW p \in Seq(S), NEW k \in 0..Len(p), NEW i \in 0..k
  PROVE  SubSeq(SubSeq(p, 1, k), 1, i) = SubSeq(p, 1, i)
<1> DEFINE b == SubSeq(p, 1, k)
           u == SubSeq(b, 1, i)
           v == SubSeq(p, 1, i)
<1>1. Len(p) \in Nat /\ k \in Nat /\ i \in Nat /\ i <= k /\ k <= Len(p) /\ i <= Len(p)
  BY LenProperties
<1>2. b \in Seq(S) /\ Len(b) = k /\ \A j \in 1..k : b[j] = p[j]
  BY <1>1, Starts
<1>3. v \in Seq(S) /\ Len(v) = i /\ \A j \in 1..i : v[j] = p[j]
  BY <1>1, Starts
<1> HIDE DEF b, v
<1>4. u \in Seq(S) /\ Len(u) = i /\ \A j \in 1..i : u[j] = b[j]
  BY <1>1, <1>2, Starts
<1> HIDE DEF u
<1>5. \A j \in 1..i : u[j] = v[j]
  BY <1>1, <1>2, <1>3, <1>4
<1>6. u = v
  BY <1>3, <1>4, <1>5, SeqEqual
<1> QED
  BY <1>6 DEF u, v, b

\* What is left of a way after its start.
LEMMA RestOfWay ==
  ASSUME NEW S, NEW walk \in Seq(S), NEW n \in 0..Len(walk)
  PROVE  LET rest == SubSeq(walk, n + 1, Len(walk))
         IN /\ rest = <<>> <=> n = Len(walk)
            /\ n # Len(walk) => /\ n + 1 \in 1..Len(walk) /\ Head(rest) = walk[n + 1]
                                /\ Tail(rest) = SubSeq(walk, n + 2, Len(walk))
<1> DEFINE l == Len(walk)
           rest == SubSeq(walk, n + 1, l)
<1>1. l \in Nat /\ n \in Nat /\ n <= l
  BY LenProperties
<1>2. CASE n = l
  BY <1>1, <1>2, SubSeqEmpty
<1>3. CASE n # l
  <2>1. n + 1 \in 1..l /\ l \in 1..l /\ n + 1 <= l /\ l >= n + 1
    BY <1>1, <1>3
  <2>2. SubSeq(walk, n + 1, l) = <<walk[n + 1]>> \o SubSeq(walk, n + 2, l)
    <3>1. n + 1 + 1 = n + 2
      BY <1>1
    <3> QED
      BY <2>1, <3>1, SubSeqRecursiveFirst
  <2> DEFINE tail == SubSeq(walk, n + 2, l)
             e == walk[n + 1]
  <2>3. \A i \in n + 2..l : i \in 1..l
    BY <1>1
  <2>4. e \in S /\ tail \in Seq(S)
    <3>1. \A i \in 1..l : walk[i] \in S
      BY ElementOfSeq
    <3>2. \A i \in n + 2..l : walk[i] \in S
      BY <2>3, <3>1
    <3>3. n + 2 \in Nat /\ n + 2 \in Int /\ l \in Int
      BY <1>1
    <3> HIDE DEF l
    <3> QED
      BY <2>1, <3>1, <3>2, <3>3, SubSeqProperties
  <2> HIDE DEF tail, e
  <2>5. rest = <<e>> \o tail
    BY <2>2 DEF tail, e
  <2>6. <<e>> \o tail # <<>> /\ Head(<<e>> \o tail) = e /\ Tail(<<e>> \o tail) = tail
    BY <2>4
  <2> QED
    BY <1>3, <2>1, <2>5, <2>6 DEF tail, e
<1> QED
  BY <1>2, <1>3

\* It starts as the path does.
LEMMA WayIs ==
  ASSUME NEW op, NEW p \in Seq(Names) \ {<<>>}
  PROVE  /\ Way(op, p) \in Seq(Names) /\ Len(p) \in Nat \ {0}
         /\ Len(Way(op, p)) = IF op = "get_or_create_dir_at" THEN Len(p) ELSE Len(p) - 1
         /\ \A n \in 0..Len(Way(op, p)) : /\ n \in 0..Len(p) /\ SubSeq(Way(op, p), 1, n) = SubSeq(p, 1, n)
                                          /\ Made(Way(op, p), n) = Made(p, n)
<1>1. Len(p) \in Nat \ {0}
  BY EmptySeq
<1>2. PICK k \in 0..Len(p) : /\ k = IF op = "get_or_create_dir_at" THEN Len(p) ELSE Len(p) - 1
                             /\ Way(op, p) = SubSeq(p, 1, k)
  <2>1. SubSeq(p, 1, Len(p)) = p
    BY SubSeqFull
  <2>2. Len(p) \in 0..Len(p) /\ Len(p) - 1 \in 0..Len(p)
    BY <1>1
  <2>3. Front(p) = SubSeq(p, 1, Len(p) - 1)
    BY DEF Front
  <2> QED
    BY <2>1, <2>2, <2>3 DEF Way
<1>3. Way(op, p) \in Seq(Names) /\ Len(Way(op, p)) = k
  BY <1>1, <1>2, Starts
<1>4. ASSUME NEW n \in 0..k PROVE SubSeq(Way(op, p), 1, n) = SubSeq(p, 1, n)
  BY <1>2, <1>4, StartOfStart
<1>5. ASSUME NEW n \in 0..k PROVE n \in 0..Len(p) /\ Made(Way(op, p), n) = Made(p, n)
  <2>1. n \in 0..Len(p) /\ \A i \in 1..n : i \in 0..k
    BY <1>1
  <2>2. \A i \in 1..n : SubSeq(Way(op, p), 1, i) = SubSeq(p, 1, i)
    BY <1>4, <2>1
  <2> QED
    BY <2>1, <2>2 DEF Made
<1> QED
  BY <1>1, <1>2, <1>3, <1>4, <1>5

LEMMA MadeSteps ==
  ASSUME NEW p \in Seq(Names) \ {<<>>}
  PROVE  /\ Made(p, 0) = {} /\ Above(p) = Made(p, Len(p) - 1) /\ Made(p, Len(p)) = Above(p) \cup {p}
         /\ p \notin Above(p)
         /\ \A n \in 1..Len(p) : Made(p, n) = Made(p, n - 1) \cup {SubSeq(p, 1, n)}
<1>1. Len(p) \in Nat \ {0}
  BY EmptySeq
<1>2. ASSUME NEW n \in 1..Len(p) PROVE Made(p, n) = Made(p, n - 1) \cup {SubSeq(p, 1, n)}
  <2>1. 1..n = (1..n - 1) \cup {n}
    BY <1>1
  <2> QED
    BY <2>1 DEF Made
<1>3. Above(p) = Made(p, Len(p) - 1)
  BY DEF Above, Made
<1>4. SubSeq(p, 1, Len(p)) = p /\ Len(p) \in 1..Len(p)
  BY <1>1, SubSeqFull
<1>5. Made(p, 0) = {}
  BY DEF Made
<1>6. p \notin Above(p)
  BY AboveArePrefixes DEF IsStrictPrefix
<1> QED
  BY <1>2, <1>3, <1>4, <1>5, <1>6

\* The directories above an item are there.
LEMMA NothingToMake ==
  ASSUME NEW s, StoreOK(s), NEW p \in Seq(Names) \ {<<>>}, NEW n \in 0..Len(p), NEW k \in n..Len(p), k # 0,
         SubSeq(p, 1, k) \in DOMAIN s
  PROVE  Made(p, n) \subseteq DOMAIN s
<1> DEFINE b == SubSeq(p, 1, k)
<1>1. Len(p) \in Nat /\ k \in Nat /\ n \in Nat /\ k <= Len(p)
  BY LenProperties
<1>2. ASSUME NEW i \in 1..n PROVE SubSeq(p, 1, i) \in DOMAIN s
  <2>1. CASE i = k
    BY <2>1
  <2>2. CASE i # k
    <3>1. i \in 0..k /\ i \in 1..k - 1 /\ k \in 0..Len(p)
      BY <1>1, <2>2
    <3>2. SubSeq(b, 1, i) = SubSeq(p, 1, i)
      BY <3>1, StartOfStart
    <3>3. Len(b) = k
      BY <1>1, Starts
    <3> HIDE DEF b
    <3>4. SubSeq(p, 1, i) \in Above(b)
      BY <3>1, <3>2, <3>3 DEF Above
    <3> QED
      BY <3>4 DEF StoreOK, b
  <2> QED
    BY <2>1, <2>2
<1> QED
  BY <1>2 DEF Made

(***************************************************************************)
(* A call on its way: the directories made so far do not change whether it *)
(* can succeed, and there are none if it cannot.                           *)
(***************************************************************************)
WithMade(s, walk, n) ==
  [q \in DOMAIN s \cup Made(walk, n) |-> IF q \in DOMAIN s THEN s[q] ELSE "directory"]

\* And with one path more.
WithPath(s, p, value) == [q \in DOMAIN s \cup {p} |-> IF q = p THEN value ELSE s[q]]

\* The calls that walk, and what they ask of the place they are to fill.
WalkCalls == AddCalls \ {"update_file_at"}

Fillable(op, p, s) ==
  /\ op \in {"create_dir_at", "create_file_at"} => p \notin DOMAIN s
  /\ op \in {"get_or_create_dir_at"} => (p \in DOMAIN s => s[p] = "directory")
  /\ op \in {"write_file_at"} => ~(p \in DOMAIN s /\ s[p] = "directory")

LEMMA PossibleWalk ==
  ASSUME NEW raw, NEW op \in WalkCalls, NEW s
  PROVE  Possible(op, raw, s) <=>
           /\ IsPath(raw) /\ Meant(raw) # <<>>
           /\ \A q \in Above(Meant(raw)) \cap DOMAIN s : s[q] = "directory"
           /\ Fillable(op, Meant(raw), s)
<1> DEFINE p == Meant(raw)
<1>1. op \in {"create_dir_at", "get_or_create_dir_at", "write_file_at", "create_file_at"}
  BY DEF WalkCalls, AddCalls, DirCalls, WriteCalls
<1> QED
  BY <1>1 DEF Possible, Fillable

\* What has been made is above the path, or the path itself if it is to be a directory.
LEMMA OnlyAbove ==
  ASSUME NEW op, NEW p \in Seq(Names) \ {<<>>}, NEW n \in 0..Len(Way(op, p)), NEW q \in Made(Way(op, p), n)
  PROVE  q \in Above(p) \/ (op = "get_or_create_dir_at" /\ q = p)
BY MadeOnTheWay

LEMMA PossibleAsMade ==
  ASSUME NEW S, NEW raw \in Seq(S), NEW op \in WalkCalls, NEW s, Meant(raw) # <<>>,
         NEW n \in 0..Len(Way(op, Meant(raw))),
         \A q \in Made(Way(op, Meant(raw)), n) \cap DOMAIN s : s[q] = "directory"
  PROVE  Possible(op, raw, WithMade(s, Way(op, Meant(raw)), n)) = Possible(op, raw, s)
<1> DEFINE p == Meant(raw)
           made == Made(Way(op, p), n)
           t == WithMade(s, Way(op, p), n)
<1>1. /\ DOMAIN t = DOMAIN s \cup made
      /\ \A q \in DOMAIN s : t[q] = s[q]
      /\ \A q \in made \ DOMAIN s : t[q] = "directory"
  BY DEF WithMade
<1>2. p \in Seq(Names) \ {<<>>}
  BY MeantIsPath
<1>3. \A q \in made : q \in Above(p) \/ (op = "get_or_create_dir_at" /\ q = p)
  BY <1>2, OnlyAbove
<1>4. p \notin Above(p)
  BY <1>2, MadeSteps
<1>5. Possible(op, raw, s) <=> /\ IsPath(raw) /\ p # <<>> /\ Fillable(op, p, s)
                               /\ \A q \in Above(p) \cap DOMAIN s : s[q] = "directory"
  BY PossibleWalk
<1>6. Possible(op, raw, t) <=> /\ IsPath(raw) /\ p # <<>> /\ Fillable(op, p, t)
                               /\ \A q \in Above(p) \cap DOMAIN t : t[q] = "directory"
  BY PossibleWalk
<1> HIDE DEF p, made, t
<1>7. (\A q \in Above(p) \cap DOMAIN t : t[q] = "directory") <=> (\A q \in Above(p) \cap DOMAIN s : s[q] = "directory")
  BY <1>1
<1>8. Fillable(op, p, t) <=> Fillable(op, p, s)
  <2>1. CASE op \in {"get_or_create_dir_at"}
    <3>1. p \in DOMAIN s => t[p] = s[p] /\ p \in DOMAIN t
      BY <1>1
    <3>2. p \in DOMAIN t /\ p \notin DOMAIN s => t[p] = "directory"
      BY <1>1
    <3> QED
      BY <2>1, <3>1, <3>2 DEF Fillable
  <2>2. CASE op \notin {"get_or_create_dir_at"}
    <3>1. p \notin made
      BY <1>3, <1>4, <2>2
    <3>2. (p \in DOMAIN t <=> p \in DOMAIN s) /\ (p \in DOMAIN s => t[p] = s[p])
      BY <1>1, <3>1
    <3> QED
      BY <2>2, <3>2 DEF Fillable
  <2> QED
    BY <2>1, <2>2
<1>9. Possible(op, raw, t) <=> Possible(op, raw, s)
  BY <1>5, <1>6, <1>7, <1>8
<1>10. Possible(op, raw, t) \in BOOLEAN /\ Possible(op, raw, s) \in BOOLEAN
  BY DEF Possible
<1> QED
  BY <1>9, <1>10 DEF t, p

\* If it cannot succeed, something that is there is in its way, and so is all above that.
LEMMA NothingMade ==
  ASSUME NEW S, NEW raw \in Seq(S), NEW op \in WalkCalls, NEW s, StoreOK(s), s = [q \in DOMAIN s |-> s[q]],
         IsPath(raw), Meant(raw) # <<>>, ~Possible(op, raw, s),
         NEW n \in 0..Len(Way(op, Meant(raw))),
         \A q \in Made(Way(op, Meant(raw)), n) \cap DOMAIN s : s[q] = "directory"
  PROVE  WithMade(s, Way(op, Meant(raw)), n) = s
<1> DEFINE p == Meant(raw)
           made == Made(Way(op, p), n)
<1>1. p \in Seq(Names) \ {<<>>}
  BY MeantIsPath
<1>2. Len(p) \in Nat \ {0} /\ n \in 0..Len(p) /\ made = Made(p, n)
  BY <1>1, WayIs
<1>3. \/ \E q \in Above(p) \cap DOMAIN s : s[q] # "directory"
      \/ ~Fillable(op, p, s)
  BY PossibleWalk
<1>4. \A q \in made \cap DOMAIN s : s[q] = "directory"
  OBVIOUS
<1> SUFFICES made \subseteq DOMAIN s
  <2>1. made \subseteq DOMAIN s => DOMAIN s \cup made = DOMAIN s
    OBVIOUS
  <2> QED
    BY <2>1 DEF WithMade
<1> HIDE DEF p, made
<1>5. CASE \E q \in Above(p) \cap DOMAIN s : s[q] # "directory"
  <2>1. PICK q \in Above(p) \cap DOMAIN s : s[q] # "directory"
    BY <1>5
  <2>2. PICK k \in 1..Len(p) - 1 : q = SubSeq(p, 1, k)
    BY DEF Above
  <2>3. q \notin made
    BY <1>4, <2>1
  <2>4. ~(k <= n)
    BY <1>2, <2>2, <2>3 DEF Made
  <2>5. k \in n..Len(p) /\ k # 0
    BY <1>2, <2>4
  <2> QED
    BY <1>1, <1>2, <2>1, <2>2, <2>5, NothingToMake
<1>6. CASE ~Fillable(op, p, s)
  <2>1. p \in DOMAIN s
    BY <1>6 DEF Fillable
  <2>2. SubSeq(p, 1, Len(p)) = p /\ Len(p) \in n..Len(p) /\ Len(p) # 0
    BY <1>1, <1>2, SubSeqFull
  <2> QED
    BY <1>1, <1>2, <2>1, <2>2, NothingToMake
<1> QED
  BY <1>3, <1>5, <1>6

\* A walk under way is one of the ways the call may be cut short.
LEMMA WalkCutsShort ==
  ASSUME NEW S, NEW raw \in Seq(S), NEW op \in WalkCalls, NEW s, StoreOK(s), s = [q \in DOMAIN s |-> s[q]],
         IsPath(raw), Meant(raw) # <<>>,
         op \in WriteCalls => (Meant(raw) \in DOMAIN s => s[Meant(raw)] = "directory"),
         NEW n \in 0..Len(Way(op, Meant(raw))),
         \A q \in Made(Way(op, Meant(raw)), n) \cap DOMAIN s : s[q] = "directory"
  PROVE  WithMade(s, Way(op, Meant(raw)), n) \in CutShort(op, raw, s)
<1> DEFINE p == Meant(raw)
           walk == Way(op, p)
<1>1. CASE ~Possible(op, raw, s)
  <2>1. CutShort(op, raw, s) = {s}
    BY <1>1 DEF CutShort
  <2>2. WithMade(s, walk, n) = s
    BY <1>1, NothingMade
  <2> QED
    BY <2>1, <2>2
<1>2. CASE Possible(op, raw, s)
  <2>1. ~(op \in WriteCalls /\ p \in DOMAIN s)
    <3>1. op \in AddCalls
      BY DEF WalkCalls
    <3>2. p \in DOMAIN s /\ s[p] = "directory" => op = "get_or_create_dir_at"
      BY <1>2, <3>1, PossibleIsFree
    <3>3. op = "get_or_create_dir_at" => op \notin WriteCalls
      BY DEF WriteCalls
    <3> QED
      BY <3>2, <3>3
  <2>2. op \notin RemoveCalls
    BY DEF RemoveCalls, WalkCalls, AddCalls, DirCalls, WriteCalls
  <2>3. CutShort(op, raw, s) = {WithMade(s, walk, m) : m \in 0..Len(walk)}
    BY <1>2, <2>1, <2>2 DEF CutShort, WithMade, Way, Made
  <2> QED
    BY <2>3
<1> QED
  BY <1>1, <1>2

\* What a walk to its end leaves, with the item to be made in the last directory.
LEMMA WalkToTheEnd ==
  ASSUME NEW op \in WalkCalls, NEW p \in Seq(Names) \ {<<>>}, NEW s, NEW content,
         \A q \in Made(Way(op, p), Len(Way(op, p))) \cap DOMAIN s : s[q] = "directory"
  PROVE  LET t == WithMade(s, Way(op, p), Len(Way(op, p)))
         IN /\ \A q \in Above(p) \cap DOMAIN s : s[q] = "directory"
            /\ p \in DOMAIN s /\ op = "get_or_create_dir_at" => s[p] = "directory"
            /\ op = "get_or_create_dir_at" => t = After(op, p, content, s)
            /\ op # "get_or_create_dir_at" /\ p \notin DOMAIN t =>
                 WithPath(t, p, AddedBy(op, content)) = After(op, p, content, s)
<1> DEFINE walk == Way(op, p)
           made == Made(walk, Len(walk))
           t == WithMade(s, walk, Len(walk))
           whole == op = "get_or_create_dir_at"
           new == [q \in DOMAIN t \cup {p} |-> IF q = p THEN AddedBy(op, content) ELSE t[q]]
           after == [q \in {p} \cup Above(p) \cup DOMAIN s |->
                       IF q = p THEN AddedBy(op, content) ELSE IF q \in Above(p) THEN "directory" ELSE s[q]]
<1>1. made = IF whole THEN Above(p) \cup {p} ELSE Above(p)
  <2>1. /\ Len(p) \in Nat \ {0} /\ Len(walk) = (IF whole THEN Len(p) ELSE Len(p) - 1)
        /\ Len(walk) \in 0..Len(walk) => made = Made(p, Len(walk))
    BY WayIs
  <2>2. Len(walk) \in 0..Len(walk)
    BY <2>1
  <2> QED
    BY <2>1, <2>2, MadeSteps
<1>2. p \notin Above(p)
  BY MadeSteps
<1>3. \A q \in made \cap DOMAIN s : s[q] = "directory"
  OBVIOUS
<1>4. After(op, p, content, s) = after
  <2>1. op \notin RemoveCalls
    BY DEF RemoveCalls, WalkCalls, AddCalls, DirCalls, WriteCalls
  <2>2. After(op, p, content, s) =
          [q \in {p} \cup Above(p) \cup DOMAIN s |->
             CASE q = p           -> IF op \in DirCalls THEN "directory" ELSE content
               [] q \in Above(p)  -> "directory"
               [] OTHER           -> s[q]]
    BY <2>1 DEF After
  <2> QED
    BY <1>2, <2>2 DEF AddedBy
<1>5. /\ DOMAIN t = DOMAIN s \cup made /\ t = [q \in DOMAIN t |-> t[q]]
      /\ \A q \in DOMAIN s : t[q] = s[q]
      /\ \A q \in made \ DOMAIN s : t[q] = "directory"
  BY DEF WithMade
<1>6. whole => AddedBy(op, content) = "directory"
  BY DEF AddedBy, DirCalls
<1> HIDE DEF t, made
<1>7. \A q \in made : t[q] = "directory"
  BY <1>3, <1>5
<1>8. ASSUME whole PROVE t = after
  <2>1. DOMAIN t = DOMAIN after
    BY <1>1, <1>5, <1>8
  <2>2. ASSUME NEW q \in DOMAIN after PROVE t[q] = after[q]
    BY <1>1, <1>5, <1>6, <1>7, <1>8
  <2>3. after = [q \in DOMAIN after |-> after[q]]
    OBVIOUS
  <2> HIDE DEF after
  <2> QED
    BY <1>5, <2>1, <2>2, <2>3
<1>9. ASSUME ~whole, p \notin DOMAIN t PROVE new = after
  <2>1. DOMAIN new = DOMAIN after
    BY <1>1, <1>5, <1>9
  <2>2. ASSUME NEW q \in DOMAIN after PROVE new[q] = after[q]
    BY <1>1, <1>5, <1>7, <1>9
  <2>3. after = [q \in DOMAIN after |-> after[q]] /\ new = [q \in DOMAIN new |-> new[q]]
    OBVIOUS
  <2> HIDE DEF after, new
  <2> QED
    BY <2>1, <2>2, <2>3
<1> QED
  BY <1>1, <1>3, <1>4, <1>8, <1>9 DEF t, WithPath

\* Another content for a file that is there.
LEMMA Replaced ==
  ASSUME NEW op \in {"write_file_at", "update_file_at"}, NEW p, NEW s, StoreOK(s), s = [q \in DOMAIN s |-> s[q]],
         p \in DOMAIN s, NEW content
  PROVE  After(op, p, content, s) = [s EXCEPT ![p] = content]
<1> DEFINE new == [s EXCEPT ![p] = content]
           after == [q \in {p} \cup Above(p) \cup DOMAIN s |->
                       IF q = p THEN content ELSE IF q \in Above(p) THEN "directory" ELSE s[q]]
<1>1. /\ p \in Seq(Names) \ {<<>>}
      /\ \A q \in Above(p) : q \in DOMAIN s /\ s[q] = "directory"
  BY DEF StoreOK
<1>2. p \notin Above(p)
  BY <1>1, MadeSteps
<1>3. After(op, p, content, s) = after
  <2>1. op \notin RemoveCalls /\ op \notin DirCalls
    BY DEF RemoveCalls, DirCalls
  <2>2. After(op, p, content, s) =
          [q \in {p} \cup Above(p) \cup DOMAIN s |->
             CASE q = p           -> content
               [] q \in Above(p)  -> "directory"
               [] OTHER           -> s[q]]
    BY <2>1 DEF After
  <2> QED
    BY <1>2, <2>2
<1>4. DOMAIN new = DOMAIN after
  BY <1>1
<1>5. \A q \in DOMAIN after : new[q] = after[q]
  BY <1>1
<1>6. after = [q \in DOMAIN after |-> after[q]] /\ new = [q \in DOMAIN new |-> new[q]]
  OBVIOUS
<1> HIDE DEF after, new
<1>7. new = after
  BY <1>4, <1>5, <1>6
<1> QED
  BY <1>3, <1>7 DEF new

\* What can be removed or replaced: an item that is there.
LEMMA PossibleThere ==
  ASSUME NEW raw, NEW s, StoreOK(s), IsPath(raw)
  PROVE  /\ Possible("remove_dir_at", raw, s) <=> Meant(raw) \in DOMAIN s /\ s[Meant(raw)] = "directory"
         /\ \A op \in {"update_file_at", "remove_file_at"} :
              Possible(op, raw, s) <=> Meant(raw) \in DOMAIN s /\ s[Meant(raw)] # "directory"
         /\ Meant(raw) \in DOMAIN s /\ s[Meant(raw)] # "directory" => Possible("write_file_at", raw, s)
<1> DEFINE p == Meant(raw)
<1>1. p \in DOMAIN s => p # <<>> /\ \A q \in Above(p) : s[q] = "directory"
  BY DEF StoreOK
<1>2. Possible("remove_dir_at", raw, s) <=> p \in DOMAIN s /\ s[p] = "directory"
  BY <1>1 DEF Possible
<1>3. ASSUME NEW op \in {"update_file_at", "remove_file_at"}
      PROVE  Possible(op, raw, s) <=> p \in DOMAIN s /\ s[p] # "directory"
  BY <1>1 DEF Possible
<1>4. p \in DOMAIN s /\ s[p] # "directory" => Possible("write_file_at", raw, s)
  BY <1>1 DEF Possible
<1> QED
  BY <1>2, <1>3, <1>4

\* A content that is lost while it is replaced can be written again ...
IsStore(s) == StoreOK(s) /\ s = [q \in DOMAIN s |-> s[q]]

WithValue(s, p, value) == [s EXCEPT ![p] = value]

LEMMA ReplaceCutShort ==
  ASSUME NEW op \in {"write_file_at", "update_file_at"}, NEW raw, IsPath(raw),
         NEW s, IsStore(s), NEW p, p = Meant(raw), p \in DOMAIN s, s[p] # "directory",
         NEW t, t = s \/ t = WithValue(s, p, Damaged)
  PROVE  t \in CutShort(op, raw, s) /\ Possible(op, raw, t) = Possible(op, raw, s)
<1> USE DEF IsStore, WithValue
<1>1. Possible(op, raw, s)
  BY PossibleThere
<1>2. t \in CutShort(op, raw, s)
  <2>1. op \notin RemoveCalls /\ op \in WriteCalls
    BY DEF RemoveCalls, WriteCalls
  <2>2. CutShort(op, raw, s) = {s, [s EXCEPT ![p] = Damaged]}
    BY <1>1, <2>1 DEF CutShort
  <2> QED
    BY <2>2
<1>3. Damaged # "directory"
  BY DEF Damaged
<1>4. /\ DOMAIN t = DOMAIN s /\ t[p] # "directory" /\ p \in DOMAIN t
      /\ \A q \in DOMAIN s : q # p => t[q] = s[q]
  BY <1>3
<1>5. StoreOK(t)
  BY <1>4 DEF StoreOK
<1>6. Possible(op, raw, t)
  BY <1>4, <1>5, PossibleThere
<1>7. Possible(op, raw, t) \in BOOLEAN /\ Possible(op, raw, s) \in BOOLEAN
  BY DEF Possible
<1> QED
  BY <1>1, <1>2, <1>6, <1>7

\* A store without some of its paths.
Keeping(s, gone) == [q \in DOMAIN s \ gone |-> s[q]]

\* ... and an item of which some is gone, with all that is below, can be removed.
LEMMA RemoveCutShort ==
  ASSUME NEW S, NEW raw \in Seq(S), NEW op \in RemoveCalls, NEW s, IsStore(s),
         IsPath(raw), Possible(op, raw, s), NEW p, p = Meant(raw),
         NEW gone, \A q \in gone : q \in DOMAIN s /\ IsStrictPrefix(p, q),
         \A q \in gone, x \in DOMAIN s : IsPrefix(q, x) => x \in gone,
         NEW t, t = Keeping(s, gone)
  PROVE  t \in CutShort(op, raw, s) /\ Possible(op, raw, t) = Possible(op, raw, s)
<1> USE DEF Keeping, IsStore
<1> DEFINE below == {q \in DOMAIN s : IsStrictPrefix(p, q)}
           parts == {g \in SUBSET below : \A q \in g, x \in below : IsPrefix(q, x) => x \in g}
<1>1. CutShort(op, raw, s) = {[q \in DOMAIN s \ g |-> s[q]] : g \in parts}
  <2>1. op \notin WriteCalls
    BY DEF RemoveCalls, WriteCalls
  <2> QED
    BY <2>1 DEF CutShort
<1>2. gone \in parts
  OBVIOUS
<1>3. t \in CutShort(op, raw, s)
  BY <1>1, <1>2
<1>4. StoreOK(t)
  BY <1>3, CutOffRemoveCallsRemove
<1>5. op \in {"remove_dir_at", "remove_file_at"}
  BY DEF RemoveCalls
<1>6. p \in DOMAIN s
  BY <1>5, PossibleThere
<1>7. p \in DOMAIN t /\ t[p] = s[p]
  <2>1. p \notin gone
    BY DEF IsStrictPrefix
  <2> QED
    BY <1>6, <2>1
<1>8. Possible(op, raw, t)
  <2>1. CASE op = "remove_dir_at"
    BY <1>4, <1>7, <2>1, PossibleThere
  <2>2. CASE op = "remove_file_at"
    BY <1>4, <1>7, <2>2, PossibleThere
  <2> QED
    BY <1>5, <2>1, <2>2
<1>9. Possible(op, raw, t) \in BOOLEAN /\ Possible(op, raw, s) \in BOOLEAN
  BY DEF Possible
<1> QED
  BY <1>3, <1>8, <1>9
=============================================================================
