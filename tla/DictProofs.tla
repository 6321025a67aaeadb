------------------------------ MODULE DictProofs ------------------------------
(***************************************************************************)
(* The dictionary, for every number of words and chains: no search goes    *)
(* round in circles, nothing that was found is ever lost, the newest word  *)
(* of a name is the one found, and the links implement Vocabulary.         *)
(*                                                                         *)
(* The first part is about the links of any heap d. Links form no circle   *)
(* if the entries have ranks that decrease along them; this is what the    *)
(* steps preserve, and what makes lists of entries behind others complete. *)
(* It also gives a principle of induction along the links (Descent), by    *)
(* which everything about these lists is proved.                           *)
(***************************************************************************)
EXTENDS Loading, Integers, FiniteSetTheorems, SequenceTheorems, TLAPS

Behind(d, i) == IF i = 0 THEN 0 ELSE d[i].link

Heap(d) == Len(d) \in Nat /\ \A i \in 1..Len(d) : Behind(d, i) \in 0..Len(d)

Ranks(r, d) ==
  /\ r \in [0..Len(d) -> Nat] /\ r[0] = 0
  /\ \A i \in 1..Len(d) : r[Behind(d, i)] < r[i]

Acyclic(d) == \E r : Ranks(r, d)

\* A set of natural numbers that is not empty has a least element.
LEMMA Least ==
  ASSUME NEW N \in SUBSET Nat, N # {}
  PROVE  \E k \in N : \A l \in N : k <= l
<1>1. \E k \in N : \A l \in N : ~(<<l, k>> \in OpToRel(<, Nat))
  BY NatLessThanWellFounded, WFMin
<1>2. PICK k \in N : \A l \in N : ~(<<l, k>> \in OpToRel(<, Nat))
  BY <1>1
<1>3. ASSUME NEW l \in N PROVE k <= l
  <2>1. k \in Nat /\ l \in Nat
    OBVIOUS
  <2>2. ~(l < k)
    BY <1>2, <2>1 DEF OpToRel
  <2>. QED  BY <2>1, <2>2
<1>. QED  BY <1>2, <1>3

\* Whoever follows links comes to the null link: what holds of it, and of an
\* entry if it holds of the one behind it, holds of all.
LEMMA Descent ==
  ASSUME NEW d, Heap(d), Acyclic(d), NEW S, 0 \in S,
         \A i \in 1..Len(d) : Behind(d, i) \in S => i \in S
  PROVE  \A i \in 0..Len(d) : i \in S
<1>1. PICK r : Ranks(r, d)
  BY DEF Acyclic
<1>2. SUFFICES ASSUME NEW i \in 0..Len(d), i \notin S PROVE FALSE
  OBVIOUS
<1>. DEFINE outside == {r[j] : j \in {k \in 0..Len(d) : k \notin S}}
<1>3. outside \in SUBSET Nat /\ outside # {}
  BY <1>1, <1>2 DEF Ranks
<1>4. PICK n \in outside : \A m \in outside : n <= m
  <2>. HIDE DEF outside
  <2>. QED  BY <1>3, Least
<1>5. PICK j \in 0..Len(d) : j \notin S /\ r[j] = n
  BY <1>4
<1>6. j \in 1..Len(d) /\ Behind(d, j) \in 0..Len(d) /\ Behind(d, j) \notin S
  BY <1>5 DEF Heap
<1>7. r[Behind(d, j)] < n /\ r[Behind(d, j)] \in outside
  BY <1>1, <1>5, <1>6 DEF Ranks
<1>8. r[Behind(d, j)] \in Nat /\ n \in Nat
  BY <1>1, <1>5, <1>6 DEF Ranks
<1>9. n <= r[Behind(d, j)]
  <2>. HIDE DEF outside
  <2>. QED  BY <1>4, <1>7
<1>. QED
  <2>. HIDE DEF outside
  <2>. QED  BY <1>7, <1>8, <1>9

\* Ranks need be no more than there are entries.
LEMMA SmallRanks ==
  ASSUME NEW d, Heap(d), Acyclic(d)
  PROVE  \E h : Ranks(h, d) /\ \A i \in 0..Len(d) : h[i] <= Len(d)
<1>1. PICK r : Ranks(r, d)
  BY DEF Acyclic
<1>. DEFINE all == 1..Len(d)
            below(i) == {j \in all : r[j] < r[i]}
            h == [i \in 0..Len(d) |-> IF i = 0 THEN 0 ELSE 1 + Cardinality(below(i))]
<1>2. IsFiniteSet(all) /\ Cardinality(all) = Len(d)
  <2>1. Len(d) \in Int
    BY DEF Heap
  <2>. QED  BY <2>1, FS_Interval DEF Heap
<1>3. ASSUME NEW i \in all
      PROVE  /\ IsFiniteSet(below(i)) /\ Cardinality(below(i)) \in Nat
             /\ Cardinality(below(i)) < Len(d)
  <2>1. below(i) \subseteq all /\ i \notin below(i)
    BY <1>1 DEF Ranks
  <2>2. /\ IsFiniteSet(below(i)) /\ Cardinality(below(i)) \in Nat
        /\ Cardinality(below(i)) <= Cardinality(all)
        /\ Cardinality(below(i)) = Cardinality(all) => below(i) = all
    <3>. HIDE DEF all, below
    <3>. QED  BY <1>2, <2>1, FS_Subset, FS_CardinalityType
  <2>. QED  BY <1>2, <2>1, <2>2 DEF Heap
<1>4. ASSUME NEW i \in all PROVE h[Behind(d, i)] < h[i]
  <2>. DEFINE l == Behind(d, i)
  <2>1. l \in 0..Len(d) /\ i # 0 /\ i \in 0..Len(d) /\ r[l] < r[i]
    BY <1>1 DEF Heap, Ranks
  <2>2. CASE l = 0
    BY <1>3, <2>1, <2>2
  <2>3. CASE l # 0
    <3>1. l \in all
      BY <2>1, <2>3
    <3>2. l \in below(i) /\ l \notin below(l) /\ below(l) \subseteq below(i)
      BY <1>1, <2>1, <3>1 DEF Ranks
    <3>3. /\ Cardinality(below(l)) <= Cardinality(below(i))
          /\ Cardinality(below(l)) = Cardinality(below(i)) => below(l) = below(i)
      <4>. HIDE DEF all, below
      <4>. QED  BY <1>3, <3>2, FS_Subset
    <3>. HIDE DEF below
    <3>. QED  BY <1>3, <2>1, <3>1, <3>2, <3>3
  <2>. QED  BY <2>2, <2>3
<1>5. h[0] = 0 /\ h \in [0..Len(d) -> Nat]
  <2>. HIDE DEF below
  <2>. QED  BY <1>3 DEF Heap
<1>6. \A i \in 0..Len(d) : h[i] <= Len(d)
  <2>. HIDE DEF below
  <2>. QED  BY <1>3 DEF Heap
<1>. QED
  <2>. HIDE DEF h
  <2>. QED  BY <1>4, <1>5, <1>6 DEF Ranks

-----------------------------------------------------------------------------
(* Lists of entries *)

\* EntriesUpTo, for any heap and as far as n.
IsLists(f, d, ends, n) ==
  f = [k \in 0..n |->
         [j \in 0..Len(d) |-> IF k = 0 \/ j \in {0} \cup ends THEN <<>>
                              ELSE <<j>> \o f[k-1][Behind(d, j)]]]
Lists(d, ends) == (CHOOSE f : IsLists(f, d, ends, Len(d)))[Len(d)]

LEMMA ListsOf ==
  ASSUME NEW ends
  PROVE  EntriesUpTo(ends) = Lists(dict, ends) /\ EntriesUpTo(ends)' = Lists(dict', ends)
<1>1. EntriesUpTo(ends) = Lists(dict, ends)
  BY DEF EntriesUpTo, Lists, IsLists, Link, Behind
<1>2. EntriesUpTo(ends)' = Lists(dict', ends)
  BY DEF EntriesUpTo, Lists, IsLists, Link, Behind
<1>. QED  BY <1>1, <1>2

\* There is such a function, whatever the links are.
LEMMA ListsExist ==
  ASSUME NEW d, NEW ends, NEW n \in Nat
  PROVE  \E f : IsLists(f, d, ends, n)
<1>. DEFINE bad == {m \in Nat : ~\E f : IsLists(f, d, ends, m)}
<1>1. SUFFICES ASSUME bad # {} PROVE FALSE
  OBVIOUS
<1>2. PICK m \in bad : \A l \in bad : m <= l
  <2>1. bad \in SUBSET Nat
    OBVIOUS
  <2>. HIDE DEF bad
  <2>. QED  BY <1>1, <2>1, Least
<1>3. CASE m = 0
  <2>. DEFINE v == [k \in 0..0 |-> [j \in 0..Len(d) |-> <<>>]]
  <2>1. IsLists(v, d, ends, 0)
    BY DEF IsLists
  <2>. QED  BY <1>3, <2>1
<1>4. CASE m # 0
  <2>1. m - 1 \in Nat /\ m \in Nat /\ m - 1 \notin bad
    BY <1>2, <1>4
  <2>2. PICK f : IsLists(f, d, ends, m - 1)
    BY <2>1
  <2>. DEFINE row(g, k) == [j \in 0..Len(d) |->
                              IF k = 0 \/ j \in {0} \cup ends THEN <<>>
                              ELSE <<j>> \o g[k-1][Behind(d, j)]]
              v == [k \in 0..m |-> IF k = m THEN row(f, m) ELSE f[k]]
  <2>3. ASSUME NEW k \in 0..m PROVE v[k] = row(v, k)
    <3>1. k # 0 => v[k-1] = f[k-1]
      BY <2>1
    <3>2. row(v, k) = row(f, k)
      <4>. HIDE DEF v
      <4>. QED  BY <3>1
    <3>3. CASE k = m
      BY <3>2, <3>3
    <3>4. CASE k # m
      <4>1. k \in 0..(m-1)
        BY <2>1, <3>4
      <4>2. f[k] = row(f, k)
        BY <2>2, <4>1 DEF IsLists
      <4>. QED  BY <3>2, <3>4, <4>2
    <3>. QED  BY <3>3, <3>4
  <2>4. v = [k \in 0..m |-> v[k]]
    OBVIOUS
  <2>5. v = [k \in 0..m |-> row(v, k)]
    <3>. HIDE DEF v, row
    <3>. QED  BY <2>3, <2>4
  <2>6. IsLists(v, d, ends, m)
    <3>. HIDE DEF v
    <3>. QED  BY <2>5 DEF IsLists
  <2>. QED  BY <1>2, <2>6
<1>. QED  BY <1>3, <1>4

\* If the links form no circle, nothing is cut off: a list goes on with what is
\* behind its first entry.
Unfolds(L, d, ends) ==
  /\ L[0] = <<>>
  /\ \A j \in 1..Len(d) : L[j] = IF j \in ends THEN <<>> ELSE <<j>> \o L[Behind(d, j)]

LEMMA ListsUnfold ==
  ASSUME NEW d, Heap(d), Acyclic(d), NEW ends
  PROVE  Unfolds(Lists(d, ends), d, ends)
<1>. DEFINE f == CHOOSE g : IsLists(g, d, ends, Len(d))
<1>1. Len(d) \in Nat /\ 0 \in 0..Len(d) /\ Len(d) \in 0..Len(d)
  BY DEF Heap
<1>2. IsLists(f, d, ends, Len(d)) /\ Lists(d, ends) = f[Len(d)]
  BY <1>1, ListsExist DEF Lists
<1>. HIDE DEF f
<1>3. PICK h : Ranks(h, d) /\ \A i \in 0..Len(d) : h[i] <= Len(d)
  BY SmallRanks
<1>4. ASSUME NEW k \in 0..Len(d), NEW j \in 0..Len(d)
      PROVE  f[k][j] = IF k = 0 \/ j \in {0} \cup ends THEN <<>>
                       ELSE <<j>> \o f[k-1][Behind(d, j)]
  <2>. DEFINE row(g, m) == [i \in 0..Len(d) |-> IF m = 0 \/ i \in {0} \cup ends THEN <<>>
                                         ELSE <<i>> \o g[m-1][Behind(d, i)]]
  <2>1. f = [m \in 0..Len(d) |-> row(f, m)]
    BY <1>2 DEF IsLists
  <2>2. f[k] = row(f, k)
    <3>. HIDE DEF row
    <3>. QED  BY <2>1
  <2>. QED  BY <2>2
<1>. DEFINE settled == {j \in 0..Len(d) : \A k \in 0..Len(d) : h[j] <= k => f[k][j] = f[Len(d)][j]}
<1>5. 0 \in settled
  <2>1. \A k \in 0..Len(d) : f[k][0] = <<>>
    BY <1>1, <1>4
  <2>. QED  BY <1>1, <2>1
<1>6. ASSUME NEW j \in 1..Len(d), Behind(d, j) \in settled, j \notin ends
      PROVE  \A k \in 0..Len(d) : h[j] <= k => f[k][j] = <<j>> \o f[Len(d)][Behind(d, j)]
  <2>1. h[Behind(d, j)] \in Nat /\ h[j] \in Nat /\ h[Behind(d, j)] < h[j] /\ j \in 0..Len(d)
    <3>1. Behind(d, j) \in 0..Len(d) /\ j \in 0..Len(d)
      BY DEF Heap
    <3>2. h[Behind(d, j)] < h[j] /\ h \in [0..Len(d) -> Nat]
      <4>. HIDE DEF settled
      <4>. QED  BY <1>3 DEF Ranks
    <3>. QED  BY <3>1, <3>2
  <2>2. SUFFICES ASSUME NEW k \in 0..Len(d), h[j] <= k
                 PROVE  f[k][j] = <<j>> \o f[Len(d)][Behind(d, j)]
    OBVIOUS
  <2>3. k # 0 /\ k - 1 \in 0..Len(d) /\ h[Behind(d, j)] <= k - 1
    BY <1>1, <2>1, <2>2
  <2>4. f[k-1][Behind(d, j)] = f[Len(d)][Behind(d, j)]
    BY <1>6, <2>3
  <2>5. f[k][j] = <<j>> \o f[k-1][Behind(d, j)]
    <3>. HIDE DEF settled
    <3>1. j \notin {0} \cup ends /\ j \in 0..Len(d) /\ k # 0
      BY <1>6, <2>1, <2>3
    <3>. QED  BY <1>4, <3>1
  <2>. HIDE DEF settled
  <2>. QED  BY <2>4, <2>5
<1>7. ASSUME NEW j \in 1..Len(d), Behind(d, j) \in settled PROVE j \in settled
  <2>0. j \in 0..Len(d) /\ Len(d) \in 0..Len(d) /\ h[j] <= Len(d)
    BY <1>1, <1>3
  <2>1. CASE j \in ends
    BY <1>4, <2>0, <2>1
  <2>2. CASE j \notin ends
    <3>1. \A k \in 0..Len(d) : h[j] <= k => f[k][j] = <<j>> \o f[Len(d)][Behind(d, j)]
      BY <1>6, <1>7, <2>2
    <3>. QED  BY <2>0, <3>1
  <2>. QED  BY <2>1, <2>2
<1>8. \A j \in 0..Len(d) : j \in settled
  <2>. HIDE DEF settled
  <2>1. \A j \in 1..Len(d) : Behind(d, j) \in settled => j \in settled
    BY <1>7
  <2>. QED  BY <1>5, <2>1, Descent
<1>9. f[Len(d)][0] = <<>>
  BY <1>1, <1>4
<1>10. ASSUME NEW j \in 1..Len(d)
       PROVE  f[Len(d)][j] = IF j \in ends THEN <<>> ELSE <<j>> \o f[Len(d)][Behind(d, j)]
  <2>0. j \in 0..Len(d) /\ Len(d) \in 0..Len(d) /\ h[j] <= Len(d) /\ Behind(d, j) \in 0..Len(d)
    BY <1>1, <1>3 DEF Heap
  <2>1. CASE j \in ends
    BY <1>4, <2>0, <2>1
  <2>2. CASE j \notin ends
    <3>1. Behind(d, j) \in settled
      <4>. HIDE DEF settled
      <4>. QED  BY <1>8, <2>0
    <3>. QED  BY <1>6, <2>0, <2>2, <3>1
  <2>. QED  BY <2>1, <2>2
<1>. QED  BY <1>2, <1>9, <1>10 DEF Unfolds

Members(s) == {s[k] : k \in DOMAIN s}

\* The first of M in a list, or 0.
FirstIn(s, M) ==
  LET hits == {k \in DOMAIN s : s[k] \in M}
  IN IF hits = {} THEN 0 ELSE s[CHOOSE k \in hits : \A l \in hits : k <= l]

\* A list with an entry in front.
LEMMA Cons ==
  ASSUME NEW T, NEW j \in T, NEW s \in Seq(T)
  PROVE  /\ <<j>> \o s \in Seq(T) /\ Len(<<j>> \o s) = Len(s) + 1
         /\ (<<j>> \o s)[1] = j
         /\ \A k \in 1..Len(s) : (<<j>> \o s)[k + 1] = s[k]
         /\ Members(<<j>> \o s) = {j} \cup Members(s)
<1>. DEFINE t == <<j>> \o s
<1>1. t \in Seq(T) /\ Len(t) = Len(s) + 1 /\ Len(s) \in Nat /\ t[1] = j
  OBVIOUS
<1>2. \A k \in 1..Len(s) : t[k + 1] = s[k]
  OBVIOUS
<1>3. DOMAIN t = 1..Len(t) /\ DOMAIN s = 1..Len(s)
  BY <1>1
<1>. HIDE DEF t
<1>4. ASSUME NEW x \in Members(t) PROVE x \in {j} \cup Members(s)
  <2>1. PICK k \in 1..Len(t) : x = t[k]
    BY <1>3 DEF Members
  <2>2. CASE k = 1
    BY <1>1, <2>1, <2>2
  <2>3. CASE k # 1
    <3>1. k - 1 \in 1..Len(s) /\ (k - 1) + 1 = k
      BY <1>1, <2>3
    <3>2. x = s[k - 1]
      BY <1>2, <2>1, <3>1
    <3>. QED  BY <1>3, <3>1, <3>2 DEF Members
  <2>. QED  BY <2>2, <2>3
<1>5. j \in Members(t)
  <2>1. 1 \in DOMAIN t
    BY <1>1, <1>3
  <2>. QED  BY <1>1, <2>1 DEF Members
<1>6. ASSUME NEW x \in Members(s) PROVE x \in Members(t)
  <2>1. PICK k \in 1..Len(s) : x = s[k]
    BY <1>3 DEF Members
  <2>2. k + 1 \in DOMAIN t /\ t[k + 1] = x
    BY <1>1, <1>2, <1>3, <2>1
  <2>. QED  BY <2>2 DEF Members
<1>7. Members(t) = {j} \cup Members(s)
  BY <1>4, <1>5, <1>6
<1>. QED  BY <1>1, <1>2, <1>7 DEF t

InFront(j, s, t) == t = <<j>> \o s

\* The first of a set in such a list is its first entry or in the rest.
LEMMA FirstInCons ==
  ASSUME NEW T, NEW j \in T, NEW s \in Seq(T), NEW M, NEW t, InFront(j, s, t)
  PROVE  FirstIn(t, M) = IF j \in M THEN j ELSE FirstIn(s, M)
<1>. DEFINE hits(u) == {k \in DOMAIN u : u[k] \in M}
            least(N) == CHOOSE k \in N : \A l \in N : k <= l
<1>1. /\ t \in Seq(T) /\ Len(t) = Len(s) + 1 /\ Len(s) \in Nat /\ t[1] = j
      /\ \A k \in 1..Len(s) : t[k + 1] = s[k]
      /\ DOMAIN t = 1..Len(t) /\ DOMAIN s = 1..Len(s)
  BY Cons DEF InFront
<1>2. ASSUME NEW u
      PROVE  FirstIn(u, M) = IF hits(u) = {} THEN 0 ELSE u[least(hits(u))]
  BY DEF FirstIn
<1>3. \A k \in 1..Len(s) : k \in hits(s) <=> k + 1 \in hits(t)
  BY <1>1
<1>4. hits(s) \in SUBSET Nat /\ hits(t) \in SUBSET Nat /\ hits(s) \subseteq 1..Len(s)
      /\ hits(t) \subseteq 1..(Len(s) + 1)
  BY <1>1
<1>5. ASSUME NEW N \in SUBSET Nat, NEW n \in N, \A m \in N : n <= m
      PROVE  least(N) = n
  <2>1. least(N) \in N /\ \A m \in N : least(N) <= m
    BY <1>5
  <2>2. least(N) \in Nat /\ n \in Nat /\ least(N) <= n /\ n <= least(N)
    BY <1>5, <2>1
  <2>. QED  BY <2>2
<1>6. CASE j \in M
  <2>1. 1 \in hits(t) /\ \A k \in hits(t) : 1 <= k
    BY <1>1, <1>4, <1>6
  <2>2. least(hits(t)) = 1
    <3>. HIDE DEF hits, least
    <3>. QED  BY <1>4, <1>5, <2>1
  <2>. HIDE DEF hits, least
  <2>. QED  BY <1>1, <1>2, <1>6, <2>1, <2>2
<1>7. CASE j \notin M
  <2>1. 1 \notin hits(t)
    BY <1>1, <1>7
  <2>2. \A k \in hits(t) : k - 1 \in 1..Len(s) /\ k - 1 \in hits(s) /\ (k - 1) + 1 = k
    <3>1. \A k \in hits(t) : k - 1 \in 1..Len(s) /\ (k - 1) + 1 = k
      <4>. HIDE DEF hits
      <4>. QED  BY <1>1, <1>4, <2>1
    <3>. HIDE DEF hits
    <3>. QED  BY <1>3, <3>1
  <2>. HIDE DEF hits
  <2>3. CASE hits(s) = {}
    <3>1. hits(t) = {}
      BY <2>2, <2>3
    <3>. QED  BY <1>2, <1>7, <2>3, <3>1
  <2>4. CASE hits(s) # {}
    <3>1. PICK n \in hits(s) : \A m \in hits(s) : n <= m
      BY <1>4, <2>4, Least
    <3>2. n \in 1..Len(s) /\ n + 1 \in hits(t)
      BY <1>3, <1>4, <3>1
    <3>3. \A m \in hits(t) : n + 1 <= m
      BY <1>1, <1>4, <2>2, <3>1, <3>2
    <3>. HIDE DEF least
    <3>4. least(hits(s)) = n /\ least(hits(t)) = n + 1
      BY <1>4, <1>5, <3>1, <3>2, <3>3
    <3>5. t[n + 1] = s[n]
      BY <1>1, <3>2
    <3>. QED  BY <1>2, <1>7, <2>4, <3>2, <3>4, <3>5
  <2>. QED  BY <2>3, <2>4
<1>. QED  BY <1>6, <1>7

LEMMA FirstInNone ==
  ASSUME NEW M
  PROVE  FirstIn(<<>>, M) = 0 /\ Members(<<>>) = {}
BY DEF FirstIn, Members

-----------------------------------------------------------------------------
(* Facts about the lists of a heap, by induction along the links *)

\* Entries are listed, and none at which lists end.
LEMMA ListedEntries ==
  ASSUME NEW d, Heap(d), Acyclic(d), NEW ends
  PROVE  \A j \in 0..Len(d) : /\ Lists(d, ends)[j] \in Seq(1..Len(d))
                              /\ Members(Lists(d, ends)[j]) \cap ends = {}
<1>. DEFINE L == Lists(d, ends)
            fine == {j \in 0..Len(d) : L[j] \in Seq(1..Len(d)) /\ Members(L[j]) \cap ends = {}}
<1>1. Unfolds(L, d, ends)
  BY ListsUnfold
<1>. HIDE DEF L
<1>2. 0 \in fine
  <2>1. 0 \in 0..Len(d) /\ L[0] = <<>>
    BY <1>1 DEF Heap, Unfolds
  <2>2. <<>> \in Seq(1..Len(d)) /\ Members(<<>>) = {}
    BY FirstInNone
  <2>. QED  BY <2>1, <2>2
<1>3. ASSUME NEW j \in 1..Len(d), Behind(d, j) \in fine PROVE j \in fine
  <2>. DEFINE rest == L[Behind(d, j)]
  <2>0. j \in 0..Len(d) /\ rest \in Seq(1..Len(d)) /\ Members(rest) \cap ends = {}
    BY <1>3
  <2>1. CASE j \in ends
    <3>1. L[j] = <<>>
      BY <1>1, <2>1 DEF Unfolds
    <3>2. <<>> \in Seq(1..Len(d)) /\ Members(<<>>) = {}
      BY FirstInNone
    <3>. QED  BY <2>0, <3>1, <3>2
  <2>2. CASE j \notin ends
    <3>1. L[j] = <<j>> \o rest
      BY <1>1, <2>2 DEF Unfolds
    <3>. HIDE DEF rest
    <3>2. <<j>> \o rest \in Seq(1..Len(d)) /\ Members(<<j>> \o rest) = {j} \cup Members(rest)
      BY <2>0, Cons
    <3>. QED  BY <2>0, <2>2, <3>1, <3>2
  <2>. QED  BY <2>1, <2>2
<1>4. \A j \in 0..Len(d) : j \in fine
  <2>. HIDE DEF fine
  <2>. QED  BY <1>2, <1>3, Descent
<1>. QED  BY <1>4 DEF L

\* No list is longer than the ranks of the entries allow.
LEMMA ListsShort ==
  ASSUME NEW d, Heap(d), Acyclic(d), NEW ends
  PROVE  \A j \in 1..Len(d) : Len(Lists(d, ends)[Behind(d, j)]) < Len(d)
<1>. DEFINE L == Lists(d, ends)
<1>1. Unfolds(L, d, ends) /\ \A j \in 0..Len(d) : L[j] \in Seq(1..Len(d))
  BY ListsUnfold, ListedEntries
<1>. HIDE DEF L
<1>2. PICK h : Ranks(h, d) /\ \A i \in 0..Len(d) : h[i] <= Len(d)
  BY SmallRanks
<1>. DEFINE fine == {j \in 0..Len(d) : Len(L[j]) <= h[j]}
<1>3. 0 \in fine
  <2>1. 0 \in 0..Len(d) /\ L[0] = <<>> /\ h[0] = 0
    BY <1>1, <1>2 DEF Heap, Unfolds, Ranks
  <2>. QED  BY <2>1
<1>4. ASSUME NEW j \in 1..Len(d), Behind(d, j) \in fine PROVE j \in fine
  <2>. DEFINE rest == L[Behind(d, j)]
  <2>0. /\ j \in 0..Len(d) /\ Behind(d, j) \in 0..Len(d) /\ rest \in Seq(1..Len(d))
        /\ h[j] \in Nat /\ h[Behind(d, j)] \in Nat /\ h[Behind(d, j)] < h[j]
        /\ Len(rest) <= h[Behind(d, j)]
    <3>1. Behind(d, j) \in 0..Len(d) /\ Len(rest) <= h[Behind(d, j)]
      BY <1>4
    <3>2. j \in 0..Len(d) /\ rest \in Seq(1..Len(d))
      BY <1>1, <3>1
    <3>3. h[Behind(d, j)] < h[j] /\ h \in [0..Len(d) -> Nat]
      <4>. HIDE DEF fine, rest
      <4>. QED  BY <1>2 DEF Ranks
    <3>. HIDE DEF fine, rest
    <3>. QED  BY <3>1, <3>2, <3>3
  <2>1. CASE j \in ends
    <3>1. L[j] = <<>>
      BY <1>1, <2>1 DEF Unfolds
    <3>. QED  BY <2>0, <3>1
  <2>2. CASE j \notin ends
    <3>1. L[j] = <<j>> \o rest
      BY <1>1, <2>2 DEF Unfolds
    <3>. HIDE DEF rest
    <3>2. Len(<<j>> \o rest) = Len(rest) + 1 /\ Len(rest) \in Nat
      BY <2>0, Cons
    <3>. QED  BY <2>0, <3>1, <3>2
  <2>. QED  BY <2>1, <2>2
<1>5. \A j \in 0..Len(d) : j \in fine
  <2>. HIDE DEF fine
  <2>. QED  BY <1>3, <1>4, Descent
<1>6. ASSUME NEW j \in 1..Len(d) PROVE Len(L[Behind(d, j)]) < Len(d)
  <2>1. /\ j \in 0..Len(d) /\ Behind(d, j) \in 0..Len(d)
        /\ h[j] \in Nat /\ h[Behind(d, j)] \in Nat /\ h[Behind(d, j)] < h[j]
    <3>1. j \in 0..Len(d) /\ Behind(d, j) \in 0..Len(d)
      BY DEF Heap
    <3>2. h \in [0..Len(d) -> Nat] /\ h[Behind(d, j)] < h[j]
      BY <1>2 DEF Ranks
    <3>. QED  BY <3>1, <3>2
  <2>2. h[j] <= Len(d) /\ Len(L[Behind(d, j)]) <= h[Behind(d, j)] /\ Len(d) \in Nat
    BY <1>2, <1>5, <2>1 DEF Heap
  <2>3. Len(L[Behind(d, j)]) \in Nat
    BY <1>1, <2>1
  <2>. QED  BY <2>1, <2>2, <2>3
<1>. QED  BY <1>6 DEF L

\* Heaps in which lists go on alike have the same lists.
LEMMA SameLists ==
  ASSUME NEW d, Heap(d), Acyclic(d), NEW e, Heap(e), Acyclic(e),
         Len(d) <= Len(e), NEW ends, NEW others,
         \A j \in 1..Len(d) : /\ j \in ends <=> j \in others
                              /\ j \notin ends => Behind(e, j) = Behind(d, j)
  PROVE  \A j \in 0..Len(d) : Lists(e, others)[j] = Lists(d, ends)[j]
<1>. DEFINE L == Lists(d, ends)
            K == Lists(e, others)
            same == {j \in 0..Len(d) : K[j] = L[j]}
<1>1. Unfolds(L, d, ends) /\ Unfolds(K, e, others)
  BY ListsUnfold
<1>. HIDE DEF L, K
<1>2. 0 \in same
  BY <1>1 DEF Heap, Unfolds
<1>3. ASSUME NEW j \in 1..Len(d), Behind(d, j) \in same PROVE j \in same
  <2>1. j \in 0..Len(d) /\ j \in 1..Len(e)
    BY DEF Heap
  <2>2. CASE j \in ends
    <3>1. L[j] = <<>> /\ K[j] = <<>>
      BY <1>1, <2>1, <2>2 DEF Unfolds
    <3>. QED  BY <2>1, <3>1
  <2>3. CASE j \notin ends
    <3>1. L[j] = <<j>> \o L[Behind(d, j)] /\ K[j] = <<j>> \o K[Behind(e, j)]
      BY <1>1, <2>1, <2>3 DEF Unfolds
    <3>2. Behind(e, j) = Behind(d, j) /\ K[Behind(d, j)] = L[Behind(d, j)]
      BY <1>3, <2>3
    <3>. QED  BY <2>1, <3>1, <3>2
  <2>. QED  BY <2>2, <2>3
<1>4. \A j \in 0..Len(d) : j \in same
  <2>. HIDE DEF same
  <2>. QED  BY <1>2, <1>3, Descent
<1>. QED  BY <1>4 DEF L, K

\* What is reached from j on, and the first of a set that is reached.
Reached(d, j) == Members(Lists(d, {})[j])
FirstFrom(d, M, j) == FirstIn(Lists(d, {})[j], M)

LEMMA ReachedUnfolds ==
  ASSUME NEW d, Heap(d), Acyclic(d), NEW M
  PROVE  /\ Reached(d, 0) = {} /\ FirstFrom(d, M, 0) = 0
         /\ \A j \in 1..Len(d) :
              /\ Reached(d, j) = {j} \cup Reached(d, Behind(d, j))
              /\ FirstFrom(d, M, j) = IF j \in M THEN j ELSE FirstFrom(d, M, Behind(d, j))
<1>. DEFINE L == Lists(d, {})
<1>1. Unfolds(L, d, {}) /\ \A j \in 0..Len(d) : L[j] \in Seq(1..Len(d))
  BY ListsUnfold, ListedEntries
<1>2. Reached(d, 0) = {} /\ FirstFrom(d, M, 0) = 0
  BY <1>1, FirstInNone DEF Unfolds, Reached, FirstFrom
<1>3. ASSUME NEW j \in 1..Len(d)
      PROVE  /\ Reached(d, j) = {j} \cup Reached(d, Behind(d, j))
             /\ FirstFrom(d, M, j) = IF j \in M THEN j ELSE FirstFrom(d, M, Behind(d, j))
  <2>. DEFINE rest == L[Behind(d, j)]
  <2>1. rest \in Seq(1..Len(d)) /\ L[j] = <<j>> \o rest
    BY <1>1 DEF Heap, Unfolds
  <2>2. /\ Members(<<j>> \o rest) = {j} \cup Members(rest)
        /\ FirstIn(<<j>> \o rest, M) = IF j \in M THEN j ELSE FirstIn(rest, M)
    <3>. HIDE DEF rest
    <3>1. Members(<<j>> \o rest) = {j} \cup Members(rest)
      <4>1. PICK T : T = 1..Len(d)
        OBVIOUS
      <4>2. j \in T /\ rest \in Seq(T)
        BY <2>1, <4>1
      <4>. QED  BY <4>2, Cons
    <3>2. FirstIn(<<j>> \o rest, M) = IF j \in M THEN j ELSE FirstIn(rest, M)
      <4>. DEFINE T == 1..Len(d)
                  t == <<j>> \o rest
      <4>1. j \in T /\ rest \in Seq(T) /\ InFront(j, rest, t)
        BY <2>1 DEF InFront
      <4>. HIDE DEF T, t
      <4>2. FirstIn(t, M) = IF j \in M THEN j ELSE FirstIn(rest, M)
        BY <4>1, FirstInCons
      <4>. QED  BY <4>2 DEF t
    <3>. QED  BY <3>1, <3>2
  <2>. QED  BY <2>1, <2>2 DEF Reached, FirstFrom
<1>. QED  BY <1>2, <1>3

\* What is reached is an entry of no higher rank.
LEMMA ReachedBelow ==
  ASSUME NEW d, Heap(d), NEW r, Ranks(r, d)
  PROVE  \A j \in 0..Len(d) : \A i \in Reached(d, j) : i \in 1..Len(d) /\ r[i] <= r[j]
<1>. DEFINE fine == {j \in 0..Len(d) :
                       \A i \in Reached(d, j) : i \in 1..Len(d) /\ r[i] <= r[j]}
<1>0. Acyclic(d)
  BY DEF Acyclic
<1>1. /\ Reached(d, 0) = {}
      /\ \A j \in 1..Len(d) : Reached(d, j) = {j} \cup Reached(d, Behind(d, j))
  BY <1>0, ReachedUnfolds
<1>2. 0 \in fine
  BY <1>1 DEF Heap
<1>3. ASSUME NEW j \in 1..Len(d), Behind(d, j) \in fine PROVE j \in fine
  <2>1. /\ Behind(d, j) \in 0..Len(d) /\ j \in 0..Len(d)
        /\ \A i \in Reached(d, Behind(d, j)) : i \in 1..Len(d) /\ r[i] <= r[Behind(d, j)]
    BY <1>3
  <2>2. r[Behind(d, j)] < r[j] /\ r \in [0..Len(d) -> Nat]
    <3>. HIDE DEF fine
    <3>. QED  BY DEF Ranks
  <2>3. ASSUME NEW i \in Reached(d, j) PROVE i \in 1..Len(d) /\ r[i] <= r[j]
    <3>1. i = j \/ i \in Reached(d, Behind(d, j))
      BY <1>1
    <3>2. CASE i = j
      BY <2>1, <2>2, <3>2
    <3>3. CASE i \in Reached(d, Behind(d, j))
      <4>1. i \in 1..Len(d) /\ i \in 0..Len(d) /\ r[i] <= r[Behind(d, j)]
        BY <2>1, <3>3
      <4>. HIDE DEF fine
      <4>. QED  BY <2>1, <2>2, <4>1
    <3>. QED  BY <3>1, <3>2, <3>3
  <2>. QED  BY <2>1, <2>3
<1>4. \A j \in 0..Len(d) : j \in fine
  <2>. HIDE DEF fine
  <2>. QED  BY <1>0, <1>2, <1>3, Descent
<1>. QED  BY <1>4

\* The first of a set that is reached is one that is reached.
LEMMA FirstIsReached ==
  ASSUME NEW d, Heap(d), Acyclic(d), NEW M
  PROVE  \A j \in 0..Len(d) : FirstFrom(d, M, j) \in {0} \cup (M \cap Reached(d, j))
<1>. DEFINE fine == {j \in 0..Len(d) : FirstFrom(d, M, j) \in {0} \cup (M \cap Reached(d, j))}
<1>1. /\ FirstFrom(d, M, 0) = 0
      /\ \A j \in 1..Len(d) :
           /\ Reached(d, j) = {j} \cup Reached(d, Behind(d, j))
           /\ FirstFrom(d, M, j) = IF j \in M THEN j ELSE FirstFrom(d, M, Behind(d, j))
  BY ReachedUnfolds
<1>2. 0 \in fine
  BY <1>1 DEF Heap
<1>3. ASSUME NEW j \in 1..Len(d), Behind(d, j) \in fine PROVE j \in fine
  BY <1>1, <1>3
<1>4. \A j \in 0..Len(d) : j \in fine
  <2>. HIDE DEF fine
  <2>. QED  BY <1>2, <1>3, Descent
<1>. QED  BY <1>4

\* A step of the dictionary leaves a link as it is, or puts an entry between
\* the two that it leads from and to.
Spliced(d, e, j) ==
  /\ Behind(e, j) \in 1..Len(e)
  /\ Behind(e, Behind(e, j)) = Behind(d, j)
Grows(d, e) ==
  /\ Len(d) <= Len(e)
  /\ \A j \in 1..Len(d) : Behind(e, j) = Behind(d, j) \/ Spliced(d, e, j)

LEMMA ReachedGrows ==
  ASSUME NEW d, Heap(d), Acyclic(d), NEW e, Heap(e), Acyclic(e), Grows(d, e)
  PROVE  \A j \in 0..Len(d) : Reached(d, j) \subseteq Reached(e, j)
<1>. DEFINE fine == {j \in 0..Len(d) : Reached(d, j) \subseteq Reached(e, j)}
<1>1. /\ Reached(d, 0) = {}
      /\ \A j \in 1..Len(d) : Reached(d, j) = {j} \cup Reached(d, Behind(d, j))
      /\ \A j \in 1..Len(e) : Reached(e, j) = {j} \cup Reached(e, Behind(e, j))
  BY ReachedUnfolds
<1>2. 0 \in fine
  BY <1>1 DEF Heap
<1>3. ASSUME NEW j \in 1..Len(d), Behind(d, j) \in fine PROVE j \in fine
  <2>1. j \in 0..Len(d) /\ Reached(d, Behind(d, j)) \subseteq Reached(e, Behind(d, j))
    BY <1>3
  <2>2. j \in 1..Len(e)
    BY DEF Grows, Heap
  <2>3. Reached(e, Behind(d, j)) \subseteq Reached(e, Behind(e, j))
    <3>1. CASE Behind(e, j) = Behind(d, j)
      BY <3>1
    <3>2. CASE Spliced(d, e, j)
      BY <1>1, <3>2 DEF Spliced
    <3>. QED  BY <3>1, <3>2 DEF Grows
  <2>. QED  BY <1>1, <2>1, <2>2, <2>3
<1>4. \A j \in 0..Len(d) : j \in fine
  <2>. HIDE DEF fine
  <2>. QED  BY <1>2, <1>3, Descent
<1>. QED  BY <1>4

-----------------------------------------------------------------------------
(* What the steps do to a heap *)

Entries == [name : Name \cup {Empty, muchain}, link : Nat]
Good(d) == d \in Seq(Entries) /\ Heap(d) /\ Acyclic(d)

\* The entry m named last for the chain c: nothing else links to it, and c
\* does or links to what m links to.
Last(d, m, c) ==
  /\ m \in 1..Len(d) /\ c \in 1..Len(d)
  /\ d[c].name = muchain /\ d[m].name # muchain
  /\ \A i \in 1..Len(d) : d[i].link = m => i = c
  /\ d[c].link \in {m, d[m].link}

\* A heap that goes on where another ends.
Longer(d, e) ==
  /\ Len(e) = Len(d) + 1
  /\ \A i \in 1..Len(d) : e[i] = d[i]

LEMMA LongerGrows ==
  ASSUME NEW d, Heap(d), NEW e, Longer(d, e)
  PROVE  /\ Grows(d, e)
         /\ \A i \in 1..Len(d) : Behind(e, i) = Behind(d, i)
BY DEF Heap, Longer, Grows, Behind

LEMMA GrowsTwice ==
  ASSUME NEW d, Heap(d), NEW e, Heap(e), NEW f
  PROVE  /\ Longer(d, e) /\ Grows(e, f) => (Len(f) \in Nat => Grows(d, f))
         /\ Grows(d, e) /\ Longer(e, f) => Grows(d, f)
<1>1. ASSUME Longer(d, e), Grows(e, f), Len(f) \in Nat PROVE Grows(d, f)
  <2>1. Len(d) <= Len(f)
    BY <1>1 DEF Heap, Longer, Grows
  <2>2. ASSUME NEW j \in 1..Len(d)
        PROVE  Behind(f, j) = Behind(d, j) \/ Spliced(d, f, j)
    <3>0. Behind(e, j) = Behind(d, j)
      BY <1>1, LongerGrows
    <3>1. j \in 1..Len(e) /\ Behind(e, j) = Behind(d, j)
      BY <1>1, <3>0 DEF Heap, Longer
    <3>2. Behind(f, j) = Behind(e, j) \/ Spliced(e, f, j)
      BY <1>1, <3>1 DEF Grows
    <3>. QED  BY <3>1, <3>2 DEF Spliced
  <2>. QED  BY <2>1, <2>2 DEF Grows
<1>2. ASSUME Grows(d, e), Longer(e, f) PROVE Grows(d, f)
  <2>1. Len(d) <= Len(f)
    BY <1>2 DEF Heap, Longer, Grows
  <2>2. ASSUME NEW j \in 1..Len(d)
        PROVE  Behind(f, j) = Behind(d, j) \/ Spliced(d, f, j)
    <3>1. j \in 1..Len(e) /\ Behind(f, j) = Behind(e, j)
      BY <1>2, LongerGrows DEF Heap, Grows
    <3>2. CASE Spliced(d, e, j)
      <4>1. /\ Behind(f, j) \in 1..Len(e)
            /\ Behind(e, Behind(f, j)) = Behind(d, j)
        BY <3>1, <3>2 DEF Spliced
      <4>2. Behind(f, Behind(f, j)) = Behind(d, j)
        BY <1>2, <4>1, LongerGrows
      <4>3. Behind(f, j) \in 1..Len(f)
        BY <1>2, <4>1 DEF Heap, Longer
      <4>. QED  BY <4>2, <4>3 DEF Spliced
    <3>. QED  BY <1>2, <3>1, <3>2 DEF Grows
  <2>. QED  BY <2>1, <2>2 DEF Grows
<1>. QED  BY <1>1, <1>2

-----------------------------------------------------------------------------
(* Links that form no circle *)

\* An entry that links to one that is there has the next higher rank.
LEMMA AppendAcyclic ==
  ASSUME NEW d, Heap(d), Acyclic(d), NEW T, d \in Seq(T), NEW x \in T,
         x.link \in 0..Len(d)
  PROVE  Heap(Append(d, x)) /\ Acyclic(Append(d, x)) /\ Grows(d, Append(d, x))
<1>. DEFINE e == Append(d, x)
            n == Len(d)
<1>1. n \in Nat /\ Len(e) = n + 1 /\ e[n + 1] = x /\ \A i \in 1..n : e[i] = d[i]
  OBVIOUS
<1>2. PICK r : Ranks(r, d)
  BY DEF Acyclic
<1>. DEFINE s == [i \in 0..(n + 1) |-> IF i = n + 1 THEN r[x.link] + 1 ELSE r[i]]
<1>. HIDE DEF e
<1>3. (\A i \in 1..n : Behind(e, i) = Behind(d, i)) /\ Behind(e, n + 1) = x.link
  BY <1>1 DEF Behind
<1>4. Heap(e)
  BY <1>1, <1>3 DEF Heap
<1>5. r \in [0..n -> Nat] /\ r[0] = 0 /\ \A i \in 1..n : r[Behind(d, i)] < r[i]
  BY <1>2 DEF Ranks
<1>6. s \in [0..(n + 1) -> Nat] /\ s[0] = 0
  BY <1>1, <1>5
<1>7. ASSUME NEW i \in 1..(n + 1) PROVE s[Behind(e, i)] < s[i]
  <2>1. CASE i = n + 1
    BY <1>1, <1>3, <1>5, <2>1
  <2>2. CASE i # n + 1
    <3>1. i \in 1..n /\ Behind(d, i) \in 0..n
      BY <1>1, <2>2 DEF Heap
    <3>2. s[i] = r[i] /\ s[Behind(d, i)] = r[Behind(d, i)]
      BY <1>1, <3>1
    <3>. QED  BY <1>3, <1>5, <3>1, <3>2
  <2>. QED  BY <2>1, <2>2
<1>8. Acyclic(e)
  <2>. HIDE DEF s
  <2>. QED  BY <1>1, <1>6, <1>7 DEF Acyclic, Ranks
<1>9. Grows(d, e)
  BY <1>1, <1>3 DEF Grows
<1>. QED  BY <1>4, <1>8, <1>9 DEF e

\* m comes between c and what c linked to, if m links there and nothing, or only
\* c, links to m. The ranks are doubled to make room for it.
LEMMA SpliceAcyclic ==
  ASSUME NEW d, Heap(d), Acyclic(d), NEW e, Len(e) = Len(d),
         NEW c \in 1..Len(d), NEW m \in 1..Len(d), c # m,
         Behind(e, c) = m,
         \A i \in 1..Len(d) : i # c => Behind(e, i) = Behind(d, i) /\ Behind(d, i) # m,
         Behind(d, c) \in {m, Behind(d, m)}
  PROVE  Heap(e) /\ Acyclic(e) /\ Grows(d, e)
<1>. DEFINE n == Len(d)
<1>1. n \in Nat /\ \A i \in 1..n : Behind(d, i) \in 0..n
  BY DEF Heap
<1>2. Heap(e)
  BY <1>1 DEF Heap
<1>3. Grows(d, e)
  BY <1>1 DEF Grows, Spliced
<1>4. CASE Behind(d, c) = m
  <2>1. \A i \in 1..n : Behind(e, i) = Behind(d, i)
    BY <1>4
  <2>2. Acyclic(e)
    BY <2>1 DEF Acyclic, Ranks
  <2>. QED  BY <1>2, <1>3, <2>2
<1>5. CASE Behind(d, c) = Behind(d, m)
  <2>1. PICK r : Ranks(r, d)
    BY DEF Acyclic
  <2>2. r \in [0..n -> Nat] /\ r[0] = 0 /\ \A i \in 1..n : r[Behind(d, i)] < r[i]
    BY <2>1 DEF Ranks
  <2>. DEFINE s == [i \in 0..n |-> IF i = m THEN 2 * r[Behind(d, m)] + 1 ELSE 2 * r[i]]
  <2>3. s \in [0..n -> Nat] /\ s[0] = 0
    BY <1>1, <2>2
  <2>4. ASSUME NEW i \in 1..n PROVE s[Behind(e, i)] < s[i]
    <3>1. Behind(d, i) \in 0..n /\ i \in 0..n /\ r[Behind(d, i)] \in Nat /\ r[i] \in Nat
          /\ r[Behind(d, i)] < r[i]
      BY <1>1, <2>2
    <3>2. CASE i = c
      BY <1>5, <2>2, <3>1, <3>2
    <3>3. CASE i # c
      <4>1. Behind(e, i) = Behind(d, i) /\ Behind(d, i) # m
        BY <3>3
      <4>2. s[Behind(e, i)] = 2 * r[Behind(d, i)]
        BY <3>1, <4>1
      <4>3. CASE i = m
        BY <3>1, <4>2, <4>3
      <4>4. CASE i # m
        BY <3>1, <4>2, <4>4
      <4>. QED  BY <4>3, <4>4
    <3>. QED  BY <3>2, <3>3
  <2>5. Acyclic(e)
    <3>. HIDE DEF s
    <3>. QED  BY <2>3, <2>4 DEF Acyclic, Ranks
  <2>. QED  BY <1>2, <1>3, <2>5
<1>. QED  BY <1>4, <1>5

IsAppended(e, d, nm, l) == l \in 0..Len(d) /\ e = Append(d, Entry(nm, l))

\* An entry is appended to the heap.
LEMMA Appended ==
  ASSUME NEW d, Good(d), NEW nm \in Name \cup {Empty, muchain}, NEW l,
         NEW e, IsAppended(e, d, nm, l)
  PROVE  /\ Good(e) /\ Longer(d, e) /\ Len(d) \in Nat
         /\ e[Len(d) + 1].name = nm /\ e[Len(d) + 1].link = l
<1>. DEFINE x == Entry(nm, l)
<1>1. Len(d) \in Nat /\ d \in Seq(Entries) /\ Heap(d) /\ Acyclic(d) /\ l \in 0..Len(d)
  BY DEF Good, Heap, IsAppended
<1>2. x \in Entries /\ x.name = nm /\ x.link = l
  BY <1>1 DEF Entries, Entry
<1>0. e = Append(d, x)
  BY DEF IsAppended
<1>. HIDE DEF x
<1>3. Heap(e) /\ Acyclic(e)
  BY <1>0, <1>1, <1>2, AppendAcyclic
<1>4. e \in Seq(Entries) /\ Longer(d, e) /\ e[Len(d) + 1] = x
  BY <1>0, <1>1, <1>2 DEF Longer
<1>5. Good(e)
  BY <1>3, <1>4 DEF Good
<1>. QED  BY <1>1, <1>2, <1>4, <1>5 DEF x

\* A word is named for a chain.
LEMMA NamedGood ==
  ASSUME NEW d, Good(d), NEW c \in 1..Len(d), d[c].name = muchain,
         NEW nm \in Name \cup {Empty}, nm # muchain
  PROVE  LET e == Append(d, Entry(nm, d[c].link))
         IN /\ Good(e) /\ Longer(d, e) /\ Last(e, Len(d) + 1, c)
            /\ e[Len(d) + 1].name = nm /\ e[Len(d) + 1].link = d[c].link
<1>. DEFINE e == Append(d, Entry(nm, d[c].link))
            m == Len(d) + 1
<1>1. Len(d) \in Nat /\ \A i \in 1..Len(d) : d[i].link \in 0..Len(d)
  BY DEF Good, Heap, Behind
<1>2. /\ Good(e) /\ Longer(d, e)
      /\ e[m].name = nm /\ e[m].link = d[c].link
  <2>1. d[c].link \in 0..Len(d) /\ nm \in Name \cup {Empty, muchain}
    BY <1>1
  <2>2. IsAppended(e, d, nm, d[c].link)
    BY <2>1 DEF IsAppended
  <2>. HIDE DEF e
  <2>. QED  BY <2>1, <2>2, Appended
<1>. HIDE DEF e
<1>3. Last(e, m, c)
  <2>1. Len(e) = m /\ m \in 1..Len(e) /\ c \in 1..Len(e) /\ e[c] = d[c]
    BY <1>1, <1>2 DEF Longer
  <2>2. ASSUME NEW i \in 1..Len(e), e[i].link = m PROVE FALSE
    <3>1. CASE i = m
      BY <1>1, <1>2, <2>2, <3>1
    <3>2. CASE i # m
      <4>1. i \in 1..Len(d) /\ e[i] = d[i]
        BY <1>1, <1>2, <2>1, <3>2 DEF Longer
      <4>. QED  BY <1>1, <2>2, <4>1
    <3>. QED  BY <3>1, <3>2
  <2>. QED  BY <1>2, <2>1, <2>2 DEF Last
<1>. QED  BY <1>2, <1>3 DEF e

\* It is shown.
LEMMA ShownGood ==
  ASSUME NEW d, Good(d), NEW m, NEW c, Last(d, m, c)
  PROVE  LET e == Show(d, m, c)
         IN /\ Good(e) /\ Grows(d, e) /\ Last(e, m, c) /\ Len(e) = Len(d)
            /\ e[c].link = m
            /\ \A i \in 1..Len(d) : e[i].name = d[i].name /\ (i # c => e[i] = d[i])
<1>. DEFINE e == Show(d, m, c)
<1>1. /\ Len(d) \in Nat /\ d \in Seq(Entries) /\ Heap(d) /\ Acyclic(d)
      /\ \A i \in 1..Len(d) : d[i].link \in 0..Len(d) /\ d[i] \in Entries
  BY DEF Good, Heap, Behind
<1>2. /\ m \in 1..Len(d) /\ c \in 1..Len(d)
      /\ d[c].name = muchain /\ d[m].name # muchain
      /\ \A i \in 1..Len(d) : d[i].link = m => i = c
      /\ d[c].link \in {m, d[m].link}
  BY DEF Last
<1>3. /\ e \in Seq(Entries) /\ Len(e) = Len(d)
      /\ e[c].link = m /\ e[c].name = d[c].name
      /\ \A i \in 1..Len(d) : i # c => e[i] = d[i]
  <2>. DEFINE x == [d[c] EXCEPT !.link = m]
  <2>1. x \in Entries /\ x.link = m /\ x.name = d[c].name
    <3>1. PICK y \in Entries : y = d[c]
      BY <1>1, <1>2
    <3>2. m \in Nat
      BY <1>1, <1>2
    <3>3. [y EXCEPT !.link = m] \in Entries /\ [y EXCEPT !.link = m].link = m
          /\ [y EXCEPT !.link = m].name = y.name
      BY <3>2 DEF Entries
    <3>. QED  BY <3>1, <3>3
  <2>2. e = [d EXCEPT ![c] = x]
    BY DEF Show
  <2>. HIDE DEF x, e
  <2>. QED  BY <1>1, <1>2, <2>1, <2>2
<1>. HIDE DEF e
<1>4. \A i \in 1..Len(d) : e[i].name = d[i].name
  BY <1>3
<1>5. c # m
  BY <1>2
<1>6. \A i \in 1..Len(d) : Behind(d, i) = d[i].link /\ Behind(e, i) = e[i].link
  BY DEF Behind
<1>7. Heap(e) /\ Acyclic(e) /\ Grows(d, e)
  <2>1. /\ Behind(e, c) = m /\ Behind(d, c) \in {m, Behind(d, m)}
        /\ \A i \in 1..Len(d) : i # c => Behind(e, i) = Behind(d, i) /\ Behind(d, i) # m
    BY <1>2, <1>3, <1>6
  <2>. QED  BY <1>1, <1>2, <1>3, <1>5, <2>1, SpliceAcyclic
<1>8. Last(e, m, c)
  BY <1>2, <1>3, <1>4, <1>5 DEF Last
<1>9. Good(e)
  BY <1>3, <1>7 DEF Good
<1>. QED  BY <1>3, <1>4, <1>7, <1>8, <1>9 DEF e

\* The head of a new chain follows.
LEMMA HeadedGood ==
  ASSUME NEW d, Good(d), NEW m, NEW c, Last(d, m, c), NEW a \in 0..Len(d), a # m
  PROVE  LET e == Append(d, Entry(muchain, a))
         IN /\ Good(e) /\ Longer(d, e) /\ Last(e, m, c)
            /\ e[Len(d) + 1].name = muchain /\ e[Len(d) + 1].link = a
<1>. DEFINE e == Append(d, Entry(muchain, a))
<1>1. /\ Good(e) /\ Longer(d, e) /\ Len(d) \in Nat
      /\ e[Len(d) + 1].name = muchain /\ e[Len(d) + 1].link = a
  <2>1. IsAppended(e, d, muchain, a) /\ muchain \in Name \cup {Empty, muchain}
    BY DEF IsAppended
  <2>. HIDE DEF e
  <2>. QED  BY <2>1, Appended
<1>. HIDE DEF e
<1>2. Last(e, m, c)
  <2>1. /\ m \in 1..Len(d) /\ c \in 1..Len(d)
        /\ d[c].name = muchain /\ d[m].name # muchain
        /\ \A i \in 1..Len(d) : d[i].link = m => i = c
        /\ d[c].link \in {m, d[m].link}
    BY DEF Last
  <2>2. Len(e) = Len(d) + 1 /\ e[m] = d[m] /\ e[c] = d[c]
    BY <1>1, <2>1 DEF Longer
  <2>3. ASSUME NEW i \in 1..Len(e), e[i].link = m PROVE i = c
    <3>1. i # Len(d) + 1
      BY <1>1, <2>3
    <3>2. i \in 1..Len(d)
      BY <1>1, <2>2, <3>1
    <3>. QED  BY <1>1, <2>1, <2>3, <3>2 DEF Longer
  <2>4. m \in 1..Len(e) /\ c \in 1..Len(e)
    BY <1>1, <2>1, <2>2
  <2>. QED  BY <2>1, <2>2, <2>3, <2>4 DEF Last
<1>. QED  BY <1>1, <1>2 DEF e

\* A word loses its name.
LEMMA HiddenGood ==
  ASSUME NEW d, Good(d), NEW m, NEW c, Last(d, m, c), NEW i \in 1..Len(d),
         d[i].name # muchain, Empty # muchain
  PROVE  LET e == [d EXCEPT ![i].name = Empty]
         IN /\ Good(e) /\ Grows(d, e) /\ Last(e, m, c) /\ Len(e) = Len(d)
            /\ \A j \in 1..Len(d) : /\ e[j].link = d[j].link
                                    /\ j # i => e[j] = d[j]
            /\ e[i].name = Empty
<1>. DEFINE e == [d EXCEPT ![i].name = Empty]
<1>1. /\ Len(d) \in Nat /\ d \in Seq(Entries) /\ Heap(d) /\ Acyclic(d)
      /\ \A j \in 1..Len(d) : d[j] \in Entries
  BY DEF Good, Heap
<1>2. /\ e \in Seq(Entries) /\ Len(e) = Len(d)
      /\ e[i].link = d[i].link /\ e[i].name = Empty
      /\ \A j \in 1..Len(d) : j # i => e[j] = d[j]
  <2>. DEFINE x == [d[i] EXCEPT !.name = Empty]
  <2>1. x \in Entries /\ x.link = d[i].link /\ x.name = Empty
    BY <1>1 DEF Entries
  <2>2. e = [d EXCEPT ![i] = x]
    OBVIOUS
  <2>. HIDE DEF x, e
  <2>. QED  BY <1>1, <2>1, <2>2
<1>. HIDE DEF e
<1>3. \A j \in 1..Len(d) : e[j].link = d[j].link
  BY <1>2
<1>4. \A j \in 0..Len(d) : Behind(e, j) = Behind(d, j)
  BY <1>1, <1>3 DEF Behind
<1>5. Heap(e) /\ Acyclic(e) /\ Grows(d, e)
  <2>1. Heap(e) /\ Grows(d, e)
    BY <1>1, <1>2, <1>4 DEF Heap, Grows
  <2>2. PICK r : Ranks(r, d)
    BY <1>1 DEF Acyclic
  <2>3. Ranks(r, e)
    BY <1>1, <1>2, <1>4, <2>2 DEF Ranks
  <2>. QED  BY <2>1, <2>3 DEF Acyclic
<1>6. Last(e, m, c)
  <2>1. c # i
    BY DEF Last
  <2>. QED  BY <1>2, <1>3, <2>1 DEF Last
<1>7. Good(e)
  BY <1>2, <1>5 DEF Good
<1>. QED  BY <1>2, <1>3, <1>5, <1>6, <1>7 DEF e

-----------------------------------------------------------------------------
(* The inductive invariant of the dictionary *)

DictInvariant ==
  /\ Good(dict) /\ Last(dict, last_name, last_chain)
  /\ current \in Chains
  /\ match \in {"strncmp", "strncasecmp"}
  /\ state \in {"interpret", "compile"}
  /\ building \in {0, last_name} /\ (state = "interpret" => building = 0)
  /\ finished \subseteq 1..Len(dict)

LEMMA StoredNames ==
  ASSUME NameAssumption, NEW t \in Token
  PROVE  Stored(t) \in Name \cup {Empty} /\ Stored(t) # muchain
BY DEF NameAssumption, Token, Stored

\* What the invariant says of the heap, where it is needed.
LEMMA GoodHeap ==
  ASSUME DictInvariant
  PROVE  /\ Len(dict) \in Nat /\ Heap(dict) /\ Acyclic(dict)
         /\ \A i \in 1..Len(dict) : dict[i].link \in 0..Len(dict) /\ dict[i] \in Entries
         /\ current \in 1..Len(dict) /\ dict[current].name = muchain
         /\ last_name \in 1..Len(dict) /\ last_chain \in 1..Len(dict)
BY DEF DictInvariant, Good, Heap, Behind, Chains, IsChain, Last

LEMMA DictInitGood ==
  ASSUME NameAssumption, DictInit
  PROVE  DictInvariant
<1>. DEFINE r == [i \in 0..9 |-> IF i = 0 THEN 0 ELSE IF i = 2 THEN 1 ELSE IF i = 1 THEN 2
                             ELSE IF i = 3 THEN 3 ELSE IF i = 5 THEN 4
                             ELSE IF i = 7 THEN 5 ELSE IF i = 9 THEN 6
                             ELSE IF i = 4 THEN 7 ELSE 8]
<1>1. /\ Len(dict) = 9
      /\ dict[1] = Entry(core, 2) /\ dict[2] = Entry(muchain, 0) /\ dict[3] = Entry(core, 1)
      /\ dict[4] = Entry(muchain, 9) /\ dict[5] = Entry(core, 3)
      /\ dict[6] = Entry(muchain, 2) /\ dict[7] = Entry(core, 5)
      /\ dict[8] = Entry(muchain, 4) /\ dict[9] = Entry(core, 7)
  BY DEF DictInit, Lex, Forth
<1>2. core # muchain /\ core \in Name
  BY DEF NameAssumption
<1>3. /\ dict[1].link = 2 /\ dict[2].link = 0 /\ dict[3].link = 1
      /\ dict[4].link = 9 /\ dict[5].link = 3 /\ dict[6].link = 2
      /\ dict[7].link = 5 /\ dict[8].link = 4 /\ dict[9].link = 7
      /\ dict[2].name = muchain /\ dict[4].name = muchain
      /\ dict[6].name = muchain /\ dict[8].name = muchain
      /\ dict[1].name = core /\ dict[3].name = core /\ dict[5].name = core
      /\ dict[7].name = core /\ dict[9].name = core
  BY <1>1 DEF Entry
<1>4. \A i \in 1..9 : i \in {1, 2, 3, 4, 5, 6, 7, 8, 9}
  OBVIOUS
<1>5. dict \in Seq(Entries)
  <2>1. Entry(core, 2) \in Entries /\ Entry(muchain, 0) \in Entries
        /\ Entry(core, 1) \in Entries /\ Entry(muchain, 9) \in Entries
        /\ Entry(core, 3) \in Entries /\ Entry(muchain, 2) \in Entries
        /\ Entry(core, 5) \in Entries /\ Entry(muchain, 4) \in Entries
        /\ Entry(core, 7) \in Entries
    BY <1>2 DEF Entry, Entries
  <2>. HIDE DEF Entry, Entries
  <2>. QED  BY <2>1 DEF DictInit, Lex, Forth
<1>6. \A i \in 1..9 : Behind(dict, i) = dict[i].link
  BY DEF Behind
<1>7. Heap(dict)
  <2>1. \A i \in 1..9 : dict[i].link \in 0..9
    BY <1>3, <1>4
  <2>. QED  BY <1>1, <1>6, <2>1 DEF Heap
<1>8. Acyclic(dict)
  <2>1. r \in [0..9 -> Nat] /\ r[0] = 0
    OBVIOUS
  <2>2. ASSUME NEW i \in 1..9 PROVE r[dict[i].link] < r[i]
    <3>1. /\ r[0] = 0 /\ r[2] = 1 /\ r[1] = 2 /\ r[3] = 3 /\ r[5] = 4 /\ r[7] = 5
          /\ r[9] = 6 /\ r[4] = 7 /\ r[6] = 8 /\ r[8] = 8
      OBVIOUS
    <3>. HIDE DEF r
    <3>. QED  BY <1>3, <1>4, <3>1
  <2>. HIDE DEF r
  <2>3. Ranks(r, dict)
    BY <1>1, <1>6, <2>1, <2>2 DEF Ranks
  <2>. QED  BY <2>3 DEF Acyclic
<1>9. Last(dict, last_name, last_chain)
  <2>1. last_name = 9 /\ last_chain = 4
    BY DEF DictInit, Forth
  <2>2. \A i \in 1..9 : dict[i].link = 9 => i = 4
    BY <1>3, <1>4
  <2>. QED  BY <1>1, <1>2, <1>3, <2>1, <2>2 DEF Last
<1>10. current \in Chains
  BY <1>1, <1>3 DEF Chains, IsChain, DictInit, Forth
<1>11. /\ match \in {"strncmp", "strncasecmp"}
       /\ state \in {"interpret", "compile"}
       /\ building \in {0, last_name} /\ (state = "interpret" => building = 0)
       /\ finished \subseteq 1..Len(dict)
  BY <1>1 DEF DictInit
<1>. QED  BY <1>5, <1>7, <1>8, <1>9, <1>10, <1>11 DEF DictInvariant, Good

\* Chains remain chains, for names never become those of chains or cease to.
KeepsChains(d, e) ==
  \A i \in 1..Len(d) : i \in 1..Len(e) /\ (d[i].name = muchain <=> e[i].name = muchain)

\* find is the first entry that matches of those behind a chain.
Matching(t) == {i \in 1..Len(dict) : Matches(i, t)}

LEMMA FindIsFirst ==
  ASSUME DictInvariant, NEW t, NEW c \in 1..Len(dict)
  PROVE  /\ Find(t, c) = FirstFrom(dict, Matching(t), dict[c].link)
         /\ Reach(c) = Reached(dict, dict[c].link)
<1>. DEFINE path == Lists(dict, {})[dict[c].link]
<1>1. Path(c) = path
  BY ListsOf DEF Path, Link
<1>2. path \in Seq(1..Len(dict))
  BY GoodHeap, ListedEntries
<1>. HIDE DEF path
<1>. DEFINE found == {k \in DOMAIN path : Matches(path[k], t)}
            hits == {k \in DOMAIN path : path[k] \in Matching(t)}
            first(N) == IF N = {} THEN 0 ELSE path[CHOOSE k \in N : \A l \in N : k <= l]
<1>3. found = hits
  <2>1. \A k \in DOMAIN path : path[k] \in 1..Len(dict)
    BY <1>2
  <2>. QED  BY <2>1 DEF Matching
<1>4. Find(t, c) = FirstIn(path, Matching(t))
  <2>1. Find(t, c) = first(found)
    BY <1>1 DEF Find
  <2>2. FirstIn(path, Matching(t)) = first(hits)
    BY DEF FirstIn
  <2>. HIDE DEF found, hits, first
  <2>. QED  BY <1>3, <2>1, <2>2
<1>5. Reach(c) = Members(path)
  BY <1>1 DEF Reach, Members
<1>. QED  BY <1>4, <1>5 DEF FirstFrom, Reached, path

LEMMA FoundMatches ==
  ASSUME DictInvariant, NEW t, NEW c \in 1..Len(dict), Find(t, c) # 0
  PROVE  /\ Find(t, c) \in 1..Len(dict) /\ Find(t, c) \in Reach(c)
         /\ Matches(Find(t, c), t)
<1>1. Heap(dict) /\ Acyclic(dict) /\ dict[c].link \in 0..Len(dict)
  BY GoodHeap
<1>2. FirstFrom(dict, Matching(t), dict[c].link)
        \in {0} \cup (Matching(t) \cap Reached(dict, dict[c].link))
  BY <1>1, FirstIsReached
<1>. QED  BY <1>2, FindIsFirst DEF Matching

LEMMA DictStep ==
  ASSUME NameAssumption, DictInvariant, DictNext
  PROVE  /\ Good(dict') /\ Last(dict', last_name', last_chain')
         /\ Grows(dict, dict') /\ KeepsChains(dict, dict')
<1>. DEFINE Fine(e, m, c) == /\ Good(e) /\ Last(e, m, c)
                             /\ Grows(dict, e) /\ KeepsChains(dict, e)
<1>0. Good(dict) /\ Last(dict, last_name, last_chain)
  BY DEF DictInvariant
<1>1. /\ Len(dict) \in Nat /\ Heap(dict) /\ Acyclic(dict)
      /\ \A i \in 1..Len(dict) : dict[i].link \in 0..Len(dict) /\ dict[i] \in Entries
      /\ current \in 1..Len(dict) /\ dict[current].name = muchain
  BY GoodHeap
<1>2. Fine(dict, last_name, last_chain)
  BY <1>0, <1>1 DEF Grows, KeepsChains
<1>3. ASSUME NEW t \in Token
      PROVE  /\ Fine(UnlinkedName(t), Here, current)
             /\ Longer(dict, UnlinkedName(t))
  <2>. DEFINE e == UnlinkedName(t)
  <2>1. /\ Good(e) /\ Longer(dict, e) /\ Last(e, Len(dict) + 1, current)
    BY <1>0, <1>1, StoredNames, NamedGood DEF UnlinkedName
  <2>. HIDE DEF e
  <2>2. Grows(dict, e)
    BY <1>1, <2>1, LongerGrows
  <2>3. KeepsChains(dict, e)
    BY <1>1, <2>1 DEF Longer, KeepsChains
  <2>. QED  BY <2>1, <2>2, <2>3 DEF Here, e
<1>4. ASSUME NEW t \in Token
      PROVE  Fine(Show(UnlinkedName(t), Here, current), Here, current)
  <2>. DEFINE d == UnlinkedName(t)
              e == Show(d, Here, current)
  <2>1. Good(d) /\ Last(d, Here, current) /\ Longer(dict, d) /\ KeepsChains(dict, d)
    BY <1>3
  <2>. HIDE DEF d
  <2>2. /\ Good(e) /\ Grows(d, e) /\ Last(e, Here, current) /\ Len(e) = Len(d)
        /\ \A i \in 1..Len(d) : e[i].name = d[i].name
    BY <2>1, ShownGood
  <2>. HIDE DEF e
  <2>3. Len(e) \in Nat /\ Heap(d)
    BY <2>1, <2>2 DEF Good, Heap
  <2>4. Grows(dict, e)
    BY <1>1, <2>1, <2>2, <2>3, GrowsTwice
  <2>5. KeepsChains(dict, e)
    BY <2>1, <2>2 DEF KeepsChains
  <2>. QED  BY <2>2, <2>4, <2>5 DEF d, e
<1>5. CASE \E t \in Token : Colon(t) \/ Uncomment(t)
  BY <1>3, <1>5 DEF Colon, Uncomment, New
<1>6. CASE \E t \in Token : Create(t)
  BY <1>4, <1>6 DEF Create, New
<1>7. ASSUME NEW t \in Token, NEW a \in {0} \cup Chains, NewChain(t, a)
      PROVE  Fine(dict', last_name', last_chain')
  <2>. DEFINE d == Show(UnlinkedName(t), Here, current)
              e == Append(d, Entry(muchain, a))
  <2>1. Good(d) /\ Last(d, Here, current) /\ Grows(dict, d) /\ KeepsChains(dict, d)
    BY <1>4
  <2>2. Len(d) = Here
    <3>1. Len(UnlinkedName(t)) = Len(dict) + 1 /\ Len(UnlinkedName(t)) \in Nat
      BY <1>1, <1>3 DEF Longer
    <3>2. Len(d) = Len(UnlinkedName(t))
      BY <1>3, ShownGood
    <3>. QED  BY <3>1, <3>2 DEF Here
  <2>3. dict' = e /\ last_name' = Here /\ last_chain' = current
    BY <1>7 DEF NewChain, New
  <2>. HIDE DEF d
  <2>4. a \in 0..Len(d) /\ a # Here
    BY <1>1, <2>2 DEF Chains, Here
  <2>5. Good(e) /\ Longer(d, e) /\ Last(e, Here, current)
    BY <2>1, <2>4, HeadedGood
  <2>. HIDE DEF e
  <2>6. Heap(d) /\ Len(d) \in Nat
    BY <2>1 DEF Good, Heap
  <2>7. Grows(dict, e)
    BY <1>1, <2>1, <2>5, <2>6, GrowsTwice
  <2>8. KeepsChains(dict, e)
    BY <2>1, <2>5, <2>6 DEF KeepsChains, Longer
  <2>. QED  BY <2>3, <2>5, <2>7, <2>8
<1>8. CASE Semicolon
  <2>. DEFINE e == Show(dict, last_name, last_chain)
  <2>1. /\ Good(e) /\ Grows(dict, e) /\ Last(e, last_name, last_chain)
        /\ Len(e) = Len(dict)
        /\ \A i \in 1..Len(dict) : e[i].name = dict[i].name
    BY <1>0, ShownGood
  <2>2. dict' = e /\ last_name' = last_name /\ last_chain' = last_chain
    BY <1>8 DEF Semicolon
  <2>. HIDE DEF e
  <2>3. KeepsChains(dict, e)
    BY <2>1 DEF KeepsChains
  <2>. QED  BY <2>1, <2>2, <2>3
<1>9. ASSUME NEW t \in Token, Undef(t)
      PROVE  Fine(dict', last_name', last_chain')
  <2>. DEFINE i == Find(t, current)
              e == [dict EXCEPT ![i].name = Empty]
  <2>1. i \in 1..Len(dict) /\ dict[i].name # muchain
    <3>1. Find(t, current) # 0
      BY <1>9 DEF Undef
    <3>2. Find(t, current) \in 1..Len(dict) /\ Matches(Find(t, current), t)
      BY <1>1, <3>1, FoundMatches
    <3>. QED  BY <3>2 DEF Matches, Hidden
  <2>2. /\ dict' = e /\ last_name' = last_name /\ last_chain' = last_chain
    BY <1>9 DEF Undef
  <2>3. Empty # muchain
    BY DEF NameAssumption
  <2>. HIDE DEF i
  <2>4. /\ Good(e) /\ Grows(dict, e) /\ Last(e, last_name, last_chain)
        /\ Len(e) = Len(dict) /\ e[i].name = Empty
        /\ \A j \in 1..Len(dict) : j # i => e[j] = dict[j]
    BY <1>0, <2>1, <2>3, HiddenGood
  <2>. HIDE DEF e
  <2>5. KeepsChains(dict, e)
    BY <2>1, <2>3, <2>4 DEF KeepsChains
  <2>. QED  BY <2>2, <2>4, <2>5
<1>10. CASE \/ Nameless \/ Abandon
            \/ \E c \in Chains : Definitions(c)
            \/ \E m \in {"strncmp", "strncasecmp"} : Case(m)
  BY <1>2, <1>10 DEF Nameless, Abandon, Definitions, Case
<1>. QED  BY <1>5, <1>6, <1>7, <1>8, <1>9, <1>10 DEF DictNext

-----------------------------------------------------------------------------
(* The words of the chains of a heap *)

ChainsOf(d) == {i \in 1..Len(d) : d[i].name = muchain}
WordsFrom(d, j) == Lists(d, ChainsOf(d))[j]
OwnOf(d) == [c \in ChainsOf(d) |-> WordsFrom(d, d[c].link)]
AnchorOf(d) ==
  [c \in ChainsOf(d) |-> IF OwnOf(d)[c] = <<>> THEN d[c].link
                         ELSE d[OwnOf(d)[c][Len(OwnOf(d)[c])]].link]
HiddenOf(d) == {i \in 1..Len(d) : d[i].name # muchain /\ d[i].name = Empty}

\* The words of a chain are words, and each is one that something links to.
LEMMA OwnWords ==
  ASSUME NEW d, Good(d), NEW c \in ChainsOf(d)
  PROVE  /\ OwnOf(d)[c] \in Seq(1..Len(d))
         /\ \A k \in 1..Len(OwnOf(d)[c]) :
              /\ OwnOf(d)[c][k] \in 1..Len(d) \ ChainsOf(d)
              /\ \E i \in 1..Len(d) : d[i].link = OwnOf(d)[c][k]
<1>. DEFINE L == Lists(d, ChainsOf(d))
            linked == {d[i].link : i \in 1..Len(d)}
            fine == {j \in 0..Len(d) : Members(L[j]) \subseteq {j} \cup linked}
<1>1. Heap(d) /\ Acyclic(d) /\ c \in 1..Len(d)
  BY DEF Good, ChainsOf
<1>2. /\ Unfolds(L, d, ChainsOf(d))
      /\ \A j \in 0..Len(d) : L[j] \in Seq(1..Len(d)) /\ Members(L[j]) \cap ChainsOf(d) = {}
  BY <1>1, ListsUnfold, ListedEntries
<1>. HIDE DEF L
<1>3. 0 \in fine
  <2>1. 0 \in 0..Len(d) /\ L[0] = <<>>
    BY <1>1, <1>2 DEF Heap, Unfolds
  <2>2. Members(L[0]) = {}
    BY <2>1, FirstInNone
  <2>. QED  BY <2>1, <2>2
<1>4. ASSUME NEW j \in 1..Len(d), Behind(d, j) \in fine PROVE j \in fine
  <2>. DEFINE rest == L[Behind(d, j)]
              T == 1..Len(d)
  <2>1. Behind(d, j) \in 0..Len(d) /\ Behind(d, j) \in linked
    BY <1>4 DEF Behind
  <2>2. Members(rest) \subseteq {Behind(d, j)} \cup linked
    BY <1>4
  <2>3. rest \in Seq(T) /\ j \in T /\ j \in 0..Len(d)
    BY <1>2, <2>1
  <2>. HIDE DEF linked, rest, T
  <2>4. Members(<<j>> \o rest) = {j} \cup Members(rest)
    BY <2>3, Cons
  <2>5. L[j] = <<>> \/ L[j] = <<j>> \o rest
    BY <1>2 DEF Unfolds, rest
  <2>6. Members(<<>>) = {}
    BY FirstInNone
  <2>7. Members(L[j]) \subseteq {j} \cup linked
    BY <2>1, <2>2, <2>4, <2>5, <2>6
  <2>. QED  BY <2>3, <2>7
<1>5. \A j \in 0..Len(d) : j \in fine
  <2>. HIDE DEF fine
  <2>. QED  BY <1>1, <1>3, <1>4, Descent
<1>. DEFINE s == L[d[c].link]
<1>6. d[c].link \in 0..Len(d) /\ d[c].link \in linked
  BY <1>1 DEF Heap, Behind
<1>7. OwnOf(d)[c] = s
  BY DEF OwnOf, WordsFrom, L
<1>8. s \in Seq(1..Len(d)) /\ Members(s) \cap ChainsOf(d) = {} /\ Members(s) \subseteq linked
  <2>1. Members(s) \subseteq {d[c].link} \cup linked
    BY <1>5, <1>6
  <2>2. s \in Seq(1..Len(d)) /\ Members(s) \cap ChainsOf(d) = {}
    BY <1>2, <1>6
  <2>. HIDE DEF s, linked
  <2>. QED  BY <1>6, <2>1, <2>2
<1>. HIDE DEF s
<1>9. ASSUME NEW k \in 1..Len(s)
      PROVE  s[k] \in 1..Len(d) \ ChainsOf(d) /\ \E i \in 1..Len(d) : d[i].link = s[k]
  <2>1. s[k] \in Members(s) /\ s[k] \in 1..Len(d)
    BY <1>8 DEF Members
  <2>2. s[k] \in linked
    BY <1>8, <2>1
  <2>. QED  BY <1>8, <2>1, <2>2
<1>. QED  BY <1>7, <1>8, <1>9

\* Heaps with the same chains, links and words' links.
LEMMA OwnSame ==
  ASSUME NEW d, Good(d), NEW e, Good(e), Len(d) <= Len(e),
         NEW c \in ChainsOf(d),
         \A i \in 1..Len(d) : i \in ChainsOf(d) <=> i \in ChainsOf(e),
         \A i \in 1..Len(d) : i \notin ChainsOf(d) => e[i].link = d[i].link
  PROVE  /\ \A j \in 0..Len(d) : WordsFrom(e, j) = WordsFrom(d, j)
         /\ e[c].link = d[c].link => /\ OwnOf(e)[c] = OwnOf(d)[c]
                                     /\ AnchorOf(e)[c] = AnchorOf(d)[c]
<1>1. Heap(d) /\ Acyclic(d) /\ Heap(e) /\ Acyclic(e)
  BY DEF Good
<1>2. c \in 1..Len(d) /\ c \in ChainsOf(e) /\ d[c].link \in 0..Len(d)
  BY <1>1 DEF ChainsOf, Heap, Behind
<1>3. \A j \in 0..Len(d) : Lists(e, ChainsOf(e))[j] = Lists(d, ChainsOf(d))[j]
  <2>1. \A j \in 1..Len(d) : /\ j \in ChainsOf(d) <=> j \in ChainsOf(e)
                             /\ j \notin ChainsOf(d) => Behind(e, j) = Behind(d, j)
    BY DEF Behind
  <2>. QED  BY <1>1, <2>1, SameLists
<1>4. \A j \in 0..Len(d) : WordsFrom(e, j) = WordsFrom(d, j)
  BY <1>3 DEF WordsFrom
<1>5. ASSUME e[c].link = d[c].link
      PROVE  OwnOf(e)[c] = OwnOf(d)[c] /\ AnchorOf(e)[c] = AnchorOf(d)[c]
  <2>. DEFINE s == OwnOf(d)[c]
  <2>1. OwnOf(e)[c] = s
    BY <1>2, <1>4, <1>5 DEF OwnOf
  <2>2. s \in Seq(1..Len(d)) /\ \A k \in 1..Len(s) : s[k] \in 1..Len(d) \ ChainsOf(d)
    BY OwnWords
  <2>. HIDE DEF s
  <2>3. s # <<>> => Len(s) \in 1..Len(s)
    BY <2>2
  <2>4. s # <<>> => e[s[Len(s)]].link = d[s[Len(s)]].link
    BY <2>2, <2>3
  <2>5. /\ AnchorOf(e)[c] = IF s = <<>> THEN e[c].link ELSE e[s[Len(s)]].link
        /\ AnchorOf(d)[c] = IF s = <<>> THEN d[c].link ELSE d[s[Len(s)]].link
    BY <1>2, <2>1 DEF AnchorOf, s
  <2>. QED  BY <1>5, <2>1, <2>4, <2>5 DEF s
<1>. QED  BY <1>4, <1>5

\* An entry more leaves the words of the chains alone.
LEMMA OwnAppended ==
  ASSUME NEW d, Good(d), NEW e, Good(e), Longer(d, e)
  PROVE  /\ ChainsOf(e) = IF e[Len(d) + 1].name = muchain
                          THEN ChainsOf(d) \cup {Len(d) + 1} ELSE ChainsOf(d)
         /\ \A c \in ChainsOf(d) : /\ OwnOf(e)[c] = OwnOf(d)[c]
                                   /\ AnchorOf(e)[c] = AnchorOf(d)[c]
         /\ HiddenOf(e) = IF e[Len(d) + 1].name # muchain /\ e[Len(d) + 1].name = Empty
                          THEN HiddenOf(d) \cup {Len(d) + 1} ELSE HiddenOf(d)
         /\ Len(d) + 1 \notin ChainsOf(d)
<1>1. Len(d) \in Nat /\ Len(e) = Len(d) + 1 /\ \A i \in 1..Len(d) : e[i] = d[i]
  BY DEF Good, Heap, Longer
<1>2. \A i \in 1..Len(e) : i \in 1..Len(d) \/ i = Len(d) + 1
  BY <1>1
<1>3. /\ ChainsOf(e) = IF e[Len(d) + 1].name = muchain
                       THEN ChainsOf(d) \cup {Len(d) + 1} ELSE ChainsOf(d)
      /\ HiddenOf(e) = IF e[Len(d) + 1].name # muchain /\ e[Len(d) + 1].name = Empty
                       THEN HiddenOf(d) \cup {Len(d) + 1} ELSE HiddenOf(d)
      /\ Len(d) + 1 \notin ChainsOf(d)
  BY <1>1, <1>2 DEF ChainsOf, HiddenOf
<1>4. ASSUME NEW c \in ChainsOf(d)
      PROVE  OwnOf(e)[c] = OwnOf(d)[c] /\ AnchorOf(e)[c] = AnchorOf(d)[c]
  <2>1. \A i \in 1..Len(d) : i \in ChainsOf(d) <=> i \in ChainsOf(e)
    BY <1>1 DEF ChainsOf
  <2>2. c \in 1..Len(d) /\ Len(d) <= Len(e)
    BY <1>1 DEF ChainsOf
  <2>. QED  BY <1>1, <2>1, <2>2, OwnSame
<1>. QED  BY <1>3, <1>4

\* show puts the word last named in front of those of its chain, unless it is
\* there, and then it is one of its words; otherwise it is a word of no chain.
LEMMA OwnShown ==
  ASSUME NEW d, Good(d), NEW m, NEW c, Last(d, m, c)
  PROVE  LET e == Show(d, m, c)
         IN /\ ChainsOf(e) = ChainsOf(d) /\ HiddenOf(e) = HiddenOf(d)
            /\ c \in ChainsOf(d)
            /\ AnchorOf(e) = AnchorOf(d)
            /\ IF d[c].link = m
               THEN /\ OwnOf(e) = OwnOf(d)
                    /\ 1 \in 1..Len(OwnOf(d)[c]) /\ OwnOf(d)[c][1] = m
               ELSE /\ OwnOf(e) = [OwnOf(d) EXCEPT ![c] = <<m>> \o @]
                    /\ \A b \in ChainsOf(d) : \A k \in 1..Len(OwnOf(d)[b]) : OwnOf(d)[b][k] # m
<1>. DEFINE e == Show(d, m, c)
<1>1. /\ Good(e) /\ Len(e) = Len(d) /\ Last(e, m, c)
      /\ e[c].link = m
      /\ \A i \in 1..Len(d) : e[i].name = d[i].name /\ (i # c => e[i] = d[i])
  BY ShownGood
<1>. HIDE DEF e
<1>2. /\ m \in 1..Len(d) /\ c \in 1..Len(d)
      /\ d[c].name = muchain /\ d[m].name # muchain
      /\ \A i \in 1..Len(d) : d[i].link = m => i = c
      /\ d[c].link \in {m, d[m].link}
  BY DEF Last
<1>3. /\ ChainsOf(e) = ChainsOf(d) /\ HiddenOf(e) = HiddenOf(d)
      /\ c \in ChainsOf(d) /\ m \notin ChainsOf(d)
  BY <1>1, <1>2 DEF ChainsOf, HiddenOf
<1>4. Heap(d) /\ Acyclic(d) /\ Heap(e) /\ Acyclic(e) /\ Len(d) \in Nat
  BY <1>1 DEF Good, Heap
<1>5. \A b \in ChainsOf(d) :
        /\ \A j \in 0..Len(d) : WordsFrom(e, j) = WordsFrom(d, j)
        /\ e[b].link = d[b].link => /\ OwnOf(e)[b] = OwnOf(d)[b]
                                    /\ AnchorOf(e)[b] = AnchorOf(d)[b]
  <2>1. \A i \in 1..Len(d) : i \in ChainsOf(d) <=> i \in ChainsOf(e)
    BY <1>3
  <2>2. \A i \in 1..Len(d) : i \notin ChainsOf(d) => e[i].link = d[i].link
    BY <1>1, <1>3
  <2>3. Len(d) <= Len(e)
    BY <1>1, <1>4
  <2>. QED  BY <1>1, <2>1, <2>2, <2>3, OwnSame
<1>6. \A b \in ChainsOf(d) : b # c => e[b].link = d[b].link
  BY <1>1 DEF ChainsOf
<1>7. /\ DOMAIN OwnOf(e) = ChainsOf(d) /\ DOMAIN OwnOf(d) = ChainsOf(d)
      /\ DOMAIN AnchorOf(e) = ChainsOf(d) /\ DOMAIN AnchorOf(d) = ChainsOf(d)
      /\ OwnOf(e) = [b \in ChainsOf(d) |-> OwnOf(e)[b]]
      /\ OwnOf(d) = [b \in ChainsOf(d) |-> OwnOf(d)[b]]
      /\ AnchorOf(e) = [b \in ChainsOf(d) |-> AnchorOf(e)[b]]
      /\ AnchorOf(d) = [b \in ChainsOf(d) |-> AnchorOf(d)[b]]
  BY <1>3 DEF OwnOf, AnchorOf
\* A list that begins with m.
<1>8. WordsFrom(d, m) = <<m>> \o WordsFrom(d, d[m].link)
  <2>1. Unfolds(Lists(d, ChainsOf(d)), d, ChainsOf(d))
    BY <1>4, ListsUnfold
  <2>2. Lists(d, ChainsOf(d))[m] = <<m>> \o Lists(d, ChainsOf(d))[Behind(d, m)]
    BY <1>2, <1>3, <2>1 DEF Unfolds
  <2>3. Behind(d, m) = d[m].link
    BY <1>2 DEF Behind
  <2>. QED  BY <2>2, <2>3 DEF WordsFrom
<1>9. WordsFrom(d, d[m].link) \in Seq(1..Len(d))
  <2>1. d[m].link \in 0..Len(d)
    BY <1>2, <1>4 DEF Heap, Behind
  <2>. QED  BY <1>4, <2>1, ListedEntries DEF WordsFrom
<1>10. OwnOf(e)[c] = WordsFrom(d, m) /\ OwnOf(d)[c] = WordsFrom(d, d[c].link)
  <2>1. OwnOf(e)[c] = WordsFrom(e, m)
    BY <1>1, <1>3 DEF OwnOf
  <2>2. m \in 0..Len(d)
    BY <1>2
  <2>. QED  BY <1>3, <1>5, <2>1, <2>2 DEF OwnOf
<1>11. CASE d[c].link = m
  <2>1. \A b \in ChainsOf(d) : OwnOf(e)[b] = OwnOf(d)[b] /\ AnchorOf(e)[b] = AnchorOf(d)[b]
    BY <1>1, <1>5, <1>6, <1>11
  <2>2. OwnOf(e) = OwnOf(d) /\ AnchorOf(e) = AnchorOf(d)
    BY <1>7, <2>1
  <2>3. 1 \in 1..Len(OwnOf(d)[c]) /\ OwnOf(d)[c][1] = m
    <3>. DEFINE T == 1..Len(d)
                s == WordsFrom(d, d[m].link)
    <3>1. m \in T /\ s \in Seq(T)
      BY <1>2, <1>9
    <3>. HIDE DEF T, s
    <3>2. Len(<<m>> \o s) = Len(s) + 1 /\ (<<m>> \o s)[1] = m /\ Len(s) \in Nat
      BY <3>1, Cons
    <3>3. OwnOf(d)[c] = <<m>> \o s
      BY <1>8, <1>10, <1>11 DEF s
    <3>. QED  BY <3>2, <3>3
  <2>. QED  BY <1>3, <1>11, <2>2, <2>3 DEF e
<1>12. CASE d[c].link # m
  <2>. DEFINE s == WordsFrom(d, d[m].link)
  <2>1. OwnOf(e)[c] = <<m>> \o s /\ OwnOf(d)[c] = s /\ d[c].link = d[m].link
    BY <1>2, <1>8, <1>10, <1>12
  <2>2. OwnOf(e) = [OwnOf(d) EXCEPT ![c] = <<m>> \o @]
    <3>. DEFINE w == [OwnOf(d) EXCEPT ![c] = <<m>> \o @]
    <3>1. DOMAIN w = ChainsOf(d) /\ w = [b \in ChainsOf(d) |-> w[b]]
      BY <1>7
    <3>2. ASSUME NEW b \in ChainsOf(d) PROVE OwnOf(e)[b] = w[b]
      <4>1. CASE b = c
        BY <1>3, <1>7, <2>1, <4>1
      <4>2. CASE b # c
        BY <1>5, <1>6, <1>7, <4>2
      <4>. QED  BY <4>1, <4>2
    <3>. HIDE DEF w
    <3>3. OwnOf(e) = w
      BY <1>7, <3>1, <3>2
    <3>. QED  BY <3>3 DEF w
  <2>3. AnchorOf(e)[c] = AnchorOf(d)[c]
    <3>. DEFINE T == 1..Len(d)
                t == <<m>> \o s
                last == t[Len(t)]
    <3>1. m \in T /\ s \in Seq(T)
      BY <1>2, <1>9
    <3>2. /\ AnchorOf(e)[c] = IF t = <<>> THEN e[c].link ELSE e[last].link
          /\ AnchorOf(d)[c] = IF s = <<>> THEN d[c].link ELSE d[s[Len(s)]].link
      BY <1>3, <2>1 DEF AnchorOf
    <3>3. Len(t) = Len(s) + 1 /\ Len(s) \in Nat /\ t[1] = m
          /\ (\A k \in 1..Len(s) : t[k + 1] = s[k]) /\ t # <<>>
      <4>. HIDE DEF T, s
      <4>. QED  BY <3>1, Cons
    <3>4. e[m].link = d[m].link
      BY <1>1, <1>2
    <3>5. CASE s = <<>>
      <4>1. last = m
        BY <3>3, <3>5
      <4>. HIDE DEF s, t, last
      <4>. QED  BY <2>1, <3>2, <3>3, <3>4, <3>5, <4>1
    <3>6. CASE s # <<>>
      <4>1. Len(s) \in 1..Len(s)
        <5>. HIDE DEF s
        <5>. QED  BY <3>1, <3>6
      <4>2. last = s[Len(s)]
        <5>. HIDE DEF s, t
        <5>. QED  BY <3>3, <4>1
      <4>3. s[Len(s)] \in 1..Len(d) \ ChainsOf(d)
        BY <1>3, <2>1, <4>1, OwnWords
      <4>4. e[s[Len(s)]].link = d[s[Len(s)]].link
        BY <1>1, <1>3, <4>3
      <4>. HIDE DEF s, t, last
      <4>. QED  BY <3>2, <3>3, <3>6, <4>2, <4>4
    <3>. QED  BY <3>5, <3>6
  <2>4. AnchorOf(e) = AnchorOf(d)
    <3>1. \A b \in ChainsOf(d) : AnchorOf(e)[b] = AnchorOf(d)[b]
      BY <1>5, <1>6, <2>3
    <3>. QED  BY <1>7, <3>1
  <2>5. \A b \in ChainsOf(d) : \A k \in 1..Len(OwnOf(d)[b]) : OwnOf(d)[b][k] # m
    <3>1. \A i \in 1..Len(d) : d[i].link # m
      BY <1>2, <1>12
    <3>2. ASSUME NEW b \in ChainsOf(d), NEW k \in 1..Len(OwnOf(d)[b])
          PROVE  OwnOf(d)[b][k] # m
      <4>1. \E i \in 1..Len(d) : d[i].link = OwnOf(d)[b][k]
        BY OwnWords
      <4>. QED  BY <3>1, <4>1
    <3>. QED  BY <3>2
  <2>. QED  BY <1>3, <1>12, <2>2, <2>4, <2>5 DEF e
<1>. QED  BY <1>11, <1>12

-----------------------------------------------------------------------------
(* The specification *)

LEMMA DictChanges ==
  ASSUME [LoadingNext]_loading_vars
  PROVE  DictNext \/ UNCHANGED dict_vars
BY DEF LoadingNext, LoaderStep, loading_vars, Is

LEMMA InvariantKept ==
  ASSUME NameAssumption, DictInvariant, [LoadingNext]_loading_vars
  PROVE  DictInvariant'
<1>1. CASE UNCHANGED dict_vars
  BY <1>1 DEF dict_vars, DictInvariant, Chains, IsChain
<1>2. CASE DictNext
  <2>1. /\ Good(dict') /\ Last(dict', last_name', last_chain')
        /\ Len(dict) <= Len(dict') /\ KeepsChains(dict, dict')
    BY <1>2, DictStep DEF Grows
  <2>2. /\ Len(dict) \in Nat /\ Len(dict') \in Nat
        /\ current \in 1..Len(dict) /\ dict[current].name = muchain
        /\ Chains = {i \in 1..Len(dict) : dict[i].name = muchain}
        /\ Chains' = {i \in 1..Len(dict') : dict'[i].name = muchain}
    BY <2>1, GoodHeap DEF Good, Heap, Chains, IsChain
  <2>3. Chains \subseteq Chains'
    BY <2>1, <2>2 DEF KeepsChains
  <2>4. current' \in Chains'
    BY <1>2, <2>2, <2>3 DEF DictNext, Colon, Uncomment, Create, NewChain, Nameless,
                            Semicolon, Abandon, Definitions, Undef, Case
  <2>5. /\ match' \in {"strncmp", "strncasecmp"} /\ state' \in {"interpret", "compile"}
    BY <1>2 DEF DictInvariant, DictNext, Colon, Uncomment, Create, NewChain, Nameless,
                Semicolon, Abandon, Definitions, Undef, Case
  <2>6. building' \in {0, last_name'} /\ (state' = "interpret" => building' = 0)
    <3>1. CASE \E t \in Token : Create(t) \/ Uncomment(t) \/ \E a \in {0} \cup Chains : NewChain(t, a)
      BY <3>1 DEF DictInvariant, Create, Uncomment, NewChain, Interpreting
    <3>2. CASE \E t \in Token : Colon(t)
      BY <3>2 DEF Colon, New
    <3>3. CASE ~\E t \in Token : \/ Create(t) \/ Uncomment(t) \/ Colon(t)
                                 \/ \E a \in {0} \cup Chains : NewChain(t, a)
      BY <1>2, <3>3 DEF DictInvariant, DictNext, Nameless,
                  Semicolon, Abandon, Definitions, Undef, Case
    <3>. QED  BY <3>1, <3>2, <3>3
  <2>7. finished' \subseteq 1..Len(dict')
    <3>1. 1..Len(dict) \subseteq 1..Len(dict')
      BY <2>1, <2>2
    <3>2. last_name \in 1..Len(dict) /\ last_name' \in 1..Len(dict')
      BY <2>1 DEF DictInvariant, Last
    <3>3. finished' \subseteq finished \cup {last_name, last_name'}
      BY <1>2 DEF DictInvariant, DictNext, Colon, Uncomment, Create, NewChain, Nameless,
                  Semicolon, Abandon, Definitions, Undef, Case, New
    <3>. QED  BY <3>1, <3>2, <3>3 DEF DictInvariant
  <2>. QED  BY <2>1, <2>4, <2>5, <2>6, <2>7 DEF DictInvariant
<1>. QED  BY <1>1, <1>2, DictChanges

LEMMA InvariantHolds ==
  ASSUME NameAssumption
  PROVE  LoadingSpec => []DictInvariant
<1>1. LoadingInit => DictInvariant
  BY DictInitGood DEF LoadingInit
<1>2. DictInvariant /\ [LoadingNext]_loading_vars => DictInvariant'
  BY InvariantKept
<1>. QED  BY <1>1, <1>2, PTL DEF LoadingSpec

\* The variables of the dictionary have their types, in every behaviour.
THEOREM TypeCorrect ==
  ASSUME NameAssumption
  PROVE  LoadingSpec => []TypeOK
<1>1. DictInvariant => TypeOK
  BY GoodHeap DEF DictInvariant, TypeOK, Good, Entries, Last, Chains, IsChain
<1>. QED  BY <1>1, InvariantHolds, PTL

\* Whatever chains are created and anchored to which, whatever is defined,
\* abandoned, shown or hidden, each search looks at fewer entries than there
\* are, and comes to an end (SearchEnds).
THEOREM SearchEndsCorrect ==
  ASSUME NameAssumption
  PROVE  LoadingSpec => []SearchEnds
<1>1. ASSUME DictInvariant PROVE EverySearchEnds
  <2>1. \A c \in 1..Len(dict) : Path(c) = Lists(dict, {})[Behind(dict, c)]
    BY ListsOf DEF Path, Link, Behind
  <2>. QED  BY <1>1, <2>1, GoodHeap, ListsShort DEF EverySearchEnds
<1>2. DictInvariant => SearchEnds
  BY <1>1 DEF SearchEnds
<1>. QED  BY <1>2, InvariantHolds, PTL

-----------------------------------------------------------------------------
(* What searches find, before and after a step *)

Searches ==
  \A t : \A c \in 1..Len(dict) :
    /\ Find(t, c) = FirstFrom(dict, Matching(t), dict[c].link)
    /\ Reach(c) = Reached(dict, dict[c].link)

LEMMA SearchesNow == DictInvariant => Searches
BY FindIsFirst DEF Searches

LEMMA SearchesThen == DictInvariant' => Searches'
BY SearchesNow, PTL

\* Chains, and the heap, before and after a step.
LEMMA StepFacts ==
  ASSUME NameAssumption, DictInvariant, DictNext, DictInvariant'
  PROVE  /\ Heap(dict) /\ Acyclic(dict) /\ Heap(dict') /\ Acyclic(dict')
         /\ Grows(dict, dict') /\ Len(dict) \in Nat /\ Len(dict') \in Nat
         /\ 1..Len(dict) \subseteq 1..Len(dict')
         /\ Chains \subseteq 1..Len(dict)
         /\ \A c \in 1..Len(dict) : /\ Behind(dict, c) = dict[c].link
                                    /\ Behind(dict', c) = dict'[c].link
<1>1. Heap(dict) /\ Acyclic(dict) /\ Heap(dict') /\ Acyclic(dict') /\ Grows(dict, dict')
  BY DictStep DEF DictInvariant, Good
<1>2. Len(dict) \in Nat /\ Len(dict') \in Nat /\ Len(dict) <= Len(dict')
  BY <1>1 DEF Heap, Grows
<1>. QED  BY <1>1, <1>2 DEF Chains, Behind

\* No word or chain that a search of a chain has looked at is ever left out,
\* whichever chain a definition joins and however it ended (NothingForgotten).
THEOREM NothingForgottenCorrect ==
  ASSUME NameAssumption
  PROVE  LoadingSpec => NothingForgotten
<1>1. ASSUME DictInvariant, DictInvariant', DictNext PROVE NothingIsForgotten
  <2>1. SUFFICES ASSUME NEW c \in Chains PROVE Reach(c) \subseteq Reach(c)'
    BY DEF NothingIsForgotten
  <2>2. /\ Heap(dict) /\ Acyclic(dict) /\ Heap(dict') /\ Acyclic(dict')
        /\ Grows(dict, dict') /\ c \in 1..Len(dict) /\ c \in 1..Len(dict')
        /\ Behind(dict, c) = dict[c].link /\ Behind(dict', c) = dict'[c].link
    BY <1>1, StepFacts
  <2>3. Reach(c) = Reached(dict, Behind(dict, c)) /\ Reach(c)' = Reached(dict', Behind(dict', c))
    BY <1>1, <2>2, SearchesNow, SearchesThen DEF Searches
  <2>4. Reached(dict, Behind(dict, c)) \subseteq Reached(dict', Behind(dict, c))
    BY <2>2, ReachedGrows DEF Heap
  <2>5. Reached(dict', Behind(dict, c)) \subseteq Reached(dict', Behind(dict', c))
    <3>1. CASE Behind(dict', c) = Behind(dict, c)
      BY <3>1
    <3>2. CASE Spliced(dict, dict', c)
      BY <2>2, <3>2, ReachedUnfolds DEF Spliced
    <3>. QED  BY <2>2, <3>1, <3>2 DEF Grows
  <2>. QED  BY <2>3, <2>4, <2>5
<1>2. DictInvariant /\ DictInvariant' /\ [LoadingNext]_loading_vars
        => [part = "dict" => NothingIsForgotten]_dict_vars
  BY <1>1, DictChanges
<1>. QED  BY <1>2, InvariantHolds, PTL DEF LoadingSpec, NothingForgotten

\* Where a word is created that is found: on its chain in front of all.
LEMMA CreatedFirst ==
  ASSUME NameAssumption, DictInvariant, NEW t \in Name, Create(t)
  PROVE  /\ Here = Len(dict) + 1 /\ Len(dict') = Here
         /\ \A j \in 1..Len(dict) :
              /\ j # current => Behind(dict', j) = Behind(dict, j)
              /\ j \in Matching(t)' <=> j \in Matching(t)
         /\ Behind(dict', current) = Here
         /\ Here \in Matching(t)' /\ current \notin Matching(t)'
<1>. DEFINE d == UnlinkedName(t)
            e == Show(d, Here, current)
<1>1. /\ Len(dict) \in Nat /\ Good(dict) /\ current \in 1..Len(dict)
      /\ dict[current].name = muchain
  BY GoodHeap DEF DictInvariant
<1>2. t \notin {muchain, Empty} /\ Stored(t) = t
  BY DEF NameAssumption, Stored
<1>3. /\ Good(d) /\ Longer(dict, d) /\ Last(d, Len(dict) + 1, current)
      /\ d[Len(dict) + 1].name = t
  <2>1. d = Append(dict, Entry(t, dict[current].link))
    BY <1>2 DEF UnlinkedName
  <2>. HIDE DEF d
  <2>. QED  BY <1>1, <1>2, <2>1, NamedGood
<1>. HIDE DEF d
<1>4. /\ Len(e) = Len(d) /\ e[current].link = Here
      /\ \A i \in 1..Len(d) : e[i].name = d[i].name /\ (i # current => e[i] = d[i])
  BY <1>3, ShownGood DEF Here
<1>5. dict' = e /\ match' = match
  BY DEF Create, d
<1>. HIDE DEF e
<1>6. Len(e) = Here /\ Here = Len(dict) + 1 /\ e[Here].name = t
  BY <1>1, <1>3, <1>4 DEF Longer, Here
<1>7. \A j \in 1..Len(dict) : /\ e[j].name = dict[j].name
                              /\ j # current => e[j] = dict[j]
  BY <1>1, <1>3, <1>4 DEF Longer
<1>8. \A j \in 1..Len(dict) : j # current => Behind(e, j) = Behind(dict, j)
  BY <1>7 DEF Behind
<1>9. Behind(e, current) = Here
  BY <1>1, <1>4 DEF Behind
<1>10. \A j \in 1..Len(e) : j \in Matching(t)' <=> Matches(j, t)'
  BY <1>5 DEF Matching
<1>11. \A j \in 1..Len(dict) : j \in Matching(t)' <=> j \in Matching(t)
  <2>1. \A j \in 1..Len(dict) : Matches(j, t)' <=> Matches(j, t)
    BY <1>5, <1>7 DEF Matches, Hidden
  <2>. QED  BY <1>1, <1>6, <1>10, <2>1 DEF Matching
<1>12. Here \in Matching(t)'
  <2>1. \A j \in 1..Len(e) : e[j].name = t => Matches(j, t)'
    BY <1>2, <1>5 DEF Matches, Hidden
  <2>2. \A j \in 1..Len(e) : e[j].name = t => j \in Matching(t)'
    BY <1>10, <2>1
  <2>. QED  BY <1>1, <1>6, <2>2
<1>13. current \notin Matching(t)'
  <2>1. ~Matches(current, t)
    BY <1>1 DEF Matches, Hidden
  <2>. QED  BY <1>1, <1>11, <2>1 DEF Matching
<1>. QED  BY <1>5, <1>6, <1>8, <1>9, <1>11, <1>12, <1>13

\* A word that has just been created is the one found, on its chain and on all
\* others from which a search comes to that chain, unless it finds a word of the
\* name before (NewestFound).
LEMMA CreatedIsFound ==
  ASSUME NameAssumption, DictInvariant, DictInvariant', DictNext
  PROVE  NewestIsFound
<1>1. SUFFICES ASSUME NEW t \in Name, Create(t), NEW c \in Chains
               PROVE  IF c = current THEN Find(t, c)' = Here
                      ELSE current \in Reach(c) /\ Find(t, c) \in {0, Find(t, current)}
                             => Find(t, c)' = Here
  BY DEF NewestIsFound
<1>. DEFINE M == Matching(t)
            N == Matching(t)'
            old(j) == FirstFrom(dict, M, j)
            new(j) == FirstFrom(dict', N, j)
            f == old(Behind(dict, current))
            fine == {j \in 0..Len(dict) :
                       current \in Reached(dict, j) /\ old(j) \in {0, f} => new(j) = Here}
<1>2. /\ Heap(dict) /\ Acyclic(dict) /\ Heap(dict') /\ Acyclic(dict')
      /\ Len(dict) \in Nat /\ Len(dict') \in Nat
      /\ 1..Len(dict) \subseteq 1..Len(dict')
      /\ c \in 1..Len(dict) /\ current \in 1..Len(dict)
      /\ \A j \in 1..Len(dict) : /\ Behind(dict, j) = dict[j].link
                                 /\ Behind(dict', j) = dict'[j].link
  BY StepFacts, GoodHeap
<1>3. /\ Here = Len(dict) + 1 /\ Len(dict') = Here
      /\ \A j \in 1..Len(dict) : /\ j # current => Behind(dict', j) = Behind(dict, j)
                                 /\ j \in N <=> j \in M
      /\ Behind(dict', current) = Here
      /\ Here \in N /\ current \notin N
  BY <1>1, CreatedFirst
<1>4. \A j \in 1..Len(dict) : /\ Find(t, j) = old(Behind(dict, j))
                              /\ Find(t, j)' = new(Behind(dict', j))
                              /\ Reach(j) = Reached(dict, Behind(dict, j))
  BY <1>2, SearchesNow, SearchesThen DEF Searches
<1>. HIDE DEF M, N
<1>5. /\ Reached(dict, 0) = {} /\ old(0) = 0
      /\ \A j \in 1..Len(dict) :
           /\ Reached(dict, j) = {j} \cup Reached(dict, Behind(dict, j))
           /\ old(j) = IF j \in M THEN j ELSE old(Behind(dict, j))
  <2>1. Heap(dict) /\ Acyclic(dict)
    BY <1>2
  <2>. QED  BY <2>1, ReachedUnfolds
<1>6. \A j \in 1..Len(dict') : new(j) = IF j \in N THEN j ELSE new(Behind(dict', j))
  <2>1. Heap(dict') /\ Acyclic(dict')
    BY <1>2
  <2>. QED  BY <2>1, ReachedUnfolds
<1>7. new(Here) = Here
  BY <1>2, <1>3, <1>6
<1>8. new(current) = Here
  BY <1>2, <1>3, <1>6, <1>7
<1>. HIDE DEF old, new
\* A word found from current on is not one from which current is reached.
<1>9. ASSUME NEW j \in 1..Len(dict), current \in Reached(dict, Behind(dict, j)), j = f
      PROVE  FALSE
  <2>1. PICK r : Ranks(r, dict)
    BY <1>2 DEF Acyclic
  <2>2. /\ Behind(dict, j) \in 0..Len(dict) /\ Behind(dict, current) \in 0..Len(dict)
        /\ j \in 0..Len(dict) /\ current \in 0..Len(dict)
    BY <1>2 DEF Heap
  <2>3. j \in Reached(dict, Behind(dict, current))
    <3>1. f \in {0} \cup (M \cap Reached(dict, Behind(dict, current)))
      BY <1>2, <2>2, FirstIsReached DEF old
    <3>. QED  BY <1>9, <3>1
  <2>4. r[current] <= r[Behind(dict, j)] /\ r[j] <= r[Behind(dict, current)]
    BY <1>2, <1>9, <2>1, <2>2, <2>3, ReachedBelow
  <2>5. /\ r[Behind(dict, j)] < r[j] /\ r[Behind(dict, current)] < r[current]
        /\ r \in [0..Len(dict) -> Nat]
    BY <1>2, <2>1 DEF Ranks
  <2>. QED  BY <2>2, <2>4, <2>5
<1>10. 0 \in fine
  BY <1>2, <1>5
<1>11. ASSUME NEW j \in 1..Len(dict), Behind(dict, j) \in fine PROVE j \in fine
  <2>1. SUFFICES ASSUME current \in Reached(dict, j), old(j) \in {0, f} PROVE new(j) = Here
    BY <1>2
  <2>2. CASE j = current
    BY <1>8, <2>2
  <2>3. CASE j # current
    <3>1. current \in Reached(dict, Behind(dict, j))
      BY <1>5, <2>1, <2>3
    <3>2. j \notin M
      BY <1>5, <1>9, <2>1, <3>1
    <3>3. old(Behind(dict, j)) \in {0, f}
      BY <1>5, <2>1, <3>2
    <3>4. new(Behind(dict, j)) = Here
      BY <1>11, <3>1, <3>3
    <3>. QED  BY <1>2, <1>3, <1>6, <2>3, <3>2, <3>4
  <2>. QED  BY <2>2, <2>3
<1>12. \A j \in 0..Len(dict) : j \in fine
  <2>. HIDE DEF fine
  <2>. QED  BY <1>2, <1>10, <1>11, Descent
<1>13. CASE c = current
  BY <1>2, <1>3, <1>4, <1>7, <1>13
<1>14. CASE c # current
  <2>1. Behind(dict', c) = Behind(dict, c) /\ Behind(dict, c) \in 0..Len(dict)
    BY <1>2, <1>3, <1>14 DEF Heap
  <2>2. Find(t, current) = f
    BY <1>2, <1>4
  <2>. QED  BY <1>2, <1>4, <1>12, <1>14, <2>1, <2>2
<1>. QED  BY <1>13, <1>14

\* A word that is created is found at once by its name, on its chain, and on
\* every chain that is anchored to it and does not redefine it, whatever was
\* created, shown or hidden before (NewestFound).
THEOREM NewestFoundCorrect ==
  ASSUME NameAssumption
  PROVE  LoadingSpec => NewestFound
<1>1. DictInvariant /\ DictInvariant' /\ [LoadingNext]_loading_vars
        => [part = "dict" => NewestIsFound]_dict_vars
  BY CreatedIsFound, DictChanges
<1>. QED  BY <1>1, InvariantHolds, PTL DEF LoadingSpec, NewestFound

-----------------------------------------------------------------------------
(* The links implement Vocabulary *)

Mapped ==
  /\ Own = OwnOf(dict) /\ Anchor = AnchorOf(dict)
  /\ Chains = ChainsOf(dict) /\ HiddenWords = HiddenOf(dict)

LEMMA MappedNow == DictInvariant => Mapped
<1>. SUFFICES ASSUME DictInvariant PROVE Mapped
  OBVIOUS
<1>1. Good(dict) /\ Len(dict) \in Nat
  BY GoodHeap DEF DictInvariant
<1>2. Chains = ChainsOf(dict) /\ HiddenWords = HiddenOf(dict)
  BY DEF Chains, IsChain, ChainsOf, HiddenWords, HiddenOf, Hidden
<1>3. EntriesUpTo(Chains) = Lists(dict, Chains)
  BY DEF EntriesUpTo, Lists, IsLists, Link, Behind
<1>4. \A i \in 1..Len(dict) : Link(i) = dict[i].link
  BY DEF Link
<1>5. Own = OwnOf(dict)
  <2>1. Own = [c \in Chains |-> Lists(dict, Chains)[Link(c)]]
    BY <1>3 DEF Own
  <2>2. \A c \in Chains : Link(c) = dict[c].link
    BY <1>4 DEF Chains
  <2>3. Own = [c \in Chains |-> Lists(dict, Chains)[dict[c].link]]
    BY <2>1, <2>2
  <2>. QED  BY <1>2, <2>3 DEF OwnOf, WordsFrom
<1>6. Anchor = AnchorOf(dict)
  <2>. DEFINE w == OwnOf(dict)
  <2>1. Anchor = [c \in Chains |-> IF w[c] = <<>> THEN Link(c)
                                   ELSE Link(w[c][Len(w[c])])]
    BY <1>5 DEF Anchor
  <2>2. ASSUME NEW c \in ChainsOf(dict)
        PROVE  /\ Link(c) = dict[c].link
               /\ w[c] # <<>> => Link(w[c][Len(w[c])]) = dict[w[c][Len(w[c])]].link
    <3>1. w[c] \in Seq(1..Len(dict))
      BY <1>1, OwnWords
    <3>. HIDE DEF w
    <3>2. w[c] # <<>> => w[c][Len(w[c])] \in 1..Len(dict)
      BY <3>1
    <3>. QED  BY <1>4, <3>2 DEF ChainsOf
  <2>3. AnchorOf(dict) = [c \in ChainsOf(dict) |->
                            IF w[c] = <<>> THEN dict[c].link ELSE dict[w[c][Len(w[c])]].link]
    BY DEF AnchorOf
  <2>. HIDE DEF w
  <2>. QED  BY <1>2, <2>1, <2>2, <2>3
<1>. QED  BY <1>2, <1>5, <1>6 DEF Mapped

LEMMA MappedThen == DictInvariant' => Mapped'
BY MappedNow, PTL

\* The words of Vocabulary are those of the chains, and none is an entry to come.
LEMMA WordsMapped ==
  ASSUME DictInvariant
  PROVE  /\ Voc!Chains = Chains
         /\ \A w : w \in Voc!Words <=> \E c \in Chains : \E k \in 1..Len(Own[c]) : Own[c][k] = w
         /\ Here \notin Voc!Words
<1>1. Own = OwnOf(dict) /\ Chains = ChainsOf(dict) /\ Good(dict) /\ Len(dict) \in Nat
  BY MappedNow, GoodHeap DEF Mapped, DictInvariant
<1>2. Voc!Chains = Chains
  BY <1>1 DEF Voc!Chains, OwnOf
<1>3. ASSUME NEW w
      PROVE  w \in Voc!Words <=> \E c \in Chains : \E k \in 1..Len(Own[c]) : Own[c][k] = w
  BY <1>2 DEF Voc!Words
<1>4. ASSUME NEW c \in Chains, NEW k \in 1..Len(Own[c]) PROVE Own[c][k] # Here
  <2>1. Own[c][k] \in 1..Len(dict)
    BY <1>1, OwnWords
  <2>. QED  BY <1>1, <2>1 DEF Here
<1>. QED  BY <1>2, <1>3, <1>4

\* A new word for the current chain.
LEMMA NamedHeap ==
  ASSUME NameAssumption, DictInvariant, NEW t \in Token, NEW e, e = UnlinkedName(t)
  PROVE  /\ Good(e) /\ Longer(dict, e) /\ Last(e, Here, current)
         /\ e[current].link # Here
         /\ ChainsOf(e) = ChainsOf(dict)
         /\ OwnOf(e) = OwnOf(dict) /\ AnchorOf(e) = AnchorOf(dict)
         /\ HiddenOf(e) \in {HiddenOf(dict), HiddenOf(dict) \cup {Here}}
<1>1. /\ Good(dict) /\ current \in 1..Len(dict) /\ dict[current].name = muchain
      /\ Len(dict) \in Nat /\ dict[current].link \in 0..Len(dict)
  BY GoodHeap DEF DictInvariant
<1>2. /\ Good(e) /\ Longer(dict, e) /\ Last(e, Here, current) /\ e[Here].name # muchain
  <2>1. Stored(t) \in Name \cup {Empty} /\ Stored(t) # muchain
    BY StoredNames
  <2>2. e = Append(dict, Entry(Stored(t), dict[current].link))
    BY DEF UnlinkedName
  <2>3. LET f == Append(dict, Entry(Stored(t), dict[current].link))
        IN /\ Good(f) /\ Longer(dict, f) /\ Last(f, Len(dict) + 1, current)
           /\ f[Len(dict) + 1].name = Stored(t)
    BY <1>1, <2>1, NamedGood
  <2>. QED  BY <2>1, <2>2, <2>3 DEF Here
<1>3. e[current].link # Here
  BY <1>1, <1>2 DEF Longer, Here
<1>4. /\ ChainsOf(e) = ChainsOf(dict)
      /\ \A c \in ChainsOf(dict) : /\ OwnOf(e)[c] = OwnOf(dict)[c]
                                   /\ AnchorOf(e)[c] = AnchorOf(dict)[c]
      /\ HiddenOf(e) \in {HiddenOf(dict), HiddenOf(dict) \cup {Here}}
  BY <1>1, <1>2, OwnAppended DEF Here
<1>5. /\ OwnOf(e) = [c \in ChainsOf(dict) |-> OwnOf(e)[c]]
      /\ OwnOf(dict) = [c \in ChainsOf(dict) |-> OwnOf(dict)[c]]
      /\ AnchorOf(e) = [c \in ChainsOf(dict) |-> AnchorOf(e)[c]]
      /\ AnchorOf(dict) = [c \in ChainsOf(dict) |-> AnchorOf(dict)[c]]
  BY <1>4 DEF OwnOf, AnchorOf
<1>6. OwnOf(e) = OwnOf(dict) /\ AnchorOf(e) = AnchorOf(dict)
  BY <1>4, <1>5
<1>. QED  BY <1>2, <1>3, <1>4, <1>6

\* One that is shown at once.
LEMMA DefinedHeap ==
  ASSUME NameAssumption, DictInvariant, NEW t \in Token,
         NEW e, e = Show(UnlinkedName(t), Here, current)
  PROVE  /\ Good(e) /\ Len(e) = Here /\ Last(e, Here, current)
         /\ ChainsOf(e) = ChainsOf(dict)
         /\ AnchorOf(e) = AnchorOf(dict)
         /\ OwnOf(e) = [OwnOf(dict) EXCEPT ![current] = <<Here>> \o @]
         /\ HiddenOf(e) \in {HiddenOf(dict), HiddenOf(dict) \cup {Here}}
<1>. DEFINE d == UnlinkedName(t)
<1>1. /\ Good(d) /\ Longer(dict, d) /\ Last(d, Here, current)
      /\ d[current].link # Here
      /\ ChainsOf(d) = ChainsOf(dict)
      /\ OwnOf(d) = OwnOf(dict) /\ AnchorOf(d) = AnchorOf(dict)
      /\ HiddenOf(d) \in {HiddenOf(dict), HiddenOf(dict) \cup {Here}}
  BY NamedHeap
<1>2. e = Show(d, Here, current)
  OBVIOUS
<1>. HIDE DEF d
<1>3. Good(e) /\ Last(e, Here, current) /\ Len(e) = Len(d)
  BY <1>1, <1>2, ShownGood
<1>4. /\ ChainsOf(e) = ChainsOf(d) /\ HiddenOf(e) = HiddenOf(d)
      /\ AnchorOf(e) = AnchorOf(d)
      /\ OwnOf(e) = [OwnOf(d) EXCEPT ![current] = <<Here>> \o @]
  BY <1>1, <1>2, OwnShown
<1>5. Len(d) = Here
  BY <1>1 DEF Longer, Here
<1>. QED  BY <1>1, <1>3, <1>4, <1>5

LEMMA NamesWord ==
  ASSUME NameAssumption, DictInvariant, DictInvariant', NEW t \in Token,
         Colon(t) \/ Uncomment(t)
  PROVE  Voc!NameWord(Named'.word, Named'.chain)
         /\ HiddenWords' \in {HiddenWords, HiddenWords \cup {Named'.word}}
<1>1. dict' = UnlinkedName(t) /\ last_name' = Here /\ last_chain' = current
  BY DEF Colon, Uncomment, New
<1>2. Named'.word = Here /\ Named'.chain = current /\ Named' = [word |-> Here, chain |-> current]
  BY <1>1 DEF Named
<1>3. /\ OwnOf(dict') = OwnOf(dict) /\ AnchorOf(dict') = AnchorOf(dict)
      /\ HiddenOf(dict') \in {HiddenOf(dict), HiddenOf(dict) \cup {Here}}
  BY <1>1, NamedHeap
<1>4. Own' = Own /\ Anchor' = Anchor
      /\ HiddenWords' \in {HiddenWords, HiddenWords \cup {Here}}
  BY <1>3, MappedNow, MappedThen DEF Mapped
<1>5. Here \notin Voc!Words /\ current \in Voc!Chains
  BY WordsMapped DEF DictInvariant
<1>. QED  BY <1>2, <1>4, <1>5 DEF Voc!NameWord

LEMMA DefinesWord ==
  ASSUME NameAssumption, DictInvariant, DictInvariant', NEW t \in Token, Create(t)
  PROVE  Voc!Define(Named'.word, Named'.chain)
         /\ HiddenWords' \in {HiddenWords, HiddenWords \cup {Named'.word}}
<1>1. /\ dict' = Show(UnlinkedName(t), Here, current)
      /\ last_name' = Here /\ last_chain' = current
  BY DEF Create, New
<1>2. Named'.word = Here /\ Named'.chain = current /\ Named' = [word |-> Here, chain |-> current]
  BY <1>1 DEF Named
<1>3. /\ OwnOf(dict') = [OwnOf(dict) EXCEPT ![current] = <<Here>> \o @]
      /\ AnchorOf(dict') = AnchorOf(dict)
      /\ HiddenOf(dict') \in {HiddenOf(dict), HiddenOf(dict) \cup {Here}}
  BY <1>1, DefinedHeap
<1>4. Own' = [Own EXCEPT ![current] = <<Here>> \o @] /\ Anchor' = Anchor
      /\ HiddenWords' \in {HiddenWords, HiddenWords \cup {Here}}
  BY <1>3, MappedNow, MappedThen DEF Mapped
<1>5. Here \notin Voc!Words /\ current \in Voc!Chains
  BY WordsMapped DEF DictInvariant
<1>. QED  BY <1>2, <1>4, <1>5 DEF Voc!Define

\* A word that is the name of a chain, whose head follows it.
LEMMA DefinesChain ==
  ASSUME NameAssumption, DictInvariant, DictInvariant', NEW t \in Token,
         NEW a \in {0} \cup Chains, NewChain(t, a)
  PROVE  Voc!Define(Named'.word, Named'.chain)
         /\ HiddenWords' \in {HiddenWords, HiddenWords \cup {Named'.word}}
<1>. DEFINE d == Show(UnlinkedName(t), Here, current)
            head == Here + 1
            mine == [Own EXCEPT ![current] = <<Here>> \o @]
<1>1. /\ dict' = Append(d, Entry(muchain, a))
      /\ last_name' = Here /\ last_chain' = current
  BY DEF NewChain, New
<1>2. Named'.word = Here /\ Named'.chain = current /\ Named' = [word |-> Here, chain |-> current]
  BY <1>1 DEF Named
<1>3. /\ Good(d) /\ Len(d) = Here /\ Last(d, Here, current)
      /\ ChainsOf(d) = ChainsOf(dict)
      /\ AnchorOf(d) = AnchorOf(dict)
      /\ OwnOf(d) = [OwnOf(dict) EXCEPT ![current] = <<Here>> \o @]
      /\ HiddenOf(d) \in {HiddenOf(dict), HiddenOf(dict) \cup {Here}}
  BY DefinedHeap
<1>4. /\ Own = OwnOf(dict) /\ Anchor = AnchorOf(dict)
      /\ Chains = ChainsOf(dict) /\ HiddenWords = HiddenOf(dict)
      /\ Own' = OwnOf(dict') /\ Anchor' = AnchorOf(dict')
      /\ Chains' = ChainsOf(dict') /\ HiddenWords' = HiddenOf(dict')
  BY MappedNow, MappedThen DEF Mapped
<1>5. mine = OwnOf(d)
  BY <1>3, <1>4
<1>6. DOMAIN Own = Chains /\ DOMAIN Anchor = Chains /\ current \in Chains
  BY DEF Own, Anchor, DictInvariant
<1>. HIDE DEF d, mine
<1>7. a \in 0..Len(d) /\ a # Here /\ Here \in Nat
  <2>1. Here = Len(dict) + 1 /\ Len(dict) \in Nat /\ Chains \subseteq 1..Len(dict)
    BY GoodHeap DEF Here, Chains
  <2>. QED  BY <1>3, <2>1
<1>8. /\ Good(dict') /\ Longer(d, dict') /\ dict'[head].name = muchain /\ dict'[head].link = a
  BY <1>1, <1>3, <1>7, HeadedGood
<1>9. /\ ChainsOf(dict') = ChainsOf(d) \cup {head} /\ head \notin ChainsOf(d)
      /\ \A c \in ChainsOf(d) : /\ OwnOf(dict')[c] = OwnOf(d)[c]
                                /\ AnchorOf(dict')[c] = AnchorOf(d)[c]
      /\ HiddenOf(dict') = HiddenOf(d)
  BY <1>3, <1>8, OwnAppended
<1>10. OwnOf(dict')[head] = <<>> /\ AnchorOf(dict')[head] = a
  <2>1. Unfolds(Lists(dict', ChainsOf(dict')), dict', ChainsOf(dict'))
    BY <1>8, ListsUnfold DEF Good
  <2>2. a = 0 \/ (a \in 1..Len(dict') /\ a \in ChainsOf(dict'))
    BY <1>3, <1>4, <1>9 DEF ChainsOf
  <2>3. WordsFrom(dict', a) = <<>>
    BY <2>1, <2>2 DEF WordsFrom, Unfolds
  <2>4. OwnOf(dict')[head] = <<>>
    BY <1>8, <1>9, <2>3 DEF OwnOf
  <2>. QED  BY <1>8, <1>9, <2>4 DEF AnchorOf
<1>. DEFINE extend(f, x) == [c \in DOMAIN f \cup {head} |-> IF c = head THEN x ELSE f[c]]
<1>11. Own' = extend(mine, <<>>)
  <2>1. DOMAIN mine = Chains
    BY <1>6 DEF mine
  <2>2. Own' = [c \in Chains \cup {head} |-> Own'[c]]
    BY <1>3, <1>4, <1>9 DEF OwnOf
  <2>3. \A c \in Chains \cup {head} : Own'[c] = IF c = head THEN <<>> ELSE mine[c]
    BY <1>3, <1>4, <1>5, <1>9, <1>10
  <2>. QED  BY <2>1, <2>2, <2>3
<1>12. Anchor' = extend(Anchor, a)
  <2>1. Anchor' = [c \in Chains \cup {head} |-> Anchor'[c]]
    BY <1>3, <1>4, <1>9 DEF AnchorOf
  <2>2. \A c \in Chains \cup {head} : Anchor'[c] = IF c = head THEN a ELSE Anchor[c]
    BY <1>3, <1>4, <1>9, <1>10
  <2>. QED  BY <1>6, <2>1, <2>2
<1>13. HiddenWords' \in {HiddenWords, HiddenWords \cup {Here}}
  BY <1>3, <1>4, <1>9
<1>14. Here \notin Voc!Words /\ current \in Voc!Chains /\ Voc!Chains = Chains
  BY WordsMapped DEF DictInvariant
<1>. QED  BY <1>2, <1>11, <1>12, <1>13, <1>14 DEF Voc!Define, mine

\* show, when the definition ends.
LEMMA RevealsWord ==
  ASSUME NameAssumption, DictInvariant, DictInvariant', Semicolon
  PROVE  Voc!Reveal
<1>. DEFINE m == last_name
            c == last_chain
<1>1. /\ Good(dict) /\ Last(dict, m, c)
      /\ dict' = Show(dict, m, c) /\ last_name' = m /\ last_chain' = c
  BY DEF DictInvariant, Semicolon
<1>2. /\ Own = OwnOf(dict) /\ Anchor = AnchorOf(dict)
      /\ Chains = ChainsOf(dict) /\ HiddenWords = HiddenOf(dict)
      /\ Own' = OwnOf(dict') /\ Anchor' = AnchorOf(dict')
      /\ HiddenWords' = HiddenOf(dict')
  BY MappedNow, MappedThen DEF Mapped
<1>3. /\ HiddenOf(dict') = HiddenOf(dict) /\ AnchorOf(dict') = AnchorOf(dict)
      /\ c \in ChainsOf(dict)
      /\ IF dict[c].link = m
         THEN /\ OwnOf(dict') = OwnOf(dict)
              /\ 1 \in 1..Len(OwnOf(dict)[c]) /\ OwnOf(dict)[c][1] = m
         ELSE /\ OwnOf(dict') = [OwnOf(dict) EXCEPT ![c] = <<m>> \o @]
              /\ \A b \in ChainsOf(dict) : \A k \in 1..Len(OwnOf(dict)[b]) :
                   OwnOf(dict)[b][k] # m
  BY <1>1, OwnShown
<1>4. Named' = Named /\ Named.word = m /\ Named.chain = c
  BY <1>1 DEF Named
<1>5. m \in Voc!Words <=> dict[c].link = m
  BY <1>2, <1>3, WordsMapped
<1>6. Own' = IF Named.word \in Voc!Words THEN Own
             ELSE [Own EXCEPT ![Named.chain] = <<Named.word>> \o @]
  BY <1>2, <1>3, <1>4, <1>5
<1>. QED  BY <1>2, <1>3, <1>4, <1>6 DEF Voc!Reveal

\* undef, or a step that leaves the dictionary as it is.
LEMMA HidesWord ==
  ASSUME NameAssumption, DictInvariant, DictInvariant', NEW t \in Token, Undef(t)
  PROVE  Voc!Hide
<1>. DEFINE i == Find(t, current)
            e == [dict EXCEPT ![i].name = Empty]
<1>1. /\ Good(dict) /\ Last(dict, last_name, last_chain) /\ Len(dict) \in Nat
      /\ current \in 1..Len(dict)
  BY GoodHeap DEF DictInvariant
<1>2. i \in 1..Len(dict) /\ dict[i].name # muchain
  <2>1. Find(t, current) # 0
    BY DEF Undef
  <2>2. Find(t, current) \in 1..Len(dict) /\ Matches(Find(t, current), t)
    BY <1>1, <2>1, FoundMatches
  <2>. QED  BY <2>2 DEF Matches, Hidden
<1>3. dict' = e /\ last_name' = last_name /\ last_chain' = last_chain
  BY DEF Undef
<1>4. Empty # muchain
  BY DEF NameAssumption
<1>. HIDE DEF i
<1>5. /\ Good(e) /\ Len(e) = Len(dict) /\ e[i].name = Empty
      /\ \A j \in 1..Len(dict) : /\ e[j].link = dict[j].link
                                 /\ j # i => e[j] = dict[j]
  BY <1>1, <1>2, <1>4, HiddenGood
<1>. HIDE DEF e
<1>6. ChainsOf(e) = ChainsOf(dict) /\ HiddenOf(dict) \subseteq HiddenOf(e)
  BY <1>2, <1>4, <1>5 DEF ChainsOf, HiddenOf
<1>7. ASSUME NEW c \in ChainsOf(dict)
      PROVE  OwnOf(e)[c] = OwnOf(dict)[c] /\ AnchorOf(e)[c] = AnchorOf(dict)[c]
  <2>1. /\ Len(dict) <= Len(e) /\ e[c].link = dict[c].link
        /\ \A j \in 1..Len(dict) : j \in ChainsOf(dict) <=> j \in ChainsOf(e)
        /\ \A j \in 1..Len(dict) : j \notin ChainsOf(dict) => e[j].link = dict[j].link
    BY <1>1, <1>5, <1>6 DEF ChainsOf
  <2>. QED  BY <1>1, <1>5, <2>1, OwnSame
<1>8. /\ OwnOf(e) = [c \in ChainsOf(dict) |-> OwnOf(e)[c]]
      /\ OwnOf(dict) = [c \in ChainsOf(dict) |-> OwnOf(dict)[c]]
      /\ AnchorOf(e) = [c \in ChainsOf(dict) |-> AnchorOf(e)[c]]
      /\ AnchorOf(dict) = [c \in ChainsOf(dict) |-> AnchorOf(dict)[c]]
  BY <1>6 DEF OwnOf, AnchorOf
<1>9. OwnOf(e) = OwnOf(dict) /\ AnchorOf(e) = AnchorOf(dict)
  BY <1>7, <1>8
<1>10. Own' = Own /\ Anchor' = Anchor /\ HiddenWords \subseteq HiddenWords'
  BY <1>3, <1>6, <1>9, MappedNow, MappedThen DEF Mapped
<1>11. Named' = Named
  BY <1>3 DEF Named
<1>. QED  BY <1>10, <1>11 DEF Voc!Hide

LEMMA NothingChanges ==
  ASSUME DictInvariant, DictInvariant',
         UNCHANGED <<dict, last_name, last_chain>>
  PROVE  Voc!Hide
<1>1. Own' = Own /\ Anchor' = Anchor /\ HiddenWords' = HiddenWords
  BY MappedNow, MappedThen DEF Mapped
<1>2. Named' = Named
  BY DEF Named
<1>. QED  BY <1>1, <1>2 DEF Voc!Hide

LEMMA StepImplemented ==
  ASSUME NameAssumption, DictInvariant, DictInvariant', DictNext
  PROVE  Voc!Next
<1>. DEFINE Names(w, c) == /\ Voc!NameWord(w, c) \/ Voc!Define(w, c)
                           /\ HiddenWords' \in {HiddenWords, HiddenWords \cup {w}}
<1>1. ASSUME NEW t \in Token, Colon(t) \/ Uncomment(t) \/ Create(t)
      PROVE  Names(Named'.word, Named'.chain)
  BY <1>1, NamesWord, DefinesWord
<1>2. ASSUME NEW t \in Token, NEW a \in {0} \cup Chains, NewChain(t, a)
      PROVE  Names(Named'.word, Named'.chain)
  BY <1>2, DefinesChain
<1>3. ASSUME NEW t \in Token, Undef(t) PROVE Voc!Hide
  BY <1>3, HidesWord
<1>4. ASSUME \/ Nameless \/ Abandon \/ \E c \in Chains : Definitions(c)
             \/ \E m \in {"strncmp", "strncasecmp"} : Case(m)
      PROVE  Voc!Hide
  <2>1. UNCHANGED <<dict, last_name, last_chain>>
    BY <1>4 DEF Nameless, Abandon, Definitions, Case
  <2>. QED  BY <2>1, NothingChanges
<1>5. ASSUME Semicolon PROVE Voc!Reveal
  BY <1>5, RevealsWord
<1>6. Voc!Hide \/ Voc!Reveal \/ Names(Named'.word, Named'.chain)
  <2>. HIDE DEF Names
  <2>. QED  BY <1>1, <1>2, <1>3, <1>4, <1>5 DEF DictNext
<1>. QED  BY <1>6 DEF Voc!Next

\* The entries of a list that is another with an entry in front.
IsFront(j, s, u) ==
  /\ u \in Seq(Nat) /\ Len(u) = Len(s) + 1 /\ u[1] = j
  /\ Len(s) >= 1 => u[2] = s[1]
  /\ Len(s) >= 2 => u[3] = s[2]
  /\ Len(s) >= 3 => u[4] = s[3]
  /\ Len(s) >= 4 => u[5] = s[4]

Extends(j, s, u) == j \in Nat /\ s \in Seq(Nat) /\ InFront(j, s, u)

LEMMA Fronts ==
  ASSUME NEW j, NEW s, NEW u, Extends(j, s, u)
  PROVE  IsFront(j, s, u)
<1>1. /\ u \in Seq(Nat) /\ Len(u) = Len(s) + 1 /\ u[1] = j
      /\ \A k \in 1..Len(s) : u[k + 1] = s[k]
  BY Cons DEF Extends, InFront
<1>2. Len(s) \in Nat
  BY DEF Extends
<1>3. /\ Len(s) >= 1 => u[1 + 1] = s[1]
      /\ Len(s) >= 2 => u[2 + 1] = s[2]
      /\ Len(s) >= 3 => u[3 + 1] = s[3]
      /\ Len(s) >= 4 => u[4 + 1] = s[4]
  BY <1>1, <1>2
<1>. QED  BY <1>1, <1>3 DEF IsFront

\* The chains of the kernel, and their words.
LEMMA InitImplemented ==
  ASSUME NameAssumption, DictInit
  PROVE  Voc!Init
<1>. DEFINE L == Lists(dict, ChainsOf(dict))
<1>1. DictInvariant /\ Mapped /\ Good(dict)
  BY DictInitGood, MappedNow DEF DictInvariant
<1>2. /\ Len(dict) = 9
      /\ dict[1] = Entry(core, 2) /\ dict[2] = Entry(muchain, 0) /\ dict[3] = Entry(core, 1)
      /\ dict[4] = Entry(muchain, 9) /\ dict[5] = Entry(core, 3)
      /\ dict[6] = Entry(muchain, 2) /\ dict[7] = Entry(core, 5)
      /\ dict[8] = Entry(muchain, 4) /\ dict[9] = Entry(core, 7)
      /\ last_name = 9 /\ last_chain = 4
  BY DEF DictInit, Lex, Forth
<1>3. core # muchain
  BY DEF NameAssumption
<1>4. /\ dict[1].link = 2 /\ dict[2].link = 0 /\ dict[3].link = 1
      /\ dict[4].link = 9 /\ dict[5].link = 3 /\ dict[6].link = 2
      /\ dict[7].link = 5 /\ dict[8].link = 4 /\ dict[9].link = 7
      /\ dict[2].name = muchain /\ dict[4].name = muchain
      /\ dict[6].name = muchain /\ dict[8].name = muchain
      /\ dict[1].name = core /\ dict[3].name = core /\ dict[5].name = core
      /\ dict[7].name = core /\ dict[9].name = core
  BY <1>2 DEF Entry
<1>5. \A i \in 1..9 : i \in {1, 2, 3, 4, 5, 6, 7, 8, 9}
  OBVIOUS
<1>6. ChainsOf(dict) = {2, 4, 6, 8}
  BY <1>2, <1>3, <1>4, <1>5 DEF ChainsOf
<1>7. Unfolds(L, dict, ChainsOf(dict))
  BY <1>1, ListsUnfold DEF Good
<1>. HIDE DEF L
<1>8. /\ L[0] = <<>> /\ L[2] = <<>> /\ L[4] = <<>>
      /\ InFront(1, L[2], L[1]) /\ InFront(3, L[1], L[3]) /\ InFront(5, L[3], L[5])
      /\ InFront(7, L[5], L[7]) /\ InFront(9, L[7], L[9])
  <2>1. L[0] = <<>> /\ \A j \in {1, 2, 3, 4, 5, 6, 7, 8, 9} :
          L[j] = IF j \in {2, 4, 6, 8} THEN <<>> ELSE <<j>> \o L[Behind(dict, j)]
    <3>1. L[0] = <<>>
      BY <1>7 DEF Unfolds
    <3>2. ASSUME NEW j \in 1..Len(dict)
          PROVE  L[j] = IF j \in ChainsOf(dict) THEN <<>> ELSE <<j>> \o L[Behind(dict, j)]
      BY <1>7 DEF Unfolds
    <3>3. {1, 2, 3, 4, 5, 6, 7, 8, 9} = 1..Len(dict)
      BY <1>2, <1>5
    <3>. QED  BY <1>6, <3>1, <3>2, <3>3
  <2>2. /\ Behind(dict, 1) = 2 /\ Behind(dict, 3) = 1 /\ Behind(dict, 5) = 3
        /\ Behind(dict, 7) = 5 /\ Behind(dict, 9) = 7
    BY <1>4 DEF Behind
  <2>3. L[2] = <<>> /\ L[4] = <<>>
    BY <2>1
  <2>4. InFront(1, L[2], L[1])
    BY <2>1, <2>2 DEF InFront
  <2>5. InFront(3, L[1], L[3])
    BY <2>1, <2>2 DEF InFront
  <2>6. InFront(5, L[3], L[5])
    BY <2>1, <2>2 DEF InFront
  <2>7. InFront(7, L[5], L[7])
    BY <2>1, <2>2 DEF InFront
  <2>8. InFront(9, L[7], L[9])
    BY <2>1, <2>2 DEF InFront
  <2>. QED  BY <2>1, <2>3, <2>4, <2>5, <2>6, <2>7, <2>8
<1>9. /\ L[9] \in Seq(Nat) /\ Len(L[9]) = 5
      /\ L[9][1] = 9 /\ L[9][2] = 7 /\ L[9][3] = 5 /\ L[9][4] = 3 /\ L[9][5] = 1
  <2>1. L[2] \in Seq(Nat) /\ Len(L[2]) = 0
    BY <1>8
  <2>2. IsFront(1, L[2], L[1])
    <3>1. Extends(1, L[2], L[1])
      BY <1>8, <2>1 DEF Extends
    <3>. QED  BY <3>1, Fronts
  <2>3. IsFront(3, L[1], L[3])
    <3>1. Extends(3, L[1], L[3])
      BY <1>8, <2>2 DEF Extends, IsFront
    <3>. QED  BY <3>1, Fronts
  <2>4. IsFront(5, L[3], L[5])
    <3>1. Extends(5, L[3], L[5])
      BY <1>8, <2>3 DEF Extends, IsFront
    <3>. QED  BY <3>1, Fronts
  <2>5. IsFront(7, L[5], L[7])
    <3>1. Extends(7, L[5], L[7])
      BY <1>8, <2>4 DEF Extends, IsFront
    <3>. QED  BY <3>1, Fronts
  <2>6. IsFront(9, L[7], L[9])
    <3>1. Extends(9, L[7], L[9])
      BY <1>8, <2>5 DEF Extends, IsFront
    <3>. QED  BY <3>1, Fronts
  <2>7. L[1] \in Seq(Nat) /\ Len(L[1]) = 1 /\ L[1][1] = 1
    BY <2>1, <2>2 DEF IsFront
  <2>8. L[3] \in Seq(Nat) /\ Len(L[3]) = 2 /\ L[3][1] = 3 /\ L[3][2] = 1
    BY <2>3, <2>7 DEF IsFront
  <2>9. L[5] \in Seq(Nat) /\ Len(L[5]) = 3 /\ L[5][1] = 5 /\ L[5][2] = 3 /\ L[5][3] = 1
    BY <2>4, <2>8 DEF IsFront
  <2>10. /\ L[7] \in Seq(Nat) /\ Len(L[7]) = 4
         /\ L[7][1] = 7 /\ L[7][2] = 5 /\ L[7][3] = 3 /\ L[7][4] = 1
    BY <2>5, <2>9 DEF IsFront
  <2>. QED  BY <2>6, <2>10 DEF IsFront
<1>10. /\ Own[2] = <<>> /\ Own[6] = <<>> /\ Own[8] = <<>>
       /\ Own[4] = L[9] /\ DOMAIN Own = {2, 4, 6, 8}
  <2>1. Own = [c \in {2, 4, 6, 8} |-> L[dict[c].link]]
    BY <1>1, <1>6 DEF Mapped, OwnOf, WordsFrom, L
  <2>. QED  BY <1>4, <1>8, <2>1
<1>11. /\ Anchor[2] = 0 /\ Anchor[4] = 2 /\ Anchor[6] = 2 /\ Anchor[8] = 4
       /\ DOMAIN Anchor = {2, 4, 6, 8}
  <2>1. Anchor = [c \in {2, 4, 6, 8} |-> IF Own[c] = <<>> THEN dict[c].link
                                         ELSE dict[Own[c][Len(Own[c])]].link]
    BY <1>1, <1>6 DEF Mapped, AnchorOf
  <2>2. Own[4] # <<>> /\ Own[4][Len(Own[4])] = 1
    BY <1>9, <1>10
  <2>. QED  BY <1>4, <1>10, <2>1, <2>2
<1>12. Voc!Chains = {2, 4, 6, 8}
  BY <1>10 DEF Voc!Chains
<1>13. \A c \in Voc!Chains : Anchor[c] \in {0} \cup Voc!Chains
  BY <1>11, <1>12
<1>14. ASSUME NEW c \in Voc!Chains, NEW d \in Voc!Chains,
              NEW k \in 1..Len(Own[c]), NEW l \in 1..Len(Own[d]), Own[c][k] = Own[d][l]
       PROVE  c = d /\ k = l
  <2>1. c = 4 /\ d = 4
    BY <1>10, <1>12
  <2>. DEFINE s == L[9]
  <2>2. Len(s) = 5 /\ s[1] = 9 /\ s[2] = 7 /\ s[3] = 5 /\ s[4] = 3 /\ s[5] = 1 /\ Own[4] = s
    BY <1>9, <1>10
  <2>. HIDE DEF s
  <2>3. k \in {1, 2, 3, 4, 5} /\ l \in {1, 2, 3, 4, 5}
    <3>1. 1..Len(Own[c]) = 1..5 /\ 1..Len(Own[d]) = 1..5
      BY <2>1, <2>2
    <3>2. k \in 1..5 /\ l \in 1..5
      BY <3>1
    <3>. QED  BY <3>2
  <2>4. s[k] = s[l]
    BY <1>14, <2>1, <2>2
  <2>5. k = l
    BY <2>2, <2>3, <2>4
  <2>. QED  BY <2>1, <2>5
<1>15. Named.word \in Voc!Words /\ Named.chain \in Voc!Chains
  <2>1. 4 \in Chains /\ 1 \in 1..Len(Own[4]) /\ Own[4][1] = 9
    BY <1>1, <1>6, <1>9, <1>10 DEF Mapped
  <2>. QED  BY <1>1, <1>2, <1>12, <2>1, WordsMapped DEF Named
<1>. QED  BY <1>11, <1>12, <1>13, <1>14, <1>15 DEF Voc!Init

\* The links in the heap are lists of words, newest first: a word joins the
\* chain it was named for and no other, once, in front of all others, and
\* nothing else ever moves: the dictionary implements Vocabulary.
THEOREM VocabularyImplemented ==
  ASSUME NameAssumption
  PROVE  LoadingSpec => ImplementsVocabulary
<1>1. LoadingInit => Voc!Init
  BY InitImplemented DEF LoadingInit
<1>2. DictInvariant /\ DictInvariant' /\ [LoadingNext]_loading_vars
        => [part = "dict" => Voc!Next]_dict_vars
  BY StepImplemented, DictChanges
<1>. QED  BY <1>1, <1>2, InvariantHolds, PTL DEF LoadingSpec, ImplementsVocabulary
=============================================================================
